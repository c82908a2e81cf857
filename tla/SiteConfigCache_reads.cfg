SPECIFICATION Spec
CONSTANTS
  Clients = {c1, c2}
  Writers = {admin, seed}
  CliWriters = {seed}
  NSections = 2
  MaxRevision = 2
  MaxWeek = 2
SYMMETRY Symmetry
INVARIANTS
  TypeOK
  RevisionNamesOneContent
  DocumentsAreSnapshots
  EditsLiveOnNextRequest
PROPERTY
  RegisterSpec
