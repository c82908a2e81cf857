SPECIFICATION Spec
CONSTANTS
  Clients = {c1}
  Writers = {admin}
  CliWriters = {}
  NSections = 1
  MaxRevision = 2
  MaxWeek = 2
INVARIANT ServesThisWeek
