SPECIFICATION Spec
CONSTANTS
  Users = {u1, u2}
  First = u1
  Roles = {owner, manager}
  Owner = owner
  Operator = operator
  Slots = {h1, h2}
  Ops = {"create", "activate", "deactivate", "roles", "delete", "permissions"}
SYMMETRY Symmetry
INVARIANTS
  TypeOK
PROPERTY
  LastAdminGoesOnlyByRace
