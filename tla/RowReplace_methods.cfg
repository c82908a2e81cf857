SPECIFICATION Spec
CONSTANTS
  Writers = {w1, w2, w3}
  Keys = {k1, k2, k3}
  LowestBand = k1
  Regimes <- AllMethods
  Seed = seed
  NoRow = none
SYMMETRY Symmetry
INVARIANTS
  TypeOK
  ReplacesWhenGuarded
  ShownIsReplaced
CHECK_DEADLOCK FALSE
