SPECIFICATION Spec
CONSTANTS
  Latest = 5
  Releases = {4, 5}
  Runners = {r1, r2, r3}
  Needs <- MCNeeds
  Pins <- MCPins
  RowsIn <- MCRowsIn
SYMMETRY Symmetry
INVARIANTS
  TypeOK
  SchemaIsWhole
  SomebodyFinishes
  ServesOnWholeSchema
