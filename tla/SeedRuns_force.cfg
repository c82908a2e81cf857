SPECIFICATION SeedSpec
CONSTANTS
  Seeders = {s1, s2}
  Pages = {"july", "august"}
  Weeks = {"w29", "w30", "w31", "w32"}
  WeeksOf <- MCWeeksOf
  None = None
  Admin = Admin
SYMMETRY Symmetry
INVARIANTS
  SeedTypeOK
  SeededWhole
PROPERTY
  OnlyForceReplaces
