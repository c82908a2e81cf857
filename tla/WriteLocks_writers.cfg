SPECIFICATION FairSpec
CONSTANTS
  p = p
  q = q
  r = r
  Procs = {p, q, r}
  Kinds = {{"upsert", "publish", "delete", "rates", "param", "rules", "nothing"},
           {"upsert", "bands"},
           {"kantor", "nothing"},
           {"seed", "delete"},
           {"roles", "remove"},
           {"perms"},
           {"purge", "logout", "remove", "update", "login", "create"}}
  Weeks = {"w1", "w2"}
  Packages = {"pkg"}
  Grades = {"reguler"}
  Plans = {"healthy"}
  Params = {"mode"}
  Users = {"u"}
  Roles = {"kitchen"}
  Keys = 2
INVARIANT
  DeadlocksAreKnown
PROPERTY
  EveryWriterEnds
