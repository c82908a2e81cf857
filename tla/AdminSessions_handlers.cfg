SPECIFICATION FairSpec
CONSTANTS
  Slots = {h1, h2}
  Tokens = {t1}
  MaxFailedAttempts = 2
  LockoutDuration = 2
  SessionTTL = 1
  Faults = TRUE
INVARIANTS
  TypeOK
  GrantsAreEntitled
  PromisesKeptWhileCalm
PROPERTIES
  LockoutEnds
  ExpiredArePurged
