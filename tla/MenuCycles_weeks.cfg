SPECIFICATION Spec
CONSTANTS
  Weeks = {w35, w36, w37}
  daily = daily
  healthy = healthy
  Plans = {daily, healthy}
  SundayPlans = {daily}
  Spans <- AskedSpans
  DayLists <- AskedDays
  LastDate = 10
  NoCycle = none
INVARIANTS
  TypeOK
  DocumentValidates
  TodaysMenuIsShown
  NextFollowsCurrent
PROPERTIES
  WeeksTurnInOrder
