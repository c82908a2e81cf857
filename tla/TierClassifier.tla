--------------------------- MODULE TierClassifier ---------------------------
(***************************************************************************)
(* The pricing tier of a set of delivery dates (package pricing), and the  *)
(* two validations that keep its parameters sensible: Rules.Validate for   *)
(* the thresholds, Rates.Validate for the five rates of a plan.            *)
(*                                                                         *)
(* The code sorts the dates and drops repetitions first, so an order is a  *)
(* finite set of dates.  Dates are numbers: 1 is a Monday, and a multiple  *)
(* of 7 a Sunday.                                                          *)
(***************************************************************************)
EXTENDS FiniteSetsExt

Rules == [weeklyMin : Int, monthlyMin : Int, flexiWeeklyMax : Int,
          flexiMonthlySpan : Int, weekdaySpan : Int, weeklySpan : Int,
          daysInWeek : Int, paxTableMax : Int]

Rates == [daily : Int, weekly : Int, monthly : Int, flexiWeekly : Int, flexiMonthly : Int]

Tiers == {"daily", "weekly", "monthly", "flexi", "flexi-weekly", "flexi-monthly"}

-----------------------------------------------------------------------------
(* What the write handlers refuse *)

ValidRules(r) ==
  /\ r.weeklyMin >= 1
  /\ r.monthlyMin > r.weeklyMin
  /\ r.weeklyMin <= r.flexiWeeklyMax /\ r.flexiWeeklyMax < r.monthlyMin
  /\ r.flexiMonthlySpan >= r.monthlyMin
  /\ r.weekdaySpan >= r.monthlyMin
  /\ r.weeklySpan >= r.weeklyMin
  /\ r.daysInWeek \in 1..7
  /\ r.paxTableMax >= 1

ValidRates_AnyFlexi(x) ==
  /\ \A k \in DOMAIN x : x[k] > 0
  /\ x.monthly <= x.weekly /\ x.weekly <= x.daily
ValidRates_AnySign(x) ==
  /\ x.monthly <= x.weekly /\ x.weekly <= x.daily
  /\ x.monthly <= x.flexiMonthly
  /\ x.weekly <= x.flexiWeekly /\ x.flexiWeekly <= x.daily
ValidRates(x) ==
  /\ \A k \in DOMAIN x : x[k] > 0
  /\ x.monthly <= x.weekly /\ x.weekly <= x.daily
  /\ x.monthly <= x.flexiMonthly
  /\ x.weekly <= x.flexiWeekly /\ x.flexiWeekly <= x.daily

-----------------------------------------------------------------------------
(* Analyze *)

Weekday(d) == d % 7
\* Sunday belongs to the week that started six days earlier.
MondayOf(d) == d - (IF Weekday(d) = 0 THEN 6 ELSE Weekday(d) - 1)

N(dates) == Cardinality(dates)
Span(dates) == Max(dates) - Min(dates) + 1
Gap(dates, d) == Min({e \in dates : e > d}) - d
Gaps(dates) == {Gap(dates, d) : d \in dates \ {Max(dates)}}
Consecutive(dates) == Gaps(dates) \subseteq {1}

\* A run of back-to-back dates that is not inside one calendar week.
CrossesWeek(dates, r) ==
  /\ Consecutive(dates)
  /\ N(dates) >= r.weeklyMin /\ N(dates) < r.monthlyMin
  /\ MondayOf(Min(dates)) # MondayOf(Max(dates))

MonToFri(dates) == \A d \in dates : Weekday(d) \in 1..5
MonToSat(dates) == \A d \in dates : Weekday(d) \in 1..6

\* Every working day, or every gap the weekend that is expected, within a month.
WeekdayRoutine(dates, r) ==
  /\ ~Consecutive(dates) /\ N(dates) >= r.weeklyMin
  /\ MonToFri(dates) \/ MonToSat(dates)
  /\ N(dates) >= r.monthlyMin
  /\ Gaps(dates) \subseteq (IF MonToFri(dates) THEN {1, 3} ELSE {1, 2})
  /\ Span(dates) <= r.weekdaySpan

InWeekOf(dates, d) == {e \in dates : MondayOf(e) = MondayOf(d)}

\* An order that continues into the next week, one week of it being full.
WeeklyRoutine(dates, r) ==
  /\ ~Consecutive(dates) /\ N(dates) >= r.weeklyMin
  /\ ~WeekdayRoutine(dates, r)
  /\ MonToFri(dates) \/ MonToSat(dates)
  /\ Span(dates) <= r.weeklySpan
  /\ \E d \in dates : N(InWeekOf(dates, d)) >= r.daysInWeek

\* The ladder: several conditions overlap and the first one that holds decides.
RunTier(dates, r) ==
  LET n == N(dates) IN
  IF n >= r.monthlyMin THEN "monthly"
  ELSE IF n >= r.weeklyMin /\ n <= r.flexiWeeklyMax /\ CrossesWeek(dates, r) THEN "flexi-weekly"
  ELSE IF n > r.flexiWeeklyMax THEN "flexi"
  ELSE IF n >= r.weeklyMin THEN "weekly" ELSE "daily"

ScatteredTier_FlexiFirst(dates, r) ==
  LET n == N(dates) IN
  IF n >= r.monthlyMin /\ Span(dates) <= r.flexiMonthlySpan THEN "flexi-monthly"
  ELSE IF n >= r.weeklyMin /\ n < r.monthlyMin THEN "flexi-weekly"
  ELSE IF WeekdayRoutine(dates, r) THEN "monthly"
  ELSE IF WeeklyRoutine(dates, r) THEN "weekly" ELSE "flexi"
ScatteredTier(dates, r) ==
  LET n == N(dates) IN
  IF WeekdayRoutine(dates, r) THEN "monthly"
  ELSE IF WeeklyRoutine(dates, r) THEN "weekly"
  ELSE IF n >= r.monthlyMin /\ Span(dates) <= r.flexiMonthlySpan THEN "flexi-monthly"
  ELSE IF n >= r.weeklyMin /\ n < r.monthlyMin THEN "flexi-weekly" ELSE "flexi"

Tier(dates, r) ==
  IF Consecutive(dates) THEN RunTier(dates, r) ELSE ScatteredTier(dates, r)

RateOf(tier, x) ==
  CASE tier = "monthly" -> x.monthly
    [] tier = "weekly" -> x.weekly
    [] tier = "flexi-weekly" -> x.flexiWeekly
    [] tier = "flexi-monthly" -> x.flexiMonthly
    [] OTHER -> x.daily

-----------------------------------------------------------------------------
(* The published rules, BR-3.1 to BR-3.12, each condition standing alone: the *)
(* reference the ladder is compared with.                                     *)

HasMondayInside(dates) == \E d \in dates \ {Min(dates)} : d % 7 = 1
FullWeek(dates, k) ==
  \E m \in (Min(dates) - 6)..Max(dates) : m % 7 = 1 /\ N(dates \intersect m..(m + 6)) >= k

\* The next date after d is k days later.
NextIn(dates, d, k) == d + k \in dates /\ \A e \in d + 1..d + k - 1 : e \notin dates

\* BR-3.11: steps of one day, or of the length of a weekend.
MonthRoutine(dates, r) ==
  /\ N(dates) >= r.monthlyMin /\ Span(dates) <= r.weekdaySpan
  /\ \A d \in dates : d % 7 # 0
  /\ LET weekend == IF \E d \in dates : d % 7 = 6 THEN 2 ELSE 3
     IN \A d \in dates \ {Max(dates)} : NextIn(dates, d, 1) \/ NextIn(dates, d, weekend)

\* BR-3.12, for an order that is not BR-3.11's.
TwoWeekRoutine(dates, r) ==
  /\ \A d \in dates : d % 7 # 0
  /\ Span(dates) <= r.weeklySpan
  /\ FullWeek(dates, r.daysInWeek)

Qualifies(tier, dates, r) ==
  LET n == N(dates)
      run == \A d \in dates : d = Max(dates) \/ d + 1 \in dates
      upTo(k) == n >= r.weeklyMin /\ n <= k
  IN CASE tier = "monthly" ->
            n >= r.monthlyMin /\ (run \/ MonthRoutine(dates, r))
       [] tier = "weekly" ->
            \/ run /\ upTo(r.flexiWeeklyMax) /\ ~HasMondayInside(dates)
            \/ ~run /\ ~MonthRoutine(dates, r) /\ n >= r.weeklyMin /\ TwoWeekRoutine(dates, r)
       [] tier = "flexi-weekly" ->
            \/ run /\ upTo(r.flexiWeeklyMax) /\ HasMondayInside(dates)
            \/ ~run /\ upTo(r.monthlyMin - 1) /\ ~TwoWeekRoutine(dates, r)
       [] tier = "flexi-monthly" ->
            /\ ~run /\ n >= r.monthlyMin /\ Span(dates) <= r.flexiMonthlySpan
            /\ ~MonthRoutine(dates, r) /\ ~TwoWeekRoutine(dates, r)
       [] tier = "daily" -> run /\ n < r.weeklyMin
       [] tier = "flexi" ->
            \/ run /\ n > r.flexiWeeklyMax /\ n < r.monthlyMin
            \/ ~run /\ n < r.weeklyMin
            \/ /\ ~run /\ n >= r.monthlyMin /\ Span(dates) > r.flexiMonthlySpan
               /\ ~MonthRoutine(dates, r) /\ ~TwoWeekRoutine(dates, r)
=============================================================================
