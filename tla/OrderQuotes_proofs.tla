------------------------- MODULE OrderQuotes_proofs -------------------------
(* Proofs about OrderQuotes and the TierClassifier it prices with, for any    *)
(* plans, tables, requests and orders.  For every finite set of dates and all *)
(* thresholds that Rules.Validate lets in, the tier the ladder of Analyze     *)
(* picks is the one tier whose published rule the dates satisfy; packing      *)
(* dates never costs more, nothing but Flexi Bulanan costs more than the list *)
(* price, a quantity on a ladder is charged at a band that holds it, a group  *)
(* is refused only past its price table, add-ons follow the deliveries and a  *)
(* Kantor package is so many working days, none skipped.                      *)
(*                                                                            *)
(* The last part is about PricingOverlay, the page that asks for the quotes   *)
(* and shows them, for any orders, prices and timeouts.                       *)
EXTENDS OrderQuotes, PricingOverlay, FiniteSetTheorems, WellFoundedInduction, TLAPS

-----------------------------------------------------------------------------
(* Least and greatest dates *)

\* A set of natural numbers that is not empty has a least member.
LEMMA LeastNatural ==
  ASSUME NEW T \in SUBSET Nat, T # {}
  PROVE  \E x \in T : \A y \in T : x <= y
<1>1. PICK x \in T : \A y \in T : <<y, x>> \notin OpToRel(<, Nat)
  BY NatLessThanWellFounded, WFMin, Zenon
<1>2. \A y \in T : ~(y < x)
  BY <1>1 DEF OpToRel
<1> QED
  BY <1>2

\* A finite set of dates lies between two dates: the first prefix of a listing
\* of it that did not would follow one that does.
LEMMA FiniteIsBounded ==
  ASSUME NEW S \in SUBSET Int, IsFiniteSet(S)
  PROVE  \E lo \in Int, hi \in Int : \A x \in S : lo <= x /\ x <= hi
<1>1. PICK n \in Nat : ExistsSurjection(1..n, S)
  BY FS_NatSurjection
<1>2. PICK f \in [1..n -> S] : \A x \in S : \E i \in 1..n : f[i] = x
  BY <1>1 DEF ExistsSurjection, Surjection
<1> DEFINE Within(k, lo, hi) == \A i \in 1..k : lo <= f[i] /\ f[i] <= hi
           Bounded(k) == \E lo \in Int, hi \in Int : Within(k, lo, hi)
           T == {k \in 0..n : ~Bounded(k)}
<1>3. Within(0, 0, 0)
  OBVIOUS
<1>4. ASSUME NEW k \in 1..n, NEW lo \in Int, NEW hi \in Int, Within(k - 1, lo, hi)
      PROVE  \E lo2 \in Int, hi2 \in Int : Within(k, lo2, hi2)
  <2>1. f[k] \in Int
    OBVIOUS
  <2>2. PICK lo2 \in Int, hi2 \in Int : lo2 <= lo /\ lo2 <= f[k] /\ hi <= hi2 /\ f[k] <= hi2
    <3>1. PICK x \in {lo, f[k]} : x <= lo /\ x <= f[k]
      BY <2>1
    <3>2. PICK y \in {hi, f[k]} : hi <= y /\ f[k] <= y
      BY <2>1
    <3> QED
      BY <2>1, <3>1, <3>2
  <2>3. ASSUME NEW i \in 1..k PROVE f[i] \in Int /\ (i = k \/ i \in 1..(k - 1))
    <3>1. i \in 1..n /\ f[i] \in S
      OBVIOUS
    <3>2. f[i] \in Int
      BY <3>1
    <3>3. i = k \/ i \in 1..(k - 1)
      OBVIOUS
    <3> QED
      BY <3>2, <3>3
  <2>4. Within(k, lo2, hi2)
    BY <1>4, <2>2, <2>3
  <2> QED
    BY <2>4
<1>5. ASSUME NEW lo \in Int, NEW hi \in Int, Within(n, lo, hi)
      PROVE  \A x \in S : lo <= x /\ x <= hi
  BY <1>2, <1>5
<1> HIDE DEF Within, Bounded
<1>6. \A k \in 0..n : Bounded(k) <=> \E lo \in Int, hi \in Int : Within(k, lo, hi)
  BY DEF Bounded
<1>7. Bounded(n)
  <2> SUFFICES ASSUME n \in T PROVE FALSE
    OBVIOUS
  <2>1. PICK k \in T : \A j \in T : k <= j
    <3>1. T \in SUBSET Nat /\ T # {}
      OBVIOUS
    <3> QED
      BY <3>1, LeastNatural, Zenon
  <2>2. k \in 1..n /\ Bounded(k - 1)
    <3>0. Bounded(0)
      BY <1>3 DEF Bounded
    <3>1. k # 0
      BY <3>0
    <3>2. k \in 1..n /\ k - 1 \in 0..n /\ ~(k <= k - 1)
      BY <3>1
    <3> QED
      BY <2>1, <3>2
  <2>3. PICK lo \in Int, hi \in Int : Within(k - 1, lo, hi)
    BY <2>2 DEF Bounded
  <2>4. Bounded(k)
    BY <1>4, <2>2, <2>3 DEF Bounded
  <2> QED
    BY <2>4
<1>8. PICK lo \in Int, hi \in Int : Within(n, lo, hi)
  BY <1>6, <1>7
<1> QED
  BY <1>5, <1>8

\* Dates of an order: a finite set, and not an empty one.
Dates(S) == S \subseteq Int /\ IsFiniteSet(S) /\ S # {}

\* The first date of an order.
LEMMA MinIsLeast ==
  ASSUME NEW S, Dates(S)
  PROVE  Min(S) \in S /\ Min(S) \in Int /\ \A x \in S : Min(S) <= x
<1>1. PICK lo \in Int : \A x \in S : lo <= x
  BY FiniteIsBounded DEF Dates
<1> DEFINE T == {x - lo : x \in S}
<1>2. T \in SUBSET Nat /\ T # {}
  <2>1. \A x \in S : x \in Int
    BY DEF Dates
  <2>2. \A x \in S : x - lo \in Nat
    BY <1>1, <2>1
  <2> QED
    BY <2>2 DEF Dates
<1>3. PICK m \in S : \A y \in T : m - lo <= y
  BY <1>2, LeastNatural, Zenon
<1>5. \A x \in S : m <= x
  <2> TAKE x \in S
  <2>1. m - lo <= x - lo
    BY <1>3
  <2> QED
    BY <2>1 DEF Dates
<1> QED
  BY <1>5 DEF Min, Dates

\* The last date of an order.
LEMMA MaxIsGreatest ==
  ASSUME NEW S, Dates(S)
  PROVE  Max(S) \in S /\ Max(S) \in Int /\ \A x \in S : x <= Max(S)
<1>1. PICK hi \in Int : \A x \in S : x <= hi
  BY FiniteIsBounded DEF Dates
<1> DEFINE T == {hi - x : x \in S}
<1>2. T \in SUBSET Nat /\ T # {}
  <2>1. \A x \in S : x \in Int
    BY DEF Dates
  <2>2. \A x \in S : hi - x \in Nat
    BY <1>1, <2>1
  <2> QED
    BY <2>2 DEF Dates
<1>3. PICK m \in S : \A y \in T : hi - m <= y
  BY <1>2, LeastNatural, Zenon
<1>5. \A x \in S : x <= m
  <2> TAKE x \in S
  <2>1. hi - m <= hi - x
    BY <1>3
  <2> QED
    BY <2>1 DEF Dates
<1>6. \A x \in S : m >= x
  BY <1>5 DEF Dates
<1>7. \A x \in S : Max(S) >= x
  BY <1>6 DEF Max
<1>8. Max(S) \in S
  BY <1>6 DEF Max
<1> QED
  BY <1>7, <1>8 DEF Dates

-----------------------------------------------------------------------------
(* Gaps *)

\* The gap after a date is k when the next date is k days later.
LEMMA GapIsNext ==
  ASSUME NEW S, Dates(S), NEW d \in S, d # Max(S), NEW k \in Nat, k >= 1
  PROVE  Gap(S, d) = k <=> NextIn(S, d, k)
<1> DEFINE L == {e \in S : e > d}
<1>1. Dates(L)
  <2>1. Max(S) \in L
    <3>1. Max(S) \in S /\ Max(S) \in Int /\ d <= Max(S)
      BY MaxIsGreatest
    <3>2. d \in Int
      BY DEF Dates
    <3> QED
      BY <3>1, <3>2
  <2>2. IsFiniteSet(L)
    BY FS_Subset DEF Dates
  <2> QED
    BY <2>1, <2>2 DEF Dates
<1>2. Min(L) \in L /\ Min(L) \in Int /\ \A x \in L : Min(L) <= x
  BY <1>1, MinIsLeast
<1> HIDE DEF L
<1>3. ASSUME Min(L) - d = k PROVE NextIn(S, d, k)
  <2>1. d + k = Min(L) /\ d \in Int
    BY <1>2, <1>3 DEF Dates
  <2>2. ASSUME NEW e \in d + 1..d + k - 1, e \in S PROVE FALSE
    <3>1. e \in L
      BY <2>1, <2>2 DEF L
    <3> QED
      BY <1>2, <2>1, <3>1
  <2> QED
    BY <1>2, <2>1, <2>2 DEF NextIn, L
<1>4. ASSUME NextIn(S, d, k) PROVE Min(L) - d = k
  <2>1. d + k \in L /\ d \in Int
    BY <1>4 DEF NextIn, L, Dates
  <2>2. Min(L) <= d + k /\ Min(L) > d /\ Min(L) \in S
    BY <1>2, <2>1 DEF L
  <2>3. Min(L) \notin d + 1..d + k - 1
    BY <1>4, <2>2 DEF NextIn
  <2> QED
    BY <1>2, <2>1, <2>2, <2>3
<1>5. Gap(S, d) = Min(L) - d
  BY DEF Gap, L
<1> QED
  BY <1>3, <1>4, <1>5

\* Back to back: the day after every date but the last is a date.
Run(S) == \A d \in S : d = Max(S) \/ d + 1 \in S

\* The loop of Analyze that looks for a gap finds none in a run only.
LEMMA ConsecutiveIsRun ==
  ASSUME NEW S, Dates(S)
  PROVE  Consecutive(S) <=> Run(S)
<1>1. \A d \in S : d # Max(S) => (Gap(S, d) = 1 <=> NextIn(S, d, 1))
  BY GapIsNext
<1>2. \A d \in S : NextIn(S, d, 1) <=> d + 1 \in S
  BY DEF NextIn, Dates
<1> QED
  BY <1>1, <1>2 DEF Consecutive, Gaps, Run

\* A run has every day between its ends: the first missing one would follow a date.
LEMMA RunIsInterval ==
  ASSUME NEW S, Dates(S), Run(S)
  PROVE  S = Min(S)..Max(S)
<1>1. /\ Min(S) \in S /\ Min(S) \in Int /\ \A x \in S : Min(S) <= x
      /\ Max(S) \in S /\ Max(S) \in Int /\ \A x \in S : x <= Max(S)
  BY MinIsLeast, MaxIsGreatest
<1> DEFINE T == {d - Min(S) : d \in (Min(S)..Max(S)) \ S}
<1>2. ASSUME T # {} PROVE FALSE
  <2>1. T \in SUBSET Nat
    BY <1>1
  <2>2. PICK t \in T : \A y \in T : t <= y
    BY <1>2, <2>1, LeastNatural
  <2>3. PICK d \in (Min(S)..Max(S)) \ S : t = d - Min(S)
    BY <2>2
  <2>4. d - 1 \in Min(S)..Max(S)
    BY <1>1, <2>3
  <2>5. d - 1 \in S
    <3> SUFFICES ASSUME d - 1 \notin S PROVE FALSE
      OBVIOUS
    <3>1. d - 1 - Min(S) \in T
      BY <2>4
    <3> QED
      BY <1>1, <2>2, <2>3, <3>1
  <2>6. d - 1 # Max(S)
    BY <1>1, <2>3
  <2>7. (d - 1) + 1 \in S
    BY <2>5, <2>6 DEF Run
  <2> QED
    BY <1>1, <2>3, <2>7
<1>3. (Min(S)..Max(S)) \subseteq S
  BY <1>2
<1>4. S \subseteq Min(S)..Max(S)
  BY <1>1 DEF Dates
<1> QED
  BY <1>3, <1>4

-----------------------------------------------------------------------------
(* Calendar weeks *)

\* Every date is in the week of its Monday, and in no other.
LEMMA WeekOfMonday ==
  ASSUME NEW d \in Int
  PROVE  MondayOf(d) \in Int /\ MondayOf(d) % 7 = 1 /\ d \in MondayOf(d)..(MondayOf(d) + 6)
BY DEF MondayOf, Weekday

\* A Monday and the six days after it are one week.
LEMMA OneMonday ==
  ASSUME NEW d \in Int, NEW m \in Int, m % 7 = 1, d \in m..(m + 6)
  PROVE  MondayOf(d) = m
BY DEF MondayOf, Weekday

\* A run crosses into another week exactly when a Monday follows its first date.
LEMMA CrossingHasMonday ==
  ASSUME NEW S, Dates(S), Run(S)
  PROVE  MondayOf(Min(S)) # MondayOf(Max(S)) <=> HasMondayInside(S)
<1> DEFINE a == Min(S)
           z == Max(S)
<1>1. a \in Int /\ z \in Int /\ a <= z /\ a \in S /\ z \in S
  BY MinIsLeast, MaxIsGreatest
<1>2. S = a..z
  BY RunIsInterval
<1>3. /\ MondayOf(a) \in Int /\ MondayOf(a) <= a /\ a <= MondayOf(a) + 6
      /\ MondayOf(z) \in Int /\ MondayOf(z) <= z /\ z <= MondayOf(z) + 6
      /\ MondayOf(a) % 7 = 1 /\ MondayOf(z) % 7 = 1
  BY <1>1, WeekOfMonday
<1> HIDE DEF a, z
<1>4. ASSUME NEW d \in S, d # a, d % 7 = 1, MondayOf(a) = MondayOf(z) PROVE FALSE
  <2>1. d \in Int /\ a < d /\ d <= z
    BY <1>1, <1>2, <1>4
  <2>2. MondayOf(d) = MondayOf(a)
    <3> DEFINE m == MondayOf(a)
    <3>1. m \in Int /\ m <= a /\ z <= m + 6 /\ m % 7 = 1
      BY <1>3, <1>4
    <3> HIDE DEF m
    <3>2. d \in m..(m + 6)
      BY <1>1, <2>1, <3>1
    <3>3. MondayOf(d) = m
      BY <2>1, <3>1, <3>2, OneMonday
    <3> QED
      BY <3>3 DEF m
  <2>3. MondayOf(d) = d
    BY <1>4, <2>1, OneMonday
  <2> QED
    BY <1>1, <1>3, <2>1, <2>2, <2>3
<1>5. ASSUME MondayOf(a) # MondayOf(z) PROVE MondayOf(z) \in S \ {a}
  <2>1. ~(MondayOf(z) <= a)
    <3> SUFFICES ASSUME MondayOf(z) <= a PROVE FALSE
      OBVIOUS
    <3>1. a \in MondayOf(z)..(MondayOf(z) + 6)
      BY <1>1, <1>3
    <3> QED
      BY <1>1, <1>3, <1>5, <3>1, OneMonday
  <2> QED
    BY <1>1, <1>2, <1>3, <2>1
<1> QED
  BY <1>3, <1>4, <1>5 DEF HasMondayInside, a, z

\* The fullest calendar week of the code is a Monday's week of the rules.
LEMMA FullestWeek ==
  ASSUME NEW S, Dates(S), NEW k \in Int, k >= 1
  PROVE  (\E d \in S : N(InWeekOf(S, d)) >= k) <=> FullWeek(S, k)
<1>1. /\ Min(S) \in Int /\ Max(S) \in Int /\ \A x \in S : x \in Int
      /\ \A x \in S : Min(S) <= x /\ x <= Max(S)
  BY MinIsLeast, MaxIsGreatest DEF Dates
<1>2. ASSUME NEW m \in Int, m % 7 = 1, NEW d \in S, d \in m..(m + 6)
      PROVE  InWeekOf(S, d) = S \intersect m..(m + 6)
  <2>1. MondayOf(d) = m
    BY <1>1, <1>2, OneMonday
  <2>2. ASSUME NEW e \in S PROVE MondayOf(e) = m <=> e \in m..(m + 6)
    BY <1>1, <1>2, OneMonday, WeekOfMonday
  <2> QED
    BY <2>1, <2>2 DEF InWeekOf
<1>3. ASSUME NEW d \in S, N(InWeekOf(S, d)) >= k PROVE FullWeek(S, k)
  <2> DEFINE m == MondayOf(d)
  <2>1. m \in Int /\ m % 7 = 1 /\ d \in m..(m + 6)
    BY <1>1, WeekOfMonday
  <2>2. m \in (Min(S) - 6)..Max(S)
    <3>1. d \in Int /\ Min(S) <= d /\ d <= Max(S) /\ m <= d /\ d <= m + 6
      BY <1>1, <2>1
    <3> HIDE DEF m
    <3> QED
      BY <1>1, <2>1, <3>1
  <2>3. InWeekOf(S, d) = S \intersect m..(m + 6)
    BY <1>2, <2>1
  <2> QED
    BY <1>3, <2>1, <2>2, <2>3 DEF FullWeek
<1>4. ASSUME NEW m \in (Min(S) - 6)..Max(S), m % 7 = 1, N(S \intersect m..(m + 6)) >= k
      PROVE  \E d \in S : N(InWeekOf(S, d)) >= k
  <2>1. S \intersect m..(m + 6) # {}
    <3>1. N({}) = 0
      BY FS_EmptySet DEF N
    <3> QED
      BY <1>4, <3>1
  <2>2. PICK d \in S : d \in m..(m + 6)
    BY <2>1
  <2>3. InWeekOf(S, d) = S \intersect m..(m + 6)
    BY <1>1, <1>2, <1>4, <2>2
  <2> QED
    BY <1>4, <2>3
<1> QED
  BY <1>3, <1>4 DEF FullWeek

-----------------------------------------------------------------------------
(* Routines *)

\* cleanWeekdaySet says that there is no Sunday; isMonFri, that there is no Saturday either.
LEMMA CleanWeekdays ==
  ASSUME NEW S, Dates(S)
  PROVE  /\ MonToFri(S) \/ MonToSat(S) <=> \A d \in S : d % 7 # 0
         /\ (\A d \in S : d % 7 # 0) => (MonToFri(S) <=> ~\E d \in S : d % 7 = 6)
<1>1. \A d \in S : d \in Int /\ d % 7 \in 0..6
  BY DEF Dates
<1> QED
  BY <1>1 DEF MonToFri, MonToSat, Weekday

\* The gaps the code looks at are the steps of BR-3.11.
LEMMA GapsAreSteps ==
  ASSUME NEW S, Dates(S), NEW k \in Nat, k >= 1
  PROVE  Gaps(S) \subseteq {1, k} <=>
           \A d \in S \ {Max(S)} : NextIn(S, d, 1) \/ NextIn(S, d, k)
<1>1. ASSUME NEW d \in S \ {Max(S)}
      PROVE  Gap(S, d) \in {1, k} <=> NextIn(S, d, 1) \/ NextIn(S, d, k)
  BY GapIsNext
<1> QED
  BY <1>1 DEF Gaps

\* isWeekdayRoutine is BR-3.11.
LEMMA RoutineIsMonthRoutine ==
  ASSUME NEW S, Dates(S), ~Run(S), NEW r \in Rules, ValidRules(r)
  PROVE  WeekdayRoutine(S, r) <=> MonthRoutine(S, r)
<1>1. N(S) \in Nat
  BY FS_CardinalityType DEF Dates, N
<1>2. N(S) >= r.monthlyMin => N(S) >= r.weeklyMin
  BY <1>1 DEF Rules, ValidRules
<1>3. ~Consecutive(S)
  BY ConsecutiveIsRun
<1>4. \A k \in {2, 3} : Gaps(S) \subseteq {1, k} <=>
           \A d \in S \ {Max(S)} : NextIn(S, d, 1) \/ NextIn(S, d, k)
  BY GapsAreSteps
<1>5. CASE ~\A d \in S : d % 7 # 0
  BY <1>5, CleanWeekdays DEF WeekdayRoutine, MonthRoutine
<1>6. CASE (\A d \in S : d % 7 # 0) /\ MonToFri(S)
  BY <1>2, <1>3, <1>4, <1>6, CleanWeekdays DEF WeekdayRoutine, MonthRoutine
<1>7. CASE (\A d \in S : d % 7 # 0) /\ ~MonToFri(S)
  BY <1>2, <1>3, <1>4, <1>7, CleanWeekdays DEF WeekdayRoutine, MonthRoutine
<1> QED
  BY <1>5, <1>6, <1>7

\* isWeeklyRoutine is BR-3.12.
LEMMA RoutineIsTwoWeekRoutine ==
  ASSUME NEW S, Dates(S), ~Run(S), NEW r \in Rules, ValidRules(r)
  PROVE  WeeklyRoutine(S, r) <=>
           N(S) >= r.weeklyMin /\ ~MonthRoutine(S, r) /\ TwoWeekRoutine(S, r)
<1>1. (\E d \in S : N(InWeekOf(S, d)) >= r.daysInWeek) <=> FullWeek(S, r.daysInWeek)
  BY FullestWeek DEF Rules, ValidRules
<1>2. ~Consecutive(S)
  BY ConsecutiveIsRun
<1> QED
  BY <1>1, <1>2, CleanWeekdays, RoutineIsMonthRoutine DEF WeeklyRoutine, TwoWeekRoutine

-----------------------------------------------------------------------------
(* The ladder *)

\* Back-to-back dates: Harian, Mingguan, Flexi Mingguan, Flexi or Bulanan.
LEMMA RunTierIsPublished ==
  ASSUME NEW S, Dates(S), Run(S), NEW r \in Rules, ValidRules(r), NEW t \in Tiers
  PROVE  Qualifies(t, S, r) <=> RunTier(S, r) = t
<1>1. N(S) \in Nat
  BY FS_CardinalityType DEF Dates, N
<1>2. /\ r.weeklyMin \in Int /\ r.monthlyMin \in Int /\ r.flexiWeeklyMax \in Int
      /\ 1 <= r.weeklyMin /\ r.weeklyMin <= r.flexiWeeklyMax
      /\ r.flexiWeeklyMax < r.monthlyMin
  BY DEF Rules, ValidRules
<1>3. CrossesWeek(S, r) <=>
        N(S) >= r.weeklyMin /\ N(S) < r.monthlyMin /\ HasMondayInside(S)
  BY ConsecutiveIsRun, CrossingHasMonday DEF CrossesWeek
<1>4. CASE t = "monthly"
  BY <1>1, <1>2, <1>3, <1>4 DEF Run, Qualifies, RunTier
<1>5. CASE t = "weekly"
  BY <1>1, <1>2, <1>3, <1>5 DEF Run, Qualifies, RunTier
<1>6. CASE t = "flexi-weekly"
  BY <1>1, <1>2, <1>3, <1>6 DEF Run, Qualifies, RunTier
<1>7. CASE t = "flexi-monthly"
  BY <1>1, <1>2, <1>3, <1>7 DEF Run, Qualifies, RunTier
<1>8. CASE t = "daily"
  BY <1>1, <1>2, <1>3, <1>8 DEF Run, Qualifies, RunTier
<1>9. CASE t = "flexi"
  BY <1>1, <1>2, <1>3, <1>9 DEF Run, Qualifies, RunTier
<1> QED
  BY <1>4, <1>5, <1>6, <1>7, <1>8, <1>9 DEF Tiers

\* Scattered dates: Bulanan, Mingguan, the Flexi tiers, or the full rate.
LEMMA ScatteredTierIsPublished ==
  ASSUME NEW S, Dates(S), ~Run(S), NEW r \in Rules, ValidRules(r), NEW t \in Tiers
  PROVE  Qualifies(t, S, r) <=> ScatteredTier(S, r) = t
<1>1. N(S) \in Nat
  BY FS_CardinalityType DEF Dates, N
<1>2. /\ r.weeklyMin \in Int /\ r.monthlyMin \in Int /\ r.weeklyMin < r.monthlyMin
      /\ N(S) <= r.monthlyMin - 1 <=> N(S) < r.monthlyMin
      /\ ~(N(S) >= r.monthlyMin) <=> N(S) < r.monthlyMin
      /\ N(S) >= r.monthlyMin => N(S) >= r.weeklyMin
      /\ ~(N(S) >= r.weeklyMin) <=> N(S) < r.weeklyMin
  BY <1>1 DEF Rules, ValidRules
<1>3. /\ WeekdayRoutine(S, r) <=> MonthRoutine(S, r)
      /\ WeeklyRoutine(S, r) <=>
           N(S) >= r.weeklyMin /\ ~MonthRoutine(S, r) /\ TwoWeekRoutine(S, r)
  BY RoutineIsMonthRoutine, RoutineIsTwoWeekRoutine
<1>4. MonthRoutine(S, r) => N(S) >= r.monthlyMin
  BY DEF MonthRoutine
<1>5. Span(S) > r.flexiMonthlySpan <=> ~(Span(S) <= r.flexiMonthlySpan)
  BY MinIsLeast, MaxIsGreatest DEF Span, Rules
<1>6. CASE t = "monthly"
  BY <1>2, <1>3, <1>4, <1>5, <1>6 DEF Run, Qualifies, ScatteredTier
<1>7. CASE t = "weekly"
  BY <1>2, <1>3, <1>4, <1>5, <1>7 DEF Run, Qualifies, ScatteredTier
<1>8. CASE t = "flexi-weekly"
  BY <1>2, <1>3, <1>4, <1>5, <1>8 DEF Run, Qualifies, ScatteredTier
<1>9. CASE t = "flexi-monthly"
  BY <1>2, <1>3, <1>4, <1>5, <1>9 DEF Run, Qualifies, ScatteredTier
<1>10. CASE t = "daily"
  BY <1>2, <1>3, <1>4, <1>5, <1>10 DEF Run, Qualifies, ScatteredTier
<1>11. CASE t = "flexi"
  BY <1>2, <1>3, <1>4, <1>5, <1>11 DEF Run, Qualifies, ScatteredTier
<1> QED
  BY <1>6, <1>7, <1>8, <1>9, <1>10, <1>11 DEF Tiers

\* The ladder always ends at a tier.
LEMMA TierIsOne == ASSUME NEW dates, NEW r PROVE Tier(dates, r) \in Tiers
BY DEF Tier, RunTier, ScatteredTier, Tiers

\* BR-3.1 to BR-3.12 give every order one tier and only one, and the ladder of
\* Analyze finds it, whatever thresholds the validation lets in.
THEOREM TierIsPublished ==
  ASSUME NEW S, Dates(S), NEW r \in Rules, ValidRules(r)
  PROVE  {t \in Tiers : Qualifies(t, S, r)} = {Tier(S, r)}
<1>1. ASSUME NEW t \in Tiers PROVE Qualifies(t, S, r) <=> Tier(S, r) = t
  <2>1. CASE Run(S)
    BY <2>1, RunTierIsPublished, ConsecutiveIsRun DEF Tier
  <2>2. CASE ~Run(S)
    BY <2>2, ScatteredTierIsPublished, ConsecutiveIsRun DEF Tier
  <2> QED
    BY <2>1, <2>2
<1> QED
  BY <1>1, TierIsOne

-----------------------------------------------------------------------------
(* Rates *)

\* The validation bounds every rate but one by the list price.
LEMMA ListPriceBounds ==
  ASSUME NEW x \in Rates, ValidRates(x), NEW t \in Tiers, t # "flexi-monthly"
  PROVE  RateOf(t, x) <= x.daily
<1>1. /\ x.daily \in Int /\ x.weekly \in Int /\ x.monthly \in Int /\ x.flexiWeekly \in Int
      /\ x.monthly <= x.weekly /\ x.weekly <= x.daily /\ x.flexiWeekly <= x.daily
  BY DEF Rates, ValidRates
<1>2. CASE t = "monthly"       BY <1>1, <1>2 DEF RateOf
<1>3. CASE t = "weekly"        BY <1>1, <1>3 DEF RateOf
<1>4. CASE t = "flexi-weekly"  BY <1>1, <1>4 DEF RateOf
<1>5. CASE t \in {"daily", "flexi"}
  BY <1>1, <1>5 DEF RateOf
<1> QED
  BY <1>2, <1>3, <1>4, <1>5 DEF Tiers

\* The tier of the same number of dates, packed into a week or a month.
LEMMA PackedTier ==
  ASSUME NEW r \in Rules, ValidRules(r), NEW n \in Nat, n >= 1
  PROVE  /\ n >= r.monthlyMin => Tier(1..n, r) = "monthly"
         /\ n < r.weeklyMin => Tier(1..n, r) = "daily"
         /\ n >= r.weeklyMin /\ n <= r.flexiWeeklyMax /\ n <= 7 => Tier(1..n, r) = "weekly"
<1>1. N(1..n) = n /\ Dates(1..n)
  <2>1. IsFiniteSet(1..n) /\ Cardinality(1..n) = (IF 1 > n THEN 0 ELSE n - 1 + 1)
    <3>1. 1 \in Int /\ n \in Int
      OBVIOUS
    <3> QED
      BY <3>1, FS_Interval, Zenon
  <2>2. 1 \in 1..n
    OBVIOUS
  <2>3. N(1..n) = n
    BY <2>1 DEF N
  <2> QED
    BY <2>1, <2>2, <2>3 DEF Dates
<1>2. Min(1..n) = 1 /\ Max(1..n) = n
  <2>1. Min(1..n) \in 1..n /\ \A i \in 1..n : Min(1..n) <= i
    BY <1>1, MinIsLeast, Zenon
  <2>2. Max(1..n) \in 1..n /\ \A i \in 1..n : i <= Max(1..n)
    BY <1>1, MaxIsGreatest, Zenon
  <2>3. 1 \in 1..n /\ n \in 1..n
    OBVIOUS
  <2> QED
    BY <2>1, <2>2, <2>3
<1>3. Consecutive(1..n)
  <2>1. Run(1..n)
    BY <1>2 DEF Run
  <2> QED
    BY <1>1, <2>1, ConsecutiveIsRun
<1>4. n <= 7 => MondayOf(1) = MondayOf(n)
  <2>1. n <= 7 => MondayOf(1) = 1 /\ MondayOf(n) = 1
    BY OneMonday
  <2> QED
    BY <2>1
<1>5. n <= 7 => ~CrossesWeek(1..n, r)
  BY <1>2, <1>4 DEF CrossesWeek
<1>6. /\ r.weeklyMin \in Int /\ r.monthlyMin \in Int /\ r.flexiWeeklyMax \in Int
      /\ r.weeklyMin <= r.flexiWeeklyMax /\ r.flexiWeeklyMax < r.monthlyMin
  BY DEF Rules, ValidRules
<1> QED
  BY <1>1, <1>3, <1>5, <1>6 DEF Tier, RunTier

\* A discounted tier takes a week of dates, a monthly one a month of them.
LEMMA TierTakesDays ==
  ASSUME NEW S, NEW r, NEW t \in Tiers, Qualifies(t, S, r)
  PROVE  /\ t \in {"monthly", "flexi-monthly"} => N(S) >= r.monthlyMin
         /\ t \in {"weekly", "flexi-weekly"} => N(S) >= r.weeklyMin
<1>1. CASE t = "monthly"       BY <1>1 DEF Qualifies
<1>2. CASE t = "flexi-monthly" BY <1>2 DEF Qualifies
<1>3. CASE t = "weekly"        BY <1>3 DEF Qualifies
<1>4. CASE t = "flexi-weekly"  BY <1>4 DEF Qualifies
<1>5. CASE t \in {"daily", "flexi"}
  BY <1>5
<1> QED
  BY <1>1, <1>2, <1>3, <1>4, <1>5 DEF Tiers

\* The reason for Rates.Validate: scattering the dates of an order of up to a
\* week, or of a month and more, never lowers its rate.
THEOREM PackedIsCheapest ==
  ASSUME NEW S, Dates(S), NEW r \in Rules, ValidRules(r), NEW x \in Rates,
         ValidRates(x),
         (N(S) <= 7 /\ N(S) <= r.flexiWeeklyMax) \/ N(S) >= r.monthlyMin
  PROVE  RateOf(Tier(1..N(S), r), x) <= RateOf(Tier(S, r), x)
<1> DEFINE n == N(S)
           t == Tier(S, r)
<1>1. n \in Nat /\ n >= 1
  <2>1. N(S) \in Nat /\ N(S) # 0
    BY FS_CardinalityType, FS_EmptySet DEF Dates, N
  <2> QED
    BY <2>1
<1>2. /\ r.weeklyMin \in Int /\ r.monthlyMin \in Int /\ r.flexiWeeklyMax \in Int
      /\ r.weeklyMin < r.monthlyMin /\ r.flexiWeeklyMax < r.monthlyMin
  BY DEF Rules, ValidRules
<1>3. /\ x.daily \in Int /\ x.weekly \in Int /\ x.monthly \in Int
      /\ x.flexiWeekly \in Int /\ x.flexiMonthly \in Int
      /\ x.monthly <= x.weekly /\ x.weekly <= x.daily
      /\ x.monthly <= x.flexiMonthly
      /\ x.weekly <= x.flexiWeekly /\ x.flexiWeekly <= x.daily
  BY DEF Rates, ValidRates
<1>4. t \in Tiers /\ Qualifies(t, S, r)
  BY TierIsPublished
<1>5. CASE n >= r.monthlyMin
  <2>1. Tier(1..n, r) = "monthly"
    BY <1>1, <1>5, PackedTier
  <2>2. \A u \in Tiers : x.monthly <= RateOf(u, x)
    BY <1>3 DEF Tiers, RateOf
  <2> QED
    BY <1>4, <2>1, <2>2 DEF RateOf
<1>6. CASE n < r.weeklyMin
  <2>1. Tier(1..n, r) = "daily"
    BY <1>1, <1>6, PackedTier
  <2>2. t \in {"daily", "flexi"}
    BY <1>1, <1>2, <1>4, <1>6, TierTakesDays DEF Tiers
  <2> QED
    BY <1>3, <2>1, <2>2 DEF RateOf
<1>7. CASE n >= r.weeklyMin /\ n <= 7 /\ n <= r.flexiWeeklyMax
  <2>1. Tier(1..n, r) = "weekly"
    BY <1>1, <1>7, PackedTier
  <2>2. t # "monthly" /\ t # "flexi-monthly"
    BY <1>1, <1>2, <1>4, <1>7, TierTakesDays
  <2>3. \A u \in Tiers \ {"monthly", "flexi-monthly"} : x.weekly <= RateOf(u, x)
    BY <1>3 DEF Tiers, RateOf
  <2> QED
    BY <1>4, <2>1, <2>2, <2>3 DEF RateOf
<1> QED
  BY <1>1, <1>2, <1>5, <1>6, <1>7

-----------------------------------------------------------------------------
(* Ladders *)

\* The rung with the lowest top that reaches a quantity.
LEMMA LowestReach ==
  ASSUME NEW bands \in SUBSET Band, NEW minQty \in Int, ValidBands(bands, minQty),
         NEW qty \in Int, \E b \in bands : qty <= b.max
  PROVE  \E b \in bands : /\ qty <= b.max
                          /\ \A c \in bands : qty <= c.max => b.min <= c.min
<1> DEFINE Height == {b.min - minQty : b \in {c \in bands : qty <= c.max}}
<1>1. Height \in SUBSET Nat /\ Height # {}
  BY DEF ValidBands, Band
<1>2. PICK x \in Height : \A y \in Height : x <= y
  BY <1>1, LeastNatural
<1>3. PICK b \in bands : qty <= b.max /\ x = b.min - minQty
  BY <1>2
<1>4. ASSUME NEW c \in bands, qty <= c.max PROVE b.min <= c.min
  <2>1. c.min - minQty \in Height
    BY <1>4
  <2>2. b.min - minQty <= c.min - minQty
    BY <1>2, <1>3, <2>1
  <2> QED
    BY <2>2 DEF Band
<1> QED
  BY <1>3, <1>4

\* The reason for ValidateBands: from its first rung to the end of its last
\* one, a valid ladder has a rung for every quantity.
THEOREM LadderCovers ==
  ASSUME NEW bands \in SUBSET Band, NEW minQty \in Int, ValidBands(bands, minQty),
         NEW qty \in Int, minQty <= qty, \E b \in bands : qty <= b.max
  PROVE  \E b \in bands : InBand(b, qty)
<1>1. PICK b \in bands : /\ qty <= b.max
                         /\ \A c \in bands : qty <= c.max => b.min <= c.min
  BY LowestReach
<1>2. CASE b.min = minQty
  BY <1>1, <1>2 DEF InBand
<1>3. CASE b.min # minQty
  <2>1. PICK c \in bands : c.max + 1 = b.min
    BY <1>3 DEF ValidBands
  <2>2. c.min <= c.max /\ c.min \in Int /\ c.max \in Int /\ b.min \in Int
    BY DEF ValidBands, Band
  <2>3. ~(qty <= c.max)
    BY <1>1, <2>1, <2>2
  <2> QED
    BY <1>1, <2>1, <2>2, <2>3 DEF InBand
<1> QED
  BY <1>2, <1>3

\* No two rungs hold one quantity, so the order of the walk does not matter.
LEMMA OneRungHolds ==
  ASSUME NEW bands \in SUBSET Band, NEW minQty \in Int, ValidBands(bands, minQty),
         NEW qty \in Int, NEW b \in bands, NEW c \in bands,
         InBand(b, qty), InBand(c, qty)
  PROVE  b = c
BY DEF ValidBands, InBand, Band

\* bandFor's band holds the quantity whenever one does.
LEMMA BandForHolds ==
  ASSUME NEW bands \in SUBSET Band, NEW minQty \in Int, ValidBands(bands, minQty),
         NEW qty \in Int, \E b \in bands : InBand(b, qty)
  PROVE  InBand(BandFor(bands, qty), qty)
<1>1. PICK b \in bands : InBand(b, qty)
  OBVIOUS
<1>2. {c \in bands : InBand(c, qty)} = {b}
  BY <1>1, OneRungHolds
<1>3. First({b}) = b
  BY DEF First, Band
<1> QED
  BY <1>1, <1>2, <1>3 DEF BandFor

\* What LadderHasNoGap says of an answer, for any valid ladder.
LEMMA ChargedOnLadder ==
  ASSUME NEW bands \in SUBSET Band, NEW minQty \in Int, ValidBands(bands, minQty),
         NEW qty \in Int
  PROVE  OnLadder(bands, BandFor(bands, qty), qty)
<1> SUFFICES ASSUME NEW b \in bands, b.min <= qty, NEW c \in bands, qty <= c.max
             PROVE  InBand(BandFor(bands, qty), qty)
  BY DEF OnLadder, Band
<1>1. minQty <= qty
  BY DEF ValidBands, Band
<1>2. \E d \in bands : InBand(d, qty)
  BY <1>1, LadderCovers
<1> QED
  BY <1>2, BandForHolds

-----------------------------------------------------------------------------
(* Amounts *)

\* Products, quotients and rounded amounts are natural numbers.
LEMMA ProductOfNaturals == \A a, b \in Nat : a * b \in Nat
  OBVIOUS

LEMMA QuotientOfNaturals ==
  ASSUME NEW a \in Nat, NEW b \in Nat \ {0}
  PROVE  a \div b \in Nat /\ a \div b <= a
OBVIOUS

LEMMA RoundedIsNatural ==
  ASSUME NEW a \in Nat, NEW b \in Nat \ {0}
  PROVE  RoundHalfUp(a, b) \in Nat
<1>1. 2 * a + b \in Nat /\ 2 * b \in Nat \ {0}
  OBVIOUS
<1> QED
  BY <1>1, QuotientOfNaturals DEF RoundHalfUp

\* A valid ladder that is a list has a last rung, so that bandFor's fall to it
\* finds one.
LEMMA BandForIsRung ==
  ASSUME NEW bands \in SUBSET Band, IsFiniteSet(bands), NEW minQty \in Int,
         ValidBands(bands, minQty), NEW qty \in Int
  PROVE  BandFor(bands, qty) \in bands /\ BandFor(bands, qty).price \in Nat
<1>1. BandFor(bands, qty) \in bands
  <2>1. CASE \E b \in bands : InBand(b, qty)
    <3>1. PICK b \in bands : InBand(b, qty)
      BY <2>1
    <3>2. {c \in bands : InBand(c, qty)} = {b}
      BY <3>1, OneRungHolds
    <3>3. First({b}) = b
      BY DEF First, Band
    <3> QED
      BY <2>1, <3>2, <3>3 DEF BandFor
  <2>2. CASE ~\E b \in bands : InBand(b, qty)
    <3> DEFINE low == [b \in bands |-> b.min]
               lows == {b.min : b \in bands}
    <3>1. low \in Surjection(bands, lows)
      BY DEF Surjection
    <3>2. IsFiniteSet(lows)
      BY <3>1, FS_Surjection
    <3>3. Dates(lows)
      BY <3>2 DEF Dates, ValidBands, Band
    <3>4. Max(lows) \in lows /\ \A x \in lows : x <= Max(lows)
      <4> HIDE DEF lows
      <4> QED
        BY <3>3, MaxIsGreatest
    <3>5. PICK b \in bands : b.min = Max(lows)
      BY <3>4, Zenon
    <3>6. \A c \in bands : c.min <= b.min
      BY <3>4, <3>5
    <3> QED
      BY <2>2, <3>6 DEF BandFor, LastBand
  <2> QED
    BY <2>1, <2>2
<1> QED
  BY <1>1 DEF ValidBands, Band

\* What the valid rates of a plan are made of.
LEMMA RateIsNatural ==
  ASSUME NEW x \in Rates, ValidRates(x), NEW tier
  PROVE  RateOf(tier, x) \in Nat
BY DEF Rates, ValidRates, RateOf

-----------------------------------------------------------------------------
(* Add-ons *)

\* An add-on's days are delivery days.
LEMMA MatchingIsSubset ==
  ASSUME NEW a, NEW dates, IsFiniteSet(dates), NEW c
  PROVE  /\ Matching(a, dates, c) \subseteq dates
         /\ Cardinality(Matching(a, dates, c)) \in Nat
         /\ Cardinality(Matching(a, dates, c)) <= Cardinality(dates)
<1>1. Matching(a, dates, c) \in SUBSET dates
  BY DEF Matching
<1> QED
  BY <1>1, FS_Subset, FS_CardinalityType

\* No more portions than heads.
LEMMA PortionsWithinGroup ==
  ASSUME NEW a \in Addons, NEW pax \in Paxes, NEW tier
  PROVE  Portions(a, pax, tier) \in Nat /\ Portions(a, pax, tier) <= pax
<1>1. a.portion \in Nat /\ pax \in Nat
  BY QuoteAssumption
<1>2. a.portion > 0 => pax \div a.portion \in Nat /\ pax \div a.portion <= pax
  BY <1>1, QuotientOfNaturals
<1> QED
  BY <1>1, <1>2 DEF Portions

-----------------------------------------------------------------------------
(* The working days of a Kantor package *)

\* Any three days on end have a working day among them.
LEMMA WorkingDayInThree ==
  ASSUME NEW d \in Int
  PROVE  \E e \in d .. d + 2 : Weekday(e) \in 1..5
<1>1. Weekday(d) \in 1..5 \/ Weekday(d + 1) \in 1..5 \/ Weekday(d + 2) \in 1..5
  BY DEF Weekday
<1> QED
  BY <1>1

\* So 3 * days + 14 days have as many working days as the package asks for:
\* the i-th is taken from the i-th three days.
LEMMA WalkIsLongEnough ==
  ASSUME NEW start \in Int, NEW days \in Nat
  PROVE  /\ IsFiniteSet(WorkingDays(start, days)) /\ WorkingDays(start, days) \subseteq Int
         /\ days <= Cardinality(WorkingDays(start, days))
<1> DEFINE T == {d \in start .. start + WalkLimit(days) - 1 : Weekday(d) \in 1..5}
<1>1. start + WalkLimit(days) - 1 \in Int /\ WalkLimit(days) = 3 * days + 14
  BY DEF WalkLimit
<1>2. IsFiniteSet(T) /\ T \subseteq Int
  <2>1. T \in SUBSET (start .. start + WalkLimit(days) - 1) /\ T \subseteq Int
    BY <1>1
  <2>2. IsFiniteSet(start .. start + WalkLimit(days) - 1)
    BY <1>1, FS_Interval
  <2> HIDE DEF T
  <2> QED
    BY <2>1, <2>2, FS_Subset
<1> DEFINE third(i) == start + 3 * (i - 1)
           f == [i \in 1 .. days |-> CHOOSE d \in T : third(i) <= d /\ d <= third(i) + 2]
<1>3. ASSUME NEW i \in 1 .. days
      PROVE  f[i] \in T /\ third(i) <= f[i] /\ f[i] <= third(i) + 2
  <2>1. third(i) \in Int
    OBVIOUS
  <2>2. PICK e \in third(i) .. third(i) + 2 : Weekday(e) \in 1..5
    BY <2>1, WorkingDayInThree
  <2>3. e \in start .. start + WalkLimit(days) - 1
    BY <1>1, <2>1, <2>2
  <2>4. e \in T /\ third(i) <= e /\ e <= third(i) + 2
    BY <2>1, <2>2, <2>3
  <2> HIDE DEF third
  <2> QED
    BY <2>4
<1>4. ASSUME NEW i \in 1 .. days, NEW j \in 1 .. days, f[i] = f[j] PROVE i = j
  <2>. i \in Int /\ j \in Int
    OBVIOUS
  <2>1. \A x \in Int :
          third(i) <= x /\ x <= third(i) + 2 /\ third(j) <= x /\ x <= third(j) + 2 => i = j
    <3>1. third(i) \in Int /\ third(j) \in Int
      OBVIOUS
    <3>2. i < j => third(i) + 3 <= third(j)
      OBVIOUS
    <3>3. j < i => third(j) + 3 <= third(i)
      OBVIOUS
    <3> HIDE DEF third
    <3> QED
      BY <3>1, <3>2, <3>3
  <2> HIDE DEF f, third
  <2>2. f[i] \in Int
    BY <1>1, <1>3
  <2> QED
    BY <1>3, <1>4, <2>1, <2>2, Zenon
<1>5. f \in Injection(1 .. days, T)
  <2>1. f \in [1 .. days -> T]
    <3>1. \A i \in 1 .. days : f[i] \in T
      BY <1>3
    <3> QED
      BY <3>1
  <2> HIDE DEF f
  <2>2. \A i, j \in 1 .. days : f[i] = f[j] => i = j
    BY <1>4
  <2> QED
    BY <2>1, <2>2 DEF Injection, IsInjective
<1>6. Cardinality(1 .. days) = days
  BY FS_Interval
<1>7. WorkingDays(start, days) = T
  BY DEF WorkingDays
<1> HIDE DEF f, T
<1> QED
  BY <1>2, <1>5, <1>6, <1>7, FS_Injection

\* The dates served are the working days before some cut, which follows the
\* last of them.
LEMMA ServedUpToCut ==
  ASSUME NEW start \in Int, NEW days \in Nat \ {0}
  PROVE  \E cut \in start + 1 .. start + WalkLimit(days) :
           /\ KantorDates(start, days) = {d \in start .. cut - 1 : Weekday(d) \in 1..5}
           /\ IsFiniteSet(KantorDates(start, days))
           /\ Cardinality(KantorDates(start, days)) = days
           /\ cut - 1 \in KantorDates(start, days)
<1> DEFINE end == start + WalkLimit(days)
           T == WorkingDays(start, days)
           before(x) == {e \in T : e < x}
           reaching == {x \in Nat : days <= Cardinality(before(start + x))}
<1>1. end \in Int /\ WalkLimit(days) \in Nat
  BY DEF WalkLimit
<1>2. IsFiniteSet(T) /\ days <= Cardinality(T) /\ T \subseteq Int
  BY <1>1, WalkIsLongEnough
<1>3. \A d : d \in T <=> d \in start .. end - 1 /\ Weekday(d) \in 1..5
  BY <1>1 DEF WorkingDays
<1>4. \A x \in Int : \A e : e \in before(x) <=> e \in T /\ e < x
  OBVIOUS
<1>5. \A d : d \in KantorDates(start, days) <=> d \in T /\ Cardinality(before(d)) < days
  BY DEF KantorDates
<1> HIDE DEF T
<1>6. ASSUME NEW x \in Int
      PROVE  IsFiniteSet(before(x)) /\ Cardinality(before(x)) \in Nat
  BY <1>2, FS_Subset, FS_CardinalityType
<1> HIDE DEF before, end
<1>7. WalkLimit(days) \in reaching
  <2>1. before(end) = T
    BY <1>1, <1>2, <1>3, <1>4
  <2>2. end = start + WalkLimit(days)
    BY DEF end
  <2> QED
    BY <1>1, <1>2, <2>1, <2>2
<1>8. PICK n \in reaching : \A y \in reaching : n <= y
  BY <1>7, LeastNatural
<1>9. PICK cut \in Int : cut = start + n
  BY <1>8
<1>10. days <= Cardinality(before(cut)) /\ n \in Nat /\ n <= WalkLimit(days)
  BY <1>7, <1>8, <1>9
<1>11. ASSUME NEW x \in Int, x < cut PROVE Cardinality(before(x)) < days
  <2>1. CASE x < start
    <3>1. before(x) = {}
      BY <1>1, <1>3, <1>4, <2>1
    <3> QED
      BY <3>1, FS_EmptySet
  <2>2. CASE x >= start
    <3>1. x - start \in Nat /\ start + (x - start) = x /\ ~(n <= x - start)
      BY <1>9, <1>10, <1>11, <2>2
    <3>2. x - start \notin reaching
      BY <1>8, <3>1
    <3> QED
      BY <1>6, <3>1, <3>2
  <2> QED
    BY <2>1, <2>2
<1> HIDE DEF reaching
<1>12. cut - 1 \in Int /\ cut - 1 < cut
  BY <1>9
<1>13. cut - 1 \in T /\ Cardinality(before(cut)) = days
  <2>1. before(cut) \in SUBSET (before(cut - 1) \cup {cut - 1})
    <3>1. \A e \in Int : e < cut => e < cut - 1 \/ e = cut - 1
      BY <1>12
    <3> QED
      BY <1>2, <1>4, <1>12, <3>1
  <2>2. before(cut - 1) \subseteq before(cut)
    <3>1. \A e \in Int : e < cut - 1 => e < cut
      BY <1>12
    <3> QED
      BY <1>2, <1>4, <1>12, <3>1
  <2>3. cut - 1 \notin T => before(cut) = before(cut - 1)
    <3>1. cut - 1 \notin T => cut - 1 \notin before(cut)
      BY <1>4
    <3> QED
      BY <2>1, <2>2, <3>1
  <2>4. IsFiniteSet(before(cut - 1)) /\ Cardinality(before(cut - 1)) \in Nat
        /\ Cardinality(before(cut - 1)) < days
    BY <1>6, <1>11, <1>12
  <2>5. IsFiniteSet(before(cut - 1) \cup {cut - 1})
        /\ Cardinality(before(cut - 1) \cup {cut - 1}) <= Cardinality(before(cut - 1)) + 1
    <3>1. IsFiniteSet(before(cut - 1) \cup {cut - 1})
          /\ Cardinality(before(cut - 1) \cup {cut - 1})
               = IF cut - 1 \in before(cut - 1) THEN Cardinality(before(cut - 1))
                 ELSE Cardinality(before(cut - 1)) + 1
      BY <2>4, FS_AddElement, Zenon
    <3> QED
      BY <2>4, <3>1
  <2>6. Cardinality(before(cut)) <= Cardinality(before(cut - 1) \cup {cut - 1})
    BY <2>1, <2>5, FS_Subset
  <2>7. Cardinality(before(cut)) \in Nat
        /\ Cardinality(before(cut - 1) \cup {cut - 1}) \in Nat
    BY <1>6, <2>5, FS_CardinalityType
  <2>8. \A b, u, c \in Nat : days <= c /\ c <= u /\ u <= b + 1 /\ b < days => c = days
    OBVIOUS
  <2>9. Cardinality(before(cut)) = days
    BY <1>10, <2>4, <2>5, <2>6, <2>7, <2>8, Zenon
  <2> QED
    BY <2>3, <2>4, <2>9
<1>14. ASSUME NEW d \in T PROVE Cardinality(before(d)) < days <=> d < cut
  <2>1. d \in Int
    BY <1>2
  <2>2. CASE d < cut
    BY <1>11, <2>1, <2>2
  <2>3. CASE ~(d < cut)
    <3>1. \A e \in Int : e < cut => e < d
      BY <2>1, <2>3
    <3>2. before(cut) \in SUBSET before(d)
      BY <1>2, <1>4, <2>1, <3>1
    <3>3. Cardinality(before(cut)) <= Cardinality(before(d))
      BY <1>6, <2>1, <3>2, FS_Subset
    <3> QED
      BY <1>6, <1>13, <2>1, <2>3, <3>3
  <2> QED
    BY <2>2, <2>3
<1>15. KantorDates(start, days) = before(cut)
  BY <1>4, <1>5, <1>14
<1>16. end = start + WalkLimit(days)
  BY DEF end
<1>17. cut \in start + 1 .. start + WalkLimit(days)
  BY <1>1, <1>3, <1>9, <1>10, <1>12, <1>13, <1>16
<1>18. before(cut) = {d \in start .. cut - 1 : Weekday(d) \in 1..5}
  <2>1. \A d \in Int : d \in start .. end - 1 /\ d < cut <=> d \in start .. cut - 1
    BY <1>1, <1>16, <1>17
  <2> QED
    BY <1>2, <1>3, <1>4, <2>1
<1>19. cut - 1 \in before(cut) /\ IsFiniteSet(before(cut))
  BY <1>4, <1>6, <1>12, <1>13
<1> QED
  BY <1>13, <1>15, <1>17, <1>18, <1>19

\* The dates of a Kantor package are working days from the start on, as many as it
\* has, and no working day between the first and the last is left out
\* (domain/pricing/quote.go).
THEOREM KantorDatesAreTheNextWorkingDays ==
  ASSUME NEW start \in Int, NEW days \in Nat \ {0}, NEW served,
         served = KantorDates(start, days)
  PROVE  /\ IsFiniteSet(served) /\ Cardinality(served) = days
         /\ \A d \in start .. Max(served) : (d \in served) <=> (Weekday(d) \in 1..5)
<1>1. PICK cut \in start + 1 .. start + WalkLimit(days) :
        /\ served = {d \in start .. cut - 1 : Weekday(d) \in 1..5}
        /\ IsFiniteSet(served) /\ Cardinality(served) = days /\ cut - 1 \in served
  BY ServedUpToCut
<1>2. cut \in Int
  BY DEF WalkLimit
<1>3. Dates(served)
  BY <1>1, <1>2 DEF Dates
<1>4. Max(served) \in Int /\ Max(served) <= cut - 1
  <2>1. Max(served) \in served /\ Max(served) \in Int
    BY <1>3, MaxIsGreatest
  <2> QED
    BY <1>1, <1>2, <2>1
<1>5. ASSUME NEW d \in start .. Max(served) PROVE d \in start .. cut - 1
  BY <1>2, <1>4
<1> QED
  BY <1>1, <1>5

-----------------------------------------------------------------------------
(* The inductive invariant *)

\* What is published has passed its validation; a product's ladder starts
\* wherever its request said, hence the quantifier.
CatalogueIsValid ==
  /\ rules \in Rules /\ ValidRules(rules)
  /\ rates \in [Plans -> Rates] /\ \A p \in Plans : ValidRates(rates[p])
  /\ ladder \in SUBSET Band /\ \E m \in Int : ValidBands(ladder, m)
  /\ kantor \in SUBSET Band /\ ValidBands(kantor, KantorMin)
  /\ IsFiniteSet(ladder) /\ IsFiniteSet(kantor)

\* An unread answer fits the catalogue it was computed from.
AnswerFits ==
  /\ TierIsThePublishedOne /\ PackingNeverCostsMore /\ OnlyFlexiMonthlyOverList
  /\ LadderHasNoGap /\ RefusedOnlyPastTheTable

\* It has an amount, for the days and the add-ons it is to charge for.
Priced == {"subscription", "tier_product", "kantor"}
AnswerIsWhole ==
  /\ answer.kind \in {"none", "refused"} \cup Priced
  /\ answer.kind \in Priced => answer.total >= 0
  /\ AddonsFollowDeliveries /\ KantorServesEveryDay

IInv == CatalogueIsValid /\ AnswerFits /\ AnswerIsWhole

\* The seeded catalogue has passed the validations.
LEMMA InitIInv == Init => IInv
<1> SUFFICES ASSUME Init PROVE IInv
  OBVIOUS
<1>1. rules \in Rules /\ ValidRules(rules)
  BY QuoteAssumption DEF Init
<1>2. rates \in [Plans -> Rates] /\ \A p \in Plans : ValidRates(rates[p])
  BY QuoteAssumption DEF Init
<1>3. ladder \in SUBSET Band /\ IsFiniteSet(ladder) /\ \E m \in Int : ValidBands(ladder, m)
  BY QuoteAssumption DEF Init
<1>4. kantor \in SUBSET Band /\ IsFiniteSet(kantor) /\ ValidBands(kantor, KantorMin)
  BY QuoteAssumption DEF Init
<1>5. AnswerFits
  BY DEF Init, NoAnswer, AnswerFits, TierIsThePublishedOne, PackingNeverCostsMore,
      OnlyFlexiMonthlyOverList, LadderHasNoGap, RefusedOnlyPastTheTable
<1>6. AnswerIsWhole
  BY DEF Init, NoAnswer, AnswerIsWhole, Priced, AddonsFollowDeliveries,
         KantorServesEveryDay
<1> QED
  BY <1>1, <1>2, <1>3, <1>4, <1>5, <1>6 DEF IInv, CatalogueIsValid

\* An edit puts validated values in the place of others, and nobody holds an
\* answer meanwhile.
LEMMA EditKeeps == ASSUME IInv, answer = NoAnswer, Edit PROVE IInv'
<1>1. answer' = NoAnswer
  BY DEF Edit, SetPricingRules, SetPlanRates, SetTierPrices, SetKantorRates
<1>2. AnswerFits' /\ AnswerIsWhole'
  BY <1>1 DEF NoAnswer, AnswerFits, TierIsThePublishedOne, PackingNeverCostsMore,
      OnlyFlexiMonthlyOverList, LadderHasNoGap, RefusedOnlyPastTheTable,
      AnswerIsWhole, Priced, AddonsFollowDeliveries, KantorServesEveryDay
<1>3. CASE \E r \in RuleRequests : SetPricingRules(r)
  BY <1>2, <1>3, QuoteAssumption DEF IInv, CatalogueIsValid, SetPricingRules
<1>4. CASE \E p \in Plans, x \in RateRequests : SetPlanRates(p, x)
  <2>1. PICK p \in Plans, x \in RateRequests : SetPlanRates(p, x)
    BY <1>4
  <2>2. /\ rates' \in [Plans -> Rates]
        /\ \A q \in Plans : rates'[q] = x \/ rates'[q] = rates[q]
    BY <2>1, QuoteAssumption DEF SetPlanRates, IInv, CatalogueIsValid
  <2>3. \A q \in Plans : ValidRates(rates'[q])
    BY <2>1, <2>2 DEF SetPlanRates, IInv, CatalogueIsValid
  <2> QED
    BY <1>2, <2>1, <2>2, <2>3 DEF SetPlanRates, IInv, CatalogueIsValid
<1>5. CASE \E q \in ProductRequests : SetTierPrices(q)
  BY <1>2, <1>5, QuoteAssumption DEF IInv, CatalogueIsValid, SetTierPrices
<1>6. CASE \E b \in KantorRequests : SetKantorRates(b)
  BY <1>2, <1>6, QuoteAssumption DEF IInv, CatalogueIsValid, SetKantorRates
<1> QED
  BY <1>3, <1>4, <1>5, <1>6 DEF Edit

\* A subscription's tier and rate come from the dates and the plan's rates.
LEMMA SubscriptionFits ==
  ASSUME IInv, NEW p \in Plans, NEW dates \in Orders, NEW pax, NEW a, NEW c, NEW rate,
         NEW menu,
         Answer(Subscription(p, dates, pax, a, c, rate, menu))
  PROVE  AnswerFits'
<1>1. /\ answer'.kind = "subscription" /\ answer'.plan = p
      /\ answer'.dates = dates /\ answer'.tier = Tier(dates, rules)
      /\ rates' = rates /\ rules' = rules
  BY DEF Answer, Subscription, catalogue
<1>2. /\ Dates(dates) /\ rules \in Rules /\ ValidRules(rules)
      /\ rates[p] \in Rates /\ ValidRates(rates[p])
  BY QuoteAssumption DEF Dates, IInv, CatalogueIsValid
<1>3. TierIsThePublishedOne'
  BY <1>1, <1>2, TierIsPublished DEF TierIsThePublishedOne
<1>4. PackingNeverCostsMore'
  BY <1>1, <1>2, PackedIsCheapest DEF PackingNeverCostsMore, Packed, N
<1>5. OnlyFlexiMonthlyOverList'
  BY <1>1, <1>2, TierIsOne, ListPriceBounds DEF OnlyFlexiMonthlyOverList
<1> QED
  BY <1>1, <1>3, <1>4, <1>5 DEF AnswerFits, LadderHasNoGap, RefusedOnlyPastTheTable

\* paxTableDayTotal refuses a group when the row it needs is missing.
LEMMA RefusalFits ==
  ASSUME IInv, NEW p \in Plans, NEW dates, NEW pax \in Paxes, RefuseForTable(p, dates,
         pax)
  PROVE  AnswerFits'
<1>1. /\ answer'.kind = "refused" /\ answer'.plan = p
      /\ answer'.tier = Tier(dates, rules) /\ rules' = rules
      /\ RowFor(pax) \notin DOMAIN PaxTable[p][Tier(dates, rules)]
  BY DEF RefuseForTable, Answer, catalogue
<1>2. RowFor(pax) \in 1..rules.paxTableMax
  BY QuoteAssumption DEF RowFor, IInv, CatalogueIsValid, ValidRules, Rules
<1> QED
  BY <1>1, <1>2 DEF AnswerFits, TierIsThePublishedOne, PackingNeverCostsMore,
      OnlyFlexiMonthlyOverList, LadderHasNoGap, RefusedOnlyPastTheTable

\* The band of a tier product, its quantity raised to the minimum.
LEMMA ProductFits ==
  ASSUME IInv, NEW dates, NEW qty \in Quantities, NEW a, NEW c,
         QuoteTierProduct(dates, qty, a, c)
  PROVE  AnswerFits'
<1>1. /\ answer'.kind = "tier_product" /\ answer'.qty = Clamped(qty)
      /\ answer'.band = BandFor(ladder, Clamped(qty)) /\ ladder' = ladder
  BY DEF QuoteTierProduct, Answer, catalogue
<1>2. Clamped(qty) \in Int
  BY QuoteAssumption DEF Clamped
<1>3. OnLadder(ladder, BandFor(ladder, Clamped(qty)), Clamped(qty))
  BY <1>2, ChargedOnLadder DEF IInv, CatalogueIsValid
<1> QED
  BY <1>1, <1>3 DEF AnswerFits, TierIsThePublishedOne, PackingNeverCostsMore,
      OnlyFlexiMonthlyOverList, LadderHasNoGap, RefusedOnlyPastTheTable

\* The band of a Kantor group.
LEMMA KantorFits ==
  ASSUME IInv, NEW start, NEW days, NEW pax \in Paxes, NEW a, NEW c,
         QuoteKantor(start, days, pax, a, c)
  PROVE  AnswerFits'
<1>1. /\ answer'.kind = "kantor" /\ answer'.pax = pax
      /\ answer'.band = BandFor(kantor, pax) /\ kantor' = kantor
  BY DEF QuoteKantor, Answer, catalogue
<1>2. OnLadder(kantor, BandFor(kantor, pax), pax)
  BY QuoteAssumption, ChargedOnLadder DEF IInv, CatalogueIsValid, KantorMin
<1> QED
  BY <1>1, <1>2 DEF AnswerFits, TierIsThePublishedOne, PackingNeverCostsMore,
      OnlyFlexiMonthlyOverList, LadderHasNoGap, RefusedOnlyPastTheTable

-----------------------------------------------------------------------------
(* Amounts, add-ons and served days of an answer *)

\* A subscription charges the menu, and each matched date for its portions.
LEMMA SubscriptionWhole ==
  ASSUME IInv, NEW p \in Plans, NEW dates \in Orders, NEW pax \in Paxes,
         NEW a \in Addons,
         NEW c, NEW rate, NEW menu \in Nat,
         Answer(Subscription(p, dates, pax, a, c, rate, menu))
  PROVE  AnswerIsWhole'
<1> DEFINE matched == Matching(a, dates, c)
           portions == IF matched = {} THEN 0 ELSE Portions(a, pax, Tier(dates, rules))
<1>1. /\ answer'.kind = "subscription" /\ answer'.dates = dates /\ answer'.pax = pax
      /\ answer'.charged = matched /\ answer'.portions = portions
      /\ answer'.total = menu + a.price * portions * Cardinality(matched)
  BY DEF Answer, Subscription
<1>2. matched \subseteq dates /\ Cardinality(matched) \in Nat
  BY QuoteAssumption, MatchingIsSubset
<1>3. portions \in Nat /\ portions <= pax
  BY QuoteAssumption, PortionsWithinGroup
<1>4. a.price \in Nat
  BY QuoteAssumption
<1> HIDE DEF matched, portions
<1>5. a.price * portions \in Nat
  BY <1>3, <1>4, ProductOfNaturals
<1>6. a.price * portions * Cardinality(matched) \in Nat
  BY <1>2, <1>5, ProductOfNaturals
<1>7. answer'.total >= 0
  BY <1>1, <1>6
<1> QED
  BY <1>1, <1>2, <1>3, <1>7
     DEF AnswerIsWhole, Priced, AddonsFollowDeliveries, KantorServesEveryDay

\* The menu by the plan's rate.
LEMMA ByRateWhole ==
  ASSUME IInv, NEW p \in Plans, NEW dates \in Orders, NEW pax \in Paxes,
         NEW a \in Addons,
         NEW c, QuoteByRate(p, dates, pax, a, c)
  PROVE  AnswerIsWhole'
<1> DEFINE rate == RateOf(Tier(dates, rules), rates[p])
<1>1. rate \in Nat
  BY RateIsNatural DEF IInv, CatalogueIsValid
<1>2. Cardinality(dates) \in Nat /\ pax \in Nat
  BY QuoteAssumption, FS_CardinalityType
<1>3. Answer(Subscription(p, dates, pax, a, c, rate, rate * Cardinality(dates) * pax))
  BY DEF QuoteByRate
<1> HIDE DEF rate
<1>4. rate * Cardinality(dates) * pax \in Nat
  BY <1>1, <1>2, ProductOfNaturals
<1> QED
  BY <1>3, <1>4, SubscriptionWhole

\* The menu by the group table, past its end by the head.
LEMMA ByTableWhole ==
  ASSUME IInv, NEW p \in Plans, NEW dates \in Orders, NEW pax \in Paxes,
         NEW a \in Addons,
         NEW c, QuoteByTable(p, dates, pax, a, c)
  PROVE  AnswerIsWhole'
<1> DEFINE tier == Tier(dates, rules)
           table == PaxTable[p][tier]
           dayTotal == DayTotal(table, pax)
<1>1. tier \in {"weekly", "monthly"} /\ RowFor(pax) \in DOMAIN table
  BY DEF QuoteByTable, UsesTable
<1>2. Answer(Subscription(p, dates, pax, a, c, RoundHalfUp(dayTotal, pax),
                          dayTotal * Cardinality(dates)))
  BY DEF QuoteByTable
<1>3. Cardinality(dates) \in Nat /\ pax \in Nat
  BY QuoteAssumption, FS_CardinalityType
<1> HIDE DEF tier
<1>4. table[RowFor(pax)] \in Nat
  BY <1>1, QuoteAssumption
<1> HIDE DEF table
<1>5. dayTotal \in Nat
  <2>1. CASE pax <= rules.paxTableMax
    BY <1>4, <2>1 DEF DayTotal, RowFor
  <2>2. CASE ~(pax <= rules.paxTableMax)
    <3>1. rules.paxTableMax \in Nat \ {0}
      BY DEF IInv, CatalogueIsValid, ValidRules, Rules
    <3>2. RoundHalfUp(table[RowFor(pax)], rules.paxTableMax) \in Nat
      BY <1>4, <3>1, RoundedIsNatural
    <3> QED
      BY <1>3, <2>2, <3>2, ProductOfNaturals DEF DayTotal
  <2> QED
    BY <2>1, <2>2
<1> HIDE DEF dayTotal
<1>6. dayTotal * Cardinality(dates) \in Nat
  BY <1>3, <1>5, ProductOfNaturals
<1> QED
  BY <1>2, <1>6, SubscriptionWhole

\* A quantity times what a band charges for the days, and the add-on.
LEMMA BandTotal ==
  ASSUME NEW qty \in Nat, NEW price \in Nat, NEW days \in Nat, NEW extra \in Nat,
         NEW charged \in Nat
  PROVE  qty * (price * days + extra * charged) \in Nat
<1>1. price * days \in Nat /\ extra * charged \in Nat
  BY ProductOfNaturals
<1>2. price * days + extra * charged \in Nat
  BY <1>1
<1> QED
  BY <1>2, ProductOfNaturals

\* A product of a ladder: its deliveries and its add-ons.
LEMMA ProductWhole ==
  ASSUME IInv, NEW dates \in Orders, NEW qty \in Quantities, NEW a \in Addons, NEW c,
         QuoteTierProduct(dates, qty, a, c)
  PROVE  AnswerIsWhole'
<1> DEFINE band == BandFor(ladder, Clamped(qty))
           charged == Cardinality(Matching(a, dates, c))
<1>1. /\ answer'.kind = "tier_product" /\ answer'.days = Cardinality(dates)
      /\ answer'.charged = charged
      /\ answer'.total = Clamped(qty) * (band.price * Cardinality(dates) + a.price * charged)
  BY DEF QuoteTierProduct, Answer
<1>2. Clamped(qty) \in Nat
  BY QuoteAssumption DEF Clamped
<1>3. band.price \in Nat
  <2>1. PICK m \in Int : ValidBands(ladder, m)
    BY DEF IInv, CatalogueIsValid
  <2>2. ladder \in SUBSET Band /\ IsFiniteSet(ladder)
    BY DEF IInv, CatalogueIsValid
  <2> QED
    BY <1>2, <2>1, <2>2, BandForIsRung
<1>4. IsFiniteSet(dates) /\ Cardinality(dates) \in Nat /\ a.price \in Nat
  BY QuoteAssumption, FS_CardinalityType
<1>5. charged \in Nat /\ charged <= Cardinality(dates)
  BY <1>4, MatchingIsSubset
<1> HIDE DEF band, charged
<1>6. answer'.total \in Nat
  BY <1>1, <1>2, <1>3, <1>4, <1>5, BandTotal
<1> QED
  BY <1>1, <1>5, <1>6
     DEF AnswerIsWhole, Priced, AddonsFollowDeliveries, KantorServesEveryDay

\* A Kantor package: its working days and its add-ons.
LEMMA KantorWhole ==
  ASSUME IInv, NEW start \in Starts, NEW days \in KantorDays, NEW pax \in Paxes,
         NEW a \in Addons, NEW c, QuoteKantor(start, days, pax, a, c)
  PROVE  AnswerIsWhole'
<1> DEFINE band == BandFor(kantor, pax)
           served == KantorDates(start, days)
           charged == IF a.restrict = {} THEN days ELSE Cardinality(Matching(a, served, c))
<1>1. /\ answer'.kind = "kantor" /\ answer'.start = start /\ answer'.days = days
      /\ answer'.served = served /\ answer'.charged = charged
      /\ answer'.total = pax * (band.price * days + a.price * charged)
  BY DEF QuoteKantor, Answer
<1>2. start \in Int /\ days \in Nat \ {0} /\ pax \in Nat /\ a.price \in Nat
  BY QuoteAssumption
<1>3. /\ IsFiniteSet(served) /\ Cardinality(served) = days
      /\ \A d \in start .. Max(served) : (d \in served) <=> (Weekday(d) \in 1..5)
  BY <1>2, KantorDatesAreTheNextWorkingDays
<1>4. band.price \in Nat
  BY <1>2, BandForIsRung DEF IInv, CatalogueIsValid, KantorMin
<1>5. charged \in Nat /\ charged <= Cardinality(served)
  BY <1>2, <1>3, MatchingIsSubset
<1> HIDE DEF band, served, charged
<1>6. answer'.total \in Nat
  BY <1>1, <1>2, <1>4, <1>5, BandTotal
<1>7. answer'.total >= 0
  BY <1>6
<1> QED
  BY <1>1, <1>3, <1>5, <1>7
     DEF AnswerIsWhole, Priced, AddonsFollowDeliveries, KantorServesEveryDay

-----------------------------------------------------------------------------
\* An answer is computed from the catalogue, which it leaves alone.
LEMMA AskKeeps == ASSUME IInv, Ask PROVE IInv'
<1>1. UNCHANGED catalogue
  BY DEF Ask, QuoteByRate, QuoteByTable, RefuseForTable, QuoteTierProduct,
         QuoteKantor, Answer
<1>2. AnswerFits'
  <2>1. CASE \E p \in Plans, dates \in Orders, pax \in Paxes, a \in Addons, c \in Chosen :
               QuoteByRate(p, dates, pax, a, c) \/ QuoteByTable(p, dates, pax, a, c)
    BY <2>1, SubscriptionFits DEF QuoteByRate, QuoteByTable
  <2>2. CASE \E p \in Plans, dates \in Orders, pax \in Paxes : RefuseForTable(p, dates, pax)
    BY <2>2, RefusalFits
  <2>3. CASE \E dates \in Orders, qty \in Quantities, a \in Addons, c \in Chosen :
               QuoteTierProduct(dates, qty, a, c)
    BY <2>3, ProductFits
  <2>4. CASE \E start \in Starts, days \in KantorDays, pax \in Paxes, a \in Addons, c \in Chosen :
               QuoteKantor(start, days, pax, a, c)
    BY <2>4, KantorFits
  <2> QED
    BY <2>1, <2>2, <2>3, <2>4 DEF Ask
<1>3. AnswerIsWhole'
  <2>1. CASE \E p \in Plans, dates \in Orders, pax \in Paxes, a \in Addons, c \in Chosen :
               QuoteByRate(p, dates, pax, a, c) \/ QuoteByTable(p, dates, pax, a, c)
    BY <2>1, ByRateWhole, ByTableWhole
  <2>2. CASE \E p \in Plans, dates \in Orders, pax \in Paxes : RefuseForTable(p, dates, pax)
    BY <2>2 DEF RefuseForTable, Answer, AnswerIsWhole, Priced, AddonsFollowDeliveries,
                KantorServesEveryDay
  <2>3. CASE \E dates \in Orders, qty \in Quantities, a \in Addons, c \in Chosen :
               QuoteTierProduct(dates, qty, a, c)
    BY <2>3, ProductWhole
  <2>4. CASE \E start \in Starts, days \in KantorDays, pax \in Paxes, a \in Addons, c \in Chosen :
               QuoteKantor(start, days, pax, a, c)
    BY <2>4, KantorWhole
  <2> QED
    BY <2>1, <2>2, <2>3, <2>4 DEF Ask
<1> QED
  BY <1>1, <1>2, <1>3 DEF IInv, CatalogueIsValid, catalogue

\* Every step of the specification keeps the invariant.
LEMMA NextIInv == IInv /\ [Next]_vars => IInv'
<1> SUFFICES ASSUME IInv, [Next]_vars PROVE IInv'
  OBVIOUS
<1>1. CASE answer = NoAnswer /\ Edit
  BY <1>1, EditKeeps
<1>2. CASE Ask
  BY <1>2, AskKeeps
<1>3. CASE Read
  BY <1>3 DEF Read, NoAnswer, catalogue, IInv, CatalogueIsValid, AnswerFits,
              TierIsThePublishedOne, PackingNeverCostsMore, LadderHasNoGap,
              OnlyFlexiMonthlyOverList, RefusedOnlyPastTheTable,
              AnswerIsWhole, Priced, AddonsFollowDeliveries, KantorServesEveryDay
<1>4. CASE UNCHANGED vars
  BY <1>4 DEF vars, IInv, CatalogueIsValid, AnswerFits,
              TierIsThePublishedOne, PackingNeverCostsMore, LadderHasNoGap,
              OnlyFlexiMonthlyOverList, RefusedOnlyPastTheTable,
              AnswerIsWhole, Priced, AddonsFollowDeliveries, KantorServesEveryDay
<1> QED
  BY <1>1, <1>2, <1>3, <1>4 DEF Next

\* In every reachable state the catalogue is valid and an unread answer fits it.
THEOREM CatalogueStaysValid == Spec => []IInv
<1>1. Init => IInv
  BY InitIInv
<1>2. IInv /\ [Next]_vars => IInv'
  BY NextIInv
<1> QED
  BY <1>1, <1>2, PTL DEF Spec

\* Whatever ladders are published, a quantity on one is charged at a band that
\* holds it: bandFor's fall to the last band is never taken inside a ladder.
THEOREM QuantityOnLadder == Spec => []LadderHasNoGap
<1>1. IInv => LadderHasNoGap
  BY DEF IInv, AnswerFits
<1> QED
  BY <1>1, CatalogueStaysValid, PTL

\* Every quote has the one tier that the published rules give its dates.
THEOREM QuotesHaveThePublishedTier == Spec => []TierIsThePublishedOne
<1>1. IInv => TierIsThePublishedOne
  BY DEF IInv, AnswerFits
<1> QED
  BY <1>1, CatalogueStaysValid, PTL

\* No quote would have been cheaper per day with its dates scattered.
THEOREM ScatteringNeverPays == Spec => []PackingNeverCostsMore
<1>1. IInv => PackingNeverCostsMore
  BY DEF IInv, AnswerFits
<1> QED
  BY <1>1, CatalogueStaysValid, PTL

\* Whatever rates and thresholds are published, the list price bounds every
\* tier but Flexi Bulanan.
THEOREM ListPriceBoundsQuotes == Spec => []OnlyFlexiMonthlyOverList
<1>1. IInv => OnlyFlexiMonthlyOverList
  BY DEF IInv, AnswerFits
<1> QED
  BY <1>1, CatalogueStaysValid, PTL

\* A group is refused a price only when the thresholds promise more rows than
\* its table has.
THEOREM RefusalsArePastTheTable == Spec => []RefusedOnlyPastTheTable
<1>1. IInv => RefusedOnlyPastTheTable
  BY DEF IInv, AnswerFits
<1> QED
  BY <1>1, CatalogueStaysValid, PTL

\* The catalogue and the answers have their types, and no amount is negative.
THEOREM QuotesAreTyped == Spec => []TypeOK
<1>1. IInv => TypeOK
  BY DEF IInv, CatalogueIsValid, AnswerIsWhole, Priced, TypeOK
<1> QED
  BY <1>1, CatalogueStaysValid, PTL

\* Whatever the add-ons restrict and the customer chose, they are charged for
\* deliveries of the order, for no more people than it feeds.
THEOREM AddonsAreForDeliveries == Spec => []AddonsFollowDeliveries
<1>1. IInv => AddonsFollowDeliveries
  BY DEF IInv, AnswerIsWhole
<1> QED
  BY <1>1, CatalogueStaysValid, PTL

\* The walk over 3 * days + 14 days never ends short of a package's working
\* days, for any start and any number of days.
THEOREM KantorPackagesAreWhole == Spec => []KantorServesEveryDay
<1>1. IInv => KantorServesEveryDay
  BY DEF IInv, AnswerIsWhole
<1> QED
  BY <1>1, CatalogueStaysValid, PTL

-----------------------------------------------------------------------------
(* The page that shows the quotes: PricingOverlay, where an order is what the *)
(* card of a plan holds                                                       *)

\* A total is shown exactly when the card has its dates.
ShownInv == total = NoTotal <=> card = Blank

\* As long as the order has not changed under a quote, all are of this order.
QuotesMatch == calm => \A i \in DOMAIN quotes : quotes[i].order = card

\* The newest quote in flight asks for what is on the card, unless the debounce
\* timer runs and will ask again.
NewestInv ==
  newest = "out" =>
    /\ quotes # <<>>
    /\ timer = Off /\ card # Blank => quotes[Len(quotes)].order = card

OverlayInv ==
  /\ CardTypeOK /\ ShownInv /\ VerifyChargesPage
  /\ QuotesMatch /\ RightWhileCalm
  /\ NewestInv /\ SettledIsServers

\* The elements of two sequences joined, and of one made longer.
LEMMA Joined ==
  ASSUME NEW S, NEW a \in Seq(S), NEW b \in Seq(S)
  PROVE  /\ a \o b \in Seq(S) /\ Len(a \o b) = Len(a) + Len(b)
         /\ \A j \in 1 .. Len(a) + Len(b) :
              (a \o b)[j] = IF j <= Len(a) THEN a[j] ELSE b[j - Len(a)]
OBVIOUS

OneMore(r, q, x) ==
  /\ Len(r) = Len(q) + 1 /\ Len(q) \in Nat
  /\ DOMAIN r = 1 .. Len(q) + 1 /\ DOMAIN q = 1 .. Len(q)
  /\ r[Len(q) + 1] = x
  /\ \A i \in 1 .. Len(q) : r[i] = q[i]

LEMMA Appended ==
  ASSUME NEW S, NEW q \in Seq(S), NEW x \in S
  PROVE  Append(q, x) \in Seq(S) /\ OneMore(Append(q, x), q, x)
BY DEF OneMore

\* What RemoveAt leaves of a sequence.
OneLess(r, q, i) ==
  /\ Len(r) = Len(q) - 1
  /\ \A j \in 1 .. Len(q) - 1 : r[j] = IF j < i THEN q[j] ELSE q[j + 1]

LEMMA RemoveOne ==
  ASSUME NEW S, NEW q \in Seq(S), NEW i \in DOMAIN q
  PROVE  RemoveAt(q, i) \in Seq(S) /\ OneLess(RemoveAt(q, i), q, i)
<1> DEFINE a == SubSeq(q, 1, i - 1)
           b == SubSeq(q, i + 1, Len(q))
<1>1. i \in 1 .. Len(q) /\ Len(q) \in Nat /\ i \in Int
  OBVIOUS
<1>2. a \in Seq(S) /\ Len(a) = i - 1 /\ \A j \in 1 .. i - 1 : a[j] = q[j]
  BY <1>1
<1>3. b \in Seq(S) /\ Len(b) = Len(q) - i /\ \A j \in 1 .. Len(q) - i : b[j] = q[i + j]
  BY <1>1
<1>4. RemoveAt(q, i) = a \o b
  BY DEF RemoveAt
<1> HIDE DEF a, b
<1>5. /\ a \o b \in Seq(S) /\ Len(a \o b) = Len(a) + Len(b)
      /\ \A j \in 1 .. Len(a) + Len(b) :
           (a \o b)[j] = IF j <= Len(a) THEN a[j] ELSE b[j - Len(a)]
  BY <1>2, <1>3, Joined
<1>6. ASSUME NEW j \in 1 .. Len(q) - 1
      PROVE  (a \o b)[j] = IF j < i THEN q[j] ELSE q[j + 1]
  <2>1. j \in Int /\ j \in 1 .. Len(a) + Len(b) /\ (j < i <=> j <= Len(a))
    BY <1>1, <1>2, <1>3
  <2>2. (a \o b)[j] = IF j < i THEN a[j] ELSE b[j - Len(a)]
    BY <1>5, <2>1
  <2>3. CASE j < i
    <3>1. j \in 1 .. i - 1
      BY <2>1, <2>3, <1>1
    <3> QED
      BY <1>2, <2>2, <2>3, <3>1
  <2>4. CASE ~(j < i)
    <3>1. j - Len(a) \in 1 .. Len(q) - i /\ i + (j - Len(a)) = j + 1
      <4>1. Len(a) = i - 1
        BY <1>2
      <4>2. i \in Int /\ j \in Int /\ Len(q) \in Int /\ i <= j /\ j <= Len(q) - 1
        BY <1>1, <2>1, <2>4
      <4> QED
        BY ONLY <4>1, <4>2
    <3>2. b[j - Len(a)] = q[i + (j - Len(a))]
      BY <1>3, <3>1
    <3> QED
      BY <2>2, <2>4, <3>1, <3>2
  <2> QED
    BY <2>3, <2>4
<1>7. Len(a) + Len(b) = Len(q) - 1
  BY <1>1, <1>2, <1>3
<1> QED
  BY <1>4, <1>5, <1>6, <1>7 DEF OneLess

-----------------------------------------------------------------------------
(* The customer *)

\* What the page's own calculator shows.
LEMMA RenderedTyped ==
  ASSUME NEW o \in CardOrders \cup {Blank}
  PROVE  Rendered(o) \in Totals /\ (Rendered(o) = NoTotal <=> o = Blank)
BY PriceAssumption DEF Rendered, Totals

\* Whatever follows an order's change on the card except the timer.
LEMMA ShowOrderKeeps ==
  ASSUME OverlayInv, NEW o \in CardOrders \cup {Blank},
         ShowOrder(o),
         UNCHANGED <<mode, quotes, newest, misreported>>
  PROVE  /\ card' \in CardOrders \cup {Blank} /\ total' \in Totals /\ calm' \in BOOLEAN
         /\ ShownInv' /\ QuotesMatch' /\ total' = Rendered(card')
         /\ total' \in Figures(card') /\ (calm' => calm)
<1>1. card' = o /\ total' = Rendered(o) /\ calm' = (calm /\ quotes = <<>>)
  BY DEF ShowOrder
<1>2. calm \in BOOLEAN
  BY DEF OverlayInv, CardTypeOK
<1>3. ShownInv' /\ total' \in Totals
  BY <1>1, RenderedTyped DEF ShownInv
<1>4. QuotesMatch'
  <2>1. DOMAIN <<>> = {}
    OBVIOUS
  <2> QED
    BY <1>1, <2>1 DEF QuotesMatch
<1>5. total' \in Figures(card')
  BY <1>1 DEF Figures, Rendered
<1> QED
  BY <1>1, <1>2, <1>3, <1>4, <1>5

\* The order changes on the card, and the debounce timer starts again.
LEMMA CardEditKeeps ==
  ASSUME OverlayInv, NEW o \in CardOrders \cup {Blank}, EditCard(o)
  PROVE  OverlayInv'
<1>1. /\ ShowOrder(o) /\ timer' = Debounce /\ banked' = <<>>
      /\ UNCHANGED <<mode, quotes, quoteAge, held, newest, misreported>>
  BY DEF EditCard, Schedule
<1>2. /\ card' \in CardOrders \cup {Blank} /\ total' \in Totals /\ calm' \in BOOLEAN
      /\ ShownInv' /\ QuotesMatch' /\ total' = Rendered(card')
      /\ total' \in Figures(card') /\ (calm' => calm)
  BY <1>1, ShowOrderKeeps
<1>3. Debounce \in Off .. Debounce /\ Debounce # Off
  BY TimeAssumption DEF Off
<1>4. CardTypeOK'
  BY <1>1, <1>2, <1>3 DEF OverlayInv, CardTypeOK
<1>5. VerifyChargesPage' /\ RightWhileCalm'
  BY <1>1, <1>2 DEF OverlayInv, VerifyChargesPage, RightWhileCalm
<1>6. NewestInv' /\ SettledIsServers'
  BY <1>1, <1>3 DEF OverlayInv, NewestInv, SettledIsServers
<1> QED
  BY <1>2, <1>4, <1>5, <1>6 DEF OverlayInv

\* The order is touched and stays what it is.
LEMMA TouchKeeps ==
  ASSUME OverlayInv, Touch PROVE OverlayInv'
<1>1. /\ timer' = Debounce /\ banked' = <<>>
      /\ UNCHANGED <<mode, card, total, quotes, quoteAge, held, newest, calm, misreported>>
  BY DEF Touch, Schedule
<1>2. Debounce \in Off .. Debounce /\ Debounce # Off
  BY TimeAssumption DEF Off
<1>3. CardTypeOK'
  BY <1>1, <1>2 DEF OverlayInv, CardTypeOK
<1>4. ShownInv' /\ QuotesMatch' /\ VerifyChargesPage' /\ RightWhileCalm'
  BY <1>1 DEF OverlayInv, ShownInv, QuotesMatch, VerifyChargesPage,
              RightWhileCalm
<1>5. NewestInv' /\ SettledIsServers'
  BY <1>1, <1>2 DEF OverlayInv, NewestInv, SettledIsServers
<1> QED
  BY <1>3, <1>4, <1>5 DEF OverlayInv

\* The card is emptied without a quote to follow.
LEMMA ResetOrderKeeps ==
  ASSUME OverlayInv, ResetOrder PROVE OverlayInv'
<1>1. /\ ShowOrder(Blank) /\ banked' = <<>> /\ card' = Blank
      /\ UNCHANGED <<mode, timer, quotes, quoteAge, held, newest, misreported>>
  BY DEF ResetOrder, ShowOrder
<1>2. /\ card' \in CardOrders \cup {Blank} /\ total' \in Totals /\ calm' \in BOOLEAN
      /\ ShownInv' /\ QuotesMatch' /\ total' = Rendered(card')
      /\ total' \in Figures(card') /\ (calm' => calm)
  BY <1>1, ShowOrderKeeps
<1>3. CardTypeOK'
  BY <1>1, <1>2 DEF OverlayInv, CardTypeOK
<1>4. VerifyChargesPage' /\ RightWhileCalm'
  BY <1>1, <1>2 DEF OverlayInv, VerifyChargesPage, RightWhileCalm
<1>5. NewestInv' /\ SettledIsServers'
  BY <1>1 DEF OverlayInv, NewestInv, SettledIsServers
<1> QED
  BY <1>2, <1>3, <1>4, <1>5 DEF OverlayInv

\* Only authoritative mode holds a click back.
LEMMA HoldKeeps ==
  ASSUME OverlayInv, Hold PROVE OverlayInv'
<1>1. /\ held' = Debounce /\ banked' = <<>> /\ mode = "authoritative"
      /\ UNCHANGED <<mode, card, total, timer, quotes, quoteAge, newest, calm, misreported>>
  BY DEF Hold, MustWait
<1>2. Debounce \in Off .. Debounce
  BY TimeAssumption DEF Off
<1>3. CardTypeOK'
  BY <1>1, <1>2 DEF OverlayInv, CardTypeOK
<1>4. ShownInv' /\ QuotesMatch' /\ VerifyChargesPage' /\ RightWhileCalm'
  BY <1>1 DEF OverlayInv, ShownInv, QuotesMatch, VerifyChargesPage,
              RightWhileCalm
<1>5. NewestInv' /\ SettledIsServers'
  BY <1>1 DEF OverlayInv, NewestInv, SettledIsServers
<1> QED
  BY <1>3, <1>4, <1>5 DEF OverlayInv

\* The item has the figure that was on display.
LEMMA AddKeeps ==
  ASSUME OverlayInv, AddToCart,
         held' = Off PROVE OverlayInv'
<1>1. /\ total # NoTotal /\ banked' = <<card, total>> /\ ShowOrder(Blank) /\ card' = Blank
      /\ timer' = Debounce /\ UNCHANGED <<mode, quotes, quoteAge, newest, misreported>>
  BY DEF AddToCart, Schedule, ShowOrder
<1>2. /\ card' \in CardOrders \cup {Blank} /\ total' \in Totals /\ calm' \in BOOLEAN
      /\ ShownInv' /\ QuotesMatch' /\ total' = Rendered(card')
      /\ total' \in Figures(card') /\ (calm' => calm)
  BY <1>1, ShowOrderKeeps
<1>3. Debounce \in Off .. Debounce /\ Off \in Off .. Debounce
  BY TimeAssumption DEF Off
<1>4. card \in CardOrders /\ total \in Nat
  BY <1>1 DEF OverlayInv, CardTypeOK, ShownInv, Totals
<1>5. CardTypeOK'
  BY <1>1, <1>2, <1>3, <1>4 DEF OverlayInv, CardTypeOK
<1>6. banked'[1] = card /\ banked'[2] = total
  BY <1>1
<1>7. VerifyChargesPage'
  BY <1>1, <1>2, <1>4, <1>6, PriceAssumption
     DEF OverlayInv, VerifyChargesPage, Rendered
<1>8. RightWhileCalm'
  BY <1>1, <1>2, <1>6 DEF OverlayInv, RightWhileCalm
<1>9. NewestInv' /\ SettledIsServers'
  BY <1>1 DEF OverlayInv, NewestInv, SettledIsServers
<1> QED
  BY <1>2, <1>5, <1>7, <1>8, <1>9 DEF OverlayInv

-----------------------------------------------------------------------------
(* The overlay *)

\* The timer has run out: a quote is asked for.
LEMMA RefreshKeeps ==
  ASSUME OverlayInv, Refresh PROVE OverlayInv'
<1> DEFINE sent == [order |-> card, phase |-> "sent", left |-> Timeout]
<1>1. /\ timer' = Off /\ banked' = <<>>
      /\ UNCHANGED <<mode, card, total, quoteAge, held, calm, misreported>>
      /\ IF card = Blank THEN UNCHANGED <<quotes, newest>>
         ELSE quotes' = Append(quotes, sent) /\ newest' = "out"
  BY DEF Refresh
<1>2. Off \in Off .. Debounce
  BY TimeAssumption DEF Off
<1>3. ShownInv' /\ VerifyChargesPage' /\ RightWhileCalm'
  BY <1>1 DEF OverlayInv, ShownInv, VerifyChargesPage, RightWhileCalm
<1>4. CASE card = Blank
  <2>1. CardTypeOK' /\ QuotesMatch'
    BY <1>1, <1>2, <1>4 DEF OverlayInv, CardTypeOK, QuotesMatch
  <2>2. NewestInv' /\ SettledIsServers'
    BY <1>1, <1>4 DEF OverlayInv, NewestInv, SettledIsServers
  <2> QED
    BY <1>3, <2>1, <2>2 DEF OverlayInv
<1>5. CASE card # Blank
  <2>1. quotes' = Append(quotes, sent) /\ newest' = "out"
    BY <1>1, <1>5
  <2>2. sent \in Quote /\ sent.order = card /\ quotes \in Seq(Quote)
    BY <1>5, TimeAssumption DEF OverlayInv, CardTypeOK, Quote
  <2> HIDE DEF sent
  <2>3. quotes' \in Seq(Quote) /\ OneMore(quotes', quotes, sent)
    BY <2>1, <2>2, Appended
  <2>4. CardTypeOK'
    BY <1>1, <1>2, <2>1, <2>3 DEF OverlayInv, CardTypeOK
  <2>5. QuotesMatch'
    <3>0. DOMAIN quotes' = 1 .. Len(quotes) + 1 /\ card' = card /\ calm' = calm
      BY <1>1, <2>3 DEF OneMore
    <3>1. SUFFICES ASSUME calm, NEW i \in 1 .. Len(quotes) + 1
                   PROVE  quotes'[i].order = card
      BY <3>0, Zenon DEF QuotesMatch
    <3>2. \A h \in 1 .. Len(quotes) : quotes[h].order = card
      BY <2>3, <3>1 DEF OverlayInv, QuotesMatch, OneMore
    <3>3. CASE i \in 1 .. Len(quotes)
      BY <2>3, <3>2, <3>3 DEF OneMore
    <3>4. CASE i = Len(quotes) + 1
      BY <2>2, <2>3, <3>4 DEF OneMore
    <3> QED
      BY <2>3, <3>3, <3>4 DEF OneMore
  <2>6. quotes' # <<>>
    BY <2>3 DEF OneMore
  <2>7. Len(quotes') = Len(quotes) + 1 /\ quotes'[Len(quotes) + 1].order = card'
    BY <1>1, <2>2, <2>3 DEF OneMore
  <2>8. NewestInv'
    BY <2>6, <2>7 DEF NewestInv
  <2>9. SettledIsServers'
    BY <2>1 DEF SettledIsServers
  <2> QED
    BY <1>3, <2>4, <2>5, <2>8, <2>9 DEF OverlayInv
<1> QED
  BY <1>4, <1>5

\* The click held back is tried again.
LEMMA ReclickKeeps ==
  ASSUME OverlayInv, Reclick PROVE OverlayInv'
<1>1. CASE /\ held' = Off /\ timer' = IF total = NoTotal THEN timer ELSE Debounce
           /\ banked' = <<>>
           /\ UNCHANGED <<mode, card, total, quotes, quoteAge, newest, calm, misreported>>
  <2>1. Debounce \in Off .. Debounce /\ Off \in Off .. Debounce
        /\ Debounce # Off
    BY TimeAssumption DEF Off
  <2>2. CardTypeOK'
    BY <1>1, <2>1 DEF OverlayInv, CardTypeOK
  <2>3. ShownInv' /\ QuotesMatch' /\ VerifyChargesPage' /\ RightWhileCalm'
    BY <1>1 DEF OverlayInv, ShownInv, QuotesMatch, VerifyChargesPage,
                RightWhileCalm
  <2>4. timer' = timer \/ timer' # Off
    BY <1>1, <2>1
  <2>5. NewestInv' /\ SettledIsServers'
    BY <1>1, <2>4 DEF OverlayInv, NewestInv, SettledIsServers
  <2> QED
    BY <2>2, <2>3, <2>5 DEF OverlayInv
<1> QED
  BY <1>1, HoldKeeps, AddKeeps DEF Reclick

\* Headers come in: the quotes stay what they are.
LEMMA RespondKeeps ==
  ASSUME OverlayInv, NEW i \in DOMAIN quotes, Respond(i)
  PROVE  OverlayInv'
<1> DEFINE row == [quotes[i] EXCEPT !.phase = "body", !.left = 0]
<1>1. /\ quotes' = [quotes EXCEPT ![i] = row] /\ banked' = <<>>
      /\ UNCHANGED <<mode, card, total, timer, quoteAge, held, newest, calm, misreported>>
  BY DEF Respond
<1>2. quotes \in Seq(Quote) /\ quotes[i] \in Quote
  BY DEF OverlayInv, CardTypeOK
<1>3. row \in Quote /\ row.order = quotes[i].order
  <2> DEFINE opened == [quotes[i] EXCEPT !.phase = "body"]
  <2>1. opened \in Quote /\ opened.order = quotes[i].order
    BY <1>2 DEF Quote
  <2>2. row = [opened EXCEPT !.left = 0] /\ 0 \in 0 .. Timeout
    BY TimeAssumption
  <2> HIDE DEF opened
  <2> QED
    BY <2>1, <2>2 DEF Quote
<1> HIDE DEF row
<1>4. /\ quotes' \in Seq(Quote) /\ Len(quotes') = Len(quotes) /\ Len(quotes) \in Nat
      /\ DOMAIN quotes' = DOMAIN quotes /\ DOMAIN quotes = 1 .. Len(quotes)
      /\ \A j \in DOMAIN quotes : quotes'[j].order = quotes[j].order
  BY <1>1, <1>2, <1>3
<1>5. CardTypeOK'
  BY <1>1, <1>4 DEF OverlayInv, CardTypeOK
<1>6. /\ ShownInv' /\ VerifyChargesPage'
      /\ RightWhileCalm' /\ SettledIsServers'
  BY <1>1 DEF OverlayInv, ShownInv, VerifyChargesPage, RightWhileCalm,
              SettledIsServers
<1>7. QuotesMatch'
  BY <1>1, <1>4 DEF OverlayInv, QuotesMatch
<1>8. NewestInv'
  <2>1. quotes # <<>> => Len(quotes) \in DOMAIN quotes /\ quotes' # <<>>
    BY <1>4
  <2> QED
    BY <1>1, <1>4, <2>1 DEF OverlayInv, NewestInv
<1> QED
  BY <1>5, <1>6, <1>7, <1>8 DEF OverlayInv

\* One quote less, and what became of the newest one is known.
LEMMA Removal ==
  ASSUME OverlayInv, NEW i \in DOMAIN quotes,
         quotes' = RemoveAt(quotes, i),
         UNCHANGED <<card, timer, calm>>,
         newest' = "out" => newest = "out" /\ i # Len(quotes)
  PROVE  quotes' \in Seq(Quote) /\ QuotesMatch' /\ NewestInv'
<1>1. quotes \in Seq(Quote) /\ Len(quotes) \in Nat /\ DOMAIN quotes = 1 .. Len(quotes)
  BY DEF OverlayInv, CardTypeOK
<1>2. /\ quotes' \in Seq(Quote) /\ Len(quotes') = Len(quotes) - 1
      /\ \A j \in 1 .. Len(quotes) - 1 :
           quotes'[j] = IF j < i THEN quotes[j] ELSE quotes[j + 1]
  <2>1. quotes' \in Seq(Quote) /\ OneLess(quotes', quotes, i)
    BY <1>1, RemoveOne
  <2> QED
    BY <2>1 DEF OneLess
<1>3. DOMAIN quotes' = 1 .. Len(quotes) - 1
  BY <1>2
<1>4. QuotesMatch'
  <2> SUFFICES ASSUME calm, NEW j \in 1 .. Len(quotes) - 1 PROVE quotes'[j].order = card
    BY <1>3 DEF QuotesMatch
  <2>1. j \in DOMAIN quotes /\ j + 1 \in DOMAIN quotes
    BY <1>1
  <2>2. quotes[j].order = card /\ quotes[j + 1].order = card
    BY <2>1 DEF OverlayInv, QuotesMatch
  <2> QED
    BY <1>2, <2>2
<1>5. NewestInv'
  <2> SUFFICES ASSUME newest = "out", i # Len(quotes)
               PROVE  /\ quotes' # <<>>
                      /\ timer = Off /\ card # Blank => quotes'[Len(quotes')].order = card
    BY DEF NewestInv
  <2>1. Len(quotes) - 1 \in 1 .. Len(quotes) - 1 /\ ~(Len(quotes) - 1 < i)
        /\ Len(quotes) - 1 + 1 = Len(quotes)
    BY <1>1
  <2>2. quotes'[Len(quotes')] = quotes[Len(quotes)]
    BY <1>2, <2>1
  <2>3. quotes' # <<>>
    BY <1>2, <2>1
  <2> QED
    BY <2>2, <2>3 DEF OverlayInv, NewestInv
<1> QED
  BY <1>2, <1>4, <1>5

\* A quote that fails changes nothing on the card.
LEMMA QuoteFailKeeps ==
  ASSUME OverlayInv, NEW i \in DOMAIN quotes, Fail(i)
  PROVE  OverlayInv'
<1>1. /\ quotes' = RemoveAt(quotes, i) /\ banked' = <<>>
      /\ newest' = IF newest = "out" /\ i = Len(quotes) THEN "lost" ELSE newest
      /\ UNCHANGED <<mode, card, total, timer, quoteAge, held, calm, misreported>>
  BY DEF Fail
<1>2. quotes' \in Seq(Quote) /\ QuotesMatch' /\ NewestInv'
  BY <1>1, Removal
<1>3. CardTypeOK'
  BY <1>1, <1>2 DEF OverlayInv, CardTypeOK
<1>4. /\ ShownInv' /\ VerifyChargesPage'
      /\ RightWhileCalm' /\ SettledIsServers'
  BY <1>1 DEF OverlayInv, ShownInv, VerifyChargesPage, RightWhileCalm,
              SettledIsServers
<1> QED
  BY <1>2, <1>3, <1>4 DEF OverlayInv

\* An answer that comes in is applied to whatever the card holds by then.
LEMMA QuoteAnswerKeeps ==
  ASSUME OverlayInv, NEW i \in DOMAIN quotes, Arrive(i)
  PROVE  OverlayInv'
<1> DEFINE o == quotes[i].order
<1>1. /\ quotes' = RemoveAt(quotes, i) /\ banked' = <<>>
      /\ newest' = IF newest = "out" /\ i = Len(quotes) THEN "answered"
                   ELSE IF newest = "answered" THEN "overtaken" ELSE newest
      /\ UNCHANGED <<mode, card, timer, held, calm>>
  BY DEF Arrive
<1>2. /\ misreported' = (misreported \/ (total # ServerPrice[o] /\ PagePrice[o] = ServerPrice[o]))
      /\ IF mode = "authoritative" /\ total # NoTotal
           THEN total' = ServerPrice[o] /\ quoteAge' = 0
           ELSE UNCHANGED <<total, quoteAge>>
  BY DEF Arrive, ApplyQuote
<1>3. o \in CardOrders
  <2>1. quotes \in Seq(Quote)
    BY DEF OverlayInv, CardTypeOK
  <2>2. quotes[i] \in Quote
    BY <2>1
  <2> QED
    BY <2>2 DEF Quote
<1>4. calm => o = card
  BY DEF OverlayInv, QuotesMatch
<1>5. newest = "out" /\ i = Len(quotes) /\ timer = Off /\ card # Blank => o = card
  BY DEF OverlayInv, NewestInv
<1> HIDE DEF o
<1>6. ServerPrice[o] \in Nat /\ ServerPrice[o] # NoTotal /\ o # Blank
  BY <1>3, PriceAssumption
<1>7. quotes' \in Seq(Quote) /\ QuotesMatch' /\ NewestInv'
  BY <1>1, Removal
<1>8. CardTypeOK'
  <2>1. total' \in Totals /\ quoteAge' \in 0 .. Timeout + 1 /\ misreported' \in BOOLEAN
    <3>1. total \in Totals /\ quoteAge \in 0 .. Timeout + 1 /\ misreported \in BOOLEAN
      BY DEF OverlayInv, CardTypeOK
    <3>2. 0 \in 0 .. Timeout + 1
      BY TimeAssumption
    <3>3. total' \in Totals /\ quoteAge' \in 0 .. Timeout + 1
      BY <1>2, <1>6, <3>1, <3>2 DEF Totals
    <3>4. misreported' \in BOOLEAN
      BY <1>2, <3>1, Zenon
    <3> QED
      BY <3>3, <3>4
  <2>2. newest' \in {"none", "out", "answered", "overtaken", "lost"}
    BY <1>1 DEF OverlayInv, CardTypeOK
  <2> QED
    BY <1>1, <1>7, <2>1, <2>2 DEF OverlayInv, CardTypeOK
<1>9. ShownInv' /\ VerifyChargesPage'
  BY <1>1, <1>2, <1>6 DEF OverlayInv, CardTypeOK, ShownInv,
                          VerifyChargesPage
<1>10. RightWhileCalm'
  <2> SUFFICES ASSUME calm PROVE total' \in Figures(card) /\ ~misreported'
    BY <1>1 DEF RightWhileCalm
  <2>1. card = o /\ Figures(card) = {PagePrice[o], ServerPrice[o]}
    BY <1>4, <1>6 DEF Figures
  <2>2. total \in {PagePrice[o], ServerPrice[o]} /\ ~misreported
    BY <2>1 DEF OverlayInv, RightWhileCalm
  <2> QED
    BY <1>2, <2>1, <2>2
<1>11. SettledIsServers'
  BY <1>1, <1>2, <1>5 DEF OverlayInv, ShownInv, SettledIsServers
<1> QED
  BY <1>7, <1>8, <1>9, <1>10, <1>11 DEF OverlayInv

\* Only what is not due runs down.
LEMMA TickKeeps ==
  ASSUME OverlayInv, Tick PROVE OverlayInv'
<1> DEFINE aged(i) == IF quotes[i].phase = "sent"
                        THEN [quotes[i] EXCEPT !.left = @ - 1] ELSE quotes[i]
<1>1. /\ timer # 0 /\ held # 0 /\ timer' = Down(timer) /\ held' = Down(held)
      /\ quotes' = [i \in DOMAIN quotes |-> aged(i)] /\ banked' = <<>>
      /\ quoteAge' = IF quoteAge <= Timeout THEN quoteAge + 1 ELSE quoteAge
      /\ UNCHANGED <<mode, card, total, newest, calm, misreported>>
  BY DEF Tick
<1>2. ASSUME NEW i \in DOMAIN quotes
      PROVE  aged(i) \in Quote /\ aged(i).order = quotes[i].order
  <2>1. quotes[i] \in Quote /\ ~Due(i)
    BY DEF OverlayInv, CardTypeOK, Tick
  <2>2. quotes[i].phase = "sent" => quotes[i].left - 1 \in 0 .. Timeout
    BY <2>1, TimeAssumption DEF Due, Quote
  <2>3. quotes[i].phase = "sent" =>
          /\ [quotes[i] EXCEPT !.left = quotes[i].left - 1] \in Quote
          /\ [quotes[i] EXCEPT !.left = quotes[i].left - 1].order = quotes[i].order
    BY <2>1, <2>2 DEF Quote
  <2> QED
    BY <2>1, <2>3
<1> HIDE DEF aged
<1>3. quotes \in Seq(Quote) /\ Len(quotes) \in Nat /\ DOMAIN quotes = 1 .. Len(quotes)
  BY DEF OverlayInv, CardTypeOK
<1>4. /\ quotes' \in Seq(Quote) /\ Len(quotes') = Len(quotes)
      /\ DOMAIN quotes' = DOMAIN quotes
      /\ \A i \in DOMAIN quotes : quotes'[i].order = quotes[i].order
  BY <1>1, <1>2, <1>3
<1>5. /\ timer' \in Off .. Debounce /\ held' \in Off .. Debounce
      /\ (timer' = Off <=> timer = Off)
      /\ (held = Off => held' = Off)
  BY <1>1, TimeAssumption DEF OverlayInv, CardTypeOK, Off, Down
<1>6. quoteAge' \in 0 .. Timeout + 1
  BY <1>1, TimeAssumption DEF OverlayInv, CardTypeOK
<1>7. CardTypeOK'
  BY <1>1, <1>4, <1>5, <1>6 DEF OverlayInv, CardTypeOK
<1>8. /\ ShownInv' /\ VerifyChargesPage'
      /\ RightWhileCalm' /\ SettledIsServers'
  BY <1>1, <1>5 DEF OverlayInv, ShownInv, VerifyChargesPage,
                    RightWhileCalm, SettledIsServers
<1>9. QuotesMatch'
  BY <1>1, <1>4 DEF OverlayInv, QuotesMatch
<1>10. NewestInv'
  <2>1. quotes # <<>> => Len(quotes) \in DOMAIN quotes /\ quotes' # <<>>
    BY <1>3, <1>4
  <2> QED
    BY <1>1, <1>4, <1>5, <2>1 DEF OverlayInv, NewestInv
<1> QED
  BY <1>7, <1>8, <1>9, <1>10 DEF OverlayInv

-----------------------------------------------------------------------------
\* The invariant is inductive.
LEMMA OverlayInvariance == CardSpec => []OverlayInv
<1>1. CardInit => OverlayInv
  <2> SUFFICES ASSUME CardInit PROVE OverlayInv
    OBVIOUS
  <2>1. <<>> \in Seq(Quote) /\ DOMAIN <<>> = {}
    OBVIOUS
  <2>2. Debounce \in Off .. Debounce /\ Off \in Off .. Debounce
        /\ Timeout + 1 \in 0 .. Timeout + 1
    BY TimeAssumption DEF Off
  <2>3. CardTypeOK
    BY <2>1, <2>2 DEF CardInit, CardTypeOK, Totals
  <2> QED
    BY <2>1, <2>3 DEF CardInit, OverlayInv, ShownInv, VerifyChargesPage,
                      Rendered, QuotesMatch,
                      RightWhileCalm, Figures, NewestInv, SettledIsServers
<1>2. OverlayInv /\ [CardNext]_cardVars => OverlayInv'
  <2> SUFFICES ASSUME OverlayInv, [CardNext]_cardVars PROVE OverlayInv'
    OBVIOUS
  <2>1. CASE Customer
    BY <2>1, CardEditKeeps, TouchKeeps, ResetOrderKeeps, HoldKeeps,
       AddKeeps DEF Customer, ClickAdd
  <2>2. CASE Network
    BY <2>2, RespondKeeps, QuoteAnswerKeeps, QuoteFailKeeps DEF Network
  <2>3. CASE UNCHANGED cardVars
    BY <2>3 DEF cardVars, OverlayInv, CardTypeOK, ShownInv,
                VerifyChargesPage, QuotesMatch,
                RightWhileCalm, NewestInv, SettledIsServers
  <2> QED
    BY <2>1, <2>2, <2>3, RefreshKeeps, ReclickKeeps, TickKeeps DEF CardNext
<1> QED
  BY <1>1, <1>2, PTL DEF CardSpec

\* Whatever the customer and the network do, the card, its timers and the quotes in
\* flight are in one of the states of the model.
THEOREM OverlayTyped == CardSpec => []CardTypeOK
<1>1. OverlayInv => CardTypeOK
  BY DEF OverlayInv
<1> QED
  BY <1>1, OverlayInvariance, PTL

\* In verify mode the cart only ever gets what the page's own calculator showed: no
\* answer, however late, changes a figure (overlays/pricing.html).
THEOREM VerifyNeverCharges == CardSpec => []VerifyChargesPage
<1>1. OverlayInv => VerifyChargesPage
  BY DEF OverlayInv
<1> QED
  BY <1>1, OverlayInvariance, PTL

\* As long as the order never changes under a quote in flight, the figure shown is
\* the page's or the server's for that order, what goes into the cart too, and no
\* disagreement is logged of prices that agree (overlays/pricing.html).
THEOREM CalmCardsAreRight == CardSpec => []RightWhileCalm
<1>1. OverlayInv => RightWhileCalm
  BY DEF OverlayInv
<1> QED
  BY <1>1, OverlayInvariance, PTL

\* In authoritative mode, once the newest quote is answered and nothing is left to
\* ask, the card shows the server's total for its order, whatever older answers came
\* in before it (overlays/pricing.html).
THEOREM SettlesOnTheServer == CardSpec => []SettledIsServers
<1>1. OverlayInv => SettledIsServers
  BY DEF OverlayInv
<1> QED
  BY <1>1, OverlayInvariance, PTL
=============================================================================
