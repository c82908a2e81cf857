------------------------- MODULE MenuCycles_proofs -------------------------
(* Proofs about MenuCycles, for any weeks, plans, dates and requests: the   *)
(* served document validates, it shows the week that covers today, and the  *)
(* week it announces as next is the one it will show.                       *)
EXTENDS MenuCycles, WellFoundedInduction, TLAPS

USE MenuAssumption, NoCycleAssumption

\* What every write may put under a week.
GoodRow(r) ==
  r \in Row /\ ValidSpan(r.span) /\ \A d \in r.days : ValidDay(r.span, d)
Fits(w, r) ==
  r = NoCycle \/ (GoodRow(r) /\ (r.published => Free(w, r.span)))

\* The rows that are there are good ones.
LEMMA RowsAreGood ==
  ASSUME IInv, NEW w \in Weeks, Exists(w)
  PROVE  GoodRow(cycles[w])
BY DEF IInv, TypeOK, DaysBelong, GoodRow, ValidSpan, Exists, Row

\* Overlapping is symmetric.
LEMMA OverlapSymmetric ==
  ASSUME NEW s, NEW t, Overlap(s, t)
  PROVE  Overlap(t, s)
BY DEF Overlap

\* Putting a row that fits, or none, in the place of another keeps the invariant.
LEMMA PutKeeps ==
  ASSUME IInv, NEW w \in Weeks, NEW r, Fits(w, r),
         cycles' = [cycles EXCEPT ![w] = r], UNCHANGED <<zone, today, utc>>
  PROVE  IInv'
<1>1. /\ cycles' \in [Weeks -> Row \union {NoCycle}]
      /\ cycles'[w] = r
      /\ \A v \in Weeks \ {w} : cycles'[v] = cycles[v]
  BY DEF IInv, TypeOK, Fits, GoodRow
<1>2. ASSUME NEW v \in Weeks, Exists(v)' PROVE GoodRow(cycles'[v])
  <2>1. CASE v = w
    BY <1>1, <1>2, <2>1 DEF Exists, Fits
  <2>2. CASE v # w
    BY <1>1, <1>2, <2>2, RowsAreGood DEF Exists
  <2> QED
    BY <2>1, <2>2
<1>3. TypeOK'
  <2>1. \A v \in Weeks : Exists(v)' => ValidSpan(cycles'[v].span)
    BY <1>2 DEF GoodRow
  <2> QED
    BY <1>1, <2>1 DEF IInv, TypeOK, ValidSpan
<1>4. DaysBelong'
  BY <1>2 DEF DaysBelong, GoodRow
<1>5. PublishedDisjoint'
  <2> SUFFICES ASSUME NEW u \in Published', NEW v \in Published', u # v
               PROVE  ~Overlap(cycles'[u].span, cycles'[v].span)
    BY DEF PublishedDisjoint
  <2>1. \A x \in Published' \ {w} : x \in Published /\ cycles'[x] = cycles[x]
    BY <1>1 DEF Published, Exists
  <2>2. w \in Published' => \A x \in Published' \ {w} : ~Overlap(cycles'[w].span, cycles'[x].span)
    BY <1>1, <2>1 DEF Published, Exists, Fits, Free
  <2>3. CASE u = w
    BY <2>2, <2>3
  <2>4. CASE v = w
    BY <2>2, <2>4, OverlapSymmetric
  <2>5. CASE u # w /\ v # w
    BY <2>1, <2>5 DEF IInv, PublishedDisjoint
  <2> QED
    BY <2>3, <2>4, <2>5
<1> QED
  BY <1>3, <1>4, <1>5 DEF IInv

\* The four writes put a row that fits.
LEMMA WritesFit ==
  ASSUME IInv, NEW w \in Weeks,
         UpsertCycle(w) \/ PublishCycle(w) \/ UnpublishCycle(w) \/ DeleteCycle(w)
  PROVE  IInv'
<1>1. CASE UpsertCycle(w)
  <2>1. PICK span \in Spans, days \in DayLists, publish \in BOOLEAN :
          /\ ValidSpan(span)
          /\ \A d \in days : ValidDay(span, d)
          /\ publish => Free(w, span)
          /\ cycles' = [cycles EXCEPT ![w] = NewRow(w, span, publish, days)]
          /\ UNCHANGED <<zone, today, utc>>
    BY <1>1 DEF UpsertCycle
  <2>2. NewRow(w, span, publish, days) \in Row
    BY DEF NewRow, Row, Span, Day
  <2>3. Fits(w, NewRow(w, span, publish, days))
    BY <2>1, <2>2 DEF Fits, GoodRow, NewRow
  <2> QED
    BY <2>1, <2>3, PutKeeps
<1>2. CASE PublishCycle(w)
  <2> DEFINE r == [cycles[w] EXCEPT !.published = TRUE]
  <2>1. Exists(w) /\ Free(w, cycles[w].span)
    BY <1>2 DEF PublishCycle, Publishable
  <2>2. GoodRow(cycles[w])
    BY <2>1, RowsAreGood
  <2>3. r \in Row /\ r.span = cycles[w].span /\ r.days = cycles[w].days
    BY <2>2 DEF GoodRow, Row
  <2>4. Fits(w, r)
    BY <2>1, <2>2, <2>3 DEF Fits, GoodRow
  <2>5. cycles' = [cycles EXCEPT ![w] = r] /\ UNCHANGED <<zone, today, utc>>
    BY <1>2 DEF PublishCycle
  <2> HIDE DEF r
  <2> QED
    BY <2>4, <2>5, PutKeeps
<1>3. CASE UnpublishCycle(w)
  <2> DEFINE r == [cycles[w] EXCEPT !.published = FALSE]
  <2>1. GoodRow(cycles[w])
    BY <1>3, RowsAreGood DEF UnpublishCycle
  <2>2. r \in Row /\ r.span = cycles[w].span /\ r.days = cycles[w].days /\ ~r.published
    BY <2>1 DEF GoodRow, Row
  <2>3. Fits(w, r)
    BY <2>1, <2>2 DEF Fits, GoodRow
  <2>4. cycles' = [cycles EXCEPT ![w] = r] /\ UNCHANGED <<zone, today, utc>>
    BY <1>3 DEF UnpublishCycle
  <2> HIDE DEF r
  <2> QED
    BY <2>3, <2>4, PutKeeps
<1>4. CASE DeleteCycle(w)
  BY <1>4, PutKeeps DEF DeleteCycle, Fits
<1> QED
  BY <1>1, <1>2, <1>3, <1>4

\* Steps that write no cycle keep what is said of the cycles.
LEMMA ClockKeeps ==
  ASSUME IInv, cycles' = cycles, zone' \in {"known", "unknown"},
         today' \in 1..LastDate, utc' \in {today' - 1, today'}
  PROVE  IInv'
BY DEF IInv, TypeOK, PublishedDisjoint, DaysBelong, Published, Exists

\* Published weeks share no date and no week has a day it should not have,
\* whatever the admins ask for: package menu's checks and the exclusion
\* constraint keep every row of menu_cycles as the invariant says.
THEOREM WeeksStayApart == Spec => []IInv
<1>1. Init => IInv
  BY DEF Init, IInv, TypeOK, PublishedDisjoint, DaysBelong, Published, Exists
<1>2. IInv /\ [Next]_vars => IInv'
  <2> SUFFICES ASSUME IInv, [Next]_vars PROVE IInv'
    OBVIOUS
  <2>1. ASSUME NEW w \in Weeks,
               UpsertCycle(w) \/ PublishCycle(w) \/ UnpublishCycle(w) \/ DeleteCycle(w)
        PROVE  IInv'
    BY <2>1, WritesFit
  <2>2. CASE SetZone
    BY <2>2, ClockKeeps DEF SetZone, IInv, TypeOK
  <2>3. CASE MidnightInJakarta
    BY <2>3, ClockKeeps DEF MidnightInJakarta, IInv, TypeOK
  <2>4. CASE MidnightUTC
    BY <2>4, ClockKeeps DEF MidnightUTC, IInv, TypeOK
  <2>5. CASE UNCHANGED vars
    BY <2>5, ClockKeeps DEF vars, IInv, TypeOK
  <2> QED
    BY <2>1, <2>2, <2>3, <2>4, <2>5 DEF Next
<1> QED
  BY <1>1, <1>2, PTL DEF Spec

\* Two published weeks cannot both have a menu for one date.
LEMMA ApartClaims ==
  ASSUME IInv, NEW v \in Published, NEW w \in Published, v # w,
         NEW d \in cycles[w].days, Claims(v, d.plan, d.date)
  PROVE  FALSE
<1>1. PICK e \in cycles[v].days : e.date = d.date
  BY DEF Claims
<1>2. GoodRow(cycles[v]) /\ GoodRow(cycles[w])
  BY RowsAreGood DEF Published
<1>3. d.date \in Int /\ cycles[v].span \in Span /\ cycles[w].span \in Span
  BY <1>2 DEF GoodRow, Row, Day
<1>4. Covers(cycles[v].span, d.date) /\ Covers(cycles[w].span, d.date)
  BY <1>1, <1>2 DEF GoodRow, ValidDay
<1>5. Overlap(cycles[v].span, cycles[w].span)
  BY <1>3, <1>4 DEF Covers, Overlap, Span
<1> QED
  BY <1>5 DEF IInv, PublishedDisjoint

\* The document the service would load has no problem for validateMenu to
\* report, at any time.
THEOREM ServedDocumentValidates == Spec => []DocumentValidates
<1>1. IInv => DocumentValidates
  <2> SUFFICES ASSUME IInv, NEW w \in Published, w \in Problems PROVE FALSE
    BY DEF DocumentValidates, Problems
  <2>1. GoodRow(cycles[w])
    BY RowsAreGood DEF Published
  <2>2. \E d \in cycles[w].days, v \in Published \ {w} : Claims(v, d.plan, d.date)
    BY <2>1 DEF Problems, GoodRow
  <2> QED
    BY <2>2, ApartClaims
<1> QED
  BY <1>1, WeeksStayApart, PTL

\* The published week that covers today's date in Jakarta is the one a load
\* shows as current: by disjointness no other covers it, so the choice of the
\* earliest is that week.
THEOREM ShowsTodaysWeek == Spec => []TodaysMenuIsShown
<1>1. IInv => TodaysMenuIsShown
  <2> SUFFICES ASSUME IInv, zone = "known", NEW w \in Published,
                      Covers(cycles[w].span, today)
               PROVE  Current = w
    BY DEF TodaysMenuIsShown
  <2>1. ASSUME NEW v \in Covering(today) PROVE v = w
    <3>1. v \in Published /\ Covers(cycles[v].span, today)
      BY <2>1 DEF Covering
    <3>2. GoodRow(cycles[v]) /\ GoodRow(cycles[w])
      BY <3>1, RowsAreGood DEF Published
    <3>3. cycles[v].span \in Span /\ cycles[w].span \in Span /\ today \in Int
      BY <3>2 DEF GoodRow, Row, IInv, TypeOK
    <3>4. Overlap(cycles[v].span, cycles[w].span)
      BY <3>1, <3>3 DEF Covers, Overlap, Span
    <3> QED
      BY <3>1, <3>4 DEF IInv, PublishedDisjoint
  <2>2. Covering(today) = {w}
    BY <2>1 DEF Covering
  <2>3. Starts(w) <= Starts(w)
    BY RowsAreGood DEF Starts, Published, GoodRow, Row, Span
  <2>4. Earliest({w}) = w
    BY <2>3 DEF Earliest
  <2>5. Current = CurrentOn(today)
    BY DEF Current, BusinessDate
  <2> QED
    BY <2>2, <2>4, <2>5 DEF CurrentOn
<1> QED
  BY <1>1, WeeksStayApart, PTL

-----------------------------------------------------------------------------
(* The week shown and the week announced *)

\* Every row is within its CHECKs, whatever was asked for.
THEOREM TypeCorrect == Spec => []TypeOK
<1>1. IInv => TypeOK
  BY DEF IInv
<1> QED
  BY <1>1, WeeksStayApart, PTL

\* A week's first and last date; published weeks lie apart.
Ends(w) == cycles[w].span.ends

LEMMA WeekDates ==
  ASSUME IInv, NEW w \in Published
  PROVE  Starts(w) \in Int /\ Ends(w) \in Int /\ Starts(w) <= Ends(w)
         /\ \A date \in Int : Covers(cycles[w].span, date) <=> Starts(w) <= date /\ date <= Ends(w)
<1>1. GoodRow(cycles[w])
  BY RowsAreGood DEF Published
<1> QED
  BY <1>1 DEF GoodRow, Row, Span, ValidSpan, Starts, Ends, Covers

LEMMA WeeksApart ==
  ASSUME IInv, NEW v \in Published, NEW w \in Published, v # w
  PROVE  Ends(v) < Starts(w) \/ Ends(w) < Starts(v)
<1>1. ~Overlap(cycles[v].span, cycles[w].span)
  BY DEF IInv, PublishedDisjoint
<1> QED
  BY <1>1, WeekDates DEF Overlap, Starts, Ends

\* A set of integers with a lower bound has a least member.
LEMMA LeastAbove ==
  ASSUME NEW T \in SUBSET Int, T # {}, NEW lo \in Int, \A x \in T : lo <= x
  PROVE  \E x \in T : \A y \in T : x <= y
<1> DEFINE S == {x - lo : x \in T}
<1>1. S \in SUBSET Nat /\ S # {}
  <2>1. \A x \in T : x - lo \in Nat
    OBVIOUS
  <2>2. PICK x \in T : TRUE
    OBVIOUS
  <2>3. x - lo \in S
    OBVIOUS
  <2> QED BY <2>1, <2>3
<1>2. PICK m \in S : \A n \in S : <<n, m>> \notin OpToRel(<, Nat)
  BY <1>1, NatLessThanWellFounded, WFMin, Zenon
<1>3. \A n \in S : ~(n < m)
  BY <1>1, <1>2 DEF OpToRel
<1>4. PICK x \in T : m = x - lo
  BY <1>2
<1>5. \A y \in T : y - lo \in S
  OBVIOUS
<1> HIDE DEF S
<1>6. ASSUME NEW y \in T PROVE x <= y
  <2>1. ~(y - lo < x - lo)
    BY <1>3, <1>4, <1>5
  <2> QED
    BY <2>1
<1> QED BY <1>6

\* Weeks that start apart have one that starts first, and no other does.
LEMMA EarliestIs ==
  ASSUME IInv, NEW S \in SUBSET Published, NEW w \in S, \A v \in S : Starts(w) <= Starts(v)
  PROVE  Earliest(S) = w
<1>1. Earliest(S) \in S /\ \A v \in S : Starts(Earliest(S)) <= Starts(v)
  BY Zenon DEF Earliest
<1>2. Starts(Earliest(S)) = Starts(w)
  BY <1>1, WeekDates
<1> QED
  BY <1>1, <1>2, WeekDates, WeeksApart

LEMMA LatestIs ==
  ASSUME IInv, NEW S \in SUBSET Published, NEW w \in S, \A v \in S : Starts(v) <= Starts(w)
  PROVE  Latest(S) = w
<1>1. Latest(S) \in S /\ \A v \in S : Starts(v) <= Starts(Latest(S))
  BY Zenon DEF Latest
<1>2. Starts(Latest(S)) = Starts(w)
  BY <1>1, WeekDates
<1> QED
  BY <1>1, <1>2, WeekDates, WeeksApart

\* Of the weeks that start after a date one starts first, of those that start by
\* a date one starts last, however many there are.
LEMMA EarliestAhead ==
  ASSUME IInv, NEW date \in Int, NEW S \in SUBSET Published, S # {},
         \A v \in S : date < Starts(v)
  PROVE  Earliest(S) \in S /\ \A v \in S : Starts(Earliest(S)) <= Starts(v)
<1> DEFINE T == {Starts(v) : v \in S}
<1>1. T \in SUBSET Int /\ T # {} /\ \A x \in T : date <= x
  BY WeekDates
<1>2. PICK x \in T : \A y \in T : x <= y
  BY <1>1, LeastAbove, Zenon
<1>3. PICK w \in S : x = Starts(w)
  BY <1>2
<1>4. \A v \in S : Starts(w) <= Starts(v)
  BY <1>2, <1>3
<1> QED
  BY <1>4, EarliestIs

LEMMA LatestBy ==
  ASSUME IInv, NEW date \in Int, NEW S \in SUBSET Published, S # {},
         \A v \in S : Starts(v) <= date
  PROVE  Latest(S) \in S /\ \A v \in S : Starts(v) <= Starts(Latest(S))
<1> DEFINE T == {0 - Starts(v) : v \in S}
<1>1. T \in SUBSET Int /\ T # {} /\ 0 - date \in Int /\ \A x \in T : 0 - date <= x
  BY WeekDates
<1>2. PICK x \in T : \A y \in T : x <= y
  BY <1>1, LeastAbove, Zenon
<1>3. PICK w \in S : x = 0 - Starts(w)
  BY <1>2
<1>4. \A v \in S : Starts(v) <= Starts(w)
  <2> SUFFICES ASSUME NEW v \in S PROVE Starts(v) <= Starts(w)
    OBVIOUS
  <2>1. 0 - Starts(v) \in T
    OBVIOUS
  <2>2. 0 - Starts(w) <= 0 - Starts(v)
    BY <1>2, <1>3, <2>1
  <2> QED
    BY <2>2, WeekDates
<1> QED
  BY <1>4, LatestIs

\* No two published weeks cover one date.
LEMMA OneCovers ==
  ASSUME IInv, NEW date \in Int, NEW w \in Covering(date)
  PROVE  Covering(date) = {w} /\ Earliest(Covering(date)) = w
<1>1. \A v \in Covering(date) : v = w
  <2> SUFFICES ASSUME NEW v \in Covering(date), v # w PROVE FALSE
    OBVIOUS
  <2> QED
    BY WeekDates, WeeksApart DEF Covering
<1>2. Covering(date) \in SUBSET Published /\ Starts(w) <= Starts(w)
  BY WeekDates DEF Covering
<1>3. Covering(date) = {w}
  BY <1>1
<1>4. Earliest(Covering(date)) = w
  BY <1>2, <1>3, EarliestIs
<1> QED
  BY <1>3, <1>4

\* The week shown for a date is a published one.
LEMMA CurrentIsPublished ==
  ASSUME IInv, NEW date \in Int, Published # {}
  PROVE  CurrentOn(date) \in Published
<1>1. CASE Covering(date) # {}
  <2>1. PICK w \in Covering(date) : TRUE
    BY <1>1
  <2> QED
    BY <1>1, <2>1, OneCovers DEF CurrentOn, Covering
<1>2. CASE Covering(date) = {} /\ Ahead(date) # {}
  <2>1. Ahead(date) \in SUBSET Published /\ \A v \in Ahead(date) : date < Starts(v)
    BY WeekDates DEF Ahead
  <2> QED
    BY <1>2, <2>1, EarliestAhead DEF CurrentOn
<1>3. CASE Covering(date) = {} /\ Ahead(date) = {}
  <2>1. \A v \in Published : Starts(v) <= date
    BY <1>3, WeekDates DEF Ahead
  <2> QED
    BY <1>3, <2>1, LatestBy DEF CurrentOn
<1> QED
  BY <1>1, <1>2, <1>3

LEMMA BusinessDateIsDate == ASSUME IInv PROVE BusinessDate \in Int
BY DEF IInv, TypeOK, BusinessDate

\* The weeks after one are those ahead of its end, and the next is the first.
LEMMA AfterWeek ==
  ASSUME IInv, NEW w \in Published
  PROVE  /\ \A v \in After(w) : Ends(w) < Starts(v)
         /\ After(w) # {} => /\ Earliest(After(w)) \in After(w)
                             /\ \A v \in After(w) : Starts(Earliest(After(w))) <= Starts(v)
<1>1. After(w) \in SUBSET Published /\ \A v \in After(w) : Starts(w) < Starts(v)
  BY WeekDates DEF After
<1>2. \A v \in After(w) : Ends(w) < Starts(v)
  BY <1>1, WeekDates, WeeksApart
<1> QED
  BY <1>1, <1>2, WeekDates, EarliestAhead

\* "Menu minggu depan" starts after "menu minggu ini" has ended, and nothing
\* published lies between them or overlaps either.
THEOREM NextIsNext == Spec => []NextFollowsCurrent
<1>1. IInv => NextFollowsCurrent
  <2> SUFFICES ASSUME IInv, NextCycle # NoCycle
               PROVE  /\ cycles[Current].span.ends < Starts(NextCycle)
                      /\ \A v \in Published \ {Current, NextCycle} :
                           cycles[v].span.ends < Starts(Current)
                           \/ cycles[NextCycle].span.ends < Starts(v)
    BY DEF NextFollowsCurrent
  <2>1. Current \in Published /\ After(Current) # {} /\ NextCycle = Earliest(After(Current))
    BY BusinessDateIsDate, CurrentIsPublished DEF NextCycle, Current
  <2>2. NextCycle \in After(Current) /\ \A v \in After(Current) : Starts(NextCycle) <= Starts(v)
    BY <2>1, AfterWeek
  <2>3. Ends(Current) < Starts(NextCycle)
    BY <2>1, <2>2, AfterWeek
  <2>4. NextCycle \in Published
    BY <2>2 DEF After
  <2>5. ASSUME NEW v \in Published \ {Current, NextCycle}
        PROVE  Ends(v) < Starts(Current) \/ Ends(NextCycle) < Starts(v)
    <3>1. CASE v \in After(Current)
      <4>1. Starts(NextCycle) <= Starts(v) /\ v # NextCycle
        BY <2>2, <3>1
      <4> QED
        BY <2>4, <4>1, WeekDates, WeeksApart
    <3>2. CASE v \notin After(Current)
      <4>1. Starts(v) <= Starts(Current) /\ v # Current
        BY <2>1, <3>2, WeekDates DEF After
      <4> QED
        BY <2>1, <4>1, WeekDates, WeeksApart
    <3> QED BY <3>1, <3>2
  <2> QED
    BY <2>3, <2>5 DEF Ends
<1> QED
  BY <1>1, WeeksStayApart, PTL

\* A day later the week shown is the same or the one that was next.
LEMMA DayPasses ==
  ASSUME IInv, Published # {}, NEW date \in Int
  PROVE  LET w == CurrentOn(date)
         IN  CurrentOn(date + 1) = w
             \/ (After(w) # {} /\ CurrentOn(date + 1) = Earliest(After(w)))
<1> DEFINE w == CurrentOn(date)
<1>0. w \in Published /\ date + 1 \in Int
  BY CurrentIsPublished
<1>1. \A v \in Published, d \in Int : v \in Covering(d) <=> Starts(v) <= d /\ d <= Ends(v)
  BY WeekDates DEF Covering
<1>2. \A v \in Published, d \in Int : v \in Ahead(d) <=> d < Starts(v)
  BY WeekDates DEF Ahead
<1>3. \A d \in Int : Covering(d) \in SUBSET Published /\ Ahead(d) \in SUBSET Published
  BY DEF Covering, Ahead
<1>4. CASE Covering(date) # {}
  <2>1. PICK x \in Covering(date) : TRUE
    BY <1>4
  <2>2. w = x
    BY <1>4, <2>1, OneCovers DEF CurrentOn
  <2>3. Starts(w) <= date /\ date <= Ends(w)
    BY <1>0, <1>1, <2>1, <2>2
  <2>4. CASE date < Ends(w)
    <3>1. w \in Covering(date + 1)
      BY <1>0, <1>1, <2>3, <2>4, WeekDates
    <3>2. CurrentOn(date + 1) = w
      BY <1>0, <3>1, OneCovers DEF CurrentOn
    <3> QED BY <3>2
  <2>5. CASE Ends(w) = date
    <3>1. \A v \in Published : v \in After(w) <=> date < Starts(v)
      <4> SUFFICES ASSUME NEW v \in Published PROVE v \in After(w) <=> date < Starts(v)
        OBVIOUS
      <4>1. v \in After(w) => date < Starts(v)
        BY <1>0, <2>5, AfterWeek
      <4>2. date < Starts(v) => Starts(w) < Starts(v)
        BY <1>0, <2>3, WeekDates
      <4> QED BY <1>0, <4>1, <4>2, WeekDates DEF After
    <3>2. After(w) = Ahead(date)
      BY <1>2, <1>3, <3>1 DEF After
    <3>3. ASSUME NEW v \in Covering(date + 1)
          PROVE  v \in Published /\ Starts(v) = date + 1
      <4>1. v \in Published /\ Starts(v) <= date + 1 /\ date + 1 <= Ends(v)
        BY <1>0, <1>1, <1>3
      <4>2. v # w
        BY <2>5, <4>1
      <4>3. Ends(w) < Starts(v) \/ Ends(v) < Starts(w)
        BY <1>0, <4>1, <4>2, WeeksApart
      <4> QED
        BY <1>0, <2>3, <2>5, <4>1, <4>3, WeekDates
    <3>4. CASE Covering(date + 1) # {}
      <4>1. PICK v \in Covering(date + 1) : TRUE
        BY <3>4
      <4>2. v \in After(w) /\ \A u \in After(w) : Starts(v) <= Starts(u)
        <5>1. v \in Published /\ Starts(v) = date + 1
          BY <3>3, <4>1
        <5>2. \A u \in After(w) : u \in Published /\ date < Starts(u) /\ Starts(u) \in Int
          BY <3>1, WeekDates DEF After
        <5> QED BY <3>1, <5>1, <5>2
      <4>3. Earliest(After(w)) = v
        BY <4>2, EarliestIs DEF After
      <4>4. CurrentOn(date + 1) = v
        BY <1>0, <3>4, <4>1, OneCovers DEF CurrentOn
      <4> QED BY <4>2, <4>3, <4>4
    <3>5. CASE Covering(date + 1) = {}
      <4>1. Ahead(date + 1) = Ahead(date)
        <5> SUFFICES ASSUME NEW v \in Published PROVE v \in Ahead(date + 1) <=> v \in Ahead(date)
          BY <1>0, <1>3
        <5>1. Starts(v) # date + 1
          BY <1>0, <1>1, <3>5, WeekDates
        <5> QED BY <1>0, <1>2, <5>1, WeekDates
      <4>2. CASE Ahead(date) # {}
        BY <3>2, <3>5, <4>1, <4>2 DEF CurrentOn
      <4>3. CASE Ahead(date) = {}
        <5>1. CurrentOn(date + 1) = Latest(Published)
          BY <3>5, <4>1, <4>3 DEF CurrentOn
        <5>2. \A v \in Published : Starts(v) <= Starts(w)
          BY <1>0, <3>2, <4>3, WeekDates DEF After
        <5>3. Latest(Published) = w
          BY <1>0, <5>2, LatestIs
        <5> QED BY <5>1, <5>3
      <4> QED BY <4>2, <4>3
    <3> QED BY <3>4, <3>5
  <2> QED
    BY <1>0, <2>3, <2>4, <2>5, WeekDates
<1>5. CASE Covering(date) = {} /\ Ahead(date) # {}
  <2>1. w \in Ahead(date) /\ \A v \in Ahead(date) : Starts(w) <= Starts(v)
    <3>1. \A v \in Ahead(date) : date < Starts(v)
      BY <1>2, <1>3
    <3> QED
      BY <1>3, <1>5, <3>1, EarliestAhead DEF CurrentOn
  <2>2. CASE Starts(w) = date + 1
    <3>1. w \in Covering(date + 1)
      BY <1>0, <1>1, <2>2, WeekDates
    <3>2. CurrentOn(date + 1) = w
      BY <1>0, <3>1, OneCovers DEF CurrentOn
    <3> QED BY <3>2
  <2>3. CASE date + 1 < Starts(w)
    <3>1. \A v \in Published : Starts(v) <= date \/ date + 1 < Starts(v)
      BY <1>0, <1>2, <2>1, <2>3, WeekDates
    <3>2. Covering(date + 1) = {}
      <4> SUFFICES ASSUME NEW v \in Covering(date + 1) PROVE FALSE
        OBVIOUS
      <4>1. v \in Published /\ Starts(v) <= date + 1 /\ date + 1 <= Ends(v)
        BY <1>0, <1>1, <1>3
      <4>2. v \in Covering(date)
        BY <1>1, <3>1, <4>1, WeekDates
      <4> QED BY <1>5, <4>2
    <3>3. Ahead(date + 1) = Ahead(date)
      <4> SUFFICES ASSUME NEW v \in Published PROVE v \in Ahead(date + 1) <=> v \in Ahead(date)
        BY <1>0, <1>3
      <4> QED BY <1>0, <1>2, <3>1, WeekDates
    <3>4. CurrentOn(date + 1) = Earliest(Ahead(date)) /\ w = Earliest(Ahead(date))
      BY <1>5, <3>2, <3>3 DEF CurrentOn
    <3> QED BY <3>4
  <2> QED
    BY <1>0, <1>2, <2>1, <2>2, <2>3, WeekDates
<1>6. CASE Covering(date) = {} /\ Ahead(date) = {}
  <2>1. \A v \in Published : Starts(v) <= date /\ Ends(v) < date
    <3> SUFFICES ASSUME NEW v \in Published PROVE Starts(v) <= date /\ Ends(v) < date
      OBVIOUS
    <3>1. Starts(v) <= date
      BY <1>2, <1>6, WeekDates
    <3> QED
      BY <1>1, <1>6, <3>1, WeekDates
  <2>2. Covering(date + 1) = {} /\ Ahead(date + 1) = {}
    <3> SUFFICES ASSUME NEW v \in Published PROVE v \notin Covering(date + 1) /\ v \notin Ahead(date + 1)
      BY <1>0, <1>3
    <3> QED
      BY <1>0, <1>1, <1>2, <2>1, WeekDates
  <2>3. CurrentOn(date + 1) = Latest(Published) /\ w = Latest(Published)
    BY <1>6, <2>2 DEF CurrentOn
  <2> QED BY <2>3
<1> QED
  BY <1>4, <1>5, <1>6

\* While nobody edits, midnight keeps the week shown or turns to the one that was
\* announced: none is skipped, and none comes back.
THEOREM WeeksTurn == Spec => WeeksTurnInOrder
<1>1. IInv /\ [Next]_vars => [UNCHANGED <<cycles, zone>> => Current' \in {Current, NextCycle}]_vars
  <2> SUFFICES ASSUME IInv, [Next]_vars, UNCHANGED <<cycles, zone>>
               PROVE  Current' \in {Current, NextCycle}
    OBVIOUS
  <2>1. Published' = Published /\ \A S : Earliest(S)' = Earliest(S) /\ Latest(S)' = Latest(S)
    BY DEF Published, Exists, Earliest, Latest, Starts
  <2>2. \A d : Covering(d)' = Covering(d) /\ Ahead(d)' = Ahead(d)
    BY <2>1 DEF Covering, Ahead, Starts
  <2>3. \A d : CurrentOn(d)' = CurrentOn(d)
    BY <2>1, <2>2 DEF CurrentOn
  <2>4. BusinessDate' = BusinessDate \/ BusinessDate' = BusinessDate + 1
    BY DEF Next, UpsertCycle, PublishCycle, UnpublishCycle, DeleteCycle, SetZone,
           MidnightInJakarta, MidnightUTC, vars, BusinessDate, IInv, TypeOK
  <2>5. CASE Published = {}
    BY <2>1, <2>5 DEF Current
  <2>6. CASE Published # {}
    <3>1. Current = CurrentOn(BusinessDate) /\ Current' = CurrentOn(BusinessDate)'
      BY <2>1, <2>6 DEF Current
    <3>2. CurrentOn(BusinessDate)' = CurrentOn(BusinessDate')
      BY <2>3 DEF CurrentOn, Covering, Ahead
    <3>3. CASE BusinessDate' = BusinessDate
      BY <3>1, <3>2, <3>3
    <3>4. CASE BusinessDate' = BusinessDate + 1
      BY <2>6, <3>1, <3>2, <3>4, DayPasses, BusinessDateIsDate DEF NextCycle
    <3> QED BY <2>4, <3>3, <3>4
  <2> QED BY <2>5, <2>6
<1> QED
  BY <1>1, WeeksStayApart, PTL DEF Spec, WeeksTurnInOrder
=============================================================================
