----------------------------- MODULE MenuCycles -----------------------------
(***************************************************************************)
(* The weekly menu rotation: admins save, publish, withdraw and delete     *)
(* weeks of menus while the calendar moves on, and the page shows one week *)
(* as "menu minggu ini" and one as "menu minggu depan".                    *)
(*                                                                         *)
(* Every write is one action: the trigger on each menu table updates the   *)
(* content_revision row, so transactions that write menus run one at a     *)
(* time (SiteConfigCache models that row), and the replacement of the day  *)
(* rows within one is RowReplace's subject.  A request the code refuses    *)
(* changes nothing and is not a step.  Labels, kcal, the meat-day mark and *)
(* the components beyond "there is one" are left out.                      *)
(*                                                                         *)
(* Dates are numbers: 1 is a Monday, and a multiple of 7 a Sunday.         *)
(***************************************************************************)
EXTENDS Integers

CONSTANTS
  Weeks,        \* the (iso_year, iso_week) pairs a cycle is filed under
  Plans,
  SundayPlans,  \* the plans with delivers_sunday
  Spans,        \* the dates an admin may send: [starts, ends], in any order
  DayLists,     \* the menus an admin may send: sets of [plan, date, items]
  LastDate,     \* the model's calendar ends here
  NoCycle       \* no row under this week

ASSUME MenuAssumption ==
  /\ SundayPlans \subseteq Plans
  /\ Spans \subseteq [starts : Int, ends : Int]
  /\ DayLists \subseteq SUBSET [plan : Plans, date : Int, items : Nat]
  /\ LastDate \in Nat \ {0}
  /\ NoCycle \notin Weeks

VARIABLES
  cycles,   \* menu_cycles with their menu_days: week -> row
  zone,     \* sys_parameters 'site.timezone': does it name a known zone
  today,    \* the date in Jakarta
  utc       \* the date in UTC, seven hours behind

vars == <<cycles, zone, today, utc>>

Sunday == 0
Weekday(date) == date % 7

Span == [starts : Int, ends : Int]
Day == [plan : Plans, date : Int, items : Nat]
Row == [span : Span, published : BOOLEAN, days : SUBSET Day]

ASSUME NoCycleAssumption == NoCycle \notin Row

-----------------------------------------------------------------------------
(* The rules of package menu *)

Covers(s, date) == s.starts <= date /\ date <= s.ends

ValidSpan_Fortnight(s) == s.starts <= s.ends /\ s.ends - s.starts <= 13
ValidSpan(s) == s.starts <= s.ends /\ s.ends - s.starts <= 6

ValidDay(s, d) ==
  /\ Covers(s, d.date)
  /\ d.items > 0
  /\ Weekday(d.date) = Sunday => d.plan \in SundayPlans

\* The exclusion constraint on published rows: daterange '[]' with &&.
Overlap_HalfOpen(s, t) == s.starts < t.ends /\ t.starts < s.ends
Overlap(s, t) == s.starts <= t.ends /\ t.starts <= s.ends

Exists(w) == cycles[w] # NoCycle
Published == {w \in Weeks : Exists(w) /\ cycles[w].published}
Free(w, span) == \A v \in Published \ {w} : ~Overlap(span, cycles[v].span)

-----------------------------------------------------------------------------
(* The writes *)

Init ==
  /\ cycles = [w \in Weeks |-> NoCycle]
  /\ zone = "known"
  /\ today = 1
  /\ utc \in {0, 1}

\* The old days go with the old row: replace, not merge.
NewRow(w, span, publish, days) == [span |-> span, published |-> publish, days |-> days]

UpsertCycle(w) ==
  \E span \in Spans, days \in DayLists, publish \in BOOLEAN :
    /\ ValidSpan(span)
    /\ \A d \in days : ValidDay(span, d)
    /\ publish => Free(w, span)
    /\ cycles' = [cycles EXCEPT ![w] = NewRow(w, span, publish, days)]
    /\ UNCHANGED <<zone, today, utc>>

Publishable_Any(w) == Exists(w)
Publishable(w) == Exists(w) /\ Free(w, cycles[w].span)

PublishCycle(w) ==
  /\ Publishable(w)
  /\ cycles' = [cycles EXCEPT ![w].published = TRUE]
  /\ UNCHANGED <<zone, today, utc>>

UnpublishCycle(w) ==
  /\ Exists(w)
  /\ cycles' = [cycles EXCEPT ![w].published = FALSE]
  /\ UNCHANGED <<zone, today, utc>>

DeleteCycle(w) ==
  /\ Exists(w)
  /\ cycles' = [cycles EXCEPT ![w] = NoCycle]
  /\ UNCHANGED <<zone, today, utc>>

\* PUT /params/site.timezone: a parameter of type string takes any string.
SetZone ==
  /\ zone' \in {"known", "unknown"} \ {zone}
  /\ UNCHANGED <<cycles, today, utc>>

MidnightInJakarta ==
  /\ utc = today /\ today < LastDate
  /\ today' = today + 1
  /\ UNCHANGED <<cycles, zone, utc>>

MidnightUTC ==
  /\ utc < today
  /\ utc' = utc + 1
  /\ UNCHANGED <<cycles, zone, today>>

Next ==
  \/ \E w \in Weeks :
       UpsertCycle(w) \/ PublishCycle(w) \/ UnpublishCycle(w) \/ DeleteCycle(w)
  \/ SetZone
  \/ MidnightInJakarta
  \/ MidnightUTC

Spec == Init /\ [][Next]_vars

-----------------------------------------------------------------------------
(* What a load serves now: resolveCurrentCycle over the published cycles *)

Starts(w) == cycles[w].span.starts
Earliest(S) == CHOOSE w \in S : \A v \in S : Starts(w) <= Starts(v)
Latest(S) == CHOOSE w \in S : \A v \in S : Starts(v) <= Starts(w)

BusinessDate_Utc == utc
BusinessDate == IF zone = "known" THEN today ELSE utc

Covering(date) == {w \in Published : Covers(cycles[w].span, date)}
Ahead(date) == {w \in Published : Starts(w) > date}

\* The cycle covering the date, else the first one ahead, else the newest.
CurrentOn_Newest(date) ==
  IF Covering(date) # {} THEN Earliest(Covering(date)) ELSE Latest(Published)
CurrentOn(date) ==
  IF Covering(date) # {} THEN Earliest(Covering(date))
  ELSE IF Ahead(date) # {} THEN Earliest(Ahead(date))
  ELSE Latest(Published)

After(w) == {v \in Published : Starts(v) > Starts(w)}

Current == IF Published = {} THEN NoCycle ELSE CurrentOn(BusinessDate)
NextCycle ==
  IF Published = {} \/ After(Current) = {} THEN NoCycle ELSE Earliest(After(Current))

\* validateMenu: what "thenied validate" would report of the served document.
Claims(w, plan, date) == \E d \in cycles[w].days : d.plan = plan /\ d.date = date
Problems ==
  {w \in Published :
     \/ ~ValidSpan(cycles[w].span)
     \/ \E d \in cycles[w].days : ~ValidDay(cycles[w].span, d)
     \/ \E d \in cycles[w].days, v \in Published \ {w} : Claims(v, d.plan, d.date)}

-----------------------------------------------------------------------------
(* Properties *)

\* Rows are well formed, within the CHECKs of menu_cycles, and Jakarta is at
\* most one date ahead of UTC.
TypeOK ==
  /\ cycles \in [Weeks -> Row \union {NoCycle}]
  /\ \A w \in Weeks : Exists(w) => cycles[w].span.starts <= cycles[w].span.ends
                                 /\ cycles[w].span.ends - cycles[w].span.starts <= 6
  /\ zone \in {"known", "unknown"}
  /\ today \in 1..LastDate
  /\ utc \in {today - 1, today}

\* The invariant the proofs use: published weeks share no date, and the days of
\* a week, published or not, are inside it and not on a Sunday the plan skips.
PublishedDisjoint ==
  \A v, w \in Published : v # w => ~Overlap(cycles[v].span, cycles[w].span)
DaysBelong == \A w \in Weeks : Exists(w) =>
  \A d \in cycles[w].days : ValidDay(cycles[w].span, d)
IInv == TypeOK /\ PublishedDisjoint /\ DaysBelong

\* However weeks are saved, moved, published and withdrawn, the document served
\* is one that Document.validateMenu has nothing to say about: no day outside
\* its week, no Sunday for a plan that skips it, no date in two weeks.
DocumentValidates == Problems = {}

\* A published week that covers today's date in Jakarta is the week shown as
\* "menu minggu ini" by whatever is loaded now, at any hour of the day.
TodaysMenuIsShown ==
  zone = "known" =>
    \A w \in Published : Covers(cycles[w].span, today) => Current = w

\* "Menu minggu depan" starts after "menu minggu ini" has ended, and no other
\* published week lies between the two or overlaps either.
NextFollowsCurrent ==
  NextCycle # NoCycle =>
    /\ cycles[Current].span.ends < Starts(NextCycle)
    /\ \A v \in Published \ {Current, NextCycle} :
         cycles[v].span.ends < Starts(Current) \/ cycles[NextCycle].span.ends < Starts(v)

\* While nobody edits anything, the passing of time keeps the week shown or
\* moves on to the one that was announced as next; it skips none and never
\* goes back.
WeeksTurnInOrder ==
  [][UNCHANGED <<cycles, zone>> => Current' \in {Current, NextCycle}]_vars
=============================================================================
