--------------------------- MODULE MCOrderQuotes ---------------------------
(* An instance for TLC: every order of eight dates, a Thursday to the        *)
(* Thursday of the next week, under thresholds scaled down to them, and some *)
(* longer orders under the shipped thresholds.                               *)
EXTENDS OrderQuotes, TLC

CONSTANTS reguler, healthy

Thresholds(w, m, f, fm, wd, ws, k, pax) ==
  [weeklyMin |-> w, monthlyMin |-> m, flexiWeeklyMax |-> f, flexiMonthlySpan |-> fm,
   weekdaySpan |-> wd, weeklySpan |-> ws, daysInWeek |-> k, paxTableMax |-> pax]

Shipped == Thresholds(5, 20, 14, 45, 31, 14, 5, 5)

\* Every branch is reached under the first; the second promises a row the group
\* table does not have; the last two are refused.
AskedRules == {Shipped, Thresholds(2, 4, 3, 6, 6, 6, 2, 2), Thresholds(3, 6, 4, 7, 9, 9, 3, 3),
               Thresholds(2, 3, 4, 6, 6, 6, 2, 2), Thresholds(2, 5, 4, 6, 6, 6, 8, 2)}

FiveRates(d, w, m, fw, fm) ==
  [daily |-> d, weekly |-> w, monthly |-> m, flexiWeekly |-> fw, flexiMonthly |-> fm]

\* The second sells Flexi Bulanan above the list price; refused are Flexi
\* Mingguan below Mingguan, above the list price, and a rate below zero.
AskedRates == {FiveRates(9, 6, 4, 7, 6), FiveRates(9, 8, 8, 9, 10), FiveRates(9, 6, 4, 5, 3),
               FiveRates(9, 6, 4, 10, 6), FiveRates(9, 6, -1, 7, 6)}

Rung(first, last, price) == [min |-> first, max |-> last, price |-> price]

\* Ladders from the minimum and from above it, one with a gap and one whose
\* rungs overlap.
AskedProducts ==
  {[minQty |-> 3, tiers |-> {Rung(3, 5, 9), Rung(6, 99, 7)}],
   [minQty |-> 6, tiers |-> {Rung(6, 8, 8), Rung(9, 99, 5)}],
   [minQty |-> 3, tiers |-> {Rung(3, 4, 9), Rung(6, 99, 7)}],
   [minQty |-> 3, tiers |-> {Rung(3, 6, 9), Rung(6, 99, 7)}]}

AskedKantor == {{Rung(5, 7, 6), Rung(8, 99, 5)}, {Rung(5, 99, 6)}, {Rung(6, 99, 5)}}

\* One portion for two people on Thursdays, and one without restriction.
SoldAddons == {[price |-> 2, restrict |-> {4}, portion |-> 2],
               [price |-> 1, restrict |-> {}, portion |-> 0]}

GroupTable == [p \in {reguler, healthy} |-> [t \in {"weekly", "monthly"} |->
  IF p = healthy THEN <<>> ELSE IF t = "weekly" THEN <<5, 9>> ELSE <<4, 7>>]]

\* Every date, or the first Thursday only, which the order may not have.
AskedChoices == {{}, {4}}

\* Working days of a week, a fortnight, a month; 5, 14, 15, 19 and 20 days back
\* to back; every second day; the two worked examples of BR-3.12; a month of
\* working days that leaves out a Tuesday and a Wednesday.
LongOrders ==
  LET Working(n) == {d \in 1..n : d % 7 \in 1..5}
  IN {Working(n) : n \in {5, 12, 26, 31}} \cup {1..n : n \in {14, 15, 19, 20}}
     \cup {3..7, {2 * k : k \in 1..20}, {3 * k : k \in 1..20},
           {2, 3, 4, 5, 8}, {2, 3, 4, 5, 8, 10, 11, 12, 13}, Working(31) \ {2, 3}}

AskedOrders == ((SUBSET (4..11)) \ {{}}) \cup LongOrders
AskedStarts == 1..7
=============================================================================
