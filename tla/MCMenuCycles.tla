---------------------------- MODULE MCMenuCycles ----------------------------
(* An instance for TLC: three weeks over ten dates, 7 being the Sunday.      *)
EXTENDS MenuCycles

CONSTANTS daily, healthy

From(first, last) == [starts |-> first, ends |-> last]

\* Touching, overlapping and seven-day spans, one too wide and one inverted.
AskedSpans == {From(1, 4), From(4, 7), From(6, 8), From(8, 9), From(4, 10),
               From(1, 8), From(5, 3)}

Menu(p, d) == [plan |-> p, date |-> d, items |-> 1]

\* A Sunday for the plan that delivers on it and for the one that does not, a
\* day without components, and days that fit some of the spans only.
AskedDays == {{}, {Menu(daily, 4)}, {Menu(daily, 7), Menu(daily, 8)},
              {Menu(healthy, 7)}, {[plan |-> daily, date |-> 4, items |-> 0]}}
=============================================================================
