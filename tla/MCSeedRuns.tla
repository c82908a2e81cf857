----------------------------- MODULE MCSeedRuns -----------------------------
(***************************************************************************)
(* Two captures of the page that share a week, and a week neither shows;   *)
(* two seeds, so that one can wait for the other, or three.                *)
(***************************************************************************)
EXTENDS SeedRuns, TLC

MCWeeksOf == [p \in Pages |-> IF p = "july" THEN {"w29", "w30"} ELSE {"w30", "w31"}]

Symmetry == Permutations(Seeders)
=============================================================================
