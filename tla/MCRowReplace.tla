---------------------------- MODULE MCRowReplace ----------------------------
(* Instances for TLC: the repository methods that replace a list.            *)
EXTENDS RowReplace, TLC

CONSTANTS LowestBand

NonEmpty == (SUBSET Keys) \ {{}}

UpsertCycle    == [lock |-> TRUE,  skip |-> FALSE, lists |-> SUBSET Keys]
SetKantorRates == [lock |-> FALSE, skip |-> FALSE, lists |-> {l \in NonEmpty : LowestBand \in l}]
SetTierPrices  == [lock |-> FALSE, skip |-> FALSE, lists |-> NonEmpty]
SetUserRoles   == [lock |-> FALSE, skip |-> TRUE,  lists |-> NonEmpty]

AllMethods == {UpsertCycle, SetKantorRates, SetTierPrices, SetUserRoles}

Symmetry == Permutations(Writers)
=============================================================================
