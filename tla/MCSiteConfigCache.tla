------------------------ MODULE MCSiteConfigCache ------------------------
(* Instance for TLC: the clients are interchangeable. *)
EXTENDS SiteConfigCache, TLC

Symmetry == Permutations(Clients)
=============================================================================
