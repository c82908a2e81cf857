-------------------------- MODULE MCAdminAccounts --------------------------
(* Instance for TLC: handlers are interchangeable, and so are the accounts  *)
(* that do not exist yet.                                                   *)
EXTENDS AdminAccounts, TLC

Symmetry == Permutations(Slots) \union Permutations(Users \ {First})
=============================================================================
