-------------------------- MODULE MCAdminSessions --------------------------
(* Instance for TLC: handlers are interchangeable, and so are tokens. *)
EXTENDS AdminSessions, TLC

Symmetry == Permutations(Slots) \union Permutations(Tokens)
=============================================================================
