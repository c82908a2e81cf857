---------------------------- MODULE MCWriteLocks ----------------------------
(***************************************************************************)
(* Three connections, two weeks, two keys of a list, so that it can be     *)
(* found in part, deleted in one order and inserted in another, and one of *)
(* everything else.                                                        *)
(*                                                                         *)
(* Content and accounts have no row in common, and a role's permissions    *)
(* none with anything.  The rest is put side by side by the rows the       *)
(* writes meet in besides content_revision: menus with every write of one  *)
(* row, a ladder with menus, the seed with deletions of its weeks, roles   *)
(* with the deletion of their account, sessions with what else deletes     *)
(* them and what refers to their account.                                  *)
(***************************************************************************)
EXTENDS WriteLocks

CONSTANTS p, q, r
=============================================================================
