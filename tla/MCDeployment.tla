---------------------------- MODULE MCDeployment ----------------------------
(***************************************************************************)
(* Five migrations that depend on each other as the repository's do:       *)
(*   1  0001 platform, sys_parameters and the trigger function             *)
(*   2  0002 catalogue                                                     *)
(*   3  0003 menu, with foreign keys to plans (0004 and 0007 alike but for *)
(*      those)                                                             *)
(*   4  0005 content, with triggers on the catalogue's tables              *)
(*   5  0008 pricing mode, a row of sys_parameters (as 0006)               *)
(* and the binary before the last of them still in use.                    *)
(***************************************************************************)
EXTENDS Deployment, TLC

MCNeeds == <<{}, {}, {1, 2}, {1, 2}, {1}>>
MCPins == <<{}, {}, {1, 2}, {1}, {}>>
MCRowsIn == <<{}, {}, {}, {}, {1}>>

Symmetry == Permutations(Runners)
=============================================================================
