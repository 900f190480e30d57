---------------------------- MODULE MCOfflineCard ----------------------------
(***************************************************************************)
(* Two tabs, two requests and two instances, all alike.                    *)
(***************************************************************************)
EXTENDS OfflineCard, TLC

CONSTANTS t1, t2, q1, q2, i1, i2

Symmetry == Permutations(Tab) \cup Permutations(Request) \cup Permutations(Instance)
=============================================================================
