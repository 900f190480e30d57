--------------------------- MODULE MCSnapshotCache ---------------------------
(***************************************************************************)
(* Two overlapping loads of one tab.  Loads meet in the database alone,    *)
(* so that they are those of two tabs as well but for what is shown.  Two  *)
(* loads of one tab are alike.                                             *)
(***************************************************************************)
EXTENDS SnapshotCache, TLC

CONSTANTS l1, l2, t1

OneTab == [l \in Load |-> t1]

Symmetry == Permutations(Load)
=============================================================================
