--------------------------- MODULE MCUnitPractice ---------------------------
(***************************************************************************)
(* Two tabs, two cards, and two runs so that one can replace the other.    *)
(***************************************************************************)
EXTENDS UnitPractice, TLC

CONSTANTS t1, t2

MCTab == {t1, t2}
=============================================================================
