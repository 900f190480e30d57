------------------------ MODULE MCObjectiveAuthority ------------------------
(***************************************************************************)
(* Two sessions on one objective: objectives share no row and no lock.     *)
(***************************************************************************)
EXTENDS ObjectiveAuthority, TLC
CONSTANTS s1, s2, h1, i1, i2, a1, a2, a3, a4, q1, q2, o1

(* One objective; i1 has two competing answers.                            *)
MCObjectiveOf == [i \in Instance |-> o1]
MCInstanceOf  == [a \in Attempt |-> CASE a = a1 -> h1
                                      [] a \in {a2, a3} -> i1
                                      [] a = a4 -> i2]
MCRequestFor  == [q \in Request |-> o1]

MCSessions == Permutations(Session)
=============================================================================
