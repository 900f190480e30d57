---------------------------- MODULE AnswerLedger ----------------------------
(***************************************************************************)
(* What the offline delivery of answers promises, with no threads, no      *)
(* messages and no network.  An answer is held on the device from the      *)
(* moment it is given.  Each instance takes one answer, for good, and only *)
(* one that some device holds.  A held answer is confirmed when the ledger *)
(* has taken it, and only then; it may be set aside for the learner's      *)
(* attention, from where only a confirmation gets it back.                 *)
(***************************************************************************)
CONSTANTS Attempt, Foreign, Instance, InstanceOf, None

VARIABLES
    ledger,     \* the answer each instance has taken, None before
    answer      \* what the device says of each of its answers

ledgerVars == <<ledger, answer>>

Standing == {"none", "held", "setAside", "confirmed"}

LedgerInit ==
    /\ ledger = [i \in Instance |-> None]
    /\ answer = [a \in Attempt |-> "none"]

Hold(a) ==
    /\ \A b \in Attempt : InstanceOf[b] = InstanceOf[a] => answer[b] = "none"
    /\ answer' = [answer EXCEPT ![a] = "held"]
    /\ UNCHANGED ledger

(* The server takes an answer: one the device holds, or another device's.  *)
Take(a) ==
    /\ ledger[InstanceOf[a]] = None
    /\ a \in Attempt => answer[a] # "none"
    /\ ledger' = [ledger EXCEPT ![InstanceOf[a]] = a]
    /\ UNCHANGED answer

Confirm(a) ==
    /\ answer[a] \in {"held", "setAside"}
    /\ ledger[InstanceOf[a]] = a
    /\ answer' = [answer EXCEPT ![a] = "confirmed"]
    /\ UNCHANGED ledger

SetAside(a) ==
    /\ answer[a] = "held"
    /\ answer' = [answer EXCEPT ![a] = "setAside"]
    /\ UNCHANGED ledger

LedgerNext ==
    \/ \E a \in Attempt : Hold(a) \/ Confirm(a) \/ SetAside(a)
    \/ \E a \in Attempt \cup Foreign : Take(a)

LedgerSpec == LedgerInit /\ [][LedgerNext]_ledgerVars
=============================================================================
