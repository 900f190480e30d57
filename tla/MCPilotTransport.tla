-------------------------- MODULE MCPilotTransport --------------------------
(* Small instances of the delivery of durable answers for TLC.             *)
EXTENDS PilotTransport, TLC

CONSTANTS a1, a2, a3, b1, i1, i2

(* a1 and a3 answer the same instance, b1 is another device's answer to it *)
MCInstanceOf == [a \in AnyAttempt |-> IF a = a2 THEN i2 ELSE i1]
PageSymmetry == Permutations(Flusher)

(* a1 and a3 may be exchanged too: they answer the same instance. *)
CardSymmetry == Permutations(Submitter) \cup Permutations(Attempt)

MCHash == [a \in AnyAttempt |-> a]
=============================================================================
