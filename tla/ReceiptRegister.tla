--------------------------- MODULE ReceiptRegister ---------------------------
(***************************************************************************)
(* What the database promises to everything above it: one receipt per      *)
(* exercise instance, written once, never changed, for an attempt on that  *)
(* instance.  The transactions of ObjectiveAuthority implement it; the     *)
(* browser model PilotTransport relies on it.                              *)
(***************************************************************************)
CONSTANTS Answer, Instance, InstanceOf, None

VARIABLE register

NoReceipt == [attempt |-> None, applied |-> FALSE]

RegisterInit == register = [i \in Instance |-> NoReceipt]

Accept(a, applied) ==
    /\ register[InstanceOf[a]] = NoReceipt
    /\ register' = [register EXCEPT
          ![InstanceOf[a]] = [attempt |-> a, applied |-> applied]]

RegisterNext == \E a \in Answer, applied \in BOOLEAN : Accept(a, applied)

RegisterSpec == RegisterInit /\ [][RegisterNext]_register
=============================================================================
