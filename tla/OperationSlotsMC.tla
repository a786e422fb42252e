-------------------------- MODULE OperationSlotsMC --------------------------
(***************************************************************************)
(* Instances of OperationSlots for TLC.                                    *)
(***************************************************************************)
EXTENDS OperationSlots, TLC

CONSTANTS c1, c2, d1, d2

\* An operation for each of two documents.
OneEach == (c1 :> [key |-> d1]) @@ (c2 :> [key |-> d2])

=============================================================================
