---------------------------- MODULE ResourceGate ----------------------------
(***************************************************************************)
(* What the slot coordinator promises to the rest of the runtime: a        *)
(* resource has at most one holder, conflicting resources are not held     *)
(* together, every holder is a new generation, and once the gate is closed *)
(* it only drains.  SlotRegistry is shown to implement this.               *)
(***************************************************************************)
EXTENDS ManagedResource, Naturals

VARIABLES
  holder,   \* the generation that holds each resource, Free if none does
  last,     \* the newest generation
  closed

gateVars == <<holder, last, closed>>

Free == 0

GateInit ==
  /\ holder = [r \in Resource |-> Free]
  /\ last = 0
  /\ closed = FALSE

Take(r) ==
  /\ ~closed
  /\ \A s \in Resource : Conflict(r, s) => holder[s] = Free
  /\ holder' = [holder EXCEPT ![r] = last + 1]
  /\ last' = last + 1
  /\ UNCHANGED closed

GiveBack(r) ==
  /\ holder[r] # Free
  /\ holder' = [holder EXCEPT ![r] = Free]
  /\ UNCHANGED <<last, closed>>

Close ==
  /\ closed' = TRUE
  /\ UNCHANGED <<holder, last>>

GateNext == Close \/ \E r \in Resource : Take(r) \/ GiveBack(r)

GateSpec == GateInit /\ [][GateNext]_gateVars
=============================================================================
