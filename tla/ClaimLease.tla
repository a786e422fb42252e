----------------------------- MODULE ClaimLease -----------------------------
(***************************************************************************)
(* What durable claim ownership promises, whoever supervises it: one       *)
(* resource is leased to one claim at a time, the holder keeps the lease   *)
(* by beating, and the lease is handed over only after it was silent for   *)
(* the confirmation interval.  A claim that lost the lease never gets it   *)
(* back.  OwnershipSupervisor is shown to implement this.                  *)
(***************************************************************************)
EXTENDS Naturals

CONSTANTS
  Claim,
  Process,
  NoLease,
  CONFIRM     \* how long a lease must have been silent to be handed over

VARIABLES
  lease,      \* the claim that holds the resource and its process, or NoLease
  used,       \* the claims that ever held it
  beatAt,     \* when the holder last took, kept or got the lease
  now

leaseVars == <<lease, used, beatAt, now>>

LeaseInit ==
  /\ lease = NoLease
  /\ used = {}
  /\ beatAt = 0
  /\ now = 0

Granted(c, p) ==
  /\ c \notin used
  /\ lease' = [claim |-> c, owner |-> p]
  /\ used' = used \cup {c}
  /\ beatAt' = now
  /\ UNCHANGED now

Grant == lease = NoLease /\ \E c \in Claim, p \in Process : Granted(c, p)

Beat ==
  /\ lease # NoLease
  /\ beatAt' = now
  /\ UNCHANGED <<lease, used, now>>

HandOver ==
  /\ lease # NoLease
  /\ now - beatAt >= CONFIRM
  /\ \E c \in Claim, p \in Process : Granted(c, p)

Release ==
  /\ lease' = NoLease
  /\ UNCHANGED <<used, beatAt, now>>

Pass ==
  /\ now' = now + 1
  /\ UNCHANGED <<lease, used, beatAt>>

LeaseNext == Grant \/ Beat \/ HandOver \/ Release \/ Pass

LeaseSpec == LeaseInit /\ [][LeaseNext]_leaseVars
=============================================================================
