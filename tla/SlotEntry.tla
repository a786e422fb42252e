----------------------------- MODULE SlotEntry -----------------------------
(***************************************************************************)
(* The entry a provisioning slot holds (provisioning_runtime/slot.rs,      *)
(* `SlotEntry' and `SlotStage') and the checks and updates the slot        *)
(* coordinator makes on one entry.  Nothing here has state: SlotRegistry   *)
(* applies these operators to its map of entries and OwnershipSupervisor   *)
(* to the entry of each process.                                           *)
(*                                                                         *)
(* Data kept abstract:                                                     *)
(*  - an operation and its claim are created together and always compared  *)
(*    together, so one value of Claim stands for the pair;                 *)
(*  - `process_generation' of an entry is the owner token of its claim, so *)
(*    it is not stored (SlotRegistry says which claims this process owns); *)
(*  - a runtime instance id is unique to one registration, sentinel or     *)
(*    recovery execution, and says which: `rt' is SentinelRuntime or       *)
(*    HandleRuntime for the first two, which the generation tells apart,   *)
(*    and past those the execution generation.                             *)
(***************************************************************************)
EXTENDS Integers

CONSTANTS Claim,     \* operation/claim identities
          NoClaim    \* the absence of one

ASSUME NoClaimAssumption == NoClaim \notin Claim

\* RuntimeRegistryLifecycle, without Closed: a closed entry is removed.
IdleLifecycle ==
  {"Live", "ExecutionOwned", "StepExecutionInFlight", "Exiting", "Retained",
   "Quarantined", "DroppedUnclosed", "OrphanedDurableClaim",
   "OwnershipExpiredCandidate", "AbandonedEligible",
   "RecoveryOwnershipCommittedButUnattached", "RecoveryOwned",
   "RecoveryTakeoverQuarantined"}

CheckoutAction == {"Renew", "Inspect", "Classify", "Takeover"}

InFlightLifecycle ==
  {"RenewInFlight", "InspectionInFlight", "ClassificationInFlight", "TakeoverInFlight"}

Lifecycle == IdleLifecycle \cup InFlightLifecycle

\* The lifecycle an entry has while a checkout for the action is outstanding.
InFlightOf(action) ==
  CASE action = "Renew"    -> "RenewInFlight"
    [] action = "Inspect"  -> "InspectionInFlight"
    [] action = "Classify" -> "ClassificationInFlight"
    [] action = "Takeover" -> "TakeoverInFlight"

\* ClaimOwnershipProof: the claim, the slot generation it is sealed to and the
\* revision of the durable claim row it was read from.
Proof   == [claim : Claim, gen : Nat \ {0}, rev : Nat]
NoProof == [claim |-> NoClaim, gen |-> 0, rev |-> 0]

\* "none" stands for an empty Option<RuntimeRegistryLifecycle>, 0 for an empty
\* Option<u64>.  Fields a stage does not have keep these empty values.
Entry ==
  [stage : {"vacant", "pending", "claimed", "owned"},
   kind  : {"mutation", "recovery-decision"},
   gen   : Nat,
   claim : Claim \cup {NoClaim},
   rt    : Nat,
   lc    : Lifecycle \cup {"none"},
   proof : Proof \cup {NoProof},
   ck    : Nat,
   prev  : Lifecycle \cup {"none"},
   qalr  : BOOLEAN,          \* quarantine_allows_live_restore
   abandoned : BOOLEAN]

Vacant ==
  [stage |-> "vacant", kind |-> "mutation", gen |-> 0, claim |-> NoClaim,
   rt |-> 0, lc |-> "none", proof |-> NoProof, ck |-> 0, prev |-> "none",
   qalr |-> FALSE, abandoned |-> FALSE]

LocalPending(gen, kind) ==
  [Vacant EXCEPT !.stage = "pending", !.gen = gen, !.kind = kind]

\* Wrong: the promotion does not look at the shutdown flag.
ClaimedEntryNeverAbandoned(e, claim, abandoned) ==
  [e EXCEPT !.stage = "claimed", !.claim = claim]

\* SlotStage::Claimed
ClaimedEntry(e, claim, abandoned) ==
  [e EXCEPT !.stage = "claimed", !.claim = claim, !.abandoned = abandoned]

SentinelRuntime     == 0
HandleRuntime       == 1
ExecutionRuntime(x) == 1 + x     \* x is an execution generation, from 1 on

\* SlotStage::RuntimeOwned as a registration or a sentinel creates it.
RuntimeOwned(gen, claim, rt, lc) ==
  [Vacant EXCEPT !.stage = "owned", !.gen = gen, !.claim = claim, !.rt = rt, !.lc = lc]

Occupied(e) == e.stage # "vacant"
Owned(e)    == e.stage = "owned"

\* The fields a stage does not have are empty, and an outstanding checkout is
\* recorded with the lifecycle it came from.
StageShape(e) ==
  /\ Owned(e) <=> e.lc # "none"
  /\ (e.stage \in {"claimed", "owned"}) <=> e.claim # NoClaim
  /\ ~Owned(e) => e.proof = NoProof /\ e.rt = 0 /\ e.ck = 0 /\ ~e.qalr
  /\ e.ck = 0 <=> e.prev = "none"
  /\ e.ck = 0 <=> e.lc \notin InFlightLifecycle
  /\ e.abandoned => e.stage = "claimed"
  /\ Occupied(e) <=> e.gen # 0

----------------------------------------------------------------------------
\* Updates of a RuntimeOwned entry.

\* With no checkout outstanding.
Settled(e, lc, proof, qalr) ==
  [e EXCEPT !.lc = lc, !.proof = proof, !.ck = 0, !.prev = "none", !.qalr = qalr]

\* For another claim and runtime instance.
Rekeyed(e, claim, rt) == [e EXCEPT !.claim = claim, !.rt = rt]

\* A proof put in, and a lifecycle changed, with the rest left alone.
Sealed(e, proof) == [e EXCEPT !.proof = proof]
Moved(e, lc)     == [e EXCEPT !.lc = lc]

\* Lifecycles transition_runtime_handle never leaves a proof in.
ProoflessLifecycle ==
  {"Quarantined", "DroppedUnclosed", "OrphanedDurableClaim",
   "OwnershipExpiredCandidate", "AbandonedEligible"}

Transitioned(e, target) ==
  Settled(e, target, IF target \in ProoflessLifecycle THEN NoProof ELSE e.proof, FALSE)

QuarantinedInvalid(e) == Settled(e, "Quarantined", NoProof, TRUE)

DroppedUnclosed(e) == Settled(e, "DroppedUnclosed", NoProof, FALSE)

InstallAllowed(e, proof) ==
  /\ Owned(e)
  /\ e.lc \in {"Live", "Retained"}
  /\ e.proof = NoProof
  /\ proof.claim = e.claim
  /\ proof.gen = e.gen

ReplaceAllowed(e, expectedRev, proof) ==
  /\ Owned(e)
  /\ e.lc \in {"Live", "Retained"}
  /\ e.proof.claim = e.claim       \* a proof is there, and for this claim
  /\ e.proof.rev = expectedRev
  /\ proof.rev = expectedRev + 1
  /\ proof.claim = e.claim
  /\ proof.gen = e.gen

\* claim_ownership_snapshot returns a snapshot of the proof.
SnapshotAllowed(e) ==
  Owned(e) /\ e.proof # NoProof /\ e.lc \in {"Live", "Exiting", "Retained"}

----------------------------------------------------------------------------
\* Checkouts: the supervisor takes an entry's proof out of the coordinator,
\* works on the database without the lock, and puts a result back.

CheckoutAllowed(e, action) ==
  /\ Owned(e)
  /\ e.ck = 0
  /\ CASE action = "Renew"    -> e.lc \in {"Live", "Retained"} /\ e.proof # NoProof
       [] action = "Inspect"  -> e.lc \in {"DroppedUnclosed", "OrphanedDurableClaim",
                                           "OwnershipExpiredCandidate"}
       [] action = "Classify" -> e.lc = "Quarantined"
       [] action = "Takeover" -> e.lc = "AbandonedEligible" /\ e.proof = NoProof

\* Wrong: the proof is copied out instead of taken.
CheckedOutByCopy(e, action, ck) ==
  [e EXCEPT !.lc = InFlightOf(action), !.ck = ck, !.prev = e.lc]

CheckedOut(e, action, ck) ==
  [e EXCEPT !.lc = InFlightOf(action), !.ck = ck, !.prev = e.lc, !.proof = NoProof]

\* The ClaimOwnershipCheckout value handed to the caller.
CheckoutOf(res, e, action, ck) ==
  [res |-> res, gen |-> e.gen, ck |-> ck, claim |-> e.claim, rt |-> e.rt,
   prev |-> e.lc, action |-> action, proof |-> e.proof, qalr |-> e.qalr]

CheckoutMatches(e, c) ==
  /\ Owned(e)
  /\ e.gen = c.gen
  /\ e.claim = c.claim
  /\ e.rt = c.rt
  /\ e.lc = InFlightOf(c.action)
  /\ e.ck = c.ck
  /\ e.prev = c.prev

Restored(e, c) == Settled(e, c.prev, c.proof, c.qalr)

\* complete_claim_ownership_checkout accepts the proof for the target.
CompletionProofValid(c, target, proof) ==
  IF target \in {"Live", "Retained"}
  THEN proof # NoProof /\ proof.claim = c.claim /\ proof.gen = c.gen
  ELSE proof = NoProof

Completed(e, target, proof) == Settled(e, target, proof, FALSE)

\* complete_recovery_takeover_checkout: the entry changes claim.
TakenOver(e, target, recoveryClaim) ==
  Rekeyed(Settled(e, target, NoProof, FALSE), recoveryClaim, e.rt)

\* Wrong: the entry keeps the claim of the recovery operation.
ExecutionAttachedToOldClaim(e, claim, rt, proof) ==
  Rekeyed(Settled(e, "ExecutionOwned", proof, FALSE), e.claim, rt)

\* attach_recovery_execution: from recovery ownership to execution ownership.
ExecutionAttached(e, claim, rt, proof) ==
  Rekeyed(Settled(e, "ExecutionOwned", proof, FALSE), claim, rt)
=============================================================================
