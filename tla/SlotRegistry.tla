---------------------------- MODULE SlotRegistry ----------------------------
(***************************************************************************)
(* The process-local slot coordinator of the provisioning runtime          *)
(* (provisioning_runtime/slot.rs with literature_gate.rs): which operation *)
(* holds which managed resource, who may still act on an entry, and where  *)
(* the proof of claim ownership is.                                        *)
(*                                                                         *)
(* Every method of SlotCoordinator takes the one mutex of its state, so    *)
(* each is one step here.  The callers are threads that hold tokens        *)
(* (leases, runtime handles, checkouts, recovery execution attachments)    *)
(* between two calls; a token is a value that outlives the state it was    *)
(* made from, which is where the generations come in.  The tokens that are *)
(* out are state, and any caller may act at any time.                      *)
(*                                                                         *)
(* Left out: window subscriptions and the cancellation flag (never read by *)
(* the coordinator), the intent, phase and times kept for display.         *)
(***************************************************************************)
EXTENDS SlotEntry, ManagedResource

CONSTANTS
  ResourceOf,       \* the resource of a durable claim (its owner columns)
  OwnClaim,         \* the claims whose owner token is this process
  MaxGeneration, MaxCheckout, MaxExecution, MaxRevision   \* bounds

ASSUME RegistryAssumption ==
  /\ OwnClaim \subseteq Claim
  /\ ResourceOf \in [Claim -> Resource]
  /\ {MaxGeneration, MaxCheckout, MaxExecution, MaxRevision} \subseteq Nat

VARIABLES
  slot,           \* SlotState.ordinary and .literature
  nextGen, nextCheckout, nextExec,
  shuttingDown,
  leases,         \* OperationSlotGuard values and, claimed, ClaimedExecutionHandle values
  beats,          \* heartbeat entries that may release their slot
  handles,        \* ProvisioningRuntimeHandle values and sentinels being installed
  checkouts,      \* ClaimOwnershipCheckout values
  attachments     \* RecoveryExecutionRegistryAttachment values

counters == <<nextGen, nextCheckout, nextExec>>
tokens   == <<leases, beats, handles, checkouts, attachments>>
vars     == <<slot, counters, shuttingDown, tokens>>

\* No entry is in the way of r, whatever it is doing.
ConflictFree(r) == \A s \in Resource : Conflict(r, s) => ~Occupied(slot[s])

Represented(c) == \E r \in Resource : Owned(slot[r]) /\ slot[r].claim = c

\* runtime_lease_by_claim: the owned entry of a claim
LeaseOf(c) == {r \in Resource : Owned(slot[r]) /\ slot[r].claim = c}

\* create_proof_from_fresh_claim: only of a claim this process owns; the durable
\* revision may be any the caller has read.
FreshProofs(c, gen) ==
  IF c \in OwnClaim THEN [claim : {c}, gen : {gen}, rev : 0..MaxRevision] ELSE {}

Init ==
  /\ slot = [r \in Resource |-> Vacant]
  /\ nextGen = 0 /\ nextCheckout = 0 /\ nextExec = 0
  /\ shuttingDown = FALSE
  /\ leases = {} /\ beats = {} /\ handles = {} /\ checkouts = {} /\ attachments = {}

----------------------------------------------------------------------------
(***************************************************************************)
(* Operation slots: acquire, promote to a durable claim, release.          *)
(***************************************************************************)

\* Wrong: admission during shutdown.
AcquireInShutdown(r, kind) ==
  /\ nextGen < MaxGeneration
  /\ ConflictFree(r)
  /\ nextGen' = nextGen + 1
  /\ slot' = [slot EXCEPT ![r] = LocalPending(nextGen + 1, kind)]
  /\ leases' = leases \cup {[res |-> r, gen |-> nextGen + 1, claimed |-> FALSE]}
  /\ UNCHANGED <<nextCheckout, nextExec, shuttingDown, beats, handles, checkouts, attachments>>

Acquire(r, kind) ==
  /\ nextGen < MaxGeneration
  /\ ~shuttingDown
  /\ ConflictFree(r)
  /\ nextGen' = nextGen + 1
  /\ slot' = [slot EXCEPT ![r] = LocalPending(nextGen + 1, kind)]
  /\ leases' = leases \cup {[res |-> r, gen |-> nextGen + 1, claimed |-> FALSE]}
  /\ UNCHANGED <<nextCheckout, nextExec, shuttingDown, beats, handles, checkouts, attachments>>

\* The entry stays with the lease holder and, from now on, with its heartbeat
\* entry too.  A refused promotion changes nothing.
PromoteClaimed(l, c) ==
  /\ slot[l.res].gen = l.gen
  /\ slot[l.res].kind = "mutation"
  /\ slot[l.res].stage = "pending"
  /\ ResourceOf[c] = l.res
  /\ slot' = [slot EXCEPT ![l.res] = ClaimedEntry(@, c, shuttingDown)]
  /\ leases' = (leases \ {l}) \cup {[l EXCEPT !.claimed = TRUE]}
  /\ beats' = beats \cup {[claim |-> c, gen |-> l.gen]}
  /\ UNCHANGED <<counters, shuttingDown, handles, checkouts, attachments>>

\* Wrong: released by resource alone.
ReleasedAnyGeneration(res, gen) == [slot EXCEPT ![res] = Vacant]

Released(res, gen) ==
  IF Occupied(slot[res]) /\ slot[res].gen = gen
  THEN [slot EXCEPT ![res] = Vacant]
  ELSE slot

Release(l) ==
  /\ slot' = Released(l.res, l.gen)
  /\ leases' = leases \ {l}
  /\ UNCHANGED <<counters, shuttingDown, beats, handles, checkouts, attachments>>

\* A heartbeat entry that ended: its slot is looked up by operation.
ReleaseByOperation(b) ==
  /\ slot' = [r \in Resource |->
                IF slot[r].stage = "claimed" /\ slot[r].claim = b.claim /\ slot[r].gen = b.gen
                THEN Vacant ELSE slot[r]]
  /\ beats' = beats \ {b}
  /\ UNCHANGED <<counters, shuttingDown, leases, handles, checkouts, attachments>>

----------------------------------------------------------------------------
(***************************************************************************)
(* Runtime handles (non_completed_exit.rs).  `pc' is how far the holder    *)
(* has come; `seen' the claim revision it last took a snapshot of.         *)
(***************************************************************************)

Handle(r, gen, pc) == [res |-> r, gen |-> gen, pc |-> pc, seen |-> 0]

RegisterHandle(r, c) ==
  /\ nextGen < MaxGeneration
  /\ ~shuttingDown
  /\ ConflictFree(r)
  /\ ~Represented(c)
  /\ ResourceOf[c] = r /\ c \in OwnClaim
  /\ nextGen' = nextGen + 1
  /\ slot' = [slot EXCEPT ![r] = RuntimeOwned(nextGen + 1, c, HandleRuntime, "Live")]
  /\ handles' = handles \cup {Handle(r, nextGen + 1, "registered")}
  /\ UNCHANGED <<nextCheckout, nextExec, shuttingDown, leases, beats, checkouts, attachments>>

\* register_durable_sentinel; only a Retained sentinel is given a proof next.
RegisterSentinel(c, lc) ==
  /\ nextGen < MaxGeneration
  /\ ~shuttingDown
  /\ ConflictFree(ResourceOf[c])
  /\ ~Represented(c)
  /\ lc \in {"Retained", "RecoveryOwnershipCommittedButUnattached"} => c \in OwnClaim
  /\ nextGen' = nextGen + 1
  /\ slot' = [slot EXCEPT ![ResourceOf[c]] = RuntimeOwned(nextGen + 1, c, SentinelRuntime, lc)]
  /\ handles' = IF lc = "Retained"
                THEN handles \cup {Handle(ResourceOf[c], nextGen + 1, "sentinel")}
                ELSE handles
  /\ UNCHANGED <<nextCheckout, nextExec, shuttingDown, leases, beats, checkouts, attachments>>

\* What a handle sees: its entry, unless the slot has moved on to another.
Holds(h) ==
  /\ Owned(slot[h.res])
  /\ slot[h.res].gen = h.gen
  /\ slot[h.res].rt \in {SentinelRuntime, HandleRuntime}

Become(h, pc) == handles' = (handles \ {h}) \cup {[h EXCEPT !.pc = pc]}
Gone(h)       == handles' = handles \ {h}

Rest == UNCHANGED <<counters, shuttingDown, leases, beats, checkouts, attachments>>

\* The second lock section of a registration: the proof of a freshly read claim,
\* or the entry is released (a sentinel is quarantined) and no handle is made.
InstallProof(h) ==
  /\ h.pc \in {"registered", "sentinel"}
  /\ \/ /\ Holds(h)
        /\ \E proof \in FreshProofs(slot[h.res].claim, h.gen) :
             /\ InstallAllowed(slot[h.res], proof)
             /\ slot' = [slot EXCEPT ![h.res] = Sealed(@, proof)]
        /\ IF h.pc = "registered" THEN Become(h, "live") ELSE Gone(h)
     \/ /\ slot' = IF h.pc = "registered" THEN Released(h.res, h.gen)
                   ELSE IF Holds(h) /\ slot[h.res].lc = "Retained"
                        THEN [slot EXCEPT ![h.res] = Transitioned(@, "Quarantined")]
                        ELSE slot
        /\ Gone(h)
  /\ Rest

\* record_claim_heartbeat_foundation: the snapshot ...
TakeSnapshot(h) ==
  /\ h.pc = "live"
  /\ Holds(h) /\ slot[h.res].lc = "Live" /\ SnapshotAllowed(slot[h.res])
  /\ handles' = (handles \ {h}) \cup
                {[h EXCEPT !.pc = "beating", !.seen = slot[h.res].proof.rev]}
  /\ UNCHANGED slot /\ Rest

\* ... and, the claim row advanced meanwhile, the new proof or the quarantine.
FinishHeartbeat(h) ==
  /\ h.pc = "beating"
  /\ \/ /\ Holds(h)
        /\ \E proof \in FreshProofs(slot[h.res].claim, h.gen) :
             /\ ReplaceAllowed(slot[h.res], h.seen, proof)
             /\ slot' = [slot EXCEPT ![h.res] = Sealed(@, proof)]
        /\ Become(h, "live")
     \/ /\ slot' = IF Holds(h) THEN [slot EXCEPT ![h.res] = QuarantinedInvalid(@)] ELSE slot
        /\ Become(h, "live")
     \/ UNCHANGED slot /\ Become(h, "live")     \* known not committed
  /\ Rest

\* Drop of an open handle; a contended lock leaves the entry as it is.
DropHandle(h) ==
  /\ h.pc \in {"live", "exiting"}
  /\ \/ slot' = IF Holds(h) /\ slot[h.res].lc \in {"Live", "Exiting"}
                THEN [slot EXCEPT ![h.res] = DroppedUnclosed(@)] ELSE slot
     \/ UNCHANGED slot
  /\ Gone(h)
  /\ Rest

\* quarantine_after_unknown: a permit whose commit outcome is unknown.
QuarantineAfterUnknown(h) ==
  /\ h.pc = "live"
  /\ Holds(h) /\ slot[h.res].lc = "Live"
  /\ slot' = [slot EXCEPT ![h.res] = Transitioned(@, "Quarantined")]
  /\ UNCHANGED handles /\ Rest

\* close_non_completed: the entry leaves Live ...
CloseBegin(h) ==
  /\ h.pc = "live"
  /\ Holds(h) /\ slot[h.res].lc = "Live"
  /\ slot' = [slot EXCEPT ![h.res] = Transitioned(@, "Exiting")]
  /\ Become(h, "closing")
  /\ Rest

\* ... and its proof is read; without one the entry is quarantined and the handle
\* dropped.
CloseSnapshot(h) ==
  /\ h.pc = "closing"
  /\ IF Holds(h) /\ SnapshotAllowed(slot[h.res])
     THEN UNCHANGED slot /\ Become(h, "exiting")
     ELSE /\ slot' = IF Holds(h) THEN [slot EXCEPT ![h.res] = QuarantinedInvalid(@)] ELSE slot
          /\ Gone(h)
  /\ Rest

\* remove_terminal_runtime_handle locks twice: the check ...
CloseCheckTerminal(h) ==
  /\ h.pc = "exiting"
  /\ Holds(h) /\ slot[h.res].lc = "Exiting"
  /\ Become(h, "removing")
  /\ UNCHANGED slot /\ Rest

\* ... and the release, by lease and generation only.
CloseReleaseTerminal(h) ==
  /\ h.pc = "removing"
  /\ slot' = Released(h.res, h.gen)
  /\ Gone(h)
  /\ Rest

\* The other outcomes of the durable exit.
CloseAs(h, target) ==
  /\ h.pc = "exiting"
  /\ Holds(h) /\ slot[h.res].lc = "Exiting"
  /\ slot' = [slot EXCEPT ![h.res] = Transitioned(@, target)]
  /\ Gone(h)
  /\ Rest

----------------------------------------------------------------------------
(***************************************************************************)
(* Checkouts of the ownership supervisor and recovery ownership.           *)
(***************************************************************************)

Unheld == UNCHANGED <<nextGen, nextExec, shuttingDown, leases, beats, handles, attachments>>

\* A refused checkout only burns a checkout number.
Checkout(c, action) ==
  /\ nextCheckout < MaxCheckout
  /\ \E r \in LeaseOf(c) :
       /\ CheckoutAllowed(slot[r], action)
       /\ slot' = [slot EXCEPT ![r] = CheckedOut(@, action, nextCheckout + 1)]
       /\ checkouts' = checkouts \cup {CheckoutOf(r, slot[r], action, nextCheckout + 1)}
  /\ nextCheckout' = nextCheckout + 1
  /\ Unheld

RestoreCheckout(k) ==
  /\ slot' = IF CheckoutMatches(slot[k.res], k)
             THEN [slot EXCEPT ![k.res] = Restored(@, k)] ELSE slot
  /\ checkouts' = checkouts \ {k}
  /\ UNCHANGED nextCheckout /\ Unheld

\* The targets the supervisor asks for, by the action checked out.
TargetsOf(k) ==
  CASE k.action = "Renew"    -> {k.prev, "Quarantined"}
    [] k.action = "Classify" -> {"Closed", "OrphanedDurableClaim", "Retained", "Quarantined"}
                                \cup (IF k.qalr THEN {"Live"} ELSE {})
                                \cup (IF k.rt = SentinelRuntime THEN {"DroppedUnclosed"} ELSE {})
    [] k.action = "Inspect"  -> {"Closed", "Quarantined", "DroppedUnclosed",
                                 "OrphanedDurableClaim", "OwnershipExpiredCandidate",
                                 "AbandonedEligible"}
    [] k.action = "Takeover" -> {"RecoveryTakeoverQuarantined"}

CompleteCheckout(k, target) ==
  /\ target \in TargetsOf(k)
  /\ \E proof \in FreshProofs(k.claim, k.gen) \cup {NoProof} :
       /\ CompletionProofValid(k, target, proof)
       /\ slot' = IF ~CheckoutMatches(slot[k.res], k) THEN slot
                  ELSE IF target = "Closed" THEN [slot EXCEPT ![k.res] = Vacant]
                  ELSE [slot EXCEPT ![k.res] = Completed(@, target, proof)]
  /\ checkouts' = checkouts \ {k}
  /\ UNCHANGED nextCheckout /\ Unheld

\* complete_recovery_takeover_checkout: the successor claim is this process's.
CompleteTakeover(k, target, c) ==
  /\ k.action = "Takeover"
  /\ c \in OwnClaim /\ ResourceOf[c] = k.res
  /\ slot' = IF CheckoutMatches(slot[k.res], k)
             THEN [slot EXCEPT ![k.res] = TakenOver(@, target, c)] ELSE slot
  /\ checkouts' = checkouts \ {k}
  /\ UNCHANGED nextCheckout /\ Unheld

\* attach_committed_recovery_ownership and the two quarantines: by claim and
\* slot generation, which the recovery guard carries.
MoveRecovery(r, from, to) ==
  /\ Owned(slot[r]) /\ slot[r].lc = from
  /\ slot' = [slot EXCEPT ![r] = Moved(@, to)]
  /\ UNCHANGED <<counters, shuttingDown, tokens>>

AttachCommitted(r)     == MoveRecovery(r, "RecoveryOwnershipCommittedButUnattached", "RecoveryOwned")
QuarantineCommitted(r) == MoveRecovery(r, "RecoveryOwnershipCommittedButUnattached",
                                          "RecoveryTakeoverQuarantined")
QuarantineOwned(r)     == MoveRecovery(r, "RecoveryOwned", "RecoveryTakeoverQuarantined")

AttachExecution(r, c) ==
  /\ nextExec < MaxExecution
  /\ Owned(slot[r]) /\ slot[r].lc = "RecoveryOwned"
  /\ ResourceOf[c] = r
  /\ \E proof \in FreshProofs(c, slot[r].gen) :
       slot' = [slot EXCEPT ![r] = ExecutionAttached(@, c, ExecutionRuntime(nextExec + 1), proof)]
  /\ nextExec' = nextExec + 1
  /\ attachments' = attachments \cup
       {[res |-> r, gen |-> slot[r].gen, rt |-> ExecutionRuntime(nextExec + 1), claim |-> c]}
  /\ UNCHANGED <<nextGen, nextCheckout, shuttingDown, leases, beats, handles, checkouts>>

AttachmentMatches(a) ==
  /\ Owned(slot[a.res])
  /\ slot[a.res].gen = a.gen
  /\ slot[a.res].claim = a.claim
  /\ slot[a.res].rt = a.rt

\* transition_recovery_execution leaves the proof where it is.
MoveExecution(a, from, to) ==
  /\ AttachmentMatches(a) /\ slot[a.res].lc \in from
  /\ slot' = [slot EXCEPT ![a.res] = Moved(@, to)]
  /\ UNCHANGED <<counters, shuttingDown, tokens>>

CheckoutStep(a)        == MoveExecution(a, {"ExecutionOwned"}, "StepExecutionInFlight")
RestoreStep(a)         == MoveExecution(a, {"StepExecutionInFlight"}, "ExecutionOwned")
RetainExecution(a)     == MoveExecution(a, {"StepExecutionInFlight"}, "Retained")
QuarantineExecution(a) == MoveExecution(a, {"StepExecutionInFlight", "ExecutionOwned"}, "Quarantined")

ReplaceExecutionProof(a) ==
  /\ AttachmentMatches(a)
  /\ slot[a.res].lc \in {"ExecutionOwned", "StepExecutionInFlight"}
  /\ slot[a.res].proof # NoProof
  /\ \E proof \in FreshProofs(a.claim, a.gen) :
       slot' = [slot EXCEPT ![a.res] = Sealed(@, proof)]
  /\ UNCHANGED <<counters, shuttingDown, tokens>>

CloseExecution(a) ==
  /\ slot' = IF AttachmentMatches(a) /\ slot[a.res].lc = "StepExecutionInFlight"
             THEN [slot EXCEPT ![a.res] = Vacant] ELSE slot
  /\ attachments' = attachments \ {a}
  /\ UNCHANGED <<counters, shuttingDown, leases, beats, handles, checkouts>>

----------------------------------------------------------------------------

\* Wrong: every entry that is not claimed is treated as owned.
AtShutdownAnyStage(e) ==
  IF e.stage = "claimed" THEN [e EXCEPT !.abandoned = TRUE] ELSE DroppedUnclosed(e)

AtShutdown(e) ==
  CASE e.stage = "claimed" -> [e EXCEPT !.abandoned = TRUE]
    [] e.stage = "owned" /\ e.lc \in {"Live", "Exiting"} -> DroppedUnclosed(e)
    [] OTHER -> e

BeginShutdown ==
  /\ ~shuttingDown
  /\ shuttingDown' = TRUE
  /\ slot' = [r \in Resource |-> AtShutdown(slot[r])]
  /\ UNCHANGED <<counters, tokens>>

SlotNext ==
  \/ \E r \in Resource, kind \in {"mutation", "recovery-decision"} : Acquire(r, kind)
  \/ \E l \in leases : Release(l) \/ \E c \in Claim : PromoteClaimed(l, c)
  \/ \E b \in beats : ReleaseByOperation(b)

HandleNext ==
  \/ \E r \in Resource, c \in Claim : RegisterHandle(r, c)
  \/ \E c \in Claim, lc \in {"Retained", "Quarantined", "DroppedUnclosed",
                             "OrphanedDurableClaim",
                             "RecoveryOwnershipCommittedButUnattached"} : RegisterSentinel(c, lc)
  \/ \E h \in handles :
       \/ InstallProof(h) \/ TakeSnapshot(h) \/ FinishHeartbeat(h)
       \/ DropHandle(h) \/ QuarantineAfterUnknown(h)
       \/ CloseBegin(h) \/ CloseSnapshot(h) \/ CloseCheckTerminal(h) \/ CloseReleaseTerminal(h)
       \/ \E target \in {"Retained", "Quarantined", "DroppedUnclosed"} : CloseAs(h, target)

SupervisorNext ==
  \/ \E c \in Claim, action \in CheckoutAction : Checkout(c, action)
  \/ \E k \in checkouts :
       \/ RestoreCheckout(k)
       \/ \E target \in IdleLifecycle \cup {"Closed"} : CompleteCheckout(k, target)
       \/ \E c \in Claim, target \in {"RecoveryOwnershipCommittedButUnattached",
                                      "RecoveryTakeoverQuarantined"} : CompleteTakeover(k, target, c)

RecoveryNext ==
  \/ \E r \in Resource :
       \/ AttachCommitted(r) \/ QuarantineCommitted(r) \/ QuarantineOwned(r)
       \/ \E c \in Claim : AttachExecution(r, c)
  \/ \E a \in attachments :
       \/ CheckoutStep(a) \/ RestoreStep(a) \/ RetainExecution(a) \/ QuarantineExecution(a)
       \/ ReplaceExecutionProof(a) \/ CloseExecution(a)

Next == SlotNext \/ HandleNext \/ SupervisorNext \/ RecoveryNext \/ BeginShutdown

Spec == Init /\ [][Next]_vars

----------------------------------------------------------------------------
(***************************************************************************)
(* Properties                                                              *)
(***************************************************************************)

Lease == [res : Resource, gen : 1..MaxGeneration, claimed : BOOLEAN]

HandleToken == [res : Resource, gen : 1..MaxGeneration, seen : Nat,
                pc : {"registered", "sentinel", "live", "beating", "closing",
                      "exiting", "removing"}]

CheckoutToken == [res : Resource, gen : 1..MaxGeneration, ck : 1..MaxCheckout,
                  claim : Claim, rt : Nat, prev : IdleLifecycle,
                  action : CheckoutAction, proof : Proof \cup {NoProof}, qalr : BOOLEAN]

Attachment == [res : Resource, gen : 1..MaxGeneration, rt : Nat, claim : Claim]

\* Every entry and every token has the shape its Rust type gives it.
TypeOK ==
  /\ slot \in [Resource -> Entry]
  /\ \A r \in Resource : StageShape(slot[r])
  /\ nextGen \in 0..MaxGeneration
  /\ nextCheckout \in 0..MaxCheckout
  /\ nextExec \in 0..MaxExecution
  /\ shuttingDown \in BOOLEAN
  /\ leases \subseteq Lease
  /\ beats \subseteq [claim : Claim, gen : 1..MaxGeneration]
  /\ handles \subseteq HandleToken
  /\ checkouts \subseteq CheckoutToken
  /\ attachments \subseteq Attachment

\* Two conflicting resources are never held at the same time: of one literature
\* item either the aggregate or its channels are (literature_gate.rs:40-55),
\* whichever way the entry came in (acquire, registration or sentinel).
GateExclusion ==
  \A r, s \in Resource :
    r # s /\ Conflict(r, s) => ~(Occupied(slot[r]) /\ Occupied(slot[s]))

\* A proof in the registry is the one of the entry it is in: sealed to its claim
\* and generation, and of a claim this process owns (slot.rs:469-597,1190-1434).
ProofSealed ==
  \A r \in Resource :
    slot[r].proof # NoProof =>
      /\ Owned(slot[r])
      /\ slot[r].proof.claim = slot[r].claim
      /\ slot[r].proof.gen = slot[r].gen
      /\ slot[r].claim \in OwnClaim

\* While an entry is in flight its proof is physically out of the slot and there
\* is exactly one checkout that can put it back, so an entry is neither stuck in
\* flight nor completed twice (slot.rs:140-142, the note on checkouts).
CheckoutCustody ==
  \A r \in Resource :
    slot[r].lc \in InFlightLifecycle =>
      /\ slot[r].proof = NoProof
      /\ \E k \in checkouts : k.res = r /\ CheckoutMatches(slot[r], k)
      /\ \A k, m \in checkouts :
           k.res = r /\ m.res = r /\ CheckoutMatches(slot[r], k) /\ CheckoutMatches(slot[r], m)
             => k = m

\* An operation that was given its slot before or during shutdown is abandoned,
\* never left claimed as if it would still be completed (slot.rs:1685-1713,
\* 1777-1828).
ShutdownAbandonsClaimed ==
  shuttingDown => \A r \in Resource : slot[r].stage = "claimed" => slot[r].abandoned

\* An entry leaves its slot only by an action of somebody who holds a token of
\* its own generation: a stale token frees nothing (slot.rs:1715-1775,1190-1247,
\* 1481-1513).
FreedByItsHolder ==
  [][\A r \in Resource :
       Occupied(slot[r]) /\ slot'[r].gen # slot[r].gen =>
         \/ \E l \in leases \ leases' : l.res = r /\ l.gen = slot[r].gen
         \/ \E b \in beats \ beats' : b.claim = slot[r].claim /\ b.gen = slot[r].gen
         \/ \E h \in handles \ handles' : h.res = r /\ h.gen = slot[r].gen
         \/ \E k \in checkouts \ checkouts' : k.res = r /\ k.gen = slot[r].gen
         \/ \E a \in attachments \ attachments' : a.res = r /\ a.gen = slot[r].gen]_vars

\* The coordinator implements the gate: whatever else its entries go through, a
\* resource changes hands only by being freed first, a new holder finds nothing
\* conflicting and is a new generation, and after shutdown nothing is taken any
\* more (slot.rs:336-392,933-984,1643-1775).
Gate ==
  INSTANCE ResourceGate WITH
    holder <- [r \in Resource |-> IF Occupied(slot[r]) THEN slot[r].gen ELSE 0],
    last   <- nextGen,
    closed <- shuttingDown

ImplementsGate == Gate!GateSpec
=============================================================================
