------------------------- MODULE OwnershipSupervisor -------------------------
(***************************************************************************)
(* Ownership of the durable claim on one resource, across processes:       *)
(* provisioning_runtime/ownership_supervisor.rs with the runtime handle of *)
(* non_completed_exit.rs and the claim transactions of                     *)
(* db/manuscript_provisioning_operation_state.                             *)
(*                                                                         *)
(* The database is shared; everything else belongs to a process and is     *)
(* lost when it crashes.  A process generation never comes back: the next  *)
(* start is another member of Process.  In a process, one runtime handle   *)
(* and several supervisor threads (tick and acquire_recovery_ownership)    *)
(* work on the slot's entry at the same time.  A thread's job is cut       *)
(* wherever the code leaves a lock or a transaction: between any two steps *)
(* of one thread every other actor may move.                               *)
(*                                                                         *)
(* Clocks.  The repository UTC clock may be set at any time, in both       *)
(* directions, so the comparison of a sample with a claim's lease may come *)
(* out either way: nothing below relies on it.  The monotonic clock is one *)
(* variable: its readings are only ever subtracted in one process.         *)
(*                                                                         *)
(* Kept abstract: the revision of a claim determines its heartbeat time;   *)
(* an abandonment fingerprint is the claim row and the attempt's status.   *)
(* Left out: the throttle last_renew_attempt_at (a renewal may be tried at *)
(* any time), plans, steps and projections, and what follows recovery      *)
(* ownership (SlotRegistry).                                               *)
(***************************************************************************)
EXTENDS SlotEntry, FiniteSets

CONSTANTS
  Process,            \* process generations
  Initiator,          \* those that start operations of their own
  Thread, ProcOf,     \* supervisor threads and their processes
  Absent,             \* no row, no record, no evidence
  CONFIRM,            \* ABANDONMENT_CONFIRMATION_INTERVAL_MS, scaled
  MAX_RENEW_FAILURES, \* MAX_CONSECUTIVE_RENEW_FAILURES
  MaxMono, MaxGeneration, MaxCheckout, MaxRevision   \* bounds

ASSUME SupervisorAssumption ==
  /\ Claim \subseteq Nat
  /\ ProcOf \in [Thread -> Process]
  /\ Initiator \subseteq Process
  /\ {CONFIRM, MAX_RENEW_FAILURES} \subseteq Nat
  /\ {MaxMono, MaxGeneration, MaxCheckout, MaxRevision} \subseteq Nat

VARIABLES
  row,          \* the active-claims row of the resource, or Absent
  attempt,      \* the operation attempt of each claim
  beatAt,       \* history: the monotonic time the row last changed hands or beat
  mono,
  up, shutting,                \* of each process
  slot, nextGen, nextCheckout, \* its entry for the resource and its counters
  handle,                      \* its runtime handle
  cands, elig, failures,       \* SupervisorState, by claim
  guards,                      \* recovery_guards
  task                         \* what each thread is doing

durable    == <<row, attempt, beatAt>>
registry   == <<slot, nextGen, nextCheckout>>
supervisor == <<cands, elig, failures, guards>>
vars == <<durable, mono, up, shutting, registry, handle, supervisor, task>>

\* operation_status with the phase where it matters: `partial' is retained for
\* recovery like `retained', in another phase.
Status == {"none", "active", "retained", "partial", "terminal"}

NoCheckout == CheckoutOf("none", Vacant, "none", 0)

NoHandle == [pc |-> "none", claim |-> NoClaim, gen |-> 0, seen |-> 0]

Idle == [pc |-> "idle", job |-> "none", claim |-> NoClaim, k |-> NoCheckout,
         row |-> Absent, status |-> "none", held |-> Absent, new |-> NoClaim]

Init ==
  /\ row = Absent
  /\ attempt = [c \in Claim |-> "none"]
  /\ beatAt = 0 /\ mono = 0
  /\ up = [p \in Process |-> "unborn"]
  /\ shutting = [p \in Process |-> FALSE]
  /\ slot = [p \in Process |-> Vacant]
  /\ nextGen = [p \in Process |-> 0]
  /\ nextCheckout = [p \in Process |-> 0]
  /\ handle = [p \in Process |-> NoHandle]
  /\ cands = [p \in Process |-> [c \in Claim |-> Absent]]
  /\ elig = [p \in Process |-> [c \in Claim |-> Absent]]
  /\ failures = [p \in Process |-> [c \in Claim |-> 0]]
  /\ guards = [p \in Process |-> {}]
  /\ task = [t \in Thread |-> Idle]

----------------------------------------------------------------------------
(***************************************************************************)
(* The database.  Each of these is one IMMEDIATE transaction.              *)
(***************************************************************************)

RowOf(c) == IF row # Absent /\ row.claim = c THEN row ELSE Absent

\* A fresh claim identity.
Fresh(c) == attempt[c] = "none" /\ \A d \in Claim : attempt[d] = "none" => c <= d

\* Wrong: the successor is written with the predecessor's owner token.
InsertClaimForHolder(c, p) ==
  /\ Fresh(c)
  /\ row' = [claim |-> c, owner |-> IF row = Absent THEN p ELSE row.owner, rev |-> 0]
  /\ beatAt' = mono

\* Atomic initialization: attempt and claim, if the resource has no claim.
InsertClaim(c, p) ==
  /\ Fresh(c)
  /\ row' = [claim |-> c, owner |-> p, rev |-> 0]
  /\ beatAt' = mono

\* claim_cas_matches: the proof still is that of the row.
CasMatches(c, rev) == row # Absent /\ row.claim = c /\ row.rev = rev

\* The heartbeat transaction's update.
Beat ==
  /\ row.rev < MaxRevision
  /\ row' = [row EXCEPT !.rev = @ + 1]
  /\ beatAt' = mono
  /\ UNCHANGED attempt

----------------------------------------------------------------------------
(***************************************************************************)
(* Processes and clocks.                                                   *)
(***************************************************************************)

Start(p) ==
  /\ up[p] = "unborn"
  /\ up' = [up EXCEPT ![p] = "up"]
  /\ UNCHANGED <<durable, mono, shutting, registry, handle, supervisor, task>>

Crash(p) ==
  /\ up[p] = "up"
  /\ up' = [up EXCEPT ![p] = "dead"]
  /\ slot' = [slot EXCEPT ![p] = Vacant]
  /\ handle' = [handle EXCEPT ![p] = NoHandle]
  /\ cands' = [cands EXCEPT ![p] = [c \in Claim |-> Absent]]
  /\ elig' = [elig EXCEPT ![p] = [c \in Claim |-> Absent]]
  /\ failures' = [failures EXCEPT ![p] = [c \in Claim |-> 0]]
  /\ guards' = [guards EXCEPT ![p] = {}]
  /\ task' = [t \in Thread |-> IF ProcOf[t] = p THEN Idle ELSE task[t]]
  /\ shutting' = [shutting EXCEPT ![p] = FALSE]
  /\ nextGen' = [nextGen EXCEPT ![p] = 0]
  /\ nextCheckout' = [nextCheckout EXCEPT ![p] = 0]
  /\ UNCHANGED <<durable, mono>>

\* begin_shutdown on a RuntimeOwned entry.
BeginShutdown(p) ==
  /\ up[p] = "up" /\ ~shutting[p]
  /\ shutting' = [shutting EXCEPT ![p] = TRUE]
  /\ slot' = IF slot[p].lc \in {"Live", "Exiting"}
             THEN [slot EXCEPT ![p] = DroppedUnclosed(@)] ELSE slot
  /\ UNCHANGED <<durable, mono, up, nextGen, nextCheckout, handle, supervisor, task>>

MonoTick ==
  /\ mono < MaxMono
  /\ mono' = mono + 1
  /\ UNCHANGED <<durable, up, shutting, registry, handle, supervisor, task>>

----------------------------------------------------------------------------
(***************************************************************************)
(* The runtime handle: initialization, registration, heartbeat, close.     *)
(***************************************************************************)

Holds(p) ==
  /\ slot[p].gen = handle[p].gen
  /\ Owned(slot[p]) /\ slot[p].rt = HandleRuntime

Become(p, pc) == handle' = [handle EXCEPT ![p].pc = pc]
Gone(p)       == handle' = [handle EXCEPT ![p] = NoHandle]

Put(p, e) == slot' = [slot EXCEPT ![p] = e]

HandleRest(p) ==
  /\ up[p] = "up"
  /\ UNCHANGED <<mono, up, shutting, nextCheckout, supervisor, task>>

OffDatabase == UNCHANGED <<durable, nextGen>>

\* Quarantined and the proof invalidated, if the entry still is the handle's.
Invalidated(p) == IF Holds(p) THEN Put(p, QuarantinedInvalid(slot[p])) ELSE UNCHANGED slot

\* transition_runtime_handle: no effect unless the entry is in `from'.
Moves(p, from, to) ==
  IF Holds(p) /\ slot[p].lc = from THEN Put(p, Transitioned(slot[p], to)) ELSE UNCHANGED slot

\* The durable half of a start; the caller then registers a handle for it.
Initialize(p) ==
  /\ p \in Initiator
  /\ handle[p].pc = "none" /\ row = Absent
  /\ \E c \in Claim :
       /\ InsertClaim(c, p)
       /\ attempt' = [attempt EXCEPT ![c] = "active"]
       /\ handle' = [handle EXCEPT ![p] = [NoHandle EXCEPT !.pc = "initialized", !.claim = c]]
  /\ UNCHANGED <<slot, nextGen>>
  /\ HandleRest(p)

\* register_initialized_runtime_handle, its first lock section.
Register(p) ==
  /\ handle[p].pc = "initialized"
  /\ nextGen[p] < MaxGeneration
  /\ IF /\ RowOf(handle[p].claim) # Absent /\ attempt[handle[p].claim] = "active"
        /\ ~Occupied(slot[p]) /\ ~shutting[p]
     THEN /\ nextGen' = [nextGen EXCEPT ![p] = @ + 1]
          /\ Put(p, RuntimeOwned(nextGen[p] + 1, handle[p].claim, HandleRuntime, "Live"))
          /\ handle' = [handle EXCEPT ![p].pc = "registered", ![p].gen = nextGen[p] + 1]
     ELSE UNCHANGED <<slot, nextGen>> /\ Gone(p)
  /\ UNCHANGED durable
  /\ HandleRest(p)

\* The fresh claim is read, or not, and its proof installed, or the slot given back.
Install(p) ==
  /\ handle[p].pc = "registered"
  /\ \/ LET proof == [claim |-> handle[p].claim, gen |-> handle[p].gen, rev |-> row.rev]
        IN /\ RowOf(handle[p].claim) # Absent
           /\ Holds(p) /\ InstallAllowed(slot[p], proof)
           /\ Put(p, Sealed(slot[p], proof))
           /\ Become(p, "live")
     \/ /\ IF slot[p].gen = handle[p].gen THEN Put(p, Vacant) ELSE UNCHANGED slot
        /\ Gone(p)
  /\ OffDatabase
  /\ HandleRest(p)

\* record_claim_heartbeat_foundation, up to its transaction.
HeartbeatBegin(p) ==
  /\ handle[p].pc = "live"
  /\ Holds(p) /\ slot[p].lc = "Live" /\ SnapshotAllowed(slot[p])
  /\ handle' = [handle EXCEPT ![p].pc = "beating", ![p].seen = slot[p].proof.rev]
  /\ UNCHANGED slot /\ OffDatabase
  /\ HandleRest(p)

\* Its transaction.
HeartbeatCommit(p) ==
  /\ handle[p].pc = "beating"
  /\ \/ /\ CasMatches(handle[p].claim, handle[p].seen) /\ attempt[handle[p].claim] = "active"
        /\ Beat
        /\ \/ UNCHANGED slot /\ Become(p, "committed")
           \/ Invalidated(p) /\ Become(p, "unsure")       \* outcome unknown, committed
     \/ /\ Invalidated(p) /\ Become(p, "unsure")          \* outcome unknown, not committed
        /\ UNCHANGED durable
     \/ /\ UNCHANGED slot /\ Become(p, "live")            \* clock, busy, no connection
        /\ UNCHANGED durable
     \/ /\ ~(CasMatches(handle[p].claim, handle[p].seen) /\ attempt[handle[p].claim] = "active")
        /\ Invalidated(p) /\ Become(p, "live")            \* CAS conflict
        /\ UNCHANGED durable
  /\ UNCHANGED nextGen
  /\ HandleRest(p)

\* The claim is read back and the proof replaced.
HeartbeatFinish(p) ==
  /\ handle[p].pc = "committed"
  /\ \/ Invalidated(p) /\ Become(p, "live")               \* the read failed
     \/ LET proof == [claim |-> handle[p].claim, gen |-> handle[p].gen, rev |-> row.rev]
        IN /\ RowOf(handle[p].claim) # Absent
           /\ IF Holds(p) /\ ReplaceAllowed(slot[p], handle[p].seen, proof)
              THEN Put(p, Sealed(slot[p], proof)) /\ Become(p, "live")
              ELSE Invalidated(p) /\ Become(p, "unsure")
  /\ OffDatabase
  /\ HandleRest(p)

\* An execution permit whose commit outcome is unknown.
QuarantineAfterUnknown(p) ==
  /\ handle[p].pc = "live"
  /\ Holds(p) /\ slot[p].lc = "Live"
  /\ Moves(p, "Live", "Quarantined") /\ Become(p, "unsure")
  /\ OffDatabase
  /\ HandleRest(p)

\* Drop of an open handle, after a refused or interrupted close too; a contended
\* lock leaves the entry as it is.  A close of an unsure handle stops before its
\* transaction and leaves what the drop leaves.
Drop(p) ==
  /\ handle[p].pc \in {"live", "unsure", "exiting", "settleTerminal", "settleRetained"}
  /\ \/ IF Holds(p) /\ slot[p].lc \in {"Live", "Exiting"}
        THEN Put(p, DroppedUnclosed(slot[p])) ELSE UNCHANGED slot
     \/ UNCHANGED slot
  /\ Gone(p)
  /\ OffDatabase
  /\ HandleRest(p)

CloseBegin(p) ==
  /\ handle[p].pc = "live"
  /\ Holds(p) /\ slot[p].lc = "Live"
  /\ Moves(p, "Live", "Exiting") /\ Become(p, "closing")
  /\ OffDatabase
  /\ HandleRest(p)

CloseSnapshot(p) ==
  /\ handle[p].pc = "closing"
  /\ IF Holds(p) /\ SnapshotAllowed(slot[p])
     THEN /\ UNCHANGED slot
          /\ handle' = [handle EXCEPT ![p].pc = "exiting", ![p].seen = slot[p].proof.rev]
     ELSE Invalidated(p) /\ Gone(p)
  /\ OffDatabase
  /\ HandleRest(p)

\* What the exit transaction writes: a safe terminal outcome releases the claim,
\* the others retain it for recovery.
ExitWrites(c, outcome) ==
  /\ attempt' = [attempt EXCEPT ![c] = outcome]
  /\ row' = IF outcome = "terminal" THEN Absent ELSE row
  /\ UNCHANGED beatAt

\* Wrong: the exit transaction trusts its snapshot.
ExitAllowedUnchecked(p) == Holds(p) /\ slot[p].lc = "Exiting" /\ row # Absent

\* The exit transaction finds the attempt and the claim of its snapshot.
ExitAllowed(p) ==
  /\ Holds(p) /\ slot[p].lc = "Exiting"
  /\ attempt[handle[p].claim] = "active"
  /\ CasMatches(handle[p].claim, handle[p].seen)

\* An operation of the mainline commands has no handle: its finish writes the
\* outcome and leaves the registry alone.
FinishWithoutHandle(p) ==
  /\ handle[p].pc = "initialized"
  /\ RowOf(handle[p].claim) # Absent /\ attempt[handle[p].claim] = "active"
  /\ \E outcome \in {"terminal", "retained", "partial"} : ExitWrites(handle[p].claim, outcome)
  /\ Gone(p)
  /\ UNCHANGED <<slot, nextGen>>
  /\ HandleRest(p)

\* close_runtime_handle_non_completed_atomically.
CloseCommit(p) ==
  /\ handle[p].pc = "exiting"
  /\ \/ \E outcome \in {"terminal", "retained", "partial"} :
          /\ ExitAllowed(p)
          /\ ExitWrites(handle[p].claim, outcome)
          /\ \/ /\ Become(p, IF outcome = "terminal" THEN "settleTerminal" ELSE "settleRetained")
                /\ UNCHANGED slot
             \/ Moves(p, "Exiting", "Quarantined") /\ Gone(p)   \* unknown, committed
     \/ /\ ExitAllowed(p)
        /\ Moves(p, "Exiting", "Quarantined") /\ Gone(p)        \* unknown, not committed
        /\ UNCHANGED durable
     \/ /\ Holds(p) /\ slot[p].lc = "Exiting"                   \* an exit is there already
        /\ attempt[handle[p].claim] # "active"
        /\ \/ CasMatches(handle[p].claim, handle[p].seen) /\ Become(p, "settleRetained")
           \/ RowOf(handle[p].claim) = Absent /\ Become(p, "settleTerminal")
        /\ UNCHANGED <<slot, durable>>
     \/ /\ Moves(p, "Exiting", "DroppedUnclosed") /\ Gone(p)    \* refused or failed
        /\ UNCHANGED durable
  /\ UNCHANGED nextGen
  /\ HandleRest(p)

CloseSettle(p) ==
  /\ handle[p].pc \in {"settleTerminal", "settleRetained"}
  /\ Holds(p) /\ slot[p].lc = "Exiting"
  /\ IF handle[p].pc = "settleTerminal"
     THEN Put(p, Vacant) ELSE Moves(p, "Exiting", "Retained")
  /\ Gone(p)
  /\ OffDatabase
  /\ HandleRest(p)

----------------------------------------------------------------------------
(***************************************************************************)
(* Supervisor threads.  A job that works on an entry holds the checkout k  *)
(* of it; `row' and `status' are what the job has read of the database.    *)
(***************************************************************************)

Own(t) == ProcOf[t]

ThreadRest(t) ==
  /\ up[Own(t)] = "up"
  /\ UNCHANGED <<mono, up, shutting, handle>>

Do(t, fields) == task' = [task EXCEPT ![t] = fields]
Done(t)       == Do(t, Idle)

Matches(t) == CheckoutMatches(slot[Own(t)], task[t].k)

\* complete_claim_ownership_checkout, restore_claim_ownership_checkout
Complete(t, target, proof) ==
  slot' = IF ~Matches(t) THEN slot
          ELSE [slot EXCEPT ![Own(t)] = IF target = "Closed" THEN Vacant
                                        ELSE Completed(@, target, proof)]

Restore(t) == slot' = IF Matches(t) THEN [slot EXCEPT ![Own(t)] = Restored(@, task[t].k)] ELSE slot

ProofFrom(t, rev) == [claim |-> task[t].k.claim, gen |-> task[t].k.gen, rev |-> rev]

\* clear_process_local_claim_state
Cleared(p, c) ==
  /\ cands' = [cands EXCEPT ![p][c] = Absent]
  /\ elig' = [elig EXCEPT ![p][c] = Absent]
  /\ failures' = [failures EXCEPT ![p][c] = 0]
  /\ UNCHANGED guards

\* complete_quarantined: the local state goes even if the checkout was stale.
CompleteQuarantined(t) ==
  /\ Complete(t, "Quarantined", NoProof)
  /\ Cleared(Own(t), task[t].claim)
  /\ Done(t)

RestoreOnly(t) == Restore(t) /\ Done(t) /\ UNCHANGED supervisor

\* checkout_claim_ownership, allowed
TakesOut(t, action) ==
  LET p == Own(t) IN
  /\ nextCheckout[p] < MaxCheckout
  /\ nextCheckout' = [nextCheckout EXCEPT ![p] = @ + 1]
  /\ Put(p, CheckedOut(slot[p], action, nextCheckout[p] + 1))
  /\ UNCHANGED nextGen

\* The checkout that starts a job of a tick.
StartJob(t, action) ==
  /\ task[t] = Idle
  /\ CheckoutAllowed(slot[Own(t)], action)
  /\ TakesOut(t, action)
  /\ Do(t, [Idle EXCEPT !.job = action, !.pc = IF action = "Renew" THEN "renew" ELSE "look",
                        !.claim = slot[Own(t)].claim,
                        !.k = CheckoutOf("none", slot[Own(t)], action, nextCheckout[Own(t)] + 1)])
  /\ UNCHANGED <<durable, supervisor>>
  /\ ThreadRest(t)

\* A claim the registry did not represent when the tick began.
Discover(t) ==
  /\ task[t] = Idle
  /\ row # Absent /\ slot[Own(t)].claim # row.claim
  /\ Do(t, [Idle EXCEPT !.job = "Discover", !.pc = "look", !.claim = row.claim, !.row = row])
  /\ UNCHANGED <<durable, registry, supervisor>>
  /\ ThreadRest(t)

\* inspect_durable_claim reads the claim, the attempt and the outbox one after
\* the other, outside a transaction.
LookAtClaim(t) ==
  /\ task[t].pc = "look"
  /\ Do(t, [task[t] EXCEPT !.pc = "looked", !.row = RowOf(task[t].claim)])
  /\ UNCHANGED <<durable, registry, supervisor>>
  /\ ThreadRest(t)

LookAtAttempt(t) ==
  /\ task[t].pc = "looked"
  /\ Do(t, [task[t] EXCEPT !.pc = "decide", !.status = attempt[task[t].claim]])
  /\ UNCHANGED <<durable, registry, supervisor>>
  /\ ThreadRest(t)

\* The read failed: a checkout is restored; a discovery goes on with the claim it
\* was listed with and no attempt.
LookFails(t) ==
  /\ task[t].pc = "look"
  /\ IF task[t].job = "Discover"
     THEN /\ Do(t, [task[t] EXCEPT !.pc = "decide"])
          /\ UNCHANGED <<slot, supervisor>>
     ELSE RestoreOnly(t)
  /\ UNCHANGED <<durable, nextGen, nextCheckout>>
  /\ ThreadRest(t)

\* An audit outbox entry is written with every exit.
HasOutbox(t) == attempt[task[t].claim] # "active"

SeesActive(t)   == task[t].row # Absent /\ task[t].status = "active" /\ ~HasOutbox(t)
SeesRetained(t) == task[t].row # Absent /\ task[t].status = "retained" /\ HasOutbox(t)
SeesTerminal(t) == task[t].row = Absent /\ task[t].status = "terminal" /\ HasOutbox(t)
SeesOwn(t)      == task[t].row # Absent /\ task[t].row.owner = Own(t)

DiscoveredAs(t) ==
  CASE SeesRetained(t) /\ SeesOwn(t) -> "Retained"
    [] SeesActive(t) /\ SeesOwn(t)   -> "DroppedUnclosed"
    [] (SeesRetained(t) \/ SeesActive(t)) /\ ~SeesOwn(t) -> "OrphanedDurableClaim"
    [] OTHER -> "Quarantined"

\* register_discovered, up to the proof of a retained claim.
RegisterDiscovered(t) ==
  LET p == Own(t) IN
  /\ task[t].job = "Discover" /\ task[t].pc = "decide"
  /\ nextGen[p] < MaxGeneration
  /\ IF task[t].row # Absent /\ ~Occupied(slot[p]) /\ ~shutting[p]
     THEN /\ nextGen' = [nextGen EXCEPT ![p] = @ + 1]
          /\ Put(p, RuntimeOwned(nextGen[p] + 1, task[t].claim, SentinelRuntime, DiscoveredAs(t)))
          /\ IF DiscoveredAs(t) = "Retained"
             THEN Do(t, [task[t] EXCEPT !.pc = "install", !.k.gen = nextGen[p] + 1])
             ELSE Done(t)
     ELSE UNCHANGED <<slot, nextGen>> /\ Done(t)
  /\ UNCHANGED <<durable, nextCheckout, supervisor>>
  /\ ThreadRest(t)

InstallDiscovered(t) ==
  LET p == Own(t)
      proof == [claim |-> task[t].claim, gen |-> task[t].k.gen, rev |-> task[t].row.rev]
      mine == Owned(slot[p]) /\ slot[p].gen = task[t].k.gen /\ slot[p].rt = SentinelRuntime
  IN
  /\ task[t].pc = "install"
  /\ slot' = [slot EXCEPT ![p] =
                IF mine /\ InstallAllowed(@, proof) THEN Sealed(@, proof)
                ELSE IF mine /\ @.lc = "Retained" THEN Transitioned(@, "Quarantined") ELSE @]
  /\ Done(t)
  /\ UNCHANGED <<durable, nextGen, nextCheckout, supervisor>>
  /\ ThreadRest(t)

----------------------------------------------------------------------------
\* maybe_renew after the checkout: the heartbeat transaction ...
RenewCommit(t) ==
  LET p == Own(t)
      c == task[t].claim
      renewable == /\ CasMatches(c, task[t].k.proof.rev)
                   /\ IF task[t].k.prev = "Retained" THEN attempt[c] \in {"retained", "partial"}
                      ELSE attempt[c] = "active"
      quarantine == Complete(t, "Quarantined", NoProof) /\ UNCHANGED supervisor /\ Done(t)
      failed == IF failures[p][c] > MAX_RENEW_FAILURES THEN failures[p][c] ELSE failures[p][c] + 1
  IN
  /\ task[t].pc = "renew"
  /\ \/ /\ renewable /\ Beat
        /\ \/ Do(t, [task[t] EXCEPT !.pc = "renewed"]) /\ UNCHANGED <<slot, supervisor>>
           \/ quarantine                              \* outcome unknown, committed
     \/ UNCHANGED durable /\ quarantine              \* unknown, CAS, clock, unavailable
     \/ /\ failures' = [failures EXCEPT ![p][c] = failed]        \* known not committed
        /\ IF failed <= MAX_RENEW_FAILURES THEN Restore(t) ELSE Complete(t, "Quarantined", NoProof)
        /\ Done(t)
        /\ UNCHANGED <<durable, cands, elig, guards>>
  /\ UNCHANGED <<nextGen, nextCheckout>>
  /\ ThreadRest(t)

\* Wrong: a renewal that cannot be read back is forgotten.
RenewFinishForgets(t) ==
  /\ task[t].pc = "renewed"
  /\ Done(t)
  /\ UNCHANGED <<durable, registry, supervisor>>
  /\ ThreadRest(t)

\* ... and the read back of the claim, with the new proof or without one.
RenewFinish(t) ==
  LET p == Own(t)
      c == task[t].claim
  IN
  /\ task[t].pc = "renewed"
  /\ \/ CompleteQuarantined(t)
     \/ /\ RowOf(c) # Absent
        /\ Complete(t, task[t].k.prev, ProofFrom(t, row.rev))
        /\ IF Matches(t) THEN /\ failures' = [failures EXCEPT ![p][c] = 0]
                               /\ cands' = [cands EXCEPT ![p][c] = Absent]
                          ELSE UNCHANGED <<failures, cands>>
        /\ UNCHANGED <<elig, guards>>
        /\ Done(t)
  /\ UNCHANGED <<durable, nextGen, nextCheckout>>
  /\ ThreadRest(t)

----------------------------------------------------------------------------
\* classify_quarantined once the observation is complete.  A proof can be made of
\* any row the program wrote, whose heartbeat is a number and whose owner was compared.
Classify(t) ==
  LET c == task[t].claim
      complete(target, proof) == Complete(t, target, proof) /\ Done(t)
  IN
  /\ task[t].job = "Classify" /\ task[t].pc = "decide"
  /\ CASE SeesTerminal(t) ->
            /\ complete("Closed", NoProof)
            /\ IF Matches(t) THEN Cleared(Own(t), c) ELSE UNCHANGED supervisor
       [] (SeesRetained(t) \/ SeesActive(t)) /\ ~SeesOwn(t) ->
            complete("OrphanedDurableClaim", NoProof) /\ UNCHANGED supervisor
       [] SeesRetained(t) /\ SeesOwn(t) ->
            complete("Retained", ProofFrom(t, task[t].row.rev)) /\ UNCHANGED supervisor
       [] SeesActive(t) /\ SeesOwn(t) /\ task[t].k.qalr ->
            complete("Live", ProofFrom(t, task[t].row.rev)) /\ UNCHANGED supervisor
       [] SeesActive(t) /\ SeesOwn(t) /\ ~task[t].k.qalr /\ task[t].k.rt = SentinelRuntime ->
            complete("DroppedUnclosed", NoProof) /\ UNCHANGED supervisor
       [] OTHER -> CompleteQuarantined(t)
  /\ UNCHANGED <<durable, nextGen, nextCheckout>>
  /\ ThreadRest(t)

\* create_candidate: the record is put beside the registry afterwards.
Candidate(t) ==
  [rev |-> task[t].row.rev, status |-> task[t].status, start |-> mono,
   gen |-> task[t].k.gen, ck |-> task[t].k.ck, origin |-> task[t].k.prev]

CreateCandidate(t) ==
  /\ Complete(t, "OwnershipExpiredCandidate", NoProof)
  /\ IF Matches(t) THEN Do(t, [task[t] EXCEPT !.pc = "recordCandidate", !.held = Candidate(t)])
     ELSE Done(t)
  /\ UNCHANGED supervisor

\* fingerprint_matches and identity_matches
Unchanged(t, cand) ==
  /\ cand.rev = task[t].row.rev /\ cand.status = task[t].status
  /\ cand.gen = task[t].k.gen /\ task[t].k.ck > cand.ck

Confirmed(cand) == mono - cand.start >= CONFIRM

\* confirm_candidate
ConfirmCandidate(t) ==
  LET p == Own(t)
      c == task[t].claim
      cand == cands[p][c]
      taken == cands' = [cands EXCEPT ![p][c] = Absent] /\ UNCHANGED <<elig, failures, guards>>
  IN
  CASE cand = Absent -> CompleteQuarantined(t)
    [] cand # Absent /\ ~Confirmed(cand) -> RestoreOnly(t)
    [] cand # Absent /\ Confirmed(cand) /\ ~Unchanged(t, cand) ->
         taken /\ Complete(t, cand.origin, NoProof) /\ Done(t)
    [] cand # Absent /\ Confirmed(cand) /\ Unchanged(t, cand) ->
         /\ taken
         /\ Complete(t, "AbandonedEligible", NoProof)
         /\ IF Matches(t)
            THEN Do(t, [task[t] EXCEPT !.pc = "recordEligible",
                          !.held = [rev |-> cand.rev, status |-> cand.status, gen |-> cand.gen]])
            ELSE Done(t)

\* inspect_expiry once the observation is complete.
InspectExpiry(t) ==
  LET complete == SeesActive(t) \/ SeesRetained(t) IN
  /\ task[t].job = "Inspect" /\ task[t].pc = "decide"
  /\ \/ /\ SeesTerminal(t)
        /\ Complete(t, "Closed", NoProof) /\ Cleared(Own(t), task[t].claim) /\ Done(t)
     \/ /\ ~SeesTerminal(t) /\ ~complete
        /\ CompleteQuarantined(t)
     \/ complete /\ RestoreOnly(t)       \* within lease and grace, or the clock is behind
     \/ complete /\ task[t].k.prev = "OwnershipExpiredCandidate" /\ ConfirmCandidate(t)
     \/ complete /\ task[t].k.prev # "OwnershipExpiredCandidate" /\ CreateCandidate(t)
  /\ UNCHANGED <<durable, nextGen, nextCheckout>>
  /\ ThreadRest(t)

Record(t) ==
  LET p == Own(t)
      c == task[t].claim
  IN
  /\ \/ /\ task[t].pc = "recordCandidate"
        /\ cands' = [cands EXCEPT ![p][c] = task[t].held] /\ UNCHANGED elig
     \/ /\ task[t].pc = "recordEligible"
        /\ elig' = [elig EXCEPT ![p][c] = task[t].held] /\ UNCHANGED cands
  /\ Done(t)
  /\ UNCHANGED <<durable, registry, failures, guards>>
  /\ ThreadRest(t)

----------------------------------------------------------------------------
(***************************************************************************)
(* acquire_recovery_ownership: the evidence is taken out, the abandoned    *)
(* claim replaced in one transaction, the outcome read back.               *)
(***************************************************************************)

\* The evidence of a claim is taken out ...
TakeoverStart(t) ==
  LET p == Own(t) IN
  /\ task[t] = Idle
  /\ \E c \in Claim :
       /\ elig[p][c] # Absent
       /\ elig' = [elig EXCEPT ![p][c] = Absent]
       /\ Do(t, [Idle EXCEPT !.job = "Takeover", !.pc = "claiming", !.claim = c,
                             !.held = elig[p][c]])
  /\ UNCHANGED <<durable, registry, cands, failures, guards>>
  /\ ThreadRest(t)

\* ... and, with the entry's checkout refused, put back.
TakeoverCheckout(t) ==
  LET p == Own(t)
      c == task[t].claim
      allowed == slot[p].claim = c /\ CheckoutAllowed(slot[p], "Takeover")
  IN
  /\ task[t].pc = "claiming"
  /\ \/ /\ allowed
        /\ TakesOut(t, "Takeover")
        /\ Do(t, [task[t] EXCEPT !.pc = "takeover",
                     !.k = CheckoutOf("none", slot[p], "Takeover", nextCheckout[p] + 1)])
        /\ UNCHANGED elig
     \/ /\ ~allowed
        /\ elig' = [elig EXCEPT ![p][c] = task[t].held]
        /\ Done(t)
        /\ UNCHANGED registry
  /\ UNCHANGED <<durable, cands, failures, guards>>
  /\ ThreadRest(t)

\* Wrong: the replacement looks at the claim only.
EvidenceUnchecked(t) == RowOf(task[t].claim) # Absent

\* The old row still is the one of the evidence.
EvidenceHolds(t) ==
  /\ CasMatches(task[t].claim, task[t].held.rev)
  /\ attempt[task[t].claim] = task[t].held.status

\* Wrong: the checkout is restored, the evidence stays consumed.
GiveBackCheckout(t) == RestoreOnly(t)

\* Restored with the evidence put back, if the checkout still is good.
GiveBackEvidence(t) ==
  /\ Restore(t)
  /\ elig' = IF Matches(t) THEN [elig EXCEPT ![Own(t)][task[t].claim] = task[t].held] ELSE elig
  /\ UNCHANGED <<cands, failures, guards>>
  /\ Done(t)

\* replace_abandoned_claim_for_recovery
TakeoverCommit(t) ==
  /\ task[t].pc = "takeover"
  /\ \/ /\ task[t].held.gen # task[t].k.gen
        /\ Complete(t, "RecoveryTakeoverQuarantined", NoProof)
        /\ Done(t)
        /\ UNCHANGED <<durable, supervisor>>
     \/ task[t].held.gen = task[t].k.gen /\ GiveBackEvidence(t) /\ UNCHANGED durable
     \/ /\ task[t].held.gen = task[t].k.gen /\ EvidenceHolds(t)
        /\ \E c \in Claim :
             /\ InsertClaim(c, Own(t))
             /\ attempt' = [attempt EXCEPT ![c] = "active",
                             ![task[t].claim] = IF @ = "active" THEN "retained" ELSE @]
             /\ \E reported \in BOOLEAN :
                  Do(t, [task[t] EXCEPT !.pc = IF reported THEN "taken" ELSE "lost", !.new = c])
        /\ UNCHANGED <<slot, supervisor>>
     \/ /\ task[t].held.gen = task[t].k.gen                 \* refused or failed
        /\ Do(t, [task[t] EXCEPT !.pc = "lost"])
        /\ UNCHANGED <<durable, slot, supervisor>>
  /\ UNCHANGED <<nextGen, nextCheckout>>
  /\ ThreadRest(t)

\* read_recovery_ownership_proof finds the successor.
SuccessorVisible(t) ==
  /\ task[t].new # NoClaim
  /\ RowOf(task[t].new) # Absent /\ attempt[task[t].new] = "active"

TakeOver(t, target) ==
  slot' = IF Matches(t) THEN [slot EXCEPT ![Own(t)] = TakenOver(@, target, task[t].new)] ELSE slot

\* The outcome is what a fresh read shows, whatever the writer reported.
TakeoverRead(t) ==
  /\ task[t].pc \in {"taken", "lost"}
  /\ \/ /\ SuccessorVisible(t)
        /\ TakeOver(t, "RecoveryOwnershipCommittedButUnattached")
        /\ IF Matches(t) THEN Do(t, [task[t] EXCEPT !.pc = "attach"]) ELSE Done(t)
        /\ UNCHANGED supervisor
     \/ /\ task[t].pc = "taken"                             \* not readable, or gone again
        /\ TakeOver(t, "RecoveryTakeoverQuarantined")
        /\ Done(t)
        /\ UNCHANGED supervisor
     \/ task[t].pc = "lost" /\ EvidenceHolds(t) /\ GiveBackEvidence(t)
     \/ /\ task[t].pc = "lost"                              \* not intact, or not readable
        /\ Complete(t, "RecoveryTakeoverQuarantined", NoProof)
        /\ Done(t)
        /\ UNCHANGED supervisor
  /\ UNCHANGED <<durable, nextGen, nextCheckout>>
  /\ ThreadRest(t)

\* attach_committed_recovery_ownership and the recovery guard.
TakeoverAttach(t) ==
  LET p == Own(t)
      attachable == /\ slot[p].claim = task[t].new /\ slot[p].gen = task[t].k.gen
                    /\ slot[p].lc = "RecoveryOwnershipCommittedButUnattached"
  IN
  /\ task[t].pc = "attach"
  /\ IF attachable
     THEN /\ Put(p, Moved(slot[p], "RecoveryOwned"))
          /\ guards' = [guards EXCEPT ![p] = @ \cup {task[t].new}]
     ELSE UNCHANGED <<slot, guards>>
  /\ Done(t)
  /\ UNCHANGED <<durable, nextGen, nextCheckout, cands, elig, failures>>
  /\ ThreadRest(t)

----------------------------------------------------------------------------

ProcessNext == \E p \in Process : Start(p) \/ Crash(p) \/ BeginShutdown(p)

HandleNext ==
  \E p \in Process :
    \/ Initialize(p) \/ FinishWithoutHandle(p)
    \/ Register(p) \/ Install(p)
    \/ HeartbeatBegin(p) \/ HeartbeatCommit(p) \/ HeartbeatFinish(p)
    \/ QuarantineAfterUnknown(p) \/ Drop(p)
    \/ CloseBegin(p) \/ CloseSnapshot(p) \/ CloseCommit(p) \/ CloseSettle(p)

TickNext ==
  \E t \in Thread :
    \/ Discover(t) \/ \E action \in {"Renew", "Classify", "Inspect"} : StartJob(t, action)
    \/ LookAtClaim(t) \/ LookAtAttempt(t) \/ LookFails(t)
    \/ RegisterDiscovered(t) \/ InstallDiscovered(t)
    \/ RenewCommit(t) \/ RenewFinish(t)
    \/ Classify(t) \/ InspectExpiry(t) \/ Record(t)

TakeoverNext ==
  \E t \in Thread :
    \/ TakeoverStart(t) \/ TakeoverCheckout(t)
    \/ TakeoverCommit(t) \/ TakeoverRead(t) \/ TakeoverAttach(t)

Next == ProcessNext \/ HandleNext \/ TickNext \/ TakeoverNext \/ MonoTick

Spec == Init /\ [][Next]_vars

----------------------------------------------------------------------------
(***************************************************************************)
(* Properties                                                              *)
(***************************************************************************)

Row == [claim : Claim, owner : Process, rev : 0..MaxRevision]

\* What the supervisor keeps of a claim: a candidate (with where it came from and
\* when its clock started) and the evidence of an abandoned one.
Candidates == [rev : Nat, status : Status, start : Nat, gen : Nat, ck : Nat,
               origin : {"DroppedUnclosed", "OrphanedDurableClaim"}]
Evidence   == [rev : Nat, status : Status, gen : Nat]

\* No record is mistaken for its absence.
ASSUME AbsentAssumption ==
  /\ Absent \notin Row /\ Absent \notin [claim : Claim, owner : Process]
  /\ Absent \notin Candidates /\ Absent \notin Evidence

HandlePc == {"none", "initialized", "registered", "live", "beating", "committed", "unsure",
             "closing", "exiting", "settleTerminal", "settleRetained"}

TaskPc == {"idle", "look", "looked", "decide", "install", "renew", "renewed",
           "recordCandidate", "recordEligible", "claiming", "takeover", "taken", "lost", "attach"}

\* The shapes of the records, rows and lifecycles the code moves around.
TypeOK ==
  /\ row \in Row \cup {Absent}
  /\ attempt \in [Claim -> Status]
  /\ beatAt \in 0..mono /\ mono \in 0..MaxMono
  /\ up \in [Process -> {"unborn", "up", "dead"}]
  /\ shutting \in [Process -> BOOLEAN]
  /\ \A p \in Process : slot[p] \in Entry /\ StageShape(slot[p])
  /\ \A p \in Process : handle[p].pc \in HandlePc /\ handle[p].claim \in Claim \cup {NoClaim}
  /\ guards \in [Process -> SUBSET Claim]
  /\ \A t \in Thread : task[t].pc \in TaskPc /\ task[t].row \in Row \cup {Absent}
  /\ \A p \in Process : up[p] # "up" => slot[p] = Vacant /\ handle[p] = NoHandle
  /\ row # Absent => attempt[row.claim] \in {"active", "retained", "partial"}

\* No entry is left in flight: as long as it is, one thread of the process still
\* is at work that will settle it, on every path of the job, failing ones included
\* (ownership_supervisor.rs:438-1182,1357-1592).
InFlightIsWorkedOn ==
  \A p \in Process :
    slot[p].lc \in InFlightLifecycle =>
      \E t \in Thread : Own(t) = p /\ task[t] # Idle /\ CheckoutMatches(slot[p], task[t].k)

\* An entry that waits for recovery can get it: its evidence is there, or a thread
\* is on its way to put it there.
HasEvidence(p) ==
  \/ elig[p][slot[p].claim] # Absent
  \/ \E t \in Thread : Own(t) = p /\ task[t].pc \in {"recordEligible", "claiming"}
                                /\ task[t].claim = slot[p].claim

Stranded(p) == slot[p].lc = "AbandonedEligible" /\ ~HasEvidence(p)

\* Job t ends with a checkout somebody else has superseded.
EndsStale(t) ==
  task[t].pc \in {"decide", "renewed"} /\ task'[t] = Idle /\ ~Matches(t)

\* However ticks and takeovers of a process overlap, an entry that waits for
\* recovery keeps its evidence through every confirmation, refused checkout and
\* takeover that did not happen: it is left without any only by a tick that comes
\* late, whose own checkout is stale and which clears the state of the claim all
\* the same (ownership_supervisor.rs:1027-1182,1189-1211,1357-1592).
EvidenceNotLost ==
  [][\A p \in Process :
       Stranded(p)' /\ ~Stranded(p) =>
         \E t \in Thread : Own(t) = p /\ task[t].claim = slot[p].claim /\ EndsStale(t)]_vars

\* Recovery ownership a process believes in is durable: the successor claim was
\* committed for this process, and if it does not hold the resource any more it
\* was itself superseded (ownership_supervisor.rs:1468-1592).
RecoveryIsDurable ==
  \A p \in Process :
    slot[p].lc \in {"RecoveryOwnershipCommittedButUnattached", "RecoveryOwned"} =>
      /\ attempt[slot[p].claim] # "none"
      /\ RowOf(slot[p].claim) # Absent => row.owner = p
      /\ RowOf(slot[p].claim) = Absent => attempt[slot[p].claim] # "active"

\* What became of an operation is final: a late close, heartbeat or takeover of a
\* claim that lost the resource does not write its attempt again
\* (non_completed_exit.rs:1665-1922, runtime.rs:1166-1511).
OutcomeIsFinal ==
  [][\A c \in Claim :
       attempt[c] \in {"terminal", "retained", "partial"} => attempt'[c] = attempt[c]]_vars

Lease ==
  INSTANCE ClaimLease WITH
    NoLease <- Absent,
    lease  <- IF row = Absent THEN Absent ELSE [claim |-> row.claim, owner |-> row.owner],
    used   <- {c \in Claim : attempt[c] # "none"},
    now    <- mono

\* Whatever the processes, threads and clocks do, the resource is leased to one
\* claim at a time, and handed over only after the holder was silent for the
\* confirmation interval of monotonic time (ownership_supervisor.rs:948-1182,
\* runtime.rs:717-806,1166-1511).
ImplementsLease == Lease!LeaseSpec
=============================================================================
