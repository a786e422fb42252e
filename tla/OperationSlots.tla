---------------------------- MODULE OperationSlots ----------------------------
(***************************************************************************)
(* An operation with a slot and a heartbeat: OperationSlotGuard and        *)
(* ClaimedExecutionHandle of provisioning_runtime/core.rs, the scheduler   *)
(* of heartbeat_scheduler.rs and the asynchronous ticker of lifecycle.rs.  *)
(*                                                                         *)
(* Slots and heartbeat entries are two registries with a lock each.  The   *)
(* operation threads, the ticker's tasks and shutdown go through them one  *)
(* lock section at a time, in different orders, and a heartbeat callback   *)
(* runs with no lock at all.  Each slot generation belongs to one guard,   *)
(* so operation threads are named by it; ticker tasks are named by the     *)
(* ticker generation they were started with.                               *)
(*                                                                         *)
(* Kept abstract: of time only whether an entry is due, which the clock    *)
(* may make it at any moment but one (Elapse).  The callbacks belong to    *)
(* the caller: any outcome, and a panic.  Left out: detach_caller, which   *)
(* changes nothing a later call looks at, the feedback, and the admission  *)
(* checks before an acquisition, which refuse it without an effect.        *)
(***************************************************************************)
EXTENDS SlotEntry, ManagedResource, FiniteSets

CONSTANTS
  ResourceOf,   \* the resource of an operation's claim
  Absent,       \* no heartbeat entry, no resource
  MaxGeneration, MaxTicker, MaxRevision   \* bounds

\* HeartbeatEntry, and whether it is due
Beat == [gen : 1..MaxGeneration, rev : 0..MaxRevision, due : BOOLEAN]

ASSUME SlotsAssumption ==
  /\ ResourceOf \in [Claim -> Resource]
  /\ {MaxGeneration, MaxTicker, MaxRevision} \subseteq Nat
  /\ Absent \notin Beat

VARIABLES
  slot, nextGen, slotsClosed,   \* SlotState
  op,                           \* guard, claim call and handle, by slot generation
  beat, beatsClosed,            \* SchedulerState, its entries by operation
  ticker,                       \* AsyncTickerState
  task,                         \* its spawned loops
  stopping                      \* how far ProvisioningRuntime::shutdown is

slots == <<slot, nextGen, slotsClosed>>
beats == <<beat, beatsClosed>>
vars  == <<slots, op, beats, ticker, task, stopping>>

NoOp   == [pc |-> "none", res |-> Absent, claim |-> NoClaim,
           swept |-> FALSE]      \* history: its slot went when its heartbeat ended
NoBeat == [claim |-> NoClaim, gen |-> 0, rev |-> 0]
NoTask == [pc |-> "none", todo |-> {}, cur |-> NoBeat, removed |-> {}]

Init ==
  /\ slot = [r \in Resource |-> Vacant] /\ nextGen = 0 /\ slotsClosed = FALSE
  /\ op = [g \in 1..MaxGeneration |-> NoOp]
  /\ beat = [c \in Claim |-> Absent] /\ beatsClosed = FALSE
  /\ ticker = [running |-> FALSE, failed |-> FALSE, gen |-> 0]
  /\ task = [i \in 1..MaxTicker |-> NoTask]
  /\ stopping = "no"

----------------------------------------------------------------------------
(***************************************************************************)
(* The ticker.  start and stop run under the scheduler's lock, but for the *)
(* stop of a shutdown, after which nothing starts it.                      *)
(***************************************************************************)

Stopped == IF ticker.running THEN [ticker EXCEPT !.running = FALSE, !.gen = @ + 1] ELSE ticker

\* Wrong: a ticker that was stopped stays so.
StartedOnce ==
  IF ticker.gen > 0 THEN UNCHANGED <<ticker, task>>
  ELSE /\ ticker.gen < MaxTicker
       /\ ticker' = [ticker EXCEPT !.running = TRUE, !.gen = @ + 1]
       /\ task' = [task EXCEPT ![ticker.gen + 1] = [NoTask EXCEPT !.pc = "wait"]]

Started ==
  IF ticker.running THEN UNCHANGED <<ticker, task>>
  ELSE /\ ticker.gen < MaxTicker
       /\ ticker' = [ticker EXCEPT !.running = TRUE, !.gen = @ + 1]
       /\ task' = [task EXCEPT ![ticker.gen + 1] = [NoTask EXCEPT !.pc = "wait"]]

NoEntries(b) == \A c \in Claim : b[c] = Absent

----------------------------------------------------------------------------
(***************************************************************************)
(* An operation: acquire, claim, complete.                                 *)
(***************************************************************************)

At(g, pc) == op[g].pc = pc
Go(g, pc) == op' = [op EXCEPT ![g].pc = pc]

OffBeats == UNCHANGED <<nextGen, slotsClosed, beats, ticker, task, stopping>>

\* Wrong: whatever is in the slot is released.
ReleaseSlotByLease(g) == slot' = [slot EXCEPT ![op[g].res] = Vacant]

\* SlotCoordinator::release with the lease of generation g
ReleaseSlot(g) ==
  slot' = IF slot[op[g].res].gen = g THEN [slot EXCEPT ![op[g].res] = Vacant] ELSE slot

\* Wrong: shutdown is looked at later only.
AcquireInShutdown(r) ==
  /\ nextGen < MaxGeneration
  /\ \A s \in Resource : Conflict(r, s) => ~Occupied(slot[s])
  /\ nextGen' = nextGen + 1
  /\ slot' = [slot EXCEPT ![r] = LocalPending(nextGen + 1, "mutation")]
  /\ op' = [op EXCEPT ![nextGen + 1] = [NoOp EXCEPT !.pc = "guard", !.res = r]]
  /\ UNCHANGED <<slotsClosed, beats, ticker, task, stopping>>

Acquire(r) ==
  /\ nextGen < MaxGeneration
  /\ ~slotsClosed
  /\ \A s \in Resource : Conflict(r, s) => ~Occupied(slot[s])
  /\ nextGen' = nextGen + 1
  /\ slot' = [slot EXCEPT ![r] = LocalPending(nextGen + 1, "mutation")]
  /\ op' = [op EXCEPT ![nextGen + 1] = [NoOp EXCEPT !.pc = "guard", !.res = r]]
  /\ UNCHANGED <<slotsClosed, beats, ticker, task, stopping>>

\* The guard goes: dropped, cancelled, shutting down, or no durable claim.
DropGuard(g) ==
  /\ At(g, "guard") \/ At(g, "claiming")
  /\ ReleaseSlot(g)
  /\ Go(g, "released")
  /\ OffBeats

\* claim, up to its callback, which claims the operation durably.
ClaimBegin(g) ==
  /\ At(g, "guard") /\ ~slotsClosed
  /\ Go(g, "claiming")
  /\ UNCHANGED slot /\ OffBeats

ClaimPromote(g) ==
  /\ At(g, "claiming")
  /\ \E c \in Claim :
       /\ ResourceOf[c] = op[g].res
       /\ slot[op[g].res].gen = g /\ slot[op[g].res].stage = "pending"
       /\ slot' = [slot EXCEPT ![op[g].res] = ClaimedEntry(@, c, slotsClosed)]
       /\ op' = [op EXCEPT ![g].pc = "promoted", ![g].claim = c]
  /\ OffBeats

\* The second look at the shutdown flag: the slot stays, abandoned.
ClaimLook(g) ==
  /\ At(g, "promoted")
  /\ Go(g, IF slotsClosed THEN "gone" ELSE "registering")
  /\ UNCHANGED slot /\ OffBeats

\* HeartbeatScheduler::register
ClaimRegister(g) ==
  LET c == op[g].claim IN
  /\ At(g, "registering")
  /\ IF beatsClosed \/ beat[c] # Absent \/ (NoEntries(beat) /\ ticker.failed)
     THEN Go(g, "refused") /\ UNCHANGED <<beat, ticker, task>>
     ELSE /\ Go(g, "handle")
          /\ beat' = [beat EXCEPT ![c] = [gen |-> g, rev |-> 0, due |-> FALSE]]
          /\ IF NoEntries(beat) THEN Started ELSE UNCHANGED <<ticker, task>>
  /\ UNCHANGED <<slots, beatsClosed, stopping>>

\* Wrong: the slot of a claim whose heartbeat was refused is kept.
ClaimUndoForgets(g) ==
  /\ At(g, "refused") \/ At(g, "undoing")
  /\ Go(g, "gone")
  /\ UNCHANGED slot /\ OffBeats

\* A refused heartbeat takes the slot back, unless shutdown has it.
ClaimUndo(g) ==
  /\ \/ /\ At(g, "refused")
        /\ Go(g, IF slotsClosed THEN "gone" ELSE "undoing")
        /\ UNCHANGED slot
     \/ /\ At(g, "undoing")
        /\ ReleaseSlot(g) /\ Go(g, "released")
  /\ OffBeats

\* The handle is dropped, or its completion refused during shutdown: slot and
\* heartbeat stay.
LetGo(g) ==
  /\ At(g, "handle")
  /\ Go(g, "gone")
  /\ UNCHANGED slot /\ OffBeats

CompleteBegin(g) ==
  /\ At(g, "handle") /\ ~slotsClosed
  /\ Go(g, "completing")
  /\ UNCHANGED slot /\ OffBeats

\* HeartbeatScheduler::unregister, by generation
CompleteUnregister(g) ==
  LET c == op[g].claim
      mine == beat[c] # Absent /\ beat[c].gen = g
      rest == [beat EXCEPT ![c] = Absent]
  IN
  /\ At(g, "completing")
  /\ beat' = IF mine THEN rest ELSE beat
  /\ ticker' = IF mine /\ NoEntries(rest) THEN Stopped ELSE ticker
  /\ Go(g, "unregistered")
  /\ UNCHANGED <<slots, beatsClosed, task, stopping>>

CompleteRelease(g) ==
  /\ At(g, "unregistered")
  /\ ReleaseSlot(g)
  /\ Go(g, "released")
  /\ OffBeats

OpStep(g) ==
  \/ DropGuard(g) \/ ClaimBegin(g) \/ ClaimPromote(g) \/ ClaimLook(g)
  \/ ClaimRegister(g) \/ ClaimUndo(g)
  \/ LetGo(g) \/ CompleteBegin(g) \/ CompleteUnregister(g) \/ CompleteRelease(g)

----------------------------------------------------------------------------
(***************************************************************************)
(* A ticker task: its loop, HeartbeatScheduler::tick, and                  *)
(* ProvisioningRuntime::tick_heartbeats around it.                         *)
(***************************************************************************)

In(i, pc) == task[i].pc = pc
To(i, pc) == task' = [task EXCEPT ![i].pc = pc]

OffSlots == UNCHANGED <<slots, op, beatsClosed, stopping>>

\* Wrong: a task goes on whatever its generation.
WakeWhileRunning(i) ==
  /\ In(i, "wait")
  /\ IF ticker.running THEN To(i, "checked")
     ELSE task' = [task EXCEPT ![i] = [NoTask EXCEPT !.pc = "ended"]]
  /\ UNCHANGED <<beat, ticker>> /\ OffSlots

\* After the interval, or notified: still running, in its own generation?
Wake(i) ==
  /\ In(i, "wait")
  /\ IF ticker.running /\ ticker.gen = i THEN To(i, "checked")
     ELSE task' = [task EXCEPT ![i] = [NoTask EXCEPT !.pc = "ended"]]
  /\ UNCHANGED <<beat, ticker>> /\ OffSlots

\* The entries that are due are copied.
Snapshot(i) ==
  /\ In(i, "checked")
  /\ IF beatsClosed THEN To(i, "wait")
     ELSE task' = [task EXCEPT ![i].pc = "loop", ![i].todo =
            {[claim |-> c, gen |-> beat[c].gen, rev |-> beat[c].rev] :
               c \in {d \in Claim : beat[d] # Absent /\ beat[d].due}}]
  /\ UNCHANGED <<beat, ticker>> /\ OffSlots

\* Wrong: the next registration of the same claim is taken for the one copied.
CurrentByClaim(e) == ~beatsClosed /\ beat[e.claim] # Absent

\* The entry a copy was made of, if it still is there and may be touched.
Current(e) == ~beatsClosed /\ beat[e.claim] # Absent /\ beat[e.claim].gen = e.gen

\* One copy after the other is looked at again; then its callback runs.
Call(i) ==
  /\ In(i, "loop")
  /\ \E e \in task[i].todo :
       task' = [task EXCEPT ![i].todo = @ \ {e},
                            ![i].pc  = IF Current(e) THEN "call" ELSE "loop",
                            ![i].cur = IF Current(e) THEN e ELSE NoBeat]
  /\ UNCHANGED <<beat, ticker>> /\ OffSlots

Back(i, removed) ==
  task' = [task EXCEPT ![i].pc = "loop", ![i].cur = NoBeat, ![i].removed = @ \cup removed]

\* The callback's answer: advanced, a transient error, or the end of the entry
\* (conflict, mismatch, terminal).  A late one is ignored.
Answer(i) ==
  LET e == task[i].cur IN
  /\ In(i, "call")
  /\ \/ /\ ~Current(e)
        /\ UNCHANGED beat /\ Back(i, {})
     \/ /\ Current(e) /\ e.rev < MaxRevision
        /\ beat' = [beat EXCEPT ![e.claim].rev = e.rev + 1, ![e.claim].due = FALSE]
        /\ Back(i, {})
     \/ /\ Current(e)
        /\ beat' = [beat EXCEPT ![e.claim].due = FALSE]
        /\ Back(i, {})
     \/ /\ Current(e)
        /\ beat' = [beat EXCEPT ![e.claim] = Absent]
        /\ Back(i, {[claim |-> e.claim, gen |-> e.gen]})
  /\ UNCHANGED ticker /\ OffSlots

\* The callback panics through the tick: the ticker fails for good, and the report
\* of the tick goes with it (history: what is in `removed' is never swept).
Panic(i) ==
  /\ In(i, "call")
  /\ ticker' = [ticker EXCEPT !.failed = TRUE, !.running = FALSE]
  /\ task' = [task EXCEPT ![i] = [NoTask EXCEPT !.pc = "ended", !.removed = task[i].removed]]
  /\ UNCHANGED beat /\ OffSlots

After(i) == IF task[i].removed = {} THEN "wait" ELSE "sweep"

\* Wrong: the ticker is stopped for an emptiness seen before.
FinishStops(i) ==
  /\ In(i, "loop") /\ task[i].todo = {}
  /\ ticker' = IF task[i].removed # {} THEN Stopped ELSE ticker
  /\ To(i, After(i))
  /\ UNCHANGED beat /\ OffSlots

Finish(i) ==
  /\ In(i, "loop") /\ task[i].todo = {}
  /\ ticker' = IF NoEntries(beat) THEN Stopped ELSE ticker
  /\ To(i, After(i))
  /\ UNCHANGED beat /\ OffSlots

\* release_by_operation for one entry the tick removed.
Sweep(i) ==
  /\ In(i, "sweep")
  /\ \E b \in task[i].removed :
       LET mine(e) == e.stage = "claimed" /\ e.claim = b.claim /\ e.gen = b.gen IN
       /\ slot' = [r \in Resource |-> IF mine(slot[r]) THEN Vacant ELSE slot[r]]
       /\ op' = [op EXCEPT ![b.gen].swept = TRUE]
       /\ task' = [task EXCEPT ![i].removed = @ \ {b},
                               ![i].pc = IF task[i].removed = {b} THEN "wait" ELSE "sweep"]
  /\ UNCHANGED <<nextGen, slotsClosed, beats, ticker, stopping>>

TaskStep(i) ==
  \/ Wake(i) \/ Snapshot(i) \/ Call(i) \/ Answer(i) \/ Panic(i) \/ Finish(i) \/ Sweep(i)

\* HEARTBEAT_CADENCE_MS after it was registered or beaten an entry is due.  No
\* task stays for as long as that between its check and its copy.
Elapse(c) ==
  /\ beat[c] # Absent /\ ~beat[c].due
  /\ \A i \in 1..MaxTicker : ~In(i, "checked")
  /\ beat' = [beat EXCEPT ![c].due = TRUE]
  /\ UNCHANGED <<slots, op, beatsClosed, ticker, task, stopping>>

----------------------------------------------------------------------------
(***************************************************************************)
(* Shutdown: slots, then the scheduler, then its ticker.                   *)
(***************************************************************************)

\* Wrong: every slot is marked, claimed or not.
AbandonSlotsAnyStage ==
  /\ stopping = "no"
  /\ stopping' = "slots"
  /\ slotsClosed' = TRUE
  /\ slot' = [r \in Resource |-> [slot[r] EXCEPT !.abandoned = TRUE]]
  /\ UNCHANGED <<nextGen, op, beats, ticker, task>>

AbandonSlots ==
  /\ stopping = "no"
  /\ stopping' = "slots"
  /\ slotsClosed' = TRUE
  /\ slot' = [r \in Resource |->
                IF slot[r].stage = "claimed" THEN [slot[r] EXCEPT !.abandoned = TRUE] ELSE slot[r]]
  /\ UNCHANGED <<nextGen, op, beats, ticker, task>>

AbandonBeats ==
  /\ stopping = "slots"
  /\ stopping' = "beats"
  /\ beatsClosed' = TRUE
  /\ UNCHANGED <<slots, op, beat, ticker, task>>

StopTicker ==
  /\ stopping = "beats"
  /\ stopping' = "done"
  /\ ticker' = Stopped
  /\ UNCHANGED <<slots, op, beats, task>>

Next ==
  \/ \E r \in Resource : Acquire(r)
  \/ \E g \in 1..MaxGeneration : OpStep(g)
  \/ \E i \in 1..MaxTicker : TaskStep(i)
  \/ \E c \in Claim : Elapse(c)
  \/ AbandonSlots \/ AbandonBeats \/ StopTicker

\* The runtime polls a spawned task, its timer fires and a callback returns;
\* nothing obliges a caller to go on.
Fairness == \A i \in 1..MaxTicker : WF_vars(TaskStep(i))

Spec == Init /\ [][Next]_vars /\ Fairness

----------------------------------------------------------------------------
(***************************************************************************)
(* Properties                                                              *)
(***************************************************************************)

Copy == [claim : Claim, gen : 1..MaxGeneration, rev : 0..MaxRevision]

OpPc == {"none", "guard", "claiming", "promoted", "registering", "refused", "undoing",
         "handle", "completing", "unregistered", "released", "gone"}

\* The shapes of the two registries, of the ticker and of the threads.
TypeOK ==
  /\ slot \in [Resource -> Entry] /\ \A r \in Resource : StageShape(slot[r])
  /\ nextGen \in 0..MaxGeneration /\ slotsClosed \in BOOLEAN
  /\ op \in [1..MaxGeneration ->
               [pc : OpPc, res : Resource \cup {Absent}, claim : Claim \cup {NoClaim}, swept : BOOLEAN]]
  /\ beat \in [Claim -> Beat \cup {Absent}] /\ beatsClosed \in BOOLEAN
  /\ ticker \in [running : BOOLEAN, failed : BOOLEAN, gen : 0..MaxTicker + 1]
  /\ task \in [1..MaxTicker ->
                 [pc : {"none", "wait", "checked", "loop", "call", "sweep", "ended"},
                  todo : SUBSET Copy, cur : Copy \cup {NoBeat},
                  removed : SUBSET [claim : Claim, gen : 1..MaxGeneration]]]
  /\ stopping \in {"no", "slots", "beats", "done"}

\* Nobody beats for a slot that somebody else may have: as long as there is a
\* heartbeat entry, the slot is claimed by its operation in its generation
\* (core.rs:755-815,867-882, heartbeat_scheduler.rs:243-261,344-370).
BeatHasItsSlot ==
  \A c \in Claim :
    beat[c] # Absent =>
      LET e == slot[ResourceOf[c]] IN
      e.stage = "claimed" /\ e.claim = c /\ e.gen = beat[c].gen

\* A claimed slot that was not abandoned is beaten for, or somebody is on the way
\* to bring its heartbeat in or to take the slot back.  Only the report of a tick
\* lost in a panic leaves the two registries apart (core.rs:588-596,755-815).
ClaimedHasItsBeat ==
  \A r \in Resource :
    slot[r].stage = "claimed" /\ ~slot[r].abandoned =>
      \/ beat[slot[r].claim] # Absent /\ beat[slot[r].claim].gen = slot[r].gen
      \/ op[slot[r].gen].pc \in {"promoted", "registering", "refused", "undoing", "unregistered"}
      \/ \E i \in 1..MaxTicker : [claim |-> slot[r].claim, gen |-> slot[r].gen] \in task[i].removed

\* While there are entries to beat, a task of the running ticker generation is
\* there to do it; starts and stops of the ticker cannot cross
\* (heartbeat_scheduler.rs:190-261,371-387, lifecycle.rs).
BeatsHaveATask ==
  ~NoEntries(beat) /\ ~beatsClosed /\ ~ticker.failed =>
    /\ ticker.running
    /\ task[ticker.gen].pc \in {"wait", "checked", "loop", "call", "sweep"}

\* A callback is never asked to beat with a revision its entry has left behind,
\* whatever ticks are about: that would end a healthy operation with a conflict of
\* its own making (heartbeat_scheduler.rs:263-315).
CallsWithLatestRevision ==
  \A i \in 1..MaxTicker :
    In(i, "call") /\ Current(task[i].cur) => task[i].cur.rev = beat[task[i].cur.claim].rev

\* A callback runs without the lock, and while it does its entry may be completed, be
\* registered again by the next claim of the same operation, or be closed by shutdown.
\* Its answer then changes no entry at all; otherwise none but the one it was asked
\* for (heartbeat_scheduler.rs:304-315, the test
\* p3b4_shutdown_invalidates_in_flight_heartbeat_without_waiting_forever).
LateAnswersIgnored ==
  [][\A c \in Claim :
       /\ beatsClosed => beat'[c] = Absent \/ (beat[c] # Absent /\ beat'[c].rev = beat[c].rev)
       /\ \A i \in 1..MaxTicker :
            In(i, "call") /\ In(i, "loop")' /\ beat'[c] # beat[c] =>
              task[i].cur.claim = c /\ beat[c] # Absent /\ task[i].cur.gen = beat[c].gen]_vars

\* A heartbeat that is due is beaten, or its entry ends, for as long as the runtime
\* runs and the ticker has not panicked (lifecycle.rs, heartbeat_scheduler.rs:263-377).
DueIsBeaten ==
  \A c \in Claim, g \in 1..MaxGeneration :
    LET waits == beat[c] # Absent /\ beat[c].gen = g /\ beat[c].due IN
    waits ~> (~waits \/ beatsClosed \/ ticker.failed)

\* What this module does to slots is among what SlotRegistry lets its callers do
\* at any time: guards and handles are its leases, heartbeat entries its beats
\* (core.rs:497-596,755-883).
Registry ==
  INSTANCE SlotRegistry WITH
    OwnClaim <- Claim, MaxCheckout <- 0, MaxExecution <- 0,
    nextCheckout <- 0, nextExec <- 0,
    shuttingDown <- slotsClosed,
    leases <- {[res |-> op[g].res, gen |-> g, claimed |-> op[g].claim # NoClaim] :
                 g \in {h \in 1..MaxGeneration : op[h].pc \notin {"none", "released"}}},
    beats  <- {[claim |-> op[g].claim, gen |-> g] :
                 g \in {h \in 1..MaxGeneration : op[h].claim # NoClaim /\ ~op[h].swept}},
    handles <- {}, checkouts <- {}, attachments <- {}

ImplementsRegistry == Registry!Spec
=============================================================================
