# SciLoom: verification of its provisioning runtime, manuscript sessions and formal switch

SciLoom is a desktop application (Tauri: a Rust core over SQLite, a TypeScript
front end in one or more windows) for research projects: literature, experiments, reviews and
their manuscripts. Three things in it are hard to test, because several actors
work on them and any of these may stop between two steps:

- the *provisioning runtime* (Rust): starting an experiment, a review or a literature reading
  creates files *and* rows, and must survive crashes, lost answers and a second copy of the
  program;
- the *manuscript sessions* (TypeScript over a native authority): windows edit
  files that other windows and other programs can change, with calls that cross awaits;
- the *formal switch* (Rust, driven by a window): an owner's current manuscript is replaced
  by another file in durable steps which any later process may have to continue.

Contents: [parts of the system](#parts-of-the-system) ·
[modules](#modules-and-how-they-correspond-to-the-code) · [runs](#runs) ·
[fairness](#fairness-and-liveness) · [findings](#findings) · [proofs](#proofs) ·
[abstractions](#what-is-abstracted) · [not modelled](#not-modelled) · [plan](#plan)

Paths are relative to the repository; `runtime/` is short for
`src-tauri/src/provisioning_runtime/`, `state/` for
`src-tauri/src/db/manuscript_provisioning_operation_state/`, `bridge.rs` for
`src-tauri/src/db/formal_switch_reference_owner_bridge.rs`.

## Parts of the system

### Provisioning runtime

**Slot coordinator** (`runtime/slot.rs`, `runtime/literature_gate.rs`).
Process-local; one mutex. State: for each managed resource a slot that is empty,
`LocalPending`, `Claimed` or `RuntimeOwned`, with a generation, a lifecycle (eighteen
values), a runtime instance, perhaps a *claim ownership proof* and perhaps the
number of the one outstanding *checkout*. Operations: acquire, promote, release;
register a handle or a sentinel; install, replace, snapshot, check out, restore and
complete a proof; attach recovery ownership and recovery execution; begin
shutdown. A literature item has three resources (aggregate, outline, notes) behind
one gate. Callers keep *tokens* (leases, handles, checkouts, attachments) across
lock sections. What is hard: a token outlives the state it was made of. What makes
it correct: conflicting resources are never held together; a stale token changes
nothing; a proof never leaves its entry; an entry in flight has exactly one token
that can settle it; shutdown abandons whatever it cannot finish.

**Runtime handle** (`runtime/non_completed_exit.rs`). An RAII value over a slot and a
durable claim: registration, heartbeat, quarantine after an unknown outcome, close
(an atomic exit in the database and a transition of the entry), drop. What is hard:
each of these is several lock sections and transactions with other actors between
them, and commits whose outcome is unknown. What makes it correct: an uncertain commit
takes the proof away; an exit is written once; no outcome is overwritten.

**Ownership supervisor** (`runtime/ownership_supervisor.rs` with `state/runtime.rs`,
`state/ownership_supervision.rs`, `state/claim_ownership.rs`). A tick discovers the
durable claims the registry does not know, renews the claims of this process,
classifies quarantined entries, inspects orphaned and dropped ones for expiry, confirms the
silence of a holder by two observations a monotonic interval apart, and makes
the claim eligible; `acquire_recovery_ownership` replaces the abandoned claim in one
transaction and then believes only what it reads back. What is hard: several processes over one
database, clocks that jump, lost answers, two locks. What makes it correct: a holder that beats is
never taken over; no one believes in recovery ownership that is not durable; evidence is not lost.

**Durable operation state** (`src-tauri/src/db/manuscript_provisioning_operation_state*`) and
**provisioning mainline** (`src-tauri/src/provisioning_mainline.rs`, `provisioning.rs`).
Rows for attempts, active claims, plans, step progress and the audit outbox, written in immediate
transactions guarded by a compare-and-swap on the claim's revision. The claim row, the attempt's
status, and begin and finish of a mainline operation as they act on the claim are modelled.

**Heartbeat scheduler and operation slots** (`runtime/heartbeat_scheduler.rs`,
`runtime/core.rs`, `runtime/lifecycle.rs`). A ticker with callbacks that advance a
claim, the guard that owns a pending slot and becomes a claimed execution, shutdown.
State: the entries of the scheduler by operation id, under a lock of their own; the
ticker's `running`, `failed` and generation; the tokio tasks it has spawned. What is hard:
callbacks run without the lock; results come back to entries that
were removed, replaced or abandoned; two registries (slots and heartbeats) must be
undone together; the ticker stops with the last entry and starts with the first. What
makes it correct: a heartbeat never outlives its slot; a claimed slot is beaten for or about to
be given up; an entry always has a task; what is due is beaten.

**Shared executor and adapters** (`runtime/shared_executor.rs`, `*_adapter.rs`). Executes
the steps of a recovered operation. Its registry transitions are modelled; the steps are not.

A start inserts an attempt and an active claim (database), registers a handle
(coordinator) and installs a proof. From then on the handle and the ticks of the
supervisor work on *the same entry*, the handle with the claim revision it has seen, a tick with
a checkout. The database is the only thing shared by processes; a process that
crashes loses everything else, and the next process generation learns of the
claim by discovery.

### Manuscript sessions

**Writable admission** (`src-tauri/src/manuscript_writable_admission.rs`). One mutex in the native
process. State: the grants in force, each with its window, logical session, file (a reference, a
path and a physical identity), a number of references and a proof number that is never used
again. Operations: admit, retain, release, the replacement of the identity after a grant's own
write, the detachment of a window that is destroyed. What is hard: a file has three names, and its
physical one changes with every atomic replacement. What makes it correct: no two grants cover
one file or one session; a dead proof stays dead.

**Manuscript session runtime** (`src/services/sharedManuscriptSessionRuntime.ts`,
`src/services/rawManuscriptGateway.ts`). One per window. State: sessions by key with their baseline,
draft, operation and token, the handles of their consumers, the calls in progress. Operations:
open, save, reload, discard, close, the clean-up of clean sessions, demotion to read-only, cancel,
edit. What is hard: every call awaits the native side several times, and any other call, keystroke or
cancellation may run meanwhile; a call that resumes finds another state than it left. What
makes it correct: what is shown as saved is saved; unsaved text goes by a decision only; no write lands on
a text nobody has read; a session that refuses as busy has a call that will end; native
references and consumers are counted alike.

**Editor lifecycle and close guard** (`src/services/sharedEditorLifecycleController.ts`,
`src/components/layout/SharedAppLifecycleHost.tsx`,
`src/components/common/ManuscriptSegmentEditorWindow.tsx`,
`src/pages/Experiments/useExperimentManuscriptEditor.ts`). State: the registered editors with the
dirtiness of their two drafts, the one request shown, the sequence that settles the dirty sessions
of a window to be closed, the decision in progress, the permit to destroy the window. What is hard: a save or
discard that was awaited comes back to a request that was withdrawn or replaced. What makes it correct: the window
goes only when what was dirty was settled; no dialog is left with dead buttons; no sequence is left
without a dialog; a decision ends.

The runtimes of all windows are the only clients of the authority, and the editors are clients of one
runtime. `ManuscriptSession` instantiates `WritableAdmission` and is shown to be a correct client of it.

### Formal switch

**Formal switch** (`bridge.rs`, `src-tauri/src/db/formal_switch_execution/`,
`formal_switch_foundation/` beside it, `src/services/referenceOwnerFormalSwitchProductionBridge.ts` and the files
beside them). State: the owner's row (current file, archived fields, everything else), the files, one durable
operation per owner with a phase and everything frozen at its beginning, the success log, and in
each window the switches it is carrying out and the sessions it has opened for them. Operations: confirm and begin, the
drive through the phases, clean-up of the target, activation and its report, continue, safe cancel. What is hard: the
drive crosses a file, two transactions and eight phases; it may fail or the process may end anywhere; another
process may continue the same operation at the same time or cancel it; owner and files
may be edited meanwhile. What makes it correct: each effect is taken once, in order; what was typed is
not overwritten; fields are archived before they are replaced; only a change
from outside leaves an operation that cannot be carried through.

## Modules, and how they correspond to the code

`map` in PROJECT.json gives the lines of each definition.

| module | models | depends on |
| --- | --- | --- |
| `ManagedResource` | keys, literature scopes, `conflict_ref` | |
| `ResourceGate` | abstract: what the coordinator promises | `ManagedResource` |
| `SlotEntry` | one slot entry and every update of it | |
| `SlotRegistry` | the coordinator and the tokens that are out | `SlotEntry`, `ManagedResource`, instance of `ResourceGate` |
| `ClaimLease` | abstract: what durable ownership promises | |
| `OwnershipSupervisor` | processes, handle, ticks, takeover, claim row | `SlotEntry`, instance of `ClaimLease` |
| `OperationSlots` | guard, claim, handle, scheduler, ticker tasks, shutdown | `SlotEntry`, `ManagedResource`, instance of `SlotRegistry` |
| `WritableAdmission` | the native authority over writers; it is also the specification its clients are held to | |
| `ManuscriptSession` | the session runtimes of all windows, the gateway, the file | instance of `WritableAdmission` |
| `EditorLifecycle` | controller, close guard, drafts of the editors of one window | |
| `OwnerSwitch` | abstract: what a formal switch promises the owner | |
| `FormalSwitch` | operations, native commands, windows, owner and files | instance of `OwnerSwitch` |
| `*MC` | instances for TLC | |
| `SlotEntryProofs`, `SlotRegistryProofs`, `OwnershipSupervisorProofs`, `OperationSlotsProofs`, `WritableAdmissionProofs`, `ManuscriptSessionProofs`, `EditorLifecycleProofs`, `FormalSwitchProofs` | theorems | |

**What a step is.** In `SlotRegistry` and `WritableAdmission` a step is one method: each takes
the one mutex, so each is atomic. Callers that lock twice are two steps: `InstallProof` after
`RegisterHandle`, `CloseReleaseTerminal` after `CloseCheckTerminal`. What happens between two calls
is the next-state relation: any holder of a token may act, with a token however old.

In `OperationSlots` a step is one lock section of `slot.rs` or `heartbeat_scheduler.rs`, or one
look at a flag between two of them: `OperationSlotGuard::claim` is `ClaimBegin`,
`ClaimPromote`, `ClaimLook`, `ClaimRegister`, `ClaimUndo`; a tick is `Wake`, `Snapshot`, then
`Call` and `Answer` (or `Panic`) for each entry copied, `Finish`, and a `Sweep` for each
slot to release. `op` is indexed by the slot generation, which belongs to one guard and then one handle;
`task` by the ticker generation a task was spawned with. `register`, `unregister` and the end of a
tick call the ticker while they hold the scheduler's lock, so those are one step with it. A failing ticker
sets two atomics in a row without the lock; that is one step (`Panic`). The module refines
`SlotRegistry`: guards and handles are leases there, heartbeat entries are beats.

In `OwnershipSupervisor` the database is in the model, and a job of a thread is cut
wherever the code leaves a lock or a transaction: checkout / reads of the
observation, one by one (`inspect_durable_claim` uses no transaction) / decision /
record in the supervisor state, or checkout / heartbeat transaction / read back. One entry
per process is enough there: claims of other resources touch neither the row nor
the entry. Registry and supervisor state have separate locks, so `Record` and
`TakeoverStart`/`TakeoverCheckout` are steps of their own. Every transaction may be refused, fail, commit
and report, or commit with its answer lost; the second half of an operation sees only the report. A
process may crash between any two steps and loses everything but the rows; the next start is a new process
generation.

In `ManuscriptSession` a window runs one thread of JavaScript, so a step is what runs from one await
to the next. A call is a record: where it awaits (`at`), what it captured before, what the native side
answered (`reply`). It captures what the code reads after the await: the decision passed with the close or reload of
a clean session is not looked at and so not recorded, nor is the handle of a save or discard.
The native side answers in a step of its own (a write may be applied and its answer lost, the
read back may fail), and only then can the call resume. A session object outlives its removal from the map, as
the closures that hold it do. Texts are numbered in order of appearance, so that "the
same text" is never a coincidence; the revision of a file is its text and physical identity together.

In `EditorLifecycle` a step is one handler or the continuation of one awaited save or discard; React
effects that follow a state change in the same turn belong to the handler. `works` are the decisions awaited,
each with the request it was made for; they can come back after their request is gone. `saving` is what the
form of a mounted sidebar knows of its own save: it goes with the form, so an editor that is shown again is not
blocked by the save of its old one, whose answer then counts for nothing. `timers` and `permit` are
the two ends of the zero-delay timer that withdraws a permit.

In `FormalSwitch` a native command runs on the main thread of its process, so one command at a time runs in a process
and `native[p]` says at which statement it is. Between two of its statements any other process may take any
step. The drive is one step per durable effect or per look at one: `ReadOperation`,
`TargetGate`, `BeginSettlement`, `Settle`, `VerifySettlement`, `CompleteSettlement`, `BeginDb`, `Classify`, `Commit`,
`Recheck`, `CompleteDb`, `BeginActivation`, `GiveTicket`; at every one of them an access may fail or the process
end (`Crash`). A failed access ends the command (`Fail`), except where the code classifies what the database holds: there it
counts as unverifiable (`Reports`), which blocks the operation or has it contained. The window's half is `Confirm`, `Prepare` (the begin command), `DriveAgain`, `Cleanup`, `Activate`,
`ReportActivation`, `Succeed`, and `Continue` and `SafeCancel` for an operation found in the list of unresolved ones. A
call of a window is again a record with what it has read (`x`), so owner and files can change between the read and
begin. `Transitions` is the recovery matrix of `src/contracts/formalSwitchRecoveryStateMatrixV1.json`
restricted to the outcomes the code passes.

**The constants.** Sets of resources, claims, processes, threads, windows, keys, editors, files, values are
arbitrary; `CONFIRM` is `ABANDONMENT_CONFIRMATION_INTERVAL_MS` in units of monotonic time,
`MAX_RENEW_FAILURES` is `MAX_CONSECUTIVE_RENEW_FAILURES`. Bounds, all in the guards
of the actions that count, are named `Max...`. A bound that is reached only stops the
counter: the `u64` counters of the code are checked, and refuse likewise. `MaxTroubles` counts changes from outside the
switch and crashes together.

**Operators called "Mutant".** Before some definitions stands a variant of it with
the mistake its guard prevents (a generation not compared, a shutdown flag not
looked at, a baseline not kept). Nothing uses them; each is a mutant listed in PROJECT.json, and replacing the
definition by it must break the property listed with it.

## Runs

All passing runs are exhaustive. `CHECK_DEADLOCK FALSE` stands where the system really may stop: counters used up
and holders gone, a crashed process, a destroyed window, all calls done.

| run | instance | states | properties |
| --- | --- | --- | --- |
| `registry` | the three scopes of one literature item, 4 claims (two of this process), 2 generations, 4 checkouts, 1 execution, revisions 0..1 | 491k | `TypeOK`, `ProofSealed`, `CheckoutCustody`, `ShutdownAbandonsClaimed`, `FreedByItsHolder`, `ImplementsGate` |
| `supervisor_one_process` | one process, two supervisor threads, 4 checkouts, 1 beat | 2.70M | `InFlightIsWorkedOn`, `EvidenceNotLost` |
| `supervisor_takeover` | two process generations, one thread each; the first starts and holds operations, the second supervises and takes over; 2 units of monotonic time, `CONFIRM` = 1 | 924k | `RecoveryIsDurable`, `OutcomeIsFinal`, `ImplementsLease` |
| `operation_slots` | an operation on each of two resources, 2 slot generations, 3 ticker generations | 104k | `TypeOK`, `ClaimedHasItsBeat`, `BeatHasItsSlot`, `BeatsHaveATask`, `CallsWithLatestRevision`, `DueIsBeaten`, `LateAnswersIgnored`, `ImplementsRegistry` |
| `writable_admission` | two windows, two sessions, two references and two paths, 3 grants, 2 physical identities | 292 | `TypeOK`, `OneWriterPerFile`, `ProofsStayDead` |
| `session_overlap` | one window, two calls at a time, 2 texts, 3 operations of one session, lookups of the owner that answer or throw | 1.11M | `DirtyIsTrue`, `LeftBusyByThrowOnly`, `UnsavedTextSurvives`, `WriteReplacesBaseline` |
| `session_consumers` | one window, one call at a time, a managed and an external handle, both access modes, another program at the file, an owner that turns read-only or changes | 667k | `TypeOK`, `AuthoritySpec` |
| `session_overtaken` | as `session_overlap` | | `OvertakenSaveStaysOut`, violated |
| `editor_late` | two editors, two decisions awaited at once, the close of an editor and of the window | 2.95M | `ExitSettles`, `PermitHasTimer`, `PendingHasResolver`, `SequenceAsks` |
| `editor_decisions` | one editor with every use of a request and a session that is replaced, under fairness of the native answers | 83k | `DecisionsEnd` |
| `editor_typing` | two editors | | `ExitLosesNothing`, violated |
| `formal_switch` | two processes with a call each, two files, two operations, one crash or one change from outside | 771k | `TypeOK`, `NeverStuckHalfway`, `ImplementsSwitch`, `NothingTypedIsLost`, `ArchivedBeforeReplaced` |

What they ask, and why the bounds are enough:

- *`registry`*: can a token of an old generation free, or an entry of any origin share, what another
  operation holds, while entries go through renewal, classification, inspection, takeover,
  attachment and execution, the handle beats, is quarantined, dropped or closed, and shutdown comes at
  any point? Two generations are what it takes for a token to be stale; three conflicting scopes for
  an entry to come in beside another; four checkouts make a chain inspect → confirm → take over with one
  stale checkout left over, or two renewals and two classifications that overlap; two revisions
  tell an old proof from a new one.
- *`supervisor_one_process`*: the handle and two ticks that pass each other on one entry. Four checkouts are two jobs
  that overlap, one that confirms the claim meanwhile and one that is refused, so that the evidence of an eligible entry
  can be recorded, taken and cleared in every order. The one step `EvidenceNotLost` admits does occur in the run.
- *`supervisor_takeover`*: the silence of the holder is confirmed while the
  holder still beats, closes, hangs or crashes. Two units of monotonic time with `CONFIRM = 1`
  are a confirmation that comes too early, in time and late. A run of thirteen thousand
  units would ask nothing more: the code subtracts two monotonic readings of one process and compares the
  difference with the interval.
- *`operation_slots`*: are the two registries and the ticker ever left apart? Two operations at once are
  what it takes for the second to come in while the first goes. Three ticker generations
  are a task, a stop and a second task, so an old loop is about while the new one runs.
- *`writable_admission`*: three grants are two in force and a dead one; two names of each kind, and a
  physical identity that changes, are what it takes for two requests to meet in one name only. Across windows the
  rest is a theorem.
- *`session_overlap`*: two calls cross at every await, with edits, undo, cancellation and lost answers. Three
  operations of a session are one that is cancelled, one that overtakes it and one that follows.
- *`session_consumers`*: two handles are a session with a consumer that stays and one that goes. What is typed and
  the second window are in the other runs and in the theorem `RuntimesUseAuthority`.
- *`editor_late`*, *`editor_decisions`*: two editors are a sequence with a next one; two decisions awaited at
  once are one that is late. A second session generation of an editor (a replaced session) is in
  `editor_decisions`, where the window may also be destroyed while a decision is in progress, and editors hidden and
  shown again with the save of their old form still out.
- *`formal_switch`*: two processes are one that continues, overtakes or cancels what the other has begun; two
  operations are one that finds the files as another has left them; two files are enough for a
  switch there and back. One trouble is a crash *or* an edit anywhere; failures of single steps are not
  bounded. Any number of processes, calls, files, operations and troubles is what the proofs are for.

The runs over `ManuscriptSession`, `OwnershipSupervisor` and `FormalSwitch` split one module's properties by the actors
they need, since all of them in one instance are beyond reach; each run's module has all its actions.

## Fairness and liveness

`OperationSlots` assumes weak fairness of each ticker
task and nothing else: tokio polls a spawned task that is ready, its timer fires after
the interval, a mutex held for a lock section is released, and a callback returns or panics.
Callers are free to stop anywhere, time need not make an
entry due, and shutdown need not come. Under this, `DueIsBeaten` says that a due entry is
beaten or goes, unless the runtime shuts down or the ticker has failed. The clock is abstracted to
whether an entry is due, with one assumption: no task spends a whole heartbeat cadence
between the check of its generation and the copy of the due entries (guard of
`Elapse`). `CallsWithLatestRevision` needs it: without it an old task and the
task of the next ticker generation copy one entry, and the second beat conflicts with the first.

`EditorLifecycle` assumes (`FairSpec`) that each save or discard that was asked for is answered, by success or by
failure, as long as the window is there (`Answered(t)`, one condition per token, so that no call is passed over for
another): the native side answers every command, and the controller runs what comes after its await. Nothing is
assumed of the user, who may leave any dialog open for good and type or close what he likes, nor of timers or of the
other steps, and nothing of a window that is gone. Under this, `DecisionsEnd` says that a decision once taken comes to an
end, or its window has gone. An open that waits for a decision has no such property, because the code does not promise
it (see below).

For the supervisor no fairness is assumed and no liveness is stated: `tick` and
`acquire_recovery_ownership` have no caller outside tests in this repository's state, so there is no
scheduling to derive a fairness condition from. A formal switch has no liveness either: an operation goes
on when a user asks for it. What a liveness property would protect is stated as safety where possible:
`InFlightIsWorkedOn` (nobody leaves an entry in flight), `CheckoutCustody` (there is
a token that can settle it), `EvidenceNotLost` (an eligible entry can be recovered, but for one step), `LeftBusyByThrowOnly`
(a session that refuses has somebody who will end it, but for one step), `PendingHasResolver` (a dialog whose buttons
are disabled has too), `NeverStuckHalfway` (where an operation nobody interfered with may be given up, and in which state).

## Findings

Two disagreements between the code and what its tests say, each a run that must be violated:

- **An overtaken save writes over a newer one** (`session_overtaken`, `src/services/sharedManuscriptSessionRuntime.ts:982`). A
  save captures its text, then awaits renew and revalidate, then writes with the baseline *of the moment*. Cancelled
  during those awaits, with a newer save completing in between, it passes the native revision check with the newer
  baseline and replaces the newer text by its own, while the session shows the newer text as saved. The token records
  the revision the draft was based on (line 305) and nothing reads it. The test
  `unifiedManuscriptFoundation.behavior.test.mjs:322` says "save captures one Raw snapshot while later edits remain dirty".
- **What is typed after an editor's turn goes with the window** (`editor_typing`,
  `src/services/sharedEditorLifecycleController.ts:412`). The close sequence lists the dirty sessions once; the
  application dialog leaves the editors enabled, and the sequence does not look again. The test
  `SharedAppLifecycleHost.behavior.test.mjs:118` says the close "exits once after full settlement".

Divergences that the models contain and no run is devoted to (the number of runs is kept small); each can be seen by
following the actions named:

- *A proof is checked out twice* (`runtime/slot.rs:599`, comment at 140): a handle heartbeat of unknown outcome, begun
  before the first tick's checkout, lets a second tick classify the entry back to live with a new proof of the same
  revision. The compare-and-swap of the claim row lets only one of the two commit, which is what `ImplementsLease` and
  `OutcomeIsFinal` rest on; that a proof in a slot has the present revision of its row, as the comment has it, is true only
  where ticks do not overlap, and nothing in the code keeps them apart.
- *A late tick strands an eligible entry* (`ownership_supervisor.rs:1189`): `complete_quarantined` clears candidate and
  eligibility of its claim even if its own checkout was stale. An entry another tick has made eligible after a shutdown is
  then left without the evidence a takeover needs until a restart. `EvidenceNotLost` excepts exactly this step (`EndsStale`).
- *A dropped handle may leave its entry live* (`runtime/slot.rs:637`): `drop` uses `try_lock` and acts on `Live` and
  `Exiting` only. With the lock contended or the entry in flight the entry is renewed for ever although nobody works
  on the operation.
- *An operation is registered with a ticker that has failed* (`heartbeat_scheduler.rs:227`): `register` asks the ticker
  only when there are no entries, and the panic leaves the entry whose callback panicked.
- *Overlapping closes of one handle* (`sharedManuscriptSessionRuntime.ts:1182`) both release the native reference; *edits
  taken while a close that found the session clean awaits its answer* (line 1306), or text that becomes unsaved because an
  overlapping save completes meanwhile, go with the session (the ghost field `late` marks them); *a session that an open
  replaced under its key* (lines 591 and 838 set the key whatever the map holds by then) takes the key with it when its own close
  or failed load comes back (`sessions.delete` at 1196, 606 and 855): the map then loses the newer session.
  `UnsavedTextSurvives` excepts exactly these: the second by `late`, the third by `BySuperseded`. The proof found both the
  completing save and the replaced session, which the run's bound of one session does not reach. With overlapping closes, or
  the late close of a session that was replaced, the references of a window and its handles no longer agree; so nothing is
  claimed of their numbers, only what the authority keeps whatever a window does (`AuthoritySpec`).
- *A save whose lookup of the owner throws leaves the session busy* (`sharedManuscriptSessionRuntime.ts:957`): nothing
  catches it, and every later operation of the session is refused as retryable. `LeftBusyByThrowOnly` says that this is
  the only way.
- *A failed look at the database blocks an operation for good* (`formal_switch_execution/mod.rs:793`, 862 and 1394,
  `bridge.rs:2424`): at `db_pending` a read, begin or commit of the classification that fails counts as a state that cannot be
  verified, and the operation is blocked, before or after its commit, although nothing is wrong with it. Everywhere else a
  failed access ends the command and the operation can be continued. `NeverStuckHalfway` says that this is the only such
  place, and that fields and transaction are whole there.
- *An open that waits for a decision may wait for ever* (`useExperimentManuscriptEditor.ts:1192`): its promise is settled by
  the decision only, not when the request is cancelled, withdrawn or refused.
- *A formal switch that changed hands at the wrong moment*: containment at `db_pending` is refused by the matrix, which
  allows it only with the database outcome `UNKNOWN`, while `bridge.rs:2438` passes on `NOT_APPLIED`, so the operation
  stays `db_pending`; the target gate runs again at `db_pending` *after* the commit, and a target edited in between blocks an
  operation that has committed; an edit of the owner after the commit makes the operation unresolvable while its
  slot stays taken; a key left in `locallyActivatedSessions` when its session is closed makes later continuations in
  that window fail until a restart; for owners other than reviews, fields edited between the window's read and
  begin are archived nowhere (`ArchivedBeforeReplaced` says where the line is).

## Proofs

Liveness under fairness is beyond the proof system and stays with TLC, as do the properties listed at the end of this
section. Everything below holds for every value of the constants that the named assumptions admit.

### `SlotRegistryProofs`

From `RegistryAssumption` (own claims are claims, every claim has a resource, bounds are naturals):

| theorem | statement |
| --- | --- |
| `TypeCorrect` | `Spec => []TypeOK` |
| `ResourcesExcluded` | `Spec => []GateExclusion` |
| `ProofsSealed` | `Spec => []ProofSealed` |
| `GateImplemented` | `Spec => ImplementsGate` (the coordinator refines `ResourceGate`) |

None of the four is inductive alone. The invariant is `IInv == SlotsOK /\ TokensOK`.
`SlotsOK`: every entry is well formed and its proof, if any, is of its own claim and
generation and of a claim of this process; no generation is above `nextGen` or in two
slots; conflicting slots are not both occupied. `TokensOK`: the tokens are typed and
a checkout carries a proof sealed to *its* claim and generation, needed because
`restore` puts that proof back. That no generation is in two slots is needed for the release by operation, which
searches all slots: it frees at most one, hence is a `GiveBack` of the gate or a stutter.

Every action, about thirty of them, does one of five things to the slots
(`SlotChange`): nothing, `Takes(r)` (a new generation in a conflict-free slot),
`Keeps(r)` (another entry of the same generation), `Frees(r)`, `Drains` (shutdown).
One lemma per action says which; `SlotChangeKeeps` shows that the five keep
`SlotsOK`, and the refinement follows from the same five. `SlotEntryProofs` holds the
lemmas on the updates of one entry.

The same module has the three properties that are about *who* acts on an entry:

| theorem | statement |
| --- | --- |
| `EveryFlightInCustody` | `Spec => []CheckoutCustody` |
| `ShutdownMarksClaimed` | `Spec => []ShutdownAbandonsClaimed` |
| `GoesWithItsHolder` | `Spec => FreedByItsHolder` |

`SlotChange` forgets the tokens; `Course` says the same of the steps with them: nothing; an entry stays, settled
(`StaysAt`); a new one comes in (`EntersAt`); a pending one is claimed and marked if shutdown came first (`PromotedAt`);
an entry goes together with a token of its generation (`LeavesAt`); shutdown. Only `Checkout` puts an entry in flight, so
it is the one step that is not a `Course`. The invariant adds `Custody` to `IInv`: an entry in flight has no proof and a
checkout that matches it, and no checkout number is above `nextCheckout` or given twice, which is why the matching
checkout is the only one. A step that consumes a checkout takes its entry out of flight or finds that it is
not the checkout of the entry (`ReturnCourse`), so it is nobody else's custody that ends.

### `OwnershipSupervisorProofs`

From `SupervisorAssumption` and `AbsentAssumption` (the value for "no row" is not a row, a candidate or evidence):

| theorem | statement |
| --- | --- |
| `TypeCorrect` | `Spec => []TypeOK` |
| `LeaseImplemented` | `Spec => ImplementsLease` (the supervisor refines `ClaimLease`) |
| `RecoveryDurable` | `Spec => []RecoveryIsDurable` |
| `OutcomesFinal` | `Spec => OutcomeIsFinal` |
| `WorkedOn` | `Spec => []InFlightIsWorkedOn` |
| `EvidenceKept` | `Spec => EvidenceNotLost` |

All of them hold for any processes *and any threads in each*, where the runs have two processes with a thread each or one
process with two. What a process remembers of the database may be outdated: between the read of a row and its use any other
process may beat, close or take over. So the invariant `IInv` never says that a remembered revision *is* the present one. It uses
only facts that no transaction undoes (`Onward`): the claim was in use (`Used`), it was at that revision or has left the table
(`Past`), it is of this process or has left the table (`OwnedBy`). About time it says, of a candidate and of evidence,
"if the row is *still* at the revision that was seen, then the last beat is no later than the clock's start, or at least `CONFIRM`
ago" (`CandOK`, `EvidOK`): that is the argument why a holder that beats is never taken over, and it needs no assumption on
wall clocks. `CustodyOK` says that an entry in flight has a thread whose checkout matches. The steps fall into three kinds: those of
the database (`DurableStep`, whose transactions are a beat, an exit, a grant or nothing), those of a thread by itself (`Do`) and those of
a process's handle; a lemma per kind carries everybody else's knowledge across, and a lemma per action looks at what is newly
remembered.

`EvidenceKept` needs nothing more than `IInv`. An entry is stranded by a step that makes it eligible without evidence or one
that takes the evidence away. For each job on an entry there is a lemma (`EligibleKeptBy...`) that says of its steps: they leave the
evidence alone and make nothing eligible; or the evidence goes with the entry, whose checkout the job has; or it moves from
the supervisor's state into the hands of the job (`Carries`) and back, so that somebody has it all the time; or the job clears it
and its checkout does not match (`EndsStale`). `EligibleWorker` and `EligibleThread` say once that each of the four is enough.

### `OperationSlotsProofs`

From `SlotsAssumption` (every operation has a resource, bounds are naturals, no entry is not an entry):

| theorem | statement |
| --- | --- |
| `TypeCorrect` | `Spec => []TypeOK` |
| `BeatsKeepTheirSlots` | `Spec => []BeatHasItsSlot` |
| `RegistriesStayTogether` | `Spec => []ClaimedHasItsBeat` |
| `TickerServesEntries` | `Spec => []BeatsHaveATask` |
| `RevisionsUpToDate` | `Spec => []CallsWithLatestRevision` |
| `RegistryImplemented` | `Spec => ImplementsRegistry` |
| `ShutdownSettlesNothing` | `Spec => LateAnswersIgnored` |

The invariant is `IInv == Types /\ Owners /\ TickerAlive /\ Paired /\ UpToDate /\ History`. `Types` adds to `TypeOK` that the generation
of a running ticker has a task and that a running callback has an entry. `Owners` says whose an entry is: its operation is
in its handle, completing or gone, and the slot is its own; an operation between promotion and heartbeat
holds its slot; and what a tick has removed is *past*: its generation has had its entry and gets
no other. The last is what makes the sweep safe. `TickerAlive` ties the running flag to a live task of that
generation. `Paired` is the converse of `Owners`: an occupied slot is its operation's,
shutdown leaves no claimed slot unmarked, and only a tick under way or
lost in a panic has removed entries. Each part is shown with one step per action; `OwnersGo`, `PairedGo`,
`PairedTurn` say once what the harmless actions have in common.

`UpToDate` is about the copies of entries that tasks have taken and not yet answered for. A copy that still counts is with the
task of the ticker's present generation and has its entry's revision; a task copies an entry once; whoever a copy is of has had
its heartbeat (so a new entry is no old copy's); and a task of an earlier generation that already passed its check finds nothing
due. The last is the one that rests on time (`Elapse`): such a task exists only after the registry was empty, and what was
registered since is not due yet. `HandledStep`, `ChangedStep` and `GenerationStep` say what any step does to a task's copies, to an
entry and to the ticker's generation; the invariant follows from these three without another look at the actions.

`History` is what the refinement needs: an operation has no claim before its promotion, its heartbeat's slot is swept only after
it had one, each entry a tick removed is in that tick's report alone and not swept yet, and shutdown abandons the slots once.
`RegistryStep` then takes each action to one of the registry: an acquisition, promotion, release, or sweep spends or makes exactly
one token (`TokensOfOne`), `AbandonSlots` is `BeginShutdown` because no slot here belongs to a runtime, everything else is a
stutter. With the theorems of `SlotRegistryProofs` this puts the gate (`ImplementsGate`) over the threads modelled here.

### `WritableAdmissionProofs` and `ManuscriptSessionProofs`

From `GrantBounds` and `SessionBounds`:

| theorem | statement |
| --- | --- |
| `WritableAdmissionProofs!TypeCorrect` | `Spec => []TypeOK` |
| `WritersExcluded` | `Spec => []OneWriterPerFile` |
| `DeadStayDead` | `Spec => ProofsStayDead` |
| `RuntimesUseAuthority` | `ManuscriptSession!Spec => AuthoritySpec` |
| `OneWriterAcrossWindows` | no two grants cover the file or one session, in any state of the session runtimes |
| `ManuscriptSessionProofs!TypeCorrect` | `Spec => []TypeOK` |
| `DraftsMarked` | `Spec => []DirtyIsTrue` |
| `WritesOverRead` | `Spec => WriteReplacesBaseline` |
| `UnsavedKept` | `Spec => UnsavedTextSurvives` |
| `BusyWhileAtWork` | `Spec => LeftBusyByThrowOnly` |

The authority's invariant adds to exclusion that no grant has a proof that is still to be issued; without that a new
grant could revive a dead proof. The runtimes are a client: `RuntimeInv == CallsOK /\ FileOK /\ Proved!AuthorityInv`,
where `CallsOK` says that a call which asks for admission names a window and a key there are. Every step of the
runtimes, about forty of them, is a step of the authority or leaves its variables alone, and so the authority's theorem
becomes a theorem about all windows together, which no run of TLC covers (the session runs have one window).

About the sessions themselves there are two invariants. `SessionInv` gives sessions, handles, map and calls their types and
rests on an order of the file's revisions (`Upto`): the file only moves on, every session is based on a revision the file has had
(`SessionGood`), and what a call brings to its session, the answer of a read or a write, is no older than the
session's baseline *as long as the call's token is the session's* (`Knows`, `Brings`). So an answer that comes late is either
newer or ignored. Two calls never have the same token of one session (`TokensOK`). That a session that is busy has a call with
its token that is still on its way (`BusyOK`) is not invariant, because of the lookup that throws; so every lemma shows beside
`SessionInv'` that its step keeps `BusyOK` of each session or is that throw (`BusyStays`), which is the theorem
`BusyWhileAtWork`. From the rest
`WritesOverRead` follows although a cancelled save sends the *present* baseline: where the write finds the file as that baseline,
file and baseline are each no older than the other.

`TidyInv` is the argument about unsaved text. Of each step of each call it says what the call has established about its session
(`Tidy`): a sweep, a release or the lookup of a reload found it clean or goes by the decision to discard, a read in progress
for a current token found it clean, what a save brings back is the text it captured. `Clean` means not dirty, or dirty only since
somebody else changed the session behind the call (`late`). A change that keeps every session this way (`Eases`) carries the
knowledge of all other calls along (`UnmovedTidy`); a lemma per action then shows that the session changes so, that
the call that moved knows what its next step needs, and that no unsaved text vanished (`Spares`). While a call drains (a close
whose next step runs in the same turn) nothing else of its window runs, which is why a close that has just saved may leave.
All of it holds for any number of windows, keys, consumers and calls. The only assumption on the bounds is that there is a text and a
handle.

### `EditorLifecycleProofs`

From `LifecycleBounds` (editors are positive numbers, uses are the four there are, bounds are naturals):

| theorem | statement |
| --- | --- |
| `TypeCorrect` | `Spec => []TypeOK` |
| `WindowSettled` | `Spec => []ExitSettles` |
| `PermitTimed` | `Spec => []PermitHasTimer` |
| `SequenceAsking` | `Spec => []SequenceAsks` |
| `PendingResolved` | `Spec => []PendingHasResolver` |

For any number of editors and of decisions awaited at once. The invariant ties the four records of the controller to each other:
a sequence has its request and a request of a sequence its sequence (`RequestOK`, `ExitOK`), a call that bears the request's
token was made for it (`CallsOK`), and `ShellOK` says what the close of the window rests on: until the last dirty session is asked
for, every editor that is dirty and was so at the close is the one asked or still listed; once the timer is armed whatever is dirty was edited after
its turn; a permit has its timer. That tokens can be told apart is a lemma of its own (`FreshToken`): there are at most `MaxWorks`
calls, a request and a sequence, so one of `MaxWorks + 3` numbers is remembered by nobody. The rest are lemmas about `Advance`,
`Settled` and `Resolved` for *any* drafts no dirtier than the present ones (`Shrunk`), because a save that comes back changes the drafts
and goes on with the sequence in one step.

### `FormalSwitchProofs`

From `HomeIsProcess` (every call is a call of a process), `BoundsAreNat` (the bounds are naturals) and `NoneIsNoValue`
(no archive is not a value):

| theorem | statement |
| --- | --- |
| `TypeCorrect` | `Spec => []TypeOK` |
| `SwitchImplemented` | `Spec => ImplementsSwitch` (the switch refines `OwnerSwitch`) |
| `StuckOnlyWhole` | `Spec => NeverStuckHalfway` |
| `TypedTextStays` | `Spec => NothingTypedIsLost` |
| `FieldsArchived` | `Spec => ArchivedBeforeReplaced` |

They hold for any number of processes, calls per window, files, operations, crashes and changes from outside, where the
run has two of each at most and one trouble; all five properties of the run are proved. The invariant is
`SwitchInv == DataOK /\ CallsOK /\ CommandsOK /\ OperationsOK /\ StagesOK`. The first three are types and who waits for
whom: a command under way answers a call that waits for it. `OperationsOK` says what the phase of an operation vouches
for, in three parts: `FrozenOK` (what was frozen, and that an old file whose revision has not moved still has the frozen
text), `OrderOK` (which phases imply that the settlement or the commit has happened and conversely, and that a settlement
is *over*: the old file cannot be found again as it was before, so it is not written twice), `ClearOK` (for an operation
nobody interfered with, files and owner are still such that every later gate lets it pass); and that one operation at a time
is in the slot. `StagesOK` is the other half: of every command under way it says how far its operation is *at least*
(`Reached`, `Passed`). That is what makes overtaking harmless: another process may have driven, blocked or cancelled the
operation in the meantime, so what a command has seen is a lower bound and never the state itself.

The steps change the durable data in six ways, each a lemma: a phase advances (`Advanced`), the archive is written
(`Settled`), the transaction commits (`CommittedNow`), a file or the owner changes otherwise (`FileChanged`,
`OwnerChanged`), an operation is prepared (`Prepared`). Each keeps `OperationsOK` and moves every operation forward only
(`Moves`), and `StageStays` carries the knowledge of every other command across any such move, so that a lemma per
action (`Keeps...`) has to look at its own command only. The refinement needs no more than the same invariant: of the
abstract actions, `Settle` and `Commit` need that the operation is still in the slot and its effect not taken yet, which
`Settled` and `CommittedNow` say.

### Only model-checked

The two liveness properties, `DueIsBeaten` of `OperationSlots` and `DecisionsEnd` of `EditorLifecycle`: they rest on fairness, of
which the proof system has no account for actions with data. Every invariant, action property and refinement that a passing run
checks is proved.

## What is abstracted

*Provisioning runtime.*

- The repository's UTC clock may be set at any time. Comparisons of a sample with a
  lease may therefore come out either way in the model, and `ImplementsLease` rests on the
  monotonic interval and the revisions alone, as the code intends.
- The revision of a claim stands for its heartbeat time too, and an abandonment
  fingerprint for the claim row and the attempt's status: each heartbeat writes both.
- A renewal may be tried at any time: the throttle `last_renew_attempt_at` is dropped. A refused checkout burns a
  number in the code; numbers are only compared, so this is not modelled.
- Reading a claim back and building a proof of it is one step with installing the
  proof where nothing else reads in between (`HeartbeatFinish`, `RenewFinish`).
- Window subscriptions, the cancellation flag, intents, phases and times kept for display
  are left out of the entries: the coordinator never decides by them. `detach_caller`, the failure counts of the scheduler
  and the checks that refuse an acquisition without an effect are left out of `OperationSlots`, whose `claim` has no
  caller outside tests yet.
- A panic takes the report of its tick with it, so slots whose entries that tick had removed stay
  claimed (`lifecycle.rs:254`): `ClaimedHasItsBeat` excuses those and nothing else. `DueIsBeaten` excuses a
  failed ticker.

*Manuscript sessions.*

- One file; the sessions of several keys and windows are all about it. The physical identity changes with every
  replacement; another program's atomic replacement changes it too, so a renewal then fails until the file is closed
  and opened again.
- Display statuses, the request index, `draftVersion` (a text's number is unique) and the refusal of an open whose binding does not
  match its target (no state changes) are left out. `closeCleanSessions` and `transitionToReadOnlySessions` take a
  predicate; it matches any one session.
- A reload that needs no revalidation is one whose lookup has already answered. Destroying a window detaches its grants in the
  native process; the window-side `detachWindow` has no caller in `src/`.
- An admission served after its window was destroyed is not modelled.
- In `EditorLifecycle` the epoch of an editor is merged with its registration, `operationLock` changes at any time, a
  session closes exactly when it is clean, tokens are used again once nobody remembers them. `cancelActiveRequest` has
  no caller. The editor's projection of segments and templates and its footer actions are left out.

*Formal switch.*

- A phase is never entered twice, so it stands for the phase revision as well. A text is a body and an archive; digests
  are compared as the things they are digests of; `rest` stands for all other state of the owner that a digest covers.
- The compare and the replacement of a file happen under the lock of its path, in one step; a program that does not take
  that lock and writes inside it is not modelled. Begin's reads and its insert are one step, as are the listing of
  unresolved operations and the command sent for one of them.
- `attempted_operations`, `fresh_operations` and `targetCleanupAttempts` are not variables: only the call that prepared an
  operation asks, once, for its clean-up; a second confirm with the same token finds its operation taken with another
  payload and is refused.
- Outcome fields of an operation are functions of the path it took and are dropped. Other writers of an owner's current
  file name are not modelled.

## Not modelled

| part | why, and what its properties would be |
| --- | --- |
| save-as (`db/manuscript_save_as_*`, five files) | three durable rows with a step each, custody of a candidate file, and a *candidate binding* that a session carries from `createSaveAs` to its activation, which `ManuscriptSession` has not. It needs the session module extended by a second file before the operation can be stated faithfully. Properties: a candidate file belongs to at most one operation; the source keeps its binding until the candidate is durable; after a crash an operation resumes from the recorded step or is abandoned with its candidate released |
| open protocol of independent windows | sits on top of the sessions of two windows. Reading it shows what a model would look at: overlapping opens share a handle, so the clean-up of a stale open closes the newer session; `pendingCleanup` is overwritten and `retryCleanup` has no caller; the old session is closed before the new registration is confirmed |
| plans, step progress, attempt chains, audit outbox; review recovery, shared executor steps | the execution of a step is physical work over files and rows with its own evidence; it would be a module of the size of the supervisor. Property: each planned effect is done at most once across attempts, an unknown one never repeated |
| startup scan, audit delivery, activation | the scan is started once by `core.rs:372`; the delivery retries an outbox that is not in the model |
| AI conversations (`db/ai_durable_foundation.rs`, `commands/ai*.rs`) | independent of the rest; one attempt settled by compare-and-swap of its row |
| older recoveries of experiment and run switches | superseded by the canonical switch for reference owners, which is modelled |
| experiment runs, reviews, planning, import and export, schema, user interface | single transactions, data mapping, presentation: little that interleaves |

The map names a small part of the repository's lines, for most of these are user interface, translations, schema
and single-transaction commands. The parts chosen are those in which several actors share state.

## Plan

Done: who owns what and who beats for it; who may act on the claim; who may write a file, and what sessions do with
that; how editors and windows end; the formal switch. In the order of what they would add:

1. `OperationAttempt` and `RecoveryExecution`: step progress, chained attempts and the outbox, composed with the
   executions of `SlotRegistry`.
2. `SaveAs`, with a second file and candidate bindings in `ManuscriptSession`.
3. `OpenProtocol` over two windows of `ManuscriptSession`.
4. A module for the editors as callers of the session runtime, which close a handle once: with it the numbers of
   handles and references could be compared again.
