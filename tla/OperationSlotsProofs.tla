------------------------ MODULE OperationSlotsProofs ------------------------
(***************************************************************************)
(* The registries and threads of OperationSlots keep their types, no       *)
(* heartbeat outlives its slot and no claimed slot stays without one,      *)
(* entries always have a ticker task, callbacks get the latest revision,   *)
(* late answers settle nothing, and all of it refines the slot registry,   *)
(* for any resources, operations and bounds.                               *)
(***************************************************************************)
EXTENDS OperationSlots, SlotEntryProofs

Gens  == 1..MaxGeneration
Tasks == 1..MaxTicker

\* The types, with what a ticker generation and a running callback are bounded by.
Types ==
  /\ TypeOK
  /\ \A r \in Resource : ~Owned(slot[r])
  /\ ticker.running => ticker.gen \in Tasks
  /\ \A i \in Tasks : In(i, "call") => task[i].cur \in Copy

\* The slot of c's resource is claimed by c in generation g.
Backed(c, g) ==
  LET e == slot[ResourceOf[c]] IN e.stage = "claimed" /\ e.claim = c /\ e.gen = g

\* Where an operation is after its promotion and before its heartbeat, while it may
\* have one, and once it has had one.
Claiming == {"promoted", "registering", "refused", "undoing"}
Beating  == {"handle", "completing", "gone"}
Past     == Beating \cup {"unregistered", "released"}

FreshGenerations == \A g \in Gens : g > nextGen => op[g].pc = "none"

ClaimingHolds ==
  \A g \in Gens : op[g].pc \in Claiming => op[g].claim \in Claim /\ Backed(op[g].claim, g)

BeatsOwned ==
  \A c \in Claim :
    beat[c] # Absent =>
      /\ op[beat[c].gen].pc \in Beating /\ op[beat[c].gen].claim = c
      /\ Backed(c, beat[c].gen)

\* What a tick has removed is not back and will not be.
RemovedIsPast ==
  \A i \in Tasks : \A b \in task[i].removed :
    /\ op[b.gen].pc \in Past
    /\ \A c \in Claim : beat[c] # Absent => beat[c].gen # b.gen

Owners == FreshGenerations /\ ClaimingHolds /\ BeatsOwned /\ RemovedIsPast

\* A running ticker has its task.
Alive == {"wait", "checked", "loop", "call", "sweep"}

TickerAlive ==
  /\ ticker.running => task[ticker.gen].pc \in Alive
  /\ stopping \in {"beats", "done"} => beatsClosed
  /\ ~NoEntries(beat) /\ ~beatsClosed /\ ~ticker.failed => ticker.running

\* Whose an occupied slot is.
SlotsKnown ==
  \A r \in Resource :
    Occupied(slot[r]) =>
      /\ slot[r].gen \in Gens
      /\ op[slot[r].gen].pc # "none" /\ op[slot[r].gen].res = r
      /\ slot[r].stage = "claimed" =>
           /\ slot[r].claim \in Claim
           /\ op[slot[r].gen].claim = slot[r].claim /\ ResourceOf[slot[r].claim] = r

\* Shutdown leaves no claimed slot that is not abandoned.
Drained ==
  slotsClosed => \A r \in Resource : slot[r].stage = "claimed" => slot[r].abandoned

\* Only a tick under way, or lost in a panic, has removed entries.
Resting ==
  /\ \A i \in Tasks : task[i].pc \in {"none", "wait", "checked"} => task[i].removed = {}
  /\ \A i \in Tasks : i > ticker.gen => task[i].pc = "none"

Paired == SlotsKnown /\ Drained /\ Resting /\ ClaimedHasItsBeat

\* The copies a task has yet to answer for, and that they are of different entries.
Held(t) == t.todo \cup (IF t.pc = "call" THEN {t.cur} ELSE {})

Distinct(t) ==
  /\ \A e, f \in t.todo : e.claim = f.claim => e = f
  /\ t.pc = "call" => \A e \in t.todo : e.claim # t.cur.claim

CopiesDistinct == \A i \in Tasks : Distinct(task[i])

CopiesPast == \A i \in Tasks : \A e \in Held(task[i]) : op[e.gen].pc \in Past

\* Only the ticker's present task has copies that still count, and they are up to date.
CopiesLatest ==
  \A i \in Tasks : \A e \in Held(task[i]) :
    Current(e) => i = ticker.gen /\ beat[e.claim].rev = e.rev

\* A task of another generation that is about to copy finds nothing due.
NothingDue ==
  ~beatsClosed =>
    \A i \in Tasks : In(i, "checked") /\ i # ticker.gen =>
      \A c \in Claim : beat[c] # Absent => ~beat[c].due

UpToDate == CopiesDistinct /\ CopiesPast /\ CopiesLatest /\ NothingDue

\* An operation without a claim yet.
Early == {"none", "guard", "claiming"}

\* What is known of an operation by where it is.
OpShape(o) ==
  /\ o.pc \in Early => o.claim = NoClaim
  /\ o.pc # "none" => o.res \in Resource
  /\ o.pc \notin Past => ~o.swept

OpHistory ==
  /\ \A r \in Resource : slot[r].kind = "mutation"
  /\ stopping = "no" => ~slotsClosed
  /\ \A g \in Gens : OpShape(op[g])

\* What a tick has removed is still to be swept, by that tick alone.
SweptOnce ==
  /\ \A c \in Claim : beat[c] # Absent => ~op[beat[c].gen].swept
  /\ \A i \in Tasks : \A b \in task[i].removed : ~op[b.gen].swept /\ op[b.gen].claim = b.claim
  /\ \A i, j \in Tasks : i # j => task[i].removed \cap task[j].removed = {}

History == OpHistory /\ SweptOnce

IInv == Types /\ Owners /\ TickerAlive /\ Paired /\ UpToDate /\ History

OpRecord ==
  [pc : OpPc, res : Resource \cup {Absent}, claim : Claim \cup {NoClaim}, swept : BOOLEAN]

TaskRecord ==
  [pc : {"none", "wait", "checked", "loop", "call", "sweep", "ended"},
   todo : SUBSET Copy, cur : Copy \cup {NoBeat},
   removed : SUBSET [claim : Claim, gen : Gens]]

----------------------------------------------------------------------------

\* The bounds are naturals and every operation has a resource.
LEMMA Constants ==
  /\ MaxGeneration \in Nat /\ MaxTicker \in Nat /\ MaxRevision \in Nat
  /\ \A c \in Claim : ResourceOf[c] \in Resource
BY SlotsAssumption

\* A step of an operation along its program changes nothing else of any operation.
LEMMA Going ==
  ASSUME op \in [Gens -> OpRecord], NEW g \in Gens, NEW q \in OpPc, Go(g, q)
  PROVE  /\ op' \in [Gens -> OpRecord]
         /\ \A h \in Gens : /\ op'[h].pc = IF h = g THEN q ELSE op[h].pc
                            /\ op'[h].claim = op[h].claim /\ op'[h].res = op[h].res
BY DEF Go, OpRecord

\* Likewise a step of a task.
LEMMA Turning ==
  ASSUME task \in [Tasks -> TaskRecord], NEW i \in Tasks,
         NEW q \in {"none", "wait", "checked", "loop", "call", "sweep", "ended"}, To(i, q)
  PROVE  /\ task' \in [Tasks -> TaskRecord]
         /\ \A j \in Tasks : /\ task'[j].pc = IF j = i THEN q ELSE task[j].pc
                             /\ task'[j].removed = task[j].removed
                             /\ task'[j].cur = task[j].cur
BY DEF To, TaskRecord

\* A task is replaced by another.
LEMMA Replacing ==
  ASSUME task \in [Tasks -> TaskRecord], NEW i \in Tasks, NEW t \in TaskRecord,
         task' = [task EXCEPT ![i] = t]
  PROVE  /\ task' \in [Tasks -> TaskRecord]
         /\ \A j \in Tasks : task'[j] = IF j = i THEN t ELSE task[j]
OBVIOUS

\* A new task, and an ended one.
LEMMA BlankTasks ==
  \A q \in {"wait", "ended"} :
    LET t == [NoTask EXCEPT !.pc = q] IN t \in TaskRecord /\ t.pc = q /\ t.removed = {}
BY DEF NoTask, TaskRecord

----------------------------------------------------------------------------
(***************************************************************************)
(* Types.                                                                  *)
(***************************************************************************)

SlotTypes == slot \in [Resource -> Entry] /\ \A r \in Resource : WellFormed(slot[r]) /\ ~Owned(slot[r])

\* Types, sorted by what they are about.
TypeParts ==
  /\ SlotTypes
  /\ nextGen \in 0..MaxGeneration /\ slotsClosed \in BOOLEAN
  /\ op \in [Gens -> OpRecord]
  /\ beat \in [Claim -> Beat \cup {Absent}] /\ beatsClosed \in BOOLEAN
  /\ ticker \in [running : BOOLEAN, failed : BOOLEAN, gen : 0..MaxTicker + 1]
  /\ task \in [Tasks -> TaskRecord]
  /\ stopping \in {"no", "slots", "beats", "done"}
  /\ ticker.running => ticker.gen \in Tasks
  /\ \A i \in Tasks : In(i, "call") => task[i].cur \in Copy

\* The two forms of the types say the same, before and after a step.
LEMMA TypesParts == (Types <=> TypeParts) /\ (Types' <=> TypeParts')
<1>1. Types <=> TypeParts
  BY DEF Types, TypeOK, TypeParts, SlotTypes, WellFormed, OpRecord, TaskRecord, Gens, Tasks
<1>2. Types' <=> TypeParts'
  BY DEF Types, TypeOK, TypeParts, SlotTypes, WellFormed, OpRecord, TaskRecord, Gens, Tasks
<1> QED
  BY <1>1, <1>2

\* A vacant slot is not owned by a runtime.
LEMMA VacantIsFree == WellFormed(Vacant) /\ ~Owned(Vacant) /\ ~Occupied(Vacant) /\ Vacant.gen = 0
BY VacantEntry DEF Vacant, Owned

\* One slot is replaced by a good entry.
LEMMA SlotReplaced ==
  ASSUME SlotTypes, NEW r \in Resource, NEW e, WellFormed(e), ~Owned(e),
         slot' = [slot EXCEPT ![r] = e]
  PROVE  SlotTypes' /\ \A s \in Resource : slot'[s] = IF s = r THEN e ELSE slot[s]
<1>1. e \in Entry
  BY DEF WellFormed
<1>2. slot' \in [Resource -> Entry]
  BY <1>1 DEF SlotTypes
<1>3. \A s \in Resource : slot'[s] = IF s = r THEN e ELSE slot[s]
  BY DEF SlotTypes
<1> QED
  BY <1>2, <1>3 DEF SlotTypes

\* What a release does to the slots.
LEMMA SlotReleased ==
  ASSUME SlotTypes, NEW g \in Gens, ReleaseSlot(g)
  PROVE  /\ SlotTypes'
         /\ \A s \in Resource : slot'[s] = slot[s] \/ (slot[s].gen = g /\ slot'[s] = Vacant)
<1>1. CASE slot' = slot
  BY <1>1 DEF SlotTypes
<1>2. CASE slot[op[g].res].gen = g /\ slot' = [slot EXCEPT ![op[g].res] = Vacant]
           /\ op[g].res \in Resource
  <2> DEFINE r == op[g].res
  <2>1. r \in Resource /\ slot[r].gen = g /\ slot' = [slot EXCEPT ![r] = Vacant]
    BY <1>2
  <2> HIDE DEF r
  <2> QED
    BY <2>1, SlotReplaced, VacantIsFree
<1>3. CASE slot' = [slot EXCEPT ![op[g].res] = Vacant] /\ op[g].res \notin Resource
  <2>1. slot' = slot
    BY <1>3 DEF SlotTypes
  <2> QED
    BY <1>1, <2>1
<1> QED
  BY <1>1, <1>2, <1>3 DEF ReleaseSlot

\* A pending entry becomes a claimed one, a claimed one abandoned.
LEMMA ClaimedEntryFields ==
  ASSUME NEW e, WellFormed(e), e.stage = "pending", NEW c \in Claim, NEW b \in BOOLEAN
  PROVE  LET f == ClaimedEntry(e, c, b)
         IN  WellFormed(f) /\ f.stage = "claimed" /\ f.claim = c /\ f.gen = e.gen
<1> DEFINE f == ClaimedEntry(e, c, b)
<1>1. WellFormed(f) /\ f.gen = e.gen
  BY ClaimedEntryShape
<1>2. e \in Entry
  BY DEF WellFormed
<1>3. f.stage = "claimed" /\ f.claim = c
  BY <1>2 DEF ClaimedEntry, Entry
<1> QED
  BY <1>1, <1>3

\* An entry that shutdown marks is still the claimed entry that it was.
LEMMA AbandonedEntry ==
  ASSUME NEW e, WellFormed(e), e.stage = "claimed"
  PROVE  LET f == [e EXCEPT !.abandoned = TRUE]
         IN  WellFormed(f) /\ f.stage = "claimed" /\ f.claim = e.claim /\ f.gen = e.gen
<1> DEFINE f == [e EXCEPT !.abandoned = TRUE]
<1>1. e \in Entry
  BY DEF WellFormed
<1>2. f \in Entry
  BY <1>1, Zenon DEF Entry
<1>3. /\ f.stage = e.stage /\ f.gen = e.gen /\ f.claim = e.claim /\ f.rt = e.rt
      /\ f.abandoned = TRUE /\ f.lc = e.lc /\ f.ck = e.ck /\ f.prev = e.prev
      /\ f.qalr = e.qalr /\ f.proof = e.proof
  BY <1>1 DEF Entry
<1> HIDE DEF f
<1>4. StageShape(f)
  BY <1>1, <1>3 DEF WellFormed, StageShape, Occupied, Owned
<1> QED
  BY <1>2, <1>3, <1>4 DEF f, WellFormed

\* What a step changes in one entry of the scheduler is a heartbeat or its absence.
LEMMA BeatReplaced ==
  ASSUME beat \in [Claim -> Beat \cup {Absent}], NEW c, NEW b \in Beat \cup {Absent},
         beat' = [beat EXCEPT ![c] = b]
  PROVE  /\ beat' \in [Claim -> Beat \cup {Absent}]
         /\ \A d \in Claim : beat'[d] = IF d = c THEN b ELSE beat[d]
OBVIOUS

\* Starting and stopping the ticker.
LEMMA StoppedTicker ==
  ASSUME ticker \in [running : BOOLEAN, failed : BOOLEAN, gen : 0..MaxTicker + 1],
         ticker.running => ticker.gen \in Tasks
  PROVE  /\ Stopped \in [running : BOOLEAN, failed : BOOLEAN, gen : 0..MaxTicker + 1]
         /\ ~Stopped.running /\ Stopped.failed = ticker.failed /\ Stopped.gen >= ticker.gen
<1>1. CASE ~ticker.running
  BY <1>1 DEF Stopped
<1>2. CASE ticker.running
  <2>1. ticker.gen \in 0..MaxTicker + 1 /\ ticker.gen + 1 \in 0..MaxTicker + 1
        /\ ticker.gen + 1 >= ticker.gen
    BY <1>2, Constants DEF Tasks
  <2>2. Stopped = [ticker EXCEPT !.running = FALSE, !.gen = ticker.gen + 1]
    BY <1>2 DEF Stopped
  <2>3. Stopped.gen = ticker.gen + 1 /\ ~Stopped.running /\ Stopped.failed = ticker.failed
    BY <2>2
  <2> QED
    BY <2>1, <2>2, <2>3
<1> QED
  BY <1>1, <1>2

\* Starting begins the task of the new ticker generation and leaves every other alone.
LEMMA StartedTicker ==
  ASSUME ticker \in [running : BOOLEAN, failed : BOOLEAN, gen : 0..MaxTicker + 1],
         ticker.running => ticker.gen \in Tasks,
         task \in [Tasks -> TaskRecord], Started
  PROVE  /\ ticker' \in [running : BOOLEAN, failed : BOOLEAN, gen : 0..MaxTicker + 1]
         /\ ticker'.running /\ ticker'.failed = ticker.failed /\ ticker'.gen \in Tasks
         /\ task' \in [Tasks -> TaskRecord]
         /\ \/ UNCHANGED <<ticker, task>>
            \/ task'[ticker'.gen].pc = "wait"
         /\ ticker'.gen >= ticker.gen
         /\ \A i \in Tasks : \/ task'[i] = task[i]
                             \/ /\ ticker.gen < i /\ i <= ticker'.gen
                                /\ task'[i].pc = "wait" /\ task'[i].removed = {}
<1>1. CASE ticker.running
  BY <1>1 DEF Started
<1>2. CASE ~ticker.running
  <2> DEFINE n == ticker.gen + 1
             t == [NoTask EXCEPT !.pc = "wait"]
  <2>1. ticker.gen < MaxTicker /\ ticker' = [ticker EXCEPT !.running = TRUE, !.gen = n]
        /\ task' = [task EXCEPT ![n] = t]
    BY <1>2 DEF Started
  <2>2. n \in Tasks /\ n \in 0..MaxTicker + 1 /\ ticker.gen < n
    BY <2>1, Constants DEF Tasks
  <2>3. t \in TaskRecord /\ t.pc = "wait" /\ t.removed = {}
    BY BlankTasks
  <2> HIDE DEF n, t
  <2>4. /\ ticker' \in [running : BOOLEAN, failed : BOOLEAN, gen : 0..MaxTicker + 1]
        /\ ticker'.running /\ ticker'.failed = ticker.failed /\ ticker'.gen = n
    BY <2>1, <2>2
  <2>5. task' \in [Tasks -> TaskRecord] /\ \A i \in Tasks : task'[i] = IF i = n THEN t ELSE task[i]
    BY <2>1, <2>2, <2>3, Replacing
  <2> QED
    BY <2>2, <2>3, <2>4, <2>5
<1> QED
  BY <1>1, <1>2

\* Steps of an operation keep the types.
LEMMA OpTypes ==
  ASSUME TypeParts, NEW g \in Gens, OpStep(g)
  PROVE  TypeParts'
<1> USE DEF TypeParts
<1>0. /\ \A q \in OpPc : Go(g, q) => op' \in [Gens -> OpRecord]
      /\ {"guard", "claiming", "promoted", "registering", "refused", "undoing", "handle",
          "completing", "unregistered", "released", "gone"} \subseteq OpPc
  BY Going DEF OpPc
<1>1. CASE DropGuard(g)
  BY <1>0, <1>1, SlotReleased DEF DropGuard, OffBeats, beats, In
<1>2. CASE ClaimBegin(g)
  BY <1>0, <1>2 DEF ClaimBegin, OffBeats, beats, In, SlotTypes
<1>3. CASE ClaimPromote(g)
  <2>1. PICK c \in Claim :
          /\ ResourceOf[c] = op[g].res
          /\ slot[op[g].res].stage = "pending"
          /\ slot' = [slot EXCEPT ![op[g].res] = ClaimedEntry(@, c, slotsClosed)]
          /\ op' = [op EXCEPT ![g].pc = "promoted", ![g].claim = c]
    BY <1>3 DEF ClaimPromote
  <2> DEFINE r == ResourceOf[c]
             e == ClaimedEntry(slot[r], c, slotsClosed)
  <2>2. r \in Resource /\ slot[r].stage = "pending" /\ slot' = [slot EXCEPT ![r] = e]
    BY <2>1, Constants
  <2>3. WellFormed(slot[r])
    BY <2>2 DEF SlotTypes
  <2>4. WellFormed(e) /\ ~Owned(e)
    BY <2>2, <2>3, ClaimedEntryFields DEF Owned
  <2> HIDE DEF e, r
  <2>5. SlotTypes'
    BY <2>2, <2>4, SlotReplaced
  <2>6. op' \in [Gens -> OpRecord]
    <3> DEFINE o == [op[g] EXCEPT !.pc = "promoted", !.claim = c]
    <3>1. "promoted" \in OpPc
      BY <1>0
    <3>2. o \in OpRecord
      BY <3>1 DEF OpRecord
    <3>3. op' = [op EXCEPT ![g] = o]
      BY <2>1, Zenon
    <3> QED
      BY <3>2, <3>3
  <2> QED
    BY <1>3, <2>5, <2>6 DEF ClaimPromote, OffBeats, beats, In
<1>4. CASE ClaimLook(g)
  BY <1>0, <1>4 DEF ClaimLook, OffBeats, beats, In, SlotTypes
<1>5. CASE ClaimRegister(g)
  <2> DEFINE c == op[g].claim
             b == [gen |-> g, rev |-> 0, due |-> FALSE]
  <2>1. CASE UNCHANGED <<beat, ticker, task>>
    BY <1>0, <1>5, <2>1 DEF ClaimRegister, slots, In, SlotTypes
  <2>2. CASE /\ Go(g, "handle") /\ beat' = [beat EXCEPT ![c] = b]
             /\ IF NoEntries(beat) THEN Started ELSE UNCHANGED <<ticker, task>>
    <3>1. b \in Beat \cup {Absent}
      BY Constants DEF Beat, Gens
    <3> HIDE DEF b, c
    <3>2. beat' \in [Claim -> Beat \cup {Absent}]
      BY <2>2, <3>1, BeatReplaced
    <3>3. /\ ticker' \in [running : BOOLEAN, failed : BOOLEAN, gen : 0..MaxTicker + 1]
          /\ task' \in [Tasks -> TaskRecord]
          /\ ticker'.running => ticker'.gen \in Tasks
          /\ \A i \in Tasks : task'[i] = task[i] \/ task'[i].pc = "wait"
      BY <2>2, StartedTicker
    <3> QED
      BY <1>0, <1>5, <2>2, <3>2, <3>3 DEF ClaimRegister, slots, In, SlotTypes
  <2> QED
    BY <1>5, <2>1, <2>2 DEF ClaimRegister
<1>6. CASE ClaimUndo(g)
  <2>1. CASE At(g, "refused")
    BY <1>0, <1>6, <2>1 DEF ClaimUndo, At, OffBeats, beats, In, SlotTypes
  <2>2. CASE At(g, "undoing") /\ ReleaseSlot(g) /\ Go(g, "released")
    BY <1>0, <1>6, <2>2, SlotReleased DEF ClaimUndo, OffBeats, beats, In
  <2> QED
    BY <1>6, <2>1, <2>2 DEF ClaimUndo
<1>7. CASE LetGo(g)
  BY <1>0, <1>7 DEF LetGo, OffBeats, beats, In, SlotTypes
<1>8. CASE CompleteBegin(g)
  BY <1>0, <1>8 DEF CompleteBegin, OffBeats, beats, In, SlotTypes
<1>9. CASE CompleteUnregister(g)
  <2>1. beat' \in [Claim -> Beat \cup {Absent}]
    BY <1>9 DEF CompleteUnregister
  <2>2. /\ ticker' \in [running : BOOLEAN, failed : BOOLEAN, gen : 0..MaxTicker + 1]
        /\ ticker'.running => ticker'.gen \in Tasks
    BY <1>9, StoppedTicker DEF CompleteUnregister
  <2> QED
    BY <1>0, <1>9, <2>1, <2>2 DEF CompleteUnregister, slots, In, SlotTypes
<1>10. CASE CompleteRelease(g)
  BY <1>0, <1>10, SlotReleased DEF CompleteRelease, OffBeats, beats, In
<1> QED
  BY <1>1, <1>2, <1>3, <1>4, <1>5, <1>6, <1>7, <1>8, <1>9, <1>10 DEF OpStep

\* Steps of a ticker task keep the types.
LEMMA TaskTypes ==
  ASSUME TypeParts, NEW i \in Tasks, TaskStep(i)
  PROVE  TypeParts'
<1> USE DEF TypeParts
<1>0. /\ NoBeat \in Copy \cup {NoBeat}
      /\ \A q \in {"wait", "checked", "loop", "call", "sweep", "ended"} :
           To(i, q) => /\ task' \in [Tasks -> TaskRecord]
                       /\ \A j \in Tasks : task'[j].pc = IF j = i THEN q ELSE task[j].pc
                       /\ \A j \in Tasks : task'[j].cur = task[j].cur
  BY Turning
<1>1. ASSUME NEW t \in TaskRecord, task' = [task EXCEPT ![i] = t],
             t.pc = "call" => t.cur \in Copy
      PROVE  /\ task' \in [Tasks -> TaskRecord]
             /\ \A j \in Tasks : In(j, "call")' => task'[j].cur \in Copy
  BY <1>1 DEF In
<1>2. CASE Wake(i)
  <2>1. CASE To(i, "checked")
    BY <1>0, <1>2, <2>1 DEF Wake, OffSlots, slots, In, SlotTypes
  <2>2. CASE task' = [task EXCEPT ![i] = [NoTask EXCEPT !.pc = "ended"]]
    BY <1>1, <1>2, <2>2, BlankTasks DEF Wake, OffSlots, slots, SlotTypes
  <2> QED
    BY <1>2, <2>1, <2>2 DEF Wake
<1>3. CASE Snapshot(i)
  <2>1. CASE To(i, "wait")
    BY <1>0, <1>3, <2>1 DEF Snapshot, OffSlots, slots, In, SlotTypes
  <2> DEFINE todo == {[claim |-> c, gen |-> beat[c].gen, rev |-> beat[c].rev] :
                        c \in {d \in Claim : beat[d] # Absent /\ beat[d].due}}
             t == [task[i] EXCEPT !.pc = "loop", !.todo = todo]
  <2>2. CASE task' = [task EXCEPT ![i].pc = "loop", ![i].todo = todo]
    <3>1. todo \subseteq Copy
      BY DEF Copy, Beat
    <3>2. task[i] \in TaskRecord
      OBVIOUS
    <3> HIDE DEF todo
    <3>3. t \in TaskRecord /\ t.pc = "loop"
      BY <3>1, <3>2 DEF TaskRecord
    <3>4. task' = [task EXCEPT ![i] = t]
      BY <2>2
    <3> QED
      BY <1>1, <1>3, <3>3, <3>4 DEF Snapshot, OffSlots, slots, SlotTypes
  <2> QED
    BY <1>3, <2>1, <2>2 DEF Snapshot
<1>4. CASE Call(i)
  <2>1. PICK e \in task[i].todo :
          task' = [task EXCEPT ![i].todo = @ \ {e},
                               ![i].pc  = IF Current(e) THEN "call" ELSE "loop",
                               ![i].cur = IF Current(e) THEN e ELSE NoBeat]
    BY <1>4 DEF Call
  <2> DEFINE todo == task[i].todo \ {e}
             q   == IF Current(e) THEN "call" ELSE "loop"
             cur == IF Current(e) THEN e ELSE NoBeat
             t   == [task[i] EXCEPT !.todo = todo, !.pc = q, !.cur = cur]
  <2>2. task[i] \in TaskRecord
    OBVIOUS
  <2>3. e \in Copy /\ todo \subseteq Copy
    BY <2>2 DEF TaskRecord
  <2>4. cur \in Copy \cup {NoBeat} /\ (q = "call" => cur \in Copy) /\ q \in {"call", "loop"}
    BY <2>3
  <2>5. task' = [task EXCEPT ![i] = t]
    BY <2>1, Zenon
  <2> HIDE DEF todo, q, cur
  <2>6. t \in TaskRecord /\ t.pc = q /\ t.cur = cur
    BY <2>2, <2>3, <2>4 DEF TaskRecord
  <2> HIDE DEF t
  <2>7. /\ task' \in [Tasks -> TaskRecord]
        /\ \A j \in Tasks : In(j, "call")' => task'[j].cur \in Copy
    BY <1>1, <2>4, <2>5, <2>6
  <2> QED
    BY <1>4, <2>7 DEF Call, OffSlots, slots, SlotTypes
<1>5. CASE Answer(i)
  <2> DEFINE e == task[i].cur
  <2>0. e \in Copy /\ task[i] \in TaskRecord
    BY <1>5 DEF Answer
  <2>1. ASSUME NEW x \in SUBSET [claim : Claim, gen : Gens], Back(i, x)
        PROVE  /\ task' \in [Tasks -> TaskRecord]
               /\ \A j \in Tasks : In(j, "call")' => task'[j].cur \in Copy
    <3> DEFINE removed == task[i].removed \cup x
               t == [task[i] EXCEPT !.pc = "loop", !.cur = NoBeat, !.removed = removed]
    <3>1. removed \in SUBSET [claim : Claim, gen : Gens]
      BY <2>0 DEF TaskRecord
    <3>2. task' = [task EXCEPT ![i] = t]
      BY <2>1, Zenon DEF Back
    <3> HIDE DEF removed
    <3>3. t \in TaskRecord /\ t.pc = "loop"
      BY <2>0, <3>1 DEF TaskRecord
    <3> QED
      BY <1>1, <3>2, <3>3
  <2>2. beat' \in [Claim -> Beat \cup {Absent}]
    <3>1. CASE UNCHANGED beat
      BY <3>1
    <3>2. CASE beat' = [beat EXCEPT ![e.claim] = Absent]
      BY <3>2
    <3>3. CASE Current(e) /\ beat' = [beat EXCEPT ![e.claim].due = FALSE]
      <4>1. beat[e.claim] \in Beat
        BY <2>0, <3>3 DEF Current, Copy
      <4> QED
        BY <3>3, <4>1 DEF Beat
    <3>4. CASE /\ Current(e) /\ e.rev < MaxRevision
               /\ beat' = [beat EXCEPT ![e.claim].rev = e.rev + 1, ![e.claim].due = FALSE]
      <4> DEFINE b == [beat[e.claim] EXCEPT !.rev = e.rev + 1, !.due = FALSE]
      <4>1. beat[e.claim] \in Beat /\ e.rev + 1 \in 0..MaxRevision
        BY <2>0, <3>4, Constants DEF Current, Copy
      <4>2. beat' = [beat EXCEPT ![e.claim] = b]
        BY <3>4, Zenon
      <4>3. b \in Beat
        BY <4>1 DEF Beat
      <4> QED
        BY <4>2, <4>3
    <3> QED
      BY <1>5, <3>1, <3>2, <3>3, <3>4 DEF Answer
  <2>3. \E x \in SUBSET [claim : Claim, gen : Gens] : Back(i, x)
    BY <1>5, <2>0 DEF Answer, Copy, Gens
  <2> QED
    BY <1>5, <2>1, <2>2, <2>3 DEF Answer, OffSlots, slots, SlotTypes
<1>6. CASE Panic(i)
  <2> DEFINE t == [NoTask EXCEPT !.pc = "ended", !.removed = task[i].removed]
  <2>1. task[i].removed \in SUBSET [claim : Claim, gen : Gens]
    BY DEF TaskRecord
  <2>2. t \in TaskRecord /\ t.pc = "ended"
    BY <2>1 DEF NoTask, TaskRecord
  <2>3. ticker' \in [running : BOOLEAN, failed : BOOLEAN, gen : 0..MaxTicker + 1]
        /\ ~ticker'.running
    BY <1>6 DEF Panic
  <2> QED
    BY <1>1, <1>6, <2>2, <2>3 DEF Panic, OffSlots, slots, SlotTypes
<1>7. CASE Finish(i)
  <2>1. /\ ticker' \in [running : BOOLEAN, failed : BOOLEAN, gen : 0..MaxTicker + 1]
        /\ ticker'.running => ticker'.gen \in Tasks
    BY <1>7, StoppedTicker DEF Finish
  <2>2. After(i) \in {"wait", "sweep"}
    BY DEF After
  <2> QED
    BY <1>0, <1>7, <2>1, <2>2 DEF Finish, OffSlots, slots, In, SlotTypes
<1>8. CASE Sweep(i)
  <2>1. PICK b \in task[i].removed :
          /\ slot' = [r \in Resource |->
                        IF slot[r].stage = "claimed" /\ slot[r].claim = b.claim /\ slot[r].gen = b.gen
                        THEN Vacant ELSE slot[r]]
          /\ op' = [op EXCEPT ![b.gen].swept = TRUE]
          /\ task' = [task EXCEPT ![i].removed = @ \ {b},
                                  ![i].pc = IF task[i].removed = {b} THEN "wait" ELSE "sweep"]
    BY <1>8 DEF Sweep
  <2>2. task[i] \in TaskRecord
    OBVIOUS
  <2>3. SlotTypes'
    BY <2>1, VacantIsFree DEF SlotTypes, WellFormed
  <2>4. op' \in [Gens -> OpRecord]
    BY <2>1 DEF OpRecord
  <2> DEFINE removed == task[i].removed \ {b}
             q == IF task[i].removed = {b} THEN "wait" ELSE "sweep"
             t == [task[i] EXCEPT !.removed = removed, !.pc = q]
  <2>5. removed \in SUBSET [claim : Claim, gen : Gens] /\ q \in {"wait", "sweep"}
    BY <2>2 DEF TaskRecord
  <2>6. task' = [task EXCEPT ![i] = t]
    BY <2>1, Zenon
  <2> HIDE DEF removed, q
  <2>7. t \in TaskRecord /\ t.pc = q
    BY <2>2, <2>5 DEF TaskRecord
  <2> QED
    BY <1>1, <1>8, <2>3, <2>4, <2>5, <2>6, <2>7 DEF Sweep, beats
<1> QED
  BY <1>2, <1>3, <1>4, <1>5, <1>6, <1>7, <1>8 DEF TaskStep

\* Steps of shutdown keep the types.
LEMMA ShutdownTypes ==
  ASSUME TypeParts, AbandonSlots \/ AbandonBeats \/ StopTicker
  PROVE  TypeParts'
<1> USE DEF TypeParts
<1>1. CASE AbandonSlots
  <2>1. \A r \in Resource :
          slot'[r] = IF slot[r].stage = "claimed" THEN [slot[r] EXCEPT !.abandoned = TRUE] ELSE slot[r]
    BY <1>1 DEF AbandonSlots
  <2>2. ASSUME NEW r \in Resource PROVE WellFormed(slot'[r]) /\ ~Owned(slot'[r])
    <3>1. CASE slot[r].stage = "claimed"
      <4> DEFINE e == slot[r]
                 f == [e EXCEPT !.abandoned = TRUE]
      <4>1. WellFormed(e) /\ e.stage = "claimed" /\ slot'[r] = f
        BY <2>1, <3>1 DEF SlotTypes
      <4>2. WellFormed(f) /\ f.stage = "claimed"
        BY <4>1, AbandonedEntry
      <4> QED
        BY <4>1, <4>2 DEF Owned
    <3>2. CASE slot[r].stage # "claimed"
      BY <2>1, <3>2 DEF SlotTypes
    <3> QED
      BY <3>1, <3>2
  <2>3. slot' \in [Resource -> Entry]
    BY <1>1, <2>2 DEF AbandonSlots, WellFormed
  <2>4. SlotTypes'
    BY <2>2, <2>3 DEF SlotTypes
  <2> QED
    BY <1>1, <2>4 DEF AbandonSlots, beats, In
<1>2. CASE AbandonBeats
  BY <1>2 DEF AbandonBeats, slots, In, SlotTypes
<1>3. CASE StopTicker
  BY <1>3, StoppedTicker DEF StopTicker, slots, beats, In, SlotTypes
<1> QED
  BY <1>1, <1>2, <1>3

\* Every step keeps the types.
LEMMA TypesKept == Types /\ [Next]_vars => Types'
<1> SUFFICES ASSUME TypeParts, [Next]_vars PROVE TypeParts'
  BY TypesParts
<1>1. ASSUME NEW r \in Resource, Acquire(r) PROVE TypeParts'
  <2> DEFINE g == nextGen + 1
             e == LocalPending(g, "mutation")
             o == [NoOp EXCEPT !.pc = "guard", !.res = r]
  <2>1. g \in Gens /\ g \in Nat \ {0} /\ g \in 0..MaxGeneration
    BY <1>1, Constants DEF Acquire, TypeParts, Gens
  <2>2. WellFormed(e) /\ ~Owned(e)
    <3>1. WellFormed(e)
      BY <2>1, LocalPendingEntry
    <3>2. ~Owned(e)
      BY DEF LocalPending, Vacant, Owned
    <3> QED
      BY <3>1, <3>2
  <2>3. o \in OpRecord
    BY DEF NoOp, OpRecord, OpPc
  <2>4. nextGen' = g /\ slot' = [slot EXCEPT ![r] = e] /\ op' = [op EXCEPT ![g] = o]
    BY <1>1 DEF Acquire
  <2> HIDE DEF e, o, g
  <2>5. SlotTypes'
    BY <2>2, <2>4, SlotReplaced DEF TypeParts
  <2>6. op' \in [Gens -> OpRecord]
    BY <2>1, <2>3, <2>4 DEF TypeParts
  <2> QED
    BY <1>1, <2>1, <2>4, <2>5, <2>6 DEF Acquire, TypeParts, beats, In
<1>2. ASSUME NEW c \in Claim, Elapse(c) PROVE TypeParts'
  <2>1. beat[c] \in Beat
    BY <1>2 DEF Elapse, TypeParts
  <2>2. [beat[c] EXCEPT !.due = TRUE] \in Beat
    BY <2>1 DEF Beat
  <2>3. beat' \in [Claim -> Beat \cup {Absent}]
    BY <1>2, <2>2 DEF Elapse, TypeParts
  <2> QED
    BY <1>2, <2>3 DEF Elapse, TypeParts, slots, In, SlotTypes
<1>3. CASE UNCHANGED vars
  BY <1>3 DEF vars, slots, beats, TypeParts, SlotTypes, In
<1> QED
  BY <1>1, <1>2, <1>3, OpTypes, TaskTypes, ShutdownTypes DEF Next, Gens, Tasks

\* At the start.
LEMMA TypesFirst == Init => Types
<1> SUFFICES ASSUME Init PROVE TypeParts
  BY TypesParts
<1>1. SlotTypes
  BY VacantIsFree DEF Init, SlotTypes, WellFormed
<1>2. op \in [Gens -> OpRecord]
  BY DEF Init, Gens, NoOp, OpRecord, OpPc
<1>3. task \in [Tasks -> TaskRecord] /\ \A i \in Tasks : ~In(i, "call")
  BY DEF Init, Tasks, NoTask, TaskRecord, In
<1>4. beat \in [Claim -> Beat \cup {Absent}]
  BY DEF Init
<1>5. /\ nextGen \in 0..MaxGeneration
      /\ ticker \in [running : BOOLEAN, failed : BOOLEAN, gen : 0..MaxTicker + 1]
      /\ ~ticker.running
  BY Constants DEF Init
<1> QED
  BY <1>1, <1>2, <1>3, <1>4, <1>5 DEF Init, TypeParts

----------------------------------------------------------------------------
(***************************************************************************)
(* Owners.                                                                 *)
(***************************************************************************)

\* A step along the program of an operation that takes nothing from it.
LEMMA OwnersGo ==
  ASSUME TypeParts, Owners, NEW g \in Gens, NEW q \in OpPc, Go(g, q),
         op[g].pc # "none",
         q \in Claiming => op[g].pc \in Claiming,
         op[g].pc \in Beating => q \in Beating,
         op[g].pc \in Past => q \in Past,
         UNCHANGED <<slot, nextGen, beat>>,
         \A i \in Tasks : task'[i].removed \subseteq task[i].removed
  PROVE  Owners'
<1>1. \A h \in Gens : op'[h].pc = (IF h = g THEN q ELSE op[h].pc) /\ op'[h].claim = op[h].claim
  BY Going DEF TypeParts
<1>2. \A c \in Claim : beat[c] # Absent => beat[c].gen \in Gens
  BY DEF TypeParts, Beat, Gens
<1>3. \A i \in Tasks : \A b \in task[i].removed : b.gen \in Gens
  BY DEF TypeParts, TaskRecord
<1>4. FreshGenerations'
  BY <1>1 DEF Owners, FreshGenerations
<1>5. ClaimingHolds'
  BY <1>1 DEF Owners, ClaimingHolds, Backed
<1>6. BeatsOwned'
  BY <1>1, <1>2 DEF Owners, BeatsOwned, Backed
<1>7. RemovedIsPast'
  BY <1>1, <1>3 DEF Owners, RemovedIsPast
<1> QED
  BY <1>4, <1>5, <1>6, <1>7 DEF Owners

\* An operation without a heartbeat releases its slot and is done.
LEMMA OwnersRelease ==
  ASSUME TypeParts, Owners, NEW g \in Gens, ReleaseSlot(g), Go(g, "released"),
         op[g].pc \notin Beating, op[g].pc # "none",
         UNCHANGED <<nextGen, beat, task>>
  PROVE  Owners'
<1>1. /\ op' \in [Gens -> OpRecord]
      /\ \A h \in Gens : op'[h].pc = (IF h = g THEN "released" ELSE op[h].pc) /\ op'[h].claim = op[h].claim
  BY Going DEF TypeParts, OpPc
<1>2. \A s \in Resource : slot'[s] = slot[s] \/ slot[s].gen = g
  BY SlotReleased DEF TypeParts
<1>3. \A c \in Claim, h \in Gens : h # g /\ Backed(c, h) => Backed(c, h)'
  BY <1>2, Constants DEF Backed
<1>4. \A c \in Claim : beat[c] # Absent => beat[c].gen \in Gens /\ beat[c].gen # g
  BY DEF TypeParts, Beat, Gens, Owners, BeatsOwned
<1>5. \A i \in Tasks : \A b \in task[i].removed : b.gen \in Gens
  BY DEF TypeParts, TaskRecord
<1>6. FreshGenerations'
  BY <1>1 DEF Owners, FreshGenerations
<1>7. ClaimingHolds'
  BY <1>1, <1>3 DEF Owners, ClaimingHolds, Claiming
<1>8. BeatsOwned'
  BY <1>1, <1>3, <1>4 DEF Owners, BeatsOwned
<1>9. RemovedIsPast'
  BY <1>1, <1>5 DEF Owners, RemovedIsPast, Past
<1> QED
  BY <1>6, <1>7, <1>8, <1>9 DEF Owners

\* A step that leaves operations and the slots they rely on alone, beats at most the
\* entries there are, and removes only what is gone.
LEMMA OwnersStay ==
  ASSUME TypeParts, Owners, UNCHANGED nextGen,
         \A h \in Gens : op'[h].pc = op[h].pc /\ op'[h].claim = op[h].claim,
         \A c \in Claim, h \in Gens :
           Backed(c, h) /\ (op[h].pc \in Claiming \/ (beat[c] # Absent /\ beat[c].gen = h))
             => Backed(c, h)',
         \A c \in Claim : beat'[c] # Absent => beat[c] # Absent /\ beat'[c].gen = beat[c].gen,
         \A i \in Tasks : \A b \in task'[i].removed :
           \/ \E j \in Tasks : b \in task[j].removed
           \/ /\ b.gen \in Gens /\ op[b.gen].pc \in Past
              /\ \A c \in Claim : beat'[c] # Absent => beat'[c].gen # b.gen
  PROVE  Owners'
<1>1. \A c \in Claim : beat[c] # Absent => beat[c].gen \in Gens
  BY DEF TypeParts, Beat, Gens
<1>2. \A i \in Tasks : \A b \in task[i].removed : b.gen \in Gens
  BY DEF TypeParts, TaskRecord
<1>3. FreshGenerations'
  BY DEF Owners, FreshGenerations
<1>4. ClaimingHolds'
  BY DEF Owners, ClaimingHolds
<1>5. BeatsOwned'
  BY <1>1 DEF Owners, BeatsOwned
<1>6. RemovedIsPast'
  BY <1>2 DEF Owners, RemovedIsPast
<1> QED
  BY <1>3, <1>4, <1>5, <1>6 DEF Owners

\* Steps of an operation keep the owners: it beats for the slot it holds, and gives its
\* entry up before its slot.
LEMMA OwnersOp ==
  ASSUME TypeParts, Owners, NEW g \in Gens, OpStep(g)
  PROVE  Owners'
<1>0. /\ {"claiming", "registering", "refused", "undoing", "handle", "completing",
          "unregistered", "released", "gone"} \subseteq OpPc
      /\ \A h \in Gens : op[h].claim \in Claim \cup {NoClaim}
      /\ \A c \in Claim : beat[c] # Absent => beat[c].gen \in Gens
  BY DEF OpPc, TypeParts, OpRecord, Beat, Gens
<1> DEFINE onward(q) ==
      /\ Go(g, q) /\ q \in OpPc /\ op[g].pc # "none"
      /\ q \in Claiming => op[g].pc \in Claiming
      /\ op[g].pc \in Beating => q \in Beating
      /\ op[g].pc \in Past => q \in Past
      /\ UNCHANGED <<slot, nextGen, beat, task>>
<1>1. \A q : onward(q) => Owners'
  BY OwnersGo
<1>2. CASE DropGuard(g)
  BY <1>2, OwnersRelease DEF DropGuard, At, Beating, OffBeats, beats
<1>3. CASE ClaimBegin(g)
  <2>1. onward("claiming")
    BY <1>0, <1>3 DEF ClaimBegin, At, OffBeats, beats, Claiming, Beating, Past
  <2> QED
    BY <1>1, <2>1
<1>4. CASE ClaimPromote(g)
  <2>1. PICK c \in Claim :
          /\ ResourceOf[c] = op[g].res
          /\ slot[op[g].res].gen = g /\ slot[op[g].res].stage = "pending"
          /\ slot' = [slot EXCEPT ![op[g].res] = ClaimedEntry(@, c, slotsClosed)]
          /\ op' = [op EXCEPT ![g].pc = "promoted", ![g].claim = c]
    BY <1>4 DEF ClaimPromote
  <2> DEFINE r == ResourceOf[c]
             e == ClaimedEntry(slot[r], c, slotsClosed)
  <2>2. /\ r \in Resource /\ slot[r].gen = g /\ slot[r].stage = "pending"
        /\ slot' = [slot EXCEPT ![r] = e] /\ op[g].pc = "claiming"
    BY <1>4, <2>1, Constants DEF ClaimPromote, At
  <2>3. WellFormed(e) /\ ~Owned(e) /\ e.stage = "claimed" /\ e.claim = c /\ e.gen = g
    BY <2>2, ClaimedEntryFields DEF TypeParts, SlotTypes, Owned
  <2>4. \A h \in Gens : /\ op'[h].pc = IF h = g THEN "promoted" ELSE op[h].pc
                        /\ op'[h].claim = IF h = g THEN c ELSE op[h].claim
    BY <2>1 DEF TypeParts, OpRecord
  <2> HIDE DEF e, r
  <2>5. \A s \in Resource : slot'[s] = IF s = r THEN e ELSE slot[s]
    BY <2>2 DEF TypeParts, SlotTypes
  <2>6. \A d \in Claim, h \in Gens : Backed(d, h) => Backed(d, h)'
    BY <2>2, <2>5, Constants DEF Backed
  <2>7. Backed(c, g)'
    BY <2>2, <2>3, <2>5 DEF Backed, r
  <2>8. UNCHANGED <<nextGen, beat, task>>
    BY <1>4 DEF ClaimPromote, OffBeats, beats
  <2>9. FreshGenerations'
    BY <2>2, <2>4, <2>8 DEF Owners, FreshGenerations
  <2>10. ClaimingHolds'
    BY <2>4, <2>6, <2>7 DEF Owners, ClaimingHolds
  <2>11. BeatsOwned'
    BY <1>0, <2>2, <2>4, <2>6, <2>8 DEF Owners, BeatsOwned, Beating
  <2>12. RemovedIsPast'
    BY <2>2, <2>4, <2>8 DEF Owners, RemovedIsPast, Past, Beating, TypeParts, TaskRecord
  <2> QED
    BY <2>9, <2>10, <2>11, <2>12 DEF Owners
<1>5. CASE ClaimLook(g)
  <2>1. onward("gone") \/ onward("registering")
    BY <1>0, <1>5 DEF ClaimLook, At, OffBeats, beats, Claiming, Beating, Past
  <2> QED
    BY <1>1, <2>1
<1>6. CASE ClaimRegister(g)
  <2> DEFINE c == op[g].claim
             b == [gen |-> g, rev |-> 0, due |-> FALSE]
  <2>1. CASE Go(g, "refused") /\ UNCHANGED <<beat, ticker, task>>
    <3>1. onward("refused")
      BY <1>0, <1>6, <2>1 DEF ClaimRegister, At, slots, Claiming, Beating, Past
    <3> QED
      BY <1>1, <3>1
  <2>2. CASE /\ Go(g, "handle") /\ beat' = [beat EXCEPT ![c] = b]
             /\ IF NoEntries(beat) THEN Started ELSE UNCHANGED <<ticker, task>>
    <3>1. c \in Claim /\ Backed(c, g) /\ op[g].pc = "registering"
      BY <1>6 DEF ClaimRegister, At, Owners, ClaimingHolds, Claiming
    <3>2. b \in Beat \cup {Absent} /\ b.gen = g
      BY Constants DEF Beat, Gens
    <3>3. \A h \in Gens : op'[h].pc = (IF h = g THEN "handle" ELSE op[h].pc) /\ op'[h].claim = op[h].claim
      BY <1>0, <2>2, Going DEF TypeParts
    <3>4. \A i \in Tasks : task'[i].removed = task[i].removed \/ task'[i].removed = {}
      BY <2>2, StartedTicker DEF TypeParts
    <3> HIDE DEF b
    <3>5. \A x \in Claim : beat'[x] = IF x = c THEN b ELSE beat[x]
      BY <2>2, <3>2, BeatReplaced DEF TypeParts
    <3>6. UNCHANGED <<slot, nextGen>>
      BY <1>6 DEF ClaimRegister, slots
    <3>7. FreshGenerations'
      BY <3>1, <3>3, <3>6 DEF Owners, FreshGenerations
    <3>8. ClaimingHolds'
      BY <3>3, <3>6 DEF Owners, ClaimingHolds, Backed, Claiming
    <3>9. BeatsOwned'
      BY <1>0, <3>1, <3>2, <3>3, <3>5, <3>6 DEF Owners, BeatsOwned, Backed, Beating
    <3>10. \A i \in Tasks : \A y \in task[i].removed : y.gen \in Gens /\ y.gen # g
      BY <3>1 DEF Owners, RemovedIsPast, Past, Beating, TypeParts, TaskRecord
    <3>11. RemovedIsPast'
      BY <3>2, <3>3, <3>4, <3>5, <3>10 DEF Owners, RemovedIsPast
    <3> QED
      BY <3>7, <3>8, <3>9, <3>11 DEF Owners
  <2> QED
    BY <1>6, <2>1, <2>2 DEF ClaimRegister
<1>7. CASE ClaimUndo(g)
  <2>1. CASE At(g, "refused")
    <3>1. onward("gone") \/ onward("undoing")
      BY <1>0, <1>7, <2>1 DEF ClaimUndo, At, OffBeats, beats, Claiming, Beating, Past
    <3> QED
      BY <1>1, <3>1
  <2>2. CASE At(g, "undoing") /\ ReleaseSlot(g) /\ Go(g, "released")
    BY <1>7, <2>2, OwnersRelease DEF ClaimUndo, At, Beating, OffBeats, beats
  <2> QED
    BY <1>7, <2>1, <2>2 DEF ClaimUndo
<1>8. CASE LetGo(g)
  <2>1. onward("gone")
    BY <1>0, <1>8 DEF LetGo, At, OffBeats, beats, Claiming, Beating, Past
  <2> QED
    BY <1>1, <2>1
<1>9. CASE CompleteBegin(g)
  <2>1. onward("completing")
    BY <1>0, <1>9 DEF CompleteBegin, At, OffBeats, beats, Claiming, Beating, Past
  <2> QED
    BY <1>1, <2>1
<1>10. CASE CompleteUnregister(g)
  <2> DEFINE c == op[g].claim
  <2>1. op[g].pc = "completing" /\ Go(g, "unregistered") /\ UNCHANGED <<slot, nextGen, task>>
    BY <1>10 DEF CompleteUnregister, At, slots
  <2>2. \A h \in Gens : op'[h].pc = (IF h = g THEN "unregistered" ELSE op[h].pc) /\ op'[h].claim = op[h].claim
    BY <1>0, <2>1, Going DEF TypeParts
  <2>3. \A d \in Claim : beat[d] # Absent /\ beat[d].gen = g => d = c
    BY DEF Owners, BeatsOwned
  <2>4. \A d \in Claim : beat'[d] = IF beat[d] # Absent /\ beat[d].gen = g THEN Absent ELSE beat[d]
    BY <1>10, <2>3 DEF CompleteUnregister, TypeParts
  <2>5. FreshGenerations'
    BY <2>1, <2>2 DEF Owners, FreshGenerations
  <2>6. ClaimingHolds'
    BY <2>1, <2>2 DEF Owners, ClaimingHolds, Backed, Claiming
  <2>7. BeatsOwned'
    BY <1>0, <2>1, <2>2, <2>4 DEF Owners, BeatsOwned, Backed
  <2>8. RemovedIsPast'
    BY <2>1, <2>2, <2>4 DEF Owners, RemovedIsPast, Past, TypeParts, TaskRecord
  <2> QED
    BY <2>5, <2>6, <2>7, <2>8 DEF Owners
<1>11. CASE CompleteRelease(g)
  BY <1>11, OwnersRelease DEF CompleteRelease, At, Beating, OffBeats, beats
<1> QED
  BY <1>2, <1>3, <1>4, <1>5, <1>6, <1>7, <1>8, <1>9, <1>10, <1>11 DEF OpStep

\* Steps of a ticker task keep the owners: a swept slot has no entry any more.
LEMMA OwnersTask ==
  ASSUME TypeParts, Owners, NEW i \in Tasks, TaskStep(i)
  PROVE  Owners'
<1> DEFINE sameOps == UNCHANGED <<slot, nextGen, op>>
           fewer   == \A j \in Tasks : task'[j].removed \subseteq task[j].removed
<1>0. ASSUME sameOps, fewer,
             \A c \in Claim : beat'[c] # Absent => beat[c] # Absent /\ beat'[c].gen = beat[c].gen
      PROVE  Owners'
  BY <1>0, OwnersStay DEF Backed
<1>1. CASE Wake(i)
  <2>1. fewer
    BY <1>1, Turning, BlankTasks DEF Wake, TypeParts
  <2> QED
    BY <1>0, <1>1, <2>1 DEF Wake, OffSlots, slots
<1>2. CASE Snapshot(i)
  <2>1. fewer
    BY <1>2, Turning DEF Snapshot, TypeParts, TaskRecord
  <2> QED
    BY <1>0, <1>2, <2>1 DEF Snapshot, OffSlots, slots
<1>3. CASE Call(i)
  <2>1. fewer
    BY <1>3 DEF Call, TypeParts, TaskRecord
  <2> QED
    BY <1>0, <1>3, <2>1 DEF Call, OffSlots, slots
<1>4. CASE Answer(i)
  <2> DEFINE e == task[i].cur
             b == [claim |-> e.claim, gen |-> e.gen]
  <2>0. e \in Copy /\ sameOps
    BY <1>4 DEF Answer, TypeParts, OffSlots, slots
  <2>1. /\ Back(i, {}) => fewer
        /\ Back(i, {b}) =>
             \A j \in Tasks :
               task'[j].removed = IF j = i THEN task[i].removed \cup {b} ELSE task[j].removed
    <3>1. ASSUME NEW x, Back(i, x)
          PROVE  \A j \in Tasks :
                   task'[j].removed = IF j = i THEN task[i].removed \cup x ELSE task[j].removed
      BY <3>1 DEF Back, TypeParts, TaskRecord
    <3>2. Back(i, {}) => fewer
      BY DEF Back, TypeParts, TaskRecord
    <3> HIDE DEF b
    <3>3. Back(i, {b}) =>
            \A j \in Tasks :
              task'[j].removed = IF j = i THEN task[i].removed \cup {b} ELSE task[j].removed
      BY <3>1
    <3> QED
      BY <3>2, <3>3
  <2>2. CASE Back(i, {}) /\ UNCHANGED beat
    BY <1>0, <2>0, <2>1, <2>2
  <2>3. CASE /\ Current(e) /\ Back(i, {})
             /\ \/ beat' = [beat EXCEPT ![e.claim].due = FALSE]
                \/ beat' = [beat EXCEPT ![e.claim].rev = e.rev + 1, ![e.claim].due = FALSE]
    <3>1. beat[e.claim] \in Beat /\ beat[e.claim] # Absent /\ e.claim \in Claim
      BY <2>0, <2>3 DEF Current, Copy, TypeParts
    <3>2. \A c \in Claim : beat'[c] # Absent => beat[c] # Absent /\ beat'[c].gen = beat[c].gen
      BY <2>3, <3>1 DEF TypeParts, Beat
    <3> QED
      BY <1>0, <2>0, <2>1, <2>3, <3>2
  <2>4. CASE Current(e) /\ beat' = [beat EXCEPT ![e.claim] = Absent] /\ Back(i, {b})
    <3>1. beat[e.claim] # Absent /\ beat[e.claim].gen = e.gen /\ e.claim \in Claim /\ e.gen \in Gens
      BY <2>0, <2>4 DEF Current, Copy, Gens
    <3>2. op[e.gen].pc \in Past
      BY <3>1 DEF Owners, BeatsOwned, Past
    <3>3. \A c \in Claim : beat'[c] # Absent => beat'[c] = beat[c] /\ c # e.claim
      BY <2>4 DEF TypeParts
    <3>4. \A c \in Claim : beat'[c] # Absent => beat'[c].gen # e.gen
      BY <3>1, <3>3 DEF Owners, BeatsOwned
    <3>5. b.gen = e.gen
      OBVIOUS
    <3>6. \A j \in Tasks : \A y \in task'[j].removed : (\E k \in Tasks : y \in task[k].removed) \/ y = b
      BY <2>1, <2>4
    <3> HIDE DEF b
    <3>7. \A j \in Tasks : \A y \in task'[j].removed :
            \/ \E k \in Tasks : y \in task[k].removed
            \/ /\ y.gen \in Gens /\ op[y.gen].pc \in Past
               /\ \A c \in Claim : beat'[c] # Absent => beat'[c].gen # y.gen
      BY <3>1, <3>2, <3>4, <3>5, <3>6
    <3> QED
      BY <2>0, <3>3, <3>7, OwnersStay DEF Backed
  <2> QED
    BY <1>4, <2>2, <2>3, <2>4 DEF Answer
<1>5. CASE Panic(i)
  <2>1. fewer
    BY <1>5 DEF Panic, NoTask, TypeParts
  <2> QED
    BY <1>0, <1>5, <2>1 DEF Panic, OffSlots, slots
<1>6. CASE Finish(i)
  <2>1. fewer
    BY <1>6 DEF Finish, To, TypeParts, TaskRecord
  <2> QED
    BY <1>0, <1>6, <2>1 DEF Finish, OffSlots, slots
<1>7. CASE Sweep(i)
  <2>1. PICK b \in task[i].removed :
          /\ slot' = [r \in Resource |->
                        IF slot[r].stage = "claimed" /\ slot[r].claim = b.claim /\ slot[r].gen = b.gen
                        THEN Vacant ELSE slot[r]]
          /\ op' = [op EXCEPT ![b.gen].swept = TRUE]
          /\ task' = [task EXCEPT ![i].removed = @ \ {b},
                                  ![i].pc = IF task[i].removed = {b} THEN "wait" ELSE "sweep"]
    BY <1>7 DEF Sweep
  <2>2. fewer
    BY <2>1 DEF TypeParts, TaskRecord
  <2>3. \A h \in Gens : op'[h].pc = op[h].pc /\ op'[h].claim = op[h].claim
    BY <2>1 DEF TypeParts, OpRecord
  <2>4. /\ op[b.gen].pc \in Past /\ b.gen \in Gens
        /\ \A c \in Claim : beat[c] # Absent => beat[c].gen # b.gen
    BY DEF Owners, RemovedIsPast, TypeParts, TaskRecord
  <2>5. \A c \in Claim, h \in Gens : h # b.gen /\ Backed(c, h) => Backed(c, h)'
    BY <2>1, Constants DEF Backed
  <2>6. \A c \in Claim, h \in Gens :
          Backed(c, h) /\ (op[h].pc \in Claiming \/ (beat[c] # Absent /\ beat[c].gen = h)) => Backed(c, h)'
    BY <2>4, <2>5 DEF Past, Beating, Claiming
  <2>7. UNCHANGED nextGen /\ UNCHANGED beat
    BY <1>7 DEF Sweep, beats
  <2> QED
    BY <2>2, <2>3, <2>6, <2>7, OwnersStay
<1> QED
  BY <1>1, <1>2, <1>3, <1>4, <1>5, <1>6, <1>7 DEF TaskStep

\* Every step keeps the owners.
LEMMA OwnersKept == Types /\ Owners /\ [Next]_vars => Owners'
<1> SUFFICES ASSUME TypeParts, Owners, [Next]_vars PROVE Owners'
  BY TypesParts
<1>0. \A c \in Claim : beat[c] # Absent => beat[c].gen \in Gens
  BY DEF TypeParts, Beat, Gens
<1>1. ASSUME NEW r \in Resource, Acquire(r) PROVE Owners'
  <2> DEFINE g == nextGen + 1
             e == LocalPending(g, "mutation")
             o == [NoOp EXCEPT !.pc = "guard", !.res = r]
  <2>1. g \in Gens /\ nextGen \in Nat /\ nextGen' = g /\ UNCHANGED <<beat, task>>
    BY <1>1, Constants DEF Acquire, TypeParts, Gens, beats
  <2>2. op[g].pc = "none"
    BY <2>1 DEF Owners, FreshGenerations, TypeParts, Gens
  <2>3. \A h \in Gens : /\ op'[h].pc = (IF h = g THEN "guard" ELSE op[h].pc)
                        /\ h # g => op'[h].claim = op[h].claim
    BY <1>1, <2>1 DEF Acquire, NoOp, TypeParts, OpRecord
  <2>4. ~Occupied(slot[r])
    BY <1>1 DEF Acquire, Conflict
  <2>5. \A s \in Resource : s # r => slot'[s] = slot[s]
    BY <1>1 DEF Acquire, TypeParts, SlotTypes
  <2>6. \A c \in Claim, h \in Gens : Backed(c, h) => Backed(c, h)'
    BY <2>4, <2>5, Constants DEF Backed, Occupied
  <2> HIDE DEF g
  <2>7. FreshGenerations'
    BY <2>1, <2>3 DEF Owners, FreshGenerations, Gens, g
  <2>8. ClaimingHolds'
    BY <2>3, <2>6 DEF Owners, ClaimingHolds, Claiming
  <2>9. BeatsOwned'
    BY <1>0, <2>1, <2>2, <2>3, <2>6 DEF Owners, BeatsOwned, Beating
  <2>10. RemovedIsPast'
    BY <2>1, <2>2, <2>3 DEF Owners, RemovedIsPast, Past, Beating, TypeParts, TaskRecord
  <2> QED
    BY <2>7, <2>8, <2>9, <2>10 DEF Owners
<1>2. ASSUME NEW c \in Claim, Elapse(c) PROVE Owners'
  <2>1. \A d \in Claim : beat'[d] # Absent => beat[d] # Absent /\ beat'[d].gen = beat[d].gen
    BY <1>2 DEF Elapse, TypeParts, Beat
  <2> QED
    BY <1>2, <2>1, OwnersStay DEF Elapse, slots, Backed
<1>3. CASE AbandonSlots
  <2>1. \A r \in Resource :
          slot[r].stage = "claimed" =>
            slot'[r].stage = "claimed" /\ slot'[r].claim = slot[r].claim /\ slot'[r].gen = slot[r].gen
    BY <1>3, AbandonedEntry DEF AbandonSlots, TypeParts, SlotTypes
  <2> QED
    BY <1>3, <2>1, Constants, OwnersStay DEF AbandonSlots, beats, Backed
<1>4. CASE AbandonBeats \/ StopTicker \/ UNCHANGED vars
  BY <1>4, OwnersStay DEF AbandonBeats, StopTicker, vars, slots, beats, Backed
<1> QED
  BY <1>1, <1>2, <1>3, <1>4, OwnersOp, OwnersTask DEF Next, Gens, Tasks

\* At the start nobody owns anything.
LEMMA OwnersFirst == Init => Owners
<1> SUFFICES ASSUME Init PROVE Owners
  OBVIOUS
<1>1. \A g \in Gens : op[g].pc = "none"
  BY DEF Init, NoOp, Gens
<1>2. \A i \in Tasks : task[i].removed = {}
  BY DEF Init, NoTask, Tasks
<1> QED
  BY <1>1, <1>2 DEF Init, Owners, FreshGenerations, ClaimingHolds, Claiming, BeatsOwned, RemovedIsPast

----------------------------------------------------------------------------
(***************************************************************************)
(* The ticker.                                                             *)
(***************************************************************************)

\* A step that leaves the ticker and its task alone and brings in no entry.
LEMMA TickerStay ==
  ASSUME TypeParts, TickerAlive, UNCHANGED <<ticker, beatsClosed, stopping>>,
         \A j \in Tasks : ticker.running /\ ticker.gen = j /\ task[j].pc \in Alive => task'[j].pc \in Alive,
         \A c \in Claim : beat'[c] # Absent => beat[c] # Absent
  PROVE  TickerAlive'
BY DEF TypeParts, TickerAlive, NoEntries

\* Steps of an operation keep a ticker for the entries: the first entry starts it, the
\* last one stops it.
LEMMA TickerOp ==
  ASSUME TypeParts, TickerAlive, NEW g \in Gens, OpStep(g)
  PROVE  TickerAlive'
<1>1. CASE ClaimRegister(g)
  <2> DEFINE c == op[g].claim
             b == [gen |-> g, rev |-> 0, due |-> FALSE]
  <2>1. CASE UNCHANGED <<beat, ticker, task>>
    BY <1>1, <2>1, TickerStay DEF ClaimRegister
  <2>2. CASE NoEntries(beat) /\ Started
    <3>1. /\ ticker'.running
          /\ UNCHANGED <<ticker, task>> \/ task'[ticker'.gen].pc = "wait"
      BY <2>2, StartedTicker DEF TypeParts
    <3> QED
      BY <1>1, <3>1 DEF ClaimRegister, TickerAlive, Alive
  <2>3. CASE ~NoEntries(beat) /\ UNCHANGED <<ticker, task>>
    BY <1>1, <2>3 DEF ClaimRegister, TickerAlive
  <2> QED
    BY <1>1, <2>1, <2>2, <2>3 DEF ClaimRegister
<1>2. CASE CompleteUnregister(g)
  <2> DEFINE c    == op[g].claim
             rest == [beat EXCEPT ![c] = Absent]
  <2>1. CASE ticker' = Stopped /\ NoEntries(beat')
    <3>1. ~ticker'.running
      BY <2>1, StoppedTicker DEF TypeParts
    <3> QED
      BY <1>2, <2>1, <3>1 DEF CompleteUnregister, TickerAlive
  <2>2. CASE UNCHANGED ticker
    <3>1. \A d \in Claim : beat'[d] # Absent => beat[d] # Absent
      BY <1>2 DEF CompleteUnregister, TypeParts
    <3> QED
      BY <1>2, <2>2, <3>1, TickerStay DEF CompleteUnregister
  <2> QED
    BY <1>2, <2>1, <2>2 DEF CompleteUnregister
<1>3. CASE UNCHANGED <<beats, ticker, task, stopping>>
  BY <1>3, TickerStay DEF beats
<1> QED
  BY <1>1, <1>2, <1>3
  DEF OpStep, OffBeats, DropGuard, ClaimBegin, ClaimPromote, ClaimLook, ClaimUndo, LetGo,
      CompleteBegin, CompleteRelease

\* Steps of a ticker task keep a ticker for the entries that are left.
LEMMA TickerTask ==
  ASSUME TypeParts, TickerAlive, NEW i \in Tasks, TaskStep(i)
  PROVE  TickerAlive'
<1>0. \A q \in Alive : To(i, q) => \A j \in Tasks : task[j].pc \in Alive => task'[j].pc \in Alive
  BY DEF To, TypeParts, TaskRecord
<1>1. CASE Wake(i)
  <2>1. CASE ticker.running /\ ticker.gen = i
    <3>1. "checked" \in Alive
      BY DEF Alive
    <3> QED
      BY <1>0, <1>1, <2>1, <3>1, TickerStay DEF Wake, OffSlots
  <2>2. CASE ~(ticker.running /\ ticker.gen = i)
    <3>1. \A j \in Tasks : j # i => task'[j] = task[j]
      BY <1>1, <2>2 DEF Wake, TypeParts
    <3> QED
      BY <1>1, <2>2, <3>1, TickerStay DEF Wake, OffSlots
  <2> QED
    BY <2>1, <2>2
<1>2. CASE Snapshot(i) \/ Call(i)
  <2>1. \A j \in Tasks : task[j].pc \in Alive => task'[j].pc \in Alive
    <3>1. CASE Snapshot(i)
      BY <3>1 DEF Snapshot, To, Alive, TypeParts, TaskRecord
    <3>2. CASE Call(i)
      <4>1. PICK e \in task[i].todo :
              task' = [task EXCEPT ![i].todo = @ \ {e},
                                   ![i].pc  = IF Current(e) THEN "call" ELSE "loop",
                                   ![i].cur = IF Current(e) THEN e ELSE NoBeat]
        BY <3>2 DEF Call
      <4> QED
        BY <4>1 DEF Alive, TypeParts, TaskRecord
    <3> QED
      BY <1>2, <3>1, <3>2
  <2> QED
    BY <1>2, <2>1, TickerStay DEF Snapshot, Call, OffSlots
<1>3. CASE Answer(i)
  <2>1. \A j \in Tasks : task[j].pc \in Alive => task'[j].pc \in Alive
    BY <1>3 DEF Answer, Back, Alive, TypeParts, TaskRecord
  <2>2. \A c \in Claim : beat'[c] # Absent => beat[c] # Absent
    BY <1>3 DEF Answer, Current, TypeParts
  <2> QED
    BY <1>3, <2>1, <2>2, TickerStay DEF Answer, OffSlots
<1>4. CASE Panic(i)
  <2>1. ticker'.failed /\ ~ticker'.running
    BY <1>4 DEF Panic, TypeParts
  <2> QED
    BY <1>4, <2>1 DEF Panic, OffSlots, TickerAlive
<1>5. CASE Finish(i)
  <2>1. CASE NoEntries(beat)
    <3>1. ~ticker'.running
      BY <1>5, <2>1, StoppedTicker DEF Finish, TypeParts
    <3> QED
      BY <1>5, <2>1, <3>1 DEF Finish, OffSlots, TickerAlive
  <2>2. CASE ~NoEntries(beat)
    <3>1. After(i) \in Alive
      BY DEF After, Alive
    <3> QED
      BY <1>0, <1>5, <2>2, <3>1, TickerStay DEF Finish, OffSlots
  <2> QED
    BY <2>1, <2>2
<1>6. CASE Sweep(i)
  <2>1. \A j \in Tasks : task[j].pc \in Alive => task'[j].pc \in Alive
    BY <1>6 DEF Sweep, Alive, TypeParts, TaskRecord
  <2> QED
    BY <1>6, <2>1, TickerStay DEF Sweep, beats
<1> QED
  BY <1>1, <1>2, <1>3, <1>4, <1>5, <1>6 DEF TaskStep

\* Every step keeps the ticker with its entries.
LEMMA TickerKept == Types /\ TickerAlive /\ [Next]_vars => TickerAlive'
<1> SUFFICES ASSUME TypeParts, TickerAlive, [Next]_vars PROVE TickerAlive'
  BY TypesParts
<1>1. ASSUME NEW r \in Resource, Acquire(r) PROVE TickerAlive'
  BY <1>1, TickerStay DEF Acquire, beats
<1>2. ASSUME NEW c \in Claim, Elapse(c) PROVE TickerAlive'
  <2>1. \A d \in Claim : beat'[d] # Absent => beat[d] # Absent
    BY <1>2 DEF Elapse, TypeParts
  <2> QED
    BY <1>2, <2>1, TickerStay DEF Elapse
<1>3. CASE AbandonSlots \/ UNCHANGED vars
  BY <1>3 DEF AbandonSlots, vars, beats, TickerAlive
<1>4. CASE AbandonBeats
  BY <1>4 DEF AbandonBeats, TickerAlive
<1>5. CASE StopTicker
  <2>1. ~ticker'.running
    BY <1>5, StoppedTicker DEF StopTicker, TypeParts
  <2> QED
    BY <1>5, <2>1 DEF StopTicker, beats, TickerAlive
<1> QED
  BY <1>1, <1>2, <1>3, <1>4, <1>5, TickerOp, TickerTask DEF Next, Gens, Tasks

----------------------------------------------------------------------------
(***************************************************************************)
(* Slots and heartbeats.                                                   *)
(***************************************************************************)

\* Between promotion and heartbeat, or between heartbeat and release.
Midway == {"promoted", "registering", "refused", "undoing", "unregistered"}

\* What ClaimedHasItsBeat asks of a claimed slot.
Accounted(c, g) ==
  \/ beat[c] # Absent /\ beat[c].gen = g
  \/ op[g].pc \in Midway
  \/ \E i \in Tasks : [claim |-> c, gen |-> g] \in task[i].removed

AllAccounted ==
  \A r \in Resource :
    slot[r].stage = "claimed" /\ ~slot[r].abandoned => Accounted(slot[r].claim, slot[r].gen)

\* AllAccounted is ClaimedHasItsBeat by another name, before and after a step.
LEMMA AccountedParts ==
  (ClaimedHasItsBeat <=> AllAccounted) /\ (ClaimedHasItsBeat' <=> AllAccounted')
BY DEF ClaimedHasItsBeat, AllAccounted, Accounted, Midway, Tasks

PairedParts == SlotsKnown /\ Drained /\ Resting /\ AllAccounted

\* The slot of an operation in its claim, not abandoned, before and after a step.
StillClaimed(r, c, h) ==
  /\ slot[r].stage = "claimed" /\ slot[r].claim = c /\ slot[r].gen = h
  /\ ~slot[r].abandoned /\ slot'[r] = slot[r]
  /\ op[h].res = r /\ op[h].claim = c

\* A ticker generation that only grows leaves the tasks resting.
LEMMA RestingStays ==
  ASSUME Resting, UNCHANGED task,
         ticker.gen \in Int, ticker'.gen \in Int, ticker'.gen >= ticker.gen
  PROVE  Resting'
<1>1. Tasks \subseteq Int
  BY Constants DEF Tasks
<1> QED
  BY <1>1 DEF Resting

\* A step that at most frees slots and forgets nothing of the others.
LEMMA PairedStay ==
  ASSUME TypeParts, PairedParts, UNCHANGED slotsClosed, Resting',
         \A r \in Resource : slot'[r] = slot[r] \/ slot'[r] = Vacant,
         \A h \in Gens : /\ op[h].pc # "none" => op'[h].pc # "none"
                         /\ op'[h].res = op[h].res /\ op'[h].claim = op[h].claim,
         \A r \in Resource, c \in Claim, h \in Gens :
           StillClaimed(r, c, h) /\ Accounted(c, h) => Accounted(c, h)'
  PROVE  PairedParts'
<1>0. Vacant.stage = "vacant"
  BY DEF Vacant
<1>1. SlotsKnown'
  BY <1>0 DEF PairedParts, SlotsKnown, Occupied
<1>2. Drained'
  BY <1>0 DEF PairedParts, Drained
<1>3. AllAccounted'
  <2> SUFFICES ASSUME NEW r \in Resource, slot'[r].stage = "claimed", ~slot'[r].abandoned
               PROVE  Accounted(slot[r].claim, slot[r].gen)'
    BY DEF AllAccounted
  <2>1. slot'[r] = slot[r]
    BY <1>0
  <2>2. PICK c \in Claim, h \in Gens : StillClaimed(r, c, h)
    BY <2>1 DEF PairedParts, SlotsKnown, Occupied, StillClaimed
  <2>3. Accounted(c, h)
    BY <2>1, <2>2 DEF PairedParts, AllAccounted, StillClaimed
  <2>4. Accounted(c, h)'
    BY <2>2, <2>3
  <2> QED
    BY <2>1, <2>2, <2>4 DEF StillClaimed, Accounted
<1> QED
  BY <1>1, <1>2, <1>3 DEF PairedParts

\* A step of one operation that may be midway only if it stays so, with its slot
\* freed, or with shutdown begun.
LEMMA PairedGo ==
  ASSUME TypeParts, PairedParts, NEW g \in Gens, NEW q \in OpPc, Go(g, q), q # "none",
         \/ UNCHANGED slot /\ (op[g].pc \in Midway => q \in Midway \/ slotsClosed)
         \/ ReleaseSlot(g),
         UNCHANGED <<slotsClosed, beat, ticker, task>>
  PROVE  PairedParts'
<1>1. \A h \in Gens : /\ op'[h].pc = (IF h = g THEN q ELSE op[h].pc)
                      /\ op'[h].res = op[h].res /\ op'[h].claim = op[h].claim
  BY Going DEF TypeParts
<1>2. \A r \in Resource : slot'[r] = slot[r] \/ slot'[r] = Vacant
  BY SlotReleased DEF TypeParts
<1>3. ASSUME NEW r \in Resource, NEW c \in Claim, NEW h \in Gens, StillClaimed(r, c, h),
             Accounted(c, h)
      PROVE  Accounted(c, h)'
  <2>1. h = g /\ op[g].pc \in Midway => q \in Midway
    <3>1. ~slotsClosed
      BY <1>3 DEF PairedParts, Drained, StillClaimed
    <3>2. CASE ReleaseSlot(g)
      <4>1. h # g
        BY <1>3, <3>2, VacantIsFree DEF ReleaseSlot, TypeParts, SlotTypes, Occupied, StillClaimed
      <4> QED
        BY <4>1
    <3> QED
      BY <3>1, <3>2
  <2> QED
    BY <1>1, <1>3, <2>1 DEF Accounted
<1>4. Resting'
  BY DEF PairedParts, Resting
<1>5. \A r \in Resource, c \in Claim, h \in Gens :
        StillClaimed(r, c, h) /\ Accounted(c, h) => Accounted(c, h)'
  BY <1>3
<1>6. \A h \in Gens : op[h].pc # "none" => op'[h].pc # "none"
  BY <1>1
<1> QED
  BY <1>1, <1>2, <1>4, <1>5, <1>6, PairedStay

\* Steps of an operation keep the registries paired.
LEMMA PairedOp ==
  ASSUME TypeParts, PairedParts, NEW g \in Gens, OpStep(g)
  PROVE  PairedParts'
<1>0. {"claiming", "registering", "refused", "undoing", "handle", "completing",
       "unregistered", "released", "gone"} \subseteq OpPc
  BY DEF OpPc
<1> DEFINE onward(q) ==
      /\ Go(g, q) /\ q \in OpPc /\ q # "none"
      /\ \/ UNCHANGED slot /\ (op[g].pc \in Midway => q \in Midway \/ slotsClosed)
         \/ ReleaseSlot(g)
      /\ UNCHANGED <<slotsClosed, beat, ticker, task>>
<1>1. \A q : onward(q) => PairedParts'
  BY PairedGo
<1>2. CASE DropGuard(g) \/ CompleteRelease(g)
  <2>1. onward("released")
    BY <1>0, <1>2 DEF DropGuard, CompleteRelease, OffBeats, beats
  <2> QED
    BY <1>1, <2>1
<1>3. CASE ClaimBegin(g)
  <2>1. onward("claiming")
    BY <1>0, <1>3 DEF ClaimBegin, At, OffBeats, beats, Midway
  <2> QED
    BY <1>1, <2>1
<1>4. CASE ClaimPromote(g)
  <2>1. PICK c \in Claim :
          /\ ResourceOf[c] = op[g].res
          /\ slot[op[g].res].gen = g /\ slot[op[g].res].stage = "pending"
          /\ slot' = [slot EXCEPT ![op[g].res] = ClaimedEntry(@, c, slotsClosed)]
          /\ op' = [op EXCEPT ![g].pc = "promoted", ![g].claim = c]
    BY <1>4 DEF ClaimPromote
  <2> DEFINE r == ResourceOf[c]
             e == ClaimedEntry(slot[r], c, slotsClosed)
  <2>2. /\ r \in Resource /\ slot[r].gen = g /\ slot[r].stage = "pending"
        /\ slot' = [slot EXCEPT ![r] = e] /\ op[g].pc = "claiming" /\ op[g].res = r
    BY <1>4, <2>1, Constants DEF ClaimPromote, At
  <2>3. e.stage = "claimed" /\ e.claim = c /\ e.gen = g /\ e.abandoned = slotsClosed
    <3>1. WellFormed(slot[r]) /\ slotsClosed \in BOOLEAN
      BY <2>2 DEF TypeParts, SlotTypes
    <3>2. e.stage = "claimed" /\ e.claim = c /\ e.gen = g
      BY <2>2, <3>1, ClaimedEntryFields
    <3>3. e.abandoned = slotsClosed
      BY <3>1 DEF ClaimedEntry, WellFormed, Entry
    <3> QED
      BY <3>2, <3>3
  <2>4. \A h \in Gens : /\ op'[h].pc = IF h = g THEN "promoted" ELSE op[h].pc
                        /\ op'[h].claim = IF h = g THEN c ELSE op[h].claim
                        /\ op'[h].res = op[h].res
    BY <2>1 DEF TypeParts, OpRecord
  <2>5. UNCHANGED <<slotsClosed, beat, ticker, task>>
    BY <1>4 DEF ClaimPromote, OffBeats, beats
  <2>6. \A s \in Resource : slot'[s] = IF s = r THEN e ELSE slot[s]
    BY <2>2 DEF TypeParts, SlotTypes
  <2>7. ResourceOf[c] = r
    OBVIOUS
  <2> HIDE DEF e, r
  <2>8. \A s \in Resource : Occupied(slot[s]) /\ slot[s].gen = g => s = r
    BY <2>2 DEF PairedParts, SlotsKnown
  <2>9. SlotsKnown'
    BY <2>2, <2>3, <2>4, <2>6, <2>7, <2>8 DEF PairedParts, SlotsKnown, Occupied
  <2>10. Drained'
    BY <2>3, <2>5, <2>6 DEF PairedParts, Drained
  <2>11. Resting'
    BY <2>5 DEF PairedParts, Resting
  <2>12. AllAccounted'
    <3> SUFFICES ASSUME NEW s \in Resource, slot'[s].stage = "claimed", ~slot'[s].abandoned
                 PROVE  Accounted(slot[s].claim, slot[s].gen)'
      BY DEF AllAccounted
    <3>1. CASE s = r
      BY <2>3, <2>4, <2>6, <3>1 DEF Accounted, Midway
    <3>2. CASE s # r
      <4>1. slot'[s] = slot[s] /\ slot[s].gen \in Gens
        BY <2>6, <3>2 DEF PairedParts, SlotsKnown, Occupied
      <4>2. Accounted(slot[s].claim, slot[s].gen)
        BY <4>1 DEF PairedParts, AllAccounted
      <4> QED
        BY <2>4, <2>5, <4>1, <4>2 DEF Accounted, Midway
    <3> QED
      BY <3>1, <3>2
  <2> QED
    BY <2>9, <2>10, <2>11, <2>12 DEF PairedParts
<1>5. CASE ClaimLook(g)
  <2>1. onward("gone") \/ onward("registering")
    BY <1>0, <1>5 DEF ClaimLook, At, OffBeats, beats, Midway
  <2> QED
    BY <1>1, <2>1
<1>6. CASE ClaimRegister(g)
  <2> DEFINE c == op[g].claim
             b == [gen |-> g, rev |-> 0, due |-> FALSE]
  <2>1. CASE Go(g, "refused") /\ UNCHANGED <<beat, ticker, task>>
    <3>1. onward("refused")
      BY <1>0, <1>6, <2>1 DEF ClaimRegister, slots, Midway
    <3> QED
      BY <1>1, <3>1
  <2>2. CASE /\ Go(g, "handle") /\ beat' = [beat EXCEPT ![c] = b] /\ beat[c] = Absent
             /\ IF NoEntries(beat) THEN Started ELSE UNCHANGED <<ticker, task>>
    <3>0. b \in Beat /\ b.gen = g
      BY Constants DEF Beat, Gens
    <3> HIDE DEF b
    <3>1. b \in Beat /\ b.gen = g /\ b # Absent
      BY <3>0, SlotsAssumption
    <3>2. \A x \in Claim : beat'[x] = IF x = c THEN b ELSE beat[x]
      BY <2>2, <3>1, BeatReplaced DEF TypeParts
    <3>3. \A h \in Gens : /\ op'[h].pc = (IF h = g THEN "handle" ELSE op[h].pc)
                          /\ op'[h].res = op[h].res /\ op'[h].claim = op[h].claim
      BY <1>0, <2>2, Going DEF TypeParts
    <3>4. /\ ticker.gen \in Int /\ ticker'.gen \in Int /\ ticker'.gen >= ticker.gen
          /\ \A i \in Tasks : \/ task'[i] = task[i]
                              \/ /\ ticker.gen < i /\ i <= ticker'.gen
                                 /\ task'[i].pc = "wait" /\ task'[i].removed = {}
      <4>1. ticker.gen \in Int
        BY Constants DEF TypeParts
      <4>2. CASE UNCHANGED <<ticker, task>>
        BY <4>1, <4>2
      <4>3. CASE Started
        BY <4>1, <4>3, Constants, StartedTicker DEF TypeParts
      <4> QED
        BY <2>2, <4>2, <4>3
    <3>10. Tasks \subseteq Int
      BY Constants DEF Tasks
    <3>11. \A i \in Tasks : i > ticker'.gen => task'[i].pc = "none"
      BY <3>4, <3>10 DEF PairedParts, Resting
    <3>12. \A i \in Tasks : task'[i].pc \in {"none", "wait", "checked"} => task'[i].removed = {}
      BY <3>4 DEF PairedParts, Resting
    <3>13. \A i \in Tasks : task[i].removed \subseteq task'[i].removed
      BY <3>4, <3>10 DEF PairedParts, Resting
    <3>5. Resting' /\ \A i \in Tasks : task[i].removed \subseteq task'[i].removed
      BY <3>11, <3>12, <3>13 DEF Resting
    <3>6. UNCHANGED <<slot, slotsClosed>>
      BY <1>6 DEF ClaimRegister, slots
    <3>7. ASSUME NEW r \in Resource, NEW d \in Claim, NEW h \in Gens, StillClaimed(r, d, h),
                 Accounted(d, h)
          PROVE  Accounted(d, h)'
      <4>1. h = g => d = c
        BY <3>7 DEF StillClaimed
      <4>2. beat[d] # Absent => d # c
        BY <2>2
      <4> QED
        BY <3>1, <3>2, <3>3, <3>5, <3>7, <4>1, <4>2 DEF Accounted
    <3> QED
      BY <3>3, <3>5, <3>6, <3>7, PairedStay
  <2> QED
    BY <1>6, <2>1, <2>2 DEF ClaimRegister
<1>7. CASE ClaimUndo(g)
  <2>1. onward("gone") \/ onward("undoing") \/ onward("released")
    BY <1>0, <1>7 DEF ClaimUndo, At, OffBeats, beats, Midway
  <2> QED
    BY <1>1, <2>1
<1>8. CASE LetGo(g)
  <2>1. onward("gone")
    BY <1>0, <1>8 DEF LetGo, At, OffBeats, beats, Midway
  <2> QED
    BY <1>1, <2>1
<1>9. CASE CompleteBegin(g)
  <2>1. onward("completing")
    BY <1>0, <1>9 DEF CompleteBegin, At, OffBeats, beats, Midway
  <2> QED
    BY <1>1, <2>1
<1>10. CASE CompleteUnregister(g)
  <2> DEFINE c == op[g].claim
  <2>1. Go(g, "unregistered") /\ UNCHANGED <<slot, slotsClosed, task>>
    BY <1>10 DEF CompleteUnregister, slots
  <2>2. \A h \in Gens : /\ op'[h].pc = (IF h = g THEN "unregistered" ELSE op[h].pc)
                        /\ op'[h].res = op[h].res /\ op'[h].claim = op[h].claim
    BY <1>0, <2>1, Going DEF TypeParts
  <2>3. \A d \in Claim : beat[d] # Absent /\ beat[d].gen # g => beat'[d] = beat[d]
    BY <1>10 DEF CompleteUnregister, TypeParts
  <2>4. ticker.gen \in Int /\ ticker'.gen \in Int /\ ticker'.gen >= ticker.gen
    <3>1. ticker' = ticker \/ ticker' = Stopped
      BY <1>10 DEF CompleteUnregister
    <3> QED
      BY <3>1, Constants, StoppedTicker DEF TypeParts
  <2>5. Resting'
    BY <2>1, <2>4, RestingStays DEF PairedParts
  <2>6. ASSUME NEW d \in Claim, NEW h \in Gens, Accounted(d, h) PROVE Accounted(d, h)'
    BY <2>1, <2>2, <2>3, <2>6 DEF Accounted, Midway
  <2> QED
    BY <2>1, <2>2, <2>5, <2>6, PairedStay
<1> QED
  BY <1>2, <1>3, <1>4, <1>5, <1>6, <1>7, <1>8, <1>9, <1>10 DEF OpStep

\* A step of one task that keeps what it has removed, and sets aside the entries
\* that it ends.
LEMMA PairedTurn ==
  ASSUME TypeParts, PairedParts, NEW i \in Tasks, task[i].pc # "none",
         \A j \in Tasks : j # i => task'[j] = task[j],
         task[i].removed \subseteq task'[i].removed,
         task'[i].pc \in {"none", "wait", "checked"} => task'[i].removed = {},
         ticker.gen \in Int, ticker'.gen \in Int, ticker'.gen >= ticker.gen,
         UNCHANGED <<slot, op, slotsClosed>>,
         \A c \in Claim :
           beat[c] # Absent =>
             \/ beat'[c] # Absent /\ beat'[c].gen = beat[c].gen
             \/ [claim |-> c, gen |-> beat[c].gen] \in task'[i].removed
  PROVE  PairedParts'
<1>1. Tasks \subseteq Int
  BY Constants DEF Tasks
<1>2. \A j \in Tasks : j > ticker'.gen => task'[j].pc = "none"
  BY <1>1 DEF PairedParts, Resting
<1>3. \A j \in Tasks : task'[j].pc \in {"none", "wait", "checked"} => task'[j].removed = {}
  BY DEF PairedParts, Resting
<1>4. Resting'
  BY <1>2, <1>3 DEF Resting
<1>5. \A j \in Tasks : task[j].removed \subseteq task'[j].removed
  OBVIOUS
<1>6. \A c \in Claim, h \in Gens : Accounted(c, h) => Accounted(c, h)'
  BY <1>5 DEF Accounted
<1> QED
  BY <1>4, <1>6, PairedStay

\* Steps of a ticker task keep the registries paired: what it removes it has to sweep.
LEMMA PairedTask ==
  ASSUME TypeParts, PairedParts, NEW i \in Tasks, TaskStep(i)
  PROVE  PairedParts'
<1>0. /\ task \in [Tasks -> TaskRecord] /\ task[i] \in TaskRecord
      /\ ticker \in [running : BOOLEAN, failed : BOOLEAN, gen : 0..MaxTicker + 1]
      /\ ticker.gen \in Int /\ ticker.gen >= ticker.gen
      /\ task[i].pc # "none" \/ task[i].removed = {}
  BY Constants DEF TypeParts, PairedParts, Resting
<1> DEFINE same == UNCHANGED <<slot, op, slotsClosed>>
<1>1. CASE Wake(i)
  <2>1. same /\ UNCHANGED <<beat, ticker>>
    BY <1>1 DEF Wake, OffSlots, slots
  <2>2. task[i].pc = "wait" /\ task[i].removed = {}
    BY <1>1 DEF Wake, In, PairedParts, Resting
  <2>3. (\A j \in Tasks : j # i => task'[j] = task[j]) /\ task'[i].removed = {}
    BY <1>0, <1>1, <2>2 DEF Wake, To, NoTask, TaskRecord
  <2> QED
    BY <1>0, <2>1, <2>2, <2>3, PairedTurn
<1>2. CASE Snapshot(i)
  <2>1. same /\ UNCHANGED <<beat, ticker>>
    BY <1>2 DEF Snapshot, OffSlots, slots
  <2>2. task[i].pc = "checked" /\ task[i].removed = {}
    BY <1>2 DEF Snapshot, In, PairedParts, Resting
  <2>3. (\A j \in Tasks : j # i => task'[j] = task[j]) /\ task'[i].removed = {}
    BY <1>0, <1>2, <2>2 DEF Snapshot, To, TaskRecord
  <2> QED
    BY <1>0, <2>1, <2>2, <2>3, PairedTurn
<1>3. CASE Call(i)
  <2>1. same /\ UNCHANGED <<beat, ticker>>
    BY <1>3 DEF Call, OffSlots, slots
  <2>2. task[i].pc = "loop"
    BY <1>3 DEF Call, In
  <2>3. (\A j \in Tasks : j # i => task'[j] = task[j]) /\ task'[i].removed = task[i].removed
        /\ task'[i].pc \in {"call", "loop"}
    BY <1>0, <1>3, <2>2 DEF Call, TaskRecord
  <2> QED
    BY <1>0, <2>1, <2>2, <2>3, PairedTurn
<1>4. CASE Answer(i)
  <2> DEFINE e == task[i].cur
  <2>1. same /\ UNCHANGED ticker
    BY <1>4 DEF Answer, OffSlots, slots
  <2>2. task[i].pc = "call" /\ e \in Copy
    BY <1>4 DEF Answer, In, TypeParts
  <2>3. ASSUME NEW x, Back(i, x)
        PROVE  /\ \A j \in Tasks : j # i => task'[j] = task[j]
               /\ task'[i].removed = task[i].removed \cup x /\ task'[i].pc = "loop"
    BY <1>0, <2>3 DEF Back, TaskRecord
  <2>4. CASE UNCHANGED beat /\ Back(i, {})
    BY <1>0, <2>1, <2>2, <2>3, <2>4, PairedTurn
  <2>5. ASSUME Back(i, {}), Current(e),
               \/ /\ e.rev < MaxRevision
                  /\ beat' = [beat EXCEPT ![e.claim].rev = e.rev + 1, ![e.claim].due = FALSE]
               \/ beat' = [beat EXCEPT ![e.claim].due = FALSE]
        PROVE  PairedParts'
    <3>1. beat \in [Claim -> Beat \cup {Absent}] /\ e.claim \in Claim /\ beat[e.claim] # Absent
      BY <2>2, <2>5 DEF TypeParts, Copy, Current
    <3> DEFINE b == beat[e.claim]
               advanced == [b EXCEPT !.rev = e.rev + 1, !.due = FALSE]
               later == [b EXCEPT !.due = FALSE]
    <3>2. b \in Beat /\ (e.rev < MaxRevision => e.rev + 1 \in 0..MaxRevision)
      BY <2>2, <3>1, Constants DEF Copy
    <3>3. later \in Beat /\ later.gen = b.gen
      BY <3>2 DEF Beat
    <3>4. e.rev < MaxRevision => advanced \in Beat /\ advanced.gen = b.gen
      BY <3>2 DEF Beat
    <3>5. beat' = [beat EXCEPT ![e.claim] = later]
          \/ (e.rev < MaxRevision /\ beat' = [beat EXCEPT ![e.claim] = advanced])
      BY <2>5, Zenon
    <3> HIDE DEF advanced, later
    <3>6. PICK n \in Beat : n.gen = b.gen /\ beat' = [beat EXCEPT ![e.claim] = n]
      BY <3>3, <3>4, <3>5
    <3>7. n # Absent
      BY SlotsAssumption
    <3>8. \A c \in Claim : beat[c] # Absent => beat'[c] # Absent /\ beat'[c].gen = beat[c].gen
      BY <3>1, <3>6, <3>7
    <3> QED
      BY <1>0, <2>1, <2>2, <2>3, <2>5, <3>8, PairedTurn
  <2>6. CASE /\ Current(e) /\ beat' = [beat EXCEPT ![e.claim] = Absent]
             /\ Back(i, {[claim |-> e.claim, gen |-> e.gen]})
    <3>1. \A c \in Claim : \/ beat'[c] = beat[c]
                           \/ [claim |-> c, gen |-> beat[c].gen] \in task'[i].removed
      BY <2>3, <2>6 DEF Current, TypeParts
    <3> QED
      BY <1>0, <2>1, <2>2, <2>3, <2>6, <3>1, PairedTurn
  <2> QED
    BY <1>4, <2>4, <2>5, <2>6 DEF Answer
<1>5. CASE Panic(i)
  <2>1. same /\ UNCHANGED beat /\ ticker'.gen = ticker.gen
    BY <1>0, <1>5 DEF Panic, OffSlots, slots
  <2>2. task[i].pc = "call"
    BY <1>5 DEF Panic, In
  <2>3. (\A j \in Tasks : j # i => task'[j] = task[j]) /\ task'[i].removed = task[i].removed
        /\ task'[i].pc = "ended"
    BY <1>0, <1>5 DEF Panic, NoTask, TaskRecord
  <2> QED
    BY <1>0, <2>1, <2>2, <2>3, PairedTurn
<1>6. CASE Finish(i)
  <2>1. same /\ UNCHANGED beat
    BY <1>6 DEF Finish, OffSlots, slots
  <2>2. task[i].pc = "loop"
    BY <1>6 DEF Finish, In
  <2>3. (\A j \in Tasks : j # i => task'[j] = task[j]) /\ task'[i].removed = task[i].removed
        /\ task'[i].pc = (IF task[i].removed = {} THEN "wait" ELSE "sweep")
    BY <1>0, <1>6 DEF Finish, To, After, TaskRecord
  <2>4. ticker'.gen \in Int /\ ticker'.gen >= ticker.gen
    <3>1. ticker' = ticker \/ ticker' = Stopped
      BY <1>6 DEF Finish
    <3> QED
      BY <1>0, <3>1, Constants, StoppedTicker DEF TypeParts
  <2> QED
    BY <1>0, <2>1, <2>2, <2>3, <2>4, PairedTurn
<1>7. CASE Sweep(i)
  <2>1. PICK b \in task[i].removed :
          /\ slot' = [r \in Resource |->
                        IF slot[r].stage = "claimed" /\ slot[r].claim = b.claim /\ slot[r].gen = b.gen
                        THEN Vacant ELSE slot[r]]
          /\ op' = [op EXCEPT ![b.gen].swept = TRUE]
          /\ task' = [task EXCEPT ![i].removed = @ \ {b},
                                  ![i].pc = IF task[i].removed = {b} THEN "wait" ELSE "sweep"]
    BY <1>7 DEF Sweep
  <2>2. task[i].pc = "sweep" /\ UNCHANGED <<slotsClosed, beat, ticker>>
    BY <1>7 DEF Sweep, In, beats
  <2>3. \A h \in Gens : /\ op'[h].pc = op[h].pc /\ op'[h].res = op[h].res
                        /\ op'[h].claim = op[h].claim
    BY <2>1 DEF TypeParts, OpRecord
  <2>4. /\ \A j \in Tasks : j # i => task'[j] = task[j]
        /\ task'[i].removed = task[i].removed \ {b}
        /\ task'[i].pc = (IF task[i].removed = {b} THEN "wait" ELSE "sweep")
    BY <1>0, <2>1 DEF TaskRecord
  <2>5. Resting'
    <3>1. \A j \in Tasks : task'[j].pc \in {"none", "wait", "checked"} => task'[j].removed = {}
      BY <2>4 DEF PairedParts, Resting
    <3>2. \A j \in Tasks : j > ticker'.gen => task'[j].pc = "none"
      BY <2>2, <2>4 DEF PairedParts, Resting
    <3> QED
      BY <3>1, <3>2 DEF Resting
  <2>6. ASSUME NEW r \in Resource, NEW c \in Claim, NEW h \in Gens, StillClaimed(r, c, h),
               Accounted(c, h)
        PROVE  Accounted(c, h)'
    <3>1. [claim |-> c, gen |-> h] # b
      BY <2>1, <2>6, VacantIsFree DEF StillClaimed, Vacant
    <3> QED
      BY <2>2, <2>3, <2>4, <2>6, <3>1 DEF Accounted
  <2>7. \A r \in Resource : slot'[r] = slot[r] \/ slot'[r] = Vacant
    BY <2>1
  <2>8. \A r \in Resource, c \in Claim, h \in Gens :
          StillClaimed(r, c, h) /\ Accounted(c, h) => Accounted(c, h)'
    BY <2>6
  <2> QED
    BY <2>2, <2>3, <2>5, <2>7, <2>8, PairedStay
<1> QED
  BY <1>1, <1>2, <1>3, <1>4, <1>5, <1>6, <1>7 DEF TaskStep

\* Every step keeps the registries paired.
LEMMA PairedKept == Types /\ Owners /\ Paired /\ [Next]_vars => Paired'
<1>0. /\ Paired <=> PairedParts
      /\ Paired' <=> PairedParts'
  BY AccountedParts DEF Paired, PairedParts
<1> SUFFICES ASSUME TypeParts, Owners, PairedParts, [Next]_vars PROVE PairedParts'
  BY <1>0, TypesParts
<1>1. ASSUME NEW r \in Resource, Acquire(r) PROVE PairedParts'
  <2> DEFINE g == nextGen + 1
             e == LocalPending(g, "mutation")
  <2>1. g \in Gens /\ UNCHANGED <<slotsClosed, beat, ticker, task>>
    BY <1>1, Constants DEF Acquire, TypeParts, Gens, beats
  <2>2. op[g].pc = "none"
    BY <1>1, <2>1 DEF Owners, FreshGenerations, TypeParts, Gens
  <2>3. \A h \in Gens : /\ h # g => op'[h] = op[h]
                        /\ op'[g].pc = "guard" /\ op'[g].res = r
    BY <1>1, <2>1 DEF Acquire, NoOp, TypeParts
  <2>4. e.stage = "pending" /\ e.gen = g
    BY DEF LocalPending, Vacant
  <2>5. \A s \in Resource : slot'[s] = IF s = r THEN e ELSE slot[s]
    BY <1>1 DEF Acquire, TypeParts, SlotTypes
  <2> HIDE DEF e, g
  <2>6. SlotsKnown'
    BY <2>1, <2>2, <2>3, <2>4, <2>5 DEF PairedParts, SlotsKnown, Occupied
  <2>7. Drained'
    BY <2>1, <2>4, <2>5 DEF PairedParts, Drained
  <2>8. Resting'
    BY <2>1 DEF PairedParts, Resting
  <2>9. ASSUME NEW s \in Resource, slot'[s].stage = "claimed", ~slot'[s].abandoned
        PROVE  Accounted(slot[s].claim, slot[s].gen)'
    <3>1. slot'[s] = slot[s]
      BY <2>4, <2>5, <2>9
    <3>2. slot[s].gen \in Gens /\ op[slot[s].gen].pc # "none"
      BY <2>9, <3>1 DEF PairedParts, SlotsKnown, Occupied
    <3>3. op'[slot[s].gen] = op[slot[s].gen]
      BY <2>2, <2>3, <3>2
    <3>4. Accounted(slot[s].claim, slot[s].gen)
      BY <2>9, <3>1 DEF PairedParts, AllAccounted
    <3> QED
      BY <2>1, <3>1, <3>3, <3>4 DEF Accounted
  <2>10. AllAccounted'
    BY <2>9 DEF AllAccounted
  <2> QED
    BY <2>6, <2>7, <2>8, <2>10 DEF PairedParts
<1>2. ASSUME NEW c \in Claim, Elapse(c) PROVE PairedParts'
  <2>1. UNCHANGED <<slot, slotsClosed, op, ticker, task>>
    BY <1>2 DEF Elapse, slots
  <2>2. beat[c] \in Beat
    BY <1>2 DEF Elapse, TypeParts
  <2> DEFINE b == [beat[c] EXCEPT !.due = TRUE]
  <2>3. b \in Beat /\ b.gen = beat[c].gen
    BY <2>2 DEF Beat
  <2>4. beat' = [beat EXCEPT ![c] = b]
    BY <1>2, Zenon DEF Elapse
  <2> HIDE DEF b
  <2>5. \A d \in Claim : beat[d] # Absent => beat'[d] # Absent /\ beat'[d].gen = beat[d].gen
    BY <2>3, <2>4, SlotsAssumption DEF TypeParts
  <2>6. \A d \in Claim, h \in Gens : Accounted(d, h) => Accounted(d, h)'
    BY <2>1, <2>5 DEF Accounted
  <2>7. Resting'
    BY <2>1 DEF PairedParts, Resting
  <2> QED
    BY <2>1, <2>6, <2>7, PairedStay
<1>3. CASE AbandonSlots
  <2>1. UNCHANGED <<op, beat, ticker, task>>
    BY <1>3 DEF AbandonSlots, beats
  <2>2. \A r \in Resource :
          /\ slot[r].stage = "claimed" =>
               /\ slot'[r].stage = "claimed" /\ slot'[r].abandoned
               /\ slot'[r].claim = slot[r].claim /\ slot'[r].gen = slot[r].gen
          /\ slot[r].stage # "claimed" => slot'[r] = slot[r]
    BY <1>3, AbandonedEntry DEF AbandonSlots, TypeParts, SlotTypes, WellFormed, Entry
  <2>3. SlotsKnown'
    BY <2>1, <2>2 DEF PairedParts, SlotsKnown, Occupied
  <2>4. Drained' /\ AllAccounted'
    BY <2>2 DEF Drained, AllAccounted
  <2>5. Resting'
    BY <2>1 DEF PairedParts, Resting
  <2> QED
    BY <2>3, <2>4, <2>5 DEF PairedParts
<1>4. CASE AbandonBeats \/ StopTicker \/ UNCHANGED vars
  <2>1. UNCHANGED <<slot, slotsClosed, op, beat, task>>
    BY <1>4 DEF AbandonBeats, StopTicker, vars, slots, beats
  <2>2. ticker' = ticker \/ ticker' = Stopped
    BY <1>4 DEF AbandonBeats, StopTicker, vars
  <2>3. ticker.gen \in Int /\ ticker'.gen \in Int /\ ticker'.gen >= ticker.gen
    BY <2>2, Constants, StoppedTicker DEF TypeParts
  <2>4. Resting'
    BY <2>1, <2>3, RestingStays DEF PairedParts
  <2>5. \A c \in Claim, h \in Gens : Accounted(c, h) => Accounted(c, h)'
    BY <2>1 DEF Accounted
  <2> QED
    BY <2>1, <2>4, <2>5, PairedStay
<1> QED
  BY <1>1, <1>2, <1>3, <1>4, PairedOp, PairedTask DEF Next, Gens, Tasks

\* At the start.
LEMMA PairedFirst == Init => Paired
BY DEF Init, Vacant, Occupied, NoTask, Tasks, Paired, SlotsKnown, Drained, Resting, ClaimedHasItsBeat

----------------------------------------------------------------------------
(***************************************************************************)
(* Revisions.                                                              *)
(***************************************************************************)

\* The copies of the entries that are due.
Due == {[claim |-> c, gen |-> beat[c].gen, rev |-> beat[c].rev] :
          c \in {d \in Claim : beat[d] # Absent /\ beat[d].due}}

\* A task copies what is due.
Copies(j) ==
  /\ In(j, "checked") /\ ~beatsClosed
  /\ task'[j].pc = "loop" /\ task'[j].todo = Due
  /\ UNCHANGED <<beat, ticker, op, beatsClosed>>

\* A task begins a callback.
Calls(j) ==
  \E e \in task[j].todo : /\ task'[j].todo = task[j].todo \ {e}
                          /\ task'[j].pc = "call" /\ task'[j].cur = e

\* What a step can do to the copies of a task.
Handled(j) ==
  \/ task'[j] = task[j]
  \/ task'[j].todo \subseteq task[j].todo /\ task'[j].pc \notin {"call", "checked"}
  \/ Copies(j) \/ Calls(j)
  \/ /\ ticker.gen = j /\ UNCHANGED ticker
     /\ task'[j].todo = task[j].todo /\ task'[j].pc = "checked"

\* A step of a task leaves the other tasks alone, and does one of these itself.
LEMMA HandledTask ==
  ASSUME TypeParts, NEW i \in Tasks, TaskStep(i), NEW j \in Tasks
  PROVE  Handled(j)
<1>0. task \in [Tasks -> TaskRecord] /\ task[i] \in TaskRecord
  BY DEF TypeParts
<1>1. ASSUME NEW q \in {"wait", "checked", "loop", "sweep"}, To(i, q)
      PROVE  task'[j] = task[j] \/ (j = i /\ task'[j].todo = task[j].todo /\ task'[j].pc = q)
  BY <1>0, <1>1 DEF To, TaskRecord
<1>2. CASE Wake(i)
  <2>1. CASE ticker.running /\ ticker.gen = i
    BY <1>1, <1>2, <2>1 DEF Wake, Handled
  <2>2. CASE ~(ticker.running /\ ticker.gen = i)
    BY <1>0, <1>2, <2>2 DEF Wake, Handled, NoTask, TaskRecord
  <2> QED
    BY <2>1, <2>2
<1>3. CASE Snapshot(i)
  <2>1. CASE beatsClosed
    BY <1>1, <1>3, <2>1 DEF Snapshot, Handled
  <2>2. CASE ~beatsClosed
    <3>1. UNCHANGED <<beat, ticker, op, beatsClosed>> /\ In(i, "checked")
      BY <1>3 DEF Snapshot, OffSlots
    <3>2. task' = [task EXCEPT ![i].pc = "loop", ![i].todo = Due]
      BY <1>3, <2>2 DEF Snapshot, Due
    <3> HIDE DEF Due
    <3>3. task'[j] = task[j] \/ (j = i /\ task'[j].pc = "loop" /\ task'[j].todo = Due)
      BY <1>0, <3>2 DEF TaskRecord
    <3> QED
      BY <2>2, <3>1, <3>3 DEF Handled, Copies
  <2> QED
    BY <2>1, <2>2
<1>4. CASE Call(i)
  <2>1. PICK e \in task[i].todo :
          task' = [task EXCEPT ![i].todo = @ \ {e},
                               ![i].pc  = IF Current(e) THEN "call" ELSE "loop",
                               ![i].cur = IF Current(e) THEN e ELSE NoBeat]
    BY <1>4 DEF Call
  <2>2. task'[j] = task[j] \/ (j = i /\ task'[j].todo = task[j].todo \ {e}
          /\ (\/ task'[j].pc = "call" /\ task'[j].cur = e
              \/ task'[j].pc = "loop"))
    <3>1. CASE Current(e)
      BY <1>0, <2>1, <3>1 DEF TaskRecord
    <3>2. CASE ~Current(e)
      BY <1>0, <2>1, <3>2 DEF TaskRecord
    <3> QED
      BY <3>1, <3>2
  <2> QED
    BY <2>1, <2>2 DEF Handled, Calls
<1>5. CASE Answer(i)
  <2>1. \E x : Back(i, x)
    BY <1>5 DEF Answer
  <2>2. task'[j] = task[j] \/ (task'[j].todo = task[j].todo /\ task'[j].pc = "loop")
    BY <1>0, <2>1 DEF Back, TaskRecord
  <2> QED
    BY <2>2 DEF Handled
<1>6. CASE Panic(i)
  BY <1>0, <1>6 DEF Panic, NoTask, TaskRecord, Handled
<1>7. CASE Finish(i)
  <2>1. To(i, After(i)) /\ After(i) \in {"wait", "sweep"}
    BY <1>7 DEF Finish, After
  <2> QED
    BY <1>1, <2>1 DEF Handled
<1>8. CASE Sweep(i)
  <2>1. PICK b : task' = [task EXCEPT ![i].removed = @ \ {b},
                               ![i].pc = IF task[i].removed = {b} THEN "wait" ELSE "sweep"]
    BY <1>8 DEF Sweep
  <2>2. task'[j] = task[j] \/ (task'[j].todo = task[j].todo /\ task'[j].pc \in {"wait", "sweep"})
    BY <1>0, <2>1 DEF TaskRecord
  <2> QED
    BY <2>2 DEF Handled
<1> QED
  BY <1>2, <1>3, <1>4, <1>5, <1>6, <1>7, <1>8 DEF TaskStep

\* Every step leaves each task's copies in one of these ways.
LEMMA HandledStep ==
  ASSUME TypeParts, [Next]_vars, NEW j \in Tasks
  PROVE  Handled(j)
<1>1. ASSUME NEW g \in 1..MaxGeneration, OpStep(g) PROVE Handled(j)
  <2>1. task' = task \/ Started
    BY <1>1 DEF OpStep, OffBeats, DropGuard, ClaimBegin, ClaimPromote, ClaimLook,
                ClaimRegister, ClaimUndo, LetGo, CompleteBegin, CompleteUnregister, CompleteRelease
  <2>2. Started => task'[j] = task[j] \/ task'[j] = [NoTask EXCEPT !.pc = "wait"]
    BY DEF Started, TypeParts
  <2> QED
    BY <2>1, <2>2 DEF Handled, NoTask
<1>2. CASE UNCHANGED task
  BY <1>2 DEF Handled
<1> QED
  BY <1>1, <1>2, HandledTask
     DEF Next, Acquire, Elapse, AbandonSlots, AbandonBeats, StopTicker, vars, Tasks

\* A callback of task k has advanced the entry of c, or made it no longer due.
Answered(c, k) ==
  /\ In(k, "call") /\ Current(task[k].cur) /\ c = task[k].cur.claim
  /\ task'[k].pc = "loop" /\ task'[k].todo = task[k].todo

\* What a step can do to an entry.
Changed(c) ==
  \/ beat'[c] = Absent
  \/ /\ beat[c] # Absent /\ beat'[c].gen = beat[c].gen /\ beat'[c].rev = beat[c].rev
     /\ ~beat'[c].due \/ beat[c].due \/ (UNCHANGED task /\ \A i \in Tasks : ~In(i, "checked"))
  \/ /\ beat[c] # Absent /\ beat'[c].gen = beat[c].gen /\ ~beat'[c].due
     /\ \E k \in Tasks : Answered(c, k)
  \/ beat[c] = Absent /\ ~beat'[c].due /\ op[beat'[c].gen].pc = "registering"

\* Every step leaves each entry in one of these ways.
LEMMA ChangedStep ==
  ASSUME TypeParts, [Next]_vars, NEW c \in Claim
  PROVE  Changed(c)
<1>0. beat \in [Claim -> Beat \cup {Absent}] /\ task \in [Tasks -> TaskRecord]
  BY DEF TypeParts
<1>1. CASE UNCHANGED beat
  BY <1>1 DEF Changed
<1>2. ASSUME NEW d, beat' = [beat EXCEPT ![d] = Absent] PROVE Changed(c)
  BY <1>0, <1>2 DEF Changed
<1>3. ASSUME NEW g \in Gens, OpStep(g) PROVE Changed(c)
  <2>1. CASE ClaimRegister(g)
    <3> DEFINE n == [gen |-> g, rev |-> 0, due |-> FALSE]
    <3>1. beat' = beat \/ (beat[op[g].claim] = Absent /\ beat' = [beat EXCEPT ![op[g].claim] = n])
      BY <2>1 DEF ClaimRegister
    <3>2. beat'[c] = beat[c] \/ (beat[c] = Absent /\ beat'[c] = n)
      BY <1>0, <3>1
    <3>3. op[g].pc = "registering"
      BY <2>1 DEF ClaimRegister, At
    <3> QED
      BY <3>2, <3>3 DEF Changed
  <2>2. CASE CompleteUnregister(g)
    BY <1>1, <1>2, <2>2 DEF CompleteUnregister
  <2> QED
    BY <1>1, <1>3, <2>1, <2>2
       DEF OpStep, OffBeats, beats, DropGuard, ClaimBegin, ClaimPromote, ClaimLook,
           ClaimUndo, LetGo, CompleteBegin, CompleteRelease
<1>4. ASSUME NEW i \in Tasks, TaskStep(i) PROVE Changed(c)
  <2>1. CASE Answer(i)
    <3> DEFINE e == task[i].cur
    <3>1. CASE UNCHANGED beat
      BY <1>1, <3>1
    <3>2. CASE beat' = [beat EXCEPT ![e.claim] = Absent]
      BY <1>2, <3>2
    <3>3. ASSUME Current(e), Back(i, {}),
                 \/ /\ e.rev < MaxRevision
                    /\ beat' = [beat EXCEPT ![e.claim].rev = e.rev + 1, ![e.claim].due = FALSE]
                 \/ beat' = [beat EXCEPT ![e.claim].due = FALSE]
          PROVE  Changed(c)
      <4>0. In(i, "call") /\ e \in Copy
        BY <2>1 DEF Answer, TypeParts
      <4>1. e.claim \in Claim /\ beat[e.claim] \in Beat /\ beat[e.claim] # Absent
        BY <1>0, <3>3, <4>0 DEF Current, Copy
      <4>2. task'[i].pc = "loop" /\ task'[i].todo = task[i].todo
        BY <1>0, <3>3 DEF Back, TaskRecord
      <4>3. c # e.claim => beat'[c] = beat[c]
        BY <1>0, <3>3
      <4>4. beat'[e.claim].gen = beat[e.claim].gen /\ ~beat'[e.claim].due
        <5>1. CASE beat' = [beat EXCEPT ![e.claim].due = FALSE]
          BY <1>0, <4>1, <5>1 DEF Beat
        <5>2. CASE beat' = [beat EXCEPT ![e.claim].rev = e.rev + 1, ![e.claim].due = FALSE]
          BY <1>0, <4>1, <5>2 DEF Beat
        <5> QED
          BY <3>3, <5>1, <5>2
      <4>5. c = e.claim => Answered(c, i)
        BY <3>3, <4>0, <4>2 DEF Answered
      <4> QED
        BY <4>1, <4>3, <4>4, <4>5 DEF Changed
    <3> QED
      BY <2>1, <3>1, <3>2, <3>3 DEF Answer
  <2>2. CASE UNCHANGED beat
    BY <1>1, <2>2
  <2>3. Wake(i) \/ Snapshot(i) \/ Call(i) \/ Panic(i) \/ Finish(i) \/ Sweep(i) => UNCHANGED beat
    BY DEF Wake, Snapshot, Call, Panic, Finish, Sweep, beats
  <2> QED
    BY <1>4, <2>1, <2>2, <2>3 DEF TaskStep
<1>5. ASSUME NEW d \in Claim, Elapse(d) PROVE Changed(c)
  <2>1. c # d => beat'[c] = beat[c]
    BY <1>0, <1>5 DEF Elapse
  <2>2. beat[d] # Absent /\ beat'[d].gen = beat[d].gen /\ beat'[d].rev = beat[d].rev
    BY <1>0, <1>5 DEF Elapse, Beat
  <2>3. UNCHANGED task /\ \A i \in Tasks : ~In(i, "checked")
    BY <1>5 DEF Elapse, Tasks
  <2> QED
    BY <2>1, <2>2, <2>3 DEF Changed
<1> QED
  BY <1>1, <1>3, <1>4, <1>5
     DEF Next, Acquire, AbandonSlots, AbandonBeats, StopTicker, vars, beats, Gens, Tasks

\* Shutdown of the heartbeats is final, and the ticker's generation changes only then
\* or where there is nothing to beat.
LEMMA GenerationStep ==
  ASSUME TypeParts, TickerAlive, [Next]_vars
  PROVE  /\ beatsClosed => beatsClosed'
         /\ ticker'.gen = ticker.gen \/ NoEntries(beat) \/ NoEntries(beat') \/ beatsClosed'
<1>1. ASSUME NEW g \in 1..MaxGeneration, OpStep(g)
      PROVE  /\ UNCHANGED beatsClosed
             /\ ticker' = ticker \/ NoEntries(beat) \/ NoEntries(beat')
  BY <1>1 DEF OpStep, OffBeats, beats, DropGuard, ClaimBegin, ClaimPromote, ClaimLook,
              ClaimRegister, ClaimUndo, LetGo, CompleteBegin, CompleteUnregister, CompleteRelease
<1>2. ASSUME NEW i \in 1..MaxTicker, TaskStep(i)
      PROVE  UNCHANGED beatsClosed /\ (ticker'.gen = ticker.gen \/ NoEntries(beat))
  BY <1>2 DEF TypeParts, TaskStep, Wake, Snapshot, Call, Answer, Panic, Finish, Sweep, OffSlots, beats
<1>3. CASE AbandonBeats \/ StopTicker
  <2>1. beatsClosed'
    BY <1>3 DEF TickerAlive, AbandonBeats, StopTicker, beats
  <2> QED
    BY <2>1
<1>4. CASE UNCHANGED <<beatsClosed, ticker>>
  BY <1>4
<1>5. (\E r \in Resource : Acquire(r)) \/ (\E c \in Claim : Elapse(c)) \/ AbandonSlots \/ UNCHANGED vars
        => UNCHANGED <<beatsClosed, ticker>>
  BY DEF Acquire, Elapse, AbandonSlots, vars, beats
<1> QED
  BY <1>1, <1>2, <1>3, <1>4, <1>5 DEF Next

\* An operation that has had its heartbeat does not go back.
LEMMA PastStep ==
  ASSUME TypeParts, Owners, [Next]_vars, NEW h \in Gens, op[h].pc \in Past
  PROVE  op'[h].pc \in Past
<1>0. op \in [Gens -> OpRecord] /\ nextGen \in 0..MaxGeneration
  BY DEF TypeParts
<1>1. ASSUME NEW r \in Resource, Acquire(r) PROVE op'[h].pc \in Past
  <2>1. nextGen + 1 \in Gens /\ op[nextGen + 1].pc = "none"
    BY <1>0, <1>1, Constants DEF Acquire, Owners, FreshGenerations, Gens
  <2>2. h # nextGen + 1
    BY <2>1 DEF Past, Beating
  <2> QED
    BY <1>0, <1>1, <2>2 DEF Acquire
<1>2. ASSUME NEW g \in Gens, OpStep(g) PROVE op'[h].pc \in Past
  <2>1. ASSUME NEW q \in {"gone", "completing", "unregistered", "released"}, Go(g, q)
        PROVE  op'[h].pc \in Past
    BY <1>0, <2>1 DEF Go, Past, Beating, OpRecord
  <2>2. ASSUME NEW q, NEW z, op' = [op EXCEPT ![g].pc = q, ![g].claim = z], h # g PROVE op'[h].pc \in Past
    BY <1>0, <2>2
  <2>3. ASSUME NEW q, Go(g, q), h # g PROVE op'[h].pc \in Past
    BY <1>0, <2>3 DEF Go
  <2>4. op[g].pc \notin Past => h # g
    OBVIOUS
  <2>5. CASE DropGuard(g) \/ LetGo(g) \/ CompleteBegin(g) \/ CompleteUnregister(g) \/ CompleteRelease(g)
    BY <2>1, <2>5 DEF DropGuard, LetGo, CompleteBegin, CompleteUnregister, CompleteRelease
  <2>6. CASE ClaimPromote(g)
    <3>1. \E c \in Claim : op' = [op EXCEPT ![g].pc = "promoted", ![g].claim = c]
      BY <2>6 DEF ClaimPromote
    <3>2. h # g
      BY <2>4, <2>6 DEF ClaimPromote, At, Past, Beating
    <3> QED
      BY <2>2, <3>1, <3>2
  <2>7. CASE ClaimBegin(g) \/ ClaimLook(g) \/ ClaimRegister(g) \/ ClaimUndo(g)
    <3>1. \E q : Go(g, q)
      BY <2>7 DEF ClaimBegin, ClaimLook, ClaimRegister, ClaimUndo
    <3>2. h # g
      BY <2>4, <2>7 DEF ClaimBegin, ClaimLook, ClaimRegister, ClaimUndo, At, Past, Beating
    <3> QED
      BY <2>3, <3>1, <3>2
  <2> QED
    BY <1>2, <2>5, <2>6, <2>7 DEF OpStep
<1>3. ASSUME NEW i \in Tasks, TaskStep(i) PROVE op'[h].pc \in Past
  <2>1. UNCHANGED op \/ \E b : op' = [op EXCEPT ![b].swept = TRUE]
    BY <1>3 DEF TaskStep, Wake, Snapshot, Call, Answer, Panic, Finish, Sweep, OffSlots
  <2> QED
    BY <1>0, <2>1 DEF OpRecord
<1> QED
  BY <1>1, <1>2, <1>3
     DEF Next, Elapse, AbandonSlots, AbandonBeats, StopTicker, vars, Gens, Tasks

\* A task holds nothing it did not hold, unless it has just copied it.
LEMMA HeldStep ==
  ASSUME NEW j \in Tasks, Handled(j), ~Copies(j)
  PROVE  Held(task'[j]) \subseteq Held(task[j])
BY DEF Handled, Calls, Held

\* The copies of a task stay of different entries.
LEMMA DistinctStep ==
  ASSUME TypeParts, NEW j \in Tasks, Handled(j), Distinct(task[j])
  PROVE  Distinct(task'[j])
<1>1. CASE task'[j].todo \subseteq task[j].todo /\ task'[j].pc # "call"
  BY <1>1 DEF Distinct
<1>2. CASE Calls(j)
  BY <1>2 DEF Calls, Distinct
<1>3. CASE Copies(j)
  BY <1>3 DEF Copies, Due, Distinct
<1> QED
  BY <1>1, <1>2, <1>3 DEF Handled

\* A copy that still counts after a step did before, and its entry was not advanced.
LEMMA CurrentStep ==
  ASSUME TypeParts, TickerAlive, CopiesDistinct, CopiesPast, CopiesLatest, [Next]_vars,
         NEW j \in Tasks, NEW e \in Held(task[j]), e \in Held(task'[j]), Current(e)'
  PROVE  j = ticker'.gen /\ beat'[e.claim].rev = e.rev
<1>0. e \in Copy /\ op[e.gen].pc \in Past /\ ~beatsClosed'
  BY DEF TypeParts, TaskRecord, Held, In, CopiesPast, Current
<1>1. Changed(e.claim) /\ beat'[e.claim] # Absent /\ beat'[e.claim].gen = e.gen
  BY <1>0, ChangedStep DEF Current, Copy
<1>2. beat[e.claim] # Absent /\ beat[e.claim].gen = e.gen
  BY <1>0, <1>1 DEF Changed, Past, Beating
<1>3. Current(e) /\ e.claim \in Claim
  BY <1>0, <1>2, GenerationStep DEF Current, Copy
<1>4. j = ticker.gen /\ beat[e.claim].rev = e.rev
  BY <1>3 DEF CopiesLatest
<1>5. ticker'.gen = ticker.gen
  BY <1>0, <1>1, <1>2, <1>3, GenerationStep DEF NoEntries
<1>6. ASSUME NEW k \in Tasks, Answered(e.claim, k) PROVE FALSE
  <2> DEFINE d == task[k].cur
  <2>1. d \in Held(task[k]) /\ Current(d)
    BY <1>6 DEF Answered, In, Held
  <2>2. k = j
    BY <1>4, <2>1 DEF CopiesLatest
  <2>3. e \in task[j].todo
    BY <1>6, <2>2 DEF Answered, Held
  <2> QED
    BY <1>6, <2>2, <2>3 DEF Answered, In, CopiesDistinct, Distinct
<1>7. beat'[e.claim].rev = beat[e.claim].rev
  BY <1>1, <1>2, <1>6 DEF Changed
<1> QED
  BY <1>4, <1>5, <1>7

\* Every step keeps the copies up to date.
LEMMA UpToDateKept == Types /\ Owners /\ TickerAlive /\ UpToDate /\ [Next]_vars => UpToDate'
<1> SUFFICES ASSUME TypeParts, Owners, TickerAlive, UpToDate, [Next]_vars PROVE UpToDate'
  BY TypesParts
<1> USE DEF UpToDate
<1>1. \A j \in Tasks : Handled(j)
  BY HandledStep
<1>2. CopiesDistinct'
  BY <1>1, DistinctStep DEF CopiesDistinct
<1>3. ASSUME NEW j \in Tasks, Copies(j), NEW e \in Held(task'[j])
      PROVE  /\ e.claim \in Claim /\ beat[e.claim] # Absent /\ beat[e.claim].due
             /\ e.gen = beat[e.claim].gen /\ e.rev = beat[e.claim].rev
  BY <1>3 DEF Copies, Held, Due
<1>4. CopiesPast'
  <2> SUFFICES ASSUME NEW j \in Tasks, NEW e \in Held(task'[j]) PROVE op'[e.gen].pc \in Past
    BY DEF CopiesPast
  <2>1. CASE Copies(j)
    BY <1>3, <2>1 DEF Copies, Owners, BeatsOwned, Past
  <2>2. CASE ~Copies(j)
    <3>1. e \in Held(task[j])
      BY <1>1, <2>2, HeldStep
    <3>2. e.gen \in Gens /\ op[e.gen].pc \in Past
      BY <3>1 DEF TypeParts, TaskRecord, Held, In, CopiesPast, Copy, Gens
    <3> QED
      BY <3>2, PastStep
  <2> QED
    BY <2>1, <2>2
<1>5. CopiesLatest'
  <2> SUFFICES ASSUME NEW j \in Tasks, NEW e \in Held(task'[j]), Current(e)'
               PROVE  j = ticker'.gen /\ beat'[e.claim].rev = e.rev
    BY DEF CopiesLatest
  <2>1. CASE Copies(j)
    BY <1>3, <2>1 DEF Copies, NothingDue
  <2>2. CASE ~Copies(j)
    BY <1>1, <2>2, HeldStep, CurrentStep
  <2> QED
    BY <2>1, <2>2
<1>6. NothingDue'
  <2> SUFFICES ASSUME ~beatsClosed', NEW j \in Tasks, task'[j].pc = "checked", j # ticker'.gen,
                      NEW c \in Claim, beat'[c] # Absent
               PROVE  ~beat'[c].due
    BY DEF NothingDue, In
  <2>1. ~beatsClosed
    BY GenerationStep
  <2>2. Changed(c)
    BY ChangedStep
  <2>3. CASE beat[c] = Absent
    BY <2>2, <2>3 DEF Changed
  <2>4. CASE beat[c] # Absent
    <3>1. ticker'.gen = ticker.gen
      BY <2>4, GenerationStep DEF NoEntries
    <3>2. task[j].pc = "checked"
      BY <1>1, <3>1 DEF Handled, Copies, Calls
    <3>3. ~beat[c].due
      BY <2>1, <2>4, <3>1, <3>2 DEF NothingDue, In
    <3> QED
      BY <2>2, <2>4, <3>2, <3>3 DEF Changed, In
  <2> QED
    BY <2>3, <2>4
<1> QED
  BY <1>2, <1>4, <1>5, <1>6

\* At the start.
LEMMA UpToDateFirst == Init => UpToDate
BY DEF Init, UpToDate, CopiesDistinct, CopiesPast, CopiesLatest, NothingDue, Distinct, Held, NoTask, In, Tasks

----------------------------------------------------------------------------
(***************************************************************************)
(* What each operation has come through.                                   *)
(***************************************************************************)

\* A step that keeps each operation's claim and what became of its heartbeat, and
\* brings back none that went.
LEMMA HistoryStay ==
  ASSUME TypeParts, History,
         \A r \in Resource : slot'[r].kind = "mutation",
         stopping' = "no" => ~slotsClosed',
         \A h \in Gens : /\ OpShape(op'[h]) /\ op'[h].swept = op[h].swept
                         /\ op[h].claim # NoClaim => op'[h].claim = op[h].claim,
         \A c \in Claim : beat'[c] # Absent =>
           /\ beat'[c].gen \in Gens
           /\ (beat[c] # Absent /\ beat'[c].gen = beat[c].gen) \/ ~op[beat'[c].gen].swept,
         \A j \in Tasks : task'[j].removed \subseteq task[j].removed
  PROVE  History'
<1>1. OpHistory'
  BY DEF OpHistory
<1>2. \A c \in Claim : beat'[c] # Absent => ~op'[beat'[c].gen].swept
  BY DEF History, SweptOnce
<1>3. \A i \in Tasks : \A b \in task'[i].removed : ~op'[b.gen].swept /\ op'[b.gen].claim = b.claim
  <2> SUFFICES ASSUME NEW i \in Tasks, NEW b \in task'[i].removed
               PROVE  ~op'[b.gen].swept /\ op'[b.gen].claim = b.claim
    OBVIOUS
  <2>1. b \in task[i].removed
    OBVIOUS
  <2>2. b.claim \in Claim /\ b.gen \in Gens
    BY <2>1 DEF TypeParts, TaskRecord
  <2>3. ~op[b.gen].swept /\ op[b.gen].claim = b.claim
    BY <2>1 DEF History, SweptOnce
  <2> QED
    BY <2>2, <2>3, NoClaimAssumption
<1>4. \A i, j \in Tasks : i # j => task'[i].removed \cap task'[j].removed = {}
  BY DEF History, SweptOnce
<1> QED
  BY <1>1, <1>2, <1>3, <1>4 DEF History, SweptOnce

\* An operation that goes on keeps its shape.
LEMMA ShapeGo ==
  ASSUME TypeParts, OpHistory, NEW g \in Gens, NEW q \in OpPc, Go(g, q), op[g].pc # "none",
         q \in Early => op[g].pc \in Early, op[g].pc \in Past => q \in Past
  PROVE  \A h \in Gens : /\ OpShape(op'[h]) /\ op'[h].swept = op[h].swept
                         /\ op'[h].claim = op[h].claim
<1>1. op \in [Gens -> OpRecord] /\ op[g] \in OpRecord
  BY DEF TypeParts
<1>2. \A h \in Gens : h # g => op'[h] = op[h]
  BY <1>1 DEF Go
<1>3. op'[g].pc = q /\ op'[g].res = op[g].res /\ op'[g].claim = op[g].claim /\ op'[g].swept = op[g].swept
  BY <1>1 DEF Go, OpRecord
<1>4. \A h \in Gens : OpShape(op[h])
  BY DEF OpHistory
<1>5. OpShape(op'[g])
  BY <1>3, <1>4 DEF OpShape
<1> QED
  BY <1>2, <1>3, <1>4, <1>5

\* A release leaves slots of operations.
LEMMA KindRelease ==
  ASSUME TypeParts, OpHistory, NEW g \in Gens, ReleaseSlot(g)
  PROVE  \A r \in Resource : slot'[r].kind = "mutation"
<1>1. \A r \in Resource : slot'[r] = slot[r] \/ slot'[r] = Vacant
  BY DEF ReleaseSlot, TypeParts, SlotTypes
<1>2. Vacant.kind = "mutation"
  BY DEF Vacant
<1> QED
  BY <1>1, <1>2 DEF OpHistory

\* A step of an operation keeps the history.
LEMMA HistoryOp ==
  ASSUME TypeParts, History, NEW g \in Gens, OpStep(g)
  PROVE  History'
<1>0. /\ \A c \in Claim : beat[c] # Absent => beat[c].gen \in Gens
      /\ \A r \in Resource : slot[r].kind = "mutation"
      /\ stopping = "no" => ~slotsClosed
      /\ \A h \in Gens : OpShape(op[h])
      /\ op \in [Gens -> OpRecord] /\ op[g] \in OpRecord
      /\ OpHistory
  BY DEF TypeParts, Beat, Gens, History, OpHistory
<1>1. {"claiming", "registering", "refused", "undoing", "handle", "completing",
       "unregistered", "released", "gone"} \subseteq OpPc
  BY DEF OpPc
<1>2. ASSUME NEW q \in OpPc, Go(g, q), op[g].pc # "none",
             q \in Early => op[g].pc \in Early, op[g].pc \in Past => q \in Past,
             slot' = slot \/ ReleaseSlot(g), OffBeats
      PROVE  History'
  <2>1. \A r \in Resource : slot'[r].kind = "mutation"
    BY <1>0, <1>2, KindRelease
  <2>2. \A h \in Gens : /\ OpShape(op'[h]) /\ op'[h].swept = op[h].swept
                        /\ op'[h].claim = op[h].claim
    BY <1>0, <1>2, ShapeGo
  <2>3. UNCHANGED <<slotsClosed, beat, task, stopping>>
    BY <1>2 DEF OffBeats, beats
  <2> QED
    BY <1>0, <2>1, <2>2, <2>3, HistoryStay
<1> USE DEF At
<1>3. CASE DropGuard(g)
  BY <1>1, <1>2, <1>3 DEF DropGuard, Early, Past, Beating
<1>4. CASE ClaimBegin(g)
  BY <1>1, <1>2, <1>4 DEF ClaimBegin, Early, Past, Beating
<1>5. CASE ClaimPromote(g)
  <2>1. PICK c \in Claim :
          /\ slot' = [slot EXCEPT ![op[g].res] = ClaimedEntry(@, c, slotsClosed)]
          /\ op' = [op EXCEPT ![g].pc = "promoted", ![g].claim = c]
    BY <1>5 DEF ClaimPromote
  <2>2. op[g].pc = "claiming" /\ UNCHANGED <<slotsClosed, beat, task, stopping>>
    BY <1>5 DEF ClaimPromote, OffBeats, beats
  <2>3. \A r \in Resource : slot'[r].kind = "mutation"
    <3>1. \A e \in Entry : ClaimedEntry(e, c, slotsClosed).kind = e.kind
      BY DEF ClaimedEntry, Entry
    <3>2. slot \in [Resource -> Entry]
      BY DEF TypeParts, SlotTypes
    <3> QED
      BY <1>0, <2>1, <3>1, <3>2
  <2>4. /\ \A h \in Gens : h # g => op'[h] = op[h]
        /\ op'[g].pc = "promoted" /\ op'[g].res = op[g].res /\ op'[g].swept = op[g].swept
    BY <1>0, <2>1 DEF OpRecord
  <2>5. OpShape(op'[g]) /\ op[g].claim = NoClaim
    BY <1>0, <2>2, <2>4 DEF OpShape, Early, Past, Beating
  <2> QED
    BY <1>0, <2>2, <2>3, <2>4, <2>5, HistoryStay
<1>6. CASE ClaimLook(g)
  BY <1>1, <1>2, <1>6 DEF ClaimLook, Early, Past, Beating
<1>7. CASE ClaimRegister(g)
  <2> DEFINE n == [gen |-> g, rev |-> 0, due |-> FALSE]
  <2>1. UNCHANGED <<slot, slotsClosed, stopping>> /\ op[g].pc = "registering"
    BY <1>7 DEF ClaimRegister, slots
  <2>2. \E q \in {"refused", "handle"} : Go(g, q)
    BY <1>7 DEF ClaimRegister
  <2>3. \A h \in Gens : /\ OpShape(op'[h]) /\ op'[h].swept = op[h].swept
                        /\ op'[h].claim = op[h].claim
    BY <1>0, <1>1, <2>1, <2>2, ShapeGo DEF Early, Past, Beating
  <2>4. ~op[g].swept
    BY <1>0, <2>1 DEF OpShape, Past, Beating
  <2>5. \A c \in Claim : beat'[c] = beat[c] \/ beat'[c] = n
    BY <1>7 DEF ClaimRegister, TypeParts
  <2>6. \A j \in Tasks : task'[j].removed \subseteq task[j].removed
    <3>1. task' = task \/ task' = [task EXCEPT ![ticker.gen + 1] = [NoTask EXCEPT !.pc = "wait"]]
      BY <1>7 DEF ClaimRegister, Started
    <3> QED
      BY <3>1 DEF TypeParts, NoTask
  <2> QED
    BY <1>0, <2>1, <2>3, <2>4, <2>5, <2>6, HistoryStay
<1>8. CASE ClaimUndo(g)
  BY <1>1, <1>2, <1>8 DEF ClaimUndo, Early, Past, Beating
<1>9. CASE LetGo(g) \/ CompleteBegin(g)
  BY <1>1, <1>2, <1>9 DEF LetGo, CompleteBegin, Early, Past, Beating
<1>10. CASE CompleteUnregister(g)
  <2>1. /\ UNCHANGED <<slot, slotsClosed, stopping, task>> /\ op[g].pc = "completing"
        /\ Go(g, "unregistered")
    BY <1>10 DEF CompleteUnregister, slots
  <2>2. \A h \in Gens : /\ OpShape(op'[h]) /\ op'[h].swept = op[h].swept
                        /\ op'[h].claim = op[h].claim
    BY <1>0, <1>1, <2>1, ShapeGo DEF Early, Past, Beating
  <2>3. beat' = beat \/ \E c : beat' = [beat EXCEPT ![c] = Absent]
    BY <1>10 DEF CompleteUnregister
  <2>4. \A c \in Claim : beat'[c] = beat[c] \/ beat'[c] = Absent
    BY <2>3 DEF TypeParts
  <2> QED
    BY <1>0, <2>1, <2>2, <2>4, HistoryStay
<1>11. CASE CompleteRelease(g)
  BY <1>1, <1>2, <1>11 DEF CompleteRelease, Early, Past, Beating
<1> QED
  BY <1>3, <1>4, <1>5, <1>6, <1>7, <1>8, <1>9, <1>10, <1>11 DEF OpStep

\* A step of a task keeps it.
LEMMA HistoryTask ==
  ASSUME TypeParts, Owners, History, NEW i \in Tasks, TaskStep(i)
  PROVE  History'
<1>0. /\ \A c \in Claim : beat[c] # Absent => beat[c].gen \in Gens
      /\ \A r \in Resource : slot[r].kind = "mutation"
      /\ stopping = "no" => ~slotsClosed
      /\ \A h \in Gens : OpShape(op[h])
      /\ op \in [Gens -> OpRecord]
      /\ task \in [Tasks -> TaskRecord] /\ task[i] \in TaskRecord
  BY DEF TypeParts, Beat, Gens, History, OpHistory
<1>1. ASSUME OffSlots, \A j \in Tasks : task'[j].removed \subseteq task[j].removed,
             \A c \in Claim : beat'[c] # Absent => beat[c] # Absent /\ beat'[c].gen = beat[c].gen
      PROVE  History'
  BY <1>0, <1>1, HistoryStay DEF OffSlots, slots
<1>2. CASE Wake(i) \/ Snapshot(i) \/ Call(i) \/ Panic(i) \/ Finish(i)
  <2>1. OffSlots /\ UNCHANGED beat
    BY <1>2 DEF Wake, Snapshot, Call, Panic, Finish
  <2>2. \A j \in Tasks : task'[j].removed \subseteq task[j].removed
    <3>1. CASE Wake(i)
      BY <1>0, <3>1 DEF Wake, To, NoTask, TaskRecord
    <3>2. CASE Snapshot(i)
      BY <1>0, <3>2 DEF Snapshot, To, TaskRecord
    <3>3. CASE Call(i)
      BY <1>0, <3>3 DEF Call, TaskRecord
    <3>4. CASE Panic(i)
      BY <1>0, <3>4 DEF Panic, NoTask, TaskRecord
    <3>5. CASE Finish(i)
      BY <1>0, <3>5 DEF Finish, To, TaskRecord
    <3> QED
      BY <1>2, <3>1, <3>2, <3>3, <3>4, <3>5
  <2> QED
    BY <1>1, <2>1, <2>2
<1>3. CASE Answer(i)
  <2> DEFINE e == task[i].cur
             b == [claim |-> e.claim, gen |-> e.gen]
  <2>0. OffSlots /\ e \in Copy
    BY <1>3 DEF Answer, TypeParts
  <2>1. ASSUME Back(i, {}) PROVE \A j \in Tasks : task'[j].removed \subseteq task[j].removed
    BY <1>0, <2>1 DEF Back, TaskRecord
  <2>2. CASE UNCHANGED beat /\ Back(i, {})
    BY <1>1, <2>0, <2>1, <2>2
  <2>3. ASSUME Back(i, {}), Current(e), \A c \in Claim : c # e.claim => beat'[c] = beat[c],
               beat'[e.claim].gen = beat[e.claim].gen
        PROVE  History'
    BY <1>1, <2>0, <2>1, <2>3 DEF Current
  <2>4. ASSUME Current(e), beat' = [beat EXCEPT ![e.claim].rev = e.rev + 1, ![e.claim].due = FALSE]
        PROVE  (\A c \in Claim : c # e.claim => beat'[c] = beat[c]) /\ beat'[e.claim].gen = beat[e.claim].gen
    BY <2>0, <2>4 DEF Current, TypeParts, Beat, Copy
  <2>5. ASSUME Current(e), beat' = [beat EXCEPT ![e.claim].due = FALSE]
        PROVE  (\A c \in Claim : c # e.claim => beat'[c] = beat[c]) /\ beat'[e.claim].gen = beat[e.claim].gen
    BY <2>0, <2>5 DEF Current, TypeParts, Beat, Copy
  <2>6. CASE Current(e) /\ beat' = [beat EXCEPT ![e.claim] = Absent] /\ Back(i, {b})
    <3>1. /\ \A j \in Tasks : j # i => task'[j].removed = task[j].removed
          /\ task'[i].removed = task[i].removed \cup {b}
      BY <1>0, <2>6 DEF Back, TaskRecord
    <3>2. beat[e.claim] # Absent /\ beat[e.claim].gen = e.gen /\ e.claim \in Claim /\ e.gen \in Gens
      BY <1>0, <2>0, <2>6 DEF Current, Copy
    <3>3. ~op[e.gen].swept /\ op[e.gen].claim = e.claim
      BY <3>2 DEF History, SweptOnce, Owners, BeatsOwned
    <3>4. \A j \in Tasks : b \notin task[j].removed
      BY <3>2 DEF Owners, RemovedIsPast
    <3>5. UNCHANGED <<slot, slotsClosed, op, stopping>>
      BY <2>0 DEF OffSlots, slots
    <3>6. OpHistory'
      BY <1>0, <3>5 DEF OpHistory
    <3>7. \A c \in Claim : beat'[c] = Absent \/ beat'[c] = beat[c]
      BY <2>6 DEF TypeParts
    <3>8. \A c \in Claim : beat'[c] # Absent => ~op'[beat'[c].gen].swept
      BY <3>5, <3>7 DEF History, SweptOnce
    <3>9. \A j \in Tasks : \A d \in task'[j].removed : ~op'[d.gen].swept /\ op'[d.gen].claim = d.claim
      BY <3>1, <3>3, <3>5 DEF History, SweptOnce
    <3>10. \A j, k \in Tasks : j # k => task'[j].removed \cap task'[k].removed = {}
      BY <3>1, <3>4 DEF History, SweptOnce
    <3> QED
      BY <3>6, <3>8, <3>9, <3>10 DEF History, SweptOnce
  <2> QED
    BY <1>3, <2>2, <2>3, <2>4, <2>5, <2>6 DEF Answer
<1>4. CASE Sweep(i)
  <2>1. PICK b \in task[i].removed :
          /\ slot' = [r \in Resource |->
                        IF slot[r].stage = "claimed" /\ slot[r].claim = b.claim /\ slot[r].gen = b.gen
                        THEN Vacant ELSE slot[r]]
          /\ op' = [op EXCEPT ![b.gen].swept = TRUE]
          /\ task' = [task EXCEPT ![i].removed = @ \ {b},
                                  ![i].pc = IF task[i].removed = {b} THEN "wait" ELSE "sweep"]
    BY <1>4 DEF Sweep
  <2>2. UNCHANGED <<slotsClosed, beat, stopping>>
    BY <1>4 DEF Sweep, beats
  <2>3. b.gen \in Gens /\ op[b.gen].pc \in Past /\ op[b.gen].claim = b.claim
    BY <1>0, <2>1 DEF TaskRecord, Owners, RemovedIsPast, History, SweptOnce
  <2>4. /\ \A h \in Gens : h # b.gen => op'[h] = op[h]
        /\ \A h \in Gens : op'[h].pc = op[h].pc /\ op'[h].res = op[h].res /\ op'[h].claim = op[h].claim
    BY <1>0, <2>1 DEF OpRecord
  <2>5. /\ \A j \in Tasks : j # i => task'[j].removed = task[j].removed
        /\ task'[i].removed = task[i].removed \ {b}
    BY <1>0, <2>1 DEF TaskRecord
  <2>6. \A h \in Gens : OpShape(op'[h])
    BY <1>0, <2>3, <2>4 DEF OpShape
  <2>7. \A r \in Resource : slot'[r].kind = "mutation"
    BY <1>0, <2>1 DEF Vacant
  <2>8. \A c \in Claim : beat'[c] # Absent => ~op'[beat'[c].gen].swept
    BY <1>0, <2>1, <2>2, <2>4 DEF History, SweptOnce, Owners, RemovedIsPast
  <2>9. ASSUME NEW j \in Tasks, NEW d \in task'[j].removed
        PROVE  ~op'[d.gen].swept /\ op'[d.gen].claim = d.claim
    <3>1. d \in task[j].removed /\ d # b
      BY <2>1, <2>5, <2>9 DEF History, SweptOnce
    <3>2. op[d.gen].claim = d.claim /\ ~op[d.gen].swept
      BY <3>1 DEF History, SweptOnce
    <3>3. d \in [claim : Claim, gen : Gens] /\ b \in [claim : Claim, gen : Gens]
      BY <1>0, <2>1, <3>1 DEF TaskRecord
    <3>4. d.gen # b.gen
      BY <2>3, <3>1, <3>2, <3>3
    <3> QED
      BY <2>4, <3>2, <3>3, <3>4
  <2>10. \A j, k \in Tasks : j # k => task'[j].removed \cap task'[k].removed = {}
    BY <2>5 DEF History, SweptOnce
  <2> QED
    BY <1>0, <2>2, <2>6, <2>7, <2>8, <2>9, <2>10 DEF History, OpHistory, SweptOnce
<1> QED
  BY <1>2, <1>3, <1>4 DEF TaskStep

\* So does every step.
LEMMA HistoryKept == Types /\ Owners /\ History /\ [Next]_vars => History'
<1> SUFFICES ASSUME TypeParts, Owners, History, [Next]_vars PROVE History'
  BY TypesParts
<1>0. /\ \A c \in Claim : beat[c] # Absent => beat[c].gen \in Gens
      /\ \A r \in Resource : slot[r].kind = "mutation"
      /\ stopping = "no" => ~slotsClosed
      /\ \A h \in Gens : OpShape(op[h])
      /\ op \in [Gens -> OpRecord] /\ slot \in [Resource -> Entry]
  BY DEF TypeParts, Beat, Gens, History, OpHistory, SlotTypes
<1>1. ASSUME NEW r \in Resource, Acquire(r) PROVE History'
  <2> DEFINE g == nextGen + 1
  <2>1. g \in Gens /\ op[g].pc = "none" /\ UNCHANGED <<slotsClosed, beat, task, stopping>>
    BY <1>1, Constants DEF Acquire, TypeParts, Gens, beats, Owners, FreshGenerations
  <2>2. /\ \A h \in Gens : h # g => op'[h] = op[h]
        /\ op'[g] = [NoOp EXCEPT !.pc = "guard", !.res = r]
    BY <1>0, <1>1, <2>1 DEF Acquire
  <2>3. OpShape(op'[g]) /\ op'[g].swept = FALSE
    BY <2>2 DEF OpShape, NoOp, Past, Beating
  <2>4. op[g].claim = NoClaim /\ op[g].swept = FALSE
    BY <1>0, <2>1 DEF OpShape, Early, Past, Beating, OpRecord
  <2>5. \A s \in Resource : slot'[s].kind = "mutation"
    BY <1>0, <1>1 DEF Acquire, LocalPending, Vacant
  <2> HIDE DEF g
  <2> QED
    BY <1>0, <2>1, <2>2, <2>3, <2>4, <2>5, HistoryStay
<1>2. ASSUME UNCHANGED <<op, task>>, \A r \in Resource : slot'[r].kind = "mutation",
             stopping' = "no" => ~slotsClosed',
             \A c \in Claim : beat'[c] # Absent => beat[c] # Absent /\ beat'[c].gen = beat[c].gen
      PROVE  History'
  BY <1>0, <1>2, HistoryStay
<1>3. ASSUME NEW c \in Claim, Elapse(c) PROVE History'
  <2>1. beat[c] \in Beat /\ \A d \in Claim : d # c => beat'[d] = beat[d]
    BY <1>3 DEF Elapse, TypeParts
  <2>2. beat'[c].gen = beat[c].gen
    BY <1>3, <2>1 DEF Elapse, TypeParts, Beat
  <2> QED
    BY <1>0, <1>2, <1>3, <2>1, <2>2 DEF Elapse, slots
<1>4. CASE AbandonSlots
  <2>1. \A r \in Resource : slot'[r].kind = slot[r].kind
    BY <1>0, <1>4 DEF AbandonSlots, Entry
  <2> QED
    BY <1>0, <1>2, <1>4, <2>1 DEF AbandonSlots, beats
<1>5. CASE AbandonBeats \/ StopTicker \/ UNCHANGED vars
  BY <1>0, <1>2, <1>5 DEF AbandonBeats, StopTicker, vars, slots, beats
<1> QED
  BY <1>1, <1>3, <1>4, <1>5, HistoryOp, HistoryTask DEF Next, Gens, Tasks

\* At the start.
LEMMA HistoryFirst == Init => History
BY DEF Init, Vacant, NoOp, NoTask, History, OpHistory, OpShape, SweptOnce, Gens, Tasks

----------------------------------------------------------------------------
(***************************************************************************)
(* The steps as the slot registry sees them.                               *)
(***************************************************************************)

\* The tokens of the registry, as the operations hold them.
Live(g)    == op[g].pc \notin {"none", "released"}
LeaseOf(g) == [res |-> op[g].res, gen |-> g, claimed |-> op[g].claim # NoClaim]
LeasesOut      == {LeaseOf(g) : g \in {h \in Gens : Live(h)}}

Beats(g)   == op[g].claim # NoClaim /\ ~op[g].swept
BeatOf(g)  == [claim |-> op[g].claim, gen |-> g]
BeatsOut   == {BeatOf(g) : g \in {h \in Gens : Beats(h)}}

\* A step that changes one operation replaces its lease and its beat.
LEMMA TokensOfOne ==
  ASSUME NEW g \in Gens, \A h \in Gens : h # g => op'[h] = op[h]
  PROVE  /\ Live(g) /\ ~Live(g)' => LeasesOut' = LeasesOut \ {LeaseOf(g)}
         /\ ~Live(g) /\ Live(g)' => LeasesOut' = LeasesOut \cup {LeaseOf(g)'}
         /\ Live(g) /\ Live(g)' => LeasesOut' = (LeasesOut \ {LeaseOf(g)}) \cup {LeaseOf(g)'}
         /\ Beats(g) /\ ~Beats(g)' => BeatsOut' = BeatsOut \ {BeatOf(g)}
         /\ ~Beats(g) /\ Beats(g)' => BeatsOut' = BeatsOut \cup {BeatOf(g)'}
<1> DEFINE others == {LeaseOf(h) : h \in {k \in Gens \ {g} : Live(k)}}
           rest   == {BeatOf(h) : h \in {k \in Gens \ {g} : Beats(k)}}
<1>1. UNCHANGED others
  BY DEF LeaseOf, Live
<1>2. UNCHANGED rest
  BY DEF BeatOf, Beats
<1>3. LeaseOf(g) \notin others /\ LeaseOf(g)' \notin others
  BY DEF LeaseOf
<1>4. BeatOf(g) \notin rest /\ BeatOf(g)' \notin rest
  BY DEF BeatOf
<1>5. /\ Live(g) => LeasesOut = others \cup {LeaseOf(g)}
      /\ ~Live(g) => LeasesOut = others
  BY DEF LeasesOut
<1>6. /\ Beats(g) => BeatsOut = rest \cup {BeatOf(g)}
      /\ ~Beats(g) => BeatsOut = rest
  BY DEF BeatsOut
<1>7. /\ Live(g)' => LeasesOut' = others' \cup {LeaseOf(g)'}
      /\ ~Live(g)' => LeasesOut' = others'
  BY DEF LeasesOut
<1>8. /\ Beats(g)' => BeatsOut' = rest' \cup {BeatOf(g)'}
      /\ ~Beats(g)' => BeatsOut' = rest'
  BY DEF BeatsOut
<1> HIDE DEF others, rest
<1> QED
  BY <1>1, <1>2, <1>3, <1>4, <1>5, <1>6, <1>7, <1>8

\* The registry's view of the tokens.
LEMMA RegistryVars ==
  /\ Registry!vars = <<slot, <<nextGen, 0, 0>>, slotsClosed, <<LeasesOut, BeatsOut, {}, {}, {}>>>>
  /\ Registry!vars' = <<slot', <<nextGen', 0, 0>>, slotsClosed', <<LeasesOut', BeatsOut', {}, {}, {}>>>>
BY DEF Registry!vars, Registry!counters, Registry!tokens, LeasesOut, BeatsOut, LeaseOf, BeatOf,
       Live, Beats, Gens

\* The steps of the registry for a token that is out.
LEMMA TokenSteps ==
  /\ \A l \in LeasesOut : Registry!Release(l) => Registry!Next
  /\ \A l \in LeasesOut, c \in Claim : Registry!PromoteClaimed(l, c) => Registry!Next
  /\ \A b \in BeatsOut : Registry!ReleaseByOperation(b) => Registry!Next
BY DEF Registry!Next, Registry!SlotNext, LeasesOut, LeaseOf, Live, BeatsOut, BeatOf, Beats, Gens

\* Slots are the same for both.
LEMMA SameEntries ==
  /\ Registry!NoProof = NoProof /\ Registry!Vacant = Vacant /\ Registry!Resource = Resource
  /\ \A e : Registry!Occupied(e) <=> Occupied(e)
  /\ \A e, c, b : Registry!ClaimedEntry(e, c, b) = ClaimedEntry(e, c, b)
  /\ \A g, k : Registry!LocalPending(g, k) = LocalPending(g, k)
  /\ \A r, s : Registry!Conflict(r, s) <=> Conflict(r, s)
BY DEF Registry!NoProof, NoProof, Registry!Vacant, Vacant, Registry!Resource, Resource,
       Registry!Occupied, Occupied, Registry!ClaimedEntry, ClaimedEntry,
       Registry!LocalPending, LocalPending, Registry!Conflict, Conflict,
       Registry!LiteratureResource, LiteratureResource, Registry!Scope, Scope

\* What those steps are, in terms of the operations.
LEMMA TokenReleased ==
  ASSUME NEW l,
         slot' = IF Occupied(slot[l.res]) /\ slot[l.res].gen = l.gen
                 THEN [slot EXCEPT ![l.res] = Vacant] ELSE slot,
         LeasesOut' = LeasesOut \ {l}, BeatsOut' = BeatsOut, UNCHANGED <<nextGen, slotsClosed>>
  PROVE  Registry!Release(l)
BY SameEntries DEF Registry!Release, Registry!Released, Registry!counters,
       LeasesOut, BeatsOut, LeaseOf, BeatOf, Live, Beats, Gens

\* A promotion, likewise.
LEMMA TokenPromoted ==
  ASSUME NEW l, NEW c,
         slot[l.res].gen = l.gen, slot[l.res].kind = "mutation", slot[l.res].stage = "pending",
         ResourceOf[c] = l.res,
         slot' = [slot EXCEPT ![l.res] = ClaimedEntry(@, c, slotsClosed)],
         LeasesOut' = (LeasesOut \ {l}) \cup {[l EXCEPT !.claimed = TRUE]},
         BeatsOut' = BeatsOut \cup {[claim |-> c, gen |-> l.gen]},
         UNCHANGED <<nextGen, slotsClosed>>
  PROVE  Registry!PromoteClaimed(l, c)
BY SameEntries DEF Registry!PromoteClaimed, Registry!counters,
       LeasesOut, BeatsOut, LeaseOf, BeatOf, Live, Beats, Gens

\* And a release after the end of a heartbeat.
LEMMA TokenSwept ==
  ASSUME NEW b,
         slot' = [r \in Resource |->
                    IF slot[r].stage = "claimed" /\ slot[r].claim = b.claim /\ slot[r].gen = b.gen
                    THEN Vacant ELSE slot[r]],
         LeasesOut' = LeasesOut, BeatsOut' = BeatsOut \ {b}, UNCHANGED <<nextGen, slotsClosed>>
  PROVE  Registry!ReleaseByOperation(b)
BY SameEntries DEF Registry!ReleaseByOperation, Registry!counters,
       LeasesOut, BeatsOut, LeaseOf, BeatOf, Live, Beats, Gens

\* A step that moves no slot and no token.
LEMMA RegistryStutters ==
  ASSUME UNCHANGED slots,
         \A h \in Gens : /\ op'[h].res = op[h].res /\ op'[h].claim = op[h].claim
                         /\ op'[h].swept = op[h].swept /\ (Live(h)' <=> Live(h))
  PROVE  UNCHANGED Registry!vars
<1>1. LeasesOut' = LeasesOut
  BY DEF LeasesOut, LeaseOf
<1>2. BeatsOut' = BeatsOut
  BY DEF BeatsOut, BeatOf, Beats
<1> QED
  BY <1>1, <1>2, RegistryVars DEF slots

\* The registry's release of the lease of g.
LEMMA RegistryReleases ==
  ASSUME TypeParts, History, NEW g \in Gens, ReleaseSlot(g), Go(g, "released"), Live(g),
         UNCHANGED <<nextGen, slotsClosed>>
  PROVE  Registry!Next
<1>0. op \in [Gens -> OpRecord] /\ op[g] \in OpRecord /\ g # 0 /\ OpShape(op[g])
  BY Constants DEF TypeParts, Gens, History, OpHistory
<1>1. /\ \A h \in Gens : h # g => op'[h] = op[h]
      /\ op'[g].pc = "released" /\ op'[g].res = op[g].res
      /\ op'[g].claim = op[g].claim /\ op'[g].swept = op[g].swept
  BY <1>0 DEF Go, OpRecord
<1>2. LeasesOut' = LeasesOut \ {LeaseOf(g)}
  BY <1>1, TokensOfOne DEF Live
<1>3. BeatsOut' = BeatsOut
  <2>1. \A h \in Gens : op'[h].claim = op[h].claim /\ op'[h].swept = op[h].swept
    BY <1>1
  <2> QED
    BY <2>1 DEF BeatsOut, BeatOf, Beats
<1>4. op[g].res \in Resource /\ WellFormed(slot[op[g].res])
  BY <1>0 DEF Live, OpShape, TypeParts, SlotTypes
<1>5. slot' = IF Occupied(slot[op[g].res]) /\ slot[op[g].res].gen = g
              THEN [slot EXCEPT ![op[g].res] = Vacant] ELSE slot
  <2>1. slot[op[g].res].gen = g => Occupied(slot[op[g].res])
    BY <1>0, <1>4 DEF WellFormed, StageShape
  <2> QED
    BY <2>1 DEF ReleaseSlot
<1>6. PICK l \in LeasesOut : l = LeaseOf(g)
  BY DEF LeasesOut
<1>7. l.res = op[g].res /\ l.gen = g
  BY <1>6 DEF LeaseOf
<1>8. Registry!Release(l)
  BY <1>2, <1>3, <1>5, <1>6, <1>7, TokenReleased
<1> QED
  BY <1>8, TokenSteps

\* What an operation does to slots the registry does, or nothing.
LEMMA RegistryOp ==
  ASSUME TypeParts, Owners, History, NEW g \in Gens, OpStep(g)
  PROVE  Registry!Next \/ UNCHANGED Registry!vars
<1>0. /\ op \in [Gens -> OpRecord] /\ op[g] \in OpRecord /\ OpShape(op[g])
      /\ \A r \in Resource : slot[r].kind = "mutation"
  BY DEF TypeParts, History, OpHistory
<1>1. ASSUME NEW q, Go(g, q), Live(g), q \notin {"none", "released"}, UNCHANGED slots
      PROVE  UNCHANGED Registry!vars
  <2>1. \A h \in Gens : /\ op'[h].res = op[h].res /\ op'[h].claim = op[h].claim
                        /\ op'[h].swept = op[h].swept
                        /\ op'[h].pc = IF h = g THEN q ELSE op[h].pc
    BY <1>0, <1>1 DEF Go, OpRecord
  <2> QED
    BY <1>1, <2>1, RegistryStutters DEF Live
<1> USE DEF At
<1>2. CASE DropGuard(g) \/ CompleteRelease(g) \/ (At(g, "undoing") /\ ReleaseSlot(g) /\ Go(g, "released") /\ OffBeats)
  BY <1>2, RegistryReleases DEF DropGuard, CompleteRelease, OffBeats, Live
<1>3. CASE ClaimBegin(g) \/ LetGo(g) \/ CompleteBegin(g)
  BY <1>1, <1>3 DEF ClaimBegin, LetGo, CompleteBegin, OffBeats, Live, slots
<1>4. CASE ClaimLook(g)
  BY <1>1, <1>4 DEF ClaimLook, OffBeats, Live, slots
<1>5. CASE ClaimRegister(g)
  <2>1. \E q \in {"refused", "handle"} : Go(g, q)
    BY <1>5 DEF ClaimRegister
  <2> QED
    BY <1>1, <1>5, <2>1 DEF ClaimRegister, Live
<1>6. CASE At(g, "refused") /\ Go(g, IF slotsClosed THEN "gone" ELSE "undoing") /\ UNCHANGED slot /\ OffBeats
  BY <1>1, <1>6 DEF OffBeats, Live, slots
<1>7. CASE CompleteUnregister(g)
  BY <1>1, <1>7 DEF CompleteUnregister, Live
<1>8. CASE ClaimPromote(g)
  <2>1. PICK c \in Claim :
          /\ ResourceOf[c] = op[g].res
          /\ slot[op[g].res].gen = g /\ slot[op[g].res].stage = "pending"
          /\ slot' = [slot EXCEPT ![op[g].res] = ClaimedEntry(@, c, slotsClosed)]
          /\ op' = [op EXCEPT ![g].pc = "promoted", ![g].claim = c]
    BY <1>8 DEF ClaimPromote
  <2>2. op[g].pc = "claiming" /\ UNCHANGED <<nextGen, slotsClosed>>
    BY <1>8 DEF ClaimPromote, OffBeats
  <2>3. /\ \A h \in Gens : h # g => op'[h] = op[h]
        /\ op'[g].pc = "promoted" /\ op'[g].res = op[g].res
        /\ op'[g].claim = c /\ op'[g].swept = op[g].swept
    BY <1>0, <2>1 DEF OpRecord
  <2>4. op[g].claim = NoClaim /\ ~op[g].swept /\ op[g].res \in Resource /\ c # NoClaim
    BY <1>0, <2>2, NoClaimAssumption DEF OpShape, Early, Past, Beating
  <2>5. PICK l \in LeasesOut : l = LeaseOf(g)
    BY <2>2 DEF LeasesOut, Live
  <2>6. l.res = op[g].res /\ l.gen = g /\ LeaseOf(g)' = [l EXCEPT !.claimed = TRUE]
    <3> DEFINE Lease == [res : Resource, gen : Gens, claimed : BOOLEAN]
               m == LeaseOf(g)'
               n == [l EXCEPT !.claimed = TRUE]
    <3>1. m \in Lease /\ m.res = op[g].res /\ m.gen = g /\ m.claimed
      BY <2>3, <2>4 DEF LeaseOf
    <3>2. l \in Lease /\ l.res = op[g].res /\ l.gen = g
      BY <2>4, <2>5 DEF LeaseOf
    <3>3. n \in Lease /\ n.res = op[g].res /\ n.gen = g /\ n.claimed
      BY <3>2
    <3>4. \A x, y \in Lease : x.res = y.res /\ x.gen = y.gen /\ x.claimed /\ y.claimed => x = y
      OBVIOUS
    <3> HIDE DEF m, n
    <3>5. m = n
      BY <3>1, <3>3, <3>4
    <3> QED
      BY <3>2, <3>5 DEF m, n
  <2>7. LeasesOut' = (LeasesOut \ {l}) \cup {[l EXCEPT !.claimed = TRUE]}
    BY <2>2, <2>3, <2>5, <2>6, TokensOfOne DEF Live
  <2>8. BeatOf(g)' = [claim |-> c, gen |-> l.gen]
    BY <2>3, <2>6 DEF BeatOf
  <2>9. BeatsOut' = BeatsOut \cup {[claim |-> c, gen |-> l.gen]}
    BY <2>3, <2>4, <2>8, TokensOfOne DEF Beats
  <2>10. Registry!PromoteClaimed(l, c)
    <3>1. slot' = [slot EXCEPT ![l.res] = ClaimedEntry(@, c, slotsClosed)]
      BY <2>1, <2>6
    <3>2. /\ slot[l.res].gen = l.gen /\ slot[l.res].kind = "mutation"
          /\ slot[l.res].stage = "pending" /\ ResourceOf[c] = l.res
      BY <1>0, <2>1, <2>4, <2>6
    <3> QED
      BY <2>2, <2>7, <2>9, <3>1, <3>2, TokenPromoted
  <2> QED
    BY <2>10, TokenSteps
<1> QED
  BY <1>2, <1>3, <1>4, <1>5, <1>6, <1>7, <1>8 DEF OpStep, ClaimUndo

\* Likewise a ticker task: only its sweep is seen.
LEMMA RegistryTask ==
  ASSUME TypeParts, Owners, History, NEW i \in Tasks, TaskStep(i)
  PROVE  Registry!Next \/ UNCHANGED Registry!vars
<1>0. op \in [Gens -> OpRecord] /\ task[i] \in TaskRecord
  BY DEF TypeParts
<1>1. CASE OffSlots
  BY <1>1, RegistryStutters DEF OffSlots, Live
<1>2. CASE Sweep(i)
  <2>1. PICK b \in task[i].removed :
          /\ slot' = [r \in Resource |->
                        IF slot[r].stage = "claimed" /\ slot[r].claim = b.claim /\ slot[r].gen = b.gen
                        THEN Vacant ELSE slot[r]]
          /\ op' = [op EXCEPT ![b.gen].swept = TRUE]
    BY <1>2 DEF Sweep
  <2>2. b \in [claim : Claim, gen : Gens] /\ UNCHANGED <<nextGen, slotsClosed>>
    BY <1>0, <1>2, <2>1 DEF Sweep, TaskRecord
  <2>3. ~op[b.gen].swept /\ op[b.gen].claim = b.claim
    BY <2>1 DEF History, SweptOnce
  <2>4. /\ \A h \in Gens : h # b.gen => op'[h] = op[h]
        /\ op'[b.gen].pc = op[b.gen].pc /\ op'[b.gen].res = op[b.gen].res
        /\ op'[b.gen].claim = op[b.gen].claim /\ op'[b.gen].swept = TRUE
    BY <1>0, <2>1, <2>2 DEF OpRecord
  <2>5. LeasesOut' = LeasesOut
    BY <2>2, <2>4 DEF LeasesOut, LeaseOf, Live
  <2>6. b = BeatOf(b.gen)
    BY <2>2, <2>3 DEF BeatOf
  <2>7. BeatsOut' = BeatsOut \ {b} /\ b \in BeatsOut
    <3>1. b.claim # NoClaim
      BY <2>2, NoClaimAssumption
    <3>2. Beats(b.gen) /\ ~Beats(b.gen)'
      BY <2>3, <2>4, <3>1 DEF Beats
    <3>3. b \in BeatsOut
      BY <2>2, <2>6, <3>2 DEF BeatsOut
    <3>4. PICK h \in Gens : h = b.gen
      BY <2>2
    <3> QED
      BY <2>4, <2>6, <3>2, <3>3, <3>4, TokensOfOne
  <2>8. Registry!ReleaseByOperation(b)
    BY <2>1, <2>2, <2>5, <2>7, TokenSwept
  <2> QED
    BY <2>7, <2>8, TokenSteps
<1> QED
  BY <1>1, <1>2 DEF TaskStep, Wake, Snapshot, Call, Answer, Panic, Finish

\* A new slot is a new lease of the registry.
LEMMA RegistryAcquires ==
  ASSUME TypeParts, Owners, History, NEW r \in Resource, Acquire(r)
  PROVE  Registry!Next
<1> DEFINE g == nextGen + 1
<1>0. op \in [Gens -> OpRecord] /\ \A h \in Gens : OpShape(op[h])
  BY DEF TypeParts, History, OpHistory
<1>1. g \in Gens /\ op[g].pc = "none" /\ nextGen' = g /\ UNCHANGED slotsClosed /\ g = nextGen + 1
  BY Constants DEF Acquire, TypeParts, Gens, Owners, FreshGenerations
<1>2. /\ nextGen < MaxGeneration /\ ~slotsClosed
      /\ \A s \in Resource : Conflict(r, s) => ~Occupied(slot[s])
      /\ slot' = [slot EXCEPT ![r] = LocalPending(g, "mutation")]
  BY DEF Acquire
<1>3. op' = [op EXCEPT ![g] = [NoOp EXCEPT !.pc = "guard", !.res = r]]
  BY DEF Acquire
<1> HIDE DEF g
<1>4. /\ \A h \in Gens : h # g => op'[h] = op[h]
      /\ op'[g].pc = "guard" /\ op'[g].res = r /\ op'[g].claim = NoClaim
  BY <1>0, <1>1, <1>3 DEF NoOp
<1>5. op[g].claim = NoClaim
  BY <1>0, <1>1 DEF OpShape, Early
<1>6. PICK n \in Gens : n = g
  BY <1>1
<1>7. LeaseOf(n)' = [res |-> r, gen |-> nextGen + 1, claimed |-> FALSE]
  BY <1>1, <1>4, <1>6 DEF LeaseOf
<1>8. LeasesOut' = LeasesOut \cup {[res |-> r, gen |-> nextGen + 1, claimed |-> FALSE]}
  <2>1. ~Live(n) /\ Live(n)'
    BY <1>1, <1>4, <1>6 DEF Live
  <2> QED
    BY <1>4, <1>6, <1>7, <2>1, TokensOfOne
<1>9. BeatsOut' = BeatsOut
  <2>1. \A h \in Gens : op'[h].claim = op[h].claim
    BY <1>4, <1>5
  <2>2. \A h \in Gens : Beats(h)' <=> Beats(h)
    BY <1>4, <1>5 DEF Beats
  <2> QED
    BY <2>1, <2>2 DEF BeatsOut, BeatOf
<1>10. Registry!Acquire(r, "mutation")
  BY <1>1, <1>2, <1>8, <1>9, SameEntries DEF Registry!Acquire, Registry!ConflictFree, LeasesOut, LeaseOf, Live,
     BeatsOut, BeatOf, Beats, Gens
<1> QED
  BY <1>10, SameEntries DEF Registry!Next, Registry!SlotNext

\* The shutdown of the slots is the registry's; no slot here is owned by a runtime.
LEMMA RegistryShutsDown ==
  ASSUME TypeParts, History, AbandonSlots
  PROVE  Registry!Next
<1>1. ~slotsClosed /\ slotsClosed' /\ UNCHANGED <<nextGen, op>>
  BY DEF AbandonSlots, History, OpHistory
<1>2. slot' = [r \in Resource |-> Registry!AtShutdown(slot[r])]
  <2>1. \A r \in Resource : slot[r].stage # "owned"
    BY DEF TypeParts, SlotTypes, Owned
  <2>2. \A r \in Resource :
          Registry!AtShutdown(slot[r]) =
            IF slot[r].stage = "claimed" THEN [slot[r] EXCEPT !.abandoned = TRUE] ELSE slot[r]
    BY <2>1 DEF Registry!AtShutdown
  <2> QED
    BY <2>2 DEF AbandonSlots
<1>3. LeasesOut' = LeasesOut /\ BeatsOut' = BeatsOut
  BY <1>1 DEF LeasesOut, LeaseOf, Live, BeatsOut, BeatOf, Beats
<1>4. Registry!BeginShutdown
  BY <1>1, <1>2, <1>3, SameEntries DEF Registry!BeginShutdown, Registry!counters, Registry!tokens,
     AbandonSlots, LeasesOut, LeaseOf, Live, BeatsOut, BeatOf, Beats, Gens
<1> QED
  BY <1>4 DEF Registry!Next

\* Every step is one of the registry, or moves none of its state.
LEMMA RegistryStep == Types /\ Owners /\ History /\ [Next]_vars => [Registry!Next]_Registry!vars
<1> SUFFICES ASSUME TypeParts, Owners, History, [Next]_vars
             PROVE  Registry!Next \/ UNCHANGED Registry!vars
  BY TypesParts
<1>1. CASE UNCHANGED slots /\ UNCHANGED op
  BY <1>1, RegistryStutters DEF Live
<1> QED
  BY <1>1, RegistryAcquires, RegistryOp, RegistryTask, RegistryShutsDown
     DEF Next, Elapse, AbandonBeats, StopTicker, vars, Gens, Tasks

\* At the start nothing is held.
LEMMA RegistryFirst == Init => Registry!Init
<1> SUFFICES ASSUME Init PROVE Registry!Init
  OBVIOUS
<1>1. \A g \in Gens : ~Live(g) /\ ~Beats(g)
  BY DEF Init, NoOp, Live, Beats, Gens
<1>2. LeasesOut = {} /\ BeatsOut = {}
  BY <1>1 DEF LeasesOut, BeatsOut
<1> QED
  BY <1>2, SameEntries DEF Init, Registry!Init, LeasesOut, LeaseOf, Live, BeatsOut, BeatOf, Beats, Gens

----------------------------------------------------------------------------
(***************************************************************************)
(* Theorems.                                                               *)
(***************************************************************************)

\* The inductive invariant holds throughout.
LEMMA Invariance == Spec => []IInv
<1>1. Init => IInv
  <2>1. Init => TickerAlive
    BY DEF Init, TickerAlive, NoEntries
  <2> QED
    BY <2>1, TypesFirst, OwnersFirst, PairedFirst, UpToDateFirst, HistoryFirst DEF IInv
<1>2. IInv /\ [Next]_vars => IInv'
  BY TypesKept, OwnersKept, TickerKept, PairedKept, UpToDateKept, HistoryKept DEF IInv
<1> QED
  BY <1>1, <1>2, PTL DEF Spec

\* The two registries, the ticker and the threads always have their types.
THEOREM TypeCorrect == Spec => []TypeOK
<1>1. IInv => TypeOK
  BY DEF IInv, Types
<1> QED
  BY <1>1, Invariance, PTL

\* Nobody beats for a slot that somebody else may have (BeatHasItsSlot): a heartbeat
\* entry goes before its slot does, whoever takes the one or the other.
THEOREM BeatsKeepTheirSlots == Spec => []BeatHasItsSlot
<1>1. IInv => BeatHasItsSlot
  BY DEF IInv, Owners, BeatsOwned, Backed, BeatHasItsSlot
<1> QED
  BY <1>1, Invariance, PTL

\* Entries always have a live task of the current ticker generation (BeatsHaveATask),
\* however starts, stops and ends of ticks fall.
THEOREM TickerServesEntries == Spec => []BeatsHaveATask
<1>1. IInv => BeatsHaveATask
  BY DEF IInv, TickerAlive, Alive, BeatsHaveATask
<1> QED
  BY <1>1, Invariance, PTL

\* The slot registry and the heartbeat registry stay together (ClaimedHasItsBeat): a
\* claimed slot that shutdown did not abandon has its heartbeat entry, or somebody who
\* is to bring it in or to take the slot back, or it went with the report of a tick
\* that a callback's panic ended.
THEOREM RegistriesStayTogether == Spec => []ClaimedHasItsBeat
<1>1. IInv => ClaimedHasItsBeat
  BY DEF IInv, Paired
<1> QED
  BY <1>1, Invariance, PTL

\* A callback is never asked to beat with a revision its entry has left behind
\* (CallsWithLatestRevision): of all the ticker's tasks, old and new, only the present
\* one has copies that still count, at most one of each entry, and nothing else
\* advances an entry.
THEOREM RevisionsUpToDate == Spec => []CallsWithLatestRevision
<1>1. IInv => CallsWithLatestRevision
  BY DEF IInv, UpToDate, CopiesLatest, Held, In, Tasks, CallsWithLatestRevision
<1> QED
  BY <1>1, Invariance, PTL

\* What operations, ticks and shutdown do to slots is among what the slot registry
\* lets its callers do at any time (ImplementsRegistry), so what is proved of the
\* registry holds here: each release is by a lease or a heartbeat that still is out,
\* and each is spent once.
THEOREM RegistryImplemented == Spec => ImplementsRegistry
<1>1. IInv /\ [Next]_vars => [Registry!Next]_Registry!vars
  BY RegistryStep DEF IInv
<1> QED
  BY <1>1, RegistryFirst, Invariance, PTL DEF Spec, ImplementsRegistry, Registry!Spec

\* After shutdown no entry changes but by going.
LEMMA ShutdownKeeps ==
  ASSUME IInv, Next, beatsClosed, NEW c \in Claim
  PROVE  beat'[c] = Absent \/ (beat[c] # Absent /\ beat'[c].rev = beat[c].rev)
<1>0. beat \in [Claim -> Beat \cup {Absent}]
  BY DEF IInv, Types, TypeOK
<1>1. ASSUME NEW g \in 1..MaxGeneration, OpStep(g)
      PROVE  beat' = beat \/ \E d : beat' = [beat EXCEPT ![d] = Absent]
  BY <1>1 DEF OpStep, OffBeats, beats, DropGuard, ClaimBegin, ClaimPromote, ClaimLook,
              ClaimRegister, ClaimUndo, LetGo, CompleteBegin, CompleteUnregister, CompleteRelease
<1>2. ASSUME NEW i \in 1..MaxTicker, TaskStep(i) PROVE beat' = beat
  BY <1>2 DEF TaskStep, Wake, Snapshot, Call, Answer, Current, Panic, Finish, Sweep, beats
<1>3. ASSUME NEW d \in Claim, Elapse(d)
      PROVE  beat'[c] = Absent \/ (beat[c] # Absent /\ beat'[c].rev = beat[c].rev)
  BY <1>0, <1>3 DEF Elapse, Beat
<1>4. CASE UNCHANGED beat
  BY <1>4
<1>5. ASSUME NEW d, beat' = [beat EXCEPT ![d] = Absent]
      PROVE  beat'[c] = Absent \/ (beat[c] # Absent /\ beat'[c].rev = beat[c].rev)
  BY <1>0, <1>5
<1>6. ((\E r \in Resource : Acquire(r)) \/ AbandonSlots \/ AbandonBeats \/ StopTicker) => UNCHANGED beat
  BY DEF Acquire, AbandonSlots, AbandonBeats, StopTicker, beats
<1> QED
  BY <1>1, <1>2, <1>3, <1>4, <1>5, <1>6 DEF Next

\* Only its own step takes a task from its call back to its loop.
LEMMA AnswerBringsBack ==
  ASSUME IInv, Next, NEW i \in 1..MaxTicker, In(i, "call"), In(i, "loop")'
  PROVE  Answer(i)
<1>0. DOMAIN task = 1..MaxTicker
  BY DEF IInv, Types, TypeOK
<1>1. ASSUME NEW g \in 1..MaxGeneration, OpStep(g)
      PROVE  task' = task \/ \E j : task' = [task EXCEPT ![j] = [NoTask EXCEPT !.pc = "wait"]]
  BY <1>1 DEF OpStep, OffBeats, Started, DropGuard, ClaimBegin, ClaimPromote, ClaimLook,
              ClaimRegister, ClaimUndo, LetGo, CompleteBegin, CompleteUnregister, CompleteRelease
<1>2. ASSUME NEW j, task' = [task EXCEPT ![j] = [NoTask EXCEPT !.pc = "wait"]]
      PROVE  FALSE
  BY <1>0, <1>2 DEF In, NoTask
<1>3. ASSUME NEW j \in 1..MaxTicker, TaskStep(j)
      PROVE  \E v : task' = [task EXCEPT ![j] = v]
  <2>1. Wake(j) \/ Snapshot(j) => \E v : task' = [task EXCEPT ![j] = v]
    BY <1>0 DEF Wake, Snapshot, To
  <2>2. Call(j) \/ Answer(j) \/ Panic(j) => \E v : task' = [task EXCEPT ![j] = v]
    BY <1>0 DEF Call, Answer, Back, Panic
  <2>3. Finish(j) \/ Sweep(j) => \E v : task' = [task EXCEPT ![j] = v]
    BY <1>0 DEF Finish, To, Sweep
  <2> QED
    BY <1>3, <2>1, <2>2, <2>3 DEF TaskStep
<1>4. ASSUME NEW j \in 1..MaxTicker, TaskStep(j)
      PROVE  Answer(i)
  <2>1. CASE j # i
    <3>1. PICK v : task' = [task EXCEPT ![j] = v]
      BY <1>3, <1>4
    <3>2. task'[i] = task[i]
      BY <1>0, <2>1, <3>1
    <3>3. task[i].pc = "call" /\ task'[i].pc = "loop"
      BY DEF In
    <3> QED
      BY <3>2, <3>3
  <2>2. CASE j = i
    <3>1. ~Wake(i) /\ ~Snapshot(i) /\ ~Call(i) /\ ~Finish(i) /\ ~Sweep(i)
      BY DEF Wake, Snapshot, Call, Finish, Sweep, In
    <3>2. ~Panic(i)
      BY <1>0 DEF Panic, In, NoTask
    <3> QED
      BY <1>4, <2>2, <3>1, <3>2 DEF TaskStep
  <2> QED
    BY <2>1, <2>2
<1>5. ASSUME UNCHANGED task PROVE FALSE
  BY <1>5 DEF In
<1>6. \/ \E r \in Resource : Acquire(r)
      \/ AbandonSlots \/ AbandonBeats \/ StopTicker
      \/ \E c \in Claim : Elapse(c)
      => UNCHANGED task
  BY DEF Acquire, AbandonSlots, AbandonBeats, StopTicker, Elapse
<1> QED
  BY <1>1, <1>2, <1>4, <1>5, <1>6 DEF Next

\* A late answer changes no entry but the one it was asked for, and after shutdown
\* none at all (LateAnswersIgnored).
THEOREM ShutdownSettlesNothing == Spec => LateAnswersIgnored
<1> DEFINE kept ==
      \A c \in Claim :
        /\ beatsClosed => beat'[c] = Absent \/ (beat[c] # Absent /\ beat'[c].rev = beat[c].rev)
        /\ \A i \in 1..MaxTicker :
             In(i, "call") /\ In(i, "loop")' /\ beat'[c] # beat[c] =>
               task[i].cur.claim = c /\ beat[c] # Absent /\ task[i].cur.gen = beat[c].gen
<1>1. IInv /\ [Next]_vars => (kept \/ UNCHANGED vars)
  <2> SUFFICES ASSUME IInv, Next PROVE kept
    OBVIOUS
  <2>1. ASSUME NEW c \in Claim, NEW i \in 1..MaxTicker,
               In(i, "call"), In(i, "loop")', beat'[c] # beat[c]
        PROVE  task[i].cur.claim = c /\ beat[c] # Absent /\ task[i].cur.gen = beat[c].gen
    <3>1. Answer(i) /\ DOMAIN beat = Claim
      BY <2>1, AnswerBringsBack DEF IInv, Types, TypeOK
    <3>2. \/ beat' = beat
          \/ Current(task[i].cur) /\ \A d \in Claim : d # task[i].cur.claim => beat'[d] = beat[d]
      BY <3>1 DEF Answer
    <3> QED
      BY <2>1, <3>2 DEF Current
  <2> QED
    BY <2>1, ShutdownKeeps
<1> QED
  BY <1>1, Invariance, PTL DEF Spec, LateAnswersIgnored
=============================================================================
