---------------------- MODULE OwnershipSupervisorProofs ----------------------
(***************************************************************************)
(* Ownership of a claim for any processes, threads, claims and bounds: the *)
(* supervisor implements ClaimLease, recovery ownership is durable, what   *)
(* became of an operation is final and no entry stays in flight without    *)
(* somebody who settles it.                                                *)
(*                                                                         *)
(* The invariant is a conjunction by part of the state.  What processes    *)
(* remember of the database may be outdated but was true once; the facts   *)
(* remembered (Used, Past, OwnedBy, Silent) are the ones that no           *)
(* transaction undoes (Onward), so each step has to be looked at only for  *)
(* what it newly remembers.                                                *)
(*                                                                         *)
(* The last part says more for processes that run one thread at a time:    *)
(* what an entry, its handle and the thread know is not only what once was *)
(* but what is, up to the step under way (ProofsOK).                       *)
(***************************************************************************)
EXTENDS OwnershipSupervisor, SlotEntryProofs

Handles == [pc : HandlePc, claim : ClaimOption, gen : Nat, seen : Nat]

Checkouts == [res : {"none"}, gen : Nat, ck : Nat, claim : ClaimOption, rt : Nat,
              prev : LifecycleOption, action : CheckoutAction \cup {"none"},
              proof : ProofOption, qalr : BOOLEAN]

Tasks == [pc : TaskPc, job : CheckoutAction \cup {"none", "Discover"}, claim : ClaimOption,
          k : Checkouts, row : Row \cup {Absent}, status : Status,
          held : Candidates \cup Evidence \cup {Absent}, new : ClaimOption]

RecoveryLifecycle == {"RecoveryOwnershipCommittedButUnattached", "RecoveryOwned"}

\* The lifecycles an action is checked out from.
PrevOf(action) ==
  CASE action = "Renew"    -> {"Live", "Retained"}
    [] action = "Inspect"  -> {"DroppedUnclosed", "OrphanedDurableClaim",
                               "OwnershipExpiredCandidate"}
    [] action = "Classify" -> {"Quarantined"}
    [] action = "Takeover" -> {"AbandonedEligible"}

\* A task that holds a checkout.
Works(x) ==
  /\ x.job \in CheckoutAction
  /\ x.pc \in {"look", "looked", "decide", "renew", "renewed", "takeover", "taken", "lost"}

-----------------------------------------------------------------------------
\* What stays true of a claim whatever the database goes through.

Used(c) == c \in Claim /\ attempt[c] # "none"

\* rev is a revision the claim has reached or the claim is gone for good.
Past(c, rev) == Used(c) /\ (RowOf(c) # Absent => rev <= row.rev)

\* The claim is of process p or gone for good.
OwnedBy(c, p) == Used(c) /\ (RowOf(c) # Absent => row.owner = p)

AtRev(c, rev) == RowOf(c) # Absent /\ row.rev = rev

\* The claim was at the candidate's revision by the time its clock started,
CandOK(c, x) ==
  /\ x \in Candidates /\ Past(c, x.rev) /\ x.start <= mono
  /\ AtRev(c, x.rev) => beatAt <= x.start

\* and with the evidence is silent for long enough unless it has moved on.
EvidOK(c, x) ==
  x \in Evidence /\ Past(c, x.rev) /\ (AtRev(c, x.rev) => mono - beatAt >= CONFIRM)

EntryOK(p, e) ==
  /\ WellFormed(e)
  /\ e.claim # NoClaim => Used(e.claim)
  /\ e.lc \in RecoveryLifecycle => OwnedBy(e.claim, p)

HandleOK(h) == h \in Handles /\ (h.pc # "none" => Used(h.claim))

TaskOK(p, x) ==
  /\ x \in Tasks
  /\ x.pc # "idle" => Used(x.claim)
  /\ x.row # Absent => x.row.claim = x.claim /\ Past(x.claim, x.row.rev)
  /\ Works(x) => x.k.claim = x.claim /\ x.k.action = x.job /\ x.k.prev \in PrevOf(x.job)
  /\ x.pc = "recordCandidate" => CandOK(x.claim, x.held)
  /\ x.pc \in {"recordEligible", "claiming", "takeover", "lost"} => EvidOK(x.claim, x.held)
  /\ x.new # NoClaim => OwnedBy(x.new, p)
  /\ x.pc \in {"taken", "attach"} => x.new # NoClaim
  /\ x.pc \in {"claiming", "takeover", "taken", "lost"} => x.job = "Takeover"
  /\ x.pc \in {"renew", "renewed"} => x.job = "Renew"
  /\ x.pc \in {"look", "looked", "decide"} => x.job \in {"Discover", "Classify", "Inspect"}
  /\ x.pc = "install" => x.row # Absent

-----------------------------------------------------------------------------
\* The invariant

DurableOK ==
  /\ row \in Row \cup {Absent}
  /\ attempt \in [Claim -> Status]
  /\ row # Absent => attempt[row.claim] \in {"active", "retained", "partial"}
  /\ \A c \in Claim : attempt[c] = "active" => RowOf(c) # Absent
  /\ mono \in 0..MaxMono /\ beatAt \in 0..mono

SlotsOK   == slot \in [Process -> Entry] /\ \A p \in Process : EntryOK(p, slot[p])
HandlesOK == handle \in [Process -> Handles] /\ \A p \in Process : HandleOK(handle[p])
TasksOK   == task \in [Thread -> Tasks] /\ \A t \in Thread : TaskOK(Own(t), task[t])

EvidenceOK ==
  /\ cands \in [Process -> [Claim -> Candidates \cup {Absent}]]
  /\ elig \in [Process -> [Claim -> Evidence \cup {Absent}]]
  /\ \A p \in Process, c \in Claim :
       /\ cands[p][c] # Absent => CandOK(c, cands[p][c])
       /\ elig[p][c] # Absent => EvidOK(c, elig[p][c])

CountersOK ==
  /\ up \in [Process -> {"unborn", "up", "dead"}]
  /\ shutting \in [Process -> BOOLEAN]
  /\ nextGen \in [Process -> Nat] /\ nextCheckout \in [Process -> Nat]
  /\ guards \in [Process -> SUBSET Claim]
  /\ \A p \in Process : up[p] # "up" => slot[p] = Vacant /\ handle[p] = NoHandle

\* The thread that works on an entry in flight.
CustodyOK ==
  \A p \in Process : slot[p].lc \in InFlightLifecycle =>
    \E t \in Thread : Own(t) = p /\ Works(task[t]) /\ CheckoutMatches(slot[p], task[t].k)

IInv == /\ DurableOK /\ SlotsOK /\ HandlesOK /\ TasksOK
        /\ EvidenceOK /\ CountersOK /\ CustodyOK

-----------------------------------------------------------------------------
\* The transactions

Grants(c, p) ==
  /\ InsertClaim(c, p)
  /\ row = Absent \/ (row # Absent /\ mono - beatAt >= CONFIRM)
  /\ attempt' = [d \in Claim |->
       IF d = c THEN "active"
       ELSE IF RowOf(d) # Absent /\ attempt[d] = "active" THEN "retained" ELSE attempt[d]]

Exits(outcome) ==
  /\ row # Absent /\ attempt[row.claim] = "active"
  /\ ExitWrites(row.claim, outcome)

Transaction ==
  \/ UNCHANGED durable
  \/ \E c \in Claim, p \in Process : Grants(c, p)
  \/ row # Absent /\ Beat
  \/ \E outcome \in {"terminal", "retained", "partial"} : Exits(outcome)

DurableStep == MonoTick \/ (Transaction /\ UNCHANGED mono)

\* What no transaction undoes.
Onward ==
  /\ \A c \in Claim : attempt[c] # "none" => attempt'[c] # "none"
  /\ \A c \in Claim : Used(c) /\ RowOf(c) = Absent => RowOf(c)' = Absent
  /\ row # Absent /\ row' # Absent /\ row'.claim = row.claim =>
       /\ row'.owner = row.owner /\ row'.rev >= row.rev
       /\ row'.rev = row.rev => beatAt' = beatAt
  /\ mono' >= mono

\* The bounds are naturals, the threads' processes are processes.
LEMMA Constants ==
  /\ Claim \subseteq Nat /\ \A t \in Thread : Own(t) \in Process
  /\ CONFIRM \in Nat /\ MaxMono \in Nat /\ MaxRevision \in Nat /\ MaxGeneration \in Nat
  /\ MaxCheckout \in Nat /\ NoClaim \notin Claim
BY SupervisorAssumption, NoClaimAssumption DEF Own

\* Every transaction keeps the database in order
LEMMA DurableKept ==
  ASSUME DurableOK, DurableStep
  PROVE  DurableOK'
<1>1. CASE MonoTick
  BY <1>1, Constants DEF MonoTick, DurableOK, durable, RowOf
<1>2. CASE UNCHANGED <<durable, mono>>
  BY <1>2 DEF DurableOK, durable, RowOf
<1>3. ASSUME NEW c \in Claim, NEW p \in Process, Grants(c, p), UNCHANGED mono
      PROVE  DurableOK'
  <2>1. row' = [claim |-> c, owner |-> p, rev |-> 0] /\ row' \in Row
    BY <1>3, Constants DEF Grants, InsertClaim, Row
  <2>2. row' # Absent
    BY <2>1, AbsentAssumption
  <2>3. attempt' \in [Claim -> Status] /\ attempt'[c] = "active"
    BY <1>3 DEF Grants, DurableOK, Status
  <2>4. \A d \in Claim : attempt'[d] = "active" => d = c
    BY <1>3 DEF Grants, DurableOK
  <2> QED
    BY <1>3, <2>1, <2>2, <2>3, <2>4 DEF DurableOK, Grants, InsertClaim, RowOf
<1>4. ASSUME row # Absent, Beat, UNCHANGED mono
      PROVE  DurableOK'
  <2>1. row \in Row /\ row' = [row EXCEPT !.rev = @ + 1] /\ row.rev < MaxRevision
    BY <1>4 DEF Beat, DurableOK
  <2>2. row' \in Row /\ row'.claim = row.claim
    BY <2>1, Constants DEF Row
  <2>3. row' # Absent
    BY <2>2, AbsentAssumption
  <2> QED
    BY <1>4, <2>1, <2>2, <2>3 DEF DurableOK, Beat, RowOf
<1>5. ASSUME NEW outcome \in {"terminal", "retained", "partial"}, Exits(outcome), UNCHANGED mono
      PROVE  DurableOK'
  <2>1. row.claim \in Claim
    BY <1>5 DEF DurableOK, Exits, Row
  <2>2. /\ attempt' = [attempt EXCEPT ![row.claim] = outcome]
        /\ row' = IF outcome = "terminal" THEN Absent ELSE row
        /\ UNCHANGED beatAt
    BY <1>5 DEF Exits, ExitWrites
  <2> QED
    BY <1>5, <2>1, <2>2 DEF DurableOK, RowOf, Status, Exits
<1> QED
  BY <1>1, <1>2, <1>3, <1>4, <1>5 DEF DurableStep, Transaction

\* and undoes nothing that can be remembered.
LEMMA OnwardStep ==
  ASSUME DurableOK, DurableStep
  PROVE  Onward
<1>1. CASE UNCHANGED durable /\ mono' >= mono
  BY <1>1 DEF Onward, durable, RowOf, DurableOK, Row, Used
<1>2. ASSUME NEW c \in Claim, NEW p \in Process, Grants(c, p), UNCHANGED mono
      PROVE  Onward
  <2>1. row' = [claim |-> c, owner |-> p, rev |-> 0] /\ attempt[c] = "none"
    BY <1>2 DEF Grants, InsertClaim, Fresh
  <2>2. \A d \in Claim : attempt[d] # "none" => attempt'[d] # "none" /\ d # c
    BY <1>2, <2>1 DEF Grants
  <2>3. row # Absent => row'.claim # row.claim
    BY <2>1 DEF DurableOK
  <2> QED
    BY <1>2, <2>1, <2>2, <2>3 DEF Onward, RowOf, Used, DurableOK
<1>3. ASSUME row # Absent, Beat, UNCHANGED mono
      PROVE  Onward
  <2>1. row \in Row /\ row' = [row EXCEPT !.rev = @ + 1]
    BY <1>3 DEF Beat, DurableOK
  <2>2. row'.claim = row.claim /\ row'.owner = row.owner /\ row'.rev = row.rev + 1
        /\ row.rev \in Nat
    BY <2>1 DEF Row
  <2> QED
    BY <1>3, <2>2 DEF Onward, Beat, RowOf, DurableOK
<1>4. ASSUME NEW outcome \in {"terminal", "retained", "partial"}, Exits(outcome), UNCHANGED mono
      PROVE  Onward
  BY <1>4 DEF Exits, ExitWrites, Onward, RowOf, DurableOK, Row, Used
<1>5. MonoTick => UNCHANGED durable /\ mono' >= mono
  BY DEF MonoTick, DurableOK
<1>6. UNCHANGED mono => mono' >= mono
  BY DEF DurableOK
<1> QED
  BY <1>1, <1>2, <1>3, <1>4, <1>5, <1>6 DEF DurableStep, Transaction

-----------------------------------------------------------------------------
\* Who writes the database

\* A start finds no row, a finish and an exit the active claim of their handle.
LEMMA HandleTransaction ==
  ASSUME IInv, NEW p \in Process,
         \/ Initialize(p) \/ FinishWithoutHandle(p)
         \/ Register(p) \/ Install(p)
         \/ HeartbeatBegin(p) \/ HeartbeatCommit(p) \/ HeartbeatFinish(p)
         \/ QuarantineAfterUnknown(p) \/ Drop(p)
         \/ CloseBegin(p) \/ CloseSnapshot(p) \/ CloseCommit(p) \/ CloseSettle(p)
  PROVE  DurableStep
<1>1. UNCHANGED mono
  BY DEF Initialize, FinishWithoutHandle, Register, Install, HeartbeatBegin, HeartbeatCommit,
         HeartbeatFinish, QuarantineAfterUnknown, Drop, CloseBegin, CloseSnapshot, CloseCommit,
         CloseSettle, HandleRest
<1>2. ASSUME NEW outcome \in {"terminal", "retained", "partial"}, NEW c,
             RowOf(c) # Absent, attempt[c] = "active", ExitWrites(c, outcome)
      PROVE  DurableStep
  <2>1. row # Absent /\ row.claim = c
    BY <1>2 DEF RowOf
  <2> QED
    BY <1>1, <1>2, <2>1 DEF Exits, Transaction, DurableStep
<1>3. CASE Initialize(p)
  <2>1. PICK c \in Claim : /\ InsertClaim(c, p) /\ row = Absent
                           /\ attempt' = [attempt EXCEPT ![c] = "active"]
    BY <1>3 DEF Initialize
  <2>2. attempt' = [d \in Claim |->
           IF d = c THEN "active"
           ELSE IF RowOf(d) # Absent /\ attempt[d] = "active" THEN "retained" ELSE attempt[d]]
    BY <2>1 DEF RowOf, IInv, DurableOK
  <2> QED
    BY <1>1, <2>1, <2>2 DEF Grants, Transaction, DurableStep
<1>4. CASE FinishWithoutHandle(p)
  BY <1>2, <1>4 DEF FinishWithoutHandle
<1>5. CASE HeartbeatCommit(p)
  BY <1>1, <1>5 DEF HeartbeatCommit, CasMatches, Transaction, DurableStep
<1>6. CASE CloseCommit(p)
  <2>1. ExitAllowed(p) => RowOf(handle[p].claim) # Absent /\ attempt[handle[p].claim] = "active"
    BY DEF ExitAllowed, CasMatches, RowOf
  <2>2. UNCHANGED durable \/ \E outcome \in {"terminal", "retained", "partial"} :
           ExitAllowed(p) /\ ExitWrites(handle[p].claim, outcome)
    BY <1>6 DEF CloseCommit, durable
  <2> QED
    BY <1>1, <1>2, <2>1, <2>2 DEF Transaction, DurableStep
<1>7. CASE \/ Register(p) \/ Install(p) \/ HeartbeatBegin(p) \/ HeartbeatFinish(p)
           \/ QuarantineAfterUnknown(p) \/ Drop(p) \/ CloseBegin(p) \/ CloseSnapshot(p)
           \/ CloseSettle(p)
  BY <1>1, <1>7 DEF Register, Install, HeartbeatBegin, HeartbeatFinish, QuarantineAfterUnknown,
                    Drop, CloseBegin, CloseSnapshot, CloseSettle, OffDatabase, Transaction,
                    DurableStep
<1> QED
  BY <1>3, <1>4, <1>5, <1>6, <1>7

\* A successor is written only over the claim of the evidence, which is silent by then.
LEMMA TakeoverTransaction ==
  ASSUME IInv, NEW t \in Thread, TakeoverCommit(t)
  PROVE  DurableStep
<1>1. UNCHANGED mono
  BY DEF TakeoverCommit, ThreadRest
<1>2. CASE UNCHANGED durable
  BY <1>1, <1>2 DEF Transaction, DurableStep
<1>3. ASSUME NEW c \in Claim, EvidenceHolds(t), InsertClaim(c, Own(t)),
             attempt' = [attempt EXCEPT ![c] = "active",
                          ![task[t].claim] = IF @ = "active" THEN "retained" ELSE @]
      PROVE  DurableStep
  <2> PICK x : x = task[t]
    OBVIOUS
  <2>1. TaskOK(Own(t), x) /\ x.pc = "takeover"
    BY DEF IInv, TasksOK, TakeoverCommit
  <2>2. EvidOK(x.claim, x.held) /\ x.claim \in Claim
    BY <2>1 DEF TaskOK, Used
  <2>3. row # Absent /\ row.claim = x.claim /\ row.rev = x.held.rev
    BY <1>3 DEF EvidenceHolds, CasMatches
  <2>4. mono - beatAt >= CONFIRM
    BY <2>2, <2>3 DEF EvidOK, AtRev, RowOf
  <2>5. attempt[c] = "none" /\ attempt[row.claim] # "none"
    BY <1>3, <2>3 DEF InsertClaim, Fresh, IInv, DurableOK
  <2>6. attempt' = [d \in Claim |->
           IF d = c THEN "active"
           ELSE IF RowOf(d) # Absent /\ attempt[d] = "active" THEN "retained" ELSE attempt[d]]
    BY <1>3, <2>2, <2>3, <2>5 DEF RowOf, IInv, DurableOK
  <2> QED
    BY <1>1, <1>3, <2>3, <2>4, <2>6, Constants DEF Grants, Transaction, DurableStep
<1> QED
  BY <1>2, <1>3 DEF TakeoverCommit

\* Of the other steps only the renewal writes, and it beats.
LEMMA ThreadTransaction ==
  ASSUME IInv, NEW t \in Thread,
         \/ Discover(t) \/ \E action \in {"Renew", "Classify", "Inspect"} : StartJob(t, action)
         \/ LookAtClaim(t) \/ LookAtAttempt(t) \/ LookFails(t)
         \/ RegisterDiscovered(t) \/ InstallDiscovered(t)
         \/ RenewCommit(t) \/ RenewFinish(t)
         \/ Classify(t) \/ InspectExpiry(t) \/ Record(t)
         \/ TakeoverStart(t) \/ TakeoverCheckout(t) \/ TakeoverRead(t) \/ TakeoverAttach(t)
  PROVE  DurableStep
<1>1. UNCHANGED mono
  BY DEF Discover, StartJob, LookAtClaim, LookAtAttempt, LookFails, RegisterDiscovered,
         InstallDiscovered, RenewCommit, RenewFinish, Classify, InspectExpiry, Record,
         TakeoverStart, TakeoverCheckout, TakeoverRead, TakeoverAttach, ThreadRest
<1>2. CASE RenewCommit(t)
  BY <1>1, <1>2 DEF RenewCommit, CasMatches, Transaction, DurableStep
<1>3. CASE ~RenewCommit(t)
  BY <1>1, <1>3 DEF Discover, StartJob, LookAtClaim, LookAtAttempt, LookFails,
         RegisterDiscovered, InstallDiscovered, RenewFinish, Classify, InspectExpiry, Record,
         TakeoverStart, TakeoverCheckout, TakeoverRead, TakeoverAttach, Transaction,
         DurableStep
<1> QED
  BY <1>2, <1>3

\* Every step of the system is one of the database's.
LEMMA DurableNext ==
  ASSUME IInv, Next
  PROVE  DurableStep /\ Onward /\ DurableOK'
<1>1. ASSUME ProcessNext PROVE DurableStep
  BY <1>1 DEF ProcessNext, Start, Crash, BeginShutdown, Transaction, DurableStep, durable
<1>2. ASSUME HandleNext PROVE DurableStep
  BY <1>2, HandleTransaction DEF HandleNext
<1>3. ASSUME TickNext PROVE DurableStep
  BY <1>3, ThreadTransaction DEF TickNext
<1>4. ASSUME TakeoverNext PROVE DurableStep
  BY <1>4, ThreadTransaction, TakeoverTransaction DEF TakeoverNext
<1>5. DurableStep
  BY <1>1, <1>2, <1>3, <1>4 DEF Next, DurableStep
<1> QED
  BY <1>5, DurableKept, OnwardStep DEF IInv

-----------------------------------------------------------------------------
\* What is remembered of the database stays true.

LEMMA UsedKept ==
  ASSUME Onward, NEW c, Used(c)
  PROVE  Used(c)'
BY DEF Onward, Used

LEMMA PastKept ==
  ASSUME DurableOK, DurableOK', Onward, NEW c, NEW rev \in Nat, Past(c, rev)
  PROVE  Past(c, rev)'
<1>1. Used(c)'
  BY UsedKept DEF Past
<1>2. SUFFICES ASSUME RowOf(c)' # Absent
               PROVE  rev <= row'.rev
  BY <1>1 DEF Past
<1>3. RowOf(c) # Absent
  BY <1>2 DEF Onward, Past, Used
<1>4. /\ row # Absent /\ row' # Absent /\ row.claim = c /\ row'.claim = c
  BY <1>2, <1>3 DEF RowOf
<1>5. rev <= row.rev /\ row'.rev >= row.rev
  BY <1>3, <1>4 DEF Past, Onward
<1>6. row.rev \in Int /\ row'.rev \in Int
  BY <1>4 DEF DurableOK, Row
<1> QED
  BY <1>5, <1>6

LEMMA OwnedByKept ==
  ASSUME Onward, NEW c, NEW p, OwnedBy(c, p)
  PROVE  OwnedBy(c, p)'
BY UsedKept DEF OwnedBy, Onward, RowOf, Used

\* A revision of the past that is the row's now was it before, with the same beat.
LEMMA AtRevBefore ==
  ASSUME DurableOK, DurableOK', Onward, NEW c, NEW rev \in Nat, Past(c, rev), AtRev(c, rev)'
  PROVE  AtRev(c, rev) /\ beatAt' = beatAt
<1>1. RowOf(c)' # Absent /\ row'.rev = rev
  BY DEF AtRev
<1>2. RowOf(c) # Absent
  BY <1>1 DEF Onward, Past, Used
<1>3. /\ row # Absent /\ row' # Absent /\ row.claim = c /\ row'.claim = c
  BY <1>1, <1>2 DEF RowOf
<1>4. rev <= row.rev /\ row'.rev >= row.rev
  BY <1>2, <1>3 DEF Past, Onward
<1>5. row.rev \in Int /\ row'.rev \in Int
  BY <1>3 DEF DurableOK, Row
<1>6. row'.rev = row.rev
  BY <1>1, <1>4, <1>5
<1> QED
  BY <1>1, <1>2, <1>3, <1>6 DEF AtRev, Onward

LEMMA CandKept ==
  ASSUME DurableOK, DurableOK', Onward, NEW c, NEW x, CandOK(c, x)
  PROVE  CandOK(c, x)'
<1>1. x.rev \in Nat /\ x.start \in Nat /\ mono \in Int /\ mono' \in Int
  BY DEF CandOK, Candidates, DurableOK
<1>2. Past(c, x.rev)'
  BY <1>1, PastKept DEF CandOK
<1>3. x.start <= mono'
  BY <1>1 DEF CandOK, Onward
<1>4. AtRev(c, x.rev)' => AtRev(c, x.rev) /\ beatAt' = beatAt
  BY <1>1, AtRevBefore DEF CandOK
<1> QED
  BY <1>2, <1>3, <1>4 DEF CandOK

\* Silence only gets longer.
LEMMA Later ==
  ASSUME NEW now \in Int, NEW then \in Int, NEW beat \in Int, NEW least \in Int,
         now - beat >= least, then >= now
  PROVE  then - beat >= least
OBVIOUS

LEMMA EvidKept ==
  ASSUME DurableOK, DurableOK', Onward, NEW c, NEW x, EvidOK(c, x)
  PROVE  EvidOK(c, x)'
<1>1. /\ x.rev \in Nat
      /\ mono \in Int
      /\ mono' \in Int
      /\ mono' >= mono
      /\ beatAt \in Int
      /\ CONFIRM \in Int
  BY Constants DEF EvidOK, Evidence, DurableOK, Onward
<1>2. Past(c, x.rev)'
  BY <1>1, PastKept DEF EvidOK
<1>3. AtRev(c, x.rev)' => AtRev(c, x.rev) /\ beatAt' = beatAt
  BY <1>1, AtRevBefore DEF EvidOK
<1>4. AtRev(c, x.rev) => mono - beatAt >= CONFIRM
  BY DEF EvidOK
<1>5. ASSUME AtRev(c, x.rev)' PROVE mono' - beatAt' >= CONFIRM
  <2>1. mono - beatAt >= CONFIRM /\ beatAt' = beatAt
    BY <1>3, <1>4, <1>5
  <2> QED
    BY <1>1, <2>1, Later
<1> QED
  BY <1>2, <1>5 DEF EvidOK

LEMMA EntryKept ==
  ASSUME Onward, NEW p, NEW e, EntryOK(p, e)
  PROVE  EntryOK(p, e)'
BY UsedKept, OwnedByKept DEF EntryOK

LEMMA HandleKept ==
  ASSUME Onward, NEW h, HandleOK(h)
  PROVE  HandleOK(h)'
BY UsedKept DEF HandleOK

LEMMA TaskKept ==
  ASSUME DurableOK, DurableOK', Onward, NEW p, NEW x, TaskOK(p, x)
  PROVE  TaskOK(p, x)'
<1>1. x.row # Absent => x.row.rev \in Nat
  BY Constants DEF TaskOK, Tasks, Row
<1>2. x.row # Absent => Past(x.claim, x.row.rev)'
  BY <1>1, PastKept DEF TaskOK
<1>3. x.pc # "idle" => Used(x.claim)'
  BY UsedKept DEF TaskOK
<1>4. x.pc = "recordCandidate" => CandOK(x.claim, x.held)'
  BY CandKept DEF TaskOK
<1>5. x.pc \in {"recordEligible", "claiming", "takeover", "lost"} => EvidOK(x.claim, x.held)'
  BY EvidKept DEF TaskOK
<1>6. x.new # NoClaim => OwnedBy(x.new, p)'
  BY OwnedByKept DEF TaskOK
<1> QED
  BY <1>2, <1>3, <1>4, <1>5, <1>6 DEF TaskOK

-----------------------------------------------------------------------------
\* What a step does to the entry of one process

SetsEntry(p, e) == slot' = [slot EXCEPT ![p] = e] /\ EntryOK(p, e)'

\* Nothing, or a settled entry is put in.
SlotChange(p) == UNCHANGED slot \/ \E e : SetsEntry(p, e) /\ e.lc \notin InFlightLifecycle

\* Nothing that concerns what thread t works on, or an entry is put in that t, which
\* goes on as x, works on if it is in flight.
ThreadSlot(t, x) ==
  \/ /\ UNCHANGED slot
     /\ (Works(task[t]) /\ Matches(t)) => (Works(x) /\ x.k = task[t].k)
  \/ \E e : /\ SetsEntry(Own(t), e)
            /\ e.lc \in InFlightLifecycle => Works(x) /\ CheckoutMatches(e, x.k)

SettledLifecycle == IdleLifecycle \ RecoveryLifecycle

\* A settled entry of the same claim.
LEMMA SettledSets ==
  ASSUME IInv, Onward, NEW p \in Process, Owned(slot[p]),
         NEW lc \in SettledLifecycle, NEW proof \in ProofOption, NEW qalr \in BOOLEAN,
         NEW e, e = Settled(slot[p], lc, proof, qalr)
  PROVE  EntryOK(p, e)' /\ e.lc \notin InFlightLifecycle
<1> PICK o : o = slot[p]
  OBVIOUS
<1>1. EntryOK(p, o) /\ Owned(o) /\ e = Settled(o, lc, proof, qalr)
  BY DEF IInv, SlotsOK
<1>2. lc \in IdleLifecycle /\ lc \notin RecoveryLifecycle
  BY DEF SettledLifecycle
<1>3. WellFormed(e) /\ e.claim = o.claim /\ e.lc = lc
  BY <1>1, <1>2, SettledEntry DEF EntryOK
<1>4. EntryOK(p, e)
  BY <1>1, <1>2, <1>3 DEF EntryOK
<1> QED
  BY <1>2, <1>3, <1>4, EntryKept, LifecycleSets

\* None.
LEMMA VacantSets ==
  ASSUME NEW p \in Process
  PROVE  EntryOK(p, Vacant)' /\ Vacant.lc \notin InFlightLifecycle
BY VacantEntry DEF EntryOK, Vacant, RecoveryLifecycle, InFlightLifecycle

\* A registered one.
LEMMA RegisteredSets ==
  ASSUME Onward, NEW p \in Process, NEW gen \in Nat \ {0}, NEW c, Used(c), NEW rt \in Nat,
         NEW lc \in SettledLifecycle, NEW e, e = RuntimeOwned(gen, c, rt, lc)
  PROVE  EntryOK(p, e)' /\ e.lc \notin InFlightLifecycle
<1>1. lc \in IdleLifecycle /\ lc \notin RecoveryLifecycle /\ c \in Claim
  BY DEF SettledLifecycle, Used
<1>2. WellFormed(e)
  BY <1>1, RuntimeOwnedEntry
<1>3. e.claim = c /\ e.lc = lc
  BY DEF RuntimeOwned, Vacant
<1>4. EntryOK(p, e)
  BY <1>1, <1>2, <1>3 DEF EntryOK
<1> QED
  BY <1>1, <1>3, <1>4, EntryKept, LifecycleSets

\* One with a proof put in.
LEMMA SealedSets ==
  ASSUME IInv, Onward, NEW p \in Process, Owned(slot[p]), slot[p].lc \notin InFlightLifecycle,
         NEW proof \in ProofOption, NEW e, e = Sealed(slot[p], proof)
  PROVE  EntryOK(p, e)' /\ e.lc \notin InFlightLifecycle
<1> PICK o : o = slot[p]
  OBVIOUS
<1>1. EntryOK(p, o) /\ Owned(o) /\ o.lc \notin InFlightLifecycle /\ e = Sealed(o, proof)
  BY DEF IInv, SlotsOK
<1>2. WellFormed(e) /\ e.claim = o.claim /\ e.lc = o.lc
  BY <1>1, SealedEntry DEF EntryOK
<1>3. EntryOK(p, e)
  BY <1>1, <1>2 DEF EntryOK
<1> QED
  BY <1>1, <1>2, <1>3, EntryKept

\* What the handle does to an entry.
LEMMA SettledChange ==
  ASSUME IInv, Onward, NEW p \in Process, Owned(slot[p]),
         NEW lc \in SettledLifecycle, NEW proof \in ProofOption, NEW qalr \in BOOLEAN,
         Put(p, Settled(slot[p], lc, proof, qalr))
  PROVE  SlotChange(p)
<1> PICK e : e = Settled(slot[p], lc, proof, qalr)
  OBVIOUS
<1>1. EntryOK(p, e)' /\ e.lc \notin InFlightLifecycle
  BY SettledSets
<1> QED
  BY <1>1 DEF SlotChange, SetsEntry, Put

LEMMA HandleChange ==
  ASSUME IInv, Onward, NEW p \in Process
  PROVE  /\ Invalidated(p) => SlotChange(p)
         /\ \A from, to : to \in SettledLifecycle /\ Moves(p, from, to) => SlotChange(p)
         /\ Owned(slot[p]) /\ Put(p, DroppedUnclosed(slot[p])) => SlotChange(p)
         /\ Put(p, Vacant) => SlotChange(p)
<1>1. NoProof \in ProofOption /\ slot[p].proof \in ProofOption
  BY DEF ProofOption, IInv, SlotsOK, Entry
<1>2. Invalidated(p) => SlotChange(p)
  BY <1>1, SettledChange DEF Invalidated, QuarantinedInvalid, Holds, SlotChange,
     SettledLifecycle, IdleLifecycle, RecoveryLifecycle
<1>3. ASSUME NEW from, NEW to \in SettledLifecycle, Moves(p, from, to)
      PROVE  SlotChange(p)
  <2>1. CASE Holds(p) /\ slot[p].lc = from
    <3> PICK proof \in ProofOption : Transitioned(slot[p], to) = Settled(slot[p], to, proof, FALSE)
      BY <1>1 DEF Transitioned
    <3> QED
      BY <1>3, <2>1, SettledChange DEF Moves, Holds
  <2>2. CASE ~(Holds(p) /\ slot[p].lc = from)
    BY <1>3, <2>2 DEF Moves, SlotChange
  <2> QED
    BY <2>1, <2>2
<1>4. Owned(slot[p]) /\ Put(p, DroppedUnclosed(slot[p])) => SlotChange(p)
  BY <1>1, SettledChange DEF DroppedUnclosed, SettledLifecycle, IdleLifecycle, RecoveryLifecycle
<1>5. Put(p, Vacant) => SlotChange(p)
  BY VacantSets DEF Put, SlotChange, SetsEntry
<1> QED
  BY <1>2, <1>3, <1>4, <1>5

\* A step of a handle that changes nothing else keeps the invariant.
LEMMA HandleFrame ==
  ASSUME IInv, Onward, DurableOK', NEW p \in Process, HandleRest(p), SlotChange(p),
         nextGen' \in [Process -> Nat],
         NEW h, handle' = [handle EXCEPT ![p] = h], HandleOK(h)'
  PROVE  IInv'
<1>1. UNCHANGED <<mono, up, shutting, nextCheckout, cands, elig, guards, task>> /\ up[p] = "up"
  BY DEF HandleRest, supervisor
<1>2. SlotsOK' /\ \A q \in Process : q # p => slot'[q] = slot[q]
  <2>1. CASE UNCHANGED slot
    BY <2>1, EntryKept DEF IInv, SlotsOK
  <2>2. ASSUME NEW e, SetsEntry(p, e) PROVE SlotsOK' /\ \A q \in Process : q # p => slot'[q] = slot[q]
    BY <2>2, EntryKept DEF IInv, SlotsOK, SetsEntry, EntryOK, WellFormed
  <2> QED
    BY <2>1, <2>2 DEF SlotChange
<1>3. HandlesOK'
  BY HandleKept DEF IInv, HandlesOK, HandleOK
<1>4. TasksOK'
  BY <1>1, TaskKept DEF IInv, TasksOK, Own
<1>5. EvidenceOK'
  BY <1>1, CandKept, EvidKept DEF IInv, EvidenceOK
<1>6. CountersOK'
  BY <1>1, <1>2 DEF IInv, CountersOK, HandlesOK
<1>7. CustodyOK'
  <2>1. \A q \in Process : slot'[q].lc \in InFlightLifecycle => slot'[q] = slot[q]
    BY DEF SlotChange, SetsEntry, IInv, SlotsOK
  <2> QED
    BY <1>1, <2>1 DEF IInv, CustodyOK, Own
<1> QED
  BY <1>2, <1>3, <1>4, <1>5, <1>6, <1>7 DEF IInv

\* The handle goes on with the same claim, or is gone.
LEMMA HandleGoesOn ==
  ASSUME IInv, Onward, NEW p \in Process, handle[p].pc # "none",
         NEW h \in Handles, h.claim = handle[p].claim
  PROVE  HandleOK(h)'
<1> PICK c : c = h.claim
  OBVIOUS
<1>1. Used(c)
  BY DEF IInv, HandlesOK, HandleOK
<1>2. Used(c)'
  BY <1>1, UsedKept
<1> QED
  BY <1>2 DEF HandleOK

LEMMA HandleBecomes ==
  ASSUME IInv, Onward, DurableOK', NEW p \in Process, HandleRest(p), SlotChange(p),
         UNCHANGED nextGen, handle[p].pc # "none",
         NEW pc \in HandlePc, Become(p, pc) \/ Gone(p)
  PROVE  IInv'
<1>1. nextGen' \in [Process -> Nat]
  BY DEF IInv, CountersOK
<1>2. CASE Become(p, pc)
  <2> PICK h : h = [handle[p] EXCEPT !.pc = pc]
    OBVIOUS
  <2>1. handle[p] \in Handles
    BY DEF IInv, HandlesOK
  <2>2. h \in Handles /\ h.claim = handle[p].claim
    BY <2>1 DEF Handles
  <2>3. HandleOK(h)'
    BY <2>2, HandleGoesOn
  <2>4. handle' = [handle EXCEPT ![p] = h]
    BY <1>2 DEF Become
  <2> QED
    BY <1>1, <2>3, <2>4, HandleFrame
<1>3. CASE Gone(p)
  <2>1. HandleOK(NoHandle)'
    BY DEF HandleOK, NoHandle, Handles, HandlePc, ClaimOption
  <2> QED
    BY <1>1, <1>3, <2>1, HandleFrame DEF Gone
<1> QED
  BY <1>2, <1>3

LEMMA InitializeKeeps ==
  ASSUME IInv, Onward, DurableOK', NEW p \in Process, Initialize(p)
  PROVE  IInv'
<1> PICK c \in Claim :
       /\ InsertClaim(c, p)
       /\ attempt' = [attempt EXCEPT ![c] = "active"]
       /\ handle' = [handle EXCEPT ![p] = [NoHandle EXCEPT !.pc = "initialized", !.claim = c]]
  BY DEF Initialize
<1> DEFINE h == [NoHandle EXCEPT !.pc = "initialized", !.claim = c]
<1>1. h \in Handles /\ h.claim = c
  BY DEF NoHandle, Handles, HandlePc, ClaimOption
<1>2. Used(c)'
  BY DEF Used, IInv, DurableOK
<1>3. HandleOK(h)'
  BY <1>1, <1>2 DEF HandleOK
<1>4. SlotChange(p) /\ nextGen' \in [Process -> Nat] /\ HandleRest(p)
  BY DEF Initialize, SlotChange, IInv, CountersOK
<1> HIDE DEF h
<1> QED
  BY <1>3, <1>4, HandleFrame DEF h

LEMMA RegisterKeeps ==
  ASSUME IInv, Onward, DurableOK', NEW p \in Process, Register(p)
  PROVE  IInv'
<1>1. handle[p].pc = "initialized" /\ HandleRest(p)
  BY DEF Register
<1>2. CASE Gone(p) /\ UNCHANGED <<slot, nextGen>>
  BY <1>1, <1>2, HandleBecomes DEF SlotChange, HandlePc
<1>3. CASE /\ nextGen' = [nextGen EXCEPT ![p] = @ + 1]
           /\ Put(p, RuntimeOwned(nextGen[p] + 1, handle[p].claim, HandleRuntime, "Live"))
           /\ handle' = [handle EXCEPT ![p].pc = "registered", ![p].gen = nextGen[p] + 1]
  <2> PICK gen : gen = nextGen[p] + 1
    OBVIOUS
  <2> PICK e : e = RuntimeOwned(gen, handle[p].claim, HandleRuntime, "Live")
    OBVIOUS
  <2> PICK h : h = [handle[p] EXCEPT !.pc = "registered", !.gen = gen]
    OBVIOUS
  <2>1. gen \in Nat \ {0} /\ nextGen' \in [Process -> Nat]
    BY <1>3 DEF IInv, CountersOK
  <2>2. handle[p] \in Handles /\ Used(handle[p].claim)
    BY <1>1 DEF IInv, HandlesOK, HandleOK
  <2>3. EntryOK(p, e)' /\ e.lc \notin InFlightLifecycle
    BY <2>1, <2>2, RegisteredSets DEF SettledLifecycle, IdleLifecycle, RecoveryLifecycle,
       HandleRuntime
  <2>4. h \in Handles /\ h.claim = handle[p].claim
    BY <2>1, <2>2 DEF Handles, HandlePc
  <2>5. HandleOK(h)'
    BY <1>1, <2>4, HandleGoesOn
  <2>6. handle' = [handle EXCEPT ![p] = h]
    BY <1>3 DEF IInv, HandlesOK
  <2>7. SlotChange(p)
    BY <1>3, <2>3 DEF SlotChange, SetsEntry, Put
  <2> QED
    BY <1>1, <2>1, <2>5, <2>6, <2>7, HandleFrame
<1> QED
  BY <1>2, <1>3 DEF Register

\* The proof of the row is one of the entry's.
LEMMA ProofOfRow ==
  ASSUME DurableOK, NEW c, Used(c), RowOf(c) # Absent, NEW gen \in Nat \ {0}
  PROVE  [claim |-> c, gen |-> gen, rev |-> row.rev] \in ProofOption
BY Constants DEF DurableOK, Used, RowOf, Row, Proof, ProofOption

LEMMA InstallKeeps ==
  ASSUME IInv, Onward, DurableOK', NEW p \in Process, Install(p)
  PROVE  IInv'
<1>1. handle[p].pc = "registered" /\ HandleRest(p) /\ UNCHANGED nextGen
  BY DEF Install, OffDatabase
<1>2. Gone(p) \/ Become(p, "live")
  BY DEF Install
<1>3. SlotChange(p)
  <2>1. CASE Put(p, Vacant) \/ UNCHANGED slot
    BY <2>1, HandleChange DEF SlotChange
  <2>2. ASSUME NEW proof, proof = [claim |-> handle[p].claim, gen |-> handle[p].gen, rev |-> row.rev],
               RowOf(handle[p].claim) # Absent, Holds(p), InstallAllowed(slot[p], proof),
               Put(p, Sealed(slot[p], proof))
        PROVE  SlotChange(p)
    <3> PICK e : e = Sealed(slot[p], proof)
      OBVIOUS
    <3>1. Used(handle[p].claim)
      BY <1>1 DEF IInv, HandlesOK, HandleOK
    <3>2. slot[p].gen = handle[p].gen /\ slot[p].gen \in Nat \ {0} /\ Owned(slot[p])
      BY <2>2 DEF Holds, IInv, SlotsOK, EntryOK, WellFormed, StageShape, Entry, Occupied, Owned
    <3>3. proof \in ProofOption
      BY <2>2, <3>1, <3>2, ProofOfRow DEF IInv
    <3>4. slot[p].lc \notin InFlightLifecycle
      BY <2>2 DEF InstallAllowed, InFlightLifecycle
    <3>5. EntryOK(p, e)' /\ e.lc \notin InFlightLifecycle
      BY <3>2, <3>3, <3>4, SealedSets
    <3> QED
      BY <2>2, <3>5 DEF SlotChange, SetsEntry, Put
  <2> QED
    BY <2>1, <2>2 DEF Install
<1> QED
  BY <1>1, <1>2, <1>3, HandleBecomes DEF HandlePc

\* A heartbeat begun, an exit's snapshot: the revision is remembered.
LEMMA HandleSees ==
  ASSUME IInv, Onward, DurableOK', NEW p \in Process, HandleRest(p), UNCHANGED <<slot, nextGen>>,
         handle[p].pc # "none", NEW pc \in HandlePc,
         handle' = [handle EXCEPT ![p].pc = pc, ![p].seen = slot[p].proof.rev]
  PROVE  IInv'
<1> PICK seen : seen = slot[p].proof.rev
  OBVIOUS
<1> PICK h : h = [handle[p] EXCEPT !.pc = pc, !.seen = seen]
  OBVIOUS
<1>1. seen \in Nat
  BY DEF IInv, SlotsOK, Entry, Proof, NoProof
<1>2. handle[p] \in Handles
  BY DEF IInv, HandlesOK
<1>3. h \in Handles /\ h.claim = handle[p].claim
  BY <1>1, <1>2 DEF Handles
<1>4. HandleOK(h)'
  BY <1>3, HandleGoesOn
<1>5. handle' = [handle EXCEPT ![p] = h]
  BY DEF IInv, HandlesOK
<1>6. SlotChange(p) /\ nextGen' \in [Process -> Nat]
  BY DEF SlotChange, IInv, CountersOK
<1> QED
  BY <1>4, <1>5, <1>6, HandleFrame

LEMMA HeartbeatKeeps ==
  ASSUME IInv, Onward, DurableOK', NEW p \in Process,
         HeartbeatBegin(p) \/ HeartbeatCommit(p) \/ HeartbeatFinish(p)
  PROVE  IInv'
<1>1. CASE HeartbeatBegin(p)
  BY <1>1, HandleSees DEF HeartbeatBegin, OffDatabase, HandlePc
<1>2. CASE HeartbeatCommit(p)
  <2>1. SlotChange(p)
    BY <1>2, HandleChange DEF HeartbeatCommit, SlotChange
  <2>2. \E pc \in HandlePc : Become(p, pc)
    BY <1>2 DEF HeartbeatCommit, HandlePc
  <2> QED
    BY <1>2, <2>1, <2>2, HandleBecomes DEF HeartbeatCommit
<1>3. CASE HeartbeatFinish(p)
  <2>1. SlotChange(p)
    <3>1. CASE Invalidated(p)
      BY <3>1, HandleChange
    <3>2. ASSUME NEW proof, proof = [claim |-> handle[p].claim, gen |-> handle[p].gen, rev |-> row.rev],
                 RowOf(handle[p].claim) # Absent, Holds(p),
                 ReplaceAllowed(slot[p], handle[p].seen, proof), Put(p, Sealed(slot[p], proof))
          PROVE  SlotChange(p)
      <4> PICK e : e = Sealed(slot[p], proof)
        OBVIOUS
      <4>1. Used(handle[p].claim)
        BY <1>3 DEF HeartbeatFinish, IInv, HandlesOK, HandleOK
      <4>2. slot[p].gen = handle[p].gen /\ slot[p].gen \in Nat \ {0} /\ Owned(slot[p])
        BY <3>2 DEF Holds, IInv, SlotsOK, EntryOK, WellFormed, StageShape, Entry, Occupied, Owned
      <4>3. proof \in ProofOption
        BY <3>2, <4>1, <4>2, ProofOfRow DEF IInv
      <4>4. slot[p].lc \notin InFlightLifecycle
        BY <3>2 DEF ReplaceAllowed, InFlightLifecycle
      <4>5. EntryOK(p, e)' /\ e.lc \notin InFlightLifecycle
        BY <4>2, <4>3, <4>4, SealedSets
      <4> QED
        BY <3>2, <4>5 DEF SlotChange, SetsEntry, Put
    <3> QED
      BY <1>3, <3>1, <3>2 DEF HeartbeatFinish
  <2>2. \E pc \in HandlePc : Become(p, pc)
    BY <1>3 DEF HeartbeatFinish, HandlePc
  <2> QED
    BY <1>3, <2>1, <2>2, HandleBecomes DEF HeartbeatFinish, OffDatabase
<1> QED
  BY <1>1, <1>2, <1>3

LEMMA HandleEndsKeep ==
  ASSUME IInv, Onward, DurableOK', NEW p \in Process,
         \/ FinishWithoutHandle(p) \/ QuarantineAfterUnknown(p) \/ Drop(p)
         \/ CloseBegin(p) \/ CloseSnapshot(p) \/ CloseCommit(p) \/ CloseSettle(p)
  PROVE  IInv'
<1> DEFINE To == {"Quarantined", "DroppedUnclosed", "Exiting", "Retained"}
<1>1. To \subseteq SettledLifecycle
  BY DEF SettledLifecycle, IdleLifecycle, RecoveryLifecycle
<1>2. \A from, to : to \in To /\ Moves(p, from, to) => SlotChange(p)
  BY <1>1, HandleChange
<1>3. UNCHANGED slot => SlotChange(p)
  BY DEF SlotChange
<1>4. CASE FinishWithoutHandle(p)
  BY <1>3, <1>4, HandleBecomes DEF FinishWithoutHandle, HandlePc
<1>5. CASE QuarantineAfterUnknown(p)
  <2>1. SlotChange(p)
    BY <1>2, <1>5 DEF QuarantineAfterUnknown
  <2> QED
    BY <1>5, <2>1, HandleBecomes DEF QuarantineAfterUnknown, HandlePc, OffDatabase
<1>6. CASE Drop(p)
  <2>1. SlotChange(p)
    BY <1>3, <1>6, HandleChange DEF Drop, Holds
  <2> QED
    BY <1>6, <2>1, HandleBecomes DEF Drop, HandlePc, OffDatabase
<1>7. CASE CloseBegin(p)
  <2>1. SlotChange(p)
    BY <1>2, <1>7 DEF CloseBegin
  <2> QED
    BY <1>7, <2>1, HandleBecomes DEF CloseBegin, HandlePc, OffDatabase
<1>8. CASE CloseSnapshot(p)
  <2>1. CASE Invalidated(p) /\ Gone(p)
    BY <1>8, <2>1, HandleChange, HandleBecomes DEF CloseSnapshot, HandlePc, OffDatabase
  <2>2. CASE UNCHANGED slot /\ handle' = [handle EXCEPT ![p].pc = "exiting", ![p].seen = slot[p].proof.rev]
    BY <1>8, <2>2, HandleSees DEF CloseSnapshot, HandlePc, OffDatabase
  <2> QED
    BY <1>8, <2>1, <2>2 DEF CloseSnapshot
<1>9. CASE CloseCommit(p)
  <2>1. SlotChange(p)
    BY <1>2, <1>3, <1>9 DEF CloseCommit
  <2>2. Gone(p) \/ Become(p, "settleTerminal") \/ Become(p, "settleRetained")
    BY <1>9 DEF CloseCommit
  <2> QED
    BY <1>9, <2>1, <2>2, HandleBecomes DEF CloseCommit, HandlePc
<1>10. CASE CloseSettle(p)
  <2>1. SlotChange(p)
    BY <1>2, <1>10, HandleChange DEF CloseSettle
  <2> QED
    BY <1>10, <2>1, HandleBecomes DEF CloseSettle, HandlePc, OffDatabase
<1> QED
  BY <1>4, <1>5, <1>6, <1>7, <1>8, <1>9, <1>10

LEMMA HandleKeeps ==
  ASSUME IInv, HandleNext
  PROVE  IInv'
<1>1. HandleNext => Next
  BY DEF Next
<1>2. Onward /\ DurableOK'
  BY <1>1, DurableNext
<1> QED
  BY <1>2, InitializeKeeps, RegisterKeeps, InstallKeeps, HeartbeatKeeps, HandleEndsKeep
     DEF HandleNext

-----------------------------------------------------------------------------
\* What a step of a thread does

LEMMA IdleTask == \A p : TaskOK(p, Idle)
BY DEF TaskOK, Idle, Tasks, NoCheckout, CheckoutOf, Vacant, Checkouts, ClaimOption, ProofOption,
       LifecycleOption, Status, TaskPc, Works, CheckoutAction

LEMMA ThreadFrame ==
  ASSUME IInv, Onward, DurableOK', NEW t \in Thread, ThreadRest(t),
         NEW x, Do(t, x), TaskOK(Own(t), x)', ThreadSlot(t, x),
         nextGen' \in [Process -> Nat], nextCheckout' \in [Process -> Nat],
         guards' \in [Process -> SUBSET Claim], EvidenceOK'
  PROVE  IInv'
<1> PICK p : p = Own(t)
  OBVIOUS
<1>1. UNCHANGED <<mono, up, shutting, handle>> /\ up[p] = "up" /\ p \in Process
  BY Constants DEF ThreadRest
<1>2. SlotsOK' /\ \A q \in Process : q # p => slot'[q] = slot[q]
  <2>1. CASE UNCHANGED slot
    BY <2>1, EntryKept DEF IInv, SlotsOK
  <2>2. ASSUME NEW e, SetsEntry(p, e)
        PROVE  SlotsOK' /\ \A q \in Process : q # p => slot'[q] = slot[q]
    BY <1>1, <2>2, EntryKept DEF IInv, SlotsOK, SetsEntry, EntryOK, WellFormed
  <2> QED
    BY <2>1, <2>2 DEF ThreadSlot
<1>3. HandlesOK'
  BY <1>1, HandleKept DEF IInv, HandlesOK
<1>4. TasksOK'
  <2>1. task' = [task EXCEPT ![t] = x] /\ task \in [Thread -> Tasks]
    BY DEF Do, IInv, TasksOK
  <2>2. x \in Tasks
    BY DEF TaskOK, Tasks
  <2>3. \A u \in Thread : TaskOK(Own(u), task[u])'
    <3> SUFFICES ASSUME NEW u \in Thread PROVE TaskOK(Own(u), task[u])'
      OBVIOUS
    <3> PICK y : y = task'[u]
      OBVIOUS
    <3> PICK q : q = Own(u)
      OBVIOUS
    <3>1. TaskOK(q, y)'
      BY <2>1, TaskKept DEF IInv, TasksOK
    <3> QED
      BY <3>1 DEF Own
  <2> QED
    BY <2>1, <2>2, <2>3 DEF TasksOK
<1>5. CountersOK'
  BY <1>1, <1>2 DEF IInv, CountersOK
<1>6. CustodyOK'
  <2> SUFFICES ASSUME NEW q \in Process, slot'[q].lc \in InFlightLifecycle
               PROVE  \E u \in Thread : Own(u) = q /\ Works(task'[u]) /\ CheckoutMatches(slot'[q], task'[u].k)
    BY DEF CustodyOK, Own
  <2>1. task' = [task EXCEPT ![t] = x] /\ task \in [Thread -> Tasks]
    BY DEF Do, IInv, TasksOK
  <2>2. CASE slot'[q] = slot[q]
    <3>1. PICK u \in Thread : Own(u) = q /\ Works(task[u]) /\ CheckoutMatches(slot[q], task[u].k)
      BY <2>2 DEF IInv, CustodyOK
    <3>2. CASE u # t
      BY <2>1, <2>2, <3>1, <3>2
    <3>3. CASE u = t
      <4>1. Works(task[t]) /\ Matches(t) /\ q = p
        BY <3>1, <3>3 DEF Matches
      <4>2. CASE Works(x) /\ x.k = task[t].k
        BY <2>1, <2>2, <3>1, <3>3, <4>2
      <4>3. ASSUME NEW e, SetsEntry(p, e), e.lc \in InFlightLifecycle => Works(x) /\ CheckoutMatches(e, x.k)
            PROVE  Works(x) /\ CheckoutMatches(slot'[q], x.k)
        BY <1>1, <4>1, <4>3 DEF SetsEntry, IInv, SlotsOK
      <4> QED
        BY <2>1, <3>1, <3>3, <4>1, <4>2, <4>3 DEF ThreadSlot
    <3> QED
      BY <3>2, <3>3
  <2>3. CASE slot'[q] # slot[q]
    <3>1. PICK e : SetsEntry(p, e) /\ (e.lc \in InFlightLifecycle => Works(x) /\ CheckoutMatches(e, x.k))
      BY <2>3 DEF ThreadSlot
    <3>2. q = p /\ slot'[q] = e
      BY <1>1, <1>2, <2>3, <3>1 DEF SetsEntry, IInv, SlotsOK
    <3> QED
      BY <2>1, <3>1, <3>2
  <2> QED
    BY <2>2, <2>3
<1> QED
  BY <1>2, <1>3, <1>4, <1>5, <1>6 DEF IInv

\* A record of evidence is taken out or put in.
LEMMA EvidenceFrame ==
  ASSUME IInv, Onward, DurableOK', NEW p \in Process, NEW c \in Claim, NEW v, NEW w,
         UNCHANGED cands \/ (cands' = [cands EXCEPT ![p][c] = v] /\ (v = Absent \/ CandOK(c, v)')),
         UNCHANGED elig \/ (elig' = [elig EXCEPT ![p][c] = w] /\ (w = Absent \/ EvidOK(c, w)'))
  PROVE  EvidenceOK'
<1>1. /\ cands' \in [Process -> [Claim -> Candidates \cup {Absent}]]
      /\ \A q \in Process, d \in Claim : cands'[q][d] # Absent => CandOK(d, cands[q][d])'
  <2>1. cands \in [Process -> [Claim -> Candidates \cup {Absent}]]
    BY DEF IInv, EvidenceOK
  <2>2. v \in Candidates \cup {Absent} \/ UNCHANGED cands
    BY DEF CandOK, Candidates
  <2>3. \A q \in Process, d \in Claim :
           cands'[q][d] = cands[q][d] \/ (d = c /\ cands'[q][d] = v /\ (v = Absent \/ CandOK(c, v)'))
    BY <2>1
  <2>4. cands' \in [Process -> [Claim -> Candidates \cup {Absent}]]
    BY <2>1, <2>2
  <2>5. ASSUME NEW q \in Process, NEW d \in Claim, cands'[q][d] # Absent
        PROVE  CandOK(d, cands[q][d])'
    <3> PICK y : y = cands'[q][d]
      OBVIOUS
    <3>1. CASE y = cands[q][d]
      <4>1. CandOK(d, y)
        BY <2>5, <3>1 DEF IInv, EvidenceOK
      <4>2. CandOK(d, y)'
        BY <4>1, CandKept DEF IInv
      <4> QED
        BY <4>2
    <3>2. CASE y # cands[q][d]
      BY <2>3, <2>5, <3>2
    <3> QED
      BY <3>1, <3>2
  <2> QED
    BY <2>4, <2>5
<1>2. /\ elig' \in [Process -> [Claim -> Evidence \cup {Absent}]]
      /\ \A q \in Process, d \in Claim : elig'[q][d] # Absent => EvidOK(d, elig[q][d])'
  <2>1. elig \in [Process -> [Claim -> Evidence \cup {Absent}]]
    BY DEF IInv, EvidenceOK
  <2>2. w \in Evidence \cup {Absent} \/ UNCHANGED elig
    BY DEF EvidOK, Evidence
  <2>3. \A q \in Process, d \in Claim :
           elig'[q][d] = elig[q][d] \/ (d = c /\ elig'[q][d] = w /\ (w = Absent \/ EvidOK(c, w)'))
    BY <2>1
  <2>4. elig' \in [Process -> [Claim -> Evidence \cup {Absent}]]
    BY <2>1, <2>2
  <2>5. ASSUME NEW q \in Process, NEW d \in Claim, elig'[q][d] # Absent
        PROVE  EvidOK(d, elig[q][d])'
    <3> PICK y : y = elig'[q][d]
      OBVIOUS
    <3>1. CASE y = elig[q][d]
      <4>1. EvidOK(d, y)
        BY <2>5, <3>1 DEF IInv, EvidenceOK
      <4>2. EvidOK(d, y)'
        BY <4>1, EvidKept DEF IInv
      <4> QED
        BY <4>2
    <3>2. CASE y # elig[q][d]
      BY <2>3, <2>5, <3>2
    <3> QED
      BY <3>1, <3>2
  <2> QED
    BY <2>4, <2>5
<1> QED
  BY <1>1, <1>2 DEF EvidenceOK

LEMMA PrevSettled ==
  ASSUME NEW action \in CheckoutAction
  PROVE  PrevOf(action) \subseteq SettledLifecycle
BY DEF CheckoutAction, PrevOf, SettledLifecycle, IdleLifecycle, RecoveryLifecycle

\* The checkout is completed or restored, or was stale.
LEMMA CompleteSets ==
  ASSUME IInv, Onward, NEW t \in Thread, NEW target \in SettledLifecycle \cup {"Closed"},
         NEW proof, Matches(t) => proof \in ProofOption, Complete(t, target, proof), NEW x
  PROVE  ThreadSlot(t, x)
<1> PICK p \in Process : p = Own(t)
  BY Constants
<1>1. CASE ~Matches(t)
  BY <1>1 DEF Complete, ThreadSlot
<1>2. CASE Matches(t) /\ target = "Closed"
  <2>1. slot' = [slot EXCEPT ![p] = Vacant]
    BY <1>2 DEF Complete
  <2> QED
    BY <2>1, VacantSets DEF ThreadSlot, SetsEntry
<1>3. CASE Matches(t) /\ target # "Closed"
  <2> PICK e : e = Settled(slot[p], target, proof, FALSE)
    OBVIOUS
  <2>1. slot' = [slot EXCEPT ![p] = e] /\ Owned(slot[p])
    BY <1>3 DEF Complete, Completed, Matches, CheckoutMatches, IInv, SlotsOK
  <2>2. EntryOK(p, e)' /\ e.lc \notin InFlightLifecycle
    BY <1>3, <2>1, SettledSets
  <2> QED
    BY <2>1, <2>2 DEF ThreadSlot, SetsEntry
<1> QED
  BY <1>1, <1>2, <1>3

LEMMA RestoreSets ==
  ASSUME IInv, Onward, NEW t \in Thread, Works(task[t]), Restore(t), NEW x
  PROVE  ThreadSlot(t, x)
<1> PICK p \in Process : p = Own(t)
  BY Constants
<1>1. CASE ~Matches(t)
  BY <1>1 DEF Restore, ThreadSlot
<1>2. CASE Matches(t)
  <2> PICK k : k = task[t].k
    OBVIOUS
  <2> PICK lc : lc = k.prev
    OBVIOUS
  <2> PICK proof : proof = k.proof
    OBVIOUS
  <2> PICK qalr : qalr = k.qalr
    OBVIOUS
  <2> PICK e : e = Settled(slot[p], lc, proof, qalr)
    OBVIOUS
  <2>1. slot' = [slot EXCEPT ![p] = e] /\ Owned(slot[p])
    BY <1>2 DEF Restore, Restored, Matches, CheckoutMatches, IInv, SlotsOK
  <2>2. TaskOK(Own(t), task[t])
    BY DEF IInv, TasksOK
  <2>3. task[t].job \in CheckoutAction /\ k.prev \in PrevOf(task[t].job)
    BY <2>2 DEF TaskOK, Works
  <2>4. lc \in SettledLifecycle
    BY <2>3, PrevSettled
  <2>5. proof \in ProofOption /\ qalr \in BOOLEAN
    BY <2>2 DEF TaskOK, Tasks, Checkouts
  <2>6. EntryOK(p, e)' /\ e.lc \notin InFlightLifecycle
    BY <2>1, <2>4, <2>5, SettledSets
  <2> QED
    BY <2>1, <2>6 DEF ThreadSlot, SetsEntry
<1> QED
  BY <1>1, <1>2

\* The checkout taken out is the one of the task.
LEMMA CheckoutSets ==
  ASSUME IInv, Onward, NEW t \in Thread, NEW action \in CheckoutAction,
         CheckoutAllowed(slot[Own(t)], action), TakesOut(t, action),
         NEW c, c = slot[Own(t)].claim,
         NEW x, Works(x), x.k = CheckoutOf("none", slot[Own(t)], action, nextCheckout[Own(t)] + 1)
  PROVE  /\ ThreadSlot(t, x)
         /\ nextGen' \in [Process -> Nat] /\ nextCheckout' \in [Process -> Nat]
         /\ x.k \in Checkouts /\ x.k.claim = c /\ Used(c)
         /\ x.k.action = action /\ x.k.prev \in PrevOf(action)
<1> PICK p \in Process : p = Own(t)
  BY Constants
<1> PICK o : o = slot[p]
  OBVIOUS
<1> PICK ck : ck = nextCheckout[p] + 1
  OBVIOUS
<1> PICK e : e = CheckedOut(o, action, ck)
  OBVIOUS
<1>1. ck \in Nat \ {0} /\ EntryOK(p, o) /\ CheckoutAllowed(o, action)
  BY DEF IInv, CountersOK, SlotsOK
<1>2. /\ WellFormed(e) /\ Owned(e) /\ e.gen = o.gen /\ e.claim = o.claim /\ e.rt = o.rt
      /\ e.ck = ck /\ e.prev = o.lc /\ e.lc = InFlightOf(action)
      /\ e.lc \in InFlightLifecycle
  BY <1>1, CheckedOutEntry DEF EntryOK
<1>3. x.k = CheckoutOf("none", o, action, ck)
  OBVIOUS
<1>4. EntryOK(p, e)'
  <2>1. EntryOK(p, e)
    BY <1>1, <1>2 DEF EntryOK, InFlightLifecycle, RecoveryLifecycle
  <2> QED
    BY <2>1, EntryKept
<1>5. CheckoutMatches(e, x.k)
  BY <1>2, <1>3 DEF CheckoutMatches, CheckoutOf
<1>6. slot' = [slot EXCEPT ![p] = e]
  BY DEF TakesOut, Put
<1>7. ThreadSlot(t, x)
  BY <1>4, <1>5, <1>6 DEF ThreadSlot, SetsEntry
<1>8. nextGen' \in [Process -> Nat] /\ nextCheckout' \in [Process -> Nat]
  BY DEF TakesOut, IInv, CountersOK
<1>9. o.claim # NoClaim /\ Used(o.claim)
  BY <1>1 DEF EntryOK, CheckoutAllowed, WellFormed, StageShape, Owned
<1>10. x.k \in Checkouts
  BY <1>1, <1>3 DEF CheckoutOf, Checkouts, EntryOK, WellFormed, Entry, LifecycleOption,
                    ClaimOption, ProofOption
<1>11. o.lc \in PrevOf(action)
  BY <1>1 DEF CheckoutAllowed, PrevOf, CheckoutAction
<1> QED
  BY <1>3, <1>7, <1>8, <1>9, <1>10, <1>11 DEF CheckoutOf

\* A thread is done.
LEMMA ThreadDone ==
  ASSUME IInv, Onward, DurableOK', NEW t \in Thread, ThreadRest(t), Done(t), ThreadSlot(t, Idle),
         nextGen' \in [Process -> Nat], UNCHANGED nextCheckout,
         UNCHANGED guards, EvidenceOK'
  PROVE  IInv'
<1> PICK x : x = Idle
  OBVIOUS
<1> PICK p : p = Own(t)
  OBVIOUS
<1>1. TaskOK(p, x)
  BY IdleTask
<1>2. TaskOK(p, x)'
  BY <1>1, TaskKept DEF IInv
<1> QED
  BY <1>2, ThreadFrame DEF Done, IInv, CountersOK, Own

\* A thread goes on with the entry it works on.
LEMMA ThreadGoesOn ==
  ASSUME IInv, Onward, DurableOK', NEW t \in Thread, ThreadRest(t), UNCHANGED <<registry, supervisor>>,
         NEW x, Do(t, x), TaskOK(Own(t), x)', Works(task[t]) => Works(x) /\ x.k = task[t].k
  PROVE  IInv'
<1>1. EvidenceOK'
  BY CandKept, EvidKept DEF supervisor, IInv, EvidenceOK
<1>2. ThreadSlot(t, x)
  BY DEF ThreadSlot, registry
<1> QED
  BY <1>1, <1>2, ThreadFrame DEF registry, supervisor, IInv, CountersOK

\* The supervisor's records of a claim stay or are dropped.
LEMMA EvidenceStays ==
  ASSUME IInv, Onward, DurableOK', NEW p \in Process, NEW c \in Claim,
         UNCHANGED <<cands, elig>> \/ Cleared(p, c)
  PROVE  EvidenceOK'
BY EvidenceFrame DEF Cleared

LEMMA TaskHere ==
  ASSUME IInv, NEW t \in Thread
  PROVE  TaskOK(Own(t), task[t]) /\ task[t] \in Tasks
BY DEF IInv, TasksOK

-----------------------------------------------------------------------------
\* The observation

LEMMA StartJobKeeps ==
  ASSUME IInv, Onward, DurableOK', NEW t \in Thread,
         NEW action \in {"Renew", "Classify", "Inspect"}, StartJob(t, action)
  PROVE  IInv'
<1> PICK p \in Process : p = Own(t)
  BY Constants
<1> PICK k : k = CheckoutOf("none", slot[Own(t)], action, nextCheckout[Own(t)] + 1)
  OBVIOUS
<1> PICK c : c = slot[Own(t)].claim
  OBVIOUS
<1>1. action \in CheckoutAction
  BY DEF CheckoutAction
<1>2. PICK x : /\ Do(t, x)
               /\ x.job = action /\ x.pc = IF action = "Renew" THEN "renew" ELSE "look"
               /\ x.claim = c /\ x.k = k
               /\ x.row = Absent /\ x.status = "none" /\ x.held = Absent /\ x.new = NoClaim
               /\ k \in Checkouts /\ c \in Claim => x \in Tasks
  <2> DEFINE y == [Idle EXCEPT !.job = action, !.pc = IF action = "Renew" THEN "renew" ELSE "look",
                               !.claim = c, !.k = k]
  <2>1. Do(t, y)
    BY DEF StartJob
  <2>2. k \in Checkouts /\ c \in Claim => y \in Tasks
    BY <1>1 DEF Idle, Tasks, TaskPc, ClaimOption, Status
  <2>3. /\ y.job = action /\ y.pc = IF action = "Renew" THEN "renew" ELSE "look"
        /\ y.claim = c /\ y.k = k
        /\ y.row = Absent /\ y.status = "none" /\ y.held = Absent /\ y.new = NoClaim
    BY DEF Idle
  <2> QED
    BY <2>1, <2>2, <2>3
<1>3. Works(x)
  BY <1>1, <1>2 DEF Works
<1>4. /\ ThreadSlot(t, x)
      /\ nextGen' \in [Process -> Nat] /\ nextCheckout' \in [Process -> Nat]
      /\ k \in Checkouts /\ k.claim = c /\ Used(c)
      /\ k.action = action /\ k.prev \in PrevOf(action)
  <2>1. CheckoutAllowed(slot[Own(t)], action) /\ TakesOut(t, action)
    BY DEF StartJob
  <2>2. x.k = CheckoutOf("none", slot[Own(t)], action, nextCheckout[Own(t)] + 1)
    BY <1>2
  <2> QED
    BY <1>1, <1>2, <1>3, <2>1, <2>2, CheckoutSets
<1>5. x \in Tasks
  BY <1>2, <1>4 DEF Used
<1>6. TaskOK(p, x)
  BY <1>2, <1>4, <1>5 DEF TaskOK, CheckoutAction
<1>7. TaskOK(p, x)'
  BY <1>6, TaskKept DEF IInv
<1>8. ThreadRest(t) /\ UNCHANGED supervisor
  BY DEF StartJob
<1>9. EvidenceOK'
  BY <1>4, <1>8, EvidenceStays DEF supervisor, Used
<1> QED
  BY <1>2, <1>4, <1>7, <1>8, <1>9, ThreadFrame DEF supervisor, IInv, CountersOK, Own

LEMMA DiscoverKeeps ==
  ASSUME IInv, Onward, DurableOK', NEW t \in Thread, Discover(t)
  PROVE  IInv'
<1> PICK p : p = Own(t)
  OBVIOUS
<1> PICK r : r = row
  OBVIOUS
<1> PICK c : c = r.claim
  OBVIOUS
<1> PICK x : x = [Idle EXCEPT !.job = "Discover", !.pc = "look", !.claim = c, !.row = r]
  OBVIOUS
<1>1. Do(t, x) /\ ThreadRest(t) /\ UNCHANGED <<registry, supervisor>> /\ task[t] = Idle /\ row # Absent
  BY DEF Discover
<1>2. /\ x.job = "Discover" /\ x.pc = "look" /\ x.claim = c /\ x.row = r /\ x.k = NoCheckout
      /\ x.status = "none" /\ x.held = Absent /\ x.new = NoClaim
  BY DEF Idle
<1>3. r \in Row /\ c \in Claim /\ Used(c) /\ r.rev \in Nat
  BY <1>1, Constants DEF IInv, DurableOK, Row, Used
<1>4. Past(c, r.rev)
  BY <1>3 DEF Past
<1>5. x \in Tasks
  BY <1>3, IdleTask DEF TaskOK, Idle, Tasks, TaskPc, ClaimOption, Status
<1>6. TaskOK(p, x)
  BY <1>2, <1>3, <1>4, <1>5 DEF TaskOK, Works, CheckoutAction
<1>7. TaskOK(p, x)'
  BY <1>6, TaskKept DEF IInv
<1>8. ~Works(task[t])
  BY <1>1 DEF Works, Idle
<1> QED
  BY <1>1, <1>7, <1>8, ThreadGoesOn DEF Own

LEMMA LookKeeps ==
  ASSUME IInv, Onward, DurableOK', NEW t \in Thread, LookAtClaim(t) \/ LookAtAttempt(t)
  PROVE  IInv'
<1> PICK p : p = Own(t)
  OBVIOUS
<1> PICK o : o = task[t]
  OBVIOUS
<1>1. TaskOK(p, o) /\ o \in Tasks
  BY TaskHere
<1>2. CASE LookAtClaim(t)
  <2> PICK r : r = RowOf(o.claim)
    OBVIOUS
  <2> PICK x : x = [o EXCEPT !.pc = "looked", !.row = r]
    OBVIOUS
  <2>1. Do(t, x) /\ ThreadRest(t) /\ UNCHANGED <<registry, supervisor>> /\ o.pc = "look"
    BY <1>2 DEF LookAtClaim
  <2>2. /\ x.pc = "looked" /\ x.row = r /\ x.job = o.job /\ x.claim = o.claim /\ x.k = o.k
        /\ x.status = o.status /\ x.held = o.held /\ x.new = o.new
    BY <1>1 DEF Tasks
  <2>3. r \in Row \cup {Absent} /\ (r # Absent => r.claim = o.claim /\ r.rev \in Nat)
    BY Constants DEF IInv, DurableOK, RowOf, Row
  <2>4. r # Absent => Past(o.claim, r.rev)
    BY <1>1, <2>1, <2>3 DEF TaskOK, Past, RowOf
  <2>5. x \in Tasks
    BY <1>1, <2>3 DEF Tasks, TaskPc
  <2>6. Works(o) => Works(x)
    BY <2>2 DEF Works
  <2>7. Works(x) => Works(o)
    BY <2>1, <2>2 DEF Works
  <2>8. TaskOK(p, x)
    BY <1>1, <2>1, <2>2, <2>3, <2>4, <2>5, <2>7 DEF TaskOK
  <2>9. TaskOK(p, x)'
    BY <2>8, TaskKept DEF IInv
  <2> QED
    BY <2>1, <2>2, <2>6, <2>9, ThreadGoesOn DEF Own
<1>3. CASE LookAtAttempt(t)
  <2> PICK st : st = attempt[o.claim]
    OBVIOUS
  <2> PICK x : x = [o EXCEPT !.pc = "decide", !.status = st]
    OBVIOUS
  <2>1. Do(t, x) /\ ThreadRest(t) /\ UNCHANGED <<registry, supervisor>> /\ o.pc = "looked"
    BY <1>3 DEF LookAtAttempt
  <2>2. /\ x.pc = "decide" /\ x.row = o.row /\ x.job = o.job /\ x.claim = o.claim /\ x.k = o.k
        /\ x.status = st /\ x.held = o.held /\ x.new = o.new
    BY <1>1 DEF Tasks
  <2>3. st \in Status
    BY <1>1, <2>1 DEF IInv, DurableOK, TaskOK, Used
  <2>4. x \in Tasks
    BY <1>1, <2>3 DEF Tasks, TaskPc
  <2>5. Works(o) => Works(x)
    BY <2>2 DEF Works
  <2>6. Works(x) => Works(o)
    BY <2>1, <2>2 DEF Works
  <2>7. TaskOK(p, x)
    BY <1>1, <2>1, <2>2, <2>4, <2>6 DEF TaskOK
  <2>8. TaskOK(p, x)'
    BY <2>7, TaskKept DEF IInv
  <2> QED
    BY <2>1, <2>2, <2>5, <2>8, ThreadGoesOn DEF Own
<1> QED
  BY <1>2, <1>3

\* A restored checkout.
LEMMA RestoreOnlyKeeps ==
  ASSUME IInv, Onward, DurableOK', NEW t \in Thread, ThreadRest(t), Works(task[t]),
         UNCHANGED <<nextGen, nextCheckout>>, RestoreOnly(t)
  PROVE  IInv'
<1>1. ThreadSlot(t, Idle)
  BY RestoreSets DEF RestoreOnly
<1>2. EvidenceOK'
  BY CandKept, EvidKept DEF RestoreOnly, supervisor, IInv, EvidenceOK
<1> QED
  BY <1>1, <1>2, ThreadDone DEF RestoreOnly, supervisor, IInv, CountersOK

LEMMA LookFailsKeeps ==
  ASSUME IInv, Onward, DurableOK', NEW t \in Thread, LookFails(t)
  PROVE  IInv'
<1> PICK p : p = Own(t)
  OBVIOUS
<1> PICK o : o = task[t]
  OBVIOUS
<1>1. TaskOK(p, o) /\ o \in Tasks
  BY TaskHere
<1>2. CASE task[t].job = "Discover"
  <2> PICK x : x = [o EXCEPT !.pc = "decide"]
    OBVIOUS
  <2>1. Do(t, x) /\ ThreadRest(t) /\ UNCHANGED <<registry, supervisor>> /\ o.pc = "look"
    BY <1>2 DEF LookFails, registry
  <2>2. /\ x.pc = "decide" /\ x.row = o.row /\ x.job = o.job /\ x.claim = o.claim /\ x.k = o.k
        /\ x.status = o.status /\ x.held = o.held /\ x.new = o.new
    BY <1>1 DEF Tasks
  <2>3. x \in Tasks
    BY <1>1 DEF Tasks, TaskPc
  <2>4. (Works(o) => Works(x)) /\ (Works(x) => Works(o))
    BY <2>1, <2>2 DEF Works
  <2>5. TaskOK(p, x)
    BY <1>1, <2>1, <2>2, <2>3, <2>4 DEF TaskOK
  <2>6. TaskOK(p, x)'
    BY <2>5, TaskKept DEF IInv
  <2> QED
    BY <2>1, <2>2, <2>4, <2>6, ThreadGoesOn DEF Own
<1>3. CASE task[t].job # "Discover"
  <2>1. RestoreOnly(t) /\ ThreadRest(t) /\ UNCHANGED <<nextGen, nextCheckout>> /\ o.pc = "look"
    BY <1>3 DEF LookFails
  <2>2. Works(o)
    BY <1>1, <1>3, <2>1 DEF TaskOK, Works, CheckoutAction
  <2> QED
    BY <2>1, <2>2, RestoreOnlyKeeps
<1> QED
  BY <1>2, <1>3

\* A completed checkout.
LEMMA CompleteKeeps ==
  ASSUME IInv, Onward, DurableOK', NEW t \in Thread, ThreadRest(t),
         UNCHANGED <<nextGen, nextCheckout, guards>>, EvidenceOK',
         NEW target \in SettledLifecycle \cup {"Closed"},
         NEW proof, Matches(t) => proof \in ProofOption,
         Complete(t, target, proof), Done(t)
  PROVE  IInv'
<1>1. ThreadSlot(t, Idle)
  BY CompleteSets
<1> QED
  BY <1>1, ThreadDone DEF IInv, CountersOK

LEMMA NoProofOption == NoProof \in ProofOption
BY DEF ProofOption

LEMMA CompleteQuarantinedKeeps ==
  ASSUME IInv, Onward, DurableOK', NEW t \in Thread, ThreadRest(t),
         UNCHANGED <<nextGen, nextCheckout>>, task[t].pc # "idle", CompleteQuarantined(t)
  PROVE  IInv'
<1> PICK c : c = task[t].claim
  OBVIOUS
<1> PICK p \in Process : p = Own(t)
  BY Constants
<1>1. c \in Claim
  BY TaskHere DEF TaskOK, Used
<1>2. Cleared(p, c) /\ UNCHANGED guards
  BY DEF CompleteQuarantined, Cleared
<1>3. EvidenceOK'
  BY <1>1, <1>2, EvidenceStays
<1>4. "Quarantined" \in SettledLifecycle
  BY DEF SettledLifecycle, IdleLifecycle, RecoveryLifecycle
<1> QED
  BY <1>2, <1>3, <1>4, NoProofOption, CompleteKeeps DEF CompleteQuarantined

\* A proof read for the checkout is one of the entry it matches.
LEMMA ProofOfCheckout ==
  ASSUME IInv, NEW t \in Thread, Works(task[t]), Matches(t), NEW rev \in Nat
  PROVE  ProofFrom(t, rev) \in ProofOption
<1> PICK p \in Process : p = Own(t)
  BY Constants
<1>1. task[t].k.claim = task[t].claim /\ task[t].pc # "idle" /\ task[t].claim \in Claim
  BY TaskHere DEF TaskOK, Works, Used
<1>2. slot[p].gen = task[t].k.gen /\ slot[p].gen \in Nat \ {0}
  BY DEF Matches, CheckoutMatches, IInv, SlotsOK, EntryOK, WellFormed, StageShape, Entry,
         Occupied, Owned
<1> QED
  BY <1>1, <1>2 DEF ProofFrom, Proof, ProofOption

LEMMA RegisterDiscoveredKeeps ==
  ASSUME IInv, Onward, DurableOK', NEW t \in Thread, RegisterDiscovered(t)
  PROVE  IInv'
<1> PICK p \in Process : p = Own(t)
  BY Constants
<1> PICK o : o = task[t]
  OBVIOUS
<1>1. /\ TaskOK(p, o) /\ o \in Tasks /\ o.job = "Discover" /\ o.pc = "decide"
      /\ ThreadRest(t) /\ UNCHANGED <<nextCheckout, supervisor>>
  BY TaskHere DEF RegisterDiscovered
<1>2. ~Works(o) /\ Used(o.claim)
  BY <1>1 DEF TaskOK, Works, CheckoutAction
<1>3. EvidenceOK'
  BY <1>1, <1>2, EvidenceStays DEF supervisor, Used
<1>4. nextGen' \in [Process -> Nat]
  BY DEF RegisterDiscovered, IInv, CountersOK
<1>5. CASE UNCHANGED slot /\ Done(t)
  BY <1>1, <1>2, <1>3, <1>4, <1>5, ThreadDone DEF ThreadSlot, supervisor
<1>6. CASE /\ o.row # Absent
           /\ Put(p, RuntimeOwned(nextGen[p] + 1, o.claim, SentinelRuntime, DiscoveredAs(t)))
           /\ \/ Do(t, [task[t] EXCEPT !.pc = "install", !.k.gen = nextGen[p] + 1])
              \/ Done(t)
  <2> PICK gen : gen = nextGen[p] + 1
    OBVIOUS
  <2> PICK lc : lc = DiscoveredAs(t)
    OBVIOUS
  <2> PICK e : e = RuntimeOwned(gen, o.claim, SentinelRuntime, lc)
    OBVIOUS
  <2>1. gen \in Nat \ {0}
    BY DEF IInv, CountersOK
  <2>2. lc \in SettledLifecycle
    BY DEF DiscoveredAs, SettledLifecycle, IdleLifecycle, RecoveryLifecycle
  <2>3. EntryOK(p, e)' /\ e.lc \notin InFlightLifecycle
    BY <1>2, <2>1, <2>2, RegisteredSets DEF SentinelRuntime
  <2>4. \A x : ThreadSlot(t, x)
    BY <1>6, <2>3 DEF ThreadSlot, SetsEntry, Put
  <2>5. CASE Done(t)
    BY <1>1, <1>3, <1>4, <2>4, <2>5, ThreadDone DEF supervisor
  <2>6. CASE Do(t, [task[t] EXCEPT !.pc = "install", !.k.gen = nextGen[p] + 1])
    <3>1. PICK x : /\ Do(t, x) /\ x \in Tasks
                   /\ x.pc = "install" /\ x.row = o.row /\ x.job = o.job /\ x.claim = o.claim
                   /\ x.status = o.status /\ x.held = o.held /\ x.new = o.new
      <4> DEFINE y == [o EXCEPT !.pc = "install", !.k = [o.k EXCEPT !.gen = gen]]
      <4>1. o.k \in Checkouts
        BY <1>1 DEF Tasks
      <4>2. [o.k EXCEPT !.gen = gen] \in Checkouts
        BY <2>1, <4>1 DEF Checkouts
      <4>3. y \in Tasks
        BY <1>1, <4>2 DEF Tasks, TaskPc
      <4>4. Do(t, y)
        BY <2>6
      <4>5. /\ y.pc = "install" /\ y.row = o.row /\ y.job = o.job /\ y.claim = o.claim
            /\ y.status = o.status /\ y.held = o.held /\ y.new = o.new
        BY <1>1 DEF Tasks
      <4> QED
        BY <4>3, <4>4, <4>5
    <3>2. TaskOK(p, x)
      BY <1>1, <1>6, <3>1 DEF TaskOK, Works
    <3>3. TaskOK(p, x)'
      BY <3>2, TaskKept DEF IInv
    <3> QED
      BY <1>1, <1>3, <1>4, <2>4, <3>1, <3>3, ThreadFrame DEF supervisor, IInv, CountersOK, Own
  <2> QED
    BY <1>6, <2>5, <2>6
<1> QED
  BY <1>5, <1>6 DEF RegisterDiscovered

LEMMA InstallDiscoveredKeeps ==
  ASSUME IInv, Onward, DurableOK', NEW t \in Thread, InstallDiscovered(t)
  PROVE  IInv'
<1> PICK p \in Process : p = Own(t)
  BY Constants
<1> PICK o : o = task[t]
  OBVIOUS
<1> PICK e : e = slot[p]
  OBVIOUS
<1> PICK proof : proof = [claim |-> o.claim, gen |-> o.k.gen, rev |-> o.row.rev]
  OBVIOUS
<1>1. /\ TaskOK(p, o) /\ o.pc = "install" /\ ThreadRest(t) /\ Done(t)
      /\ UNCHANGED <<nextGen, nextCheckout, supervisor>> /\ EntryOK(p, e)
  BY TaskHere DEF InstallDiscovered, IInv, SlotsOK
<1>2. Used(o.claim) /\ ~Works(o) /\ o.claim \in Claim /\ o.row \in Row
  BY <1>1 DEF TaskOK, Works, Used, Tasks
<1>3. EvidenceOK'
  BY <1>1, <1>2, EvidenceStays DEF supervisor
<1>4. ThreadSlot(t, Idle)
  <2>1. CASE UNCHANGED slot
    BY <1>2, <2>1 DEF ThreadSlot
  <2>2. CASE InstallAllowed(e, proof) /\ slot' = [slot EXCEPT ![p] = Sealed(e, proof)]
    <3> PICK f : f = Sealed(e, proof)
      OBVIOUS
    <3>1. Owned(e) /\ proof.gen = e.gen /\ e.lc \notin InFlightLifecycle
      BY <2>2 DEF InstallAllowed, InFlightLifecycle
    <3>2. o.k.gen \in Nat \ {0} /\ o.row.rev \in Nat
      BY <1>1, <1>2, <3>1, Constants DEF EntryOK, WellFormed, StageShape, Entry, Occupied, Owned, Row
    <3>3. proof \in ProofOption
      BY <1>2, <3>2 DEF Proof, ProofOption
    <3>4. EntryOK(p, f)' /\ f.lc \notin InFlightLifecycle
      BY <3>1, <3>3, SealedSets
    <3> QED
      BY <2>2, <3>4 DEF ThreadSlot, SetsEntry
  <2>3. CASE Owned(e) /\ slot' = [slot EXCEPT ![p] = Transitioned(e, "Quarantined")]
    <3> PICK f : f = Settled(e, "Quarantined", NoProof, FALSE)
      OBVIOUS
    <3>1. EntryOK(p, f)' /\ f.lc \notin InFlightLifecycle
      BY <2>3, NoProofOption, SettledSets DEF SettledLifecycle, IdleLifecycle, RecoveryLifecycle
    <3>2. Transitioned(e, "Quarantined") = f
      BY DEF Transitioned, ProoflessLifecycle
    <3> QED
      BY <2>3, <3>1, <3>2 DEF ThreadSlot, SetsEntry
  <2>4. slot \in [Process -> Entry]
    BY DEF IInv, SlotsOK
  <2>5. \/ slot' = [slot EXCEPT ![p] = e]
        \/ InstallAllowed(e, proof) /\ slot' = [slot EXCEPT ![p] = Sealed(e, proof)]
        \/ Owned(e) /\ slot' = [slot EXCEPT ![p] = Transitioned(e, "Quarantined")]
    BY DEF InstallDiscovered
  <2> QED
    BY <2>1, <2>2, <2>3, <2>4, <2>5
<1> QED
  BY <1>1, <1>3, <1>4, ThreadDone DEF supervisor, IInv, CountersOK

-----------------------------------------------------------------------------
\* The renewal, the classification and the inspection

LEMMA Targets ==
  /\ {"Quarantined", "OrphanedDurableClaim", "Retained", "Live", "DroppedUnclosed",
      "OwnershipExpiredCandidate", "AbandonedEligible", "RecoveryTakeoverQuarantined"}
       \subseteq SettledLifecycle
  /\ "Closed" \in SettledLifecycle \cup {"Closed"}
BY DEF SettledLifecycle, IdleLifecycle, RecoveryLifecycle

LEMMA RenewCommitKeeps ==
  ASSUME IInv, Onward, DurableOK', NEW t \in Thread, RenewCommit(t)
  PROVE  IInv'
<1> PICK p \in Process : p = Own(t)
  BY Constants
<1> PICK o : o = task[t]
  OBVIOUS
<1>1. /\ TaskOK(p, o) /\ o \in Tasks /\ o.pc = "renew" /\ ThreadRest(t)
      /\ UNCHANGED <<nextGen, nextCheckout>>
  BY TaskHere DEF RenewCommit
<1>2. Works(o) /\ o.claim \in Claim
  BY <1>1 DEF TaskOK, Works, CheckoutAction, Used
<1>3. UNCHANGED <<cands, elig, guards>>
  BY DEF RenewCommit, supervisor
<1>4. EvidenceOK'
  BY <1>2, <1>3, EvidenceStays
<1>5. CASE Complete(t, "Quarantined", NoProof) /\ Done(t)
  BY <1>1, <1>3, <1>4, <1>5, NoProofOption, Targets, CompleteKeeps
<1>6. CASE Restore(t) /\ Done(t)
  <2>1. ThreadSlot(t, Idle)
    BY <1>2, <1>6, RestoreSets
  <2> QED
    BY <1>1, <1>3, <1>4, <1>6, <2>1, ThreadDone DEF IInv, CountersOK
<1>7. CASE Do(t, [task[t] EXCEPT !.pc = "renewed"]) /\ UNCHANGED <<slot, supervisor>>
  <2>1. PICK x : /\ Do(t, x) /\ x \in Tasks
                 /\ x.pc = "renewed" /\ x.row = o.row /\ x.job = o.job /\ x.claim = o.claim
                 /\ x.status = o.status /\ x.held = o.held /\ x.new = o.new /\ x.k = o.k
    BY <1>1, <1>7 DEF Tasks, TaskPc
  <2>2. Works(x)
    BY <1>2, <2>1 DEF Works
  <2>3. TaskOK(p, x)
    BY <1>1, <1>2, <2>1 DEF TaskOK
  <2>4. TaskOK(p, x)'
    BY <2>3, TaskKept DEF IInv
  <2> QED
    BY <1>1, <1>7, <2>1, <2>2, <2>4, ThreadGoesOn DEF Own, registry
<1> QED
  BY <1>5, <1>6, <1>7 DEF RenewCommit

LEMMA RenewFinishKeeps ==
  ASSUME IInv, Onward, DurableOK', NEW t \in Thread, RenewFinish(t)
  PROVE  IInv'
<1> PICK p \in Process : p = Own(t)
  BY Constants
<1> PICK c : c = task[t].claim
  OBVIOUS
<1>1. /\ TaskOK(p, task[t]) /\ task[t].pc = "renewed" /\ ThreadRest(t)
      /\ UNCHANGED <<nextGen, nextCheckout>>
  BY TaskHere DEF RenewFinish
<1>2. Works(task[t]) /\ c \in Claim
  BY <1>1 DEF TaskOK, Works, CheckoutAction, Used
<1>3. CASE CompleteQuarantined(t)
  BY <1>1, <1>3, CompleteQuarantinedKeeps
<1>4. CASE ~CompleteQuarantined(t)
  <2>1. /\ RowOf(c) # Absent
        /\ Complete(t, task[t].k.prev, ProofFrom(t, row.rev))
        /\ IF Matches(t) THEN cands' = [cands EXCEPT ![p][c] = Absent] ELSE UNCHANGED cands
        /\ UNCHANGED <<elig, guards>>
        /\ Done(t)
    BY <1>4 DEF RenewFinish
  <2>2. EvidenceOK'
    BY <1>2, <2>1, EvidenceFrame
  <2>3. row.rev \in Nat
    BY <2>1, Constants DEF RowOf, IInv, DurableOK, Row
  <2>4. task[t].k.prev \in SettledLifecycle
    BY <1>1, <1>2, PrevSettled DEF TaskOK, Works
  <2>5. Matches(t) => ProofFrom(t, row.rev) \in ProofOption
    BY <1>2, <2>3, ProofOfCheckout
  <2> QED
    BY <1>1, <2>1, <2>2, <2>4, <2>5, CompleteKeeps
<1> QED
  BY <1>3, <1>4

LEMMA ClassifyKeeps ==
  ASSUME IInv, Onward, DurableOK', NEW t \in Thread, Classify(t)
  PROVE  IInv'
<1> PICK p \in Process : p = Own(t)
  BY Constants
<1> PICK c : c = task[t].claim
  OBVIOUS
<1>1. /\ TaskOK(p, task[t]) /\ task[t].pc = "decide" /\ task[t].job = "Classify" /\ ThreadRest(t)
      /\ UNCHANGED <<nextGen, nextCheckout>>
  BY TaskHere DEF Classify
<1>2. Works(task[t]) /\ c \in Claim
  BY <1>1 DEF TaskOK, Works, CheckoutAction, Used
<1>3. CASE CompleteQuarantined(t)
  BY <1>1, <1>3, CompleteQuarantinedKeeps
<1>4. ASSUME NEW target \in {"Closed", "OrphanedDurableClaim", "DroppedUnclosed"},
             Complete(t, target, NoProof), Done(t), Cleared(p, c) \/ UNCHANGED supervisor
      PROVE  IInv'
  <2>1. EvidenceOK' /\ UNCHANGED guards
    BY <1>2, <1>4, EvidenceStays DEF supervisor, Cleared
  <2> QED
    BY <1>1, <1>4, <2>1, NoProofOption, Targets, CompleteKeeps
<1>5. ASSUME NEW target \in {"Live", "Retained"}, task[t].row # Absent,
             Complete(t, target, ProofFrom(t, task[t].row.rev)), Done(t), UNCHANGED supervisor
      PROVE  IInv'
  <2>1. task[t].row.rev \in Nat
    BY <1>5, TaskHere, Constants DEF Tasks, Row
  <2>2. Matches(t) => ProofFrom(t, task[t].row.rev) \in ProofOption
    BY <1>2, <2>1, ProofOfCheckout
  <2>3. EvidenceOK' /\ UNCHANGED guards
    BY <1>2, <1>5, EvidenceStays DEF supervisor
  <2> QED
    BY <1>1, <1>5, <2>2, <2>3, Targets, CompleteKeeps
<1> QED
  <2>1. CASE SeesTerminal(t)
    <3>1. Complete(t, "Closed", NoProof) /\ Done(t)
      BY <2>1 DEF Classify, SeesTerminal, SeesRetained, SeesActive
    <3>2. IF Matches(t) THEN Cleared(Own(t), task[t].claim) ELSE UNCHANGED supervisor
      BY <2>1 DEF Classify, SeesTerminal, SeesRetained, SeesActive
    <3> QED
      BY <1>4, <3>1, <3>2
  <2>2. CASE ~SeesTerminal(t) /\ (SeesRetained(t) \/ SeesActive(t)) /\ ~SeesOwn(t)
    BY <1>4, <2>2 DEF Classify, SeesTerminal, SeesRetained, SeesActive
  <2>3. CASE SeesRetained(t) /\ SeesOwn(t)
    BY <1>5, <2>3 DEF Classify, SeesTerminal, SeesRetained, SeesActive
  <2>4. CASE SeesActive(t) /\ SeesOwn(t) /\ task[t].k.qalr
    BY <1>5, <2>4 DEF Classify, SeesTerminal, SeesRetained, SeesActive
  <2>5. CASE SeesActive(t) /\ SeesOwn(t) /\ ~task[t].k.qalr /\ task[t].k.rt = SentinelRuntime
    BY <1>4, <2>5 DEF Classify, SeesTerminal, SeesRetained, SeesActive
  <2>6. CASE /\ ~SeesTerminal(t) /\ ~((SeesRetained(t) \/ SeesActive(t)) /\ ~SeesOwn(t))
             /\ ~(SeesRetained(t) /\ SeesOwn(t)) /\ ~(SeesActive(t) /\ SeesOwn(t) /\ task[t].k.qalr)
             /\ ~(SeesActive(t) /\ SeesOwn(t) /\ ~task[t].k.qalr /\ task[t].k.rt = SentinelRuntime)
    BY <1>3, <2>6 DEF Classify
  <2> QED
    BY <2>1, <2>2, <2>3, <2>4, <2>5, <2>6

\* create_candidate and the record it is going to put down.
LEMMA CreateCandidateKeeps ==
  ASSUME IInv, Onward, DurableOK', NEW t \in Thread, ThreadRest(t), UNCHANGED <<durable, nextGen, nextCheckout>>,
         task[t].pc = "decide", task[t].job = "Inspect", task[t].row # Absent,
         task[t].k.prev # "OwnershipExpiredCandidate", CreateCandidate(t)
  PROVE  IInv'
<1> PICK p \in Process : p = Own(t)
  BY Constants
<1> PICK o : o = task[t]
  OBVIOUS
<1> PICK cand : cand = Candidate(t)
  OBVIOUS
<1>1. TaskOK(p, o) /\ o \in Tasks /\ o.pc = "decide" /\ o.job = "Inspect"
  BY TaskHere
<1>2. Works(o) /\ Used(o.claim) /\ o.claim \in Claim
  BY <1>1 DEF TaskOK, Works, CheckoutAction, Used
<1>3. EvidenceOK' /\ UNCHANGED guards
  BY <1>2, EvidenceStays DEF CreateCandidate, supervisor
<1>4. Complete(t, "OwnershipExpiredCandidate", NoProof)
  BY DEF CreateCandidate
<1>5. CASE Done(t)
  BY <1>3, <1>4, <1>5, NoProofOption, Targets, CompleteKeeps
<1>6. CASE Do(t, [task[t] EXCEPT !.pc = "recordCandidate", !.held = Candidate(t)])
  <2>1. /\ o.row \in Row /\ o.row.rev \in Nat /\ o.row.claim = o.claim
        /\ Past(o.claim, o.row.rev) /\ o.status \in Status
        /\ o.k.gen \in Nat /\ o.k.ck \in Nat
        /\ o.k.prev \in {"DroppedUnclosed", "OrphanedDurableClaim"}
    BY <1>1, <1>2, Constants DEF TaskOK, Tasks, Row, Checkouts, PrevOf
  <2>2. cand \in Candidates /\ cand.rev = o.row.rev /\ cand.start = mono
    BY <2>1 DEF Candidate, Candidates, IInv, DurableOK
  <2>3. mono \in Int /\ beatAt \in Int /\ beatAt <= mono
    BY DEF IInv, DurableOK
  <2>4. CandOK(o.claim, cand)
    BY <2>1, <2>2, <2>3 DEF CandOK
  <2>5. PICK x : /\ Do(t, x) /\ x \in Tasks
                 /\ x.pc = "recordCandidate" /\ x.row = o.row /\ x.job = o.job /\ x.claim = o.claim
                 /\ x.status = o.status /\ x.held = cand /\ x.new = o.new /\ x.k = o.k
    <3> DEFINE y == [o EXCEPT !.pc = "recordCandidate", !.held = cand]
    <3>1. y \in Tasks
      BY <1>1, <2>2 DEF Tasks, TaskPc
    <3>2. /\ y.pc = "recordCandidate" /\ y.row = o.row /\ y.job = o.job /\ y.claim = o.claim
          /\ y.status = o.status /\ y.held = cand /\ y.new = o.new /\ y.k = o.k
      BY <1>1 DEF Tasks
    <3>3. Do(t, y)
      BY <1>6
    <3> QED
      BY <3>1, <3>2, <3>3
  <2>6. TaskOK(p, x)
    BY <1>1, <1>2, <2>4, <2>5 DEF TaskOK, Works
  <2>7. TaskOK(p, x)'
    BY <2>6, TaskKept DEF IInv
  <2>8. ThreadSlot(t, x)
    BY <1>4, NoProofOption, Targets, CompleteSets
  <2> QED
    BY <1>3, <2>5, <2>7, <2>8, ThreadFrame DEF IInv, CountersOK, Own
<1> QED
  BY <1>5, <1>6 DEF CreateCandidate

\* confirm_candidate: a candidate whose row has not moved since its clock started is
\* the row of a claim that was silent for as long.
LEMMA ConfirmCandidateKeeps ==
  ASSUME IInv, Onward, DurableOK', NEW t \in Thread, ThreadRest(t), UNCHANGED <<durable, nextGen, nextCheckout>>,
         task[t].pc = "decide", task[t].job = "Inspect", task[t].row # Absent,
         ConfirmCandidate(t)
  PROVE  IInv'
<1> PICK p \in Process : p = Own(t)
  BY Constants
<1> PICK o : o = task[t]
  OBVIOUS
<1> PICK cand : cand = cands[p][o.claim]
  OBVIOUS
<1>1. TaskOK(p, o) /\ o \in Tasks /\ o.pc = "decide" /\ o.job = "Inspect"
  BY TaskHere
<1>2. Works(o) /\ Used(o.claim) /\ o.claim \in Claim
  BY <1>1 DEF TaskOK, Works, CheckoutAction, Used
<1>3. CASE CompleteQuarantined(t)
  BY <1>1, <1>3, CompleteQuarantinedKeeps
<1>4. CASE RestoreOnly(t)
  BY <1>2, <1>4, RestoreOnlyKeeps
<1>5. cand # Absent => CandOK(o.claim, cand)
  BY <1>2 DEF IInv, EvidenceOK
<1>6. ASSUME cands' = [cands EXCEPT ![p][o.claim] = Absent], UNCHANGED elig
      PROVE  EvidenceOK'
  BY <1>2, <1>6, EvidenceFrame
<1>7. CASE /\ cand # Absent
           /\ cands' = [cands EXCEPT ![p][o.claim] = Absent] /\ UNCHANGED <<elig, failures, guards>>
           /\ Complete(t, cand.origin, NoProof) /\ Done(t)
  <2>1. cand.origin \in SettledLifecycle
    BY <1>5, <1>7, Targets DEF CandOK, Candidates
  <2> QED
    BY <1>6, <1>7, <2>1, NoProofOption, CompleteKeeps
<1>8. CASE /\ cand # Absent /\ Confirmed(cand)
           /\ cands' = [cands EXCEPT ![p][o.claim] = Absent] /\ UNCHANGED <<elig, failures, guards>>
           /\ Complete(t, "AbandonedEligible", NoProof)
           /\ \/ Do(t, [task[t] EXCEPT !.pc = "recordEligible",
                          !.held = [rev |-> cand.rev, status |-> cand.status, gen |-> cand.gen]])
              \/ Done(t)
  <2>1. EvidenceOK'
    BY <1>6, <1>8
  <2>2. CASE Done(t)
    BY <1>8, <2>1, <2>2, NoProofOption, Targets, CompleteKeeps
  <2>3. CASE Do(t, [task[t] EXCEPT !.pc = "recordEligible",
                      !.held = [rev |-> cand.rev, status |-> cand.status, gen |-> cand.gen]])
    <3> PICK ev : ev = [rev |-> cand.rev, status |-> cand.status, gen |-> cand.gen]
      OBVIOUS
    <3>1. /\ cand \in Candidates /\ Past(o.claim, cand.rev) /\ cand.start <= mono
          /\ AtRev(o.claim, cand.rev) => beatAt <= cand.start
      BY <1>5, <1>8 DEF CandOK
    <3>2. ev \in Evidence /\ ev.rev = cand.rev
      BY <3>1 DEF Candidates, Evidence
    <3>3. mono - cand.start >= CONFIRM /\ cand.start \in Int /\ mono \in Int /\ beatAt \in Int /\ CONFIRM \in Int
      BY <1>8, <3>1, Constants DEF Confirmed, Candidates, IInv, DurableOK
    <3>4. AtRev(o.claim, ev.rev) => mono - beatAt >= CONFIRM
      BY <3>1, <3>2, <3>3
    <3>5. EvidOK(o.claim, ev)
      BY <3>1, <3>2, <3>4 DEF EvidOK
    <3>6. PICK x : /\ Do(t, x) /\ x \in Tasks
                   /\ x.pc = "recordEligible" /\ x.row = o.row /\ x.job = o.job /\ x.claim = o.claim
                   /\ x.status = o.status /\ x.held = ev /\ x.new = o.new /\ x.k = o.k
      <4> DEFINE y == [o EXCEPT !.pc = "recordEligible", !.held = ev]
      <4>1. y \in Tasks
        BY <1>1, <3>2 DEF Tasks, TaskPc
      <4>2. /\ y.pc = "recordEligible" /\ y.row = o.row /\ y.job = o.job /\ y.claim = o.claim
            /\ y.status = o.status /\ y.held = ev /\ y.new = o.new /\ y.k = o.k
        BY <1>1 DEF Tasks
      <4>3. Do(t, y)
        BY <2>3
      <4> QED
        BY <4>1, <4>2, <4>3
    <3>7. TaskOK(p, x)
      BY <1>1, <1>2, <3>5, <3>6 DEF TaskOK, Works
    <3>8. TaskOK(p, x)'
      BY <3>7, TaskKept DEF IInv
    <3>9. ThreadSlot(t, x)
      BY <1>8, NoProofOption, Targets, CompleteSets
    <3> QED
      BY <1>8, <2>1, <3>6, <3>8, <3>9, ThreadFrame DEF IInv, CountersOK, Own
  <2> QED
    BY <1>8, <2>2, <2>3
<1> QED
  BY <1>3, <1>4, <1>7, <1>8 DEF ConfirmCandidate

LEMMA InspectExpiryKeeps ==
  ASSUME IInv, Onward, DurableOK', NEW t \in Thread, InspectExpiry(t)
  PROVE  IInv'
<1> PICK p \in Process : p = Own(t)
  BY Constants
<1> PICK c : c = task[t].claim
  OBVIOUS
<1>1. /\ TaskOK(p, task[t]) /\ task[t].pc = "decide" /\ task[t].job = "Inspect" /\ ThreadRest(t)
      /\ UNCHANGED <<durable, nextGen, nextCheckout>>
  BY TaskHere DEF InspectExpiry
<1>2. Works(task[t]) /\ c \in Claim
  BY <1>1 DEF TaskOK, Works, CheckoutAction, Used
<1>3. CASE Complete(t, "Closed", NoProof) /\ Cleared(Own(t), task[t].claim) /\ Done(t)
  <2>1. EvidenceOK' /\ UNCHANGED guards
    BY <1>2, <1>3, EvidenceStays DEF Cleared
  <2> QED
    BY <1>1, <1>3, <2>1, NoProofOption, Targets, CompleteKeeps
<1>4. CASE CompleteQuarantined(t)
  BY <1>1, <1>4, CompleteQuarantinedKeeps
<1>5. CASE RestoreOnly(t)
  BY <1>1, <1>2, <1>5, RestoreOnlyKeeps
<1>6. CASE task[t].row # Absent /\ ConfirmCandidate(t)
  BY <1>1, <1>6, ConfirmCandidateKeeps
<1>7. CASE task[t].row # Absent /\ task[t].k.prev # "OwnershipExpiredCandidate" /\ CreateCandidate(t)
  BY <1>1, <1>7, CreateCandidateKeeps
<1> QED
  BY <1>3, <1>4, <1>5, <1>6, <1>7 DEF InspectExpiry, SeesActive, SeesRetained

LEMMA RecordKeeps ==
  ASSUME IInv, Onward, DurableOK', NEW t \in Thread, Record(t)
  PROVE  IInv'
<1> PICK p \in Process : p = Own(t)
  BY Constants
<1> PICK o : o = task[t]
  OBVIOUS
<1> PICK c : c = o.claim
  OBVIOUS
<1> PICK v : v = o.held
  OBVIOUS
<1>1. /\ TaskOK(p, o) /\ ThreadRest(t) /\ Done(t) /\ UNCHANGED <<registry, guards>>
      /\ o.pc \in {"recordCandidate", "recordEligible"}
  BY TaskHere DEF Record
<1>2. ~Works(o) /\ Used(c) /\ c \in Claim
  BY <1>1 DEF TaskOK, Works, Used
<1>3. EvidenceOK'
  <2>1. CASE o.pc = "recordCandidate"
    <3>1. CandOK(c, v)
      BY <1>1, <2>1 DEF TaskOK
    <3>2. CandOK(c, v)'
      BY <3>1, CandKept DEF IInv
    <3>3. cands' = [cands EXCEPT ![p][c] = v] /\ UNCHANGED elig
      BY <2>1 DEF Record
    <3> QED
      BY <1>2, <3>2, <3>3, EvidenceFrame
  <2>2. CASE o.pc = "recordEligible"
    <3>1. EvidOK(c, v)
      BY <1>1, <2>2 DEF TaskOK
    <3>2. EvidOK(c, v)'
      BY <3>1, EvidKept DEF IInv
    <3>3. elig' = [elig EXCEPT ![p][c] = v] /\ UNCHANGED cands
      BY <2>2 DEF Record
    <3> QED
      BY <1>2, <3>2, <3>3, EvidenceFrame
  <2> QED
    BY <1>1, <2>1, <2>2
<1>4. ThreadSlot(t, Idle)
  BY <1>1, <1>2 DEF ThreadSlot, registry
<1> QED
  BY <1>1, <1>3, <1>4, ThreadDone DEF registry, IInv, CountersOK

-----------------------------------------------------------------------------
\* The takeover

LEMMA TakeoverStartKeeps ==
  ASSUME IInv, Onward, DurableOK', NEW t \in Thread, TakeoverStart(t)
  PROVE  IInv'
<1> PICK p \in Process : p = Own(t)
  BY Constants
<1> PICK c \in Claim :
       /\ elig[p][c] # Absent /\ elig' = [elig EXCEPT ![p][c] = Absent]
       /\ Do(t, [Idle EXCEPT !.job = "Takeover", !.pc = "claiming", !.claim = c, !.held = elig[p][c]])
  BY DEF TakeoverStart
<1> PICK v : v = elig[p][c]
  OBVIOUS
<1>1. ThreadRest(t) /\ UNCHANGED <<registry, cands, guards>> /\ task[t] = Idle
  BY DEF TakeoverStart
<1>2. EvidOK(c, v)
  BY DEF IInv, EvidenceOK
<1>3. PICK x : /\ Do(t, x) /\ x \in Tasks /\ x.job = "Takeover" /\ x.pc = "claiming" /\ x.claim = c
               /\ x.held = v /\ x.row = Absent /\ x.status = "none" /\ x.new = NoClaim
  <2> DEFINE y == [Idle EXCEPT !.job = "Takeover", !.pc = "claiming", !.claim = c, !.held = v]
  <2>1. y \in Tasks
    BY <1>2, IdleTask DEF TaskOK, Idle, Tasks, TaskPc, CheckoutAction, ClaimOption, Status, EvidOK
  <2>2. /\ y.job = "Takeover" /\ y.pc = "claiming" /\ y.claim = c
        /\ y.held = v /\ y.row = Absent /\ y.status = "none" /\ y.new = NoClaim
    BY DEF Idle
  <2> QED
    BY <2>1, <2>2
<1>4. TaskOK(p, x)
  BY <1>2, <1>3 DEF TaskOK, Works, EvidOK, Past
<1>5. TaskOK(p, x)'
  BY <1>4, TaskKept DEF IInv
<1>6. EvidenceOK'
  BY <1>1, EvidenceFrame
<1>7. ThreadSlot(t, x)
  BY <1>1 DEF ThreadSlot, registry, Works, Idle
<1> QED
  BY <1>1, <1>3, <1>5, <1>6, <1>7, ThreadFrame DEF registry, IInv, CountersOK, Own

LEMMA TakeoverCheckoutKeeps ==
  ASSUME IInv, Onward, DurableOK', NEW t \in Thread, TakeoverCheckout(t)
  PROVE  IInv'
<1> PICK p \in Process : p = Own(t)
  BY Constants
<1> PICK o : o = task[t]
  OBVIOUS
<1> PICK c : c = o.claim
  OBVIOUS
<1>1. /\ TaskOK(p, o) /\ o \in Tasks /\ o.pc = "claiming" /\ ThreadRest(t)
      /\ UNCHANGED <<cands, guards>>
  BY TaskHere DEF TakeoverCheckout
<1>2. ~Works(o) /\ Used(c) /\ c \in Claim /\ o.job = "Takeover" /\ EvidOK(c, o.held)
  BY <1>1 DEF TaskOK, Works, Used
<1>3. CASE elig' = [elig EXCEPT ![p][c] = o.held] /\ Done(t) /\ UNCHANGED registry
  <2> PICK v : v = o.held
    OBVIOUS
  <2>1. EvidOK(c, v)'
    BY <1>2, EvidKept DEF IInv
  <2>2. EvidenceOK'
    BY <1>1, <1>2, <1>3, <2>1, EvidenceFrame
  <2>3. ThreadSlot(t, Idle)
    BY <1>2, <1>3 DEF ThreadSlot, registry
  <2> QED
    BY <1>1, <1>3, <2>2, <2>3, ThreadDone DEF registry, IInv, CountersOK
<1>4. CASE /\ slot[p].claim = c /\ CheckoutAllowed(slot[p], "Takeover") /\ TakesOut(t, "Takeover")
           /\ Do(t, [task[t] EXCEPT !.pc = "takeover",
                       !.k = CheckoutOf("none", slot[p], "Takeover", nextCheckout[p] + 1)])
           /\ UNCHANGED elig
  <2> PICK k : k = CheckoutOf("none", slot[Own(t)], "Takeover", nextCheckout[Own(t)] + 1)
    OBVIOUS
  <2>1. PICK x : /\ Do(t, x)
                 /\ x.pc = "takeover" /\ x.row = o.row /\ x.job = o.job /\ x.claim = c
                 /\ x.status = o.status /\ x.held = o.held /\ x.new = o.new /\ x.k = k
                 /\ k \in Checkouts => x \in Tasks
    <3> DEFINE y == [o EXCEPT !.pc = "takeover", !.k = k]
    <3>1. k \in Checkouts => y \in Tasks
      BY <1>1 DEF Tasks, TaskPc
    <3>2. /\ y.pc = "takeover" /\ y.row = o.row /\ y.job = o.job /\ y.claim = c
          /\ y.status = o.status /\ y.held = o.held /\ y.new = o.new /\ y.k = k
      BY <1>1 DEF Tasks
    <3>3. Do(t, y)
      BY <1>4
    <3> QED
      BY <3>1, <3>2, <3>3
  <2>2. Works(x) /\ "Takeover" \in CheckoutAction
    BY <1>2, <2>1 DEF Works, CheckoutAction
  <2>3. CheckoutAllowed(slot[Own(t)], "Takeover") /\ c = slot[Own(t)].claim
    BY <1>4
  <2>4. x.k = CheckoutOf("none", slot[Own(t)], "Takeover", nextCheckout[Own(t)] + 1)
    BY <2>1
  <2>5. /\ ThreadSlot(t, x)
        /\ nextGen' \in [Process -> Nat] /\ nextCheckout' \in [Process -> Nat]
        /\ k \in Checkouts /\ k.claim = c /\ k.action = "Takeover" /\ k.prev \in PrevOf("Takeover")
    BY <1>4, <2>1, <2>2, <2>3, <2>4, CheckoutSets
  <2>6. TaskOK(p, x)
    BY <1>1, <1>2, <2>1, <2>5 DEF TaskOK
  <2>7. TaskOK(p, x)'
    BY <2>6, TaskKept DEF IInv
  <2>8. EvidenceOK'
    BY <1>1, <1>2, <1>4, EvidenceStays
  <2> QED
    BY <1>1, <2>1, <2>5, <2>7, <2>8, ThreadFrame DEF IInv, CountersOK, Own
<1> QED
  BY <1>3, <1>4 DEF TakeoverCheckout

LEMMA GiveBackKeeps ==
  ASSUME IInv, Onward, DurableOK', NEW t \in Thread, ThreadRest(t),
         UNCHANGED <<nextGen, nextCheckout>>, task[t].pc \in {"takeover", "lost"},
         GiveBackEvidence(t)
  PROVE  IInv'
<1> PICK p \in Process : p = Own(t)
  BY Constants
<1> PICK o : o = task[t]
  OBVIOUS
<1> PICK c : c = o.claim
  OBVIOUS
<1> PICK v : v = o.held
  OBVIOUS
<1>1. TaskOK(p, o)
  BY TaskHere
<1>2. Works(o) /\ c \in Claim /\ EvidOK(c, v)
  BY <1>1 DEF TaskOK, Works, CheckoutAction, Used
<1>3. EvidOK(c, v)'
  BY <1>2, EvidKept DEF IInv
<1>4. UNCHANGED <<cands, guards>> /\ Done(t) /\ (UNCHANGED elig \/ elig' = [elig EXCEPT ![p][c] = v])
  BY DEF GiveBackEvidence
<1>5. EvidenceOK'
  BY <1>2, <1>3, <1>4, EvidenceFrame
<1>6. ThreadSlot(t, Idle)
  BY <1>2, RestoreSets DEF GiveBackEvidence
<1> QED
  BY <1>4, <1>5, <1>6, ThreadDone DEF IInv, CountersOK

LEMMA TakeoverCommitKeeps ==
  ASSUME IInv, Onward, DurableOK', NEW t \in Thread, TakeoverCommit(t)
  PROVE  IInv'
<1> PICK p \in Process : p = Own(t)
  BY Constants
<1> PICK o : o = task[t]
  OBVIOUS
<1>1. TaskOK(p, o) /\ o \in Tasks /\ o.pc = "takeover" /\ ThreadRest(t) /\ UNCHANGED <<nextGen, nextCheckout>>
  BY TaskHere DEF TakeoverCommit
<1>2. Works(o) /\ o.claim \in Claim
  BY <1>1 DEF TaskOK, Works, CheckoutAction, Used
<1>3. TaskOK(p, o)'
  BY <1>1, TaskKept DEF IInv
<1>4. CASE Complete(t, "RecoveryTakeoverQuarantined", NoProof) /\ Done(t) /\ UNCHANGED supervisor
  <2>1. EvidenceOK' /\ UNCHANGED guards
    BY <1>2, <1>4, EvidenceStays DEF supervisor
  <2> QED
    BY <1>1, <1>4, <2>1, NoProofOption, Targets, CompleteKeeps
<1>5. CASE GiveBackEvidence(t)
  BY <1>1, <1>5, GiveBackKeeps
<1>6. ASSUME NEW c \in Claim, InsertClaim(c, Own(t)), attempt'[c] = "active",
             NEW pc \in {"taken", "lost"}, Do(t, [task[t] EXCEPT !.pc = pc, !.new = c]),
             UNCHANGED <<slot, supervisor>>
      PROVE  IInv'
  <2>1. PICK x : /\ Do(t, x) /\ x \in Tasks
                 /\ x.pc = pc /\ x.row = o.row /\ x.job = o.job /\ x.claim = o.claim
                 /\ x.status = o.status /\ x.held = o.held /\ x.new = c /\ x.k = o.k
    <3> DEFINE y == [o EXCEPT !.pc = pc, !.new = c]
    <3>1. y \in Tasks
      BY <1>1 DEF Tasks, TaskPc, ClaimOption
    <3>2. /\ y.pc = pc /\ y.row = o.row /\ y.job = o.job /\ y.claim = o.claim
          /\ y.status = o.status /\ y.held = o.held /\ y.new = c /\ y.k = o.k
      BY <1>1 DEF Tasks
    <3>3. Do(t, y)
      BY <1>6
    <3> QED
      BY <3>1, <3>2, <3>3
  <2>2. OwnedBy(c, p)'
    BY <1>6 DEF InsertClaim, OwnedBy, Used, RowOf
  <2>3. Works(x)
    BY <1>2, <2>1 DEF Works
  <2>4. TaskOK(p, x)'
    BY <1>1, <1>2, <1>3, <2>1, <2>2, Constants DEF TaskOK
  <2> QED
    BY <1>1, <1>6, <2>1, <2>3, <2>4, ThreadGoesOn DEF Own, registry
<1>7. CASE Do(t, [task[t] EXCEPT !.pc = "lost"]) /\ UNCHANGED <<slot, supervisor>>
  <2>1. PICK x : /\ Do(t, x) /\ x \in Tasks
                 /\ x.pc = "lost" /\ x.row = o.row /\ x.job = o.job /\ x.claim = o.claim
                 /\ x.status = o.status /\ x.held = o.held /\ x.new = o.new /\ x.k = o.k
    BY <1>1, <1>7 DEF Tasks, TaskPc
  <2>2. Works(x)
    BY <1>2, <2>1 DEF Works
  <2>3. TaskOK(p, x)'
    BY <1>1, <1>2, <1>3, <2>1 DEF TaskOK
  <2> QED
    BY <1>1, <1>7, <2>1, <2>2, <2>3, ThreadGoesOn DEF Own, registry
<1>8. CASE \E c \in Claim :
            /\ InsertClaim(c, Own(t))
            /\ attempt' = [attempt EXCEPT ![c] = "active",
                            ![task[t].claim] = IF @ = "active" THEN "retained" ELSE @]
            /\ \E reported \in BOOLEAN :
                 Do(t, [task[t] EXCEPT !.pc = IF reported THEN "taken" ELSE "lost", !.new = c])
            /\ UNCHANGED <<slot, supervisor>>
  <2>1. PICK c \in Claim :
            /\ InsertClaim(c, Own(t))
            /\ attempt' = [attempt EXCEPT ![c] = "active",
                            ![task[t].claim] = IF @ = "active" THEN "retained" ELSE @]
            /\ \E reported \in BOOLEAN :
                 Do(t, [task[t] EXCEPT !.pc = IF reported THEN "taken" ELSE "lost", !.new = c])
            /\ UNCHANGED <<slot, supervisor>>
    BY <1>8
  <2>2. c # o.claim
    BY <1>1, <2>1 DEF TaskOK, Used, InsertClaim, Fresh
  <2>3. attempt'[c] = "active"
    BY <1>2, <2>1, <2>2 DEF IInv, DurableOK
  <2>4. PICK pc \in {"taken", "lost"} : Do(t, [task[t] EXCEPT !.pc = pc, !.new = c])
    BY <2>1
  <2> QED
    BY <1>6, <2>1, <2>3, <2>4
<1> QED
  BY <1>4, <1>5, <1>7, <1>8 DEF TakeoverCommit

\* The entry goes over to the successor's claim, which is the process's own.
LEMMA TakeOverSets ==
  ASSUME IInv, Onward, NEW t \in Thread, task[t].new # NoClaim,
         NEW target \in IdleLifecycle, TakeOver(t, target), NEW x
  PROVE  ThreadSlot(t, x)
<1> PICK p \in Process : p = Own(t)
  BY Constants
<1> PICK c : c = task[t].new
  OBVIOUS
<1> PICK o : o = slot[p]
  OBVIOUS
<1>1. CASE ~Matches(t)
  BY <1>1 DEF TakeOver, ThreadSlot
<1>2. CASE Matches(t)
  <2> PICK e : e = Settled(o, target, NoProof, FALSE)
    OBVIOUS
  <2> PICK f : f = Rekeyed(e, c, o.rt)
    OBVIOUS
  <2>1. EntryOK(p, o) /\ Owned(o) /\ OwnedBy(c, p) /\ c \in Claim
    BY <1>2, TaskHere DEF IInv, SlotsOK, Matches, CheckoutMatches, TaskOK, OwnedBy, Used
  <2>2. WellFormed(e) /\ Owned(e) /\ e.lc = target
    BY <2>1, NoProofOption, SettledEntry DEF EntryOK
  <2>3. o.rt \in Nat
    BY <2>1 DEF EntryOK, WellFormed, Entry
  <2> PICK rt : rt = o.rt
    OBVIOUS
  <2>4. WellFormed(f) /\ f.claim = c /\ f.lc = target
    <3>1. f = Rekeyed(e, c, rt) /\ rt \in Nat /\ c \in Claim
      BY <2>1, <2>3
    <3>2. WellFormed(f)
      BY <2>2, <3>1, RekeyedEntry, ZenonT(30)
    <3>3. f.claim = c /\ f.lc = e.lc
      BY <2>2, <3>1 DEF Rekeyed, WellFormed, Entry
    <3> QED
      BY <2>2, <3>2, <3>3
  <2>5. EntryOK(p, f)
    BY <2>1, <2>4 DEF EntryOK, OwnedBy
  <2>6. EntryOK(p, f)' /\ f.lc \notin InFlightLifecycle
    BY <2>4, <2>5, EntryKept, LifecycleSets
  <2>7. slot' = [slot EXCEPT ![p] = f]
    BY <1>2 DEF TakeOver, TakenOver, IInv, SlotsOK
  <2> QED
    BY <2>6, <2>7 DEF ThreadSlot, SetsEntry
<1> QED
  BY <1>1, <1>2

LEMMA TakeoverReadKeeps ==
  ASSUME IInv, Onward, DurableOK', NEW t \in Thread, TakeoverRead(t)
  PROVE  IInv'
<1> PICK p \in Process : p = Own(t)
  BY Constants
<1> PICK o : o = task[t]
  OBVIOUS
<1>1. /\ TaskOK(p, o) /\ o \in Tasks /\ o.pc \in {"taken", "lost"} /\ ThreadRest(t)
      /\ UNCHANGED <<nextGen, nextCheckout>>
  BY TaskHere DEF TakeoverRead
<1>2. Works(o) /\ o.claim \in Claim
  BY <1>1 DEF TaskOK, Works, CheckoutAction, Used
<1>3. UNCHANGED supervisor => EvidenceOK' /\ UNCHANGED guards
  BY <1>2, EvidenceStays DEF supervisor
<1>4. ASSUME NEW target \in IdleLifecycle, o.new # NoClaim, TakeOver(t, target), Done(t),
             UNCHANGED supervisor
      PROVE  IInv'
  <2>1. ThreadSlot(t, Idle)
    BY <1>4, TakeOverSets
  <2> QED
    BY <1>1, <1>3, <1>4, <2>1, ThreadDone DEF IInv, CountersOK
<1>5. CASE /\ SuccessorVisible(t) /\ TakeOver(t, "RecoveryOwnershipCommittedButUnattached")
           /\ UNCHANGED supervisor
           /\ Do(t, [task[t] EXCEPT !.pc = "attach"]) \/ Done(t)
  <2>1. o.new # NoClaim /\ "RecoveryOwnershipCommittedButUnattached" \in IdleLifecycle
    BY <1>5 DEF SuccessorVisible, IdleLifecycle
  <2>2. CASE Do(t, [task[t] EXCEPT !.pc = "attach"])
    <3>1. PICK x : /\ Do(t, x) /\ x \in Tasks
                   /\ x.pc = "attach" /\ x.row = o.row /\ x.job = o.job /\ x.claim = o.claim
                   /\ x.status = o.status /\ x.held = o.held /\ x.new = o.new /\ x.k = o.k
      BY <1>1, <2>2 DEF Tasks, TaskPc
    <3>2. TaskOK(p, x)
      BY <1>1, <2>1, <3>1 DEF TaskOK, Works
    <3>3. TaskOK(p, x)'
      BY <3>2, TaskKept DEF IInv
    <3>4. ThreadSlot(t, x)
      BY <1>5, <2>1, TakeOverSets
    <3> QED
      BY <1>1, <1>3, <1>5, <3>1, <3>3, <3>4, ThreadFrame DEF IInv, CountersOK, Own
  <2> QED
    BY <1>4, <1>5, <2>1, <2>2
<1>6. CASE o.pc = "taken" /\ TakeOver(t, "RecoveryTakeoverQuarantined") /\ Done(t) /\ UNCHANGED supervisor
  BY <1>1, <1>4, <1>6 DEF TaskOK, IdleLifecycle
<1>7. CASE o.pc = "lost" /\ GiveBackEvidence(t)
  BY <1>1, <1>7, GiveBackKeeps
<1>8. CASE Complete(t, "RecoveryTakeoverQuarantined", NoProof) /\ Done(t) /\ UNCHANGED supervisor
  BY <1>1, <1>3, <1>8, NoProofOption, Targets, CompleteKeeps
<1> QED
  BY <1>5, <1>6, <1>7, <1>8 DEF TakeoverRead

LEMMA TakeoverAttachKeeps ==
  ASSUME IInv, Onward, DurableOK', NEW t \in Thread, TakeoverAttach(t)
  PROVE  IInv'
<1> PICK p \in Process : p = Own(t)
  BY Constants
<1> PICK o : o = task[t]
  OBVIOUS
<1> PICK e : e = slot[p]
  OBVIOUS
<1> PICK f : f = Moved(e, "RecoveryOwned")
  OBVIOUS
<1>1. /\ TaskOK(p, o) /\ o.pc = "attach" /\ ThreadRest(t) /\ Done(t)
      /\ UNCHANGED <<nextGen, nextCheckout, cands, elig>> /\ EntryOK(p, e)
  BY TaskHere DEF TakeoverAttach, IInv, SlotsOK
<1>2. OwnedBy(o.new, p) /\ o.new \in Claim /\ ~Works(o) /\ o.claim \in Claim
  BY <1>1 DEF TaskOK, OwnedBy, Used, Works
<1>3. EvidenceOK' /\ guards' \in [Process -> SUBSET Claim]
  BY <1>1, <1>2, EvidenceStays DEF TakeoverAttach, IInv, CountersOK
<1>4. ThreadSlot(t, Idle)
  <2>1. CASE UNCHANGED slot
    BY <1>2, <2>1 DEF ThreadSlot
  <2>2. CASE /\ e.claim = o.new /\ e.lc = "RecoveryOwnershipCommittedButUnattached"
             /\ Put(p, Moved(slot[p], "RecoveryOwned"))
    <3>1. Owned(e) /\ e.lc \in IdleLifecycle /\ "RecoveryOwned" \in IdleLifecycle
      BY <1>1, <2>2 DEF EntryOK, WellFormed, StageShape, IdleLifecycle
    <3>2. WellFormed(f) /\ f.claim = o.new /\ f.lc = "RecoveryOwned"
      BY <1>1, <2>2, <3>1, MovedEntry DEF EntryOK
    <3>3. EntryOK(p, f)
      BY <1>2, <3>2 DEF EntryOK, OwnedBy
    <3>4. EntryOK(p, f)' /\ f.lc \notin InFlightLifecycle
      BY <3>1, <3>2, <3>3, EntryKept, LifecycleSets
    <3> QED
      BY <2>2, <3>4 DEF ThreadSlot, SetsEntry, Put
  <2> QED
    BY <2>1, <2>2 DEF TakeoverAttach
<1> PICK x : x = Idle
  OBVIOUS
<1>5. TaskOK(p, x)
  BY IdleTask
<1>6. TaskOK(p, x)'
  BY <1>5, TaskKept DEF IInv
<1> QED
  BY <1>1, <1>3, <1>4, <1>6, ThreadFrame DEF Done, IInv, CountersOK, Own

-----------------------------------------------------------------------------
\* The system

LEMMA ThreadKeeps ==
  ASSUME IInv, TickNext \/ TakeoverNext
  PROVE  IInv'
<1>1. TickNext \/ TakeoverNext => Next
  BY DEF Next
<1>2. Onward /\ DurableOK'
  BY <1>1, DurableNext
<1>3. CASE TickNext
  BY <1>2, <1>3, StartJobKeeps, DiscoverKeeps, LookKeeps, LookFailsKeeps, RegisterDiscoveredKeeps,
     InstallDiscoveredKeeps, RenewCommitKeeps, RenewFinishKeeps, ClassifyKeeps,
     InspectExpiryKeeps, RecordKeeps
     DEF TickNext
<1>4. CASE TakeoverNext
  BY <1>2, <1>4, TakeoverStartKeeps, TakeoverCheckoutKeeps, TakeoverCommitKeeps, TakeoverReadKeeps,
     TakeoverAttachKeeps
     DEF TakeoverNext
<1> QED
  BY <1>3, <1>4

\* Nothing but the entry of one process is touched, or nothing but the clock.
LEMMA OthersKeep ==
  ASSUME IInv, Onward, DurableOK', UNCHANGED <<handle, cands, elig, guards, task, nextGen, nextCheckout>>,
         SlotsOK', CountersOK',
         \A p \in Process : slot'[p].lc \in InFlightLifecycle => slot'[p] = slot[p]
  PROVE  IInv'
<1>1. HandlesOK'
  BY HandleKept DEF IInv, HandlesOK
<1>2. TasksOK'
  BY TaskKept DEF IInv, TasksOK, Own
<1>3. EvidenceOK'
  BY CandKept, EvidKept DEF IInv, EvidenceOK
<1>4. CustodyOK'
  BY DEF IInv, CustodyOK, Own
<1> QED
  BY <1>1, <1>2, <1>3, <1>4 DEF IInv

LEMMA NoRecords ==
  /\ [c \in Claim |-> Absent] \in [Claim -> Candidates \cup {Absent}]
  /\ [c \in Claim |-> Absent] \in [Claim -> Evidence \cup {Absent}]
OBVIOUS

LEMMA NoHandleOK == HandleOK(NoHandle) /\ NoHandle \in Handles
BY DEF HandleOK, NoHandle, Handles, HandlePc, ClaimOption

\* With a process goes everything it kept in memory, its threads' jobs included.
LEMMA CrashKeeps ==
  ASSUME IInv, Onward, DurableOK', NEW p \in Process, Crash(p)
  PROVE  IInv'
<1>1. SlotsOK' /\ \A q \in Process : slot'[q] = IF q = p THEN Vacant ELSE slot[q]
  <2>1. EntryOK(p, Vacant) /\ Vacant \in Entry
    BY VacantSets, VacantEntry DEF EntryOK, Vacant, RecoveryLifecycle, WellFormed
  <2>2. slot \in [Process -> Entry] /\ slot' = [slot EXCEPT ![p] = Vacant]
    BY DEF Crash, IInv, SlotsOK
  <2>3. ASSUME NEW q \in Process PROVE EntryOK(q, slot[q])'
    <3> PICK e : e = slot'[q]
      OBVIOUS
    <3>1. EntryOK(q, e)
      BY <2>1, <2>2 DEF IInv, SlotsOK
    <3>2. EntryOK(q, e)'
      BY <3>1, EntryKept
    <3> QED
      BY <3>2
  <2> QED
    BY <2>1, <2>2, <2>3 DEF SlotsOK
<1>2. HandlesOK'
  <2>1. handle \in [Process -> Handles] /\ handle' = [handle EXCEPT ![p] = NoHandle]
    BY DEF Crash, IInv, HandlesOK
  <2>2. ASSUME NEW q \in Process PROVE HandleOK(handle[q])'
    <3> PICK h : h = handle'[q]
      OBVIOUS
    <3>1. HandleOK(h)
      BY <2>1, NoHandleOK DEF IInv, HandlesOK
    <3>2. HandleOK(h)'
      BY <3>1, HandleKept
    <3> QED
      BY <3>2
  <2> QED
    BY <2>1, <2>2, NoHandleOK DEF HandlesOK
<1>3. TasksOK'
  <2>1. task' = [t \in Thread |-> IF Own(t) = p THEN Idle ELSE task[t]]
    BY DEF Crash, Own
  <2>2. ASSUME NEW t \in Thread PROVE task'[t] \in Tasks /\ TaskOK(Own(t), task[t])'
    <3> PICK x : x = task'[t]
      OBVIOUS
    <3> PICK q : q = Own(t)
      OBVIOUS
    <3>1. TaskOK(q, x)
      BY <2>1, IdleTask DEF IInv, TasksOK
    <3>2. TaskOK(q, x)'
      BY <3>1, TaskKept DEF IInv
    <3> QED
      BY <3>1, <3>2 DEF Own, TaskOK, Tasks
  <2> QED
    BY <2>1, <2>2 DEF TasksOK
<1>4. EvidenceOK'
  <2>1. /\ cands \in [Process -> [Claim -> Candidates \cup {Absent}]]
        /\ elig \in [Process -> [Claim -> Evidence \cup {Absent}]]
        /\ cands' = [cands EXCEPT ![p] = [c \in Claim |-> Absent]]
        /\ elig' = [elig EXCEPT ![p] = [c \in Claim |-> Absent]]
    BY DEF Crash, IInv, EvidenceOK
  <2>2. /\ cands' \in [Process -> [Claim -> Candidates \cup {Absent}]]
        /\ elig' \in [Process -> [Claim -> Evidence \cup {Absent}]]
    BY <2>1, NoRecords
  <2>3. ASSUME NEW q \in Process, NEW c \in Claim, cands'[q][c] # Absent
        PROVE  CandOK(c, cands[q][c])'
    <3> PICK x : x = cands'[q][c]
      OBVIOUS
    <3>1. CandOK(c, x)
      BY <2>1, <2>3 DEF IInv, EvidenceOK
    <3>2. CandOK(c, x)'
      BY <3>1, CandKept DEF IInv
    <3> QED
      BY <3>2
  <2>4. ASSUME NEW q \in Process, NEW c \in Claim, elig'[q][c] # Absent
        PROVE  EvidOK(c, elig[q][c])'
    <3> PICK x : x = elig'[q][c]
      OBVIOUS
    <3>1. EvidOK(c, x)
      BY <2>1, <2>4 DEF IInv, EvidenceOK
    <3>2. EvidOK(c, x)'
      BY <3>1, EvidKept DEF IInv
    <3> QED
      BY <3>2
  <2> QED
    BY <2>2, <2>3, <2>4 DEF EvidenceOK
<1>5. CountersOK'
  <2>1. /\ up' = [up EXCEPT ![p] = "dead"] /\ shutting' = [shutting EXCEPT ![p] = FALSE]
        /\ nextGen' = [nextGen EXCEPT ![p] = 0] /\ nextCheckout' = [nextCheckout EXCEPT ![p] = 0]
        /\ guards' = [guards EXCEPT ![p] = {}] /\ handle' = [handle EXCEPT ![p] = NoHandle]
    BY DEF Crash
  <2> QED
    BY <1>1, <2>1 DEF IInv, CountersOK, HandlesOK
<1>6. CustodyOK'
  <2> SUFFICES ASSUME NEW q \in Process, slot'[q].lc \in InFlightLifecycle
               PROVE  \E u \in Thread : Own(u) = q /\ Works(task'[u]) /\ CheckoutMatches(slot'[q], task'[u].k)
    BY DEF CustodyOK, Own
  <2>1. q # p /\ slot'[q] = slot[q]
    BY <1>1, VacantSets
  <2>2. PICK u \in Thread : Own(u) = q /\ Works(task[u]) /\ CheckoutMatches(slot[q], task[u].k)
    BY <2>1 DEF IInv, CustodyOK
  <2>3. task'[u] = task[u]
    BY <2>1, <2>2 DEF Crash, Own
  <2> QED
    BY <2>1, <2>2, <2>3
<1> QED
  BY <1>1, <1>2, <1>3, <1>4, <1>5, <1>6 DEF IInv

LEMMA BeginShutdownKeeps ==
  ASSUME IInv, Onward, DurableOK', NEW p \in Process, BeginShutdown(p)
  PROVE  IInv'
<1> PICK o : o = slot[p]
  OBVIOUS
<1> PICK e : e = DroppedUnclosed(o)
  OBVIOUS
<1>1. slot \in [Process -> Entry] /\ EntryOK(p, o)
  BY DEF IInv, SlotsOK
<1>2. UNCHANGED slot \/ (slot' = [slot EXCEPT ![p] = e] /\ Owned(o))
  BY <1>1 DEF BeginShutdown, EntryOK, WellFormed, StageShape
<1>3. Owned(o) => EntryOK(p, e)' /\ e.lc \notin InFlightLifecycle
  BY NoProofOption, SettledSets DEF DroppedUnclosed, SettledLifecycle, IdleLifecycle, RecoveryLifecycle
<1>4. SlotsOK' /\ \A q \in Process : q # p => slot'[q] = slot[q]
  <2>1. CASE UNCHANGED slot
    BY <2>1, EntryKept DEF IInv, SlotsOK
  <2>2. CASE slot' = [slot EXCEPT ![p] = e] /\ Owned(o)
    BY <1>1, <1>3, <2>2, EntryKept DEF IInv, SlotsOK, EntryOK, WellFormed
  <2> QED
    BY <1>2, <2>1, <2>2
<1>5. \A q \in Process : slot'[q].lc \in InFlightLifecycle => slot'[q] = slot[q]
  BY <1>1, <1>2, <1>3
<1>6. CountersOK'
  BY <1>4 DEF BeginShutdown, IInv, CountersOK, supervisor
<1> QED
  BY <1>4, <1>5, <1>6, OthersKeep DEF BeginShutdown, supervisor

LEMMA ProcessKeeps ==
  ASSUME IInv, ProcessNext
  PROVE  IInv'
<1>1. ProcessNext => Next
  BY DEF Next
<1>2. Onward /\ DurableOK'
  BY <1>1, DurableNext
<1>3. ASSUME NEW p \in Process, Start(p)
      PROVE  IInv'
  <2>1. SlotsOK'
    BY <1>2, <1>3, EntryKept DEF Start, registry, IInv, SlotsOK
  <2>2. CountersOK'
    BY <1>3 DEF Start, registry, supervisor, IInv, CountersOK
  <2> QED
    BY <1>2, <1>3, <2>1, <2>2, OthersKeep DEF Start, registry, supervisor
<1> QED
  BY <1>2, <1>3, CrashKeeps, BeginShutdownKeeps DEF ProcessNext

LEMMA TickKeeps ==
  ASSUME IInv, MonoTick \/ UNCHANGED vars
  PROVE  IInv'
<1>1. Onward /\ DurableOK'
  <2>1. CASE MonoTick
    BY <2>1, DurableNext DEF Next
  <2>2. CASE UNCHANGED vars
    BY <2>2, DurableKept, OnwardStep DEF vars, DurableStep, Transaction, durable, IInv
  <2> QED
    BY <2>1, <2>2
<1>2. UNCHANGED <<up, shutting, registry, handle, supervisor, task>>
  BY DEF MonoTick, vars
<1>3. SlotsOK'
  BY <1>1, <1>2, EntryKept DEF registry, IInv, SlotsOK
<1>4. CountersOK'
  BY <1>2 DEF registry, supervisor, IInv, CountersOK
<1> QED
  BY <1>1, <1>2, <1>3, <1>4, OthersKeep DEF registry, supervisor

LEMMA Initially == Init => IInv
<1> SUFFICES ASSUME Init PROVE IInv
  OBVIOUS
<1>1. DurableOK
  BY Constants DEF Init, DurableOK, Status, RowOf
<1>2. SlotsOK
  BY VacantEntry DEF Init, SlotsOK, EntryOK, WellFormed, Vacant, RecoveryLifecycle
<1>3. HandlesOK
  BY NoHandleOK DEF Init, HandlesOK
<1>4. TasksOK
  <2>1. Idle \in Tasks
    BY IdleTask DEF TaskOK
  <2> QED
    BY <2>1, IdleTask DEF Init, TasksOK
<1>5. EvidenceOK
  BY NoRecords DEF Init, EvidenceOK
<1>6. CountersOK
  BY DEF Init, CountersOK
<1>7. CustodyOK
  BY VacantSets DEF Init, CustodyOK, InFlightLifecycle, Vacant
<1> QED
  BY <1>1, <1>2, <1>3, <1>4, <1>5, <1>6, <1>7 DEF IInv

\* The invariant holds in every reachable state.
THEOREM Invariance == Spec => []IInv
<1>1. IInv /\ [Next]_vars => IInv'
  BY HandleKeeps, ThreadKeeps, ProcessKeeps, TickKeeps DEF Next
<1> QED
  BY <1>1, Initially, PTL DEF Spec

-----------------------------------------------------------------------------
\* What follows

\* The records, rows and lifecycles keep their shapes: TypeOK.
THEOREM TypeCorrect == Spec => []TypeOK
<1>1. IInv => TypeOK
  BY DEF IInv, TypeOK, DurableOK, CountersOK, SlotsOK, EntryOK, WellFormed, HandlesOK, Handles,
         ClaimOption, TasksOK, Tasks
<1> QED
  BY <1>1, Invariance, PTL

\* An entry in flight has a thread at work that will settle it: InFlightIsWorkedOn,
\* for every number of threads and processes.
THEOREM WorkedOn == Spec => []InFlightIsWorkedOn
<1>1. \A t \in Thread : Works(task[t]) => task[t] # Idle
  BY DEF Works, Idle
<1>2. IInv => InFlightIsWorkedOn
  BY <1>1 DEF IInv, CustodyOK, InFlightIsWorkedOn
<1> QED
  BY <1>2, Invariance, PTL

\* Recovery ownership a process believes in was committed for it: RecoveryIsDurable.
THEOREM RecoveryDurable == Spec => []RecoveryIsDurable
<1>1. ASSUME IInv, NEW p \in Process, slot[p].lc \in RecoveryLifecycle
      PROVE  /\ attempt[slot[p].claim] # "none"
             /\ RowOf(slot[p].claim) # Absent => row.owner = p
             /\ RowOf(slot[p].claim) = Absent => attempt[slot[p].claim] # "active"
  <2>1. OwnedBy(slot[p].claim, p)
    BY <1>1 DEF IInv, SlotsOK, EntryOK
  <2> QED
    BY <1>1, <2>1 DEF OwnedBy, Used, IInv, DurableOK
<1>2. IInv => RecoveryIsDurable
  BY <1>1 DEF RecoveryIsDurable, RecoveryLifecycle
<1> QED
  BY <1>2, Invariance, PTL

\* No transaction writes the attempt of an operation whose outcome is known:
\* OutcomeIsFinal.
THEOREM OutcomesFinal == Spec => OutcomeIsFinal
<1>1. ASSUME IInv, Next, NEW c \in Claim, attempt[c] \in {"terminal", "retained", "partial"}
      PROVE  attempt'[c] = attempt[c]
  <2>1. DurableStep /\ DurableOK
    BY <1>1, DurableNext DEF IInv
  <2>2. ASSUME NEW d \in Claim, NEW p \in Process, Grants(d, p)
        PROVE  attempt'[c] = attempt[c]
    BY <1>1, <2>2 DEF Grants, InsertClaim, Fresh
  <2>3. ASSUME NEW outcome \in {"terminal", "retained", "partial"}, Exits(outcome)
        PROVE  attempt'[c] = attempt[c]
    BY <1>1, <2>1, <2>3 DEF Exits, ExitWrites, DurableOK
  <2> QED
    BY <2>1, <2>2, <2>3 DEF DurableStep, Transaction, MonoTick, durable, Beat
<1>2. IInv /\ [Next]_vars =>
        [\A c \in Claim :
           attempt[c] \in {"terminal", "retained", "partial"} => attempt'[c] = attempt[c]]_vars
  BY <1>1
<1> QED
  BY <1>2, Invariance, PTL DEF Spec, OutcomeIsFinal

\* The system implements ClaimLease: the row is the lease, a start grants it, a
\* takeover hands it over, and only after the confirmation interval.
THEOREM LeaseImplemented == Spec => ImplementsLease
<1>1. Init => Lease!LeaseInit
  BY DEF Init, Lease!LeaseInit
<1>2. ASSUME DurableOK, DurableStep
      PROVE  [Lease!LeaseNext]_(Lease!leaseVars)
  <2> DEFINE lease == IF row = Absent THEN Absent ELSE [claim |-> row.claim, owner |-> row.owner]
  <2> DEFINE used == {c \in Claim : attempt[c] # "none"}
  <2>1. row # Absent => lease # Absent
    BY <1>2, AbsentAssumption DEF DurableOK, Row
  <2>2. CASE MonoTick
    BY <2>2 DEF MonoTick, durable, Lease!LeaseNext, Lease!Pass
  <2>3. CASE UNCHANGED <<durable, mono>>
    BY <2>3 DEF durable, Lease!leaseVars
  <2>4. ASSUME NEW c \in Claim, NEW p \in Process, Grants(c, p), UNCHANGED mono
        PROVE  Lease!Grant \/ Lease!HandOver
    <3>1. row' # Absent /\ row'.claim = c /\ row'.owner = p
      <4>1. row' = [claim |-> c, owner |-> p, rev |-> 0] /\ row' \in Row
        BY <2>4, Constants DEF Grants, InsertClaim, Row
      <4> QED
        BY <4>1, AbsentAssumption
    <3>2. lease' = [claim |-> c, owner |-> p]
      BY <3>1
    <3>3. used' = used \cup {c} /\ c \notin used
      BY <2>4 DEF Grants, InsertClaim, Fresh
    <3>4. Lease!Granted(c, p)
      BY <2>4, <3>2, <3>3 DEF Lease!Granted, Grants, InsertClaim
    <3> QED
      BY <2>1, <2>4, <3>4 DEF Lease!Grant, Lease!HandOver, Grants
  <2>5. ASSUME row # Absent, Beat, UNCHANGED mono
        PROVE  Lease!Beat
    <3>1. row \in Row /\ row' = [row EXCEPT !.rev = @ + 1] /\ row.rev < MaxRevision
      BY <1>2, <2>5 DEF Beat, DurableOK
    <3>2. row' \in Row /\ row'.claim = row.claim /\ row'.owner = row.owner
      BY <3>1, Constants DEF Row
    <3>3. row' # Absent
      BY <3>2, AbsentAssumption
    <3>4. lease' = lease
      BY <2>5, <3>2, <3>3
    <3> QED
      BY <2>1, <2>5, <3>4 DEF Beat, Lease!Beat
  <2>6. ASSUME NEW outcome \in {"terminal", "retained", "partial"}, Exits(outcome), UNCHANGED mono
        PROVE  Lease!Release \/ UNCHANGED Lease!leaseVars
    <3>1. used' = used
      BY <1>2, <2>6 DEF Exits, ExitWrites, DurableOK
    <3>2. lease' = Absent \/ lease' = lease
      BY <2>6 DEF Exits, ExitWrites
    <3> QED
      BY <2>6, <3>1, <3>2 DEF Exits, ExitWrites, Lease!Release, Lease!leaseVars
  <2> QED
    BY <1>2, <2>2, <2>3, <2>4, <2>5, <2>6 DEF DurableStep, Transaction, Lease!LeaseNext
<1>3. UNCHANGED vars => UNCHANGED Lease!leaseVars
  BY DEF vars, durable, Lease!leaseVars
<1>4. IInv /\ [Next]_vars => [Lease!LeaseNext]_(Lease!leaseVars)
  BY <1>2, <1>3, DurableNext DEF IInv
<1> QED
  BY <1>1, <1>4, Invariance, PTL DEF Spec, ImplementsLease, Lease!LeaseSpec

-----------------------------------------------------------------------------
\* Evidence of an abandoned claim: a step that leaves an entry waiting for recovery
\* without any is the end of a stale job.

LostOnlyStale ==
  \A p \in Process :
    Stranded(p)' /\ ~Stranded(p) =>
      \E t \in Thread : Own(t) = p /\ task[t].claim = slot[p].claim /\ EndsStale(t)

\* A thread that holds the evidence of claim c.
Carries(x, c) == x.pc \in {"recordEligible", "claiming"} /\ x.claim = c

\* What a handle does leaves an eligible entry alone or takes it out of the lifecycle.
LEMMA EligibleHandle ==
  ASSUME UNCHANGED <<elig, task>>,
         \A p \in Process : slot'[p] = slot[p] \/ slot'[p].lc # "AbandonedEligible"
  PROVE  LostOnlyStale
BY DEF LostOnlyStale, Stranded, HasEvidence, Own

\* What a thread does to its process's entry.
LEMMA EligibleThread ==
  ASSUME IInv, NEW t \in Thread, NEW x, Do(t, x), NEW p \in Process, p = Own(t),
         \A q \in Process : q # p => slot'[q] = slot[q] /\ elig'[q] = elig[q],
         slot'[p].lc = "AbandonedEligible" =>
           \/ elig'[p][slot'[p].claim] # Absent
           \/ Carries(x, slot'[p].claim)
           \/ /\ slot'[p] = slot[p] /\ ~Carries(task[t], slot[p].claim)
              /\ \/ elig'[p][slot[p].claim] = elig[p][slot[p].claim]
                 \/ task[t].claim = slot[p].claim /\ EndsStale(t)
  PROVE  LostOnlyStale
<1>1. task' = [task EXCEPT ![t] = x] /\ task \in [Thread -> Tasks]
  BY DEF Do, IInv, TasksOK
<1> SUFFICES ASSUME NEW q \in Process, Stranded(q)', ~Stranded(q)
             PROVE  \E u \in Thread : Own(u) = q /\ task[u].claim = slot[q].claim /\ EndsStale(u)
  BY DEF LostOnlyStale
<1>2. slot'[q].lc = "AbandonedEligible" /\ elig'[q][slot'[q].claim] = Absent
  BY DEF Stranded, HasEvidence
<1>3. \A u \in Thread : Own(u) = q => ~Carries(task'[u], slot'[q].claim)
  BY DEF Stranded, HasEvidence, Carries, Own
<1>4. CASE q = p
  <2>1. ~Carries(x, slot'[p].claim)
    BY <1>1, <1>3, <1>4
  <2>2. slot'[p] = slot[p] /\ ~Carries(task[t], slot[p].claim)
    BY <1>2, <1>4, <2>1
  <2>3. elig[p][slot[p].claim] = Absent
        => \E u \in Thread : Own(u) = p /\ Carries(task[u], slot[p].claim)
    BY <1>2, <1>4, <2>2 DEF Stranded, HasEvidence, Carries
  <2>4. \A u \in Thread : u # t => task'[u] = task[u]
    BY <1>1
  <2>5. elig[p][slot[p].claim] # Absent
    BY <1>3, <1>4, <2>2, <2>3, <2>4
  <2> QED
    BY <1>2, <1>4, <2>1, <2>2, <2>5
<1>5. CASE q # p
  <2>1. \A u \in Thread : Own(u) = q => task'[u] = task[u]
    BY <1>1, <1>5
  <2>2. slot[q] = slot'[q] /\ elig[q] = elig'[q]
    BY <1>5
  <2> QED
    BY <1>2, <1>3, <2>1, <2>2 DEF Stranded, HasEvidence, Carries
<1> QED
  BY <1>4, <1>5

\* Whoever holds no evidence may settle an entry as anything else, and clear the
\* evidence of its claim if that leaves the entry not waiting, or its job was stale.
LEMMA EligibleWorker ==
  ASSUME IInv, NEW t \in Thread, NEW x, Do(t, x),
         NEW p \in Process, p = Own(t), task[t].pc \notin {"recordEligible", "claiming"},
         \A q \in Process : q # p => slot'[q] = slot[q] /\ elig'[q] = elig[q],
         slot'[p] = slot[p] \/ slot'[p].lc # "AbandonedEligible",
         \/ elig'[p] = elig[p]
         \/ /\ elig' = [elig EXCEPT ![p][task[t].claim] = Absent]
            /\ slot'[p].lc # "AbandonedEligible" \/ EndsStale(t)
  PROVE  LostOnlyStale
<1>1. elig \in [Process -> [Claim -> Evidence \cup {Absent}]]
  BY DEF IInv, EvidenceOK
<1>2. ASSUME slot'[p].lc = "AbandonedEligible"
      PROVE  /\ slot'[p] = slot[p] /\ ~Carries(task[t], slot[p].claim)
             /\ \/ elig'[p][slot[p].claim] = elig[p][slot[p].claim]
                \/ task[t].claim = slot[p].claim /\ EndsStale(t)
  <2>1. slot'[p] = slot[p] /\ ~Carries(task[t], slot[p].claim)
    BY <1>2 DEF Carries
  <2>2. slot[p].claim \in Claim
    BY <1>2, <2>1 DEF IInv, SlotsOK, EntryOK, WellFormed, StageShape, Used, Owned
  <2>3. CASE task[t].claim = slot[p].claim
    BY <1>2, <2>1, <2>3
  <2>4. CASE task[t].claim # slot[p].claim
    BY <1>1, <2>1, <2>2, <2>4
  <2> QED
    BY <2>1, <2>3, <2>4
<1> HIDE DEF Carries
<1> QED
  BY <1>2, EligibleThread

\* Nothing happens to the evidence.
LEMMA EligibleKept ==
  ASSUME IInv, NEW t \in Thread, NEW x, Do(t, x), UNCHANGED elig,
         NEW p \in Process, p = Own(t), task[t].pc \notin {"recordEligible", "claiming"},
         \A q \in Process : q # p => slot'[q] = slot[q],
         slot'[p] = slot[p] \/ slot'[p].lc # "AbandonedEligible"
  PROVE  LostOnlyStale
BY EligibleWorker

LEMMA EligibleComplete ==
  ASSUME IInv, NEW t \in Thread, NEW p \in Process, p = Own(t),
         NEW target, target # "AbandonedEligible", NEW proof, Complete(t, target, proof)
  PROVE  /\ \A q \in Process : q # p => slot'[q] = slot[q]
         /\ slot'[p] = slot[p] \/ slot'[p].lc # "AbandonedEligible"
         /\ Matches(t) => slot'[p].lc # "AbandonedEligible"
BY DEF Complete, Completed, Settled, Vacant, IInv, SlotsOK, Entry

LEMMA EligibleRestore ==
  ASSUME IInv, NEW t \in Thread, NEW p \in Process, p = Own(t), Works(task[t]), Restore(t)
  PROVE  /\ \A q \in Process : q # p => slot'[q] = slot[q]
         /\ task[t].job # "Takeover" => slot'[p] = slot[p] \/ slot'[p].lc # "AbandonedEligible"
<1>1. task[t].job \in CheckoutAction /\ task[t].k.prev \in PrevOf(task[t].job)
  BY TaskHere DEF TaskOK, Works
<1>2. task[t].job # "Takeover" => task[t].k.prev # "AbandonedEligible"
  BY <1>1 DEF CheckoutAction, PrevOf
<1> PICK e : e = slot[p]
  OBVIOUS
<1> PICK f : f = Restored(e, task[t].k)
  OBVIOUS
<1>3. e \in Entry /\ slot \in [Process -> Entry]
  BY DEF IInv, SlotsOK
<1>4. slot' = slot \/ slot' = [slot EXCEPT ![p] = f]
  BY <1>3 DEF Restore
<1>5. f.lc = task[t].k.prev
  BY <1>3 DEF Restored, Settled, Entry
<1> QED
  BY <1>2, <1>3, <1>4, <1>5

\* A quarantined completion clears the evidence, of a stale checkout too.
LEMMA EligibleQuarantined ==
  ASSUME IInv, NEW t \in Thread, task[t].pc \in {"decide", "renewed"}, CompleteQuarantined(t)
  PROVE  LostOnlyStale
<1> PICK p \in Process : p = Own(t)
  BY Constants
<1>1. elig' = [elig EXCEPT ![p][task[t].claim] = Absent] /\ Do(t, Idle)
  BY DEF CompleteQuarantined, Cleared, Done
<1>2. /\ \A q \in Process : q # p => slot'[q] = slot[q]
      /\ slot'[p] = slot[p] \/ slot'[p].lc # "AbandonedEligible"
      /\ Matches(t) => slot'[p].lc # "AbandonedEligible"
  BY EligibleComplete DEF CompleteQuarantined
<1>3. elig \in [Process -> [Claim -> Evidence \cup {Absent}]] /\ task \in [Thread -> Tasks]
  BY DEF IInv, EvidenceOK, TasksOK
<1>4. \A q \in Process : q # p => elig'[q] = elig[q]
  BY <1>1, <1>3
<1>5. ~Matches(t) => EndsStale(t)
  BY <1>1, <1>3 DEF EndsStale, Do
<1> QED
  BY <1>1, <1>2, <1>4, <1>5, EligibleWorker

LEMMA EligibleKeptByHandle ==
  ASSUME IInv, HandleNext
  PROVE  LostOnlyStale
<1> PICK p \in Process :
    \/ Initialize(p) \/ FinishWithoutHandle(p)
    \/ Register(p) \/ Install(p)
    \/ HeartbeatBegin(p) \/ HeartbeatCommit(p) \/ HeartbeatFinish(p)
    \/ QuarantineAfterUnknown(p) \/ Drop(p)
    \/ CloseBegin(p) \/ CloseSnapshot(p) \/ CloseCommit(p) \/ CloseSettle(p)
  BY DEF HandleNext
<1>1. UNCHANGED <<elig, task>> /\ slot' \in [Process -> Entry]
  BY HandleKeeps DEF HandleRest, supervisor, IInv, SlotsOK, Initialize, FinishWithoutHandle, Register,
     Install, HeartbeatBegin, HeartbeatCommit, HeartbeatFinish, QuarantineAfterUnknown, Drop,
     CloseBegin, CloseSnapshot, CloseCommit, CloseSettle
<1> PICK e : e = slot[p]
  OBVIOUS
<1>2. e \in Entry /\ slot \in [Process -> Entry]
  BY DEF IInv, SlotsOK
<1> DEFINE Elsewhere == /\ slot'[p].lc # "AbandonedEligible"
                        /\ \A q \in Process : q # p => slot'[q] = slot[q]
<1>3. Put(p, Vacant) => Elsewhere
  BY <1>2 DEF Put, Vacant
<1>4. \A gen, c, rt : Put(p, RuntimeOwned(gen, c, rt, "Live")) => Elsewhere
  BY <1>2 DEF Put, RuntimeOwned, Vacant
<1>5. \A proof : e.lc \in {"Live", "Retained"} /\ Put(p, Sealed(slot[p], proof)) => Elsewhere
  BY <1>2 DEF Put, Sealed, Entry
<1>6. ASSUME NEW lc, lc # "AbandonedEligible", NEW proof, NEW qalr, Put(p, Settled(slot[p], lc, proof, qalr))
      PROVE  Elsewhere
  BY <1>2, <1>6 DEF Put, Settled, Entry
<1>7. Invalidated(p) => Elsewhere \/ UNCHANGED slot
  BY <1>6 DEF Invalidated, QuarantinedInvalid
<1>8. \A from, to : to # "AbandonedEligible" /\ Moves(p, from, to) => Elsewhere \/ UNCHANGED slot
  BY <1>6 DEF Moves, Transitioned
<1>9. Put(p, DroppedUnclosed(slot[p])) => Elsewhere
  BY <1>6 DEF DroppedUnclosed
<1> HIDE DEF Elsewhere
<1>10. Elsewhere \/ UNCHANGED slot
  <2>1. CASE Initialize(p) \/ FinishWithoutHandle(p) \/ HeartbeatBegin(p)
    BY <2>1 DEF Initialize, FinishWithoutHandle, HeartbeatBegin
  <2>2. CASE Register(p)
    BY <1>4, <2>2 DEF Register
  <2>3. CASE Install(p)
    BY <1>3, <1>5, <2>3 DEF Install, InstallAllowed
  <2>4. CASE HeartbeatCommit(p)
    BY <1>7, <2>4 DEF HeartbeatCommit
  <2>5. CASE HeartbeatFinish(p)
    BY <1>5, <1>7, <2>5 DEF HeartbeatFinish, ReplaceAllowed
  <2>6. CASE QuarantineAfterUnknown(p) \/ CloseBegin(p)
    BY <1>8, <2>6 DEF QuarantineAfterUnknown, CloseBegin
  <2>7. CASE Drop(p)
    BY <1>9, <2>7 DEF Drop
  <2>8. CASE CloseSnapshot(p)
    BY <1>7, <2>8 DEF CloseSnapshot
  <2>9. CASE CloseCommit(p)
    BY <1>8, <2>9 DEF CloseCommit
  <2>10. CASE CloseSettle(p)
    BY <1>3, <1>8, <2>10 DEF CloseSettle
  <2> QED
    BY <2>1, <2>2, <2>3, <2>4, <2>5, <2>6, <2>7, <2>8, <2>9, <2>10
<1>11. \A q \in Process : slot'[q] = slot[q] \/ slot'[q].lc # "AbandonedEligible"
  BY <1>2, <1>10 DEF Elsewhere
<1> QED
  BY <1>1, <1>11, EligibleHandle

\* A checkout takes the entry out of the lifecycle.
LEMMA EligibleTakesOut ==
  ASSUME IInv, NEW t \in Thread, NEW p \in Process, p = Own(t),
         NEW action \in CheckoutAction, TakesOut(t, action)
  PROVE  /\ \A q \in Process : q # p => slot'[q] = slot[q]
         /\ slot'[p].lc # "AbandonedEligible"
<1> PICK e : e = slot[p]
  OBVIOUS
<1>1. e \in Entry /\ slot \in [Process -> Entry]
  BY DEF IInv, SlotsOK
<1>2. InFlightOf(action) # "AbandonedEligible"
  BY DEF InFlightOf, CheckoutAction
<1> QED
  BY <1>1, <1>2 DEF TakesOut, Put, CheckedOut, Entry

\* Of the jobs that work on no entry only Record and the two ends of the evidence
\* matter to an eligible one.
LEMMA EligibleKeptAside ==
  ASSUME IInv, NEW t \in Thread,
         \/ Discover(t) \/ \E action \in {"Renew", "Classify", "Inspect"} : StartJob(t, action)
         \/ RegisterDiscovered(t) \/ InstallDiscovered(t)
         \/ TakeoverAttach(t)
  PROVE  LostOnlyStale
<1> PICK p \in Process : p = Own(t)
  BY Constants
<1> PICK o : o = task[t]
  OBVIOUS
<1> PICK e : e = slot[p]
  OBVIOUS
<1>1. /\ TaskOK(p, o) /\ slot \in [Process -> Entry] /\ e \in Entry
      /\ elig \in [Process -> [Claim -> Evidence \cup {Absent}]]
  BY TaskHere DEF IInv, SlotsOK, EvidenceOK
<1>2. UNCHANGED elig /\ \E x : Do(t, x)
  BY DEF Discover, StartJob, RegisterDiscovered, InstallDiscovered, TakeoverAttach, supervisor, Done
<1>3. PICK x : Do(t, x)
  BY <1>2
<1>4. o.pc \notin {"recordEligible", "claiming"}
  BY <1>1 DEF Discover, StartJob, RegisterDiscovered, InstallDiscovered, TakeoverAttach, Idle
<1>5. slot'[p].lc = "AbandonedEligible" => slot'[p] = e
  <2>1. ASSUME NEW action \in {"Renew", "Classify", "Inspect"}, StartJob(t, action)
        PROVE  slot'[p].lc # "AbandonedEligible"
    BY <2>1, EligibleTakesOut DEF StartJob, CheckoutAction
  <2>2. CASE Discover(t)
    BY <2>2 DEF Discover, registry
  <2>3. CASE RegisterDiscovered(t)
    <3> PICK f : f = RuntimeOwned(nextGen[p] + 1, o.claim, SentinelRuntime, DiscoveredAs(t))
      OBVIOUS
    <3>1. f.lc # "AbandonedEligible"
      BY DEF RuntimeOwned, Vacant, DiscoveredAs
    <3>2. UNCHANGED slot \/ slot' = [slot EXCEPT ![p] = f]
      BY <2>3 DEF RegisterDiscovered, Put
    <3> QED
      BY <1>1, <3>1, <3>2
  <2>4. CASE InstallDiscovered(t)
    BY <1>1, <2>4 DEF InstallDiscovered, Sealed, InstallAllowed, Transitioned, Settled, Entry
  <2>5. CASE TakeoverAttach(t)
    BY <1>1, <2>5 DEF TakeoverAttach, Put, Moved, Entry
  <2> QED
    BY <2>1, <2>2, <2>3, <2>4, <2>5
<1>6. \A q \in Process : q # p => slot'[q] = slot[q] /\ elig'[q] = elig[q]
  <2>1. ASSUME NEW action \in {"Renew", "Classify", "Inspect"}, StartJob(t, action)
        PROVE  \A q \in Process : q # p => slot'[q] = slot[q]
    BY <2>1, EligibleTakesOut DEF StartJob, CheckoutAction
  <2>2. ASSUME Discover(t) \/ RegisterDiscovered(t) \/ InstallDiscovered(t) \/ TakeoverAttach(t)
        PROVE  UNCHANGED slot \/ \E f : slot' = [slot EXCEPT ![p] = f]
    <3>1. CASE Discover(t)
      BY <3>1 DEF Discover, registry
    <3>2. CASE RegisterDiscovered(t)
      BY <3>2 DEF RegisterDiscovered, Put
    <3>3. CASE InstallDiscovered(t)
      BY <3>3 DEF InstallDiscovered
    <3>4. CASE TakeoverAttach(t)
      BY <3>4 DEF TakeoverAttach, Put
    <3> QED
      BY <2>2, <3>1, <3>2, <3>3, <3>4
  <2> QED
    BY <1>1, <1>2, <2>1, <2>2
<1> QED
  BY <1>2, <1>3, <1>4, <1>5, <1>6, EligibleKept

\* The steps of a job on an entry that leave the evidence alone.
LEMMA EligibleKeptByWorker ==
  ASSUME IInv, NEW t \in Thread, Works(task[t]), UNCHANGED elig,
         \/ LookFails(t) \/ RenewCommit(t) \/ RenewFinish(t) \/ Classify(t)
         \/ TakeoverRead(t) /\ ~(task[t].pc = "lost" /\ GiveBackEvidence(t))
         \/ TakeoverCommit(t) /\ ~GiveBackEvidence(t)
         \/ InspectExpiry(t) /\ ~ConfirmCandidate(t)
  PROVE  LostOnlyStale
<1> PICK p \in Process : p = Own(t)
  BY Constants
<1>1. /\ TaskOK(p, task[t]) /\ slot \in [Process -> Entry]
      /\ task[t].pc \notin {"recordEligible", "claiming"}
  BY TaskHere DEF IInv, SlotsOK, Works
<1> DEFINE Elsewhere == /\ \A q \in Process : q # p => slot'[q] = slot[q]
                        /\ slot'[p] = slot[p] \/ slot'[p].lc # "AbandonedEligible"
<1>3. UNCHANGED slot => Elsewhere
  OBVIOUS
<1>4. \A target, proof : target # "AbandonedEligible" /\ Complete(t, target, proof) => Elsewhere
  BY EligibleComplete
<1>5. task[t].job # "Takeover" /\ Restore(t) => Elsewhere
  BY EligibleRestore
<1>6. \A target : target # "AbandonedEligible" /\ TakeOver(t, target) => Elsewhere
  <2> SUFFICES ASSUME NEW target, target # "AbandonedEligible", TakeOver(t, target), Matches(t)
               PROVE  Elsewhere
    BY DEF TakeOver
  <2> PICK f : f = TakenOver(slot[p], target, task[t].new)
    OBVIOUS
  <2>1. slot' = [slot EXCEPT ![p] = f]
    BY <1>1 DEF TakeOver
  <2>2. f.lc = target
    BY <1>1 DEF TakenOver, Rekeyed, Settled, Entry
  <2> QED
    BY <1>1, <2>1, <2>2
<1> HIDE DEF Elsewhere
<1>7. Elsewhere
  <2>2. CASE LookFails(t)
    BY <1>1, <1>3, <1>5, <2>2 DEF LookFails, RestoreOnly, TaskOK
  <2>3. CASE RenewCommit(t)
    BY <1>1, <1>3, <1>4, <1>5, <2>3 DEF RenewCommit, TaskOK
  <2>4. CASE RenewFinish(t)
    <3>1. task[t].k.prev # "AbandonedEligible"
      BY <1>1, <2>4 DEF RenewFinish, TaskOK, PrevOf
    <3> QED
      BY <1>4, <2>4, <3>1 DEF RenewFinish, CompleteQuarantined
  <2>5. CASE Classify(t)
    BY <1>4, <2>5 DEF Classify, CompleteQuarantined
  <2>6. CASE TakeoverRead(t) /\ ~(task[t].pc = "lost" /\ GiveBackEvidence(t))
    BY <1>4, <1>6, <2>6 DEF TakeoverRead
  <2>7. CASE TakeoverCommit(t) /\ ~GiveBackEvidence(t)
    BY <1>3, <1>4, <2>7 DEF TakeoverCommit
  <2>8. CASE InspectExpiry(t) /\ ~ConfirmCandidate(t)
    BY <1>1, <1>4, <1>5, <2>8 DEF InspectExpiry, CompleteQuarantined, RestoreOnly, CreateCandidate
  <2> QED
    BY <2>2, <2>3, <2>4, <2>5, <2>6, <2>7, <2>8
<1>8. \E x : Do(t, x)
  BY DEF LookFails, RenewCommit, RenewFinish, Classify, TakeoverRead,
     TakeoverCommit, InspectExpiry, RestoreOnly, CompleteQuarantined, CreateCandidate, Done
<1> QED
  BY <1>1, <1>7, <1>8, EligibleKept DEF Elsewhere

\* The ends that clear the evidence.
LEMMA EligibleClears ==
  ASSUME IInv, NEW t \in Thread,
         RenewFinish(t) \/ Classify(t) \/ (InspectExpiry(t) /\ ~ConfirmCandidate(t))
  PROVE  UNCHANGED elig \/ LostOnlyStale
<1> SUFFICES ASSUME ~CompleteQuarantined(t), ~UNCHANGED elig
             PROVE  LostOnlyStale
  BY EligibleQuarantined DEF RenewFinish, Classify, InspectExpiry
<1>1. Complete(t, "Closed", NoProof) /\ Cleared(Own(t), task[t].claim) /\ Done(t)
      /\ task[t].pc = "decide"
  BY DEF RenewFinish, Classify, InspectExpiry, supervisor, CreateCandidate, RestoreOnly
<1> PICK p \in Process : p = Own(t)
  BY Constants
<1>2. elig' = [elig EXCEPT ![p][task[t].claim] = Absent] /\ Do(t, Idle)
  BY <1>1 DEF Cleared, Done
<1>3. /\ \A q \in Process : q # p => slot'[q] = slot[q]
      /\ slot'[p] = slot[p] \/ slot'[p].lc # "AbandonedEligible"
      /\ Matches(t) => slot'[p].lc # "AbandonedEligible"
  BY <1>1, EligibleComplete
<1>4. elig \in [Process -> [Claim -> Evidence \cup {Absent}]] /\ task \in [Thread -> Tasks]
  BY DEF IInv, EvidenceOK, TasksOK
<1>5. \A q \in Process : q # p => elig'[q] = elig[q]
  BY <1>2, <1>4
<1>6. ~Matches(t) => EndsStale(t)
  BY <1>1, <1>2, <1>4 DEF EndsStale, Do
<1> QED
  BY <1>1, <1>2, <1>3, <1>5, <1>6, EligibleWorker

\* A look at the database.
LEMMA EligibleKeptByLook ==
  ASSUME IInv, NEW t \in Thread, LookAtClaim(t) \/ LookAtAttempt(t) \/ LookFails(t)
  PROVE  LostOnlyStale
<1> PICK p \in Process : p = Own(t)
  BY Constants
<1>1. TaskOK(p, task[t]) /\ task[t].pc \in {"look", "looked"}
  BY TaskHere DEF LookAtClaim, LookAtAttempt, LookFails
<1>2. (\E x : Do(t, x)) /\ UNCHANGED elig
  BY DEF LookAtClaim, LookAtAttempt, LookFails, RestoreOnly, Done, supervisor
<1>3. CASE UNCHANGED slot
  BY <1>1, <1>2, <1>3, EligibleKept
<1>4. CASE LookFails(t) /\ task[t].job # "Discover"
  <2>1. Works(task[t])
    BY <1>1, <1>4 DEF LookFails, TaskOK, Works, CheckoutAction
  <2> QED
    BY <1>2, <1>4, <2>1, EligibleKeptByWorker
<1> QED
  BY <1>3, <1>4 DEF LookAtClaim, LookAtAttempt, LookFails, registry

\* The checkout of a takeover is given back together with the evidence.
LEMMA EligibleKeptByGiveBack ==
  ASSUME IInv, NEW t \in Thread,
         task[t].pc \in {"takeover", "lost"}, GiveBackEvidence(t)
  PROVE  LostOnlyStale
<1> PICK p \in Process : p = Own(t)
  BY Constants
<1> PICK c : c = task[t].claim
  OBVIOUS
<1>1. TaskOK(p, task[t]) /\ elig \in [Process -> [Claim -> Evidence \cup {Absent}]]
  BY TaskHere DEF IInv, EvidenceOK
<1>2. Works(task[t]) /\ task[t].k.claim = c /\ c \in Claim /\ task[t].held # Absent
  BY <1>1, AbsentAssumption DEF TaskOK, Works, CheckoutAction, Used, EvidOK
<1>3. Do(t, Idle) /\ Restore(t)
  BY DEF GiveBackEvidence, Done
<1>4. \A q \in Process : q # p => slot'[q] = slot[q] /\ elig'[q] = elig[q]
  BY <1>1, <1>2, <1>3, EligibleRestore DEF GiveBackEvidence
<1>5. CASE ~Matches(t)
  <2>1. UNCHANGED <<slot, elig>>
    BY <1>3, <1>5 DEF GiveBackEvidence, Restore
  <2> QED
    BY <1>3, <2>1, EligibleKept
<1>6. CASE Matches(t)
  <2>1. elig'[p][c] # Absent
    BY <1>1, <1>2, <1>6 DEF GiveBackEvidence
  <2>2. slot'[p].claim = c
    <3> PICK e : e = slot[p]
      OBVIOUS
    <3> PICK f : f = Restored(e, task[t].k)
      OBVIOUS
    <3>1. slot \in [Process -> Entry] /\ e \in Entry
      BY DEF IInv, SlotsOK
    <3>2. e.claim = c
      BY <1>2, <1>6 DEF Matches, CheckoutMatches
    <3>3. slot' = [slot EXCEPT ![p] = f]
      BY <1>3, <1>6 DEF Restore
    <3>4. f.claim = c
      BY <3>1, <3>2 DEF Restored, Settled, Entry
    <3> QED
      BY <3>1, <3>3, <3>4
  <2> QED
    BY <1>3, <1>4, <2>1, <2>2, EligibleThread
<1> QED
  BY <1>5, <1>6

\* A confirmed candidate: its evidence is on its way.
LEMMA EligibleKeptByConfirm ==
  ASSUME IInv, NEW t \in Thread,
         task[t].job = "Inspect", task[t].pc = "decide", ConfirmCandidate(t)
  PROVE  LostOnlyStale
<1> PICK p \in Process : p = Own(t)
  BY Constants
<1> PICK o : o = task[t]
  OBVIOUS
<1> PICK c : c = o.claim
  OBVIOUS
<1> PICK cand : cand = cands[p][c]
  OBVIOUS
<1>1. TaskOK(p, o) /\ o \in Tasks
  BY TaskHere
<1>2. Works(o) /\ o.k.claim = c /\ c \in Claim
  BY <1>1 DEF TaskOK, Works, CheckoutAction, Used
<1>3. CASE CompleteQuarantined(t)
  BY <1>3, EligibleQuarantined
<1>4. CASE RestoreOnly(t)
  <2>1. Restore(t) /\ Do(t, Idle) /\ UNCHANGED elig
    BY <1>4 DEF RestoreOnly, supervisor, Done
  <2>2. /\ \A q \in Process : q # p => slot'[q] = slot[q]
        /\ slot'[p] = slot[p] \/ slot'[p].lc # "AbandonedEligible"
    BY <1>2, <2>1, EligibleRestore
  <2> QED
    BY <2>1, <2>2, EligibleKept
<1>5. CASE cand # Absent /\ UNCHANGED elig /\ Complete(t, cand.origin, NoProof) /\ Done(t)
  <2>1. cand.origin # "AbandonedEligible"
    BY <1>2, <1>5 DEF IInv, EvidenceOK, CandOK, Candidates
  <2>2. /\ \A q \in Process : q # p => slot'[q] = slot[q]
        /\ slot'[p] = slot[p] \/ slot'[p].lc # "AbandonedEligible"
    BY <1>5, <2>1, EligibleComplete
  <2> QED
    BY <1>5, <2>2, EligibleKept DEF Done
<1>6. CASE /\ UNCHANGED elig /\ Complete(t, "AbandonedEligible", NoProof)
           /\ IF Matches(t)
              THEN Do(t, [task[t] EXCEPT !.pc = "recordEligible",
                            !.held = [rev |-> cand.rev, status |-> cand.status, gen |-> cand.gen]])
              ELSE Done(t)
  <2>1. CASE ~Matches(t)
    <3>1. UNCHANGED slot /\ Do(t, Idle)
      BY <1>6, <2>1 DEF Done, Complete
    <3> QED
      BY <1>6, <3>1, EligibleKept
  <2>2. CASE Matches(t)
    <3>1. PICK x : Do(t, x) /\ x.pc = "recordEligible" /\ x.claim = c
      <4> DEFINE h == [rev |-> cand.rev, status |-> cand.status, gen |-> cand.gen]
      <4> DEFINE y == [o EXCEPT !.pc = "recordEligible", !.held = h]
      <4>1. y.pc = "recordEligible" /\ y.claim = c
        BY <1>1 DEF Tasks
      <4>2. Do(t, y)
        BY <1>6, <2>2
      <4> QED
        BY <4>1, <4>2
    <3> PICK e : e = slot[p]
      OBVIOUS
    <3> PICK f : f = Completed(e, "AbandonedEligible", NoProof)
      OBVIOUS
    <3>2. slot' = [slot EXCEPT ![p] = f] /\ slot \in [Process -> Entry] /\ e \in Entry /\ e.claim = c
      BY <1>2, <1>6, <2>2 DEF Complete, Matches, CheckoutMatches, IInv, SlotsOK
    <3>3. f.claim = c
      BY <3>2 DEF Completed, Settled, Entry
    <3>4. Carries(x, slot'[p].claim)
      BY <3>1, <3>2, <3>3 DEF Carries
    <3>5. \A q \in Process : q # p => slot'[q] = slot[q]
      BY <3>2
    <3> QED
      BY <1>6, <3>1, <3>4, <3>5, EligibleThread
  <2> QED
    BY <2>1, <2>2
<1> QED
  BY <1>3, <1>4, <1>5, <1>6 DEF ConfirmCandidate

\* The evidence is put down, taken out, put back.
LEMMA EligibleKeptByEvidence ==
  ASSUME IInv, NEW t \in Thread,
         Record(t) \/ TakeoverStart(t) \/ TakeoverCheckout(t)
  PROVE  LostOnlyStale
<1> PICK p \in Process : p = Own(t)
  BY Constants
<1> PICK o : o = task[t]
  OBVIOUS
<1> PICK e : e = slot[p]
  OBVIOUS
<1>1. /\ TaskOK(p, o) /\ o \in Tasks
      /\ elig \in [Process -> [Claim -> Evidence \cup {Absent}]]
  BY TaskHere DEF IInv, EvidenceOK
<1>3. e.lc = "AbandonedEligible" => e.claim \in Claim
  BY DEF IInv, SlotsOK, EntryOK, WellFormed, StageShape, Used, Owned
<1>4. ASSUME NEW c \in Claim, NEW h, h # Absent, o.claim = c,
             UNCHANGED slot, Do(t, Idle), elig' = [elig EXCEPT ![p][c] = h]
      PROVE  LostOnlyStale
  <2>1. \A q \in Process : q # p => elig'[q] = elig[q]
    BY <1>1, <1>4
  <2>2. ASSUME e.lc = "AbandonedEligible"
        PROVE  \/ elig'[p][e.claim] # Absent
               \/ ~Carries(o, e.claim) /\ elig'[p][e.claim] = elig[p][e.claim]
    BY <1>1, <1>3, <1>4, <2>2 DEF Carries
  <2> QED
    BY <1>4, <2>1, <2>2, EligibleThread
<1>5. CASE Record(t)
  <2>1. Do(t, Idle) /\ UNCHANGED slot /\ o.pc \in {"recordCandidate", "recordEligible"}
    BY <1>5 DEF Record, Done, registry
  <2>2. o.claim \in Claim
    BY <1>1, <2>1 DEF TaskOK, Used
  <2>3. CASE o.pc = "recordCandidate"
    <3>1. UNCHANGED elig
      BY <1>5, <2>3 DEF Record
    <3> QED
      BY <2>1, <2>3, <3>1, EligibleKept
  <2>4. CASE o.pc = "recordEligible"
    <3>1. elig' = [elig EXCEPT ![p][o.claim] = o.held] /\ o.held # Absent
      BY <1>1, <1>5, <2>4, AbsentAssumption DEF Record, TaskOK, EvidOK
    <3> QED
      BY <1>4, <2>1, <2>2, <3>1
  <2> QED
    BY <2>1, <2>3, <2>4
<1>6. CASE TakeoverStart(t)
  <2>1. PICK c \in Claim :
          /\ elig' = [elig EXCEPT ![p][c] = Absent]
          /\ Do(t, [Idle EXCEPT !.job = "Takeover", !.pc = "claiming", !.claim = c, !.held = elig[p][c]])
    BY <1>6 DEF TakeoverStart
  <2>2. PICK x : Do(t, x) /\ x.pc = "claiming" /\ x.claim = c
    <3> DEFINE y == [Idle EXCEPT !.job = "Takeover", !.pc = "claiming", !.claim = c,
                                 !.held = elig[p][c]]
    <3>1. y.pc = "claiming" /\ y.claim = c
      BY DEF Idle
    <3> QED
      BY <2>1, <3>1
  <2>3. UNCHANGED slot /\ o = Idle
    BY <1>6 DEF TakeoverStart, registry
  <2>4. ASSUME e.lc = "AbandonedEligible"
        PROVE  \/ Carries(x, e.claim)
               \/ ~Carries(o, e.claim) /\ elig'[p][e.claim] = elig[p][e.claim]
    <3>1. CASE e.claim = c
      BY <2>2, <3>1 DEF Carries
    <3>2. CASE e.claim # c
      <4>1. ~Carries(o, e.claim)
        BY <2>3 DEF Carries, Idle
      <4>2. elig'[p][e.claim] = elig[p][e.claim]
        BY <1>1, <1>3, <2>1, <2>4, <3>2
      <4> QED
        BY <4>1, <4>2
    <3> QED
      BY <3>1, <3>2
  <2>5. \A q \in Process : q # p => elig'[q] = elig[q]
    BY <1>1, <2>1
  <2> QED
    BY <2>2, <2>3, <2>4, <2>5, EligibleThread
<1>7. CASE TakeoverCheckout(t)
  <2>1. o.pc = "claiming"
    BY <1>7 DEF TakeoverCheckout
  <2>2. o.claim \in Claim /\ o.held # Absent
    BY <1>1, <2>1, AbsentAssumption DEF TaskOK, Used, EvidOK
  <2>3. CASE TakesOut(t, "Takeover") /\ UNCHANGED elig /\ \E x : Do(t, x)
    BY <2>3, EligibleTakesOut, EligibleThread DEF CheckoutAction
  <2>4. CASE elig' = [elig EXCEPT ![p][o.claim] = o.held] /\ Done(t) /\ UNCHANGED registry
    BY <1>4, <2>2, <2>4 DEF Done, registry
  <2> QED
    BY <1>7, <2>3, <2>4 DEF TakeoverCheckout
<1> QED
  BY <1>5, <1>6, <1>7

LEMMA EligibleKeptByProcess ==
  ASSUME IInv, ProcessNext \/ MonoTick \/ UNCHANGED vars
  PROVE  LostOnlyStale
<1>1. ASSUME NEW p \in Process, Start(p) PROVE LostOnlyStale
  BY <1>1, EligibleHandle DEF Start, registry, supervisor
<1>2. CASE MonoTick \/ UNCHANGED vars
  BY <1>2, EligibleHandle DEF MonoTick, vars, registry, supervisor
<1>3. ASSUME NEW p \in Process, Crash(p) PROVE LostOnlyStale
  <2>1. slot \in [Process -> Entry] /\ slot' = [slot EXCEPT ![p] = Vacant]
        /\ elig' = [elig EXCEPT ![p] = [c \in Claim |-> Absent]]
        /\ task' = [t \in Thread |-> IF Own(t) = p THEN Idle ELSE task[t]]
    BY <1>3 DEF Crash, IInv, SlotsOK, Own
  <2>2. elig \in [Process -> [Claim -> Evidence \cup {Absent}]]
    BY DEF IInv, EvidenceOK
  <2>3. Vacant.lc # "AbandonedEligible"
    BY DEF Vacant
  <2> SUFFICES ASSUME NEW q \in Process, Stranded(q)', ~Stranded(q)
               PROVE  FALSE
    BY DEF LostOnlyStale
  <2>4. slot'[q].lc = "AbandonedEligible"
    BY DEF Stranded
  <2>5. q # p /\ slot'[q] = slot[q] /\ elig'[q] = elig[q]
    BY <2>1, <2>2, <2>3, <2>4
  <2>6. \A u \in Thread : Own(u) = q => task'[u] = task[u]
    BY <2>1, <2>5
  <2> QED
    BY <2>5, <2>6 DEF Stranded, HasEvidence, Own
<1>4. ASSUME NEW p \in Process, BeginShutdown(p) PROVE LostOnlyStale
  <2> PICK e : e = slot[p]
    OBVIOUS
  <2>1. e \in Entry /\ slot \in [Process -> Entry]
    BY DEF IInv, SlotsOK
  <2> PICK f : f = DroppedUnclosed(e)
    OBVIOUS
  <2>2. f.lc # "AbandonedEligible"
    BY <2>1 DEF DroppedUnclosed, Settled, Entry
  <2>3. UNCHANGED slot \/ slot' = [slot EXCEPT ![p] = f]
    BY <1>4, <2>1 DEF BeginShutdown
  <2> QED
    BY <1>4, <2>1, <2>2, <2>3, EligibleHandle DEF BeginShutdown, supervisor
<1> QED
  BY <1>1, <1>2, <1>3, <1>4 DEF ProcessNext

\* An entry that waits for recovery loses its evidence only to a tick that comes late:
\* EvidenceNotLost, for any number of processes and threads.
THEOREM EvidenceKept == Spec => EvidenceNotLost
<1>1. ASSUME IInv, Next PROVE LostOnlyStale
  <2>1. ASSUME NEW t \in Thread,
               RenewCommit(t) \/ RenewFinish(t) \/ Classify(t) \/ TakeoverRead(t)
               \/ TakeoverCommit(t) \/ InspectExpiry(t)
        PROVE  Works(task[t])
    <3>1. TaskOK(Own(t), task[t])
      BY <1>1, TaskHere
    <3> QED
      BY <2>1, <3>1 DEF RenewCommit, RenewFinish, Classify, TakeoverRead, TakeoverCommit,
         InspectExpiry, TaskOK, Works, CheckoutAction
  <2>2. ASSUME NEW t \in Thread, RenewFinish(t) \/ Classify(t)
        PROVE  LostOnlyStale
    BY <1>1, <2>1, <2>2, EligibleClears, EligibleKeptByWorker
  <2>3. ASSUME NEW t \in Thread, InspectExpiry(t)
        PROVE  LostOnlyStale
    <3>1. CASE ConfirmCandidate(t)
      BY <1>1, <2>3, <3>1, EligibleKeptByConfirm DEF InspectExpiry
    <3>2. CASE ~ConfirmCandidate(t)
      BY <1>1, <2>1, <2>3, <3>2, EligibleClears, EligibleKeptByWorker
    <3> QED
      BY <3>1, <3>2
  <2>4. ASSUME NEW t \in Thread, RenewCommit(t)
        PROVE  LostOnlyStale
    <3>1. UNCHANGED elig
      BY <2>4 DEF RenewCommit, supervisor
    <3> QED
      BY <1>1, <2>1, <2>4, <3>1, EligibleKeptByWorker
  <2>5. ASSUME NEW t \in Thread, TakeoverRead(t)
        PROVE  LostOnlyStale
    <3>1. CASE task[t].pc = "lost" /\ GiveBackEvidence(t)
      BY <1>1, <3>1, EligibleKeptByGiveBack
    <3>2. CASE ~(task[t].pc = "lost" /\ GiveBackEvidence(t))
      <4>1. UNCHANGED elig
        BY <2>5, <3>2 DEF TakeoverRead, supervisor
      <4> QED
        BY <1>1, <2>1, <2>5, <3>2, <4>1, EligibleKeptByWorker
    <3> QED
      BY <3>1, <3>2
  <2>6. ASSUME NEW t \in Thread, TakeoverCommit(t)
        PROVE  LostOnlyStale
    <3>1. CASE GiveBackEvidence(t)
      BY <1>1, <2>6, <3>1, EligibleKeptByGiveBack DEF TakeoverCommit
    <3>2. CASE ~GiveBackEvidence(t)
      <4>1. UNCHANGED elig
        BY <2>6, <3>2 DEF TakeoverCommit, supervisor
      <4> QED
        BY <1>1, <2>1, <2>6, <3>2, <4>1, EligibleKeptByWorker
    <3> QED
      BY <3>1, <3>2
  <2>7. CASE TickNext
    BY <1>1, <2>2, <2>3, <2>4, <2>7, EligibleKeptByLook, EligibleKeptAside, EligibleKeptByEvidence
       DEF TickNext
  <2>8. CASE TakeoverNext
    BY <1>1, <2>5, <2>6, <2>8, EligibleKeptAside, EligibleKeptByEvidence DEF TakeoverNext
  <2> QED
    BY <1>1, <2>7, <2>8, EligibleKeptByHandle, EligibleKeptByProcess DEF Next
<1>2. IInv /\ [Next]_vars =>
        [\A p \in Process :
           Stranded(p)' /\ ~Stranded(p) =>
             \E t \in Thread : Own(t) = p /\ task[t].claim = slot[p].claim /\ EndsStale(t)]_vars
  BY <1>1 DEF LostOnlyStale
<1> QED
  BY <1>2, Invariance, PTL DEF Spec, EvidenceNotLost
=============================================================================
