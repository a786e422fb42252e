------------------------- MODULE SlotRegistryProofs -------------------------
(***************************************************************************)
(* The registry is type correct, keeps conflicting resources apart, keeps  *)
(* proofs sealed to their entries, lets only the holder of a token act on  *)
(* an entry and implements the abstract gate, for any resources, claims    *)
(* and bounds.                                                             *)
(*                                                                         *)
(* Every step does one of five things to the slots (SlotChange): nothing,  *)
(* a new entry in a conflict-free slot, another entry of the same          *)
(* generation, a slot freed, or shutdown.  Which one is shown action by    *)
(* action; the invariants and the refinement follow from the five.         *)
(***************************************************************************)
EXTENDS SlotRegistry, SlotEntryProofs

\* An entry as every operator leaves it.
Good(e) ==
  /\ WellFormed(e)
  /\ e.proof # NoProof =>
       e.proof.claim = e.claim /\ e.proof.gen = e.gen /\ e.claim \in OwnClaim

\* A checkout carries the proof of the entry it was made from.
CheckoutSealed(k) ==
  k.proof # NoProof =>
    k.proof.claim = k.claim /\ k.proof.gen = k.gen /\ k.claim \in OwnClaim

TokensOK ==
  /\ nextCheckout \in 0..MaxCheckout
  /\ nextExec \in 0..MaxExecution
  /\ leases \subseteq Lease
  /\ beats \subseteq [claim : Claim, gen : 1..MaxGeneration]
  /\ handles \subseteq HandleToken
  /\ checkouts \subseteq CheckoutToken
  /\ attachments \subseteq Attachment
  /\ \A k \in checkouts : CheckoutSealed(k)

\* No generation is in two slots or is still to come.
Generations ==
  /\ \A r \in Resource : slot[r].gen <= nextGen
  /\ \A r, s \in Resource : Occupied(slot[r]) /\ slot[r].gen = slot[s].gen => r = s

SlotsOK ==
  /\ slot \in [Resource -> Entry]
  /\ \A r \in Resource : Good(slot[r])
  /\ nextGen \in 0..MaxGeneration
  /\ shuttingDown \in BOOLEAN
  /\ Generations
  /\ GateExclusion

IInv == SlotsOK /\ TokensOK

Takes(r) ==
  \E e : /\ ~shuttingDown /\ ConflictFree(r)
         /\ nextGen < MaxGeneration /\ nextGen' = nextGen + 1
         /\ Good(e) /\ Occupied(e) /\ e.gen = nextGen + 1
         /\ slot' = [slot EXCEPT ![r] = e]
         /\ UNCHANGED shuttingDown

Keeps(r) ==
  \E e : /\ Occupied(slot[r])
         /\ Good(e) /\ Occupied(e) /\ e.gen = slot[r].gen
         /\ slot' = [slot EXCEPT ![r] = e]
         /\ UNCHANGED <<nextGen, shuttingDown>>

Frees(r) ==
  /\ Occupied(slot[r])
  /\ slot' = [slot EXCEPT ![r] = Vacant]
  /\ UNCHANGED <<nextGen, shuttingDown>>

Drains ==
  /\ shuttingDown' = TRUE
  /\ slot' = [r \in Resource |-> AtShutdown(slot[r])]
  /\ UNCHANGED nextGen

SlotChange ==
  \/ UNCHANGED <<slot, nextGen, shuttingDown>>
  \/ \E r \in Resource : Takes(r) \/ Keeps(r) \/ Frees(r)
  \/ Drains

----------------------------------------------------------------------------

\* The bounds are naturals, own claims are claims.
LEMMA Constants ==
  /\ MaxGeneration \in Nat /\ MaxCheckout \in Nat /\ MaxExecution \in Nat /\ MaxRevision \in Nat
  /\ OwnClaim \subseteq Claim
  /\ \A c \in Claim : ResourceOf[c] \in Resource
BY RegistryAssumption

\* A proof made of a freshly read claim is sealed.
LEMMA FreshProofSealed ==
  ASSUME NEW c \in Claim, NEW gen \in Nat \ {0}, NEW p \in FreshProofs(c, gen)
  PROVE  p \in ProofOption /\ p.claim = c /\ p.gen = gen /\ c \in OwnClaim
BY Constants DEF FreshProofs, ProofOption, Proof

\* Conflicts go both ways.
LEMMA ConflictSymmetric == \A r, s : Conflict(r, s) => Conflict(s, r)
BY DEF Conflict

\* What shutdown does to one entry.
LEMMA AtShutdownEntry ==
  ASSUME NEW e, Good(e)
  PROVE  LET f == AtShutdown(e)
         IN  Good(f) /\ f.gen = e.gen /\ (Occupied(f) <=> Occupied(e))
<1> DEFINE f == AtShutdown(e)
<1>0. WellFormed(e) /\ e \in Entry
  BY DEF Good, WellFormed
<1>1. CASE e.stage = "claimed"
  <2>1. f = [e EXCEPT !.abandoned = TRUE]
    BY <1>1 DEF AtShutdown
  <2>2. f \in Entry
    BY <1>0, <2>1, Zenon DEF Entry
  <2>3. /\ f.stage = e.stage /\ f.gen = e.gen /\ f.claim = e.claim /\ f.rt = e.rt
        /\ f.abandoned = TRUE /\ f.lc = e.lc /\ f.ck = e.ck /\ f.prev = e.prev
        /\ f.qalr = e.qalr /\ f.proof = e.proof
    BY <1>0, <2>1 DEF Entry
  <2> HIDE DEF f
  <2>4. StageShape(f)
    BY <1>0, <1>1, <2>3 DEF WellFormed, StageShape, Occupied, Owned
  <2> QED
    BY <2>2, <2>3, <2>4 DEF f, Good, WellFormed, Occupied
<1>2. CASE e.stage = "owned" /\ e.lc \in {"Live", "Exiting"}
  <2>1. f = Settled(e, "DroppedUnclosed", NoProof, FALSE) /\ Owned(e) /\ Occupied(e)
    BY <1>2 DEF AtShutdown, DroppedUnclosed, Owned, Occupied
  <2>2. "DroppedUnclosed" \in IdleLifecycle /\ NoProof \in ProofOption
    BY DEF IdleLifecycle, ProofOption
  <2> HIDE DEF f
  <2>3. WellFormed(f) /\ Owned(f) /\ f.gen = e.gen /\ f.proof = NoProof
    BY <1>0, <2>1, <2>2, SettledEntry
  <2> QED
    BY <2>1, <2>3 DEF f, Good, Owned, Occupied
<1>3. CASE ~(e.stage = "claimed") /\ ~(e.stage = "owned" /\ e.lc \in {"Live", "Exiting"})
  BY <1>3 DEF AtShutdown
<1> QED
  BY <1>1, <1>2, <1>3

\* Each of the five changes keeps the slots as they should be.
LEMMA SlotChangeKeeps ==
  ASSUME SlotsOK, SlotChange
  PROVE  SlotsOK'
<1> USE Constants
<1>1. CASE UNCHANGED <<slot, nextGen, shuttingDown>>
  BY <1>1 DEF SlotsOK, Generations, GateExclusion
<1>2. ASSUME NEW r \in Resource, Takes(r) PROVE SlotsOK'
  <2>1. PICK e : /\ ConflictFree(r) /\ nextGen < MaxGeneration /\ nextGen' = nextGen + 1
                 /\ Good(e) /\ Occupied(e) /\ e.gen = nextGen + 1
                 /\ slot' = [slot EXCEPT ![r] = e]
                 /\ UNCHANGED shuttingDown
    BY <1>2 DEF Takes
  <2>2. e \in Entry
    BY <2>1 DEF Good, WellFormed
  <2>3. \A s \in Resource : slot'[s] = IF s = r THEN e ELSE slot[s]
    BY <2>1 DEF SlotsOK
  <2>4. slot' \in [Resource -> Entry] /\ \A s \in Resource : Good(slot'[s])
    BY <2>1, <2>2, <2>3 DEF SlotsOK
  <2>5. \A s \in Resource : slot[s].gen \in Nat /\ slot[s].gen <= nextGen
    BY DEF SlotsOK, Generations, Good, WellFormed, Entry
  <2>6. Generations'
    BY <2>1, <2>3, <2>5 DEF SlotsOK, Generations
  <2>7. GateExclusion'
    BY <2>1, <2>3, ConflictSymmetric DEF SlotsOK, GateExclusion, ConflictFree
  <2> QED
    BY <2>1, <2>4, <2>6, <2>7 DEF SlotsOK
<1>3. ASSUME NEW r \in Resource, Keeps(r) PROVE SlotsOK'
  <2>1. PICK e : /\ Occupied(slot[r])
                 /\ Good(e) /\ Occupied(e) /\ e.gen = slot[r].gen
                 /\ slot' = [slot EXCEPT ![r] = e]
                 /\ UNCHANGED <<nextGen, shuttingDown>>
    BY <1>3 DEF Keeps
  <2>2. e \in Entry
    BY <2>1 DEF Good, WellFormed
  <2>3. \A s \in Resource : slot'[s] = IF s = r THEN e ELSE slot[s]
    BY <2>1 DEF SlotsOK
  <2>4. slot' \in [Resource -> Entry] /\ \A s \in Resource : Good(slot'[s])
    BY <2>1, <2>2, <2>3 DEF SlotsOK
  <2>5. Generations'
    BY <2>1, <2>3 DEF SlotsOK, Generations
  <2>6. GateExclusion'
    BY <2>1, <2>3 DEF SlotsOK, GateExclusion
  <2> QED
    BY <2>1, <2>4, <2>5, <2>6 DEF SlotsOK
<1>4. ASSUME NEW r \in Resource, Frees(r) PROVE SlotsOK'
  <2>1. Good(Vacant) /\ Vacant \in Entry /\ ~Occupied(Vacant) /\ Vacant.gen = 0
    BY VacantEntry DEF Good, WellFormed
  <2>2. \A s \in Resource : slot'[s] = IF s = r THEN Vacant ELSE slot[s]
    BY <1>4 DEF SlotsOK, Frees
  <2>3. slot' \in [Resource -> Entry] /\ \A s \in Resource : Good(slot'[s])
    BY <1>4, <2>1, <2>2 DEF SlotsOK, Frees
  <2>4. \A s \in Resource : Occupied(slot[s]) => slot[s].gen # 0
    BY DEF SlotsOK, Good, WellFormed, StageShape
  <2>5. Generations'
    BY <1>4, <2>1, <2>2, <2>4 DEF SlotsOK, Generations, Frees
  <2>6. GateExclusion'
    BY <2>1, <2>2 DEF SlotsOK, GateExclusion
  <2> QED
    BY <1>4, <2>3, <2>5, <2>6 DEF SlotsOK, Frees
<1>5. CASE Drains
  <2>1. \A s \in Resource : slot'[s] = AtShutdown(slot[s])
    BY <1>5 DEF Drains
  <2>2. \A s \in Resource : /\ Good(slot'[s]) /\ slot'[s].gen = slot[s].gen
                            /\ (Occupied(slot'[s]) <=> Occupied(slot[s]))
    BY <2>1, AtShutdownEntry DEF SlotsOK
  <2>3. slot' \in [Resource -> Entry]
    BY <1>5, <2>1, <2>2 DEF Drains, Good, WellFormed
  <2>4. Generations' /\ GateExclusion'
    BY <1>5, <2>2 DEF SlotsOK, Generations, GateExclusion, Drains
  <2> QED
    BY <1>5, <2>2, <2>3, <2>4 DEF SlotsOK, Drains
<1> QED
  BY <1>1, <1>2, <1>3, <1>4, <1>5 DEF SlotChange

----------------------------------------------------------------------------
\* What the invariant says of one entry and of the tokens.
LEMMA EntryFacts ==
  ASSUME IInv, NEW r \in Resource
  PROVE  /\ Good(slot[r]) /\ WellFormed(slot[r]) /\ slot[r] \in Entry /\ StageShape(slot[r])
         /\ slot[r].gen \in Nat /\ slot[r].gen <= nextGen
         /\ Occupied(slot[r]) => slot[r].gen \in 1..MaxGeneration
         /\ Owned(slot[r]) => Occupied(slot[r]) /\ slot[r].claim \in Claim
         /\ nextGen \in Nat /\ nextGen <= MaxGeneration
<1>1. Good(slot[r]) /\ WellFormed(slot[r]) /\ slot[r] \in Entry /\ StageShape(slot[r])
  BY DEF IInv, SlotsOK, Good, WellFormed
<1>2. slot[r].gen \in Nat /\ slot[r].gen <= nextGen
  BY <1>1 DEF IInv, SlotsOK, Generations, Entry
<1>3. nextGen \in Nat /\ nextGen <= MaxGeneration
  BY Constants DEF IInv, SlotsOK
<1>4. Occupied(slot[r]) => slot[r].gen # 0
  BY <1>1 DEF StageShape
<1>5. Owned(slot[r]) => Occupied(slot[r]) /\ slot[r].claim \in Claim
  BY <1>1 DEF StageShape, Owned, Occupied, Entry
<1> QED
  BY <1>1, <1>2, <1>3, <1>4, <1>5, Constants

\* Every action changes the slots in one of the five ways and keeps the tokens.
\* acquire (slot.rs) takes a slot that nothing conflicts with.
LEMMA AcquireStep ==
  ASSUME IInv, NEW r \in Resource, NEW kind \in {"mutation", "recovery-decision"}, Acquire(r, kind)
  PROVE  SlotChange /\ TokensOK'
<1> DEFINE e == LocalPending(nextGen + 1, kind)
<1>1. nextGen + 1 \in Nat \ {0} /\ nextGen + 1 \in 1..MaxGeneration
  BY EntryFacts, Constants DEF Acquire
<1>2. WellFormed(e) /\ Occupied(e) /\ e.gen = nextGen + 1 /\ e.proof = NoProof
  BY <1>1, LocalPendingEntry
<1>3. slot' = [slot EXCEPT ![r] = e]
  BY DEF Acquire
<1> HIDE DEF e
<1>4. Takes(r)
  BY <1>2, <1>3 DEF Takes, Acquire, Good
<1>5. [res |-> r, gen |-> nextGen + 1, claimed |-> FALSE] \in Lease
  BY <1>1 DEF Lease
<1> QED
  BY <1>4, <1>5 DEF SlotChange, Acquire, IInv, TokensOK, CheckoutSealed

\* promote_claimed keeps the pending entry's slot and generation; only its lease changes.
LEMMA PromoteStep ==
  ASSUME IInv, NEW l \in leases, NEW c \in Claim, PromoteClaimed(l, c)
  PROVE  SlotChange /\ TokensOK'
<1> DEFINE e == ClaimedEntry(slot[l.res], c, shuttingDown)
<1>1. l.res \in Resource /\ l.gen \in 1..MaxGeneration /\ [l EXCEPT !.claimed = TRUE] \in Lease
  BY DEF IInv, TokensOK, Lease
<1>2. WellFormed(slot[l.res]) /\ slot[l.res].stage = "pending" /\ shuttingDown \in BOOLEAN
  BY <1>1, EntryFacts DEF PromoteClaimed, IInv, SlotsOK
<1>3. WellFormed(e) /\ Occupied(e) /\ e.gen = slot[l.res].gen /\ e.proof = NoProof
  BY <1>2, ClaimedEntryShape
<1>4. slot' = [slot EXCEPT ![l.res] = e]
  BY DEF PromoteClaimed
<1> HIDE DEF e
<1>5. Keeps(l.res)
  BY <1>2, <1>3, <1>4 DEF Keeps, PromoteClaimed, Good, Occupied, counters
<1>6. [claim |-> c, gen |-> l.gen] \in [claim : Claim, gen : 1..MaxGeneration]
  BY <1>1
<1> QED
  BY <1>1, <1>5, <1>6 DEF SlotChange, PromoteClaimed, IInv, TokensOK, CheckoutSealed, counters

\* A release frees its slot or changes nothing.
LEMMA ReleasedChange ==
  ASSUME NEW r \in Resource, NEW gen, slot' = Released(r, gen),
         UNCHANGED <<nextGen, shuttingDown>>
  PROVE  SlotChange
BY DEF Released, SlotChange, Frees

\* A lease frees at most the entry of its own generation.
LEMMA ReleaseStep ==
  ASSUME IInv, NEW l \in leases, Release(l)
  PROVE  SlotChange /\ TokensOK'
<1>1. l.res \in Resource
  BY DEF IInv, TokensOK, Lease
<1>2. SlotChange
  BY <1>1, ReleasedChange DEF Release, counters
<1> QED
  BY <1>2 DEF Release, IInv, TokensOK, CheckoutSealed, counters

\* Releasing by operation frees at most one slot: no generation is in two slots.
LEMMA ReleaseByOperationStep ==
  ASSUME IInv, NEW b \in beats, ReleaseByOperation(b)
  PROVE  SlotChange /\ TokensOK'
<1> DEFINE Ended(r) ==
      slot[r].stage = "claimed" /\ slot[r].claim = b.claim /\ slot[r].gen = b.gen
<1>1. slot' = [r \in Resource |-> IF Ended(r) THEN Vacant ELSE slot[r]]
  BY DEF ReleaseByOperation
<1>2. slot \in [Resource -> Entry] /\ UNCHANGED <<nextGen, shuttingDown>>
  BY DEF IInv, SlotsOK, ReleaseByOperation, counters
<1>3. ASSUME \A r \in Resource : ~Ended(r) PROVE SlotChange
  <2>1. slot' = [r \in Resource |-> slot[r]]
    BY <1>1, <1>3
  <2>2. slot' = slot
    BY <1>2, <2>1
  <2> QED
    BY <1>2, <2>2 DEF SlotChange
<1>4. ASSUME NEW r \in Resource, Ended(r) PROVE SlotChange
  <2>1. \A s \in Resource : Ended(s) => s = r
    BY <1>4 DEF IInv, SlotsOK, Generations, Occupied
  <2>2. slot' = [slot EXCEPT ![r] = Vacant]
    BY <1>1, <1>2, <1>4, <2>1
  <2> QED
    BY <1>2, <1>4, <2>2 DEF SlotChange, Frees, Occupied
<1>5. SlotChange
  BY <1>3, <1>4
<1> QED
  BY <1>5 DEF ReleaseByOperation, IInv, TokensOK, CheckoutSealed, counters

\* A registered entry takes its slot.
LEMMA RegistrationChange ==
  ASSUME IInv, NEW r \in Resource, NEW c \in Claim, NEW rt \in Nat, NEW lc \in IdleLifecycle,
         nextGen < MaxGeneration, ~shuttingDown, ConflictFree(r),
         nextGen' = nextGen + 1, UNCHANGED shuttingDown,
         slot' = [slot EXCEPT ![r] = RuntimeOwned(nextGen + 1, c, rt, lc)]
  PROVE  SlotChange /\ nextGen + 1 \in 1..MaxGeneration
<1> DEFINE e == RuntimeOwned(nextGen + 1, c, rt, lc)
<1>1. nextGen + 1 \in Nat \ {0} /\ nextGen + 1 \in 1..MaxGeneration
  BY EntryFacts, Constants
<1>2. WellFormed(e) /\ Occupied(e) /\ e.gen = nextGen + 1 /\ e.proof = NoProof
  BY <1>1, RuntimeOwnedEntry
<1> HIDE DEF e
<1>3. slot' = [slot EXCEPT ![r] = e]
  BY DEF e
<1>4. Takes(r)
  BY <1>2, <1>3 DEF Takes, Good
<1> QED
  BY <1>1, <1>4 DEF SlotChange

\* register_initialized_runtime_handle takes a conflict-free slot, as acquire does.
LEMMA RegisterHandleStep ==
  ASSUME IInv, NEW r \in Resource, NEW c \in Claim, RegisterHandle(r, c)
  PROVE  SlotChange /\ TokensOK'
<1>1. HandleRuntime \in Nat /\ "Live" \in IdleLifecycle
  BY DEF HandleRuntime, IdleLifecycle
<1>2. SlotChange /\ nextGen + 1 \in 1..MaxGeneration
  BY <1>1, RegistrationChange DEF RegisterHandle
<1>3. Handle(r, nextGen + 1, "registered") \in HandleToken
  BY <1>2 DEF Handle, HandleToken
<1> QED
  BY <1>2, <1>3 DEF RegisterHandle, IInv, TokensOK, CheckoutSealed

\* register_durable_sentinel takes a conflict-free slot whatever lifecycle it is given.
LEMMA RegisterSentinelStep ==
  ASSUME IInv, NEW c \in Claim, NEW lc \in IdleLifecycle, RegisterSentinel(c, lc)
  PROVE  SlotChange /\ TokensOK'
<1>1. SentinelRuntime \in Nat /\ ResourceOf[c] \in Resource
  BY Constants DEF SentinelRuntime
<1>2. SlotChange /\ nextGen + 1 \in 1..MaxGeneration
  BY <1>1, RegistrationChange DEF RegisterSentinel
<1>3. Handle(ResourceOf[c], nextGen + 1, "sentinel") \in HandleToken
  BY <1>1, <1>2 DEF Handle, HandleToken
<1> QED
  BY <1>2, <1>3 DEF RegisterSentinel, IInv, TokensOK, CheckoutSealed

----------------------------------------------------------------------------
\* Steps of a handle keep the other tokens and all counters.
LEMMA HandleTokens ==
  ASSUME IInv, Rest, handles' \subseteq HandleToken
  PROVE  TokensOK' /\ UNCHANGED <<nextGen, shuttingDown>>
BY DEF Rest, IInv, TokensOK, CheckoutSealed, counters

\* A handle that moves on stays a handle of the same resource and generation.
LEMMA HandleBecomes ==
  ASSUME IInv, NEW h \in handles, Rest
  PROVE  /\ \A pc \in {"registered", "sentinel", "live", "beating", "closing",
                       "exiting", "removing"} : Become(h, pc) => TokensOK'
         /\ Gone(h) => TokensOK'
         /\ UNCHANGED handles => TokensOK'
         /\ UNCHANGED <<nextGen, shuttingDown>>
<1>1. h \in HandleToken /\ handles \subseteq HandleToken
  BY DEF IInv, TokensOK
<1>2. \A pc \in {"registered", "sentinel", "live", "beating", "closing",
                 "exiting", "removing"} : [h EXCEPT !.pc = pc] \in HandleToken
  BY <1>1 DEF HandleToken
<1> QED
  BY <1>1, <1>2, HandleTokens DEF Become, Gone, Rest, counters

\* An owned entry settled with a sealed proof, or with none, stays in its slot.
LEMMA SettledChange ==
  ASSUME IInv, NEW r \in Resource, Owned(slot[r]),
         NEW lc \in IdleLifecycle, NEW proof \in ProofOption, NEW qalr \in BOOLEAN,
         proof # NoProof =>
           proof.claim = slot[r].claim /\ proof.gen = slot[r].gen /\ slot[r].claim \in OwnClaim,
         slot' = [slot EXCEPT ![r] = Settled(slot[r], lc, proof, qalr)],
         UNCHANGED <<nextGen, shuttingDown>>
  PROVE  SlotChange
<1> DEFINE e == Settled(slot[r], lc, proof, qalr)
<1>1. WellFormed(slot[r]) /\ Occupied(slot[r])
  BY EntryFacts
<1>2. /\ WellFormed(e) /\ Owned(e) /\ e.gen = slot[r].gen /\ e.claim = slot[r].claim
      /\ e.proof = proof
  BY <1>1, SettledEntry
<1>3. slot' = [slot EXCEPT ![r] = e]
  OBVIOUS
<1> HIDE DEF e
<1>4. Keeps(r)
  BY <1>1, <1>2, <1>3 DEF Keeps, Good, Owned, Occupied
<1> QED
  BY <1>4 DEF SlotChange

\* transition_runtime_handle, the quarantine and the drop are settlings.
LEMMA TransitionChange ==
  ASSUME IInv, NEW r \in Resource, Owned(slot[r]), UNCHANGED <<nextGen, shuttingDown>>,
         NEW target \in IdleLifecycle,
         \/ slot' = [slot EXCEPT ![r] = Transitioned(slot[r], target)]
         \/ slot' = [slot EXCEPT ![r] = QuarantinedInvalid(slot[r])]
         \/ slot' = [slot EXCEPT ![r] = DroppedUnclosed(slot[r])]
  PROVE  SlotChange
<1> DEFINE p == IF target \in ProoflessLifecycle THEN NoProof ELSE slot[r].proof
<1>1. Good(slot[r]) /\ slot[r].proof \in ProofOption
  BY EntryFacts DEF Entry, ProofOption
<1>2. /\ p \in ProofOption
      /\ p # NoProof =>
           p.claim = slot[r].claim /\ p.gen = slot[r].gen /\ slot[r].claim \in OwnClaim
  BY <1>1 DEF Good, ProofOption
<1>3. /\ "Quarantined" \in IdleLifecycle /\ "DroppedUnclosed" \in IdleLifecycle
      /\ NoProof \in ProofOption
  BY DEF IdleLifecycle, ProofOption
<1> HIDE DEF p
<1>4. CASE slot' = [slot EXCEPT ![r] = Transitioned(slot[r], target)]
  <2>1. slot' = [slot EXCEPT ![r] = Settled(slot[r], target, p, FALSE)]
    BY <1>4 DEF Transitioned, p
  <2> QED
    BY <1>2, <2>1, SettledChange
<1>5. CASE slot' = [slot EXCEPT ![r] = QuarantinedInvalid(slot[r])]
  <2>1. slot' = [slot EXCEPT ![r] = Settled(slot[r], "Quarantined", NoProof, TRUE)]
    BY <1>5 DEF QuarantinedInvalid
  <2> QED
    BY <1>3, <2>1, SettledChange
<1>6. CASE slot' = [slot EXCEPT ![r] = DroppedUnclosed(slot[r])]
  <2>1. slot' = [slot EXCEPT ![r] = Settled(slot[r], "DroppedUnclosed", NoProof, FALSE)]
    BY <1>6 DEF DroppedUnclosed
  <2> QED
    BY <1>3, <2>1, SettledChange
<1> QED
  BY <1>4, <1>5, <1>6

\* A sealed proof put into an owned entry keeps it in its slot.
LEMMA SealedChange ==
  ASSUME IInv, NEW r \in Resource, Owned(slot[r]),
         NEW proof \in FreshProofs(slot[r].claim, slot[r].gen),
         slot' = [slot EXCEPT ![r] = Sealed(slot[r], proof)],
         UNCHANGED <<nextGen, shuttingDown>>
  PROVE  SlotChange
<1> DEFINE e == Sealed(slot[r], proof)
<1>1. /\ WellFormed(slot[r]) /\ Occupied(slot[r]) /\ slot[r].claim \in Claim
      /\ slot[r].gen \in Nat \ {0}
  BY EntryFacts, Constants
<1>2. /\ proof \in ProofOption /\ proof.claim = slot[r].claim
      /\ proof.gen = slot[r].gen /\ slot[r].claim \in OwnClaim
  BY <1>1, FreshProofSealed
<1>3. /\ WellFormed(e) /\ Owned(e) /\ e.gen = slot[r].gen /\ e.claim = slot[r].claim
      /\ e.proof = proof
  BY <1>1, <1>2, SealedEntry
<1>4. slot' = [slot EXCEPT ![r] = e]
  OBVIOUS
<1> HIDE DEF e
<1>5. Keeps(r)
  BY <1>1, <1>2, <1>3, <1>4 DEF Keeps, Good, Owned, Occupied
<1> QED
  BY <1>5 DEF SlotChange

\* An entry that is settled and moves to another settled lifecycle.
LEMMA MovedChange ==
  ASSUME IInv, NEW r \in Resource, Owned(slot[r]), slot[r].lc \in IdleLifecycle,
         NEW lc \in IdleLifecycle,
         slot' = [slot EXCEPT ![r] = Moved(slot[r], lc)],
         UNCHANGED <<nextGen, shuttingDown>>
  PROVE  SlotChange
<1> DEFINE e == Moved(slot[r], lc)
<1>1. Good(slot[r]) /\ WellFormed(slot[r]) /\ Occupied(slot[r])
  BY EntryFacts
<1>2. /\ WellFormed(e) /\ Owned(e) /\ e.gen = slot[r].gen /\ e.claim = slot[r].claim
      /\ e.proof = slot[r].proof
  BY <1>1, MovedEntry
<1>3. slot' = [slot EXCEPT ![r] = e]
  OBVIOUS
<1> HIDE DEF e
<1>4. Keeps(r)
  BY <1>1, <1>2, <1>3 DEF Keeps, Good, Owned, Occupied
<1> QED
  BY <1>4 DEF SlotChange

\* A handle sits on a resource and its entry is an owned one.
LEMMA HandleFacts ==
  ASSUME IInv, NEW h \in handles
  PROVE  /\ h.res \in Resource /\ h.gen \in 1..MaxGeneration
         /\ Holds(h) => Owned(slot[h.res]) /\ slot[h.res].gen = h.gen
         /\ \A pc \in {"registered", "sentinel", "live", "beating", "closing",
                       "exiting", "removing"} : [h EXCEPT !.pc = pc] \in HandleToken
BY DEF IInv, TokensOK, HandleToken, Holds

\* Installing a proof seals it to its entry, or the entry is released or quarantined.
LEMMA InstallProofStep ==
  ASSUME IInv, NEW h \in handles, InstallProof(h)
  PROVE  SlotChange /\ TokensOK'
<1> DEFINE r == h.res
<1>1. Rest /\ UNCHANGED <<nextGen, shuttingDown>>
  BY DEF InstallProof, Rest, counters
<1>2. r \in Resource /\ (Holds(h) => Owned(slot[r]) /\ slot[r].gen = h.gen)
  BY HandleFacts
<1>3. TokensOK'
  BY <1>1, HandleBecomes DEF InstallProof
<1>4. ASSUME Holds(h), NEW proof \in FreshProofs(slot[r].claim, h.gen),
             slot' = [slot EXCEPT ![r] = Sealed(slot[r], proof)]
      PROVE  SlotChange
  BY <1>1, <1>2, <1>4, SealedChange
<1>5. ASSUME slot' = Released(r, h.gen) PROVE SlotChange
  BY <1>1, <1>2, <1>5, ReleasedChange
<1>6. ASSUME Holds(h), slot' = [slot EXCEPT ![r] = Transitioned(slot[r], "Quarantined")]
      PROVE  SlotChange
  <2>1. "Quarantined" \in IdleLifecycle
    BY DEF IdleLifecycle
  <2> QED
    BY <1>1, <1>2, <1>6, <2>1, TransitionChange
<1>7. ASSUME slot' = slot PROVE SlotChange
  BY <1>1, <1>7 DEF SlotChange
<1> QED
  BY <1>3, <1>4, <1>5, <1>6, <1>7 DEF InstallProof

\* A snapshot leaves the slots alone and remembers a revision.
LEMMA TakeSnapshotStep ==
  ASSUME IInv, NEW h \in handles, TakeSnapshot(h)
  PROVE  SlotChange /\ TokensOK'
<1>1. Rest /\ UNCHANGED <<slot, nextGen, shuttingDown>>
  BY DEF TakeSnapshot, Rest, counters
<1>2. h \in HandleToken /\ h.res \in Resource /\ handles \subseteq HandleToken
  BY HandleFacts DEF IInv, TokensOK
<1>3. slot[h.res].proof.rev \in Nat
  BY <1>2, EntryFacts DEF TakeSnapshot, SnapshotAllowed, Entry, Proof, NoProof
<1>4. [h EXCEPT !.pc = "beating", !.seen = slot[h.res].proof.rev] \in HandleToken
  BY <1>2, <1>3, Zenon DEF HandleToken
<1>5. handles' \subseteq HandleToken
  BY <1>2, <1>4 DEF TakeSnapshot
<1> QED
  BY <1>1, <1>5, HandleTokens DEF SlotChange

\* A finished heartbeat replaces the proof by a sealed one, drops it, or leaves it.
LEMMA FinishHeartbeatStep ==
  ASSUME IInv, NEW h \in handles, FinishHeartbeat(h)
  PROVE  SlotChange /\ TokensOK'
<1> DEFINE r == h.res
<1>1. Rest /\ UNCHANGED <<nextGen, shuttingDown>> /\ Become(h, "live")
  BY DEF FinishHeartbeat, Rest, counters
<1>2. r \in Resource /\ (Holds(h) => Owned(slot[r]) /\ slot[r].gen = h.gen)
  BY HandleFacts
<1>3. TokensOK'
  BY <1>1, HandleBecomes
<1>4. ASSUME Holds(h), NEW proof \in FreshProofs(slot[r].claim, h.gen),
             slot' = [slot EXCEPT ![r] = Sealed(slot[r], proof)]
      PROVE  SlotChange
  BY <1>1, <1>2, <1>4, SealedChange
<1>5. ASSUME Holds(h), slot' = [slot EXCEPT ![r] = QuarantinedInvalid(slot[r])]
      PROVE  SlotChange
  <2>1. "Quarantined" \in IdleLifecycle
    BY DEF IdleLifecycle
  <2> QED
    BY <1>1, <1>2, <1>5, <2>1, TransitionChange
<1>6. ASSUME slot' = slot PROVE SlotChange
  BY <1>1, <1>6 DEF SlotChange
<1> QED
  BY <1>3, <1>4, <1>5, <1>6 DEF FinishHeartbeat

\* Dropping a handle settles its entry or, with the lock contended, nothing.
LEMMA DropHandleStep ==
  ASSUME IInv, NEW h \in handles, DropHandle(h)
  PROVE  SlotChange /\ TokensOK'
<1> DEFINE r == h.res
<1>1. Rest /\ UNCHANGED <<nextGen, shuttingDown>> /\ Gone(h)
  BY DEF DropHandle, Rest, counters
<1>2. r \in Resource /\ (Holds(h) => Owned(slot[r]))
  BY HandleFacts
<1>3. TokensOK'
  BY <1>1, HandleBecomes
<1>4. ASSUME Holds(h), slot' = [slot EXCEPT ![r] = DroppedUnclosed(slot[r])]
      PROVE  SlotChange
  <2>1. "DroppedUnclosed" \in IdleLifecycle
    BY DEF IdleLifecycle
  <2> QED
    BY <1>1, <1>2, <1>4, <2>1, TransitionChange
<1>5. ASSUME slot' = slot PROVE SlotChange
  BY <1>1, <1>5 DEF SlotChange
<1> QED
  BY <1>3, <1>4, <1>5 DEF DropHandle

\* quarantine_after_unknown keeps the entry in its slot.
LEMMA QuarantineAfterUnknownStep ==
  ASSUME IInv, NEW h \in handles, QuarantineAfterUnknown(h)
  PROVE  SlotChange /\ TokensOK'
<1>1. Rest /\ UNCHANGED handles /\ "Quarantined" \in IdleLifecycle
  BY DEF QuarantineAfterUnknown, IdleLifecycle
<1>2. TokensOK' /\ UNCHANGED <<nextGen, shuttingDown>>
  BY <1>1, HandleBecomes
<1> QED
  BY <1>1, <1>2, HandleFacts, TransitionChange DEF QuarantineAfterUnknown

\* The steps of a close keep the entry, until the last one frees it.
LEMMA CloseStep ==
  ASSUME IInv, NEW h \in handles,
         CloseBegin(h) \/ CloseSnapshot(h) \/ CloseCheckTerminal(h) \/ CloseReleaseTerminal(h)
  PROVE  SlotChange /\ TokensOK'
<1> DEFINE r == h.res
<1>1. Rest /\ UNCHANGED <<nextGen, shuttingDown>>
  BY DEF CloseBegin, CloseSnapshot, CloseCheckTerminal, CloseReleaseTerminal, Rest, counters
<1>2. r \in Resource /\ (Holds(h) => Owned(slot[r]))
  BY HandleFacts
<1>3. TokensOK'
  BY <1>1, HandleBecomes
     DEF CloseBegin, CloseSnapshot, CloseCheckTerminal, CloseReleaseTerminal
<1>4. "Exiting" \in IdleLifecycle
  BY DEF IdleLifecycle
<1>5. CASE CloseBegin(h)
  BY <1>1, <1>2, <1>3, <1>4, <1>5, TransitionChange DEF CloseBegin
<1>6. CASE CloseSnapshot(h)
  <2>1. CASE slot' = slot
    BY <1>1, <1>3, <2>1 DEF SlotChange
  <2>2. CASE Holds(h) /\ slot' = [slot EXCEPT ![r] = QuarantinedInvalid(slot[r])]
    BY <1>1, <1>2, <1>3, <1>4, <2>2, TransitionChange
  <2> QED
    BY <1>6, <2>1, <2>2 DEF CloseSnapshot
<1>7. CASE CloseCheckTerminal(h)
  BY <1>1, <1>3, <1>7 DEF CloseCheckTerminal, SlotChange
<1>8. CASE CloseReleaseTerminal(h)
  BY <1>1, <1>2, <1>3, <1>8, ReleasedChange DEF CloseReleaseTerminal
<1> QED
  BY <1>5, <1>6, <1>7, <1>8

\* A close that is not terminal keeps the entry in its slot.
LEMMA CloseAsStep ==
  ASSUME IInv, NEW h \in handles, NEW target \in IdleLifecycle, CloseAs(h, target)
  PROVE  SlotChange /\ TokensOK'
<1>1. Rest /\ Gone(h)
  BY DEF CloseAs
<1>2. TokensOK' /\ UNCHANGED <<nextGen, shuttingDown>>
  BY <1>1, HandleBecomes
<1> QED
  BY <1>2, HandleFacts, TransitionChange DEF CloseAs

----------------------------------------------------------------------------
\* Taking a checkout away leaves the other tokens as they were.
LEMMA CheckoutGone ==
  ASSUME IInv, NEW k \in checkouts, checkouts' = checkouts \ {k},
         UNCHANGED nextCheckout, Unheld
  PROVE  TokensOK' /\ UNCHANGED <<nextGen, shuttingDown>>
BY DEF Unheld, IInv, TokensOK, CheckoutSealed

\* A checkout that matches an entry is one of that entry.
LEMMA CheckoutFacts ==
  ASSUME IInv, NEW k \in checkouts
  PROVE  /\ k.res \in Resource /\ k.gen \in 1..MaxGeneration /\ k.claim \in Claim
         /\ k.prev \in IdleLifecycle /\ k.proof \in ProofOption /\ k.qalr \in BOOLEAN
         /\ CheckoutSealed(k)
         /\ CheckoutMatches(slot[k.res], k) =>
              /\ Owned(slot[k.res]) /\ slot[k.res].gen = k.gen /\ slot[k.res].claim = k.claim
BY DEF IInv, TokensOK, CheckoutToken, CheckoutMatches, ProofOption

\* A checkout takes a sealed proof out with it and keeps the entry in its slot.
LEMMA CheckoutStepOK ==
  ASSUME IInv, NEW c \in Claim, NEW action \in CheckoutAction, Checkout(c, action)
  PROVE  SlotChange /\ TokensOK'
<1>1. PICK r \in LeaseOf(c) :
        /\ CheckoutAllowed(slot[r], action)
        /\ slot' = [slot EXCEPT ![r] = CheckedOut(slot[r], action, nextCheckout + 1)]
        /\ checkouts' = checkouts \cup {CheckoutOf(r, slot[r], action, nextCheckout + 1)}
  BY DEF Checkout
<1>2. /\ r \in Resource /\ Owned(slot[r]) /\ nextCheckout + 1 \in 1..MaxCheckout
      /\ nextCheckout + 1 \in Nat \ {0}
      /\ nextCheckout' \in 0..MaxCheckout /\ UNCHANGED <<nextGen, shuttingDown>>
  BY <1>1, Constants DEF LeaseOf, Checkout, IInv, TokensOK, Unheld
<1>3. /\ Good(slot[r]) /\ WellFormed(slot[r]) /\ slot[r] \in Entry /\ Occupied(slot[r])
      /\ slot[r].gen \in 1..MaxGeneration /\ slot[r].claim \in Claim
  BY <1>2, EntryFacts
<1>4. SlotChange
  <2> DEFINE e == CheckedOut(slot[r], action, nextCheckout + 1)
  <2>1. WellFormed(e) /\ Owned(e) /\ e.gen = slot[r].gen /\ e.proof = NoProof
    BY <1>1, <1>2, <1>3, CheckedOutEntry
  <2>2. slot' = [slot EXCEPT ![r] = e]
    BY <1>1
  <2> HIDE DEF e
  <2>3. Keeps(r)
    BY <1>2, <1>3, <2>1, <2>2 DEF Keeps, Good, Owned, Occupied
  <2> QED
    BY <1>2, <2>3 DEF SlotChange
<1>5. slot[r].lc \in IdleLifecycle
  BY <1>1 DEF CheckoutAllowed, CheckoutAction, IdleLifecycle
<1> DEFINE k == CheckoutOf(r, slot[r], action, nextCheckout + 1)
<1>6. k \in CheckoutToken
  BY <1>2, <1>3, <1>5 DEF CheckoutOf, CheckoutToken, Entry
<1>7. CheckoutSealed(k)
  BY <1>3 DEF CheckoutSealed, CheckoutOf, Good
<1> HIDE DEF k
<1>8. checkouts' = checkouts \cup {k}
  BY <1>1 DEF k
<1>9. \A m \in checkouts' : m \in CheckoutToken /\ CheckoutSealed(m)
  BY <1>6, <1>7, <1>8 DEF IInv, TokensOK
<1>10. (\A m \in checkouts : CheckoutSealed(m))'
  BY <1>9 DEF CheckoutSealed
<1> QED
  BY <1>2, <1>4, <1>9, <1>10 DEF Checkout, Unheld, IInv, TokensOK

\* A matching checkout puts back a proof of the entry it was taken from.
LEMMA RestoreCheckoutStep ==
  ASSUME IInv, NEW k \in checkouts, RestoreCheckout(k)
  PROVE  SlotChange /\ TokensOK'
<1>1. TokensOK' /\ UNCHANGED <<nextGen, shuttingDown>>
  BY CheckoutGone DEF RestoreCheckout
<1>2. CASE CheckoutMatches(slot[k.res], k)
  <2>1. slot' = [slot EXCEPT ![k.res] = Settled(slot[k.res], k.prev, k.proof, k.qalr)]
    BY <1>2 DEF RestoreCheckout, Restored
  <2> QED
    BY <1>1, <1>2, <2>1, CheckoutFacts, SettledChange DEF CheckoutSealed
<1>3. CASE ~CheckoutMatches(slot[k.res], k)
  BY <1>1, <1>3 DEF RestoreCheckout, SlotChange
<1> QED
  BY <1>2, <1>3

\* A matching completion settles the entry with a sealed proof, or frees the slot.
LEMMA CompleteCheckoutStep ==
  ASSUME IInv, NEW k \in checkouts, NEW target \in IdleLifecycle \cup {"Closed"},
         CompleteCheckout(k, target)
  PROVE  SlotChange /\ TokensOK'
<1>1. TokensOK' /\ UNCHANGED <<nextGen, shuttingDown>>
  BY CheckoutGone DEF CompleteCheckout
<1> DEFINE r == k.res
<1>2. PICK proof \in FreshProofs(k.claim, k.gen) \cup {NoProof} :
        slot' = IF ~CheckoutMatches(slot[r], k) THEN slot
                ELSE IF target = "Closed" THEN [slot EXCEPT ![r] = Vacant]
                ELSE [slot EXCEPT ![r] = Completed(slot[r], target, proof)]
  BY DEF CompleteCheckout
<1>3. CASE ~CheckoutMatches(slot[r], k)
  BY <1>1, <1>2, <1>3 DEF SlotChange
<1>4. CASE CheckoutMatches(slot[r], k) /\ target = "Closed"
  BY <1>1, <1>2, <1>4, CheckoutFacts DEF SlotChange, Frees, Owned, Occupied
<1>5. CASE CheckoutMatches(slot[r], k) /\ target # "Closed"
  <2>1. slot' = [slot EXCEPT ![r] = Settled(slot[r], target, proof, FALSE)]
    BY <1>2, <1>5 DEF Completed
  <2>2. /\ r \in Resource /\ Owned(slot[r]) /\ slot[r].gen = k.gen /\ slot[r].claim = k.claim
        /\ k.claim \in Claim /\ k.gen \in Nat \ {0}
    BY <1>5, CheckoutFacts, Constants
  <2>3. /\ proof \in ProofOption
        /\ proof # NoProof => proof.claim = k.claim /\ proof.gen = k.gen /\ k.claim \in OwnClaim
    BY <2>2, FreshProofSealed DEF ProofOption
  <2>4. target \in IdleLifecycle
    BY <1>5
  <2> HIDE DEF r
  <2> QED
    BY <1>1, <2>1, <2>2, <2>3, <2>4, SettledChange
<1> QED
  BY <1>3, <1>4, <1>5

\* An owned entry that takes on another claim, with that claim's proof or none.
LEMMA RekeyedChange ==
  ASSUME IInv, NEW r \in Resource, Owned(slot[r]), NEW lc \in IdleLifecycle,
         NEW c \in Claim, NEW rt \in Nat, NEW proof \in ProofOption,
         proof # NoProof => proof.claim = c /\ proof.gen = slot[r].gen /\ c \in OwnClaim,
         slot' = [slot EXCEPT ![r] = Rekeyed(Settled(slot[r], lc, proof, FALSE), c, rt)],
         UNCHANGED <<nextGen, shuttingDown>>
  PROVE  SlotChange
<1> DEFINE e == Settled(slot[r], lc, proof, FALSE)
           f == Rekeyed(e, c, rt)
<1>1. WellFormed(slot[r]) /\ Occupied(slot[r])
  BY EntryFacts
<1>2. WellFormed(e) /\ Owned(e) /\ e.gen = slot[r].gen /\ e.proof = proof
  BY <1>1, SettledEntry
<1>3. slot' = [slot EXCEPT ![r] = f]
  OBVIOUS
<1> HIDE DEF e
<1>4. WellFormed(f) /\ Owned(f) /\ f.gen = e.gen /\ f.claim = c /\ f.proof = e.proof
  BY <1>2, RekeyedEntry
<1> HIDE DEF f
<1>5. Keeps(r)
  BY <1>1, <1>2, <1>3, <1>4 DEF Keeps, Good, Owned, Occupied
<1> QED
  BY <1>5 DEF SlotChange

\* complete_recovery_takeover_checkout moves the entry to a claim of this process.
LEMMA CompleteTakeoverStep ==
  ASSUME IInv, NEW k \in checkouts, NEW c \in Claim, NEW target \in IdleLifecycle,
         CompleteTakeover(k, target, c)
  PROVE  SlotChange /\ TokensOK'
<1>1. TokensOK' /\ UNCHANGED <<nextGen, shuttingDown>>
  BY CheckoutGone DEF CompleteTakeover
<1>2. CASE CheckoutMatches(slot[k.res], k)
  <2>1. slot' = [slot EXCEPT ![k.res] =
                   Rekeyed(Settled(slot[k.res], target, NoProof, FALSE), c, slot[k.res].rt)]
    BY <1>2 DEF CompleteTakeover, TakenOver
  <2>2. NoProof \in ProofOption /\ slot[k.res].rt \in Nat
    BY CheckoutFacts, EntryFacts DEF ProofOption, Entry
  <2> QED
    BY <1>1, <1>2, <2>1, <2>2, CheckoutFacts, RekeyedChange
<1>3. CASE ~CheckoutMatches(slot[k.res], k)
  BY <1>1, <1>3 DEF CompleteTakeover, SlotChange
<1> QED
  BY <1>2, <1>3

----------------------------------------------------------------------------
\* Attaching and quarantining recovery ownership move a settled entry.
LEMMA RecoveryStep ==
  ASSUME IInv, NEW r \in Resource,
         AttachCommitted(r) \/ QuarantineCommitted(r) \/ QuarantineOwned(r)
  PROVE  SlotChange /\ TokensOK'
<1>1. /\ {"RecoveryOwnershipCommittedButUnattached", "RecoveryOwned",
          "RecoveryTakeoverQuarantined"} \subseteq IdleLifecycle
  BY DEF IdleLifecycle
<1>2. PICK from \in IdleLifecycle, to \in IdleLifecycle : MoveRecovery(r, from, to)
  BY <1>1 DEF AttachCommitted, QuarantineCommitted, QuarantineOwned
<1>3. TokensOK' /\ UNCHANGED <<nextGen, shuttingDown>>
  BY <1>2 DEF MoveRecovery, counters, tokens, IInv, TokensOK, CheckoutSealed
<1> QED
  BY <1>2, <1>3, MovedChange DEF MoveRecovery

\* An attached execution rekeys the entry with a proof of its own claim.
LEMMA AttachExecutionStep ==
  ASSUME IInv, NEW r \in Resource, NEW c \in Claim, AttachExecution(r, c)
  PROVE  SlotChange /\ TokensOK'
<1>1. PICK proof \in FreshProofs(c, slot[r].gen) :
        slot' = [slot EXCEPT ![r] = ExecutionAttached(slot[r], c, ExecutionRuntime(nextExec + 1), proof)]
  BY DEF AttachExecution
<1>2. /\ Owned(slot[r]) /\ slot[r].gen \in 1..MaxGeneration /\ slot[r].gen \in Nat \ {0}
      /\ UNCHANGED <<nextGen, shuttingDown>>
  BY EntryFacts, Constants DEF AttachExecution
<1>3. proof \in ProofOption /\ proof.claim = c /\ proof.gen = slot[r].gen /\ c \in OwnClaim
  BY <1>2, FreshProofSealed
<1>4. /\ nextExec + 1 \in 0..MaxExecution /\ ExecutionRuntime(nextExec + 1) \in Nat
      /\ "ExecutionOwned" \in IdleLifecycle
  BY Constants DEF AttachExecution, IInv, TokensOK, ExecutionRuntime, IdleLifecycle
<1>5. SlotChange
  BY <1>1, <1>2, <1>3, <1>4, RekeyedChange DEF ExecutionAttached
<1>6. [res |-> r, gen |-> slot[r].gen, rt |-> ExecutionRuntime(nextExec + 1), claim |-> c]
        \in Attachment
  BY <1>2, <1>4 DEF Attachment
<1> QED
  BY <1>4, <1>5, <1>6 DEF AttachExecution, IInv, TokensOK, CheckoutSealed

\* An attachment sits on a resource; if it matches, on an owned entry of its claim.
LEMMA AttachmentFacts ==
  ASSUME IInv, NEW a \in attachments
  PROVE  /\ a.res \in Resource
         /\ AttachmentMatches(a) =>
              Owned(slot[a.res]) /\ slot[a.res].gen = a.gen /\ slot[a.res].claim = a.claim
BY DEF IInv, TokensOK, Attachment, AttachmentMatches

\* transition_recovery_execution leaves the proof and the identity alone.
LEMMA MoveExecutionStep ==
  ASSUME IInv, NEW a \in attachments,
         CheckoutStep(a) \/ RestoreStep(a) \/ RetainExecution(a) \/ QuarantineExecution(a)
  PROVE  SlotChange /\ TokensOK'
<1>1. /\ {"ExecutionOwned", "StepExecutionInFlight", "Retained", "Quarantined"}
           \subseteq IdleLifecycle
  BY DEF IdleLifecycle
<1>2. PICK from, to :
        from \subseteq IdleLifecycle /\ to \in IdleLifecycle /\ MoveExecution(a, from, to)
  <2>1. CASE CheckoutStep(a)
    BY <1>1, <2>1 DEF CheckoutStep
  <2>2. CASE RestoreStep(a)
    BY <1>1, <2>2 DEF RestoreStep
  <2>3. CASE RetainExecution(a)
    BY <1>1, <2>3 DEF RetainExecution
  <2>4. CASE QuarantineExecution(a)
    BY <1>1, <2>4 DEF QuarantineExecution
  <2> QED
    BY <2>1, <2>2, <2>3, <2>4
<1>3. TokensOK' /\ UNCHANGED <<nextGen, shuttingDown>>
  BY <1>2 DEF MoveExecution, counters, tokens, IInv, TokensOK, CheckoutSealed
<1>4. /\ a.res \in Resource /\ Owned(slot[a.res]) /\ slot[a.res].lc \in IdleLifecycle
      /\ slot' = [slot EXCEPT ![a.res] = Moved(slot[a.res], to)]
  BY <1>2, AttachmentFacts DEF MoveExecution
<1> QED
  BY <1>2, <1>3, <1>4, MovedChange

\* A replaced execution proof is one of the attached claim.
LEMMA ReplaceExecutionProofStep ==
  ASSUME IInv, NEW a \in attachments, ReplaceExecutionProof(a)
  PROVE  SlotChange /\ TokensOK'
<1>1. PICK proof \in FreshProofs(a.claim, a.gen) :
        slot' = [slot EXCEPT ![a.res] = Sealed(slot[a.res], proof)]
  BY DEF ReplaceExecutionProof
<1>2. TokensOK' /\ UNCHANGED <<nextGen, shuttingDown>>
  BY DEF ReplaceExecutionProof, counters, tokens, IInv, TokensOK, CheckoutSealed
<1>3. /\ a.res \in Resource /\ Owned(slot[a.res])
      /\ proof \in FreshProofs(slot[a.res].claim, slot[a.res].gen)
  BY AttachmentFacts DEF ReplaceExecutionProof
<1> QED
  BY <1>1, <1>2, <1>3, SealedChange

\* A closed execution frees the slot of its own entry only.
LEMMA CloseExecutionStep ==
  ASSUME IInv, NEW a \in attachments, CloseExecution(a)
  PROVE  SlotChange /\ TokensOK'
<1>1. TokensOK' /\ UNCHANGED <<nextGen, shuttingDown>>
  BY DEF CloseExecution, counters, IInv, TokensOK, CheckoutSealed
<1>2. CASE AttachmentMatches(a) /\ slot[a.res].lc = "StepExecutionInFlight"
  BY <1>1, <1>2, AttachmentFacts DEF CloseExecution, SlotChange, Frees, Owned, Occupied
<1>3. CASE ~(AttachmentMatches(a) /\ slot[a.res].lc = "StepExecutionInFlight")
  BY <1>1, <1>3 DEF CloseExecution, SlotChange
<1> QED
  BY <1>2, <1>3

\* begin_shutdown drains every slot at once.
LEMMA BeginShutdownStep ==
  ASSUME IInv, BeginShutdown
  PROVE  SlotChange /\ TokensOK'
BY DEF BeginShutdown, SlotChange, Drains, counters, tokens, IInv, TokensOK, CheckoutSealed

----------------------------------------------------------------------------
\* Every step of the registry, whoever takes it.
LEMMA NextStep ==
  ASSUME IInv, Next
  PROVE  SlotChange /\ TokensOK'
<1>1. CASE SlotNext
  BY <1>1, AcquireStep, ReleaseStep, PromoteStep, ReleaseByOperationStep DEF SlotNext
<1>2. CASE HandleNext
  <2>1. ASSUME NEW c \in Claim,
               NEW lc \in {"Retained", "Quarantined", "DroppedUnclosed", "OrphanedDurableClaim",
                           "RecoveryOwnershipCommittedButUnattached"},
               RegisterSentinel(c, lc)
        PROVE  SlotChange /\ TokensOK'
    <3>1. lc \in IdleLifecycle
      BY DEF IdleLifecycle
    <3> QED
      BY <2>1, <3>1, RegisterSentinelStep
  <2>2. ASSUME NEW h \in handles, NEW target \in {"Retained", "Quarantined", "DroppedUnclosed"},
               CloseAs(h, target)
        PROVE  SlotChange /\ TokensOK'
    <3>1. target \in IdleLifecycle
      BY DEF IdleLifecycle
    <3> QED
      BY <2>2, <3>1, CloseAsStep
  <2> QED
    BY <1>2, <2>1, <2>2, RegisterHandleStep, InstallProofStep, TakeSnapshotStep,
       FinishHeartbeatStep, DropHandleStep, QuarantineAfterUnknownStep, CloseStep
       DEF HandleNext
<1>3. CASE SupervisorNext
  <2>1. ASSUME NEW k \in checkouts, NEW c \in Claim,
               NEW target \in {"RecoveryOwnershipCommittedButUnattached",
                               "RecoveryTakeoverQuarantined"},
               CompleteTakeover(k, target, c)
        PROVE  SlotChange /\ TokensOK'
    <3>1. target \in IdleLifecycle
      BY DEF IdleLifecycle
    <3> QED
      BY <2>1, <3>1, CompleteTakeoverStep
  <2> QED
    BY <1>3, <2>1, CheckoutStepOK, RestoreCheckoutStep, CompleteCheckoutStep
       DEF SupervisorNext
<1>4. CASE RecoveryNext
  BY <1>4, RecoveryStep, AttachExecutionStep, MoveExecutionStep, ReplaceExecutionProofStep,
     CloseExecutionStep DEF RecoveryNext
<1>5. CASE BeginShutdown
  BY <1>5, BeginShutdownStep
<1> QED
  BY <1>1, <1>2, <1>3, <1>4, <1>5 DEF Next

\* The empty coordinator satisfies the invariant.
LEMMA InvInit == Init => IInv
<1> SUFFICES ASSUME Init PROVE IInv
  OBVIOUS
<1>1. Good(Vacant) /\ Vacant \in Entry /\ ~Occupied(Vacant) /\ Vacant.gen = 0
  BY VacantEntry DEF Good, WellFormed
<1>2. SlotsOK
  <2>1. slot \in [Resource -> Entry]
    BY <1>1, Zenon DEF Init
  <2>1a. \A r \in Resource : slot[r] = Vacant
    BY Zenon DEF Init
  <2>2. nextGen = 0 /\ shuttingDown = FALSE
    BY Zenon DEF Init
  <2>2a. nextGen \in 0..MaxGeneration
    BY <2>2, Constants, SMT
  <2>2b. shuttingDown \in BOOLEAN
    BY <2>2, Zenon
  <2>3. Generations /\ GateExclusion
    BY <1>1, <2>1a, <2>2 DEF Generations, GateExclusion
  <2> QED
    BY <1>1, <2>1, <2>1a, <2>2a, <2>2b, <2>3, Zenon DEF SlotsOK
<1>3. TokensOK
  BY Constants DEF Init, TokensOK
<1> QED
  BY <1>2, <1>3 DEF IInv

\* The invariant is inductive: each step is one of the five changes of the slots.
LEMMA InvNext == IInv /\ [Next]_vars => IInv'
<1> SUFFICES ASSUME IInv, [Next]_vars PROVE IInv'
  OBVIOUS
<1>1. CASE Next
  BY <1>1, NextStep, SlotChangeKeeps DEF IInv
<1>2. CASE UNCHANGED vars
  <2>1. SlotChange
    BY <1>2 DEF vars, counters, SlotChange
  <2>2. TokensOK'
    BY <1>2 DEF vars, counters, tokens, IInv, TokensOK, CheckoutSealed
  <2> QED
    BY <2>1, <2>2, SlotChangeKeeps DEF IInv
<1> QED
  BY <1>1, <1>2

\* The inductive invariant.
LEMMA Invariance == Spec => []IInv
BY InvInit, InvNext, PTL DEF Spec

----------------------------------------------------------------------------
(***************************************************************************)
(* The theorems                                                            *)
(***************************************************************************)

\* Whatever the callers do, entries and tokens keep the shape of their types: an
\* entry in flight has a checkout number, one that is not owned has no proof
\* (SlotStage and the token structs of slot.rs).
THEOREM TypeCorrect == Spec => []TypeOK
<1>1. IInv => TypeOK
  BY DEF IInv, SlotsOK, TokensOK, TypeOK, Good, WellFormed
<1> QED
  BY <1>1, Invariance, PTL

\* Conflicting resources are never held together (conflict_ref, literature_gate.rs).
THEOREM ResourcesExcluded == Spec => []GateExclusion
<1>1. IInv => GateExclusion
  BY DEF IInv, SlotsOK
<1> QED
  BY <1>1, Invariance, PTL

\* A proof in the registry is always the one of the entry it is in, of a claim this
\* process owns (install, replace, restore, complete and attach in slot.rs).
THEOREM ProofsSealed == Spec => []ProofSealed
<1>1. IInv => ProofSealed
  BY DEF IInv, SlotsOK, ProofSealed, Good, WellFormed, StageShape
<1> QED
  BY <1>1, Invariance, PTL

\* The registry implements the abstract gate: its steps are the taking of a free
\* resource, the giving back of a held one, closing, or nothing the gate shows.
THEOREM GateImplemented == Spec => ImplementsGate
<1> DEFINE held(r) == IF Occupied(slot[r]) THEN slot[r].gen ELSE 0
           holder  == [r \in Resource |-> held(r)]
<1>1. Init => Gate!GateInit
  <2> SUFFICES ASSUME Init PROVE Gate!GateInit
    OBVIOUS
  <2>1. \A r \in Resource : held(r) = 0
    BY VacantEntry DEF Init
  <2> QED
    BY <2>1 DEF Init, Gate!GateInit, Gate!Free, Gate!Resource, Resource,
                Gate!LiteratureResource, LiteratureResource, Gate!Scope, Scope
<1>2. /\ Gate!Resource = Resource
      /\ \A r, s : Gate!Conflict(r, s) <=> Conflict(r, s)
  BY DEF Gate!Resource, Resource, Gate!LiteratureResource, LiteratureResource, Gate!Scope,
         Scope, Gate!Conflict, Conflict
<1>3. ASSUME IInv, SlotChange PROVE [Gate!GateNext]_(Gate!gateVars)
  <2>1. slot \in [Resource -> Entry]
    BY <1>3 DEF IInv, SlotsOK
  <2>2. \A r \in Resource : Occupied(slot[r]) => slot[r].gen # 0
    BY <1>3, EntryFacts, Constants
  <2>3. CASE UNCHANGED <<slot, nextGen, shuttingDown>>
    BY <2>3 DEF Gate!gateVars
  <2>4. ASSUME NEW r \in Resource, Takes(r) PROVE Gate!Take(r)
    <3>1. PICK e : /\ ~shuttingDown /\ ConflictFree(r) /\ nextGen' = nextGen + 1
                   /\ Occupied(e) /\ e.gen = nextGen + 1
                   /\ slot' = [slot EXCEPT ![r] = e]
                   /\ UNCHANGED shuttingDown
      BY <2>4 DEF Takes
    <3>2. \A s \in Resource : slot'[s] = IF s = r THEN e ELSE slot[s]
      BY <2>1, <3>1
    <3>3. \A s \in Resource : Conflict(r, s) => held(s) = 0
      BY <3>1 DEF ConflictFree
    <3>4. \A s \in Resource : held(s)' = IF s = r THEN nextGen + 1 ELSE held(s)
      BY <3>1, <3>2
    <3>5. holder' = [holder EXCEPT ![r] = nextGen + 1]
      BY <3>4
    <3> QED
      BY <1>2, <3>1, <3>3, <3>5 DEF Gate!Take, Gate!Free
  <2>5. ASSUME NEW r \in Resource, Keeps(r) PROVE UNCHANGED Gate!gateVars
    <3>1. PICK e : /\ Occupied(slot[r]) /\ Occupied(e) /\ e.gen = slot[r].gen
                   /\ slot' = [slot EXCEPT ![r] = e]
                   /\ UNCHANGED <<nextGen, shuttingDown>>
      BY <2>5 DEF Keeps
    <3>2. \A s \in Resource : slot'[s] = IF s = r THEN e ELSE slot[s]
      BY <2>1, <3>1
    <3>3. \A s \in Resource : held(s)' = held(s)
      BY <3>1, <3>2
    <3>4. holder' = holder
      BY <3>3
    <3> QED
      BY <3>1, <3>4 DEF Gate!gateVars
  <2>6. ASSUME NEW r \in Resource, Frees(r) PROVE Gate!GiveBack(r)
    <3>1. \A s \in Resource : slot'[s] = IF s = r THEN Vacant ELSE slot[s]
      BY <2>1, <2>6 DEF Frees
    <3>2. \A s \in Resource : held(s)' = IF s = r THEN 0 ELSE held(s)
      BY <3>1, VacantEntry
    <3>3. holder' = [holder EXCEPT ![r] = 0]
      BY <3>2
    <3>4. holder[r] # 0
      BY <2>2, <2>6 DEF Frees
    <3> QED
      BY <2>6, <3>3, <3>4 DEF Gate!GiveBack, Gate!Free, Frees
  <2>7. ASSUME Drains PROVE Gate!Close
    <3>1. \A s \in Resource : slot'[s].gen = slot[s].gen /\ (Occupied(slot'[s]) <=> Occupied(slot[s]))
      BY <1>3, <2>7, AtShutdownEntry DEF Drains, IInv, SlotsOK
    <3>2. \A s \in Resource : held(s)' = held(s)
      BY <3>1
    <3>3. holder' = holder
      BY <3>2
    <3> QED
      BY <2>7, <3>3 DEF Drains, Gate!Close
  <2> QED
    BY <1>2, <1>3, <2>3, <2>4, <2>5, <2>6, <2>7 DEF SlotChange, Gate!GateNext
<1>4. IInv /\ [Next]_vars => [Gate!GateNext]_(Gate!gateVars)
  <2> SUFFICES ASSUME IInv, [Next]_vars PROVE [Gate!GateNext]_(Gate!gateVars)
    OBVIOUS
  <2>1. CASE Next
    BY <1>3, <2>1, NextStep
  <2>2. CASE UNCHANGED vars
    BY <2>2 DEF vars, counters, Gate!gateVars
  <2> QED
    BY <2>1, <2>2
<1> QED
  BY <1>1, <1>4, Invariance, PTL DEF Spec, ImplementsGate, Gate!GateSpec

-----------------------------------------------------------------------------
(***************************************************************************)
(* Who can still act on an entry: an entry in flight has exactly one       *)
(* checkout that can settle it, an entry goes only with a token of its own *)
(* generation, and no claimed slot outlives shutdown unmarked.             *)
(*                                                                         *)
(* SlotChange forgets the tokens; Course says the same of the steps with   *)
(* them.  Only Checkout puts an entry in flight and so it is the one step  *)
(* that is not a Course.                                                   *)
(***************************************************************************)

\* Somebody who holds a token of the entry's generation gives it up.
HolderGoes(r) ==
  \/ \E l \in leases \ leases' : l.res = r /\ l.gen = slot[r].gen
  \/ \E b \in beats \ beats' : b.claim = slot[r].claim /\ b.gen = slot[r].gen
  \/ \E h \in handles \ handles' : h.res = r /\ h.gen = slot[r].gen
  \/ \E k \in checkouts \ checkouts' : k.res = r /\ k.gen = slot[r].gen
  \/ \E a \in attachments \ attachments' : a.res = r /\ a.gen = slot[r].gen

\* The entry stays, settled.
StaysAt(r) ==
  \E f : /\ Occupied(slot[r]) /\ Owned(f) /\ f.gen = slot[r].gen /\ f.lc \in IdleLifecycle
         /\ slot' = [slot EXCEPT ![r] = f] /\ UNCHANGED shuttingDown

\* A new entry comes in.
EntersAt(r) ==
  \E f : /\ ~Occupied(slot[r]) /\ f.lc \notin InFlightLifecycle /\ f.stage # "claimed"
         /\ slot' = [slot EXCEPT ![r] = f] /\ UNCHANGED shuttingDown

\* A pending entry is claimed, and marked if it comes too late.
PromotedAt(r) ==
  \E f : /\ f.gen = slot[r].gen /\ f.lc \notin InFlightLifecycle /\ f.abandoned = shuttingDown
         /\ slot' = [slot EXCEPT ![r] = f] /\ UNCHANGED shuttingDown

\* The entry goes, with a token.
LeavesAt(r) ==
  HolderGoes(r) /\ slot' = [slot EXCEPT ![r] = Vacant] /\ UNCHANGED shuttingDown

Course ==
  \/ UNCHANGED <<slot, shuttingDown>>
  \/ \E r \in Resource : StaysAt(r) \/ EntersAt(r) \/ PromotedAt(r) \/ LeavesAt(r)
  \/ Drains

\* Every entry in flight has its checkout, and no number was given twice.
Custody ==
  /\ \A r \in Resource : slot[r].lc \in InFlightLifecycle =>
        /\ slot[r].proof = NoProof
        /\ \E k \in checkouts : k.res = r /\ CheckoutMatches(slot[r], k)
  /\ \A k \in checkouts : k.ck <= nextCheckout
  /\ \A k, m \in checkouts : k.ck = m.ck => k = m

CustodyInv == IInv /\ Custody /\ ShutdownAbandonsClaimed

-----------------------------------------------------------------------------
\* What a course does to one entry.

\* Shutdown takes nothing out, leaves no lifecycle in flight that was not, and marks.
LEMMA AtShutdownCourse ==
  ASSUME NEW e, Good(e)
  PROVE  LET f == AtShutdown(e)
         IN  /\ f.gen = e.gen /\ (f = e \/ f.lc \notin InFlightLifecycle)
             /\ f.stage = "claimed" => f.abandoned
<1> DEFINE f == AtShutdown(e)
<1>0. e \in Entry /\ WellFormed(e) /\ StageShape(e)
  BY DEF Good, WellFormed
<1>1. f.gen = e.gen
  BY AtShutdownEntry
<1>2. CASE e.stage = "claimed"
  <2>1. f = [e EXCEPT !.abandoned = TRUE]
    BY <1>2 DEF AtShutdown
  <2>2. f.abandoned /\ f.lc = e.lc /\ e.lc = "none"
    BY <1>0, <1>2, <2>1 DEF Entry, StageShape, Owned
  <2> QED
    BY <1>1, <2>2, LifecycleSets
<1>3. CASE e.stage = "owned" /\ e.lc \in {"Live", "Exiting"}
  <2>1. f = Settled(e, "DroppedUnclosed", NoProof, FALSE) /\ Owned(e)
    BY <1>3 DEF AtShutdown, DroppedUnclosed, Owned
  <2>2. "DroppedUnclosed" \in IdleLifecycle /\ NoProof \in ProofOption
    BY DEF IdleLifecycle, ProofOption
  <2> HIDE DEF f
  <2>3. Owned(f) /\ f.lc = "DroppedUnclosed"
    BY <1>0, <2>1, <2>2, SettledEntry
  <2> QED
    BY <1>1, <2>2, <2>3, LifecycleSets DEF f, Owned
<1>4. CASE e.stage # "claimed" /\ ~(e.stage = "owned" /\ e.lc \in {"Live", "Exiting"})
  <2>1. f = e
    BY <1>4 DEF AtShutdown
  <2> QED
    BY <1>4, <2>1
<1> QED
  BY <1>2, <1>3, <1>4

\* A course puts nothing in flight, leaves no claimed slot unmarked after shutdown and
\* lets no entry go without its holder.
LEMMA CourseFacts ==
  ASSUME IInv, Course, NEW r \in Resource
  PROVE  /\ slot'[r] = slot[r] \/ slot'[r].lc \notin InFlightLifecycle
         /\ ShutdownAbandonsClaimed =>
              (shuttingDown' /\ slot'[r].stage = "claimed" => slot'[r].abandoned)
         /\ Occupied(slot[r]) /\ slot'[r].gen # slot[r].gen => HolderGoes(r)
<1>1. slot \in [Resource -> Entry] /\ Good(slot[r])
  BY DEF IInv, SlotsOK
<1>2. CASE UNCHANGED <<slot, shuttingDown>>
  BY <1>2 DEF ShutdownAbandonsClaimed
<1>3. ASSUME NEW s \in Resource, NEW f, slot' = [slot EXCEPT ![s] = f]
      PROVE  slot'[r] = IF r = s THEN f ELSE slot[r]
  BY <1>1, <1>3
<1>4. ASSUME NEW s \in Resource, StaysAt(s)
      PROVE  /\ slot'[r] = slot[r] \/ slot'[r].lc \notin InFlightLifecycle
             /\ ShutdownAbandonsClaimed =>
                  (shuttingDown' /\ slot'[r].stage = "claimed" => slot'[r].abandoned)
             /\ slot'[r].gen = slot[r].gen
  <2>1. PICK f : /\ Owned(f) /\ f.gen = slot[s].gen /\ f.lc \in IdleLifecycle
                 /\ slot' = [slot EXCEPT ![s] = f] /\ UNCHANGED shuttingDown
    BY <1>4 DEF StaysAt
  <2> QED
    BY <1>3, <2>1, LifecycleSets DEF Owned, ShutdownAbandonsClaimed
<1>5. ASSUME NEW s \in Resource, EntersAt(s)
      PROVE  /\ slot'[r] = slot[r] \/ slot'[r].lc \notin InFlightLifecycle
             /\ ShutdownAbandonsClaimed =>
                  (shuttingDown' /\ slot'[r].stage = "claimed" => slot'[r].abandoned)
             /\ Occupied(slot[r]) => slot'[r] = slot[r]
  <2>1. PICK f : /\ ~Occupied(slot[s]) /\ f.lc \notin InFlightLifecycle /\ f.stage # "claimed"
                 /\ slot' = [slot EXCEPT ![s] = f] /\ UNCHANGED shuttingDown
    BY <1>5 DEF EntersAt
  <2> QED
    BY <1>3, <2>1 DEF ShutdownAbandonsClaimed
<1>6. ASSUME NEW s \in Resource, PromotedAt(s)
      PROVE  /\ slot'[r] = slot[r] \/ slot'[r].lc \notin InFlightLifecycle
             /\ ShutdownAbandonsClaimed =>
                  (shuttingDown' /\ slot'[r].stage = "claimed" => slot'[r].abandoned)
             /\ slot'[r].gen = slot[r].gen
  <2>1. PICK f : /\ f.gen = slot[s].gen /\ f.lc \notin InFlightLifecycle
                 /\ f.abandoned = shuttingDown
                 /\ slot' = [slot EXCEPT ![s] = f] /\ UNCHANGED shuttingDown
    BY <1>6 DEF PromotedAt
  <2> QED
    BY <1>3, <2>1 DEF ShutdownAbandonsClaimed
<1>7. ASSUME NEW s \in Resource, LeavesAt(s)
      PROVE  /\ slot'[r] = slot[r] \/ slot'[r].lc \notin InFlightLifecycle
             /\ ShutdownAbandonsClaimed =>
                  (shuttingDown' /\ slot'[r].stage = "claimed" => slot'[r].abandoned)
             /\ slot'[r].gen # slot[r].gen => HolderGoes(r)
  <2>1. Vacant.lc \notin InFlightLifecycle /\ Vacant.stage # "claimed"
    BY DEF Vacant, InFlightLifecycle
  <2>2. HolderGoes(s) /\ slot' = [slot EXCEPT ![s] = Vacant] /\ UNCHANGED shuttingDown
    BY <1>7 DEF LeavesAt
  <2>3. slot'[r] = IF r = s THEN Vacant ELSE slot[r]
    BY <1>3, <2>2
  <2>4. CASE r = s
    BY <2>1, <2>2, <2>3, <2>4
  <2>5. CASE r # s
    BY <2>2, <2>3, <2>5 DEF ShutdownAbandonsClaimed
  <2> QED
    BY <2>4, <2>5
<1>8. CASE Drains
  <2>1. slot'[r] = AtShutdown(slot[r])
    BY <1>8 DEF Drains
  <2> QED
    BY <1>1, <2>1, AtShutdownCourse
<1> QED
  BY <1>2, <1>4, <1>5, <1>6, <1>7, <1>8 DEF Course

-----------------------------------------------------------------------------
\* The steps

\* An entry settled again, with whatever proof, stays.
LEMMA SettledStays ==
  ASSUME IInv, NEW r \in Resource, Owned(slot[r]), UNCHANGED shuttingDown,
         NEW lc \in IdleLifecycle, NEW proof \in ProofOption, NEW qalr \in BOOLEAN,
         slot' = [slot EXCEPT ![r] = Settled(slot[r], lc, proof, qalr)]
  PROVE  Course
<1> DEFINE e == Settled(slot[r], lc, proof, qalr)
<1>1. WellFormed(slot[r]) /\ Occupied(slot[r])
  BY EntryFacts
<1>2. Owned(e) /\ e.gen = slot[r].gen /\ e.lc = lc
  BY <1>1, SettledEntry
<1>3. slot' = [slot EXCEPT ![r] = e]
  OBVIOUS
<1> HIDE DEF e
<1> QED
  BY <1>1, <1>2, <1>3 DEF Course, StaysAt

\* So does one that is transitioned, quarantined or dropped,
LEMMA TransitionStays ==
  ASSUME IInv, NEW r \in Resource, Owned(slot[r]), UNCHANGED shuttingDown,
         NEW target \in IdleLifecycle,
         \/ slot' = [slot EXCEPT ![r] = Transitioned(slot[r], target)]
         \/ slot' = [slot EXCEPT ![r] = QuarantinedInvalid(slot[r])]
         \/ slot' = [slot EXCEPT ![r] = DroppedUnclosed(slot[r])]
  PROVE  Course
<1>1. PICK lc \in IdleLifecycle, proof \in ProofOption, qalr \in BOOLEAN :
         slot' = [slot EXCEPT ![r] = Settled(slot[r], lc, proof, qalr)]
  <2>1. slot[r].proof \in ProofOption /\ NoProof \in ProofOption
    BY EntryFacts DEF Entry, ProofOption
  <2>2. "Quarantined" \in IdleLifecycle /\ "DroppedUnclosed" \in IdleLifecycle
    BY DEF IdleLifecycle
  <2> QED
    BY <2>1, <2>2 DEF Transitioned, QuarantinedInvalid, DroppedUnclosed
<1> QED
  BY <1>1, SettledStays

\* one that is given a proof while it is settled,
LEMMA SealedStays ==
  ASSUME IInv, NEW r \in Resource, Owned(slot[r]), slot[r].lc \in IdleLifecycle,
         NEW proof \in FreshProofs(slot[r].claim, slot[r].gen), UNCHANGED shuttingDown,
         slot' = [slot EXCEPT ![r] = Sealed(slot[r], proof)]
  PROVE  Course
<1> DEFINE e == Sealed(slot[r], proof)
<1>1. /\ WellFormed(slot[r]) /\ Occupied(slot[r]) /\ slot[r].claim \in Claim
      /\ slot[r].gen \in Nat \ {0}
  BY EntryFacts, Constants
<1>2. proof \in ProofOption
  BY <1>1, FreshProofSealed
<1>3. Owned(e) /\ e.gen = slot[r].gen /\ e.lc = slot[r].lc
  BY <1>1, <1>2, SealedEntry
<1>4. slot' = [slot EXCEPT ![r] = e]
  OBVIOUS
<1> HIDE DEF e
<1> QED
  BY <1>1, <1>3, <1>4 DEF Course, StaysAt

\* one that moves between settled lifecycles,
LEMMA MovedStays ==
  ASSUME IInv, NEW r \in Resource, Owned(slot[r]), slot[r].lc \in IdleLifecycle,
         NEW lc \in IdleLifecycle, UNCHANGED shuttingDown,
         slot' = [slot EXCEPT ![r] = Moved(slot[r], lc)]
  PROVE  Course
<1> DEFINE e == Moved(slot[r], lc)
<1>1. WellFormed(slot[r]) /\ Occupied(slot[r])
  BY EntryFacts
<1>2. Owned(e) /\ e.gen = slot[r].gen /\ e.lc = lc
  BY <1>1, MovedEntry
<1>3. slot' = [slot EXCEPT ![r] = e]
  OBVIOUS
<1> HIDE DEF e
<1> QED
  BY <1>1, <1>2, <1>3 DEF Course, StaysAt

\* and one that takes on another claim.
LEMMA RekeyedStays ==
  ASSUME IInv, NEW r \in Resource, Owned(slot[r]), NEW lc \in IdleLifecycle,
         NEW c \in Claim, NEW rt \in Nat, NEW proof \in ProofOption, UNCHANGED shuttingDown,
         slot' = [slot EXCEPT ![r] = Rekeyed(Settled(slot[r], lc, proof, FALSE), c, rt)]
  PROVE  Course
<1> DEFINE e == Settled(slot[r], lc, proof, FALSE)
           f == Rekeyed(e, c, rt)
<1>1. WellFormed(slot[r]) /\ Occupied(slot[r])
  BY EntryFacts
<1>2. WellFormed(e) /\ Owned(e) /\ e.gen = slot[r].gen /\ e.lc = lc
  BY <1>1, SettledEntry
<1>3. slot' = [slot EXCEPT ![r] = f]
  OBVIOUS
<1> HIDE DEF e
<1>4. Owned(f) /\ f.gen = e.gen /\ f.lc = e.lc
  BY <1>2, RekeyedEntry
<1> HIDE DEF f
<1> QED
  BY <1>1, <1>2, <1>3, <1>4 DEF Course, StaysAt

\* Acquire, promote and release: an entry comes, is claimed, goes with its lease or beat.
LEMMA SlotCourse ==
  ASSUME IInv, SlotNext
  PROVE  Course /\ UNCHANGED <<checkouts, nextCheckout>>
<1>1. ASSUME NEW r \in Resource, NEW kind \in {"mutation", "recovery-decision"}, Acquire(r, kind)
      PROVE  Course
  <2> DEFINE e == LocalPending(nextGen + 1, kind)
  <2>1. e.lc \notin InFlightLifecycle /\ e.stage # "claimed"
    BY DEF LocalPending, Vacant, InFlightLifecycle
  <2>2. slot' = [slot EXCEPT ![r] = e] /\ ~Occupied(slot[r]) /\ UNCHANGED shuttingDown
    BY <1>1 DEF Acquire, ConflictFree, Conflict
  <2> HIDE DEF e
  <2> QED
    BY <2>1, <2>2 DEF Course, EntersAt
<1>2. ASSUME NEW l \in leases, NEW c \in Claim, PromoteClaimed(l, c)
      PROVE  Course
  <2> DEFINE e == ClaimedEntry(slot[l.res], c, shuttingDown)
  <2>1. l.res \in Resource
    BY DEF IInv, TokensOK, Lease
  <2>2. slot[l.res] \in Entry /\ slot[l.res].lc = "none"
    BY <1>2, <2>1, EntryFacts DEF PromoteClaimed, StageShape, Owned
  <2>3. e.gen = slot[l.res].gen /\ e.lc = "none" /\ e.abandoned = shuttingDown
    BY <2>2 DEF ClaimedEntry, Entry
  <2>4. slot' = [slot EXCEPT ![l.res] = e] /\ UNCHANGED shuttingDown
    BY <1>2 DEF PromoteClaimed
  <2> HIDE DEF e
  <2>5. PromotedAt(l.res)
    BY <2>3, <2>4, LifecycleSets DEF PromotedAt
  <2> QED
    BY <2>1, <2>5 DEF Course
<1>3. ASSUME NEW l \in leases, Release(l)
      PROVE  Course
  <2>1. l.res \in Resource
    BY DEF IInv, TokensOK, Lease
  <2>2. CASE Occupied(slot[l.res]) /\ slot[l.res].gen = l.gen
    BY <1>3, <2>1, <2>2 DEF Release, Released, Course, LeavesAt, HolderGoes
  <2>3. CASE ~(Occupied(slot[l.res]) /\ slot[l.res].gen = l.gen)
    BY <1>3, <2>3 DEF Release, Released, Course
  <2> QED
    BY <2>2, <2>3
<1>4. ASSUME NEW b \in beats, ReleaseByOperation(b)
      PROVE  Course
  <2> DEFINE Ended(r) ==
        slot[r].stage = "claimed" /\ slot[r].claim = b.claim /\ slot[r].gen = b.gen
  <2>1. slot' = [r \in Resource |-> IF Ended(r) THEN Vacant ELSE slot[r]]
    BY <1>4 DEF ReleaseByOperation
  <2>2. slot \in [Resource -> Entry] /\ UNCHANGED shuttingDown /\ b \in beats \ beats'
    BY <1>4 DEF IInv, SlotsOK, ReleaseByOperation
  <2>3. CASE \A r \in Resource : ~Ended(r)
    <3>1. slot' = [r \in Resource |-> slot[r]]
      BY <2>1, <2>3
    <3>2. slot' = slot
      BY <2>2, <3>1
    <3> QED
      BY <2>2, <3>2 DEF Course
  <2>4. ASSUME NEW r \in Resource, Ended(r) PROVE Course
    <3>1. \A s \in Resource : Ended(s) => s = r
      BY <2>4 DEF IInv, SlotsOK, Generations, Occupied
    <3>2. slot' = [slot EXCEPT ![r] = Vacant]
      BY <2>1, <2>2, <2>4, <3>1
    <3>3. HolderGoes(r)
      BY <2>2, <2>4 DEF HolderGoes
    <3> QED
      BY <2>2, <3>2, <3>3 DEF Course, LeavesAt
  <2> QED
    BY <2>3, <2>4
<1>5. UNCHANGED <<checkouts, nextCheckout>>
  BY DEF SlotNext, Acquire, PromoteClaimed, Release, ReleaseByOperation, counters
<1> QED
  BY <1>1, <1>2, <1>3, <1>4, <1>5 DEF SlotNext

\* The steps of a handle: its entry stays, or goes with the handle.
LEMMA HandleCourse ==
  ASSUME IInv, NEW h \in handles,
         \/ InstallProof(h) \/ TakeSnapshot(h) \/ FinishHeartbeat(h)
         \/ DropHandle(h) \/ QuarantineAfterUnknown(h)
         \/ CloseBegin(h) \/ CloseSnapshot(h) \/ CloseCheckTerminal(h) \/ CloseReleaseTerminal(h)
         \/ \E target \in {"Retained", "Quarantined", "DroppedUnclosed"} : CloseAs(h, target)
  PROVE  Course /\ UNCHANGED <<checkouts, nextCheckout>>
<1> DEFINE r == h.res
<1>1. UNCHANGED <<checkouts, nextCheckout, shuttingDown>>
  BY DEF InstallProof, TakeSnapshot, FinishHeartbeat, DropHandle, QuarantineAfterUnknown,
         CloseBegin, CloseSnapshot, CloseCheckTerminal, CloseReleaseTerminal, CloseAs, Rest,
         counters
<1>2. r \in Resource /\ (Holds(h) => Owned(slot[r]) /\ slot[r].gen = h.gen)
  BY HandleFacts
<1>3. {"Live", "Retained", "Quarantined", "DroppedUnclosed", "Exiting"} \subseteq IdleLifecycle
  BY DEF IdleLifecycle
<1>4. CASE slot' = slot
  BY <1>1, <1>4 DEF Course
<1>5. ASSUME Holds(h), NEW target \in IdleLifecycle,
             \/ slot' = [slot EXCEPT ![r] = Transitioned(slot[r], target)]
             \/ slot' = [slot EXCEPT ![r] = QuarantinedInvalid(slot[r])]
             \/ slot' = [slot EXCEPT ![r] = DroppedUnclosed(slot[r])]
      PROVE  Course
  BY <1>1, <1>2, <1>5, TransitionStays
<1>6. ASSUME Holds(h), slot[r].lc \in {"Live", "Retained"},
             NEW proof \in FreshProofs(slot[r].claim, h.gen),
             slot' = [slot EXCEPT ![r] = Sealed(slot[r], proof)]
      PROVE  Course
  BY <1>1, <1>2, <1>3, <1>6, SealedStays
<1>7. ASSUME slot' = Released(r, h.gen), Gone(h)
      PROVE  Course
  <2>1. CASE Occupied(slot[r]) /\ slot[r].gen = h.gen
    BY <1>1, <1>2, <1>7, <2>1 DEF Released, Course, LeavesAt, HolderGoes, Gone
  <2>2. CASE ~(Occupied(slot[r]) /\ slot[r].gen = h.gen)
    BY <1>4, <1>7, <2>2 DEF Released
  <2> QED
    BY <2>1, <2>2
<1>8. CASE InstallProof(h)
  BY <1>1, <1>3, <1>4, <1>5, <1>6, <1>7, <1>8 DEF InstallProof, InstallAllowed
<1>9. CASE FinishHeartbeat(h)
  BY <1>1, <1>3, <1>4, <1>5, <1>6, <1>9 DEF FinishHeartbeat, ReplaceAllowed
<1>10. CASE TakeSnapshot(h) \/ CloseCheckTerminal(h)
  BY <1>1, <1>4, <1>10 DEF TakeSnapshot, CloseCheckTerminal
<1>11. CASE DropHandle(h)
  BY <1>1, <1>3, <1>4, <1>5, <1>11 DEF DropHandle
<1>12. CASE QuarantineAfterUnknown(h) \/ CloseBegin(h)
  BY <1>1, <1>3, <1>5, <1>12 DEF QuarantineAfterUnknown, CloseBegin
<1>13. CASE CloseSnapshot(h)
  BY <1>1, <1>3, <1>4, <1>5, <1>13 DEF CloseSnapshot
<1>14. CASE CloseReleaseTerminal(h)
  BY <1>1, <1>7, <1>14 DEF CloseReleaseTerminal
<1>15. ASSUME NEW target \in {"Retained", "Quarantined", "DroppedUnclosed"}, CloseAs(h, target)
       PROVE  Course
  BY <1>3, <1>5, <1>15 DEF CloseAs
<1> QED
  BY <1>1, <1>8, <1>9, <1>10, <1>11, <1>12, <1>13, <1>14, <1>15

\* A registration enters a slot that is free.
LEMMA RegistrationCourse ==
  ASSUME IInv,
         \/ \E r \in Resource, c \in Claim : RegisterHandle(r, c)
         \/ \E c \in Claim, lc \in {"Retained", "Quarantined", "DroppedUnclosed",
                                     "OrphanedDurableClaim",
                                     "RecoveryOwnershipCommittedButUnattached"} :
               RegisterSentinel(c, lc)
  PROVE  Course /\ UNCHANGED <<checkouts, nextCheckout>>
<1>1. PICK r \in Resource, c \in Claim, rt \in {HandleRuntime, SentinelRuntime},
            lc \in IdleLifecycle :
         /\ lc \in {"Live", "Retained", "Quarantined", "DroppedUnclosed", "OrphanedDurableClaim",
                    "RecoveryOwnershipCommittedButUnattached"}
         /\ ConflictFree(r) /\ UNCHANGED <<shuttingDown, checkouts, nextCheckout>>
         /\ slot' = [slot EXCEPT ![r] = RuntimeOwned(nextGen + 1, c, rt, lc)]
  BY Constants DEF RegisterHandle, RegisterSentinel, IdleLifecycle
<1> DEFINE e == RuntimeOwned(nextGen + 1, c, rt, lc)
<1>2. e.lc = lc /\ e.stage = "owned"
  BY DEF RuntimeOwned, Vacant
<1>3. e.lc \notin InFlightLifecycle
  BY <1>1, <1>2 DEF InFlightLifecycle
<1>4. ~Occupied(slot[r]) /\ slot' = [slot EXCEPT ![r] = e]
  BY <1>1 DEF ConflictFree, Conflict
<1> HIDE DEF e
<1> QED
  BY <1>1, <1>2, <1>3, <1>4 DEF Course, EntersAt

\* The steps of a recovery: its entry stays settled, or goes with the attachment.
LEMMA RecoveryCourse ==
  ASSUME IInv, RecoveryNext
  PROVE  Course /\ UNCHANGED <<checkouts, nextCheckout>>
<1>1. UNCHANGED <<checkouts, nextCheckout, shuttingDown>>
  BY DEF RecoveryNext, AttachCommitted, QuarantineCommitted, QuarantineOwned, MoveRecovery,
         AttachExecution, CheckoutStep, RestoreStep, RetainExecution, QuarantineExecution,
         MoveExecution, ReplaceExecutionProof, CloseExecution, counters, tokens
<1>2. {"RecoveryOwnershipCommittedButUnattached", "RecoveryOwned", "RecoveryTakeoverQuarantined",
       "ExecutionOwned", "StepExecutionInFlight", "Retained", "Quarantined"}
        \subseteq IdleLifecycle
  BY DEF IdleLifecycle
<1>3. ASSUME NEW r \in Resource,
             AttachCommitted(r) \/ QuarantineCommitted(r) \/ QuarantineOwned(r)
      PROVE  Course
  <2>1. PICK from \in IdleLifecycle, to \in IdleLifecycle : MoveRecovery(r, from, to)
    BY <1>2, <1>3 DEF AttachCommitted, QuarantineCommitted, QuarantineOwned
  <2> QED
    BY <1>1, <2>1, MovedStays DEF MoveRecovery
<1>4. ASSUME NEW r \in Resource, NEW c \in Claim, AttachExecution(r, c)
      PROVE  Course
  <2>1. PICK proof \in FreshProofs(c, slot[r].gen) :
          slot' = [slot EXCEPT ![r] =
                     ExecutionAttached(slot[r], c, ExecutionRuntime(nextExec + 1), proof)]
    BY <1>4 DEF AttachExecution
  <2>2. Owned(slot[r]) /\ slot[r].gen \in Nat \ {0} /\ ExecutionRuntime(nextExec + 1) \in Nat
    BY <1>4, EntryFacts, Constants DEF AttachExecution, ExecutionRuntime, IInv, TokensOK
  <2>3. proof \in ProofOption
    BY <2>2, FreshProofSealed
  <2> QED
    BY <1>1, <1>2, <2>1, <2>2, <2>3, RekeyedStays DEF ExecutionAttached
<1>5. ASSUME NEW a \in attachments, NEW from, NEW to \in IdleLifecycle,
             from \subseteq IdleLifecycle, MoveExecution(a, from, to)
      PROVE  Course
  BY <1>1, <1>5, AttachmentFacts, MovedStays DEF MoveExecution
<1>6. ASSUME NEW a \in attachments,
             CheckoutStep(a) \/ RestoreStep(a) \/ RetainExecution(a) \/ QuarantineExecution(a)
      PROVE  Course
  BY <1>2, <1>5, <1>6 DEF CheckoutStep, RestoreStep, RetainExecution, QuarantineExecution
<1>7. ASSUME NEW a \in attachments, ReplaceExecutionProof(a)
      PROVE  Course
  BY <1>1, <1>2, <1>7, AttachmentFacts, SealedStays DEF ReplaceExecutionProof
<1>8. ASSUME NEW a \in attachments, CloseExecution(a)
      PROVE  Course
  <2>1. CASE AttachmentMatches(a) /\ slot[a.res].lc = "StepExecutionInFlight"
    BY <1>1, <1>8, <2>1, AttachmentFacts DEF CloseExecution, Course, LeavesAt, HolderGoes
  <2>2. CASE ~(AttachmentMatches(a) /\ slot[a.res].lc = "StepExecutionInFlight")
    BY <1>1, <1>8, <2>2 DEF CloseExecution, Course
  <2> QED
    BY <2>1, <2>2
<1> QED
  BY <1>1, <1>3, <1>4, <1>6, <1>7, <1>8 DEF RecoveryNext

\* A checkout that comes back settles its entry, frees it or finds another; its number
\* is never used again.
LEMMA ReturnCourse ==
  ASSUME IInv, NEW k \in checkouts,
         \/ RestoreCheckout(k)
         \/ \E target \in IdleLifecycle \cup {"Closed"} : CompleteCheckout(k, target)
         \/ \E c \in Claim, target \in {"RecoveryOwnershipCommittedButUnattached",
                                       "RecoveryTakeoverQuarantined"} : CompleteTakeover(k, target, c)
  PROVE  /\ Course /\ checkouts' = checkouts \ {k} /\ UNCHANGED nextCheckout
         /\ CheckoutMatches(slot[k.res], k) => slot'[k.res].lc \notin InFlightLifecycle
<1> DEFINE r == k.res
           m == CheckoutMatches(slot[r], k)
<1>1. /\ checkouts' = checkouts \ {k} /\ UNCHANGED <<nextCheckout, shuttingDown>>
  BY DEF RestoreCheckout, CompleteCheckout, CompleteTakeover, Unheld
<1>2. /\ r \in Resource /\ k.prev \in IdleLifecycle /\ k.proof \in ProofOption
      /\ k.qalr \in BOOLEAN /\ (m => Owned(slot[r]) /\ slot[r].gen = k.gen)
      /\ slot \in [Resource -> Entry] /\ NoProof \in ProofOption
      /\ k.claim \in Claim /\ k.gen \in Nat \ {0}
  BY CheckoutFacts, Constants DEF IInv, SlotsOK, ProofOption
<1>3. ASSUME m, NEW lc \in IdleLifecycle, NEW proof \in ProofOption, NEW qalr \in BOOLEAN,
             slot' = [slot EXCEPT ![r] = Settled(slot[r], lc, proof, qalr)]
      PROVE  Course /\ slot'[r].lc \notin InFlightLifecycle
  <2>1. slot'[r].lc = lc
    BY <1>2, <1>3, EntryFacts, SettledEntry
  <2> QED
    BY <1>1, <1>2, <1>3, <2>1, SettledStays, LifecycleSets
<1>4. CASE ~m
  BY <1>1, <1>4 DEF RestoreCheckout, CompleteCheckout, CompleteTakeover, Course
<1>5. CASE m /\ RestoreCheckout(k)
  <2>1. slot' = [slot EXCEPT ![r] = Settled(slot[r], k.prev, k.proof, k.qalr)]
    BY <1>5 DEF RestoreCheckout, Restored
  <2> QED
    BY <1>1, <1>2, <1>3, <1>5, <2>1
<1>6. ASSUME m, NEW target \in IdleLifecycle \cup {"Closed"}, CompleteCheckout(k, target)
      PROVE  Course /\ slot'[r].lc \notin InFlightLifecycle
  <2>1. PICK proof \in FreshProofs(k.claim, k.gen) \cup {NoProof} :
          slot' = IF target = "Closed" THEN [slot EXCEPT ![r] = Vacant]
                  ELSE [slot EXCEPT ![r] = Settled(slot[r], target, proof, FALSE)]
    BY <1>6 DEF CompleteCheckout, Completed
  <2>2. CASE target = "Closed"
    <3>1. slot' = [slot EXCEPT ![r] = Vacant]
      BY <2>1, <2>2
    <3>2. slot'[r].lc \notin InFlightLifecycle
      BY <1>2, <3>1 DEF Vacant, InFlightLifecycle
    <3>3. HolderGoes(r)
      BY <1>1, <1>2, <1>6 DEF HolderGoes
    <3> QED
      BY <1>1, <1>2, <3>1, <3>2, <3>3 DEF Course, LeavesAt
  <2>3. CASE target # "Closed"
    <3>1. proof \in ProofOption
      BY <1>2, FreshProofSealed
    <3> QED
      BY <1>3, <1>6, <2>1, <2>3, <3>1
  <2> QED
    BY <2>2, <2>3
<1>7. ASSUME m, NEW c \in Claim, NEW target \in {"RecoveryOwnershipCommittedButUnattached",
                                              "RecoveryTakeoverQuarantined"},
             CompleteTakeover(k, target, c)
      PROVE  Course /\ slot'[r].lc \notin InFlightLifecycle
  <2> DEFINE e == Settled(slot[r], target, NoProof, FALSE)
             f == Rekeyed(e, c, slot[r].rt)
  <2>1. slot' = [slot EXCEPT ![r] = f]
    BY <1>6, <1>7 DEF CompleteTakeover, TakenOver
  <2>2. target \in IdleLifecycle /\ slot[r].rt \in Nat /\ WellFormed(slot[r])
    BY <1>2, EntryFacts DEF Entry, IdleLifecycle
  <2>3. Course
    BY <1>1, <1>2, <1>7, <2>1, <2>2, RekeyedStays
  <2>4. WellFormed(e) /\ Owned(e) /\ e.lc = target
    <3>1. Owned(slot[r]) /\ WellFormed(slot[r]) /\ NoProof \in ProofOption
      BY <1>2, <1>7, <2>2
    <3> HIDE DEF r
    <3> QED
      BY <2>2, <3>1, SettledEntry
  <2> HIDE DEF e
  <2>5. f.lc = target
    BY <2>2, <2>4, RekeyedEntry
  <2> HIDE DEF f
  <2>6. slot'[r].lc = target
    BY <1>2, <2>1, <2>5
  <2> QED
    BY <2>2, <2>3, <2>6, LifecycleSets
<1> QED
  BY <1>1, <1>4, <1>5, <1>6, <1>7

\* Shutdown is the course that reaches every entry.
LEMMA ShutdownCourse ==
  ASSUME BeginShutdown
  PROVE  Course /\ UNCHANGED <<checkouts, nextCheckout>>
BY DEF BeginShutdown, Course, Drains, counters, tokens

\* Every step but a checkout is a course, and of the checkouts it leaves all but at most
\* one, whose entry is in flight no longer.
LEMMA NextCourse ==
  ASSUME IInv, Next
  PROVE  \/ \E c \in Claim, action \in CheckoutAction : Checkout(c, action)
         \/ Course /\ UNCHANGED <<checkouts, nextCheckout>>
         \/ \E k \in checkouts :
              /\ Course /\ checkouts' = checkouts \ {k} /\ UNCHANGED nextCheckout
              /\ CheckoutMatches(slot[k.res], k) => slot'[k.res].lc \notin InFlightLifecycle
<1>1. CASE HandleNext
  BY <1>1, HandleCourse, RegistrationCourse DEF HandleNext
<1>2. CASE SupervisorNext
  BY <1>2, ReturnCourse DEF SupervisorNext
<1> QED
  BY <1>1, <1>2, SlotCourse, RecoveryCourse, ShutdownCourse DEF Next

-----------------------------------------------------------------------------
\* Custody

\* A course that leaves the checkouts, or takes one whose entry it settles, keeps custody.
LEMMA CourseKeepsCustody ==
  ASSUME CustodyInv, Course, UNCHANGED nextCheckout,
         \/ UNCHANGED checkouts
         \/ \E k \in checkouts :
              /\ checkouts' = checkouts \ {k}
              /\ CheckoutMatches(slot[k.res], k) => slot'[k.res].lc \notin InFlightLifecycle
  PROVE  Custody' /\ ShutdownAbandonsClaimed'
<1>1. IInv /\ Custody /\ ShutdownAbandonsClaimed
  BY DEF CustodyInv
<1>2. checkouts' \subseteq checkouts
  OBVIOUS
<1>3. ASSUME NEW r \in Resource, slot'[r].lc \in InFlightLifecycle
      PROVE  /\ slot'[r].proof = NoProof
             /\ \E k \in checkouts' : k.res = r /\ CheckoutMatches(slot'[r], k)
  <2>1. slot'[r] = slot[r]
    BY <1>1, <1>3, CourseFacts
  <2>2. PICK m \in checkouts : m.res = r /\ CheckoutMatches(slot[r], m)
    BY <1>1, <1>3, <2>1 DEF Custody
  <2>3. m \in checkouts'
    BY <1>3, <2>2
  <2> QED
    BY <1>1, <1>3, <2>1, <2>2, <2>3 DEF Custody
<1>4. \A k, m \in checkouts' : k.ck <= nextCheckout' /\ (k.ck = m.ck => k = m)
  BY <1>1, <1>2 DEF Custody
<1>5. Custody'
  <2>1. \A r \in Resource : slot'[r].lc \in InFlightLifecycle =>
          /\ slot'[r].proof = NoProof
          /\ \E k \in checkouts' : k.res = r /\ CheckoutMatches(slot'[r], k)
    BY <1>3
  <2> QED
    BY <1>4, <2>1 DEF Custody, CheckoutMatches
<1>6. ShutdownAbandonsClaimed'
  <2>1. \A r \in Resource : shuttingDown' /\ slot'[r].stage = "claimed" => slot'[r].abandoned
    BY <1>1, CourseFacts
  <2> QED
    BY <2>1 DEF ShutdownAbandonsClaimed
<1> QED
  BY <1>5, <1>6

\* A checkout puts one entry in flight, without its proof, under a number of its own.
LEMMA CheckoutKeepsCustody ==
  ASSUME CustodyInv, NEW c \in Claim, NEW action \in CheckoutAction, Checkout(c, action)
  PROVE  /\ Custody' /\ ShutdownAbandonsClaimed'
         /\ \A r \in Resource : slot'[r].gen = slot[r].gen
<1>1. IInv /\ Custody /\ ShutdownAbandonsClaimed
  BY DEF CustodyInv
<1>2. PICK r \in LeaseOf(c) :
        /\ CheckoutAllowed(slot[r], action)
        /\ slot' = [slot EXCEPT ![r] = CheckedOut(slot[r], action, nextCheckout + 1)]
        /\ checkouts' = checkouts \cup {CheckoutOf(r, slot[r], action, nextCheckout + 1)}
  BY DEF Checkout
<1> DEFINE e == CheckedOut(slot[r], action, nextCheckout + 1)
           k == CheckoutOf(r, slot[r], action, nextCheckout + 1)
<1>3. /\ r \in Resource /\ nextCheckout \in Nat /\ nextCheckout' = nextCheckout + 1
      /\ slot \in [Resource -> Entry] /\ UNCHANGED shuttingDown
  BY <1>1, <1>2, Constants DEF LeaseOf, Checkout, IInv, TokensOK, SlotsOK, Unheld
<1>4. /\ Owned(e) /\ e.gen = slot[r].gen /\ e.claim = slot[r].claim /\ e.rt = slot[r].rt
      /\ e.proof = NoProof /\ e.ck = nextCheckout + 1 /\ e.prev = slot[r].lc
      /\ e.lc = InFlightOf(action)
  <2>1. WellFormed(slot[r]) /\ nextCheckout + 1 \in Nat \ {0}
    BY <1>1, <1>3, EntryFacts
  <2> QED
    BY <1>2, <2>1, CheckedOutEntry
<1>5. /\ k.res = r /\ k.ck = nextCheckout + 1 /\ k.gen = slot[r].gen
      /\ k.claim = slot[r].claim /\ k.rt = slot[r].rt /\ k.prev = slot[r].lc
      /\ k.action = action
  BY DEF CheckoutOf
<1>6. CheckoutMatches(e, k)
  BY <1>4, <1>5 DEF CheckoutMatches
<1>7. slot' = [slot EXCEPT ![r] = e] /\ checkouts' = checkouts \cup {k}
  BY <1>2
<1> HIDE DEF e, k
<1>8. \A s \in Resource : slot'[s] = IF s = r THEN e ELSE slot[s]
  BY <1>3, <1>7
<1>9. \A s \in Resource : slot'[s].lc \in InFlightLifecycle =>
        /\ slot'[s].proof = NoProof
        /\ \E m \in checkouts' : m.res = s /\ CheckoutMatches(slot'[s], m)
  BY <1>1, <1>4, <1>5, <1>6, <1>7, <1>8 DEF Custody
<1>10. \A m \in checkouts : m.ck \in Nat /\ m.ck <= nextCheckout
  BY <1>1, Constants DEF Custody, IInv, TokensOK, CheckoutToken
<1>11. \A m, n \in checkouts' : m.ck <= nextCheckout' /\ (m.ck = n.ck => m = n)
  BY <1>1, <1>3, <1>5, <1>7, <1>10 DEF Custody
<1>12. Custody'
  BY <1>9, <1>11 DEF Custody, CheckoutMatches
<1>13. ShutdownAbandonsClaimed'
  BY <1>1, <1>3, <1>4, <1>8 DEF ShutdownAbandonsClaimed, Owned
<1> QED
  BY <1>4, <1>8, <1>12, <1>13

\* Nothing is in flight at first,
LEMMA CustodyInit == Init => CustodyInv
<1> SUFFICES ASSUME Init PROVE CustodyInv
  OBVIOUS
<1>1. \A r \in Resource : slot[r] = Vacant
  BY Zenon DEF Init
<1>2. checkouts = {} /\ shuttingDown = FALSE
  BY Zenon DEF Init
<1>3. Vacant.lc \notin InFlightLifecycle
  BY DEF Vacant, InFlightLifecycle
<1>4. Custody /\ ShutdownAbandonsClaimed
  BY <1>1, <1>2, <1>3 DEF Custody, ShutdownAbandonsClaimed
<1> QED
  BY <1>4, InvInit DEF CustodyInv

\* and every step keeps each entry in flight in somebody's custody.
LEMMA CustodyNext == CustodyInv /\ [Next]_vars => CustodyInv'
<1> SUFFICES ASSUME CustodyInv, [Next]_vars PROVE CustodyInv'
  OBVIOUS
<1>1. IInv /\ IInv'
  BY InvNext DEF CustodyInv
<1>2. CASE Next
  BY <1>1, <1>2, NextCourse, CourseKeepsCustody, CheckoutKeepsCustody DEF CustodyInv
<1>3. CASE UNCHANGED vars
  <2>1. Course /\ UNCHANGED <<checkouts, nextCheckout>>
    BY <1>3 DEF vars, counters, tokens, Course
  <2> QED
    BY <1>1, <2>1, CourseKeepsCustody DEF CustodyInv
<1> QED
  BY <1>2, <1>3

\* The inductive invariant.
LEMMA CustodyInvariance == Spec => []CustodyInv
BY CustodyInit, CustodyNext, PTL DEF Spec

-----------------------------------------------------------------------------
(***************************************************************************)
(* The theorems                                                            *)
(***************************************************************************)

\* An entry in flight has exactly one checkout that can settle it, which has the proof:
\* it is neither stuck nor completed twice (slot.rs, the checkout methods).
THEOREM EveryFlightInCustody == Spec => []CheckoutCustody
<1>1. CustodyInv => CheckoutCustody
  <2> SUFFICES ASSUME CustodyInv, NEW r \in Resource, slot[r].lc \in InFlightLifecycle
               PROVE  /\ slot[r].proof = NoProof
                      /\ \E k \in checkouts : k.res = r /\ CheckoutMatches(slot[r], k)
                      /\ \A k, m \in checkouts :
                           k.res = r /\ m.res = r
                             /\ CheckoutMatches(slot[r], k) /\ CheckoutMatches(slot[r], m)
                             => k = m
    BY DEF CheckoutCustody
  <2>1. \A k, m \in checkouts :
          CheckoutMatches(slot[r], k) /\ CheckoutMatches(slot[r], m) => k.ck = m.ck
    BY DEF CheckoutMatches
  <2> QED
    BY <2>1 DEF CustodyInv, Custody
<1> QED
  BY <1>1, CustodyInvariance, PTL

\* No slot that was claimed before or during shutdown is left unmarked: begin_shutdown
\* and a promotion that comes after it mark it alike (slot.rs).
THEOREM ShutdownMarksClaimed == Spec => []ShutdownAbandonsClaimed
<1>1. CustodyInv => ShutdownAbandonsClaimed
  BY DEF CustodyInv
<1> QED
  BY <1>1, CustodyInvariance, PTL

\* An entry goes only with a token of its own generation: a stale lease, beat, handle,
\* checkout or attachment frees nothing (release, complete and close in slot.rs).
THEOREM GoesWithItsHolder == Spec => FreedByItsHolder
<1>1. CustodyInv /\ [Next]_vars =>
        [\A r \in Resource :
           Occupied(slot[r]) /\ slot'[r].gen # slot[r].gen => HolderGoes(r)]_vars
  <2> SUFFICES ASSUME CustodyInv, Next, NEW r \in Resource,
                      Occupied(slot[r]), slot'[r].gen # slot[r].gen
               PROVE  HolderGoes(r)
    OBVIOUS
  <2>1. IInv
    BY DEF CustodyInv
  <2>2. Course
    BY <2>1, NextCourse, CheckoutKeepsCustody
  <2> QED
    BY <2>1, <2>2, CourseFacts
<1>2. [][\A r \in Resource :
           Occupied(slot[r]) /\ slot'[r].gen # slot[r].gen => HolderGoes(r)]_vars
        <=> FreedByItsHolder
  BY DEF FreedByItsHolder, HolderGoes
<1> QED
  BY <1>1, <1>2, CustodyInvariance, PTL DEF Spec
=============================================================================
