-------------------------- MODULE SlotEntryProofs --------------------------
(***************************************************************************)
(* What the operators of SlotEntry return: each keeps an entry well formed *)
(* and says which fields it leaves alone.                                  *)
(***************************************************************************)
EXTENDS SlotEntry, TLAPS

WellFormed(e) == e \in Entry /\ StageShape(e)

ProofOption     == Proof \cup {NoProof}
ClaimOption     == Claim \cup {NoClaim}
LifecycleOption == Lifecycle \cup {"none"}

\* The lifecycle sets are disjoint where the entry's shape relies on it.
LEMMA LifecycleSets ==
  /\ IdleLifecycle \subseteq LifecycleOption /\ InFlightLifecycle \subseteq LifecycleOption
  /\ \A lc \in IdleLifecycle : lc # "none" /\ lc \notin InFlightLifecycle
  /\ \A lc \in InFlightLifecycle : lc # "none"
  /\ "none" \in LifecycleOption /\ "none" \notin InFlightLifecycle
BY DEF Lifecycle, LifecycleOption, IdleLifecycle, InFlightLifecycle

\* A vacant slot is well formed.
LEMMA VacantEntry == WellFormed(Vacant) /\ ~Occupied(Vacant) /\ Vacant.proof = NoProof /\ Vacant.gen = 0
BY NoClaimAssumption
   DEF WellFormed, Vacant, Entry, StageShape, Occupied, Owned, Lifecycle, IdleLifecycle,
       InFlightLifecycle

\* A pending slot has its generation and no proof.
LEMMA LocalPendingEntry ==
  ASSUME NEW gen \in Nat \ {0}, NEW kind \in {"mutation", "recovery-decision"}
  PROVE  LET f == LocalPending(gen, kind)
         IN  WellFormed(f) /\ Occupied(f) /\ f.gen = gen /\ f.proof = NoProof
BY NoClaimAssumption
   DEF WellFormed, LocalPending, Vacant, Entry, StageShape, Occupied, Owned, Lifecycle,
       IdleLifecycle, InFlightLifecycle

\* Promotion keeps the generation.
LEMMA ClaimedEntryShape ==
  ASSUME NEW e, WellFormed(e), e.stage = "pending",
         NEW claim \in Claim, NEW abandoned \in BOOLEAN
  PROVE  LET f == ClaimedEntry(e, claim, abandoned)
         IN  WellFormed(f) /\ Occupied(f) /\ f.gen = e.gen /\ f.proof = NoProof
<1> DEFINE f == ClaimedEntry(e, claim, abandoned)
<1>1. e \in Entry
  BY DEF WellFormed
<1>2. claim \in Claim \cup {NoClaim} /\ "claimed" \in {"vacant", "pending", "claimed", "owned"}
  OBVIOUS
<1>3. f \in Entry
  BY <1>1, <1>2, Zenon DEF Entry, ClaimedEntry
<1>4. /\ f.stage = "claimed" /\ f.claim = claim /\ f.abandoned = abandoned
      /\ f.gen = e.gen /\ f.lc = e.lc /\ f.proof = e.proof /\ f.rt = e.rt
      /\ f.ck = e.ck /\ f.prev = e.prev /\ f.qalr = e.qalr
  BY <1>1 DEF Entry, ClaimedEntry
<1> HIDE DEF f
<1>5. e.proof = NoProof
  BY DEF WellFormed, StageShape, Owned
<1>6. StageShape(f) /\ Occupied(f)
  BY <1>4, NoClaimAssumption DEF WellFormed, StageShape, Occupied, Owned
<1> QED
  BY <1>3, <1>4, <1>5, <1>6 DEF f, WellFormed

\* A registered entry has its generation and no proof yet.
LEMMA RuntimeOwnedEntry ==
  ASSUME NEW gen \in Nat \ {0}, NEW claim \in Claim, NEW rt \in Nat, NEW lc \in IdleLifecycle
  PROVE  LET f == RuntimeOwned(gen, claim, rt, lc)
         IN  WellFormed(f) /\ Occupied(f) /\ f.gen = gen /\ f.proof = NoProof
<1> DEFINE f == RuntimeOwned(gen, claim, rt, lc)
<1>1. Vacant \in Entry
  BY VacantEntry DEF WellFormed
<1>2. lc \in Lifecycle \cup {"none"} /\ claim \in Claim \cup {NoClaim} /\ gen \in Nat
      /\ "owned" \in {"vacant", "pending", "claimed", "owned"}
  BY LifecycleSets DEF LifecycleOption
<1>3. f \in Entry
  BY <1>1, <1>2, Zenon DEF Entry, RuntimeOwned
<1>4. /\ f.stage = "owned" /\ f.gen = gen /\ f.claim = claim /\ f.rt = rt /\ f.lc = lc
      /\ f.proof = NoProof /\ f.ck = 0 /\ f.prev = "none" /\ f.qalr = FALSE
      /\ f.abandoned = FALSE
  BY DEF RuntimeOwned, Vacant
<1> HIDE DEF f
<1>5. StageShape(f) /\ Occupied(f)
  BY <1>4, LifecycleSets, NoClaimAssumption DEF StageShape, Occupied, Owned
<1> QED
  BY <1>3, <1>4, <1>5 DEF f, WellFormed

\* Settling an owned entry leaves its identity alone.
LEMMA SettledEntry ==
  ASSUME NEW e, WellFormed(e), Owned(e), NEW lc \in IdleLifecycle,
         NEW proof \in ProofOption, NEW qalr \in BOOLEAN
  PROVE  LET f == Settled(e, lc, proof, qalr)
         IN  /\ WellFormed(f) /\ Owned(f) /\ f.gen = e.gen /\ f.claim = e.claim
             /\ f.rt = e.rt /\ f.proof = proof /\ f.ck = 0 /\ f.lc = lc
<1> DEFINE f == Settled(e, lc, proof, qalr)
<1>1. e \in Entry
  BY DEF WellFormed
<1>2. lc \in Lifecycle \cup {"none"} /\ "none" \in Lifecycle \cup {"none"}
  BY LifecycleSets DEF LifecycleOption
<1>3. proof \in Proof \cup {NoProof}
  BY DEF ProofOption
<1>4. f \in Entry
  BY <1>1, <1>2, <1>3, Zenon DEF Entry, Settled
<1>5. /\ f.stage = e.stage /\ f.gen = e.gen /\ f.claim = e.claim /\ f.rt = e.rt
      /\ f.abandoned = e.abandoned
      /\ f.lc = lc /\ f.ck = 0 /\ f.prev = "none" /\ f.qalr = qalr /\ f.proof = proof
  BY <1>1 DEF Entry, Settled
<1> HIDE DEF f
<1>6. StageShape(f) /\ Owned(f)
  BY <1>5, LifecycleSets DEF WellFormed, StageShape, Occupied, Owned
<1> QED
  BY <1>4, <1>5, <1>6 DEF f, WellFormed

\* A checked out entry keeps its identity and has no proof.
LEMMA CheckedOutEntry ==
  ASSUME NEW e, WellFormed(e), NEW action \in CheckoutAction, CheckoutAllowed(e, action),
         NEW ck \in Nat \ {0}
  PROVE  LET f == CheckedOut(e, action, ck)
         IN  /\ WellFormed(f) /\ Owned(f) /\ f.gen = e.gen /\ f.claim = e.claim
             /\ f.rt = e.rt /\ f.proof = NoProof /\ f.ck = ck /\ f.prev = e.lc
             /\ f.lc = InFlightOf(action) /\ f.lc \in InFlightLifecycle
<1> DEFINE f == CheckedOut(e, action, ck)
<1>1. e \in Entry
  BY DEF WellFormed
<1>2. InFlightOf(action) \in InFlightLifecycle
  BY DEF InFlightOf, CheckoutAction, InFlightLifecycle
<1>3. InFlightOf(action) \in Lifecycle \cup {"none"} /\ e.lc \in Lifecycle \cup {"none"}
  BY <1>1, <1>2 DEF Entry, Lifecycle
<1>4. f \in Entry
  BY <1>1, <1>3, Zenon DEF Entry, CheckedOut
<1>5. /\ f.stage = e.stage /\ f.gen = e.gen /\ f.claim = e.claim /\ f.rt = e.rt
      /\ f.abandoned = e.abandoned /\ f.qalr = e.qalr
      /\ f.lc = InFlightOf(action) /\ f.ck = ck /\ f.prev = e.lc /\ f.proof = NoProof
  BY <1>1 DEF Entry, CheckedOut
<1>6. Owned(e) /\ e.lc # "none"
  BY DEF CheckoutAllowed, WellFormed, StageShape
<1> HIDE DEF f
<1>7. StageShape(f) /\ Owned(f)
  BY <1>2, <1>5, <1>6, LifecycleSets DEF WellFormed, StageShape, Occupied, Owned
<1> QED
  BY <1>2, <1>4, <1>5, <1>7 DEF f, WellFormed

\* An owned entry given another claim and runtime instance.
LEMMA RekeyedEntry ==
  ASSUME NEW e, WellFormed(e), Owned(e), NEW claim \in Claim, NEW rt \in Nat
  PROVE  LET f == Rekeyed(e, claim, rt)
         IN  /\ WellFormed(f) /\ Owned(f) /\ f.gen = e.gen /\ f.claim = claim
             /\ f.proof = e.proof /\ f.ck = e.ck /\ f.lc = e.lc
<1> DEFINE f == Rekeyed(e, claim, rt)
<1>1. e \in Entry
  BY DEF WellFormed
<1>2. claim \in Claim \cup {NoClaim}
  OBVIOUS
<1>3. f \in Entry
  BY <1>1, <1>2, Zenon DEF Entry, Rekeyed
<1>4. /\ f.stage = e.stage /\ f.gen = e.gen /\ f.claim = claim /\ f.rt = rt
      /\ f.abandoned = e.abandoned /\ f.lc = e.lc /\ f.ck = e.ck /\ f.prev = e.prev
      /\ f.qalr = e.qalr /\ f.proof = e.proof
  BY <1>1 DEF Entry, Rekeyed
<1> HIDE DEF f
<1>5. StageShape(f) /\ Owned(f)
  BY <1>4, NoClaimAssumption DEF WellFormed, StageShape, Occupied, Owned
<1> QED
  BY <1>3, <1>4, <1>5 DEF f, WellFormed

\* A proof put into an owned entry.
LEMMA SealedEntry ==
  ASSUME NEW e, WellFormed(e), Owned(e), NEW proof \in ProofOption
  PROVE  LET f == Sealed(e, proof)
         IN  /\ WellFormed(f) /\ Owned(f) /\ f.gen = e.gen /\ f.claim = e.claim
             /\ f.rt = e.rt /\ f.proof = proof /\ f.ck = e.ck /\ f.lc = e.lc /\ f.prev = e.prev
<1> DEFINE f == Sealed(e, proof)
<1>1. e \in Entry
  BY DEF WellFormed
<1>2. proof \in Proof \cup {NoProof}
  BY DEF ProofOption
<1>3. f \in Entry
  BY <1>1, <1>2, Zenon DEF Entry, Sealed
<1>4. /\ f.stage = e.stage /\ f.gen = e.gen /\ f.claim = e.claim /\ f.rt = e.rt
      /\ f.abandoned = e.abandoned /\ f.lc = e.lc /\ f.ck = e.ck /\ f.prev = e.prev
      /\ f.qalr = e.qalr /\ f.proof = proof
  BY <1>1 DEF Entry, Sealed
<1> HIDE DEF f
<1>5. StageShape(f) /\ Owned(f)
  BY <1>4 DEF WellFormed, StageShape, Occupied, Owned
<1> QED
  BY <1>3, <1>4, <1>5 DEF f, WellFormed

\* A settled entry moved to another settled lifecycle.
LEMMA MovedEntry ==
  ASSUME NEW e, WellFormed(e), Owned(e), e.lc \in IdleLifecycle, NEW lc \in IdleLifecycle
  PROVE  LET f == Moved(e, lc)
         IN  /\ WellFormed(f) /\ Owned(f) /\ f.gen = e.gen /\ f.claim = e.claim
             /\ f.rt = e.rt /\ f.proof = e.proof /\ f.ck = e.ck /\ f.lc = lc
<1> DEFINE f == Moved(e, lc)
<1>1. e \in Entry
  BY DEF WellFormed
<1>2. lc \in Lifecycle \cup {"none"}
  BY LifecycleSets DEF LifecycleOption
<1>3. f \in Entry
  BY <1>1, <1>2, Zenon DEF Entry, Moved
<1>4. /\ f.stage = e.stage /\ f.gen = e.gen /\ f.claim = e.claim /\ f.rt = e.rt
      /\ f.abandoned = e.abandoned /\ f.lc = lc /\ f.ck = e.ck /\ f.prev = e.prev
      /\ f.qalr = e.qalr /\ f.proof = e.proof
  BY <1>1 DEF Entry, Moved
<1> HIDE DEF f
<1>5. StageShape(f) /\ Owned(f)
  BY <1>4, LifecycleSets DEF WellFormed, StageShape, Occupied, Owned
<1> QED
  BY <1>3, <1>4, <1>5 DEF f, WellFormed
=============================================================================
