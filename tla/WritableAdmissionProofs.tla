---------------------- MODULE WritableAdmissionProofs ----------------------
(***************************************************************************)
(* One writer per file, for any windows, sessions, files and bounds. The   *)
(* invariant carries along that proofs are numbered in the order they are  *)
(* issued, which is what makes the proof of a new grant a new one.         *)
(***************************************************************************)
EXTENDS WritableAdmission, TLAPS

ProofsIssued == \A g \in active : g.proof <= issued

AuthorityInv == TypeOK /\ OneWriterPerFile /\ ProofsIssued

Step(w) ==
    \/ \E k \in Keys, t \in Target : Admit(w, k, t)
    \/ \E p \in 1..MaxGrants : Retain(w, p) \/ Release(w, p)
    \/ \E p \in 1..MaxGrants, t \in Target : RefreshAfterWrite(w, p, t)
    \/ DetachCaller(w)

\* Nothing is granted at first.
LEMMA InitAuthority == Init => AuthorityInv
  BY GrantBounds DEF Init, AuthorityInv, TypeOK, OneWriterPerFile, ProofsIssued

\* A grant that keeps its proof, window, key and target stays in its place
\* whatever its count: what retain and release do to the set.
LEMMA CountKept ==
  ASSUME AuthorityInv, NEW g \in active, NEW n \in 1..MaxRefs,
         active' = (active \ {g}) \cup {[g EXCEPT !.refs = n]}, issued' = issued
  PROVE  AuthorityInv'
<1> DEFINE h == [g EXCEPT !.refs = n]
<1>1. h \in Grant /\ h.proof = g.proof /\ h.key = g.key /\ h.target = g.target
  BY DEF AuthorityInv, TypeOK, Grant
<1>2. TypeOK'
  BY <1>1 DEF AuthorityInv, TypeOK
<1>3. OneWriterPerFile'
  <2> SUFFICES ASSUME NEW a \in active', NEW b \in active', a # b
               PROVE  /\ a.proof # b.proof /\ a.key # b.key
                      /\ ~TargetsConflict(a.target, b.target)
    BY DEF OneWriterPerFile
  <2>1. CASE a = h
    <3>1. b \in active /\ b # g
      BY <2>1
    <3> QED
      BY <1>1, <2>1, <3>1 DEF AuthorityInv, OneWriterPerFile
  <2>2. CASE a # h /\ b = h
    <3>1. a \in active /\ a # g
      BY <2>2
    <3> QED
      BY <1>1, <2>2, <3>1 DEF AuthorityInv, OneWriterPerFile
  <2>3. CASE a # h /\ b # h
    BY <2>3 DEF AuthorityInv, OneWriterPerFile
  <2> QED
    BY <2>1, <2>2, <2>3
<1>4. ProofsIssued'
  BY <1>1 DEF AuthorityInv, ProofsIssued
<1> QED
  BY <1>2, <1>3, <1>4 DEF AuthorityInv

\* Taking grants away disturbs none of the others.
LEMMA FewerGrants ==
  ASSUME AuthorityInv, active' \subseteq active, issued' = issued
  PROVE  AuthorityInv'
  BY DEF AuthorityInv, TypeOK, OneWriterPerFile, ProofsIssued

\* A new grant has a proof nobody has and conflicts with nobody.
LEMMA AdmitAuthority ==
  ASSUME AuthorityInv, NEW w \in Windows, NEW k \in Keys, NEW t \in Target, Admit(w, k, t)
  PROVE  AuthorityInv'
<1> DEFINE n == NewGrant(issued + 1, w, k, t)
<1>1. n \in Grant /\ n.proof = issued + 1 /\ n.key = k /\ n.target = t
  BY GrantBounds DEF AuthorityInv, TypeOK, Admit, NewGrant, Grant
<1>2. active' = active \cup {n} /\ issued' = issued + 1 /\ issued \in Nat
  BY GrantBounds DEF Admit, AuthorityInv, TypeOK
<1>3. \A g \in active : g.proof # n.proof /\ g.key # k /\ ~TargetsConflict(g.target, t)
  BY <1>1, <1>2 DEF AuthorityInv, TypeOK, Grant, ProofsIssued, Admit, Admissible
<1>4. TypeOK'
  BY <1>1, <1>2, GrantBounds DEF AuthorityInv, TypeOK, Admit
<1>5. \A g \in active : ~TargetsConflict(t, g.target)
  BY <1>3 DEF TargetsConflict
<1>6. OneWriterPerFile'
  BY <1>1, <1>2, <1>3, <1>5 DEF AuthorityInv, OneWriterPerFile
<1>7. ProofsIssued'
  BY <1>1, <1>2 DEF AuthorityInv, TypeOK, Grant, ProofsIssued
<1> QED
  BY <1>4, <1>6, <1>7 DEF AuthorityInv

\* A refresh moves one grant to a target it has alone.
LEMMA RefreshAuthority ==
  ASSUME AuthorityInv, NEW w \in Windows, NEW p \in 1..MaxGrants, NEW t \in Target,
         RefreshAfterWrite(w, p, t)
  PROVE  AuthorityInv'
<1>1. PICK g \in active : /\ g.proof = p /\ RefreshAllowed(active, g, t)
                          /\ active' = Refreshed(active, g, t) /\ issued' = issued
  BY DEF RefreshAfterWrite, OwnedBy
<1> DEFINE h == [g EXCEPT !.target = t]
<1>2. h \in Grant /\ h.proof = g.proof /\ h.key = g.key /\ h.target = t
  BY DEF AuthorityInv, TypeOK, Grant
<1>3. active' = (active \ {g}) \cup {h}
  BY <1>1 DEF Refreshed
<1>4. \A a \in active : a # g => /\ a.proof # g.proof /\ a.key # g.key
                                 /\ ~TargetsConflict(a.target, t)
                                 /\ ~TargetsConflict(t, a.target)
  BY <1>1 DEF AuthorityInv, OneWriterPerFile, RefreshAllowed, TargetsConflict
<1>5. TypeOK'
  BY <1>1, <1>2, <1>3 DEF AuthorityInv, TypeOK
<1>6. OneWriterPerFile'
  <2> SUFFICES ASSUME NEW a \in active', NEW b \in active', a # b
               PROVE  /\ a.proof # b.proof /\ a.key # b.key
                      /\ ~TargetsConflict(a.target, b.target)
    BY DEF OneWriterPerFile
  <2>1. CASE a = h
    <3>1. b \in active /\ b # g
      BY <1>3, <2>1
    <3> QED
      BY <1>2, <1>4, <2>1, <3>1
  <2>2. CASE a # h /\ b = h
    <3>1. a \in active /\ a # g
      BY <1>3, <2>2
    <3> QED
      BY <1>2, <1>4, <2>2, <3>1
  <2>3. CASE a # h /\ b # h
    BY <1>3, <2>3 DEF AuthorityInv, OneWriterPerFile
  <2> QED
    BY <2>1, <2>2, <2>3
<1>7. ProofsIssued'
  BY <1>1, <1>2, <1>3 DEF AuthorityInv, ProofsIssued
<1> QED
  BY <1>5, <1>6, <1>7 DEF AuthorityInv

LEMMA StepAuthority ==
  ASSUME AuthorityInv, NEW w \in Windows, Step(w)
  PROVE  AuthorityInv'
<1>1. ASSUME NEW k \in Keys, NEW t \in Target, Admit(w, k, t) PROVE AuthorityInv'
  BY <1>1, AdmitAuthority
<1>2. ASSUME NEW p \in 1..MaxGrants, Retain(w, p) PROVE AuthorityInv'
  <2>1. PICK g \in active : /\ g.refs < MaxRefs /\ issued' = issued
                            /\ active' = Retained(active, g)
    BY <1>2 DEF Retain, OwnedBy
  <2>2. g.refs + 1 \in 1..MaxRefs
    BY <2>1, GrantBounds DEF AuthorityInv, TypeOK, Grant
  <2>3. active' = (active \ {g}) \cup {[g EXCEPT !.refs = g.refs + 1]}
    BY <2>1 DEF Retained
  <2> QED
    BY <2>1, <2>2, <2>3, CountKept
<1>3. ASSUME NEW p \in 1..MaxGrants, Release(w, p) PROVE AuthorityInv'
  <2>1. PICK g \in active : active' = Released(active, g) /\ issued' = issued
    BY <1>3 DEF Release, OwnedBy
  <2>2. CASE g.refs > 1
    <3>1. g.refs - 1 \in 1..MaxRefs
      BY <2>2, GrantBounds DEF AuthorityInv, TypeOK, Grant
    <3>2. active' = (active \ {g}) \cup {[g EXCEPT !.refs = g.refs - 1]}
      BY <2>1, <2>2 DEF Released
    <3> QED
      BY <2>1, <3>1, <3>2, CountKept
  <2>3. CASE ~(g.refs > 1)
    BY <2>1, <2>3, FewerGrants DEF Released
  <2> QED
    BY <2>2, <2>3
<1>4. ASSUME NEW p \in 1..MaxGrants, NEW t \in Target, RefreshAfterWrite(w, p, t)
      PROVE AuthorityInv'
  BY <1>4, RefreshAuthority
<1>5. ASSUME DetachCaller(w) PROVE AuthorityInv'
  BY <1>5, FewerGrants DEF DetachCaller, Detached
<1> QED
  BY <1>1, <1>2, <1>3, <1>4, <1>5 DEF Step

LEMMA NextAuthority == AuthorityInv /\ [Next]_authority => AuthorityInv'
<1> SUFFICES ASSUME AuthorityInv, [Next]_authority PROVE AuthorityInv'
  OBVIOUS
<1>1. CASE UNCHANGED authority
  BY <1>1 DEF authority, AuthorityInv, TypeOK, OneWriterPerFile, ProofsIssued
<1>2. CASE Next
  BY <1>2, StepAuthority DEF Next, Step
<1> QED
  BY <1>1, <1>2

LEMMA AuthorityHolds == Spec => []AuthorityInv
  BY InitAuthority, NextAuthority, PTL DEF Spec

\* Every grant has the fields of StoredAdmission and a count of at least one,
\* whatever windows ask for.
THEOREM TypeCorrect == Spec => []TypeOK
<1>1. AuthorityInv => TypeOK
  BY DEF AuthorityInv
<1> QED
  BY <1>1, AuthorityHolds, PTL

\* At most one grant covers a file and a session (admit, refresh_after_write).
THEOREM WritersExcluded == Spec => []OneWriterPerFile
<1>1. AuthorityInv => OneWriterPerFile
  BY DEF AuthorityInv
<1> QED
  BY <1>1, AuthorityHolds, PTL

\* A released or detached proof never comes back into force.
THEOREM DeadStayDead == Spec => ProofsStayDead
<1>1. ASSUME AuthorityInv, [Next]_authority
      PROVE  [\A p \in 1..issued : (\E g \in active' : g.proof = p)
                                     => (\E g \in active : g.proof = p)]_authority
  <2> SUFFICES ASSUME Next, NEW p \in 1..issued, NEW g \in active', g.proof = p
               PROVE  \E a \in active : a.proof = p
    BY <1>1
  <2>1. PICK w \in Windows : Step(w)
    BY DEF Next, Step
  <2>2. ASSUME NEW k \in Keys, NEW t \in Target, Admit(w, k, t) PROVE g \in active
    BY <2>2, <1>1, GrantBounds DEF Admit, NewGrant, AuthorityInv, TypeOK
  <2>3. ASSUME NEW a \in active, NEW b, b.proof = a.proof,
               active' = (active \ {a}) \cup {b} \/ active' = active \ {a}
        PROVE  \E x \in active : x.proof = p
    BY <2>3
  <2>4. ASSUME NEW q \in 1..MaxGrants, Retain(w, q) \/ Release(w, q)
        PROVE  \E x \in active : x.proof = p
    <3>1. PICK a \in active : active' = Retained(active, a) \/ active' = Released(active, a)
      BY <2>4 DEF Retain, Release, OwnedBy
    <3>2. \A n : [a EXCEPT !.refs = n].proof = a.proof
      BY <1>1 DEF AuthorityInv, TypeOK, Grant
    <3> QED
      BY <2>3, <3>1, <3>2 DEF Retained, Released
  <2>5. ASSUME NEW q \in 1..MaxGrants, NEW t \in Target, RefreshAfterWrite(w, q, t)
        PROVE  \E x \in active : x.proof = p
    <3>1. PICK a \in active : active' = Refreshed(active, a, t)
      BY <2>5 DEF RefreshAfterWrite, OwnedBy
    <3>2. [a EXCEPT !.target = t].proof = a.proof
      BY <1>1 DEF AuthorityInv, TypeOK, Grant
    <3> QED
      BY <2>3, <3>1, <3>2 DEF Refreshed
  <2>6. ASSUME DetachCaller(w) PROVE g \in active
    BY <2>6 DEF DetachCaller, Detached
  <2> QED
    BY <2>1, <2>2, <2>4, <2>5, <2>6 DEF Step
<1> QED
  BY <1>1, AuthorityHolds, PTL DEF Spec, ProofsStayDead
=============================================================================
