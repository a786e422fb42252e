---------------------- MODULE ManuscriptSessionProofs ----------------------
(***************************************************************************)
(* The session runtimes use the native authority only as it may be used,   *)
(* for any windows, keys, consumers, calls and bounds: every step of the   *)
(* runtimes is a step of WritableAdmission or leaves it alone.  What has   *)
(* to be carried along is little: that a call asking for admission has a   *)
(* window and a key, that the file has a physical identity, and the types  *)
(* of the authority itself.  That every other call is not asking for       *)
(* admission is what the first lemmas are about.                           *)
(*                                                                         *)
(* The second half is about the sessions themselves: their drafts are      *)
(* marked as they are, writes replace only what was read, and an operation *)
(* in progress has a call at work.  The file moves through its revisions   *)
(* in an order; every session is based on one of them, a call that brings  *)
(* a revision to its session brings a newer one as long as its token is    *)
(* the session's, and no two calls have the same token of one session.     *)
(*                                                                         *)
(* The third part is about unsaved text: whoever is about to let a session *)
(* go, or to read it anew, has found it clean or goes by the user's        *)
(* decision, and what becomes unsaved behind its back is marked late.      *)
(*                                                                         *)
(* The last part counts the references of the shared grants: between the   *)
(* calls of a window the accounts are even, and each step of a call says   *)
(* what it owes or is owed (Ledger).                                       *)
(***************************************************************************)
EXTENDS ManuscriptSession, FiniteSetTheorems, SequenceTheorems, TLAPS

Proved == INSTANCE WritableAdmissionProofs WITH Refs <- {File}, Paths <- {File}

Fields == {"op", "at", "w", "s", "h", "reply", "key", "consumer", "tok", "saved",
           "base", "expected", "proof", "decision", "applied", "n", "todo"}

Formed(r) == r = [f \in Fields |-> r[f]]

CallOK(r) ==
    \/ r = Idle
    \/ Formed(r) /\ (r.at = "acquire" => r.w \in Windows /\ r.key \in Keys)

CallsOK == calls = [c \in Calls |-> calls[c]] /\ \A c \in Calls : CallOK(calls[c])

FileOK == disk.phys \in 0..MaxPhys

RuntimeInv == CallsOK /\ FileOK /\ Proved!AuthorityInv

-----------------------------------------------------------------------------
\* Call records

LEMMA RecordFormed ==
  ASSUME NEW v1, NEW v2, NEW v3, NEW v4, NEW v5, NEW v6, NEW v7
  PROVE  LET r == [op |-> v1, at |-> v2, w |-> v3, s |-> v4, h |-> v5, reply |-> v6,
                   key |-> v7, consumer |-> NoConsumer, tok |-> 0, saved |-> 0,
                   base |-> NoBase, expected |-> NoBase, proof |-> 0,
                   decision |-> "none", applied |-> FALSE, n |-> 0, todo |-> {}]
         IN  Formed(r) /\ r.at = v2 /\ r.w = v3
  BY DEF Formed, Fields

LEMMA NewCallFormed ==
  ASSUME NEW op, NEW at, NEW w, NEW s, NEW h
  PROVE  /\ Formed(NewCall(op, at, w, s, h))
         /\ NewCall(op, at, w, s, h).at = at
         /\ NewCall(op, at, w, s, h).w = w
<1> DEFINE k0 == CHOOSE k \in Keys : TRUE
<1> HIDE DEF k0
<1>1. NewCall(op, at, w, s, h) =
          [op |-> op, at |-> at, w |-> w, s |-> s, h |-> h, reply |-> Waiting,
           key |-> k0, consumer |-> NoConsumer, tok |-> 0, saved |-> 0,
           base |-> NoBase, expected |-> NoBase, proof |-> 0,
           decision |-> "none", applied |-> FALSE, n |-> 0, todo |-> {}]
  BY DEF NewCall, k0
<1> QED
  BY <1>1, RecordFormed

\* A call with something to answer is a formed record.
LEMMA Working ==
  ASSUME CallsOK, NEW c \in Calls, calls[c] # Idle
  PROVE  Formed(calls[c])
  BY DEF CallsOK, CallOK

LEMMA Asking ==
  ASSUME CallsOK, NEW c \in Calls, NEW at, at # "idle", calls[c].at = at
  PROVE  Formed(calls[c])
<1>1. calls[c] # Idle
  BY DEF Idle
<1> QED
  BY <1>1, Working

\* Only a record that asks for admission has anything to prove.
LEMMA PutKeeps ==
  ASSUME CallsOK, NEW c \in Calls, NEW rec, Put(c, rec), CallOK(rec)
  PROVE  CallsOK'
  BY DEF CallsOK, Put

LEMMA PutIdle ==
  ASSUME CallsOK, NEW c \in Calls, Put(c, Idle)
  PROVE  CallsOK'
  BY PutKeeps DEF CallOK

LEMMA PutFormed ==
  ASSUME CallsOK, NEW c \in Calls, NEW rec, Put(c, rec), Formed(rec), rec.at # "acquire"
  PROVE  CallsOK'
  BY PutKeeps DEF CallOK

LEMMA AwaitFormed ==
  ASSUME NEW r, Formed(r), NEW a, NEW b
  PROVE  LET q == [r EXCEPT !.at = a, !.reply = b] IN Formed(q) /\ q.at = a
  BY DEF Formed, Fields

LEMMA ReplyKeeps ==
  ASSUME CallsOK, NEW c \in Calls, NEW r, Reply(c, r), calls[c] # Idle
  PROVE  CallsOK'
<1> DEFINE q == [calls[c] EXCEPT !.reply = r]
<1>1. Formed(calls[c])
  BY Working
<1>2. Formed(q) /\ q.at = calls[c].at /\ q.w = calls[c].w /\ q.key = calls[c].key
  BY <1>1 DEF Formed, Fields
<1>3. CallOK(q)
  BY <1>2 DEF CallsOK, CallOK
<1>4. calls' = [calls EXCEPT ![c] = q]
  BY DEF Reply, CallsOK
<1> QED
  BY <1>3, <1>4 DEF CallsOK

-----------------------------------------------------------------------------
\* The steps several actions are made of

LEMMA ReleaseCall ==
  ASSUME CallsOK, NEW c \in Calls, NEW rec, Formed(rec), Release(c, rec)
  PROVE  CallsOK'
<1>1. ASSUME NEW p, Put(c, [rec EXCEPT !.at = "release", !.reply = Waiting, !.proof = p])
      PROVE  CallsOK'
  <2> DEFINE q == [rec EXCEPT !.at = "release", !.reply = Waiting, !.proof = p]
  <2>1. Formed(q) /\ q.at = "release"
    BY DEF Formed, Fields
  <2> QED
    BY <1>1, <2>1, PutFormed
<1>2. ASSUME Put(c, Rest(rec)) PROVE CallsOK'
  <2>1. Formed([rec EXCEPT !.at = "sweep"]) /\ [rec EXCEPT !.at = "sweep"].at = "sweep"
    BY DEF Formed, Fields
  <2> QED
    BY <1>2, <2>1, PutFormed, PutIdle DEF Rest
<1> QED
  BY <1>1, <1>2, PutIdle, Zenon DEF Release

LEMMA JoinCall ==
  ASSUME CallsOK, NEW c \in Calls, NEW rec, Formed(rec), NEW S, Join(c, rec, S)
  PROVE  CallsOK'
<1>1. ASSUME NEW p, Put(c, [rec EXCEPT !.at = "retain", !.reply = Waiting, !.proof = p])
      PROVE  CallsOK'
  <2> DEFINE q == [rec EXCEPT !.at = "retain", !.reply = Waiting, !.proof = p]
  <2>1. Formed(q) /\ q.at = "retain"
    BY DEF Formed, Fields
  <2> QED
    BY <1>1, <2>1, PutFormed
<1> QED
  BY <1>1, PutIdle, Zenon DEF Join

LEMMA AfterDemoteCall ==
  ASSUME CallsOK, NEW c \in Calls, NEW rec, Formed(rec), NEW S, AfterDemote(c, rec, S)
  PROVE  CallsOK'
  BY JoinCall, PutIdle DEF AfterDemote

LEMMA DemoteCall ==
  ASSUME CallsOK, NEW c \in Calls, NEW rec, Formed(rec), Demote(c, rec)
  PROVE  CallsOK'
<1>1. ASSUME NEW p, Put(c, [rec EXCEPT !.at = "demote", !.reply = Waiting,
                                       !.proof = p, !.n = 1])
      PROVE  CallsOK'
  <2> DEFINE q == [rec EXCEPT !.at = "demote", !.reply = Waiting, !.proof = p, !.n = 1]
  <2>1. Formed(q) /\ q.at = "demote"
    BY DEF Formed, Fields
  <2> QED
    BY <1>1, <2>1, PutFormed
<1> QED
  BY <1>1, AfterDemoteCall, Zenon DEF Demote

LEMMA LoadingCall ==
  ASSUME CallsOK, NEW c \in Calls, NEW rec, Formed(rec), NEW mode, NEW proof,
         StartLoading(c, rec, mode, proof)
  PROVE  CallsOK'
<1>1. ASSUME NEW s, NEW h, NEW t,
             Put(c, [rec EXCEPT !.at = "load", !.reply = Waiting, !.s = s, !.h = h,
                                !.tok = t, !.proof = proof])
      PROVE  CallsOK'
  <2> DEFINE q == [rec EXCEPT !.at = "load", !.reply = Waiting, !.s = s, !.h = h,
                              !.tok = t, !.proof = proof]
  <2>1. Formed(q) /\ q.at = "load"
    BY Zenon DEF Formed, Fields
  <2> QED
    BY <1>1, <2>1, PutFormed
<1> QED
  BY <1>1, Zenon DEF StartLoading

LEMMA RereadCall ==
  ASSUME CallsOK, NEW c \in Calls, NEW rec, Formed(rec), BeginReread(c, rec)
  PROVE  CallsOK'
<1>1. ASSUME NEW t, Put(c, [rec EXCEPT !.at = "reread", !.reply = Waiting, !.tok = t])
      PROVE  CallsOK'
  <2> DEFINE q == [rec EXCEPT !.at = "reread", !.reply = Waiting, !.tok = t]
  <2>1. Formed(q) /\ q.at = "reread"
    BY Zenon DEF Formed, Fields
  <2> QED
    BY <1>1, <2>1, PutFormed
<1> QED
  BY <1>1, PutIdle, Zenon DEF BeginReread

LEMMA SaveCall ==
  ASSUME CallsOK, NEW c \in Calls, NEW op, NEW w, NEW h, BeginSave(c, op, w, h)
  PROVE  CallsOK'
<1>1. ASSUME NEW r, Formed(r), r.at = "renew", NEW t, NEW d, NEW b, NEW p, NEW e,
             Put(c, [r EXCEPT !.tok = t, !.saved = d, !.expected = b, !.proof = p,
                              !.decision = e])
      PROVE  CallsOK'
  <2> DEFINE q == [r EXCEPT !.tok = t, !.saved = d, !.expected = b, !.proof = p,
                            !.decision = e]
  <2>1. Formed(q) /\ q.at = "renew"
    BY <1>1, Zenon DEF Formed, Fields
  <2> QED
    BY <1>1, <2>1, PutFormed
<1> DEFINE N == NewCall(op, "renew", w, SessionOf(w, h), IF op = "close" THEN h ELSE 0)
           S == Begin(sess[w][SessionOf(w, h)], "save")
<1>2. Formed(N) /\ N.at = "renew"
  BY NewCallFormed
<1>3. Put(c, [N EXCEPT !.tok = S.tok, !.saved = S.draft, !.expected = S.base,
                       !.proof = S.proof,
                       !.decision = IF op = "close" THEN "save" ELSE "none"])
  BY DEF BeginSave
<1> HIDE DEF N, S
<1> QED
  BY <1>1, <1>2, <1>3, Zenon

-----------------------------------------------------------------------------
\* The calls of the window: none of them touches the authority or the file

Stays == UNCHANGED <<disk, active, issued>>

LEMMA StartStays ==
  ASSUME CallsOK, NEW c \in Calls, Start(c)
  PROVE  CallsOK' /\ Stays
<1>1. PICK w \in {x \in Windows : c \in CallsOf[x] /\ ~Draining(x)} :
        \/ \E k \in Keys : \/ \E mode \in Modes, u \in Consumers \cup {NoConsumer} :
                                 OpenNew(c, w, k, mode, u) \/ OpenShared(c, w, k, mode, u)
                           \/ CloseClean(c, w, k)
                           \/ TransitionToReadOnly(c, w, k)
        \/ \E h \in DOMAIN handle[w] :
              \/ Save(c, w, h) \/ Discard(c, w, h)
              \/ \E decision \in {"none", "discard"} : Reload(c, w, h, decision)
              \/ \E decision \in {"none", "save", "discard"} : Close(c, w, h, decision)
  BY DEF Start
<1>w. w \in Windows
  OBVIOUS
<1>2. ASSUME NEW k \in Keys, NEW mode, NEW u, OpenNew(c, w, k, mode, u)
      PROVE  CallsOK' /\ Stays
  <2> DEFINE N == NewCall("open", "acquire", w, 0, 0)
             rec == [N EXCEPT !.key = k, !.consumer = u]
  <2>1. Formed(N) /\ N.at = "acquire" /\ N.w = w
    BY NewCallFormed
  <2>2. (Put(c, rec) \/ StartLoading(c, rec, mode, 0)) /\ Stays
    BY <1>2 DEF OpenNew, Stays, Native
  <2> HIDE DEF N
  <2>3. Formed(rec) /\ rec.w = w /\ rec.key = k
    BY <2>1 DEF Formed, Fields
  <2>4. CallOK(rec)
    BY <1>w, <2>3 DEF CallOK
  <2> HIDE DEF rec
  <2> QED
    BY <2>2, <2>3, <2>4, PutKeeps, LoadingCall
<1>3. ASSUME NEW k \in Keys, NEW mode, NEW u, OpenShared(c, w, k, mode, u)
      PROVE  CallsOK' /\ Stays
  <2> DEFINE N == NewCall("open", "retain", w, live[w][k], 0)
             rec == [N EXCEPT !.key = k, !.consumer = u]
  <2>1. Formed(N)
    BY NewCallFormed
  <2>2. (Join(c, rec, sess[w][live[w][k]]) \/ Demote(c, rec)) /\ Stays
    BY <1>3 DEF OpenShared, Stays, Native
  <2> HIDE DEF N
  <2>3. Formed(rec)
    BY <2>1 DEF Formed, Fields
  <2> HIDE DEF rec
  <2> QED
    BY <2>2, <2>3, JoinCall, DemoteCall
<1>4. ASSUME NEW k \in Keys, CloseClean(c, w, k) PROVE CallsOK' /\ Stays
  <2> DEFINE N == NewCall("clean", "sweep", w, live[w][k], 0)
             rec == [N EXCEPT !.todo = sess[w][live[w][k]].hs]
  <2>1. Formed(N) /\ N.at = "sweep"
    BY NewCallFormed
  <2>2. Put(c, rec) /\ Stays
    BY <1>4 DEF CloseClean, Stays, Native
  <2> HIDE DEF N
  <2>3. Formed(rec) /\ rec.at = "sweep"
    BY <2>1, Zenon DEF Formed, Fields
  <2> HIDE DEF rec
  <2> QED
    BY <2>2, <2>3, PutFormed
<1>5. ASSUME NEW k \in Keys, TransitionToReadOnly(c, w, k) PROVE CallsOK' /\ Stays
  BY <1>5, NewCallFormed, DemoteCall DEF TransitionToReadOnly, Stays, Native
<1>6. ASSUME NEW h, Save(c, w, h) PROVE CallsOK' /\ Stays
  BY <1>6, SaveCall, Zenon DEF Save, BeginSave, Stays, Native
<1>7. ASSUME NEW h, Discard(c, w, h) PROVE CallsOK' /\ Stays
  <2> DEFINE N == NewCall("discard", "reread", w, SessionOf(w, h), 0)
             rec == [N EXCEPT !.decision = "discard"]
  <2>1. Formed(N)
    BY NewCallFormed
  <2>2. BeginReread(c, rec) /\ Stays
    BY <1>7 DEF Discard, Stays, Native
  <2> HIDE DEF N
  <2>3. Formed(rec)
    BY <2>1 DEF Formed, Fields
  <2> HIDE DEF rec
  <2> QED
    BY <2>2, <2>3, RereadCall
<1>8. ASSUME NEW h, NEW decision, Reload(c, w, h, decision) PROVE CallsOK' /\ Stays
  <2> DEFINE N == NewCall("reload", "check", w, SessionOf(w, h), h)
             rec == [N EXCEPT !.decision = decision]
  <2>1. Formed(N) /\ N.at = "check"
    BY NewCallFormed
  <2>2. Put(c, rec) /\ Stays
    BY <1>8 DEF Reload, Stays, Native
  <2> HIDE DEF N
  <2>3. Formed(rec) /\ rec.at = "check"
    BY <2>1 DEF Formed, Fields
  <2> HIDE DEF rec
  <2> QED
    BY <2>2, <2>3, PutFormed
<1>9. ASSUME NEW h, NEW decision, Close(c, w, h, decision) PROVE CallsOK' /\ Stays
  <2> DEFINE N == NewCall("close", "release", w, SessionOf(w, h), h)
             rec == [N EXCEPT !.decision = decision]
  <2>1. Formed(N)
    BY NewCallFormed
  <2>2. (Release(c, rec) \/ BeginSave(c, "close", w, h) \/ BeginReread(c, rec)) /\ Stays
    BY <1>9 DEF Close, BeginSave, Stays, Native
  <2> HIDE DEF N
  <2>3. Formed(rec)
    BY <2>1 DEF Formed, Fields
  <2> HIDE DEF rec
  <2> QED
    BY <2>2, <2>3, ReleaseCall, SaveCall, RereadCall
<1> QED
  BY <1>1, <1>2, <1>3, <1>4, <1>5, <1>6, <1>7, <1>8, <1>9

LEMMA ResumeStays ==
  ASSUME CallsOK, NEW c \in Calls, Resume(c)
  PROVE  CallsOK' /\ Stays
<1> DEFINE r == calls[c]
<1>1. CASE Sweep(c)
  <2>1. Formed(calls[c]) /\ Stays
    BY <1>1, Asking DEF Sweep, Stays, Native
  <2>2. ASSUME NEW h, NEW todo, Release(c, [calls[c] EXCEPT !.h = h, !.todo = todo])
        PROVE  CallsOK'
    <3> DEFINE q == [calls[c] EXCEPT !.h = h, !.todo = todo]
    <3>1. Formed(q)
      BY <2>1 DEF Formed, Fields
    <3> HIDE DEF q
    <3>2. Release(c, q)
      BY <2>2 DEF q
    <3> QED
      BY <3>1, <3>2, ReleaseCall
  <2>3. PICK h \in calls[c].todo :
          Release(c, [calls[c] EXCEPT !.h = h, !.todo = calls[c].todo \ {h}])
    BY <1>1, Zenon DEF Sweep
  <2> QED
    BY <2>1, <2>2, <2>3, Zenon
<1>2. CASE Leave(c)
  BY <1>2, Asking, ReleaseCall DEF Leave, Stays, Native
<1>3. CASE AcquireReply(c)
  BY <1>3, Asking, LoadingCall, PutIdle, Zenon DEF AcquireReply, Answered, Stays, Native
<1>4. CASE RetainReply(c)
  BY <1>4, PutIdle DEF RetainReply, Stays, Native
<1>5. CASE LoadReply(c)
  <2>1. Formed(calls[c]) /\ Stays
    BY <1>5, Asking, Zenon DEF LoadReply, Answered, Stays, Native
  <2>2. Put(c, Idle) \/ Put(c, Await(c, "unload"))
    BY <1>5 DEF LoadReply
  <2> QED
    BY <2>1, <2>2, AwaitFormed, PutIdle, PutFormed, Zenon DEF Await
<1>6. CASE UnloadReply(c)
  BY <1>6, PutIdle DEF UnloadReply, Stays, Native
<1>7. CASE RenewReply(c)
  <2>1. Formed(calls[c]) /\ Stays
    BY <1>7, Asking DEF RenewReply, Answered, Stays, Native
  <2>2. Put(c, Idle) \/ Put(c, Await(c, "revalidate"))
    BY <1>7 DEF RenewReply
  <2> QED
    BY <2>1, <2>2, AwaitFormed, PutIdle, PutFormed, Zenon DEF Await
<1>8. CASE RevalidateReply(c)
  <2>1. Formed(calls[c]) /\ Stays
    BY <1>8, Asking DEF RevalidateReply, Answered, Stays, Native
  <2>2. ASSUME NEW b, Put(c, [Await(c, "write") EXCEPT !.base = b]) PROVE CallsOK'
    <3> DEFINE q == [Await(c, "write") EXCEPT !.base = b]
    <3>1. Formed(q) /\ q.at = "write"
      BY <2>1 DEF Await, Formed, Fields
    <3> QED
      BY <2>2, <3>1, PutFormed
  <2>3. \/ Put(c, [Await(c, "write") EXCEPT !.base = sess[calls[c].w][calls[c].s].base])
        \/ Demote(c, calls[c]) \/ Put(c, Idle)
    BY <1>8, Zenon DEF RevalidateReply
  <2> QED
    BY <2>1, <2>2, <2>3, DemoteCall, PutIdle
<1>9. CASE WriteReply(c)
  <2>1. Formed(calls[c]) /\ Stays
    BY <1>9, Asking DEF WriteReply, Answered, Stays, Native
  <2>2. ASSUME NEW b, NEW p, NEW a,
               Put(c, [Await(c, "refresh") EXCEPT !.base = b, !.proof = p, !.applied = a])
        PROVE  CallsOK'
    <3> DEFINE q == [Await(c, "refresh") EXCEPT !.base = b, !.proof = p, !.applied = a]
    <3>1. Formed(q) /\ q.at = "refresh"
      BY <2>1, Zenon DEF Await, Formed, Fields
    <3> QED
      BY <2>2, <3>1, PutFormed
  <2> QED
    BY <1>9, <2>1, <2>2, PutIdle, Zenon DEF WriteReply
<1>10. CASE RefreshReply(c)
  <2>1. Formed(calls[c]) /\ Stays
    BY <1>10, Asking, Zenon DEF RefreshReply, Answered, Stays, Native
  <2>2. Formed([calls[c] EXCEPT !.at = "leave"]) /\ [calls[c] EXCEPT !.at = "leave"].at = "leave"
    BY <2>1 DEF Formed, Fields
  <2>3. Put(c, Idle) \/ Put(c, [calls[c] EXCEPT !.at = "leave"])
    BY <1>10 DEF RefreshReply
  <2> QED
    BY <2>1, <2>2, <2>3, PutIdle, PutFormed, Zenon
<1>11. CASE CheckReply(c)
  <2>1. Formed(calls[c]) /\ Stays
    BY <1>11, Asking DEF CheckReply, Answered, Stays, Native
  <2>2. BeginReread(c, calls[c]) \/ Demote(c, calls[c]) \/ Put(c, Idle)
    BY <1>11 DEF CheckReply
  <2> QED
    BY <2>1, <2>2, RereadCall, DemoteCall, PutIdle
<1>12. CASE RereadReply(c)
  <2>1. Formed(calls[c]) /\ Stays
    BY <1>12, Asking DEF RereadReply, Answered, Stays, Native
  <2>2. Formed([calls[c] EXCEPT !.at = "leave"]) /\ [calls[c] EXCEPT !.at = "leave"].at = "leave"
    BY <2>1 DEF Formed, Fields
  <2>3. Put(c, Idle) \/ Put(c, [calls[c] EXCEPT !.at = "leave"])
    BY <1>12 DEF RereadReply
  <2> QED
    BY <2>1, <2>2, <2>3, PutIdle, PutFormed
<1>13. CASE ReleaseReply(c)
  <2>1. Formed(calls[c]) /\ Stays
    BY <1>13, Asking DEF ReleaseReply, Answered, Stays, Native
  <2>2. Formed([calls[c] EXCEPT !.at = "sweep"]) /\ [calls[c] EXCEPT !.at = "sweep"].at = "sweep"
    BY <2>1 DEF Formed, Fields
  <2>3. Put(c, Idle) \/ Put(c, [calls[c] EXCEPT !.at = "sweep"])
    BY <1>13 DEF ReleaseReply, Rest
  <2> QED
    BY <2>1, <2>2, <2>3, PutIdle, PutFormed
<1>14. CASE DemoteReply(c)
  <2>1. Formed(calls[c]) /\ Stays /\ calls[c].at = "demote"
    BY <1>14, Asking DEF DemoteReply, Answered, Stays, Native
  <2>2. ASSUME NEW n, Put(c, [calls[c] EXCEPT !.n = n, !.reply = Waiting]) PROVE CallsOK'
    <3> DEFINE q == [calls[c] EXCEPT !.n = n, !.reply = Waiting]
    <3>1. Formed(q) /\ q.at = "demote"
      BY <2>1 DEF Formed, Fields
    <3> QED
      BY <2>2, <3>1, PutFormed
  <2>3. \/ Put(c, [calls[c] EXCEPT !.n = calls[c].n + 1, !.reply = Waiting])
        \/ AfterDemote(c, calls[c], Demoted(sess[calls[c].w][calls[c].s]))
    BY <1>14 DEF DemoteReply
  <2> QED
    BY <2>1, <2>2, <2>3, AfterDemoteCall, Zenon
<1>15. CASE Forget(c)
  BY <1>15, PutIdle DEF Forget, Stays, Native
<1> QED
  BY <1>1, <1>2, <1>3, <1>4, <1>5, <1>6, <1>7, <1>8, <1>9, <1>10, <1>11, <1>12,
     <1>13, <1>14, <1>15 DEF Resume

LEMMA SyncStays ==
  ASSUME CallsOK, NEW w, Sync(w)
  PROVE  CallsOK' /\ Stays
<1>1. UNCHANGED calls /\ Stays
  BY Zenon DEF Sync, UpdateDraft, ConfirmExternalWrite, Cancel, Native, Stays
<1> QED
  BY <1>1 DEF CallsOK

-----------------------------------------------------------------------------
\* The native side: what it does to its grants is a step of the authority

Granted == Authority!Next \/ UNCHANGED <<active, issued>>

\* A grant the authority finds for a caller names a window and a proof it issued.
LEMMA OwnedTyped ==
  ASSUME Proved!TypeOK, NEW w, NEW p, NEW g \in Authority!OwnedBy(active, w, p)
  PROVE  w \in Windows /\ p \in 1..MaxGrants
  BY DEF Proved!TypeOK, Proved!Grant, Authority!OwnedBy

LEMMA TargetTyped ==
  ASSUME FileOK
  PROVE  TargetNow \in Authority!Target
  BY DEF FileOK, TargetNow, Authority!Target

LEMMA AcquireServed ==
  ASSUME RuntimeInv, NEW c \in Calls, ServeAcquire(c)
  PROVE  CallsOK' /\ FileOK' /\ Granted
<1>1. calls[c] # Idle /\ calls[c].at = "acquire"
  BY DEF ServeAcquire, Asked, Idle
<1>2. calls[c].w \in Windows /\ calls[c].key \in Keys
  BY <1>1 DEF RuntimeInv, CallsOK, CallOK
<1>3. PICK r : Reply(c, r)
  BY DEF ServeAcquire
<1>4. CallsOK'
  BY <1>1, <1>3, ReplyKeeps DEF RuntimeInv
<1>5. FileOK'
  BY DEF RuntimeInv, ServeAcquire, FileOK
<1>6. Authority!Admit(calls[c].w, calls[c].key, TargetNow) \/ UNCHANGED <<active, issued>>
  BY DEF ServeAcquire
<1>7. TargetNow \in Authority!Target
  BY TargetTyped DEF RuntimeInv
<1> QED
  BY <1>2, <1>4, <1>5, <1>6, <1>7 DEF Granted, Authority!Next

LEMMA RetainServed ==
  ASSUME RuntimeInv, NEW c \in Calls, ServeRetain(c)
  PROVE  CallsOK' /\ FileOK' /\ Granted
<1>1. calls[c] # Idle
  BY DEF ServeRetain, Asked, Idle
<1>2. PICK r : Reply(c, r)
  BY DEF ServeRetain
<1>3. CallsOK' /\ FileOK'
  BY <1>1, <1>2, ReplyKeeps DEF RuntimeInv, ServeRetain, FileOK
<1>4. CASE Authority!OwnedBy(active, calls[c].w, calls[c].proof) = {}
  BY <1>3, <1>4 DEF ServeRetain, Granted
<1>5. CASE Authority!OwnedBy(active, calls[c].w, calls[c].proof) # {}
  <2>1. calls[c].w \in Windows /\ calls[c].proof \in 1..MaxGrants
    BY <1>5, OwnedTyped DEF RuntimeInv, Proved!AuthorityInv
  <2>2. Authority!Retain(calls[c].w, calls[c].proof)
    BY <1>5 DEF ServeRetain
  <2> QED
    BY <1>3, <2>1, <2>2 DEF Granted, Authority!Next
<1> QED
  BY <1>4, <1>5

LEMMA ReleaseServed ==
  ASSUME RuntimeInv, NEW c \in Calls, ServeRelease(c)
  PROVE  CallsOK' /\ FileOK' /\ Granted
<1>1. calls[c] # Idle
  BY DEF ServeRelease, Asked, Idle
<1>2. PICK r : Reply(c, r)
  BY DEF ServeRelease
<1>3. CallsOK' /\ FileOK'
  BY <1>1, <1>2, ReplyKeeps DEF RuntimeInv, ServeRelease, FileOK
<1>4. CASE Authority!OwnedBy(active, calls[c].w, calls[c].proof) = {}
  BY <1>3, <1>4 DEF ServeRelease, Granted
<1>5. CASE Authority!OwnedBy(active, calls[c].w, calls[c].proof) # {}
  <2>1. calls[c].w \in Windows /\ calls[c].proof \in 1..MaxGrants
    BY <1>5, OwnedTyped DEF RuntimeInv, Proved!AuthorityInv
  <2>2. Authority!Release(calls[c].w, calls[c].proof)
    BY <1>5 DEF ServeRelease
  <2> QED
    BY <1>3, <2>1, <2>2 DEF Granted, Authority!Next
<1> QED
  BY <1>4, <1>5

LEMMA RefreshServed ==
  ASSUME RuntimeInv, NEW c \in Calls, ServeRefresh(c)
  PROVE  CallsOK' /\ FileOK' /\ Granted
<1>1. calls[c] # Idle
  BY DEF ServeRefresh, Asked, Idle
<1>2. PICK r : Reply(c, r)
  BY DEF ServeRefresh
<1>3. CallsOK' /\ FileOK'
  BY <1>1, <1>2, ReplyKeeps DEF RuntimeInv, ServeRefresh, FileOK
<1>4. CASE UNCHANGED <<active, issued>>
  BY <1>3, <1>4 DEF Granted
<1>5. CASE /\ Authority!RefreshAfterWrite(calls[c].w, calls[c].proof, TargetNow)
           /\ Authority!OwnedBy(active, calls[c].w, calls[c].proof) # {}
  <2>1. calls[c].w \in Windows /\ calls[c].proof \in 1..MaxGrants
    BY <1>5, OwnedTyped DEF RuntimeInv, Proved!AuthorityInv
  <2>2. TargetNow \in Authority!Target
    BY TargetTyped DEF RuntimeInv
  <2> QED
    BY <1>3, <1>5, <2>1, <2>2 DEF Granted, Authority!Next
<1> QED
  BY <1>4, <1>5 DEF ServeRefresh

LEMMA WriteServed ==
  ASSUME RuntimeInv, NEW c \in Calls, ServeWrite(c)
  PROVE  CallsOK' /\ FileOK' /\ Granted
<1>1. calls[c] # Idle
  BY DEF ServeWrite, Asked, Idle
<1>2. PICK r : Reply(c, r)
  BY DEF ServeWrite
<1>3. CallsOK'
  BY <1>1, <1>2, ReplyKeeps DEF RuntimeInv
<1>4. \/ disk' = disk
      \/ disk.phys < MaxPhys /\ disk' = [text |-> calls[c].saved, phys |-> disk.phys + 1]
  BY DEF ServeWrite
<1>5. FileOK'
  BY <1>4, SessionBounds DEF RuntimeInv, FileOK
<1> QED
  BY <1>3, <1>5 DEF ServeWrite, Granted

LEMMA AnsweredWithoutGrant ==
  ASSUME RuntimeInv, NEW c \in Calls, ServeRenew(c) \/ ServeRead(c) \/ ServeLookup(c)
  PROVE  CallsOK' /\ FileOK' /\ Granted
<1>1. calls[c] # Idle
  BY DEF ServeRenew, ServeRead, ServeLookup, Asked, Idle
<1>2. PICK r : Reply(c, r)
  BY DEF ServeRenew, ServeRead, ServeLookup
<1>3. UNCHANGED <<disk, active, issued>>
  BY DEF ServeRenew, ServeRead, ServeLookup, Native
<1> QED
  BY <1>1, <1>2, <1>3, ReplyKeeps DEF RuntimeInv, FileOK, Granted

LEMMA Destroyed ==
  ASSUME RuntimeInv, NEW w \in Windows, WindowDestroyed(w)
  PROVE  CallsOK' /\ FileOK' /\ Granted
<1>1. FileOK' /\ Granted
  BY DEF RuntimeInv, FileOK, WindowDestroyed, Granted, Authority!Next
<1>2. calls' = [c \in Calls |-> calls'[c]]
  BY DEF WindowDestroyed
<1>3. ASSUME NEW c \in Calls PROVE CallOK(calls'[c])
  <2>1. calls'[c] = IF calls[c] = Idle \/ calls[c].w # w THEN calls[c]
                    ELSE IF Asked(c, {"write"}) THEN [calls[c] EXCEPT !.op = "orphan"]
                    ELSE Idle
    BY DEF WindowDestroyed
  <2>2. CASE calls[c] = Idle \/ calls[c].w # w
    BY <2>1, <2>2 DEF RuntimeInv, CallsOK
  <2>3. CASE calls[c] # Idle /\ calls[c].w = w /\ Asked(c, {"write"})
    <3> DEFINE q == [calls[c] EXCEPT !.op = "orphan"]
    <3>1. Formed(calls[c]) /\ calls[c].at = "write"
      BY <2>3, Working DEF RuntimeInv, Asked
    <3>2. Formed(q) /\ q.at = "write"
      BY <3>1 DEF Formed, Fields
    <3> HIDE DEF q
    <3>3. calls'[c] = q
      BY <2>1, <2>3 DEF q
    <3> QED
      BY <3>2, <3>3 DEF CallOK
  <2>4. CASE calls[c] # Idle /\ calls[c].w = w /\ ~Asked(c, {"write"})
    BY <2>1, <2>4 DEF CallOK
  <2> QED
    BY <2>2, <2>3, <2>4
<1> QED
  BY <1>1, <1>2, <1>3 DEF CallsOK

-----------------------------------------------------------------------------
\* The runtimes and the authority together

LEMMA StepRuntime ==
  ASSUME RuntimeInv, Next
  PROVE  CallsOK' /\ FileOK' /\ Granted
<1>1. ASSUME NEW c \in Calls, Start(c) \/ Resume(c)
      PROVE  CallsOK' /\ FileOK' /\ Granted
  <2>1. CallsOK' /\ Stays
    BY <1>1, StartStays, ResumeStays DEF RuntimeInv
  <2> QED
    BY <2>1 DEF RuntimeInv, Stays, FileOK, Granted
<1>2. ASSUME NEW c \in Calls, Serve(c)
      PROVE  CallsOK' /\ FileOK' /\ Granted
  BY <1>2, AcquireServed, RetainServed, ReleaseServed, RefreshServed, WriteServed,
     AnsweredWithoutGrant DEF Serve
<1>3. ASSUME NEW w \in Windows, Sync(w)
      PROVE  CallsOK' /\ FileOK' /\ Granted
  <2>1. CallsOK' /\ Stays
    BY <1>3, SyncStays DEF RuntimeInv
  <2> QED
    BY <2>1 DEF RuntimeInv, Stays, FileOK, Granted
<1>4. ASSUME NEW w \in Windows, WindowDestroyed(w)
      PROVE  CallsOK' /\ FileOK' /\ Granted
  BY <1>4, Destroyed
<1>5. CASE ExternalChange
  <2>1. PICK phys \in {disk.phys, disk.phys + 1} :
            phys <= MaxPhys /\ disk' = [text |-> texts + 1, phys |-> phys]
    BY <1>5 DEF ExternalChange
  <2>2. FileOK'
    BY <2>1, SessionBounds DEF RuntimeInv, FileOK
  <2> QED
    BY <1>5, <2>2 DEF ExternalChange, RuntimeInv, CallsOK, Granted
<1> QED
  BY <1>1, <1>2, <1>3, <1>4, <1>5 DEF Next

\* Both instances of the authority are the same specification.
LEMMA SameAuthority ==
  /\ Authority!Init <=> Proved!Init
  /\ Authority!Next <=> Proved!Next
  /\ Authority!OneWriterPerFile <=> Proved!OneWriterPerFile
<1>1. Authority!Init <=> Proved!Init
  BY DEF Authority!Init, Proved!Init
<1>2. Authority!Next <=> Proved!Next
  BY DEF Authority!Next, Proved!Next, Authority!Admit, Proved!Admit,
         Authority!Admissible, Proved!Admissible, Authority!NewGrant, Proved!NewGrant,
         Authority!TargetsConflict, Proved!TargetsConflict,
         Authority!Target, Proved!Target, Authority!OwnedBy, Proved!OwnedBy,
         Authority!Retain, Proved!Retain, Authority!Retained, Proved!Retained,
         Authority!Release, Proved!Release, Authority!Released, Proved!Released,
         Authority!RefreshAfterWrite, Proved!RefreshAfterWrite,
         Authority!RefreshAllowed, Proved!RefreshAllowed,
         Authority!Refreshed, Proved!Refreshed,
         Authority!DetachCaller, Proved!DetachCaller, Authority!Detached, Proved!Detached
<1>3. Authority!OneWriterPerFile <=> Proved!OneWriterPerFile
  BY DEF Authority!OneWriterPerFile, Proved!OneWriterPerFile,
         Authority!TargetsConflict, Proved!TargetsConflict
<1> QED
  BY <1>1, <1>2, <1>3

LEMMA GrantsBounded ==
  MaxGrants \in Nat /\ MaxRefs \in Nat \ {0} /\ MaxPhys \in Nat
<1>1. Cardinality(Calls) \in Nat
  BY SessionBounds, FS_CardinalityType
<1> QED
  BY <1>1, SessionBounds DEF MaxRefs

LEMMA InitRuntime == Init => RuntimeInv
<1> SUFFICES ASSUME Init PROVE RuntimeInv
  OBVIOUS
<1>1. CallsOK
  BY DEF Init, CallsOK, CallOK
<1>2. FileOK
  BY SessionBounds DEF Init, FileOK
<1>3. Proved!AuthorityInv
  BY GrantsBounded, Proved!InitAuthority DEF Init, Proved!Init, Proved!GrantBounds
<1> QED
  BY <1>1, <1>2, <1>3 DEF RuntimeInv

LEMMA NextRuntime == RuntimeInv /\ [Next]_vars => RuntimeInv' /\ Granted
<1> SUFFICES ASSUME RuntimeInv, [Next]_vars PROVE RuntimeInv' /\ Granted
  OBVIOUS
<1>1. CallsOK' /\ FileOK' /\ Granted
  <2>1. CASE UNCHANGED vars
    BY <2>1 DEF vars, RuntimeInv, CallsOK, FileOK, Granted
  <2>2. CASE Next
    BY <2>2, StepRuntime
  <2> QED
    BY <2>1, <2>2
<1>2. Proved!Next \/ UNCHANGED Proved!authority
  BY <1>1, SameAuthority DEF Granted, Proved!authority
<1>3. Proved!AuthorityInv'
  BY <1>2, GrantsBounded, Proved!NextAuthority DEF RuntimeInv, Proved!GrantBounds
<1> QED
  BY <1>1, <1>3 DEF RuntimeInv

LEMMA RuntimeHolds == Spec => []RuntimeInv
<1>1. RuntimeInv /\ [Next]_vars => RuntimeInv'
  BY NextRuntime
<1> QED
  BY InitRuntime, <1>1, PTL DEF Spec

\* openSession, saveInternal, close, transitionToReadOnly and every loss of a
\* window together never use the authority in a way it does not offer.
THEOREM RuntimesUseAuthority == Spec => AuthoritySpec
<1>1. Init => Authority!Init
  BY DEF Init, Authority!Init
<1>2. RuntimeInv /\ [Next]_vars => [Authority!Next]_(Authority!authority)
  BY NextRuntime DEF Granted, Authority!authority
<1> QED
  BY <1>1, <1>2, RuntimeHolds, PTL DEF Spec, AuthoritySpec, Authority!Spec

\* Whatever the sessions of all windows do, and however their calls interleave
\* with the native side and with other programs, no two grants cover the file.
THEOREM OneWriterAcrossWindows == Spec => []Authority!OneWriterPerFile
<1>1. RuntimeInv => Authority!OneWriterPerFile
  BY SameAuthority DEF RuntimeInv, Proved!AuthorityInv
<1> QED
  BY <1>1, RuntimeHolds, PTL

-----------------------------------------------------------------------------
\* The sessions: what holds of each, of each call and between them

Snap == [text : 1..MaxText, phys : 0..MaxPhys]

Session == [key : Keys, mode : {"writable", "readonly"}, proof : 0..MaxGrants,
            hs : SUBSET (1..MaxHandles), base : Snap \cup {NoBase}, draft : 0..MaxText,
            dirty : BOOLEAN, op : {"none", "load", "save", "reread"}, tok : Nat,
            recovery : BOOLEAN, confirmed : BOOLEAN, gone : BOOLEAN, late : BOOLEAN]

Handle == [s : Nat, key : Keys, consumer : Consumers \cup {NoConsumer}, open : BOOLEAN]

Saving  == {"renew", "revalidate", "write", "refresh"}
Reading == {"load", "reread"}

\* Revisions of the file in the order they came into being.
Upto(a, b) == a.phys < b.phys \/ (a.phys = b.phys /\ a.text <= b.text)

\* A revision the file d with texts up to n has or has had.
Seen(a, d, n) == Upto(a, d) /\ a.text <= n

\* A session is based on what the file was and is marked dirty if it differs.
SessionGood(S, d, n) ==
  /\ S.draft <= n /\ Seen(S.base, d, n)
  /\ S.base # NoBase => S.draft # 0 /\ S.dirty = (S.draft # S.base.text)

\* The call is at work on the operation its token stands for.
Holds(r) ==
  /\ r # Idle /\ r.op # "orphan"
  /\ r.at \in Saving \cup Reading \/ (r.at = "demote" /\ r.op \in {"save", "close"})

\* A revision call r brings to its session S is newer than the baseline if it
\* still may replace it.
Brings(r, S, snap, d, n) ==
  /\ snap \in Snap /\ Seen(snap, d, n)
  /\ Current(S, r.tok) => Upto(S.base, snap)

\* What a call knows of its session.
Knows(r, S, d, n) ==
  /\ r.tok \in Nat /\ r.tok <= S.tok
  /\ r.at \in Saving => S.base # NoBase
  /\ r.at = "load" => r.key = S.key
  /\ r.at = "retain" => r.proof \in 0..MaxGrants
  /\ r.at \in Reading \cup {"write"} /\ r.reply.kind = "ok" => Brings(r, S, r.reply.snap, d, n)
  /\ r.at = "write" => r.base \in Snap /\ Upto(r.base, S.base)
  /\ r.at = "refresh" => Brings(r, S, r.base, d, n)

CallTyped(r, n) ==
  /\ r.at \in Steps /\ r.w \in Windows /\ r.key \in Keys
  /\ r.consumer \in Consumers \cup {NoConsumer}
  /\ r.op = "orphan" => r.at = "write"
  /\ r.at \in Saving => r.op \in {"save", "close", "orphan"} /\ r.saved \in 1..n
  /\ r.at = "check" => r.op = "reload"
  /\ r.at = "acquire" /\ r.reply.kind = "ok" => r.reply.proof \in 0..MaxGrants
  /\ r.at = "revalidate" /\ r.reply # Waiting => r.reply.kind \in Lookups
  /\ r.at = "write" /\ r.reply # Waiting => r.reply.applied \in BOOLEAN
  /\ r.at = "refresh" => r.applied \in BOOLEAN

OnSession(r) == r # Idle /\ r.at # "acquire" /\ r.op # "orphan"

FilesOK ==
  /\ disk \in Snap /\ texts \in 1..MaxText /\ disk.text <= texts

SessionsOK ==
  /\ sess \in [Windows -> Seq(Session)]
  /\ \A w \in Windows :
       /\ Len(sess[w]) <= MaxSessions
       /\ \A s \in DOMAIN sess[w] : /\ SessionGood(sess[w][s], disk, texts)
                                    /\ sess[w][s].hs \subseteq DOMAIN handle[w]

HandlesOK ==
  /\ handle \in [Windows -> Seq(Handle)]
  /\ \A w \in Windows : /\ Len(handle[w]) <= MaxHandles
                        /\ \A h \in DOMAIN handle[w] : handle[w][h].s \in DOMAIN sess[w]

LiveOK ==
  /\ live \in [Windows -> [Keys -> Nat]]
  /\ \A w \in Windows, k \in Keys : live[w][k] # 0 =>
       /\ live[w][k] \in DOMAIN sess[w]
       /\ sess[w][live[w][k]].key = k /\ ~sess[w][live[w][k]].gone

CallGood(r) ==
  r # Idle => /\ CallTyped(r, texts)
              /\ OnSession(r) => /\ r.s \in DOMAIN sess[r.w]
                                 /\ Knows(r, sess[r.w][r.s], disk, texts)

WorkOK == \A c \in Calls : CallGood(calls[c])

\* No two calls are at work on one operation,
TokensOK ==
  \A c, d \in Calls :
    /\ c # d /\ Holds(calls[c]) /\ Holds(calls[d])
    /\ calls[c].w = calls[d].w /\ calls[c].s = calls[d].s
    => calls[c].tok # calls[d].tok

\* and an operation in progress has one.
AtWork(C, w, s, t) ==
  \E c \in Calls : Holds(C[c]) /\ C[c].w = w /\ C[c].s = s /\ C[c].tok = t

BusyOK(w, k) ==
  live[w][k] # 0 /\ sess[w][live[w][k]].op # "none" =>
    AtWork(calls, w, live[w][k], sess[w][live[w][k]].tok)

SessionInv ==
  /\ FilesOK /\ SessionsOK /\ HandlesOK /\ LiveOK
  /\ WorkOK /\ TokensOK

\* which it keeps, unless the lookup of the owner throws.
Throws(q) == q.at = "revalidate" /\ q.reply.kind = "thrown"

BusyStays ==
  \A w \in Windows, k \in Keys :
    BusyOK(w, k) =>
      \/ BusyOK(w, k)'
      \/ \E c \in Calls : /\ Throws(calls[c]) /\ calls'[c] = Idle
                          /\ calls[c].w = w /\ calls[c].s = live[w][k]

-----------------------------------------------------------------------------
\* Revisions

Revision == [text : 0..MaxText, phys : 0..MaxPhys]

LEMMA SessionConstants ==
  /\ MaxText \in Nat \ {0} /\ MaxPhys \in Nat /\ MaxGrants \in Nat
  /\ MaxSessions \in Nat /\ MaxHandles \in Nat
BY SessionBounds

LEMMA FilesTyped ==
  ASSUME SessionInv
  PROVE  disk \in Snap /\ texts \in Nat
BY SessionConstants DEF SessionInv, FilesOK

LEMMA Unanswered == Waiting.kind # "ok"
BY DEF Waiting

LEMMA NoMore ==
  ASSUME NEW i \in Nat, NEW j \in Nat, NEW k \in Nat, i <= j, k >= j
  PROVE  i <= k
OBVIOUS

LEMMA Revisions ==
  /\ Snap \cup {NoBase} \subseteq Revision
  /\ NoBase \notin Snap /\ NoBase.text = 0 /\ NoBase.phys = 0
  /\ \A a \in Snap : a.text \in Nat \ {0} /\ a.phys \in Nat
BY SessionConstants DEF Snap, Revision, NoBase

LEMMA UptoOrder ==
  ASSUME NEW a \in Revision, NEW b \in Revision
  PROVE  /\ Upto(a, a)
         /\ Upto(a, b) /\ Upto(b, a) => a = b
         /\ \A c \in Revision : Upto(a, b) /\ Upto(b, c) => Upto(a, c)
<1>1. Upto(a, a)
  BY SessionConstants DEF Upto, Revision
<1>2. Upto(a, b) /\ Upto(b, a) => a = b
  BY SessionConstants DEF Upto, Revision
<1>3. ASSUME NEW c \in Revision, Upto(a, b), Upto(b, c) PROVE Upto(a, c)
  BY <1>3, SessionConstants DEF Upto, Revision
<1> QED
  BY <1>1, <1>2, <1>3

LEMMA NoBaseFirst ==
  ASSUME NEW a \in Revision
  PROVE  Upto(NoBase, a)
BY SessionConstants DEF Upto, Revision, NoBase

\* A revision after one that has been read has been read too.
LEMMA BaseStays ==
  ASSUME NEW a \in Snap, NEW b \in Snap \cup {NoBase}, Upto(a, b)
  PROVE  b # NoBase
BY SessionConstants DEF Upto, Snap, NoBase

-----------------------------------------------------------------------------
\* What a step does to a session

\* An operation ends, goes on or begins; the baseline moves only as one ends.
Onward(S, T) ==
  /\ T.key = S.key /\ T.tok >= S.tok
  /\ Upto(S.base, T.base)
  /\ T.base # S.base => T.op = "none"
  /\ T.op = "none" \/ T.tok > S.tok \/ (T.op = S.op /\ T.tok = S.tok)
  /\ S.gone => T.gone

\* Session S of file d becomes T.
Course(S, T, d, n) ==
  T \in Session /\ SessionGood(T, d, n) /\ Onward(S, T)

\* Where T is busy, so was S, but not for token t.
NotFor(S, T, t) ==
  T.op # "none" /\ ~T.gone => T.op = S.op /\ T.tok = S.tok /\ S.tok # t

LEMMA CurrentStays ==
  ASSUME NEW S \in Session, NEW T \in Session, Onward(S, T), NEW t \in Nat, t <= S.tok,
         Current(T, t)
  PROVE  Current(S, t) /\ T.base = S.base
BY DEF Onward, Current, Session

\* What a call knows of its session stays true when others change it.
LEMMA KnowsStays ==
  ASSUME NEW S \in Session, NEW T \in Session, Onward(S, T),
         NEW d \in Snap, NEW e \in Snap, Upto(d, e),
         NEW n \in Nat, NEW m \in Nat, n <= m,
         NEW r, Knows(r, S, d, n)
  PROVE  Knows(r, T, e, m)
<1>1. /\ S.base \in Snap \cup {NoBase} /\ T.base \in Snap \cup {NoBase}
      /\ Upto(S.base, T.base) /\ S.tok \in Nat /\ T.tok \in Nat /\ T.tok >= S.tok
      /\ T.key = S.key
  BY DEF Session, Onward
<1>2. \A a \in Snap : Seen(a, d, n) => Seen(a, e, m)
  <2> TAKE a \in Snap
  <2>1. Upto(a, d) => Upto(a, e)
    BY UptoOrder, Revisions
  <2>2. a.text \in Nat
    BY Revisions
  <2> QED
    BY <2>1, <2>2 DEF Seen
<1>3. \A a : Brings(r, S, a, d, n) => Brings(r, T, a, e, m)
  <2> TAKE a
  <2> HAVE Brings(r, S, a, d, n)
  <2>1. Current(T, r.tok) => Current(S, r.tok) /\ T.base = S.base
    BY CurrentStays DEF Knows
  <2> QED
    BY <1>2, <2>1 DEF Brings
<1>4. r.tok \in Nat /\ r.tok <= T.tok
  BY <1>1 DEF Knows
<1>5. r.at \in Saving => T.base # NoBase
  BY <1>1, BaseStays DEF Knows
<1>6. r.at = "write" => r.base \in Snap /\ Upto(r.base, T.base)
  BY <1>1, UptoOrder, Revisions DEF Knows
<1> QED
  BY <1>1, <1>3, <1>4, <1>5, <1>6 DEF Knows

LEMMA GoodStays ==
  ASSUME NEW S \in Session, NEW d \in Snap, NEW e \in Snap, Upto(d, e),
         NEW n \in Nat, NEW m \in Nat, n <= m, SessionGood(S, d, n)
  PROVE  SessionGood(S, e, m)
<1>1. S.base \in Snap \cup {NoBase} /\ S.draft \in Nat
  BY SessionConstants DEF Session
<1>2. Upto(S.base, e)
  BY <1>1, UptoOrder, Revisions DEF SessionGood, Seen
<1>3. S.base.text \in Nat
  BY <1>1, Revisions
<1>4. S.draft <= m /\ S.base.text <= m
  BY <1>1, <1>3 DEF SessionGood, Seen
<1> QED
  BY <1>2, <1>4 DEF SessionGood, Seen

LEMMA TypedStays ==
  ASSUME NEW r, NEW n \in Nat, NEW m \in Nat, n <= m, CallTyped(r, n)
  PROVE  CallTyped(r, m)
<1>1. r.at \in Saving => r.saved \in 1..m
  BY DEF CallTyped
<1> QED
  BY <1>1 DEF CallTyped

\* Nothing moves.
LEMMA CourseSame ==
  ASSUME NEW S \in Session, NEW d, NEW n, SessionGood(S, d, n)
  PROVE  Course(S, S, d, n)
<1>1. Upto(S.base, S.base) /\ S.tok >= S.tok
  BY Revisions, UptoOrder DEF Session
<1> QED
  BY <1>1 DEF Course, Onward

\* cancel
LEMMA ClearDoes ==
  ASSUME NEW S \in Session, NEW d, NEW n, SessionGood(S, d, n)
  PROVE  LET T == Clear(S)
         IN  Course(S, T, d, n) /\ T.op = "none" /\ T.hs = S.hs /\ T.gone = S.gone
<1> PICK T : T = Clear(S)
  OBVIOUS
<1>1. /\ T \in Session /\ T.op = "none" /\ T.hs = S.hs /\ T.gone = S.gone
      /\ T.key = S.key /\ T.tok = S.tok /\ T.base = S.base /\ T.draft = S.draft
      /\ T.dirty = S.dirty
  BY DEF Session, Clear
<1>2. Upto(S.base, S.base) /\ S.tok >= S.tok
  BY Revisions, UptoOrder DEF Session
<1> QED
  BY <1>1, <1>2 DEF Course, Onward, SessionGood

\* fail
LEMMA FailDoes ==
  ASSUME NEW S \in Session, NEW d, NEW n, SessionGood(S, d, n), NEW t, NEW b \in BOOLEAN
  PROVE  LET T == Fail(S, t, b)
         IN  Course(S, T, d, n) /\ NotFor(S, T, t) /\ T.hs = S.hs /\ T.gone = S.gone
<1> PICK T : T = Fail(S, t, b)
  OBVIOUS
<1>1. CASE Current(S, t)
  <2>1. /\ T \in Session /\ T.op = "none" /\ T.hs = S.hs /\ T.gone = S.gone
        /\ T.key = S.key /\ T.tok = S.tok /\ T.base = S.base /\ T.draft = S.draft
        /\ T.dirty = S.dirty
    BY <1>1 DEF Session, Clear, Fail
  <2>2. Upto(S.base, S.base) /\ S.tok >= S.tok
    BY Revisions, UptoOrder DEF Session
  <2> QED
    BY <2>1, <2>2 DEF Course, Onward, SessionGood, NotFor
<1>2. CASE ~Current(S, t)
  BY <1>2, CourseSame DEF Fail, NotFor, Current
<1> QED
  BY <1>1, <1>2

\* A completed read or save
LEMMA HydrateDoes ==
  ASSUME NEW S \in Session, NEW d \in Snap, NEW n \in Nat, SessionGood(S, d, n),
         NEW t, NEW saved, NEW snap \in Snap, Seen(snap, d, n),
         Current(S, t) => Upto(S.base, snap),
         NEW keep \in BOOLEAN, keep => S.base # NoBase
  PROVE  LET T == Hydrate(S, t, saved, snap, keep)
         IN  Course(S, T, d, n) /\ NotFor(S, T, t) /\ T.hs = S.hs /\ T.gone = S.gone
<1> PICK T : T = Hydrate(S, t, saved, snap, keep)
  OBVIOUS
<1>1. CASE Current(S, t)
  <2> PICK x : x = IF keep /\ S.draft # saved THEN S.draft ELSE snap.text
    OBVIOUS
  <2>1. snap.text \in 1..MaxText /\ snap.text <= n /\ snap # NoBase
    BY Revisions DEF Snap, Seen
  <2>2. S.draft \in 0..MaxText /\ S.draft <= n
    BY DEF Session, SessionGood
  <2>3. x \in 0..MaxText /\ x <= n /\ x # 0
    BY <2>1, <2>2 DEF SessionGood
  <2>4. /\ T \in Session /\ T.op = "none" /\ T.hs = S.hs /\ T.gone = S.gone
        /\ T.key = S.key /\ T.tok = S.tok /\ T.base = snap /\ T.draft = x
        /\ T.dirty = (x # snap.text)
    <3>1. T = [S EXCEPT !.op = "none", !.base = snap, !.draft = x,
                        !.dirty = (x # snap.text), !.recovery = FALSE,
                        !.late = S.late /\ x # snap.text]
      BY <1>1 DEF Hydrate, Hydrated, Clear, Session
    <3>2. (x # snap.text) \in BOOLEAN /\ (S.late /\ x # snap.text) \in BOOLEAN
      OBVIOUS
    <3> PICK y \in BOOLEAN, z \in BOOLEAN : y = (x # snap.text) /\ z = (S.late /\ x # snap.text)
      BY <3>2
    <3>3. T = [S EXCEPT !.op = "none", !.base = snap, !.draft = x,
                        !.dirty = y, !.recovery = FALSE, !.late = z]
      BY <3>1
    <3>4. /\ T \in Session /\ T.op = "none" /\ T.hs = S.hs /\ T.gone = S.gone
          /\ T.key = S.key /\ T.tok = S.tok /\ T.base = snap /\ T.draft = x
          /\ T.dirty = y
      BY <2>3, <3>3, ZenonT(30) DEF Session
    <3> QED
      BY <3>4
  <2>5. S.tok >= S.tok /\ Upto(S.base, snap)
    BY <1>1 DEF Session
  <2> QED
    BY <2>3, <2>4, <2>5 DEF Course, Onward, SessionGood, NotFor
<1>2. CASE ~Current(S, t)
  BY <1>2, CourseSame DEF Hydrate, NotFor, Current
<1> QED
  BY <1>1, <1>2

\* A session that is marked late, or not
Marked(T, b) == [T EXCEPT !.late = b]

LEMMA MarkedFields ==
  ASSUME NEW T \in Session, NEW b \in BOOLEAN
  PROVE  LET U == Marked(T, b)
         IN  /\ U \in Session /\ U.hs = T.hs /\ U.gone = T.gone /\ U.op = T.op
             /\ U.tok = T.tok /\ U.draft = T.draft /\ U.dirty = T.dirty
             /\ U.base = T.base /\ U.key = T.key /\ U.late = b
BY DEF Marked, Session

LEMMA LateDoes ==
  ASSUME NEW S \in Session, NEW d, NEW n, NEW T, Course(S, T, d, n), NEW b \in BOOLEAN
  PROVE  Course(S, Marked(T, b), d, n)
<1>1. T \in Session
  BY DEF Course
<1> PICK U : U = Marked(T, b)
  OBVIOUS
<1>2. /\ U \in Session /\ U.hs = T.hs /\ U.gone = T.gone /\ U.op = T.op
      /\ U.tok = T.tok /\ U.draft = T.draft /\ U.dirty = T.dirty
      /\ U.base = T.base /\ U.key = T.key
  BY <1>1, MarkedFields
<1>3. Course(S, U, d, n)
  BY <1>2 DEF Course, Onward, SessionGood
<1> QED
  BY <1>3

\* An operation begins under the next token.
LEMMA BeginDoes ==
  ASSUME NEW S \in Session, NEW d, NEW n, SessionGood(S, d, n),
         NEW kind \in {"load", "save", "reread"}
  PROVE  LET T == Begin(S, kind)
         IN  /\ Course(S, T, d, n) /\ T.op = kind /\ T.tok = S.tok + 1
             /\ T.hs = S.hs /\ T.gone = S.gone /\ T.draft = S.draft /\ T.base = S.base
             /\ T.proof = S.proof
<1> PICK T : T = Begin(S, kind)
  OBVIOUS
<1> PICK k \in Nat : k = S.tok + 1
  BY DEF Session
<1>1. T = [S EXCEPT !.op = kind, !.tok = k]
  BY DEF Begin
<1>2. /\ T \in Session /\ T.op = kind /\ T.hs = S.hs /\ T.gone = S.gone
      /\ T.key = S.key /\ T.tok = k /\ T.base = S.base /\ T.draft = S.draft
      /\ T.dirty = S.dirty /\ T.proof = S.proof
  BY <1>1, Zenon DEF Session
<1>3. Upto(S.base, S.base) /\ S.tok \in Nat
  BY Revisions, UptoOrder DEF Session
<1>4. T.tok >= S.tok /\ T.tok > S.tok
  BY <1>2, <1>3
<1> QED
  BY <1>2, <1>3, <1>4 DEF Course, Onward, SessionGood

\* The session is handed over as it is, but for its mode, proof, handles.
Like(S, T) ==
  /\ T \in Session /\ T.key = S.key /\ T.op = S.op /\ T.tok = S.tok /\ T.base = S.base
  /\ T.draft = S.draft /\ T.dirty = S.dirty /\ T.late = S.late /\ (S.gone => T.gone)

LEMMA LikeCourse ==
  ASSUME NEW S \in Session, NEW T, Like(S, T), NEW d, NEW n, SessionGood(S, d, n)
  PROVE  Course(S, T, d, n)
<1>1. Upto(S.base, S.base) /\ S.tok >= S.tok
  BY Revisions, UptoOrder DEF Session
<1> QED
  BY <1>1 DEF Course, Onward, Like, SessionGood

\* The same after such a change.
LEMMA LikeThen ==
  ASSUME NEW S \in Session, NEW T, Like(S, T), NEW U, NEW d, NEW n, Course(T, U, d, n)
  PROVE  Course(S, U, d, n)
BY DEF Course, Onward, Like

-----------------------------------------------------------------------------
\* What a step does to the sessions of all windows

\* Every session of a window stays and goes on.
SessionsGo ==
  \A w \in Windows : \A s \in DOMAIN sess[w] :
    s \in DOMAIN sess'[w] /\ Onward(sess[w][s], sess'[w][s])

\* File and texts go on.
FilesGo == FilesOK' /\ Upto(disk, disk') /\ texts <= texts'

LEMMA FilesSame ==
  ASSUME FilesOK, UNCHANGED <<disk, texts>>
  PROVE  FilesGo
<1>1. texts \in Nat /\ Upto(disk, disk)
  BY UptoOrder, Revisions, SessionConstants DEF FilesOK
<1> QED
  BY <1>1 DEF FilesGo, FilesOK

\* No handle goes, and each is of a session there is.
HandlesGo ==
  /\ handle' \in [Windows -> Seq(Handle)]
  /\ \A w \in Windows : /\ Len(handle'[w]) <= MaxHandles
                        /\ DOMAIN handle[w] \subseteq DOMAIN handle'[w]
                        /\ \A h \in DOMAIN handle'[w] : handle'[w][h].s \in DOMAIN sess'[w]

\* Sessions leave the map at most.
LiveGo ==
  /\ live' \in [Windows -> [Keys -> Nat]]
  /\ \A w \in Windows, k \in Keys : live'[w][k] \in {0, live[w][k]}

LEMMA LiveSame ==
  ASSUME LiveOK, UNCHANGED live
  PROVE  LiveGo
BY DEF LiveOK, LiveGo

LEMMA SessionHere ==
  ASSUME SessionsOK, NEW w \in Windows, NEW s \in DOMAIN sess[w]
  PROVE  sess[w][s] \in Session
<1>1. sess[w] \in Seq(Session)
  BY DEF SessionsOK
<1> QED
  BY <1>1

\* Session s of window w becomes T.
Becomes(w, s, T) == w \in Windows /\ s \in DOMAIN sess[w] /\ SetSession(w, s, T)

LEMMA BecomesSets ==
  ASSUME SessionsOK, NEW w, NEW s, NEW T \in Session, Becomes(w, s, T)
  PROVE  /\ sess' \in [Windows -> Seq(Session)]
         /\ sess'[w][s] = T
         /\ \A v \in Windows : DOMAIN sess'[v] = DOMAIN sess[v] /\ Len(sess'[v]) = Len(sess[v])
         /\ \A v \in Windows : \A x \in DOMAIN sess[v] :
               v # w \/ x # s => sess'[v][x] = sess[v][x]
<1>1. w \in Windows /\ s \in DOMAIN sess[w] /\ sess[w] \in Seq(Session)
  BY DEF Becomes, SessionsOK
<1>2. s \in 1..Len(sess[w])
  BY <1>1
<1> PICK q : q = [sess[w] EXCEPT ![s] = T]
  OBVIOUS
<1>3. /\ q \in Seq(Session) /\ Len(q) = Len(sess[w]) /\ DOMAIN q = DOMAIN sess[w] /\ q[s] = T
      /\ \A x \in DOMAIN sess[w] : x # s => q[x] = sess[w][x]
  BY <1>1, <1>2, ExceptSeq
<1>4. sess' = [sess EXCEPT ![w] = q]
  BY <1>1 DEF Becomes, SetSession, SessionsOK
<1>5. /\ sess'[w] = q /\ \A v \in Windows : v # w => sess'[v] = sess[v]
      /\ sess' \in [Windows -> Seq(Session)]
  BY <1>1, <1>3, <1>4 DEF SessionsOK
<1> QED
  BY <1>3, <1>5, Zenon

LEMMA OnwardSame ==
  ASSUME NEW S \in Session
  PROVE  Onward(S, S)
<1>1. Upto(S.base, S.base) /\ S.tok >= S.tok
  BY Revisions, UptoOrder DEF Session
<1> QED
  BY <1>1 DEF Onward

LEMMA BecomesGo ==
  ASSUME SessionsOK, NEW w, NEW s, NEW T \in Session, Becomes(w, s, T), Onward(sess[w][s], T)
  PROVE  SessionsGo
<1> SUFFICES ASSUME NEW v \in Windows, NEW x \in DOMAIN sess[v]
             PROVE  x \in DOMAIN sess'[v] /\ Onward(sess[v][x], sess'[v][x])
  BY DEF SessionsGo
<1>1. x \in DOMAIN sess'[v]
  BY BecomesSets
<1>2. CASE v = w /\ x = s
  BY <1>1, <1>2, BecomesSets
<1>3. CASE v # w \/ x # s
  BY <1>1, <1>3, BecomesSets, OnwardSame, SessionHere
<1> QED
  BY <1>2, <1>3

-----------------------------------------------------------------------------
\* What a step keeps of the calls

\* The calls that have not moved.
LEMMA GoodCallStays ==
  ASSUME SessionInv, FilesGo, SessionsGo, SessionsOK', NEW c \in Calls, calls'[c] = calls[c]
  PROVE  CallGood(calls[c])'
<1> PICK r : r = calls[c]
  OBVIOUS
<1>1. CallGood(r)
  BY DEF SessionInv, WorkOK
<1>2. texts \in Nat /\ texts' \in Nat /\ texts <= texts' /\ Upto(disk, disk')
      /\ disk \in Snap /\ disk' \in Snap
  BY SessionConstants DEF SessionInv, FilesOK, FilesGo
<1>3. r # Idle => CallTyped(r, texts')
  BY <1>1, <1>2, TypedStays, Zenon DEF CallGood
<1>4. ASSUME r # Idle, OnSession(r)
      PROVE  r.s \in DOMAIN sess'[r.w] /\ Knows(r, sess'[r.w][r.s], disk', texts')
  <2>1. r.w \in Windows /\ r.s \in DOMAIN sess[r.w] /\ Knows(r, sess[r.w][r.s], disk, texts)
    BY <1>1, <1>4 DEF CallGood, CallTyped
  <2>2. r.s \in DOMAIN sess'[r.w] /\ Onward(sess[r.w][r.s], sess'[r.w][r.s])
    BY <2>1 DEF SessionsGo
  <2>3. sess[r.w][r.s] \in Session
    BY <2>1, SessionHere DEF SessionInv
  <2>4. sess'[r.w][r.s] \in Session
    <3>1. sess'[r.w] \in Seq(Session)
      BY <2>1 DEF SessionsOK
    <3> QED
      BY <2>2, <3>1
  <2> QED
    BY <1>2, <2>1, <2>2, <2>3, <2>4, KnowsStays
<1>5. CallGood(r)'
  BY <1>3, <1>4 DEF CallGood
<1> QED
  BY <1>5

\* Call c goes on as r.
LEMMA WorkKeeps ==
  ASSUME CallsOK, SessionInv, FilesGo, SessionsGo, SessionsOK', NEW c \in Calls, NEW r, Put(c, r),
         CallGood(r)'
  PROVE  WorkOK'
<1> SUFFICES ASSUME NEW d \in Calls PROVE CallGood(calls[d])'
  BY DEF WorkOK
<1>1. calls' = [calls EXCEPT ![c] = r] /\ calls'[c] = r
  BY DEF Put, CallsOK
<1>2. CASE d = c
  BY <1>1, <1>2 DEF CallGood
<1>3. CASE d # c
  <2>1. calls'[d] = calls[d]
    BY <1>1, <1>3, Zenon DEF CallsOK
  <2> QED
    BY <2>1, GoodCallStays
<1> QED
  BY <1>2, <1>3

\* Calls r and q are at work on the same operation.
SameWork(r, q) == Holds(r) /\ Holds(q) /\ r.w = q.w /\ r.s = q.s /\ r.tok = q.tok

LEMMA HolderKnown ==
  ASSUME SessionInv, NEW c \in Calls, Holds(calls[c])
  PROVE  /\ calls[c].w \in Windows /\ calls[c].s \in DOMAIN sess[calls[c].w]
         /\ calls[c].tok \in Nat /\ calls[c].tok <= sess[calls[c].w][calls[c].s].tok
<1>1. OnSession(calls[c])
  BY DEF Holds, OnSession, Saving, Reading
<1>2. CallGood(calls[c]) /\ calls[c] # Idle
  BY DEF SessionInv, WorkOK, Holds
<1> QED
  BY <1>1, <1>2 DEF CallGood, CallTyped, Knows

\* A token is taken over or new.
LEMMA TokensKeep ==
  ASSUME CallsOK, SessionInv, NEW c \in Calls, NEW r, Put(c, r),
         Holds(r) => \/ SameWork(calls[c], r)
                     \/ \A d \in Calls : Holds(calls[d]) /\ calls[d].w = r.w /\ calls[d].s = r.s
                                          => calls[d].tok # r.tok
  PROVE  TokensOK'
<1>1. calls'[c] = r /\ \A d \in Calls : d # c => calls'[d] = calls[d]
  BY DEF Put, CallsOK
<1>2. ASSUME NEW d \in Calls, d # c, Holds(calls[d]), Holds(r), calls[d].w = r.w,
             calls[d].s = r.s
      PROVE  calls[d].tok # r.tok
  BY <1>2 DEF SessionInv, TokensOK, SameWork
<1>3. \A d, e \in Calls :
        /\ d # e /\ Holds(calls'[d]) /\ Holds(calls'[e])
        /\ calls'[d].w = calls'[e].w /\ calls'[d].s = calls'[e].s
        => calls'[d].tok # calls'[e].tok
  <2> TAKE d, e \in Calls
  <2>1. CASE d # c /\ e # c
    BY <1>1, <2>1 DEF SessionInv, TokensOK
  <2>2. CASE d = c \/ e = c
    BY <1>1, <1>2, <2>2
  <2> QED
    BY <2>1, <2>2
<1> QED
  BY <1>3 DEF TokensOK

\* Who was at work still is, but for call c.
LEMMA AtWorkStays ==
  ASSUME CallsOK, NEW c \in Calls, NEW r, Put(c, r), NEW w, NEW s, NEW t, AtWork(calls, w, s, t),
         \/ ~(Holds(calls[c]) /\ calls[c].w = w /\ calls[c].s = s /\ calls[c].tok = t)
         \/ SameWork(calls[c], r)
  PROVE  AtWork(calls', w, s, t)
<1>1. calls'[c] = r /\ \A d \in Calls : d # c => calls'[d] = calls[d]
  BY DEF Put, CallsOK
<1>2. PICK d \in Calls : /\ Holds(calls[d])
                         /\ calls[d].w = w /\ calls[d].s = s /\ calls[d].tok = t
  BY DEF AtWork
<1>3. CASE d = c
  <2>1. Holds(r) /\ r.w = w /\ r.s = s /\ r.tok = t
    BY <1>2, <1>3 DEF SameWork
  <2>2. Holds(calls'[c]) /\ calls'[c].w = w /\ calls'[c].s = s /\ calls'[c].tok = t
    BY <1>1, <2>1
  <2> QED
    BY <2>2 DEF AtWork
<1>4. CASE d # c
  BY <1>1, <1>2, <1>4 DEF AtWork
<1> QED
  BY <1>3, <1>4

-----------------------------------------------------------------------------
\* A turn: session s becomes T and call c goes on as r

\* r is done or goes on with session s, which is T by then.
GoesOn(w, s, T, r) ==
  r # Idle => /\ CallTyped(r, texts) /\ r.w = w /\ r.s = s
              /\ OnSession(r) => Knows(r, T, disk, texts)

\* An operation is handed over, begun, or somebody else's.
Answers(c, w, s, T, r) ==
  /\ Holds(calls[c]) => calls[c].w = w /\ calls[c].s = s
  /\ Holds(r) => \/ Holds(calls[c]) /\ calls[c].tok = r.tok
                 \/ r.tok \in Nat /\ r.tok > sess[w][s].tok
  /\ T.op # "none" /\ ~T.gone /\ live'[w][T.key] = s =>
        \/ Holds(r) /\ r.tok = T.tok
        \/ /\ T.op = sess[w][s].op /\ T.tok = sess[w][s].tok
           /\ Holds(calls[c]) => calls[c].tok # T.tok

LEMMA SessionsTurn ==
  ASSUME SessionInv, FilesGo, NEW w, NEW s, NEW T, Becomes(w, s, T),
         Course(sess[w][s], T, disk', texts'), HandlesGo, LiveGo,
         T.hs \subseteq DOMAIN handle'[w], T.gone => live'[w][T.key] # s
  PROVE  SessionsOK' /\ HandlesOK' /\ LiveOK' /\ SessionsGo
<1>1. /\ w \in Windows /\ s \in DOMAIN sess[w]
      /\ T \in Session /\ SessionGood(T, disk', texts') /\ Onward(sess[w][s], T)
  BY DEF Becomes, Course
<1>2. SessionsGo
  BY <1>1, BecomesGo DEF SessionInv
<1>3. /\ sess' \in [Windows -> Seq(Session)]
      /\ sess'[w][s] = T
      /\ \A v \in Windows : DOMAIN sess'[v] = DOMAIN sess[v] /\ Len(sess'[v]) = Len(sess[v])
      /\ \A v \in Windows : \A x \in DOMAIN sess[v] :
            v # w \/ x # s => sess'[v][x] = sess[v][x]
  BY <1>1, BecomesSets DEF SessionInv
<1>4. SessionsOK'
  <2>1. ASSUME NEW v \in Windows, NEW x \in DOMAIN sess'[v]
        PROVE  SessionGood(sess'[v][x], disk', texts') /\ sess'[v][x].hs \subseteq DOMAIN handle'[v]
    <3>1. CASE v = w /\ x = s
      BY <1>1, <1>3, <3>1
    <3>2. CASE v # w \/ x # s
      <4>1. sess'[v][x] = sess[v][x] /\ x \in DOMAIN sess[v]
        BY <1>3, <2>1, <3>2
      <4>2. /\ SessionGood(sess[v][x], disk, texts)
            /\ sess[v][x].hs \subseteq DOMAIN handle[v] /\ sess[v][x] \in Session
        BY <4>1, SessionHere DEF SessionInv, SessionsOK
      <4>3. SessionGood(sess[v][x], disk', texts')
        <5>1. /\ texts \in Nat /\ texts' \in Nat /\ texts <= texts' /\ Upto(disk, disk')
              /\ disk \in Snap /\ disk' \in Snap
          BY SessionConstants DEF SessionInv, FilesOK, FilesGo
        <5> QED
          BY <4>2, <5>1, GoodStays
      <4> QED
        BY <4>1, <4>2, <4>3 DEF HandlesGo
    <3> QED
      BY <3>1, <3>2
  <2>2. \A v \in Windows : Len(sess'[v]) <= MaxSessions
    BY <1>3 DEF SessionInv, SessionsOK
  <2> QED
    BY <1>3, <2>1, <2>2 DEF SessionsOK
<1>5. HandlesOK'
  BY DEF HandlesGo, HandlesOK
<1>6. LiveOK'
  <2>1. ASSUME NEW v \in Windows, NEW k \in Keys, live'[v][k] # 0
        PROVE  /\ live'[v][k] \in DOMAIN sess'[v]
               /\ sess'[v][live'[v][k]].key = k /\ ~sess'[v][live'[v][k]].gone
    <3>1. live'[v][k] = live[v][k] /\ live[v][k] # 0
      BY <2>1 DEF LiveGo
    <3>2. /\ live[v][k] \in DOMAIN sess[v]
          /\ sess[v][live[v][k]].key = k /\ ~sess[v][live[v][k]].gone
      BY <3>1 DEF SessionInv, LiveOK
    <3>3. CASE v = w /\ live[v][k] = s
      <4>1. T.key = k
        BY <1>1, <3>2, <3>3 DEF Onward
      <4> QED
        BY <1>3, <3>1, <3>2, <3>3, <4>1
    <3>4. CASE v # w \/ live[v][k] # s
      BY <1>3, <3>1, <3>2, <3>4
    <3> QED
      BY <3>3, <3>4
  <2> QED
    BY <2>1 DEF LiveGo, LiveOK
<1> QED
  BY <1>2, <1>4, <1>5, <1>6

LEMMA Turn ==
  ASSUME CallsOK, SessionInv, NEW c \in Calls, NEW w, NEW s, NEW T, NEW r,
         Becomes(w, s, T), Put(c, r), UNCHANGED <<disk, texts>>,
         Course(sess[w][s], T, disk, texts), HandlesGo, LiveGo,
         T.hs \subseteq DOMAIN handle'[w], T.gone => live'[w][T.key] # s,
         GoesOn(w, s, T, r), Answers(c, w, s, T, r)
  PROVE  SessionInv' /\ BusyStays
<1>1. FilesGo /\ FilesOK'
  BY FilesSame DEF SessionInv, FilesGo
<1>2. SessionsOK' /\ HandlesOK' /\ LiveOK' /\ SessionsGo
  BY <1>1, SessionsTurn
<1>3. /\ w \in Windows /\ s \in DOMAIN sess[w] /\ sess'[w][s] = T /\ T \in Session
      /\ \A v \in Windows : DOMAIN sess'[v] = DOMAIN sess[v]
      /\ \A v \in Windows : \A x \in DOMAIN sess[v] :
            v # w \/ x # s => sess'[v][x] = sess[v][x]
  BY BecomesSets DEF Becomes, Course, SessionInv
<1>4. WorkOK'
  <2>1. CallGood(r)'
    BY <1>3 DEF CallGood, GoesOn
  <2> QED
    BY <1>1, <1>2, <2>1, WorkKeeps
<1>5. TokensOK'
  <2>1. ASSUME Holds(r), ~SameWork(calls[c], r), NEW d \in Calls, Holds(calls[d]),
               calls[d].w = r.w, calls[d].s = r.s
        PROVE  calls[d].tok # r.tok
    <3>1. r.w = w /\ r.s = s
      BY <2>1 DEF Holds, GoesOn
    <3>2. r.tok \in Nat /\ r.tok > sess[w][s].tok
      BY <2>1, <3>1 DEF Answers, SameWork
    <3>3. calls[d].tok \in Nat /\ calls[d].tok <= sess[w][s].tok
      BY <2>1, <3>1, HolderKnown
    <3>4. sess[w][s].tok \in Nat
      BY <1>3, SessionHere DEF SessionInv, Session
    <3> QED
      BY <3>2, <3>3, <3>4
  <2> QED
    BY <2>1, TokensKeep
<1>6. BusyStays
  <2> SUFFICES ASSUME NEW v \in Windows, NEW k \in Keys, BusyOK(v, k), live'[v][k] # 0,
                      sess'[v][live'[v][k]].op # "none"
               PROVE  AtWork(calls', v, live'[v][k], sess'[v][live'[v][k]].tok)
    BY DEF BusyStays, BusyOK
  <2>1. live'[v][k] = live[v][k] /\ live[v][k] # 0
    BY DEF LiveGo
  <2> PICK x : x = live[v][k]
    OBVIOUS
  <2>2. x \in DOMAIN sess[v] /\ sess[v][x].key = k /\ ~sess[v][x].gone
    BY <2>1 DEF SessionInv, LiveOK
  <2>3. sess[v][x].op # "none" => AtWork(calls, v, x, sess[v][x].tok)
    BY <2>1 DEF BusyOK
  <2> PICK t : t = sess'[v][x].tok
    BY Zenon
  <2>4. CASE v = w /\ x = s
    <3>1. T.key = k /\ ~T.gone /\ live'[w][T.key] = s
      <4>1. T.key = k
        BY <1>3, <2>2, <2>4 DEF Course, Onward
      <4> QED
        BY <1>3, <2>1, <2>4, <4>1, Zenon
    <3>2. T.op # "none" /\ T.tok = t
      BY <1>3, <2>1, <2>4, Zenon
    <3>3. CASE Holds(r) /\ r.tok = T.tok
      <4>1. calls'[c] = r
        BY DEF Put, CallsOK
      <4>2. r.w = w /\ r.s = s
        BY <3>3 DEF Holds, GoesOn
      <4> QED
        BY <2>1, <2>4, <3>2, <3>3, <4>1, <4>2 DEF AtWork
    <3>4. CASE /\ T.op = sess[w][s].op /\ T.tok = sess[w][s].tok
               /\ Holds(calls[c]) => calls[c].tok # T.tok
      <4>1. AtWork(calls, v, x, t)
        BY <2>3, <2>4, <3>2, <3>4
      <4>2. AtWork(calls', v, x, t)
        BY <3>2, <3>4, <4>1, AtWorkStays
      <4> QED
        BY <2>1, <4>2
    <3> QED
      BY <3>1, <3>2, <3>3, <3>4 DEF Answers
  <2>5. CASE v # w \/ x # s
    <3>1. sess'[v][x] = sess[v][x]
      BY <1>3, <2>2, <2>5, Zenon
    <3>2. AtWork(calls, v, x, t)
      BY <2>1, <2>3, <3>1, Zenon
    <3>3. AtWork(calls', v, x, t)
      BY <2>5, <3>2, AtWorkStays DEF Answers
    <3> QED
      BY <2>1, <3>3
  <2> QED
    BY <2>4, <2>5
<1> QED
  BY <1>1, <1>2, <1>4, <1>5, <1>6 DEF SessionInv

LEMMA SameBecomes ==
  ASSUME SessionsOK, NEW w \in Windows, NEW s \in DOMAIN sess[w], UNCHANGED sess
  PROVE  Becomes(w, s, sess[w][s])
<1> PICK q : q = sess[w]
  OBVIOUS
<1>1. q \in Seq(Session) /\ s \in DOMAIN q
  BY DEF SessionsOK
<1>2. [q EXCEPT ![s] = q[s]] = q
  BY <1>1
<1>3. [sess EXCEPT ![w] = q] = sess
  BY DEF SessionsOK
<1>4. [sess EXCEPT ![w][s] = sess[w][s]] = sess
  BY <1>2, <1>3
<1> QED
  BY <1>4 DEF Becomes, SetSession

LEMMA HandlesSame ==
  ASSUME SessionInv, SessionsGo, UNCHANGED handle
  PROVE  HandlesGo
BY DEF SessionInv, HandlesOK, HandlesGo, SessionsGo

\* The session keeps its handles and its place.
LEMMA QuietTurn ==
  ASSUME CallsOK, SessionInv, NEW c \in Calls, NEW w, NEW s, NEW T, NEW r,
         Becomes(w, s, T), Put(c, r), UNCHANGED <<disk, texts, live, handle>>,
         Course(sess[w][s], T, disk, texts),
         T.hs = sess[w][s].hs, T.gone = sess[w][s].gone,
         GoesOn(w, s, T, r), Answers(c, w, s, T, r)
  PROVE  SessionInv' /\ BusyStays
<1>1. w \in Windows /\ s \in DOMAIN sess[w] /\ T \in Session /\ Onward(sess[w][s], T)
  BY DEF Becomes, Course
<1>2. SessionsGo
  BY <1>1, BecomesGo DEF SessionInv
<1>3. HandlesGo /\ LiveGo
  BY <1>2, HandlesSame, LiveSame DEF SessionInv
<1>4. T.hs \subseteq DOMAIN handle'[w]
  BY <1>1 DEF SessionInv, SessionsOK
<1>5. T.gone => live'[w][T.key] # s
  <2>1. T.key \in Keys
    BY <1>1 DEF Session
  <2> SUFFICES ASSUME T.gone, live[w][T.key] = s PROVE FALSE
    OBVIOUS
  <2>2. s # 0
    <3>1. sess[w] \in Seq(Session)
      BY <1>1 DEF SessionInv, SessionsOK
    <3> QED
      BY <1>1, <3>1
  <2> QED
    BY <1>1, <2>1, <2>2 DEF SessionInv, LiveOK
<1> QED
  BY <1>3, <1>4, <1>5, Turn

\* No session changes.
LEMMA SessionsStay ==
  ASSUME SessionInv, FilesGo, UNCHANGED <<sess, live, handle>>
  PROVE  FilesOK' /\ SessionsGo /\ SessionsOK' /\ HandlesOK' /\ LiveOK'
<1>1. FilesOK'
  BY DEF FilesGo
<1>2. SessionsGo
  BY OnwardSame, SessionHere DEF SessionsGo, SessionInv
<1>3. SessionsOK'
  <2>1. ASSUME NEW w \in Windows, NEW s \in DOMAIN sess[w]
        PROVE  SessionGood(sess[w][s], disk', texts')
    <3>1. /\ texts \in Nat /\ texts' \in Nat /\ texts <= texts' /\ Upto(disk, disk')
          /\ disk \in Snap /\ disk' \in Snap
      BY SessionConstants DEF SessionInv, FilesOK, FilesGo
    <3>2. SessionGood(sess[w][s], disk, texts) /\ sess[w][s] \in Session
      BY SessionHere DEF SessionInv, SessionsOK
    <3> QED
      BY <3>1, <3>2, GoodStays
  <2> QED
    BY <2>1 DEF SessionInv, SessionsOK
<1>4. HandlesOK' /\ LiveOK'
  BY DEF SessionInv, HandlesOK, LiveOK
<1> QED
  BY <1>1, <1>2, <1>3, <1>4

LEMMA PutTurn ==
  ASSUME CallsOK, SessionInv, FilesGo, UNCHANGED <<sess, live, handle>>,
         NEW c \in Calls, NEW r, Put(c, r), CallGood(r)',
         Holds(r) => SameWork(calls[c], r),
         \/ ~Holds(calls[c])
         \/ SameWork(calls[c], r)
         \/ Throws(calls[c]) /\ r = Idle
         \/ NotFor(sess[calls[c].w][calls[c].s], sess[calls[c].w][calls[c].s], calls[c].tok)
  PROVE  SessionInv' /\ BusyStays
<1>1. FilesOK' /\ SessionsGo /\ SessionsOK' /\ HandlesOK' /\ LiveOK'
  BY SessionsStay
<1>2. WorkOK'
  BY <1>1, WorkKeeps
<1>3. TokensOK'
  BY TokensKeep, Zenon
<1>4. BusyStays
  <2> SUFFICES ASSUME NEW v \in Windows, NEW k \in Keys, BusyOK(v, k), live[v][k] # 0,
                      sess[v][live[v][k]].op # "none",
                      ~\E d \in Calls : /\ Throws(calls[d]) /\ calls'[d] = Idle
                                       /\ calls[d].w = v /\ calls[d].s = live[v][k]
               PROVE  AtWork(calls', v, live[v][k], sess[v][live[v][k]].tok)
    BY DEF BusyStays, BusyOK
  <2> PICK x, t : x = live[v][k] /\ t = sess[v][x].tok
    BY Zenon
  <2>1. AtWork(calls, v, x, t)
    BY DEF BusyOK
  <2>2. ~sess[v][x].gone
    BY Zenon DEF SessionInv, LiveOK
  <2>3. \/ ~(Holds(calls[c]) /\ calls[c].w = v /\ calls[c].s = x /\ calls[c].tok = t)
        \/ SameWork(calls[c], r)
    <3>1. calls'[c] = r
      BY DEF Put, CallsOK
    <3> QED
      BY <2>2, <3>1 DEF NotFor
  <2> QED
    BY <2>1, <2>3, AtWorkStays, Zenon
<1> QED
  BY <1>1, <1>2, <1>3, <1>4 DEF SessionInv

-----------------------------------------------------------------------------
\* The records calls go on with

\* The same call, at another place.
Same(q, r) ==
  /\ r.op = q.op /\ r.w = q.w /\ r.s = q.s /\ r.key = q.key /\ r.consumer = q.consumer
  /\ r.saved = q.saved

LEMMA NotIdle ==
  ASSUME NEW r, r.at \in Steps
  PROVE  r # Idle
BY DEF Idle, Steps

\* A call that is answered or resumes
LEMMA CallHere ==
  ASSUME CallsOK, SessionInv, NEW c \in Calls, calls[c] # Idle
  PROVE  Formed(calls[c]) /\ CallTyped(calls[c], texts)
BY Working, Zenon DEF SessionInv, WorkOK, CallGood

LEMMA SessionOfCall ==
  ASSUME CallsOK, SessionInv, NEW c \in Calls, OnSession(calls[c])
  PROVE  /\ Formed(calls[c]) /\ CallTyped(calls[c], texts)
         /\ calls[c].w \in Windows /\ calls[c].s \in DOMAIN sess[calls[c].w]
         /\ sess[calls[c].w][calls[c].s] \in Session
         /\ SessionGood(sess[calls[c].w][calls[c].s], disk, texts)
         /\ Knows(calls[c], sess[calls[c].w][calls[c].s], disk, texts)
<1>1. calls[c] # Idle
  BY DEF OnSession
<1>2. /\ CallTyped(calls[c], texts)
      /\ calls[c].s \in DOMAIN sess[calls[c].w]
      /\ Knows(calls[c], sess[calls[c].w][calls[c].s], disk, texts)
  BY <1>1 DEF SessionInv, WorkOK, CallGood
<1>3. calls[c].w \in Windows
  BY <1>2, Zenon DEF CallTyped
<1> QED
  BY <1>1, <1>2, <1>3, Working, SessionHere DEF SessionInv, SessionsOK

-----------------------------------------------------------------------------
\* The turns of a save

\* The operation of call c is over, or was somebody else's already.
LEMMA OverTurn ==
  ASSUME CallsOK, SessionInv, NEW c \in Calls, OnSession(calls[c]),
         NEW w, NEW s, w = calls[c].w, s = calls[c].s, NEW T, NEW r,
         SetSession(w, s, T), Put(c, r), UNCHANGED <<disk, texts, live, handle>>,
         Course(sess[w][s], T, disk, texts), NotFor(sess[w][s], T, calls[c].tok),
         T.hs = sess[w][s].hs, T.gone = sess[w][s].gone,
         GoesOn(w, s, T, r), ~Holds(r)
  PROVE  SessionInv' /\ BusyStays
<1>1. Becomes(w, s, T)
  BY SessionOfCall, Zenon DEF Becomes
<1>2. Answers(c, w, s, T, r)
  BY DEF Answers, NotFor
<1> QED
  BY <1>1, <1>2, QuietTurn, Zenon

LEMMA FailTurn ==
  ASSUME CallsOK, SessionInv, NEW c \in Calls, OnSession(calls[c]),
         NEW w, NEW s, w = calls[c].w, s = calls[c].s, NEW b \in BOOLEAN,
         SetSession(w, s, Fail(sess[w][s], calls[c].tok, b)), Put(c, Idle),
         UNCHANGED <<disk, texts, live, handle>>
  PROVE  SessionInv' /\ BusyStays
<1> PICK T : T = Fail(sess[w][s], calls[c].tok, b)
  BY Zenon
<1>1. sess[w][s] \in Session /\ SessionGood(sess[w][s], disk, texts)
  BY SessionOfCall, Zenon
<1>2. /\ Course(sess[w][s], T, disk, texts) /\ NotFor(sess[w][s], T, calls[c].tok)
      /\ T.hs = sess[w][s].hs /\ T.gone = sess[w][s].gone
  BY <1>1, FailDoes
<1>3. GoesOn(w, s, T, Idle) /\ ~Holds(Idle)
  BY Zenon DEF GoesOn, Holds
<1> QED
  BY <1>2, <1>3, OverTurn, Zenon

\* The call awaits the next answer of its operation.
LEMMA AwaitTurn ==
  ASSUME CallsOK, SessionInv, NEW c \in Calls, OnSession(calls[c]), NEW r, Put(c, r),
         UNCHANGED <<disk, texts, sess, live, handle>>,
         Same(calls[c], r), r.tok = calls[c].tok, Holds(r) => Holds(calls[c]),
         CallTyped(r, texts),
         Knows(r, sess[calls[c].w][calls[c].s], disk, texts),
         Holds(calls[c]) /\ ~Holds(r) =>
            NotFor(sess[calls[c].w][calls[c].s], sess[calls[c].w][calls[c].s], calls[c].tok)
  PROVE  SessionInv' /\ BusyStays
<1>1. FilesGo
  BY FilesSame, Zenon DEF SessionInv
<1>2. CallGood(r)'
  BY SessionOfCall DEF CallGood, Same
<1>3. Holds(r) => SameWork(calls[c], r)
  BY DEF Same, SameWork
<1> QED
  BY <1>1, <1>2, <1>3, PutTurn

LEMMA RenewReplyKeeps ==
  ASSUME CallsOK, SessionInv, NEW c \in Calls, RenewReply(c)
  PROVE  SessionInv' /\ BusyStays
<1> PICK q, w, s : q = calls[c] /\ w = q.w /\ s = q.s
  OBVIOUS
<1>1. q.at = "renew" /\ OnSession(q) /\ q.op \in {"save", "close"}
  <2>1. calls[c].at = "renew" /\ calls[c] # Idle
    BY DEF RenewReply, Answered, Idle
  <2> QED
    BY <2>1, CallHere DEF OnSession, CallTyped, Saving
<1>2. CASE q.reply.kind = "ok"
  <2> PICK r : r = [q EXCEPT !.at = "revalidate", !.reply = Waiting]
    OBVIOUS
  <2>1. Put(c, r) /\ UNCHANGED <<disk, texts, sess, live, handle>>
    BY <1>2 DEF RenewReply, Await, Native
  <2>2. Formed(q)
    BY <1>1, SessionOfCall
  <2>3. Same(q, r) /\ r.at = "revalidate" /\ r.reply = Waiting /\ r.tok = q.tok
    BY <2>2 DEF Formed, Fields, Same
  <2>4. CallTyped(r, texts)
    BY <1>1, <2>3, SessionOfCall DEF CallTyped, Same, Steps, Saving
  <2>5. Knows(r, sess[w][s], disk, texts)
    BY <1>1, <2>3, SessionOfCall DEF Knows, Saving, Reading
  <2>6. Holds(q)
    BY <1>1 DEF Holds, OnSession, Saving
  <2>7. Holds(r)
    <3>1. r # Idle
      BY <2>3 DEF Idle
    <3> QED
      BY <1>1, <2>3, <3>1 DEF Holds, Same, Saving
  <2> QED
    BY <1>1, <2>1, <2>3, <2>4, <2>5, <2>6, <2>7, AwaitTurn
<1>3. CASE q.reply.kind # "ok"
  BY <1>1, <1>3, FailTurn DEF RenewReply, Native
<1> QED
  BY <1>2, <1>3

LEMMA SavingCall ==
  ASSUME CallsOK, SessionInv, NEW c \in Calls, calls[c].at \in Saving, calls[c].op # "orphan"
  PROVE  /\ OnSession(calls[c]) /\ Holds(calls[c]) /\ calls[c].op \in {"save", "close"}
<1>1. calls[c] # Idle
  BY DEF Idle, Saving
<1> QED
  BY <1>1, CallHere DEF OnSession, Holds, CallTyped, Saving

LEMMA WriteReplyKeeps ==
  ASSUME CallsOK, SessionInv, NEW c \in Calls, WriteReply(c)
  PROVE  SessionInv' /\ BusyStays
<1> PICK q, w, s : q = calls[c] /\ w = q.w /\ s = q.s
  OBVIOUS
<1> PICK S : S = sess[w][s]
  OBVIOUS
<1>1. /\ q.at = "write" /\ OnSession(q) /\ q.op \in {"save", "close"} /\ Holds(q)
      /\ q.reply # Waiting
  <2>1. calls[c].at = "write" /\ calls[c].op # "orphan" /\ q.reply # Waiting
    BY DEF WriteReply, Answered
  <2> QED
    BY <2>1, SavingCall, Zenon DEF Saving
<1>2. Formed(q) /\ CallTyped(q, texts) /\ Knows(q, S, disk, texts)
  BY <1>1, SessionOfCall
<1>3. q.reply.applied \in BOOLEAN
  BY <1>1, <1>2 DEF CallTyped
<1>4. CASE Current(S, q.tok) /\ q.reply.kind = "ok" /\ S.proof # 0
  <2> PICK r : r = [q EXCEPT !.at = "refresh", !.reply = Waiting, !.base = q.reply.snap,
                             !.proof = S.proof, !.applied = q.reply.applied]
    OBVIOUS
  <2>1. Put(c, r) /\ UNCHANGED <<disk, texts, sess, live, handle>>
    <3>1. Put(c, [Await(c, "refresh") EXCEPT !.base = q.reply.snap, !.proof = S.proof,
                                            !.applied = q.reply.applied])
      BY <1>4, Zenon DEF WriteReply
    <3>2. [Await(c, "refresh") EXCEPT !.base = q.reply.snap, !.proof = S.proof,
                                      !.applied = q.reply.applied] = r
      BY <1>2 DEF Await, Formed, Fields
    <3>3. UNCHANGED <<disk, texts, sess, live, handle>>
      BY <1>4, Zenon DEF WriteReply, Native
    <3> QED
      BY <3>1, <3>2, <3>3, Zenon
  <2>2. /\ Same(q, r) /\ r.at = "refresh" /\ r.reply = Waiting /\ r.tok = q.tok
        /\ r.base = q.reply.snap /\ r.applied = q.reply.applied
    BY <1>2, Zenon DEF Formed, Fields, Same
  <2>3. CallTyped(r, texts)
    BY <1>1, <1>2, <1>3, <2>2 DEF CallTyped, Same, Steps, Saving
  <2>4. Knows(r, S, disk, texts)
    <3>1. Brings(q, S, q.reply.snap, disk, texts)
      BY <1>1, <1>2, <1>4, Zenon DEF Knows
    <3>2. Brings(r, S, r.base, disk, texts)
      BY <2>2, <3>1, Zenon DEF Brings
    <3> QED
      BY <1>1, <1>2, <2>2, <3>2, Zenon DEF Knows, Saving, Reading
  <2>5. Holds(r)
    <3>1. r # Idle
      BY <2>2 DEF Idle
    <3> QED
      BY <1>1, <2>2, <3>1, Zenon DEF Holds, Same, Saving
  <2> QED
    BY <1>1, <2>1, <2>2, <2>3, <2>4, <2>5, AwaitTurn, Zenon
<1>5. CASE ~(Current(S, q.tok) /\ q.reply.kind = "ok" /\ S.proof # 0)
  <2>1. /\ SetSession(w, s, Fail(sess[w][s], q.tok, q.reply.applied)) /\ Put(c, Idle)
        /\ UNCHANGED <<disk, texts, live, handle>>
    BY <1>5, Zenon DEF WriteReply, Native
  <2> QED
    BY <1>1, <1>3, <2>1, FailTurn
<1> QED
  BY <1>4, <1>5

\* A save or a discard is done, and a close goes on.
LEMMA LeavingRecord ==
  ASSUME CallsOK, SessionInv, NEW c \in Calls, OnSession(calls[c]), NEW r,
         r \in {Idle, [calls[c] EXCEPT !.at = "leave"]},
         NEW T, Onward(sess[calls[c].w][calls[c].s], T), T \in Session
  PROVE  GoesOn(calls[c].w, calls[c].s, T, r) /\ ~Holds(r)
<1> PICK q : q = calls[c]
  OBVIOUS
<1>1. CASE r = Idle
  BY <1>1 DEF GoesOn, Holds
<1>2. CASE r = [q EXCEPT !.at = "leave"]
  <2>1. Formed(q) /\ CallTyped(q, texts) /\ Knows(q, sess[q.w][q.s], disk, texts)
    BY SessionOfCall, Zenon
  <2>2. Same(q, r) /\ r.at = "leave" /\ r.tok = q.tok
    BY <1>2, <2>1 DEF Formed, Fields, Same
  <2>3. q.op # "orphan"
    BY Zenon DEF OnSession
  <2>4. CallTyped(r, texts) /\ ~Holds(r)
    BY <2>1, <2>2, <2>3 DEF CallTyped, Same, Steps, Saving, Reading, Holds
  <2>5. Knows(r, T, disk, texts)
    <3>1. sess[q.w][q.s] \in Session
      BY SessionOfCall, Zenon
    <3>2. T.tok \in Nat /\ sess[q.w][q.s].tok \in Nat
      BY <3>1 DEF Session
    <3>3. r.tok \in Nat /\ r.tok <= T.tok
      <4>1. q.tok \in Nat /\ q.tok <= sess[q.w][q.s].tok
        BY <2>1, Zenon DEF Knows
      <4>2. T.tok >= sess[q.w][q.s].tok
        BY Zenon DEF Onward
      <4> QED
        BY <2>2, <3>2, <4>1, <4>2, NoMore, Zenon
    <3> QED
      BY <2>2, <3>3, Zenon DEF Knows, Saving, Reading
  <2> QED
    BY <2>2, <2>4, <2>5, Zenon DEF GoesOn, Same
<1> QED
  BY <1>1, <1>2

LEMMA HydrateTurn ==
  ASSUME CallsOK, SessionInv, NEW c \in Calls, OnSession(calls[c]),
         NEW w, NEW s, w = calls[c].w, s = calls[c].s, NEW saved, NEW snap,
         Brings(calls[c], sess[w][s], snap, disk, texts),
         NEW keep \in BOOLEAN, keep => sess[w][s].base # NoBase,
         NEW U, U = Hydrate(sess[w][s], calls[c].tok, saved, snap, keep),
         SetSession(w, s, U) \/ SetSession(w, s, Behind(w, s, U)),
         NEW r, r \in {Idle, [calls[c] EXCEPT !.at = "leave"]}, Put(c, r),
         UNCHANGED <<disk, texts, live, handle>>
  PROVE  SessionInv' /\ BusyStays
<1>1. sess[w][s] \in Session /\ SessionGood(sess[w][s], disk, texts)
  BY SessionOfCall, Zenon
<1>2. disk \in Snap /\ texts \in Nat
  BY FilesTyped, ZenonT(30)
<1>3. /\ Course(sess[w][s], U, disk, texts) /\ NotFor(sess[w][s], U, calls[c].tok)
      /\ U.hs = sess[w][s].hs /\ U.gone = sess[w][s].gone
  BY <1>1, <1>2, HydrateDoes DEF Brings
<1>4. \E T : /\ SetSession(w, s, T) /\ Course(sess[w][s], T, disk, texts)
             /\ NotFor(sess[w][s], T, calls[c].tok)
             /\ T.hs = sess[w][s].hs /\ T.gone = sess[w][s].gone
  <2>1. CASE SetSession(w, s, U)
    BY <1>3, <2>1, Zenon
  <2>2. CASE SetSession(w, s, Behind(w, s, U))
    <3>1. \E b \in BOOLEAN : SetSession(w, s, Marked(U, b))
      <4> PICK b \in BOOLEAN : b = (U.late \/ (U.dirty /\ ~sess[w][s].dirty /\ DecidedClean(w, s)))
        BY Zenon
      <4>1. Marked(U, b) = Behind(w, s, U)
        BY Zenon DEF Marked, Behind
      <4> QED
        BY <2>2, <4>1, Zenon
    <3> PICK b \in BOOLEAN : SetSession(w, s, Marked(U, b))
      BY <3>1, Zenon
    <3> PICK T : T = Marked(U, b)
      OBVIOUS
    <3>2. /\ Course(sess[w][s], T, disk, texts) /\ NotFor(sess[w][s], T, calls[c].tok)
          /\ T.hs = U.hs /\ T.gone = U.gone
      <4>1. U \in Session /\ Course(sess[w][s], T, disk, texts)
        BY <1>1, <1>3, LateDoes, Zenon DEF Course
      <4>2. T.hs = U.hs /\ T.gone = U.gone /\ T.op = U.op /\ T.tok = U.tok
        BY <4>1, MarkedFields, Zenon
      <4> QED
        BY <1>3, <4>1, <4>2, Zenon DEF NotFor
    <3> QED
      BY <1>3, <3>2, Zenon
  <2> QED
    BY <2>1, <2>2, Zenon
<1> PICK T : /\ SetSession(w, s, T) /\ Course(sess[w][s], T, disk, texts)
             /\ NotFor(sess[w][s], T, calls[c].tok)
             /\ T.hs = sess[w][s].hs /\ T.gone = sess[w][s].gone
  BY <1>4, Zenon
<1>5. GoesOn(w, s, T, r) /\ ~Holds(r)
  BY LeavingRecord, Zenon DEF Course
<1> QED
  BY <1>5, OverTurn, Zenon

LEMMA RefreshReplyKeeps ==
  ASSUME CallsOK, SessionInv, NEW c \in Calls, RefreshReply(c)
  PROVE  SessionInv' /\ BusyStays
<1> PICK q, w, s : q = calls[c] /\ w = q.w /\ s = q.s
  OBVIOUS
<1> PICK S : S = sess[w][s]
  OBVIOUS
<1>1. q.at = "refresh" /\ OnSession(q)
  <2>1. calls[c].at = "refresh" /\ calls[c] # Idle
    BY DEF RefreshReply, Answered, Idle
  <2> QED
    BY <2>1, CallHere DEF OnSession, CallTyped
<1>2. /\ CallTyped(q, texts) /\ Knows(q, S, disk, texts)
      /\ q.applied \in BOOLEAN /\ S.base # NoBase /\ Brings(q, S, q.base, disk, texts)
  BY <1>1, SessionOfCall, Zenon DEF CallTyped, Knows, Saving
<1>3. CASE q.reply.kind # "ok"
  BY <1>1, <1>2, <1>3, FailTurn DEF RefreshReply, Native
<1>4. CASE q.reply.kind = "ok"
  <2> PICK U : U = Hydrate(sess[w][s], q.tok, q.saved, q.base, TRUE)
    BY Zenon
  <2>1. /\ SetSession(w, s, Behind(w, s, U))
        /\ UNCHANGED <<disk, texts, live, handle>>
    BY <1>4 DEF RefreshReply, Native
  <2>2. PICK r \in {Idle, [q EXCEPT !.at = "leave"]} : Put(c, r)
    BY <1>4 DEF RefreshReply
  <2> QED
    BY <1>1, <1>2, <2>1, <2>2, HydrateTurn, ZenonT(30)
<1> QED
  BY <1>3, <1>4

LEMMA RereadReplyKeeps ==
  ASSUME CallsOK, SessionInv, NEW c \in Calls, RereadReply(c)
  PROVE  SessionInv' /\ BusyStays
<1> PICK q, w, s : q = calls[c] /\ w = q.w /\ s = q.s
  OBVIOUS
<1>1. q.at = "reread" /\ OnSession(q)
  <2>1. calls[c].at = "reread" /\ calls[c] # Idle
    BY DEF RereadReply, Answered, Idle
  <2> QED
    BY <2>1, CallHere DEF OnSession, CallTyped
<1>2. CASE q.reply.kind # "ok"
  BY <1>1, <1>2, FailTurn, Zenon DEF RereadReply, Native
<1>3. CASE q.reply.kind = "ok"
  <2>1. Brings(q, sess[w][s], q.reply.snap, disk, texts)
    BY <1>1, <1>3, SessionOfCall, Zenon DEF Knows, Reading
  <2>2. /\ SetSession(w, s, Hydrate(sess[w][s], q.tok, 0, q.reply.snap, FALSE))
        /\ UNCHANGED <<disk, texts, live, handle>>
    BY <1>3, Zenon DEF RereadReply, Native
  <2>3. PICK r \in {Idle, [q EXCEPT !.at = "leave"]} : Put(c, r)
    BY <1>3 DEF RereadReply
  <2> QED
    BY <1>1, <2>1, <2>2, <2>3, HydrateTurn, Zenon
<1> QED
  BY <1>2, <1>3

-----------------------------------------------------------------------------
\* Handles, and the end of a grant

\* A call record about a session there is.
Rec(rec) ==
  /\ Formed(rec) /\ rec.op # "orphan" /\ rec.w \in Windows /\ rec.key \in Keys
  /\ rec.consumer \in Consumers \cup {NoConsumer}
  /\ rec.s \in DOMAIN sess[rec.w]
  /\ rec.tok \in Nat /\ rec.tok <= sess[rec.w][rec.s].tok

LEMMA RecOfCall ==
  ASSUME CallsOK, SessionInv, NEW c \in Calls, OnSession(calls[c])
  PROVE  Rec(calls[c])
BY SessionOfCall DEF Rec, OnSession, CallTyped, Knows

LEMMA RecOfNew ==
  ASSUME SessionInv, NEW op, op # "orphan", NEW at, NEW w \in Windows, NEW s \in DOMAIN sess[w],
         NEW h, NEW k \in Keys
  PROVE  LET N == NewCall(op, at, w, s, h)
         IN  Rec(N) /\ N.op = op /\ N.at = at /\ N.w = w /\ N.s = s /\ N.tok = 0
<1> PICK k0 : k0 = CHOOSE x \in Keys : TRUE
  OBVIOUS
<1>1. k0 \in Keys
  OBVIOUS
<1> PICK N : N = [op |-> op, at |-> at, w |-> w, s |-> s, h |-> h, reply |-> Waiting,
           key |-> k0, consumer |-> NoConsumer, tok |-> 0, saved |-> 0,
           base |-> NoBase, expected |-> NoBase, proof |-> 0,
           decision |-> "none", applied |-> FALSE, n |-> 0, todo |-> {}]
  OBVIOUS
<1>2. N = NewCall(op, at, w, s, h)
  BY DEF NewCall
<1>3. /\ N.op = op /\ N.at = at /\ N.w = w /\ N.s = s /\ N.tok = 0 /\ N.key = k0
      /\ N.consumer = NoConsumer
  OBVIOUS
<1>4. Formed(N)
  <2>1. N = [f \in Fields |-> N[f]]
    BY DEF Fields
  <2> QED
    BY <2>1 DEF Formed
<1>5. sess[w][s].tok \in Nat
  BY SessionHere DEF SessionInv, Session
<1> QED
  BY <1>1, <1>2, <1>3, <1>4, <1>5 DEF Rec

\* A consumer's new handle, or the one it had.
LEMMA CreateHandleDoes ==
  ASSUME SessionInv, NEW w \in Windows, NEW s \in DOMAIN sess[w],
         NEW S, Like(sess[w][s], S), S.hs = sess[w][s].hs, S.gone = sess[w][s].gone,
         NEW u \in Consumers \cup {NoConsumer}, CreateHandle(w, s, S, u)
  PROVE  \E T : /\ Becomes(w, s, T) /\ Like(sess[w][s], T) /\ T.gone = sess[w][s].gone
                /\ T.hs \subseteq DOMAIN handle'[w] /\ HandlesGo
<1>1. /\ S \in Session /\ S.hs \subseteq DOMAIN handle[w] /\ S.key \in Keys
  BY DEF Like, Session, SessionInv, SessionsOK
<1>2. CASE ConsumerHandles(w, s, u) # {}
  <2>1. Becomes(w, s, S) /\ UNCHANGED handle
    BY <1>2 DEF CreateHandle, Becomes
  <2>2. SessionsGo
    <3>1. Onward(sess[w][s], S)
      BY LikeCourse, SessionHere DEF Course, SessionInv, SessionsOK
    <3> QED
      BY <1>1, <2>1, <3>1, BecomesGo DEF SessionInv
  <2> QED
    BY <1>1, <2>1, <2>2, HandlesSame, Zenon
<1>3. CASE ConsumerHandles(w, s, u) = {}
  <2> PICK q, h : q = handle[w] /\ h = Len(q) + 1
    OBVIOUS
  <2> PICK x : x = [s |-> s, key |-> S.key, consumer |-> u, open |-> TRUE]
    OBVIOUS
  <2> PICK T : T = [S EXCEPT !.hs = S.hs \cup {h}]
    OBVIOUS
  <2>1. h <= MaxHandles /\ handle' = [handle EXCEPT ![w] = Append(q, x)] /\ SetSession(w, s, T)
    BY <1>3 DEF CreateHandle
  <2>2. q \in Seq(Handle) /\ Len(q) \in Nat /\ DOMAIN q = 1..Len(q)
    BY DEF SessionInv, HandlesOK
  <2>3. s \in Nat
    <3>1. sess[w] \in Seq(Session)
      BY DEF SessionInv, SessionsOK
    <3> QED
      BY <3>1
  <2>4. x \in Handle
    BY <1>1, <2>3 DEF Handle
  <2> PICK p : p = Append(q, x)
    OBVIOUS
  <2>5. /\ p \in Seq(Handle) /\ Len(p) = h /\ DOMAIN p = 1..h
        /\ p[h] = x /\ \A i \in 1..Len(q) : p[i] = q[i]
    BY <2>2, <2>4
  <2>6. handle'[w] = p /\ \A v \in Windows : v # w => handle'[v] = handle[v]
    BY <2>1 DEF SessionInv, HandlesOK
  <2>7. T \in Session /\ Like(sess[w][s], T) /\ T.gone = S.gone /\ T.hs = S.hs \cup {h}
    <3>1. S.hs \cup {h} \in SUBSET (1..MaxHandles)
      <4>1. h \in 1..MaxHandles
        BY <2>1, <2>2, SessionConstants
      <4> QED
        BY <1>1, <4>1 DEF Session
    <3>2. /\ T \in Session /\ T.key = S.key /\ T.op = S.op /\ T.tok = S.tok /\ T.base = S.base
          /\ T.draft = S.draft /\ T.dirty = S.dirty /\ T.late = S.late
          /\ T.gone = S.gone /\ T.hs = S.hs \cup {h}
      BY <1>1, <3>1, Zenon DEF Session
    <3> QED
      BY <3>2, Zenon DEF Like
  <2>8. Becomes(w, s, T)
    BY <2>1 DEF Becomes
  <2>9. HandlesGo
    <3>1. \A v \in Windows : DOMAIN sess'[v] = DOMAIN sess[v]
      BY <2>7, <2>8, BecomesSets, Zenon DEF SessionInv
    <3>2. handle' \in [Windows -> Seq(Handle)]
      BY <2>1, <2>5 DEF SessionInv, HandlesOK
    <3>3. \A i \in DOMAIN p : p[i].s \in DOMAIN sess[w]
      <4>1. \A i \in 1..Len(q) : q[i].s \in DOMAIN sess[w]
        BY <2>2 DEF SessionInv, HandlesOK
      <4>2. x.s = s
        OBVIOUS
      <4> QED
        BY <2>2, <2>5, <4>1, <4>2
    <3>4. DOMAIN q \subseteq DOMAIN p
      BY <2>2, <2>5
    <3> QED
      BY <2>1, <2>5, <2>6, <3>1, <3>2, <3>3, <3>4 DEF HandlesGo, SessionInv, HandlesOK
  <2>10. T.hs \subseteq DOMAIN handle'[w]
    BY <1>1, <2>2, <2>5, <2>6, <2>7
  <2> QED
    BY <2>7, <2>8, <2>9, <2>10
<1> QED
  BY <1>2, <1>3

\* Call c holds the operation of rec exactly if rec is a save or a close.
Owns(c, rec) ==
  /\ Holds(calls[c]) <=> rec.op \in {"save", "close"}
  /\ Holds(calls[c]) => /\ calls[c].w = rec.w /\ calls[c].s = rec.s
                        /\ calls[c].tok = rec.tok

\* A session that is alike, and the call goes on or is done.
LEMMA LikeTurn ==
  ASSUME CallsOK, SessionInv, NEW c \in Calls, NEW w, NEW s, NEW T, NEW r,
         Becomes(w, s, T), Like(sess[w][s], T), T.gone = sess[w][s].gone, Put(c, r),
         UNCHANGED <<disk, texts, live>>, T.hs \subseteq DOMAIN handle'[w], HandlesGo,
         GoesOn(w, s, T, r), Holds(r) <=> Holds(calls[c]),
         Holds(r) => SameWork(calls[c], r)
  PROVE  SessionInv' /\ BusyStays
<1>1. w \in Windows /\ s \in DOMAIN sess[w] /\ sess[w][s] \in Session
  BY SessionHere DEF Becomes, SessionInv
<1>2. Course(sess[w][s], T, disk, texts)
  BY <1>1, LikeCourse DEF SessionInv, SessionsOK
<1>3. T.gone => live'[w][T.key] # s
  <2>1. T.key \in Keys /\ T.key = sess[w][s].key
    BY <1>1 DEF Like, Session
  <2>2. s # 0
    <3>1. sess[w] \in Seq(Session)
      BY <1>1 DEF SessionInv, SessionsOK
    <3> QED
      BY <1>1, <3>1
  <2> QED
    BY <1>1, <2>1, <2>2, Zenon DEF SessionInv, LiveOK
<1>4. Answers(c, w, s, T, r)
  <2>1. Holds(r) => r.w = w /\ r.s = s
    BY DEF GoesOn, Holds
  <2>2. CASE Holds(r) /\ r.tok = T.tok
    BY <2>1, <2>2 DEF Answers, SameWork
  <2>3. CASE ~(Holds(r) /\ r.tok = T.tok)
    BY <2>1, <2>3 DEF Answers, SameWork, Like
  <2> QED
    BY <2>2, <2>3
<1>5. LiveGo
  BY LiveSame DEF SessionInv
<1> QED
  BY <1>2, <1>3, <1>4, <1>5, Turn

LEMMA LikeQuiet ==
  ASSUME CallsOK, SessionInv, NEW c \in Calls, NEW w \in Windows, NEW s \in DOMAIN sess[w],
         NEW T, NEW r, SetSession(w, s, T), Like(sess[w][s], T),
         T.hs = sess[w][s].hs, T.gone = sess[w][s].gone, Put(c, r),
         UNCHANGED <<disk, texts, live, handle>>,
         GoesOn(w, s, T, r), Holds(r) <=> Holds(calls[c]), Holds(r) => SameWork(calls[c], r)
  PROVE  SessionInv' /\ BusyStays
<1>1. Becomes(w, s, T) /\ T \in Session
  BY DEF Becomes, Like
<1>2. SessionsGo
  <2>1. Onward(sess[w][s], T)
    BY LikeCourse, SessionHere DEF Course, SessionInv, SessionsOK
  <2> QED
    BY <1>1, <2>1, BecomesGo DEF SessionInv
<1>3. HandlesGo
  BY <1>2, HandlesSame
<1>4. T.hs \subseteq DOMAIN handle'[w]
  BY DEF SessionInv, SessionsOK
<1> QED
  BY <1>1, <1>3, <1>4, LikeTurn

\* The call that holds the operation of rec, if any does, is c, and rec goes on
\* as r at a place where it holds it too.
LEMMA OwnedGoesOn ==
  ASSUME NEW c, NEW rec, Rec(rec), Owns(c, rec), NEW r, Same(rec, r), r.tok = rec.tok,
         r.at = "demote"
  PROVE  /\ Holds(r) <=> Holds(calls[c])
         /\ Holds(r) => SameWork(calls[c], r)
<1>1. r # Idle
  BY DEF Idle
<1>2. Holds(r) <=> rec.op \in {"save", "close"}
  BY <1>1 DEF Holds, Same, Rec, Saving, Reading
<1> QED
  BY <1>2 DEF Owns, SameWork, Same

LEMMA JoinTurn ==
  ASSUME CallsOK, SessionInv, NEW c \in Calls, NEW rec, Rec(rec), rec.op = "open",
         ~Holds(calls[c]), NEW S, Like(sess[rec.w][rec.s], S),
         S.hs = sess[rec.w][rec.s].hs, S.gone = sess[rec.w][rec.s].gone,
         Join(c, rec, S), UNCHANGED <<disk, texts, live>>
  PROVE  SessionInv' /\ BusyStays
<1> PICK w, s : w = rec.w /\ s = rec.s
  OBVIOUS
<1>1. w \in Windows /\ s \in DOMAIN sess[w] /\ rec.consumer \in Consumers \cup {NoConsumer}
  BY DEF Rec
<1>2. CASE CreateHandle(w, s, S, rec.consumer) /\ Put(c, Idle)
  <2>1. PICK T : /\ Becomes(w, s, T) /\ Like(sess[w][s], T) /\ T.gone = sess[w][s].gone
                 /\ T.hs \subseteq DOMAIN handle'[w] /\ HandlesGo
    BY <1>1, <1>2, CreateHandleDoes
  <2>2. GoesOn(w, s, T, Idle) /\ ~Holds(Idle)
    BY DEF GoesOn, Holds
  <2> QED
    BY <1>2, <2>1, <2>2, LikeTurn, Zenon
<1>3. CASE ~(CreateHandle(w, s, S, rec.consumer) /\ Put(c, Idle))
  <2> PICK r : r = [rec EXCEPT !.at = "retain", !.reply = Waiting, !.proof = S.proof]
    OBVIOUS
  <2>1. SetSession(w, s, S) /\ Put(c, r) /\ UNCHANGED handle
    BY <1>3 DEF Join
  <2>2. /\ Same(rec, r) /\ r.at = "retain" /\ r.reply = Waiting /\ r.tok = rec.tok
        /\ r.proof = S.proof
    BY DEF Rec, Formed, Fields, Same
  <2>3. CallTyped(r, texts)
    BY <2>2 DEF CallTyped, Same, Rec, Steps, Saving
  <2>4. Knows(r, S, disk, texts)
    <3>1. S.proof \in 0..MaxGrants /\ S.tok = sess[w][s].tok
      BY DEF Like, Session
    <3> QED
      BY <2>2, <3>1, Zenon DEF Knows, Rec, Saving, Reading
  <2>5. GoesOn(w, s, S, r) /\ ~Holds(r)
    BY <2>2, <2>3, <2>4 DEF GoesOn, Same, Holds, Saving, Reading
  <2> QED
    BY <1>1, <2>1, <2>5, LikeQuiet
<1> QED
  BY <1>2, <1>3

LEMMA AfterDemoteTurn ==
  ASSUME CallsOK, SessionInv, NEW c \in Calls, NEW rec, Rec(rec), Owns(c, rec),
         NEW S, Like(sess[rec.w][rec.s], S),
         S.hs = sess[rec.w][rec.s].hs, S.gone = sess[rec.w][rec.s].gone,
         AfterDemote(c, rec, S), UNCHANGED <<disk, texts, live>>
  PROVE  SessionInv' /\ BusyStays
<1> PICK w, s : w = rec.w /\ s = rec.s
  OBVIOUS
<1>1. w \in Windows /\ s \in DOMAIN sess[w]
  BY Zenon DEF Rec
<1>2. CASE rec.op = "open"
  BY <1>2, JoinTurn, Zenon DEF AfterDemote, Owns
<1>3. CASE rec.op \in {"save", "close"}
  <2> PICK T : T = Fail(S, rec.tok, FALSE)
    OBVIOUS
  <2>1. SetSession(w, s, T) /\ Put(c, Idle) /\ UNCHANGED handle
    BY <1>3 DEF AfterDemote
  <2>2. SessionGood(S, disk, texts) /\ S \in Session
    BY <1>1, LikeCourse, SessionHere DEF Course, SessionInv, SessionsOK
  <2>3. /\ Course(S, T, disk, texts) /\ NotFor(S, T, rec.tok)
        /\ T.hs = S.hs /\ T.gone = S.gone
    BY <2>2, FailDoes, Zenon
  <2>4. Course(sess[w][s], T, disk, texts)
    BY <1>1, <2>3, LikeThen, SessionHere, Zenon DEF SessionInv
  <2>5. GoesOn(w, s, T, Idle) /\ ~Holds(Idle)
    BY Zenon DEF GoesOn, Holds
  <2>6. Answers(c, w, s, T, Idle)
    BY <2>3, <2>5 DEF Answers, NotFor, Owns, Like
  <2>7. Becomes(w, s, T)
    BY <1>1, <2>1, Zenon DEF Becomes
  <2> QED
    BY <2>1, <2>3, <2>4, <2>5, <2>6, <2>7, QuietTurn
<1>4. CASE rec.op \notin {"open", "save", "close"}
  <2>1. SetSession(w, s, S) /\ Put(c, Idle) /\ UNCHANGED handle
    BY <1>4 DEF AfterDemote
  <2>2. GoesOn(w, s, S, Idle) /\ ~Holds(Idle) /\ ~Holds(calls[c])
    BY <1>4 DEF GoesOn, Holds, Owns
  <2> QED
    BY <1>1, <2>1, <2>2, LikeQuiet, Zenon
<1> QED
  BY <1>2, <1>3, <1>4

LEMMA DemotedLike ==
  ASSUME NEW S \in Session, NEW p \in 0..MaxGrants
  PROVE  LET T == Demoted([S EXCEPT !.proof = p]) U == [S EXCEPT !.proof = p]
             D == Demoted(S)
         IN  /\ Like(S, T) /\ T.hs = S.hs /\ T.gone = S.gone
             /\ Like(S, U) /\ U.hs = S.hs /\ U.gone = S.gone
             /\ Like(S, D) /\ D.hs = S.hs /\ D.gone = S.gone
<1> PICK T, U, D : /\ T = Demoted([S EXCEPT !.proof = p]) /\ U = [S EXCEPT !.proof = p]
                   /\ D = Demoted(S)
  OBVIOUS
<1>1. Like(S, T) /\ T.hs = S.hs /\ T.gone = S.gone
  BY DEF Demoted, Like, Session
<1>2. Like(S, U) /\ U.hs = S.hs /\ U.gone = S.gone
  BY DEF Like, Session
<1>3. Like(S, D) /\ D.hs = S.hs /\ D.gone = S.gone
  BY DEF Demoted, Like, Session
<1> QED
  BY <1>1, <1>2, <1>3

LEMMA ProofGiven ==
  ASSUME NEW S \in Session, NEW p \in 0..MaxGrants, NEW U, U = [S EXCEPT !.proof = p]
  PROVE  Like(S, U) /\ U.hs = S.hs /\ U.gone = S.gone
BY DemotedLike

\* transitionToReadOnly up to its first await
LEMMA DemoteTurn ==
  ASSUME CallsOK, SessionInv, NEW c \in Calls, NEW rec, Rec(rec), Owns(c, rec),
         Demote(c, rec), UNCHANGED <<disk, texts, live>>
  PROVE  SessionInv' /\ BusyStays
<1> PICK w, s : w = rec.w /\ s = rec.s
  OBVIOUS
<1> PICK S : S = sess[w][s]
  OBVIOUS
<1>1. w \in Windows /\ s \in DOMAIN sess[w] /\ S \in Session /\ 0 \in 0..MaxGrants
  BY SessionHere, SessionConstants DEF Rec, SessionInv
<1>2. CASE S.proof = 0 \/ S.hs = {}
  <2> PICK T : T = Demoted([S EXCEPT !.proof = 0])
    BY Zenon
  <2>1. AfterDemote(c, rec, T)
    BY <1>2 DEF Demote
  <2>2. Like(S, T) /\ T.hs = S.hs /\ T.gone = S.gone
    BY <1>1, DemotedLike, Zenon
  <2> QED
    BY <2>1, <2>2, AfterDemoteTurn
<1>3. CASE ~(S.proof = 0 \/ S.hs = {})
  <2> PICK T : T = [S EXCEPT !.proof = 0]
    OBVIOUS
  <2> PICK r : r = [rec EXCEPT !.at = "demote", !.reply = Waiting, !.proof = S.proof, !.n = 1]
    OBVIOUS
  <2>1. SetSession(w, s, T) /\ Put(c, r) /\ UNCHANGED handle
    BY <1>3, Zenon DEF Demote
  <2>2. Like(S, T) /\ T.hs = S.hs /\ T.gone = S.gone
    BY <1>1, DemotedLike
  <2>3. Same(rec, r) /\ r.at = "demote" /\ r.reply = Waiting /\ r.tok = rec.tok
    BY DEF Rec, Formed, Fields, Same
  <2>4. CallTyped(r, texts)
    BY <2>3, Zenon DEF CallTyped, Same, Rec, Steps, Saving
  <2>5. Knows(r, T, disk, texts)
    BY <2>2, <2>3, Zenon DEF Knows, Rec, Saving, Reading, Like
  <2>6. GoesOn(w, s, T, r)
    BY <2>3, <2>4, <2>5, Zenon DEF GoesOn, Same
  <2>7. (Holds(r) <=> Holds(calls[c])) /\ (Holds(r) => SameWork(calls[c], r))
    BY <2>3, OwnedGoesOn
  <2> QED
    BY <1>1, <2>1, <2>2, <2>6, <2>7, LikeQuiet, Zenon
<1> QED
  BY <1>2, <1>3

\* A call that has nothing to go on with
LEMMA IdleTurn ==
  ASSUME CallsOK, SessionInv, NEW c \in Calls, Put(c, Idle), ~Holds(calls[c]),
         UNCHANGED <<disk, texts, sess, live, handle>>
  PROVE  SessionInv' /\ BusyStays
<1>1. FilesGo
  BY FilesSame DEF SessionInv
<1>2. CallGood(Idle)' /\ ~Holds(Idle)
  BY DEF CallGood, Holds
<1> QED
  BY <1>1, <1>2, PutTurn

LEMMA BeginRereadTurn ==
  ASSUME CallsOK, SessionInv, NEW c \in Calls, NEW rec, Rec(rec), ~Holds(calls[c]),
         BeginReread(c, rec), UNCHANGED <<disk, texts, live, handle>>
  PROVE  SessionInv' /\ BusyStays
<1> PICK w, s : w = rec.w /\ s = rec.s
  OBVIOUS
<1> PICK S : S = sess[w][s]
  BY Zenon
<1>1. /\ w \in Windows /\ s \in DOMAIN sess[w] /\ S \in Session /\ S.tok \in Nat
      /\ SessionGood(S, disk, texts)
  BY SessionHere DEF Rec, SessionInv, SessionsOK, Session
<1>2. CASE Free(S)
  <2> PICK T : T = Begin(S, "reread")
    BY Zenon
  <2> PICK t \in Nat : t = S.tok + 1
    BY <1>1
  <2> PICK r : r = [rec EXCEPT !.at = "reread", !.reply = Waiting, !.tok = t]
    BY Zenon
  <2>1. SetSession(w, s, T) /\ Put(c, r)
    BY <1>2, Zenon DEF BeginReread
  <2>2. /\ Course(S, T, disk, texts) /\ T.op = "reread" /\ T.tok = t
        /\ T.hs = S.hs /\ T.gone = S.gone
    BY <1>1, BeginDoes, Zenon
  <2>3. Same(rec, r) /\ r.at = "reread" /\ r.reply = Waiting /\ r.tok = t
    BY DEF Rec, Formed, Fields, Same
  <2>4. CallTyped(r, texts)
    BY <2>3, Zenon DEF CallTyped, Same, Rec, Steps, Saving
  <2>5. Knows(r, T, disk, texts)
    BY <2>2, <2>3 DEF Knows, Saving, Reading, Waiting
  <2>6. GoesOn(w, s, T, r)
    BY <2>3, <2>4, <2>5, Zenon DEF GoesOn, Same
  <2>7. Holds(r)
    <3>1. r # Idle
      BY <2>3, Zenon DEF Idle
    <3> QED
      BY <2>3, <3>1 DEF Holds, Same, Rec, Reading
  <2>8. Answers(c, w, s, T, r)
    <3>1. t > S.tok
      BY <1>1
    <3> QED
      BY <2>2, <2>3, <2>7, <3>1, Zenon DEF Answers
  <2>9. Becomes(w, s, T)
    BY <1>1, <2>1 DEF Becomes
  <2> QED
    BY <2>1, <2>2, <2>6, <2>8, <2>9, QuietTurn, Zenon
<1>3. CASE ~Free(S)
  BY <1>3, IdleTurn DEF BeginReread
<1> QED
  BY <1>2, <1>3

LEMMA OwnsOfCall ==
  ASSUME CallsOK, SessionInv, NEW c \in Calls, OnSession(calls[c]),
         calls[c].at \in {"revalidate", "demote", "check"}
  PROVE  Owns(c, calls[c])
<1> PICK q : q = calls[c]
  OBVIOUS
<1>1. /\ q # Idle /\ q.op # "orphan"
      /\ q.at = "revalidate" => q.op \in {"save", "close", "orphan"}
      /\ q.at = "check" => q.op = "reload"
  BY SessionOfCall DEF OnSession, CallTyped, Saving
<1>2. Holds(q) <=> q.op \in {"save", "close"}
  BY <1>1 DEF Holds, Saving, Reading
<1> QED
  BY <1>2 DEF Owns

LEMMA RevalidateReplyKeeps ==
  ASSUME CallsOK, SessionInv, NEW c \in Calls, RevalidateReply(c)
  PROVE  SessionInv' /\ BusyStays
<1> PICK q, w, s : q = calls[c] /\ w = q.w /\ s = q.s
  OBVIOUS
<1> PICK S : S = sess[w][s]
  OBVIOUS
<1>1. /\ q.at = "revalidate" /\ OnSession(q) /\ q.op \in {"save", "close"} /\ Holds(q)
      /\ q.reply # Waiting /\ q.reply.kind \in Lookups
  <2>1. calls[c].at = "revalidate" /\ calls[c] # Idle /\ calls[c].reply # Waiting
    BY DEF RevalidateReply, Answered, Idle
  <2>2. CallTyped(q, texts)
    BY <2>1, CallHere
  <2>3. q.op # "orphan"
    BY <2>1, <2>2 DEF CallTyped
  <2> QED
    BY <2>1, <2>2, <2>3, SavingCall DEF CallTyped, Saving
<1>2. /\ Formed(q) /\ CallTyped(q, texts) /\ Knows(q, S, disk, texts)
      /\ S \in Session /\ SessionGood(S, disk, texts)
  BY <1>1, SessionOfCall
<1>3. UNCHANGED <<disk, texts, live>>
  BY DEF RevalidateReply, Native
<1>4. CASE q.reply.kind = "ok"
  <2> PICK r : r = [q EXCEPT !.at = "write", !.reply = Waiting, !.base = S.base]
    OBVIOUS
  <2>1. Put(c, r) /\ UNCHANGED <<sess, handle>>
    <3>1. Put(c, [Await(c, "write") EXCEPT !.base = S.base]) /\ UNCHANGED <<sess, handle>>
      BY <1>4, Zenon DEF RevalidateReply
    <3>2. [Await(c, "write") EXCEPT !.base = S.base] = r
      BY <1>2, Zenon DEF Await, Formed, Fields
    <3> QED
      BY <3>1, <3>2, Zenon
  <2>2. Same(q, r) /\ r.at = "write" /\ r.reply = Waiting /\ r.tok = q.tok /\ r.base = S.base
    BY <1>2, Zenon DEF Formed, Fields, Same
  <2>3. CallTyped(r, texts)
    BY <1>1, <1>2, <2>2 DEF CallTyped, Same, Steps, Saving
  <2>4. Knows(r, S, disk, texts)
    <3>1. S.base \in Snap
      BY <1>1, <1>2, Zenon DEF Knows, Session, Saving
    <3>2. Upto(S.base, S.base)
      BY <3>1, Revisions, UptoOrder
    <3>3. r.tok \in Nat /\ r.tok <= S.tok /\ S.base # NoBase /\ r.reply.kind # "ok"
      <4>1. q.tok \in Nat /\ q.tok <= S.tok
        BY <1>2, Zenon DEF Knows
      <4>2. q.at \in Saving => S.base # NoBase
        BY <1>2, Zenon DEF Knows
      <4>3. S.base # NoBase
        BY <1>1, <4>2, Zenon DEF Saving
      <4>4. r.reply.kind # "ok"
        BY <2>2, Unanswered, Zenon
      <4> QED
        BY <2>2, <4>1, <4>3, <4>4, Zenon
    <3> QED
      BY <2>2, <3>1, <3>2, <3>3, Zenon DEF Knows, Saving, Reading
  <2>5. Holds(r)
    <3>1. r # Idle
      BY <2>2 DEF Idle
    <3> QED
      BY <1>1, <2>2, <3>1, Zenon DEF Holds, Same, Saving
  <2> QED
    BY <1>1, <1>3, <2>1, <2>2, <2>3, <2>4, <2>5, AwaitTurn, Zenon
<1>5. CASE q.reply.kind = "readonly"
  BY <1>1, <1>3, <1>5, DemoteTurn, RecOfCall, OwnsOfCall DEF RevalidateReply
<1>6. CASE q.reply.kind = "changed"
  BY <1>1, <1>3, <1>6, FailTurn, Zenon DEF RevalidateReply
<1>7. CASE q.reply.kind = "thrown"
  <2>1. Put(c, Idle) /\ UNCHANGED <<sess, handle>> /\ Throws(calls[c])
    BY <1>1, <1>7 DEF RevalidateReply, Throws
  <2>2. FilesGo
    BY <1>3, FilesSame DEF SessionInv
  <2>3. CallGood(Idle)' /\ ~Holds(Idle)
    BY DEF CallGood, Holds
  <2> QED
    BY <1>3, <2>1, <2>2, <2>3, PutTurn
<1> QED
  BY <1>4, <1>5, <1>6, <1>7 DEF RevalidateReply

LEMMA CheckReplyKeeps ==
  ASSUME CallsOK, SessionInv, NEW c \in Calls, CheckReply(c)
  PROVE  SessionInv' /\ BusyStays
<1>1. /\ calls[c].at = "check" /\ OnSession(calls[c]) /\ ~Holds(calls[c])
  <2>1. calls[c].at = "check" /\ calls[c] # Idle
    BY DEF CheckReply, Answered, Idle
  <2> QED
    BY <2>1, CallHere DEF OnSession, CallTyped, Holds, Saving, Reading
<1>2. UNCHANGED <<disk, texts, live>>
  BY DEF CheckReply, Native
<1>3. CASE calls[c].reply.kind = "ok" /\ Resolves(calls[c].w, calls[c].h)
  BY <1>1, <1>2, <1>3, BeginRereadTurn, RecOfCall DEF CheckReply
<1>4. CASE calls[c].reply.kind = "readonly"
  BY <1>1, <1>2, <1>4, DemoteTurn, RecOfCall, OwnsOfCall DEF CheckReply
<1>5. CASE /\ ~(calls[c].reply.kind = "ok" /\ Resolves(calls[c].w, calls[c].h))
           /\ ~(calls[c].reply.kind = "readonly")
  BY <1>1, <1>2, <1>5, IdleTurn DEF CheckReply
<1> QED
  BY <1>3, <1>4, <1>5

LEMMA DemoteReplyKeeps ==
  ASSUME CallsOK, SessionInv, NEW c \in Calls, DemoteReply(c)
  PROVE  SessionInv' /\ BusyStays
<1> PICK q, w, s : q = calls[c] /\ w = q.w /\ s = q.s
  OBVIOUS
<1> PICK S : S = sess[w][s]
  OBVIOUS
<1>1. q.at = "demote" /\ OnSession(q)
  <2>1. calls[c].at = "demote" /\ calls[c] # Idle
    BY DEF DemoteReply, Answered, Idle
  <2> QED
    BY <2>1, CallHere DEF OnSession, CallTyped
<1>2. /\ Formed(q) /\ CallTyped(q, texts) /\ Knows(q, S, disk, texts) /\ S \in Session
  BY <1>1, SessionOfCall
<1>3. UNCHANGED <<disk, texts, live>>
  BY DEF DemoteReply, Native
<1>4. CASE ~q.reply.final /\ q.n < Cardinality(S.hs)
  <2> PICK m : m = q.n + 1
    OBVIOUS
  <2> PICK r : r = [q EXCEPT !.n = m, !.reply = Waiting]
    OBVIOUS
  <2>1. Put(c, r) /\ UNCHANGED <<sess, handle>>
    BY <1>4, Zenon DEF DemoteReply
  <2>2. Same(q, r) /\ r.at = "demote" /\ r.reply = Waiting /\ r.tok = q.tok
    BY <1>1, <1>2, Zenon DEF Formed, Fields, Same
  <2>3. CallTyped(r, texts)
    BY <1>1, <1>2, <2>2, Zenon DEF CallTyped, Same, Steps, Saving
  <2>4. Knows(r, S, disk, texts)
    BY <1>2, <2>2 DEF Knows, Saving, Reading
  <2>5. Holds(r) <=> Holds(q)
    BY <1>1, <2>2, OwnedGoesOn, OwnsOfCall, RecOfCall, Zenon
  <2> QED
    BY <1>1, <1>3, <2>1, <2>2, <2>3, <2>4, <2>5, AwaitTurn
<1>5. CASE ~(~q.reply.final /\ q.n < Cardinality(S.hs))
  <2> PICK T : T = Demoted(S)
    BY Zenon
  <2>1. AfterDemote(c, q, T)
    BY <1>5, Zenon DEF DemoteReply
  <2>2. Like(S, T) /\ T.hs = S.hs /\ T.gone = S.gone
    <3>1. 0 \in 0..MaxGrants
      BY SessionConstants
    <3> QED
      BY <1>2, <3>1, DemotedLike
  <2> QED
    BY <1>1, <1>3, <2>1, <2>2, AfterDemoteTurn, RecOfCall, OwnsOfCall, Zenon
<1> QED
  BY <1>4, <1>5

LEMMA RetainReplyKeeps ==
  ASSUME CallsOK, SessionInv, NEW c \in Calls, RetainReply(c)
  PROVE  SessionInv' /\ BusyStays
<1> PICK q, w, s : q = calls[c] /\ w = q.w /\ s = q.s
  OBVIOUS
<1> PICK S : S = sess[w][s]
  OBVIOUS
<1>1. q.at = "retain" /\ OnSession(q) /\ ~Holds(q)
  <2>1. calls[c].at = "retain" /\ calls[c] # Idle
    BY DEF RetainReply, Answered, Idle
  <2> QED
    BY <2>1, CallHere, Zenon DEF OnSession, CallTyped, Holds, Saving, Reading
<1>2. /\ w \in Windows /\ s \in DOMAIN sess[w] /\ q.consumer \in Consumers \cup {NoConsumer}
      /\ Knows(q, S, disk, texts) /\ S \in Session
  BY <1>1, SessionOfCall, Zenon DEF CallTyped
<1>3. UNCHANGED <<disk, texts, live>> /\ Put(c, Idle)
  BY Zenon DEF RetainReply, Native
<1>4. CASE q.reply.kind = "ok"
  <2> PICK u \in Consumers \cup {NoConsumer} : u = q.consumer
    BY <1>2
  <2>1. \E U : /\ Like(sess[w][s], U) /\ U.hs = sess[w][s].hs /\ U.gone = sess[w][s].gone
               /\ CreateHandle(w, s, U, u)
    <3> PICK p \in 0..MaxGrants : p = q.proof
      BY <1>1, <1>2 DEF Knows
    <3> PICK U : U = [S EXCEPT !.proof = p]
      BY Zenon
    <3>1. CreateHandle(w, s, U, u)
      BY <1>4 DEF RetainReply
    <3>2. /\ Like(sess[w][s], U) /\ U.hs = sess[w][s].hs /\ U.gone = sess[w][s].gone
      <4>1. S \in Session /\ S = sess[w][s]
        BY <1>2, Zenon
      <4>2. Like(S, U) /\ U.hs = S.hs /\ U.gone = S.gone
        BY <4>1, ProofGiven
      <4> QED
        BY <4>1, <4>2, Zenon
    <3> QED
      BY <3>1, <3>2, Zenon
  <2>2. PICK T : /\ Becomes(w, s, T) /\ Like(sess[w][s], T) /\ T.gone = sess[w][s].gone
                 /\ T.hs \subseteq DOMAIN handle'[w] /\ HandlesGo
    BY <1>2, <2>1, CreateHandleDoes, Zenon
  <2>3. GoesOn(w, s, T, Idle) /\ ~Holds(Idle)
    BY DEF GoesOn, Holds
  <2> QED
    BY <1>1, <1>3, <2>2, <2>3, LikeTurn
<1>5. CASE q.reply.kind # "ok"
  BY <1>1, <1>3, <1>5, IdleTurn DEF RetainReply
<1> QED
  BY <1>4, <1>5

-----------------------------------------------------------------------------
\* How calls begin

LEMMA IdleHolds ==
  ~Holds(Idle) /\ ~OnSession(Idle)
BY DEF Holds, OnSession

LEMMA LiveHere ==
  ASSUME SessionInv, NEW w \in Windows, NEW k \in Keys, live[w][k] # 0
  PROVE  /\ live[w][k] \in DOMAIN sess[w] /\ sess[w][live[w][k]] \in Session
         /\ ~sess[w][live[w][k]].gone /\ sess[w][live[w][k]].key = k
BY SessionHere DEF SessionInv, LiveOK

LEMMA HandleHere ==
  ASSUME SessionInv, NEW w \in Windows, NEW h, Resolves(w, h)
  PROVE  /\ h \in DOMAIN handle[w] /\ SessionOf(w, h) \in DOMAIN sess[w]
         /\ sess[w][SessionOf(w, h)] \in Session
         /\ SessionGood(sess[w][SessionOf(w, h)], disk, texts)
         /\ handle[w][h].key \in Keys /\ live[w][handle[w][h].key] = SessionOf(w, h)
<1>1. h \in DOMAIN handle[w] /\ live[w][handle[w][h].key] = SessionOf(w, h)
  BY DEF Resolves, SessionOf
<1>2. SessionOf(w, h) \in DOMAIN sess[w]
  BY <1>1 DEF SessionOf, SessionInv, HandlesOK
<1>3. handle[w][h].key \in Keys
  <2>1. handle[w] \in Seq(Handle)
    BY DEF SessionInv, HandlesOK
  <2>2. handle[w][h] \in Handle
    BY <1>1, <2>1
  <2> QED
    BY <2>2 DEF Handle
<1> QED
  BY <1>1, <1>2, <1>3, SessionHere DEF SessionInv, SessionsOK

LEMMA RecDecision ==
  ASSUME NEW rec, Rec(rec), NEW d
  PROVE  LET R == [rec EXCEPT !.decision = d]
         IN  /\ Rec(R) /\ R.op = rec.op /\ R.at = rec.at /\ R.w = rec.w /\ R.s = rec.s
             /\ R.tok = rec.tok /\ R.h = rec.h
<1> PICK R : R = [rec EXCEPT !.decision = d]
  OBVIOUS
<1>1. /\ Formed(R) /\ R.op = rec.op /\ R.at = rec.at /\ R.w = rec.w /\ R.s = rec.s
      /\ R.tok = rec.tok /\ R.h = rec.h /\ R.key = rec.key /\ R.consumer = rec.consumer
  BY DEF Rec, Formed, Fields
<1> QED
  BY <1>1 DEF Rec

LEMMA OpenSharedKeeps ==
  ASSUME CallsOK, SessionInv, NEW c \in Calls, NEW w \in Windows, NEW k \in Keys,
         NEW mode, NEW u \in Consumers \cup {NoConsumer}, OpenShared(c, w, k, mode, u)
  PROVE  SessionInv' /\ BusyStays
<1> PICK s : s = live[w][k]
  OBVIOUS
<1>1. calls[c] = Idle /\ s # 0 /\ UNCHANGED <<disk, texts, live>>
  BY DEF OpenShared, Native
<1>2. s \in DOMAIN sess[w] /\ sess[w][s] \in Session /\ SessionGood(sess[w][s], disk, texts)
  BY <1>1, LiveHere DEF SessionInv, SessionsOK
<1>3. \E rec : /\ Rec(rec) /\ rec.op = "open" /\ rec.w = w /\ rec.s = s
               /\ Join(c, rec, sess[w][s]) \/ Demote(c, rec)
  <2> PICK new : new = NewCall("open", "retain", w, s, 0)
    OBVIOUS
  <2> PICK rec : rec = [new EXCEPT !.key = k, !.consumer = u]
    OBVIOUS
  <2>1. Rec(new) /\ new.op = "open" /\ new.w = w /\ new.s = s
    BY <1>2, RecOfNew
  <2>2. Rec(rec) /\ rec.op = "open" /\ rec.w = w /\ rec.s = s
    <3>1. /\ Formed(rec) /\ rec.op = new.op /\ rec.w = new.w /\ rec.s = new.s
          /\ rec.tok = new.tok /\ rec.key = k /\ rec.consumer = u
      BY <2>1, Zenon DEF Rec, Formed, Fields
    <3> QED
      BY <2>1, <3>1, Zenon DEF Rec
  <2>3. Join(c, rec, sess[w][s]) \/ Demote(c, rec)
    BY DEF OpenShared
  <2> QED
    BY <2>2, <2>3
<1>4. PICK rec : /\ Rec(rec) /\ rec.op = "open" /\ rec.w = w /\ rec.s = s
                 /\ Join(c, rec, sess[w][s]) \/ Demote(c, rec)
  BY <1>3
<1>5. Join(c, rec, sess[w][s]) \/ Demote(c, rec)
  BY <1>4
<1>6. Like(sess[w][s], sess[w][s])
  BY <1>2 DEF Like
<1>7. ~Holds(calls[c]) /\ Owns(c, rec)
  BY <1>1, <1>4, IdleHolds, Zenon DEF Owns
<1>8. CASE Join(c, rec, sess[w][s])
  BY <1>1, <1>4, <1>6, <1>7, <1>8, JoinTurn
<1>9. CASE Demote(c, rec)
  BY <1>1, <1>4, <1>7, <1>9, DemoteTurn
<1> QED
  BY <1>5, <1>8, <1>9

LEMMA TransitionKeeps ==
  ASSUME CallsOK, SessionInv, NEW c \in Calls, NEW w \in Windows, NEW k \in Keys,
         TransitionToReadOnly(c, w, k)
  PROVE  SessionInv' /\ BusyStays
<1> PICK s : s = live[w][k]
  OBVIOUS
<1> PICK rec : rec = NewCall("readonly", "demote", w, s, 0)
  OBVIOUS
<1>1. calls[c] = Idle /\ s # 0 /\ UNCHANGED <<disk, texts, live>> /\ Demote(c, rec)
  BY DEF TransitionToReadOnly, Native
<1>2. s \in DOMAIN sess[w]
  BY <1>1, LiveHere
<1>3. Rec(rec) /\ rec.op = "readonly"
  BY <1>2, RecOfNew
<1>4. Owns(c, rec)
  BY <1>1, <1>3, IdleHolds DEF Owns
<1> QED
  BY <1>1, <1>3, <1>4, DemoteTurn

LEMMA DiscardKeeps ==
  ASSUME CallsOK, SessionInv, NEW c \in Calls, NEW w \in Windows, NEW h, Discard(c, w, h)
  PROVE  SessionInv' /\ BusyStays
<1> PICK s : s = SessionOf(w, h)
  OBVIOUS
<1> PICK rec : rec = [NewCall("discard", "reread", w, s, 0) EXCEPT !.decision = "discard"]
  OBVIOUS
<1>1. /\ calls[c] = Idle /\ Resolves(w, h) /\ UNCHANGED <<disk, texts, live, handle>>
      /\ BeginReread(c, rec)
  BY DEF Discard, Native
<1>2. Rec(rec)
  BY <1>1, HandleHere, RecOfNew, RecDecision
<1> QED
  BY <1>1, <1>2, IdleHolds, BeginRereadTurn

\* A call that comes to a place where it is at work on no operation
LEMMA NewCallTurn ==
  ASSUME CallsOK, SessionInv, NEW c \in Calls, ~Holds(calls[c]), NEW r, Put(c, r),
         UNCHANGED <<disk, texts, sess, live, handle>>, Rec(r), r.reply = Waiting,
         \/ r.at = "check" /\ r.op = "reload"
         \/ r.at \in {"sweep", "release"}
  PROVE  SessionInv' /\ BusyStays
<1>1. FilesGo
  BY FilesSame DEF SessionInv
<1>2. ~Holds(r)
  BY DEF Holds, Saving, Reading
<1>3. CallTyped(r, texts)
  BY DEF CallTyped, Rec, Steps, Saving
<1>4. Knows(r, sess[r.w][r.s], disk, texts)
  BY DEF Knows, Rec, Saving, Reading
<1>5. CallGood(r)'
  BY <1>3, <1>4 DEF CallGood, Rec
<1> QED
  BY <1>1, <1>2, <1>5, PutTurn

LEMMA ReloadKeeps ==
  ASSUME CallsOK, SessionInv, NEW c \in Calls, NEW w \in Windows, NEW h, NEW d,
         Reload(c, w, h, d)
  PROVE  SessionInv' /\ BusyStays
<1> PICK s : s = SessionOf(w, h)
  OBVIOUS
<1> PICK rec : rec = [NewCall("reload", "check", w, s, h) EXCEPT !.decision = d]
  OBVIOUS
<1>1. /\ calls[c] = Idle /\ Resolves(w, h) /\ UNCHANGED <<disk, texts, sess, live, handle>>
      /\ Put(c, rec)
  BY DEF Reload, Native
<1>2. Rec(rec) /\ rec.op = "reload" /\ rec.at = "check"
  BY <1>1, HandleHere, RecOfNew, RecDecision
<1>3. rec.reply = Waiting
  BY DEF NewCall
<1> QED
  BY <1>1, <1>2, <1>3, IdleHolds, NewCallTurn

LEMMA CloseCleanKeeps ==
  ASSUME CallsOK, SessionInv, NEW c \in Calls, NEW w \in Windows, NEW k \in Keys,
         CloseClean(c, w, k)
  PROVE  SessionInv' /\ BusyStays
<1> PICK s, hs : s = live[w][k] /\ hs = sess[w][s].hs
  OBVIOUS
<1> PICK new : new = NewCall("clean", "sweep", w, s, 0)
  OBVIOUS
<1> PICK rec : rec = [new EXCEPT !.todo = hs]
  OBVIOUS
<1>1. /\ calls[c] = Idle /\ s # 0 /\ UNCHANGED <<disk, texts, sess, live, handle>>
      /\ Put(c, rec)
  BY Zenon DEF CloseClean, Native
<1>2. Rec(new) /\ new.op = "clean" /\ new.at = "sweep"
  BY <1>1, LiveHere, RecOfNew
<1>3. new.reply = Waiting
  BY DEF NewCall
<1>4. /\ Formed(rec) /\ Same(new, rec) /\ rec.at = "sweep" /\ rec.reply = Waiting
      /\ rec.tok = new.tok
  BY <1>2, <1>3, Zenon DEF Rec, Formed, Fields, Same
<1>5. Rec(rec)
  BY <1>2, <1>4, Zenon DEF Rec, Same
<1> QED
  BY <1>1, <1>4, <1>5, IdleHolds, NewCallTurn

LEMMA BeginSaveKeeps ==
  ASSUME CallsOK, SessionInv, NEW c \in Calls, NEW w \in Windows, NEW h,
         NEW op \in {"save", "close"},
         calls[c] = Idle, Resolves(w, h), BeginSave(c, op, w, h)
  PROVE  SessionInv' /\ BusyStays
<1> PICK s : s = SessionOf(w, h)
  OBVIOUS
<1> PICK S : S = sess[w][s]
  OBVIOUS
<1>1. /\ s \in DOMAIN sess[w] /\ S \in Session /\ S.tok \in Nat /\ S.draft \in Nat
      /\ SessionGood(S, disk, texts)
  BY HandleHere, SessionConstants DEF Session
<1>2. S.base # NoBase
  BY DEF BeginSave, CanSave
<1> PICK T : T = Begin(S, "save")
  OBVIOUS
<1>3. /\ Course(S, T, disk, texts) /\ T.op = "save" /\ T.tok = S.tok + 1
      /\ T.hs = S.hs /\ T.gone = S.gone /\ T.draft = S.draft /\ T.base = S.base
  BY <1>1, BeginDoes
<1> PICK t, x, y, z, d : /\ t = T.tok /\ x = T.draft /\ y = T.base /\ z = T.proof
                         /\ d = IF op = "close" THEN "save" ELSE "none"
  OBVIOUS
<1> PICK g : g = IF op = "close" THEN h ELSE 0
  OBVIOUS
<1> PICK new : new = NewCall(op, "renew", w, s, g)
  OBVIOUS
<1> PICK r : r = [new EXCEPT !.tok = t, !.saved = x, !.expected = y, !.proof = z,
                             !.decision = d]
  OBVIOUS
<1>4. /\ SetSession(w, s, T) /\ Put(c, r) /\ UNCHANGED <<disk, texts, live, handle>>
  BY DEF BeginSave, Native
<1>5. Rec(new) /\ new.op = op /\ new.at = "renew" /\ new.w = w /\ new.s = s
  <2>1. op # "orphan" /\ handle[w][h].key \in Keys
    BY HandleHere
  <2> QED
    BY <1>1, <2>1, RecOfNew
<1>6. new.reply = Waiting
  BY Zenon DEF NewCall
<1>7. /\ r.op = op /\ r.at = "renew" /\ r.w = w /\ r.s = s /\ r.reply = Waiting
      /\ r.tok = t /\ r.saved = x /\ r.key = new.key /\ r.consumer = new.consumer
  BY <1>5, <1>6, Zenon DEF Rec, Formed, Fields
<1>8. x \in 1..texts
  BY <1>1, <1>2, <1>3, SessionConstants DEF SessionGood, SessionInv, FilesOK
<1>9. CallTyped(r, texts)
  BY <1>5, <1>7, <1>8 DEF CallTyped, Rec, Steps, Saving
<1>10. t \in Nat /\ t > S.tok
  BY <1>1, <1>3
<1>11. Knows(r, T, disk, texts)
  BY <1>2, <1>3, <1>7, <1>10 DEF Knows, Saving, Reading
<1>12. Holds(r)
  <2>1. r # Idle
    BY <1>7, Zenon DEF Idle
  <2> QED
    BY <1>7, <2>1 DEF Holds, Saving
<1>13. GoesOn(w, s, T, r) /\ Answers(c, w, s, T, r)
  BY <1>7, <1>9, <1>10, <1>11, <1>12, IdleHolds, Zenon DEF GoesOn, Answers
<1>14. Becomes(w, s, T)
  BY <1>1, <1>4 DEF Becomes
<1> QED
  BY <1>3, <1>4, <1>13, <1>14, QuietTurn

-----------------------------------------------------------------------------
\* Releases

\* Handles hs of window w are closed.
LEMMA ShutHandles ==
  ASSUME SessionInv, NEW w \in Windows, NEW hs, NEW p,
         p = [h \in DOMAIN handle[w] |-> IF h \in hs THEN [handle[w][h] EXCEPT !.open = FALSE]
                                        ELSE handle[w][h]],
         handle' = [handle EXCEPT ![w] = p],
         \A v \in Windows : DOMAIN sess'[v] = DOMAIN sess[v]
  PROVE  HandlesGo /\ DOMAIN handle'[w] = DOMAIN handle[w]
<1> PICK q : q = handle[w]
  OBVIOUS
<1>1. q \in Seq(Handle) /\ DOMAIN q = 1..Len(q) /\ Len(q) \in Nat
  BY DEF SessionInv, HandlesOK
<1>2. /\ p \in Seq(Handle) /\ Len(p) = Len(q) /\ DOMAIN p = DOMAIN q
      /\ \A h \in DOMAIN q : p[h].s = q[h].s
  <2>1. ASSUME NEW h \in DOMAIN q PROVE p[h] \in Handle /\ p[h].s = q[h].s
    <3>1. q[h] \in Handle
      BY <1>1
    <3> QED
      BY <3>1 DEF Handle
  <2>2. p \in [1..Len(q) -> Handle]
    BY <1>1, <2>1
  <2>3. p \in Seq(Handle)
    BY <1>1, <2>2, SeqDef
  <2> QED
    BY <1>1, <2>1, <2>2, <2>3
<1>3. /\ handle'[w] = p /\ \A v \in Windows : v # w => handle'[v] = handle[v]
      /\ handle' \in [Windows -> Seq(Handle)]
  BY <1>2 DEF SessionInv, HandlesOK
<1>4. HandlesGo
  <2>1. ASSUME NEW v \in Windows
        PROVE  /\ Len(handle'[v]) <= MaxHandles
               /\ DOMAIN handle[v] \subseteq DOMAIN handle'[v]
               /\ \A h \in DOMAIN handle'[v] : handle'[v][h].s \in DOMAIN sess'[v]
    <3>1. /\ Len(handle[v]) <= MaxHandles
          /\ \A h \in DOMAIN handle[v] : handle[v][h].s \in DOMAIN sess[v]
      BY DEF SessionInv, HandlesOK
    <3>2. CASE v = w
      BY <1>2, <1>3, <3>1, <3>2
    <3>3. CASE v # w
      BY <1>3, <3>1, <3>3, Zenon
    <3> QED
      BY <3>2, <3>3
  <2> QED
    BY <1>3, <2>1 DEF HandlesGo
<1> QED
  BY <1>2, <1>3, <1>4

LEMMA DropsDo ==
  ASSUME SessionInv, NEW w \in Windows, NEW s \in DOMAIN sess[w], NEW hs,
         DropHandles(w, s, hs)
  PROVE  \E T : /\ Becomes(w, s, T) /\ Like(sess[w][s], T)
                /\ T.hs \subseteq DOMAIN handle'[w] /\ HandlesGo /\ LiveGo
                /\ T.gone => live'[w][T.key] # s
<1> PICK S : S = sess[w][s]
  OBVIOUS
<1>1. S \in Session /\ S.hs \subseteq DOMAIN handle[w] /\ s # 0 /\ s \in Nat
  <2>1. sess[w] \in Seq(Session)
    BY DEF SessionInv, SessionsOK
  <2> QED
    BY <2>1 DEF SessionInv, SessionsOK
<1> PICK rest : rest = S.hs \ hs
  BY Zenon
<1> PICK T : T = [S EXCEPT !.hs = rest, !.gone = S.gone \/ rest = {}]
  BY Zenon
<1>2. /\ T \in Session /\ Like(S, T) /\ T.hs = rest /\ T.key = S.key
      /\ T.gone <=> S.gone \/ rest = {}
  <2> PICK y \in BOOLEAN : y = (S.gone \/ rest = {})
    OBVIOUS
  <2>1. T = [S EXCEPT !.hs = rest, !.gone = y]
    OBVIOUS
  <2>2. rest \in SUBSET (1..MaxHandles)
    BY <1>1 DEF Session
  <2>3. S.gone => y
    OBVIOUS
  <2>4. /\ T \in Session /\ T.hs = rest /\ T.key = S.key /\ T.gone = y
        /\ T.op = S.op /\ T.tok = S.tok /\ T.base = S.base
        /\ T.draft = S.draft /\ T.dirty = S.dirty /\ T.late = S.late
    BY <1>1, <2>1, <2>2, Zenon DEF Session
  <2> QED
    BY <2>3, <2>4 DEF Like
<1>3. /\ SetSession(w, s, T)
      /\ live' = IF rest = {} THEN [live EXCEPT ![w][S.key] = 0] ELSE live
  <2> PICK U : U = [S EXCEPT !.hs = rest]
    OBVIOUS
  <2>1. U = [S EXCEPT !.hs = S.hs \ hs]
    OBVIOUS
  <2>2. /\ SetSession(w, s, [U EXCEPT !.gone = U.gone \/ U.hs = {}])
        /\ live' = IF U.hs = {} THEN [live EXCEPT ![w][U.key] = 0] ELSE live
    BY <2>1 DEF DropHandles
  <2>3. U.hs = rest /\ U.gone = S.gone /\ U.key = S.key
    BY <1>1 DEF Session
  <2>4. [U EXCEPT !.gone = S.gone \/ rest = {}] = T
    BY <1>1 DEF Session
  <2> QED
    BY <2>2, <2>3, <2>4
<1>4. Becomes(w, s, T)
  BY <1>3 DEF Becomes
<1>5. /\ LiveGo
      /\ T.gone => live'[w][S.key] # s
  <2>1. live \in [Windows -> [Keys -> Nat]] /\ S.key \in Keys
    BY <1>1 DEF SessionInv, LiveOK, Session
  <2>2. S.gone => live[w][S.key] # s
    BY <1>1, <2>1 DEF SessionInv, LiveOK
  <2>3. CASE rest = {}
    <3>1. live' = [live EXCEPT ![w][S.key] = 0]
      BY <1>3, <2>3, Zenon
    <3> QED
      BY <1>1, <2>1, <3>1 DEF LiveGo
  <2>4. CASE rest # {}
    <3>1. live' = live
      BY <1>3, <2>4
    <3> QED
      BY <1>2, <2>1, <2>2, <2>4, <3>1, Zenon DEF LiveGo
  <2> QED
    BY <2>3, <2>4
<1> PICK p : p = [h \in DOMAIN handle[w] |-> IF h \in hs
                                             THEN [handle[w][h] EXCEPT !.open = FALSE]
                                             ELSE handle[w][h]]
  OBVIOUS
<1>6. handle' = [handle EXCEPT ![w] = p]
  BY DEF DropHandles
<1>7. \A v \in Windows : DOMAIN sess'[v] = DOMAIN sess[v]
  BY <1>2, <1>4, BecomesSets, Zenon DEF SessionInv
<1>8. HandlesGo /\ DOMAIN handle'[w] = DOMAIN handle[w]
  BY <1>6, <1>7, ShutHandles
<1>9. T.hs \subseteq DOMAIN handle'[w]
  BY <1>1, <1>2, <1>8
<1> QED
  BY <1>2, <1>4, <1>5, <1>8, <1>9, Zenon

\* The rest of a sweep
LEMMA RestDoes ==
  ASSUME NEW rec, Rec(rec), NEW T, Like(sess[rec.w][rec.s], T)
  PROVE  GoesOn(rec.w, rec.s, T, Rest(rec)) /\ ~Holds(Rest(rec))
<1> PICK r : r = Rest(rec)
  OBVIOUS
<1>1. CASE rec.todo = {}
  BY <1>1 DEF Rest, GoesOn, Holds
<1>2. CASE rec.todo # {}
  <2>1. r = [rec EXCEPT !.at = "sweep"]
    BY <1>2 DEF Rest
  <2>2. Same(rec, r) /\ r.at = "sweep" /\ r.tok = rec.tok
    BY <2>1 DEF Rec, Formed, Fields, Same
  <2>3. CallTyped(r, texts)
    BY <2>2 DEF CallTyped, Same, Rec, Steps, Saving
  <2>4. Knows(r, T, disk, texts)
    BY <2>2 DEF Knows, Rec, Saving, Reading, Like
  <2> QED
    BY <2>2, <2>3, <2>4 DEF GoesOn, Same, Holds, Saving, Reading
<1> QED
  BY <1>1, <1>2

LEMMA DropTurn ==
  ASSUME CallsOK, SessionInv, NEW c \in Calls, ~Holds(calls[c]), NEW rec, Rec(rec), NEW hs,
         DropHandles(rec.w, rec.s, hs), Put(c, Rest(rec)), UNCHANGED <<disk, texts>>
  PROVE  SessionInv' /\ BusyStays
<1> PICK w, s : w = rec.w /\ s = rec.s
  OBVIOUS
<1> PICK r : r = Rest(rec)
  OBVIOUS
<1>1. w \in Windows /\ s \in DOMAIN sess[w]
  BY DEF Rec
<1>2. PICK T : /\ Becomes(w, s, T) /\ Like(sess[w][s], T)
               /\ T.hs \subseteq DOMAIN handle'[w] /\ HandlesGo /\ LiveGo
               /\ T.gone => live'[w][T.key] # s
  BY <1>1, DropsDo
<1>3. Course(sess[w][s], T, disk, texts)
  BY <1>1, <1>2, LikeCourse, SessionHere DEF SessionInv, SessionsOK
<1>4. GoesOn(w, s, T, r) /\ ~Holds(r)
  BY <1>2, RestDoes, Zenon
<1>5. Answers(c, w, s, T, r)
  BY <1>2, <1>4 DEF Answers, Like
<1> QED
  BY <1>2, <1>3, <1>4, <1>5, Turn

LEMMA ReleaseTurn ==
  ASSUME CallsOK, SessionInv, NEW c \in Calls, ~Holds(calls[c]), NEW rec, Rec(rec),
         Release(c, rec), UNCHANGED <<disk, texts>>
  PROVE  SessionInv' /\ BusyStays
<1> PICK p : p = sess[rec.w][rec.s].proof
  OBVIOUS
<1>1. CASE ~Resolves(rec.w, rec.h)
  BY <1>1, IdleTurn DEF Release
<1>2. CASE Resolves(rec.w, rec.h) /\ p = 0
  BY <1>2, DropTurn, Zenon DEF Release
<1>3. CASE Resolves(rec.w, rec.h) /\ p # 0
  <2> PICK r : r = [rec EXCEPT !.at = "release", !.reply = Waiting, !.proof = p]
    OBVIOUS
  <2>1. Put(c, r) /\ UNCHANGED <<sess, live, handle>>
    BY <1>3 DEF Release
  <2>2. /\ Formed(r) /\ Same(rec, r) /\ r.at = "release" /\ r.reply = Waiting
        /\ r.tok = rec.tok
    BY DEF Rec, Formed, Fields, Same
  <2>3. Rec(r)
    BY <2>2, Zenon DEF Rec, Same
  <2> QED
    BY <2>1, <2>2, <2>3, NewCallTurn
<1> QED
  BY <1>1, <1>2, <1>3

LEMMA LeavingCall ==
  ASSUME CallsOK, SessionInv, NEW c \in Calls, calls[c].at \in {"release", "sweep", "leave"}
  PROVE  OnSession(calls[c]) /\ ~Holds(calls[c]) /\ Rec(calls[c])
<1>1. calls[c] # Idle
  BY DEF Idle
<1>2. OnSession(calls[c]) /\ ~Holds(calls[c])
  BY <1>1, CallHere DEF OnSession, CallTyped, Holds, Saving, Reading
<1> QED
  BY <1>2, RecOfCall

LEMMA ReleaseReplyKeeps ==
  ASSUME CallsOK, SessionInv, NEW c \in Calls, ReleaseReply(c)
  PROVE  SessionInv' /\ BusyStays
<1>1. calls[c].at = "release" /\ UNCHANGED <<disk, texts>>
  BY DEF ReleaseReply, Answered, Native
<1>2. ~Holds(calls[c]) /\ Rec(calls[c])
  BY <1>1, LeavingCall
<1>3. CASE calls[c].reply.kind = "no"
  BY <1>1, <1>2, <1>3, IdleTurn DEF ReleaseReply
<1>4. CASE calls[c].reply.kind # "no"
  BY <1>1, <1>2, <1>4, DropTurn DEF ReleaseReply
<1> QED
  BY <1>3, <1>4

LEMMA LeaveKeeps ==
  ASSUME CallsOK, SessionInv, NEW c \in Calls, Leave(c)
  PROVE  SessionInv' /\ BusyStays
BY LeavingCall, ReleaseTurn DEF Leave, Native

LEMMA RecSweep ==
  ASSUME NEW rec, Rec(rec), NEW h, NEW rest
  PROVE  Rec([rec EXCEPT !.h = h, !.todo = rest])
<1> PICK r : r = [rec EXCEPT !.h = h, !.todo = rest]
  OBVIOUS
<1>1. Formed(r) /\ Same(rec, r) /\ r.tok = rec.tok
  BY DEF Rec, Formed, Fields, Same
<1> QED
  BY <1>1 DEF Rec, Same

LEMMA SweepKeeps ==
  ASSUME CallsOK, SessionInv, NEW c \in Calls, Sweep(c)
  PROVE  SessionInv' /\ BusyStays
<1> PICK q : q = calls[c]
  OBVIOUS
<1>1. q.at = "sweep" /\ UNCHANGED <<disk, texts>>
  BY DEF Sweep, Native
<1>0. PICK h \in q.todo : Release(c, [q EXCEPT !.h = h, !.todo = q.todo \ {h}])
  BY Zenon DEF Sweep
<1> PICK rest : rest = q.todo \ {h}
  OBVIOUS
<1> PICK rec : rec = [q EXCEPT !.h = h, !.todo = rest]
  OBVIOUS
<1>2. ~Holds(q) /\ Rec(q)
  BY <1>1, LeavingCall
<1>3. Rec(rec)
  BY <1>2, RecSweep, Zenon
<1> QED
  BY <1>0, <1>1, <1>2, <1>3, ReleaseTurn

LEMMA CloseKeeps ==
  ASSUME CallsOK, SessionInv, NEW c \in Calls, NEW w \in Windows, NEW h, NEW d,
         Close(c, w, h, d)
  PROVE  SessionInv' /\ BusyStays
<1> PICK s : s = SessionOf(w, h)
  OBVIOUS
<1> PICK rec : rec = [NewCall("close", "release", w, s, h) EXCEPT !.decision = d]
  OBVIOUS
<1>1. /\ calls[c] = Idle /\ Resolves(w, h)
      /\ \/ Release(c, rec) /\ UNCHANGED Native
         \/ BeginSave(c, "close", w, h)
         \/ BeginReread(c, rec) /\ UNCHANGED <<Native, live, handle>>
  BY DEF Close
<1>2. Rec(rec)
  BY <1>1, HandleHere, RecOfNew, RecDecision, ZenonT(30)
<1>3. ~Holds(calls[c])
  BY <1>1, IdleHolds
<1>4. CASE Release(c, rec) /\ UNCHANGED Native
  BY <1>2, <1>3, <1>4, ReleaseTurn DEF Native
<1>5. CASE BeginSave(c, "close", w, h)
  BY <1>1, <1>5, BeginSaveKeeps
<1>6. CASE BeginReread(c, rec) /\ UNCHANGED <<Native, live, handle>>
  BY <1>2, <1>3, <1>6, BeginRereadTurn DEF Native
<1> QED
  BY <1>1, <1>4, <1>5, <1>6

-----------------------------------------------------------------------------
\* A session begins

\* A call record that asks for a session.
Asks(rec) ==
  /\ Formed(rec) /\ rec.op # "orphan" /\ rec.w \in Windows /\ rec.key \in Keys
  /\ rec.consumer \in Consumers \cup {NoConsumer}

Fresh(k, mode, proof, h) == Begin([NewSession(k, mode, proof) EXCEPT !.hs = {h}], "load")

LEMMA NewSessionDoes ==
  ASSUME FilesOK, NEW k \in Keys, NEW mode \in {"writable", "readonly"},
         NEW proof \in 0..MaxGrants, NEW h \in 1..MaxHandles
  PROVE  LET S == Fresh(k, mode, proof, h)
         IN  /\ S \in Session /\ SessionGood(S, disk, texts) /\ S.key = k /\ S.hs = {h}
             /\ S.tok = 1 /\ ~S.gone
<1> PICK O : O = NewSession(k, mode, proof)
  OBVIOUS
<1>1. /\ O \in Session /\ O.key = k /\ O.tok = 0 /\ O.gone = FALSE
      /\ O.base = NoBase /\ O.draft = 0
  BY SessionConstants DEF NewSession, Session
<1> PICK N : N = [O EXCEPT !.hs = {h}]
  OBVIOUS
<1>2. /\ N \in Session /\ N.key = k /\ N.hs = {h} /\ N.tok = 0 /\ N.gone = FALSE
      /\ N.base = NoBase /\ N.draft = 0
  BY <1>1 DEF Session
<1>3. disk \in Revision /\ texts \in Nat /\ NoBase \in Revision
  BY Revisions, SessionConstants DEF FilesOK
<1>4. Upto(NoBase, disk) /\ NoBase.text <= texts /\ 0 <= texts
  BY <1>3, NoBaseFirst, Revisions
<1>5. SessionGood(N, disk, texts)
  BY <1>2, <1>4 DEF SessionGood, Seen
<1> PICK S : S = Begin(N, "load")
  OBVIOUS
<1>6. /\ Course(N, S, disk, texts) /\ S.tok = N.tok + 1 /\ S.hs = N.hs /\ S.gone = N.gone
  BY <1>2, <1>5, BeginDoes, Zenon
<1>7. Fresh(k, mode, proof, h) = S
  BY DEF Fresh
<1>8. S.tok = 1 /\ S.hs = {h} /\ ~S.gone
  BY <1>2, <1>6
<1>9. S \in Session /\ SessionGood(S, disk, texts) /\ S.key = k
  BY <1>2, <1>6 DEF Course, Onward
<1> QED
  BY <1>7, <1>8, <1>9

LEMMA LoadingTurn ==
  ASSUME CallsOK, SessionInv, NEW c \in Calls, ~Holds(calls[c]), NEW rec, Asks(rec),
         NEW mode \in {"writable", "readonly"}, NEW proof \in 0..MaxGrants,
         StartLoading(c, rec, mode, proof), UNCHANGED <<disk, texts>>
  PROVE  SessionInv' /\ BusyStays
<1> PICK w, k : w = rec.w /\ k = rec.key
  OBVIOUS
<1> PICK Q, H : Q = sess[w] /\ H = handle[w]
  OBVIOUS
<1>1. /\ w \in Windows /\ k \in Keys
      /\ Q \in Seq(Session) /\ Len(Q) \in Nat /\ DOMAIN Q = 1..Len(Q)
      /\ H \in Seq(Handle) /\ Len(H) \in Nat /\ DOMAIN H = 1..Len(H)
  BY DEF Asks, SessionInv, SessionsOK, HandlesOK
<1> PICK s \in Nat, h \in Nat : s = Len(Q) + 1 /\ h = Len(H) + 1
  BY <1>1
<1>2. s <= MaxSessions /\ h <= MaxHandles /\ h \in 1..MaxHandles
  BY <1>1, SessionConstants DEF StartLoading
<1> PICK S : S = Fresh(k, mode, proof, h)
  OBVIOUS
<1> PICK x : x = [s |-> s, key |-> k, consumer |-> rec.consumer, open |-> TRUE]
  OBVIOUS
<1> PICK t : t = S.tok
  OBVIOUS
<1> PICK r : r = [rec EXCEPT !.at = "load", !.reply = Waiting, !.s = s, !.h = h, !.tok = t,
                             !.proof = proof]
  OBVIOUS
<1>3. /\ S \in Session /\ SessionGood(S, disk, texts) /\ S.key = k /\ S.hs = {h}
      /\ S.tok = 1 /\ ~S.gone
  BY <1>1, <1>2, NewSessionDoes DEF SessionInv
<1>4. /\ sess' = [sess EXCEPT ![w] = Append(Q, S)]
      /\ live' = [live EXCEPT ![w][k] = s]
      /\ handle' = [handle EXCEPT ![w] = Append(H, x)]
      /\ Put(c, r)
  BY DEF StartLoading, Fresh
<1>5. /\ r.op = rec.op /\ r.at = "load" /\ r.w = w /\ r.s = s /\ r.reply = Waiting
      /\ r.tok = 1 /\ r.key = k /\ r.consumer = rec.consumer
  BY <1>3 DEF Asks, Formed, Fields
<1>6. x \in Handle /\ x.s = s
  BY <1>1 DEF Handle, Asks
<1> PICK q, p : q = Append(Q, S) /\ p = Append(H, x)
  BY Zenon
<1>7. /\ q \in Seq(Session) /\ Len(q) = s /\ DOMAIN q = 1..s
      /\ q[s] = S /\ \A i \in 1..Len(Q) : q[i] = Q[i]
  BY <1>1, <1>3
<1>8. /\ p \in Seq(Handle) /\ Len(p) = h /\ DOMAIN p = 1..h
      /\ p[h] = x /\ \A i \in 1..Len(H) : p[i] = H[i]
  BY <1>1, <1>6
<1>9. /\ sess' \in [Windows -> Seq(Session)] /\ sess'[w] = q
      /\ \A v \in Windows : v # w => sess'[v] = sess[v]
  BY <1>1, <1>4, <1>7, Zenon DEF SessionInv, SessionsOK
<1>10. /\ handle' \in [Windows -> Seq(Handle)] /\ handle'[w] = p
      /\ \A v \in Windows : v # w => handle'[v] = handle[v]
  BY <1>1, <1>4, <1>8, Zenon DEF SessionInv, HandlesOK
<1>11. /\ live' \in [Windows -> [Keys -> Nat]] /\ live'[w][k] = s
       /\ \A v \in Windows, l \in Keys : v # w \/ l # k => live'[v][l] = live[v][l]
  BY <1>1, <1>4, Zenon DEF SessionInv, LiveOK
<1>12. /\ DOMAIN Q \subseteq DOMAIN q /\ s \in DOMAIN q /\ s \notin DOMAIN Q /\ s # 0
       /\ DOMAIN H \subseteq DOMAIN p /\ h \in DOMAIN p
  BY <1>1, <1>7, <1>8
<1>13. \A v \in Windows : \A i \in DOMAIN sess[v] :
          i \in DOMAIN sess'[v] /\ sess'[v][i] = sess[v][i]
  <2> TAKE v \in Windows
  <2> TAKE i \in DOMAIN sess[v]
  <2>1. CASE v = w
    BY <1>1, <1>7, <1>9, <1>12, <2>1, Zenon
  <2>2. CASE v # w
    BY <1>9, <2>2, Zenon
  <2> QED
    BY <2>1, <2>2
<1>14. SessionsGo
  BY <1>13, OnwardSame, SessionHere, Zenon DEF SessionsGo, SessionInv
<1>15. FilesGo /\ FilesOK'
  BY FilesSame, Zenon DEF SessionInv, FilesGo
<1>16. SessionsOK'
  <2>1. ASSUME NEW v \in Windows, NEW i \in DOMAIN sess'[v]
        PROVE  SessionGood(sess'[v][i], disk, texts) /\ sess'[v][i].hs \subseteq DOMAIN handle'[v]
    <3>1. CASE v = w /\ i = s
      <4>1. sess'[v][i] = S /\ handle'[v] = p
        BY <1>7, <1>9, <1>10, <3>1, Zenon
      <4> QED
        BY <1>3, <1>12, <4>1, Zenon
    <3>2. CASE v = w /\ i # s
      <4>1. i \in DOMAIN Q /\ sess'[v][i] = Q[i]
        BY <1>1, <1>7, <1>9, <2>1, <3>2
      <4>2. SessionGood(Q[i], disk, texts) /\ Q[i].hs \subseteq DOMAIN H
        BY <1>1, <4>1, Zenon DEF SessionInv, SessionsOK
      <4> QED
        BY <1>10, <1>12, <3>2, <4>1, <4>2, Zenon
    <3>3. CASE v # w
      BY <1>9, <1>10, <2>1, <3>3, Zenon DEF SessionInv, SessionsOK
    <3> QED
      BY <3>1, <3>2, <3>3, Zenon
  <2>2. \A v \in Windows : Len(sess'[v]) <= MaxSessions
    BY <1>2, <1>7, <1>9, Zenon DEF SessionInv, SessionsOK
  <2> QED
    BY <1>9, <2>1, <2>2, Zenon DEF SessionsOK
<1>17. HandlesOK'
  <2>1. ASSUME NEW v \in Windows, NEW i \in DOMAIN handle'[v]
        PROVE  handle'[v][i].s \in DOMAIN sess'[v]
    <3>1. CASE v = w /\ i = h
      BY <1>6, <1>8, <1>9, <1>10, <1>12, <3>1
    <3>2. CASE v = w /\ i # h
      <4>1. i \in DOMAIN H /\ handle'[v][i] = H[i]
        BY <1>1, <1>8, <1>10, <2>1, <3>2
      <4>2. H[i].s \in DOMAIN Q
        BY <1>1, <4>1, Zenon DEF SessionInv, HandlesOK
      <4> QED
        BY <1>9, <1>12, <3>2, <4>1, <4>2, Zenon
    <3>3. CASE v # w
      BY <1>9, <1>10, <2>1, <3>3, Zenon DEF SessionInv, HandlesOK
    <3> QED
      BY <3>1, <3>2, <3>3, Zenon
  <2>2. \A v \in Windows : Len(handle'[v]) <= MaxHandles
    BY <1>2, <1>8, <1>10, ZenonT(30) DEF SessionInv, HandlesOK
  <2> QED
    BY <1>10, <2>1, <2>2, Zenon DEF HandlesOK
<1>18. LiveOK'
  <2>1. ASSUME NEW v \in Windows, NEW l \in Keys, live'[v][l] # 0
        PROVE  /\ live'[v][l] \in DOMAIN sess'[v]
               /\ sess'[v][live'[v][l]].key = l /\ ~sess'[v][live'[v][l]].gone
    <3>1. CASE v = w /\ l = k
      BY <1>3, <1>7, <1>9, <1>11, <1>12, <3>1
    <3>2. CASE v # w \/ l # k
      <4>1. live'[v][l] = live[v][l] /\ live[v][l] # 0
        BY <1>11, <2>1, <3>2, Zenon
      <4>2. /\ live[v][l] \in DOMAIN sess[v]
            /\ sess[v][live[v][l]].key = l /\ ~sess[v][live[v][l]].gone
        BY <4>1, Zenon DEF SessionInv, LiveOK
      <4> QED
        BY <1>13, <4>1, <4>2, Zenon
    <3> QED
      BY <3>1, <3>2, Zenon
  <2> QED
    BY <1>11, <2>1, Zenon DEF LiveOK
<1>19. WorkOK'
  <2>1. CallTyped(r, texts)
    BY <1>5, Zenon DEF CallTyped, Asks, Steps, Saving
  <2>2. Knows(r, S, disk, texts)
    <3>1. r.tok \in Nat /\ r.tok <= S.tok /\ r.key = S.key /\ r.reply.kind # "ok"
      BY <1>3, <1>5 DEF Waiting
    <3> QED
      BY <1>5, <3>1, Zenon DEF Knows, Saving
  <2>3. r.s \in DOMAIN sess'[r.w] /\ sess'[r.w][r.s] = S
    BY <1>5, <1>7, <1>9, <1>12
  <2>4. CallGood(r)'
    BY <2>1, <2>2, <2>3, Zenon DEF CallGood
  <2> QED
    BY <1>14, <1>15, <1>16, <1>4, <2>4, WorkKeeps, Zenon
<1>20. TokensOK'
  <2>1. ASSUME NEW d \in Calls, Holds(calls[d]), calls[d].w = r.w, calls[d].s = r.s
        PROVE  FALSE
    BY <1>5, <1>12, <2>1, HolderKnown
  <2> QED
    BY <1>4, <2>1, TokensKeep
<1>21. BusyStays
  <2> SUFFICES ASSUME NEW v \in Windows, NEW l \in Keys, BusyOK(v, l), live'[v][l] # 0,
                      sess'[v][live'[v][l]].op # "none"
               PROVE  AtWork(calls', v, live'[v][l], sess'[v][live'[v][l]].tok)
    BY Zenon DEF BusyStays, BusyOK
  <2>1. CASE v = w /\ l = k
    <3>1. live'[v][l] = s /\ sess'[v][s].tok = 1
      BY <1>3, <1>7, <1>9, <1>11, <2>1
    <3>2. calls'[c] = r
      BY <1>4, Zenon DEF Put, CallsOK
    <3>3. Holds(r)
      <4>1. r # Idle
        BY <1>5, Zenon DEF Idle
      <4> QED
        BY <1>5, <4>1, Zenon DEF Holds, Reading, Asks
    <3>4. /\ Holds(calls'[c]) /\ calls'[c].w = v /\ calls'[c].s = live'[v][l]
          /\ calls'[c].tok = sess'[v][live'[v][l]].tok
      BY <1>5, <2>1, <3>1, <3>2, <3>3
    <3> QED
      BY <3>4, Zenon DEF AtWork
  <2>2. CASE v # w \/ l # k
    <3>1. live'[v][l] = live[v][l] /\ live[v][l] # 0
      BY <1>11, <2>2, Zenon
    <3> PICK y : y = live[v][l]
      BY Zenon
    <3>2. y \in DOMAIN sess[v] /\ sess'[v][y] = sess[v][y]
      BY <1>13, <3>1, LiveHere, Zenon
    <3> PICK u : u = sess[v][y].tok
      BY Zenon
    <3>3. AtWork(calls, v, y, u)
      BY <3>1, <3>2 DEF BusyOK
    <3>4. AtWork(calls', v, y, u)
      BY <1>4, <3>3, AtWorkStays, Zenon
    <3> QED
      BY <3>1, <3>2, <3>4, Zenon
  <2> QED
    BY <2>1, <2>2, Zenon
<1> QED
  BY <1>15, <1>16, <1>17, <1>18, <1>19, <1>20, <1>21 DEF SessionInv

LEMMA AcquireReplyKeeps ==
  ASSUME CallsOK, SessionInv, NEW c \in Calls, AcquireReply(c)
  PROVE  SessionInv' /\ BusyStays
<1> PICK q : q = calls[c]
  OBVIOUS
<1>1. q.at = "acquire" /\ q # Idle /\ UNCHANGED <<disk, texts>>
  BY DEF AcquireReply, Answered, Idle, Native
<1>2. Formed(q) /\ CallTyped(q, texts)
  BY <1>1, CallHere
<1>3. ~Holds(q) /\ Asks(q)
  BY <1>1, <1>2 DEF CallTyped, Holds, Saving, Reading, Asks
<1>4. CASE q.reply.kind = "ok"
  <2>1. q.reply.proof \in 0..MaxGrants
    BY <1>1, <1>2, <1>4 DEF CallTyped
  <2>2. StartLoading(c, q, "writable", q.reply.proof)
    BY <1>4 DEF AcquireReply
  <2> QED
    BY <1>1, <1>3, <2>1, <2>2, LoadingTurn
<1>5. CASE q.reply.kind # "ok"
  BY <1>1, <1>3, <1>5, IdleTurn DEF AcquireReply
<1> QED
  BY <1>4, <1>5

LEMMA UnloadReplyKeeps ==
  ASSUME CallsOK, SessionInv, NEW c \in Calls, UnloadReply(c)
  PROVE  SessionInv' /\ BusyStays
<1>1. ~Holds(calls[c])
  BY DEF UnloadReply, Answered, Holds, Saving, Reading
<1> QED
  BY <1>1, IdleTurn DEF UnloadReply, Native

LEMMA ForgetKeeps ==
  ASSUME CallsOK, SessionInv, NEW c \in Calls, Forget(c)
  PROVE  SessionInv' /\ BusyStays
<1>1. ~Holds(calls[c])
  BY DEF Forget, Holds
<1> QED
  BY <1>1, IdleTurn DEF Forget, Native

LEMMA LoadReplyKeeps ==
  ASSUME CallsOK, SessionInv, NEW c \in Calls, LoadReply(c)
  PROVE  SessionInv' /\ BusyStays
<1> PICK q, w, s : q = calls[c] /\ w = q.w /\ s = q.s
  OBVIOUS
<1> PICK S : S = sess[w][s]
  OBVIOUS
<1>1. q.at = "load" /\ OnSession(q)
  <2>1. calls[c].at = "load" /\ calls[c] # Idle
    BY DEF LoadReply, Answered, Idle
  <2> QED
    BY <2>1, CallHere, Zenon DEF OnSession, CallTyped
<1>2. /\ Formed(q) /\ CallTyped(q, texts) /\ Knows(q, S, disk, texts)
      /\ w \in Windows /\ s \in DOMAIN sess[w] /\ S \in Session /\ SessionGood(S, disk, texts)
  BY <1>1, SessionOfCall, Zenon
<1>3. UNCHANGED <<disk, texts>>
  BY Zenon DEF LoadReply, Native
<1>4. CASE ~Current(S, q.tok)
  <2>1. Put(c, Idle) /\ UNCHANGED <<sess, live, handle>>
    BY <1>4, Zenon DEF LoadReply
  <2>2. CallGood(Idle)' /\ ~Holds(Idle)
    BY DEF CallGood, Holds
  <2>3. NotFor(S, S, q.tok)
    BY <1>4, Zenon DEF NotFor, Current
  <2> QED
    BY <1>3, <2>1, <2>2, <2>3, PutTurn, FilesSame DEF SessionInv
<1>5. CASE Current(S, q.tok) /\ q.reply.kind = "ok"
  <2>1. /\ SetSession(w, s, Hydrate(sess[w][s], q.tok, q.saved, q.reply.snap, FALSE))
        /\ Put(c, Idle) /\ UNCHANGED <<live, handle>>
    BY <1>5, Zenon DEF LoadReply, Hydrate
  <2>2. Brings(q, sess[w][s], q.reply.snap, disk, texts)
    BY <1>1, <1>2, <1>5, Zenon DEF Knows, Reading
  <2> QED
    BY <1>1, <1>3, <2>1, <2>2, HydrateTurn
<1>6. CASE Current(S, q.tok) /\ q.reply.kind # "ok"
  <2> PICK r : r = IF q.proof = 0 THEN Idle ELSE [q EXCEPT !.at = "unload", !.reply = Waiting]
    OBVIOUS
  <2>1. /\ handle' = [handle EXCEPT ![w][q.h].open = FALSE]
        /\ live' = [live EXCEPT ![w][q.key] = 0] /\ Put(c, r) /\ UNCHANGED sess
    BY <1>6 DEF LoadReply, Await
  <2>2. q.key = S.key /\ S.key \in Keys /\ s # 0
    <3>1. sess[w] \in Seq(Session)
      BY <1>2, Zenon DEF SessionInv, SessionsOK
    <3>2. s # 0
      BY <1>2, <3>1
    <3>3. S.key \in Keys
      BY <1>2, Zenon DEF Session
    <3>4. q.key = S.key
      BY <1>1, <1>2 DEF Knows
    <3> QED
      BY <3>2, <3>4, <3>3, Zenon
  <2>3. LiveGo /\ live'[w][S.key] = 0
    BY <1>2, <2>1, <2>2, Zenon DEF SessionInv, LiveOK, LiveGo
  <2>4. HandlesGo /\ DOMAIN handle'[w] = DOMAIN handle[w]
    <3> PICK p : p = [h \in DOMAIN handle[w] |-> IF h \in {q.h}
                                                 THEN [handle[w][h] EXCEPT !.open = FALSE]
                                                 ELSE handle[w][h]]
      OBVIOUS
    <3>1. p = [handle[w] EXCEPT ![q.h].open = FALSE]
      BY Zenon
    <3>2. handle' = [handle EXCEPT ![w] = p]
      BY <2>1, <3>1, Zenon
    <3>3. \A v \in Windows : DOMAIN sess'[v] = DOMAIN sess[v]
      BY <2>1, Zenon
    <3> QED
      BY <1>2, <3>2, <3>3, ShutHandles, ZenonT(30)
  <2>5. Becomes(w, s, sess[w][s])
    BY <1>2, <2>1, SameBecomes, Zenon DEF SessionInv
  <2>6. Course(S, S, disk, texts)
    BY <1>2, CourseSame
  <2>7. GoesOn(w, s, S, r) /\ ~Holds(r)
    <3>1. CASE q.proof = 0
      BY <3>1, Zenon DEF GoesOn, Holds
    <3>2. CASE q.proof # 0
      <4>1. Same(q, r) /\ r.at = "unload" /\ r.reply = Waiting /\ r.tok = q.tok
        BY <1>2, <3>2, Zenon DEF Formed, Fields, Same
      <4>2. CallTyped(r, texts)
        BY <1>1, <1>2, <4>1, Zenon DEF CallTyped, Same, Steps, Saving, OnSession
      <4>3. Knows(r, S, disk, texts)
        BY <1>2, <4>1 DEF Knows, Saving, Reading
      <4> QED
        BY <4>1, <4>2, <4>3, Zenon DEF GoesOn, Same, Holds, Saving, Reading
    <3> QED
      BY <3>1, <3>2
  <2>8. Answers(c, w, s, S, r)
    BY <2>2, <2>3, <2>7, Zenon DEF Answers
  <2>9. S.hs \subseteq DOMAIN handle'[w]
    BY <1>2, <2>4, Zenon DEF SessionInv, SessionsOK
  <2>10. S.gone => live'[w][S.key] # s
    BY <2>2, <2>3
  <2> QED
    BY <1>3, <2>1, <2>3, <2>4, <2>5, <2>6, <2>7, <2>8, <2>9, <2>10, Turn, Zenon
<1> QED
  BY <1>4, <1>5, <1>6

-----------------------------------------------------------------------------
\* The native side

\* An answer is what the call may know, and it stays at work.
LEMMA ReplyTurn ==
  ASSUME CallsOK, SessionInv, FilesGo, UNCHANGED <<sess, live, handle>>,
         NEW c \in Calls, calls[c] # Idle, NEW x, Reply(c, x),
         calls[c].at = "acquire" /\ x.kind = "ok" => x.proof \in 0..MaxGrants,
         calls[c].at = "revalidate" => x.kind \in Lookups,
         calls[c].at = "write" => x.applied \in BOOLEAN,
         OnSession(calls[c]) /\ calls[c].at \in Reading \cup {"write"} /\ x.kind = "ok" =>
            Brings(calls[c], sess[calls[c].w][calls[c].s], x.snap, disk', texts')
  PROVE  SessionInv' /\ BusyStays
<1> PICK q : q = calls[c]
  OBVIOUS
<1> PICK r : r = [q EXCEPT !.reply = x]
  OBVIOUS
<1>1. Put(c, r)
  BY DEF Reply, Put
<1>2. Formed(q) /\ CallTyped(q, texts)
  BY CallHere
<1>3. /\ Same(q, r) /\ r.at = q.at /\ r.reply = x /\ r.tok = q.tok
      /\ r.base = q.base /\ r.proof = q.proof /\ r.applied = q.applied
  BY <1>2, Zenon DEF Formed, Fields, Same
<1>4. r # Idle
  BY <1>2, <1>3, NotIdle DEF CallTyped
<1>5. CallTyped(r, texts')
  <2>1. texts \in Nat /\ texts' \in Nat /\ texts <= texts'
    BY SessionConstants DEF SessionInv, FilesOK, FilesGo
  <2>2. CallTyped(q, texts')
    BY <1>2, <2>1, TypedStays, Zenon
  <2> QED
    BY <1>3, <2>2 DEF CallTyped, Same
<1>6. ASSUME OnSession(r)
      PROVE  r.s \in DOMAIN sess[r.w] /\ Knows(r, sess[r.w][r.s], disk', texts')
  <2>1. OnSession(q)
    BY <1>3, <1>6 DEF OnSession, Same
  <2> PICK S : S = sess[q.w][q.s]
    OBVIOUS
  <2>2. /\ q.s \in DOMAIN sess[q.w] /\ S \in Session /\ Knows(q, S, disk, texts)
    BY <2>1, SessionOfCall
  <2>3. Knows(q, S, disk', texts')
    <3>1. /\ texts \in Nat /\ texts' \in Nat /\ texts <= texts' /\ Upto(disk, disk')
          /\ disk \in Snap /\ disk' \in Snap
      BY SessionConstants DEF SessionInv, FilesOK, FilesGo
    <3> QED
      BY <2>2, <3>1, OnwardSame, KnowsStays
  <2>4. r.at \in Reading \cup {"write"} /\ r.reply.kind = "ok" =>
           Brings(r, S, r.reply.snap, disk', texts')
    BY <1>3, <2>1, Zenon DEF Brings
  <2>5. r.at = "refresh" => Brings(r, S, r.base, disk', texts')
    BY <1>3, <2>3, Zenon DEF Knows, Brings
  <2>6. Knows(r, S, disk', texts')
    BY <1>3, <2>3, <2>4, <2>5 DEF Knows, Same
  <2> QED
    BY <1>3, <2>2, <2>6 DEF Same
<1>7. CallGood(r)'
  BY <1>5, <1>6 DEF CallGood
<1>8. Holds(r) <=> Holds(q)
  BY <1>3, <1>4 DEF Holds, Same
<1>9. Holds(r) => SameWork(q, r)
  BY <1>3, <1>8 DEF SameWork, Same
<1> QED
  BY <1>1, <1>7, <1>8, <1>9, PutTurn

\* Answers that bring nothing of the file
LEMMA PlainReplyTurn ==
  ASSUME CallsOK, SessionInv, NEW c \in Calls, calls[c] # Idle, NEW x, Reply(c, x),
         UNCHANGED <<disk, texts, sess, live, handle>>,
         calls[c].at = "acquire" /\ x.kind = "ok" => x.proof \in 0..MaxGrants,
         calls[c].at = "revalidate" => x.kind \in Lookups,
         calls[c].at \notin Reading \cup {"write"}
  PROVE  SessionInv' /\ BusyStays
<1>1. FilesGo
  BY FilesSame DEF SessionInv
<1> QED
  BY <1>1, ReplyTurn

LEMMA ServeAcquireKeeps ==
  ASSUME CallsOK, SessionInv, Proved!TypeOK, NEW c \in Calls, ServeAcquire(c)
  PROVE  SessionInv' /\ BusyStays
<1>1. calls[c].at = "acquire" /\ calls[c] # Idle /\ UNCHANGED <<disk, texts, sess, live, handle>>
  BY DEF ServeAcquire, Asked, Idle
<1>2. CASE Reply(c, No)
  BY <1>1, <1>2, PlainReplyTurn DEF No, Reading
<1>3. CASE ~Reply(c, No)
  <2>1. issued < MaxGrants /\ Reply(c, [kind |-> "ok", proof |-> issued + 1])
    BY <1>3 DEF ServeAcquire
  <2>2. issued + 1 \in 0..MaxGrants
    BY <2>1, SessionConstants DEF Proved!TypeOK
  <2> QED
    BY <1>1, <2>1, <2>2, PlainReplyTurn DEF Reading
<1> QED
  BY <1>2, <1>3

LEMMA ServeKeeps ==
  ASSUME CallsOK, SessionInv, NEW c \in Calls,
         \/ ServeRetain(c) \/ ServeRenew(c) \/ ServeRefresh(c) \/ ServeRelease(c)
         \/ ServeLookup(c)
  PROVE  SessionInv' /\ BusyStays
<1>1. UNCHANGED <<disk, texts, sess, live, handle>>
  BY DEF ServeRetain, ServeRenew, ServeRefresh, ServeRelease, ServeLookup, Native
<1>2. CASE ServeLookup(c)
  <2>1. calls[c].at \in {"revalidate", "check"} /\ calls[c] # Idle
    BY <1>2 DEF ServeLookup, Asked, Idle
  <2>2. PICK kind \in Lookups : Reply(c, [kind |-> kind])
    BY <1>2 DEF ServeLookup
  <2> QED
    BY <1>1, <2>1, <2>2, PlainReplyTurn DEF Reading
<1>3. CASE \/ ServeRetain(c) \/ ServeRenew(c) \/ ServeRefresh(c) \/ ServeRelease(c)
  <2>1. /\ calls[c].at \in {"retain", "renew", "refresh", "release", "demote", "unload"}
        /\ calls[c] # Idle
    BY <1>3 DEF ServeRetain, ServeRenew, ServeRefresh, ServeRelease, Asked, Idle
  <2>2. PICK x : Reply(c, x)
    BY <1>3 DEF ServeRetain, ServeRenew, ServeRefresh, ServeRelease
  <2> QED
    BY <1>1, <2>1, <2>2, PlainReplyTurn, Zenon DEF Reading
<1> QED
  BY <1>2, <1>3

\* What is read is the file as it is.
LEMMA ServeReadKeeps ==
  ASSUME CallsOK, SessionInv, NEW c \in Calls, ServeRead(c)
  PROVE  SessionInv' /\ BusyStays
<1>1. /\ calls[c].at \in Reading /\ calls[c] # Idle
      /\ UNCHANGED <<disk, texts, sess, live, handle>>
  BY DEF ServeRead, Asked, Idle, Native, Reading
<1>2. FilesGo
  BY <1>1, FilesSame DEF SessionInv
<1>3. CASE Reply(c, No)
  BY <1>1, <1>2, <1>3, ReplyTurn DEF No, Reading
<1>4. CASE Reply(c, [kind |-> "ok", snap |-> disk])
  <2>1. ASSUME OnSession(calls[c])
        PROVE  Brings(calls[c], sess[calls[c].w][calls[c].s], disk, disk, texts)
    <3>1. SessionGood(sess[calls[c].w][calls[c].s], disk, texts)
      BY <2>1, SessionOfCall
    <3>2. disk \in Snap /\ disk.text <= texts /\ Upto(disk, disk)
      BY Revisions, UptoOrder DEF SessionInv, FilesOK
    <3> QED
      BY <3>1, <3>2 DEF Brings, Seen, SessionGood
  <2>2. [kind |-> "ok", snap |-> disk].snap = disk
    OBVIOUS
  <2> PICK x : x = [kind |-> "ok", snap |-> disk]
    OBVIOUS
  <2>3. OnSession(calls[c]) => Brings(calls[c], sess[calls[c].w][calls[c].s], x.snap, disk', texts')
    BY <1>1, <2>1
  <2> QED
    BY <1>1, <1>2, <1>4, <2>3, ReplyTurn, Zenon DEF Reading
<1> QED
  BY <1>3, <1>4 DEF ServeRead

\* A write puts its text over the baseline it was sent with.
LEMMA ServeWriteKeeps ==
  ASSUME CallsOK, SessionInv, NEW c \in Calls, ServeWrite(c)
  PROVE  SessionInv' /\ BusyStays
<1> PICK q : q = calls[c]
  OBVIOUS
<1>1. /\ q.at = "write" /\ q # Idle /\ UNCHANGED <<texts, sess, live, handle>>
  BY DEF ServeWrite, Asked, Idle
<1>2. CallTyped(q, texts) /\ q.saved \in 1..texts
  BY <1>1, CallHere DEF CallTyped, Saving
<1>3. PICK x : Reply(c, x) /\ x.applied \in BOOLEAN
               /\ (x.kind = "ok" => x.snap = disk' /\ disk = q.base)
  <2>1. CASE Reply(c, [kind |-> "ok", snap |-> disk, applied |-> FALSE]) /\ UNCHANGED disk
             /\ disk = q.base
    <3> PICK x : x = [kind |-> "ok", snap |-> disk, applied |-> FALSE]
      OBVIOUS
    <3>1. Reply(c, x)
      BY <2>1
    <3>2. x.applied \in BOOLEAN
      OBVIOUS
    <3>3. x.kind = "ok" => x.snap = disk' /\ disk = q.base
      BY <2>1
    <3> QED
      BY <3>1, <3>2, <3>3
  <2>2. CASE Reply(c, [kind |-> "ok", snap |-> disk', applied |-> TRUE]) /\ disk = q.base
    <3> PICK x : x = [kind |-> "ok", snap |-> disk', applied |-> TRUE]
      OBVIOUS
    <3>1. Reply(c, x)
      BY <2>2
    <3>2. x.applied \in BOOLEAN
      OBVIOUS
    <3>3. x.kind = "ok" => x.snap = disk' /\ disk = q.base
      BY <2>2
    <3> QED
      BY <3>1, <3>2, <3>3
  <2>3. CASE Reply(c, [kind |-> "unverified", applied |-> TRUE])
    <3> PICK x : x = [kind |-> "unverified", applied |-> TRUE]
      OBVIOUS
    <3>1. Reply(c, x)
      BY <2>3
    <3>2. x.applied \in BOOLEAN
      OBVIOUS
    <3>3. x.kind = "ok" => x.snap = disk' /\ disk = q.base
      BY <2>3
    <3> QED
      BY <3>1, <3>2, <3>3
  <2>4. CASE Reply(c, [kind |-> "no", applied |-> FALSE])
    <3> PICK x : x = [kind |-> "no", applied |-> FALSE]
      OBVIOUS
    <3>1. Reply(c, x)
      BY <2>4
    <3>2. x.applied \in BOOLEAN
      OBVIOUS
    <3>3. x.kind = "ok" => x.snap = disk' /\ disk = q.base
      BY <2>4
    <3> QED
      BY <3>1, <3>2, <3>3
  <2> QED
    BY <2>1, <2>2, <2>3, <2>4 DEF ServeWrite
<1>4. /\ UNCHANGED disk \/ (/\ disk.phys < MaxPhys
                            /\ disk' = [text |-> q.saved, phys |-> disk.phys + 1])
  BY DEF ServeWrite
<1>5. FilesGo
  <2>1. CASE UNCHANGED disk
    BY <1>1, <2>1, FilesSame DEF SessionInv
  <2>2. CASE disk.phys < MaxPhys /\ disk' = [text |-> q.saved, phys |-> disk.phys + 1]
    <3>1. disk \in Snap /\ texts \in 1..MaxText /\ disk.text <= texts
      BY DEF SessionInv, FilesOK
    <3>2. disk' \in Snap /\ disk'.text <= texts
      BY <1>2, <2>2, <3>1, SessionConstants DEF Snap
    <3>3. Upto(disk, disk')
      BY <2>2, <3>1 DEF Upto, Snap
    <3> QED
      BY <1>1, <3>1, <3>2, <3>3, SessionConstants DEF FilesGo, FilesOK
  <2> QED
    BY <1>4, <2>1, <2>2
<1>6. ASSUME OnSession(q), x.kind = "ok"
      PROVE  Brings(q, sess[q.w][q.s], x.snap, disk', texts')
  <2> PICK S : S = sess[q.w][q.s]
    OBVIOUS
  <2>1. SessionGood(S, disk, texts) /\ S \in Session
    BY <1>6, SessionOfCall
  <2>2. disk' \in Snap /\ disk'.text <= texts' /\ Upto(disk', disk') /\ Upto(disk, disk')
    BY <1>5, Revisions, UptoOrder, Zenon DEF FilesGo, FilesOK
  <2>3. Upto(S.base, disk')
    <3>1. S.base \in Revision /\ disk \in Revision /\ disk' \in Revision
      BY <2>1, <2>2, Revisions DEF Session, SessionInv, FilesOK
    <3> QED
      BY <2>1, <2>2, <3>1, UptoOrder, Zenon DEF SessionGood, Seen
  <2> QED
    BY <1>3, <1>6, <2>2, <2>3 DEF Brings, Seen
<1> QED
  BY <1>1, <1>3, <1>5, <1>6, ReplyTurn DEF Reading

-----------------------------------------------------------------------------
\* Steps of no call

\* Session s becomes T; where T is busy, it was before.
LEMMA CalmTurn ==
  ASSUME SessionInv, FilesGo, NEW w, NEW s, NEW T, Becomes(w, s, T),
         Course(sess[w][s], T, disk', texts'), UNCHANGED <<live, handle, calls>>,
         T.hs = sess[w][s].hs, T.gone = sess[w][s].gone,
         T.op # "none" => T.op = sess[w][s].op /\ T.tok = sess[w][s].tok
  PROVE  SessionInv' /\ BusyStays
<1>1. w \in Windows /\ s \in DOMAIN sess[w] /\ T \in Session /\ Onward(sess[w][s], T)
  BY DEF Becomes, Course
<1>2. SessionsGo
  BY <1>1, BecomesGo DEF SessionInv
<1>3. HandlesGo /\ LiveGo
  BY <1>2, HandlesSame, LiveSame DEF SessionInv
<1>4. T.hs \subseteq DOMAIN handle'[w]
  BY <1>1 DEF SessionInv, SessionsOK
<1>5. T.gone => live'[w][T.key] # s
  <2>1. T.key \in Keys
    BY <1>1 DEF Session
  <2> SUFFICES ASSUME T.gone, live[w][T.key] = s PROVE FALSE
    OBVIOUS
  <2>2. s # 0
    <3>1. sess[w] \in Seq(Session)
      BY <1>1 DEF SessionInv, SessionsOK
    <3> QED
      BY <1>1, <3>1
  <2> QED
    BY <1>1, <2>1, <2>2 DEF SessionInv, LiveOK
<1>6. FilesOK' /\ SessionsOK' /\ HandlesOK' /\ LiveOK'
  BY <1>3, <1>4, <1>5, SessionsTurn DEF FilesGo
<1>7. WorkOK' /\ TokensOK'
  BY <1>2, <1>6, GoodCallStays DEF WorkOK, TokensOK, SessionInv
<1>8. BusyStays
  <2> SUFFICES ASSUME NEW v \in Windows, NEW k \in Keys, BusyOK(v, k), live[v][k] # 0,
                      sess'[v][live[v][k]].op # "none"
               PROVE  AtWork(calls, v, live[v][k], sess'[v][live[v][k]].tok)
    BY DEF BusyStays, BusyOK
  <2> PICK x : x = live[v][k]
    OBVIOUS
  <2>1. x \in DOMAIN sess[v]
    BY LiveHere
  <2>2. sess[v][x].op # "none" => AtWork(calls, v, x, sess[v][x].tok)
    BY DEF BusyOK
  <2>3. sess[v][x].op # "none" /\ sess'[v][x].tok = sess[v][x].tok
    <3>1. CASE v = w /\ x = s
      BY <1>1, <3>1, BecomesSets DEF SessionInv
    <3>2. CASE v # w \/ x # s
      BY <1>1, <2>1, <3>2, BecomesSets DEF SessionInv
    <3> QED
      BY <3>1, <3>2
  <2> QED
    BY <2>2, <2>3
<1> QED
  BY <1>6, <1>7, <1>8 DEF SessionInv

LEMMA UpdateDraftKeeps ==
  ASSUME SessionInv, NEW w \in Windows, NEW h, UpdateDraft(w, h)
  PROVE  SessionInv' /\ BusyStays
<1> PICK s : s = SessionOf(w, h)
  OBVIOUS
<1> PICK S : S = sess[w][s]
  OBVIOUS
<1>1. /\ s \in DOMAIN sess[w] /\ S \in Session /\ SessionGood(S, disk, texts)
      /\ UNCHANGED <<disk, live, handle, calls>>
  BY HandleHere DEF UpdateDraft
<1>2. /\ texts \in Nat /\ texts \in 1..MaxText /\ disk \in Snap /\ disk.text <= texts
      /\ S.base.text \in Nat /\ S.base \in Revision /\ disk.text \in Nat
      /\ S.base.text <= texts
  BY <1>1, SessionConstants, Revisions DEF SessionInv, FilesOK, Session, SessionGood, Seen, Revision
<1>3. PICK text \in {texts + 1, S.base.text} \ {S.draft, 0} :
        /\ text <= MaxText
        /\ texts' = IF text > texts THEN text ELSE texts
        /\ SetSession(w, s, Behind(w, s, [S EXCEPT !.draft = text,
                                                   !.dirty = (text # S.base.text)]))
  BY Zenon DEF UpdateDraft
<1>4. /\ text \in Nat \ {0} /\ text <= MaxText
      /\ texts' = IF text > texts THEN text ELSE texts
  BY <1>2, <1>3
<1> PICK dirty \in BOOLEAN : dirty = (text # S.base.text)
  OBVIOUS
<1>5. texts' \in 1..MaxText /\ texts <= texts' /\ text <= texts'
  BY <1>2, <1>4, SessionConstants
<1>6. FilesGo
  <2>1. Upto(disk, disk) /\ disk.text <= texts'
    BY <1>2, <1>5, SessionConstants, UptoOrder, Revisions
  <2> QED
    BY <1>1, <1>2, <1>5, <2>1 DEF FilesGo, FilesOK
<1> PICK U : U = [S EXCEPT !.draft = text, !.dirty = dirty]
  BY Zenon
<1>7. \E b \in BOOLEAN : SetSession(w, s, Marked(U, b))
  <2> PICK b \in BOOLEAN : b = (U.late \/ (U.dirty /\ ~S.dirty /\ DecidedClean(w, s)))
    BY Zenon
  <2>1. U = [S EXCEPT !.draft = text, !.dirty = (text # S.base.text)]
    BY Zenon
  <2>2. Marked(U, b) = Behind(w, s, U)
    BY DEF Marked, Behind
  <2> QED
    BY <1>3, <2>1, <2>2, Zenon
<1> PICK b \in BOOLEAN : SetSession(w, s, Marked(U, b))
  BY <1>7
<1> PICK T : T = Marked(U, b)
  OBVIOUS
<1>8. text \in 0..MaxText
  BY <1>4, SessionConstants
<1>9. /\ U \in Session /\ U.key = S.key /\ U.tok = S.tok /\ U.op = S.op /\ U.hs = S.hs
      /\ U.gone = S.gone /\ U.base = S.base /\ U.draft = text /\ U.dirty = dirty
  BY <1>1, <1>8, ZenonT(30) DEF Session
<1>10. Course(S, U, disk', texts')
  <2>1. Upto(S.base, S.base) /\ S.tok >= S.tok
    BY <1>1, <1>2, UptoOrder DEF Session
  <2>2. Seen(S.base, disk, texts')
    BY <1>1, <1>2, <1>5, SessionConstants DEF SessionGood, Seen
  <2>3. SessionGood(U, disk', texts')
    BY <1>1, <1>4, <1>5, <1>9, <2>2 DEF SessionGood
  <2> QED
    BY <1>9, <2>1, <2>3, Zenon DEF Course, Onward
<1>11. /\ Course(S, T, disk', texts')
       /\ T.hs = U.hs /\ T.gone = U.gone /\ T.op = U.op /\ T.tok = U.tok
  <2>1. Course(S, T, disk', texts')
    BY <1>1, <1>10, LateDoes, Zenon
  <2>2. T.hs = U.hs /\ T.gone = U.gone /\ T.op = U.op /\ T.tok = U.tok
    BY <1>9 DEF Marked, Session
  <2> QED
    BY <2>1, <2>2, Zenon
<1>12. Becomes(w, s, T)
  BY <1>1 DEF Becomes
<1> QED
  BY <1>1, <1>6, <1>9, <1>11, <1>12, CalmTurn

LEMMA ConfirmKeeps ==
  ASSUME SessionInv, NEW w \in Windows, NEW h, ConfirmExternalWrite(w, h)
  PROVE  SessionInv' /\ BusyStays
<1> PICK s : s = SessionOf(w, h)
  OBVIOUS
<1> PICK S : S = sess[w][s]
  OBVIOUS
<1> PICK T : T = [S EXCEPT !.confirmed = TRUE]
  OBVIOUS
<1>1. /\ s \in DOMAIN sess[w] /\ S \in Session /\ SessionGood(S, disk, texts)
      /\ UNCHANGED <<disk, texts, live, handle, calls>>
  BY HandleHere DEF ConfirmExternalWrite, Native
<1>2. SetSession(w, s, T)
  BY DEF ConfirmExternalWrite
<1>3. Like(S, T) /\ T.hs = S.hs /\ T.gone = S.gone
  BY <1>1, Zenon DEF Like, Session
<1>4. Course(S, T, disk, texts)
  BY <1>1, <1>3, LikeCourse
<1>5. FilesGo /\ Becomes(w, s, T)
  BY <1>1, <1>2, FilesSame DEF SessionInv, Becomes
<1>6. Course(S, T, disk', texts')
  BY <1>1, <1>4
<1> QED
  BY <1>1, <1>3, <1>5, <1>6, CalmTurn DEF Like

LEMMA CancelKeeps ==
  ASSUME SessionInv, NEW w \in Windows, NEW h, Cancel(w, h)
  PROVE  SessionInv' /\ BusyStays
<1> PICK s : s = SessionOf(w, h)
  OBVIOUS
<1> PICK S : S = sess[w][s]
  OBVIOUS
<1> PICK T : T = Clear(S)
  OBVIOUS
<1>1. /\ s \in DOMAIN sess[w] /\ S \in Session /\ SessionGood(S, disk, texts)
      /\ UNCHANGED <<disk, texts, live, handle, calls>>
  BY HandleHere DEF Cancel, Native
<1>2. SetSession(w, s, T)
  BY DEF Cancel
<1>3. Course(S, T, disk, texts) /\ T.op = "none" /\ T.hs = S.hs /\ T.gone = S.gone
  BY <1>1, ClearDoes
<1>4. FilesGo /\ Becomes(w, s, T)
  BY <1>1, <1>2, FilesSame DEF SessionInv, Becomes
<1>5. Course(S, T, disk', texts')
  BY <1>1, <1>3
<1> QED
  BY <1>1, <1>3, <1>4, <1>5, CalmTurn

\* Only the file changes, if anything does.
LEMMA FilesTurn ==
  ASSUME SessionInv, FilesGo, UNCHANGED <<sess, live, handle, calls>>
  PROVE  SessionInv' /\ BusyStays
<1>1. FilesOK' /\ SessionsGo /\ SessionsOK' /\ HandlesOK' /\ LiveOK'
  BY SessionsStay
<1>2. WorkOK' /\ TokensOK' /\ BusyStays
  BY <1>1, GoodCallStays DEF WorkOK, TokensOK, BusyStays, BusyOK, SessionInv
<1> QED
  BY <1>1, <1>2 DEF SessionInv

LEMMA ExternalKeeps ==
  ASSUME SessionInv, ExternalChange
  PROVE  SessionInv' /\ BusyStays
<1>1. /\ texts < MaxText /\ texts' = texts + 1 /\ UNCHANGED <<sess, live, handle, calls>>
  BY DEF ExternalChange
<1>2. PICK phys \in {disk.phys, disk.phys + 1} :
        phys <= MaxPhys /\ disk' = [text |-> texts + 1, phys |-> phys]
  BY DEF ExternalChange
<1>3. disk \in Snap /\ texts \in 1..MaxText /\ disk.text <= texts
  BY DEF SessionInv, FilesOK
<1>4. texts' \in 1..MaxText /\ texts <= texts' /\ disk'.text <= texts'
  BY <1>1, <1>2, <1>3, SessionConstants
<1>5. disk' \in Snap
  BY <1>1, <1>2, <1>3, SessionConstants DEF Snap
<1>6. Upto(disk, disk')
  BY <1>2, <1>3, SessionConstants DEF Upto, Snap
<1> QED
  BY <1>1, <1>4, <1>5, <1>6, FilesTurn DEF FilesGo, FilesOK

\* What is left of a call of a destroyed window
LEMMA OrphanTyped ==
  ASSUME NEW q, Formed(q), NEW n, CallTyped(q, n), q.at = "write"
  PROVE  LET r == [q EXCEPT !.op = "orphan"]
         IN  CallTyped(r, n) /\ ~OnSession(r) /\ ~Holds(r)
<1> PICK r : r = [q EXCEPT !.op = "orphan"]
  OBVIOUS
<1>1. /\ r.op = "orphan" /\ r.at = q.at /\ r.w = q.w /\ r.s = q.s /\ r.key = q.key
      /\ r.consumer = q.consumer /\ r.saved = q.saved /\ r.reply = q.reply
      /\ r.applied = q.applied
  BY DEF Formed, Fields
<1> QED
  BY <1>1 DEF CallTyped, OnSession, Holds, Saving

LEMMA DestroyedKeeps ==
  ASSUME CallsOK, SessionInv, NEW w \in Windows, WindowDestroyed(w)
  PROVE  SessionInv' /\ BusyStays
<1>1. FilesOK'
  BY DEF WindowDestroyed, SessionInv, FilesOK
<1>2. /\ UNCHANGED <<disk, texts>>
      /\ sess' = [sess EXCEPT ![w] = <<>>]
      /\ live' = [live EXCEPT ![w] = [k \in Keys |-> 0]]
      /\ handle' = [handle EXCEPT ![w] = <<>>]
  BY DEF WindowDestroyed
<1>3. /\ <<>> \in Seq(Session) /\ <<>> \in Seq(Handle) /\ Len(<<>>) = 0 /\ DOMAIN <<>> = {}
      /\ [k \in Keys |-> 0] \in [Keys -> Nat]
  OBVIOUS
<1>4. /\ sess' \in [Windows -> Seq(Session)] /\ sess'[w] = <<>>
      /\ \A v \in Windows : v # w => sess'[v] = sess[v]
  BY <1>2, <1>3 DEF SessionInv, SessionsOK
<1>5. /\ handle' \in [Windows -> Seq(Handle)] /\ handle'[w] = <<>>
      /\ \A v \in Windows : v # w => handle'[v] = handle[v]
  BY <1>2, <1>3 DEF SessionInv, HandlesOK
<1>6. /\ live' \in [Windows -> [Keys -> Nat]] /\ \A k \in Keys : live'[w][k] = 0
      /\ \A v \in Windows : v # w => live'[v] = live[v]
  BY <1>2, <1>3 DEF SessionInv, LiveOK
<1>7. SessionsOK'
  <2> SUFFICES ASSUME NEW v \in Windows
               PROVE  /\ Len(sess'[v]) <= MaxSessions
                      /\ \A s \in DOMAIN sess'[v] : /\ SessionGood(sess'[v][s], disk, texts)
                                                    /\ sess'[v][s].hs \subseteq DOMAIN handle'[v]
    BY <1>2, <1>4 DEF SessionsOK
  <2>1. CASE v = w
    BY <1>3, <1>4, <2>1, SessionConstants
  <2>2. CASE v # w
    BY <1>4, <1>5, <2>2 DEF SessionInv, SessionsOK
  <2> QED
    BY <2>1, <2>2
<1>8. HandlesOK'
  <2> SUFFICES ASSUME NEW v \in Windows
               PROVE  /\ Len(handle'[v]) <= MaxHandles
                      /\ \A h \in DOMAIN handle'[v] : handle'[v][h].s \in DOMAIN sess'[v]
    BY <1>5 DEF HandlesOK
  <2>1. CASE v = w
    BY <1>3, <1>5, <2>1, SessionConstants
  <2>2. CASE v # w
    BY <1>4, <1>5, <2>2 DEF SessionInv, HandlesOK
  <2> QED
    BY <2>1, <2>2
<1>9. LiveOK'
  <2>1. ASSUME NEW v \in Windows, NEW k \in Keys, live'[v][k] # 0
        PROVE  /\ live'[v][k] \in DOMAIN sess'[v]
               /\ sess'[v][live'[v][k]].key = k /\ ~sess'[v][live'[v][k]].gone
    <3>1. v # w
      BY <1>6, <2>1
    <3>2. live'[v] = live[v] /\ sess'[v] = sess[v]
      BY <1>4, <1>6, <3>1
    <3> QED
      BY <2>1, <3>2, LiveHere
  <2> QED
    BY <1>6, <2>1 DEF LiveOK
<1>10. ASSUME NEW c \in Calls
       PROVE  \/ calls'[c] = calls[c] /\ (calls[c] = Idle \/ calls[c].w # w)
              \/ calls'[c] = Idle
              \/ /\ calls[c].at = "write" /\ calls[c] # Idle
                 /\ calls'[c] = [calls[c] EXCEPT !.op = "orphan"]
  BY DEF WindowDestroyed, Asked
<1>11. ASSUME NEW c \in Calls, Holds(calls'[c])
       PROVE  calls'[c] = calls[c] /\ calls[c].w # w
  <2>1. CASE calls'[c] = calls[c] /\ (calls[c] = Idle \/ calls[c].w # w)
    BY <1>11, <2>1 DEF Holds
  <2>2. CASE calls'[c] = Idle
    BY <1>11, <2>2, IdleHolds
  <2>3. CASE /\ calls[c].at = "write" /\ calls[c] # Idle
             /\ calls'[c] = [calls[c] EXCEPT !.op = "orphan"]
    BY <1>11, <2>3, CallHere, OrphanTyped
  <2> QED
    BY <1>10, <2>1, <2>2, <2>3
<1>12. WorkOK'
  <2> SUFFICES ASSUME NEW c \in Calls PROVE CallGood(calls[c])'
    BY DEF WorkOK
  <2>1. CASE calls'[c] = calls[c] /\ (calls[c] = Idle \/ calls[c].w # w)
    <3>1. CallGood(calls[c])
      BY DEF SessionInv, WorkOK
    <3>2. calls[c] # Idle => sess'[calls[c].w] = sess[calls[c].w]
      BY <1>4, <2>1, <3>1 DEF CallGood, CallTyped
    <3> QED
      BY <1>2, <2>1, <3>1, <3>2 DEF CallGood
  <2>2. CASE calls'[c] = Idle
    BY <2>2 DEF CallGood
  <2>3. CASE /\ calls[c].at = "write" /\ calls[c] # Idle
             /\ calls'[c] = [calls[c] EXCEPT !.op = "orphan"]
    BY <1>2, <2>3, CallHere, OrphanTyped DEF CallGood
  <2> QED
    BY <1>10, <2>1, <2>2, <2>3
<1>13. TokensOK'
  BY <1>11 DEF SessionInv, TokensOK
<1>14. BusyStays
  <2> SUFFICES ASSUME NEW v \in Windows, NEW k \in Keys, BusyOK(v, k), live'[v][k] # 0,
                      sess'[v][live'[v][k]].op # "none"
               PROVE  AtWork(calls', v, live'[v][k], sess'[v][live'[v][k]].tok)
    BY DEF BusyStays, BusyOK
  <2>1. v # w
    BY <1>6
  <2>2. live'[v][k] = live[v][k] /\ sess'[v] = sess[v]
    BY <1>4, <1>6, <2>1
  <2>3. PICK c \in Calls : /\ Holds(calls[c]) /\ calls[c].w = v /\ calls[c].s = live[v][k]
                           /\ calls[c].tok = sess[v][live[v][k]].tok
    BY <2>2 DEF BusyOK, AtWork
  <2>4. calls'[c] = calls[c]
    BY <2>1, <2>3, IdleHolds DEF WindowDestroyed
  <2> QED
    BY <2>2, <2>3, <2>4 DEF AtWork
<1> QED
  BY <1>1, <1>7, <1>8, <1>9, <1>12, <1>13, <1>14 DEF SessionInv

LEMMA AsksOfNew ==
  ASSUME NEW w \in Windows, NEW k \in Keys, NEW u \in Consumers \cup {NoConsumer}
  PROVE  LET R == [NewCall("open", "acquire", w, 0, 0) EXCEPT !.key = k, !.consumer = u]
         IN  Asks(R) /\ R.at = "acquire" /\ R.reply = Waiting
<1> PICK N : N = NewCall("open", "acquire", w, 0, 0)
  OBVIOUS
<1>1. Formed(N) /\ N.at = "acquire" /\ N.w = w
  BY NewCallFormed
<1>2. N.op = "open" /\ N.reply = Waiting
  BY DEF NewCall
<1> PICK R : R = [N EXCEPT !.key = k, !.consumer = u]
  OBVIOUS
<1>3. /\ Formed(R) /\ R.op = N.op /\ R.at = N.at /\ R.w = N.w /\ R.reply = N.reply
      /\ R.key = k /\ R.consumer = u
  BY <1>1 DEF Formed, Fields
<1> QED
  BY <1>1, <1>2, <1>3 DEF Asks

LEMMA OpenNewKeeps ==
  ASSUME CallsOK, SessionInv, NEW c \in Calls, NEW w \in Windows, NEW k \in Keys,
         NEW mode \in Modes, NEW u \in Consumers \cup {NoConsumer}, OpenNew(c, w, k, mode, u)
  PROVE  SessionInv' /\ BusyStays
<1> PICK r : r = [NewCall("open", "acquire", w, 0, 0) EXCEPT !.key = k, !.consumer = u]
  OBVIOUS
<1>1. calls[c] = Idle /\ UNCHANGED <<disk, texts>>
  BY DEF OpenNew, Native
<1>2. ~Holds(calls[c])
  BY <1>1, IdleHolds
<1>3. Asks(r) /\ r.at = "acquire" /\ r.reply = Waiting
  BY AsksOfNew, Zenon
<1>4. CASE mode = "writable"
  <2>1. Put(c, r) /\ UNCHANGED <<sess, live, handle>>
    BY <1>4 DEF OpenNew
  <2>2. CallTyped(r, texts)
    BY <1>3 DEF CallTyped, Asks, Steps, Saving, Waiting
  <2>3. ~OnSession(r) /\ ~Holds(r)
    BY <1>3 DEF OnSession, Holds, Saving, Reading
  <2>4. CallGood(r)'
    BY <1>1, <2>2, <2>3 DEF CallGood
  <2>5. FilesGo
    BY <1>1, FilesSame DEF SessionInv
  <2> QED
    BY <1>2, <2>1, <2>3, <2>4, <2>5, PutTurn
<1>5. CASE mode # "writable"
  <2>1. StartLoading(c, r, mode, 0)
    BY <1>5 DEF OpenNew
  <2>2. 0 \in 0..MaxGrants /\ mode \in {"writable", "readonly"}
    BY SessionBounds
  <2> QED
    BY <1>1, <1>2, <1>3, <2>1, <2>2, LoadingTurn
<1> QED
  BY <1>4, <1>5

-----------------------------------------------------------------------------
\* Every step

LEMMA StartKeeps ==
  ASSUME CallsOK, SessionInv, NEW c \in Calls, Start(c)
  PROVE  SessionInv' /\ BusyStays
<1>1. PICK w \in {x \in Windows : c \in CallsOf[x] /\ ~Draining(x)} :
        \/ \E k \in Keys : \/ \E mode \in Modes, u \in Consumers \cup {NoConsumer} :
                                 OpenNew(c, w, k, mode, u) \/ OpenShared(c, w, k, mode, u)
                           \/ CloseClean(c, w, k)
                           \/ TransitionToReadOnly(c, w, k)
        \/ \E h \in DOMAIN handle[w] :
              \/ Save(c, w, h) \/ Discard(c, w, h)
              \/ \E decision \in {"none", "discard"} : Reload(c, w, h, decision)
              \/ \E decision \in {"none", "save", "discard"} : Close(c, w, h, decision)
  BY DEF Start
<1>2. w \in Windows
  BY <1>1
<1>3. ASSUME NEW k \in Keys, NEW mode \in Modes, NEW u \in Consumers \cup {NoConsumer},
             OpenNew(c, w, k, mode, u) \/ OpenShared(c, w, k, mode, u)
      PROVE  SessionInv' /\ BusyStays
  BY <1>2, <1>3, OpenNewKeeps, OpenSharedKeeps
<1>4. ASSUME NEW k \in Keys, CloseClean(c, w, k) \/ TransitionToReadOnly(c, w, k)
      PROVE  SessionInv' /\ BusyStays
  BY <1>2, <1>4, CloseCleanKeeps, TransitionKeeps
<1>5. ASSUME NEW h, Save(c, w, h)
      PROVE  SessionInv' /\ BusyStays
  BY <1>2, <1>5, BeginSaveKeeps DEF Save
<1>6. ASSUME NEW h, Discard(c, w, h)
      PROVE  SessionInv' /\ BusyStays
  BY <1>2, <1>6, DiscardKeeps
<1>7. ASSUME NEW h, NEW decision, Reload(c, w, h, decision) \/ Close(c, w, h, decision)
      PROVE  SessionInv' /\ BusyStays
  BY <1>2, <1>7, ReloadKeeps, CloseKeeps
<1> QED
  BY <1>1, <1>3, <1>4, <1>5, <1>6, <1>7

LEMMA ResumeKeeps ==
  ASSUME CallsOK, SessionInv, NEW c \in Calls, Resume(c)
  PROVE  SessionInv' /\ BusyStays
BY SweepKeeps, LeaveKeeps, AcquireReplyKeeps, RetainReplyKeeps, LoadReplyKeeps,
   UnloadReplyKeeps, RenewReplyKeeps, RevalidateReplyKeeps, WriteReplyKeeps,
   RefreshReplyKeeps, CheckReplyKeeps, RereadReplyKeeps, ReleaseReplyKeeps,
   DemoteReplyKeeps, ForgetKeeps DEF Resume

\* Nothing is open at first.
LEMMA InitSessions == Init => SessionInv
<1> SUFFICES ASSUME Init PROVE SessionInv
  OBVIOUS
<1>1. /\ disk = [text |-> 1, phys |-> 0] /\ texts = 1
      /\ sess = [w \in Windows |-> <<>>]
      /\ live = [w \in Windows |-> [k \in Keys |-> 0]]
      /\ handle = [w \in Windows |-> <<>>]
      /\ \A c \in Calls : calls[c] = Idle
  BY DEF Init
<1>2. FilesOK
  BY <1>1, SessionConstants DEF FilesOK, Snap
<1>3. /\ <<>> \in Seq(Session) /\ <<>> \in Seq(Handle) /\ Len(<<>>) = 0 /\ DOMAIN <<>> = {}
  OBVIOUS
<1>4. SessionsOK
  BY <1>1, <1>3, SessionConstants DEF SessionsOK
<1>5. HandlesOK
  BY <1>1, <1>3, SessionConstants DEF HandlesOK
<1>6. LiveOK
  BY <1>1 DEF LiveOK
<1>7. WorkOK /\ TokensOK
  BY <1>1, IdleHolds DEF WorkOK, TokensOK, CallGood
<1> QED
  BY <1>2, <1>4, <1>5, <1>6, <1>7 DEF SessionInv

LEMMA NextSessions ==
  RuntimeInv /\ SessionInv /\ [Next]_vars => SessionInv' /\ BusyStays
<1> SUFFICES ASSUME RuntimeInv, SessionInv, [Next]_vars PROVE SessionInv' /\ BusyStays
  OBVIOUS
<1>1. CallsOK /\ Proved!TypeOK
  BY DEF RuntimeInv, Proved!AuthorityInv
<1>2. ASSUME NEW c \in Calls, Start(c) \/ Resume(c)
      PROVE  SessionInv' /\ BusyStays
  BY <1>1, <1>2, StartKeeps, ResumeKeeps
<1>3. ASSUME NEW c \in Calls, Serve(c)
      PROVE  SessionInv' /\ BusyStays
  BY <1>1, <1>3, ServeAcquireKeeps, ServeKeeps, ServeReadKeeps, ServeWriteKeeps DEF Serve
<1>4. ASSUME NEW w \in Windows, Sync(w)
      PROVE  SessionInv' /\ BusyStays
  BY <1>4, UpdateDraftKeeps, ConfirmKeeps, CancelKeeps DEF Sync
<1>5. ASSUME NEW w \in Windows, WindowDestroyed(w)
      PROVE  SessionInv' /\ BusyStays
  BY <1>1, <1>5, DestroyedKeeps
<1>6. CASE ExternalChange
  BY <1>6, ExternalKeeps
<1>7. CASE UNCHANGED vars
  BY <1>7, FilesSame, FilesTurn DEF vars, SessionInv
<1> QED
  BY <1>2, <1>3, <1>4, <1>5, <1>6, <1>7 DEF Next

LEMMA SessionsHold == Spec => [](RuntimeInv /\ SessionInv)
<1>1. Init => RuntimeInv /\ SessionInv
  BY InitRuntime, InitSessions
<1>2. (RuntimeInv /\ SessionInv) /\ [Next]_vars => (RuntimeInv /\ SessionInv)'
  BY NextRuntime, NextSessions
<1> QED
  BY <1>1, <1>2, PTL DEF Spec

-----------------------------------------------------------------------------
\* What it is for

LEMMA SessionTypes ==
  ASSUME RuntimeInv, SessionInv
  PROVE  TypeOK
<1>1. disk \in [text : 1..MaxText, phys : 0..MaxPhys] /\ texts \in 1..MaxText
  BY DEF SessionInv, FilesOK, Snap
<1>2. active \subseteq Authority!Grant /\ issued \in 0..MaxGrants
  <2>1. Authority!Grant = Proved!Grant
    BY DEF Authority!Grant, Proved!Grant, Authority!Target, Proved!Target
  <2> QED
    BY <2>1 DEF RuntimeInv, Proved!AuthorityInv, Proved!TypeOK
<1>3. ASSUME NEW w \in Windows
      PROVE  /\ Len(sess[w]) <= MaxSessions /\ Len(handle[w]) <= MaxHandles
             /\ \A s \in DOMAIN sess[w] :
                   /\ sess[w][s].key \in Keys /\ sess[w][s].mode \in {"writable", "readonly"}
                   /\ sess[w][s].proof \in 0..MaxGrants
                   /\ sess[w][s].hs \subseteq DOMAIN handle[w]
                   /\ sess[w][s].op \in {"none", "load", "save", "reread"}
             /\ \A k \in Keys : live[w][k] \in 0..Len(sess[w])
             /\ \A h \in DOMAIN handle[w] : handle[w][h].s \in DOMAIN sess[w]
  <2>1. Len(sess[w]) <= MaxSessions /\ Len(handle[w]) <= MaxHandles
    BY DEF SessionInv, SessionsOK, HandlesOK
  <2>2. ASSUME NEW s \in DOMAIN sess[w]
        PROVE  /\ sess[w][s].key \in Keys /\ sess[w][s].mode \in {"writable", "readonly"}
               /\ sess[w][s].proof \in 0..MaxGrants
               /\ sess[w][s].hs \subseteq DOMAIN handle[w]
               /\ sess[w][s].op \in {"none", "load", "save", "reread"}
    <3>1. sess[w][s] \in Session
      BY SessionHere DEF SessionInv
    <3> QED
      BY <3>1 DEF Session, SessionInv, SessionsOK
  <2>3. ASSUME NEW k \in Keys
        PROVE  live[w][k] \in 0..Len(sess[w])
    <3>1. sess[w] \in Seq(Session)
      BY DEF SessionInv, SessionsOK
    <3>2. DOMAIN sess[w] = 1..Len(sess[w]) /\ Len(sess[w]) \in Nat
      BY <3>1
    <3>3. live[w][k] # 0 => live[w][k] \in 1..Len(sess[w])
      BY <3>2, LiveHere
    <3> QED
      BY <3>2, <3>3
  <2>4. \A h \in DOMAIN handle[w] : handle[w][h].s \in DOMAIN sess[w]
    BY DEF SessionInv, HandlesOK
  <2> QED
    BY <2>1, <2>2, <2>3, <2>4
<1>4. ASSUME NEW c \in Calls
      PROVE  calls[c] = Idle \/ calls[c].at \in Steps
  BY DEF SessionInv, WorkOK, CallGood, CallTyped
<1> QED
  BY <1>1, <1>2, <1>3, <1>4 DEF TypeOK

\* Every handler of a session and of the native side leaves sessions, handles,
\* map and calls within their types.
THEOREM TypeCorrect == Spec => []TypeOK
<1>1. RuntimeInv /\ SessionInv => TypeOK
  BY SessionTypes
<1> QED
  BY <1>1, SessionsHold, PTL

LEMMA SessionOfMap ==
  ASSUME SessionInv, NEW w \in Windows, NEW s \in LiveSessions(w)
  PROVE  /\ s \in DOMAIN sess[w] /\ SessionGood(sess[w][s], disk, texts)
         /\ \E k \in Keys : live[w][k] = s /\ s # 0
<1>1. PICK k \in Keys : live[w][k] = s /\ s # 0
  BY DEF LiveSessions
<1>2. s \in DOMAIN sess[w]
  BY <1>1, LiveHere
<1> QED
  BY <1>1, <1>2 DEF SessionInv, SessionsOK

\* updateDraft, hydrate and fail keep the dirty mark of a session true, through
\* any save, reload and cancellation: it is set exactly when the draft differs
\* from the text the session is based on.
THEOREM DraftsMarked == Spec => []DirtyIsTrue
<1>1. SessionInv => DirtyIsTrue
  <2> SUFFICES ASSUME SessionInv, NEW w \in Windows, NEW s \in LiveSessions(w),
                      sess[w][s].base # NoBase
               PROVE  /\ sess[w][s].dirty <=> sess[w][s].draft # sess[w][s].base.text
                      /\ ~sess[w][s].dirty /\ sess[w][s].base = disk =>
                            sess[w][s].draft = disk.text
    BY DEF DirtyIsTrue
  <2> PICK S : S = sess[w][s]
    OBVIOUS
  <2>1. SessionGood(S, disk, texts)
    BY SessionOfMap
  <2>2. S.dirty = (S.draft # S.base.text)
    BY <2>1 DEF SessionGood
  <2>3. S.dirty <=> S.draft # S.base.text
    BY <2>2
  <2> QED
    BY <2>3
<1> QED
  BY <1>1, SessionsHold, PTL

\* The two ways of saying it.
LEMMA AttendsAtWork ==
  \A w, s : (\E c \in Calls : Attends(c, w, s)) <=> AtWork(calls, w, s, sess[w][s].tok)
<1> TAKE w, s
<1>1. ASSUME NEW c \in Calls
      PROVE  Attends(c, w, s) <=>
               Holds(calls[c]) /\ calls[c].w = w /\ calls[c].s = s /\ calls[c].tok = sess[w][s].tok
  <2>1. calls[c].at \in {"load", "renew", "revalidate", "write", "refresh", "reread"} <=>
          calls[c].at \in Saving \cup Reading
    BY DEF Saving, Reading
  <2> QED
    BY <2>1, Zenon DEF Attends, Holds
<1> QED
  BY <1>1, Zenon DEF AtWork

\* A session with an operation in progress has a call in flight that will end it:
\* begin, fail, hydrate and transitionToReadOnly never leave an operation behind
\* that nobody owns; only a save whose lookup of the owner throws does.
THEOREM BusyWhileAtWork == Spec => LeftBusyByThrowOnly
<1>1. ASSUME RuntimeInv, SessionInv, Next
      PROVE  \A w \in Windows, k \in Keys :
               Unattended(w, k)' /\ ~Unattended(w, k) =>
                 \E c \in Calls : /\ calls[c].at = "revalidate"
                                  /\ calls[c].reply.kind = "thrown" /\ calls'[c] = Idle
                                  /\ calls[c].w = w /\ calls[c].s = live[w][k]
  <2>1. BusyStays
    BY <1>1, NextSessions
  <2>2. \A w, k : Unattended(w, k) <=> ~BusyOK(w, k)
    <3>1. \A w, s : (\E c \in Calls : Attends(c, w, s)) <=> AtWork(calls, w, s, sess[w][s].tok)
      BY AttendsAtWork
    <3> QED
      BY <3>1, Zenon DEF Unattended, BusyOK
  <2>3. \A w, k : Unattended(w, k)' <=> ~BusyOK(w, k)'
    <3>1. (\A w, s : (\E c \in Calls : Attends(c, w, s)) <=> AtWork(calls, w, s, sess[w][s].tok))'
      BY AttendsAtWork, PTL
    <3> QED
      BY <3>1, Zenon DEF Unattended, BusyOK
  <2> SUFFICES ASSUME NEW w \in Windows, NEW k \in Keys, Unattended(w, k)', ~Unattended(w, k)
               PROVE  \E c \in Calls : /\ calls[c].at = "revalidate"
                                       /\ calls[c].reply.kind = "thrown" /\ calls'[c] = Idle
                                       /\ calls[c].w = w /\ calls[c].s = live[w][k]
    OBVIOUS
  <2>4. BusyOK(w, k)
    BY <2>2, Zenon
  <2>5. ~BusyOK(w, k)'
    BY <2>3, Zenon
  <2>6. \E c \in Calls : /\ Throws(calls[c]) /\ calls'[c] = Idle
                          /\ calls[c].w = w /\ calls[c].s = live[w][k]
    BY <2>1, <2>4, <2>5, Zenon DEF BusyStays
  <2> QED
    BY <2>6, Zenon DEF Throws
<1>2. RuntimeInv /\ SessionInv /\ [Next]_vars =>
        [\A w \in Windows, k \in Keys :
           Unattended(w, k)' /\ ~Unattended(w, k) =>
             \E c \in Calls : /\ calls[c].at = "revalidate"
                              /\ calls[c].reply.kind = "thrown" /\ calls'[c] = Idle
                              /\ calls[c].w = w /\ calls[c].s = live[w][k]]_vars
  BY <1>1
<1> QED
  BY <1>2, SessionsHold, PTL DEF Spec, LeftBusyByThrowOnly

\* Only a write of this program or another program's edit moves the file.
LEMMA DiskMoves ==
  ASSUME CallsOK, Next, disk' # disk
  PROVE  ExternalChange \/ \E c \in Calls : ServeWrite(c)
<1>1. ASSUME NEW c \in Calls, Start(c) \/ Resume(c)
      PROVE  FALSE
  BY <1>1, StartStays, ResumeStays DEF Stays
<1>2. ASSUME NEW c \in Calls, Serve(c)
      PROVE  ServeWrite(c)
  BY <1>2 DEF Serve, ServeAcquire, ServeRetain, ServeRenew, ServeRefresh, ServeRelease,
              ServeRead, ServeLookup, Native
<1>3. ASSUME NEW w \in Windows, Sync(w) \/ WindowDestroyed(w)
      PROVE  FALSE
  BY <1>3, SyncStays, Zenon DEF Stays, WindowDestroyed
<1> QED
  BY <1>1, <1>2, <1>3 DEF Next

LEMMA WriteOverBaseline ==
  ASSUME RuntimeInv, SessionInv, Next, NEW c \in Calls,
         calls[c] # Idle, calls[c].at = "write", calls[c].op # "orphan",
         calls[c].reply = Waiting, calls'[c] # Idle, calls'[c].reply # Waiting,
         disk' # disk
  PROVE  disk = sess[calls[c].w][calls[c].s].base
<1> PICK q, S : q = calls[c] /\ S = sess[q.w][q.s]
  OBVIOUS
<1>1. calls'[c] # calls[c]
  OBVIOUS
<1>2. ~ExternalChange
  BY <1>1 DEF ExternalChange
<1>3. PICK d \in Calls : ServeWrite(d)
  BY <1>2, DiskMoves DEF RuntimeInv
<1>4. d = c
  <2>1. PICK x : Reply(d, x)
    BY <1>3 DEF ServeWrite
  <2> QED
    BY <1>1, <2>1 DEF Reply, RuntimeInv, CallsOK
<1>5. disk = q.base
  BY <1>3, <1>4 DEF ServeWrite
<1>6. OnSession(q)
  BY DEF OnSession
<1>7. SessionGood(S, disk, texts) /\ S \in Session /\ Knows(q, S, disk, texts)
  BY <1>6, SessionOfCall DEF RuntimeInv
<1>8. Upto(disk, S.base) /\ Upto(S.base, disk)
  BY <1>5, <1>7, Zenon DEF Knows, SessionGood, Seen
<1>9. S.base \in Revision /\ disk \in Revision
  BY <1>7, Revisions DEF Session, SessionInv, FilesOK
<1> QED
  BY <1>8, <1>9, UptoOrder

\* writeManuscript replaces a text only where the session it writes for has read
\* or written exactly that text, whatever was cancelled, saved or reloaded
\* between the owner's lookup and the write.
THEOREM WritesOverRead == Spec => WriteReplacesBaseline
<1>1. RuntimeInv /\ SessionInv /\ [Next]_vars =>
        [\A c \in Calls :
          /\ calls[c] # Idle /\ calls[c].at = "write" /\ calls[c].op # "orphan"
          /\ calls[c].reply = Waiting /\ calls'[c] # Idle /\ calls'[c].reply # Waiting
          /\ disk' # disk
          => disk = sess[calls[c].w][calls[c].s].base]_vars
  BY WriteOverBaseline
<1> QED
  BY <1>1, SessionsHold, PTL DEF Spec, WriteReplacesBaseline

-----------------------------------------------------------------------------
\* Unsaved text

\* Nothing unsaved but what became so behind the back of a close or a reload.
Clean(S) == S.dirty => S.late

\* What call r relies on in its session S: whoever is about to let the session
\* go or to read it anew has found it clean, or goes by the user's decision.
Tidy(r, S) ==
  /\ r.at \in {"check", "reread", "leave", "release", "sweep"} /\ r.decision = "discard"
       => r.todo = {}
  /\ r.at \in Saving => r.decision # "discard"
  /\ r.at = "sweep" => Clean(S)
  /\ r.at \in {"release", "check"} /\ r.decision # "discard" => Clean(S)
  /\ r.at \in Reading /\ Current(S, r.tok) => S.op = r.at
  /\ r.at = "reread" /\ r.decision # "discard" /\ Current(S, r.tok) => Clean(S)
  /\ r.at = "reread" /\ r.op = "close" => r.decision = "discard"
  /\ r.at = "load" /\ Current(S, r.tok) => ~S.dirty
  /\ r.at = "write" /\ r.reply.kind = "ok" => r.reply.snap.text = r.saved
  /\ r.at = "refresh" => r.base.text = r.saved

TidyCall(r) ==
  /\ r.at = "acquire" => r.s = 0
  /\ OnSession(r) =>
       /\ Tidy(r, sess[r.w][r.s])
       /\ r.at = "leave" /\ r.decision # "discard" /\ Resolves(r.w, r.h)
            => Clean(sess[r.w][r.s])

TidyInv == \A c \in Calls : TidyCall(calls[c])

\* A step as UnsavedTextSurvives wants it
Spares ==
  \A w \in Windows : \A s \in LiveSessions(w) :
    Vanishes(w, s) => ByDecision(w, s) \/ sess[w][s].late \/ BySuperseded(w, s)

\* S becomes T: an operation ends or begins, or goes on and a read keeps what
\* it found.
Gentle(S, T) ==
  /\ S.gone => T.gone
  /\ \/ T.op = "none" \/ T.tok > S.tok
     \/ /\ T.op = S.op /\ T.tok = S.tok
        /\ T.op \in Reading => T.dirty = S.dirty /\ T.late = S.late

\* and whoever has found session s of window w clean still does.
Eases(w, s, T) ==
  /\ Gentle(sess[w][s], T)
  /\ Clean(sess[w][s]) => Clean(T) \/ ~(DecidedClean(w, s) \/ Draining(w))

\* The text stays as it is.
Mild(S, T) ==
  /\ T.draft = S.draft /\ T.dirty = S.dirty /\ T.late = S.late
  /\ T.tok >= S.tok /\ Gentle(S, T)

\* The step is one of window w.
Within(w) ==
  \A v \in Windows : v # w => live'[v] = live[v] /\ handle'[v] = handle[v]

\* No handle begins to resolve.
NoneOpens(w) == \A h : Resolves(w, h)' => Resolves(w, h)

\* What call c has done to session x of window w is excepted.
Excused(c, w, x) ==
  /\ calls[c] # Idle /\ calls'[c] # calls[c] /\ calls[c].w = w
  /\ \/ calls[c].s # x /\ sess'[w][x].draft = sess[w][x].draft
     \/ calls[c].s = x /\ calls[c].decision = "discard"

LEMMA TidyGentle ==
  ASSUME NEW S \in Session, NEW T \in Session, Gentle(S, T), NEW r, Tidy(r, S),
         r.tok \in Nat, r.tok <= S.tok,
         r.at \in {"release", "check", "sweep"} => (Clean(S) => Clean(T))
  PROVE  Tidy(r, T)
<1>1. ASSUME r.at \in Reading, Current(T, r.tok)
      PROVE  Current(S, r.tok) /\ T.op = S.op /\ S.op = r.at /\ T.dirty = S.dirty /\ T.late = S.late
  <2>1. T.op # "none" /\ T.tok = r.tok /\ ~T.gone /\ S.tok \in Nat
    BY <1>1 DEF Current, Session
  <2>2. T.op = S.op /\ T.tok = S.tok /\ ~S.gone
    BY <2>1 DEF Gentle
  <2>3. Current(S, r.tok)
    BY <2>1, <2>2 DEF Current
  <2>4. S.op = r.at
    BY <1>1, <2>3 DEF Tidy
  <2> QED
    BY <1>1, <2>1, <2>2, <2>3, <2>4 DEF Gentle
<1>2. r.at \in Reading /\ Current(T, r.tok) => T.op = r.at
  BY <1>1
<1>3. r.at = "reread" /\ r.decision # "discard" /\ Current(T, r.tok) => Clean(T)
  BY <1>1 DEF Tidy, Clean, Reading
<1>4. r.at = "load" /\ Current(T, r.tok) => ~T.dirty
  BY <1>1 DEF Tidy, Reading
<1> QED
  BY <1>2, <1>3, <1>4 DEF Tidy

\* A call that relies on nothing
LEMMA Untied ==
  ASSUME NEW r, r = Idle \/ r.at \in {"retain", "demote", "unload"} \/ r.op = "orphan",
         r.at = "acquire" => r.s = 0
  PROVE  TidyCall(r) /\ TidyCall(r)'
<1>1. ASSUME NEW S PROVE OnSession(r) => Tidy(r, S)
  BY DEF Tidy, OnSession, Saving, Reading
<1>2. OnSession(r) => r.at # "leave"
  BY DEF OnSession
<1> QED
  BY <1>1, <1>2 DEF TidyCall

LEMMA EasesSame ==
  ASSUME NEW w, NEW s, NEW T, T = sess[w][s]
  PROVE  Eases(w, s, T)
BY DEF Eases, Gentle

LEMMA MildEases ==
  ASSUME NEW w, NEW s, NEW T, Mild(sess[w][s], T)
  PROVE  Eases(w, s, T)
BY DEF Eases, Mild, Clean

SessionsEase ==
  \A v \in Windows : \A x \in DOMAIN sess[v] :
    sess'[v][x] \in Session /\ Eases(v, x, sess'[v][x])

LEMMA BecomesEase ==
  ASSUME SessionInv, NEW w, NEW s, NEW T \in Session, Becomes(w, s, T), Eases(w, s, T)
  PROVE  SessionsEase
<1> SUFFICES ASSUME NEW v \in Windows, NEW x \in DOMAIN sess[v]
             PROVE  sess'[v][x] \in Session /\ Eases(v, x, sess'[v][x])
  BY DEF SessionsEase
<1> PICK U : U = sess'[v][x]
  OBVIOUS
<1>1. sess[v][x] \in Session
  BY SessionHere DEF SessionInv
<1>2. CASE v = w /\ x = s
  <2>1. U = T
    BY <1>2, BecomesSets DEF SessionInv
  <2> QED
    BY <1>2, <2>1
<1>3. CASE v # w \/ x # s
  <2>1. U = sess[v][x]
    BY <1>3, BecomesSets DEF SessionInv
  <2>2. Eases(v, x, U)
    BY <2>1, EasesSame
  <2> QED
    BY <1>1, <2>1, <2>2
<1> QED
  BY <1>2, <1>3

LEMMA SameEase ==
  ASSUME SessionInv, UNCHANGED sess
  PROVE  SessionsEase
<1> SUFFICES ASSUME NEW v \in Windows, NEW x \in DOMAIN sess[v]
             PROVE  sess'[v][x] \in Session /\ Eases(v, x, sess'[v][x])
  BY DEF SessionsEase
<1> PICK U : U = sess'[v][x]
  OBVIOUS
<1>1. U \in Session /\ U = sess[v][x]
  BY SessionHere DEF SessionInv
<1>2. Eases(v, x, U)
  BY <1>1, EasesSame
<1> QED
  BY <1>1, <1>2

\* A call that has not moved still finds what it relies on.
LEMMA UnmovedTidy ==
  ASSUME CallsOK, SessionInv, TidyInv, SessionsEase,
         \A v \in Windows : Draining(v) => NoneOpens(v),
         NEW d \in Calls, calls'[d] = calls[d]
  PROVE  TidyCall(calls[d])'
<1> PICK r : r = calls[d]
  OBVIOUS
<1>1. TidyCall(r)
  BY Zenon DEF TidyInv
<1>2. ASSUME OnSession(r)
      PROVE  /\ Tidy(r, sess'[r.w][r.s])
             /\ r.at = "leave" /\ r.decision # "discard" /\ Resolves(r.w, r.h)'
                  => Clean(sess'[r.w][r.s])
  <2> PICK w, s : w = r.w /\ s = r.s
    OBVIOUS
  <2> PICK S, T : S = sess[w][s] /\ T = sess'[w][s]
    BY Zenon
  <2>1. w \in Windows /\ s \in DOMAIN sess[w] /\ S \in Session /\ r.tok \in Nat /\ r.tok <= S.tok
    BY <1>2, SessionOfCall, Zenon DEF Knows
  <2>2. T \in Session /\ Gentle(S, T)
        /\ (Clean(S) => Clean(T) \/ ~(DecidedClean(w, s) \/ Draining(w)))
    BY <2>1 DEF SessionsEase, Eases
  <2>3. r.at \in {"release", "check"} => DecidedClean(w, s)
    BY DEF DecidedClean
  <2>4. r.at \in {"sweep", "leave"} => Draining(w)
    BY DEF Draining
  <2>5. Tidy(r, S) /\ (r.at = "leave" /\ r.decision # "discard" /\ Resolves(w, r.h) => Clean(S))
    BY <1>1, <1>2, Zenon DEF TidyCall
  <2>6. Tidy(r, T)
    BY <2>1, <2>2, <2>3, <2>4, <2>5, TidyGentle
  <2>7. r.at = "leave" /\ Resolves(w, r.h)' => Resolves(w, r.h)
    BY <2>1, <2>4 DEF NoneOpens
  <2> QED
    BY <2>2, <2>4, <2>5, <2>6, <2>7
<1>3. TidyCall(r)'
  BY <1>1, <1>2 DEF TidyCall
<1> QED
  BY <1>3

\* Call c goes on as r and the rest is as it was, as far as others rely on it.
LEMMA TidyPut ==
  ASSUME CallsOK, SessionInv, TidyInv, SessionsEase,
         \A v \in Windows : Draining(v) => NoneOpens(v),
         NEW c \in Calls, NEW r, Put(c, r), TidyCall(r)'
  PROVE  TidyInv'
<1>1. calls'[c] = r /\ \A d \in Calls : d # c => calls'[d] = calls[d]
  BY DEF Put, CallsOK
<1> SUFFICES ASSUME NEW d \in Calls PROVE TidyCall(calls[d])'
  BY DEF TidyInv
<1>2. CASE d = c
  BY <1>1, <1>2 DEF TidyCall
<1>3. CASE d # c
  BY <1>1, <1>3, UnmovedTidy, Zenon
<1> QED
  BY <1>2, <1>3

\* Elsewhere every handle resolves as before.
LEMMA OpensWithin ==
  ASSUME NEW w \in Windows, Within(w), \A v \in Windows : v # w => sess'[v] = sess[v],
         Draining(w) => NoneOpens(w)
  PROVE  \A v \in Windows : Draining(v) => NoneOpens(v)
<1> SUFFICES ASSUME NEW v \in Windows, v # w PROVE NoneOpens(v)
  OBVIOUS
<1>1. sess'[v] = sess[v] /\ live'[v] = live[v] /\ handle'[v] = handle[v]
  BY DEF Within
<1> QED
  BY <1>1 DEF NoneOpens, Resolves

LEMMA LiveKey ==
  ASSUME SessionInv, NEW w \in Windows, NEW x \in LiveSessions(w)
  PROVE  /\ x \in DOMAIN sess[w] /\ sess[w][x] \in Session /\ sess[w][x].key \in Keys
         /\ live[w][sess[w][x].key] = x /\ x # 0
<1>1. PICK k \in Keys : live[w][k] = x /\ x # 0
  BY DEF LiveSessions
<1> QED
  BY <1>1, LiveHere

LEMMA SparesWithin ==
  ASSUME SessionInv, NEW c \in Calls, NEW w \in Windows, Within(w),
         \A v \in Windows : v # w => sess'[v] = sess[v],
         \A x \in LiveSessions(w) : sess[w][x].dirty /\ ~sess[w][x].late =>
            \/ live'[w][sess[w][x].key] = x /\ sess'[w][x].draft = sess[w][x].draft
            \/ Excused(c, w, x)
  PROVE  Spares
<1> SUFFICES ASSUME NEW v \in Windows, NEW x \in LiveSessions(v), Vanishes(v, x),
                    ~sess[v][x].late
             PROVE  ByDecision(v, x) \/ BySuperseded(v, x)
  BY DEF Spares
<1>1. CASE v = w
  <2>1. Excused(c, w, x)
    BY <1>1 DEF Vanishes
  <2> QED
    <3>1. ByDecision(w, x) \/ BySuperseded(w, x)
      <4>1. calls[c].s = x => ByDecision(w, x)
        BY <2>1 DEF Excused, ByDecision
      <4>2. calls[c].s # x => BySuperseded(w, x)
        BY <2>1 DEF Excused, BySuperseded
      <4> QED
        BY <4>1, <4>2
    <3> QED
      BY <1>1, <3>1
<1>2. CASE v # w
  <2>1. sess'[v] = sess[v] /\ live'[v] = live[v]
    BY <1>2 DEF Within
  <2> QED
    BY <2>1, LiveKey DEF Vanishes
<1> QED
  BY <1>1, <1>2

\* The turn of a call of window w on its session s, which stays in the map.
LEMMA SparingTurn ==
  ASSUME CallsOK, SessionInv, TidyInv, NEW c \in Calls, NEW w, NEW s, NEW T \in Session, NEW r,
         Becomes(w, s, T), Put(c, r), Eases(w, s, T), ~Draining(w), Within(w), UNCHANGED live,
         \/ T.draft = sess[w][s].draft
         \/ ~sess[w][s].dirty \/ sess[w][s].late
         \/ Excused(c, w, s),
         TidyCall(r)'
  PROVE  TidyInv' /\ Spares
<1>1. /\ w \in Windows /\ s \in DOMAIN sess[w] /\ sess'[w][s] = T
      /\ \A v \in Windows : \A x \in DOMAIN sess[v] :
            v # w \/ x # s => sess'[v][x] = sess[v][x]
  BY BecomesSets DEF SessionInv, Becomes
<1>2. \A v \in Windows : v # w => sess'[v] = sess[v]
  BY DEF Becomes, SetSession, SessionInv, SessionsOK
<1>3. TidyInv'
  <2>1. SessionsEase
    BY BecomesEase
  <2> QED
    BY <1>1, <1>2, <2>1, OpensWithin, TidyPut
<1>4. ASSUME NEW x \in LiveSessions(w), sess[w][x].dirty, ~sess[w][x].late
      PROVE  \/ live'[w][sess[w][x].key] = x /\ sess'[w][x].draft = sess[w][x].draft
             \/ Excused(c, w, x)
  <2>1. x \in DOMAIN sess[w] /\ live'[w][sess[w][x].key] = x
    BY <1>1, LiveKey
  <2>2. CASE x = s
    BY <1>1, <1>4, <2>1, <2>2
  <2>3. CASE x # s
    BY <1>1, <2>1, <2>3
  <2> QED
    BY <2>2, <2>3
<1> QED
  BY <1>1, <1>2, <1>3, <1>4, SparesWithin

LEMMA MildTurn ==
  ASSUME CallsOK, SessionInv, TidyInv, NEW c \in Calls, NEW w, NEW s, NEW T \in Session, NEW r,
         Becomes(w, s, T), Put(c, r), Mild(sess[w][s], T), ~Draining(w), Within(w),
         UNCHANGED live, TidyCall(r)'
  PROVE  TidyInv' /\ Spares
BY MildEases, SparingTurn DEF Mild

\* Nothing but the call itself
LEMMA PutOnly ==
  ASSUME CallsOK, SessionInv, TidyInv, UNCHANGED <<sess, live, handle>>,
         NEW c \in Calls, NEW r, Put(c, r), TidyCall(r)'
  PROVE  TidyInv' /\ Spares
<1>1. SessionsEase
  BY SameEase
<1>2. \A v \in Windows : NoneOpens(v)
  BY DEF NoneOpens, Resolves
<1>3. TidyInv'
  BY <1>1, <1>2, TidyPut
<1>4. Spares
  BY LiveKey DEF Spares, Vanishes
<1> QED
  BY <1>3, <1>4

LEMMA IdleTidy == TidyCall(Idle) /\ TidyCall(Idle)'
BY DEF TidyCall, OnSession, Idle

LEMMA IdleOnly ==
  ASSUME CallsOK, SessionInv, TidyInv, UNCHANGED <<sess, live, handle>>,
         NEW c \in Calls, Put(c, Idle)
  PROVE  TidyInv' /\ Spares
BY IdleTidy, PutOnly

\* A session only changes, and no call moves.
LEMMA CalmTidy ==
  ASSUME CallsOK, SessionInv, TidyInv, NEW w, NEW s, NEW T \in Session, Becomes(w, s, T),
         Eases(w, s, T), ~Draining(w), UNCHANGED <<live, handle, calls>>
  PROVE  TidyInv' /\ Spares
<1>1. \A v \in Windows : v # w => sess'[v] = sess[v]
  BY DEF Becomes, SetSession, SessionInv, SessionsOK
<1>2. SessionsEase /\ w \in Windows
  BY BecomesEase DEF Becomes
<1>3. \A v \in Windows : Draining(v) => NoneOpens(v)
  BY <1>1, <1>2, OpensWithin DEF Within
<1>4. TidyInv'
  BY <1>2, <1>3, UnmovedTidy DEF TidyInv
<1>5. Spares
  BY LiveKey DEF Spares, Vanishes
<1> QED
  BY <1>4, <1>5

LEMMA LikeMild ==
  ASSUME NEW S \in Session, NEW T, Like(S, T)
  PROVE  Mild(S, T)
BY DEF Mild, Gentle, Like, Session

LEMMA FailMild ==
  ASSUME NEW S \in Session, NEW t, NEW b \in BOOLEAN
  PROVE  LET T == Fail(S, t, b) IN T \in Session /\ Mild(S, T)
<1> PICK T : T = Fail(S, t, b)
  OBVIOUS
<1>1. CASE Current(S, t)
  <2>1. /\ T \in Session /\ T.draft = S.draft /\ T.dirty = S.dirty /\ T.late = S.late
        /\ T.tok = S.tok /\ T.gone = S.gone /\ T.op = "none"
    BY <1>1, Zenon DEF Session, Clear, Fail
  <2> QED
    BY <2>1 DEF Mild, Gentle, Session
<1>2. CASE ~Current(S, t)
  BY <1>2 DEF Fail, Mild, Gentle, Session
<1> QED
  BY <1>1, <1>2

LEMMA BeginMild ==
  ASSUME NEW S \in Session, NEW kind \in {"load", "save", "reread"}
  PROVE  LET T == Begin(S, kind) IN T \in Session /\ Mild(S, T)
<1> PICK T : T = Begin(S, kind)
  OBVIOUS
<1> PICK k \in Nat : k = S.tok + 1
  BY DEF Session
<1>1. T = [S EXCEPT !.op = kind, !.tok = k]
  BY DEF Begin
<1>2. /\ T \in Session /\ T.draft = S.draft /\ T.dirty = S.dirty /\ T.late = S.late
      /\ T.tok = k /\ T.gone = S.gone /\ S.tok \in Nat
  BY <1>1, Zenon DEF Session
<1> QED
  BY <1>2 DEF Mild, Gentle

LEMMA MildThen ==
  ASSUME NEW S \in Session, NEW T \in Session, Like(S, T), NEW U \in Session, Mild(T, U)
  PROVE  Mild(S, U)
BY DEF Mild, Gentle, Like, Session

LEMMA FailTidy ==
  ASSUME CallsOK, SessionInv, TidyInv, NEW c \in Calls, OnSession(calls[c]),
         NEW w, NEW s, w = calls[c].w, s = calls[c].s, NEW b \in BOOLEAN,
         SetSession(w, s, Fail(sess[w][s], calls[c].tok, b)), Put(c, Idle),
         UNCHANGED <<live, handle>>, ~Draining(w)
  PROVE  TidyInv' /\ Spares
<1> PICK T : T = Fail(sess[w][s], calls[c].tok, b)
  BY Zenon
<1>1. w \in Windows /\ s \in DOMAIN sess[w] /\ sess[w][s] \in Session
  BY SessionOfCall, Zenon
<1>2. T \in Session /\ Mild(sess[w][s], T)
  BY <1>1, FailMild, Zenon
<1>3. Becomes(w, s, T) /\ Within(w)
  BY <1>1 DEF Becomes, Within
<1> QED
  BY <1>2, <1>3, IdleTidy, MildTurn

LEMMA CreateWithin ==
  ASSUME SessionInv, NEW w \in Windows, NEW s, NEW S, NEW u, CreateHandle(w, s, S, u),
         UNCHANGED live
  PROVE  Within(w)
BY DEF CreateHandle, Within, SessionInv, HandlesOK

LEMMA JoinTidy ==
  ASSUME CallsOK, SessionInv, TidyInv, NEW c \in Calls, NEW rec, Rec(rec),
         NEW S, Like(sess[rec.w][rec.s], S),
         S.hs = sess[rec.w][rec.s].hs, S.gone = sess[rec.w][rec.s].gone,
         Join(c, rec, S), UNCHANGED live, ~Draining(rec.w)
  PROVE  TidyInv' /\ Spares
<1> PICK w, s : w = rec.w /\ s = rec.s
  OBVIOUS
<1>1. /\ w \in Windows /\ s \in DOMAIN sess[w] /\ rec.consumer \in Consumers \cup {NoConsumer}
      /\ sess[w][s] \in Session
  BY SessionHere DEF Rec, SessionInv
<1>2. CASE CreateHandle(w, s, S, rec.consumer) /\ Put(c, Idle)
  <2>1. PICK T : Becomes(w, s, T) /\ Like(sess[w][s], T)
    BY <1>1, <1>2, CreateHandleDoes, Zenon
  <2>2. Mild(sess[w][s], T) /\ T \in Session /\ Within(w)
    BY <1>1, <1>2, <2>1, LikeMild, CreateWithin DEF Like
  <2> QED
    BY <1>2, <2>1, <2>2, IdleTidy, MildTurn, Zenon
<1>3. CASE ~(CreateHandle(w, s, S, rec.consumer) /\ Put(c, Idle))
  <2> PICK r : r = [rec EXCEPT !.at = "retain", !.reply = Waiting, !.proof = S.proof]
    OBVIOUS
  <2>1. SetSession(w, s, S) /\ Put(c, r) /\ UNCHANGED handle
    BY <1>3 DEF Join
  <2>2. r.at = "retain"
    BY Zenon DEF Rec, Formed, Fields
  <2>3. Mild(sess[w][s], S) /\ S \in Session
    BY <1>1, LikeMild DEF Like
  <2>4. Becomes(w, s, S) /\ Within(w)
    BY <1>1, <2>1 DEF Becomes, Within
  <2>5. TidyCall(r)'
    BY <2>2, Untied
  <2> QED
    BY <2>1, <2>3, <2>4, <2>5, MildTurn
<1> QED
  BY <1>2, <1>3

LEMMA AfterDemoteTidy ==
  ASSUME CallsOK, SessionInv, TidyInv, NEW c \in Calls, NEW rec, Rec(rec),
         NEW S, Like(sess[rec.w][rec.s], S),
         S.hs = sess[rec.w][rec.s].hs, S.gone = sess[rec.w][rec.s].gone,
         AfterDemote(c, rec, S), UNCHANGED live, ~Draining(rec.w)
  PROVE  TidyInv' /\ Spares
<1> PICK w, s : w = rec.w /\ s = rec.s
  OBVIOUS
<1>1. w \in Windows /\ s \in DOMAIN sess[w] /\ sess[w][s] \in Session /\ S \in Session
  BY SessionHere, Zenon DEF Rec, SessionInv, Like
<1>2. CASE rec.op = "open"
  BY <1>2, JoinTidy DEF AfterDemote
<1>3. CASE rec.op # "open"
  <2>1. \E T \in Session : Mild(sess[w][s], T) /\ SetSession(w, s, T)
    <3>1. Mild(sess[w][s], S)
      BY <1>1, LikeMild
    <3>2. CASE rec.op \in {"save", "close"}
      <4> PICK t : t = rec.tok
        OBVIOUS
      <4> PICK b \in BOOLEAN : b = FALSE
        OBVIOUS
      <4> PICK T : T = Fail(S, t, b)
        OBVIOUS
      <4>1. T \in Session /\ Mild(S, T)
        BY <1>1, FailMild
      <4>2. Mild(sess[w][s], T)
        BY <1>1, <4>1, MildThen
      <4>3. SetSession(w, s, T)
        BY <1>3, <3>2 DEF AfterDemote
      <4> QED
        BY <4>1, <4>2, <4>3
    <3>3. CASE rec.op \notin {"save", "close"}
      BY <1>1, <1>3, <3>1, <3>3 DEF AfterDemote
    <3> QED
      BY <3>2, <3>3
  <2>2. PICK T \in Session : Mild(sess[w][s], T) /\ SetSession(w, s, T)
    BY <2>1
  <2>3. Put(c, Idle) /\ UNCHANGED handle
    BY <1>3 DEF AfterDemote
  <2>4. Becomes(w, s, T) /\ Within(w)
    BY <1>1, <2>2, <2>3 DEF Becomes, Within
  <2> QED
    BY <2>2, <2>3, <2>4, IdleTidy, MildTurn, Zenon
<1> QED
  BY <1>2, <1>3

LEMMA DemoteTidy ==
  ASSUME CallsOK, SessionInv, TidyInv, NEW c \in Calls, NEW rec, Rec(rec),
         Demote(c, rec), UNCHANGED live, ~Draining(rec.w)
  PROVE  TidyInv' /\ Spares
<1> PICK w, s : w = rec.w /\ s = rec.s
  OBVIOUS
<1> PICK S : S = sess[w][s]
  OBVIOUS
<1>1. w \in Windows /\ s \in DOMAIN sess[w] /\ S \in Session /\ 0 \in 0..MaxGrants
  BY SessionHere, SessionConstants DEF Rec, SessionInv
<1>2. CASE S.proof = 0 \/ S.hs = {}
  <2> PICK T : T = Demoted([S EXCEPT !.proof = 0])
    BY Zenon
  <2>1. AfterDemote(c, rec, T)
    BY <1>2 DEF Demote
  <2>2. Like(S, T) /\ T.hs = S.hs /\ T.gone = S.gone
    BY <1>1, DemotedLike, Zenon
  <2> QED
    BY <2>1, <2>2, AfterDemoteTidy
<1>3. CASE ~(S.proof = 0 \/ S.hs = {})
  <2> PICK T : T = [S EXCEPT !.proof = 0]
    BY Zenon
  <2> PICK r : r = [rec EXCEPT !.at = "demote", !.reply = Waiting, !.proof = S.proof, !.n = 1]
    OBVIOUS
  <2>1. SetSession(w, s, T) /\ Put(c, r) /\ UNCHANGED handle
    BY <1>3 DEF Demote
  <2>2. Like(S, T)
    BY <1>1, DemotedLike, Zenon
  <2>3. r.at = "demote"
    BY Zenon DEF Rec, Formed, Fields
  <2>4. Mild(S, T) /\ T \in Session
    BY <1>1, <2>2, LikeMild, Zenon DEF Like
  <2>5. Becomes(w, s, T) /\ Within(w)
    BY <1>1, <2>1, Zenon DEF Becomes, Within
  <2>6. TidyCall(r)'
    BY <2>3, Untied
  <2> QED
    BY <2>1, <2>4, <2>5, <2>6, MildTurn
<1> QED
  BY <1>2, <1>3

\* A reload, a discard, the discard of a close
LEMMA RereadTidy ==
  ASSUME CallsOK, SessionInv, TidyInv, NEW c \in Calls, NEW rec, Rec(rec),
         rec.decision = "discard" => rec.todo = {},
         rec.decision # "discard" => Clean(sess[rec.w][rec.s]),
         rec.op = "close" => rec.decision = "discard",
         BeginReread(c, rec), UNCHANGED <<live, handle>>, ~Draining(rec.w)
  PROVE  TidyInv' /\ Spares
<1> PICK w, s : w = rec.w /\ s = rec.s
  OBVIOUS
<1> PICK S : S = sess[w][s]
  OBVIOUS
<1>1. w \in Windows /\ s \in DOMAIN sess[w] /\ S \in Session /\ S.tok \in Nat
  BY SessionHere, Zenon DEF Rec, SessionInv, Session
<1>2. CASE ~Free(S)
  BY <1>2, IdleOnly, Zenon DEF BeginReread
<1>3. CASE Free(S)
  <2> PICK T : T = Begin(S, "reread")
    OBVIOUS
  <2> PICK t \in Nat : t = S.tok + 1
    BY <1>1
  <2> PICK r : r = [rec EXCEPT !.at = "reread", !.reply = Waiting, !.tok = t]
    BY Zenon
  <2>1. SetSession(w, s, T) /\ Put(c, r)
    BY <1>3, Zenon DEF BeginReread
  <2>2. T \in Session /\ Mild(S, T) /\ T.op = "reread"
    <3>1. T.op = "reread"
      BY <1>1 DEF Begin, Session
    <3> QED
      BY <1>1, <3>1, BeginMild, Zenon
  <2>3. /\ r.at = "reread" /\ r.w = w /\ r.s = s /\ r.op = rec.op
        /\ r.decision = rec.decision /\ r.todo = rec.todo
    BY Zenon DEF Rec, Formed, Fields
  <2>4. Becomes(w, s, T) /\ Within(w)
    BY <1>1, <2>1, Zenon DEF Becomes, Within
  <2>5. sess'[w][s] = T
    BY <2>2, <2>4, BecomesSets DEF SessionInv
  <2>6. Tidy(r, T)
    <3>1. rec.decision # "discard" => Clean(T)
      BY <2>2, Zenon DEF Mild, Clean
    <3> QED
      BY <2>2, <2>3, <3>1, Zenon DEF Tidy, Saving
  <2>7. TidyCall(r)'
    BY <2>3, <2>5, <2>6, Zenon DEF TidyCall
  <2> QED
    BY <2>1, <2>2, <2>4, <2>7, MildTurn
<1> QED
  BY <1>2, <1>3

LEMMA SaveTidy ==
  ASSUME CallsOK, SessionInv, TidyInv, NEW c \in Calls, NEW w \in Windows, NEW h,
         NEW op \in {"save", "close"}, Resolves(w, h), BeginSave(c, op, w, h), ~Draining(w)
  PROVE  TidyInv' /\ Spares
<1> PICK s : s = SessionOf(w, h)
  OBVIOUS
<1> PICK S : S = sess[w][s]
  OBVIOUS
<1>1. s \in DOMAIN sess[w] /\ S \in Session
  BY HandleHere
<1> PICK T : T = Begin(S, "save")
  OBVIOUS
<1>2. T \in Session /\ Mild(S, T)
  BY <1>1, BeginMild
<1> PICK t, x, y, z, d : /\ t = T.tok /\ x = T.draft /\ y = T.base /\ z = T.proof
                         /\ d = IF op = "close" THEN "save" ELSE "none"
  OBVIOUS
<1> PICK g : g = IF op = "close" THEN h ELSE 0
  OBVIOUS
<1> PICK new : new = NewCall(op, "renew", w, s, g)
  OBVIOUS
<1> PICK r : r = [new EXCEPT !.tok = t, !.saved = x, !.expected = y, !.proof = z,
                             !.decision = d]
  OBVIOUS
<1>3. SetSession(w, s, T) /\ Put(c, r) /\ UNCHANGED <<live, handle>>
  BY DEF BeginSave
<1>4. Formed(new) /\ new.at = "renew"
  BY NewCallFormed
<1>5. r.at = "renew" /\ r.decision = d
  BY <1>4 DEF Formed, Fields
<1>6. \A U : Tidy(r, U)
  BY <1>5 DEF Tidy, Saving, Reading
<1>7. TidyCall(r)'
  BY <1>5, <1>6 DEF TidyCall
<1>8. Becomes(w, s, T) /\ Within(w)
  BY <1>1, <1>3 DEF Becomes, Within
<1> QED
  BY <1>2, <1>3, <1>7, <1>8, MildTurn

-----------------------------------------------------------------------------
\* Calls that begin, and unsaved text

LEMMA OpenSharedTidy ==
  ASSUME CallsOK, SessionInv, TidyInv, NEW c \in Calls, NEW w \in Windows, NEW k \in Keys,
         NEW mode, NEW u \in Consumers \cup {NoConsumer}, OpenShared(c, w, k, mode, u),
         ~Draining(w)
  PROVE  TidyInv' /\ Spares
<1> PICK s : s = live[w][k]
  OBVIOUS
<1>1. s # 0 /\ UNCHANGED live
  BY DEF OpenShared
<1>2. s \in DOMAIN sess[w] /\ sess[w][s] \in Session
  BY <1>1, LiveHere
<1>3. \E rec : /\ Rec(rec) /\ rec.w = w /\ rec.s = s
               /\ Join(c, rec, sess[w][s]) \/ Demote(c, rec)
  <2> PICK new : new = NewCall("open", "retain", w, s, 0)
    OBVIOUS
  <2> PICK rec : rec = [new EXCEPT !.key = k, !.consumer = u]
    OBVIOUS
  <2>1. Rec(new) /\ new.op = "open" /\ new.w = w /\ new.s = s
    BY <1>2, RecOfNew
  <2>2. Rec(rec) /\ rec.w = w /\ rec.s = s
    <3>1. /\ Formed(rec) /\ rec.op = new.op /\ rec.w = new.w /\ rec.s = new.s
          /\ rec.tok = new.tok /\ rec.key = k /\ rec.consumer = u
      BY <2>1, Zenon DEF Rec, Formed, Fields
    <3> QED
      BY <2>1, <3>1, Zenon DEF Rec
  <2>3. Join(c, rec, sess[w][s]) \/ Demote(c, rec)
    BY DEF OpenShared
  <2> QED
    BY <2>2, <2>3
<1>4. PICK rec : /\ Rec(rec) /\ rec.w = w /\ rec.s = s
                 /\ Join(c, rec, sess[w][s]) \/ Demote(c, rec)
  BY <1>3
<1>5. Like(sess[w][s], sess[w][s])
  BY <1>2, Zenon DEF Like
<1>6. CASE Join(c, rec, sess[w][s])
  BY <1>1, <1>4, <1>5, <1>6, JoinTidy
<1>7. CASE Demote(c, rec)
  BY <1>1, <1>4, <1>7, DemoteTidy
<1> QED
  BY <1>4, <1>6, <1>7

LEMMA TransitionTidy ==
  ASSUME CallsOK, SessionInv, TidyInv, NEW c \in Calls, NEW w \in Windows, NEW k \in Keys,
         TransitionToReadOnly(c, w, k), ~Draining(w)
  PROVE  TidyInv' /\ Spares
<1> PICK s : s = live[w][k]
  OBVIOUS
<1> PICK rec : rec = NewCall("readonly", "demote", w, s, 0)
  OBVIOUS
<1>1. s # 0 /\ UNCHANGED live /\ Demote(c, rec)
  BY DEF TransitionToReadOnly
<1>2. s \in DOMAIN sess[w]
  BY <1>1, LiveHere
<1>3. Rec(rec) /\ rec.w = w
  BY <1>2, RecOfNew
<1> QED
  BY <1>1, <1>3, DemoteTidy

\* A record of a new call with its decision
LEMMA DecidedNew ==
  ASSUME NEW op, NEW at, NEW w, NEW s, NEW h, NEW d
  PROVE  LET R == [NewCall(op, at, w, s, h) EXCEPT !.decision = d]
         IN  /\ R.op = op /\ R.at = at /\ R.w = w /\ R.s = s /\ R.h = h
             /\ R.decision = d /\ R.todo = {} /\ R.reply = Waiting
BY DEF NewCall

LEMMA DiscardTidy ==
  ASSUME CallsOK, SessionInv, TidyInv, NEW c \in Calls, NEW w \in Windows, NEW h,
         Discard(c, w, h), ~Draining(w)
  PROVE  TidyInv' /\ Spares
<1> PICK s : s = SessionOf(w, h)
  OBVIOUS
<1> PICK rec : rec = [NewCall("discard", "reread", w, s, 0) EXCEPT !.decision = "discard"]
  OBVIOUS
<1>1. Resolves(w, h) /\ UNCHANGED <<live, handle>> /\ BeginReread(c, rec)
  BY DEF Discard
<1>2. Rec(rec)
  BY <1>1, HandleHere, RecOfNew, RecDecision
<1>3. rec.decision = "discard" /\ rec.todo = {} /\ rec.w = w
  BY DecidedNew
<1> QED
  BY <1>1, <1>2, <1>3, RereadTidy

LEMMA ReloadTidy ==
  ASSUME CallsOK, SessionInv, TidyInv, NEW c \in Calls, NEW w \in Windows, NEW h, NEW d,
         Reload(c, w, h, d)
  PROVE  TidyInv' /\ Spares
<1> PICK s : s = SessionOf(w, h)
  OBVIOUS
<1> PICK rec : rec = [NewCall("reload", "check", w, s, h) EXCEPT !.decision = d]
  OBVIOUS
<1>1. /\ sess[w][s].dirty => d = "discard"
      /\ UNCHANGED <<sess, live, handle>> /\ Put(c, rec)
  BY DEF Reload
<1>2. /\ rec.at = "check" /\ rec.w = w /\ rec.s = s /\ rec.decision = d /\ rec.todo = {}
  BY DecidedNew
<1>3. Tidy(rec, sess[w][s])
  BY <1>1, <1>2 DEF Tidy, Saving, Reading, Clean
<1>4. TidyCall(rec)'
  BY <1>1, <1>2, <1>3, Zenon DEF TidyCall
<1> QED
  BY <1>1, <1>4, PutOnly

LEMMA CloseCleanTidy ==
  ASSUME CallsOK, SessionInv, TidyInv, NEW c \in Calls, NEW w \in Windows, NEW k \in Keys,
         CloseClean(c, w, k)
  PROVE  TidyInv' /\ Spares
<1> PICK s, hs : s = live[w][k] /\ hs = sess[w][s].hs
  OBVIOUS
<1> PICK new : new = NewCall("clean", "sweep", w, s, 0)
  OBVIOUS
<1> PICK rec : rec = [new EXCEPT !.todo = hs]
  OBVIOUS
<1>1. ~sess[w][s].dirty /\ UNCHANGED <<sess, live, handle>> /\ Put(c, rec)
  BY Zenon DEF CloseClean
<1>2. new.at = "sweep" /\ new.w = w /\ new.s = s /\ new.decision = "none" /\ Formed(new)
  BY NewCallFormed, Zenon DEF NewCall
<1>3. rec.at = "sweep" /\ rec.w = w /\ rec.s = s /\ rec.decision = "none"
  BY <1>2, Zenon DEF Formed, Fields
<1>4. Tidy(rec, sess[w][s])
  BY <1>1, <1>3, Zenon DEF Tidy, Saving, Reading, Clean
<1>5. TidyCall(rec)'
  BY <1>1, <1>3, <1>4 DEF TidyCall
<1> QED
  BY <1>1, <1>5, PutOnly

-----------------------------------------------------------------------------
\* Handles that are dropped, and unsaved text

LEMMA DropOpens ==
  ASSUME SessionInv, NEW w \in Windows, NEW s \in DOMAIN sess[w], NEW hs,
         DropHandles(w, s, hs)
  PROVE  /\ Within(w) /\ NoneOpens(w)
         /\ \A k \in Keys : k # sess[w][s].key => live'[w][k] = live[w][k]
<1> PICK S : S = sess[w][s]
  OBVIOUS
<1> PICK k : k = S.key
  OBVIOUS
<1>1. S \in Session /\ k \in Keys /\ live \in [Windows -> [Keys -> Nat]]
  BY SessionHere DEF SessionInv, Session, LiveOK
<1>2. live' \in {[live EXCEPT ![w][k] = 0], live}
  <2> PICK U : U = [S EXCEPT !.hs = S.hs \ hs]
    OBVIOUS
  <2>1. live' \in {[live EXCEPT ![w][U.key] = 0], live}
    BY DEF DropHandles
  <2>2. U.key = k
    BY <1>1 DEF Session
  <2> QED
    BY <2>1, <2>2
<1>3. /\ \A v \in Windows : v # w => live'[v] = live[v]
      /\ \A x \in Keys : x # k => live'[w][x] = live[w][x]
      /\ \A x \in Keys : live'[w][x] \in {0, live[w][x]}
  BY <1>1, <1>2
<1> PICK p : p = [h \in DOMAIN handle[w] |-> IF h \in hs
                                             THEN [handle[w][h] EXCEPT !.open = FALSE]
                                             ELSE handle[w][h]]
  OBVIOUS
<1>4. handle' = [handle EXCEPT ![w] = p]
  BY DEF DropHandles
<1>5. handle'[w] = p /\ \A v \in Windows : v # w => handle'[v] = handle[v]
  BY <1>4 DEF SessionInv, HandlesOK
<1>6. NoneOpens(w)
  <2> SUFFICES ASSUME NEW h, Resolves(w, h)' PROVE Resolves(w, h)
    BY DEF NoneOpens
  <2>1. /\ h \in DOMAIN p /\ p[h].open /\ live'[w][p[h].key] = p[h].s
        /\ h \in sess'[w][p[h].s].hs
    BY <1>5, Zenon DEF Resolves
  <2>2. h \in DOMAIN handle[w] /\ handle[w] \in Seq(Handle)
    BY <2>1 DEF SessionInv, HandlesOK
  <2>3. handle[w][h] \in Handle
    BY <2>2
  <2>4. h \notin hs
    BY <2>1, <2>2, <2>3 DEF Handle
  <2>5. p[h] = handle[w][h]
    BY <2>2, <2>4
  <2>6. handle[w][h].s \in DOMAIN sess[w] /\ handle[w][h].s # 0 /\ handle[w][h].key \in Keys
    <3>1. handle[w][h].s \in DOMAIN sess[w]
      BY <2>2 DEF SessionInv, HandlesOK
    <3>2. sess[w] \in Seq(Session)
      BY Zenon DEF SessionInv, SessionsOK
    <3> QED
      BY <2>3, <3>1, <3>2 DEF Handle
  <2>7. live[w][handle[w][h].key] = handle[w][h].s
    BY <1>3, <2>1, <2>5, <2>6, Zenon
  <2>8. h \in sess[w][handle[w][h].s].hs
    <3> PICK x : x = handle[w][h].s
      OBVIOUS
    <3>1. sess' = [sess EXCEPT ![w][s] = [[S EXCEPT !.hs = S.hs \ hs] EXCEPT
                       !.gone = [S EXCEPT !.hs = S.hs \ hs].gone
                                  \/ [S EXCEPT !.hs = S.hs \ hs].hs = {}]]
      BY DEF DropHandles, SetSession
    <3>2. sess \in [Windows -> Seq(Session)] /\ sess[w] \in Seq(Session)
      BY DEF SessionInv, SessionsOK
    <3> PICK U : U = [[S EXCEPT !.hs = S.hs \ hs] EXCEPT
                       !.gone = [S EXCEPT !.hs = S.hs \ hs].gone
                                  \/ [S EXCEPT !.hs = S.hs \ hs].hs = {}]
      BY Zenon
    <3>3. sess' = [sess EXCEPT ![w][s] = U]
      BY <3>1
    <3>4. U.hs = S.hs \ hs
      BY <1>1, ZenonT(30) DEF Session
    <3>5. h \in sess'[w][x].hs
      BY <2>1, <2>5
    <3>6. sess'[w] = [sess[w] EXCEPT ![s] = U]
      BY <3>2, <3>3
    <3>7. CASE x = s
      BY <2>6, <3>4, <3>5, <3>6, <3>7, Zenon
    <3>8. CASE x # s
      BY <2>6, <3>5, <3>6, <3>8
    <3> QED
      BY <3>7, <3>8
  <2> QED
    BY <2>1, <2>2, <2>5, <2>7, <2>8, Zenon DEF Resolves
<1> QED
  BY <1>3, <1>5, <1>6 DEF Within

LEMMA RestTidy ==
  ASSUME NEW rec, Rec(rec), NEW T, sess'[rec.w][rec.s] = T, Clean(sess[rec.w][rec.s]) => Clean(T),
         rec.decision = "discard" => rec.todo = {},
         rec.decision # "discard" => Clean(sess[rec.w][rec.s])
  PROVE  TidyCall(Rest(rec))'
<1>1. CASE rec.todo = {}
  BY <1>1, IdleTidy DEF Rest
<1>2. CASE rec.todo # {}
  <2> PICK r : r = [rec EXCEPT !.at = "sweep"]
    OBVIOUS
  <2>1. r = Rest(rec)
    BY <1>2 DEF Rest
  <2>2. /\ r.at = "sweep" /\ r.w = rec.w /\ r.s = rec.s /\ r.decision = rec.decision
        /\ r.todo = rec.todo
    BY DEF Rec, Formed, Fields
  <2>3. r.decision # "discard" /\ Clean(T)
    BY <1>2, <2>2
  <2>4. Tidy(r, T)
    BY <2>2, <2>3 DEF Tidy, Saving, Reading
  <2>5. TidyCall(r)'
    BY <2>2, <2>4 DEF TidyCall
  <2> QED
    BY <2>1, <2>5
<1> QED
  BY <1>1, <1>2

LEMMA DropTidy ==
  ASSUME CallsOK, SessionInv, TidyInv, NEW c \in Calls, NEW rec, Rec(rec),
         DropHandles(rec.w, rec.s, {rec.h}), Put(c, Rest(rec)),
         rec.decision = "discard" => rec.todo = {},
         rec.decision # "discard" => Clean(sess[rec.w][rec.s]),
         \/ /\ calls[c] # Idle /\ calls[c].w = rec.w /\ calls[c].s = rec.s
            /\ calls[c].decision = rec.decision /\ calls[c] # Rest(rec)
         \/ /\ live[rec.w][sess[rec.w][rec.s].key] = rec.s
            /\ ~sess[rec.w][rec.s].dirty
  PROVE  TidyInv' /\ Spares
<1> PICK w, s : w = rec.w /\ s = rec.s
  OBVIOUS
<1> PICK r : r = Rest(rec)
  BY Zenon
<1> PICK S : S = sess[w][s]
  BY Zenon
<1>1. w \in Windows /\ s \in DOMAIN sess[w] /\ S \in Session
  BY SessionHere, Zenon DEF Rec, SessionInv
<1>2. PICK T : Becomes(w, s, T) /\ Like(S, T)
  BY <1>1, DropsDo, Zenon
<1>3. T \in Session /\ Mild(S, T) /\ T.draft = S.draft /\ (Clean(S) => Clean(T))
  BY <1>1, <1>2, LikeMild, Zenon DEF Like, Mild, Clean
<1>4. /\ sess'[w][s] = T
      /\ \A v \in Windows : \A x \in DOMAIN sess[v] :
            v # w \/ x # s => sess'[v][x] = sess[v][x]
  BY <1>2, <1>3, BecomesSets DEF SessionInv
<1>5. \A v \in Windows : v # w => sess'[v] = sess[v]
  BY <1>2, Zenon DEF Becomes, SetSession, SessionInv, SessionsOK
<1>6. /\ Within(w) /\ NoneOpens(w)
      /\ \A k \in Keys : k # S.key => live'[w][k] = live[w][k]
  BY <1>1, DropOpens, Zenon
<1>7. TidyCall(r)'
  BY <1>3, <1>4, RestTidy
<1>8. TidyInv'
  <2>1. Eases(w, s, T)
    BY <1>3, MildEases, Zenon
  <2>2. SessionsEase
    BY <1>2, <1>3, <2>1, BecomesEase, Zenon
  <2>3. \A v \in Windows : Draining(v) => NoneOpens(v)
    BY <1>1, <1>5, <1>6, OpensWithin, Zenon
  <2> QED
    BY <1>7, <2>2, <2>3, TidyPut, Zenon
<1>9. ASSUME NEW x \in LiveSessions(w), sess[w][x].dirty, ~sess[w][x].late
      PROVE  \/ live'[w][sess[w][x].key] = x /\ sess'[w][x].draft = sess[w][x].draft
             \/ Excused(c, w, x)
  <2>1. /\ x \in DOMAIN sess[w] /\ sess[w][x].key \in Keys
        /\ live[w][sess[w][x].key] = x
    BY <1>1, LiveKey, Zenon
  <2>2. sess'[w][x].draft = sess[w][x].draft
    <3>1. CASE x = s
      BY <1>3, <1>4, <3>1, Zenon
    <3>2. CASE x # s
      BY <1>1, <1>4, <2>1, <3>2, Zenon
    <3> QED
      BY <3>1, <3>2, Zenon
  <2>3. CASE live'[w][sess[w][x].key] = x
    BY <2>2, <2>3, Zenon
  <2>4. CASE live'[w][sess[w][x].key] # x
    <3>1. sess[w][x].key = S.key
      BY <1>6, <2>1, <2>4, Zenon
    <3>2. calls'[c] = r
      BY Zenon DEF Put, CallsOK
    <3>3. CASE x = s
      BY <1>9, <3>2, <3>3, Zenon DEF Clean, Excused
    <3>4. CASE x # s
      BY <2>1, <2>2, <3>1, <3>2, <3>4, Zenon DEF Excused
    <3> QED
      BY <3>3, <3>4, Zenon
  <2> QED
    BY <2>3, <2>4, Zenon
<1> QED
  BY <1>1, <1>5, <1>6, <1>8, <1>9, SparesWithin, Zenon

LEMMA ReleaseTidy ==
  ASSUME CallsOK, SessionInv, TidyInv, NEW c \in Calls, NEW rec, Rec(rec), Release(c, rec),
         rec.decision = "discard" => rec.todo = {},
         rec.decision # "discard" /\ Resolves(rec.w, rec.h) => Clean(sess[rec.w][rec.s]),
         \/ /\ calls[c] # Idle /\ calls[c].w = rec.w /\ calls[c].s = rec.s
            /\ calls[c].decision = rec.decision /\ calls[c] # Rest(rec)
         \/ Resolves(rec.w, rec.h) => /\ live[rec.w][sess[rec.w][rec.s].key] = rec.s
                                      /\ ~sess[rec.w][rec.s].dirty
  PROVE  TidyInv' /\ Spares
<1> PICK p : p = sess[rec.w][rec.s].proof
  OBVIOUS
<1>1. CASE ~Resolves(rec.w, rec.h)
  BY <1>1, IdleOnly DEF Release
<1>2. CASE Resolves(rec.w, rec.h) /\ p = 0
  <2>1. DropHandles(rec.w, rec.s, {rec.h}) /\ Put(c, Rest(rec))
    BY <1>2, Zenon DEF Release
  <2> QED
    BY <1>2, <2>1, DropTidy, Zenon
<1>3. CASE Resolves(rec.w, rec.h) /\ p # 0
  <2> PICK r : r = [rec EXCEPT !.at = "release", !.reply = Waiting, !.proof = p]
    BY Zenon
  <2>1. Put(c, r) /\ UNCHANGED <<sess, live, handle>>
    BY <1>3, Zenon DEF Release
  <2>2. /\ r.at = "release" /\ r.w = rec.w /\ r.s = rec.s /\ r.decision = rec.decision
        /\ r.todo = rec.todo
    BY Zenon DEF Rec, Formed, Fields
  <2>3. r.decision # "discard" => Clean(sess[r.w][r.s])
    BY <1>3, <2>2, Zenon
  <2>4. Tidy(r, sess[r.w][r.s])
    BY <2>2, <2>3, Zenon DEF Tidy, Saving, Reading
  <2>5. TidyCall(r)'
    BY <2>1, <2>2, <2>4 DEF TidyCall
  <2> QED
    BY <2>1, <2>5, PutOnly, Zenon
<1> QED
  BY <1>1, <1>2, <1>3, Zenon


LEMMA ReleaseReplyTidy ==
  ASSUME CallsOK, SessionInv, TidyInv, NEW c \in Calls, ReleaseReply(c)
  PROVE  TidyInv' /\ Spares
<1> PICK q : q = calls[c]
  OBVIOUS
<1>1. q.at = "release"
  BY DEF ReleaseReply, Answered
<1>2. OnSession(q) /\ Rec(q) /\ q # Idle
  BY <1>1, LeavingCall DEF OnSession
<1>3. CASE q.reply.kind = "no"
  BY <1>3, IdleOnly, Zenon DEF ReleaseReply
<1>4. CASE q.reply.kind # "no"
  <2>1. DropHandles(q.w, q.s, {q.h}) /\ Put(c, Rest(q))
    BY <1>4 DEF ReleaseReply
  <2>2. Tidy(q, sess[q.w][q.s])
    BY <1>2 DEF TidyInv, TidyCall
  <2>3. q # Rest(q)
    <3>1. q.todo # {} => Rest(q).at = "sweep"
      BY <1>2, Zenon DEF Rest, Rec, Formed, Fields
    <3> QED
      BY <1>1, <1>2, <3>1 DEF Rest
  <2>4. /\ q.decision = "discard" => q.todo = {}
        /\ q.decision # "discard" => Clean(sess[q.w][q.s])
    BY <1>1, <2>2, Zenon DEF Tidy
  <2> QED
    BY <1>2, <2>1, <2>3, <2>4, DropTidy
<1> QED
  BY <1>3, <1>4

LEMMA LeaveTidy ==
  ASSUME CallsOK, SessionInv, TidyInv, NEW c \in Calls, Leave(c)
  PROVE  TidyInv' /\ Spares
<1> PICK q : q = calls[c]
  OBVIOUS
<1>1. q.at = "leave" /\ Release(c, q)
  BY DEF Leave
<1>2. OnSession(q) /\ Rec(q) /\ q # Idle
  BY <1>1, LeavingCall DEF OnSession
<1>3. /\ Tidy(q, sess[q.w][q.s])
      /\ q.decision # "discard" /\ Resolves(q.w, q.h) => Clean(sess[q.w][q.s])
  BY <1>1, <1>2 DEF TidyInv, TidyCall
<1>4. q # Rest(q)
  <2>1. q.todo # {} => Rest(q).at = "sweep"
    BY <1>2 DEF Rest, Rec, Formed, Fields
  <2> QED
    BY <1>1, <1>2, <2>1 DEF Rest
<1>5. q.decision = "discard" => q.todo = {}
  BY <1>1, <1>3 DEF Tidy
<1> QED
  BY <1>1, <1>2, <1>3, <1>4, <1>5, ReleaseTidy

LEMMA SweepTidy ==
  ASSUME CallsOK, SessionInv, TidyInv, NEW c \in Calls, Sweep(c)
  PROVE  TidyInv' /\ Spares
<1> PICK q : q = calls[c]
  OBVIOUS
<1>1. q.at = "sweep"
  BY DEF Sweep
<1>2. PICK h \in q.todo : Release(c, [q EXCEPT !.h = h, !.todo = q.todo \ {h}])
  BY Zenon DEF Sweep
<1> PICK rest : rest = q.todo \ {h}
  OBVIOUS
<1> PICK rec : rec = [q EXCEPT !.h = h, !.todo = rest]
  OBVIOUS
<1>3. OnSession(q) /\ Rec(q) /\ q # Idle
  BY <1>1, LeavingCall DEF OnSession
<1>4. Rec(rec)
  BY <1>3, RecSweep, Zenon
<1>5. /\ rec.w = q.w /\ rec.s = q.s /\ rec.decision = q.decision /\ rec.todo = rest
  BY <1>3, Zenon DEF Rec, Formed, Fields
<1>6. q.decision # "discard" /\ Clean(sess[q.w][q.s])
  <2>1. Tidy(q, sess[q.w][q.s])
    BY <1>3 DEF TidyInv, TidyCall
  <2> QED
    BY <1>1, <1>2, <2>1 DEF Tidy
<1>7. q # Rest(rec)
  <2>1. rest # {} => Rest(rec).todo = rest
    BY <1>4, <1>5 DEF Rest, Rec, Formed, Fields
  <2>2. rest = {} => Rest(rec) = Idle
    BY <1>5 DEF Rest
  <2>3. q.todo # rest
    BY <1>2
  <2> QED
    BY <1>3, <2>1, <2>2, <2>3, Zenon
<1> QED
  BY <1>2, <1>3, <1>4, <1>5, <1>6, <1>7, ReleaseTidy, Zenon

LEMMA ResolvesLive ==
  ASSUME SessionInv, NEW w \in Windows, NEW h, Resolves(w, h)
  PROVE  live[w][sess[w][SessionOf(w, h)].key] = SessionOf(w, h)
<1> PICK s, k : s = SessionOf(w, h) /\ k = handle[w][h].key
  OBVIOUS
<1>1. handle[w] \in Seq(Handle) /\ h \in DOMAIN handle[w] /\ live[w][k] = s
  BY DEF SessionInv, HandlesOK, Resolves, SessionOf
<1>2. k \in Keys /\ s \in DOMAIN sess[w] /\ s # 0
  <2>1. handle[w][h] \in Handle
    BY <1>1
  <2>2. s \in DOMAIN sess[w]
    BY <1>1 DEF SessionInv, HandlesOK, SessionOf
  <2>3. sess[w] \in Seq(Session)
    BY DEF SessionInv, SessionsOK
  <2> QED
    BY <2>1, <2>2, <2>3 DEF Handle
<1> QED
  BY <1>1, <1>2, LiveHere

LEMMA CloseTidy ==
  ASSUME CallsOK, SessionInv, TidyInv, NEW c \in Calls, NEW w \in Windows, NEW h, NEW d,
         Close(c, w, h, d), ~Draining(w)
  PROVE  TidyInv' /\ Spares
<1> PICK s : s = SessionOf(w, h)
  OBVIOUS
<1> PICK rec : rec = [NewCall("close", "release", w, s, h) EXCEPT !.decision = d]
  OBVIOUS
<1>1. /\ calls[c] = Idle /\ Resolves(w, h)
      /\ \/ ~sess[w][s].dirty /\ Release(c, rec)
         \/ BeginSave(c, "close", w, h)
         \/ d = "discard" /\ BeginReread(c, rec) /\ UNCHANGED <<live, handle>>
  BY DEF Close
<1>2. Rec(rec)
  BY <1>1, HandleHere, RecOfNew, RecDecision
<1>3. rec.w = w /\ rec.s = s /\ rec.h = h /\ rec.decision = d /\ rec.todo = {} /\ rec.op = "close"
  BY DecidedNew
<1>4. CASE ~sess[w][s].dirty /\ Release(c, rec)
  <2>1. live[w][sess[w][s].key] = s
    BY <1>1, ResolvesLive
  <2> QED
    BY <1>2, <1>3, <1>4, <2>1, ReleaseTidy DEF Clean
<1>5. CASE BeginSave(c, "close", w, h)
  BY <1>1, <1>5, SaveTidy
<1>6. CASE d = "discard" /\ BeginReread(c, rec) /\ UNCHANGED <<live, handle>>
  BY <1>2, <1>3, <1>6, RereadTidy
<1> QED
  BY <1>1, <1>4, <1>5, <1>6

-----------------------------------------------------------------------------
\* A session that begins, and unsaved text

LEMMA FreshClean ==
  ASSUME FilesOK, NEW k \in Keys, NEW mode \in {"writable", "readonly"},
         NEW proof \in 0..MaxGrants, NEW h \in 1..MaxHandles
  PROVE  Fresh(k, mode, proof, h).op = "load" /\ ~Fresh(k, mode, proof, h).dirty
<1> PICK N : N = [NewSession(k, mode, proof) EXCEPT !.hs = {h}]
  OBVIOUS
<1>1. N \in Session /\ ~N.dirty
  <2> PICK O : O = NewSession(k, mode, proof)
    OBVIOUS
  <2>1. O \in Session /\ ~O.dirty
    BY SessionConstants DEF NewSession, Session
  <2> QED
    BY <2>1 DEF Session
<1> PICK t \in Nat : t = N.tok + 1
  BY <1>1 DEF Session
<1>2. Fresh(k, mode, proof, h) = [N EXCEPT !.op = "load", !.tok = t]
  BY Zenon DEF Fresh, Begin
<1> QED
  BY <1>1, <1>2 DEF Session

LEMMA LoadingTidy ==
  ASSUME CallsOK, SessionInv, TidyInv, NEW c \in Calls, NEW rec, Asks(rec),
         NEW mode \in {"writable", "readonly"}, NEW proof \in 0..MaxGrants,
         StartLoading(c, rec, mode, proof), ~Draining(rec.w),
         \/ calls[c] # Idle /\ calls[c].w = rec.w /\ calls[c].s = 0 /\ calls[c].at # "load"
         \/ live[rec.w][rec.key] = 0
  PROVE  TidyInv' /\ Spares
<1> PICK w, k : w = rec.w /\ k = rec.key
  OBVIOUS
<1> PICK Q, H : Q = sess[w] /\ H = handle[w]
  OBVIOUS
<1>1. /\ w \in Windows /\ k \in Keys
      /\ Q \in Seq(Session) /\ Len(Q) \in Nat /\ DOMAIN Q = 1..Len(Q) /\ Len(H) \in Nat
  BY DEF Asks, SessionInv, SessionsOK, HandlesOK
<1> PICK s \in Nat, h \in Nat : s = Len(Q) + 1 /\ h = Len(H) + 1
  BY <1>1
<1>2. h \in 1..MaxHandles
  BY <1>1, SessionConstants DEF StartLoading
<1> PICK S : S = Fresh(k, mode, proof, h)
  OBVIOUS
<1> PICK x : x = [s |-> s, key |-> k, consumer |-> rec.consumer, open |-> TRUE]
  OBVIOUS
<1> PICK t : t = S.tok
  OBVIOUS
<1> PICK r : r = [rec EXCEPT !.at = "load", !.reply = Waiting, !.s = s, !.h = h, !.tok = t,
                             !.proof = proof]
  OBVIOUS
<1>3. S \in Session /\ S.op = "load" /\ ~S.dirty
  BY <1>1, <1>2, NewSessionDoes, FreshClean DEF SessionInv
<1>4. /\ sess' = [sess EXCEPT ![w] = Append(Q, S)]
      /\ live' = [live EXCEPT ![w][k] = s]
      /\ handle' = [handle EXCEPT ![w] = Append(H, x)]
      /\ Put(c, r)
  BY DEF StartLoading, Fresh
<1>5. r.at = "load" /\ r.w = w /\ r.s = s
  BY DEF Asks, Formed, Fields
<1> PICK q : q = Append(Q, S)
  BY Zenon
<1>6. s \in DOMAIN q /\ q[s] = S /\ \A i \in DOMAIN Q : q[i] = Q[i]
  BY <1>1, <1>3
<1>7. sess'[w] = q /\ \A v \in Windows : v # w => sess'[v] = sess[v]
  BY <1>1, <1>4, Zenon DEF SessionInv, SessionsOK
<1>8. /\ \A v \in Windows : v # w => live'[v] = live[v]
      /\ \A l \in Keys : l # k => live'[w][l] = live[w][l]
      /\ \A v \in Windows : v # w => handle'[v] = handle[v]
  BY <1>1, <1>4 DEF SessionInv, LiveOK, HandlesOK
<1>9. \A v \in Windows : \A i \in DOMAIN sess[v] : sess'[v][i] = sess[v][i]
  BY <1>6, <1>7
<1>10. SessionsEase
  <2> SUFFICES ASSUME NEW v \in Windows, NEW i \in DOMAIN sess[v]
               PROVE  sess'[v][i] \in Session /\ Eases(v, i, sess'[v][i])
    BY Zenon DEF SessionsEase
  <2>1. sess'[v][i] = sess[v][i] /\ sess[v][i] \in Session
    BY <1>9, SessionHere, Zenon DEF SessionInv
  <2> QED
    BY <2>1, EasesSame, Zenon
<1>11. Within(w)
  BY <1>8, Zenon DEF Within
<1>12. TidyCall(r)'
  <2>1. Tidy(r, S)
    BY <1>3, <1>5, Zenon DEF Tidy, Saving, Reading
  <2> QED
    BY <1>5, <1>6, <1>7, <2>1 DEF TidyCall
<1>13. TidyInv'
  <2>1. \A v \in Windows : Draining(v) => NoneOpens(v)
    BY <1>1, <1>7, <1>11, OpensWithin, Zenon
  <2> QED
    BY <1>4, <1>10, <1>12, <2>1, TidyPut, Zenon
<1>14. ASSUME NEW y \in LiveSessions(w)
       PROVE  \/ live'[w][sess[w][y].key] = y /\ sess'[w][y].draft = sess[w][y].draft
              \/ Excused(c, w, y)
  <2>1. /\ y \in DOMAIN sess[w] /\ sess[w][y].key \in Keys /\ live[w][sess[w][y].key] = y
        /\ y # 0
    BY <1>1, LiveKey, Zenon
  <2>2. CASE sess[w][y].key # k
    BY <1>1, <1>8, <1>9, <2>1, <2>2
  <2>3. CASE sess[w][y].key = k
    <3>1. calls[c] # Idle /\ calls[c].w = w /\ calls[c].s = 0 /\ calls[c].at # "load"
      BY <2>1, <2>3, Zenon
    <3>2. calls'[c] = r
      BY <1>4, Zenon DEF Put, CallsOK
    <3>3. sess'[w][y].draft = sess[w][y].draft
      BY <1>1, <1>9, <2>1, Zenon
    <3>4. calls'[c] # calls[c] /\ calls[c].s # y
      BY <1>5, <2>1, <3>1, <3>2, Zenon
    <3> QED
      BY <3>1, <3>3, <3>4, Zenon DEF Excused
  <2> QED
    BY <2>2, <2>3, Zenon
<1> QED
  BY <1>1, <1>7, <1>11, <1>13, <1>14, SparesWithin

LEMMA OpenNewTidy ==
  ASSUME CallsOK, SessionInv, TidyInv, NEW c \in Calls, NEW w \in Windows, NEW k \in Keys,
         NEW mode \in Modes, NEW u \in Consumers \cup {NoConsumer}, OpenNew(c, w, k, mode, u),
         ~Draining(w)
  PROVE  TidyInv' /\ Spares
<1> PICK new : new = NewCall("open", "acquire", w, 0, 0)
  OBVIOUS
<1> PICK r : r = [new EXCEPT !.key = k, !.consumer = u]
  OBVIOUS
<1>1. Formed(new) /\ new.at = "acquire" /\ new.w = w /\ new.s = 0
  BY NewCallFormed DEF NewCall
<1>2. r.at = "acquire" /\ r.w = w /\ r.s = 0 /\ r.key = k
  BY <1>1 DEF Formed, Fields
<1>3. Asks(r)
  BY AsksOfNew, Zenon
<1>4. CASE mode = "writable"
  <2>1. Put(c, r) /\ UNCHANGED <<sess, live, handle>>
    BY <1>4 DEF OpenNew
  <2>2. TidyCall(r)'
    BY <1>2 DEF TidyCall, OnSession
  <2> QED
    BY <2>1, <2>2, PutOnly
<1>5. CASE mode # "writable"
  <2>1. StartLoading(c, r, mode, 0) /\ live[w][k] = 0
    BY <1>5 DEF OpenNew
  <2>2. 0 \in 0..MaxGrants /\ mode \in {"writable", "readonly"}
    BY SessionBounds
  <2> QED
    BY <1>2, <1>3, <2>1, <2>2, LoadingTidy, Zenon
<1> QED
  BY <1>4, <1>5

LEMMA AcquireReplyTidy ==
  ASSUME CallsOK, SessionInv, TidyInv, NEW c \in Calls, AcquireReply(c), ~Draining(calls[c].w)
  PROVE  TidyInv' /\ Spares
<1> PICK q : q = calls[c]
  OBVIOUS
<1>1. q.at = "acquire" /\ q # Idle
  BY DEF AcquireReply, Answered, Idle
<1>2. Formed(q) /\ CallTyped(q, texts) /\ q.s = 0
  BY <1>1, CallHere DEF TidyInv, TidyCall
<1>3. Asks(q)
  BY <1>1, <1>2 DEF CallTyped, Asks
<1>4. CASE q.reply.kind = "ok"
  <2>1. q.reply.proof \in 0..MaxGrants
    BY <1>1, <1>2, <1>4 DEF CallTyped
  <2>2. StartLoading(c, q, "writable", q.reply.proof)
    BY <1>4 DEF AcquireReply
  <2> QED
    BY <1>1, <1>2, <1>3, <2>1, <2>2, LoadingTidy
<1>5. CASE q.reply.kind # "ok"
  BY <1>5, IdleOnly DEF AcquireReply
<1> QED
  BY <1>4, <1>5

-----------------------------------------------------------------------------
\* Answers, and unsaved text

LEMMA HydrateCourse ==
  ASSUME NEW S \in Session, NEW d \in Snap, NEW n \in Nat, SessionGood(S, d, n),
         NEW t, NEW saved, NEW snap \in Snap, Seen(snap, d, n),
         Current(S, t) => Upto(S.base, snap),
         NEW keep \in BOOLEAN, keep => S.base # NoBase,
         NEW T, T = Hydrate(S, t, saved, snap, keep)
  PROVE  T \in Session /\ Course(S, T, d, n) /\ T.hs = S.hs
BY HydrateDoes DEF Course

LEMMA HydrateText ==
  ASSUME NEW S \in Session, NEW snap \in Snap, NEW t, NEW saved, NEW keep \in BOOLEAN,
         NEW T, T = Hydrate(S, t, saved, snap, keep)
  PROVE  /\ Gentle(S, T)
         /\ ~keep /\ Current(S, t) => ~T.dirty
         /\ ~Current(S, t) => T = S
         /\ keep /\ snap.text = saved => T.draft = S.draft
         /\ S.dirty /\ S.late => Clean(T)
<1>1. CASE ~Current(S, t)
  BY <1>1 DEF Hydrate, Gentle, Clean
<1>2. CASE Current(S, t)
  <2> PICK x : x = IF keep /\ S.draft # saved THEN S.draft ELSE snap.text
    OBVIOUS
  <2>1. T = [S EXCEPT !.op = "none", !.base = snap, !.draft = x,
                      !.dirty = (x # snap.text), !.recovery = FALSE,
                      !.late = S.late /\ x # snap.text]
    BY <1>2 DEF Hydrate, Hydrated, Clear, Session
  <2> PICK y \in BOOLEAN, z \in BOOLEAN : y = (x # snap.text) /\ z = (S.late /\ x # snap.text)
    OBVIOUS
  <2>2. T = [S EXCEPT !.op = "none", !.base = snap, !.draft = x,
                      !.dirty = y, !.recovery = FALSE, !.late = z]
    BY <2>1
  <2>3. T.op = "none" /\ T.gone = S.gone /\ T.draft = x /\ T.dirty = y /\ T.late = z
    BY <2>2 DEF Session
  <2>4. ~keep => ~y
    OBVIOUS
  <2>5. keep /\ snap.text = saved => x = S.draft
    OBVIOUS
  <2>6. S.dirty /\ S.late => (y => z)
    OBVIOUS
  <2> QED
    BY <1>2, <2>3, <2>4, <2>5, <2>6 DEF Gentle, Clean
<1> QED
  BY <1>1, <1>2

LEMMA AnsweredCall ==
  ASSUME CallsOK, SessionInv, TidyInv, NEW c \in Calls, calls[c].at \in Steps,
         calls[c].at \notin {"acquire", "write"} \/ (calls[c].at = "write" /\ calls[c].op # "orphan")
  PROVE  /\ OnSession(calls[c]) /\ calls[c] # Idle
         /\ Tidy(calls[c], sess[calls[c].w][calls[c].s])
<1>1. calls[c] # Idle
  BY DEF Idle, Steps
<1>2. OnSession(calls[c])
  BY <1>1, CallHere DEF OnSession, CallTyped
<1> QED
  BY <1>1, <1>2 DEF TidyInv, TidyCall

LEMMA RetainReplyTidy ==
  ASSUME CallsOK, SessionInv, TidyInv, NEW c \in Calls, RetainReply(c), ~Draining(calls[c].w)
  PROVE  TidyInv' /\ Spares
<1> PICK q, w, s : q = calls[c] /\ w = q.w /\ s = q.s
  OBVIOUS
<1> PICK S : S = sess[w][s]
  OBVIOUS
<1>1. q.at = "retain" /\ OnSession(q)
  <2>1. q.at = "retain"
    BY DEF RetainReply, Answered
  <2> QED
    BY <2>1, AnsweredCall, Zenon DEF Steps
<1>2. /\ w \in Windows /\ s \in DOMAIN sess[w] /\ q.consumer \in Consumers \cup {NoConsumer}
      /\ Knows(q, S, disk, texts) /\ S \in Session
  BY <1>1, SessionOfCall, Zenon DEF CallTyped
<1>3. UNCHANGED live /\ Put(c, Idle)
  BY DEF RetainReply
<1>4. CASE q.reply.kind = "ok"
  <2> PICK u \in Consumers \cup {NoConsumer} : u = q.consumer
    BY <1>2
  <2>1. \E U : /\ Like(sess[w][s], U) /\ U.hs = sess[w][s].hs /\ U.gone = sess[w][s].gone
               /\ CreateHandle(w, s, U, u)
    <3> PICK p \in 0..MaxGrants : p = q.proof
      BY <1>1, <1>2 DEF Knows
    <3> PICK U : U = [S EXCEPT !.proof = p]
      OBVIOUS
    <3>1. CreateHandle(w, s, U, u)
      BY <1>4, Zenon DEF RetainReply
    <3>2. /\ Like(sess[w][s], U) /\ U.hs = sess[w][s].hs /\ U.gone = sess[w][s].gone
      <4>1. S \in Session /\ S = sess[w][s]
        BY <1>2, Zenon
      <4>2. Like(S, U) /\ U.hs = S.hs /\ U.gone = S.gone
        BY <4>1, ProofGiven
      <4> QED
        BY <4>1, <4>2, Zenon
    <3> QED
      BY <3>1, <3>2, Zenon
  <2>2. PICK T : Becomes(w, s, T) /\ Like(sess[w][s], T)
    BY <1>2, <2>1, CreateHandleDoes, Zenon
  <2>3. Mild(sess[w][s], T) /\ T \in Session
    BY <1>2, <2>2, LikeMild, Zenon DEF Like
  <2>4. Within(w)
    BY <1>2, <1>3, <2>1, CreateWithin
  <2> QED
    BY <1>3, <2>2, <2>3, <2>4, IdleTidy, MildTurn
<1>5. CASE q.reply.kind # "ok"
  BY <1>3, <1>5, IdleOnly DEF RetainReply
<1> QED
  BY <1>4, <1>5

LEMMA LoadReplyTidy ==
  ASSUME CallsOK, SessionInv, TidyInv, NEW c \in Calls, LoadReply(c), ~Draining(calls[c].w)
  PROVE  TidyInv' /\ Spares
<1> PICK q, w, s : q = calls[c] /\ w = q.w /\ s = q.s
  OBVIOUS
<1> PICK S : S = sess[w][s]
  OBVIOUS
<1>1. q.at = "load" /\ OnSession(q) /\ q # Idle /\ Tidy(q, S)
  <2>1. q.at = "load"
    BY Zenon DEF LoadReply, Answered
  <2> QED
    BY <2>1, AnsweredCall, Zenon DEF Steps
<1>2. /\ Formed(q) /\ Knows(q, S, disk, texts) /\ w \in Windows /\ s \in DOMAIN sess[w]
      /\ S \in Session /\ SessionGood(S, disk, texts)
  BY <1>1, SessionOfCall
<1>3. CASE ~Current(S, q.tok)
  BY <1>3, IdleOnly, Zenon DEF LoadReply
<1>4. CASE Current(S, q.tok) /\ q.reply.kind = "ok"
  <2> PICK b \in BOOLEAN : b = FALSE
    BY Zenon
  <2> PICK T : T = Hydrate(S, q.tok, q.saved, q.reply.snap, b)
    OBVIOUS
  <2>1. SetSession(w, s, T) /\ Put(c, Idle) /\ UNCHANGED <<live, handle>>
    BY <1>4, Zenon DEF LoadReply, Hydrate
  <2>2. Brings(q, S, q.reply.snap, disk, texts)
    BY <1>1, <1>2, <1>4, Zenon DEF Knows, Reading
  <2>3. T \in Session
    <3>1. disk \in Snap /\ texts \in Nat
      BY FilesTyped, Zenon
    <3>2. /\ q.reply.snap \in Snap /\ Seen(q.reply.snap, disk, texts)
          /\ Current(S, q.tok) => Upto(S.base, q.reply.snap)
      BY <2>2, Zenon DEF Brings
    <3>3. S \in Session /\ SessionGood(S, disk, texts)
      BY <1>2, Zenon
    <3> QED
      BY <3>1, <3>2, <3>3, HydrateCourse
  <2>4. Gentle(S, T) /\ ~T.dirty
    <3>1. q.reply.snap \in Snap
      BY <2>2, Zenon DEF Brings
    <3>2. Gentle(S, T) /\ (~b /\ Current(S, q.tok) => ~T.dirty)
      <4>1. S \in Session
        BY <1>2, ZenonT(30)
      <4> QED
        BY <3>1, <4>1, HydrateText
    <3> QED
      BY <1>4, <3>2, Zenon
  <2>5. Eases(w, s, T)
    BY <2>4 DEF Eases, Clean
  <2>6. ~S.dirty
    BY <1>1, <1>4, Zenon DEF Tidy
  <2>7. Becomes(w, s, T) /\ Within(w)
    BY <1>2, <2>1, Zenon DEF Becomes, Within
  <2> QED
    BY <2>1, <2>3, <2>5, <2>6, <2>7, IdleTidy, SparingTurn
<1>5. CASE Current(S, q.tok) /\ q.reply.kind # "ok"
  <2> PICK r : r = IF q.proof = 0 THEN Idle ELSE [q EXCEPT !.at = "unload", !.reply = Waiting]
    OBVIOUS
  <2>1. /\ handle' = [handle EXCEPT ![w][q.h].open = FALSE]
        /\ live' = [live EXCEPT ![w][q.key] = 0] /\ Put(c, r) /\ UNCHANGED sess
    BY <1>5, Zenon DEF LoadReply, Await
  <2>2. r = Idle \/ r.at = "unload"
    BY <1>2 DEF Formed, Fields
  <2>3. TidyCall(r)'
    BY <2>2, IdleTidy, Untied, Zenon
  <2>4. /\ Within(w)
        /\ \A k \in Keys : k # q.key => live'[w][k] = live[w][k]
    BY <1>2, <2>1, ZenonT(30) DEF Within, SessionInv, LiveOK, HandlesOK
  <2>5. TidyInv'
    <3>1. \A v \in Windows : Draining(v) => NoneOpens(v)
      BY <1>2, <2>1, <2>4, OpensWithin, Zenon
    <3> QED
      BY <2>1, <2>3, <3>1, SameEase, TidyPut, Zenon
  <2>6. ASSUME NEW x \in LiveSessions(w), sess[w][x].dirty
        PROVE  \/ live'[w][sess[w][x].key] = x /\ sess'[w][x].draft = sess[w][x].draft
               \/ Excused(c, w, x)
    <3>1. sess[w][x].key \in Keys /\ live[w][sess[w][x].key] = x
      BY <1>2, LiveKey, Zenon
    <3>2. x # s
      BY <1>1, <1>5, <2>6, Zenon DEF Tidy
    <3>3. calls'[c] # q
      BY <1>1, <2>1, <2>2 DEF Put, CallsOK
    <3> QED
      BY <1>1, <2>1, <3>2, <3>3, Zenon DEF Excused
  <2> QED
    BY <1>2, <2>1, <2>4, <2>5, <2>6, SparesWithin, Zenon
<1> QED
  BY <1>3, <1>4, <1>5

LEMMA RenewReplyTidy ==
  ASSUME CallsOK, SessionInv, TidyInv, NEW c \in Calls, RenewReply(c), ~Draining(calls[c].w)
  PROVE  TidyInv' /\ Spares
<1> PICK q, w, s : q = calls[c] /\ w = q.w /\ s = q.s
  OBVIOUS
<1>1. q.at = "renew" /\ OnSession(q) /\ Tidy(q, sess[w][s])
  <2>1. q.at = "renew"
    BY DEF RenewReply, Answered
  <2> QED
    BY <2>1, AnsweredCall DEF Steps
<1>2. CASE q.reply.kind = "ok"
  <2> PICK r : r = [q EXCEPT !.at = "revalidate", !.reply = Waiting]
    OBVIOUS
  <2>1. Put(c, r) /\ UNCHANGED <<sess, live, handle>>
    BY <1>2, Zenon DEF RenewReply, Await
  <2>2. r.at = "revalidate" /\ r.w = w /\ r.s = s /\ r.decision = q.decision
    BY <1>1, SessionOfCall DEF Formed, Fields
  <2>3. Tidy(r, sess[w][s])
    BY <1>1, <2>2 DEF Tidy, Saving, Reading
  <2>4. TidyCall(r)'
    BY <2>1, <2>2, <2>3, Zenon DEF TidyCall
  <2> QED
    BY <2>1, <2>4, PutOnly
<1>3. CASE q.reply.kind # "ok"
  BY <1>1, <1>3, FailTidy DEF RenewReply
<1> QED
  BY <1>2, <1>3

LEMMA RevalidateReplyTidy ==
  ASSUME CallsOK, SessionInv, TidyInv, NEW c \in Calls, RevalidateReply(c),
         ~Draining(calls[c].w)
  PROVE  TidyInv' /\ Spares
<1> PICK q, w, s : q = calls[c] /\ w = q.w /\ s = q.s
  OBVIOUS
<1> PICK S : S = sess[w][s]
  OBVIOUS
<1>1. q.at = "revalidate" /\ OnSession(q) /\ Tidy(q, S) /\ UNCHANGED live
  <2>1. q.at = "revalidate" /\ UNCHANGED live
    BY Zenon DEF RevalidateReply, Answered
  <2> QED
    BY <2>1, AnsweredCall DEF Steps
<1>2. CASE q.reply.kind = "ok"
  <2> PICK r : r = [[q EXCEPT !.at = "write", !.reply = Waiting] EXCEPT !.base = S.base]
    BY Zenon
  <2>1. Put(c, r) /\ UNCHANGED <<sess, live, handle>>
    BY <1>1, <1>2, Zenon DEF RevalidateReply, Await
  <2>2. /\ r.at = "write" /\ r.w = w /\ r.s = s /\ r.decision = q.decision
        /\ r.reply = Waiting
    BY <1>1, SessionOfCall DEF Formed, Fields
  <2>3. Tidy(r, S)
    BY <1>1, <2>2 DEF Tidy, Saving, Reading, Waiting
  <2>4. TidyCall(r)'
    BY <2>1, <2>2, <2>3 DEF TidyCall
  <2> QED
    BY <2>1, <2>4, PutOnly
<1>3. CASE q.reply.kind = "readonly"
  BY <1>1, <1>3, RecOfCall, DemoteTidy, Zenon DEF RevalidateReply
<1>4. CASE q.reply.kind = "changed"
  BY <1>1, <1>4, FailTidy DEF RevalidateReply
<1>5. CASE q.reply.kind = "thrown"
  BY <1>1, <1>5, IdleOnly DEF RevalidateReply
<1> QED
  BY <1>2, <1>3, <1>4, <1>5 DEF RevalidateReply

LEMMA WriteReplyTidy ==
  ASSUME CallsOK, SessionInv, TidyInv, NEW c \in Calls, WriteReply(c), ~Draining(calls[c].w)
  PROVE  TidyInv' /\ Spares
<1> PICK q, w, s : q = calls[c] /\ w = q.w /\ s = q.s
  OBVIOUS
<1> PICK S : S = sess[w][s]
  OBVIOUS
<1>1. q.at = "write" /\ OnSession(q) /\ Tidy(q, S) /\ q.reply # Waiting /\ UNCHANGED <<live, handle>>
  <2>1. q.at = "write" /\ q.op # "orphan" /\ q.reply # Waiting /\ UNCHANGED <<live, handle>>
    BY Zenon DEF WriteReply, Answered
  <2> QED
    BY <2>1, AnsweredCall DEF Steps
<1>2. Formed(q) /\ CallTyped(q, texts)
  BY <1>1, SessionOfCall, Zenon
<1>3. CASE Current(S, q.tok) /\ q.reply.kind = "ok" /\ S.proof # 0
  <2> PICK r : r = [q EXCEPT !.at = "refresh", !.reply = Waiting, !.base = q.reply.snap,
                             !.proof = S.proof, !.applied = q.reply.applied]
    BY Zenon
  <2>1. Put(c, r) /\ UNCHANGED sess
    <3>1. Put(c, [Await(c, "refresh") EXCEPT !.base = q.reply.snap, !.proof = S.proof,
                                            !.applied = q.reply.applied]) /\ UNCHANGED sess
      BY <1>3, Zenon DEF WriteReply
    <3>2. [Await(c, "refresh") EXCEPT !.base = q.reply.snap, !.proof = S.proof,
                                      !.applied = q.reply.applied] = r
      BY <1>2, Zenon DEF Await, Formed, Fields
    <3> QED
      BY <3>1, <3>2
  <2>2. /\ r.at = "refresh" /\ r.w = w /\ r.s = s /\ r.decision = q.decision
        /\ r.base = q.reply.snap /\ r.saved = q.saved
    BY <1>2, Zenon DEF Formed, Fields
  <2>3. Tidy(r, S)
    BY <1>1, <1>3, <2>2, Zenon DEF Tidy, Saving, Reading
  <2>4. TidyCall(r)'
    BY <2>1, <2>2, <2>3, Zenon DEF TidyCall
  <2> QED
    BY <1>1, <2>1, <2>4, PutOnly
<1>4. CASE ~(Current(S, q.tok) /\ q.reply.kind = "ok" /\ S.proof # 0)
  <2>1. /\ SetSession(w, s, Fail(sess[w][s], q.tok, q.reply.applied)) /\ Put(c, Idle)
        /\ q.reply.applied \in BOOLEAN
    BY <1>1, <1>2, <1>4, Zenon DEF WriteReply, CallTyped
  <2> QED
    BY <1>1, <2>1, FailTidy, Zenon
<1> QED
  BY <1>3, <1>4, Zenon

\* A save is done: its session becomes T, and a close goes on.
Leaving(q) == [q EXCEPT !.at = "leave"]

LEMMA SavedTidy ==
  ASSUME CallsOK, SessionInv, TidyInv, NEW c \in Calls, OnSession(calls[c]),
         calls[c].at = "refresh", NEW w, NEW s, w = calls[c].w, s = calls[c].s, ~Draining(w),
         NEW T \in Session, SetSession(w, s, T), UNCHANGED <<live, handle>>,
         Gentle(sess[w][s], T), T.draft = sess[w][s].draft, T.hs = sess[w][s].hs,
         Clean(sess[w][s]) /\ DecidedClean(w, s) => Clean(T),
         NEW r, Put(c, r),
         r = Idle \/ (r = Leaving(calls[c]) /\ ~(Resolves(w, calls[c].h) /\ T.dirty))
  PROVE  TidyInv' /\ Spares
<1> PICK q : q = calls[c]
  BY Zenon
<1>1. Formed(q) /\ w \in Windows /\ s \in DOMAIN sess[w]
  BY SessionOfCall, Zenon
<1>2. Becomes(w, s, T) /\ Within(w)
  BY <1>1, Zenon DEF Becomes, Within
<1>3. Eases(w, s, T)
  BY Zenon DEF Eases
<1>4. TidyCall(r)'
  <2>1. CASE r = Idle
    BY <2>1, IdleTidy, Zenon
  <2>2. CASE r = Leaving(q) /\ ~(Resolves(w, q.h) /\ T.dirty)
    <3>1. r.at = "leave" /\ r.w = w /\ r.s = s /\ r.h = q.h /\ r.decision = q.decision
      BY <1>1, <2>2, Zenon DEF Leaving, Formed, Fields
    <3>2. sess'[w][s] = T
      BY <1>2, BecomesSets DEF SessionInv
    <3>3. \A x \in DOMAIN sess[w] : x # s => sess'[w][x] = sess[w][x]
      BY <1>1, <1>2, BecomesSets DEF SessionInv
    <3>4. Resolves(w, r.h)' => Resolves(w, r.h)
      <4>1. r.h \in DOMAIN handle[w] => handle[w][r.h].s \in DOMAIN sess[w]
        BY <1>1, Zenon DEF SessionInv, HandlesOK
      <4>2. \A x \in DOMAIN sess[w] : sess'[w][x].hs = sess[w][x].hs
        BY <3>2, <3>3, Zenon
      <4> QED
        BY <4>1, <4>2, Zenon DEF Resolves
    <3>5. Resolves(w, r.h)' => Clean(T)
      BY <2>2, <3>1, <3>4, Zenon DEF Clean
    <3>6. Tidy(q, sess[w][s])
      BY Zenon DEF TidyInv, TidyCall
    <3>7. q.decision # "discard"
      BY <3>6, Zenon DEF Tidy, Saving
    <3>8. Tidy(r, T)
      BY <3>1, <3>7 DEF Tidy, Saving, Reading
    <3> QED
      BY <3>1, <3>2, <3>5, <3>8, Zenon DEF TidyCall
  <2> QED
    BY <2>1, <2>2, Zenon
<1> QED
  BY <1>2, <1>3, <1>4, SparingTurn, Zenon

LEMMA RefreshReplyTidy ==
  ASSUME CallsOK, SessionInv, TidyInv, NEW c \in Calls, RefreshReply(c), ~Draining(calls[c].w)
  PROVE  TidyInv' /\ Spares
<1> PICK q, w, s : q = calls[c] /\ w = q.w /\ s = q.s
  OBVIOUS
<1> PICK S : S = sess[w][s]
  OBVIOUS
<1>1. q.at = "refresh" /\ OnSession(q) /\ Tidy(q, S) /\ UNCHANGED <<live, handle>>
  <2>1. q.at = "refresh" /\ UNCHANGED <<live, handle>>
    BY Zenon DEF RefreshReply, Answered
  <2> QED
    BY <2>1, AnsweredCall DEF Steps
<1>2. /\ Formed(q) /\ CallTyped(q, texts) /\ Knows(q, S, disk, texts)
      /\ w \in Windows /\ s \in DOMAIN sess[w] /\ S \in Session /\ SessionGood(S, disk, texts)
  BY <1>1, SessionOfCall, Zenon
<1>3. disk \in Snap /\ texts \in Nat /\ S.base # NoBase /\ Brings(q, S, q.base, disk, texts)
  BY <1>1, <1>2, FilesTyped, Zenon DEF Knows, Saving
<1>4. CASE q.reply.kind # "ok"
  BY <1>1, <1>2, <1>4, FailTidy, Zenon DEF RefreshReply, CallTyped
<1>5. CASE q.reply.kind = "ok"
  <2>1. \E U, r : /\ U = Hydrate(S, q.tok, q.saved, q.base, TRUE)
                  /\ SetSession(w, s, Behind(w, s, U)) /\ Put(c, r)
                  /\ \/ r = Idle
                     \/ r = Leaving(q) /\ ~(Resolves(w, q.h) /\ U.dirty)
    BY <1>5 DEF RefreshReply, Leaving
  <2>2. PICK U, r : /\ U = Hydrate(S, q.tok, q.saved, q.base, TRUE)
                    /\ SetSession(w, s, Behind(w, s, U)) /\ Put(c, r)
                    /\ \/ r = Idle
                       \/ r = Leaving(q) /\ ~(Resolves(w, q.h) /\ U.dirty)
    BY <2>1, Zenon
  <2>3. /\ U \in Session /\ U.hs = S.hs /\ Gentle(S, U) /\ U.draft = S.draft
        /\ S.dirty /\ S.late => Clean(U)
        /\ U.op \in Reading => U = S
    <3>1. q.base \in Snap /\ q.base.text = q.saved /\ Seen(q.base, disk, texts)
          /\ (Current(S, q.tok) => Upto(S.base, q.base))
      BY <1>1, <1>3 DEF Brings, Tidy
    <3> PICK b, t, x : b = q.base /\ t = q.tok /\ x = q.saved
      OBVIOUS
    <3>2. \A keep \in BOOLEAN : \A V : V = Hydrate(S, t, x, b, keep) =>
              /\ V \in Session /\ V.hs = S.hs /\ Gentle(S, V) /\ (keep => V.draft = S.draft)
              /\ S.dirty /\ S.late => Clean(V)
      <4> SUFFICES ASSUME NEW keep \in BOOLEAN, NEW V, V = Hydrate(S, t, x, b, keep)
                   PROVE  /\ V \in Session /\ V.hs = S.hs /\ Gentle(S, V)
                          /\ keep => V.draft = S.draft
                          /\ S.dirty /\ S.late => Clean(V)
        BY Zenon
      <4>1. Course(S, V, disk, texts) /\ V.hs = S.hs
        <5>1. Seen(b, disk, texts) /\ (Current(S, t) => Upto(S.base, b)) /\ b \in Snap
          BY <3>1, Zenon
        <5>2. keep => S.base # NoBase
          BY <1>3, Zenon
        <5>3. S \in Session /\ SessionGood(S, disk, texts) /\ disk \in Snap /\ texts \in Nat
          BY <1>2, <1>3, ZenonT(30)
        <5> QED
          BY <5>1, <5>2, <5>3, HydrateCourse
      <4>2. Gentle(S, V) /\ (keep => V.draft = S.draft) /\ (S.dirty /\ S.late => Clean(V))
        BY <1>2, <3>1, HydrateText
      <4> QED
        BY <4>1, <4>2, Zenon DEF Course
    <3>3. U = Hydrate(S, t, x, b, TRUE)
      BY <2>2, Zenon
    <3>4. U.op \in Reading => U = S
      <4>1. Current(S, t) => U.op = "none"
        BY <1>2, <3>3, Zenon DEF Hydrate, Hydrated, Clear, Session
      <4> QED
        BY <3>3, <4>1, Zenon DEF Hydrate, Reading
    <3> QED
      BY <3>2, <3>3, <3>4, Zenon
  <2>4. \E b \in BOOLEAN : /\ SetSession(w, s, Marked(U, b))
                           /\ b <=> U.late \/ (U.dirty /\ ~S.dirty /\ DecidedClean(w, s))
    <3> PICK b \in BOOLEAN : b = (U.late \/ (U.dirty /\ ~sess[w][s].dirty /\ DecidedClean(w, s)))
      BY Zenon
    <3>1. Marked(U, b) = Behind(w, s, U)
      BY DEF Marked, Behind
    <3> QED
      BY <2>2, <3>1, Zenon
  <2>5. \E T \in Session : /\ SetSession(w, s, T) /\ Gentle(S, T) /\ T.draft = S.draft
                           /\ T.hs = S.hs /\ T.dirty = U.dirty
                           /\ Clean(S) /\ DecidedClean(w, s) => Clean(T)
    <3>1. PICK b \in BOOLEAN : /\ SetSession(w, s, Marked(U, b))
                               /\ b <=> U.late \/ (U.dirty /\ ~S.dirty /\ DecidedClean(w, s))
      BY <2>4
    <3> PICK T : T = Marked(U, b)
      BY Zenon
    <3>2. /\ T \in Session /\ T.hs = U.hs /\ T.gone = U.gone /\ T.op = U.op /\ T.tok = U.tok
          /\ T.draft = U.draft /\ T.dirty = U.dirty /\ T.late = b
      BY <2>3, MarkedFields
    <3>3. Gentle(S, T)
      <4>1. CASE U.op \in Reading
        <5>1. U = S /\ S.late \in BOOLEAN
          BY <1>2, <2>3, <4>1, Zenon DEF Session
        <5>2. b <=> S.late
          BY <3>1, <5>1, Zenon
        <5>3. T.late = S.late
          BY <3>2, <5>1, <5>2, Zenon
        <5> QED
          BY <3>2, <5>1, <5>3, Zenon DEF Gentle
      <4>2. CASE U.op \notin Reading
        BY <2>3, <3>2, <4>2, Zenon DEF Gentle
      <4> QED
        BY <4>1, <4>2
    <3>4. Clean(S) /\ DecidedClean(w, s) => Clean(T)
      BY <2>3, <3>1, <3>2, ZenonT(30) DEF Clean
    <3> QED
      BY <2>3, <3>1, <3>2, <3>3, <3>4, Zenon
  <2>6. PICK T \in Session : /\ SetSession(w, s, T) /\ Gentle(S, T) /\ T.draft = S.draft
                             /\ T.hs = S.hs /\ T.dirty = U.dirty
                             /\ Clean(S) /\ DecidedClean(w, s) => Clean(T)
    BY <2>5
  <2>7. Put(c, r) /\ (r = Idle \/ (r = Leaving(q) /\ ~(Resolves(w, q.h) /\ T.dirty)))
    BY <2>2, <2>6, Zenon
  <2> QED
    BY <1>1, <2>6, <2>7, SavedTidy, ZenonT(30)
<1> QED
  BY <1>4, <1>5

LEMMA CheckReplyTidy ==
  ASSUME CallsOK, SessionInv, TidyInv, NEW c \in Calls, CheckReply(c), ~Draining(calls[c].w)
  PROVE  TidyInv' /\ Spares
<1> PICK q : q = calls[c]
  OBVIOUS
<1>1. q.at = "check" /\ OnSession(q) /\ Tidy(q, sess[q.w][q.s]) /\ UNCHANGED live
  <2>1. q.at = "check" /\ UNCHANGED live
    BY Zenon DEF CheckReply, Answered
  <2> QED
    BY <2>1, AnsweredCall DEF Steps
<1>2. Rec(q) /\ q.op = "reload"
  BY <1>1, RecOfCall, SessionOfCall DEF CallTyped
<1>3. CASE q.reply.kind = "ok" /\ Resolves(q.w, q.h)
  <2>1. BeginReread(c, q) /\ UNCHANGED handle
    BY <1>3 DEF CheckReply
  <2>2. /\ q.decision = "discard" => q.todo = {}
        /\ q.decision # "discard" => Clean(sess[q.w][q.s])
    BY <1>1 DEF Tidy
  <2> QED
    BY <1>1, <1>2, <2>1, <2>2, RereadTidy
<1>4. CASE q.reply.kind = "readonly"
  BY <1>1, <1>2, <1>4, DemoteTidy DEF CheckReply
<1>5. CASE ~(q.reply.kind = "ok" /\ Resolves(q.w, q.h)) /\ q.reply.kind # "readonly"
  BY <1>1, <1>5, IdleOnly DEF CheckReply
<1> QED
  BY <1>3, <1>4, <1>5

LEMMA RereadReplyTidy ==
  ASSUME CallsOK, SessionInv, TidyInv, NEW c \in Calls, RereadReply(c), ~Draining(calls[c].w)
  PROVE  TidyInv' /\ Spares
<1> PICK q, w, s : q = calls[c] /\ w = q.w /\ s = q.s
  OBVIOUS
<1> PICK S : S = sess[w][s]
  OBVIOUS
<1>1. /\ q.at = "reread" /\ OnSession(q) /\ q # Idle /\ Tidy(q, S)
      /\ UNCHANGED <<live, handle>>
  <2>1. q.at = "reread" /\ UNCHANGED <<live, handle>>
    BY Zenon DEF RereadReply, Answered
  <2> QED
    BY <2>1, AnsweredCall, Zenon DEF Steps
<1>2. /\ Formed(q) /\ Knows(q, S, disk, texts) /\ w \in Windows /\ s \in DOMAIN sess[w]
      /\ S \in Session /\ SessionGood(S, disk, texts)
  BY <1>1, SessionOfCall, Zenon
<1>3. CASE q.reply.kind # "ok"
  <2> PICK b \in BOOLEAN : b = FALSE
    OBVIOUS
  <2>1. SetSession(w, s, Fail(sess[w][s], q.tok, b)) /\ Put(c, Idle)
    BY <1>3, Zenon DEF RereadReply
  <2> QED
    BY <1>1, <2>1, FailTidy
<1>4. CASE q.reply.kind = "ok"
  <2> PICK b \in BOOLEAN : b = FALSE
    OBVIOUS
  <2> PICK T : T = Hydrate(S, q.tok, 0, q.reply.snap, b)
    BY Zenon
  <2>1. SetSession(w, s, T)
    BY <1>4 DEF RereadReply
  <2>2. PICK r : /\ Put(c, r)
                 /\ r = IF q.op = "close" THEN [q EXCEPT !.at = "leave"] ELSE Idle
    BY <1>4, Zenon DEF RereadReply
  <2>3. Brings(q, S, q.reply.snap, disk, texts)
    BY <1>1, <1>2, <1>4, Zenon DEF Knows, Reading
  <2>4. T \in Session
    <3>1. disk \in Snap /\ texts \in Nat
      BY FilesTyped, Zenon
    <3>2. /\ q.reply.snap \in Snap /\ Seen(q.reply.snap, disk, texts)
          /\ Current(S, q.tok) => Upto(S.base, q.reply.snap)
      BY <2>3, Zenon DEF Brings
    <3>3. S \in Session /\ SessionGood(S, disk, texts)
      BY <1>2, ZenonT(30)
    <3> QED
      BY <3>1, <3>2, <3>3, HydrateCourse
  <2>5. Gentle(S, T) /\ (Current(S, q.tok) => ~T.dirty) /\ (~Current(S, q.tok) => T = S)
    BY <1>2, <2>3, HydrateText DEF Brings
  <2>6. Eases(w, s, T)
    BY <2>5, Zenon DEF Eases, Clean
  <2>7. Becomes(w, s, T) /\ Within(w)
    BY <1>1, <1>2, <2>1, ZenonT(30) DEF Becomes, Within
  <2>8. r = Idle \/ (r.at = "leave" /\ r.w = w /\ r.s = s /\ r.decision = q.decision
                     /\ r.todo = q.todo /\ q.op = "close")
    BY <1>2, <2>2 DEF Formed, Fields
  <2>9. TidyCall(r)'
    <3>1. CASE r = Idle
      BY <3>1, IdleTidy
    <3>2. CASE r # Idle
      <4>1. r.decision = "discard" /\ r.todo = {} /\ r.at = "leave" /\ r.w = w /\ r.s = s
        BY <1>1, <2>8, <3>2 DEF Tidy
      <4>2. \A X : Tidy(r, X)
        BY <4>1, Zenon DEF Tidy, Saving, Reading
      <4> QED
        BY <4>1, <4>2, Zenon DEF TidyCall
    <3> QED
      BY <3>1, <3>2
  <2>10. T.draft = S.draft \/ ~S.dirty \/ S.late \/ Excused(c, w, s)
    <3>1. calls'[c] # q
      BY <1>1, <2>2, <2>8 DEF Put, CallsOK
    <3>2. CASE q.decision = "discard"
      BY <1>1, <3>1, <3>2, Zenon DEF Excused
    <3>3. CASE q.decision # "discard"
      BY <1>1, <2>5, <3>3, Zenon DEF Tidy, Clean
    <3> QED
      BY <3>2, <3>3, Zenon
  <2> QED
    BY <1>1, <2>2, <2>4, <2>6, <2>7, <2>9, <2>10, SparingTurn, Zenon
<1> QED
  BY <1>3, <1>4

LEMMA DemoteReplyTidy ==
  ASSUME CallsOK, SessionInv, TidyInv, NEW c \in Calls, DemoteReply(c), ~Draining(calls[c].w)
  PROVE  TidyInv' /\ Spares
<1> PICK q, w, s : q = calls[c] /\ w = q.w /\ s = q.s
  OBVIOUS
<1> PICK S : S = sess[w][s]
  OBVIOUS
<1>1. q.at = "demote" /\ OnSession(q) /\ UNCHANGED live
  <2>1. q.at = "demote" /\ UNCHANGED live
    BY DEF DemoteReply, Answered
  <2> QED
    BY <2>1, AnsweredCall DEF Steps
<1>2. Formed(q) /\ S \in Session
  BY <1>1, SessionOfCall
<1>3. CASE ~q.reply.final /\ q.n < Cardinality(S.hs)
  <2> PICK m : m = q.n + 1
    OBVIOUS
  <2> PICK r : r = [q EXCEPT !.n = m, !.reply = Waiting]
    BY Zenon
  <2>1. Put(c, r) /\ UNCHANGED <<sess, handle>>
    BY <1>3 DEF DemoteReply
  <2>2. r.at = "demote"
    BY <1>1, <1>2 DEF Formed, Fields
  <2>3. TidyCall(r)'
    BY <2>2, Untied, Zenon
  <2> QED
    BY <1>1, <2>1, <2>3, PutOnly
<1>4. CASE ~(~q.reply.final /\ q.n < Cardinality(S.hs))
  <2> PICK T : T = Demoted(S)
    BY Zenon
  <2>1. AfterDemote(c, q, T)
    BY <1>4, Zenon DEF DemoteReply
  <2>2. Like(S, T) /\ T.hs = S.hs /\ T.gone = S.gone
    <3>1. 0 \in 0..MaxGrants
      BY SessionConstants
    <3> QED
      BY <1>2, <3>1, DemotedLike
  <2> QED
    BY <1>1, <2>1, <2>2, AfterDemoteTidy, RecOfCall, Zenon
<1> QED
  BY <1>3, <1>4

\* An answer changes nothing a call relies on, but for the text of a write.
LEMMA ReplyTidy ==
  ASSUME CallsOK, SessionInv, TidyInv, UNCHANGED <<sess, live, handle>>,
         NEW c \in Calls, calls[c] # Idle, NEW x, Reply(c, x),
         calls[c].at = "write" /\ x.kind = "ok" => x.snap.text = calls[c].saved
  PROVE  TidyInv' /\ Spares
<1> PICK q : q = calls[c]
  OBVIOUS
<1> PICK r : r = [q EXCEPT !.reply = x]
  OBVIOUS
<1>1. Put(c, r)
  BY DEF Reply, Put
<1>2. Formed(q)
  BY CallHere
<1>3. /\ r.op = q.op /\ r.at = q.at /\ r.w = q.w /\ r.s = q.s /\ r.h = q.h /\ r.reply = x
      /\ r.tok = q.tok /\ r.saved = q.saved /\ r.base = q.base /\ r.decision = q.decision
      /\ r.todo = q.todo
  BY <1>2 DEF Formed, Fields
<1>4. TidyCall(q)
  BY DEF TidyInv
<1>5. r.at = "acquire" => r.s = 0
  BY <1>3, <1>4, Zenon DEF TidyCall
<1>6. ASSUME OnSession(r)
      PROVE  /\ Tidy(r, sess[r.w][r.s])
             /\ r.at = "leave" /\ r.decision # "discard" /\ Resolves(r.w, r.h)
                  => Clean(sess[r.w][r.s])
  <2> PICK S : S = sess[q.w][q.s]
    OBVIOUS
  <2>1. /\ Tidy(q, S)
        /\ q.at = "leave" /\ q.decision # "discard" /\ Resolves(q.w, q.h) => Clean(S)
    BY <1>3, <1>4, <1>6, Zenon DEF OnSession, TidyCall
  <2>2. Tidy(r, S)
    BY <1>3, <2>1 DEF Tidy
  <2> QED
    BY <1>3, <2>1, <2>2
<1>7. TidyCall(r)
  BY <1>5, <1>6 DEF TidyCall
<1>8. TidyCall(r)'
  BY <1>7, Zenon DEF TidyCall, Resolves
<1> QED
  BY <1>1, <1>8, PutOnly

LEMMA ServeTidy ==
  ASSUME CallsOK, SessionInv, TidyInv, NEW c \in Calls,
         \/ ServeAcquire(c) \/ ServeRetain(c) \/ ServeRenew(c) \/ ServeRefresh(c)
         \/ ServeRelease(c) \/ ServeRead(c) \/ ServeLookup(c)
  PROVE  TidyInv' /\ Spares
<1>1. /\ calls[c].at # "write" /\ calls[c] # Idle /\ UNCHANGED <<sess, live, handle>>
  BY DEF ServeAcquire, ServeRetain, ServeRenew, ServeRefresh, ServeRelease, ServeRead,
         ServeLookup, Asked, Idle
<1>2. PICK x : Reply(c, x)
  BY DEF ServeAcquire, ServeRetain, ServeRenew, ServeRefresh, ServeRelease, ServeRead,
         ServeLookup
<1> QED
  BY <1>1, <1>2, ReplyTidy

\* What a write answers with is the text it was to write.
LEMMA ServeWriteTidy ==
  ASSUME CallsOK, SessionInv, TidyInv, NEW c \in Calls, ServeWrite(c)
  PROVE  TidyInv' /\ Spares
<1> PICK q : q = calls[c]
  OBVIOUS
<1>1. /\ q.at = "write" /\ q # Idle /\ UNCHANGED <<sess, live, handle>>
  BY DEF ServeWrite, Asked, Idle
<1>2. \E x : Reply(c, x) /\ (x.kind = "ok" => x.snap.text = q.saved)
  <2>1. CASE Reply(c, [kind |-> "ok", snap |-> disk, applied |-> FALSE])
             /\ disk.text = q.saved
    <3> PICK x : x = [kind |-> "ok", snap |-> disk, applied |-> FALSE]
      OBVIOUS
    <3>1. Reply(c, x) /\ x.snap.text = q.saved
      BY <2>1
    <3> QED
      BY <3>1
  <2>2. CASE Reply(c, [kind |-> "ok", snap |-> disk', applied |-> TRUE])
             /\ disk' = [text |-> q.saved, phys |-> disk.phys + 1]
    <3> PICK x : x = [kind |-> "ok", snap |-> disk', applied |-> TRUE]
      OBVIOUS
    <3>1. Reply(c, x) /\ x.snap.text = q.saved
      BY <2>2
    <3> QED
      BY <3>1
  <2>3. CASE \/ Reply(c, [kind |-> "unverified", applied |-> TRUE])
             \/ Reply(c, [kind |-> "no", applied |-> FALSE])
    <3>1. PICK kind \in {"no", "unverified"} : \E b : Reply(c, [kind |-> kind, applied |-> b])
      BY <2>3
    <3>2. PICK b : Reply(c, [kind |-> kind, applied |-> b])
      BY <3>1
    <3> PICK x : x = [kind |-> kind, applied |-> b]
      OBVIOUS
    <3>3. Reply(c, x) /\ x.kind # "ok"
      BY <3>2
    <3> QED
      BY <3>3
  <2> QED
    BY <2>1, <2>2, <2>3 DEF ServeWrite
<1>3. PICK x : Reply(c, x) /\ (x.kind = "ok" => x.snap.text = q.saved)
  BY <1>2
<1> QED
  BY <1>1, <1>3, ReplyTidy

LEMMA SpentTidy ==
  ASSUME CallsOK, SessionInv, TidyInv, NEW c \in Calls, UnloadReply(c) \/ Forget(c)
  PROVE  TidyInv' /\ Spares
BY IdleOnly DEF UnloadReply, Forget

LEMMA ConfirmTidy ==
  ASSUME CallsOK, SessionInv, TidyInv, NEW w \in Windows, NEW h,
         ConfirmExternalWrite(w, h), ~Draining(w)
  PROVE  TidyInv' /\ Spares
<1> PICK s : s = SessionOf(w, h)
  OBVIOUS
<1> PICK S : S = sess[w][s]
  OBVIOUS
<1> PICK T : T = [S EXCEPT !.confirmed = TRUE]
  OBVIOUS
<1>1. s \in DOMAIN sess[w] /\ S \in Session /\ UNCHANGED <<live, handle, calls>>
  BY HandleHere DEF ConfirmExternalWrite
<1>2. SetSession(w, s, T)
  BY DEF ConfirmExternalWrite
<1>3. Like(S, T)
  BY <1>1, Zenon DEF Like, Session
<1>4. Eases(w, s, T) /\ T \in Session
  BY <1>1, <1>3, LikeMild, MildEases, Zenon DEF Like
<1>5. Becomes(w, s, T)
  BY <1>1, <1>2 DEF Becomes
<1> QED
  BY <1>1, <1>4, <1>5, CalmTidy

LEMMA CancelTidy ==
  ASSUME CallsOK, SessionInv, TidyInv, NEW w \in Windows, NEW h, Cancel(w, h), ~Draining(w)
  PROVE  TidyInv' /\ Spares
<1> PICK s : s = SessionOf(w, h)
  OBVIOUS
<1> PICK S : S = sess[w][s]
  OBVIOUS
<1> PICK T : T = Clear(S)
  OBVIOUS
<1>1. s \in DOMAIN sess[w] /\ S \in Session /\ UNCHANGED <<live, handle, calls>>
  BY HandleHere DEF Cancel
<1>2. SetSession(w, s, T)
  BY DEF Cancel
<1>3. /\ T \in Session /\ T.op = "none" /\ T.gone = S.gone /\ T.dirty = S.dirty
      /\ T.late = S.late
  BY <1>1 DEF Clear, Session
<1>4. Eases(w, s, T)
  BY <1>3 DEF Eases, Gentle, Clean
<1>5. Becomes(w, s, T)
  BY <1>1, <1>2 DEF Becomes
<1> QED
  BY <1>1, <1>3, <1>4, <1>5, CalmTidy

\* A keystroke behind the back of a close or a reload marks the session late.
LEMMA UpdateDraftTidy ==
  ASSUME CallsOK, SessionInv, TidyInv, NEW w \in Windows, NEW h, UpdateDraft(w, h),
         ~Draining(w)
  PROVE  TidyInv' /\ Spares
<1> PICK s : s = SessionOf(w, h)
  OBVIOUS
<1> PICK S : S = sess[w][s]
  OBVIOUS
<1>1. /\ s \in DOMAIN sess[w] /\ S \in Session /\ SessionGood(S, disk, texts)
      /\ UNCHANGED <<disk, live, handle, calls>>
  BY HandleHere DEF UpdateDraft
<1>2. S.op \notin Reading
  BY DEF UpdateDraft, Reading
<1>3. PICK text \in {texts + 1, S.base.text} \ {S.draft, 0} :
        /\ text <= MaxText
        /\ SetSession(w, s, Behind(w, s, [S EXCEPT !.draft = text,
                                                   !.dirty = (text # S.base.text)]))
  BY Zenon DEF UpdateDraft
<1>4. text \in 0..MaxText
  <2>1. texts \in Nat /\ S.base.text \in Nat
    BY <1>1, SessionConstants, Revisions DEF SessionInv, FilesOK, Session, Revision
  <2> QED
    BY <1>3, <2>1, SessionConstants
<1>5. \E U \in Session, b \in BOOLEAN :
        /\ U.tok = S.tok /\ U.op = S.op /\ U.gone = S.gone
        /\ S.late /\ U.dirty => U.late
        /\ SetSession(w, s, Marked(U, b))
        /\ U.late \/ (U.dirty /\ ~S.dirty /\ DecidedClean(w, s)) => b
  <2> PICK dirty \in BOOLEAN : dirty = (text # S.base.text)
    BY Zenon
  <2> PICK U : U = [S EXCEPT !.draft = text, !.dirty = dirty]
    OBVIOUS
  <2>1. /\ U \in Session /\ U.tok = S.tok /\ U.op = S.op /\ U.gone = S.gone
        /\ U.late = S.late
    BY <1>1, <1>4, ZenonT(30) DEF Session
  <2> PICK b \in BOOLEAN : b = (U.late \/ (U.dirty /\ ~S.dirty /\ DecidedClean(w, s)))
    BY Zenon
  <2>2. SetSession(w, s, Marked(U, b))
    <3>1. U = [S EXCEPT !.draft = text, !.dirty = (text # S.base.text)]
      OBVIOUS
    <3>2. Marked(U, b) = Behind(w, s, U)
      BY Zenon DEF Marked, Behind
    <3> QED
      BY <1>3, <3>1, <3>2
  <2> QED
    BY <2>1, <2>2
<1>6. PICK U \in Session, b \in BOOLEAN :
        /\ U.tok = S.tok /\ U.op = S.op /\ U.gone = S.gone
        /\ S.late /\ U.dirty => U.late
        /\ SetSession(w, s, Marked(U, b))
        /\ U.late \/ (U.dirty /\ ~S.dirty /\ DecidedClean(w, s)) => b
  BY <1>5
<1>7. \E T \in Session : SetSession(w, s, T) /\ Eases(w, s, T)
  <2> PICK T : T = Marked(U, b)
    OBVIOUS
  <2>u. U \in Session
    BY <1>6
  <2>2. /\ T \in Session /\ T.gone = U.gone /\ T.op = U.op /\ T.tok = U.tok
        /\ T.dirty = U.dirty /\ T.late = b
    BY <2>u, MarkedFields
  <2>3. Gentle(S, T)
    BY <1>2, <1>6, <2>2 DEF Gentle
  <2>4. Clean(S) /\ DecidedClean(w, s) => Clean(T)
    BY <1>6, <2>2 DEF Clean
  <2>5. Eases(w, s, T)
    BY <2>3, <2>4 DEF Eases
  <2> QED
    BY <1>6, <2>2, <2>5
<1>8. PICK T \in Session : SetSession(w, s, T) /\ Eases(w, s, T)
  BY <1>7
<1>9. Becomes(w, s, T)
  BY <1>1, <1>8 DEF Becomes
<1> QED
  BY <1>1, <1>8, <1>9, CalmTidy, Zenon

\* The sessions of a destroyed window are gone, the other windows' calls see no
\* difference, and a write still on its way relies on no session.
LEMMA DestroyedTidy ==
  ASSUME CallsOK, SessionInv, TidyInv, NEW w \in Windows, WindowDestroyed(w)
  PROVE  TidyInv' /\ Spares
<1>1. sess'[w] = <<>> /\ \A v \in Windows : v # w => sess'[v] = sess[v]
  BY DEF WindowDestroyed, SessionInv, SessionsOK
<1>2. \A v \in Windows : v # w => live'[v] = live[v] /\ handle'[v] = handle[v]
  BY DEF WindowDestroyed, SessionInv, LiveOK, HandlesOK
<1>3. ASSUME NEW c \in Calls
      PROVE  \/ calls'[c] = calls[c] /\ (calls[c] = Idle \/ calls[c].w # w)
             \/ calls'[c] = Idle
             \/ /\ calls[c].at = "write" /\ calls[c] # Idle
                /\ calls'[c] = [calls[c] EXCEPT !.op = "orphan"]
  BY DEF WindowDestroyed, Asked
<1>4. ASSUME NEW c \in Calls
      PROVE  TidyCall(calls[c])'
  <2> PICK q : q = calls[c]
    OBVIOUS
  <2>1. CASE calls'[c] = Idle
    BY <2>1, IdleTidy, Zenon DEF TidyCall
  <2>2. CASE q.at = "write" /\ q # Idle /\ calls'[c] = [q EXCEPT !.op = "orphan"]
    <3>1. Formed(q)
      BY <2>2, CallHere
    <3> PICK r : r = [q EXCEPT !.op = "orphan"]
      OBVIOUS
    <3>2. r.op = "orphan" /\ r.at = "write"
      BY <2>2, <3>1, Zenon DEF Formed, Fields
    <3>3. TidyCall(r)'
      BY <3>2, Untied
    <3> QED
      BY <2>2, <3>3 DEF TidyCall
  <2>3. CASE calls'[c] = q /\ q # Idle /\ q.w # w
    <3>1. TidyCall(q)
      BY DEF TidyInv
    <3>2. ASSUME OnSession(q)
          PROVE  /\ sess'[q.w] = sess[q.w] /\ live'[q.w] = live[q.w]
                 /\ handle'[q.w] = handle[q.w]
      BY <1>1, <1>2, <2>3, <3>2, SessionOfCall
    <3>3. TidyCall(q)'
      BY <3>1, <3>2, Zenon DEF TidyCall, Resolves
    <3> QED
      BY <2>3, <3>3, Zenon DEF TidyCall
  <2> QED
    BY <1>3, <2>1, <2>2, <2>3
<1>5. Spares
  <2> SUFFICES ASSUME NEW v \in Windows, NEW x \in LiveSessions(v), Vanishes(v, x)
               PROVE  FALSE
    BY DEF Spares
  <2>1. v # w
    BY <1>1 DEF Vanishes
  <2>2. sess'[v] = sess[v] /\ live'[v] = live[v]
    BY <1>1, <1>2, <2>1
  <2> QED
    BY <2>2, LiveKey DEF Vanishes
<1> QED
  BY <1>4, <1>5 DEF TidyInv

\* Neither sessions nor calls move.
LEMMA ApartTidy ==
  ASSUME CallsOK, SessionInv, TidyInv, UNCHANGED <<sess, live, handle, calls>>
  PROVE  TidyInv' /\ Spares
<1>1. SessionsEase
  BY SameEase
<1>2. \A v \in Windows : NoneOpens(v)
  BY DEF NoneOpens, Resolves
<1>3. TidyInv'
  BY <1>1, <1>2, UnmovedTidy DEF TidyInv
<1>4. Spares
  BY LiveKey DEF Spares, Vanishes
<1> QED
  BY <1>3, <1>4

LEMMA StartTidy ==
  ASSUME CallsOK, SessionInv, TidyInv, NEW c \in Calls, Start(c)
  PROVE  TidyInv' /\ Spares
<1>1. PICK w \in {x \in Windows : c \in CallsOf[x] /\ ~Draining(x)} :
        \/ \E k \in Keys : \/ \E mode \in Modes, u \in Consumers \cup {NoConsumer} :
                                 OpenNew(c, w, k, mode, u) \/ OpenShared(c, w, k, mode, u)
                           \/ CloseClean(c, w, k)
                           \/ TransitionToReadOnly(c, w, k)
        \/ \E h \in DOMAIN handle[w] :
              \/ Save(c, w, h) \/ Discard(c, w, h)
              \/ \E decision \in {"none", "discard"} : Reload(c, w, h, decision)
              \/ \E decision \in {"none", "save", "discard"} : Close(c, w, h, decision)
  BY DEF Start
<1>2. w \in Windows /\ ~Draining(w)
  BY <1>1
<1>3. ASSUME NEW k \in Keys, NEW mode \in Modes, NEW u \in Consumers \cup {NoConsumer},
             OpenNew(c, w, k, mode, u) \/ OpenShared(c, w, k, mode, u)
      PROVE  TidyInv' /\ Spares
  BY <1>2, <1>3, OpenNewTidy, OpenSharedTidy
<1>4. ASSUME NEW k \in Keys, CloseClean(c, w, k) \/ TransitionToReadOnly(c, w, k)
      PROVE  TidyInv' /\ Spares
  BY <1>2, <1>4, CloseCleanTidy, TransitionTidy
<1>5. ASSUME NEW h \in DOMAIN handle[w], Save(c, w, h)
      PROVE  TidyInv' /\ Spares
  BY <1>2, <1>5, SaveTidy DEF Save
<1>6. ASSUME NEW h \in DOMAIN handle[w], Discard(c, w, h)
      PROVE  TidyInv' /\ Spares
  BY <1>2, <1>6, DiscardTidy
<1>7. ASSUME NEW h \in DOMAIN handle[w], NEW decision \in {"none", "discard"},
             Reload(c, w, h, decision)
      PROVE  TidyInv' /\ Spares
  BY <1>2, <1>7, ReloadTidy
<1>8. ASSUME NEW h \in DOMAIN handle[w], NEW decision \in {"none", "save", "discard"},
             Close(c, w, h, decision)
      PROVE  TidyInv' /\ Spares
  BY <1>2, <1>8, CloseTidy
<1> QED
  BY <1>1, <1>3, <1>4, <1>5, <1>6, <1>7, <1>8

LEMMA ResumeTidy ==
  ASSUME CallsOK, SessionInv, TidyInv, NEW c \in Calls, Resume(c)
  PROVE  TidyInv' /\ Spares
BY SweepTidy, LeaveTidy, AcquireReplyTidy, RetainReplyTidy, LoadReplyTidy, SpentTidy,
   RenewReplyTidy, RevalidateReplyTidy, WriteReplyTidy, RefreshReplyTidy, CheckReplyTidy,
   RereadReplyTidy, ReleaseReplyTidy, DemoteReplyTidy DEF Resume

LEMMA NextTidy ==
  ASSUME RuntimeInv, SessionInv, TidyInv, Next
  PROVE  TidyInv' /\ Spares
<1>1. CallsOK
  BY DEF RuntimeInv
<1>2. ASSUME NEW c \in Calls, Start(c) \/ Resume(c)
      PROVE  TidyInv' /\ Spares
  BY <1>1, <1>2, StartTidy, ResumeTidy
<1>3. ASSUME NEW c \in Calls, Serve(c)
      PROVE  TidyInv' /\ Spares
  BY <1>1, <1>3, ServeTidy, ServeWriteTidy DEF Serve
<1>4. ASSUME NEW w \in Windows, Sync(w)
      PROVE  TidyInv' /\ Spares
  BY <1>1, <1>4, UpdateDraftTidy, ConfirmTidy, CancelTidy DEF Sync
<1>5. ASSUME NEW w \in Windows, WindowDestroyed(w)
      PROVE  TidyInv' /\ Spares
  BY <1>1, <1>5, DestroyedTidy
<1>6. CASE ExternalChange
  BY <1>1, <1>6, ApartTidy DEF ExternalChange
<1> QED
  BY <1>2, <1>3, <1>4, <1>5, <1>6, Zenon DEF Next

LEMMA TidyHolds == Spec => [](RuntimeInv /\ SessionInv /\ TidyInv)
<1>1. Init => TidyInv
  <2> SUFFICES ASSUME Init PROVE TidyInv
    OBVIOUS
  <2>1. \A c \in Calls : calls[c] = Idle
    BY DEF Init
  <2> QED
    BY <2>1, IdleTidy DEF TidyInv
<1>2. RuntimeInv /\ SessionInv /\ TidyInv /\ [Next]_vars => TidyInv'
  <2> SUFFICES ASSUME RuntimeInv, SessionInv, TidyInv, UNCHANGED vars PROVE TidyInv'
    BY NextTidy
  <2> QED
    BY ApartTidy DEF RuntimeInv, vars
<1>3. Init => RuntimeInv /\ SessionInv
  BY InitRuntime, InitSessions
<1>4. (RuntimeInv /\ SessionInv) /\ [Next]_vars => (RuntimeInv /\ SessionInv)'
  BY NextRuntime, NextSessions
<1> QED
  BY <1>1, <1>2, <1>3, <1>4, PTL DEF Spec

\* No call of a session takes its unsaved text without the user's decision:
\* close releases, reload reads and closeCleanSessions sweeps only what was
\* found clean, however saves, keystrokes and cancellations come between, but
\* for the two known outcomes the property excepts.
THEOREM UnsavedKept == Spec => UnsavedTextSurvives
<1>1. RuntimeInv /\ SessionInv /\ TidyInv /\ [Next]_vars =>
        [\A w \in Windows : \A s \in LiveSessions(w) :
          Vanishes(w, s) =>
            ByDecision(w, s) \/ sess[w][s].late \/ BySuperseded(w, s)]_vars
  BY NextTidy DEF Spares
<1> QED
  BY <1>1, TidyHolds, PTL DEF Spec, UnsavedTextSurvives

==============================================================================
