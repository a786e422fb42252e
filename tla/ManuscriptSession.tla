-------------------------- MODULE ManuscriptSession --------------------------
(***************************************************************************)
(* The shared manuscript sessions of every window over one manuscript file *)
(* (src/services/sharedManuscriptSessionRuntime.ts with the gateway that   *)
(* reads and writes the file, src/services/rawManuscriptGateway.ts).  A    *)
(* window runs one thread of JavaScript: a call runs undisturbed from one  *)
(* await to the next, and while it awaits the native side any other call,  *)
(* keystroke or cancellation of the window may run.  So a call is a record *)
(* that says where it stands, what it captured before, and what the native *)
(* side answered; the session objects it captured outlive their removal    *)
(* from the maps.  Texts are numbered in the order they come into being:   *)
(* every keystroke and every external change makes a new one.              *)
(***************************************************************************)
EXTENDS Integers, Sequences, FiniteSets

CONSTANTS Windows, Keys, Consumers, Calls,
          CallsOf,      \* which of the calls a window may have in progress
          File,         \* the one manuscript file the sessions are about
          Modes,        \* the access modes opens ask for
          NoConsumer,   \* an open without a consumer id
          Lookups,      \* the outcomes of the owner's lookup
          Foreign,      \* whether another program edits the file
          External,     \* whether the file lies outside the managed root
          MaxText, MaxPhys, MaxGrants, MaxSessions, MaxHandles, \* bounds,
          MaxOps        \* and of the operations of one session

ASSUME SessionBounds ==
    /\ NoConsumer \notin Consumers
    /\ CallsOf \in [Windows -> SUBSET Calls]
    /\ External \in BOOLEAN /\ Foreign \in BOOLEAN
    /\ Modes \subseteq {"writable", "readonly"}
    /\ Lookups \subseteq {"ok", "readonly", "changed", "thrown"}
    /\ MaxText \in Nat \ {0} /\ MaxPhys \in Nat /\ MaxGrants \in Nat
    /\ MaxSessions \in Nat /\ MaxHandles \in Nat \ {0} /\ MaxOps \in Nat
    /\ IsFiniteSet(Calls)

VARIABLES disk,    \* the file: its text and physical identity, its revision being both
          active,  \* the write grants in force
          issued,  \* how many grants were issued
          texts,   \* how many texts exist
          sess,    \* per window, the session objects in order of creation
          live,    \* per window and key, the session in the map, 0 for none
          handle,  \* per window, the consumer handles in order of creation
          calls    \* the calls in progress

vars == <<disk, active, issued, texts, sess, live, handle, calls>>

MaxRefs == Cardinality(Calls) + MaxHandles
Authority == INSTANCE WritableAdmission WITH Refs <- {File}, Paths <- {File}

TargetNow == [ref |-> File, path |-> File, phys |-> disk.phys]

NoBase == [text |-> 0, phys |-> 0]
Waiting == [kind |-> "waiting"]
Idle == [at |-> "idle"]

NewCall(op, at, w, s, h) ==
    [op |-> op, at |-> at, w |-> w, s |-> s, h |-> h, reply |-> Waiting,
     key |-> CHOOSE k \in Keys : TRUE, consumer |-> NoConsumer, tok |-> 0,
     saved |-> 0, base |-> NoBase, expected |-> NoBase, proof |-> 0, decision |-> "none",
     applied |-> FALSE, n |-> 0, todo |-> {}]

Resolves(w, h) ==
    /\ h \in DOMAIN handle[w]
    /\ handle[w][h].open
    /\ live[w][handle[w][h].key] = handle[w][h].s
    /\ h \in sess[w][handle[w][h].s].hs

SessionOf(w, h) == handle[w][h].s
Current(S, tok) == S.op # "none" /\ S.tok = tok /\ ~S.gone
Clear(S) == [S EXCEPT !.op = "none"]
Free(S) == S.op = "none" /\ S.tok < MaxOps
Begin(S, kind) == [S EXCEPT !.op = kind, !.tok = @ + 1]

\* Mutant: whatever was hydrated counts as saved.
HydratedClean(S, saved, snap, preserve) ==
    [Clear(S) EXCEPT !.base = snap, !.recovery = FALSE, !.dirty = FALSE, !.late = FALSE,
                     !.draft = IF preserve /\ S.draft # saved THEN S.draft ELSE snap.text]

\* The state a completed read or save leaves; a draft newer than the one saved
\* is kept when the caller asks for it.
Hydrated(S, saved, snap, preserve) ==
    LET draft == IF preserve /\ S.draft # saved THEN S.draft ELSE snap.text
    IN  [Clear(S) EXCEPT !.base = snap, !.draft = draft,
                         !.dirty = (draft # snap.text), !.recovery = FALSE,
                         !.late = @ /\ draft # snap.text]

Hydrate(S, tok, saved, snap, preserve) ==
    IF Current(S, tok) THEN Hydrated(S, saved, snap, preserve) ELSE S

\* Mutant: a failed operation keeps the session busy.
FailKeepsBusy(S, tok, recovery) ==
    IF Current(S, tok) THEN [S EXCEPT !.recovery = recovery] ELSE S

Fail(S, tok, recovery) ==
    IF Current(S, tok) THEN [Clear(S) EXCEPT !.recovery = recovery] ELSE S

\* A close or a reload that found the session clean and is awaiting since.
DecidedClean(w, s) ==
    \E c \in Calls : /\ calls[c].at \in {"release", "check"}
                     /\ calls[c].w = w /\ calls[c].s = s

\* Session s becomes S; late records that it did so behind the back of such a
\* call and is not clean any more.
Behind(w, s, S) ==
    [S EXCEPT !.late = @ \/ (S.dirty /\ ~sess[w][s].dirty /\ DecidedClean(w, s))]

NewSession(key, mode, proof) ==
    [key |-> key, mode |-> mode, proof |-> proof, hs |-> {}, base |-> NoBase,
     draft |-> 0, dirty |-> FALSE, op |-> "none", tok |-> 0, recovery |-> FALSE,
     confirmed |-> FALSE, gone |-> FALSE, late |-> FALSE]

SetSession(w, s, S) == sess' = [sess EXCEPT ![w][s] = S]
Put(c, rec) == calls' = [calls EXCEPT ![c] = rec]
Await(c, at) == [calls[c] EXCEPT !.at = at, !.reply = Waiting]
Answered(c, at) == calls[c].at = at /\ calls[c].reply # Waiting
Native == <<disk, active, issued, texts>>

Init ==
    /\ disk = [text |-> 1, phys |-> 0]
    /\ active = {} /\ issued = 0 /\ texts = 1
    /\ sess = [w \in Windows |-> <<>>]
    /\ live = [w \in Windows |-> [k \in Keys |-> 0]]
    /\ handle = [w \in Windows |-> <<>>]
    /\ calls = [c \in Calls |-> Idle]

-----------------------------------------------------------------------------
\* Handles

ConsumerHandles(w, s, consumer) ==
    {h \in DOMAIN handle[w] : /\ consumer # NoConsumer
                              /\ handle[w][h].consumer = consumer
                              /\ handle[w][h].s = s
                              /\ Resolves(w, h)}

\* createHandle: a consumer the session already knows gets its handle again.
CreateHandle(w, s, S, consumer) ==
    IF ConsumerHandles(w, s, consumer) # {}
    THEN SetSession(w, s, S) /\ UNCHANGED handle
    ELSE LET h == Len(handle[w]) + 1
         IN  /\ h <= MaxHandles
             /\ handle' = [handle EXCEPT ![w] =
                    Append(@, [s |-> s, key |-> S.key, consumer |-> consumer, open |-> TRUE])]
             /\ SetSession(w, s, [S EXCEPT !.hs = @ \cup {h}])

\* What releaseHandle deletes once the native release came back; the key leaves
\* the map with the last handle, whichever session the map holds by then.
DropHandles(w, s, hs) ==
    LET S == [sess[w][s] EXCEPT !.hs = @ \ hs]
    IN  /\ handle' = [handle EXCEPT ![w] =
               [h \in DOMAIN @ |-> IF h \in hs THEN [@[h] EXCEPT !.open = FALSE] ELSE @[h]]]
        /\ SetSession(w, s, [S EXCEPT !.gone = @ \/ S.hs = {}])
        /\ live' = IF S.hs = {} THEN [live EXCEPT ![w][S.key] = 0] ELSE live

\* A sweep goes on with the next handle; any other call is over.
Rest(rec) == IF rec.todo = {} THEN Idle ELSE [rec EXCEPT !.at = "sweep"]

\* releaseHandle up to its await: a handle that no longer resolves ends the
\* call, a session without a grant is done at once.
Release(c, rec) ==
    LET proof == sess[rec.w][rec.s].proof
    IN  IF ~Resolves(rec.w, rec.h)
        THEN Put(c, Idle) /\ UNCHANGED <<sess, live, handle>>
        ELSE IF proof = 0
        THEN DropHandles(rec.w, rec.s, {rec.h}) /\ Put(c, Rest(rec))
        ELSE /\ Put(c, [rec EXCEPT !.at = "release", !.reply = Waiting, !.proof = proof])
             /\ UNCHANGED <<sess, live, handle>>

ReleaseReply(c) ==
    LET call == calls[c]
    IN  /\ Answered(c, "release")
        /\ IF call.reply.kind = "no"
           THEN Put(c, Idle) /\ UNCHANGED <<sess, live, handle>>
           ELSE DropHandles(call.w, call.s, {call.h}) /\ Put(c, Rest(call))
        /\ UNCHANGED Native

\* closeCleanSessions: only when no session it matches has unsaved text, a
\* recovery or an operation, and then handle by handle. It matches one session here.
CloseClean(c, w, k) ==
    LET s == live[w][k]
    IN  /\ calls[c] = Idle /\ s # 0
        /\ ~sess[w][s].dirty /\ ~sess[w][s].recovery /\ sess[w][s].op = "none"
        /\ sess[w][s].hs # {}
        /\ Put(c, [NewCall("clean", "sweep", w, s, 0) EXCEPT !.todo = sess[w][s].hs])
        /\ UNCHANGED <<Native, sess, live, handle>>

Sweep(c) ==
    LET call == calls[c]
    IN  /\ call.at = "sweep"
        /\ \E h \in call.todo : /\ \A x \in call.todo : h <= x
                                /\ Release(c, [call EXCEPT !.h = h, !.todo = @ \ {h}])
        /\ UNCHANGED Native

-----------------------------------------------------------------------------
\* transitionToReadOnly: the grant leaves the session first, then one release
\* is awaited per handle it has, until the native side says the last is gone.

Demoted(S) == [S EXCEPT !.mode = "readonly"]

\* The end of open on an existing session S of the map: a consumer it knows gets
\* its handle, a writable session takes one more reference of its grant first.
Join(c, rec, S) ==
    IF ConsumerHandles(rec.w, rec.s, rec.consumer) # {} \/ S.proof = 0
    THEN CreateHandle(rec.w, rec.s, S, rec.consumer) /\ Put(c, Idle)
    ELSE /\ SetSession(rec.w, rec.s, S)
         /\ Put(c, [rec EXCEPT !.at = "retain", !.reply = Waiting, !.proof = S.proof])
         /\ UNCHANGED handle

\* What the caller does once the session is read-only.
AfterDemote(c, rec, S) ==
    IF rec.op = "open" THEN Join(c, rec, S)
    ELSE /\ SetSession(rec.w, rec.s,
                IF rec.op \in {"save", "close"} THEN Fail(S, rec.tok, FALSE) ELSE S)
         /\ Put(c, Idle)
         /\ UNCHANGED handle

Demote(c, rec) ==
    LET S == sess[rec.w][rec.s]
        without == [S EXCEPT !.proof = 0]
    IN  IF S.proof = 0 \/ S.hs = {}
        THEN AfterDemote(c, rec, Demoted(without))
        ELSE /\ SetSession(rec.w, rec.s, without)
             /\ Put(c, [rec EXCEPT !.at = "demote", !.reply = Waiting,
                                   !.proof = S.proof, !.n = 1])
             /\ UNCHANGED handle

DemoteReply(c) ==
    LET call == calls[c] S == sess[call.w][call.s]
    IN  /\ Answered(c, "demote")
        /\ IF ~call.reply.final /\ call.n < Cardinality(S.hs)
           THEN /\ Put(c, [call EXCEPT !.n = @ + 1, !.reply = Waiting])
                /\ UNCHANGED <<sess, handle>>
           ELSE AfterDemote(c, call, Demoted(S))
        /\ UNCHANGED <<Native, live>>

\* transitionToReadOnlySessions, on the one session its predicate matches here.
TransitionToReadOnly(c, w, k) ==
    /\ calls[c] = Idle /\ live[w][k] # 0
    /\ Demote(c, NewCall("readonly", "demote", w, live[w][k], 0))
    /\ UNCHANGED <<Native, live>>

-----------------------------------------------------------------------------
\* open

\* The bounds: an open starts when the ones in progress leave room for it.
Opening(w) == {c \in Calls : calls[c].at \in {"acquire", "retain", "demote"} /\ calls[c].w = w}
RoomFor(w) == Len(handle[w]) + Cardinality(Opening(w)) < MaxHandles

OpenShared(c, w, k, mode, consumer) ==
    LET s == live[w][k]
        rec == [NewCall("open", "retain", w, s, 0) EXCEPT !.key = k, !.consumer = consumer]
    IN  /\ calls[c] = Idle /\ s # 0 /\ RoomFor(w)
        /\ \/ sess[w][s].mode = mode /\ Join(c, rec, sess[w][s])
           \/ sess[w][s].mode = "writable" /\ mode = "readonly" /\ Demote(c, rec)
        /\ UNCHANGED <<Native, live>>

RetainReply(c) ==
    LET call == calls[c]
    IN  /\ Answered(c, "retain")
        /\ IF call.reply.kind = "ok"
           THEN CreateHandle(call.w, call.s,
                    [sess[call.w][call.s] EXCEPT !.proof = call.proof], call.consumer)
           ELSE UNCHANGED <<sess, handle>>
        /\ Put(c, Idle)
        /\ UNCHANGED <<Native, live>>

\* Mutant: the handle is numbered with the generation counter as it stands after
\* the next session.
StartLoadingAhead(c, rec, mode, proof) ==
    LET w == rec.w
        s == Len(sess[w]) + 1
        h == Len(handle[w]) + 1
        S == Begin([NewSession(rec.key, mode, proof) EXCEPT !.hs = {h}], "load")
    IN  /\ s <= MaxSessions /\ h <= MaxHandles
        /\ sess' = [sess EXCEPT ![w] = Append(@, S)]
        /\ live' = [live EXCEPT ![w][rec.key] = s]
        /\ handle' = [handle EXCEPT ![w] = Append(@, [s |-> s + 1, key |-> rec.key,
                                        consumer |-> rec.consumer, open |-> TRUE])]
        /\ Put(c, [rec EXCEPT !.at = "load", !.reply = Waiting, !.s = s, !.h = h,
                              !.tok = S.tok, !.proof = proof])

\* The session object, its first handle and its load operation; a session the
\* map got meanwhile under the key is replaced.
StartLoading(c, rec, mode, proof) ==
    LET w == rec.w
        s == Len(sess[w]) + 1
        h == Len(handle[w]) + 1
        S == Begin([NewSession(rec.key, mode, proof) EXCEPT !.hs = {h}], "load")
    IN  /\ s <= MaxSessions /\ h <= MaxHandles
        /\ sess' = [sess EXCEPT ![w] = Append(@, S)]
        /\ live' = [live EXCEPT ![w][rec.key] = s]
        /\ handle' = [handle EXCEPT ![w] =
               Append(@, [s |-> s, key |-> rec.key, consumer |-> rec.consumer, open |-> TRUE])]
        /\ Put(c, [rec EXCEPT !.at = "load", !.reply = Waiting, !.s = s, !.h = h,
                              !.tok = S.tok, !.proof = proof])

OpenNew(c, w, k, mode, consumer) ==
    LET rec == [NewCall("open", "acquire", w, 0, 0) EXCEPT !.key = k, !.consumer = consumer]
    IN  /\ calls[c] = Idle /\ live[w][k] = 0 /\ RoomFor(w)
        /\ Len(sess[w]) + Cardinality(Opening(w)) < MaxSessions
        /\ IF mode = "writable"
           THEN Put(c, rec) /\ UNCHANGED <<sess, live, handle>>
           ELSE StartLoading(c, rec, mode, 0)
        /\ UNCHANGED Native

AcquireReply(c) ==
    /\ Answered(c, "acquire")
    /\ IF calls[c].reply.kind = "ok"
       THEN StartLoading(c, calls[c], "writable", calls[c].reply.proof)
       ELSE Put(c, Idle) /\ UNCHANGED <<sess, live, handle>>
    /\ UNCHANGED Native

LoadReply(c) ==
    LET call == calls[c] w == call.w S == sess[w][call.s]
    IN  /\ Answered(c, "load")
        /\ IF ~Current(S, call.tok)
           THEN Put(c, Idle) /\ UNCHANGED <<sess, live, handle>>
           ELSE IF call.reply.kind = "ok"
           THEN /\ SetSession(w, call.s, Hydrated(S, call.saved, call.reply.snap, FALSE))
                /\ Put(c, Idle) /\ UNCHANGED <<live, handle>>
           ELSE /\ handle' = [handle EXCEPT ![w][call.h].open = FALSE]
                /\ live' = [live EXCEPT ![w][call.key] = 0]
                /\ Put(c, IF call.proof = 0 THEN Idle ELSE Await(c, "unload"))
                /\ UNCHANGED sess
        /\ UNCHANGED Native

UnloadReply(c) ==
    Answered(c, "unload") /\ Put(c, Idle) /\ UNCHANGED <<Native, sess, live, handle>>

-----------------------------------------------------------------------------
\* save, alone or as the first half of close

CanSave(S) ==
    /\ S.base # NoBase /\ S.mode = "writable" /\ S.proof # 0
    /\ External => S.confirmed
    /\ Free(S)

\* The token keeps the draft as it is now; what is written is this text. Of the
\* callers only close comes back to its handle.
BeginSave(c, op, w, h) ==
    LET s == SessionOf(w, h) S == Begin(sess[w][s], "save")
    IN  /\ CanSave(sess[w][s])
        /\ SetSession(w, s, S)
        /\ Put(c, [NewCall(op, "renew", w, s, IF op = "close" THEN h ELSE 0) EXCEPT
                     !.tok = S.tok, !.saved = S.draft, !.expected = S.base, !.proof = S.proof,
                     !.decision = IF op = "close" THEN "save" ELSE "none"])
        /\ UNCHANGED <<Native, live, handle>>

Save(c, w, h) == calls[c] = Idle /\ Resolves(w, h) /\ BeginSave(c, "save", w, h)

RenewReply(c) ==
    LET call == calls[c] w == call.w S == sess[w][call.s]
    IN  /\ Answered(c, "renew")
        /\ IF call.reply.kind = "ok"
           THEN Put(c, Await(c, "revalidate")) /\ UNCHANGED sess
           ELSE Put(c, Idle) /\ SetSession(w, call.s, Fail(S, call.tok, FALSE))
        /\ UNCHANGED <<Native, live, handle>>

\* The write is sent with the baseline the session has by now.
RevalidateReply(c) ==
    LET call == calls[c] w == call.w S == sess[w][call.s]
    IN  /\ Answered(c, "revalidate")
        /\ \/ /\ call.reply.kind = "ok"
              /\ Put(c, [Await(c, "write") EXCEPT !.base = S.base])
              /\ UNCHANGED <<sess, handle>>
           \/ /\ call.reply.kind = "readonly"
              /\ Demote(c, call)
           \/ /\ call.reply.kind = "changed"
              /\ SetSession(w, call.s, Fail(S, call.tok, FALSE))
              /\ Put(c, Idle) /\ UNCHANGED handle
           \/ /\ call.reply.kind = "thrown"
              /\ Put(c, Idle) /\ UNCHANGED <<sess, handle>>
        /\ UNCHANGED <<Native, live>>

WriteReply(c) ==
    LET call == calls[c] w == call.w S == sess[w][call.s] reply == call.reply
    IN  /\ Answered(c, "write") /\ call.op # "orphan"
        /\ IF Current(S, call.tok) /\ reply.kind = "ok" /\ S.proof # 0
           THEN /\ Put(c, [Await(c, "refresh") EXCEPT !.base = reply.snap, !.proof = S.proof,
                                                     !.applied = reply.applied])
                /\ UNCHANGED sess
           ELSE /\ SetSession(w, call.s, Fail(S, call.tok, reply.applied))
                /\ Put(c, Idle)
        /\ UNCHANGED <<Native, live, handle>>

\* Mutant: close releases once its save succeeded, whatever was typed meanwhile.
RefreshReplyCloses(c) ==
    LET call == calls[c] w == call.w S == sess[w][call.s]
    IN  /\ Answered(c, "refresh")
        /\ IF call.reply.kind # "ok"
           THEN SetSession(w, call.s, Fail(S, call.tok, call.applied)) /\ Put(c, Idle)
           ELSE /\ SetSession(w, call.s, Hydrate(S, call.tok, call.saved, call.base, TRUE))
                /\ Put(c, IF call.op = "close" THEN [call EXCEPT !.at = "leave"] ELSE Idle)
        /\ UNCHANGED <<Native, live, handle>>

\* A save of close goes on to the release only when nothing is left unsaved.
RefreshReply(c) ==
    LET call == calls[c] w == call.w S == sess[w][call.s]
        saved == Hydrate(S, call.tok, call.saved, call.base, TRUE)
    IN  /\ Answered(c, "refresh")
        /\ IF call.reply.kind # "ok"
           THEN SetSession(w, call.s, Fail(S, call.tok, call.applied)) /\ Put(c, Idle)
           ELSE /\ SetSession(w, call.s, Behind(w, call.s, saved))
                /\ Put(c, IF call.op = "close" /\ ~(Resolves(w, call.h) /\ saved.dirty)
                          THEN [call EXCEPT !.at = "leave"] ELSE Idle)
        /\ UNCHANGED <<Native, live, handle>>

-----------------------------------------------------------------------------
\* reload, discard, and close

BeginReread(c, rec) ==
    LET S == sess[rec.w][rec.s]
    IN  IF Free(S)
        THEN /\ SetSession(rec.w, rec.s, Begin(S, "reread"))
             /\ Put(c, [rec EXCEPT !.at = "reread", !.reply = Waiting, !.tok = S.tok + 1])
        ELSE Put(c, Idle) /\ UNCHANGED sess

Discard(c, w, h) ==
    /\ calls[c] = Idle /\ Resolves(w, h) /\ Free(sess[w][SessionOf(w, h)])
    /\ BeginReread(c, [NewCall("discard", "reread", w, SessionOf(w, h), 0)
                         EXCEPT !.decision = "discard"])
    /\ UNCHANGED <<Native, live, handle>>

\* A dirty session is reloaded only by decision; the owner is looked up first.
Reload(c, w, h, decision) ==
    LET S == sess[w][SessionOf(w, h)]
    IN  /\ calls[c] = Idle /\ Resolves(w, h) /\ Free(S)
        /\ decision = IF S.dirty THEN "discard" ELSE "none"
        /\ Put(c, [NewCall("reload", "check", w, SessionOf(w, h), h)
                     EXCEPT !.decision = decision])
        /\ UNCHANGED <<Native, sess, live, handle>>

CheckReply(c) ==
    LET call == calls[c]
    IN  /\ Answered(c, "check")
        /\ CASE call.reply.kind = "ok" /\ Resolves(call.w, call.h) ->
                  BeginReread(c, call) /\ UNCHANGED handle
             [] call.reply.kind = "readonly" -> Demote(c, call)
             [] OTHER -> Put(c, Idle) /\ UNCHANGED <<sess, handle>>
        /\ UNCHANGED <<Native, live>>

\* The result is the native read's, whether or not the state was still this call's.
RereadReply(c) ==
    LET call == calls[c] w == call.w S == sess[w][call.s] ok == call.reply.kind = "ok"
    IN  /\ Answered(c, "reread")
        /\ SetSession(w, call.s,
               IF ok THEN Hydrate(S, call.tok, 0, call.reply.snap, FALSE)
                     ELSE Fail(S, call.tok, FALSE))
        /\ Put(c, IF call.op = "close" /\ ok THEN [call EXCEPT !.at = "leave"] ELSE Idle)
        /\ UNCHANGED <<Native, live, handle>>

\* close takes no operation of its own: it looks for one, then releases.
Close(c, w, h, decision) ==
    LET s == SessionOf(w, h)
        rec == [NewCall("close", "release", w, s, h) EXCEPT !.decision = decision]
    IN  /\ calls[c] = Idle /\ Resolves(w, h) /\ sess[w][s].op = "none"
        /\ \/ /\ ~sess[w][s].dirty
              /\ Release(c, rec) /\ UNCHANGED Native
           \/ /\ sess[w][s].dirty /\ decision = "save"
              /\ BeginSave(c, "close", w, h)
           \/ /\ sess[w][s].dirty /\ decision = "discard" /\ Free(sess[w][s])
              /\ BeginReread(c, rec) /\ UNCHANGED <<Native, live, handle>>

Leave(c) ==
    calls[c].at = "leave" /\ Release(c, calls[c]) /\ UNCHANGED Native

-----------------------------------------------------------------------------
\* What runs without an await

\* A keystroke makes a new text or undoes back to the saved one.
UpdateDraft(w, h) ==
    LET s == SessionOf(w, h) S == sess[w][s]
    IN  /\ Resolves(w, h)
        /\ S.mode = "writable" /\ S.op \in {"none", "save"}
        /\ \E text \in {texts + 1, S.base.text} \ {S.draft, 0} :
              /\ text <= MaxText
              /\ texts' = IF text > texts THEN text ELSE texts
              /\ SetSession(w, s, Behind(w, s,
                     [S EXCEPT !.draft = text, !.dirty = (text # S.base.text)]))
        /\ UNCHANGED <<disk, active, issued, live, handle, calls>>

ConfirmExternalWrite(w, h) ==
    LET s == SessionOf(w, h)
    IN  /\ External /\ Resolves(w, h) /\ ~sess[w][s].confirmed
        /\ SetSession(w, s, [sess[w][s] EXCEPT !.confirmed = TRUE])
        /\ UNCHANGED <<Native, live, handle, calls>>

\* cancel forgets the operation; the call it belongs to goes on.
Cancel(w, h) ==
    LET s == SessionOf(w, h)
    IN  /\ Resolves(w, h) /\ sess[w][s].op # "none"
        /\ SetSession(w, s, Clear(sess[w][s]))
        /\ UNCHANGED <<Native, live, handle, calls>>

-----------------------------------------------------------------------------
\* The native side answers one awaited request at a time, in any order.

Reply(c, r) == calls' = [calls EXCEPT ![c].reply = r]
Asked(c, steps) == calls[c].at \in steps /\ calls[c].reply = Waiting
Yes == [kind |-> "ok"]
No == [kind |-> "no"]

\* Mutant: a proof is numbered by the grants in force.
ServeAcquireReusing(c) ==
    LET call == calls[c] proof == Cardinality(active) + 1
    IN  /\ Asked(c, {"acquire"}) /\ issued < MaxGrants
        /\ Authority!Admissible(active, call.key, TargetNow)
        /\ issued' = proof
        /\ active' = active \cup {Authority!NewGrant(proof, call.w, call.key, TargetNow)}
        /\ Reply(c, [kind |-> "ok", proof |-> proof])
        /\ UNCHANGED <<disk, texts, sess, live, handle>>

ServeAcquire(c) ==
    LET call == calls[c]
        admitted == issued < MaxGrants /\ Authority!Admissible(active, call.key, TargetNow)
    IN  /\ Asked(c, {"acquire"})
        /\ IF admitted
           THEN Authority!Admit(call.w, call.key, TargetNow)
           ELSE UNCHANGED <<active, issued>>
        /\ Reply(c, IF admitted THEN [kind |-> "ok", proof |-> issued + 1] ELSE No)
        /\ UNCHANGED <<disk, texts, sess, live, handle>>

ServeRetain(c) ==
    LET call == calls[c] owned == Authority!OwnedBy(active, call.w, call.proof)
    IN  /\ Asked(c, {"retain"})
        /\ IF owned # {} THEN Authority!Retain(call.w, call.proof)
                         ELSE UNCHANGED <<active, issued>>
        /\ Reply(c, IF owned # {} THEN Yes ELSE No)
        /\ UNCHANGED <<disk, texts, sess, live, handle>>

ServeRenew(c) ==
    /\ Asked(c, {"renew"})
    /\ Reply(c, IF Authority!Renewable(active, calls[c].w, calls[c].proof, TargetNow)
                THEN Yes ELSE No)
    /\ UNCHANGED <<Native, sess, live, handle>>

\* renew with the revision of the write: the grant follows the replaced file.
ServeRefresh(c) ==
    LET call == calls[c]
        follows == \E g \in Authority!OwnedBy(active, call.w, call.proof) :
                       Authority!RefreshAllowed(active, g, TargetNow)
    IN  /\ Asked(c, {"refresh"})
        /\ IF follows /\ disk = call.base
           THEN /\ Authority!RefreshAfterWrite(call.w, call.proof, TargetNow)
                /\ Reply(c, Yes)
           ELSE UNCHANGED <<active, issued>> /\ Reply(c, No)
        /\ UNCHANGED <<disk, texts, sess, live, handle>>

ServeRelease(c) ==
    LET call == calls[c] owned == Authority!OwnedBy(active, call.w, call.proof)
    IN  /\ Asked(c, {"release", "demote", "unload"})
        /\ IF owned # {} THEN Authority!Release(call.w, call.proof)
                         ELSE UNCHANGED <<active, issued>>
        /\ Reply(c, [kind |-> IF owned = {} THEN "no" ELSE "ok",
                     final |-> \A g \in owned : g.refs = 1])
        /\ UNCHANGED <<disk, texts, sess, live, handle>>

ServeRead(c) ==
    /\ Asked(c, {"load", "reread"})
    /\ Reply(c, [kind |-> "ok", snap |-> disk]) \/ Reply(c, No)
    /\ UNCHANGED <<Native, sess, live, handle>>

\* The owner's lookup says whether the target still is what was opened; it may throw.
ServeLookup(c) ==
    /\ Asked(c, {"revalidate", "check"})
    /\ \E kind \in Lookups : Reply(c, [kind |-> kind])
    /\ UNCHANGED <<Native, sess, live, handle>>

\* Mutant: the file is replaced whatever its revision.
ServeWriteBlind(c) ==
    LET call == calls[c]
    IN  /\ Asked(c, {"write"}) /\ disk.phys < MaxPhys
        /\ disk' = [text |-> call.saved, phys |-> disk.phys + 1]
        /\ Reply(c, [kind |-> "ok", snap |-> disk', applied |-> TRUE])
        /\ UNCHANGED <<active, issued, texts, sess, live, handle>>

\* The file is replaced only when it still has the revision of the baseline.
ServeWrite(c) ==
    LET call == calls[c]
        matches == disk = call.base
        same == disk.text = call.saved
    IN  /\ Asked(c, {"write"})
        /\ \/ /\ matches /\ same
              /\ Reply(c, [kind |-> "ok", snap |-> disk, applied |-> FALSE])
              /\ UNCHANGED disk
           \/ /\ matches /\ ~same /\ disk.phys < MaxPhys
              /\ disk' = [text |-> call.saved, phys |-> disk.phys + 1]
              /\ \/ Reply(c, [kind |-> "ok", snap |-> disk', applied |-> TRUE])
                 \/ Reply(c, [kind |-> "unverified", applied |-> TRUE])
           \/ /\ Reply(c, [kind |-> "no", applied |-> FALSE])
              /\ UNCHANGED disk
           \/ /\ Reply(c, [kind |-> "unverified", applied |-> TRUE])
              /\ UNCHANGED disk
        /\ UNCHANGED <<active, issued, texts, sess, live, handle>>

\* Another program edits the file in place or replaces it.
ExternalChange ==
    /\ Foreign /\ texts < MaxText
    /\ texts' = texts + 1
    /\ \E phys \in {disk.phys, disk.phys + 1} :
          phys <= MaxPhys /\ disk' = [text |-> texts + 1, phys |-> phys]
    /\ UNCHANGED <<active, issued, sess, live, handle, calls>>

\* The window is destroyed with its script; a write it had sent may still land.
WindowDestroyed(w) ==
    /\ sess[w] # <<>> \/ \E c \in Calls : calls[c] # Idle /\ calls[c].w = w
    /\ Authority!DetachCaller(w)
    /\ sess' = [sess EXCEPT ![w] = <<>>]
    /\ live' = [live EXCEPT ![w] = [k \in Keys |-> 0]]
    /\ handle' = [handle EXCEPT ![w] = <<>>]
    /\ calls' = [c \in Calls |->
           IF calls[c] = Idle \/ calls[c].w # w THEN calls[c]
           ELSE IF Asked(c, {"write"}) THEN [calls[c] EXCEPT !.op = "orphan"] ELSE Idle]
    /\ UNCHANGED <<disk, texts>>

Forget(c) ==
    /\ Answered(c, "write") /\ calls[c].op = "orphan"
    /\ Put(c, Idle)
    /\ UNCHANGED <<Native, sess, live, handle>>

-----------------------------------------------------------------------------
\* A call that continues in the same turn of the event loop runs before any event.
Draining(w) == \E c \in Calls : calls[c].at \in {"sweep", "leave"} /\ calls[c].w = w

Start(c) ==
    \E w \in {x \in Windows : c \in CallsOf[x] /\ ~Draining(x)} :
        \/ \E k \in Keys : \/ \E mode \in Modes, u \in Consumers \cup {NoConsumer} :
                                 OpenNew(c, w, k, mode, u) \/ OpenShared(c, w, k, mode, u)
                           \/ CloseClean(c, w, k)
                           \/ TransitionToReadOnly(c, w, k)
        \/ \E h \in DOMAIN handle[w] :
              \/ Save(c, w, h) \/ Discard(c, w, h)
              \/ \E decision \in {"none", "discard"} : Reload(c, w, h, decision)
              \/ \E decision \in {"none", "save", "discard"} : Close(c, w, h, decision)

Resume(c) ==
    \/ Sweep(c) \/ Leave(c)
    \/ /\ calls[c] # Idle /\ ~Draining(calls[c].w)
       /\ \/ AcquireReply(c) \/ RetainReply(c) \/ LoadReply(c) \/ UnloadReply(c)
          \/ RenewReply(c) \/ RevalidateReply(c) \/ WriteReply(c) \/ RefreshReply(c)
          \/ CheckReply(c) \/ RereadReply(c) \/ ReleaseReply(c) \/ DemoteReply(c)
          \/ Forget(c)

Serve(c) ==
    \/ ServeAcquire(c) \/ ServeRetain(c) \/ ServeRenew(c) \/ ServeRefresh(c)
    \/ ServeRelease(c) \/ ServeRead(c) \/ ServeLookup(c) \/ ServeWrite(c)

Sync(w) ==
    ~Draining(w) /\ \E h \in DOMAIN handle[w] :
        UpdateDraft(w, h) \/ ConfirmExternalWrite(w, h) \/ Cancel(w, h)

Next ==
    \/ \E c \in Calls : Start(c) \/ Resume(c) \/ Serve(c)
    \/ \E w \in Windows : Sync(w) \/ WindowDestroyed(w)
    \/ ExternalChange

Spec == Init /\ [][Next]_vars

-----------------------------------------------------------------------------
\* Properties

Steps == {"acquire", "retain", "load", "unload", "renew", "revalidate", "write",
          "refresh", "check", "reread", "release", "demote", "sweep", "leave"}

\* One type invariant: the shapes of the file, the sessions, the handles and the calls.
TypeOK ==
    /\ disk \in [text : 1..MaxText, phys : 0..MaxPhys]
    /\ active \subseteq Authority!Grant /\ issued \in 0..MaxGrants /\ texts \in 1..MaxText
    /\ \A w \in Windows :
          /\ Len(sess[w]) <= MaxSessions /\ Len(handle[w]) <= MaxHandles
          /\ \A s \in DOMAIN sess[w] :
                /\ sess[w][s].key \in Keys /\ sess[w][s].mode \in {"writable", "readonly"}
                /\ sess[w][s].proof \in 0..MaxGrants
                /\ sess[w][s].hs \subseteq DOMAIN handle[w]
                /\ sess[w][s].op \in {"none", "load", "save", "reread"}
          /\ \A k \in Keys : live[w][k] \in 0..Len(sess[w])
          /\ \A h \in DOMAIN handle[w] : handle[w][h].s \in DOMAIN sess[w]
    /\ \A c \in Calls : calls[c] = Idle \/ calls[c].at \in Steps

LiveSessions(w) == {live[w][k] : k \in Keys} \ {0}

(***************************************************************************)
(* Whatever edits, saves, reloads, external changes and cancelled calls    *)
(* interleave: a session whose baseline is the file as it is now and that  *)
(* says it has nothing unsaved shows the very text of the file, and one    *)
(* that says it has something unsaved really differs from its baseline.    *)
(***************************************************************************)
DirtyIsTrue ==
    \A w \in Windows : \A s \in LiveSessions(w) :
        LET S == sess[w][s]
        IN  S.base # NoBase =>
              /\ S.dirty <=> S.draft # S.base.text
              /\ ~S.dirty /\ S.base = disk => S.draft = disk.text

(***************************************************************************)
(* The text a write replaces is the baseline its session still has, even   *)
(* when the save was cancelled and another save or a reload of the session *)
(* ran since: no window overwrites a text it has not read or written.      *)
(***************************************************************************)
WriteReplacesBaseline ==
    [][\A c \in Calls :
          /\ calls[c] # Idle /\ calls[c].at = "write" /\ calls[c].op # "orphan"
          /\ calls[c].reply = Waiting /\ calls'[c] # Idle /\ calls'[c].reply # Waiting
          /\ disk' # disk
          => disk = sess[calls[c].w][calls[c].s].base]_vars

(***************************************************************************)
(* A save replaces the text its draft was based on when it began, which is *)
(* the revision its token keeps. The write is sent with the baseline of    *)
(* the moment instead: a save cancelled before its write resumes after a   *)
(* newer save of the session is done and puts the older text over it, and  *)
(* the session still shows the newer one as saved.                         *)
(***************************************************************************)
OvertakenSaveStaysOut ==
    [][\A c \in Calls :
          /\ calls[c] # Idle /\ calls[c].at = "write" /\ calls[c].op # "orphan"
          /\ calls'[c] # calls[c] /\ disk' # disk
          => disk = calls[c].expected]_vars

\* Unsaved text of session s of window w that the step takes away: the session
\* leaves the map, or its draft is replaced by what was read.
Vanishes(w, s) ==
    /\ s \in LiveSessions(w)
    /\ sess[w][s].dirty
    /\ sess'[w] # <<>>
    /\ \/ live'[w][sess[w][s].key] # s
       \/ /\ calls' # calls
          /\ sess'[w][s].draft # sess[w][s].draft

ByDecision(w, s) ==
    \E c \in Calls : /\ calls[c] # Idle /\ calls'[c] # calls[c]
                     /\ calls[c].w = w /\ calls[c].s = s
                     /\ calls[c].decision = "discard"

\* A call of another session does it: an open that comes late replaces the
\* session in the map, and what closes or fails to load the replaced one then
\* removes the key, whichever session has it.
BySuperseded(w, s) ==
    /\ sess'[w][s].draft = sess[w][s].draft
    /\ \E c \in Calls : /\ calls[c] # Idle /\ calls'[c] # calls[c]
                        /\ calls[c].w = w /\ calls[c].s # s

(***************************************************************************)
(* Unsaved text only goes away by a decision to discard it: none of the    *)
(* calls of a session takes it, no save that completes late, no close that *)
(* saved an older text, no reload, no clean-up of clean sessions. Text     *)
(* that becomes unsaved while a close or reload that had found the session *)
(* clean still awaits its answer is excepted, and so are the calls of a    *)
(* session that this one has replaced under its key.                       *)
(***************************************************************************)
UnsavedTextSurvives ==
    [][\A w \in Windows : \A s \in LiveSessions(w) :
          Vanishes(w, s) =>
            ByDecision(w, s) \/ sess[w][s].late \/ BySuperseded(w, s)]_vars

\* Call c is at a step of the operation that session s says is in progress.
Attends(c, w, s) ==
    /\ calls[c] # Idle /\ calls[c].op # "orphan"
    /\ \/ calls[c].at \in {"load", "renew", "revalidate", "write", "refresh", "reread"}
       \/ calls[c].at = "demote" /\ calls[c].op \in {"save", "close"}
    /\ calls[c].w = w /\ calls[c].s = s /\ calls[c].tok = sess[w][s].tok

\* The session of key k refuses for an operation that no call will end.
Unattended(w, k) ==
    LET s == live[w][k]
    IN  s # 0 /\ sess[w][s].op # "none" /\ ~\E c \in Calls : Attends(c, w, s)

(***************************************************************************)
(* A session that says an operation is in progress has a call that will    *)
(* end it, so that a refusal with retryable = true is not for ever: calls  *)
(* that are cancelled, overtaken, refused, demoted or late never leave the *)
(* session busy behind them. One way of leaving it busy the code has: the  *)
(* owner's lookup of a save throws, which nothing catches.                 *)
(***************************************************************************)
LeftBusyByThrowOnly ==
    [][\A w \in Windows, k \in Keys :
          Unattended(w, k)' /\ ~Unattended(w, k) =>
            \E c \in Calls : /\ calls[c].at = "revalidate"
                             /\ calls[c].reply.kind = "thrown" /\ calls'[c] = Idle
                             /\ calls[c].w = w /\ calls[c].s = live[w][k]]_vars

\* The runtimes use the authority only as it may be used.
AuthoritySpec == Authority!Spec
==============================================================================
