------------------------------ MODULE FormalSwitch ------------------------------
(***************************************************************************)
(* The formal switch of an owner's current manuscript to another file. The *)
(* window reads the evidence, the native side prepares a durable operation *)
(* and drives it through its phases: the owner's fields are archived in    *)
(* the old file (settlement), one transaction takes the fields over from   *)
(* the archive in the target and points the owner at it, the window opens  *)
(* the target as the current manuscript and the operation is resolved. Any *)
(* process can fail or crash between two steps, any other can continue.    *)
(* One native command at a time runs in a process: it holds the main       *)
(* thread.                                                                 *)
(***************************************************************************)
EXTENDS Naturals, FiniteSets

CONSTANTS
    Processes,      \* running copies of the application, one window each
    Calls,          \* calls of the switch service in progress at a time
    HomeOf,         \* [Calls -> Processes]
    Files,          \* the manuscript files of the owner
    Values,         \* values of the fields that are archived
    Blank,          \* the value of fields a text has no archive of
    Kinds,          \* "review": the begin checks the owner's own evidence
    None,           \* no archive in a text, no success log, no session
    MaxOps,         \* bound: operations ever prepared
    MaxTroubles     \* bound: changes from outside the switch and crashes, together

ASSUME HomeIsProcess == HomeOf \in [Calls -> Processes]
ASSUME BoundsAreNat == MaxOps \in Nat /\ MaxTroubles \in Nat
ASSUME NoneIsNoValue == None \notin Values \cup Nat

VARIABLES
    row,        \* the owner: its current file, archived fields, all other state
    file,       \* file -> its text and physical revision
    oper,       \* the durable operations
    log,        \* the success log of each operation: the other state it committed on
    native,     \* process -> the native command that holds its main thread
    calls,      \* the calls of the windows
    active,     \* process -> operation -> the revision its session shows
    edits, crashes,
    settled,    \* history: operations whose settlement is in the old file
    outside     \* history: operations overtaken by a change that is not theirs

vars == <<row, file, oper, log, native, calls, active, edits, crashes, settled, outside>>

Ops == 1..MaxOps
Data == <<row, file, log>>
History == <<edits, crashes, settled, outside>>

NoOp == [phase |-> "none"]
Released == {"none", "resolved", "cancelled_safe"}
Unresolved == {o \in Ops : oper[o].phase \notin Released}

Idle == [kind |-> "none"]
Free == [at |-> "none"]
\* No session opened for an operation.
Forgotten == [o \in Ops |-> None]

Init ==
    /\ \E cur \in Files, own \in Values, kind \in Kinds :
          row = [cur |-> cur, own |-> own, rest |-> 0, kind |-> kind]
    /\ file = [f \in Files |-> [text |-> [body |-> 0, arch |-> None], rev |-> 0]]
    /\ oper = [o \in Ops |-> NoOp] /\ log = [o \in Ops |-> None]
    /\ native = [p \in Processes |-> Free] /\ calls = [c \in Calls |-> Idle]
    /\ active = [p \in Processes |-> Forgotten]
    /\ edits = 0 /\ crashes = 0 /\ settled = {} /\ outside = {}

-----------------------------------------------------------------------------
\* The phases. A phase is never entered twice, so it stands for its revision too.

\* The transitions of the recovery matrix with the outcomes the code passes: an
\* operation at db_pending cannot be contained, for the matrix wants its database
\* outcome to be UNKNOWN and the code passes on the one it has.
Transitions ==
    {<<"prepared", "settlement_started">>, <<"prepared", "cancelled_safe">>,
     <<"settlement_started", "settlement_complete">>,
     <<"settlement_complete", "db_pending">>, <<"db_pending", "db_complete">>,
     <<"db_complete", "activation_pending">>, <<"activation_pending", "resolved">>,
     <<"settlement_started", "contained">>, <<"prepared", "blocked">>,
     <<"settlement_started", "blocked">>, <<"settlement_complete", "blocked">>,
     <<"db_pending", "blocked">>}

Advances(o, from, to) == oper[o].phase = from /\ <<from, to>> \in Transitions
Advance(o, to) == oper' = [oper EXCEPT ![o].phase = to]

\* The fields a text restores.
Replacement(text) == IF text.arch = None THEN Blank ELSE text.arch

\* Digests over the row as it was when the operation was prepared.
RowAsFrozen(o) ==
    row.cur = oper[o].old /\ row.own = oper[o].own /\ row.rest = oper[o].rest

ExactlyCommitted(o) ==
    /\ log[o] # None /\ row.rest = log[o]
    /\ row.cur = oper[o].target /\ row.own = Replacement(oper[o].candidate.text)

Partial(o) ==
    \/ log[o] # None \/ row.cur = oper[o].target
    \/ row.own = Replacement(oper[o].candidate.text)

Classification(o) ==
    IF ExactlyCommitted(o) THEN "committed"
    ELSE IF log[o] = None /\ RowAsFrozen(o) THEN "not_committed"
    ELSE IF Partial(o) THEN "partial" ELSE "unverifiable"

\* What a look at the database can report: an access that fails counts as a state
\* that cannot be verified, not as an error.
Reports(o) == {Classification(o), "unverifiable"}

-----------------------------------------------------------------------------
\* Commands and their answers.

\* Call c sends a command for its operation and goes on at next with the answer.
Send(c, call, at, next) ==
    /\ native' = [native EXCEPT ![HomeOf[c]] =
                     [at |-> at, c |-> c, o |-> call.o, phase |-> "none"]]
    /\ calls' = [calls EXCEPT ![c] = [call EXCEPT !.at = "native", !.next = next]]

Goes(p, at) == native' = [native EXCEPT ![p].at = at]

Answer(p) ==
    /\ native' = [native EXCEPT ![p] = Free]
    /\ calls' = [calls EXCEPT ![native[p].c].at = calls[native[p].c].next]

EndCall(c) == calls' = [calls EXCEPT ![c] = Idle]

\* An error, or an answer after which the call has nothing left to do.
Ends(p) == native' = [native EXCEPT ![p] = Free] /\ EndCall(native[p].c)

\* The command leaves the durable state and what the window remembers alone.
Pure == UNCHANGED <<Data, oper, active, History>>

At(p, at) == native[p].at = at
OpOf(p) == native[p].o

\* The compare-and-swap of a phase, then the next step, or an error.
Cas(p, from, to, at) ==
    /\ IF Advances(OpOf(p), from, to)
       THEN Advance(OpOf(p), to) /\ Goes(p, at) /\ UNCHANGED calls
       ELSE Ends(p) /\ UNCHANGED oper
    /\ UNCHANGED <<Data, active, History>>

\* The compare-and-swap that ends the command either way.
LastCas(p, from, to) ==
    /\ IF Advances(OpOf(p), from, to) THEN Advance(OpOf(p), to) ELSE UNCHANGED oper
    /\ Ends(p) /\ UNCHANGED <<Data, active, History>>

-----------------------------------------------------------------------------
\* The drive to activation, one durable step after the other.

Gated == {"prepared", "settlement_started", "settlement_complete", "db_pending"}

ReadOperation(p) ==
    LET phase == oper[OpOf(p)].phase
    IN  /\ At(p, "read")
        /\ \/ /\ phase \in Gated \cup {"db_complete", "activation_pending"}
              /\ native' = [native EXCEPT ![p].phase = phase,
                              ![p].at = IF phase \in Gated THEN "gate" ELSE phase]
              /\ UNCHANGED <<calls, active>>
           \/ /\ phase = "resolved" /\ Ends(p)
              /\ active' = IF calls[native[p].c].turn
                        THEN [active EXCEPT ![p][OpOf(p)] = None] ELSE active
           \/ phase \in {"contained", "blocked", "cancelled_safe"} /\ Ends(p) /\ UNCHANGED active
        /\ UNCHANGED <<Data, oper, History>>

\* Until the database is done the target must still be the frozen candidate.
TargetGate(p) ==
    LET op == oper[OpOf(p)]
    IN  /\ At(p, "gate")
        /\ Goes(p, IF file[op.target] = op.candidate THEN native[p].phase ELSE "block")
        /\ Pure /\ UNCHANGED calls

Block(p) == At(p, "block") /\ LastCas(p, native[p].phase, "blocked")
Contain(p) == At(p, "contain") /\ LastCas(p, native[p].phase, "contained")

\* Mutant: the settlement starts before its phase is durable.
BeginSettlementEarly(p) ==
    /\ At(p, "prepared") /\ Goes(p, "settlement_started")
    /\ Pure /\ UNCHANGED calls

BeginSettlement(p) ==
    LET o == OpOf(p)
    IN  /\ At(p, "prepared")
        /\ IF Advances(o, "prepared", "settlement_started")
           THEN /\ Advance(o, "settlement_started")
                /\ native' = [native EXCEPT ![p].phase = "settlement_started",
                                            ![p].at = "settlement_started"]
                /\ UNCHANGED calls
           ELSE Ends(p) /\ UNCHANGED oper
        /\ UNCHANGED <<Data, active, History>>

\* Mutant: the text is put into the file whatever its revision.
SettleBlind(p) ==
    LET o == OpOf(p) op == oper[o]
    IN  /\ At(p, "settlement_started") /\ Goes(p, "verify")
        /\ file' = [file EXCEPT ![op.old] = [text |-> op.post, rev |-> @.rev + 1]]
        /\ settled' = settled \cup {o}
        /\ UNCHANGED <<row, log, oper, calls, active, edits, crashes, outside>>

\* Mutant: a settlement that is already in the file counts as a conflict.
SettleOnce(p) ==
    LET o == OpOf(p) op == oper[o]
    IN  /\ At(p, "settlement_started")
        /\ IF file[op.old] = op.pre
           THEN /\ Goes(p, "verify") /\ settled' = settled \cup {o}
                /\ file' = [file EXCEPT ![op.old] = [text |-> op.post, rev |-> @.rev + 1]]
           ELSE Goes(p, "block") /\ UNCHANGED <<file, settled>>
        /\ UNCHANGED <<row, log, oper, calls, active, edits, crashes, outside>>

\* The file is compared and replaced under the lock of its path.
Settle(p) ==
    LET o == OpOf(p) op == oper[o] old == file[op.old]
    IN  /\ At(p, "settlement_started")
        /\ \/ /\ old.text = op.post /\ Goes(p, "settled")
              /\ UNCHANGED <<file, settled>>
           \/ /\ old.text # op.post /\ old = op.pre /\ Goes(p, "verify")
              /\ file' = [file EXCEPT ![op.old] = [text |-> op.post, rev |-> @.rev + 1]]
              /\ settled' = settled \cup {o}
           \/ /\ old.text # op.post /\ old # op.pre /\ Goes(p, "block")
              /\ UNCHANGED <<file, settled>>
        /\ UNCHANGED <<row, log, oper, calls, active, edits, crashes, outside>>

VerifySettlement(p) ==
    LET op == oper[OpOf(p)]
    IN  /\ At(p, "verify")
        /\ Goes(p, IF file[op.old].text = op.post THEN "settled" ELSE "contain")
        /\ Pure /\ UNCHANGED calls

CompleteSettlement(p) ==
    LET o == OpOf(p)
    IN  /\ At(p, "settled")
        /\ IF Advances(o, "settlement_started", "settlement_complete")
           THEN /\ Advance(o, "settlement_complete") /\ Goes(p, "read")
                /\ settled' = settled \cup {o} /\ UNCHANGED calls
           ELSE Ends(p) /\ UNCHANGED <<oper, settled>>
        /\ UNCHANGED <<Data, active, edits, crashes, outside>>

BeginDb(p) ==
    At(p, "settlement_complete") /\ Cas(p, "settlement_complete", "db_pending", "read")

After == [committed |-> "db_done", not_committed |-> "commit", partial |-> "contain",
          unverifiable |-> "block"]

Classify(p) ==
    /\ At(p, "db_pending")
    /\ \E found \in Reports(OpOf(p)) : Goes(p, After[found])
    /\ Pure /\ UNCHANGED calls

\* Anything but an exact commit counts as inconsistent once there is a log.
Verifies(p) ==
    \E found \in Reports(OpOf(p)) : Goes(p, IF found = "committed" THEN "db_done" ELSE "contain")

\* One immediate transaction: fields, current file and success log together.
Commit(p) ==
    LET o == OpOf(p) op == oper[o]
    IN  /\ At(p, "commit")
        /\ \/ log[o] # None /\ Verifies(p) /\ UNCHANGED <<row, log>>
           \/ /\ log[o] = None /\ ~RowAsFrozen(o) /\ Goes(p, "block")
              /\ UNCHANGED <<row, log>>
           \/ /\ log[o] = None /\ RowAsFrozen(o) /\ Goes(p, "recheck")
              /\ row' = [row EXCEPT !.cur = op.target, !.own = Replacement(op.candidate.text)]
              /\ log' = [log EXCEPT ![o] = row.rest]
        /\ UNCHANGED <<file, oper, calls, active, History>>

Recheck(p) == At(p, "recheck") /\ Verifies(p) /\ Pure /\ UNCHANGED calls

CompleteDb(p) == At(p, "db_done") /\ Cas(p, "db_pending", "db_complete", "read")

\* The ticket of the activation is given only for an exact commit.
BeginActivation(p) ==
    /\ At(p, "db_complete")
    /\ IF ExactlyCommitted(OpOf(p)) /\ Advances(OpOf(p), "db_complete", "activation_pending")
       THEN /\ Advance(OpOf(p), "activation_pending") /\ Goes(p, "activation_pending")
            /\ UNCHANGED calls
       ELSE Ends(p) /\ UNCHANGED oper
    /\ UNCHANGED <<Data, active, History>>

GiveTicket(p) ==
    /\ At(p, "activation_pending")
    /\ IF ExactlyCommitted(OpOf(p)) THEN Answer(p) ELSE Ends(p)
    /\ Pure

-----------------------------------------------------------------------------
\* The other commands.

CleanupAdmitted(p) ==
    /\ At(p, "cleanup")
    /\ IF oper[OpOf(p)].phase = "activation_pending"
       THEN Goes(p, "demote") /\ UNCHANGED calls
       ELSE Answer(p)
    /\ Pure

\* The archive just taken over leaves the target, unless the file has changed.
CleanupTarget(p) ==
    LET op == oper[OpOf(p)]
    IN  /\ At(p, "demote") /\ Answer(p)
        /\ IF file[op.target] = op.candidate
           THEN /\ file' = [file EXCEPT ![op.target].text.arch = None, ![op.target].rev = @ + 1]
                /\ outside' = outside \cup (Unresolved \ {OpOf(p)})
           ELSE UNCHANGED <<file, outside>>
        /\ UNCHANGED <<row, log, oper, active, edits, crashes, settled>>

\* What the window reports is compared with the owner and the target as they are.
CheckActivation(p) ==
    LET o == OpOf(p) op == oper[o]
    IN  /\ At(p, "check")
        /\ \/ op.phase = "resolved" /\ Answer(p)
           \/ /\ op.phase = "activation_pending" /\ row.cur = op.target
              /\ calls[native[p].c].report = file[op.target].rev /\ ExactlyCommitted(o)
              /\ Goes(p, "resolve") /\ UNCHANGED calls
           \/ /\ op.phase # "resolved"
              /\ ~(/\ op.phase = "activation_pending" /\ row.cur = op.target
                   /\ calls[native[p].c].report = file[op.target].rev /\ ExactlyCommitted(o))
              /\ Ends(p)
        /\ Pure

Resolve(p) ==
    /\ At(p, "resolve")
    /\ IF Advances(OpOf(p), "activation_pending", "resolved")
       THEN Advance(OpOf(p), "resolved") /\ Answer(p)
       ELSE Ends(p) /\ UNCHANGED oper
    /\ UNCHANGED <<Data, active, History>>

CheckCancel(p) ==
    /\ At(p, "check_cancel")
    /\ IF oper[OpOf(p)].phase = "prepared" THEN Goes(p, "cancel") /\ UNCHANGED calls ELSE Ends(p)
    /\ Pure

CancelPrepared(p) == At(p, "cancel") /\ LastCas(p, "prepared", "cancelled_safe")

\* Any other access to a file or the database that fails is an error; a failed
\* cleanup is passed over.
Fail(p) ==
    /\ native[p] # Free /\ native[p].at \notin {"db_pending", "recheck"}
    /\ IF native[p].at \in {"cleanup", "demote"} THEN Answer(p) ELSE Ends(p)
    /\ Pure

-----------------------------------------------------------------------------
\* The calls of a window.

ThreadFree(c) == native[HomeOf[c]] = Free
Mates(c) == {d \in Calls \ {c} : HomeOf[d] = HomeOf[c]}

NewCall(kind, o, x) ==
    [kind |-> kind, o |-> o, at |-> "start", next |-> "none", x |-> x, turn |-> FALSE,
     report |-> None]

Begins(c, call) == calls' = [calls EXCEPT ![c] = call]

\* Mutant: the current file can be its own target.
TargetsAny(cur) == Files

\* Any other file of the owner can be the target.
Targets(cur) == Files \ {cur}

\* Confirm takes the lock of the owner in its window and reads what it will send.
\* Whether an operation is under way was looked at before; begin looks again.
Confirm(c) ==
    /\ calls[c] = Idle
    /\ \A d \in Mates(c) : calls[d].kind # "confirm"
    /\ \E target \in Targets(row.cur) :
          Begins(c, NewCall("confirm", 0,
                     [old |-> row.cur, target |-> target, pre |-> file[row.cur],
                      candidate |-> file[target], own |-> row.own, rest |-> row.rest]))
    /\ UNCHANGED <<Data, oper, native, active, History>>

\* Mutant: the owner's own evidence is not compared.
EvidenceOfFiles(x) ==
    file[x.old] = x.pre /\ file[x.target] = x.candidate /\ row.cur = x.old

\* What begin compares before it freezes the operation.
EvidenceHolds(x) ==
    /\ file[x.old] = x.pre /\ file[x.target] = x.candidate /\ row.cur = x.old
    /\ row.kind = "review" => row.own = x.own /\ row.rest = x.rest

NextOps == {o \in Ops : oper[o] = NoOp /\ \A q \in 1..(o - 1) : oper[q] # NoOp}

\* The begin command freezes the operation in the slot of the owner and drives on.
\* The text to settle archives the fields as the window read them.
Prepare(c) ==
    LET x == calls[c].x
    IN  /\ calls[c] # Idle /\ calls[c].kind = "confirm" /\ calls[c].at = "start"
        /\ ThreadFree(c)
        /\ \/ /\ EvidenceHolds(x) /\ Unresolved = {}
              /\ \E o \in NextOps :
                    /\ oper' = [oper EXCEPT ![o] =
                         [phase |-> "prepared", old |-> x.old, target |-> x.target,
                          pre |-> x.pre, post |-> [x.pre.text EXCEPT !.arch = x.own],
                          candidate |-> x.candidate, own |-> row.own, rest |-> row.rest]]
                    /\ Send(c, [calls[c] EXCEPT !.o = o], "read", "ticket")
           \/ /\ ~(EvidenceHolds(x) /\ Unresolved = {})
              /\ EndCall(c) /\ UNCHANGED <<oper, native>>
        /\ UNCHANGED <<Data, active, History>>

\* Recovery takes what the list of unresolved operations shows.
Continue(c) ==
    /\ calls[c] = Idle /\ ThreadFree(c)
    /\ \E o \in Unresolved : Send(c, NewCall("continue", o, None), "read", "ticket")
    /\ UNCHANGED <<Data, oper, active, History>>

SafeCancel(c) ==
    /\ calls[c] = Idle /\ ThreadFree(c)
    /\ \E o \in Unresolved : Send(c, NewCall("cancel", o, None), "check_cancel", "none")
    /\ UNCHANGED <<Data, oper, active, History>>

\* One activation at a time in a window; it drives the operation once more first.
DriveAgain(c) ==
    /\ calls[c] # Idle /\ calls[c].at = "ticket" /\ ThreadFree(c)
    /\ \A d \in Mates(c) : calls[d] = Idle \/ ~calls[d].turn
    /\ Send(c, [calls[c] EXCEPT !.turn = TRUE], "read", "revalidated")
    /\ UNCHANGED <<Data, oper, active, History>>

\* Only the call that has prepared an operation asks, once, for its cleanup.
NeedsCleanup(c) == calls[c].kind = "confirm" /\ calls[c].x.candidate.text.arch # None

Cleanup(c) ==
    /\ calls[c] # Idle /\ calls[c].at = "revalidated" /\ NeedsCleanup(c) /\ ThreadFree(c)
    /\ Send(c, calls[c], "cleanup", "cleaned")
    /\ UNCHANGED <<Data, oper, active, History>>

\* The window opens the owner's current file unless it has for this operation;
\* an open that fails ends the call.
Activate(c) ==
    LET p == HomeOf[c] o == calls[c].o
    IN  /\ calls[c] # Idle
        /\ calls[c].at = "cleaned" \/ (calls[c].at = "revalidated" /\ ~NeedsCleanup(c))
        /\ \/ /\ active[p][o] = None /\ row.cur = oper[o].target
              /\ active' = [active EXCEPT ![p][o] = file[row.cur].rev]
              /\ Begins(c, [calls[c] EXCEPT !.at = "opened"])
           \/ /\ active[p][o] # None /\ UNCHANGED active
              /\ Begins(c, [calls[c] EXCEPT !.at = "opened"])
           \/ active[p][o] = None /\ EndCall(c) /\ UNCHANGED active
        /\ UNCHANGED <<Data, oper, native, History>>

\* The revision its session shows is what the window reports. The session may have
\* been closed: then the call ends, and so will the next that finds its key.
ReportActivation(c) ==
    LET p == HomeOf[c] o == calls[c].o
    IN  /\ calls[c] # Idle /\ calls[c].at = "opened" /\ ThreadFree(c)
        /\ \/ Send(c, [calls[c] EXCEPT !.report = active[p][o]], "check", "resolved")
           \/ EndCall(c) /\ UNCHANGED native
        /\ UNCHANGED <<Data, oper, active, History>>

Succeed(c) ==
    /\ calls[c] # Idle /\ calls[c].at = "resolved" /\ EndCall(c)
    /\ active' = [active EXCEPT ![HomeOf[c]][calls[c].o] = None]
    /\ UNCHANGED <<Data, oper, native, History>>

-----------------------------------------------------------------------------
\* What is not the switch's doing.

Overtaken ==
    /\ edits + crashes < MaxTroubles /\ edits' = edits + 1 /\ outside' = outside \cup Unresolved
Rewritten(f) == [file[f] EXCEPT !.text.body = edits + 1, !.rev = @ + 1]

EditFile(f) ==
    /\ Overtaken /\ file' = [file EXCEPT ![f] = Rewritten(f)]
    /\ UNCHANGED <<row, oper, log, native, calls, active, crashes, settled>>

\* The window saves the session it opened for an operation.
SaveSession(p, o) ==
    LET target == oper[o].target
    IN  /\ Overtaken
        /\ active[p][o] # None /\ active[p][o] = file[target].rev
        /\ file' = [file EXCEPT ![target] = Rewritten(target)]
        /\ active' = [active EXCEPT ![p][o] = @ + 1]
        /\ UNCHANGED <<row, oper, log, native, calls, crashes, settled>>

EditOwner ==
    /\ Overtaken
    /\ \/ \E v \in Values \ {row.own} : row' = [row EXCEPT !.own = v]
       \/ row' = [row EXCEPT !.rest = @ + 1]
    /\ UNCHANGED <<file, oper, log, native, calls, active, crashes, settled>>

Crash(p) ==
    /\ edits + crashes < MaxTroubles /\ crashes' = crashes + 1
    /\ active[p] # Forgotten \/ \E c \in Calls : HomeOf[c] = p /\ calls[c] # Idle
    /\ native' = [native EXCEPT ![p] = Free]
    /\ calls' = [c \in Calls |-> IF HomeOf[c] = p THEN Idle ELSE calls[c]]
    /\ active' = [active EXCEPT ![p] = Forgotten]
    /\ UNCHANGED <<Data, oper, edits, settled, outside>>

-----------------------------------------------------------------------------
Command(p) ==
    \/ ReadOperation(p) \/ TargetGate(p) \/ Block(p) \/ Contain(p)
    \/ BeginSettlement(p) \/ Settle(p) \/ VerifySettlement(p) \/ CompleteSettlement(p)
    \/ BeginDb(p) \/ Classify(p) \/ Commit(p) \/ Recheck(p) \/ CompleteDb(p)
    \/ BeginActivation(p) \/ GiveTicket(p)
    \/ CleanupAdmitted(p) \/ CleanupTarget(p) \/ CheckActivation(p) \/ Resolve(p)
    \/ CheckCancel(p) \/ CancelPrepared(p) \/ Fail(p)

Call(c) ==
    \/ Confirm(c) \/ Prepare(c) \/ Continue(c) \/ SafeCancel(c)
    \/ DriveAgain(c) \/ Cleanup(c) \/ Activate(c)
    \/ ReportActivation(c) \/ Succeed(c)

Next ==
    \/ \E p \in Processes : Command(p) \/ Crash(p) \/ \E o \in Ops : SaveSession(p, o)
    \/ \E c \in Calls : Call(c)
    \/ \E f \in Files : EditFile(f)
    \/ EditOwner

Spec == Init /\ [][Next]_vars

-----------------------------------------------------------------------------
\* Properties

Phases == {"prepared", "settlement_started", "settlement_complete", "db_pending",
           "db_complete", "activation_pending", "contained", "blocked", "resolved",
           "cancelled_safe"}

Text == [body : 0..MaxTroubles, arch : Values \cup {Blank, None}]
Snapshot == [text : Text, rev : Nat]

\* One type invariant: the owner, the files, the operations and who works on them.
TypeOK ==
    /\ row \in [cur : Files, own : Values \cup {Blank}, rest : 0..MaxTroubles, kind : Kinds]
    /\ file \in [Files -> Snapshot]
    /\ \A o \in Ops : \/ oper[o] = NoOp
                      \/ /\ oper[o].phase \in Phases /\ oper[o].target \in Files
                         /\ oper[o].old \in Files \ {oper[o].target}
                         /\ oper[o].pre \in Snapshot /\ oper[o].candidate \in Snapshot
                         /\ oper[o].post \in Text
    /\ log \in [Ops -> 0..MaxTroubles \cup {None}]
    /\ \A p \in Processes : native[p] = Free \/ (native[p].o \in Ops /\ HomeOf[native[p].c] = p)
    /\ active \in [Processes -> [Ops -> Nat \cup {None}]]
    /\ settled \subseteq Ops /\ outside \subseteq Ops

\* What a phase promises the owner.
StatusAt ==
    [phase \in Phases \cup {"none"} |->
        CASE phase = "none" -> "none"
          [] phase = "resolved" -> "done"
          [] phase = "cancelled_safe" -> "cancelled"
          [] phase \in {"contained", "blocked"} -> "stuck"
          [] OTHER -> "pending"]

Promise == INSTANCE OwnerSwitch WITH
    status <- [o \in Ops |-> StatusAt[oper[o].phase]], committed <- {o \in Ops : log[o] # None},
    current <- row.cur

(***************************************************************************)
(* However processes fail, crash, continue each other's operations or      *)
(* cancel them: an operation archives and commits at most once each and in *)
(* this order, a cancelled one has done neither, a resolved one both, and  *)
(* no operation starts while another may still take an effect.             *)
(***************************************************************************)
ImplementsSwitch == Promise!Spec

(***************************************************************************)
(* What was typed into a manuscript changes only by an edit: neither the   *)
(* settlement of a stale operation nor the cleanup of its target puts back *)
(* a text that somebody has gone on writing.                               *)
(***************************************************************************)
NothingTypedIsLost ==
    [][\A f \in Files : file'[f].text.body # file[f].text.body => edits' # edits]_vars

(***************************************************************************)
(* When the transaction replaces the owner's fields, their values are      *)
(* those the operation has archived in the file it leaves, and the archive *)
(* is still there unless the file was changed by others. Only the owner    *)
(* whose own evidence is checked at begin (a review) has the first part:   *)
(* fields edited between the window's read and begin are archived nowhere. *)
(***************************************************************************)
ArchivedBeforeReplaced ==
    [][\A o \in Ops : log'[o] # log[o] =>
          /\ row.kind = "review" => oper[o].post.arch = row.own
          /\ file[oper[o].old].text = oper[o].post \/ o \in outside]_vars

\* Archived, and the transaction has had all of its effect or none.
Whole(o) ==
    /\ o \in settled
    /\ \/ ExactlyCommitted(o)
       \/ log[o] = None /\ RowAsFrozen(o) /\ file[oper[o].old].text = oper[o].post

(***************************************************************************)
(* Crashes, failed accesses and processes that pass each other never give  *)
(* an operation up half way. One that nobody has interfered with is given  *)
(* up, with the owner locked, in one place only: at db_pending, where a    *)
(* look at the database that fails blocks it. Then the fields are archived *)
(* and the owner is as frozen or exactly as committed.                     *)
(***************************************************************************)
NeverStuckHalfway ==
    [][\A o \in Ops :
          oper'[o].phase # oper[o].phase /\ oper'[o].phase \in {"blocked", "contained"} =>
             \/ o \in outside
             \/ oper[o].phase = "db_pending" /\ oper'[o].phase = "blocked" /\ Whole(o)]_vars
================================================================================
