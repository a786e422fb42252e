--------------------------- MODULE FormalSwitchProofs ---------------------------
(***************************************************************************)
(* The formal switch keeps its promise for any number of processes, calls, *)
(* files, operations, crashes and changes from outside. The invariant says *)
(* of every operation what its phase vouches for, and of every command     *)
(* under way how far its operation is at least: a command that was         *)
(* overtaken by another process knows less than there is, never more.      *)
(***************************************************************************)
EXTENDS FormalSwitch, TLAPS

Owns == Values \cup {Blank}

OperRec ==
    [phase : Phases, old : Files, target : Files, pre : Snapshot, post : Text,
     candidate : Snapshot, own : Owns, rest : 0..MaxTroubles]

Sent ==
    [old : Files, target : Files, pre : Snapshot, candidate : Snapshot,
     own : Owns, rest : 0..MaxTroubles]

Places == {"start", "native", "none", "ticket", "revalidated", "cleaned", "opened", "resolved"}

CallRec ==
    [kind : {"confirm", "continue", "cancel"}, o : Nat, at : Places, next : Places \ {"start"},
     x : Sent \cup {None}, turn : BOOLEAN, report : Nat \cup {None}]

Stages ==
    {"read", "gate", "block", "contain", "prepared", "settlement_started", "verify", "settled",
     "settlement_complete", "db_pending", "commit", "recheck", "db_done", "db_complete",
     "activation_pending", "cleanup", "demote", "check", "resolve", "check_cancel", "cancel"}

NativeRec == [at : Stages, c : Calls, o : Ops, phase : Phases \cup {"none"}]

Known(o) == o \in Ops /\ oper[o].phase # "none"

\* Owner, files, logs and history have their types.
DataOK ==
    /\ row \in [cur : Files, own : Owns, rest : 0..MaxTroubles, kind : Kinds]
    /\ file \in [Files -> Snapshot]
    /\ log \in [Ops -> 0..MaxTroubles \cup {None}]
    /\ active \in [Processes -> [Ops -> Nat \cup {None}]]
    /\ edits \in Nat /\ crashes \in Nat /\ edits + crashes <= MaxTroubles /\ row.rest <= edits
    /\ settled \subseteq Ops /\ outside \subseteq Ops

CallForm(call) ==
    /\ call \in CallRec
    /\ call.at # "start" => call.o \in Ops
    /\ call.kind = "confirm" => call.x \in Sent /\ call.x.old # call.x.target

\* A call that has gone beyond its start works on an operation there is.
CallsOK ==
    /\ calls = [c \in Calls |-> calls[c]]
    /\ \A c \in Calls : calls[c] # Idle =>
          /\ CallForm(calls[c])
          /\ calls[c].at # "start" => oper[calls[c].o].phase # "none"

\* A command answers the call that waits for it.
CommandOK(p) ==
    LET n == native[p]
    IN  /\ n \in NativeRec /\ HomeOf[n.c] = p /\ Known(n.o)
        /\ calls[n.c] # Idle /\ calls[n.c].at = "native" /\ calls[n.c].next # "native"

CommandsOK ==
    /\ native = [p \in Processes |-> native[p]]
    /\ \A p \in Processes : native[p] # Free => CommandOK(p)

-----------------------------------------------------------------------------
\* How far an operation is.

\* The phases that may follow a phase, in any number of steps.
Later ==
    [f \in Gated |->
        CASE f = "prepared" -> Phases \ {"prepared"}
          [] f = "settlement_started" -> Phases \ {"prepared", "settlement_started", "cancelled_safe"}
          [] f = "settlement_complete" -> {"db_pending", "db_complete", "activation_pending",
                                           "resolved", "blocked", "contained"}
          [] f = "db_pending" -> {"db_complete", "activation_pending", "resolved", "blocked"}]

Passed(o, f) == oper[o].phase \in Later[f]
Reached(o, f) == oper[o].phase = f \/ Passed(o, f)

InSettlement == {"settlement_started", "verify", "settled"}
InDb == {"db_pending", "commit", "recheck"}
Committed == {"recheck", "db_done", "db_complete", "activation_pending", "resolved"}

\* The settlement is over: the old file cannot be found as it was before.
Over(o) ==
    oper[o].pre.text = oper[o].post \/ oper[o].pre.rev < file[oper[o].old].rev

\* Until the commit the archive stays in the old file, but for others.
Kept(o) ==
    log[o] = None => file[oper[o].old].text = oper[o].post \/ o \in outside

\* What is frozen in an operation, and how the old file may differ from it.
FrozenOK(o) ==
    LET op == oper[o]
    IN  /\ op \in OperRec /\ op.old # op.target
        /\ op.post.body = op.pre.text.body
        /\ row.kind = "review" => op.post.arch = op.own
        /\ op.pre.rev <= file[op.old].rev
        /\ op.pre.rev = file[op.old].rev => op.pre.text = file[op.old].text

\* What the phase and the effects of an operation vouch for.
OrderOK(o) ==
    /\ o \in settled => Reached(o, "settlement_started") /\ Over(o) /\ Kept(o)
    /\ log[o] # None => o \in settled /\ Reached(o, "db_pending")
    /\ oper[o].phase \in {"settlement_complete", "db_pending"} \cup Committed => o \in settled
    /\ oper[o].phase \in Committed => log[o] # None

\* Nothing stands in the way of an operation that nobody has interfered with.
ClearOK(o) ==
    LET op == oper[o]
    IN  o \notin outside =>
        /\ op.phase \in Gated \cup {"db_complete"} => file[op.target] = op.candidate
        /\ op.phase \in {"prepared", "settlement_started"} =>
              file[op.old] = op.pre \/ file[op.old].text = op.post
        /\ op.phase \notin Released /\ log[o] = None => RowAsFrozen(o)
        /\ op.phase \notin Released /\ log[o] # None => ExactlyCommitted(o)

OperationOK(o) == FrozenOK(o) /\ OrderOK(o) /\ ClearOK(o)

OperationsOK ==
    /\ oper = [o \in Ops |-> oper[o]]
    /\ \A o \in Ops : oper[o] # NoOp => OperationOK(o)
    /\ \A o \in Ops : oper[o] = NoOp => log[o] = None /\ o \notin settled
    /\ \A o, q \in Unresolved : o = q

\* What a command has seen of its operation, or done, still holds or is surpassed.
StageOK(n) ==
    LET o == n.o
    IN  /\ n.phase \in Gated => Reached(o, n.phase)
        /\ n.at \in {"gate", "block"} => n.phase \in Gated
        /\ n.at \in InSettlement => n.phase = "settlement_started"
        /\ n.at \in InDb => n.phase = "db_pending"
        /\ n.at = "prepared" => n.phase = "prepared"
        /\ n.phase \in {"settlement_complete", "db_pending"} => o \in settled
        /\ n.at = "verify" => o \in settled
        /\ n.at = "demote" => oper[o].phase \in {"activation_pending", "resolved"}
        /\ n.at = "settled" => Over(o) /\ Kept(o)
        /\ n.at \in Committed => log[o] # None
        /\ n.at = "block" =>
              n.phase = "db_pending" \/ Passed(o, n.phase) \/ o \in outside
        /\ n.at = "contain" =>
              \/ n.phase = "db_pending"
              \/ n.phase = "settlement_started" /\ (Passed(o, n.phase) \/ o \in outside)

StagesOK == \A p \in Processes : native[p] # Free => StageOK(native[p])

SwitchInv == DataOK /\ CallsOK /\ CommandsOK /\ OperationsOK /\ StagesOK

-----------------------------------------------------------------------------
\* The matrix

\* A transition leads to a later phase and never out of a released one.
LEMMA Forward ==
  ASSUME NEW from, NEW to, <<from, to>> \in Transitions
  PROVE  /\ from \in Gated \cup {"db_complete", "activation_pending"}
         /\ from \notin Released /\ to \in Phases /\ to # "none" /\ to # "prepared" /\ to # from
         /\ \A f \in Gated : from \in {f} \cup Later[f] => to \in Later[f]
  BY DEF Transitions, Gated, Released, Phases, Later

\* What the sets of later phases hold.
LEMMA LaterPhases ==
  /\ \A f \in Gated : Later[f] \subseteq Phases /\ f \notin Later[f]
  /\ Later["settlement_started"] \cap {"none", "prepared", "settlement_started", "cancelled_safe"} = {}
  /\ Later["db_pending"] \subseteq Later["settlement_started"]
  /\ {"settlement_complete", "db_pending"} \cup Later["db_pending"] \subseteq Later["settlement_started"]
  /\ Later["settlement_started"] \subseteq
        {"settlement_complete", "db_pending", "db_complete", "activation_pending", "resolved",
         "blocked", "contained"}
  /\ Later["db_pending"] = {"db_complete", "activation_pending", "resolved", "blocked"}
  /\ "prepared" \in Gated /\ "settlement_started" \in Gated /\ "db_pending" \in Gated
  BY DEF Later, Gated, Phases

-----------------------------------------------------------------------------
\* Commands and the calls they answer

\* The command goes on at another stage.
LEMMA GoesOn ==
  ASSUME CommandsOK, CallsOK, NEW p \in Processes, native[p] # Free, NEW m \in NativeRec,
         m.c = native[p].c, m.o = native[p].o, native' = [native EXCEPT ![p] = m],
         calls' = calls, \A o \in Ops : oper[o].phase # "none" => oper'[o].phase # "none"
  PROVE  /\ CallsOK' /\ CommandsOK' /\ native'[p] = m
         /\ \A q \in Processes \ {p} : native'[q] = native[q]
<1>1. /\ native'[p] = m
      /\ \A q \in Processes \ {p} : native'[q] = native[q]
      /\ native' = [q \in Processes |-> native'[q]]
  BY DEF CommandsOK
<1>2. CallsOK'
  BY DEF CallsOK, CallForm
<1>3. CommandOK(p)'
  <2>1. CommandOK(p)
    BY DEF CommandsOK
  <2> QED
    BY <1>1, <2>1 DEF CommandOK, Known
<1>4. ASSUME NEW q \in Processes, native'[q] # Free
      PROVE  CommandOK(q)'
  <2>1. CASE q = p
    BY <1>3, <2>1
  <2>2. CASE q # p
    <3>1. CommandOK(q) /\ native'[q] = native[q]
      BY <1>1, <1>4, <2>2 DEF CommandsOK
    <3> QED
      BY <3>1 DEF CommandOK, Known
  <2> QED
    BY <2>1, <2>2
<1> QED
  BY <1>1, <1>2, <1>4 DEF CommandsOK

\* The command ends and its call goes on, or ends with it.
LEMMA Answered ==
  ASSUME CommandsOK, CallsOK, NEW p \in Processes, native[p] # Free,
         Answer(p) \/ Ends(p),
         \A o \in Ops : oper[o].phase # "none" => oper'[o].phase # "none"
  PROVE  /\ CallsOK' /\ CommandsOK' /\ native'[p] = Free
         /\ \A q \in Processes \ {p} : native'[q] = native[q]
<1> DEFINE c == native[p].c
<1>1. CommandOK(p)
  BY DEF CommandsOK
<1>2. /\ c \in Calls /\ HomeOf[c] = p /\ CallForm(calls[c]) /\ calls[c].at = "native"
      /\ calls[c].o \in Ops /\ oper[calls[c].o].phase # "none"
  BY <1>1 DEF CommandOK, NativeRec, CallsOK, CallForm
<1>3. /\ native'[p] = Free
      /\ \A q \in Processes \ {p} : native'[q] = native[q]
      /\ native' = [q \in Processes |-> native'[q]]
  BY DEF CommandsOK, Answer, Ends, EndCall
<1>4. /\ \A d \in Calls \ {c} : calls'[d] = calls[d]
      /\ calls' = [d \in Calls |-> calls'[d]]
      /\ calls'[c] = Idle \/ calls'[c] = [calls[c] EXCEPT !.at = calls[c].next]
  BY <1>2 DEF CallsOK, Answer, Ends, EndCall
<1> HIDE DEF c
<1>5. /\ CallForm([calls[c] EXCEPT !.at = calls[c].next])
      /\ [calls[c] EXCEPT !.at = calls[c].next].o = calls[c].o
  BY <1>2 DEF CallForm, CallRec, Places
<1>6. CallsOK'
  <2> SUFFICES ASSUME NEW d \in Calls, calls'[d] # Idle
               PROVE  /\ CallForm(calls'[d])
                      /\ calls'[d].at # "start" => oper'[calls'[d].o].phase # "none"
    BY <1>4 DEF CallsOK
  <2>1. CASE d = c
    BY <1>2, <1>4, <1>5, <2>1
  <2>2. CASE d # c
    BY <1>4, <2>2 DEF CallsOK, CallForm
  <2> QED
    BY <2>1, <2>2
<1>7. ASSUME NEW q \in Processes, native'[q] # Free
      PROVE  CommandOK(q)'
  <2>1. q # p /\ native'[q] = native[q] /\ CommandOK(q)
    BY <1>3, <1>7 DEF CommandsOK
  <2>2. native[q].c # c
    BY <1>2, <2>1 DEF CommandOK
  <2>3. calls'[native[q].c] = calls[native[q].c]
    BY <1>4, <2>1, <2>2 DEF CommandOK, NativeRec
  <2> QED
    BY <2>1, <2>3 DEF CommandOK, Known
<1> QED
  BY <1>3, <1>6, <1>7 DEF CommandsOK

\* A call whose process is free sends a command.
LEMMA Sends ==
  ASSUME CommandsOK, CallsOK, NEW c \in Calls, NEW call, CallForm(call), NEW at \in Stages,
         NEW next \in Places \ {"start", "native"}, ThreadFree(c), Send(c, call, at, next),
         call.o \in Ops, oper'[call.o].phase # "none",
         \A o \in Ops : oper[o].phase # "none" => oper'[o].phase # "none"
  PROVE  /\ CallsOK' /\ CommandsOK'
         /\ native'[HomeOf[c]] = [at |-> at, c |-> c, o |-> call.o, phase |-> "none"]
         /\ \A q \in Processes \ {HomeOf[c]} : native'[q] = native[q]
<1> DEFINE p == HomeOf[c]
           mine == [at |-> at, c |-> c, o |-> call.o, phase |-> "none"]
           sent == [call EXCEPT !.at = "native", !.next = next]
<1>1. p \in Processes
  BY HomeIsProcess
<1>2. /\ native'[p] = mine
      /\ \A q \in Processes \ {p} : native'[q] = native[q]
      /\ native' = [q \in Processes |-> native'[q]]
  BY <1>1 DEF CommandsOK, Send
<1>3. /\ calls'[c] = sent
      /\ \A d \in Calls \ {c} : calls'[d] = calls[d]
      /\ calls' = [d \in Calls |-> calls'[d]]
  BY DEF CallsOK, Send
<1>4. /\ CallForm(sent) /\ sent.kind # "none" /\ sent.at = "native" /\ sent.next # "native"
      /\ sent.o = call.o
  BY DEF CallForm, CallRec, Places
<1>5. sent # Idle
  BY <1>4 DEF Idle
<1>6. CallsOK'
  <2> SUFFICES ASSUME NEW d \in Calls, calls'[d] # Idle
               PROVE  /\ CallForm(calls'[d])
                      /\ calls'[d].at # "start" => oper'[calls'[d].o].phase # "none"
    BY <1>3 DEF CallsOK
  <2>1. CASE d = c
    BY <1>3, <1>4, <2>1
  <2>2. CASE d # c
    BY <1>3, <2>2 DEF CallsOK, CallForm
  <2> QED
    BY <2>1, <2>2
<1>7. ASSUME NEW q \in Processes, native'[q] # Free
      PROVE  CommandOK(q)'
  <2>1. CASE q = p
    <3>1. mine \in NativeRec /\ mine.c = c /\ mine.o = call.o
      BY DEF NativeRec
    <3> QED
      BY <1>2, <1>3, <1>4, <1>5, <2>1, <3>1 DEF CommandOK, Known
  <2>2. CASE q # p
    <3>1. native'[q] = native[q] /\ CommandOK(q) /\ native[q].c # c
      BY <1>2, <1>7, <2>2 DEF CommandsOK, CommandOK
    <3>2. calls'[native[q].c] = calls[native[q].c]
      BY <1>3, <3>1 DEF CommandOK, NativeRec
    <3> QED
      BY <3>1, <3>2 DEF CommandOK, Known
  <2> QED
    BY <2>1, <2>2
<1> QED
  BY <1>2, <1>6, <1>7 DEF CommandsOK

-----------------------------------------------------------------------------
\* What a command knows is not taken back

\* What a step may do to an operation that a command works on.
Moves(o) ==
    /\ oper'[o].phase = oper[o].phase \/ <<oper[o].phase, oper'[o].phase>> \in Transitions
    /\ o \in settled => o \in settled'
    /\ log[o] # None => log'[o] # None
    /\ o \in outside => o \in outside'
    /\ Over(o) => Over(o)'
    /\ Over(o) /\ Kept(o) /\ Reached(o, "settlement_started") => Kept(o)'

\* A phase that has been reached stays reached.
LEMMA ReachedStays ==
  ASSUME NEW o, Moves(o), NEW f \in Gated
  PROVE  /\ Reached(o, f) => Reached(o, f)'
         /\ Passed(o, f) => Passed(o, f)'
  BY Forward DEF Moves, Reached, Passed

\* What a command knows of its operation survives whatever moves the operation.
LEMMA StageStays ==
  ASSUME NEW n, StageOK(n), Moves(n.o)
  PROVE  StageOK(n)'
<1> DEFINE o == n.o
<1>1. /\ n.phase \in Gated => Reached(o, n.phase)'
      /\ n.phase \in Gated /\ Passed(o, n.phase) => Passed(o, n.phase)'
  BY ReachedStays DEF StageOK
<1>2. n.at = "settled" => Over(o)' /\ Kept(o)'
  BY LaterPhases DEF StageOK, Moves, InSettlement
<1>3. n.at = "demote" => oper'[o].phase \in {"activation_pending", "resolved"}
  BY DEF StageOK, Moves, Transitions
<1>4. n.phase = "settlement_started" => n.phase \in Gated
  BY DEF Gated
<1> QED
  BY <1>1, <1>2, <1>3, <1>4 DEF StageOK, Moves

\* The commands of the others, and the one that has ended.
LEMMA OthersStay ==
  ASSUME StagesOK, CommandsOK, NEW p \in Processes,
         \A q \in Processes \ {p} : native'[q] = native[q],
         \A o \in Ops : oper[o].phase # "none" => Moves(o),
         native'[p] # Free => StageOK(native[p])'
  PROVE  StagesOK'
<1> SUFFICES ASSUME NEW q \in Processes, native'[q] # Free
             PROVE  StageOK(native[q])'
  BY DEF StagesOK
<1>1. CASE q = p
  BY <1>1
<1>2. CASE q # p
  <2>1. native'[q] = native[q] /\ StageOK(native[q]) /\ CommandOK(q)
    BY <1>2 DEF StagesOK, CommandsOK
  <2> PICK n : n = native[q]
    OBVIOUS
  <2>2. Moves(n.o)
    BY <2>1 DEF CommandOK, Known
  <2>3. StageOK(n)'
    BY <2>1, <2>2, StageStays
  <2> QED
    BY <2>1, <2>3
<1> QED
  BY <1>1, <1>2

\* Nothing moves when nothing changes.
LEMMA Unmoved ==
  ASSUME UNCHANGED <<Data, oper, settled, outside>>
  PROVE  \A o : Moves(o)
  BY DEF Moves, Over, Kept, Data, Reached, Passed

-----------------------------------------------------------------------------
\* What the changes of owner, files and operations leave true

\* The parts of an operation known to the files and the owner.
LEMMA KnownParts ==
  ASSUME DataOK, NEW o \in Ops, oper[o] # NoOp, OperationOK(o)
  PROVE  /\ oper[o] \in OperRec /\ oper[o].old \in Files /\ oper[o].target \in Files
         /\ oper[o].old # oper[o].target
         /\ oper[o].pre.rev \in Nat /\ oper[o].phase \in Phases /\ oper[o].phase # "none"
         /\ file[oper[o].old] \in Snapshot /\ file[oper[o].old].rev \in Nat
         /\ file[oper[o].target] \in Snapshot
  BY DEF DataOK, OperationOK, FrozenOK, OperRec, Phases, Snapshot

\* An operation that is known is one there is.
LEMMA NoOpHasNoPhase ==
  \A o : oper[o].phase # "none" => oper[o] # NoOp
  BY DEF NoOp

\* Nothing an operation depends on has changed.
LEMMA Untouched ==
  ASSUME NEW o, OperationOK(o), UNCHANGED <<row, file, log, outside>>,
         oper'[o] = oper[o], o \in settled' <=> o \in settled
  PROVE  OperationOK(o)'
  BY DEF OperationOK, FrozenOK, OrderOK, ClearOK, Reached, Passed, Over, Kept, RowAsFrozen,
         ExactlyCommitted

\* An operation that has left its slot no longer depends on owner and files.
LEMMA ReleasedOutlasts ==
  ASSUME DataOK, NEW o \in Ops, oper[o] # NoOp, OperationOK(o), oper[o].phase \in Released,
         oper'[o] = oper[o], log'[o] = log[o], row'.kind = row.kind,
         \A f \in Files : file'[f] = file[f] \/ file'[f].rev = file[f].rev + 1,
         o \in settled' <=> o \in settled, o \in outside => o \in outside'
  PROVE  /\ OperationOK(o)' /\ Moves(o)
<1> DEFINE old == oper[o].old
<1>1. /\ oper[o] \in OperRec /\ old \in Files /\ oper[o].pre.rev \in Nat
      /\ file[old].rev \in Nat /\ oper[o].phase \in {"resolved", "cancelled_safe"}
  BY KnownParts DEF Released
<1>2. file'[old] = file[old] \/ file'[old].rev = file[old].rev + 1
  BY <1>1
<1>3. FrozenOK(o)'
  BY <1>1, <1>2 DEF OperationOK, FrozenOK
<1>4. Over(o) => Over(o)'
  BY <1>1, <1>2 DEF Over
<1>5. Reached(o, "settlement_started") => log[o] # None
  BY <1>1, LaterPhases DEF OperationOK, OrderOK, Reached, Passed, Committed
<1>6. OrderOK(o)'
  BY <1>4, <1>5 DEF OperationOK, OrderOK, Kept, Reached, Passed
<1>7. ClearOK(o)'
  BY <1>1 DEF ClearOK, Gated, Released
<1>8. Moves(o)
  BY <1>4, <1>5 DEF Moves, Kept
<1> QED
  BY <1>3, <1>6, <1>7, <1>8 DEF OperationOK

\* The phase of an operation advances.
LEMMA Advanced ==
  ASSUME DataOK, OperationsOK, NEW o \in Ops, NEW to,
         <<oper[o].phase, to>> \in Transitions, Advance(o, to), UNCHANGED <<Data, outside>>,
         \/ settled' = settled
         \/ /\ settled' = settled \cup {o}
            /\ Over(o) /\ Kept(o) /\ Reached(o, "settlement_started"),
         to \in {"settlement_complete", "db_pending"} \cup Committed => o \in settled',
         to \in Committed => log[o] # None
  PROVE  OperationsOK' /\ \A q \in Ops : oper[q].phase # "none" => Moves(q)
<1> DEFINE from == oper[o].phase
<1>1. /\ from \in Gated \cup {"db_complete", "activation_pending"}
      /\ from \notin Released /\ to \in Phases /\ to # "none" /\ to # "prepared" /\ to # from
  BY Forward
<1>2. from # "none" /\ oper[o] # NoOp
  BY <1>1, NoOpHasNoPhase DEF Released
<1>3. OperationOK(o) /\ oper[o] \in OperRec
  BY <1>2, KnownParts DEF OperationsOK
<1>4. /\ oper' = [q \in Ops |-> oper'[q]]
      /\ oper'[o] = [oper[o] EXCEPT !.phase = to]
      /\ \A q \in Ops \ {o} : oper'[q] = oper[q]
  BY DEF OperationsOK, Advance
<1>5. /\ oper'[o].phase = to /\ oper'[o] \in OperRec
      /\ oper'[o].old = oper[o].old /\ oper'[o].target = oper[o].target
      /\ oper'[o].pre = oper[o].pre /\ oper'[o].post = oper[o].post
      /\ oper'[o].candidate = oper[o].candidate
      /\ oper'[o].own = oper[o].own /\ oper'[o].rest = oper[o].rest
  BY <1>1, <1>3, <1>4 DEF OperRec
<1>6. UNCHANGED <<row, file, log, outside>>
  BY DEF Data
<1>7. Over(o)' <=> Over(o)
  BY <1>5, <1>6 DEF Over
<1>8. Kept(o)' <=> Kept(o)
  BY <1>5, <1>6 DEF Kept
<1>9. Moves(o)
  BY <1>5, <1>6, <1>7, <1>8 DEF Moves
<1>10. \A f \in Gated : Reached(o, f) => Reached(o, f)'
  BY <1>9, ReachedStays
<1>11. OperationOK(o)'
  <2>1. FrozenOK(o)'
    BY <1>3, <1>5, <1>6 DEF OperationOK, FrozenOK
  <2>2. OrderOK(o)'
    <3>1. o \in settled' => Reached(o, "settlement_started") /\ Over(o) /\ Kept(o)
      BY <1>3 DEF OperationOK, OrderOK
    <3>2. log[o] # None => o \in settled /\ Reached(o, "db_pending")
      BY <1>3 DEF OperationOK, OrderOK
    <3> QED
      BY <1>5, <1>6, <1>7, <1>8, <1>10, <3>1, <3>2, LaterPhases DEF OrderOK
  <2>3. ClearOK(o)'
    <3> SUFFICES ASSUME o \notin outside
                 PROVE  ClearOK(o)'
      BY <1>6 DEF ClearOK
    <3>1. to \in Gated \cup {"db_complete"} => from \in Gated
      BY DEF Transitions, Gated
    <3>2. to \in {"prepared", "settlement_started"} => from = "prepared"
      BY DEF Transitions
    <3> QED
      BY <1>1, <1>3, <1>5, <1>6, <3>1, <3>2
         DEF OperationOK, ClearOK, RowAsFrozen, ExactlyCommitted
  <2> QED
    BY <2>1, <2>2, <2>3 DEF OperationOK
<1>12. ASSUME NEW q \in Ops \ {o}
       PROVE  /\ oper[q] # NoOp => OperationOK(q)' /\ Moves(q)
              /\ q \in settled' <=> q \in settled
  <2>1. oper'[q] = oper[q] /\ (q \in settled' <=> q \in settled)
    BY <1>4
  <2>2. oper[q] # NoOp => OperationOK(q)'
    BY <1>6, <2>1, Untouched DEF OperationsOK
  <2>3. Moves(q)
    BY <1>6, <2>1 DEF Moves, Over, Kept
  <2> QED
    BY <2>1, <2>2, <2>3
<1>13. OperationsOK'
  <2>1. \A q \in Ops : oper'[q] # NoOp => OperationOK(q)'
    BY <1>4, <1>11, <1>12
  <2>2. \A q \in Ops : oper'[q] = NoOp => log'[q] = None /\ q \notin settled'
    BY <1>1, <1>4, <1>5, <1>6, <1>12 DEF OperationsOK, NoOp
  <2>3. Unresolved' \subseteq Unresolved
    BY <1>1, <1>4 DEF Unresolved
  <2> QED
    BY <1>4, <2>1, <2>2, <2>3 DEF OperationsOK
<1> QED
  BY <1>9, <1>12, <1>13, NoOpHasNoPhase

\* The slot has one operation; all others have left it.
LEMMA OneInTheSlot ==
  ASSUME OperationsOK, NEW o \in Unresolved, NEW q \in Ops \ {o}, oper[q] # NoOp,
         oper[q].phase \in Phases
  PROVE  oper[q].phase \in Released
  BY DEF OperationsOK, Unresolved

\* The settlement is written into the old file.
LEMMA Settled ==
  ASSUME DataOK, OperationsOK, NEW o \in Ops, oper[o] # NoOp,
         Reached(o, "settlement_started"),
         file[oper[o].old].text # oper[o].post, file[oper[o].old] = oper[o].pre,
         file' = [file EXCEPT ![oper[o].old] = [text |-> oper[o].post, rev |-> @.rev + 1]],
         settled' = settled \cup {o}, UNCHANGED <<row, log, oper, outside>>
  PROVE  /\ OperationsOK' /\ \A q \in Ops : oper[q].phase # "none" => Moves(q)
         /\ o \in Unresolved /\ o \notin settled /\ Over(o)' /\ Kept(o)'
<1> DEFINE old == oper[o].old
<1>1. OperationOK(o)
  BY DEF OperationsOK
<1>2. /\ oper[o] \in OperRec /\ old \in Files /\ oper[o].target \in Files
      /\ old # oper[o].target /\ oper[o].pre.rev \in Nat /\ oper[o].phase # "none"
  BY <1>1, KnownParts
<1>3. /\ file'[old] = [text |-> oper[o].post, rev |-> oper[o].pre.rev + 1]
      /\ \A f \in Files \ {old} : file'[f] = file[f]
      /\ \A f \in Files : file'[f] = file[f] \/ file'[f].rev = file[f].rev + 1
  BY <1>2 DEF DataOK
<1>4. ~Over(o)
  BY <1>2 DEF Over
<1>5. o \notin settled /\ log[o] = None
  BY <1>1, <1>4 DEF OperationOK, OrderOK
<1>6. oper[o].phase \in {"settlement_started", "blocked", "contained"}
  BY <1>1, <1>5, LaterPhases DEF OperationOK, OrderOK, Reached, Passed, Committed
<1>7. o \in Unresolved
  BY <1>6 DEF Unresolved, Released
<1>8. Over(o)' /\ Kept(o)'
  BY <1>2, <1>3 DEF Over, Kept
<1>9. OperationOK(o)'
  <2>1. FrozenOK(o)'
    BY <1>1, <1>2, <1>3 DEF OperationOK, FrozenOK
  <2>2. OrderOK(o)'
    BY <1>5, <1>6, <1>8, LaterPhases DEF OrderOK, Reached, Passed, Committed
  <2>3. ClearOK(o)'
    BY <1>1, <1>2, <1>3, <1>5, <1>6 DEF OperationOK, ClearOK, RowAsFrozen, Released
  <2> QED
    BY <2>1, <2>2, <2>3 DEF OperationOK
<1>10. Moves(o)
  BY <1>4, <1>5, <1>8 DEF Moves
<1>11. ASSUME NEW q \in Ops \ {o}, oper[q] # NoOp
       PROVE  OperationOK(q)' /\ Moves(q)
  <2>1. OperationOK(q) /\ oper[q].phase \in Phases
    BY <1>11, KnownParts DEF OperationsOK
  <2>2. oper[q].phase \in Released
    BY <1>7, <1>11, <2>1, OneInTheSlot
  <2> QED
    BY <1>3, <1>11, <2>1, <2>2, ReleasedOutlasts
<1>12. OperationsOK'
  BY <1>9, <1>11, <1>2 DEF OperationsOK, Unresolved
<1> QED
  BY <1>7, <1>5, <1>8, <1>10, <1>11, <1>12, NoOpHasNoPhase

\* The transaction commits.
LEMMA CommittedNow ==
  ASSUME DataOK, OperationsOK, NEW o \in Ops, oper[o] # NoOp,
         Reached(o, "db_pending"), o \in settled, log[o] = None, RowAsFrozen(o),
         row' = [row EXCEPT !.cur = oper[o].target,
                            !.own = Replacement(oper[o].candidate.text)],
         log' = [log EXCEPT ![o] = row.rest], UNCHANGED <<file, oper, settled, outside>>
  PROVE  /\ OperationsOK' /\ \A q \in Ops : oper[q].phase # "none" => Moves(q)
         /\ o \in Unresolved /\ log'[o] # None
<1>1. OperationOK(o)
  BY DEF OperationsOK
<1>2. oper[o].phase \in {"db_pending", "blocked"} /\ o \in Unresolved
  BY <1>1, LaterPhases
     DEF OperationOK, OrderOK, Reached, Passed, Committed, Unresolved, Released
<1>3. /\ row'.kind = row.kind /\ row'.rest = row.rest /\ row.rest \in Nat
      /\ row'.cur = oper[o].target /\ row'.own = Replacement(oper[o].candidate.text)
      /\ log'[o] = row.rest /\ \A q \in Ops \ {o} : log'[q] = log[q]
      /\ log'[o] # None
  BY NoneIsNoValue, BoundsAreNat DEF DataOK
<1>4. Over(o)' <=> Over(o)
  BY DEF Over
<1>5. OperationOK(o)'
  <2>1. FrozenOK(o)'
    BY <1>1, <1>3 DEF OperationOK, FrozenOK
  <2>2. OrderOK(o)'
    BY <1>1, <1>3, <1>4 DEF OperationOK, OrderOK, Kept, Reached, Passed
  <2>3. ClearOK(o)'
    BY <1>1, <1>2, <1>3 DEF OperationOK, ClearOK, ExactlyCommitted, Released
  <2> QED
    BY <2>1, <2>2, <2>3 DEF OperationOK
<1>6. Moves(o)
  BY <1>3, <1>4 DEF Moves, Kept
<1>7. ASSUME NEW q \in Ops \ {o}, oper[q] # NoOp
      PROVE  OperationOK(q)' /\ Moves(q)
  <2>1. OperationOK(q) /\ oper[q].phase \in Phases
    BY <1>7, KnownParts DEF OperationsOK
  <2>2. oper[q].phase \in Released
    BY <1>2, <1>7, <2>1, OneInTheSlot
  <2> QED
    BY <1>3, <1>7, <2>1, <2>2, ReleasedOutlasts
<1>8. OperationsOK'
  BY <1>3, <1>5, <1>7 DEF OperationsOK, Unresolved
<1> QED
  BY <1>2, <1>3, <1>6, <1>7, <1>8, NoOpHasNoPhase

\* A file changes that no operation in the slot depends on any more, or that it is
\* known to be overtaken by.
LEMMA FileChanged ==
  ASSUME DataOK, OperationsOK, NEW f \in Files, NEW new,
         file' = [file EXCEPT ![f] = new], new.rev = file[f].rev + 1,
         outside \subseteq outside', UNCHANGED <<row, log, oper, settled>>,
         \A q \in Unresolved :
            q \in outside' \/ (f = oper[q].target /\ oper[q].phase = "activation_pending")
  PROVE  OperationsOK' /\ \A q \in Ops : oper[q].phase # "none" => Moves(q)
<1>1. \A g \in Files : file'[g] = file[g] \/ file'[g].rev = file[g].rev + 1
  BY DEF DataOK
<1>2. ASSUME NEW q \in Ops, oper[q] # NoOp
      PROVE  OperationOK(q)' /\ Moves(q)
  <2> DEFINE old == oper[q].old
  <2>1. OperationOK(q)
    BY <1>2 DEF OperationsOK
  <2>2. /\ oper[q] \in OperRec /\ old \in Files /\ old # oper[q].target
        /\ oper[q].pre.rev \in Nat /\ file[old].rev \in Nat /\ oper[q].phase \in Phases
    BY <1>2, <2>1, KnownParts
  <2>3. CASE oper[q].phase \in Released
    BY <1>1, <1>2, <2>1, <2>3, ReleasedOutlasts
  <2>4. CASE oper[q].phase \notin Released
    <3>1. /\ q \in Unresolved
          /\ \/ q \in outside'
             \/ file'[old] = file[old] /\ oper[q].phase = "activation_pending"
      BY <2>2, <2>4 DEF Unresolved, DataOK
    <3>2. file'[old] = file[old] \/ file'[old].rev = file[old].rev + 1
      BY <1>1, <2>2
    <3>3. FrozenOK(q)'
      BY <2>1, <2>2, <3>2 DEF OperationOK, FrozenOK
    <3>4. Over(q) => Over(q)'
      BY <2>2, <3>2 DEF Over
    <3>5. Kept(q) => Kept(q)'
      BY <3>1 DEF Kept
    <3>6. OrderOK(q)'
      BY <2>1, <3>4, <3>5 DEF OperationOK, OrderOK, Reached, Passed
    <3>7. ClearOK(q)'
      BY <2>1, <3>1 DEF OperationOK, ClearOK, Gated, Released, RowAsFrozen, ExactlyCommitted
    <3>8. Moves(q)
      BY <3>4, <3>5 DEF Moves
    <3> QED
      BY <3>3, <3>6, <3>7, <3>8 DEF OperationOK
  <2> QED
    BY <2>3, <2>4
<1>3. OperationsOK'
  BY <1>2 DEF OperationsOK, Unresolved
<1> QED
  BY <1>2, <1>3, NoOpHasNoPhase

\* The owner is edited by others.
LEMMA OwnerChanged ==
  ASSUME DataOK, OperationsOK, row'.kind = row.kind, outside' = outside \cup Unresolved,
         UNCHANGED <<file, log, oper, settled>>
  PROVE  OperationsOK' /\ \A q \in Ops : oper[q].phase # "none" => Moves(q)
<1>1. ASSUME NEW q \in Ops, oper[q] # NoOp
      PROVE  OperationOK(q)' /\ Moves(q)
  <2>1. OperationOK(q) /\ oper[q].phase \in Phases
    BY <1>1, KnownParts DEF OperationsOK
  <2>2. CASE oper[q].phase \in Released
    BY <1>1, <2>1, <2>2, ReleasedOutlasts
  <2>3. CASE oper[q].phase \notin Released
    <3>1. q \in outside'
      BY <2>3 DEF Unresolved
    <3>2. Over(q)' <=> Over(q)
      BY DEF Over
    <3> QED
      BY <2>1, <3>1, <3>2
         DEF OperationOK, FrozenOK, OrderOK, ClearOK, Kept, Moves, Reached, Passed
  <2> QED
    BY <2>2, <2>3
<1>2. OperationsOK'
  BY <1>1 DEF OperationsOK, Unresolved
<1> QED
  BY <1>1, <1>2, NoOpHasNoPhase

\* A new operation takes the slot.
LEMMA Prepared ==
  ASSUME DataOK, OperationsOK, NEW o \in Ops, oper[o] = NoOp, Unresolved = {}, NEW new,
         new \in OperRec, new.phase = "prepared", new.old # new.target,
         new.post.body = new.pre.text.body, row.kind = "review" => new.post.arch = new.own,
         file[new.old] = new.pre, file[new.target] = new.candidate,
         row.cur = new.old, row.own = new.own, row.rest = new.rest,
         oper' = [oper EXCEPT ![o] = new], UNCHANGED <<Data, settled, outside>>
  PROVE  OperationsOK' /\ \A q \in Ops : oper[q].phase # "none" => Moves(q)
<1>1. /\ oper' = [q \in Ops |-> oper'[q]] /\ oper'[o] = new
      /\ \A q \in Ops \ {o} : oper'[q] = oper[q]
      /\ UNCHANGED <<row, file, log, settled, outside>>
  BY DEF OperationsOK, Data
<1>2. log[o] = None /\ o \notin settled
  BY DEF OperationsOK
<1>3. new.pre.rev \in Nat
  BY DEF OperRec, Snapshot
<1>4. OperationOK(o)'
  <2>1. FrozenOK(o)'
    BY <1>1, <1>3 DEF FrozenOK
  <2>2. OrderOK(o)'
    BY <1>1, <1>2 DEF OrderOK, Committed
  <2>3. ClearOK(o)'
    BY <1>1, <1>2 DEF ClearOK, RowAsFrozen
  <2> QED
    BY <2>1, <2>2, <2>3 DEF OperationOK
<1>5. \A q \in Ops \ {o} : oper[q] # NoOp => OperationOK(q)' /\ Moves(q)
  <2> TAKE q \in Ops \ {o}
  <2>1. oper[q] # NoOp => OperationOK(q)'
    BY <1>1, Untouched DEF OperationsOK
  <2>2. Moves(q)
    BY <1>1 DEF Moves, Over, Kept
  <2> QED
    BY <2>1, <2>2
<1>6. OperationsOK'
  <2>1. \A q \in Ops : oper'[q] # NoOp => OperationOK(q)'
    BY <1>1, <1>4, <1>5
  <2>2. new # NoOp
    BY DEF NoOp
  <2>3. \A q \in Ops : oper'[q] = NoOp => log'[q] = None /\ q \notin settled'
    BY <1>1, <2>2 DEF OperationsOK
  <2>4. Unresolved' \subseteq {o}
    BY <1>1 DEF Unresolved
  <2> QED
    BY <1>1, <2>1, <2>3, <2>4 DEF OperationsOK
<1> QED
  BY <1>5, <1>6, NoOpHasNoPhase

-----------------------------------------------------------------------------
\* A command and the operation it works on

\* An operation that is known stays known.
LEMMA MovesKnow ==
  ASSUME \A o \in Ops : oper[o].phase # "none" => Moves(o)
  PROVE  \A o \in Ops : oper[o].phase # "none" => oper'[o].phase # "none"
  BY Forward DEF Moves

\* What the invariant says of a command under way and its operation.
LEMMA CommandFacts ==
  ASSUME SwitchInv, NEW p \in Processes, native[p] # Free, NEW n, n = native[p]
  PROVE  /\ n \in NativeRec /\ n.o \in Ops /\ n.c \in Calls /\ StageOK(n)
         /\ oper[n.o] # NoOp /\ oper[n.o].phase # "none" /\ OperationOK(n.o)
         /\ oper[n.o] \in OperRec /\ oper[n.o].old # oper[n.o].target
         /\ HomeOf[n.c] = p /\ calls[n.c] # Idle /\ calls[n.c] \in CallRec
<1>1. CommandOK(p)
  BY DEF SwitchInv, CommandsOK
<1>2. n \in NativeRec /\ Known(n.o) /\ n.c \in Calls /\ HomeOf[n.c] = p /\ calls[n.c] # Idle
  BY <1>1 DEF CommandOK, NativeRec
<1>3. oper[n.o] # NoOp /\ OperationOK(n.o)
  BY <1>2, NoOpHasNoPhase DEF SwitchInv, OperationsOK, Known
<1>4. StageOK(n)
  BY DEF SwitchInv, StagesOK
<1> QED
  BY <1>2, <1>3, <1>4 DEF Known, OperationOK, FrozenOK, SwitchInv, CallsOK, CallForm

\* A command that goes on.
LEMMA Going ==
  ASSUME SwitchInv, NEW p \in Processes, native[p] # Free, NEW m \in NativeRec,
         m.c = native[p].c, m.o = native[p].o, native' = [native EXCEPT ![p] = m],
         calls' = calls, DataOK', OperationsOK',
         \A o \in Ops : oper[o].phase # "none" => Moves(o),
         StageOK(m)'
  PROVE  SwitchInv'
<1>1. /\ CallsOK' /\ CommandsOK' /\ native'[p] = m
      /\ \A q \in Processes \ {p} : native'[q] = native[q]
  BY GoesOn, MovesKnow DEF SwitchInv
<1>2. StageOK(native[p])'
  BY <1>1
<1>3. StagesOK'
  BY <1>1, <1>2, OthersStay DEF SwitchInv
<1> QED
  BY <1>1, <1>3 DEF SwitchInv

\* A command that goes on without having changed anything.
LEMMA GoingPure ==
  ASSUME SwitchInv, NEW p \in Processes, native[p] # Free, NEW at \in Stages,
         Goes(p, at), calls' = calls, Pure, NEW n, n = native[p],
         StageOK([n EXCEPT !.at = at])
  PROVE  SwitchInv'
<1> DEFINE m == [n EXCEPT !.at = at]
<1>1. n \in NativeRec /\ n.o \in Ops /\ oper[n.o].phase # "none"
  BY CommandFacts
<1>2. m \in NativeRec /\ m.c = n.c /\ m.o = n.o
  BY <1>1 DEF NativeRec
<1>3. native' = [native EXCEPT ![p] = m]
  BY DEF Goes
<1>4. \A o : Moves(o)
  BY Unmoved DEF Pure, History
<1> HIDE DEF m
<1>5. StageOK(m)'
  BY <1>4, StageStays DEF m
<1>6. DataOK' /\ OperationsOK'
  BY DEF SwitchInv, Pure, Data, History, DataOK, OperationsOK, OperationOK, FrozenOK, OrderOK,
         ClearOK, Reached, Passed, Over, Kept, RowAsFrozen, ExactlyCommitted, Unresolved
<1> QED
  BY <1>2, <1>3, <1>4, <1>5, <1>6, Going

\* A command that ends.
LEMMA Ending ==
  ASSUME SwitchInv, NEW p \in Processes, native[p] # Free, Answer(p) \/ Ends(p),
         DataOK', OperationsOK', \A o \in Ops : oper[o].phase # "none" => Moves(o)
  PROVE  SwitchInv'
<1>1. /\ CallsOK' /\ CommandsOK' /\ native'[p] = Free
      /\ \A q \in Processes \ {p} : native'[q] = native[q]
  BY Answered, MovesKnow DEF SwitchInv
<1>2. StagesOK'
  BY <1>1, OthersStay DEF SwitchInv
<1> QED
  BY <1>1, <1>2 DEF SwitchInv

\* Nothing durable changes, and the window's sessions keep their form.
LEMMA DurableStays ==
  ASSUME DataOK, OperationsOK, UNCHANGED <<Data, oper, History>>,
         active' \in [Processes -> [Ops -> Nat \cup {None}]]
  PROVE  DataOK' /\ OperationsOK' /\ \A o : Moves(o)
<1>1. \A o : Moves(o)
  BY Unmoved DEF History
<1> QED
  BY <1>1 DEF Data, History, DataOK, OperationsOK, OperationOK, FrozenOK, OrderOK,
         ClearOK, Reached, Passed, Over, Kept, RowAsFrozen, ExactlyCommitted, Unresolved

\* A command that ends without having changed anything.
LEMMA EndingPure ==
  ASSUME SwitchInv, NEW p \in Processes, native[p] # Free, Answer(p) \/ Ends(p), Pure
  PROVE  SwitchInv'
<1>1. DataOK' /\ OperationsOK' /\ \A o : Moves(o)
  BY DurableStays DEF SwitchInv, Pure, DataOK
<1> QED
  BY <1>1, Ending

\* A phase advances and the command goes on, or ends.
LEMMA DataWhenAdvanced ==
  ASSUME DataOK, UNCHANGED <<Data, active, edits, crashes, outside>>,
         settled' \subseteq Ops
  PROVE  DataOK'
  BY DEF DataOK, Data

\* What a phase asks for before it is entered.
Due(o, to) ==
    /\ to \in {"settlement_complete", "db_pending"} \cup Committed => o \in settled
    /\ to \in Committed => log[o] # None

\* A command that goes on after it has advanced the phase.
LEMMA GoingAdvanced ==
  ASSUME SwitchInv, NEW p \in Processes, native[p] # Free, NEW n, n = native[p],
         NEW to, NEW m \in NativeRec, m.c = n.c, m.o = n.o, native' = [native EXCEPT ![p] = m],
         Advances(n.o, oper[n.o].phase, to), Advance(n.o, to), Due(n.o, to), calls' = calls,
         UNCHANGED <<Data, active, History>>,
         Moves(n.o) /\ oper'[n.o].phase = to => StageOK(m)'
  PROVE  SwitchInv'
<1>1. n.o \in Ops /\ oper[n.o].phase # "none"
  BY CommandFacts
<1>2. OperationsOK' /\ \A q \in Ops : oper[q].phase # "none" => Moves(q)
  BY <1>1, Advanced DEF SwitchInv, Due, Advances, History
<1>3. oper'[n.o].phase = to
  BY <1>1 DEF SwitchInv, OperationsOK, Advance
<1>4. DataOK'
  BY DataWhenAdvanced DEF SwitchInv, History, DataOK
<1> QED
  BY <1>1, <1>2, <1>3, <1>4, Going

\* A command that ends after it has advanced the phase.
LEMMA EndingAdvanced ==
  ASSUME SwitchInv, NEW p \in Processes, native[p] # Free, NEW n, n = native[p],
         NEW to, Advances(n.o, oper[n.o].phase, to), Advance(n.o, to), Due(n.o, to),
         Answer(p) \/ Ends(p), UNCHANGED <<Data, active, History>>
  PROVE  SwitchInv'
<1>1. n.o \in Ops
  BY CommandFacts
<1>2. OperationsOK' /\ \A q \in Ops : oper[q].phase # "none" => Moves(q)
  BY <1>1, Advanced DEF SwitchInv, Due, Advances, History
<1>3. DataOK'
  BY DataWhenAdvanced DEF SwitchInv, History, DataOK
<1> QED
  BY <1>2, <1>3, Ending

\* The compare-and-swap that goes on to read the operation again.
LEMMA CasKeeps ==
  ASSUME SwitchInv, NEW p \in Processes, native[p] # Free, NEW n, n = native[p],
         NEW from, NEW to, Cas(p, from, to, "read"),
         oper[n.o].phase = from => Due(n.o, to)
  PROVE  SwitchInv'
<1> DEFINE m == [n EXCEPT !.at = "read"]
<1>1. n \in NativeRec /\ n.o \in Ops /\ StageOK(n)
  BY CommandFacts
<1>2. m \in NativeRec /\ m.c = n.c /\ m.o = n.o /\ m.phase = n.phase /\ m.at = "read"
  BY <1>1 DEF NativeRec, Stages
<1>3. CASE Advances(n.o, from, to)
  <2>1. /\ oper[n.o].phase = from /\ Advance(n.o, to) /\ calls' = calls
        /\ native' = [native EXCEPT ![p] = m] /\ UNCHANGED <<Data, active, History>>
    BY <1>3 DEF Cas, Goes, OpOf, Advances
  <2>2. StageOK(m)
    <3> HIDE DEF m
    <3> QED
      BY <1>1, <1>2 DEF StageOK, InSettlement, InDb, Committed
  <2> HIDE DEF m
  <2>3. Moves(n.o) => StageOK(m)'
    BY <1>2, <2>2, StageStays
  <2> QED
    BY <1>2, <1>3, <2>1, <2>3, GoingAdvanced
<1>4. CASE ~Advances(n.o, from, to)
  BY <1>4, EndingPure DEF Cas, OpOf, Pure
<1> QED
  BY <1>3, <1>4

\* The compare-and-swap that ends its command.
LEMMA LastCasKeeps ==
  ASSUME SwitchInv, NEW p \in Processes, native[p] # Free, NEW n, n = native[p],
         NEW from, NEW to, LastCas(p, from, to),
         Advances(n.o, from, to) => Due(n.o, to)
  PROVE  SwitchInv'
<1>1. CASE Advances(n.o, from, to)
  BY <1>1, EndingAdvanced DEF LastCas, OpOf, Advances
<1>2. CASE ~Advances(n.o, from, to)
  BY <1>2, EndingPure DEF LastCas, OpOf, Pure
<1> QED
  BY <1>1, <1>2

-----------------------------------------------------------------------------
\* The steps of the drive

\* A process whose command is at a stage is not free.
LEMMA AtIsNotFree ==
  \A p, at : At(p, at) /\ at # "none" => native[p] # Free /\ native[p].at = at
  BY DEF At, Free

\* The commands, step by step: the phase is read as it is.
LEMMA KeepsReadOperation ==
  ASSUME SwitchInv, NEW p \in Processes, ReadOperation(p)
  PROVE  SwitchInv'
<1> PICK n : n = native[p]
  OBVIOUS
<1> DEFINE o == n.o
           phase == oper[o].phase
<1>1. native[p] # Free /\ n.at = "read"
  BY AtIsNotFree DEF ReadOperation
<1>2. n \in NativeRec /\ o \in Ops /\ StageOK(n) /\ OperationOK(o) /\ n.c \in Calls
  BY <1>1, CommandFacts
<1>3. UNCHANGED <<Data, oper, History>>
  BY DEF ReadOperation
<1>4. active' \in [Processes -> [Ops -> Nat \cup {None}]]
  <2>1. active \in [Processes -> [Ops -> Nat \cup {None}]]
    BY DEF SwitchInv, DataOK
  <2>2. [active[p] EXCEPT ![o] = None] \in [Ops -> Nat \cup {None}]
    BY <2>1
  <2>3. active' = active \/ active' = [active EXCEPT ![p] = [active[p] EXCEPT ![o] = None]]
    BY DEF ReadOperation, OpOf
  <2> QED
    BY <2>1, <2>2, <2>3
<1>5. DataOK' /\ OperationsOK' /\ \A q : Moves(q)
  BY <1>3, <1>4, DurableStays DEF SwitchInv
<1>6. CASE /\ phase \in Gated \cup {"db_complete", "activation_pending"}
           /\ native' = [native EXCEPT ![p].phase = phase,
                            ![p].at = IF phase \in Gated THEN "gate" ELSE phase]
           /\ calls' = calls
  <2> PICK at : at = IF phase \in Gated THEN "gate" ELSE phase
    OBVIOUS
  <2> PICK m : m = [n EXCEPT !.phase = phase, !.at = at]
    OBVIOUS
  <2>0. /\ at = "gate" \/ at \in {"db_complete", "activation_pending"}
        /\ phase \in Gated <=> at = "gate"
        /\ at \in Stages /\ phase \in Phases
    BY <1>6 DEF Gated, Phases, Stages
  <2>1. /\ m \in NativeRec /\ m.c = n.c /\ m.o = o /\ m.phase = phase /\ m.at = at
    BY <1>2, <2>0 DEF NativeRec
  <2>2. native' = [native EXCEPT ![p] = m]
    BY <1>6 DEF SwitchInv, CommandsOK
  <2>3. StageOK(m)
    BY <1>2, <1>6, <2>0, <2>1
       DEF StageOK, OperationOK, OrderOK, Reached, InSettlement, InDb, Committed
  <2>4. StageOK(m)'
    BY <1>5, <2>3, StageStays
  <2> QED
    BY <1>1, <1>5, <1>6, <2>1, <2>2, <2>4, Going
<1>7. CASE Ends(p)
  BY <1>1, <1>5, <1>7, Ending
<1> QED
  BY <1>6, <1>7 DEF ReadOperation, OpOf

\* A target that is no longer the candidate blocks only if others changed it.
LEMMA KeepsTargetGate ==
  ASSUME SwitchInv, NEW p \in Processes, TargetGate(p)
  PROVE  SwitchInv'
<1> PICK n : n = native[p]
  OBVIOUS
<1> DEFINE op == oper[n.o]
<1>1. native[p] # Free /\ n.at = "gate"
  BY AtIsNotFree DEF TargetGate
<1>2. n \in NativeRec /\ n.o \in Ops /\ StageOK(n) /\ OperationOK(n.o) /\ n.phase \in Gated
  BY <1>1, CommandFacts DEF StageOK
<1> PICK at : at = IF file[op.target] = op.candidate THEN n.phase ELSE "block"
  OBVIOUS
<1>3. at \in Stages /\ Goes(p, at) /\ Pure /\ calls' = calls
  BY <1>2 DEF TargetGate, OpOf, Gated, Stages
<1> PICK m : m = [n EXCEPT !.at = at]
  OBVIOUS
<1>4. m.at = at /\ m.o = n.o /\ m.phase = n.phase
  BY <1>2 DEF NativeRec
<1>5. file[op.target] # op.candidate => Passed(n.o, n.phase) \/ n.o \in outside
  BY <1>2 DEF StageOK, OperationOK, ClearOK, Reached
<1>6. StageOK(m)
  BY <1>2, <1>4, <1>5 DEF StageOK, Gated, InSettlement, InDb, Committed
<1> QED
  BY <1>1, <1>3, <1>6, GoingPure

\* An operation that is given up keeps the effects it has had.
LEMMA KeepsBlock ==
  ASSUME SwitchInv, NEW p \in Processes, Block(p)
  PROVE  SwitchInv'
<1>1. native[p] # Free
  BY AtIsNotFree DEF Block
<1>2. \A o : Due(o, "blocked")
  BY DEF Due, Committed
<1> QED
  BY <1>1, <1>2, LastCasKeeps DEF Block

\* So does one that is contained.
LEMMA KeepsContain ==
  ASSUME SwitchInv, NEW p \in Processes, Contain(p)
  PROVE  SwitchInv'
<1>1. native[p] # Free
  BY AtIsNotFree DEF Contain
<1>2. \A o : Due(o, "contained")
  BY DEF Due, Committed
<1> QED
  BY <1>1, <1>2, LastCasKeeps DEF Contain

\* The settlement starts.
LEMMA KeepsBeginSettlement ==
  ASSUME SwitchInv, NEW p \in Processes, BeginSettlement(p)
  PROVE  SwitchInv'
<1> PICK n : n = native[p]
  OBVIOUS
<1>1. native[p] # Free /\ n.at = "prepared"
  BY AtIsNotFree DEF BeginSettlement
<1>2. n \in NativeRec /\ n.o \in Ops /\ StageOK(n)
  BY <1>1, CommandFacts
<1>3. CASE Advances(n.o, "prepared", "settlement_started")
  <2> PICK m : m = [n EXCEPT !.phase = "settlement_started", !.at = "settlement_started"]
    OBVIOUS
  <2>1. /\ m \in NativeRec /\ m.c = n.c /\ m.o = n.o
        /\ m.phase = "settlement_started" /\ m.at = "settlement_started"
    BY <1>2 DEF NativeRec, Stages, Phases
  <2>2. /\ oper[n.o].phase = "prepared" /\ Advance(n.o, "settlement_started")
        /\ calls' = calls /\ UNCHANGED <<Data, active, History>>
    BY <1>3 DEF BeginSettlement, OpOf, Advances
  <2>3. native' = [native EXCEPT ![p] = m]
    BY <1>3 DEF BeginSettlement, OpOf, SwitchInv, CommandsOK
  <2>4. Due(n.o, "settlement_started")
    BY DEF Due, Committed
  <2>5. oper'[n.o].phase = "settlement_started" => StageOK(m)'
    BY <2>1 DEF StageOK, Reached, InSettlement, InDb, Committed
  <2> QED
    BY <1>1, <1>3, <2>1, <2>2, <2>3, <2>4, <2>5, GoingAdvanced
<1>4. CASE ~Advances(n.o, "prepared", "settlement_started")
  BY <1>1, <1>4, EndingPure DEF BeginSettlement, OpOf, Pure
<1> QED
  BY <1>3, <1>4

\* The old file shows the settlement.
LEMMA SettlementIsThere ==
  ASSUME DataOK, NEW o \in Ops, oper[o] # NoOp, OperationOK(o),
         file[oper[o].old].text = oper[o].post
  PROVE  Over(o) /\ Kept(o)
<1>1. oper[o].pre.rev \in Nat /\ file[oper[o].old].rev \in Nat
  BY KnownParts
<1> QED
  BY <1>1 DEF OperationOK, FrozenOK, Over, Kept

\* The archive is found, written, or not written over a changed file.
LEMMA KeepsSettle ==
  ASSUME SwitchInv, NEW p \in Processes, Settle(p)
  PROVE  SwitchInv'
<1> PICK n : n = native[p]
  OBVIOUS
<1> DEFINE o == n.o
           op == oper[o]
           old == file[op.old]
<1>1. native[p] # Free /\ n.at = "settlement_started"
  BY AtIsNotFree DEF Settle
<1>2. /\ n \in NativeRec /\ o \in Ops /\ StageOK(n) /\ OperationOK(o) /\ op # NoOp
      /\ op \in OperRec
  BY <1>1, CommandFacts
<1>3. n.phase = "settlement_started" /\ Reached(o, "settlement_started")
  BY <1>1, <1>2 DEF StageOK, InSettlement, Gated
<1>4. CASE old.text = op.post /\ Goes(p, "settled") /\ UNCHANGED <<file, settled>>
  <2> PICK m : m = [n EXCEPT !.at = "settled"]
    OBVIOUS
  <2>1. m.at = "settled" /\ m.o = o /\ m.phase = n.phase
    BY <1>2 DEF NativeRec
  <2>2. StageOK(m)
    BY <1>2, <1>3, <1>4, <2>1, SettlementIsThere
       DEF SwitchInv, StageOK, InSettlement, InDb, Committed
  <2>3. Pure /\ calls' = calls /\ "settled" \in Stages
    BY <1>4 DEF Settle, Pure, Data, History, Stages
  <2> QED
    BY <1>1, <1>4, <2>2, <2>3, GoingPure
<1>5. CASE /\ old.text # op.post /\ old = op.pre /\ Goes(p, "verify")
           /\ file' = [file EXCEPT ![op.old] = [text |-> op.post, rev |-> @.rev + 1]]
           /\ settled' = settled \cup {o}
  <2> PICK m : m = [n EXCEPT !.at = "verify"]
    OBVIOUS
  <2>1. m \in NativeRec /\ m.at = "verify" /\ m.o = o /\ m.c = n.c /\ m.phase = n.phase
    BY <1>2 DEF NativeRec, Stages
  <2>2. UNCHANGED <<row, log, oper, calls, active, edits, crashes, outside>>
    BY DEF Settle
  <2>3. OperationsOK' /\ \A q \in Ops : oper[q].phase # "none" => Moves(q)
    BY <1>2, <1>3, <1>5, <2>2, Settled DEF SwitchInv
  <2>4. DataOK'
    <3>1. [text |-> op.post, rev |-> old.rev + 1] \in Snapshot
      BY <1>2 DEF SwitchInv, DataOK, OperRec, Snapshot
    <3> QED
      BY <1>2, <1>5, <2>2, <3>1 DEF SwitchInv, DataOK
  <2>5. Reached(o, "settlement_started")' /\ o \in settled'
    BY <1>3, <1>5, <2>2 DEF Reached, Passed
  <2>6. StageOK(m)'
    BY <1>3, <2>1, <2>5 DEF StageOK, InSettlement, InDb, Committed
  <2>7. native' = [native EXCEPT ![p] = m]
    BY <1>5 DEF Goes
  <2> QED
    BY <1>1, <2>1, <2>2, <2>3, <2>4, <2>6, <2>7, Going
<1>6. CASE old.text # op.post /\ old # op.pre /\ Goes(p, "block") /\ UNCHANGED <<file, settled>>
  <2> PICK m : m = [n EXCEPT !.at = "block"]
    OBVIOUS
  <2>1. m.at = "block" /\ m.o = o /\ m.phase = n.phase
    BY <1>2 DEF NativeRec
  <2>2. Passed(o, "settlement_started") \/ o \in outside
    BY <1>2, <1>3, <1>6 DEF OperationOK, ClearOK, Reached
  <2>3. StageOK(m)
    BY <1>2, <1>3, <2>1, <2>2 DEF StageOK, InSettlement, InDb, Committed, Gated
  <2>4. Pure /\ calls' = calls /\ "block" \in Stages
    BY <1>6 DEF Settle, Pure, Data, History, Stages
  <2> QED
    BY <1>1, <1>6, <2>3, <2>4, GoingPure
<1> QED
  BY <1>4, <1>5, <1>6 DEF Settle, OpOf

\* The settlement is read again.
LEMMA KeepsVerifySettlement ==
  ASSUME SwitchInv, NEW p \in Processes, VerifySettlement(p)
  PROVE  SwitchInv'
<1> PICK n : n = native[p]
  OBVIOUS
<1> DEFINE o == n.o
           op == oper[o]
<1>1. native[p] # Free /\ n.at = "verify"
  BY AtIsNotFree DEF VerifySettlement
<1>2. n \in NativeRec /\ o \in Ops /\ StageOK(n) /\ OperationOK(o) /\ op # NoOp
  BY <1>1, CommandFacts
<1>3. n.phase = "settlement_started" /\ o \in settled
  BY <1>1, <1>2 DEF StageOK, InSettlement
<1> PICK at : at = IF file[op.old].text = op.post THEN "settled" ELSE "contain"
  OBVIOUS
<1>4. at \in Stages /\ Goes(p, at) /\ Pure /\ calls' = calls
  BY DEF VerifySettlement, OpOf, Stages
<1> PICK m : m = [n EXCEPT !.at = at]
  OBVIOUS
<1>5. m.at = at /\ m.o = o /\ m.phase = n.phase
  BY <1>2 DEF NativeRec
<1>6. file[op.old].text = op.post => Over(o) /\ Kept(o)
  BY <1>2, SettlementIsThere DEF SwitchInv
<1>7. file[op.old].text # op.post => Passed(o, "settlement_started") \/ o \in outside
  BY <1>2, <1>3, LaterPhases DEF OperationOK, OrderOK, Kept, Reached, Passed
<1>8. StageOK(m)
  BY <1>2, <1>3, <1>5, <1>6, <1>7 DEF StageOK, InSettlement, InDb, Committed
<1> QED
  BY <1>1, <1>4, <1>8, GoingPure

\* The settlement is over only after the archive is in the file.
LEMMA KeepsCompleteSettlement ==
  ASSUME SwitchInv, NEW p \in Processes, CompleteSettlement(p)
  PROVE  SwitchInv'
<1> PICK n : n = native[p]
  OBVIOUS
<1> DEFINE o == n.o
<1>1. native[p] # Free /\ n.at = "settled"
  BY AtIsNotFree DEF CompleteSettlement
<1>2. n \in NativeRec /\ o \in Ops /\ StageOK(n) /\ oper[o].phase # "none"
  BY <1>1, CommandFacts
<1>3. n.phase = "settlement_started" /\ Over(o) /\ Kept(o) /\ Reached(o, "settlement_started")
  BY <1>1, <1>2 DEF StageOK, InSettlement, Gated
<1>4. CASE Advances(o, "settlement_started", "settlement_complete")
  <2> PICK m : m = [n EXCEPT !.at = "read"]
    OBVIOUS
  <2>1. m \in NativeRec /\ m.at = "read" /\ m.o = o /\ m.c = n.c /\ m.phase = n.phase
    BY <1>2 DEF NativeRec, Stages
  <2>2. /\ Advance(o, "settlement_complete") /\ Goes(p, "read")
        /\ settled' = settled \cup {o} /\ calls' = calls
        /\ UNCHANGED <<Data, active, edits, crashes, outside>>
    BY <1>4 DEF CompleteSettlement, OpOf
  <2>3. OperationsOK' /\ \A q \in Ops : oper[q].phase # "none" => Moves(q)
    BY <1>2, <1>3, <1>4, <2>2, Advanced DEF SwitchInv, Advances, Committed
  <2>4. DataOK'
    BY <1>2, <2>2, DataWhenAdvanced DEF SwitchInv, DataOK
  <2>5. StageOK(m)
    BY <1>2, <1>3, <2>1 DEF StageOK, InSettlement, InDb, Committed
  <2>6. StageOK(m)'
    BY <1>2, <2>1, <2>3, <2>5, StageStays
  <2>7. native' = [native EXCEPT ![p] = m]
    BY <2>2 DEF Goes
  <2> QED
    BY <1>1, <2>1, <2>2, <2>3, <2>4, <2>6, <2>7, Going
<1>5. CASE ~Advances(o, "settlement_started", "settlement_complete")
  BY <1>1, <1>5, EndingPure DEF CompleteSettlement, OpOf, Pure, History
<1> QED
  BY <1>4, <1>5

\* The database part starts.
LEMMA KeepsBeginDb ==
  ASSUME SwitchInv, NEW p \in Processes, BeginDb(p)
  PROVE  SwitchInv'
<1> PICK n : n = native[p]
  OBVIOUS
<1>1. native[p] # Free
  BY AtIsNotFree DEF BeginDb
<1>2. OperationOK(n.o)
  BY <1>1, CommandFacts
<1>3. oper[n.o].phase = "settlement_complete" => Due(n.o, "db_pending")
  BY <1>2 DEF OperationOK, OrderOK, Due, Committed
<1> QED
  BY <1>1, <1>3, CasKeeps DEF BeginDb

\* What stands in the way of the transaction is the doing of others.
LEMMA NotAsFrozen ==
  ASSUME NEW o, OperationOK(o), Reached(o, "db_pending"), log[o] = None, ~RowAsFrozen(o)
  PROVE  Passed(o, "db_pending") \/ o \in outside
  BY LaterPhases DEF OperationOK, ClearOK, Reached, Passed, Released

\* The owner is classified, or the look at it fails.
LEMMA KeepsClassify ==
  ASSUME SwitchInv, NEW p \in Processes, Classify(p)
  PROVE  SwitchInv'
<1> PICK n : n = native[p]
  OBVIOUS
<1> DEFINE o == n.o
<1>1. native[p] # Free /\ n.at = "db_pending"
  BY AtIsNotFree DEF Classify
<1>2. n \in NativeRec /\ o \in Ops /\ StageOK(n) /\ OperationOK(o)
  BY <1>1, CommandFacts
<1>3. n.phase = "db_pending" /\ Reached(o, "db_pending") /\ "db_pending" \in Gated
  BY <1>1, <1>2 DEF StageOK, InDb, Gated
<1>4. PICK found \in Reports(o) : Goes(p, After[found]) /\ Pure /\ calls' = calls
  BY DEF Classify, OpOf
<1> PICK at : at = After[found]
  OBVIOUS
<1>5. /\ at \in {"db_done", "commit", "contain", "block"} /\ at \in Stages
      /\ at = "db_done" => found = "committed"
  BY DEF Reports, Classification, After, Stages
<1> PICK m : m = [n EXCEPT !.at = at]
  OBVIOUS
<1>6. m.at = at /\ m.o = o /\ m.phase = n.phase
  BY <1>2 DEF NativeRec
<1>7. found = "committed" => log[o] # None
  BY DEF Reports, Classification, ExactlyCommitted
<1>8. StageOK(m)
  BY <1>2, <1>3, <1>5, <1>6, <1>7 DEF StageOK, InSettlement, InDb, Committed
<1> QED
  BY <1>1, <1>4, <1>5, <1>8, GoingPure

\* An exact commit is verified, or the command goes on to contain the operation.
LEMMA VerifiesOrContains ==
  ASSUME NEW p, Verifies(p)
  PROVE  \E at \in {"db_done", "contain"} : Goes(p, at)
  BY DEF Verifies

\* The transaction finds its log, refuses a changed owner, or commits.
LEMMA KeepsCommit ==
  ASSUME SwitchInv, NEW p \in Processes, Commit(p)
  PROVE  SwitchInv'
<1> PICK n : n = native[p]
  OBVIOUS
<1> DEFINE o == n.o
           op == oper[o]
<1>1. native[p] # Free /\ n.at = "commit"
  BY AtIsNotFree DEF Commit
<1>2. /\ n \in NativeRec /\ o \in Ops /\ StageOK(n) /\ OperationOK(o) /\ op # NoOp
      /\ op \in OperRec
  BY <1>1, CommandFacts
<1>3. /\ n.phase = "db_pending" /\ Reached(o, "db_pending") /\ "db_pending" \in Gated
      /\ o \in settled
  BY <1>1, <1>2 DEF StageOK, InDb, Gated
<1>4. CASE log[o] # None /\ Verifies(p) /\ UNCHANGED <<row, log>>
  <2>1. PICK at \in {"db_done", "contain"} : Goes(p, at)
    BY <1>4, VerifiesOrContains
  <2>3. at \in Stages /\ Pure /\ calls' = calls
    BY <1>4 DEF Commit, Stages, Pure, Data
  <2> PICK m : m = [n EXCEPT !.at = at]
    OBVIOUS
  <2>2. m.at = at /\ m.o = o /\ m.phase = n.phase
    BY <1>2 DEF NativeRec
  <2>4. StageOK(m)
    BY <1>2, <1>3, <1>4, <2>2 DEF StageOK, InSettlement, InDb, Committed
  <2> QED
    BY <1>1, <2>1, <2>3, <2>4, GoingPure
<1>5. CASE log[o] = None /\ ~RowAsFrozen(o) /\ Goes(p, "block") /\ UNCHANGED <<row, log>>
  <2> PICK m : m = [n EXCEPT !.at = "block"]
    OBVIOUS
  <2>1. m.at = "block" /\ m.o = o /\ m.phase = n.phase
    BY <1>2 DEF NativeRec
  <2>2. Passed(o, "db_pending") \/ o \in outside
    BY <1>2, <1>3, <1>5, NotAsFrozen
  <2>3. StageOK(m)
    BY <1>2, <1>3, <2>1, <2>2 DEF StageOK, InSettlement, InDb, Committed
  <2>4. Pure /\ calls' = calls /\ "block" \in Stages
    BY <1>5 DEF Commit, Pure, Data, Stages
  <2> QED
    BY <1>1, <1>5, <2>3, <2>4, GoingPure
<1>6. CASE /\ log[o] = None /\ RowAsFrozen(o) /\ Goes(p, "recheck")
           /\ row' = [row EXCEPT !.cur = op.target, !.own = Replacement(op.candidate.text)]
           /\ log' = [log EXCEPT ![o] = row.rest]
  <2> PICK m : m = [n EXCEPT !.at = "recheck"]
    OBVIOUS
  <2>1. m \in NativeRec /\ m.at = "recheck" /\ m.o = o /\ m.c = n.c /\ m.phase = n.phase
    BY <1>2 DEF NativeRec, Stages
  <2>2. UNCHANGED <<file, oper, calls, active, edits, crashes, settled, outside>>
    BY DEF Commit, History
  <2>3. /\ OperationsOK' /\ \A q \in Ops : oper[q].phase # "none" => Moves(q)
        /\ log'[o] # None
    BY <1>2, <1>3, <1>6, <2>2, CommittedNow DEF SwitchInv
  <2>4. DataOK'
    <3>1. op.target \in Files /\ Replacement(op.candidate.text) \in Owns
      BY <1>2 DEF OperRec, Snapshot, Text, Replacement, Owns
    <3>2. row.rest \in 0..MaxTroubles /\ row'.rest = row.rest
      BY <1>6 DEF SwitchInv, DataOK
    <3>3. row' \in [cur : Files, own : Owns, rest : 0..MaxTroubles, kind : Kinds]
      BY <1>6, <3>1 DEF SwitchInv, DataOK
    <3>4. log' \in [Ops -> 0..MaxTroubles \cup {None}]
      BY <1>6, <3>2 DEF SwitchInv, DataOK
    <3> QED
      BY <2>2, <3>2, <3>3, <3>4 DEF SwitchInv, DataOK
  <2>5. Reached(o, "db_pending")' /\ o \in settled'
    BY <1>3, <2>2 DEF Reached, Passed
  <2>6. StageOK(m)'
    BY <1>3, <2>1, <2>3, <2>5 DEF StageOK, InSettlement, InDb, Committed
  <2>7. native' = [native EXCEPT ![p] = m]
    BY <1>6 DEF Goes
  <2> QED
    BY <1>1, <2>1, <2>2, <2>3, <2>4, <2>6, <2>7, Going
<1> QED
  BY <1>4, <1>5, <1>6 DEF Commit, OpOf

\* The commit is read again.
LEMMA KeepsRecheck ==
  ASSUME SwitchInv, NEW p \in Processes, Recheck(p)
  PROVE  SwitchInv'
<1> PICK n : n = native[p]
  OBVIOUS
<1>1. native[p] # Free /\ n.at = "recheck"
  BY AtIsNotFree DEF Recheck
<1>2. n \in NativeRec /\ StageOK(n) /\ n.phase = "db_pending" /\ log[n.o] # None
  BY <1>1, CommandFacts DEF StageOK, InDb, Committed
<1>0. PICK at \in {"db_done", "contain"} : Goes(p, at)
  BY VerifiesOrContains DEF Recheck
<1>3. at \in Stages /\ Pure /\ calls' = calls
  BY DEF Recheck, Stages
<1> PICK m : m = [n EXCEPT !.at = at]
  OBVIOUS
<1>4. m.at = at /\ m.o = n.o /\ m.phase = n.phase
  BY <1>2 DEF NativeRec
<1>5. StageOK(m)
  BY <1>2, <1>4 DEF StageOK, InSettlement, InDb, Committed
<1> QED
  BY <1>0, <1>1, <1>3, <1>5, GoingPure

\* The database part is over only after the commit.
LEMMA KeepsCompleteDb ==
  ASSUME SwitchInv, NEW p \in Processes, CompleteDb(p)
  PROVE  SwitchInv'
<1> PICK n : n = native[p]
  OBVIOUS
<1>1. native[p] # Free /\ n.at = "db_done"
  BY AtIsNotFree DEF CompleteDb
<1>2. StageOK(n) /\ OperationOK(n.o)
  BY <1>1, CommandFacts
<1>3. Due(n.o, "db_complete")
  BY <1>1, <1>2 DEF StageOK, OperationOK, OrderOK, Due, Committed
<1> QED
  BY <1>1, <1>3, CasKeeps DEF CompleteDb

\* The activation starts.
LEMMA KeepsBeginActivation ==
  ASSUME SwitchInv, NEW p \in Processes, BeginActivation(p)
  PROVE  SwitchInv'
<1> PICK n : n = native[p]
  OBVIOUS
<1> DEFINE o == n.o
           goes == ExactlyCommitted(o) /\ Advances(o, "db_complete", "activation_pending")
<1>1. native[p] # Free /\ n.at = "db_complete"
  BY AtIsNotFree DEF BeginActivation
<1>2. n \in NativeRec /\ StageOK(n) /\ OperationOK(o)
  BY <1>1, CommandFacts
<1>3. CASE goes
  <2> PICK m : m = [n EXCEPT !.at = "activation_pending"]
    OBVIOUS
  <2>1. m \in NativeRec /\ m.at = "activation_pending" /\ m.o = o /\ m.c = n.c /\ m.phase = n.phase
    BY <1>2 DEF NativeRec, Stages
  <2>2. /\ oper[o].phase = "db_complete" /\ Advance(o, "activation_pending")
        /\ native' = [native EXCEPT ![p] = m] /\ calls' = calls
        /\ UNCHANGED <<Data, active, History>>
    BY <1>3 DEF BeginActivation, OpOf, Goes, Advances
  <2>3. Due(o, "activation_pending")
    BY <1>2, <2>2 DEF OperationOK, OrderOK, Due, Committed
  <2>4. StageOK(m)
    BY <1>2, <2>1, <2>2
       DEF StageOK, OperationOK, OrderOK, InSettlement, InDb, Committed
  <2>5. Moves(o) => StageOK(m)'
    BY <2>1, <2>4, StageStays
  <2> QED
    BY <1>1, <1>3, <2>1, <2>2, <2>3, <2>5, GoingAdvanced
<1>4. CASE ~goes
  BY <1>1, <1>4, EndingPure DEF BeginActivation, OpOf, Pure
<1> QED
  BY <1>3, <1>4

\* The ticket is given or refused.
LEMMA KeepsGiveTicket ==
  ASSUME SwitchInv, NEW p \in Processes, GiveTicket(p)
  PROVE  SwitchInv'
  BY AtIsNotFree, EndingPure DEF GiveTicket

-----------------------------------------------------------------------------
\* The steps of the other commands

\* The cleanup is admitted once the activation is pending.
LEMMA KeepsCleanupAdmitted ==
  ASSUME SwitchInv, NEW p \in Processes, CleanupAdmitted(p)
  PROVE  SwitchInv'
<1> PICK n : n = native[p]
  OBVIOUS
<1>1. native[p] # Free /\ n.at = "cleanup" /\ Pure
  BY AtIsNotFree DEF CleanupAdmitted
<1>2. n \in NativeRec /\ StageOK(n)
  BY <1>1, CommandFacts
<1>3. CASE oper[n.o].phase = "activation_pending" /\ Goes(p, "demote") /\ calls' = calls
  <2> PICK m : m = [n EXCEPT !.at = "demote"]
    OBVIOUS
  <2>1. m.at = "demote" /\ m.o = n.o /\ m.phase = n.phase
    BY <1>2 DEF NativeRec
  <2>2. StageOK(m)
    BY <1>2, <1>3, <2>1 DEF StageOK, InSettlement, InDb, Committed
  <2>3. "demote" \in Stages
    BY DEF Stages
  <2> QED
    BY <1>1, <1>3, <2>2, <2>3, GoingPure
<1>4. CASE Answer(p)
  BY <1>1, <1>4, EndingPure
<1> QED
  BY <1>3, <1>4 DEF CleanupAdmitted, OpOf

\* A file at its next revision.
LEMMA NextRevision ==
  ASSUME NEW s, NEW text, NEW rev, s = [text |-> text, rev |-> rev]
  PROVE  [s EXCEPT !.rev = s.rev + 1] = [text |-> text, rev |-> rev + 1]
  OBVIOUS

\* A text without its archive, at the next revision.
LEMMA ArchiveTakenOut ==
  ASSUME NEW s \in Snapshot
  PROVE  LET bare == [s EXCEPT !.text.arch = None]
         IN  [bare EXCEPT !.rev = bare.rev + 1]
                = [text |-> [body |-> s.text.body, arch |-> None], rev |-> s.rev + 1]
<1>1. PICK bare : bare = [s EXCEPT !.text.arch = None]
  OBVIOUS
<1>2. PICK text, rev : text = [body |-> s.text.body, arch |-> None] /\ rev = s.rev
  OBVIOUS
<1>3. [s.text EXCEPT !.arch = None] = text
  BY <1>2 DEF Snapshot, Text
<1>4. bare = [s EXCEPT !.text = text]
  BY <1>1, <1>3
<1>5. bare = [text |-> text, rev |-> rev]
  BY <1>2, <1>4 DEF Snapshot
<1>6. [bare EXCEPT !.rev = bare.rev + 1] = [text |-> text, rev |-> rev + 1]
  BY <1>5, NextRevision
<1> QED
  BY <1>1, <1>2, <1>6

\* The cleanup rewrites the target; any other operation in the slot counts as overtaken.
LEMMA KeepsCleanupTarget ==
  ASSUME SwitchInv, NEW p \in Processes, CleanupTarget(p)
  PROVE  SwitchInv'
<1> PICK n : n = native[p]
  OBVIOUS
<1> DEFINE o == n.o
           f == oper[o].target
<1>1. native[p] # Free /\ n.at = "demote" /\ Answer(p)
  BY AtIsNotFree DEF CleanupTarget
<1>2. /\ n \in NativeRec /\ o \in Ops /\ StageOK(n) /\ oper[o] \in OperRec
      /\ oper[o].phase \in {"activation_pending", "resolved"}
  BY <1>1, CommandFacts DEF StageOK
<1>3. f \in Files /\ file[f] \in Snapshot
  BY <1>2 DEF OperRec, SwitchInv, DataOK
<1>4. CASE /\ file' = [file EXCEPT ![f].text.arch = None, ![f].rev = @ + 1]
           /\ outside' = outside \cup (Unresolved \ {o})
  <2> PICK new : new = [text |-> [body |-> file[f].text.body, arch |-> None],
                        rev |-> file[f].rev + 1]
    OBVIOUS
  <2>1. new \in Snapshot /\ new.rev = file[f].rev + 1
    BY <1>3 DEF Snapshot, Text
  <2>2. file' = [file EXCEPT ![f] = new]
    <3> PICK bare : bare = [file[f] EXCEPT !.text.arch = None]
      OBVIOUS
    <3>1. new = [bare EXCEPT !.rev = bare.rev + 1]
      BY <1>3, ArchiveTakenOut
    <3> PICK first : first = [file EXCEPT ![f] = bare]
      OBVIOUS
    <3>2. first[f] = bare
      BY <1>3 DEF SwitchInv, DataOK
    <3>3. file' = [first EXCEPT ![f] = [first[f] EXCEPT !.rev = first[f].rev + 1]]
      BY <1>4
    <3>4. file' = [first EXCEPT ![f] = new]
      BY <3>1, <3>2, <3>3
    <3> QED
      BY <3>4 DEF SwitchInv, DataOK
  <2>3. UNCHANGED <<row, log, oper, active, edits, crashes, settled>>
    BY DEF CleanupTarget
  <2>4. \A q \in Unresolved :
            q \in outside' \/ (f = oper[q].target /\ oper[q].phase = "activation_pending")
    BY <1>2, <1>4 DEF Unresolved, Released
  <2>5. OperationsOK' /\ \A q \in Ops : oper[q].phase # "none" => Moves(q)
    BY <1>3, <1>4, <2>1, <2>2, <2>3, <2>4, FileChanged DEF SwitchInv
  <2>6. DataOK'
    <3>1. file' \in [Files -> Snapshot]
      BY <1>3, <2>1, <2>2 DEF SwitchInv, DataOK
    <3>2. outside' \subseteq Ops
      BY <1>4 DEF SwitchInv, DataOK, Unresolved
    <3> QED
      BY <2>3, <3>1, <3>2 DEF SwitchInv, DataOK
  <2> QED
    BY <1>1, <2>5, <2>6, Ending
<1>5. CASE UNCHANGED <<file, outside>>
  BY <1>1, <1>5, EndingPure DEF CleanupTarget, Pure, Data, History
<1> QED
  BY <1>4, <1>5 DEF CleanupTarget, OpOf

\* What the window reports is checked.
LEMMA KeepsCheckActivation ==
  ASSUME SwitchInv, NEW p \in Processes, CheckActivation(p)
  PROVE  SwitchInv'
<1> PICK n : n = native[p]
  OBVIOUS
<1>1. native[p] # Free /\ n.at = "check" /\ Pure
  BY AtIsNotFree DEF CheckActivation
<1>2. n \in NativeRec /\ StageOK(n)
  BY <1>1, CommandFacts
<1>3. CASE Goes(p, "resolve") /\ calls' = calls
  <2> PICK m : m = [n EXCEPT !.at = "resolve"]
    OBVIOUS
  <2>1. m.at = "resolve" /\ m.o = n.o /\ m.phase = n.phase
    BY <1>2 DEF NativeRec
  <2>2. StageOK(m)
    BY <1>2, <2>1 DEF StageOK, InSettlement, InDb, Committed
  <2>3. "resolve" \in Stages
    BY DEF Stages
  <2> QED
    BY <1>1, <1>3, <2>2, <2>3, GoingPure
<1>4. CASE Answer(p) \/ Ends(p)
  BY <1>1, <1>4, EndingPure
<1> QED
  BY <1>3, <1>4 DEF CheckActivation

\* The operation is resolved.
LEMMA KeepsResolve ==
  ASSUME SwitchInv, NEW p \in Processes, Resolve(p)
  PROVE  SwitchInv'
<1> PICK n : n = native[p]
  OBVIOUS
<1>1. native[p] # Free
  BY AtIsNotFree DEF Resolve
<1>2. OperationOK(n.o)
  BY <1>1, CommandFacts
<1>3. CASE Advances(n.o, "activation_pending", "resolved")
  <2>1. Due(n.o, "resolved") /\ oper[n.o].phase = "activation_pending"
    BY <1>2, <1>3 DEF OperationOK, OrderOK, Due, Committed, Advances
  <2> QED
    BY <1>1, <1>3, <2>1, EndingAdvanced DEF Resolve, OpOf
<1>4. CASE ~Advances(n.o, "activation_pending", "resolved")
  BY <1>1, <1>4, EndingPure DEF Resolve, OpOf, Pure
<1> QED
  BY <1>3, <1>4

\* A safe cancel looks at the phase,
LEMMA KeepsCheckCancel ==
  ASSUME SwitchInv, NEW p \in Processes, CheckCancel(p)
  PROVE  SwitchInv'
<1> PICK n : n = native[p]
  OBVIOUS
<1>1. native[p] # Free /\ n.at = "check_cancel" /\ Pure
  BY AtIsNotFree DEF CheckCancel
<1>2. n \in NativeRec /\ StageOK(n)
  BY <1>1, CommandFacts
<1>3. CASE Goes(p, "cancel") /\ calls' = calls
  <2> PICK m : m = [n EXCEPT !.at = "cancel"]
    OBVIOUS
  <2>1. m.at = "cancel" /\ m.o = n.o /\ m.phase = n.phase
    BY <1>2 DEF NativeRec
  <2>2. StageOK(m)
    BY <1>2, <2>1 DEF StageOK, InSettlement, InDb, Committed
  <2>3. "cancel" \in Stages
    BY DEF Stages
  <2> QED
    BY <1>1, <1>3, <2>2, <2>3, GoingPure
<1>4. CASE Ends(p)
  BY <1>1, <1>4, EndingPure
<1> QED
  BY <1>3, <1>4 DEF CheckCancel

\* and swaps it only if it is still prepared.
LEMMA KeepsCancelPrepared ==
  ASSUME SwitchInv, NEW p \in Processes, CancelPrepared(p)
  PROVE  SwitchInv'
<1>1. native[p] # Free
  BY AtIsNotFree DEF CancelPrepared
<1>2. \A o : Due(o, "cancelled_safe")
  BY DEF Due, Committed
<1> QED
  BY <1>1, <1>2, LastCasKeeps DEF CancelPrepared

\* An access fails.
LEMMA KeepsFail ==
  ASSUME SwitchInv, NEW p \in Processes, Fail(p)
  PROVE  SwitchInv'
  BY EndingPure DEF Fail

-----------------------------------------------------------------------------
\* The steps of the windows

\* A call begins, goes on in its window, or ends there.
LEMMA CallTurns ==
  ASSUME SwitchInv, NEW c \in Calls, calls[c] = Idle \/ calls[c].at # "native", NEW call,
         \/ call = Idle
         \/ CallForm(call) /\ (call.at # "start" => oper[call.o].phase # "none"),
         calls' = [calls EXCEPT ![c] = call], native' = native,
         UNCHANGED <<Data, oper, History>>,
         active' \in [Processes -> [Ops -> Nat \cup {None}]]
  PROVE  SwitchInv'
<1>1. DataOK' /\ OperationsOK' /\ \A o : Moves(o)
  BY DurableStays DEF SwitchInv
<1>2. /\ calls'[c] = call /\ \A d \in Calls \ {c} : calls'[d] = calls[d]
      /\ calls' = [d \in Calls |-> calls'[d]] /\ oper' = oper
  BY DEF SwitchInv, CallsOK
<1>3. CallsOK'
  <2> SUFFICES ASSUME NEW d \in Calls, calls'[d] # Idle
               PROVE  /\ CallForm(calls'[d])
                      /\ calls'[d].at # "start" => oper'[calls'[d].o].phase # "none"
    BY <1>2 DEF CallsOK
  <2> QED
    BY <1>2 DEF SwitchInv, CallsOK, CallForm
<1>4. CommandsOK'
  <2> SUFFICES ASSUME NEW q \in Processes, native'[q] # Free
               PROVE  CommandOK(q)'
    BY DEF SwitchInv, CommandsOK
  <2>1. native'[q] = native[q] /\ CommandOK(q)
    BY DEF SwitchInv, CommandsOK
  <2>2. native[q].c \in Calls \ {c}
    BY <2>1 DEF CommandOK, NativeRec
  <2> QED
    BY <1>2, <2>1, <2>2 DEF CommandOK, Known
<1>5. StagesOK'
  <2> SUFFICES ASSUME NEW q \in Processes, native'[q] # Free
               PROVE  StageOK(native[q])'
    BY DEF StagesOK
  <2> PICK n : n = native[q]
    OBVIOUS
  <2>1. StageOK(n)
    BY DEF SwitchInv, StagesOK
  <2> QED
    BY <1>1, <2>1, StageStays
<1> QED
  BY <1>1, <1>3, <1>4, <1>5 DEF SwitchInv

\* A call sends a command.
LEMMA CallSends ==
  ASSUME SwitchInv, NEW c \in Calls, NEW call, CallForm(call), NEW at \in Stages,
         at \in {"read", "check_cancel", "cleanup", "check"},
         NEW next \in Places \ {"start", "native"}, ThreadFree(c), Send(c, call, at, next),
         call.o \in Ops, oper'[call.o].phase # "none", UNCHANGED active,
         DataOK', OperationsOK', \A o \in Ops : oper[o].phase # "none" => Moves(o)
  PROVE  SwitchInv'
<1> PICK m : m = [at |-> at, c |-> c, o |-> call.o, phase |-> "none"]
  OBVIOUS
<1>1. /\ CallsOK' /\ CommandsOK' /\ native'[HomeOf[c]] = m
      /\ \A q \in Processes \ {HomeOf[c]} : native'[q] = native[q]
  BY Sends, MovesKnow DEF SwitchInv
<1>2. HomeOf[c] \in Processes
  BY HomeIsProcess
<1>3. StageOK(m)'
  BY DEF StageOK, Gated, InSettlement, InDb, Committed
<1>4. StageOK(native[HomeOf[c]])'
  BY <1>1, <1>3
<1>5. StagesOK'
  BY <1>1, <1>2, <1>4, OthersStay DEF SwitchInv
<1> QED
  BY <1>1, <1>5 DEF SwitchInv

\* The call that goes on has a form and an operation.
LEMMA CallFacts ==
  ASSUME SwitchInv, NEW c \in Calls, calls[c] # Idle
  PROVE  /\ CallForm(calls[c])
         /\ calls[c].at # "start" => calls[c].o \in Ops /\ oper[calls[c].o].phase # "none"
  BY DEF SwitchInv, CallsOK, CallForm

\* A command is sent for an operation there is, and nothing durable changes.
LEMMA SendsPure ==
  ASSUME SwitchInv, NEW c \in Calls, NEW call, CallForm(call),
         NEW at \in {"read", "check_cancel", "cleanup", "check"},
         NEW next \in Places \ {"start", "native"}, ThreadFree(c), Send(c, call, at, next),
         call.o \in Ops, oper[call.o].phase # "none", UNCHANGED <<Data, oper, active, History>>
  PROVE  SwitchInv'
<1>1. DataOK' /\ OperationsOK' /\ \A o : Moves(o)
  BY DurableStays DEF SwitchInv, DataOK
<1> QED
  BY <1>1, CallSends DEF Stages

\* The calls, step by step: the evidence is read.
LEMMA KeepsConfirm ==
  ASSUME SwitchInv, NEW c \in Calls, Confirm(c)
  PROVE  SwitchInv'
<1>1. PICK target \in Targets(row.cur) :
          calls' = [calls EXCEPT ![c] = NewCall("confirm", 0,
                     [old |-> row.cur, target |-> target, pre |-> file[row.cur],
                      candidate |-> file[target], own |-> row.own, rest |-> row.rest])]
  BY DEF Confirm, Begins
<1> PICK x : x = [old |-> row.cur, target |-> target, pre |-> file[row.cur],
                  candidate |-> file[target], own |-> row.own, rest |-> row.rest]
  OBVIOUS
<1>2. x \in Sent /\ x.old # x.target
  BY DEF SwitchInv, DataOK, Sent, Targets
<1>3. CallForm(NewCall("confirm", 0, x))
  BY <1>2 DEF CallForm, NewCall, CallRec, Places
<1>4. NewCall("confirm", 0, x).at = "start"
  BY DEF NewCall
<1>5. calls[c] = Idle /\ native' = native /\ UNCHANGED <<Data, oper, active, History>>
  BY DEF Confirm
<1>6. active' \in [Processes -> [Ops -> Nat \cup {None}]]
  BY <1>5 DEF SwitchInv, DataOK
<1> QED
  BY <1>1, <1>3, <1>4, <1>5, <1>6, CallTurns

\* An operation is frozen in the free slot.
LEMMA KeepsPrepare ==
  ASSUME SwitchInv, NEW c \in Calls, Prepare(c)
  PROVE  SwitchInv'
<1> PICK call : call = calls[c]
  OBVIOUS
<1> DEFINE x == call.x
<1>1. /\ call # Idle /\ call.kind = "confirm" /\ call.at = "start" /\ ThreadFree(c)
      /\ CallForm(call) /\ x \in Sent /\ x.old # x.target
      /\ UNCHANGED <<Data, active, History>>
  BY CallFacts DEF Prepare, CallForm
<1>2. ASSUME EvidenceHolds(x), Unresolved = {}, NEW o \in NextOps,
             oper' = [oper EXCEPT ![o] =
                 [phase |-> "prepared", old |-> x.old, target |-> x.target,
                  pre |-> x.pre, post |-> [x.pre.text EXCEPT !.arch = x.own],
                  candidate |-> x.candidate, own |-> row.own, rest |-> row.rest]],
             Send(c, [call EXCEPT !.o = o], "read", "ticket")
      PROVE  SwitchInv'
  <2>1. PICK post : post = [x.pre.text EXCEPT !.arch = x.own]
    OBVIOUS
  <2>2. PICK new : new = [phase |-> "prepared", old |-> x.old, target |-> x.target,
                          pre |-> x.pre, post |-> post, candidate |-> x.candidate,
                          own |-> row.own, rest |-> row.rest]
    OBVIOUS
  <2>3. post \in Text /\ post.body = x.pre.text.body /\ post.arch = x.own
    BY <1>1, <2>1 DEF Sent, Snapshot, Text, Owns
  <2>4. /\ new \in OperRec /\ new.phase = "prepared" /\ new.old # new.target
        /\ new.post.body = new.pre.text.body
    BY <1>1, <2>2, <2>3 DEF OperRec, Sent, SwitchInv, DataOK, Phases
  <2>5. /\ row.kind = "review" => new.post.arch = new.own
        /\ file[new.old] = new.pre /\ file[new.target] = new.candidate
        /\ row.cur = new.old /\ row.own = new.own /\ row.rest = new.rest
    BY <1>2, <2>2, <2>3 DEF EvidenceHolds
  <2>6. o \in Ops /\ oper[o] = NoOp
    BY DEF NextOps
  <2>7. oper' = [oper EXCEPT ![o] = new]
    BY <1>2, <2>1, <2>2
  <2>8. OperationsOK' /\ \A q \in Ops : oper[q].phase # "none" => Moves(q)
    <3>1. DataOK /\ OperationsOK /\ UNCHANGED <<Data, settled, outside>> /\ Unresolved = {}
      BY <1>1, <1>2 DEF SwitchInv, History
    <3> QED
      BY <2>4, <2>5, <2>6, <2>7, <3>1, Prepared
  <2>9. DataOK'
    BY <1>1, DataWhenAdvanced DEF SwitchInv, History, DataOK
  <2>10. oper'[o].phase # "none"
    BY <2>4, <2>6, <2>7 DEF SwitchInv, OperationsOK
  <2>11. PICK sent : sent = [call EXCEPT !.o = o]
    OBVIOUS
  <2>12. CallForm(sent) /\ sent.o = o
    BY <1>1, <2>6, <2>11 DEF CallForm, CallRec, Ops
  <2>13. Send(c, sent, "read", "ticket")
    BY <1>2, <2>11
  <2> QED
    BY <1>1, <2>6, <2>8, <2>9, <2>10, <2>12, <2>13, CallSends DEF Stages, Places
<1>3. CASE EndCall(c) /\ UNCHANGED <<oper, native>>
  <2>1. active' \in [Processes -> [Ops -> Nat \cup {None}]]
    BY <1>1 DEF SwitchInv, DataOK
  <2> QED
    BY <1>1, <1>3, <2>1, CallTurns DEF EndCall
<1> QED
  BY <1>2, <1>3 DEF Prepare

\* A call taken up from the list of unresolved operations.
LEMMA NewCallForm ==
  ASSUME NEW kind \in {"continue", "cancel"}, NEW o \in Unresolved, SwitchInv
  PROVE  /\ CallForm(NewCall(kind, o, None)) /\ NewCall(kind, o, None).o = o
         /\ o \in Ops /\ oper[o].phase # "none"
  BY DEF CallForm, NewCall, CallRec, Places, Unresolved, Released, Ops

\* A listed operation is continued,
LEMMA KeepsContinue ==
  ASSUME SwitchInv, NEW c \in Calls, Continue(c)
  PROVE  SwitchInv'
<1>1. PICK o \in Unresolved : Send(c, NewCall("continue", o, None), "read", "ticket")
  BY DEF Continue
<1>2. ThreadFree(c) /\ UNCHANGED <<Data, oper, active, History>>
  BY DEF Continue
<1> QED
  BY <1>1, <1>2, NewCallForm, SendsPure DEF Places

\* or cancelled.
LEMMA KeepsSafeCancel ==
  ASSUME SwitchInv, NEW c \in Calls, SafeCancel(c)
  PROVE  SwitchInv'
<1>1. PICK o \in Unresolved : Send(c, NewCall("cancel", o, None), "check_cancel", "none")
  BY DEF SafeCancel
<1>2. ThreadFree(c) /\ UNCHANGED <<Data, oper, active, History>>
  BY DEF SafeCancel
<1> QED
  BY <1>1, <1>2, NewCallForm, SendsPure DEF Places

\* The ticket is revalidated.
LEMMA KeepsDriveAgain ==
  ASSUME SwitchInv, NEW c \in Calls, DriveAgain(c)
  PROVE  SwitchInv'
<1> PICK call : call = [calls[c] EXCEPT !.turn = TRUE]
  OBVIOUS
<1>1. /\ CallForm(calls[c]) /\ calls[c].at = "ticket" /\ calls[c].o \in Ops
      /\ oper[calls[c].o].phase # "none"
  BY CallFacts DEF DriveAgain
<1>2. CallForm(call) /\ call.o = calls[c].o
  BY <1>1 DEF CallForm, CallRec
<1>3. /\ ThreadFree(c) /\ UNCHANGED <<Data, oper, active, History>>
      /\ Send(c, call, "read", "revalidated")
  BY DEF DriveAgain
<1> QED
  BY <1>1, <1>2, <1>3, SendsPure DEF Places

\* The cleanup is asked for.
LEMMA KeepsCleanup ==
  ASSUME SwitchInv, NEW c \in Calls, Cleanup(c)
  PROVE  SwitchInv'
<1> PICK call : call = calls[c]
  OBVIOUS
<1>1. CallForm(call) /\ call.at = "revalidated" /\ call.o \in Ops /\ oper[call.o].phase # "none"
  BY CallFacts DEF Cleanup
<1>2. /\ ThreadFree(c) /\ UNCHANGED <<Data, oper, active, History>>
      /\ Send(c, call, "cleanup", "cleaned")
  BY DEF Cleanup
<1> QED
  BY <1>1, <1>2, SendsPure DEF Places

\* The shown revision is reported.
LEMMA KeepsReportActivation ==
  ASSUME SwitchInv, NEW c \in Calls, ReportActivation(c)
  PROVE  SwitchInv'
<1> PICK r : r = active[HomeOf[c]][calls[c].o]
  OBVIOUS
<1> PICK call : call = [calls[c] EXCEPT !.report = r]
  OBVIOUS
<1>1. /\ CallForm(calls[c]) /\ calls[c].at = "opened" /\ calls[c].o \in Ops
      /\ oper[calls[c].o].phase # "none"
  BY CallFacts DEF ReportActivation
<1>2. r \in Nat \cup {None}
  BY <1>1, HomeIsProcess DEF SwitchInv, DataOK
<1>3. CallForm(call) /\ call.o = calls[c].o
  BY <1>1, <1>2 DEF CallForm, CallRec
<1>4. ThreadFree(c) /\ UNCHANGED <<Data, oper, active, History>>
  BY DEF ReportActivation
<1>5. CASE Send(c, call, "check", "resolved")
  BY <1>1, <1>3, <1>4, <1>5, SendsPure DEF Places
<1>6. CASE EndCall(c) /\ native' = native
  <2>1. active' \in [Processes -> [Ops -> Nat \cup {None}]]
    BY <1>4 DEF SwitchInv, DataOK
  <2> QED
    BY <1>1, <1>4, <1>6, <2>1, CallTurns DEF EndCall
<1> QED
  BY <1>5, <1>6 DEF ReportActivation

\* The target is opened.
LEMMA KeepsActivate ==
  ASSUME SwitchInv, NEW c \in Calls, Activate(c)
  PROVE  SwitchInv'
<1> DEFINE p == HomeOf[c]
<1> PICK o : o = calls[c].o
  OBVIOUS
<1> PICK call : call = [calls[c] EXCEPT !.at = "opened"]
  OBVIOUS
<1>1. /\ CallForm(calls[c]) /\ calls[c].at \in {"cleaned", "revalidated"} /\ o \in Ops
      /\ oper[o].phase # "none"
  BY CallFacts DEF Activate
<1>2. CallForm(call) /\ call.o = o
  BY <1>1 DEF CallForm, CallRec, Places
<1>3. active' \in [Processes -> [Ops -> Nat \cup {None}]]
  <2>1. file[row.cur].rev \in Nat /\ active \in [Processes -> [Ops -> Nat \cup {None}]]
    BY DEF SwitchInv, DataOK, Snapshot
  <2>2. [active[p] EXCEPT ![o] = file[row.cur].rev] \in [Ops -> Nat \cup {None}]
    BY <2>1, HomeIsProcess
  <2>3. \/ active' = active
        \/ active' = [active EXCEPT ![p] = [active[p] EXCEPT ![o] = file[row.cur].rev]]
    BY DEF Activate
  <2> QED
    BY <2>1, <2>2, <2>3, HomeIsProcess
<1>4. native' = native /\ UNCHANGED <<Data, oper, History>>
  BY DEF Activate
<1>5. calls' = [calls EXCEPT ![c] = call] \/ calls' = [calls EXCEPT ![c] = Idle]
  BY DEF Activate, Begins, EndCall
<1> QED
  BY <1>1, <1>2, <1>3, <1>4, <1>5, CallTurns

\* The call is over.
LEMMA KeepsSucceed ==
  ASSUME SwitchInv, NEW c \in Calls, Succeed(c)
  PROVE  SwitchInv'
<1> DEFINE p == HomeOf[c]
<1> PICK o : o = calls[c].o
  OBVIOUS
<1>1. /\ calls[c].at = "resolved" /\ calls' = [calls EXCEPT ![c] = Idle]
      /\ native' = native /\ UNCHANGED <<Data, oper, History>>
  BY DEF Succeed, EndCall
<1>2. active' \in [Processes -> [Ops -> Nat \cup {None}]]
  <2>1. active \in [Processes -> [Ops -> Nat \cup {None}]]
    BY DEF SwitchInv, DataOK
  <2>2. [active[p] EXCEPT ![o] = None] \in [Ops -> Nat \cup {None}]
    BY <2>1, HomeIsProcess
  <2>3. active' = [active EXCEPT ![p] = [active[p] EXCEPT ![o] = None]]
    BY DEF Succeed
  <2> QED
    BY <2>1, <2>2, <2>3, HomeIsProcess
<1> QED
  BY <1>1, <1>2, CallTurns

-----------------------------------------------------------------------------
\* The steps of others

\* Nobody at work takes part.
LEMMA FromOutside ==
  ASSUME SwitchInv, DataOK', OperationsOK', UNCHANGED <<oper, native, calls>>,
         \A o \in Ops : oper[o].phase # "none" => Moves(o)
  PROVE  SwitchInv'
<1>1. CallsOK' /\ CommandsOK'
  BY DEF SwitchInv, CallsOK, CallForm, CommandsOK, CommandOK, Known
<1>2. StagesOK'
  <2> SUFFICES ASSUME NEW q \in Processes, native'[q] # Free
               PROVE  StageOK(native[q])'
    BY DEF StagesOK
  <2> PICK n : n = native[q]
    OBVIOUS
  <2>1. StageOK(n) /\ Moves(n.o)
    BY CommandFacts DEF SwitchInv, StagesOK
  <2> QED
    BY <2>1, StageStays
<1> QED
  BY <1>1, <1>2 DEF SwitchInv

\* The bounds and the history of a change from outside.
LEMMA OvertakenData ==
  ASSUME DataOK, Overtaken
  PROVE  /\ edits' \in Nat /\ edits' = edits + 1 /\ edits' + crashes <= MaxTroubles
         /\ edits + 1 \in 0..MaxTroubles /\ crashes \in Nat
         /\ outside' = outside \cup Unresolved /\ outside' \subseteq Ops
  BY BoundsAreNat DEF DataOK, Overtaken, Unresolved

\* A file is written by others.
LEMMA FileWritten ==
  ASSUME SwitchInv, Overtaken, NEW f \in Files, file' = [file EXCEPT ![f] = Rewritten(f)],
         UNCHANGED <<row, oper, log, native, calls, crashes, settled>>,
         active' \in [Processes -> [Ops -> Nat \cup {None}]]
  PROVE  SwitchInv'
<1>1. PICK new : new = Rewritten(f)
  OBVIOUS
<1>2. file[f] \in Snapshot
  BY DEF SwitchInv, DataOK
<1>3. PICK body, text : body = edits + 1 /\ text = [file[f].text EXCEPT !.body = body]
  OBVIOUS
<1>4. text \in Text
  BY <1>2, <1>3, OvertakenData DEF SwitchInv, Snapshot, Text
<1>5. new = [text |-> text, rev |-> file[f].rev + 1]
  <2>1. new = [[file[f] EXCEPT !.text = text] EXCEPT !.rev = file[f].rev + 1]
    BY <1>1, <1>2, <1>3 DEF Rewritten, Snapshot
  <2>2. PICK s, rev : s = [file[f] EXCEPT !.text = text] /\ rev = file[f].rev
    OBVIOUS
  <2>3. s = [text |-> text, rev |-> rev] /\ s.rev = rev
    BY <1>2, <2>2 DEF Snapshot
  <2>4. new = [s EXCEPT !.rev = s.rev + 1]
    BY <2>1, <2>2, <2>3
  <2>5. new = [text |-> text, rev |-> rev + 1]
    BY <2>3, <2>4, NextRevision
  <2> QED
    BY <2>2, <2>5
<1>6. new \in Snapshot /\ new.rev = file[f].rev + 1
  BY <1>2, <1>4, <1>5 DEF Snapshot
<1>7. OperationsOK' /\ \A q \in Ops : oper[q].phase # "none" => Moves(q)
  BY <1>1, <1>6, FileChanged DEF SwitchInv, Overtaken
<1>8. DataOK'
  <2>1. file' \in [Files -> Snapshot]
    BY <1>1, <1>6 DEF SwitchInv, DataOK
  <2> QED
    BY <2>1, OvertakenData DEF SwitchInv, DataOK
<1> QED
  BY <1>7, <1>8, FromOutside

\* The owner is written by others, or nothing is.
LEMMA OwnerWritten ==
  ASSUME SwitchInv, Overtaken, row'.kind = row.kind, row'.rest \in 0..(edits + 1),
         row' \in [cur : Files, own : Owns, rest : Nat, kind : Kinds],
         UNCHANGED <<file, oper, log, native, calls, crashes, settled>>,
         active' \in [Processes -> [Ops -> Nat \cup {None}]]
  PROVE  SwitchInv'
<1>1. OperationsOK' /\ \A q \in Ops : oper[q].phase # "none" => Moves(q)
  BY OwnerChanged DEF SwitchInv, Overtaken
<1>2. row' \in [cur : Files, own : Owns, rest : 0..MaxTroubles, kind : Kinds]
  BY BoundsAreNat, OvertakenData DEF SwitchInv
<1>3. DataOK'
  BY <1>2, OvertakenData DEF SwitchInv, DataOK
<1> QED
  BY <1>1, <1>3, FromOutside

\* Others write a file,
LEMMA KeepsEditFile ==
  ASSUME SwitchInv, NEW f \in Files, EditFile(f)
  PROVE  SwitchInv'
  BY FileWritten DEF EditFile, SwitchInv, DataOK

\* the window saves the session it has opened,
LEMMA KeepsSaveSession ==
  ASSUME SwitchInv, NEW p \in Processes, NEW o \in Ops, SaveSession(p, o)
  PROVE  SwitchInv'
<1> PICK target : target = oper[o].target
  OBVIOUS
<1>1. /\ Overtaken /\ UNCHANGED <<row, oper, log, native, calls, crashes, settled>>
      /\ file' = [file EXCEPT ![target] = Rewritten(target)]
  BY DEF SaveSession
<1>2. active' \in [Processes -> [Ops -> Nat \cup {None}]]
  <2>1. active \in [Processes -> [Ops -> Nat \cup {None}]] /\ active[p][o] # None
    BY DEF SwitchInv, DataOK, SaveSession
  <2>2. PICK r : r = active[p][o] + 1
    OBVIOUS
  <2>3. r \in Nat
    BY <2>1, <2>2
  <2>4. [active[p] EXCEPT ![o] = r] \in [Ops -> Nat \cup {None}]
    BY <2>1, <2>3
  <2>5. active' = [active EXCEPT ![p] = [active[p] EXCEPT ![o] = r]]
    BY <2>2 DEF SaveSession
  <2> QED
    BY <2>1, <2>4, <2>5
<1>3. CASE target \in Files
  BY <1>1, <1>2, <1>3, FileWritten
<1>4. CASE target \notin Files
  <2>1. file' = file
    BY <1>1, <1>4 DEF SwitchInv, DataOK
  <2>2. /\ row'.rest \in 0..(edits + 1) /\ row'.kind = row.kind
        /\ row' \in [cur : Files, own : Owns, rest : Nat, kind : Kinds]
    BY <1>1 DEF SwitchInv, DataOK
  <2> QED
    BY <1>1, <1>2, <2>1, <2>2, OwnerWritten
<1> QED
  BY <1>3, <1>4

\* others change the owner,
LEMMA KeepsEditOwner ==
  ASSUME SwitchInv, EditOwner
  PROVE  SwitchInv'
<1>1. /\ Overtaken
      /\ UNCHANGED <<file, oper, log, native, calls, active, crashes, settled>>
      /\ \/ \E v \in Values : row' = [row EXCEPT !.own = v]
         \/ row' = [row EXCEPT !.rest = row.rest + 1]
  BY DEF EditOwner
<1>2. /\ row \in [cur : Files, own : Owns, rest : Nat, kind : Kinds]
      /\ row.rest <= edits /\ edits \in Nat
      /\ active' \in [Processes -> [Ops -> Nat \cup {None}]]
  BY <1>1 DEF SwitchInv, DataOK
<1>3. /\ row'.kind = row.kind /\ row'.rest \in 0..(edits + 1)
      /\ row' \in [cur : Files, own : Owns, rest : Nat, kind : Kinds]
  <2>1. CASE \E v \in Values : row' = [row EXCEPT !.own = v]
    BY <1>2, <2>1 DEF Owns
  <2>2. CASE row' = [row EXCEPT !.rest = row.rest + 1]
    BY <1>2, <2>2
  <2> QED
    BY <1>1, <2>1, <2>2
<1> QED
  BY <1>1, <1>2, <1>3, OwnerWritten

\* A process that ends takes its calls and its command with it.
LEMMA KeepsCrash ==
  ASSUME SwitchInv, NEW p \in Processes, Crash(p)
  PROVE  SwitchInv'
<1>1. /\ UNCHANGED <<Data, oper, edits, settled, outside>>
      /\ native' = [native EXCEPT ![p] = Free]
      /\ calls' = [c \in Calls |-> IF HomeOf[c] = p THEN Idle ELSE calls[c]]
      /\ active' = [active EXCEPT ![p] = Forgotten]
      /\ crashes' = crashes + 1 /\ edits + crashes < MaxTroubles
  BY DEF Crash
<1>2. \A o : Moves(o)
  BY <1>1, Unmoved
<1>3. OperationsOK'
  BY <1>1 DEF SwitchInv, Data, OperationsOK, OperationOK, FrozenOK, OrderOK,
         ClearOK, Reached, Passed, Over, Kept, RowAsFrozen, ExactlyCommitted, Unresolved
<1>4. DataOK'
  <2>1. Forgotten \in [Ops -> Nat \cup {None}]
    BY DEF Forgotten
  <2>2. active' \in [Processes -> [Ops -> Nat \cup {None}]]
    BY <1>1, <2>1 DEF SwitchInv, DataOK
  <2>3. crashes' \in Nat /\ edits' \in Nat /\ edits' + crashes' <= MaxTroubles
    BY <1>1, BoundsAreNat DEF SwitchInv, DataOK
  <2> QED
    BY <1>1, <2>2, <2>3 DEF SwitchInv, DataOK, Data
<1>5. CallsOK'
  BY <1>1 DEF SwitchInv, CallsOK, CallForm
<1>6. /\ native'[p] = Free /\ native' = [q \in Processes |-> native'[q]]
      /\ \A q \in Processes \ {p} : native'[q] = native[q]
  BY <1>1 DEF SwitchInv, CommandsOK
<1>7. CommandsOK'
  <2> SUFFICES ASSUME NEW q \in Processes, native'[q] # Free
               PROVE  CommandOK(q)'
    BY <1>6 DEF CommandsOK
  <2>1. q # p /\ native'[q] = native[q] /\ CommandOK(q)
    BY <1>6 DEF SwitchInv, CommandsOK
  <2>2. calls'[native[q].c] = calls[native[q].c]
    BY <1>1, <2>1 DEF CommandOK, NativeRec
  <2> QED
    BY <1>1, <2>1, <2>2 DEF CommandOK, Known
<1>8. StagesOK'
  BY <1>2, <1>6, OthersStay DEF SwitchInv
<1> QED
  BY <1>3, <1>4, <1>5, <1>7, <1>8 DEF SwitchInv

-----------------------------------------------------------------------------
\* The invariant

\* The invariant holds initially,
LEMMA SwitchInvInit ==
  Init => SwitchInv
<1> SUFFICES ASSUME Init
             PROVE  SwitchInv
  OBVIOUS
<1>1. /\ oper = [o \in Ops |-> NoOp] /\ log = [o \in Ops |-> None]
      /\ native = [p \in Processes |-> Free] /\ calls = [c \in Calls |-> Idle]
      /\ active = [p \in Processes |-> Forgotten] /\ settled = {} /\ outside = {}
      /\ edits = 0 /\ crashes = 0
  BY DEF Init
<1>2. DataOK
  <2>1. PICK cur \in Files, own \in Values, kind \in Kinds :
            row = [cur |-> cur, own |-> own, rest |-> 0, kind |-> kind]
    BY DEF Init
  <2>2. row \in [cur : Files, own : Owns, rest : 0..MaxTroubles, kind : Kinds] /\ row.rest = 0
    BY <2>1, BoundsAreNat DEF Owns
  <2>3. PICK s : s = [text |-> [body |-> 0, arch |-> None], rev |-> 0]
    OBVIOUS
  <2>4. s \in Snapshot /\ file = [f \in Files |-> s]
    BY <2>3, BoundsAreNat DEF Init, Snapshot, Text
  <2>5. active \in [Processes -> [Ops -> Nat \cup {None}]]
    BY <1>1 DEF Forgotten
  <2> QED
    BY <1>1, <2>2, <2>4, <2>5, BoundsAreNat DEF DataOK
<1>3. CallsOK /\ CommandsOK /\ StagesOK
  BY <1>1 DEF CallsOK, CommandsOK, StagesOK
<1>4. \A o \in Ops : oper[o] = NoOp /\ oper[o].phase \in Released
  BY <1>1 DEF NoOp, Released
<1>5. OperationsOK
  BY <1>1, <1>4 DEF OperationsOK, Unresolved
<1> QED
  BY <1>2, <1>3, <1>5 DEF SwitchInv

\* and every step keeps it.
LEMMA SwitchInvStep ==
  SwitchInv /\ [Next]_vars => SwitchInv'
<1> SUFFICES ASSUME SwitchInv, [Next]_vars
             PROVE  SwitchInv'
  OBVIOUS
<1>1. ASSUME NEW p \in Processes, Command(p)
      PROVE  SwitchInv'
  BY <1>1, KeepsReadOperation, KeepsTargetGate, KeepsBlock, KeepsContain, KeepsBeginSettlement,
     KeepsSettle, KeepsVerifySettlement, KeepsCompleteSettlement, KeepsBeginDb, KeepsClassify,
     KeepsCommit, KeepsRecheck, KeepsCompleteDb, KeepsBeginActivation, KeepsGiveTicket,
     KeepsCleanupAdmitted, KeepsCleanupTarget, KeepsCheckActivation, KeepsResolve,
     KeepsCheckCancel, KeepsCancelPrepared, KeepsFail DEF Command
<1>2. ASSUME NEW c \in Calls, Call(c)
      PROVE  SwitchInv'
  BY <1>2, KeepsConfirm, KeepsPrepare, KeepsContinue, KeepsSafeCancel, KeepsDriveAgain,
     KeepsCleanup, KeepsActivate, KeepsReportActivation, KeepsSucceed DEF Call
<1>3. CASE UNCHANGED vars
  <2>1. /\ UNCHANGED <<Data, oper, History>> /\ native' = native /\ calls' = calls
        /\ active' \in [Processes -> [Ops -> Nat \cup {None}]]
    BY <1>3 DEF vars, Data, History, SwitchInv, DataOK
  <2>2. DataOK' /\ OperationsOK' /\ \A o : Moves(o)
    BY <2>1, DurableStays DEF SwitchInv
  <2> QED
    BY <2>1, <2>2, FromOutside
<1> QED
  BY <1>1, <1>2, <1>3, KeepsCrash, KeepsSaveSession, KeepsEditFile, KeepsEditOwner DEF Next

\* What every operation's phase vouches for, and what every command has seen, holds.
THEOREM SwitchInvariant == Spec => []SwitchInv
  BY SwitchInvInit, SwitchInvStep, PTL DEF Spec

\* The cleanup takes an archive out of a text and leaves its body.
LEMMA BodyStays ==
  ASSUME DataOK, NEW f \in Files, NEW t,
         \/ file' = file
         \/ file' = [file EXCEPT ![t].text.arch = None, ![t].rev = @ + 1]
  PROVE  file'[f].text.body = file[f].text.body
<1>1. CASE file' = file
  BY <1>1
<1>2. CASE file' = [file EXCEPT ![t].text.arch = None, ![t].rev = @ + 1] /\ t # f
  BY <1>2 DEF DataOK
<1>3. CASE file' = [file EXCEPT ![t].text.arch = None, ![t].rev = @ + 1] /\ t = f
  <2>1. PICK bare : bare = [file[f] EXCEPT !.text.arch = None]
    OBVIOUS
  <2>2. PICK first : first = [file EXCEPT ![f] = bare]
    OBVIOUS
  <2>3. first[f] = bare /\ first = [g \in Files |-> first[g]]
    BY <2>2 DEF DataOK
  <2>4. file' = [first EXCEPT ![f] = [first[f] EXCEPT !.rev = first[f].rev + 1]]
    BY <1>3, <2>1, <2>2
  <2>5. file'[f] = [bare EXCEPT !.rev = bare.rev + 1]
    BY <2>3, <2>4
  <2>6. file[f] \in Snapshot
    BY DEF DataOK
  <2>7. file'[f] = [text |-> [body |-> file[f].text.body, arch |-> None], rev |-> file[f].rev + 1]
    BY <2>1, <2>5, <2>6, ArchiveTakenOut
  <2> QED
    BY <2>7
<1> QED
  BY <1>1, <1>2, <1>3


-----------------------------------------------------------------------------
\* What follows from the invariant

\* Owner, files, operations, commands and sessions always have their types.
THEOREM TypeCorrect == Spec => []TypeOK
<1>1. ASSUME SwitchInv
      PROVE  TypeOK
  <2>1. \A o \in Ops : \/ oper[o] = NoOp
                       \/ /\ oper[o].phase \in Phases /\ oper[o].target \in Files
                          /\ oper[o].old \in Files \ {oper[o].target}
                          /\ oper[o].pre \in Snapshot /\ oper[o].candidate \in Snapshot
                          /\ oper[o].post \in Text
    BY <1>1 DEF SwitchInv, OperationsOK, OperationOK, FrozenOK, OperRec
  <2>2. \A p \in Processes :
            native[p] = Free \/ (native[p].o \in Ops /\ HomeOf[native[p].c] = p)
    BY <1>1 DEF SwitchInv, CommandsOK, CommandOK, Known
  <2> QED
    BY <1>1, <2>1, <2>2 DEF TypeOK, SwitchInv, DataOK, Owns
<1> QED
  BY <1>1, SwitchInvariant, PTL

\* An operation at db_pending has archived, and its transaction is whole.
LEMMA WholeAtDb ==
  ASSUME NEW o, OperationOK(o), oper[o].phase = "db_pending", o \notin outside
  PROVE  Whole(o)
<1>1. /\ o \in settled /\ oper[o].phase \notin Released
      /\ log[o] = None => file[oper[o].old].text = oper[o].post
  BY DEF OperationOK, OrderOK, Kept, Released
<1> QED
  BY <1>1 DEF OperationOK, ClearOK, Whole

\* Whatever takes an operation to a phase, it is not given up half way by it.
StaysWhole(o) ==
    oper'[o].phase # oper[o].phase /\ oper'[o].phase \in {"blocked", "contained"} =>
       \/ o \in outside
       \/ oper[o].phase = "db_pending" /\ oper'[o].phase = "blocked" /\ Whole(o)

\* An operation is a record with a phase, whether it is there or not.
LEMMA PhaseSet ==
  ASSUME OperationsOK, NEW o \in Ops
  PROVE  \A to, new : new = [oper[o] EXCEPT !.phase = to] => new.phase = to
<1>1. oper[o] = NoOp \/ oper[o] \in OperRec
  BY DEF OperationsOK, OperationOK, FrozenOK
<1> QED
  BY <1>1 DEF NoOp, OperRec

\* A phase that goes on to another than these two gives nothing up.
LEMMA NotGivenUp ==
  ASSUME OperationsOK, NEW q, NEW to, to \notin {"blocked", "contained"},
         Advance(q, to) \/ UNCHANGED oper
  PROVE  \A o \in Ops : StaysWhole(o)
<1> SUFFICES ASSUME NEW o \in Ops
             PROVE  oper'[o].phase \in {oper[o].phase, to}
  BY DEF StaysWhole
<1>1. CASE UNCHANGED oper
  BY <1>1
<1>2. CASE Advance(q, to)
  <2>1. PICK new : new = oper'[o]
    OBVIOUS
  <2>2. new = oper[o] \/ new = [oper[o] EXCEPT !.phase = to]
    BY <1>2, <2>1 DEF Advance, OperationsOK
  <2>3. new.phase \in {oper[o].phase, to}
    BY <2>2, PhaseSet
  <2> QED
    BY <2>1, <2>3
<1> QED
  BY <1>1, <1>2

\* What gives an operation up does so for the reason its command has.
LEMMA GivenUpForCause ==
  ASSUME SwitchInv, NEW p \in Processes, Block(p) \/ Contain(p)
  PROVE  \A o \in Ops : StaysWhole(o)
<1> PICK n : n = native[p]
  OBVIOUS
<1> PICK to : \/ Block(p) /\ to = "blocked" /\ n.at = "block"
              \/ Contain(p) /\ to = "contained" /\ n.at = "contain"
  BY DEF Block, Contain, At
<1>1. native[p] # Free /\ LastCas(p, n.phase, to)
  BY AtIsNotFree DEF Block, Contain
<1>2. StageOK(n) /\ OperationOK(n.o)
  BY <1>1, CommandFacts
<1>3. CASE ~Advances(n.o, n.phase, to)
  BY <1>1, <1>3 DEF LastCas, OpOf, StaysWhole
<1>4. CASE Advances(n.o, n.phase, to)
  <2>1. /\ oper[n.o].phase = n.phase /\ <<n.phase, to>> \in Transitions
        /\ oper' = [oper EXCEPT ![n.o].phase = to]
    BY <1>1, <1>4 DEF LastCas, OpOf, Advances, Advance
  <2>2. \/ n.o \in outside
        \/ n.phase = "db_pending" /\ to = "blocked"
    BY <1>2, <2>1, LaterPhases DEF StageOK, Passed, Transitions, Gated
  <2>3. n.o \in outside \/ Whole(n.o)
    BY <1>2, <2>1, <2>2, WholeAtDb
  <2> SUFFICES ASSUME NEW o \in Ops
               PROVE  StaysWhole(o)
    OBVIOUS
  <2>4. CASE o # n.o
    <3>1. oper'[o] = oper[o]
      BY <2>1, <2>4 DEF SwitchInv, OperationsOK
    <3> QED
      BY <3>1 DEF StaysWhole
  <2>5. CASE o = n.o
    <3>1. PICK new : new = oper'[o]
      OBVIOUS
    <3>2. new = [oper[o] EXCEPT !.phase = to]
      BY <2>1, <2>5, <3>1 DEF SwitchInv, OperationsOK
    <3>3. new.phase = to
      BY <3>2, PhaseSet DEF SwitchInv
    <3> QED
      BY <2>1, <2>2, <2>3, <2>5, <3>1, <3>3 DEF StaysWhole
  <2> QED
    BY <2>4, <2>5
<1> QED
  BY <1>3, <1>4

\* An operation is given up by a change from outside or, with its effects whole, by
\* a look at the database that fails: by no crash and no other process.
THEOREM StuckOnlyWhole == Spec => NeverStuckHalfway
<1>1. ASSUME SwitchInv, [Next]_vars
      PROVE  \A o \in Ops : StaysWhole(o)
  <2>1. CASE UNCHANGED oper
    BY <2>1 DEF StaysWhole
  <2>2. CASE \E p \in Processes : Block(p) \/ Contain(p)
    BY <1>1, <2>2, GivenUpForCause
  <2>3. ASSUME NEW p \in Processes,
               \/ BeginSettlement(p) \/ CompleteSettlement(p) \/ BeginDb(p) \/ CompleteDb(p)
               \/ BeginActivation(p) \/ Resolve(p) \/ CancelPrepared(p)
        PROVE  \A o \in Ops : StaysWhole(o)
    <3>1. \E to \in Phases \ {"blocked", "contained"} :
             Advance(OpOf(p), to) \/ UNCHANGED oper
      BY <2>3 DEF BeginSettlement, CompleteSettlement, BeginDb, CompleteDb, BeginActivation,
           Resolve, CancelPrepared, Cas, LastCas, Phases
    <3> QED
      BY <1>1, <3>1, NotGivenUp DEF SwitchInv
  <2>4. ASSUME NEW c \in Calls, Prepare(c)
        PROVE  \A o \in Ops : StaysWhole(o)
    <3> SUFFICES ASSUME NEW o \in Ops
                 PROVE  oper'[o] = oper[o] \/ oper'[o].phase = "prepared"
      BY DEF StaysWhole
    <3>1. oper = [q \in Ops |-> oper[q]]
      BY <1>1 DEF SwitchInv, OperationsOK
    <3>2. CASE UNCHANGED oper
      BY <3>2
    <3>3. CASE \E q \in Ops : \E new : new.phase = "prepared" /\ oper' = [oper EXCEPT ![q] = new]
      BY <3>1, <3>3
    <3> QED
      BY <2>4, <3>2, <3>3 DEF Prepare, NextOps
  <2>5. UNCHANGED oper
        \/ (\E p \in Processes : Block(p) \/ Contain(p))
        \/ (\E p \in Processes :
               \/ BeginSettlement(p) \/ CompleteSettlement(p) \/ BeginDb(p) \/ CompleteDb(p)
               \/ BeginActivation(p) \/ Resolve(p) \/ CancelPrepared(p))
        \/ (\E c \in Calls : Prepare(c))
    <3>1. \A p \in Processes :
             \/ ReadOperation(p) \/ TargetGate(p) \/ Settle(p) \/ VerifySettlement(p)
             \/ Classify(p) \/ Commit(p) \/ Recheck(p) \/ GiveTicket(p) \/ CleanupAdmitted(p)
             \/ CleanupTarget(p) \/ CheckActivation(p) \/ CheckCancel(p) \/ Fail(p) \/ Crash(p)
             => UNCHANGED oper
      BY DEF ReadOperation, TargetGate, Settle, VerifySettlement, Classify, Commit, Recheck,
         GiveTicket, CleanupAdmitted, CleanupTarget, CheckActivation, CheckCancel, Fail, Crash, Pure
    <3>2. \A c \in Calls :
             \/ Confirm(c) \/ Continue(c) \/ SafeCancel(c) \/ DriveAgain(c) \/ Cleanup(c)
             \/ Activate(c) \/ ReportActivation(c) \/ Succeed(c)
             => UNCHANGED oper
      BY DEF Confirm, Continue, SafeCancel, DriveAgain, Cleanup, Activate, ReportActivation, Succeed
    <3>3. /\ \A p, o : SaveSession(p, o) => UNCHANGED oper
          /\ \A f : EditFile(f) => UNCHANGED oper
          /\ EditOwner => UNCHANGED oper
      BY DEF SaveSession, EditFile, EditOwner
    <3> QED
      BY <1>1, <3>1, <3>2, <3>3 DEF Next, Command, Call, vars
  <2> QED
    BY <2>1, <2>2, <2>3, <2>4, <2>5
<1>2. ASSUME SwitchInv, [Next]_vars
      PROVE  [\A o \in Ops :
                 oper'[o].phase # oper[o].phase /\ oper'[o].phase \in {"blocked", "contained"} =>
                    \/ o \in outside
                    \/ oper[o].phase = "db_pending" /\ oper'[o].phase = "blocked" /\ Whole(o)]_vars
  BY <1>1, <1>2 DEF StaysWhole
<1> QED
  BY <1>2, SwitchInvariant, PTL DEF Spec, NeverStuckHalfway

\* Neither settlement nor cleanup changes the body of a file: only edits do.
THEOREM TypedTextStays == Spec => NothingTypedIsLost
<1>1. ASSUME SwitchInv, [Next]_vars
      PROVE  [\A f \in Files :
                file'[f].text.body # file[f].text.body => edits' # edits]_vars
  <2> SUFFICES ASSUME Next, edits' = edits, NEW f \in Files
               PROVE  file'[f].text.body = file[f].text.body
    BY <1>1
  <2>1. ~Overtaken
    BY <1>1 DEF Overtaken, SwitchInv, DataOK
  <2>2. ASSUME NEW p \in Processes, Settle(p)
        PROVE  file'[f].text.body = file[f].text.body
    <3> PICK o : o = native[p].o
      OBVIOUS
    <3>1. OperationOK(o) /\ oper[o].old \in Files
      BY <1>1, <2>2, AtIsNotFree, CommandFacts, KnownParts DEF Settle, SwitchInv
    <3>2. \/ file' = file
          \/ /\ file[oper[o].old] = oper[o].pre
             /\ file' = [file EXCEPT ![oper[o].old] =
                            [text |-> oper[o].post, rev |-> @.rev + 1]]
      BY <2>2 DEF Settle, OpOf
    <3>3. oper[o].post.body = oper[o].pre.text.body
      BY <3>1 DEF OperationOK, FrozenOK
    <3> QED
      BY <1>1, <3>1, <3>2, <3>3 DEF SwitchInv, DataOK
  <2>3. ASSUME NEW p \in Processes, CleanupTarget(p)
        PROVE  file'[f].text.body = file[f].text.body
    BY <1>1, <2>3, BodyStays DEF CleanupTarget, OpOf, SwitchInv
  <2>4. ASSUME NEW p \in Processes, Command(p), ~Settle(p), ~CleanupTarget(p)
        PROVE  file' = file
    BY <2>4 DEF Command, ReadOperation, TargetGate, Block, Contain, BeginSettlement,
         VerifySettlement, CompleteSettlement, BeginDb, Classify, Commit, Recheck, CompleteDb,
         BeginActivation, GiveTicket, CleanupAdmitted, CheckActivation, Resolve, CheckCancel,
         CancelPrepared, Fail, Cas, LastCas, Pure, Data
  <2>5. ASSUME NEW c \in Calls, Call(c)
        PROVE  file' = file
    BY <2>5 DEF Call, Confirm, Prepare, Continue, SafeCancel, DriveAgain, Cleanup, Activate,
         ReportActivation, Succeed, Data
  <2>6. ASSUME NEW p \in Processes, Crash(p)
        PROVE  file' = file
    BY <2>6 DEF Crash, Data
  <2> QED
    BY <2>1, <2>2, <2>3, <2>4, <2>5, <2>6 DEF Next, EditFile, SaveSession, EditOwner
<1> QED
  BY <1>1, SwitchInvariant, PTL DEF Spec, NothingTypedIsLost

\* The transaction replaces the fields only when they are in the old file's archive.
THEOREM FieldsArchived == Spec => ArchivedBeforeReplaced
<1>1. ASSUME SwitchInv, [Next]_vars
      PROVE  [\A o \in Ops : log'[o] # log[o] =>
                 /\ row.kind = "review" => oper[o].post.arch = row.own
                 /\ file[oper[o].old].text = oper[o].post \/ o \in outside]_vars
  <2> SUFFICES ASSUME Next, NEW o \in Ops, log'[o] # log[o]
               PROVE  /\ row.kind = "review" => oper[o].post.arch = row.own
                      /\ file[oper[o].old].text = oper[o].post \/ o \in outside
    BY <1>1
  <2>1. ASSUME NEW p \in Processes, Command(p), ~Commit(p)
        PROVE  log' = log
    BY <2>1 DEF Command, ReadOperation, TargetGate, Block, Contain, BeginSettlement, Settle,
         VerifySettlement, CompleteSettlement, BeginDb, Classify, Recheck, CompleteDb,
         BeginActivation, GiveTicket, CleanupAdmitted, CleanupTarget, CheckActivation, Resolve,
         CheckCancel, CancelPrepared, Fail, Cas, LastCas, Pure, Data
  <2>2. ASSUME NEW c \in Calls, Call(c)
        PROVE  log' = log
    BY <2>2 DEF Call, Confirm, Prepare, Continue, SafeCancel, DriveAgain, Cleanup, Activate,
         ReportActivation, Succeed, Data
  <2>3. PICK p \in Processes : Commit(p)
    BY <2>1, <2>2 DEF Next, Crash, SaveSession, EditFile, EditOwner, Data
  <2> PICK n : n = native[p]
    OBVIOUS
  <2>4. n.at = "commit" /\ StageOK(n) /\ OperationOK(n.o) /\ n.o \in Ops
    BY <1>1, <2>3, AtIsNotFree, CommandFacts DEF Commit
  <2>5. o = n.o /\ log[o] = None /\ RowAsFrozen(o)
    BY <1>1, <2>3, <2>4 DEF Commit, OpOf, SwitchInv, DataOK
  <2>6. o \in settled
    BY <2>4, <2>5 DEF StageOK, InDb
  <2> QED
    BY <2>4, <2>5, <2>6 DEF OperationOK, FrozenOK, OrderOK, Kept, RowAsFrozen
<1> QED
  BY <1>1, SwitchInvariant, PTL DEF Spec, ArchivedBeforeReplaced

-----------------------------------------------------------------------------
\* The promise to the owner

Status == [o \in Ops |-> StatusAt[oper[o].phase]]
Done == {o \in Ops : log[o] # None}

\* The three variables of the promise, as they are instantiated.
LEMMA PromiseVars ==
  /\ Promise!vars = <<Status, settled, Done, row.cur>>
  /\ \A o : Promise!InTheSlot(o) <=> Status[o] \in {"pending", "stuck"}
  /\ \A o, s : Promise!Becomes(o, s) <=> Status' = [Status EXCEPT ![o] = s]
  BY DEF Promise!vars, Promise!InTheSlot, Promise!Becomes, Status, Done

\* The slot of the promise is taken by the unresolved operations.
LEMMA StatusOfPhases ==
  ASSUME OperationsOK, NEW o \in Ops
  PROVE  /\ oper[o].phase \in Phases \cup {"none"} /\ Status[o] = StatusAt[oper[o].phase]
         /\ Status[o] \in {"pending", "stuck"} <=> o \in Unresolved
<1>1. oper[o].phase \in Phases \cup {"none"}
  BY DEF OperationsOK, OperationOK, FrozenOK, OperRec, NoOp
<1> QED
  BY <1>1 DEF Status, StatusAt, Phases, Unresolved, Released

\* Nothing the promise speaks of changes.
LEMMA PromiseStutters ==
  ASSUME UNCHANGED <<oper, log, settled>>, row'.cur = row.cur
  PROVE  [Promise!Next]_(Promise!vars)
<1>1. Status' = Status /\ Done' = Done
  BY DEF Status, Done
<1> QED
  BY <1>1, PromiseVars DEF Promise!vars, Status, Done

\* A phase advances: the operation goes on, is stopped, cancelled or finished.
LEMMA PromiseAdvances ==
  ASSUME OperationsOK, NEW o \in Ops, NEW to, <<oper[o].phase, to>> \in Transitions,
         Advance(o, to), UNCHANGED Data,
         \/ settled' = settled
         \/ settled' = settled \cup {o} /\ to = "settlement_complete"
  PROVE  [Promise!Next]_(Promise!vars)
<1> DEFINE from == oper[o].phase
<1>1. /\ oper'[o].phase = to /\ \A q \in Ops \ {o} : oper'[q] = oper[q]
      /\ log' = log /\ row'.cur = row.cur
  <2>1. oper[o] # NoOp
    BY Forward DEF NoOp, Released
  <2>2. oper[o] \in OperRec
    BY <2>1 DEF OperationsOK, OperationOK, FrozenOK
  <2>3. /\ oper'[o] = [oper[o] EXCEPT !.phase = to]
        /\ \A q \in Ops \ {o} : oper'[q] = oper[q]
    BY DEF OperationsOK, Advance
  <2>4. oper'[o].phase = to
    BY <2>2, <2>3 DEF OperRec
  <2> QED
    BY <2>3, <2>4 DEF Data
<1>2. Status' = [Status EXCEPT ![o] = StatusAt[to]] /\ Done' = Done
  BY <1>1 DEF Status, Done
<1>3. Status[o] = StatusAt[from] /\ OperationOK(o)
  <2>1. oper[o] # NoOp
    BY Forward DEF NoOp, Released
  <2> QED
    BY <2>1 DEF Status, OperationsOK
<1>4. CASE /\ StatusAt[from] = "pending" /\ StatusAt[to] = "pending" /\ settled' = settled
  <2>1. Status' = Status
    BY <1>2, <1>3, <1>4 DEF Status
  <2> QED
    BY <1>1, <1>2, <1>4, <2>1 DEF Promise!vars, Status, Done
<1>5. CASE /\ StatusAt[from] = "pending" /\ StatusAt[to] = "pending"
           /\ settled' = settled \cup {o} /\ o \notin settled
  <2>1. Status' = Status
    BY <1>2, <1>3, <1>5 DEF Status
  <2>2. Promise!InTheSlot(o)
    BY <1>3, <1>5, PromiseVars
  <2>3. Promise!Settle(o)
    BY <1>1, <1>2, <1>5, <2>1, <2>2 DEF Promise!Settle, Status, Done
  <2> QED
    BY <2>3 DEF Promise!Next
<1>6. CASE StatusAt[from] = "pending" /\ StatusAt[to] = "stuck" /\ settled' = settled
  <2>1. Promise!Becomes(o, "stuck")
    BY <1>2, <1>6, PromiseVars
  <2>2. Promise!Stop(o)
    BY <1>1, <1>2, <1>3, <1>6, <2>1 DEF Promise!Stop, Status, Done
  <2> QED
    BY <2>2 DEF Promise!Next
<1>7. CASE from = "prepared" /\ to = "cancelled_safe" /\ settled' = settled
  <2>1. /\ StatusAt[from] = "pending" /\ StatusAt[to] = "cancelled"
    BY <1>7 DEF StatusAt, Phases
  <2>2. o \notin settled
    BY <1>3, <1>7, LaterPhases DEF OperationOK, OrderOK, Reached, Passed
  <2>3. Promise!Becomes(o, "cancelled")
    BY <1>2, <2>1, PromiseVars
  <2>4. Promise!Cancel(o)
    BY <1>1, <1>2, <1>3, <1>7, <2>1, <2>2, <2>3 DEF Promise!Cancel, Status, Done
  <2> QED
    BY <2>4 DEF Promise!Next
<1>8. CASE from = "activation_pending" /\ to = "resolved" /\ settled' = settled
  <2>1. StatusAt[from] = "pending" /\ StatusAt[to] = "done"
    BY <1>8 DEF StatusAt, Phases
  <2>2. o \in Done
    BY <1>3, <1>8 DEF OperationOK, OrderOK, Committed, Done
  <2>3. Promise!Becomes(o, "done")
    BY <1>2, <2>1, PromiseVars
  <2>4. Promise!Finish(o)
    BY <1>1, <1>2, <1>3, <1>8, <2>1, <2>2, <2>3 DEF Promise!Finish, Status, Done
  <2> QED
    BY <2>4 DEF Promise!Next
<1>9. \/ StatusAt[from] = "pending" /\ StatusAt[to] = "pending"
      \/ StatusAt[from] = "pending" /\ StatusAt[to] = "stuck" /\ to # "settlement_complete"
      \/ from = "prepared" /\ to = "cancelled_safe"
      \/ from = "activation_pending" /\ to = "resolved"
  BY DEF Transitions, StatusAt, Phases
<1>10. settled' = settled \/ (settled' = settled \cup {o} /\ o \notin settled)
  OBVIOUS
<1> QED
  BY <1>4, <1>5, <1>6, <1>7, <1>8, <1>9, <1>10

\* The settlement is written.
LEMMA PromiseSettles ==
  ASSUME OperationsOK, NEW o \in Unresolved, o \notin settled, settled' = settled \cup {o},
         UNCHANGED <<row, log, oper>>
  PROVE  [Promise!Next]_(Promise!vars)
<1>1. Status' = Status /\ Done' = Done /\ o \in Ops
  BY DEF Status, Done, Unresolved
<1>2. Promise!InTheSlot(o)
  BY <1>1, StatusOfPhases, PromiseVars
<1>3. Promise!Settle(o)
  BY <1>1, <1>2 DEF Promise!Settle, Status, Done
<1> QED
  BY <1>1, <1>3 DEF Promise!Next

\* The transaction commits.
LEMMA PromiseCommits ==
  ASSUME DataOK, OperationsOK, NEW o \in Unresolved, o \in settled, log[o] = None, RowAsFrozen(o),
         row' = [row EXCEPT !.cur = oper[o].target,
                            !.own = Replacement(oper[o].candidate.text)],
         log' = [log EXCEPT ![o] = row.rest], UNCHANGED <<oper, settled>>
  PROVE  [Promise!Next]_(Promise!vars)
<1>1. Status' = Status /\ o \in Ops
  BY DEF Status, Unresolved
<1>2. Promise!InTheSlot(o)
  BY <1>1, StatusOfPhases, PromiseVars
<1>3. Done' = Done \cup {o}
  BY <1>1, NoneIsNoValue, BoundsAreNat DEF Done, DataOK
<1>4. oper[o].target \in Files /\ oper[o].target # row.cur
  BY <1>1, StatusOfPhases, KnownParts DEF OperationsOK, RowAsFrozen, NoOp, Unresolved, Released
<1>5. row'.cur = oper[o].target
  BY DEF DataOK
<1>6. Promise!Commit(o)
  BY <1>1, <1>2, <1>3, <1>4, <1>5 DEF Promise!Commit, Status, Done
<1> QED
  BY <1>1, <1>6 DEF Promise!Next

\* A new operation is pending.
LEMMA PromisePrepares ==
  ASSUME OperationsOK, NEW o \in Ops, oper[o] = NoOp, Unresolved = {}, NEW new,
         new.phase = "prepared", oper' = [oper EXCEPT ![o] = new], UNCHANGED <<Data, settled>>
  PROVE  [Promise!Next]_(Promise!vars)
<1>1. /\ oper'[o].phase = "prepared" /\ \A q \in Ops \ {o} : oper'[q] = oper[q]
      /\ log' = log /\ row'.cur = row.cur
  BY DEF OperationsOK, Data
<1>2. StatusAt["prepared"] = "pending" /\ StatusAt["none"] = "none"
  BY DEF StatusAt, Phases
<1>3. Status' = [Status EXCEPT ![o] = "pending"] /\ Status[o] = "none" /\ Done' = Done
  <2>1. \A q \in Ops : StatusAt[oper'[q].phase]
                      = IF q = o THEN "pending" ELSE StatusAt[oper[q].phase]
    BY <1>1, <1>2
  <2>2. Status' = [Status EXCEPT ![o] = "pending"]
    BY <2>1 DEF Status
  <2>3. oper[o].phase = "none"
    BY DEF NoOp
  <2>4. Status[o] = "none"
    BY <1>2, <2>3 DEF Status
  <2> QED
    BY <1>1, <2>2, <2>4 DEF Done
<1>4. \A q \in Ops : ~Promise!InTheSlot(q)
  BY StatusOfPhases, PromiseVars
<1>5. Promise!Becomes(o, "pending")
  BY <1>3, PromiseVars
<1>6. Promise!Prepare(o)
  BY <1>1, <1>3, <1>4, <1>5 DEF Promise!Prepare, Status, Done
<1> QED
  BY <1>6 DEF Promise!Next

\* A compare-and-swap keeps to the promise, whether it fails or not.
LEMMA PromiseSwaps ==
  ASSUME OperationsOK, NEW o \in Ops, NEW from, NEW to,
         IF Advances(o, from, to) THEN Advance(o, to) ELSE UNCHANGED oper,
         UNCHANGED Data, settled' = settled
  PROVE  [Promise!Next]_(Promise!vars)
<1>1. CASE Advances(o, from, to)
  BY <1>1, PromiseAdvances DEF Advances
<1>2. CASE ~Advances(o, from, to)
  BY <1>2, PromiseStutters DEF Data
<1> QED
  BY <1>1, <1>2

\* Every step of a command keeps to the promise.
LEMMA PromiseOfCommand ==
  ASSUME SwitchInv, NEW p \in Processes, Command(p)
  PROVE  [Promise!Next]_(Promise!vars)
<1> PICK n : n = native[p]
  OBVIOUS
<1> DEFINE o == n.o
<1>1. native[p] # Free => o \in Ops /\ OperationOK(o) /\ StageOK(n) /\ oper[o] # NoOp
  BY CommandFacts
<1>2. ASSUME NEW from, NEW to, NEW at, at # "none", At(p, at), UNCHANGED Data, settled' = settled,
             IF Advances(o, from, to) THEN Advance(o, to) ELSE UNCHANGED oper
      PROVE  [Promise!Next]_(Promise!vars)
  BY <1>1, <1>2, AtIsNotFree, PromiseSwaps DEF SwitchInv
<1>3. CASE \/ Block(p) \/ Contain(p) \/ BeginDb(p) \/ CompleteDb(p) \/ CancelPrepared(p)
  <2>1. PICK at, from, to : /\ at # "none" /\ At(p, at) /\ UNCHANGED <<Data, History>>
                            /\ IF Advances(o, from, to) THEN Advance(o, to) ELSE UNCHANGED oper
    BY <1>3 DEF Block, Contain, BeginDb, CompleteDb, CancelPrepared, Cas, LastCas, OpOf
  <2> QED
    BY <1>2, <2>1 DEF History
<1>4. CASE BeginSettlement(p)
  BY <1>2, <1>4 DEF BeginSettlement, OpOf, History
<1>5. CASE Resolve(p)
  BY <1>2, <1>5 DEF Resolve, OpOf, History
<1>6. CASE BeginActivation(p)
  <2>1. CASE Advances(o, "db_complete", "activation_pending") /\ Advance(o, "activation_pending")
    BY <1>2, <1>6, <2>1 DEF BeginActivation, OpOf, History
  <2>2. CASE UNCHANGED oper
    BY <1>6, <2>2, PromiseStutters DEF BeginActivation, Data, History
  <2> QED
    BY <1>6, <2>1, <2>2 DEF BeginActivation, OpOf
<1>7. CASE CompleteSettlement(p)
  <2>1. CASE /\ Advances(o, "settlement_started", "settlement_complete")
             /\ Advance(o, "settlement_complete") /\ settled' = settled \cup {o}
    BY <1>1, <1>7, <2>1, AtIsNotFree, PromiseAdvances
       DEF CompleteSettlement, Advances, SwitchInv
  <2>2. CASE UNCHANGED <<oper, settled>>
    BY <1>7, <2>2, PromiseStutters DEF CompleteSettlement, Data
  <2> QED
    BY <1>7, <2>1, <2>2 DEF CompleteSettlement, OpOf
<1>8. CASE Settle(p)
  <2>1. CASE UNCHANGED <<file, settled>>
    BY <1>8, <2>1, PromiseStutters DEF Settle
  <2>2. CASE /\ file[oper[o].old].text # oper[o].post /\ file[oper[o].old] = oper[o].pre
             /\ file' = [file EXCEPT ![oper[o].old] =
                            [text |-> oper[o].post, rev |-> @.rev + 1]]
             /\ settled' = settled \cup {o}
    <3>1. native[p] # Free /\ n.at = "settlement_started"
      BY <1>8, AtIsNotFree DEF Settle
    <3>2. Reached(o, "settlement_started")
      BY <1>1, <3>1 DEF StageOK, InSettlement, Gated
    <3>3. UNCHANGED <<row, log, oper, outside>>
      BY <1>8 DEF Settle
    <3>4. o \in Unresolved /\ o \notin settled
      BY <1>1, <2>2, <3>1, <3>2, <3>3, Settled DEF SwitchInv
    <3> QED
      BY <2>2, <3>3, <3>4, PromiseSettles DEF SwitchInv
  <2> QED
    BY <1>8, <2>1, <2>2 DEF Settle, OpOf
<1>9. CASE Commit(p)
  <2>1. CASE UNCHANGED <<row, log>>
    BY <1>9, <2>1, PromiseStutters DEF Commit, History
  <2>2. CASE /\ log[o] = None /\ RowAsFrozen(o)
             /\ row' = [row EXCEPT !.cur = oper[o].target,
                                   !.own = Replacement(oper[o].candidate.text)]
             /\ log' = [log EXCEPT ![o] = row.rest]
    <3>1. native[p] # Free /\ n.at = "commit"
      BY <1>9, AtIsNotFree DEF Commit
    <3>2. n.phase = "db_pending" /\ Reached(o, "db_pending") /\ o \in settled
      BY <1>1, <3>1 DEF StageOK, InDb, Gated
    <3>3. UNCHANGED <<file, oper, settled, outside>>
      BY <1>9 DEF Commit, History
    <3>4. o \in Unresolved
      BY <1>1, <2>2, <3>1, <3>2, <3>3, CommittedNow DEF SwitchInv
    <3> QED
      BY <2>2, <3>2, <3>3, <3>4, PromiseCommits DEF SwitchInv
  <2> QED
    BY <1>9, <2>1, <2>2 DEF Commit, OpOf
<1>10. CASE \/ ReadOperation(p) \/ TargetGate(p) \/ VerifySettlement(p) \/ Classify(p)
            \/ Recheck(p) \/ GiveTicket(p) \/ CleanupAdmitted(p) \/ CleanupTarget(p)
            \/ CheckActivation(p) \/ CheckCancel(p) \/ Fail(p)
  <2>1. UNCHANGED <<row, oper, log, settled>>
    BY <1>10 DEF ReadOperation, TargetGate, VerifySettlement, Classify, Recheck, GiveTicket,
         CleanupAdmitted, CleanupTarget, CheckActivation, CheckCancel, Fail, Pure, Data, History
  <2> QED
    BY <2>1, PromiseStutters
<1> QED
  BY <1>3, <1>4, <1>5, <1>6, <1>7, <1>8, <1>9, <1>10 DEF Command

\* Every step of a call keeps to the promise.
LEMMA PromiseOfCall ==
  ASSUME SwitchInv, NEW c \in Calls, Call(c)
  PROVE  [Promise!Next]_(Promise!vars)
<1>1. CASE Prepare(c)
  <2>1. UNCHANGED <<Data, settled>>
    BY <1>1 DEF Prepare, History
  <2>2. CASE UNCHANGED oper
    BY <2>1, <2>2, PromiseStutters DEF Data
  <2>3. CASE oper' # oper
    <3>1. PICK o \in NextOps :
              /\ Unresolved = {}
              /\ \E new : new.phase = "prepared" /\ oper' = [oper EXCEPT ![o] = new]
      BY <1>1, <2>3 DEF Prepare
    <3>2. PICK new : new.phase = "prepared" /\ oper' = [oper EXCEPT ![o] = new]
      BY <3>1
    <3> QED
      BY <2>1, <3>1, <3>2, PromisePrepares DEF SwitchInv, NextOps
  <2> QED
    BY <2>2, <2>3
<1>2. CASE ~Prepare(c)
  <2>1. UNCHANGED <<Data, oper, settled>>
    BY <1>2 DEF Call, Confirm, Continue, SafeCancel, DriveAgain, Cleanup, Activate,
         ReportActivation, Succeed, History
  <2> QED
    BY <2>1, PromiseStutters DEF Data
<1> QED
  BY <1>1, <1>2

\* What happens outside the switch does not touch the promise.
LEMMA PromiseOfOthers ==
  ASSUME SwitchInv,
         \/ \E p \in Processes : Crash(p) \/ \E o \in Ops : SaveSession(p, o)
         \/ \E f \in Files : EditFile(f)
         \/ EditOwner
  PROVE  [Promise!Next]_(Promise!vars)
<1>1. UNCHANGED <<oper, log, settled>>
  BY DEF Crash, SaveSession, EditFile, EditOwner, Data
<1>2. row'.cur = row.cur
  BY DEF Crash, SaveSession, EditFile, EditOwner, Data, SwitchInv, DataOK
<1> QED
  BY <1>1, <1>2, PromiseStutters

\* The switch keeps its promise: archived and committed once each and in this order, no
\* effect after a safe cancel, both before it is resolved, one operation at a time.
THEOREM SwitchImplemented == Spec => ImplementsSwitch
<1>1. Init => Promise!Init
  <2> SUFFICES ASSUME Init PROVE Promise!Init
    OBVIOUS
  <2>1. \A o \in Ops : StatusAt[oper[o].phase] = "none" /\ log[o] = None
    BY DEF Init, NoOp, StatusAt, Phases
  <2>2. row.cur \in Files
    BY DEF Init
  <2> QED
    BY <2>1, <2>2 DEF Init, Promise!Init
<1>2. ASSUME SwitchInv, [Next]_vars PROVE [Promise!Next]_(Promise!vars)
  <2>1. CASE UNCHANGED vars
    BY <2>1, PromiseStutters DEF vars
  <2>2. CASE Next
    BY <1>2, <2>2, PromiseOfCommand, PromiseOfCall, PromiseOfOthers DEF Next
  <2> QED
    BY <1>2, <2>1, <2>2
<1> QED
  BY <1>1, <1>2, SwitchInvariant, PTL DEF Spec, ImplementsSwitch, Promise!Spec
=============================================================================
