-------------------------- MODULE EditorLifecycle --------------------------
(***************************************************************************)
(* What may leave an editor with unsaved text, and when: the controller    *)
(* every editor window, route change and native close asks first           *)
(* (src/services/sharedEditorLifecycleController.ts), the window that       *)
(* edits (ManuscriptSegmentEditorWindow.tsx with its structured sidebar),  *)
(* the native close guard (SharedAppLifecycleHost.tsx) and the independent *)
(* open that waits for a decision (useExperimentManuscriptEditor.ts).      *)
(* Saves and discards are awaited, so edits, unmounts and further requests *)
(* come in between; a decision is resumed by its token.                    *)
(***************************************************************************)
EXTENDS Integers, FiniteSets

CONSTANTS Editors,     \* the editor windows, numbered in the order of their identity keys
          Uses,        \* what requests are made for: "close", "open", "exit", "route"
          MaxGen,      \* bound: sessions an editor opens one after the other
          MaxWorks     \* bound: saves and discards awaited at the same time

ASSUME LifecycleBounds ==
    /\ Editors \subseteq Nat \ {0} /\ IsFiniteSet(Editors)
    /\ Uses \subseteq {"close", "open", "exit", "route"}
    /\ MaxGen \in Nat \ {0} /\ MaxWorks \in Nat \ {0}

VARIABLES ed,        \* per editor: its session, drafts, mount, lock, and the token its
                     \* mounted sidebar is saving for, 0 for none
          active,    \* activeParticipantId, 0 for none
          request,   \* activeRequest
          exit,      \* exitSequence: what is left to ask for
          resolving, \* resolvingToken, 0 for none
          works,     \* resolve calls awaiting a save or a discard
          permit,    \* finalClosePermitArmed
          timers,    \* the setTimeout calls of the close guard
          gone,      \* the native window was destroyed
          opens      \* per editor, its independent open

vars == <<ed, active, request, exit, resolving, works, permit, timers, gone, opens>>
shell == <<permit, timers, gone>>

NoRequest == [token |-> 0]
NoExit == [id |-> 0]

Dirty(E, e) == E[e].there /\ (E[e].man \/ (E[e].shown /\ E[e].side))
Presented(E, e) == E[e].shown /\ E[e].there
Awaiting(e, at) == \E w \in works : w.who = e /\ w.at = at
Blocked(e) == ed[e].shown /\ (ed[e].lock \/ ed[e].saving # 0)

\* A token no request, sequence or awaited call remembers.
Fresh ==
    LET used == {request.token, exit.id} \cup {w.token : w \in works}
    IN  CHOOSE t \in 1..(MaxWorks + 3) : t \notin used

IsCurrent(E, r) ==
    /\ request.token = r.token
    /\ Presented(E, r.who) /\ E[r.who].gen = r.gen

\* The form of the sidebar goes with its window, and with it what it knows of its save.
Hidden(S) == [S EXCEPT !.shown = FALSE, !.side = FALSE, !.saving = 0, !.lock = FALSE]
Closed(S) == [Hidden(S) EXCEPT !.there = FALSE, !.man = FALSE]

Init ==
    /\ ed = [e \in Editors |-> [there |-> FALSE, man |-> FALSE, side |-> FALSE,
                                saving |-> 0, shown |-> FALSE, lock |-> FALSE, gen |-> 0, late |-> "no"]]
    /\ active = 0 /\ request = NoRequest /\ exit = NoExit /\ resolving = 0
    /\ works = {} /\ permit = FALSE /\ timers = 0 /\ gone = FALSE
    /\ opens = [e \in Editors |-> "idle"]

-----------------------------------------------------------------------------
\* The continuations requests carry; E is what the drafts have become by then.

\* A closing editor closes its session, which refuses while it has unsaved text.
FinishClose(E, e) ==
    /\ ed' = IF Dirty(E, e) THEN E ELSE [E EXCEPT ![e] = Closed(@)]
    /\ active' = IF active = e /\ ~Dirty(E, e) THEN 0 ELSE active
    /\ UNCHANGED <<shell, opens>>

Continuation(E, use, e) ==
    \/ /\ use = "exit"
       /\ permit' = TRUE /\ timers' = timers + 1
       /\ ed' = E /\ UNCHANGED <<active, gone, opens>>
    \/ /\ use = "route"
       /\ ed' = [x \in Editors |-> Hidden(E[x])] /\ active' = 0
       /\ UNCHANGED <<shell, opens>>
    \/ use = "close" /\ FinishClose(E, e)
    \/ /\ use = "open"
       /\ opens' = [opens EXCEPT ![e] = "answered"]
       /\ ed' = E /\ UNCHANGED <<active, shell>>

Stay(E) == ed' = E /\ UNCHANGED <<active, shell, opens>>

\* Mutant: the token of the decision in progress stays behind.
ForgetKeepsToken == request' = NoRequest /\ exit' = NoExit /\ UNCHANGED resolving

\* clearRequest with the sequence it may belong to.
ForgetAll == request' = NoRequest /\ exit' = NoExit /\ resolving' = 0

-----------------------------------------------------------------------------
\* A sequence asks for one dirty session after the other

Asks(E, item) ==
    E[item.who].there /\ E[item.who].gen = item.gen /\ Dirty(E, item.who)

\* The order a sequence asks in: the editor active at its start first, then by number.
Before(first, d, e) == d # e /\ (d = first \/ (e # first /\ d < e))

\* The first session that still is dirty is asked for, and those before it are dropped.
Advance(E, seq, token) ==
    LET left == {x \in seq.todo : Asks(E, x)}
    IN  \/ left = {} /\ ForgetAll /\ Continuation(E, seq.use, 0)
        \/ \E item \in left :
              /\ \A x \in left \ {item} : Before(seq.first, item.who, x.who)
              /\ IF ~E[item.who].shown
                 THEN ForgetAll /\ Stay(E)
                 ELSE /\ request' = [token |-> token, who |-> item.who,
                                     gen |-> item.gen, use |-> seq.use,
                                     surface |-> "application", seq |-> seq.id,
                                     phase |-> "asked"]
                      /\ exit' = [seq EXCEPT !.todo =
                                    {x \in @ : Before(seq.first, item.who, x.who)}]
                      /\ resolving' = 0
                      /\ Stay(E)

Item(E, e) == [who |-> e, gen |-> E[e].gen]

\* Mutant: only the sessions an editor shows are listed.
ListedShown(E) == {Item(E, e) : e \in {x \in Editors : Dirty(E, x) /\ E[x].shown}}

\* stableExitIdentities
Listed(E) == {Item(E, e) : e \in {x \in Editors : Dirty(E, x)}}

RequestSequence(use) ==
    LET E == [e \in Editors |-> [ed[e] EXCEPT !.late = IF use = "exit" THEN "no" ELSE @]]
        seq == [id |-> Fresh, use |-> use, first |-> active, todo |-> Listed(E)]
    IN  /\ use \in Uses
        /\ ~\E e \in Editors : Blocked(e)
        /\ request = NoRequest /\ exit = NoExit
        /\ Advance(E, seq, Fresh)
        /\ UNCHANGED works

\* The close button of the native window; an armed permit lets it through.
CloseRequested ==
    \/ ~permit /\ RequestSequence("exit")
    \/ /\ permit /\ permit' = FALSE /\ gone' = TRUE
       /\ UNCHANGED <<ed, active, request, exit, resolving, works, timers, opens>>

\* Mutant: the permit outlives the timer it was armed for.
TimerFiresKeepingPermit ==
    /\ timers > 0 /\ timers' = timers - 1
    /\ \/ permit /\ gone' \in {FALSE, TRUE}
       \/ ~permit /\ UNCHANGED gone
    /\ UNCHANGED <<ed, active, request, exit, resolving, works, permit, opens>>

\* The timer destroys the window if the permit is still there; destroy may fail.
TimerFires ==
    /\ timers > 0 /\ timers' = timers - 1
    /\ permit' = FALSE
    /\ \/ permit /\ gone' \in {FALSE, TRUE}
       \/ ~permit /\ UNCHANGED gone
    /\ UNCHANGED <<ed, active, request, exit, resolving, works, opens>>

-----------------------------------------------------------------------------
\* A request of one editor

NewRequest(e, use, surface) ==
    [token |-> Fresh, who |-> e, gen |-> ed[e].gen, use |-> use, surface |-> surface,
     seq |-> 0, phase |-> "asked"]

Ask(e, use, surface) ==
    /\ Presented(ed, e) /\ ~Blocked(e) /\ request = NoRequest
    /\ \/ /\ ~Dirty(ed, e)
          /\ Continuation(ed, use, e)
          /\ UNCHANGED <<request, exit, resolving, works>>
       \/ /\ Dirty(ed, e)
          /\ request' = NewRequest(e, use, surface)
          /\ Stay(ed)
          /\ UNCHANGED <<exit, resolving, works>>

\* requestClose; an editor without a session closes at once unless its sidebar is dirty.
CloseEditor(e) ==
    /\ "close" \in Uses /\ ed[e].shown /\ ~Blocked(e)
    /\ ~Awaiting(e, "man")
    /\ \/ Ask(e, "close", "editor")
       \/ /\ ~Presented(ed, e) /\ ~ed[e].side
          /\ FinishClose(ed, e)
          /\ UNCHANGED <<request, exit, resolving, works>>

\* openDocument makes its editor busy until the protocol it runs is done.
OpenDocument(e) ==
    /\ "open" \in Uses /\ opens[e] = "idle" /\ ed[e].shown
    /\ opens' = [opens EXCEPT ![e] = "begun"]
    /\ UNCHANGED <<ed, active, request, exit, resolving, works, shell>>

\* decideDirty answers "cancel" when the request is refused, "discard" when the
\* session is clean, and else what the continuation is given.
DecideDirty(e) ==
    /\ opens[e] = "begun"
    /\ \/ Ask(e, "open", "application") /\ ~Dirty(ed, e)
       \/ /\ Presented(ed, e) /\ ~Blocked(e) /\ request = NoRequest /\ Dirty(ed, e)
          /\ request' = NewRequest(e, "open", "application")
          /\ opens' = [opens EXCEPT ![e] = "asking"]
          /\ UNCHANGED <<ed, active, exit, resolving, works, shell>>
       \/ /\ opens' = [opens EXCEPT ![e] = IF Presented(ed, e) /\ Blocked(e)
                                            THEN "asking" ELSE "answered"]
          /\ ~Presented(ed, e) \/ Blocked(e) \/ request # NoRequest
          /\ UNCHANGED <<ed, active, request, exit, resolving, works, shell>>

OpenDone(e) ==
    /\ opens[e] \in {"begun", "answered"}
    /\ opens' = [opens EXCEPT ![e] = "idle"]
    /\ UNCHANGED <<ed, active, request, exit, resolving, works, shell>>

-----------------------------------------------------------------------------
\* resolve: the decision of the user, and what comes back from save and discard

\* A settled decision: the sequence goes on, or the request's own continuation runs.
Settled(E, r) ==
    IF r.seq # 0
    THEN Advance(E, exit, Fresh)
    ELSE /\ request' = NoRequest /\ resolving' = 0 /\ UNCHANGED exit
         /\ Continuation(E, r.use, r.who)

\* Mutant: a decision that failed keeps its token.
ResolvedKeepsToken(E, work) ==
    IF ~IsCurrent(E, work) THEN ForgetAll /\ Stay(E)
    ELSE IF work.failed \/ Dirty(E, work.who)
    THEN /\ request' = [request EXCEPT !.phase = "failed"]
         /\ UNCHANGED <<exit, resolving>> /\ Stay(E)
    ELSE Settled(E, request)

\* The rest of resolve once the save or discard is over, with the drafts it left.
\* A decision that is no longer the current one clears whatever is.
Resolved(E, work) ==
    IF ~IsCurrent(E, work) THEN ForgetAll /\ Stay(E)
    ELSE IF work.failed \/ Dirty(E, work.who)
    THEN /\ request' = [request EXCEPT !.phase = "failed"] /\ resolving' = 0
         /\ UNCHANGED exit /\ Stay(E)
    ELSE Settled(E, request)

\* What saveLifecycleDrafts and discardLifecycleDrafts wait for first: the sidebar,
\* then the manuscript; a save has nothing to wait for when neither is dirty.
FirstStep(r, decision) ==
    IF decision = "discard" THEN (IF ed[r.who].lock THEN "over" ELSE "discard")
    ELSE IF ed[r.who].side THEN "side"
    ELSE IF ed[r.who].man /\ ~ed[r.who].lock THEN "man" ELSE "over"

Decide(decision) ==
    LET r == request
        work == [token |-> r.token, who |-> r.who, gen |-> r.gen, newer |-> FALSE,
                 at |-> FirstStep(r, decision), failed |-> FALSE]
    IN  /\ r # NoRequest /\ r.phase # "pending" /\ resolving = 0
        /\ IF ~IsCurrent(ed, r) \/ decision = "cancel"
           THEN ForgetAll /\ Stay(ed) /\ UNCHANGED works
           ELSE IF work.at = "over"
           THEN Resolved(ed, [work EXCEPT !.failed = (decision = "discard")]) /\ UNCHANGED works
           ELSE /\ Cardinality(works) < MaxWorks
                /\ resolving' = r.token
                /\ request' = [r EXCEPT !.phase = "pending"]
                /\ works' = works \cup {work}
                /\ Stay([ed EXCEPT ![r.who].saving = IF work.at = "side" THEN r.token ELSE @])
                /\ UNCHANGED exit

\* The sidebar's save is back; it counts only while the form that began it still
\* is mounted, and the manuscript is saved only after it.
SidebarSaved(work) ==
    LET e == work.who
        mounted == ed[e].saving = work.token
        over == [ed EXCEPT ![e].saving = IF mounted THEN 0 ELSE @]
        saved == [over EXCEPT ![e].side = FALSE]
        more == Presented(ed, e) /\ ed[e].man /\ ~ed[e].lock
    IN  /\ work.at = "side"
        /\ \/ /\ mounted /\ more
              /\ works' = (works \ {work}) \cup {[work EXCEPT !.at = "man"]}
              /\ Stay(saved)
              /\ UNCHANGED <<request, exit, resolving>>
           \/ /\ mounted /\ ~more
              /\ works' = works \ {work}
              /\ Resolved(saved, work)
           \/ /\ works' = works \ {work}
              /\ Resolved(over, [work EXCEPT !.failed = TRUE])

\* The manuscript's save is back: edits made meanwhile are kept.
ManuscriptSaved(work) ==
    /\ work.at = "man"
    /\ works' = works \ {work}
    /\ \/ Resolved([ed EXCEPT ![work.who].man = @ /\ work.newer], work)
       \/ Resolved(ed, work)

\* A discard drops both drafts; a failed one drops neither.
Discarded(work) ==
    /\ work.at = "discard"
    /\ works' = works \ {work}
    /\ \/ Resolved([ed EXCEPT ![work.who].man = FALSE,
                              ![work.who].side = @ /\ ed[work.who].saving # 0], work)
       \/ Resolved(ed, [work EXCEPT !.failed = TRUE])

Return(work) == SidebarSaved(work) \/ ManuscriptSaved(work) \/ Discarded(work)

-----------------------------------------------------------------------------
\* The editors by themselves

\* Whether an edit comes after its editor was listed and passed by the close of
\* the window, with a dialog still open or in the turn before the window goes.
Lateness(e) ==
    IF ed[e].late # "no" THEN ed[e].late
    ELSE IF timers > 0 THEN "armed"
    ELSE IF /\ exit # NoExit /\ exit.use = "exit" /\ request.who # e
            /\ Item(ed, e) \notin exit.todo
    THEN "dialog" ELSE "no"

\* An editor is disabled while the editor itself asks, not while the application does.
Enabled(e) ==
    /\ Presented(ed, e) /\ ~ed[e].lock
    /\ ~(request # NoRequest /\ request.surface = "editor" /\ request.who = e)

Edit(e) ==
    /\ Enabled(e)
    /\ \/ /\ ed' = [ed EXCEPT ![e].man = TRUE, ![e].late = Lateness(e)]
          /\ works' = {IF w.who = e /\ w.at = "man" THEN [w EXCEPT !.newer = TRUE] ELSE w :
                           w \in works}
       \/ /\ ed[e].saving = 0
          /\ ed' = [ed EXCEPT ![e].side = TRUE, ![e].late = Lateness(e)]
          /\ UNCHANGED works
    /\ active' = e
    /\ UNCHANGED <<request, exit, resolving, shell, opens>>

\* By undoing, or by the editor's own save button.
Cleaned(e) ==
    /\ Enabled(e) /\ Dirty(ed, e) /\ ed[e].saving = 0
    /\ ~Awaiting(e, "man") /\ ~Awaiting(e, "discard")
    /\ ed' = [ed EXCEPT ![e].man = FALSE, ![e].side = FALSE, ![e].late = "no"]
    /\ UNCHANGED <<active, request, exit, resolving, works, shell, opens>>

\* Preview, save-as and insertion lock their editor for a while.
Lock(e) ==
    /\ IF ed[e].lock THEN TRUE ELSE Enabled(e)
    /\ ed' = [ed EXCEPT ![e].lock = ~@]
    /\ UNCHANGED <<active, request, exit, resolving, works, shell, opens>>

\* An editor registers with the session it finds or opens; it becomes the active one.
Mount(e) ==
    /\ ~ed[e].shown
    /\ ed[e].there \/ ed[e].gen < MaxGen
    /\ ed' = [ed EXCEPT ![e].shown = TRUE, ![e].there = TRUE,
                        ![e].gen = IF ed[e].there THEN @ ELSE @ + 1]
    /\ active' = e
    /\ UNCHANGED <<request, exit, resolving, works, shell, opens>>

\* Mutant: unregistering leaves the sequence without its request.
WithdrawRequest(e) ==
    IF request # NoRequest /\ request.who = e
    THEN request' = NoRequest /\ resolving' = 0 /\ UNCHANGED exit
    ELSE UNCHANGED <<request, exit, resolving>>

\* Unregistering withdraws the request of the editor, and the sequence with it.
Withdraw(e) ==
    IF request # NoRequest /\ request.who = e THEN ForgetAll
    ELSE UNCHANGED <<request, exit, resolving>>

Unmount(e) ==
    /\ ed[e].shown
    /\ ed' = [ed EXCEPT ![e] = Hidden(@)]
    /\ active' = IF active = e THEN 0 ELSE active
    /\ Withdraw(e)
    /\ UNCHANGED <<works, shell, opens>>

\* A new presentation of the same session registers anew.
Represent(e) ==
    /\ Presented(ed, e)
    /\ active' = e
    /\ Withdraw(e)
    /\ UNCHANGED <<ed, works, shell, opens>>

\* The runtime closes a clean session under an editor that still is mounted.
SessionGone(e) ==
    /\ ed[e].there /\ ~Dirty(ed, e)
    /\ ed' = [ed EXCEPT ![e].there = FALSE]
    /\ UNCHANGED <<active, request, exit, resolving, works, shell, opens>>

Next ==
    /\ ~gone
    /\ \/ CloseRequested
       \/ TimerFires
       \/ RequestSequence("route")
       \/ \E d \in {"save", "discard", "cancel"} : Decide(d)
       \/ \E w \in works : Return(w)
       \/ \E e \in Editors :
             \/ CloseEditor(e) \/ OpenDocument(e) \/ DecideDirty(e) \/ OpenDone(e)
             \/ Edit(e) \/ Cleaned(e) \/ Lock(e)
             \/ Mount(e) \/ Unmount(e) \/ Represent(e) \/ SessionGone(e)

Spec == Init /\ [][Next]_vars

\* The native side answers every save and discard it was asked for, as long as there
\* is a window to answer.  Nothing is assumed of the user, who may leave a dialog
\* open, of timers, or of other calls.
Answered(t) == ~gone /\ \E w \in works : w.token = t /\ Return(w)
FairSpec == Spec /\ \A t \in 1..(MaxWorks + 3) : WF_vars(Answered(t))

-----------------------------------------------------------------------------
\* Properties

Requests == [token : Nat \ {0}, who : Editors, gen : 1..MaxGen, use : Uses,
             surface : {"editor", "application"}, seq : Nat,
             phase : {"asked", "pending", "failed"}]

\* One type invariant: the shapes of the editors, the request, the sequence and the calls.
TypeOK ==
    /\ ed \in [Editors -> [there : BOOLEAN, man : BOOLEAN, side : BOOLEAN, saving : Nat,
                           shown : BOOLEAN, lock : BOOLEAN, gen : 0..MaxGen,
                           late : {"no", "dialog", "armed"}]]
    /\ active \in Editors \cup {0}
    /\ request = NoRequest \/ request \in Requests
    /\ exit = NoExit \/ exit \in [id : Nat \ {0}, use : Uses, first : Editors \cup {0},
                                   todo : SUBSET [who : Editors, gen : 1..MaxGen]]
    /\ resolving \in Nat
    /\ works \subseteq [token : Nat, who : Editors, gen : 1..MaxGen, newer : BOOLEAN,
                        at : {"side", "man", "discard"}, failed : BOOLEAN]
    /\ permit \in BOOLEAN /\ timers \in 0..1 /\ gone \in BOOLEAN
    /\ opens \in [Editors -> {"idle", "begun", "asking", "answered"}]

(***************************************************************************)
(* The window goes only when every session that was dirty when the close   *)
(* was asked for has been settled, each under the identity it was listed   *)
(* by: through failed saves, cancelled decisions, editors that unmount or  *)
(* register anew, sessions replaced and decisions that come back late.     *)
(* Texts edited after their turn are excepted.                             *)
(***************************************************************************)
ExitSettles == gone => \A e \in Editors : Dirty(ed, e) => ed[e].late # "no"

(***************************************************************************)
(* Nothing unsaved is in any editor when the window goes, but for a        *)
(* keystroke in the turn between the last decision and the end. The dialog *)
(* of the application leaves the editors enabled: what is typed into one   *)
(* whose turn has passed while the next is asked for goes with the window. *)
(***************************************************************************)
ExitLosesNothing ==
    gone => \A e \in Editors : Dirty(ed, e) => ed[e].late = "armed"

(***************************************************************************)
(* A decision in progress has a call that will end it, so the buttons of   *)
(* the dialog do not stay disabled, whichever calls came back late or were *)
(* withdrawn by an editor that unmounted.                                  *)
(***************************************************************************)
PendingHasResolver ==
    /\ request # NoRequest /\ request.phase = "pending" => resolving = request.token
    /\ resolving # 0 => /\ request.token = resolving
                        /\ \E w \in works : w.token = resolving /\ w.who = request.who

(***************************************************************************)
(* A sequence in progress is asking for one of its sessions: it never      *)
(* stays behind without a request, refusing every later close as busy.     *)
(***************************************************************************)
SequenceAsks == exit # NoExit => request # NoRequest /\ request.seq = exit.id

(***************************************************************************)
(* An armed permit has its timer: a permit left behind would let a later   *)
(* close of the window through without asking for anything.                *)
(***************************************************************************)
PermitHasTimer == permit => timers > 0

(***************************************************************************)
(* A decision in progress comes to an end, and the buttons of the dialog   *)
(* are there again, or the window is gone: whatever is typed, mounted,     *)
(* withdrawn, answered late or failed meanwhile, and whether or not the    *)
(* user ever answers another dialog.                                       *)
(***************************************************************************)
DecisionsEnd == resolving # 0 ~> resolving = 0 \/ gone

=============================================================================
