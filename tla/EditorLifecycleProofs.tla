------------------------ MODULE EditorLifecycleProofs ------------------------
(***************************************************************************)
(* What the lifecycle controller keeps, for any editors, uses and bounds:  *)
(* a decision has its call and a sequence its dialog, a permit has its     *)
(* timer, and the window goes only when every session that was dirty has   *)
(* been settled.                                                           *)
(*                                                                         *)
(* Where a request ends, the drafts are what the save or discard has left  *)
(* of them: E, which is no dirtier than ed (Shrunk).  The lemmas on        *)
(* Continuation, Advance, Settled and Resolved are about any such E.       *)
(***************************************************************************)
EXTENDS EditorLifecycle, FiniteSetTheorems, TLAPS

Editor == [there : BOOLEAN, man : BOOLEAN, side : BOOLEAN, saving : Nat, shown : BOOLEAN,
           lock : BOOLEAN, gen : 0..MaxGen, late : {"no", "dialog", "armed"}]

Exits == [id : Nat \ {0}, use : Uses, first : Editors \cup {0},
          todo : SUBSET [who : Editors, gen : 1..MaxGen]]

Works == [token : Nat, who : Editors, gen : 1..MaxGen, newer : BOOLEAN,
          at : {"side", "man", "discard"}, failed : BOOLEAN]

\* No draft without its session, no sidebar without its window.
EditorOK(x) ==
    /\ x.there => x.gen # 0
    /\ ~x.there => ~x.man /\ ~x.side
    /\ ~x.shown => ~x.side

EditorsOK(E) == E \in [Editors -> Editor] /\ \A e \in Editors : EditorOK(E[e])

WorksOK ==
    /\ works \subseteq Works
    /\ IsFiniteSet(works) /\ Cardinality(works) <= MaxWorks
    /\ \A w \in works : w.token # 0

\* A request belongs to the sequence there is or to an editor by itself,
RequestOK ==
    request # NoRequest =>
        /\ request \in Requests
        /\ request.seq = 0 => request.use \in {"close", "open"}
        /\ request.seq # 0 => exit # NoExit

\* a sequence has its request,
ExitOK ==
    exit # NoExit =>
        /\ exit \in Exits /\ exit.use \in {"exit", "route"}
        /\ request # NoRequest /\ request.seq = exit.id

\* and a call that bears the request's token was made for it.
CallsOK ==
    /\ resolving \in Nat /\ PendingHasResolver
    /\ \A w \in works :
          w.token = request.token => w.who = request.who /\ w.gen = request.gen

\* Everything unsaved in E was edited after its turn.
Passed(E) == \A e \in Editors : Dirty(E, e) => E[e].late # "no"

\* A permit and its timer; what the sequence of a close still has to ask for.
ShellOK ==
    /\ permit \in BOOLEAN /\ timers \in {0, 1} /\ gone \in BOOLEAN
    /\ permit => timers = 1
    /\ timers = 1 /\ ~permit => gone
    /\ timers = 1 \/ gone => Passed(ed)
    /\ exit # NoExit /\ exit.use = "exit" =>
          /\ timers = 0
          /\ \A e \in Editors : Dirty(ed, e) /\ ed[e].late = "no" =>
                e = request.who \/ Item(ed, e) \in exit.todo

OpensOK ==
    /\ opens \in [Editors -> {"idle", "begun", "asking", "answered"}]
    /\ \A e \in Editors : opens[e] # "idle" => "open" \in Uses

IInv ==
    /\ EditorsOK(ed) /\ WorksOK /\ RequestOK /\ ExitOK /\ CallsOK /\ ShellOK
    /\ active \in Editors \cup {0} /\ OpensOK

\* What is left of the drafts once a save or a discard is over.
Shrunk(E) ==
    /\ EditorsOK(E)
    /\ \A e \in Editors :
          /\ E[e].gen = ed[e].gen /\ E[e].late = ed[e].late
          /\ Dirty(E, e) => Dirty(ed, e)

LEMMA Constants ==
    /\ Editors \subseteq Nat \ {0} /\ MaxGen \in Nat \ {0} /\ MaxWorks \in Nat \ {0}
    /\ Uses \subseteq {"close", "open", "exit", "route"} /\ 0 \notin Editors
BY LifecycleBounds

LEMMA Absences ==
    /\ \A r \in Requests : r # NoRequest /\ r.token # 0
    /\ \A x \in Exits : x # NoExit /\ x.id # 0
    /\ NoRequest.token = 0 /\ NoExit.id = 0
BY DEF Requests, Exits, NoRequest, NoExit

\* There always is a token that nothing remembers.
LEMMA FreshToken ==
    ASSUME IInv
    PROVE  Fresh \in Nat \ {0} /\ \A w \in works : w.token # Fresh
<1> DEFINE tokens == {w.token : w \in works}
<1> DEFINE used == {request.token, exit.id} \cup tokens
<1> DEFINE f == [w \in works |-> w.token]
<1>1. IsFiniteSet(tokens) /\ Cardinality(tokens) <= MaxWorks /\ Cardinality(tokens) \in Nat
    <2>1. f \in Surjection(works, tokens)
        BY DEF Surjection
    <2>2. IsFiniteSet(works) /\ Cardinality(works) <= MaxWorks
        BY DEF IInv, WorksOK
    <2>3. IsFiniteSet(tokens) /\ Cardinality(tokens) <= Cardinality(works)
        <3> HIDE DEF f, tokens
        <3> QED
            BY <2>1, <2>2, FS_Surjection
    <2> HIDE DEF tokens
    <2>4. Cardinality(tokens) \in Nat /\ Cardinality(works) \in Nat
        BY <2>2, <2>3, FS_CardinalityType
    <2> QED
        BY <2>2, <2>3, <2>4, Constants
<1> HIDE DEF tokens
<1>2. IsFiniteSet(used) /\ Cardinality(used) <= MaxWorks + 2
    <2>1. \A S, x : IsFiniteSet(S) =>
            /\ IsFiniteSet(S \cup {x}) /\ Cardinality(S \cup {x}) \in Nat
            /\ Cardinality(S) \in Nat /\ Cardinality(S \cup {x}) <= Cardinality(S) + 1
        <3> TAKE S, x
        <3> HAVE IsFiniteSet(S)
        <3>1. /\ IsFiniteSet(S \cup {x})
              /\ Cardinality(S \cup {x}) = IF x \in S THEN Cardinality(S) ELSE Cardinality(S) + 1
            BY FS_AddElement
        <3>2. Cardinality(S) \in Nat
            BY FS_CardinalityType
        <3> QED
            BY <3>1, <3>2
    <2> PICK a, b : a = request.token /\ b = exit.id
        OBVIOUS
    <2>2. used = (tokens \cup {a}) \cup {b}
        OBVIOUS
    <2> HIDE DEF used
    <2>3. IsFiniteSet(tokens \cup {a}) /\ Cardinality(tokens \cup {a}) \in Nat
          /\ Cardinality(tokens \cup {a}) <= Cardinality(tokens) + 1
        BY <1>1, <2>1
    <2>4. IsFiniteSet(used) /\ Cardinality(used) \in Nat
          /\ Cardinality(used) <= Cardinality(tokens \cup {a}) + 1
        BY <2>1, <2>2, <2>3
    <2> QED
        BY <1>1, <2>3, <2>4, Constants
<1> HIDE DEF used
<1>3. \E t \in 1..(MaxWorks + 3) : t \notin used
    <2> SUFFICES ASSUME 1..(MaxWorks + 3) \subseteq used PROVE FALSE
        OBVIOUS
    <2>1. Cardinality(1..(MaxWorks + 3)) = MaxWorks + 3
        BY FS_Interval, Constants
    <2>2. Cardinality(1..(MaxWorks + 3)) <= Cardinality(used)
        BY <1>2, FS_Subset
    <2>3. Cardinality(used) \in Nat
        BY <1>2, FS_CardinalityType
    <2> QED
        BY <1>2, <2>1, <2>2, <2>3, Constants
<1>4. Fresh = CHOOSE t \in 1..(MaxWorks + 3) : t \notin used
    BY DEF Fresh, used, tokens
<1>5. Fresh \in 1..(MaxWorks + 3) /\ Fresh \notin used
    BY <1>3, <1>4
<1> QED
    BY <1>5, Constants DEF used, tokens

-----------------------------------------------------------------------------
\* The continuations

LEMMA Forgotten ==
    ASSUME WorksOK', ForgetAll
    PROVE  RequestOK' /\ ExitOK' /\ CallsOK'
BY Absences DEF ForgetAll, WorksOK, RequestOK, ExitOK, CallsOK, PendingHasResolver

\* A closed or hidden editor is no dirtier.
LEMMA PutAway ==
    ASSUME NEW x \in Editor, EditorOK(x)
    PROVE  /\ Hidden(x) \in Editor /\ EditorOK(Hidden(x)) /\ ~Hidden(x).shown
           /\ Hidden(x).there = x.there /\ Hidden(x).man = x.man
           /\ Hidden(x).gen = x.gen /\ Hidden(x).late = x.late
           /\ Closed(x) \in Editor /\ EditorOK(Closed(x)) /\ ~Closed(x).there
BY DEF Editor, EditorOK, Hidden, Closed

\* A continuation runs when nothing is asked for any more; that of a close of the
\* window, when everything unsaved was edited after its turn.
LEMMA ContinuationKeeps ==
    ASSUME IInv, ~gone, NEW E, EditorsOK(E), NEW use, NEW e \in Editors \cup {0},
           use \in {"close", "open"} => e \in Editors /\ use \in Uses,
           exit' = NoExit,
           timers = 1 => Passed(E),
           use = "exit" => timers = 0 /\ Passed(E),
           Continuation(E, use, e)
    PROVE  /\ EditorsOK(ed)' /\ ShellOK'
           /\ active' \in Editors \cup {0} /\ OpensOK'
<1>1. CASE use = "exit" /\ permit' = TRUE /\ timers' = timers + 1 /\ ed' = E
           /\ UNCHANGED <<active, gone, opens>>
    BY <1>1 DEF IInv, ShellOK, OpensOK, EditorsOK, Passed, Dirty
<1>2. CASE use = "route" /\ ed' = [x \in Editors |-> Hidden(E[x])] /\ active' = 0
           /\ UNCHANGED <<shell, opens>>
    <2>1. \A x \in Editors : Hidden(E[x]) \in Editor /\ EditorOK(Hidden(E[x]))
        BY PutAway DEF EditorsOK
    <2>2. EditorsOK(ed)'
        BY <1>2, <2>1 DEF EditorsOK
    <2>3. \A x \in Editors : Dirty(ed', x) => Dirty(E, x) /\ ed'[x].late = E[x].late
        BY <1>2, PutAway DEF EditorsOK, Dirty
    <2>4. Passed(E) => Passed(ed)'
        BY <2>3 DEF Passed
    <2> QED
        BY <1>2, <2>2, <2>4 DEF IInv, ShellOK, OpensOK, shell
<1>3. CASE use = "close" /\ FinishClose(E, e)
    <2>1. e \in Editors /\ UNCHANGED <<permit, timers, gone, opens>>
        BY <1>3 DEF FinishClose, shell
    <2>2. active' \in Editors \cup {0}
        BY <1>3 DEF FinishClose, IInv
    <2>3. EditorsOK(ed)' /\ \A x \in Editors : Dirty(ed', x) => Dirty(E, x) /\ ed'[x] = E[x]
        <3>1. CASE Dirty(E, e)
            BY <1>3, <3>1 DEF FinishClose, EditorsOK
        <3>2. CASE ~Dirty(E, e)
            <4> PICK y : y = Closed(E[e])
                OBVIOUS
            <4>1. y \in Editor /\ EditorOK(y) /\ ~y.there
                BY <2>1, PutAway DEF EditorsOK
            <4>2. ed' = [E EXCEPT ![e] = y]
                BY <1>3, <3>2 DEF FinishClose
            <4> QED
                BY <2>1, <4>1, <4>2 DEF EditorsOK, Dirty
        <3> QED
            BY <3>1, <3>2
    <2>4. Passed(E) => Passed(ed)'
        BY <2>3 DEF Passed
    <2> QED
        BY <2>1, <2>2, <2>3, <2>4 DEF IInv, ShellOK, OpensOK
<1>4. CASE use = "open" /\ opens' = [opens EXCEPT ![e] = "answered"]
           /\ ed' = E /\ UNCHANGED <<active, shell>>
    BY <1>4 DEF IInv, ShellOK, OpensOK, shell, EditorsOK, Passed, Dirty
<1> QED
    BY <1>1, <1>2, <1>3, <1>4 DEF Continuation

\* Where nothing continues.
LEMMA StayKeeps ==
    ASSUME IInv, ~gone, NEW E, EditorsOK(E), Stay(E),
           timers = 1 => Passed(E),
           exit' # NoExit /\ exit'.use = "exit" =>
              /\ timers = 0
              /\ \A e \in Editors : Dirty(E, e) /\ E[e].late = "no" =>
                    e = request'.who \/ Item(E, e) \in exit'.todo
    PROVE  /\ EditorsOK(ed)' /\ ShellOK'
           /\ active' \in Editors \cup {0} /\ OpensOK'
BY DEF IInv, ShellOK, OpensOK, Stay, shell, EditorsOK, Passed, Dirty, Item

\* A sequence goes on: E is what the drafts are, seq what is still to be asked for.
LEMMA AdvanceKeeps ==
    ASSUME IInv, ~gone, WorksOK', works' \subseteq works,
           NEW E, EditorsOK(E), NEW seq \in Exits, seq.use \in {"exit", "route"},
           NEW token \in Nat \ {0}, \A w \in works : w.token # token,
           timers = 1 => Passed(E),
           seq.use = "exit" =>
              /\ timers = 0
              /\ \A e \in Editors :
                    Dirty(E, e) /\ E[e].late = "no" => Item(E, e) \in seq.todo,
           Advance(E, seq, token)
    PROVE  IInv'
<1> PICK left : left = {x \in seq.todo : Asks(E, x)}
    OBVIOUS
<1>1. \A e \in Editors : Dirty(E, e) /\ Item(E, e) \in seq.todo => Item(E, e) \in left
    BY DEF Asks, Item, Dirty
<1>2. CASE left = {} /\ ForgetAll /\ Continuation(E, seq.use, 0)
    <2>1. exit' = NoExit /\ RequestOK' /\ ExitOK' /\ CallsOK'
        BY <1>2, Forgotten DEF ForgetAll
    <2>2. seq.use = "exit" => Passed(E)
        BY <1>1, <1>2 DEF Passed
    <2> QED
        BY <1>2, <2>1, <2>2, ContinuationKeeps DEF IInv
<1>3. ASSUME NEW item \in left,
             \A x \in left \ {item} : Before(seq.first, item.who, x.who)
      PROVE  \/ E[item.who].shown
             \/ ~(ForgetAll /\ Stay(E))
             \/ IInv'
    <2> SUFFICES ASSUME ForgetAll, Stay(E) PROVE IInv'
        OBVIOUS
    <2>1. exit' = NoExit /\ RequestOK' /\ ExitOK' /\ CallsOK'
        BY Forgotten DEF ForgetAll
    <2> QED
        BY <2>1, StayKeeps DEF IInv
<1>4. ASSUME NEW item \in left,
             \A x \in left \ {item} : Before(seq.first, item.who, x.who),
             request' = [token |-> token, who |-> item.who, gen |-> item.gen,
                         use |-> seq.use, surface |-> "application", seq |-> seq.id,
                         phase |-> "asked"],
             exit' = [seq EXCEPT !.todo =
                        {x \in @ : Before(seq.first, item.who, x.who)}],
             resolving' = 0, Stay(E)
      PROVE  IInv'
    <2>1. item \in [who : Editors, gen : 1..MaxGen]
        BY DEF Exits
    <2>2. request' \in Requests /\ request'.seq = seq.id /\ request'.token = token
          /\ request'.who = item.who /\ request'.phase = "asked"
        BY <1>4, <2>1 DEF Requests, Exits
    <2>3. exit' \in Exits /\ exit'.use = seq.use /\ exit'.id = seq.id
          /\ exit'.todo = {x \in seq.todo : Before(seq.first, item.who, x.who)}
        BY <1>4 DEF Exits
    <2>4. request' # NoRequest /\ exit' # NoExit /\ seq.id # 0
        BY <2>2, <2>3, Absences
    <2>5. RequestOK' /\ ExitOK'
        BY <2>2, <2>3, <2>4 DEF RequestOK, ExitOK
    <2>6. CallsOK'
        BY <1>4, <2>2 DEF CallsOK, PendingHasResolver
    <2>7. \A e \in Editors : Item(E, e) \in left =>
             e = request'.who \/ Item(E, e) \in exit'.todo
        BY <1>4, <2>2, <2>3 DEF Item
    <2> QED
        BY <1>1, <1>4, <2>3, <2>5, <2>6, <2>7, StayKeeps DEF IInv
<1> QED
    BY <1>2, <1>3, <1>4 DEF Advance

\* A decision that was settled: its sequence goes on, or its own continuation runs.
LEMMA SettledKeeps ==
    ASSUME IInv, ~gone, WorksOK', works' \subseteq works,
           NEW E, Shrunk(E), request # NoRequest, ~Dirty(E, request.who),
           Settled(E, request)
    PROVE  IInv'
<1>1. EditorsOK(E) /\ (timers = 1 => Passed(E))
    BY DEF Shrunk, Passed, IInv, ShellOK
<1>2. CASE request.seq # 0
    <2>1. exit \in Exits /\ exit.use \in {"exit", "route"} /\ exit # NoExit
        BY <1>2 DEF IInv, RequestOK, ExitOK
    <2>2. PICK token : token = Fresh
        OBVIOUS
    <2>3. token \in Nat \ {0} /\ \A w \in works : w.token # token
        BY <2>2, FreshToken
    <2>4. Advance(E, exit, token)
        BY <1>2, <2>2 DEF Settled
    <2>5. \A e \in Editors : Dirty(E, e) /\ E[e].late = "no" =>
             /\ Dirty(ed, e) /\ ed[e].late = "no" /\ e # request.who /\ Item(ed, e) = Item(E, e)
        BY DEF Shrunk, Item
    <2>6. exit.use = "exit" =>
            /\ timers = 0
            /\ \A e \in Editors : Dirty(E, e) /\ E[e].late = "no" => Item(E, e) \in exit.todo
        BY <2>1, <2>5 DEF IInv, ShellOK
    <2> QED
        BY <1>1, <2>1, <2>3, <2>4, <2>6, AdvanceKeeps
<1>3. CASE request.seq = 0
    <2>1. request \in Requests /\ request.use \in {"close", "open"} /\ exit = NoExit
        BY <1>3, Absences DEF IInv, RequestOK, ExitOK
    <2>2. request' = NoRequest /\ resolving' = 0 /\ exit' = NoExit
          /\ Continuation(E, request.use, request.who)
        BY <1>3, <2>1 DEF Settled
    <2>3. RequestOK' /\ ExitOK' /\ CallsOK'
        BY <2>2, Forgotten DEF ForgetAll
    <2>4. request.who \in Editors /\ request.use \in Uses
        BY <2>1 DEF Requests
    <2> QED
        BY <1>1, <2>1, <2>2, <2>3, <2>4, ContinuationKeeps DEF IInv
<1> QED
    BY <1>2, <1>3

\* What is decided of the request that is asked, or of one that is not any more.
LEMMA ResolvedKeeps ==
    ASSUME IInv, ~gone, WorksOK', works' \subseteq works,
           NEW E, Shrunk(E), NEW work, work.token # 0,
           work.token = request.token => work.who = request.who,
           Resolved(E, work)
    PROVE  IInv'
<1>1. EditorsOK(E) /\ (timers = 1 => Passed(E))
    BY DEF Shrunk, Passed, IInv, ShellOK
<1>2. CASE ~IsCurrent(E, work)
    <2>1. ForgetAll /\ Stay(E) /\ exit' = NoExit
        BY <1>2 DEF Resolved, ForgetAll
    <2>2. RequestOK' /\ ExitOK' /\ CallsOK'
        BY <2>1, Forgotten
    <2> QED
        BY <1>1, <2>1, <2>2, StayKeeps DEF IInv
<1>3. CASE IsCurrent(E, work) /\ (work.failed \/ Dirty(E, work.who))
    <2>1. request' = [request EXCEPT !.phase = "failed"] /\ resolving' = 0
          /\ UNCHANGED exit /\ Stay(E)
        BY <1>3 DEF Resolved
    <2>2. request # NoRequest
        BY <1>3, Absences DEF IsCurrent
    <2>3. /\ request' \in Requests /\ request'.phase = "failed"
          /\ request'.seq = request.seq /\ request'.use = request.use
          /\ request'.who = request.who /\ request'.gen = request.gen
          /\ request'.token = request.token
        BY <2>1, <2>2 DEF IInv, RequestOK, Requests
    <2>4. RequestOK' /\ ExitOK'
        BY <2>1, <2>2, <2>3, Absences DEF IInv, RequestOK, ExitOK
    <2>5. CallsOK'
        BY <2>1, <2>3 DEF IInv, CallsOK, PendingHasResolver
    <2>6. exit # NoExit /\ exit.use = "exit" =>
            /\ timers = 0
            /\ \A e \in Editors : Dirty(E, e) /\ E[e].late = "no" =>
                  e = request.who \/ Item(E, e) \in exit.todo
        BY DEF IInv, ShellOK, Shrunk, Item
    <2> QED
        BY <1>1, <2>1, <2>3, <2>4, <2>5, <2>6, StayKeeps DEF IInv
<1>4. CASE IsCurrent(E, work) /\ ~work.failed /\ ~Dirty(E, work.who)
    <2>1. work.who = request.who /\ request # NoRequest /\ Settled(E, request)
        BY <1>4, Absences DEF IsCurrent, Resolved
    <2> QED
        BY <1>4, <2>1, SettledKeeps
<1> QED
    BY <1>2, <1>3, <1>4

-----------------------------------------------------------------------------
\* Requests

LEMMA RequestSequenceKeeps ==
    ASSUME IInv, ~gone, NEW use \in {"exit", "route"}, RequestSequence(use),
           use = "exit" => ~permit
    PROVE  IInv'
<1> PICK E : E = [e \in Editors |-> [ed[e] EXCEPT !.late = IF use = "exit" THEN "no" ELSE @]]
    OBVIOUS
<1> PICK token : token = Fresh
    OBVIOUS
<1> PICK seq : seq = [id |-> token, use |-> use, first |-> active, todo |-> Listed(E)]
    OBVIOUS
<1>1. token \in Nat \ {0} /\ \A w \in works : w.token # token
    BY FreshToken
<1>2. /\ EditorsOK(E)
      /\ \A e \in Editors : /\ E[e].gen = ed[e].gen /\ Dirty(E, e) = Dirty(ed, e)
                            /\ use # "exit" => E[e].late = ed[e].late
    <2>1. \A e \in Editors : ed[e] \in Editor /\ EditorOK(ed[e])
        BY DEF IInv, EditorsOK
    <2> SUFFICES ASSUME NEW e \in Editors
                 PROVE  /\ E[e] \in Editor /\ EditorOK(E[e])
                        /\ E[e].gen = ed[e].gen /\ Dirty(E, e) = Dirty(ed, e)
                        /\ use # "exit" => E[e].late = ed[e].late
        BY DEF EditorsOK
    <2> QED
        BY <2>1 DEF Editor, EditorOK, Dirty
<1>3. seq \in Exits /\ seq.use = use /\ seq.todo = Listed(E)
    <2>1. Listed(E) \subseteq [who : Editors, gen : 1..MaxGen]
        <3>1. \A e \in Editors : Dirty(E, e) => E[e].gen \in 1..MaxGen
            BY <1>2, Constants DEF Dirty, EditorsOK, EditorOK, Editor
        <3>2. \A e \in Editors : Dirty(E, e) => Item(E, e) \in [who : Editors, gen : 1..MaxGen]
            BY <3>1 DEF Item
        <3> QED
            BY <3>2 DEF Listed
    <2>2. use \in Uses /\ active \in Editors \cup {0}
        BY DEF RequestSequence, IInv
    <2> QED
        BY <1>1, <2>1, <2>2 DEF Exits
<1>4. timers = 1 => use = "route" /\ Passed(E)
    BY <1>2 DEF IInv, ShellOK, Passed
<1>5. use = "exit" => timers = 0
    BY <1>4 DEF IInv, ShellOK
<1>6. \A e \in Editors : Dirty(E, e) => Item(E, e) \in seq.todo
    BY <1>3 DEF Listed
<1>7. Advance(E, seq, token) /\ UNCHANGED works
    BY DEF RequestSequence
<1>8. WorksOK' /\ works' \subseteq works
    BY <1>7 DEF IInv, WorksOK
<1> QED
    BY <1>1, <1>2, <1>3, <1>4, <1>5, <1>6, <1>7, <1>8, AdvanceKeeps

LEMMA CloseRequestedKeeps ==
    ASSUME IInv, ~gone, CloseRequested
    PROVE  IInv'
<1>1. CASE ~permit /\ RequestSequence("exit")
    BY <1>1, RequestSequenceKeeps
<1>2. CASE /\ permit /\ permit' = FALSE /\ gone' = TRUE
           /\ UNCHANGED <<ed, active, request, exit, resolving, works, timers, opens>>
    BY <1>2 DEF IInv, EditorsOK, WorksOK, RequestOK, ExitOK, CallsOK, PendingHasResolver,
       ShellOK, OpensOK, Passed, Dirty, Item
<1> QED
    BY <1>1, <1>2 DEF CloseRequested

LEMMA TimerFiresKeeps ==
    ASSUME IInv, ~gone, TimerFires
    PROVE  IInv'
<1>1. EditorsOK(ed)' /\ WorksOK' /\ RequestOK' /\ ExitOK' /\ CallsOK' /\ OpensOK'
      /\ active' \in Editors \cup {0}
    BY DEF TimerFires, IInv, EditorsOK, WorksOK, RequestOK, ExitOK, CallsOK,
       PendingHasResolver, OpensOK
<1>2. timers = 1 /\ timers' = 0
    <2>1. timers \in {0, 1}
        BY DEF IInv, ShellOK
    <2>2. timers > 0 /\ timers' = timers - 1
        BY DEF TimerFires
    <2>3. timers = 1
        BY <2>1, <2>2
    <2> QED
        BY <2>2, <2>3
<1>3. permit' \in BOOLEAN /\ ~permit' /\ gone' \in BOOLEAN
    BY Zenon DEF TimerFires, IInv, ShellOK
<1>4. UNCHANGED <<ed, exit, request>>
    BY DEF TimerFires
<1>5. Passed(ed)
    BY <1>2 DEF IInv, ShellOK
<1>6. Passed(ed)'
    BY <1>4, <1>5 DEF Passed, Dirty
<1>7. ~(exit # NoExit /\ exit.use = "exit")
    BY <1>2 DEF IInv, ShellOK
<1>8. ShellOK'
    BY <1>2, <1>3, <1>4, <1>6, <1>7 DEF ShellOK
<1> QED
    BY <1>1, <1>8 DEF IInv

LEMMA NewRequestKeeps ==
    ASSUME IInv, NEW e \in Editors, NEW use \in {"close", "open"} \cap Uses,
           NEW surface \in {"editor", "application"}, Presented(ed, e),
           request = NoRequest, request' = NewRequest(e, use, surface),
           UNCHANGED <<exit, resolving, works>>
    PROVE  RequestOK' /\ ExitOK' /\ CallsOK' /\ WorksOK' /\ exit' = NoExit
<1>1. Fresh \in Nat \ {0} /\ \A w \in works : w.token # Fresh
    BY FreshToken
<1>2. ed[e].gen \in 1..MaxGen
    BY Constants DEF Presented, IInv, EditorsOK, EditorOK, Editor
<1>3. request' \in Requests /\ request'.seq = 0 /\ request'.phase = "asked"
      /\ request'.use = use /\ request'.token = Fresh
    BY <1>1, <1>2 DEF NewRequest, Requests
<1>4. exit = NoExit
    BY DEF IInv, ExitOK
<1>5. resolving = 0
    BY Absences DEF IInv, CallsOK, PendingHasResolver
<1>6. CallsOK'
    BY <1>1, <1>3, <1>5 DEF CallsOK, PendingHasResolver
<1> QED
    BY <1>3, <1>4, <1>6 DEF RequestOK, ExitOK, IInv, WorksOK

LEMMA AskKeeps ==
    ASSUME IInv, ~gone, NEW e \in Editors, NEW use \in {"close", "open"} \cap Uses,
           NEW surface \in {"editor", "application"}, Ask(e, use, surface)
    PROVE  IInv'
<1> PICK E : E = ed
    OBVIOUS
<1>1. EditorsOK(E) /\ (timers = 1 => Passed(E)) /\ request = NoRequest /\ exit = NoExit
    BY DEF IInv, ShellOK, ExitOK, Ask
<1>2. CASE Continuation(ed, use, e) /\ UNCHANGED <<request, exit, resolving, works>>
    <2>1. RequestOK' /\ ExitOK' /\ CallsOK' /\ WorksOK' /\ exit' = NoExit
        BY <1>1, <1>2 DEF IInv, RequestOK, ExitOK, CallsOK, PendingHasResolver, WorksOK
    <2>2. Continuation(E, use, e)
        BY <1>2
    <2> QED
        BY <1>1, <2>1, <2>2, ContinuationKeeps DEF IInv
<1>3. CASE Stay(ed) /\ request' = NewRequest(e, use, surface) /\ UNCHANGED <<exit, resolving, works>>
    <2>1. RequestOK' /\ ExitOK' /\ CallsOK' /\ WorksOK' /\ exit' = NoExit
        BY <1>1, <1>3, NewRequestKeeps DEF Ask
    <2>2. Stay(E)
        BY <1>3
    <2> QED
        BY <1>1, <2>1, <2>2, StayKeeps DEF IInv
<1> QED
    BY <1>2, <1>3 DEF Ask

LEMMA CloseEditorKeeps ==
    ASSUME IInv, ~gone, NEW e \in Editors, CloseEditor(e)
    PROVE  IInv'
<1>1. CASE Ask(e, "close", "editor")
    BY <1>1, AskKeeps DEF CloseEditor
<1>2. CASE FinishClose(ed, e) /\ UNCHANGED <<request, exit, resolving, works>>
    <2> PICK y : y = Closed(ed[e])
        OBVIOUS
    <2>1. y \in Editor /\ EditorOK(y) /\ ~y.there
        BY PutAway DEF IInv, EditorsOK
    <2>2. ed' = ed \/ ed' = [ed EXCEPT ![e] = y]
        BY <1>2 DEF FinishClose
    <2>3. /\ EditorsOK(ed)'
          /\ \A x \in Editors : Dirty(ed, x)' => Dirty(ed, x) /\ ed'[x] = ed[x]
        BY <2>1, <2>2 DEF IInv, EditorsOK, Dirty
    <2>4. Passed(ed) => Passed(ed)'
        BY <2>3 DEF Passed
    <2>5. UNCHANGED <<permit, timers, gone, opens>> /\ active' \in Editors \cup {0} /\ OpensOK'
        BY <1>2 DEF FinishClose, shell, IInv, OpensOK
    <2>6. RequestOK' /\ ExitOK' /\ CallsOK' /\ WorksOK'
        BY <1>2 DEF IInv, RequestOK, ExitOK, CallsOK, PendingHasResolver, WorksOK
    <2>7. ShellOK'
        BY <1>2, <2>3, <2>4, <2>5 DEF IInv, ShellOK, Item
    <2> QED
        BY <2>3, <2>5, <2>6, <2>7 DEF IInv
<1> QED
    BY <1>1, <1>2 DEF CloseEditor

LEMMA OpensKeep ==
    ASSUME IInv, ~gone, NEW e \in Editors, OpenDocument(e) \/ DecideDirty(e) \/ OpenDone(e)
    PROVE  IInv'
<1>1. CASE Ask(e, "open", "application") /\ "open" \in Uses
    BY <1>1, AskKeeps
<1>2. CASE /\ "open" \in Uses /\ Presented(ed, e) /\ request = NoRequest
           /\ request' = NewRequest(e, "open", "application")
           /\ opens' = [opens EXCEPT ![e] = "asking"]
           /\ UNCHANGED <<ed, active, exit, resolving, works, shell>>
    <2>1. RequestOK' /\ ExitOK' /\ CallsOK' /\ WorksOK' /\ exit' = NoExit
        BY <1>2, NewRequestKeeps
    <2> QED
        BY <1>2, <2>1 DEF IInv, ShellOK, OpensOK, shell, EditorsOK, Passed, Dirty
<1>3. CASE /\ \E x \in {"idle", "begun", "asking", "answered"} : opens' = [opens EXCEPT ![e] = x]
           /\ "open" \in Uses
           /\ UNCHANGED <<ed, active, request, exit, resolving, works, shell>>
    BY <1>3 DEF IInv, EditorsOK, WorksOK, RequestOK, ExitOK, CallsOK, PendingHasResolver,
       ShellOK, OpensOK, shell, Passed, Dirty, Item
<1>4. opens[e] # "idle" => "open" \in Uses
    BY DEF IInv, OpensOK
<1>5. CASE OpenDocument(e)
    BY <1>3, <1>5 DEF OpenDocument
<1>6. CASE DecideDirty(e)
    BY <1>1, <1>2, <1>3, <1>4, <1>6 DEF DecideDirty
<1>7. CASE OpenDone(e)
    BY <1>3, <1>4, <1>7 DEF OpenDone
<1> QED
    BY <1>5, <1>6, <1>7

-----------------------------------------------------------------------------
\* Decisions

LEMMA NothingShrunk ==
    ASSUME IInv
    PROVE  Shrunk(ed)
BY DEF IInv, Shrunk

\* Drafts that are dropped leave the rest of an editor as it is.
LEMMA Dropped ==
    ASSUME IInv, NEW e \in Editors, NEW x \in Editor,
           x.there = ed[e].there, x.shown = ed[e].shown, x.gen = ed[e].gen, x.late = ed[e].late,
           x.man => ed[e].man, x.side => ed[e].side
    PROVE  Shrunk([ed EXCEPT ![e] = x])
<1>1. ed \in [Editors -> Editor] /\ EditorOK(ed[e]) /\ EditorsOK(ed)
    BY DEF IInv, EditorsOK
<1>2. EditorOK(x)
    BY <1>1 DEF EditorOK
<1> QED
    BY <1>1, <1>2 DEF Shrunk, EditorsOK, Dirty

\* What a form knows of its save makes no editor dirtier.
LEMMA SavingShrunk ==
    ASSUME IInv, NEW e \in Editors, NEW n \in Nat
    PROVE  Shrunk([ed EXCEPT ![e].saving = n])
<1> PICK x : x = [ed[e] EXCEPT !.saving = n]
    OBVIOUS
<1>1. ed \in [Editors -> Editor] /\ ed[e] \in Editor
    BY DEF IInv, EditorsOK
<1>2. /\ x \in Editor
      /\ x.there = ed[e].there /\ x.shown = ed[e].shown /\ x.gen = ed[e].gen
      /\ x.late = ed[e].late /\ x.man = ed[e].man /\ x.side = ed[e].side
    BY <1>1 DEF Editor
<1>3. Shrunk([ed EXCEPT ![e] = x])
    BY <1>2, Dropped
<1>4. [ed EXCEPT ![e] = x] = [ed EXCEPT ![e].saving = n]
    BY <1>1
<1> QED
    BY <1>3, <1>4

LEMMA OneCallLess ==
    ASSUME IInv, NEW w \in works, works' = works \ {w}
    PROVE  WorksOK' /\ works' \subseteq works
<1>1. IsFiniteSet(works \ {w}) /\ Cardinality(works \ {w}) = Cardinality(works) - 1
    BY FS_RemoveElement DEF IInv, WorksOK
<1>2. Cardinality(works) \in Nat
    BY FS_CardinalityType DEF IInv, WorksOK
<1>3. Cardinality(works \ {w}) <= MaxWorks
    BY <1>1, <1>2, Constants DEF IInv, WorksOK
<1> QED
    BY <1>1, <1>3 DEF IInv, WorksOK

LEMMA SameCalls ==
    ASSUME IInv, UNCHANGED works
    PROVE  WorksOK' /\ works' \subseteq works
BY DEF IInv, WorksOK

LEMMA DecideKeeps ==
    ASSUME IInv, ~gone, NEW decision, Decide(decision)
    PROVE  IInv'
<1> PICK at : at = FirstStep(request, decision)
    OBVIOUS
<1> PICK work : work = [token |-> request.token, who |-> request.who, gen |-> request.gen,
                        newer |-> FALSE, at |-> at, failed |-> FALSE]
    OBVIOUS
<1> PICK E : E = ed
    OBVIOUS
<1> PICK n : n = IF at = "side" THEN request.token ELSE ed[request.who].saving
    OBVIOUS
<1> PICK F : F = [ed EXCEPT ![request.who].saving = n]
    OBVIOUS
<1>1. request \in Requests /\ request # NoRequest /\ Shrunk(E) /\ resolving = 0
    BY NothingShrunk DEF Decide, IInv, RequestOK
<1>2. request.who \in Editors /\ request.token \in Nat
    BY <1>1 DEF Requests
<1>3. n \in Nat
    BY <1>2 DEF IInv, EditorsOK, Editor
<1>4. Shrunk(F)
    BY <1>2, <1>3, SavingShrunk
<1>5. work.token # 0 /\ work.token = request.token /\ work.who = request.who
      /\ work.gen = request.gen /\ work.at = at
    BY <1>1, Absences
<1>6. CASE ForgetAll /\ Stay(ed) /\ UNCHANGED works
    <2>1. WorksOK' /\ RequestOK' /\ ExitOK' /\ CallsOK' /\ exit' = NoExit
        BY <1>6, SameCalls, Forgotten DEF ForgetAll
    <2>2. Stay(E) /\ EditorsOK(E) /\ (timers = 1 => Passed(E))
        BY <1>6 DEF IInv, ShellOK
    <2> QED
        BY <2>1, <2>2, StayKeeps DEF IInv
<1>7. CASE Resolved(ed, [work EXCEPT !.failed = (decision = "discard")]) /\ UNCHANGED works
    <2> PICK v : v = [work EXCEPT !.failed = (decision = "discard")]
        OBVIOUS
    <2>1. v.token = work.token /\ v.who = work.who
        OBVIOUS
    <2>2. Resolved(E, v)
        BY <1>7
    <2> QED
        BY <1>1, <1>5, <1>7, <2>1, <2>2, SameCalls, ResolvedKeeps
<1>8. CASE /\ at # "over" /\ Cardinality(works) < MaxWorks
           /\ resolving' = request.token
           /\ request' = [request EXCEPT !.phase = "pending"]
           /\ works' = works \cup {work}
           /\ Stay(F) /\ UNCHANGED exit
    <2>1. work \in Works
        <3>1. at \in {"side", "man", "discard"}
            BY <1>8 DEF FirstStep
        <3> QED
            BY <1>1, <3>1 DEF Works, Requests
    <2>2. WorksOK'
        <3>1. IsFiniteSet(works) /\ Cardinality(works) \in Nat
            BY FS_CardinalityType DEF IInv, WorksOK
        <3>2. IsFiniteSet(works \cup {work})
              /\ Cardinality(works \cup {work}) =
                   IF work \in works THEN Cardinality(works) ELSE Cardinality(works) + 1
            BY <3>1, FS_AddElement
        <3>3. Cardinality(works \cup {work}) <= MaxWorks
            BY <1>8, <3>1, <3>2, Constants
        <3> QED
            BY <1>5, <1>8, <2>1, <3>2, <3>3 DEF IInv, WorksOK
    <2>3. /\ request' \in Requests /\ request'.phase = "pending"
          /\ request'.seq = request.seq /\ request'.use = request.use
          /\ request'.who = request.who /\ request'.gen = request.gen
          /\ request'.token = request.token
        BY <1>1, <1>8 DEF Requests
    <2>4. RequestOK' /\ ExitOK'
        BY <1>1, <1>8, <2>3, Absences DEF IInv, RequestOK, ExitOK
    <2>5. CallsOK'
        BY <1>1, <1>5, <1>8, <2>3 DEF IInv, CallsOK, PendingHasResolver, Requests
    <2>6. Stay(F) /\ EditorsOK(F) /\ (timers = 1 => Passed(F))
        BY <1>8, <1>4 DEF IInv, ShellOK, Shrunk, Passed
    <2>7. exit' # NoExit /\ exit'.use = "exit" =>
            /\ timers = 0
            /\ \A e \in Editors : Dirty(F, e) /\ F[e].late = "no" =>
                  e = request'.who \/ Item(F, e) \in exit'.todo
        BY <1>8, <1>4, <2>3 DEF IInv, ShellOK, Shrunk, Item
    <2> QED
        BY <2>2, <2>4, <2>5, <2>6, <2>7, StayKeeps DEF IInv
<1>9. \/ ForgetAll /\ Stay(ed) /\ UNCHANGED works
      \/ Resolved(ed, [work EXCEPT !.failed = (decision = "discard")]) /\ UNCHANGED works
      \/ /\ at # "over" /\ Cardinality(works) < MaxWorks
         /\ resolving' = request.token
         /\ request' = [request EXCEPT !.phase = "pending"]
         /\ works' = works \cup {work}
         /\ Stay(F) /\ UNCHANGED exit
    <2>1. [ed EXCEPT ![request.who].saving = IF at = "side" THEN request.token ELSE @] = F
        BY <1>2 DEF IInv, EditorsOK
    <2> QED
        BY <1>5, <2>1 DEF Decide
<1> QED
    BY <1>6, <1>7, <1>8, <1>9

LEMMA ReturnedCall ==
    ASSUME IInv, NEW w \in works
    PROVE  /\ w \in Works /\ w.token # 0 /\ w.who \in Editors
           /\ w.token = request.token => w.who = request.who /\ w.gen = request.gen
BY DEF IInv, WorksOK, CallsOK, Works

LEMMA SidebarSavedKeeps ==
    ASSUME IInv, ~gone, NEW w \in works, SidebarSaved(w)
    PROVE  IInv'
<1>1. w \in Works /\ w.token # 0 /\ w.who \in Editors
      /\ (w.token = request.token => w.who = request.who /\ w.gen = request.gen)
    BY ReturnedCall
<1> PICK y : y = ed[w.who]
    OBVIOUS
<1>2. ed \in [Editors -> Editor] /\ y \in Editor
    BY <1>1 DEF IInv, EditorsOK
<1> PICK n : n = IF y.saving = w.token THEN 0 ELSE y.saving
    OBVIOUS
<1> PICK F : F = [ed EXCEPT ![w.who].saving = n]
    OBVIOUS
<1> PICK x : x = [y EXCEPT !.saving = n, !.side = FALSE]
    OBVIOUS
<1> PICK E : E = [ed EXCEPT ![w.who] = x]
    OBVIOUS
<1>3. n \in Nat
    BY <1>2 DEF Editor
<1>4. Shrunk(F)
    BY <1>1, <1>3, SavingShrunk
<1>5. Shrunk(E)
    <2>1. x \in Editor /\ x.there = y.there /\ x.shown = y.shown
          /\ x.gen = y.gen /\ x.late = y.late
        BY <1>2, <1>3 DEF Editor
    <2>2. (x.man => y.man) /\ (x.side => y.side)
        BY <1>2, Zenon DEF Editor
    <2> QED
        BY <1>1, <2>1, <2>2, Dropped
<1>6. CASE works' = works \ {w} /\ Resolved(E, w)
    BY <1>1, <1>5, <1>6, OneCallLess, ResolvedKeeps
<1>7. CASE works' = works \ {w} /\ Resolved(F, [w EXCEPT !.failed = TRUE])
    <2> PICK v : v = [w EXCEPT !.failed = TRUE]
        OBVIOUS
    <2>1. v.token = w.token /\ v.who = w.who
        BY <1>1 DEF Works
    <2>2. Resolved(F, v)
        BY <1>7
    <2> QED
        BY <1>1, <1>7, <1>4, <2>1, <2>2, OneCallLess, ResolvedKeeps
<1>8. CASE /\ works' = (works \ {w}) \cup {[w EXCEPT !.at = "man"]}
           /\ Stay(E)
           /\ UNCHANGED <<request, exit, resolving>>
    <2> PICK v : v = [w EXCEPT !.at = "man"]
        OBVIOUS
    <2>1. v \in Works /\ v.token = w.token /\ v.who = w.who /\ v.gen = w.gen
        BY <1>1 DEF Works
    <2>2. works' = (works \ {w}) \cup {v}
        BY <1>8
    <2>3. WorksOK'
        <3>1. IsFiniteSet(works) /\ Cardinality(works) \in Nat /\ Cardinality(works) <= MaxWorks
            BY FS_CardinalityType DEF IInv, WorksOK
        <3>2. IsFiniteSet(works \ {w}) /\ Cardinality(works \ {w}) = Cardinality(works) - 1
            BY <3>1, FS_RemoveElement
        <3> PICK rest : rest = works \ {w}
            OBVIOUS
        <3>3. IsFiniteSet(rest \cup {v})
              /\ Cardinality(rest \cup {v}) =
                   IF v \in rest THEN Cardinality(rest) ELSE Cardinality(rest) + 1
            BY <3>2, FS_AddElement
        <3>4. Cardinality(rest \cup {v}) <= MaxWorks
            BY <3>1, <3>2, <3>3, Constants
        <3>5. works' = rest \cup {v}
            BY <2>2
        <3> QED
            BY <1>1, <2>1, <3>3, <3>4, <3>5 DEF IInv, WorksOK
    <2>4. RequestOK' /\ ExitOK'
        BY <1>8 DEF IInv, RequestOK, ExitOK
    <2>5. CallsOK'
        BY <1>1, <1>8, <2>1, <2>2 DEF IInv, CallsOK, PendingHasResolver
    <2>6. Stay(E) /\ EditorsOK(E) /\ (timers = 1 => Passed(E))
        BY <1>5, <1>8 DEF IInv, ShellOK, Shrunk, Passed
    <2>7. exit' # NoExit /\ exit'.use = "exit" =>
            /\ timers = 0
            /\ \A e \in Editors : Dirty(E, e) /\ E[e].late = "no" =>
                  e = request'.who \/ Item(E, e) \in exit'.todo
        BY <1>5, <1>8 DEF IInv, ShellOK, Shrunk, Item
    <2> QED
        BY <2>3, <2>4, <2>5, <2>6, <2>7, StayKeeps DEF IInv
<1>9. \/ works' = works \ {w} /\ Resolved(E, w)
      \/ works' = works \ {w} /\ Resolved(F, [w EXCEPT !.failed = TRUE])
      \/ /\ works' = (works \ {w}) \cup {[w EXCEPT !.at = "man"]}
         /\ Stay(E)
         /\ UNCHANGED <<request, exit, resolving>>
    <2>1. [ed EXCEPT ![w.who].saving = IF y.saving = w.token THEN 0 ELSE @] = F
        BY <1>1, <1>2
    <2>2. [F EXCEPT ![w.who].side = FALSE] = E
        BY <1>1, <1>2 DEF Editor
    <2> QED
        BY <2>1, <2>2 DEF SidebarSaved
<1> QED
    BY <1>6, <1>7, <1>8, <1>9

LEMMA ManuscriptSavedKeeps ==
    ASSUME IInv, ~gone, NEW w \in works, ManuscriptSaved(w)
    PROVE  IInv'
<1> PICK x : x = [ed[w.who] EXCEPT !.man = @ /\ w.newer]
    OBVIOUS
<1> PICK E : E = [ed EXCEPT ![w.who] = x]
    OBVIOUS
<1>1. w \in Works /\ w.token # 0 /\ w.who \in Editors
      /\ (w.token = request.token => w.who = request.who /\ w.gen = request.gen)
    BY ReturnedCall
<1>2. ed \in [Editors -> Editor] /\ E = [ed EXCEPT ![w.who].man = @ /\ w.newer]
    BY <1>1 DEF IInv, EditorsOK
<1>3. Shrunk(E)
    <2>1. x \in Editor /\ x.there = ed[w.who].there /\ x.shown = ed[w.who].shown
          /\ x.gen = ed[w.who].gen /\ x.late = ed[w.who].late
          /\ (x.man => ed[w.who].man) /\ x.side = ed[w.who].side
        BY <1>1, <1>2 DEF Editor, Works
    <2> QED
        BY <1>1, <2>1, Dropped
<1>4. CASE Resolved([ed EXCEPT ![w.who].man = @ /\ w.newer], w)
    <2>1. Resolved(E, w)
        BY <1>2, <1>4
    <2> QED
        BY <1>1, <1>3, <2>1, OneCallLess, ResolvedKeeps DEF ManuscriptSaved
<1>5. CASE Resolved(ed, w)
    <2> PICK F : F = ed
        OBVIOUS
    <2>1. Resolved(F, w) /\ Shrunk(F)
        BY <1>5, NothingShrunk
    <2> QED
        BY <1>1, <2>1, OneCallLess, ResolvedKeeps DEF ManuscriptSaved
<1> QED
    BY <1>4, <1>5 DEF ManuscriptSaved

LEMMA DiscardedKeeps ==
    ASSUME IInv, ~gone, NEW w \in works, Discarded(w)
    PROVE  IInv'
<1> PICK waits \in BOOLEAN : waits = (ed[w.who].saving # 0)
    OBVIOUS
<1> PICK x : x = [ed[w.who] EXCEPT !.man = FALSE, !.side = @ /\ waits]
    OBVIOUS
<1> PICK E : E = [ed EXCEPT ![w.who] = x]
    OBVIOUS
<1>1. w \in Works /\ w.token # 0 /\ w.who \in Editors
      /\ (w.token = request.token => w.who = request.who /\ w.gen = request.gen)
    BY ReturnedCall
<1>2. ed \in [Editors -> Editor]
      /\ E = [ed EXCEPT ![w.who].man = FALSE, ![w.who].side = @ /\ waits]
    BY <1>1 DEF IInv, EditorsOK, Editor
<1>3. Shrunk(E)
    <2> PICK y : y = ed[w.who]
        OBVIOUS
    <2>1. y \in Editor
        BY <1>1, <1>2
    <2>2. x \in Editor /\ x.there = y.there /\ x.shown = y.shown
          /\ x.gen = y.gen /\ x.late = y.late
        BY <2>1 DEF Editor
    <2>3. (x.man => y.man) /\ (x.side => y.side)
        BY <2>1, Zenon DEF Editor
    <2> QED
        BY <1>1, <2>2, <2>3, Dropped
<1>4. CASE Resolved([ed EXCEPT ![w.who].man = FALSE,
                               ![w.who].side = @ /\ ed[w.who].saving # 0], w)
    <2>1. Resolved(E, w)
        BY <1>2, <1>4
    <2> QED
        BY <1>1, <1>3, <2>1, OneCallLess, ResolvedKeeps DEF Discarded
<1>5. CASE Resolved(ed, [w EXCEPT !.failed = TRUE])
    <2> PICK v : v = [w EXCEPT !.failed = TRUE]
        OBVIOUS
    <2> PICK F : F = ed
        OBVIOUS
    <2>1. v.token = w.token /\ v.who = w.who
        BY <1>1 DEF Works
    <2>2. Resolved(F, v) /\ Shrunk(F)
        BY <1>5, NothingShrunk
    <2> QED
        BY <1>1, <2>1, <2>2, OneCallLess, ResolvedKeeps DEF Discarded
<1> QED
    BY <1>4, <1>5 DEF Discarded

-----------------------------------------------------------------------------
\* The editors by themselves

\* An editor changes: it is no dirtier, or what is unsaved came after its turn.
LEMMA EditorKeeps ==
    ASSUME IInv, ~gone, NEW e \in Editors, NEW x \in Editor, EditorOK(x),
           ed' = [ed EXCEPT ![e] = x],
           UNCHANGED shell,
           UNCHANGED <<request, exit>> \/ exit' = NoExit,
           x.there /\ (x.man \/ (x.shown /\ x.side)) /\ x.late = "no" =>
              /\ timers # 1
              /\ \/ Dirty(ed, e) /\ ed[e].late = "no" /\ x.gen = ed[e].gen
                 \/ ~(exit # NoExit /\ exit.use = "exit")
                 \/ request.who = e
                 \/ Item(ed, e) \in exit.todo /\ x.gen = ed[e].gen
    PROVE  EditorsOK(ed)' /\ ShellOK'
<1>1. ed \in [Editors -> Editor] /\ ed'[e] = x /\ EditorsOK(ed)'
      /\ \A d \in Editors : d # e => ed'[d] = ed[d]
    BY DEF IInv, EditorsOK
<1>2. \A d \in Editors : Dirty(ed, d)' /\ ed'[d].late = "no" =>
        /\ timers # 1
        /\ \/ Dirty(ed, d) /\ ed[d].late = "no" /\ Item(ed, d)' = Item(ed, d)
           \/ ~(exit # NoExit /\ exit.use = "exit")
           \/ request.who = d
           \/ Item(ed, d) \in exit.todo /\ Item(ed, d)' = Item(ed, d)
    <2> SUFFICES ASSUME NEW d \in Editors, Dirty(ed, d)', ed'[d].late = "no"
                 PROVE
        /\ timers # 1
        /\ \/ Dirty(ed, d) /\ ed[d].late = "no" /\ Item(ed, d)' = Item(ed, d)
           \/ ~(exit # NoExit /\ exit.use = "exit")
           \/ request.who = d
           \/ Item(ed, d) \in exit.todo /\ Item(ed, d)' = Item(ed, d)
        OBVIOUS
    <2>1. CASE d = e
        <3>1. ed'[e] = x /\ Dirty(ed, e)' /\ x.late = "no"
            BY <1>1, <2>1
        <3>2. x.there /\ (x.man \/ (x.shown /\ x.side))
            BY <3>1 DEF Dirty
        <3>3. x.gen = ed[e].gen => Item(ed, e)' = Item(ed, e)
            BY <3>1 DEF Item
        <3> QED
            BY <2>1, <3>1, <3>2, <3>3
    <2>2. CASE d # e
        BY <1>1, <2>2 DEF Dirty, Item, IInv, ShellOK, Passed
    <2> QED
        BY <2>1, <2>2
<1>3. timers' = 1 \/ gone' => Passed(ed)'
    BY <1>2 DEF Passed, shell, IInv, ShellOK
<1>4. exit' # NoExit /\ exit'.use = "exit" =>
         /\ timers = 0
         /\ \A d \in Editors : Dirty(ed, d)' /\ ed'[d].late = "no" =>
               d = request'.who \/ Item(ed, d)' \in exit'.todo
    BY <1>2 DEF IInv, ShellOK
<1>5. UNCHANGED <<permit, timers, gone>>
    BY DEF shell
<1>6. ShellOK'
    BY <1>3, <1>4, <1>5 DEF IInv, ShellOK
<1> QED
    BY <1>1, <1>6

LEMMA SameAsking ==
    ASSUME IInv, UNCHANGED <<request, exit, resolving, works>>
    PROVE  RequestOK' /\ ExitOK' /\ CallsOK' /\ WorksOK'
BY DEF IInv, RequestOK, ExitOK, CallsOK, PendingHasResolver, WorksOK

\* The calls that are told of a newer edit are the calls there were.
LEMMA NewerKeeps ==
    ASSUME IInv, NEW e,
           works' = {IF w.who = e /\ w.at = "man" THEN [w EXCEPT !.newer = TRUE] ELSE w :
                        w \in works},
           UNCHANGED <<request, exit, resolving>>
    PROVE  RequestOK' /\ ExitOK' /\ CallsOK' /\ WorksOK'
<1> DEFINE f == [w \in works |->
                   IF w.who = e /\ w.at = "man" THEN [w EXCEPT !.newer = TRUE] ELSE w]
<1>1. \A w \in works : f[w] \in Works /\ f[w].token = w.token /\ f[w].who = w.who
                       /\ f[w].gen = w.gen
    <2> TAKE w \in works
    <2> PICK v : v = [w EXCEPT !.newer = TRUE]
        OBVIOUS
    <2>1. w \in Works
        BY DEF IInv, WorksOK
    <2>2. v \in Works /\ v.token = w.token /\ v.who = w.who /\ v.gen = w.gen
        BY <2>1 DEF Works
    <2>3. f[w] = v \/ f[w] = w
        OBVIOUS
    <2> HIDE DEF f
    <2> QED
        BY <2>1, <2>2, <2>3
<1>2. f \in Surjection(works, works') /\ \A v \in works' : \E w \in works : v = f[w]
    BY DEF Surjection
<1>3. \A w \in works : f[w] \in works'
    BY <1>2 DEF Surjection
<1> HIDE DEF f
<1>4. IsFiniteSet(works) /\ Cardinality(works) <= MaxWorks
    BY DEF IInv, WorksOK
<1>5. IsFiniteSet(works') /\ Cardinality(works') <= Cardinality(works)
    BY <1>2, <1>4, FS_Surjection
<1>6. Cardinality(works) \in Nat /\ Cardinality(works') \in Nat
    BY <1>4, <1>5, FS_CardinalityType
<1>7. Cardinality(works') <= MaxWorks
    BY <1>4, <1>5, <1>6, Constants
<1>8. WorksOK'
    BY <1>1, <1>2, <1>5, <1>7 DEF IInv, WorksOK
<1>9. CallsOK'
    BY <1>1, <1>2, <1>3 DEF IInv, CallsOK, PendingHasResolver
<1> QED
    BY <1>8, <1>9 DEF IInv, RequestOK, ExitOK

LEMMA EditKeeps ==
    ASSUME IInv, ~gone, NEW e \in Editors, Edit(e)
    PROVE  IInv'
<1> PICK y : y = ed[e]
    OBVIOUS
<1> PICK late : late = Lateness(e)
    OBVIOUS
<1>1. y \in Editor /\ EditorOK(y) /\ y.there /\ y.shown /\ ed \in [Editors -> Editor]
    BY DEF IInv, EditorsOK, Edit, Enabled, Presented
<1>2. late \in {"no", "dialog", "armed"}
    BY <1>1 DEF Lateness, Editor
<1>3. late = "no" =>
        /\ timers # 1
        /\ \/ ~(exit # NoExit /\ exit.use = "exit") \/ request.who = e \/ Item(ed, e) \in exit.todo
    BY DEF Lateness
<1> PICK m : m = [y EXCEPT !.man = TRUE, !.late = late]
    OBVIOUS
<1> PICK n : n = [y EXCEPT !.side = TRUE, !.late = late]
    OBVIOUS
<1>4. /\ m \in Editor /\ EditorOK(m) /\ m.late = late /\ m.gen = y.gen
      /\ n \in Editor /\ EditorOK(n) /\ n.late = late /\ n.gen = y.gen
    BY <1>1, <1>2 DEF Editor, EditorOK
<1>5. UNCHANGED <<request, exit, resolving, shell, opens>> /\ active' = e
    BY DEF Edit
<1>6. ed' = [ed EXCEPT ![e] = m] \/ ed' = [ed EXCEPT ![e] = n]
    BY <1>1 DEF Edit
<1>7. RequestOK' /\ ExitOK' /\ CallsOK' /\ WorksOK'
    <2>1. CASE UNCHANGED works
        BY <1>5, <2>1, SameAsking
    <2>2. CASE works' = {IF w.who = e /\ w.at = "man" THEN [w EXCEPT !.newer = TRUE] ELSE w :
                            w \in works}
        BY <1>5, <2>2, NewerKeeps
    <2> QED
        BY <2>1, <2>2 DEF Edit
<1>8. EditorsOK(ed)' /\ ShellOK'
    BY <1>3, <1>4, <1>5, <1>6, EditorKeeps
<1> QED
    BY <1>5, <1>7, <1>8 DEF IInv, OpensOK

LEMMA AloneKeeps ==
    ASSUME IInv, ~gone, NEW e \in Editors, Cleaned(e) \/ Lock(e) \/ SessionGone(e) \/ Mount(e)
    PROVE  IInv'
<1> PICK y : y = ed[e]
    OBVIOUS
<1>1. y \in Editor /\ EditorOK(y) /\ ed \in [Editors -> Editor] /\ MaxGen \in Nat
    BY Constants DEF IInv, EditorsOK
<1>2. UNCHANGED <<request, exit, resolving, works, shell, opens>>
      /\ active' \in Editors \cup {0}
    BY DEF Cleaned, Lock, SessionGone, Mount, IInv
<1>3. RequestOK' /\ ExitOK' /\ CallsOK' /\ WorksOK' /\ OpensOK'
    BY <1>2, SameAsking DEF IInv, OpensOK
<1> DEFINE NoWorse(x) ==
        /\ x \in Editor /\ EditorOK(x)
        /\ x.there /\ (x.man \/ (x.shown /\ x.side)) =>
             Dirty(ed, e) /\ x.late = y.late /\ x.gen = y.gen
<1>4. \E x : ed' = [ed EXCEPT ![e] = x] /\ NoWorse(x)
    <2>1. CASE Cleaned(e)
        <3> PICK x : x = [y EXCEPT !.man = FALSE, !.side = FALSE, !.late = "no"]
            OBVIOUS
        <3>1. NoWorse(x)
            BY <1>1 DEF Editor, EditorOK
        <3> QED
            BY <1>1, <2>1, <3>1 DEF Cleaned
    <2>2. CASE Lock(e)
        <3> PICK x : x = [y EXCEPT !.lock = ~@]
            OBVIOUS
        <3>1. NoWorse(x)
            BY <1>1 DEF Editor, EditorOK, Dirty
        <3> QED
            BY <1>1, <2>2, <3>1 DEF Lock
    <2>3. CASE SessionGone(e)
        <3> PICK x : x = [y EXCEPT !.there = FALSE]
            OBVIOUS
        <3>1. ~y.man /\ ~y.side
            BY <1>1, <2>3 DEF SessionGone, Dirty, EditorOK
        <3>2. NoWorse(x)
            BY <1>1, <3>1 DEF Editor, EditorOK
        <3> QED
            BY <1>1, <2>3, <3>2 DEF SessionGone
    <2>4. CASE Mount(e)
        <3> PICK x : x = [y EXCEPT !.shown = TRUE, !.there = TRUE,
                                   !.gen = IF y.there THEN @ ELSE @ + 1]
            OBVIOUS
        <3>1. ~y.shown /\ ~y.side /\ (y.there \/ y.gen < MaxGen)
            BY <1>1, <2>4 DEF Mount, EditorOK
        <3>2. x.gen \in 0..MaxGen /\ x.gen # 0 /\ (y.there => x.gen = y.gen)
            BY <1>1, <3>1 DEF Editor, EditorOK
        <3>3. /\ x.there /\ x.shown /\ x.man = y.man /\ x.side = y.side /\ x.lock = y.lock
              /\ x.late = y.late /\ (~y.there => ~y.man /\ ~y.side)
            BY <1>1 DEF Editor, EditorOK
        <3>4. x \in Editor
            BY <1>1, <3>2 DEF Editor
        <3>5. NoWorse(x)
            BY <3>1, <3>2, <3>3, <3>4 DEF EditorOK, Dirty
        <3>6. ed' = [ed EXCEPT ![e] = x]
            BY <1>1, <2>4 DEF Mount
        <3> QED
            BY <3>5, <3>6
    <2> QED
        BY <2>1, <2>2, <2>3, <2>4
<1>5. PICK x : ed' = [ed EXCEPT ![e] = x] /\ NoWorse(x)
    BY <1>4
<1>6. Dirty(ed, e) /\ timers = 1 => ed[e].late # "no"
    BY DEF IInv, ShellOK, Passed
<1>7. EditorsOK(ed)' /\ ShellOK'
    BY <1>2, <1>5, <1>6, EditorKeeps
<1> QED
    BY <1>2, <1>3, <1>7 DEF IInv

\* What withdraws a request withdraws its sequence.
LEMMA WithdrawKeeps ==
    ASSUME IInv, UNCHANGED works, NEW e, Withdraw(e)
    PROVE  /\ RequestOK' /\ ExitOK' /\ CallsOK' /\ WorksOK'
           /\ UNCHANGED <<request, exit>> \/ exit' = NoExit
<1>1. WorksOK'
    BY DEF IInv, WorksOK
<1>2. CASE ForgetAll
    BY <1>1, <1>2, Forgotten DEF ForgetAll
<1>3. CASE UNCHANGED <<request, exit, resolving>>
    BY <1>3, SameAsking
<1> QED
    BY <1>2, <1>3 DEF Withdraw

LEMMA UnmountKeeps ==
    ASSUME IInv, ~gone, NEW e \in Editors, Unmount(e)
    PROVE  IInv'
<1> PICK y : y = ed[e]
    OBVIOUS
<1> PICK x : x = Hidden(y)
    OBVIOUS
<1>1. y \in Editor /\ EditorOK(y)
    BY DEF IInv, EditorsOK
<1>2. x \in Editor /\ EditorOK(x) /\ ~x.shown /\ x.there = y.there /\ x.man = y.man
      /\ x.gen = y.gen /\ x.late = y.late
    BY <1>1, PutAway
<1>3. ed' = [ed EXCEPT ![e] = x] /\ UNCHANGED <<works, shell, opens>>
      /\ active' \in Editors \cup {0}
    BY DEF Unmount, IInv
<1>4. /\ RequestOK' /\ ExitOK' /\ CallsOK' /\ WorksOK'
      /\ UNCHANGED <<request, exit>> \/ exit' = NoExit
    BY <1>3, WithdrawKeeps DEF Unmount
<1>5. Dirty(ed, e) /\ timers = 1 => ed[e].late # "no"
    BY DEF IInv, ShellOK, Passed
<1>6. x.there /\ x.man => Dirty(ed, e)
    BY <1>2 DEF Dirty
<1>7. EditorsOK(ed)' /\ ShellOK'
    BY <1>2, <1>3, <1>4, <1>5, <1>6, EditorKeeps
<1> QED
    BY <1>3, <1>4, <1>7 DEF IInv, OpensOK

LEMMA RepresentKeeps ==
    ASSUME IInv, ~gone, NEW e \in Editors, Represent(e)
    PROVE  IInv'
<1>1. UNCHANGED <<ed, works, shell, opens>> /\ active' = e
    BY DEF Represent
<1>2. /\ RequestOK' /\ ExitOK' /\ CallsOK' /\ WorksOK'
      /\ UNCHANGED <<request, exit>> \/ exit' = NoExit
    BY <1>1, WithdrawKeeps DEF Represent
<1>3. EditorsOK(ed)' /\ ShellOK' /\ OpensOK'
    BY <1>1, <1>2 DEF IInv, EditorsOK, ShellOK, OpensOK, shell, Passed, Dirty, Item
<1> QED
    BY <1>1, <1>2, <1>3 DEF IInv

-----------------------------------------------------------------------------
\* The theorems

LEMMA InvInit == Init => IInv
<1> SUFFICES ASSUME Init PROVE IInv
    OBVIOUS
<1>1. EditorsOK(ed) /\ \A e \in Editors : ~Dirty(ed, e)
    BY Constants DEF Init, EditorsOK, Editor, EditorOK, Dirty
<1>2. WorksOK
    BY FS_EmptySet, Constants DEF Init, WorksOK
<1>3. RequestOK /\ ExitOK /\ CallsOK
    BY DEF Init, RequestOK, ExitOK, CallsOK, PendingHasResolver
<1>4. ShellOK
    <2>1. permit \in BOOLEAN /\ ~permit /\ gone \in BOOLEAN /\ ~gone
        BY Zenon DEF Init
    <2>2. timers = 0 /\ exit = NoExit
        BY DEF Init
    <2> QED
        BY <2>1, <2>2 DEF ShellOK
<1>5. OpensOK /\ active \in Editors \cup {0}
    BY DEF Init, OpensOK
<1> QED
    BY <1>1, <1>2, <1>3, <1>4, <1>5 DEF IInv

LEMMA InvNext == IInv /\ [Next]_vars => IInv'
<1> SUFFICES ASSUME IInv, [Next]_vars PROVE IInv'
    OBVIOUS
<1>1. CASE UNCHANGED vars
    BY <1>1 DEF vars, shell, IInv, EditorsOK, WorksOK, RequestOK, ExitOK, CallsOK,
       PendingHasResolver, ShellOK, OpensOK, Passed, Dirty, Item
<1>2. ASSUME ~gone, CloseRequested \/ TimerFires \/ RequestSequence("route")
      PROVE  IInv'
    BY <1>2, CloseRequestedKeeps, TimerFiresKeeps, RequestSequenceKeeps
<1>3. ASSUME ~gone, NEW d \in {"save", "discard", "cancel"}, Decide(d)
      PROVE  IInv'
    BY <1>3, DecideKeeps
<1>4. ASSUME ~gone, NEW w \in works, Return(w)
      PROVE  IInv'
    BY <1>4, SidebarSavedKeeps, ManuscriptSavedKeeps, DiscardedKeeps DEF Return
<1>5. ASSUME ~gone, NEW e \in Editors,
             \/ CloseEditor(e) \/ OpenDocument(e) \/ DecideDirty(e) \/ OpenDone(e)
             \/ Edit(e) \/ Cleaned(e) \/ Lock(e)
             \/ Mount(e) \/ Unmount(e) \/ Represent(e) \/ SessionGone(e)
      PROVE  IInv'
    BY <1>5, CloseEditorKeeps, OpensKeep, EditKeeps, AloneKeeps, UnmountKeeps, RepresentKeeps
<1> QED
    BY <1>1, <1>2, <1>3, <1>4, <1>5 DEF Next

\* The strengthening of the four invariants is an invariant.
THEOREM Invariance == Spec => []IInv
BY InvInit, InvNext, PTL DEF Spec

\* The editors, the request, the sequence, the calls and the close guard always have
\* their types (sharedEditorLifecycleController.ts, SharedAppLifecycleHost.tsx).
THEOREM TypeCorrect == Spec => []TypeOK
<1>1. IInv => TypeOK
    BY DEF IInv, TypeOK, EditorsOK, Editor, RequestOK, ExitOK, Exits, CallsOK, WorksOK, Works,
       ShellOK, OpensOK
<1> QED
    BY <1>1, Invariance, PTL

\* An armed permit has its timer: PermitHasTimer.
THEOREM PermitTimed == Spec => []PermitHasTimer
<1>1. IInv => PermitHasTimer
    BY DEF IInv, ShellOK, PermitHasTimer
<1> QED
    BY <1>1, Invariance, PTL

\* A sequence in progress asks for one of its sessions: SequenceAsks.
THEOREM SequenceAsking == Spec => []SequenceAsks
<1>1. IInv => SequenceAsks
    BY DEF IInv, ExitOK, SequenceAsks
<1> QED
    BY <1>1, Invariance, PTL

\* A decision in progress has the call that will end it: PendingHasResolver.
THEOREM PendingResolved == Spec => []PendingHasResolver
<1>1. IInv => PendingHasResolver
    BY DEF IInv, CallsOK
<1> QED
    BY <1>1, Invariance, PTL

\* The window goes only when what was dirty has been settled: ExitSettles.
THEOREM WindowSettled == Spec => []ExitSettles
<1>1. IInv => ExitSettles
    BY DEF IInv, ShellOK, Passed, ExitSettles
<1> QED
    BY <1>1, Invariance, PTL
=============================================================================
