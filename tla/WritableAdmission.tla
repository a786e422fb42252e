-------------------------- MODULE WritableAdmission --------------------------
(***************************************************************************)
(* The in-process authority that lets one window at a time write a         *)
(* manuscript file (src-tauri/src/manuscript_writable_admission.rs).  A    *)
(* grant is a proof bound to the window that asked, to its logical session *)
(* and to the facts of the file: its reference, its path and its physical  *)
(* identity, which every atomic replacement of the file changes.  Several  *)
(* consumers of one session share a grant by counting references.          *)
(* The request index, which makes a repeated admit of one request answer   *)
(* with the same grant, is left out: every caller draws a fresh request id.*)
(***************************************************************************)
EXTENDS Integers, FiniteSets

CONSTANTS Windows,   \* callers, by the label of their window
          Keys,      \* logical session keys
          Refs,      \* file references
          Paths,     \* canonical path identities
          MaxGrants, \* bound: proofs ever issued
          MaxRefs,   \* bound: references one grant counts
          MaxPhys    \* bound: physical identities

ASSUME GrantBounds == MaxGrants \in Nat /\ MaxRefs \in Nat \ {0} /\ MaxPhys \in Nat

VARIABLES active,    \* the grants in force
          issued     \* how many proofs were issued; proof n is the n-th

authority == <<active, issued>>

Target == [ref : Refs, path : Paths, phys : 0..MaxPhys]
Grant == [proof : 1..MaxGrants, win : Windows, key : Keys, target : Target,
          refs : 1..MaxRefs]

\* Two targets are one file when they agree on any of the three identities.
TargetsConflict(t, u) == t.ref = u.ref \/ t.phys = u.phys \/ t.path = u.path

Admissible(grants, k, t) ==
    \A g \in grants : g.key # k /\ ~TargetsConflict(g.target, t)

\* Mutant: a refresh looks at its own grant only.
RefreshAllowedAlone(grants, g, t) == g.target.ref = t.ref /\ g.target.path = t.path

NewGrant(p, w, k, t) == [proof |-> p, win |-> w, key |-> k, target |-> t, refs |-> 1]

\* The grants of window w under proof p: a stale proof or another window's has none.
OwnedBy(grants, w, p) == {g \in grants : g.proof = p /\ g.win = w}

Renewable(grants, w, p, t) == \E g \in OwnedBy(grants, w, p) : g.target = t

Retained(grants, g) == (grants \ {g}) \cup {[g EXCEPT !.refs = @ + 1]}

\* After a write the grant follows the file to its new physical identity.
RefreshAllowed(grants, g, t) ==
    /\ g.target.ref = t.ref
    /\ g.target.path = t.path
    /\ \A h \in grants : h.proof # g.proof => ~TargetsConflict(h.target, t)

Refreshed(grants, g, t) == (grants \ {g}) \cup {[g EXCEPT !.target = t]}

\* Mutant: the last reference is only counted down.
ReleasedToZero(grants, g) == (grants \ {g}) \cup {[g EXCEPT !.refs = @ - 1]}

Released(grants, g) ==
    IF g.refs > 1 THEN (grants \ {g}) \cup {[g EXCEPT !.refs = @ - 1]}
                  ELSE grants \ {g}

Detached(grants, w) == {g \in grants : g.win # w}

Init == active = {} /\ issued = 0

\* Mutant: a proof is numbered by the grants in force.
AdmitReusing(w, k, t) ==
    /\ Cardinality(active) < MaxGrants
    /\ Admissible(active, k, t)
    /\ issued' = IF Cardinality(active) < issued THEN issued ELSE issued + 1
    /\ active' = active \cup {NewGrant(Cardinality(active) + 1, w, k, t)}

Admit(w, k, t) ==
    /\ issued < MaxGrants
    /\ Admissible(active, k, t)
    /\ issued' = issued + 1
    /\ active' = active \cup {NewGrant(issued + 1, w, k, t)}

Retain(w, p) ==
    \E g \in OwnedBy(active, w, p) :
        /\ g.refs < MaxRefs
        /\ active' = Retained(active, g)
        /\ UNCHANGED issued

RefreshAfterWrite(w, p, t) ==
    \E g \in OwnedBy(active, w, p) :
        /\ RefreshAllowed(active, g, t)
        /\ active' = Refreshed(active, g, t)
        /\ UNCHANGED issued

Release(w, p) ==
    \E g \in OwnedBy(active, w, p) :
        /\ active' = Released(active, g)
        /\ UNCHANGED issued

DetachCaller(w) == active' = Detached(active, w) /\ UNCHANGED issued

Next ==
    \E w \in Windows :
        \/ \E k \in Keys, t \in Target : Admit(w, k, t)
        \/ \E p \in 1..MaxGrants : Retain(w, p) \/ Release(w, p)
        \/ \E p \in 1..MaxGrants, t \in Target : RefreshAfterWrite(w, p, t)
        \/ DetachCaller(w)

Spec == Init /\ [][Next]_authority

TypeOK == active \subseteq Grant /\ issued \in 0..MaxGrants

(***************************************************************************)
(* However many windows ask, retain, write and close, one logical session  *)
(* and one file have at most one grant: a proof never stands for two       *)
(* grants, and a refresh cannot walk onto a file another grant covers.     *)
(***************************************************************************)
OneWriterPerFile ==
    \A g, h \in active :
        g # h => /\ g.proof # h.proof
                 /\ g.key # h.key
                 /\ ~TargetsConflict(g.target, h.target)

(***************************************************************************)
(* A proof whose last reference went, or whose window was destroyed, is    *)
(* dead for good: release of a released proof answers released = false and *)
(* nothing brings the grant back.                                          *)
(***************************************************************************)
ProofsStayDead ==
    [][\A p \in 1..issued :
        (\E g \in active' : g.proof = p) => (\E g \in active : g.proof = p)]_authority
==============================================================================
