-------------------------- MODULE ManagedResource --------------------------
(***************************************************************************)
(* The managed resources operations compete for, and which of them exclude *)
(* one another (provisioning_runtime/literature_gate.rs and slot.rs).      *)
(*                                                                         *)
(* Most resources have a plain key and exclude only themselves.  A         *)
(* literature item has an aggregate and two channels: the channels may be  *)
(* held side by side, the aggregate excludes both.                         *)
(***************************************************************************)

CONSTANTS
  OrdinaryKey,      \* resources with a plain key
  LiteratureOwner   \* literature items

Scope == {"aggregate", "outline", "notes"}

LiteratureResource == [owner : LiteratureOwner, scope : Scope]

Resource == [key : OrdinaryKey] \cup LiteratureResource

\* Which entries conflict_ref finds in the way of r.
Conflict(r, s) ==
  \/ r = s
  \/ /\ {r, s} \subseteq LiteratureResource
     /\ r.owner = s.owner
     /\ "aggregate" \in {r.scope, s.scope}
=============================================================================
