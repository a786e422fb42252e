--------------------------- MODULE SlotRegistryMC ---------------------------
(***************************************************************************)
(* An instance of SlotRegistry for TLC.                                    *)
(***************************************************************************)
EXTENDS SlotRegistry, TLC

CONSTANTS c1, c2, c3, c4,   \* claims
          lit               \* a literature item

Aggregate == [owner |-> lit, scope |-> "aggregate"]
Outline   == [owner |-> lit, scope |-> "outline"]

\* Three successive claims of the outline of an item, the second a recovery's
\* and the third its execution's, and a claim of the whole item.
ClaimsOfOneItem == (c1 :> Outline) @@ (c2 :> Outline) @@ (c3 :> Outline) @@ (c4 :> Aggregate)
=============================================================================
