------------------------------ MODULE OwnerSwitch ------------------------------
(***************************************************************************)
(* What a formal switch promises the owner of a manuscript. An operation   *)
(* takes two effects in order, each at most once: it archives the owner's  *)
(* fields in the file it leaves, and it makes another file the current     *)
(* one. One operation at a time may be pending or stuck, a cancelled one   *)
(* has taken no effect, a finished one has taken both.                     *)
(***************************************************************************)
CONSTANTS Ops, Files

VARIABLES status, settled, committed, current

vars == <<status, settled, committed, current>>

Init ==
    /\ status = [o \in Ops |-> "none"]
    /\ settled = {} /\ committed = {}
    /\ current \in Files

InTheSlot(o) == status[o] \in {"pending", "stuck"}

Becomes(o, s) == status' = [status EXCEPT ![o] = s]

Prepare(o) ==
    /\ status[o] = "none" /\ ~\E q \in Ops : InTheSlot(q)
    /\ Becomes(o, "pending")
    /\ UNCHANGED <<settled, committed, current>>

\* An operation that another process has stopped may still take its next effect.
Settle(o) ==
    /\ InTheSlot(o) /\ o \notin settled
    /\ settled' = settled \cup {o}
    /\ UNCHANGED <<status, committed, current>>

Commit(o) ==
    /\ InTheSlot(o) /\ o \in settled \ committed
    /\ committed' = committed \cup {o}
    /\ current' \in Files \ {current}
    /\ UNCHANGED <<status, settled>>

Stop(o) ==
    /\ status[o] = "pending" /\ Becomes(o, "stuck")
    /\ UNCHANGED <<settled, committed, current>>

Cancel(o) ==
    /\ status[o] = "pending" /\ o \notin settled /\ Becomes(o, "cancelled")
    /\ UNCHANGED <<settled, committed, current>>

Finish(o) ==
    /\ status[o] = "pending" /\ o \in committed /\ Becomes(o, "done")
    /\ UNCHANGED <<settled, committed, current>>

Next ==
    \E o \in Ops : Prepare(o) \/ Settle(o) \/ Commit(o) \/ Stop(o) \/ Cancel(o) \/ Finish(o)

Spec == Init /\ [][Next]_vars
================================================================================
