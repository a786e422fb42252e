----------------------- MODULE OwnershipSupervisorMC -----------------------
(***************************************************************************)
(* Instances of OwnershipSupervisor for TLC.                               *)
(***************************************************************************)
EXTENDS OwnershipSupervisor, TLC

CONSTANTS p1, p2,   \* process generations
          t1, t2    \* supervisor threads

\* Two threads of the one process, or one of the second.
TwoTicksOfOne == (t1 :> p1) @@ (t2 :> p1)
TickOfSecond  == (t2 :> p2)
=============================================================================
