--------------------------- MODULE FormalSwitchMC ---------------------------
(* Instances of FormalSwitch for TLC. *)
EXTENDS FormalSwitch, TLC

CONSTANTS p1, p2, a, b

TwoProcesses == {p1, p2}
TwoFiles == {a, b}

\* Each process has one call at a time, named as the process.
OneCallEach == [p \in {p1, p2} |-> p]

\* Neither processes nor files are told apart.
Symmetry == Permutations({p1, p2}) \cup Permutations({a, b})
=============================================================================
