------------------------ MODULE ManuscriptSessionMC ------------------------
(* Instances of ManuscriptSession for TLC. *)
EXTENDS ManuscriptSession, TLC

CONSTANTS w1, k1, u1, c1, c2

OneWindow == {w1}
OneKey == {k1}
OneConsumer == {u1}
NoConsumers == {}
OneCall == {c1}
TwoCalls == {c1, c2}

\* The window runs any call.
AnyCall == [w \in Windows |-> Calls]

\* Calls that have the same record are interchangeable.
CallSymmetry == Permutations(Calls)
=============================================================================
