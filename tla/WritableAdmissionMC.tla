------------------------ MODULE WritableAdmissionMC ------------------------
(* An instance of WritableAdmission for TLC. *)
EXTENDS WritableAdmission, TLC

AdmissionSymmetry == Permutations(Windows) \cup Permutations(Keys)
=============================================================================
