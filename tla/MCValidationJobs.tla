-------------------------- MODULE MCValidationJobs --------------------------
(* Instances of ValidationJobs for TLC. *)
EXTENDS ValidationJobs, TLC

MCSymmetry == Permutations(Job) \cup Permutations(Request)
=============================================================================
