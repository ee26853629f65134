---------------------------- MODULE MCUploadSlots ----------------------------
(* Instances of UploadSlots for TLC. *)
EXTENDS UploadSlots, TLC

\* Files of the largest admitted size
MCSize == [u \in Upload |-> MaxUploadBytes]

MCSymmetry == Permutations(Upload) \cup Permutations(Request)
=============================================================================
