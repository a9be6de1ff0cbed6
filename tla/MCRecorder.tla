----------------------------- MODULE MCRecorder -----------------------------
(* Recorder with interchangeable timer ids. *)
EXTENDS Recorder, TLC

IdSymmetry == Permutations(Ids)

=============================================================================
