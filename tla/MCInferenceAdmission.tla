------------------------ MODULE MCInferenceAdmission ------------------------
(* InferenceAdmission on a small instance. *)
EXTENDS InferenceAdmission, TLC

\* Two of the calls are streams and behave alike.
Alike == Permutations(Streams)
=============================================================================
