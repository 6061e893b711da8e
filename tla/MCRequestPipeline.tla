--------------------------- MODULE MCRequestPipeline ---------------------------
(* Instance of RequestPipeline for TLC. *)
EXTENDS RequestPipeline, TLC

\* The calls can be exchanged.
Interchangeable == Permutations(Requests)
=============================================================================
