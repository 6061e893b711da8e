-------------------------- MODULE MCUploadInterceptor --------------------------
(* Instances of UploadInterceptor for TLC. *)
EXTENDS UploadInterceptor

CONSTANTS s1, s2

\* One batch with an overflow of two assets, and one without.
LongAndShort == [s \in Submissions |-> IF s = s1 THEN 4 ELSE 2]
=============================================================================
