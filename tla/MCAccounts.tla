------------------------------ MODULE MCAccounts ------------------------------
(* Instances of Accounts for TLC. *)
EXTENDS Accounts, TLC

\* Addresses, subjects, tokens and states can each be exchanged.
Interchangeable ==
  Permutations(Emails) \cup Permutations(Subjects) \cup Permutations(Tokens) \cup Permutations(States)
=============================================================================
