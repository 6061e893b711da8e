--------------------------- MODULE MCSessionCommit ---------------------------
(* Instances of SessionCommit for TLC. *)
EXTENDS SessionGate, TLC

CONSTANTS k1, k2, k3, u1, u2, u3, o1, o2, op1, d1, d2, d3

\* One user with two sessions, each with a directory and a merged file of its own.
TwoSessionsOfOneUser == [k \in Keys |-> u1]
OneOrg == [k \in Keys |-> o1]
OwnDir == [k \in Keys |-> IF k = k1 THEN d1 ELSE d2]

\* Two users with a session each and directories of their own, whose merged files
\* have one name: session "b_c" of user "a" and session "c" of user "a_b".
TwoUsers == k1 :> u1 @@ k2 :> u2
TwoOrgs == k1 :> o1 @@ k2 :> o2
OneOutput == [k \in Keys |-> d1]

\* Two users of one org and one who is an org alone: "o", "o:a" and "oa", the last
\* two of which are one when stripped.
ThreeUsers == k1 :> u1 @@ k2 :> u2 @@ k3 :> u3
ColonOrgs == k1 :> o1 @@ k2 :> o1 @@ k3 :> o2
RawDirs == k1 :> d1 @@ k2 :> d2 @@ k3 :> d3
SafeDirs == k1 :> d1 @@ k2 :> d3 @@ k3 :> d3

\* One session whose raw ids name d1 and whose stripped ids name d2, as those of
\* "orgA:user1" do.
OneUser == k1 :> u1
OneKeyOrg == k1 :> o1
RawDir == k1 :> d1
SafeDir == k1 :> d2

\* Requests and operators can be exchanged.
Interchangeable == Permutations(Requests) \cup Permutations(Operators)
=============================================================================
