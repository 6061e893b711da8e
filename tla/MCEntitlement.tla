----------------------------- MODULE MCEntitlement -----------------------------
(* Instances of Entitlement for TLC. *)
EXTENDS Entitlement, TLC

CONSTANTS k1, k2, u1, u2, o1, a1, a2

\* Two users of one org, each with a subscription and a session of its own.
Owner == k1 :> u1 @@ k2 :> u2
OneOrg == [u \in Users |-> o1]
OwnAccount == u1 :> a1 @@ u2 :> a2

\* The plans of PLAN_POLICIES with 300 and 2000 sessions a month cut down to one,
\* and the five seats of a team to two.
SmallSessionLimit == [retail |-> 1, team |-> 1, restricted |-> 0]
SmallSeatLimit == [retail |-> 1, team |-> 2, restricted |-> 0]

Interchangeable == Permutations(Operators)
=============================================================================
