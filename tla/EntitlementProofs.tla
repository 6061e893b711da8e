--------------------------- MODULE EntitlementProofs ---------------------------
(***************************************************************************)
(* Theorems about Entitlement for every plan table and any number of orgs, *)
(* users, operators and months.  The limit is checked in one reading of    *)
(* the clock and charged in another; the invariant that carries it over is *)
(* that a start being charged has room in the bucket of the current month, *)
(* and that the buckets of months to come are empty.                       *)
(***************************************************************************)
EXTENDS Entitlement, DataLemmas

\* A start that has not been charged holds a session object and room for it.
ChargeHasRoom ==
  charging # NoKey =>
    /\ sessions[charging] # <<>>
    /\ started[OrgOf[UserOf[charging]]][month][Current(charging).plan]
         < SessionLimit[Current(charging).plan]

FutureEmpty ==
  \A o \in Orgs, m \in Months, p \in Plans : m > month => started[o][m][p] = 0

IInv == TypeOK /\ ChargeHasRoom /\ FutureEmpty /\ LimitHolds

-----------------------------------------------------------------------------
\* Every key has an org and an account.
LEMMA OwnersKnown == \A k \in Keys : OrgOf[UserOf[k]] \in Orgs /\ AccountOf[UserOf[k]] \in Accounts
  BY EntitlementAssumption

\* A label a request may carry names a plan once normalized.
LEMMA NormalizeType == \A label \in Known : Normalize(label) \in Plans
  BY DEF Known, Normalize, Plans

\* A session that was started has a last object.
LEMMA CurrentType ==
  ASSUME TypeOK, NEW k \in Keys, sessions[k] # <<>>
  PROVE  Current(k) \in Session /\ Len(sessions[k]) \in DOMAIN sessions[k]
  <1>1. sessions[k] \in Seq(Session)
    BY DEF TypeOK
  <1>2. QED
    BY <1>1 DEF Current

\* The invariant holds of empty files ...
LEMMA InitInv == Init => IInv
  BY EntitlementAssumption, SMT DEF Init, IInv, TypeOK, ChargeHasRoom, FutureEmpty, LimitHolds, Buckets, Months

\* ... and every step keeps it; the turn of the month is the one to look at.
LEMMA NextInv == IInv /\ [Next]_vars => IInv'
  <1> SUFFICES ASSUME IInv, [Next]_vars PROVE IInv'
    OBVIOUS
  <1> USE EntitlementAssumption
  <1>1. ASSUME NEW k \in Keys, ChargeSession(k) PROVE IInv'
    <2> DEFINE o == OrgOf[UserOf[k]]
               p == Current(k).plan
    <2>1. o \in Orgs /\ month \in Months /\ p \in Plans
          /\ started \in Buckets /\ started[o][month][p] < SessionLimit[p]
      <3>1. charging = k /\ charging # NoKey
        BY <1>1, EntitlementAssumption DEF ChargeSession
      <3>2. sessions[k] # <<>> /\ started[o][month][p] < SessionLimit[p]
        BY <3>1 DEF IInv, ChargeHasRoom
      <3>3. Current(k) \in Session
        BY <3>2, CurrentType DEF IInv
      <3>4. QED
        BY <3>2, <3>3, OwnersKnown DEF IInv, TypeOK, Session
    <2>2. started' = [started EXCEPT ![o][month][p] = @ + 1] /\ month' = month
          /\ charging' = NoKey
      BY <1>1 DEF ChargeSession, ChargedPlan
    <2>3. started' \in Buckets
      BY <2>1, <2>2 DEF Buckets
    <2>4. \A q \in Orgs, m \in Months, r \in Plans :
            started'[q][m][r] = IF q = o /\ m = month /\ r = p THEN started[q][m][r] + 1
                                ELSE started[q][m][r]
      BY <2>1, <2>2 DEF Buckets
    <2>5. TypeOK'
      BY <1>1, <2>2, <2>3 DEF ChargeSession, IInv, TypeOK
    <2>6. ChargeHasRoom'
      BY <2>2 DEF ChargeHasRoom
    <2>7. FutureEmpty'
      <3>1. \A q \in Orgs, m \in Months, r \in Plans : m > month => started[q][m][r] = 0
        BY DEF FutureEmpty, IInv
      <3>2. ~(month > month)
        BY <2>1 DEF Months
      <3>3. \A q \in Orgs, m \in Months, r \in Plans : m > month => started'[q][m][r] = 0
        BY <2>4, <3>1, <3>2
      <3>4. QED
        BY <2>2, <3>3 DEF FutureEmpty
    <2>8. LimitHolds'
      <3>1. ASSUME NEW q \in Orgs, NEW m \in Months, NEW r \in Plans
            PROVE  started'[q][m][r] <= SessionLimit[r]
        <4>1. started[q][m][r] <= SessionLimit[r]
          BY DEF LimitHolds, IInv
        <4>2. PICK had \in Nat : had = started[q][m][r]
          BY <2>1 DEF Buckets
        <4>3. SessionLimit[r] \in Nat
          BY DEF EntitlementAssumption
        <4>4. CASE q = o /\ m = month /\ r = p
          BY <2>1, <2>4, <4>2, <4>3, <4>4
        <4>5. CASE ~(q = o /\ m = month /\ r = p)
          BY <2>4, <4>1, <4>5
        <4>6. QED
          BY <4>4, <4>5
      <3>2. QED
        BY <3>1 DEF LimitHolds
    <2>9. QED
      BY <2>5, <2>6, <2>7, <2>8 DEF IInv
  <1>2. ASSUME NEW k \in Keys, NEW g \in DOMAIN sessions[k], CountCommit(k, g) PROVE IInv'
    <2> DEFINE o == OrgOf[UserOf[k]]
               p == sessions[k][g].plan
    <2>1. o \in Orgs /\ p \in Plans /\ committed \in Buckets /\ month \in Months
      <3>1. sessions[k] \in Seq(Session)
        BY DEF IInv, TypeOK
      <3>2. sessions[k][g] \in Session
        BY <3>1
      <3>3. QED
        BY <3>2, OwnersKnown DEF IInv, TypeOK, Session
    <2>2. committed' = [committed EXCEPT ![o][month][p] = @ + 1]
          /\ month' = month /\ rows' = rows /\ seats' = seats /\ started' = started
          /\ sessions' = sessions /\ charging' = charging
      BY <1>2 DEF CountCommit, PlanOf
    <2>3. committed' \in Buckets
      BY <2>1, <2>2 DEF Buckets
    <2>4. TypeOK'
      BY <2>2, <2>3 DEF IInv, TypeOK
    <2>5. QED
      BY <2>2, <2>4 DEF IInv, ChargeHasRoom, FutureEmpty, LimitHolds, Current
  <1>3. ASSUME NEW k \in Keys, NEW op \in Operators, NEW label \in Labels, StartSession(k, op, label)
        PROVE  IInv'
    <2>1. Normalize(label) \in Plans /\ OrgOf[UserOf[k]] \in Orgs
      BY <1>3, NormalizeType, OwnersKnown DEF StartSession
    <2>2. seats' \in [Orgs -> SUBSET Operators]
      BY <1>3, <2>1 DEF StartSession, SaveSeats, IInv, TypeOK
    <2>3. started' = started /\ month' = month /\ rows' = rows /\ committed' = committed
      BY <1>3 DEF StartSession
    <2> DEFINE object == [operator |-> op, plan |-> Normalize(label)]
    <2>4. CASE /\ Included(OrgOf[UserOf[k]], Normalize(label))
               /\ sessions' = [sessions EXCEPT ![k] = Append(@, object)]
               /\ charging' = k
      <3>1. object \in Session /\ sessions[k] \in Seq(Session) /\ sessions \in [Keys -> Seq(Session)]
        BY <2>1 DEF IInv, TypeOK, Session
      <3> HIDE DEF object
      <3>2. sessions'[k] = Append(sessions[k], object) /\ sessions' \in [Keys -> Seq(Session)]
        <4>1. Append(sessions[k], object) \in Seq(Session)
          BY <3>1, AppendProperties
        <4>2. QED
          BY <2>4, <3>1, <4>1
      <3>3. sessions'[k] # <<>> /\ sessions'[k][Len(sessions'[k])] = object
        BY <3>1, <3>2, AppendProperties
      <3>4. TypeOK'
        BY <2>2, <2>3, <2>4, <3>2 DEF IInv, TypeOK
      <3>5. ChargeHasRoom'
        BY <2>3, <2>4, <3>3 DEF ChargeHasRoom, Included, Current, object
      <3>6. QED
        BY <2>3, <3>4, <3>5 DEF IInv, FutureEmpty, LimitHolds
    <2>5. CASE UNCHANGED <<sessions, charging>>
      BY <2>2, <2>3, <2>5 DEF IInv, TypeOK, ChargeHasRoom, FutureEmpty, LimitHolds, Current
    <2>6. QED
      BY <1>3, <2>4, <2>5 DEF StartSession
  <1>4. ASSUME NEW a \in Accounts, NEW event \in Events, NEW label \in Labels, Webhook(a, event, label)
        PROVE  IInv'
    <2>1. Status(event) \in Statuses
      BY <1>4 DEF Webhook, Status, Statuses
    <2>2. rows' \in [Accounts -> Row \cup {NoRow}]
      BY <1>4, <2>1 DEF Webhook, IInv, TypeOK, Row
    <2>3. QED
      BY <1>4, <2>2 DEF Webhook, IInv, TypeOK, ChargeHasRoom, FutureEmpty, LimitHolds, Current
  <1>5. CASE MonthTurns
    <2>1. month' \in Months /\ month' = month + 1
      BY <1>5 DEF MonthTurns, IInv, TypeOK, Months
    <2>2. TypeOK' /\ FutureEmpty' /\ LimitHolds'
      BY <1>5, <2>1 DEF MonthTurns, IInv, TypeOK, FutureEmpty, LimitHolds, Months
    <2>3. ChargeHasRoom'
      <3> SUFFICES ASSUME charging # NoKey
                   PROVE  /\ sessions[charging] # <<>>
                          /\ started[OrgOf[UserOf[charging]]][month'][Current(charging).plan]
                               < SessionLimit[Current(charging).plan]
        BY <1>5 DEF MonthTurns, ChargeHasRoom, Current
      <3> DEFINE o == OrgOf[UserOf[charging]]
                 p == Current(charging).plan
      <3>0. charging \in Keys /\ sessions[charging] # <<>> /\ TypeOK
        BY DEF IInv, TypeOK, ChargeHasRoom
      <3>1. Current(charging) \in Session /\ p \in Plans /\ o \in Orgs
        BY <3>0, CurrentType, OwnersKnown DEF Session
      <3>2. started[o][month][p] \in Nat /\ started[o][month][p] < SessionLimit[p]
            /\ SessionLimit[p] \in Nat
        BY <3>1 DEF IInv, TypeOK, ChargeHasRoom, Buckets
      <3>3. started[o][month'][p] = 0
        BY <2>1, <3>1 DEF IInv, TypeOK, FutureEmpty, Months
      <3>4. QED
        BY <3>0, <3>1, <3>2, <3>3
    <2>4. QED
      BY <2>2, <2>3 DEF IInv
  <1>6. CASE Crash
    BY <1>6 DEF Crash, IInv, TypeOK, ChargeHasRoom, FutureEmpty, LimitHolds
  <1>7. CASE UNCHANGED vars
    BY <1>7 DEF vars, IInv, TypeOK, ChargeHasRoom, FutureEmpty, LimitHolds, Current
  <1>8. QED
    BY <1>1, <1>2, <1>3, <1>4, <1>5, <1>6, <1>7 DEF Next

\* The inductive invariant.
THEOREM Invariance == Spec => []IInv
  BY InitInv, NextInv, PTL DEF Spec

\* Files and memory keep their types; webhooks of both providers included.
THEOREM TypesAreKept == Spec => []TypeOK
  <1>1. IInv => TypeOK
    BY DEF IInv
  <1>2. QED
    BY <1>1, Invariance, PTL

\* No org is charged for more sessions of a plan in a month than the plan
\* includes, wherever between check and charge the month turns or the process dies.
THEOREM LimitIsKept == Spec => []LimitHolds
  <1>1. IInv => LimitHolds
    BY DEF IInv
  <1>2. QED
    BY <1>1, Invariance, PTL

-----------------------------------------------------------------------------
\* Charges are never taken back.
LEMMA ChargesGrow ==
  ASSUME IInv, [Next]_vars
  PROVE  /\ month' \in Months /\ month <= month'
         /\ \A o \in Orgs, m \in Months, p \in Plans : started[o][m][p] > 0 => started'[o][m][p] > 0
  <1>1. started \in Buckets /\ month \in Months
    BY DEF IInv, TypeOK
  <1>2. ASSUME NEW k \in Keys, ChargeSession(k), NEW o \in Orgs, NEW m \in Months, NEW p \in Plans,
               started[o][m][p] > 0
        PROVE  started'[o][m][p] > 0
    <2>1. started[o][m][p] \in Nat
      BY <1>1 DEF Buckets
    <2>2. PICK q, r : started' = [started EXCEPT ![q][month][r] = @ + 1]
      BY <1>2 DEF ChargeSession
    <2>3. started'[o][m][p] \in {started[o][m][p], started[o][m][p] + 1}
      BY <1>1, <2>2 DEF Buckets
    <2>4. QED
      BY <1>2, <2>1, <2>3
  <1>3. CASE started' = started /\ month' = month
    BY <1>1, <1>3 DEF Months
  <1>4. CASE MonthTurns
    BY <1>1, <1>4, EntitlementAssumption DEF MonthTurns, Months
  <1>5. CASE \E k \in Keys : ChargeSession(k)
    <2>1. month' = month
      BY <1>5 DEF ChargeSession
    <2>2. QED
      BY <1>1, <1>2, <1>5, <2>1, EntitlementAssumption DEF Months
  <1>6. QED
    BY <1>3, <1>4, <1>5 DEF Next, CountCommit, StartSession, Webhook, Crash, vars

\* The charges of a plan add up to a number; those of months to come do not count.
LEMMA TotalFacts ==
  ASSUME IInv, NEW o \in Orgs, NEW p \in Plans
  PROVE  /\ IsFiniteSet(Months) /\ Total(o, p) \in Nat
         /\ Total(o, p) > 0 => \E n \in 1..month : started[o][n][p] > 0
  <1> DEFINE f == [m \in Months |-> started[o][m][p]]
  <1>1. IsFiniteSet(Months)
    BY FS_Interval, EntitlementAssumption DEF Months
  <1>2. \A m \in Months : f[m] \in Nat
    BY DEF IInv, TypeOK, Buckets
  <1>3. Total(o, p) = SumFunctionOnSet(f, Months)
    BY DEF Total
  <1>4. month \in Months /\ \A m \in Months : m > month => f[m] = 0
    BY DEF IInv, TypeOK, FutureEmpty
  <1> HIDE DEF f
  <1>5. Total(o, p) \in Nat
    BY <1>1, <1>2, <1>3, SumIsNat
  <1>6. ASSUME Total(o, p) > 0 PROVE \E n \in 1..month : started[o][n][p] > 0
    <2>1. PICK m \in Months : f[m] # 0
      BY <1>1, <1>3, <1>5, <1>6, SumOfZeros
    <2>2. m \in 1..month /\ f[m] > 0
      BY <1>2, <1>4, <2>1, EntitlementAssumption DEF Months
    <2>3. QED
      BY <2>1, <2>2 DEF f
  <1>7. QED
    BY <1>1, <1>5, <1>6

\* A set has no more than n members.
AtMost(S, n) == IsFiniteSet(S) /\ Cardinality(S) <= n
CountInv == \A o \in Orgs, p \in Plans : AtMost(Objects(o, p) \ Pending, Total(o, p))
SeatInv ==
  \A k \in Keys : \A g \in DOMAIN sessions[k] : sessions[k][g].operator \in seats[OrgOf[UserOf[k]]]

LEMMA ObjectsFacts ==
  ASSUME NEW o, NEW p
  PROVE  \A x : x \in Objects(o, p) <=>
           \E k \in Keys : /\ OrgOf[UserOf[k]] = o
                           /\ \E g \in DOMAIN sessions[k] : sessions[k][g].plan = p /\ x = <<k, g>>
  BY DEF Objects

LEMMA ObjectsNext ==
  ASSUME NEW o, NEW p
  PROVE  \A x : x \in Objects(o, p)' <=>
           \E k \in Keys : /\ OrgOf[UserOf[k]] = o
                           /\ \E g \in DOMAIN sessions'[k] : sessions'[k][g].plan = p /\ x = <<k, g>>
  BY DEF Objects

\* A start adds one object, and that is the pending one.
LEMMA StartCounts ==
  ASSUME IInv, CountInv, NEW k \in Keys, NEW op \in Operators, NEW label \in Labels,
         StartSession(k, op, label)
  PROVE  CountInv'
  <1> DEFINE object == [operator |-> op, plan |-> Normalize(label)]
             len == Len(sessions[k])
  <1>1. started' = started /\ charging = NoKey
    BY DEF StartSession
  <1>2. \A o, p : Total(o, p)' = Total(o, p)
    BY <1>1 DEF Total
  <1>3. CASE UNCHANGED <<sessions, charging>>
    <2>1. Pending' = Pending /\ \A o, p : Objects(o, p)' = Objects(o, p)
      BY <1>3 DEF Pending, Objects
    <2>2. QED
      BY <1>2, <2>1 DEF CountInv
  <1>4. CASE charging' = k /\ sessions' = [sessions EXCEPT ![k] = Append(@, object)]
    <2> HIDE DEF object
    <2>1. sessions \in [Keys -> Seq(Session)] /\ sessions[k] \in Seq(Session) /\ k # NoKey
      BY EntitlementAssumption DEF IInv, TypeOK
    <2>2. sessions'[k] = Append(sessions[k], object) /\ \A l \in Keys \ {k} : sessions'[l] = sessions[l]
      BY <1>4, <2>1
    <2>3. PICK n \in Nat : n = len
      BY <2>1
    <2>4. /\ Len(sessions'[k]) = n + 1 /\ DOMAIN sessions'[k] = 1..(n + 1) /\ DOMAIN sessions[k] = 1..n
          /\ \A g \in 1..n : sessions'[k][g] = sessions[k][g]
      BY <2>1, <2>2, <2>3
    <2>5. Pending = {} /\ Pending' = {<<k, n + 1>>}
      BY <1>1, <1>4, <2>1, <2>4 DEF Pending
    <2>6. ASSUME NEW o \in Orgs, NEW p \in Plans PROVE Objects(o, p)' \ Pending' = Objects(o, p)
      <3>1. ASSUME NEW x PROVE x \in Objects(o, p)' \ Pending' <=> x \in Objects(o, p)
        <4>1. ASSUME x \in Objects(o, p)', x \notin Pending' PROVE x \in Objects(o, p)
          <5>0. PICK l \in Keys :
                  /\ OrgOf[UserOf[l]] = o
                  /\ \E g \in DOMAIN sessions'[l] : sessions'[l][g].plan = p /\ x = <<l, g>>
            BY <4>1, ObjectsNext
          <5>1. PICK g \in DOMAIN sessions'[l] :
                  OrgOf[UserOf[l]] = o /\ sessions'[l][g].plan = p /\ x = <<l, g>>
            BY <5>0
          <5>2. g \in DOMAIN sessions[l] /\ sessions[l][g].plan = p
            BY <2>2, <2>4, <2>5, <4>1, <5>1
          <5>3. QED
            BY <5>1, <5>2, ObjectsFacts
        <4>2. ASSUME x \in Objects(o, p) PROVE x \in Objects(o, p)' \ Pending'
          <5>0. PICK l \in Keys :
                  /\ OrgOf[UserOf[l]] = o
                  /\ \E g \in DOMAIN sessions[l] : sessions[l][g].plan = p /\ x = <<l, g>>
            BY <4>2, ObjectsFacts
          <5>1. PICK g \in DOMAIN sessions[l] :
                  OrgOf[UserOf[l]] = o /\ sessions[l][g].plan = p /\ x = <<l, g>>
            BY <5>0
          <5>2. g \in DOMAIN sessions'[l] /\ sessions'[l][g].plan = p
            BY <2>2, <2>4, <5>1
          <5>3. x # <<k, n + 1>>
            BY <2>4, <5>1
          <5>4. QED
            BY <2>5, <5>1, <5>2, <5>3, ObjectsNext
        <4>3. QED
          BY <4>1, <4>2
      <3>2. QED
        BY <3>1
    <2>7. QED
      BY <1>2, <2>5, <2>6 DEF CountInv
  <1>5. QED
    BY <1>3, <1>4 DEF StartSession

\* A charge makes the pending object one that counts.
LEMMA ChargeCounts ==
  ASSUME IInv, CountInv, NEW k \in Keys, ChargeSession(k)
  PROVE  CountInv'
  <1> DEFINE org == OrgOf[UserOf[k]]
             plan == Current(k).plan
             object == <<k, Len(sessions[k])>>
  <1>1. /\ charging = k /\ charging' = NoKey /\ k # NoKey /\ sessions' = sessions
        /\ started' = [started EXCEPT ![org][month][plan] = @ + 1]
    BY EntitlementAssumption DEF ChargeSession, ChargedPlan
  <1>2. started \in Buckets /\ month \in Months /\ org \in Orgs /\ TypeOK /\ sessions[k] # <<>>
    BY <1>1, OwnersKnown DEF IInv, TypeOK, ChargeHasRoom
  <1>3. Current(k) \in Session /\ Len(sessions[k]) \in DOMAIN sessions[k] /\ plan \in Plans
    BY <1>2, CurrentType DEF Session
  <1>4. Pending = {object} /\ Pending' = {} /\ \A o, p : Objects(o, p)' = Objects(o, p)
    BY <1>1 DEF Pending, Objects
  <1> SUFFICES ASSUME NEW o \in Orgs, NEW p \in Plans
               PROVE  AtMost(Objects(o, p), Total(o, p)')
    BY <1>4 DEF CountInv
  <1> DEFINE f == [m \in Months |-> started[o][m][p]]
             g == [m \in Months |-> started'[o][m][p]]
  <1>5. /\ AtMost(Objects(o, p) \ {object}, Total(o, p)) /\ Total(o, p) \in Nat
        /\ Total(o, p) = SumFunctionOnSet(f, Months) /\ Total(o, p)' = SumFunctionOnSet(g, Months)
    BY <1>4, TotalFacts DEF CountInv, Total
  <1>6. CASE o = org /\ p = plan
    <2>1. Total(o, p)' = Total(o, p) + 1
      <3>1. \A m \in Months : f[m] \in Nat
        BY <1>2 DEF Buckets
      <3>2. (\A m \in Months \ {month} : g[m] = f[m]) /\ g[month] = f[month] + 1
        BY <1>1, <1>2, <1>3, <1>6 DEF Buckets
      <3>3. IsFiniteSet(Months)
        BY FS_Interval, EntitlementAssumption DEF Months
      <3> HIDE DEF f, g
      <3>4. SumFunctionOnSet(g, Months) = SumFunctionOnSet(f, Months) + 1
        BY <1>2, <3>1, <3>2, <3>3, SumWithOneMore
      <3>5. QED
        BY <1>5, <3>4
    <2>2. Objects(o, p) \subseteq (Objects(o, p) \ {object}) \cup {object}
      OBVIOUS
    <2> DEFINE S == Objects(o, p) \ {object}
    <2>3. IsFiniteSet(S) /\ Cardinality(S) \in Nat /\ Cardinality(S) <= Total(o, p)
      BY <1>5, FS_CardinalityType DEF AtMost
    <2>4. IsFiniteSet(S \cup {object}) /\ Cardinality(S \cup {object}) \in {Cardinality(S), Cardinality(S) + 1}
      <3> HIDE DEF S, object
      <3>1. QED
        BY <2>3, FS_AddElement
    <2>5. IsFiniteSet(Objects(o, p)) /\ Cardinality(Objects(o, p)) <= Cardinality(S \cup {object})
          /\ Cardinality(Objects(o, p)) \in Nat /\ Cardinality(S \cup {object}) \in Nat
      <3> HIDE DEF object
      <3>1. QED
        BY <2>2, <2>4, FS_Subset, FS_CardinalityType
    <2> HIDE DEF S, object
    <2>6. QED
      BY <1>5, <2>1, <2>3, <2>4, <2>5 DEF AtMost
  <1>7. CASE ~(o = org /\ p = plan)
    <2>1. f = g
      BY <1>1, <1>2, <1>3, <1>7 DEF Buckets
    <2>2. object \notin Objects(o, p)
      <3>1. ASSUME object \in Objects(o, p) PROVE FALSE
        <4>0. PICK l \in Keys :
                /\ OrgOf[UserOf[l]] = o
                /\ \E i \in DOMAIN sessions[l] : sessions[l][i].plan = p /\ object = <<l, i>>
          BY <3>1, ObjectsFacts
        <4>1. PICK i \in DOMAIN sessions[l] :
                OrgOf[UserOf[l]] = o /\ sessions[l][i].plan = p /\ object = <<l, i>>
          BY <4>0
        <4>2. l = k /\ i = Len(sessions[k])
          BY <4>1
        <4>3. QED
          BY <1>7, <4>1, <4>2 DEF Current
      <3>2. QED
        BY <3>1
    <2>3. Objects(o, p) \ {object} = Objects(o, p)
      BY <2>2
    <2> HIDE DEF f, g, object
    <2>4. QED
      BY <1>5, <2>1, <2>3
  <1>8. QED
    BY <1>6, <1>7

\* Every session handed out has a seat and, once its start is over, a charge of
\* its own.
LEMMA SessionsStep ==
  ASSUME IInv, CountInv, SeatInv, [Next]_vars
  PROVE  CountInv' /\ SeatInv'
  <1>1. ASSUME NEW k \in Keys, NEW op \in Operators, NEW label \in Labels, StartSession(k, op, label)
        PROVE  CountInv' /\ SeatInv'
    <2>1. CountInv'
      BY <1>1, StartCounts
    <2>2. SeatInv'
      <3> DEFINE object == [operator |-> op, plan |-> Normalize(label)]
                 org == OrgOf[UserOf[k]]
      <3>1. /\ sessions \in [Keys -> Seq(Session)] /\ seats \in [Orgs -> SUBSET Operators]
            /\ \A l \in Keys : OrgOf[UserOf[l]] \in Orgs
        BY OwnersKnown DEF IInv, TypeOK
      <3>2. /\ op \in seats'[org] /\ \A o \in Orgs : seats[o] \subseteq seats'[o]
        BY <1>1, <3>1 DEF StartSession, SaveSeats
      <3>3. \/ sessions' = sessions
            \/ sessions' = [sessions EXCEPT ![k] = Append(@, object)]
        BY <1>1 DEF StartSession
      <3> SUFFICES ASSUME NEW l \in Keys, NEW g \in DOMAIN sessions'[l]
                   PROVE  sessions'[l][g].operator \in seats'[OrgOf[UserOf[l]]]
        BY DEF SeatInv
      <3>4. CASE g \in DOMAIN sessions[l] /\ sessions'[l][g] = sessions[l][g]
        BY <3>1, <3>2, <3>4 DEF SeatInv
      <3>5. CASE l = k /\ sessions'[l][g] = object
        BY <3>2, <3>5
      <3>6. \/ g \in DOMAIN sessions[l] /\ sessions'[l][g] = sessions[l][g]
            \/ l = k /\ sessions'[l][g] = object
        <4> HIDE DEF object
        <4>1. CASE sessions' = sessions
          BY <4>1
        <4>2. CASE sessions' = [sessions EXCEPT ![k] = Append(@, object)]
          <5>1. CASE l # k
            BY <3>1, <4>2, <5>1
          <5>2. CASE l = k
            <6>1. sessions[k] \in Seq(Session) /\ sessions'[k] = Append(sessions[k], object)
              BY <3>1, <4>2
            <6>2. QED
              BY <5>2, <6>1
          <5>3. QED
            BY <5>1, <5>2
        <4>3. QED
          BY <3>3, <4>1, <4>2
      <3>7. QED
        BY <3>4, <3>5, <3>6
    <2>3. QED
      BY <2>1, <2>2
  <1>2. ASSUME NEW k \in Keys, ChargeSession(k) PROVE CountInv' /\ SeatInv'
    <2>1. sessions' = sessions /\ seats' = seats
      BY <1>2 DEF ChargeSession
    <2>2. QED
      BY <1>2, <2>1, ChargeCounts DEF SeatInv
  <1>3. CASE Crash
    <2>1. sessions' = [k \in Keys |-> <<>>] /\ started' = started /\ charging' = NoKey
      BY <1>3 DEF Crash
    <2>2. SeatInv'
      BY <2>1 DEF SeatInv
    <2>3. ASSUME NEW o \in Orgs, NEW p \in Plans PROVE AtMost(Objects(o, p)' \ Pending', Total(o, p)')
      <3>1. Objects(o, p)' = {}
        BY <2>1, ObjectsNext
      <3>2. Total(o, p)' = Total(o, p) /\ Total(o, p) \in Nat
        BY <2>1, TotalFacts DEF Total
      <3>3. Objects(o, p)' \ Pending' = {}
        BY <3>1
      <3>4. QED
        BY <3>2, <3>3, FS_EmptySet DEF AtMost
    <2>4. QED
      BY <2>2, <2>3 DEF CountInv
  <1>4. CASE UNCHANGED <<sessions, started, seats, charging>>
    <2>1. Pending' = Pending /\ \A o, p : Objects(o, p)' = Objects(o, p) /\ Total(o, p)' = Total(o, p)
      BY <1>4 DEF Pending, Objects, Total
    <2>2. QED
      BY <1>4, <2>1 DEF CountInv, SeatInv
  <1>5. QED
    BY <1>1, <1>2, <1>3, <1>4 DEF Next, CountCommit, Webhook, MonthTurns, vars

\* The sessions of an org in memory never outnumber its charges of their plan, and
\* each has a seat, for every interleaving of starts, months and crashes.
LEMMA SessionsInvariance == Spec => [](CountInv /\ SeatInv)
  <1>1. Init => CountInv /\ SeatInv
    <2> SUFFICES ASSUME Init PROVE CountInv /\ SeatInv
      OBVIOUS
    <2>1. sessions = [k \in Keys |-> <<>>] /\ IInv
      BY InitInv DEF Init
    <2>2. ASSUME NEW o \in Orgs, NEW p \in Plans PROVE AtMost(Objects(o, p) \ Pending, Total(o, p))
      <3>1. Objects(o, p) = {}
        BY <2>1, ObjectsFacts
      <3>2. Objects(o, p) \ Pending = {} /\ Total(o, p) \in Nat
        BY <2>1, <3>1, TotalFacts
      <3>3. QED
        BY <3>2, FS_EmptySet DEF AtMost
    <2>3. QED
      BY <2>1, <2>2 DEF CountInv, SeatInv
  <1>2. QED
    BY <1>1, SessionsStep, Invariance, PTL DEF Spec

\* Every session handed out has a seat of its org and, once its start is over, a
\* charge of its own for its plan, restarts of the session and crashes included.
THEOREM SessionsArePaid == Spec => []SessionsSeatedAndCharged
  <1>1. CountInv /\ SeatInv => SessionsSeatedAndCharged
    BY DEF CountInv, SeatInv, AtMost, SessionsSeatedAndCharged
  <1>2. QED
    BY <1>1, SessionsInvariance, PTL

-----------------------------------------------------------------------------
\* What is committed was charged: only a session's own plan is counted.
LEMMA CommitsStep ==
  ASSUME IInv, CountInv, CommitsFollowCharges, [Next]_vars
  PROVE  CommitsFollowCharges'
  <1> SUFFICES ASSUME NEW o \in Orgs, NEW m \in Months, NEW p \in Plans, committed'[o][m][p] > 0
               PROVE  \E n \in 1..m : started'[o][n][p] > 0
    BY DEF CommitsFollowCharges
  <1>1. committed \in Buckets /\ month \in Months /\ MaxMonth \in Nat
    BY EntitlementAssumption DEF IInv, TypeOK
  <1>2. CASE committed[o][m][p] > 0
    <2>1. PICK n \in 1..m : started[o][n][p] > 0
      BY <1>2 DEF CommitsFollowCharges
    <2>2. n \in Months
      BY <1>1 DEF Months
    <2>3. QED
      BY <2>1, <2>2, ChargesGrow
  <1>3. CASE ~(committed[o][m][p] > 0)
    <2>1. committed' # committed
      BY <1>3
    <2>0. PICK k \in Keys : \E g \in DOMAIN sessions[k] : CountCommit(k, g)
      BY <2>1 DEF Next, vars, ChargeSession, StartSession, Webhook, MonthTurns, Crash
    <2>2. PICK g \in DOMAIN sessions[k] : CountCommit(k, g)
      BY <2>0
    <2> DEFINE plan == sessions[k][g].plan
    <2>3. plan \in Plans /\ OrgOf[UserOf[k]] \in Orgs
      <3>1. sessions[k] \in Seq(Session)
        BY DEF IInv, TypeOK
      <3>2. sessions[k][g] \in Session
        BY <3>1
      <3>3. QED
        BY <3>2, OwnersKnown DEF Session
    <2>4. o = OrgOf[UserOf[k]] /\ m = month /\ p = plan
      <3> DEFINE h == OrgOf[UserOf[k]]
      <3>1. committed' = [committed EXCEPT ![h][month][plan] = @ + 1]
        BY <2>2 DEF CountCommit, PlanOf
      <3>2. committed \in [Orgs -> [Months -> [Plans -> Nat]]] /\ h \in Orgs /\ month \in Months
        BY <1>1, <2>3 DEF Buckets
      <3>3. committed[o][m][p] \in Nat /\ committed'[o][m][p] > committed[o][m][p]
        BY <1>3, <3>2
      <3> HIDE DEF h, plan
      <3>4. ~(o = h /\ m = month /\ p = plan) => committed'[o][m][p] = committed[o][m][p]
        BY <3>1, <3>2, <2>3
      <3>5. QED
        BY <3>3, <3>4 DEF h
    <2>5. Pending = {} /\ <<k, g>> \in Objects(o, p)
      BY <2>2, <2>4, ObjectsFacts DEF CountCommit, Pending
    <2>6. AtMost(Objects(o, p), Total(o, p)) /\ Total(o, p) \in Nat
      <3>1. AtMost(Objects(o, p) \ Pending, Total(o, p))
        BY DEF CountInv
      <3>2. Objects(o, p) \ Pending = Objects(o, p)
        BY <2>5
      <3>3. QED
        BY <3>1, <3>2, TotalFacts
    <2>7. Total(o, p) > 0
      <3>1. Cardinality(Objects(o, p)) \in Nat /\ Cardinality(Objects(o, p)) # 0
        BY <2>5, <2>6, FS_CardinalityType, FS_EmptySet DEF AtMost
      <3>2. QED
        BY <2>6, <3>1 DEF AtMost
    <2>8. PICK n \in 1..m : started[o][n][p] > 0
      BY <2>4, <2>7, TotalFacts
    <2>9. started' = started
      BY <2>2 DEF CountCommit
    <2>10. QED
      BY <2>8, <2>9
  <1>4. QED
    BY <1>2, <1>3

\* A commit is counted only against a plan the org has been charged for, whichever
\* object of its session the stop-commit holds.
THEOREM CommitsAreCharged == Spec => []CommitsFollowCharges
  <1>1. Init => CommitsFollowCharges
    BY DEF Init, CommitsFollowCharges
  <1>2. QED
    BY <1>1, CommitsStep, Invariance, SessionsInvariance, PTL DEF Spec

\* No session of a locked account is charged.  The invariant this needs: a start
\* that has not been charged yet belongs to a paying user.
StarterPays == charging # NoKey => Paying(UserOf[charging])

THEOREM LockIsKept == Spec => NoChargeWhileLocked
  <1>1. Init => StarterPays
    BY DEF Init, StarterPays
  <1>2. IInv /\ StarterPays /\ [Next]_vars => StarterPays'
    <2> SUFFICES ASSUME IInv, StarterPays, [Next]_vars PROVE StarterPays'
      OBVIOUS
    <2>1. ASSUME NEW k \in Keys, NEW op \in Operators, NEW label \in Labels, StartSession(k, op, label)
          PROVE  StarterPays'
      <3>1. rows[AccountOf[UserOf[k]]] \in Row \cup {NoRow} /\ ~Locked(UserOf[k])
        BY <2>1, OwnersKnown DEF StartSession, IInv, TypeOK
      <3>2. Paying(UserOf[k])
        BY <3>1 DEF Locked, Paying, Row, Statuses
      <3>3. rows' = rows /\ (charging' = k \/ charging' = charging)
        BY <2>1 DEF StartSession
      <3>4. QED
        BY <3>2, <3>3 DEF StarterPays, Paying
    <2>2. ASSUME NEW a \in Accounts, NEW event \in Events, NEW label \in Labels, Webhook(a, event, label)
          PROVE  StarterPays'
      BY <2>2 DEF Webhook, StarterPays
    <2>3. ASSUME NEW k \in Keys, ChargeSession(k) \/ \E g \in DOMAIN sessions[k] : CountCommit(k, g)
          PROVE  StarterPays'
      BY <2>3 DEF ChargeSession, CountCommit, StarterPays, Paying
    <2>4. CASE MonthTurns \/ Crash \/ UNCHANGED vars
      BY <2>4 DEF MonthTurns, Crash, vars, StarterPays, Paying
    <2>5. QED
      BY <2>1, <2>2, <2>3, <2>4 DEF Next
  <1>3. StarterPays /\ [Next]_vars =>
          [\A k \in Keys : charging = k /\ started' # started => Paying(UserOf[k])]_vars
    BY EntitlementAssumption DEF StarterPays
  <1>4. QED
    BY <1>1, <1>2, <1>3, Invariance, PTL DEF Spec, NoChargeWhileLocked
=============================================================================
