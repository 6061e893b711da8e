------------------------------ MODULE Entitlement ------------------------------
(***************************************************************************)
(* Who may start a session: the subscription rows two payment providers    *)
(* keep up to date by webhooks, the seats of an org, and its usage counts, *)
(* a bucket for each org, month and plan.  A start request reads and       *)
(* writes these files one after the other, without awaiting; the month may *)
(* turn and the process may die between any two of its steps.              *)
(***************************************************************************)
EXTENDS Integers, Sequences, FiniteSets, Functions

CONSTANTS
  Keys,             \* keys of SESSIONS
  Users, UserOf,    \* the user_id of a key
  Orgs, OrgOf,      \* the org of a user: usage and seats are keyed by it
  Accounts,         \* lower-cased user ids
  AccountOf,        \* the account of a user: subscriptions are keyed by it
  Operators,        \* operator_key values
  Labels,           \* plan names requests and webhooks carry
  SessionLimit,     \* plan |-> max_sessions_per_month
  SeatLimit,        \* plan |-> max_seats
  MaxMonth,         \* bound: months of a behaviour
  MaxCommits,       \* bound: commits counted in one bucket
  MayCrash,         \* BOOLEAN: whether the process may die
  NoKey, NoRow

Plans == {"retail", "team", "restricted"}

ASSUME EntitlementAssumption ==
  /\ UserOf \in [Keys -> Users]
  /\ OrgOf \in [Users -> Orgs]
  /\ AccountOf \in [Users -> Accounts]
  /\ SessionLimit \in [Plans -> Nat]
  /\ SeatLimit \in [Plans -> Nat]
  /\ MaxMonth \in Nat \ {0}
  /\ MayCrash \in BOOLEAN
  /\ NoKey \notin Keys

VARIABLES
  month,      \* the month of the clock
  rows,       \* account |-> its subscription row, or NoRow
  seats,      \* org |-> registered operators
  started,    \* org |-> month |-> plan |-> sessions charged
  committed,  \* org |-> month |-> plan |-> commits counted
  sessions,   \* key |-> the session objects made for it since boot, the last one
              \* being SESSIONS[key]; stop-commits keep older ones alive
  charging    \* the key whose start has not been charged yet, or NoKey

vars == <<month, rows, seats, started, committed, sessions, charging>>

Months == 1..MaxMonth

\* normalize_requested_plan; other labels are answered with a 400.
Known == Plans \cup {"starter", "pro", "desk"}
Normalize(label) ==
  CASE label = "starter" -> "retail"
    [] label \in {"pro", "desk"} -> "team"
    [] OTHER -> label

\* get_policy falls back to retail.
Policy(label) == IF label \in Plans THEN label ELSE "retail"

Statuses == {"active", "past_due", "canceled"}
Row == [status: Statuses, plan: Labels]

Session == [operator: Operators, plan: Plans]
Current(k) == sessions[k][Len(sessions[k])]

Init ==
  /\ month = 1
  /\ rows = [a \in Accounts |-> NoRow]
  /\ seats = [o \in Orgs |-> {}]
  /\ started = [o \in Orgs |-> [m \in Months |-> [p \in Plans |-> 0]]]
  /\ committed = [o \in Orgs |-> [m \in Months |-> [p \in Plans |-> 0]]]
  /\ sessions = [k \in Keys |-> <<>>]
  /\ charging = NoKey

-----------------------------------------------------------------------------
\* Regression: only a canceled subscription is locked.
LockedWhenCanceled(u) == rows[AccountOf[u]] # NoRow /\ rows[AccountOf[u]].status = "canceled"
Locked(u) ==
  rows[AccountOf[u]] # NoRow /\ rows[AccountOf[u]].status \in {"past_due", "canceled"}

\* Regression: the limit is compared with > instead of >=.
IncludedOrOneMore(o, p) == started[o][month][p] <= SessionLimit[p]
Included(o, p) == started[o][month][p] < SessionLimit[p]

\* Regression: the seats are read and checked but not saved.
CheckSeats(o, taken) == UNCHANGED seats
SaveSeats(o, taken) == seats' = [seats EXCEPT ![o] = taken]

\* POST /api/session/start up to the new SESSIONS entry.  The plan of the row
\* is not looked at: an unlocked user starts on the plan it asks for.
StartSession(k, op, label) ==
  LET u == UserOf[k]
      o == OrgOf[u]
      plan == Normalize(label)
      taken == seats[o] \cup {op}
  IN  /\ charging = NoKey
      /\ label \in Known
      /\ ~Locked(u)
      /\ Cardinality(taken) <= SeatLimit[plan]
      /\ SaveSeats(o, taken)
      /\ \/ /\ Included(o, plan)
            /\ sessions' = [sessions EXCEPT ![k] = Append(@, [operator |-> op, plan |-> plan])]
            /\ charging' = k
         \/ /\ ~Included(o, plan)
            /\ UNCHANGED <<sessions, charging>>
      /\ UNCHANGED <<month, rows, started, committed>>

\* Regression: the default plan of a request is charged.
DefaultPlan(session) == "retail"
ChargedPlan(session) == session.plan

\* mark_session_started reads the clock again.
ChargeSession(k) ==
  LET o == OrgOf[UserOf[k]]
  IN  /\ charging = k
      /\ started' = [started EXCEPT ![o][month][ChargedPlan(Current(k))] = @ + 1]
      /\ charging' = NoKey
      /\ UNCHANGED <<month, rows, seats, committed, sessions>>

\* Regression: a commit is counted against the best plan.
BestPlan(session) == "team"
PlanOf(session) == session.plan

\* The end of a stop-commit: mark_session_committed with the plan of the object the
\* request looked up when it began, which need not be the current one.  A session
\* may be committed again, and in a later month than it was started.
CountCommit(k, g) ==
  LET o == OrgOf[UserOf[k]]
      plan == PlanOf(sessions[k][g])
  IN  /\ charging = NoKey
      /\ committed[o][month][plan] < MaxCommits
      /\ committed' = [committed EXCEPT ![o][month][plan] = @ + 1]
      /\ UNCHANGED <<month, rows, seats, started, sessions, charging>>

-----------------------------------------------------------------------------
\* The event types of Stripe and of PayPal, and what they make of a row.
Events == {"subscription.active", "subscription.past_due", "subscription.canceled",
           "billing.subscription.activated", "billing.subscription.suspended",
           "billing.subscription.cancelled", "billing.subscription.expired", "other"}

\* Regression: the last word of PayPal's event type is kept as the status.
StatusVerbatim(event) ==
  CASE event \in {"subscription.active", "billing.subscription.activated"} -> "active"
    [] event \in {"subscription.past_due", "billing.subscription.suspended"} -> "past_due"
    [] event = "billing.subscription.cancelled" -> "cancelled"
    [] event = "billing.subscription.expired" -> "expired"
    [] event = "subscription.canceled" -> "canceled"
    [] OTHER -> "ignored"
Status(event) ==
  CASE event \in {"subscription.active", "billing.subscription.activated"} -> "active"
    [] event \in {"subscription.past_due", "billing.subscription.suspended"} -> "past_due"
    [] event \in {"subscription.canceled", "billing.subscription.cancelled",
                  "billing.subscription.expired"} -> "canceled"
    [] OTHER -> "ignored"

\* A webhook overwrites the row of its account, whatever it holds: providers may
\* deliver late, twice and out of order.
Webhook(a, event, label) ==
  /\ charging = NoKey
  /\ Status(event) # "ignored"
  /\ rows' = [rows EXCEPT ![a] = [status |-> Status(event), plan |-> label]]
  /\ UNCHANGED <<month, seats, started, committed, sessions, charging>>

MonthTurns ==
  /\ month < MaxMonth
  /\ month' = month + 1
  /\ UNCHANGED <<rows, seats, started, committed, sessions, charging>>

\* SESSIONS is lost, the files are not.
Crash ==
  /\ MayCrash
  /\ sessions' = [k \in Keys |-> <<>>]
  /\ charging' = NoKey
  /\ UNCHANGED <<month, rows, seats, started, committed>>

Next ==
  \/ \E a \in Accounts, event \in Events, label \in Labels : Webhook(a, event, label)
  \/ \E k \in Keys, op \in Operators, label \in Labels : StartSession(k, op, label)
  \/ \E k \in Keys : ChargeSession(k) \/ \E g \in DOMAIN sessions[k] : CountCommit(k, g)
  \/ MonthTurns
  \/ Crash

Spec == Init /\ [][Next]_vars

-----------------------------------------------------------------------------
(* Properties *)

Buckets == [Orgs -> [Months -> [Plans -> Nat]]]

TypeOK ==
  /\ month \in Months
  /\ rows \in [Accounts -> Row \cup {NoRow}]
  /\ seats \in [Orgs -> SUBSET Operators]
  /\ started \in Buckets
  /\ committed \in Buckets
  /\ sessions \in [Keys -> Seq(Session)]
  /\ charging \in Keys \cup {NoKey}

\* No bucket is charged more than its plan includes, also when the month turns
\* between the check of the limit and the charge, which are two readings of the
\* clock and of the usage file.
LimitHolds ==
  \A o \in Orgs, m \in Months, p \in Plans : started[o][m][p] <= SessionLimit[p]

\* Every session handed out since boot has a seat for its operator and a charge of
\* its own: an org holds no more sessions of a plan, older objects of sessions that
\* were started again included, than charges of that plan in this month and the
\* earlier ones, but for the one that is being charged.
Total(o, p) == SumFunctionOnSet([m \in Months |-> started[o][m][p]], Months)
Pending == IF charging = NoKey THEN {} ELSE {<<charging, Len(sessions[charging])>>}
Objects(o, p) ==
  UNION {{k} \X {g \in DOMAIN sessions[k] : sessions[k][g].plan = p} :
           k \in {x \in Keys : OrgOf[UserOf[x]] = o}}
SessionsSeatedAndCharged ==
  /\ \A k \in Keys : \A g \in DOMAIN sessions[k] :
       sessions[k][g].operator \in seats[OrgOf[UserOf[k]]]
  /\ \A o \in Orgs, p \in Plans : Cardinality(Objects(o, p) \ Pending) <= Total(o, p)

\* Commits are only counted against plans the org has been charged for by then, also
\* for a session that was started again on another plan while it was being committed.
CommitsFollowCharges ==
  \A o \in Orgs, m \in Months, p \in Plans :
    committed[o][m][p] > 0 => \E n \in 1..m : started[o][n][p] > 0

\* From a past_due or canceled webhook to the next active one, no session of the
\* account is charged.
Paying(u) == rows[AccountOf[u]] = NoRow \/ rows[AccountOf[u]].status = "active"
NoChargeWhileLocked ==
  [][\A k \in Keys : charging = k /\ started' # started => Paying(UserOf[k])]_vars

\* "once monthly included sessions are exhausted, /api/session/start returns 403":
\* a user whose subscription's plan is used up this month starts no session.
HardLock ==
  [][\A k \in Keys :
       LET row == rows[AccountOf[UserOf[k]]]
       IN  charging # k /\ charging' = k /\ row # NoRow =>
             Included(OrgOf[UserOf[k]], Policy(row.plan))]_vars
=============================================================================
