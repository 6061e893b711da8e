---------------------------- MODULE RequestPipeline ----------------------------
(***************************************************************************)
(* The two middlewares every request goes through.  The guard, which is the *)
(* outer one, checks the ops token and counts requests to sensitive paths  *)
(* in a sliding window for each path and client.  What it lets through is  *)
(* observed: when the handler is done the counters are raised and a        *)
(* snapshot of them replaces the one on disk, from which the next process  *)
(* goes on.  Handlers await, so any number of requests is open at a time;  *)
(* counting and saving is one run of the event loop.                       *)
(***************************************************************************)
EXTENDS Integers, Sequences, FiniteSets, FiniteSetsExt

CONSTANTS
  Requests,   \* the calls of a behaviour, each made once
  Keys,       \* "path:ip" for the sensitive paths
  Outcomes,   \* what handlers may end with
  Limit,      \* RATE_LIMIT_PER_MIN
  Window,     \* RATE_LIMIT_WINDOW_SEC, in ticks of the clock
  Second,     \* ticks in a second: the clock is finer than Retry-After
  MaxTime,    \* bound: ticks of a behaviour
  Never       \* no time

ASSUME PipelineAssumption ==
  /\ Outcomes \subseteq {"2xx", "3xx", "4xx", "5xx", "raised"}
  /\ Limit \in Nat \ {0}
  /\ Second \in Nat \ {0}
  /\ Window \in Nat \ {0}
  /\ MaxTime \in Nat
  /\ Never \notin Nat

VARIABLES
  now,       \* the clock
  windows,   \* _REQUEST_WINDOWS: key |-> the times of the requests let through
  stage,     \* request |-> where it is
  outcome,   \* request |-> how its handler ended
  metrics,   \* OPS_METRICS
  snapshot,  \* the file the counters are saved in, or Never
  admitted,  \* history: key |-> times of requests let through since boot
  told,      \* history: key |-> when the first refused since the last let through
             \* was told to come back, or Never
  lives      \* history: the earlier processes that saved a snapshot, and
             \* whether this one has

vars == <<now, windows, stage, outcome, metrics, snapshot, admitted, told, lives>>
history == <<admitted, told, lives>>

\* What each counter counts.
Counts == [requests_total |-> {"2xx", "3xx", "4xx", "5xx", "raised"},
           requests_2xx |-> {"2xx"},
           requests_4xx |-> {"4xx"},
           requests_5xx |-> {"5xx", "raised"},
           errors_total |-> {"raised"}]

Counters == DOMAIN Counts

Metrics == [count: [Counters -> Nat], boot_count: Nat]

ASSUME SnapshotAssumption == Never \notin Metrics

\* Regression: the defaults lack a counter.
MetricsWithoutErrors == [count |-> [c \in Counters \ {"errors_total"} |-> 0], boot_count |-> 1]
DefaultMetrics == [count |-> [c \in Counters |-> 0], boot_count |-> 1]

Init ==
  /\ now = 0
  /\ windows = [k \in Keys |-> <<>>]
  /\ stage = [r \in Requests |-> "new"]
  /\ outcome = [r \in Requests |-> "none"]
  /\ metrics = DefaultMetrics
  /\ snapshot = Never
  /\ admitted = [k \in Keys |-> <<>>]
  /\ told = [k \in Keys |-> Never]
  /\ lives = [earlier |-> 0, this |-> FALSE]

\* No handler runs while counters are raised and saved.
LoopFree == \A r \in Requests : stage[r] # "counting"

Moves(r, to) == stage' = [stage EXCEPT ![r] = to]

-----------------------------------------------------------------------------
(* ops_auth_and_rate_limit_middleware *)

\* Regression: an entry on the edge of the window is dropped.
StrictlyInWindow(t) == now - t < Window
InWindow(t) == now - t <= Window

\* Entries leave from the left until one is in the window.
FirstInWindow(q) == Min({i \in DOMAIN q : InWindow(q[i])} \cup {Len(q) + 1})
Pruned(k) == SubSeq(windows[k], FirstInWindow(windows[k]), Len(windows[k]))

AtLeastOne(n) == IF n < 1 THEN 1 ELSE n

\* Regression: the age of the oldest entry instead of what is left of it.
RetryAfterAge(q) == AtLeastOne((now - q[1]) \div Second)
RetryAfter(q) == AtLeastOne((Window - (now - q[1])) \div Second)

\* A path that is not sensitive, or /ops with a token that is accepted.
PassGuard(r) ==
  /\ LoopFree
  /\ stage[r] = "new"
  /\ Moves(r, "open")
  /\ UNCHANGED <<now, windows, outcome, metrics, snapshot, history>>

\* 401: /ops without one.
Unauthorized(r) ==
  /\ LoopFree
  /\ stage[r] = "new"
  /\ Moves(r, "refused")
  /\ UNCHANGED <<now, windows, outcome, metrics, snapshot, history>>

\* _rate_limited, under the limit
Admit(r, k) ==
  /\ LoopFree
  /\ stage[r] = "new"
  /\ Len(Pruned(k)) < Limit
  /\ windows' = [windows EXCEPT ![k] = Append(Pruned(k), now)]
  /\ Moves(r, "open")
  /\ admitted' = [admitted EXCEPT ![k] = Append(@, now)]
  /\ told' = [told EXCEPT ![k] = Never]
  /\ UNCHANGED <<now, outcome, metrics, snapshot, lives>>

\* and at the limit: 429 with a Retry-After in whole seconds.
Refuse(r, k) ==
  /\ LoopFree
  /\ stage[r] = "new"
  /\ Len(Pruned(k)) >= Limit
  /\ windows' = [windows EXCEPT ![k] = Pruned(k)]
  /\ Moves(r, "refused")
  /\ told' = [told EXCEPT ![k] = IF @ = Never THEN now + Second * RetryAfter(Pruned(k)) ELSE @]
  /\ UNCHANGED <<now, outcome, metrics, snapshot, admitted, lives>>

-----------------------------------------------------------------------------
(* observability_middleware *)

\* Regression: a handler that raised is not counted as a 5xx.
RaiseAllBut5xx(m, o) ==
  [m EXCEPT !.count = [c \in Counters |->
     IF o \in Counts[c] /\ (o = "raised" => c # "requests_5xx") THEN @[c] + 1 ELSE @[c]]]
Raise(m, o) ==
  [m EXCEPT !.count = [c \in Counters |-> IF o \in Counts[c] THEN @[c] + 1 ELSE @[c]]]

\* The except and finally clauses up to the snapshot.
Count(r, o) ==
  /\ LoopFree
  /\ stage[r] = "open"
  /\ outcome' = [outcome EXCEPT ![r] = o]
  /\ metrics' = Raise(metrics, o)
  /\ Moves(r, "counting")
  /\ UNCHANGED <<now, windows, snapshot, history>>

\* persist_metrics_snapshot replaces the file in one step.
Persist(r) ==
  /\ stage[r] = "counting"
  /\ snapshot' = metrics
  /\ Moves(r, "counted")
  /\ lives' = [lives EXCEPT !.this = TRUE]
  /\ UNCHANGED <<now, windows, outcome, metrics, admitted, told>>

\* The response, or the 500 of the exception, reaches the client.
Answer(r) ==
  /\ LoopFree
  /\ stage[r] = "counted"
  /\ Moves(r, "answered")
  /\ UNCHANGED <<now, windows, outcome, metrics, snapshot, history>>

-----------------------------------------------------------------------------
\* Regression: a restart takes the counters of the snapshot, not its boot count.
BootAnew(m) == [m EXCEPT !.boot_count = 1]
NextBoot(m) == [m EXCEPT !.boot_count = @ + 1]

\* load_metrics_snapshot
Loaded == IF snapshot = Never THEN DefaultMetrics ELSE NextBoot(snapshot)

\* The process ends, in whatever state, and is started again.
Restart ==
  /\ metrics' = Loaded
  /\ windows' = [k \in Keys |-> <<>>]
  /\ stage' = [r \in Requests |->
                 IF stage[r] \in {"open", "counting", "counted"} THEN "dropped" ELSE stage[r]]
  /\ admitted' = [k \in Keys |-> <<>>]
  /\ told' = [k \in Keys |-> Never]
  /\ lives' = [earlier |-> lives.earlier + IF lives.this THEN 1 ELSE 0, this |-> FALSE]
  /\ UNCHANGED <<now, outcome, snapshot>>

Tick ==
  /\ now < MaxTime
  /\ now' = now + 1
  /\ UNCHANGED <<windows, stage, outcome, metrics, snapshot, history>>

Next ==
  \/ \E r \in Requests :
       \/ PassGuard(r) \/ Unauthorized(r)
       \/ \E k \in Keys : Admit(r, k) \/ Refuse(r, k)
       \/ \E o \in Outcomes : Count(r, o)
       \/ Persist(r) \/ Answer(r)
  \/ Restart
  \/ Tick

Spec == Init /\ [][Next]_vars

-----------------------------------------------------------------------------
(* Properties *)

TypeOK ==
  /\ now \in 0..MaxTime
  /\ windows \in [Keys -> Seq(0..MaxTime)]
  /\ stage \in [Requests -> {"new", "refused", "open", "counting", "counted", "answered", "dropped"}]
  /\ outcome \in [Requests -> Outcomes \cup {"none"}]
  /\ metrics \in Metrics
  /\ snapshot \in Metrics \cup {Never}
  /\ admitted \in [Keys -> Seq(0..MaxTime)]
  /\ told \in [Keys -> Nat \cup {Never}]
  /\ lives \in [earlier: Nat, this: BOOLEAN]

\* "Counters survive restarts": each counter has every request of its kind that
\* was ever answered, whenever processes ended, and none twice: what it has more
\* is requests whose handler ended and whose client saw the process go.
CountersSurvive ==
  \A c \in Counters :
    LET ended == {r \in Requests : outcome[r] \in Counts[c]}
        answered == {r \in ended : stage[r] = "answered"}
    IN  metrics.count[c] \in Cardinality(answered)..Cardinality(ended)

\* The boot count tells apart the processes that counted a request: it is one
\* more than the earlier ones whose counters are in the file, and a process that
\* ended before its first request leaves no trace in it.
BootsCounted == metrics.boot_count = lives.earlier + 1

\* "Per-IP rate limiting (rolling 60s window)": wherever the window is laid, no
\* more than Limit requests of a key were let through in it by one process.
WindowLimit ==
  \A k \in Keys, t \in 0..now :
    Cardinality({i \in DOMAIN admitted[k] : t <= admitted[k][i] /\ admitted[k][i] <= t + Window})
      <= Limit

\* Who was refused and comes back a second after the time of Retry-After, which is
\* cut to whole seconds, is let through unless others were meanwhile.
RetryAfterSuffices ==
  \A k \in Keys : told[k] # Never /\ now >= told[k] + Second => Len(Pruned(k)) < Limit
=============================================================================
