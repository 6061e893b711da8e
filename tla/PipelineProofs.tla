---------------------------- MODULE PipelineProofs ----------------------------
(***************************************************************************)
(* RequestPipeline for any requests and any restarts.  For the counters the *)
(* invariant follows a request through three books: what has ended, what   *)
(* the counters of this process have, and what the snapshot has.  For the  *)
(* limit it reads a window as the end of the list of all requests let      *)
(* through: what is missing from it is too old to count.                   *)
(***************************************************************************)
EXTENDS RequestPipeline, DataLemmas

InCounters == {"counting", "counted", "answered"}
InSnapshot == {"counted", "answered"}

Ended(c) == {r \in Requests : outcome[r] \in Counts[c]}
EndedAt(c, stages) == {r \in Ended(c) : stage[r] \in stages}

\* What a counter has in the file.
Saved(c) == IF snapshot = Never THEN 0 ELSE snapshot.count[c]

Types ==
  /\ stage \in [Requests -> {"new", "refused", "open", "counting", "counted", "answered", "dropped"}]
  /\ outcome \in [Requests -> Outcomes \cup {"none"}]
  /\ metrics \in Metrics
  /\ snapshot \in Metrics \cup {Never}
  /\ lives \in [earlier: Nat, this: BOOLEAN]

\* Only a request whose handler ended has an outcome.
NoneBefore == \A r \in Requests : stage[r] \in {"new", "open"} => outcome[r] = "none"

\* The boot count of the file is of the last process that wrote it.
BootsSaved ==
  /\ snapshot = Never => lives.earlier = 0 /\ ~lives.this
  /\ snapshot # Never => snapshot.boot_count = lives.earlier + IF lives.this THEN 1 ELSE 0

Books ==
  \A c \in Counters :
    /\ Cardinality(EndedAt(c, InCounters)) <= metrics.count[c]
    /\ metrics.count[c] <= Cardinality(Ended(c))
    /\ Cardinality(EndedAt(c, InSnapshot)) <= Saved(c)
    /\ Saved(c) <= Cardinality(Ended(c))

-----------------------------------------------------------------------------
(* Boots *)

BootInv == Types /\ BootsSaved /\ BootsCounted

LEMMA DefaultType == DefaultMetrics \in Metrics
  BY DEF DefaultMetrics, Metrics

LEMMA RaiseType ==
  ASSUME NEW m \in Metrics, NEW o
  PROVE  /\ Raise(m, o) \in Metrics
         /\ Raise(m, o).boot_count = m.boot_count
         /\ \A c \in Counters : Raise(m, o).count[c] = IF o \in Counts[c] THEN m.count[c] + 1 ELSE m.count[c]
  BY DEF Raise, Metrics

LEMMA BootType ==
  ASSUME NEW m \in Metrics
  PROVE  /\ NextBoot(m) \in Metrics
         /\ NextBoot(m).boot_count = m.boot_count + 1
         /\ NextBoot(m).count = m.count
  BY DEF NextBoot, Metrics

\* What a process starts with.
LEMMA LoadedFacts ==
  ASSUME Types
  PROVE  /\ Loaded \in Metrics
         /\ Loaded.boot_count = IF snapshot = Never THEN 1 ELSE snapshot.boot_count + 1
         /\ \A c \in Counters : Loaded.count[c] = Saved(c)
  <1>1. CASE snapshot = Never
    BY <1>1, DefaultType DEF Loaded, Saved, DefaultMetrics
  <1>2. CASE snapshot # Never
    <2>1. snapshot \in Metrics
      BY <1>2 DEF Types
    <2>2. QED
      BY <1>2, <2>1, BootType DEF Loaded, Saved
  <1>3. QED
    BY <1>1, <1>2

LEMMA TypesInit == Init => Types
  BY DefaultType DEF Init, Types

LEMMA TypesStep == ASSUME Types, [Next]_vars PROVE Types'
  <1> USE DEF Types
  <1>1. CASE UNCHANGED vars
    BY <1>1 DEF vars
  <1>2. ASSUME NEW r \in Requests, NEW o \in Outcomes, Count(r, o) PROVE Types'
    BY <1>2, RaiseType DEF Count, Moves, history
  <1>3. ASSUME NEW r \in Requests, Persist(r) PROVE Types'
    BY <1>3 DEF Persist, Moves
  <1>4. CASE Restart
    <2>1. Loaded \in Metrics
      BY LoadedFacts
    <2>2. QED
      BY <1>4, <2>1 DEF Restart
  <1>5. ASSUME NEW r \in Requests,
               \/ PassGuard(r) \/ Unauthorized(r) \/ Answer(r)
               \/ \E k \in Keys : Admit(r, k) \/ Refuse(r, k)
        PROVE  Types'
    BY <1>5 DEF PassGuard, Unauthorized, Answer, Admit, Refuse, Moves, history
  <1>6. CASE Tick
    BY <1>6 DEF Tick, history
  <1>7. QED
    BY <1>1, <1>2, <1>3, <1>4, <1>5, <1>6 DEF Next

LEMMA BootStep == ASSUME BootInv, [Next]_vars PROVE BootInv'
  <1>1. Types'
    BY TypesStep DEF BootInv
  <1>2. CASE UNCHANGED <<snapshot, lives>> /\ metrics'.boot_count = metrics.boot_count
    BY <1>1, <1>2 DEF BootInv, BootsSaved, BootsCounted
  <1>3. ASSUME NEW r \in Requests, Persist(r) PROVE BootInv'
    <2>1. snapshot' = metrics /\ metrics' = metrics /\ lives' = [lives EXCEPT !.this = TRUE]
      BY <1>3 DEF Persist
    <2>2. lives'.earlier = lives.earlier /\ lives'.this = TRUE
      BY <2>1 DEF BootInv, Types
    <2>3. metrics # Never
      BY SnapshotAssumption DEF BootInv, Types
    <2>4. QED
      BY <1>1, <2>1, <2>2, <2>3 DEF BootInv, BootsSaved, BootsCounted
  <1>4. CASE Restart
    <2>1. /\ metrics' = Loaded /\ snapshot' = snapshot
          /\ lives' = [earlier |-> lives.earlier + IF lives.this THEN 1 ELSE 0, this |-> FALSE]
      BY <1>4 DEF Restart
    <2>2. lives'.earlier = lives.earlier + (IF lives.this THEN 1 ELSE 0) /\ lives'.this = FALSE
      BY <2>1
    <2>3. metrics'.boot_count = IF snapshot = Never THEN 1 ELSE snapshot.boot_count + 1
      BY <2>1, LoadedFacts DEF BootInv
    <2>4. lives.earlier \in Nat /\ lives.this \in BOOLEAN
      BY DEF BootInv, Types
    <2>5. QED
      BY <1>1, <2>1, <2>2, <2>3, <2>4 DEF BootInv, BootsSaved, BootsCounted
  <1>5. ASSUME NEW r \in Requests, NEW o \in Outcomes, Count(r, o) PROVE BootInv'
    <2>1. metrics' = Raise(metrics, o) /\ UNCHANGED <<snapshot, lives>>
      BY <1>5 DEF Count, history
    <2>2. QED
      BY <1>2, <2>1, RaiseType DEF BootInv, Types
  <1>6. CASE UNCHANGED <<snapshot, lives, metrics>>
    BY <1>2, <1>6
  <1>7. QED
    BY <1>3, <1>4, <1>5, <1>6
       DEF Next, vars, PassGuard, Unauthorized, Answer, Admit, Refuse, Tick, history

\* However often the process ends, its boot count is one more than the number of
\* earlier processes whose counters are in the file.
THEOREM BootsAreCounted == Spec => []BootsCounted
  <1>1. Init => BootInv
    BY TypesInit, DefaultType DEF Init, BootInv, BootsSaved, BootsCounted, DefaultMetrics
  <1>2. BootInv /\ [Next]_vars => BootInv'
    BY BootStep
  <1>3. BootInv => BootsCounted
    BY DEF BootInv
  <1>4. QED
    BY <1>1, <1>2, <1>3, PTL DEF Spec

-----------------------------------------------------------------------------
(* Books *)

BookInv == Types /\ NoneBefore /\ Books

Finite == IsFiniteSet(Requests)

LEMMA CountedSets ==
  ASSUME Finite
  PROVE  \A S \in SUBSET Requests : IsFiniteSet(S) /\ Cardinality(S) \in Nat
  BY FS_Subset, FS_CardinalityType DEF Finite

LEMMA Fewer ==
  ASSUME Finite, NEW S \in SUBSET Requests, NEW T \in SUBSET S
  PROVE  Cardinality(T) <= Cardinality(S)
  BY CountedSets, FS_Subset

LEMMA OneMore ==
  ASSUME Finite, NEW S \in SUBSET Requests, NEW r \in Requests, r \notin S
  PROVE  Cardinality(S \cup {r}) = Cardinality(S) + 1
  BY CountedSets, FS_AddElement

\* The requests of a book are requests.
LEMMA BookSets ==
  \A c, stages : EndedAt(c, stages) \subseteq Ended(c) /\ Ended(c) \subseteq Requests
  BY DEF EndedAt, Ended

\* A counter's numbers are natural numbers.
LEMMA BookTypes ==
  ASSUME Types, Finite
  PROVE  \A c \in Counters :
           /\ metrics.count[c] \in Nat /\ Saved(c) \in Nat
           /\ Cardinality(Ended(c)) \in Nat
           /\ \A stages : Cardinality(EndedAt(c, stages)) \in Nat
  BY CountedSets, BookSets DEF Types, Metrics, Saved

LEMMA OutcomeFacts == \A c \in Counters : "none" \notin Counts[c]
  BY DEF Counters, Counts

\* A step that writes neither book and moves a request within its books.
LEMMA BooksKept ==
  ASSUME BookInv, UNCHANGED <<outcome, metrics, snapshot>>,
         \A r \in Requests : (stage'[r] \in InCounters <=> stage[r] \in InCounters)
                             /\ (stage'[r] \in InSnapshot <=> stage[r] \in InSnapshot)
  PROVE  Books'
  <1>1. ASSUME NEW c \in Counters
        PROVE  /\ Ended(c)' = Ended(c) /\ Saved(c)' = Saved(c)
               /\ EndedAt(c, InCounters)' = EndedAt(c, InCounters)
               /\ EndedAt(c, InSnapshot)' = EndedAt(c, InSnapshot)
    BY DEF Ended, EndedAt, Saved, InCounters, InSnapshot
  <1>2. QED
    BY <1>1 DEF BookInv, Books

\* The end of a handler is booked in the counters it is of.
LEMMA BooksCount ==
  ASSUME Finite, BookInv, NEW r \in Requests, NEW o \in Outcomes, Count(r, o)
  PROVE  Books'
  <1>1. /\ outcome' = [outcome EXCEPT ![r] = o] /\ stage' = [stage EXCEPT ![r] = "counting"]
        /\ metrics' = Raise(metrics, o) /\ snapshot' = snapshot /\ stage[r] = "open"
    BY DEF Count, Moves
  <1>2. outcome[r] = "none"
    BY <1>1 DEF BookInv, NoneBefore
  <1>3. ASSUME NEW c \in Counters
        PROVE  /\ r \notin Ended(c) /\ Saved(c)' = Saved(c)
               /\ Ended(c)' = IF o \in Counts[c] THEN Ended(c) \cup {r} ELSE Ended(c)
               /\ EndedAt(c, InCounters)' =
                    IF o \in Counts[c] THEN EndedAt(c, InCounters) \cup {r} ELSE EndedAt(c, InCounters)
               /\ EndedAt(c, InSnapshot)' = EndedAt(c, InSnapshot)
    <2>1. r \notin Ended(c)
      BY <1>2, OutcomeFacts DEF Ended
    <2>2. \A q \in Requests :
            /\ outcome'[q] = IF q = r THEN o ELSE outcome[q]
            /\ stage'[q] = IF q = r THEN "counting" ELSE stage[q]
      BY <1>1 DEF BookInv, Types
    <2>3. \A q \in Requests : q \in Ended(c)' <=> (q \in Ended(c) \/ (q = r /\ o \in Counts[c]))
      BY <2>1, <2>2 DEF Ended
    <2>4. "counting" \in InCounters /\ "counting" \notin InSnapshot
      BY DEF InCounters, InSnapshot
    <2>5. Ended(c)' = IF o \in Counts[c] THEN Ended(c) \cup {r} ELSE Ended(c)
      BY <2>3 DEF Ended
    <2>6. EndedAt(c, InCounters)' =
            IF o \in Counts[c] THEN EndedAt(c, InCounters) \cup {r} ELSE EndedAt(c, InCounters)
      BY <2>1, <2>2, <2>4, <2>5, BookSets DEF EndedAt, InCounters
    <2>7. EndedAt(c, InSnapshot)' = EndedAt(c, InSnapshot)
      BY <2>1, <2>2, <2>4, <2>5, BookSets DEF EndedAt, InSnapshot
    <2>8. QED
      BY <1>1, <2>1, <2>5, <2>6, <2>7 DEF Saved
  <1>4. ASSUME NEW c \in Counters
        PROVE  /\ Cardinality(EndedAt(c, InCounters)') <= metrics'.count[c]
               /\ metrics'.count[c] <= Cardinality(Ended(c)')
               /\ Cardinality(EndedAt(c, InSnapshot)') <= Saved(c)'
               /\ Saved(c)' <= Cardinality(Ended(c)')
    <2>1. metrics'.count[c] = IF o \in Counts[c] THEN metrics.count[c] + 1 ELSE metrics.count[c]
      BY <1>1, RaiseType DEF BookInv, Types
    <2>2. /\ Cardinality(EndedAt(c, InCounters)) <= metrics.count[c]
          /\ metrics.count[c] <= Cardinality(Ended(c))
          /\ Cardinality(EndedAt(c, InSnapshot)) <= Saved(c)
          /\ Saved(c) <= Cardinality(Ended(c))
      BY DEF BookInv, Books
    <2>3. /\ metrics.count[c] \in Nat /\ Saved(c) \in Nat /\ Cardinality(Ended(c)) \in Nat
          /\ Cardinality(EndedAt(c, InCounters)) \in Nat
      BY BookTypes DEF BookInv
    <2>4. CASE o \in Counts[c]
      <3>1. Ended(c)' = Ended(c) \cup {r} /\ EndedAt(c, InCounters)' = EndedAt(c, InCounters) \cup {r}
        BY <1>3, <2>4
      <3>2. /\ Ended(c) \in SUBSET Requests /\ EndedAt(c, InCounters) \in SUBSET Requests
            /\ r \notin Ended(c) /\ r \notin EndedAt(c, InCounters)
        BY <1>3, BookSets
      <3>3. Cardinality(Ended(c) \cup {r}) = Cardinality(Ended(c)) + 1
        BY <3>2, OneMore
      <3>4. Cardinality(EndedAt(c, InCounters) \cup {r}) = Cardinality(EndedAt(c, InCounters)) + 1
        BY <3>2, OneMore
      <3>5. QED
        BY <1>3, <2>1, <2>2, <2>3, <2>4, <3>1, <3>3, <3>4
    <2>5. CASE o \notin Counts[c]
      BY <1>3, <2>1, <2>2, <2>5
    <2>6. QED
      BY <2>4, <2>5
  <1>5. QED
    BY <1>4 DEF Books

\* The snapshot takes over what the counters have.
LEMMA BooksPersist ==
  ASSUME Finite, BookInv, NEW r \in Requests, Persist(r)
  PROVE  Books'
  <1>1. /\ snapshot' = metrics /\ metrics' = metrics /\ outcome' = outcome
        /\ stage[r] = "counting" /\ stage' = [stage EXCEPT ![r] = "counted"]
    BY DEF Persist, Moves
  <1>2. metrics # Never
    BY SnapshotAssumption DEF BookInv, Types
  <1>3. \A q \in Requests : stage'[q] = IF q = r THEN "counted" ELSE stage[q]
    BY <1>1 DEF BookInv, Types
  <1>4. ASSUME NEW c \in Counters
        PROVE  /\ Cardinality(EndedAt(c, InCounters)') <= metrics'.count[c]
               /\ metrics'.count[c] <= Cardinality(Ended(c)')
               /\ Cardinality(EndedAt(c, InSnapshot)') <= Saved(c)'
               /\ Saved(c)' <= Cardinality(Ended(c)')
    <2>1. Ended(c)' = Ended(c) /\ Saved(c)' = metrics.count[c]
      BY <1>1, <1>2 DEF Ended, Saved
    <2>2. EndedAt(c, InCounters)' = EndedAt(c, InCounters)
      BY <1>1, <1>3, <2>1 DEF EndedAt, InCounters, Ended
    <2>3. EndedAt(c, InSnapshot)' \subseteq EndedAt(c, InCounters)
      BY <1>1, <1>3, <2>1 DEF EndedAt, InCounters, InSnapshot, Ended
    <2>4. EndedAt(c, InCounters) \in SUBSET Requests
      BY BookSets
    <2>5. Cardinality(EndedAt(c, InSnapshot)') <= Cardinality(EndedAt(c, InCounters))
      BY <2>3, <2>4, Fewer
    <2>6. Cardinality(EndedAt(c, InCounters)) \in Nat /\ Cardinality(EndedAt(c, InSnapshot)') \in Nat
          /\ metrics.count[c] \in Nat
      BY <2>3, <2>4, CountedSets, BookTypes DEF BookInv
    <2>7. /\ Cardinality(EndedAt(c, InCounters)) <= metrics.count[c]
          /\ metrics.count[c] <= Cardinality(Ended(c))
      BY DEF BookInv, Books
    <2>8. QED
      BY <1>1, <2>1, <2>2, <2>5, <2>6, <2>7
  <1>5. QED
    BY <1>4 DEF Books

\* A new process goes on from the snapshot; the requests it drops have no answer.
LEMMA BooksRestart ==
  ASSUME Finite, BookInv, Restart
  PROVE  Books'
  <1>1. /\ metrics' = Loaded /\ snapshot' = snapshot /\ outcome' = outcome
        /\ \A q \in Requests : stage'[q] = IF stage[q] \in {"open", "counting", "counted"}
                                            THEN "dropped" ELSE stage[q]
    BY DEF Restart
  <1>2. ASSUME NEW c \in Counters
        PROVE  /\ Cardinality(EndedAt(c, InCounters)') <= metrics'.count[c]
               /\ metrics'.count[c] <= Cardinality(Ended(c)')
               /\ Cardinality(EndedAt(c, InSnapshot)') <= Saved(c)'
               /\ Saved(c)' <= Cardinality(Ended(c)')
    <2>1. Ended(c)' = Ended(c) /\ Saved(c)' = Saved(c) /\ metrics'.count[c] = Saved(c)
      BY <1>1, LoadedFacts DEF Ended, Saved, BookInv
    <2>2. /\ EndedAt(c, InCounters)' \subseteq EndedAt(c, InSnapshot)
          /\ EndedAt(c, InSnapshot)' \subseteq EndedAt(c, InSnapshot)
      BY <1>1, <2>1 DEF EndedAt, InCounters, InSnapshot, Ended
    <2>3. EndedAt(c, InSnapshot) \in SUBSET Requests
      BY BookSets
    <2>4. /\ Cardinality(EndedAt(c, InCounters)') <= Cardinality(EndedAt(c, InSnapshot))
          /\ Cardinality(EndedAt(c, InSnapshot)') <= Cardinality(EndedAt(c, InSnapshot))
      BY <2>2, <2>3, Fewer
    <2>5. /\ Cardinality(EndedAt(c, InSnapshot)) \in Nat /\ Saved(c) \in Nat
          /\ Cardinality(EndedAt(c, InSnapshot)') \in Nat /\ Cardinality(EndedAt(c, InCounters)') \in Nat
      BY <2>2, <2>3, CountedSets, BookTypes DEF BookInv
    <2>6. /\ Cardinality(EndedAt(c, InSnapshot)) <= Saved(c)
          /\ Saved(c) <= Cardinality(Ended(c))
      BY DEF BookInv, Books
    <2>7. QED
      BY <2>1, <2>4, <2>5, <2>6
  <1>3. QED
    BY <1>2 DEF Books

LEMMA BookStep == ASSUME Finite, BookInv, [Next]_vars PROVE BookInv'
  <1>1. Types'
    BY TypesStep DEF BookInv
  <1>2. NoneBefore'
    <2>1. ASSUME NEW r \in Requests, NEW o \in Outcomes, Count(r, o) PROVE NoneBefore'
      BY <2>1 DEF Count, Moves, NoneBefore, BookInv, Types
    <2>2. ASSUME NEW r \in Requests,
                 \/ Persist(r) \/ PassGuard(r) \/ Unauthorized(r) \/ Answer(r)
                 \/ \E k \in Keys : Admit(r, k) \/ Refuse(r, k)
          PROVE  NoneBefore'
      BY <2>2 DEF Persist, PassGuard, Unauthorized, Answer, Admit, Refuse, Moves, NoneBefore,
         BookInv, Types
    <2>3. CASE Restart \/ Tick \/ UNCHANGED vars
      BY <2>3 DEF Restart, Tick, vars, NoneBefore, BookInv
    <2>4. QED
      BY <2>1, <2>2, <2>3 DEF Next
  <1>3. Books'
    <2>1. ASSUME NEW r \in Requests, NEW o \in Outcomes, Count(r, o) PROVE Books'
      BY <2>1, BooksCount
    <2>2. ASSUME NEW r \in Requests, Persist(r) PROVE Books'
      BY <2>2, BooksPersist
    <2>3. CASE Restart
      BY <2>3, BooksRestart
    <2>4. ASSUME NEW r \in Requests,
                 \/ PassGuard(r) \/ Unauthorized(r) \/ Answer(r)
                 \/ \E k \in Keys : Admit(r, k) \/ Refuse(r, k)
          PROVE  Books'
      <3>1. /\ UNCHANGED <<outcome, metrics, snapshot>>
            /\ \/ stage[r] = "new" /\ \E s \in {"open", "refused"} : stage' = [stage EXCEPT ![r] = s]
               \/ stage[r] = "counted" /\ stage' = [stage EXCEPT ![r] = "answered"]
        BY <2>4 DEF PassGuard, Unauthorized, Answer, Admit, Refuse, Moves
      <3>2. \A q \in Requests : (stage'[q] \in InCounters <=> stage[q] \in InCounters)
                                /\ (stage'[q] \in InSnapshot <=> stage[q] \in InSnapshot)
        BY <3>1 DEF InCounters, InSnapshot, BookInv, Types
      <3>3. QED
        BY <3>1, <3>2, BooksKept
    <2>5. CASE Tick \/ UNCHANGED vars
      BY <2>5, BooksKept DEF Tick, vars
    <2>6. QED
      BY <2>1, <2>2, <2>3, <2>4, <2>5 DEF Next
  <1>4. QED
    BY <1>1, <1>2, <1>3 DEF BookInv

LEMMA BookInit == Init => BookInv
  <1> SUFFICES ASSUME Init PROVE BookInv
    OBVIOUS
  <1>1. ASSUME NEW c \in Counters
        PROVE  /\ Ended(c) = {} /\ EndedAt(c, InCounters) = {} /\ EndedAt(c, InSnapshot) = {}
               /\ metrics.count[c] = 0 /\ Saved(c) = 0
    <2>1. Ended(c) = {}
      BY OutcomeFacts DEF Init, Ended
    <2>2. metrics.count[c] = 0 /\ Saved(c) = 0
      BY DEF Init, DefaultMetrics, Saved
    <2>3. QED
      BY <2>1, <2>2 DEF EndedAt
  <1>2. Cardinality({}) = 0
    BY FS_EmptySet
  <1>3. Books
    BY <1>1, <1>2 DEF Books
  <1>4. QED
    BY <1>3, TypesInit DEF Init, NoneBefore, BookInv

\* Of finitely many requests, every one that was answered is in its counters and
\* none is there twice, however often the process ends.
THEOREM CountersAreKept == ASSUME Finite PROVE Spec => []CountersSurvive
  <1>1. Init => BookInv
    BY BookInit
  <1>2. BookInv /\ [Next]_vars => BookInv'
    BY BookStep
  <1>3. BookInv => CountersSurvive
    <2> SUFFICES ASSUME BookInv, NEW c \in Counters
                 PROVE  metrics.count[c] \in
                          Cardinality({r \in Ended(c) : stage[r] = "answered"})..Cardinality(Ended(c))
      BY DEF CountersSurvive, Ended
    <2> DEFINE answered == {r \in Ended(c) : stage[r] = "answered"}
    <2>1. answered \subseteq EndedAt(c, InCounters) /\ EndedAt(c, InCounters) \in SUBSET Requests
      BY BookSets DEF EndedAt, InCounters
    <2> HIDE DEF answered
    <2>2. Cardinality(answered) <= Cardinality(EndedAt(c, InCounters)) /\ Cardinality(answered) \in Nat
      BY <2>1, Fewer, CountedSets
    <2>3. /\ Cardinality(EndedAt(c, InCounters)) \in Nat /\ metrics.count[c] \in Nat
          /\ Cardinality(Ended(c)) \in Nat
      BY BookTypes DEF BookInv
    <2>4. Cardinality(EndedAt(c, InCounters)) <= metrics.count[c] /\ metrics.count[c] <= Cardinality(Ended(c))
      BY DEF BookInv, Books
    <2>5. QED
      BY <2>2, <2>3, <2>4 DEF answered
  <1>4. QED
    BY <1>1, <1>2, <1>3, PTL DEF Spec

-----------------------------------------------------------------------------
(* Windows *)

Times == 0..MaxTime

LEMMA TimesAreNumbers == Times \subseteq Nat
  BY DEF Times

WindowTypes ==
  /\ now \in Times
  /\ windows \in [Keys -> Seq(Times)]
  /\ admitted \in [Keys -> Seq(Times)]
  /\ told \in [Keys -> Nat \cup {Never}]

\* A window is the end of the list of all let through, and who is not in it is old.
IsEndOf(w, a) ==
  /\ Len(w) <= Len(a)
  /\ \A i \in 1..Len(w) : w[i] = a[Len(a) - Len(w) + i]
  /\ \A i \in 1..(Len(a) - Len(w)) : ~InWindow(a[i])

\* Times ascend, and of any Limit + 1 in a row the last is later by more than a window.
Spaced(a) ==
  \A i, j \in 1..Len(a) :
    /\ a[i] <= now
    /\ i <= j => a[i] <= a[j]
    /\ j >= i + Limit => a[j] - a[i] > Window

\* Who was refused and nobody let through since: the window is full, and its first
\* entry leaves it in time.
Promised(w, t) ==
  /\ Len(w) <= Limit
  /\ t # Never => Len(w) = Limit /\ t + Second > w[1] + Window

WindowInv ==
  /\ WindowTypes
  /\ \A k \in Keys : /\ IsEndOf(windows[k], admitted[k])
                     /\ Spaced(admitted[k])
                     /\ Promised(windows[k], told[k])

\* What is left of a window is its end, and what has gone was too old.
Left(p, q) ==
  /\ p \in Seq(Times)
  /\ Len(p) <= Len(q)
  /\ \A i \in 1..Len(p) : p[i] = q[(Len(q) - Len(p)) + i]
  /\ \A i \in 1..(Len(q) - Len(p)) : ~InWindow(q[i])
  /\ Len(p) > 0 => InWindow(p[1])

LEMMA PrunedFacts ==
  ASSUME WindowTypes, NEW k \in Keys
  PROVE  Left(Pruned(k), windows[k])
  <1> DEFINE q == windows[k]
             p == Pruned(k)
             in == {i \in DOMAIN q : InWindow(q[i])}
             first == FirstInWindow(q)
  <1>1. q \in Seq(Times) /\ p = SubSeq(q, first, Len(q))
    BY DEF WindowTypes, Pruned
  <1> SUFFICES Left(p, q)
    OBVIOUS
  <1> HIDE DEF p, q
  <1>2. Len(q) \in Nat /\ DOMAIN q = 1..Len(q)
    BY <1>1, LenProperties
  <1>3. /\ first \in in \cup {Len(q) + 1}
        /\ \A i \in in \cup {Len(q) + 1} : first <= i
    <2>1. in \cup {Len(q) + 1} \in SUBSET Nat /\ in \cup {Len(q) + 1} # {}
      BY <1>2
    <2>2. QED
      BY <2>1, MinFacts DEF FirstInWindow
  <1>4. first \in 1..(Len(q) + 1)
    BY <1>2, <1>3
  <1> HIDE DEF first
  <1>5. \A i \in first..Len(q) : q[i] \in Times
    BY <1>1, <1>2, <1>4, ElementOfSeq
  <1>6. /\ p \in Seq(Times)
        /\ Len(p) = IF first <= Len(q) THEN Len(q) - first + 1 ELSE 0
        /\ \A i \in 1..(Len(q) - first + 1) : p[i] = q[first + i - 1]
    BY <1>1, <1>2, <1>4, <1>5, SubSeqProperties
  <1>7. Len(p) = Len(q) - first + 1
    BY <1>2, <1>4, <1>6
  <1>8. \A i \in 1..(first - 1) : ~InWindow(q[i])
    BY <1>2, <1>3, <1>4
  <1>9. Len(p) > 0 => InWindow(p[1])
    <2> SUFFICES ASSUME Len(p) > 0 PROVE InWindow(p[1])
      OBVIOUS
    <2>1. first <= Len(q) /\ p[1] = q[first]
      BY <1>2, <1>4, <1>6, <1>7
    <2>2. QED
      BY <1>2, <1>3, <2>1
  <1>10. \A i \in 1..Len(p) : p[i] = q[(Len(q) - Len(p)) + i]
    <2> SUFFICES ASSUME NEW i \in 1..Len(p) PROVE p[i] = q[(Len(q) - Len(p)) + i]
      OBVIOUS
    <2>1. p[i] = q[first + i - 1]
      BY <1>6, <1>7
    <2>2. (Len(q) - Len(p)) + i = first + i - 1
      BY <1>2, <1>4, <1>7
    <2>3. QED
      BY <2>1, <2>2
  <1>11. \A i \in 1..(Len(q) - Len(p)) : ~InWindow(q[i])
    BY <1>2, <1>4, <1>7, <1>8
  <1>12. Len(p) <= Len(q)
    BY <1>2, <1>4, <1>7
  <1>13. QED
    BY <1>6, <1>9, <1>10, <1>11, <1>12 DEF Left

\* A refused client is told of a time less than a second before the first entry
\* leaves the window, or a later one.
LEMMA RetryAfterFacts ==
  ASSUME WindowTypes, NEW q \in Seq(Times), Len(q) > 0, InWindow(q[1])
  PROVE  /\ RetryAfter(q) \in Nat
         /\ now + Second * RetryAfter(q) + Second > q[1] + Window
  <1>1. q[1] \in Nat /\ now \in Nat /\ Second \in Nat \ {0} /\ Window \in Nat
    <2>1. 1 \in 1..Len(q)
      BY LenProperties
    <2>2. q[1] \in Times
      BY <2>1, ElementOfSeq
    <2>3. QED
      BY <2>2, TimesAreNumbers, PipelineAssumption DEF WindowTypes
  <1> DEFINE left == Window - (now - q[1])
  <1>2. left \in Nat
    BY <1>1, PipelineAssumption DEF InWindow
  <1>3. left \div Second \in Nat /\ left < Second * (left \div Second) + Second
    BY <1>1, <1>2, WholeSeconds
  <1>4. RetryAfter(q) = IF left \div Second < 1 THEN 1 ELSE left \div Second
    BY DEF RetryAfter, AtLeastOne
  <1>5. RetryAfter(q) \in Nat /\ left < Second * RetryAfter(q) + Second
    <2> DEFINE d == left \div Second
    <2> HIDE DEF left, d
    <2>1. CASE d < 1
      <3>1. d = 0
        BY <1>3, <2>1 DEF d
      <3>2. RetryAfter(q) = 1 /\ left < Second * 0 + Second
        BY <1>3, <1>4, <3>1 DEF d
      <3>3. QED
        BY <1>1, <1>2, <3>2
    <2>2. CASE ~(d < 1)
      <3>1. RetryAfter(q) = d
        BY <1>4, <2>2 DEF d
      <3>2. QED
        BY <1>3, <3>1 DEF d
    <2>3. QED
      BY <2>1, <2>2
  <1>6. Second * RetryAfter(q) \in Nat
    BY <1>1, <1>5
  <1> DEFINE wait == Second * RetryAfter(q)
  <1> HIDE DEF wait
  <1>7. left < wait + Second /\ wait \in Nat
    BY <1>5, <1>6 DEF wait
  <1>8. now + wait + Second > q[1] + Window
    BY <1>1, <1>7
  <1>9. QED
    BY <1>5, <1>8 DEF wait

LEMMA WindowInit == Init => WindowInv
  <1> SUFFICES ASSUME Init PROVE WindowInv
    OBVIOUS
  <1>1. \A k \in Keys : windows[k] = <<>> /\ admitted[k] = <<>> /\ told[k] = Never
    BY DEF Init
  <1>2. WindowTypes
    <2>1. 0 \in Times /\ <<>> \in Seq(Times)
      BY PipelineAssumption, EmptySeq DEF Times
    <2>2. QED
      BY <2>1 DEF Init, WindowTypes
  <1>3. IsEndOf(<<>>, <<>>) /\ Spaced(<<>>) /\ Promised(<<>>, Never)
    BY PipelineAssumption DEF IsEndOf, Spaced, Promised
  <1>4. QED
    BY <1>1, <1>2, <1>3 DEF WindowInv

\* The list and the window stay as they are while time goes on.
LEMMA TimePasses ==
  ASSUME now \in Nat, now' \in Nat, now <= now', NEW a \in Seq(Nat), NEW w \in Seq(Nat),
         IsEndOf(w, a), Spaced(a)
  PROVE  /\ Len(w) <= Len(a)
         /\ \A i \in 1..Len(w) : w[i] = a[Len(a) - Len(w) + i]
         /\ \A i \in 1..(Len(a) - Len(w)) : ~(now' - a[i] <= Window)
         /\ \A i, j \in 1..Len(a) :
              /\ a[i] <= now'
              /\ i <= j => a[i] <= a[j]
              /\ j >= i + Limit => a[j] - a[i] > Window
  <1>1. Window \in Nat /\ Len(a) \in Nat /\ Len(w) \in Nat /\ \A i \in 1..Len(a) : a[i] \in Nat
    BY PipelineAssumption, LenProperties, ElementOfSeq
  <1>2. \A i \in 1..(Len(a) - Len(w)) : i \in 1..Len(a)
    BY <1>1
  <1>3. \A i \in 1..(Len(a) - Len(w)) : ~(now' - a[i] <= Window)
    BY <1>1, <1>2 DEF IsEndOf, InWindow
  <1>4. \A i \in 1..Len(a) : a[i] <= now'
    BY <1>1 DEF Spaced
  <1>5. QED
    BY <1>3, <1>4 DEF IsEndOf, Spaced

\* A step that lets nobody through and refuses nobody, and may move the clock.
LEMMA WindowKept ==
  ASSUME WindowInv, UNCHANGED <<windows, admitted, told>>, now' \in Times, now <= now'
  PROVE  WindowInv'
  <1>1. now \in Nat /\ now' \in Nat
    BY TimesAreNumbers DEF WindowInv, WindowTypes
  <1>2. WindowTypes'
    BY DEF WindowInv, WindowTypes
  <1>3. ASSUME NEW k \in Keys
        PROVE  /\ IsEndOf(windows[k], admitted[k])'
               /\ Spaced(admitted[k])'
               /\ Promised(windows[k], told[k])'
    <2> DEFINE a == admitted[k]
               w == windows[k]
    <2>1. a \in Seq(Times) /\ w \in Seq(Times)
      BY DEF WindowInv, WindowTypes
    <2>2. a \in Seq(Nat) /\ w \in Seq(Nat)
      <3> HIDE DEF a, w
      <3> QED
        BY <2>1, TimesAreNumbers, SeqMonotonic
    <2>3. IsEndOf(w, a) /\ Spaced(a) /\ Promised(w, told[k])
      BY DEF WindowInv
    <2>4. w' = w /\ a' = a /\ told'[k] = told[k]
      OBVIOUS
    <2> HIDE DEF a, w
    <2>5. IsEndOf(w, a)' /\ Spaced(a)'
      BY <1>1, <2>2, <2>3, <2>4, TimePasses DEF IsEndOf, Spaced, InWindow
    <2>6. Promised(w, told[k])'
      BY <2>3, <2>4 DEF Promised
    <2>7. QED
      BY <2>5, <2>6 DEF a, w
  <1>4. QED
    BY <1>2, <1>3 DEF WindowInv

\* Who is let through is the last of the list, and the Limit-th before it is old.
LEMMA OneMoreIn ==
  ASSUME now \in Nat, NEW a \in Seq(Nat), NEW q \in Seq(Nat), NEW p \in Seq(Nat),
         IsEndOf(q, a), Spaced(a), Len(p) < Limit, Len(p) <= Len(q),
         \A i \in 1..Len(p) : p[i] = q[(Len(q) - Len(p)) + i],
         \A i \in 1..(Len(q) - Len(p)) : ~InWindow(q[i])
  PROVE  IsEndOf(Append(p, now), Append(a, now)) /\ Spaced(Append(a, now))
  <1> DEFINE b == Append(a, now)
             w == Append(p, now)
             gone == Len(a) - Len(p)
  <1>1. /\ Len(a) \in Nat /\ Len(q) \in Nat /\ Len(p) \in Nat /\ Limit \in Nat /\ Window \in Nat
        /\ \A i \in 1..Len(a) : a[i] \in Nat
    BY PipelineAssumption, LenProperties, ElementOfSeq
  <1>2. /\ Len(b) = Len(a) + 1 /\ b[Len(a) + 1] = now
        /\ \A i \in 1..Len(a) : b[i] = a[i]
    BY AppendProperties
  <1>3. /\ Len(w) = Len(p) + 1 /\ w[Len(p) + 1] = now
        /\ \A i \in 1..Len(p) : w[i] = p[i]
    BY AppendProperties
  <1>4. /\ Len(q) <= Len(a)
        /\ \A i \in 1..Len(q) : q[i] = a[(Len(a) - Len(q)) + i]
        /\ \A i \in 1..(Len(a) - Len(q)) : ~InWindow(a[i])
    BY DEF IsEndOf
  <1> HIDE DEF b, w
  <1>5. \A i \in 1..gone : ~InWindow(a[i])
    <2> SUFFICES ASSUME NEW i \in 1..gone, i > Len(a) - Len(q) PROVE ~InWindow(a[i])
      BY <1>1, <1>4
    <2> DEFINE m == i - (Len(a) - Len(q))
    <2>1. m \in 1..(Len(q) - Len(p)) /\ m \in 1..Len(q) /\ (Len(a) - Len(q)) + m = i
      BY <1>1
    <2> HIDE DEF m
    <2>2. a[i] = q[m]
      BY <1>4, <2>1
    <2>3. QED
      BY <2>1, <2>2
  <1>6. \A i \in 1..Len(p) : p[i] = a[gone + i]
    <2> SUFFICES ASSUME NEW i \in 1..Len(p) PROVE p[i] = a[gone + i]
      OBVIOUS
    <2> DEFINE m == (Len(q) - Len(p)) + i
    <2>1. m \in 1..Len(q) /\ (Len(a) - Len(q)) + m = gone + i
      BY <1>1
    <2>2. p[i] = q[m]
      OBVIOUS
    <2> HIDE DEF m
    <2>3. QED
      BY <1>4, <2>1, <2>2
  <1>7. gone \in Nat /\ Len(b) - Len(w) = gone /\ gone + (Len(p) + 1) = Len(a) + 1
    BY <1>1, <1>2, <1>3, <1>4
  <1>8. \A i \in 1..Len(w) : w[i] = b[gone + i]
    <2> SUFFICES ASSUME NEW i \in 1..Len(w) PROVE w[i] = b[gone + i]
      OBVIOUS
    <2>1. CASE i = Len(p) + 1
      BY <1>2, <1>3, <1>7, <2>1
    <2>2. CASE i \in 1..Len(p)
      <3>1. gone + i \in 1..Len(a)
        BY <1>1, <1>7, <2>2
      <3>2. QED
        BY <1>2, <1>3, <1>6, <2>2, <3>1
    <2>3. i = Len(p) + 1 \/ i \in 1..Len(p)
      <3>1. Len(w) = Len(p) + 1 /\ Len(p) \in Nat
        BY <1>1, <1>3
      <3>2. i \in 1..(Len(p) + 1)
        BY <3>1
      <3> HIDE DEF gone
      <3>3. QED
        BY <3>1, <3>2
    <2>4. QED
      BY <2>1, <2>2, <2>3
  <1>9. \A i \in 1..gone : ~InWindow(b[i])
    <2>1. \A i \in 1..gone : i \in 1..Len(a)
      BY <1>1, <1>7
    <2>2. QED
      BY <1>2, <1>5, <2>1
  <1>10. IsEndOf(w, b)
    <2>1. Len(w) <= Len(b)
      BY <1>1, <1>2, <1>3, <1>7
    <2>2. QED
      BY <1>7, <1>8, <1>9, <2>1 DEF IsEndOf
  <1>11. ASSUME NEW i \in 1..Len(b), NEW j \in 1..Len(b)
         PROVE  /\ b[i] <= now
                /\ i <= j => b[i] <= b[j]
                /\ j >= i + Limit => b[j] - b[i] > Window
    <2>1. CASE i \in 1..Len(a) /\ j \in 1..Len(a)
      BY <1>2, <2>1 DEF Spaced
    <2>2. CASE i \in 1..Len(a) /\ j = Len(a) + 1
      <3>1. b[i] = a[i] /\ b[j] = now /\ a[i] \in Nat /\ a[i] <= now
        BY <1>1, <1>2, <2>2 DEF Spaced
      <3>2. ASSUME j >= i + Limit PROVE now - a[i] > Window
        <4>1. i \in 1..gone
          BY <1>1, <2>2, <3>2
        <4>2. ~InWindow(a[i])
          BY <1>5, <4>1
        <4>3. QED
          BY <1>1, <3>1, <4>2 DEF InWindow
      <3>3. QED
        BY <3>1, <3>2
    <2>3. CASE i = Len(a) + 1
      <3>1. b[i] = now /\ (i <= j => j = i) /\ ~(j >= i + Limit)
        BY <1>1, <1>2, <2>3, PipelineAssumption
      <3>2. QED
        BY <3>1
    <2>4. QED
      BY <1>1, <1>2, <2>1, <2>2, <2>3
  <1>12. QED
    BY <1>10, <1>11 DEF Spaced, b, w

\* What is left of the window is still an end of the list.
LEMMA FewerIn ==
  ASSUME now \in Nat, NEW a \in Seq(Nat), NEW q \in Seq(Nat), NEW p \in Seq(Nat),
         IsEndOf(q, a), Len(p) <= Len(q),
         \A i \in 1..Len(p) : p[i] = q[(Len(q) - Len(p)) + i],
         \A i \in 1..(Len(q) - Len(p)) : ~InWindow(q[i])
  PROVE  IsEndOf(p, a)
  <1> DEFINE gone == Len(a) - Len(p)
  <1>1. Len(a) \in Nat /\ Len(q) \in Nat /\ Len(p) \in Nat
    BY LenProperties
  <1>2. /\ Len(q) <= Len(a)
        /\ \A i \in 1..Len(q) : q[i] = a[(Len(a) - Len(q)) + i]
        /\ \A i \in 1..(Len(a) - Len(q)) : ~InWindow(a[i])
    BY DEF IsEndOf
  <1>3. \A i \in 1..gone : ~InWindow(a[i])
    <2> SUFFICES ASSUME NEW i \in 1..gone, i > Len(a) - Len(q) PROVE ~InWindow(a[i])
      BY <1>1, <1>2
    <2> DEFINE m == i - (Len(a) - Len(q))
    <2>1. m \in 1..(Len(q) - Len(p)) /\ m \in 1..Len(q) /\ (Len(a) - Len(q)) + m = i
      BY <1>1
    <2> HIDE DEF m
    <2>2. a[i] = q[m]
      BY <1>2, <2>1
    <2>3. QED
      BY <2>1, <2>2
  <1>4. \A i \in 1..Len(p) : p[i] = a[gone + i]
    <2> SUFFICES ASSUME NEW i \in 1..Len(p) PROVE p[i] = a[gone + i]
      OBVIOUS
    <2> DEFINE m == (Len(q) - Len(p)) + i
    <2>1. m \in 1..Len(q) /\ (Len(a) - Len(q)) + m = gone + i
      BY <1>1
    <2>2. p[i] = q[m]
      OBVIOUS
    <2> HIDE DEF m
    <2>3. QED
      BY <1>2, <2>1, <2>2
  <1>5. Len(p) <= Len(a)
    BY <1>1, <1>2
  <1>6. QED
    BY <1>3, <1>4, <1>5 DEF IsEndOf

LEMMA InvFacts ==
  ASSUME WindowInv, NEW k \in Keys
  PROVE  /\ WindowTypes /\ now \in Nat
         /\ admitted[k] \in Seq(Nat) /\ windows[k] \in Seq(Nat) /\ Pruned(k) \in Seq(Nat)
         /\ Pruned(k) \in Seq(Times)
         /\ IsEndOf(windows[k], admitted[k]) /\ Spaced(admitted[k]) /\ Promised(windows[k], told[k])
         /\ Left(Pruned(k), windows[k])
  <1>1. WindowTypes /\ IsEndOf(windows[k], admitted[k]) /\ Spaced(admitted[k]) /\ Promised(windows[k], told[k])
    BY DEF WindowInv
  <1>2. Left(Pruned(k), windows[k])
    BY <1>1, PrunedFacts
  <1>3. /\ now \in Nat /\ admitted[k] \in Seq(Times) /\ windows[k] \in Seq(Times)
        /\ Pruned(k) \in Seq(Times)
    BY <1>1, <1>2, TimesAreNumbers DEF WindowTypes, Left
  <1>4. \A q \in Seq(Times) : q \in Seq(Nat)
    BY TimesAreNumbers, SeqMonotonic
  <1>5. QED
    BY <1>1, <1>2, <1>3, <1>4

LEMMA WindowAdmit ==
  ASSUME WindowInv, NEW r \in Requests, NEW k \in Keys, Admit(r, k)
  PROVE  WindowInv'
  <1> DEFINE p == Pruned(k)
             q == windows[k]
             a == admitted[k]
  <1>1. /\ Len(p) < Limit /\ now' = now
        /\ windows' = [windows EXCEPT ![k] = Append(p, now)]
        /\ admitted' = [admitted EXCEPT ![k] = Append(a, now)]
        /\ told' = [told EXCEPT ![k] = Never]
    BY DEF Admit
  <1>2. /\ WindowTypes /\ now \in Nat /\ now \in Times
        /\ a \in Seq(Nat) /\ q \in Seq(Nat) /\ p \in Seq(Nat)
        /\ a \in Seq(Times) /\ p \in Seq(Times)
        /\ IsEndOf(q, a) /\ Spaced(a) /\ Left(p, q)
    BY InvFacts DEF WindowTypes
  <1>3. /\ windows'[k] = Append(p, now) /\ admitted'[k] = Append(a, now) /\ told'[k] = Never
        /\ \A x \in Keys \ {k} : /\ windows'[x] = windows[x] /\ admitted'[x] = admitted[x]
                                 /\ told'[x] = told[x]
    BY <1>1, <1>2 DEF WindowTypes
  <1> HIDE DEF p, q, a
  <1>4. /\ Append(p, now) \in Seq(Times) /\ Len(Append(p, now)) = Len(p) + 1
        /\ Append(a, now) \in Seq(Times)
    BY <1>2, AppendProperties
  <1>5. WindowTypes'
    BY <1>1, <1>2, <1>4 DEF WindowTypes
  <1>6. IsEndOf(Append(p, now), Append(a, now)) /\ Spaced(Append(a, now))
    BY <1>1, <1>2, OneMoreIn DEF Left
  <1>7. Promised(Append(p, now), Never)
    <2>1. Len(p) \in Nat /\ Limit \in Nat
      BY <1>2, LenProperties, PipelineAssumption
    <2>2. QED
      BY <1>1, <1>4, <2>1 DEF Promised
  <1>8. ASSUME NEW x \in Keys
        PROVE  /\ IsEndOf(windows[x], admitted[x])'
               /\ Spaced(admitted[x])'
               /\ Promised(windows[x], told[x])'
    <2>1. CASE x = k
      <3> DEFINE b == Append(a, now)
                 w == Append(p, now)
      <3>1. windows'[x] = w /\ admitted'[x] = b /\ told'[x] = Never
        BY <1>3, <2>1
      <3>2. IsEndOf(w, b) /\ Spaced(b) /\ Promised(w, Never)
        BY <1>6, <1>7
      <3> HIDE DEF b, w
      <3>3. IsEndOf(windows[x], admitted[x])'
        BY <1>1, <3>1, <3>2 DEF IsEndOf, InWindow
      <3>4. Spaced(admitted[x])'
        BY <1>1, <3>1, <3>2 DEF Spaced
      <3>5. Promised(windows[x], told[x])'
        BY <3>1, <3>2 DEF Promised
      <3>6. QED
        BY <3>3, <3>4, <3>5
    <2>2. CASE x # k
      <3>1. IsEndOf(windows[x], admitted[x]) /\ Spaced(admitted[x]) /\ Promised(windows[x], told[x])
        BY InvFacts
      <3>2. windows'[x] = windows[x] /\ admitted'[x] = admitted[x] /\ told'[x] = told[x]
        BY <1>3, <2>2
      <3>3. QED
        BY <1>1, <3>1, <3>2 DEF IsEndOf, Spaced, InWindow, Promised
    <2>3. QED
      BY <2>1, <2>2
  <1>9. QED
    BY <1>5, <1>8 DEF WindowInv

\* At the limit nothing has left the window since the first refusal.
LEMMA WindowRefuse ==
  ASSUME WindowInv, NEW r \in Requests, NEW k \in Keys, Refuse(r, k)
  PROVE  WindowInv'
  <1> DEFINE p == Pruned(k)
             q == windows[k]
             a == admitted[k]
             until == IF told[k] = Never THEN now + Second * RetryAfter(p) ELSE told[k]
  <1>1. /\ Len(p) >= Limit /\ now' = now /\ admitted' = admitted
        /\ windows' = [windows EXCEPT ![k] = p]
        /\ told' = [told EXCEPT ![k] = until]
    BY DEF Refuse
  <1>2. /\ WindowTypes /\ now \in Nat
        /\ a \in Seq(Nat) /\ q \in Seq(Nat) /\ p \in Seq(Nat) /\ p \in Seq(Times)
        /\ IsEndOf(q, a) /\ Left(p, q) /\ Promised(q, told[k])
    BY InvFacts
  <1>3. told[k] \in Nat \cup {Never}
    BY <1>2 DEF WindowTypes
  <1>4. /\ windows'[k] = p /\ told'[k] = until
        /\ \A x \in Keys \ {k} : windows'[x] = windows[x] /\ told'[x] = told[x]
    BY <1>1, <1>2 DEF WindowTypes
  <1> HIDE DEF p, q, a
  <1>5. Len(p) \in Nat /\ Len(q) \in Nat /\ Limit \in Nat \ {0} /\ Second \in Nat
    BY <1>2, LenProperties, PipelineAssumption
  <1>6. Len(p) = Limit /\ Len(q) = Limit /\ p[1] = q[1] /\ InWindow(p[1])
    <2>1. Len(p) <= Len(q) /\ Len(q) <= Limit
      BY <1>2 DEF Left, Promised
    <2>2. Len(p) = Limit /\ Len(q) = Limit
      BY <1>1, <1>5, <2>1
    <2>3. 1 \in 1..Len(p) /\ (Len(q) - Len(p)) + 1 = 1 /\ Len(p) > 0
      BY <1>5, <2>2
    <2>4. QED
      BY <1>2, <2>2, <2>3 DEF Left
  <1>7. /\ RetryAfter(p) \in Nat
        /\ now + Second * RetryAfter(p) + Second > p[1] + Window
    BY <1>2, <1>5, <1>6, RetryAfterFacts
  <1>8. now + Second * RetryAfter(p) \in Nat
    <2> DEFINE wait == Second * RetryAfter(p)
    <2>1. wait \in Nat
      BY <1>5, <1>7
    <2> HIDE DEF wait
    <2>2. now + wait \in Nat
      BY <1>2, <2>1
    <2>3. QED
      BY <2>2 DEF wait
  <1>9. until \in Nat \cup {Never} /\ Promised(p, until)
    <2>1. CASE told[k] = Never
      BY <1>6, <1>7, <1>8, <2>1, <1>5 DEF Promised
    <2>2. CASE told[k] # Never
      BY <1>2, <1>3, <1>5, <1>6, <2>2 DEF Promised
    <2>3. QED
      BY <2>1, <2>2
  <1> HIDE DEF until
  <1>10. WindowTypes'
    BY <1>1, <1>2, <1>9 DEF WindowTypes
  <1>11. IsEndOf(p, a)
    BY <1>2, FewerIn DEF Left
  <1>12. ASSUME NEW x \in Keys
         PROVE  /\ IsEndOf(windows[x], admitted[x])'
                /\ Spaced(admitted[x])'
                /\ Promised(windows[x], told[x])'
    <2>1. IsEndOf(windows[x], admitted[x]) /\ Spaced(admitted[x]) /\ Promised(windows[x], told[x])
      BY InvFacts
    <2>2. Spaced(admitted[x])'
      BY <1>1, <2>1 DEF Spaced
    <2>3. CASE x = k
      BY <1>1, <1>4, <1>9, <1>11, <2>2, <2>3 DEF IsEndOf, InWindow, Promised, a
    <2>4. CASE x # k
      <3>1. windows'[x] = windows[x] /\ told'[x] = told[x]
        BY <1>4, <2>4
      <3>2. QED
        BY <1>1, <2>1, <2>2, <3>1 DEF IsEndOf, InWindow, Promised
    <2>5. QED
      BY <2>3, <2>4
  <1>13. QED
    BY <1>10, <1>12 DEF WindowInv

LEMMA WindowRestart == ASSUME WindowInv, Restart PROVE WindowInv'
  <1>1. /\ now' = now
        /\ windows' = [k \in Keys |-> <<>>] /\ admitted' = [k \in Keys |-> <<>>]
        /\ told' = [k \in Keys |-> Never]
    BY DEF Restart
  <1>2. <<>> \in Seq(Times)
    BY EmptySeq
  <1>3. WindowTypes'
    BY <1>1, <1>2 DEF WindowInv, WindowTypes
  <1>4. \A k \in Keys : windows'[k] = <<>> /\ admitted'[k] = <<>> /\ told'[k] = Never
    BY <1>1
  <1>5. ASSUME NEW k \in Keys
        PROVE  /\ IsEndOf(windows[k], admitted[k])'
               /\ Spaced(admitted[k])'
               /\ Promised(windows[k], told[k])'
    <2>1. windows'[k] = <<>> /\ admitted'[k] = <<>> /\ told'[k] = Never
      BY <1>4
    <2>2. IsEndOf(<<>>, <<>>) /\ Spaced(<<>>) /\ Promised(<<>>, Never)
      BY PipelineAssumption DEF IsEndOf, Spaced, Promised
    <2>3. IsEndOf(windows[k], admitted[k])'
      BY <1>1, <2>1, <2>2 DEF IsEndOf, InWindow
    <2>4. Spaced(admitted[k])'
      BY <1>1, <2>1, <2>2 DEF Spaced
    <2>5. Promised(windows[k], told[k])'
      BY <2>1, <2>2 DEF Promised
    <2>6. QED
      BY <2>3, <2>4, <2>5
  <1>6. QED
    BY <1>3, <1>5 DEF WindowInv

LEMMA WindowStep == ASSUME WindowInv, [Next]_vars PROVE WindowInv'
  <1>1. ASSUME NEW r \in Requests, NEW k \in Keys, Admit(r, k) PROVE WindowInv'
    BY <1>1, WindowAdmit
  <1>2. ASSUME NEW r \in Requests, NEW k \in Keys, Refuse(r, k) PROVE WindowInv'
    BY <1>2, WindowRefuse
  <1>3. CASE Restart
    BY <1>3, WindowRestart
  <1>4. CASE Tick
    <2>1. now \in Nat /\ MaxTime \in Nat
      BY TimesAreNumbers, PipelineAssumption DEF WindowInv, WindowTypes
    <2>2. now' \in Times /\ now <= now' /\ UNCHANGED <<windows, admitted, told>>
      BY <1>4, <2>1 DEF Tick, history, Times
    <2>3. QED
      BY <2>2, WindowKept
  <1>5. CASE UNCHANGED <<now, windows, admitted, told>>
    <2>1. now' \in Times /\ now <= now'
      BY <1>5, TimesAreNumbers DEF WindowInv, WindowTypes
    <2>2. QED
      BY <1>5, <2>1, WindowKept
  <1>6. QED
    BY <1>1, <1>2, <1>3, <1>4, <1>5
       DEF Next, vars, history, PassGuard, Unauthorized, Count, Persist, Answer

LEMMA WindowInvariance == Spec => []WindowInv
  <1>1. WindowInv /\ [Next]_vars => WindowInv'
    BY WindowStep
  <1>2. QED
    BY <1>1, WindowInit, PTL DEF Spec

\* Every state of the middlewares is of its type.
THEOREM TypeCorrectness == Spec => []TypeOK
  <1>1. Types /\ [Next]_vars => Types'
    BY TypesStep
  <1>2. Types /\ WindowInv => TypeOK
    BY DEF Types, WindowInv, WindowTypes, Times, TypeOK
  <1>3. QED
    BY <1>1, <1>2, TypesInit, WindowInvariance, PTL DEF Spec

\* Wherever the window is laid, whatever the limit and the window are, no more than
\* Limit requests of a key were let through in it by one process.
THEOREM WindowsAreLimited == Spec => []WindowLimit
  <1>1. WindowInv => WindowLimit
    <2> SUFFICES ASSUME WindowInv, NEW k \in Keys, NEW t \in 0..now
                 PROVE  Cardinality({i \in DOMAIN admitted[k] :
                          t <= admitted[k][i] /\ admitted[k][i] <= t + Window}) <= Limit
      BY DEF WindowLimit
    <2> DEFINE a == admitted[k]
               S == {i \in DOMAIN a : t <= a[i] /\ a[i] <= t + Window}
    <2>1. a \in Seq(Nat) /\ Spaced(a)
      BY InvFacts
    <2> HIDE DEF a
    <2>2. /\ Len(a) \in Nat /\ DOMAIN a = 1..Len(a) /\ \A i \in 1..Len(a) : a[i] \in Nat
          /\ Limit \in Nat /\ Window \in Nat
      BY <2>1, LenProperties, ElementOfSeq, PipelineAssumption
    <2>3. ASSUME NEW i \in S, NEW j \in S PROVE j < i + Limit
      <3>1. i \in 1..Len(a) /\ j \in 1..Len(a) /\ a[i] >= t /\ a[j] <= t + Window
        BY <2>2
      <3>2. j >= i + Limit => a[j] - a[i] > Window
        BY <2>1, <3>1 DEF Spaced
      <3>3. QED
        BY <2>2, <3>1, <3>2
    <2>4. S \in SUBSET Nat
      BY <2>2
    <2> HIDE DEF S
    <2>5. Cardinality(S) <= Limit
      BY <2>2, <2>3, <2>4, CloseIndexes
    <2>6. QED
      BY <2>5 DEF S, a
  <1>2. QED
    BY <1>1, WindowInvariance, PTL

\* Who comes back a second after the time of Retry-After finds room, unless others
\* were let through meanwhile.
THEOREM RetryAfterIsEnough == Spec => []RetryAfterSuffices
  <1>1. WindowInv => RetryAfterSuffices
    <2> SUFFICES ASSUME WindowInv, NEW k \in Keys, told[k] # Never, now >= told[k] + Second,
                        Len(Pruned(k)) >= Limit
                 PROVE  FALSE
      <3>1. \A k \in Keys : Len(Pruned(k)) \in Nat /\ Limit \in Nat
        BY InvFacts, LenProperties, PipelineAssumption
      <3>2. QED
        BY <3>1 DEF RetryAfterSuffices
    <2> DEFINE p == Pruned(k)
               q == windows[k]
               t == told[k]
    <2>1. /\ now \in Nat /\ q \in Seq(Nat) /\ p \in Seq(Nat) /\ Left(p, q) /\ Promised(q, t)
          /\ t \in Nat
      BY InvFacts DEF WindowTypes
    <2> HIDE DEF p, q, t
    <2>2. Len(p) \in Nat /\ Len(q) = Limit /\ Limit \in Nat \ {0} /\ Second \in Nat /\ Window \in Nat
      BY <2>1, LenProperties, PipelineAssumption DEF Promised, t
    <2>3. Len(p) = Len(q) /\ 1 \in 1..Len(p) /\ (Len(q) - Len(p)) + 1 = 1
      BY <2>1, <2>2 DEF Left, p
    <2>4. p[1] = q[1] /\ InWindow(p[1])
      BY <2>1, <2>2, <2>3 DEF Left
    <2>5. q[1] \in Nat
      BY <2>1, <2>3, ElementOfSeq
    <2>6. t + Second > q[1] + Window /\ now >= t + Second
      BY <2>1 DEF Promised, t
    <2>7. QED
      BY <2>1, <2>2, <2>4, <2>5, <2>6 DEF InWindow
  <1>2. QED
    BY <1>1, WindowInvariance, PTL
=============================================================================
