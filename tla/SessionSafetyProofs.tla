------------------------- MODULE SessionSafetyProofs --------------------------
(***************************************************************************)
(* Safety of stop-commits that run beside each other and of the charges    *)
(* and records they leave, for any sessions and requests.  The parts:      *)
(* what an org is charged and what a status says; the merged file of a     *)
(* request; the packets of the gate; and what is saved at the end.         *)
(*                                                                         *)
(* What a status says.  No session is left at "processing" by the process  *)
(* that set it: a request leaves the handler by two ways, and both have    *)
(* given its object another status, the way of success because nothing     *)
(* comes between its publishing and its end.                               *)
(***************************************************************************)
EXTENDS SessionCommitProofs, SessionGate, FiniteSetTheorems

Worker(k, g) == \E r \in Requests : pc[r] \in InFlight /\ Key(r) = k /\ job[r].gen = g

\* A handler that publishes keeps the event loop, and ends with its object ready.
LoopHeld == \A r \in Requests : pc[r] \in Publishing => loop = At("commit", r)
ChargedAreReady == \A r \in Requests : pc[r] = "charge" => State(r).status = "ready"

WorkInv == ProcessingHasAWorker /\ LoopHeld /\ ChargedAreReady

-----------------------------------------------------------------------------
\* While a request has the loop, only it goes on.
LEMMA LoopHolder ==
  ASSUME [Next]_vars, NEW r \in Requests, loop = At("commit", r)
  PROVE  CommitStep(r) \/ Crash \/ UNCHANGED vars
  <1>1. loop # Idle /\ loop.at = "commit" /\ loop.id = r
    BY DEF At, Idle
  <1>2. ASSUME NEW k \in Keys, NEW op \in Operators,
               \/ StartSession(k, op) \/ \E i \in PartIndexes : UploadPart(k, op, i)
               \/ \E t \in Requests : BeginCommit(t, k, op)
        PROVE  FALSE
    BY <1>1, <1>2 DEF StartSession, UploadPart, BeginCommit
  <1>3. ASSUME NEW k \in Keys, HandlerStep(k) PROVE FALSE
    BY <1>1, <1>3 DEF HandlerStep, ChargeSession, RecordSession, CountPart, At
  <1>4. ASSUME NEW t \in Requests, CommitStep(t) PROVE t = r
    <2>1. Turn(t)
      BY <1>4 DEF CommitStep, AcquireLock, MergeFails, MergeDone, AcquireSlot, AudioDone,
         FramesDone, PacketFails, TakeRow, WriteArtifact, PublishReady, CountCommit, StageFails,
         FailCommit
    <2>2. QED
      BY <1>1, <2>1 DEF Turn, At
  <1>5. ASSUME NEW t \in Requests, OrphanEnds(t) PROVE FALSE
    BY <1>1, <1>5 DEF OrphanEnds
  <1>6. QED
    BY <1>2, <1>3, <1>4, <1>5 DEF Next

LEMMA OnlyPublisher ==
  ASSUME IInv, LoopHeld, [Next]_vars, NEW r \in Requests, pc[r] \in Publishing
  PROVE  CommitStep(r) \/ Crash \/ UNCHANGED vars
  BY LoopHolder DEF LoopHeld

\* The stages of publishing follow each other, from the row of the packet on.
LEMMA PublishingMoves ==
  ASSUME IInv, LoopHeld, [Next]_vars, NEW r \in Requests, pc'[r] \in Publishing
  PROVE  \/ UNCHANGED vars
         \/ TakeRow(r) /\ pc'[r] = "transcript" /\ loop' = At("commit", r)
         \/ WriteArtifact(r) /\ pc'[r] # "charge" /\ pc[r] \in Publishing /\ loop' = loop
         \/ PublishReady(r) /\ pc[r] = "ready" /\ loop' = loop
  <1>1. pc \in [Requests -> Stages]
    BY DEF IInv, TypeOK
  <1>2. pc'[r] \notin {"idle", "lock", "dropped", "merge", "slot", "audio", "frames", "row", "fail",
                       "ok", "error", "orphan"}
    BY DEF Publishing, Artifacts
  <1>3. CASE CommitStep(r)
    <2>1. TakeRow(r) \/ WriteArtifact(r) \/ PublishReady(r)
      BY <1>1, <1>2, <1>3 DEF CommitStep, AcquireLock, MergeFails, Merge, MergeDone, Submit,
         AcquireSlot, AudioDone, FramesDone, PacketFails, CountCommit, StageFails, FailCommit, Goto
    <2>2. CASE TakeRow(r)
      BY <1>1, <1>2, <2>2 DEF TakeRow, Goto
    <2>3. CASE WriteArtifact(r)
      BY <1>1, <2>3 DEF WriteArtifact, Goto, NextStage, Artifacts, Publishing
    <2>4. CASE PublishReady(r)
      BY <2>4 DEF PublishReady
    <2>5. QED
      BY <2>1, <2>2, <2>3, <2>4
  <1>4. CASE pc[r] \in Publishing /\ ~CommitStep(r)
    BY <1>1, <1>2, <1>4, OnlyPublisher, StageFacts, CrashStages
  <1>5. CASE pc[r] \notin Publishing /\ ~CommitStep(r)
    BY <1>2, <1>5, StageMoves
  <1>6. QED
    BY <1>3, <1>4, <1>5

LEMMA LoopStep == ASSUME IInv, LoopHeld, [Next]_vars PROVE LoopHeld'
  <1> SUFFICES ASSUME NEW r \in Requests, pc'[r] \in Publishing
               PROVE  loop' = At("commit", r)
    BY DEF LoopHeld, At
  <1>1. CASE UNCHANGED vars
    BY <1>1 DEF vars, LoopHeld
  <1>2. CASE loop' = loop /\ pc[r] \in Publishing
    BY <1>2 DEF LoopHeld
  <1>3. "ready" \in Publishing
    BY DEF Publishing
  <1>4. QED
    BY <1>1, <1>2, <1>3, PublishingMoves

LEMMA ChargedStep == ASSUME IInv, WorkInv, [Next]_vars PROVE ChargedAreReady'
  <1> SUFFICES ASSUME NEW r \in Requests, pc'[r] = "charge"
               PROVE  State(r)'.status = "ready"
    BY DEF ChargedAreReady
  <1>1. UNCHANGED vars \/ (PublishReady(r) /\ pc[r] = "ready")
    <2>1. "charge" \in Publishing
      BY DEF Publishing
    <2>2. QED
      BY <2>1, PublishingMoves DEF WorkInv
  <1>2. CASE UNCHANGED vars
    BY <1>1, <1>2 DEF vars, WorkInv, ChargedAreReady, State, Key
  <1>3. CASE PublishReady(r) /\ pc[r] = "ready"
    <2> DEFINE s == [State(r) EXCEPT !.status = "ready"]
    <2>1. pc[r] \in InFlight
      BY <1>3, StageFacts DEF Publishing
    <2>2. s \in SessionState /\ s.status = "ready" /\ job[r].gen \in 1..Len(sessions[Key(r)])
      BY <2>1, InFlightFacts, UpdateType DEF SessionState
    <2>3. Assign(Key(r), job[r].gen, s) /\ job' = job
      BY <1>3 DEF PublishReady, SetState
    <2> HIDE DEF s
    <2>4. sessions'[Key(r)][job[r].gen] = s
      BY <2>1, <2>2, <2>3, InFlightFacts, AssignedObject
    <2>5. QED
      BY <2>2, <2>3, <2>4 DEF State, Key
  <1>4. QED
    BY <1>1, <1>2, <1>3

-----------------------------------------------------------------------------
(* Objects at "processing". *)

WasProcessing(k, g) == g \in 1..Len(sessions[k]) /\ sessions[k][g].status = "processing"

\* An assignment changes the one object.
LEMMA AssignedOnly ==
  ASSUME IInv, NEW x \in Keys, NEW i \in 1..Len(sessions[x]), NEW s \in SessionState,
         Assign(x, i, s), NEW k \in Keys
  PROVE  /\ Len(sessions'[k]) = Len(sessions[k])
         /\ \A g \in 1..Len(sessions[k]) :
              sessions'[k][g] = IF k = x /\ g = i THEN s ELSE sessions[k][g]
  <1>1. sessions \in [Keys -> Seq(SessionState)]
    BY DEF IInv, TypeOK
  <1>2. /\ Len(sessions'[k]) = Len(sessions[k])
        /\ sessions'[x] = [sessions[x] EXCEPT ![i] = s]
        /\ k # x => sessions'[k] = sessions[k]
    BY <1>1, AssignType DEF IInv, Assign
  <1>3. QED
    BY <1>1, <1>2

\* A session started adds an object that is recording.
LEMMA StartedObjects ==
  ASSUME IInv, NEW x \in Keys, NEW op \in Operators, StartSession(x, op),
         NEW k \in Keys, NEW g \in 1..Len(sessions'[k])
  PROVE  \/ g \in 1..Len(sessions[k]) /\ sessions'[k][g] = sessions[k][g]
         \/ sessions'[k][g] = Fresh(op)
  <1>1. sessions \in [Keys -> Seq(SessionState)] /\ Fresh(op) \in SessionState
    BY FreshType DEF IInv, TypeOK
  <1>2. CASE sessions'[k] = sessions[k]
    BY <1>2
  <1>3. CASE k = x /\ sessions' = [sessions EXCEPT ![x] = Append(@, Fresh(op))]
    <2>1. sessions[k] \in Seq(SessionState) /\ Len(sessions[k]) \in Nat
      BY <1>1
    <2>2. /\ sessions'[k] = Append(sessions[k], Fresh(op))
          /\ Len(sessions'[k]) = Len(sessions[k]) + 1
          /\ \A i \in 1..Len(sessions[k]) : sessions'[k][i] = sessions[k][i]
          /\ sessions'[k][Len(sessions[k]) + 1] = Fresh(op)
      BY <1>1, <1>3, <2>1, AppendProperties
    <2>3. QED
      BY <2>1, <2>2
  <1>4. QED
    BY <1>1, <1>2, <1>3 DEF StartSession

\* A commit step leaves no object at "processing" that was not, and none of its
\* own when it ends.
LEMMA CommitProcessing ==
  ASSUME IInv, NEW r \in Requests, CommitStep(r),
         NEW k \in Keys, NEW g \in 1..Len(sessions'[k]), sessions'[k][g].status = "processing"
  PROVE  /\ WasProcessing(k, g)
         /\ FailCommit(r) => ~(k = Key(r) /\ g = job[r].gen)
  <1>1. pc[r] \in InFlight
    BY DEF CommitStep, AcquireLock, MergeFails, MergeDone, AcquireSlot, AudioDone,
       FramesDone, PacketFails, TakeRow, WriteArtifact, PublishReady, CountCommit, StageFails,
       FailCommit, InFlight, Critical, Publishing
  <1>2. /\ Key(r) \in Keys /\ job[r].gen \in 1..Len(sessions[Key(r)]) /\ State(r) \in SessionState
        /\ State(r) = sessions[Key(r)][job[r].gen]
    BY <1>1, InFlightFacts DEF State
  <1>3. ASSUME NEW s \in SessionState, Assign(Key(r), job[r].gen, s),
               s.status = "processing" => State(r).status = "processing"
        PROVE  /\ WasProcessing(k, g)
               /\ s.status # "processing" => ~(k = Key(r) /\ g = job[r].gen)
    <2>1. /\ g \in 1..Len(sessions[k])
          /\ sessions'[k][g] = IF k = Key(r) /\ g = job[r].gen THEN s ELSE sessions[k][g]
      BY <1>2, <1>3, AssignedOnly
    <2>2. QED
      BY <1>2, <1>3, <2>1 DEF WasProcessing
  <1>4. CASE TakeRow(r) /\ sessions' # sessions
    <2> DEFINE s == [State(r) EXCEPT !.video = "merged"]
    <2>1. Assign(Key(r), job[r].gen, s) /\ ~FailCommit(r)
      BY <1>4 DEF TakeRow, SetState, FailCommit
    <2>2. s \in SessionState /\ s.status = State(r).status
      BY <1>2, UpdateType DEF SessionState
    <2>3. QED
      BY <1>3, <2>1, <2>2
  <1>5. CASE PublishReady(r)
    <2> DEFINE s == [State(r) EXCEPT !.status = "ready"]
    <2>1. Assign(Key(r), job[r].gen, s) /\ ~FailCommit(r)
      BY <1>5 DEF PublishReady, SetState, FailCommit
    <2>2. s \in SessionState /\ s.status = "ready"
      BY <1>2, UpdateType DEF SessionState
    <2>3. QED
      BY <1>3, <2>1, <2>2
  <1>6. CASE FailCommit(r)
    <2> DEFINE s == Failed(State(r))
    <2>1. Assign(Key(r), job[r].gen, s)
      BY <1>6 DEF FailCommit, SetState
    <2>2. s \in SessionState /\ s.status = "failed"
      BY <1>2, UpdateType DEF SessionState, Failed
    <2>3. QED
      BY <1>3, <2>1, <2>2
  <1>7. CASE sessions' = sessions /\ ~FailCommit(r)
    BY <1>7 DEF WasProcessing
  <1>8. sessions' = sessions \/ TakeRow(r) \/ PublishReady(r) \/ FailCommit(r)
    BY DEF CommitStep, AcquireLock, MergeFails, MergeDone, AcquireSlot, AudioDone, FramesDone,
           PacketFails, WriteArtifact, CountCommit, StageFails
  <1>9. QED
    BY <1>4, <1>5, <1>6, <1>7, <1>8

\* An object at "processing" was, or a stop-commit has just begun on it.
LEMMA ProcessingObjects ==
  ASSUME IInv, [Next]_vars, NEW k \in Keys, NEW g \in 1..Len(sessions'[k]),
         sessions'[k][g].status = "processing"
  PROVE  \/ WasProcessing(k, g)
         \/ \E r \in Requests, op \in Operators : BeginCommit(r, k, op) /\ g = Len(sessions[k])
  <1>1. CASE sessions' = sessions
    BY <1>1 DEF WasProcessing
  <1>2. ASSUME NEW x \in Keys, NEW op \in Operators, StartSession(x, op)
        PROVE  WasProcessing(k, g)
    <2>1. Fresh(op).status # "processing"
      BY DEF Fresh
    <2>2. g \in 1..Len(sessions[k]) /\ sessions'[k][g] = sessions[k][g]
      BY <1>2, <2>1, StartedObjects
    <2>3. QED
      BY <2>2 DEF WasProcessing
  <1>3. ASSUME NEW x \in Keys, CountPart(x)
        PROVE  WasProcessing(k, g)
    <2> DEFINE s == [Current(x) EXCEPT !.parts = @ + 1]
    <2>1. sessions[x] # <<>>
      BY <1>3, LenProperties DEF CountPart, IInv, HeldObjects, At
    <2>2. s \in SessionState /\ s.status = Current(x).status
      BY <2>1, CurrentObject, UpdateType DEF SessionState
    <2>3. Assign(x, Len(sessions[x]), s)
      BY <1>3 DEF CountPart
    <2>4. /\ g \in 1..Len(sessions[k])
          /\ sessions'[k][g] = IF k = x /\ g = Len(sessions[x]) THEN s ELSE sessions[k][g]
      BY <2>1, <2>2, <2>3, CurrentObject, AssignedOnly
    <2>5. QED
      BY <2>2, <2>4 DEF WasProcessing, Current
  <1>4. ASSUME NEW r \in Requests, NEW x \in Keys, NEW op \in Operators, BeginCommit(r, x, op)
        PROVE  WasProcessing(k, g) \/ (BeginCommit(r, k, op) /\ g = Len(sessions[k]))
    <2> DEFINE s == [Current(x) EXCEPT !.status = "processing"]
    <2>1. sessions[x] # <<>> /\ Assign(x, Len(sessions[x]), s)
      BY <1>4 DEF BeginCommit
    <2>2. s \in SessionState
      BY <2>1, CurrentObject, UpdateType
    <2>3. /\ g \in 1..Len(sessions[k])
          /\ sessions'[k][g] = IF k = x /\ g = Len(sessions[x]) THEN s ELSE sessions[k][g]
      BY <2>1, <2>2, CurrentObject, AssignedOnly
    <2>4. QED
      BY <1>4, <2>3 DEF WasProcessing
  <1>5. ASSUME NEW r \in Requests, CommitStep(r)
        PROVE  WasProcessing(k, g)
    BY <1>5, CommitProcessing
  <1>6. CASE Crash
    BY <1>6 DEF Crash
  <1>7. QED
    BY <1>1, <1>2, <1>3, <1>4, <1>5, <1>6
       DEF Next, vars, HandlerStep, ChargeSession, RecordSession, UploadPart, OrphanEnds

\* A request that is no longer in flight has ended, or its process has.
LEMMA LeavesFlight ==
  ASSUME IInv, [Next]_vars, NEW r \in Requests, pc[r] \in InFlight, pc'[r] \notin InFlight
  PROVE  Crash \/ CountCommit(r) \/ FailCommit(r)
  <1>1. pc \in [Requests -> Stages] /\ pc'[r] # pc[r]
    BY DEF IInv, TypeOK
  <1>2. "idle" \notin InFlight /\ "lock" \in InFlight
    BY DEF InFlight, Critical, Publishing, Artifacts
  <1>3. CASE CommitStep(r)
    <2>1. {"fail", "merge", "slot", "audio", "frames", "row", "transcript", "charge"} \subseteq InFlight
          /\ \A a \in Artifacts : NextStage[a] \in InFlight
      BY StageFacts DEF Publishing, Artifacts
    <2>2. ASSUME ~CountCommit(r), ~FailCommit(r) PROVE FALSE
      BY <1>1, <1>3, <2>1, <2>2 DEF CommitStep, AcquireLock, MergeFails, Merge, MergeDone, Submit,
         AcquireSlot, AudioDone, FramesDone, PacketFails, TakeRow, WriteArtifact, PublishReady,
         StageFails, Goto
    <2>3. QED
      BY <2>2
  <1>4. CASE ~CommitStep(r) /\ ~Crash
    <2>1. pc'[r] \in {"dropped", "orphan"} /\ pc[r] # "orphan"
      BY <1>1, <1>2, <1>4, StageMoves, StageFacts
    <2>2. \/ pc'[r] = pc[r]
          \/ \E t \in Requests, k \in Keys, op \in Operators : BeginCommit(t, k, op)
          \/ \E t \in Requests : CommitStep(t) /\ t # r
          \/ \E t \in Requests : OrphanEnds(t)
      BY <1>4 DEF Next, vars, StartSession, UploadPart, HandlerStep, ChargeSession, RecordSession,
         CountPart
    <2>3. ASSUME NEW t \in Requests, CommitStep(t), t # r PROVE pc'[r] = pc[r]
      BY <1>1, <2>3 DEF CommitStep, AcquireLock, MergeFails, Merge, MergeDone, Submit, AcquireSlot,
         AudioDone, FramesDone, PacketFails, TakeRow, WriteArtifact, PublishReady, CountCommit,
         StageFails, FailCommit, Goto
    <2>4. ASSUME NEW t \in Requests, NEW k \in Keys, NEW op \in Operators, BeginCommit(t, k, op)
          PROVE  pc'[r] \in {pc[r], "lock"}
      BY <1>1, <2>4 DEF BeginCommit, Goto
    <2>5. ASSUME NEW t \in Requests, OrphanEnds(t) PROVE pc'[r] = pc[r]
      BY <1>1, <2>1, <2>5 DEF OrphanEnds, Goto
    <2>6. QED
      BY <1>1, <2>1, <2>2, <2>3, <2>4, <2>5
  <1>5. QED
    BY <1>3, <1>4

LEMMA ProcessingStep == ASSUME IInv, WorkInv, [Next]_vars PROVE ProcessingHasAWorker'
  <1> SUFFICES ASSUME NEW k \in Keys, NEW g \in 1..Len(sessions'[k]),
                      sessions'[k][g].status = "processing"
               PROVE  Worker(k, g)'
    <2>1. \A k \in Keys : DOMAIN sessions'[k] = 1..Len(sessions'[k])
      BY InvStep, LenProperties DEF IInv, TypeOK
    <2>2. QED
      BY <2>1 DEF ProcessingHasAWorker, Worker, Key
  <1>1. ASSUME NEW r \in Requests, NEW op \in Operators, BeginCommit(r, k, op), g = Len(sessions[k])
        PROVE  Worker(k, g)'
    <2>1. pc'[r] = "lock" /\ job'[r] = NewJob(k, g)
      BY <1>1 DEF BeginCommit, Goto, IInv, TypeOK
    <2>2. QED
      BY <2>1 DEF Worker, Key, NewJob, InFlight
  <1>2. CASE WasProcessing(k, g)
    <2>1. g \in DOMAIN sessions[k]
      BY <1>2, LenProperties DEF WasProcessing, IInv, TypeOK
    <2>2. PICK r \in Requests : pc[r] \in InFlight /\ Key(r) = k /\ job[r].gen = g
      BY <1>2, <2>1 DEF WasProcessing, WorkInv, ProcessingHasAWorker
    <2>3. CASE pc'[r] \in InFlight
      <3>1. pc[r] # "idle"
        BY <2>2, StageFacts
      <3>2. job'[r].key = k /\ job'[r].gen = g
        BY <2>2, <3>1, KeyKept DEF Key
      <3>3. QED
        BY <2>3, <3>2 DEF Worker, Key
    <2>4. CASE Crash
      BY <2>4 DEF Crash
    <2>5. CASE CountCommit(r)
      BY <2>2, <2>5 DEF CountCommit, WorkInv, ChargedAreReady, State
    <2>6. CASE FailCommit(r)
      <3>1. CommitStep(r)
        BY <2>6 DEF CommitStep
      <3>2. QED
        BY <2>2, <2>6, <3>1, CommitProcessing
    <2>7. QED
      BY <2>2, <2>3, <2>4, <2>5, <2>6, LeavesFlight
  <1>3. QED
    BY <1>1, <1>2, ProcessingObjects

\* Whatever clients send and whatever raises, a session of a living process is
\* "processing" only while a stop-commit works on that very object.
THEOREM ProcessingIsWorkedOn == Spec => []ProcessingHasAWorker
  <1>1. Init => WorkInv
    BY DEF Init, WorkInv, ProcessingHasAWorker, LoopHeld, ChargedAreReady, Publishing, Artifacts
  <1>2. IInv /\ WorkInv /\ [Next]_vars => WorkInv'
    BY ProcessingStep, LoopStep, ChargedStep DEF WorkInv
  <1>3. WorkInv => ProcessingHasAWorker
    BY DEF WorkInv
  <1>4. QED
    BY <1>1, <1>2, <1>3, Invariance, PTL DEF Spec

-----------------------------------------------------------------------------
(* What an org is charged.  A key that was recorded and is no longer in     *)
(* memory was charged too: the invariant counts the keys known for either   *)
(* reason, which a crash and a save only take from.                        *)

Charged(o) == Objects(o) \ Pending
Known(o) == Recorded(o) \cup {k \in Keys : \E i \in Nat : <<k, i>> \in Charged(o)}

AtMost(S, n) == IsFiniteSet(S) /\ Cardinality(S) <= n

ChargeInv ==
  /\ \A o \in Orgs : AtMost(Charged(o), started[o]) /\ AtMost(Known(o), started[o])
  /\ \A o \in Orgs : started[o] <= MaxSessions
  /\ loop.at = "charge" => started[OrgOf[loop.id]] < MaxSessions

LEMMA AtMostSubset ==
  ASSUME NEW S, NEW n \in Nat, AtMost(S, n), NEW T \in SUBSET S
  PROVE  AtMost(T, n)
  <1>1. IsFiniteSet(T) /\ Cardinality(T) <= Cardinality(S)
    BY FS_Subset DEF AtMost
  <1>2. Cardinality(T) \in Nat /\ Cardinality(S) \in Nat
    BY <1>1, FS_CardinalityType DEF AtMost
  <1>3. QED
    BY <1>1, <1>2 DEF AtMost

LEMMA AtMostAdd ==
  ASSUME NEW S, NEW n \in Nat, AtMost(S, n), NEW x
  PROVE  AtMost(S \cup {x}, n + 1)
  <1>1. /\ IsFiniteSet(S \cup {x}) /\ Cardinality(S) \in Nat
        /\ Cardinality(S \cup {x}) = IF x \in S THEN Cardinality(S) ELSE Cardinality(S) + 1
    BY FS_AddElement, FS_CardinalityType DEF AtMost
  <1>2. QED
    BY <1>1 DEF AtMost

\* The objects of an org, one by one.
LEMMA ObjectsFacts ==
  ASSUME NEW o
  PROVE  \A x : x \in Objects(o) <=>
           \E k \in Keys : OrgOf[k] = o /\ \E i \in 1..Len(sessions[k]) : x = <<k, i>>
  BY DEF Objects

LEMMA ObjectsNext ==
  ASSUME NEW o
  PROVE  \A x : x \in Objects(o)' <=>
           \E k \in Keys : OrgOf[k] = o /\ \E i \in 1..Len(sessions'[k]) : x = <<k, i>>
  BY DEF Objects

LEMMA KnownInMemory ==
  ASSUME IInv, loop.at # "charge", NEW o \in Orgs, NEW k \in Keys, OrgOf[k] = o,
         Len(sessions[k]) > 0
  PROVE  k \in Known(o)
  <1>1. Len(sessions[k]) \in 1..Len(sessions[k]) /\ Len(sessions[k]) \in Nat
    BY DEF IInv, TypeOK
  <1>2. <<k, Len(sessions[k])>> \in Objects(o)
    BY <1>1, ObjectsFacts
  <1>3. QED
    BY <1>1, <1>2 DEF Known, Charged, Pending

\* Handlers that start no session keep the number of objects of each key, and
\* leave no charge pending.
LEMMA LensKept ==
  ASSUME IInv, NEW k \in Keys,
         \/ \E x \in Keys, op \in Operators :
              \/ \E i \in PartIndexes : UploadPart(x, op, i)
              \/ \E r \in Requests : BeginCommit(r, x, op)
         \/ \E x \in Keys : RecordSession(x) \/ CountPart(x)
         \/ \E r \in Requests : CommitStep(r) \/ OrphanEnds(r)
  PROVE  Len(sessions'[k]) = Len(sessions[k])
  <1>1. CASE sessions' = sessions
    BY <1>1
  <1>2. ASSUME NEW x \in Keys, CountPart(x)
        PROVE  Len(sessions'[k]) = Len(sessions[k])
    <2> DEFINE s == [Current(x) EXCEPT !.parts = @ + 1]
    <2>1. sessions[x] # <<>>
      BY <1>2, LenProperties DEF CountPart, IInv, HeldObjects, At
    <2>2. s \in SessionState /\ Assign(x, Len(sessions[x]), s)
      BY <1>2, <2>1, CurrentObject, UpdateType DEF CountPart
    <2>3. QED
      BY <2>1, <2>2, CurrentObject, AssignedOnly
  <1>3. ASSUME NEW r \in Requests, NEW x \in Keys, NEW op \in Operators, BeginCommit(r, x, op)
        PROVE  Len(sessions'[k]) = Len(sessions[k])
    <2> DEFINE s == [Current(x) EXCEPT !.status = "processing"]
    <2>1. sessions[x] # <<>> /\ Assign(x, Len(sessions[x]), s)
      BY <1>3 DEF BeginCommit
    <2>2. s \in SessionState
      BY <2>1, CurrentObject, UpdateType
    <2>3. QED
      BY <2>1, <2>2, CurrentObject, AssignedOnly
  <1>4. ASSUME NEW r \in Requests, CommitStep(r), sessions' # sessions
        PROVE  Len(sessions'[k]) = Len(sessions[k])
    <2>1. PICK s \in SessionState : Assign(Key(r), job[r].gen, s)
      BY <1>4, CommitAssigns
    <2>2. pc[r] \in InFlight
      BY <1>4 DEF CommitStep, AcquireLock, MergeFails, MergeDone, AcquireSlot, AudioDone,
         FramesDone, PacketFails, TakeRow, WriteArtifact, PublishReady, CountCommit, StageFails,
         FailCommit, InFlight, Critical, Publishing
    <2>3. QED
      BY <2>1, <2>2, InFlightFacts, AssignedOnly
  <1>5. QED
    BY <1>1, <1>2, <1>3, <1>4 DEF RecordSession, UploadPart, OrphanEnds

\* Whatever keeps the objects, the charges and a loop without a pending charge.
LEMMA ChargesKept ==
  ASSUME IInv, ChargeInv, [Next]_vars, loop.at # "charge", loop'.at # "charge", started' = started,
         \A k \in Keys : Len(sessions'[k]) = Len(sessions[k])
  PROVE  ChargeInv'
  <1>1. started \in [Orgs -> Nat]
    BY DEF IInv, TypeOK
  <1>2. ASSUME NEW o \in Orgs
        PROVE  Charged(o)' = Charged(o) /\ Known(o)' \subseteq Known(o)
    <2>1. Objects(o)' = Objects(o)
      <3>1. \A x : x \in Objects(o)' <=> x \in Objects(o)
        BY ObjectsFacts, ObjectsNext
      <3>2. QED
        BY <3>1 DEF Objects
    <2>2. Pending = {} /\ Pending' = {}
      BY DEF Pending
    <2>3. Charged(o)' = Charged(o)
      BY <2>1, <2>2 DEF Charged
    <2>4. ASSUME NEW k \in Recorded(o)' PROVE k \in Known(o)
      <3>1. k \in Keys /\ OrgOf[k] = o /\ disk'[k] # NoSession
        BY DEF Recorded
      <3>2. CASE disk'[k] = disk[k]
        BY <3>1, <3>2 DEF Recorded, Known
      <3>3. CASE disk'[k] # disk[k]
        <4>1. Len(sessions[k]) > 0
          <5>1. \E g \in 1..Len(sessions'[k]) : TRUE
            BY <3>1, <3>3, SavedFromMemory
          <5>2. Len(sessions[k]) \in Nat /\ Len(sessions'[k]) = Len(sessions[k])
            BY <3>1 DEF IInv, TypeOK
          <5>3. QED
            BY <5>1, <5>2
        <4>2. QED
          BY <3>1, <4>1, KnownInMemory
      <3>4. QED
        BY <3>2, <3>3
    <2>5. QED
      BY <2>3, <2>4 DEF Known
  <1>3. \A o \in Orgs : AtMost(Charged(o), started[o])' /\ AtMost(Known(o), started[o])'
    <2> TAKE o \in Orgs
    <2>1. started[o] \in Nat /\ AtMost(Charged(o), started[o]) /\ AtMost(Known(o), started[o])
      BY <1>1 DEF ChargeInv
    <2>2. AtMost(Known(o)', started[o])
      BY <1>2, <2>1, AtMostSubset
    <2>3. QED
      BY <1>2, <2>1, <2>2 DEF AtMost
  <1>4. QED
    BY <1>3 DEF ChargeInv

\* A session that is started is an object with its charge pending.
LEMMA ChargesStart ==
  ASSUME IInv, ChargeInv, NEW x \in Keys, NEW op \in Operators, StartSession(x, op)
  PROVE  ChargeInv'
  <1>1. sessions \in [Keys -> Seq(SessionState)] /\ started \in [Orgs -> Nat] /\ MaxSessions \in Nat
    BY LimitsAssumption DEF IInv, TypeOK
  <1>2. started' = started /\ disk' = disk /\ loop = Idle /\ loop.at # "charge"
    BY DEF StartSession, Idle
  <1>3. Pending = {}
    BY <1>2 DEF Pending
  <1>4. CASE UNCHANGED <<sessions, loop>>
    BY <1>2, <1>4 DEF ChargeInv, Charged, Known, Objects, Pending, Recorded, AtMost
  <1>5. CASE WithinLimit(OrgOf[x]) /\ loop' = At("charge", x)
             /\ sessions' = [sessions EXCEPT ![x] = Append(@, Fresh(op))]
    <2>1. sessions[x] \in Seq(SessionState) /\ Fresh(op) \in SessionState /\ Len(sessions[x]) \in Nat
      BY <1>1, FreshType
    <2>2. /\ Len(sessions'[x]) = Len(sessions[x]) + 1
          /\ \A k \in Keys \ {x} : sessions'[k] = sessions[k]
      BY <1>1, <1>5, <2>1, AppendProperties
    <2>3. Pending' = {<<x, Len(sessions[x]) + 1>>}
      BY <1>5, <2>2 DEF Pending, At
    <2>4. ASSUME NEW o \in Orgs PROVE Charged(o)' = Charged(o)
      <3>1. ASSUME NEW p PROVE p \in Charged(o)' <=> p \in Charged(o)
        <4>1. p \in Charged(o)' <=>
                /\ p # <<x, Len(sessions[x]) + 1>>
                /\ \E k \in Keys : OrgOf[k] = o /\ \E i \in 1..Len(sessions'[k]) : p = <<k, i>>
          BY <2>3, ObjectsNext DEF Charged
        <4>2. p \in Charged(o) <=>
                \E k \in Keys : OrgOf[k] = o /\ \E i \in 1..Len(sessions[k]) : p = <<k, i>>
          BY <1>3, ObjectsFacts DEF Charged
        <4>3. ASSUME NEW k \in Keys, NEW i
              PROVE  /\ i \in 1..Len(sessions[k]) => i \in 1..Len(sessions'[k])
                     /\ i \in 1..Len(sessions[k]) => <<k, i>> # <<x, Len(sessions[x]) + 1>>
                     /\ i \in 1..Len(sessions'[k]) /\ <<k, i>> # <<x, Len(sessions[x]) + 1>>
                          => i \in 1..Len(sessions[k])
          <5>1. CASE k = x
            BY <2>1, <2>2, <5>1
          <5>2. CASE k # x
            BY <2>2, <5>2
          <5>3. QED
            BY <5>1, <5>2
        <4>4. QED
          BY <4>1, <4>2, <4>3
      <3>2. QED
        BY <3>1 DEF Charged
    <2>5. \A o \in Orgs : Known(o)' = Known(o)
      BY <1>2, <2>4 DEF Known, Recorded
    <2>6. started[OrgOf[loop'.id]] < MaxSessions
      BY <1>5 DEF WithinLimit, At
    <2>7. QED
      BY <1>2, <2>4, <2>5, <2>6 DEF ChargeInv, AtMost
  <1>6. QED
    BY <1>4, <1>5 DEF StartSession

\* The charge pays for the object that was pending.
LEMMA ChargesPaid ==
  ASSUME IInv, ChargeInv, NEW x \in Keys, ChargeSession(x)
  PROVE  ChargeInv'
  <1> DEFINE org == OrgOf[x]
             p == <<x, Len(sessions[x])>>
  <1>1. started \in [Orgs -> Nat] /\ org \in Orgs /\ MaxSessions \in Nat
    BY LimitsAssumption, MapsAssumption DEF IInv, TypeOK
  <1>2. /\ loop = At("charge", x) /\ loop' = At("record", x)
        /\ started' = [started EXCEPT ![org] = @ + 1]
        /\ sessions' = sessions /\ disk' = disk
    BY DEF ChargeSession
  <1>3. Pending = {p} /\ Pending' = {} /\ loop'.at # "charge" /\ started[org] < MaxSessions
    BY <1>2 DEF Pending, At, ChargeInv
  <1>4. ASSUME NEW o \in Orgs
        PROVE  /\ Charged(o)' = Objects(o) /\ Recorded(o)' = Recorded(o)
               /\ Charged(o) = Objects(o) \ {p}
               /\ o # org => p \notin Objects(o)
    BY <1>2, <1>3, ObjectsFacts DEF Charged, Objects, Recorded
  <1>5. ASSUME NEW o \in Orgs, o # org
        PROVE  AtMost(Charged(o), started[o])' /\ AtMost(Known(o), started[o])'
    <2>1. Charged(o)' = Charged(o) /\ Known(o)' = Known(o) /\ started'[o] = started[o]
      BY <1>1, <1>2, <1>4, <1>5 DEF Known
    <2>2. QED
      BY <2>1 DEF ChargeInv, AtMost
  <1>6. AtMost(Charged(org), started[org])' /\ AtMost(Known(org), started[org])'
    <2>1. started'[org] = started[org] + 1 /\ started[org] \in Nat /\ started[org] + 1 \in Nat
      BY <1>1, <1>2
    <2>2. /\ AtMost(Charged(org) \cup {p}, started[org] + 1)
          /\ AtMost(Known(org) \cup {x}, started[org] + 1)
      BY <1>1, <2>1, AtMostAdd DEF ChargeInv
    <2>3. Charged(org)' \subseteq Charged(org) \cup {p}
      BY <1>1, <1>4
    <2>4. Known(org)' \subseteq Known(org) \cup {x}
      BY <1>1, <1>4, <2>3 DEF Known
    <2>5. AtMost(Charged(org)', started[org] + 1) /\ AtMost(Known(org)', started[org] + 1)
      BY <2>1, <2>2, <2>3, <2>4, AtMostSubset
    <2>6. QED
      BY <2>1, <2>5 DEF AtMost
  <1>7. \A o \in Orgs : started'[o] <= MaxSessions
    BY <1>1, <1>2, <1>3 DEF ChargeInv
  <1>8. QED
    BY <1>3, <1>5, <1>6, <1>7 DEF ChargeInv

LEMMA ChargesCrash == ASSUME IInv, ChargeInv, Crash PROVE ChargeInv'
  <1>1. started' = started /\ disk' = disk /\ loop' = Idle /\ \A k \in Keys : sessions'[k] = <<>>
    BY DEF Crash, files
  <1>2. started \in [Orgs -> Nat]
    BY DEF IInv, TypeOK
  <1>3. ASSUME NEW o \in Orgs
        PROVE  AtMost(Charged(o), started[o])' /\ AtMost(Known(o), started[o])'
    <2>1. Objects(o)' = {}
      BY <1>1, ObjectsNext
    <2>2. Charged(o)' = {} /\ Known(o)' = Recorded(o)
      BY <1>1, <2>1 DEF Charged, Known, Recorded
    <2>3. /\ AtMost(Known(o), started[o]) /\ AtMost(Charged(o), started[o]) /\ started[o] \in Nat
          /\ Recorded(o) \subseteq Known(o) /\ {} \subseteq Charged(o)
      BY <1>2 DEF ChargeInv, Known
    <2>4. AtMost({}, started[o]) /\ AtMost(Recorded(o), started[o])
      BY <2>3, AtMostSubset
    <2>5. QED
      BY <1>1, <2>2, <2>4 DEF AtMost
  <1>4. QED
    BY <1>1, <1>3 DEF ChargeInv, Idle

LEMMA ChargeStep == ASSUME IInv, ChargeInv, [Next]_vars PROVE ChargeInv'
  <1>1. CASE UNCHANGED vars
    <2>1. sessions' = sessions /\ disk' = disk /\ started' = started /\ loop' = loop
      BY <1>1 DEF vars
    <2>2. ASSUME NEW o \in Orgs PROVE Charged(o)' = Charged(o) /\ Known(o)' = Known(o)
      <3>1. Objects(o)' = Objects(o) /\ Pending' = Pending /\ Recorded(o)' = Recorded(o)
        BY <2>1 DEF Objects, Pending, Recorded
      <3>2. QED
        BY <3>1 DEF Charged, Known
    <2>3. QED
      BY <2>1, <2>2 DEF ChargeInv, AtMost
  <1>2. ASSUME NEW x \in Keys, NEW op \in Operators, StartSession(x, op) PROVE ChargeInv'
    BY <1>2, ChargesStart
  <1>3. ASSUME NEW x \in Keys, ChargeSession(x) PROVE ChargeInv'
    BY <1>3, ChargesPaid
  <1>4. CASE Crash
    BY <1>4, ChargesCrash
  <1>5. CASE \/ \E x \in Keys, op \in Operators :
                  \/ \E i \in PartIndexes : UploadPart(x, op, i)
                  \/ \E r \in Requests : BeginCommit(r, x, op)
             \/ \E x \in Keys : RecordSession(x) \/ CountPart(x)
             \/ \E r \in Requests : CommitStep(r) \/ OrphanEnds(r)
    <2>1. \A k \in Keys : Len(sessions'[k]) = Len(sessions[k])
      BY <1>5, LensKept
    <2>2. started' = started
      BY <1>5 DEF UploadPart, BeginCommit, RecordSession, CountPart, CommitStep, AcquireLock,
         MergeFails, MergeDone, AcquireSlot, AudioDone, FramesDone, PacketFails, TakeRow,
         WriteArtifact, PublishReady, CountCommit, StageFails, FailCommit, OrphanEnds
    <2>3. loop.at # "charge" /\ loop'.at # "charge"
      <3>1. Idle.at # "charge" /\ \A r : At("commit", r).at # "charge"
            /\ \A k : At("record", k).at # "charge" /\ At("count", k).at # "charge"
        BY DEF Idle, At
      <3>2. CASE \E x \in Keys, op \in Operators :
                   \/ \E i \in PartIndexes : UploadPart(x, op, i)
                   \/ \E r \in Requests : BeginCommit(r, x, op)
        BY <3>1, <3>2 DEF UploadPart, BeginCommit
      <3>3. CASE \E x \in Keys : RecordSession(x) \/ CountPart(x)
        BY <3>1, <3>3 DEF RecordSession, CountPart
      <3>4. ASSUME NEW r \in Requests, CommitStep(r)
            PROVE  Turn(r) /\ loop' \in {loop, Idle, At("commit", r)}
        BY <3>4 DEF CommitStep, AcquireLock, MergeFails, Merge, MergeDone, AcquireSlot, AudioDone,
           FramesDone, PacketFails, TakeRow, WriteArtifact, PublishReady, CountCommit, StageFails,
           FailCommit
      <3>5. QED
        BY <1>5, <3>1, <3>2, <3>3, <3>4 DEF Turn, OrphanEnds
    <2>4. QED
      BY <2>1, <2>2, <2>3, ChargesKept
  <1>6. QED
    BY <1>1, <1>2, <1>3, <1>4, <1>5 DEF Next, HandlerStep

LEMMA ChargeInit == Init => ChargeInv
  <1> SUFFICES ASSUME Init PROVE ChargeInv
    OBVIOUS
  <1>1. ASSUME NEW o \in Orgs PROVE Charged(o) = {} /\ Known(o) = {} /\ started[o] = 0
    <2>1. \A k \in Keys : Len(sessions[k]) = 0 /\ disk[k] = NoSession
      BY DEF Init
    <2>2. Objects(o) = {}
      BY <2>1, ObjectsFacts
    <2>3. QED
      BY <2>1, <2>2 DEF Charged, Known, Recorded, Init
  <1>2. AtMost({}, 0)
    BY FS_EmptySet DEF AtMost
  <1>3. \A o \in Orgs : AtMost(Charged(o), started[o]) /\ AtMost(Known(o), started[o])
    BY <1>1, <1>2
  <1>4. \A o \in Orgs : started[o] <= MaxSessions
    BY <1>1, LimitsAssumption
  <1>5. loop.at # "charge"
    BY DEF Init, Idle
  <1>6. QED
    BY <1>3, <1>4, <1>5 DEF ChargeInv

\* No session is handed out uncharged and no org is charged more than its plan
\* includes, wherever the process died between handing out and charging.
THEOREM StartsAreCharged == Spec => []SessionsCharged
  <1>1. Init => ChargeInv
    BY ChargeInit
  <1>2. IInv /\ ChargeInv /\ [Next]_vars => ChargeInv'
    BY ChargeStep
  <1>3. IInv /\ ChargeInv => SessionsCharged
    <2> SUFFICES ASSUME IInv, ChargeInv, NEW o \in Orgs
                 PROVE  /\ Cardinality(Objects(o) \ Pending) <= started[o]
                        /\ Cardinality(Recorded(o)) <= started[o]
                        /\ started[o] <= MaxSessions
      BY DEF SessionsCharged
    <2>1. started[o] \in Nat /\ AtMost(Known(o), started[o]) /\ Recorded(o) \subseteq Known(o)
      BY DEF IInv, TypeOK, ChargeInv, Known
    <2>2. AtMost(Recorded(o), started[o])
      BY <2>1, AtMostSubset
    <2>3. QED
      BY <2>2 DEF ChargeInv, AtMost, Charged
  <1>4. QED
    BY <1>1, <1>2, <1>3, Invariance, PTL DEF Spec

-----------------------------------------------------------------------------
(* Records that say "processing".  A save of another status ends it, and    *)
(* the object of SESSIONS changes status only together with its record,    *)
(* unless the process dies, a new session is about to be recorded, or the  *)
(* incident of a failure could not be written.                             *)

AboutToRecord(k) == loop \in {At("charge", k), At("record", k)}
Accounted(k) ==
  \/ sessions[k] = <<>> /\ MayCrash
  \/ AboutToRecord(k)
  \/ /\ sessions[k] # <<>>
     /\ Current(k).status = "processing" \/ (Current(k).status = "failed" /\ LogFaults)

SaysProcessing(k) == disk[k] # NoSession /\ disk[k].status = "processing"

RecordsAccounted == \A k \in Keys : SaysProcessing(k) => Accounted(k)

\* How a step that starts no session of k changes the status of its last object.
StatusMove(k) ==
  \/ Current(k)'.status = Current(k).status
  \/ Current(k)'.status = "processing"
  \/ disk'[k].status \in {"ready", "failed"}
  \/ Current(k)'.status = "failed" /\ LogFaults

LEMMA CommitMoves ==
  ASSUME IInv, NEW r \in Requests, CommitStep(r), NEW k \in Keys, sessions[k] # <<>>
  PROVE  StatusMove(k)
  <1> DEFINE n == Len(sessions[k])
  <1>1. pc[r] \in InFlight
    BY DEF CommitStep, AcquireLock, MergeFails, MergeDone, AcquireSlot, AudioDone,
       FramesDone, PacketFails, TakeRow, WriteArtifact, PublishReady, CountCommit, StageFails,
       FailCommit, InFlight, Critical, Publishing
  <1>2. /\ Key(r) \in Keys /\ job[r].gen \in 1..Len(sessions[Key(r)]) /\ State(r) \in SessionState
        /\ State(r) = sessions[Key(r)][job[r].gen]
    BY <1>1, InFlightFacts DEF State
  <1>3. n \in 1..n /\ n = Len(sessions[k]) /\ Current(k) = sessions[k][n]
    BY CurrentObject DEF Current
  <1>4. disk \in [Keys -> SessionState \cup {NoSession}]
    BY DEF IInv, TypeOK
  <1> HIDE DEF n
  <1>5. ASSUME NEW s \in SessionState, Assign(Key(r), job[r].gen, s)
        PROVE  IF k = Key(r) /\ n = job[r].gen
                 THEN Current(k)' = s /\ State(r) = Current(k)
                 ELSE Current(k)' = Current(k)
    <2>1. Len(sessions'[k]) = n /\ sessions'[k][n] = IF k = Key(r) /\ n = job[r].gen THEN s ELSE sessions[k][n]
      BY <1>2, <1>3, <1>5, AssignedOnly
    <2>2. Current(k)' = sessions'[k][n]
      BY <2>1 DEF Current
    <2>3. QED
      BY <1>2, <1>3, <2>1, <2>2
  <1>6. CASE TakeRow(r) /\ sessions' # sessions
    <2> DEFINE s == [State(r) EXCEPT !.video = "merged"]
    <2>1. Assign(Key(r), job[r].gen, s)
      BY <1>6 DEF TakeRow, SetState
    <2>2. s \in SessionState /\ s.status = State(r).status
      BY <1>2, UpdateType DEF SessionState
    <2> HIDE DEF s
    <2>3. QED
      BY <1>5, <2>1, <2>2 DEF StatusMove
  <1>7. CASE PublishReady(r)
    <2> DEFINE s == [State(r) EXCEPT !.status = "ready"]
    <2>1. Assign(Key(r), job[r].gen, s) /\ Save(Key(r), s)
      BY <1>7 DEF PublishReady, SetState
    <2>2. s \in SessionState /\ s.status = "ready"
      BY <1>2, UpdateType DEF SessionState
    <2> HIDE DEF s
    <2>3. disk'[Key(r)] = s
      BY <1>2, <1>4, <2>1 DEF Save
    <2>4. QED
      BY <1>5, <2>1, <2>2, <2>3 DEF StatusMove
  <1>8. CASE FailCommit(r)
    <2> DEFINE s == Failed(State(r))
    <2>1. Assign(Key(r), job[r].gen, s) /\ (Save(Key(r), s) \/ LogFaults)
      BY <1>8 DEF FailCommit, SetState
    <2>2. s \in SessionState /\ s.status = "failed"
      BY <1>2, UpdateType DEF SessionState, Failed
    <2> HIDE DEF s
    <2>3. disk'[Key(r)] = s \/ LogFaults
      BY <1>2, <1>4, <2>1 DEF Save
    <2>4. QED
      BY <1>5, <2>1, <2>2, <2>3 DEF StatusMove
  <1>9. CASE sessions' = sessions
    BY <1>9 DEF StatusMove, Current
  <1>10. sessions' = sessions \/ TakeRow(r) \/ PublishReady(r) \/ FailCommit(r)
    BY DEF CommitStep, AcquireLock, MergeFails, MergeDone, AcquireSlot, AudioDone, FramesDone,
           PacketFails, WriteArtifact, CountCommit, StageFails
  <1>11. QED
    BY <1>6, <1>7, <1>8, <1>9, <1>10

LEMMA OtherMoves ==
  ASSUME IInv, NEW k \in Keys, sessions[k] # <<>>,
         NEW x \in Keys,
         \/ CountPart(x)
         \/ \E r \in Requests, op \in Operators : BeginCommit(r, x, op)
  PROVE  StatusMove(k)
  <1> DEFINE n == Len(sessions[x])
             counted == [Current(x) EXCEPT !.parts = @ + 1]
             begun == [Current(x) EXCEPT !.status = "processing"]
  <1>1. sessions[x] # <<>>
    BY LenProperties DEF CountPart, BeginCommit, IInv, HeldObjects, At
  <1>2. n \in 1..n /\ counted \in SessionState /\ begun \in SessionState
    BY <1>1, CurrentObject, UpdateType
  <1>3. counted.status = Current(x).status /\ begun.status = "processing"
    BY <1>1, CurrentObject DEF SessionState
  <1>4. Assign(x, n, counted) \/ Assign(x, n, begun)
    BY DEF CountPart, BeginCommit
  <1>5. PICK s \in {counted, begun} : Assign(x, n, s)
    BY <1>4
  <1>6. s \in SessionState /\ s.status \in {Current(x).status, "processing"}
    BY <1>2, <1>3
  <1> HIDE DEF counted, begun
  <1>7. Len(sessions[k]) \in 1..Len(sessions[k])
    BY CurrentObject
  <1>8. /\ Len(sessions'[k]) = Len(sessions[k])
        /\ sessions'[k][Len(sessions[k])] =
             IF k = x /\ Len(sessions[k]) = n THEN s ELSE sessions[k][Len(sessions[k])]
    BY <1>2, <1>5, <1>6, <1>7, AssignedOnly
  <1>9. Current(k)' = IF k = x THEN s ELSE Current(k)
    BY <1>8 DEF Current
  <1>10. QED
    BY <1>6, <1>9 DEF StatusMove

\* Whatever is saved as "processing" is the object SESSIONS holds.
LEMMA SavedProcessing ==
  ASSUME IInv, [Next]_vars, NEW k \in Keys, disk'[k] # disk[k], disk'[k].status = "processing"
  PROVE  sessions'[k] # <<>> /\ Current(k)'.status = "processing"
  <1>1. disk \in [Keys -> SessionState \cup {NoSession}]
    BY DEF IInv, TypeOK
  <1>2. ASSUME NEW x \in Keys, RecordSession(x)
        PROVE  sessions'[k] # <<>> /\ Current(k)'.status = "processing"
    <2>1. sessions[x] # <<>>
      BY <1>2, LenProperties DEF RecordSession, IInv, HeldObjects, At
    <2>2. disk' = [disk EXCEPT ![x] = Current(x)] /\ sessions' = sessions
      BY <1>2 DEF RecordSession, Save
    <2>3. x = k /\ disk'[k] = Current(k)
      BY <1>1, <2>2
    <2>4. QED
      BY <2>1, <2>2, <2>3 DEF Current
  <1>3. ASSUME NEW x \in Keys, NEW s \in SessionState, sessions[x] # <<>>,
               Assign(x, Len(sessions[x]), s), Save(x, s)
        PROVE  sessions'[k] # <<>> /\ Current(k)'.status = "processing"
    <2>1. x = k /\ disk'[k] = s
      BY <1>1, <1>3 DEF Save
    <2>2. /\ Len(sessions'[k]) = Len(sessions[k]) /\ sessions'[k][Len(sessions[k])] = s
          /\ Len(sessions[k]) \in 1..Len(sessions[k])
      BY <1>3, <2>1, CurrentObject, AssignedOnly
    <2>3. Current(k)' = s /\ sessions'[k] # <<>>
      BY <2>2 DEF Current
    <2>4. QED
      BY <2>1, <2>3
  <1>4. ASSUME NEW x \in Keys, CountPart(x)
        PROVE  sessions'[k] # <<>> /\ Current(k)'.status = "processing"
    <2> DEFINE s == [Current(x) EXCEPT !.parts = @ + 1]
    <2>1. sessions[x] # <<>>
      BY <1>4, LenProperties DEF CountPart, IInv, HeldObjects, At
    <2>2. s \in SessionState /\ Assign(x, Len(sessions[x]), s) /\ Save(x, s)
      BY <1>4, <2>1, CurrentObject, UpdateType DEF CountPart
    <2>3. QED
      BY <1>3, <2>1, <2>2
  <1>5. ASSUME NEW r \in Requests, NEW x \in Keys, NEW op \in Operators, BeginCommit(r, x, op)
        PROVE  sessions'[k] # <<>> /\ Current(k)'.status = "processing"
    <2> DEFINE s == [Current(x) EXCEPT !.status = "processing"]
    <2>1. sessions[x] # <<>> /\ Assign(x, Len(sessions[x]), s) /\ Save(x, s)
      BY <1>5 DEF BeginCommit
    <2>2. s \in SessionState
      BY <2>1, CurrentObject, UpdateType
    <2>3. QED
      BY <1>3, <2>1, <2>2
  <1>6. ASSUME NEW r \in Requests, CommitStep(r) PROVE FALSE
    <2>1. pc[r] \in InFlight
      BY <1>6 DEF CommitStep, AcquireLock, MergeFails, MergeDone, AcquireSlot, AudioDone,
         FramesDone, PacketFails, TakeRow, WriteArtifact, PublishReady, CountCommit, StageFails,
         FailCommit, InFlight, Critical, Publishing
    <2>2. State(r) \in SessionState
      BY <2>1, InFlightFacts
    <2>3. disk' = disk \/ \E s : Save(Key(r), s) /\ s.status \in {"ready", "failed"}
      BY <1>6, <2>2 DEF CommitStep, AcquireLock, MergeFails, MergeDone, AcquireSlot, AudioDone,
         FramesDone, PacketFails, TakeRow, WriteArtifact, PublishReady, CountCommit, StageFails,
         FailCommit, Failed, SessionState
    <2>4. PICK s : Save(Key(r), s) /\ s.status \in {"ready", "failed"}
      BY <2>3
    <2>5. disk'[k] = s
      BY <1>1, <2>4 DEF Save
    <2>6. QED
      BY <2>4, <2>5
  <1>7. QED
    BY <1>2, <1>4, <1>5, <1>6
       DEF Next, vars, HandlerStep, ChargeSession, StartSession, UploadPart, Crash, OrphanEnds, files

\* A handler about to record a session has the event loop.
LEMMA RecordNext ==
  ASSUME [Next]_vars, NEW k \in Keys, AboutToRecord(k)
  PROVE  \/ Crash \/ UNCHANGED vars
         \/ ChargeSession(k) /\ loop' = At("record", k)
         \/ RecordSession(k)
  <1>1. /\ loop # Idle /\ loop.at \in {"charge", "record"} /\ loop.id = k
        /\ \A r : loop # At("commit", r)
    BY DEF AboutToRecord, At, Idle
  <1>2. ASSUME NEW x \in Keys, NEW op \in Operators,
               \/ StartSession(x, op) \/ \E i \in PartIndexes : UploadPart(x, op, i)
               \/ \E r \in Requests : BeginCommit(r, x, op)
        PROVE  FALSE
    BY <1>1, <1>2 DEF StartSession, UploadPart, BeginCommit
  <1>3. ASSUME NEW r \in Requests, CommitStep(r) PROVE FALSE
    <2>1. Turn(r)
      BY <1>3 DEF CommitStep, AcquireLock, MergeFails, MergeDone, AcquireSlot, AudioDone,
         FramesDone, PacketFails, TakeRow, WriteArtifact, PublishReady, CountCommit, StageFails,
         FailCommit
    <2>2. QED
      BY <1>1, <2>1 DEF Turn
  <1>4. ASSUME NEW x \in Keys, HandlerStep(x)
        PROVE  (ChargeSession(k) /\ loop' = At("record", k)) \/ RecordSession(k)
    <2>1. x = k /\ ~CountPart(x)
      BY <1>1, <1>4 DEF HandlerStep, ChargeSession, RecordSession, CountPart, At
    <2>2. QED
      BY <1>4, <2>1 DEF HandlerStep, ChargeSession
  <1>5. ASSUME NEW r \in Requests, OrphanEnds(r) PROVE FALSE
    BY <1>1, <1>5 DEF OrphanEnds
  <1>6. QED
    BY <1>2, <1>3, <1>4, <1>5 DEF Next

LEMMA AccountedStep == ASSUME IInv, RecordsAccounted, [Next]_vars PROVE RecordsAccounted'
  <1> SUFFICES ASSUME NEW k \in Keys, disk'[k] # NoSession, disk'[k].status = "processing"
               PROVE  Accounted(k)'
    BY DEF RecordsAccounted, SaysProcessing
  <1>1. sessions \in [Keys -> Seq(SessionState)]
    BY DEF IInv, TypeOK
  <1>2. CASE Crash
    BY <1>2 DEF Crash, Accounted
  <1>3. ASSUME NEW op \in Operators, StartSession(k, op), loop' = At("charge", k)
        PROVE  Accounted(k)'
    BY <1>3 DEF Accounted, AboutToRecord, At
  <1>4. CASE disk'[k] # disk[k]
    BY <1>4, SavedProcessing DEF Accounted
  <1>5. CASE disk'[k] = disk[k] /\ ~Crash
             /\ ~\E op \in Operators : StartSession(k, op) /\ loop' = At("charge", k)
    <2>1. Accounted(k)
      BY <1>5 DEF RecordsAccounted, SaysProcessing
    <2>2. CASE UNCHANGED vars
      <3>1. sessions' = sessions /\ loop' = loop /\ Current(k)' = Current(k)
        BY <2>2 DEF vars, Current
      <3>2. QED
        BY <2>1, <3>1 DEF Accounted, AboutToRecord, At
    <2>3. CASE AboutToRecord(k) /\ ~UNCHANGED vars
      <3>1. CASE loop' = At("record", k)
        BY <3>1 DEF Accounted, AboutToRecord, At
      <3>2. CASE RecordSession(k)
        <4>1. sessions[k] # <<>>
          BY <3>2, LenProperties DEF RecordSession, IInv, HeldObjects, At
        <4>2. disk'[k] = Current(k) /\ sessions' = sessions
          BY <3>2 DEF RecordSession, Save, IInv, TypeOK
        <4>3. Current(k)' = Current(k)
          BY <4>2 DEF Current
        <4>4. QED
          BY <4>1, <4>2, <4>3 DEF Accounted
      <3>3. QED
        BY <1>5, <2>3, <3>1, <3>2, RecordNext
    <2>4. CASE ~AboutToRecord(k) /\ ~UNCHANGED vars
      <3>1. Len(sessions'[k]) = Len(sessions[k]) /\ sessions'[k] \in Seq(SessionState)
            /\ (sessions[k] # <<>> => StatusMove(k))
        <4>1. sessions'[k] \in Seq(SessionState)
          BY InvStep DEF IInv, TypeOK
        <4>2. CASE sessions'[k] = sessions[k]
          <5>1. Current(k)' = Current(k)
            BY <4>2 DEF Current
          <5>2. QED
            BY <4>1, <4>2, <5>1 DEF StatusMove
        <4>3. ASSUME NEW x \in Keys, NEW op \in Operators, StartSession(x, op)
              PROVE  sessions'[k] = sessions[k]
          BY <1>1, <1>5, <4>3 DEF StartSession
        <4>4. ASSUME NEW x \in Keys, ChargeSession(x) \/ RecordSession(x)
              PROVE  sessions'[k] = sessions[k]
          BY <4>4 DEF ChargeSession, RecordSession
        <4>5. ASSUME NEW x \in Keys, NEW op \in Operators, NEW i \in PartIndexes, UploadPart(x, op, i)
              PROVE  sessions'[k] = sessions[k]
          BY <4>5 DEF UploadPart
        <4>6. ASSUME NEW x \in Keys,
                     CountPart(x) \/ \E r \in Requests, op \in Operators : BeginCommit(r, x, op)
              PROVE  Len(sessions'[k]) = Len(sessions[k]) /\ (sessions[k] # <<>> => StatusMove(k))
          BY <4>6, LensKept, OtherMoves
        <4>7. ASSUME NEW r \in Requests, CommitStep(r)
              PROVE  Len(sessions'[k]) = Len(sessions[k]) /\ (sessions[k] # <<>> => StatusMove(k))
          BY <4>7, LensKept, CommitMoves
        <4>8. ASSUME NEW r \in Requests, OrphanEnds(r)
              PROVE  sessions'[k] = sessions[k]
          BY <4>8 DEF OrphanEnds
        <4>9. QED
          BY <1>5, <2>4, <4>1, <4>2, <4>3, <4>4, <4>5, <4>6, <4>7, <4>8 DEF Next, HandlerStep
      <3>2. CASE sessions[k] = <<>>
        <4>1. MayCrash /\ Len(sessions[k]) = 0
          BY <2>1, <2>4, <3>2 DEF Accounted
        <4>2. sessions'[k] = <<>>
          BY <3>1, <4>1, EmptySeq
        <4>3. QED
          BY <4>1, <4>2 DEF Accounted
      <3>3. CASE sessions[k] # <<>>
        <4>1. sessions[k] \in Seq(SessionState) /\ Len(sessions[k]) \in Nat \ {0}
          BY <1>1, <3>3, EmptySeq
        <4>2. sessions'[k] # <<>>
          BY <3>1, <4>1, EmptySeq
        <4>3. Current(k).status = "processing" \/ (Current(k).status = "failed" /\ LogFaults)
          BY <2>1, <2>4, <3>3 DEF Accounted
        <4>4. Current(k)'.status = "processing" \/ (Current(k)'.status = "failed" /\ LogFaults)
          BY <3>1, <3>3, <4>3 DEF StatusMove
        <4>5. QED
          BY <4>2, <4>4 DEF Accounted
      <3>4. QED
        BY <3>2, <3>3
    <2>5. QED
      BY <2>2, <2>3, <2>4
  <1>6. QED
    BY <1>2, <1>3, <1>4, <1>5

\* A client that sees "processing" is waiting for a stop-commit at work, or the
\* process was restarted, or the incident of the failure could not be written.
THEOREM ProcessingIsAccounted == Spec => []ProcessingIsExplained
  <1>1. Init => RecordsAccounted
    BY DEF Init, RecordsAccounted, SaysProcessing
  <1>2. IInv /\ RecordsAccounted /\ [Next]_vars => RecordsAccounted'
    BY AccountedStep
  <1>3. IInv /\ RecordsAccounted /\ ProcessingHasAWorker => ProcessingIsExplained
    <2> SUFFICES ASSUME IInv, RecordsAccounted, ProcessingHasAWorker, loop = Idle,
                        NEW k \in Keys, disk[k] # NoSession, disk[k].status = "processing"
                 PROVE  \/ \E r \in Requests : pc[r] \in InFlight /\ Key(r) = k
                        \/ sessions[k] = <<>> /\ MayCrash
                        \/ sessions[k] # <<>> /\ Current(k).status = "failed" /\ LogFaults
      BY DEF ProcessingIsExplained
    <2>1. Accounted(k) /\ ~AboutToRecord(k)
      BY DEF RecordsAccounted, SaysProcessing, AboutToRecord, At, Idle
    <2>2. CASE sessions[k] # <<>> /\ Current(k).status = "processing"
      <3>1. Len(sessions[k]) \in DOMAIN sessions[k]
        BY <2>2, CurrentObject, LenProperties DEF IInv, TypeOK
      <3>2. QED
        BY <2>2, <3>1 DEF ProcessingHasAWorker, Current
    <2>3. QED
      BY <2>1, <2>2 DEF Accounted
  <1>4. QED
    BY <1>1, <1>2, <1>3, Invariance, ProcessingIsWorkedOn, PTL DEF Spec

-----------------------------------------------------------------------------
(***************************************************************************)
(* Stop-commits that run beside each other.  A merged file is not touched   *)
(* by another commit of the user while the request that made it is at work *)
(* on it, because they take turns at the lock.  The packets the requests submit keep the promise of      *)
(* PacketGate: the packet of a job is where the stage of its request says, *)
(* and a retry opens the next packet and fails the one before.  And what   *)
(* a request saves at its end, which it runs through with the event loop   *)
(* held, leaves record, objects and artifacts of a session in agreement.   *)
(***************************************************************************)

-----------------------------------------------------------------------------
(* The merged file. *)

\* Merged files change only at the end of a merge and of an extraction, each step
\* one file, or when a merge ends that outlived its process.
LEMMA FinalsMove ==
  ASSUME IInv, [Next]_vars, NEW file \in Outputs, finals'[file] # finals[file]
  PROVE  \E t \in Requests :
           /\ OutputOf[Key(t)] = file
           /\ OrphanEnds(t) \/ MergeDone(t) \/ MergeFails(t) \/ FramesDone(t)
  <1>1. \E t \in Requests :
          /\ \E content : WriteFinal(t, content)
          /\ OrphanEnds(t) \/ MergeDone(t) \/ MergeFails(t) \/ FramesDone(t)
    BY DEF Next, vars, files, StartSession, UploadPart, BeginCommit, HandlerStep, ChargeSession,
       RecordSession, CountPart, CommitStep, AcquireLock, AcquireSlot, AudioDone, PacketFails,
       TakeRow, WriteArtifact, PublishReady, CountCommit, StageFails, FailCommit, Crash,
       MergeDone, MergeFails, FramesDone, OrphanEnds
  <1>2. PICK t \in Requests :
          /\ \E content : WriteFinal(t, content)
          /\ OrphanEnds(t) \/ MergeDone(t) \/ MergeFails(t) \/ FramesDone(t)
    BY <1>1
  <1>3. OutputOf[Key(t)] = file
    <2>1. PICK content : WriteFinal(t, content)
      BY <1>2
    <2>2. finals' = [finals EXCEPT ![OutputOf[Key(t)]] = content]
      BY <2>1 DEF WriteFinal
    <2>3. DOMAIN finals = Outputs
      BY DEF IInv, TypeOK
    <2>4. QED
      BY <2>2, <2>3
  <1>4. QED
    BY <1>2, <1>3

\* While a request waits for its extraction or extracts, no other commit of its user
\* writes or purges its merged file, however many there are and however they fail:
\* what does is a commit of a user whose ids yield that name, or an orphan.
THEOREM MergesIsolated == Spec => MergeLeftAlone
  <1> DEFINE after == {"slot", "audio", "frames"}
             left(r) ==
               pc[r] \in after /\ pc'[r] \in after /\ finals'[OutputOf[Key(r)]] # finals[OutputOf[Key(r)]] =>
                 \E t \in Requests :
                   /\ OutputOf[Key(t)] = OutputOf[Key(r)]
                   /\ OrphanEnds(t) \/ (CommitStep(t) /\ UserOf[Key(t)] # UserOf[Key(r)])
  <1>1. IInv /\ OneCommitPerUser /\ [Next]_vars => \A r \in Requests : left(r)
    <2> SUFFICES ASSUME IInv, OneCommitPerUser, [Next]_vars,
                        NEW r \in Requests, pc[r] \in after, pc'[r] \in after,
                        finals'[OutputOf[Key(r)]] # finals[OutputOf[Key(r)]]
                 PROVE  \E t \in Requests :
                          /\ OutputOf[Key(t)] = OutputOf[Key(r)]
                          /\ OrphanEnds(t) \/ (CommitStep(t) /\ UserOf[Key(t)] # UserOf[Key(r)])
      OBVIOUS
    <2>1. pc[r] \in Critical /\ OutputOf[Key(r)] \in Outputs
      BY InFlightFacts, StageFacts DEF Critical
    <2>2. PICK t \in Requests :
            /\ OutputOf[Key(t)] = OutputOf[Key(r)]
            /\ OrphanEnds(t) \/ MergeDone(t) \/ MergeFails(t) \/ FramesDone(t)
      BY <2>1, FinalsMove
    <2>3. CASE OrphanEnds(t)
      BY <2>2, <2>3
    <2>4. CASE MergeDone(t) \/ MergeFails(t) \/ FramesDone(t)
      <3>1. CommitStep(t) /\ pc[t] \in Critical
        BY <2>4 DEF CommitStep, MergeDone, MergeFails, FramesDone, Critical
      <3>2. t # r
        BY <2>4 DEF MergeDone, MergeFails, FramesDone, Goto, IInv, TypeOK
      <3>3. UserOf[Key(t)] # UserOf[Key(r)]
        BY <2>1, <3>1, <3>2 DEF OneCommitPerUser
      <3>4. QED
        BY <2>2, <3>1, <3>3
    <2>5. QED
      BY <2>2, <2>3, <2>4
  <1>2. QED
    BY <1>1, Invariance, CommitsSerialized, PTL DEF Spec, MergeLeftAlone

-----------------------------------------------------------------------------
(* What the interceptor promises.  The invariant ties the packet of a job   *)
(* to the stage of its request and the slots to the stages of extraction.  *)

Extracting == {"audio", "frames"}

PacketPlaces ==
  \A r \in Requests :
    /\ pc[r] \in {"idle", "lock", "merge", "orphan"} => job[r].packet = "none"
    /\ pc[r] \in Extracting \cup {"slot"} => job[r].packet = "processing"
    /\ job[r].packet = "processing" => job[r].tries \in 1..MaxAttempts
    /\ r \in running <=> pc[r] \in Extracting

SlotsBounded == IsFiniteSet(running) /\ Cardinality(running) <= MaxConcurrent

SlotInv == PacketPlaces /\ SlotsBounded

SlotKept(r) == r \in running' <=> r \in running

\* What a step is to the packet of a request.
Begins(r) == pc[r] = "idle" /\ pc'[r] = "lock" /\ job'[r].packet = "none" /\ SlotKept(r)
Merges(r) ==
  /\ pc[r] \in {"lock", "merge"} /\ pc'[r] \in {"merge", "fail"}
  /\ job'[r].packet = job[r].packet /\ SlotKept(r)
Submits(r) ==
  /\ pc[r] = "merge" /\ pc'[r] = "slot"
  /\ job'[r].packet = "processing" /\ job'[r].tries = 1 /\ SlotKept(r)
Enters(r) == pc[r] = "slot" /\ pc'[r] = "audio" /\ job'[r] = job[r] /\ r \in running'
GoesOn(r) ==
  /\ \/ pc[r] = pc'[r]
     \/ pc[r] = "audio" /\ pc'[r] = "frames"
     \/ pc[r] \in Publishing \cup {"row", "fail"} /\ pc'[r] \in Publishing \cup {"fail", "ok", "error"}
  /\ job'[r] = job[r] /\ SlotKept(r)
Settles(r) ==
  /\ pc[r] \in Extracting /\ pc'[r] \in {"row", "fail"}
  /\ job'[r].packet \in {"ready", "failed"} /\ job'[r].tries = job[r].tries /\ r \notin running'
Resubmits(r) ==
  /\ pc[r] \in Extracting /\ pc'[r] = "slot" /\ job[r].tries < MaxAttempts
  /\ job'[r].packet = "processing" /\ job'[r].tries = job[r].tries + 1 /\ r \notin running'
Drops(r) ==
  /\ \/ pc'[r] = IF pc[r] \in InFlight THEN "dropped" ELSE pc[r]
     \/ pc[r] = "merge" /\ pc'[r] = "orphan"
  /\ job'[r] = job[r] /\ r \notin running'
Outlives(r) == pc[r] = "orphan" /\ pc'[r] = "dropped" /\ job'[r] = job[r] /\ SlotKept(r)

Move(r) ==
  \/ Begins(r) \/ Merges(r) \/ Submits(r) \/ Enters(r) \/ GoesOn(r)
  \/ Settles(r) \/ Resubmits(r) \/ Drops(r) \/ Outlives(r)

LEMMA OwnMove == ASSUME IInv, NEW r \in Requests, CommitStep(r) PROVE Move(r)
  <1>1. job \in [Requests -> Job] /\ pc \in [Requests -> Stages] /\ job[r] \in Job
    BY DEF IInv, TypeOK
  <1>2. CASE AcquireLock(r) \/ MergeFails(r)
    <2>1. \E n : Merge(r, n)
      BY <1>2 DEF AcquireLock, MergeFails
    <2>2. pc[r] \in {"lock", "merge"} /\ running' = running
      BY <1>2 DEF AcquireLock, MergeFails
    <2>3. pc'[r] \in {"merge", "fail"} /\ job'[r].packet = job[r].packet
      BY <1>1, <2>1 DEF Merge, Goto, Job
    <2>4. QED
      BY <2>2, <2>3 DEF Move, Merges, SlotKept
  <1>3. CASE MergeDone(r)
    BY <1>1, <1>3 DEF MergeDone, Submit, Goto, Job, Move, Submits, SlotKept
  <1>4. CASE AcquireSlot(r)
    BY <1>1, <1>4 DEF AcquireSlot, Goto, Move, Enters
  <1>5. CASE AudioDone(r)
    BY <1>1, <1>5 DEF AudioDone, Goto, Move, GoesOn, SlotKept
  <1>6. CASE FramesDone(r)
    BY <1>1, <1>6 DEF FramesDone, Goto, Job, Move, Settles, Extracting
  <1>7. CASE PacketFails(r)
    <2>1. pc[r] \in Extracting /\ r \notin running'
      BY <1>7 DEF PacketFails, Extracting
    <2>2. CASE /\ job' = [job EXCEPT ![r].packet = "failed"]
               /\ Goto(r, "row") \/ Goto(r, "fail")
      BY <1>1, <2>1, <2>2 DEF Goto, Job, Move, Settles
    <2>3. CASE job[r].tries < MaxAttempts /\ Submit(r, job[r].tries + 1)
      BY <1>1, <2>1, <2>3 DEF Submit, Goto, Job, Move, Resubmits
    <2>4. QED
      BY <1>7, <2>2, <2>3 DEF PacketFails
  <1>8. CASE \/ TakeRow(r) \/ WriteArtifact(r) \/ PublishReady(r)
             \/ CountCommit(r) \/ StageFails(r) \/ FailCommit(r)
    <2>1. job' = job /\ running' = running
      BY <1>8 DEF TakeRow, WriteArtifact, PublishReady, CountCommit, StageFails, FailCommit
    <2>2. pc[r] \in Publishing \cup {"row", "fail"} /\ pc'[r] \in Publishing \cup {"fail", "ok", "error"}
      BY <1>1, <1>8 DEF TakeRow, WriteArtifact, PublishReady, CountCommit, StageFails, FailCommit,
         Goto, Publishing, Artifacts, NextStage
    <2>3. QED
      BY <2>1, <2>2 DEF Move, GoesOn, SlotKept
  <1>9. QED
    BY <1>2, <1>3, <1>4, <1>5, <1>6, <1>7, <1>8 DEF CommitStep

LEMMA OthersMove ==
  ASSUME IInv, NEW r \in Requests, NEW t \in Requests \ {r}, CommitStep(t)
  PROVE  GoesOn(r)
  <1>1. job \in [Requests -> Job] /\ pc \in [Requests -> Stages]
    BY DEF IInv, TypeOK
  <1>2. pc'[r] = pc[r]
    BY <1>1 DEF CommitStep, AcquireLock, MergeFails, Merge, MergeDone, Submit, AcquireSlot,
       AudioDone, FramesDone, PacketFails, TakeRow, WriteArtifact, PublishReady, CountCommit,
       StageFails, FailCommit, Goto
  <1>3. job'[r] = job[r]
    BY <1>1 DEF CommitStep, AcquireLock, MergeFails, Merge, MergeDone, Submit, AcquireSlot,
       AudioDone, FramesDone, PacketFails, TakeRow, WriteArtifact, PublishReady, CountCommit,
       StageFails, FailCommit
  <1>4. SlotKept(r)
    BY DEF CommitStep, AcquireLock, MergeFails, MergeDone, AcquireSlot, AudioDone, FramesDone,
       PacketFails, TakeRow, WriteArtifact, PublishReady, CountCommit, StageFails, FailCommit,
       SlotKept
  <1>5. QED
    BY <1>2, <1>3, <1>4 DEF GoesOn

LEMMA Moves == ASSUME IInv, [Next]_vars, NEW r \in Requests PROVE Move(r)
  <1>1. job \in [Requests -> Job] /\ pc \in [Requests -> Stages]
    BY DEF IInv, TypeOK
  <1>2. ASSUME NEW t \in Requests, CommitStep(t) PROVE Move(r)
    BY <1>2, OwnMove, OthersMove DEF Move
  <1>3. ASSUME NEW t \in Requests, NEW k \in Keys, NEW op \in Operators, BeginCommit(t, k, op)
        PROVE  Move(r)
    <2>1. /\ pc[t] = "idle" /\ pc' = [pc EXCEPT ![t] = "lock"] /\ running' = running
          /\ job' = [job EXCEPT ![t] = NewJob(k, Len(sessions[k]))]
      BY <1>3 DEF BeginCommit, Goto
    <2>2. CASE t = r
      BY <1>1, <2>1, <2>2 DEF NewJob, Move, Begins, SlotKept
    <2>3. CASE t # r
      BY <1>1, <2>1, <2>3 DEF Move, GoesOn, SlotKept
    <2>4. QED
      BY <2>2, <2>3
  <1>4. ASSUME UNCHANGED <<running, pc, job>> PROVE Move(r)
    BY <1>4 DEF Move, GoesOn, SlotKept
  <1>5. CASE Crash
    BY <1>5, CrashStages DEF Crash, Move, Drops
  <1>6. ASSUME NEW t \in Requests, OrphanEnds(t) PROVE Move(r)
    BY <1>1, <1>6 DEF OrphanEnds, Goto, Move, Outlives, GoesOn, SlotKept
  <1>7. QED
    BY <1>2, <1>3, <1>4, <1>5, <1>6 DEF Next, vars, StartSession, UploadPart, HandlerStep, ChargeSession,
       RecordSession, CountPart

LEMMA SlotsStep == ASSUME IInv, SlotInv, [Next]_vars PROVE SlotsBounded'
  <1>1. IsFiniteSet(running) /\ Cardinality(running) <= MaxConcurrent /\ Cardinality(running) \in Nat
    BY FS_CardinalityType DEF SlotInv, SlotsBounded
  <1>2. MaxConcurrent \in Nat
    BY LimitsAssumption
  <1>3. CASE running' = running
    BY <1>1, <1>3 DEF SlotsBounded
  <1>4. ASSUME NEW r \in Requests, running' = running \ {r} PROVE SlotsBounded'
    BY <1>1, <1>2, <1>4, FS_RemoveElement DEF SlotsBounded
  <1>5. ASSUME NEW r \in Requests, AcquireSlot(r) PROVE SlotsBounded'
    <2>1. running' = running \cup {r} /\ Cardinality(running) < MaxConcurrent
      BY <1>5 DEF AcquireSlot, SlotFree
    <2>2. QED
      BY <1>1, <1>2, <2>1, FS_AddElement DEF SlotsBounded
  <1>6. CASE running' = {}
    BY <1>2, <1>6, FS_EmptySet DEF SlotsBounded
  <1>7. QED
    BY <1>3, <1>4, <1>5, <1>6 DEF Next, vars, StartSession, UploadPart, BeginCommit, HandlerStep,
       ChargeSession, RecordSession, CountPart, CommitStep, AcquireLock, MergeFails, MergeDone,
       AudioDone, FramesDone, PacketFails, TakeRow, WriteArtifact, PublishReady, CountCommit,
       StageFails, FailCommit, Crash, OrphanEnds

LEMMA PlacesStep == ASSUME IInv, SlotInv, [Next]_vars PROVE PacketPlaces'
  <1> SUFFICES ASSUME NEW r \in Requests
               PROVE  /\ pc'[r] \in {"idle", "lock", "merge", "orphan"} => job'[r].packet = "none"
                      /\ pc'[r] \in Extracting \cup {"slot"} => job'[r].packet = "processing"
                      /\ job'[r].packet = "processing" => job'[r].tries \in 1..MaxAttempts
                      /\ r \in running' <=> pc'[r] \in Extracting
    BY DEF PacketPlaces
  <1>1. /\ pc[r] \in {"idle", "lock", "merge", "orphan"} => job[r].packet = "none"
        /\ pc[r] \in Extracting \cup {"slot"} => job[r].packet = "processing"
        /\ job[r].packet = "processing" => job[r].tries \in 1..MaxAttempts
        /\ r \in running <=> pc[r] \in Extracting
    BY DEF SlotInv, PacketPlaces
  <1>2. Move(r)
    BY Moves
  <1>3. MaxAttempts \in Nat \ {0} /\ pc[r] \in Stages
    BY LimitsAssumption DEF IInv, TypeOK
  <1>4. CASE Begins(r)
    BY <1>1, <1>4 DEF Begins, Extracting, SlotKept
  <1>5. CASE Merges(r)
    BY <1>1, <1>5 DEF Merges, Extracting, SlotKept
  <1>6. CASE Submits(r)
    BY <1>1, <1>3, <1>6 DEF Submits, Extracting, SlotKept
  <1>7. CASE Enters(r)
    BY <1>1, <1>7 DEF Enters, Extracting
  <1>8. CASE GoesOn(r)
    BY <1>1, <1>8 DEF GoesOn, Extracting, SlotKept, Publishing, Artifacts
  <1>9. CASE Settles(r)
    BY <1>1, <1>9 DEF Settles, Extracting
  <1>10. CASE Resubmits(r)
    BY <1>1, <1>3, <1>10 DEF Resubmits, Extracting
  <1>11. CASE Drops(r)
    BY <1>1, <1>11 DEF Drops, Extracting, InFlight, Critical
  <1>12. CASE Outlives(r)
    BY <1>1, <1>12 DEF Outlives, Extracting, SlotKept
  <1>13. QED
    BY <1>2, <1>4, <1>5, <1>6, <1>7, <1>8, <1>9, <1>10, <1>11, <1>12 DEF Move

LEMMA SlotInvariance == Spec => []SlotInv
  <1>1. Init => SlotInv
    BY FS_EmptySet, LimitsAssumption
       DEF Init, SlotInv, PacketPlaces, SlotsBounded, NoJob, NewJob, Extracting
  <1>2. IInv /\ SlotInv /\ [Next]_vars => SlotInv'
    BY PlacesStep, SlotsStep DEF SlotInv
  <1>3. QED
    BY <1>1, <1>2, Invariance, PTL DEF Spec

\* The packets worked on, and those whose outcome a handler has.
Worked == {<<r, job[r].tries>> : r \in running}
Handed == {p \in Packets : p[2] = job[p[1]].tries /\ job[p[1]].packet \in {"ready", "failed"}}

\* PacketStatus, case by case, before a step and after it.
StatusOf(tries, packet, stage, n) ==
  IF packet = "none" \/ n > tries THEN "none"
  ELSE IF n < tries THEN "failed"
  ELSE IF packet = "processing" /\ stage = "dropped" THEN "lost"
  ELSE packet

LEMMA StatusFacts ==
  ASSUME IInv, IInv', NEW r \in Requests, NEW n \in 1..MaxAttempts
  PROVE  /\ PacketStatus(<<r, n>>) = StatusOf(job[r].tries, job[r].packet, pc[r], n)
         /\ PacketStatus(<<r, n>>)' = StatusOf(job'[r].tries, job'[r].packet, pc'[r], n)
         /\ job[r].tries \in Nat /\ job'[r].tries \in Nat /\ n \in Nat
  <1>1. /\ job[r].tries \in Nat /\ job'[r].tries \in Nat /\ n \in Nat
    <2>1. job \in [Requests -> Job] /\ job' \in [Requests -> Job]
      BY DEF IInv, TypeOK
    <2>2. job[r] \in Job /\ job'[r] \in Job
      BY <2>1
    <2>3. QED
      BY <2>2, LimitsAssumption DEF Job
  <1>2. PacketStatus(<<r, n>>) = StatusOf(job[r].tries, job[r].packet, pc[r], n)
    BY <1>1 DEF PacketStatus, StatusOf
  <1>3. PacketStatus(<<r, n>>)' = StatusOf(job'[r].tries, job'[r].packet, pc'[r], n)
    BY <1>1 DEF PacketStatus, StatusOf
  <1>4. QED
    BY <1>1, <1>2, <1>3

\* A packet opens, settles under a worker, or is lost with the process.
LEMMA StatusStep ==
  ASSUME IInv, IInv', SlotInv, [Next]_vars, NEW r \in Requests, NEW n \in 1..MaxAttempts
  PROVE  LET old == PacketStatus(<<r, n>>)
             new == PacketStatus(<<r, n>>)'
         IN  \/ new = old
             \/ old = "none" /\ new = "processing"
             \/ old = "processing" /\ new = "lost"
             \/ old = "processing" /\ <<r, n>> \in Worked /\ new \in {"ready", "failed"}
  <1> DEFINE old == StatusOf(job[r].tries, job[r].packet, pc[r], n)
             new == StatusOf(job'[r].tries, job'[r].packet, pc'[r], n)
  <1> SUFFICES \/ new = old
               \/ old = "none" /\ new = "processing"
               \/ old = "processing" /\ new = "lost"
               \/ old = "processing" /\ <<r, n>> \in Worked /\ new \in {"ready", "failed"}
    BY StatusFacts
  <1>1. /\ pc[r] \in {"idle", "lock", "merge", "orphan"} => job[r].packet = "none"
        /\ pc[r] \in Extracting \cup {"slot"} => job[r].packet = "processing"
        /\ job[r].packet = "processing" => job[r].tries \in 1..MaxAttempts
        /\ r \in running <=> pc[r] \in Extracting
    BY DEF SlotInv, PacketPlaces
  <1>2. /\ job[r].packet \in {"none", "processing", "ready", "failed"}
        /\ job[r].tries \in Nat /\ job'[r].tries \in Nat /\ n \in 1..MaxAttempts /\ n \in Nat
        /\ MaxAttempts \in Nat
    BY StatusFacts, LimitsAssumption DEF IInv, TypeOK, Job
  <1>3. r \in running /\ n = job[r].tries => <<r, n>> \in Worked
    BY DEF Worked
  <1>4. Move(r)
    BY Moves
  <1>5. CASE Begins(r) \/ Merges(r)
    BY <1>1, <1>5 DEF Begins, Merges, StatusOf
  <1>6. CASE Submits(r)
    BY <1>1, <1>2, <1>6 DEF Submits, StatusOf
  <1>7. CASE Enters(r) \/ GoesOn(r)
    <2>1. job'[r] = job[r] /\ (pc[r] = "dropped" <=> pc'[r] = "dropped")
      BY <1>7 DEF Enters, GoesOn, Publishing, Artifacts
    <2>2. QED
      BY <2>1 DEF StatusOf
  <1>8. CASE Settles(r)
    BY <1>1, <1>2, <1>3, <1>8 DEF Settles, StatusOf, Extracting
  <1>9. CASE Resubmits(r)
    BY <1>1, <1>2, <1>3, <1>9 DEF Resubmits, StatusOf, Extracting
  <1>10. CASE Drops(r)
    <2>1. job'[r] = job[r] /\ (pc[r] = "dropped" => pc'[r] = "dropped")
      BY <1>10 DEF Drops, InFlight, Critical, Publishing, Artifacts
    <2>2. QED
      BY <2>1 DEF StatusOf
  <1>11. CASE Outlives(r)
    BY <1>1, <1>11 DEF Outlives, StatusOf
  <1>12. QED
    BY <1>4, <1>5, <1>6, <1>7, <1>8, <1>9, <1>10, <1>11 DEF Move

\* What is worked on after a step was open before it and still is.
LEMMA WorkedStep ==
  ASSUME IInv, IInv', SlotInv, SlotInv', [Next]_vars, NEW r \in Requests, r \in running'
  PROVE  \E n \in 1..MaxAttempts :
           /\ n = job'[r].tries
           /\ PacketStatus(<<r, n>>) = "processing"
           /\ PacketStatus(<<r, n>>)' = "processing"
  <1>1. /\ pc[r] \in Extracting \cup {"slot"} => job[r].packet = "processing"
        /\ job[r].packet = "processing" => job[r].tries \in 1..MaxAttempts
        /\ r \in running <=> pc[r] \in Extracting
    BY DEF SlotInv, PacketPlaces
  <1>2. pc'[r] \in Extracting /\ job'[r].packet = "processing"
    BY DEF SlotInv, PacketPlaces
  <1>3. pc[r] \in Extracting \cup {"slot"} /\ job'[r] = job[r]
    BY <1>1, <1>2, Moves DEF Move, Begins, Merges, Submits, Enters, GoesOn, Settles, Resubmits,
       Drops, Outlives, Extracting, SlotKept
  <1>4. job[r].tries \in 1..MaxAttempts /\ job[r].packet = "processing" /\ pc[r] # "dropped"
    BY <1>1, <1>3 DEF Extracting
  <1>5. PICK n \in 1..MaxAttempts : n = job[r].tries
    BY <1>4
  <1>6. /\ PacketStatus(<<r, n>>) = StatusOf(job[r].tries, job[r].packet, pc[r], n)
        /\ PacketStatus(<<r, n>>)' = StatusOf(job'[r].tries, job'[r].packet, pc'[r], n)
        /\ n \in Nat
    BY StatusFacts
  <1>7. PacketStatus(<<r, n>>) = "processing" /\ PacketStatus(<<r, n>>)' = "processing"
    BY <1>2, <1>3, <1>4, <1>5, <1>6 DEF StatusOf, Extracting
  <1>8. QED
    BY <1>3, <1>5, <1>7

\* A handler keeps the outcome it has.
LEMMA HandedStep ==
  ASSUME IInv, SlotInv, [Next]_vars
  PROVE  Handed \subseteq Handed'
  <1> SUFFICES ASSUME NEW r \in Requests, NEW n \in 1..MaxAttempts, n = job[r].tries,
                      job[r].packet \in {"ready", "failed"}
               PROVE  n = job'[r].tries /\ job'[r].packet \in {"ready", "failed"}
    BY DEF Handed, Packets
  <1>1. /\ pc[r] \in {"idle", "lock", "merge", "orphan"} => job[r].packet = "none"
        /\ pc[r] \in Extracting \cup {"slot"} => job[r].packet = "processing"
    BY DEF SlotInv, PacketPlaces
  <1>2. job'[r] = job[r]
    BY <1>1, Moves DEF Move, Begins, Merges, Submits, Enters, GoesOn, Settles, Resubmits, Drops,
       Outlives
  <1>3. QED
    BY <1>2

\* No more packets are worked on than slots are taken.
LEMMA WorkedCount == ASSUME SlotInv' PROVE Cardinality(Worked') <= MaxConcurrent
  <1> DEFINE f == [r \in running' |-> <<r, job'[r].tries>>]
  <1>1. f \in Surjection(running', Worked')
    BY DEF Surjection, Worked
  <1>2. IsFiniteSet(running') /\ Cardinality(running') <= MaxConcurrent
    BY DEF SlotInv, SlotsBounded
  <1>3. IsFiniteSet(Worked') /\ Cardinality(Worked') <= Cardinality(running')
    BY <1>1, <1>2, FS_Surjection
  <1>4. Cardinality(Worked') \in Nat /\ Cardinality(running') \in Nat /\ MaxConcurrent \in Nat
    BY <1>2, <1>3, FS_CardinalityType, LimitsAssumption
  <1>5. QED
    BY <1>2, <1>3, <1>4

\* Whatever stop-commits come, fail and are tried again, and wherever the process
\* dies, what they do with their packets is what PacketGate promises.
THEOREM StopCommitsKeepTheGate == Spec => ImplementsGate
  <1> DEFINE shown == [p \in Packets |-> PacketStatus(p)]
  <1>1. Init => Gate!Init
    BY DEF Init, Gate!Init, PacketStatus, NoJob, NewJob, Packets
  <1>2. IInv /\ IInv' /\ SlotInv /\ SlotInv' /\ [Next]_vars => [Gate!Step]_<<shown, Worked, Handed>>
    <2> SUFFICES ASSUME IInv, IInv', SlotInv, SlotInv', [Next]_vars PROVE Gate!Step
      BY DEF Gate!Step
    <2>1. \A p \in Packets : PacketStatus(p)' \in Gate!Becomes(p)
      BY StatusStep DEF Packets, Gate!Becomes, Gate!Final, Worked
    <2>2. \A p \in Worked' : p \in Packets /\ PacketStatus(p)' = "processing" /\ PacketStatus(p) = "processing"
      <3> SUFFICES ASSUME NEW p \in Worked'
                   PROVE  p \in Packets /\ PacketStatus(p)' = "processing" /\ PacketStatus(p) = "processing"
        OBVIOUS
      <3>1. PICK r \in running' : p = <<r, job'[r].tries>>
        BY DEF Worked
      <3>2. r \in Requests
        BY DEF IInv, TypeOK
      <3>3. PICK n \in 1..MaxAttempts : /\ n = job'[r].tries
                                        /\ PacketStatus(<<r, n>>) = "processing"
                                        /\ PacketStatus(<<r, n>>)' = "processing"
        BY <3>2, WorkedStep
      <3>4. p = <<r, n>>
        BY <3>1, <3>3
      <3>5. QED
        BY <3>2, <3>3, <3>4 DEF Packets
    <2>3. Gate!Cardinality(Worked') <= MaxConcurrent
      <3>1. Cardinality(Worked') <= MaxConcurrent
        BY WorkedCount
      <3>2. Gate!Cardinality(Worked') = Cardinality(Worked')
        BY DEF Gate!Cardinality, Cardinality
      <3>3. QED
        BY <3>1, <3>2
    <2>4. Handed \subseteq Handed'
      BY HandedStep
    <2>5. \A p \in Handed' : PacketStatus(p)' \in Gate!Final
      <3>1. SUFFICES ASSUME NEW r \in Requests, NEW n \in 1..MaxAttempts, n = job'[r].tries,
                            job'[r].packet \in {"ready", "failed"}
                     PROVE  PacketStatus(<<r, n>>)' \in {"ready", "failed"}
        BY DEF Handed, Packets, Gate!Final
      <3>2. QED
        BY <3>1, StatusFacts DEF StatusOf
    <2>6. QED
      BY <2>1, <2>2, <2>3, <2>4, <2>5 DEF Gate!Step, Worked, Handed
  <1>3. QED
    BY <1>1, <1>2, Invariance, SlotInvariance, PTL DEF Spec, ImplementsGate, Gate!Spec, Gate!gate, Worked, Handed

-----------------------------------------------------------------------------
(* Memory and files.  Between two handlers the saved record of a session is *)
(* the object that SESSIONS holds for it, or that of a stop-commit that     *)
(* ended after the session was started again.  Inside them it may lag, and does *)
(* so only while a start is being charged and recorded or a stop-commit has *)
(* the loop to the end of its tail, where it saves on both ways out.        *)

LastStages == Publishing \cup {"fail"}

LastStepsHeld == \A r \in Requests : pc[r] \in LastStages => loop = At("commit", r)
Finishing(k) == \E r \in Requests : pc[r] \in LastStages /\ Key(r) = k
ChargedAreSaved == \A r \in Requests : pc[r] = "charge" => disk[Key(r)] = State(r)
Matched ==
  \A k \in Keys :
    sessions[k] # <<>> /\ ~AboutToRecord(k) /\ ~Finishing(k) => disk[k] = Current(k) \/ OlderSaved(k)

SaveInv == LastStepsHeld /\ ChargedAreSaved /\ Matched

LEMMA LastStagesFacts ==
  /\ Publishing \subseteq LastStages /\ "fail" \in LastStages /\ LastStages \subseteq InFlight
  /\ {"transcript", "ready", "charge"} \subseteq Publishing
  /\ \A stage \in {"idle", "lock", "merge", "slot", "audio", "frames", "row", "ok", "error", "dropped", "orphan"} :
       stage \notin LastStages
  BY DEF LastStages, Publishing, Artifacts, InFlight, Critical

\* A request that is at its end has the loop until it is there.
LEMMA LastSteps ==
  ASSUME IInv, LastStepsHeld, [Next]_vars, NEW r \in Requests, pc[r] \in LastStages
  PROVE  \/ UNCHANGED vars \/ Crash
         \/ /\ WriteArtifact(r) \/ PublishReady(r) \/ StageFails(r)
            /\ pc'[r] \in LastStages /\ job' = job
         \/ /\ CountCommit(r) \/ FailCommit(r)
            /\ pc'[r] \in {"ok", "error"} /\ job' = job
  <1>1. pc \in [Requests -> Stages]
    BY DEF IInv, TypeOK
  <1>2. CASE CommitStep(r)
    <2>1. WriteArtifact(r) \/ PublishReady(r) \/ StageFails(r) \/ CountCommit(r) \/ FailCommit(r)
      BY <1>2, LastStagesFacts DEF CommitStep, AcquireLock, MergeFails, MergeDone, AcquireSlot,
         AudioDone, FramesDone, PacketFails, TakeRow
    <2>2. CASE WriteArtifact(r)
      BY <1>1, <2>2, LastStagesFacts, StageFacts DEF WriteArtifact, Goto
    <2>3. CASE PublishReady(r) \/ StageFails(r)
      BY <1>1, <2>3, LastStagesFacts DEF PublishReady, StageFails, Goto
    <2>4. CASE CountCommit(r) \/ FailCommit(r)
      BY <1>1, <2>4 DEF CountCommit, FailCommit, Goto
    <2>5. QED
      BY <2>1, <2>2, <2>3, <2>4
  <1>3. QED
    BY <1>2, LoopHolder DEF LastStepsHeld

LEMMA HeldStep ==
  ASSUME IInv, LastStepsHeld, [Next]_vars, ~LogFaults
  PROVE  LastStepsHeld'
  <1> SUFFICES ASSUME NEW r \in Requests, pc'[r] \in LastStages
               PROVE  loop' = At("commit", r)
    BY DEF LastStepsHeld, At
  <1>1. pc \in [Requests -> Stages] /\ LoopHeld
    BY LastStagesFacts DEF IInv, TypeOK, LastStepsHeld, LoopHeld
  <1>2. CASE pc[r] \in LastStages
    <2>1. loop = At("commit", r)
      BY <1>2 DEF LastStepsHeld
    <2>2. CASE UNCHANGED vars
      BY <2>1, <2>2 DEF vars
    <2>3. CASE Crash
      BY <1>2, <2>3, CrashStages, LastStagesFacts
    <2>4. CASE WriteArtifact(r) \/ PublishReady(r) \/ StageFails(r)
      BY <2>1, <2>4 DEF WriteArtifact, PublishReady, StageFails
    <2>5. QED
      BY <1>2, <2>2, <2>3, <2>4, LastSteps, LastStagesFacts
  <1>3. CASE pc[r] \notin LastStages
    <2>1. CommitStep(r)
      BY <1>3, StageMoves, LastStagesFacts
    <2>2. CASE pc'[r] = "fail"
      <3>1. CASE \E n : Merge(r, n)
        BY <1>1, <2>2, <3>1 DEF Merge, Goto
      <3>2. CASE TakeRow(r)
        BY <3>2 DEF TakeRow
      <3>3. ASSUME \/ MergeDone(r) \/ AcquireSlot(r) \/ AudioDone(r) \/ FramesDone(r) \/ PacketFails(r)
            PROVE  FALSE
        BY <1>1, <2>2, <3>3
           DEF MergeDone, Submit, AcquireSlot, AudioDone, FramesDone, PacketFails, Goto
      <3>4. ASSUME \/ WriteArtifact(r) \/ PublishReady(r) \/ CountCommit(r) \/ StageFails(r)
                   \/ FailCommit(r)
            PROVE  FALSE
        BY <1>3, <3>4, LastStagesFacts, StageFacts
           DEF WriteArtifact, PublishReady, CountCommit, StageFails, FailCommit
      <3>5. QED
        BY <2>1, <3>1, <3>2, <3>3, <3>4 DEF CommitStep, AcquireLock, MergeFails
    <2>3. CASE pc'[r] \in Publishing
      BY <1>1, <2>3, LoopStep DEF LoopHeld, At
    <2>4. QED
      BY <2>2, <2>3 DEF LastStages
  <1>4. QED
    BY <1>2, <1>3

LEMMA SavedStep ==
  ASSUME IInv, LastStepsHeld, ChargedAreSaved, [Next]_vars
  PROVE  ChargedAreSaved'
  <1> SUFFICES ASSUME NEW r \in Requests, pc'[r] = "charge"
               PROVE  disk'[Key(r)'] = State(r)'
    BY DEF ChargedAreSaved
  <1>1. UNCHANGED vars \/ (PublishReady(r) /\ pc[r] = "ready")
    BY PublishingMoves, LastStagesFacts DEF LastStepsHeld, LoopHeld
  <1>2. CASE UNCHANGED vars
    BY <1>2 DEF vars, ChargedAreSaved, State, Key
  <1>3. CASE PublishReady(r) /\ pc[r] = "ready"
    <2> DEFINE s == [State(r) EXCEPT !.status = "ready"]
    <2>1. pc[r] \in InFlight
      BY <1>3, LastStagesFacts
    <2>2. s \in SessionState /\ job[r].gen \in 1..Len(sessions[Key(r)]) /\ Key(r) \in Keys
      BY <2>1, InFlightFacts, UpdateType
    <2>3. Assign(Key(r), job[r].gen, s) /\ Save(Key(r), s) /\ job' = job
      BY <1>3 DEF PublishReady, SetState
    <2> HIDE DEF s
    <2>4. sessions'[Key(r)][job[r].gen] = s /\ disk'[Key(r)] = s
      BY <2>2, <2>3, AssignedObject DEF Save, IInv, TypeOK
    <2>5. QED
      BY <2>3, <2>4 DEF State, Key
  <1>4. QED
    BY <1>1, <1>2, <1>3

\* What a step is to a session: nothing; an assignment that is saved; a start; a
\* failure of a stop-commit whose session was started again since; or a step
\* that leaves a stop-commit at its end.
Rests(k) == sessions'[k] = sessions[k] /\ disk'[k] = disk[k]
Saves(k) ==
  /\ sessions[k] # <<>> /\ disk'[k] = Current(k)'
  /\ Current(k)'.status = "ready" => Current(k).status = "ready"
Opens(k) ==
  /\ loop = Idle /\ loop' = At("charge", k)
  /\ disk'[k] = disk[k] /\ Current(k)'.status = "recording"
FailsOlder(k) ==
  \E r \in Requests :
    /\ FailCommit(r) /\ Key(r) = k /\ job[r].gen \in 1..(Len(sessions[k]) - 1)
    /\ Len(sessions'[k]) = Len(sessions[k]) /\ Current(k)' = Current(k)
    /\ disk'[k] = sessions'[k][job[r].gen]

LEMMA AssignSaves ==
  ASSUME IInv, NEW x \in Keys, sessions[x] # <<>>, NEW s \in SessionState,
         Assign(x, Len(sessions[x]), s), Save(x, s),
         s.status = "ready" => Current(x).status = "ready", NEW k \in Keys
  PROVE  Rests(k) \/ Saves(k)
  <1>1. sessions \in [Keys -> Seq(SessionState)] /\ disk \in [Keys -> SessionState \cup {NoSession}]
    BY DEF IInv, TypeOK
  <1>2. CASE k # x
    BY <1>1, <1>2 DEF Assign, Save, Rests
  <1>3. CASE k = x
    <2>1. Len(sessions[x]) \in 1..Len(sessions[x])
      BY CurrentObject
    <2>2. Len(sessions'[x]) = Len(sessions[x]) /\ sessions'[x][Len(sessions[x])] = s
      BY <2>1, AssignedOnly
    <2>3. Current(x)' = s
      BY <2>2 DEF Current
    <2>4. disk'[x] = s
      BY <1>1 DEF Save
    <2>5. QED
      BY <1>3, <2>3, <2>4 DEF Saves
  <1>4. QED
    BY <1>2, <1>3

LEMMA StartMoves ==
  ASSUME IInv, NEW x \in Keys, NEW op \in Operators, StartSession(x, op), NEW k \in Keys
  PROVE  Rests(k) \/ Opens(k)
  <1>1. sessions \in [Keys -> Seq(SessionState)] /\ Fresh(op) \in SessionState
    BY FreshType DEF IInv, TypeOK
  <1>2. CASE sessions'[k] = sessions[k]
    BY <1>2 DEF StartSession, Rests
  <1>3. CASE sessions'[k] # sessions[k]
    <2>1. /\ x = k /\ loop' = At("charge", k) /\ loop = Idle /\ disk' = disk
          /\ sessions' = [sessions EXCEPT ![x] = Append(sessions[x], Fresh(op))]
      BY <1>1, <1>3 DEF StartSession
    <2>2. sessions'[k] = Append(sessions[k], Fresh(op)) /\ sessions[k] \in Seq(SessionState)
      BY <1>1, <2>1
    <2>3. sessions'[k][Len(sessions'[k])] = Fresh(op)
      BY <1>1, <2>2, AppendProperties
    <2>4. Current(k)'.status = "recording"
      BY <2>3 DEF Current, Fresh
    <2>5. QED
      BY <2>1, <2>4 DEF Opens
  <1>4. QED
    BY <1>2, <1>3

LEMMA CommitEnds ==
  ASSUME IInv, NEW r \in Requests, CommitStep(r), ~LogFaults, NEW k \in Keys
  PROVE  Rests(k) \/ Saves(k) \/ FailsOlder(k) \/ Finishing(k)'
  <1>1. /\ sessions \in [Keys -> Seq(SessionState)] /\ disk \in [Keys -> SessionState \cup {NoSession}]
        /\ pc \in [Requests -> Stages]
    BY DEF IInv, TypeOK
  <1>2. CASE UNCHANGED <<sessions, disk>>
    BY <1>2 DEF Rests
  <1>3. ASSUME NEW s, SetState(r, s), disk' = disk \/ Save(Key(r), s), k # Key(r)
        PROVE  Rests(k)
    BY <1>1, <1>3 DEF SetState, Assign, Save, Rests
  <1>4. CASE TakeRow(r) /\ ~UNCHANGED <<sessions, disk>>
    <2>1. pc'[r] = "transcript" /\ job' = job
      BY <1>1, <1>4 DEF TakeRow, Goto
    <2>2. CASE k = Key(r)
      BY <2>1, <2>2, LastStagesFacts DEF Finishing, Key
    <2>3. CASE k # Key(r)
      BY <1>3, <1>4, <2>3 DEF TakeRow
    <2>4. QED
      BY <2>2, <2>3
  <1>5. CASE PublishReady(r)
    <2>1. pc'[r] = "charge" /\ job' = job
      BY <1>1, <1>5 DEF PublishReady, Goto
    <2>2. CASE k = Key(r)
      BY <2>1, <2>2, LastStagesFacts DEF Finishing, Key
    <2>3. CASE k # Key(r)
      BY <1>3, <1>5, <2>3 DEF PublishReady
    <2>4. QED
      BY <2>2, <2>3
  <1>6. CASE FailCommit(r)
    <2> DEFINE s == Failed(State(r))
               n == Len(sessions[k])
    <2>1. SetState(r, s) /\ Save(Key(r), s) /\ pc[r] \in InFlight
      BY <1>6, LastStagesFacts DEF FailCommit
    <2>2. CASE k # Key(r)
      BY <1>3, <2>1, <2>2
    <2>3. CASE k = Key(r)
      <3> HIDE DEF s
      <3>1. job[r].gen \in 1..n /\ n \in Nat /\ s \in SessionState /\ s.status = "failed"
        <4>1. State(r) \in SessionState /\ job[r].gen \in 1..n
          BY <2>1, <2>3, InFlightFacts
        <4>2. s \in SessionState
          BY <4>1, UpdateType DEF s
        <4>3. s.status = "failed"
          BY <4>1 DEF s, Failed, SessionState
        <4>4. QED
          BY <1>1, <4>1, <4>2, <4>3
      <3>2. Assign(k, job[r].gen, s) /\ Save(k, s)
        BY <2>1, <2>3 DEF SetState
      <3>3. CASE job[r].gen = n
        <4>1. sessions[k] # <<>>
          BY <3>1, EmptySeq
        <4>2. QED
          BY <3>1, <3>2, <3>3, <4>1, AssignSaves
      <3>4. CASE job[r].gen # n
        <4>1. /\ Len(sessions'[k]) = n /\ sessions'[k][n] = sessions[k][n]
              /\ sessions'[k][job[r].gen] = s
          BY <3>1, <3>2, <3>4, AssignedOnly
        <4>2. disk'[k] = s
          BY <1>1, <3>2 DEF Save
        <4>3. QED
          BY <1>6, <2>3, <3>1, <3>4, <4>1, <4>2 DEF FailsOlder, Current
      <3>5. QED
        BY <3>3, <3>4
    <2>4. QED
      BY <2>2, <2>3
  <1>7. QED
    BY <1>2, <1>4, <1>5, <1>6
       DEF CommitStep, AcquireLock, MergeFails, MergeDone, AcquireSlot, AudioDone, FramesDone,
           PacketFails, WriteArtifact, CountCommit, StageFails

LEMMA OtherSessionMoves ==
  ASSUME IInv, [Next]_vars, ~Crash, ~\E r \in Requests : CommitStep(r), NEW k \in Keys
  PROVE  Rests(k) \/ Saves(k) \/ Opens(k)
  <1>1. CASE UNCHANGED <<sessions, disk>>
    BY <1>1 DEF Rests
  <1>2. ASSUME NEW x \in Keys, NEW op \in Operators, NEW r \in Requests, BeginCommit(r, x, op)
        PROVE  Rests(k) \/ Saves(k)
    <2> DEFINE s == [Current(x) EXCEPT !.status = "processing"]
    <2>1. sessions[x] # <<>> /\ Assign(x, Len(sessions[x]), s) /\ Save(x, s)
      BY <1>2 DEF BeginCommit
    <2>2. s \in SessionState /\ s.status = "processing"
      BY <2>1, CurrentObject, UpdateType DEF SessionState
    <2>3. QED
      BY <2>1, <2>2, AssignSaves
  <1>3. ASSUME NEW x \in Keys, CountPart(x)
        PROVE  Rests(k) \/ Saves(k)
    <2> DEFINE s == [Current(x) EXCEPT !.parts = @ + 1]
    <2>1. sessions[x] # <<>>
      BY <1>3, LenProperties DEF CountPart, IInv, HeldObjects, At
    <2>2. s \in SessionState /\ s.status = Current(x).status
      BY <2>1, CurrentObject, UpdateType DEF SessionState
    <2>3. Assign(x, Len(sessions[x]), s) /\ Save(x, s)
      BY <1>3 DEF CountPart
    <2>4. QED
      BY <2>1, <2>2, <2>3, AssignSaves
  <1>4. ASSUME NEW x \in Keys, RecordSession(x)
        PROVE  Rests(k) \/ Saves(k)
    <2>1. sessions[x] # <<>>
      BY <1>4, LenProperties DEF RecordSession, IInv, HeldObjects, At
    <2>2. disk' = [disk EXCEPT ![x] = Current(x)] /\ sessions' = sessions
      BY <1>4 DEF RecordSession, Save
    <2>3. Current(x)' = Current(x)
      BY <2>2 DEF Current
    <2>4. QED
      BY <2>1, <2>2, <2>3 DEF Rests, Saves, IInv, TypeOK
  <1>5. QED
    BY <1>1, <1>2, <1>3, <1>4, StartMoves
       DEF Next, vars, HandlerStep, ChargeSession, UploadPart, OrphanEnds

LEMMA SessionMoves ==
  ASSUME IInv, [Next]_vars, ~LogFaults, ~Crash, NEW k \in Keys
  PROVE  Rests(k) \/ Saves(k) \/ Opens(k) \/ FailsOlder(k) \/ Finishing(k)'
  BY OtherSessionMoves, CommitEnds

\* Who has settled stays so, and with the object it worked on.
LEMMA SettledStay ==
  ASSUME IInv, [Next]_vars, NEW r \in Requests, pc[r] \in {"ok", "error"}
  PROVE  pc'[r] = pc[r] /\ job'[r].key = job[r].key /\ job'[r].gen = job[r].gen
  <1>1. pc[r] # "idle" /\ pc[r] \notin InFlight
    BY LastStagesFacts DEF InFlight, Critical, Publishing, Artifacts
  <1>2. pc'[r] = pc[r]
    BY <1>1, Moves DEF Move, Begins, Merges, Submits, Enters, GoesOn, Settles, Resubmits, Drops,
       Outlives, Extracting, Publishing, Artifacts
  <1>3. QED
    BY <1>1, <1>2, KeyKept

LEMMA OlderStays ==
  ASSUME IInv, [Next]_vars, NEW k \in Keys, Rests(k), OlderSaved(k)
  PROVE  OlderSaved(k)'
  <1>1. PICK r \in Requests :
          /\ pc[r] \in {"ok", "error"} /\ Key(r) = k /\ job[r].gen < Len(sessions[k])
          /\ disk[k] = State(r)
    BY DEF OlderSaved
  <1>2. pc'[r] = pc[r] /\ Key(r)' = k /\ job'[r].gen = job[r].gen
    BY <1>1, SettledStay DEF Key
  <1>3. State(r)' = State(r)
    BY <1>1, <1>2 DEF State, Rests
  <1>4. QED
    BY <1>1, <1>2, <1>3 DEF OlderSaved, Rests

\* A record saved by a stop-commit at its end is of SESSIONS, or of an older object.
LEMMA EndSaved ==
  ASSUME IInv, [Next]_vars, NEW k \in Keys, NEW r \in Requests, Key(r) = k,
         job[r].gen \in 1..Len(sessions'[k]), pc'[r] \in {"ok", "error"}, job' = job,
         disk'[k] = sessions'[k][job[r].gen]
  PROVE  disk'[k] = Current(k)' \/ OlderSaved(k)'
  <1>1. sessions'[k] \in Seq(SessionState) /\ Len(sessions'[k]) \in Nat
    BY InvStep DEF IInv, TypeOK
  <1>2. CASE job[r].gen = Len(sessions'[k])
    BY <1>2 DEF Current
  <1>3. CASE job[r].gen # Len(sessions'[k])
    <2>1. job'[r].gen < Len(sessions'[k]) /\ Key(r)' = k /\ State(r)' = sessions'[k][job[r].gen]
      BY <1>1, <1>3 DEF State, Key
    <2>2. QED
      BY <2>1 DEF OlderSaved
  <1>4. QED
    BY <1>2, <1>3

\* Where the stop-commit at its end leaves the session it worked on.
LEMMA EndMatches ==
  ASSUME IInv, LastStepsHeld, ChargedAreSaved, [Next]_vars, ~LogFaults, ~Crash,
         NEW k \in Keys, Finishing(k), Rests(k), ~Finishing(k)'
  PROVE  disk'[k] = Current(k)' \/ OlderSaved(k)'
  <1>1. PICK r \in Requests : pc[r] \in LastStages /\ Key(r) = k
    BY DEF Finishing
  <1>2. pc[r] \in InFlight /\ job[r].gen \in 1..Len(sessions[k]) /\ State(r) \in SessionState
    BY <1>1, InFlightFacts, LastStagesFacts
  <1>3. /\ CountCommit(r) \/ FailCommit(r)
        /\ pc'[r] \in {"ok", "error"} /\ job' = job
    BY <1>1, LastSteps DEF Finishing, vars, Key
  <1>4. disk'[k] = sessions'[k][job[r].gen]
    <2>1. CASE CountCommit(r)
      BY <1>1, <2>1 DEF CountCommit, ChargedAreSaved, State, Rests
    <2>2. CASE FailCommit(r)
      <3> DEFINE s == Failed(State(r))
      <3>1. s \in SessionState
        BY <1>2, UpdateType
      <3>2. Assign(k, job[r].gen, s) /\ Save(k, s)
        BY <1>1, <2>2 DEF FailCommit, SetState
      <3> HIDE DEF s
      <3>3. QED
        BY <1>2, <3>1, <3>2, AssignedObject DEF Save, IInv, TypeOK
    <2>3. QED
      BY <1>3, <2>1, <2>2
  <1>5. job[r].gen \in 1..Len(sessions'[k])
    BY <1>2 DEF Rests
  <1>6. QED
    BY <1>1, <1>3, <1>4, <1>5, EndSaved

LEMMA MatchStep == ASSUME IInv, SaveInv, [Next]_vars, ~LogFaults PROVE Matched'
  <1> SUFFICES ASSUME NEW k \in Keys, sessions'[k] # <<>>, ~AboutToRecord(k)', ~Finishing(k)'
               PROVE  disk'[k] = Current(k)' \/ OlderSaved(k)'
    BY DEF Matched
  <1>1. ~Crash
    BY DEF Crash
  <1>2. CASE Rests(k)
    <2>1. Current(k)' = Current(k) /\ sessions[k] # <<>>
      BY <1>2 DEF Rests, Current
    <2>2. CASE AboutToRecord(k)
      <3>1. RecordSession(k)
        BY <1>1, <2>2, RecordNext DEF AboutToRecord, vars, At
      <3>2. disk'[k] = Current(k)
        BY <3>1 DEF RecordSession, Save, IInv, TypeOK
      <3>3. QED
        BY <2>1, <3>2
    <2>3. CASE Finishing(k)
      BY <1>1, <1>2, <2>3, EndMatches DEF SaveInv
    <2>4. CASE ~AboutToRecord(k) /\ ~Finishing(k)
      <3>1. disk[k] = Current(k) \/ OlderSaved(k)
        BY <2>1, <2>4 DEF SaveInv, Matched
      <3>2. QED
        BY <1>2, <2>1, <3>1, OlderStays DEF Rests
    <2>5. QED
      BY <2>2, <2>3, <2>4
  <1>3. CASE Saves(k)
    BY <1>3 DEF Saves
  <1>4. CASE Opens(k)
    BY <1>4 DEF Opens, AboutToRecord, At
  <1>5. CASE FailsOlder(k)
    <2>1. PICK r \in Requests : /\ FailCommit(r) /\ Key(r) = k
                                /\ job[r].gen \in 1..(Len(sessions[k]) - 1)
                                /\ Len(sessions'[k]) = Len(sessions[k])
                                /\ disk'[k] = sessions'[k][job[r].gen]
      BY <1>5 DEF FailsOlder
    <2>2. pc'[r] = "error" /\ job' = job
      BY <2>1 DEF FailCommit, Goto, IInv, TypeOK
    <2>3. job[r].gen \in 1..Len(sessions'[k])
      BY <2>1, LenProperties DEF IInv, TypeOK
    <2>4. QED
      BY <2>1, <2>2, <2>3, EndSaved
  <1>6. QED
    BY <1>1, <1>2, <1>3, <1>4, <1>5, SessionMoves

\* While log writes succeed, a restart between two handlers forgets nothing that a
\* client has seen: the record is the object of SESSIONS, or else that of a
\* stop-commit that ended after its session was started again.
THEOREM RestartsForgetNothing == ASSUME ~LogFaults PROVE Spec => []MemoryMatchesDisk
  <1>1. Init => SaveInv
    BY LastStagesFacts DEF Init, SaveInv, LastStepsHeld, ChargedAreSaved, Matched
  <1>2. IInv /\ SaveInv /\ [Next]_vars => SaveInv'
    BY HeldStep, SavedStep, MatchStep DEF SaveInv
  <1>3. SaveInv => MemoryMatchesDisk
    <2> SUFFICES ASSUME SaveInv, loop = Idle, NEW k \in Keys, sessions[k] # <<>>
                 PROVE  disk[k] = Current(k) \/ OlderSaved(k)
      BY DEF MemoryMatchesDisk
    <2>1. ~AboutToRecord(k) /\ ~Finishing(k)
      BY DEF AboutToRecord, Finishing, SaveInv, LastStepsHeld, At, Idle
    <2>2. QED
      BY <2>1 DEF SaveInv, Matched
  <1>4. QED
    BY <1>1, <1>2, <1>3, Invariance, PTL DEF Spec

-----------------------------------------------------------------------------
(* One publisher.  A stop-commit that fails half-way has replaced some of   *)
(* the artifacts; no ready status is left to stand beside them, because its *)
(* own object is failed and saved, and no later object of the session can   *)
(* be ready yet: stop-commits of a session end in the order they began.     *)
(* When it does not come to that, by a death of the process or a raising    *)
(* incident write, its artifacts are those of a stop-commit cut off.        *)

OwnWrites ==
  \A r \in Requests : pc[r] \in Publishing => \A a \in Before[pc[r]] : artifacts[Key(r)][a] = r

\* Who may have replaced artifacts beside a ready record: who has the loop at its
\* end, and who was cut off there.
Passing(t, k) == pc[t] \in LastStages /\ Key(t) = k /\ loop = At("commit", t)
Excepted(t, k) == CutOff(t) \/ Passing(t, k)
OneHand(k) ==
  \E r \in Requests : \A a \in Artifacts :
    artifacts[k][a] \in {r} \cup {t \in Requests : Excepted(t, k)}
SaysReady(k) ==
  \/ disk[k] # NoSession /\ disk[k].status = "ready"
  \/ sessions[k] # <<>> /\ Current(k).status = "ready"
ReadyByOneHand == \A k \in Keys : SaysReady(k) => OneHand(k)
OlderFirst ==
  \A r \in Requests : pc[r] \in InFlight =>
    \A g \in 1..Len(sessions[Key(r)]) :
      g > job[r].gen => sessions[Key(r)][g].status # "ready"
QueuesOrdered ==
  \A u \in Users : \A i, j \in 1..Len(queue[u]) :
    i < j /\ Key(queue[u][i]) = Key(queue[u][j]) => job[queue[u][i]].gen <= job[queue[u][j]].gen

PublisherInv == LoopHeld /\ OwnWrites /\ ReadyByOneHand /\ OlderFirst /\ QueuesOrdered

LEMMA OwnWritesStep ==
  ASSUME IInv, LoopHeld, OwnWrites, [Next]_vars
  PROVE  OwnWrites'
  <1> SUFFICES ASSUME NEW r \in Requests, pc'[r] \in Publishing, NEW a \in Before[pc'[r]]
               PROVE  artifacts'[Key(r)'][a] = r
    BY DEF OwnWrites
  <1>1. pc \in [Requests -> Stages] /\ artifacts \in [Keys -> [Artifacts -> Requests \cup {NoRequest}]]
    BY DEF IInv, TypeOK
  <1>3. CASE UNCHANGED vars
    BY <1>3 DEF vars, OwnWrites, Key
  <1>4. CASE TakeRow(r) /\ pc'[r] = "transcript"
    BY <1>4, BeforeFacts
  <1>5. CASE WriteArtifact(r)
    <2>1. /\ pc[r] \in Artifacts /\ pc'[r] = NextStage[pc[r]] /\ job' = job
          /\ artifacts' = [artifacts EXCEPT ![Key(r)][pc[r]] = r]
      BY <1>1, <1>5 DEF WriteArtifact, Goto
    <2>2. Key(r) \in Keys /\ Key(r)' = Key(r)
      BY <2>1, InFlightFacts, StageFacts DEF Key
    <2>3. a \in Before[pc[r]] \cup {pc[r]}
      BY <2>1, BeforeFacts
    <2>4. artifacts'[Key(r)][a] \in {artifacts[Key(r)][a], r} /\ (a = pc[r] => artifacts'[Key(r)][a] = r)
      BY <1>1, <2>1, <2>2, <2>3, BeforeFacts, StageFacts
    <2>5. a \in Before[pc[r]] => artifacts[Key(r)][a] = r
      BY <2>1, StageFacts DEF OwnWrites
    <2>6. QED
      BY <2>2, <2>3, <2>4, <2>5
  <1>6. CASE PublishReady(r)
    <2>1. pc[r] = "ready" /\ pc'[r] = "charge" /\ job' = job /\ artifacts' = artifacts
      BY <1>1, <1>6 DEF PublishReady, Goto
    <2>2. QED
      BY <2>1, BeforeFacts, LastStagesFacts DEF OwnWrites, Key
  <1>7. QED
    BY <1>3, <1>4, <1>5, <1>6, PublishingMoves

\* Only a request that goes on publishing a session replaces its artifacts.
LEMMA ArtifactsMove ==
  ASSUME IInv, LoopHeld, [Next]_vars, NEW k \in Keys, NEW a \in Artifacts
  PROVE  \/ artifacts'[k][a] = artifacts[k][a]
         \/ artifacts'[k][a] \in {t \in Requests : Passing(t, k)'}
  <1>1. pc \in [Requests -> Stages] /\ artifacts \in [Keys -> [Artifacts -> Requests \cup {NoRequest}]]
    BY DEF IInv, TypeOK
  <1>2. ASSUME NEW r \in Requests, WriteArtifact(r)
        PROVE  \/ artifacts'[k][a] = artifacts[k][a]
               \/ artifacts'[k][a] = r /\ Passing(r, k)'
    <2>1. /\ pc'[r] \in LastStages /\ job' = job /\ loop' = loop
          /\ artifacts' = [artifacts EXCEPT ![Key(r)][pc[r]] = r]
      BY <1>1, <1>2, StageFacts, LastStagesFacts DEF WriteArtifact, Goto
    <2>2. loop = At("commit", r)
      BY <1>2, StageFacts DEF WriteArtifact, LoopHeld
    <2>3. CASE Key(r) = k /\ pc[r] = a
      BY <1>1, <2>1, <2>2, <2>3 DEF Passing, Key, At
    <2>4. CASE ~(Key(r) = k /\ pc[r] = a)
      BY <1>1, <2>1, <2>4
    <2>5. QED
      BY <2>3, <2>4
  <1>3. artifacts' = artifacts \/ \E r \in Requests : WriteArtifact(r)
    BY DEF Next, vars, files, StartSession, UploadPart, BeginCommit, HandlerStep, ChargeSession,
           RecordSession, CountPart, CommitStep, AcquireLock, MergeFails, MergeDone, AcquireSlot,
           AudioDone, FramesDone, PacketFails, TakeRow, PublishReady, CountCommit, StageFails,
           FailCommit, Crash, OrphanEnds
  <1>4. QED
    BY <1>2, <1>3

\* Who is excepted stays so until it ends with everything written or saved.
LEMMA ExceptedStays ==
  ASSUME IInv, [Next]_vars, NEW k \in Keys, NEW t \in Requests, Excepted(t, k)
  PROVE  \/ Excepted(t, k)'
         \/ Key(t) = k /\ (CountCommit(t) \/ (FailCommit(t) /\ ~LogFaults))
  <1>1. pc \in [Requests -> Stages]
    BY DEF IInv, TypeOK
  <1>2. CASE CutOff(t)
    <2>1. pc[t] \in {"dropped", "error"}
      BY <1>2 DEF CutOff
    <2>2. pc'[t] = pc[t]
      BY <2>1, Moves DEF Move, Begins, Merges, Submits, Enters, GoesOn, Settles, Resubmits, Drops,
         Outlives, Extracting, InFlight, Critical, Publishing, Artifacts
    <2>3. QED
      BY <1>2, <2>2 DEF Excepted, CutOff
  <1>3. CASE Passing(t, k) /\ CommitStep(t)
    <2>1. WriteArtifact(t) \/ PublishReady(t) \/ StageFails(t) \/ CountCommit(t) \/ FailCommit(t)
      BY <1>3, LastStagesFacts DEF Passing, CommitStep, AcquireLock, MergeFails, MergeDone,
         AcquireSlot, AudioDone, FramesDone, PacketFails, TakeRow
    <2>2. CASE WriteArtifact(t) \/ PublishReady(t) \/ StageFails(t)
      <3>1. pc'[t] \in LastStages
        BY <1>1, <2>2, LastStagesFacts, StageFacts DEF WriteArtifact, PublishReady, StageFails, Goto
      <3>2. job' = job /\ loop' = loop
        BY <2>2 DEF WriteArtifact, PublishReady, StageFails
      <3>3. QED
        BY <1>3, <3>1, <3>2 DEF Excepted, Passing, Key, At
    <2>3. CASE FailCommit(t) /\ LogFaults
      BY <1>1, <2>3 DEF FailCommit, Goto, Excepted, CutOff
    <2>4. QED
      BY <1>3, <2>1, <2>2, <2>3 DEF Passing
  <1>4. CASE Passing(t, k) /\ Crash
    <2>1. pc[t] \in InFlight /\ pc[t] # "merge"
      BY <1>4, LastStagesFacts DEF Passing
    <2>2. pc'[t] = "dropped"
      BY <1>4, <2>1, CrashStages
    <2>3. QED
      BY <2>2 DEF Excepted, CutOff
  <1>5. CASE Passing(t, k) /\ UNCHANGED vars
    BY <1>5 DEF Excepted, Passing, Key, At, vars
  <1>6. QED
    BY <1>2, <1>3, <1>4, <1>5, LoopHolder DEF Excepted, Passing

\* A session comes to say "ready" only when a request publishes it.
LEMMA CommitSaysReady ==
  ASSUME IInv, NEW r \in Requests, CommitStep(r), NEW k \in Keys, SaysReady(k)',
         ~(PublishReady(r) /\ Key(r) = k)
  PROVE  SaysReady(k)
  <1>1. /\ sessions \in [Keys -> Seq(SessionState)] /\ disk \in [Keys -> SessionState \cup {NoSession}]
    BY DEF IInv, TypeOK
  <1>2. CASE sessions'[k] = sessions[k] /\ disk'[k] = disk[k]
    BY <1>2 DEF SaysReady, Current
  <1>3. ASSUME Key(r) = k, pc[r] \in InFlight, NEW s \in SessionState, Assign(k, job[r].gen, s),
               s.status \in {State(r).status, "failed"},
               disk' = disk \/ (s.status = "failed" /\ Save(k, s))
        PROVE  SaysReady(k)
    <2> DEFINE n == Len(sessions[k])
    <2>1. job[r].gen \in 1..n /\ n \in Nat /\ State(r) = sessions[k][job[r].gen]
      BY <1>1, <1>3, InFlightFacts DEF State
    <2>2. n \in 1..n
      BY <2>1
    <2>3. /\ Len(sessions'[k]) = n
          /\ sessions'[k][n] = IF n = job[r].gen THEN s ELSE sessions[k][n]
      BY <1>3, <2>1, <2>2, AssignedOnly
    <2>4. sessions'[k][n].status \in {sessions[k][n].status, "failed"}
      BY <1>3, <2>1, <2>3
    <2>5. Current(k)'.status \in {Current(k).status, "failed"} /\ sessions[k] # <<>>
      BY <2>1, <2>3, <2>4, EmptySeq DEF Current
    <2>6. disk'[k] = disk[k] \/ disk'[k].status = "failed"
      BY <1>1, <1>3 DEF Save
    <2>7. QED
      BY <2>5, <2>6 DEF SaysReady
  <1>4. CASE k # Key(r)
    <2>1. \/ UNCHANGED <<sessions, disk>>
          \/ \E s : SetState(r, s) /\ (disk' = disk \/ Save(Key(r), s))
      BY CommitAssigns DEF SetState
    <2>2. QED
      BY <1>1, <1>2, <1>4, <2>1 DEF SetState, Assign, Save
  <1>5. CASE TakeRow(r) /\ k = Key(r) /\ sessions' # sessions
    <2> DEFINE s == [State(r) EXCEPT !.video = "merged"]
    <2>1. pc[r] \in InFlight /\ Assign(k, job[r].gen, s) /\ disk' = disk
      BY <1>5, LastStagesFacts DEF TakeRow, SetState, InFlight, Critical
    <2>2. s \in SessionState /\ s.status = State(r).status
      BY <2>1, InFlightFacts, UpdateType DEF SessionState
    <2> HIDE DEF s
    <2>3. QED
      BY <1>3, <1>5, <2>1, <2>2
  <1>6. CASE FailCommit(r) /\ k = Key(r)
    <2> DEFINE s == Failed(State(r))
    <2>1. pc[r] \in InFlight /\ Assign(k, job[r].gen, s) /\ (disk' = disk \/ Save(k, s))
      BY <1>6, LastStagesFacts DEF FailCommit, SetState
    <2>2. s \in SessionState /\ s.status = "failed"
      BY <2>1, InFlightFacts, UpdateType DEF SessionState, Failed
    <2> HIDE DEF s
    <2>3. QED
      BY <1>3, <1>6, <2>1, <2>2
  <1>7. \/ UNCHANGED <<sessions, disk>> \/ (TakeRow(r) /\ sessions' # sessions)
        \/ PublishReady(r) \/ FailCommit(r)
    BY DEF CommitStep, AcquireLock, MergeFails, MergeDone, AcquireSlot, AudioDone, FramesDone,
           PacketFails, TakeRow, WriteArtifact, CountCommit, StageFails
  <1>8. QED
    BY <1>2, <1>4, <1>5, <1>6, <1>7

LEMMA SaysReadyStep ==
  ASSUME IInv, [Next]_vars, NEW k \in Keys, SaysReady(k)',
         ~\E r \in Requests : PublishReady(r) /\ Key(r) = k
  PROVE  SaysReady(k)
  <1>1. CASE Crash
    BY <1>1 DEF Crash, SaysReady, files
  <1>2. CASE \E r \in Requests : CommitStep(r)
    BY <1>2, CommitSaysReady
  <1>3. CASE ~Crash /\ ~\E r \in Requests : CommitStep(r)
    BY <1>3, OtherSessionMoves DEF Rests, Saves, Opens, SaysReady, Current
  <1>4. QED
    BY <1>1, <1>2, <1>3

\* A failed stop-commit leaves no ready status, on disk or in SESSIONS.
LEMMA FailureUnready ==
  ASSUME IInv, OlderFirst, NEW r \in Requests, FailCommit(r), ~LogFaults
  PROVE  ~SaysReady(Key(r))'
  <1> DEFINE k == Key(r)
             n == Len(sessions[k])
             s == Failed(State(r))
  <1>1. /\ pc[r] \in InFlight /\ Assign(k, job[r].gen, s) /\ Save(k, s) /\ job' = job
    BY LastStagesFacts DEF FailCommit, SetState
  <1>2. k \in Keys /\ job[r].gen \in 1..n /\ State(r) \in SessionState /\ n \in Nat
    BY <1>1, InFlightFacts DEF IInv, TypeOK
  <1>3. s \in SessionState /\ s.status = "failed"
    BY <1>2, UpdateType DEF Failed, SessionState
  <1> HIDE DEF s
  <1>4. disk'[k] = s
    BY <1>1, <1>2 DEF Save, IInv, TypeOK
  <1>5. /\ Len(sessions'[k]) = n
        /\ sessions'[k][n] = IF n = job[r].gen THEN s ELSE sessions[k][n]
    BY <1>1, <1>2, <1>3, AssignedOnly
  <1>6. sessions'[k][n].status # "ready"
    <2>1. CASE n = job[r].gen
      BY <1>3, <1>5, <2>1
    <2>2. CASE n # job[r].gen
      BY <1>1, <1>2, <1>5, <2>2 DEF OlderFirst
    <2>3. QED
      BY <2>1, <2>2
  <1>7. Key(r)' = k
    BY <1>1 DEF Key
  <1>8. QED
    BY <1>3, <1>4, <1>5, <1>6, <1>7 DEF SaysReady, Current

LEMMA OneHandStep == ASSUME IInv, PublisherInv, [Next]_vars PROVE ReadyByOneHand'
  <1> SUFFICES ASSUME NEW k \in Keys, SaysReady(k)'
               PROVE  OneHand(k)'
    BY DEF ReadyByOneHand
  <1>1. CASE \E r \in Requests : Key(r) = k /\ (PublishReady(r) \/ CountCommit(r))
    <2>1. PICK r \in Requests : Key(r) = k /\ (PublishReady(r) \/ CountCommit(r))
      BY <1>1
    <2>2. pc[r] \in {"ready", "charge"} /\ artifacts' = artifacts
      BY <2>1 DEF PublishReady, CountCommit
    <2>3. \A a \in Artifacts : artifacts[k][a] = r
      BY <2>1, <2>2, BeforeFacts, LastStagesFacts DEF PublisherInv, OwnWrites
    <2>4. QED
      BY <2>2, <2>3 DEF OneHand
  <1>2. CASE \E r \in Requests : Key(r) = k /\ FailCommit(r) /\ ~LogFaults
    <2>1. PICK r \in Requests : Key(r) = k /\ FailCommit(r) /\ ~LogFaults
      BY <1>2
    <2>2. ~SaysReady(Key(r))'
      BY <2>1, FailureUnready DEF PublisherInv
    <2>3. job' = job
      BY <2>1 DEF FailCommit
    <2>4. QED
      BY <2>1, <2>2, <2>3 DEF SaysReady, Key
  <1>3. CASE ~\E r \in Requests :
               /\ Key(r) = k
               /\ PublishReady(r) \/ CountCommit(r) \/ (FailCommit(r) /\ ~LogFaults)
    <2>1. SaysReady(k)
      BY <1>3, SaysReadyStep
    <2>2. PICK r \in Requests : \A a \in Artifacts :
            artifacts[k][a] \in {r} \cup {t \in Requests : Excepted(t, k)}
      BY <2>1 DEF PublisherInv, ReadyByOneHand, OneHand
    <2>3. \A t \in Requests : Excepted(t, k) => Excepted(t, k)'
      BY <1>3, ExceptedStays
    <2>4. ASSUME NEW a \in Artifacts
          PROVE  artifacts'[k][a] \in {r} \cup {t \in Requests : Excepted(t, k)'}
      <3>1. CASE artifacts'[k][a] = artifacts[k][a]
        BY <2>2, <2>3, <3>1
      <3>2. CASE artifacts'[k][a] \in {t \in Requests : Passing(t, k)'}
        BY <3>2 DEF Excepted
      <3>3. QED
        BY <3>1, <3>2, ArtifactsMove DEF PublisherInv
    <2>5. QED
      BY <2>4 DEF OneHand
  <1>4. QED
    BY <1>1, <1>2, <1>3

\* A request comes into flight at the last object of its session.
LEMMA ComesIntoFlight ==
  ASSUME IInv, [Next]_vars, NEW r \in Requests, pc[r] \notin InFlight, pc'[r] \in InFlight
  PROVE  \E k \in Keys, op \in Operators : BeginCommit(r, k, op)
  <1>1. pc \in [Requests -> Stages] /\ pc'[r] # pc[r]
    BY DEF IInv, TypeOK
  <1>2. ASSUME NEW t \in Requests, NEW k \in Keys, NEW op \in Operators, BeginCommit(t, k, op)
        PROVE  t = r
    BY <1>1, <1>2 DEF BeginCommit, Goto
  <1>3. ASSUME NEW t \in Requests, CommitStep(t) PROVE FALSE
    <2>1. pc[t] \in InFlight
      BY <1>3 DEF CommitStep, AcquireLock, MergeFails, MergeDone, AcquireSlot, AudioDone,
         FramesDone, PacketFails, TakeRow, WriteArtifact, PublishReady, CountCommit, StageFails,
         FailCommit, InFlight, Critical, Publishing
    <2>2. CASE t = r
      BY <2>1, <2>2
    <2>3. CASE t # r
      <3>1. GoesOn(r)
        BY <1>3, <2>3, OthersMove
      <3>2. QED
        BY <1>1, <3>1 DEF GoesOn, InFlight, Critical
    <2>4. QED
      BY <2>2, <2>3
  <1>4. CASE Crash
    BY <1>4, CrashStages, StageFacts
  <1>5. CASE UNCHANGED pc
    BY <1>1, <1>5
  <1>6. ASSUME NEW t \in Requests, OrphanEnds(t) PROVE FALSE
    BY <1>1, <1>6, StageFacts DEF OrphanEnds, Goto
  <1>7. QED
    BY <1>2, <1>3, <1>4, <1>5, <1>6
       DEF Next, vars, StartSession, UploadPart, HandlerStep, ChargeSession, RecordSession, CountPart

\* What a step is to a commit lock.
LEMMA QueueMoves ==
  ASSUME IInv, [Next]_vars, ~Crash, NEW u \in Users
  PROVE  \/ queue'[u] = queue[u]
         \/ queue[u] # <<>> /\ queue'[u] = Tail(queue[u])
         \/ \E r \in Requests, k \in Keys, op \in Operators :
              BeginCommit(r, k, op) /\ u = UserOf[k] /\ queue'[u] = Append(queue[u], r)
  <1>1. queue \in [Users -> Seq(Requests)]
    BY DEF IInv, TypeOK
  <1>2. CASE UNCHANGED queue
    BY <1>2
  <1>3. ASSUME NEW r \in Requests, NEW k \in Keys, NEW op \in Operators, BeginCommit(r, k, op)
        PROVE  queue'[u] = queue[u] \/ (u = UserOf[k] /\ queue'[u] = Append(queue[u], r))
    BY <1>1, <1>3, MapsAssumption DEF BeginCommit
  <1>4. ASSUME NEW r \in Requests, CountCommit(r) \/ FailCommit(r)
        PROVE  queue'[u] = queue[u] \/ (queue[u] # <<>> /\ queue'[u] = Tail(queue[u]))
    <2>1. pc[r] \in InFlight /\ Release(r)
      BY <1>4, LastStagesFacts DEF CountCommit, FailCommit
    <2>2. queue[UserOf[Key(r)]] # <<>> /\ UserOf[Key(r)] \in Users
      BY <2>1, InFlightFacts
    <2>3. QED
      BY <1>1, <2>1, <2>2 DEF Release
  <1>5. QED
    BY <1>2, <1>3, <1>4
       DEF Next, vars, StartSession, UploadPart, HandlerStep, ChargeSession, RecordSession,
           CountPart, CommitStep, AcquireLock, MergeFails, MergeDone, AcquireSlot, AudioDone,
           FramesDone, PacketFails, TakeRow, WriteArtifact, PublishReady, StageFails, OrphanEnds

LEMMA OrderStep ==
  ASSUME IInv, QueuesOrdered, [Next]_vars, ~Crash
  PROVE  QueuesOrdered'
  <1> SUFFICES ASSUME NEW u \in Users, NEW i \in 1..Len(queue'[u]), NEW j \in 1..Len(queue'[u]), i < j,
                      job'[queue'[u][i]].key = job'[queue'[u][j]].key
               PROVE  job'[queue'[u][i]].gen <= job'[queue'[u][j]].gen
    BY DEF QueuesOrdered, Key
  <1> DEFINE q == queue[u]
  <1>1. q \in Seq(Requests) /\ Len(q) \in Nat
    BY DEF IInv, TypeOK
  <1>2. ASSUME NEW m \in 1..Len(q)
        PROVE  /\ q[m] \in Requests /\ pc[q[m]] \in InFlight
               /\ job'[q[m]].key = Key(q[m]) /\ job'[q[m]].gen = job[q[m]].gen
    <2>1. q[m] \in Requests /\ pc[q[m]] \in InFlight
      BY <1>1 DEF IInv, LockQueues
    <2>2. pc[q[m]] # "idle"
      BY <2>1 DEF InFlight, Critical, Publishing, Artifacts
    <2>3. QED
      BY <2>1, <2>2, KeyKept DEF Key
  <1>3. ASSUME NEW m \in 1..Len(q), NEW n \in 1..Len(q), m < n,
               job'[q[m]].key = job'[q[n]].key
        PROVE  job'[q[m]].gen <= job'[q[n]].gen
    <2>1. Key(q[m]) = Key(q[n]) /\ job'[q[m]].gen = job[q[m]].gen /\ job'[q[n]].gen = job[q[n]].gen
      BY <1>2, <1>3
    <2>2. job[q[m]].gen <= job[q[n]].gen
      BY <1>3, <2>1 DEF QueuesOrdered
    <2>3. QED
      BY <2>1, <2>2
  <1> HIDE DEF q
  <1>4. CASE queue'[u] = q
    BY <1>3, <1>4
  <1>5. CASE q # <<>> /\ queue'[u] = Tail(q)
    <2>1. /\ Len(queue'[u]) = Len(q) - 1
          /\ \A m \in 1..(Len(q) - 1) : queue'[u][m] = q[m + 1]
      BY <1>1, <1>5, HeadTailProperties
    <2>2. i + 1 \in 1..Len(q) /\ j + 1 \in 1..Len(q) /\ i + 1 < j + 1
      BY <1>1, <2>1
    <2>3. queue'[u][i] = q[i + 1] /\ queue'[u][j] = q[j + 1]
      BY <2>1
    <2>4. QED
      BY <1>3, <2>2, <2>3
  <1>6. ASSUME NEW r \in Requests, NEW k \in Keys, NEW op \in Operators,
               BeginCommit(r, k, op), queue'[u] = Append(q, r)
        PROVE  job'[queue'[u][i]].gen <= job'[queue'[u][j]].gen
    <2>1. /\ Len(queue'[u]) = Len(q) + 1 /\ queue'[u][Len(q) + 1] = r
          /\ \A m \in 1..Len(q) : queue'[u][m] = q[m]
      BY <1>1, <1>6, AppendProperties
    <2>2. i \in 1..Len(q) /\ j \in 1..(Len(q) + 1)
      BY <1>1, <2>1
    <2>3. CASE j \in 1..Len(q)
      <3>1. queue'[u][i] = q[i] /\ queue'[u][j] = q[j]
        BY <2>1, <2>2, <2>3
      <3>2. QED
        BY <1>3, <2>2, <2>3, <3>1
    <2>4. CASE j = Len(q) + 1
      <3>1. job'[r].key = k /\ job'[r].gen = Len(sessions[k])
        BY <1>6 DEF BeginCommit, NewJob, IInv, TypeOK
      <3>2. queue'[u][i] = q[i] /\ queue'[u][j] = r
        BY <2>1, <2>2, <2>4
      <3>3. q[i] \in Requests /\ pc[q[i]] \in InFlight /\ Key(q[i]) = k
            /\ job'[q[i]].gen = job[q[i]].gen
        BY <1>2, <2>2, <3>1, <3>2
      <3>4. job[q[i]].gen \in 1..Len(sessions[k])
        BY <3>3, InFlightFacts
      <3>5. QED
        BY <3>1, <3>2, <3>3, <3>4
    <2>5. QED
      BY <2>2, <2>3, <2>4
  <1>7. QED
    BY <1>4, <1>5, <1>6, QueueMoves DEF q

\* Of two requests of a session, the one at its end is not the younger.
LEMMA HeadIsOldest ==
  ASSUME IInv, QueuesOrdered, NEW r \in Requests, NEW t \in Requests,
         pc[r] \in InFlight, pc[t] \in Critical, Key(r) = Key(t)
  PROVE  job[t].gen <= job[r].gen
  <1> DEFINE q == queue[UserOf[Key(r)]]
  <1>1. q \in Seq(Requests) /\ q # <<>> /\ UserOf[Key(r)] \in Users /\ job[r] \in Job
    BY InFlightFacts
  <1>2. PICK i \in 1..Len(q) : q[i] = r
    BY DEF IInv, LockQueues
  <1>3. q[1] = t /\ 1 \in 1..Len(q) /\ Len(q) \in Nat
    BY <1>1, EmptySeq DEF IInv, LockQueues
  <1>4. CASE i = 1
    BY <1>1, <1>2, <1>3, <1>4 DEF Job
  <1>5. CASE i # 1
    <2>1. 1 < i
      BY <1>2, <1>3, <1>5
    <2>2. QED
      BY <1>1, <1>2, <1>3, <2>1 DEF QueuesOrdered
  <1>6. QED
    BY <1>4, <1>5

LEMMA OlderStep ==
  ASSUME IInv, LoopHeld, OlderFirst, QueuesOrdered, [Next]_vars, ~Crash
  PROVE  OlderFirst'
  <1> SUFFICES ASSUME NEW r \in Requests, pc'[r] \in InFlight, NEW k \in Keys, k = job'[r].key,
                      NEW g \in 1..Len(sessions'[k]), g > job'[r].gen,
                      sessions'[k][g].status = "ready"
               PROVE  FALSE
    <2>1. \A r \in Requests : job'[r].key \in Keys
      BY InvStep DEF IInv, TypeOK, Job
    <2>2. QED
      BY <2>1 DEF OlderFirst, Key
  <1>1. sessions \in [Keys -> Seq(SessionState)] /\ Len(sessions[k]) \in Nat
    BY DEF IInv, TypeOK
  <1>2. pc[r] \in InFlight
    <2> SUFFICES ASSUME pc[r] \notin InFlight PROVE FALSE
      OBVIOUS
    <2>1. PICK x \in Keys, op \in Operators : BeginCommit(r, x, op)
      BY ComesIntoFlight
    <2>2. x = k /\ job'[r].gen = Len(sessions[k])
      BY <2>1 DEF BeginCommit, NewJob, IInv, TypeOK
    <2>3. Len(sessions'[k]) = Len(sessions[k])
      BY <2>1, LensKept
    <2>4. QED
      BY <1>1, <2>2, <2>3
  <1>3. Key(r) = k /\ job'[r].gen = job[r].gen
    <2>1. pc[r] # "idle"
      BY <1>2 DEF InFlight, Critical, Publishing, Artifacts
    <2>2. QED
      BY <2>1, KeyKept DEF Key
  <1>4. ~WasReady(k, g)
    BY <1>2, <1>3 DEF WasReady, OlderFirst
  <1>5. PICK t \in Requests : pc[t] = "ready" /\ Key(t) = k
    BY <1>4, ReadyObjects DEF BeingPublished
  <1>6. pc[t] \in Publishing /\ pc[t] \in Critical
    BY <1>5, LastStagesFacts, StageFacts
  <1>7. sessions' # sessions
    BY <1>4 DEF WasReady
  <1>8. PublishReady(t)
    BY <1>5, <1>6, <1>7, OnlyPublisher
       DEF vars, CommitStep, AcquireLock, MergeFails, MergeDone, AcquireSlot, AudioDone, FramesDone,
           PacketFails, TakeRow, WriteArtifact, StageFails, CountCommit, FailCommit, Artifacts
  <1>9. g = job[t].gen
    <2> DEFINE s == [State(t) EXCEPT !.status = "ready"]
    <2>1. s \in SessionState /\ job[t].gen \in 1..Len(sessions[k])
      BY <1>5, <1>6, InFlightFacts, StageFacts, UpdateType
    <2>2. Assign(k, job[t].gen, s)
      BY <1>5, <1>8 DEF PublishReady, SetState
    <2> HIDE DEF s
    <2>3. /\ Len(sessions'[k]) = Len(sessions[k])
          /\ g # job[t].gen => sessions'[k][g] = sessions[k][g]
      BY <2>1, <2>2, AssignedOnly
    <2>4. QED
      BY <1>4, <2>3 DEF WasReady
  <1>10. job[t].gen <= job[r].gen /\ job[t].gen \in Nat /\ job[r].gen \in Nat
    BY <1>2, <1>3, <1>5, <1>6, HeadIsOldest DEF IInv, TypeOK, Job
  <1>11. QED
    BY <1>3, <1>9, <1>10

\* The artifacts beside a ready record are of one stop-commit and of those that were
\* cut off, however many there are, however they fail and whenever the process dies.
THEOREM ReadyFromOneHand == Spec => []OnePublisher
  <1>1. Init => PublisherInv
    <2> SUFFICES ASSUME Init PROVE PublisherInv
      OBVIOUS
    <2>1. \A r \in Requests : pc[r] \notin Publishing /\ pc[r] \notin InFlight
      BY LastStagesFacts DEF Init, InFlight, Critical, Publishing, Artifacts
    <2>2. QueuesOrdered
      BY DEF Init, QueuesOrdered
    <2>3. ReadyByOneHand
      BY DEF Init, ReadyByOneHand, SaysReady
    <2>4. QED
      BY <2>1, <2>2, <2>3 DEF PublisherInv, LoopHeld, OwnWrites, OlderFirst
  <1>2. IInv /\ PublisherInv /\ [Next]_vars => PublisherInv'
    <2> SUFFICES ASSUME IInv, PublisherInv, [Next]_vars PROVE PublisherInv'
      OBVIOUS
    <2>1. LoopHeld' /\ OwnWrites' /\ ReadyByOneHand'
      BY LoopStep, OwnWritesStep, OneHandStep DEF PublisherInv
    <2>2. CASE Crash
      <3>1. \A r \in Requests : pc'[r] \notin InFlight
        BY <2>2, CrashStages, StageFacts
      <3>2. \A u \in Users : Len(queue'[u]) = 0
        BY <2>2 DEF Crash
      <3>3. QED
        BY <2>1, <3>1, <3>2 DEF PublisherInv, OlderFirst, QueuesOrdered
    <2>3. CASE ~Crash
      BY <2>1, <2>3, OlderStep, OrderStep DEF PublisherInv
    <2>4. QED
      BY <2>2, <2>3
  <1>3. PublisherInv => OnePublisher
    <2> SUFFICES ASSUME PublisherInv, loop = Idle, NEW k \in Keys, disk[k] # NoSession,
                        disk[k].status = "ready"
                 PROVE  \E r \in Requests : \A a \in Artifacts :
                          artifacts[k][a] \in {r} \cup {t \in Requests : CutOff(t)}
      BY DEF OnePublisher
    <2>1. \A t \in Requests : ~Passing(t, k)
      BY DEF Passing, At, Idle
    <2>2. OneHand(k)
      BY DEF PublisherInv, ReadyByOneHand, SaysReady
    <2>3. QED
      BY <2>1, <2>2 DEF OneHand, Excepted
  <1>4. QED
    BY <1>1, <1>2, <1>3, Invariance, PTL DEF Spec
===============================================================================
