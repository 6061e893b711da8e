------------------------- MODULE SessionCommitProofs --------------------------
(***************************************************************************)
(* Theorems about SessionCommit for every number of keys, users, requests  *)
(* and slots.  The inductive invariant has three parts: the types; that    *)
(* the objects handlers hold exist; and that each commit lock is a queue   *)
(* of the user's requests in flight, each once, headed by the request that *)
(* is past the lock.                                                       *)
(***************************************************************************)
EXTENDS SessionCommit, SequenceTheorems, TLAPS

\* What a handler holds on to exists in memory.
HeldObjects ==
  /\ \A r \in Requests : pc[r] \in InFlight => job[r].gen \in 1..Len(sessions[Key(r)])
  /\ loop.at \in {"charge", "record", "count"} => Len(sessions[loop.id]) > 0

LockQueues ==
  /\ \A u \in Users : \A i, j \in 1..Len(queue[u]) : queue[u][i] = queue[u][j] => i = j
  /\ \A u \in Users : \A i \in 1..Len(queue[u]) :
       LET r == queue[u][i] IN pc[r] \in InFlight /\ UserOf[Key(r)] = u
  /\ \A r \in Requests : pc[r] \in InFlight =>
       \E i \in 1..Len(queue[UserOf[Key(r)]]) : queue[UserOf[Key(r)]][i] = r
  /\ \A r \in Requests : pc[r] \in Critical => Head(queue[UserOf[Key(r)]]) = r

IInv == TypeOK /\ HeldObjects /\ LockQueues

-----------------------------------------------------------------------------
(* Lemmas about the operators the actions are built from. *)

\* A record made for a new session, and its updates, are SessionState records.
LEMMA FreshType == \A op \in Operators : Fresh(op) \in SessionState
  BY DEF Fresh, SessionState

\* The object a request in flight works on, and the one SESSIONS holds, are
\* SessionState records.
LEMMA ObjectTypes ==
  ASSUME TypeOK, HeldObjects
  PROVE  /\ \A r \in Requests : pc[r] \in InFlight =>
              /\ State(r) \in SessionState
              /\ Key(r) \in Keys
         /\ \A k \in Keys : sessions[k] # <<>> => Current(k) \in SessionState
  <1>1. ASSUME NEW r \in Requests, pc[r] \in InFlight
        PROVE  State(r) \in SessionState /\ Key(r) \in Keys
    <2>1. Key(r) \in Keys
      BY DEF TypeOK, Job, Key
    <2>2. sessions[Key(r)] \in Seq(SessionState)
      BY <2>1 DEF TypeOK
    <2>3. QED
      BY <1>1, <2>1, <2>2 DEF HeldObjects, State
  <1>2. ASSUME NEW k \in Keys, sessions[k] # <<>>
        PROVE  Current(k) \in SessionState
    <2>1. sessions[k] \in Seq(SessionState)
      BY DEF TypeOK
    <2>2. Len(sessions[k]) \in 1..Len(sessions[k])
      BY <1>2, <2>1
    <2>3. QED
      BY <2>1, <2>2 DEF Current
  <1>3. QED
    BY <1>1, <1>2

\* Assigning a SessionState to an object keeps the heap typed and every object.
LEMMA AssignType ==
  ASSUME TypeOK, NEW k \in Keys, NEW g \in 1..Len(sessions[k]),
         NEW s \in SessionState, Assign(k, g, s)
  PROVE  /\ sessions' \in [Keys -> Seq(SessionState)]
         /\ \A x \in Keys : Len(sessions'[x]) = Len(sessions[x])
  <1>1. sessions \in [Keys -> Seq(SessionState)]
    BY DEF TypeOK
  <1>2. /\ [sessions[k] EXCEPT ![g] = s] \in Seq(SessionState)
        /\ Len([sessions[k] EXCEPT ![g] = s]) = Len(sessions[k])
    BY <1>1, ExceptSeq
  <1>3. sessions' = [sessions EXCEPT ![k] = [sessions[k] EXCEPT ![g] = s]]
    BY <1>1 DEF Assign
  <1>4. QED
    BY <1>1, <1>2, <1>3

\* Updating the fields a handler updates keeps a record a SessionState.
LEMMA UpdateType ==
  ASSUME NEW s \in SessionState
  PROVE  /\ [s EXCEPT !.parts = @ + 1] \in SessionState
         /\ [s EXCEPT !.video = "merged"] \in SessionState
         /\ [s EXCEPT !.status = "processing"] \in SessionState
         /\ [s EXCEPT !.status = "ready"] \in SessionState
         /\ Failed(s) \in SessionState
  <1>1. [s EXCEPT !.parts = s.parts + 1] \in SessionState
    BY SMTT(30) DEF SessionState
  <1>2. [s EXCEPT !.video = "merged"] \in SessionState
    BY SMTT(30) DEF SessionState
  <1>3. /\ [s EXCEPT !.status = "processing"] \in SessionState
        /\ [s EXCEPT !.status = "ready"] \in SessionState
        /\ Failed(s) \in SessionState
    BY SMTT(30) DEF SessionState, Failed
  <1>4. QED
    BY <1>1, <1>2, <1>3

\* Saving a SessionState keeps the records on disk typed.
LEMMA SaveType ==
  ASSUME TypeOK, NEW k \in Keys, NEW s \in SessionState, Save(k, s)
  PROVE  disk' \in [Keys -> SessionState \cup {NoSession}]
  BY DEF TypeOK, Save

\* Leaving the lock keeps its queue typed.
LEMMA ReleaseType ==
  ASSUME TypeOK, NEW r \in Requests, queue[UserOf[Key(r)]] # <<>>, Key(r) \in Keys, Release(r)
  PROVE  queue' \in [Users -> Seq(Requests)]
  <1>1. UserOf[Key(r)] \in Users
    BY MapsAssumption
  <1>2. Tail(queue[UserOf[Key(r)]]) \in Seq(Requests)
    BY <1>1, HeadTailProperties DEF TypeOK
  <1>3. QED
    BY <1>1, <1>2 DEF TypeOK, Release

-----------------------------------------------------------------------------
(* Type correctness. *)

LEMMA InitType == Init => TypeOK /\ HeldObjects
  <1> SUFFICES ASSUME Init PROVE TypeOK /\ HeldObjects
    OBVIOUS
  <1>1. NoJob \in Job
    BY MapsAssumption DEF NoJob, NewJob, Job
  <1>2. HeldObjects
    BY DEF Init, HeldObjects, InFlight, Critical, Publishing, Artifacts, Idle
  <1>3. QED
    BY <1>1, <1>2 DEF Init, TypeOK, Stages

\* The stages as one enumerated set.
LEMMA StageFacts ==
  /\ InFlight \subseteq Stages
  /\ Critical \subseteq InFlight
  /\ Publishing \subseteq Critical
  /\ Artifacts \subseteq Publishing
  /\ \A s \in Artifacts : NextStage[s] \in Publishing
  /\ {"audio", "frames", "merge", "slot", "row", "fail"} \subseteq Critical
  /\ {"idle", "ok", "error", "dropped", "orphan"} \cap InFlight = {}
  /\ "lock" \notin Critical
  BY DEF InFlight, Critical, Publishing, Artifacts, Stages, NextStage

\* Every step of the other handlers keeps the types.
LEMMA HandlerTypes ==
  ASSUME IInv, NEW k \in Keys
  PROVE  /\ \A op \in Operators : StartSession(k, op) => TypeOK' /\ HeldObjects'
         /\ \A op \in Operators, i \in PartIndexes : UploadPart(k, op, i) => TypeOK' /\ HeldObjects'
         /\ HandlerStep(k) => TypeOK' /\ HeldObjects'
  <1> USE DEF IInv
  <1>1. ASSUME NEW op \in Operators, StartSession(k, op)
        PROVE  TypeOK' /\ HeldObjects'
    <2>1. CASE sessions' = [sessions EXCEPT ![k] = Append(@, Fresh(op))] /\ loop' = At("charge", k)
      <3>1. /\ Append(sessions[k], Fresh(op)) \in Seq(SessionState)
            /\ Len(Append(sessions[k], Fresh(op))) = Len(sessions[k]) + 1
            /\ Len(sessions[k]) \in Nat
        BY FreshType, AppendProperties DEF TypeOK
      <3>2. TypeOK'
        BY <1>1, <2>1, <3>1, MapsAssumption DEF TypeOK, StartSession, At
      <3>3. HeldObjects'
        BY <1>1, <2>1, <3>1 DEF TypeOK, HeldObjects, StartSession, At, Key
      <3>4. QED
        BY <3>2, <3>3
    <2>2. CASE UNCHANGED <<sessions, loop>>
      BY <1>1, <2>2, MapsAssumption DEF TypeOK, HeldObjects, StartSession, Key
    <2>3. QED
      BY <1>1, <2>1, <2>2 DEF StartSession
  <1>2. ASSUME NEW op \in Operators, NEW i \in PartIndexes, UploadPart(k, op, i)
        PROVE  TypeOK' /\ HeldObjects'
    <2>1. UploadDir[k] \in Dirs /\ <<op, i>> \in PartFiles
      BY MapsAssumption DEF PartFiles
    <2>2. Len(sessions[k]) > 0
      BY <1>2, EmptySeq, LenProperties DEF TypeOK, UploadPart
    <2>3. parts' \in [Dirs -> SUBSET PartFiles]
      <3>1. parts \in [Dirs -> SUBSET PartFiles]
        BY DEF TypeOK
      <3>2. /\ parts[UploadDir[k]] \ {<<op, i>>} \in SUBSET PartFiles
            /\ parts[UploadDir[k]] \cup {<<op, i>>} \in SUBSET PartFiles
        BY <2>1, <3>1
      <3>3. \/ parts' = [parts EXCEPT ![UploadDir[k]] = @ \ {<<op, i>>}]
            \/ parts' = [parts EXCEPT ![UploadDir[k]] = @ \cup {<<op, i>>}]
        BY <1>2 DEF UploadPart
      <3>4. QED
        BY <3>1, <3>2, <3>3
    <2>4. QED
      BY <1>2, <2>2, <2>3 DEF TypeOK, HeldObjects, UploadPart, At, Idle, Key
  <1>3. ASSUME HandlerStep(k)
        PROVE  TypeOK' /\ HeldObjects'
    <2>1. CASE ChargeSession(k)
      BY <2>1, MapsAssumption DEF TypeOK, HeldObjects, ChargeSession, At, Key
    <2>2. CASE RecordSession(k)
      <3>1. Len(sessions[k]) > 0
        BY <2>2 DEF RecordSession, HeldObjects, At
      <3>2. Current(k) \in SessionState
        BY <3>1, ObjectTypes
      <3>3. disk' \in [Keys -> SessionState \cup {NoSession}]
        BY <2>2, <3>2, SaveType DEF RecordSession
      <3>4. QED
        BY <2>2, <3>3 DEF TypeOK, HeldObjects, RecordSession, Idle, Key
    <2>3. CASE CountPart(k)
      <3> DEFINE s == [Current(k) EXCEPT !.parts = @ + 1]
      <3>1. Len(sessions[k]) \in 1..Len(sessions[k])
        BY <2>3, LenProperties DEF CountPart, HeldObjects, At, TypeOK
      <3>2. s \in SessionState
        <4>1. Current(k) \in SessionState
          BY <3>1, EmptySeq, ObjectTypes
        <4>2. QED
          BY <4>1, UpdateType
      <3>3. /\ sessions' \in [Keys -> Seq(SessionState)]
            /\ \A x \in Keys : Len(sessions'[x]) = Len(sessions[x])
        BY <2>3, <3>1, <3>2, AssignType DEF CountPart
      <3>4. disk' \in [Keys -> SessionState \cup {NoSession}]
        BY <2>3, <3>2, SaveType DEF CountPart
      <3>5. QED
        BY <2>3, <3>3, <3>4 DEF TypeOK, HeldObjects, CountPart, Idle, Key, Job
    <2>4. QED
      BY <1>3, <2>1, <2>2, <2>3 DEF HandlerStep
  <1>4. QED
    BY <1>1, <1>2, <1>3

\* What every step of a request in flight may use.
LEMMA InFlightFacts ==
  ASSUME IInv, NEW r \in Requests, pc[r] \in InFlight
  PROVE  /\ Key(r) \in Keys
         /\ UserOf[Key(r)] \in Users
         /\ OrgOf[Key(r)] \in Orgs
         /\ OutputOf[Key(r)] \in Outputs
         /\ MergeDir[Key(r)] \in Dirs
         /\ job[r] \in Job
         /\ job[r].gen \in 1..Len(sessions[Key(r)])
         /\ State(r) \in SessionState
         /\ queue[UserOf[Key(r)]] \in Seq(Requests)
         /\ queue[UserOf[Key(r)]] # <<>>
  <1>1. Key(r) \in Keys /\ State(r) \in SessionState
    BY ObjectTypes DEF IInv
  <1>2. /\ UserOf[Key(r)] \in Users /\ OrgOf[Key(r)] \in Orgs
        /\ OutputOf[Key(r)] \in Outputs /\ MergeDir[Key(r)] \in Dirs
    BY <1>1, MapsAssumption
  <1>3. /\ job[r] \in Job
        /\ job[r].gen \in 1..Len(sessions[Key(r)])
        /\ queue[UserOf[Key(r)]] \in Seq(Requests)
    BY <1>2 DEF IInv, TypeOK, HeldObjects
  <1>4. queue[UserOf[Key(r)]] # <<>>
    BY <1>3, EmptySeq, LenProperties DEF IInv, LockQueues
  <1>5. QED
    BY <1>1, <1>2, <1>3, <1>4

\* A job updated by a request stays a job on the same object.
SameTarget(j, i) == i \in Job /\ i.key = j.key /\ i.gen = j.gen

LEMMA JobUpdates ==
  ASSUME NEW j \in Job
  PROVE  /\ SameTarget(j, j)
         /\ \A found \in SUBSET PartFiles, n \in Nat :
              SameTarget(j, [j EXCEPT !.merged = found, !.tries = n])
         /\ \A n \in Nat : SameTarget(j, [j EXCEPT !.packet = "processing", !.tries = n])
         /\ SameTarget(j, [j EXCEPT !.packet = "ready"])
         /\ SameTarget(j, [j EXCEPT !.packet = "failed"])
  <1>1. \A found \in SUBSET PartFiles, n \in Nat :
          SameTarget(j, [j EXCEPT !.merged = found, !.tries = n])
    BY DEF Job, SameTarget
  <1>2. \A n \in Nat : SameTarget(j, [j EXCEPT !.packet = "processing", !.tries = n])
    BY DEF Job, SameTarget
  <1>3. /\ SameTarget(j, [j EXCEPT !.packet = "ready"])
        /\ SameTarget(j, [j EXCEPT !.packet = "failed"])
    BY DEF Job, SameTarget
  <1>4. QED
    BY <1>1, <1>2, <1>3 DEF SameTarget

\* A stop-commit that begins keeps the types.
LEMMA BeginTypes ==
  ASSUME IInv, NEW r \in Requests, NEW k \in Keys, NEW op \in Operators, BeginCommit(r, k, op)
  PROVE  TypeOK' /\ HeldObjects'
  <1> DEFINE s == [Current(k) EXCEPT !.status = "processing"]
             u == UserOf[k]
             j == NewJob(k, Len(sessions[k]))
  <1>1. /\ u \in Users
        /\ sessions[k] \in Seq(SessionState)
        /\ queue[u] \in Seq(Requests)
    BY MapsAssumption DEF IInv, TypeOK
  <1>2. /\ sessions[k] # <<>>
        /\ Len(sessions[k]) \in 1..Len(sessions[k])
        /\ s \in SessionState
    <2>1. sessions[k] # <<>>
      BY DEF BeginCommit
    <2>2. Len(sessions[k]) \in 1..Len(sessions[k])
      BY <1>1, <2>1, EmptySeq
    <2>3. Current(k) \in SessionState
      BY <2>1, ObjectTypes DEF IInv
    <2>4. s \in SessionState
      BY <2>3, UpdateType
    <2>5. QED
      BY <2>1, <2>2, <2>4
  <1>3. /\ sessions' \in [Keys -> Seq(SessionState)]
        /\ \A x \in Keys : Len(sessions'[x]) = Len(sessions[x])
    BY <1>2, AssignType DEF BeginCommit, IInv
  <1>4. disk' \in [Keys -> SessionState \cup {NoSession}]
    BY <1>2, SaveType DEF BeginCommit, IInv
  <1>5. queue' \in [Users -> Seq(Requests)]
    BY <1>1, AppendProperties DEF BeginCommit, IInv, TypeOK
  <1>6. /\ job' = [job EXCEPT ![r] = j]
        /\ j \in Job
        /\ j.key = k /\ j.gen = Len(sessions[k])
    <2>1. job' = [job EXCEPT ![r] = j]
      BY DEF BeginCommit
    <2>2. Len(sessions[k]) \in Nat
      BY <1>2
    <2>3. QED
      BY <2>1, <2>2 DEF NewJob, Job
  <1>7. /\ pc' = [pc EXCEPT ![r] = "lock"]
        /\ loop' \in {Idle, At("commit", r)}
    BY DEF BeginCommit, Goto
  <1>8. TypeOK'
    <2>1. "lock" \in Stages
      BY DEF Stages
    <2>2. UNCHANGED <<parts, finals, artifacts, started, committed, seats, running, waiting>>
      BY DEF BeginCommit
    <2>3. QED
      BY <1>3, <1>4, <1>5, <1>6, <1>7, <2>1, <2>2 DEF TypeOK, IInv, At
  <1>9. HeldObjects'
    <2>1. ASSUME NEW t \in Requests, pc'[t] \in InFlight
          PROVE  job'[t].gen \in 1..Len(sessions'[job'[t].key])
      <3>1. CASE t = r
        BY <1>2, <1>3, <1>6, <3>1 DEF IInv, TypeOK
      <3>2. CASE t # r
        <4>1. job'[t] = job[t] /\ pc[t] \in InFlight
          BY <1>6, <1>7, <2>1, <3>2 DEF IInv, TypeOK
        <4>2. QED
          BY <1>3, <4>1, InFlightFacts DEF Key
      <3>3. QED
        BY <3>1, <3>2
    <2>2. loop'.at \notin {"charge", "record", "count"}
      BY <1>7 DEF Idle, At
    <2>3. QED
      BY <2>1, <2>2 DEF HeldObjects, Key
  <1>10. QED
    BY <1>8, <1>9

\* A step that moves one request to another stage, keeps its target and leaves
\* every object in place keeps what handlers hold.
LEMMA HeldKept ==
  ASSUME IInv, NEW r \in Requests, pc[r] \in InFlight,
         NEW stage, pc' = [pc EXCEPT ![r] = stage],
         NEW j, SameTarget(job[r], j), job' = [job EXCEPT ![r] = j],
         \A x \in Keys : Len(sessions'[x]) = Len(sessions[x]),
         loop' \in {loop, Idle, At("commit", r)}
  PROVE  HeldObjects' /\ job' \in [Requests -> Job]
  <1>1. ASSUME NEW t \in Requests, pc'[t] \in InFlight
        PROVE  job'[t].gen \in 1..Len(sessions'[job'[t].key])
    <2>1. pc[t] \in InFlight /\ job'[t].gen = job[t].gen /\ job'[t].key = job[t].key
      BY <1>1 DEF SameTarget, IInv, TypeOK
    <2>2. QED
      BY <2>1, InFlightFacts DEF Key
  <1>2. ASSUME loop'.at \in {"charge", "record", "count"}
        PROVE  Len(sessions'[loop'.id]) > 0
    <2>1. loop' = loop
      BY <1>2 DEF Idle, At
    <2>2. loop.id \in Keys
      BY <1>2, <2>1 DEF IInv, TypeOK, Idle
    <2>3. QED
      BY <1>2, <2>1, <2>2 DEF IInv, HeldObjects
  <1>3. job' \in [Requests -> Job]
    BY DEF SameTarget, IInv, TypeOK
  <1>4. QED
    BY <1>1, <1>2, <1>3 DEF HeldObjects, Key

\* Every step of a request keeps the types, first those on the way to the row ...
LEMMA FirstStepsTypes ==
  ASSUME IInv, NEW r \in Requests,
         \/ AcquireLock(r) \/ MergeFails(r) \/ MergeDone(r)
         \/ AcquireSlot(r) \/ AudioDone(r) \/ FramesDone(r) \/ PacketFails(r)
  PROVE  TypeOK' /\ HeldObjects'
  <1> USE DEF IInv
  <1>1. pc[r] \in {"lock", "merge", "slot", "audio", "frames"}
    BY DEF AcquireLock, MergeFails, MergeDone, AcquireSlot, AudioDone, FramesDone, PacketFails
  <1>2. pc[r] \in InFlight
    BY <1>1 DEF InFlight, Critical
  <1>3. /\ Key(r) \in Keys /\ OutputOf[Key(r)] \in Outputs /\ job[r] \in Job
        /\ parts[MergeDir[Key(r)]] \in SUBSET PartFiles
        /\ job[r].merged \in SUBSET PartFiles
        /\ job[r].tries \in Nat /\ job[r].tries + 1 \in Nat
    BY <1>2, InFlightFacts DEF TypeOK, Job
  <1>4. \E stage \in Stages : pc' = [pc EXCEPT ![r] = stage]
    BY DEF AcquireLock, MergeFails, Merge, MergeDone, AcquireSlot, AudioDone, FramesDone,
           PacketFails, Submit, Goto, Stages
  <1>5. PICK stage \in Stages : pc' = [pc EXCEPT ![r] = stage]
    BY <1>4
  <1>6. pc' \in [Requests -> Stages]
    BY <1>5 DEF TypeOK
  <1>7. \E j : SameTarget(job[r], j) /\ job' = [job EXCEPT ![r] = j]
    <2> DEFINE Becomes(j) == job' = [job EXCEPT ![r] = j]
    <2>1. \/ Becomes(job[r])
          \/ \E n \in Nat : \/ Becomes([job[r] EXCEPT !.merged = parts[MergeDir[Key(r)]], !.tries = n])
                          \/ Becomes([job[r] EXCEPT !.packet = "processing", !.tries = n])
          \/ Becomes([job[r] EXCEPT !.packet = "ready"])
          \/ Becomes([job[r] EXCEPT !.packet = "failed"])
      <3>1. CASE AcquireLock(r)
        BY <3>1 DEF AcquireLock, Merge, TypeOK
      <3>2. CASE MergeFails(r)
        BY <1>3, <3>2 DEF MergeFails, Merge, TypeOK
      <3>3. CASE MergeDone(r)
        BY <3>3 DEF MergeDone, Submit, TypeOK
      <3>4. CASE AcquireSlot(r) \/ AudioDone(r)
        BY <3>4 DEF AcquireSlot, AudioDone, TypeOK
      <3>5. CASE FramesDone(r)
        BY <3>5 DEF FramesDone, TypeOK
      <3>6. CASE PacketFails(r)
        BY <1>3, <3>6 DEF PacketFails, Submit, TypeOK
      <3>7. QED
        BY <3>1, <3>2, <3>3, <3>4, <3>5, <3>6
    <2>2. QED
      BY <1>3, <2>1, JobUpdates
  <1>8. PICK j : SameTarget(job[r], j) /\ job' = [job EXCEPT ![r] = j]
    BY <1>7
  <1>9. /\ UNCHANGED <<sessions, disk, parts, artifacts, started, committed, seats, queue>>
        /\ loop' \in {loop, Idle, At("commit", r)}
    BY DEF AcquireLock, MergeFails, Merge, MergeDone, AcquireSlot, AudioDone, FramesDone,
           PacketFails
  <1>10. HeldObjects' /\ job' \in [Requests -> Job]
    BY <1>2, <1>5, <1>8, <1>9, HeldKept
  <1>11. finals' \in [Outputs -> SUBSET PartFiles]
    <2>1. finals' = finals \/ \E content \in SUBSET PartFiles : WriteFinal(r, content)
      <3>1. MayLeave(r) \in SUBSET SUBSET PartFiles
        BY <1>3 DEF MayLeave, TypeOK
      <3>2. QED
        BY <1>3, <3>1 DEF AcquireLock, MergeFails, MergeDone, AcquireSlot, AudioDone, FramesDone,
                          PacketFails
    <2>2. QED
      BY <1>3, <2>1 DEF WriteFinal, TypeOK
  <1>12. running' \in SUBSET Requests
    BY DEF AcquireLock, MergeFails, MergeDone, AcquireSlot, AudioDone, FramesDone,
           PacketFails, TypeOK
  <1>13. waiting' \in Seq(Requests)
    <2>1. \/ waiting' = waiting
          \/ waiting' = Append(waiting, r)
          \/ waiting # <<>> /\ waiting' = Tail(waiting)
      BY DEF AcquireLock, MergeFails, MergeDone, AcquireSlot, AudioDone, FramesDone,
             PacketFails, Submit
    <2>2. waiting \in Seq(Requests)
      BY DEF TypeOK
    <2>3. QED
      BY <2>1, <2>2, AppendProperties, HeadTailProperties
  <1>14. QED
    BY <1>6, <1>9, <1>10, <1>11, <1>12, <1>13 DEF TypeOK, At

\* ... then those of the tail, which touch the object and the files ...
LEMMA LastStepsTypes ==
  ASSUME IInv, NEW r \in Requests,
         \/ TakeRow(r) \/ WriteArtifact(r) \/ PublishReady(r) \/ CountCommit(r)
         \/ StageFails(r) \/ FailCommit(r)
  PROVE  TypeOK' /\ HeldObjects'
  <1> USE DEF IInv
  <1> DEFINE k == Key(r)
             g == job[r].gen
  <1>1. pc[r] \in InFlight
    BY DEF TakeRow, WriteArtifact, PublishReady, CountCommit, StageFails, FailCommit,
           InFlight, Critical, Publishing
  <1>2. /\ k \in Keys /\ UserOf[k] \in Users /\ OrgOf[k] \in Orgs
        /\ g \in 1..Len(sessions[k]) /\ State(r) \in SessionState
        /\ queue[UserOf[k]] \in Seq(Requests) /\ queue[UserOf[k]] # <<>>
    BY <1>1, InFlightFacts
  <1>3. SameTarget(job[r], job[r]) /\ job' = [job EXCEPT ![r] = job[r]]
    BY <1>1, JobUpdates, InFlightFacts
       DEF TakeRow, WriteArtifact, PublishReady, CountCommit, StageFails, FailCommit, TypeOK
  <1>4. PICK stage \in Stages : pc' = [pc EXCEPT ![r] = stage]
    BY DEF TakeRow, WriteArtifact, PublishReady, CountCommit, StageFails, FailCommit,
           Goto, Stages, Publishing, Artifacts, NextStage
  <1>5. \/ sessions' = sessions
        \/ \E s \in SessionState : Assign(k, g, s)
    BY <1>2, UpdateType
       DEF TakeRow, WriteArtifact, PublishReady, CountCommit, StageFails, FailCommit, SetState
  <1>6. /\ sessions' \in [Keys -> Seq(SessionState)]
        /\ \A x \in Keys : Len(sessions'[x]) = Len(sessions[x])
    BY <1>2, <1>5, AssignType DEF TypeOK
  <1>7. disk' \in [Keys -> SessionState \cup {NoSession}]
    <2>1. disk' = disk \/ \E s \in SessionState : Save(k, s)
      BY <1>2, UpdateType
         DEF TakeRow, WriteArtifact, PublishReady, CountCommit, StageFails, FailCommit
    <2>2. QED
      BY <1>2, <2>1, SaveType DEF TypeOK
  <1>8. artifacts' \in [Keys -> [Artifacts -> Requests \cup {NoRequest}]]
    <2>1. \/ artifacts' = artifacts
          \/ \E a \in Artifacts : artifacts' = [artifacts EXCEPT ![k][a] = r]
      BY DEF TakeRow, WriteArtifact, PublishReady, CountCommit, StageFails, FailCommit
    <2>2. ASSUME NEW a \in Artifacts, artifacts' = [artifacts EXCEPT ![k][a] = r]
          PROVE  artifacts' \in [Keys -> [Artifacts -> Requests \cup {NoRequest}]]
      <3>1. artifacts[k] \in [Artifacts -> Requests \cup {NoRequest}]
        BY <1>2 DEF TypeOK
      <3>2. [artifacts[k] EXCEPT ![a] = r] \in [Artifacts -> Requests \cup {NoRequest}]
        BY <3>1
      <3>3. artifacts' = [artifacts EXCEPT ![k] = [artifacts[k] EXCEPT ![a] = r]]
        BY <2>2 DEF TypeOK
      <3>4. QED
        BY <3>2, <3>3 DEF TypeOK
    <2>3. QED
      BY <2>1, <2>2 DEF TypeOK
  <1>9. committed' \in [Orgs -> Nat]
    <2>1. committed' = committed \/ committed' = [committed EXCEPT ![OrgOf[k]] = committed[OrgOf[k]] + 1]
      BY DEF TakeRow, WriteArtifact, PublishReady, CountCommit, StageFails, FailCommit
    <2>2. committed \in [Orgs -> Nat]
      BY DEF TypeOK
    <2>3. QED
      BY <1>2, <2>1, <2>2
  <1>10. queue' \in [Users -> Seq(Requests)]
    <2>1. UNCHANGED queue \/ Release(r)
      BY DEF TakeRow, WriteArtifact, PublishReady, CountCommit, StageFails, FailCommit
    <2>2. QED
      BY <1>2, <2>1, ReleaseType DEF TypeOK
  <1>11. /\ UNCHANGED <<parts, finals, started, seats, running, waiting>>
         /\ loop' \in {loop, Idle, At("commit", r)}
    BY DEF TakeRow, WriteArtifact, PublishReady, CountCommit, StageFails, FailCommit
  <1>12. HeldObjects' /\ job' \in [Requests -> Job]
    BY <1>1, <1>3, <1>4, <1>6, <1>11, HeldKept
  <1>13. TypeOK'
    <2>1. pc' \in [Requests -> Stages]
      BY <1>4 DEF TypeOK
    <2>2. QED
      BY <1>6, <1>7, <1>8, <1>9, <1>10, <1>11, <1>12, <2>1 DEF TypeOK, At
  <1>14. QED
    BY <1>12, <1>13

\* Where a crash leaves the requests: none is in flight any more, those that were are
\* dropped or orphans, the others stay where they are.
LEMMA CrashStages ==
  ASSUME IInv, Crash
  PROVE  /\ pc' = [r \in Requests |-> pc'[r]]
         /\ \A r \in Requests :
              \/ pc[r] \in InFlight /\ pc'[r] = "dropped"
              \/ pc[r] = "merge" /\ pc'[r] = "orphan"
              \/ pc[r] \notin InFlight /\ pc'[r] = pc[r]
  <1>1. PICK orphans \in SUBSET {r \in Requests : pc[r] = "merge"} :
          pc' = [r \in Requests |-> IF r \in orphans THEN "orphan"
                                   ELSE IF pc[r] \in InFlight THEN "dropped" ELSE pc[r]]
    BY DEF Crash
  <1>2. QED
    BY <1>1

\* ... a crash, which leaves no object and no holder, ...
LEMMA CrashTypes == ASSUME IInv, Crash PROVE TypeOK' /\ HeldObjects'
  <1>1. \A r \in Requests : pc'[r] \in Stages /\ pc'[r] \notin InFlight
    BY StageFacts, CrashStages DEF IInv, TypeOK, Stages
  <1>2. pc' \in [Requests -> Stages]
    BY <1>1, CrashStages
  <1>3. <<>> \in Seq(SessionState) /\ <<>> \in Seq(Requests)
    BY EmptySeq
  <1>4. TypeOK'
    BY <1>2, <1>3 DEF Crash, IInv, TypeOK, files
  <1>5. HeldObjects'
    BY <1>1 DEF Crash, HeldObjects, Idle
  <1>6. QED
    BY <1>4, <1>5

\* ... and the end of a merge that outlived the process.
LEMMA OrphanTypes ==
  ASSUME IInv, NEW r \in Requests, OrphanEnds(r)
  PROVE  TypeOK' /\ HeldObjects'
  <1>1. /\ pc' = [pc EXCEPT ![r] = "dropped"] /\ "dropped" \in Stages /\ "dropped" \notin InFlight
        /\ UNCHANGED <<sessions, disk, parts, artifacts, started, committed, seats,
                       queue, running, waiting, job, loop>>
    BY StageFacts DEF OrphanEnds, Goto, Stages
  <1>2. /\ Key(r) \in Keys /\ OutputOf[Key(r)] \in Outputs
        /\ job[r].merged \in SUBSET PartFiles
    BY MapsAssumption DEF IInv, TypeOK, Job, Key
  <1>3. finals' \in [Outputs -> SUBSET PartFiles]
    <2>1. MayLeave(r) \in SUBSET SUBSET PartFiles
      BY <1>2 DEF MayLeave, IInv, TypeOK
    <2>2. QED
      BY <1>2, <2>1 DEF OrphanEnds, WriteFinal, IInv, TypeOK
  <1>4. TypeOK'
    BY <1>1, <1>3 DEF IInv, TypeOK
  <1>5. HeldObjects'
    BY <1>1 DEF IInv, TypeOK, HeldObjects, Key
  <1>6. QED
    BY <1>4, <1>5

LEMMA TypeStep == IInv /\ [Next]_vars => TypeOK' /\ HeldObjects'
  <1> SUFFICES ASSUME IInv, [Next]_vars PROVE TypeOK' /\ HeldObjects'
    OBVIOUS
  <1>1. CASE UNCHANGED vars
    BY <1>1 DEF vars, IInv, TypeOK, HeldObjects, Key
  <1>2. ASSUME NEW k \in Keys, NEW op \in Operators,
               \/ StartSession(k, op)
               \/ \E i \in PartIndexes : UploadPart(k, op, i)
               \/ \E r \in Requests : BeginCommit(r, k, op)
        PROVE  TypeOK' /\ HeldObjects'
    BY <1>2, HandlerTypes, BeginTypes
  <1>3. ASSUME NEW k \in Keys, HandlerStep(k)
        PROVE  TypeOK' /\ HeldObjects'
    BY <1>3, HandlerTypes
  <1>4. ASSUME NEW r \in Requests, CommitStep(r)
        PROVE  TypeOK' /\ HeldObjects'
    BY <1>4, FirstStepsTypes, LastStepsTypes DEF CommitStep
  <1>5. CASE Crash
    BY <1>5, CrashTypes
  <1>6. ASSUME NEW r \in Requests, OrphanEnds(r)
        PROVE  TypeOK' /\ HeldObjects'
    BY <1>6, OrphanTypes
  <1>7. QED
    BY <1>1, <1>2, <1>3, <1>4, <1>5, <1>6 DEF Next

-----------------------------------------------------------------------------
(* The commit locks. *)

\* A step that leaves the queues and the set of requests in flight alone, and
\* lets only the head of a queue past the lock, keeps the lock queues.
LEMMA QueuesKept ==
  ASSUME IInv, queue' = queue,
         \A t \in Requests : pc'[t] \in InFlight <=> pc[t] \in InFlight,
         \A t \in Requests : pc[t] \in InFlight => job'[t].key = job[t].key,
         \A t \in Requests : pc'[t] \in Critical =>
           pc[t] \in Critical \/ (pc[t] \in InFlight /\ HoldsLock(t))
  PROVE  LockQueues'
  <1>1. \A u \in Users : \A i \in 1..Len(queue[u]) : queue[u][i] \in Requests
    BY ElementOfSeq DEF IInv, TypeOK
  <1>2. \A u \in Users : \A i \in 1..Len(queue[u]) :
          pc'[queue[u][i]] \in InFlight /\ UserOf[Key(queue[u][i])'] = u
    BY <1>1 DEF IInv, LockQueues, Key
  <1>3. \A t \in Requests : pc'[t] \in InFlight =>
          \E i \in 1..Len(queue[UserOf[Key(t)']]) : queue[UserOf[Key(t)']][i] = t
    BY DEF IInv, LockQueues, Key
  <1>4. \A t \in Requests : pc'[t] \in Critical => Head(queue[UserOf[Key(t)']]) = t
    BY StageFacts DEF IInv, LockQueues, Key, HoldsLock
  <1>5. QED
    BY <1>2, <1>3, <1>4 DEF IInv, LockQueues

\* A request that begins joins the end of its user's queue.
LEMMA QueuesBegin ==
  ASSUME IInv, NEW r \in Requests, NEW k \in Keys, NEW op \in Operators, BeginCommit(r, k, op)
  PROVE  LockQueues'
  <1> DEFINE u == UserOf[k]
             q == queue[u]
             n == Len(q)
  <1>1. /\ u \in Users /\ q \in Seq(Requests) /\ n \in Nat
        /\ queue \in [Users -> Seq(Requests)]
    BY MapsAssumption, LenProperties DEF IInv, TypeOK
  <1>2. /\ queue' = [queue EXCEPT ![u] = Append(q, r)]
        /\ pc[r] = "idle" /\ pc' = [pc EXCEPT ![r] = "lock"]
        /\ job'[r].key = k
        /\ \A t \in Requests \ {r} : job'[t] = job[t] /\ pc'[t] = pc[t]
        /\ pc'[r] = "lock"
    BY DEF BeginCommit, Goto, NewJob, IInv, TypeOK
  <1>3. /\ Len(queue'[u]) = n + 1
        /\ \A i \in 1..n : queue'[u][i] = q[i]
        /\ queue'[u][n + 1] = r
        /\ \A v \in Users \ {u} : queue'[v] = queue[v]
    BY <1>1, <1>2, AppendProperties
  <1>4. \A v \in Users : \A i \in 1..Len(queue[v]) :
          /\ queue[v][i] \in Requests \ {r}
          /\ pc[queue[v][i]] \in InFlight
          /\ UserOf[Key(queue[v][i])] = v
    <2>1. \A v \in Users : \A i \in 1..Len(queue[v]) : queue[v][i] \in Requests
      BY <1>1, ElementOfSeq
    <2>2. pc[r] \notin InFlight
      BY <1>2, StageFacts
    <2>3. QED
      BY <2>1, <2>2 DEF IInv, LockQueues
  <1>5. ASSUME NEW v \in Users, NEW i \in 1..Len(queue'[v]), NEW j \in 1..Len(queue'[v]),
               queue'[v][i] = queue'[v][j]
        PROVE  i = j
    <2>1. CASE v = u
      BY <1>1, <1>3, <1>4, <1>5, <2>1 DEF IInv, LockQueues
    <2>2. CASE v # u
      BY <1>3, <1>5, <2>2 DEF IInv, LockQueues
    <2>3. QED
      BY <2>1, <2>2
  <1>6. ASSUME NEW v \in Users, NEW i \in 1..Len(queue'[v])
        PROVE  pc'[queue'[v][i]] \in InFlight /\ UserOf[job'[queue'[v][i]].key] = v
    <2>1. CASE v = u /\ i = n + 1
      BY <1>2, <1>3, <2>1 DEF Key, InFlight
    <2>2. CASE ~(v = u /\ i = n + 1)
      <3>1. i \in 1..Len(queue[v]) /\ queue'[v][i] = queue[v][i]
        BY <1>1, <1>3, <1>6, <2>2
      <3>2. QED
        BY <1>2, <1>4, <3>1 DEF Key
    <2>3. QED
      BY <2>1, <2>2
  <1>7. ASSUME NEW t \in Requests, pc'[t] \in InFlight
        PROVE  \E i \in 1..Len(queue'[UserOf[Key(t)']]) : queue'[UserOf[Key(t)']][i] = t
    <2>1. CASE t = r
      BY <1>1, <1>2, <1>3, <2>1 DEF Key
    <2>2. CASE t # r
      <3>1. pc[t] \in InFlight /\ Key(t)' = Key(t) /\ UserOf[Key(t)] \in Users
        BY <1>2, <1>7, <2>2, InFlightFacts DEF Key
      <3>2. PICK i \in 1..Len(queue[UserOf[Key(t)]]) : queue[UserOf[Key(t)]][i] = t
        BY <3>1 DEF IInv, LockQueues
      <3>3. /\ i \in 1..Len(queue'[UserOf[Key(t)]])
            /\ queue'[UserOf[Key(t)]][i] = t
        BY <1>1, <1>3, <3>1, <3>2
      <3>4. QED
        BY <3>1, <3>3
    <2>3. QED
      BY <2>1, <2>2
  <1>8. ASSUME NEW t \in Requests, pc'[t] \in Critical
        PROVE  Head(queue'[UserOf[Key(t)']]) = t
    <2>1. t # r /\ pc[t] \in Critical /\ pc[t] \in InFlight /\ Key(t)' = Key(t)
      BY <1>2, <1>8, StageFacts DEF Key
    <2>2. /\ UserOf[Key(t)] \in Users
          /\ queue[UserOf[Key(t)]] # <<>>
          /\ Head(queue[UserOf[Key(t)]]) = t
      BY <2>1, InFlightFacts DEF IInv, LockQueues
    <2>3. CASE UserOf[Key(t)] = u
      <3>1. Head(Append(q, r)) = Head(q)
        BY <1>1, <2>2, <2>3, HeadTailAppend
      <3>2. QED
        BY <1>1, <1>2, <2>1, <2>2, <2>3, <3>1
    <2>4. CASE UserOf[Key(t)] # u
      BY <1>3, <2>1, <2>2, <2>4
    <2>5. QED
      BY <2>3, <2>4
  <1>9. QED
    BY <1>5, <1>6, <1>7, <1>8 DEF LockQueues, Key

\* A request that ends leaves the head of its user's queue to the next one.
LEMMA QueuesRelease ==
  ASSUME IInv, NEW r \in Requests, pc[r] \in Critical, Release(r),
         NEW stage, stage \notin InFlight, pc' = [pc EXCEPT ![r] = stage], job' = job
  PROVE  LockQueues'
  <1> DEFINE u == UserOf[Key(r)]
             q == queue[u]
             n == Len(q)
  <1>1. /\ u \in Users /\ q \in Seq(Requests) /\ n \in Nat /\ n > 0 /\ q # <<>>
        /\ queue \in [Users -> Seq(Requests)]
        /\ Head(q) = r /\ q[1] = r
    <2>1. pc[r] \in InFlight
      BY StageFacts
    <2>2. u \in Users /\ q \in Seq(Requests) /\ q # <<>>
      BY <2>1, InFlightFacts
    <2>3. queue \in [Users -> Seq(Requests)]
      BY DEF IInv, TypeOK
    <2>4. n \in Nat /\ n > 0
      BY <2>2, EmptySeq, LenProperties
    <2>5. Head(q) = r
      BY DEF IInv, LockQueues
    <2>6. QED
      BY <2>2, <2>3, <2>4, <2>5
  <1>2. /\ queue' = [queue EXCEPT ![u] = Tail(q)]
        /\ Len(Tail(q)) = n - 1
        /\ \A i \in 1..(n - 1) : Tail(q)[i] = q[i + 1]
    BY <1>1, HeadTailProperties DEF Release
  <1>3. /\ queue'[u] = Tail(q)
        /\ \A v \in Users \ {u} : queue'[v] = queue[v]
    BY <1>1, <1>2
  <1>4. \A t \in Requests \ {r} : pc'[t] = pc[t]
    BY DEF IInv, TypeOK
  <1>5. pc'[r] \notin InFlight
    BY DEF IInv, TypeOK
  <1>6. \A v \in Users : \A i \in 1..Len(queue[v]) :
          queue[v][i] = r => v = u /\ i = 1
    BY <1>1 DEF IInv, LockQueues
  <1>7. ASSUME NEW v \in Users, NEW i \in 1..Len(queue'[v])
        PROVE  \E m \in 1..Len(queue[v]) : /\ queue[v][m] = queue'[v][i]
                                           /\ m = IF v = u THEN i + 1 ELSE i
    <2>1. CASE v = u
      BY <1>1, <1>2, <1>3, <2>1
    <2>2. CASE v # u
      BY <1>3, <2>2
    <2>3. QED
      BY <2>1, <2>2
  <1>8. ASSUME NEW v \in Users, NEW i \in 1..Len(queue'[v]), NEW j \in 1..Len(queue'[v]),
               queue'[v][i] = queue'[v][j]
        PROVE  i = j
    <2>1. CASE v = u
      <3>1. /\ i + 1 \in 1..n /\ j + 1 \in 1..n
            /\ q[i + 1] = q[j + 1]
        BY <1>1, <1>2, <1>3, <1>8, <2>1
      <3>2. i + 1 = j + 1
        BY <1>1, <3>1 DEF IInv, LockQueues
      <3>3. QED
        BY <1>1, <1>2, <1>3, <2>1, <3>2
    <2>2. CASE v # u
      BY <1>3, <1>8, <2>2 DEF IInv, LockQueues
    <2>3. QED
      BY <2>1, <2>2
  <1>9. ASSUME NEW v \in Users, NEW i \in 1..Len(queue'[v])
        PROVE  pc'[queue'[v][i]] \in InFlight /\ UserOf[job'[queue'[v][i]].key] = v
    <2>1. PICK m \in 1..Len(queue[v]) : /\ queue[v][m] = queue'[v][i]
                                        /\ m = IF v = u THEN i + 1 ELSE i
      BY <1>7
    <2>2. queue[v][m] \in Requests
      BY ElementOfSeq DEF IInv, TypeOK
    <2>3. pc[queue[v][m]] \in InFlight /\ UserOf[job[queue[v][m]].key] = v
      BY DEF IInv, LockQueues, Key
    <2>4. queue[v][m] # r
      <3>1. i > 0 /\ i \in Int
        BY <1>9, <1>1, <1>2, <1>3
      <3>2. m # 1 \/ v # u
        BY <2>1, <3>1
      <3>3. QED
        BY <1>6, <3>2
    <2>5. QED
      BY <1>4, <2>1, <2>2, <2>3, <2>4
  <1>10. ASSUME NEW t \in Requests, pc'[t] \in InFlight
         PROVE  \E i \in 1..Len(queue'[UserOf[Key(t)]]) : queue'[UserOf[Key(t)]][i] = t
    <2>1. t # r /\ pc[t] \in InFlight /\ UserOf[Key(t)] \in Users
      BY <1>4, <1>5, <1>10, InFlightFacts
    <2>2. PICK i \in 1..Len(queue[UserOf[Key(t)]]) : queue[UserOf[Key(t)]][i] = t
      BY <2>1 DEF IInv, LockQueues
    <2>3. CASE UserOf[Key(t)] = u
      <3>1. i # 1 /\ i - 1 \in 1..(n - 1)
        BY <1>1, <2>1, <2>2, <2>3
      <3>2. queue'[u][i - 1] = t
        BY <1>1, <1>2, <1>3, <2>2, <2>3, <3>1
      <3>3. QED
        BY <1>2, <1>3, <2>3, <3>1, <3>2
    <2>4. CASE UserOf[Key(t)] # u
      BY <1>3, <2>1, <2>2, <2>4
    <2>5. QED
      BY <2>3, <2>4
  <1>11. ASSUME NEW t \in Requests, pc'[t] \in Critical
         PROVE  Head(queue'[UserOf[Key(t)]]) = t
    <2>1. t # r /\ pc[t] \in Critical /\ UserOf[Key(t)] \in Users
      BY <1>4, <1>5, <1>11, StageFacts, InFlightFacts
    <2>2. Head(queue[UserOf[Key(t)]]) = t
      BY <2>1 DEF IInv, LockQueues
    <2>3. UserOf[Key(t)] # u
      BY <1>1, <2>1, <2>2
    <2>4. QED
      BY <1>3, <2>1, <2>2, <2>3
  <1>12. QED
    BY <1>8, <1>9, <1>10, <1>11 DEF LockQueues, Key

LEMMA QueuesCrash == ASSUME IInv, Crash PROVE LockQueues'
  <1>1. \A t \in Requests : pc'[t] \notin InFlight
    BY StageFacts, CrashStages
  <1>2. \A u \in Users : queue'[u] = <<>> /\ Len(queue'[u]) = 0
    BY DEF Crash
  <1>3. QED
    BY <1>1, <1>2, StageFacts DEF LockQueues

LEMMA QueuesStep == IInv /\ [Next]_vars => LockQueues'
  <1> SUFFICES ASSUME IInv, [Next]_vars PROVE LockQueues'
    OBVIOUS
  <1>1. CASE UNCHANGED vars
    BY <1>1, QueuesKept DEF vars
  <1>2. ASSUME NEW k \in Keys,
               \/ HandlerStep(k)
               \/ \E op \in Operators :
                    StartSession(k, op) \/ \E i \in PartIndexes : UploadPart(k, op, i)
        PROVE  LockQueues'
    <2>1. UNCHANGED <<queue, pc, job>>
      BY <1>2 DEF HandlerStep, ChargeSession, RecordSession, CountPart, StartSession, UploadPart
    <2>2. QED
      BY <2>1, QueuesKept
  <1>3. ASSUME NEW r \in Requests, NEW k \in Keys, NEW op \in Operators, BeginCommit(r, k, op)
        PROVE  LockQueues'
    BY <1>3, QueuesBegin
  <1>4. ASSUME NEW r \in Requests, CommitStep(r), ~CountCommit(r), ~FailCommit(r)
        PROVE  LockQueues'
    <2>1. queue' = queue
      BY <1>4 DEF CommitStep, AcquireLock, MergeFails, MergeDone, AcquireSlot, AudioDone,
                  FramesDone, PacketFails, TakeRow, WriteArtifact, PublishReady, StageFails
    <2>2. \E stage \in Critical : pc' = [pc EXCEPT ![r] = stage]
      BY <1>4 DEF CommitStep, AcquireLock, MergeFails, Merge, MergeDone, Submit, AcquireSlot,
                  AudioDone, FramesDone, PacketFails, TakeRow, WriteArtifact, PublishReady,
                  StageFails, Goto, Critical, Publishing, Artifacts, NextStage
    <2>3. pc[r] \in Critical \/ (pc[r] = "lock" /\ HoldsLock(r))
      BY <1>4 DEF CommitStep, AcquireLock, MergeFails, MergeDone, AcquireSlot, AudioDone,
                  FramesDone, PacketFails, TakeRow, WriteArtifact, PublishReady, StageFails,
                  Critical, Publishing
    <2>4. \A t \in Requests : job'[t].key = job[t].key
      <3>1. job \in [Requests -> Job] /\ job[r] \in Job
        BY DEF IInv, TypeOK
      <3>2. CASE \E n \in Nat : Merge(r, n)
        BY <3>1, <3>2 DEF Merge, Job
      <3>3. CASE \E n \in Nat : Submit(r, n)
        BY <3>1, <3>3 DEF Submit, Job
      <3>4. CASE job' = job
        BY <3>4
      <3>5. CASE \E p \in {"ready", "failed"} : job' = [job EXCEPT ![r].packet = p]
        BY <3>1, <3>5 DEF Job
      <3>6. job[r].tries + 1 \in Nat /\ 1 \in Nat
        BY <3>1 DEF Job
      <3>7. CASE AcquireLock(r) \/ MergeFails(r)
        BY <3>2, <3>6, <3>7 DEF AcquireLock, MergeFails
      <3>8. CASE MergeDone(r) \/ FramesDone(r) \/ PacketFails(r)
        BY <3>3, <3>4, <3>5, <3>6, <3>8 DEF MergeDone, FramesDone, PacketFails
      <3>9. CASE AcquireSlot(r) \/ AudioDone(r) \/ TakeRow(r) \/ WriteArtifact(r)
                   \/ PublishReady(r) \/ StageFails(r)
        BY <3>4, <3>9 DEF AcquireSlot, AudioDone, TakeRow, WriteArtifact, PublishReady, StageFails
      <3>10. QED
        BY <1>4, <3>7, <3>8, <3>9 DEF CommitStep
    <2>5. "lock" \in InFlight
      BY DEF InFlight
    <2>6. QED
      BY <2>1, <2>2, <2>3, <2>4, <2>5, QueuesKept, StageFacts DEF IInv, TypeOK
  <1>5. ASSUME NEW r \in Requests, CountCommit(r) \/ FailCommit(r)
        PROVE  LockQueues'
    <2>1. pc[r] \in Critical /\ Release(r) /\ job' = job
      BY <1>5 DEF CountCommit, FailCommit, Critical, Publishing
    <2>2. \E stage : stage \notin InFlight /\ pc' = [pc EXCEPT ![r] = stage]
      BY <1>5, StageFacts DEF CountCommit, FailCommit, Goto
    <2>3. QED
      BY <2>1, <2>2, QueuesRelease
  <1>6. CASE Crash
    BY <1>6, QueuesCrash
  <1>7. ASSUME NEW r \in Requests, OrphanEnds(r)
        PROVE  LockQueues'
    <2>1. UNCHANGED <<queue, job>> /\ pc[r] = "orphan" /\ pc' = [pc EXCEPT ![r] = "dropped"]
      BY <1>7 DEF OrphanEnds, Goto
    <2>2. QED
      BY <2>1, QueuesKept, StageFacts DEF IInv, TypeOK
  <1>8. QED
    BY <1>1, <1>2, <1>3, <1>4, <1>5, <1>6, <1>7 DEF Next, CommitStep

\* The invariant is inductive.
LEMMA InvInit == Init => IInv
  <1> SUFFICES ASSUME Init PROVE IInv
    OBVIOUS
  <1>1. LockQueues
    <2>1. \A u \in Users : Len(queue[u]) = 0
      BY DEF Init
    <2>2. \A r \in Requests : pc[r] \notin InFlight /\ pc[r] \notin Critical
      BY StageFacts DEF Init
    <2>3. QED
      BY <2>1, <2>2 DEF LockQueues
  <1>2. QED
    BY <1>1, InitType DEF IInv

LEMMA InvStep == IInv /\ [Next]_vars => IInv'
  BY TypeStep, QueuesStep DEF IInv

THEOREM Invariance == Spec => []IInv
  BY InvInit, InvStep, PTL DEF Spec

-----------------------------------------------------------------------------
\* Every variable keeps its type, whatever clients send and whenever it crashes.
THEOREM TypeCorrectness == Spec => []TypeOK
  <1>1. IInv => TypeOK
    BY DEF IInv
  <1>2. QED
    BY <1>1, Invariance, PTL

\* The commit lock works: of the stop-commits of a user, for any number of them
\* and of sessions, one at a time is between merge and answer.
THEOREM CommitsSerialized == Spec => []OneCommitPerUser
  <1>1. IInv => OneCommitPerUser
    BY DEF IInv, LockQueues, OneCommitPerUser
  <1>2. QED
    BY <1>1, Invariance, PTL

-----------------------------------------------------------------------------
(***************************************************************************)
(* A saved "ready" is backed by all artifacts, whatever raises and wherever *)
(* the process dies.  The argument: artifacts once written stay; a request *)
(* that has reached a stage of publishing has written the artifacts of the *)
(* stages before it; an object becomes "ready" only at the stage after the *)
(* last of them; and whatever is saved is an object of memory.             *)
(***************************************************************************)

Written(k, a) == artifacts[k][a] # NoRequest

\* The artifacts that are written when a request has come to a stage.
Before == [transcript |-> {}, fusion |-> {"transcript"}, summary |-> {"transcript", "fusion"},
           review |-> {"transcript", "fusion", "summary"},
           ready |-> Artifacts, charge |-> Artifacts]

StagesBacked ==
  \A r \in Requests : pc[r] \in Publishing => \A a \in Before[pc[r]] : Written(Key(r), a)

MemoryBacked ==
  \A k \in Keys : \A g \in 1..Len(sessions[k]) :
    sessions[k][g].status = "ready" => \A a \in Artifacts : Written(k, a)

Backed == StagesBacked /\ MemoryBacked /\ ReadyIsBacked

-----------------------------------------------------------------------------
\* A request in flight keeps its key and its object while others move and while it
\* goes on.
LEMMA KeyKept ==
  ASSUME IInv, [Next]_vars, NEW r \in Requests, pc[r] # "idle"
  PROVE  job'[r].key = job[r].key /\ job'[r].gen = job[r].gen
  <1>1. job \in [Requests -> Job]
    BY DEF IInv, TypeOK
  <1>2. CASE job' = job
    BY <1>2
  <1>3. CASE \E t \in Requests, k \in Keys, op \in Operators : BeginCommit(t, k, op)
    <2>1. PICK t \in Requests, k \in Keys, op \in Operators : BeginCommit(t, k, op)
      BY <1>3
    <2>2. t # r /\ job' = [job EXCEPT ![t] = NewJob(k, Len(sessions[k]))]
      BY <2>1 DEF BeginCommit
    <2>3. QED
      BY <1>1, <2>2
  <1>4. ASSUME NEW t \in Requests, CommitStep(t)
        PROVE  job'[r].key = job[r].key /\ job'[r].gen = job[r].gen
    <2>1. job[t] \in Job /\ job[r] \in Job
      BY <1>1
    <2>2. CASE \E n \in Nat : Merge(t, n)
      BY <1>1, <2>1, <2>2 DEF Merge, Job
    <2>3. CASE \E n \in Nat : Submit(t, n)
      BY <1>1, <2>1, <2>3 DEF Submit, Job
    <2>4. CASE \E p \in {"ready", "failed"} : job' = [job EXCEPT ![t].packet = p]
      BY <1>1, <2>1, <2>4 DEF Job
    <2>5. job[t].tries + 1 \in Nat /\ 1 \in Nat
      BY <2>1 DEF Job
    <2>6. CASE AcquireLock(t) \/ MergeFails(t)
      BY <2>2, <2>5, <2>6 DEF AcquireLock, MergeFails
    <2>7. CASE MergeDone(t) \/ FramesDone(t) \/ PacketFails(t)
      BY <2>3, <2>4, <2>5, <2>7 DEF MergeDone, FramesDone, PacketFails
    <2>8. CASE \/ AcquireSlot(t) \/ AudioDone(t) \/ TakeRow(t) \/ WriteArtifact(t)
               \/ PublishReady(t) \/ CountCommit(t) \/ StageFails(t) \/ FailCommit(t)
      BY <1>2, <2>8 DEF AcquireSlot, AudioDone, TakeRow, WriteArtifact, PublishReady,
                        CountCommit, StageFails, FailCommit
    <2>9. QED
      BY <1>4, <2>6, <2>7, <2>8 DEF CommitStep
  <1>5. ASSUME NEW k \in Keys,
               \/ HandlerStep(k)
               \/ \E op \in Operators :
                    StartSession(k, op) \/ \E i \in PartIndexes : UploadPart(k, op, i)
        PROVE  job' = job
    BY <1>5 DEF HandlerStep, ChargeSession, RecordSession, CountPart, StartSession, UploadPart
  <1>6. CASE Crash \/ (\E t \in Requests : OrphanEnds(t)) \/ UNCHANGED vars
    BY <1>2, <1>6 DEF Crash, OrphanEnds, vars
  <1>7. QED
    BY <1>2, <1>3, <1>4, <1>5, <1>6 DEF Next

\* What is written stays written: artifacts are replaced, never removed.
LEMMA WrittenStays ==
  ASSUME IInv, [Next]_vars, NEW k \in Keys, NEW a \in Artifacts, Written(k, a)
  PROVE  Written(k, a)'
  <1>1. CASE artifacts' = artifacts
    BY <1>1 DEF Written
  <1>2. CASE \E r \in Requests : WriteArtifact(r)
    <2>1. PICK r \in Requests : WriteArtifact(r)
      BY <1>2
    <2>2. artifacts' = [artifacts EXCEPT ![Key(r)][pc[r]] = r]
      BY <2>1 DEF WriteArtifact
    <2>3. r # NoRequest
      BY NoRequestAssumption
    <2>4. artifacts \in [Keys -> [Artifacts -> Requests \cup {NoRequest}]]
      BY DEF IInv, TypeOK
    <2>5. artifacts'[k][a] \in {artifacts[k][a], r}
      BY <2>2, <2>4
    <2>6. QED
      BY <2>3, <2>5 DEF Written
  <1>3. artifacts' = artifacts \/ \E r \in Requests : WriteArtifact(r)
    BY DEF Next, vars, files, StartSession, UploadPart, BeginCommit, HandlerStep, ChargeSession,
           RecordSession, CountPart, CommitStep, AcquireLock, MergeFails, MergeDone, AcquireSlot,
           AudioDone, FramesDone, PacketFails, TakeRow, PublishReady, CountCommit, StageFails,
           FailCommit, Crash, OrphanEnds
  <1>4. QED
    BY <1>1, <1>2, <1>3

\* A request's stage changes only by a step of its own, by a crash or after one.
LEMMA StageMoves ==
  ASSUME IInv, [Next]_vars, NEW r \in Requests, pc'[r] # pc[r]
  PROVE  \/ CommitStep(r)
         \/ pc[r] = "idle" /\ pc'[r] = "lock"
         \/ pc'[r] \in {"dropped", "orphan"}
  <1>1. pc \in [Requests -> Stages]
    BY DEF IInv, TypeOK
  <1>2. ASSUME NEW t \in Requests, NEW k \in Keys, NEW op \in Operators, BeginCommit(t, k, op)
        PROVE  pc[r] = "idle" /\ pc'[r] = "lock"
    BY <1>1, <1>2 DEF BeginCommit, Goto
  <1>3. ASSUME NEW t \in Requests, CommitStep(t)
        PROVE  t = r
    <2>1. \E stage : pc' = [pc EXCEPT ![t] = stage]
      BY <1>3 DEF CommitStep, AcquireLock, MergeFails, Merge, MergeDone, Submit, AcquireSlot,
                  AudioDone, FramesDone, PacketFails, TakeRow, WriteArtifact, PublishReady,
                  CountCommit, StageFails, FailCommit, Goto
    <2>2. QED
      BY <1>1, <2>1
  <1>4. ASSUME NEW k \in Keys,
               \/ HandlerStep(k)
               \/ \E op \in Operators :
                    StartSession(k, op) \/ \E i \in PartIndexes : UploadPart(k, op, i)
        PROVE  pc' = pc
    BY <1>4 DEF HandlerStep, ChargeSession, RecordSession, CountPart, StartSession, UploadPart
  <1>5. CASE Crash
    BY <1>5, CrashStages
  <1>6. ASSUME NEW t \in Requests, OrphanEnds(t)
        PROVE  pc'[r] = "dropped"
    BY <1>1, <1>6 DEF OrphanEnds, Goto
  <1>7. CASE UNCHANGED vars
    BY <1>7 DEF vars
  <1>8. QED
    BY <1>2, <1>3, <1>4, <1>5, <1>6, <1>7 DEF Next

LEMMA BeforeFacts ==
  /\ \A stage \in Publishing : Before[stage] \subseteq Artifacts
  /\ Before["transcript"] = {}
  /\ \A a \in Artifacts : Before[NextStage[a]] = Before[a] \cup {a}
  /\ Before["ready"] = Artifacts /\ Before["charge"] = Artifacts
  BY DEF Before, Publishing, Artifacts, NextStage

\* A request comes to a stage of publishing only from the stage before it, with
\* that stage's artifact written.
LEMMA StagesStep == ASSUME IInv, Backed, [Next]_vars PROVE StagesBacked'
  <1> SUFFICES ASSUME NEW r \in Requests, pc'[r] \in Publishing, NEW a \in Before[pc'[r]]
               PROVE  artifacts'[job'[r].key][a] # NoRequest
    BY DEF StagesBacked, Written, Key
  <1>1. a \in Artifacts /\ Key(r) \in Keys
    BY BeforeFacts DEF IInv, TypeOK, Job, Key
  <1>2. ASSUME pc[r] # "idle", Written(Key(r), a)
        PROVE  artifacts'[job'[r].key][a] # NoRequest
    BY <1>1, <1>2, KeyKept, WrittenStays DEF Written, Key
  <1>3. "idle" \notin Publishing /\ "lock" \notin Publishing /\ "dropped" \notin Publishing
        /\ "orphan" \notin Publishing
    BY DEF Publishing, Artifacts
  <1>4. CASE pc'[r] = pc[r]
    BY <1>2, <1>3, <1>4 DEF Backed, StagesBacked
  <1>5. CASE pc'[r] # pc[r]
    <2>1. CommitStep(r)
      BY <1>3, <1>5, StageMoves
    <2>2. pc \in [Requests -> Stages]
      BY DEF IInv, TypeOK
    <2>3. TakeRow(r) \/ WriteArtifact(r) \/ PublishReady(r)
      BY <2>1, <2>2 DEF CommitStep, AcquireLock, MergeFails, Merge, MergeDone, Submit, AcquireSlot,
                        AudioDone, FramesDone, PacketFails, CountCommit, StageFails, FailCommit,
                        Goto, Publishing, Artifacts
    <2>4. CASE TakeRow(r)
      <3>1. pc'[r] = "transcript"
        BY <2>2, <2>4 DEF TakeRow, Goto, Publishing, Artifacts
      <3>2. QED
        BY <3>1, BeforeFacts
    <2>5. CASE WriteArtifact(r)
      <3>1. /\ pc[r] \in Artifacts /\ pc'[r] = NextStage[pc[r]] /\ job' = job
            /\ artifacts' = [artifacts EXCEPT ![Key(r)][pc[r]] = r]
        BY <2>2, <2>5 DEF WriteArtifact, Goto
      <3>2. a \in Before[pc[r]] \cup {pc[r]}
        BY <3>1, BeforeFacts
      <3>3. CASE a = pc[r]
        <4>1. artifacts'[Key(r)][a] = r
          BY <1>1, <3>1, <3>3 DEF IInv, TypeOK
        <4>2. QED
          BY <3>1, <4>1, NoRequestAssumption DEF Key
      <3>4. CASE a \in Before[pc[r]]
        BY <1>2, <1>3, <3>1, <3>4 DEF Backed, StagesBacked, Publishing
      <3>5. QED
        BY <3>2, <3>3, <3>4
    <2>6. CASE PublishReady(r)
      <3>1. pc[r] = "ready" /\ pc'[r] = "charge"
        BY <2>2, <2>6 DEF PublishReady, Goto
      <3>2. Written(Key(r), a)
        BY <3>1, BeforeFacts DEF Backed, StagesBacked, Publishing
      <3>3. QED
        BY <1>2, <3>1, <3>2
    <2>7. QED
      BY <2>3, <2>4, <2>5, <2>6
  <1>6. QED
    BY <1>4, <1>5

\* Why an object may be "ready" after a step: it was, or a request publishes it.
WasReady(k, g) == g \in 1..Len(sessions[k]) /\ sessions[k][g].status = "ready"
BeingPublished(k) == \E r \in Requests : pc[r] = "ready" /\ Key(r) = k

LEMMA AssignReady ==
  ASSUME IInv, NEW x \in Keys, NEW i \in 1..Len(sessions[x]), NEW s \in SessionState,
         Assign(x, i, s), s.status = "ready" => WasReady(x, i) \/ BeingPublished(x),
         NEW k \in Keys, NEW g \in 1..Len(sessions'[k]), sessions'[k][g].status = "ready"
  PROVE  WasReady(k, g) \/ BeingPublished(k)
  <1>1. sessions \in [Keys -> Seq(SessionState)]
    BY DEF IInv, TypeOK
  <1>2. /\ Len(sessions'[k]) = Len(sessions[k])
        /\ sessions'[x] = [sessions[x] EXCEPT ![i] = s]
        /\ k # x => sessions'[k] = sessions[k]
    BY <1>1, AssignType DEF IInv, Assign
  <1>3. CASE k = x /\ g = i
    <2>1. sessions'[k][g] = s
      BY <1>1, <1>2, <1>3
    <2>2. QED
      BY <1>3, <2>1
  <1>4. CASE ~(k = x /\ g = i)
    <2>1. sessions'[k][g] = sessions[k][g]
      BY <1>1, <1>2, <1>4
    <2>2. QED
      BY <1>2, <2>1 DEF WasReady
  <1>5. QED
    BY <1>3, <1>4

LEMMA StartReady ==
  ASSUME IInv, NEW x \in Keys, NEW op \in Operators, StartSession(x, op),
         NEW k \in Keys, NEW g \in 1..Len(sessions'[k]), sessions'[k][g].status = "ready"
  PROVE  WasReady(k, g)
  <1>1. sessions \in [Keys -> Seq(SessionState)]
    BY DEF IInv, TypeOK
  <1>2. sessions' = sessions \/ sessions' = [sessions EXCEPT ![x] = Append(sessions[x], Fresh(op))]
    BY DEF StartSession
  <1>3. CASE sessions' = sessions
    BY <1>3 DEF WasReady
  <1>4. CASE sessions' = [sessions EXCEPT ![x] = Append(sessions[x], Fresh(op))]
    <2>1. sessions[x] \in Seq(SessionState) /\ Fresh(op) \in SessionState
      BY <1>1, FreshType
    <2>2. CASE k # x
      BY <1>1, <1>4, <2>2 DEF WasReady
    <2>3. CASE k = x
      <3>1. /\ Len(sessions[x]) \in Nat
            /\ sessions'[k] = Append(sessions[x], Fresh(op))
            /\ Len(sessions'[k]) = Len(sessions[x]) + 1
        BY <1>1, <1>4, <2>1, <2>3, AppendProperties, LenProperties
      <3>2. g # Len(sessions[x]) + 1
        <4>1. Append(sessions[x], Fresh(op))[Len(sessions[x]) + 1] = Fresh(op)
          BY <2>1, AppendProperties
        <4>2. Fresh(op).status # "ready"
          BY DEF Fresh
        <4>3. QED
          BY <3>1, <4>1, <4>2
      <3>3. g \in 1..Len(sessions[x])
        BY <3>1, <3>2
      <3>4. sessions'[k][g] = sessions[x][g]
        BY <2>1, <3>1, <3>3, AppendProperties
      <3>5. QED
        BY <2>3, <3>3, <3>4 DEF WasReady
    <2>4. QED
      BY <2>2, <2>3
  <1>5. QED
    BY <1>2, <1>3, <1>4

\* The objects a step assigns to: whose they are, and what is assigned.
LEMMA CommitAssigns ==
  ASSUME IInv, NEW r \in Requests, CommitStep(r)
  PROVE  \/ UNCHANGED <<sessions, disk>>
         \/ \E s \in SessionState :
              /\ Assign(Key(r), job[r].gen, s)
              /\ s.status = "ready" => WasReady(Key(r), job[r].gen) \/ BeingPublished(Key(r))
              /\ disk' = disk \/ Save(Key(r), s)
  <1>1. CASE UNCHANGED <<sessions, disk>>
    BY <1>1
  <1>2. ASSUME pc[r] \in InFlight, NEW s,
               \/ s = [State(r) EXCEPT !.video = "merged"]
               \/ s = [State(r) EXCEPT !.status = "ready"] /\ pc[r] = "ready"
               \/ s = Failed(State(r))
        PROVE  /\ s \in SessionState
               /\ s.status = "ready" => WasReady(Key(r), job[r].gen) \/ BeingPublished(Key(r))
    <2>1. State(r) \in SessionState /\ job[r].gen \in 1..Len(sessions[Key(r)])
      BY <1>2, InFlightFacts
    <2>2. CASE s = [State(r) EXCEPT !.video = "merged"]
      BY <2>1, <2>2, UpdateType DEF SessionState, WasReady, State
    <2>3. CASE s = [State(r) EXCEPT !.status = "ready"] /\ pc[r] = "ready"
      BY <2>1, <2>3, UpdateType DEF BeingPublished
    <2>4. CASE s = Failed(State(r))
      BY <2>1, <2>4, UpdateType DEF SessionState, Failed
    <2>5. QED
      BY <1>2, <2>2, <2>3, <2>4
  <1>3. CASE TakeRow(r) \/ PublishReady(r) \/ FailCommit(r)
    <2>1. pc[r] \in InFlight
      BY <1>3 DEF TakeRow, PublishReady, FailCommit, InFlight, Critical, Publishing
    <2>2. CASE TakeRow(r)
      <3> DEFINE s == [State(r) EXCEPT !.video = "merged"]
      <3>1. disk' = disk /\ (sessions' = sessions \/ SetState(r, s))
        BY <2>2 DEF TakeRow
      <3>2. QED
        BY <1>1, <1>2, <2>1, <3>1 DEF SetState
    <2>3. CASE PublishReady(r)
      <3> DEFINE s == [State(r) EXCEPT !.status = "ready"]
      <3>1. pc[r] = "ready" /\ SetState(r, s) /\ Save(Key(r), s)
        BY <2>3 DEF PublishReady
      <3>2. QED
        BY <1>2, <2>1, <3>1 DEF SetState
    <2>4. CASE FailCommit(r)
      <3> DEFINE s == Failed(State(r))
      <3>1. SetState(r, s) /\ (Save(Key(r), s) \/ disk' = disk)
        BY <2>4 DEF FailCommit
      <3>2. QED
        BY <1>2, <2>1, <3>1 DEF SetState
    <2>5. QED
      BY <1>3, <2>2, <2>3, <2>4
  <1>4. UNCHANGED <<sessions, disk>> \/ TakeRow(r) \/ PublishReady(r) \/ FailCommit(r)
    BY DEF CommitStep, AcquireLock, MergeFails, MergeDone, AcquireSlot, AudioDone, FramesDone,
           PacketFails, WriteArtifact, CountCommit, StageFails
  <1>5. QED
    BY <1>1, <1>3, <1>4

\* The same of the handlers that read SESSIONS[key].
LEMMA CurrentObject ==
  ASSUME IInv, NEW k \in Keys, sessions[k] # <<>>
  PROVE  Len(sessions[k]) \in 1..Len(sessions[k]) /\ Current(k) \in SessionState
  BY ObjectTypes DEF IInv, TypeOK

\* An object is "ready" only if it was, or if a request is publishing it.
LEMMA ReadyObjects ==
  ASSUME IInv, [Next]_vars, NEW k \in Keys, NEW g \in 1..Len(sessions'[k]),
         sessions'[k][g].status = "ready"
  PROVE  WasReady(k, g) \/ BeingPublished(k)
  <1>1. CASE sessions' = sessions
    BY <1>1 DEF WasReady
  <1>2. ASSUME NEW x \in Keys, NEW op \in Operators, StartSession(x, op)
        PROVE  WasReady(k, g)
    BY <1>2, StartReady
  <1>3. ASSUME NEW x \in Keys, CountPart(x)
        PROVE  WasReady(k, g) \/ BeingPublished(k)
    <2> DEFINE s == [Current(x) EXCEPT !.parts = @ + 1]
    <2>1. sessions[x] # <<>>
      BY <1>3, LenProperties DEF CountPart, IInv, HeldObjects, At
    <2>2. s \in SessionState /\ s.status = Current(x).status
      BY <2>1, CurrentObject, UpdateType DEF SessionState
    <2>3. Assign(x, Len(sessions[x]), s)
      BY <1>3 DEF CountPart
    <2>4. s.status = "ready" => WasReady(x, Len(sessions[x]))
      BY <2>1, <2>2, CurrentObject DEF WasReady, Current
    <2>5. QED
      BY <2>1, <2>2, <2>3, <2>4, CurrentObject, AssignReady
  <1>4. ASSUME NEW r \in Requests, NEW x \in Keys, NEW op \in Operators, BeginCommit(r, x, op)
        PROVE  WasReady(k, g) \/ BeingPublished(k)
    <2> DEFINE s == [Current(x) EXCEPT !.status = "processing"]
    <2>1. sessions[x] # <<>> /\ Assign(x, Len(sessions[x]), s)
      BY <1>4 DEF BeginCommit
    <2>2. s \in SessionState /\ s.status = "processing"
      BY <2>1, CurrentObject, UpdateType DEF SessionState
    <2>3. QED
      BY <2>1, <2>2, CurrentObject, AssignReady
  <1>5. ASSUME NEW r \in Requests, CommitStep(r)
        PROVE  WasReady(k, g) \/ BeingPublished(k)
    <2>1. CASE sessions' # sessions
      <3>1. PICK s \in SessionState :
              /\ Assign(Key(r), job[r].gen, s)
              /\ s.status = "ready" => WasReady(Key(r), job[r].gen) \/ BeingPublished(Key(r))
        BY <1>5, <2>1, CommitAssigns
      <3>2. pc[r] \in InFlight
        BY <1>5, <2>1 DEF CommitStep, AcquireLock, MergeFails, MergeDone, AcquireSlot, AudioDone,
              FramesDone, PacketFails, TakeRow, WriteArtifact, PublishReady, CountCommit, StageFails,
              FailCommit, InFlight, Critical, Publishing
      <3>3. QED
        BY <3>1, <3>2, InFlightFacts, AssignReady
    <2>2. QED
      BY <1>1, <2>1
  <1>6. CASE Crash
    BY <1>6 DEF Crash
  <1>7. QED
    BY <1>1, <1>2, <1>3, <1>4, <1>5, <1>6
       DEF Next, vars, HandlerStep, ChargeSession, RecordSession, UploadPart, OrphanEnds

\* The object an assignment leaves is the one assigned.
LEMMA AssignedObject ==
  ASSUME IInv, NEW x \in Keys, NEW i \in 1..Len(sessions[x]), NEW s \in SessionState,
         Assign(x, i, s)
  PROVE  i \in 1..Len(sessions'[x]) /\ sessions'[x][i] = s
  <1>1. sessions \in [Keys -> Seq(SessionState)]
    BY DEF IInv, TypeOK
  <1>2. sessions'[x] = [sessions[x] EXCEPT ![i] = s] /\ Len(sessions'[x]) = Len(sessions[x])
    BY <1>1, AssignType DEF IInv, Assign
  <1>3. QED
    BY <1>1, <1>2

\* Whatever a step saves is an object of memory.
LEMMA SavedFromMemory ==
  ASSUME IInv, [Next]_vars, NEW k \in Keys, disk'[k] # disk[k]
  PROVE  \E g \in 1..Len(sessions'[k]) : disk'[k] = sessions'[k][g]
  <1>1. disk \in [Keys -> SessionState \cup {NoSession}]
    BY DEF IInv, TypeOK
  <1>2. ASSUME NEW x \in Keys, RecordSession(x)
        PROVE  \E g \in 1..Len(sessions'[k]) : disk'[k] = sessions'[k][g]
    <2>1. sessions[x] # <<>>
      BY <1>2, LenProperties DEF RecordSession, IInv, HeldObjects, At
    <2>2. disk' = [disk EXCEPT ![x] = Current(x)] /\ sessions' = sessions
      BY <1>2 DEF RecordSession, Save
    <2>3. x = k /\ disk'[k] = sessions'[k][Len(sessions[k])]
      BY <1>1, <2>2 DEF Current
    <2>4. QED
      BY <2>1, <2>2, <2>3, CurrentObject
  <1>3. ASSUME NEW x \in Keys, NEW i \in 1..Len(sessions[x]), NEW s \in SessionState,
               Assign(x, i, s), Save(x, s)
        PROVE  \E g \in 1..Len(sessions'[k]) : disk'[k] = sessions'[k][g]
    <2>1. x = k /\ disk'[k] = s
      BY <1>1, <1>3 DEF Save
    <2>2. QED
      BY <1>3, <2>1, AssignedObject
  <1>4. ASSUME NEW x \in Keys, CountPart(x)
        PROVE  \E g \in 1..Len(sessions'[k]) : disk'[k] = sessions'[k][g]
    <2> DEFINE s == [Current(x) EXCEPT !.parts = @ + 1]
    <2>1. sessions[x] # <<>>
      BY <1>4, LenProperties DEF CountPart, IInv, HeldObjects, At
    <2>2. s \in SessionState
      BY <2>1, CurrentObject, UpdateType
    <2>3. Assign(x, Len(sessions[x]), s) /\ Save(x, s)
      BY <1>4 DEF CountPart
    <2>4. QED
      BY <1>3, <2>1, <2>2, <2>3, CurrentObject
  <1>5. ASSUME NEW r \in Requests, NEW x \in Keys, NEW op \in Operators, BeginCommit(r, x, op)
        PROVE  \E g \in 1..Len(sessions'[k]) : disk'[k] = sessions'[k][g]
    <2> DEFINE s == [Current(x) EXCEPT !.status = "processing"]
    <2>1. sessions[x] # <<>> /\ Assign(x, Len(sessions[x]), s) /\ Save(x, s)
      BY <1>5 DEF BeginCommit
    <2>2. s \in SessionState
      BY <2>1, CurrentObject, UpdateType
    <2>3. QED
      BY <1>3, <2>1, <2>2, CurrentObject
  <1>6. ASSUME NEW r \in Requests, CommitStep(r)
        PROVE  \E g \in 1..Len(sessions'[k]) : disk'[k] = sessions'[k][g]
    <2>1. disk' # disk
      OBVIOUS
    <2>2. PICK s \in SessionState : Assign(Key(r), job[r].gen, s) /\ Save(Key(r), s)
      BY <1>6, <2>1, CommitAssigns
    <2>3. pc[r] \in InFlight
      BY <1>6 DEF CommitStep, AcquireLock, MergeFails, MergeDone, AcquireSlot, AudioDone,
            FramesDone, PacketFails, TakeRow, WriteArtifact, PublishReady, CountCommit, StageFails,
            FailCommit, InFlight, Critical, Publishing, Artifacts
    <2>4. QED
      BY <1>3, <2>2, <2>3, InFlightFacts
  <1>7. QED
    BY <1>2, <1>4, <1>5, <1>6
       DEF Next, vars, HandlerStep, ChargeSession, StartSession, UploadPart, Crash, OrphanEnds, files

LEMMA MemoryStep == ASSUME IInv, Backed, [Next]_vars PROVE MemoryBacked'
  <1> SUFFICES ASSUME NEW k \in Keys, NEW g \in 1..Len(sessions'[k]),
                      sessions'[k][g].status = "ready", NEW a \in Artifacts
               PROVE  Written(k, a)'
    BY DEF MemoryBacked
  <1>1. WasReady(k, g) \/ BeingPublished(k)
    BY ReadyObjects
  <1>2. Written(k, a)
    <2>1. CASE WasReady(k, g)
      BY <2>1 DEF WasReady, Backed, MemoryBacked
    <2>2. CASE BeingPublished(k)
      BY <2>2, BeforeFacts DEF BeingPublished, Backed, StagesBacked, Publishing
    <2>3. QED
      BY <1>1, <2>1, <2>2
  <1>3. QED
    BY <1>2, WrittenStays

LEMMA DiskStep == ASSUME IInv, Backed, [Next]_vars, MemoryBacked' PROVE ReadyIsBacked'
  <1> SUFFICES ASSUME NEW k \in Keys, disk'[k] # NoSession, disk'[k].status = "ready",
                      NEW a \in Artifacts
               PROVE  Written(k, a)'
    BY DEF ReadyIsBacked, Written
  <1>1. CASE disk'[k] = disk[k]
    BY <1>1, WrittenStays DEF Backed, ReadyIsBacked, Written
  <1>2. CASE disk'[k] # disk[k]
    BY <1>2, SavedFromMemory DEF MemoryBacked
  <1>3. QED
    BY <1>1, <1>2

-----------------------------------------------------------------------------
\* A saved record that says "ready" has its four artifacts beside it, for any
\* sessions, requests and retries, whatever raises and whenever the process dies.
THEOREM PublishedIsBacked == Spec => []ReadyIsBacked
  <1>1. Init => Backed
    BY DEF Init, Backed, StagesBacked, MemoryBacked, ReadyIsBacked, Publishing, Artifacts
  <1>2. IInv /\ Backed /\ [Next]_vars => Backed'
    BY StagesStep, MemoryStep, DiskStep DEF Backed
  <1>3. Backed => ReadyIsBacked
    BY DEF Backed
  <1>4. QED
    BY <1>1, <1>2, <1>3, Invariance, PTL DEF Spec
===============================================================================
