---------------------------- MODULE SessionCommit ----------------------------
(***************************************************************************)
(* The life of a capture session in the AstraCore server: it is started,   *)
(* parts are uploaded, and a stop-commit request merges the parts, extracts *)
(* audio and frames through the shared upload interceptor and publishes    *)
(* the intelligence artifacts.  One process serves every client.  Route    *)
(* handlers are coroutines of one event loop, so a handler that does not   *)
(* await is atomic for other handlers; the stop-commit handler gives the   *)
(* loop up at the org lock, at each ffmpeg run, at the interceptor's       *)
(* semaphore and when its packet comes back.  The process may die at any   *)
(* step, between two file writes of one handler included: SESSIONS, the    *)
(* locks and the running requests are lost, files are not.                 *)
(***************************************************************************)
EXTENDS Integers, Sequences, FiniteSets

CONSTANTS
  Keys,           \* (user_id, session_id) pairs, the keys of SESSIONS
  Users, UserOf,  \* the user_id of a key: the commit lock is keyed by it
  Orgs, OrgOf,    \* the org of a key: usage and seats are keyed by it
  Operators,      \* operator_key values
  PartIndexes,    \* part_index values
  Dirs,           \* upload directories
  UploadDir,      \* the directory upload_part writes, named by the raw ids
  MergeDir,       \* the directory finalize_session_output globs (safe ids)
  Outputs,        \* names of merged files
  OutputOf,       \* the merged file of a key; those of two users may be one
  Requests,       \* the stop-commit requests of a behaviour, each sent once
  MaxConcurrent,  \* MAX_CONCURRENT of the interceptor
  MaxAttempts,    \* STOP_COMMIT_RETRY_ATTEMPTS
  MaxSessions,    \* max_sessions_per_month of the plan
  MaxSeats,       \* max_seats of the plan
  MaxParts,       \* bound: accepted parts of one session object
  MayCrash,       \* BOOLEAN: whether the process may die
  LogFaults,      \* BOOLEAN: whether a fault-log or incident write may raise
  NoSession, NoRequest, Nobody

PartFiles == Operators \X PartIndexes

ASSUME MapsAssumption ==
  /\ Keys # {}
  /\ UserOf \in [Keys -> Users]
  /\ OrgOf \in [Keys -> Orgs]
  /\ UploadDir \in [Keys -> Dirs]
  /\ MergeDir \in [Keys -> Dirs]
  /\ OutputOf \in [Keys -> Outputs]

ASSUME LimitsAssumption ==
  /\ MaxConcurrent \in Nat \ {0}
  /\ MaxAttempts \in Nat \ {0}
  /\ MaxSessions \in Nat
  /\ MaxSeats \in Nat
  /\ MaxParts \in Nat
  /\ MayCrash \in BOOLEAN
  /\ LogFaults \in BOOLEAN

ASSUME NoRequestAssumption == NoRequest \notin Requests

VARIABLES
  sessions,   \* key |-> the SessionState objects made for it since boot, the
              \* last one being SESSIONS[key]; requests keep older ones alive
  disk,       \* key |-> the saved session record, or NoSession
  parts,      \* directory |-> the part files in it
  finals,     \* merged file |-> the parts it joins, {} when there is none to read
  artifacts,  \* key |-> artifact |-> the request that wrote it, or NoRequest
  started,    \* org |-> sessions charged this month
  committed,  \* org |-> commits counted this month
  seats,      \* org |-> registered operators
  queue,      \* user |-> the requests at its commit lock, the head holding it
  running,    \* the requests holding a slot of the interceptor's semaphore
  waiting,    \* the requests waiting for a slot, in order
  pc, job,    \* request |-> where it is, and what it works on
  loop        \* the handler that has the event loop between two of its steps

memory == <<sessions, queue, running, waiting, pc, job, loop>>
files == <<disk, parts, finals, artifacts, started, committed, seats>>
vars == <<sessions, disk, parts, finals, artifacts, started, committed, seats,
          queue, running, waiting, pc, job, loop>>

-----------------------------------------------------------------------------
(* Session objects, stages and the event loop *)

SessionState == [status: {"recording", "processing", "ready", "failed"},
                 operator: Operators, parts: Nat, video: {"none", "merged"}]

\* Regression: the `status` argument is dropped, leaving the dataclass default.
FreshDefault(op) == [status |-> "started", operator |-> op, parts |-> 0, video |-> "none"]

Fresh(op) == [status |-> "recording", operator |-> op, parts |-> 0, video |-> "none"]

Artifacts == {"transcript", "fusion", "summary", "review"}

\* The synchronous tail of the handler: each stage ends in one file write.
Publishing == Artifacts \cup {"ready", "charge"}

\* Regression: the record is published before the daily review is written.
NextStageEarlyReady == [transcript |-> "fusion", fusion |-> "summary", summary |-> "ready",
                        review |-> "charge", ready |-> "review"]

\* Regression: the handler returns without publishing the record.
NextStageUnpublished == [transcript |-> "fusion", fusion |-> "summary", summary |-> "review",
                         review |-> "charge", ready |-> "charge"]

NextStage == [transcript |-> "fusion", fusion |-> "summary", summary |-> "review",
              review |-> "ready", ready |-> "charge"]

\* A request "dropped" lost its process; "orphan", while its merge still runs.
Stages == Publishing \cup {"idle", "lock", "merge", "slot", "audio", "frames", "row",
                      "fail", "ok", "error", "dropped", "orphan"}

\* Stages past the lock: the request is inside `async with _org_lock(...)`.
Critical == Publishing \cup {"merge", "slot", "audio", "frames", "row", "fail"}

InFlight == Critical \cup {"lock"}

Job == [key: Keys, gen: Nat, tries: Nat, packet: {"none", "processing", "ready", "failed"},
        merged: SUBSET PartFiles]

NewJob(k, g) == [key |-> k, gen |-> g, tries |-> 0, packet |-> "none", merged |-> {}]
NoJob == NewJob(CHOOSE k \in Keys : TRUE, 0)

Idle == [at |-> "idle", id |-> Nobody]
At(step, id) == [at |-> step, id |-> id]

\* The loop is free for r when no handler has it or r kept it.
Turn(r) == loop \in {Idle, At("commit", r)}

Current(k) == sessions[k][Len(sessions[k])]

Key(r) == job[r].key
State(r) == sessions[Key(r)][job[r].gen]

\* Assigning fields of a SessionState and saving it are separate effects.
Assign(k, g, s) == sessions' = [sessions EXCEPT ![k][g] = s]
SetState(r, s) == Assign(Key(r), job[r].gen, s)
\* Regression: the except clause no longer saves the failed state.
SaveUnlessFailed(k, s) == disk' = IF s.status = "failed" THEN disk ELSE [disk EXCEPT ![k] = s]
Save(k, s) == disk' = [disk EXCEPT ![k] = s]

\* Regression: the except clause reports the failure but leaves the status.
FailedUnmarked(s) == s
Failed(s) == [s EXCEPT !.status = "failed"]

Goto(r, stage) == pc' = [pc EXCEPT ![r] = stage]

\* Regression: the commit path does not take the lock at all.
NeverLocked(r) == pc[r] = "lock"
HoldsLock(r) == Head(queue[UserOf[Key(r)]]) = r

\* Regression: acquired without `async with`, the lock is not released.
Keep(r) == UNCHANGED queue
Release(r) == queue' = [queue EXCEPT ![UserOf[Key(r)]] = Tail(@)]

-----------------------------------------------------------------------------
Init ==
  /\ sessions = [k \in Keys |-> <<>>]
  /\ disk = [k \in Keys |-> NoSession]
  /\ parts = [d \in Dirs |-> {}]
  /\ finals = [o \in Outputs |-> {}]
  /\ artifacts = [k \in Keys |-> [a \in Artifacts |-> NoRequest]]
  /\ started = [o \in Orgs |-> 0]
  /\ committed = [o \in Orgs |-> 0]
  /\ seats = [o \in Orgs |-> {}]
  /\ queue = [u \in Users |-> <<>>]
  /\ running = {}
  /\ waiting = <<>>
  /\ pc = [r \in Requests |-> "idle"]
  /\ job = [r \in Requests |-> NoJob]
  /\ loop = Idle

-----------------------------------------------------------------------------
\* Regression: the limit is compared with > instead of >=.
WithinLimitOrAtIt(org) == started[org] <= MaxSessions
WithinLimit(org) == started[org] < MaxSessions

(* POST /api/session/start.  can_start_session registers the operator and  *)
(* saves the seats before it looks at the usage, so a start refused by the *)
(* limit keeps its seat; a start refused by the seats changes nothing.     *)
StartSession(k, op) ==
  LET org == OrgOf[k]
      taken == seats[org] \cup {op}
  IN  /\ loop = Idle
      /\ Cardinality(taken) <= MaxSeats
      /\ seats' = [seats EXCEPT ![org] = taken]
      /\ \/ /\ WithinLimit(org)
            /\ sessions' = [sessions EXCEPT ![k] = Append(@, Fresh(op))]
            /\ loop' = At("charge", k)
         \/ /\ ~WithinLimit(org)
            /\ UNCHANGED <<sessions, loop>>
      /\ UNCHANGED <<disk, parts, finals, artifacts, started, committed,
                     queue, running, waiting, pc, job>>

\* mark_session_started saves the usage ...
ChargeSession(k) ==
  /\ loop = At("charge", k)
  /\ started' = [started EXCEPT ![OrgOf[k]] = @ + 1]
  /\ loop' = At("record", k)
  /\ UNCHANGED <<sessions, disk, parts, finals, artifacts, committed, seats,
                 queue, running, waiting, pc, job>>

\* ... and then the session record is saved and the client answered.
RecordSession(k) ==
  /\ loop = At("record", k)
  /\ Save(k, Current(k))
  /\ loop' = Idle
  /\ UNCHANGED <<sessions, parts, finals, artifacts, started, committed, seats,
                 queue, running, waiting, pc, job>>

(* POST /api/upload/part.  The file is opened for writing, filled, and only *)
(* then the binding is checked: an empty body removes the file of that     *)
(* name, an operator other than the session's leaves it and gets a 403.    *)
UploadPart(k, op, i) ==
  /\ loop = Idle
  /\ sessions[k] # <<>>
  /\ Current(k).parts < MaxParts
  /\ \/ /\ parts' = [parts EXCEPT ![UploadDir[k]] = @ \ {<<op, i>>}]
        /\ loop' = Idle
     \/ /\ parts' = [parts EXCEPT ![UploadDir[k]] = @ \cup {<<op, i>>}]
        /\ loop' = IF op = Current(k).operator THEN At("count", k) ELSE Idle
  /\ UNCHANGED <<sessions, disk, finals, artifacts, started, committed, seats,
                 queue, running, waiting, pc, job>>

CountPart(k) ==
  LET s == [Current(k) EXCEPT !.parts = @ + 1]
  IN  /\ loop = At("count", k)
      /\ Assign(k, Len(sessions[k]), s)
      /\ Save(k, s)
      /\ loop' = Idle
      /\ UNCHANGED <<parts, finals, artifacts, started, committed, seats,
                     queue, running, waiting, pc, job>>

-----------------------------------------------------------------------------
(* POST /api/session/stop-commit *)

\* The request keeps the object it looked up.  It goes on without a pause
\* when the lock is free.  404 and 403 change nothing.
BeginCommit(r, k, op) ==
  LET u == UserOf[k]
      s == [Current(k) EXCEPT !.status = "processing"]
  IN  /\ loop = Idle
      /\ pc[r] = "idle"
      /\ sessions[k] # <<>>
      /\ Current(k).operator = op
      /\ Assign(k, Len(sessions[k]), s)
      /\ Save(k, s)
      /\ queue' = [queue EXCEPT ![u] = Append(@, r)]
      /\ job' = [job EXCEPT ![r] = NewJob(k, Len(sessions[k]))]
      /\ Goto(r, "lock")
      /\ loop' = IF queue[u] = <<>> THEN At("commit", r) ELSE Idle
      /\ UNCHANGED <<parts, finals, artifacts, started, committed, seats, running, waiting>>

\* finalize_session_output globs the parts and starts ffmpeg.  Without parts it
\* raises before it awaits, and so does every retry.
Merge(r, attempt) ==
  LET found == parts[MergeDir[Key(r)]]
  IN  \/ /\ attempt <= MaxAttempts
        /\ found # {}
        /\ job' = [job EXCEPT ![r].merged = found, ![r].tries = attempt]
        /\ Goto(r, "merge")
        /\ loop' = Idle
     \/ /\ attempt > MaxAttempts \/ found = {}
        /\ Goto(r, "fail")
        /\ loop' = At("commit", r)
        /\ UNCHANGED job

AcquireLock(r) ==
  /\ Turn(r)
  /\ pc[r] = "lock"
  /\ HoldsLock(r)
  /\ Merge(r, 1)
  /\ UNCHANGED <<sessions, disk, parts, finals, artifacts, started, committed, seats,
                 queue, running, waiting>>

WriteFinal(r, content) == finals' = [finals EXCEPT ![OutputOf[Key(r)]] = content]

\* What an ffmpeg that was not seen to succeed may leave: `-y` cuts the file that was
\* there and fills it anew, or it did not get so far.
MayLeave(r) == {finals[OutputOf[Key(r)]]} \cup SUBSET job[r].merged

MergeFails(r) ==
  /\ Turn(r)
  /\ pc[r] = "merge"
  /\ \E content \in MayLeave(r) : WriteFinal(r, content)
  /\ Merge(r, job[r].tries + 1)
  /\ UNCHANGED <<sessions, disk, parts, artifacts, started, committed, seats,
                 queue, running, waiting>>

\* The merged file is handed to the interceptor, which queues for a slot.
Submit(r, attempt) ==
  /\ job' = [job EXCEPT ![r].packet = "processing", ![r].tries = attempt]
  /\ waiting' = Append(waiting, r)
  /\ Goto(r, "slot")

MergeDone(r) ==
  /\ Turn(r)
  /\ pc[r] = "merge"
  /\ WriteFinal(r, job[r].merged)
  /\ Submit(r, 1)
  /\ UNCHANGED <<sessions, disk, parts, artifacts, started, committed, seats,
                 queue, running, loop>>

\* Regression: the semaphore admits one packet too many.
SlotFreeOrOneMore == Cardinality(running) <= MaxConcurrent
SlotFree == Cardinality(running) < MaxConcurrent

AcquireSlot(r) ==
  /\ Turn(r)
  /\ pc[r] = "slot"
  /\ waiting # <<>> /\ Head(waiting) = r
  /\ SlotFree
  /\ running' = running \cup {r}
  /\ waiting' = Tail(waiting)
  /\ Goto(r, "audio")
  /\ UNCHANGED <<sessions, disk, parts, finals, artifacts, started, committed, seats,
                 queue, job, loop>>

\* process_session: two ffmpeg runs read the merged file ...
Readable(r) == finals[OutputOf[Key(r)]] # {}

AudioDone(r) ==
  /\ Turn(r)
  /\ pc[r] = "audio"
  /\ Readable(r)
  /\ Goto(r, "frames")
  /\ UNCHANGED <<sessions, disk, parts, finals, artifacts, started, committed, seats,
                 queue, running, waiting, job, loop>>

\* ... which is then purged, and the packet is ready.
FramesDone(r) ==
  /\ Turn(r)
  /\ pc[r] = "frames"
  /\ Readable(r)
  /\ WriteFinal(r, {})
  /\ job' = [job EXCEPT ![r].packet = "ready"]
  /\ running' = running \ {r}
  /\ Goto(r, "row")
  /\ UNCHANGED <<sessions, disk, parts, artifacts, started, committed, seats,
                 queue, waiting, loop>>

\* An exception or the 300 s timeout fails the packet: the row says so, and no
\* retry follows.  Only an error writing the fault log reaches _run_with_retries.
PacketFails(r) ==
  /\ Turn(r)
  /\ pc[r] \in {"audio", "frames"}
  /\ running' = running \ {r}
  /\ \/ /\ job' = [job EXCEPT ![r].packet = "failed"]
        /\ Goto(r, "row") \/ (LogFaults /\ job[r].tries >= MaxAttempts /\ Goto(r, "fail"))
        /\ UNCHANGED waiting
     \/ /\ LogFaults /\ job[r].tries < MaxAttempts
        /\ Submit(r, job[r].tries + 1)
  /\ UNCHANGED <<sessions, disk, parts, finals, artifacts, started, committed, seats,
                 queue, loop>>

\* From here to its end the handler no longer awaits.
TakeRow(r) ==
  /\ Turn(r)
  /\ pc[r] = "row"
  /\ loop' = At("commit", r)
  /\ \/ /\ job[r].packet = "ready"
        /\ SetState(r, [State(r) EXCEPT !.video = "merged"])
        /\ Goto(r, "transcript")
     \/ /\ job[r].packet # "ready"
        /\ Goto(r, "fail")
        /\ UNCHANGED sessions
  /\ UNCHANGED <<disk, parts, finals, artifacts, started, committed, seats,
                 queue, running, waiting, job>>

WriteArtifact(r) ==
  /\ Turn(r)
  /\ pc[r] \in Artifacts
  /\ artifacts' = [artifacts EXCEPT ![Key(r)][pc[r]] = r]
  /\ Goto(r, NextStage[pc[r]])
  /\ UNCHANGED <<sessions, disk, parts, finals, started, committed, seats,
                 queue, running, waiting, job, loop>>

PublishReady(r) ==
  LET s == [State(r) EXCEPT !.status = "ready"]
  IN  /\ Turn(r)
      /\ pc[r] = "ready"
      /\ SetState(r, s)
      /\ Save(Key(r), s)
      /\ Goto(r, "charge")
      /\ UNCHANGED <<parts, finals, artifacts, started, committed, seats,
                     queue, running, waiting, job, loop>>

CountCommit(r) ==
  /\ Turn(r)
  /\ pc[r] = "charge"
  /\ committed' = [committed EXCEPT ![OrgOf[Key(r)]] = @ + 1]
  /\ Release(r)
  /\ Goto(r, "ok")
  /\ loop' = Idle
  /\ UNCHANGED <<sessions, disk, parts, finals, artifacts, started, seats,
                 running, waiting, job>>

\* Transcription, OCR, the drift check or a file write raises.
StageFails(r) ==
  /\ Turn(r)
  /\ pc[r] \in Publishing
  /\ Goto(r, "fail")
  /\ UNCHANGED <<sessions, disk, parts, finals, artifacts, started, committed, seats,
                 queue, running, waiting, job, loop>>

\* The except clause: the object is failed, the incident written, the record
\* saved; when the incident cannot be written the record is not saved either.
FailCommit(r) ==
  LET s == Failed(State(r))
  IN  /\ Turn(r)
      /\ pc[r] = "fail"
      /\ SetState(r, s)
      /\ Save(Key(r), s) \/ (LogFaults /\ UNCHANGED disk)
      /\ Release(r)
      /\ Goto(r, "error")
      /\ loop' = Idle
      /\ UNCHANGED <<parts, finals, artifacts, started, committed, seats,
                     running, waiting, job>>

-----------------------------------------------------------------------------
\* The process dies and is started again: what was in memory is gone.  The ffmpeg
\* of a merge is a process of its own and may outlive it.
Crash ==
  /\ MayCrash
  /\ sessions' = [k \in Keys |-> <<>>]
  /\ queue' = [u \in Users |-> <<>>]
  /\ running' = {}
  /\ waiting' = <<>>
  /\ \E orphans \in SUBSET {r \in Requests : pc[r] = "merge"} :
       pc' = [r \in Requests |-> IF r \in orphans THEN "orphan"
                                ELSE IF pc[r] \in InFlight THEN "dropped" ELSE pc[r]]
  /\ loop' = Idle
  /\ UNCHANGED <<files, job>>

\* An orphan ends on its own.  No handler looks at a merged file while it keeps the
\* loop, so that the end is taken to fall between two of them.
OrphanEnds(r) ==
  /\ loop = Idle
  /\ pc[r] = "orphan"
  /\ \E content \in MayLeave(r) : WriteFinal(r, content)
  /\ Goto(r, "dropped")
  /\ UNCHANGED <<sessions, disk, parts, artifacts, started, committed, seats,
                 queue, running, waiting, job, loop>>

\* The steps of a request once it has begun.
CommitStep(r) ==
  \/ AcquireLock(r) \/ MergeFails(r) \/ MergeDone(r)
  \/ AcquireSlot(r) \/ AudioDone(r) \/ FramesDone(r) \/ PacketFails(r)
  \/ TakeRow(r) \/ WriteArtifact(r) \/ PublishReady(r) \/ CountCommit(r)
  \/ StageFails(r) \/ FailCommit(r)

\* The rest of a start or upload handler that has the loop.
HandlerStep(k) == ChargeSession(k) \/ RecordSession(k) \/ CountPart(k)

Next ==
  \/ \E k \in Keys, op \in Operators :
       \/ StartSession(k, op)
       \/ \E i \in PartIndexes : UploadPart(k, op, i)
       \/ \E r \in Requests : BeginCommit(r, k, op)
  \/ \E k \in Keys : HandlerStep(k)
  \/ \E r \in Requests : CommitStep(r) \/ OrphanEnds(r)
  \/ Crash

Spec == Init /\ [][Next]_vars

\* Clients, crashes and orphans are not fair.  A handler that has the loop runs on, and
\* a request that is ready gets its turn.  The interceptor's timeout ends an
\* extraction that hangs; nothing in the code ends a merge that hangs, so
\* fairness at "merge" is an assumption about ffmpeg.
FairSpec ==
  /\ Spec
  /\ \A k \in Keys : WF_vars(HandlerStep(k))
  /\ \A r \in Requests : WF_vars(CommitStep(r))

-----------------------------------------------------------------------------
(* Properties *)

TypeOK ==
  /\ sessions \in [Keys -> Seq(SessionState)]
  /\ disk \in [Keys -> SessionState \cup {NoSession}]
  /\ parts \in [Dirs -> SUBSET PartFiles]
  /\ finals \in [Outputs -> SUBSET PartFiles]
  /\ artifacts \in [Keys -> [Artifacts -> Requests \cup {NoRequest}]]
  /\ started \in [Orgs -> Nat]
  /\ committed \in [Orgs -> Nat]
  /\ seats \in [Orgs -> SUBSET Operators]
  /\ queue \in [Users -> Seq(Requests)]
  /\ running \in SUBSET Requests
  /\ waiting \in Seq(Requests)
  /\ pc \in [Requests -> Stages]
  /\ job \in [Requests -> Job]
  /\ loop \in {Idle} \cup [at : {"charge", "record", "count"}, id : Keys]
                    \cup [at : {"commit"}, id : Requests]

\* At most one stop-commit of a user is inside `async with _org_lock(...)`.
OneCommitPerUser ==
  \A r, t \in Requests :
    pc[r] \in Critical /\ pc[t] \in Critical /\ UserOf[Key(r)] = UserOf[Key(t)] => r = t

\* The same of an org: what "org-scoped" says of the lock, whose key is a user_id.
OneCommitPerOrg ==
  \A r, t \in Requests :
    pc[r] \in Critical /\ pc[t] \in Critical /\ OrgOf[Key(r)] = OrgOf[Key(t)] => r = t

\* From the end of its merge to the end of its extraction the merged file of a
\* request, which finalize_session_output and process_session name alike, is neither
\* written nor purged by another commit of its user, in whatever sessions and however
\* these fail.  Only what the lock of the user does not cover may touch it: a commit
\* of another user whose ids yield the same file name, and a merge that outlived the
\* process it was started by.
MergeLeftAlone ==
  [][\A r \in Requests :
       LET file == OutputOf[Key(r)]
           after == {"slot", "audio", "frames"}
       IN  pc[r] \in after /\ pc'[r] \in after /\ finals'[file] # finals[file] =>
             \E t \in Requests :
               /\ OutputOf[Key(t)] = file
               /\ OrphanEnds(t) \/ (CommitStep(t) /\ UserOf[Key(t)] # UserOf[Key(r)])]_vars

\* A saved record says "ready" only when all four artifacts of the session have
\* been written, also when the process dies between two writes of the handler.
ReadyIsBacked ==
  \A k \in Keys :
    disk[k] # NoSession /\ disk[k].status = "ready" =>
      \A a \in Artifacts : artifacts[k][a] # NoRequest

\* The sessions of an org that were handed out (in memory or on disk) have been
\* charged, and no more than the plan includes, restarts of the process included.
Objects(o) == UNION {{k} \X (1..Len(sessions[k])) : k \in {x \in Keys : OrgOf[x] = o}}
Pending == IF loop.at = "charge" THEN {<<loop.id, Len(sessions[loop.id])>>} ELSE {}
Recorded(o) == {k \in Keys : OrgOf[k] = o /\ disk[k] # NoSession}
SessionsCharged ==
  \A o \in Orgs :
    /\ Cardinality(Objects(o) \ Pending) <= started[o]
    /\ Cardinality(Recorded(o)) <= started[o]
    /\ started[o] <= MaxSessions

\* A session in memory is "processing" only while a stop-commit works on that
\* very object: every way out of the handler leaves it ready or failed.
ProcessingHasAWorker ==
  \A k \in Keys : \A g \in DOMAIN sessions[k] :
    sessions[k][g].status = "processing" =>
      \E r \in Requests : pc[r] \in InFlight /\ Key(r) = k /\ job[r].gen = g

\* Between two handlers the saved record of a session in memory is the object SESSIONS
\* holds, so that a restart forgets no status a client has seen.  The one exception
\* is the older object, as it is now, of a stop-commit that began before the session
\* was started again and has ended since.
OlderSaved(k) ==
  \E r \in Requests :
    /\ pc[r] \in {"ok", "error"} /\ Key(r) = k /\ job[r].gen < Len(sessions[k])
    /\ disk[k] = State(r)
MemoryMatchesDisk ==
  loop = Idle =>
    \A k \in Keys : sessions[k] # <<>> => disk[k] = Current(k) \/ OlderSaved(k)

\* Between two handlers a saved record that says "processing" has a stop-commit at
\* work on its session.  Otherwise the process was restarted since and no longer
\* knows the session (routes_sessions.py:243), or the incident of a failed
\* stop-commit could not be written and the object SESSIONS holds is failed (:338).
ProcessingIsExplained ==
  loop = Idle =>
    \A k \in Keys :
      disk[k] # NoSession /\ disk[k].status = "processing" =>
        \/ \E r \in Requests : pc[r] \in InFlight /\ Key(r) = k
        \/ sessions[k] = <<>> /\ MayCrash
        \/ sessions[k] # <<>> /\ Current(k).status = "failed" /\ LogFaults

\* The artifacts beside a ready record come from one stop-commit, but for those of a
\* stop-commit that was cut off: it overwrites them one by one, and the record of an
\* earlier one that ended while it waited for the lock is not set back.  A failure is
\* saved, so only a death cuts off, or an incident that could not be written.
CutOff(r) == pc[r] = "dropped" \/ (LogFaults /\ pc[r] = "error")
OnePublisher ==
  loop = Idle =>
    \A k \in Keys :
      disk[k] # NoSession /\ disk[k].status = "ready" =>
        \E r \in Requests : \A a \in Artifacts :
          artifacts[k][a] \in {r} \cup {t \in Requests : CutOff(t)}

\* A stop-commit is refused for want of parts only when none of the parts uploaded
\* for its session is there: upload_part and finalize_session_output name the
\* directory of a session from the same ids, the one raw and the other stripped.
UploadedPartsAreFound ==
  \A r \in Requests :
    pc[r] = "fail" /\ job[r].tries = 0 => parts[UploadDir[Key(r)]] = {}

\* Every stop-commit that got past its checks is answered, with success or with an
\* error, unless the process dies: no request waits for ever for the lock or a slot,
\* also when others of its user or of its process fail, and after a restart.
CommitSettles ==
  \A r \in Requests : pc[r] \in InFlight ~> pc[r] \in {"ok", "error", "dropped", "orphan"}
=============================================================================
