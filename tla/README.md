# Verification of the AstraCore server

AstraCore is a FastAPI server that records work sessions. A browser uploads a
session part by part; a *stop-commit* merges the parts with ffmpeg, extracts
audio and frames, and publishes what was said and seen as a searchable timeline.
Around that sit accounts with OAuth links, plans with monthly limits and billing
webhooks, and an operations surface with rate limiting and counters.

This directory holds TLA+ modules translated from the Python code (`src/app`),
TLC configurations that check them on small instances, and theorems about them
that TLAPS checks for every value of the constants.

**How to run.** In this directory: `tlc -config session_commit.cfg MCSessionCommit`
(and so on; the table of runs names each pair), `tlapm SessionCommitProofs.tla`.
`PROJECT.json` lists runs, the lines each definition stands for, a mutant of the
code for each property, findings, hazards and theorems.

## 1. Inventory

All handlers are coroutines of one event loop in one process. A handler that
does not await is atomic for the others; what it does is *not* atomic for a crash.

| Component | Source (`src/app/`) | State | Operations | What must hold |
|---|---|---|---|---|
| Session lifecycle | `server/routes_sessions.py`, `state.py`, `session_store.py` | `SESSIONS` in memory, one JSON record per session, a lock per user id, four artifact files per session | start, stop-commit, consult, status, usage-status | commits of a user are serialized; a record says ready only with its artifacts; every way out leaves ready or failed; requests end |
| Part ingest | `server/routes_ingest.py`, `security/tenant_guard.py` | part files in a directory per session | upload part | parts counted are parts of the session's operator |
| Media pipeline | `media_processing/splitter.py` | merged file, frames | merge, extract, dedupe, spool buffer | a merged file is not touched by another commit of its user until it is purged; parts are merged in order and the frames kept tell the video |
| Upload interceptor | `core/upload_handler.py` | semaphore, `_results` | submit batch, process one, drain | ceiling on packets, slot given back on every path, overflow one at a time, every submission answered |
| Usage and plans | `billing/usage_enforcement.py`, `plan_policy.py`, `plan_keys.py` | usage and seat files per org, month, plan | may start, charge, count commit | no more sessions than the plan includes, none without seat and charge |
| Billing | `billing/stripe_integration.py`, `server/routes_billing.py` | a subscription row per account | webhooks of two providers, effective plan | no session of a locked account is charged |
| Accounts | `security/auth.py`, `tokens.py`, `oauth_google.py`, `server/routes_auth*.py` | four JSON files: users, reset tokens, OAuth states, links | signup, reset, link, sign in | links agree in both directions, name accounts that exist, never change owner; states and tokens are used once |
| Guardrails | `core/security_guardrails.py`, `server/main.py` | a deque of times per path and client | check token, limit | a rolling window holds no more than the limit; Retry-After is honest |
| Observability | `core/ops_observability.py`, `server/routes_ops.py` | counters, a snapshot file, two recent-request deques | observe, load at boot, ops views | counters survive restarts, nothing is counted twice |
| Intelligence | `intel/*`, `reports/*`, `core/checksum.py` | the artifacts' content | transcribe, OCR, build rows, verify alignment, fuse, summarize | rows are in order of time and without drift |
| Incidents | `core/incidents.py` | incident bundles | write bundle | a failed commit ends although the bundle cannot be written |
| Ledgers | `core/ledger.py` | a ledger and an archive per user, a ledger per org under its lock, a log per seat | append, evict, backfill, register, consume, write | nothing recorded is forgotten; an org's numbers add up (no route calls them; their tests do) |
| Compiler sandbox | `core/compiler_sandbox.py` | – | check source text | text patterns |
| Dashboard, settings | `server/routes_dashboard.py`, `routes_settings.py`, `core/*settings*.py`, `runtime_preflight.py` | a settings file per user | views, get and set | – |
| Client | `src/web/*.html` | – | capture, upload | a prototype; it only uploads parts |

**Interactions.** Every request goes through the guard and the observer. *Start*
asks billing for the plan, usage for room, writes seats, then `SESSIONS`, then
usage, then the session record. *Upload* writes a part and then the record.
*Stop-commit* takes the lock, merges, submits one asset to the interceptor
(shared by all users), reads the row it returns, writes transcript, timeline,
summary and daily review, then the record, then usage. *Consult* reads the
timeline file. *Webhooks* write the billing rows starts read.

**What is hard.** Stop-commits of several users interleave at every await and
share one semaphore; a session may be started again, or committed again, while
an older stop-commit works on it; the process may die between any two file
writes; ffmpeg may fail, hang or outlive its timeout; the month may turn
between a check and a charge; webhooks come late, twice and in any order; a
client pages through a file that is being replaced. `PROJECT.json` has these
under `hazards`, each at its line with the properties that watch it.

## 2. Modules

| Module | Models | Kind |
|---|---|---|
| `SessionCommit` | start, upload, stop-commit with lock, retries, interceptor of single assets, artifact writes, crash | component, the core |
| `PacketGate` | what the interceptor promises: ceiling, packets settle once from under a worker, only settled packets are handed out | abstract |
| `UploadInterceptor` | batches with overflow, gather, semaphore, timeout, fault log, orphaned ffmpeg, drain | component |
| `SessionGate` | the refinement mapping of `SessionCommit` to `PacketGate` | composition |
| `Entitlement` | plans, seats, charges, commits over months; webhooks of Stripe and PayPal; locks | component |
| `Accounts` | signup, resets, OAuth states, links, sign-in, file by file | component |
| `RequestPipeline` | guard and observer, limiter, counters and snapshot over restarts | component |
| `Consult` | building the rows, the alignment guard, search, ranking and paging | pure operators and a client |
| `Recording` | names and contents of the parts, merge, sampling, thinning, spool, captures | component |
| `UserLedger` | a user's ledger with its rolling window, archive and schema backfill | component |
| `OrgLedger` | an organisation's seats and sessions, seat logs, writers with an old copy | component |
| `MCStores` | `Accounts`, `UserLedger` and `OrgLedger` side by side | composition for TLC |
| `MCConsult` | `Recording` and `Consult` side by side | composition for TLC |
| other `MC*` | constants for TLC | – |
| `Ordering` | what Python's stable sort does, for `Consult` and `Recording` | operators |
| `SessionCommitProofs`, `SessionSafetyProofs` | theorems about `SessionCommit` and, in `SessionSafetyProofs`, `SessionGate` | proofs |
| `InterceptorProofs`, `EntitlementProofs`, `PipelineProofs` | theorems about `UploadInterceptor`, `Entitlement`, `RequestPipeline` | proofs |
| `StoresProofs` | theorems about `Accounts`, `UserLedger`, `OrgLedger` and `MCStores` | proofs |
| `ConsultProofs` | theorems about `Consult`, `Recording` and `MCConsult` | proofs |
| `DataLemmas` | sums, sorted sequences, greatest elements, whole seconds: lemmas of `PipelineProofs`, `StoresProofs`, `ConsultProofs` | proofs |

### SessionCommit

`sessions[k]` is the sequence of `SessionState` objects made for a key since
boot: the last is `SESSIONS[k]`, older ones are still held by handlers that
looked them up before a second start, and `job[r].gen` says which one a request
holds. `disk` is the saved record, `parts` the upload directories, `finals` the
merged files, `artifacts` who wrote each artifact last, `started`, `committed`
and `seats` the usage files. `queue[u]` is the commit lock of user `u` with its
waiters, `running` and `waiting` the semaphore. `pc[r]` is the stage of a
stop-commit; a stage lasts from one await or file write to the next.

A handler that does not await between two file writes is cut there all the same,
because a crash may come in between; `loop` then says who has the event loop,
and nobody else moves. So the interleavings are those of the awaits and the
crash points are those of the writes.

`BeginCommit`, `AcquireLock`, `MergeFails`/`MergeDone`, `AcquireSlot`,
`AudioDone`, `FramesDone`, `PacketFails`, `TakeRow`, `WriteArtifact`,
`PublishReady`, `CountCommit`, `StageFails`, `FailCommit` are the handler from
top to bottom (`MayLeave`: what an ffmpeg that failed may have made of its output); `StartSession`, `ChargeSession`, `RecordSession` are the start;
`UploadPart`, `CountPart` the upload. A step that raises is an action or a
disjunct of its own. `Crash` ends the process at any step; a merge is a process of
its own and may outlive it as an `"orphan"`, which `OrphanEnds` at some later time. Directory names are functions (`UploadDir`, `MergeDir`,
`OutputOf`) because the code derives them in several places from raw or
stripped ids.

### UploadInterceptor and PacketGate

`packet[p]` follows `_process_one`; `phase[s]` follows `submit_with_results`
through the gathered part and the overflow; `media` has the ffmpeg processes,
which a timeout leaves running. `PacketGate` says what a caller may rely on, and
both `UploadInterceptor` and (through `SessionGate`, with attempts as packets)
`SessionCommit` are shown to implement it. The stop-commit's own use of the
interceptor is a batch of one, so `SessionCommit` has the semaphore and not the
batches; that both keep `PacketGate` is what ties them.

### Entitlement

`started[o][m][p]` and `committed[o][m][p]` are the usage buckets. `month` is
the clock, read at the check and again at the charge. A start is two steps,
`StartSession` and `ChargeSession`, with the month and the crash in between.
Plan labels are normalized (`starter`, `pro`, `desk`) as `plan_keys` does.
`sessions[k]` is, as in `SessionCommit`, every object made for the key since boot:
a stop-commit counts against the plan of the object it looked up (`CountCommit`
takes any of them), which is an older one when the session was started again.

### Accounts

A handler reads files, decides, and then does its writes one at a time from
`todo`; a crash drops what is left and may leave the file being written torn.
A torn file refuses every handler that reads it (its last content is kept as a
ghost so the invariants can still speak of it). The order of the writes is the
code's: account before link, state spent before the link.

### RequestPipeline

A clock of `Second` ticks a second (finer than the whole seconds of
Retry-After); `windows` are the deques, `metrics` the counters with the boot
count, `snapshot` the file. `Count` is the `except` and `finally` clause,
`Persist` the snapshot; nobody else has the loop in between, but the process may
end there. `admitted`, `told` and `lives` are history, read by properties only.

### Consult

Rows carry the times each token occurs in each field instead of text; signals
of follow-through are a field of the row instead of phrases in it. An event without
an index of its own has its place in the list for one (`Index`). `EventRows`
and `TimelineRows` are the two sorts, `Aligned` the drift check that a commit
fails on. The client is three variables: query, offset, rows received.

### Recording

What `SessionCommit` takes as one step, the merge and the extraction, is here a
step per part read and per frame thinned. `files` are the part files by
`(part_index, operator)`, `reading` the concat list and then the frames still to
be looked at, `temp` the temporary directory, `pending` the spool, `captures`
the directory frames are copied to. File names are what the order depends on, so
`PartText` and `FrameText` write numbers in a `Base` padded to a width, and
`TextBefore` is the text order `sorted` uses; in base 2 with two digits the
indexes of a run pass the padding as 100 passes `{i:02d}`. The interval of the
spool is a free choice (`due`) at each frame.

`MCConsult` runs `Recording` or `Consult` in one behaviour, never both: between
them are transcription and OCR, which may yield any rows, so they share nothing.

### UserLedger and OrgLedger

Both have the form of `Accounts`: a call reads, then has a list of writes, and a
death drops the rest. `UserLedger` archives evicted entries one by one before it
replaces the ledger without them, as `_enforce_rolling_window` does; `template`
may gain fields (`UpdateTemplate`), which only `ensure_ledger` fills in. In
`OrgLedger` `copy` is what a caller of `write_org_ledger` read without the lock;
`taken` is history and counts, beside the sessions taken, those a write of such a
copy lost.
No route calls these functions, so their order is free. `MCStores` runs one of
the three stores in a behaviour, so that their states add up and do not multiply.

## 3. Runs

| Run | Instance | Shows |
|---|---|---|
| `session_commit` | two sessions of one user, three stop-commits, two session objects, one operator, one slot, two attempts, crashes | `TypeOK`; `OneCommitPerUser`; `ReadyIsBacked`; `SessionsCharged`; `ProcessingHasAWorker`; `MemoryMatchesDisk`: the record is the object `SESSIONS` holds or, as it is, an older one's that ended since; `OnePublisher`: beside a ready record the artifacts are of one stop-commit and of such as were cut off |
| `session_progress` | two users of two orgs whose merged files have one name, one stop-commit each or two of one user, one slot, two attempts, crashes, log faults, fairness | `ProcessingIsExplained`: a saved "processing" has a stop-commit at work, or a death or an incident that could not be written behind it; `MergeLeftAlone`: from merge to the end of extraction only another user's commit or an orphan touches the merged file; `ImplementsGate`; `CommitSettles` |
| `interceptor` | a batch of four and one of two, two slots, timeouts, errors, log faults, fairness | `SlotPerPacket`, `OverflowOneAtATime`, `ImplementsGate`, `SubmissionsAnswered` |
| `entitlement` | two users of one org with subscriptions of their own, three plans with one, one and no session a month and one, two and no seats, two months, crashes | `LimitHolds`, `SessionsSeatedAndCharged`, `CommitsFollowCharges`, `NoChargeWhileLocked` |
| `accounts` | two addresses, two subjects at two providers, one reset token, three states, crashes; a user with a window of two, two fields of which one is new, four entries each, two deaths; an org with two seats for three operators and one session | `LinksAgree`, `LinkedAccountsExist`, `OwnersKept`, `OneLinkPerState`; `NothingForgotten`; `OrgAddsUp` |
| `pipeline` | four requests, one key, limit 2, a window of 4 ticks of half a second, 6 ticks, restarts | `CountersSurvive`, `BootsCounted`, `WindowLimit`, `RetryAfterSuffices` |
| `consult` | four recordings, 480 queries, pages of at most 2, drift ceiling 3; four part names, bodies of one or two pictures, three uploads, two merges, failures at every stage | `PagesCover`, `PagingEnds`, `FoundRowsScore`, `ContextIsNearest`; `MergedInOrder`; `FramesTellTheVideo` |
| `session_paths`, `session_org_lock`, `interceptor_media`, `entitlement_hard_lock`, `accounts_reset` | the same modules | the divergences of section 6 |

Each passing run's properties have a mutant in `PROJECT.json`: a definition
replaced the way a plausible bug would change it, which the run then refutes.

**Bounds and why they are enough.** Two requests and two keys are what the lock,
the semaphore and the shared files can be fought over by; with one slot and two
requests a packet waits; two attempts exercise both a retry that helps and one
that does not. `session_commit` has a third request, because a mixture of
artifacts takes three to be excluded for the right reason: one that publishes, one
that is cut off over it, and one that publishes again. `session_progress` has log
faults, without which no packet is retried, and one file for two users, without
which the lock would cover every commit there is. A batch of four with two
slots has a gathered part and an overflow of two, so that "one at a time" can go
wrong; the batch of two competes with both. Two months have a turn between
check, charge and commit; a plan with limit 1 is used up by one of the two keys.
Three OAuth states let one link, one repeat, and one of the other provider
interleave. Four requests against a limit of 2 give a full window, a refusal
and one that comes back; six ticks are a window and the time after it. The
consult recordings are chosen for the boundaries of the code: no times at all,
ends before starts, frames without times, equal times, out of order, and drift;
limits are 0, below and above the page. Its parts have indexes on both sides of
the padding and one index from two operators; three uploads leave three parts to
order, or a part replaced or removed under a merge; two merges leave captures of
an earlier video below the names of the later. Four entries against a window of
two evict twice; two deaths duplicate an entry twice. An org with one session
and two seats refuses a second session and a third seat. `MaxParts`,
`MaxSessions`, `MaxCommits`, `MaxMonth`, `MaxTime`, `MaxUploads`, `MaxEntries`,
`MaxDeaths`, `MaxTaken`, `MaxRows` bound counters and are named so. The largest
runs are `accounts` (about 800,000 states), `session_commit` (475,000),
`entitlement` and `pipeline` (350,000 each) and `session_progress` (190,000). Symmetry is used on
requests, operators or identities that no constant tells apart, and never in a
run with a liveness property.

`CHECK_DEADLOCK FALSE` stands in every run: requests, tokens and states are
finite in number and a behaviour that has used them up has ended.

**Fairness and why the code justifies it.** The event loop runs every coroutine
that is ready: `WF` of the steps of each request and of each half-done handler.
Clients, webhooks, crashes and orphans are not fair. An extraction that hangs is ended by
the interceptor's timeout, so its end is fair. Nothing ends a merge that hangs:
fairness at `merge` is an assumption about ffmpeg, without which `CommitSettles`
fails at once. In `UploadInterceptor` orphaned processes are not fair, as
nothing ends them. In `Consult` only the client's own next page is fair;
commits may replace the file for ever, and paging still ends.

## 4. Theorems

Every theorem holds for every value of the constants under the named assumptions
(`MapsAssumption`, `LimitsAssumption`, `NoRequestAssumption`,
`EntitlementAssumption`: functions have their domains, limits are naturals,
markers are not values; `InterceptorAssumption`, `AccountsAssumption`,
`PipelineAssumption`, `SnapshotAssumption`, `UserLedgerAssumption`,
`OrgLedgerAssumption`, `ConsultAssumption`, `RecordingAssumption` likewise; `AbsentAssumption`
and `NoFileAssumption`: what stands for a missing file is no content of one). Where
a theorem counts, it says of what there are finitely many (`Finite`).

- `SessionCommitProofs`: `Invariance`, `TypeCorrectness`, `CommitsSerialized`.
  `OneCommitPerUser` alone is not inductive: a release hands the lock to
  whoever heads the queue. `IInv` adds that the queue of a user holds exactly
  the user's requests in flight, each once, and that who is past the lock heads
  it (`LockQueues`), and that what handlers hold exists (`HeldObjects`), without
  which a step could assign to an object that is not there.
  `PublishedIsBacked`, i.e. `ReadyIsBacked`: artifacts once written stay; a request
  at a stage of publishing has written those before it; an object becomes ready only at the stage after the
  last; and what is saved is an object of memory.
- `SessionSafetyProofs`: `MergesIsolated`, i.e. `MergeLeftAlone`, with no assumption
  on how merged files are named: a step that writes or purges the merged file of a
  request between its merge and the end of its extraction is one of an orphan, or of
  a commit past the lock of *another* user. The code joins the stripped ids by `_`, so
  there are such users: ids that differ in stripped characters, and "a" with "b_c"
  beside "a_b" with "c". `StopCommitsKeepTheGate`, i.e. `ImplementsGate` of
  `SessionGate`: `SlotInv` ties the packet of a job to the stage of its request
  (`PacketPlaces`) and the slots taken to the requests extracting
  (`SlotsBounded`); a move of a request begins, settles or loses its packet, and
  a retry opens the next packet as it fails the one before. It assumes nothing
  of crashes and log writes. `RestartsForgetNothing`, i.e. `MemoryMatchesDisk`,
  when log writes succeed: the record lags behind the object only while a start
  is charged and recorded or while a request is in its `LastStages`, which it
  runs through with the event loop held (`LastStepsHeld`); an older object's record
  stays what it is because its object no longer changes: who ended leaves its
  object alone. `ReadyFromOneHand`, i.e. `OnePublisher`, of every behaviour: who
  writes artifacts has the loop (`Passing`) until it publishes, fails or dies; a
  failure that is saved leaves its own object failed, and no later object of the
  session is ready yet (`OlderFirst`), because the queue of the lock is in the
  order of the objects (`QueuesOrdered`). What is left is `CutOff`: a request
  that died, or whose incident could not be written.
  `ProcessingIsWorkedOn`, i.e. `ProcessingHasAWorker`. A
  request leaves the handler by success or by failure; failure sets the status,
  and success has set it because a handler that publishes keeps the loop
  (`LoopHeld`) and is ready when it counts the commit (`ChargedAreReady`).
  `ProcessingIsAccounted`, i.e. `ProcessingIsExplained`: the same for the saved
  record, where a handler about to save a failure also explains it
  (`RecordsAccounted`). `StartsAreCharged`, i.e. `SessionsCharged`: a session
  that a crash removed from memory was charged if it is on disk, so `ChargeInv`
  counts the keys `Known` for either reason, beside the objects `Charged`.
- `EntitlementProofs`: `Invariance`, `TypesAreKept`, `LimitIsKept`,
  `SessionsArePaid`, `CommitsAreCharged`, `LockIsKept`. The limit is checked in
  one reading of the clock and charged in another; `IInv` says that a start
  still to be charged has room in the bucket of the *current* month
  (`ChargeHasRoom`), which the turn of the month keeps because months to come
  are empty (`FutureEmpty`). `SessionsArePaid` counts: the session objects of an org
  and a plan, over all keys, are at most its charges of the plan, over all months
  (`CountInv`); a charge raises the sum by the object that was pending. From the same
  count it follows that the plan of any object a request may still hold has been
  charged, which is what `CommitsAreCharged` needs.
- `InterceptorProofs`: `Invariance`, `TypeCorrectness`, `SlotsAreCounted`,
  `OverflowIsSequential`, `GateIsImplemented`. The invariant gives each
  submission its `Course`: in the gathered part exactly its packets past the
  first batch have not begun; in the overflow there is one position before which
  all have settled and after which none has begun. With it, and with rows that
  hold settled packets only, every step is a step of `PacketGate` or a stutter;
  one step of the code may settle a packet and begin another, which the gate has
  as one step too.
- `StoresProofs`: `Invariance`, `TypeCorrectness`, `LinksStayInAgreement`,
  `LinksNameAccounts`, `OwnersAreKept`, `StatesPayForLinks`. A death leaves
  whatever was written, so the invariant is about the writes to come (`Plan`):
  each file at most once; a links write agrees in both directions, extends the
  links there are, and names accounts that exist or that a write before it saves.
  `StatesPayForLinks` adds a `Budget`: a links write is paid for by the states
  used by then, and a states write uses what was used.
  `NothingIsForgotten`, i.e. `NothingForgotten`, and `OrgLedgersAddUp`, i.e.
  `OrgAddsUp`, by the same idea: `LedgerInv` and `OrgInv` say of the files as they
  are, as they will be after the first write to come, and after the second, that
  they are good; so a death at any point is safe. For an archive, good means that it
  and the window hold the entries in order, with at most one doubled for each
  death and one for the write under way. For an organisation it means that the sum
  over its seats is within what the ledger shows, and that what it shows and what
  was lost are together what was taken; a ledger somebody read long ago is good by
  itself (`RowGood`), and short by what was taken since, which is what writing it
  back counts as lost. So "no more than was bought" is a statement about the
  ledger: of the sessions *taken* only the difference is bounded, by the losses. `StoresKeepTheirTypes`,
  i.e. `StoresTypeOK`, is about `MCStores` and conjoins the three invariants.
- `PipelineProofs`: `BootsAreCounted`, `CountersAreKept`, `TypeCorrectness`. `Books`
  orders three counts of each counter: the requests whose stage says they are in
  it, the counter, the requests that ended; once for the memory and once for the
  file. `WindowsAreLimited`, i.e. `WindowLimit`, and `RetryAfterIsEnough`, i.e.
  `RetryAfterSuffices`: `WindowInv` reads the deque of a key as the end of the list of
  all requests it let through. Times in it ascend, so dropping from the left what
  is too old leaves out nothing that counts, and requests further apart than the
  limit in that list are further apart than the window in time.
- `ConsultProofs`, timeline: `ConsultInvariance`, `PagesAreCovered` (`PagesCover`),
  `EveryMatchOnce`, `FoundRowsAreScored` (`FoundRowsScore`), `ContextsAreNearest`
  (`ContextIsNearest`). A sort is shown to give each member once and after those
  that come before it, whenever "before" is a strict total order: a member's place
  is the number of those before it, and from n different numbers below n none is
  missing. The keys of every sort order are such an order because each ends with
  the place of the row, which is what stability amounts to. So pages are pieces of
  one sequence (`ConsultInv`), and `EveryMatchOnce` says in terms of the matches
  what `PagesCover` says in terms of the ranking.
- `ConsultProofs`, media: `RecordingInvariance`, `PartsMergeInOrder` (`MergedInOrder`),
  `FramesTell` (`FramesTellTheVideo`). Digits padded to a width have the order of their
  numbers: at the first digit that differs the quotients differ, those before being
  equal. Beyond the width this fails, and the theorems say "as long as". `RecInv`
  says at each turn of the loop over the frames that what is kept tells the frames
  passed (`Tells`) and is captured or in the spool (`Captured`), so that a flush at
  any turn, or a failure followed by another attempt, leaves it true. It also holds
  room for the parts still to be read (`MergeOK`), without which the type of the
  frame numbers is not inductive. `SessionKeepsBoth`: a behaviour of `SessionSpec`,
  which TLC runs, is one of each component; `TypeCorrectness` (`SessionTypeOK`)
  follows.

Induction over data, which the library's induction theorems cannot be used for
here, is done in these proofs by a smallest counterexample (`SmallestNat`,
`SmallestSubset` in `DataLemmas`): so the recursive function `Power` is shown to have
a solution, sums over finite sets to split, and digits to determine the number.

**Only model-checked**: liveness (`CommitSettles`, `SubmissionsAnswered`,
`PagingEnds`), which the prover cannot do. Every other property of a passing run is
a theorem. The refuted properties of section 6 are TLC's alone.

## 5. Abstractions and assumptions

- An upload is one step up to its end: `upload_part` reads the body with the
  synchronous `file.file.read`, so it does not give up the loop.
- Part contents are not versioned: a part that is uploaded again under the same
  name while it is merged is the same part. What ffmpeg makes of a file that is
  written while it reads is not tracked.
- Keys and record files are taken to be distinct. `key()` joins user and session by
  `:` and `save_session` names its file `{user}__{session}.json`, which two pairs of
  ids may share; where such a collision matters most, in the names of merged files
  and directories, it is modelled (`OutputOf`, `UploadDir`, `MergeDir`).
- A merged file is the set of parts it joins. What two ffmpeg processes make of
  one output they write at the same time is what the last to end leaves of it.
  An extraction's ffmpeg that outlives the server is left out: its frames go to a
  temporary directory no one reads any more, and the audio file it may still be
  writing is no part of the model's state.
- One server process. Locks, semaphore and `SESSIONS` live in one event loop.
- The session record and usage writes of start and upload, and the first record
  write of a stop-commit, are assumed not to raise (its later writes may). `PROJECT.json` lists the case where the
  first assumption fails as a hazard.
- `SessionCommit` has one operator in its runs and one plan and one month of
  usage; seats, plans and months in all combinations are `Entitlement`'s.
- The wall clock does not go back. Durations are ticks.
- User and org ledgers are both named `{id}_ledger.json` in one directory; the
  models take them for different files, i.e. no org has the id of a user. The org template does not change, so
  its backfill does nothing. `read_seat_log`, the time baseline and the epoch
  stamp change no state.
- An upload is atomic for ffmpeg's reading in `Recording`: a part is read as it is
  before or after it. Negative part indexes are left out; the route checks none. Times and
  frame indexes of a timeline are naturals.
- Passwords, signatures, addresses and tokens are names; a token is drawn once.
- The metrics snapshot is replaced in one step (`tmp.replace`) and its write
  does not raise. Average latency and the two recent-request deques are left out.
- Rows are what a search sees of them: counts of tokens by field, time, kind and
  signal. Coverage minima are whole per cents. Requests that the consult route
  answers with 400 are not asked.

## 6. Where documentation and code disagree

Each is a run that TLC refutes, with the quoted line in `PROJECT.json`.

1. `session_paths`: parts are uploaded under the raw ids and merged from the
   stripped ones; a user like `orgA:user1` can never commit, although
   `splitter.py:222` says the uploads of the session are globbed.
2. `session_org_lock`: the "org-scoped" commit lock is keyed by the user id.
3. `interceptor_media`: a timeout gives the slot back while its ffmpeg runs on,
   so the "global ceiling" holds for packets and not for media processes.
4. `entitlement_hard_lock`: the request's plan, not the subscription's, chooses
   the bucket, so a used-up plan does not answer 403 to a request for another.
5. `accounts_reset`: a crash between two writes leaves a reset token that has
   set a password and will set another ("one-time use").

Met while modelling and not checked by a run: what the guard answers itself
(401, 429) is not in the "request logs on every HTTP call" of `src/README.md:52`,
since the guard is the outer middleware; and the boot count is saved only with
the next request, so a process that ends before it leaves no trace
(`BootsCounted` says precisely what the count does count). Two cases no line of the
repository speaks of, and which the properties therefore state instead of exclude:

- Two users whose ids are stripped and joined to one file name merge into, extract
  from and purge the same file; the commit lock, which is kept by user, does not
  cover it (`MergeLeftAlone`).
- Two stop-commits of a session that both began before either published set the
  status to processing once each, at the start. The first ends with ready; the
  second, past the lock, overwrites the artifacts one by one, and when the server
  dies then, the record says ready beside a mixture of the two runs. `OnePublisher`
  says that nothing else leads to one.

## 7. Not modelled, and what is left

Modelled in the order of the plan: `SessionCommit`; `PacketGate`,
`UploadInterceptor`, `SessionGate`; `Entitlement`; `Accounts`; `RequestPipeline`;
`Consult`; `Recording`; `UserLedger`, `OrgLedger`.

Not modelled, and why:

- `compiler_sandbox.py`: its behaviour is its regular expressions.
- The ops views (`routes_ops.py`) and the two recent-request deques: they read
  and average, and change nothing; alert levels compare averages with constants.
- The dashboard: read-only. User settings: one file, read, changed and replaced
  in one step under one lock, which leaves nothing to interleave or to tear.
  Preflight and settings: configuration.
- Hashes, media names and the seat-log binding of `checksum.py`: data, and no
  route calls them. Summaries, tags, reports: text. Transcription and OCR back
  ends: external. Schemas: field declarations.
- The browser page: it uploads parts and calls neither start nor stop-commit;
  uploads in any order and number are in `SessionCommit` and `Recording`.

Left to do:

- To prove: of what the runs check, only the liveness properties have no theorem.
- To model: the recent-request deque of 200 against the trend window, if a
  document comes to promise what the trend says.
- Hazards without a property (`PROJECT.json` says why for each): what a refused upload leaves, torn account files, late webhooks, a start whose
  usage file cannot be written.
