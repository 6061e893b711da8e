------------------------------- MODULE OrgLedger -------------------------------
(***************************************************************************)
(* The ledger of an organisation and the logs of its seats (core/ledger.py): *)
(* who has a seat, how many sessions were taken, and the rows of each seat. *)
(* Calls hold the lock of the organisation from reading its ledger to       *)
(* replacing it, and do not await in between; the seat log is a file of its *)
(* own and written after the lock is released.  The process may die between *)
(* two writes.  Who writes a ledger from outside reads it without the lock. *)
(***************************************************************************)
EXTENDS Integers, Sequences, FiniteSets, Functions

CONSTANTS
  LedgerOrgs,   \* organisations
  Seats,        \* operators
  MaxSeatsOfOrg,  \* max_seats of the org template
  Allocated,    \* allocated_monthly_sessions of the org template
  MaxTaken,     \* bound: the sessions a behaviour takes from an organisation
  MaxRows,      \* bound: the rows of a seat
  NoFile        \* no file, no seat, no organisation

ASSUME OrgLedgerAssumption ==
  /\ {MaxSeatsOfOrg, Allocated, MaxTaken, MaxRows} \subseteq Nat
  /\ IsFiniteSet(Seats)

OrgRow == [active: [Seats -> Nat \cup {NoFile}], max_seats: Nat, consumed: Nat]
SeatLog == [org_token: LedgerOrgs \cup {NoFile}, rows: Nat]
Copy == [key: LedgerOrgs, data: OrgRow, at: Nat]

ASSUME NoFileAssumption == NoFile \notin Nat \cup OrgRow \cup SeatLog \cup Copy

VARIABLES
  org,      \* organisation |-> its seats and sessions, or NoFile
  seatLog,  \* operator |-> org_token and the number of rows, or NoFile
  copy,     \* what a caller of write_org_ledger has read, and how many sessions had
            \* been taken by then, or NoFile
  steps,    \* the writes the running call still has to do
  taken     \* history: the sessions taken from each organisation, those of them
            \* that a write from outside took back, the rows appended for each operator

orgVars == <<org, seatLog, copy, steps, taken>>

FreshOrg == [active |-> [p \in Seats |-> NoFile], max_seats |-> MaxSeatsOfOrg, consumed |-> 0]

OrgInit ==
  /\ org = [o \in LedgerOrgs |-> NoFile]
  /\ seatLog = [p \in Seats |-> NoFile]
  /\ copy = NoFile
  /\ steps = <<>>
  /\ taken = [sessions |-> [o \in LedgerOrgs |-> 0], lost |-> [o \in LedgerOrgs |-> 0],
              rows |-> [p \in Seats |-> 0]]

\* A write: the file it replaces, of whom, its new content, and what was taken once
\* it is done.
Put(file, of, data, then) == [file |-> file, of |-> of, data |-> data, then |-> then]

\* A call starts when none is running.
OrgCall(todoList) ==
  /\ steps = <<>>
  /\ steps' = todoList
  /\ UNCHANGED <<org, seatLog, copy, taken>>

-----------------------------------------------------------------------------
\* ensure_org_ledger: the org template has no fields to come.
EnsureOrgLedger(o) ==
  OrgCall(IF org[o] = NoFile THEN <<Put("org", o, FreshOrg, taken)>> ELSE <<>>)

Registered(o) == {p \in Seats : org[o].active[p] # NoFile}

\* Regression: a log that is there already is provisioned anew.
ProvisionAlways(o, p) == <<Put("seat", p, [org_token |-> o, rows |-> 0], taken)>>
Provision(o, p) ==
  IF seatLog[p] = NoFile THEN <<Put("seat", p, [org_token |-> o, rows |-> 0], taken)>> ELSE <<>>

\* register_operator: an organisation whose seats are taken refuses also those
\* who have one.  The seat log is provisioned after the lock is released.
RegisterOperator(o, p) ==
  /\ org[o] # NoFile
  /\ Cardinality(Registered(o)) < org[o].max_seats
  /\ OrgCall((IF p \in Registered(o) THEN <<>>
              ELSE <<Put("org", o, [org[o] EXCEPT !.active[p] = 0], taken)>>)
             \o Provision(o, p))

\* consume_org_session: a session of somebody without a seat counts for the
\* organisation alone.
\* Regression: the ceiling is looked at after the session was taken.
SessionsLeftLate(o) == org[o].consumed <= Allocated
SessionsLeft(o) == org[o].consumed < Allocated

ConsumeOrgSession(o, p) ==
  /\ org[o] # NoFile
  /\ taken.sessions[o] < MaxTaken
  /\ SessionsLeft(o)
  /\ OrgCall(<<Put("org", o,
                   [org[o] EXCEPT !.consumed = @ + 1,
                                  !.active[p] = IF @ = NoFile THEN NoFile ELSE @ + 1],
                   [taken EXCEPT !.sessions[o] = @ + 1])>>)

\* A caller of write_org_ledger reads the ledger, without the lock, and some time
\* later writes what it read, with changes to fields that are left out here: the
\* sessions taken in between are lost from it.
ReadForWriting(o) ==
  /\ steps = <<>>
  /\ org[o] # NoFile
  /\ copy' = [key |-> o, data |-> org[o], at |-> taken.sessions[o]]
  /\ UNCHANGED <<org, seatLog, steps, taken>>

WriteOrgLedger ==
  /\ steps = <<>>
  /\ copy # NoFile
  /\ steps' = <<Put("org", copy.key, copy.data,
                    [taken EXCEPT !.lost[copy.key] = @ + taken.sessions[copy.key] - copy.at])>>
  /\ copy' = NoFile
  /\ UNCHANGED <<org, seatLog, taken>>

\* append_seat_session_row: a log that is missing is begun without an org_token.
AppendSeatRow(p) ==
  LET log == IF seatLog[p] = NoFile THEN [org_token |-> NoFile, rows |-> 0] ELSE seatLog[p]
  IN  /\ log.rows < MaxRows
      /\ OrgCall(<<Put("seat", p, [log EXCEPT !.rows = @ + 1], [taken EXCEPT !.rows[p] = @ + 1])>>)

-----------------------------------------------------------------------------
\* The next write of the running call.
PutFile ==
  /\ steps # <<>>
  /\ LET w == Head(steps)
     IN  /\ org' = IF w.file = "org" THEN [org EXCEPT ![w.of] = w.data] ELSE org
         /\ seatLog' = IF w.file = "seat" THEN [seatLog EXCEPT ![w.of] = w.data] ELSE seatLog
         /\ taken' = w.then
  /\ steps' = Tail(steps)
  /\ UNCHANGED copy

\* The process dies in the middle of a call; a copy somebody read goes with it.
OrgDie ==
  /\ steps # <<>>
  /\ steps' = <<>>
  /\ copy' = NoFile
  /\ UNCHANGED <<org, seatLog, taken>>

OrgNext ==
  \/ \E o \in LedgerOrgs :
       \/ EnsureOrgLedger(o) \/ ReadForWriting(o)
       \/ \E p \in Seats : RegisterOperator(o, p) \/ ConsumeOrgSession(o, p)
  \/ WriteOrgLedger
  \/ \E p \in Seats : AppendSeatRow(p)
  \/ PutFile \/ OrgDie

OrgSpec == OrgInit /\ [][OrgNext]_orgVars

-----------------------------------------------------------------------------
(* Properties *)

OrgTypeOK ==
  /\ org \in [LedgerOrgs -> OrgRow \cup {NoFile}]
  /\ seatLog \in [Seats -> SeatLog \cup {NoFile}]
  /\ copy \in Copy \cup {NoFile}
  /\ \A i \in DOMAIN steps : steps[i].file \in {"org", "seat"}

\* "Prevents silent data corruption when multiple seats write simultaneously": no
\* ledger shows more seats or sessions than the organisation bought, its seats have
\* used no more sessions together than it shows, and it shows every session that was
\* taken but those taken between the reading and the writing of somebody who writes
\* it back from outside.  So the sessions taken exceed those bought by no more than
\* such writes lost.  No registration and no death loses a row of a seat.
OrgAddsUp ==
  /\ \A o \in {x \in LedgerOrgs : org[x] # NoFile} :
       /\ Cardinality(Registered(o)) <= org[o].max_seats
       /\ SumFunctionOnSet(org[o].active, Registered(o)) <= org[o].consumed
       /\ org[o].consumed <= Allocated
       /\ org[o].consumed + taken.lost[o] = taken.sessions[o]
  /\ \A p \in Seats : taken.rows[p] = IF seatLog[p] = NoFile THEN 0 ELSE seatLog[p].rows
=============================================================================
