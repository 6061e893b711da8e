--------------------------- MODULE UploadInterceptor ---------------------------
(***************************************************************************)
(* BatchUploadInterceptor: one instance gates the media work of all seats. *)
(* A submission is a batch of assets; its first MaxConcurrent packets are  *)
(* gathered concurrently, the overflow follows one at a time, and every    *)
(* packet works under a slot of one shared semaphore with a timeout.  The  *)
(* coroutines interleave at the semaphore, at the processor and at the     *)
(* gather; what runs between two awaits is one step.                       *)
(***************************************************************************)
EXTENDS Integers, FiniteSets, Sequences, Functions

CONSTANTS
  Submissions,    \* calls of submit_with_results
  Size,           \* submission |-> the number of its assets
  MaxConcurrent,  \* MAX_CONCURRENT
  LogFaults       \* BOOLEAN: whether writing the fault log may raise

ASSUME InterceptorAssumption ==
  /\ Size \in [Submissions -> Nat]
  /\ MaxConcurrent \in Nat \ {0}
  /\ LogFaults \in BOOLEAN

Packets == UNION {{s} \X (1..Size[s]) : s \in Submissions}

VARIABLES
  phase,    \* submission |-> where submit_with_results is
  packet,   \* packet |-> its status; "raised" when _process_one raised instead
  waiting,  \* the packets waiting for a slot, in order
  slots,    \* the packets holding a slot
  media,    \* the packets with an ffmpeg process of theirs running
  rows,     \* submission |-> this_run_results
  results   \* _results

vars == <<phase, packet, waiting, slots, media, rows, results>>

\* The sequence <<s, 1>>, ..., <<s, n>>.
Assets(s, n) == [i \in 1..n |-> <<s, i>>]

\* The assets of a submission that are gathered, the rest being overflow.
Batch(s) == IF Size[s] > MaxConcurrent THEN MaxConcurrent ELSE Size[s]

Gathered(p) == p[2] <= Batch(p[1])

Init ==
  /\ phase = [s \in Submissions |-> "new"]
  /\ packet = [p \in Packets |-> "none"]
  /\ waiting = <<>>
  /\ slots = {}
  /\ media = {}
  /\ rows = [s \in Submissions |-> <<>>]
  /\ results = <<>>

Submit(s) ==
  /\ phase[s] = "new"
  /\ phase' = [phase EXCEPT ![s] = "gather"]
  /\ packet' = [p \in Packets |-> IF p[1] = s /\ Gathered(p) THEN "processing" ELSE packet[p]]
  /\ waiting' = waiting \o Assets(s, Batch(s))
  /\ UNCHANGED <<slots, media, rows, results>>

\* Regression: the semaphore admits one packet too many.
SlotFreeOrOneMore == Cardinality(slots) <= MaxConcurrent
SlotFree == Cardinality(slots) < MaxConcurrent

AcquireSlot(p) ==
  /\ waiting # <<>> /\ Head(waiting) = p
  /\ SlotFree
  /\ waiting' = Tail(waiting)
  /\ slots' = slots \cup {p}
  /\ media' = media \cup {p}
  /\ UNCHANGED <<phase, packet, rows, results>>

\* Regression: the whole overflow is submitted at once.
NextAll(s, n) == [i \in 1..(Size[s] - n) |-> <<s, n + i>>]
NextOne(s, n) == <<<<s, n + 1>>>>

\* submit_with_results with the rows `got`, given the packets' statuses: the
\* next overflow asset is submitted, or the batch is done.
Continue(s, got, statuses) ==
  /\ rows' = [rows EXCEPT ![s] = got]
  /\ LET next == NextOne(s, Len(got))
     IN  \/ /\ Len(got) < Size[s]
            /\ phase' = [phase EXCEPT ![s] = "overflow"]
            /\ packet' = [p \in Packets |-> IF p \in Range(next) THEN "processing" ELSE statuses[p]]
            /\ waiting' = waiting \o next
            /\ UNCHANGED results
         \/ /\ Len(got) = Size[s]
            /\ phase' = [phase EXCEPT ![s] = "returned"]
            /\ packet' = statuses
            /\ results' = results \o got
            /\ UNCHANGED waiting

\* Regression: the slot is not given back when _process_one raises.
LeaveUnlessRaised(p, outcome) == slots' = IF outcome = "raised" THEN slots ELSE slots \ {p}
Leave(p, outcome) == slots' = slots \ {p}

\* _process_one is over: a gathered packet is left to the gather, an overflow
\* packet is a plain await and submit_with_results runs on at once.
Ends(p, outcome) ==
  LET s == p[1]
      statuses == [packet EXCEPT ![p] = outcome]
  IN  /\ p \in slots /\ packet[p] = "processing"
      /\ Leave(p, outcome)
      /\ \/ /\ Gathered(p)
            /\ packet' = statuses
            /\ UNCHANGED <<phase, waiting, rows, results>>
         \/ /\ ~Gathered(p) /\ outcome # "raised"
            /\ Continue(s, Append(rows[s], p), statuses)
         \/ /\ ~Gathered(p) /\ outcome = "raised"
            /\ packet' = statuses
            /\ phase' = [phase EXCEPT ![s] = "raised"]
            /\ UNCHANGED <<waiting, rows, results>>

\* Regression: a timeout is given a status of its own.
FailuresByCause == {"failed", "timeout"}
\* Writing the fault log turns a failure into an exception when it raises.
Failures == IF LogFaults THEN {"failed", "raised"} ELSE {"failed"}

ProcessorReturns(p) ==
  /\ Ends(p, "ready")
  /\ media' = media \ {p}

ProcessorRaises(p) ==
  /\ \E outcome \in Failures : Ends(p, outcome)
  /\ media' = media \ {p}

\* wait_for cancels the coroutine, which leaves its ffmpeg process alone.
TimesOut(p) ==
  /\ \E outcome \in Failures : Ends(p, outcome)
  /\ UNCHANGED media

OrphanExits(p) ==
  /\ p \in media \ slots
  /\ media' = media \ {p}
  /\ UNCHANGED <<phase, packet, waiting, slots, rows, results>>

\* asyncio.gather waits for all its packets, and raises as soon as one did.
GatherReturns(s) ==
  /\ phase[s] = "gather"
  /\ \A i \in 1..Batch(s) : packet[<<s, i>>] \in {"ready", "failed"}
  /\ Continue(s, Assets(s, Batch(s)), packet)
  /\ UNCHANGED <<slots, media>>

GatherRaises(s) ==
  /\ phase[s] = "gather"
  /\ \E i \in 1..Batch(s) : packet[<<s, i>>] = "raised"
  /\ phase' = [phase EXCEPT ![s] = "raised"]
  /\ UNCHANGED <<packet, waiting, slots, media, rows, results>>

DrainResults ==
  /\ results # <<>>
  /\ results' = <<>>
  /\ UNCHANGED <<phase, packet, waiting, slots, media, rows>>

ProcessOne(p) == AcquireSlot(p) \/ ProcessorReturns(p) \/ ProcessorRaises(p) \/ TimesOut(p)
Gather(s) == GatherReturns(s) \/ GatherRaises(s)

Next ==
  \/ \E s \in Submissions : Submit(s) \/ Gather(s)
  \/ \E p \in Packets : ProcessOne(p) \/ OrphanExits(p)
  \/ DrainResults

Spec == Init /\ [][Next]_vars

\* The event loop runs every coroutine that is ready; a processor that hangs is
\* ended by its timeout.  Nothing ends an orphan.
FairSpec ==
  /\ Spec
  /\ \A p \in Packets : WF_vars(ProcessOne(p))
  /\ \A s \in Submissions : WF_vars(Gather(s))

-----------------------------------------------------------------------------
(* Properties *)

TypeOK ==
  /\ phase \in [Submissions -> {"new", "gather", "overflow", "returned", "raised"}]
  /\ packet \in [Packets -> {"none", "processing", "ready", "failed", "raised"}]
  /\ waiting \in Seq(Packets)
  /\ slots \in SUBSET Packets
  /\ media \in SUBSET Packets
  /\ rows \in [Submissions -> Seq(Packets)]
  /\ results \in Seq(Packets)

\* The semaphore counts right on every path out of _process_one: a packet is
\* "processing" exactly while it waits for a slot, once, or holds one.
SlotPerPacket ==
  /\ \A p \in Packets : packet[p] = "processing" <=> p \in slots \cup Range(waiting)
  /\ slots \cap Range(waiting) = {}
  /\ IsInjective(waiting)

\* The overflow of a batch goes one at a time, after all that was gathered: a
\* seat with a long batch takes no more than one slot from the others then.
OverflowOneAtATime ==
  \A s \in Submissions :
    LET open == {p \in Packets : p[1] = s /\ packet[p] = "processing"}
    IN  (\E p \in open : ~Gathered(p)) => Cardinality(open) = 1

\* The interceptor keeps the promise of PacketGate, with what _results and
\* this_run_results hold as the packets handed out.
Gate == INSTANCE PacketGate WITH
  Ceiling <- MaxConcurrent,
  status <- [p \in Packets |-> IF packet[p] = "raised" THEN "failed" ELSE packet[p]],
  busy <- slots,
  handed <- Range(results) \cup UNION {Range(rows[s]) : s \in Submissions}

ImplementsGate == Gate!Spec

\* Every submission ends: with a row for every asset, in order, or, when the
\* fault log could not be written, with an exception.
SubmissionsAnswered ==
  \A s \in Submissions :
    phase[s] # "new" ~> \/ phase[s] = "returned" /\ rows[s] = Assets(s, Size[s])
                        \/ phase[s] = "raised"

\* "a global ceiling across all laptops": no more than MaxConcurrent media
\* processes run at a time.
MediaWithinCeiling == Cardinality(media) <= MaxConcurrent
=============================================================================
