------------------------------ MODULE SessionGate ------------------------------
(***************************************************************************)
(* SessionCommit uses the upload interceptor for batches of one asset.     *)
(* Each call of submit_with_results is a packet, named by the request and  *)
(* the attempt, and what the handlers do with it keeps PacketGate.         *)
(***************************************************************************)
EXTENDS SessionCommit

Packets == Requests \X (1..MaxAttempts)

\* A packet was submitted by an attempt up to the current one, once the merge
\* is over; an attempt that was retried had failed to write its fault log.
\* After a crash the packets that had not settled are lost.
PacketStatus(p) ==
  LET r == p[1]
      attempt == p[2]
  IN  IF job[r].packet = "none" \/ attempt > job[r].tries THEN "none"
      ELSE IF attempt < job[r].tries THEN "failed"
      ELSE IF job[r].packet = "processing" /\ pc[r] = "dropped" THEN "lost"
      ELSE job[r].packet

Gate == INSTANCE PacketGate WITH
  Ceiling <- MaxConcurrent,
  status <- [p \in Packets |-> PacketStatus(p)],
  busy <- {<<r, job[r].tries>> : r \in running},
  handed <- {p \in Packets : p[2] = job[p[1]].tries /\ job[p[1]].packet \in {"ready", "failed"}}

\* Stop-commits of any number of users share MaxConcurrent slots, give each
\* back on every path, and read the outcome of a packet only when it is final.
ImplementsGate == Gate!Spec
=============================================================================
