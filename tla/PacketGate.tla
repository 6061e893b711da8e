------------------------------ MODULE PacketGate ------------------------------
(***************************************************************************)
(* What the upload interceptor promises the handlers that submit to it.  A *)
(* packet opens as "processing" and settles once, as "ready" or "failed",  *)
(* and only from under a worker; no more than Ceiling packets are worked   *)
(* on at a time, whoever submitted them; and nobody is handed a packet that *)
(* has not settled.  Batching, queueing and retries are left open.         *)
(***************************************************************************)
EXTENDS Integers, FiniteSets

CONSTANTS Packets, Ceiling

VARIABLES
  status,   \* packet |-> its status, "lost" when the process died under it
  busy,     \* the packets being worked on
  handed    \* the packets a consumer has been given

gate == <<status, busy, handed>>

Final == {"ready", "failed"}

Init ==
  /\ status = [p \in Packets |-> "none"]
  /\ busy = {}
  /\ handed = {}

Becomes(p) ==
  CASE status[p] = "none"       -> {"none", "processing"}
    [] status[p] = "processing" -> {"processing", "lost"} \cup (IF p \in busy THEN Final ELSE {})
    [] OTHER                    -> {status[p]}

Step ==
  /\ \A p \in Packets : status'[p] \in Becomes(p)
  /\ \A p \in busy' : status'[p] = "processing" /\ status[p] = "processing"
  /\ Cardinality(busy') <= Ceiling
  /\ handed \subseteq handed'
  /\ \A p \in handed' : status'[p] \in Final

Spec == Init /\ [][Step]_gate
=============================================================================
