--------------------------- MODULE InterceptorProofs ---------------------------
(***************************************************************************)
(* Theorems about UploadInterceptor for any submissions, sizes and ceiling: *)
(* its types, the accounting of its semaphore, the order of an overflow,   *)
(* and that it implements PacketGate.  The inductive invariant says, beside *)
(* the properties themselves, how far each submission is: which of its     *)
(* packets have not begun, which are open and which are settled.           *)
(***************************************************************************)
EXTENDS UploadInterceptor, SequenceTheorems, FiniteSetTheorems, TLAPS

Settled == {"ready", "failed"}

\* The status of the i-th packet of a submission.
Status(s, i) == packet[<<s, i>>]

\* How far submit_with_results is says which packets can be open.
Course(s) ==
  /\ phase[s] = "new" => /\ rows[s] = <<>>
                         /\ \A i \in 1..Size[s] : Status(s, i) = "none"
  /\ phase[s] = "gather" => /\ rows[s] = <<>>
                            /\ \A i \in 1..Size[s] : i > Batch(s) <=> Status(s, i) = "none"
  /\ phase[s] = "overflow" =>
       \E n \in Batch(s)..(Size[s] - 1) :
         /\ rows[s] = Assets(s, n)
         /\ \A i \in 1..n : Status(s, i) \in Settled
         /\ Status(s, n + 1) = "processing"
         /\ \A i \in (n + 2)..Size[s] : Status(s, i) = "none"
  /\ phase[s] = "returned" => \A i \in 1..Size[s] : Status(s, i) \in Settled
  /\ phase[s] = "raised" => \A i \in 1..Size[s] : i > Batch(s) => Status(s, i) # "processing"

\* No more slots are taken than there are.
SlotsBounded == IsFiniteSet(slots) /\ Cardinality(slots) <= MaxConcurrent

\* What is handed out has settled, and what waits in _results is in some row.
RowsSettled == \A s \in Submissions : \A p \in Range(rows[s]) : packet[p] \in Settled
ResultsFromRows == \A p \in Range(results) : \E s \in Submissions : p \in Range(rows[s])

IInv ==
  /\ TypeOK /\ SlotPerPacket /\ SlotsBounded
  /\ \A s \in Submissions : Course(s)
  /\ RowsSettled /\ ResultsFromRows

-----------------------------------------------------------------------------
(* Packets and sequences of them. *)

\* A packet is a submission and an index into its assets.
LEMMA PacketFacts ==
  /\ \A s \in Submissions : Size[s] \in Nat /\ Batch(s) \in 0..Size[s]
  /\ \A s \in Submissions : \A i \in 1..Size[s] : <<s, i>> \in Packets
  /\ \A p \in Packets : p[1] \in Submissions /\ p[2] \in 1..Size[p[1]] /\ p = <<p[1], p[2]>>
  <1>1. \A s \in Submissions : Size[s] \in Nat /\ Batch(s) \in 0..Size[s]
    BY InterceptorAssumption DEF Batch
  <1>2. \A s \in Submissions : \A i \in 1..Size[s] : <<s, i>> \in Packets
    BY DEF Packets
  <1>3. \A p \in Packets : p[1] \in Submissions /\ p[2] \in 1..Size[p[1]] /\ p = <<p[1], p[2]>>
    BY DEF Packets
  <1>4. QED
    BY <1>1, <1>2, <1>3

\* The first n assets of a submission, each once.
LEMMA AssetsFacts ==
  ASSUME NEW s \in Submissions, NEW n \in 0..Size[s]
  PROVE  /\ Assets(s, n) \in Seq(Packets)
         /\ Len(Assets(s, n)) = n
         /\ \A i \in 1..n : Assets(s, n)[i] = <<s, i>>
         /\ Range(Assets(s, n)) = {<<s, i>> : i \in 1..n}
         /\ IsInjective(Assets(s, n))
  <1>1. n \in Nat /\ \A i \in 1..n : <<s, i>> \in Packets
    BY PacketFacts
  <1>2. Assets(s, n) \in [1..n -> Packets]
    BY <1>1 DEF Assets
  <1>3. Assets(s, n) \in Seq(Packets)
    BY <1>1, <1>2, SeqDef
  <1>4. Len(Assets(s, n)) = n
    BY <1>1, <1>2, <1>3, LenProperties
  <1>5. QED
    BY <1>1, <1>3, <1>4 DEF Assets, Range, IsInjective

\* The assets so far and the next one.
LEMMA AssetsGrow ==
  ASSUME NEW s \in Submissions, NEW n \in 0..(Size[s] - 1)
  PROVE  Append(Assets(s, n), <<s, n + 1>>) = Assets(s, n + 1)
  <1>1. n \in 0..Size[s] /\ n + 1 \in 0..Size[s] /\ n + 1 \in 1..Size[s]
    BY PacketFacts
  <1>2. <<s, n + 1>> \in Packets
    BY <1>1, PacketFacts
  <1>3. /\ Assets(s, n) \in Seq(Packets) /\ Len(Assets(s, n)) = n
        /\ \A i \in 1..n : Assets(s, n)[i] = <<s, i>>
    BY <1>1, AssetsFacts
  <1>4. /\ Assets(s, n + 1) \in Seq(Packets) /\ Len(Assets(s, n + 1)) = n + 1
        /\ \A i \in 1..(n + 1) : Assets(s, n + 1)[i] = <<s, i>>
    BY <1>1, AssetsFacts
  <1> DEFINE grown == Append(Assets(s, n), <<s, n + 1>>)
  <1>5. /\ grown \in Seq(Packets) /\ Len(grown) = n + 1
        /\ \A i \in 1..n : grown[i] = Assets(s, n)[i]
        /\ grown[n + 1] = <<s, n + 1>>
    BY <1>2, <1>3, AppendProperties
  <1> HIDE DEF grown
  <1>6. ASSUME NEW i \in 1..(n + 1) PROVE grown[i] = Assets(s, n + 1)[i]
    <2>1. CASE i \in 1..n
      BY <1>3, <1>4, <1>5, <2>1
    <2>2. CASE i = n + 1
      BY <1>4, <1>5, <2>2
    <2>3. QED
      BY <1>1, <2>1, <2>2
  <1>7. grown = Assets(s, n + 1)
    BY <1>4, <1>5, <1>6, SeqEqual
  <1>8. QED
    BY <1>7 DEF grown

\* Taking the head of a queue without repetitions takes it out of the queue.
LEMMA TailFacts ==
  ASSUME NEW S, NEW q \in Seq(S), q # <<>>, IsInjective(q)
  PROVE  /\ Tail(q) \in Seq(S)
         /\ Range(Tail(q)) = Range(q) \ {Head(q)}
         /\ IsInjective(Tail(q))
         /\ Head(q) \in Range(q)
  <1>1. /\ Len(q) \in Nat \ {0} /\ DOMAIN q = 1..Len(q) /\ Head(q) = q[1]
    BY EmptySeq, LenProperties
  <1>2. /\ Tail(q) \in Seq(S) /\ Len(Tail(q)) = Len(q) - 1
        /\ \A i \in 1..Len(Tail(q)) : Tail(q)[i] = q[i + 1]
    BY HeadTailProperties
  <1>3. DOMAIN Tail(q) = 1..(Len(q) - 1)
    BY <1>2, LenProperties
  <1>4. IsInjective(Tail(q)) /\ Head(q) \in Range(q)
    BY <1>1, <1>2, <1>3 DEF IsInjective, Range
  <1>5. ASSUME NEW x \in Range(Tail(q)) PROVE x \in Range(q) \ {Head(q)}
    BY <1>1, <1>2, <1>3, <1>5 DEF IsInjective, Range
  <1>6. ASSUME NEW x \in Range(q) \ {Head(q)} PROVE x \in Range(Tail(q))
    <2>1. PICK j \in 2..Len(q) : x = q[j]
      BY <1>1, <1>6 DEF Range
    <2>2. j - 1 \in 1..(Len(q) - 1) /\ Tail(q)[j - 1] = x
      BY <1>1, <1>2, <2>1
    <2>3. QED
      BY <1>3, <2>2 DEF Range
  <1>7. QED
    BY <1>2, <1>4, <1>5, <1>6

\* A queue joined by newcomers has no repetitions when neither has.
LEMMA JoinFacts ==
  ASSUME NEW S, NEW q \in Seq(S), NEW t \in Seq(S), IsInjective(q), IsInjective(t),
         Range(q) \cap Range(t) = {}
  PROVE  q \o t \in Seq(S) /\ IsInjective(q \o t) /\ Range(q \o t) = Range(q) \cup Range(t)
  <1>1. /\ q \o t \in Seq(S) /\ Len(q \o t) = Len(q) + Len(t)
        /\ \A i \in 1..(Len(q) + Len(t)) : (q \o t)[i] = IF i <= Len(q) THEN q[i] ELSE t[i - Len(q)]
    BY ConcatProperties
  <1>2. /\ Len(q) \in Nat /\ Len(t) \in Nat /\ DOMAIN q = 1..Len(q) /\ DOMAIN t = 1..Len(t)
        /\ DOMAIN (q \o t) = 1..(Len(q) + Len(t))
    BY <1>1, LenProperties
  <1>3. ASSUME NEW i \in 1..(Len(q) + Len(t)), NEW j \in 1..(Len(q) + Len(t)),
               (q \o t)[i] = (q \o t)[j]
        PROVE  i = j
    <2>1. CASE i <= Len(q) /\ j <= Len(q)
      BY <1>1, <1>2, <1>3, <2>1 DEF IsInjective
    <2>2. CASE i > Len(q) /\ j > Len(q)
      <3>1. i - Len(q) \in DOMAIN t /\ j - Len(q) \in DOMAIN t
        BY <1>2, <2>2
      <3>2. t[i - Len(q)] = t[j - Len(q)]
        BY <1>1, <1>2, <1>3, <2>2
      <3>3. i - Len(q) = j - Len(q)
        BY <3>1, <3>2 DEF IsInjective
      <3>4. QED
        BY <1>2, <3>3
    <2>3. CASE i <= Len(q) /\ j > Len(q)
      <3>1. i \in DOMAIN q /\ j - Len(q) \in DOMAIN t /\ q[i] = t[j - Len(q)]
        BY <1>1, <1>2, <1>3, <2>3
      <3>2. QED
        BY <3>1 DEF Range
    <2>4. CASE i > Len(q) /\ j <= Len(q)
      <3>1. j \in DOMAIN q /\ i - Len(q) \in DOMAIN t /\ q[j] = t[i - Len(q)]
        BY <1>1, <1>2, <1>3, <2>4
      <3>2. QED
        BY <3>1 DEF Range
    <2>5. QED
      BY <1>2, <2>1, <2>2, <2>3, <2>4
  <1>4. IsInjective(q \o t)
    BY <1>2, <1>3 DEF IsInjective
  <1>5. QED
    BY <1>1, <1>4, RangeConcatenation
-----------------------------------------------------------------------------
(* The invariant is inductive. *)

Statuses == {"none", "processing", "ready", "failed", "raised"}

LEMMA InvInit == Init => IInv
  <1> SUFFICES ASSUME Init PROVE IInv
    OBVIOUS
  <1>1. Range(<<>>) = {} /\ IsInjective(<<>>) /\ <<>> \in Seq(Packets)
    BY EmptySeq DEF Range, IsInjective
  <1>2. TypeOK /\ SlotPerPacket
    BY <1>1 DEF Init, TypeOK, SlotPerPacket
  <1>3. SlotsBounded
    BY FS_EmptySet, InterceptorAssumption DEF Init, SlotsBounded
  <1>4. \A s \in Submissions : Course(s)
    BY PacketFacts DEF Init, Course, Status
  <1>5. RowsSettled /\ ResultsFromRows
    BY <1>1 DEF Init, RowsSettled, ResultsFromRows
  <1>6. QED
    BY <1>2, <1>3, <1>4, <1>5 DEF IInv

\* A submission is where it was when its phase, rows and packets are.
LEMMA CourseKept ==
  ASSUME NEW t \in Submissions, Course(t), phase'[t] = phase[t], rows'[t] = rows[t],
         \A i \in 1..Size[t] : Status(t, i)' = Status(t, i)
  PROVE  Course(t)'
  <1>1. Size[t] \in Nat /\ Batch(t) \in 0..Size[t]
    BY PacketFacts
  <1>2. ASSUME phase[t] = "overflow"
        PROVE  \E n \in Batch(t)..(Size[t] - 1) :
                 /\ rows'[t] = Assets(t, n)
                 /\ \A i \in 1..n : Status(t, i)' \in Settled
                 /\ Status(t, n + 1)' = "processing"
                 /\ \A i \in (n + 2)..Size[t] : Status(t, i)' = "none"
    <2>1. PICK n \in Batch(t)..(Size[t] - 1) :
                 /\ rows[t] = Assets(t, n)
                 /\ \A i \in 1..n : Status(t, i) \in Settled
                 /\ Status(t, n + 1) = "processing"
                 /\ \A i \in (n + 2)..Size[t] : Status(t, i) = "none"
      BY <1>2 DEF Course
    <2>2. /\ \A i \in 1..n : Status(t, i)' \in Settled
          /\ Status(t, n + 1)' = "processing"
          /\ \A i \in (n + 2)..Size[t] : Status(t, i)' = "none"
      BY <1>1, <2>1
    <2>3. QED
      BY <2>1, <2>2
  <1>3. /\ phase[t] = "new" => /\ rows'[t] = <<>>
                               /\ \A i \in 1..Size[t] : Status(t, i)' = "none"
        /\ phase[t] = "gather" => /\ rows'[t] = <<>>
                                  /\ \A i \in 1..Size[t] : i > Batch(t) <=> Status(t, i)' = "none"
        /\ phase[t] = "returned" => \A i \in 1..Size[t] : Status(t, i)' \in Settled
        /\ phase[t] = "raised" => \A i \in 1..Size[t] : i > Batch(t) => Status(t, i)' # "processing"
    BY DEF Course
  <1>4. QED
    BY <1>2, <1>3 DEF Course, Assets, Batch, Settled

\* Submitting the next asset of the overflow, or returning.
LEMMA ContinueStep ==
  ASSUME IInv, NEW s \in Submissions, NEW n \in Batch(s)..Size[s],
         NEW statuses \in [Packets -> Statuses],
         Range(rows[s]) \subseteq Range(Assets(s, n)),
         \A p \in Packets : p[1] # s => statuses[p] = packet[p],
         \A i \in 1..n : statuses[<<s, i>>] \in Settled,
         \A i \in (n + 1)..Size[s] : statuses[<<s, i>>] = "none",
         \A p \in Packets : packet[p] \in Settled => statuses[p] = packet[p],
         slots' \in SUBSET slots, media' \in SUBSET Packets,
         \A p \in Packets : statuses[p] = "processing" <=> p \in slots' \cup Range(waiting),
         Continue(s, Assets(s, n), statuses)
  PROVE  IInv'
  <1>1. /\ Size[s] \in Nat /\ Batch(s) \in 0..Size[s] /\ n \in 0..Size[s]
        /\ \A t \in Submissions : \A i \in 1..Size[t] : <<t, i>> \in Packets
    BY PacketFacts
  <1>2. /\ Assets(s, n) \in Seq(Packets) /\ Len(Assets(s, n)) = n
        /\ Range(Assets(s, n)) = {<<s, i>> : i \in 1..n}
    BY <1>1, AssetsFacts
  <1>3. /\ TypeOK /\ SlotPerPacket /\ RowsSettled /\ ResultsFromRows /\ SlotsBounded
        /\ \A t \in Submissions : Course(t)
    BY DEF IInv
  <1>4. /\ rows' = [rows EXCEPT ![s] = Assets(s, n)]
        /\ rows'[s] = Assets(s, n)
        /\ \A t \in Submissions \ {s} : rows'[t] = rows[t]
        /\ rows' \in [Submissions -> Seq(Packets)]
    BY <1>2, <1>3 DEF Continue, TypeOK
  <1>5. SlotsBounded' /\ slots' \in SUBSET Packets
    <2>1. IsFiniteSet(slots') /\ Cardinality(slots') <= Cardinality(slots)
      BY <1>3, FS_Subset DEF SlotsBounded
    <2>2. Cardinality(slots') \in Nat /\ Cardinality(slots) \in Nat
      BY <1>3, <2>1, FS_CardinalityType DEF SlotsBounded
    <2>3. QED
      BY <1>3, <2>1, <2>2, InterceptorAssumption DEF SlotsBounded, TypeOK
  <1>6. CASE /\ n < Size[s]
             /\ phase' = [phase EXCEPT ![s] = "overflow"]
             /\ packet' = [p \in Packets |-> IF p \in Range(NextOne(s, n)) THEN "processing" ELSE statuses[p]]
             /\ waiting' = waiting \o NextOne(s, n)
             /\ UNCHANGED results
    <2> DEFINE p0 == <<s, n + 1>>
    <2>1. /\ p0 \in Packets /\ n + 1 \in 1..Size[s]
          /\ NextOne(s, n) \in Seq(Packets) /\ Range(NextOne(s, n)) = {p0}
          /\ IsInjective(NextOne(s, n))
      BY <1>1, <1>6 DEF NextOne, Range, IsInjective
    <2>2. /\ statuses[p0] = "none" /\ p0 \notin slots' \cup Range(waiting)
      BY <1>1, <1>6, <2>1
    <2>3. /\ waiting' \in Seq(Packets) /\ IsInjective(waiting')
          /\ Range(waiting') = Range(waiting) \cup {p0}
      <3>1. waiting \in Seq(Packets) /\ IsInjective(waiting)
        BY <1>3 DEF TypeOK, SlotPerPacket
      <3>2. Range(waiting) \cap Range(NextOne(s, n)) = {}
        BY <2>1, <2>2
      <3>3. QED
        BY <1>6, <2>1, <3>1, <3>2, JoinFacts
    <2>4. /\ packet'[p0] = "processing"
          /\ \A p \in Packets \ {p0} : packet'[p] = statuses[p]
      BY <1>6, <2>1
    <2>5. TypeOK'
      BY <1>3, <1>4, <1>5, <1>6, <2>3 DEF TypeOK, Statuses
    <2>6. SlotPerPacket'
      <3>1. slots' \cap Range(waiting') = {}
        BY <1>3, <2>2, <2>3 DEF SlotPerPacket
      <3>2. QED
        BY <2>3, <2>4, <3>1 DEF SlotPerPacket
    <2>7. \A t \in Submissions : Course(t)'
      <3>1. Course(s)'
        <4>1. phase'[s] = "overflow"
          BY <1>3, <1>6 DEF TypeOK
        <4>2. /\ \A i \in 1..n : Status(s, i)' \in Settled
              /\ Status(s, n + 1)' = "processing"
              /\ \A i \in (n + 2)..Size[s] : Status(s, i)' = "none"
          BY <1>1, <2>4 DEF Status
        <4>3. n \in Batch(s)..(Size[s] - 1)
          BY <1>1, <1>6
        <4>4. QED
          BY <1>4, <4>1, <4>2, <4>3 DEF Course, Settled, Assets, Batch
      <3>2. ASSUME NEW t \in Submissions \ {s} PROVE Course(t)'
        <4>1. phase'[t] = phase[t] /\ \A i \in 1..Size[t] : Status(t, i)' = Status(t, i)
          BY <1>1, <1>3, <1>6, <2>4 DEF TypeOK, Status
        <4>2. QED
          BY <1>3, <1>4, <4>1, CourseKept
      <3>3. QED
        BY <3>1, <3>2
    <2>8. RowsSettled' /\ ResultsFromRows'
      <3>1. \A p \in Packets : packet[p] \in Settled => packet'[p] \in Settled
        BY <2>2, <2>4 DEF Settled
      <3>2. \A i \in 1..n : packet'[<<s, i>>] \in Settled
        BY <1>1, <2>4
      <3>3. \A t \in Submissions : Range(rows[t]) \subseteq Packets
        BY <1>3, RangeOfSeq DEF TypeOK
      <3>4. RowsSettled'
        BY <1>2, <1>3, <1>4, <3>1, <3>2, <3>3 DEF RowsSettled, Settled
      <3>5. ResultsFromRows'
        BY <1>3, <1>4, <1>6 DEF ResultsFromRows
      <3>6. QED
        BY <3>4, <3>5
    <2>9. QED
      BY <1>5, <2>5, <2>6, <2>7, <2>8 DEF IInv
  <1>7. CASE /\ n = Size[s]
             /\ phase' = [phase EXCEPT ![s] = "returned"]
             /\ packet' = statuses
             /\ results' = results \o Assets(s, n)
             /\ UNCHANGED waiting
    <2>1. TypeOK'
      <3>1. results' \in Seq(Packets)
        BY <1>2, <1>3, <1>7, ConcatProperties DEF TypeOK
      <3>2. QED
        BY <1>3, <1>4, <1>5, <1>7, <3>1 DEF TypeOK, Statuses
    <2>2. SlotPerPacket'
      BY <1>3, <1>7 DEF SlotPerPacket
    <2>3. \A t \in Submissions : Course(t)'
      <3>1. Course(s)'
        <4>1. phase'[s] = "returned"
          BY <1>3, <1>7 DEF TypeOK
        <4>2. \A i \in 1..Size[s] : Status(s, i)' \in Settled
          BY <1>7 DEF Status
        <4>3. QED
          BY <4>1, <4>2 DEF Course, Settled
      <3>2. ASSUME NEW t \in Submissions \ {s} PROVE Course(t)'
        <4>1. phase'[t] = phase[t] /\ \A i \in 1..Size[t] : Status(t, i)' = Status(t, i)
          BY <1>1, <1>3, <1>7 DEF TypeOK, Status
        <4>2. QED
          BY <1>3, <1>4, <4>1, CourseKept
      <3>3. QED
        BY <3>1, <3>2
    <2>4. RowsSettled' /\ ResultsFromRows'
      <3>1. \A t \in Submissions : Range(rows[t]) \subseteq Packets
        BY <1>3, RangeOfSeq DEF TypeOK
      <3>2. RowsSettled'
        <4>1. \A p \in Packets : packet[p] \in Settled => packet'[p] \in Settled
          BY <1>7
        <4>2. \A p \in Range(rows'[s]) : packet'[p] \in Settled
          BY <1>2, <1>4, <1>7
        <4>3. ASSUME NEW t \in Submissions \ {s}
              PROVE  \A p \in Range(rows'[t]) : packet'[p] \in Settled
          <5>1. \A p \in Range(rows[t]) : packet[p] \in Settled
            BY <1>3 DEF RowsSettled
          <5>2. QED
            BY <1>4, <3>1, <4>1, <5>1
        <4>4. QED
          BY <4>2, <4>3 DEF RowsSettled
      <3>3. Range(results') = Range(results) \cup Range(Assets(s, n))
        BY <1>2, <1>3, <1>7, RangeConcatenation DEF TypeOK
      <3>4. ResultsFromRows'
        BY <1>3, <1>4, <3>3 DEF ResultsFromRows
      <3>5. QED
        BY <3>2, <3>4
    <2>5. QED
      BY <1>5, <2>1, <2>2, <2>3, <2>4 DEF IInv
  <1>8. QED
    BY <1>2, <1>6, <1>7 DEF Continue

\* A submission opens the packets it gathers, none of which was open.
LEMMA SubmitStep ==
  ASSUME IInv, NEW s \in Submissions, Submit(s)
  PROVE  IInv'
  <1>1. /\ Size[s] \in Nat /\ Batch(s) \in 0..Size[s]
        /\ \A t \in Submissions : \A i \in 1..Size[t] : <<t, i>> \in Packets
        /\ \A p \in Packets : p[1] \in Submissions /\ p[2] \in 1..Size[p[1]] /\ p = <<p[1], p[2]>>
    BY PacketFacts
  <1>2. /\ Assets(s, Batch(s)) \in Seq(Packets) /\ IsInjective(Assets(s, Batch(s)))
        /\ Range(Assets(s, Batch(s))) = {<<s, i>> : i \in 1..Batch(s)}
    BY <1>1, AssetsFacts
  <1>3. /\ TypeOK /\ SlotPerPacket /\ RowsSettled /\ ResultsFromRows /\ SlotsBounded
        /\ \A t \in Submissions : Course(t)
    BY DEF IInv
  <1>4. rows[s] = <<>> /\ \A i \in 1..Size[s] : packet[<<s, i>>] = "none"
    BY <1>3 DEF Submit, Course, Status
  <1>5. /\ waiting' \in Seq(Packets) /\ IsInjective(waiting')
        /\ Range(waiting') = Range(waiting) \cup {<<s, i>> : i \in 1..Batch(s)}
    <2>1. waiting \in Seq(Packets) /\ IsInjective(waiting)
      BY <1>3 DEF TypeOK, SlotPerPacket
    <2>2. Range(waiting) \cap Range(Assets(s, Batch(s))) = {}
      BY <1>1, <1>2, <1>3, <1>4 DEF SlotPerPacket
    <2>3. QED
      BY <1>2, <2>1, <2>2, JoinFacts DEF Submit
  <1>6. /\ \A i \in 1..Size[s] :
             packet'[<<s, i>>] = IF i <= Batch(s) THEN "processing" ELSE "none"
        /\ \A p \in Packets : p[1] # s => packet'[p] = packet[p]
    BY <1>1, <1>4 DEF Submit, Gathered
  <1>7. TypeOK'
    BY <1>3, <1>5 DEF TypeOK, Submit
  <1>8. SlotPerPacket'
    <2>1. ASSUME NEW p \in Packets
          PROVE  packet'[p] = "processing" <=> p \in slots' \cup Range(waiting')
      <3>1. CASE p[1] # s
        BY <1>1, <1>3, <1>5, <1>6, <3>1 DEF SlotPerPacket, Submit
      <3>2. CASE p[1] = s
        <4>1. p = <<s, p[2]>> /\ p[2] \in 1..Size[s]
          BY <1>1, <3>2
        <4>2. p \notin slots \cup Range(waiting)
          BY <1>3, <1>4, <4>1 DEF SlotPerPacket
        <4>3. p \in Range(waiting') <=> p[2] <= Batch(s)
          BY <1>1, <1>5, <4>1, <4>2
        <4>4. packet'[p] = "processing" <=> p[2] <= Batch(s)
          BY <1>6, <4>1
        <4>5. QED
          BY <4>2, <4>3, <4>4 DEF Submit
      <3>3. QED
        BY <3>1, <3>2
    <2>2. \A i \in 1..Batch(s) : <<s, i>> \notin slots
      BY <1>1, <1>3, <1>4 DEF SlotPerPacket
    <2>3. slots' \cap Range(waiting') = {}
      BY <1>3, <1>5, <2>2 DEF SlotPerPacket, Submit
    <2>4. QED
      BY <1>5, <2>1, <2>3 DEF SlotPerPacket
  <1>9. SlotsBounded'
    BY <1>3 DEF SlotsBounded, Submit
  <1>10. \A t \in Submissions : Course(t)'
    <2>1. Course(s)'
      <3>1. phase'[s] = "gather" /\ rows'[s] = <<>>
        BY <1>3, <1>4 DEF TypeOK, Submit
      <3>2. \A i \in 1..Size[s] : i > Batch(s) <=> Status(s, i)' = "none"
        BY <1>1, <1>6 DEF Status
      <3>3. QED
        BY <3>1, <3>2 DEF Course, Batch
    <2>2. ASSUME NEW t \in Submissions \ {s} PROVE Course(t)'
      <3>1. /\ phase'[t] = phase[t] /\ rows'[t] = rows[t]
            /\ \A i \in 1..Size[t] : Status(t, i)' = Status(t, i)
        BY <1>1, <1>3, <1>6 DEF TypeOK, Submit, Status
      <3>2. QED
        BY <1>3, <3>1, CourseKept
    <2>3. QED
      BY <2>1, <2>2
  <1>11. RowsSettled' /\ ResultsFromRows'
    <2>1. \A t \in Submissions : Range(rows[t]) \subseteq Packets
      BY <1>3, RangeOfSeq DEF TypeOK
    <2>2. \A p \in Packets : packet[p] \in Settled => packet'[p] = packet[p]
      BY <1>1, <1>4, <1>6 DEF Settled
    <2>3. QED
      BY <1>3, <2>1, <2>2 DEF RowsSettled, ResultsFromRows, Submit, Settled
  <1>12. QED
    BY <1>7, <1>8, <1>9, <1>10, <1>11 DEF IInv

\* A packet that gets a slot leaves the queue, and is open before and after.
LEMMA AcquireStep ==
  ASSUME IInv, NEW p \in Packets, AcquireSlot(p)
  PROVE  IInv'
  <1>1. /\ TypeOK /\ SlotPerPacket /\ RowsSettled /\ ResultsFromRows /\ SlotsBounded
        /\ \A t \in Submissions : Course(t)
    BY DEF IInv
  <1>2. /\ waiting' \in Seq(Packets) /\ IsInjective(waiting')
        /\ Range(waiting') = Range(waiting) \ {p}
        /\ p \in Range(waiting)
    BY <1>1, TailFacts DEF TypeOK, SlotPerPacket, AcquireSlot
  <1>3. TypeOK'
    BY <1>1, <1>2 DEF TypeOK, AcquireSlot
  <1>4. SlotPerPacket'
    BY <1>1, <1>2 DEF SlotPerPacket, AcquireSlot
  <1>5. SlotsBounded'
    <2>1. Cardinality(slots) < MaxConcurrent /\ IsFiniteSet(slots) /\ slots' = slots \cup {p}
      BY <1>1 DEF SlotsBounded, AcquireSlot, SlotFree
    <2>2. /\ IsFiniteSet(slots') /\ Cardinality(slots) \in Nat
          /\ Cardinality(slots') <= Cardinality(slots) + 1
      BY <2>1, FS_AddElement, FS_CardinalityType
    <2>3. QED
      BY <2>1, <2>2, FS_CardinalityType, InterceptorAssumption DEF SlotsBounded
  <1>6. \A t \in Submissions : Course(t)'
    BY <1>1, CourseKept DEF AcquireSlot, Status
  <1>7. RowsSettled' /\ ResultsFromRows'
    BY <1>1 DEF RowsSettled, ResultsFromRows, AcquireSlot, Settled
  <1>8. QED
    BY <1>3, <1>4, <1>5, <1>6, <1>7 DEF IInv

\* A packet ends: a gathered one leaves the rest to the gather, one of the
\* overflow is the last that was submitted.
LEMMA EndsStep ==
  ASSUME IInv, NEW p \in Packets, NEW outcome \in {"ready", "failed", "raised"},
         Ends(p, outcome), media' \in SUBSET Packets
  PROVE  IInv'
  <1> DEFINE s == p[1]
             statuses == [packet EXCEPT ![p] = outcome]
  <1>1. /\ s \in Submissions /\ p[2] \in 1..Size[s] /\ p = <<s, p[2]>>
        /\ Size[s] \in Nat /\ Batch(s) \in 0..Size[s]
        /\ \A t \in Submissions : \A i \in 1..Size[t] : <<t, i>> \in Packets
    BY PacketFacts
  <1>2. /\ TypeOK /\ SlotPerPacket /\ RowsSettled /\ ResultsFromRows /\ SlotsBounded
        /\ \A t \in Submissions : Course(t)
    BY DEF IInv
  <1>3. /\ p \in slots /\ packet[p] = "processing" /\ slots' = slots \ {p}
        /\ p \notin Range(waiting)
    BY <1>2 DEF Ends, Leave, SlotPerPacket
  <1>4. /\ statuses \in [Packets -> Statuses]
        /\ statuses[p] = outcome
        /\ \A q \in Packets \ {p} : statuses[q] = packet[q]
    BY <1>2 DEF TypeOK, Statuses
  <1>5. \A q \in Packets : statuses[q] = "processing" <=> q \in slots' \cup Range(waiting)
    BY <1>2, <1>3, <1>4 DEF SlotPerPacket
  <1>6. \A q \in Packets : packet[q] \in Settled => statuses[q] = packet[q]
    BY <1>3, <1>4 DEF Settled
  <1>7. SlotsBounded' /\ slots' \in SUBSET Packets
    <2>1. IsFiniteSet(slots') /\ Cardinality(slots') <= Cardinality(slots)
      BY <1>2, <1>3, FS_Subset DEF SlotsBounded
    <2>2. Cardinality(slots') \in Nat /\ Cardinality(slots) \in Nat
      BY <1>2, <2>1, FS_CardinalityType DEF SlotsBounded
    <2>3. QED
      BY <1>2, <1>3, <2>1, <2>2, InterceptorAssumption DEF SlotsBounded, TypeOK
  \* In the overflow the open packet is the one after the rows.
  <1>8. ASSUME ~Gathered(p)
        PROVE  /\ phase[s] = "overflow"
               /\ p[2] - 1 \in Batch(s)..(Size[s] - 1)
               /\ rows[s] = Assets(s, p[2] - 1)
               /\ \A i \in 1..(p[2] - 1) : packet[<<s, i>>] \in Settled
               /\ \A i \in (p[2] + 1)..Size[s] : packet[<<s, i>>] = "none"
    <2>1. p[2] > Batch(s) /\ Status(s, p[2]) = "processing"
      BY <1>1, <1>3, <1>8 DEF Gathered, Status
    <2>2. phase[s] = "overflow"
      BY <1>1, <1>2, <2>1 DEF Course, TypeOK, Settled
    <2>3. PICK n \in Batch(s)..(Size[s] - 1) :
            /\ rows[s] = Assets(s, n)
            /\ \A i \in 1..n : Status(s, i) \in Settled
            /\ Status(s, n + 1) = "processing"
            /\ \A i \in (n + 2)..Size[s] : Status(s, i) = "none"
      BY <1>1, <1>2, <2>2 DEF Course
    <2>4. p[2] = n + 1
      BY <1>1, <2>1, <2>3 DEF Settled
    <2>5. QED
      BY <1>1, <2>2, <2>3, <2>4 DEF Status
  <1>9. CASE /\ ~Gathered(p) /\ outcome # "raised"
             /\ Continue(s, Append(rows[s], p), statuses)
    <2> DEFINE n == p[2]
    <2>1. Append(rows[s], p) = Assets(s, n) /\ n \in Batch(s)..Size[s]
      <3>1. n - 1 \in 0..(Size[s] - 1) /\ (n - 1) + 1 = n /\ n \in Batch(s)..Size[s]
        BY <1>1, <1>8, <1>9
      <3>2. Append(Assets(s, n - 1), <<s, (n - 1) + 1>>) = Assets(s, (n - 1) + 1)
        BY <1>1, <3>1, AssetsGrow
      <3>3. rows[s] = Assets(s, n - 1) /\ p = <<s, n>>
        BY <1>1, <1>8, <1>9
      <3> HIDE DEF s, n
      <3>4. QED
        BY <3>1, <3>2, <3>3
    <2>2. Range(rows[s]) \subseteq Range(Assets(s, n))
      <3>1. n - 1 \in 0..Size[s] /\ n \in 0..Size[s]
        BY <1>1
      <3>2. /\ Range(Assets(s, n - 1)) = {<<s, i>> : i \in 1..(n - 1)}
            /\ Range(Assets(s, n)) = {<<s, i>> : i \in 1..n}
        BY <1>1, <3>1, AssetsFacts
      <3>3. QED
        BY <1>1, <1>8, <1>9, <3>2
    <2>3. \A i \in 1..n : statuses[<<s, i>>] \in Settled
      <3>1. \A i \in 1..(n - 1) : <<s, i>> \in Packets \ {p} /\ packet[<<s, i>>] \in Settled
        BY <1>1, <1>8, <1>9
      <3>2. statuses[<<s, n>>] \in Settled
        BY <1>1, <1>4, <1>9 DEF Settled
      <3>3. QED
        BY <1>1, <1>4, <3>1, <3>2
    <2>4. \A i \in (n + 1)..Size[s] : statuses[<<s, i>>] = "none"
      BY <1>1, <1>4, <1>8, <1>9
    <2>5. \A q \in Packets : q[1] # s => statuses[q] = packet[q]
      BY <1>1, <1>4
    <2>6. s \in Submissions /\ slots' \in SUBSET slots /\ Continue(s, Assets(s, n), statuses)
      BY <1>1, <1>3, <1>9, <2>1
    <2>7. statuses \in [Packets -> Statuses]
      BY <1>4
    <2> HIDE DEF statuses, n, s
    <2>8. QED
      BY <1>5, <1>6, <2>1, <2>2, <2>3, <2>4, <2>5, <2>6, <2>7, ContinueStep
  <1>10. CASE /\ packet' = statuses
              /\ UNCHANGED <<waiting, rows, results>>
              /\ \/ Gathered(p) /\ phase' = phase
                 \/ ~Gathered(p) /\ phase' = [phase EXCEPT ![s] = "raised"]
    <2>1. TypeOK'
      BY <1>1, <1>2, <1>4, <1>7, <1>10 DEF TypeOK, Statuses
    <2>2. SlotPerPacket'
      <3>1. slots' \cap Range(waiting') = {} /\ IsInjective(waiting')
        BY <1>2, <1>3, <1>10 DEF SlotPerPacket
      <3>2. QED
        BY <1>5, <1>10, <3>1 DEF SlotPerPacket
    <2>3. \A t \in Submissions : Course(t)'
      <3>1. ASSUME NEW t \in Submissions \ {s} PROVE Course(t)'
        <4>1. /\ phase'[t] = phase[t] /\ rows'[t] = rows[t]
              /\ \A i \in 1..Size[t] : Status(t, i)' = Status(t, i)
          BY <1>1, <1>2, <1>4, <1>10 DEF TypeOK, Status
        <4>2. QED
          BY <1>2, <4>1, CourseKept
      <3>2. ASSUME Gathered(p), phase' = phase PROVE Course(s)'
        <4>1. p[2] <= Batch(s)
          BY <3>2 DEF Gathered
        <4>2. Status(s, p[2]) = "processing" /\ Status(s, p[2])' = outcome
          BY <1>1, <1>3, <1>4, <1>10 DEF Status
        <4>3. \A i \in 1..Size[s] : i # p[2] => Status(s, i)' = Status(s, i)
          BY <1>1, <1>4, <1>10 DEF Status
        <4>4. phase[s] \in {"gather", "raised"}
          <5>1. phase[s] \in {"new", "gather", "overflow", "returned", "raised"} /\ Course(s)
            BY <1>1, <1>2 DEF TypeOK
          <5>2. phase[s] # "new" /\ phase[s] # "returned"
            BY <1>1, <4>2, <5>1 DEF Course, Settled
          <5>3. ASSUME phase[s] = "overflow" PROVE FALSE
            <6>1. PICK n \in Batch(s)..(Size[s] - 1) : \A i \in 1..n : Status(s, i) \in Settled
              BY <5>1, <5>3 DEF Course
            <6>2. p[2] \in 1..n
              BY <1>1, <4>1, <6>1
            <6>3. QED
              BY <4>2, <6>1, <6>2 DEF Settled
          <5>4. QED
            BY <5>1, <5>2, <5>3
        <4>5. phase'[s] = phase[s] /\ rows'[s] = rows[s]
          BY <1>10, <3>2
        <4>6. QED
          BY <1>1, <1>2, <4>1, <4>2, <4>3, <4>4, <4>5 DEF Course, Batch
      <3>3. ASSUME ~Gathered(p), phase' = [phase EXCEPT ![s] = "raised"] PROVE Course(s)'
        <4>1. phase'[s] = "raised"
          BY <1>1, <1>2, <3>3 DEF TypeOK
        <4>2. \A i \in 1..Size[s] : Status(s, i)' # "processing"
          <5>1. \A i \in 1..Size[s] : i # p[2] => packet[<<s, i>>] # "processing"
            BY <1>1, <1>8, <3>3 DEF Settled
          <5>2. \A i \in 1..Size[s] : i # p[2] => packet'[<<s, i>>] = packet[<<s, i>>]
            BY <1>1, <1>4, <1>10
          <5>3. packet'[<<s, p[2]>>] # "processing"
            BY <1>1, <1>4, <1>10
          <5>4. QED
            BY <5>1, <5>2, <5>3 DEF Status
        <4>3. QED
          BY <4>1, <4>2 DEF Course
      <3>4. QED
        BY <1>1, <1>10, <3>1, <3>2, <3>3
    <2>4. RowsSettled' /\ ResultsFromRows'
      <3>1. \A t \in Submissions : Range(rows[t]) \subseteq Packets
        BY <1>2, RangeOfSeq DEF TypeOK
      <3>2. QED
        BY <1>2, <1>6, <1>10, <3>1 DEF RowsSettled, ResultsFromRows, Settled
    <2>5. QED
      BY <1>7, <2>1, <2>2, <2>3, <2>4 DEF IInv
  <1>11. QED
    BY <1>9, <1>10 DEF Ends

\* The gather hands over rows of settled packets, or is left when one raised.
LEMMA GatherStep ==
  ASSUME IInv, NEW s \in Submissions, Gather(s)
  PROVE  IInv'
  <1>1. /\ Size[s] \in Nat /\ Batch(s) \in 0..Size[s]
        /\ \A t \in Submissions : \A i \in 1..Size[t] : <<t, i>> \in Packets
    BY PacketFacts
  <1>2. /\ TypeOK /\ SlotPerPacket /\ RowsSettled /\ ResultsFromRows /\ SlotsBounded
        /\ \A t \in Submissions : Course(t)
    BY DEF IInv
  <1>3. /\ phase[s] = "gather" /\ rows[s] = <<>>
        /\ \A i \in 1..Size[s] : i > Batch(s) <=> packet[<<s, i>>] = "none"
    BY <1>2 DEF Gather, GatherReturns, GatherRaises, Course, Status
  <1>4. CASE GatherReturns(s)
    <2>1. Batch(s) \in Batch(s)..Size[s] /\ Range(rows[s]) \subseteq Range(Assets(s, Batch(s)))
      BY <1>1, <1>3 DEF Range
    <2>2. \A i \in 1..Batch(s) : packet[<<s, i>>] \in Settled
      BY <1>4 DEF GatherReturns, Settled
    <2>3. \A i \in (Batch(s) + 1)..Size[s] : packet[<<s, i>>] = "none"
      BY <1>1, <1>3
    <2>4. packet \in [Packets -> Statuses] /\ slots' \in SUBSET slots /\ media' \in SUBSET Packets
      BY <1>2, <1>4 DEF TypeOK, Statuses, GatherReturns
    <2>5. \A p \in Packets : packet[p] = "processing" <=> p \in slots' \cup Range(waiting)
      BY <1>2, <1>4 DEF SlotPerPacket, GatherReturns
    <2>6. Continue(s, Assets(s, Batch(s)), packet)
      BY <1>4 DEF GatherReturns
    <2>7. QED
      BY <2>1, <2>2, <2>3, <2>4, <2>5, <2>6, ContinueStep
  <1>5. CASE GatherRaises(s)
    <2>1. TypeOK'
      BY <1>2, <1>5 DEF TypeOK, GatherRaises
    <2>2. SlotPerPacket' /\ SlotsBounded' /\ RowsSettled' /\ ResultsFromRows'
      BY <1>2, <1>5 DEF SlotPerPacket, SlotsBounded, RowsSettled, ResultsFromRows, GatherRaises, Settled
    <2>3. Course(s)'
      <3>1. phase'[s] = "raised"
        BY <1>2, <1>5 DEF TypeOK, GatherRaises
      <3>2. \A i \in 1..Size[s] : i > Batch(s) => Status(s, i)' # "processing"
        BY <1>3, <1>5 DEF Status, GatherRaises
      <3>3. QED
        BY <3>1, <3>2 DEF Course, Batch
    <2>4. ASSUME NEW t \in Submissions \ {s} PROVE Course(t)'
      BY <1>2, <1>5, CourseKept DEF GatherRaises, Status, TypeOK
    <2>5. QED
      BY <2>1, <2>2, <2>3, <2>4 DEF IInv
  <1>6. QED
    BY <1>4, <1>5 DEF Gather

LEMMA InvStep == IInv /\ [Next]_vars => IInv'
  <1> SUFFICES ASSUME IInv, [Next]_vars PROVE IInv'
    OBVIOUS
  <1>1. /\ TypeOK /\ SlotPerPacket /\ RowsSettled /\ ResultsFromRows /\ SlotsBounded
        /\ \A t \in Submissions : Course(t)
    BY DEF IInv
  <1>2. ASSUME UNCHANGED <<phase, packet, waiting, slots, rows>>, media' \in SUBSET Packets,
               results' = results \/ results' = <<>>
        PROVE  IInv'
    <2>1. TypeOK' /\ SlotPerPacket'
      BY <1>1, <1>2, EmptySeq DEF TypeOK, SlotPerPacket
    <2>2. SlotsBounded' /\ RowsSettled' /\ ResultsFromRows'
      BY <1>1, <1>2 DEF SlotsBounded, RowsSettled, ResultsFromRows, Settled, Range
    <2>3. \A t \in Submissions : Course(t)'
      BY <1>1, <1>2, CourseKept DEF Status
    <2>4. QED
      BY <2>1, <2>2, <2>3 DEF IInv
  <1>3. CASE UNCHANGED vars
    BY <1>1, <1>2, <1>3 DEF vars, TypeOK
  <1>4. ASSUME NEW s \in Submissions, Submit(s) \/ Gather(s) PROVE IInv'
    BY <1>4, SubmitStep, GatherStep
  <1>5. ASSUME NEW p \in Packets, ProcessOne(p) PROVE IInv'
    <2>1. CASE AcquireSlot(p)
      BY <2>1, AcquireStep
    <2>2. ASSUME NEW outcome \in Failures \cup {"ready"}, Ends(p, outcome),
                 media' = media \/ media' = media \ {p}
          PROVE  IInv'
      <3>1. outcome \in {"ready", "failed", "raised"} /\ media' \in SUBSET Packets
        BY <1>1, <2>2 DEF Failures, TypeOK
      <3>2. QED
        BY <2>2, <3>1, EndsStep
    <2>3. QED
      BY <1>5, <2>1, <2>2 DEF ProcessOne, ProcessorReturns, ProcessorRaises, TimesOut
  <1>6. ASSUME NEW p \in Packets, OrphanExits(p) PROVE IInv'
    BY <1>1, <1>2, <1>6 DEF OrphanExits, TypeOK
  <1>7. CASE DrainResults
    BY <1>1, <1>2, <1>7 DEF DrainResults, TypeOK
  <1>8. QED
    BY <1>3, <1>4, <1>5, <1>6, <1>7 DEF Next

THEOREM Invariance == Spec => []IInv
  BY InvInit, InvStep, PTL DEF Spec

-----------------------------------------------------------------------------
(* What follows from it. *)

\* Every variable keeps its type, for any batches and any ceiling.
THEOREM TypeCorrectness == Spec => []TypeOK
  <1>1. IInv => TypeOK
    BY DEF IInv
  <1>2. QED
    BY <1>1, Invariance, PTL

\* The semaphore counts right: a packet is open exactly while it waits, once, or
\* holds a slot, however packets end.
THEOREM SlotsAreCounted == Spec => []SlotPerPacket
  <1>1. IInv => SlotPerPacket
    BY DEF IInv
  <1>2. QED
    BY <1>1, Invariance, PTL

\* When a packet of the overflow is open it is the only one of its submission.
THEOREM OverflowIsSequential == Spec => []OverflowOneAtATime
  <1>1. IInv => OverflowOneAtATime
    <2> SUFFICES ASSUME IInv, NEW s \in Submissions,
                        NEW p \in {x \in Packets : x[1] = s /\ packet[x] = "processing"},
                        ~Gathered(p)
                 PROVE  Cardinality({x \in Packets : x[1] = s /\ packet[x] = "processing"}) = 1
      BY DEF OverflowOneAtATime
    <2>1. /\ Size[s] \in Nat /\ Batch(s) \in 0..Size[s]
          /\ p[2] \in 1..Size[s] /\ p = <<s, p[2]>>
      BY PacketFacts
    <2>2. Course(s) /\ phase[s] \in {"new", "gather", "overflow", "returned", "raised"}
      BY DEF IInv, TypeOK
    <2>3. p[2] > Batch(s) /\ Status(s, p[2]) = "processing"
      BY <2>1 DEF Gathered, Status
    <2>4. phase[s] = "overflow"
      BY <2>1, <2>2, <2>3 DEF Course, Settled
    <2>5. PICK n \in Batch(s)..(Size[s] - 1) :
            /\ \A i \in 1..n : Status(s, i) \in Settled
            /\ \A i \in (n + 2)..Size[s] : Status(s, i) = "none"
      BY <2>2, <2>4 DEF Course
    <2>6. \A i \in 1..Size[s] : Status(s, i) = "processing" => i = n + 1
      BY <2>1, <2>5 DEF Settled
    <2>7. \A x \in Packets : x[1] = s /\ packet[x] = "processing" => x = <<s, n + 1>>
      BY <2>6, PacketFacts DEF Status
    <2>8. {x \in Packets : x[1] = s /\ packet[x] = "processing"} = {p}
      BY <2>7
    <2>9. QED
      BY <2>8, FS_Singleton
  <1>2. QED
    BY <1>1, Invariance, PTL

-----------------------------------------------------------------------------
(* The interceptor implements PacketGate. *)

\* A packet begins, or ends from under its slot.
Begun(p) == packet[p] = "none" /\ packet'[p] = "processing"
Ended(p) == packet[p] = "processing" /\ p \in slots /\ packet'[p] \in {"ready", "failed", "raised"}

\* How statuses, slots and rows move in a step.
LEMMA StepFacts ==
  ASSUME IInv, [Next]_vars
  PROVE  /\ \A p \in Packets : packet'[p] = packet[p] \/ Begun(p) \/ Ended(p)
         /\ slots' \subseteq slots \cup Range(waiting)
         /\ \A s \in Submissions : Range(rows[s]) \subseteq Range(rows'[s])
  <1>1. TypeOK /\ SlotPerPacket /\ \A t \in Submissions : Course(t)
    BY DEF IInv
  <1>2. /\ \A s \in Submissions : Size[s] \in Nat /\ Batch(s) \in 0..Size[s]
        /\ \A s \in Submissions : \A i \in 1..Size[s] : <<s, i>> \in Packets
        /\ \A p \in Packets : p[1] \in Submissions /\ p[2] \in 1..Size[p[1]] /\ p = <<p[1], p[2]>>
    BY PacketFacts
  <1>3. CASE UNCHANGED <<packet, rows>> /\ slots' \subseteq slots
    BY <1>3
  <1>4. ASSUME NEW s \in Submissions, Submit(s)
        PROVE  /\ \A p \in Packets : Begun(p) \/ packet'[p] = packet[p]
               /\ slots' = slots /\ rows' = rows
    <2>1. \A i \in 1..Size[s] : packet[<<s, i>>] = "none"
      BY <1>1, <1>4 DEF Submit, Course, Status
    <2>2. \A p \in Packets : p[1] = s => packet[p] = "none"
      BY <1>2, <2>1
    <2>3. QED
      BY <1>4, <2>2 DEF Submit, Begun
  <1>5. ASSUME NEW p \in Packets, AcquireSlot(p)
        PROVE  slots' \subseteq slots \cup Range(waiting) /\ packet' = packet /\ rows' = rows
    BY <1>1, <1>5, TailFacts DEF AcquireSlot, TypeOK, SlotPerPacket
  \* Going on opens at most the next packet, which had not begun.
  <1>6. ASSUME NEW s \in Submissions, NEW n \in 0..Size[s], NEW statuses \in [Packets -> Statuses],
               Continue(s, Assets(s, n), statuses),
               \A i \in (n + 1)..Size[s] : packet[<<s, i>>] = "none"
        PROVE  /\ \A p \in Packets : Begun(p) \/ packet'[p] = statuses[p]
               /\ rows' = [rows EXCEPT ![s] = Assets(s, n)]
    <2>1. Len(Assets(s, n)) = n
      BY AssetsFacts
    <2>2. Range(NextOne(s, n)) = {<<s, n + 1>>}
      BY DEF NextOne, Range
    <2>3. /\ rows' = [rows EXCEPT ![s] = Assets(s, n)]
          /\ \/ /\ n < Size[s]
                /\ packet' = [p \in Packets |-> IF p \in Range(NextOne(s, n)) THEN "processing" ELSE statuses[p]]
             \/ packet' = statuses
      BY <1>6, <2>1 DEF Continue
    <2>4. n < Size[s] => packet[<<s, n + 1>>] = "none"
      BY <1>2, <1>6
    <2>5. QED
      BY <2>2, <2>3, <2>4 DEF Begun
  <1>7. ASSUME NEW s \in Submissions, Gather(s)
        PROVE  /\ \A p \in Packets : Begun(p) \/ packet'[p] = packet[p]
               /\ slots' = slots
               /\ \A t \in Submissions : Range(rows[t]) \subseteq Range(rows'[t])
    <2>1. /\ phase[s] = "gather" /\ rows[s] = <<>>
          /\ \A i \in (Batch(s) + 1)..Size[s] : packet[<<s, i>>] = "none"
      BY <1>1, <1>2, <1>7 DEF Gather, GatherReturns, GatherRaises, Course, Status
    <2>2. CASE GatherReturns(s)
      <3>1. packet \in [Packets -> Statuses] /\ Batch(s) \in 0..Size[s]
        BY <1>1, <1>2 DEF TypeOK, Statuses
      <3>2. Continue(s, Assets(s, Batch(s)), packet) /\ slots' = slots
        BY <2>2 DEF GatherReturns
      <3>3. rows' = [rows EXCEPT ![s] = Assets(s, Batch(s))] /\ Range(rows[s]) = {}
        BY <1>6, <2>1, <3>1, <3>2 DEF Range
      <3>4. \A t \in Submissions : Range(rows[t]) \subseteq Range(rows'[t])
        BY <1>1, <3>3 DEF TypeOK
      <3>5. QED
        BY <1>6, <2>1, <3>1, <3>2, <3>4
    <2>3. CASE GatherRaises(s)
      <3>1. UNCHANGED <<packet, slots, rows>>
        BY <2>3 DEF GatherRaises
      <3>2. QED
        BY <3>1
    <2>4. QED
      BY <1>7, <2>2, <2>3 DEF Gather
  <1>8. ASSUME NEW p \in Packets, NEW outcome \in {"ready", "failed", "raised"}, Ends(p, outcome)
        PROVE  /\ \A q \in Packets : packet'[q] = packet[q] \/ Begun(q) \/ Ended(q)
               /\ slots' \subseteq slots
               /\ \A t \in Submissions : Range(rows[t]) \subseteq Range(rows'[t])
    <2> DEFINE s == p[1]
               statuses == [packet EXCEPT ![p] = outcome]
    <2>1. /\ p \in slots /\ packet[p] = "processing" /\ slots' \subseteq slots
          /\ statuses[p] = outcome /\ \A q \in Packets \ {p} : statuses[q] = packet[q]
          /\ statuses \in [Packets -> Statuses]
      BY <1>1, <1>8 DEF Ends, Leave, TypeOK, Statuses
    <2>2. CASE packet' = statuses /\ rows' = rows
      BY <2>1, <2>2 DEF Ended
    <2>3. CASE ~Gathered(p) /\ Continue(s, Append(rows[s], p), statuses)
      <3>1. s \in Submissions /\ p[2] \in 1..Size[s] /\ p = <<s, p[2]>> /\ Status(s, p[2]) = "processing"
        BY <1>2, <2>1 DEF Status
      <3>2. phase[s] = "overflow"
        <4>1. p[2] > Batch(s)
          BY <1>2, <2>3, <3>1 DEF Gathered
        <4>2. Course(s) /\ phase[s] \in {"new", "gather", "overflow", "returned", "raised"}
          BY <1>1, <3>1 DEF TypeOK
        <4> HIDE DEF s
        <4>3. QED
          BY <3>1, <4>1, <4>2 DEF Course, Settled
      <3>3. PICK n \in Batch(s)..(Size[s] - 1) :
              /\ rows[s] = Assets(s, n)
              /\ \A i \in 1..n : Status(s, i) \in Settled
              /\ Status(s, n + 1) = "processing"
              /\ \A i \in (n + 2)..Size[s] : Status(s, i) = "none"
        BY <1>1, <3>1, <3>2 DEF Course
      <3>4. p[2] = n + 1
        BY <1>2, <3>1, <3>3 DEF Settled
      <3>5. n \in 0..(Size[s] - 1) /\ n + 1 \in 0..Size[s] /\ n \in 0..Size[s]
        BY <1>2, <3>1, <3>3
      <3>6. Append(rows[s], p) = Assets(s, n + 1)
        BY <3>1, <3>3, <3>4, <3>5, AssetsGrow
      <3>7. \A i \in (n + 2)..Size[s] : packet[<<s, i>>] = "none"
        BY <3>3 DEF Status
      <3>8. Range(Assets(s, n)) \subseteq Range(Assets(s, n + 1))
        BY <3>1, <3>5, AssetsFacts
      <3>9. Continue(s, Assets(s, n + 1), statuses) /\ (n + 1) + 1 = n + 2
        BY <2>3, <3>5, <3>6
      <3> HIDE DEF statuses, s
      <3>10. /\ \A q \in Packets : Begun(q) \/ packet'[q] = statuses[q]
             /\ rows' = [rows EXCEPT ![s] = Assets(s, n + 1)]
        BY <1>6, <2>1, <3>1, <3>5, <3>7, <3>9
      <3>11. \A t \in Submissions : Range(rows[t]) \subseteq Range(rows'[t])
        BY <1>1, <3>3, <3>8, <3>10 DEF TypeOK
      <3>12. \A q \in Packets : packet'[q] = packet[q] \/ Begun(q) \/ Ended(q)
        <4>1. CASE packet'[p] = statuses[p]
          BY <2>1, <3>10, <4>1 DEF Ended
        <4>2. CASE packet'[p] # statuses[p]
          BY <2>1, <3>10, <4>2 DEF Begun
        <4>3. QED
          BY <4>1, <4>2
      <3>13. QED
        BY <2>1, <3>11, <3>12
    <2>4. QED
      BY <1>8, <2>2, <2>3 DEF Ends
  <1>9. QED
    <2>1. ASSUME NEW p \in Packets, ProcessOne(p)
          PROVE  \/ AcquireSlot(p)
                 \/ \E outcome \in {"ready", "failed", "raised"} : Ends(p, outcome)
      BY <2>1 DEF ProcessOne, ProcessorReturns, ProcessorRaises, TimesOut, Failures
    <2>2. ASSUME NEW p \in Packets, ProcessOne(p)
          PROVE  /\ \A q \in Packets : packet'[q] = packet[q] \/ Begun(q) \/ Ended(q)
                 /\ slots' \subseteq slots \cup Range(waiting)
                 /\ \A t \in Submissions : Range(rows[t]) \subseteq Range(rows'[t])
      BY <1>5, <1>8, <2>1, <2>2
    <2>3. ASSUME UNCHANGED <<packet, slots, rows>>
          PROVE  \A s \in Submissions : Range(rows[s]) \subseteq Range(rows'[s])
      BY <2>3
    <2>4. QED
      BY <1>3, <1>4, <1>7, <2>2, <2>3 DEF Next, vars, OrphanExits, DrainResults

\* Whatever submissions come and however packets end, what consumers see of the
\* interceptor is what PacketGate promises.
THEOREM GateIsImplemented == Spec => ImplementsGate
  <1> DEFINE shown == [p \in Packets |-> IF packet[p] = "raised" THEN "failed" ELSE packet[p]]
             out == Range(results) \cup UNION {Range(rows[s]) : s \in Submissions}
  <1>1. Init => Gate!Init
    BY DEF Init, Gate!Init, Range
  <1>2. IInv /\ IInv' /\ [Next]_vars => [Gate!Step]_<<shown, slots, out>>
    <2> SUFFICES ASSUME IInv, IInv', [Next]_vars PROVE Gate!Step
      BY DEF Gate!Step
    <2>1. /\ \A p \in Packets : packet'[p] = packet[p] \/ Begun(p) \/ Ended(p)
          /\ slots' \subseteq slots \cup Range(waiting)
          /\ \A s \in Submissions : Range(rows[s]) \subseteq Range(rows'[s])
      BY StepFacts
    <2>2. \A p \in Packets : shown'[p] \in Gate!Becomes(p)
      BY <2>1 DEF Begun, Ended, Gate!Becomes, Gate!Final, IInv, TypeOK
    <2>3. \A p \in slots' : shown'[p] = "processing" /\ shown[p] = "processing"
      BY <2>1 DEF IInv, SlotPerPacket, TypeOK
    <2>4. Gate!Cardinality(slots') <= MaxConcurrent
      <3>1. Cardinality(slots') <= MaxConcurrent
        BY DEF IInv, SlotsBounded
      <3>2. Gate!Cardinality(slots') = Cardinality(slots')
        BY DEF Gate!Cardinality, Cardinality
      <3>3. QED
        BY <3>1, <3>2
    <2>5. out \subseteq out'
      <3>1. \A p \in Range(results) : \E s \in Submissions : p \in Range(rows[s])
        BY DEF IInv, ResultsFromRows
      <3>2. QED
        BY <2>1, <3>1
    <2>6. \A p \in out' : shown'[p] \in Gate!Final
      <3>1. \A s \in Submissions : Range(rows'[s]) \subseteq Packets
        BY RangeOfSeq DEF IInv, TypeOK
      <3>2. /\ \A p \in Range(results') : \E s \in Submissions : p \in Range(rows'[s])
            /\ \A s \in Submissions : \A p \in Range(rows'[s]) : packet'[p] \in {"ready", "failed"}
        BY DEF IInv, ResultsFromRows, RowsSettled, Settled
      <3>3. \A p \in out' : p \in Packets /\ packet'[p] \in {"ready", "failed"}
        BY <3>1, <3>2
      <3>4. QED
        BY <3>3 DEF Gate!Final
    <2>7. QED
      BY <2>2, <2>3, <2>4, <2>5, <2>6 DEF Gate!Step
  <1>3. QED
    BY <1>1, <1>2, Invariance, PTL DEF Spec, ImplementsGate, Gate!Spec, Gate!gate
=============================================================================
