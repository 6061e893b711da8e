------------------------------ MODULE ConsultProofs ------------------------------
(***************************************************************************)
(* Theorems about what a session's recording goes through, for any         *)
(* recordings, queries, parts, pictures and paddings.                      *)
(*                                                                         *)
(* Timeline: rows are sorted by counting what comes before each, so what   *)
(* is ranked is the matches in a total order; a page is a piece of it, and *)
(* the pieces a client was given make up its beginning.                    *)
(*                                                                         *)
(* Media: a name of digits padded to a width orders like the number, by    *)
(* the first digit that differs; and at each turn of the loop what is kept *)
(* tells the frames before it and is captured or in the spool.             *)
(***************************************************************************)
EXTENDS MCConsult, DataLemmas

\* What is known of a row of a timeline.
LEMMA RowFacts ==
  ASSUME NEW seq \in Seq(Row)
  PROVE  /\ DOMAIN seq = 1..Len(seq) /\ Len(seq) \in Nat
         /\ \A i \in DOMAIN seq : /\ seq[i] \in Row /\ seq[i].epoch \in Nat
                                /\ seq[i].type \in {"transcript", "frame"}
  <1>1. /\ DOMAIN seq = 1..Len(seq) /\ Len(seq) \in Nat
        /\ \A i \in DOMAIN seq : seq[i] \in Row
    BY LenProperties, ElementOfSeq
  <1>2. QED
    BY <1>1 DEF Row

-----------------------------------------------------------------------------
(* Scores *)

\* What is known of a query the route lets through.
LEMMA AskedFacts ==
  ASSUME NEW q \in Asked
  PROVE  /\ q.tokens \in Seq(Tokens) /\ DOMAIN q.tokens = 1..Len(q.tokens)
         /\ Len(q.tokens) \in Nat \ {0} /\ IsFiniteSet(DOMAIN q.tokens)
         /\ \A i \in DOMAIN q.tokens : q.tokens[i] \in Tokens
         /\ q.fields \in SUBSET Fields /\ q.fields # {} /\ IsFiniteSet(q.fields)
         /\ q.signals \in SUBSET Signalled /\ q.follow \in BOOLEAN
         /\ q.horizon \in Nat /\ q.limit \in Int /\ q.mode \in {"and", "or"}
  <1>1. q.tokens \in Seq(Tokens) /\ q.tokens # <<>>
    BY DEF Asked
  <1>2. q.fields \in SUBSET Fields /\ q.fields # {}
    BY DEF Asked
  <1>3. /\ q.signals \in SUBSET Signalled /\ q.follow \in BOOLEAN
        /\ q.horizon \in Nat /\ q.limit \in Int /\ q.mode \in {"and", "or"}
    BY DEF Asked
  <1>4. /\ DOMAIN q.tokens = 1..Len(q.tokens) /\ Len(q.tokens) \in Nat
        /\ \A i \in DOMAIN q.tokens : q.tokens[i] \in Tokens
    BY <1>1, LenProperties, ElementOfSeq
  <1>5. Len(q.tokens) # 0
    <2> DEFINE s == q.tokens
    <2>1. s \in Seq(Tokens) /\ s # <<>>
      BY <1>1
    <2> HIDE DEF s
    <2>2. Len(s) # 0
      BY <2>1, EmptySeq
    <2>3. QED
      BY <2>2 DEF s
  <1>6. IsFiniteSet(DOMAIN q.tokens)
    BY <1>4, FS_Interval
  <1>7. IsFiniteSet(Fields)
    <2>1. IsFiniteSet({"text"})
      BY FS_Singleton
    <2>2. IsFiniteSet({"text"} \cup {"event"})
      BY <2>1, FS_AddElement
    <2>3. IsFiniteSet(({"text"} \cup {"event"}) \cup {"frame"})
      BY <2>2, FS_AddElement
    <2>4. IsFiniteSet((({"text"} \cup {"event"}) \cup {"frame"}) \cup {"source"})
      BY <2>3, FS_AddElement
    <2>5. Fields = (({"text"} \cup {"event"}) \cup {"frame"}) \cup {"source"}
      BY DEF Fields
    <2>6. QED
      BY <2>4, <2>5
  <1>8. IsFiniteSet(q.fields)
    BY <1>2, <1>7, FS_Subset
  <1>9. QED
    BY <1>1, <1>2, <1>3, <1>4, <1>5, <1>6, <1>8

Occurrences(row, q, f) == [i \in DOMAIN q.tokens |-> row.words[f][q.tokens[i]]]

\* The times the tokens of a query occur in a field, of which no hit is left out.
LEMMA TokensAreCounted ==
  ASSUME NEW row \in Row, NEW q \in Asked, NEW f \in Fields
  PROVE  /\ SumFunction(Occurrences(row, q, f)) \in Nat
         /\ Hits(row, q, f) # {} => SumFunction(Occurrences(row, q, f)) > 0
  <1> DEFINE D == DOMAIN q.tokens
             c == Occurrences(row, q, f)
  <1>1. /\ IsFiniteSet(D) /\ \A i \in D : q.tokens[i] \in Tokens
    BY AskedFacts
  <1>2. row.words \in [Fields -> [Tokens -> Nat]]
    BY DEF Row, Counts
  <1>3. row.words[f] \in [Tokens -> Nat]
    BY <1>2
  <1>4. DOMAIN c = D /\ \A i \in D : c[i] = row.words[f][q.tokens[i]] /\ c[i] \in Nat
    BY <1>1, <1>3 DEF Occurrences
  <1>5. SumFunction(c) = SumFunctionOnSet(c, D)
    BY <1>4 DEF SumFunction
  <1>6. Hits(row, q, f) = {i \in D : c[i] > 0}
    BY <1>4 DEF Hits
  <1> HIDE DEF c, D
  <1>7. SumFunctionOnSet(c, D) \in Nat
    BY <1>1, <1>4, SumIsNat
  <1>8. ASSUME Hits(row, q, f) # {} PROVE SumFunctionOnSet(c, D) > 0
    <2>1. PICK y \in D : c[y] > 0
      BY <1>6, <1>8
    <2>2. /\ SumFunctionOnSet(c, D \ {y}) \in Nat
          /\ SumFunctionOnSet(c, D) = c[y] + SumFunctionOnSet(c, D \ {y})
      <3>1. \A x \in D : c[x] \in Nat
        BY <1>4
      <3>2. QED
        BY <1>1, <3>1, SumOfMember
    <2>3. c[y] \in Nat
      BY <1>4
    <2> DEFINE rest == SumFunctionOnSet(c, D \ {y})
               first == c[y]
    <2> HIDE DEF rest, first
    <2>4. rest \in Nat /\ first \in Nat /\ first > 0 => first + rest > 0
      OBVIOUS
    <2>5. QED
      BY <2>1, <2>2, <2>3, <2>4 DEF rest, first
  <1>9. QED
    BY <1>5, <1>7, <1>8 DEF c

\* A field scores nothing less than zero, and something when it has a hit.
LEMMA FieldScoreFacts ==
  ASSUME NEW row \in Row, NEW q \in Asked, NEW f \in Fields
  PROVE  /\ FieldScore(row, q, f) \in Nat
         /\ Hits(row, q, f) # {} => FieldScore(row, q, f) > 0
  <1> DEFINE count == SumFunction(Occurrences(row, q, f))
             all == IF Hits(row, q, f) = DOMAIN q.tokens THEN 8 ELSE 0
             name == CASE f = "text" -> 4 [] f = "event" -> 2 [] OTHER -> 0
  <1>1. count \in Nat /\ (Hits(row, q, f) # {} => count > 0)
    BY TokensAreCounted
  <1>2. FieldScore(row, q, f) = IF count = 0 THEN 0 ELSE 10 * count + all + name
    BY DEF FieldScore, Occurrences
  <1>3. all \in Nat
    OBVIOUS
  <1>4. name \in Nat
    OBVIOUS
  <1> HIDE DEF count, all, name
  <1>5. QED
    BY <1>1, <1>2, <1>3, <1>4

\* The score is that of the best field or one more.
LEMMA ScoreFacts ==
  ASSUME NEW row \in Row, NEW q \in Asked
  PROVE  /\ Score(row, q) \in Nat
         /\ \A f \in q.fields : FieldScore(row, q, f) <= Score(row, q)
  <1> DEFINE g == [f \in q.fields |-> FieldScore(row, q, f)]
             T == {g[f] : f \in q.fields}
             best == Max(T)
  <1>1. q.fields \in SUBSET Fields /\ q.fields # {} /\ IsFiniteSet(q.fields)
    BY AskedFacts
  <1>2. \A f \in q.fields : g[f] = FieldScore(row, q, f) /\ g[f] \in Nat
    BY <1>1, FieldScoreFacts
  <1>3. {FieldScore(row, q, f) : f \in q.fields} = T
    OBVIOUS
  <1>4. Score(row, q) = IF best > 0 /\ row.type = "transcript" THEN best + 1 ELSE best
    BY <1>3 DEF Score
  <1>5. DOMAIN g = q.fields /\ g = [f \in q.fields |-> g[f]]
    OBVIOUS
  <1> HIDE DEF g
  <1>6. T \in SUBSET Nat /\ T \in SUBSET Int /\ T # {}
    BY <1>1, <1>2
  <1>7. IsFiniteSet(T)
    BY <1>1, <1>5, FiniteImage
  <1>8. \A f \in q.fields : g[f] \in T
    OBVIOUS
  <1> HIDE DEF T
  <1>9. best \in Nat /\ \A x \in T : x <= best
    <2>1. best \in T /\ \A x \in T : x <= best
      BY <1>6, <1>7, MaxFacts
    <2> HIDE DEF best
    <2>2. QED
      BY <1>6, <2>1
  <1> HIDE DEF best
  <1>10. Score(row, q) \in Nat /\ best <= Score(row, q)
    BY <1>4, <1>9
  <1>11. ASSUME NEW f \in q.fields PROVE FieldScore(row, q, f) <= Score(row, q)
    <2>1. g[f] <= best /\ g[f] \in Nat
      BY <1>2, <1>8, <1>9
    <2>2. g[f] = FieldScore(row, q, f)
      BY <1>2
    <2>3. QED
      BY <1>9, <1>10, <2>1, <2>2
  <1>12. QED
    BY <1>10, <1>11

\* The heart of FoundRowsScore: a row that is found has a hit, and a hit scores.
LEMMA FoundScores ==
  ASSUME NEW row \in Row, NEW q \in Asked, Found(row, q)
  PROVE  Score(row, q) > 0
  <1>1. Matched(row, q) # {}
    <2>1. Cardinality(Matched(row, q)) # 0
      <3> DEFINE n == Cardinality(Matched(row, q))
      <3>1. IF q.mode = "and" THEN n = Len(q.tokens) ELSE n > 0
        BY DEF Found
      <3>2. Len(q.tokens) # 0
        BY AskedFacts
      <3> HIDE DEF n
      <3>3. n # 0
        BY <3>1, <3>2
      <3>4. QED
        BY <3>3 DEF n
    <2>2. Cardinality({}) = 0
      BY FS_EmptySet
    <2>3. QED
      BY <2>1, <2>2
  <1>2. PICK f \in q.fields : Hits(row, q, f) # {}
    BY <1>1 DEF Matched
  <1>3. f \in Fields
    BY AskedFacts
  <1>4. FieldScore(row, q, f) \in Nat /\ FieldScore(row, q, f) > 0
    BY <1>2, <1>3, FieldScoreFacts
  <1>5. Score(row, q) \in Nat /\ FieldScore(row, q, f) <= Score(row, q)
    BY ScoreFacts
  <1>6. QED
    BY <1>4, <1>5

\* Follow-through is a number: it sums finitely many weights.
LEMMA FollowThroughType ==
  ASSUME NEW rows \in Seq(Row), NEW q \in Asked, NEW i
  PROVE  FollowThrough(rows, i, q) \in Nat
  <1> DEFINE S == Signals(rows, i, q)
             w == [j \in S |-> Weight[rows[j].signal]]
             sum == SumFunction(w)
  <1>1. S \in SUBSET DOMAIN rows /\ \A j \in S : rows[j].signal \in Signalled
    BY AskedFacts DEF Signals
  <1>2. IsFiniteSet(S)
    <2>1. IsFiniteSet(DOMAIN rows)
      BY RowFacts, FS_Interval
    <2> HIDE DEF S
    <2>2. QED
      BY <1>1, <2>1, FS_Subset
  <1>3. \A s \in Signalled : Weight[s] \in Nat
    BY DEF Weight, Signalled
  <1>4. DOMAIN w = S /\ \A j \in S : w[j] \in Nat
    BY <1>1, <1>3
  <1>5. FollowThrough(rows, i, q) = IF ~q.follow THEN 0 ELSE IF sum > 100 THEN 100 ELSE sum
    BY DEF FollowThrough
  <1> HIDE DEF w, S
  <1>6. sum = SumFunctionOnSet(w, S)
    BY <1>4 DEF SumFunction
  <1>7. SumFunctionOnSet(w, S) \in Nat
    BY <1>2, <1>4, SumIsNat
  <1> HIDE DEF sum
  <1>8. QED
    BY <1>5, <1>6, <1>7

-----------------------------------------------------------------------------
(* The rows of the timeline *)

Sorted(rows) == \A i, j \in 1..Len(rows) : i < j => rows[i].epoch <= rows[j].epoch

\* Every field of a row has a count for every token.
LEMMA WordsAreCounted ==
  ASSUME NEW says, NEW there \in SUBSET Fields, DOMAIN says = there,
         \A f \in there : says[f] \in Counts
  PROVE  Words(says) \in [Fields -> Counts]
  BY DEF Words, Silence, Counts

LEMMA TranscriptRowType == ASSUME NEW s \in Segments PROVE TranscriptRow(s) \in Row
  <1>1. /\ DOMAIN s.says = {"text", "source"} /\ {"text", "source"} \in SUBSET Fields
        /\ \A f \in {"text", "source"} : s.says[f] \in Counts
    BY DEF Segments, Fields
  <1>2. Words(s.says) \in [Fields -> Counts]
    BY <1>1, WordsAreCounted
  <1>3. Start(s) \in Nat /\ s.signal \in Signalled \cup {"none"}
    BY DEF Start, Segments
  <1>4. QED
    BY <1>2, <1>3 DEF TranscriptRow, Row

LEMMA EndType == ASSUME NEW s \in Segments PROVE End(s) \in Nat
  BY DEF End, Start, Segments

LEMMA FrameBaseType ==
  ASSUME NEW segments \in Seq(Segments) PROVE FrameBase(segments) \in Nat
  <1> DEFINE D == DOMAIN segments
             f == [i \in D |-> End(segments[i])]
             T == {0} \cup {f[i] : i \in D}
  <1>1. \A i \in D : f[i] \in Nat
    BY LenProperties, ElementOfSeq, EndType
  <1>2. T \in SUBSET Nat /\ T # {} /\ T = {0} \cup {End(segments[i]) : i \in D}
    BY <1>1
  <1>3. IsFiniteSet(T)
    <2> DEFINE V == {f[i] : i \in D}
    <2>1. IsFiniteSet(D)
      BY LenProperties, FS_Interval
    <2>2. DOMAIN f = D /\ f = [i \in D |-> f[i]]
      OBVIOUS
    <2> HIDE DEF D, f
    <2>3. IsFiniteSet(V)
      BY <2>1, <2>2, FiniteImage
    <2> HIDE DEF V
    <2>4. IsFiniteSet(V \cup {0})
      BY <2>3, FS_AddElement
    <2>5. T = V \cup {0}
      BY DEF V
    <2>6. QED
      BY <2>4, <2>5
  <1> HIDE DEF T
  <1>4. Max(T) \in Nat
    BY <1>2, <1>3, MaxFacts
  <1>5. QED
    BY <1>2, <1>4 DEF FrameBase

LEMMA FrameRowType ==
  ASSUME NEW e \in Frames, NEW i \in Nat, NEW base \in Nat PROVE FrameRow(e, i, base) \in Row
  <1>1. /\ DOMAIN e.says = {"event", "frame", "source"} /\ {"event", "frame", "source"} \in SUBSET Fields
        /\ \A f \in {"event", "frame", "source"} : e.says[f] \in Counts
    BY DEF Frames, Fields
  <1>2. Words(e.says) \in [Fields -> Counts]
    BY <1>1, WordsAreCounted
  <1>3. base + Index(e, i) * FrameStep \in Nat
    <2>1. Index(e, i) \in Nat
      BY DEF Frames, Index
    <2>2. FrameStep \in Nat
      BY ConsultAssumption
    <2>3. QED
      BY <2>1, <2>2
  <1>4. e.epoch \in Nat \cup {None} /\ e.signal \in Signalled \cup {"none"}
    BY DEF Frames
  <1>5. QED
    BY <1>2, <1>3, <1>4 DEF FrameRow, Row

\* Rows compared by Earlier, and by place when neither is, are in a total order.
LEMMA EarlierOrders ==
  ASSUME NEW seq \in Seq(Row)
  PROVE  LET first(i, j) == Earlier(seq[i], seq[j]) \/ (i < j /\ ~Earlier(seq[j], seq[i]))
         IN  Orders([i \in DOMAIN seq |-> {j \in (DOMAIN seq) \ {i} : first(j, i)}], DOMAIN seq)
  <1> DEFINE D == DOMAIN seq
             first(i, j) == Earlier(seq[i], seq[j]) \/ (i < j /\ ~Earlier(seq[j], seq[i]))
             before == [i \in D |-> {j \in D \ {i} : first(j, i)}]
  <1>1. D \in SUBSET Nat /\ \A i \in D : seq[i].epoch \in Nat /\ seq[i].type \in {"transcript", "frame"}
    BY RowFacts
  <1>2. \A i, j \in D : i \in before[j] <=> i # j /\ first(i, j)
    OBVIOUS
  <1>3. before \in [D -> SUBSET D]
    OBVIOUS
  <1> HIDE DEF before, D
  <1>4. \A i, j \in D : i # j => first(i, j) \/ first(j, i)
    BY <1>1 DEF Earlier
  <1>5. \A i, j, k \in D : i # j /\ j # k /\ first(i, j) /\ first(j, k) => i # k /\ first(i, k)
    BY <1>1 DEF Earlier
  <1> HIDE DEF first
  <1>6. Orders(before, D)
    BY <1>2, <1>3, <1>4, <1>5 DEF Orders
  <1>7. QED
    BY <1>6 DEF before, D, first

\* So are rows compared by their times.
LEMMA EpochOrders ==
  ASSUME NEW seq \in Seq(Row)
  PROVE  LET first(i, j) == ByEpoch(seq[i], seq[j]) \/ (i < j /\ ~ByEpoch(seq[j], seq[i]))
             before == [i \in DOMAIN seq |-> {j \in (DOMAIN seq) \ {i} : first(j, i)}]
         IN  /\ Orders(before, DOMAIN seq)
             /\ \A i, j \in DOMAIN seq : i \in before[j] => seq[i].epoch <= seq[j].epoch
  <1> DEFINE D == DOMAIN seq
             first(i, j) == ByEpoch(seq[i], seq[j]) \/ (i < j /\ ~ByEpoch(seq[j], seq[i]))
             before == [i \in D |-> {j \in D \ {i} : first(j, i)}]
  <1>1. D \in SUBSET Nat /\ \A i \in D : seq[i].epoch \in Nat
    BY RowFacts
  <1>2. \A i, j \in D : i \in before[j] <=> i # j /\ first(i, j)
    OBVIOUS
  <1>3. before \in [D -> SUBSET D]
    OBVIOUS
  <1> HIDE DEF before, D
  <1>4. \A i, j \in D : i # j => first(i, j) \/ first(j, i)
    BY <1>1 DEF ByEpoch
  <1>5. \A i, j, k \in D : i # j /\ j # k /\ first(i, j) /\ first(j, k) => i # k /\ first(i, k)
    BY <1>1 DEF ByEpoch
  <1>6. ASSUME NEW i \in D, NEW j \in D, first(i, j) PROVE seq[i].epoch <= seq[j].epoch
    <2>1. seq[i].epoch \in Nat /\ seq[j].epoch \in Nat
      BY <1>1
    <2>2. seq[i].epoch < seq[j].epoch \/ ~(seq[j].epoch < seq[i].epoch)
      BY <1>6 DEF ByEpoch
    <2>3. QED
      BY <2>1, <2>2
  <1> HIDE DEF first
  <1>7. Orders(before, D)
    BY <1>2, <1>3, <1>4, <1>5 DEF Orders
  <1>8. \A i, j \in D : i \in before[j] => seq[i].epoch <= seq[j].epoch
    BY <1>2, <1>6
  <1>9. QED
    BY <1>7, <1>8 DEF before, D, first

\* Sorting rows by Earlier leaves rows.
LEMMA SortedByEarlier ==
  ASSUME NEW seq \in Seq(Row)
  PROVE  SortBy(seq, Earlier) \in Seq(Row)
  <1> DEFINE first(i, j) == Earlier(seq[i], seq[j]) \/ (i < j /\ ~Earlier(seq[j], seq[i]))
             earlier == [i \in DOMAIN seq |-> {j \in (DOMAIN seq) \ {i} : first(j, i)}]
  <1>1. PICK before : before = earlier
    OBVIOUS
  <1> DEFINE all == [k \in 1..Len(seq) |-> seq[InOrder(DOMAIN seq, before)[k]]]
             r == SubSeq(all, 1, Len(seq))
  <1>2. SortBy(seq, Earlier) = r
    BY <1>1 DEF SortBy
  <1>3. Orders(before, DOMAIN seq)
    BY <1>1, EarlierOrders
  <1>4. \A k \in 1..Len(seq) : all[k] = seq[InOrder(DOMAIN seq, before)[k]]
    OBVIOUS
  <1> HIDE DEF earlier, first, all
  <1>5. r \in Seq(Row) /\ Len(r) = Len(seq) /\ Follows(r, seq, before)
    BY <1>3, <1>4, Rearranged
  <1> HIDE DEF r
  <1>6. QED
    BY <1>2, <1>5

\* Sorting rows by their times leaves rows in the order of their times.
LEMMA SortedByEpoch ==
  ASSUME NEW seq \in Seq(Row)
  PROVE  SortBy(seq, ByEpoch) \in Seq(Row) /\ Sorted(SortBy(seq, ByEpoch))
  <1> DEFINE first(i, j) == ByEpoch(seq[i], seq[j]) \/ (i < j /\ ~ByEpoch(seq[j], seq[i]))
             earlier == [i \in DOMAIN seq |-> {j \in (DOMAIN seq) \ {i} : first(j, i)}]
  <1>1. PICK before : before = earlier
    OBVIOUS
  <1> DEFINE all == [k \in 1..Len(seq) |-> seq[InOrder(DOMAIN seq, before)[k]]]
             r == SubSeq(all, 1, Len(seq))
  <1>2. SortBy(seq, ByEpoch) = r
    BY <1>1 DEF SortBy
  <1>3. /\ Orders(before, DOMAIN seq)
        /\ \A i, j \in DOMAIN seq : i \in before[j] => seq[i].epoch <= seq[j].epoch
    BY <1>1, EpochOrders
  <1>4. \A k \in 1..Len(seq) : all[k] = seq[InOrder(DOMAIN seq, before)[k]]
    OBVIOUS
  <1> HIDE DEF earlier, first, all
  <1>5. r \in Seq(Row) /\ Len(r) = Len(seq) /\ Follows(r, seq, before)
    BY <1>3, <1>4, Rearranged
  <1> HIDE DEF r
  <1>6. Sorted(r)
    <2> SUFFICES ASSUME NEW k \in 1..Len(seq), NEW m \in 1..Len(seq), k < m
                 PROVE  r[k].epoch <= r[m].epoch
      BY <1>5 DEF Sorted
    <2>1. Follows(r, seq, before)
      BY <1>5
    <2>2. \E i, j \in DOMAIN seq : r[k] = seq[i] /\ r[m] = seq[j] /\ i \in before[j]
      BY <2>1 DEF Follows
    <2>3. QED
      BY <1>3, <2>2
  <1>7. QED
    BY <1>2, <1>5, <1>6

\* What is extracted of a recording are rows.
LEMMA EventRowsType ==
  ASSUME NEW rec \in Recordings PROVE EventRows(rec) \in Seq(Row)
  <1> DEFINE base == FrameBase(rec.segments)
             said == [i \in DOMAIN rec.segments |-> TranscriptRow(rec.segments[i])]
             seen == [i \in DOMAIN rec.frames |-> FrameRow(rec.frames[i], i - 1, base)]
  <1>1. rec.segments \in Seq(Segments) /\ rec.frames \in Seq(Frames)
    BY ConsultAssumption
  <1>2. base \in Nat
    BY <1>1, FrameBaseType
  <1>3. said \in Seq(Row)
    <2> DEFINE D == 1..Len(rec.segments)
    <2>1. DOMAIN rec.segments = D /\ Len(rec.segments) \in Nat
          /\ \A i \in D : rec.segments[i] \in Segments
      BY <1>1, LenProperties, ElementOfSeq
    <2>2. \A i \in D : TranscriptRow(rec.segments[i]) \in Row
      BY <2>1, TranscriptRowType
    <2>3. QED
      BY <2>1, <2>2
  <1>4. seen \in Seq(Row)
    <2> DEFINE D == 1..Len(rec.frames)
    <2>1. DOMAIN rec.frames = D /\ Len(rec.frames) \in Nat
          /\ \A i \in D : rec.frames[i] \in Frames /\ i - 1 \in Nat
      BY <1>1, LenProperties, ElementOfSeq
    <2> HIDE DEF base
    <2>2. \A i \in D : FrameRow(rec.frames[i], i - 1, base) \in Row
      BY <1>2, <2>1, FrameRowType
    <2>3. QED
      BY <2>1, <2>2
  <1>5. EventRows(rec) = SortBy(said \o seen, Earlier)
    BY DEF EventRows
  <1> HIDE DEF said, seen
  <1>6. said \o seen \in Seq(Row)
    BY <1>3, <1>4, ConcatProperties
  <1>7. QED
    BY <1>5, <1>6, SortedByEarlier

\* What a stop-commit writes are rows in the order of their times.
LEMMA TimelineRowsSorted ==
  ASSUME NEW rec \in Recordings
  PROVE  TimelineRows(rec) \in Seq(Row) /\ Sorted(TimelineRows(rec)) /\ TimelineRows(rec) # None
  BY EventRowsType, SortedByEpoch, ConsultAssumption DEF TimelineRows

-----------------------------------------------------------------------------
(* The order of the matches *)

\* Keys of one length are in a strict total order.
LEMMA KeyOrder ==
  ASSUME NEW n \in Nat, NEW a1 \in [1..n -> Int], NEW b1 \in [1..n -> Int], NEW c1 \in [1..n -> Int]
  PROVE  /\ ~ KeyLess(a1, a1)
         /\ a1 # b1 => KeyLess(a1, b1) \/ KeyLess(b1, a1)
         /\ KeyLess(a1, b1) /\ KeyLess(b1, c1) => KeyLess(a1, c1)
  <1>1. ~ KeyLess(a1, a1)
    BY DEF KeyLess
  <1>2. ASSUME a1 # b1 PROVE KeyLess(a1, b1) \/ KeyLess(b1, a1)
    <2>1. PICK k \in 1..n : a1[k] # b1[k] /\ \A m \in 1..(k - 1) : a1[m] = b1[m]
      BY <1>2, FirstDifference
    <2>2. a1[k] < b1[k] \/ b1[k] < a1[k]
      BY <2>1
    <2>3. QED
      BY <2>1, <2>2 DEF KeyLess
  <1>3. ASSUME KeyLess(a1, b1), KeyLess(b1, c1) PROVE KeyLess(a1, c1)
    <2>1. PICK j \in 1..n : a1[j] < b1[j] /\ \A m \in 1..(j - 1) : a1[m] = b1[m]
      BY <1>3 DEF KeyLess
    <2>2. PICK k \in 1..n : b1[k] < c1[k] /\ \A m \in 1..(k - 1) : b1[m] = c1[m]
      BY <1>3 DEF KeyLess
    <2>3. CASE j <= k
      <3>1. a1[j] < c1[j]
        <4>1. j = k \/ j \in 1..(k - 1)
          BY <2>3
        <4>2. a1[j] \in Int /\ b1[j] \in Int /\ c1[j] \in Int
          OBVIOUS
        <4>3. QED
          BY <2>1, <2>2, <4>1, <4>2
      <3>2. \A m \in 1..(j - 1) : a1[m] = c1[m]
        <4>1. \A m \in 1..(j - 1) : m \in 1..(k - 1)
          BY <2>3
        <4>2. QED
          BY <2>1, <2>2, <4>1
      <3>3. QED
        BY <3>1, <3>2 DEF KeyLess
    <2>4. CASE k < j
      <3>1. a1[k] < c1[k]
        <4>1. k \in 1..(j - 1)
          BY <2>4
        <4>2. QED
          BY <2>1, <2>2, <4>1
      <3>2. \A m \in 1..(k - 1) : a1[m] = c1[m]
        <4>1. \A m \in 1..(k - 1) : m \in 1..(j - 1)
          BY <2>4
        <4>2. QED
          BY <2>1, <2>2, <4>1
      <3>3. QED
        BY <3>1, <3>2 DEF KeyLess
    <2>5. QED
      BY <2>3, <2>4
  <1>4. QED
    BY <1>1, <1>2, <1>3

\* The keys of a query are of one length, and no two rows have the same.
LEMMA SortKeyType ==
  ASSUME NEW rows \in Seq(Row), NEW q \in Asked
  PROVE  \E n \in Nat : /\ \A i \in DOMAIN rows : SortKey(rows, i, q) \in [1..n -> Int]
                        /\ \A i, j \in DOMAIN rows :
                             SortKey(rows, i, q) = SortKey(rows, j, q) => i = j
  <1>1. ASSUME NEW i \in DOMAIN rows
        PROVE  /\ Score(rows[i], q) \in Int /\ -Score(rows[i], q) \in Int
               /\ rows[i].epoch \in Int /\ -rows[i].epoch \in Int
               /\ -FollowThrough(rows, i, q) \in Int /\ i \in Int
    <2>1. rows[i] \in Row /\ rows[i].epoch \in Nat /\ i \in Nat
      BY RowFacts
    <2>2. Score(rows[i], q) \in Nat
      BY <2>1, ScoreFacts
    <2>3. FollowThrough(rows, i, q) \in Nat
      BY FollowThroughType
    <2>4. QED
      BY <2>1, <2>2, <2>3
  <1> DEFINE s(i) == Score(rows[i], q)
             t(i) == rows[i].epoch
             f(i) == FollowThrough(rows, i, q)
             u(i) == -s(i)
             v(i) == -t(i)
             g(i) == -f(i)
  <1>2. \A i \in DOMAIN rows : u(i) \in Int /\ t(i) \in Int /\ v(i) \in Int /\ g(i) \in Int /\ i \in Int
    BY <1>1
  <1>3. q.sort \in {"score_desc", "time_asc", "time_desc", "follow_through_desc"}
    BY DEF Asked
  <1>4. \A i : SortKey(rows, i, q)
                 = CASE q.sort = "score_desc" -> <<u(i), t(i), i>>
                     [] q.sort = "time_asc"   -> <<t(i), u(i), i>>
                     [] q.sort = "time_desc"  -> <<v(i), u(i), i>>
                     [] OTHER                 -> <<g(i), u(i), t(i), i>>
    BY DEF SortKey
  <1> HIDE DEF u, v, g, t
  <1>5. CASE q.sort = "score_desc"
    <2>1. \A i : SortKey(rows, i, q) = <<u(i), t(i), i>>
      BY <1>4, <1>5
    <2>2. \A i \in DOMAIN rows : SortKey(rows, i, q) \in [1..3 -> Int] /\ SortKey(rows, i, q)[3] = i
      BY <1>2, <2>1
    <2>3. QED
      BY <2>2
  <1>6. CASE q.sort = "time_asc"
    <2>1. \A i : SortKey(rows, i, q) = <<t(i), u(i), i>>
      BY <1>4, <1>6
    <2>2. \A i \in DOMAIN rows : SortKey(rows, i, q) \in [1..3 -> Int] /\ SortKey(rows, i, q)[3] = i
      BY <1>2, <2>1
    <2>3. QED
      BY <2>2
  <1>7. CASE q.sort = "time_desc"
    <2>1. \A i : SortKey(rows, i, q) = <<v(i), u(i), i>>
      BY <1>4, <1>7
    <2>2. \A i \in DOMAIN rows : SortKey(rows, i, q) \in [1..3 -> Int] /\ SortKey(rows, i, q)[3] = i
      BY <1>2, <2>1
    <2>3. QED
      BY <2>2
  <1>8. CASE q.sort = "follow_through_desc"
    <2>1. \A i : SortKey(rows, i, q) = <<g(i), u(i), t(i), i>>
      BY <1>4, <1>8
    <2>2. \A i \in DOMAIN rows : SortKey(rows, i, q) \in [1..4 -> Int] /\ SortKey(rows, i, q)[4] = i
      BY <1>2, <2>1
    <2>3. QED
      BY <2>2
  <1>9. QED
    BY <1>3, <1>5, <1>6, <1>7, <1>8

\* Every match is in it once, and each comes before those its key is less than.
IsRanking(s, rows, q) ==
  /\ s \in Seq(DOMAIN rows)
  /\ \A i \in DOMAIN rows : Match(rows, i, q) <=> \E k \in 1..Len(s) : s[k] = i
  /\ \A k, m \in 1..Len(s) :
       k < m => /\ s[k] # s[m]
                /\ KeyLess(SortKey(rows, s[k], q), SortKey(rows, s[m], q))

\* What the route ranks is a ranking, whatever the sort.
LEMMA RankedIsRanking ==
  ASSUME NEW rows \in Seq(Row), NEW q \in Asked PROVE IsRanking(Ranked(rows, q), rows, q)
  <1> DEFINE keys == Keys(rows, q)
             S == DOMAIN keys
             first == [i \in S |-> {j \in S : KeyLess(keys[j], keys[i])}]
  <1>1. S \in SUBSET DOMAIN rows /\ \A i \in S : keys[i] = SortKey(rows, i, q)
    BY DEF Keys
  <1>2. IsFiniteSet(S)
    <2>1. IsFiniteSet(DOMAIN rows)
      BY RowFacts, FS_Interval
    <2> HIDE DEF S
    <2>2. QED
      BY <1>1, <2>1, FS_Subset
  <1>3. PICK n \in Nat : /\ \A i \in DOMAIN rows : SortKey(rows, i, q) \in [1..n -> Int]
                         /\ \A i, j \in DOMAIN rows :
                              SortKey(rows, i, q) = SortKey(rows, j, q) => i = j
    BY SortKeyType
  <1>4. /\ \A i \in S : keys[i] \in [1..n -> Int]
        /\ \A i, j \in S : keys[i] = keys[j] => i = j
    <2> HIDE DEF S, keys
    <2>1. QED
      BY <1>1, <1>3
  <1>5. Ranked(rows, q) = InOrder(S, first)
    BY DEF Ranked, ByKey
  <1>6. /\ first \in [S -> SUBSET S]
        /\ \A i, j \in S : i \in first[j] <=> KeyLess(keys[i], keys[j])
    OBVIOUS
  <1> HIDE DEF first, S, keys
  <1>7. Orders(first, S)
    <2>1. \A i \in S : i \notin first[i]
      BY <1>4, <1>6, KeyOrder
    <2>2. \A i, j \in S : i # j => i \in first[j] \/ j \in first[i]
      BY <1>4, <1>6, KeyOrder
    <2>3. ASSUME NEW i \in S, NEW j \in S, i \in first[j], NEW k \in first[i] PROVE k \in first[j]
      <3>1. k \in S
        BY <1>6, <2>3
      <3>2. KeyLess(keys[k], keys[i]) /\ KeyLess(keys[i], keys[j])
        BY <1>6, <2>3, <3>1
      <3>3. KeyLess(keys[k], keys[j])
        BY <1>4, <3>1, <3>2, KeyOrder
      <3>4. QED
        BY <1>6, <3>1, <3>3
    <2>4. QED
      BY <1>6, <2>1, <2>2, <2>3 DEF Orders
  <1>8. PICK r : r = InOrder(S, first)
    OBVIOUS
  <1>9. PICK c \in Nat : c = Cardinality(S)
    BY <1>2, FS_CardinalityType
  <1>10. /\ r \in Seq(S) /\ Len(r) = c /\ \A i \in S : \E k \in 1..c : r[k] = i
         /\ \A k, m \in 1..c : k < m => r[k] \in first[r[m]]
    BY <1>2, <1>7, <1>8, <1>9, InOrderIsSorted
  <1>11. \A k \in 1..c : r[k] \in S
    BY <1>10, ElementOfSeq
  <1>12. r \in Seq(DOMAIN rows)
    BY <1>1, <1>10, SeqMonotonic
  <1>13. \A i \in DOMAIN rows : Match(rows, i, q) <=> \E k \in 1..c : r[k] = i
    BY <1>10, <1>11 DEF S, keys, Keys
  <1>14. ASSUME NEW k \in 1..c, NEW m \in 1..c, k < m
         PROVE  r[k] # r[m] /\ KeyLess(SortKey(rows, r[k], q), SortKey(rows, r[m], q))
    <2>1. r[k] \in S /\ r[m] \in S /\ r[k] \in first[r[m]]
      BY <1>10, <1>11, <1>14
    <2>2. KeyLess(keys[r[k]], keys[r[m]])
      BY <1>6, <2>1
    <2>3. r[k] # r[m]
      BY <1>7, <2>1 DEF Orders
    <2>4. QED
      BY <1>1, <2>1, <2>2, <2>3
  <1>15. QED
    BY <1>5, <1>8, <1>10, <1>12, <1>13, <1>14 DEF IsRanking

\* Its members are rows of the timeline.
LEMMA RankedType ==
  ASSUME NEW rows \in Seq(Row), NEW q \in Asked
  PROVE  Ranked(rows, q) \in Seq(DOMAIN rows) /\ Len(Ranked(rows, q)) \in Nat
  BY RankedIsRanking, LenProperties DEF IsRanking

-----------------------------------------------------------------------------
(* Pages *)

\* A page has room for a row, whatever the limit asked for.
LEMMA LimitFacts ==
  ASSUME NEW q \in Asked PROVE EffectiveLimit(q) \in Nat \ {0}
  <1> DEFINE m == Min({q.limit, MaxPage})
  <1>1. q.limit \in Int /\ MaxPage \in Int
    BY AskedFacts, ConsultAssumption
  <1>2. m = IF q.limit <= MaxPage THEN q.limit ELSE MaxPage
    BY <1>1, OfTwo
  <1> HIDE DEF m
  <1>3. m \in Int
    BY <1>1, <1>2
  <1>4. Max({1, m}) = IF 1 <= m THEN m ELSE 1
    BY <1>3, OfTwo
  <1>5. QED
    BY <1>3, <1>4 DEF EffectiveLimit, m

\* What was given so far and a page are what is ranked up to the end of the page.
LEMMA PagesMeet ==
  ASSUME NEW T, NEW r \in Seq(T), NEW m \in Nat, m <= Len(r), NEW l \in Nat \ {0}
  PROVE  LET e == Min({m + l, Len(r)})
         IN  e \in Nat /\ e <= Len(r) /\ (m + l <= Len(r) => e = m + l)
             /\ (Len(r) <= m + l => e = Len(r))
             /\ SubSeq(r, 1, m) \o SubSeq(r, m + 1, e) = SubSeq(r, 1, e)
             /\ SubSeq(r, 1, Len(r)) = r
  <1> DEFINE n == Len(r)
             e == Min({m + l, n})
  <1>1. n \in Nat /\ m <= n
    BY LenProperties
  <1> HIDE DEF n
  <1>2. e = IF m + l <= n THEN m + l ELSE n
    BY <1>1, OfTwo
  <1> HIDE DEF e
  <1>3. e \in Nat /\ e <= n /\ m <= e /\ (m + l <= n => e = m + l) /\ (n <= m + l => e = n)
    BY <1>1, <1>2
  <1>4. SubSeq(r, 1, m) \o SubSeq(r, m + 1, e) = SubSeq(r, 1, e)
    <2>1. 1 \in 1..(n + 1) /\ e \in (1 - 1)..n /\ m \in (1 - 1)..e
      BY <1>1, <1>3
    <2>2. QED
      BY <2>1, ConcatAdjacentSubSeq DEF n
  <1>5. SubSeq(r, 1, n) = r
    BY SubSeqFull DEF n
  <1>6. QED
    BY <1>3, <1>4, <1>5 DEF n, e

-----------------------------------------------------------------------------
(* The invariant *)

\* The timeline is in the order of its times, a client follows a query that is not
\* refused in a timeline that exists, and what it was given since it asked is what
\* is ranked, up to the page it asks for next.
ConsultInv ==
  /\ timeline = None \/ (timeline \in Seq(Row) /\ Sorted(timeline))
  /\ query \in Queries \cup {None}
  /\ offset \in Nat \cup {None}
  /\ stable \in BOOLEAN
  /\ query # None => timeline # None
  /\ offset # None \/ stable => query # None
  /\ ~stable => got = <<>>
  /\ stable /\ offset # None =>
       /\ offset <= Len(Ranked(timeline, query))
       /\ got = SubSeq(Ranked(timeline, query), 1, offset)
  /\ stable /\ offset = None => got = Ranked(timeline, query)

LEMMA NoneIsNot == None \notin Nat /\ None \notin Queries /\ None \notin Seq(Row)
  BY ConsultAssumption

LEMMA ConsultInit == Init => ConsultInv
  BY DEF Init, ConsultInv

\* A new timeline makes what was given so far stale.
LEMMA ConsultPublish ==
  ASSUME ConsultInv, NEW rec \in Recordings, Publish(rec) PROVE ConsultInv'
  <1>1. timeline' \in Seq(Row) /\ Sorted(timeline') /\ timeline' # None
    BY TimelineRowsSorted DEF Publish
  <1>2. stable' = FALSE /\ got' = <<>> /\ query' = query /\ offset' = offset
    BY DEF Publish
  <1>3. QED
    BY <1>1, <1>2 DEF ConsultInv

\* A new query starts at the first page.
LEMMA ConsultAsk ==
  ASSUME ConsultInv, NEW q \in Queries, Ask(q) PROVE ConsultInv'
  <1>1. /\ timeline # None /\ query' = q /\ offset' = 0 /\ got' = <<>> /\ stable' = TRUE
        /\ timeline' = timeline
    BY DEF Ask
  <1>2. timeline \in Seq(Row) /\ Sorted(timeline) /\ q \in Asked /\ q # None
    BY <1>1, NoneIsNot, ConsultAssumption DEF ConsultInv
  <1> DEFINE r == Ranked(timeline, q)
  <1>3. Ranked(timeline', query') = r
    BY <1>1
  <1>4. r \in Seq(DOMAIN timeline) /\ Len(r) \in Nat
    BY <1>2, RankedType
  <1> HIDE DEF r
  <1>5. SubSeq(r, 1, 0) = <<>>
    BY <1>4, SubSeqEmpty
  <1>6. 0 <= Len(r) /\ 0 # None /\ 0 \in Nat
    BY <1>4, NoneIsNot
  <1>7. QED
    BY <1>1, <1>2, <1>3, <1>5, <1>6 DEF ConsultInv

\* A page continues where the last one ended, in the same ranking.
LEMMA ConsultNextPage ==
  ASSUME ConsultInv, NextPage PROVE ConsultInv'
  <1> DEFINE r == Ranked(timeline, query)
             l == EffectiveLimit(query)
             e == Min({offset + l, Len(r)})
  <1>1. /\ offset # None
        /\ got' = (IF stable THEN got \o Page(r, query) ELSE got)
        /\ offset' = NextOffset(r, query)
        /\ timeline' = timeline /\ query' = query /\ stable' = stable
    BY DEF NextPage, Ranked
  <1>2. /\ timeline \in Seq(Row) /\ Sorted(timeline) /\ timeline # None
        /\ query \in Asked /\ query \in Queries /\ query # None /\ offset \in Nat
    BY <1>1, ConsultAssumption DEF ConsultInv
  <1>3. r \in Seq(DOMAIN timeline) /\ Len(r) \in Nat
    BY <1>2, RankedType
  <1>4. l \in Nat \ {0}
    BY <1>2, LimitFacts
  <1>5. Ranked(timeline', query') = r
    BY <1>1
  <1>6. offset' = IF offset + l < Len(r) THEN offset + l ELSE None
    BY <1>1 DEF NextOffset
  <1>7. Page(r, query) = SubSeq(r, offset + 1, e)
    BY DEF Page
  <1>8. stable => offset <= Len(r) /\ got = SubSeq(r, 1, offset)
    BY <1>1 DEF ConsultInv
  <1> HIDE DEF r, l, e
  <1>9. offset' \in Nat \cup {None} /\ (offset + l < Len(r) <=> offset' # None)
    BY <1>2, <1>3, <1>4, <1>6, NoneIsNot
  <1>10. ASSUME stable
         PROVE  /\ offset + l < Len(r) => offset + l <= Len(r) /\ got' = SubSeq(r, 1, offset + l)
                /\ ~(offset + l < Len(r)) => got' = r
    <2>1. got' = SubSeq(r, 1, offset) \o SubSeq(r, offset + 1, e)
      BY <1>1, <1>7, <1>8, <1>10
    <2>2. offset <= Len(r)
      BY <1>8, <1>10
    <2>3. /\ (offset + l <= Len(r) => e = offset + l) /\ (Len(r) <= offset + l => e = Len(r))
          /\ SubSeq(r, 1, offset) \o SubSeq(r, offset + 1, e) = SubSeq(r, 1, e)
          /\ SubSeq(r, 1, Len(r)) = r
      BY <1>2, <1>3, <1>4, <2>2, PagesMeet DEF e
    <2>4. got' = SubSeq(r, 1, e)
      BY <2>1, <2>3
    <2> DEFINE n == Len(r)
    <2> HIDE DEF n
    <2>5. n \in Nat /\ offset \in Nat /\ l \in Nat
      BY <1>2, <1>3, <1>4 DEF n
    <2>6. offset + l < n => offset + l <= n
      BY <2>5
    <2>7. ~(offset + l < n) => n <= offset + l
      BY <2>5
    <2>8. QED
      BY <2>3, <2>4, <2>6, <2>7 DEF n
  <1>11. /\ stable' /\ offset' # None => offset' <= Len(r) /\ got' = SubSeq(r, 1, offset')
         /\ stable' /\ offset' = None => got' = r
    <2>1. CASE offset + l < Len(r)
      <3>1. offset' = offset + l /\ offset' # None
        BY <1>6, <1>9, <2>1
      <3>2. QED
        BY <1>1, <1>10, <2>1, <3>1
    <2>2. CASE ~(offset + l < Len(r))
      <3>1. offset' = None
        BY <1>6, <2>2
      <3>2. QED
        BY <1>1, <1>10, <2>2, <3>1
    <2>3. QED
      BY <2>1, <2>2
  <1>12. ~stable' => got' = <<>>
    BY <1>1 DEF ConsultInv
  <1>13. stable' \in BOOLEAN
    BY <1>1 DEF ConsultInv
  <1>14. QED
    BY <1>1, <1>2, <1>5, <1>9, <1>11, <1>12, <1>13 DEF ConsultInv

LEMMA ConsultStutter == ASSUME ConsultInv, UNCHANGED vars PROVE ConsultInv'
  <1>1. /\ timeline' = timeline /\ query' = query /\ offset' = offset /\ got' = got
        /\ stable' = stable
    BY DEF vars
  <1>2. Ranked(timeline', query') = Ranked(timeline, query)
    BY <1>1
  <1>3. Sorted(timeline') <=> Sorted(timeline)
    BY <1>1
  <1>4. QED
    BY <1>1, <1>2, <1>3 DEF ConsultInv

LEMMA ConsultStep == ConsultInv /\ [Next]_vars => ConsultInv'
  <1> SUFFICES ASSUME ConsultInv, [Next]_vars PROVE ConsultInv'
    OBVIOUS
  <1>1. CASE \E rec \in Recordings : Publish(rec)
    BY <1>1, ConsultPublish
  <1>2. CASE \E q \in Queries : Ask(q)
    BY <1>2, ConsultAsk
  <1>3. CASE NextPage
    BY <1>3, ConsultNextPage
  <1>4. CASE UNCHANGED vars
    BY <1>4, ConsultStutter
  <1>5. QED
    BY <1>1, <1>2, <1>3, <1>4 DEF Next

-----------------------------------------------------------------------------
(* What follows from the invariant *)

LEMMA InvGivesType == ConsultInv => TypeOK
  <1> SUFFICES ASSUME ConsultInv PROVE TypeOK
    OBVIOUS
  <1>1. timeline # None => Range(got) \subseteq DOMAIN timeline
    <2> SUFFICES ASSUME timeline # None PROVE got \in Seq(DOMAIN timeline)
      <3>1. \A s \in Seq(DOMAIN timeline) : Range(s) \subseteq DOMAIN timeline
        BY RangeOfSeq DEF Range
      <3>2. QED
        BY <3>1
    <2>1. CASE ~stable
      <3>1. got = <<>>
        BY <2>1 DEF ConsultInv
      <3>2. QED
        BY <3>1
    <2>2. CASE stable
      <3> DEFINE r == Ranked(timeline, query)
      <3>1. timeline \in Seq(Row) /\ query \in Asked
        BY <2>2, ConsultAssumption DEF ConsultInv
      <3>2. r \in Seq(DOMAIN timeline) /\ Len(r) \in Nat
        BY <3>1, RankedType
      <3>3. CASE offset = None
        BY <2>2, <3>2, <3>3 DEF ConsultInv
      <3>4. CASE offset # None
        <4>1. offset \in Nat /\ offset <= Len(r) /\ got = SubSeq(r, 1, offset)
          BY <2>2, <3>4 DEF ConsultInv
        <4> HIDE DEF r
        <4>2. \A i \in 1..offset : r[i] \in DOMAIN timeline
          BY <3>2, <4>1, ElementOfSeq
        <4>3. SubSeq(r, 1, offset) \in Seq(DOMAIN timeline)
          BY <4>1, <4>2, SubSeqProperties
        <4>4. QED
          BY <4>1, <4>3
      <3>5. QED
        BY <3>3, <3>4
    <2>3. QED
      BY <2>1, <2>2 DEF ConsultInv
  <1>2. timeline = None \/ \A i \in DOMAIN timeline : timeline[i] \in Row
    BY RowFacts DEF ConsultInv
  <1>3. QED
    BY <1>1, <1>2 DEF ConsultInv, TypeOK

LEMMA InvGivesScores == ConsultInv => FoundRowsScore
  <1> SUFFICES ASSUME ConsultInv, query # None, NEW i \in DOMAIN timeline, Found(timeline[i], query)
               PROVE  Score(timeline[i], query) > 0
    BY DEF FoundRowsScore
  <1>1. timeline \in Seq(Row) /\ query \in Asked
    BY ConsultAssumption DEF ConsultInv
  <1>2. timeline[i] \in Row
    BY <1>1, RowFacts
  <1>3. QED
    BY <1>1, <1>2, FoundScores

\* Of values in order, those at the last smaller place and at the first greater
\* place are the nearest.
LEMMA NearestInOrder ==
  ASSUME NEW D \in SUBSET Nat, IsFiniteSet(D), NEW v \in [D -> Nat],
         \A k, m \in D : k < m => v[k] <= v[m], NEW i \in D, NEW j \in D
  PROVE  /\ LET before == {k \in D : v[k] < v[i]}
            IN  before # {} => Max(before) \in D /\ v[Max(before)] < v[i]
                               /\ ~(v[Max(before)] < v[j] /\ v[j] < v[i])
         /\ LET after == {k \in D : v[k] > v[i]}
            IN  after # {} => Min(after) \in D /\ v[i] < v[Min(after)]
                              /\ ~(v[i] < v[j] /\ v[j] < v[Min(after)])
  <1> DEFINE before == {k \in D : v[k] < v[i]}
             after == {k \in D : v[k] > v[i]}
  <1>1. ASSUME before # {}
        PROVE  /\ Max(before) \in D /\ v[Max(before)] < v[i]
               /\ ~(v[Max(before)] < v[j] /\ v[j] < v[i])
    <2>1. before \in SUBSET D
      OBVIOUS
    <2>2. before \in SUBSET Int
      <3> HIDE DEF before
      <3>1. QED
        BY <2>1
    <2> HIDE DEF before
    <2>3. IsFiniteSet(before)
      BY <2>1, FS_Subset
    <2>4. PICK c : c = Max(before)
      OBVIOUS
    <2>5. c \in before /\ \A k \in before : k <= c
      BY <1>1, <2>2, <2>3, <2>4, MaxFacts
    <2>6. c \in D /\ v[c] < v[i] /\ (v[j] < v[i] => j <= c)
      BY <2>5 DEF before
    <2>7. v[j] < v[i] => v[j] <= v[c]
      <3>1. j = c \/ j < c \/ ~(j <= c)
        BY <2>6
      <3>2. QED
        BY <2>6, <3>1
    <2>8. v[j] \in Nat /\ v[c] \in Nat /\ v[i] \in Nat
      BY <2>6
    <2>9. QED
      BY <2>4, <2>6, <2>7, <2>8
  <1>2. ASSUME after # {}
        PROVE  /\ Min(after) \in D /\ v[i] < v[Min(after)]
               /\ ~(v[i] < v[j] /\ v[j] < v[Min(after)])
    <2>1. after \in SUBSET Nat
      OBVIOUS
    <2> HIDE DEF after
    <2>2. PICK c : c = Min(after)
      OBVIOUS
    <2>3. c \in after /\ \A k \in after : c <= k
      BY <1>2, <2>1, <2>2, MinFacts
    <2>4. c \in D /\ v[c] > v[i] /\ (v[j] > v[i] => c <= j)
      BY <2>3 DEF after
    <2>5. v[j] > v[i] => v[c] <= v[j]
      <3>1. j = c \/ c < j \/ ~(c <= j)
        BY <2>4
      <3>2. QED
        BY <2>4, <3>1
    <2>6. v[j] \in Nat /\ v[c] \in Nat /\ v[i] \in Nat
      BY <2>4
    <2>7. QED
      BY <2>2, <2>4, <2>5, <2>6
  <1>3. QED
    BY <1>1, <1>2

\* In a timeline in the order of its times the nearest rows by place are the nearest by time.
LEMMA InvGivesContext == ConsultInv => ContextIsNearest
  <1> SUFFICES ASSUME ConsultInv, timeline # None, NEW i \in DOMAIN timeline,
                      NEW c \in Context(i), NEW j \in DOMAIN timeline
               PROVE  /\ ~(timeline[i].epoch < timeline[j].epoch /\ timeline[j].epoch < timeline[c].epoch)
                      /\ ~(timeline[c].epoch < timeline[j].epoch /\ timeline[j].epoch < timeline[i].epoch)
    BY DEF ContextIsNearest
  <1>1. timeline \in Seq(Row) /\ Sorted(timeline)
    BY DEF ConsultInv
  <1>2. PICK n \in Nat : n = Len(timeline) /\ DOMAIN timeline = 1..n
    BY <1>1, RowFacts
  <1>3. PICK D : D = 1..n
    OBVIOUS
  <1>4. D \in SUBSET Nat /\ IsFiniteSet(D) /\ DOMAIN timeline = D
    <2>1. IsFiniteSet(1..n)
      BY <1>2, FS_Interval
    <2>2. QED
      BY <1>2, <1>3, <2>1
  <1>5. PICK v : v = [k \in D |-> timeline[k].epoch]
    OBVIOUS
  <1>6. \A k \in D : v[k] = timeline[k].epoch /\ v[k] \in Nat
    BY <1>1, <1>4, <1>5, RowFacts
  <1>7. v \in [D -> Nat]
    BY <1>5, <1>6
  <1>8. \A k, m \in D : k < m => v[k] <= v[m]
    <2>1. \A k, m \in D : k < m => timeline[k].epoch <= timeline[m].epoch
      BY <1>1, <1>2, <1>3 DEF Sorted
    <2>2. QED
      BY <1>6, <2>1
  <1> DEFINE before == {k \in D : v[k] < v[i]}
             after == {k \in D : v[k] > v[i]}
  <1>9. /\ before = {k \in DOMAIN timeline : timeline[k].epoch < timeline[i].epoch}
        /\ after = {k \in DOMAIN timeline : timeline[k].epoch > timeline[i].epoch}
    BY <1>4, <1>6
  <1>10. (c = Max(before) /\ before # {}) \/ (c = Min(after) /\ after # {})
    BY <1>9 DEF Context
  <1>11. i \in D /\ j \in D
    BY <1>4
  <1>12. /\ before # {} => Max(before) \in D /\ v[Max(before)] < v[i]
                               /\ ~(v[Max(before)] < v[j] /\ v[j] < v[i])
         /\ after # {} => Min(after) \in D /\ v[i] < v[Min(after)]
                              /\ ~(v[i] < v[j] /\ v[j] < v[Min(after)])
    BY <1>4, <1>7, <1>8, <1>11, NearestInOrder
  <1> HIDE DEF before, after
  <1>13. c \in D /\ ~(v[i] < v[j] /\ v[j] < v[c]) /\ ~(v[c] < v[j] /\ v[j] < v[i])
    <2>1. CASE c = Max(before) /\ before # {}
      <3>1. c \in D /\ v[c] < v[i] /\ ~(v[c] < v[j] /\ v[j] < v[i])
        BY <1>12, <2>1
      <3>2. v[c] \in Nat /\ v[i] \in Nat /\ v[j] \in Nat
        BY <1>6, <1>11, <3>1
      <3>3. QED
        BY <3>1, <3>2
    <2>2. CASE c = Min(after) /\ after # {}
      <3>1. c \in D /\ v[i] < v[c] /\ ~(v[i] < v[j] /\ v[j] < v[c])
        BY <1>12, <2>2
      <3>2. v[c] \in Nat /\ v[i] \in Nat /\ v[j] \in Nat
        BY <1>6, <1>11, <3>1
      <3>3. QED
        BY <3>1, <3>2
    <2>3. QED
      BY <1>10, <2>1, <2>2
  <1>14. v[c] = timeline[c].epoch /\ v[i] = timeline[i].epoch /\ v[j] = timeline[j].epoch
    BY <1>6, <1>11, <1>13
  <1>15. QED
    BY <1>13, <1>14

-----------------------------------------------------------------------------
(* Theorems *)

\* The timeline stays in the order of its times, and what a client was given since it
\* asked is the beginning of the ranking up to the page it asks for next (consult_session).
THEOREM ConsultInvariance == Spec => []ConsultInv
  BY ConsultInit, ConsultStep, PTL DEF Spec

\* Following next_offset to its end yields the ranking the first page was cut from, when
\* no stop-commit publishes in between: pages neither overlap nor leave a gap, whatever
\* limit is asked for (consult_session).
THEOREM PagesAreCovered == Spec => []PagesCover
  <1>1. ConsultInv => PagesCover
    BY DEF ConsultInv, PagesCover
  <1>2. QED
    BY <1>1, ConsultInvariance, PTL

\* What a client that followed next_offset to its end was given is a ranking: every
\* match of the timeline is in it once and nothing else is, and it is in the order
\* of the sort asked for, ties broken by score, time and place.
THEOREM EveryMatchOnce == Spec => [](stable /\ offset = None => IsRanking(got, timeline, query))
  <1>1. ConsultInv => (stable /\ offset = None => IsRanking(got, timeline, query))
    <2> SUFFICES ASSUME ConsultInv, stable, offset = None PROVE IsRanking(got, timeline, query)
      OBVIOUS
    <2>1. query # None /\ timeline # None /\ got = Ranked(timeline, query)
      BY DEF ConsultInv
    <2>2. timeline \in Seq(Row) /\ query \in Asked
      BY <2>1, ConsultAssumption DEF ConsultInv
    <2>3. QED
      BY <2>1, <2>2, RankedIsRanking
  <1>2. QED
    BY <1>1, ConsultInvariance, PTL

\* A row that consult_session reports as a match has a score above zero: no tokens
\* matched in the fields asked for leave it out.
THEOREM FoundRowsAreScored == Spec => []FoundRowsScore
  BY InvGivesScores, ConsultInvariance, PTL

\* The context of a match is the nearest row before and the nearest after it: no row of
\* the timeline lies between, though the timeline is scanned by place and not by time.
THEOREM ContextsAreNearest == Spec => []ContextIsNearest
  BY InvGivesContext, ConsultInvariance, PTL

-----------------------------------------------------------------------------
(* The order of texts *)

\* What is known of a text.
LEMMA IndexFacts ==
  ASSUME NEW s \in Seq(Int)
  PROVE  DOMAIN s = 1..Len(s) /\ Len(s) \in Nat /\ \A i \in 1..Len(s) : s[i] \in Int
  BY LenProperties, ElementOfSeq

\* One text goes on where the other ends.
Prolongs(s, t) == Len(s) < Len(t) /\ \A i \in 1..Len(s) : s[i] = t[i]

\* Two texts differ at one place first, the first of them being smaller there.
DiffersAt(s, t, i) ==
  i \in DOMAIN s /\ i \in DOMAIN t /\ s[i] < t[i] /\ \A j \in 1..(i - 1) : s[j] = t[j]

\* One text is before another where they first differ, or by ending first.
LEMMA TextBeforeIs ==
  ASSUME NEW s \in Seq(Int), NEW t \in Seq(Int)
  PROVE  TextBefore(s, t) <=> (\E i \in Nat : DiffersAt(s, t, i)) \/ Prolongs(s, t)
  <1>1. /\ DOMAIN s = 1..Len(s) /\ Len(s) \in Nat /\ DOMAIN t = 1..Len(t) /\ Len(t) \in Nat
    BY IndexFacts
  <1>2. (\E i \in DOMAIN s \cap DOMAIN t : s[i] < t[i] /\ \A j \in 1..(i - 1) : s[j] = t[j])
          <=> \E i \in Nat : DiffersAt(s, t, i)
    <2>1. \A i \in DOMAIN s : i \in Nat
      BY <1>1
    <2>2. QED
      BY <2>1 DEF DiffersAt
  <1>3. ASSUME Len(s) < Len(t)
        PROVE  s = SubSeq(t, 1, Len(s)) <=> \A i \in 1..Len(s) : s[i] = t[i]
    <2> DEFINE u == SubSeq(t, 1, Len(s))
    <2>1. \A i \in 1..Len(s) : t[i] \in Int
      BY <1>1, <1>3, IndexFacts
    <2>2. u \in Seq(Int) /\ Len(u) = Len(s) /\ \A i \in 1..Len(s) : u[i] = t[i]
      <3> DEFINE n == Len(s)
      <3>1. n \in Nat /\ \A i \in 1..n : t[i] \in Int
        BY <1>1, <2>1
      <3> HIDE DEF n
      <3>2. /\ SubSeq(t, 1, n) \in Seq(Int)
            /\ Len(SubSeq(t, 1, n)) = (IF 1 <= n THEN n - 1 + 1 ELSE 0)
            /\ \A i \in 1..(n - 1 + 1) : SubSeq(t, 1, n)[i] = t[1 + i - 1]
        BY <3>1, SubSeqProperties
      <3>3. /\ SubSeq(t, 1, n) \in Seq(Int) /\ Len(SubSeq(t, 1, n)) = n
            /\ \A i \in 1..n : SubSeq(t, 1, n)[i] = t[i]
        BY <3>1, <3>2
      <3>4. QED
        BY <3>3 DEF n
    <2> HIDE DEF u
    <2>3. ASSUME \A i \in 1..Len(s) : s[i] = t[i] PROVE s = u
      <3>1. \A i \in 1..Len(s) : s[i] = u[i]
        BY <2>2, <2>3
      <3>2. QED
        BY <2>2, <3>1, SeqEqual
    <2>4. QED
      BY <2>2, <2>3 DEF u
  <1>4. QED
    BY <1>2, <1>3 DEF TextBefore, Prolongs

\* Texts are in a total order.
LEMMA TextOrder ==
  ASSUME NEW s \in Seq(Int), NEW t \in Seq(Int), NEW u \in Seq(Int)
  PROVE  /\ ~TextBefore(s, s)
         /\ s # t => TextBefore(s, t) \/ TextBefore(t, s)
         /\ TextBefore(s, t) /\ TextBefore(t, u) => TextBefore(s, u)
  <1>1. PICK k \in Nat : k = Len(s) /\ DOMAIN s = 1..k /\ \A i \in 1..k : s[i] \in Int
    BY IndexFacts
  <1>2. PICK l \in Nat : l = Len(t) /\ DOMAIN t = 1..l /\ \A i \in 1..l : t[i] \in Int
    BY IndexFacts
  <1>3. PICK m \in Nat : m = Len(u) /\ DOMAIN u = 1..m /\ \A i \in 1..m : u[i] \in Int
    BY IndexFacts
  <1>4. ~TextBefore(s, s)
    <2>1. ~Prolongs(s, s)
      BY <1>1 DEF Prolongs
    <2>2. ~ \E i \in Nat : DiffersAt(s, s, i)
      BY <1>1 DEF DiffersAt
    <2>3. QED
      BY <2>1, <2>2, TextBeforeIs
  <1>5. ASSUME s # t PROVE TextBefore(s, t) \/ TextBefore(t, s)
    <2> DEFINE D == {i \in 1..k : i \in 1..l /\ s[i] # t[i]}
    <2>1. CASE D # {}
      <3>1. D \in SUBSET Nat
        OBVIOUS
      <3>2. PICK i \in D : \A j \in D : i <= j
        <4> HIDE DEF D
        <4>1. QED
          BY <2>1, <3>1, SmallestNat
      <3>3. \A j \in 1..(i - 1) : s[j] = t[j]
        BY <3>2
      <3>4. s[i] < t[i] \/ t[i] < s[i]
        BY <1>1, <1>2
      <3>5. DiffersAt(s, t, i) \/ DiffersAt(t, s, i)
        BY <1>1, <1>2, <3>3, <3>4 DEF DiffersAt
      <3>6. i \in Nat
        OBVIOUS
      <3>7. QED
        BY <3>5, <3>6, TextBeforeIs
    <2>2. CASE D = {}
      <3>1. k # l
        <4>1. ASSUME k = l PROVE s = t
          <5>1. \A i \in 1..Len(s) : s[i] = t[i]
            BY <1>1, <1>2, <2>2, <4>1
          <5>2. Len(s) = Len(t)
            BY <1>1, <1>2, <4>1
          <5>3. QED
            BY <5>1, <5>2, SeqEqual
        <4>2. QED
          BY <1>5, <4>1
      <3>2. \A i \in 1..k : i \in 1..l => s[i] = t[i]
        BY <2>2
      <3>3. Prolongs(s, t) \/ Prolongs(t, s)
        <4>1. CASE k < l
          <5>0. \A i \in 1..k : i \in 1..l
            BY <4>1
          <5>1. \A i \in 1..k : s[i] = t[i]
            BY <3>2, <5>0
          <5>2. QED
            BY <1>1, <1>2, <4>1, <5>1 DEF Prolongs
        <4>2. CASE l < k
          <5>0. \A i \in 1..l : i \in 1..k
            BY <4>2
          <5>1. \A i \in 1..l : t[i] = s[i]
            BY <3>2, <5>0
          <5>2. QED
            BY <1>1, <1>2, <4>2, <5>1 DEF Prolongs
        <4>3. QED
          BY <3>1, <4>1, <4>2
      <3>4. QED
        BY <3>3, TextBeforeIs
    <2>3. QED
      BY <2>1, <2>2
  <1>6. ASSUME TextBefore(s, t), TextBefore(t, u) PROVE TextBefore(s, u)
    <2>1. ASSUME NEW i \in Nat, NEW j \in Nat, DiffersAt(s, t, i), DiffersAt(t, u, j)
          PROVE  \E h \in Nat : DiffersAt(s, u, h)
      <3>1. /\ i \in 1..k /\ i \in 1..l /\ s[i] < t[i] /\ \A h \in 1..(i - 1) : s[h] = t[h]
            /\ j \in 1..l /\ j \in 1..m /\ t[j] < u[j] /\ \A h \in 1..(j - 1) : t[h] = u[h]
        BY <1>1, <1>2, <1>3, <2>1 DEF DiffersAt
      <3>2. CASE i <= j
        <4>1. s[i] < u[i]
          <5>1. i = j \/ i \in 1..(j - 1)
            BY <3>1, <3>2
          <5>2. s[i] \in Int /\ t[i] \in Int /\ t[j] \in Int /\ u[j] \in Int
            BY <1>1, <1>2, <1>3, <3>1
          <5>3. s[i] < t[i] /\ t[j] < u[j]
            BY <3>1
          <5>4. CASE i = j
            BY <5>2, <5>3, <5>4
          <5>5. CASE i \in 1..(j - 1)
            <6>1. t[i] = u[i]
              BY <3>1, <5>5
            <6>2. QED
              BY <5>3, <6>1
          <5>6. QED
            BY <5>1, <5>4, <5>5
        <4>2. i \in 1..m /\ \A h \in 1..(i - 1) : s[h] = u[h]
          <5>1. \A h \in 1..(i - 1) : h \in 1..(j - 1)
            BY <3>1, <3>2
          <5>2. QED
            BY <3>1, <3>2, <5>1
        <4>3. DiffersAt(s, u, i)
          BY <1>1, <1>3, <3>1, <4>1, <4>2 DEF DiffersAt
        <4>4. QED
          BY <4>3
      <3>3. CASE j < i
        <4>1. j \in 1..(i - 1) /\ s[j] < u[j] /\ j \in 1..k
          BY <3>1, <3>3
        <4>2. \A h \in 1..(j - 1) : s[h] = u[h]
          <5>1. \A h \in 1..(j - 1) : h \in 1..(i - 1)
            BY <3>1, <3>3
          <5>2. QED
            BY <3>1, <5>1
        <4>3. DiffersAt(s, u, j)
          BY <1>1, <1>3, <3>1, <4>1, <4>2 DEF DiffersAt
        <4>4. QED
          BY <4>3
      <3>4. QED
        BY <3>2, <3>3
    <2>2. ASSUME NEW i \in Nat, DiffersAt(s, t, i), Prolongs(t, u) PROVE DiffersAt(s, u, i)
      <3>1. l < m /\ \A h \in 1..l : t[h] = u[h]
        BY <1>2, <1>3, <2>2 DEF Prolongs
      <3>2. i \in 1..k /\ i \in 1..l /\ s[i] < t[i] /\ \A h \in 1..(i - 1) : s[h] = t[h]
        BY <1>1, <1>2, <2>2 DEF DiffersAt
      <3>3. i \in 1..m /\ s[i] < u[i]
        BY <3>1, <3>2
      <3>4. \A h \in 1..(i - 1) : s[h] = u[h]
        <4>1. \A h \in 1..(i - 1) : h \in 1..l
          BY <3>2
        <4>2. QED
          BY <3>1, <3>2, <4>1
      <3>5. QED
        BY <1>1, <1>3, <3>2, <3>3, <3>4 DEF DiffersAt
    <2>3. ASSUME NEW j \in Nat, Prolongs(s, t), DiffersAt(t, u, j)
          PROVE  DiffersAt(s, u, j) \/ Prolongs(s, u)
      <3>1. k < l /\ \A h \in 1..k : s[h] = t[h]
        BY <1>1, <1>2, <2>3 DEF Prolongs
      <3>2. j \in 1..l /\ j \in 1..m /\ t[j] < u[j] /\ \A h \in 1..(j - 1) : t[h] = u[h]
        BY <1>2, <1>3, <2>3 DEF DiffersAt
      <3>3. CASE j <= k
        <4>1. j \in 1..k /\ s[j] < u[j]
          BY <3>1, <3>2, <3>3
        <4>2. \A h \in 1..(j - 1) : s[h] = u[h]
          <5>1. \A h \in 1..(j - 1) : h \in 1..k
            BY <3>2, <3>3
          <5>2. QED
            BY <3>1, <3>2, <5>1
        <4>3. QED
          BY <1>1, <1>3, <3>2, <4>1, <4>2 DEF DiffersAt
      <3>4. CASE k < j
        <4>1. k < m
          BY <3>2, <3>4
        <4>2. \A h \in 1..k : s[h] = u[h]
          <5>1. \A h \in 1..k : h \in 1..(j - 1)
            BY <3>2, <3>4
          <5>2. QED
            BY <3>1, <3>2, <5>1
        <4>3. QED
          BY <1>1, <1>3, <4>1, <4>2 DEF Prolongs
      <3>5. QED
        BY <3>2, <3>3, <3>4
    <2>4. ASSUME Prolongs(s, t), Prolongs(t, u) PROVE Prolongs(s, u)
      <3>1. k < l /\ \A h \in 1..k : s[h] = t[h]
        BY <1>1, <1>2, <2>4 DEF Prolongs
      <3>2. l < m /\ \A h \in 1..l : t[h] = u[h]
        BY <1>2, <1>3, <2>4 DEF Prolongs
      <3>3. k < m /\ \A h \in 1..k : s[h] = u[h]
        <4>1. \A h \in 1..k : h \in 1..l
          BY <3>1
        <4>2. QED
          BY <3>1, <3>2, <4>1
      <3>4. QED
        BY <1>1, <1>3, <3>3 DEF Prolongs
    <2>5. (\E i \in Nat : DiffersAt(s, t, i)) \/ Prolongs(s, t)
      BY <1>6, TextBeforeIs
    <2>6. (\E i \in Nat : DiffersAt(t, u, i)) \/ Prolongs(t, u)
      BY <1>6, TextBeforeIs
    <2>7. (\E i \in Nat : DiffersAt(s, u, i)) \/ Prolongs(s, u)
      BY <2>1, <2>2, <2>3, <2>4, <2>5, <2>6
    <2>8. QED
      BY <2>7, TextBeforeIs
  <1>7. QED
    BY <1>4, <1>5, <1>6

-----------------------------------------------------------------------------
(* Powers of the base *)

\* A beginning of the table of powers.
IsPower(g, n) == g = [k \in 0..n |-> IF k = 0 THEN 1 ELSE Base * g[k - 1]]

\* Powers counted up to different exponents agree.
LEMMA PowersAgree ==
  ASSUME NEW m \in Nat, NEW n \in Nat, NEW g, NEW h, IsPower(g, m), IsPower(h, n),
         NEW k \in Nat, k <= m, k <= n
  PROVE  g[k] = h[k]
  <1> DEFINE T == {i \in Nat : i <= m /\ i <= n /\ g[i] # h[i]}
  <1>1. ASSUME T # {} PROVE FALSE
    <2>1. T \in SUBSET Nat
      OBVIOUS
    <2>2. PICK i \in T : \A j \in T : i <= j
      <3> HIDE DEF T
      <3>1. QED
        BY <1>1, <2>1, SmallestNat
    <2>3. i \in Nat /\ i <= m /\ i <= n /\ g[i] # h[i]
      OBVIOUS
    <2>4. i # 0
      BY <2>3 DEF IsPower
    <2>5. i - 1 \in Nat /\ i - 1 <= m /\ i - 1 <= n /\ ~(i <= i - 1)
      BY <2>3, <2>4
    <2>6. g[i - 1] = h[i - 1]
      BY <2>2, <2>5
    <2>7. g[i] = Base * g[i - 1]
      BY <2>3, <2>4 DEF IsPower
    <2>8. h[i] = Base * h[i - 1]
      BY <2>3, <2>4 DEF IsPower
    <2>9. QED
      BY <2>3, <2>6, <2>7, <2>8
  <1>2. QED
    BY <1>1

\* They can be counted up to any exponent.
LEMMA PowersExist == \A n \in Nat : \E g : IsPower(g, n)
  <1> DEFINE T == {n \in Nat : ~ \E g : IsPower(g, n)}
  <1>1. ASSUME T # {} PROVE FALSE
    <2>1. T \in SUBSET Nat
      OBVIOUS
    <2>2. PICK n \in T : \A j \in T : n <= j
      <3> HIDE DEF T
      <3>1. QED
        BY <1>1, <2>1, SmallestNat
    <2>3. n \in Nat /\ ~ \E g : IsPower(g, n)
      OBVIOUS
    <2>4. CASE n = 0
      <3> DEFINE h == [k \in 0..0 |-> 1]
      <3>1. h = [k \in 0..0 |-> IF k = 0 THEN 1 ELSE Base * h[k - 1]]
        OBVIOUS
      <3> HIDE DEF h
      <3>2. IsPower(h, n)
        BY <2>4, <3>1 DEF IsPower
      <3>3. QED
        BY <2>3, <3>2
    <2>5. CASE n # 0
      <3>1. n - 1 \in Nat /\ ~(n <= n - 1)
        BY <2>3, <2>5
      <3>2. n - 1 \notin T
        BY <2>2, <3>1
      <3>3. PICK g : IsPower(g, n - 1)
        BY <3>1, <3>2
      <3> DEFINE h == [k \in 0..n |-> IF k = n THEN Base * g[n - 1] ELSE g[k]]
      <3>4. ASSUME NEW k \in 0..n PROVE h[k] = IF k = 0 THEN 1 ELSE Base * h[k - 1]
        <4>1. CASE k = 0
          <5>1. g[0] = 1
            BY <3>1, <3>3 DEF IsPower
          <5>2. QED
            BY <2>5, <4>1, <5>1
        <4>2. CASE k # 0
          <5>1. k - 1 \in 0..n /\ k - 1 # n /\ k - 1 \in 0..(n - 1)
            BY <2>3, <4>2
          <5>2. h[k - 1] = g[k - 1]
            BY <5>1
          <5>3. CASE k = n
            BY <4>2, <5>2, <5>3
          <5>4. CASE k # n
            <6>1. k \in 0..(n - 1)
              BY <2>3, <5>4
            <6>2. g[k] = Base * g[k - 1]
              BY <3>3, <4>2, <6>1 DEF IsPower
            <6>3. QED
              BY <4>2, <5>2, <5>4, <6>2
          <5>5. QED
            BY <5>3, <5>4
        <4>3. QED
          BY <4>1, <4>2
      <3>5. h = [k \in 0..n |-> h[k]]
        OBVIOUS
      <3> HIDE DEF h
      <3>6. h = [k \in 0..n |-> IF k = 0 THEN 1 ELSE Base * h[k - 1]]
        BY <3>4, <3>5
      <3>7. IsPower(h, n)
        BY <3>6 DEF IsPower
      <3>8. QED
        BY <2>3, <3>7
    <2>6. QED
      BY <2>4, <2>5
  <1>2. QED
    BY <1>1

\* So the recursion that defines them has a solution.
LEMMA PowerIs == Power = [n \in Nat |-> IF n = 0 THEN 1 ELSE Base * Power[n - 1]]
  <1> DEFINE to(n) == CHOOSE g : IsPower(g, n)
             F == [n \in Nat |-> to(n)[n]]
  <1>1. \A n \in Nat : IsPower(to(n), n)
    BY PowersExist
  <1>2. ASSUME NEW n \in Nat PROVE F[n] = IF n = 0 THEN 1 ELSE Base * F[n - 1]
    <2>1. to(n)[n] = IF n = 0 THEN 1 ELSE Base * to(n)[n - 1]
      <3> HIDE DEF to
      <3>1. to(n) = [k \in 0..n |-> IF k = 0 THEN 1 ELSE Base * to(n)[k - 1]]
        BY <1>1 DEF IsPower
      <3>2. n \in 0..n
        OBVIOUS
      <3>3. QED
        BY <3>1, <3>2
    <2>2. CASE n = 0
      BY <2>1, <2>2
    <2>3. CASE n # 0
      <3>1. n - 1 \in Nat /\ n - 1 <= n /\ n - 1 <= n - 1
        BY <2>3
      <3>2. to(n)[n - 1] = to(n - 1)[n - 1]
        <4>1. IsPower(to(n), n) /\ IsPower(to(n - 1), n - 1)
          BY <1>1, <3>1
        <4> HIDE DEF to
        <4>2. QED
          BY <3>1, <4>1, PowersAgree
      <3>3. F[n - 1] = to(n - 1)[n - 1]
        BY <3>1
      <3>4. F[n] = to(n)[n]
        OBVIOUS
      <3> HIDE DEF F, to
      <3>5. QED
        BY <2>1, <2>3, <3>2, <3>3, <3>4
    <2>4. QED
      BY <2>2, <2>3
  <1>3. F = [n \in Nat |-> F[n]]
    OBVIOUS
  <1> HIDE DEF F
  <1>4. F = [n \in Nat |-> IF n = 0 THEN 1 ELSE Base * F[n - 1]]
    BY <1>2, <1>3
  <1>5. \E f : f = [n \in Nat |-> IF n = 0 THEN 1 ELSE Base * f[n - 1]]
    BY <1>4
  <1>6. QED
    BY <1>5 DEF Power

\* What the solution says of the exponents 0 and n + 1.
LEMMA PowerSteps ==
  /\ Power[0] = 1
  /\ \A n \in Nat : Power[n + 1] = Base * Power[n]
  <1>1. Power[0] = 1
    BY PowerIs
  <1>2. ASSUME NEW n \in Nat PROVE Power[n + 1] = Base * Power[n]
    <2>1. n + 1 \in Nat /\ n + 1 # 0 /\ n + 1 - 1 = n
      OBVIOUS
    <2>2. Power[n + 1] = IF n + 1 = 0 THEN 1 ELSE Base * Power[n + 1 - 1]
      BY <2>1, PowerIs
    <2>3. QED
      BY <2>1, <2>2
  <1>3. QED
    BY <1>1, <1>2

\* Multiplying by two or more adds at least one.
LEMMA Doubled ==
  ASSUME NEW y \in Nat, y >= 2, NEW x \in Nat, x >= 1 PROVE y * x \in Nat /\ y * x >= x + 1
  <1>1. PICK c \in Nat : y = c + 2
    <2>1. y - 2 \in Nat /\ y = (y - 2) + 2
      OBVIOUS
    <2>2. QED
      BY <2>1
  <1>2. y * x = c * x + 2 * x /\ c * x \in Nat
    BY <1>1
  <1>3. QED
    BY <1>2

\* A power is a number, and greater than its exponent.
LEMMA PowerType == \A n \in Nat : Power[n] \in Nat \ {0} /\ Power[n] > n
  <1> DEFINE T == {n \in Nat : ~(Power[n] \in Nat \ {0} /\ Power[n] > n)}
  <1>1. ASSUME T # {} PROVE FALSE
    <2>1. T \in SUBSET Nat
      OBVIOUS
    <2>2. PICK n \in T : \A j \in T : n <= j
      <3> HIDE DEF T
      <3>1. QED
        BY <1>1, <2>1, SmallestNat
    <2>3. n # 0
      BY PowerSteps
    <2>4. n - 1 \in Nat /\ n - 1 + 1 = n /\ ~(n <= n - 1)
      BY <2>3
    <2>5. Power[n - 1] \in Nat \ {0} /\ Power[n - 1] > n - 1
      BY <2>2, <2>4
    <2>6. Power[n] = Base * Power[n - 1]
      BY <2>4, PowerSteps
    <2>7. PICK x : x = Power[n - 1]
      OBVIOUS
    <2>8. Base \in Nat /\ Base >= 2
      BY RecordingAssumption
    <2>9. x \in Nat /\ x >= 1 /\ x > n - 1
      BY <2>5, <2>7
    <2>10. Base * x \in Nat /\ Base * x >= x + 1
      BY <2>8, <2>9, Doubled
    <2>11. Power[n] = Base * x
      BY <2>6, <2>7
    <2>12. PICK y \in Nat : y = Base * x
      BY <2>10
    <2>13. y > n /\ y # 0
      BY <2>9, <2>10, <2>12
    <2>14. Power[n] \in Nat \ {0} /\ Power[n] > n
      BY <2>11, <2>12, <2>13
    <2>15. QED
      BY <2>14
  <1>2. QED
    BY <1>1

\* A greater exponent has a power that is no smaller.
LEMMA PowerGrows == \A n \in Nat, m \in Nat : m <= n => Power[m] <= Power[n]
  <1> SUFFICES ASSUME NEW m \in Nat PROVE \A n \in Nat : m <= n => Power[m] <= Power[n]
    OBVIOUS
  <1> DEFINE T == {n \in Nat : m <= n /\ ~(Power[m] <= Power[n])}
  <1>1. ASSUME T # {} PROVE FALSE
    <2>1. T \in SUBSET Nat
      OBVIOUS
    <2>2. PICK n \in T : \A j \in T : n <= j
      <3> HIDE DEF T
      <3>1. QED
        BY <1>1, <2>1, SmallestNat
    <2>3. m <= n /\ ~(Power[m] <= Power[n])
      OBVIOUS
    <2>4. m # n
      BY <2>3, PowerType
    <2>5. n - 1 \in Nat /\ n - 1 + 1 = n /\ ~(n <= n - 1) /\ m <= n - 1
      BY <2>3, <2>4
    <2>6. Power[m] <= Power[n - 1]
      BY <2>2, <2>5
    <2>7. Power[n] = Base * Power[n - 1]
      BY <2>5, PowerSteps
    <2>8. PICK x \in Nat : x = Power[n - 1] /\ x >= 1
      BY <2>5, PowerType
    <2>9. Base * x \in Nat /\ Base * x >= x + 1
      <3>1. Base \in Nat /\ Base >= 2
        BY RecordingAssumption
      <3>2. QED
        BY <2>8, <3>1, Doubled
    <2>10. PICK y \in Nat : y = Base * x
      BY <2>9
    <2>11. Power[m] \in Nat /\ Power[n] = y /\ y >= x + 1 /\ Power[m] <= x
      BY <2>6, <2>7, <2>8, <2>9, <2>10, PowerType
    <2>12. QED
      BY <2>3, <2>11
  <1>2. QED
    BY <1>1

-----------------------------------------------------------------------------
(* Division *)

\* The products of two numbers that differ are that far apart.
LEMMA Products ==
  ASSUME NEW m \in Nat, NEW a1 \in Nat, NEW b1 \in Nat, a1 < b1
  PROVE  m * a1 \in Nat /\ m * b1 \in Nat /\ m * a1 + m <= m * b1
  <1>1. PICK c \in Nat : b1 = a1 + 1 + c
    <2>1. b1 - a1 - 1 \in Nat /\ b1 = a1 + 1 + (b1 - a1 - 1)
      OBVIOUS
    <2>2. QED
      BY <2>1
  <1>2. m * b1 = m * a1 + m + m * c /\ m * c \in Nat /\ m * a1 \in Nat
    BY <1>1
  <1>3. QED
    BY <1>2

\* The quotient is the only number whose products enclose the dividend.
LEMMA QuotientIs ==
  ASSUME NEW x \in Nat, NEW m \in Nat \ {0}, NEW d \in Nat, m * d <= x, x < m * d + m
  PROVE  x \div m = d
  <1>1. PICK e \in Nat : e = x \div m /\ m * e <= x /\ x < m * e + m
    BY WholeSeconds
  <1>2. PICK p \in Nat : p = m * d
    OBVIOUS
  <1>3. PICK r \in Nat : r = m * e
    OBVIOUS
  <1>4. p <= x /\ x < p + m /\ r <= x /\ x < r + m
    BY <1>1, <1>2, <1>3
  <1>5. ~(d < e)
    <2>1. d < e => p + m <= r
      BY <1>2, <1>3, Products
    <2>2. QED
      BY <1>4, <2>1
  <1>6. ~(e < d)
    <2>1. e < d => r + m <= p
      BY <1>2, <1>3, Products
    <2>2. QED
      BY <1>4, <2>1
  <1>7. QED
    BY <1>1, <1>5, <1>6

\* A greater number has a quotient that is no smaller.
LEMMA QuotientGrows ==
  ASSUME NEW x \in Nat, NEW y \in Nat, x <= y, NEW m \in Nat \ {0}
  PROVE  x \div m <= y \div m
  <1>1. PICK d \in Nat : d = x \div m /\ m * d <= x
    BY WholeSeconds
  <1>2. PICK e \in Nat : e = y \div m /\ y < m * e + m
    BY WholeSeconds
  <1>3. PICK p \in Nat : p = m * d
    OBVIOUS
  <1>4. PICK r \in Nat : r = m * e
    OBVIOUS
  <1>5. e < d => r + m <= p
    BY <1>3, <1>4, Products
  <1>6. p <= x /\ y < r + m
    BY <1>1, <1>2, <1>3, <1>4
  <1>7. ~(e < d)
    BY <1>5, <1>6
  <1>8. QED
    BY <1>1, <1>2, <1>7

\* What is left out by a division by m, and then by b, is left out by one by b * m.
LEMMA QuotientOfQuotient ==
  ASSUME NEW x \in Nat, NEW m \in Nat \ {0}, NEW b1 \in Nat \ {0}
  PROVE  /\ x \div m \in Nat /\ x \div (b1 * m) \in Nat
         /\ (x \div m) % b1 \in 0..(b1 - 1)
         /\ x \div m = b1 * (x \div (b1 * m)) + ((x \div m) % b1)
  <1>1. PICK q \in Nat : q = x \div m /\ m * q <= x /\ x < m * q + m
    BY WholeSeconds
  <1>2. PICK e \in Nat : e = q % b1 /\ e < b1
    OBVIOUS
  <1>3. PICK d \in Nat : d = q \div b1 /\ q = b1 * d + e
    BY <1>2
  <1>4. PICK n \in Nat \ {0} : n = b1 * m
    <2>1. b1 * m \in Nat /\ b1 * m # 0
      OBVIOUS
    <2>2. QED
      BY <2>1
  <1>5. m * q = n * d + m * e
    <2>1. m * q = m * (b1 * d) + m * e
      BY <1>3
    <2>2. m * (b1 * d) = n * d
      BY <1>4
    <2>3. QED
      BY <2>1, <2>2
  <1>6. m * e \in Nat /\ m * e + m <= n
    <2>1. m * e \in Nat /\ m * e + m <= m * b1
      BY <1>2, Products
    <2>2. m * b1 = n
      BY <1>4
    <2>3. QED
      BY <2>1, <2>2
  <1>7. n * d <= x /\ x < n * d + n
    <2>1. PICK u \in Nat : u = n * d
      OBVIOUS
    <2>2. PICK v \in Nat : v = m * e
      BY <1>6
    <2>3. u + v <= x /\ x < u + v + m /\ v + m <= n
      BY <1>1, <1>5, <1>6, <2>1, <2>2
    <2>4. u <= x /\ x < u + n
      BY <2>3
    <2>5. QED
      BY <2>1, <2>4
  <1>8. x \div n = d
    BY <1>7, QuotientIs
  <1>9. x \div m = q /\ (x \div m) % b1 = e /\ x \div (b1 * m) = d
    BY <1>1, <1>2, <1>4, <1>8
  <1>10. e \in 0..(b1 - 1) /\ q = b1 * d + e
    BY <1>2, <1>3
  <1>11. QED
    BY <1>9, <1>10

-----------------------------------------------------------------------------
(* Digits *)

DigitAt(x, w, i) == (x \div Power[w - i]) % Base

\* A digit and what is before it make up the number without what follows.
LEMMA DigitFacts ==
  ASSUME NEW x \in Nat, NEW w \in Nat, NEW i \in 1..w
  PROVE  /\ DigitAt(x, w, i) \in 0..(Base - 1)
         /\ x \div Power[w - i] \in Nat /\ x \div Power[w - (i - 1)] \in Nat
         /\ x \div Power[w - i] = Base * (x \div Power[w - (i - 1)]) + DigitAt(x, w, i)
  <1>1. w - i \in Nat /\ w - (i - 1) = w - i + 1
    OBVIOUS
  <1>2. PICK m \in Nat \ {0} : m = Power[w - i]
    BY <1>1, PowerType
  <1>3. Power[w - (i - 1)] = Base * m
    BY <1>1, <1>2, PowerSteps
  <1>4. Base \in Nat \ {0}
    BY RecordingAssumption
  <1>5. /\ x \div m \in Nat /\ x \div (Base * m) \in Nat /\ (x \div m) % Base \in 0..(Base - 1)
        /\ x \div m = Base * (x \div (Base * m)) + ((x \div m) % Base)
    BY <1>2, <1>4, QuotientOfQuotient
  <1>6. QED
    BY <1>2, <1>3, <1>5 DEF DigitAt

\* Of two numbers in as many digits the smaller is the one before in text order.
LEMMA DigitsTellOrder ==
  ASSUME NEW w \in Nat, NEW x \in Nat, NEW y \in Nat, x < y, y < Power[w]
  PROVE  \E i \in 1..w : /\ DigitAt(x, w, i) < DigitAt(y, w, i)
                         /\ \A j \in 1..(i - 1) : DigitAt(x, w, j) = DigitAt(y, w, j)
  <1> DEFINE f == [i \in 0..w |-> x \div Power[w - i]]
             g == [i \in 0..w |-> y \div Power[w - i]]
             T == {i \in 0..w : f[i] # g[i]}
  <1>1. f[0] = 0 /\ g[0] = 0
    <2>1. PICK m \in Nat \ {0} : m = Power[w]
      BY PowerType
    <2>2. m * 0 <= x /\ x < m * 0 + m /\ m * 0 <= y /\ y < m * 0 + m
      BY <2>1
    <2>3. x \div m = 0 /\ y \div m = 0
      BY <2>2, QuotientIs
    <2>4. w - 0 = w /\ 0 \in 0..w
      OBVIOUS
    <2>5. QED
      BY <2>1, <2>3, <2>4
  <1>2. f[w] = x /\ g[w] = y
    <2>1. w - w = 0 /\ w \in 0..w /\ Power[0] = 1
      BY PowerSteps
    <2>2. x \div 1 = x /\ y \div 1 = y
      OBVIOUS
    <2>3. QED
      BY <2>1, <2>2
  <1>3. ASSUME NEW i \in 1..w
        PROVE  /\ i - 1 \in 0..w /\ i \in 0..w /\ f[i] \in Nat /\ f[i - 1] \in Nat
               /\ g[i] \in Nat /\ g[i - 1] \in Nat
               /\ f[i] = Base * f[i - 1] + DigitAt(x, w, i) /\ DigitAt(x, w, i) \in Nat
               /\ g[i] = Base * g[i - 1] + DigitAt(y, w, i) /\ DigitAt(y, w, i) \in Nat
    <2>1. i - 1 \in 0..w /\ i \in 0..w
      OBVIOUS
    <2>2. f[i] = x \div Power[w - i] /\ f[i - 1] = x \div Power[w - (i - 1)]
      BY <2>1
    <2>3. g[i] = y \div Power[w - i] /\ g[i - 1] = y \div Power[w - (i - 1)]
      BY <2>1
    <2>4. DigitAt(x, w, i) \in Nat /\ DigitAt(y, w, i) \in Nat
      <3>1. DigitAt(x, w, i) \in 0..(Base - 1) /\ DigitAt(y, w, i) \in 0..(Base - 1)
        BY DigitFacts
      <3>2. QED
        BY <3>1, RecordingAssumption
    <2> HIDE DEF f, g
    <2>5. QED
      BY <2>1, <2>2, <2>3, <2>4, DigitFacts
  <1>4. T \in SUBSET Nat /\ w \in T
    BY <1>2
  <1>5. PICK i \in T : \A j \in T : i <= j
    <2> HIDE DEF T
    <2>1. QED
      BY <1>4, SmallestNat
  <1>6. i \in 1..w /\ f[i] # g[i] /\ \A j \in 0..(i - 1) : f[j] = g[j]
    <2>1. i # 0
      BY <1>1
    <2> HIDE DEF f, g
    <2>2. i \in 0..w /\ f[i] # g[i]
      OBVIOUS
    <2>3. \A j \in 0..(i - 1) : j \in 0..w /\ ~(i <= j)
      BY <2>2
    <2>4. \A j \in 0..(i - 1) : f[j] = g[j]
      BY <1>5, <2>3
    <2>5. QED
      BY <2>1, <2>2, <2>4
  <1>7. f[i] <= g[i]
    <2>1. w - i \in Nat
      BY <1>6
    <2>2. PICK m \in Nat \ {0} : m = Power[w - i]
      BY <2>1, PowerType
    <2>3. x \div m <= y \div m
      BY <2>2, QuotientGrows
    <2>4. QED
      BY <2>2, <2>3
  <1> HIDE DEF f, g
  <1>8. DigitAt(x, w, i) < DigitAt(y, w, i)
    <2>1. f[i - 1] = g[i - 1]
      BY <1>6
    <2>2. PICK c \in Nat : c = f[i - 1]
      BY <1>3, <1>6
    <2>3. PICK p \in Int : p = Base * c
      BY <2>2, RecordingAssumption
    <2>4. f[i] = p + DigitAt(x, w, i) /\ g[i] = p + DigitAt(y, w, i)
      BY <1>3, <1>6, <2>1, <2>2, <2>3
    <2>5. PICK d \in Nat : d = DigitAt(x, w, i)
      BY <1>3, <1>6
    <2>6. PICK e \in Nat : e = DigitAt(y, w, i)
      BY <1>3, <1>6
    <2>7. p + d <= p + e /\ p + d # p + e
      BY <1>6, <1>7, <2>4, <2>5, <2>6
    <2>8. d < e
      BY <2>7
    <2>9. QED
      BY <2>5, <2>6, <2>8
  <1>9. ASSUME NEW j \in 1..(i - 1) PROVE DigitAt(x, w, j) = DigitAt(y, w, j)
    <2>1. j \in 1..w /\ j - 1 \in 0..(i - 1) /\ j \in 0..(i - 1)
      BY <1>6
    <2>2. f[j] = g[j] /\ f[j - 1] = g[j - 1]
      BY <1>6, <2>1
    <2>3. PICK c \in Nat : c = f[j - 1]
      BY <1>3, <2>1
    <2>4. PICK p \in Int : p = Base * c
      BY <2>3, RecordingAssumption
    <2>5. f[j] = p + DigitAt(x, w, j) /\ g[j] = p + DigitAt(y, w, j)
      BY <1>3, <2>1, <2>2, <2>3, <2>4
    <2>6. PICK d \in Nat : d = DigitAt(x, w, j)
      BY <1>3, <2>1
    <2>7. PICK e \in Nat : e = DigitAt(y, w, j)
      BY <1>3, <2>1
    <2>8. p + d = p + e
      BY <2>2, <2>5, <2>6, <2>7
    <2>9. d = e
      BY <2>8
    <2>10. QED
      BY <2>6, <2>7, <2>9
  <1>10. QED
    BY <1>6, <1>8, <1>9

\* The width of a number holds it, and is that of the padding when that holds it.
LEMMA WidthFacts ==
  ASSUME NEW n \in Nat, NEW width \in Nat \ {0}
  PROVE  /\ Width(n, width) \in Nat \ {0} /\ n < Power[Width(n, width)]
         /\ n < Power[width] => Width(n, width) = width
  <1> DEFINE W == {v \in 1..n : Power[v - 1] <= n}
             T == {width} \cup W
             w == Max(T)
  <1>1. T \in SUBSET Int /\ T # {} /\ T \in SUBSET (Nat \ {0})
    OBVIOUS
  <1>2. IsFiniteSet(T)
    <2>1. IsFiniteSet(1..n)
      BY FS_Interval
    <2>2. W \in SUBSET (1..n)
      OBVIOUS
    <2> HIDE DEF W
    <2>3. IsFiniteSet(W)
      BY <2>1, <2>2, FS_Subset
    <2>4. IsFiniteSet(W \cup {width})
      BY <2>3, FS_AddElement
    <2>5. T = W \cup {width}
      OBVIOUS
    <2>6. QED
      BY <2>4, <2>5
  <1>3. Width(n, width) = w
    BY DEF Width
  <1>4. w \in T /\ \A v \in T : v <= w
    <2> HIDE DEF T
    <2>1. QED
      BY <1>1, <1>2, MaxFacts
  <1> HIDE DEF w
  <1>5. w \in Nat \ {0}
    BY <1>1, <1>4
  <1>6. ASSUME ~(n < Power[w]) PROVE FALSE
    <2>1. PICK p \in Nat : p = Power[w] /\ p > w
      BY <1>5, PowerType
    <2>2. p <= n
      BY <1>6, <2>1
    <2>3. w + 1 \in 1..n
      BY <1>5, <2>1, <2>2
    <2>4. PICK v \in 1..n : v = w + 1 /\ v - 1 = w
      BY <1>5, <2>3
    <2>5. v \in W
      BY <2>1, <2>2, <2>4
    <2>6. v <= w
      BY <1>4, <2>5
    <2>7. QED
      BY <1>5, <2>4, <2>6
  <1>7. ASSUME n < Power[width] PROVE w = width
    <2>1. ASSUME NEW v \in W PROVE v <= width
      <3>1. v \in Nat /\ v - 1 \in Nat /\ Power[v - 1] <= n
        OBVIOUS
      <3>2. ASSUME width <= v - 1 PROVE FALSE
        <4>1. Power[width] <= Power[v - 1]
          BY <3>1, <3>2, PowerGrows
        <4>2. Power[width] \in Nat /\ Power[v - 1] \in Nat
          BY <3>1, PowerType
        <4>3. QED
          BY <1>7, <3>1, <4>1, <4>2
      <3>3. QED
        BY <3>1, <3>2
    <2>2. w <= width
      BY <1>4, <2>1
    <2>3. width <= w
      BY <1>4
    <2>4. QED
      BY <1>5, <2>2, <2>3
  <1>8. QED
    BY <1>3, <1>5, <1>6, <1>7

\* The digits of a number, and that no other number has the same.
LEMMA DigitsAre ==
  ASSUME NEW n \in Nat, NEW width \in Nat \ {0}
  PROVE  /\ Digits(n, width) \in Seq(Int) /\ Len(Digits(n, width)) = Width(n, width)
         /\ \A i \in 1..Width(n, width) :
              /\ Digits(n, width)[i] = DigitAt(n, Width(n, width), i)
              /\ Digits(n, width)[i] \in 0..(Base - 1)
  <1>1. PICK w \in Nat : w = Width(n, width)
    BY WidthFacts
  <1>2. Digits(n, width) = [i \in 1..w |-> DigitAt(n, w, i)]
    BY <1>1 DEF Digits, DigitAt
  <1>3. \A i \in 1..w : DigitAt(n, w, i) \in 0..(Base - 1) /\ DigitAt(n, w, i) \in Int
    <2>1. \A i \in 1..w : DigitAt(n, w, i) \in 0..(Base - 1)
      BY DigitFacts
    <2>2. Base \in Nat
      BY RecordingAssumption
    <2>3. QED
      BY <2>1, <2>2
  <1>4. QED
    BY <1>1, <1>2, <1>3

\* Numbers with the same digits are the same.
LEMMA DigitsDiffer ==
  ASSUME NEW m \in Nat, NEW n \in Nat, NEW width \in Nat \ {0},
         Digits(m, width) = Digits(n, width)
  PROVE  m = n
  <1>1. PICK w \in Nat : w = Width(m, width) /\ w = Width(n, width)
    BY DigitsAre, WidthFacts
  <1>2. \A i \in 1..w : DigitAt(m, w, i) = DigitAt(n, w, i)
    <2>1. \A i \in 1..w : Digits(m, width)[i] = DigitAt(m, w, i)
      BY <1>1, DigitsAre
    <2>2. \A i \in 1..w : Digits(n, width)[i] = DigitAt(n, w, i)
      BY <1>1, DigitsAre
    <2>3. QED
      BY <2>1, <2>2
  <1>3. m < Power[w] /\ n < Power[w]
    BY <1>1, WidthFacts
  <1>4. \A i \in 1..w : DigitAt(m, w, i) \in Int /\ DigitAt(n, w, i) \in Int
    <2>1. \A i \in 1..w : DigitAt(m, w, i) \in 0..(Base - 1) /\ DigitAt(n, w, i) \in 0..(Base - 1)
      BY DigitFacts
    <2>2. QED
      BY <2>1, RecordingAssumption
  <1>5. ~(m < n)
    BY <1>2, <1>3, <1>4, DigitsTellOrder
  <1>6. ~(n < m)
    BY <1>2, <1>3, <1>4, DigitsTellOrder
  <1>7. QED
    BY <1>5, <1>6

\* Of two numbers that fit the padding the smaller one comes first.
LEMMA DigitsInOrder ==
  ASSUME NEW m \in Nat, NEW n \in Nat, NEW width \in Nat \ {0}, m < n, n < Power[width]
  PROVE  /\ Len(Digits(m, width)) = width /\ Len(Digits(n, width)) = width
         /\ \E i : DiffersAt(Digits(m, width), Digits(n, width), i)
  <1>1. m < Power[width]
    BY PowerType
  <1>2. Width(m, width) = width /\ Width(n, width) = width
    BY <1>1, WidthFacts
  <1>3. PICK s \in Seq(Int) : s = Digits(m, width)
    BY DigitsAre
  <1>4. PICK t \in Seq(Int) : t = Digits(n, width)
    BY DigitsAre
  <1>5. Len(s) = width /\ Len(t) = width
    BY <1>2, <1>3, <1>4, DigitsAre
  <1>6. \A i \in 1..width : s[i] = DigitAt(m, width, i) /\ t[i] = DigitAt(n, width, i)
    BY <1>2, <1>3, <1>4, DigitsAre
  <1>7. DOMAIN s = 1..width /\ DOMAIN t = 1..width
    BY <1>5, LenProperties
  <1>8. PICK i \in 1..width : /\ DigitAt(m, width, i) < DigitAt(n, width, i)
                              /\ \A j \in 1..(i - 1) : DigitAt(m, width, j) = DigitAt(n, width, j)
    BY DigitsTellOrder
  <1>9. \A j \in 1..(i - 1) : j \in 1..width
    BY <1>8
  <1>10. DiffersAt(s, t, i)
    BY <1>6, <1>7, <1>8, <1>9 DEF DiffersAt
  <1>11. QED
    BY <1>3, <1>4, <1>5, <1>10

-----------------------------------------------------------------------------
(* File names in order *)

\* n numbers of 1..n that grow are the numbers from 1 to n.
LEMMA GrowingIsAll ==
  ASSUME NEW n \in Nat, NEW s \in [1..n -> 1..n],
         \A k, m \in 1..n : k < m => s[k] < s[m]
  PROVE  \A k \in 1..n : s[k] = k
  <1> DEFINE T == {k \in 1..n : s[k] < k}
             U == {d \in 0..(n - 1) : s[n - d] > n - d}
  <1>1. ASSUME T # {} PROVE FALSE
    <2>1. T \in SUBSET Nat
      OBVIOUS
    <2>2. PICK k \in T : \A j \in T : k <= j
      <3> HIDE DEF T
      <3>1. QED
        BY <1>1, <2>1, SmallestNat
    <2>3. k \in 1..n /\ s[k] < k /\ s[k] \in 1..n
      OBVIOUS
    <2>4. k - 1 \in 1..n /\ ~(k <= k - 1)
      BY <2>3
    <2>5. PICK j \in 1..n : j = k - 1
      BY <2>4
    <2>6. j \notin T
      BY <2>2, <2>4, <2>5
    <2>7. ~(s[j] < j) /\ s[j] \in 1..n /\ s[j] < s[k]
      BY <2>3, <2>5, <2>6
    <2>8. QED
      BY <2>3, <2>5, <2>7
  <1>2. ASSUME U # {} PROVE FALSE
    <2>1. U \in SUBSET Nat
      OBVIOUS
    <2>2. PICK d \in U : \A e \in U : d <= e
      <3> HIDE DEF U
      <3>1. QED
        BY <1>2, <2>1, SmallestNat
    <2>3. d \in 0..(n - 1) /\ s[n - d] > n - d
      OBVIOUS
    <2>4. PICK k \in 1..n : k = n - d
      BY <2>3
    <2>5. s[k] > k /\ s[k] \in 1..n
      BY <2>3, <2>4
    <2>6. d # 0
      BY <2>3, <2>4, <2>5
    <2>7. d - 1 \in 0..(n - 1) /\ ~(d <= d - 1) /\ n - (d - 1) = k + 1
      BY <2>3, <2>4, <2>6
    <2>8. PICK j \in 1..n : j = k + 1 /\ j = n - (d - 1)
      BY <2>3, <2>4, <2>6
    <2>9. d - 1 \notin U
      BY <2>2, <2>7
    <2>10. ~(s[j] > j) /\ s[j] \in 1..n /\ s[k] < s[j]
      BY <2>7, <2>8, <2>9
    <2>11. QED
      BY <2>5, <2>8, <2>10
  <1>3. SUFFICES ASSUME NEW k \in 1..n PROVE s[k] = k
    OBVIOUS
  <1>4. s[k] \in Nat /\ ~(s[k] < k)
    BY <1>1
  <1>5. ~(s[k] > k)
    <2>1. PICK d \in 0..(n - 1) : k = n - d
      <3>1. n - k \in 0..(n - 1) /\ k = n - (n - k)
        OBVIOUS
      <3>2. QED
        BY <3>1
    <2>2. d \notin U
      BY <1>2
    <2>3. QED
      BY <2>1, <2>2
  <1>6. QED
    BY <1>4, <1>5

\* Whatever has texts of its own is put in a total order by them.
LEMMA TextsOrder ==
  ASSUME NEW S, NEW text \in [S -> Seq(Int)], \A x, y \in S : text[x] = text[y] => x = y,
         NEW before \in [S -> SUBSET S],
         \A x, y \in S : x \in before[y] <=> TextBefore(text[x], text[y])
  PROVE  Orders(before, S)
  <1>1. \A x \in S : x \notin before[x]
    BY TextOrder
  <1>2. \A x, y \in S : x # y => x \in before[y] \/ y \in before[x]
    BY TextOrder
  <1>3. ASSUME NEW x \in S, NEW y \in S, x \in before[y], NEW z \in before[x] PROVE z \in before[y]
    <2>1. z \in S
      OBVIOUS
    <2>2. TextBefore(text[z], text[x]) /\ TextBefore(text[x], text[y])
      BY <1>3, <2>1
    <2>3. TextBefore(text[z], text[y])
      BY <2>1, <2>2, TextOrder
    <2>4. QED
      BY <2>1, <2>3
  <1>4. QED
    BY <1>1, <1>2, <1>3 DEF Orders

\* The name of a part has w digits, then the blank and the key.
HasDigits(n, w) ==
  /\ w = Len(Digits(n[1], PartDigits)) /\ n[1] \in Nat
  /\ PartText(n) \in Seq(Int) /\ Len(PartText(n)) = w + 2
  /\ \A i \in 1..w : PartText(n)[i] = Digits(n[1], PartDigits)[i]
  /\ PartText(n)[w + 2] = n[2]

\* The name of a part: the digits of the index, the "_" and the key.
LEMMA PartTextIs == \A n \in PartNames : PartText(n) \in Seq(Int) /\ \E w \in Nat : HasDigits(n, w)
  <1> SUFFICES ASSUME NEW n \in PartNames
               PROVE  PartText(n) \in Seq(Int) /\ \E w \in Nat : HasDigits(n, w)
    OBVIOUS
  <1>1. n[1] \in Nat /\ n[2] \in Nat
    BY RecordingAssumption
  <1>2. PICK d \in Seq(Int) : d = Digits(n[1], PartDigits)
    BY <1>1, DigitsAre, RecordingAssumption
  <1>3. PICK w \in Nat : w = Len(d)
    BY LenProperties
  <1>4. PICK e \in Seq(Int) : e = <<Base, n[2]>> /\ Len(e) = 2 /\ e[2] = n[2]
    <2>1. <<Base, n[2]>> \in Seq(Int)
      BY <1>1, RecordingAssumption
    <2>2. QED
      BY <2>1
  <1>5. PartText(n) = d \o e
    BY <1>2, <1>4 DEF PartText
  <1>6. /\ d \o e \in Seq(Int) /\ Len(d \o e) = w + 2
        /\ \A i \in 1..(w + 2) : (d \o e)[i] = IF i <= w THEN d[i] ELSE e[i - w]
    BY <1>3, <1>4, ConcatProperties
  <1>7. \A i \in 1..w : (d \o e)[i] = d[i]
    BY <1>6
  <1>8. (d \o e)[w + 2] = e[2]
    <2>1. w + 2 \in 1..(w + 2) /\ ~(w + 2 <= w) /\ w + 2 - w = 2
      OBVIOUS
    <2>2. QED
      BY <1>6, <2>1
  <1>9. PICK p : p = PartText(n)
    OBVIOUS
  <1>10. /\ p \in Seq(Int) /\ Len(p) = w + 2
         /\ \A i \in 1..w : p[i] = d[i]
         /\ p[w + 2] = n[2]
    BY <1>4, <1>5, <1>6, <1>7, <1>8, <1>9
  <1>11. HasDigits(n, w)
    BY <1>1, <1>2, <1>3, <1>9, <1>10 DEF HasDigits
  <1>12. QED
    BY <1>9, <1>10, <1>11

\* Different parts have different names.
LEMMA PartTextsDiffer ==
  ASSUME NEW m \in PartNames, NEW n \in PartNames, PartText(m) = PartText(n) PROVE m = n
  <1>1. PICK w \in Nat : HasDigits(m, w)
    BY PartTextIs
  <1>2. PICK v \in Nat : HasDigits(n, v)
    BY PartTextIs
  <1>3. PICK x \in Nat : x = m[1]
    BY <1>1 DEF HasDigits
  <1>4. PICK y \in Nat : y = n[1]
    BY <1>2 DEF HasDigits
  <1>5. PICK d \in Seq(Int) : d = Digits(x, PartDigits)
    BY DigitsAre, RecordingAssumption
  <1>6. PICK e \in Seq(Int) : e = Digits(y, PartDigits)
    BY DigitsAre, RecordingAssumption
  <1>7. PICK p : p = PartText(m) /\ p = PartText(n)
    OBVIOUS
  <1>8. Len(d) = w /\ Len(p) = w + 2 /\ p[w + 2] = m[2] /\ \A i \in 1..w : p[i] = d[i]
    BY <1>1, <1>3, <1>5, <1>7 DEF HasDigits
  <1>9. Len(e) = v /\ Len(p) = v + 2 /\ p[v + 2] = n[2] /\ \A i \in 1..v : p[i] = e[i]
    BY <1>2, <1>4, <1>6, <1>7 DEF HasDigits
  <1>10. w = v
    <2>1. w + 2 = v + 2
      BY <1>8, <1>9
    <2>2. QED
      BY <2>1
  <1>11. d = e
    <2>1. Len(d) = Len(e) /\ \A i \in 1..Len(d) : d[i] = e[i]
      BY <1>8, <1>9, <1>10
    <2>2. QED
      BY <2>1, SeqEqual
  <1>12. x = y
    BY <1>5, <1>6, <1>11, DigitsDiffer, RecordingAssumption
  <1>13. m \in Nat \X Nat /\ n \in Nat \X Nat
    BY RecordingAssumption
  <1>14. m[1] = n[1]
    BY <1>3, <1>4, <1>12
  <1>15. m[2] = n[2]
    BY <1>8, <1>9, <1>10
  <1>16. QED
    BY <1>13, <1>14, <1>15

\* The concat list has every part that is there once, in the order of the names.
LEMMA PartsSortedFacts ==
  ASSUME NEW names \in SUBSET PartNames
  PROVE  /\ PartsSorted(names) \in Seq(names)
         /\ IsFiniteSet(names) /\ Cardinality(names) \in Nat
         /\ Len(PartsSorted(names)) = Cardinality(names)
         /\ \A k, m \in 1..Cardinality(names) :
              k < m => TextBefore(PartText(PartsSorted(names)[k]), PartText(PartsSorted(names)[m]))
  <1> DEFINE before == [n \in names |-> {m \in names : TextBefore(PartText(m), PartText(n))}]
             text == [n \in names |-> PartText(n)]
             s == PartsSorted(names)
  <1>1. IsFiniteSet(names)
    BY FS_Subset, RecordingAssumption
  <1>2. \A n \in names : PartText(n) \in Seq(Int)
    BY PartTextIs
  <1>3. \A x, y \in names : PartText(x) = PartText(y) => x = y
    BY PartTextsDiffer
  <1>4. text \in [names -> Seq(Int)] /\ \A x \in names : text[x] = PartText(x)
    BY <1>2
  <1>5. /\ before \in [names -> SUBSET names]
        /\ \A x, y \in names : x \in before[y] <=> TextBefore(PartText(x), PartText(y))
    OBVIOUS
  <1>6. s = InOrder(names, before)
    BY DEF PartsSorted
  <1> HIDE DEF before, text, s
  <1>7. Orders(before, names)
    <2>1. \A x, y \in names : text[x] = text[y] => x = y
      BY <1>3, <1>4
    <2>2. \A x, y \in names : x \in before[y] <=> TextBefore(text[x], text[y])
      BY <1>4, <1>5
    <2>3. QED
      BY <1>4, <1>5, <2>1, <2>2, TextsOrder
  <1>8. PICK n \in Nat : n = Cardinality(names)
    BY <1>1, FS_CardinalityType
  <1>9. /\ s \in Seq(names) /\ Len(s) = n
        /\ \A k, m \in 1..n : k < m => s[k] \in before[s[m]]
    BY <1>1, <1>6, <1>7, <1>8, InOrderIsSorted
  <1>10. ASSUME NEW k \in 1..n, NEW m \in 1..n, k < m
         PROVE  TextBefore(PartText(s[k]), PartText(s[m]))
    <2>1. s[k] \in names /\ s[m] \in names
      BY <1>9, ElementOfSeq
    <2>2. s[k] \in before[s[m]]
      BY <1>9, <1>10
    <2>3. QED
      BY <1>5, <2>1, <2>2
  <1>11. QED
    BY <1>1, <1>8, <1>9, <1>10 DEF s

\* Of parts whose indexes fit the padding the one with the smaller index comes first.
LEMMA SmallerIndexFirst ==
  ASSUME NEW m \in PartNames, NEW n \in PartNames, m[1] < n[1], n[1] < Power[PartDigits]
  PROVE  TextBefore(PartText(m), PartText(n))
  <1>1. PICK w \in Nat : HasDigits(m, w)
    BY PartTextIs
  <1>2. PICK v \in Nat : HasDigits(n, v)
    BY PartTextIs
  <1>3. PICK x \in Nat : x = m[1]
    BY <1>1 DEF HasDigits
  <1>4. PICK y \in Nat : y = n[1]
    BY <1>2 DEF HasDigits
  <1>5. PICK d \in Seq(Int) : d = Digits(x, PartDigits)
    BY DigitsAre, RecordingAssumption
  <1>6. PICK e \in Seq(Int) : e = Digits(y, PartDigits)
    BY DigitsAre, RecordingAssumption
  <1>7. Len(d) = PartDigits /\ Len(e) = PartDigits /\ \E i : DiffersAt(d, e, i)
    <2>1. x < y /\ y < Power[PartDigits] /\ PartDigits \in Nat \ {0}
      BY <1>3, <1>4, RecordingAssumption
    <2>2. QED
      BY <1>5, <1>6, <2>1, DigitsInOrder
  <1>8. w = PartDigits /\ v = PartDigits /\ DOMAIN d = 1..w /\ DOMAIN e = 1..w
    BY <1>1, <1>2, <1>3, <1>4, <1>5, <1>6, <1>7, LenProperties DEF HasDigits
  <1>9. PICK p \in Seq(Int) : p = PartText(m)
    BY PartTextIs
  <1>10. PICK q \in Seq(Int) : q = PartText(n)
    BY PartTextIs
  <1>11. DOMAIN p = 1..(w + 2) /\ \A j \in 1..w : p[j] = d[j]
    BY <1>1, <1>3, <1>5, <1>9, LenProperties DEF HasDigits
  <1>12. DOMAIN q = 1..(w + 2) /\ \A j \in 1..w : q[j] = e[j]
    BY <1>2, <1>4, <1>6, <1>8, <1>10, LenProperties DEF HasDigits
  <1>13. PICK i : DiffersAt(d, e, i)
    BY <1>7
  <1>14. i \in 1..w /\ d[i] < e[i] /\ \A j \in 1..(i - 1) : d[j] = e[j]
    BY <1>8, <1>13 DEF DiffersAt
  <1>15. i \in 1..(w + 2) /\ i \in Nat /\ \A j \in 1..(i - 1) : j \in 1..w
    BY <1>14
  <1>16. DiffersAt(p, q, i)
    BY <1>11, <1>12, <1>14, <1>15 DEF DiffersAt
  <1>17. QED
    BY <1>9, <1>10, <1>15, <1>16, TextBeforeIs

\* Names whose indexes fit the padding are in the order of the indexes.
LEMMA PartsInOrder ==
  ASSUME NEW names \in SUBSET PartNames, NEW s, s = PartsSorted(names),
         \A k \in DOMAIN s : s[k][1] < Power[PartDigits]
  PROVE  \A k, m \in DOMAIN s : k < m => s[k][1] <= s[m][1]
  <1>1. PICK n \in Nat : n = Cardinality(names)
    BY PartsSortedFacts
  <1>2. /\ s \in Seq(names) /\ Len(s) = n
        /\ \A k, m \in 1..n : k < m => TextBefore(PartText(s[k]), PartText(s[m]))
    BY <1>1, PartsSortedFacts
  <1>3. DOMAIN s = 1..n /\ \A k \in 1..n : s[k] \in PartNames
    BY <1>2, LenProperties, ElementOfSeq
  <1> SUFFICES ASSUME NEW k \in 1..n, NEW m \in 1..n, k < m, ~(s[k][1] <= s[m][1]) PROVE FALSE
    BY <1>3
  <1>4. PICK x \in PartNames : x = s[k]
    BY <1>3
  <1>5. PICK y \in PartNames : y = s[m]
    BY <1>3
  <1>6. x[1] \in Nat /\ y[1] \in Nat
    BY RecordingAssumption
  <1>7. y[1] < x[1] /\ x[1] < Power[PartDigits]
    BY <1>3, <1>4, <1>5, <1>6
  <1>8. TextBefore(PartText(y), PartText(x))
    BY <1>7, SmallerIndexFirst
  <1>9. TextBefore(PartText(x), PartText(y))
    BY <1>2, <1>4, <1>5
  <1>10. PartText(x) \in Seq(Int) /\ PartText(y) \in Seq(Int)
    BY PartTextIs
  <1>11. QED
    BY <1>8, <1>9, <1>10, TextOrder

\* The loop goes through all frames, and in the order of the video as long as their
\* numbers fit the padding.
LEMMA FramesSortedFacts ==
  ASSUME NEW last \in Nat
  PROVE  /\ FramesSorted(last) \in Seq(1..last) /\ Len(FramesSorted(last)) = last
         /\ last < Power[FrameDigits] => \A k \in 1..last : FramesSorted(last)[k] = k
  <1> DEFINE S == 1..last
             before == [i \in S |-> {j \in S : TextBefore(FrameText(j), FrameText(i))}]
             text == [i \in S |-> FrameText(i)]
             s == FramesSorted(last)
  <1>1. IsFiniteSet(S) /\ Cardinality(S) = last
    BY FS_Interval
  <1>2. FrameDigits \in Nat \ {0} /\ \A i \in S : i \in Nat
    BY RecordingAssumption
  <1>3. \A i \in S : FrameText(i) \in Seq(Int)
    BY <1>2, DigitsAre DEF FrameText
  <1>4. \A i, j \in S : FrameText(i) = FrameText(j) => i = j
    BY <1>2, DigitsDiffer DEF FrameText
  <1>5. text \in [S -> Seq(Int)] /\ \A x \in S : text[x] = FrameText(x)
    BY <1>3
  <1>6. /\ before \in [S -> SUBSET S]
        /\ \A x, y \in S : x \in before[y] <=> TextBefore(FrameText(x), FrameText(y))
    OBVIOUS
  <1>7. s = InOrder(S, before)
    BY DEF FramesSorted
  <1> HIDE DEF before, text, s, S
  <1>8. Orders(before, S)
    <2>1. \A x, y \in S : text[x] = text[y] => x = y
      BY <1>4, <1>5
    <2>2. \A x, y \in S : x \in before[y] <=> TextBefore(text[x], text[y])
      BY <1>5, <1>6
    <2>3. QED
      BY <1>5, <1>6, <2>1, <2>2, TextsOrder
  <1>9. /\ s \in Seq(S) /\ Len(s) = last
        /\ \A k, m \in 1..last : k < m => s[k] \in before[s[m]]
    BY <1>1, <1>7, <1>8, InOrderIsSorted
  <1>10. ASSUME last < Power[FrameDigits] PROVE \A k \in 1..last : s[k] = k
    <2>1. ASSUME NEW k \in 1..last, NEW m \in 1..last, k < m PROVE s[k] < s[m]
      <3>1. PICK x \in S : x = s[k]
        BY <1>9, ElementOfSeq
      <3>2. PICK y \in S : y = s[m]
        BY <1>9, ElementOfSeq
      <3>3. TextBefore(FrameText(x), FrameText(y))
        BY <1>6, <1>9, <2>1, <3>1, <3>2
      <3>4. x # y
        BY <1>3, <3>3, TextOrder
      <3>5. ASSUME y < x PROVE FALSE
        <4>1. x < Power[FrameDigits]
          <5>1. x <= last /\ Power[FrameDigits] \in Nat /\ x \in Nat
            BY <1>2, PowerType DEF S
          <5>2. QED
            BY <1>10, <5>1
        <4>2. \E i : DiffersAt(FrameText(y), FrameText(x), i)
          BY <1>2, <3>5, <4>1, DigitsInOrder DEF FrameText
        <4>3. PICK i : DiffersAt(FrameText(y), FrameText(x), i)
          BY <4>2
        <4>4. i \in Nat
          <5>1. i \in DOMAIN FrameText(y)
            BY <4>3 DEF DiffersAt
          <5>2. QED
            BY <1>3, <5>1, IndexFacts
        <4>5. TextBefore(FrameText(y), FrameText(x))
          BY <1>3, <4>3, <4>4, TextBeforeIs
        <4>6. QED
          BY <1>3, <3>3, <4>5, TextOrder
      <3>6. x \in Nat /\ y \in Nat
        BY <1>2
      <3>7. QED
        BY <3>1, <3>2, <3>4, <3>5, <3>6
    <2>2. s \in [1..last -> 1..last]
      BY <1>9, LenProperties DEF S
    <2>3. QED
      BY <2>1, <2>2, GrowingIsAll
  <1>11. QED
    BY <1>9, <1>10 DEF S, s

-----------------------------------------------------------------------------
(* What the frames that are kept tell *)

\* The kept frames grow, no two in a row show the same, and each of the first p
\* frames of the video shows what the last one kept before it shows.
Tells(kept, video, p) ==
  /\ kept \in Seq(1..p)
  /\ \A k, m \in 1..Len(kept) : k < m => kept[k] < kept[m]
  /\ \A k \in 2..Len(kept) : video[kept[k]] # video[kept[k - 1]]
  /\ \A j \in 1..p : \E k \in 1..Len(kept) :
       /\ kept[k] <= j /\ video[kept[k]] = video[j]
       /\ \A m \in 1..Len(kept) : kept[m] <= j => m <= k

\* Before the first frame nothing is to be told.
LEMMA NothingIsTold == ASSUME NEW video PROVE Tells(<<>>, video, 0)
  BY DEF Tells

\* Numbers up to p are numbers up to r.
LEMMA SeqOfMore ==
  ASSUME NEW p \in Nat, NEW r \in Nat, p <= r, NEW s \in Seq(1..p) PROVE s \in Seq(1..r)
  <1>1. 1..p \subseteq 1..r
    OBVIOUS
  <1>2. QED
    BY <1>1, SeqMonotonic

\* A frame that shows the same as the last one kept is told by it.
LEMMA SameIsLeftOut ==
  ASSUME NEW video, NEW p \in Nat, NEW kept, Tells(kept, video, p), kept # <<>>,
         video[kept[Len(kept)]] = video[p + 1]
  PROVE  Tells(kept, video, p + 1)
  <1>1. PICK n \in Nat : n = Len(kept) /\ n > 0 /\ \A k \in 1..n : kept[k] \in 1..p
    <2>1. kept \in Seq(1..p)
      BY DEF Tells
    <2>2. Len(kept) \in Nat /\ Len(kept) # 0
      BY <2>1, EmptySeq
    <2>3. \A k \in 1..Len(kept) : kept[k] \in 1..p
      BY <2>1, ElementOfSeq
    <2>4. QED
      BY <2>2, <2>3
  <1>2. kept \in Seq(1..(p + 1))
    BY SeqOfMore DEF Tells
  <1>3. ASSUME NEW j \in 1..(p + 1)
        PROVE  \E k \in 1..n : /\ kept[k] <= j /\ video[kept[k]] = video[j]
                               /\ \A m \in 1..n : kept[m] <= j => m <= k
    <2>1. CASE j \in 1..p
      BY <1>1, <2>1 DEF Tells
    <2>2. CASE j = p + 1
      <3>1. n \in 1..n /\ kept[n] <= j /\ video[kept[n]] = video[j]
        <4>1. n \in 1..n /\ kept[n] \in 1..p
          BY <1>1
        <4>2. QED
          BY <1>1, <2>2, <4>1
      <3>2. QED
        BY <3>1
    <2>3. QED
      BY <2>1, <2>2
  <1>4. /\ \A k, m \in 1..n : k < m => kept[k] < kept[m]
        /\ \A k \in 2..n : video[kept[k]] # video[kept[k - 1]]
    BY <1>1 DEF Tells
  <1>5. QED
    BY <1>1, <1>2, <1>3, <1>4 DEF Tells

\* One that shows something else is told by being kept.
LEMMA OtherIsKept ==
  ASSUME NEW video, NEW p \in Nat, NEW kept, Tells(kept, video, p),
         kept # <<>> => video[kept[Len(kept)]] # video[p + 1]
  PROVE  Tells(Append(kept, p + 1), video, p + 1)
  <1>1. kept \in Seq(1..p)
    BY DEF Tells
  <1>2. PICK n \in Nat : n = Len(kept) /\ (kept # <<>> <=> n > 0)
    BY <1>1, EmptySeq, LenProperties
  <1>3. \A k \in 1..n : kept[k] \in 1..p
    BY <1>1, <1>2, ElementOfSeq
  <1>4. PICK r : r = Append(kept, p + 1)
    OBVIOUS
  <1>5. kept \in Seq(1..(p + 1)) /\ p + 1 \in 1..(p + 1)
    BY <1>1, SeqOfMore
  <1>6. /\ r \in Seq(1..(p + 1)) /\ Len(r) = n + 1 /\ r[n + 1] = p + 1
        /\ \A k \in 1..n : r[k] = kept[k]
    BY <1>2, <1>4, <1>5, AppendProperties
  <1>7. ASSUME NEW k \in 1..(n + 1), NEW m \in 1..(n + 1), k < m PROVE r[k] < r[m]
    <2>1. k \in 1..n
      BY <1>7
    <2>2. CASE m \in 1..n
      BY <1>2, <1>6, <1>7, <2>1, <2>2 DEF Tells
    <2>3. CASE m = n + 1
      BY <1>3, <1>6, <2>1, <2>3
    <2>4. QED
      BY <2>2, <2>3
  <1>8. ASSUME NEW k \in 2..(n + 1) PROVE video[r[k]] # video[r[k - 1]]
    <2>1. k - 1 \in 1..n
      OBVIOUS
    <2>2. CASE k \in 2..n
      <3>1. k \in 1..n
        BY <2>2
      <3>2. video[kept[k]] # video[kept[k - 1]]
        BY <1>2, <2>2 DEF Tells
      <3>3. QED
        BY <1>6, <2>1, <3>1, <3>2
    <2>3. CASE k = n + 1
      <3>1. k - 1 = n /\ n > 0 /\ n \in 1..n
        BY <2>1, <2>3
      <3>2. r[k - 1] = kept[n] /\ r[k] = p + 1
        BY <1>6, <2>3, <3>1
      <3>3. QED
        BY <1>2, <3>1, <3>2
    <2>4. QED
      BY <2>2, <2>3
  <1>9. ASSUME NEW j \in 1..(p + 1)
        PROVE  \E k \in 1..(n + 1) : /\ r[k] <= j /\ video[r[k]] = video[j]
                                     /\ \A m \in 1..(n + 1) : r[m] <= j => m <= k
    <2>1. CASE j \in 1..p
      <3>1. PICK k \in 1..n : /\ kept[k] <= j /\ video[kept[k]] = video[j]
                              /\ \A m \in 1..n : kept[m] <= j => m <= k
        BY <1>2, <2>1 DEF Tells
      <3>2. k \in 1..(n + 1) /\ r[k] <= j /\ video[r[k]] = video[j]
        BY <1>6, <3>1
      <3>3. ASSUME NEW m \in 1..(n + 1), r[m] <= j PROVE m <= k
        <4>1. m # n + 1
          BY <1>6, <2>1, <3>3
        <4>2. m \in 1..n
          BY <4>1
        <4>3. kept[m] <= j
          BY <1>6, <3>3, <4>2
        <4>4. QED
          BY <3>1, <4>2, <4>3
      <3>4. QED
        BY <3>2, <3>3
    <2>2. CASE j = p + 1
      <3>1. n + 1 \in 1..(n + 1) /\ r[n + 1] <= j /\ video[r[n + 1]] = video[j]
        BY <1>6, <2>2
      <3>2. QED
        BY <3>1
    <2>3. QED
      BY <2>1, <2>2
  <1>10. Tells(r, video, p + 1)
    BY <1>6, <1>7, <1>8, <1>9 DEF Tells
  <1>11. QED
    BY <1>4, <1>10

\* What the property says of kept frames that tell a video.
LEMMA TellsIsEnough ==
  ASSUME NEW video, NEW p \in Nat, NEW kept, Tells(kept, video, p), NEW j \in 1..p
  PROVE  LET upTo == {i \in Range(kept) : i <= j}
         IN  upTo # {} /\ video[Max(upTo)] = video[j]
  <1> DEFINE upTo == {i \in Range(kept) : i <= j}
  <1>1. kept \in Seq(1..p)
    BY DEF Tells
  <1>2. PICK n \in Nat : n = Len(kept) /\ DOMAIN kept = 1..n
    BY <1>1, LenProperties
  <1>3. \A k \in 1..n : kept[k] \in 1..p
    BY <1>1, <1>2, ElementOfSeq
  <1>4. PICK k \in 1..n : /\ kept[k] <= j /\ video[kept[k]] = video[j]
                          /\ \A m \in 1..n : kept[m] <= j => m <= k
    BY <1>2 DEF Tells
  <1>5. upTo \in SUBSET (1..p) /\ \A i \in upTo : i <= j /\ \E m \in 1..n : i = kept[m]
    BY <1>2, <1>3 DEF Range
  <1>6. kept[k] \in upTo
    BY <1>2, <1>4 DEF Range
  <1> HIDE DEF upTo
  <1>7. IsFiniteSet(upTo)
    <2>1. IsFiniteSet(1..p)
      BY FS_Interval
    <2>2. QED
      BY <1>5, <2>1, FS_Subset
  <1>8. PICK c : c = Max(upTo)
    OBVIOUS
  <1>9. c \in upTo /\ \A i \in upTo : i <= c
    <2>1. upTo \in SUBSET Int /\ upTo # {}
      BY <1>5, <1>6
    <2>2. QED
      BY <1>7, <1>8, <2>1, MaxFacts
  <1>10. PICK m \in 1..n : c = kept[m] /\ kept[m] <= j
    BY <1>5, <1>9
  <1>11. m <= k
    BY <1>4, <1>10
  <1>12. m = k
    <2>1. ASSUME m < k PROVE FALSE
      <3>1. kept[m] < kept[k]
        BY <1>2, <2>1 DEF Tells
      <3>2. kept[k] <= kept[m]
        BY <1>6, <1>9, <1>10
      <3>3. kept[m] \in 1..p /\ kept[k] \in 1..p
        BY <1>3
      <3>4. QED
        BY <3>1, <3>2, <3>3
    <2>2. QED
      BY <1>11, <2>1
  <1>13. QED
    BY <1>4, <1>6, <1>8, <1>10, <1>12 DEF upTo

-----------------------------------------------------------------------------
(* Sizes *)

MaxBody == Max({Len(b1) : b1 \in Bodies})
Room == Cardinality(PartNames) * MaxBody

\* No part has more pictures than MaxBody, and the frames of all parts are numbered.
LEMMA SizeFacts ==
  /\ MaxBody \in Nat /\ Cardinality(PartNames) \in Nat /\ Room \in Nat /\ FrameNumbers = 1..Room
  /\ \A b1 \in Bodies : b1 \in Seq(Pictures) /\ Len(b1) \in Nat /\ Len(b1) <= MaxBody
  <1> DEFINE f == [x \in Bodies |-> Len(x)]
             T == {f[x] : x \in Bodies}
  <1>1. \A x \in Bodies : x \in Seq(Pictures) /\ Len(x) \in Nat
    BY RecordingAssumption, LenProperties
  <1>2. T = {Len(x) : x \in Bodies} /\ T \in SUBSET Int /\ T \in SUBSET Nat /\ T # {}
    <2>1. T = {Len(x) : x \in Bodies}
      OBVIOUS
    <2>2. \A x \in Bodies : f[x] \in Nat
      BY <1>1
    <2> HIDE DEF f
    <2>3. T \in SUBSET Nat
      BY <2>2
    <2>4. T # {}
      BY RecordingAssumption
    <2> HIDE DEF T
    <2>5. QED
      BY <2>1, <2>3, <2>4
  <1>3. \A x \in Bodies : f[x] = Len(x) /\ f[x] \in T
    OBVIOUS
  <1>4. DOMAIN f = Bodies /\ f = [x \in Bodies |-> f[x]]
    OBVIOUS
  <1> HIDE DEF f
  <1>5. IsFiniteSet(T)
    BY <1>4, FiniteImage, RecordingAssumption
  <1> HIDE DEF T
  <1>6. MaxBody \in T /\ \A x \in T : x <= MaxBody
    <2>1. MaxBody = Max(T)
      BY <1>2 DEF MaxBody
    <2>2. QED
      BY <1>2, <1>5, <2>1, MaxFacts
  <1>7. Cardinality(PartNames) \in Nat
    BY FS_CardinalityType, RecordingAssumption
  <1>8. MaxBody \in Nat
    BY <1>2, <1>6
  <1>9. Room \in Nat
    <2>1. \A x, y \in Nat : x * y \in Nat
      OBVIOUS
    <2>2. QED
      BY <1>7, <1>8, <2>1 DEF Room
  <1>10. FrameNumbers = 1..Room
    BY DEF FrameNumbers, Room, MaxBody
  <1>11. QED
    BY <1>1, <1>3, <1>6, <1>7, <1>8, <1>9, <1>10

\* A part less to read makes room for its pictures.
LEMMA ReadMakesRoom ==
  ASSUME NEW m \in Nat, NEW r \in Nat, NEW l \in Nat, NEW x \in Nat, NEW room \in Nat,
         l <= x, m + (r + 1) * x <= room
  PROVE  (m + l) + r * x <= room
  <1>1. (r + 1) * x = r * x + x /\ r * x \in Nat
    OBVIOUS
  <1>2. PICK y \in Nat : y = r * x
    BY <1>1
  <1>3. m + (y + x) <= room
    BY <1>1, <1>2
  <1>4. (m + l) + y <= room
    BY <1>3
  <1>5. QED
    BY <1>2, <1>4

-----------------------------------------------------------------------------
(* The invariant *)

Stages == {"idle", "merging", "audio", "sampling", "thinning", "purging", "done"}
Been == [uploads: Nat, merges: Nat, names: Seq(PartNames), video: Seq(Pictures)]

\* What is merged so far and the parts that are still to be read have room.
MergeOK(st, me, re) ==
  /\ me \in Seq(Pictures) \cup {Nothing}
  /\ st = "merging" => /\ me \in Seq(Pictures) /\ re \in Seq(PartNames)
                       /\ Len(me) + Len(re) * MaxBody <= Room
  /\ st \in {"audio", "sampling", "thinning", "purging"} => me \in Seq(Pictures) /\ Len(me) <= Room
  /\ st \notin {"merging", "thinning"} => re = <<>>

\* Frames in the spool are frames of the temporary directory.
SpoolOK(st, te, pe, ca) ==
  /\ te \in Seq(Pictures) /\ Len(te) <= Room
  /\ pe \in Seq(1..Len(te))
  /\ ca \in [FrameNumbers -> Pictures \cup {Nothing}]
  /\ st # "thinning" => pe = <<>>

\* A frame that is kept is captured or in the spool.
Captured(kept, pe, ca, video) ==
  /\ kept \in Seq(1..Len(video))
  /\ \A k \in 1..Len(kept) :
       ca[kept[k]] = video[kept[k]] \/ \E m \in 1..Len(pe) : pe[m] = kept[k]

\* What is left of the loop, when the numbers fit the padding.
GoesOn(re, n) == Len(re) <= n /\ \A k \in 1..Len(re) : re[k] = n - Len(re) + k

ThinOK(st, re, te, pe, fr, ca, video) ==
  st = "thinning" =>
    /\ te = video /\ re \in Seq(1..Len(te)) /\ Captured(fr, pe, ca, te)
    /\ Len(te) < Power[FrameDigits] => GoesOn(re, Len(te)) /\ Tells(fr, te, Len(te) - Len(re))

DoneOK(st, fr, ca, video) ==
  st \in {"purging", "done"} =>
    /\ Len(video) <= Room /\ Captured(fr, <<>>, ca, video)
    /\ Len(video) < Power[FrameDigits] => Tells(fr, video, Len(video))

RecInv ==
  /\ files \in [PartNames -> Bodies \cup {Nothing}]
  /\ stage \in Stages
  /\ been \in Been
  /\ \E names \in SUBSET PartNames : been.names = PartsSorted(names)
  /\ frames \in Seq(FrameNumbers)
  /\ MergeOK(stage, merged, reading)
  /\ SpoolOK(stage, temp, pending, captures)
  /\ ThinOK(stage, reading, temp, pending, frames, captures, been.video)
  /\ DoneOK(stage, frames, captures, been.video)

LEMMA EmptyFacts == \A S : <<>> \in Seq(S) /\ Len(<<>>) = 0
  BY EmptySeq

LEMMA RecInit == RecordingInit => RecInv
  <1> SUFFICES ASSUME RecordingInit PROVE RecInv
    OBVIOUS
  <1>1. /\ files = [n \in PartNames |-> Nothing] /\ stage = "idle" /\ reading = <<>>
        /\ merged = Nothing /\ temp = <<>> /\ pending = <<>>
        /\ captures = [i \in FrameNumbers |-> Nothing] /\ frames = <<>>
        /\ been = [uploads |-> 0, merges |-> 0, names |-> <<>>, video |-> <<>>]
    BY DEF RecordingInit
  <1>2. PartsSorted({}) = <<>>
    <2>1. PartsSorted({}) \in Seq({}) /\ Len(PartsSorted({})) = Cardinality({})
      BY PartsSortedFacts
    <2>2. Cardinality({}) = 0
      BY FS_EmptySet
    <2>3. QED
      BY <2>1, <2>2, EmptySeq
  <1>3. been \in Been /\ been.names = <<>> /\ been.video = <<>>
    BY <1>1, EmptyFacts DEF Been
  <1>4. MergeOK(stage, merged, reading)
    BY <1>1 DEF MergeOK
  <1>5. SpoolOK(stage, temp, pending, captures)
    <2>1. 0 <= Room
      BY SizeFacts
    <2>2. QED
      BY <1>1, <2>1, EmptyFacts DEF SpoolOK
  <1>6. ThinOK(stage, reading, temp, pending, frames, captures, been.video)
    BY <1>1 DEF ThinOK
  <1>7. DoneOK(stage, frames, captures, been.video)
    BY <1>1 DEF DoneOK
  <1>8. files \in [PartNames -> Bodies \cup {Nothing}] /\ stage \in Stages
    BY <1>1 DEF Stages
  <1>9. frames \in Seq(FrameNumbers)
    BY <1>1, EmptyFacts
  <1>10. QED
    BY <1>2, <1>3, <1>4, <1>5, <1>6, <1>7, <1>8, <1>9 DEF RecInv

\* What copying frames of the temporary directory leaves in the captures directory.
LEMMA CopiedFacts ==
  ASSUME SpoolOK(stage, temp, pending, captures), NEW numbers \in Seq(1..Len(temp))
  PROVE  /\ Copied(numbers) \in [FrameNumbers -> Pictures \cup {Nothing}]
         /\ \A k \in 1..Len(numbers) : Copied(numbers)[numbers[k]] = temp[numbers[k]]
         /\ \A i \in FrameNumbers : captures[i] = temp[i] => Copied(numbers)[i] = temp[i]
  <1>1. temp \in Seq(Pictures) /\ captures \in [FrameNumbers -> Pictures \cup {Nothing}]
    BY DEF SpoolOK
  <1>2. PICK n \in Nat : n = Len(temp) /\ n <= Room
    BY LenProperties DEF SpoolOK
  <1>3. \A i \in 1..n : temp[i] \in Pictures /\ i \in FrameNumbers
    BY <1>1, <1>2, ElementOfSeq, SizeFacts
  <1>4. \A k \in 1..Len(numbers) : numbers[k] \in 1..n /\ numbers[k] \in Range(numbers)
    BY <1>2, ElementOfSeq, LenProperties DEF Range
  <1>5. \A i \in Range(numbers) : i \in 1..n
    BY <1>2, RangeOfSeq DEF Range
  <1>6. Copied(numbers) = [i \in FrameNumbers |-> IF i \in Range(numbers) THEN temp[i] ELSE captures[i]]
    BY DEF Copied
  <1>7. QED
    BY <1>1, <1>3, <1>4, <1>5, <1>6

\* Copying what was in the spool captures what is kept.
LEMMA CopiedIsCaptured ==
  ASSUME SpoolOK(stage, temp, pending, captures), NEW numbers \in Seq(1..Len(temp)), NEW kept,
         Captured(kept, numbers, captures, temp)
  PROVE  Captured(kept, <<>>, Copied(numbers), temp)
  <1>1. kept \in Seq(1..Len(temp))
    BY DEF Captured
  <1>2. PICK n \in Nat : n = Len(temp) /\ n <= Room
    BY LenProperties DEF SpoolOK
  <1>3. \A k \in 1..Len(kept) : kept[k] \in 1..n /\ kept[k] \in FrameNumbers
    BY <1>1, <1>2, ElementOfSeq, SizeFacts
  <1>4. ASSUME NEW k \in 1..Len(kept) PROVE Copied(numbers)[kept[k]] = temp[kept[k]]
    <2>1. captures[kept[k]] = temp[kept[k]] \/ \E m \in 1..Len(numbers) : numbers[m] = kept[k]
      BY DEF Captured
    <2>2. CASE captures[kept[k]] = temp[kept[k]]
      BY <1>3, <2>2, CopiedFacts
    <2>3. CASE \E m \in 1..Len(numbers) : numbers[m] = kept[k]
      BY <2>3, CopiedFacts
    <2>4. QED
      BY <2>1, <2>2, <2>3
  <1>5. QED
    BY <1>1, <1>4 DEF Captured

-----------------------------------------------------------------------------
(* Every step keeps the invariant *)

\* The parts of the invariant that only what is named here can disturb.
LEMMA RecStutter ==
  ASSUME RecInv, UNCHANGED <<stage, reading, merged, temp, pending, captures, frames>>,
         files' \in [PartNames -> Bodies \cup {Nothing}],
         been' \in Been, been'.names = been.names, been'.video = been.video
  PROVE  RecInv'
  <1>1. /\ stage' = stage /\ reading' = reading /\ merged' = merged /\ temp' = temp
        /\ pending' = pending /\ captures' = captures /\ frames' = frames
    OBVIOUS
  <1>2. MergeOK(stage', merged', reading')
    BY <1>1 DEF RecInv
  <1>3. SpoolOK(stage', temp', pending', captures')
    BY <1>1 DEF RecInv
  <1>4. ThinOK(stage', reading', temp', pending', frames', captures', been'.video)
    BY <1>1 DEF RecInv
  <1>5. DoneOK(stage', frames', captures', been'.video)
    BY <1>1 DEF RecInv
  <1>6. stage' \in Stages /\ frames' \in Seq(FrameNumbers)
    BY <1>1 DEF RecInv
  <1>7. \E names \in SUBSET PartNames : been'.names = PartsSorted(names)
    BY DEF RecInv
  <1>8. QED
    BY <1>2, <1>3, <1>4, <1>5, <1>6, <1>7 DEF RecInv

\* Uploads touch the parts alone.
LEMMA RecUpload ==
  ASSUME RecInv, NEW n \in PartNames, NEW body \in Bodies \cup {Nothing}, UploadBody(n, body)
  PROVE  RecInv'
  <1>1. files' \in [PartNames -> Bodies \cup {Nothing}]
    BY DEF RecInv, UploadBody
  <1>2. /\ been' = [been EXCEPT !.uploads = been.uploads + 1]
        /\ UNCHANGED <<stage, reading, merged, temp, pending, captures, frames>>
    BY DEF UploadBody
  <1>3. been' \in Been /\ been'.names = been.names /\ been'.video = been.video
    BY <1>2 DEF RecInv, Been
  <1>4. QED
    BY <1>1, <1>2, <1>3, RecStutter

\* Any set of the parts has room.
LEMMA PartsHaveRoom ==
  ASSUME NEW names \in SUBSET PartNames
  PROVE  /\ Len(PartsSorted(names)) \in Nat
         /\ Len(PartsSorted(names)) * MaxBody <= Room
  <1>1. Cardinality(names) <= Cardinality(PartNames)
    BY FS_Subset, RecordingAssumption
  <1>2. PICK x \in Nat : x = Cardinality(names) /\ x = Len(PartsSorted(names))
    BY PartsSortedFacts
  <1>3. PICK y \in Nat : y = Cardinality(PartNames)
    BY SizeFacts
  <1>4. PICK z \in Nat : z = MaxBody
    BY SizeFacts
  <1>5. x * z <= y * z
    <2>1. x <= y
      BY <1>1, <1>2, <1>3
    <2>2. PICK d \in Nat : y = x + d
      <3>1. y - x \in Nat /\ y = x + (y - x)
        BY <2>1
      <3>2. QED
        BY <3>1
    <2>3. y * z = x * z + d * z /\ x * z \in Nat /\ d * z \in Nat
      BY <2>2
    <2>4. QED
      BY <2>3
  <1>6. QED
    BY <1>2, <1>3, <1>4, <1>5 DEF Room

\* A merge begins with the parts there are, in order, and nothing merged.
LEMMA RecBeginMerge == ASSUME RecInv, BeginMerge PROVE RecInv'
  <1>1. /\ stage \in {"idle", "done"} /\ stage' = "merging" /\ merged' = <<>>
        /\ reading' = PartsSorted(Uploaded)
        /\ been' = [been EXCEPT !.merges = been.merges + 1, !.names = PartsSorted(Uploaded)]
        /\ files' = files /\ temp' = temp /\ pending' = pending /\ captures' = captures
        /\ frames' = frames
    BY DEF BeginMerge
  <1>2. PICK names \in SUBSET PartNames : names = Uploaded
    BY DEF Uploaded
  <1>3. PICK s : s = PartsSorted(names)
    OBVIOUS
  <1>4. s \in Seq(PartNames) /\ Len(s) \in Nat /\ Len(s) * MaxBody <= Room
    <2>1. s \in Seq(names)
      BY <1>3, PartsSortedFacts
    <2>2. s \in Seq(PartNames)
      BY <2>1, SeqMonotonic
    <2>3. QED
      BY <1>3, <2>2, PartsHaveRoom
  <1>5. been' \in Been /\ been'.names = s
    <2>1. PartsSorted(Uploaded) = s
      BY <1>2, <1>3
    <2>2. been' = [been EXCEPT !.merges = been.merges + 1, !.names = s]
      BY <1>1, <2>1
    <2>3. been \in Been
      BY DEF RecInv
    <2>4. PICK x : x = [been EXCEPT !.merges = been.merges + 1]
      OBVIOUS
    <2>5. x \in Been
      BY <2>3, <2>4 DEF Been
    <2>6. been' = [x EXCEPT !.names = s]
      BY <2>2, <2>4
    <2>7. QED
      BY <1>4, <2>5, <2>6 DEF Been
  <1>6. MergeOK(stage', merged', reading')
    <2>1. merged' \in Seq(Pictures) /\ Len(merged') = 0
      BY <1>1, EmptyFacts
    <2>2. reading' = s
      BY <1>1, <1>2, <1>3
    <2>3. PICK y \in Nat : y = MaxBody
      BY SizeFacts
    <2>4. PICK x \in Nat : x = Len(s) /\ x * y \in Nat /\ x * y <= Room
      BY <1>4, <2>3
    <2>5. 0 + x * y <= Room
      BY <2>4
    <2>6. Len(merged') + Len(reading') * MaxBody <= Room
      BY <2>1, <2>2, <2>3, <2>4, <2>5
    <2>7. QED
      BY <1>1, <1>4, <2>1, <2>2, <2>6 DEF MergeOK
  <1>7. SpoolOK(stage', temp', pending', captures')
    BY <1>1 DEF RecInv, SpoolOK
  <1>8. ThinOK(stage', reading', temp', pending', frames', captures', been'.video)
    BY <1>1 DEF ThinOK
  <1>9. DoneOK(stage', frames', captures', been'.video)
    BY <1>1 DEF DoneOK
  <1>10. /\ files' \in [PartNames -> Bodies \cup {Nothing}] /\ stage' \in Stages
         /\ frames' \in Seq(FrameNumbers)
    BY <1>1 DEF RecInv, Stages
  <1>11. \E x \in SUBSET PartNames : been'.names = PartsSorted(x)
    BY <1>2, <1>3, <1>5
  <1>12. QED
    BY <1>5, <1>6, <1>7, <1>8, <1>9, <1>10, <1>11 DEF RecInv

\* What a part adds to the merged file has been reserved for it.
LEMMA RecReadPart == ASSUME RecInv, ReadPart PROVE RecInv'
  <1>1. /\ stage = "merging" /\ stage' = stage /\ reading # <<>>
        /\ files[Head(reading)] # Nothing
        /\ merged' = merged \o files[Head(reading)] /\ reading' = Tail(reading)
        /\ files' = files /\ temp' = temp /\ pending' = pending /\ captures' = captures
        /\ frames' = frames /\ been' = been
    BY DEF ReadPart
  <1>2. /\ merged \in Seq(Pictures) /\ reading \in Seq(PartNames)
        /\ Len(merged) + Len(reading) * MaxBody <= Room
    BY <1>1 DEF RecInv, MergeOK
  <1>3. Head(reading) \in PartNames /\ Tail(reading) \in Seq(PartNames)
        /\ Len(Tail(reading)) = Len(reading) - 1
    BY <1>1, <1>2, HeadTailProperties
  <1>4. PICK body \in Bodies : body = files[Head(reading)]
    BY <1>1, <1>3 DEF RecInv
  <1>5. PICK l \in Nat : l = Len(body) /\ l <= MaxBody
    BY SizeFacts
  <1>6. PICK m \in Nat : m = Len(merged)
    BY <1>2, LenProperties
  <1>7. PICK r \in Nat : r = Len(Tail(reading)) /\ r + 1 = Len(reading)
    <2>1. PICK k \in Nat : k = Len(reading)
      BY <1>2, LenProperties
    <2>2. PICK t \in Nat : t = Len(Tail(reading))
      BY <1>3, LenProperties
    <2>3. t = k - 1
      BY <1>3, <2>1, <2>2
    <2>4. t + 1 = k
      BY <2>3
    <2>5. QED
      BY <2>1, <2>2, <2>4
  <1>8. PICK x \in Nat : x = MaxBody
    BY SizeFacts
  <1>9. PICK room \in Nat : room = Room
    BY SizeFacts
  <1>10. (m + l) + r * x <= room
    <2>1. m + (r + 1) * x <= room /\ l <= x
      BY <1>2, <1>5, <1>6, <1>7, <1>8, <1>9
    <2>2. QED
      BY <2>1, ReadMakesRoom
  <1>11. merged' \in Seq(Pictures) /\ Len(merged') = m + l
    <2>1. body \in Seq(Pictures)
      BY SizeFacts
    <2>2. QED
      BY <1>1, <1>2, <1>4, <1>5, <1>6, <2>1, ConcatProperties
  <1>12. MergeOK(stage', merged', reading')
    <2>1. Len(merged') + Len(reading') * MaxBody <= Room
      BY <1>1, <1>7, <1>8, <1>9, <1>10, <1>11
    <2>2. QED
      BY <1>1, <1>3, <1>11, <2>1 DEF MergeOK
  <1>13. SpoolOK(stage', temp', pending', captures')
    BY <1>1 DEF RecInv
  <1>14. ThinOK(stage', reading', temp', pending', frames', captures', been'.video)
    BY <1>1 DEF ThinOK
  <1>15. DoneOK(stage', frames', captures', been'.video)
    BY <1>1 DEF DoneOK
  <1>16. QED
    BY <1>1, <1>12, <1>13, <1>14, <1>15 DEF RecInv

\* The merged file is complete.
LEMMA RecMergeEnds == ASSUME RecInv, MergeEnds PROVE RecInv'
  <1>1. /\ stage = "merging" /\ stage' = "audio" /\ reading = <<>>
        /\ files' = files /\ reading' = reading /\ merged' = merged /\ temp' = temp
        /\ pending' = pending /\ captures' = captures /\ frames' = frames /\ been' = been
    BY DEF MergeEnds
  <1>2. MergeOK(stage', merged', reading')
    <2>1. merged \in Seq(Pictures) /\ Len(merged) + Len(reading) * MaxBody <= Room
      BY <1>1 DEF RecInv, MergeOK
    <2>2. PICK m \in Nat : m = Len(merged)
      BY <2>1, LenProperties
    <2>3. PICK x \in Nat : x = MaxBody
      BY SizeFacts
    <2>4. PICK y \in Nat : y = Room
      BY SizeFacts
    <2>5. m + 0 * x <= y
      BY <1>1, <2>1, <2>2, <2>3, <2>4, EmptyFacts
    <2>6. m <= y
      BY <2>5
    <2>7. QED
      BY <1>1, <2>1, <2>2, <2>4, <2>6 DEF MergeOK
  <1>3. SpoolOK(stage', temp', pending', captures')
    BY <1>1 DEF RecInv, SpoolOK
  <1>4. ThinOK(stage', reading', temp', pending', frames', captures', been'.video)
    BY <1>1 DEF ThinOK
  <1>5. DoneOK(stage', frames', captures', been'.video)
    BY <1>1 DEF DoneOK
  <1>6. QED
    BY <1>1, <1>2, <1>3, <1>4, <1>5 DEF RecInv, Stages

LEMMA RecAudio == ASSUME RecInv, AudioExtracted PROVE RecInv'
  <1>1. /\ stage = "audio" /\ stage' = "sampling"
        /\ files' = files /\ reading' = reading /\ merged' = merged /\ temp' = temp
        /\ pending' = pending /\ captures' = captures /\ frames' = frames /\ been' = been
    BY DEF AudioExtracted
  <1>2. MergeOK(stage', merged', reading')
    BY <1>1 DEF RecInv, MergeOK
  <1>3. SpoolOK(stage', temp', pending', captures')
    BY <1>1 DEF RecInv, SpoolOK
  <1>4. ThinOK(stage', reading', temp', pending', frames', captures', been'.video)
    BY <1>1 DEF ThinOK
  <1>5. DoneOK(stage', frames', captures', been'.video)
    BY <1>1 DEF DoneOK
  <1>6. QED
    BY <1>1, <1>2, <1>3, <1>4, <1>5 DEF RecInv, Stages

\* The loop begins with every frame before it and nothing kept.
LEMMA RecSampled == ASSUME RecInv, Sampled PROVE RecInv'
  <1>1. /\ stage = "sampling" /\ stage' = "thinning"
        /\ temp' = merged /\ reading' = FramesSorted(Len(merged)) /\ frames' = <<>>
        /\ been' = [been EXCEPT !.video = merged]
        /\ files' = files /\ merged' = merged /\ pending' = pending /\ captures' = captures
    BY DEF Sampled
  <1>2. merged \in Seq(Pictures) /\ Len(merged) <= Room
    BY <1>1 DEF RecInv, MergeOK
  <1>3. PICK n \in Nat : n = Len(merged) /\ n <= Room
    BY <1>2, LenProperties
  <1>4. PICK re : re = FramesSorted(n) /\ re = reading'
    BY <1>1, <1>3
  <1>5. /\ re \in Seq(1..n) /\ Len(re) = n
        /\ n < Power[FrameDigits] => \A k \in 1..n : re[k] = k
    BY <1>4, FramesSortedFacts
  <1>6. been' \in Been /\ been'.names = been.names /\ been'.video = merged
    BY <1>1, <1>2 DEF RecInv, Been
  <1>7. MergeOK(stage', merged', reading')
    BY <1>1, <1>2 DEF MergeOK
  <1>8. SpoolOK(stage', temp', pending', captures')
    <2>1. pending = <<>> /\ captures \in [FrameNumbers -> Pictures \cup {Nothing}]
      BY <1>1 DEF RecInv, SpoolOK
    <2>2. QED
      BY <1>1, <1>2, <2>1, EmptyFacts DEF SpoolOK
  <1>9. Captured(<<>>, pending', captures', merged)
    BY EmptyFacts DEF Captured
  <1>10. n < Power[FrameDigits] => GoesOn(re, n) /\ Tells(<<>>, merged, n - Len(re))
    <2>1. ASSUME n < Power[FrameDigits] PROVE GoesOn(re, n)
      <3>1. \A k \in 1..n : re[k] = n - n + k
        BY <1>5, <2>1
      <3>2. QED
        BY <1>5, <3>1 DEF GoesOn
    <2>2. n - Len(re) = 0
      BY <1>5
    <2>3. Tells(<<>>, merged, n - Len(re))
      BY <2>2, NothingIsTold
    <2>4. QED
      BY <2>1, <2>3
  <1>11. ThinOK(stage', reading', temp', pending', frames', captures', been'.video)
    BY <1>1, <1>3, <1>4, <1>5, <1>6, <1>9, <1>10 DEF ThinOK
  <1>12. DoneOK(stage', frames', captures', been'.video)
    BY <1>1 DEF DoneOK
  <1>13. /\ files' \in [PartNames -> Bodies \cup {Nothing}] /\ stage' \in Stages
         /\ frames' \in Seq(FrameNumbers)
    BY <1>1, EmptyFacts DEF RecInv, Stages
  <1>14. \E names \in SUBSET PartNames : been'.names = PartsSorted(names)
    BY <1>6 DEF RecInv
  <1>15. QED
    BY <1>6, <1>7, <1>8, <1>11, <1>12, <1>13, <1>14 DEF RecInv

\* The loop has been through all frames, and the spool is copied.
LEMMA RecLastFlush == ASSUME RecInv, LastFlush PROVE RecInv'
  <1>1. /\ stage = "thinning" /\ stage' = "purging" /\ reading = <<>>
        /\ captures' = Copied(pending) /\ pending' = <<>> /\ temp' = <<>>
        /\ files' = files /\ reading' = reading /\ merged' = merged /\ frames' = frames
        /\ been' = been
    BY DEF LastFlush
  <1>2. SpoolOK(stage, temp, pending, captures) /\ pending \in Seq(1..Len(temp))
    BY DEF RecInv, SpoolOK
  <1>3. /\ temp = been.video /\ Captured(frames, pending, captures, temp)
        /\ Len(temp) < Power[FrameDigits] =>
             GoesOn(reading, Len(temp)) /\ Tells(frames, temp, Len(temp) - Len(reading))
    BY <1>1 DEF RecInv, ThinOK
  <1>4. PICK n \in Nat : n = Len(temp) /\ n <= Room
    BY <1>2, LenProperties DEF SpoolOK
  <1>5. n - Len(reading) = n
    BY <1>1, EmptyFacts
  <1>6. Captured(frames, <<>>, captures', been.video)
    BY <1>1, <1>2, <1>3, CopiedIsCaptured
  <1>7. captures' \in [FrameNumbers -> Pictures \cup {Nothing}]
    BY <1>1, <1>2, CopiedFacts
  <1>8. DoneOK(stage', frames', captures', been'.video)
    <2>1. n < Power[FrameDigits] => Tells(frames, been.video, n)
      BY <1>3, <1>4, <1>5
    <2>2. QED
      BY <1>1, <1>3, <1>4, <1>6, <2>1 DEF DoneOK
  <1>9. SpoolOK(stage', temp', pending', captures')
    <2>1. 0 <= Room
      BY SizeFacts
    <2>2. QED
      BY <1>1, <1>7, <2>1, EmptyFacts DEF SpoolOK
  <1>10. MergeOK(stage', merged', reading')
    BY <1>1 DEF RecInv, MergeOK
  <1>11. ThinOK(stage', reading', temp', pending', frames', captures', been'.video)
    BY <1>1 DEF ThinOK
  <1>12. QED
    BY <1>1, <1>8, <1>9, <1>10, <1>11 DEF RecInv, Stages

LEMMA RecPurge == ASSUME RecInv, PurgeMerged PROVE RecInv'
  <1>1. /\ stage = "purging" /\ stage' = "done" /\ merged' = Nothing
        /\ files' = files /\ reading' = reading /\ temp' = temp
        /\ pending' = pending /\ captures' = captures /\ frames' = frames /\ been' = been
    BY DEF PurgeMerged
  <1>2. MergeOK(stage', merged', reading')
    BY <1>1 DEF RecInv, MergeOK
  <1>3. SpoolOK(stage', temp', pending', captures')
    BY <1>1 DEF RecInv, SpoolOK
  <1>4. ThinOK(stage', reading', temp', pending', frames', captures', been'.video)
    BY <1>1 DEF ThinOK
  <1>5. DoneOK(stage', frames', captures', been'.video)
    BY <1>1 DEF RecInv, DoneOK
  <1>6. QED
    BY <1>1, <1>2, <1>3, <1>4, <1>5 DEF RecInv, Stages

\* A failure drops the spool and the kept frames; what was copied is a picture still.
LEMMA RecFails == ASSUME RecInv, MediaFails PROVE RecInv'
  <1>1. /\ stage \in {"merging", "audio", "sampling", "thinning"}
        /\ stage' \in {"idle", "audio"} /\ (stage = "merging" => stage' = "idle")
        /\ pending' = <<>> /\ temp' = <<>> /\ reading' = <<>> /\ frames' = <<>>
        /\ files' = files /\ merged' = merged /\ been' = been
    BY DEF MediaFails
  <1>2. SpoolOK(stage, temp, pending, captures) /\ pending \in Seq(1..Len(temp))
    BY DEF RecInv, SpoolOK
  <1>3. captures' \in [FrameNumbers -> Pictures \cup {Nothing}]
    <2>1. PICK n \in 0..Len(pending) : captures' = Copied(SubSeq(pending, 1, n))
      BY DEF MediaFails
    <2>2. n \in Int /\ (1 > n \/ (1 \in 1..Len(pending) /\ n \in 1..Len(pending)))
      BY <1>2, LenProperties
    <2>3. SubSeq(pending, 1, n) \in Seq(1..Len(temp))
      BY <1>2, <2>1, <2>2, SubSeqProperties
    <2>4. QED
      BY <1>2, <2>1, <2>3, CopiedFacts
  <1>4. SpoolOK(stage', temp', pending', captures')
    <2>1. 0 <= Room
      BY SizeFacts
    <2>2. QED
      BY <1>1, <1>3, <2>1, EmptyFacts DEF SpoolOK
  <1>5. MergeOK(stage', merged', reading')
    BY <1>1 DEF RecInv, MergeOK
  <1>6. ThinOK(stage', reading', temp', pending', frames', captures', been'.video)
    BY <1>1 DEF ThinOK
  <1>7. DoneOK(stage', frames', captures', been'.video)
    BY <1>1 DEF DoneOK
  <1>8. frames' \in Seq(FrameNumbers) /\ stage' \in Stages
    BY <1>1, EmptyFacts DEF Stages
  <1>9. QED
    BY <1>1, <1>4, <1>5, <1>6, <1>7, <1>8 DEF RecInv

\* A frame that is queued when it is kept is captured or in the spool.
LEMMA CapturedIsQueued ==
  ASSUME NEW video, NEW n \in Nat, n = Len(video), NEW i \in 1..n, NEW ca,
         NEW kept, NEW pe \in Seq(1..n), Captured(kept, pe, ca, video)
  PROVE  Captured(Append(kept, i), Append(pe, i), ca, video)
  <1>1. kept \in Seq(1..n)
    BY DEF Captured
  <1>2. PICK k \in Nat : k = Len(kept)
    BY <1>1, LenProperties
  <1>3. PICK p \in Nat : p = Len(pe)
    BY LenProperties
  <1>4. PICK kept2 : kept2 = Append(kept, i)
    OBVIOUS
  <1>5. PICK pe2 : pe2 = Append(pe, i)
    OBVIOUS
  <1>6. /\ kept2 \in Seq(1..n) /\ Len(kept2) = k + 1 /\ kept2[k + 1] = i
        /\ \A x \in 1..k : kept2[x] = kept[x]
    BY <1>1, <1>2, <1>4, AppendProperties
  <1>7. /\ Len(pe2) = p + 1 /\ pe2[p + 1] = i
        /\ \A x \in 1..p : pe2[x] = pe[x]
    BY <1>3, <1>5, AppendProperties
  <1>8. ASSUME NEW x \in 1..(k + 1)
        PROVE  ca[kept2[x]] = video[kept2[x]] \/ \E m \in 1..(p + 1) : pe2[m] = kept2[x]
    <2>1. CASE x = k + 1
      <3>1. p + 1 \in 1..(p + 1)
        OBVIOUS
      <3>2. QED
        BY <1>6, <1>7, <2>1, <3>1
    <2>2. CASE x \in 1..k
      <3>1. ca[kept[x]] = video[kept[x]] \/ \E m \in 1..p : pe[m] = kept[x]
        BY <1>2, <1>3, <2>2 DEF Captured
      <3>2. CASE ca[kept[x]] = video[kept[x]]
        BY <1>6, <2>2, <3>2
      <3>3. CASE \E m \in 1..p : pe[m] = kept[x]
        <4>1. PICK m \in 1..p : pe[m] = kept[x]
          BY <3>3
        <4>2. m \in 1..(p + 1) /\ pe2[m] = kept2[x]
          BY <1>6, <1>7, <2>2, <4>1
        <4>3. QED
          BY <4>2
      <3>4. QED
        BY <3>1, <3>2, <3>3
    <2>3. QED
      BY <2>1, <2>2
  <1>9. Captured(kept2, pe2, ca, video)
    BY <1>6, <1>7, <1>8 DEF Captured
  <1>10. QED
    BY <1>4, <1>5, <1>9

\* The loop takes the frame after the ones it has been through.
LEMMA OneFrameOn ==
  ASSUME NEW n \in Nat, NEW re \in Seq(1..n), re # <<>>, GoesOn(re, n)
  PROVE  /\ n - Len(re) \in Nat /\ Head(re) = (n - Len(re)) + 1
         /\ n - Len(Tail(re)) = (n - Len(re)) + 1 /\ GoesOn(Tail(re), n)
  <1>1. PICK r \in Nat : r = Len(re)
    BY LenProperties
  <1>2. r <= n /\ \A k \in 1..r : re[k] = n - r + k
    BY <1>1 DEF GoesOn
  <1>3. r > 0
    BY <1>1, EmptySeq
  <1>4. /\ Tail(re) \in Seq(1..n) /\ Len(Tail(re)) = r - 1
        /\ \A k \in 1..(r - 1) : Tail(re)[k] = re[k + 1]
    BY <1>1, HeadTailProperties
  <1>5. Head(re) = re[1]
    BY EmptySeq
  <1>6. re[1] = n - r + 1
    <2>1. 1 \in 1..r
      BY <1>3
    <2>2. QED
      BY <1>2, <2>1
  <1>7. \A k \in 1..(r - 1) : Tail(re)[k] = n - (r - 1) + k
    <2> SUFFICES ASSUME NEW k \in 1..(r - 1) PROVE Tail(re)[k] = n - (r - 1) + k
      OBVIOUS
    <2>1. k + 1 \in 1..r
      BY <1>3
    <2>2. re[k + 1] = n - r + (k + 1)
      BY <1>2, <2>1
    <2>3. QED
      BY <1>4, <2>2
  <1>8. GoesOn(Tail(re), n)
    <2>1. r - 1 <= n
      BY <1>2
    <2>2. QED
      BY <1>4, <1>7, <2>1 DEF GoesOn
  <1>9. QED
    BY <1>1, <1>2, <1>4, <1>5, <1>6, <1>8

\* One turn of the loop: what is kept, queued and captured after it.
LEMMA RecThin ==
  ASSUME RecInv, NEW due \in BOOLEAN, ThinFrame(due)
  PROVE  RecInv'
  <1>1. /\ stage = "thinning" /\ stage' = stage /\ reading # <<>> /\ reading' = Tail(reading)
        /\ files' = files /\ merged' = merged /\ temp' = temp /\ been' = been
    BY DEF ThinFrame
  <1>2. SpoolOK(stage, temp, pending, captures)
    BY DEF RecInv
  <1>3. /\ temp \in Seq(Pictures) /\ pending \in Seq(1..Len(temp))
        /\ captures \in [FrameNumbers -> Pictures \cup {Nothing}]
    BY <1>2 DEF SpoolOK
  <1>4. PICK n \in Nat : n = Len(temp) /\ n <= Room
    BY <1>2, <1>3, LenProperties DEF SpoolOK
  <1>5. /\ temp = been.video /\ reading \in Seq(1..n) /\ Captured(frames, pending, captures, temp)
        /\ n < Power[FrameDigits] => GoesOn(reading, n) /\ Tells(frames, temp, n - Len(reading))
    BY <1>1, <1>4 DEF RecInv, ThinOK
  <1>6. PICK i : i = Head(reading)
    OBVIOUS
  <1>7. i \in 1..n /\ reading' \in Seq(1..n)
    BY <1>1, <1>5, <1>6, HeadTailProperties
  <1>8. frames \in Seq(1..n)
    BY <1>4, <1>5 DEF Captured
  <1>9. /\ SpoolOK(stage', temp', pending', captures') /\ Captured(frames', pending', captures', temp)
        /\ n < Power[FrameDigits] => Tells(frames', temp, n - Len(reading'))
    <2>1. ASSUME n < Power[FrameDigits]
          PROVE  /\ n - Len(reading) \in Nat /\ i = (n - Len(reading)) + 1
                 /\ n - Len(reading') = (n - Len(reading)) + 1
                 /\ Tells(frames, temp, n - Len(reading))
      BY <1>1, <1>5, <1>6, <2>1, OneFrameOn
    <2>2. CASE frames # <<>> /\ temp[Last(frames)] = temp[i]
      <3>1. pending' = pending /\ captures' = captures /\ frames' = frames
        BY <1>6, <2>2 DEF ThinFrame
      <3>2. ASSUME n < Power[FrameDigits] PROVE Tells(frames', temp, n - Len(reading'))
        <4>1. PICK p \in Nat : p = n - Len(reading)
          BY <2>1, <3>2
        <4>2. Tells(frames, temp, p) /\ temp[frames[Len(frames)]] = temp[p + 1] /\ frames # <<>>
          BY <2>1, <2>2, <3>2, <4>1 DEF Last
        <4>3. Tells(frames, temp, p + 1)
          BY <4>2, SameIsLeftOut
        <4>4. QED
          BY <2>1, <3>1, <3>2, <4>1, <4>3
      <3>3. QED
        BY <1>1, <1>2, <1>5, <3>1, <3>2
    <2>3. CASE ~(frames # <<>> /\ temp[Last(frames)] = temp[i])
      <3>1. frames' = Append(frames, i) /\ Enqueue(i, due)
        BY <1>6, <2>3 DEF ThinFrame
      <3>2. PICK spool : spool = Append(pending, i)
        OBVIOUS
      <3>3. spool \in Seq(1..n)
        BY <1>3, <1>4, <1>7, <3>2, AppendProperties
      <3>4. Captured(frames', spool, captures, temp)
        <4>1. pending \in Seq(1..n) /\ Captured(frames, pending, captures, temp)
          BY <1>3, <1>4, <1>5
        <4>2. QED
          BY <1>4, <1>7, <3>1, <3>2, <4>1, CapturedIsQueued
      <3>5. ASSUME n < Power[FrameDigits] PROVE Tells(frames', temp, n - Len(reading'))
        <4>1. PICK p \in Nat : p = n - Len(reading)
          BY <2>1, <3>5
        <4>2. Tells(frames, temp, p) /\ i = p + 1
          BY <2>1, <3>5, <4>1
        <4>3. frames # <<>> => temp[frames[Len(frames)]] # temp[p + 1]
          BY <2>3, <4>2 DEF Last
        <4>4. Tells(Append(frames, p + 1), temp, p + 1)
          BY <4>2, <4>3, OtherIsKept
        <4>5. QED
          BY <2>1, <3>1, <3>5, <4>1, <4>2, <4>4
      <3>6. CASE due
        <4>1. captures' = Copied(spool) /\ pending' = <<>>
          BY <3>1, <3>2, <3>6 DEF Enqueue
        <4>2. spool \in Seq(1..Len(temp))
          BY <1>4, <3>3
        <4>3. Copied(spool) \in [FrameNumbers -> Pictures \cup {Nothing}]
          BY <1>2, <4>2, CopiedFacts
        <4>4. Captured(frames', <<>>, Copied(spool), temp)
          <5>1. PICK kept : kept = frames'
            OBVIOUS
          <5>2. Captured(kept, spool, captures, temp)
            BY <3>4, <5>1
          <5>3. Captured(kept, <<>>, Copied(spool), temp)
            BY <1>2, <4>2, <5>2, CopiedIsCaptured
          <5>4. QED
            BY <5>1, <5>3
        <4>5. SpoolOK(stage', temp', pending', captures')
          BY <1>1, <1>2, <4>1, <4>3, EmptyFacts DEF SpoolOK
        <4>6. QED
          BY <4>1, <4>4, <4>5, <3>5
      <3>7. CASE ~due
        <4>1. captures' = captures /\ pending' = spool
          BY <3>1, <3>2, <3>7 DEF Enqueue
        <4>2. SpoolOK(stage', temp', pending', captures')
          BY <1>1, <1>2, <1>4, <3>3, <4>1 DEF SpoolOK
        <4>3. QED
          BY <3>4, <3>5, <4>1, <4>2
      <3>8. QED
        BY <3>6, <3>7
    <2>4. QED
      BY <2>2, <2>3
  <1>10. frames' \in Seq(FrameNumbers)
    <2>1. frames' \in Seq(1..n)
      BY <1>4, <1>9 DEF Captured
    <2>2. 1..n \subseteq FrameNumbers
      BY <1>4, SizeFacts
    <2>3. QED
      BY <2>1, <2>2, SeqMonotonic
  <1>11. n < Power[FrameDigits] => GoesOn(reading', n)
    BY <1>1, <1>5, OneFrameOn
  <1>12. ThinOK(stage', reading', temp', pending', frames', captures', been'.video)
    BY <1>1, <1>4, <1>5, <1>7, <1>9, <1>11 DEF ThinOK
  <1>13. MergeOK(stage', merged', reading')
    BY <1>1 DEF RecInv, MergeOK
  <1>14. DoneOK(stage', frames', captures', been'.video)
    BY <1>1 DEF DoneOK
  <1>15. QED
    BY <1>1, <1>9, <1>10, <1>12, <1>13, <1>14 DEF RecInv

LEMMA RecStep == RecInv /\ [RecordingNext]_recordingVars => RecInv'
  <1> SUFFICES ASSUME RecInv, [RecordingNext]_recordingVars PROVE RecInv'
    OBVIOUS
  <1>1. CASE \E n \in PartNames, body \in Bodies \cup {Nothing} : UploadBody(n, body)
    BY <1>1, RecUpload
  <1>2. CASE BeginMerge
    BY <1>2, RecBeginMerge
  <1>3. CASE ReadPart
    BY <1>3, RecReadPart
  <1>4. CASE MergeEnds
    BY <1>4, RecMergeEnds
  <1>5. CASE AudioExtracted
    BY <1>5, RecAudio
  <1>6. CASE Sampled
    BY <1>6, RecSampled
  <1>7. CASE \E due \in BOOLEAN : ThinFrame(due)
    BY <1>7, RecThin
  <1>8. CASE LastFlush
    BY <1>8, RecLastFlush
  <1>9. CASE PurgeMerged
    BY <1>9, RecPurge
  <1>10. CASE MediaFails
    BY <1>10, RecFails
  <1>11. CASE UNCHANGED recordingVars
    <2>1. /\ UNCHANGED <<stage, reading, merged, temp, pending, captures, frames>>
          /\ files' = files /\ been' = been
      BY <1>11 DEF recordingVars
    <2>2. files' \in [PartNames -> Bodies \cup {Nothing}] /\ been' \in Been
      BY <2>1 DEF RecInv
    <2>3. QED
      BY <2>1, <2>2, RecStutter
  <1>12. QED
    BY <1>1, <1>2, <1>3, <1>4, <1>5, <1>6, <1>7, <1>8, <1>9, <1>10, <1>11 DEF RecordingNext

LEMMA RecInvGivesType == RecInv => RecordingTypeOK
  <1> SUFFICES ASSUME RecInv PROVE RecordingTypeOK
    OBVIOUS
  <1>1. IF stage = "thinning" THEN reading \in Seq(FrameNumbers) ELSE reading \in Seq(PartNames)
    <2>1. CASE stage = "thinning"
      <3>1. PICK n \in Nat : n = Len(temp) /\ n <= Room
        BY LenProperties DEF RecInv, SpoolOK
      <3>2. reading \in Seq(1..n)
        BY <2>1, <3>1 DEF RecInv, ThinOK
      <3>3. 1..n \subseteq FrameNumbers
        BY <3>1, SizeFacts
      <3>4. QED
        BY <2>1, <3>2, <3>3, SeqMonotonic
    <2>2. CASE stage # "thinning"
      BY <2>2, EmptyFacts DEF RecInv, MergeOK
    <2>3. QED
      BY <2>1, <2>2
  <1>2. pending \in Seq(FrameNumbers)
    <2>1. PICK n \in Nat : n = Len(temp) /\ n <= Room
      BY LenProperties DEF RecInv, SpoolOK
    <2>2. pending \in Seq(1..n)
      BY <2>1 DEF RecInv, SpoolOK
    <2>3. 1..n \subseteq FrameNumbers
      BY <2>1, SizeFacts
    <2>4. QED
      BY <2>2, <2>3, SeqMonotonic
  <1>3. merged \in Seq(Pictures) \cup {Nothing}
    BY DEF RecInv, MergeOK
  <1>4. temp \in Seq(Pictures) /\ captures \in [FrameNumbers -> Pictures \cup {Nothing}]
    BY DEF RecInv, SpoolOK
  <1>5. QED
    BY <1>1, <1>2, <1>3, <1>4 DEF RecInv, RecordingTypeOK, Stages

LEMMA RecInvGivesOrder == RecInv => MergedInOrder
  <1> SUFFICES ASSUME RecInv, \A k \in DOMAIN been.names : been.names[k][1] < Power[PartDigits]
               PROVE  \A k, m \in DOMAIN been.names : k < m => been.names[k][1] <= been.names[m][1]
    BY DEF MergedInOrder
  <1>1. PICK names \in SUBSET PartNames : been.names = PartsSorted(names)
    BY DEF RecInv
  <1>2. PICK s : s = been.names
    OBVIOUS
  <1>3. s = PartsSorted(names) /\ \A k \in DOMAIN s : s[k][1] < Power[PartDigits]
    BY <1>1, <1>2
  <1>4. \A k, m \in DOMAIN s : k < m => s[k][1] <= s[m][1]
    BY <1>3, PartsInOrder
  <1>5. QED
    BY <1>2, <1>4

LEMMA RecInvGivesFrames == RecInv => FramesTellTheVideo
  <1> SUFFICES ASSUME RecInv, stage = "done" PROVE
        /\ \A i \in Range(frames) : captures[i] = been.video[i]
        /\ Len(been.video) < Power[FrameDigits] =>
             /\ \A j \in DOMAIN been.video :
                  {i \in Range(frames) : i <= j} # {} /\ been.video[LastKept(j)] = been.video[j]
             /\ \A k \in 2..Len(frames) : been.video[frames[k]] # been.video[frames[k - 1]]
    BY DEF FramesTellTheVideo
  <1>1. PICK v : v = been.video
    OBVIOUS
  <1>2. v \in Seq(Pictures)
    BY <1>1 DEF RecInv, Been
  <1>3. PICK n \in Nat : n = Len(v) /\ DOMAIN v = 1..n
    BY <1>2, LenProperties
  <1>4. Captured(frames, <<>>, captures, v)
    BY <1>1 DEF RecInv, DoneOK
  <1>5. n < Power[FrameDigits] => Tells(frames, v, n)
    BY <1>1, <1>3 DEF RecInv, DoneOK
  <1>6. \A i \in Range(frames) : captures[i] = v[i]
    <2>1. \A k \in 1..Len(frames) : captures[frames[k]] = v[frames[k]]
      BY <1>4, EmptyFacts DEF Captured
    <2>2. frames \in Seq(1..n)
      BY <1>3, <1>4 DEF Captured
    <2>3. \A i \in Range(frames) : \E k \in 1..Len(frames) : i = frames[k]
      BY <2>2, LenProperties DEF Range
    <2>4. QED
      BY <2>1, <2>3
  <1>7. ASSUME n < Power[FrameDigits], NEW j \in 1..n
        PROVE  {i \in Range(frames) : i <= j} # {} /\ v[LastKept(j)] = v[j]
    BY <1>5, <1>7, TellsIsEnough DEF LastKept
  <1>8. ASSUME n < Power[FrameDigits], NEW k \in 2..Len(frames)
        PROVE  v[frames[k]] # v[frames[k - 1]]
    BY <1>5, <1>8 DEF Tells
  <1>9. QED
    BY <1>1, <1>3, <1>6, <1>7, <1>8

\* Kept frames are captured or in the spool at every turn of the loop, and tell the video
\* up to where the loop has come (process_session); what is merged has room for what is
\* still to be read (finalize_session_output).
THEOREM RecordingInvariance == RecordingSpec => []RecInv
  BY RecInit, RecStep, PTL DEF RecordingSpec

\* "part_01... < part_02... preserves recording order": the concat list of every merge is
\* in the order of the part indexes, for any number of digits the names are padded to, as
\* long as the indexes have no more (splitter.py sorts by name).
THEOREM PartsMergeInOrder == RecordingSpec => []MergedInOrder
  BY RecInvGivesOrder, RecordingInvariance, PTL

\* When a stop-commit returns its frames, all of them are in the captures directory as
\* this video shows them, whatever failed and was tried again before; and while the frame
\* numbers fit their padding, they leave out only repetitions (process_session).
THEOREM FramesTell == RecordingSpec => []FramesTellTheVideo
  BY RecInvGivesFrames, RecordingInvariance, PTL

\* The instance that is checked runs the media and the timeline beside each other: each
\* of its behaviours is one of both specifications, with the fairness of paging.
THEOREM SessionKeepsBoth == SessionSpec => FairSpec /\ RecordingSpec
  <1>1. SessionInit => Init /\ RecordingInit
    BY DEF SessionInit
  <1>2. [SessionNext]_sessionVars => [Next]_vars /\ [RecordingNext]_recordingVars
    BY DEF SessionNext, sessionVars
  <1>3. QED
    BY <1>1, <1>2, PTL DEF SessionSpec, FairSpec, Spec, RecordingSpec

\* Timeline and media are of their types, also the frames: no recording has more
\* than its parts can have pictures.
THEOREM TypeCorrectness == SessionSpec => []SessionTypeOK
  <1>1. ConsultInv /\ RecInv => SessionTypeOK
    BY InvGivesType, RecInvGivesType DEF SessionTypeOK
  <1>2. QED
    BY <1>1, SessionKeepsBoth, ConsultInvariance, RecordingInvariance, PTL DEF FairSpec
=================================================================================
