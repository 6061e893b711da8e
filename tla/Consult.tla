-------------------------------- MODULE Consult --------------------------------
(***************************************************************************)
(* The fused timeline of a session and the consult route that searches it. *)
(* A stop-commit normalises transcript segments and frame events to rows,   *)
(* refuses them when they drift and replaces the timeline file; a client   *)
(* asks a query and follows next_offset from page to page.  Every page is  *)
(* worked out from the file as it is then.                                 *)
(***************************************************************************)
EXTENDS Integers, Sequences, FiniteSets, SequencesExt, Ordering

CONSTANTS
  Recordings,    \* what transcription and frame extraction may yield
  Queries,       \* the queries clients ask
  Tokens,        \* words
  FrameStep,     \* milliseconds between frames without a time of their own
  DriftCeiling,  \* _DRIFT_CEILING_MS
  MaxPage,       \* the most matches of a page
  None           \* no file, no query, not given, no further page

Fields == {"text", "event", "frame", "source"}
Signalled == {"task_created", "task_completed", "status_change", "owner_ack"}

\* The times each token occurs in a text.
Counts == [Tokens -> Nat]

\* Segments and frame events: their times, words and the signal these are.  A frame
\* may have an index of its own; times and indexes before zero are left out.
Segments ==
  [start: Nat \cup {None}, end: Nat \cup {None}, says: [text: Counts, source: Counts],
   signal: Signalled \cup {"none"}]
Frames ==
  [index: Nat \cup {None}, epoch: Nat \cup {None},
   says: [event: Counts, frame: Counts, source: Counts], signal: Signalled \cup {"none"}]

\* The queries that are not refused: what is split at blanks has a token when it is
\* not blank, and fields that are given are known ones.
Asked ==
  [tokens: Seq(Tokens) \ {<<>>}, mode: {"and", "or"}, fields: (SUBSET Fields) \ {{}},
   sort: {"score_desc", "time_asc", "time_desc", "follow_through_desc"},
   minHits: 1..20, minCoverage: 0..100, minScore: 0..200,
   follow: BOOLEAN, minFollow: 0..100, horizon: Nat, minConfidence: 0..100,
   signals: SUBSET Signalled, type: {"transcript", "frame", None},
   since: Int \cup {None}, until: Int \cup {None}, limit: Int]

\* What a row says, as the times each token occurs in each field, and the kind
\* of follow-through its words are a signal of.
Row == [type: {"transcript", "frame"}, epoch: Nat,
        words: [Fields -> Counts],
        signal: Signalled \cup {"none"}]

ASSUME ConsultAssumption ==
  /\ Recordings \subseteq [segments: Seq(Segments), frames: Seq(Frames)]
  /\ Queries \subseteq Asked
  /\ FrameStep \in Nat /\ DriftCeiling \in Nat /\ MaxPage \in Nat \ {0}
  /\ None \notin Nat \cup Asked \cup Seq(Row)

VARIABLES
  timeline,  \* the rows of the fusion artifact, or None
  query,     \* the query the client follows, or None
  offset,    \* the offset of the page it asks for next, None after the last
  got,       \* the rows it was given, by their place in the timeline
  stable     \* whether the file is still the one the query began with

vars == <<timeline, query, offset, got, stable>>

Silence == [t \in Tokens |-> 0]
Words(says) == [f \in Fields |-> IF f \in DOMAIN says THEN says[f] ELSE Silence]

-----------------------------------------------------------------------------
(* build_event_rows, verify_timeline_alignment, build_query_timeline *)

\* Regression: a start that is missing stays missing.
StartAsGiven(s) == s.start
Start(s) == IF s.start = None THEN 0 ELSE s.start

\* A segment that ends before it starts ends where it starts.
End(s) == IF s.end = None \/ s.end < Start(s) THEN Start(s) ELSE s.end

TranscriptRow(s) ==
  [type |-> "transcript", epoch |-> Start(s), words |-> Words(s.says), signal |-> s.signal]

FrameBase(segments) == Max({0} \cup {End(segments[i]) : i \in DOMAIN segments}) + 1

Index(e, place) == IF e.index = None THEN place ELSE e.index

FrameRow(e, place, base) ==
  [type |-> "frame",
   epoch |-> IF e.epoch = None THEN base + Index(e, place) * FrameStep ELSE e.epoch,
   words |-> Words(e.says), signal |-> e.signal]

Earlier(a, b) ==
  a.epoch < b.epoch \/ (a.epoch = b.epoch /\ a.type = "transcript" /\ b.type = "frame")

EventRows(rec) ==
  LET base == FrameBase(rec.segments)
      said == [i \in DOMAIN rec.segments |-> TranscriptRow(rec.segments[i])]
      seen == [i \in DOMAIN rec.frames |-> FrameRow(rec.frames[i], i - 1, base)]
  IN  SortBy(said \o seen, Earlier)

\* Regression: the transcript first and then the frames.
SpeechFirst(a, b) == a.type = "transcript" /\ b.type = "frame"
ByEpoch(a, b) == a.epoch < b.epoch

\* The rows of the fusion artifact, sorted once more.
TimelineRows(rec) == SortBy(EventRows(rec), ByEpoch)

Gap(rows, i) == rows[i].epoch - rows[i - 1].epoch
Aligned(rows) == \A i \in 2..Len(rows) : Gap(rows, i) \in 0..DriftCeiling

-----------------------------------------------------------------------------
(* session_consult *)

Hits(row, q, f) == {i \in DOMAIN q.tokens : row.words[f][q.tokens[i]] > 0}
Matched(row, q) == UNION {Hits(row, q, f) : f \in q.fields}

\* The score of a field; a token asked for twice counts twice.
\* Regression: only a field that has every token is scored.
FieldScoreAllTokens(row, q, f) ==
  IF Hits(row, q, f) # DOMAIN q.tokens THEN 0
  ELSE 10 * SumFunction([i \in DOMAIN q.tokens |-> row.words[f][q.tokens[i]]])
FieldScore(row, q, f) ==
  LET count == SumFunction([i \in DOMAIN q.tokens |-> row.words[f][q.tokens[i]]])
  IN  IF count = 0 THEN 0
      ELSE 10 * count + (IF Hits(row, q, f) = DOMAIN q.tokens THEN 8 ELSE 0)
             + (CASE f = "text" -> 4 [] f = "event" -> 2 [] OTHER -> 0)

\* The best field, and one more for something that was said.
Score(row, q) ==
  LET best == Max({FieldScore(row, q, f) : f \in q.fields})
  IN  IF best > 0 /\ row.type = "transcript" THEN best + 1 ELSE best

Weight == [task_created |-> 20, task_completed |-> 35, status_change |-> 25, owner_ack |-> 20]
Confidence == [task_created |-> 75, task_completed |-> 90, status_change |-> 70, owner_ack |-> 65]

\* The rows after the match, up to the horizon, that are signals asked for.
Signals(rows, i, q) ==
  {j \in DOMAIN rows :
     /\ rows[i].epoch < rows[j].epoch /\ rows[j].epoch <= rows[i].epoch + q.horizon
     /\ rows[j].signal \in q.signals
     /\ Confidence[rows[j].signal] >= q.minConfidence}

FollowThrough(rows, i, q) ==
  LET sum == SumFunction([j \in Signals(rows, i, q) |-> Weight[rows[j].signal]])
  IN  IF ~q.follow THEN 0 ELSE IF sum > 100 THEN 100 ELSE sum

\* The filters that look at the tokens.  Minima of coverage are whole per cents.
Found(row, q) ==
  LET n == Cardinality(Matched(row, q))
  IN  /\ IF q.mode = "and" THEN n = Len(q.tokens) ELSE n > 0
      /\ n >= q.minHits
      /\ 100 * n >= q.minCoverage * Len(q.tokens)

\* All filters.  The floor for follow-through counts only when it is asked for.
Match(rows, i, q) ==
  LET row == rows[i]
  IN  /\ q.since = None \/ row.epoch >= q.since
      /\ q.until = None \/ row.epoch <= q.until
      /\ q.type = None \/ row.type = q.type
      /\ Found(row, q)
      /\ Score(row, q) > 0 /\ Score(row, q) >= q.minScore
      /\ q.follow => FollowThrough(rows, i, q) >= q.minFollow

\* The key of a match, the smaller the earlier: equals keep the order of their rows.
SortKey(rows, i, q) ==
  LET s == Score(rows[i], q)
      t == rows[i].epoch
  IN  CASE q.sort = "score_desc" -> <<-s, t, i>>
        [] q.sort = "time_asc"   -> <<t, -s, i>>
        [] q.sort = "time_desc"  -> <<-t, -s, i>>
        [] OTHER                 -> <<-FollowThrough(rows, i, q), -s, t, i>>

KeyLess(a, b) ==
  \E n \in DOMAIN a : a[n] < b[n] /\ \A m \in 1..(n - 1) : a[m] = b[m]

Keys(rows, q) == [i \in {j \in DOMAIN rows : Match(rows, j, q)} |-> SortKey(rows, i, q)]

ByKey(keys) ==
  InOrder(DOMAIN keys, [i \in DOMAIN keys |-> {j \in DOMAIN keys : KeyLess(keys[j], keys[i])}])

Ranked(rows, q) == ByKey(Keys(rows, q))

\* Regression: the page is cut to MaxPage, a limit below 1 is taken as it is.
CutOnly(q) == IF q.limit > MaxPage THEN MaxPage ELSE q.limit
EffectiveLimit(q) == Max({1, Min({q.limit, MaxPage})})

\* Regression: the next page begins where the client's own limit would end.
NextOffsetAsAsked(ranked, q) == IF offset + q.limit < Len(ranked) THEN offset + q.limit ELSE None
NextOffset(ranked, q) ==
  IF offset + EffectiveLimit(q) < Len(ranked) THEN offset + EffectiveLimit(q) ELSE None

Page(ranked, q) ==
  SubSeq(ranked, offset + 1, Min({offset + EffectiveLimit(q), Len(ranked)}))

-----------------------------------------------------------------------------
Init ==
  /\ timeline = None
  /\ query = None
  /\ offset = None
  /\ got = <<>>
  /\ stable = FALSE

\* A stop-commit whose rows are aligned replaces the file.
Publish(rec) ==
  /\ Aligned(EventRows(rec))
  /\ timeline' = TimelineRows(rec)
  /\ got' = <<>>
  /\ stable' = FALSE
  /\ UNCHANGED <<query, offset>>

Ask(q) ==
  /\ timeline # None
  /\ query = None
  /\ query' = q
  /\ offset' = 0
  /\ got' = <<>>
  /\ stable' = TRUE
  /\ UNCHANGED timeline

NextPage ==
  /\ offset # None
  /\ \E keys \in {Keys(timeline, query)} :
       LET ranked == ByKey(keys)
       IN  /\ got' = IF stable THEN got \o Page(ranked, query) ELSE got
           /\ offset' = NextOffset(ranked, query)
  /\ UNCHANGED <<timeline, query, stable>>

Next ==
  \/ \E rec \in Recordings : Publish(rec)
  \/ \E q \in Queries : Ask(q)
  \/ NextPage

Spec == Init /\ [][Next]_vars

\* A client goes on to the last page.
FairSpec == Spec /\ WF_vars(NextPage)

-----------------------------------------------------------------------------
(* Properties *)

TypeOK ==
  /\ timeline = None \/ \A i \in DOMAIN timeline : timeline[i] \in Row
  /\ query \in Queries \cup {None}
  /\ offset \in Nat \cup {None}
  /\ timeline # None => Range(got) \subseteq DOMAIN timeline
  /\ stable \in BOOLEAN

\* Following next_offset, whatever limit was asked for, gives every match exactly
\* once and in the order of the sort, as long as no stop-commit replaces the file.
PagesCover == stable /\ offset = None => got = Ranked(timeline, query)

\* Following next_offset comes to an end, also when the file is replaced under it.
PagingEnds == offset = 0 ~> offset = None

\* The score is worked out field by field, the token filters on all fields at once:
\* no row the token filters let through scores nothing, so the score filter only
\* rejects below the minimum the client asked for.
FoundRowsScore ==
  query # None =>
    \A i \in DOMAIN timeline : Found(timeline[i], query) => Score(timeline[i], query) > 0

\* The row before a match in the file and the one after it, which the consult route
\* gives as its context, are its neighbours in time: no row lies between them.
Context(i) ==
  LET before == {j \in DOMAIN timeline : timeline[j].epoch < timeline[i].epoch}
      after == {j \in DOMAIN timeline : timeline[j].epoch > timeline[i].epoch}
  IN  (IF before = {} THEN {} ELSE {Max(before)}) \cup (IF after = {} THEN {} ELSE {Min(after)})

ContextIsNearest ==
  timeline # None =>
    \A i \in DOMAIN timeline : \A c \in Context(i), j \in DOMAIN timeline :
      LET t == timeline[i].epoch
          u == timeline[c].epoch
          v == timeline[j].epoch
      IN  ~(t < v /\ v < u) /\ ~(u < v /\ v < t)
=============================================================================
