------------------------------- MODULE MCConsult -------------------------------
(***************************************************************************)
(* Instances for TLC of what a session's recording goes through: its media *)
(* (Recording) and its timeline (Consult).  They share no variable, as the *)
(* transcription and the reading of frames between them are taken to yield *)
(* any of SomeRecordings; a behaviour is of one of the two.                *)
(***************************************************************************)
EXTENDS Consult, Recording

CONSTANTS a, b

Times(m, n) == a :> m @@ b :> n

\* The source of speech holds the word b, the name of a frame the word a.
Segment(start, end, words, signal) ==
  [start |-> start, end |-> end, signal |-> signal,
   says |-> [text |-> words, source |-> Times(0, 1)]]
Frame(index, epoch, words, signal) ==
  [index |-> index, epoch |-> epoch, signal |-> signal,
   says |-> [event |-> words, frame |-> Times(1, 0), source |-> Times(0, 0)]]

\* A lone segment without times; speech and then frames without times,
\* of which the first has a later index; frames
\* between and beside speech, out of order and with equal times; and one whose
\* second segment drifts.
SomeRecordings == {
  [segments |-> <<Segment(None, None, Times(1, 1), "none")>>, frames |-> <<>>],
  [segments |-> <<Segment(0, 2, Times(1, 0), "none"), Segment(1, 0, Times(1, 2), "task_created")>>,
   frames |-> <<Frame(2, None, Times(0, 1), "none"), Frame(None, None, Times(1, 0), "task_completed")>>],
  [segments |-> <<Segment(4, 5, Times(2, 0), "owner_ack"), Segment(1, 3, Times(0, 1), "none")>>,
   frames |-> <<Frame(None, 4, Times(1, 1), "none"), Frame(0, 2, Times(1, 0), "status_change")>>],
  [segments |-> <<Segment(0, 1, Times(1, 0), "none"), Segment(9, 9, Times(1, 1), "none")>>,
   frames |-> <<>>]}

\* A query of each sort and mode, with no further filter and with all of them.
Query(tokens, coverage, score, type, since) ==
  [tokens: tokens, mode: {"and", "or"},
   sort: {"score_desc", "time_asc", "time_desc", "follow_through_desc"},
   fields: {Fields, {"text"}}, minHits: {1}, minCoverage: {coverage}, minScore: {score},
   follow: BOOLEAN, minFollow: {20}, horizon: {3}, minConfidence: {70},
   signals: {Signalled}, type: type, since: {since}, until: {5}, limit: {0, 1, 3}]

SomeQueries ==
  Query({<<a>>, <<a, b>>, <<b, b>>}, 0, 0, {None}, None)
    \cup Query({<<a, b>>}, 60, 15, {None, "frame"}, 1)

-----------------------------------------------------------------------------
\* Indexes with the digits of the padding, one of them from two operators, and a
\* longer one; up to six frames, of which three have the digits of the padding.
SomeParts == {<<1, 0>>, <<3, 0>>, <<3, 1>>, <<4, 0>>}
SomeBodies == {<<"chart">>, <<"chart", "news">>}

VARIABLE part

sessionVars == <<vars, recordingVars, part>>

SessionInit == part \in {"media", "timeline"} /\ Init /\ RecordingInit

SessionNext ==
  /\ UNCHANGED part
  /\ \/ part = "timeline" /\ Next /\ UNCHANGED recordingVars
     \/ part = "media" /\ RecordingNext /\ UNCHANGED vars

\* A client goes on to the last page.
SessionSpec == SessionInit /\ [][SessionNext]_sessionVars /\ WF_vars(NextPage)

\* Timeline and media are of their types.
SessionTypeOK == TypeOK /\ RecordingTypeOK
=============================================================================
