------------------------------- MODULE Recording -------------------------------
(***************************************************************************)
(* The media of one session: parts are uploaded one after the other, merged *)
(* in the order of their file names, and frames of the merged video are    *)
(* taken, thinned and copied out of a temporary directory (splitter.py).   *)
(* ffmpeg runs beside the event loop, so parts may come and go while it    *)
(* reads them; thinning and copying is one run of the loop.  The path of   *)
(* the session through locks, slots and artifacts is SessionCommit's.      *)
(***************************************************************************)
EXTENDS Integers, Sequences, FiniteSets, SequencesExt, Ordering

CONSTANTS
  PartNames,    \* <<part_index, operator_key>> of the uploads, the keys numbered in
                \* the order of their text
  Pictures,     \* what a frame may show
  Bodies,       \* contents of a part: the pictures ffmpeg samples from it
  Base,         \* the base numbers in file names are written in
  PartDigits,   \* their digits in the name of a part
  FrameDigits,  \* their digits in the name of a frame
  MaxUploads,   \* bound: uploads of a behaviour
  MaxCommits,   \* bound: merges of a behaviour
  Nothing       \* no file

ASSUME RecordingAssumption ==
  /\ PartNames \subseteq Nat \X Nat /\ IsFiniteSet(PartNames)
  /\ Bodies \subseteq Seq(Pictures) /\ Bodies # {} /\ IsFiniteSet(Bodies)
  /\ Nothing \notin Bodies \cup Pictures
  /\ Base \in Nat \ {0, 1}
  /\ {PartDigits, FrameDigits} \subseteq Nat \ {0}
  /\ {MaxUploads, MaxCommits} \subseteq Nat

VARIABLES
  files,     \* name |-> the content of the part, or Nothing
  stage,     \* where the stop-commit is
  reading,   \* what is still to be read: names of the concat list, then frames
  merged,    \* the content of the merged file, or Nothing
  temp,      \* the frames in the temporary directory, in the order of the video
  pending,   \* the frames in the spool
  captures,  \* the files in the captures directory: number |-> picture, or Nothing
  frames,    \* the numbers of the frames kept so far, in order
  been       \* history: uploads, merges, the last concat list and its video

recordingVars == <<files, stage, reading, merged, temp, pending, captures, frames, been>>

FrameNumbers == 1..(Cardinality(PartNames) * Max({Len(b) : b \in Bodies}))

RecordingInit ==
  /\ files = [n \in PartNames |-> Nothing]
  /\ stage = "idle"
  /\ reading = <<>>
  /\ merged = Nothing
  /\ temp = <<>>
  /\ pending = <<>>
  /\ captures = [i \in FrameNumbers |-> Nothing]
  /\ frames = <<>>
  /\ been = [uploads |-> 0, merges |-> 0, names |-> <<>>, video |-> <<>>]

-----------------------------------------------------------------------------
(* The order of file names *)

Power[n \in Nat] == IF n = 0 THEN 1 ELSE Base * Power[n - 1]

\* The digits of a number, padded with zeros to a width.
Width(n, width) == Max({width} \cup {w \in 1..n : Power[w - 1] <= n})
Digits(n, width) ==
  LET w == Width(n, width) IN  [i \in 1..w |-> (n \div Power[w - i]) % Base]

\* Text order.  What follows the digits is greater than any digit in the name of a
\* part ("_") and smaller in the name of a frame (".").
TextBefore(a, b) ==
  \/ \E i \in DOMAIN a \cap DOMAIN b :
       a[i] < b[i] /\ \A j \in 1..(i - 1) : a[j] = b[j]
  \/ Len(a) < Len(b) /\ a = SubSeq(b, 1, Len(a))

\* Regression: the index is written without padding.
PartTextUnpadded(n) == Digits(n[1], 1) \o <<Base, n[2]>>
\* The digits, the "_" and the operator's key.
PartText(n) == Digits(n[1], PartDigits) \o <<Base, n[2]>>
FrameText(i) == Digits(i, FrameDigits)

PartsSorted(names) ==
  InOrder(names, [n \in names |-> {m \in names : TextBefore(PartText(m), PartText(n))}])
FramesSorted(last) ==
  InOrder(1..last, [i \in 1..last |-> {j \in 1..last : TextBefore(FrameText(j), FrameText(i))}])

-----------------------------------------------------------------------------
(* upload_part *)

\* Thinning and what follows it does not await.
LoopIsFree == stage \notin {"thinning", "purging"}

\* The file is opened, which empties it, and filled, whoever sent it; a body
\* without content removes it.
UploadBody(n, body) ==
  /\ LoopIsFree
  /\ been.uploads < MaxUploads
  /\ files' = [files EXCEPT ![n] = body]
  /\ been' = [been EXCEPT !.uploads = @ + 1]
  /\ UNCHANGED <<stage, reading, merged, temp, pending, captures, frames>>

-----------------------------------------------------------------------------
(* finalize_session_output *)

Uploaded == {n \in PartNames : files[n] # Nothing}

\* ffmpeg is given the list and opens the output anew.
BeginMerge ==
  /\ stage \in {"idle", "done"}
  /\ Uploaded # {}
  /\ been.merges < MaxCommits
  /\ reading' = PartsSorted(Uploaded)
  /\ merged' = <<>>
  /\ stage' = "merging"
  /\ been' = [been EXCEPT !.merges = @ + 1, !.names = PartsSorted(Uploaded)]
  /\ UNCHANGED <<files, temp, pending, captures, frames>>

\* It reads part after part, each as it is then.
ReadPart ==
  /\ stage = "merging"
  /\ reading # <<>>
  /\ files[Head(reading)] # Nothing
  /\ merged' = merged \o files[Head(reading)]
  /\ reading' = Tail(reading)
  /\ UNCHANGED <<files, stage, temp, pending, captures, frames, been>>

MergeEnds ==
  /\ stage = "merging"
  /\ reading = <<>>
  /\ stage' = "audio"
  /\ UNCHANGED <<files, reading, merged, temp, pending, captures, frames, been>>

-----------------------------------------------------------------------------
(* process_session *)

AudioExtracted ==
  /\ stage = "audio"
  /\ stage' = "sampling"
  /\ UNCHANGED <<files, reading, merged, temp, pending, captures, frames, been>>

\* ffmpeg has written a frame for each picture; the loop goes through them in the
\* order of their names.
Sampled ==
  /\ stage = "sampling"
  /\ stage' = "thinning"
  /\ temp' = merged
  /\ reading' = FramesSorted(Len(merged))
  /\ frames' = <<>>
  /\ been' = [been EXCEPT !.video = merged]
  /\ UNCHANGED <<files, merged, pending, captures>>

\* Copies frames, which are named for their numbers, to the captures directory.
Copied(numbers) == [i \in FrameNumbers |-> IF i \in Range(numbers) THEN temp[i] ELSE captures[i]]

\* Regression: an automatic flush takes what was queued before, and then the spool
\* is cleared.
EnqueueLate(i, due) ==
  /\ captures' = IF due THEN Copied(pending) ELSE captures
  /\ pending' = IF due THEN <<>> ELSE Append(pending, i)
\* FrameSpoolBuffer.enqueue: when the interval has elapsed, everything is flushed.
Enqueue(i, due) ==
  /\ captures' = IF due THEN Copied(Append(pending, i)) ELSE captures
  /\ pending' = IF due THEN <<>> ELSE Append(pending, i)

\* A frame with the hash of the one before it is left out.
ThinFrame(due) ==
  /\ stage = "thinning"
  /\ reading # <<>>
  /\ LET i == Head(reading)
     IN  IF frames # <<>> /\ temp[Last(frames)] = temp[i]
           THEN UNCHANGED <<pending, captures, frames>>
           ELSE Enqueue(i, due) /\ frames' = Append(frames, i)
  /\ reading' = Tail(reading)
  /\ UNCHANGED <<files, stage, merged, temp, been>>

\* The rest is flushed before the temporary directory is deleted.
LastFlush ==
  /\ stage = "thinning"
  /\ reading = <<>>
  /\ captures' = Copied(pending)
  /\ pending' = <<>>
  /\ temp' = <<>>
  /\ stage' = "purging"
  /\ UNCHANGED <<files, reading, merged, frames, been>>

\* The merged file is purged and the list of frames returned.
PurgeMerged ==
  /\ stage = "purging"
  /\ merged' = Nothing
  /\ stage' = "done"
  /\ UNCHANGED <<files, reading, temp, pending, captures, frames, been>>

\* ffmpeg fails, the packet's time is over, or a copy fails after some of the
\* spool: temporary directory and spool are given up, the merged file and what was
\* copied stay.  An extraction may be tried again with the same file, a merge is
\* tried again from the start.
MediaFails ==
  /\ stage \in {"merging", "audio", "sampling", "thinning"}
  /\ stage' \in IF stage = "merging" THEN {"idle"} ELSE {"idle", "audio"}
  /\ \E n \in 0..Len(pending) : captures' = Copied(SubSeq(pending, 1, n))
  /\ pending' = <<>>
  /\ temp' = <<>>
  /\ reading' = <<>>
  /\ frames' = <<>>
  /\ UNCHANGED <<files, merged, been>>

RecordingNext ==
  \/ \E n \in PartNames, body \in Bodies \cup {Nothing} : UploadBody(n, body)
  \/ BeginMerge \/ ReadPart \/ MergeEnds
  \/ AudioExtracted \/ Sampled
  \/ \E due \in BOOLEAN : ThinFrame(due)
  \/ LastFlush \/ PurgeMerged
  \/ MediaFails

RecordingSpec == RecordingInit /\ [][RecordingNext]_recordingVars

-----------------------------------------------------------------------------
(* Properties *)

RecordingTypeOK ==
  /\ files \in [PartNames -> Bodies \cup {Nothing}]
  /\ stage \in {"idle", "merging", "audio", "sampling", "thinning", "purging", "done"}
  /\ IF stage = "thinning" THEN reading \in Seq(FrameNumbers) ELSE reading \in Seq(PartNames)
  /\ merged \in Seq(Pictures) \cup {Nothing}
  /\ temp \in Seq(Pictures)
  /\ pending \in Seq(FrameNumbers) /\ frames \in Seq(FrameNumbers)
  /\ captures \in [FrameNumbers -> Pictures \cup {Nothing}]

\* "part_01... < part_02... preserves recording order": whatever parts come and go,
\* the merge takes them in the order of their indexes as long as every index has
\* the digits names are padded to; from the first longer index on it need not.
MergedInOrder ==
  (\A k \in DOMAIN been.names : been.names[k][1] < Power[PartDigits]) =>
    \A k, m \in DOMAIN been.names : k < m => been.names[k][1] <= been.names[m][1]

\* When the frames are returned they tell the whole recording: each is in the
\* captures directory as it is in this video, also when an earlier commit left
\* others of the same name or copying failed half-way; every frame of the video
\* shows what the last one kept before it shows; and none is kept that shows the
\* same as the one before.  Beyond the digits of frame names only the first holds.
LastKept(j) == Max({i \in Range(frames) : i <= j})

FramesTellTheVideo ==
  stage = "done" =>
    /\ \A i \in Range(frames) : captures[i] = been.video[i]
    /\ Len(been.video) < Power[FrameDigits] =>
         /\ \A j \in DOMAIN been.video :
              {i \in Range(frames) : i <= j} # {} /\ been.video[LastKept(j)] = been.video[j]
         /\ \A k \in 2..Len(frames) : been.video[frames[k]] # been.video[frames[k - 1]]
=============================================================================
