----------------------------- MODULE CapturePipeline -----------------------------
(***************************************************************************)
(* One track from the audio callback to its journaled segments: the        *)
(* callback fills the ring (BoundedQueue, which CaptureRing implements),   *)
(* the consumer thread empties it into segments (audio/capture.rs          *)
(* run_consumer, check_disk) and CaptureSession::stop takes the threads    *)
(* down one after the other.  The supervisor has ended by then             *)
(* (CaptureControl).  Audio is counted in frames; segments are numbered    *)
(* from 1 and all but the last are full.                                   *)
(***************************************************************************)
EXTENDS Naturals, Sequences

CONSTANTS
  Capacity,     \* frames the ring holds
  FrameLimit,   \* frames of a full segment
  Troubles,     \* what may go wrong: the disk fills up, a write fails, an
                \* append to the journal fails
  MaxBlock,     \* bound: frames of one callback
  MaxFrames     \* bound: frames the microphone delivers

ASSUME PipelineAssumption ==
  /\ Capacity \in Nat \ {0} /\ FrameLimit \in Nat \ {0}
  /\ Troubles \subseteq {"full", "error", "journal"}
  /\ MaxBlock \in Nat \ {0} /\ MaxFrames \in Nat

VARIABLES
  offered, queue, delivered,   \* the ring: BoundedQueue
  stream,     \* the cpal stream exists
  stopSent,   \* ControlCmd::Stop is on its way to the capture thread
  writerStop, \* AtomicBool the consumer looks at
  session,    \* where the operator's session is
  writer,     \* where the consumer thread is
  written,    \* frames given to the SegmentWriter
  drained,    \* segments drain_completed has handed out and the loop dealt with
  journaled,  \* the loop's count of them, then the place of the tail loop
  records,    \* segments the journal has a readable record of, in its order
  torn,       \* the journal ends in a fragment without a line end
  missed,     \* history: segments whose record was lost
  critical,   \* history: DiskCritical was journaled and reported
  late        \* history: frames accepted since the consumer last looked

ring == <<offered, queue, delivered>>
stop == <<stream, stopSent, writerStop, session>>
journal == <<records, torn, missed>>
count   == <<written, drained, journaled>>
vars == <<ring, stop, writer, count, journal, critical, late>>

Ring == INSTANCE BoundedQueue

Init ==
  /\ Ring!Init
  /\ stream = TRUE /\ stopSent = FALSE /\ writerStop = FALSE
  /\ session = "recording" /\ writer = "pop"
  /\ written = 0 /\ drained = 0 /\ journaled = 0
  /\ records = <<>> /\ torn = FALSE /\ missed = {}
  /\ critical = FALSE /\ late = 0

Lesser(a, b) == IF a < b THEN a ELSE b

\* The audio callback: a block is pushed, what finds no room is dropped.
Callback ==
  /\ stream
  /\ \E n \in 1 .. MaxBlock :
       LET k == Lesser(n, Capacity - Len(queue)) IN
       /\ offered + n <= MaxFrames
       /\ Ring!Accept(n, k)
       /\ late' = late + k
  /\ UNCHANGED <<stop, writer, count, journal, critical>>

-----------------------------------------------------------------------------
(***************************************************************************)
(* The consumer thread.                                                    *)
(***************************************************************************)

\* pop_slice returns something: at most what the ring holds ...
Pop ==
  /\ writer = "pop"
  /\ \E k \in 1 .. Len(queue) : Ring!Hand(k) /\ late' = 0
  /\ writer' = "write"
  /\ UNCHANGED <<stop, count, journal, critical>>

\* ... or nothing.
PopNothing ==
  /\ writer = "pop" /\ queue = <<>>
  /\ writer' = "empty" /\ late' = 0
  /\ UNCHANGED <<ring, stop, count, journal, critical>>

WriteBatch ==
  /\ writer = "write"
  /\ written' = Len(delivered)
  /\ writer' = "drain"
  /\ UNCHANGED <<ring, stop, drained, journaled, journal, critical, late>>

\* A write or fsync of the open segment fails: the thread returns the error.
WriteError ==
  /\ "error" \in Troubles
  /\ writer \in {"write", "empty", "final"}
  /\ writer' = "failed"
  /\ UNCHANGED <<ring, stop, count, journal, critical, late>>

\* ConsumerReliability::journal: the record of a segment gets a line of its own ...
Lands(segment) ==
  /\ ~torn
  /\ records' = Append(records, segment)
  /\ UNCHANGED missed

\* ... or is lost, on the line of a fragment or because the append fails, which
\* is ignored.
Lost(segment) ==
  /\ torn \/ "journal" \in Troubles
  /\ missed' = missed \cup {segment}
  /\ UNCHANGED records

\* A failed append may leave a fragment; a good one ends the line of one.
Fragments == IF "journal" \in Troubles THEN BOOLEAN ELSE {FALSE}

Record(segment) ==
  \/ Lands(segment) /\ UNCHANGED torn
  \/ Lost(segment) /\ torn' \in Fragments

\* A record of the supervisor or of the operator is lost on the line of a
\* fragment, or leaves one.
OtherRecord ==
  /\ torn' = ~torn /\ (torn \/ "journal" \in Troubles)
  /\ UNCHANGED <<ring, stop, writer, count, records, missed, critical, late>>

Closed(segment) == segment * FrameLimit <= written

\* Planted bug: only appends that succeed are counted.
CountRecorded == IF missed' = missed THEN journaled + 1 ELSE journaled
CountDrained == journaled + 1

\* A closed segment is journaled and the disk is looked at.  DiskLow and
\* DiskCritical are records of their own; at the critical threshold the loop is
\* left.
DrainSegment ==
  /\ writer = "drain" /\ Closed(drained + 1)
  /\ \/ Record(drained + 1) /\ UNCHANGED <<writer, critical>>
     \/ /\ "full" \in Troubles
        /\ Lands(drained + 1) \/ Lost(drained + 1)
        /\ torn' \in Fragments
        /\ \/ UNCHANGED <<writer, critical>>
           \/ writer' = "final" /\ critical' = TRUE
  /\ drained' = drained + 1
  /\ journaled' = CountDrained
  /\ UNCHANGED <<ring, stop, written, late>>

Drained ==
  /\ writer = "drain" /\ ~Closed(drained + 1)
  /\ writer' = "pop"
  /\ UNCHANGED <<ring, stop, count, journal, critical, late>>

NeverAsked == FALSE                       \* planted bug: flag not looked at
AskedToStop == writerStop

\* The ring was empty: end if asked to, otherwise sleep until the next poll.
LookAtStop ==
  /\ writer = "empty"
  /\ writer' = IF AskedToStop THEN "final" ELSE "pop"
  /\ UNCHANGED <<ring, stop, count, journal, critical, late>>

\* finalize() closes the open segment and returns all of them.
Finalize ==
  /\ writer = "final"
  /\ writer' = "tail"
  /\ UNCHANGED <<ring, stop, count, journal, critical, late>>

\* Planted bug: the last, incomplete segment is left out.
FullSegments == written \div FrameLimit
AllSegments == (written + FrameLimit - 1) \div FrameLimit

\* Those the loop has not counted are journaled now ...
TailSegment ==
  /\ writer = "tail" /\ journaled < AllSegments
  /\ Record(journaled + 1)
  /\ journaled' = journaled + 1
  /\ UNCHANGED <<ring, stop, writer, written, drained, critical, late>>

\* ... and the thread ends well, whatever became of the records.
End ==
  /\ writer = "tail" /\ journaled >= AllSegments
  /\ writer' = "ended"
  /\ UNCHANGED <<ring, stop, count, journal, critical, late>>

-----------------------------------------------------------------------------
(***************************************************************************)
(* CaptureSession::stop, and the thread that owns the stream.              *)
(***************************************************************************)

SendStop ==
  /\ session = "recording"
  /\ session' = "stopping" /\ stopSent' = TRUE
  /\ UNCHANGED <<ring, stream, writerStop, writer, count, journal, critical, late>>

DropStream ==
  /\ stopSent
  /\ stream' = FALSE /\ stopSent' = FALSE
  /\ UNCHANGED <<ring, writerStop, session, writer, count, journal, critical, late>>

JoinNobody == TRUE                        \* planted bug: capture not joined
CaptureJoined == ~stream

StopWriter ==
  /\ session = "stopping" /\ CaptureJoined
  /\ writerStop' = TRUE /\ session' = "draining"
  /\ UNCHANGED <<ring, stream, stopSent, writer, count, journal, critical, late>>

JoinWriter ==
  /\ session = "draining" /\ writer \in {"ended", "failed"}
  /\ session' = IF writer = "ended" THEN "stopped" ELSE "error"
  /\ UNCHANGED <<ring, stream, stopSent, writerStop, writer, count, journal, critical, late>>

-----------------------------------------------------------------------------
Consumer == Pop \/ PopNothing \/ WriteBatch \/ WriteError \/ DrainSegment
              \/ Drained \/ LookAtStop \/ Finalize \/ TailSegment \/ End

Stopping == DropStream \/ StopWriter \/ JoinWriter

Next == Callback \/ Consumer \/ OtherRecord \/ SendStop \/ Stopping

Spec == Init /\ [][Next]_vars

\* The threads run; nobody has to press stop or to speak.
FairSpec == Spec /\ WF_vars(Consumer) /\ WF_vars(Stopping)

-----------------------------------------------------------------------------
FlowOK ==
  /\ offered \in 0 .. MaxFrames
  /\ Len(queue) <= Capacity /\ Len(delivered) <= MaxFrames
  /\ stream \in BOOLEAN /\ stopSent \in BOOLEAN /\ writerStop \in BOOLEAN
  /\ session \in {"recording", "stopping", "draining", "stopped", "error"}
  /\ writer \in {"pop", "write", "empty", "drain", "final", "tail", "ended",
                 "failed"}
  /\ written \in 0 .. MaxFrames /\ critical \in BOOLEAN /\ late \in 0 .. Capacity

RecordsOK ==
  /\ drained \in 0 .. MaxFrames /\ journaled \in 0 .. MaxFrames
  /\ records \in Seq(1 .. MaxFrames)
  /\ torn \in BOOLEAN /\ missed \subseteq 1 .. MaxFrames

TypeOK == FlowOK /\ RecordsOK

Recorded == {records[k] : k \in DOMAIN records}

(***************************************************************************)
(* However the consumer ends, unless a write failed: every frame it took   *)
(* is in a segment, and of all segments, the last one included, the        *)
(* journal has one record each, in their order.  Only those whose append   *)
(* failed, or hit the fragment of one that had, have none (capture.rs:     *)
(* loop and tail loop count apart from each other; the guaranteed flush of *)
(* the protective stop).                                                   *)
(***************************************************************************)
TakenIsJournaled ==
  writer = "ended" =>
    /\ written = Len(delivered)
    /\ Recorded = (1 .. AllSegments) \ missed
    /\ \A j, k \in DOMAIN records : j < k => records[j] < records[k]

(***************************************************************************)
(* No frame that was taken stays without a record (capture.rs, run_consumer*)
(* on the tail: a segment without one does not get into the manifest and   *)
(* is not uploaded, a loss of data).  Not so when an append fails.         *)
(***************************************************************************)
NothingMissed == writer = "ended" => Recorded = 1 .. AllSegments

(***************************************************************************)
(* When a stop has ended and no disk was full, what is left in the ring    *)
(* came in after the consumer had looked for the last time: nothing older  *)
(* is given up, and nothing follows.                                       *)
(***************************************************************************)
OnlyLateFramesLeft ==
  session = "stopped" /\ ~critical => Len(queue) = late /\ ~stream

\* A stop ends, with the recording or with the writer's error.
StopEnds == session = "stopping" ~> session \in {"stopped", "error"}

=============================================================================
