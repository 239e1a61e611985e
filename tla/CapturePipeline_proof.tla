------------------------ MODULE CapturePipeline_proof ------------------------
(***************************************************************************)
(* What TLC checks of the capture pipeline on a small ring, proved for     *)
(* every size of the ring, of the segments and of the blocks.              *)
(***************************************************************************)
EXTENDS CapturePipeline, SequenceTheorems, TLAPS

\* The ring and what the consumer has written: nothing that was not taken, and
\* between two batches everything taken.
CountInv ==
  /\ queue \in Seq(Nat) /\ delivered \in Seq(Nat)
  /\ Len(delivered) + Len(queue) <= offered
  /\ late \in Nat /\ late <= Len(queue)
  /\ written <= Len(delivered)
  /\ writer \in {"pop", "empty", "drain", "final", "tail", "ended"} => written = Len(delivered)

\* How far a stop has come, and what is in the ring once the consumer has
\* found it empty and has not looked again.
StopInv ==
  /\ session \in {"draining", "stopped", "error"} => ~stream
  /\ session = "stopped" => writer = "ended"
  /\ writer = "empty" \/ (writer \in {"final", "tail", "ended"} /\ ~critical) => Len(queue) = late

FlowInv == FlowOK /\ CountInv /\ StopInv

\* The first n segments have gone to the journal, each once and in this order,
\* and have a record or were missed.
RecordedUpTo(n, recs, gaps) ==
  /\ gaps \subseteq 1 .. n
  /\ {recs[k] : k \in DOMAIN recs} = (1 .. n) \ gaps
  /\ \A j, k \in DOMAIN recs : j < k => recs[j] < recs[k]

\* The loop's count is that of the segments drained, and the tail loop takes up
\* where it stands.
JournalInv ==
  /\ RecordedUpTo(journaled, records, missed)
  /\ drained * FrameLimit <= written
  /\ writer \notin {"tail", "ended"} => journaled = drained
  /\ writer = "tail" => journaled <= AllSegments
  /\ writer = "ended" => journaled = AllSegments

IInv == FlowInv /\ RecordsOK /\ JournalInv

USE PipelineAssumption

\* A block that is accepted makes the queue longer by the frames that fit.
LEMMA AcceptLength ==
  ASSUME NEW q \in Seq(Nat), NEW o \in Nat, NEW k \in Nat
  PROVE  /\ q \o [j \in 1 .. k |-> o + j] \in Seq(Nat)
         /\ Len(q \o [j \in 1 .. k |-> o + j]) = Len(q) + k
<1> DEFINE b == [j \in 1 .. k |-> o + j]
<1>1. b \in Seq(Nat) /\ Len(b) = k
  OBVIOUS
<1> QED
  BY <1>1

\* What is handed over goes from the one sequence to the other.
LEMMA HandLength ==
  ASSUME NEW q \in Seq(Nat), NEW d \in Seq(Nat), NEW k \in Nat, k <= Len(q)
  PROVE  /\ d \o SubSeq(q, 1, k) \in Seq(Nat)
         /\ Len(d \o SubSeq(q, 1, k)) = Len(d) + k
         /\ SubSeq(q, k + 1, Len(q)) \in Seq(Nat)
         /\ Len(SubSeq(q, k + 1, Len(q))) = Len(q) - k
<1>1. SubSeq(q, 1, k) \in Seq(Nat) /\ Len(SubSeq(q, 1, k)) = k
  OBVIOUS
<1>2. SubSeq(q, k + 1, Len(q)) \in Seq(Nat) /\ Len(SubSeq(q, k + 1, Len(q))) = Len(q) - k
  OBVIOUS
<1> QED
  BY <1>1, <1>2

LEMMA InitHolds == Init => IInv
<1> SUFFICES ASSUME Init PROVE IInv
  OBVIOUS
<1>1. Len(<< >>) = 0 /\ << >> \in Seq(Nat) /\ << >> \in Seq(1 .. MaxFrames)
  OBVIOUS
<1>2. FlowOK
  <2>1. 0 \in 0 .. MaxFrames /\ 0 \in 0 .. Capacity /\ 0 <= Capacity /\ 0 <= MaxFrames
    OBVIOUS
  <2>2. Len(queue) = 0 /\ Len(delivered) = 0 /\ offered = 0
    BY <1>1 DEF Init, Ring!Init
  <2> QED
    BY <2>1, <2>2 DEF Init, Ring!Init, FlowOK
<1>3. CountInv
  BY <1>1 DEF Init, Ring!Init, CountInv
<1>4. StopInv
  BY DEF Init, Ring!Init, StopInv
<1>5. RecordsOK
  <2>1. 0 \in 0 .. MaxFrames /\ FALSE \in BOOLEAN /\ {} \subseteq 1 .. MaxFrames
    OBVIOUS
  <2> QED
    BY <1>1, <2>1, Zenon DEF Init, RecordsOK
<1>6. JournalInv
  <2>1. RecordedUpTo(0, records, missed)
    BY DEF Init, RecordedUpTo
  <2> QED
    BY <2>1 DEF Init, JournalInv
<1> QED
  BY <1>2, <1>3, <1>4, <1>5, <1>6 DEF IInv, FlowInv

\* The ring, the batches and the stop.
LEMMA FlowStep == FlowInv /\ [Next]_vars => FlowInv'
<1> SUFFICES ASSUME FlowInv, [Next]_vars
             PROVE  FlowInv'
  OBVIOUS
<1> USE DEF FlowInv, FlowOK, CountInv, StopInv, ring, stop, count, journal
<1>1. CASE Callback
  <2>1. PICK n \in 1 .. MaxBlock :
          LET k == Lesser(n, Capacity - Len(queue))
          IN  /\ offered + n <= MaxFrames
              /\ Ring!Accept(n, k)
              /\ late' = late + k
    BY <1>1 DEF Callback
  <2> DEFINE k == Lesser(n, Capacity - Len(queue))
  <2>2. k \in Nat /\ k <= n /\ k <= Capacity - Len(queue)
    BY DEF Lesser
  <2>3. queue' \in Seq(Nat) /\ Len(queue') = Len(queue) + k
    <3>1. queue' = queue \o [j \in 1 .. k |-> offered + j]
      BY <2>1 DEF Ring!Accept
    <3>2. queue \in Seq(Nat) /\ offered \in Nat
      OBVIOUS
    <3> HIDE DEF k
    <3> QED
      BY <2>2, <3>1, <3>2, AcceptLength
  <2> QED
    <3>1. /\ offered' = offered + n /\ offered' <= MaxFrames /\ late' = late + k
          /\ stream /\ delivered' = delivered
          /\ UNCHANGED <<stream, stopSent, writerStop, session, writer,
                         written, critical>>
      BY <1>1, <2>1 DEF Callback, Ring!Accept
    <3>2. Len(queue) \in Nat /\ Len(delivered) \in Nat /\ offered \in Nat /\ n \in Nat
      OBVIOUS
    <3> HIDE DEF k
    <3>3. FlowOK'
      BY <2>2, <2>3, <3>1, <3>2
    <3>4. CountInv'
      BY <2>2, <2>3, <3>1, <3>2
    <3>5. StopInv'
      BY <2>2, <2>3, <3>1, <3>2
    <3> QED
      BY <3>3, <3>4, <3>5
<1>2. CASE Pop
  <2>1. PICK k \in 1 .. Len(queue) : Ring!Hand(k) /\ late' = 0
    BY <1>2 DEF Pop
  <2>2. /\ delivered' \in Seq(Nat) /\ Len(delivered') = Len(delivered) + k
        /\ queue' \in Seq(Nat) /\ Len(queue') = Len(queue) - k
    <3>1. k \in Nat /\ k <= Len(queue) /\ queue \in Seq(Nat) /\ delivered \in Seq(Nat)
      OBVIOUS
    <3>2. /\ delivered' = delivered \o SubSeq(queue, 1, k)
          /\ queue' = SubSeq(queue, k + 1, Len(queue))
      BY <2>1 DEF Ring!Hand
    <3> HIDE DEF FlowInv, FlowOK, CountInv, StopInv
    <3> QED
      BY <3>1, <3>2, HandLength
  <2> QED
    <3>1. /\ writer = "pop" /\ writer' = "write" /\ late' = 0
          /\ UNCHANGED <<offered, stream, stopSent, writerStop, session,
                         written, critical>>
      BY <1>2, <2>1 DEF Pop, Ring!Hand
    <3>2. Len(queue) \in Nat /\ Len(delivered) \in Nat /\ k \in Nat /\ k <= Len(queue)
      OBVIOUS
    <3>3. FlowOK'
      <4>1. Len(delivered') <= MaxFrames /\ Len(queue') <= Capacity
        <5>1. /\ Len(delivered) + Len(queue) <= offered /\ offered \in Nat
              /\ offered <= MaxFrames /\ MaxFrames \in Nat
              /\ Len(queue) <= Capacity /\ Capacity \in Nat
          OBVIOUS
        <5>2. Len(delivered') = Len(delivered) + k /\ Len(queue') = Len(queue) - k
          BY <2>2
        <5> HIDE DEF FlowInv, FlowOK, CountInv, StopInv
        <5> QED
          BY <3>2, <5>1, <5>2
      <4>2. late' \in 0 .. Capacity
        BY <3>1
      <4> QED
        BY <3>1, <4>1, <4>2
    <3>4. CountInv'
      <4>1. /\ Len(delivered) + Len(queue) <= offered /\ written <= Len(delivered)
            /\ offered \in Nat /\ written \in Nat
        OBVIOUS
      <4>2. /\ Len(delivered') + Len(queue') <= offered' /\ written' <= Len(delivered')
            /\ late' \in Nat /\ late' <= Len(queue')
        <5> HIDE DEF FlowInv, FlowOK, CountInv, StopInv
        <5> QED
          BY <2>2, <3>1, <3>2, <4>1
      <4> QED
        BY <2>2, <3>1, <4>2
    <3>5. StopInv'
      <4>1. session # "stopped" /\ writer' = "write"
        BY <3>1
      <4> QED
        BY <3>1, <4>1
    <3> QED
      BY <3>3, <3>4, <3>5
<1>3. CASE PopNothing
  BY <1>3 DEF PopNothing
<1>4. CASE WriteBatch
  BY <1>4 DEF WriteBatch
<1>5. CASE WriteError
  BY <1>5 DEF WriteError
<1>6. CASE DrainSegment
  <2>1. /\ writer = "drain" /\ written = Len(delivered)
        /\ UNCHANGED <<offered, queue, delivered, stream, stopSent, writerStop, session,
                       written, late>>
    BY <1>6 DEF DrainSegment
  <2>2. CASE UNCHANGED <<writer, critical>>
    BY <2>1, <2>2
  <2>3. CASE writer' = "final" /\ critical' = TRUE
    BY <2>1, <2>3
  <2> QED
    BY <1>6, <2>2, <2>3 DEF DrainSegment
<1>7. CASE Drained \/ OtherRecord
  BY <1>7 DEF Drained, OtherRecord
<1>8. CASE LookAtStop
  BY <1>8 DEF LookAtStop, AskedToStop
<1>9. CASE Finalize \/ TailSegment \/ End
  BY <1>9 DEF Finalize, TailSegment, End
<1>10. CASE SendStop
  BY <1>10 DEF SendStop
<1>11. CASE DropStream
  BY <1>11 DEF DropStream
<1>12. CASE StopWriter
  BY <1>12 DEF StopWriter, CaptureJoined
<1>13. CASE JoinWriter
  BY <1>13 DEF JoinWriter
<1>14. CASE UNCHANGED vars
  BY <1>14 DEF vars
<1> QED
  BY <1>1, <1>2, <1>3, <1>4, <1>5, <1>6, <1>7, <1>8, <1>9, <1>10, <1>11, <1>12, <1>13, <1>14
     DEF Next, Consumer, Stopping

(***************************************************************************)
(* Segments.                                                               *)
(***************************************************************************)
LEMMA Products ==
  ASSUME NEW a \in Nat, NEW f \in Nat \ {0}
  PROVE  a * f \in Nat /\ a <= a * f /\ (a + 1) * f = a * f + f
<1>1. a * f \in Nat /\ (a + 1) * f = a * f + f
  OBVIOUS
<1>2. PICK g \in Nat : f = g + 1
  <2>1. f - 1 \in Nat /\ f = (f - 1) + 1
    OBVIOUS
  <2> QED
    BY <2>1
<1>3. a * f = a * g + a /\ a * g \in Nat
  BY <1>2
<1> QED
  BY <1>1, <1>3

\* Rounded up, and therefore no fewer than the closed ones.
LEMMA SegmentsOf ==
  ASSUME written \in Nat
  PROVE  /\ AllSegments \in Nat /\ AllSegments <= written
         /\ \A n \in Nat : n * FrameLimit <= written => n <= AllSegments
<1> DEFINE w == written + FrameLimit - 1
           q == w \div FrameLimit
<1>1. w \in Nat /\ FrameLimit \in Nat \ {0}
  OBVIOUS
<1>2. q \in Nat /\ w = FrameLimit * q + (w % FrameLimit) /\ w % FrameLimit \in 0 .. FrameLimit - 1
  <2> HIDE DEF w
  <2> QED
    BY <1>1
<1>3. AllSegments = q
  BY DEF AllSegments
<1> HIDE DEF q
<1>4. q * FrameLimit \in Nat /\ w = q * FrameLimit + (w % FrameLimit)
  BY <1>1, <1>2
<1>5. q <= written
  <2> SUFFICES ASSUME q >= written + 1 PROVE FALSE
    BY <1>2
  <2>1. PICK d \in Nat : q = written + 1 + d
    <3>1. q - (written + 1) \in Nat /\ q = written + 1 + (q - (written + 1))
      BY <1>2
    <3> QED
      BY <3>1
  <2>2. q * FrameLimit = (written + 1) * FrameLimit + d * FrameLimit /\ d * FrameLimit \in Nat
    BY <2>1
  <2>3. (written + 1) * FrameLimit = written * FrameLimit + FrameLimit
        /\ written <= written * FrameLimit /\ written * FrameLimit \in Nat
    BY Products
  <2>4. q * FrameLimit >= written + FrameLimit
    BY <2>2, <2>3
  <2> QED
    BY <1>2, <1>4, <2>4
<1>6. ASSUME NEW n \in Nat, n * FrameLimit <= written PROVE n <= q
  <2> SUFFICES ASSUME n >= q + 1 PROVE FALSE
    BY <1>2
  <2>1. PICK d \in Nat : n = q + 1 + d
    <3>1. n - (q + 1) \in Nat /\ n = q + 1 + (n - (q + 1))
      BY <1>2
    <3> QED
      BY <3>1
  <2>2. n * FrameLimit = (q + 1) * FrameLimit + d * FrameLimit /\ d * FrameLimit \in Nat
    BY <1>2, <2>1
  <2>3. (q + 1) * FrameLimit = q * FrameLimit + FrameLimit
    BY <1>2, Products
  <2>4. n * FrameLimit >= q * FrameLimit + FrameLimit
    BY <1>4, <2>2, <2>3
  <2> QED
    BY <1>2, <1>4, <1>6, <2>4
<1> QED
  BY <1>2, <1>3, <1>5, <1>6

\* One more segment goes to the journal, with or without success.
LEMMA OneMoreRecord ==
  ASSUME RecordsOK, NEW n \in Nat, n + 1 <= MaxFrames, RecordedUpTo(n, records, missed),
         Lands(n + 1) \/ Lost(n + 1)
  PROVE  /\ RecordedUpTo(n + 1, records', missed')
         /\ records' \in Seq(1 .. MaxFrames) /\ missed' \subseteq 1 .. MaxFrames
<1>1. /\ records \in Seq(1 .. MaxFrames) /\ missed \subseteq 1 .. n
      /\ Recorded = (1 .. n) \ missed /\ n + 1 \in 1 .. MaxFrames
      /\ 1 .. n + 1 = (1 .. n) \cup {n + 1} /\ n + 1 \notin 1 .. n
  BY DEF RecordsOK, RecordedUpTo, Recorded
<1>2. CASE Lands(n + 1)
  <2>1. records' = Append(records, n + 1) /\ missed' = missed
    BY <1>2 DEF Lands
  <2>2. /\ records' \in Seq(1 .. MaxFrames)
        /\ Len(records') = Len(records) + 1 /\ Len(records) \in Nat
        /\ DOMAIN records = 1 .. Len(records) /\ DOMAIN records' = 1 .. Len(records')
        /\ \A k \in DOMAIN records : records'[k] = records[k]
        /\ records'[Len(records) + 1] = n + 1
    BY <1>1, <2>1
  <2>3. \A k \in DOMAIN records : records[k] \in 1 .. n
    BY <1>1 DEF Recorded
  <2>4. Recorded' = Recorded \cup {n + 1}
    <3>1. DOMAIN records' = (DOMAIN records) \cup {Len(records) + 1}
      BY <2>2
    <3> QED
      BY <2>2, <3>1 DEF Recorded
  <2>5. \A j, k \in DOMAIN records' : j < k => records'[j] < records'[k]
    <3> SUFFICES ASSUME NEW j \in DOMAIN records', NEW k \in DOMAIN records', j < k
                 PROVE  records'[j] < records'[k]
      OBVIOUS
    <3>1. j \in DOMAIN records /\ records'[j] = records[j] /\ records[j] \in 1 .. n
      BY <2>2, <2>3
    <3>2. CASE k \in DOMAIN records
      BY <2>2, <3>1, <3>2 DEF RecordedUpTo
    <3>3. CASE k = Len(records) + 1
      BY <2>2, <3>1, <3>3
    <3> QED
      BY <2>2, <3>2, <3>3
  <2> QED
    BY <1>1, <2>1, <2>2, <2>4, <2>5 DEF RecordedUpTo
<1>3. CASE Lost(n + 1)
  <2>1. records' = records /\ missed' = missed \cup {n + 1}
    BY <1>3 DEF Lost
  <2> QED
    BY <1>1, <2>1 DEF RecordedUpTo, Recorded
<1> QED
  BY <1>2, <1>3

LEMMA RecordIs ==
  ASSUME NEW n \in Nat, Record(n), torn \in BOOLEAN
  PROVE  (Lands(n) \/ Lost(n)) /\ torn' \in BOOLEAN
BY DEF Record, Fragments

\* The consumer's counts and the journal.
LEMMA JournalStep ==
  ASSUME IInv, FlowInv', [Next]_vars
  PROVE  RecordsOK' /\ JournalInv'
<1>1. /\ written \in Nat /\ written <= MaxFrames /\ written' \in Nat /\ written' <= MaxFrames
      /\ RecordsOK /\ JournalInv /\ drained \in Nat /\ journaled \in Nat
      /\ torn \in BOOLEAN
  BY DEF IInv, FlowInv, FlowOK, RecordsOK
<1>2. /\ AllSegments \in Nat /\ AllSegments <= written
      /\ \A n \in Nat : n * FrameLimit <= written => n <= AllSegments
  BY <1>1, SegmentsOf
<1>3. CASE UNCHANGED <<writer, count, records, missed>> /\ torn' \in BOOLEAN
  BY <1>1, <1>3 DEF count, RecordsOK, JournalInv, RecordedUpTo, AllSegments
<1>4. CASE UNCHANGED <<count, journal>> /\ writer \notin {"tail", "ended"}
             /\ writer' \notin {"tail", "ended"}
  BY <1>1, <1>4 DEF count, journal, RecordsOK, JournalInv, RecordedUpTo
<1>5. CASE WriteBatch
  <2>1. /\ UNCHANGED <<drained, journaled, journal>> /\ writer = "write" /\ writer' = "drain"
        /\ written <= written'
    BY <1>5 DEF WriteBatch, IInv, FlowInv, CountInv
  <2>2. drained * FrameLimit \in Nat
    BY <1>1, Products
  <2>3. drained' * FrameLimit <= written'
    BY <1>1, <2>1, <2>2 DEF JournalInv
  <2> QED
    BY <1>1, <2>1, <2>3 DEF journal, RecordsOK, JournalInv, RecordedUpTo
<1>6. CASE DrainSegment
  <2>1. /\ Lands(drained + 1) \/ Lost(drained + 1)
        /\ torn' \in BOOLEAN /\ UNCHANGED written
        /\ drained' = drained + 1 /\ journaled' = journaled + 1
        /\ writer = "drain" /\ writer' \in {"drain", "final"} /\ Closed(drained + 1)
    <3>1. drained + 1 \in Nat
      BY <1>1
    <3>2. Fragments \subseteq BOOLEAN
      BY Zenon DEF Fragments
    <3>3. CASE Record(drained + 1) /\ UNCHANGED <<writer, critical>>
      BY <1>1, <1>6, <3>1, <3>3, RecordIs DEF DrainSegment, CountDrained
    <3>4. CASE (Lands(drained + 1) \/ Lost(drained + 1)) /\ torn' \in Fragments
      BY <1>6, <3>2, <3>4 DEF DrainSegment, CountDrained
    <3> QED
      BY <1>6, <3>3, <3>4 DEF DrainSegment
  <2>2. (drained + 1) * FrameLimit <= written
    BY <2>1 DEF Closed
  <2>3. drained + 1 <= MaxFrames
    BY <1>1, <1>2, <2>2
  <2>4. journaled = drained /\ RecordedUpTo(drained, records, missed)
    BY <1>1, <2>1 DEF JournalInv
  <2>5. /\ RecordedUpTo(drained + 1, records', missed')
        /\ records' \in Seq(1 .. MaxFrames) /\ missed' \subseteq 1 .. MaxFrames
    BY <1>1, <2>1, <2>3, <2>4, OneMoreRecord
  <2>6. RecordedUpTo(journaled', records', missed')
    BY <2>1, <2>4, <2>5
  <2> QED
    BY <1>1, <2>1, <2>2, <2>3, <2>4, <2>5, <2>6 DEF JournalInv, RecordsOK
<1>7. CASE Finalize
  <2>1. UNCHANGED <<count, journal>> /\ writer = "final" /\ writer' = "tail"
    BY <1>7 DEF Finalize
  <2>2. journaled <= AllSegments
    BY <1>1, <1>2, <2>1 DEF JournalInv
  <2> QED
    BY <1>1, <2>1, <2>2
    DEF count, journal, RecordsOK, JournalInv, RecordedUpTo, AllSegments
<1>8. CASE TailSegment
  <2>1. /\ Lands(journaled + 1) \/ Lost(journaled + 1)
        /\ torn' \in BOOLEAN /\ UNCHANGED <<writer, written, drained>>
        /\ journaled' = journaled + 1 /\ writer = "tail" /\ journaled < AllSegments
    BY <1>1, <1>8, RecordIs DEF TailSegment
  <2>2. journaled + 1 <= AllSegments /\ journaled + 1 <= MaxFrames
    BY <1>1, <1>2, <2>1
  <2>3. /\ RecordedUpTo(journaled + 1, records', missed')
        /\ records' \in Seq(1 .. MaxFrames) /\ missed' \subseteq 1 .. MaxFrames
    BY <1>1, <2>1, <2>2, OneMoreRecord DEF JournalInv
  <2>4. RecordedUpTo(journaled', records', missed')
    BY <2>1, <2>3
  <2> QED
    BY <1>1, <2>1, <2>2, <2>3, <2>4 DEF JournalInv, RecordsOK, AllSegments
<1>9. CASE End
  <2>1. /\ UNCHANGED <<count, journal>> /\ writer = "tail" /\ writer' = "ended"
        /\ journaled = AllSegments
    BY <1>1, <1>2, <1>9 DEF End, JournalInv
  <2> QED
    BY <1>1, <2>1 DEF count, journal, RecordsOK, JournalInv, RecordedUpTo, AllSegments
<1>10. CASE Callback \/ OtherRecord \/ SendStop \/ Stopping \/ UNCHANGED vars
  <2>1. UNCHANGED <<writer, count, records, missed>>
    BY <1>10 DEF Callback, OtherRecord, SendStop, Stopping, DropStream, StopWriter, JoinWriter,
       vars, journal
  <2>2. torn' \in BOOLEAN
    BY <1>1, <1>10 DEF Callback, OtherRecord, SendStop, Stopping, DropStream, StopWriter,
       JoinWriter, vars, journal
  <2> QED
    BY <1>3, <2>1, <2>2
<1>11. CASE Pop \/ PopNothing \/ WriteError \/ Drained \/ LookAtStop
  BY <1>4, <1>11 DEF Pop, PopNothing, WriteError, Drained, LookAtStop
<1> QED
  BY <1>5, <1>6, <1>7, <1>8, <1>9, <1>10, <1>11 DEF Next, Consumer

LEMMA IInvHolds == Spec => []IInv
<1>1. IInv /\ [Next]_vars => IInv'
  BY FlowStep, JournalStep DEF IInv
<1> QED
  BY <1>1, InitHolds, PTL DEF Spec

\* Every reachable state of the pipeline has its type: the ring never holds more
\* than its capacity, whatever the sizes (audio/capture.rs, audio/ring.rs).
THEOREM PipelineTypeCorrect == Spec => []TypeOK
<1>1. IInv => TypeOK
  BY DEF IInv, FlowInv, TypeOK
<1> QED
  BY <1>1, IInvHolds, PTL

(***************************************************************************)
(* However the disk fills and whichever appends fail: at the end of a      *)
(* consumer that had no write error everything taken is in a segment, and  *)
(* every segment but those whose append was lost has exactly one record,   *)
(* in order, also when the drain was left in the middle at the critical    *)
(* threshold (audio/capture.rs, run_consumer).                             *)
(***************************************************************************)
THEOREM TakenJournaled == Spec => []TakenIsJournaled
<1>1. IInv => TakenIsJournaled
  BY DEF IInv, FlowInv, CountInv, JournalInv, RecordedUpTo, Recorded, TakenIsJournaled
<1> QED
  BY <1>1, IInvHolds, PTL

(***************************************************************************)
(* As long as no append to the journal fails, no segment stays without a   *)
(* record (audio/capture.rs on the tail).  The hypothesis is needed:       *)
(* NothingMissed is violated in PipelineStop.                              *)
(***************************************************************************)
AppendsSucceed == "journal" \notin Troubles

THEOREM NothingIsMissed == AppendsSucceed => (Spec => []NothingMissed)
<1> SUFFICES ASSUME AppendsSucceed PROVE Spec => []NothingMissed
  OBVIOUS
<1> DEFINE Whole == torn = FALSE /\ missed = {}
<1>1. Init => Whole
  BY DEF Init
<1>2. Whole /\ [Next]_vars => Whole'
  BY DEF AppendsSucceed, Next, Callback, Consumer, Pop, PopNothing, WriteBatch, WriteError,
     DrainSegment, Record, Lands, Lost, Fragments, Drained, LookAtStop, Finalize, TailSegment,
     End, OtherRecord, SendStop, Stopping, DropStream, StopWriter, JoinWriter, journal, vars
<1>3. Whole /\ TakenIsJournaled => NothingMissed
  BY DEF TakenIsJournaled, NothingMissed
<1> QED
  BY <1>1, <1>2, <1>3, TakenJournaled, PTL DEF Spec

\* A stop gives up nothing but what came in after the consumer's last look at
\* the ring, and the stream is gone by then (audio/capture.rs, stop).
THEOREM LateFramesOnly == Spec => []OnlyLateFramesLeft
<1>1. IInv => OnlyLateFramesLeft
  BY DEF IInv, FlowInv, StopInv, FlowOK, OnlyLateFramesLeft
<1> QED
  BY <1>1, IInvHolds, PTL
=============================================================================
