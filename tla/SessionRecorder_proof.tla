------------------------- MODULE SessionRecorder_proof -------------------------
(***************************************************************************)
(* What holds of SessionRecorder for every number of segments, segment     *)
(* length and number of failures.  ClosedSegmentsKept is not inductive:    *)
(* why a closed segment survives depends on which files the finalization   *)
(* under way, the recovery's listing and the undone operations refer to.   *)
(* JournaledReadable, LossOnlyInRewrite and ClosedSessionComplete need     *)
(* more of that kind (ReadInv, CompleteInv): when a header may lie, which  *)
(* files recovery still has to visit, and what its journal marks promise.  *)
(***************************************************************************)
EXTENDS SessionRecorder, TLAPS

\* The live writer (or its tail after the stop) owns the directory.
Active == pc # "down" /\ mode \in {"live", "final"}

Finalizing == pc \in {"encrypt", "encrypting", "unlink", "journal"}

\* How the counters of the write loop go together.
LoopInv ==
  /\ pc = "run" => mode = "live"
  /\ pc = "stop" => mode = "final"
  /\ pc \in {"repair", "rewrite", "strays", "discard"} => ~Active
  /\ frames > 0 => Active /\ mode = "live" /\ closed < MaxSegments
  /\ Active => journaled <= closed
  /\ Active /\ Finalizing => seg = journaled + 1 /\ seg <= closed

LoopOK == TypeOK /\ LoopInv

\* The storage survives what is assumed to happen to it: copies that are not
\* fsynced matter only if the power may be cut.
SafeStorage == "power" \notin Faults \/ Encrypt = FALSE

\* A closed segment is whole in its plain file, in its encrypted copy, or both.
ClosedFiles ==
  \A i \in 1 .. closed :
    /\ wav[i].data = synced[i] /\ wav[i].decl = synced[i]
    /\ enc[i].st = "whole" => enc[i].data = synced[i]
    /\ wav[i].on \/ enc[i].st = "whole"

\* While the writer runs, a segment it has not journaled has its plain file.
LiveFiles ==
  Active => /\ todo = {} /\ loose = {}
            /\ \A i \in Idx : i > closed => enc[i].st # "whole"
            /\ \A i \in Idx : journaled < i /\ i <= closed =>
                 wav[i].on \/ (i = seg /\ pc = "journal")

\* A plain file is removed only when its copy is whole, and is not visited again.
FinalizeFiles ==
  /\ pc \in {"encrypt", "encrypting", "unlink"} =>
       wav[seg].on /\ <<seg, "wav">> \notin todo
  /\ pc \in {"encrypting", "unlink"} => Encrypt
  /\ pc = "unlink" => enc[seg].st = "whole"

\* Recovery rewrites, and a power loss undoes, only files of unclosed segments.
RecoveryFiles ==
  /\ pc = "rewrite" => seg > closed
  /\ \A i \in Idx : <<i, "wav">> \in todo => wav[i].on
  /\ \A i \in Idx : /\ <<"rm", i>> \notin loose
                    /\ <<"enc", i>> \notin loose
                    /\ <<"fix", i>> \in loose => i > closed

KeepInv == ClosedFiles /\ LiveFiles /\ FinalizeFiles /\ RecoveryFiles

IInv == LoopOK /\ KeepInv

-----------------------------------------------------------------------------
LEMMA LoopInit == Init => LoopOK
<1> SUFFICES ASSUME Init PROVE LoopOK
  OBVIOUS
<1> USE RecorderAssumption DEF Init, Idx, Frames, Forms, Files
<1>1. ControlOK
  BY DEF ControlOK
<1>2. FilesOK
  BY DEF FilesOK, WavFile, EncFile, NoWav, NoEnc
<1>3. journal \in JournalType
  BY DEF JournalType
<1>4. LoopInv
  BY DEF LoopInv, Active, Finalizing
<1> QED
  BY <1>1, <1>2, <1>3, <1>4 DEF LoopOK, TypeOK

\* What closing the open segment at the end of the loop does to the counters.
LEMMA LoopEnds ==
  ASSUME LoopOK, NEW done, EndLoop(done)
  PROVE  /\ synced' \in [Idx -> Frames] /\ closed' \in 0 .. MaxSegments
         /\ frames' = 0 /\ closed <= closed'
<1> USE RecorderAssumption DEF LoopOK, LoopInv, TypeOK, ControlOK, Idx, Frames
<1>1. CASE frames > 0
  <2>1. closed + 1 \in Idx /\ frames \in Frames
    BY <1>1
  <2> QED
    BY <1>1, <2>1 DEF EndLoop, CloseOpen
<1>2. CASE ~(frames > 0)
  BY <1>2 DEF EndLoop
<1> QED
  BY <1>1, <1>2

\* The counters and the program counter.
LEMMA ControlStep == LoopOK /\ [Next]_vars => ControlOK' /\ LoopInv'
<1> SUFFICES ASSUME LoopOK, [Next]_vars PROVE ControlOK' /\ LoopInv'
  OBVIOUS
<1> USE RecorderAssumption DEF LoopOK, LoopInv, Active, Finalizing, TypeOK,
        ControlOK, writer, disk, Idx, Frames, Forms, Files
<1>1. CASE WriteFrame
  <2>1. CASE SegmentFull
    <3>1. closed + 1 \in Idx /\ closed' = closed + 1 /\ frames' = 0
      BY <1>1, <2>1 DEF WriteFrame, CloseOpen
    <3>2. frames + 1 \in Frames
      OBVIOUS
    <3>3. synced' \in [Idx -> Frames]
      BY <1>1, <2>1, <3>1, <3>2 DEF WriteFrame, CloseOpen
    <3>4. /\ pc = "run"
          /\ UNCHANGED <<pc, mode, journaled, seg, stored, todo, known, keep,
                         loose, faults>>
      BY <1>1 DEF WriteFrame
    <3> QED
      BY <3>1, <3>3, <3>4
  <2>2. CASE ~SegmentFull
    BY <1>1, <2>2 DEF WriteFrame, SegmentFull
  <2> QED
    BY <2>1, <2>2
<1>2. CASE Flush
  BY <1>2 DEF Flush, ValidWav
<1>3. CASE Drain
  BY <1>3 DEF Drain
<1>4. CASE StopLoop
  <2>1. EndLoop(journaled) /\ pc = "run" /\ journaled = closed
    BY <1>4 DEF StopLoop
  <2>2. /\ synced' \in [Idx -> Frames] /\ closed' \in 0 .. MaxSegments
        /\ frames' = 0 /\ closed <= closed'
    BY <2>1, LoopEnds
  <2>3. /\ mode' = "final"
        /\ IF journaled < closed' THEN pc' = "encrypt" /\ seg' = journaled + 1
                                  ELSE pc' = "stop" /\ seg' = seg
    BY <2>1 DEF EndLoop, TailLeft
  <2>4. UNCHANGED <<journaled, stored, todo, known, keep, loose, faults>>
    BY <1>4 DEF StopLoop
  <2>5. CASE journaled < closed'
    BY <2>1, <2>2, <2>3, <2>4, <2>5, SMTT(30)
  <2>6. CASE ~(journaled < closed')
    BY <2>1, <2>2, <2>3, <2>4, <2>6
  <2> QED
    BY <2>5, <2>6
<1>5. CASE JournalSegment
  <2>1. faults' \in 0 .. MaxFaults
    BY <1>5 DEF JournalSegment, LiveJournal, Fault
  <2>2. CASE journaled + 1 < closed
    BY <1>5, <2>1, <2>2 DEF JournalSegment, NextSegment
  <2>3. CASE ~(journaled + 1 < closed)
    BY <1>5, <2>1, <2>3 DEF JournalSegment, NextSegment
  <2> QED
    BY <2>2, <2>3
<1>6. CASE JournalThenDiskCritical
  <2>1. EndLoop(journaled + 1) /\ pc = "journal" /\ mode = "live"
    BY <1>6 DEF JournalThenDiskCritical
  <2>2. /\ synced' \in [Idx -> Frames] /\ closed' \in 0 .. MaxSegments
        /\ frames' = 0 /\ closed <= closed'
    BY <2>1, LoopEnds
  <2>3. faults' \in 0 .. MaxFaults
    BY <1>6 DEF JournalThenDiskCritical, LiveJournal, Fault
  <2>4. /\ mode' = "final"
        /\ IF journaled + 1 < closed'
           THEN pc' = "encrypt" /\ seg' = journaled + 2
           ELSE pc' = "stop" /\ seg' = seg
    BY <2>1 DEF EndLoop, TailLeft
  <2>5. /\ journaled' = journaled + 1
        /\ UNCHANGED <<stored, todo, known, keep, loose>>
    BY <1>6 DEF JournalThenDiskCritical
  <2>6. CASE journaled + 1 < closed'
    <3>1. pc' = "encrypt" /\ seg' = journaled + 2 /\ mode' = "final"
      BY <2>4, <2>6
    <3>2. seg' \in Idx /\ journaled' \in 0 .. MaxSegments
      BY <2>2, <2>5, <2>6, <3>1
    <3>3. UNCHANGED <<stored, todo, known, keep, loose>>
      BY <2>5
    <3>4. ControlOK'
      BY <2>2, <2>3, <3>1, <3>2, <3>3
    <3>5. LoopInv'
      BY <2>2, <2>5, <2>6, <3>1
    <3> QED
      BY <3>4, <3>5
  <2>7. CASE ~(journaled + 1 < closed')
    <3>1. journaled + 1 <= closed
      BY <2>1
    <3>2. pc' = "stop" /\ seg' = seg /\ mode' = "final"
      BY <2>4, <2>7
    <3>3. journaled' \in 0 .. MaxSegments /\ journaled' <= closed'
      BY <2>2, <2>5, <3>1
    <3>4. UNCHANGED <<stored, todo, known, keep, loose>>
      BY <2>5
    <3>5. ControlOK'
      BY <2>2, <2>3, <3>2, <3>3, <3>4
    <3>6. LoopInv'
      BY <2>2, <3>2, <3>3
    <3> QED
      BY <3>5, <3>6
  <2> QED
    BY <2>6, <2>7
<1>7. CASE StopCapture
  BY <1>7 DEF StopCapture, Append
<1>8. CASE KeepPlain
  BY <1>8 DEF KeepPlain
<1>9. CASE CreateEnc
  BY <1>9 DEF CreateEnc
<1>10. CASE WriteEnc
  BY <1>10 DEF WriteEnc, Loosen
<1>11. CASE RemovePlain
  BY <1>11 DEF RemovePlain, Loosen
<1>12. CASE BeginRecovery
  BY <1>12 DEF BeginRecovery, AlreadyJournaled, Listing
<1>13. CASE RepairTail
  <2>1. wav[seg].data \in Frames
    BY DEF FilesOK, WavFile
  <2>2. /\ pc = "repair" /\ pc' \in {"rewrite", "strays"}
        /\ keep' \in {keep, wav[seg].data}
        /\ UNCHANGED <<mode, writer, seg, stored, todo, known, loose, faults>>
    BY <1>13 DEF RepairTail
  <2> QED
    BY <2>1, <2>2
<1>14. CASE RewriteTail
  BY <1>14 DEF RewriteTail, Loosen, ValidWav
<1>15. CASE SkipFile
  BY <1>15 DEF SkipFile
<1>16. CASE TakeStray
  BY <1>16 DEF TakeStray, IsFirst
<1>17. CASE JournalStray
  BY <1>17 DEF JournalStray, Append, Completed, StoredFrames
<1>18. CASE MarkRecovered
  BY <1>18 DEF MarkRecovered, Append
<1>19. CASE DiscardStop
  BY <1>19 DEF DiscardStop, Append
<1>20. CASE FinalizeFails
  BY <1>20 DEF FinalizeFails, Fault
<1>21. CASE Kill
  BY <1>21 DEF Kill, Fault, GoDown, WavLeft, OpenLeft
<1>22. CASE WriterFails
  BY <1>22, SMTT(30) DEF WriterFails, Fault, GoDown, WavLeft, OpenLeft, ValidWav
<1>23. CASE CommandFails
  BY <1>23 DEF CommandFails, Fault, GoDown, TornAppend
<1>24. CASE PowerLoss
  BY <1>24 DEF PowerLoss, Fault, GoDown, TornAppend, WavLeft, OpenLeft, EmptyWav
<1>25. CASE UNCHANGED vars
  BY <1>25 DEF vars
<1> QED
  BY <1>1, <1>2, <1>3, <1>4, <1>5, <1>6, <1>7, <1>8, <1>9, <1>10, <1>11, <1>12, <1>13, <1>14, <1>15, <1>16, <1>17, <1>18, <1>19, <1>20, <1>21, <1>22, <1>23, <1>24, <1>25 DEF Next, Live, Finalize, Recovery, Failure

\* The files.  Steps that write none of them are covered together.
LEMMA FilesStep == LoopOK /\ [Next]_vars => FilesOK'
<1> SUFFICES ASSUME LoopOK, [Next]_vars PROVE FilesOK'
  OBVIOUS
<1> USE RecorderAssumption DEF LoopOK, TypeOK, ControlOK, Idx, Frames, Forms
<1>a. \A n \in Frames : ValidWav(n) \in WavFile
  BY DEF ValidWav, WavFile
<1>b. EmptyWav \in WavFile
  BY DEF EmptyWav, WavFile
<1>c. frames > 0 => closed + 1 \in Idx
  BY DEF LoopInv
<1>d. ASSUME NEW done, EndLoop(done) PROVE wav' \in [Idx -> WavFile]
  <2>1. frames \in Frames /\ wav \in [Idx -> WavFile]
    BY DEF FilesOK
  <2>2. wav' = wav \/ (frames > 0 /\ wav' = [wav EXCEPT ![closed + 1] = ValidWav(frames)])
    BY <1>d DEF EndLoop, CloseOpen
  <2> QED
    BY <1>a, <1>c, <2>1, <2>2
<1>e. ASSUME NEW left \in WavLeft PROVE left \in [Idx -> WavFile]
  <2>1. CASE frames = 0
    BY <1>e, <2>1 DEF WavLeft, FilesOK
  <2>2. CASE frames # 0
    <3>1. closed + 1 \in Idx
      BY <1>c, <2>2
    <3>2. wav[closed + 1] \in WavFile
      BY <3>1 DEF FilesOK
    <3>3. \A w \in OpenLeft : w \in WavFile
      <4> SUFFICES ASSUME NEW w \in OpenLeft PROVE w \in WavFile
        OBVIOUS
      <4>1. w \in [on : {TRUE}, hdr : BOOLEAN,
                  data : wav[closed + 1].data .. frames,
                  decl : {wav[closed + 1].decl}]
        BY DEF OpenLeft
      <4>2. wav[closed + 1].data \in Frames /\ wav[closed + 1].decl \in Frames
        BY <3>2 DEF WavFile
      <4>3. wav[closed + 1].data .. frames \subseteq Frames
        BY <4>2
      <4> QED
        BY <4>1, <4>2, <4>3 DEF WavFile
    <3> QED
      BY <1>e, <2>2, <3>1, <3>3 DEF WavLeft, FilesOK
  <2> QED
    BY <2>1, <2>2
<1>f. wav \in [Idx -> WavFile] /\ enc \in [Idx -> EncFile] /\ seg \in Idx
  BY DEF FilesOK
<1>g. ASSUME NEW w \in WavFile PROVE [w EXCEPT !.on = FALSE] \in WavFile
  BY <1>g DEF WavFile
<1>1. CASE WriteFrame
  <2>1. closed + 1 \in Idx /\ frames + 1 \in Frames /\ enc' = enc
    BY <1>1 DEF WriteFrame
  <2>2. wav' \in {wav, [wav EXCEPT ![closed + 1] = ValidWav(frames + 1)],
                [wav EXCEPT ![closed + 1] = EmptyWav]}
    BY <1>1 DEF WriteFrame, CloseOpen
  <2> QED
    BY <1>a, <1>b, <1>f, <2>1, <2>2 DEF FilesOK
<1>2. CASE Flush
  <2>1. closed + 1 \in Idx /\ frames \in Frames
    BY <1>2, <1>c DEF Flush
  <2> QED
    BY <1>2, <1>a, <1>f, <2>1 DEF Flush, FilesOK
<1>3. CASE StopLoop
  BY <1>3, <1>d, <1>f DEF StopLoop, FilesOK
<1>4. CASE JournalThenDiskCritical
  BY <1>4, <1>d, <1>f DEF JournalThenDiskCritical, FilesOK
<1>5. CASE CreateEnc \/ WriteEnc
  <2>1. wav[seg].decl \in Frames
    BY <1>f DEF WavFile
  <2>2. [st |-> "torn", data |-> 0] \in EncFile
    BY DEF EncFile
  <2>3. [st |-> "whole", data |-> wav[seg].decl] \in EncFile
    BY <2>1 DEF EncFile
  <2> QED
    BY <1>5, <1>f, <2>2, <2>3 DEF CreateEnc, WriteEnc, FilesOK
<1>6. CASE RemovePlain
  <2>0. wav[seg] \in WavFile
    BY <1>f
  <2>1. [wav[seg] EXCEPT !.on = FALSE] \in WavFile
    BY <1>g, <2>0
  <2>2. wav' = [wav EXCEPT ![seg] = [wav[seg] EXCEPT !.on = FALSE]]
    BY <1>6, <1>f DEF RemovePlain
  <2> QED
    BY <1>6, <1>f, <2>1, <2>2 DEF RemovePlain, FilesOK
<1>7. CASE RepairTail \/ RewriteTail
  BY <1>7, <1>a, <1>b, <1>f DEF RepairTail, RewriteTail, FilesOK
<1>8. CASE Kill
  BY <1>8, <1>e, <1>f DEF Kill, FilesOK
<1>9. CASE WriterFails
  <2>1. CASE wav' \in WavLeft
    BY <1>9, <1>e, <1>f, <2>1 DEF WriterFails, FilesOK
  <2>2. CASE \E n \in wav[closed + 1].data .. frames :
               wav' = [wav EXCEPT ![closed + 1] = ValidWav(n)]
    <3>1. closed + 1 \in Idx
      BY <1>9, <1>c DEF WriterFails
    <3>2. wav[closed + 1].data \in Frames
      BY <1>f, <3>1 DEF WavFile
    <3>3. \A n \in wav[closed + 1].data .. frames : n \in Frames
      BY <3>2
    <3> QED
      BY <1>9, <1>a, <1>f, <2>2, <3>1, <3>3 DEF WriterFails, FilesOK
  <2> QED
    BY <1>9, <2>1, <2>2 DEF WriterFails
<1>10. CASE PowerLoss
  <2>1. PICK lost \in SUBSET loose, left \in WavLeft :
          /\ wav' = [i \in Idx |->
               [(IF <<"fix", i>> \in lost THEN EmptyWav ELSE left[i])
                  EXCEPT !.on = left[i].on \/ <<"rm", i>> \in lost]]
          /\ enc' = [i \in Idx |-> IF <<"enc", i>> \in lost
                                   THEN [st |-> "torn", data |-> 0] ELSE enc[i]]
    BY <1>10 DEF PowerLoss
  <2>2. left \in [Idx -> WavFile]
    BY <1>e
  <2>3. ASSUME NEW i \in Idx PROVE wav'[i] \in WavFile
    BY <1>b, <2>1, <2>2 DEF WavFile
  <2>4. ASSUME NEW i \in Idx PROVE enc'[i] \in EncFile
    BY <1>f, <2>1 DEF EncFile
  <2>5. wav' = [i \in Idx |-> wav'[i]] /\ enc' = [i \in Idx |-> enc'[i]]
    BY <2>1
  <2> QED
    BY <2>3, <2>4, <2>5 DEF FilesOK
<1>11. CASE UNCHANGED <<wav, enc>>
  BY <1>11, <1>f DEF FilesOK
<1>12. UNCHANGED <<wav, enc>> \/ WriteFrame \/ Flush \/ StopLoop
         \/ JournalThenDiskCritical \/ CreateEnc \/ WriteEnc \/ RemovePlain
         \/ RepairTail \/ RewriteTail \/ Kill \/ WriterFails \/ PowerLoss
  BY DEF Next, Live, Finalize, Recovery, Failure, vars, disk, Drain,
     JournalSegment, StopCapture, KeepPlain, BeginRecovery, SkipFile, TakeStray,
     JournalStray, MarkRecovered, DiscardStop, FinalizeFails, CommandFails
<1> QED
  BY <1>1, <1>2, <1>3, <1>4, <1>5, <1>6, <1>7, <1>8, <1>9, <1>10, <1>11, <1>12
\* The journal.
LEMMA JournalStep == LoopOK /\ [Next]_vars => journal' \in JournalType
<1> SUFFICES ASSUME LoopOK, [Next]_vars PROVE journal' \in JournalType
  OBVIOUS
<1> USE DEF LoopOK, TypeOK, ControlOK
<1>1. /\ [journal EXCEPT !.torn = FALSE] \in JournalType
      /\ [journal EXCEPT !.torn = TRUE] \in JournalType
      /\ [journal EXCEPT !.stopped = TRUE] \in JournalType
      /\ [journal EXCEPT !.recovered = TRUE] \in JournalType
  BY DEF JournalType
<1>2. StoredFrames \in Frames
  BY DEF StoredFrames, FilesOK, WavFile, EncFile
<1>3. Completed(seg, StoredFrames, stored) \in JournalType
  <2>1. [journal.logged EXCEPT ![seg] = @ + 1] \in [Idx -> Nat]
    BY DEF JournalType
  <2>2. [journal.frames EXCEPT ![seg] = StoredFrames] \in [Idx -> Frames]
    BY <1>2 DEF JournalType
  <2>3. [journal.form EXCEPT ![seg] = stored] \in [Idx -> Forms]
    BY DEF JournalType
  <2>4. Completed(seg, StoredFrames, stored) =
          [journal EXCEPT
             !.logged = [journal.logged EXCEPT ![seg] = @ + 1],
             !.frames = [journal.frames EXCEPT ![seg] = StoredFrames],
             !.form = [journal.form EXCEPT ![seg] = stored]]
    BY DEF Completed, JournalType
  <2> QED
    BY <2>1, <2>2, <2>3, <2>4 DEF JournalType
<1>4. ASSUME NEW new \in JournalType, Append(new) PROVE journal' \in JournalType
  BY <1>1, <1>4 DEF Append
<1>5. ASSUME TornAppend PROVE journal' \in JournalType
  BY <1>1, <1>5 DEF TornAppend
<1>6. \/ UNCHANGED journal
      \/ Append(Completed(seg, StoredFrames, stored))
      \/ Append([journal EXCEPT !.stopped = TRUE])
      \/ Append([journal EXCEPT !.recovered = TRUE])
      \/ TornAppend
  BY DEF Next, Live, Finalize, Recovery, Failure, vars, WriteFrame, Flush, Drain,
     StopLoop, JournalSegment, JournalThenDiskCritical, LiveJournal, StopCapture,
     KeepPlain, CreateEnc, WriteEnc, RemovePlain, BeginRecovery, RepairTail,
     RewriteTail, SkipFile, TakeStray, JournalStray, MarkRecovered, DiscardStop,
     FinalizeFails, Kill, WriterFails, CommandFails, PowerLoss
<1> QED
  BY <1>1, <1>3, <1>4, <1>5, <1>6

\* Every state the directory can reach, under any of the failures, is one the
\* types describe, and the write loop's counters go together in it.
LEMMA LoopCorrect == Spec => []LoopOK
<1>1. LoopOK /\ [Next]_vars => LoopOK'
  BY ControlStep, FilesStep, JournalStep DEF LoopOK, TypeOK
<1> QED
  BY LoopInit, <1>1, PTL DEF Spec

\* Type correctness of the recorder (segment_writer.rs, capture.rs, recovery.rs)
\* for every number of segments and every combination of failures.
THEOREM TypeCorrect == Spec => []TypeOK
<1>1. LoopOK => TypeOK
  BY DEF LoopOK
<1> QED
  BY LoopCorrect, <1>1, PTL
-----------------------------------------------------------------------------
LEMMA KeepInit == Init => KeepInv
  BY RecorderAssumption DEF Init, KeepInv, ClosedFiles, LiveFiles, FinalizeFiles,
     RecoveryFiles, Active, NoWav, NoEnc, Idx, Files

\* Closing the open segment adds one whole file and disturbs no other.
LEMMA CloseKeeps ==
  ASSUME LoopOK, KeepInv, Active, NEW n, CloseOpen(n), closed < MaxSegments,
         enc' = enc
  PROVE  /\ ClosedFiles'
         /\ \A i \in Idx : i > closed' => enc'[i].st # "whole"
         /\ \A i \in Idx : wav[i].on => wav'[i].on
         /\ wav'[closed'].on /\ closed' = closed + 1
<1> USE RecorderAssumption DEF LoopOK, TypeOK, ControlOK, FilesOK, Idx
<1>1. /\ closed + 1 \in Idx /\ closed' = closed + 1
      /\ wav' = [wav EXCEPT ![closed + 1] = ValidWav(n)]
      /\ synced' = [synced EXCEPT ![closed + 1] = n]
  BY DEF CloseOpen
<1>2. /\ wav'[closed + 1].on /\ wav'[closed + 1].data = n
      /\ wav'[closed + 1].decl = n /\ synced'[closed + 1] = n
  BY <1>1 DEF ValidWav
<1>3. \A i \in Idx : i # closed + 1 => wav'[i] = wav[i] /\ synced'[i] = synced[i]
  BY <1>1
<1>4. \A i \in Idx : i > closed => enc'[i].st # "whole"
  BY DEF KeepInv, LiveFiles
<1>5. ASSUME NEW i \in 1 .. closed' PROVE
        /\ wav'[i].data = synced'[i] /\ wav'[i].decl = synced'[i]
        /\ enc'[i].st = "whole" => enc'[i].data = synced'[i]
        /\ wav'[i].on \/ enc'[i].st = "whole"
  <2>1. CASE i = closed + 1
    BY <1>1, <1>2, <1>4, <2>1
  <2>2. CASE i # closed + 1
    <3>1. i \in 1 .. closed /\ i \in Idx
      BY <1>1, <2>2
    <3> QED
      BY <1>3, <2>2, <3>1 DEF KeepInv, ClosedFiles
  <2> QED
    BY <2>1, <2>2
<1> QED
  BY <1>1, <1>2, <1>3, <1>4, <1>5 DEF ClosedFiles

\* The same for the end of the loop, which closes a segment if one is open.
LEMMA EndKeeps ==
  ASSUME LoopOK, KeepInv, Active, NEW done, EndLoop(done), enc' = enc
  PROVE  /\ ClosedFiles'
         /\ \A i \in Idx : i > closed' => enc'[i].st # "whole"
         /\ \A i \in Idx : wav[i].on => wav'[i].on
         /\ closed' = closed \/ (closed' = closed + 1 /\ wav'[closed'].on)
<1>1. CASE frames > 0
  <2>1. CloseOpen(frames) /\ closed < MaxSegments
    BY <1>1 DEF EndLoop, LoopOK, LoopInv
  <2> QED
    BY <2>1, CloseKeeps
<1>2. CASE ~(frames > 0)
  <2>1. UNCHANGED <<wav, synced, closed, frames>>
    BY <1>2 DEF EndLoop
  <2> QED
    BY <2>1 DEF KeepInv, ClosedFiles, LiveFiles
<1> QED
  BY <1>1, <1>2

\* What a failure leaves of the open segment: no other file is touched.
LEMMA OpenOnly ==
  ASSUME LoopOK, NEW left \in WavLeft
  PROVE  /\ \A i \in 1 .. closed : left[i] = wav[i]
         /\ \A i \in Idx : wav[i].on => left[i].on
<1> USE RecorderAssumption DEF LoopOK, TypeOK, ControlOK, FilesOK, Idx
<1>1. CASE frames = 0
  BY <1>1 DEF WavLeft
<1>2. CASE frames # 0
  <2>1. closed + 1 \in Idx
    BY <1>2 DEF LoopInv
  <2>2. PICK w \in OpenLeft : left = [wav EXCEPT ![closed + 1] = w]
    BY <1>2 DEF WavLeft
  <2>3. w.on
    BY DEF OpenLeft
  <2> QED
    BY <2>1, <2>2, <2>3
<1> QED
  BY <1>1, <1>2

\* After a failure nothing is under way, so the closed files are all that counts.
LEMMA DownKeeps ==
  ASSUME LoopOK, KeepInv, GoDown, enc' = enc,
         loose' \subseteq loose,
         \A i \in 1 .. closed : wav'[i] = wav[i]
  PROVE  KeepInv'
<1> USE RecorderAssumption DEF LoopOK, TypeOK, ControlOK, Idx
<1>1. closed' = closed /\ synced' = synced /\ pc' = "down" /\ todo' = {}
  BY DEF GoDown
<1>2. ClosedFiles'
  BY <1>1 DEF KeepInv, ClosedFiles
<1>3. LiveFiles' /\ FinalizeFiles'
  BY <1>1 DEF LiveFiles, FinalizeFiles, Active
<1>4. RecoveryFiles'
  BY <1>1 DEF KeepInv, RecoveryFiles
<1> QED
  BY <1>2, <1>3, <1>4 DEF KeepInv

LEMMA KeepStep ==
  ASSUME SafeStorage, LoopOK, LoopOK', KeepInv, [Next]_vars
  PROVE  KeepInv'
<1> USE RecorderAssumption DEF LoopOK, LoopInv, TypeOK, ControlOK, Active, Finalizing,
        KeepInv, ClosedFiles, LiveFiles, FinalizeFiles, RecoveryFiles,
        writer, disk, Idx, Files, Forms
<1>1. CASE WriteFrame
  <2>1. /\ pc = "run" /\ pc' = "run" /\ mode = "live" /\ mode' = "live"
        /\ closed < MaxSegments /\ enc' = enc
        /\ UNCHANGED <<journaled, seg, todo, loose>>
    BY <1>1 DEF WriteFrame
  <2>2. CASE SegmentFull
    <3>1. /\ ClosedFiles' /\ closed' = closed + 1 /\ wav'[closed'].on
          /\ \A i \in Idx : i > closed' => enc'[i].st # "whole"
          /\ \A i \in Idx : wav[i].on => wav'[i].on
      BY <1>1, <2>1, <2>2, CloseKeeps DEF WriteFrame
    <3> QED
      BY <2>1, <3>1
  <2>3. CASE ~SegmentFull
    <3>1. /\ closed' = closed /\ synced' = synced
          /\ wav' = wav \/ wav' = [wav EXCEPT ![closed + 1] = EmptyWav]
      BY <1>1, <2>3 DEF WriteFrame
    <3>2. closed + 1 \in Idx /\ EmptyWav.on
      BY <2>1 DEF EmptyWav
    <3>3. /\ \A i \in 1 .. closed : wav'[i] = wav[i]
          /\ \A i \in Idx : wav[i].on => wav'[i].on
      <4>1. wav \in [Idx -> WavFile]
        BY DEF FilesOK
      <4>2. CASE wav' = wav
        BY <4>2
      <4>3. CASE wav' = [wav EXCEPT ![closed + 1] = EmptyWav]
        BY <3>2, <4>1, <4>3
      <4> QED
        BY <3>1, <4>2, <4>3
    <3> QED
      BY <2>1, <3>1, <3>3
  <2> QED
    BY <2>2, <2>3
<1>2. CASE Flush
  BY <1>2 DEF Flush, ValidWav
<1>3. CASE Drain
  BY <1>3 DEF Drain
<1>4. CASE StopLoop
  <2>1. /\ pc = "run" /\ mode = "live" /\ journaled = closed
        /\ enc' = enc /\ UNCHANGED <<journaled, todo, loose>>
    BY <1>4 DEF StopLoop
  <2>2. /\ ClosedFiles'
        /\ \A i \in Idx : i > closed' => enc'[i].st # "whole"
        /\ closed' = closed \/ (closed' = closed + 1 /\ wav'[closed'].on)
    BY <1>4, <2>1, EndKeeps DEF StopLoop
  <2>3. /\ mode' = "final"
        /\ \/ pc' = "encrypt" /\ seg' = journaled + 1 /\ journaled < closed'
           \/ pc' = "stop"
    BY <1>4 DEF StopLoop, EndLoop, TailLeft
  <2> QED
    BY <2>1, <2>2, <2>3
<1>5. CASE JournalSegment
  <2>1. /\ pc = "journal" /\ Active /\ journaled' = journaled + 1
        /\ UNCHANGED <<mode, closed, synced, todo, wav, enc, loose>>
    BY <1>5 DEF JournalSegment
  <2>2. \/ pc' = "encrypt" /\ seg' = seg + 1 /\ journaled + 1 < closed
        \/ pc' \in {"run", "stop"}
    BY <1>5 DEF JournalSegment, NextSegment
  <2>3. \A i \in Idx : journaled' < i /\ i <= closed' => wav'[i].on
    BY <2>1
  <2> QED
    BY <2>1, <2>2, <2>3
<1>6. CASE JournalThenDiskCritical
  <2>1. /\ pc = "journal" /\ mode = "live" /\ journaled' = journaled + 1
        /\ enc' = enc /\ UNCHANGED <<todo, loose>>
    BY <1>6 DEF JournalThenDiskCritical
  <2>2. /\ ClosedFiles'
        /\ \A i \in Idx : i > closed' => enc'[i].st # "whole"
        /\ \A i \in Idx : wav[i].on => wav'[i].on
        /\ closed' = closed \/ (closed' = closed + 1 /\ wav'[closed'].on)
    BY <1>6, <2>1, EndKeeps DEF JournalThenDiskCritical
  <2>3. /\ mode' = "final"
        /\ \/ pc' = "encrypt" /\ seg' = journaled' + 1 /\ journaled' < closed'
           \/ pc' = "stop"
    BY <1>6, <2>1 DEF JournalThenDiskCritical, EndLoop, TailLeft
  <2>4. \A i \in Idx : journaled' < i /\ i <= closed' => wav'[i].on
    BY <2>1, <2>2
  <2> QED
    BY <2>1, <2>2, <2>3, <2>4
<1>7. CASE StopCapture
  BY <1>7 DEF StopCapture
<1>8. CASE KeepPlain
  BY <1>8 DEF KeepPlain
<1>9. CASE CreateEnc
  BY <1>9 DEF CreateEnc
<1>10. CASE WriteEnc
  <2>1. /\ pc = "encrypting" /\ pc' = "unlink" /\ loose' = loose
        /\ enc' = [enc EXCEPT ![seg] = [st |-> "whole", data |-> wav[seg].decl]]
        /\ UNCHANGED <<mode, writer, seg, todo, wav>>
    BY <1>10 DEF WriteEnc, Loosen, SafeStorage
  <2>2. /\ \A i \in Idx : i # seg => enc'[i] = enc[i]
        /\ enc'[seg].st = "whole" /\ enc'[seg].data = wav[seg].decl
    BY <2>1 DEF FilesOK
  <2> QED
    BY <2>1, <2>2
<1>11. CASE RemovePlain
  <2>1. /\ pc = "unlink" /\ pc' = "journal" /\ loose' = loose
        /\ wav' = [wav EXCEPT ![seg].on = FALSE]
        /\ UNCHANGED <<mode, writer, seg, todo, enc>>
    BY <1>11 DEF RemovePlain, Loosen, SafeStorage
  <2>2. /\ \A i \in Idx : i # seg => wav'[i] = wav[i]
        /\ wav'[seg].data = wav[seg].data /\ wav'[seg].decl = wav[seg].decl
    BY <2>1 DEF FilesOK, WavFile
  <2>3. ClosedFiles'
    <3> SUFFICES ASSUME NEW i \in 1 .. closed PROVE
          /\ wav'[i].data = synced[i] /\ wav'[i].decl = synced[i]
          /\ enc[i].st = "whole" => enc[i].data = synced[i]
          /\ wav'[i].on \/ enc[i].st = "whole"
      BY <2>1
    <3>1. CASE i = seg
      BY <2>1, <2>2, <3>1
    <3>2. CASE i # seg
      BY <2>1, <2>2, <3>2
    <3> QED
      BY <3>1, <3>2
  <2>4. RecoveryFiles'
    BY <2>1, <2>2
  <2>5. LiveFiles' /\ FinalizeFiles'
    BY <2>1, <2>2
  <2> QED
    BY <2>3, <2>4, <2>5
<1>12. CASE BeginRecovery
  BY <1>12 DEF BeginRecovery, AlreadyJournaled, Listing, IsLast, Before
<1>13. CASE RepairTail
  <2>1. /\ pc = "repair" /\ pc' \in {"rewrite", "strays"}
        /\ UNCHANGED <<mode, writer, seg, todo, enc, loose>>
    BY <1>13 DEF RepairTail
  <2>2. CASE NeedsRepair(seg)
    <3>1. seg > closed
      BY <2>2 DEF NeedsRepair
    <3>2. wav' = [wav EXCEPT ![seg] = EmptyWav] /\ EmptyWav.on
      BY <1>13, <2>2 DEF RepairTail, EmptyWav
    <3>3. /\ \A i \in 1 .. closed : wav'[i] = wav[i]
          /\ \A i \in Idx : wav[i].on => wav'[i].on
      BY <3>1, <3>2 DEF FilesOK
    <3> QED
      BY <2>1, <3>1, <3>3
  <2>3. CASE ~NeedsRepair(seg)
    <3>1. wav' = wav /\ pc' = "strays"
      BY <1>13, <2>3 DEF RepairTail
    <3> QED
      BY <2>1, <3>1
  <2> QED
    BY <2>2, <2>3
<1>14. CASE RewriteTail
  BY <1>14 DEF RewriteTail, Loosen, ValidWav
<1>15. CASE SkipFile
  BY <1>15 DEF SkipFile, IsFirst
<1>16. CASE TakeStray
  BY <1>16 DEF TakeStray, IsFirst
<1>17. CASE JournalStray
  BY <1>17 DEF JournalStray
<1>18. CASE MarkRecovered
  BY <1>18 DEF MarkRecovered
<1>19. CASE DiscardStop
  BY <1>19 DEF DiscardStop
<1>20. CASE FinalizeFails
  BY <1>20 DEF FinalizeFails, Fault
<1>21. CASE Kill
  <2>1. wav' \in WavLeft /\ GoDown /\ enc' = enc /\ loose' = loose
    BY <1>21 DEF Kill
  <2>2. \A i \in 1 .. closed : wav'[i] = wav[i]
    BY <2>1, OpenOnly
  <2> QED
    BY <2>1, <2>2, DownKeeps
<1>22. CASE WriterFails
  <2>1. GoDown /\ enc' = enc /\ loose' = loose
    BY <1>22 DEF WriterFails
  <2>2. CASE wav' \in WavLeft
    BY <2>1, <2>2, OpenOnly, DownKeeps
  <2>3. CASE \E n \in wav[closed + 1].data .. frames :
               wav' = [wav EXCEPT ![closed + 1] = ValidWav(n)]
    <3>1. \A i \in 1 .. closed : wav'[i] = wav[i]
      BY <2>3 DEF FilesOK
    <3> QED
      BY <2>1, <3>1, DownKeeps
  <2> QED
    BY <1>22, <2>2, <2>3 DEF WriterFails
<1>23. CASE CommandFails
  BY <1>23 DEF CommandFails, Fault, GoDown
<1>24. CASE PowerLoss
  <2>1. PICK lost \in SUBSET loose, left \in WavLeft :
          /\ wav' = [i \in Idx |->
               [(IF <<"fix", i>> \in lost THEN EmptyWav ELSE left[i])
                  EXCEPT !.on = left[i].on \/ <<"rm", i>> \in lost]]
          /\ enc' = [i \in Idx |-> IF <<"enc", i>> \in lost
                                   THEN [st |-> "torn", data |-> 0] ELSE enc[i]]
    BY <1>24 DEF PowerLoss
  <2>2. GoDown /\ loose' = {}
    BY <1>24 DEF PowerLoss
  <2>3. enc' = enc
    BY <2>1 DEF FilesOK
  <2>4. ASSUME NEW i \in 1 .. closed PROVE wav'[i] = wav[i]
    <3>1. left[i] = wav[i] /\ i \in Idx /\ wav[i] \in WavFile
      <4>1. i \in Idx
        OBVIOUS
      <4>2. wav[i] \in WavFile
        BY <4>1 DEF FilesOK
      <4>3. \A k \in 1 .. closed : left[k] = wav[k]
        BY OpenOnly
      <4> QED
        BY <4>1, <4>2, <4>3
    <3>2. <<"fix", i>> \notin loose /\ <<"rm", i>> \notin loose
      <4>1. ~(i > closed) /\ i \in Idx
        BY <3>1
      <4>2. RecoveryFiles
        BY DEF KeepInv
      <4> QED
        BY <4>1, <4>2 DEF RecoveryFiles
    <3>3. <<"fix", i>> \notin lost /\ <<"rm", i>> \notin lost
      <4>1. lost \subseteq loose
        BY <2>1
      <4> QED
        BY <3>2, <4>1
    <3>4. wav'[i] = [wav[i] EXCEPT !.on = wav[i].on \/ FALSE]
      BY <2>1, <3>1, <3>3
    <3>5. wav[i] \in WavFile
      BY <3>1
    <3>6. [wav[i] EXCEPT !.on = wav[i].on \/ FALSE] = wav[i]
      BY <3>5 DEF WavFile
    <3> QED
      BY <3>4, <3>6
  <2> QED
    BY <2>2, <2>3, <2>4, DownKeeps
<1>25. CASE UNCHANGED vars
  BY <1>25 DEF vars
<1> QED
  BY <1>1, <1>2, <1>3, <1>4, <1>5, <1>6, <1>7, <1>8, <1>9, <1>10, <1>11, <1>12, <1>13, <1>14, <1>15, <1>16, <1>17, <1>18, <1>19, <1>20, <1>21, <1>22, <1>23, <1>24, <1>25 DEF Next, Live, Finalize, Recovery, Failure
\* The inductive invariant holds throughout.
LEMMA IInvCorrect == ASSUME SafeStorage PROVE Spec => []IInv
<1>1. Init => IInv
  BY LoopInit, KeepInit DEF IInv
<1>2. IInv /\ [Next]_vars => IInv'
  <2> SUFFICES ASSUME IInv, [Next]_vars PROVE IInv'
    OBVIOUS
  <2>1. LoopOK /\ KeepInv
    BY DEF IInv
  <2>2. LoopOK'
    BY <2>1, ControlStep, FilesStep, JournalStep DEF LoopOK, TypeOK
  <2>3. KeepInv'
    BY <2>1, <2>2, KeepStep
  <2> QED
    BY <2>2, <2>3 DEF IInv
<1> QED
  BY <1>1, <1>2, PTL DEF Spec

\* A segment the live writer closed keeps all its frames whatever is killed,
\* fails or is run again, as long as encrypted copies need not outlive a power
\* loss: finalize_segment (crypto.rs) removes the plain file only once the copy
\* is whole, and repair_last_segment (recovery.rs) rewrites no valid file.
THEOREM ClosedKept ==
  ASSUME SafeStorage
  PROVE  Spec => []ClosedSegmentsKept
<1>1. IInv => ClosedSegmentsKept
  <2> SUFFICES ASSUME IInv, NEW i \in 1 .. closed
               PROVE  Readable(i) = synced[i]
    BY DEF ClosedSegmentsKept
  <2> QED
    BY DEF IInv, KeepInv, ClosedFiles, Readable
<1> QED
  BY <1>1, IInvCorrect, PTL

-----------------------------------------------------------------------------
\* A command is recovering or discarding the session.
Recovering == pc # "down" /\ mode \in {"recover", "discard"}
Logged(i) == journal.logged[i] > 0

\* Segment i is in one of its forms, whole or a plain file with a header.
Content(i) == enc[i].st = "whole" \/ (wav[i].on /\ wav[i].hdr)

\* Nothing about segment i is still to be written by the live writer.
Settled(i) == i <= closed \/ enc[i].st # "none" \/ Logged(i)

\* Headers lie only in a file the live writer has not closed, and the tail is the
\* one file that recovery meets in that state.
HeaderInv ==
  \A i \in Idx :
    /\ ~wav[i].hdr => wav[i].data = 0 /\ wav[i].decl = 0
    /\ Settled(i) => wav[i].hdr /\ wav[i].decl = wav[i].data
    /\ enc[i].st = "whole" => enc[i].data = wav[i].data
    /\ wav[i].on /\ wav[i].decl # wav[i].data =>
         pc = "down" \/ (pc = "repair" /\ seg = i)

\* The open segment is the last one on disk.
OpenInv ==
  \A i \in Idx :
    /\ i > closed + 1 => ~wav[i].on /\ enc[i].st = "none"
    /\ Active /\ i > closed => enc[i].st = "none" /\ (frames = 0 => ~wav[i].on)

\* What is recorded is on disk as recorded, and is not finalized again.
LoggedInv ==
  \A i \in Idx : Logged(i) =>
    /\ Content(i)
    /\ journal.frames[i] = wav[i].data
    /\ journal.form[i] = "enc" => enc[i].st = "whole"
    /\ Active => i <= journaled
    /\ Recovering /\ <<i, "wav">> \in todo => i \in known
    /\ pc \in {"encrypt", "encrypting", "unlink"} => i # seg

\* The file at hand: being finalized, being recorded, or being repaired.
TakenInv ==
  /\ Finalizing => /\ wav[seg].hdr /\ wav[seg].decl = wav[seg].data
                   /\ Recovering => <<seg, "wav">> \notin todo
  /\ pc = "journal" => IF stored = "enc" THEN enc[seg].st = "whole"
                                         ELSE wav[seg].on
  /\ pc \in {"repair", "rewrite"} => wav[seg].on
  /\ pc = "rewrite" => wav[seg].data = 0 /\ enc[seg].st = "none" /\ ~Logged(seg)

ReadInv == HeaderInv /\ OpenInv /\ LoggedInv /\ TakenInv

\* Recovery has recorded segment i, is about to, or will come to a file of it.
Accounted(i) ==
  \/ Logged(i)
  \/ Finalizing /\ i = seg
  \/ \E f \in todo : f[1] = i /\ Countable(f)

\* The live writer records every segment it closes.
LiveComplete ==
  /\ Active => /\ \A i \in Idx : i <= journaled => Logged(i)
               /\ ~journal.recovered
  /\ pc = "stop" => journaled = closed /\ frames = 0
  /\ Active /\ mode = "final" => frames = 0

\* Recovery visits every file there is and accounts for every segment.
FoundAll ==
  /\ pc \in {"repair", "rewrite"} =>
       \A i \in Idx : /\ wav[i].on => <<i, "wav">> \in todo
                      /\ enc[i].st # "none" => <<i, "enc">> \in todo
  /\ Recovering /\ (pc = "strays" \/ Finalizing) =>
       \A i \in Idx : Content(i) => Accounted(i)
  /\ Recovering /\ Finalizing => \A f \in todo : f[1] >= seg

\* What the marks of the journal say of its records.
Marked ==
  /\ ~journal.torn
  /\ \A i \in known : Logged(i)
  /\ journal.recovered \/ journal.stopped => \A i \in Idx : Content(i) => Logged(i)
  /\ journal.stopped => pc = "down"
  /\ journal.recovered /\ pc # "down" =>
       /\ pc \in {"repair", "strays", "discard"}
       /\ pc # "discard" => \A i \in Idx : Logged(i) => i \in known
  /\ pc = "discard" => journal.recovered

\* The records have no gap: the archive grows from the front.
InOrder == \A i, j \in Idx : Logged(i) /\ j < i => Logged(j)

CompleteInv == LiveComplete /\ FoundAll /\ Marked /\ InOrder

\* What is still to be recorded has no record: the plain-file case.
OnceInv ==
  /\ \A i \in Idx : enc[i].st = "none"
  /\ Active => \A i \in Idx : i > journaled => journal.logged[i] = 0
  /\ Recovering => \A i \in Idx :
        /\ <<i, "enc">> \notin todo
        /\ <<i, "wav">> \in todo /\ i \notin known => journal.logged[i] = 0
  /\ Recovering /\ Finalizing => journal.logged[seg] = 0 /\ <<seg, "wav">> \notin todo
  /\ JournaledOnce

-----------------------------------------------------------------------------
\* The records of the journal stay as they are; its marks may change.
SameRecords ==
  /\ journal'.logged = journal.logged
  /\ journal'.frames = journal.frames
  /\ journal'.form = journal.form

LEMMA OtherRecords ==
  ASSUME LoopOK,
         \/ UNCHANGED journal
         \/ TornAppend
         \/ Append([journal EXCEPT !.stopped = TRUE])
         \/ Append([journal EXCEPT !.recovered = TRUE])
  PROVE  SameRecords
<1>1. journal \in JournalType
  BY DEF LoopOK, TypeOK
<1>2. \A f \in {"torn", "stopped", "recovered"}, v \in BOOLEAN :
        \A j : j = [journal EXCEPT ![f] = v] =>
          j.logged = journal.logged /\ j.frames = journal.frames /\ j.form = journal.form
  BY <1>1 DEF JournalType
<1>3. \A v \in BOOLEAN :
        /\ [journal EXCEPT !.torn = v] = [journal EXCEPT !["torn"] = v]
        /\ [journal EXCEPT !.stopped = v] = [journal EXCEPT !["stopped"] = v]
        /\ [journal EXCEPT !.recovered = v] = [journal EXCEPT !["recovered"] = v]
  OBVIOUS
<1> QED
  BY <1>1 DEF JournalType, TornAppend, Append, SameRecords

\* A record of the segment that was finalized: it is kept, or lost behind a torn
\* line.  Its frame count is that of the plain file.
LEMMA NewRecord ==
  ASSUME LoopOK, Append(Completed(seg, StoredFrames, stored))
  PROVE  \/ SameRecords /\ journal.torn
         \/ /\ \A i \in Idx : i # seg =>
                 /\ journal'.logged[i] = journal.logged[i]
                 /\ journal'.frames[i] = journal.frames[i]
                 /\ journal'.form[i] = journal.form[i]
            /\ journal'.logged[seg] = journal.logged[seg] + 1
            /\ journal'.frames[seg] = StoredFrames
            /\ journal'.form[seg] = stored
            /\ journal'.recovered = journal.recovered
            /\ journal'.stopped = journal.stopped
            /\ journal'.torn = journal.torn
<1>1. journal \in JournalType /\ seg \in Idx
  BY DEF LoopOK, TypeOK, ControlOK
<1>2. CASE journal.torn
  BY <1>1, <1>2 DEF JournalType, Append, SameRecords
<1>3. CASE ~journal.torn
  <2>1. journal' = [journal EXCEPT !.logged[seg] = @ + 1, !.frames[seg] = StoredFrames,
                                   !.form[seg] = stored]
    BY <1>3 DEF Append, Completed
  <2>2. /\ journal'.logged = [journal.logged EXCEPT ![seg] = @ + 1]
        /\ journal'.frames = [journal.frames EXCEPT ![seg] = StoredFrames]
        /\ journal'.form = [journal.form EXCEPT ![seg] = stored]
        /\ journal'.recovered = journal.recovered
        /\ journal'.stopped = journal.stopped
        /\ journal'.torn = journal.torn
    BY <1>1, <2>1 DEF JournalType
  <2> QED
    BY <1>1, <2>2 DEF JournalType
<1> QED
  BY <1>2, <1>3

\* What becomes of the counters and the files when the loop ends.
LEMMA EndingEffect ==
  ASSUME LoopOK, NEW done, EndLoop(done)
  PROVE  /\ frames' = 0 /\ mode' = "final"
         /\ IF done < closed' THEN pc' = "encrypt" /\ seg' = done + 1
                              ELSE pc' = "stop" /\ seg' = seg
         /\ \/ frames = 0 /\ UNCHANGED <<wav, synced, closed>>
            \/ /\ frames > 0 /\ CloseOpen(frames) /\ closed < MaxSegments
<1> USE DEF LoopOK, LoopInv, TypeOK, ControlOK
<1>1. frames \in 0 .. FrameLimit - 1
  OBVIOUS
<1> QED
  BY <1>1 DEF EndLoop, TailLeft, CloseOpen

LEMMA ClosingEffect ==
  ASSUME LoopOK, NEW n, CloseOpen(n), closed < MaxSegments
  PROVE  /\ closed + 1 \in Idx /\ closed' = closed + 1 /\ frames' = 0
         /\ wav'[closed + 1] = ValidWav(n) /\ synced'[closed + 1] = n
         /\ \A i \in Idx : i # closed + 1 => wav'[i] = wav[i] /\ synced'[i] = synced[i]
<1> USE RecorderAssumption DEF LoopOK, TypeOK, ControlOK, FilesOK, Idx
<1>1. closed + 1 \in Idx
  OBVIOUS
<1> QED
  BY <1>1 DEF CloseOpen

\* What a crash may leave of the open segment.
LEMMA LeftEffect ==
  ASSUME LoopOK, NEW left \in WavLeft, NEW i \in Idx
  PROVE  \/ left[i] = wav[i]
         \/ /\ i = closed + 1 /\ frames > 0
            /\ left[i].on /\ left[i].data >= wav[i].data /\ left[i].decl = wav[i].decl
            /\ wav[i].hdr \/ left[i].data > 0 => left[i].hdr
            /\ left[i].data \in Frames
<1> USE RecorderAssumption DEF LoopOK, TypeOK, ControlOK, FilesOK, Idx
<1>1. CASE frames = 0
  BY <1>1 DEF WavLeft
<1>2. CASE frames # 0
  <2>1. closed + 1 \in Idx /\ frames > 0
    BY <1>2 DEF LoopInv
  <2>2. PICK w \in OpenLeft : left = [wav EXCEPT ![closed + 1] = w]
    BY <1>2 DEF WavLeft
  <2>3. /\ w.on /\ w.data \in wav[closed + 1].data .. frames
        /\ w.decl = wav[closed + 1].decl
        /\ wav[closed + 1].hdr \/ w.data > 0 => w.hdr
    BY DEF OpenLeft
  <2>4. wav[closed + 1].data \in Frames
    BY <2>1 DEF WavFile
  <2>5. w.data >= wav[closed + 1].data /\ w.data \in Frames
    BY <2>3, <2>4 DEF Frames
  <2> QED
    BY <2>1, <2>2, <2>3, <2>5
<1> QED
  BY <1>1, <1>2


LEMMA ReadInit == Init => ReadInv
  BY RecorderAssumption DEF Init, ReadInv, HeaderInv, OpenInv, LoggedInv, TakenInv,
     Active, Recovering, Finalizing, Logged, Settled, NoWav, NoEnc, Idx

\* Closing a segment leaves it with a header that says what is in it.
LEMMA ClosingReads ==
  ASSUME LoopOK, HeaderInv, OpenInv, Active, NEW n, CloseOpen(n), closed < MaxSegments,
         enc' = enc,
         \A i \in Idx : journal'.logged[i] > 0 => Logged(i) \/ i <= closed
  PROVE  HeaderInv' /\ OpenInv'
<1> USE RecorderAssumption DEF LoopOK, TypeOK, ControlOK
<1>1. /\ closed + 1 \in Idx /\ closed' = closed + 1 /\ frames' = 0
      /\ wav'[closed + 1] = ValidWav(n)
      /\ \A i \in Idx : i # closed + 1 => wav'[i] = wav[i]
  BY ClosingEffect
<1>2. \A i \in Idx : Settled(i)' => Settled(i) \/ i = closed + 1
  BY <1>1 DEF Settled, Logged, Idx
<1>3. HeaderInv'
  <2> SUFFICES ASSUME NEW i \in Idx
               PROVE  /\ ~wav'[i].hdr => wav'[i].data = 0 /\ wav'[i].decl = 0
                      /\ Settled(i)' => wav'[i].hdr /\ wav'[i].decl = wav'[i].data
                      /\ enc'[i].st = "whole" => enc'[i].data = wav'[i].data
                      /\ wav'[i].on /\ wav'[i].decl # wav'[i].data =>
                           pc' = "down" \/ (pc' = "repair" /\ seg' = i)
    BY DEF HeaderInv
  <2>1. CASE i = closed + 1
    <3>1. enc'[i].st = "none"
      BY <1>1, <2>1 DEF OpenInv, Idx
    <3> QED
      BY <1>1, <2>1, <3>1 DEF ValidWav
  <2>2. CASE i # closed + 1
    <3>1. wav'[i] = wav[i] /\ enc'[i] = enc[i]
      BY <1>1, <2>2
    <3>2. ~(pc = "down" \/ pc = "repair")
      BY DEF LoopInv, Active
    <3> QED
      BY <1>2, <2>2, <3>1, <3>2 DEF HeaderInv
  <2> QED
    BY <2>1, <2>2
<1>4. OpenInv'
  <2> SUFFICES ASSUME NEW i \in Idx, i > closed'
               PROVE  enc'[i].st = "none" /\ ~wav'[i].on
    BY <1>1 DEF OpenInv, Idx
  <2>1. i > closed + 1
    BY <1>1 DEF Idx
  <2> QED
    BY <1>1, <2>1 DEF OpenInv, Idx
<1> QED
  BY <1>3, <1>4

\* The same at the end of the loop.
LEMMA EndingReads ==
  ASSUME LoopOK, HeaderInv, OpenInv, Active, NEW done, EndLoop(done), enc' = enc,
         \A i \in Idx : journal'.logged[i] > 0 => Logged(i) \/ i <= closed
  PROVE  HeaderInv' /\ OpenInv'
<1>1. CASE frames > 0
  <2>1. CloseOpen(frames) /\ closed < MaxSegments
    BY <1>1, EndingEffect
  <2> QED
    BY <2>1, ClosingReads
<1>2. CASE ~(frames > 0)
  <2>1. frames = 0 /\ frames' = 0 /\ UNCHANGED <<wav, closed>>
    BY <1>2, EndingEffect
  <2>2. \A i \in Idx : Settled(i)' => Settled(i)
    BY <2>1 DEF Settled, Logged
  <2>3. HeaderInv'
    <3>1. ~(pc = "down" \/ pc = "repair")
      BY DEF LoopOK, LoopInv, Active
    <3> QED
      BY <2>1, <2>2, <3>1 DEF HeaderInv
  <2>4. OpenInv'
    BY <2>1 DEF OpenInv
  <2> QED
    BY <2>3, <2>4
<1> QED
  BY <1>1, <1>2

\* After a failure the open segment may hold anything between its last flush
\* and what was written, and nothing else has changed.
LEMMA DownReads ==
  ASSUME LoopOK, ReadInv, GoDown, enc' = enc, SameRecords,
         \A i \in Idx : \/ wav'[i] = wav[i]
                        \/ /\ Active /\ i = closed + 1 /\ wav'[i].on
                           /\ ~wav'[i].hdr => wav'[i].data = 0 /\ wav'[i].decl = 0
  PROVE  ReadInv'
<1> USE RecorderAssumption DEF LoopOK, TypeOK, ControlOK, ReadInv
<1>1. closed' = closed /\ pc' = "down" /\ todo' = {}
  BY DEF GoDown
<1>2. ~Active' /\ ~Recovering' /\ ~Finalizing'
  BY <1>1 DEF Active, Recovering, Finalizing
<1>3. \A i \in Idx : (Logged(i)' <=> Logged(i)) /\ (Settled(i)' <=> Settled(i))
  BY <1>1 DEF Logged, Settled, SameRecords
<1>4. ASSUME NEW i \in Idx, Active, i = closed + 1 PROVE ~Settled(i) /\ enc[i].st = "none"
  <2>1. enc[i].st = "none"
    BY <1>4 DEF OpenInv, Idx
  <2>2. ~Logged(i)
    <3>1. journaled <= closed /\ journaled \in Nat /\ closed \in Nat
      BY <1>4 DEF LoopInv
    <3>2. Logged(i) => i <= journaled
      BY <1>4 DEF LoggedInv
    <3>3. i > closed /\ i \in Nat
      BY <1>4, <3>1
    <3> QED
      BY <3>1, <3>2, <3>3
  <2> QED
    BY <1>4, <2>1, <2>2 DEF Settled, Idx
<1>5. HeaderInv'
  <2> SUFFICES ASSUME NEW i \in Idx
               PROVE  /\ ~wav'[i].hdr => wav'[i].data = 0 /\ wav'[i].decl = 0
                      /\ Settled(i)' => wav'[i].hdr /\ wav'[i].decl = wav'[i].data
                      /\ enc'[i].st = "whole" => enc'[i].data = wav'[i].data
    BY <1>1 DEF HeaderInv
  <2>1. CASE wav'[i] = wav[i]
    BY <1>3, <2>1 DEF HeaderInv
  <2>2. CASE wav'[i] # wav[i]
    <3>1. Active /\ i = closed + 1 /\ (~wav'[i].hdr => wav'[i].data = 0 /\ wav'[i].decl = 0)
      BY <2>2
    <3>2. ~Settled(i)' /\ enc'[i].st = "none"
      BY <1>3, <1>4, <3>1
    <3> QED
      BY <3>1, <3>2
  <2> QED
    BY <2>1, <2>2
<1>6. OpenInv'
  BY <1>1, <1>2 DEF OpenInv, Idx
<1>7. LoggedInv'
  <2> SUFFICES ASSUME NEW i \in Idx, Logged(i)
               PROVE  /\ Content(i)'
                      /\ journal'.frames[i] = wav'[i].data
                      /\ journal'.form[i] = "enc" => enc'[i].st = "whole"
    BY <1>1, <1>2, <1>3 DEF LoggedInv
  <2>1. wav'[i] = wav[i]
    BY <1>4 DEF Settled
  <2> QED
    BY <2>1 DEF LoggedInv, Content, SameRecords
<1>8. TakenInv'
  BY <1>1, <1>2 DEF TakenInv
<1> QED
  BY <1>5, <1>6, <1>7, <1>8

\* What a crash leaves has the form DownReads asks for.
LEMMA LeftDown ==
  ASSUME LoopOK, HeaderInv, NEW left \in WavLeft, NEW i \in Idx
  PROVE  \/ left[i] = wav[i]
         \/ /\ Active /\ i = closed + 1 /\ left[i].on
            /\ ~left[i].hdr => left[i].data = 0 /\ left[i].decl = 0
<1>1. CASE left[i] # wav[i]
  <2>1. /\ i = closed + 1 /\ frames > 0
        /\ left[i].on /\ left[i].decl = wav[i].decl
        /\ wav[i].hdr \/ left[i].data > 0 => left[i].hdr
        /\ left[i].data \in Frames
    BY <1>1, LeftEffect
  <2>2. Active
    BY <2>1 DEF LoopOK, LoopInv
  <2>3. ~left[i].hdr => left[i].data = 0
    BY <2>1, RecorderAssumption DEF Frames
  <2>4. ~left[i].hdr => left[i].decl = 0
    BY <2>1 DEF HeaderInv
  <2> QED
    BY <2>1, <2>2, <2>3, <2>4
<1> QED
  BY <1>1

\* Steps that write neither a file nor a record.
LEMMA QuietReads ==
  ASSUME LoopOK, ReadInv, UNCHANGED <<wav, enc, closed, frames, journaled>>, SameRecords,
         pc \notin {"down", "repair"},
         Active' => Active,
         Recovering' => Recovering /\ todo' \subseteq todo /\ known' = known,
         pc' \in {"encrypt", "encrypting", "unlink"} => ~Logged(seg'),
         TakenInv'
  PROVE  ReadInv'
<1> USE DEF ReadInv
<1>1. \A i \in Idx : (Logged(i)' <=> Logged(i)) /\ (Settled(i)' <=> Settled(i))
  BY DEF Logged, Settled, SameRecords
<1>2. HeaderInv'
  BY <1>1 DEF HeaderInv
<1>3. OpenInv'
  BY DEF OpenInv
<1>4. LoggedInv'
  <2> SUFFICES ASSUME NEW i \in Idx, Logged(i)
               PROVE  /\ Content(i)'
                      /\ journal'.frames[i] = wav'[i].data
                      /\ journal'.form[i] = "enc" => enc'[i].st = "whole"
                      /\ Active' => i <= journaled'
                      /\ Recovering' /\ <<i, "wav">> \in todo' => i \in known'
                      /\ pc' \in {"encrypt", "encrypting", "unlink"} => i # seg'
    BY <1>1 DEF LoggedInv
  <2>1. Content(i)' /\ journal'.frames[i] = wav'[i].data
        /\ (journal'.form[i] = "enc" => enc'[i].st = "whole")
    BY DEF LoggedInv, Content, SameRecords
  <2> QED
    BY <2>1 DEF LoggedInv
<1> QED
  BY <1>2, <1>3, <1>4

\* What the journal names after the segment being finalized was recorded, or the
\* record was lost.
LEMMA RecordReads ==
  ASSUME LoopOK, ReadInv, pc = "journal",
         \/ Append(Completed(seg, StoredFrames, stored))
         \/ TornAppend,
         NEW i \in Idx, journal'.logged[i] > 0
  PROVE  /\ Logged(i) \/ i = seg
         /\ Content(i)
         /\ journal'.frames[i] = wav[i].data
         /\ journal'.form[i] = "enc" => enc[i].st = "whole"
<1> USE DEF ReadInv, LoopOK, TypeOK, ControlOK
<1>1. CASE SameRecords
  BY <1>1 DEF SameRecords, LoggedInv, Logged
<1>2. CASE ~SameRecords
  <2>1. Append(Completed(seg, StoredFrames, stored))
    BY <1>2, OtherRecords
  <2>2. /\ \A k \in Idx : k # seg =>
             /\ journal'.logged[k] = journal.logged[k]
             /\ journal'.frames[k] = journal.frames[k]
             /\ journal'.form[k] = journal.form[k]
        /\ journal'.frames[seg] = StoredFrames
        /\ journal'.form[seg] = stored
    BY <1>2, <2>1, NewRecord
  <2>3. CASE i # seg
    BY <2>2, <2>3 DEF LoggedInv, Logged
  <2>4. CASE i = seg
    <3>1. wav[seg].hdr /\ wav[seg].decl = wav[seg].data
      BY DEF TakenInv, Finalizing
    <3>2. CASE stored = "enc"
      BY <2>2, <2>4, <3>2 DEF TakenInv, HeaderInv, StoredFrames, Content
    <3>3. CASE stored # "enc"
      BY <2>2, <2>4, <3>1, <3>3 DEF TakenInv, StoredFrames, Content
    <3> QED
      BY <3>2, <3>3
  <2> QED
    BY <2>3, <2>4
<1> QED
  BY <1>1, <1>2

\* Nothing the journal names is touched while the writer runs.
LEMMA LiveLogged ==
  ASSUME LoopOK, LoopOK', ReadInv, Active, Active', enc' = enc,
         \A i \in Idx : i <= closed => wav'[i] = wav[i],
         journaled <= journaled', journaled' <= closed',
         \A i \in Idx : journal'.logged[i] > 0 =>
           /\ i <= journaled' /\ i <= closed
           /\ Content(i)
           /\ journal'.frames[i] = wav[i].data
           /\ journal'.form[i] = "enc" => enc[i].st = "whole"
  PROVE  LoggedInv'
<1> SUFFICES ASSUME NEW i \in Idx, journal'.logged[i] > 0
             PROVE  /\ Content(i)'
                    /\ journal'.frames[i] = wav'[i].data
                    /\ journal'.form[i] = "enc" => enc'[i].st = "whole"
                    /\ Active' => i <= journaled'
                    /\ Recovering' /\ <<i, "wav">> \in todo' => i \in known'
                    /\ pc' \in {"encrypt", "encrypting", "unlink"} => i # seg'
  BY DEF LoggedInv, Logged
<1>1. i <= journaled' /\ i <= closed /\ wav'[i] = wav[i]
  OBVIOUS
<1>2. ~Recovering'
  BY DEF Active, Recovering
<1>3. pc' \in {"encrypt", "encrypting", "unlink"} => seg' = journaled' + 1
  BY DEF LoopOK, LoopInv, Finalizing
<1>4. i \in Nat /\ journaled' \in Nat
  BY DEF LoopOK, TypeOK, ControlOK, Idx
<1> QED
  BY <1>1, <1>2, <1>3, <1>4 DEF Content

\* A segment the writer finalizes is closed.
LEMMA LiveTaken ==
  ASSUME LoopOK', HeaderInv', Active', pc' # "journal"
  PROVE  TakenInv'
<1>1. pc' \notin {"repair", "rewrite"} /\ ~Recovering'
  BY DEF LoopOK, LoopInv, Active, Recovering
<1>2. Finalizing' => seg' \in Idx /\ seg' <= closed'
  BY DEF LoopOK, LoopInv, TypeOK, ControlOK
<1>3. Finalizing' => wav'[seg'].hdr /\ wav'[seg'].decl = wav'[seg'].data
  BY <1>2 DEF HeaderInv, Settled
<1> QED
  BY <1>1, <1>3 DEF TakenInv

\* The writer extends or flushes the open segment.
LEMMA OpenReads ==
  ASSUME LoopOK, LoopOK', ReadInv, pc = "run", pc' = "run", frames' > 0,
         UNCHANGED <<mode, closed, journaled, seg, todo, known, enc, journal>>,
         closed + 1 \in Idx, NEW w, w = EmptyWav \/ \E n : w = ValidWav(n),
         wav' = wav \/ wav' = [wav EXCEPT ![closed + 1] = w]
  PROVE  ReadInv'
<1> USE DEF ReadInv, LoopOK, TypeOK, ControlOK
<1>1. Active /\ Active' /\ journaled <= closed
  BY DEF LoopInv, Active
<1>2. /\ wav' = wav \/ wav'[closed + 1] = w
      /\ \A i \in Idx : i # closed + 1 => wav'[i] = wav[i]
  BY DEF FilesOK
<1>3. closed \in Nat /\ journaled \in Nat /\ frames' # 0
  BY RecorderAssumption
<1>a. \A i \in Idx : Logged(i) => i <= journaled
  BY <1>1 DEF LoggedInv
<1>4. \A i \in Idx : Settled(i)' <=> Settled(i)
  BY DEF Settled, Logged
<1>5. ~Settled(closed + 1)
  <2>1. ~Logged(closed + 1)
    BY <1>1, <1>3, <1>a
  <2> QED
    BY <1>1, <1>3, <2>1 DEF Settled, OpenInv, Idx
<1>6. w.decl = w.data /\ (~w.hdr => w.data = 0)
  BY DEF EmptyWav, ValidWav
<1>7. HeaderInv'
  <2> SUFFICES ASSUME NEW i \in Idx
               PROVE  /\ ~wav'[i].hdr => wav'[i].data = 0 /\ wav'[i].decl = 0
                      /\ Settled(i) => wav'[i].hdr /\ wav'[i].decl = wav'[i].data
                      /\ enc'[i].st = "whole" => enc'[i].data = wav'[i].data
                      /\ wav'[i].on => wav'[i].decl = wav'[i].data
    BY <1>4 DEF HeaderInv
  <2>1. wav[i].on => wav[i].decl = wav[i].data
    BY DEF HeaderInv
  <2>2. CASE wav'[i] = wav[i]
    BY <2>1, <2>2 DEF HeaderInv
  <2>3. CASE wav'[i] # wav[i]
    <3>1. i = closed + 1 /\ wav'[i] = w
      BY <1>2, <2>3
    <3>2. enc[i].st = "none"
      BY <1>1, <1>3, <3>1 DEF OpenInv, Idx
    <3> QED
      BY <1>5, <1>6, <3>1, <3>2
  <2> QED
    BY <2>2, <2>3
<1>8. OpenInv'
  <2> SUFFICES ASSUME NEW i \in Idx
               PROVE  /\ i > closed' + 1 => ~wav'[i].on /\ enc'[i].st = "none"
                      /\ i > closed' => enc'[i].st = "none"
    BY <1>3 DEF OpenInv
  <2>1. i > closed + 1 => wav'[i] = wav[i]
    BY <1>2, <1>3
  <2> QED
    BY <1>1, <2>1 DEF OpenInv
<1>9. LoggedInv'
  <2>1. \A i \in Idx : i <= closed => wav'[i] = wav[i]
    BY <1>2, <1>3
  <2>2. \A i \in Idx : journal'.logged[i] > 0 =>
           /\ i <= journaled' /\ i <= closed
           /\ Content(i)
           /\ journal'.frames[i] = wav[i].data
           /\ journal'.form[i] = "enc" => enc[i].st = "whole"
    <3> SUFFICES ASSUME NEW i \in Idx, Logged(i)
                 PROVE  /\ i <= journaled' /\ i <= closed
                        /\ Content(i)
                        /\ journal'.frames[i] = wav[i].data
                        /\ journal'.form[i] = "enc" => enc[i].st = "whole"
      BY DEF Logged
    <3>1. i <= journaled /\ i \in Nat
      BY <1>a DEF Idx
    <3>2. journaled' = journaled /\ journal' = journal
      OBVIOUS
    <3>3. Content(i) /\ journal.frames[i] = wav[i].data
          /\ (journal.form[i] = "enc" => enc[i].st = "whole")
      BY DEF LoggedInv
    <3>4. i <= closed
      BY <1>1, <1>3, <3>1
    <3> QED
      BY <3>1, <3>2, <3>3, <3>4
  <2> QED
    BY <1>1, <1>3, <2>1, <2>2, LiveLogged
<1>10. TakenInv'
  BY <1>1, <1>7, LiveTaken
<1> QED
  BY <1>7, <1>8, <1>9, <1>10

LEMMA LiveReads ==
  ASSUME LoopOK, LoopOK', ReadInv,
         WriteFrame \/ Flush \/ StopLoop \/ JournalSegment \/ JournalThenDiskCritical
  PROVE  ReadInv'
<1> USE DEF ReadInv, LoopOK, TypeOK, ControlOK
<1>0. /\ Active /\ journaled <= closed /\ closed \in Nat /\ journaled \in Nat
      /\ frames \in Nat /\ MaxSegments \in Nat
  BY RecorderAssumption DEF LoopInv, Active, WriteFrame, Flush, StopLoop,
     JournalSegment, JournalThenDiskCritical
<1>a. \A i \in Idx : Logged(i) => i <= journaled /\ i \in Nat
  <2>1. \A i \in Idx : Logged(i) => i <= journaled
    BY <1>0 DEF LoggedInv
  <2> QED
    BY <2>1 DEF Idx
\* The records stay as they are and the writer goes on, or ends its loop.
<1>b. ASSUME UNCHANGED <<journal, enc, journaled>>, Active', pc' # "journal", closed <= closed',
             HeaderInv', OpenInv', \A i \in Idx : i <= closed => wav'[i] = wav[i]
      PROVE  ReadInv'
  <2>1. \A i \in Idx : journal'.logged[i] > 0 =>
           /\ i <= journaled' /\ i <= closed
           /\ Content(i)
           /\ journal'.frames[i] = wav[i].data
           /\ journal'.form[i] = "enc" => enc[i].st = "whole"
    <3> SUFFICES ASSUME NEW i \in Idx, Logged(i)
                 PROVE  /\ i <= journaled /\ i <= closed
                        /\ Content(i)
                        /\ journal.frames[i] = wav[i].data
                        /\ journal.form[i] = "enc" => enc[i].st = "whole"
      BY <1>b DEF Logged
    <3>1. i <= journaled /\ i <= closed
      BY <1>0, <1>a
    <3>2. /\ Content(i) /\ journal.frames[i] = wav[i].data
          /\ journal.form[i] = "enc" => enc[i].st = "whole"
      BY DEF LoggedInv
    <3> QED
      BY <3>1, <3>2
  <2>2. closed' \in Nat /\ journaled <= journaled' /\ journaled' <= closed'
    BY <1>0, <1>b
  <2>3. LoggedInv'
    BY <1>0, <1>b, <2>1, <2>2, LiveLogged
  <2>4. TakenInv'
    BY <1>b, LiveTaken
  <2> QED
    BY <1>b, <2>3, <2>4
<1>c. \A i \in Idx : UNCHANGED journal => (journal'.logged[i] > 0 => Logged(i) \/ i <= closed)
  BY DEF Logged
<1>1. CASE WriteFrame
  <2>1. /\ pc = "run" /\ closed < MaxSegments
        /\ UNCHANGED <<pc, mode, journaled, seg, todo, known, enc, journal>>
    BY <1>1 DEF WriteFrame
  <2>2. CASE SegmentFull
    <3>1. CloseOpen(frames + 1)
      BY <1>1, <2>2 DEF WriteFrame
    <3>2. HeaderInv' /\ OpenInv'
      BY <1>0, <1>c, <2>1, <3>1, ClosingReads
    <3>3. /\ closed' = closed + 1
          /\ \A i \in Idx : i # closed + 1 => wav'[i] = wav[i]
      BY <2>1, <3>1, ClosingEffect
    <3>4. \A i \in Idx : i <= closed => wav'[i] = wav[i]
      BY <1>0, <3>3 DEF Idx
    <3>5. Active'
      BY <1>0, <2>1 DEF Active
    <3> QED
      BY <1>0, <1>b, <2>1, <3>2, <3>3, <3>4, <3>5
  <2>3. CASE ~SegmentFull
    <3>1. /\ closed' = closed /\ frames' = frames + 1
          /\ wav' = wav \/ wav' = [wav EXCEPT ![closed + 1] = EmptyWav]
      BY <1>1, <2>3 DEF WriteFrame
    <3>2. closed + 1 \in Idx /\ frames' > 0
      BY <1>0, <2>1, <3>1 DEF Idx
    <3> QED
      BY <2>1, <3>1, <3>2, OpenReads
  <2> QED
    BY <2>2, <2>3
<1>2. CASE Flush
  <2>1. /\ pc = "run" /\ frames > 0
        /\ wav' = [wav EXCEPT ![closed + 1] = ValidWav(frames)]
        /\ UNCHANGED <<pc, mode, frames, closed, journaled, seg, todo, known, enc, journal>>
    BY <1>2 DEF Flush
  <2>2. closed + 1 \in Idx
    BY <1>0, <2>1 DEF LoopInv, Idx
  <2> QED
    BY <2>1, <2>2, OpenReads
<1>d. ASSUME NEW done, EndLoop(done)
      PROVE  /\ mode' = "final" /\ pc' \in {"encrypt", "stop"} /\ closed <= closed'
             /\ \A i \in Idx : i <= closed => wav'[i] = wav[i]
  <2>1. /\ mode' = "final" /\ pc' \in {"encrypt", "stop"}
        /\ \/ UNCHANGED <<wav, closed>>
           \/ CloseOpen(frames) /\ closed < MaxSegments
    BY <1>d, EndingEffect
  <2>2. CASE UNCHANGED <<wav, closed>>
    BY <1>0, <2>1, <2>2
  <2>3. CASE CloseOpen(frames) /\ closed < MaxSegments
    <3>1. closed' = closed + 1 /\ \A i \in Idx : i # closed + 1 => wav'[i] = wav[i]
      BY <2>3, ClosingEffect
    <3> QED
      BY <1>0, <2>1, <3>1 DEF Idx
  <2> QED
    BY <2>1, <2>2, <2>3
<1>3. CASE StopLoop
  <2>1. EndLoop(journaled) /\ UNCHANGED <<journaled, enc, journal>>
    BY <1>3 DEF StopLoop
  <2>2. HeaderInv' /\ OpenInv'
    BY <1>0, <1>c, <2>1, EndingReads
  <2>3. /\ mode' = "final" /\ pc' \in {"encrypt", "stop"} /\ closed <= closed'
        /\ \A i \in Idx : i <= closed => wav'[i] = wav[i]
    BY <1>d, <2>1
  <2>4. Active'
    BY <2>3 DEF Active
  <2> QED
    BY <1>b, <2>1, <2>2, <2>3, <2>4
\* The segment finalized gets its record, or the record fails.
<1>4. CASE JournalSegment \/ JournalThenDiskCritical
  <2>1. /\ pc = "journal" /\ enc' = enc /\ journaled' = journaled + 1
        /\ Append(Completed(seg, StoredFrames, stored)) \/ TornAppend
    BY <1>4 DEF JournalSegment, JournalThenDiskCritical, LiveJournal, disk
  <2>2. seg = journaled + 1 /\ seg <= closed /\ seg \in Idx
    BY <1>0, <2>1 DEF LoopInv, Finalizing
  <2>3. \A i \in Idx : journal'.logged[i] > 0 =>
           /\ i <= journaled' /\ i <= closed
           /\ Content(i)
           /\ journal'.frames[i] = wav[i].data
           /\ journal'.form[i] = "enc" => enc[i].st = "whole"
    <3> SUFFICES ASSUME NEW i \in Idx, journal'.logged[i] > 0
                 PROVE  /\ i <= journaled' /\ i <= closed
                        /\ Content(i)
                        /\ journal'.frames[i] = wav[i].data
                        /\ journal'.form[i] = "enc" => enc[i].st = "whole"
      OBVIOUS
    <3>1. /\ Logged(i) \/ i = seg
          /\ Content(i)
          /\ journal'.frames[i] = wav[i].data
          /\ journal'.form[i] = "enc" => enc[i].st = "whole"
      BY <2>1, RecordReads
    <3>2. i <= journaled' /\ i <= closed
      BY <1>0, <1>a, <2>1, <2>2, <3>1
    <3> QED
      BY <3>1, <3>2
  <2>4. \A i \in Idx : journal'.logged[i] > 0 => Logged(i) \/ i <= closed
    BY <2>3
  <2>5. /\ Active' /\ pc' \in {"encrypt", "run", "stop"} /\ closed <= closed' /\ HeaderInv' /\ OpenInv'
        /\ \A i \in Idx : i <= closed => wav'[i] = wav[i]
    <3>1. CASE JournalSegment
      <4>1. /\ UNCHANGED <<mode, frames, closed, wav>>
            /\ pc' \in {"encrypt", "run", "stop"}
        BY <3>1 DEF JournalSegment, disk, NextSegment
      <4>2. \A i \in Idx : Settled(i)' => Settled(i)
        BY <2>1, <2>4, <4>1 DEF Settled, Logged
      <4>3. HeaderInv'
        BY <2>1, <4>1, <4>2 DEF HeaderInv
      <4>4. Active'
        BY <1>0, <4>1 DEF Active
      <4>5. OpenInv'
        BY <1>0, <2>1, <4>1, <4>4 DEF OpenInv
      <4> QED
        BY <1>0, <4>1, <4>3, <4>4, <4>5
    <3>2. CASE JournalThenDiskCritical
      <4>1. EndLoop(journaled + 1)
        BY <3>2 DEF JournalThenDiskCritical
      <4>2. HeaderInv' /\ OpenInv'
        BY <1>0, <2>1, <2>4, <4>1, EndingReads
      <4>3. /\ mode' = "final" /\ pc' \in {"encrypt", "stop"} /\ closed <= closed'
            /\ \A i \in Idx : i <= closed => wav'[i] = wav[i]
        BY <1>d, <4>1
      <4> QED
        BY <4>2, <4>3 DEF Active
    <3> QED
      BY <1>4, <3>1, <3>2
  <2>6. journaled <= journaled' /\ journaled' <= closed'
    <3>1. closed' \in Nat
      OBVIOUS
    <3> QED
      BY <1>0, <2>1, <2>2, <2>5, <3>1
  <2>7. LoggedInv'
    BY <1>0, <2>1, <2>3, <2>5, <2>6, LiveLogged
  <2>8. TakenInv'
    BY <2>5, LiveTaken
  <2> QED
    BY <2>5, <2>7, <2>8
<1> QED
  BY <1>1, <1>2, <1>3, <1>4

LEMMA FinalizeReads ==
  ASSUME LoopOK, KeepInv, ReadInv,
         KeepPlain \/ CreateEnc \/ WriteEnc \/ RemovePlain \/ FinalizeFails
  PROVE  ReadInv'
<1> USE DEF ReadInv, LoopOK, TypeOK, ControlOK
<1>0. /\ pc \in {"encrypt", "encrypting", "unlink"} /\ seg \in Idx
      /\ wav[seg].on /\ wav[seg].hdr /\ wav[seg].decl = wav[seg].data
      /\ Recovering => <<seg, "wav">> \notin todo
      /\ UNCHANGED <<mode, closed, frames, journaled, seg, todo, known, journal>>
  <2>1. pc \in {"encrypt", "encrypting", "unlink"}
    BY DEF KeepPlain, CreateEnc, WriteEnc, RemovePlain, FinalizeFails
  <2>2. wav[seg].on
    BY <2>1 DEF KeepInv, FinalizeFiles
  <2>3. UNCHANGED <<mode, closed, frames, journaled, seg, todo, known, journal>>
    BY DEF KeepPlain, CreateEnc, WriteEnc, RemovePlain, FinalizeFails, writer
  <2> QED
    BY <2>1, <2>2, <2>3 DEF TakenInv, Finalizing
<1>1. /\ ~Logged(seg)
      /\ seg <= closed + 1 /\ (Active => seg <= closed)
  <2>1. ~Logged(seg)
    BY <1>0 DEF LoggedInv
  <2>2. ~(seg > closed + 1) /\ (Active => seg <= closed)
    BY <1>0 DEF OpenInv, LoopInv, Finalizing
  <2> QED
    BY <1>0, <2>1, <2>2 DEF Idx
<1>2. /\ pc' \in {"encrypting", "unlink", "journal"}
      /\ (Active' <=> Active) /\ (Recovering' <=> Recovering)
  <2>1. pc' \in {"encrypting", "unlink", "journal"}
    BY DEF KeepPlain, CreateEnc, WriteEnc, RemovePlain, FinalizeFails
  <2> QED
    BY <1>0, <2>1 DEF Active, Recovering
<1>3. CASE KeepPlain \/ FinalizeFails
  <2>1. UNCHANGED <<wav, enc>> /\ pc' = "journal" /\ stored' = "wav"
    BY <1>3 DEF KeepPlain, FinalizeFails, disk
  <2>2. TakenInv'
    BY <1>0, <1>2, <2>1 DEF TakenInv, Finalizing
  <2>3. SameRecords
    BY <1>0 DEF SameRecords
  <2> QED
    BY <1>0, <1>2, <2>1, <2>2, <2>3, QuietReads
\* Steps on the copy of a segment that has no record yet.
<1>a. ASSUME wav' = wav, NEW e, enc' = [enc EXCEPT ![seg] = e],
             e.st = "whole" => e.data = wav[seg].data, pc' \in {"encrypting", "unlink"}
      PROVE  ReadInv'
  <2>1. /\ enc'[seg] = e
        /\ \A i \in Idx : i # seg => enc'[i] = enc[i]
    BY <1>a DEF FilesOK
  <2>2. \A i \in Idx : Settled(i)' => Settled(i) \/ i = seg
    BY <1>0, <2>1 DEF Settled, Logged
  <2>3. HeaderInv'
    <3> SUFFICES ASSUME NEW i \in Idx
                 PROVE  /\ ~wav[i].hdr => wav[i].data = 0 /\ wav[i].decl = 0
                        /\ Settled(i)' => wav[i].hdr /\ wav[i].decl = wav[i].data
                        /\ enc'[i].st = "whole" => enc'[i].data = wav[i].data
                        /\ wav[i].on => wav[i].decl = wav[i].data
      BY <1>a DEF HeaderInv
    <3>1. CASE i = seg
      BY <1>0, <1>a, <2>1, <3>1
    <3>2. CASE i # seg
      BY <1>0, <2>1, <2>2, <3>2 DEF HeaderInv
    <3> QED
      BY <3>1, <3>2
  <2>4. OpenInv'
    <3> SUFFICES ASSUME NEW i \in Idx
                 PROVE  /\ i > closed + 1 => ~wav[i].on /\ enc'[i].st = "none"
                        /\ Active /\ i > closed =>
                             enc'[i].st = "none" /\ (frames = 0 => ~wav[i].on)
      BY <1>0, <1>2, <1>a DEF OpenInv
    <3>1. CASE i = seg
      BY <1>0, <1>1, <3>1 DEF Idx
    <3>2. CASE i # seg
      BY <2>1, <3>2 DEF OpenInv
    <3> QED
      BY <3>1, <3>2
  <2>5. LoggedInv'
    <3> SUFFICES ASSUME NEW i \in Idx, Logged(i)
                 PROVE  /\ Content(i)'
                        /\ journal.frames[i] = wav[i].data
                        /\ journal.form[i] = "enc" => enc'[i].st = "whole"
                        /\ Active => i <= journaled
                        /\ Recovering /\ <<i, "wav">> \in todo => i \in known
                        /\ i # seg
      BY <1>0, <1>2, <1>a DEF LoggedInv, Logged
    <3>1. i # seg
      BY <1>1
    <3>2. enc'[i] = enc[i]
      BY <2>1, <3>1
    <3> QED
      BY <1>a, <3>1, <3>2 DEF LoggedInv, Content
  <2>6. TakenInv'
    BY <1>0, <1>2, <1>a DEF TakenInv
  <2> QED
    BY <2>3, <2>4, <2>5, <2>6
<1>4. CASE CreateEnc
  <2>1. wav' = wav /\ pc' = "encrypting" /\ enc' = [enc EXCEPT ![seg] = [st |-> "torn", data |-> 0]]
    BY <1>4 DEF CreateEnc
  <2> DEFINE e == [st |-> "torn", data |-> 0]
  <2>2. e.st # "whole"
    OBVIOUS
  <2> HIDE DEF e
  <2>3. enc' = [enc EXCEPT ![seg] = e]
    BY <2>1 DEF e
  <2> QED
    BY <1>a, <2>1, <2>2, <2>3
<1>5. CASE WriteEnc
  <2>1. /\ wav' = wav /\ pc' = "unlink"
        /\ enc' = [enc EXCEPT ![seg] = [st |-> "whole", data |-> wav[seg].decl]]
    BY <1>5 DEF WriteEnc
  <2> DEFINE e == [st |-> "whole", data |-> wav[seg].decl]
  <2>2. e.data = wav[seg].data
    BY <1>0
  <2> HIDE DEF e
  <2>3. enc' = [enc EXCEPT ![seg] = e]
    BY <2>1 DEF e
  <2> QED
    BY <1>a, <2>1, <2>2, <2>3
<1>6. CASE RemovePlain
  <2>1. /\ pc = "unlink" /\ enc' = enc /\ pc' = "journal" /\ stored' = "enc"
        /\ wav' = [wav EXCEPT ![seg].on = FALSE]
    BY <1>6 DEF RemovePlain
  <2>2. /\ \A i \in Idx : i # seg => wav'[i] = wav[i]
        /\ wav'[seg].data = wav[seg].data /\ wav'[seg].decl = wav[seg].decl
        /\ wav'[seg].hdr = wav[seg].hdr /\ ~wav'[seg].on
    BY <1>0, <2>1 DEF FilesOK, WavFile
  <2>3. enc[seg].st = "whole"
    BY <2>1 DEF KeepInv, FinalizeFiles
  <2>4. \A i \in Idx : Settled(i)' => Settled(i)
    BY <1>0, <2>1 DEF Settled, Logged
  <2>5. HeaderInv'
    <3> SUFFICES ASSUME NEW i \in Idx
                 PROVE  /\ ~wav'[i].hdr => wav'[i].data = 0 /\ wav'[i].decl = 0
                        /\ Settled(i)' => wav'[i].hdr /\ wav'[i].decl = wav'[i].data
                        /\ enc[i].st = "whole" => enc[i].data = wav'[i].data
                        /\ wav'[i].on => wav'[i].decl = wav'[i].data
      BY <2>1 DEF HeaderInv
    <3>1. CASE i = seg
      BY <1>0, <2>2, <3>1 DEF HeaderInv
    <3>2. CASE i # seg
      BY <1>0, <2>2, <2>4, <3>2 DEF HeaderInv
    <3> QED
      BY <3>1, <3>2
  <2>6. OpenInv'
    <3> SUFFICES ASSUME NEW i \in Idx
                 PROVE  /\ i > closed + 1 => ~wav'[i].on /\ enc[i].st = "none"
                        /\ Active /\ i > closed =>
                             enc[i].st = "none" /\ (frames = 0 => ~wav'[i].on)
      BY <1>0, <1>2, <2>1 DEF OpenInv
    <3>1. wav'[i].on => wav[i].on
      BY <2>2
    <3> QED
      BY <3>1 DEF OpenInv
  <2>7. LoggedInv'
    <3> SUFFICES ASSUME NEW i \in Idx, Logged(i)
                 PROVE  /\ Content(i)'
                        /\ journal.frames[i] = wav'[i].data
                        /\ journal.form[i] = "enc" => enc[i].st = "whole"
                        /\ Active => i <= journaled
                        /\ Recovering /\ <<i, "wav">> \in todo => i \in known
      BY <1>0, <1>2, <2>1 DEF LoggedInv, Logged
    <3>1. wav'[i] = wav[i]
      BY <1>1, <2>2
    <3> QED
      BY <2>1, <3>1 DEF LoggedInv, Content
  <2>8. TakenInv'
    BY <1>0, <1>2, <2>1, <2>2, <2>3 DEF TakenInv, Finalizing
  <2> QED
    BY <2>5, <2>6, <2>7, <2>8
<1> QED
  BY <1>3, <1>4, <1>5, <1>6

\* The file that may have ended in the middle is the last one of the listing.
LEMMA TailIsLast ==
  ASSUME LoopOK, ReadInv, NEW i \in Idx, NEW last \in Idx,
         wav[i].on, wav[i].decl # wav[i].data
  PROVE  /\ IsLast(<<i, "wav">>)
         /\ IsLast(<<last, "wav">>) => last = i
<1> USE DEF ReadInv, LoopOK, TypeOK, ControlOK
<1>1. ~Settled(i) /\ i \in Nat /\ closed \in Nat
  BY DEF HeaderInv, Idx
<1>2. i = closed + 1 /\ enc[i].st = "none"
  <2>1. i > closed /\ ~(i > closed + 1)
    BY <1>1 DEF Settled, OpenInv
  <2> QED
    BY <1>1, <2>1 DEF Settled
<1>3. ASSUME NEW g \in Listing PROVE <<i, "wav">> = g \/ Before(g, <<i, "wav">>)
  <2>1. PICK k \in Idx, form \in Forms : g = <<k, form>>
    BY DEF Listing, Files
  <2>2. IF form = "wav" THEN wav[k].on ELSE enc[k].st # "none"
    BY <2>1 DEF Listing
  <2>3. ~(k > closed + 1) /\ k \in Nat
    BY <2>2 DEF OpenInv, Idx
  <2>4. CASE k = i
    BY <1>2, <2>1, <2>2, <2>4 DEF Forms
  <2>5. CASE k # i
    BY <1>1, <1>2, <2>1, <2>3, <2>5 DEF Before
  <2> QED
    BY <2>4, <2>5
<1>4. <<i, "wav">> \in Listing
  BY DEF Listing, Files, Forms
<1>5. ASSUME IsLast(<<last, "wav">>) PROVE last = i
  <2>1. wav[last].on
    BY <1>5 DEF IsLast, Listing
  <2>2. ~(last > closed + 1) /\ last \in Nat
    BY <2>1 DEF OpenInv, Idx
  <2>3. <<last, "wav">> = <<i, "wav">> \/ Before(<<i, "wav">>, <<last, "wav">>)
    BY <1>4, <1>5 DEF IsLast
  <2>4. last = i \/ i < last
    BY <2>3 DEF Before
  <2> QED
    BY <1>1, <1>2, <2>2, <2>4
<1> QED
  BY <1>3, <1>4, <1>5 DEF IsLast

LEMMA BeginReads ==
  ASSUME LoopOK, ReadInv, BeginRecovery
  PROVE  ReadInv'
<1> USE DEF ReadInv, LoopOK, TypeOK, ControlOK
<1>1. /\ pc = "down" /\ pc' \in {"repair", "strays"} /\ mode' \in {"recover", "discard"}
      /\ todo' = Listing /\ known' = AlreadyJournaled
      /\ UNCHANGED <<closed, frames, journaled, wav, enc, journal>>
  BY DEF BeginRecovery, writer, disk
<1>2. ~Active' /\ ~Finalizing'
  BY <1>1 DEF Active, Finalizing
<1>3. \A i \in Idx : Settled(i)' <=> Settled(i)
  BY <1>1 DEF Settled, Logged
<1>4. HeaderInv'
  <2> SUFFICES ASSUME NEW i \in Idx
               PROVE  wav[i].on /\ wav[i].decl # wav[i].data => pc' = "repair" /\ seg' = i
    BY <1>1, <1>3 DEF HeaderInv
  <2> SUFFICES ASSUME wav[i].on, wav[i].decl # wav[i].data
               PROVE  pc' = "repair" /\ seg' = i
    OBVIOUS
  <2>1. IsLast(<<i, "wav">>)
    BY TailIsLast
  <2>2. pc' = "repair" /\ seg' \in Idx /\ IsLast(<<seg', "wav">>)
    BY <2>1 DEF BeginRecovery
  <2>3. \A last \in Idx : IsLast(<<last, "wav">>) => last = i
    BY TailIsLast
  <2> QED
    BY <2>2, <2>3
<1>5. OpenInv'
  BY <1>1, <1>2 DEF OpenInv
<1>6. LoggedInv'
  <2>1. \A i \in Idx : Logged(i) => i \in known'
    BY <1>1 DEF AlreadyJournaled, Logged
  <2> QED
    BY <1>1, <1>2, <2>1 DEF LoggedInv, Logged, Content
<1>7. TakenInv'
  <2>1. pc' = "repair" => seg' \in Idx /\ wav[seg'].on
    BY DEF BeginRecovery, IsLast, Listing
  <2> QED
    BY <1>1, <1>2, <2>1 DEF TakenInv
<1> QED
  BY <1>4, <1>5, <1>6, <1>7

LEMMA RepairReads ==
  ASSUME LoopOK, KeepInv, ReadInv, RepairTail \/ RewriteTail
  PROVE  ReadInv'
<1> USE DEF ReadInv, LoopOK, TypeOK, ControlOK
<1>1. /\ pc \in {"repair", "rewrite"} /\ pc' \in {"rewrite", "strays"}
      /\ UNCHANGED <<mode, seg, closed, frames, journaled, enc, journal, todo, known>>
  BY DEF RepairTail, RewriteTail, writer
<1>2. ~Active /\ ~Active' /\ Recovering /\ Recovering' /\ ~Finalizing'
  BY <1>1 DEF LoopInv, Active, Recovering, Finalizing
<1>3. \A i \in Idx : Settled(i)' <=> Settled(i)
  BY <1>1 DEF Settled, Logged
<1>4. \A i \in Idx : i # seg => (wav[i].on => wav[i].decl = wav[i].data)
  BY <1>1 DEF HeaderInv
<1>5. CASE wav' = wav
  <2>1. RepairTail => ~NeedsRepair(seg) /\ pc' = "strays"
    <3>1. NeedsRepair(seg) => wav[seg].data # wav[seg].decl
      BY DEF NeedsRepair
    <3>2. RepairTail /\ NeedsRepair(seg) => wav'[seg].data = wav'[seg].decl
      BY DEF RepairTail, EmptyWav, FilesOK
    <3>3. RepairTail /\ ~NeedsRepair(seg) => pc' = "strays"
      BY DEF RepairTail
    <3> QED
      BY <1>5, <3>1, <3>2, <3>3
  <2>2. RewriteTail => pc' = "strays" /\ wav'[seg].data = wav'[seg].decl
    BY DEF RewriteTail, ValidWav, FilesOK
  <2>3. pc' = "strays" /\ (wav[seg].on => wav[seg].decl = wav[seg].data)
    BY <1>5, <2>1, <2>2 DEF NeedsRepair, HeaderInv
  <2>4. HeaderInv'
    BY <1>1, <1>3, <1>4, <1>5, <2>3 DEF HeaderInv
  <2>5. OpenInv' /\ LoggedInv' /\ TakenInv'
    BY <1>1, <1>2, <1>5, <2>3 DEF OpenInv, LoggedInv, TakenInv, Logged, Content
  <2> QED
    BY <2>4, <2>5
<1>6. CASE wav' # wav
  <2>1. /\ ~Settled(seg)
        /\ pc' = "rewrite" => wav' = [wav EXCEPT ![seg] = EmptyWav]
        /\ pc' = "strays" => wav' = [wav EXCEPT ![seg] = ValidWav(keep)]
        /\ wav[seg].on
    <3>1. CASE RepairTail
      <4>1. NeedsRepair(seg) /\ pc = "repair"
        BY <1>6, <3>1 DEF RepairTail
      <4> QED
        BY <3>1, <4>1 DEF RepairTail, NeedsRepair, HeaderInv, TakenInv
    <3>2. CASE RewriteTail
      <4>1. pc = "rewrite"
        BY <3>2 DEF RewriteTail
      <4>2. ~(seg <= closed)
        BY <4>1 DEF KeepInv, RecoveryFiles, Idx
      <4> QED
        BY <3>2, <4>1, <4>2 DEF RewriteTail, TakenInv, Settled
    <3> QED
      BY <3>1, <3>2
  <2>2. /\ \A i \in Idx : i # seg => wav'[i] = wav[i]
        /\ wav'[seg].on /\ wav'[seg].decl = wav'[seg].data
        /\ ~wav'[seg].hdr => wav'[seg].data = 0
    BY <1>1, <2>1 DEF EmptyWav, ValidWav, FilesOK
  <2>3. enc[seg].st = "none" /\ ~Logged(seg)
    BY <2>1 DEF Settled
  <2>4. HeaderInv'
    BY <1>1, <1>3, <1>4, <2>1, <2>2, <2>3 DEF HeaderInv
  <2>5. OpenInv'
    BY <1>1, <1>2, <2>1, <2>2 DEF OpenInv
  <2>6. LoggedInv'
    BY <1>1, <1>2, <2>2, <2>3 DEF LoggedInv, Logged, Content
  <2>7. TakenInv'
    <3>1. pc' = "rewrite" => wav'[seg].data = 0
      BY <2>1 DEF EmptyWav, FilesOK
    <3> QED
      BY <1>1, <1>2, <2>2, <2>3, <3>1 DEF TakenInv, Logged
  <2> QED
    BY <2>4, <2>5, <2>6, <2>7
<1> QED
  BY <1>5, <1>6

LEMMA StrayReads ==
  ASSUME LoopOK, KeepInv, ReadInv, SkipFile \/ TakeStray \/ JournalStray
  PROVE  ReadInv'
<1> USE DEF ReadInv, LoopOK, TypeOK, ControlOK
<1>1. /\ UNCHANGED <<mode, closed, frames, journaled, wav, enc, known>>
      /\ pc \in {"strays", "journal"} /\ pc' \in {"strays", "encrypt", "journal"}
  BY DEF SkipFile, TakeStray, JournalStray, writer, disk
<1>2. ~Active /\ ~Active' /\ Recovering /\ Recovering'
  BY <1>1 DEF LoopInv, Active, Recovering, SkipFile, TakeStray, JournalStray
<1>3. CASE SkipFile
  <2>1. todo' \subseteq todo /\ pc' = "strays" /\ journal' = journal
    BY <1>3 DEF SkipFile
  <2>2. TakenInv' /\ SameRecords
    BY <2>1 DEF TakenInv, Finalizing, SameRecords
  <2> QED
    BY <1>1, <1>2, <2>1, <2>2, QuietReads
<1>4. CASE TakeStray
  <2>1. PICK f \in todo :
          /\ IsFirst(f)
          /\ f[1] \notin known /\ Countable(f)
          /\ seg' = f[1] /\ stored' = f[2]
          /\ pc' = IF f[2] = "wav" THEN "encrypt" ELSE "journal"
          /\ todo' = todo \ {f}
    BY <1>4 DEF TakeStray
  <2>2. pc = "strays" /\ journal' = journal
    BY <1>4 DEF TakeStray
  <2>3. PICK i \in Idx, form \in Forms : f = <<i, form>>
    BY DEF Files
  <2>4. <<i, "wav">> \notin todo'
    <3>1. CASE form = "wav"
      BY <2>1, <2>3, <3>1
    <3>2. CASE form # "wav"
      <4>1. <<i, "wav">> \in todo => Before(f, <<i, "wav">>)
        BY <2>1, <2>3, <3>2 DEF IsFirst
      <4>2. ~(i < i)
        BY DEF Idx
      <4>3. ~Before(f, <<i, "wav">>)
        BY <2>3, <3>2, <4>2 DEF Before
      <4> QED
        BY <2>1, <4>1, <4>3
    <3> QED
      BY <3>1, <3>2
  <2>5. TakenInv' /\ (form = "wav" => ~Logged(i))
    <3>1. CASE form = "wav"
      <4>1. wav[i].on /\ wav[i].hdr
        BY <2>1, <2>3, <3>1 DEF KeepInv, RecoveryFiles, Countable
      <4>2. wav[i].decl = wav[i].data
        BY <2>2, <4>1 DEF HeaderInv
      <4>3. ~Logged(i)
        BY <1>2, <2>1, <2>3, <3>1 DEF LoggedInv
      <4>4. pc' = "encrypt"
        BY <2>1, <2>3, <3>1
      <4> QED
        BY <1>1, <2>1, <2>3, <2>4, <4>1, <4>2, <4>3, <4>4 DEF TakenInv, Finalizing
    <3>2. CASE form # "wav"
      <4>1. form = "enc" /\ enc[i].st = "whole"
        BY <2>1, <2>3, <3>2 DEF Countable, Forms
      <4>2. wav[i].hdr /\ wav[i].decl = wav[i].data
        BY <4>1 DEF HeaderInv, Settled
      <4>3. pc' = "journal" /\ stored' = "enc"
        BY <2>1, <2>3, <4>1
      <4> QED
        BY <1>1, <2>1, <2>3, <2>4, <3>2, <4>1, <4>2, <4>3 DEF TakenInv, Finalizing
    <3> QED
      BY <3>1, <3>2
  <2>6. pc' \in {"encrypt", "encrypting", "unlink"} => ~Logged(seg')
    BY <2>1, <2>3, <2>5
  <2>7. SameRecords /\ todo' \subseteq todo
    BY <2>1, <2>2 DEF SameRecords
  <2> QED
    BY <1>1, <1>2, <2>2, <2>5, <2>6, <2>7, QuietReads
<1>5. CASE JournalStray
  <2>1. /\ pc = "journal" /\ pc' = "strays" /\ UNCHANGED <<seg, todo>>
        /\ Append(Completed(seg, StoredFrames, stored))
    BY <1>5 DEF JournalStray
  <2>2. \A i \in Idx : Logged(i)' =>
           /\ Logged(i) \/ i = seg
           /\ Content(i)
           /\ journal'.frames[i] = wav[i].data
           /\ journal'.form[i] = "enc" => enc[i].st = "whole"
    BY <2>1, RecordReads DEF Logged
  <2>3. wav[seg].hdr /\ wav[seg].decl = wav[seg].data /\ <<seg, "wav">> \notin todo
    BY <1>2, <2>1 DEF TakenInv, Finalizing
  <2>4. \A i \in Idx : Settled(i)' => Settled(i) \/ i = seg
    BY <1>1, <2>2 DEF Settled
  <2>5. HeaderInv'
    BY <1>1, <2>1, <2>3, <2>4 DEF HeaderInv
  <2>6. OpenInv'
    BY <1>1, <1>2 DEF OpenInv
  <2>7. LoggedInv'
    <3> SUFFICES ASSUME NEW i \in Idx, Logged(i)'
                 PROVE  /\ Content(i)'
                        /\ journal'.frames[i] = wav'[i].data
                        /\ journal'.form[i] = "enc" => enc'[i].st = "whole"
                        /\ <<i, "wav">> \in todo => i \in known
      BY <1>1, <1>2, <2>1 DEF LoggedInv
    <3>1. <<i, "wav">> \in todo => i \in known
      BY <1>2, <2>2, <2>3 DEF LoggedInv
    <3> QED
      BY <1>1, <2>2, <3>1 DEF Content
  <2>8. TakenInv'
    BY <2>1 DEF TakenInv, Finalizing
  <2> QED
    BY <2>5, <2>6, <2>7, <2>8
<1> QED
  BY <1>3, <1>4, <1>5

LEMMA ReadStep ==
  ASSUME "power" \notin Faults, LoopOK, LoopOK', KeepInv, ReadInv, [Next]_vars
  PROVE  ReadInv'
<1> USE RecorderAssumption DEF LoopOK, TypeOK, ControlOK
<1>1. CASE WriteFrame \/ Flush \/ StopLoop \/ JournalSegment \/ JournalThenDiskCritical
  BY <1>1, LiveReads
<1>2. CASE KeepPlain \/ CreateEnc \/ WriteEnc \/ RemovePlain \/ FinalizeFails
  BY <1>2, FinalizeReads
<1>3. CASE BeginRecovery
  BY <1>3, BeginReads
<1>4. CASE RepairTail \/ RewriteTail
  BY <1>4, RepairReads
<1>5. CASE SkipFile \/ TakeStray \/ JournalStray
  BY <1>5, StrayReads
<1>6. CASE Drain
  <2>1. /\ pc = "run" /\ pc' = "encrypt" /\ mode' = mode /\ seg' = journaled + 1 /\ journaled < closed
        /\ UNCHANGED <<closed, frames, journaled, wav, enc, journal, todo, known>>
    BY <1>6 DEF Drain, writer, disk
  <2>2. Active /\ Active' /\ ~Recovering' /\ seg' \in Idx /\ seg' <= closed'
    BY <2>1 DEF LoopInv, Active, Recovering
  <2>3. ~Logged(seg')
    <3>1. Logged(seg') => seg' <= journaled
      BY <2>2 DEF ReadInv, LoggedInv
    <3> QED
      BY <2>1, <3>1
  <2>4. wav[seg'].hdr /\ wav[seg'].decl = wav[seg'].data
    BY <2>1, <2>2 DEF ReadInv, HeaderInv, Settled
  <2>5. TakenInv' /\ SameRecords
    BY <2>1, <2>2, <2>4 DEF TakenInv, Finalizing, SameRecords
  <2> QED
    BY <2>1, <2>2, <2>3, <2>5, QuietReads
<1>7. CASE StopCapture \/ MarkRecovered \/ DiscardStop
  <2>1. /\ pc \in {"stop", "strays", "discard"} /\ pc' \in {"down", "discard"}
        /\ UNCHANGED <<mode, closed, frames, journaled, wav, enc, todo, known>>
        /\ \/ Append([journal EXCEPT !.stopped = TRUE])
           \/ Append([journal EXCEPT !.recovered = TRUE])
    BY <1>7 DEF StopCapture, MarkRecovered, DiscardStop, writer, disk
  <2>2. SameRecords
    BY <2>1, OtherRecords
  <2>3. TakenInv' /\ (Active' => Active) /\ (Recovering' => Recovering)
    BY <2>1 DEF TakenInv, Finalizing, Active, Recovering
  <2> QED
    BY <2>1, <2>2, <2>3, QuietReads
<1>8. CASE Kill
  <2>1. GoDown /\ wav' \in WavLeft /\ enc' = enc /\ journal' = journal
    BY <1>8 DEF Kill
  <2>2. \A i \in Idx : wav'[i] = wav[i] \/
           (Active /\ i = closed + 1 /\ wav'[i].on
              /\ (~wav'[i].hdr => wav'[i].data = 0 /\ wav'[i].decl = 0))
    BY <2>1, LeftDown DEF ReadInv
  <2> QED
    BY <2>1, <2>2, DownReads DEF SameRecords
<1>9. CASE WriterFails
  <2>1. GoDown /\ enc' = enc /\ journal' = journal /\ pc = "run"
    BY <1>9 DEF WriterFails
  <2>2. \A i \in Idx : wav'[i] = wav[i] \/
           (Active /\ i = closed + 1 /\ wav'[i].on
              /\ (~wav'[i].hdr => wav'[i].data = 0 /\ wav'[i].decl = 0))
    <3>1. CASE wav' \in WavLeft
      BY <3>1, LeftDown DEF ReadInv
    <3>2. CASE \E n \in wav[closed + 1].data .. frames :
                 wav' = [wav EXCEPT ![closed + 1] = ValidWav(n)]
      <4>1. Active
        BY <2>1 DEF Active, LoopInv
      <4> QED
        BY <3>2, <4>1 DEF ValidWav, FilesOK
    <3> QED
      BY <1>9, <3>1, <3>2 DEF WriterFails
  <2> QED
    BY <2>1, <2>2, DownReads DEF SameRecords
<1>10. CASE CommandFails
  <2>1. GoDown /\ wav' = wav /\ enc' = enc /\ (TornAppend \/ UNCHANGED journal)
    BY <1>10 DEF CommandFails, disk
  <2>2. SameRecords
    BY <2>1, OtherRecords
  <2> QED
    BY <2>1, <2>2, DownReads
<1>11. CASE PowerLoss
  BY <1>11 DEF PowerLoss
<1>12. CASE UNCHANGED vars
  BY <1>12 DEF vars, writer, disk, ReadInv, HeaderInv, OpenInv, LoggedInv, TakenInv,
     Settled, Logged, Content, Active, Recovering, Finalizing
<1> QED
  BY <1>1, <1>2, <1>3, <1>4, <1>5, <1>6, <1>7, <1>8, <1>9, <1>10, <1>11, <1>12
     DEF Next, Live, Finalize, Recovery, Failure

LEMMA ReadCorrect == "power" \notin Faults => (Spec => []LoopOK /\ []KeepInv /\ []ReadInv)
<1> SUFFICES ASSUME "power" \notin Faults
             PROVE  Spec => []LoopOK /\ []KeepInv /\ []ReadInv
  OBVIOUS
<1> DEFINE I == LoopOK /\ KeepInv /\ ReadInv
<1>1. Init => I
  BY LoopInit, KeepInit, ReadInit
<1>2. I /\ [Next]_vars => I'
  <2> SUFFICES ASSUME LoopOK, KeepInv, ReadInv, [Next]_vars PROVE I'
    OBVIOUS
  <2>1. LoopOK'
    BY ControlStep, FilesStep, JournalStep DEF LoopOK, TypeOK
  <2>2. KeepInv'
    BY <2>1, KeepStep DEF SafeStorage
  <2>3. ReadInv'
    BY <2>1, ReadStep
  <2> QED
    BY <2>1, <2>2, <2>3
<1> QED
  BY <1>1, <1>2, PTL DEF Spec

\* When power is not cut, everything the journal names can be read back in the
\* form and at the length it names, at every moment of recording, finalizing and
\* recovering, whatever is killed or fails (crypto.rs, journal.rs, recovery.rs).
THEOREM JournalTellsTheTruth ==
  "power" \notin Faults => (Spec => []JournaledReadable)
<1>1. LoopOK /\ ReadInv => JournaledReadable
  <2> SUFFICES ASSUME LoopOK, ReadInv, NEW i \in Idx, Logged(i)
               PROVE  /\ Readable(i) = journal.frames[i]
                      /\ journal.form[i] = "enc" => enc[i].st = "whole"
                      /\ enc[i].st = "whole" \/ (wav[i].on /\ wav[i].hdr)
    BY DEF JournaledReadable, Logged
  <2> QED
    BY DEF ReadInv, HeaderInv, LoggedInv, Content, Readable
<1> QED
  BY <1>1, ReadCorrect, PTL

\* Every other step leaves at least what was there, or what was just fsynced.
LEMMA NothingShrinks ==
  ASSUME "power" \notin Faults, LoopOK, LoopOK', KeepInv, ReadInv, [Next]_vars,
         ~(pc = "repair" /\ pc' = "rewrite"), NEW i \in Idx
  PROVE  \/ synced'[i] = synced[i] /\ Readable(i)' >= Readable(i)
         \/ Readable(i)' = synced'[i]
<1> USE DEF LoopOK, TypeOK, ControlOK, ReadInv
<1>1. /\ wav[i].data \in Nat /\ wav'[i].data \in Nat
      /\ wav[i] \in WavFile /\ enc[i] \in EncFile /\ Readable(i) \in Nat
  BY RecorderAssumption DEF FilesOK, WavFile, EncFile, Frames, Readable
<1>2. enc[i].st = "whole" => enc[i].data = wav[i].data
  BY DEF HeaderInv
<1>3. /\ Active /\ i > closed => enc[i].st = "none" /\ (frames = 0 => ~wav[i].on)
  BY DEF OpenInv
<1>4. CASE wav'[i] = wav[i] /\ enc'[i] = enc[i] /\ synced'[i] = synced[i]
  BY <1>1, <1>4 DEF Readable
\* The open segment is closed or flushed: what was fsynced can be read.
<1>5. ASSUME Active, i > closed, enc' = enc, NEW n, wav'[i] = ValidWav(n), synced'[i] = n
      PROVE  Readable(i)' = synced'[i]
  BY <1>3, <1>5 DEF Readable, ValidWav
<1>6. ASSUME NEW n, CloseOpen(n), closed < MaxSegments, Active, enc' = enc
      PROVE  \/ wav'[i] = wav[i] /\ enc'[i] = enc[i] /\ synced'[i] = synced[i]
             \/ Readable(i)' = synced'[i]
  <2>1. /\ wav'[closed + 1] = ValidWav(n) /\ synced'[closed + 1] = n /\ closed \in Nat
        /\ \A k \in Idx : k # closed + 1 => wav'[k] = wav[k] /\ synced'[k] = synced[k]
    BY <1>6, ClosingEffect
  <2>2. CASE i = closed + 1
    BY <1>5, <1>6, <2>1, <2>2
  <2> QED
    BY <1>6, <2>1, <2>2
<1>7. CASE WriteFrame
  <2>1. pc = "run" /\ Active /\ enc' = enc /\ closed < MaxSegments
    BY <1>7 DEF WriteFrame, LoopInv, Active
  <2>2. CASE SegmentFull
    BY <1>4, <1>6, <1>7, <2>1, <2>2 DEF WriteFrame
  <2>3. CASE ~SegmentFull
    <3>1. synced' = synced
      BY <1>7, <2>3 DEF WriteFrame
    <3>2. CASE frames = 0 /\ i = closed + 1
      <4>1. ~wav[i].on /\ enc[i].st = "none" /\ closed \in Nat
        BY <1>3, <2>1, <3>2
      <4> QED
        BY <1>1, <2>1, <3>1, <4>1 DEF Readable
    <3>3. CASE ~(frames = 0 /\ i = closed + 1)
      <4>1. wav'[i] = wav[i]
        BY <1>7, <2>3, <3>3 DEF WriteFrame, FilesOK
      <4> QED
        BY <1>4, <2>1, <3>1, <4>1
    <3> QED
      BY <3>2, <3>3
  <2> QED
    BY <2>2, <2>3
<1>8. CASE Flush
  <2>1. /\ pc = "run" /\ Active /\ enc' = enc /\ closed \in Nat
        /\ wav' = [wav EXCEPT ![closed + 1] = ValidWav(frames)]
        /\ synced' = [synced EXCEPT ![closed + 1] = frames]
    BY <1>8 DEF Flush, LoopInv, Active
  <2>2. CASE i = closed + 1
    <3>1. wav'[i] = ValidWav(frames) /\ synced'[i] = frames /\ i > closed
      BY <2>1, <2>2 DEF FilesOK
    <3> QED
      BY <1>5, <2>1, <3>1
  <2>3. CASE i # closed + 1
    <3>1. wav'[i] = wav[i] /\ enc'[i] = enc[i] /\ synced'[i] = synced[i]
      BY <2>1, <2>3 DEF FilesOK
    <3> QED
      BY <1>4, <3>1
  <2> QED
    BY <2>2, <2>3
<1>9. CASE StopLoop \/ JournalThenDiskCritical
  <2>1. Active /\ enc' = enc /\ \E done : EndLoop(done)
    BY <1>9 DEF StopLoop, JournalThenDiskCritical, LoopInv, Active
  <2>2. \/ UNCHANGED <<wav, synced>>
        \/ CloseOpen(frames) /\ closed < MaxSegments
    BY <2>1, EndingEffect
  <2> QED
    BY <1>4, <1>6, <2>1, <2>2
<1>10. CASE CreateEnc \/ WriteEnc \/ RemovePlain
  <2>1. /\ synced' = synced /\ seg \in Idx
        /\ pc \in {"encrypt", "encrypting", "unlink"}
    BY <1>10 DEF CreateEnc, WriteEnc, RemovePlain, writer
  <2>2. wav[seg].on /\ wav[seg].decl = wav[seg].data
    BY <2>1 DEF TakenInv, Finalizing, KeepInv, FinalizeFiles
  <2>3. CASE i # seg
    <3>1. wav'[i] = wav[i] /\ enc'[i] = enc[i]
      BY <1>10, <2>1, <2>3 DEF CreateEnc, WriteEnc, RemovePlain, FilesOK
    <3> QED
      BY <1>4, <2>1, <3>1
  <2>4. CASE i = seg
    <3>1. Readable(i) = wav[i].data
      BY <1>2, <2>2, <2>4 DEF Readable
    <3>2. CASE CreateEnc
      <4>1. wav'[i] = wav[i] /\ enc'[i].st = "torn"
        BY <2>4, <3>2 DEF CreateEnc, FilesOK
      <4> QED
        BY <1>1, <2>1, <2>2, <2>4, <3>1, <4>1 DEF Readable
    <3>3. CASE WriteEnc
      <4>1. enc'[i].st = "whole" /\ enc'[i].data = wav[i].decl
        BY <2>4, <3>3 DEF WriteEnc, FilesOK
      <4> QED
        BY <1>1, <2>1, <2>2, <2>4, <3>1, <4>1 DEF Readable
    <3>4. CASE RemovePlain
      <4>1. enc' = enc /\ enc[i].st = "whole"
        BY <2>4, <3>4 DEF RemovePlain, KeepInv, FinalizeFiles
      <4> QED
        BY <1>1, <2>1, <4>1 DEF Readable
    <3> QED
      BY <1>10, <3>2, <3>3, <3>4
  <2> QED
    BY <2>3, <2>4
<1>11. CASE RepairTail
  <2>1. pc = "repair" /\ UNCHANGED <<synced, enc>>
    BY <1>11 DEF RepairTail, writer
  <2>2. wav' = wav
    BY <1>11, <2>1 DEF RepairTail
  <2> QED
    BY <1>4, <2>1, <2>2
<1>12. CASE RewriteTail
  <2>1. /\ UNCHANGED <<synced, enc>> /\ enc[seg].st = "none" /\ wav[seg].data = 0
        /\ wav' = [wav EXCEPT ![seg] = ValidWav(keep)]
    BY <1>12 DEF RewriteTail, writer, TakenInv
  <2>2. CASE i = seg
    <3>1. Readable(i) = 0 /\ Readable(i)' \in Nat
      BY <1>1, <2>1, <2>2 DEF Readable
    <3> QED
      BY <2>1, <3>1
  <2>3. CASE i # seg
    <3>1. wav'[i] = wav[i]
      BY <2>1, <2>3 DEF FilesOK
    <3> QED
      BY <1>4, <2>1, <3>1
  <2> QED
    BY <2>2, <2>3
<1>13. CASE Kill \/ WriterFails
  <2>1. UNCHANGED <<synced, enc>>
    BY <1>13 DEF Kill, WriterFails, GoDown
  <2>2. \/ wav'[i] = wav[i]
        \/ /\ i = closed + 1 /\ Active /\ closed \in Nat
           /\ wav'[i].on /\ wav'[i].data >= wav[i].data
    <3>1. CASE wav' \in WavLeft
      BY <3>1, LeftEffect DEF LoopInv
    <3>2. CASE wav' \notin WavLeft
      <4>1. /\ WriterFails /\ Active
            /\ \E n \in wav[closed + 1].data .. frames :
                 wav' = [wav EXCEPT ![closed + 1] = ValidWav(n)]
        BY <1>13, <3>2 DEF Kill, WriterFails, LoopInv, Active
      <4>2. PICK n \in wav[closed + 1].data .. frames :
                 wav' = [wav EXCEPT ![closed + 1] = ValidWav(n)]
        BY <4>1
      <4>3. i # closed + 1 => wav'[i] = wav[i]
        BY <4>2 DEF FilesOK
      <4>4. i = closed + 1 => wav'[i].on /\ wav'[i].data = n
        BY <4>2 DEF FilesOK, ValidWav
      <4>5. i = closed + 1 => n >= wav[i].data
        BY <1>1, <4>2
      <4> QED
        BY <4>1, <4>3, <4>4, <4>5
    <3> QED
      BY <3>1, <3>2
  <2>3. CASE wav'[i] = wav[i]
    BY <1>4, <2>1, <2>3
  <2>4. CASE wav'[i] # wav[i]
    <3>1. enc[i].st = "none"
      BY <1>3, <2>2, <2>4
    <3>2. Readable(i)' = wav'[i].data /\ Readable(i) \in {0, wav[i].data}
      BY <2>1, <2>2, <2>4, <3>1 DEF Readable
    <3> QED
      BY <1>1, <2>1, <2>2, <2>4, <3>2
  <2> QED
    BY <2>3, <2>4
<1>14. CASE UNCHANGED <<wav, enc, synced>>
  BY <1>4, <1>14
<1> QED
  BY <1>7, <1>8, <1>9, <1>10, <1>11, <1>12, <1>13, <1>14
     DEF Next, Live, Finalize, Recovery, Failure, vars, disk, writer, Drain,
     JournalSegment, StopCapture, KeepPlain, BeginRecovery, SkipFile, TakeStray,
     JournalStray, MarkRecovered, DiscardStop, FinalizeFails, CommandFails,
     GoDown, PowerLoss

\* When power is not cut, the truncating rewrite of the tail by recovery is the
\* one step that may lose frames that were fsynced (recovery.rs).
THEOREM OnlyRewriteLoses ==
  "power" \notin Faults => (Spec => LossOnlyInRewrite)
<1> SUFFICES ASSUME "power" \notin Faults PROVE Spec => LossOnlyInRewrite
  OBVIOUS
<1> DEFINE Allowed == \A i \in Idx : Readable(i) >= synced[i] /\ Readable(i)' < synced[i]'
                        => pc = "repair" /\ pc' = "rewrite"
<1>1. LoopOK /\ LoopOK' /\ KeepInv /\ ReadInv /\ [Next]_vars => [Allowed]_vars
  <2> SUFFICES ASSUME LoopOK, LoopOK', KeepInv, ReadInv, [Next]_vars,
                      NEW i \in Idx, Readable(i) >= synced[i], Readable(i)' < synced[i]',
                      ~(pc = "repair" /\ pc' = "rewrite")
               PROVE  FALSE
    OBVIOUS
  <2>1. \/ synced'[i] = synced[i] /\ Readable(i)' >= Readable(i)
        \/ Readable(i)' = synced'[i]
    BY NothingShrinks
  <2>2. /\ Readable(i) \in Nat /\ Readable(i)' \in Nat
        /\ synced[i] \in Nat /\ synced'[i] \in Nat
    BY RecorderAssumption DEF LoopOK, TypeOK, ControlOK, FilesOK, WavFile, EncFile,
       Frames, Readable
  <2> QED
    BY <2>1, <2>2
<1>2. Spec => []LoopOK /\ []KeepInv /\ []ReadInv
  BY ReadCorrect
<1> QED
  BY <1>1, <1>2, PTL DEF Spec, LossOnlyInRewrite

-----------------------------------------------------------------------------
\* The process may be killed and the encryption fail; files can be written.
OnlyKills == Faults \subseteq {"kill", "crypt"}

SameMarks == journal'.recovered = journal.recovered /\ journal'.stopped = journal.stopped

Recording == JournalSegment \/ JournalThenDiskCritical \/ JournalStray

\* What each step does to the journal when every append succeeds.
LEMMA JournalMoves ==
  ASSUME OnlyKills, LoopOK, ~journal.torn, [Next]_vars
  PROVE  /\ ~journal'.torn
         /\ Recording =>
              /\ pc = "journal" /\ SameMarks
              /\ \A i \in Idx : Logged(i)' <=> Logged(i) \/ i = seg
         /\ MarkRecovered =>
              /\ journal'.recovered /\ journal'.stopped = journal.stopped
              /\ \A i \in Idx : Logged(i)' <=> Logged(i)
         /\ StopCapture \/ DiscardStop =>
              /\ journal'.stopped /\ journal'.recovered = journal.recovered
              /\ \A i \in Idx : Logged(i)' <=> Logged(i)
         /\ Recording \/ MarkRecovered \/ StopCapture \/ DiscardStop \/ journal' = journal
<1>0. journal \in JournalType /\ seg \in Idx
  BY DEF LoopOK, TypeOK, ControlOK
<1>1. CASE Recording
  <2>1. pc = "journal" /\ Append(Completed(seg, StoredFrames, stored))
    BY <1>1 DEF Recording, JournalSegment, JournalThenDiskCritical, JournalStray,
       LiveJournal, OnlyKills
  <2>2. ~SameRecords
    <3>1. journal' = Completed(seg, StoredFrames, stored)
      BY <2>1 DEF Append
    <3>2. journal'.logged = [journal.logged EXCEPT ![seg] = @ + 1]
      BY <1>0, <3>1 DEF Completed, JournalType
    <3>3. journal'.logged[seg] = journal.logged[seg] + 1 /\ journal.logged[seg] \in Nat
      BY <1>0, <3>2 DEF JournalType
    <3> QED
      BY <3>3 DEF SameRecords
  <2>3. /\ \A i \in Idx : i # seg => journal'.logged[i] = journal.logged[i]
        /\ journal'.logged[seg] = journal.logged[seg] + 1
        /\ SameMarks /\ journal'.torn = journal.torn
    BY <2>1, <2>2, NewRecord DEF SameMarks
  <2>4. journal.logged[seg] \in Nat
    BY <1>0 DEF JournalType
  <2>5. \A i \in Idx : Logged(i)' <=> Logged(i) \/ i = seg
    BY <2>3, <2>4 DEF Logged
  <2>6. ~MarkRecovered /\ ~StopCapture /\ ~DiscardStop
    BY <2>1 DEF MarkRecovered, StopCapture, DiscardStop
  <2> QED
    BY <1>1, <2>1, <2>3, <2>5, <2>6
<1>2. CASE MarkRecovered
  <2>1. journal' = [journal EXCEPT !.recovered = TRUE] /\ pc = "strays"
    BY <1>2 DEF MarkRecovered, Append
  <2>2. ~Recording /\ ~StopCapture /\ ~DiscardStop
    BY <2>1 DEF Recording, JournalSegment, JournalThenDiskCritical, JournalStray,
       StopCapture, DiscardStop
  <2> QED
    BY <1>0, <1>2, <2>1, <2>2 DEF JournalType, Logged
<1>3. CASE StopCapture \/ DiscardStop
  <2>1. journal' = [journal EXCEPT !.stopped = TRUE] /\ pc \in {"stop", "discard"}
    BY <1>3 DEF StopCapture, DiscardStop, Append
  <2>2. ~Recording /\ ~MarkRecovered
    BY <2>1 DEF Recording, JournalSegment, JournalThenDiskCritical, JournalStray,
       MarkRecovered
  <2> QED
    BY <1>0, <1>3, <2>1, <2>2 DEF JournalType, Logged
<1>4. CASE ~(Recording \/ MarkRecovered \/ StopCapture \/ DiscardStop)
  <2>1. journal' = journal
    BY <1>4 DEF Next, Live, Finalize, Recovery, Failure, vars, WriteFrame, Flush, Drain,
     StopLoop, Recording, KeepPlain, CreateEnc, WriteEnc, RemovePlain, BeginRecovery,
     RepairTail, RewriteTail, SkipFile, TakeStray, FinalizeFails, Kill, WriterFails,
     CommandFails, PowerLoss, OnlyKills
  <2> QED
    BY <1>4, <2>1
<1> QED
  BY <1>1, <1>2, <1>3, <1>4

\* After a failure the live writer never comes back.
LEMMA WriterOwns ==
  ASSUME LoopOK, [Next]_vars, Active'
  PROVE  Active
<1> USE DEF LoopOK, TypeOK, ControlOK, LoopInv
<1>1. \/ mode' = mode
      \/ StopLoop \/ JournalThenDiskCritical
      \/ BeginRecovery \/ pc' = "down"
  BY DEF Next, Live, Finalize, Recovery, Failure, vars, WriteFrame, Flush, Drain,
     JournalSegment, StopCapture, KeepPlain, CreateEnc, WriteEnc, RemovePlain, RepairTail,
     RewriteTail, SkipFile, TakeStray, JournalStray, MarkRecovered, DiscardStop,
     FinalizeFails, Kill, WriterFails, CommandFails, PowerLoss, GoDown
<1>2. ~BeginRecovery /\ pc' # "down"
  BY DEF BeginRecovery, Active
<1>3. pc # "down"
  BY <1>2 DEF Next, Live, Finalize, Recovery, Failure, vars, WriteFrame, Flush, Drain, StopLoop,
     JournalThenDiskCritical,
     JournalSegment, StopCapture, KeepPlain, CreateEnc, WriteEnc, RemovePlain, RepairTail,
     RewriteTail, SkipFile, TakeStray, JournalStray, MarkRecovered, DiscardStop,
     FinalizeFails, Kill, WriterFails, CommandFails, PowerLoss, GoDown
<1>4. CASE mode' = mode
  BY <1>3, <1>4 DEF Active
<1>5. CASE StopLoop \/ JournalThenDiskCritical
  BY <1>5 DEF StopLoop, JournalThenDiskCritical, Active
<1> QED
  BY <1>1, <1>2, <1>4, <1>5

LEMMA LiveCompleteStep ==
  ASSUME OnlyKills, LoopOK, LoopOK', CompleteInv, [Next]_vars
  PROVE  LiveComplete'
<1> USE DEF CompleteInv, LiveComplete, LoopOK, TypeOK, ControlOK
<1>1. CASE ~Active'
  <2>1. pc' # "stop"
    BY <1>1 DEF LoopInv, Active
  <2> QED
    BY <1>1, <2>1
<1>2. CASE Active'
  <2>1. Active
    BY <1>2, WriterOwns
  <2>2. ~journal.torn
    BY DEF Marked
  <2>3. /\ closed \in Nat /\ journaled \in Nat /\ closed' \in Nat /\ journaled' \in Nat
        /\ journaled <= closed /\ journaled' <= closed'
    BY <1>2, <2>1 DEF LoopInv
  <2>4. CASE JournalSegment \/ JournalThenDiskCritical
    <3>1. /\ pc = "journal" /\ journaled' = journaled + 1 /\ seg = journaled + 1
      BY <2>1, <2>4 DEF JournalSegment, JournalThenDiskCritical, LoopInv, Finalizing
    <3>2. /\ SameMarks
          /\ \A i \in Idx : Logged(i)' <=> Logged(i) \/ i = seg
      BY <2>2, <2>4, JournalMoves DEF Recording
    <3>3. \A i \in Idx : i <= journaled' => Logged(i)'
      BY <2>1, <2>3, <3>1, <3>2 DEF Idx
    <3>4. /\ pc' = "stop" => ~(journaled' < closed') /\ frames' = 0
          /\ mode' = "final" => frames' = 0
      <4>1. CASE JournalSegment
        <5>1. UNCHANGED <<mode, closed, frames>> /\ NextSegment
          BY <4>1 DEF JournalSegment
        <5>2. pc' = "stop" => ~(journaled + 1 < closed) /\ mode # "live"
          BY <5>1 DEF NextSegment
        <5>3. mode \in {"live", "final"}
          BY <2>1 DEF Active
        <5> QED
          BY <2>1, <3>1, <5>1, <5>2, <5>3
      <4>2. CASE JournalThenDiskCritical
        <5>1. EndLoop(journaled + 1)
          BY <4>2 DEF JournalThenDiskCritical
        <5>2. /\ frames' = 0
              /\ pc' = "stop" => ~(journaled + 1 < closed')
          BY <5>1, EndingEffect
        <5> QED
          BY <3>1, <5>2
      <4> QED
        BY <2>4, <4>1, <4>2
    <3>5. pc' = "stop" => journaled' = closed' /\ frames' = 0
      BY <2>3, <3>4
    <3> QED
      BY <2>1, <3>2, <3>3, <3>4, <3>5 DEF SameMarks
  <2>5. CASE ~(JournalSegment \/ JournalThenDiskCritical)
    <3>1. ~JournalStray /\ ~MarkRecovered /\ ~StopCapture /\ ~DiscardStop
      BY <2>1, <1>2 DEF Active, LoopInv, JournalStray, MarkRecovered, StopCapture, DiscardStop
    <3>2. journal' = journal
      BY <2>2, <2>5, <3>1, JournalMoves DEF Recording
    <3>3. journaled' = journaled
      BY <2>5, <3>1 DEF Next, Live, Finalize, Recovery, Failure, vars, writer,
         WriteFrame, Flush, Drain, StopLoop, KeepPlain, CreateEnc, WriteEnc, RemovePlain,
         BeginRecovery, RepairTail, RewriteTail, SkipFile, TakeStray, FinalizeFails, Kill,
         WriterFails, CommandFails, PowerLoss, GoDown
    <3>4. CASE StopLoop
      <4>1. EndLoop(journaled)
        BY <3>4 DEF StopLoop
      <4>2. frames' = 0 /\ (pc' = "stop" => ~(journaled < closed'))
        BY <4>1, EndingEffect
      <4>3. pc' = "stop" => journaled' = closed'
        BY <2>3, <3>3, <4>2
      <4> QED
        BY <2>1, <3>2, <3>3, <4>2, <4>3 DEF Logged
    <3>5. CASE ~StopLoop
      <4>1. /\ mode' = mode
            /\ pc' = "stop" => pc = "stop" /\ UNCHANGED <<closed, frames>>
            /\ mode = "final" => frames' = frames
        BY <1>2, <2>1, <2>5, <3>1, <3>5 DEF Active, LoopInv, Next, Live, Finalize, Recovery,
         Failure, vars, writer, WriteFrame, Flush, Drain, KeepPlain, CreateEnc, WriteEnc,
         RemovePlain, BeginRecovery, RepairTail, RewriteTail, SkipFile, TakeStray,
         FinalizeFails, Kill, WriterFails, CommandFails, PowerLoss, GoDown
      <4> QED
        BY <2>1, <3>2, <3>3, <4>1 DEF Logged
    <3> QED
      BY <3>4, <3>5
  <2> QED
    BY <2>4, <2>5
<1> QED
  BY <1>1, <1>2

LEMMA FoundStep ==
  ASSUME OnlyKills, LoopOK, LoopOK', KeepInv, ReadInv, CompleteInv, [Next]_vars
  PROVE  FoundAll'
<1> USE DEF LoopOK, TypeOK, ControlOK, CompleteInv
<1>0. CASE ~Recovering'
  <2>1. pc' \notin {"repair", "rewrite"}
    BY <1>0 DEF LoopInv, Active, Recovering
  <2> QED
    BY <1>0, <2>1 DEF FoundAll
<1>a. ASSUME Recovering'
      PROVE  \/ BeginRecovery /\ pc = "down"
             \/ /\ Recovering
                /\ \/ RepairTail \/ RewriteTail \/ SkipFile \/ TakeStray \/ JournalStray
                   \/ MarkRecovered \/ UNCHANGED vars
                   \/ KeepPlain \/ CreateEnc \/ WriteEnc \/ RemovePlain \/ FinalizeFails
  <2>1. \/ BeginRecovery
        \/ RepairTail \/ RewriteTail \/ SkipFile \/ TakeStray \/ JournalStray
        \/ MarkRecovered \/ UNCHANGED vars
        \/ KeepPlain \/ CreateEnc \/ WriteEnc \/ RemovePlain \/ FinalizeFails
    BY <1>a DEF Recovering, LoopInv, Next, Live, Finalize, Recovery, Failure, WriteFrame,
       Flush, Drain, StopLoop, EndLoop, JournalSegment, JournalThenDiskCritical, StopCapture,
       DiscardStop, Kill, WriterFails, CommandFails, PowerLoss, GoDown
  <2>2. CASE BeginRecovery
    BY <2>2 DEF BeginRecovery
  <2>3. CASE ~BeginRecovery
    <3>1. mode' = mode /\ (pc = "down" => pc' = "down")
      BY <2>1, <2>3 DEF vars, RepairTail, RewriteTail, SkipFile, TakeStray, JournalStray,
         MarkRecovered, KeepPlain, CreateEnc, WriteEnc, RemovePlain, FinalizeFails
    <3> QED
      BY <1>a, <2>1, <2>3, <3>1 DEF Recovering
  <2> QED
    BY <2>2, <2>3
<1>b. ~journal.torn
  BY DEF Marked
<1>1. CASE BeginRecovery
  <2>1. /\ pc' \in {"repair", "strays"} /\ todo' = Listing
        /\ UNCHANGED <<wav, enc, journal>>
    BY <1>1 DEF BeginRecovery, disk
  <2>2. \A i \in Idx : /\ wav[i].on => <<i, "wav">> \in Listing
                       /\ enc[i].st # "none" => <<i, "enc">> \in Listing
    BY DEF Listing, Files, Forms
  <2>3. ASSUME NEW i \in Idx, Content(i)'
        PROVE  Accounted(i)'
    <3>1. CASE enc[i].st = "whole"
      <4> DEFINE f == <<i, "enc">>
      <4>1. f \in todo' /\ f[1] = i /\ f[2] = "enc"
        BY <2>1, <2>2, <3>1
      <4>2. Countable(f)'
        BY <2>1, <3>1, <4>1 DEF Countable
      <4> QED
        BY <4>1, <4>2 DEF Accounted
    <3>2. CASE enc[i].st # "whole"
      <4> DEFINE f == <<i, "wav">>
      <4>0. wav[i].on /\ wav[i].hdr
        BY <2>1, <2>3, <3>2 DEF Content
      <4>1. f \in todo' /\ f[1] = i /\ f[2] = "wav"
        BY <2>1, <2>2, <4>0
      <4>2. Countable(f)'
        BY <2>1, <4>0, <4>1 DEF Countable
      <4> QED
        BY <4>1, <4>2 DEF Accounted
    <3> QED
      BY <3>1, <3>2
  <2> QED
    BY <2>1, <2>2, <2>3 DEF FoundAll, Finalizing
<1>2. CASE RepairTail \/ RewriteTail
  <2>1. /\ pc \in {"repair", "rewrite"} /\ pc' \in {"rewrite", "strays"}
        /\ UNCHANGED <<seg, enc, journal, todo>>
    BY <1>2 DEF RepairTail, RewriteTail
  <2>2. /\ wav[seg].on
        /\ \A i \in Idx : i # seg => wav'[i] = wav[i]
    BY <1>2, <2>1 DEF ReadInv, TakenInv, RepairTail, RewriteTail, FilesOK
  <2>3. \A i \in Idx : /\ wav'[i].on => <<i, "wav">> \in todo'
                       /\ enc'[i].st # "none" => <<i, "enc">> \in todo'
    BY <2>1, <2>2 DEF FoundAll
  <2>4. ASSUME NEW i \in Idx, Content(i)'
        PROVE  Accounted(i)'
    <3>1. CASE enc'[i].st = "whole"
      <4> DEFINE f == <<i, "enc">>
      <4>1. f \in todo' /\ f[1] = i /\ f[2] = "enc"
        BY <2>3, <3>1
      <4>2. Countable(f)'
        BY <3>1, <4>1 DEF Countable
      <4> QED
        BY <4>1, <4>2 DEF Accounted
    <3>2. CASE enc'[i].st # "whole"
      <4> DEFINE f == <<i, "wav">>
      <4>0. wav'[i].on /\ wav'[i].hdr
        BY <2>4, <3>2 DEF Content
      <4>1. f \in todo' /\ f[1] = i /\ f[2] = "wav"
        BY <2>3, <4>0
      <4>2. Countable(f)'
        BY <4>0, <4>1 DEF Countable
      <4> QED
        BY <4>1, <4>2 DEF Accounted
    <3> QED
      BY <3>1, <3>2
  <2> QED
    BY <2>1, <2>3, <2>4 DEF FoundAll, Finalizing
<1>3. CASE SkipFile /\ Recovering
  <2>1. /\ pc = "strays" /\ pc' = "strays" /\ UNCHANGED <<wav, enc, journal>>
    BY <1>3 DEF SkipFile, disk
  <2>2. PICK f \in todo : (f[1] \in known \/ ~Countable(f)) /\ todo' = todo \ {f}
    BY <1>3 DEF SkipFile
  <2>3. ASSUME NEW i \in Idx, Content(i)'
        PROVE  Accounted(i)'
    <3>1. Content(i)
      BY <2>1, <2>3 DEF Content
    <3>2. Logged(i) \/ \E g \in todo : g[1] = i /\ Countable(g)
      BY <1>3, <2>1, <3>1 DEF FoundAll, Accounted, Finalizing
    <3>3. CASE Logged(i)
      BY <2>1, <3>3 DEF Accounted, Logged
    <3>4. CASE ~Logged(i)
      <4>1. PICK g \in todo : g[1] = i /\ Countable(g)
        BY <3>2, <3>4
      <4>2. i \notin known
        BY <3>4 DEF Marked
      <4>3. g \in todo' /\ Countable(g)'
        BY <2>1, <2>2, <4>1, <4>2 DEF Countable
      <4> QED
        BY <4>1, <4>3 DEF Accounted
    <3> QED
      BY <3>3, <3>4
  <2> QED
    BY <2>1, <2>3 DEF FoundAll, Finalizing
<1>4. CASE TakeStray /\ Recovering
  <2>1. /\ pc = "strays" /\ pc' \in {"encrypt", "journal"} /\ UNCHANGED <<wav, enc, journal>>
    BY <1>4 DEF TakeStray, disk
  <2>2. PICK f \in todo : IsFirst(f) /\ seg' = f[1] /\ todo' = todo \ {f}
    BY <1>4 DEF TakeStray
  <2>3. ASSUME NEW i \in Idx, Content(i)'
        PROVE  Accounted(i)'
    <3>1. Content(i)
      BY <2>1, <2>3 DEF Content
    <3>2. Logged(i) \/ \E g \in todo : g[1] = i /\ Countable(g)
      BY <1>4, <2>1, <3>1 DEF FoundAll, Accounted, Finalizing
    <3>3. CASE Logged(i)
      BY <2>1, <3>3 DEF Accounted, Logged
    <3>4. CASE ~Logged(i)
      <4>1. PICK g \in todo : g[1] = i /\ Countable(g)
        BY <3>2, <3>4
      <4>2. CASE g = f
        BY <2>1, <2>2, <4>1, <4>2 DEF Accounted, Finalizing
      <4>3. CASE g # f
        <5>1. g \in todo' /\ Countable(g)'
          BY <2>1, <2>2, <4>1, <4>3 DEF Countable
        <5> QED
          BY <4>1, <5>1 DEF Accounted
      <4> QED
        BY <4>2, <4>3
    <3> QED
      BY <3>3, <3>4
  <2>4. \A g \in todo' : g[1] >= seg'
    <3> SUFFICES ASSUME NEW g \in todo' PROVE g[1] >= seg'
      OBVIOUS
    <3>1. f = g \/ Before(f, g)
      BY <2>2 DEF IsFirst
    <3>2. f[1] \in Nat /\ g[1] \in Nat
      BY <2>2 DEF Files, Idx
    <3>3. f[1] < g[1] \/ f[1] = g[1]
      BY <3>1 DEF Before
    <3> QED
      BY <2>2, <3>2, <3>3
  <2> QED
    BY <2>1, <2>3, <2>4 DEF FoundAll, Finalizing
<1>5. CASE JournalStray /\ Recovering
  <2>1. /\ pc = "journal" /\ pc' = "strays" /\ UNCHANGED <<wav, enc, todo, seg>>
    BY <1>5 DEF JournalStray, disk
  <2>2. \A i \in Idx : Logged(i)' <=> Logged(i) \/ i = seg
    BY <1>5, <1>b, JournalMoves DEF Recording
  <2>3. ASSUME NEW i \in Idx, Content(i)'
        PROVE  Accounted(i)'
    <3>1. Content(i)
      BY <2>1, <2>3 DEF Content
    <3>2. Logged(i) \/ i = seg \/ \E g \in todo : g[1] = i /\ Countable(g)
      BY <1>5, <2>1, <3>1 DEF FoundAll, Accounted, Finalizing
    <3>3. (\E g \in todo : g[1] = i /\ Countable(g)) => \E g \in todo' : g[1] = i /\ Countable(g)'
      BY <2>1 DEF Countable
    <3> QED
      BY <2>2, <3>2, <3>3 DEF Accounted
  <2> QED
    BY <2>1, <2>3 DEF FoundAll, Finalizing
<1>6. CASE MarkRecovered
  BY <1>6 DEF MarkRecovered, FoundAll, Finalizing
<1>7. CASE (KeepPlain \/ CreateEnc \/ WriteEnc \/ RemovePlain \/ FinalizeFails) /\ Recovering
  <2>1. /\ Finalizing /\ Finalizing' /\ UNCHANGED <<seg, todo, journal>>
        /\ pc \notin {"repair", "rewrite"} /\ pc' \notin {"repair", "rewrite"}
    BY <1>7 DEF KeepPlain, CreateEnc, WriteEnc, RemovePlain, FinalizeFails, Finalizing
  <2>2. \A i \in Idx : i # seg => wav'[i] = wav[i] /\ enc'[i] = enc[i]
    BY <1>7 DEF KeepPlain, CreateEnc, WriteEnc, RemovePlain, FinalizeFails, FilesOK, disk
  <2>3. ASSUME NEW i \in Idx, Content(i)'
        PROVE  Accounted(i)'
    <3>1. CASE i = seg
      BY <2>1, <3>1 DEF Accounted
    <3>2. CASE i # seg
      <4>1. Content(i)
        BY <2>2, <2>3, <3>2 DEF Content
      <4>2. Logged(i) \/ \E g \in todo : g[1] = i /\ Countable(g)
        BY <1>7, <2>1, <3>2, <4>1 DEF FoundAll, Accounted
      <4>3. CASE Logged(i)
        BY <2>1, <4>3 DEF Accounted, Logged
      <4>4. CASE ~Logged(i)
        <5>1. PICK g \in todo : g[1] = i /\ Countable(g)
          BY <4>2, <4>4
        <5>2. Countable(g)'
          BY <2>2, <3>2, <5>1 DEF Countable
        <5> QED
          BY <2>1, <5>1, <5>2 DEF Accounted
      <4> QED
        BY <4>3, <4>4
    <3> QED
      BY <3>1, <3>2
  <2> QED
    BY <1>7, <2>1, <2>3 DEF FoundAll
<1>8. CASE UNCHANGED vars
  BY <1>8 DEF vars, disk, writer, FoundAll, Accounted, Content, Recovering, Finalizing, Logged, Countable
<1> QED
  BY <1>0, <1>a, <1>1, <1>2, <1>3, <1>4, <1>5, <1>6, <1>7, <1>8

\* Once the session is closed or recovered, nothing but the marks changes: a
\* second recovery finds nothing to repair and no stray.
LEMMA ClosedStill ==
  ASSUME OnlyKills, LoopOK, LoopOK', KeepInv, ReadInv, CompleteInv, [Next]_vars,
         journal.recovered \/ journal.stopped
  PROVE  \/ UNCHANGED vars
         \/ /\ journal.recovered /\ ~journal.stopped /\ UNCHANGED <<wav, enc>>
            /\ \/ BeginRecovery \/ SkipFile \/ (RepairTail /\ pc' = "strays")
               \/ MarkRecovered \/ DiscardStop \/ Kill
<1> USE DEF LoopOK, TypeOK, ControlOK, CompleteInv
<1>0. \A i \in Idx : Content(i) => Logged(i)
  BY DEF Marked
<1>1. ~Active
  BY DEF Marked, LiveComplete, Active
<1>2. CASE journal.stopped
  <2>1. pc = "down"
    BY <1>2 DEF Marked
  <2> QED
    BY <1>2, <2>1 DEF Next, Live, Finalize, Recovery, Failure, WriteFrame, Flush, Drain,
       StopLoop, JournalSegment, JournalThenDiskCritical, StopCapture, KeepPlain, CreateEnc,
       WriteEnc, RemovePlain, BeginRecovery, RepairTail, RewriteTail, SkipFile, TakeStray,
       JournalStray, MarkRecovered, DiscardStop, FinalizeFails, Kill, WriterFails,
       CommandFails, PowerLoss, OnlyKills
<1>3. CASE ~journal.stopped
  <2>1. pc \in {"down", "repair", "strays", "discard"} /\ journal.recovered
    BY <1>3 DEF Marked
  <2>2. \/ UNCHANGED vars
        \/ BeginRecovery \/ RepairTail \/ SkipFile \/ TakeStray \/ MarkRecovered
        \/ DiscardStop \/ Kill
    BY <2>1 DEF Next, Live, Finalize, Recovery, Failure, WriteFrame, Flush, Drain,
       StopLoop, JournalSegment, JournalThenDiskCritical, StopCapture, KeepPlain, CreateEnc,
       WriteEnc, RemovePlain, RewriteTail, JournalStray, FinalizeFails, WriterFails,
       CommandFails, PowerLoss, OnlyKills
  <2>3. CASE RepairTail
    <3>1. ~NeedsRepair(seg)
      <4>1. pc = "repair"
        BY <2>3 DEF RepairTail
      <4>2. wav[seg].on /\ seg \in Idx
        BY <4>1 DEF ReadInv, TakenInv
      <4>3. Content(seg) => wav[seg].decl = wav[seg].data
        BY <1>0, <4>2 DEF ReadInv, HeaderInv, Settled
      <4> QED
        BY <4>2, <4>3 DEF NeedsRepair, Content
    <3> QED
      BY <1>3, <2>1, <2>3, <3>1 DEF RepairTail
  <2>4. ~TakeStray
    <3> SUFFICES ASSUME TakeStray PROVE FALSE
      OBVIOUS
    <3>1. PICK f \in todo : f[1] \notin known /\ Countable(f)
      BY DEF TakeStray
    <3>2. pc = "strays"
      BY DEF TakeStray
    <3>3. f[1] \in Idx /\ f \in Files
      BY DEF Files
    <3>4. Content(f[1])
      BY <3>1, <3>3 DEF Countable, Content, KeepInv, RecoveryFiles, Files, Forms
    <3> QED
      BY <1>0, <2>1, <3>1, <3>2, <3>3, <3>4 DEF Marked
  <2>5. CASE Kill
    <3>1. frames = 0
      BY <1>1 DEF LoopInv
    <3> QED
      BY <1>3, <2>1, <2>5, <3>1 DEF Kill, WavLeft
  <2>6. CASE BeginRecovery \/ SkipFile \/ MarkRecovered \/ DiscardStop
    <3>1. disk' = disk
      BY <2>6 DEF BeginRecovery, SkipFile, MarkRecovered, DiscardStop
    <3>2. wav' = wav /\ enc' = enc
      BY <3>1 DEF disk
    <3>3. journal.recovered /\ ~journal.stopped
      BY <1>3, <2>1
    <3> QED
      BY <2>6, <3>2, <3>3
  <2> QED
    BY <2>2, <2>3, <2>4, <2>5, <2>6
<1> QED
  BY <1>2, <1>3

\* When the session is closed or recovered, everything with content is recorded.
LEMMA ClosingIsComplete ==
  ASSUME LoopOK, KeepInv, ReadInv, CompleteInv, StopCapture \/ MarkRecovered, NEW i \in Idx,
         Content(i)
  PROVE  Logged(i)
<1> USE DEF LoopOK, TypeOK, ControlOK, CompleteInv
<1>1. CASE StopCapture
  <2>1. pc = "stop" /\ Active /\ journaled = closed /\ frames = 0
    BY <1>1 DEF StopCapture, LiveComplete, LoopInv, Active
  <2>2. ~(i > closed)
    BY <2>1 DEF ReadInv, OpenInv, Content
  <2>3. i <= journaled
    BY <2>1, <2>2 DEF Idx
  <2> QED
    BY <2>1, <2>3 DEF LiveComplete
<1>2. CASE MarkRecovered
  <2>1. pc = "strays" /\ todo = {}
    BY <1>2 DEF MarkRecovered
  <2>2. Recovering
    BY <2>1 DEF LoopInv, Active, Recovering
  <2> QED
    BY <2>1, <2>2 DEF FoundAll, Accounted, Finalizing
<1> QED
  BY <1>1, <1>2

LEMMA MarkedStep ==
  ASSUME OnlyKills, LoopOK, LoopOK', KeepInv, ReadInv, CompleteInv, [Next]_vars
  PROVE  Marked'
<1> USE DEF LoopOK, TypeOK, ControlOK, CompleteInv
<1>0. ~journal.torn /\ ~journal'.torn
  BY JournalMoves DEF Marked
<1>1. \A i \in known' : Logged(i)'
  <2>1. \A i \in Idx : Logged(i) => Logged(i)'
    BY <1>0, JournalMoves DEF Logged
  <2>2. known' = {} \/ known' = known \/ (known' = AlreadyJournaled /\ journal' = journal)
    BY DEF Next, Live, Finalize, Recovery, Failure, vars, WriteFrame, Flush, Drain,
       StopLoop, JournalSegment, JournalThenDiskCritical, StopCapture, KeepPlain, CreateEnc,
       WriteEnc, RemovePlain, BeginRecovery, RepairTail, RewriteTail, SkipFile, TakeStray,
       JournalStray, MarkRecovered, DiscardStop, FinalizeFails, Kill, WriterFails,
       CommandFails, PowerLoss, GoDown
  <2>3. CASE known' = AlreadyJournaled /\ journal' = journal
    BY <2>3 DEF AlreadyJournaled, Logged
  <2> QED
    BY <2>1, <2>2, <2>3 DEF Marked
<1>2. CASE journal.recovered \/ journal.stopped
  <2>1. CASE UNCHANGED vars
    BY <2>1 DEF vars, disk, writer, Marked, Content, Logged
  <2>2. CASE ~UNCHANGED vars
    <3>1. /\ journal.recovered /\ ~journal.stopped /\ UNCHANGED <<wav, enc>>
          /\ \/ BeginRecovery \/ SkipFile \/ (RepairTail /\ pc' = "strays")
             \/ MarkRecovered \/ DiscardStop \/ Kill
      BY <1>2, <2>2, ClosedStill
    <3>2. ~Recording /\ ~StopCapture
      BY <3>1 DEF BeginRecovery, RepairTail, SkipFile, MarkRecovered, DiscardStop, Kill,
         Recording, JournalSegment, JournalThenDiskCritical, JournalStray, StopCapture,
         Marked, LiveComplete, Active
    <3>3. \A i \in Idx : Logged(i)' <=> Logged(i)
      BY <1>0, <3>2, JournalMoves DEF Logged
    <3>4. journal'.recovered /\ \A i \in Idx : Content(i)' => Logged(i)'
      <4>1. journal'.recovered
        BY <1>0, <3>1, <3>2, JournalMoves
      <4> QED
        BY <3>1, <3>3, <4>1 DEF Marked, Content
    <3>5. journal'.stopped => pc' = "down"
      <4>1. journal'.stopped => DiscardStop
        BY <1>0, <3>1, <3>2, JournalMoves
      <4> QED
        BY <4>1 DEF DiscardStop
    <3>6. CASE BeginRecovery
      <4>1. pc' \in {"repair", "strays"} /\ known' = AlreadyJournaled
        BY <3>6 DEF BeginRecovery
      <4> QED
        BY <1>0, <1>1, <3>3, <3>4, <3>5, <4>1 DEF Marked, AlreadyJournaled, Logged
    <3>7. CASE (RepairTail /\ pc' = "strays") \/ SkipFile
      <4>1. pc \in {"repair", "strays"} /\ pc' = "strays" /\ known' = known
        BY <3>7 DEF RepairTail, SkipFile
      <4> QED
        BY <1>0, <1>1, <3>1, <3>3, <3>4, <3>5, <4>1 DEF Marked
    <3>8. CASE MarkRecovered \/ DiscardStop \/ Kill
      <4>1. pc' \in {"down", "discard"}
        BY <3>8 DEF MarkRecovered, DiscardStop, Kill, GoDown
      <4> QED
        BY <1>0, <1>1, <3>3, <3>4, <3>5, <4>1 DEF Marked
    <3> QED
      BY <3>1, <3>6, <3>7, <3>8
  <2> QED
    BY <2>1, <2>2
<1>3. CASE ~(journal.recovered \/ journal.stopped)
  <2>1. pc # "discard" /\ ~DiscardStop
    BY <1>3 DEF Marked, DiscardStop
  <2>2. CASE StopCapture \/ MarkRecovered
    <3>1. \A i \in Idx : Logged(i)' <=> Logged(i)
      BY <1>0, <2>2, JournalMoves
    <3>2. UNCHANGED <<wav, enc>>
      BY <2>2 DEF StopCapture, MarkRecovered, disk
    <3>3. \A i \in Idx : Content(i)' => Logged(i)'
      BY <2>2, <3>1, <3>2, ClosingIsComplete DEF Content
    <3>4. /\ StopCapture => pc' = "down"
          /\ MarkRecovered => pc' \in {"discard", "down"} /\ journal'.recovered
                                /\ ~journal'.stopped
      BY <1>0, <1>3, JournalMoves DEF StopCapture, MarkRecovered
    <3> QED
      BY <1>0, <1>1, <2>2, <3>3, <3>4 DEF Marked
  <2>3. CASE ~(StopCapture \/ MarkRecovered)
    <3>1. SameMarks
      BY <1>0, <2>1, <2>3, JournalMoves DEF SameMarks
    <3>2. pc' # "discard"
      BY <2>1, <2>3 DEF Next, Live, Finalize, Recovery, Failure, vars, WriteFrame, Flush,
         Drain, StopLoop, EndLoop, JournalSegment, NextSegment, JournalThenDiskCritical,
         KeepPlain, CreateEnc, WriteEnc, RemovePlain, BeginRecovery, RepairTail, RewriteTail,
         SkipFile, TakeStray, JournalStray, FinalizeFails, Kill, WriterFails, CommandFails,
         PowerLoss, GoDown
    <3> QED
      BY <1>0, <1>1, <1>3, <3>1, <3>2 DEF Marked, SameMarks
  <2> QED
    BY <2>2, <2>3
<1> QED
  BY <1>2, <1>3

LEMMA InOrderStep ==
  ASSUME OnlyKills, LoopOK, KeepInv, ReadInv, CompleteInv, [Next]_vars
  PROVE  InOrder'
<1> USE DEF LoopOK, TypeOK, ControlOK, CompleteInv
<1>0. ~journal.torn
  BY DEF Marked
<1>1. CASE ~Recording
  <2>1. \A i \in Idx : Logged(i)' <=> Logged(i)
    BY <1>0, <1>1, JournalMoves DEF Logged
  <2> QED
    BY <2>1 DEF InOrder
<1>2. CASE Recording
  <2>1. /\ pc = "journal"
        /\ \A i \in Idx : Logged(i)' <=> Logged(i) \/ i = seg
    BY <1>0, <1>2, JournalMoves
  <2>2. ASSUME NEW j \in Idx, j < seg PROVE Logged(j)
    <3>0. j \in Nat /\ seg \in Nat /\ closed \in Nat /\ journaled \in Nat
      BY DEF Idx
    <3>1. CASE Active
      <4>1. seg = journaled + 1
        BY <2>1, <3>1 DEF LoopInv, Finalizing
      <4>2. j <= journaled
        BY <2>2, <3>0, <4>1
      <4> QED
        BY <3>1, <4>2 DEF LiveComplete
    <3>2. CASE ~Active
      <4>1. Recovering /\ Finalizing
        BY <2>1, <3>2 DEF Active, Recovering, Finalizing
      <4>2. wav[seg].on \/ enc[seg].st # "none"
        BY <2>1 DEF ReadInv, TakenInv
      <4>3. j <= closed
        <5>1. ~(seg > closed + 1)
          BY <4>2 DEF ReadInv, OpenInv
        <5> QED
          BY <2>2, <3>0, <5>1
      <4>4. Content(j)
        <5>1. wav[j].on \/ enc[j].st = "whole"
          BY <3>0, <4>3 DEF KeepInv, ClosedFiles, Idx
        <5>2. wav[j].hdr
          BY <4>3 DEF ReadInv, HeaderInv, Settled
        <5> QED
          BY <5>1, <5>2 DEF Content
      <4>5. Accounted(j)
        BY <4>1, <4>4 DEF FoundAll
      <4>6. \A f \in todo : f[1] # j
        <5> SUFFICES ASSUME NEW f \in todo, f[1] = j PROVE FALSE
          OBVIOUS
        <5>1. f[1] >= seg
          BY <4>1 DEF FoundAll
        <5> QED
          BY <2>2, <3>0, <5>1
      <4> QED
        BY <2>2, <3>0, <4>5, <4>6 DEF Accounted
    <3> QED
      BY <3>1, <3>2
  <2> QED
    BY <2>1, <2>2 DEF InOrder
<1> QED
  BY <1>1, <1>2

LEMMA CompleteInit == Init => CompleteInv
  BY RecorderAssumption DEF Init, CompleteInv, LiveComplete, FoundAll, Marked, InOrder, Active,
     Recovering, Finalizing, Logged, Idx

LEMMA CompleteCorrect ==
  OnlyKills => (Spec => []LoopOK /\ []KeepInv /\ []ReadInv /\ []CompleteInv)
<1> SUFFICES ASSUME OnlyKills
             PROVE  Spec => []LoopOK /\ []KeepInv /\ []ReadInv /\ []CompleteInv
  OBVIOUS
<1>0. "power" \notin Faults
  BY DEF OnlyKills
<1>1. Spec => []LoopOK /\ []KeepInv /\ []ReadInv
  BY <1>0, ReadCorrect
<1>2. LoopOK /\ LoopOK' /\ KeepInv /\ ReadInv /\ CompleteInv /\ [Next]_vars => CompleteInv'
  <2> SUFFICES ASSUME LoopOK, LoopOK', KeepInv, ReadInv, CompleteInv, [Next]_vars
               PROVE  CompleteInv'
    OBVIOUS
  <2>1. LiveComplete' /\ FoundAll' /\ Marked' /\ InOrder'
    BY LiveCompleteStep, FoundStep, MarkedStep, InOrderStep
  <2> QED
    BY <2>1 DEF CompleteInv
<1> QED
  BY <1>1, <1>2, CompleteInit, PTL DEF Spec

\* A session that is closed by a stop, or recovered or discarded after any
\* number of kills, has every segment with audio in its journal (capture.rs,
\* recovery.rs), as long as files can be written.
THEOREM ClosedSessionIsComplete == OnlyKills => (Spec => []ClosedSessionComplete)
<1>1. LoopOK /\ ReadInv /\ CompleteInv => ClosedSessionComplete
  <2> SUFFICES ASSUME LoopOK, ReadInv, CompleteInv, journal.stopped \/ journal.recovered,
                      NEW i \in Idx, Readable(i) > 0
               PROVE  Logged(i)
    BY DEF ClosedSessionComplete, Logged
  <2>1. Content(i)
    BY DEF Readable, Content, ReadInv, HeaderInv
  <2> QED
    BY <2>1 DEF CompleteInv, Marked
<1> QED
  BY <1>1, CompleteCorrect, PTL

\* Frames the journal names stay as they are.
LEMMA LoggedStays ==
  ASSUME "power" \notin Faults, LoopOK, LoopOK', KeepInv, ReadInv, ReadInv', [Next]_vars,
         NEW i \in Idx, Logged(i), Logged(i)'
  PROVE  Readable(i)' = Readable(i)
<1> USE DEF LoopOK, TypeOK, ControlOK
<1>1. Readable(i) = wav[i].data /\ Readable(i)' = wav'[i].data
  BY DEF ReadInv, HeaderInv, LoggedInv, Content, Readable
<1>2. Active => i <= closed /\ i \in Nat /\ closed \in Nat
  <2>1. Active => i <= journaled /\ journaled <= closed
    BY DEF ReadInv, LoggedInv, LoopInv
  <2> QED
    BY <2>1 DEF Idx
<1>3. CASE wav' = wav
  BY <1>1, <1>3
<1>4. CASE WriteFrame \/ Flush \/ StopLoop \/ JournalThenDiskCritical
  <2>1. Active
    BY <1>4 DEF WriteFrame, Flush, StopLoop, JournalThenDiskCritical, LoopInv, Active
  <2>2. i # closed + 1
    BY <1>2, <2>1
  <2>3. \/ wav' = wav
        \/ \E w : wav' = [wav EXCEPT ![closed + 1] = w]
    BY <1>4 DEF WriteFrame, Flush, StopLoop, JournalThenDiskCritical, EndLoop, CloseOpen
  <2> QED
    BY <1>1, <2>2, <2>3 DEF FilesOK
<1>5. CASE RemovePlain
  <2>1. wav' = [wav EXCEPT ![seg].on = FALSE]
    BY <1>5 DEF RemovePlain
  <2>2. wav'[i].data = wav[i].data
    BY <2>1 DEF FilesOK, WavFile
  <2> QED
    BY <1>1, <2>2
<1>6. CASE RepairTail \/ RewriteTail
  <2>1. CASE i = seg
    <3>1. CASE RepairTail
      <4>1. ~NeedsRepair(seg)
        BY <2>1 DEF NeedsRepair, ReadInv, HeaderInv, Settled
      <4> QED
        BY <1>3, <3>1, <4>1 DEF RepairTail
    <3>2. ~RewriteTail
      BY <2>1 DEF RewriteTail, ReadInv, TakenInv
    <3> QED
      BY <1>6, <3>1, <3>2
  <2>2. CASE i # seg
    <3>1. wav'[i] = wav[i]
      BY <1>6, <2>2 DEF RepairTail, RewriteTail, FilesOK
    <3> QED
      BY <1>1, <3>1
  <2> QED
    BY <2>1, <2>2
<1>7. CASE Kill \/ WriterFails
  <2>1. wav'[i] = wav[i]
    <3>1. CASE wav' \in WavLeft
      <4>1. wav'[i] # wav[i] => i = closed + 1 /\ Active
        BY <3>1, LeftEffect DEF LoopInv
      <4> QED
        BY <1>2, <4>1
    <3>2. CASE wav' \notin WavLeft
      <4>1. WriterFails /\ Active /\ \E n : wav' = [wav EXCEPT ![closed + 1] = ValidWav(n)]
        BY <1>7, <3>2 DEF Kill, WriterFails, LoopInv, Active
      <4> QED
        BY <1>2, <4>1 DEF FilesOK
    <3> QED
      BY <3>1, <3>2
  <2> QED
    BY <1>1, <2>1
<1> QED
  BY <1>3, <1>4, <1>5, <1>6, <1>7 DEF Next, Live, Finalize, Recovery, Failure, vars, disk,
     writer, Drain, JournalSegment, StopCapture, KeepPlain, CreateEnc, WriteEnc, BeginRecovery,
     SkipFile, TakeStray, JournalStray, MarkRecovered, DiscardStop, FinalizeFails,
     CommandFails, GoDown, PowerLoss

ArchiveKept == [i \in Idx |-> Readable(i)]
ArchiveListed == {i \in Idx : journal.logged[i] > 0}
ArchiveState == IF journal.recovered THEN "recovered"
                ELSE IF journal.stopped THEN "stopped" ELSE "open"

LEMMA ArchiveBegins == Init => Archive!Init
<1> SUFFICES ASSUME Init PROVE Archive!Init
  OBVIOUS
<1>1. \A i \in Idx : Readable(i) = 0
  BY DEF Init, Readable, NoWav, NoEnc
<1>2. \A i \in Idx : ~(journal.logged[i] > 0)
  BY DEF Init
<1>3. ArchiveState = "open"
  BY DEF Init, ArchiveState
<1>4. ArchiveKept = [i \in Idx |-> 0] /\ ArchiveListed = {}
  BY <1>1, <1>2 DEF ArchiveKept, ArchiveListed
<1> QED
  BY <1>3, <1>4 DEF Archive!Init, ArchiveKept, ArchiveListed, ArchiveState

LEMMA ArchiveStep ==
  ASSUME OnlyKills, LoopOK, LoopOK', KeepInv, ReadInv, ReadInv', CompleteInv, CompleteInv',
         [Next]_vars
  PROVE  [Archive!Next]_(Archive!archive)
<1> USE DEF LoopOK, TypeOK, ControlOK
<1>0. "power" \notin Faults /\ ~journal.torn
  BY DEF OnlyKills, CompleteInv, Marked
<1>1. \A i \in Idx : Logged(i) => Logged(i)'
  BY <1>0, JournalMoves DEF Logged
<1>2. \A i \in Idx : Logged(i) => Readable(i)' = Readable(i)
  BY <1>0, <1>1, LoggedStays
<1>3. \A i \in Idx : Readable(i)' \in Frames
  BY RecorderAssumption DEF FilesOK, WavFile, EncFile, Frames, Readable
\* Nothing that the readers of the directory see has changed.
<1>a. ASSUME UNCHANGED <<wav, enc>>, \A i \in Idx : Logged(i)' <=> Logged(i),
             ArchiveState' = ArchiveState
      PROVE  [Archive!Next]_(Archive!archive)
  <2>1. ArchiveKept' = ArchiveKept /\ ArchiveListed' = ArchiveListed
    BY <1>a DEF ArchiveKept, ArchiveListed, Readable, Logged
  <2> QED
    BY <1>a, <2>1 DEF Archive!archive, ArchiveKept, ArchiveListed, ArchiveState
<1>4. CASE journal.recovered \/ journal.stopped
  <2>1. UNCHANGED <<wav, enc>>
    BY <1>4, ClosedStill DEF vars, disk
  <2>a. pc \in {"down", "repair", "strays", "discard"}
    BY <1>4 DEF CompleteInv, Marked
  <2>b. ~Recording /\ ~StopCapture
    BY <2>a DEF Recording, JournalSegment, JournalThenDiskCritical, JournalStray, StopCapture
  <2>c. MarkRecovered \/ DiscardStop \/ journal' = journal
    BY <1>0, <2>b, JournalMoves
  <2>2. \A i \in Idx : Logged(i)' <=> Logged(i)
    BY <1>0, <2>c, JournalMoves DEF Logged
  <2>3. ArchiveState' = ArchiveState
    <3>1. CASE journal.recovered
      <4>1. journal'.recovered
        BY <1>0, <2>c, <3>1, JournalMoves
      <4> QED
        BY <3>1, <4>1 DEF ArchiveState
    <3>2. CASE ~journal.recovered
      <4>1. UNCHANGED vars
        BY <1>4, <3>2, ClosedStill
      <4> QED
        BY <4>1 DEF vars, ArchiveState
    <3> QED
      BY <3>1, <3>2
  <2> QED
    BY <1>a, <2>1, <2>2, <2>3
<1>5. CASE ~(journal.recovered \/ journal.stopped)
  <2>1. ArchiveState = "open"
    BY <1>5 DEF ArchiveState
  <2>2. CASE StopCapture \/ MarkRecovered
    <3>1. UNCHANGED <<wav, enc>> /\ \A i \in Idx : Logged(i)' <=> Logged(i)
      BY <1>0, <2>2, JournalMoves DEF StopCapture, MarkRecovered, disk
    <3>2. ArchiveKept' = ArchiveKept /\ ArchiveListed' = ArchiveListed
      BY <3>1 DEF ArchiveKept, ArchiveListed, Readable, Logged
    <3>3. \A i \in Idx : ArchiveKept[i] > 0 => i \in ArchiveListed
      <4> SUFFICES ASSUME NEW i \in Idx, Readable(i) > 0 PROVE Logged(i)
        BY DEF ArchiveKept, ArchiveListed, Logged
      <4>1. Content(i)
        BY DEF Readable, Content, ReadInv, HeaderInv
      <4> QED
        BY <2>2, <4>1, ClosingIsComplete
    <3>4. ArchiveState' \in {"recovered", "stopped"}
      <4>1. journal'.recovered \/ journal'.stopped
        BY <1>0, <2>2, JournalMoves
      <4> QED
        BY <4>1 DEF ArchiveState
    <3> QED
      BY <2>1, <3>2, <3>3, <3>4 DEF Archive!Next, Archive!Recovered, Archive!Stopped,
         Archive!Complete, ArchiveKept, ArchiveListed, ArchiveState
  <2>3. CASE ~(StopCapture \/ MarkRecovered)
    <3>1. ArchiveState' = "open"
      <4>1. ~DiscardStop
        BY <1>5 DEF DiscardStop, CompleteInv, Marked
      <4>2. SameMarks
        BY <1>0, <2>3, <4>1, JournalMoves DEF SameMarks
      <4> QED
        BY <1>5, <4>2 DEF ArchiveState, SameMarks
    <3>2. ArchiveKept' \in [Idx -> Frames]
      BY <1>3 DEF ArchiveKept
    <3>3. /\ ArchiveListed' \in SUBSET Idx /\ ArchiveListed \subseteq ArchiveListed'
          /\ \A i \in ArchiveListed : ArchiveKept'[i] = ArchiveKept[i]
      BY <1>1, <1>2 DEF ArchiveListed, ArchiveKept, Logged
    <3>4. \A i \in ArchiveListed', j \in Idx : j < i => j \in ArchiveListed'
      BY DEF ArchiveListed, CompleteInv, InOrder, Logged
    <3> QED
      BY <2>1, <3>1, <3>2, <3>3, <3>4 DEF Archive!Next, Archive!Work,
         ArchiveKept, ArchiveListed, ArchiveState
  <2> QED
    BY <2>2, <2>3
<1> QED
  BY <1>4, <1>5

\* Recording, killing, finalizing and recovering a directory is, to the readers
\* of its journal, an archive that only grows until it is closed, and is complete
\* then (segment_writer.rs, capture.rs, crypto.rs, recovery.rs).
THEOREM RecorderIsArchive == OnlyKills => (Spec => ImplementsArchive)
<1> SUFFICES ASSUME OnlyKills PROVE Spec => ImplementsArchive
  OBVIOUS
<1>1. LoopOK /\ LoopOK' /\ KeepInv /\ ReadInv /\ ReadInv' /\ CompleteInv /\ CompleteInv'
        /\ [Next]_vars => [Archive!Next]_(Archive!archive)
  BY ArchiveStep
<1>2. Spec => []LoopOK /\ []KeepInv /\ []ReadInv /\ []CompleteInv
  BY CompleteCorrect
<1> QED
  BY <1>1, <1>2, ArchiveBegins, PTL DEF Spec, ImplementsArchive, Archive!Spec

-----------------------------------------------------------------------------
\* A record counts one more for the segment at hand; nothing else counts.
LEMMA RecordsMove ==
  ASSUME LoopOK, [Next]_vars
  PROVE  \/ journal'.logged = journal.logged
         \/ /\ Recording /\ pc = "journal"
            /\ journal'.logged[seg] = journal.logged[seg] + 1
            /\ \A i \in Idx : i # seg => journal'.logged[i] = journal.logged[i]
<1>1. CASE Recording
  <2>1. pc = "journal"
    BY <1>1 DEF Recording, JournalSegment, JournalThenDiskCritical, JournalStray
  <2>2. \/ Append(Completed(seg, StoredFrames, stored))
        \/ TornAppend
    BY <1>1 DEF Recording, JournalSegment, JournalThenDiskCritical, JournalStray, LiveJournal
  <2>3. CASE TornAppend
    BY <2>3, OtherRecords DEF SameRecords
  <2>4. CASE Append(Completed(seg, StoredFrames, stored))
    BY <1>1, <2>1, <2>4, NewRecord DEF SameRecords
  <2> QED
    BY <2>2, <2>3, <2>4
<1>2. CASE ~Recording
  <2>1. \/ UNCHANGED journal
        \/ TornAppend
        \/ Append([journal EXCEPT !.stopped = TRUE])
        \/ Append([journal EXCEPT !.recovered = TRUE])
    BY <1>2 DEF Next, Live, Finalize, Recovery, Failure, vars, WriteFrame, Flush, Drain,
     StopLoop, StopCapture, Recording, KeepPlain, CreateEnc, WriteEnc, RemovePlain, BeginRecovery,
     RepairTail, RewriteTail, SkipFile, TakeStray, MarkRecovered, DiscardStop, FinalizeFails,
     Kill, WriterFails, CommandFails, PowerLoss
  <2> QED
    BY <2>1, OtherRecords DEF SameRecords
<1> QED
  BY <1>1, <1>2

\* What a step of a recovery other than its first leaves of its lists.
LEMMA RecoveryNarrows ==
  ASSUME LoopOK, [Next]_vars, Recovering', ~BeginRecovery
  PROVE  Recovering /\ todo' \subseteq todo /\ known' = known
<1> USE DEF LoopOK, TypeOK, ControlOK, LoopInv
<1>1. ~StopLoop /\ ~JournalThenDiskCritical /\ pc' # "down"
  BY DEF StopLoop, JournalThenDiskCritical, EndLoop, Recovering
<1>2. mode' = mode /\ todo' \subseteq todo /\ known' = known
  BY <1>1 DEF Next, Live, Finalize, Recovery, Failure, vars, WriteFrame, Flush, Drain,
     JournalSegment, StopCapture, KeepPlain, CreateEnc, WriteEnc, RemovePlain, RepairTail,
     RewriteTail, SkipFile, TakeStray, JournalStray, MarkRecovered, DiscardStop,
     FinalizeFails, Kill, WriterFails, CommandFails, PowerLoss, GoDown
<1>3. pc # "down"
  BY <1>1 DEF Next, Live, Finalize, Recovery, Failure, vars, WriteFrame, Flush, Drain,
     JournalSegment, StopCapture, KeepPlain, CreateEnc, WriteEnc, RemovePlain, RepairTail,
     RewriteTail, SkipFile, TakeStray, JournalStray, MarkRecovered, DiscardStop,
     FinalizeFails, Kill, WriterFails, CommandFails, PowerLoss, GoDown
<1> QED
  BY <1>2, <1>3 DEF Recovering

LEMMA OnceInit == Init => OnceInv
  BY RecorderAssumption DEF Init, OnceInv, Active, Recovering, JournaledOnce, NoEnc

LEMMA OnceStep ==
  ASSUME Encrypt = FALSE, LoopOK, LoopOK', KeepInv, OnceInv, [Next]_vars
  PROVE  OnceInv'
<1> USE DEF LoopOK, TypeOK, ControlOK
<1>0. journal.logged \in [Idx -> Nat] /\ journal'.logged \in [Idx -> Nat]
  BY DEF JournalType
<1>1. \A i \in Idx : enc'[i].st = "none"
  <2>1. ~CreateEnc /\ ~WriteEnc
    BY DEF CreateEnc, WriteEnc, KeepInv, FinalizeFiles
  <2>2. CASE PowerLoss
    <3>1. PICK lost \in SUBSET loose :
            enc' = [i \in Idx |-> IF <<"enc", i>> \in lost
                                  THEN [st |-> "torn", data |-> 0] ELSE enc[i]]
      BY <2>2 DEF PowerLoss
    <3>2. \A i \in Idx : <<"enc", i>> \notin lost
      BY <3>1 DEF KeepInv, RecoveryFiles
    <3> QED
      BY <3>1, <3>2 DEF OnceInv
  <2>3. CASE ~PowerLoss
    <3>1. enc' = enc
      BY <2>1, <2>3 DEF Next, Live, Finalize, Recovery, Failure, vars, disk, WriteFrame, Flush,
       Drain, StopLoop, JournalSegment, JournalThenDiskCritical, StopCapture, KeepPlain,
       RemovePlain, BeginRecovery, RepairTail, RewriteTail, SkipFile, TakeStray, JournalStray,
       MarkRecovered, DiscardStop, FinalizeFails, Kill, WriterFails, CommandFails
    <3> QED
      BY <3>1 DEF OnceInv
  <2> QED
    BY <2>2, <2>3
<1>2. pc = "journal" => journal.logged[seg] = 0
  <2> SUFFICES ASSUME pc = "journal" PROVE journal.logged[seg] = 0
    OBVIOUS
  <2>1. CASE Active
    <3>1. seg = journaled + 1
      BY <2>1 DEF LoopInv, Finalizing
    <3>2. seg > journaled
      BY <3>1
    <3> QED
      BY <2>1, <3>2 DEF OnceInv
  <2>2. CASE ~Active
    BY <2>2 DEF Active, OnceInv, Recovering, Finalizing
  <2> QED
    BY <2>1, <2>2
<1>3. JournaledOnce'
  <2> SUFFICES ASSUME NEW i \in Idx PROVE journal'.logged[i] <= 1
    BY DEF JournaledOnce
  <2>1. CASE journal'.logged = journal.logged
    BY <2>1 DEF OnceInv, JournaledOnce
  <2>2. CASE journal'.logged # journal.logged
    BY <1>2, <2>2, RecordsMove DEF OnceInv, JournaledOnce
  <2> QED
    BY <2>1, <2>2
<1>4. (Active => \A i \in Idx : i > journaled => journal.logged[i] = 0)'
  <2> SUFFICES ASSUME Active', NEW i \in Idx, i > journaled' PROVE journal'.logged[i] = 0
    OBVIOUS
  <2>1. Active
    BY WriterOwns
  <2>2. CASE journal'.logged = journal.logged
    <3>1. journaled' = journaled \/ journaled' = journaled + 1
      BY DEF Next, Live, Finalize, Recovery, Failure, vars, writer, WriteFrame, Flush,
       Drain, StopLoop, JournalSegment, JournalThenDiskCritical, StopCapture, KeepPlain,
       CreateEnc, WriteEnc,
       RemovePlain, BeginRecovery, RepairTail, RewriteTail, SkipFile, TakeStray, JournalStray,
       MarkRecovered, DiscardStop, FinalizeFails, Kill, WriterFails, CommandFails, PowerLoss,
       GoDown
    <3>2. i > journaled
      BY <3>1 DEF Idx
    <3> QED
      BY <2>1, <2>2, <3>2 DEF OnceInv
  <2>3. CASE journal'.logged # journal.logged
    <3>1. /\ Recording /\ pc = "journal"
          /\ \A k \in Idx : k # seg => journal'.logged[k] = journal.logged[k]
      BY <2>3, RecordsMove
    <3>2. journaled' = journaled + 1 /\ seg = journaled + 1
      BY <2>1, <3>1 DEF Recording, JournalSegment, JournalThenDiskCritical, JournalStray,
         Active, LoopInv, Finalizing
    <3>3. i # seg /\ i > journaled
      BY <3>2 DEF Idx
    <3> QED
      BY <2>1, <3>1, <3>3 DEF OnceInv
  <2> QED
    BY <2>2, <2>3
<1>5. (Recovering => \A i \in Idx :
          /\ <<i, "enc">> \notin todo
          /\ <<i, "wav">> \in todo /\ i \notin known => journal.logged[i] = 0)'
  <2> SUFFICES ASSUME Recovering', NEW i \in Idx
               PROVE  /\ <<i, "enc">> \notin todo'
                      /\ <<i, "wav">> \in todo' /\ i \notin known' => journal'.logged[i] = 0
    OBVIOUS
  <2>1. CASE BeginRecovery
    <3>1. todo' = Listing /\ known' = AlreadyJournaled /\ journal' = journal
      BY <2>1 DEF BeginRecovery
    <3>2. <<i, "enc">> \notin Listing
      BY DEF Listing, OnceInv, Files
    <3>3. i \notin AlreadyJournaled => journal.logged[i] = 0
      BY <1>0 DEF AlreadyJournaled
    <3> QED
      BY <3>1, <3>2, <3>3
  <2>2. CASE ~BeginRecovery
    <3>1. Recovering /\ todo' \subseteq todo /\ known' = known
      BY <2>2, RecoveryNarrows
    <3>2. CASE journal'.logged = journal.logged
      BY <3>1, <3>2 DEF OnceInv
    <3>3. CASE journal'.logged # journal.logged
      <4>1. /\ pc = "journal"
            /\ \A k \in Idx : k # seg => journal'.logged[k] = journal.logged[k]
        BY <3>3, RecordsMove
      <4>2. <<seg, "wav">> \notin todo
        BY <3>1, <4>1 DEF OnceInv, Finalizing
      <4> QED
        BY <3>1, <4>1, <4>2 DEF OnceInv
    <3> QED
      BY <3>2, <3>3
  <2> QED
    BY <2>1, <2>2
<1>6. (Recovering /\ Finalizing => journal.logged[seg] = 0 /\ <<seg, "wav">> \notin todo)'
  <2> SUFFICES ASSUME Recovering', Finalizing'
               PROVE  journal'.logged[seg'] = 0 /\ <<seg', "wav">> \notin todo'
    OBVIOUS
  <2>0. ~BeginRecovery
    BY DEF BeginRecovery, Finalizing
  <2>1. Recovering /\ todo' \subseteq todo /\ known' = known
    BY <2>0, RecoveryNarrows
  <2>2. CASE TakeStray
    <3>1. PICK f \in todo : f[1] \notin known /\ seg' = f[1] /\ todo' = todo \ {f}
      BY <2>2 DEF TakeStray
    <3>2. f \in Files /\ journal' = journal
      BY <2>2 DEF TakeStray
    <3>3. f[1] \in Idx /\ f[2] \in Forms /\ f = <<f[1], f[2]>>
      BY <3>2 DEF Files
    <3>4. f[2] = "wav"
      BY <2>1, <3>1, <3>3 DEF OnceInv, Forms
    <3> QED
      BY <2>1, <3>1, <3>2, <3>3, <3>4 DEF OnceInv
  <2>3. CASE ~TakeStray
    <3>1. Finalizing /\ seg' = seg /\ ~Recording
      BY <2>0, <2>1, <2>3 DEF Next, Live, Finalize, Recovery, Failure, vars, WriteFrame, Flush,
       Drain, StopLoop, JournalSegment, JournalThenDiskCritical, StopCapture, KeepPlain,
       CreateEnc, WriteEnc, Recording,
       RemovePlain, RepairTail, RewriteTail, SkipFile, JournalStray,
       MarkRecovered, DiscardStop, FinalizeFails, Kill, WriterFails, CommandFails, PowerLoss,
       GoDown, LoopInv, Active, Recovering, Finalizing
    <3>2. journal'.logged = journal.logged
      BY <3>1, RecordsMove
    <3> QED
      BY <2>1, <3>1, <3>2 DEF OnceInv
  <2> QED
    BY <2>2, <2>3
<1> QED
  BY <1>1, <1>3, <1>4, <1>5, <1>6 DEF OnceInv

\* Without encryption at rest no segment gets two journal records, whatever
\* fails and however often recovery starts again: a record that could not be
\* read makes recovery record the segment anew, but a record that can be read
\* is found by the replay (journal.rs, recovery.rs journal_stray_segments).
THEOREM RecordedOnce == Encrypt = FALSE => (Spec => []JournaledOnce)
<1> SUFFICES ASSUME Encrypt = FALSE PROVE Spec => []JournaledOnce
  OBVIOUS
<1>1. Spec => []IInv
  BY IInvCorrect DEF SafeStorage
<1>2. LoopOK /\ LoopOK' /\ KeepInv /\ OnceInv /\ [Next]_vars => OnceInv'
  BY OnceStep
<1>3. OnceInv => JournaledOnce
  BY DEF OnceInv
<1> QED
  BY <1>1, <1>2, <1>3, OnceInit, PTL DEF Spec, IInv
=============================================================================
