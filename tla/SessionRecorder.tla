---------------------------- MODULE SessionRecorder ----------------------------
(***************************************************************************)
(* One track directory of one session: the consumer thread's segment       *)
(* writer (recorder/segment_writer.rs), what it does with a closed segment *)
(* (audio/capture.rs run_consumer, store/crypto.rs finalize_segment), the  *)
(* write-ahead journal (recorder/journal.rs) and the recovery of the       *)
(* directory after a failure (recorder/recovery.rs and the two IPC         *)
(* commands recover_session / discard_session).                            *)
(*                                                                         *)
(* Audio is counted in frames.  A segment is known by its index; on disk   *)
(* it is a plain WAV, an encrypted copy, or both.  What a crash leaves of  *)
(* bytes that were not fsynced is chosen by the environment.               *)
(***************************************************************************)
EXTENDS Naturals

CONSTANTS
  MaxSegments,  \* bound: the last segment index a session opens
  FrameLimit,   \* frames of a full segment (segment_frame_limit)
  Encrypt,      \* storage.encrypt_at_rest
  Faults,       \* the failures considered: process kill, power loss, error of
                \* the encryption, error of any other file operation
  MaxFaults     \* bound: how many failures happen

ASSUME RecorderAssumption ==
  /\ MaxSegments \in Nat \ {0}
  /\ FrameLimit \in Nat \ {0}
  /\ Encrypt \in BOOLEAN
  /\ Faults \subseteq {"kill", "power", "crypt", "io"}
  /\ MaxFaults \in Nat

Idx    == 1 .. MaxSegments
Frames == 0 .. FrameLimit
Forms  == {"wav", "enc"}
Files  == Idx \X Forms

VARIABLES
  pc,        \* what the process is about to do with this directory
  mode,      \* who finalizes segments: the live loop, its tail, recovery
  frames,    \* frames of the open segment in memory, 0 when none is open
  closed,    \* SegmentWriter::segments: indexes 1 .. closed are closed
  journaled, \* run_consumer's counter of segments already journaled
  seg,       \* the segment being finalized
  stored,    \* the form finalize_segment left it in
  todo,      \* recovery: files of the directory listing still to visit
  known,     \* recovery: segments the journal named when it was replayed
  keep,      \* recovery: frames the rewrite of the tail puts back
  wav,       \* the plain files
  enc,       \* the encrypted files
  loose,     \* file operations a power loss may still undo
  journal,   \* what replaying session.journal yields
  synced,    \* history: frames of a segment the live writer has fsynced
  faults     \* failures so far

writer == <<frames, closed, journaled, synced>>
disk   == <<wav, enc, loose>>
vars   == <<pc, mode, writer, seg, stored, todo, known, keep, disk, journal,
            faults>>

NoWav == [on |-> FALSE, hdr |-> FALSE, data |-> 0, decl |-> 0]
NoEnc == [st |-> "none", data |-> 0]

\* A WAV of n frames whose header says so.
ValidWav(n) == [on |-> TRUE, hdr |-> TRUE, data |-> n, decl |-> n]
\* A file just created (or truncated): not even a header has reached it.
EmptyWav == [on |-> TRUE, hdr |-> FALSE, data |-> 0, decl |-> 0]

Init ==
  /\ pc = "run" /\ mode = "live"
  /\ frames = 0 /\ closed = 0 /\ journaled = 0
  /\ seg = 1 /\ stored = "wav"
  /\ todo = {} /\ known = {} /\ keep = 0
  /\ wav = [i \in Idx |-> NoWav]
  /\ enc = [i \in Idx |-> NoEnc]
  /\ loose = {}
  /\ journal = [logged |-> [i \in Idx |-> 0], frames |-> [i \in Idx |-> 0],
                form |-> [i \in Idx |-> "wav"],
                recovered |-> FALSE, stopped |-> FALSE, torn |-> FALSE]
  /\ synced = [i \in Idx |-> 0]
  /\ faults = 0

(***************************************************************************)
(* The journal.  A record is one line, fsynced.  When the file ends in a   *)
(* fragment without a line end, the next record lands on the same line and *)
(* replay skips the line as unreadable.                                    *)
(***************************************************************************)
Append(new) ==
  journal' = IF journal.torn THEN [journal EXCEPT !.torn = FALSE] ELSE new

Completed(i, n, form) ==
  [journal EXCEPT !.logged[i] = @ + 1, !.frames[i] = n, !.form[i] = form]

Loosen(op) == loose' = IF "power" \in Faults THEN loose \cup {op} ELSE loose

-----------------------------------------------------------------------------
(***************************************************************************)
(* The live writer.                                                        *)
(***************************************************************************)

\* close_current: finalize the header and fsync the open segment of n frames.
CloseOpen(n) ==
  /\ wav' = [wav EXCEPT ![closed + 1] = ValidWav(n)]
  /\ synced' = [synced EXCEPT ![closed + 1] = n]
  /\ closed' = closed + 1
  /\ frames' = 0

SegmentFullLate == frames = FrameLimit    \* planted bug: off by one
\* The frame being written is the last one the open segment takes.
SegmentFull == frames + 1 = FrameLimit

\* write_samples, one frame: opens a segment lazily, rotates a full one.
WriteFrame ==
  /\ pc = "run"
  /\ closed < MaxSegments
  /\ IF SegmentFull
     THEN CloseOpen(frames + 1)
     ELSE /\ frames' = frames + 1
          /\ wav' = IF frames = 0 THEN [wav EXCEPT ![closed + 1] = EmptyWav]
                                  ELSE wav
          /\ UNCHANGED <<closed, synced>>
  /\ UNCHANGED <<pc, mode, journaled, seg, stored, todo, known, keep, enc,
                 loose, journal, faults>>

\* maybe_flush / flush_now: header, data and fsync of the open segment.
Flush ==
  /\ pc = "run" /\ frames > 0
  /\ wav' = [wav EXCEPT ![closed + 1] = ValidWav(frames)]
  /\ synced' = [synced EXCEPT ![closed + 1] = frames]
  /\ UNCHANGED <<pc, mode, frames, closed, journaled, seg, stored, todo,
                 known, keep, enc, loose, journal, faults>>

\* drain_completed returned closed segments: finalize them in order.
Drain ==
  /\ pc = "run" /\ journaled < closed
  /\ pc' = "encrypt" /\ seg' = journaled + 1
  /\ UNCHANGED <<mode, writer, stored, todo, known, keep, disk, journal,
                 faults>>

TailLeftStale(done) == done < closed     \* planted bug: before finalize()
\* Some of the segments finalize() returned are not journaled yet.
TailLeft(done) == done < closed'

\* The loop ends; SegmentWriter::finalize closes the open segment, and the
\* segments not journaled yet are finalized one by one.
EndLoop(done) ==
  /\ mode' = "final"
  /\ IF frames > 0 THEN CloseOpen(frames)
                   ELSE UNCHANGED <<wav, synced, closed, frames>>
  /\ IF TailLeft(done) THEN pc' = "encrypt" /\ seg' = done + 1
                       ELSE pc' = "stop" /\ UNCHANGED seg

\* The ring is empty and writer_stop is set.
StopLoop ==
  /\ pc = "run" /\ journaled = closed
  /\ EndLoop(journaled)
  /\ UNCHANGED <<journaled, stored, todo, known, keep, enc, loose, journal,
                 faults>>

-----------------------------------------------------------------------------
(***************************************************************************)
(* Finalizing segment `seg`: crypto::finalize_segment, used by the live    *)
(* writer and by recovery.  The encrypted copy is written, not fsynced,    *)
(* and then the plain file is removed.                                     *)
(***************************************************************************)

KeepPlain ==
  /\ pc = "encrypt" /\ ~Encrypt
  /\ stored' = "wav" /\ pc' = "journal"
  /\ UNCHANGED <<mode, writer, seg, todo, known, keep, disk, journal, faults>>

\* Planted bug: the plain file is removed before the copy is complete.
CreateEncUnlinkFirst ==
  /\ pc = "encrypt" /\ Encrypt
  /\ enc' = [enc EXCEPT ![seg] = [st |-> "torn", data |-> 0]]
  /\ wav' = [wav EXCEPT ![seg].on = FALSE]
  /\ pc' = "encrypting"
  /\ UNCHANGED <<mode, writer, seg, stored, todo, known, keep, loose, journal,
                 faults>>

\* fs::write creates or truncates the target first ...
CreateEnc ==
  /\ pc = "encrypt" /\ Encrypt
  /\ enc' = [enc EXCEPT ![seg] = [st |-> "torn", data |-> 0]]
  /\ pc' = "encrypting"
  /\ UNCHANGED <<mode, writer, seg, stored, todo, known, keep, wav, loose,
                 journal, faults>>

\* ... and then fills it.
WriteEnc ==
  /\ pc = "encrypting"
  /\ enc' = [enc EXCEPT ![seg] = [st |-> "whole", data |-> wav[seg].decl]]
  /\ Loosen(<<"enc", seg>>)
  /\ pc' = "unlink"
  /\ UNCHANGED <<mode, writer, seg, stored, todo, known, keep, wav, journal,
                 faults>>

RemovePlain ==
  /\ pc = "unlink"
  /\ wav' = [wav EXCEPT ![seg].on = FALSE]
  /\ Loosen(<<"rm", seg>>)
  /\ stored' = "enc" /\ pc' = "journal"
  /\ UNCHANGED <<mode, writer, seg, todo, known, keep, enc, journal, faults>>

Fault == faults < MaxFaults /\ faults' = faults + 1

\* An error anywhere in it leaves the segment a plain WAV; recording goes on.
FinalizeFails ==
  /\ "crypt" \in Faults /\ Fault
  /\ pc \in {"encrypting", "unlink"} \/ (pc = "encrypt" /\ Encrypt)
  /\ stored' = "wav" /\ pc' = "journal"
  /\ UNCHANGED <<mode, writer, seg, todo, known, keep, disk, journal>>

\* The frame count that goes with the form the segment is stored in.
StoredFrames == IF stored = "enc" THEN enc[seg].data ELSE wav[seg].decl

\* What a failed append may leave behind: nothing, or a fragment of a line.
TornAppend == journal' \in {journal, [journal EXCEPT !.torn = TRUE]}

\* The live writer journals the segment; a failed append is ignored.
LiveJournal ==
  \/ Append(Completed(seg, StoredFrames, stored)) /\ UNCHANGED faults
  \/ "io" \in Faults /\ Fault /\ TornAppend

NextSegment ==
  IF journaled + 1 < closed
  THEN pc' = "encrypt" /\ seg' = seg + 1
  ELSE pc' = (IF mode = "live" THEN "run" ELSE "stop") /\ UNCHANGED seg

JournalSegment ==
  /\ pc = "journal" /\ mode \in {"live", "final"}
  /\ LiveJournal
  /\ journaled' = journaled + 1
  /\ NextSegment
  /\ UNCHANGED <<mode, frames, closed, synced, stored, todo, known, keep,
                 disk>>

\* The disk check after a segment finds the critical threshold crossed: the
\* drain is abandoned where it is and the loop ends.
JournalThenDiskCritical ==
  /\ pc = "journal" /\ mode = "live"
  /\ LiveJournal
  /\ journaled' = journaled + 1
  /\ EndLoop(journaled + 1)
  /\ UNCHANGED <<stored, todo, known, keep, enc, loose>>

\* stop_capture: `Stopped` goes to the journal once the writer has returned.
StopCapture ==
  /\ pc = "stop"
  /\ Append([journal EXCEPT !.stopped = TRUE])
  /\ pc' = "down"
  /\ UNCHANGED <<mode, writer, seg, stored, todo, known, keep, disk, faults>>

-----------------------------------------------------------------------------
(***************************************************************************)
(* Recovery of a directory whose journal has no `Stopped`.                 *)
(***************************************************************************)

Before(f, g) ==
  f[1] < g[1] \/ (f[1] = g[1] /\ f[2] = "wav" /\ g[2] = "enc")

\* segment_files: every seg-*.wav and seg-*.wav.enc, sorted by name.
Listing ==
  {f \in Files : IF f[2] = "wav" THEN wav[f[1]].on ELSE enc[f[1]].st # "none"}

IsLast(f)  == f \in Listing /\ \A g \in Listing : f = g \/ Before(g, f)
IsFirst(f) == f \in todo /\ \A g \in todo : f = g \/ Before(f, g)

NothingJournaled == {}                   \* planted bug: the replay is ignored
AlreadyJournaled == {i \in Idx : journal.logged[i] > 0}

\* recover_in_place / discard_session on a directory scan_unfinished lists.
BeginRecovery ==
  /\ pc = "down" /\ ~journal.stopped
  /\ mode' \in {"recover", "discard"}
  /\ todo' = Listing
  /\ known' = AlreadyJournaled
  /\ IF \E i \in Idx : IsLast(<<i, "wav">>)
     THEN /\ pc' = "repair"
          /\ seg' \in {i \in Idx : IsLast(<<i, "wav">>)}
     ELSE pc' = "strays" /\ UNCHANGED seg
  /\ UNCHANGED <<writer, stored, keep, disk, journal, faults>>

RepairAnyTail(i) == wav[i].hdr           \* planted bug: rewrites valid files
\* The header of the tail does not give the size of what follows it.
NeedsRepair(i) == wav[i].hdr /\ wav[i].decl # wav[i].data

\* repair_last_segment reads the tail; nothing to do, or it is rewritten whole:
\* truncated first ...
RepairTail ==
  /\ pc = "repair"
  /\ IF NeedsRepair(seg)
     THEN /\ keep' = wav[seg].data
          /\ wav' = [wav EXCEPT ![seg] = EmptyWav]
          /\ pc' = "rewrite"
     ELSE pc' = "strays" /\ UNCHANGED <<keep, wav>>
  /\ UNCHANGED <<mode, writer, seg, stored, todo, known, enc, loose, journal,
                 faults>>

\* ... then written back with the right sizes, without an fsync.
RewriteTail ==
  /\ pc = "rewrite"
  /\ wav' = [wav EXCEPT ![seg] = ValidWav(keep)]
  /\ Loosen(<<"fix", seg>>)
  /\ pc' = "strays" /\ keep' = 0
  /\ UNCHANGED <<mode, writer, seg, stored, todo, known, enc, journal, faults>>

\* Planted bug: a WAV counts as readable whatever is in it.
CountableByName(f) == f[2] = "wav" \/ enc[f[1]].st = "whole"
\* segment_frames can read the file.
Countable(f) ==
  IF f[2] = "wav" THEN wav[f[1]].hdr ELSE enc[f[1]].st = "whole"

\* journal_stray_segments, one file: already journaled, or unreadable ...
SkipFile ==
  /\ pc = "strays"
  /\ \E f \in todo :
       /\ IsFirst(f)
       /\ f[1] \in known \/ ~Countable(f)
       /\ todo' = todo \ {f}
  /\ UNCHANGED <<pc, mode, writer, seg, stored, known, keep, disk, journal,
                 faults>>

\* ... or a stray: an open WAV is finalized, an encrypted file is taken as is.
TakeStray ==
  /\ pc = "strays"
  /\ \E f \in todo :
       /\ IsFirst(f)
       /\ f[1] \notin known /\ Countable(f)
       /\ seg' = f[1] /\ stored' = f[2]
       /\ pc' = IF f[2] = "wav" THEN "encrypt" ELSE "journal"
       /\ todo' = todo \ {f}
  /\ UNCHANGED <<mode, writer, known, keep, disk, journal, faults>>

JournalStray ==
  /\ pc = "journal" /\ mode \in {"recover", "discard"}
  /\ Append(Completed(seg, StoredFrames, stored))
  /\ pc' = "strays"
  /\ UNCHANGED <<mode, writer, seg, stored, todo, known, keep, disk, faults>>

MarkRecovered ==
  /\ pc = "strays" /\ todo = {}
  /\ Append([journal EXCEPT !.recovered = TRUE])
  /\ pc' = IF mode = "discard" THEN "discard" ELSE "down"
  /\ UNCHANGED <<mode, writer, seg, stored, todo, known, keep, disk, faults>>

\* discard_session closes the session after recovering it.
DiscardStop ==
  /\ pc = "discard"
  /\ Append([journal EXCEPT !.stopped = TRUE])
  /\ pc' = "down"
  /\ UNCHANGED <<mode, writer, seg, stored, todo, known, keep, disk, faults>>

-----------------------------------------------------------------------------
(***************************************************************************)
(* Failures.                                                               *)
(***************************************************************************)

\* What may be left of the open segment: its last flushed state, and any part
\* of what was written after that.
OpenLeft ==
  LET open == wav[closed + 1] IN
  {w \in [on : {TRUE}, hdr : BOOLEAN, data : open.data .. frames,
          decl : {open.decl}] :
     open.hdr \/ w.data > 0 => w.hdr}

WavLeft ==
  IF frames = 0 THEN {wav}
                ELSE {[wav EXCEPT ![closed + 1] = w] : w \in OpenLeft}

GoDown ==
  /\ pc' = "down" /\ mode' = "live" /\ frames' = 0
  /\ seg' = 1 /\ stored' = "wav" /\ todo' = {} /\ known' = {} /\ keep' = 0
  /\ UNCHANGED <<closed, journaled, synced>>

\* The process is killed; what it wrote to files stays written.
Kill ==
  /\ "kill" \in Faults /\ Fault
  /\ pc # "down"
  /\ wav' \in WavLeft
  /\ GoDown
  /\ UNCHANGED <<enc, loose, journal>>

\* A write or an fsync of the open segment fails: run_consumer returns the
\* error, stop_capture passes it on and the session stays without `Stopped`.
\* The WAV writer may still update the header when it is dropped.
WriterFails ==
  /\ "io" \in Faults /\ Fault
  /\ pc = "run" /\ frames > 0
  /\ \/ wav' \in WavLeft
     \/ \E n \in wav[closed + 1].data .. frames :
          wav' = [wav EXCEPT ![closed + 1] = ValidWav(n)]
  /\ GoDown
  /\ UNCHANGED <<enc, loose, journal>>

\* Writing to the journal or rewriting the tail fails: the command gives up.
CommandFails ==
  /\ "io" \in Faults /\ Fault
  /\ \/ pc \in {"stop", "discard"} /\ TornAppend
     \/ pc = "journal" /\ mode \in {"recover", "discard"} /\ TornAppend
     \/ pc = "strays" /\ todo = {} /\ TornAppend
     \/ pc \in {"repair", "rewrite"} /\ UNCHANGED journal
  /\ GoDown
  /\ UNCHANGED disk

\* Power loss: like a kill, and operations that were never fsynced may be
\* undone; a record being appended may be left as a fragment.
PowerLoss ==
  /\ "power" \in Faults /\ Fault
  /\ \E lost \in SUBSET loose, left \in WavLeft :
       /\ wav' = [i \in Idx |->
            [(IF <<"fix", i>> \in lost THEN EmptyWav ELSE left[i])
               EXCEPT !.on = left[i].on \/ <<"rm", i>> \in lost]]
       /\ enc' = [i \in Idx |-> IF <<"enc", i>> \in lost
                                THEN [st |-> "torn", data |-> 0] ELSE enc[i]]
  /\ loose' = {}
  /\ IF pc \in {"journal", "stop", "discard"} \/ (pc = "strays" /\ todo = {})
     THEN TornAppend ELSE UNCHANGED journal
  /\ GoDown

-----------------------------------------------------------------------------
Live == WriteFrame \/ Flush \/ Drain \/ StopLoop \/ JournalSegment
          \/ JournalThenDiskCritical \/ StopCapture

Finalize == KeepPlain \/ CreateEnc \/ WriteEnc \/ RemovePlain

Recovery == RepairTail \/ RewriteTail \/ SkipFile \/ TakeStray \/ JournalStray
              \/ MarkRecovered \/ DiscardStop

Failure == FinalizeFails \/ Kill \/ WriterFails \/ CommandFails \/ PowerLoss

Next == Live \/ Finalize \/ BeginRecovery \/ Recovery \/ Failure

Spec == Init /\ [][Next]_vars

\* The writer thread and a command that has been issued keep running; nothing
\* is assumed of the microphone, the operator or the failures.
FairSpec == Spec /\ WF_vars(Drain) /\ WF_vars(Finalize) /\ WF_vars(Recovery)
                 /\ WF_vars(JournalSegment \/ JournalThenDiskCritical)
                 /\ WF_vars(StopCapture)

-----------------------------------------------------------------------------
WavFile == [on : BOOLEAN, hdr : BOOLEAN, data : Frames, decl : Frames]
EncFile == [st : {"none", "torn", "whole"}, data : Frames]
JournalType == [logged : [Idx -> Nat], frames : [Idx -> Frames],
                form : [Idx -> Forms], recovered : BOOLEAN,
                stopped : BOOLEAN, torn : BOOLEAN]

ControlOK ==
  /\ pc \in {"run", "encrypt", "encrypting", "unlink", "journal", "stop",
             "repair", "rewrite", "strays", "discard", "down"}
  /\ mode \in {"live", "final", "recover", "discard"}
  /\ frames \in 0 .. FrameLimit - 1
  /\ closed \in 0 .. MaxSegments /\ journaled \in 0 .. MaxSegments
  /\ seg \in Idx /\ stored \in Forms
  /\ todo \subseteq Files /\ known \subseteq Idx /\ keep \in Frames
  /\ loose \subseteq {"enc", "rm", "fix"} \X Idx
  /\ synced \in [Idx -> Frames]
  /\ faults \in 0 .. MaxFaults

FilesOK == wav \in [Idx -> WavFile] /\ enc \in [Idx -> EncFile]

TypeOK == ControlOK /\ FilesOK /\ journal \in JournalType

\* Frames of segment i that can still be got from the directory.
Readable(i) ==
  IF enc[i].st = "whole" THEN enc[i].data
  ELSE IF wav[i].on THEN wav[i].data ELSE 0

(***************************************************************************)
(* A segment the live writer closed keeps all its frames through           *)
(* encryption, crashes and recovery (crypto.rs finalize_segment, recovery  *)
(* never rewrites a valid file).                                           *)
(***************************************************************************)
ClosedSegmentsKept ==
  \A i \in 1 .. closed : Readable(i) = synced[i]

(***************************************************************************)
(* Whatever the journal names can be read back: the stored file, or its    *)
(* encrypted copy, exists and holds the journaled number of frames.        *)
(***************************************************************************)
JournaledReadable ==
  \A i \in Idx : journal.logged[i] > 0 =>
    /\ Readable(i) = journal.frames[i]
    /\ journal.form[i] = "enc" => enc[i].st = "whole"
    /\ enc[i].st = "whole" \/ (wav[i].on /\ wav[i].hdr)

(***************************************************************************)
(* A session closed by a stop, or recovered, has every readable segment in *)
(* its journal: the manifest, the hash chain and the upload are built from *)
(* the journal and from nothing else.                                      *)
(***************************************************************************)
ClosedSessionComplete ==
  journal.stopped \/ journal.recovered =>
    \A i \in Idx : Readable(i) > 0 => journal.logged[i] > 0

\* No segment has two SegmentCompleted records.
JournaledOnce ==
  \A i \in Idx : journal.logged[i] <= 1

(***************************************************************************)
(* Every closed segment gets its journal record, from the live writer or   *)
(* from the command that recovers or closes the session, unless the        *)
(* process is killed meanwhile (and the session can be recovered again).   *)
(***************************************************************************)
ClosedEventuallyJournaled ==
  \A i \in Idx :
    i <= closed ~> journal.logged[i] > 0 \/ (pc = "down" /\ mode = "live")

(***************************************************************************)
(* The directory as its readers see it: SessionArchive.  A segment enters  *)
(* the archive with its journal record.                                    *)
(***************************************************************************)
Archive == INSTANCE SessionArchive WITH
  Ordered <- TRUE,
  kept   <- [i \in Idx |-> Readable(i)],
  listed <- {i \in Idx : journal.logged[i] > 0},
  state  <- IF journal.recovered THEN "recovered"
            ELSE IF journal.stopped THEN "stopped" ELSE "open"

\* The recorder implements the archive when the process may be killed and the
\* encryption may fail.
ImplementsArchive == Archive!Spec

(***************************************************************************)
(* Only the rewrite of the tail by recovery may lose fsynced frames.       *)
(***************************************************************************)
LossOnlyInRewrite ==
  [][\A i \in Idx : Readable(i) >= synced[i] /\ Readable(i)' < synced[i]'
       => pc = "repair" /\ pc' = "rewrite"]_vars
=============================================================================
