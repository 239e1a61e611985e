# A verification project for court-audio

The program records court hearings on an unattended workstation: it captures one or more audio
devices, cuts the sound into WAV segments, encrypts them, keeps a write-ahead journal per session,
recovers sessions after a failure, builds a manifest with a hash chain, and uploads finished
sessions to a server that recomputes the chain. It also plays recordings
back, exports them, deletes the local copy some time after the server has confirmed it, and decides
who may do what at the station. This directory holds TLA+ models of the parts of it where recordings can
be lost, left out or misreported and where somebody gets in who should not, the TLC configurations
that check the models, and proofs that the TLA+ proof system checks.

All paths below are relative to `src/src-tauri/src/` unless they say otherwise. Every definition that models
code is listed with its lines in `PROJECT.json` under `map`; the hazards the properties are aimed at
are listed there under `hazards`.

- [1 The system](#1-the-system)
- [2 Modules and how they correspond to the code](#2-modules-and-how-they-correspond-to-the-code)
- [3 Runs](#3-runs)
- [4 Fairness](#4-fairness)
- [5 What is proved](#5-what-is-proved)
- [6 Disagreements between the code and what is said of it](#6-disagreements-between-the-code-and-what-is-said-of-it)
- [7 What is not modelled](#7-what-is-not-modelled)
- [8 What could follow](#8-what-could-follow)

## 1 The system

### Threads

- The **audio callback** of each device (cpal) pushes interleaved samples into a ring and touches a heartbeat.
- One **consumer** thread per track drains the ring, writes segments, encrypts and journals them, and
  checks the disk after each.
- One **capture** thread per track owns the stream and obeys a command channel (Pause, Resume, Rekick, Stop).
- One **supervisor** thread per track polls for the device and watches the heartbeat.
- **Commands** of the user interface (start, pause, resume, stop, recover, discard, list sessions, retry
  upload, ...) run one at a time.
- The **scheduler** thread uploads what the manifest says is finished, over a database connection of its
  own, and asks for a new access token when an operator was let in without the server.
- While a recording is played, the **output device** pulls frames from the sources and one **reporting**
  thread per playback emits the position; both share only atomics with the commands.

They share: the ring (two counters and cells, no lock), the pause flag of a track (operator and
supervisor write it, supervisor reads it), the command channel of a track (operator and supervisor
send), stop flags, the session directory (live writer, recovery and manifest reconciliation), the
SQLite tables (commands and scheduler), the active operator (login commands and scheduler), the
settings file and the encrypted blobs beside it (each command reads them anew).

### Components

| Component | State it keeps | Operations | Hard behaviour | What makes it correct |
|---|---|---|---|---|
| Ring buffer (`audio/ring.rs`) | cells, head, tail, dropped | push_slice, pop_slice | lock-free; counters wrap; overflow | a bounded queue; no cell shared; every sample accounted for; frames stay whole |
| Capture pipeline (`audio/capture.rs` run_consumer, stop) | ring, stop flags, writer | callback, drain, journal, stop | stop races the callback; disk runs full; write error | what is taken is journaled; stop ends; only late frames stay behind |
| Segment writer (`recorder/segment_writer.rs`) | open segment, closed segments | write, flush, rotate, finalize | crash at any byte | closed segments survive |
| Encryption of segments (`store/crypto.rs`) | X.wav, X.wav.enc | finalize_segment | crash between copy and unlink; error half way | one of both forms holds all frames |
| Journal (`recorder/journal.rs`) | lines of session.journal | append, replay | failed or torn append | names what can be read, once, and all of it when the session is closed |
| Crash recovery (`recorder/recovery.rs`) | journal, files | scan, repair tail, journal strays, mark recovered; discard | interrupted and begun again | completes the journal, never damages what is closed |
| Capture control (`audio/capture.rs` CaptureSession, supervisor_loop; `recorder/multitrack.rs`; `reliability/*`; `ipc/audio_cmds.rs`) | pause flag, channel, stream, supervisor state | start, pause, resume, stop, status; loss, return, stall | operator and supervisor race; threads are joined one after the other | stop ends and is last; outage ends; flag and stream agree; transitions of session.rs |
| Session automaton (`recorder/session.rs`) | state, pause reason | apply(event) | none, a pure function | it is the specification of the above |
| Manifest reconciliation (`store/reconcile.rs`, `store/manifest.rs`, `ipc/query_cmds.rs`) | sessions, segments, tracks tables | reconcile_session at each listing | several statements, another thread reads in between; crash between them | chain intact at every moment; final link is the last link |
| Upload (`sync/*`, `ipc/sync_cmds.rs`) | upload_state, upload_parts, upload status | upload_session, verify, pause, resume, retry | lost answers, rejections, restarts, races with commands | sent is received; sent once; confirmed is verified; the queue empties |
| Multichannel layout (`audio/tracks.rs`, `recorder/multitrack.rs`) | tracks.json, directory per track | resolve, start | errors of the layout show at the start only | a start that may begin has its tracks |
| Annotations (`integrity/annotations.rs`, `store/annotations.rs`, `ipc/marker_cmds.rs`) | actions in memory, in the journal, in SQLite | add, edit, remove, speak, end; reconcile | append fails, power goes, copying is interrupted | what was acknowledged is kept; the chain verifies; one speaker |
| Player (`player/*`, `ipc/player_cmds.rs`) | automaton, engine, reporting thread, what is shown | open, select, play, pause, seek, close | reporter wakes after a seek; segments are damaged | position is the frame heard; one reporter |
| Export (`export/*`, `ipc/export_cmds.rs`) | package folder, events | permit, build, burn, verify | interrupted at any file; folder used before; copy removed meanwhile | logged as successful only when whole; markers inside the sound |
| Retention (`store/retention.rs`) | files, rows, mark | confirm, decide, safe_delete, sweep | interrupted and started over | nothing goes before its time; purged is gone |
| Operator login (`ipc/auth_cmds.rs`, `store/auth_cache.rs`, `store/operator_profile.rs`) | active session, cached session, profile | login, offline and autonomous unlock, refresh, logout | late answers, changed policy, clock, lost writes | a PIN opens its owner's session; an offline session comes online |
| Administrator gate and settings (`ipc/admin_cmds.rs`, `ipc/settings_gate.rs`, `store/settings_audit.rs`, `settings.rs`) | unlocked, settings.json, audit rows | unlock, lock, save, import | file before log; root that moves; crash | the gate holds; the log tells the settings |
| Self-test (`ipc/selftest_cmds.rs`) | none | build_report | decides apart from the start | agrees with the gates of the start |
| Mirror, case binding, conversion, windows | | | | not modelled, see 7 |

### Interactions

callback → ring → consumer → segment file → encrypted file → journal → (recovery →) manifest → upload
→ confirmation. Each arrow is a place where two parties have different ideas of what is durable or
finished; the models follow this chain. `SessionArchive` is the joint between recorder and manifest:
what the recorder and recovery promise, and all that reconciliation relies on. A finished session is then
what `SessionStore` says, a row with its segments, files and events, which player, export and retention
share. The markup takes the same way beside the segments: memory, journal, SQLite, package. Settings
and login stand before the chain: they decide whether a recording may begin, and `StationAccess` joins them.

## 2 Modules and how they correspond to the code

| Module | Models | Abstract specification |
|---|---|---|
| `SessionArchive` | the promise of a session directory to its readers | is one |
| `SessionRecorder` | segment writer, finalize_segment, journal, recovery of one directory | implements `SessionArchive` |
| `SessionRecorder_proof` | its theorems, the refinement of `SessionArchive` among them | |
| `MCSessionRecorder` | names the instances TLC checks | |
| `SessionMachine` | recorder/session.rs, every transition | is one |
| `CaptureControl` | operator commands, supervisors, capture threads of N tracks | implements `SessionMachine` |
| `CaptureControl_proof` | its theorems, the refinement of `SessionMachine` among them | |
| `BoundedQueue` | what a ring promises | is one |
| `CaptureRing` | push_slice and pop_slice, one memory access per step | implements `BoundedQueue` |
| `CapturePipeline` | callback, consumer and stop of one track | uses `BoundedQueue` as its ring |
| `ManifestSync` | reconciliation and upload of one session | uses `SessionArchive` as its directory |
| `CaptureRing_proof`, `CapturePipeline_proof`, `ManifestSync_proof` | their theorems, the refinement of `BoundedQueue` among them | |
| `Annotations` | markers and speakers: memory, journal, SQLite, folding | |
| `Annotations_proof` | its theorems | |
| `Timeline` | the axis of frames of a track and the ways into it | |
| `SessionStore` | a finished session as the next three share it | |
| `Playback` (`MCPlayback`) | the player's commands, sources, device and reporting threads | |
| `ExportPackage` | packages, their log, discs | |
| `Retention` | confirmation, policy, removal | |
| `Copying` (`MCCopying`) | export and retention over one session | |
| `SessionStore_proof` | the theorems of `Playback` and of `Copying`, which share `SessionStore` and `Timeline` | |
| `SettingsRegistry` | the settings with their defaults, and what follows from them alone | |
| `StationFiles` | settings.json and the encrypted blobs; a start of the program | |
| `OperatorLogin` | who is at the station | |
| `SettingsGate` | saves, imports, the administrator's access, the log | |
| `StationAccess` (`MCStationAccess`) | the two together, with the gates of a start and the self-test | |
| `StationAccess_proof` | its theorems | |

`CapturePipeline` composes with `CaptureRing` through `BoundedQueue`, `ManifestSync` with
`SessionRecorder` through `SessionArchive`: the detailed module implements the abstract one (a run),
and the composing module instantiates the abstract one. `Copying` and `StationAccess` are
compositions by conjunction: each step is a step of one part that leaves the other's variables alone.

**SessionRecorder.** Audio is counted in frames. A segment's plain file is a record: it exists, it
has a header, it holds `data` frames, its header declares `decl`. Its encrypted copy is absent, torn
or whole. `frames`, `closed`, `journaled` are the writer's open segment, `SegmentWriter::segments` and
the counter of run_consumer. `pc` and `mode` say which file operation comes next and whether the live
loop, its tail (after finalize()), recover_session or discard_session does it; finalize_segment is one
set of actions used by all of them, as in the code. Failures: `Kill` (what was written stays
written, the open segment may hold any part of what followed its last flush), `PowerLoss` (any set of
operations that were never fsynced is undone: the encrypted copy, the unlink, the rewritten tail; a
record being appended may be a fragment), `FinalizeFails`, `WriterFails`, `CommandFails` and a failed
append of the live writer. A torn journal is the flag `torn`: the next record lands on the torn line
and is skipped with it, as replay does. After a failure the process is `down`; recovery may begin, be
interrupted, and begin again.

**CaptureControl.** One command of the operator at a time, with a step for each flag store, channel
send and join, track by track as MultiCapture does. The supervisor's loop is cut at each point where
it reads or writes something shared: poll, check-and-set of the pause flag, send, load of the flag,
age of the heartbeat, rekick, wait or stop signal. The capture thread takes one command at a time. The
heartbeat has an age of fresh or stale; it becomes stale only while nothing is delivered. The device
is present or not for the supervisor's poll and for the stream alike. A failed start takes down
what it started and is no step.

**CaptureRing.** `head` and `tail` are counters modulo `Modulus` (2^64 or 2^32 in the build); the
counter loads, each cell access and the counter stores are separate steps, of one producer and one
consumer. The memory order (acquire and release) makes a load see everything before the store it
reads from, which is what interleaving of single accesses expresses.

**CapturePipeline.** The ring is a `BoundedQueue`. The consumer's loop is cut between pop, write,
drain, the look at the stop flag, `finalize` and the tail loop. The disk check's verdict, a write error and the
failure of an append to the journal are choices. `journaled` is the count of the code, which goes up whatever became
of the append; `records` are the segments the journal really has a readable record of. A failed append may leave a
fragment (`torn`), and then the next record, of whoever writes it (`OtherRecord`), is lost on its line. `missed` names, as
history, the segments whose record was lost, and `late` counts the frames that arrived after the consumer's last empty pop.

**ManifestSync.** A link of the chain is the sequence of segments hashed into it. Each SQL statement
is one step; a command's reads and writes are steps of their own, between which the scheduler's steps
come. A request may fail, with or without effect on the server; a part may be rejected; the program may
be restarted, which forgets everything but the tables. `SendPart` is a part that is accepted and marked;
`SendInVain` is every way in which the parts of a batch are sent and not marked: no answer, an answer behind the one of a
rejected part, which the code does not look at, and a stop of the program between answer and mark. `sends` counts, as
history, how often each part was sent. The server's check is the recomputation of
the chain from what was announced. `MultiTrack` makes the segments those of a track directory, which
the segment count of the root journal does not include; `Gaps` lets the directory list a segment
later than its successors.

**Annotations.** Each action of the operator becomes numbered records chained to the last one in memory;
`Record` is `AnnotationState::record` called once for each of them. An append that fails may have left
nothing, a torn line, a line without its end, or the whole line (only the fsync failed); after it the
program runs on or the power goes. `Settled` is what the next line does to the end of the file.
`Reconcile` copies any number of the first actions; what is in the table already stays as it is (`Inserted`).
A link of the chain is the sequence of bodies it hashes (`NextLinks`). `Fold` is what the manifest and the window make of the
actions. `spoilt` remembers that an append failed, left something and the program ran on: the
properties end there (section 6).

**Timeline, SessionStore.** Rows are put end to end in the order of their index; the two ways in are
by frame (`Locate`, with the binary search's freedom between empty segments) and by the wall clock
(`FrameAtWallClock`). `Build` takes the rows in the order of their index, each behind the sum of those before it; `Axis` says what
that comes to, segments end to end from frame 0 to `total`. `SessionStore` has the row of the session, its segments, its files, which of them are
damaged, and its log. Every command of the three modules above it reconciles first (`Reconciles`).
A row is known by its track and index, the primary key of the table (`SessionAssumption`). `OnlyLastEmpty` (a segment is
closed when it is full, so that only the last one of a track can be empty) is what one theorem asks of a recording besides.

**Playback.** One action per command, under the player's lock; the device's pull and the reporter's two
halves (look at the flag, then emit) are steps of their own. A reporter keeps the counter of its engine
when the engine is dropped (`Detach`), as the `Arc` in the code does. `NextAt` passes over what cannot be decoded.

**ExportPackage, Retention, Copying.** A package is a sequence of writes to named files; building it is one
step that ends after any number of them, the next one cut short perhaps (`WritesOf` says how many a file takes). `JoinedFrames` is what
can be read of a track's segments, one after the other; `FileEntries` are the files the manifest lists. A failed export leaves its files
for the next one in the same folder. `SafeDelete` ends after any file of the rows in their order, after the rows, or after the mark.

**SettingsRegistry, StationFiles, OperatorLogin, SettingsGate, StationAccess.** The registry keeps of each
group the parameters a decision branches on; `IsSettings` is what its type guarantees of settings read from anywhere. What the
window or an imported profile brings is some edit of the settings in force (`Edits`, `Edited`); the run throws switches. A PIN is the person whose it is. `Boot` seeds the settings
and provisions the blobs, for each environment the program may be started in. The silent refresh is two
steps when the scheduler does it (copy the token; put the answer on whoever is active) and one when the
window does. A save is judged, written and logged; `SaveCutShort` is the loss of power in it. What is only in
memory goes with the program (`Leave`).

## 3 Runs

The sizes are the distinct states TLC finds.

| Run | Instance | Checks | States |
|---|---|---|---|
| RecorderKill | 3 segments of 3 frames, encrypted, 3 kills or encryption errors | TypeOK, ClosedSegmentsKept, JournaledReadable, ClosedSessionComplete, LossOnlyInRewrite, ImplementsArchive, ClosedEventuallyJournaled | 139,174 |
| RecorderPower | 2 segments of 3 frames, plain, 3 power losses, kills or I/O errors | JournaledOnce | 15,741 |
| ControlStop | 2 tracks, 1 loss or stall, 1 pause or resume | StopIsLast, StopCompletes | 268,576 |
| ControlOutage | 1 track, 3 losses, no operator pause | FlagMatchesStream, OutageEnds, ImplementsMachine | 24,380 |
| RingWraps | capacity 4, stereo, counters modulo 8, blocks up to 5, 16 samples | NoSharedCell, NothingUnaccounted, ChannelsInPlace, ImplementsQueue | 8,356 |
| PipelineStop | ring of 3, segments of 2, blocks up to 2, 8 frames, full disk, write errors and failing appends | TakenIsJournaled, OnlyLateFramesLeft, StopEnds | 133,060 |
| SyncFaults | 2 segments, all commands, 2 faults of any kind | ChainIntact, SentIsReceived, ResentOnlyAfterFault | 1,470,926 |
| SyncQueue | 2 segments of a track, late segments, listing, 2 failures of requests other than verify | FinalLinkSet, ConfirmedIsVerified, QueueEmpties | 375,094 |
| PlayerUse | 2 tracks of 3 and 4 frames with a pause and an empty segment, 4 commands, 2 damaged segments, 2 reporting threads | PositionIsFrame, ReporterIsCurrent | 234,099 |
| ExportUse | 2 tracks with a pause, 3 commands, FLAC, 1 failed export, 1 damaged segment, both retention modes | MarkersInsideRecording, KeptUntilConfirmed, PurgedIsGone, OkMeansWhole | 45,956 |
| AccessUse | station without settings or delivered with some, 2 starts, 2 saves of 5 kinds, an operator and the hall's, 1 fault | PinOfTheOwner, LogTellsTheSettings, ReadyPassesTheGates, GateHolds, OfflineComesOnline | 174,596 |
| MarkupUse | 4 actions, 2 faults, every way an append may fail | AcknowledgedIsKept, RowsVerify, OneSpeaker | 1,261,441 |

As assumptions TLC evaluates before the first state, ExportUse also has `OnlyLastEmpty`, the hypothesis of a theorem of
section 5, and AccessUse has `DeliveryAssumption`.

What they show:

- *A segment, once closed, is safe* from kills and from errors of the encryption, and, when it is not encrypted, from
  power losses (`ClosedSegmentsKept`). What the journal names can be read, in the form and length
  named (`JournaledReadable`), and a session closed or recovered leaves nothing out
  (`ClosedSessionComplete`). The directory behaves like `SessionArchive`. The only
  step that loses fsynced frames at all is recovery's truncating rewrite (`LossOnlyInRewrite`).
- *Recovery may be interrupted and begun again*: plain segments are still journaled once (`JournaledOnce`).
- *A stop ends* whatever the devices do, and nothing is behind it in a channel (`StopCompletes`,
  `StopIsLast`): joining the supervisor first is what guarantees it.
- *An outage ends*, and the pause flag and the stream agree after every loss, return and restart
  (`OutageEnds`, `FlagMatchesStream`), in steps session.rs allows (`ImplementsMachine`).
- *The ring is a queue* that drops whole frames and counts them, across the wrap of its counters.
- *The consumer gives up nothing it took*, also when it leaves the drain half way for a full disk: loop and tail loop
  together give every segment one record, in order. An append that fails costs the record of its own segment (and a
  fragment the one behind it), never of another, and none is written twice (`TakenIsJournaled`). That it costs one at
  all is a loss the code accepts (`NothingMissed`, section 6).
- *The upload is safe to interrupt*: a part marked sent is on the server; a part is sent once, and once more for
  each fault at the most, although a reconciliation may write an old row back between (`ResentOnlyAfterFault`); the
  chain is right at every moment the scheduler may read it; a recording is confirmed only if the server
  has what was announced and found its chain right, and it leaves the queue in the end.
- *The position shown is the frame heard* as long as nothing is damaged, and never ahead of it otherwise
  (`PositionIsFrame`); no thread left over from before a seek goes on reporting (`ReporterIsCurrent`).
- *An export is logged as successful only when it is whole*, whatever was in its folder, and its markers
  lie inside the sound although pauses have no frames (`OkMeansWhole`, `MarkersInsideRecording`). *Nothing
  local goes before the server has confirmed it* and the window has passed, and a purge, interrupted and
  started over, leaves nothing (`KeptUntilConfirmed`, `PurgedIsGone`).
- *A PIN opens the session of its owner* whatever the policy was when it was kept (`PinOfTheOwner`); the
  administrator's settings change only through the administrator, saves and imports being judged by the
  settings in force (`GateHolds`); what the log tells is what the file says (`LogTellsTheSettings`); the
  self-test and the start agree about login and key (`ReadyPassesTheGates`); an offline session gets its
  token once the server answers (`OfflineComesOnline`).
- *No acknowledged marker is lost* to later records, failures or a loss of power, what is in SQLite verifies
  at every moment, and there is one speaker although a handover is several appends (`AcknowledgedIsKept`,
  `RowsVerify`, `OneSpeaker`).

### Bounds, and why they are enough

- `MaxSegments`, `FrameLimit`: three segments are a first, a middle and a last, which is what sorting,
  draining in order and "the last is the tail" distinguish; three frames let a segment be empty, partly
  flushed and full. The proofs of section 5 need no bound.
- `MaxFaults` (recorder): three failures interrupt recording, its recovery, and the recovery after
  that; a fourth finds the same kinds of directory.
- `MaxCommands`, `MaxSurprises` (control): a pause, a loss or stall, and a stop interleave in every
  order with one of each; the races of section 6 need no more. Three losses make the supervisor go
  through its loop with either value of each of its flags.
- `N`: two tracks, since the tracks have nothing in common but the operator's loop over them.
- Ring: `Modulus` is twice the capacity, so the counters wrap twice within 16 samples; blocks longer
  than the capacity overflow an empty ring; two channels tear if a frame can.
- Pipeline: eight frames fill the ring, overflow it, and make up to four segments.
- Sync: two segments have a predecessor and a successor; two faults hit a retry of what failed before.
- Player: four commands are an opening, a start and any two more; the tracks differ in length, one has a
  pause and one an empty segment, which is all that `Locate` and `NextAt` distinguish. A reporter that
  was told to end and one that was not are two.
- Export: three commands are an export, one into the same folder and a burning; the clock needs to show
  before and after the window. One failure leaves a folder behind that a later export finds.
- Access: two starts, since the third finds what the second left; two saves, one of which may switch off
  what judges the other; the clock shows an hour inside and one outside of the window of a cached session.
- Markup: four actions are a marker edited and removed, or two speakers with the end between them; the
  second fault falls on what the first left in the file.

Deadlock is not checked: every model has states in which the program really waits for the operator
or is finished (a stopped session, an empty queue).

## 4 Fairness

Weak fairness, only of steps a thread takes on its own:

- SessionRecorder: the consumer thread goes on draining, finalizing and journaling (it is a loop with a
  sleep), and a stop or recovery command that was issued goes on. Nothing is assumed of the microphone,
  of the operator, or of a next start after a failure: `ClosedEventuallyJournaled` therefore allows the
  session to stay down.
- CaptureControl: supervisors (a loop with a timed wait), capture threads (a blocking receive), the
  audio callback while the stream delivers, the ageing of a heartbeat while it does not, and the
  operator's command once it has begun. Not the buttons, not the devices: `OutageEnds` assumes in its own
  premise that the devices stay plugged in.
- CapturePipeline: consumer, capture thread and the stop command. Not the callback, nor those who write other records.
- ManifestSync: the scheduler polls (its thread loops for as long as the application runs) and a command
  goes on. Faults are bounded, which stands for "failures cease": `QueueEmpties` says what happens then.
- StationAccess: the scheduler asks on every pass, and its request is answered in the end (`LoginFairness`).
  Nothing is assumed of operators, saves or starts; `OfflineComesOnline` says nothing of a station that is
  left, or has no server.

CaptureRing, Playback, Copying and Annotations have safety properties only and no fairness. Weak fairness is enough everywhere: none of these steps is disabled again and again by another one.

## 5 What is proved

Each theorem holds for every value of the constants that satisfies the named assumption of the module,
unless a hypothesis is stated. A hypothesis is there because section 6 shows an instance where the
property fails without it, or says of a parameter what the type of the settings or the recorder guarantees in the code
(`OnlyLastEmpty`, `EditsAreSettings`, `EditsKeepRoots`). Every safety property the runs check has its theorem.

| Theorem | Property | Hypothesis |
|---|---|---|
| SessionRecorder_proof TypeCorrect | `TypeOK` | |
| ClosedKept | `ClosedSegmentsKept` | `SafeStorage` |
| JournalTellsTheTruth | `JournaledReadable` | no power loss |
| OnlyRewriteLoses | `LossOnlyInRewrite` | no power loss |
| ClosedSessionIsComplete | `ClosedSessionComplete` | `OnlyKills` |
| RecorderIsArchive | `ImplementsArchive` | `OnlyKills` |
| RecordedOnce | `JournaledOnce` | plain segments |
| CaptureControl_proof StopLeavesNothing | `StopIsLast` | |
| SupervisorKeepsAgreement | `FlagMatchesStream` | `NoOperatorPause` |
| ControlIsLegal | `ImplementsMachine` | `NoOperatorPause` |
| OperatorIsLegal | `ImplementsMachine` | `NoLoss` |
| CaptureRing_proof CellsNeverShared | `NoSharedCell` | |
| EverySampleCounted | `NothingUnaccounted` | |
| RingIsAQueue | `ImplementsQueue` | |
| ChannelsStayInPlace | `ChannelsInPlace` | `WholeFrames` |
| CapturePipeline_proof TakenJournaled | `TakenIsJournaled` | |
| NothingIsMissed | `NothingMissed` | `AppendsSucceed` |
| LateFramesOnly | `OnlyLateFramesLeft` | |
| ManifestSync_proof PartsReceived | `SentIsReceived` | |
| PartsSentOncePerFault | `ResentOnlyAfterFault` | |
| ConfirmedMeansVerified | `ConfirmedIsVerified` | |
| ChainAtEveryMoment | `ChainIntact` | no `Gaps` |
| FinalLinkIsSet | `FinalLinkSet` | no crash |
| Annotations_proof NoActionIsLost | `AcknowledgedIsKept` | |
| TableVerifies | `RowsVerify` | |
| OneAtATime | `OneSpeaker` | |
| SessionStore_proof NothingGoesEarly | `KeptUntilConfirmed` | |
| PurgeIsComplete | `PurgedIsGone` | |
| OneReporter | `ReporterIsCurrent` | |
| PositionIsTheFrame | `PositionIsFrame` | |
| MarkersStayInside | `MarkersInsideRecording` | `OnlyLastEmpty` |
| LoggedMeansWhole | `OkMeansWhole` | |
| StationAccess_proof GateKept | `GateHolds` | |
| LogIsTrue | `LogTellsTheSettings` | `EditsAreSettings` |
| OwnPinOnly | `PinOfTheOwner` | `EditsAreSettings`, `EditsKeepRoots` |
| ReadyMeansOpen | `ReadyPassesTheGates` | `EditsAreSettings` |

**`SessionRecorder_proof`**, for every number of segments, segment length, set and number of failures,
from `RecorderAssumption` alone (the constants have their types):

- **TypeCorrect**: `Spec => []TypeOK`. The type is not inductive by itself: that `closed` stays within
  `MaxSegments` when the loop ends needs to know that a segment is open only below the bound, that the
  writer, not recovery, is at work then, and that the segment being finalized is the one after
  the last journaled. `LoopInv` says so.
- **ClosedKept**: `SafeStorage` implies `Spec => []ClosedSegmentsKept`, where `SafeStorage` says that power is not cut or
  segments are not encrypted.
- **JournalTellsTheTruth**, **OnlyRewriteLoses**: without power losses, but with kills, torn appends, I/O
  and encryption errors, what is journaled can be read in the form and length named, and only recovery's
  rewrite takes frames away that were readable.
- **ClosedSessionIsComplete**, **RecorderIsArchive**: when the only failures are kills and errors of the encryption, a
  session marked closed or recovered has journaled all its content, and every step of the recorder is
  a step of `SessionArchive` or leaves its three variables alone.
- **RecordedOnce**: when segments are not encrypted, a segment is journaled once, whatever fails.

The inductive invariant of ClosedKept is `IInv`, `LoopOK` and four parts. `ClosedFiles`: a closed
segment is whole in one of its two forms and neither form that counts is wrong. To keep it, removing the plain file must
come after a whole copy (`FinalizeFiles`), which must be the copy of a segment that still has its plain
file when the writer begins (`LiveFiles`: what is not journaled is still plain) or when recovery takes
it from its listing (`RecoveryFiles`: the listing names files that exist). And recovery's rewrite and
a power loss may only touch what the writer never closed (`RecoveryFiles`): the tail is rewritten only if its header and its
length disagree, which they never do in a closed file. Each action has a step of its own in
`KeepStep`, with a step for each part the action disturbs; `CloseKeeps`, `EndKeeps`, `OpenOnly` and `DownKeeps` are what several actions share.

The journal needs `ReadInv` besides. `HeaderInv`: a header disagrees with its file only in a file the writer
has not closed, and then recovery meets it as the tail or the process is down. `OpenInv`: nothing lies on disk
behind the open segment. `LoggedInv`: what is recorded has content, as many frames as recorded, and is
not finalized again while it is; for recovery this means that what is in its listing and journaled is `known`.
`TakenInv`: what is true of the file at hand. The step that makes the proof hard is the repair of the tail:
`TailIsLast` shows from `HeaderInv` and `OpenInv` that recovery's idea of the last segment is the one that was open.

Completeness needs `CompleteInv`: `LiveComplete` (the writer journals in order what it closes), `FoundAll` (recovery
has in its listing, at hand or behind it a file of every segment that has content), `Marked` (the marks of the
journal tell the truth, and a recovery of a recovered session finds everything known) and `InOrder` (no
gap). `InOrder` is what the refinement adds: `SessionArchive` lists its segments from the first one on.
For `RecordedOnce` no segment may have a record and still be one to record: `OnceInv` says so at every place of the
writer and of recovery, which is true as long as a segment has one form only.

**`CaptureControl_proof`**, for every number of tracks, surprises and commands, from `ControlAssumption`.
**StopLeavesNothing**: the invariant `StopInv` splits the tracks by how far `stop_capture` has come. A track it has not
reached has no Stop in its channel and its thread is up; behind the join of the supervisor (`StopReached`)
nobody is left who sends, so a Stop is the last command (`LastWord`); a track it has passed has ended with an
empty channel. The proof is that the order of the joins is right, which is what the comments in the code argue.
**SupervisorKeepsAgreement** and **ControlIsLegal** hold for `NoOperatorPause` (`MaxCommands = 0`; section 6 has what happens
otherwise). Their invariant, `FlagInv`, says of each place of the supervisor what it knows of the flag,
and that flag and stream agree once the channel is drained (`WillPlay`), except between the store and the
send. `StepIsLegal` has a case for each transition of session.rs that a step maps to.
**OperatorIsLegal** is the other half, for `NoLoss` (no device is unplugged; streams may stall and be restarted): any
number of pauses and resumes, given track by track, and screens mounted again in between are Pause and Resume of
session.rs or stutter. Its invariant `Plugged` keeps every supervisor out of the branch that sets the flag. No run has
this instance, as both runs of the control lose devices; what remains unproved is the mix of the two, where the
races of section 6 break the refinement.

**`CaptureRing_proof`**, from `RingAssumption` (the capacity divides the range of the counters, or they
never get to wrap). The counters wrap and the histories do not; `RingInv` therefore says that head
and tail are the numbers of samples accepted and delivered, modulo the range, that these numbers are at most a
capacity apart, that a push under way has room for what it has still to write, and that a pop under way
has that much to read. From it the distance of the wrapped counters is the fill level (`WrapDistance`), and what is
still to be written lies behind what is still to be read by less than a round, so that the cells
differ (`ModDistinct`; across the wrap `ModOfMod`, which is where the assumption is used). The arithmetic
of remainders is proved in the lemmas before it.
For **RingIsAQueue** the cells matter as well: `DataInv` says that what a push has written are the next samples of its block
and what a pop has read are the oldest ones. The abstract queue is `Waiting`, the cells between the two counters; the store of head
appends to it what was written (`PublishHeadOffers`), the store of tail takes from its front (`PublishTailTakes`), all other steps
leave it alone, since they write only cells that are not part of it (`WaitingAlone`).
**ChannelsStayInPlace** asks for `WholeFrames`, a capacity that is a multiple of the channels; then all counts are whole
frames (`ChannelInv`).

**`CapturePipeline_proof`**, from the types of the constants: **PipelineTypeCorrect** (`Spec => []TypeOK`),
**TakenJournaled** and **LateFramesOnly**, that is the two invariants of the run PipelineStop, whatever fails. The
strengthening has three parts. `CountInv`: nothing is written that was not taken, and between two batches everything
taken is written. `JournalInv`: the first `journaled` segments, and no others, have gone to the journal, each has one record
in its place or was missed (`RecordedUpTo`), and the tail loop takes up where the loop left its count, up to the last segment
(`OneMoreRecord`, and `SegmentsOf` on the number of segments). **NothingIsMissed** adds that nothing is missed while no
append fails (`AppendsSucceed`). `StopInv`: how far a stop has come (the stream is off before the writer is told, the session is stopped only after the
writer has ended), and, once the ring was found empty and is not looked at again, only late frames are in it.

**`ManifestSync_proof`**, for every number of segments, every set and number of faults and of commands.
**PartsReceived** needs the type and one step. **PartsSentOncePerFault** has the bound as its invariant: a part that is not marked was sent
at most once for each fault so far, a marked one once more (`SendsCounted`), and no step takes a mark back. **ConfirmedMeansVerified** needs to know what the uploader knows at each
of its places (`ServerInv`): from the registration of a composition until its confirmation the server has it,
and neither a restart, a retry, nor a reconciliation that writes an old row back can make a row confirmed
without it. `DeclaredStays` says why a confirmed composition is not replaced.
**ChainAtEveryMoment** supposes that journals have no `Gaps`: the rows are then a beginning of the recording at every
statement (`RowsInv`, `ChainInv`), and a link appended to it covers everything before it (`ChainAppend`).
**FinalLinkIsSet** supposes no restart between the statements (`FinalInv`).

**`Annotations_proof`**, for every set of actions and number of faults. What is in memory, in the journal and in
SQLite are beginnings of one chained sequence of actions as long as `~spoilt` (`MarkupInv`): memory of what the journal comes to when its end is
settled (`Settled`), and the table of the journal or the other way round after a loss of power, since the table may have what a torn
journal lost. `AppendSucceeds` and `AppendBreaks` are the outcomes of one append, `RecordKeeps` a command of
one or several appends, of which any may be the one that fails. **NoActionIsLost** and **TableVerifies** follow.

**OneAtATime** is about the fold of the table, and goes by way of what the actions say. A span is open after k actions if one of
the first k starts it and none behind that one ends it (`OpenAt`); `FoldSpeaks` shows that the fold has exactly these. `Handed`
says that whenever a speaker starts, each span before it has an end before it. That is a statement about every beginning of the
sequence, so it is true of the table as soon as it is true of what the table is a beginning of: `SpeakInv` says it of memory,
journal and table at once, and a handover that fails half-way has appended ends and no start (`HandsOver`,
`HandoverHands`, `RecordSpeaks`). From `Handed` one open role at most follows (`HandedIsOne`). That the fold is what one
gets by applying the actions in turn (`FoldRuns`) needs that its recursion over sets exists (`FoldingThere`).

**`SessionStore_proof`** has the theorems of the modules that share a finished session.

- **NothingGoesEarly**, **PurgeIsComplete**, for every policy, window and recording: `RemovalInOrder` says that files
  go before rows and rows before the mark, wherever a removal was interrupted.
- **OneReporter**: a thread that was not told to stop is the one the player knows, and has the counter and base of the engine
  that plays (`Alone`). Every command of the player either keeps its thread or tells all of them (`Silent`).
- `BuildAddsUp`, for the two theorems after it: rows with different indices have each rank once (`EveryRank`), the sums of their lengths
  exist (`RunningSum`), and so `Build` makes an `Axis` of every finite set of rows with a key (`AxesAddUp` for the recording).
- **PositionIsTheFrame**: `PlaceInv` says that the source of each selected track stands at the frame the position says, or ahead
  of it if something on the way could not be decoded. The binary search (`LocateFinds`), the way over
  empty and damaged segments (`NextIsNear`) and the growth of the axis (`AxisGrows`) are lemmas about every
  axis, proved with a least counterexample instead of an induction (`LeastNumber`).
- **MarkersStayInside**: a moment of the wall clock, put into frames, rounded, and held within its segment, lies inside the
  recording (`WithinSegment`, `MarkerInside`), and neither a build that ends early nor a file left by the build before
  it in the folder puts anything else under the markers' name (`MarksAfter`, `ReachesMarkers`).

- **LoggedMeansWhole**: what the manifest lists is what was written under names that only planned sound is written to (`AudioKept`), and
  after a build that came to its end the last of these writes is what is there, whatever the folder held before
  (`LastWrite`). It came to its end only if every segment could be read, so that each file has all frames of its tracks
  (`JoinCopiesAll`, `ManifestAddsUp`, `PlannedWhole`); `PackageWhole` puts this together, and no other step logs "export_ok".

`OnlyLastEmpty` is a fact
about the recorder: `write` closes a segment when it is full, finalize() closes the rest (`recorder/segment_writer.rs`).

**`StationAccess_proof`**, from `DeliveryAssumption`: **GateKept** (`AccessSpec => GateHolds`) needs no invariant, since each step
that changes the file is judged by the settings of its own first state: `AcceptedPassesTheGate` says so of a save,
and what the operator may change is outside of the administrator's scope (`OperatorsOwn`).
The others say of the edits that they make settings of settings (`EditsAreSettings`: window and import are read into the type) and,
for OwnPinOnly, that they name a root the model keeps (`EditsKeepRoots`); the switches of the run do both.
**LogIsTrue**: its invariant, `LogInv`, speaks of every function that goes through the log from the set-up on (`Tells`), so that a row
more needs no induction over the log, only that what was told before is still told. The difference a save logs, laid
over the settings it replaces, gives the new ones (`DiffLaid`); laid over any others it cannot turn the log on, because rows are
written only by settings whose log is on already (`DiffOverAny`): once the log has told that it was turned off, it never
claims to be complete again, although it may be turned on and go on.
**OwnPinOnly**: its invariant adds that in every root a cached
session has the PIN of its operator or none, and the profile that of the hall's operator.
**ReadyMeansOpen**: settings have a list of tracks, so
there is a track to ask for (`SomeTrack`), and the two decisions agree in every such state, reachable or not.

### Only model-checked

- The liveness properties `StopCompletes`, `OutageEnds`, `StopEnds`, `QueueEmpties`, `OfflineComesOnline` and
  `ClosedEventuallyJournaled`: the proof system does not handle fairness and ENABLED.
- The instances a hypothesis leaves out: the property fails there, as section 6 says of each.

## 6 Disagreements between the code and what is said of it

Each of these was seen as a counterexample of the instance given, or follows from the definition named; they
explain why a passing run leaves that instance out, or why a property has the condition it has.

Recording and upload:

- `store/crypto.rs:254`: the encrypted copy is not fsynced before the fsynced plain file is removed. A power loss may take
  a whole segment, not the 1.5 s of `README.md:62`. (`ClosedSegmentsKept` with `Encrypt` and `power`; the assumption
  `SafeStorage` of ClosedKept.)
- `audio/capture.rs:1048`: at the critical disk threshold the consumer ends, the stream and the session go
  on; `audio/capture.rs:13-14` and the text on the screen speak of a stop. (The drain of `CapturePipeline`, with `full`.)
- `sync/uploader.rs:172`: the status becomes `uploaded` before verify; if that request fails, nothing asks again, against
  `sync/uploader.rs:12-13`. (`QueueEmpties` with a failing verify; the run SyncQueue has none.)
- `store/reconcile.rs:113`: the row is finished before its segments are entered; the scheduler may announce, send and
  get confirmed a part of the recording.
- `recorder/recovery.rs:324`: the tail is rewritten by truncating its only copy. A kill there loses
  fsynced frames, although `recorder/recovery.rs:9` bounds the loss by the flush interval. (Encrypted or
  plain, 1 kill while recording, 1 in recovery. `LossOnlyInRewrite` shows that this is the only place.)
- The same rewrite is not fsynced before its segment is journaled: a power loss then leaves the journal
  naming frames that are gone. (`JournaledReadable` with `power`.)
- `recorder/journal.rs:118`: the journal is opened for appending behind a torn line, so the next record
  is lost with it. (`ClosedSessionComplete` with `power`.)
- `recorder/recovery.rs:160`: `known` is computed before the loop, so after a kill between the encrypted copy and the
  unlink the segment is journaled twice, against `recorder/recovery.rs:203-204`. (`JournaledOnce`
  with `Encrypt`, 2 kills. The frame counts of the records agree, the stored forms need not.)
- `audio/capture.rs:218`: a failed append is ignored and the segment counted as journaled (`audio/capture.rs:1036`); the
  consumer ends well and the closed session lacks the segment, which `audio/capture.rs:1082-1085` calls a loss. (`NothingMissed`
  in PipelineStop; `ClosedSessionComplete` with `io`.)
- `sync/uploader.rs:141-148`: the answers behind the one of a rejected part are not looked at, so parts the server has
  accepted stay `pending` and are sent again by the next pass; so is a part when the program stops between answer and mark.
  The comment at `sync/uploader.rs:122` speaks of parts not sent. `ResentOnlyAfterFault` bounds how often.
- `audio/capture.rs:779`: the supervisor reads the pause flag and sends Rekick later; an operator pause
  in between ends with a paused track that plays, against `audio/capture.rs:412-413`.
  (`FlagMatchesStream` with operator commands.)
- `audio/capture.rs:767`: a loss that coincides with a pause of the operator sets `device_paused`, and the return of the device lifts
  the pause of the operator, against `recorder/session.rs:43`. (`ImplementsMachine` with operator commands.)
- `recorder/multitrack.rs:193`: each track's supervisor pauses its own track only, while
  `recorder/multitrack.rs:191` says that tracks are paused together.
- `audio/capture.rs:781`: `stall_fired` is cleared only by a fresh heartbeat: a restart that does not
  help is not repeated. `reliability/watchdog.rs:5-7` knows no such limit.
- `audio/capture.rs:878`: the ring's capacity need not be a multiple of the channels; an overflow then
  tears a frame and channels change places. (`ChannelsInPlace` with capacity 3, stereo.)
- `audio/capture.rs:1069`: a block pushed between an empty pop and the look at the stop flag stays in
  the ring, against `audio/capture.rs:428`. `OnlyLateFramesLeft` bounds it.
- `store/reconcile.rs:73`: a multichannel session is never found settled, so each listing writes the row
  back with the upload fields read before, against `store/reconcile.rs:79`. `QueueEmpties` still holds.
- `ipc/sync_cmds.rs:63`: a confirmation between the check and the update of a retry is overwritten,
  against `ipc/sync_cmds.rs:59`.
- `store/reconcile.rs:182`: a segment journaled after its successors were reconciled breaks the chain behind
  it, and a retry announces the same chain. (`ChainIntact` with `Gaps`.)
- `store/reconcile.rs:71`: after a crash between the last segment and the final link, the session is
  taken for done and never gets its final link. (`FinalLinkSet` with `crash`.)
- `ipc/audio_cmds.rs:720`: recover_session of a multichannel session repairs the root directory only; the
  journals of the tracks stay without their tails.
- `recorder/journal.rs:189`: a line torn inside a UTF-8 sequence makes the whole replay fail instead of skipping the line.

Markup:

- `ipc/marker_cmds.rs:48-50` says that after a failed append the state does not run away. It does not, but the journal
  may have: when the fsync fails after the line, or the line is torn, the next action takes the same number,
  and journal, SQLite and screen tell different stories. (The properties of MarkupUse without `~spoilt`.)
- A span that has ended may be ended again and then ends later (`Fold`).

Player and export:

- `player/source.rs:6-11` and the comment at `player/source.rs:104` speak of stopping at a damaged segment; `advance_segment` goes on
  to the next one, and the position falls behind what is heard (`PositionIsFrame`).
- `PlayerEvent::Ended` is never applied: the automaton stays `playing` after the end. Selecting a track while
  playing drops the engine and shows `playing`. A reporter that was awake when a pause came emits `playing` after
  the pause (`ReporterEmits`).
- Two tracks whose labels, or roles, give the same file name overwrite one another's file while the manifest lists both
  (`Stem`; the instance has names of their own). The folder of a package is named after case and day: a second export
  of the day, of another session of the case too, goes into it and leaves the first one's files behind.
- `export/package.rs:214-219`: the markers are projected on the first track; in a mix, which ends with the shortest track, they may
  lie behind the end.
- `export_burn_dvd` verifies the folder, the disc is not read back; a burning that fails is not logged. The
  event of a refusal is written if it can be, the one of an export that is done makes it fail.

Retention:

- `retention::sweep` is called by nobody, although `docs/admin_guide.md:125-126` and `docs/configuration.md:101` promise it.
- A removal interrupted after the rows leaves a session that looks unreconciled, and each command that opens
  it fails at the first missing file until the next sweep (`Reconciles`).
- The removal takes the events of the session along, those of playbacks and exports included.

Login, settings, self-test:

- `ipc/auth_cmds.rs:509`: a refresh that is answered late puts the token of the operator before on the one
  after (`PutToken`). A token is not renewed while its owner is online.
- The log goes to the root of the settings before the save (`ipc/admin_cmds.rs:108`); after a change of `storage.root_path`, cached session, profile and
  PIN stay behind in the old one, and the administrator has no PIN there.
- A settings file that does not parse can only be repaired from outside (`Loads`). A clock that is set back
  extends the window of a cached session (`CachedSessionValid`).
- `ipc/selftest_cmds.rs:103-104` says that another device will be used when the selected one is missing; `audio/capture.rs:903-914`
  reports an error instead. The errors of `resolve_tracks` are not part of the self-test
  (`ReadyPassesTheGates` is two-sided for login and key only).

## 7 What is not modelled

- Sample data: conversion, resampling, levels, file formats below "header and frames". They are
  sequential and covered by unit tests; no property here depends on them.
- Ciphers, hashes and keys: a copy is absent, torn or whole, a chain link is what it hashes.
- Time: timeouts are choices. A heartbeat is fresh or stale; the flush interval decides only *when*
  `Flush` happens, which the model leaves open.
- Events and comments in the journal: nothing modelled reads them.
- The pause of uploads during a recording (`sync/scheduler.rs`), part sizes and HTTP.
- The case of a 32-bit counter with a ring capacity that does not divide 2^32: `RingAssumption` excludes it.
- The mirror: a best-effort copy whose failures are logged; no state depends on it, nothing reads it back.
- Case binding and its cache: values validated and written to one file, or replaced as a whole.
- The preview of levels, drift between tracks (`audio/sync.rs` is not called), windows, tray and layout.
- Rates, volume, FLAC encoding and player.html, beyond where frames come from and which files are written.
- Setting a PIN through the window, the checks of single settings, the way a PIN is hashed.
- Recovery of the directories of tracks: the code has none (section 6).
- `Watchdog::spawn`, `apply_device_event` and `SegmentStarted`, which the running program never uses.
- Not stated as properties: the types of most modules (TLC evaluates every guard and index of
  a run anyway), and what section 6 says is not so.

## 8 What could follow

1. `FlagMatchesStream` with an operator who pauses, and `ImplementsMachine` when devices are lost as well, for a weaker agreement that the races of section 6 leave intact.
2. `OnlyLastEmpty` from `SessionArchive` instead of as a hypothesis: the archive would have to carry the lengths of its segments.
3. The uploads' pause during a recording as part of `ManifestSync`.
