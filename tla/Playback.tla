------------------------------ MODULE Playback ------------------------------
(* The built-in player: its commands (ipc/player_cmds.rs), its automaton     *)
(* (player/state.rs), the sources that decode a segment at a time            *)
(* (player/source.rs), the threads that report the position, and the         *)
(* indicators that follow their reports.  The commands run one at a time     *)
(* under the player's lock.  The output device and the reporting threads     *)
(* share only atomics with them: each step of theirs is an action.           *)
EXTENDS SessionStore

CONSTANTS
  SeekMs,        \* milliseconds an operator seeks to
  Rates,         \* player.playback_rates
  RateInputs, VolumeInputs,       \* what the window may send
  Reporters      \* bound: slots for reporting threads

ASSUME PlaybackAssumption == SeekMs \subseteq Nat

VARIABLES
  player,        \* the open session, NoPlayer if none
  reporter,      \* the threads that emit player_position, by slot
  shown          \* the last event an indicator received: state and frame

playbackVars == <<player, reporter, shown>>

NoPlayer == [machine |-> "idle"]
NoEngine == [state |-> "none"]
NoReporter == [pc |-> "none"]
NoSlot == 0
End == <<0, 0>>                   \* a source that is exhausted
Mix == -1                         \* the selector of the mix

IsOpen == player # NoPlayer
TracksOpen == {player.order[i] : i \in DOMAIN player.order}

\* PlayerMachine::apply: the next state, and the pairs that are legal at all.
Transition ==
  [ idle    |-> [open |-> "stopped"],
    stopped |-> [play |-> "playing", seek |-> "stopped", close |-> "idle"],
    playing |-> [pause |-> "paused", seek |-> "playing", ended |-> "stopped", close |-> "idle"],
    paused  |-> [play |-> "playing", seek |-> "paused", close |-> "idle"] ]

Selected(p) == IF p.selector = Mix THEN {p.order[i] : i \in DOMAIN p.order} ELSE {p.selector}

\* The mix is as long as its shortest track.
SelectedFrames(p) == Min({Recorded[t].total : t \in Selected(p)})

\* The position as emit_position_now and player_status compute it: what was
\* played is counted from zero by each engine.
Position(p) == p.base + (IF p.engine = NoEngine THEN 0 ELSE p.engine.played)

Report(state, at) == [state |-> state, at |-> at]
EmitNow(p) == shown' = Report(IF p.machine \in {"playing", "paused"} THEN p.machine ELSE "stopped",
                              Position(p))

\* The thread started last is told to end; it looks when it next wakes.
StopReporter == [s \in Reporters |->
                   IF IsOpen /\ player.reporter = s /\ reporter[s] # NoReporter
                   THEN [reporter[s] EXCEPT !.stop = TRUE] ELSE reporter[s]]

\* A thread keeps the counter of its engine when the engine is dropped.
Detach(rs) == [s \in Reporters |->
                 IF rs[s] # NoReporter /\ rs[s].counter = "engine"
                 THEN [rs[s] EXCEPT !.counter = "own", !.played = player.engine.played]
                 ELSE rs[s]]

\* Planted bug: an engine is dropped without telling its reporter.
TornSilently == IF IsOpen /\ player.engine # NoEngine THEN Detach(reporter) ELSE reporter

\* The reporter is stopped, the engine and the device are dropped.
Teardown(p) == [p EXCEPT !.engine = NoEngine, !.reporter = NoSlot]
TornReporters == IF IsOpen /\ player.engine # NoEngine THEN Detach(StopReporter) ELSE StopReporter

\* Planted bug: the sources start with the segment, not with the frame.
SourcesOfSegment(p) ==
  {[t \in Selected(p) |-> <<(CHOOSE at \in Locate(Recorded[t], p.base) : TRUE)[1], 0>>]}

\* Where the source of a track yields its next frame: in the current segment,
\* or at the start of the next one that can be decoded; one that cannot is
\* skipped.
NextAt(tl, at) ==
  LET later == {j \in DOMAIN tl.segs :
                  j > at[1] /\ Readable(tl.segs[j]) /\ tl.segs[j].frames > 0}
  IN  IF at = End THEN End
      ELSE IF at[2] < tl.segs[at[1]].frames THEN at
      ELSE IF later = {} THEN End ELSE <<Min(later), 0>>

\* build_engine: a source per selected track from the frame `base`, the first
\* segment of each decoded at once; a track without segments is exhausted.
Sources(p) ==
  {f \in [Selected(p) -> UNION {Locate(Recorded[t], p.base) : t \in Selected(p)} \union {End}] :
     \A t \in Selected(p) :
       IF Recorded[t].segs = <<>> THEN f[t] = End
       ELSE /\ f[t] \in Locate(Recorded[t], p.base)
            /\ Readable(Recorded[t].segs[f[t][1]])}

BuildEngine(p) ==
  {[state |-> "built", at |-> f, played |-> 0, over |-> FALSE, running |-> FALSE,
    total |-> SelectedFrames(p)] : f \in Sources(p)}

\* start_playback on the player p: the engine is built if there is none, the
\* sink runs, and a new reporter takes the place of the old one.  It fails
\* without a device or a readable first segment, and p is then left as it is.
StartPlayback(p, rs) ==
  \/ \E e \in IF p.engine = NoEngine THEN BuildEngine(p) ELSE {p.engine},
        s \in {x \in Reporters : rs[x] = NoReporter} :
       /\ player' = [p EXCEPT !.engine = [e EXCEPT !.running = TRUE], !.reporter = s]
       /\ reporter' = [x \in Reporters |->
            IF x = s THEN [pc |-> "asleep", stop |-> FALSE, counter |-> "engine", played |-> 0,
                           base |-> p.base, total |-> e.total]
            ELSE IF x = p.reporter /\ rs[x] # NoReporter THEN [rs[x] EXCEPT !.stop = TRUE]
            ELSE rs[x]]
  \/ /\ p.engine = NoEngine
     /\ player' = p
     /\ reporter' = rs
-----------------------------------------------------------------------------
\* player_open_session: the access goes into the log before anything is handed
\* out; whatever was open before is torn down.  The axes are built from the
\* rows as they are now, which are all of them: without one it is an error.
Open ==
  /\ Command /\ Reconciles
  /\ \E t \in TrackIds : TimelineOf(t).total > 0
  /\ AppendEvent("playback_accessed")
  /\ player' = [ machine  |-> Transition.idle.open,
                 order    |-> ResolveTracks,
                 selector |-> ResolveTracks[1],
                 base     |-> 0,
                 engine   |-> NoEngine,
                 reporter |-> NoSlot,
                 rate     |-> 1,
                 volume   |-> 1 ]
  /\ reporter' = TornReporters
  /\ EmitNow(player')
  /\ UNCHANGED <<session, rows, present, damaged>>

\* player_select_track: back to the start; the automaton is left as it is.
SelectTrack ==
  /\ Command /\ IsOpen
  /\ \E sel \in TracksOpen \union {Mix} :
       /\ player' = [Teardown(player) EXCEPT !.selector = sel, !.base = 0]
       /\ EmitNow(player')
  /\ reporter' = TornReporters
  /\ UNCHANGED storeVars

Play ==
  /\ Command /\ IsOpen
  /\ StartPlayback([player EXCEPT !.machine =
       IF @ = "playing" THEN @ ELSE Transition[@].play], reporter)
  /\ UNCHANGED <<storeVars, shown>>

Pause ==
  /\ Command /\ IsOpen
  /\ player' = [player EXCEPT
       !.machine = IF @ = "playing" THEN Transition[@].pause ELSE @,
       !.engine = IF @ = NoEngine THEN @ ELSE [@ EXCEPT !.running = FALSE],
       !.reporter = NoSlot]
  /\ reporter' = StopReporter
  /\ EmitNow(player')
  /\ UNCHANGED storeVars

\* resolve_seek_frame: a time is not held to the length, a marker is looked up
\* on the axis of the first track.
SeekTargets ==
  {MsToFrames(ms) : ms \in SeekMs}
    \union {FrameForMarker(Recorded[player.order[1]], StartedAt, o) : o \in MarkerAt}

Seek ==
  /\ Command /\ IsOpen
  /\ \E f \in SeekTargets :
       LET p == [Teardown(player) EXCEPT !.base = f, !.machine = Transition[@].seek]
       IN  IF player.machine = "playing" THEN StartPlayback(p, TornReporters)
           ELSE player' = p /\ reporter' = TornReporters
  \* an engine that could not be built ends the command before the report
  /\ IF player.machine = "playing" /\ player'.engine = NoEngine
     THEN UNCHANGED shown ELSE EmitNow(player')
  /\ UNCHANGED storeVars

SetRate ==
  /\ Command /\ IsOpen
  /\ \E r \in RateInputs \intersect Rates : player' = [player EXCEPT !.rate = r]
  /\ UNCHANGED <<storeVars, reporter, shown>>

SetVolume ==
  /\ Command /\ IsOpen
  /\ \E v \in VolumeInputs :
       player' = [player EXCEPT !.volume = IF v < 0 THEN 0 ELSE Lesser(v, 1)]
  /\ UNCHANGED <<storeVars, reporter, shown>>

Close ==
  /\ Command
  /\ player' = NoPlayer
  /\ reporter' = TornReporters
  /\ shown' = Report("closed", 0)
  /\ UNCHANGED storeVars
-----------------------------------------------------------------------------
\* The device takes a frame from the sink.  The mix takes one from each of its
\* tracks and is over with the first that has none.
DevicePulls ==
  /\ IsOpen /\ player.engine # NoEngine
  /\ player.engine.running /\ ~player.engine.over
  /\ LET next == [t \in Selected(player) |-> NextAt(Recorded[t], player.engine.at[t])] IN
     player' = [player EXCEPT !.engine =
       IF \E t \in Selected(player) : next[t] = End THEN [@ EXCEPT !.over = TRUE]
       ELSE [@ EXCEPT !.played = player.engine.played + 1,
                      !.at = [t \in Selected(player) |-> <<next[t][1], next[t][2] + 1>>]]]
  /\ UNCHANGED <<storeVars, reporter, shown, commands>>

\* A reporter wakes and looks at its flag ...
ReporterWakes(s) ==
  /\ reporter[s].pc = "asleep"
  /\ reporter' = [reporter EXCEPT ![s] =
       IF reporter[s].stop THEN NoReporter ELSE [@ EXCEPT !.pc = "awake"]]
  /\ UNCHANGED <<storeVars, player, shown, commands>>

\* ... and then emits the position and ends with the source.
ReporterEmits(s) ==
  LET r == reporter[s]
      left == SaturatingSub(r.total, r.base)
      played == Lesser(IF r.counter = "engine" THEN player.engine.played ELSE r.played, left)
  IN  /\ r.pc = "awake"
      /\ shown' = Report(IF played >= left THEN "stopped" ELSE "playing", r.base + played)
      /\ reporter' = [reporter EXCEPT ![s] =
           IF played >= left THEN NoReporter ELSE [@ EXCEPT !.pc = "asleep"]]
      /\ UNCHANGED <<storeVars, player, commands>>

PlaybackInit ==
  /\ StoreInit
  /\ player = NoPlayer
  /\ reporter = [s \in Reporters |-> NoReporter]
  /\ shown = Report("closed", 0)

PlaybackNext ==
  \/ Open \/ SelectTrack \/ Play \/ Pause \/ Seek \/ SetRate \/ SetVolume \/ Close
  \/ DevicePulls
  \/ \E s \in Reporters : ReporterWakes(s) \/ ReporterEmits(s)
  \/ Damage /\ UNCHANGED playbackVars

PlaybackSpec == PlaybackInit /\ [][PlaybackNext]_<<storeVars, commands, playbackVars>>
-----------------------------------------------------------------------------
\* The place the position indicates is the frame the listener is about to
\* hear, on every track of the selection, while no segment of them is damaged;
\* a damaged segment is passed over and leaves the indicator behind, never ahead.
PositionIsFrame ==
  IsOpen /\ player.engine # NoEngine /\ player.base < SelectedFrames(player) =>
    \A t \in Selected(player) :
      LET tl == Recorded[t]
          at == player.engine.at[t]
          frame == tl.segs[at[1]].start + at[2]
      IN  /\ Position(player) <= frame
          /\ ~(\E i \in DOMAIN tl.segs : ~Readable(tl.segs[i])) => Position(player) = frame

\* A reporting thread that was not told to stop reports the engine that plays
\* now, from the place it was started at: a seek, a change of the track, a new
\* session never leaves two threads that report different positions.
ReporterIsCurrent ==
  \A s \in Reporters : reporter[s] # NoReporter /\ ~reporter[s].stop =>
    /\ IsOpen /\ player.engine # NoEngine
    /\ player.reporter = s
    /\ reporter[s].counter = "engine" /\ reporter[s].base = player.base
=============================================================================
