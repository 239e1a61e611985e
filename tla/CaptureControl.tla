---------------------------- MODULE CaptureControl ----------------------------
(***************************************************************************)
(* The control plane of a recording (audio/capture.rs CaptureSession and   *)
(* supervisor_loop, recorder/multitrack.rs MultiCapture, the start, pause, *)
(* resume, stop and status commands of ipc/audio_cmds.rs): for every track *)
(* a capture thread that owns the stream and takes commands from a         *)
(* channel, and a supervisor thread with the device monitor and the        *)
(* watchdog.  The operator's commands run one at a time; supervisors and   *)
(* capture threads interleave with each of their steps.                    *)
(***************************************************************************)
EXTENDS Naturals, Sequences

CONSTANTS
  N,            \* number of tracks (1: the single-channel path)
  AutoResume,   \* reliability.device_reconnect.auto_resume
  Surprises,    \* what may go wrong: a device unplugged, a stream that stalls
  MaxSurprises, \* bound: how often
  MaxCommands   \* bound: pause and resume commands the operator gives

ASSUME ControlAssumption ==
  /\ N \in Nat \ {0}
  /\ AutoResume \in BOOLEAN
  /\ Surprises \subseteq {"lost", "stall"}
  /\ MaxSurprises \in Nat /\ MaxCommands \in Nat

Tracks == 1 .. N

VARIABLES
  ui,         \* the state the operator's screen shows
  cmd,        \* the command being executed
  step,       \* where it is
  at,         \* the track it has reached
  failed,     \* stop: some writer returned an error
  paused,     \* AtomicBool shared by operator and supervisor
  queue,      \* ControlCmd channel to the capture thread
  playing,    \* the stream is playing
  capture,    \* the capture thread
  sup,        \* where the supervisor is in its loop
  halt,       \* StopSignal of the supervisor
  seen,       \* DeviceMonitor::present
  devPaused,  \* supervisor_loop's device_paused
  fired,      \* supervisor_loop's stall_fired
  device,     \* the device is plugged in
  stuck,      \* the stream delivers nothing although it plays
  beat,       \* age of the heartbeat: within the watchdog timeout or not
  spent       \* commands given and surprises met so far

operator   == <<ui, cmd, step, at, failed>>
stream     == <<playing, capture>>
supervisor == <<sup, seen, devPaused, fired>>
world      == <<device, stuck, beat>>
vars == <<operator, paused, queue, stream, supervisor, halt, world, spent>>

All(v) == [t \in Tracks |-> v]

Init ==
  /\ ui = "idle" /\ cmd = "none" /\ step = "none" /\ at = 1
  /\ failed = FALSE
  /\ paused = All(FALSE) /\ queue = All(<<>>)
  /\ playing = All(FALSE) /\ capture = All("none")
  /\ sup = All("none") /\ halt = All(FALSE)
  /\ seen = All(TRUE) /\ devPaused = All(FALSE) /\ fired = All(FALSE)
  /\ device \in [Tracks -> BOOLEAN] /\ stuck = All(FALSE)
  /\ beat = All("fresh")
  /\ spent = [commands |-> 0, surprises |-> 0]

Send(t, c) == queue' = [queue EXCEPT ![t] = Append(@, c)]

-----------------------------------------------------------------------------
(***************************************************************************)
(* The operator.                                                           *)
(***************************************************************************)

\* start_capture: a track that cannot be started takes the others down again,
\* so only a complete start is a step.
StartCapture ==
  /\ ui = "idle"
  /\ \A t \in Tracks : device[t]
  /\ ui' = "recording"
  /\ playing' = All(TRUE) /\ capture' = All("up")
  /\ sup' = All("top") /\ seen' = device
  /\ UNCHANGED <<cmd, step, at, failed, paused, queue, devPaused,
                 fired, halt, world, spent>>

\* The pause or the resume button, whichever the screen offers.
Press ==
  /\ cmd = "none" /\ ui \in {"recording", "paused"}
  /\ spent.commands < MaxCommands
  /\ spent' = [spent EXCEPT !.commands = @ + 1]
  /\ cmd' = IF ui = "recording" THEN "Pause" ELSE "Resume"
  /\ step' = "flag" /\ at' = 1
  /\ UNCHANGED <<ui, failed, paused, queue, stream, supervisor, halt, world>>

\* MultiCapture's loop over its handles has not reached the last one.
MoreTracks == at < N

\* CaptureSession::pause / resume of one track: first the flag ...
SetFlag ==
  /\ step = "flag"
  /\ paused' = [paused EXCEPT ![at] = (cmd = "Pause")]
  /\ step' = "send"
  /\ UNCHANGED <<ui, cmd, at, failed, queue, stream, supervisor, halt,
                 world, spent>>

\* ... then the command; MultiCapture goes on with the next track.
SendCommand ==
  /\ step = "send"
  /\ Send(at, cmd)
  /\ IF MoreTracks
     THEN at' = at + 1 /\ step' = "flag" /\ UNCHANGED <<ui, cmd>>
     ELSE /\ ui' = IF cmd = "Pause" THEN "paused" ELSE "recording"
          /\ cmd' = "none" /\ step' = "none" /\ UNCHANGED at
  /\ UNCHANGED <<failed, paused, stream, supervisor, halt, world,
                 spent>>

\* The screen is mounted again and asks capture_status.
Refresh ==
  /\ cmd = "none" /\ ui \in {"recording", "paused"}
  /\ ui' = IF paused[1] THEN "paused" ELSE "recording"
  /\ UNCHANGED <<cmd, step, at, failed, paused, queue, stream,
                 supervisor, halt, world, spent>>

\* stop_capture: the tracks are stopped one after the other.
PressStop ==
  /\ cmd = "none" /\ ui \in {"recording", "paused"}
  /\ cmd' = "Stop" /\ ui' = "stopping" /\ step' = "halt" /\ at' = 1
  /\ UNCHANGED <<failed, paused, queue, stream, supervisor, halt,
                 world, spent>>

HaltSupervisor ==
  /\ step = "halt"
  /\ halt' = [halt EXCEPT ![at] = TRUE]
  /\ step' = "join"
  /\ UNCHANGED <<ui, cmd, at, failed, paused, queue, stream,
                 supervisor, world, spent>>

JoinNobody == step = "join"                     \* planted bug: no join
SupervisorJoined == step = "join" /\ sup[at] = "ended"

SendStop ==
  /\ SupervisorJoined
  /\ Send(at, "Stop")
  /\ step' = "capture"
  /\ UNCHANGED <<ui, cmd, at, failed, paused, stream, supervisor, halt,
                 world, spent>>

\* Capture thread and writer are joined.  A writer error is reported at the
\* end; the remaining tracks are stopped all the same, by Drop.
JoinCapture ==
  /\ step = "capture" /\ capture[at] = "ended"
  /\ failed' \in {failed, TRUE}
  /\ IF MoreTracks
     THEN at' = at + 1 /\ step' = "halt" /\ UNCHANGED <<ui, cmd>>
     ELSE ui' = "stopped" /\ cmd' = "none" /\ step' = "none" /\ UNCHANGED at
  /\ UNCHANGED <<paused, queue, stream, supervisor, halt, world, spent>>

-----------------------------------------------------------------------------
(***************************************************************************)
(* The supervisor of track t, one turn of its loop:                        *)
(* top - (lost - lost_store - lost_send | back) - watch - check - rekick - wait    *)
(***************************************************************************)
Go(t, here, there) == sup[t] = here /\ sup' = [sup EXCEPT ![t] = there]

NeverStopped(t) == FALSE                        \* planted bug: signal ignored
IsStopped(t) == halt[t]

\* The device monitor compares the device with what it saw last.
Poll(t) ==
  /\ ~IsStopped(t)
  /\ Go(t, "top", IF device[t] = seen[t] THEN "watch"
                  ELSE IF seen[t] THEN "lost" ELSE "back")
  /\ seen' = [seen EXCEPT ![t] = device[t]]
  /\ UNCHANGED <<operator, paused, queue, stream, devPaused, fired, halt, world,
                 spent>>

\* Device lost while recording: load the flag ...
Lost(t) ==
  /\ Go(t, "lost", IF paused[t] THEN "watch" ELSE "lost_store")
  /\ UNCHANGED <<operator, paused, queue, stream, seen, devPaused, fired, halt,
                 world, spent>>

\* ... store it ...
PauseLost(t) ==
  /\ Go(t, "lost_store", "lost_send")
  /\ paused' = [paused EXCEPT ![t] = TRUE]
  /\ devPaused' = [devPaused EXCEPT ![t] = TRUE]
  /\ UNCHANGED <<operator, queue, stream, seen, fired, halt, world, spent>>

\* ... and pause the stream.
SendPause(t) ==
  /\ Go(t, "lost_send", "watch")
  /\ Send(t, "Pause")
  /\ UNCHANGED <<operator, paused, stream, seen, devPaused, fired, halt, world,
                 spent>>

BackUnlessPaused(t) == ~paused[t] /\ AutoResume  \* planted bug: wrong flag
ResumesOnBack(t) == devPaused[t] /\ AutoResume

\* Planted bug: the flag the operator's status is read from stays set.
LiftPauseHalf(t) ==
  /\ devPaused' = [devPaused EXCEPT ![t] = FALSE]
  /\ UNCHANGED paused
LiftPause(t) ==
  /\ paused' = [paused EXCEPT ![t] = FALSE]
  /\ devPaused' = [devPaused EXCEPT ![t] = FALSE]

\* Device back: a pause the loss caused is lifted.
Back(t) ==
  /\ IF ResumesOnBack(t)
     THEN Go(t, "back", "back_send") /\ LiftPause(t)
     ELSE Go(t, "back", "watch") /\ UNCHANGED <<paused, devPaused>>
  /\ UNCHANGED <<operator, queue, stream, seen, fired, halt, world, spent>>

SendResume(t) ==
  /\ Go(t, "back_send", "watch")
  /\ Send(t, "Resume")
  /\ UNCHANGED <<operator, paused, stream, seen, devPaused, fired, halt, world,
                 spent>>

WatchAlways(t) == TRUE                          \* planted bug: pause not looked at
Watched(t) == ~paused[t]

\* The watchdog leaves a paused track alone ...
Watch(t) ==
  /\ Go(t, "watch", IF Watched(t) THEN "check" ELSE "wait")
  /\ UNCHANGED <<operator, paused, queue, stream, seen, devPaused, fired, halt,
                 world, spent>>

\* ... and decides from the age of the heartbeat; a stall fires once.
Check(t) ==
  /\ Go(t, "check",
        IF beat[t] = "stale" /\ ~fired[t] THEN "rekick" ELSE "wait")
  /\ fired' = [fired EXCEPT ![t] = @ /\ beat[t] = "stale"]
  /\ UNCHANGED <<operator, paused, queue, stream, seen, devPaused, halt, world,
                 spent>>

Rekick(t) ==
  /\ Go(t, "rekick", "wait")
  /\ Send(t, "Rekick")
  /\ fired' = [fired EXCEPT ![t] = TRUE]
  /\ UNCHANGED <<operator, paused, stream, seen, devPaused, halt, world, spent>>

\* wait_timeout: the interval is over, or the signal ends the wait.
Wait(t) ==
  /\ Go(t, "wait", IF IsStopped(t) THEN "ended" ELSE "top")
  /\ UNCHANGED <<operator, paused, queue, stream, seen, devPaused, fired, halt,
                 world, spent>>

Exit(t) ==
  /\ IsStopped(t)
  /\ Go(t, "top", "ended")
  /\ UNCHANGED <<operator, paused, queue, stream, seen, devPaused, fired, halt,
                 world, spent>>

-----------------------------------------------------------------------------
\* The capture thread of track t takes a command.
TakeCommand(t) ==
  /\ capture[t] = "up" /\ queue[t] # <<>>
  /\ LET c == Head(queue[t]) IN
     /\ queue' = [queue EXCEPT ![t] = Tail(@)]
     /\ playing' = [playing EXCEPT ![t] = c \in {"Resume", "Rekick"}]
     /\ stuck' = [stuck EXCEPT ![t] = @ /\ c # "Rekick"]
     /\ capture' = [capture EXCEPT ![t] = IF c = "Stop" THEN "ended" ELSE @]
  /\ UNCHANGED <<operator, paused, supervisor, halt, device, beat, spent>>

Delivers(t) == playing[t] /\ device[t] /\ ~stuck[t]

\* The audio callback: samples arrive and the heart beats.
Callback(t) ==
  /\ Delivers(t) /\ beat[t] = "stale"
  /\ beat' = [beat EXCEPT ![t] = "fresh"]
  /\ UNCHANGED <<operator, paused, queue, stream, supervisor, halt, device,
                 stuck, spent>>

\* No samples for longer than the timeout.
Age(t) ==
  /\ capture[t] = "up" /\ ~Delivers(t) /\ beat[t] = "fresh"
  /\ beat' = [beat EXCEPT ![t] = "stale"]
  /\ UNCHANGED <<operator, paused, queue, stream, supervisor, halt, device,
                 stuck, spent>>

Surprise(what) ==
  /\ what \in Surprises /\ spent.surprises < MaxSurprises
  /\ spent' = [spent EXCEPT !.surprises = @ + 1]

Unplug(t) ==
  /\ device[t] /\ Surprise("lost")
  /\ device' = [device EXCEPT ![t] = FALSE]
  /\ UNCHANGED <<operator, paused, queue, stream, supervisor, halt, stuck, beat>>

Replug(t) ==
  /\ ~device[t]
  /\ device' = [device EXCEPT ![t] = TRUE]
  /\ UNCHANGED <<operator, paused, queue, stream, supervisor, halt, stuck, beat,
                 spent>>

Stall(t) ==
  /\ Delivers(t) /\ Surprise("stall")
  /\ stuck' = [stuck EXCEPT ![t] = TRUE]
  /\ UNCHANGED <<operator, paused, queue, stream, supervisor, halt, device, beat>>

-----------------------------------------------------------------------------
Stopping == HaltSupervisor \/ SendStop \/ JoinCapture

Operator == StartCapture \/ Press \/ SetFlag \/ SendCommand \/ Refresh
              \/ PressStop \/ Stopping

Supervise(t) == Poll(t) \/ Lost(t) \/ PauseLost(t) \/ SendPause(t) \/ Back(t)
                  \/ SendResume(t) \/ Watch(t) \/ Check(t) \/ Rekick(t)
                  \/ Wait(t) \/ Exit(t)

World(t) == Unplug(t) \/ Replug(t) \/ Stall(t) \/ Age(t)

Next ==
  \/ Operator
  \/ \E t \in Tracks : Supervise(t) \/ TakeCommand(t) \/ Callback(t) \/ World(t)

Spec == Init /\ [][Next]_vars

\* Threads that can run do run, time passes for a stream that delivers nothing,
\* and a command once given goes on.  Nobody has to press a button, and nothing
\* is assumed of the device.
FairSpec ==
  /\ Spec
  /\ WF_vars(SetFlag) /\ WF_vars(SendCommand) /\ WF_vars(Stopping)
  /\ \A t \in Tracks : /\ WF_vars(Supervise(t)) /\ WF_vars(TakeCommand(t))
                       /\ WF_vars(Callback(t)) /\ WF_vars(Age(t))

-----------------------------------------------------------------------------
(***************************************************************************)
(* Nothing follows a Stop in a track's channel, and when stop_capture has  *)
(* gone past a track neither of its threads is left (CaptureSession::stop  *)
(* joins the supervisor before it sends Stop).                             *)
(***************************************************************************)
StopIsLast ==
  \A t \in Tracks :
    /\ \A k \in 1 .. Len(queue[t]) : queue[t][k] = "Stop" => k = Len(queue[t])
    /\ capture[t] = "ended" =>
         queue[t] = <<>> /\ ~playing[t] /\ sup[t] = "ended"
    /\ ui = "stopped" => capture[t] = "ended"

\* Nobody is in the middle of anything that concerns track t.
Settled(t) ==
  cmd = "none" /\ queue[t] = <<>> /\ sup[t] \in {"top", "wait"}

(***************************************************************************)
(* When everything under way has been carried out, a track plays exactly   *)
(* if it is not marked paused: losses, returns and restarts of the stream  *)
(* leave the flag and the stream in agreement.                             *)
(***************************************************************************)
FlagMatchesStream ==
  \A t \in Tracks : Settled(t) /\ capture[t] = "up" => (playing[t] <=> ~paused[t])

(***************************************************************************)
(* A stop command comes to an end, whatever the devices and supervisors do.*)
(***************************************************************************)
StopCompletes == cmd = "Stop" ~> ui = "stopped"

(***************************************************************************)
(* When the devices stay plugged in, the recording goes on by itself after *)
(* an outage (auto_resume) until it is stopped.                            *)
(***************************************************************************)
OutageEnds ==
  <>[](ui \in {"recording", "paused"} /\ \A t \in Tracks : device[t])
    => <>[](\A t \in Tracks : Delivers(t) /\ ~paused[t])

(***************************************************************************)
(* The session as recorder/session.rs describes it.  The pause flag and    *)
(* the supervisor's device_paused stand for the state and its pause reason.*)
(***************************************************************************)
Machine == INSTANCE SessionMachine WITH
  state <- IF ui = "idle" THEN "Idle"
           ELSE IF ui = "stopping" THEN "Stopping"
           ELSE IF ui = "stopped" THEN (IF failed THEN "Error" ELSE "Stopped")
           ELSE IF paused[1] THEN "Paused" ELSE "Recording",
  reason <- IF ui \in {"recording", "paused"} /\ paused[1]
            THEN (IF devPaused[1] THEN "DeviceLost" ELSE "Operator")
            ELSE "None"

ImplementsMachine == Machine!Spec
=============================================================================
