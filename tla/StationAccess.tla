---------------------------- MODULE StationAccess ----------------------------
(* Login and settings of one station together, over starts and stops of the  *)
(* program: the gates of a new recording (ipc/audio_cmds.rs) and the         *)
(* self-test that is to tell beforehand whether they open                    *)
(* (ipc/selftest_cmds.rs).                                                   *)
EXTENDS OperatorLogin, SettingsGate

CONSTANT Microphones               \* names of input devices

accessVars == <<filesVars, loginVars, gateVars>>

\* ensure_start_allowed, after the settings have been read.
StartAllowed == Loads /\ (Current.operator.required_to_start => Present)

\* segment_encryption_key: no recording in plain text for want of a key.
KeyForSegments == Current.storage.encrypt_at_rest => key

\* pick_device: a named device is that one or none.
PickDevice(name, plugged) == IF name = None THEN plugged # {} ELSE name \in plugged

\* start_capture gets as far as the stream of every track.
CaptureStarts(plugged) ==
  /\ StartAllowed /\ KeyForSegments
  /\ TracksResolve(Current)
  /\ \A i \in DOMAIN ResolvedTracks(Current) :
       PickDevice(ResolvedTracks(Current)[i].device, plugged)

\* Planted bug: a missing key is a warning, whatever is to be encrypted.
KeyCheckWarns == "warn"

KeyCheck ==
  IF key THEN "ok" ELSE IF Current.storage.encrypt_at_rest THEN "fail" ELSE "warn"

\* build_report: the checks that can fail; the server and unfinished sessions
\* only warn, and so does a selected device that is missing.
Report(plugged, free_mb) ==
  [ device |-> IF plugged = {} THEN "fail"
               ELSE IF PickDevice(Current.audio.device, plugged) THEN "ok" ELSE "warn",
    disk |-> IF free_mb <= Current.reliability.disk_critical_mb THEN "fail"
             ELSE IF free_mb <= Current.reliability.disk_low_mb THEN "warn" ELSE "ok",
    operator |-> IF Current.operator.required_to_start /\ ~Present THEN "fail" ELSE "ok",
    station_key |-> KeyCheck ]

SelfTestReady(plugged, free_mb) ==
  /\ Loads
  /\ \A c \in {"device", "disk", "operator", "station_key"} : Report(plugged, free_mb)[c] # "fail"
-----------------------------------------------------------------------------
\* The program is left, or killed: what is only in memory goes.
Leave ==
  /\ up /\ up' = FALSE
  /\ Forgotten /\ unlocked' = FALSE
  /\ UNCHANGED <<key, file, blobs, installed, boots, faults, clock, audit, unlogged, saves>>

AccessInit == FilesInit /\ LoginInit /\ GateInit

AccessNext ==
  \/ Boot /\ UNCHANGED <<loginVars, gateVars>>
  \/ Leave
  \/ LoginNext /\ UNCHANGED gateVars
  \/ (AdminUnlock \/ AdminLock) /\ UNCHANGED <<filesVars, loginVars>>
  \/ GateNext /\ UNCHANGED loginVars
  \/ GateCutShort /\ Forgotten /\ UNCHANGED clock

AccessSpec == AccessInit /\ [][AccessNext]_accessVars /\ LoginFairness
-----------------------------------------------------------------------------
\* The self-test and the start decide alike, whatever the settings have become
\* since the login: when a recording may begin, neither the login nor the key
\* of the station refuses it; and when it would begin, no check of the login,
\* the key or the devices says that it may not.  (Not more: a selected device
\* that is missing is only warned about, and then the start fails.)
ReadyPassesTheGates ==
  up => \A plugged \in SUBSET Microphones :
          LET free_mb == Current.reliability.disk_low_mb
          IN  /\ SelfTestReady(plugged, free_mb) => StartAllowed /\ KeyForSegments
              /\ CaptureStarts(plugged) =>
                   \A c \in {"device", "operator", "station_key"} :
                     Report(plugged, free_mb)[c] # "fail"
=============================================================================
