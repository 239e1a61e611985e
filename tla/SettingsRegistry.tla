-------------------------- MODULE SettingsRegistry --------------------------
(* The settings of the station by group, with their defaults (settings.rs),  *)
(* and what is decided from them alone: who may change what                  *)
(* (ipc/settings_gate.rs) and which tracks a recording has (audio/tracks.rs).*)
(* Of every group the parameters are kept that some decision of the station  *)
(* branches on; sizes, rates, wording and switches nobody reads are left out.*)
EXTENDS Integers, Sequences, FiniteSets

None == "none"                      \* an Option that is None

AudioDefaults ==
  [ device       |-> None,          \* the default device of the system
    roles        |-> {"judge", "clerk", "prosecution", "defense", "witness", "room"},
    multichannel |-> FALSE,
    tracks       |-> << >>,         \* of [device, role]
    clock_master |-> 0 ]
RecorderDefaults ==
  [segment_seconds |-> 30, flush_interval_ms |-> 1500, max_session_hours |-> 12]
ReliabilityDefaults ==
  [ watchdog_timeout_ms |-> 5000, disk_low_mb |-> 1024, disk_critical_mb |-> 256,
    auto_resume |-> TRUE, mirror |-> [enabled |-> FALSE, path |-> None] ]
StorageDefaults == [root_path |-> None, encrypt_at_rest |-> TRUE]
RetentionDefaults ==
  [ mode |-> "until_confirmed_plus_window", require_integrity_verified |-> TRUE,
    safety_window_hours |-> 72 ]
IntegrityDefaults == [hash_chain |-> TRUE, event_log |-> TRUE]
SyncDefaults ==
  [ server_base_url |-> None, auto_upload |-> TRUE, defer_during_recording |-> FALSE,
    max_attempts |-> 0 ]
OfflinePinDefaults == [required |-> TRUE, min_length |-> 4]
OperatorAuthDefaults ==
  [ required_to_start |-> TRUE, cached_session_hours |-> 24,
    offline_pin |-> OfflinePinDefaults, autonomous_offline |-> FALSE ]
CaseCacheDefaults == [enabled |-> TRUE, encrypt |-> TRUE, ttl_hours |-> 24, max_records |-> 500]
MarkersDefaults == [categories |-> {"bookmark", "incident", "break", "other"}]
PlayerDefaults == [rates |-> {50, 75, 100, 125, 150, 200}]   \* per cent
ExportDefaults == [policy |-> "allowed"]
AdminPinDefaults == [required |-> TRUE, min_length |-> 4]
UiDefaults == [compact_overlay |-> FALSE]

Defaults ==
  [ audio       |-> AudioDefaults,
    recorder    |-> RecorderDefaults,
    reliability |-> ReliabilityDefaults,
    storage     |-> StorageDefaults,
    retention   |-> RetentionDefaults,
    integrity   |-> IntegrityDefaults,
    sync        |-> SyncDefaults,
    operator    |-> OperatorAuthDefaults,
    case_cache  |-> CaseCacheDefaults,
    markers     |-> MarkersDefaults,
    player      |-> PlayerDefaults,
    export      |-> ExportDefaults,
    admin_pin   |-> AdminPinDefaults,
    ui          |-> UiDefaults ]

IsList(l) == Len(l) \in Nat /\ l = [i \in 1 .. Len(l) |-> l[i]]

\* What the type Settings holds: every group with every parameter, the missing
\* ones filled in from the defaults when a file is read.
IsSettings(s) ==
  /\ s = [g \in DOMAIN Defaults |-> s[g]]
  /\ \A g \in DOMAIN Defaults : s[g] = [p \in DOMAIN Defaults[g] |-> s[g][p]]
  /\ s.integrity.event_log \in BOOLEAN
  /\ IsList(s.audio.tracks)
-----------------------------------------------------------------------------
\* The operator's own parameters, laid over the current settings, give the
\* incoming ones: nothing else has changed.
OnlyOperatorChanged(current, incoming) ==
  incoming = [current EXCEPT !.audio.device = incoming.audio.device,
                             !.audio.roles = incoming.audio.roles,
                             !.markers.categories = incoming.markers.categories,
                             !.player = incoming.player]

\* Changes that are to be confirmed and are marked in the log.
DangerousChanges(current, incoming) ==
  {k \in {"server_url", "disable_encryption", "loosen_retention"} :
     \/ k = "server_url" /\ current.sync.server_base_url # incoming.sync.server_base_url
     \/ /\ k = "disable_encryption"
        /\ current.storage.encrypt_at_rest /\ ~incoming.storage.encrypt_at_rest
     \/ /\ k = "loosen_retention"
        /\ \/ current.retention.mode # incoming.retention.mode
           \/ /\ current.retention.require_integrity_verified
              /\ ~incoming.retention.require_integrity_verified}

\* authorize_save: the administrator first, then the confirmation.
AuthorizeSave(current, incoming, unlocked, required, confirmed) ==
  CASE ~OnlyOperatorChanged(current, incoming) /\ required /\ ~unlocked -> "need_admin"
    [] DangerousChanges(current, incoming) # {} /\ ~confirmed -> "need_confirmation"
    [] OTHER -> "allow"

\* The parameters that differ, by [group, parameter], with the new value.
DiffJson(old, new) ==
  LET paths == UNION {{g} \X DOMAIN old[g] : g \in DOMAIN old}
  IN  [path \in {q \in paths : old[q[1]][q[2]] # new[q[1]][q[2]]} |-> new[path[1]][path[2]]]
-----------------------------------------------------------------------------
\* A recording has one track, of the common device, unless several are wanted
\* and named.
Multichannel(s) == s.audio.multichannel /\ s.audio.tracks # << >>
TrackDevice(s, tc) == IF tc.device # None THEN tc.device ELSE s.audio.device
ValidRole(s, role) == role # "" /\ role \in s.audio.roles

\* resolve_tracks fails when there are no roles, when the track whose clock
\* leads is none of them, or when a track has a role that is not in the list.
TracksResolve(s) ==
  Multichannel(s) =>
    /\ s.audio.roles # {}
    /\ s.audio.clock_master < Len(s.audio.tracks)
    /\ \A i \in DOMAIN s.audio.tracks : ValidRole(s, s.audio.tracks[i].role)

ResolvedTracks(s) ==
  IF ~Multichannel(s) THEN <<[device |-> s.audio.device, role |-> "single"]>>
  ELSE [i \in DOMAIN s.audio.tracks |->
          [ device |-> TrackDevice(s, s.audio.tracks[i]), role |-> s.audio.tracks[i].role ]]
=============================================================================
