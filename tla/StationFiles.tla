---------------------------- MODULE StationFiles ----------------------------
(* What the station keeps between two runs of the program and how it is set  *)
(* up: settings.json (ipc/mod.rs), and in the storage root the encrypted     *)
(* blobs of the cached session, the hall's operator and the administrator's  *)
(* PIN (store/auth_cache.rs, operator_profile.rs, admin_pin.rs).             *)
EXTENDS SettingsRegistry

CONSTANTS
  Deployments,   \* settings files a station may be delivered with
  Environments,  \* the environments the program is started in: sets of the
                 \* variables given ("key", "autonomous", "admin_pin", "profile")
  MaxBoots,      \* bound: starts of the program
  MaxFaults      \* bound: failing writes and crashes

VARIABLES
  up,            \* the program is running
  key,           \* the passphrase of the station key is in its environment
  file,          \* settings.json: whether it is there, and what it says
  blobs,         \* per storage root: cached session, profile, administrator's PIN
  installed,     \* the settings the station was set up with (history)
  boots, faults  \* starts and faults so far (bounds)

filesVars == <<up, key, file, blobs, installed, boots, faults>>

DataDir == "data_dir"              \* the root when storage.root_path is None
Roots == {DataDir, "other_disk"}
NoBlob == [id |-> None]
Hall == "hall"                     \* COURT_AUDIO_OPERATOR_ID of the profile

\* A PIN is identified with the person whose it is.  An empty hash belongs to
\* nobody, and no PIN matches it.
NoPin == "no_pin"

\* Planted bug: an empty hash lets everybody in.
VerifyPinLoosely(typed, kept) == kept = NoPin \/ typed = kept

VerifyPin(typed, kept) == kept # NoPin /\ typed = kept

\* load_settings: defaults when there is no file, an error (no settings) when
\* there is one that does not parse.
Loads == file.state # "corrupt"
Current == IF file.state = "ok" THEN file.settings ELSE Defaults
ResolveRoot(s) == IF s.storage.root_path = None THEN DataDir ELSE s.storage.root_path
Root == ResolveRoot(Current)

Written(s) == [state |-> "ok", settings |-> s]
Absent == [state |-> "absent", settings |-> Defaults]
Corrupt == [state |-> "corrupt", settings |-> Defaults]

ASSUME DeliveryAssumption ==
  \A s \in Deployments : IsSettings(s) /\ ResolveRoot(s) \in Roots

Fault == /\ faults < MaxFaults
         /\ faults' = faults + 1

FilesInit ==
  /\ up = FALSE /\ key = FALSE
  /\ file \in {Absent} \union {Written(s) : s \in Deployments}
  /\ blobs = [r \in Roots |-> [cache |-> NoBlob, profile |-> NoBlob, admin_pin |-> FALSE]]
  /\ installed = file.settings
  /\ boots = 0 /\ faults = 0

\* seed_autonomous_offline_from_env_if_absent
Seeded(env) ==
  IF "autonomous" \in env /\ file.state = "absent"
  THEN Written([Defaults EXCEPT !.operator.autonomous_offline = TRUE])
  ELSE file

\* What the start adds to the blobs of a root: an administrator's PIN and,
\* where the autonomous start is allowed, a profile, when they are missing.
Provisioned(blob, s, env) ==
  [ blob EXCEPT
      !.admin_pin = @ \/ "admin_pin" \in env,
      !.profile = IF @ = NoBlob /\ s.operator.autonomous_offline /\ "profile" \in env
                  THEN [id |-> Hall, pin |-> Hall] ELSE @ ]

\* setup: the seeded file first, then the settings as they are now; without
\* the key nothing is provisioned.
Boot ==
  /\ ~up /\ boots < MaxBoots
  /\ up' = TRUE /\ boots' = boots + 1
  /\ \E env \in Environments :
       /\ key' = ("key" \in env)
       /\ file' = Seeded(env)
       /\ installed' = IF file' # file THEN file'.settings ELSE installed
       /\ LET s == IF file'.state = "ok" THEN file'.settings ELSE Defaults
              r == ResolveRoot(s)
          IN  blobs' = IF file'.state # "corrupt" /\ "key" \in env
                       THEN [blobs EXCEPT ![r] = Provisioned(@, s, env)] ELSE blobs
  /\ UNCHANGED faults
=============================================================================
