---------------------------- MODULE SettingsGate ----------------------------
(* Changes of the settings: unlocking with the administrator's PIN, the save *)
(* that both the window and the import of a profile go through, and its log  *)
(* (ipc/admin_cmds.rs, store/settings_audit.rs).  The file is written before *)
(* the log, and the log goes to the root of the settings before the change.  *)
EXTENDS StationFiles

CONSTANTS
  Edits,         \* what one save may change
  Edited(_, _),  \* some settings after such an edit
  MaxSaves       \* bound: saves that are accepted

VARIABLES
  unlocked,      \* AdminState
  audit,         \* the rows of settings_audit, oldest first
  unlogged,      \* a change was written and its row was not (history)
  saves          \* accepted saves so far (bound)

gateVars == <<unlocked, audit, unlogged, saves>>

AdminUnlock ==
  /\ up /\ Loads /\ key /\ blobs[Root].admin_pin /\ ~unlocked
  /\ unlocked' = TRUE
  /\ UNCHANGED <<audit, unlogged, saves>>

AdminLock ==
  /\ up /\ Loads /\ unlocked
  /\ unlocked' = FALSE
  /\ UNCHANGED <<audit, unlogged, saves>>

AdminChangeDenied(s, admin_change) == admin_change /\ s.admin_pin.required /\ ~unlocked

\* Planted bug: the save is judged by the policy it brings.
PolicyIncoming(current, incoming) == incoming

\* Planted bug: whether a change is logged is decided by what it brings.
LogsByIncoming(current, incoming) == incoming.integrity.event_log

\* The policy a save is judged by, and the settings that say whether it is
\* logged: the current ones.
PolicyOf(current, incoming) == current
LogsChanges(current, incoming) == current.integrity.event_log

\* What the window, or the profile of another station, may bring.
Incoming == {Edited(edit, Current) : edit \in Edits}

\* apply_settings_save gets as far as writing the file.
Accepted(incoming, force_admin, confirmed) ==
  LET policy == PolicyOf(Current, incoming)
  IN  /\ ~AdminChangeDenied(policy, force_admin \/ ~OnlyOperatorChanged(Current, incoming))
      /\ AuthorizeSave(Current, incoming, unlocked, policy.admin_pin.required, confirmed)
           = "allow"

Row(incoming) ==
  [ dangerous |-> DangerousChanges(Current, incoming) # {},
    changes |-> DiffJson(Current, incoming) ]

\* The file is written and the row with it, when the log is on and something
\* has changed.  A failing log is an error of the save; the file stays.
Save(incoming, source, confirmed) ==
  /\ up /\ Loads /\ saves < MaxSaves
  /\ Accepted(incoming, source = "import", confirmed)
  /\ saves' = saves + 1
  /\ file' = Written(incoming)
  /\ \/ /\ audit' = IF LogsChanges(Current, incoming) /\ incoming # Current
                    THEN Append(audit, Row(incoming)) ELSE audit
        /\ UNCHANGED <<unlogged, faults>>
     \/ /\ LogsChanges(Current, incoming) /\ incoming # Current
        /\ Fault /\ unlogged' = TRUE
        /\ UNCHANGED audit
  /\ UNCHANGED <<up, key, blobs, installed, boots, unlocked>>

\* The station loses its power inside a save: the file is cut short, or whole
\* and without its row.
SaveCutShort(incoming, source, confirmed) ==
  /\ up /\ Loads /\ saves < MaxSaves
  /\ Accepted(incoming, source = "import", confirmed)
  /\ Fault /\ saves' = saves + 1
  /\ up' = FALSE /\ unlocked' = FALSE
  /\ \/ file' = Corrupt /\ UNCHANGED unlogged
     \/ file' = Written(incoming) /\ unlogged' = (unlogged \/ incoming # Current)
  /\ UNCHANGED <<key, blobs, installed, boots, audit>>

GateInit == unlocked = FALSE /\ audit = << >> /\ unlogged = FALSE /\ saves = 0

GateNext ==
  \E incoming \in Incoming, source \in {"manual", "import"}, confirmed \in BOOLEAN :
    Save(incoming, source, confirmed)
GateCutShort ==
  \E incoming \in Incoming, source \in {"manual", "import"}, confirmed \in BOOLEAN :
    SaveCutShort(incoming, source, confirmed)
-----------------------------------------------------------------------------
\* What only the administrator may change: all but four parameters.
AdminScope(s) ==
  [s EXCEPT !.audio.device = None, !.audio.roles = {}, !.markers.categories = {}, !.player = None]

\* An administrator's parameter changes only while the access is unlocked, or
\* under settings that ask for no PIN, whatever the incoming settings say of
\* it; only the set-up of a station without settings needs neither.
GateHolds ==
  [][ file' # file /\ file'.state = "ok" =>
        \/ AdminScope(file'.settings) = AdminScope(Current)
        \/ unlocked \/ ~Current.admin_pin.required
        \/ ~up /\ file.state = "absent" ]_file

\* The settings as the log tells them, from the set-up on.
Replayed(n) ==
  LET told[i \in 0 .. n] ==
        IF i = 0 THEN installed
        ELSE [g \in DOMAIN told[i-1] |-> [p \in DOMAIN told[i-1][g] |->
               IF <<g, p>> \in DOMAIN audit[i].changes THEN audit[i].changes[<<g, p>>]
               ELSE told[i-1][g][p]]]
  IN  told[n]

\* The log explains the settings in force: as long as it says that it is on,
\* what it tells is what the file says, over every order of saves, imports and
\* restarts.  Turning it off is the last it tells; a row that could not be
\* written, or a crash before it, is the only exception.
LogTellsTheSettings ==
  Loads /\ ~unlogged /\ Replayed(Len(audit)).integrity.event_log
    => Replayed(Len(audit)) = Current
=============================================================================
