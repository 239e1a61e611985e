------------------------- MODULE StationAccess_proof -------------------------
(* What TLC checks of the administrator's gate, of the log, of the PINs and  *)
(* of the self-test with a few switches, proved for every set of operators,  *)
(* deliveries, environments and edits of the settings, and for any number of *)
(* starts, saves and faults.                                                 *)
EXTENDS StationAccess, TLAPS

\* The action GateHolds speaks of.
GateStep ==
  file' # file /\ file'.state = "ok" =>
    \/ AdminScope(file'.settings) = AdminScope(Current)
    \/ unlocked \/ ~Current.admin_pin.required
    \/ ~up /\ file.state = "absent"

\* The operator's own parameters are outside of what the administrator guards.
LEMMA OperatorsOwn ==
  ASSUME NEW current, NEW incoming, OnlyOperatorChanged(current, incoming)
  PROVE  AdminScope(incoming) = AdminScope(current)
<1> DEFINE d == incoming.audio.device
           r == incoming.audio.roles
           k == incoming.markers.categories
           p == incoming.player
<1>1. incoming = [current EXCEPT !.audio.device = d, !.audio.roles = r,
                                 !.markers.categories = k, !.player = p]
  BY DEF OnlyOperatorChanged
<1> HIDE DEF d, r, k, p
<1> QED
  BY <1>1 DEF AdminScope

\* A save that is accepted is the operator's own, or the access is unlocked, or
\* the settings in force ask for no PIN (apply_settings_save).
LEMMA AcceptedPassesTheGate ==
  ASSUME NEW incoming, NEW force, NEW confirmed, Accepted(incoming, force, confirmed)
  PROVE  \/ AdminScope(incoming) = AdminScope(Current)
         \/ unlocked \/ ~Current.admin_pin.required
<1>1. CASE OnlyOperatorChanged(Current, incoming)
  BY <1>1, OperatorsOwn
<1>2. CASE ~OnlyOperatorChanged(Current, incoming)
  BY <1>2 DEF Accepted, PolicyOf, AdminChangeDenied
<1> QED
  BY <1>1, <1>2

LEMMA StepPassesTheGate == [AccessNext]_accessVars => [GateStep]_file
<1> SUFFICES ASSUME [AccessNext]_accessVars, file' # file
             PROVE  GateStep
  OBVIOUS
<1>1. CASE Boot
  BY <1>1 DEF Boot, Seeded, GateStep
<1>2. CASE GateNext
  <2>1. PICK incoming \in Incoming, source \in {"manual", "import"}, confirmed \in BOOLEAN :
          Save(incoming, source, confirmed)
    BY <1>2 DEF GateNext
  <2>2. Accepted(incoming, source = "import", confirmed) /\ file' = Written(incoming)
    BY <2>1 DEF Save
  <2> QED
    BY <2>2, AcceptedPassesTheGate DEF GateStep, Written
<1>3. CASE GateCutShort
  <2>1. PICK incoming \in Incoming, source \in {"manual", "import"}, confirmed \in BOOLEAN :
          SaveCutShort(incoming, source, confirmed)
    BY <1>3 DEF GateCutShort
  <2>2. /\ Accepted(incoming, source = "import", confirmed)
        /\ file' = Written(incoming) \/ file' = Corrupt
    BY <2>1 DEF SaveCutShort
  <2> QED
    BY <2>2, AcceptedPassesTheGate DEF GateStep, Written, Corrupt
<1>4. CASE Leave
  BY <1>4 DEF Leave
<1>5. CASE LoginNext
  BY <1>5 DEF LoginNext, Login, UnlockOffline, UnlockAutonomous, Logout, Reconnect,
              SchedulerAsks, SchedulerAnswered, SchedulerUnanswered, ClockMoves, filesVars
<1>6. CASE UNCHANGED filesVars
  BY <1>6 DEF filesVars
<1> QED
  BY <1>1, <1>2, <1>3, <1>4, <1>5, <1>6 DEF AccessNext, accessVars

\* Nobody but the administrator changes what is the administrator's, in any
\* sequence of logins, saves, imports, crashes and restarts: the save is judged
\* by the settings in force and not by those it brings (ipc/admin_cmds.rs).
THEOREM GateKept == AccessSpec => GateHolds
BY StepPassesTheGate, PTL DEF AccessSpec, GateHolds, GateStep

-----------------------------------------------------------------------------
(***************************************************************************)
(* The log of the settings.  Its rows laid over the settings of the set-up *)
(* come to the settings in force for as long as they say that the log is   *)
(* on; while it is off nothing is appended that turns it on again.         *)
(***************************************************************************)
\* An edit gives settings again: what the window and an imported profile bring
\* is read into the same type.
EditsAreSettings == \A edit \in Edits : \A s : IsSettings(s) => IsSettings(Edited(edit, s))

\* The changes of one row laid over some settings.
Laid(s, changes) ==
  [g \in DOMAIN s |-> [p \in DOMAIN s[g] |->
     IF <<g, p>> \in DOMAIN changes THEN changes[<<g, p>>] ELSE s[g][p]]]

\* f goes through n rows of a log from the set-up on.
Tells(f, n, setup, log) ==
  f = [i \in 0 .. n |-> IF i = 0 THEN setup ELSE Laid(f[i-1], log[i].changes)]

LEMMA TellsAt ==
  ASSUME NEW f, NEW n \in Nat, NEW setup, NEW log
  PROVE  Tells(f, n, setup, log) <=>
           /\ f = [i \in 0 .. n |-> f[i]]
           /\ \A i \in 0 .. n :
                f[i] = IF i = 0 THEN setup ELSE Laid(f[i-1], log[i].changes)
<1>1. ASSUME Tells(f, n, setup, log)
      PROVE  /\ f = [i \in 0 .. n |-> f[i]]
             /\ \A i \in 0 .. n :
                  f[i] = IF i = 0 THEN setup ELSE Laid(f[i-1], log[i].changes)
  BY <1>1 DEF Tells
<1>2. ASSUME f = [i \in 0 .. n |-> f[i]],
             \A i \in 0 .. n : f[i] = IF i = 0 THEN setup ELSE Laid(f[i-1], log[i].changes)
      PROVE  Tells(f, n, setup, log)
  BY <1>2 DEF Tells
<1> QED
  BY <1>1, <1>2

LogInv ==
  /\ file.state = "ok" => IsSettings(file.settings)
  /\ file.state = "absent" => audit = << >> /\ installed = Defaults
  /\ unlogged \in BOOLEAN /\ \E R : audit \in Seq(R)
  /\ \E f : Tells(f, Len(audit), installed, audit)
  /\ \A f : Tells(f, Len(audit), installed, audit) =>
       LET told == f[Len(audit)]
       IN  /\ IsSettings(told)
           /\ Loads /\ ~unlogged /\ told.integrity.event_log => told = Current

LEMMA ReplayIs ==
  ASSUME NEW n
  PROVE  Replayed(n) = (CHOOSE f : Tells(f, n, installed, audit))[n]
BY DEF Replayed, Tells, Laid

LEMMA DefaultsAre ==
  /\ IsSettings(Defaults)
  /\ "integrity" \in DOMAIN Defaults /\ "event_log" \in DOMAIN Defaults["integrity"]
  /\ "audio" \in DOMAIN Defaults /\ "tracks" \in DOMAIN Defaults["audio"]
<1> DEFINE Function(f) == f = [p \in DOMAIN f |-> f[p]]
<1>1. \A g \in DOMAIN Defaults : Defaults[g] = [p \in DOMAIN Defaults[g] |-> Defaults[g][p]]
  <2>1. Function(AudioDefaults) /\ Function(RecorderDefaults)
    <3>1. Function(RecorderDefaults)
      BY DEF RecorderDefaults
    <3>2. ASSUME NEW device, NEW roles, NEW multi, NEW tracks, NEW master
          PROVE  Function([device |-> device, roles |-> roles, multichannel |-> multi,
                           tracks |-> tracks, clock_master |-> master])
      OBVIOUS
    <3> QED
      BY <3>1, <3>2 DEF AudioDefaults
  <2>2. Function(ReliabilityDefaults) /\ Function(StorageDefaults)
    BY DEF ReliabilityDefaults, StorageDefaults
  <2>3. Function(RetentionDefaults) /\ Function(IntegrityDefaults)
    BY DEF RetentionDefaults, IntegrityDefaults
  <2>4. Function(SyncDefaults) /\ Function(OperatorAuthDefaults)
    BY DEF SyncDefaults, OperatorAuthDefaults
  <2>5. Function(CaseCacheDefaults) /\ Function(MarkersDefaults)
    BY DEF CaseCacheDefaults, MarkersDefaults
  <2>6. Function(PlayerDefaults) /\ Function(ExportDefaults)
    BY DEF PlayerDefaults, ExportDefaults
  <2>7. Function(AdminPinDefaults) /\ Function(UiDefaults)
    BY DEF AdminPinDefaults, UiDefaults
  <2>8. \A g \in DOMAIN Defaults : Function(Defaults[g])
    BY <2>1, <2>2, <2>3, <2>4, <2>5, <2>6, <2>7 DEF Defaults
  <2> QED
    BY <2>8
<1>2. Defaults = [g \in DOMAIN Defaults |-> Defaults[g]]
  BY DEF Defaults
<1>3. "integrity" \in DOMAIN Defaults /\ Defaults.integrity = IntegrityDefaults
  BY DEF Defaults
<1>4. "event_log" \in DOMAIN IntegrityDefaults /\ IntegrityDefaults.event_log = TRUE
  BY DEF IntegrityDefaults
<1>5. "audio" \in DOMAIN Defaults /\ Defaults.audio = AudioDefaults
  BY DEF Defaults
<1>6. "tracks" \in DOMAIN AudioDefaults /\ AudioDefaults.tracks = << >>
  BY DEF AudioDefaults
<1>7. IsList(<< >>)
  BY DEF IsList
<1> QED
  BY <1>1, <1>2, <1>3, <1>4, <1>5, <1>6, <1>7 DEF IsSettings

LEMMA SeededAre == IsSettings([Defaults EXCEPT !.operator.autonomous_offline = TRUE])
<1> DEFINE s == [Defaults EXCEPT !.operator.autonomous_offline = TRUE]
<1>1. "operator" \in DOMAIN Defaults
  BY DEF Defaults
<1>2. s = [g \in DOMAIN Defaults |-> s[g]] /\ s.operator = [Defaults.operator EXCEPT !.autonomous_offline = TRUE]
  BY <1>1, DefaultsAre DEF IsSettings
<1>3. \A g \in DOMAIN Defaults : g # "operator" => s[g] = Defaults[g]
  BY <1>1, DefaultsAre DEF IsSettings
<1>4. s.operator = [p \in DOMAIN Defaults["operator"] |-> s.operator[p]]
  BY <1>1, <1>2, DefaultsAre DEF IsSettings
<1>5. s.integrity.event_log \in BOOLEAN /\ IsList(s.audio.tracks)
  BY <1>3, DefaultsAre DEF IsSettings
<1> HIDE DEF s
<1>6. \A g \in DOMAIN Defaults : s[g] = [p \in DOMAIN Defaults[g] |-> s[g][p]]
  BY <1>3, <1>4, DefaultsAre DEF IsSettings
<1>7. IsSettings(s)
  BY <1>2, <1>5, <1>6 DEF IsSettings
<1> QED
  BY <1>7 DEF s

\* What has changed, laid over the old settings, gives the new ones.
LEMMA DiffLaid ==
  ASSUME NEW old, NEW new, IsSettings(old), IsSettings(new)
  PROVE  Laid(old, DiffJson(old, new)) = new
<1> DEFINE d == DiffJson(old, new)
<1>1. ASSUME NEW g \in DOMAIN Defaults, NEW p \in DOMAIN Defaults[g]
      PROVE  (IF <<g, p>> \in DOMAIN d THEN d[<<g, p>>] ELSE old[g][p]) = new[g][p]
  <2>1. g \in DOMAIN old /\ p \in DOMAIN old[g]
    BY DEF IsSettings
  <2>2. <<g, p>> \in UNION {{h} \X DOMAIN old[h] : h \in DOMAIN old}
    BY <2>1
  <2>3. CASE old[g][p] # new[g][p]
    BY <2>2, <2>3 DEF DiffJson
  <2>4. CASE old[g][p] = new[g][p]
    BY <2>2, <2>4 DEF DiffJson
  <2> QED
    BY <2>3, <2>4
<1> HIDE DEF d
<1>2. DOMAIN old = DOMAIN Defaults /\ \A g \in DOMAIN Defaults : DOMAIN old[g] = DOMAIN Defaults[g]
  BY DEF IsSettings
<1>3. /\ new = [g \in DOMAIN Defaults |-> new[g]]
      /\ \A g \in DOMAIN Defaults : new[g] = [p \in DOMAIN Defaults[g] |-> new[g][p]]
  BY DEF IsSettings
<1>4. \A g \in DOMAIN Defaults :
        [p \in DOMAIN old[g] |-> IF <<g, p>> \in DOMAIN d THEN d[<<g, p>>] ELSE old[g][p]] = new[g]
  BY <1>1, <1>2, <1>3
<1>5. Laid(old, d) = new
  BY <1>2, <1>3, <1>4 DEF Laid
<1> QED
  BY <1>5 DEF d

\* Laid over any settings it gives settings, and turns the log on only where
\* it was off before.
LEMMA DiffOverAny ==
  ASSUME NEW s, NEW old, NEW new, IsSettings(s), IsSettings(old), IsSettings(new),
         old.integrity.event_log
  PROVE  /\ IsSettings(Laid(s, DiffJson(old, new)))
         /\ Laid(s, DiffJson(old, new)).integrity.event_log => s.integrity.event_log
<1> DEFINE d == DiffJson(old, new)
           l == Laid(s, d)
<1>1. /\ l = [g \in DOMAIN Defaults |-> l[g]]
      /\ \A g \in DOMAIN Defaults : l[g] = [p \in DOMAIN Defaults[g] |-> l[g][p]]
  BY DEF IsSettings, Laid
<1>2. \A q \in DOMAIN d : d[q] = new[q[1]][q[2]] /\ old[q[1]][q[2]] # new[q[1]][q[2]]
  BY DEF DiffJson
<1> HIDE DEF d
<1>3. \A g \in DOMAIN Defaults : \A p \in DOMAIN Defaults[g] :
        l[g][p] = IF <<g, p>> \in DOMAIN d THEN d[<<g, p>>] ELSE s[g][p]
  BY DEF IsSettings, Laid
<1> HIDE DEF l
<1>4. l["audio"]["tracks"] = new["audio"]["tracks"] \/ l["audio"]["tracks"] = s["audio"]["tracks"]
  <2>1. l["audio"]["tracks"] =
          IF <<"audio", "tracks">> \in DOMAIN d THEN d[<<"audio", "tracks">>]
          ELSE s["audio"]["tracks"]
    BY <1>3, DefaultsAre
  <2>2. <<"audio", "tracks">> \in DOMAIN d => d[<<"audio", "tracks">>] = new["audio"]["tracks"]
    BY <1>2
  <2> QED
    BY <2>1, <2>2, Zenon
<1>5. \/ l["integrity"]["event_log"] = FALSE
      \/ l["integrity"]["event_log"] = s["integrity"]["event_log"]
  <2>0. l["integrity"]["event_log"] =
          IF <<"integrity", "event_log">> \in DOMAIN d THEN d[<<"integrity", "event_log">>]
          ELSE s["integrity"]["event_log"]
    BY <1>3, DefaultsAre
  <2>1. CASE <<"integrity", "event_log">> \in DOMAIN d
    <3>1. d[<<"integrity", "event_log">>] = new["integrity"]["event_log"]
          /\ old["integrity"]["event_log"] # new["integrity"]["event_log"]
      BY <1>2, <2>1
    <3>2. new["integrity"]["event_log"] = FALSE
      BY <3>1 DEF IsSettings
    <3> QED
      BY <2>0, <2>1, <3>1, <3>2, Zenon
  <2>2. CASE <<"integrity", "event_log">> \notin DOMAIN d
    BY <2>0, <2>2, Zenon
  <2> QED
    BY <2>1, <2>2
<1>6. l["integrity"]["event_log"] \in BOOLEAN
  BY <1>5 DEF IsSettings
<1>7. IsList(l["audio"]["tracks"])
  BY <1>4 DEF IsSettings
<1>8. IsSettings(l)
  BY <1>1, <1>6, <1>7 DEF IsSettings
<1>9. l["integrity"]["event_log"] => s["integrity"]["event_log"]
  BY <1>5, Zenon
<1> QED
  BY <1>8, <1>9 DEF l, d

LEMMA CurrentIs ==
  ASSUME LogInv
  PROVE  IsSettings(Current)
BY DefaultsAre DEF LogInv, Current

\* With no rows the log tells the settings of the set-up.
LEMMA EmptyTells ==
  ASSUME NEW setup
  PROVE  /\ Len(<< >>) = 0 /\ \E R : << >> \in Seq(R)
         /\ \E f : Tells(f, 0, setup, << >>)
         /\ \A f : Tells(f, 0, setup, << >>) => f[0] = setup
<1> DEFINE none == << >>
           base == [i \in 0 .. 0 |-> setup]
<1>1. Len(none) = 0 /\ none \in Seq({})
  OBVIOUS
<1>2. base = [i \in 0 .. 0 |-> base[i]] /\ \A i \in 0 .. 0 : i = 0 /\ base[i] = setup
  OBVIOUS
<1> HIDE DEF none, base
<1>3. Tells(base, 0, setup, none)
  BY <1>2, TellsAt
<1>4. ASSUME NEW f, Tells(f, 0, setup, none) PROVE f[0] = setup
  BY <1>4 DEF Tells
<1>5. (\E R : none \in Seq(R)) /\ \E f : Tells(f, 0, setup, none)
  BY <1>1, <1>3
<1> QED
  BY <1>1, <1>4, <1>5 DEF none

LEMMA LogStart == AccessInit => LogInv
<1> SUFFICES ASSUME AccessInit PROVE LogInv
  OBVIOUS
<1>1. audit = << >> /\ unlogged = FALSE /\ installed = file.settings
  BY DEF AccessInit, GateInit, FilesInit
<1>2. /\ file.state \in {"absent", "ok"} /\ IsSettings(file.settings) /\ Current = file.settings
      /\ file.state = "absent" => file.settings = Defaults
  BY DefaultsAre, DeliveryAssumption DEF AccessInit, FilesInit, Absent, Written, Current
<1> QED
  BY <1>1, <1>2, EmptyTells DEF LogInv

\* The set-up of a station without settings.
LEMMA LogSeeded ==
  ASSUME LogInv, file.state = "absent", NEW s, IsSettings(s),
         file' = Written(s), installed' = s, audit' = audit, unlogged' = unlogged
  PROVE  LogInv'
<1>1. audit' = << >> /\ unlogged' \in BOOLEAN
  BY DEF LogInv
<1>2. file'.state = "ok" /\ file'.settings = s /\ Current' = s
  BY DEF Written, Current
<1> QED
  BY <1>1, <1>2, EmptyTells DEF LogInv

\* No row: nothing has changed, or the log is off, or its end is lost.
LEMMA LogKept ==
  ASSUME LogInv, installed' = installed, audit' = audit, unlogged' \in BOOLEAN,
         unlogged => unlogged',
         file'.state = "ok" => IsSettings(file'.settings),
         file'.state = "absent" => file.state = "absent",
         Loads' /\ ~unlogged' => Loads /\ (Current' = Current \/ ~Current.integrity.event_log)
  PROVE  LogInv'
<1>2. /\ (\E R : audit \in Seq(R))'
      /\ file'.state = "absent" => audit' = << >> /\ installed' = Defaults
      /\ \E f : Tells(f, Len(audit'), installed', audit')
  BY DEF LogInv
<1>3. ASSUME NEW f, Tells(f, Len(audit'), installed', audit')
      PROVE  LET told == f[Len(audit')]
             IN  /\ IsSettings(told)
                 /\ Loads' /\ ~unlogged' /\ told.integrity.event_log => told = Current'
  <2> DEFINE told == f[Len(audit)]
  <2>1. IsSettings(told) /\ (Loads /\ ~unlogged /\ told.integrity.event_log => told = Current)
    BY <1>3 DEF LogInv
  <2> HIDE DEF told
  <2>2. Loads' /\ ~unlogged' /\ told.integrity.event_log => told = Current'
    BY <2>1
  <2>3. told = f[Len(audit')]
    BY DEF told
  <2> QED
    BY <2>1, <2>2, <2>3
<1> QED
  BY <1>2, <1>3 DEF LogInv

\* A row more.
LEMMA LogAppended ==
  ASSUME LogInv, Loads, NEW s, IsSettings(s), Current.integrity.event_log,
         file' = Written(s), installed' = installed, unlogged' = unlogged,
         audit' = Append(audit, Row(s))
  PROVE  LogInv'
<1> DEFINE n == Len(audit)
           row == Row(s)
<1>1. /\ n \in Nat /\ Len(audit') = n + 1 /\ audit'[n + 1] = row
      /\ \A i \in 1 .. n : audit'[i] = audit[i]
  BY DEF LogInv
<1>2. \E R : audit' \in Seq(R)
  <2>1. PICK R : audit \in Seq(R)
    BY DEF LogInv
  <2>2. audit' \in Seq(R \union {row})
    BY <2>1
  <2> QED
    BY <2>2
<1>3. row.changes = DiffJson(Current, s) /\ IsSettings(Current)
  BY CurrentIs DEF Row
<1> HIDE DEF n, row
<1>4. \E f : Tells(f, n + 1, installed', audit')
  <2>1. PICK f : Tells(f, n, installed, audit)
    BY DEF LogInv, n
  <2> DEFINE h == [i \in 0 .. n + 1 |-> IF i = n + 1 THEN Laid(f[n], row.changes) ELSE f[i]]
  <2>2. \A i \in 0 .. n : h[i] = f[i] /\ f[i] = IF i = 0 THEN installed
                                               ELSE Laid(f[i-1], audit[i].changes)
    BY <1>1, <2>1, TellsAt
  <2>3. h[n + 1] = Laid(h[n], row.changes)
    BY <1>1
  <2>4. h = [i \in 0 .. n + 1 |-> h[i]]
    OBVIOUS
  <2> HIDE DEF h
  <2>5. \A i \in 0 .. n + 1 :
          h[i] = IF i = 0 THEN installed' ELSE Laid(h[i-1], audit'[i].changes)
    <3> SUFFICES ASSUME NEW i \in 0 .. n + 1
                 PROVE  h[i] = IF i = 0 THEN installed' ELSE Laid(h[i-1], audit'[i].changes)
      OBVIOUS
    <3>1. CASE i = n + 1
      BY <1>1, <2>3, <3>1
    <3>2. CASE i = 0
      BY <1>1, <2>2, <3>2
    <3>3. CASE i \in 1 .. n
      <4>1. i \in 0 .. n /\ i - 1 \in 0 .. n /\ i # 0
        BY <1>1, <3>3
      <4> QED
        BY <1>1, <2>2, <3>3, <4>1
    <3> QED
      BY <1>1, <3>1, <3>2, <3>3
  <2>6. Tells(h, n + 1, installed', audit')
    BY <1>1, <2>4, <2>5, TellsAt
  <2> QED
    BY <2>6
<1>5. ASSUME NEW f, Tells(f, n + 1, installed', audit')
      PROVE  LET told == f[n + 1]
             IN  /\ IsSettings(told)
                 /\ Loads' /\ ~unlogged' /\ told.integrity.event_log => told = Current'
  <2> DEFINE g == [i \in 0 .. n |-> f[i]]
  <2>1. \A i \in 0 .. n + 1 :
          f[i] = IF i = 0 THEN installed' ELSE Laid(f[i-1], audit'[i].changes)
    <3>1. n + 1 \in Nat
      BY <1>1
    <3> QED
      BY <1>5, <3>1 DEF Tells
  <2>2. \A i \in 0 .. n : g[i] = f[i]
    OBVIOUS
  <2>3. g = [i \in 0 .. n |-> g[i]]
    OBVIOUS
  <2> HIDE DEF g
  <2>4. \A i \in 0 .. n : g[i] = IF i = 0 THEN installed ELSE Laid(g[i-1], audit[i].changes)
    <3> SUFFICES ASSUME NEW i \in 0 .. n
                 PROVE  g[i] = IF i = 0 THEN installed ELSE Laid(g[i-1], audit[i].changes)
      OBVIOUS
    <3>1. i \in 0 .. n + 1 /\ (i # 0 => i - 1 \in 0 .. n /\ i \in 1 .. n)
      BY <1>1
    <3> QED
      BY <1>1, <2>1, <2>2, <3>1
  <2>5. Tells(g, n, installed, audit)
    BY <1>1, <2>3, <2>4, TellsAt
  <2> DEFINE was == g[n]
             told == f[n + 1]
  <2>6. IsSettings(was) /\ (~unlogged /\ was.integrity.event_log => was = Current)
    BY <2>5 DEF LogInv, n
  <2>7. told = Laid(was, DiffJson(Current, s))
    <3>1. f[n + 1] = Laid(f[n], row.changes) /\ g[n] = f[n]
      BY <1>1, <2>1, <2>2
    <3> QED
      BY <1>3, <3>1
  <2> HIDE DEF was, told
  <2>8. IsSettings(told) /\ (told.integrity.event_log => was.integrity.event_log)
    BY <1>3, <2>6, <2>7, DiffOverAny
  <2>9. was = Current => told = s
    BY <1>3, <2>7, DiffLaid
  <2>10. Current' = s
    BY DEF Current, Written
  <2>11. ~unlogged' /\ told.integrity.event_log => told = Current'
    BY <2>6, <2>8, <2>9, <2>10
  <2> QED
    BY <2>8, <2>11 DEF told
<1>6. file'.state = "ok" /\ file'.settings = s
  BY DEF Written
<1>7. Len(audit') = n + 1 /\ unlogged' \in BOOLEAN
  BY <1>1 DEF LogInv
<1> QED
  BY <1>2, <1>4, <1>5, <1>6, <1>7 DEF LogInv

LEMMA LogStep == LogInv /\ EditsAreSettings /\ [AccessNext]_accessVars => LogInv'
<1> SUFFICES ASSUME LogInv, EditsAreSettings, [AccessNext]_accessVars
             PROVE  LogInv'
  OBVIOUS
<1>0. IsSettings(Current) /\ unlogged \in BOOLEAN
      /\ (file.state = "ok" => IsSettings(file.settings))
  BY CurrentIs DEF LogInv
<1>1. CASE Boot /\ UNCHANGED gateVars
  <2>1. PICK env \in Environments :
          /\ file' = Seeded(env)
          /\ installed' = IF file' # file THEN file'.settings ELSE installed
    BY <1>1 DEF Boot
  <2>2. audit' = audit /\ unlogged' = unlogged
    BY <1>1 DEF gateVars
  <2>3. CASE file' = file
    BY <1>0, <2>1, <2>2, <2>3, LogKept DEF Loads, Current
  <2>4. CASE file' # file
    <3> DEFINE s == [Defaults EXCEPT !.operator.autonomous_offline = TRUE]
    <3>1. file.state = "absent" /\ file' = Written(s)
      BY <2>1, <2>4 DEF Seeded
    <3>2. IsSettings(s)
      BY SeededAre
    <3> HIDE DEF s
    <3>3. installed' = s
      BY <2>1, <2>4, <3>1 DEF Written
    <3> QED
      BY <2>2, <3>1, <3>2, <3>3, LogSeeded
  <2> QED
    BY <2>3, <2>4
<1>2. CASE GateNext
  <2>1. PICK incoming \in Incoming, source \in {"manual", "import"}, confirmed \in BOOLEAN :
          Save(incoming, source, confirmed)
    BY <1>2 DEF GateNext
  <2>2. IsSettings(incoming)
    BY <1>0 DEF Incoming, EditsAreSettings
  <2>3. Loads /\ file' = Written(incoming) /\ installed' = installed
    BY <2>1 DEF Save
  <2>4. CASE /\ Current.integrity.event_log /\ incoming # Current
             /\ audit' = Append(audit, Row(incoming)) /\ unlogged' = unlogged
    BY <2>2, <2>3, <2>4, LogAppended
  <2>5. CASE /\ ~(Current.integrity.event_log /\ incoming # Current)
             /\ audit' = audit /\ unlogged' = unlogged
    <3>1. Current' = incoming /\ file'.state = "ok" /\ file'.settings = incoming
      BY <2>3 DEF Current, Written
    <3> QED
      BY <1>0, <2>2, <2>3, <2>5, <3>1, LogKept
  <2>6. CASE unlogged' = TRUE /\ audit' = audit
    <3>1. file'.state = "ok" /\ file'.settings = incoming
      BY <2>3 DEF Written
    <3> QED
      BY <2>2, <2>3, <2>6, <3>1, LogKept
  <2> QED
    BY <2>1, <2>4, <2>5, <2>6 DEF Save, LogsChanges
<1>3. CASE GateCutShort
  <2>1. PICK incoming \in Incoming, source \in {"manual", "import"}, confirmed \in BOOLEAN :
          SaveCutShort(incoming, source, confirmed)
    BY <1>3 DEF GateCutShort
  <2>2. IsSettings(incoming)
    BY <1>0 DEF Incoming, EditsAreSettings
  <2>3. Loads /\ installed' = installed /\ audit' = audit
    BY <2>1 DEF SaveCutShort
  <2>4. CASE file' = Corrupt /\ unlogged' = unlogged
    <3>1. file'.state = "corrupt" /\ ~Loads'
      BY <2>4 DEF Corrupt, Loads
    <3> QED
      BY <1>0, <2>3, <2>4, <3>1, LogKept
  <2>5. CASE file' = Written(incoming) /\ unlogged' = (unlogged \/ incoming # Current)
    <3>1. Current' = incoming /\ file'.state = "ok" /\ file'.settings = incoming
      BY <2>5 DEF Current, Written
    <3>2. unlogged' \in BOOLEAN /\ (unlogged => unlogged') /\ (~unlogged' => incoming = Current)
      BY <1>0, <2>5
    <3> QED
      BY <2>2, <2>3, <3>1, <3>2, LogKept
  <2> QED
    BY <2>1, <2>4, <2>5 DEF SaveCutShort
<1>4. CASE UNCHANGED <<file, installed, audit, unlogged>>
  BY <1>0, <1>4, LogKept DEF Loads, Current
<1>5. CASE Leave
  BY <1>4, <1>5 DEF Leave
<1>6. CASE LoginNext /\ UNCHANGED gateVars
  BY <1>4, <1>6 DEF LoginNext, Login, UnlockOffline, UnlockAutonomous, Logout, Reconnect,
              SchedulerAsks, SchedulerAnswered, SchedulerUnanswered, ClockMoves, filesVars,
              gateVars
<1>7. CASE (AdminUnlock \/ AdminLock) /\ UNCHANGED <<filesVars, loginVars>>
  BY <1>4, <1>7 DEF AdminUnlock, AdminLock, filesVars
<1>8. CASE UNCHANGED accessVars
  BY <1>4, <1>8 DEF accessVars, filesVars, gateVars
<1> QED
  BY <1>1, <1>2, <1>3, <1>5, <1>6, <1>7, <1>8 DEF AccessNext

LEMMA LogInvariant == EditsAreSettings => (AccessSpec => []LogInv)
<1> SUFFICES ASSUME EditsAreSettings PROVE AccessSpec => []LogInv
  OBVIOUS
<1>1. LogInv /\ [AccessNext]_accessVars => LogInv'
  BY LogStep
<1> QED
  BY <1>1, LogStart, PTL DEF AccessSpec

\* The log explains the settings in force, over every order of saves, imports,
\* refusals, lost rows and restarts and for every set of edits
\* (ipc/admin_cmds.rs, store/settings_audit.rs): a row is written by the
\* settings it replaces, so what follows the row that turns the log off is
\* never taken for the whole story.
THEOREM LogIsTrue == EditsAreSettings => (AccessSpec => []LogTellsTheSettings)
<1>1. LogInv => LogTellsTheSettings
  <2> SUFFICES ASSUME LogInv, Loads, ~unlogged, Replayed(Len(audit)).integrity.event_log
               PROVE  Replayed(Len(audit)) = Current
    BY DEF LogTellsTheSettings
  <2> DEFINE f == CHOOSE f : Tells(f, Len(audit), installed, audit)
  <2>1. Tells(f, Len(audit), installed, audit)
    BY DEF LogInv
  <2>2. Replayed(Len(audit)) = f[Len(audit)]
    BY ReplayIs
  <2> HIDE DEF f
  <2> QED
    BY <2>1, <2>2 DEF LogInv
<1> QED
  BY <1>1, LogInvariant, PTL

-----------------------------------------------------------------------------
(***************************************************************************)
(* The owner of a PIN.  What is kept in a root says whose its PINs are: a  *)
(* cached session has the PIN of its operator or none, the profile of the  *)
(* hall that of the hall's operator.                                       *)
(***************************************************************************)
Blob(b) ==
  /\ DOMAIN b = {"cache", "profile", "admin_pin"}
  /\ b.cache # NoBlob => b.cache.pin \in {b.cache.id, NoPin}
  /\ b.profile # NoBlob => b.profile.pin = b.profile.id

PinsKnown == DOMAIN blobs = Roots /\ \A r \in Roots : Blob(blobs[r])

PinInv == PinsKnown /\ PinOfTheOwner /\ "id" \in DOMAIN op

\* The storage root is one the model keeps blobs for, as long as no edit gives
\* another.
RootKnown == Root \in Roots

EditsKeepRoots ==
  \A edit \in Edits : \A s :
    IsSettings(s) /\ ResolveRoot(s) \in Roots => ResolveRoot(Edited(edit, s)) \in Roots

LEMMA RootStep ==
  LogInv /\ RootKnown /\ EditsKeepRoots /\ [AccessNext]_accessVars => RootKnown'
<1> SUFFICES ASSUME LogInv, RootKnown, EditsKeepRoots, [AccessNext]_accessVars
             PROVE  RootKnown'
  OBVIOUS
<1>0. ResolveRoot(Defaults) \in Roots /\ ResolveRoot(Current) \in Roots
  BY DEF RootKnown, Root, ResolveRoot, Defaults, StorageDefaults, Roots
<1>1. CASE \E s : file' = Written(s) /\ ResolveRoot(s) \in Roots
  <2>1. PICK s : file' = Written(s) /\ ResolveRoot(s) \in Roots
    BY <1>1
  <2>2. Current' = s
    BY <2>1 DEF Written, Current
  <2> QED
    BY <2>1, <2>2 DEF RootKnown, Root, ResolveRoot, Roots
<1>2. CASE file' = Corrupt
  <2>1. Current' = Defaults
    BY <1>2 DEF Corrupt, Current
  <2> QED
    BY <1>0, <2>1 DEF RootKnown, Root, ResolveRoot, Roots
<1>3. CASE file' = file
  BY <1>3 DEF RootKnown, Root, Current, ResolveRoot, Roots
<1>4. CASE Boot
  <2>1. file' = file \/ file' = Written([Defaults EXCEPT !.operator.autonomous_offline = TRUE])
    BY <1>4 DEF Boot, Seeded
  <2>2. ResolveRoot([Defaults EXCEPT !.operator.autonomous_offline = TRUE]) \in Roots
    BY DEF ResolveRoot, Defaults, StorageDefaults, Roots
  <2> QED
    BY <1>1, <1>3, <2>1, <2>2
<1>5. \A incoming \in Incoming : ResolveRoot(incoming) \in Roots
  BY <1>0, CurrentIs DEF Incoming, EditsKeepRoots
<1>6. CASE GateNext
  BY <1>1, <1>5, <1>6 DEF GateNext, Save
<1>7. CASE GateCutShort
  BY <1>1, <1>2, <1>5, <1>7 DEF GateCutShort, SaveCutShort
<1>8. CASE LoginNext
  BY <1>3, <1>8 DEF LoginNext, Login, UnlockOffline, UnlockAutonomous, Logout, Reconnect,
              SchedulerAsks, SchedulerAnswered, SchedulerUnanswered, ClockMoves, filesVars
<1>9. CASE Leave \/ UNCHANGED filesVars
  BY <1>3, <1>9 DEF Leave, filesVars
<1> QED
  BY <1>4, <1>6, <1>7, <1>8, <1>9 DEF AccessNext, accessVars

LEMMA RootStart == AccessInit => RootKnown
BY DeliveryAssumption DEF AccessInit, FilesInit, RootKnown, Root, Current, ResolveRoot, Roots,
   Absent, Written, Defaults, StorageDefaults

\* A root whose cached session is replaced by one with the owner's PIN, or by
\* none, is as it should be.
LEMMA CacheReplaced ==
  ASSUME PinsKnown, NEW root \in Roots, NEW cache,
         blobs' = [blobs EXCEPT ![root].cache = cache],
         cache # NoBlob => cache.pin \in {cache.id, NoPin}
  PROVE  PinsKnown'
<1>1. ASSUME NEW r \in Roots PROVE Blob(blobs'[r])
  <2>1. Blob(blobs[r])
    BY DEF PinsKnown
  <2>2. CASE r = root
    <3>1. blobs'[r] = [blobs[r] EXCEPT !.cache = cache]
      BY <2>2 DEF PinsKnown
    <3>2. DOMAIN blobs'[r] = {"cache", "profile", "admin_pin"}
      BY <2>1, <3>1 DEF Blob
    <3>3. blobs'[r].cache = cache /\ blobs'[r].profile = blobs[r].profile
      BY <2>1, <3>1 DEF Blob
    <3> QED
      BY <2>1, <3>2, <3>3 DEF Blob
  <2>3. CASE r # root
    BY <2>1, <2>3 DEF PinsKnown
  <2> QED
    BY <2>2, <2>3
<1> QED
  BY <1>1 DEF PinsKnown

LEMMA PinStart == AccessInit => PinInv
<1> SUFFICES ASSUME AccessInit PROVE PinInv
  OBVIOUS
<1>1. PinOfTheOwner /\ "id" \in DOMAIN op
  BY DEF AccessInit, LoginInit, NoProof, Nobody, None, PinOfTheOwner
<1>2. PinsKnown
  BY DEF AccessInit, FilesInit, PinsKnown, Blob
<1> QED
  BY <1>1, <1>2 DEF PinInv

LEMMA PinStep == PinInv /\ RootKnown /\ [AccessNext]_accessVars => PinInv'
<1> SUFFICES ASSUME PinInv, RootKnown, [AccessNext]_accessVars
             PROVE  PinInv'
  OBVIOUS
<1>1. /\ PinsKnown /\ PinOfTheOwner /\ "id" \in DOMAIN op
      /\ Root \in Roots /\ Blob(blobs[Root])
  BY DEF PinInv, PinsKnown, RootKnown
<1>2. CASE Boot /\ UNCHANGED <<op, proof>>
  <2>1. PinOfTheOwner' /\ "id" \in DOMAIN op'
    BY <1>1, <1>2 DEF PinOfTheOwner
  <2>2. PICK env \in Environments :
          LET s == IF file'.state = "ok" THEN file'.settings ELSE Defaults
              r == ResolveRoot(s)
          IN  blobs' = IF file'.state # "corrupt" /\ "key" \in env
                       THEN [blobs EXCEPT ![r] = Provisioned(@, s, env)] ELSE blobs
    BY <1>2 DEF Boot
  <2>3. CASE blobs' = blobs
    BY <1>1, <2>1, <2>3 DEF PinInv, PinsKnown
  <2>4. CASE \E s : blobs' = [blobs EXCEPT ![ResolveRoot(s)] = Provisioned(@, s, env)]
    <3>1. PICK s : blobs' = [blobs EXCEPT ![ResolveRoot(s)] = Provisioned(@, s, env)]
      BY <2>4
    <3>2. ASSUME NEW r \in Roots PROVE Blob(blobs'[r])
      <4>1. Blob(blobs[r])
        BY <1>1 DEF PinsKnown
      <4>2. CASE r = ResolveRoot(s)
        <5>1. blobs'[r] = Provisioned(blobs[r], s, env)
          BY <1>1, <3>1, <4>2 DEF PinsKnown
        <5>2. /\ DOMAIN blobs'[r] = {"cache", "profile", "admin_pin"}
              /\ blobs'[r].cache = blobs[r].cache
              /\ \/ blobs'[r].profile = blobs[r].profile
                 \/ blobs'[r].profile = [id |-> Hall, pin |-> Hall]
          BY <4>1, <5>1 DEF Provisioned, Blob
        <5> QED
          BY <4>1, <5>2 DEF Blob
      <4>3. CASE r # ResolveRoot(s)
        BY <1>1, <3>1, <4>1, <4>3 DEF PinsKnown
      <4> QED
        BY <4>2, <4>3
    <3>3. DOMAIN blobs' = Roots
      BY <1>1, <3>1 DEF PinsKnown
    <3> QED
      BY <2>1, <3>2, <3>3 DEF PinInv, PinsKnown
  <2> QED
    BY <2>2, <2>3, <2>4
<1>3. CASE \E p \in Operators : Login(p)
  <2>1. PICK p \in Operators : Login(p)
    BY <1>3
  <2>2. CASE \E refresh \in {p, None} :
               /\ blobs' = [blobs EXCEPT ![Root].cache =
                    [ id |-> p, refresh |-> refresh, at |-> clock,
                      pin |-> IF Current.operator.offline_pin.required THEN p ELSE NoPin ]]
               /\ op' = Session(p, p, refresh, TRUE, FALSE, clock)
               /\ proof' = [how |-> "password", by |-> p]
    <3>1. PICK refresh \in {p, None} :
               /\ blobs' = [blobs EXCEPT ![Root].cache =
                    [ id |-> p, refresh |-> refresh, at |-> clock,
                      pin |-> IF Current.operator.offline_pin.required THEN p ELSE NoPin ]]
               /\ op' = Session(p, p, refresh, TRUE, FALSE, clock)
               /\ proof' = [how |-> "password", by |-> p]
      BY <2>2
    <3> DEFINE cache == [ id |-> p, refresh |-> refresh, at |-> clock,
                          pin |-> IF Current.operator.offline_pin.required THEN p ELSE NoPin ]
    <3>2. cache.pin \in {cache.id, NoPin} /\ blobs' = [blobs EXCEPT ![Root].cache = cache]
      BY <3>1
    <3> HIDE DEF cache
    <3>3. PinsKnown'
      BY <1>1, <3>2, CacheReplaced
    <3> QED
      BY <3>1, <3>3 DEF PinInv, PinOfTheOwner, Session
  <2>3. CASE blobs' = [blobs EXCEPT ![Root].cache = NoBlob] /\ UNCHANGED <<op, proof>>
    BY <1>1, <2>3, CacheReplaced DEF PinInv, PinOfTheOwner
  <2>4. \/ \E refresh \in {p, None} :
              /\ blobs' = [blobs EXCEPT ![Root].cache =
                    [ id |-> p, refresh |-> refresh, at |-> clock,
                      pin |-> IF Current.operator.offline_pin.required THEN p ELSE NoPin ]]
              /\ op' = Session(p, p, refresh, TRUE, FALSE, clock)
              /\ proof' = [how |-> "password", by |-> p]
        \/ blobs' = [blobs EXCEPT ![Root].cache = NoBlob] /\ UNCHANGED <<op, proof>>
    BY <2>1 DEF Login
  <2> QED
    BY <2>2, <2>3, <2>4
<1>4. CASE \E p \in People : UnlockOffline(p)
  <2>1. PICK p \in People : UnlockOffline(p)
    BY <1>4
  <2>2. PinsKnown'
    BY <1>1, <2>1 DEF UnlockOffline, filesVars, PinsKnown
  <2>3. CASE Current.operator.offline_pin.required
    <3>1. blobs[Root].cache.pin = p /\ p # NoPin /\ blobs[Root].cache # NoBlob
      BY <2>1, <2>3 DEF UnlockOffline, OfflineUnlockDecision, VerifyPin
    <3>2. blobs[Root].cache.id = p
      BY <1>1, <3>1 DEF Blob
    <3>3. op'.id = blobs[Root].cache.id /\ proof'.by = p /\ "id" \in DOMAIN op'
      BY <2>1, <2>3 DEF UnlockOffline, Session
    <3> QED
      BY <2>2, <3>2, <3>3 DEF PinInv, PinOfTheOwner
  <2>4. CASE ~Current.operator.offline_pin.required
    BY <2>1, <2>2, <2>4 DEF UnlockOffline, Session, NoProof, None, PinInv, PinOfTheOwner
  <2> QED
    BY <2>3, <2>4
<1>5. CASE \E p \in People : UnlockAutonomous(p)
  <2>1. PICK p \in People : UnlockAutonomous(p)
    BY <1>5
  <2>2. PinsKnown'
    BY <1>1, <2>1 DEF UnlockAutonomous, filesVars, PinsKnown
  <2>3. blobs[Root].profile # NoBlob /\ p = blobs[Root].profile.pin
    BY <2>1 DEF UnlockAutonomous, AutonomousUnlockDecision, VerifyPin
  <2>4. op'.id = blobs[Root].profile.id /\ proof'.by = p /\ "id" \in DOMAIN op'
    BY <2>1 DEF UnlockAutonomous, Session
  <2> QED
    BY <1>1, <2>2, <2>3, <2>4 DEF Blob, PinInv, PinOfTheOwner
<1>6. CASE Leave \/ (GateCutShort /\ Forgotten) \/ Logout
  <2>1. blobs' = blobs /\ proof' = NoProof /\ op' = Nobody
    BY <1>6 DEF Leave, GateCutShort, SaveCutShort, Forgotten, Logout, filesVars
  <2> QED
    BY <1>1, <2>1 DEF PinInv, PinsKnown, PinOfTheOwner, NoProof, Nobody, None
<1>7. CASE Reconnect \/ SchedulerAnswered
  <2>1. blobs' = blobs /\ proof' = proof
    BY <1>7 DEF Reconnect, SchedulerAnswered, filesVars
  <2>2. op'.id = op.id /\ "id" \in DOMAIN op'
    BY <1>1, <1>7 DEF Reconnect, SchedulerAnswered, PutToken
  <2> QED
    BY <1>1, <2>1, <2>2 DEF PinInv, PinsKnown, PinOfTheOwner
<1>8. CASE UNCHANGED <<blobs, op, proof>>
  BY <1>1, <1>8 DEF PinInv, PinsKnown, PinOfTheOwner
<1>9. CASE GateNext /\ UNCHANGED loginVars
  BY <1>8, <1>9 DEF GateNext, Save, loginVars
<1>10. CASE (AdminUnlock \/ AdminLock) /\ UNCHANGED <<filesVars, loginVars>>
  BY <1>8, <1>10 DEF filesVars, loginVars
<1>11. CASE SchedulerAsks \/ SchedulerUnanswered \/ ClockMoves
  BY <1>8, <1>11 DEF SchedulerAsks, SchedulerUnanswered, ClockMoves, filesVars
<1>12. CASE UNCHANGED accessVars
  BY <1>8, <1>12 DEF accessVars, filesVars, loginVars
<1>13. CASE LoginNext
  BY <1>3, <1>4, <1>5, <1>6, <1>7, <1>11, <1>13 DEF LoginNext
<1>14. CASE Boot /\ UNCHANGED <<loginVars, gateVars>>
  <2>1. UNCHANGED <<op, proof>>
    BY <1>14 DEF loginVars
  <2> QED
    BY <1>2, <1>14, <2>1
<1> QED
  BY <1>6, <1>9, <1>10, <1>12, <1>13, <1>14 DEF AccessNext

\* A PIN opens the session of the one whose PIN it is, in any sequence of
\* logins, changes of the policy, restarts and lost writes, for any number of
\* operators (ipc/auth_cmds.rs).
THEOREM OwnPinOnly ==
  EditsAreSettings /\ EditsKeepRoots => (AccessSpec => []PinOfTheOwner)
<1> SUFFICES ASSUME EditsAreSettings, EditsKeepRoots PROVE AccessSpec => []PinOfTheOwner
  OBVIOUS
<1>1. PinInv => PinOfTheOwner
  BY DEF PinInv
<1>2. LogInv /\ RootKnown /\ [AccessNext]_accessVars => RootKnown'
  BY RootStep
<1>3. AccessSpec => []LogInv
  BY LogInvariant
<1> QED
  BY <1>1, <1>2, <1>3, RootStart, PinStart, PinStep, PTL DEF AccessSpec

-----------------------------------------------------------------------------
(***************************************************************************)
(* The self-test and the start.                                            *)
(***************************************************************************)
LEMMA SomeTrack ==
  ASSUME IsSettings(Current)
  PROVE  \E i : i \in DOMAIN ResolvedTracks(Current)
<1>1. CASE ~Multichannel(Current)
  <2>1. DOMAIN ResolvedTracks(Current) = {1}
    BY <1>1 DEF ResolvedTracks
  <2> QED
    BY <2>1
<1>2. CASE Multichannel(Current)
  <2> DEFINE tracks == Current.audio.tracks
  <2>1. Len(tracks) \in Nat /\ tracks = [i \in 1 .. Len(tracks) |-> tracks[i]] /\ tracks # <<>>
    BY <1>2 DEF Multichannel, IsSettings, IsList
  <2>2. DOMAIN ResolvedTracks(Current) = DOMAIN tracks
    BY <1>2 DEF ResolvedTracks
  <2> HIDE DEF tracks
  <2>3. Len(tracks) # 0
    BY <2>1
  <2>4. 1 \in DOMAIN tracks
    BY <2>1, <2>3
  <2> QED
    BY <2>2, <2>4
<1> QED
  BY <1>1, <1>2

\* The self-test and the start decide alike in every state, so no order of
\* logins, saves, imports and restarts sets them apart: nothing the one looks
\* at is remembered from an earlier moment (ipc/selftest_cmds.rs,
\* ipc/audio_cmds.rs).
THEOREM ReadyMeansOpen == EditsAreSettings => (AccessSpec => []ReadyPassesTheGates)
<1>1. LogInv => ReadyPassesTheGates
  <2> SUFFICES ASSUME LogInv, up, NEW plugged \in SUBSET Microphones, NEW free_mb
               PROVE  /\ SelfTestReady(plugged, free_mb) => StartAllowed /\ KeyForSegments
                      /\ CaptureStarts(plugged) =>
                           \A c \in {"device", "operator", "station_key"} :
                             Report(plugged, free_mb)[c] # "fail"
    BY DEF ReadyPassesTheGates
  <2>1. ASSUME SelfTestReady(plugged, free_mb)
        PROVE  StartAllowed /\ KeyForSegments
    <3>1. Loads /\ Report(plugged, free_mb).operator # "fail"
          /\ Report(plugged, free_mb).station_key # "fail"
      BY <2>1 DEF SelfTestReady
    <3> QED
      BY <3>1 DEF Report, KeyCheck, StartAllowed, KeyForSegments
  <2>2. ASSUME CaptureStarts(plugged)
        PROVE  /\ Report(plugged, free_mb).device # "fail"
               /\ Report(plugged, free_mb).operator # "fail"
               /\ Report(plugged, free_mb).station_key # "fail"
    <3>1. plugged # {}
      <4>1. PICK i : i \in DOMAIN ResolvedTracks(Current)
        BY SomeTrack, CurrentIs
      <4>2. PickDevice(ResolvedTracks(Current)[i].device, plugged)
        BY <2>2, <4>1 DEF CaptureStarts
      <4> QED
        BY <4>2 DEF PickDevice
    <3>2. (Current.operator.required_to_start => Present) /\ (Current.storage.encrypt_at_rest => key)
      BY <2>2 DEF CaptureStarts, StartAllowed, KeyForSegments
    <3> QED
      BY <3>1, <3>2 DEF Report, KeyCheck
  <2> QED
    BY <2>1, <2>2
<1> QED
  BY <1>1, LogInvariant, PTL
=============================================================================
