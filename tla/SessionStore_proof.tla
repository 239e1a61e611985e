--------------------------- MODULE SessionStore_proof ---------------------------
(***************************************************************************)
(* Theorems about what becomes of a finished session: the removal of its   *)
(* local copy while it is exported, the threads that report where its      *)
(* playback is, the place they report, and where its markers fall in an     *)
(* export; for every recording, damage, policy and window, and any number  *)
(* of commands and reporting threads.                                      *)
(***************************************************************************)
EXTENDS Playback, Copying, TLAPS, SequenceTheorems, WellFoundedInduction, FiniteSetTheorems

Files == {File(r) : r \in Recording}

CopyType ==
  /\ session = [status |-> session.status, confirmedAt |-> session.confirmedAt,
                verified |-> session.verified, purgedAt |-> session.purgedAt]
  /\ session.confirmedAt \in Nat \union {Never}
  /\ now \in Nat

\* The files go before the rows, and the rows before the mark.
RemovalInOrder ==
  /\ present \subseteq Files
  /\ rows = Recording \/ (rows = {} /\ present = {})
  /\ session.status = "purged" => rows = {} /\ present = {}

CopyInv == CopyType /\ RemovalInOrder /\ KeptUntilConfirmed

-----------------------------------------------------------------------------
(***************************************************************************)
(* The retention.                                                          *)
(***************************************************************************)
LEMMA DeleteIsDue ==
  ASSUME CopyInv, NEW mode \in Modes, Decide(mode) = "delete"
  PROVE  /\ session.confirmedAt # Never
         /\ "delete_on_confirm" \notin Modes => now >= session.confirmedAt + Window
<1>1. session.confirmedAt # Never /\ mode # "manual"
  BY DEF Decide
<1>2. ~(mode = "until_confirmed_plus_window" /\ now < session.confirmedAt + Window)
  BY DEF Decide
<1>3. mode = "until_confirmed_plus_window" \/ mode = "delete_on_confirm"
  BY <1>1, RetentionAssumption
<1>4. session.confirmedAt \in Nat /\ now \in Nat /\ Window \in Nat
  BY <1>1, RetentionAssumption DEF CopyInv, CopyType
<1>5. "delete_on_confirm" \notin Modes => ~(now < session.confirmedAt + Window)
  BY <1>2, <1>3
<1> QED
  BY <1>1, <1>4, <1>5

LEMMA SweepKeeps ==
  ASSUME CopyInv, Sweep
  PROVE  CopyInv'
<1>1. PICK mode \in Modes : Decide(mode) = "delete"
  BY DEF Sweep
<1>2. /\ session.confirmedAt # Never
      /\ "delete_on_confirm" \notin Modes => now >= session.confirmedAt + Window
  BY <1>1, DeleteIsDue
<1>3. PICK gone \in SUBSET rows :
        /\ present' = present \ {File(r) : r \in gone}
        /\ \/ UNCHANGED <<session, rows, events>>
           \/ /\ gone = rows
              /\ rows' = {} /\ events' = <<>>
              /\ \/ UNCHANGED session
                 \/ session' = [session EXCEPT !.status = "purged", !.purgedAt = now]
  BY DEF Sweep, SafeDelete
<1>4. now' = now
  BY DEF Sweep
<1>5. session' = session \/ session' = [session EXCEPT !.status = "purged", !.purgedAt = now]
  BY <1>3
<1>6. CopyType' /\ session'.confirmedAt = session.confirmedAt
  BY <1>4, <1>5 DEF CopyInv, CopyType
<1>7. KeptUntilConfirmed'
  BY <1>2, <1>4, <1>6 DEF KeptUntilConfirmed
<1>8. present' \subseteq present
  BY <1>3
<1>9. RemovalInOrder'
  <2>1. CASE UNCHANGED <<session, rows, events>>
    BY <1>8, <2>1 DEF CopyInv, RemovalInOrder
  <2>2. CASE gone = rows /\ rows' = {}
    <3>1. present' = {}
      BY <1>3, <2>2 DEF CopyInv, RemovalInOrder, Files
    <3> QED
      BY <2>2, <3>1 DEF RemovalInOrder
  <2> QED
    BY <1>3, <2>1, <2>2
<1> QED
  BY <1>6, <1>7, <1>9 DEF CopyInv

LEMMA CopyingInvariant == CopyingSpec => []CopyInv
<1>1. CopyingInit => CopyInv
  BY RetentionAssumption DEF CopyingInit, StoreInit, RetentionInit, CopyInv, CopyType, RemovalInOrder,
     KeptUntilConfirmed, Files, Never
<1>2. CopyInv /\ [CopyingNext]_copyingVars => CopyInv'
  <2> SUFFICES ASSUME CopyInv, [CopyingNext]_copyingVars
               PROVE  CopyInv'
    OBVIOUS
  <2>1. ASSUME UNCHANGED <<session, rows, present, now>>
        PROVE  CopyInv'
    BY <2>1 DEF CopyInv, CopyType, RemovalInOrder, KeptUntilConfirmed
  <2>2. CASE ExportNext /\ UNCHANGED now
    <3>1. UNCHANGED <<session, rows, present>>
      BY <2>2 DEF ExportNext, RefuseExport, AskConfirmation, BuildPackage, BuildFails, BurnDvd,
         BurnFails, storeVars
    <3> QED
      BY <2>1, <2>2, <3>1
  <2>3. CASE MarkServerConfirmed
    <3>1. session' = [session EXCEPT !.confirmedAt = now, !.verified = TRUE]
      BY <2>3 DEF MarkServerConfirmed
    <3>2. UNCHANGED <<rows, present, now>> /\ session.confirmedAt = Never
      BY <2>3 DEF MarkServerConfirmed
    <3>3. CopyType' /\ session'.status = session.status
      BY <3>1, <3>2 DEF CopyInv, CopyType
    <3>4. RemovalInOrder'
      BY <3>2, <3>3 DEF CopyInv, RemovalInOrder
    <3>5. present = Files /\ rows = Recording
      BY <3>2 DEF CopyInv, KeptUntilConfirmed, Files
    <3>6. KeptUntilConfirmed'
      BY <3>2, <3>5 DEF KeptUntilConfirmed, Files
    <3> QED
      BY <3>3, <3>4, <3>6 DEF CopyInv
  <2>4. CASE Sweep
    BY <2>4, SweepKeeps
  <2>5. CASE HourPasses
    <3>1. now' = now + 1 /\ UNCHANGED <<session, rows, present>>
      BY <2>5 DEF HourPasses, storeVars
    <3>2. CopyType'
      BY <3>1 DEF CopyInv, CopyType
    <3>3. RemovalInOrder'
      BY <3>1 DEF CopyInv, RemovalInOrder
    <3>4. session.confirmedAt # Never =>
            now \in Nat /\ session.confirmedAt \in Nat /\ Window \in Nat
      BY RetentionAssumption DEF CopyInv, CopyType
    <3>5. KeptUntilConfirmed'
      BY <3>1, <3>4 DEF CopyInv, KeptUntilConfirmed
    <3> QED
      BY <3>2, <3>3, <3>5 DEF CopyInv
  <2>6. CASE Damage /\ UNCHANGED <<exportVars, now>>
    BY <2>1, <2>6 DEF Damage
  <2>7. CASE UNCHANGED copyingVars
    BY <2>1, <2>7 DEF copyingVars, storeVars
  <2> QED
    BY <2>2, <2>3, <2>4, <2>5, <2>6, <2>7 DEF CopyingNext, RetentionNext
<1> QED
  BY <1>1, <1>2, PTL DEF CopyingSpec

\* Nothing of the local copy goes before the server has confirmed it and the
\* window has passed, however often a removal was interrupted and begun again.
THEOREM NothingGoesEarly == CopyingSpec => []KeptUntilConfirmed
BY CopyingInvariant, PTL DEF CopyInv

\* A session that is marked as purged has no file and no row left.
THEOREM PurgeIsComplete == CopyingSpec => []PurgedIsGone
<1>1. CopyInv => PurgedIsGone
  BY DEF CopyInv, RemovalInOrder, PurgedIsGone
<1> QED
  BY <1>1, CopyingInvariant, PTL

-----------------------------------------------------------------------------
(***************************************************************************)
(* The player.  Its types are what the fields must be for an engine or a   *)
(* reporter that exists to be told from none.                              *)
(***************************************************************************)
EngineType(e) ==
  /\ e = [state |-> e.state, at |-> e.at, played |-> e.played, over |-> e.over,
          running |-> e.running, total |-> e.total]
  /\ e.state = "built"

PlayerType(p) ==
  /\ p = [ machine |-> p.machine, order |-> p.order, selector |-> p.selector, base |-> p.base,
           engine |-> p.engine, reporter |-> p.reporter, rate |-> p.rate, volume |-> p.volume ]
  /\ p.machine \in {"stopped", "playing", "paused"}
  /\ p.engine = NoEngine \/ EngineType(p.engine)

ReporterType(r) ==
  r = [pc |-> r.pc, stop |-> r.stop, counter |-> r.counter, played |-> r.played,
       base |-> r.base, total |-> r.total]

PlayingType ==
  /\ player = NoPlayer \/ PlayerType(player)
  /\ DOMAIN reporter = Reporters
  /\ \A s \in Reporters : reporter[s] = NoReporter \/ ReporterType(reporter[s])

\* A thread is not told to stop: it is this one only that the player p knows.
Reports(s, r, p) ==
  /\ p # NoPlayer /\ p.engine # NoEngine
  /\ p.reporter = s
  /\ r.counter = "engine" /\ r.base = p.base

Alone(rs, p) == \A s \in Reporters : rs[s] # NoReporter /\ ~rs[s].stop => Reports(s, rs[s], p)

\* All threads have been told.
Silent(rs) ==
  /\ DOMAIN rs = Reporters
  /\ \A s \in Reporters : rs[s] = NoReporter \/ (ReporterType(rs[s]) /\ rs[s].stop)

PlayingInv == PlayingType /\ Alone(reporter, player)

LEMMA SilentIsFine ==
  ASSUME Silent(reporter'), player' = NoPlayer \/ PlayerType(player')
  PROVE  PlayingInv'
BY DEF Silent, PlayingInv, PlayingType, Alone

\* Whatever the player did, no thread goes on after its engine has gone.
LEMMA TearingSilences ==
  ASSUME PlayingInv
  PROVE  /\ Silent(StopReporter)
         /\ Silent(TornReporters)
<1>1. ASSUME NEW s \in Reporters
      PROVE  \/ StopReporter[s] = NoReporter
             \/ ReporterType(StopReporter[s]) /\ StopReporter[s].stop
  <2>1. CASE reporter[s] = NoReporter
    BY <2>1 DEF StopReporter
  <2>2. CASE reporter[s] # NoReporter /\ IsOpen /\ player.reporter = s
    <3>1. StopReporter[s] = [reporter[s] EXCEPT !.stop = TRUE]
      BY <2>2 DEF StopReporter
    <3>2. ReporterType(reporter[s])
      BY <2>2 DEF PlayingInv, PlayingType
    <3> QED
      BY <3>1, <3>2 DEF ReporterType
  <2>3. CASE reporter[s] # NoReporter /\ ~(IsOpen /\ player.reporter = s)
    <3>1. StopReporter[s] = reporter[s] /\ ReporterType(reporter[s])
      BY <2>3 DEF StopReporter, PlayingInv, PlayingType
    <3>2. reporter[s].stop
      BY <2>3 DEF PlayingInv, Alone, Reports, IsOpen
    <3> QED
      BY <3>1, <3>2
  <2> QED
    BY <2>1, <2>2, <2>3
<1>2. Silent(StopReporter)
  BY <1>1 DEF Silent, StopReporter
<1>3. ASSUME NEW rs, Silent(rs)
      PROVE  Silent(Detach(rs))
  <2>1. DOMAIN Detach(rs) = Reporters
    BY DEF Detach
  <2>2. ASSUME NEW s \in Reporters
        PROVE  \/ Detach(rs)[s] = NoReporter
               \/ ReporterType(Detach(rs)[s]) /\ Detach(rs)[s].stop
    <3>1. CASE rs[s] # NoReporter /\ rs[s].counter = "engine"
      <4>1. Detach(rs)[s] = [rs[s] EXCEPT !.counter = "own", !.played = player.engine.played]
        BY <3>1 DEF Detach
      <4>2. ReporterType(rs[s]) /\ rs[s].stop
        BY <1>3, <3>1 DEF Silent
      <4> QED
        BY <4>1, <4>2 DEF ReporterType
    <3>2. CASE ~(rs[s] # NoReporter /\ rs[s].counter = "engine")
      BY <1>3, <3>2 DEF Detach, Silent
    <3> QED
      BY <3>1, <3>2
  <2> QED
    BY <2>1, <2>2 DEF Silent
<1> QED
  BY <1>2, <1>3 DEF TornReporters

LEMMA EngineRuns ==
  ASSUME NEW e, NEW f, NEW run, EngineType(e), f = [e EXCEPT !.running = run]
  PROVE  EngineType(f)
BY DEF EngineType

\* A thread that is started is the only one that has not been told to stop.
LEMMA StartKeeps ==
  ASSUME NEW p, NEW rs, PlayerType(p), DOMAIN rs = Reporters,
         \A s \in Reporters : rs[s] = NoReporter \/ ReporterType(rs[s]),
         Alone(rs, p), StartPlayback(p, rs)
  PROVE  PlayingInv'
<1>1. CASE player' = p /\ reporter' = rs
  BY <1>1 DEF PlayingInv, PlayingType
<1>2. ASSUME NEW e \in IF p.engine = NoEngine THEN BuildEngine(p) ELSE {p.engine},
             NEW s \in {x \in Reporters : rs[x] = NoReporter},
             player' = [p EXCEPT !.engine = [e EXCEPT !.running = TRUE], !.reporter = s],
             reporter' = [x \in Reporters |->
               IF x = s THEN [pc |-> "asleep", stop |-> FALSE, counter |-> "engine", played |-> 0,
                              base |-> p.base, total |-> e.total]
               ELSE IF x = p.reporter /\ rs[x] # NoReporter THEN [rs[x] EXCEPT !.stop = TRUE]
               ELSE rs[x]]
      PROVE  PlayingInv'
  <2>1. EngineType(e)
    <3>1. CASE p.engine = NoEngine
      BY <3>1 DEF BuildEngine, EngineType
    <3>2. CASE p.engine # NoEngine
      BY <3>2 DEF PlayerType
    <3> QED
      BY <3>1, <3>2
  <2> DEFINE f == [e EXCEPT !.running = TRUE]
  <2>2. EngineType(f) /\ f # NoEngine
    <3>1. EngineType(f)
      BY <2>1, EngineRuns
    <3>2. f.state = "built" /\ NoEngine.state = "none"
      BY <2>1 DEF EngineType, NoEngine
    <3> QED
      BY <3>1, <3>2
  <2> HIDE DEF f
  <2>3. /\ player'.machine = p.machine /\ player'.engine = f
        /\ player'.reporter = s /\ player'.base = p.base
        /\ PlayerType(player')
    BY <1>2, <2>2 DEF PlayerType, f
  <2>4. player' # NoPlayer
    BY <2>3 DEF PlayerType, NoPlayer
  <2>5. ASSUME NEW x \in Reporters
        PROVE  /\ reporter'[x] = NoReporter \/ ReporterType(reporter'[x])
               /\ reporter'[x] # NoReporter /\ ~reporter'[x].stop => Reports(x, reporter'[x], player')
    <3>1. CASE x = s
      <4>1. reporter'[x] = [pc |-> "asleep", stop |-> FALSE, counter |-> "engine", played |-> 0,
                            base |-> p.base, total |-> e.total]
        BY <1>2, <3>1
      <4>2. ReporterType(reporter'[x]) /\ reporter'[x].counter = "engine" /\ reporter'[x].base = p.base
        BY <4>1 DEF ReporterType
      <4> QED
        BY <2>2, <2>3, <2>4, <3>1, <4>2 DEF Reports
    <3>2. CASE x # s /\ x = p.reporter /\ rs[x] # NoReporter
      <4>1. reporter'[x] = [rs[x] EXCEPT !.stop = TRUE] /\ ReporterType(rs[x])
        BY <1>2, <3>2
      <4> QED
        BY <4>1 DEF ReporterType
    <3>3. CASE x # s /\ ~(x = p.reporter /\ rs[x] # NoReporter)
      <4>1. reporter'[x] = rs[x]
        BY <1>2, <3>3
      <4>2. rs[x] = NoReporter \/ rs[x].stop
        BY <3>3 DEF Alone, Reports
      <4> QED
        BY <4>1, <4>2
    <3> QED
      BY <3>1, <3>2, <3>3
  <2>6. DOMAIN reporter' = Reporters
    BY <1>2
  <2> QED
    BY <2>3, <2>5, <2>6 DEF PlayingInv, PlayingType, Alone
<1> QED
  BY <1>1, <1>2 DEF StartPlayback

\* What a command may change of the player without touching its reporter.
LEMMA SamePlayer ==
  ASSUME NEW p, NEW q, PlayerType(p), PlayerType(q),
         q.engine = NoEngine => p.engine = NoEngine, q.reporter = p.reporter, q.base = p.base,
         NEW rs, Alone(rs, p)
  PROVE  Alone(rs, q)
<1>1. q # NoPlayer
  BY DEF PlayerType, NoPlayer
<1> QED
  BY <1>1 DEF Alone, Reports

LEMMA PlayerTorn ==
  ASSUME NEW p, NEW q, PlayerType(p), q = Teardown(p)
  PROVE  PlayerType(q) /\ q.engine = NoEngine /\ q.machine = p.machine
BY DEF PlayerType, Teardown

LEMMA PlayerAt ==
  ASSUME NEW p, NEW q, PlayerType(p), NEW machine \in {"stopped", "playing", "paused"},
         NEW selector, NEW base,
         \/ q = [p EXCEPT !.machine = machine]
         \/ q = [p EXCEPT !.selector = selector, !.base = base]
         \/ q = [p EXCEPT !.base = base, !.machine = machine]
  PROVE  PlayerType(q) /\ q.engine = p.engine
BY DEF PlayerType

LEMMA OpenSilences ==
  ASSUME PlayingInv, Open \/ Close
  PROVE  PlayingInv'
<1>1. Silent(reporter')
  BY TearingSilences DEF Open, Close
<1>2. CASE Open
  <2>1. player' = [ machine  |-> "stopped",
                    order    |-> ResolveTracks,
                    selector |-> ResolveTracks[1],
                    base     |-> 0,
                    engine   |-> NoEngine,
                    reporter |-> NoSlot,
                    rate     |-> 1,
                    volume   |-> 1 ]
    BY <1>2 DEF Open, Transition
  <2>2. PlayerType(player')
    BY <2>1 DEF PlayerType
  <2> QED
    BY <1>1, <2>2, SilentIsFine
<1>3. CASE Close
  BY <1>1, <1>3, SilentIsFine DEF Close
<1> QED
  BY <1>2, <1>3

LEMMA SelectTrackSilences ==
  ASSUME PlayingInv, SelectTrack
  PROVE  PlayingInv'
<1>1. PICK sel : player' = [Teardown(player) EXCEPT !.selector = sel, !.base = 0]
  BY DEF SelectTrack
<1>2. PlayerType(player)
  BY DEF SelectTrack, IsOpen, PlayingInv, PlayingType
<1>3. PlayerType(Teardown(player))
  BY <1>2, PlayerTorn
<1>4. PlayerType(player')
  BY <1>1, <1>3, PlayerAt
<1> QED
  BY <1>4, TearingSilences, SilentIsFine DEF SelectTrack

LEMMA PlayKeeps ==
  ASSUME PlayingInv, Play
  PROVE  PlayingInv'
<1> DEFINE m == IF player.machine = "playing" THEN player.machine ELSE Transition[player.machine].play
           p == [player EXCEPT !.machine = m]
<1>1. PlayerType(player)
  BY DEF Play, IsOpen, PlayingInv, PlayingType
<1>2. m \in {"stopped", "playing", "paused"}
  BY <1>1 DEF PlayerType, Transition
<1>3. StartPlayback(p, reporter)
  BY DEF Play
<1> HIDE DEF m
<1>4. p.engine = player.engine /\ p.reporter = player.reporter /\ p.base = player.base
  BY <1>1 DEF PlayerType
<1>5. PlayerType(p)
  BY <1>1, <1>2, PlayerAt
<1> HIDE DEF p
<1>6. Alone(reporter, p)
  BY <1>1, <1>4, <1>5, SamePlayer DEF PlayingInv
<1> QED
  BY <1>3, <1>5, <1>6, StartKeeps DEF PlayingInv, PlayingType

LEMMA PauseSilences ==
  ASSUME PlayingInv, Pause
  PROVE  PlayingInv'
<1> DEFINE m == IF player.machine = "playing" THEN Transition[player.machine].pause ELSE player.machine
           e == IF player.engine = NoEngine THEN player.engine
                ELSE [player.engine EXCEPT !.running = FALSE]
<1>1. PlayerType(player)
  BY DEF Pause, IsOpen, PlayingInv, PlayingType
<1>2. m \in {"stopped", "playing", "paused"}
  BY <1>1 DEF PlayerType, Transition
<1>3. e = NoEngine \/ EngineType(e)
  BY <1>1, EngineRuns DEF PlayerType
<1>4. player' = [player EXCEPT !.machine = m, !.engine = e, !.reporter = NoSlot]
  BY DEF Pause
<1> HIDE DEF m, e
<1>5. PlayerType(player')
  BY <1>1, <1>2, <1>3, <1>4 DEF PlayerType
<1> QED
  BY <1>5, TearingSilences, SilentIsFine DEF Pause

LEMMA SeekKeeps ==
  ASSUME PlayingInv, Seek
  PROVE  PlayingInv'
<1> DEFINE m == Transition[player.machine].seek
           P(f) == [Teardown(player) EXCEPT !.base = f, !.machine = m]
<1>1. PlayerType(player)
  BY DEF Seek, IsOpen, PlayingInv, PlayingType
<1>2. PlayerType(Teardown(player)) /\ Teardown(player).engine = NoEngine
      /\ Teardown(player).machine = player.machine
  BY <1>1, PlayerTorn
<1>3. m \in {"stopped", "playing", "paused"}
  BY <1>1 DEF PlayerType, Transition
<1>4. PICK f : IF player.machine = "playing" THEN StartPlayback(P(f), TornReporters)
               ELSE player' = P(f) /\ reporter' = TornReporters
  <2>1. \E f \in SeekTargets :
          LET p == [Teardown(player) EXCEPT !.base = f, !.machine = Transition[@].seek]
          IN  IF player.machine = "playing" THEN StartPlayback(p, TornReporters)
              ELSE player' = p /\ reporter' = TornReporters
    BY DEF Seek
  <2>2. Transition[Teardown(player).machine].seek = m
    BY <1>2
  <2> QED
    BY <2>1, <2>2
<1> HIDE DEF m
<1>5. PlayerType(P(f)) /\ P(f).engine = NoEngine
  BY <1>2, <1>3, PlayerAt
<1> HIDE DEF P
<1>6. Silent(TornReporters)
  BY TearingSilences
<1>7. CASE player.machine = "playing"
  <2>1. Alone(TornReporters, P(f))
    BY <1>6 DEF Alone, Silent
  <2> QED
    BY <1>4, <1>5, <1>6, <1>7, <2>1, StartKeeps DEF Silent
<1>8. CASE player.machine # "playing"
  BY <1>4, <1>5, <1>6, <1>8, SilentIsFine
<1> QED
  BY <1>7, <1>8

LEMMA SettingsKeep ==
  ASSUME PlayingInv, SetRate \/ SetVolume
  PROVE  PlayingInv'
<1>1. PlayerType(player) /\ reporter' = reporter
  BY DEF SetRate, SetVolume, IsOpen, PlayingInv, PlayingType
<1>2. ASSUME NEW p, NEW q, NEW v, PlayerType(p),
             q = [p EXCEPT !.rate = v] \/ q = [p EXCEPT !.volume = v]
      PROVE  PlayerType(q) /\ q.engine = p.engine /\ q.reporter = p.reporter /\ q.base = p.base
  BY <1>2 DEF PlayerType
<1>3. PICK v : player' = [player EXCEPT !.rate = v] \/ player' = [player EXCEPT !.volume = v]
  BY DEF SetRate, SetVolume
<1>4. /\ PlayerType(player') /\ player'.engine = player.engine
      /\ player'.reporter = player.reporter /\ player'.base = player.base
  BY <1>1, <1>2, <1>3
<1>5. Alone(reporter, player')
  BY <1>1, <1>4, SamePlayer DEF PlayingInv
<1> QED
  BY <1>1, <1>4, <1>5 DEF PlayingInv, PlayingType

LEMMA DeviceKeeps ==
  ASSUME PlayingInv, DevicePulls
  PROVE  PlayingInv'
<1>1. PlayerType(player) /\ EngineType(player.engine) /\ reporter' = reporter
  BY DEF DevicePulls, IsOpen, PlayingInv, PlayingType, PlayerType
<1>2. PICK e, at : /\ player' = [player EXCEPT !.engine = e]
                   /\ \/ e = [player.engine EXCEPT !.over = TRUE]
                      \/ e = [player.engine EXCEPT !.played = player.engine.played + 1, !.at = at]
  <2> DEFINE next == [t \in Selected(player) |-> NextAt(Recorded[t], player.engine.at[t])]
             over == \E t \in Selected(player) : next[t] = End
             at == [t \in Selected(player) |-> <<next[t][1], next[t][2] + 1>>]
             e == IF over THEN [player.engine EXCEPT !.over = TRUE]
                  ELSE [player.engine EXCEPT !.played = player.engine.played + 1, !.at = at]
  <2>1. player' = [player EXCEPT !.engine = e]
    BY DEF DevicePulls
  <2> HIDE DEF over, at
  <2>2. \/ e = [player.engine EXCEPT !.over = TRUE]
        \/ e = [player.engine EXCEPT !.played = player.engine.played + 1, !.at = at]
    OBVIOUS
  <2> HIDE DEF e
  <2> QED
    BY <2>1, <2>2
<1>3. ASSUME NEW d, NEW n, NEW to, EngineType(d),
             n = [d EXCEPT !.over = TRUE] \/ n = [d EXCEPT !.played = d.played + 1, !.at = to]
      PROVE  EngineType(n)
  BY <1>3 DEF EngineType
<1>4. EngineType(e)
  BY <1>1, <1>2, <1>3
<1>5. ASSUME NEW p, NEW q, PlayerType(p), q = [p EXCEPT !.engine = e]
      PROVE  PlayerType(q) /\ q.engine = e /\ q.reporter = p.reporter /\ q.base = p.base
  BY <1>4, <1>5 DEF PlayerType
<1>6. /\ PlayerType(player') /\ player'.engine = e
      /\ player'.reporter = player.reporter /\ player'.base = player.base
  BY <1>1, <1>2, <1>5
<1>7. e # NoEngine
  BY <1>4 DEF EngineType, NoEngine
<1>8. Alone(reporter, player')
  BY <1>1, <1>6, <1>7, SamePlayer DEF PlayingInv
<1> QED
  BY <1>1, <1>6, <1>8 DEF PlayingInv, PlayingType

\* A thread goes on as it was, or ends.
LEMMA ThreadKeeps ==
  ASSUME PlayingInv, NEW s \in Reporters, player' = player, NEW pc,
         reporter[s] # NoReporter,
         \/ reporter' = [reporter EXCEPT ![s] = NoReporter]
         \/ reporter' = [reporter EXCEPT ![s] = [@ EXCEPT !.pc = pc]]
  PROVE  PlayingInv'
<1>1. ReporterType(reporter[s]) /\ DOMAIN reporter' = Reporters
  BY DEF PlayingInv, PlayingType
<1>2. ASSUME NEW r, NEW q, ReporterType(r), q = [r EXCEPT !.pc = pc]
      PROVE  ReporterType(q) /\ q.stop = r.stop /\ q.counter = r.counter /\ q.base = r.base
  BY <1>2 DEF ReporterType
<1>3. \A x \in Reporters : x # s => reporter'[x] = reporter[x]
  BY DEF PlayingInv, PlayingType
<1>4. reporter'[s] = NoReporter \/ reporter'[s] = [reporter[s] EXCEPT !.pc = pc]
  BY DEF PlayingInv, PlayingType
<1>5. \/ reporter'[s] = NoReporter
      \/ /\ ReporterType(reporter'[s]) /\ reporter'[s].stop = reporter[s].stop
         /\ reporter'[s].counter = reporter[s].counter /\ reporter'[s].base = reporter[s].base
  BY <1>1, <1>2, <1>4
<1>6. PlayingType'
  BY <1>1, <1>3, <1>5 DEF PlayingInv, PlayingType
<1>7. ASSUME NEW x \in Reporters, reporter'[x] # NoReporter, ~reporter'[x].stop
      PROVE  Reports(x, reporter'[x], player)
  <2>1. CASE x # s
    BY <1>3, <1>7, <2>1 DEF PlayingInv, Alone
  <2>2. CASE x = s
    <3>1. Reports(s, reporter[s], player)
      BY <1>5, <1>7, <2>2 DEF PlayingInv, Alone
    <3> QED
      BY <1>5, <1>7, <2>2, <3>1 DEF Reports
  <2> QED
    BY <2>1, <2>2
<1> QED
  BY <1>6, <1>7 DEF PlayingInv, Alone

LEMMA PlayingInvariant == PlaybackSpec => []PlayingInv
<1>1. PlaybackInit => PlayingInv
  BY DEF PlaybackInit, PlayingInv, PlayingType, Alone
<1>2. PlayingInv /\ [PlaybackNext]_<<storeVars, commands, playbackVars>> => PlayingInv'
  <2> SUFFICES ASSUME PlayingInv, [PlaybackNext]_<<storeVars, commands, playbackVars>>
               PROVE  PlayingInv'
    OBVIOUS
  <2>1. ASSUME UNCHANGED playbackVars
        PROVE  PlayingInv'
    BY <2>1 DEF playbackVars, PlayingInv, PlayingType, Alone
  <2>2. ASSUME NEW s \in Reporters, ReporterWakes(s)
        PROVE  PlayingInv'
    <3>1. /\ reporter[s] # NoReporter /\ player' = player
          /\ \/ reporter' = [reporter EXCEPT ![s] = NoReporter]
             \/ reporter' = [reporter EXCEPT ![s] = [@ EXCEPT !.pc = "awake"]]
      <4>1. reporter[s].pc = "asleep" /\ NoReporter.pc = "none"
        BY <2>2 DEF ReporterWakes, NoReporter
      <4>2. CASE reporter[s].stop
        BY <2>2, <4>1, <4>2 DEF ReporterWakes
      <4>3. CASE ~reporter[s].stop
        BY <2>2, <4>1, <4>3 DEF ReporterWakes
      <4> QED
        BY <4>2, <4>3
    <3> QED
      BY <3>1, ThreadKeeps
  <2>3. ASSUME NEW s \in Reporters, ReporterEmits(s)
        PROVE  PlayingInv'
    <3>1. /\ reporter[s] # NoReporter /\ player' = player
          /\ \/ reporter' = [reporter EXCEPT ![s] = NoReporter]
             \/ reporter' = [reporter EXCEPT ![s] = [@ EXCEPT !.pc = "asleep"]]
      <4> DEFINE left == SaturatingSub(reporter[s].total, reporter[s].base)
                 played == Lesser(IF reporter[s].counter = "engine" THEN player.engine.played
                                  ELSE reporter[s].played, left)
                 over == played >= left
      <4>1. reporter[s].pc = "awake" /\ NoReporter.pc = "none"
        BY <2>3 DEF ReporterEmits, NoReporter
      <4>2. /\ player' = player
            /\ reporter' = [reporter EXCEPT ![s] = IF over THEN NoReporter ELSE [@ EXCEPT !.pc = "asleep"]]
        BY <2>3 DEF ReporterEmits
      <4> HIDE DEF over
      <4>3. CASE over
        BY <4>1, <4>2, <4>3
      <4>4. CASE ~over
        BY <4>1, <4>2, <4>4
      <4> QED
        BY <4>3, <4>4
    <3> QED
      BY <3>1, ThreadKeeps
  <2> QED
    BY <2>1, <2>2, <2>3, OpenSilences, SelectTrackSilences, PlayKeeps, PauseSilences, SeekKeeps,
       SettingsKeep, DeviceKeeps DEF PlaybackNext
<1> QED
  BY <1>1, <1>2, PTL DEF PlaybackSpec

\* At most one thread reports, and it reports what plays now from where it was
\* started: whatever sequence of seeks, tracks and sessions, and however late
\* the threads told to stop look at their flag.
THEOREM OneReporter == PlaybackSpec => []ReporterIsCurrent
<1>1. PlayingInv => ReporterIsCurrent
  BY DEF PlayingInv, Alone, Reports, ReporterIsCurrent, IsOpen
<1> QED
  BY <1>1, PlayingInvariant, PTL

-----------------------------------------------------------------------------
(***************************************************************************)
(* The axis of a track.  Build puts the rows in the order of their index    *)
(* and sums their frames from the front; that it makes an axis is shown by  *)
(* the least place where it would not.                                      *)
(***************************************************************************)
LEMMA LeastNumber ==
  ASSUME NEW S, S \subseteq Nat, S # {}
  PROVE  Min(S) \in S /\ \A y \in S : Min(S) <= y
<1>1. PICK x \in S : \A y \in S : ~(<<y, x>> \in OpToRel(<, Nat))
  BY NatLessThanWellFounded, WFMin
<1>2. \A y \in S : x <= y
  <2> SUFFICES ASSUME NEW y \in S PROVE x <= y
    OBVIOUS
  <2>1. x \in Nat /\ y \in Nat
    OBVIOUS
  <2>2. ~(y < x)
    BY <1>1, <2>1 DEF OpToRel
  <2> QED
    BY <2>1, <2>2
<1> QED
  BY <1>2 DEF Min

LEMMA GreatestNumber ==
  ASSUME NEW n \in Nat, NEW S, S \subseteq 1 .. n, S # {}
  PROVE  Max(S) \in S /\ \A y \in S : y <= Max(S)
<1> DEFINE T == {n - x : x \in S}
<1>1. T \subseteq Nat /\ T # {}
  <2>1. \A x \in S : x \in 1 .. n /\ n - x \in Nat
    OBVIOUS
  <2>2. PICK x \in S : TRUE
    OBVIOUS
  <2>3. n - x \in T
    BY <2>2
  <2> QED
    BY <2>1, <2>3
<1>2. Min(T) \in T /\ \A y \in T : Min(T) <= y
  BY <1>1, LeastNumber
<1>3. PICK x \in S : Min(T) = n - x
  BY <1>2
<1>4. \A y \in S : y <= x
  <2> SUFFICES ASSUME NEW y \in S PROVE y <= x
    OBVIOUS
  <2>1. n - y \in T /\ y \in 1 .. n /\ x \in 1 .. n
    OBVIOUS
  <2>2. n - x <= n - y
    BY <1>2, <1>3, <2>1
  <2> QED
    BY <2>1, <2>2
<1> QED
  BY <1>4 DEF Max

\* The rows of a track, each in the place of its index.
Rank(own, r) == Cardinality({q \in own : q.index <= r.index})
IndexedRows(own) ==
  /\ IsFiniteSet(own)
  /\ \A r \in own : r.index \in Nat /\ r.frames \in Nat /\ r.at \in Nat
  /\ \A r, q \in own : r.index = q.index => r = q

LEMMA EveryRank ==
  ASSUME NEW own, IndexedRows(own), NEW i \in 1 .. Cardinality(own)
  PROVE  \E r \in own : Rank(own, r) = i
<1> DEFINE upto(r) == {q \in own : q.index <= r.index}
           n == Cardinality(own)
           rank == [r \in own |-> Rank(own, r)]
<1>1. n \in Nat /\ IsFiniteSet(own)
  BY FS_CardinalityType DEF IndexedRows
<1>2. ASSUME NEW r \in own
      PROVE  /\ IsFiniteSet(upto(r)) /\ r \in upto(r)
             /\ Cardinality(upto(r)) \in 1 .. n
  <2>1. upto(r) \in SUBSET own /\ r \in upto(r)
    BY DEF IndexedRows
  <2> HIDE DEF upto
  <2>2. IsFiniteSet(upto(r)) /\ Cardinality(upto(r)) <= n
    BY <1>1, <2>1, FS_Subset
  <2>3. Cardinality(upto(r)) \in Nat /\ Cardinality(upto(r)) # 0
    BY <2>1, <2>2, FS_CardinalityType, FS_EmptySet
  <2> QED
    BY <1>1, <2>1, <2>2, <2>3
<1>3. ASSUME NEW r \in own, NEW q \in own, r.index < q.index
      PROVE  Cardinality(upto(r)) # Cardinality(upto(q))
  <2>1. upto(r) \in SUBSET upto(q) /\ q \in upto(q) /\ q \notin upto(r)
    BY <1>3 DEF IndexedRows
  <2>2. IsFiniteSet(upto(q))
    BY <1>2
  <2> HIDE DEF upto
  <2> QED
    BY <2>1, <2>2, FS_Subset
<1>4. rank \in Injection(own, 1 .. n)
  <2>1. \A r \in own : rank[r] = Cardinality(upto(r))
    BY DEF Rank
  <2>2. rank \in [own -> 1 .. n]
    BY <1>2, <2>1
  <2>3. ASSUME NEW r \in own, NEW q \in own, rank[r] = rank[q]
        PROVE  r = q
    <3>1. r.index \in Nat /\ q.index \in Nat /\ (r.index = q.index => r = q)
      BY DEF IndexedRows
    <3>2. ~(r.index < q.index) /\ ~(q.index < r.index)
      BY <1>3, <2>1, <2>3
    <3> QED
      BY <3>1, <3>2
  <2> QED
    BY <2>2, <2>3 DEF Injection, IsInjective
<1>5. IsFiniteSet(1 .. n) /\ Cardinality(1 .. n) = n
  BY <1>1, FS_Interval
<1> HIDE DEF rank
<1>6. rank \in Surjection(own, 1 .. n)
  BY <1>4, <1>5, FS_Injection
<1>7. PICK r \in own : rank[r] = i
  BY <1>6 DEF Surjection
<1> QED
  BY <1>7 DEF rank

\* A sum from the front of a list: there is one ...
Sums(L, n, c) == c = [i \in 1 .. n + 1 |-> IF i = 1 THEN 0 ELSE c[i-1] + L[i-1]]

LEMMA RunningSum ==
  ASSUME NEW n \in Nat, NEW L
  PROVE  \E c : Sums(L, n, c)
<1> DEFINE Bad == {m \in 0 .. n : ~\E c : Sums(L, m, c)}
<1> SUFFICES ASSUME Bad # {} PROVE FALSE
  OBVIOUS
<1>1. Bad \subseteq Nat
  OBVIOUS
<1> DEFINE m == Min(Bad)
<1>2. m \in Bad /\ \A y \in Bad : m <= y
  BY <1>1, LeastNumber
<1> HIDE DEF m
<1>3. m \in 0 .. n /\ ~\E c : Sums(L, m, c)
  BY <1>2
<1>4. m # 0
  <2> SUFFICES ASSUME m = 0 PROVE FALSE
    OBVIOUS
  <2> DEFINE z == [i \in 1 .. 1 |-> 0]
  <2>1. Sums(L, 0, z)
    BY DEF Sums
  <2> QED
    BY <1>3, <2>1
<1>5. m - 1 \in 0 .. n /\ m - 1 \notin Bad /\ m \in 1 .. n
  BY <1>2, <1>3, <1>4
<1>6. PICK c : Sums(L, m - 1, c)
  BY <1>5
<1> DEFINE d == [i \in 1 .. m + 1 |-> IF i = 1 THEN 0 ELSE c[i-1] + L[i-1]]
<1>7. c = [i \in 1 .. m |-> IF i = 1 THEN 0 ELSE c[i-1] + L[i-1]]
  BY <1>5, <1>6 DEF Sums
<1>8. \A i \in 1 .. m : d[i] = c[i]
  BY <1>5, <1>7
<1>9. \A i \in 1 .. m + 1 : i # 1 => i - 1 \in 1 .. m
  BY <1>5
<1>10. d = [i \in 1 .. m + 1 |-> IF i = 1 THEN 0 ELSE d[i-1] + L[i-1]]
  BY <1>8, <1>9
<1> HIDE DEF d
<1> QED
  BY <1>3, <1>10 DEF Sums

\* ... and it is a number everywhere.
LEMMA SumsAreNumbers ==
  ASSUME NEW n \in Nat, NEW L, \A i \in 1 .. n : L[i] \in Nat, NEW c, Sums(L, n, c)
  PROVE  \A i \in 1 .. n + 1 : c[i] \in Nat
<1> DEFINE T == {i \in 1 .. n + 1 : ~(c[i] \in Nat)}
<1> SUFFICES ASSUME T # {} PROVE FALSE
  OBVIOUS
<1>1. T \subseteq Nat
  OBVIOUS
<1> DEFINE m == Min(T)
<1>2. m \in T /\ \A y \in T : m <= y
  BY <1>1, LeastNumber
<1> HIDE DEF m
<1>3. m \in 1 .. n + 1 /\ ~(c[m] \in Nat)
  BY <1>2
<1>4. c[m] = IF m = 1 THEN 0 ELSE c[m-1] + L[m-1]
  BY <1>3 DEF Sums
<1>5. m # 1
  BY <1>3, <1>4
<1>6. m - 1 \in 1 .. n /\ m - 1 \in 1 .. n + 1 /\ m - 1 < m
  BY <1>3, <1>5
<1>7. c[m-1] \in Nat
  BY <1>2, <1>3, <1>6
<1> QED
  BY <1>3, <1>4, <1>5, <1>6, <1>7

\* Build makes an axis of any rows that their index identifies.
LEMMA BuildAddsUp ==
  ASSUME NEW rs, NEW t, IndexedRows({r \in rs : r.track = t})
  PROVE  Axis(Build(rs, t))
<1> DEFINE own == {r \in rs : r.track = t}
           n == Cardinality(own)
           Nth(i) == CHOOSE r \in own : Cardinality({q \in own : q.index <= r.index}) = i
           L == [i \in 1 .. n |-> Nth(i).frames]
           cursor == CHOOSE c : c = [i \in 1 .. n + 1 |-> IF i = 1 THEN 0 ELSE c[i-1] + Nth(i-1).frames]
           tl == Build(rs, t)
<1>1. n \in Nat
  BY FS_CardinalityType DEF IndexedRows
<1>2. ASSUME NEW i \in 1 .. n
      PROVE  Nth(i) \in own
  BY EveryRank DEF Rank
<1>3. \A i \in 1 .. n : Nth(i).frames \in Nat /\ Nth(i).at \in Nat /\ Nth(i).index \in Nat
  BY <1>2 DEF IndexedRows
<1>4. tl = [ segs  |-> [i \in 1 .. n |->
                     [ track  |-> t,
                       index  |-> Nth(i).index,
                       start  |-> cursor[i],
                       frames |-> Nth(i).frames,
                       at     |-> Nth(i).at ]],
             total |-> cursor[n + 1] ]
  BY Zenon DEF Build
<1> HIDE DEF Nth
<1>5. PICK c : Sums(L, n, c)
  BY <1>1, RunningSum
<1>6. \A i \in 1 .. n + 1 : i # 1 => i - 1 \in 1 .. n
  BY <1>1
<1>7. c = [i \in 1 .. n + 1 |-> IF i = 1 THEN 0 ELSE c[i-1] + Nth(i-1).frames]
  BY <1>5, <1>6 DEF Sums
<1>8. cursor = [i \in 1 .. n + 1 |-> IF i = 1 THEN 0 ELSE cursor[i-1] + Nth(i-1).frames]
  BY <1>7, Zenon
<1> HIDE DEF cursor
<1>9. Sums(L, n, cursor)
  BY <1>6, <1>8 DEF Sums
<1>10. \A i \in 1 .. n + 1 : cursor[i] \in Nat
  BY <1>1, <1>3, <1>9, SumsAreNumbers
<1> HIDE DEF own, n, tl, L
<1>11. tl.segs = [i \in 1 .. n |-> [ track  |-> t, index  |-> Nth(i).index, start  |-> cursor[i],
                       frames |-> Nth(i).frames, at     |-> Nth(i).at ]] /\ tl.total = cursor[n+1]
  BY <1>4
<1>12. Len(tl.segs) = n /\ DOMAIN tl.segs = 1 .. n
  BY <1>1, <1>11
<1>13. \A i \in 1 .. n : /\ tl.segs[i].start = cursor[i] /\ tl.segs[i].frames = Nth(i).frames
                         /\ tl.segs[i].at = Nth(i).at
  BY <1>11
<1>14. \A i \in 1 .. n : /\ tl.segs[i].start \in Nat /\ tl.segs[i].frames \in Nat /\ tl.segs[i].at \in Nat
  BY <1>1, <1>3, <1>10, <1>13
<1>15. ASSUME NEW i \in 1 .. n
       PROVE  tl.segs[i].start = IF i = 1 THEN 0 ELSE tl.segs[i-1].start + tl.segs[i-1].frames
  <2>1. i \in 1 .. n + 1 /\ (i # 1 => i - 1 \in 1 .. n)
    BY <1>1
  <2> QED
    BY <1>8, <1>13, <2>1
<1>16. tl.total = IF n = 0 THEN 0 ELSE tl.segs[n].start + tl.segs[n].frames
  <2>1. n + 1 \in 1 .. n + 1 /\ (n # 0 => n \in 1 .. n) /\ (n + 1 = 1 <=> n = 0) /\ (n + 1) - 1 = n
    BY <1>1
  <2>2. cursor[n+1] = IF n + 1 = 1 THEN 0 ELSE cursor[(n + 1)-1] + Nth((n + 1)-1).frames
    BY <1>8, <2>1
  <2> QED
    BY <1>11, <1>13, <2>1, <2>2
<1> QED
  BY <1>1, <1>12, <1>14, <1>15, <1>16 DEF Axis, tl

LEMMA AxesAddUp ==
  /\ \A t \in TrackIds : Axis(Recorded[t])
  /\ \A t : Build({}, t).total = 0
<1>1. ASSUME NEW t \in TrackIds
      PROVE  Axis(Recorded[t])
  <2> DEFINE own == {r \in Recording : r.track = t}
  <2>1. IsFiniteSet(own)
    BY SessionAssumption, FS_Subset
  <2>2. IndexedRows(own)
    BY <2>1, SessionAssumption DEF IndexedRows
  <2> QED
    BY <2>2, BuildAddsUp DEF Recorded
<1>2. ASSUME NEW t
      PROVE  Build({}, t).total = 0
  <2>1. {r \in {} : r.track = t} = {} /\ IndexedRows({})
    BY FS_EmptySet DEF IndexedRows
  <2>2. Axis(Build({}, t))
    BY <2>1, BuildAddsUp
  <2>3. Cardinality({}) = 0
    BY FS_EmptySet
  <2>4. Len(Build({}, t).segs) = 0
    <3>1. DOMAIN Build({}, t).segs = 1 .. 0
      BY <2>1, <2>3 DEF Build
    <3> QED
      BY <2>2, <3>1 DEF Axis
  <2> QED
    BY <2>2, <2>4 DEF Axis
<1> QED
  BY <1>1, <1>2

\* Segments lie one behind the other ...
LEMMA AxisGrows ==
  ASSUME NEW tl, Axis(tl), NEW i \in 1 .. Len(tl.segs), NEW j \in 1 .. Len(tl.segs), i < j
  PROVE  tl.segs[i].start + tl.segs[i].frames <= tl.segs[j].start
<1> DEFINE n == Len(tl.segs)
           end == tl.segs[i].start + tl.segs[i].frames
           T == {k \in 1 .. n : i < k /\ ~(end <= tl.segs[k].start)}
<1>1. n \in Nat /\ end \in Nat /\ \A k \in 1 .. n : tl.segs[k].start \in Nat /\ tl.segs[k].frames \in Nat
  BY DEF Axis
<1> SUFFICES ASSUME ~(end <= tl.segs[j].start) PROVE FALSE
  OBVIOUS
<1>2. T \subseteq Nat /\ j \in T
  BY <1>1
<1> DEFINE m == Min(T)
<1>3. m \in T /\ \A y \in T : m <= y
  BY <1>2, LeastNumber
<1> HIDE DEF m
<1>4. m \in 1 .. n /\ i < m /\ m - 1 \in 1 .. n /\ m # 1
  BY <1>1, <1>3
<1>5. tl.segs[m].start = tl.segs[m-1].start + tl.segs[m-1].frames
  BY <1>4 DEF Axis
<1>6. m - 1 = i \/ end <= tl.segs[m-1].start
  BY <1>1, <1>3, <1>4
<1>7. end <= tl.segs[m].start
  BY <1>1, <1>4, <1>5, <1>6
<1> QED
  BY <1>3, <1>7

\* ... without a gap, where those between are empty.
LEMMA AxisCloses ==
  ASSUME NEW tl, Axis(tl), NEW i \in 1 .. Len(tl.segs), NEW j \in 1 .. Len(tl.segs), i < j,
         \A k \in 1 .. Len(tl.segs) : i < k /\ k < j => tl.segs[k].frames = 0
  PROVE  tl.segs[j].start = tl.segs[i].start + tl.segs[i].frames
<1> DEFINE n == Len(tl.segs)
           end == tl.segs[i].start + tl.segs[i].frames
           T == {k \in 1 .. n : i < k /\ k <= j /\ tl.segs[k].start # end}
<1>1. n \in Nat /\ end \in Nat /\ \A k \in 1 .. n : tl.segs[k].start \in Nat /\ tl.segs[k].frames \in Nat
  BY DEF Axis
<1> SUFFICES ASSUME tl.segs[j].start # end PROVE FALSE
  OBVIOUS
<1>2. T \subseteq Nat /\ j \in T
  BY <1>1
<1> DEFINE m == Min(T)
<1>3. m \in T /\ \A y \in T : m <= y
  BY <1>2, LeastNumber
<1> HIDE DEF m
<1>4. m \in 1 .. n /\ i < m /\ m <= j /\ m - 1 \in 1 .. n /\ m # 1 /\ m - 1 < j
  BY <1>1, <1>3
<1>5. tl.segs[m].start = tl.segs[m-1].start + tl.segs[m-1].frames
  BY <1>4 DEF Axis
<1>6. m - 1 = i \/ (tl.segs[m-1].start = end /\ tl.segs[m-1].frames = 0)
  BY <1>1, <1>3, <1>4
<1>7. end = tl.segs[m].start
  BY <1>1, <1>4, <1>5, <1>6
<1> QED
  BY <1>3, <1>7

\* A place on an axis, the end of its segment included.
Place(tl, at) ==
  /\ at[1] \in 1 .. Len(tl.segs)
  /\ at[2] \in Nat /\ at[2] <= tl.segs[at[1]].frames

\* The frame that comes next at a place.
FrameAt(tl, at) == tl.segs[at[1]].start + at[2]

\* The search by frame finds the frame.
LEMMA LocateFinds ==
  ASSUME NEW tl, Axis(tl), NEW frame \in Nat, frame < tl.total, NEW at \in Locate(tl, frame)
  PROVE  Place(tl, at) /\ FrameAt(tl, at) = frame /\ tl.segs # << >>
<1> DEFINE n == Len(tl.segs)
           exact == {i \in DOMAIN tl.segs : tl.segs[i].start = frame}
           below == {i \in DOMAIN tl.segs : tl.segs[i].start < frame}
<1>1. /\ n \in Nat /\ DOMAIN tl.segs = 1 .. n
      /\ \A k \in 1 .. n : tl.segs[k].start \in Nat /\ tl.segs[k].frames \in Nat
      /\ n # 0 /\ tl.total = tl.segs[n].start + tl.segs[n].frames
  BY DEF Axis
<1>2. tl.segs # << >>
  BY <1>1
<1>3. Lesser(frame, SaturatingSub(tl.total, 1)) = frame
  <2>1. tl.total \in Nat /\ n \in 1 .. n
    BY <1>1
  <2>2. SaturatingSub(tl.total, 1) = tl.total - 1 \/ (frame = 0 /\ SaturatingSub(tl.total, 1) = 0)
    BY <2>1 DEF SaturatingSub
  <2> QED
    BY <2>1, <2>2 DEF Lesser
<1>4. CASE exact # {}
  <2>1. at \in {<<i, 0>> : i \in exact}
    BY <1>3, <1>4 DEF Locate
  <2> QED
    BY <1>1, <1>2, <2>1 DEF Place, FrameAt
<1>5. CASE exact = {}
  <2>1. at \in {<<i, frame - tl.segs[i].start>> : i \in {j \in below : \A k \in below : k <= j}}
    BY <1>3, <1>5 DEF Locate
  <2>2. PICK i \in below : at = <<i, frame - tl.segs[i].start>> /\ \A k \in below : k <= i
    BY <2>1
  <2>3. /\ i \in 1 .. n /\ tl.segs[i].start < frame /\ at[1] = i
        /\ at[2] = frame - tl.segs[i].start
    BY <1>1, <2>2
  <2>4. at[2] \in Nat /\ tl.segs[i].start + at[2] = frame
    BY <1>1, <2>3
  <2>5. frame <= tl.segs[i].start + tl.segs[i].frames
    <3>1. CASE i = n
      BY <1>1, <3>1
    <3>2. CASE i # n
      <4>1. i + 1 \in 1 .. n /\ i + 1 # 1 /\ (i + 1) - 1 = i
        BY <1>1, <2>3, <3>2
      <4>2. tl.segs[i+1].start = tl.segs[i].start + tl.segs[i].frames
        BY <4>1 DEF Axis
      <4>3. i + 1 \notin below /\ i + 1 \notin exact
        BY <1>5, <2>2, <2>3
      <4> QED
        BY <1>1, <4>1, <4>2, <4>3
    <3> QED
      BY <3>1, <3>2
  <2> QED
    BY <1>1, <1>2, <2>3, <2>4, <2>5 DEF Place, FrameAt
<1> QED
  BY <1>4, <1>5

\* What a source yields next lies where it is, or behind what cannot be decoded.
LEMMA NextIsNear ==
  ASSUME NEW tl, Axis(tl), NEW at, Place(tl, at), NextAt(tl, at) # End
  PROVE  /\ Place(tl, NextAt(tl, at))
         /\ NextAt(tl, at)[2] < tl.segs[NextAt(tl, at)[1]].frames
         /\ FrameAt(tl, at) <= FrameAt(tl, NextAt(tl, at))
         /\ (\A i \in DOMAIN tl.segs : Readable(tl.segs[i])) =>
              FrameAt(tl, at) = FrameAt(tl, NextAt(tl, at))
<1> DEFINE n == Len(tl.segs)
           i == at[1]
           later == {j \in DOMAIN tl.segs :
                       j > at[1] /\ Readable(tl.segs[j]) /\ tl.segs[j].frames > 0}
<1>1. /\ n \in Nat /\ DOMAIN tl.segs = 1 .. n
      /\ \A k \in 1 .. n : tl.segs[k].start \in Nat /\ tl.segs[k].frames \in Nat
      /\ i \in 1 .. n /\ at[2] \in Nat /\ at[2] <= tl.segs[i].frames
  BY DEF Axis, Place
<1>2. at # End
  BY <1>1 DEF End
<1>3. CASE at[2] < tl.segs[i].frames
  <2>1. NextAt(tl, at) = at
    BY <1>2, <1>3 DEF NextAt
  <2> QED
    BY <1>1, <1>3, <2>1 DEF FrameAt
<1>4. CASE ~(at[2] < tl.segs[i].frames)
  <2>1. later # {} /\ NextAt(tl, at) = <<Min(later), 0>>
    BY <1>2, <1>4 DEF NextAt
  <2>a. \A k \in Nat : k \in later <=> /\ k \in 1 .. n /\ i < k
                                       /\ Readable(tl.segs[k]) /\ tl.segs[k].frames > 0
    BY <1>1
  <2>b. later \subseteq Nat
    BY <1>1
  <2> DEFINE j == Min(later)
  <2> HIDE DEF later
  <2>2. j \in later /\ \A k \in later : j <= k
    BY <2>1, <2>b, LeastNumber
  <2>c. NextAt(tl, at) = <<j, 0>>
    BY <2>1
  <2> HIDE DEF j
  <2>3. /\ j \in 1 .. n /\ i < j /\ tl.segs[j].frames > 0
        /\ NextAt(tl, at)[1] = j /\ NextAt(tl, at)[2] = 0
    BY <2>a, <2>b, <2>2, <2>c
  <2>4. at[2] = tl.segs[i].frames
    BY <1>1, <1>4
  <2>5. tl.segs[i].start + tl.segs[i].frames <= tl.segs[j].start
    BY <1>1, <2>3, AxisGrows
  <2>6. ASSUME \A k \in DOMAIN tl.segs : Readable(tl.segs[k])
        PROVE  tl.segs[j].start = tl.segs[i].start + tl.segs[i].frames
    <3>1. ASSUME NEW k \in 1 .. n, i < k, k < j
          PROVE  tl.segs[k].frames = 0
      <4>1. k \notin later
        BY <1>1, <2>2, <2>3, <3>1
      <4>2. ~(tl.segs[k].frames > 0)
        BY <1>1, <2>a, <2>6, <3>1, <4>1
      <4> QED
        BY <1>1, <4>2
    <3> QED
      BY <1>1, <2>3, <3>1, AxisCloses
  <2> QED
    BY <1>1, <2>3, <2>4, <2>5, <2>6 DEF FrameAt, Place
<1> QED
  BY <1>3, <1>4

-----------------------------------------------------------------------------
(***************************************************************************)
(* Where the sources are: at the frame the position says, or ahead of it   *)
(* when something on the way could not be decoded.                         *)
(***************************************************************************)
Sound == {t \in TrackIds : \A i \in DOMAIN Recorded[t].segs : Readable(Recorded[t].segs[i])}

\* Track t of the player p, whose segments can all be decoded if `sound`.
OnPosition(p, t, sound) ==
  /\ Place(Recorded[t], p.engine.at[t])
  /\ Position(p) <= FrameAt(Recorded[t], p.engine.at[t])
  /\ t \in sound => Position(p) = FrameAt(Recorded[t], p.engine.at[t])

PlaceOf(p, sound) ==
  /\ p.base \in Nat /\ p.order = ResolveTracks /\ Selected(p) \subseteq TrackIds
  /\ p.engine # NoEngine =>
       /\ p.engine.played \in Nat
       /\ p.base < SelectedFrames(p) => \A t \in Selected(p) : OnPosition(p, t, sound)

PlaceInv == player # NoPlayer => PlaceOf(player, Sound)

LEMMA MoreDamage ==
  ASSUME NEW p, NEW s1, NEW s2, s2 \subseteq s1, PlaceOf(p, s1)
  PROVE  PlaceOf(p, s2)
BY DEF PlaceOf, OnPosition

\* Files that have become unreadable stay so.
LEMMA SoundShrinks ==
  ASSUME [PlaybackNext]_<<storeVars, commands, playbackVars>>
  PROVE  Sound' \subseteq Sound
<1>1. present' = present
  BY DEF PlaybackNext, Open, SelectTrack, Play, Pause, Seek, SetRate, SetVolume, Close,
     DevicePulls, ReporterWakes, ReporterEmits, Damage, storeVars
<1>2. damaged \subseteq damaged'
  <2>1. CASE Damage
    BY <2>1 DEF Damage
  <2>2. CASE ~Damage
    BY <2>2 DEF PlaybackNext, Open, SelectTrack, Play, Pause, Seek, SetRate, SetVolume, Close,
     DevicePulls, ReporterWakes, ReporterEmits, storeVars
  <2> QED
    BY <2>1, <2>2
<1>3. Recorded' = Recorded /\ TrackIds' = TrackIds
  BY DEF Recorded, TrackIds, ResolveTracks
<1> QED
  BY <1>1, <1>2, <1>3 DEF Sound, Readable, File

LEMMA Numbers ==
  ASSUME NEW ms \in Nat
  PROVE  MsToFrames(ms) \in Nat
<1>1. Rate \in Nat
  BY RateAssumption
<1>2. ms * Rate \in Nat
  BY <1>1
<1> DEFINE x == ms * Rate
<1>3. x \in Nat
  BY <1>2
<1> HIDE DEF x
<1>4. x \div 1000 \in Nat
  BY <1>3
<1> QED
  BY <1>4 DEF MsToFrames, x

\* A moment of the clock is taken for a frame.
LEMMA MarkerIsFrame ==
  ASSUME NEW tl, Axis(tl), NEW at \in Nat
  PROVE  FrameAtWallClock(tl, at) \in Nat
<1> DEFINE n == Len(tl.segs)
           over(i) == tl.segs[i].at + FramesToMs(tl.segs[i].frames)
           decided == {i \in DOMAIN tl.segs : at < tl.segs[i].at \/ at < over(i)}
           i == Min(decided)
<1>1. /\ n \in Nat /\ DOMAIN tl.segs = 1 .. n
      /\ \A k \in 1 .. n : /\ tl.segs[k].start \in Nat /\ tl.segs[k].frames \in Nat
                           /\ tl.segs[k].at \in Nat
      /\ tl.total \in Nat
  BY DEF Axis
<1>a. decided \subseteq 1 .. n
  BY <1>1
<1> HIDE DEF over
<1>2. FrameAtWallClock(tl, at) =
        IF decided = {} THEN SaturatingSub(tl.total, 1)
        ELSE IF at >= tl.segs[i].at THEN tl.segs[i].start + MsToFrames(at - tl.segs[i].at)
        ELSE IF i = 1 THEN 0 ELSE tl.segs[i-1].start + SaturatingSub(tl.segs[i-1].frames, 1)
  BY DEF FrameAtWallClock, over
<1> HIDE DEF decided
<1>3. CASE decided = {}
  BY <1>1, <1>2, <1>3 DEF SaturatingSub
<1>4. CASE decided # {}
  <2>1. i \in 1 .. n
    <3>1. decided \subseteq Nat
      BY <1>1, <1>a
    <3> QED
      BY <1>4, <1>a, <3>1, LeastNumber
  <2> HIDE DEF i
  <2>2. CASE at >= tl.segs[i].at
    <3>1. at - tl.segs[i].at \in Nat
      BY <1>1, <2>1, <2>2
    <3>2. MsToFrames(at - tl.segs[i].at) \in Nat
      BY <3>1, Numbers
    <3> QED
      BY <1>1, <1>2, <1>4, <2>1, <2>2, <3>2
  <2>3. CASE ~(at >= tl.segs[i].at) /\ i # 1
    <3>1. i - 1 \in 1 .. n
      BY <1>1, <2>1, <2>3
    <3>2. tl.segs[i-1].start \in Nat /\ SaturatingSub(tl.segs[i-1].frames, 1) \in Nat
      BY <1>1, <3>1 DEF SaturatingSub
    <3> QED
      BY <1>2, <1>4, <2>3, <3>2
  <2> QED
    BY <1>2, <1>4, <2>2, <2>3
<1> QED
  BY <1>3, <1>4

LEMMA AxisLength ==
  ASSUME NEW tl, Axis(tl)
  PROVE  tl.total \in Nat
<1>1. CASE Len(tl.segs) = 0
  BY <1>1 DEF Axis
<1>2. CASE Len(tl.segs) # 0
  <2>1. Len(tl.segs) \in 1 .. Len(tl.segs)
    BY <1>2 DEF Axis
  <2>2. tl.segs[Len(tl.segs)].start \in Nat /\ tl.segs[Len(tl.segs)].frames \in Nat
    BY <2>1 DEF Axis
  <2> QED
    BY <1>2, <2>2 DEF Axis
<1> QED
  BY <1>1, <1>2

\* What is selected is shorter than none of its tracks.
LEMMA ShortestTrack ==
  ASSUME NEW p, Selected(p) \subseteq TrackIds, NEW t \in Selected(p)
  PROVE  SelectedFrames(p) \in Nat /\ SelectedFrames(p) <= Recorded[t].total
<1> DEFINE S == {Recorded[u].total : u \in Selected(p)}
<1>1. \A u \in TrackIds : Recorded[u].total \in Nat
  BY AxisLength, AxesAddUp
<1>0. S \subseteq Nat
  BY <1>1
<1>2. Recorded[t].total \in S
  OBVIOUS
<1>3. SelectedFrames(p) = Min(S)
  BY DEF SelectedFrames
<1> HIDE DEF S
<1>4. Min(S) \in S /\ \A y \in S : Min(S) <= y
  BY <1>0, <1>2, LeastNumber
<1> QED
  BY <1>0, <1>2, <1>3, <1>4

LEMMA TracksThere == ResolveTracks[1] \in TrackIds
<1>1. CASE TrackRows = <<>>
  BY <1>1 DEF ResolveTracks, TrackIds
<1>2. CASE TrackRows # <<>>
  <2>1. 1 \in DOMAIN TrackRows
    BY <1>2, SessionAssumption
  <2> QED
    BY <1>2, <2>1 DEF ResolveTracks, TrackIds
<1> QED
  BY <1>1, <1>2

\* A new engine begins at the base.
LEMMA BuiltOnPosition ==
  ASSUME NEW p, PlayerType(p), PlaceOf(p, Sound), NEW e \in BuildEngine(p),
         p.base < SelectedFrames(p), NEW t \in Selected(p)
  PROVE  /\ e.played = 0 /\ Place(Recorded[t], e.at[t])
         /\ FrameAt(Recorded[t], e.at[t]) = p.base
<1>1. PICK f \in Sources(p) : e = [state |-> "built", at |-> f, played |-> 0, over |-> FALSE,
                                   running |-> FALSE, total |-> SelectedFrames(p)]
  BY DEF BuildEngine
<1>a. p.base \in Nat /\ Selected(p) \subseteq TrackIds
  BY DEF PlaceOf
<1>b. Axis(Recorded[t]) /\ Recorded[t].total \in Nat
  BY <1>a, AxisLength, AxesAddUp
<1>c. SelectedFrames(p) \in Nat /\ SelectedFrames(p) <= Recorded[t].total
  BY <1>a, ShortestTrack
<1>2. /\ Axis(Recorded[t]) /\ p.base \in Nat /\ p.base < Recorded[t].total
  BY <1>a, <1>b, <1>c
<1>3. IF Recorded[t].segs = <<>> THEN f[t] = End ELSE f[t] \in Locate(Recorded[t], p.base)
  BY <1>1 DEF Sources
<1>4. Recorded[t].segs # <<>>
  <2>1. Len(Recorded[t].segs) # 0
    BY <1>2 DEF Axis
  <2> QED
    BY <2>1
<1>5. Place(Recorded[t], f[t]) /\ FrameAt(Recorded[t], f[t]) = p.base
  BY <1>2, <1>3, <1>4, LocateFinds
<1> QED
  BY <1>1, <1>5

LEMMA StartPlace ==
  ASSUME NEW p, PlayerType(p), PlaceOf(p, Sound), NEW rs, StartPlayback(p, rs)
  PROVE  PlaceOf(player', Sound)
<1>1. CASE player' = p
  BY <1>1
<1>2. CASE player' # p
  <2>1. PICK e \in IF p.engine = NoEngine THEN BuildEngine(p) ELSE {p.engine},
             s \in {x \in Reporters : rs[x] = NoReporter} :
               player' = [p EXCEPT !.engine = [e EXCEPT !.running = TRUE], !.reporter = s]
    BY <1>2 DEF StartPlayback
  <2> DEFINE g == [e EXCEPT !.running = TRUE]
  <2>2. EngineType(e)
    BY <2>1 DEF BuildEngine, EngineType, PlayerType
  <2>3. EngineType(g) /\ g.at = e.at /\ g.played = e.played
    <3>1. EngineType(g)
      BY <2>2, EngineRuns
    <3>2. g.at = e.at /\ g.played = e.played
      BY <2>2 DEF EngineType
    <3> QED
      BY <3>1, <3>2
  <2> HIDE DEF g
  <2>4. /\ player'.engine = g /\ player'.base = p.base /\ player'.order = p.order
        /\ player'.selector = p.selector
    BY <2>1 DEF PlayerType, g
  <2>5. Selected(player') = Selected(p) /\ SelectedFrames(player') = SelectedFrames(p)
    BY <2>4 DEF Selected, SelectedFrames
  <2>6. e.played \in Nat
    <3>1. CASE p.engine = NoEngine
      BY <2>1, <3>1 DEF BuildEngine
    <3>2. CASE p.engine # NoEngine
      BY <2>1, <3>2 DEF PlaceOf
    <3> QED
      BY <3>1, <3>2
  <2>7. ASSUME p.base < SelectedFrames(p), NEW t \in Selected(p)
        PROVE  OnPosition(player', t, Sound)
    <3>0. g # NoEngine
      BY <2>3 DEF EngineType, NoEngine
    <3>1. Position(player') = p.base + e.played
      BY <2>3, <2>4, <3>0 DEF Position
    <3>2. CASE p.engine = NoEngine
      <4>1. /\ e.played = 0 /\ Place(Recorded[t], e.at[t])
            /\ FrameAt(Recorded[t], e.at[t]) = p.base
        BY <2>1, <2>7, <3>2, BuiltOnPosition
      <4>2. p.base \in Nat
        BY DEF PlaceOf
      <4> QED
        BY <2>3, <2>4, <3>1, <4>1, <4>2 DEF OnPosition
    <3>3. CASE p.engine # NoEngine
      <4>1. e = p.engine /\ OnPosition(p, t, Sound) /\ Position(p) = p.base + e.played
        BY <2>1, <2>7, <3>3 DEF PlaceOf, Position
      <4> QED
        BY <2>3, <2>4, <3>1, <4>1 DEF OnPosition
    <3> QED
      BY <3>2, <3>3
  <2> QED
    BY <2>3, <2>4, <2>5, <2>6, <2>7 DEF PlaceOf
<1> QED
  BY <1>1, <1>2

\* Without an engine nothing is at a place yet.
LEMMA FreshPlace ==
  ASSUME NEW q, q.base \in Nat, q.order = ResolveTracks, Selected(q) \subseteq TrackIds,
         q.engine = NoEngine
  PROVE  PlaceOf(q, Sound)
BY DEF PlaceOf

\* The settings, the automaton and the reporter have no place.
LEMMA SamePlace ==
  ASSUME NEW p, NEW q, PlaceOf(p, Sound),
         q.base = p.base, q.order = p.order, q.selector = p.selector,
         \/ q.engine = NoEngine
         \/ /\ p.engine # NoEngine
            /\ q.engine.at = p.engine.at /\ q.engine.played = p.engine.played
  PROVE  PlaceOf(q, Sound)
<1>1. Selected(q) = Selected(p) /\ SelectedFrames(q) = SelectedFrames(p)
  BY DEF Selected, SelectedFrames
<1>2. CASE q.engine = NoEngine
  BY <1>1, <1>2 DEF PlaceOf
<1>3. CASE q.engine # NoEngine
  <2>1. Position(q) = Position(p)
    BY <1>3 DEF Position
  <2> QED
    BY <1>1, <1>3, <2>1 DEF PlaceOf, OnPosition
<1> QED
  BY <1>2, <1>3

\* Whatever an operator can select is a track of the session.
LEMMA SelectionStays ==
  ASSUME NEW q, q.order = ResolveTracks, q.selector \in TrackIds \union {Mix}
  PROVE  Selected(q) \subseteq TrackIds
BY DEF Selected, TrackIds

LEMMA OpenPlaces ==
  ASSUME Open
  PROVE  PlaceOf(player', Sound)
<1>1. player' = [ machine  |-> "stopped",
                  order    |-> ResolveTracks,
                  selector |-> ResolveTracks[1],
                  base     |-> 0,
                  engine   |-> NoEngine,
                  reporter |-> NoSlot,
                  rate     |-> 1,
                  volume   |-> 1 ]
  BY DEF Open, Transition
<1>2. /\ player'.base = 0 /\ player'.order = ResolveTracks /\ player'.engine = NoEngine
      /\ player'.selector = ResolveTracks[1]
  BY <1>1
<1>3. Selected(player') \subseteq TrackIds
  BY <1>2, TracksThere, SelectionStays
<1> QED
  BY <1>2, <1>3, FreshPlace

LEMMA SelectTrackPlaces ==
  ASSUME PlayingInv, PlaceInv, SelectTrack
  PROVE  PlaceOf(player', Sound)
<1>1. PICK sel \in TracksOpen \union {Mix} :
        player' = [Teardown(player) EXCEPT !.selector = sel, !.base = 0]
  BY DEF SelectTrack
<1>2. PlayerType(player) /\ player.order = ResolveTracks
  BY DEF SelectTrack, IsOpen, PlayingInv, PlayingType, PlaceInv, PlaceOf
<1>3. /\ player'.base = 0 /\ player'.order = ResolveTracks /\ player'.engine = NoEngine
      /\ player'.selector = sel
  BY <1>1, <1>2 DEF Teardown, PlayerType
<1>4. sel \in TrackIds \union {Mix}
  BY <1>2 DEF TracksOpen, TrackIds
<1> QED
  BY <1>3, <1>4, SelectionStays, FreshPlace

LEMMA PlayPlaces ==
  ASSUME PlayingInv, PlaceInv, Play
  PROVE  PlaceOf(player', Sound)
<1> DEFINE m == IF player.machine = "playing" THEN player.machine ELSE Transition[player.machine].play
           p == [player EXCEPT !.machine = m]
<1>1. PlayerType(player) /\ PlaceOf(player, Sound)
  BY DEF Play, IsOpen, PlayingInv, PlayingType, PlaceInv
<1>2. m \in {"stopped", "playing", "paused"}
  BY <1>1 DEF PlayerType, Transition
<1>3. StartPlayback(p, reporter)
  BY DEF Play
<1> HIDE DEF m
<1>4. PlayerType(p)
  BY <1>1, <1>2, PlayerAt
<1>5. p.engine = player.engine /\ p.base = player.base /\ p.order = player.order
      /\ p.selector = player.selector
  BY <1>1 DEF PlayerType
<1> HIDE DEF p
<1>6. PlaceOf(p, Sound)
  BY <1>1, <1>5, SamePlace
<1> QED
  BY <1>3, <1>4, <1>6, StartPlace

LEMMA PausePlaces ==
  ASSUME PlayingInv, PlaceInv, Pause
  PROVE  PlaceOf(player', Sound)
<1> DEFINE m == IF player.machine = "playing" THEN Transition[player.machine].pause ELSE player.machine
           e == IF player.engine = NoEngine THEN player.engine
                ELSE [player.engine EXCEPT !.running = FALSE]
<1>1. PlayerType(player) /\ PlaceOf(player, Sound)
  BY DEF Pause, IsOpen, PlayingInv, PlayingType, PlaceInv
<1>2. player' = [player EXCEPT !.machine = m, !.engine = e, !.reporter = NoSlot]
  BY DEF Pause
<1>3. \/ e = NoEngine
      \/ /\ player.engine # NoEngine
         /\ e.at = player.engine.at /\ e.played = player.engine.played
  BY <1>1 DEF PlayerType, EngineType
<1> HIDE DEF m, e
<1>4. player'.engine = e /\ player'.base = player.base /\ player'.order = player.order
      /\ player'.selector = player.selector
  BY <1>1, <1>2 DEF PlayerType
<1> QED
  BY <1>1, <1>3, <1>4, SamePlace

\* What an operator asks for is a frame.
LEMMA SeeksForFrames ==
  ASSUME PlaceInv, IsOpen
  PROVE  SeekTargets \subseteq Nat
<1>1. player.order = ResolveTracks
  BY DEF PlaceInv, PlaceOf, IsOpen
<1>2. Axis(Recorded[player.order[1]])
  BY <1>1, TracksThere, AxesAddUp
<1>3. \A ms \in SeekMs : MsToFrames(ms) \in Nat
  BY PlaybackAssumption, Numbers
<1>4. \A o \in MarkerAt : FrameForMarker(Recorded[player.order[1]], StartedAt, o) \in Nat
  <2> SUFFICES ASSUME NEW o \in MarkerAt
               PROVE  FrameForMarker(Recorded[player.order[1]], StartedAt, o) \in Nat
    OBVIOUS
  <2>1. StartedAt + o \in Nat
    BY SessionAssumption
  <2> QED
    BY <1>2, <2>1, MarkerIsFrame DEF FrameForMarker
<1> QED
  BY <1>3, <1>4 DEF SeekTargets

LEMMA SeekPlaces ==
  ASSUME PlayingInv, PlaceInv, Seek
  PROVE  PlaceOf(player', Sound)
<1> DEFINE m == Transition[player.machine].seek
           P(f) == [Teardown(player) EXCEPT !.base = f, !.machine = m]
<1>1. PlayerType(player) /\ PlaceOf(player, Sound) /\ IsOpen
  BY DEF Seek, IsOpen, PlayingInv, PlayingType, PlaceInv
<1>2. PlayerType(Teardown(player)) /\ Teardown(player).engine = NoEngine
      /\ Teardown(player).machine = player.machine
  BY <1>1, PlayerTorn
<1>3. m \in {"stopped", "playing", "paused"}
  BY <1>1 DEF PlayerType, Transition
<1>4. PICK f \in SeekTargets : IF player.machine = "playing" THEN StartPlayback(P(f), TornReporters)
                               ELSE player' = P(f) /\ reporter' = TornReporters
  <2>1. \E f \in SeekTargets :
          LET p == [Teardown(player) EXCEPT !.base = f, !.machine = Transition[@].seek]
          IN  IF player.machine = "playing" THEN StartPlayback(p, TornReporters)
              ELSE player' = p /\ reporter' = TornReporters
    BY DEF Seek
  <2>2. Transition[Teardown(player).machine].seek = m
    BY <1>2
  <2> QED
    BY <2>1, <2>2
<1> HIDE DEF m
<1>5. PlayerType(P(f)) /\ P(f).engine = NoEngine
  BY <1>2, <1>3, PlayerAt
<1>6. P(f).base = f /\ P(f).order = player.order /\ P(f).selector = player.selector
  BY <1>1 DEF PlayerType, Teardown
<1> HIDE DEF P
<1>7. f \in Nat
  BY <1>1, <1>4, SeeksForFrames
<1>8. Selected(P(f)) \subseteq TrackIds /\ player.order = ResolveTracks
  BY <1>1, <1>6 DEF PlaceOf, Selected
<1>9. PlaceOf(P(f), Sound)
  BY <1>5, <1>6, <1>7, <1>8, FreshPlace
<1> QED
  BY <1>4, <1>5, <1>9, StartPlace

LEMMA SettingsPlace ==
  ASSUME PlayingInv, PlaceInv, SetRate \/ SetVolume
  PROVE  PlaceOf(player', Sound)
<1>1. PlayerType(player) /\ PlaceOf(player, Sound)
  BY DEF SetRate, SetVolume, IsOpen, PlayingInv, PlayingType, PlaceInv
<1>2. PICK x : player' = [player EXCEPT !.rate = x] \/ player' = [player EXCEPT !.volume = x]
  BY DEF SetRate, SetVolume
<1>3. player'.engine = player.engine /\ player'.base = player.base
      /\ player'.order = player.order /\ player'.selector = player.selector
  BY <1>1, <1>2 DEF PlayerType
<1> QED
  BY <1>1, <1>3, SamePlace

LEMMA FrameNumber ==
  ASSUME NEW tl, Axis(tl), NEW at, Place(tl, at)
  PROVE  FrameAt(tl, at) \in Nat
BY DEF Axis, Place, FrameAt

\* The frame the device takes is the one the position says, or a later one.
LEMMA DevicePlaces ==
  ASSUME PlayingInv, PlaceInv, DevicePulls
  PROVE  PlaceOf(player', Sound)
<1> DEFINE e == player.engine
           next == [t \in Selected(player) |-> NextAt(Recorded[t], e.at[t])]
<1>1. PlayerType(player) /\ PlaceOf(player, Sound) /\ e # NoEngine /\ EngineType(e)
  BY DEF DevicePulls, IsOpen, PlayingInv, PlayingType, PlayerType, PlaceInv
<1>2. CASE \E t \in Selected(player) : next[t] = End
  <2>1. player' = [player EXCEPT !.engine = [e EXCEPT !.over = TRUE]]
    BY <1>2 DEF DevicePulls
  <2> DEFINE g == [e EXCEPT !.over = TRUE]
  <2>2. g.at = e.at /\ g.played = e.played
    BY <1>1 DEF EngineType
  <2> HIDE DEF g
  <2>3. player'.engine = g /\ player'.base = player.base
        /\ player'.order = player.order /\ player'.selector = player.selector
    BY <1>1, <2>1 DEF PlayerType, g
  <2> QED
    BY <1>1, <2>2, <2>3, SamePlace
<1>3. CASE ~ \E t \in Selected(player) : next[t] = End
  <2> DEFINE heads == [t \in Selected(player) |-> <<next[t][1], next[t][2] + 1>>]
             g == [e EXCEPT !.played = e.played + 1, !.at = heads]
  <2>1. player' = [player EXCEPT !.engine = g]
    BY <1>3 DEF DevicePulls
  <2>2. g.at = heads /\ g.played = e.played + 1 /\ EngineType(g)
    <3> HIDE DEF heads, e
    <3>2. EngineType(e)
      BY <1>1
    <3> DEFINE n == e.played + 1
    <3>3. g = [e EXCEPT !.played = n, !.at = heads]
      OBVIOUS
    <3> HIDE DEF g, n
    <3>4. g.at = heads /\ g.played = n /\ EngineType(g)
      BY <3>2, <3>3 DEF EngineType
    <3> QED
      BY <3>4 DEF n
  <2> HIDE DEF g
  <2>3. player'.engine = g /\ player'.base = player.base
        /\ player'.order = player.order /\ player'.selector = player.selector
    BY <1>1, <2>1 DEF PlayerType
  <2>4. Selected(player') = Selected(player) /\ SelectedFrames(player') = SelectedFrames(player)
    BY <2>3 DEF Selected, SelectedFrames
  <2>5. e.played \in Nat /\ player.base \in Nat
    BY <1>1 DEF PlaceOf
  <2>6. g # NoEngine /\ Position(player') = Position(player) + 1 /\ Position(player) \in Nat
    <3>1. g # NoEngine
      BY <2>2 DEF EngineType, NoEngine
    <3>2. Position(player') = player.base + (e.played + 1)
      BY <2>2, <2>3, <3>1 DEF Position
    <3>3. Position(player) = player.base + e.played
      BY <1>1 DEF Position
    <3> QED
      BY <2>5, <3>1, <3>2, <3>3
  <2>7. ASSUME player.base < SelectedFrames(player), NEW t \in Selected(player)
        PROVE  OnPosition(player', t, Sound)
    <3> DEFINE tl == Recorded[t]
    <3>1. Axis(tl) /\ OnPosition(player, t, Sound)
      BY <1>1, <2>7, AxesAddUp DEF PlaceOf
    <3>2. next[t] # End /\ next[t] = NextAt(tl, e.at[t]) /\ g.at[t] = <<next[t][1], next[t][2] + 1>>
      BY <1>3, <2>2
    <3> HIDE DEF next, heads
    <3>3. Place(tl, e.at[t]) /\ Position(player) <= FrameAt(tl, e.at[t])
          /\ (t \in Sound => Position(player) = FrameAt(tl, e.at[t]))
      BY <3>1 DEF OnPosition
    <3>4. /\ Place(tl, next[t]) /\ next[t][2] < tl.segs[next[t][1]].frames
          /\ FrameAt(tl, e.at[t]) <= FrameAt(tl, next[t])
          /\ t \in Sound => FrameAt(tl, e.at[t]) = FrameAt(tl, next[t])
      <4>1. NextAt(tl, e.at[t]) # End
        BY <3>2
      <4>2. t \in Sound => \A i \in DOMAIN tl.segs : Readable(tl.segs[i])
        BY DEF Sound
      <4> HIDE DEF tl
      <4> QED
        BY <3>1, <3>2, <3>3, <4>1, <4>2, NextIsNear
    <3> HIDE DEF tl
    <3>5. next[t][1] \in 1 .. Len(tl.segs) /\ next[t][2] \in Nat
      BY <3>4 DEF Place
    <3>6. tl.segs[next[t][1]].frames \in Nat /\ tl.segs[next[t][1]].start \in Nat
      BY <3>1, <3>5 DEF Axis
    <3>7. Place(tl, g.at[t]) /\ FrameAt(tl, g.at[t]) = FrameAt(tl, next[t]) + 1
      <4>1. g.at[t][1] = next[t][1] /\ g.at[t][2] = next[t][2] + 1
        BY <3>2
      <4>2. next[t][2] + 1 \in Nat /\ next[t][2] + 1 <= tl.segs[next[t][1]].frames
        BY <3>4, <3>5, <3>6
      <4> QED
        BY <3>5, <3>6, <4>1, <4>2 DEF Place, FrameAt
    <3>8. FrameAt(tl, next[t]) \in Nat /\ FrameAt(tl, e.at[t]) \in Nat
      BY <3>1, <3>3, <3>4, FrameNumber
    <3>9. /\ Position(player') <= FrameAt(tl, g.at[t])
          /\ t \in Sound => Position(player') = FrameAt(tl, g.at[t])
      BY <2>6, <3>3, <3>4, <3>7, <3>8
    <3> QED
      BY <2>3, <3>7, <3>9 DEF OnPosition, tl
  <2>8. g.played \in Nat
    BY <2>2, <2>5
  <2> HIDE DEF heads, next
  <2> QED
    BY <1>1, <2>3, <2>4, <2>7, <2>8 DEF PlaceOf
<1> QED
  BY <1>2, <1>3

LEMMA PlaceKept ==
  ASSUME PlayingInv, PlaceInv, [PlaybackNext]_<<storeVars, commands, playbackVars>>,
         player' # NoPlayer
  PROVE  PlaceOf(player', Sound)
<1>1. CASE player' = player
  BY <1>1 DEF PlaceInv
<1>2. CASE player' # player
  <2>1. \/ Open \/ SelectTrack \/ Play \/ Pause \/ Seek \/ SetRate \/ SetVolume \/ DevicePulls
    BY <1>2 DEF PlaybackNext, Close, ReporterWakes, ReporterEmits, playbackVars
  <2> QED
    BY <2>1, OpenPlaces, SelectTrackPlaces, PlayPlaces, PausePlaces, SeekPlaces, SettingsPlace,
       DevicePlaces
<1> QED
  BY <1>1, <1>2

LEMMA PlaceInvariant == PlaybackSpec => []PlaceInv
<1>1. PlaybackInit => PlaceInv
  BY DEF PlaybackInit, PlaceInv
<1>2. PlayingInv /\ PlaceInv /\ [PlaybackNext]_<<storeVars, commands, playbackVars>> => PlaceInv'
  <2> SUFFICES ASSUME PlayingInv, PlaceInv, [PlaybackNext]_<<storeVars, commands, playbackVars>>,
                      player' # NoPlayer
               PROVE  PlaceOf(player', Sound')
    BY DEF PlaceInv
  <2>1. PlaceOf(player', Sound)
    BY PlaceKept
  <2>2. Sound' \subseteq Sound
    BY SoundShrinks
  <2> QED
    BY <2>1, <2>2, MoreDamage
<1> QED
  BY <1>1, <1>2, PlayingInvariant, PTL DEF PlaybackSpec

\* The frame the indicator shows is the frame that is heard next, on every
\* track of the selection, after any sequence of seeks, markers, pauses and
\* changes of the track (player_cmds.rs builds each engine anew and counts from
\* zero); damage of a segment leaves the indicator behind, never ahead.
THEOREM PositionIsTheFrame == PlaybackSpec => []PositionIsFrame
<1>1. PlaceInv => PositionIsFrame
  <2> SUFFICES ASSUME PlaceInv, IsOpen, player.engine # NoEngine,
                      player.base < SelectedFrames(player), NEW t \in Selected(player)
               PROVE  LET tl == Recorded[t]
                          at == player.engine.at[t]
                          frame == tl.segs[at[1]].start + at[2]
                      IN  /\ Position(player) <= frame
                          /\ ~(\E i \in DOMAIN tl.segs : ~Readable(tl.segs[i])) =>
                               Position(player) = frame
    BY DEF PositionIsFrame
  <2>1. OnPosition(player, t, Sound) /\ t \in TrackIds
    BY DEF PlaceInv, PlaceOf, IsOpen
  <2> QED
    BY <2>1 DEF OnPosition, FrameAt, Sound
<1> QED
  BY <1>1, PlaceInvariant, PTL

-----------------------------------------------------------------------------
(***************************************************************************)
(* Where the markers of a package fall.                                    *)
(***************************************************************************)
\* A moment before the end of a segment is a frame before its end: both ways
\* from milliseconds to frames round down.
LEMMA WithinSegment ==
  ASSUME NEW n \in Nat, NEW ms \in Nat, ms < FramesToMs(n)
  PROVE  MsToFrames(ms) < n
<1> DEFINE q == (n * 1000) \div Rate
           x == ms * Rate
<1>1. Rate \in Nat /\ Rate > 0
  BY RateAssumption
<1>2. q \in Nat /\ Rate * q <= n * 1000
  BY <1>1
<1>3. ms + 1 <= q
  <2>1. ms < q
    BY DEF FramesToMs
  <2> HIDE DEF q
  <2> QED
    BY <1>2, <2>1
<1> HIDE DEF q
<1>4. Rate * (ms + 1) <= Rate * q
  <2>1. q - (ms + 1) \in Nat
    BY <1>2, <1>3
  <2>2. Rate * (q - (ms + 1)) \in Nat
    BY <1>1, <2>1
  <2>3. Rate * (q - (ms + 1)) = Rate * q - Rate * (ms + 1)
    BY <1>1, <1>2
  <2>4. Rate * q \in Nat /\ Rate * (ms + 1) \in Nat
    BY <1>1, <1>2
  <2> QED
    BY <2>2, <2>3, <2>4
<1>5. x \in Nat /\ Rate * (ms + 1) = x + Rate
  BY <1>1
<1> HIDE DEF x
<1>6. x < n * 1000
  <2>1. Rate * q \in Nat
    BY <1>1, <1>2
  <2> QED
    BY <1>1, <1>2, <1>4, <1>5, <2>1
<1>7. x \div 1000 < n
  BY <1>5, <1>6
<1> QED
  BY <1>7 DEF MsToFrames, x

LEMMA MillisecondsCount ==
  ASSUME NEW n \in Nat
  PROVE  FramesToMs(n) \in Nat
<1> DEFINE x == n * 1000
<1>1. x \in Nat /\ Rate \in Nat /\ Rate > 0
  BY RateAssumption
<1> HIDE DEF x
<1>2. x \div Rate \in Nat
  BY <1>1
<1> QED
  BY <1>2 DEF FramesToMs, x

\* No segment ends behind its track.
LEMMA SegmentInside ==
  ASSUME NEW tl, Axis(tl), NEW k \in 1 .. Len(tl.segs)
  PROVE  tl.segs[k].start + tl.segs[k].frames <= tl.total
<1> DEFINE n == Len(tl.segs)
<1>1. n \in 1 .. n /\ n # 0
  BY DEF Axis
<1>2. tl.total = tl.segs[n].start + tl.segs[n].frames
  BY <1>1 DEF Axis
<1>3. /\ tl.segs[k].start \in Nat /\ tl.segs[k].frames \in Nat
      /\ tl.segs[n].start \in Nat /\ tl.segs[n].frames \in Nat
  BY <1>1 DEF Axis
<1>4. k # n => tl.segs[k].start + tl.segs[k].frames <= tl.segs[n].start
  BY <1>1, AxisGrows
<1> QED
  BY <1>2, <1>3, <1>4

\* A moment of the clock is taken for a frame of the recording.
LEMMA MarkerInside ==
  ASSUME NEW tl, Axis(tl), tl.total > 0, NEW at \in Nat,
         \A i \in DOMAIN tl.segs : i < Len(tl.segs) => tl.segs[i].frames > 0
  PROVE  FrameAtWallClock(tl, at) < tl.total
<1> DEFINE n == Len(tl.segs)
           over(i) == tl.segs[i].at + FramesToMs(tl.segs[i].frames)
           decided == {i \in DOMAIN tl.segs : at < tl.segs[i].at \/ at < over(i)}
           i == Min(decided)
<1>0. /\ n \in Nat /\ DOMAIN tl.segs = 1 .. n
      /\ \A k \in 1 .. n : /\ tl.segs[k].start \in Nat /\ tl.segs[k].frames \in Nat
                           /\ tl.segs[k].at \in Nat
      /\ tl.total \in Nat
  BY AxisLength DEF Axis
<1>b. \A k \in 1 .. n : tl.segs[k].start + tl.segs[k].frames <= tl.total
  BY SegmentInside
<1>1. /\ n \in Nat /\ DOMAIN tl.segs = 1 .. n
      /\ \A k \in 1 .. n : /\ tl.segs[k].start \in Nat /\ tl.segs[k].frames \in Nat
                           /\ tl.segs[k].at \in Nat
                           /\ tl.segs[k].start + tl.segs[k].frames <= tl.total
      /\ tl.total \in Nat
  BY <1>0, <1>b
<1>a. decided \subseteq 1 .. n
  BY <1>1
<1>2. FrameAtWallClock(tl, at) =
        IF decided = {} THEN SaturatingSub(tl.total, 1)
        ELSE IF at >= tl.segs[i].at THEN tl.segs[i].start + MsToFrames(at - tl.segs[i].at)
        ELSE IF i = 1 THEN 0 ELSE tl.segs[i-1].start + SaturatingSub(tl.segs[i-1].frames, 1)
  <2> HIDE DEF over
  <2> QED
    BY DEF FrameAtWallClock, over
<1>3. CASE decided = {}
  <2> HIDE DEF decided
  <2> QED
    BY <1>1, <1>2, <1>3 DEF SaturatingSub
<1>4. CASE decided # {}
  <2>1. i \in 1 .. n /\ i \in decided
    <3> HIDE DEF decided
    <3>1. decided \subseteq Nat
      BY <1>1, <1>a
    <3> QED
      BY <1>4, <1>a, <3>1, LeastNumber
  <2>2. at < tl.segs[i].at \/ at < tl.segs[i].at + FramesToMs(tl.segs[i].frames)
    <3> HIDE DEF i
    <3> QED
      BY <2>1
  <2> HIDE DEF i, decided
  <2>3. CASE at >= tl.segs[i].at
    <3>1. FramesToMs(tl.segs[i].frames) \in Nat
      BY <1>1, <2>1, MillisecondsCount
    <3>2. at - tl.segs[i].at \in Nat /\ at - tl.segs[i].at < FramesToMs(tl.segs[i].frames)
      BY <1>1, <2>1, <2>2, <2>3, <3>1
    <3>3. MsToFrames(at - tl.segs[i].at) < tl.segs[i].frames
      BY <1>1, <2>1, <3>2, WithinSegment
    <3>4. MsToFrames(at - tl.segs[i].at) \in Nat
      BY <3>2, Numbers
    <3> QED
      BY <1>1, <1>2, <1>4, <2>1, <2>3, <3>3, <3>4
  <2>4. CASE ~(at >= tl.segs[i].at) /\ i # 1
    <3>1. i - 1 \in 1 .. n /\ i - 1 < n
      BY <1>1, <2>1, <2>4
    <3>2. tl.segs[i-1].frames > 0
      BY <1>1, <3>1
    <3>3. tl.segs[i-1].start + SaturatingSub(tl.segs[i-1].frames, 1) < tl.total
      <4> DEFINE a == tl.segs[i-1].start
                 b == tl.segs[i-1].frames
      <4>1. a \in Nat /\ b \in Nat /\ b > 0 /\ a + b <= tl.total
        BY <1>1, <3>1, <3>2
      <4> HIDE DEF a, b
      <4>2. SaturatingSub(b, 1) = b - 1
        BY <4>1 DEF SaturatingSub
      <4>3. a + SaturatingSub(b, 1) < tl.total
        BY <1>1, <4>1, <4>2
      <4> QED
        BY <4>3 DEF a, b
    <3> QED
      BY <1>2, <1>4, <2>4, <3>3
  <2>5. CASE ~(at >= tl.segs[i].at) /\ i = 1
    BY <1>1, <1>2, <1>4, <2>5
  <2> QED
    BY <2>3, <2>4, <2>5
<1> QED
  BY <1>3, <1>4

\* What is written under the name of the markers lies inside the recording.
Inside(put) ==
  put # Torn => \A f \in put.markers : \E i \in DOMAIN ResolveTracks :
                  f < Recorded[ResolveTracks[i]].total

MarksFine(fs) == MarkersName \in DOMAIN fs => Inside(fs[MarkersName])

LEMMA PlannedThere ==
  ASSUME NEW comp \in Compositions
  PROVE  /\ PlannedTracks(comp)[1] \in TrackIds
         /\ Len(PlannedTracks(comp)) \in Nat \ {0}
         /\ DOMAIN PlannedTracks(comp) = 1 .. Len(PlannedTracks(comp))
<1>1. CASE comp < 0
  <2>1. PlannedTracks(comp) = ResolveTracks
    BY <1>1 DEF PlannedTracks
  <2>2. CASE TrackRows = <<>>
    <3>1. ResolveTracks = <<0>>
      BY <2>2 DEF ResolveTracks
    <3> QED
      BY <2>1, <3>1, TracksThere
  <2>3. CASE TrackRows # <<>>
    <3>1. ResolveTracks = TrackRows /\ TrackRows \in Seq(Int)
      BY <2>3, SessionAssumption DEF ResolveTracks
    <3>2. Len(TrackRows) # 0
      BY <2>3, <3>1
    <3> QED
      BY <2>1, <3>1, <3>2, TracksThere
  <2> QED
    BY <2>2, <2>3
<1>2. CASE ~(comp < 0)
  <2>1. PlannedTracks(comp) = <<comp>> /\ comp \in TrackIds
    BY <1>2 DEF PlannedTracks, Compositions, AllTracks, MixOfAll
  <2> QED
    BY <2>1
<1> QED
  BY <1>1, <1>2

\* The markers go with a first track that has frames, and then all of its rows
\* are there.
LEMMA MarkersFall ==
  ASSUME OnlyLastEmpty, CopyInv, NEW comp \in Compositions,
         TimelineOf(PlannedTracks(comp)[1]).total > 0
  PROVE  Inside([markers |-> ProjectAnnotations(comp)])
<1> DEFINE t == PlannedTracks(comp)[1]
<1>1. t \in TrackIds
  BY PlannedThere
<1> HIDE DEF t
<1>2. rows = Recording
  <2>1. CASE rows # Recording
    <3>1. TimelineOf(t) = Build({}, t) /\ Build({}, t).total = 0
      BY <1>1, <2>1, AxesAddUp DEF CopyInv, RemovalInOrder, TimelineOf
    <3> QED
      BY <3>1 DEF t
  <2> QED
    BY <2>1
<1>3. TimelineOf(t) = Recorded[t] /\ Recorded[t].total > 0
  BY <1>2 DEF TimelineOf, t
<1>4. Axis(Recorded[t])
      /\ \A i \in DOMAIN Recorded[t].segs : i < Len(Recorded[t].segs) => Recorded[t].segs[i].frames > 0
  BY <1>1, AxesAddUp DEF OnlyLastEmpty
<1>5. PICK i \in DOMAIN ResolveTracks : ResolveTracks[i] = t
  BY <1>1 DEF TrackIds
<1>6. ASSUME NEW o \in MarkerAt
      PROVE  FrameForMarker(TimelineOf(t), StartedAt, o) < Recorded[ResolveTracks[i]].total
  <2>1. StartedAt + o \in Nat
    BY SessionAssumption
  <2> QED
    BY <1>3, <1>4, <1>5, <2>1, MarkerInside DEF FrameForMarker
<1>7. \A f \in ProjectAnnotations(comp) : f < Recorded[ResolveTracks[i]].total
  BY <1>6 DEF ProjectAnnotations, t
<1> QED
  BY <1>5, <1>7 DEF Inside

\* The audio files have other names, as many for every track.
LEMMA AudioShape ==
  ASSUME NEW comp \in Compositions, NEW format, NEW audio, audio = PackageAudio(comp, format)
  PROVE  /\ Len(audio) \in Nat /\ audio = [i \in 1 .. Len(audio) |-> audio[i]]
         /\ \A i \in 1 .. Len(audio) : audio[i].name # MarkersName /\ "put" \in DOMAIN audio[i]
         /\ comp # MixOfAll => Len(audio) = WritesOf(format) * Len(PlannedTracks(comp))
<1> DEFINE w == WritesOf(format)
           n == Len(PlannedTracks(comp))
<1>1. w \in {1, 3} /\ n \in Nat
  BY PlannedThere DEF WritesOf
<1>2. ASSUME NEW name, NEW put
      PROVE  /\ AudioWrites(name, put, format) = [i \in 1 .. w |-> AudioWrites(name, put, format)[i]]
             /\ \A i \in 1 .. w : /\ AudioWrites(name, put, format)[i].name # MarkersName
                                 /\ "put" \in DOMAIN AudioWrites(name, put, format)[i]
  <2>1. CASE format = "wav"
    <3>1. AudioWrites(name, put, format) = <<[name |-> <<name, "wav">>, put |-> put]>> /\ w = 1
      BY <2>1 DEF AudioWrites, WritesOf
    <3> QED
      BY <3>1 DEF MarkersName
  <2>2. CASE format # "wav"
    <3>1. AudioWrites(name, put, format) =
            << [name |-> <<name, "wav">>, put |-> put],
               [name |-> <<name, "flac">>, put |-> put],
               [name |-> <<name, "wav">>, put |-> Removed] >> /\ w = 3
      BY <2>2 DEF AudioWrites, WritesOf
    <3> QED
      BY <3>1 DEF MarkersName
  <2> QED
    BY <2>1, <2>2
<1> HIDE DEF w, n
<1>3. CASE comp = MixOfAll
  <2> DEFINE m == Audio(TrackIds, MixFrames)
  <2>1. audio = AudioWrites("mix", m, format)
    BY <1>3 DEF PackageAudio
  <2> HIDE DEF m
  <2>2. DOMAIN audio = 1 .. w
    BY <1>2, <2>1
  <2>3. Len(audio) = w
    BY <1>1, <2>2
  <2> QED
    BY <1>1, <1>2, <1>3, <2>1, <2>2, <2>3
<1>4. CASE comp # MixOfAll
  <2> DEFINE tk(k) == PlannedTracks(comp)[(k - 1) \div w + 1]
             at(k) == AudioWrites(Stem[tk(k)], Audio({tk(k)}, JoinedFrames(tk(k))), format)
  <2>1. audio = [k \in 1 .. w * n |-> at(k)[((k - 1) % w) + 1]]
    BY <1>4 DEF PackageAudio, Separate, w, n
  <2> HIDE DEF tk
  <2>2. \A k \in 1 .. w * n : \A i \in 1 .. w :
          at(k)[i].name # MarkersName /\ "put" \in DOMAIN at(k)[i]
    BY <1>2
  <2> HIDE DEF at
  <2>3. w * n \in Nat
    BY <1>1
  <2>4. DOMAIN audio = 1 .. w * n /\ Len(audio) = w * n
    BY <2>1, <2>3
  <2>5. \A k \in 1 .. w * n : ((k - 1) % w) + 1 \in 1 .. w
    BY <1>1, <2>3
  <2> QED
    BY <1>4, <2>1, <2>2, <2>3, <2>4, <2>5 DEF w, n
<1> QED
  BY <1>3, <1>4

\* The markers are written once, behind all the audio.
LEMMA PackageShape ==
  ASSUME NEW comp \in Compositions, NEW format, NEW ws \in PackageWrites(comp, format)
  PROVE  LET n == Len(PackageAudio(comp, format))
         IN  /\ n \in Nat /\ Len(ws) = n + 3 /\ DOMAIN ws = 1 .. n + 3
             /\ \A i \in 1 .. n + 3 : ws[i].name = MarkersName => i = n + 1
             /\ ws[n + 1].put = [markers |-> ProjectAnnotations(comp)]
             /\ \A i \in 1 .. n + 3 : "put" \in DOMAIN ws[i]
<1> DEFINE audio == PackageAudio(comp, format)
           n == Len(audio)
           e == FileEntries(audio, format)
           tail == << [name |-> <<"markers", "json">>, put |-> [markers |-> ProjectAnnotations(comp)]],
                      [name |-> <<"player", "html">>, put |-> [player |-> e]],
                      [name |-> <<"manifest", "json">>, put |-> [entries |-> e]] >>
<1>1. ws = audio \o tail
  BY DEF PackageWrites, PackageFiles
<1>2. /\ n \in Nat /\ audio = [i \in 1 .. n |-> audio[i]]
      /\ \A i \in 1 .. n : audio[i].name # MarkersName /\ "put" \in DOMAIN audio[i]
  BY AudioShape
<1> HIDE DEF audio, e
<1>3. /\ Len(tail) = 3 /\ tail = [i \in 1 .. 3 |-> tail[i]]
      /\ tail[1].put = [markers |-> ProjectAnnotations(comp)]
      /\ tail[2].name # MarkersName /\ tail[3].name # MarkersName
      /\ \A i \in 1 .. 3 : "put" \in DOMAIN tail[i]
  BY DEF MarkersName
<1> HIDE DEF tail
<1>4. ws = [i \in 1 .. n + 3 |-> IF i <= n THEN audio[i] ELSE tail[i - n]]
  <2> DEFINE S == {audio[i] : i \in 1 .. n} \union {tail[i] : i \in 1 .. 3}
  <2>1. audio \in [1 .. n -> S] /\ tail \in [1 .. 3 -> S]
    BY <1>2, <1>3
  <2> HIDE DEF S
  <2>2. audio \in Seq(S) /\ tail \in Seq(S)
    BY <1>2, <2>1, SeqDef
  <2>3. /\ ws \in Seq(S) /\ Len(ws) = n + 3
        /\ \A i \in 1 .. n + 3 : ws[i] = IF i <= n THEN audio[i] ELSE tail[i - n]
    BY <1>1, <1>3, <2>2, ConcatProperties
  <2> QED
    BY <2>3
<1>5. Len(ws) = n + 3 /\ DOMAIN ws = 1 .. n + 3
  BY <1>2, <1>4
<1>6. ASSUME NEW i \in 1 .. n + 3, ws[i].name = MarkersName
      PROVE  i = n + 1
  <2>1. ~(i <= n)
    BY <1>2, <1>4, <1>6
  <2>2. ws[i] = tail[i - n] /\ i - n \in 1 .. 3
    BY <1>2, <1>4, <2>1
  <2>3. i - n = 1
    BY <1>3, <1>6, <2>2
  <2> QED
    BY <1>2, <2>3
<1>7. ws[n + 1] = tail[1]
  <2>1. n + 1 \in 1 .. n + 3 /\ ~(n + 1 <= n) /\ (n + 1) - n = 1
    BY <1>2
  <2> QED
    BY <1>4, <2>1
<1>8. ASSUME NEW i \in 1 .. n + 3
      PROVE  "put" \in DOMAIN ws[i]
  <2>1. CASE i <= n
    BY <1>2, <1>4, <2>1
  <2>2. CASE ~(i <= n)
    <3>1. i - n \in 1 .. 3 /\ ws[i] = tail[i - n]
      BY <1>2, <1>4, <2>2
    <3> QED
      BY <1>3, <3>1
  <2> QED
    BY <2>1, <2>2
<1> QED
  BY <1>2, <1>3, <1>5, <1>6, <1>7, <1>8 DEF audio

LEMMA MarksAfter ==
  ASSUME NEW fs, MarksFine(fs), NEW ws, NEW n \in Nat, DOMAIN ws = 1 .. n,
         \A i, j \in 1 .. n : ws[i].name = MarkersName /\ ws[j].name = MarkersName => i = j,
         \A i \in 1 .. n : ws[i].name = MarkersName => Inside(ws[i].put)
  PROVE  MarksFine(AfterWrites(fs, ws))
<1> DEFINE names == {ws[i].name : i \in DOMAIN ws}
           at(m) == {i \in DOMAIN ws : ws[i].name = m}
           last == [m \in names |-> ws[Max(at(m))].put]
           gs == AfterWrites(fs, ws)
<1>1. gs = [m \in (DOMAIN fs \ DOMAIN last) \union {m \in DOMAIN last : last[m] # Removed} |->
              IF m \in DOMAIN last THEN last[m] ELSE fs[m]]
  BY DEF AfterWrites
<1>2. CASE MarkersName \notin names
  <2> HIDE DEF names
  <2>1. DOMAIN last = names
    OBVIOUS
  <2> HIDE DEF last, gs
  <2>2. MarkersName \in DOMAIN gs => MarkersName \in DOMAIN fs /\ gs[MarkersName] = fs[MarkersName]
    BY <1>1, <1>2, <2>1
  <2> QED
    BY <2>2 DEF MarksFine, gs
<1>3. CASE MarkersName \in names
  <2>1. PICK k \in 1 .. n : ws[k].name = MarkersName
    BY <1>3
  <2>2. at(MarkersName) = {k}
    BY <2>1
  <2>3. Max({k}) = k
    BY DEF Max
  <2>4. last[MarkersName] = ws[k].put
    <3> HIDE DEF names, at
    <3> QED
      BY <1>3, <2>2, <2>3
  <2>5. DOMAIN last = names
    OBVIOUS
  <2> HIDE DEF names, at, last, gs
  <2>6. MarkersName \in DOMAIN gs => gs[MarkersName] = ws[k].put
    BY <1>1, <1>3, <2>4, <2>5
  <2> QED
    BY <2>1, <2>6 DEF MarksFine, gs
<1> QED
  BY <1>2, <1>3

\* The writes get as far as the markers when the first track has frames.
LEMMA ReachesMarkers ==
  ASSUME CopyInv, NEW comp \in Compositions, NEW format, NEW all \in Nat,
         NEW n \in Nat, n <= Reach(comp, format, all), n > Len(PackageAudio(comp, format))
  PROVE  TimelineOf(PlannedTracks(comp)[1]).total > 0
<1> DEFINE planned == PlannedTracks(comp)
           len == Len(planned)
           w == WritesOf(format)
           m == Len(PackageAudio(comp, format))
<1>1. /\ m \in Nat /\ (comp # MixOfAll => m = w * len)
      /\ planned[1] \in TrackIds /\ len \in Nat \ {0} /\ DOMAIN planned = 1 .. len
      /\ w \in {1, 3}
  BY AudioShape, PlannedThere DEF WritesOf
<1> HIDE DEF w, m
<1>2. n > m /\ n # 0
  BY <1>1 DEF m
<1>3. CASE comp = MixOfAll
  <2>1. JoinsMix
    BY <1>2, <1>3 DEF Reach
  <2> DEFINE S == {TimelineOf(ResolveTracks[i]).total : i \in DOMAIN ResolveTracks}
  <2>2. Min(S) > 0
    BY <2>1 DEF JoinsMix, MixFrames
  <2>3. planned = ResolveTracks
    BY <1>3 DEF PlannedTracks, MixOfAll
  <2>4. \A t \in TrackIds : TimelineOf(t).total \in Nat
    <3> SUFFICES ASSUME NEW t \in TrackIds PROVE TimelineOf(t).total \in Nat
      OBVIOUS
    <3>1. Recorded[t].total \in Nat /\ Build({}, t).total \in Nat
      BY AxisLength, AxesAddUp
    <3> QED
      BY <3>1 DEF TimelineOf, CopyInv, RemovalInOrder
  <2>5. S \subseteq Nat
    BY <2>4 DEF TrackIds
  <2>6. TimelineOf(planned[1]).total \in S
    BY <1>1, <2>3
  <2> HIDE DEF S
  <2>7. Min(S) \in Nat /\ Min(S) <= TimelineOf(planned[1]).total
    BY <2>5, <2>6, LeastNumber
  <2>8. TimelineOf(planned[1]).total \in Nat
    BY <2>5, <2>6
  <2> QED
    BY <2>2, <2>7, <2>8
<1>4. CASE comp # MixOfAll
  <2> DEFINE broken == {i \in DOMAIN planned : ~Joins(planned[i])}
             first == Min(broken)
  <2>1. CASE broken = {}
    <3>1. Joins(planned[1])
      BY <1>1, <2>1
    <3> QED
      BY <3>1 DEF Joins
  <2>2. CASE broken # {}
    <3>1. n <= (first - 1) * w
      BY <1>4, <2>2 DEF Reach, w
    <3>2. broken \subseteq 1 .. len
      BY <1>1
    <3> HIDE DEF broken
    <3> HIDE DEF len
    <3>3. broken \subseteq Nat
      BY <1>1, <3>2
    <3>5. first \in 1 .. len
      BY <2>2, <3>2, <3>3, LeastNumber
    <3> HIDE DEF first
    <3>4. (first - 1) * w <= w * len
      BY <1>1, <3>5
    <3> QED
      BY <1>1, <1>2, <1>4, <3>1, <3>5, <3>4
  <2> QED
    BY <2>1, <2>2
<1> QED
  BY <1>3, <1>4

LEMMA ReachWithin ==
  ASSUME NEW comp \in Compositions, NEW format, NEW ws \in PackageWrites(comp, format)
  PROVE  Reach(comp, format, Len(ws)) \in Nat /\ Reach(comp, format, Len(ws)) <= Len(ws)
<1> DEFINE planned == PlannedTracks(comp)
           len == Len(planned)
           w == WritesOf(format)
           m == Len(PackageAudio(comp, format))
           broken == {i \in DOMAIN planned : ~Joins(planned[i])}
           first == Min(broken)
<1>1. /\ m \in Nat /\ (comp # MixOfAll => m = w * len) /\ Len(ws) = m + 3
      /\ len \in Nat \ {0} /\ DOMAIN planned = 1 .. len
      /\ w \in {1, 3}
  BY AudioShape, PlannedThere, PackageShape DEF WritesOf
<1> HIDE DEF m
<1>2. CASE comp = MixOfAll
  BY <1>1, <1>2 DEF Reach
<1>3. CASE comp # MixOfAll /\ broken = {}
  BY <1>1, <1>3 DEF Reach
<1>4. CASE comp # MixOfAll /\ broken # {}
  <2>1. Reach(comp, format, Len(ws)) = (first - 1) * w
    BY <1>4 DEF Reach
  <2>2. broken \subseteq 1 .. len
    BY <1>1
  <2> HIDE DEF broken, w, len
  <2>3. first \in 1 .. len
    <3>1. broken \subseteq Nat
      BY <1>1, <2>2
    <3> QED
      BY <1>4, <2>2, <3>1, LeastNumber
  <2> HIDE DEF first
  <2>4. (first - 1) * w \in Nat /\ (first - 1) * w <= w * len
    BY <1>1, <2>3
  <2> QED
    BY <1>1, <1>4, <2>1, <2>4
<1> QED
  BY <1>2, <1>3, <1>4

\* However far the writes get, and whether or not the next one is cut short.
LEMMA WritesAreFine ==
  ASSUME OnlyLastEmpty, CopyInv, NEW fs, MarksFine(fs), NEW comp \in Compositions,
         NEW format, NEW ws \in PackageWrites(comp, format), NEW n \in Nat, n <= Len(ws),
         n <= Reach(comp, format, Len(ws))
  PROVE  MarksFine(AfterWrites(fs, SubSeq(ws, 1, n)))
<1> DEFINE m == Len(PackageAudio(comp, format))
           us == SubSeq(ws, 1, n)
<1>1. /\ m \in Nat /\ Len(ws) = m + 3 /\ DOMAIN ws = 1 .. m + 3
      /\ \A i \in 1 .. m + 3 : ws[i].name = MarkersName => i = m + 1
      /\ ws[m + 1].put = [markers |-> ProjectAnnotations(comp)]
  BY PackageShape
<1> HIDE DEF m
<1>2. us = [i \in 1 .. n |-> ws[i]]
  BY <1>1
<1> HIDE DEF us
<1>3. DOMAIN us = 1 .. n /\ \A i \in 1 .. n : us[i] = ws[i] /\ i \in 1 .. m + 3
  BY <1>1, <1>2
<1>4. ASSUME NEW i \in 1 .. n, us[i].name = MarkersName
      PROVE  i = m + 1 /\ Inside(us[i].put)
  <2>1. i = m + 1 /\ us[i].put = [markers |-> ProjectAnnotations(comp)]
    BY <1>1, <1>3, <1>4
  <2>2. n > m
    BY <1>1, <2>1
  <2>3. TimelineOf(PlannedTracks(comp)[1]).total > 0
    BY <1>1, <2>2, ReachesMarkers DEF m
  <2> QED
    BY <2>1, <2>3, MarkersFall
<1> QED
  BY <1>3, <1>4, MarksAfter DEF us

LEMMA TornIsFine ==
  ASSUME NEW fs, MarksFine(fs), NEW w, "put" \in DOMAIN w
  PROVE  MarksFine(AfterWrites(fs, <<[w EXCEPT !.put = Torn]>>))
<1> DEFINE x == [w EXCEPT !.put = Torn]
           ws == <<x>>
<1>1. x.put = Torn
  OBVIOUS
<1>2. x.put = Torn => Inside(x.put)
  <2> HIDE DEF x
  <2> QED
    BY DEF Inside
<1> HIDE DEF x
<1>3. DOMAIN ws = 1 .. 1 /\ ws[1] = x
  OBVIOUS
<1> HIDE DEF ws
<1>4. \A i \in 1 .. 1 : i = 1
  OBVIOUS
<1>5. MarksFine(AfterWrites(fs, ws))
  BY <1>1, <1>2, <1>3, <1>4, MarksAfter
<1> QED
  BY <1>5 DEF ws, x

LEMMA MarkersInvariant == OnlyLastEmpty => (CopyingSpec => []MarksFine(folder))
<1> SUFFICES ASSUME OnlyLastEmpty PROVE CopyingSpec => []MarksFine(folder)
  OBVIOUS
<1>1. CopyingInit => MarksFine(folder)
  BY DEF CopyingInit, ExportInit, MarksFine
<1>2. CopyInv /\ MarksFine(folder) /\ [CopyingNext]_copyingVars => MarksFine(folder)'
  <2> SUFFICES ASSUME CopyInv, MarksFine(folder), [CopyingNext]_copyingVars
               PROVE  MarksFine(folder')
    BY DEF MarksFine, Inside
  <2>1. CASE BuildPackage
    <3>1. PICK comp \in Compositions, format \in Formats : \E ws \in PackageWrites(comp, format) :
            /\ Reach(comp, format, Len(ws)) = Len(ws)
            /\ folder' = AfterWrites(folder, ws)
      BY <2>1 DEF BuildPackage
    <3>2. PICK ws \in PackageWrites(comp, format) :
            /\ Reach(comp, format, Len(ws)) = Len(ws)
            /\ folder' = AfterWrites(folder, ws)
      BY <3>1
    <3> DEFINE m == Len(PackageAudio(comp, format))
    <3>3. /\ m \in Nat /\ Len(ws) = m + 3 /\ DOMAIN ws = 1 .. m + 3
          /\ \A i \in 1 .. m + 3 : ws[i].name = MarkersName => i = m + 1
          /\ ws[m + 1].put = [markers |-> ProjectAnnotations(comp)]
      BY PackageShape
    <3>4. TimelineOf(PlannedTracks(comp)[1]).total > 0
      <4>1. m + 3 \in Nat /\ m + 3 > m /\ m + 3 <= Reach(comp, format, m + 3)
        BY <3>2, <3>3
      <4> QED
        BY <4>1, ReachesMarkers
    <3>5. Inside([markers |-> ProjectAnnotations(comp)])
      BY <3>4, MarkersFall
    <3> HIDE DEF m
    <3>6. m + 3 \in Nat
      BY <3>3
    <3> QED
      BY <3>2, <3>3, <3>5, <3>6, MarksAfter
  <2>2. CASE BuildFails
    <3>1. PICK comp \in Compositions, format \in Formats : \E ws \in PackageWrites(comp, format) :
            LET reach == Reach(comp, format, Len(ws))
            IN  \E n \in IF "io" \in ExportFaults THEN 0 .. reach ELSE {reach} \ {Len(ws)} :
                  LET done == AfterWrites(folder, SubSeq(ws, 1, n))
                  IN  \/ folder' = done
                      \/ /\ n < Len(ws) /\ ws[n + 1].put # Removed
                         /\ folder' = AfterWrites(done, <<[ws[n + 1] EXCEPT !.put = Torn]>>)
      BY <2>2 DEF BuildFails
    <3>2. PICK ws \in PackageWrites(comp, format) :
            \E n \in IF "io" \in ExportFaults THEN 0 .. Reach(comp, format, Len(ws))
                     ELSE {Reach(comp, format, Len(ws))} :
              \/ folder' = AfterWrites(folder, SubSeq(ws, 1, n))
              \/ /\ n < Len(ws)
                 /\ folder' = AfterWrites(AfterWrites(folder, SubSeq(ws, 1, n)),
                                          <<[ws[n + 1] EXCEPT !.put = Torn]>>)
      BY <3>1
    <3> DEFINE r == Reach(comp, format, Len(ws))
    <3>3. r \in Nat /\ r <= Len(ws)
      BY ReachWithin
    <3> HIDE DEF r
    <3>4. PICK n \in 0 .. r :
              \/ folder' = AfterWrites(folder, SubSeq(ws, 1, n))
              \/ /\ n < Len(ws)
                 /\ folder' = AfterWrites(AfterWrites(folder, SubSeq(ws, 1, n)),
                                          <<[ws[n + 1] EXCEPT !.put = Torn]>>)
      BY <3>2, <3>3 DEF r
    <3>5. n \in Nat /\ n <= r /\ n <= Len(ws)
      <4>1. Len(ws) \in Nat
        BY PackageShape
      <4> QED
        BY <3>3, <4>1
    <3>6. MarksFine(AfterWrites(folder, SubSeq(ws, 1, n)))
      BY <3>5, WritesAreFine DEF r
    <3>7. n < Len(ws) => "put" \in DOMAIN ws[n + 1]
      <4>1. \A i \in 1 .. Len(ws) : "put" \in DOMAIN ws[i]
        BY PackageShape
      <4>2. Len(ws) \in Nat
        BY PackageShape
      <4> QED
        BY <3>5, <4>1, <4>2
    <3> QED
      BY <3>4, <3>6, <3>7, TornIsFine
  <2>3. CASE folder' = folder
    BY <2>3
  <2> QED
    BY <2>1, <2>2, <2>3 DEF CopyingNext, ExportNext, RefuseExport, AskConfirmation, BurnDvd,
       BurnFails, exportVars, copyingVars
<1> QED
  BY <1>1, <1>2, CopyingInvariant, PTL DEF CopyingSpec

\* A marker of a package lies inside a track of the session, whatever moment of
\* the clock it was set at and however often an export failed half-way: the
\* pauses are cut out before it is written (export/package.rs).
THEOREM MarkersStayInside ==
  OnlyLastEmpty => (CopyingSpec => []MarkersInsideRecording)
<1>1. MarksFine(folder) => MarkersInsideRecording
  BY DEF MarksFine, Inside, MarkersInsideRecording
<1> QED
  BY <1>1, MarkersInvariant, PTL

-----------------------------------------------------------------------------
(***************************************************************************)
(* What a logged export holds.                                             *)
(***************************************************************************)
\* The axis of what the manifest has, all of the recording or nothing of it.
LEMMA ManifestAddsUp ==
  ASSUME CopyInv, NEW t \in TrackIds
  PROVE  Axis(TimelineOf(t)) \/ TimelineOf(t).total = 0
<1>1. CASE rows = Recording
  BY <1>1, AxesAddUp DEF TimelineOf
<1>2. CASE rows # Recording
  BY <1>2, AxesAddUp DEF TimelineOf, CopyInv, RemovalInOrder
<1> QED
  BY <1>1, <1>2

LEMMA JoinCopiesAll ==
  ASSUME CopyInv, NEW t \in TrackIds, Joins(t)
  PROVE  JoinedFrames(t) = TimelineOf(t).total
<1> DEFINE tl == TimelineOf(t)
           segs == tl.segs
           n == Len(segs)
           L == [i \in 1 .. n |-> IF Readable(segs[i]) THEN segs[i].frames ELSE 0]
           w == CHOOSE w : w = [i \in 0 .. n |->
                  IF i = 0 THEN 0 ELSE w[i-1] + IF Readable(segs[i]) THEN segs[i].frames ELSE 0]
<1>1. tl.total > 0 /\ \A i \in DOMAIN segs : Readable(segs[i])
  BY DEF Joins
<1>2. Axis(tl)
  BY <1>1, ManifestAddsUp
<1>3. JoinedFrames(t) = w[n]
  BY Zenon DEF JoinedFrames
<1> HIDE DEF tl
<1>4. n \in Nat /\ DOMAIN segs = 1 .. n
  BY <1>2 DEF Axis
<1> HIDE DEF n
<1>5. PICK c : Sums(L, n, c)
  BY <1>4, RunningSum
<1> DEFINE d == [i \in 0 .. n |-> c[i+1]]
<1>6. ASSUME NEW i \in 0 .. n
      PROVE  d[i] = IF i = 0 THEN 0 ELSE d[i-1] + IF Readable(segs[i]) THEN segs[i].frames ELSE 0
  <2>1. i + 1 \in 1 .. n + 1 /\ (i + 1) - 1 = i /\ (i # 0 => i \in 1 .. n /\ i - 1 \in 0 .. n /\ i = (i - 1) + 1)
    BY <1>4
  <2>2. c[i+1] = IF i + 1 = 1 THEN 0 ELSE c[(i+1)-1] + L[(i+1)-1]
    BY <1>5, <2>1 DEF Sums
  <2>3. i # 0 => d[i-1] = c[i]
    BY <2>1
  <2>4. i # 0 => L[i] = IF Readable(segs[i]) THEN segs[i].frames ELSE 0
    BY <2>1
  <2> QED
    BY <1>4, <2>1, <2>2, <2>3, <2>4
<1>7. d = [i \in 0 .. n |->
             IF i = 0 THEN 0 ELSE d[i-1] + IF Readable(segs[i]) THEN segs[i].frames ELSE 0]
  BY <1>6, Zenon
<1>8. w = [i \in 0 .. n |->
             IF i = 0 THEN 0 ELSE w[i-1] + IF Readable(segs[i]) THEN segs[i].frames ELSE 0]
  <2> HIDE DEF d
  <2> QED
    BY <1>7, Zenon
<1> HIDE DEF w
<1> DEFINE T == {i \in 1 .. n : w[i] # segs[i].start + segs[i].frames}
<1>9. T = {}
  <2> SUFFICES ASSUME T # {} PROVE FALSE
    OBVIOUS
  <2>1. T \subseteq Nat
    BY <1>4
  <2> DEFINE m == Min(T)
  <2>2. m \in T /\ \A y \in T : m <= y
    BY <2>1, LeastNumber
  <2> HIDE DEF m
  <2>3. m \in 1 .. n /\ m \in 0 .. n /\ w[m] # segs[m].start + segs[m].frames
        /\ (m # 1 => m - 1 \in 1 .. n /\ m - 1 < m)
    BY <1>4, <2>2
  <2>4. w[m] = w[m-1] + segs[m].frames
    <3>1. m # 0 /\ Readable(segs[m])
      BY <1>1, <1>4, <2>3
    <3>2. w[m] = IF m = 0 THEN 0 ELSE w[m-1] + IF Readable(segs[m]) THEN segs[m].frames ELSE 0
      BY <1>8, <2>3, Zenon
    <3> QED
      BY <3>1, <3>2
  <2>5. m # 1 => w[m-1] = segs[m-1].start + segs[m-1].frames
    BY <2>2, <2>3
  <2>6. m = 1 => w[m-1] = 0
    BY <1>4, <1>8
  <2>7. segs[m].start = IF m = 1 THEN 0 ELSE segs[m-1].start + segs[m-1].frames
    BY <1>2, <2>3 DEF Axis, n
  <2> QED
    BY <2>3, <2>4, <2>5, <2>6, <2>7
<1>10. n # 0
  BY <1>1, <1>2 DEF Axis, n
<1>11. w[n] = segs[n].start + segs[n].frames
  BY <1>4, <1>9, <1>10
<1> QED
  BY <1>2, <1>3, <1>10, <1>11 DEF Axis, n, tl

\* The files of the planned audio, and the extension they keep.
Extension(format) == IF format = "wav" THEN "wav" ELSE "flac"
PlannedAudio(comp) ==
  IF comp = MixOfAll THEN {Audio(TrackIds, MixFrames)}
  ELSE {Audio({PlannedTracks(comp)[j]}, JoinedFrames(PlannedTracks(comp)[j])) :
          j \in DOMAIN PlannedTracks(comp)}

LEMMA OneFile ==
  ASSUME NEW name, NEW put, NEW format, NEW w, w = WritesOf(format),
         NEW a, a = AudioWrites(name, put, format)
  PROVE  /\ DOMAIN a = 1 .. w
         /\ \A i \in 1 .. w : /\ a[i].name[2] \in {"wav", "flac"}
                              /\ a[i].name[2] = Extension(format) => a[i].put = put
         /\ a[Lesser(w, 2)].name[2] = Extension(format)
<1>1. CASE format = "wav"
  <2>1. a = <<[name |-> <<name, "wav">>, put |-> put]>> /\ w = 1
    BY <1>1 DEF AudioWrites, WritesOf
  <2>2. Lesser(1, 2) = 1
    BY DEF Lesser
  <2>3. DOMAIN a = 1 .. 1 /\ a[1].name[2] = "wav" /\ a[1].put = put /\ w = 1
    BY <2>1
  <2>4. Extension(format) = "wav"
    BY <1>1 DEF Extension
  <2>5. \A i \in 1 .. 1 : i = 1
    OBVIOUS
  <2>6. \A i \in 1 .. w : a[i].name[2] \in {"wav", "flac"} /\ a[i].put = put
    BY <2>3, <2>5
  <2> QED
    BY <2>2, <2>3, <2>4, <2>6
<1>2. CASE format # "wav"
  <2>1. a = << [name |-> <<name, "wav">>, put |-> put],
               [name |-> <<name, "flac">>, put |-> put],
               [name |-> <<name, "wav">>, put |-> Removed] >> /\ w = 3
    BY <1>2 DEF AudioWrites, WritesOf
  <2>2. Lesser(3, 2) = 2
    BY DEF Lesser
  <2>3. DOMAIN a = 1 .. 3 /\ a[1].name[2] = "wav" /\ a[2].name[2] = "flac" /\ a[3].name[2] = "wav"
        /\ a[2].put = put
    BY <2>1
  <2>4. Extension(format) = "flac"
    BY <1>2 DEF Extension
  <2>5. \A i \in 1 .. 3 : i = 1 \/ i = 2 \/ i = 3
    OBVIOUS
  <2>6. \A i \in 1 .. 3 : /\ a[i].name[2] \in {"wav", "flac"}
                          /\ a[i].name[2] = "flac" => a[i].put = put
    BY <2>3, <2>5
  <2>7. w = 3
    BY <2>1
  <2>8. \A i \in 1 .. w : /\ a[i].name[2] \in {"wav", "flac"}
                          /\ a[i].name[2] = Extension(format) => a[i].put = put
    BY <2>4, <2>6, <2>7
  <2>9. a[Lesser(w, 2)].name[2] = Extension(format)
    BY <2>2, <2>3, <2>4, <2>7
  <2> QED
    BY <2>3, <2>7, <2>8, <2>9
<1> QED
  BY <1>1, <1>2

\* Every write under the kept extension is of planned audio, and the entries
\* are of such writes.
LEMMA AudioKept ==
  ASSUME NEW comp \in Compositions, NEW format
  PROVE  LET audio == PackageAudio(comp, format)
             w == WritesOf(format)
         IN  /\ \A k \in 1 .. Len(audio) :
                  /\ audio[k].name[2] \in {"wav", "flac"}
                  /\ audio[k].name[2] = Extension(format) => audio[k].put \in PlannedAudio(comp)
             /\ \A i \in 1 .. Len(audio) \div w :
                  LET k == w * (i - 1) + Lesser(w, 2)
                  IN  k \in 1 .. Len(audio) /\ audio[k].name[2] = Extension(format)
<1> DEFINE audio == PackageAudio(comp, format)
           w == WritesOf(format)
           n == Len(PlannedTracks(comp))
           l == Lesser(w, 2)
<1>1. /\ w \in {1, 3} /\ n \in Nat /\ l \in 1 .. w /\ DOMAIN PlannedTracks(comp) = 1 .. n
      /\ Len(audio) \in Nat
  BY PlannedThere, AudioShape DEF WritesOf, Lesser
<1>3. CASE comp = MixOfAll
  <2> DEFINE m == Audio(TrackIds, MixFrames)
  <2>1. audio = AudioWrites("mix", m, format)
    BY <1>3 DEF PackageAudio
  <2>2. m \in PlannedAudio(comp)
    BY <1>3 DEF PlannedAudio
  <2> HIDE DEF w, l, m, audio, n
  <2>3. /\ DOMAIN audio = 1 .. w
        /\ \A i \in 1 .. w : /\ audio[i].name[2] \in {"wav", "flac"}
                             /\ audio[i].name[2] = Extension(format) => audio[i].put = m
        /\ audio[l].name[2] = Extension(format)
    BY <2>1, OneFile DEF w, l
  <2>4. Len(audio) = w
    <3>1. w \in Nat
      BY <1>1
    <3> QED
      BY <2>3, <3>1
  <2>5. \A i \in 1 .. Len(audio) \div w : w * (i - 1) + l = l
    BY <1>1, <2>4
  <2>6. \A k \in 1 .. Len(audio) :
                  /\ audio[k].name[2] \in {"wav", "flac"}
                  /\ audio[k].name[2] = Extension(format) => audio[k].put \in PlannedAudio(comp)
    BY <2>2, <2>3, <2>4
  <2>7. \A i \in 1 .. Len(audio) \div w :
            w * (i - 1) + l \in 1 .. Len(audio) /\ audio[w * (i - 1) + l].name[2] = Extension(format)
    BY <1>1, <2>3, <2>4, <2>5
  <2> QED
    BY <2>6, <2>7 DEF w, audio, l
<1>4. CASE comp # MixOfAll
  <2> DEFINE tk(k) == PlannedTracks(comp)[(k - 1) \div w + 1]
             whole == [k \in 1 .. w * n |-> Audio({tk(k)}, JoinedFrames(tk(k)))]
             at == [k \in 1 .. w * n |->
                      AudioWrites(Stem[tk(k)], Audio({tk(k)}, JoinedFrames(tk(k))), format)]
  <2>1. audio = [k \in 1 .. w * n |-> at[k][((k - 1) % w) + 1]]
    BY <1>4 DEF PackageAudio, Separate
  <2>2. w * n \in Nat /\ \A k \in 1 .. w * n : (k - 1) \div w + 1 \in 1 .. n /\ ((k - 1) % w) + 1 \in 1 .. w
    <3> HIDE DEF w, n
    <3> QED
      BY <1>1
  <2>3. \A k \in 1 .. w * n : whole[k] \in PlannedAudio(comp)
    BY <1>1, <1>4, <2>2 DEF PlannedAudio
  <2>4. \A k \in 1 .. w * n : /\ \A i \in 1 .. w : /\ at[k][i].name[2] \in {"wav", "flac"}
                                                   /\ at[k][i].name[2] = Extension(format) =>
                                                        at[k][i].put = whole[k]
                              /\ at[k][l].name[2] = Extension(format)
    <3> SUFFICES ASSUME NEW k \in 1 .. w * n
                 PROVE  /\ \A i \in 1 .. w : /\ at[k][i].name[2] \in {"wav", "flac"}
                                             /\ at[k][i].name[2] = Extension(format) =>
                                                  at[k][i].put = whole[k]
                        /\ at[k][l].name[2] = Extension(format)
      OBVIOUS
    <3>1. at[k] = AudioWrites(Stem[tk(k)], whole[k], format)
      OBVIOUS
    <3> HIDE DEF at, whole, tk, w
    <3> QED
      BY <3>1, OneFile DEF w
  <2> HIDE DEF w, n, at, whole, l, audio
  <2>5. Len(audio) = w * n
    BY <2>1, <2>2
  <2>6. \A k \in 1 .. w * n : audio[k] = at[k][((k - 1) % w) + 1]
    BY <2>1
  <2>7. \A k \in 1 .. Len(audio) :
                  /\ audio[k].name[2] \in {"wav", "flac"}
                  /\ audio[k].name[2] = Extension(format) => audio[k].put \in PlannedAudio(comp)
    <3> SUFFICES ASSUME NEW k \in 1 .. w * n
                 PROVE  /\ audio[k].name[2] \in {"wav", "flac"}
                        /\ audio[k].name[2] = Extension(format) => audio[k].put \in PlannedAudio(comp)
      BY <2>5
    <3> DEFINE i == ((k - 1) % w) + 1
    <3>1. i \in 1 .. w /\ audio[k] = at[k][i]
      BY <2>2, <2>6
    <3> HIDE DEF i
    <3> QED
      BY <2>3, <2>4, <3>1
  <2>8. ASSUME NEW i \in 1 .. Len(audio) \div w
        PROVE  w * (i - 1) + l \in 1 .. Len(audio) /\ audio[w * (i - 1) + l].name[2] = Extension(format)
    <3> DEFINE k == w * (i - 1) + l
    <3>1. i \in 1 .. n
      BY <1>1, <2>5
    <3>2. k \in 1 .. w * n /\ ((k - 1) % w) + 1 = l
      BY <1>1, <3>1
    <3> HIDE DEF k
    <3>3. audio[k] = at[k][l]
      BY <2>6, <3>2
    <3> QED
      BY <2>4, <2>5, <3>2, <3>3 DEF k
  <2> QED
    BY <2>7, <2>8 DEF w, audio, l
<1> QED
  BY <1>3, <1>4

\* What all writes to a name put is there afterwards.
LEMMA LastWrite ==
  ASSUME NEW fs, NEW ws, NEW n \in Nat, DOMAIN ws = 1 .. n, NEW k \in 1 .. n,
         NEW puts, Removed \notin puts,
         \A i \in 1 .. n : ws[i].name = ws[k].name => ws[i].put \in puts
  PROVE  /\ ws[k].name \in DOMAIN AfterWrites(fs, ws)
         /\ AfterWrites(fs, ws)[ws[k].name] \in puts
<1> DEFINE names == {ws[i].name : i \in DOMAIN ws}
           at(m) == {i \in DOMAIN ws : ws[i].name = m}
           last == [m \in names |-> ws[Max(at(m))].put]
           gs == AfterWrites(fs, ws)
           name == ws[k].name
           i == Max(at(name))
<1>1. gs = [m \in (DOMAIN fs \ DOMAIN last) \union {m \in DOMAIN last : last[m] # Removed} |->
              IF m \in DOMAIN last THEN last[m] ELSE fs[m]]
  BY DEF AfterWrites
<1>2. at(name) \subseteq 1 .. n /\ k \in at(name)
  OBVIOUS
<1>3. i \in at(name)
  <2> HIDE DEF at
  <2> QED
    BY <1>2, GreatestNumber
<1>4. i \in 1 .. n /\ ws[i].name = name
  <2> HIDE DEF i
  <2> QED
    BY <1>3
<1>5. name \in DOMAIN last /\ last[name] = ws[i].put
  <2> HIDE DEF at
  <2> QED
    OBVIOUS
<1> HIDE DEF last, gs, i
<1>6. name \in DOMAIN gs /\ gs[name] = ws[i].put
  BY <1>1, <1>4, <1>5
<1> QED
  BY <1>4, <1>6 DEF gs

LEMMA PlannedKnown ==
  ASSUME NEW comp \in Compositions, NEW j \in DOMAIN PlannedTracks(comp)
  PROVE  PlannedTracks(comp)[j] \in TrackIds
<1>1. CASE comp < 0
  BY <1>1 DEF PlannedTracks, TrackIds
<1>2. CASE ~(comp < 0)
  BY <1>2 DEF PlannedTracks, Compositions, AllTracks, MixOfAll
<1> QED
  BY <1>1, <1>2

\* What the files of a package that joins hold: whole tracks, and the same
\* for the same tracks.
LEMMA PlannedWhole ==
  ASSUME CopyInv, NEW comp \in Compositions, NEW format, NEW all \in Nat \ {0},
         all >= Len(PackageAudio(comp, format)) + 1, Reach(comp, format, all) = all,
         NEW p \in PlannedAudio(comp)
  PROVE  /\ p.frames = Min({TimelineOf(t).total : t \in p.tracks})
         /\ p # Removed
         /\ \A q \in PlannedAudio(comp) : q.tracks = p.tracks => q = p
<1> DEFINE planned == PlannedTracks(comp)
           w == WritesOf(format)
<1>1. CASE comp = MixOfAll
  <2>1. p = [tracks |-> TrackIds, frames |-> MixFrames] /\ \A q \in PlannedAudio(comp) : q = p
    BY <1>1 DEF PlannedAudio, Audio
  <2>2. {TimelineOf(ResolveTracks[i]).total : i \in DOMAIN ResolveTracks}
          = {TimelineOf(t).total : t \in TrackIds}
    BY DEF TrackIds
  <2>3. MixFrames = Min({TimelineOf(t).total : t \in TrackIds})
    BY <2>2 DEF MixFrames
  <2>4. p # Removed
    BY <2>1 DEF Removed
  <2> QED
    BY <2>1, <2>3, <2>4
<1>2. CASE comp # MixOfAll
  <2> DEFINE broken == {i \in DOMAIN planned : ~Joins(planned[i])}
  <2>1. broken = {}
    <3> SUFFICES ASSUME broken # {} PROVE FALSE
      OBVIOUS
    <3>1. /\ w \in {1, 3} /\ Len(planned) \in Nat /\ DOMAIN planned = 1 .. Len(planned)
          /\ Len(PackageAudio(comp, format)) = w * Len(planned)
      BY <1>2, PlannedThere, AudioShape DEF WritesOf
    <3> DEFINE len == Len(planned)
               first == Min(broken)
    <3>2. all = (first - 1) * w
      BY <1>2 DEF Reach
    <3>3. broken \subseteq 1 .. len
      BY <3>1
    <3> HIDE DEF broken, w, len
    <3>4. first \in 1 .. len
      <4>1. broken \subseteq Nat
        BY <3>1, <3>3 DEF len
      <4> QED
        BY <3>3, <4>1, LeastNumber
    <3> HIDE DEF first
    <3>5. (first - 1) * w <= w * len /\ (first - 1) * w \in Nat /\ w * len \in Nat
      BY <3>1, <3>4 DEF len
    <3> QED
      BY <3>1, <3>2, <3>5 DEF len
  <2>2. \A j \in DOMAIN planned : planned[j] \in TrackIds /\ Joins(planned[j])
    BY <2>1, PlannedKnown
  <2>3. \A q \in PlannedAudio(comp) : \E t \in TrackIds :
          q = [tracks |-> {t}, frames |-> TimelineOf(t).total]
    <3> SUFFICES ASSUME NEW j \in DOMAIN planned
                 PROVE  \E t \in TrackIds : Audio({planned[j]}, JoinedFrames(planned[j]))
                                              = [tracks |-> {t}, frames |-> TimelineOf(t).total]
      BY <1>2 DEF PlannedAudio
    <3>1. JoinedFrames(planned[j]) = TimelineOf(planned[j]).total
      BY <2>2, JoinCopiesAll
    <3> QED
      BY <2>2, <3>1 DEF Audio
  <2>4. PICK t \in TrackIds : p = [tracks |-> {t}, frames |-> TimelineOf(t).total]
    BY <2>3
  <2>5. p.frames = Min({TimelineOf(u).total : u \in p.tracks})
    <3>1. {TimelineOf(u).total : u \in p.tracks} = {TimelineOf(t).total}
      BY <2>4
    <3>2. rows = Recording \/ TimelineOf(t) = Build({}, t)
      BY DEF TimelineOf, CopyInv, RemovalInOrder
    <3>3. TimelineOf(t).total \in Nat
      <4>1. Recorded[t].total \in Nat /\ Build({}, t).total \in Nat
        BY AxesAddUp, AxisLength
      <4> QED
        BY <3>2, <4>1 DEF TimelineOf
    <3>4. Min({TimelineOf(t).total}) = TimelineOf(t).total
      BY <3>3 DEF Min
    <3> QED
      BY <2>4, <3>1, <3>4
  <2>6. p # Removed
    BY <2>4 DEF Removed
  <2>7. ASSUME NEW q \in PlannedAudio(comp), q.tracks = p.tracks
        PROVE  q = p
    <3>1. PICK u \in TrackIds : q = [tracks |-> {u}, frames |-> TimelineOf(u).total]
      BY <2>3
    <3>2. u = t
      BY <2>4, <2>7, <3>1
    <3> QED
      BY <2>4, <3>1, <3>2
  <2> QED
    BY <2>5, <2>6, <2>7
<1> QED
  BY <1>1, <1>2

\* A package written to its end: the manifest, and the files it lists.
Whole(gs) ==
  \A i \in DOMAIN gs[ManifestName].entries :
    LET e == gs[ManifestName].entries[i]
    IN  /\ e.hash.frames = Min({TimelineOf(t).total : t \in e.hash.tracks})
        /\ e.name \in DOMAIN gs
        /\ e.hash.tracks = gs[e.name].tracks => gs[e.name] = e.hash

LEMMA PackageWhole ==
  ASSUME CopyInv, NEW comp \in Compositions, NEW format, NEW ws \in PackageWrites(comp, format),
         Reach(comp, format, Len(ws)) = Len(ws), NEW fs
  PROVE  Whole(AfterWrites(fs, ws))
<1> DEFINE audio == PackageAudio(comp, format)
           n == Len(audio)
           w == WritesOf(format)
           ee == FileEntries(audio, format)
           gs == AfterWrites(fs, ws)
           tail == << [name |-> <<"markers", "json">>, put |-> [markers |-> ProjectAnnotations(comp)]],
                      [name |-> <<"player", "html">>, put |-> [player |-> ee]],
                      [name |-> <<"manifest", "json">>, put |-> [entries |-> ee]] >>
<1>1. ws = audio \o tail
  BY DEF PackageWrites, PackageFiles
<1>2. n \in Nat /\ audio = [i \in 1 .. n |-> audio[i]] /\ w \in {1, 3}
  BY AudioShape DEF WritesOf
<1>3. /\ \A k \in 1 .. n : /\ audio[k].name[2] \in {"wav", "flac"}
                           /\ audio[k].name[2] = Extension(format) => audio[k].put \in PlannedAudio(comp)
      /\ \A i \in 1 .. n \div w :
           LET k == w * (i - 1) + Lesser(w, 2)
           IN  k \in 1 .. n /\ audio[k].name[2] = Extension(format)
  BY AudioKept
<1>4. ee = [i \in 1 .. n \div w |-> [name |-> audio[w * (i - 1) + Lesser(w, 2)].name,
                                     hash |-> audio[w * (i - 1) + Lesser(w, 2)].put]]
  BY DEF FileEntries
<1>0. gs = AfterWrites(fs, ws)
  OBVIOUS
<1> HIDE DEF audio, ee, w, gs
<1>5. /\ Len(tail) = 3 /\ tail = [i \in 1 .. 3 |-> tail[i]]
      /\ tail[1].name[2] = "json" /\ tail[2].name[2] = "html"
      /\ tail[1].name[1] = "markers"
      /\ tail[3].name = ManifestName /\ tail[3].put = [entries |-> ee]
  BY DEF ManifestName
<1> HIDE DEF tail
<1>6. ws = [i \in 1 .. n + 3 |-> IF i <= n THEN audio[i] ELSE tail[i - n]]
  <2> DEFINE S == {audio[i] : i \in 1 .. n} \union {tail[i] : i \in 1 .. 3}
  <2>1. audio \in [1 .. n -> S] /\ tail \in [1 .. 3 -> S]
    BY <1>2, <1>5
  <2> HIDE DEF S
  <2>2. n \in Nat
    BY <1>2
  <2>4. audio \in Seq(S) /\ tail \in Seq(S)
    BY <2>1, <2>2, SeqDef
  <2>3. /\ ws \in Seq(S) /\ Len(ws) = n + 3
        /\ \A i \in 1 .. n + 3 : ws[i] = IF i <= n THEN audio[i] ELSE tail[i - n]
    BY <1>1, <1>5, <2>4, ConcatProperties
  <2> QED
    BY <2>3
<1> HIDE DEF n
<1>7. /\ DOMAIN ws = 1 .. n + 3 /\ Len(ws) = n + 3 /\ n + 3 \in 1 .. n + 3 /\ n + 3 \in Nat
      /\ \A k \in 1 .. n : k \in 1 .. n + 3 /\ ws[k] = audio[k]
      /\ \A k \in 1 .. n + 3 : ~(k <= n) => k - n \in 1 .. 3 /\ ws[k] = tail[k - n]
      /\ ws[n + 3] = tail[3]
  BY <1>2, <1>6
<1>8. ASSUME NEW p \in PlannedAudio(comp)
      PROVE  /\ p.frames = Min({TimelineOf(t).total : t \in p.tracks})
             /\ p # Removed
             /\ \A q \in PlannedAudio(comp) : q.tracks = p.tracks => q = p
  <2>1. Len(ws) \in Nat \ {0} /\ Len(ws) >= Len(PackageAudio(comp, format)) + 1
    BY <1>2, <1>7 DEF n, audio
  <2> QED
    BY <2>1, PlannedWhole
<1>9. gs[ManifestName] = [entries |-> ee]
  <2>1. ASSUME NEW k \in 1 .. n + 3, ws[k].name = ManifestName
        PROVE  k = n + 3
    <3>1. ManifestName[2] = "json" /\ ManifestName[1] = "manifest"
      BY DEF ManifestName
    <3>2. ~(k <= n)
      BY <1>2, <1>3, <1>7, <2>1, <3>1
    <3>3. k - n \in 1 .. 3 /\ ws[k] = tail[k - n]
      BY <1>7, <3>2
    <3>4. k - n # 1 /\ k - n # 2
      BY <1>5, <2>1, <3>1, <3>3
    <3> QED
      BY <1>2, <3>3, <3>4
  <2>2. ws[n + 3].name = ManifestName /\ ws[n + 3].put = [entries |-> ee]
    BY <1>5, <1>7
  <2>3. Removed \notin {[entries |-> ee]}
    BY DEF Removed
  <2>4. \A j \in 1 .. n + 3 : ws[j].name = ws[n + 3].name => ws[j].put \in {[entries |-> ee]}
    BY <2>1, <2>2
  <2>5. AfterWrites(fs, ws)[ws[n + 3].name] \in {[entries |-> ee]}
    BY <1>7, <2>3, <2>4, LastWrite
  <2> QED
    BY <1>0, <2>2, <2>5
<1> SUFFICES ASSUME NEW i \in DOMAIN ee
             PROVE  /\ ee[i].hash.frames = Min({TimelineOf(t).total : t \in ee[i].hash.tracks})
                    /\ ee[i].name \in DOMAIN gs
                    /\ ee[i].hash.tracks = gs[ee[i].name].tracks => gs[ee[i].name] = ee[i].hash
  BY <1>0, <1>9 DEF Whole
<1>10. PICK k \in 1 .. n : /\ audio[k].name[2] = Extension(format)
                           /\ ee[i].name = audio[k].name /\ ee[i].hash = audio[k].put
  <2> DEFINE j == w * (i - 1) + Lesser(w, 2)
  <2>1. /\ j \in 1 .. n /\ audio[j].name[2] = Extension(format)
        /\ ee[i].name = audio[j].name /\ ee[i].hash = audio[j].put
    BY <1>3, <1>4
  <2> HIDE DEF j
  <2> QED
    BY <2>1
<1>11. ee[i].hash \in PlannedAudio(comp)
  BY <1>3, <1>10
<1>12. ASSUME NEW j \in 1 .. n + 3, ws[j].name = ws[k].name
       PROVE  ws[j].put \in PlannedAudio(comp)
  <2>1. ws[j].name[2] = Extension(format) /\ Extension(format) \in {"wav", "flac"}
    BY <1>3, <1>7, <1>10, <1>12
  <2>2. j <= n
    <3> SUFFICES ASSUME ~(j <= n) PROVE FALSE
      OBVIOUS
    <3>1. j - n \in 1 .. 3 /\ ws[j] = tail[j - n]
      BY <1>7
    <3>2. tail[1].name[2] = "json" /\ tail[2].name[2] = "html" /\ tail[3].name[2] = "json"
      BY <1>5 DEF ManifestName
    <3>3. j - n = 1 \/ j - n = 2 \/ j - n = 3
      BY <3>1
    <3> QED
      BY <2>1, <3>1, <3>2, <3>3
  <2>3. j \in 1 .. n /\ ws[j] = audio[j]
    BY <1>2, <1>7, <2>2
  <2> QED
    BY <1>3, <2>1, <2>3
<1>13. ws[k].name \in DOMAIN gs /\ gs[ws[k].name] \in PlannedAudio(comp)
  <2>1. k \in 1 .. n + 3 /\ Removed \notin PlannedAudio(comp)
    BY <1>7, <1>8
  <2>2. /\ ws[k].name \in DOMAIN AfterWrites(fs, ws)
        /\ AfterWrites(fs, ws)[ws[k].name] \in PlannedAudio(comp)
    BY <1>7, <1>12, <2>1, LastWrite
  <2> QED
    BY <1>0, <2>2
<1>14. ee[i].name = ws[k].name
  BY <1>7, <1>10
<1> QED
  BY <1>8, <1>11, <1>13, <1>14

EventsInv ==
  events \in Seq({"session_started", "stopped", "export_ok", "export_denied", "dvd_ok", "dvd_failed"})

\* An export is logged as successful only when all it copies was read and is
\* written, with the hashes the manifest lists: by no failed export, and by no
\* burning, refusal or removal in between (ipc/export_cmds.rs, export/package.rs).
THEOREM LoggedMeansWhole == CopyingSpec => OkMeansWhole
<1>1. CopyingInit => EventsInv
  BY DEF CopyingInit, StoreInit, EventsInv
<1>2. EventsInv /\ [CopyingNext]_copyingVars =>
        /\ EventsInv'
        /\ Len(events') > Len(events) /\ events'[Len(events')] = "export_ok" => BuildPackage
  <2> SUFFICES ASSUME EventsInv, [CopyingNext]_copyingVars
               PROVE  /\ EventsInv'
                      /\ Len(events') > Len(events) /\ events'[Len(events')] = "export_ok" => BuildPackage
    OBVIOUS
  <2>1. ASSUME NEW kind \in {"export_ok", "export_denied", "dvd_ok", "dvd_failed"},
               events' = Append(events, kind)
        PROVE  EventsInv' /\ events'[Len(events')] = kind
    BY <2>1 DEF EventsInv
  <2>2. CASE UNCHANGED events
    BY <2>2 DEF EventsInv
  <2>3. CASE events' = <<>>
    <3>1. Len(events) \in Nat /\ Len(events') = 0
      BY <2>3 DEF EventsInv
    <3> QED
      BY <2>3, <3>1 DEF EventsInv
  <2>4. CASE BuildPackage
    BY <2>1, <2>4 DEF BuildPackage, AppendEvent
  <2>5. CASE RefuseExport
    <3>1. events' = Append(events, "export_denied") \/ UNCHANGED events
      BY <2>5 DEF RefuseExport, AppendEvent
    <3> QED
      BY <2>1, <2>2, <3>1
  <2>6. CASE BurnDvd
    <3>1. events' = Append(events, "dvd_ok") \/ events' = Append(events, "dvd_failed")
      BY <2>6 DEF BurnDvd, AppendEvent
    <3> QED
      BY <2>1, <3>1
  <2>7. CASE RetentionNext
    <3>1. UNCHANGED events \/ events' = <<>>
      BY <2>7 DEF RetentionNext, MarkServerConfirmed, Sweep, SafeDelete, HourPasses, storeVars
    <3> QED
      BY <2>2, <2>3, <3>1
  <2>8. CASE AskConfirmation \/ BuildFails \/ BurnFails \/ Damage \/ UNCHANGED copyingVars
    <3>1. UNCHANGED events
      BY <2>8 DEF AskConfirmation, BuildFails, BurnFails, Damage, copyingVars, storeVars
    <3> QED
      BY <2>2, <3>1
  <2> QED
    BY <2>4, <2>5, <2>6, <2>7, <2>8 DEF CopyingNext, ExportNext
<1>3. CopyInv /\ BuildPackage => Whole(folder')
  <2> SUFFICES ASSUME CopyInv, BuildPackage
               PROVE  Whole(folder')
    OBVIOUS
  <2>1. PICK comp \in Compositions, format \in Formats : \E ws \in PackageWrites(comp, format) :
          Reach(comp, format, Len(ws)) = Len(ws) /\ folder' = AfterWrites(folder, ws)
    BY DEF BuildPackage
  <2>2. PICK ws \in PackageWrites(comp, format) :
          Reach(comp, format, Len(ws)) = Len(ws) /\ folder' = AfterWrites(folder, ws)
    BY <2>1
  <2>3. Whole(AfterWrites(folder, ws))
    BY <2>2, PackageWhole
  <2> QED
    BY <2>2, <2>3
<1>4. CopyInv /\ EventsInv /\ [CopyingNext]_copyingVars =>
        [Len(events') > Len(events) /\ events'[Len(events')] = "export_ok" =>
           Whole(folder')]_<<storeVars, exportVars>>
  BY <1>2, <1>3
<1>5. [][Len(events') > Len(events) /\ events'[Len(events')] = "export_ok" =>
           Whole(folder')]_<<storeVars, exportVars>> => OkMeansWhole
  BY PTL DEF OkMeansWhole, Whole
<1> QED
  BY <1>1, <1>2, <1>4, <1>5, CopyingInvariant, PTL DEF CopyingSpec

=============================================================================
