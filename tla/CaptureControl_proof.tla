------------------------- MODULE CaptureControl_proof -------------------------
(***************************************************************************)
(* Theorems about the control of a recording for every number of tracks    *)
(* and commands and every surprise: what a stop leaves behind; when the    *)
(* operator does not pause, that losses, returns and restarts keep flag    *)
(* and stream together and make only legal moves of the session; and when  *)
(* no device is lost, that the operator's commands are legal moves too.    *)
(***************************************************************************)
EXTENDS CaptureControl, SequenceTheorems, TLAPS

ControlCmd == {"Pause", "Resume", "Rekick", "Stop"}
Places == {"none", "top", "lost", "lost_store", "lost_send", "back", "back_send",
           "watch", "check", "rekick", "wait", "ended"}

OperatorOK ==
  /\ ui \in {"idle", "recording", "paused", "stopping", "stopped"}
  /\ cmd \in {"none", "Pause", "Resume", "Stop"}
  /\ step \in {"none", "flag", "send", "halt", "join", "capture"}
  /\ at \in Tracks /\ failed \in BOOLEAN

ThreadsOK ==
  /\ paused \in [Tracks -> BOOLEAN] /\ queue \in [Tracks -> Seq(ControlCmd)]
  /\ playing \in [Tracks -> BOOLEAN] /\ capture \in [Tracks -> {"none", "up", "ended"}]
  /\ sup \in [Tracks -> Places] /\ devPaused \in [Tracks -> BOOLEAN]

TypeOK == OperatorOK /\ ThreadsOK

\* A command of the operator goes through its own steps.
StepsOfCommand ==
  /\ cmd = "none" <=> step = "none"
  /\ cmd \in {"Pause", "Resume"} <=> step \in {"flag", "send"}
  /\ cmd = "Stop" <=> ui = "stopping"
  /\ cmd # "none" => ui \in {"recording", "paused", "stopping"}

\* Nobody has told track t to stop.
Unstopped(t) ==
  /\ capture[t] # "ended"
  /\ \A k \in 1 .. Len(queue[t]) : queue[t][k] # "Stop"

\* The supervisor of t has ended, and a Stop that waits in its channel is the
\* last command there.
LastWord(t) ==
  /\ sup[t] = "ended"
  /\ \A k \in 1 .. Len(queue[t]) : queue[t][k] = "Stop" => k = Len(queue[t])

\* How far stop_capture has come.
StopReached(t) == ui = "stopped" \/ (ui = "stopping" /\ (t < at \/ (t = at /\ step = "capture")))
StopPassed(t) == ui = "stopped" \/ (ui = "stopping" /\ t < at)

StopInv ==
  \A t \in Tracks :
    /\ IF StopReached(t) THEN LastWord(t) ELSE Unstopped(t)
    /\ StopPassed(t) => capture[t] = "ended"
    /\ capture[t] = "ended" => queue[t] = <<>> /\ ~playing[t]

IInv == TypeOK /\ StepsOfCommand /\ StopInv

\* What the track will do when its channel is empty.
WillPlay(t) ==
  IF queue[t] = <<>> THEN playing[t] ELSE queue[t][Len(queue[t])] \in {"Resume", "Rekick"}

\* The supervisor's own view of the flag while it is the only one to set it.
FlagKnown(t) ==
  /\ paused[t] = devPaused[t]
  /\ sup[t] = "lost_send" => paused[t]
  /\ sup[t] \in {"lost_store", "back_send", "check", "rekick"} => ~paused[t]
  /\ sup[t] \notin {"lost_send", "back_send"} => (WillPlay(t) <=> ~paused[t])

\* While the operator gives no pause or resume command.
FlagInv ==
  /\ cmd \in {"none", "Stop"}
  /\ spent \in [commands : Nat, surprises : Nat]
  /\ IF ui = "idle"
     THEN \A t \in Tracks : /\ capture[t] = "none" /\ sup[t] = "none" /\ queue[t] = <<>>
                            /\ ~paused[t] /\ ~devPaused[t]
     ELSE \A t \in Tracks : StopReached(t) \/ FlagKnown(t)

-----------------------------------------------------------------------------
(***************************************************************************)
(* The channel of a track.                                                 *)
(***************************************************************************)
LEMMA Sent ==
  ASSUME NEW q \in Seq(ControlCmd), NEW c \in ControlCmd
  PROVE  /\ Append(q, c) \in Seq(ControlCmd) /\ Append(q, c) # <<>>
         /\ Len(Append(q, c)) = Len(q) + 1 /\ Len(q) \in Nat
         /\ \A k \in 1 .. Len(q) : Append(q, c)[k] = q[k]
         /\ Append(q, c)[Len(q) + 1] = c
OBVIOUS

LEMMA Taken ==
  ASSUME NEW q \in Seq(ControlCmd), q # <<>>
  PROVE  /\ Tail(q) \in Seq(ControlCmd) /\ Head(q) \in ControlCmd /\ Head(q) = q[1]
         /\ Len(Tail(q)) = Len(q) - 1 /\ Len(q) \in Nat \ {0}
         /\ \A k \in 1 .. Len(q) - 1 : Tail(q)[k] = q[k + 1]
OBVIOUS

LEMMA Emptied ==
  ASSUME NEW q \in Seq(ControlCmd), Len(q) = 1
  PROVE  Tail(q) = <<>>
<1>1. Tail(q) \in Seq(ControlCmd) /\ Len(Tail(q)) = 0
  BY Taken
<1> QED
  BY <1>1, EmptySeq

LEMMA InitHolds == Init => IInv
<1> SUFFICES ASSUME Init PROVE IInv
  OBVIOUS
<1>1. 1 \in Tracks
  BY ControlAssumption DEF Tracks
<1>2. TypeOK
  <2>1. <<>> \in Seq(ControlCmd)
    OBVIOUS
  <2>2. queue \in [Tracks -> Seq(ControlCmd)]
    BY <2>1 DEF Init, All
  <2> QED
    BY <1>1, <2>2 DEF Init, All, TypeOK, OperatorOK, ThreadsOK, Places
<1>3. StepsOfCommand
  BY DEF Init, StepsOfCommand
<1>4. StopInv
  BY DEF Init, All, StopInv, StopReached, StopPassed, Unstopped
<1> QED
  BY <1>2, <1>3, <1>4 DEF IInv

\* A step of a supervisor that sends nothing.
LEMMA SupervisorMoves ==
  ASSUME IInv, NEW t \in Tracks, NEW here \in Places \ {"ended"}, NEW there \in Places,
         Go(t, here, there), UNCHANGED <<operator, queue, stream>>,
         paused' \in [Tracks -> BOOLEAN], devPaused' \in [Tracks -> BOOLEAN]
  PROVE  IInv'
<1>1. TypeOK /\ StepsOfCommand /\ StopInv
  BY DEF IInv
<1>2. /\ sup[t] = here /\ sup' \in [Tracks -> Places]
      /\ \A u \in Tracks \ {t} : sup'[u] = sup[u]
  BY <1>1 DEF TypeOK, ThreadsOK, Go
<1>3. TypeOK' /\ StepsOfCommand'
  BY <1>1, <1>2 DEF TypeOK, OperatorOK, ThreadsOK, StepsOfCommand, operator, stream
<1>4. ASSUME NEW u \in Tracks, StopReached(u)' PROVE LastWord(u)'
  <2>1. StopReached(u) /\ LastWord(u)
    BY <1>1, <1>4 DEF StopInv, StopReached, operator
  <2>2. u # t
    BY <1>2, <2>1 DEF LastWord
  <2> QED
    BY <1>2, <2>1, <2>2 DEF LastWord
<1>5. StopInv'
  BY <1>1, <1>4 DEF StopInv, StopReached, StopPassed, Unstopped, operator, stream
<1> QED
  BY <1>3, <1>5 DEF IInv

\* A command of a supervisor; it has not ended, so no Stop is before it.
LEMMA SupervisorSends ==
  ASSUME IInv, NEW t \in Tracks, NEW here \in Places \ {"ended"}, NEW there \in Places,
         NEW c \in ControlCmd \ {"Stop"},
         Go(t, here, there), Send(t, c), UNCHANGED <<operator, stream, paused, devPaused>>
  PROVE  IInv'
<1>1. TypeOK /\ StepsOfCommand /\ StopInv
  BY DEF IInv
<1>2. /\ sup[t] = here /\ sup' \in [Tracks -> Places]
      /\ \A u \in Tracks \ {t} : sup'[u] = sup[u]
  BY <1>1 DEF TypeOK, ThreadsOK, Go
<1>3. /\ queue' \in [Tracks -> Seq(ControlCmd)] /\ queue'[t] = Append(queue[t], c)
      /\ queue[t] \in Seq(ControlCmd)
      /\ \A u \in Tracks \ {t} : queue'[u] = queue[u]
  BY <1>1, Sent DEF TypeOK, ThreadsOK, Send
<1>4. TypeOK' /\ StepsOfCommand'
  BY <1>1, <1>2, <1>3 DEF TypeOK, OperatorOK, ThreadsOK, StepsOfCommand, operator, stream
<1>5. ~StopReached(t) /\ ~StopPassed(t) /\ Unstopped(t)
  BY <1>1, <1>2 DEF StopInv, StopReached, StopPassed, LastWord
<1>6. Unstopped(t)'
  <2>1. \A k \in 1 .. Len(queue'[t]) : queue'[t][k] # "Stop"
    BY <1>3, <1>5, Sent DEF Unstopped
  <2> QED
    BY <1>5, <2>1 DEF Unstopped, stream
<1>7. ASSUME NEW u \in Tracks \ {t} PROVE IF StopReached(u)' THEN LastWord(u)' ELSE Unstopped(u)'
  BY <1>1, <1>2, <1>3 DEF StopInv, StopReached, LastWord, Unstopped, operator, stream
<1>8. ASSUME NEW u \in Tracks
      PROVE  /\ StopPassed(u)' => capture'[u] = "ended"
             /\ capture'[u] = "ended" => queue'[u] = <<>> /\ ~playing'[u]
  BY <1>1, <1>3, <1>5, Sent DEF StopInv, StopPassed, Unstopped, operator, stream
<1>9. ~StopReached(t)'
  BY <1>5 DEF StopReached, operator
<1>10. StopInv'
  BY <1>6, <1>7, <1>8, <1>9 DEF StopInv
<1> QED
  BY <1>4, <1>10 DEF IInv

LEMMA SupervisorKeeps ==
  ASSUME IInv, NEW t \in Tracks, Supervise(t)
  PROVE  IInv'
<1>t. paused \in [Tracks -> BOOLEAN] /\ devPaused \in [Tracks -> BOOLEAN]
  BY DEF IInv, TypeOK, ThreadsOK
<1>1. CASE Poll(t)
  BY <1>1, <1>t, SupervisorMoves DEF Poll, Places
<1>2. CASE Lost(t)
  BY <1>2, <1>t, SupervisorMoves DEF Lost, Places
<1>3. CASE PauseLost(t)
  BY <1>3, <1>t, SupervisorMoves DEF PauseLost, Places
<1>4. CASE SendPause(t)
  BY <1>4, SupervisorSends DEF SendPause, Places, ControlCmd
<1>5. CASE Back(t)
  BY <1>5, <1>t, SupervisorMoves DEF Back, LiftPause, Places
<1>6. CASE SendResume(t)
  BY <1>6, SupervisorSends DEF SendResume, Places, ControlCmd
<1>7. CASE Watch(t)
  BY <1>7, <1>t, SupervisorMoves DEF Watch, Places
<1>8. CASE Check(t)
  BY <1>8, <1>t, SupervisorMoves DEF Check, Places
<1>9. CASE Rekick(t)
  BY <1>9, SupervisorSends DEF Rekick, Places, ControlCmd
<1>10. CASE Wait(t)
  BY <1>10, <1>t, SupervisorMoves DEF Wait, Places
<1>11. CASE Exit(t)
  BY <1>11, <1>t, SupervisorMoves DEF Exit, Places
<1> QED
  BY <1>1, <1>2, <1>3, <1>4, <1>5, <1>6, <1>7, <1>8, <1>9, <1>10, <1>11 DEF Supervise

LEMMA CommandTaken ==
  ASSUME IInv, NEW t \in Tracks, TakeCommand(t)
  PROVE  IInv'
<1>1. TypeOK /\ StepsOfCommand /\ StopInv
  BY DEF IInv
<1> DEFINE c == Head(queue[t])
<1>2. /\ capture[t] = "up" /\ queue[t] # <<>> /\ queue[t] \in Seq(ControlCmd)
      /\ queue' = [queue EXCEPT ![t] = Tail(queue[t])]
      /\ playing' = [playing EXCEPT ![t] = c \in {"Resume", "Rekick"}]
      /\ capture' = [capture EXCEPT ![t] = IF c = "Stop" THEN "ended" ELSE capture[t]]
      /\ UNCHANGED <<operator, paused, sup, devPaused>>
  BY <1>1 DEF TakeCommand, TypeOK, ThreadsOK, supervisor
<1>3. /\ Tail(queue[t]) \in Seq(ControlCmd) /\ c \in ControlCmd /\ c = queue[t][1]
      /\ Len(Tail(queue[t])) = Len(queue[t]) - 1 /\ Len(queue[t]) \in Nat \ {0}
      /\ \A k \in 1 .. Len(queue[t]) - 1 : Tail(queue[t])[k] = queue[t][k + 1]
  BY <1>2, Taken
<1>4. /\ queue'[t] = Tail(queue[t]) /\ playing'[t] = (c \in {"Resume", "Rekick"})
      /\ capture'[t] = IF c = "Stop" THEN "ended" ELSE "up"
      /\ \A u \in Tracks \ {t} : queue'[u] = queue[u] /\ playing'[u] = playing[u]
                                   /\ capture'[u] = capture[u]
  BY <1>1, <1>2 DEF TypeOK, ThreadsOK
<1> HIDE DEF c
<1>5. ThreadsOK'
  BY <1>1, <1>2, <1>3 DEF TypeOK, ThreadsOK
<1>6. OperatorOK' /\ StepsOfCommand'
  BY <1>1, <1>2 DEF TypeOK, OperatorOK, StepsOfCommand, operator
<1>7. ASSUME NEW u \in Tracks
      PROVE  (StopReached(u)' <=> StopReached(u)) /\ (StopPassed(u)' <=> StopPassed(u))
  BY <1>2 DEF StopReached, StopPassed, operator
<1>8. StopReached(t) => LastWord(t)'
  BY <1>1, <1>2, <1>3, <1>4 DEF StopInv, LastWord
<1>9. ~StopReached(t) => Unstopped(t)'
  BY <1>1, <1>2, <1>3, <1>4 DEF StopInv, Unstopped
<1>10. capture'[t] = "ended" => queue'[t] = <<>> /\ ~playing'[t]
  <2> SUFFICES ASSUME c = "Stop" PROVE queue'[t] = <<>> /\ ~playing'[t]
    BY <1>4
  <2>1. StopReached(t) /\ LastWord(t)
    BY <1>1, <1>3 DEF StopInv, Unstopped
  <2>2. 1 \in 1 .. Len(queue[t]) /\ queue[t][1] = "Stop"
    BY <1>3
  <2>3. Len(queue[t]) = 1
    BY <2>1, <2>2 DEF LastWord
  <2>4. queue'[t] = <<>>
    BY <1>2, <1>4, <2>3, Emptied
  <2> QED
    BY <1>4, <2>4
<1>11. StopPassed(t) => capture'[t] = "ended"
  BY <1>1, <1>2 DEF StopInv
<1>12. ASSUME NEW u \in Tracks, u # t
       PROVE  /\ IF StopReached(u)' THEN LastWord(u)' ELSE Unstopped(u)'
              /\ StopPassed(u)' => capture'[u] = "ended"
              /\ capture'[u] = "ended" => queue'[u] = <<>> /\ ~playing'[u]
  BY <1>1, <1>2, <1>4, <1>7, <1>12 DEF StopInv, LastWord, Unstopped
<1>13. StopInv'
  BY <1>7, <1>8, <1>9, <1>10, <1>11, <1>12 DEF StopInv
<1> QED
  BY <1>5, <1>6, <1>13 DEF IInv, TypeOK

\* StartCapture, the buttons and the first half of a command: no thread is
\* touched but by the start, and no stop has begun.
LEMMA BeforeStop ==
  ASSUME IInv, StartCapture \/ Press \/ SetFlag \/ SendCommand \/ Refresh \/ PressStop
  PROVE  IInv'
<1>1. TypeOK /\ StepsOfCommand /\ StopInv
  BY DEF IInv
<1>2. ui \in {"idle", "recording", "paused"}
  BY <1>1 DEF StepsOfCommand, StartCapture, Press, SetFlag, SendCommand, Refresh, PressStop
<1>3. \A u \in Tracks : ~StopReached(u) /\ ~StopPassed(u) /\ Unstopped(u)
  BY <1>1, <1>2 DEF StopInv, StopReached, StopPassed
<1>4. SUFFICES /\ TypeOK' /\ StepsOfCommand'
               /\ \A u \in Tracks : ~StopReached(u)' /\ ~StopPassed(u)' /\ Unstopped(u)'
  BY DEF IInv, StopInv, Unstopped
<1>5. CASE StartCapture
  <2>1. TypeOK' /\ StepsOfCommand'
    BY <1>1, <1>5 DEF StartCapture, All, TypeOK, OperatorOK, ThreadsOK, StepsOfCommand, Places
  <2> QED
    BY <1>3, <1>5, <2>1 DEF StartCapture, All, StopReached, StopPassed, Unstopped
<1>t. 1 \in Tracks
  BY ControlAssumption DEF Tracks
<1>6. CASE Press
  BY <1>1, <1>2, <1>3, <1>6, <1>t DEF Press, stream, supervisor, TypeOK, OperatorOK,
     ThreadsOK, StepsOfCommand, StopReached, StopPassed, Unstopped
<1>10. CASE Refresh
  BY <1>1, <1>2, <1>3, <1>10 DEF Refresh, stream, supervisor, TypeOK, OperatorOK,
     ThreadsOK, StepsOfCommand, StopReached, StopPassed, Unstopped
<1>7. CASE PressStop
  <2>1. 1 \in Tracks /\ \A u \in Tracks : ~(u < 1)
    BY ControlAssumption DEF Tracks
  <2> QED
    BY <1>1, <1>2, <1>3, <1>7, <2>1 DEF PressStop, stream, supervisor, TypeOK, OperatorOK,
       ThreadsOK, StepsOfCommand, StopReached, StopPassed, Unstopped
<1>8. CASE SetFlag
  BY <1>1, <1>2, <1>3, <1>8 DEF SetFlag, stream, supervisor, TypeOK, OperatorOK, ThreadsOK,
     StepsOfCommand, StopReached, StopPassed, Unstopped
<1>9. CASE SendCommand
  <2>1. cmd \in {"Pause", "Resume"} /\ at \in Tracks /\ queue[at] \in Seq(ControlCmd)
    BY <1>1, <1>9 DEF SendCommand, StepsOfCommand, TypeOK, OperatorOK, ThreadsOK
  <2>2. /\ queue' \in [Tracks -> Seq(ControlCmd)] /\ queue'[at] = Append(queue[at], cmd)
        /\ \A u \in Tracks \ {at} : queue'[u] = queue[u]
    BY <1>1, <1>9, <2>1, Sent DEF SendCommand, Send, TypeOK, ThreadsOK, ControlCmd
  <2>3. \A u \in Tracks : Unstopped(u)'
    BY <1>3, <1>9, <2>1, <2>2, Sent DEF SendCommand, stream, Unstopped, ControlCmd
  <2>4. at' \in Tracks
    BY <1>9, <2>1, ControlAssumption DEF SendCommand, MoreTracks, Tracks
  <2>5. TypeOK' /\ StepsOfCommand'
    BY <1>1, <1>9, <2>1, <2>2, <2>4 DEF SendCommand, stream, supervisor, TypeOK, OperatorOK,
       ThreadsOK, StepsOfCommand
  <2> QED
    BY <1>2, <1>9, <2>1, <2>3, <2>5 DEF SendCommand, StopReached, StopPassed
<1> QED
  BY <1>5, <1>6, <1>7, <1>8, <1>9, <1>10

LEMMA StoppingKeeps ==
  ASSUME IInv, Stopping
  PROVE  IInv'
<1>1. TypeOK /\ StepsOfCommand /\ StopInv
  BY DEF IInv
<1>2. at \in Tracks /\ cmd = "Stop" /\ ui = "stopping"
  BY <1>1 DEF TypeOK, OperatorOK, StepsOfCommand, Stopping, HaltSupervisor, SendStop,
     SupervisorJoined, JoinCapture
<1>3. \A u \in Tracks : (u < at => StopReached(u) /\ StopPassed(u))
        /\ (at <= u => ~StopPassed(u)) /\ (at < u => ~StopReached(u))
  BY <1>2, ControlAssumption DEF StopReached, StopPassed, Tracks
<1>4. CASE HaltSupervisor
  BY <1>1, <1>2, <1>4 DEF HaltSupervisor, stream, supervisor, IInv, TypeOK, OperatorOK, ThreadsOK,
     StepsOfCommand, StopInv, StopReached, StopPassed, LastWord, Unstopped
<1>5. CASE SendStop
  <2> SUFFICES ASSUME NEW a \in Tracks, a = at PROVE IInv'
    BY <1>2
  <2>1. sup[a] = "ended" /\ ~StopReached(a) /\ Unstopped(a) /\ queue[a] \in Seq(ControlCmd)
    BY <1>1, <1>2, <1>5, ControlAssumption
    DEF SendStop, SupervisorJoined, StopInv, StopReached, TypeOK, ThreadsOK, Tracks
  <2>2. /\ queue' \in [Tracks -> Seq(ControlCmd)] /\ queue'[a] = Append(queue[a], "Stop")
        /\ \A u \in Tracks \ {a} : queue'[u] = queue[u]
    BY <1>1, <1>2, <1>5, Sent DEF SendStop, Send, TypeOK, ThreadsOK, ControlCmd
  <2>3. LastWord(a)'
    BY <1>5, <2>1, <2>2, Sent DEF SendStop, supervisor, LastWord, Unstopped, ControlCmd
  <2>4. TypeOK' /\ StepsOfCommand'
    BY <1>1, <1>2, <1>5, <2>2 DEF SendStop, SupervisorJoined, stream, supervisor, TypeOK,
       OperatorOK, ThreadsOK, StepsOfCommand
  <2>5. StopReached(a)' /\ ~StopPassed(a)' /\ capture'[a] # "ended"
    BY <1>2, <1>5, <2>1, ControlAssumption
    DEF SendStop, StopReached, StopPassed, stream, Unstopped, Tracks
  <2>6. ASSUME NEW u \in Tracks, u # a
        PROVE  /\ IF StopReached(u)' THEN LastWord(u)' ELSE Unstopped(u)'
               /\ StopPassed(u)' => capture'[u] = "ended"
               /\ capture'[u] = "ended" => queue'[u] = <<>> /\ ~playing'[u]
    <3>1. (StopReached(u)' <=> StopReached(u)) /\ (StopPassed(u)' <=> StopPassed(u))
      BY <1>2, <1>5, <2>6, ControlAssumption DEF SendStop, StopReached, StopPassed, Tracks
    <3> QED
      BY <1>1, <1>5, <2>2, <2>6, <3>1
      DEF SendStop, StopInv, stream, supervisor, LastWord, Unstopped
  <2> QED
    BY <2>3, <2>4, <2>5, <2>6 DEF IInv, StopInv
<1>6. CASE JoinCapture
  <2>1. capture[at] = "ended" /\ StopReached(at)
    BY <1>1, <1>2, <1>6 DEF JoinCapture, StopReached
  <2>2. TypeOK' /\ StepsOfCommand'
    <3>1. at' \in Tracks
      BY <1>2, <1>6, ControlAssumption DEF JoinCapture, MoreTracks, Tracks
    <3> QED
      BY <1>1, <1>2, <1>6, <3>1 DEF JoinCapture, stream, supervisor, TypeOK, OperatorOK,
         ThreadsOK, StepsOfCommand
  <2>3. ASSUME NEW u \in Tracks
        PROVE  (StopReached(u)' <=> StopReached(u)) /\ (StopPassed(u)' => StopPassed(u) \/ u = at)
    BY <1>2, <1>6, <2>1, ControlAssumption
    DEF JoinCapture, MoreTracks, StopReached, StopPassed, Tracks
  <2>4. StopInv'
    BY <1>1, <1>6, <2>1, <2>3 DEF JoinCapture, stream, supervisor, StopInv, LastWord, Unstopped
  <2> QED
    BY <2>2, <2>4 DEF IInv
<1> QED
  BY <1>4, <1>5, <1>6 DEF Stopping

LEMMA StepKeeps == IInv /\ [Next]_vars => IInv'
<1> SUFFICES ASSUME IInv, [Next]_vars PROVE IInv'
  OBVIOUS
<1>1. CASE Operator
  BY <1>1, BeforeStop, StoppingKeeps DEF Operator
<1>2. CASE \E t \in Tracks : Supervise(t)
  BY <1>2, SupervisorKeeps
<1>3. CASE \E t \in Tracks : TakeCommand(t)
  BY <1>3, CommandTaken
<1>4. CASE \E t \in Tracks : Callback(t) \/ World(t)
  BY <1>4 DEF Callback, World, Unplug, Replug, Stall, Age, operator, stream, supervisor, IInv,
     TypeOK, OperatorOK, ThreadsOK, StepsOfCommand, StopInv, StopReached, StopPassed, LastWord,
     Unstopped
<1>5. CASE UNCHANGED vars
  BY <1>5 DEF vars, operator, stream, supervisor, IInv, TypeOK, OperatorOK, ThreadsOK,
     StepsOfCommand, StopInv, StopReached, StopPassed, LastWord, Unstopped
<1> QED
  BY <1>1, <1>2, <1>3, <1>4, <1>5 DEF Next

(***************************************************************************)
(* CaptureSession::stop joins the supervisor before it sends Stop: nothing *)
(* is behind a Stop in a channel, and a track that was stopped has neither *)
(* thread, stream nor command left, for any number of tracks, however      *)
(* supervisors, devices and the operator's earlier commands interleave.    *)
(***************************************************************************)
THEOREM StopLeavesNothing == Spec => []StopIsLast
<1>1. IInv => StopIsLast
  <2> SUFFICES ASSUME IInv, NEW t \in Tracks
               PROVE  /\ \A k \in 1 .. Len(queue[t]) : queue[t][k] = "Stop" => k = Len(queue[t])
                      /\ capture[t] = "ended" => queue[t] = <<>> /\ ~playing[t] /\ sup[t] = "ended"
                      /\ ui = "stopped" => capture[t] = "ended"
    BY DEF StopIsLast
  <2>1. StopInv
    BY DEF IInv
  <2> QED
    BY <2>1 DEF StopInv, StopReached, StopPassed, LastWord, Unstopped
<1> QED
  BY <1>1, InitHolds, StepKeeps, PTL DEF Spec

-----------------------------------------------------------------------------
(***************************************************************************)
(* Flag and stream.  A pause or resume command of the operator sets the    *)
(* flag and sends its command in two steps, which a supervisor can come    *)
(* between; what follows is about recordings without such commands.        *)
(***************************************************************************)
NoOperatorPause == MaxCommands = 0

LEMMA FlagInitHolds == Init => FlagInv
BY DEF Init, All, FlagInv

\* What a track will do does not depend on the other tracks.
LEMMA PlaysAlike ==
  ASSUME NEW t \in Tracks, queue'[t] = queue[t], playing'[t] = playing[t]
  PROVE  WillPlay(t)' <=> WillPlay(t)
BY DEF WillPlay

LEMMA FlagAlike ==
  ASSUME NEW t \in Tracks, FlagKnown(t), queue'[t] = queue[t], playing'[t] = playing[t],
         paused'[t] = paused[t], devPaused'[t] = devPaused[t], sup'[t] = sup[t]
  PROVE  FlagKnown(t)'
BY PlaysAlike DEF FlagKnown

\* A supervisor that sends nothing.
LEMMA FlagOnMove ==
  ASSUME IInv, NEW t \in Tracks, NEW here \in Places, NEW there \in Places,
         FlagKnown(t), Go(t, here, there), UNCHANGED <<queue, stream>>,
         paused'[t] = devPaused'[t],
         there = "lost_send" => paused'[t],
         there \in {"lost_store", "back_send", "check", "rekick"} => ~paused'[t],
         there \notin {"lost_send", "back_send"} =>
           here \notin {"lost_send", "back_send"} /\ (paused'[t] <=> paused[t])
  PROVE  FlagKnown(t)'
<1>1. sup[t] = here /\ sup'[t] = there
  BY DEF IInv, TypeOK, ThreadsOK, Go
<1>2. WillPlay(t)' <=> WillPlay(t)
  BY PlaysAlike DEF stream
<1> QED
  BY <1>1, <1>2 DEF FlagKnown

\* A supervisor that sends: it decides what the track will do.
LEMMA FlagOnSend ==
  ASSUME IInv, NEW t \in Tracks, NEW here \in Places, NEW there \in {"watch", "wait"},
         NEW c \in ControlCmd, FlagKnown(t), Go(t, here, there), Send(t, c),
         UNCHANGED <<paused, devPaused>>, paused[t] <=> c \notin {"Resume", "Rekick"}
  PROVE  FlagKnown(t)'
<1>1. sup'[t] = there /\ queue'[t] = Append(queue[t], c) /\ queue[t] \in Seq(ControlCmd)
  BY DEF IInv, TypeOK, ThreadsOK, Go, Send
<1>2. WillPlay(t)' <=> c \in {"Resume", "Rekick"}
  BY <1>1, Sent DEF WillPlay
<1> QED
  BY <1>1, <1>2 DEF FlagKnown

LEMMA SupervisorKeepsFlag ==
  ASSUME IInv, FlagInv, NEW t \in Tracks, Supervise(t)
  PROVE  FlagInv'
<1>1. TypeOK /\ StepsOfCommand /\ StopInv
  BY DEF IInv
<1>2. /\ UNCHANGED <<operator, stream, spent>> /\ sup[t] \notin {"none", "ended"}
      /\ \A u \in Tracks \ {t} : /\ queue'[u] = queue[u] /\ paused'[u] = paused[u]
                                 /\ devPaused'[u] = devPaused[u] /\ sup'[u] = sup[u]
  BY <1>1 DEF TypeOK, ThreadsOK, Supervise, Poll, Lost, PauseLost, SendPause, Back, LiftPause,
     SendResume, Watch, Check, Rekick, Wait, Exit, Go, Send
<1>3. ui # "idle" /\ FlagKnown(t)
  BY <1>1, <1>2 DEF FlagInv, StopInv, LastWord
<1>4. ASSUME NEW u \in Tracks \ {t} PROVE StopReached(u)' \/ FlagKnown(u)'
  BY <1>2, <1>3, FlagAlike DEF FlagInv, StopReached, operator, stream
<1>5. SUFFICES FlagKnown(t)'
  BY <1>2, <1>3, <1>4 DEF FlagInv, operator
<1>6. paused[t] \in BOOLEAN /\ devPaused[t] \in BOOLEAN /\ paused[t] = devPaused[t]
  BY <1>1, <1>3 DEF TypeOK, ThreadsOK, FlagKnown
<1>7. CASE Poll(t)
  BY <1>3, <1>6, <1>7, FlagOnMove DEF Poll, Places
<1>8. CASE Lost(t)
  BY <1>3, <1>6, <1>8, FlagOnMove DEF Lost, Places
<1>9. CASE PauseLost(t)
  <2>1. paused'[t] = TRUE /\ devPaused'[t] = TRUE
    BY <1>1, <1>9 DEF PauseLost, TypeOK, ThreadsOK
  <2> QED
    BY <1>3, <1>9, <2>1, FlagOnMove DEF PauseLost, Places
<1>10. CASE SendPause(t)
  <2>1. paused[t]
    BY <1>3, <1>10 DEF SendPause, Go, FlagKnown
  <2> QED
    BY <1>3, <1>10, <2>1, FlagOnSend DEF SendPause, Places, ControlCmd
<1>11. CASE Back(t)
  <2>1. CASE ResumesOnBack(t)
    <3>1. paused'[t] = FALSE /\ devPaused'[t] = FALSE
      BY <1>1, <1>11, <2>1 DEF Back, LiftPause, TypeOK, ThreadsOK
    <3> QED
      BY <1>3, <1>11, <2>1, <3>1, FlagOnMove DEF Back, Places
  <2>2. CASE ~ResumesOnBack(t)
    BY <1>3, <1>6, <1>11, <2>2, FlagOnMove DEF Back, Places
  <2> QED
    BY <2>1, <2>2
<1>12. CASE SendResume(t)
  <2>1. ~paused[t]
    BY <1>3, <1>12 DEF SendResume, Go, FlagKnown
  <2> QED
    BY <1>3, <1>12, <2>1, FlagOnSend DEF SendResume, Places, ControlCmd
<1>13. CASE Watch(t)
  BY <1>3, <1>6, <1>13, FlagOnMove DEF Watch, Watched, Places
<1>14. CASE Check(t)
  <2>1. ~paused[t]
    BY <1>3, <1>14 DEF Check, Go, FlagKnown
  <2> QED
    BY <1>3, <1>6, <1>14, <2>1, FlagOnMove DEF Check, Places
<1>15. CASE Rekick(t)
  <2>1. ~paused[t]
    BY <1>3, <1>15 DEF Rekick, Go, FlagKnown
  <2> QED
    BY <1>3, <1>15, <2>1, FlagOnSend DEF Rekick, Places, ControlCmd
<1>16. CASE Wait(t)
  BY <1>3, <1>6, <1>16, FlagOnMove DEF Wait, Places
<1>17. CASE Exit(t)
  BY <1>3, <1>6, <1>17, FlagOnMove DEF Exit, Places
<1> QED
  BY <1>7, <1>8, <1>9, <1>10, <1>11, <1>12, <1>13, <1>14, <1>15, <1>16, <1>17 DEF Supervise

LEMMA CommandTakenKeepsFlag ==
  ASSUME IInv, FlagInv, NEW t \in Tracks, TakeCommand(t)
  PROVE  FlagInv'
<1>1. TypeOK /\ StepsOfCommand /\ StopInv
  BY DEF IInv
<1> DEFINE c == Head(queue[t])
<1>2. /\ capture[t] = "up" /\ queue[t] # <<>> /\ queue[t] \in Seq(ControlCmd)
      /\ queue'[t] = Tail(queue[t]) /\ playing'[t] = (c \in {"Resume", "Rekick"})
      /\ UNCHANGED <<operator, paused, sup, devPaused, spent>>
      /\ \A u \in Tracks \ {t} : queue'[u] = queue[u] /\ playing'[u] = playing[u]
  BY <1>1 DEF TakeCommand, TypeOK, ThreadsOK, supervisor
<1>3. ui # "idle"
  BY <1>2 DEF FlagInv
<1>4. ASSUME NEW u \in Tracks \ {t} PROVE StopReached(u)' \/ FlagKnown(u)'
  BY <1>2, <1>3, FlagAlike DEF FlagInv, StopReached, operator
<1>5. WillPlay(t)' <=> WillPlay(t)
  <2>1. /\ Tail(queue[t]) \in Seq(ControlCmd) /\ c = queue[t][1]
        /\ Len(Tail(queue[t])) = Len(queue[t]) - 1 /\ Len(queue[t]) \in Nat \ {0}
        /\ \A k \in 1 .. Len(queue[t]) - 1 : Tail(queue[t])[k] = queue[t][k + 1]
    BY <1>2, Taken
  <2>2. CASE Len(queue[t]) = 1
    <3>1. queue'[t] = <<>>
      BY <1>2, <2>2, Emptied
    <3> QED
      BY <1>2, <2>1, <2>2, <3>1 DEF WillPlay
  <2>3. CASE Len(queue[t]) # 1
    <3>1. queue'[t] # <<>> /\ queue'[t][Len(queue'[t])] = queue[t][Len(queue[t])]
      <4>1. Len(queue[t]) \in Nat \ {0} /\ Len(queue'[t]) = Len(queue[t]) - 1
        BY <1>2, <2>1
      <4>2. /\ Len(queue'[t]) \in 1 .. Len(queue[t]) - 1
            /\ Len(queue'[t]) + 1 = Len(queue[t])
        <5>1. \A n \in Nat \ {0, 1} : n - 1 \in 1 .. n - 1 /\ n - 1 + 1 = n
          OBVIOUS
        <5>2. Len(queue[t]) \in Nat \ {0, 1}
          BY <2>3, <4>1
        <5> QED
          BY <4>1, <5>1, <5>2
      <4>3. queue'[t] # <<>>
        BY <4>2
      <4> QED
        BY <1>2, <2>1, <4>2, <4>3
    <3> QED
      BY <1>2, <2>1, <3>1 DEF WillPlay
  <2> QED
    BY <2>2, <2>3
<1>6. StopReached(t)' \/ FlagKnown(t)'
  BY <1>2, <1>3, <1>5 DEF FlagInv, FlagKnown, StopReached, operator
<1> QED
  BY <1>2, <1>3, <1>4, <1>6 DEF FlagInv, operator

LEMMA OperatorKeepsFlag ==
  ASSUME NoOperatorPause, IInv, FlagInv, Operator
  PROVE  FlagInv'
<1>1. TypeOK /\ StepsOfCommand /\ StopInv /\ at \in Tracks
  BY DEF IInv, TypeOK, OperatorOK
<1>2. ~Press /\ ~SetFlag /\ ~SendCommand
  BY <1>1 DEF NoOperatorPause, FlagInv, StepsOfCommand, Press, SetFlag, SendCommand
<1>3. CASE StartCapture
  <2>1. ASSUME NEW t \in Tracks PROVE FlagKnown(t)'
    BY <1>1, <1>3 DEF StartCapture, All, FlagInv, FlagKnown, WillPlay, TypeOK, ThreadsOK
  <2> QED
    BY <1>3, <2>1 DEF StartCapture, FlagInv
<1>4. ASSUME Refresh \/ PressStop \/ Stopping
      PROVE  ui # "idle" /\ ui' # "idle" /\ cmd' \in {"none", "Stop"}
             /\ UNCHANGED <<paused, stream, supervisor, spent>>
             /\ \A u \in Tracks : /\ StopReached(u) => StopReached(u)'
                                  /\ queue'[u] = queue[u] \/ StopReached(u)'
  <2>1. CASE Refresh
    BY <2>1 DEF Refresh, FlagInv, StopReached
  <2>2. CASE PressStop
    BY <2>2 DEF PressStop, FlagInv, StopReached
  <2>3. CASE Stopping
    <3>1. ui = "stopping"
      BY <1>1, <2>3 DEF Stopping, HaltSupervisor, SendStop, SupervisorJoined, JoinCapture,
         StepsOfCommand, FlagInv
    <3>2. CASE HaltSupervisor
      BY <3>1, <3>2 DEF HaltSupervisor, StopReached, FlagInv
    <3>3. CASE SendStop
      BY <1>1, <3>1, <3>3 DEF SendStop, SupervisorJoined, Send, StopReached, FlagInv, TypeOK,
         ThreadsOK
    <3>4. CASE JoinCapture
      BY <1>1, <3>1, <3>4, ControlAssumption
      DEF JoinCapture, MoreTracks, StopReached, FlagInv, Tracks
    <3> QED
      BY <2>3, <3>2, <3>3, <3>4 DEF Stopping
  <2> QED
    BY <1>4, <2>1, <2>2, <2>3
<1>5. CASE Refresh \/ PressStop \/ Stopping
  <2>1. ASSUME NEW t \in Tracks PROVE StopReached(t)' \/ FlagKnown(t)'
    BY <1>4, <1>5, FlagAlike DEF FlagInv, stream, supervisor
  <2> QED
    BY <1>4, <1>5, <2>1 DEF FlagInv
<1> QED
  BY <1>2, <1>3, <1>5 DEF Operator

LEMMA FlagStepKeeps == NoOperatorPause /\ IInv /\ FlagInv /\ [Next]_vars => FlagInv'
<1> SUFFICES ASSUME NoOperatorPause, IInv, FlagInv, [Next]_vars PROVE FlagInv'
  OBVIOUS
<1>1. CASE Operator
  BY <1>1, OperatorKeepsFlag
<1>2. CASE \E t \in Tracks : Supervise(t)
  BY <1>2, SupervisorKeepsFlag
<1>3. CASE \E t \in Tracks : TakeCommand(t)
  BY <1>3, CommandTakenKeepsFlag
<1>4. ASSUME (\E t \in Tracks : Callback(t) \/ World(t)) \/ UNCHANGED vars PROVE FlagInv'
  <2>1. UNCHANGED <<operator, paused, queue, stream, supervisor>>
    BY <1>4 DEF Callback, World, Unplug, Replug, Stall, Age, vars
  <2>2. spent' \in [commands : Nat, surprises : Nat]
    BY <1>4 DEF Callback, World, Unplug, Replug, Stall, Age, Surprise, vars, FlagInv
  <2> QED
    BY <2>1, <2>2
    DEF FlagInv, FlagKnown, WillPlay, StopReached, operator, stream, supervisor
<1> QED
  BY <1>1, <1>2, <1>3, <1>4 DEF Next

(***************************************************************************)
(* The flag the status is read from and the stream agree whenever nothing  *)
(* is under way, for any number of tracks and any sequence of losses,      *)
(* returns, stalls and restarts, as long as the operator does not pause:   *)
(* the supervisor sets the flag and sends its command in two steps, and    *)
(* nobody comes between them.                                              *)
(***************************************************************************)
THEOREM SupervisorKeepsAgreement == NoOperatorPause => (Spec => []FlagMatchesStream)
<1>1. IInv /\ FlagInv => FlagMatchesStream
  <2> SUFFICES ASSUME IInv, FlagInv, NEW t \in Tracks, Settled(t), capture[t] = "up"
               PROVE  playing[t] <=> ~paused[t]
    BY DEF FlagMatchesStream
  <2>1. ui # "idle"
    BY DEF FlagInv
  <2>2. ~StopReached(t)
    BY DEF Settled, IInv, StopInv, LastWord
  <2>3. FlagKnown(t)
    BY <2>1, <2>2 DEF FlagInv
  <2> QED
    BY <2>3 DEF FlagKnown, WillPlay, Settled
<1> SUFFICES ASSUME NoOperatorPause PROVE Spec => []FlagMatchesStream
  OBVIOUS
<1>2. IInv /\ FlagInv /\ [Next]_vars => IInv' /\ FlagInv'
  BY StepKeeps, FlagStepKeeps
<1> QED
  BY <1>1, <1>2, InitHolds, FlagInitHolds, PTL DEF Spec

\* What the threads do to the session, step by step.
LEMMA StepIsLegal ==
  ASSUME NoOperatorPause, IInv, FlagInv, [Next]_vars
  PROVE  [Machine!Next]_Machine!session
<1>t. 1 \in Tracks
  BY ControlAssumption DEF Tracks
<1>1. /\ TypeOK /\ StepsOfCommand /\ StopInv
      /\ ui \in {"idle", "recording", "paused", "stopping", "stopped"}
  BY DEF IInv, TypeOK, OperatorOK
<1>2. ui = "recording" \/ ui = "paused" => FlagKnown(1)
  BY <1>t DEF FlagInv, StopReached
<1>3. CASE StartCapture
  BY <1>t, <1>3 DEF StartCapture, FlagInv, Machine!Next, Machine!Start, Machine!Move
<1>4. CASE Refresh
  BY <1>4 DEF Refresh, supervisor, Machine!session
<1>5. CASE PressStop
  BY <1>5 DEF PressStop, Machine!Next, Machine!RequestStop, Machine!Move
<1>6. CASE HaltSupervisor \/ SendStop
  BY <1>6 DEF HaltSupervisor, SendStop, supervisor, Machine!session
<1>7. CASE JoinCapture
  <2>1. ui = "stopping"
    BY <1>1, <1>7 DEF JoinCapture, StepsOfCommand, FlagInv
  <2>2. CASE MoreTracks
    BY <1>7, <2>1, <2>2 DEF JoinCapture, Machine!session
  <2>3. CASE ~MoreTracks
    BY <1>7, <2>1, <2>3
    DEF JoinCapture, Machine!Next, Machine!Finalized, Machine!Failed, Machine!Move
  <2> QED
    BY <2>2, <2>3
<1>8. ASSUME NEW t \in Tracks, PauseLost(t) PROVE [Machine!Next]_Machine!session
  <2>1. UNCHANGED operator /\ sup[t] = "lost_store"
        /\ paused'[1] = (IF t = 1 THEN TRUE ELSE paused[1])
        /\ devPaused'[1] = (IF t = 1 THEN TRUE ELSE devPaused[1])
    BY <1>t, <1>1, <1>8 DEF PauseLost, Go, TypeOK, ThreadsOK
  <2>2. CASE t = 1 /\ ui \in {"recording", "paused"}
    BY <1>2, <2>1, <2>2
    DEF FlagKnown, operator, Machine!Next, Machine!DeviceLost, Machine!Move
  <2>3. CASE t # 1 \/ ui \notin {"recording", "paused"}
    BY <1>1, <2>1, <2>3 DEF operator, Machine!session
  <2> QED
    BY <2>2, <2>3
<1>9. ASSUME NEW t \in Tracks, Back(t) PROVE [Machine!Next]_Machine!session
  <2>1. CASE ResumesOnBack(t)
    <3>1. UNCHANGED operator /\ devPaused[t]
          /\ paused'[1] = (IF t = 1 THEN FALSE ELSE paused[1])
          /\ devPaused'[1] = (IF t = 1 THEN FALSE ELSE devPaused[1])
      BY <1>t, <1>1, <1>9, <2>1 DEF Back, LiftPause, ResumesOnBack, TypeOK, ThreadsOK
    <3>2. CASE t = 1 /\ ui \in {"recording", "paused"}
      BY <1>2, <3>1, <3>2
      DEF FlagKnown, operator, Machine!Next, Machine!DeviceBack, Machine!Move
    <3>3. CASE t # 1 \/ ui \notin {"recording", "paused"}
      BY <1>1, <3>1, <3>3 DEF operator, Machine!session
    <3> QED
      BY <3>2, <3>3
  <2>2. CASE ~ResumesOnBack(t)
    BY <1>9, <2>2 DEF Back, operator, Machine!session
  <2> QED
    BY <2>1, <2>2
<1>10. ASSUME NEW t \in Tracks, Supervise(t), ~PauseLost(t), ~Back(t)
       PROVE  UNCHANGED <<operator, paused, devPaused>>
  BY <1>10 DEF Supervise, Poll, Lost, SendPause, SendResume, Watch, Check, Rekick, Wait, Exit
<1>11. ASSUME (\E t \in Tracks : TakeCommand(t) \/ Callback(t) \/ World(t)) \/ UNCHANGED vars
       PROVE  UNCHANGED <<operator, paused, devPaused>>
  BY <1>11 DEF TakeCommand, Callback, World, Unplug, Replug, Stall, Age, vars, supervisor
<1>12. ASSUME UNCHANGED <<operator, paused, devPaused>> PROVE UNCHANGED Machine!session
  BY <1>12 DEF operator, Machine!session
<1>13. ~Press /\ ~SetFlag /\ ~SendCommand
  BY <1>1 DEF NoOperatorPause, FlagInv, StepsOfCommand, Press, SetFlag, SendCommand
<1> QED
  BY <1>3, <1>4, <1>5, <1>6, <1>7, <1>8, <1>9, <1>10, <1>11, <1>12, <1>13
  DEF Next, Operator, Stopping

(***************************************************************************)
(* Every step of the threads is a legal event of the session automaton, or *)
(* none: losing and regaining a device are DeviceLost and DeviceBack and   *)
(* happen only in the states session.rs allows them in, and a stop ends in *)
(* Stopped or Error, whatever the other tracks do.                         *)
(***************************************************************************)
THEOREM ControlIsLegal == NoOperatorPause => (Spec => ImplementsMachine)
<1>1. Init => Machine!Init
  BY DEF Init, Machine!Init
<1>2. NoOperatorPause /\ IInv /\ FlagInv /\ [Next]_vars => [Machine!Next]_Machine!session
  BY StepIsLegal
<1> SUFFICES ASSUME NoOperatorPause PROVE Spec => ImplementsMachine
  OBVIOUS
<1>3. IInv /\ FlagInv /\ [Next]_vars => IInv' /\ FlagInv'
  BY StepKeeps, FlagStepKeeps
<1> QED
  BY <1>1, <1>2, <1>3, InitHolds, FlagInitHolds, PTL DEF Spec, ImplementsMachine, Machine!Spec

-----------------------------------------------------------------------------
(***************************************************************************)
(* The other half: an operator who pauses and resumes while the devices    *)
(* stay plugged in.                                                        *)
(***************************************************************************)
NoLoss == "lost" \notin Surprises

\* The device branch of the supervisor is never entered, and nothing is paused
\* before the recording starts.
Plugged ==
  /\ device \in [Tracks -> BOOLEAN] /\ seen \in [Tracks -> BOOLEAN]
  /\ \A t \in Tracks :
       /\ ~devPaused[t]
       /\ sup[t] \notin {"lost", "lost_store", "lost_send", "back", "back_send"}
       /\ IF ui = "idle" THEN sup[t] = "none" /\ ~paused[t]
                         ELSE device[t] /\ seen[t]

LEMMA PluggedAtFirst == Init => Plugged
BY DEF Init, All, Plugged

LEMMA StaysPlugged == NoLoss /\ IInv /\ Plugged /\ [Next]_vars => Plugged'
<1> SUFFICES ASSUME NoLoss, IInv, Plugged, [Next]_vars PROVE Plugged'
  OBVIOUS
<1>1. TypeOK /\ StepsOfCommand /\ at \in Tracks
  BY DEF IInv, TypeOK, OperatorOK
<1>2. CASE StartCapture
  BY <1>1, <1>2 DEF StartCapture, All, world, Plugged
<1>3. CASE SetFlag
  BY <1>1, <1>3 DEF SetFlag, StepsOfCommand, supervisor, world, Plugged
<1>4. ASSUME Press \/ SendCommand \/ Refresh \/ PressStop \/ Stopping PROVE Plugged'
  <2>1. UNCHANGED <<paused, sup, seen, devPaused, device>>
    BY <1>4 DEF Press, SendCommand, Refresh, PressStop, Stopping, HaltSupervisor, SendStop,
       JoinCapture, supervisor, world
  <2>2. ui # "idle"
    BY <1>1, <1>4 DEF Press, SendCommand, Refresh, PressStop, Stopping, HaltSupervisor,
       SendStop, SupervisorJoined, JoinCapture, StepsOfCommand, OperatorOK, TypeOK
  <2>3. ui' # "idle"
    BY <1>4, <2>2 DEF Press, SendCommand, Refresh, PressStop, Stopping, HaltSupervisor,
       SendStop, JoinCapture
  <2> QED
    BY <2>1, <2>2, <2>3 DEF Plugged
<1>5. ASSUME NEW t \in Tracks, Supervise(t) PROVE Plugged'
  <2>1. sup[t] # "none" /\ UNCHANGED <<ui, device>>
    BY <1>5 DEF Supervise, Poll, Lost, PauseLost, SendPause, Back, SendResume, Watch, Check,
       Rekick, Wait, Exit, Go, operator, world
  <2>2. device[t] /\ seen[t] /\ ui # "idle"
    BY <2>1 DEF Plugged
  <2>3. CASE Poll(t)
    BY <1>1, <2>1, <2>2, <2>3 DEF Poll, Go, Plugged, TypeOK, ThreadsOK
  <2>4. CASE Watch(t) \/ Check(t) \/ Rekick(t) \/ Wait(t) \/ Exit(t)
    BY <1>1, <2>1, <2>2, <2>4
    DEF Watch, Check, Rekick, Wait, Exit, Go, Plugged, TypeOK, ThreadsOK
  <2>5. ~Lost(t) /\ ~PauseLost(t) /\ ~SendPause(t) /\ ~Back(t) /\ ~SendResume(t)
    BY DEF Plugged, Lost, PauseLost, SendPause, Back, SendResume, Go
  <2> QED
    BY <1>5, <2>3, <2>4, <2>5 DEF Supervise
<1>6. ASSUME NEW t \in Tracks, Replug(t) PROVE Plugged'
  BY <1>6 DEF Replug, operator, supervisor, Plugged
<1>7. ASSUME (\E t \in Tracks : TakeCommand(t) \/ Callback(t) \/ (World(t) /\ ~Replug(t)))
               \/ UNCHANGED vars
      PROVE  Plugged'
  <2>1. UNCHANGED <<operator, paused, supervisor, device>>
    BY <1>7 DEF TakeCommand, Callback, World, Unplug, Surprise, NoLoss, Stall, Age, vars, world
  <2> QED
    BY <2>1 DEF Plugged, operator, supervisor
<1> QED
  BY <1>2, <1>3, <1>4, <1>5, <1>6, <1>7 DEF Next, Operator

LEMMA PressIsLegal ==
  ASSUME NoLoss, IInv, Plugged, [Next]_vars
  PROVE  [Machine!Next]_Machine!session
<1>t. 1 \in Tracks
  BY ControlAssumption DEF Tracks
<1>1. /\ TypeOK /\ StepsOfCommand /\ at \in Tracks /\ ~devPaused[1]
      /\ ui \in {"idle", "recording", "paused", "stopping", "stopped"}
  BY <1>t DEF IInv, TypeOK, OperatorOK, Plugged
<1>2. CASE StartCapture
  BY <1>t, <1>2 DEF StartCapture, All, Plugged, Machine!Next, Machine!Start, Machine!Move
<1>3. CASE SetFlag
  <2>1. ui \in {"recording", "paused"}
    BY <1>1, <1>3 DEF SetFlag, StepsOfCommand
  <2>2. UNCHANGED <<ui, failed, devPaused>>
        /\ paused'[1] = (IF at = 1 THEN cmd = "Pause" ELSE paused[1])
    BY <1>t, <1>1, <1>3 DEF SetFlag, supervisor, TypeOK, ThreadsOK
  <2>3. CASE paused'[1] = paused[1]
    BY <2>2, <2>3 DEF Machine!session
  <2>4. CASE ~paused[1] /\ paused'[1]
    BY <1>1, <2>1, <2>2, <2>4 DEF Machine!Next, Machine!Pause, Machine!Move
  <2>5. CASE paused[1] /\ ~paused'[1]
    BY <1>1, <2>1, <2>2, <2>5 DEF Machine!Next, Machine!Resume, Machine!Move
  <2>6. paused[1] \in BOOLEAN /\ paused'[1] \in BOOLEAN
    BY <1>t, <1>1, <2>2 DEF TypeOK, ThreadsOK
  <2> QED
    BY <2>3, <2>4, <2>5, <2>6
<1>4. CASE SendCommand
  <2>1. ui \in {"recording", "paused"}
    BY <1>1, <1>4 DEF SendCommand, StepsOfCommand
  <2>2. ui' \in {"recording", "paused"} /\ UNCHANGED <<paused, devPaused>>
    BY <1>4, <2>1 DEF SendCommand, supervisor
  <2> QED
    BY <2>1, <2>2 DEF Machine!session
<1>5. CASE Refresh
  BY <1>5 DEF Refresh, supervisor, Machine!session
<1>6. CASE PressStop
  BY <1>6 DEF PressStop, Machine!Next, Machine!RequestStop, Machine!Move
<1>7. CASE JoinCapture
  <2>1. ui = "stopping"
    BY <1>1, <1>7 DEF JoinCapture, StepsOfCommand, TypeOK, OperatorOK
  <2>2. CASE MoreTracks
    BY <1>7, <2>1, <2>2 DEF JoinCapture, Machine!session
  <2>3. CASE ~MoreTracks
    BY <1>7, <2>1, <2>3
    DEF JoinCapture, Machine!Next, Machine!Finalized, Machine!Failed, Machine!Move
  <2> QED
    BY <2>2, <2>3
<1>8. ASSUME Press \/ HaltSupervisor \/ SendStop PROVE UNCHANGED <<ui, failed, paused, devPaused>>
  BY <1>8 DEF Press, HaltSupervisor, SendStop, supervisor
<1>9. ASSUME NEW t \in Tracks, Supervise(t) PROVE UNCHANGED <<ui, failed, paused, devPaused>>
  <2>1. ~Lost(t) /\ ~PauseLost(t) /\ ~SendPause(t) /\ ~Back(t) /\ ~SendResume(t)
    BY DEF Plugged, Lost, PauseLost, SendPause, Back, SendResume, Go
  <2> QED
    BY <1>9, <2>1 DEF Supervise, Poll, Watch, Check, Rekick, Wait, Exit, operator
<1>10. ASSUME (\E t \in Tracks : TakeCommand(t) \/ Callback(t) \/ World(t)) \/ UNCHANGED vars
       PROVE  UNCHANGED <<ui, failed, paused, devPaused>>
  BY <1>10 DEF TakeCommand, Callback, World, Unplug, Replug, Stall, Age, vars, operator,
     supervisor
<1>11. ASSUME UNCHANGED <<ui, failed, paused, devPaused>> PROVE UNCHANGED Machine!session
  BY <1>11 DEF Machine!session
<1> QED
  BY <1>2, <1>3, <1>4, <1>5, <1>6, <1>7, <1>8, <1>9, <1>10, <1>11 DEF Next, Operator, Stopping

(***************************************************************************)
(* The operator's commands are legal too: while no device is lost, pauses  *)
(* and resumes given track by track, a screen that is mounted again and    *)
(* the restarts of the watchdog make only the moves of session.rs.  Only   *)
(* the flag of the first track is the session's state, so a command that   *)
(* has reached some of the tracks is never seen half done.                 *)
(***************************************************************************)
THEOREM OperatorIsLegal == NoLoss => (Spec => ImplementsMachine)
<1>1. Init => Machine!Init
  BY DEF Init, Machine!Init
<1> SUFFICES ASSUME NoLoss PROVE Spec => ImplementsMachine
  OBVIOUS
<1>2. IInv /\ Plugged /\ [Next]_vars => [Machine!Next]_Machine!session
  BY PressIsLegal
<1>3. IInv /\ Plugged /\ [Next]_vars => IInv' /\ Plugged'
  BY StepKeeps, StaysPlugged
<1> QED
  BY <1>1, <1>2, <1>3, InitHolds, PluggedAtFirst, PTL DEF Spec, ImplementsMachine, Machine!Spec
=============================================================================
