---------------------------- MODULE SessionMachine ----------------------------
(***************************************************************************)
(* recorder/session.rs: the states of a recording session and the events   *)
(* that are legal in each of them.  The reason of a pause decides whether  *)
(* the return of the device may lift it.                                   *)
(***************************************************************************)

VARIABLES
  state,   \* SessionState
  reason   \* PauseReason of a paused session, "None" otherwise

session == <<state, reason>>

Init == state = "Idle" /\ reason = "None"

\* One legal transition of SessionMachine::apply.
Move(from, to, why) ==
  state \in from /\ state' = to /\ reason' = why

Start       == Move({"Idle", "Recovering"}, "Recording", "None")
BeginRecovery == Move({"Idle"}, "Recovering", "None")
RecoveryDone  == Move({"Recovering"}, "Idle", "None")
Pause       == Move({"Recording"}, "Paused", "Operator")
Resume      == Move({"Paused"}, "Recording", "None")
DeviceLost  == Move({"Recording"}, "Paused", "DeviceLost")
DeviceBack  == reason = "DeviceLost" /\ Move({"Paused"}, "Recording", "None")
RequestStop == Move({"Recording", "Paused"}, "Stopping", "None")
Finalized   == Move({"Stopping"}, "Stopped", "None")
Failed      == Move({"Recording", "Paused", "Stopping", "Recovering"}, "Error",
                    reason)

Next == Start \/ BeginRecovery \/ RecoveryDone \/ Pause \/ Resume \/ DeviceLost
          \/ DeviceBack \/ RequestStop \/ Finalized \/ Failed

Spec == Init /\ [][Next]_session
=============================================================================
