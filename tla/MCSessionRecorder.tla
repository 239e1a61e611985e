-------------------------- MODULE MCSessionRecorder --------------------------
(* The instances of SessionRecorder that TLC checks.                        *)
EXTENDS SessionRecorder
=============================================================================
