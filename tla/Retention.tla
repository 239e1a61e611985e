----------------------------- MODULE Retention -----------------------------
(* The local copy of a session after the server has it: the confirmation,    *)
(* the policy, and the removal of files, rows and mark in this order         *)
(* (store/retention.rs).  Nothing in the code calls `sweep` yet; it is       *)
(* modelled as its comment has it, called by the application's loop.         *)
EXTENDS SessionStore

CONSTANTS
  Modes,             \* values retention.mode takes; it is read by each sweep
  RequireVerified,   \* retention.require_integrity_verified
  Window,            \* retention.safety_window_hours
  MaxClock           \* bound: hours

ASSUME RetentionAssumption ==
  /\ Modes \subseteq {"manual", "until_confirmed_plus_window", "delete_on_confirm"}
  /\ RequireVerified \in BOOLEAN /\ Window \in Nat /\ MaxClock \in Nat
VARIABLE now         \* hours since the recording

\* Planted bug: the window is counted from the recording, confirmed or not.
DecideUnconfirmed(mode) ==
  CASE session.status = "purged" \/ session.purgedAt # Never -> "already_purged"
    [] mode = "manual" -> "manual_mode"
    [] mode = "until_confirmed_plus_window" /\ now < Window -> "window_not_elapsed"
    [] OTHER -> "delete"

\* decide: manual never; otherwise after the confirmation, and the window.
\* Only verified recordings are confirmed (sync/verify.rs), so that the
\* further demand for the verdict holds whenever there is a confirmation.
Decide(mode) ==
  CASE session.status = "purged" \/ session.purgedAt # Never -> "already_purged"
    [] mode = "manual" -> "manual_mode"
    [] session.confirmedAt = Never -> "not_confirmed"
    [] RequireVerified /\ ~session.verified -> "integrity_not_verified"
    [] mode = "until_confirmed_plus_window" /\ now < session.confirmedAt + Window ->
         "window_not_elapsed"
    [] OTHER -> "delete"

MarkServerConfirmed ==
  /\ session.confirmedAt = Never
  /\ session' = [session EXCEPT !.confirmedAt = now, !.verified = TRUE]
  /\ UNCHANGED <<rows, present, damaged, events, commands, now>>

\* Planted bug: the mark comes first, so that an interruption leaves the files.
MarkFirst ==
  \/ /\ session' = [session EXCEPT !.status = "purged", !.purgedAt = now]
     /\ UNCHANGED <<present, rows, events>>
  \/ /\ session' = [session EXCEPT !.status = "purged", !.purgedAt = now]
     /\ present' = {} /\ rows' = {} /\ events' = <<>>

\* get_segments returns the rows by track and index.
Precedes(a, b) == a.track < b.track \/ (a.track = b.track /\ a.index < b.index)

\* safe_delete: the files in the order of the rows, those already gone passed
\* over; then the rows and the log; then the mark.  An error or a crash ends it
\* after any of these; the next sweep starts over.
SafeDelete ==
  \E gone \in SUBSET rows :
    /\ \A a \in gone, b \in rows : Precedes(b, a) => b \in gone
    /\ present' = present \ {File(r) : r \in gone}
    /\ \/ UNCHANGED <<session, rows, events>>
       \/ /\ gone = rows
          /\ rows' = {} /\ events' = <<>>
          /\ \/ UNCHANGED session
             \/ session' = [session EXCEPT !.status = "purged", !.purgedAt = now]

Sweep ==
  /\ \E mode \in Modes : Decide(mode) = "delete"
  /\ SafeDelete
  /\ UNCHANGED <<damaged, commands, now>>

HourPasses ==
  /\ now < MaxClock
  /\ now' = now + 1
  /\ UNCHANGED <<storeVars, commands>>

RetentionInit == now = 0

RetentionNext == MarkServerConfirmed \/ Sweep \/ HourPasses
-----------------------------------------------------------------------------
\* Nothing of the local copy goes, not a file of it, before the server has
\* confirmed the recording and, unless the policy is to delete at once, the
\* window has passed: an interrupted removal, started over, included.
KeptUntilConfirmed ==
  present # {File(r) : r \in Recording} \/ rows # Recording =>
    /\ session.confirmedAt # Never
    /\ "delete_on_confirm" \notin Modes => now >= session.confirmedAt + Window

\* A purged session has no file left, and no row that names one.
PurgedIsGone == session.status = "purged" => present = {} /\ rows = {}
=============================================================================
