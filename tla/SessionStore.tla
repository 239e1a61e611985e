---------------------------- MODULE SessionStore ----------------------------
(* What the player, the export and the retention engine share of one         *)
(* recorded session: its rows in the SQLite manifest, the segment files on   *)
(* disk, the events of its log, and the way in that all three take, which is *)
(* to reconcile the directory first (store/manifest.rs, store/reconcile.rs). *)
EXTENDS Timeline

CONSTANTS
  Recording,    \* the rows of the finished session, as its journal has them
  TrackRows,    \* the ids of the `tracks` table in order; <<>> before multichannel
  MarkerAt,     \* offsets in ms of the markers and role spans, by the wall clock
  StartedAt,    \* started_at_unix_ms of the session
  MaxDamage,    \* bound: segment files that become unreadable
  MaxEvents,    \* bound: events in the log
  MaxCommands   \* bound: commands of the window

\* A row of `segments` is known by its track and index: they are the primary
\* key of the session's rows (store/db.rs).
ASSUME SessionAssumption ==
  /\ TrackRows \in Seq(Int) /\ MarkerAt \subseteq Nat /\ StartedAt \in Nat
  /\ IsFiniteSet(Recording)
  /\ \A r \in Recording : r.frames \in Nat /\ r.at \in Nat /\ r.index \in Nat
  /\ \A r, q \in Recording : r.track = q.track /\ r.index = q.index => r = q
  /\ \A t \in {r.track : r \in Recording} :
       IF TrackRows = <<>> THEN t = 0 ELSE \E i \in DOMAIN TrackRows : TrackRows[i] = t

VARIABLES
  session,      \* the row of the session: status, confirmedAt, verified, purgedAt
  rows,         \* its rows in `segments`
  present,      \* its segment files on disk
  damaged,      \* those that can no longer be decrypted or parsed
  events,       \* its log, oldest first
  commands      \* commands of the window so far (bound)

storeVars == <<session, rows, present, damaged, events>>

Never == -1     \* a column that is NULL

File(r) == <<r.track, r.index>>

StoreInit ==
  /\ session = [status |-> "stopped", confirmedAt |-> Never, verified |-> FALSE,
                purgedAt |-> Never]
  /\ rows = Recording
  /\ present = {File(r) : r \in Recording}
  /\ damaged = {}
  /\ events = <<"session_started", "stopped">>
  /\ commands = 0

\* The commands of the window run one after the other.
Command == /\ commands < MaxCommands
           /\ commands' = commands + 1

\* Without rows in `tracks` a single track 0 is made up.
ResolveTracks == IF TrackRows = <<>> THEN <<0>> ELSE TrackRows

\* The axes of the complete recording, and the axis of what the manifest has.
TrackIds == {ResolveTracks[i] : i \in DOMAIN ResolveTracks}
Recorded == [t \in TrackIds |-> Build(Recording, t)]
TimelineOf(t) == IF rows = Recording THEN Recorded[t] ELSE Build(rows, t)

\* read_segment_plain and the WAV parser succeed.
Readable(seg) == File(seg) \in present \ damaged

\* The session is reconciled before it is used.  A purged session is not
\* revived, and one with as many rows as its journal has segments is taken as
\* it is.  Rows are missing only after a purge that stopped half-way: the files
\* are gone then, and reading the first of them ends the command.
Reconciles == session.status = "purged" \/ rows = Recording

\* A segment file is damaged on the disk after its hash was taken.
Damage ==
  /\ Cardinality(damaged) < MaxDamage
  /\ \E f \in present \ damaged : damaged' = damaged \union {f}
  /\ UNCHANGED <<session, rows, present, events, commands>>

\* An event is appended with the next number of its session.
AppendEvent(kind) ==
  /\ Len(events) < MaxEvents
  /\ events' = Append(events, kind)
-----------------------------------------------------------------------------
\* A segment is closed when it is full: only the last one of a track, closed
\* by the stop or found after a crash, can be empty.
OnlyLastEmpty ==
  \A t \in TrackIds : \A i \in DOMAIN Recorded[t].segs :
    i < Len(Recorded[t].segs) => Recorded[t].segs[i].frames > 0
=============================================================================
