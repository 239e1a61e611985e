----------------------------- MODULE Annotations -----------------------------
(* The live markup of a hearing: markers and spans "who speaks", set while   *)
(* the recording runs (ipc/marker_cmds.rs).  Every action of the operator is *)
(* numbered, chained to the one before it (integrity/annotations.rs) and     *)
(* appended to the journal, which segments share; from there it is copied to *)
(* SQLite whenever the session is reconciled (store/reconcile.rs), and the   *)
(* manifest folds the copied actions into the markers and spans it sends.    *)
EXTENDS SequencesExt, FiniteSetsExt

CONSTANTS
  Categories,     \* markers.categories
  Roles,          \* audio.roles
  Times,          \* what the clock may show when an action is taken, in ms
  Rate,           \* sample rate of the session's axis, Hz
  AppendFaults,   \* what a failing append may leave in the journal
  MaxActions,     \* bound: actions that are numbered
  MaxFaults       \* bound: failures

ASSUME MarkupAssumption ==
  /\ AppendFaults \subseteq {"nothing", "torn", "open", "whole"}
  /\ Times \subseteq Nat /\ Rate \in Nat
  /\ MaxActions \in Nat /\ MaxFaults \in Nat

VARIABLES
  state,     \* "recording", "stopped", or "cut" by a loss of power
  journal,   \* [lines: the actions replay reads, tail: how the file ends]
  ann,       \* AnnotationState: the actions it knows were written
  ids,       \* markers and spans given an id so far
  rows,      \* the table annotations: by number, the action
  spoilt,    \* a failed append has left something in the journal (history)
  faults     \* failures so far (bound)

vars == <<state, journal, ann, ids, rows, spoilt, faults>>

None == "none"
Started == 0                        \* started_at_unix_ms

\* A clock that shows less than at the start counts as the start.
Since(started, at) == IF at > started THEN at - started ELSE 0
SampleOffset(started, at, rate) == (Since(started, at) * rate + 500) \div 1000

\* What is digested: everything but the number and the link.
Body(action, target, what, at) ==
  [ action |-> action, target |-> target, what |-> what,
    offset |-> SampleOffset(Started, at, Rate) ]

\* A link is a digest of the link before it and of an action: it stands for
\* all the actions hashed into it, in their order.
NextLinks(prev, bodies) == [i \in DOMAIN bodies |-> prev \o SubSeq(bodies, 1, i)]
LastLink(records) == IF records = << >> THEN << >> ELSE Last(records).link

\* Planted bug: actions taken together are chained to the same link.
NumberedAlike(bodies) ==
  [i \in DOMAIN bodies |->
     [ seq |-> Len(ann) + i, body |-> bodies[i], link |-> Append(LastLink(ann), bodies[i]) ]]

\* The records of some actions that follow those in memory.
Numbered(bodies) ==
  [i \in DOMAIN bodies |->
     [ seq  |-> Len(ann) + i,
       body |-> bodies[i],
       link |-> NextLinks(LastLink(ann), bodies)[i] ]]

\* fold: what the actions come to.  An action on an id that is not there, or
\* no longer, does nothing; a span that has ended may be ended again.
Fold(records) ==
  LET Apply(snapshot, record) ==
        LET b == record.body
        IN  CASE b.action = "marker_added" ->
                   [snapshot EXCEPT !.markers = @ \union {[id |-> b.target, category |-> b.what,
                                                           offset |-> b.offset]}]
              [] b.action = "marker_edited" ->
                   [snapshot EXCEPT !.markers =
                      {IF m.id = b.target THEN [m EXCEPT !.category = b.what] ELSE m : m \in @}]
              [] b.action = "marker_removed" ->
                   [snapshot EXCEPT !.markers = {m \in @ : m.id # b.target}]
              [] b.action = "role_started" ->
                   [snapshot EXCEPT !.spans = @ \union {[id |-> b.target, role |-> b.what,
                                                         from |-> b.offset, open |-> TRUE, to |-> 0]}]
              [] b.action = "role_ended" ->
                   [snapshot EXCEPT !.spans =
                      {IF s.id = b.target THEN [s EXCEPT !.open = FALSE, !.to = b.offset] ELSE s : s \in @}]
  IN  FoldLeft(Apply, [markers |-> {}, spans |-> {}], records)

\* The spans that have begun and not ended, in the order they began.
Ordered(S) == [i \in 1 .. Cardinality(S) |-> CHOOSE n \in S : Cardinality({m \in S : m <= n}) = i]
OpenSpans(records) == {s \in Fold(records).spans : s.open}
OpenIds(records) == Ordered({id \in 1 .. ids : \E s \in OpenSpans(records) : s.id = id})
-----------------------------------------------------------------------------
\* The lines before the next one to be written can be told from it: the end
\* of the line before it is there.  A line whose end is missing is lost with
\* the next one, and so is the next one.
Settled(j) == IF j.tail = "open" THEN Front(j.lines) ELSE j.lines

\* Journal::append, of these records, succeeds.
AppendLines(j, records) ==
  IF records = << >> THEN j
  ELSE [ lines |-> Settled(j) \o (IF j.tail = "clean" THEN records ELSE Tail(records)),
         tail  |-> "clean" ]

\* Journal::append fails, or is cut off: nothing was written, a part of the
\* line, all but its end, or all of it when only the fsync has failed.
AppendFails(j, record, how) ==
  CASE how = "nothing" -> j
    [] how = "torn" -> [lines |-> Settled(j), tail |-> "torn"]
    [] how = "open" -> IF j.tail = "clean" THEN [lines |-> Append(j.lines, record), tail |-> "open"]
                       ELSE [lines |-> Settled(j), tail |-> "torn"]
    [] how = "whole" -> AppendLines(j, <<record>>)

\* Planted bug: the state moves on before the append.
KnownEarly(records, n) == ann \o IF n < Len(records) THEN SubSeq(records, 1, n + 1) ELSE records

\* The state moves on after each append that succeeds.
Known(records, n) == ann \o SubSeq(records, 1, n)

\* AnnotationState::record, for actions taken one after the other: all of them
\* are written, or one fails and the rest is not tried; or the power goes.
Record(bodies) ==
  LET records == Numbered(bodies)
  IN  /\ state = "recording" /\ Len(ann) + Len(bodies) <= MaxActions
      /\ \/ /\ journal' = AppendLines(journal, records)
            /\ ann' = Known(records, Len(records))
            /\ UNCHANGED <<state, spoilt, faults>>
         \/ \E n \in 0 .. Len(records) - 1, how \in AppendFaults, on \in BOOLEAN :
              /\ faults < MaxFaults /\ faults' = faults + 1
              /\ journal' = AppendFails(AppendLines(journal, SubSeq(records, 1, n)), records[n + 1], how)
              /\ ann' = Known(records, n)
              /\ state' = IF on THEN "recording" ELSE "cut"
              /\ spoilt' = (spoilt \/ (on /\ how # "nothing"))
      /\ UNCHANGED rows

AddMarker ==
  \E category \in Categories, at \in Times :
    /\ Record(<<Body("marker_added", ids + 1, category, at)>>)
    /\ ids' = ids + 1

\* The list in the window may be older than the markers: any id it has had.
Shown(action) == {r.body.target : r \in {x \in ToSet(ann) : x.body.action = action}}

EditMarker ==
  \E id \in Shown("marker_added"), category \in Categories :
    /\ Record(<<Body("marker_edited", id, category, Started)>>)
    /\ UNCHANGED ids

RemoveMarker ==
  \E id \in Shown("marker_added") :
    /\ Record(<<Body("marker_removed", id, None, Started)>>)
    /\ UNCHANGED ids

\* Planted bug: the new speaker first, then the end of those before.
StartedFirst(ends, start) == <<start>> \o ends

\* end_open_role_spans, then the new one.
Handover(ends, start) == Append(ends, start)

\* By its name or as that of a track, the role is one of the dictionary.
StartRoleSpan ==
  \E role \in Roles, at \in Times :
    LET open == OpenIds(ann)
        ends == [i \in DOMAIN open |-> Body("role_ended", open[i], None, at)]
    IN  /\ Record(Handover(ends, Body("role_started", ids + 1, role, at)))
        /\ ids' = ids + 1

EndRoleSpan ==
  \E id \in Shown("role_started"), at \in Times :
    /\ Record(<<Body("role_ended", id, None, at)>>)
    /\ UNCHANGED ids

\* Any other record of the session, of a segment or a stop, in the same file.
OtherRecord ==
  /\ journal.tail # "clean"
  /\ journal' = [lines |-> Settled(journal), tail |-> "clean"]
  /\ UNCHANGED <<state, ann, ids, rows, spoilt, faults>>

StopCapture ==
  /\ state = "recording" /\ state' = "stopped"
  /\ journal' = [lines |-> Settled(journal), tail |-> "clean"]
  /\ UNCHANGED <<ann, ids, rows, spoilt, faults>>
-----------------------------------------------------------------------------
\* INSERT OR IGNORE, one record after the other: a number that is there stays
\* as it is, whether another record brought it or an earlier reconciliation.
Inserted(table, records) ==
  [s \in DOMAIN table \union {records[i].seq : i \in DOMAIN records} |->
     IF s \in DOMAIN table THEN table[s]
     ELSE records[CHOOSE i \in DOMAIN records :
                    records[i].seq = s /\ \A j \in 1 .. i - 1 : records[j].seq # s]]

\* reconcile_annotations, as far as it gets: the first n actions that the
\* journal has.  It may run at any time, on the session being recorded too.
Reconcile ==
  \E n \in 0 .. Len(journal.lines) :
    /\ \/ n = Len(journal.lines) /\ UNCHANGED faults
       \/ n < Len(journal.lines) /\ faults < MaxFaults /\ faults' = faults + 1
    /\ rows' = Inserted(rows, SubSeq(journal.lines, 1, n))
    /\ rows' # rows
    /\ UNCHANGED <<state, journal, ann, ids, spoilt>>

\* get_annotations: in the order of their numbers.
Log == LET seqs == Ordered(DOMAIN rows) IN [i \in DOMAIN seqs |-> rows[seqs[i]]]

\* verify_annotation_chain.
Verifies(records) ==
  \A i \in DOMAIN records :
    records[i].link = NextLinks(<< >>, [k \in DOMAIN records |-> records[k].body])[i]

Init ==
  /\ state = "recording" /\ journal = [lines |-> << >>, tail |-> "clean"]
  /\ ann = << >> /\ ids = 0 /\ rows = << >>
  /\ spoilt = FALSE /\ faults = 0

Next == \/ AddMarker \/ EditMarker \/ RemoveMarker \/ StartRoleSpan \/ EndRoleSpan
        \/ OtherRecord \/ StopCapture \/ Reconcile

Spec == Init /\ [][Next]_vars
-----------------------------------------------------------------------------
\* What the window was told is done survives: as long as no append has failed
\* half way, every action in memory is in the journal, in its place, whatever
\* other records, failures and losses of power come between and after them.
AcknowledgedIsKept == ~spoilt => IsPrefix(ann, journal.lines)

\* Whenever the markup is read from SQLite, between two inserts of a
\* reconciliation or after several of them, its actions are numbered without
\* a gap and its chain verifies.
RowsVerify == ~spoilt => DOMAIN rows = 1 .. Cardinality(DOMAIN rows) /\ Verifies(Log)

\* At most one speaker: a manifest built at any moment has one open span at
\* most, although handing over takes several actions, each of which may fail.
OneSpeaker == ~spoilt => Cardinality(OpenSpans(Log)) <= 1
=============================================================================
