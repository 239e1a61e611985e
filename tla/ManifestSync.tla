------------------------------ MODULE ManifestSync ------------------------------
(***************************************************************************)
(* From the journal of a session to the server.  The user interface's      *)
(* commands run one at a time and bring the SQLite manifest up to date     *)
(* (store/reconcile.rs, ipc/query_cmds.rs, ipc/sync_cmds.rs); the          *)
(* scheduler thread uploads what the manifest says is finished             *)
(* (sync/queue.rs, uploader.rs, verify.rs, scheduler.rs).  Each has its    *)
(* own connection, every statement commits on its own.                     *)
(*                                                                         *)
(* The session directory is a SessionArchive, which SessionRecorder        *)
(* implements.  A chain link is the sequence of segments hashed into it.   *)
(***************************************************************************)
EXTENDS Naturals, Sequences, FiniteSets

CONSTANTS
  Segments,    \* bound: segments of the session
  Gaps,        \* a failed journal append left a gap that recovery fills late
  MultiTrack,  \* the segments are in the track's journal, not in the root one
  Commands,    \* what the operator does: any of list, pause, resume, retry
  Faults,      \* "net": a request fails or its answer is lost; "verify": so
               \* does the request to verify; "reject": 4xx; "crash": restart
  MaxFaults    \* bound: how often

ASSUME SyncAssumption ==
  /\ Segments \in Nat \ {0} /\ Gaps \in BOOLEAN /\ MultiTrack \in BOOLEAN
  /\ Commands \subseteq {"list", "pause", "resume", "retry"}
  /\ Faults \subseteq {"net", "verify", "reject", "crash"} /\ MaxFaults \in Nat

Idx == 1 .. Segments

VARIABLES
  kept, listed, state,  \* the directory: SessionArchive
  row,      \* the row of table sessions
  final,    \* final_chain_link of the session, or of its track
  links,    \* table segments: chain_link, <<>> when there is no row
  rec,      \* reconcile_session: where it is, for which command, what it read
  parts,    \* table upload_parts
  recId,    \* table upload_state: the server's id is known
  initDone, \* table upload_state: init_done
  up,       \* upload_session: where it is, the manifest it built, the verdict
  declared, \* server: the composition announced, as links
  received, \* server: the parts it has
  sends,    \* history: how often each part went to the server
  spent     \* faults so far

archive  == <<kept, listed, state>>
manifest == <<row, final, links>>
progress == <<parts, recId, initDone>>
server   == <<declared, received, sends>>
vars == <<archive, manifest, rec, progress, up, server, spent>>

Directory == INSTANCE SessionArchive WITH
  Frames <- {0, 1}, Ordered <- ~Gaps

NoLinks == [i \in Idx |-> <<>>]
NoRow == [status |-> "none", upload |-> "pending", paused |-> FALSE,
          confirmed |-> FALSE]
RecIdle == [at |-> "idle", cmd |-> "list", listed |-> {}, new |-> NoRow]
UpIdle  == [at |-> "idle", man |-> NoLinks, verified |-> FALSE]

Init ==
  /\ Directory!Init
  /\ row = NoRow /\ final = <<>> /\ links = NoLinks
  /\ rec = RecIdle /\ up = UpIdle
  /\ parts = [i \in Idx |-> "none"] /\ recId = FALSE /\ initDone = FALSE
  /\ declared = NoLinks /\ received = {}
  /\ sends = [i \in Idx |-> 0] /\ spent = 0

Rows(l) == {i \in Idx : l[i] # <<>>}
MaxOf(S) == CHOOSE i \in S : \A j \in S : j <= i

\* The recorder and recovery at work on the directory.
Record ==
  /\ Directory!Next
  /\ UNCHANGED <<manifest, rec, progress, up, server, spent>>

-----------------------------------------------------------------------------
(***************************************************************************)
(* A command of the user interface; each begins with reconcile_session.    *)
(***************************************************************************)
Rec(here, there) == rec.at = here /\ rec' = [rec EXCEPT !.at = there]

Status == CASE state = "open" -> "recording" [] OTHER -> state
Finished(r) == r.status \in {"stopped", "recovered"}

\* The journal is replayed ...
Replay ==
  /\ rec.at = "idle"
  /\ \E c \in Commands :
       rec' = [at |-> "look", cmd |-> c, listed |-> listed,
               new |-> [NoRow EXCEPT !.status = Status]]
  /\ UNCHANGED <<archive, manifest, progress, up, server, spent>>

\* The segments counted are those of the root journal.
Settled ==
  /\ row.status = rec.new.status /\ Finished(row)
  /\ Cardinality(Rows(links)) = IF MultiTrack THEN 0 ELSE Cardinality(rec.listed)

\* ... and compared with the row: nothing to do, or the row is taken over with
\* a new status.
Look ==
  /\ rec.at = "look"
  /\ rec' = IF Settled THEN [rec EXCEPT !.at = "done"]
            ELSE [rec EXCEPT !.at = "upsert",
                    !.new = [row EXCEPT !.status = rec.new.status]]
  /\ UNCHANGED <<archive, manifest, progress, up, server, spent>>

\* insert_session writes the whole row back.
Upsert ==
  /\ Rec("upsert", IF MultiTrack THEN "track" ELSE "segments")
  /\ row' = rec.new
  /\ UNCHANGED <<archive, final, links, progress, up, server, spent>>

\* insert_track writes the whole track, without its link; its journal is read.
InsertTrack ==
  /\ rec.at = "track"
  /\ rec' = [rec EXCEPT !.at = "segments", !.listed = listed]
  /\ final' = <<>>
  /\ UNCHANGED <<archive, row, links, progress, up, server, spent>>

New == {i \in rec.listed : links[i] = <<>>}

\* Planted bug: links known already are not chained on.
LinkOfNew(i) == <<i>>
\* A segment is chained to the one before it in the journal.
Link(i) ==
  LET before == {j \in rec.listed : j < i} IN
  Append(IF before = {} THEN <<>> ELSE links[MaxOf(before)], i)

AppendSegment ==
  /\ rec.at = "segments"
  /\ \E i \in New :
       /\ \A j \in New : i <= j
       /\ links' = [links EXCEPT ![i] = Link(i)]
  /\ UNCHANGED <<archive, row, final, rec, progress, up, server, spent>>

\* Planted bug: the link of the first segment.
LinkOfFirst == links[CHOOSE i \in rec.listed : \A j \in rec.listed : i <= j]
LinkOfLast == links[MaxOf(rec.listed)]

SetFinalLink ==
  /\ New = {} /\ Rec("segments", "done")
  /\ final' = IF rec.listed = {} THEN final ELSE LinkOfLast
  /\ UNCHANGED <<archive, row, links, progress, up, server, spent>>

\* list_sessions is done; the others change the row.
Listed ==
  /\ rec.at = "done" /\ rec.cmd = "list"
  /\ rec' = RecIdle
  /\ UNCHANGED <<archive, manifest, progress, up, server, spent>>

\* pause_upload, resume_upload, and the second half of retry_upload.
SetPaused ==
  /\ \/ rec.at = "done" /\ rec.cmd \in {"pause", "resume"}
     \/ rec.at = "unpause"
  /\ rec' = RecIdle
  /\ row' = [row EXCEPT !.paused = (rec.cmd = "pause")]
  /\ UNCHANGED <<archive, final, links, progress, up, server, spent>>

\* retry_upload leaves a confirmed recording alone ...
CheckRetry ==
  /\ rec.at = "done" /\ rec.cmd = "retry"
  /\ rec' = IF row.upload = "confirmed" THEN RecIdle
                                        ELSE [rec EXCEPT !.at = "retry"]
  /\ UNCHANGED <<archive, manifest, progress, up, server, spent>>

\* ... and puts any other back into the queue.
SetPending ==
  /\ Rec("retry", "unpause")
  /\ row' = [row EXCEPT !.upload = "pending"]
  /\ UNCHANGED <<archive, final, links, progress, up, server, spent>>

-----------------------------------------------------------------------------
(***************************************************************************)
(* The scheduler thread: one pass of upload_session.                       *)
(***************************************************************************)
Up(here, there) == up.at = here /\ up' = [up EXCEPT !.at = there]

\* Planted bug: a failed upload is not tried again.
UploadableOnce(r) ==
  Finished(r) /\ ~r.paused /\ r.upload \in {"pending", "uploading"}
IsUploadable(r) ==
  /\ Finished(r) /\ ~r.paused
  /\ r.upload \in {"pending", "uploading", "failed"}

\* The pass lists the uploadable recordings first; other ones may come before
\* this one.
Pick ==
  /\ IsUploadable(row) /\ Up("idle", "build")
  /\ UNCHANGED <<archive, manifest, rec, progress, server, spent>>

\* build_manifest; without segments the pass ends.
BuildManifest ==
  /\ up.at = "build"
  /\ up' = IF Rows(links) = {} THEN UpIdle
           ELSE [up EXCEPT !.at = "begin", !.man = links]
  /\ UNCHANGED <<archive, manifest, rec, progress, server, spent>>

PartsReset(i) == "pending"                \* planted bug: INSERT OR REPLACE
PartOf(i) == IF parts[i] = "none" THEN "pending" ELSE parts[i]

\* Status `uploading`; parts not known yet are added.
BeginUpload ==
  /\ Up("begin", "register")
  /\ row' = [row EXCEPT !.upload = "uploading"]
  /\ parts' = [i \in Idx |-> IF i \in Rows(up.man) THEN PartOf(i) ELSE parts[i]]
  /\ UNCHANGED <<archive, final, links, rec, recId, initDone, server, spent>>

\* A fault ends the pass; the next one starts over from the tables.
Fault(f) ==
  /\ f \in Faults /\ spent < MaxFaults
  /\ spent' = spent + 1
Fails(f) == Fault(f) /\ up' = UpIdle

Register ==
  /\ \/ Up("register", "init") /\ recId' = TRUE /\ UNCHANGED spent
     \/ up.at = "register" /\ ~recId /\ Fails("net") /\ UNCHANGED recId
  /\ UNCHANGED <<archive, manifest, rec, parts, initDone, server>>

\* The composition is announced once.
InitUpload ==
  /\ \/ /\ initDone /\ Up("init", "send")
        /\ UNCHANGED <<initDone, declared, spent>>
     \/ /\ ~initDone /\ Up("init", "send")
        /\ initDone' = TRUE /\ declared' = up.man
        /\ UNCHANGED spent
     \/ /\ ~initDone /\ up.at = "init" /\ Fails("net")
        /\ declared' \in {declared, up.man}
        /\ UNCHANGED initDone
  /\ UNCHANGED <<archive, manifest, rec, parts, recId, received, sends>>

Pending == {i \in Idx : parts[i] = "pending"}

Sent(batch) == [i \in Idx |-> IF i \in batch THEN "sent" ELSE parts[i]]
\* Planted bug: marked whatever the answer is.
MarkAnyway(batch, ok) == Sent(batch)
\* mark_part_sent, only when the server has answered.
Mark(batch, ok) == IF ok THEN Sent(batch) ELSE parts

\* The parts of a batch go to the server at the same time; it gets `arrived`.
Transmit(batch, arrived) ==
  /\ sends' = [i \in Idx |-> IF i \in batch THEN sends[i] + 1 ELSE sends[i]]
  /\ received' = received \cup arrived

\* The server accepts a part and the part is marked.
SendPart ==
  /\ up.at = "send"
  /\ \E i \in Pending : Transmit({i}, {i}) /\ parts' = Mark({i}, TRUE)
  /\ UNCHANGED <<archive, manifest, rec, recId, initDone, up, declared, spent>>

\* The answers that are not recorded: the request or its answer is lost; a part
\* of the batch is rejected, and the answers behind it are not looked at; the
\* program stops between the answer and the mark.
SendInVain ==
  /\ up.at = "send"
  /\ \E batch \in (SUBSET Pending) \ {{}} : \E arrived \in SUBSET batch :
       /\ Transmit(batch, arrived)
       /\ parts' = Mark(batch, FALSE)
       /\ \/ Fails("net") /\ UNCHANGED <<row, rec>>
          \/ /\ Fails("reject") /\ arrived # batch
             /\ row' = [row EXCEPT !.upload = "failed"] /\ UNCHANGED rec
          \/ Fails("crash") /\ rec' = RecIdle /\ UNCHANGED row
  /\ UNCHANGED <<archive, final, links, recId, initDone, declared>>

\* The server checks that it has what was announced.
Complete ==
  /\ Pending = {} /\ up.at = "send"
  /\ \/ /\ Rows(declared) \subseteq received
        /\ Up("send", "uploaded") /\ UNCHANGED spent
     \/ Fails("net")
  /\ UNCHANGED <<archive, manifest, rec, progress, server>>

SetUploaded ==
  /\ Up("uploaded", "verify")
  /\ row' = [row EXCEPT !.upload = "uploaded"]
  /\ UNCHANGED <<archive, final, links, rec, progress, server, spent>>

\* The links are those of one chain over the segments they name.
Chained(l) ==
  \A i \in Rows(l) :
    l[i] = Append(LET before == {j \in Rows(l) : j < i} IN
                  IF before = {} THEN <<>> ELSE l[MaxOf(before)], i)

\* The server recomputes hashes and chain.
Verify ==
  /\ up.at = "verify"
  /\ \/ /\ up' = [up EXCEPT !.at = "settle", !.verified = Chained(declared)]
        /\ UNCHANGED spent
     \/ Fails("verify")
  /\ UNCHANGED <<archive, manifest, rec, progress, server>>

VerdictIgnored == TRUE                    \* planted bug: outcome not looked at
Verified == up.verified

\* mark_server_confirmed, or the integrity error.
Settle ==
  /\ up.at = "settle"
  /\ up' = UpIdle
  /\ row' = IF Verified THEN [row EXCEPT !.upload = "confirmed", !.confirmed = TRUE]
                        ELSE [row EXCEPT !.upload = "integrity_failed"]
  /\ UNCHANGED <<archive, final, links, rec, progress, server, spent>>

\* The application is restarted; the tables stay.
Restart ==
  /\ Fault("crash")
  /\ rec' = RecIdle /\ up' = UpIdle
  /\ UNCHANGED <<archive, manifest, progress, server>>

-----------------------------------------------------------------------------
Command == Look \/ Upsert \/ InsertTrack \/ AppendSegment \/ SetFinalLink
             \/ Listed \/ SetPaused \/ CheckRetry \/ SetPending

Upload == Pick \/ BuildManifest \/ BeginUpload \/ Register \/ InitUpload \/ SendPart
            \/ SendInVain \/ Complete \/ SetUploaded \/ Verify \/ Settle

Next == Record \/ Replay \/ Command \/ Upload \/ Restart

Spec == Init /\ [][Next]_vars

\* The scheduler keeps polling and a command once given goes on.
FairSpec == Spec /\ WF_vars(Command) /\ WF_vars(Upload)

-----------------------------------------------------------------------------
(***************************************************************************)
(* The hash chain in the manifest is one chain over the segments it names, *)
(* at every moment: the scheduler may read it between two of them.         *)
(***************************************************************************)
ChainIntact == Chained(links)

(***************************************************************************)
(* When reconciliation of a session is done, or finds nothing to do, the   *)
(* final link is the link of the last segment.                             *)
(***************************************************************************)
FinalLinkSet ==
  rec.at = "done" /\ rec.listed # {} => final = links[MaxOf(rec.listed)]

(***************************************************************************)
(* A part the table says was sent is on the server, through lost answers   *)
(* and restarts (mark_part_sent after the answer).                         *)
(***************************************************************************)
SentIsReceived == \A i \in Idx : parts[i] = "sent" => i \in received

(***************************************************************************)
(* The row is `confirmed` only if the server has what was announced and    *)
(* found its chain right (verify.rs: the trigger of retention).            *)
(***************************************************************************)
ConfirmedIsVerified ==
  row.confirmed => Rows(declared) \subseteq received /\ Chained(declared)
                     /\ Rows(declared) # {}

(***************************************************************************)
(* A part goes to the server once, and at most once more for each fault: a *)
(* pass that starts over, a retry of the operator or an old row written    *)
(* back sends no part whose acceptance is in the table (queue.rs: INSERT   *)
(* OR IGNORE).  Without a record of it an accepted part is sent again.     *)
(***************************************************************************)
ResentOnlyAfterFault ==
  \A i \in Idx : sends[i] <= spent + (IF parts[i] = "sent" THEN 1 ELSE 0)

(***************************************************************************)
(* A recording in the queue is confirmed (or found broken) in the end.     *)
(***************************************************************************)
QueueEmpties ==
  IsUploadable(row) /\ Rows(links) # {}
    ~> row.upload \in {"confirmed", "integrity_failed"} \/ row.paused
=============================================================================
