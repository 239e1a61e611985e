-------------------------- MODULE ManifestSync_proof --------------------------
(***************************************************************************)
(* Theorems about the path from the journal to the server, for any number  *)
(* of segments and faults: what the table of parts and the confirmed mark  *)
(* say about the server, and what holds of the hash chain and of its final *)
(* link at every moment the scheduler thread may read them.                *)
(***************************************************************************)
EXTENDS ManifestSync, FiniteSetTheorems, WellFoundedInduction, TLAPS

Chains == [Idx -> Seq(Idx)]
RowType ==
  [status : {"none", "recording", "recovered", "stopped"},
   upload : {"pending", "uploading", "uploaded", "confirmed", "failed", "integrity_failed"},
   paused : BOOLEAN, confirmed : BOOLEAN]
RecType ==
  [at : {"idle", "look", "upsert", "track", "segments", "done", "retry", "unpause"},
   cmd : {"list", "pause", "resume", "retry"}, listed : SUBSET Idx, new : RowType]
UpType ==
  [at : {"idle", "build", "begin", "register", "init", "send", "uploaded", "verify", "settle"},
   man : Chains, verified : BOOLEAN]

DirectoryOK == state \in {"open", "recovered", "stopped"} /\ listed \in SUBSET Idx
TablesOK ==
  /\ row \in RowType /\ links \in Chains /\ rec \in RecType
  /\ parts \in [Idx -> {"none", "pending", "sent"}] /\ initDone \in BOOLEAN
UploadOK == up \in UpType /\ declared \in Chains /\ received \in SUBSET Idx

TypeOK == DirectoryOK /\ TablesOK /\ UploadOK

\* The server has an announced composition complete, and one chain in it.
DeclaredGood ==
  /\ initDone /\ Rows(declared) # {}
  /\ Rows(declared) \subseteq received /\ Chained(declared)

\* What upload_session knows at each of its places.
ServerInv ==
  /\ up.at \notin {"idle", "build"} => Rows(up.man) # {}
  /\ initDone => Rows(declared) # {}
  /\ up.at \in {"send", "uploaded", "verify", "settle"} => initDone
  /\ up.at \in {"uploaded", "verify", "settle"} => Rows(declared) \subseteq received
  /\ up.at = "settle" /\ up.verified => Chained(declared)
  /\ row.confirmed \/ rec.new.confirmed => DeclaredGood

\* The table of segments follows the journal as it was read.
RowsInv ==
  /\ Rows(links) \subseteq listed
  /\ rec.at # "idle" => Rows(links) \subseteq rec.listed /\ rec.listed \subseteq listed

\* Journals without gaps: segments are known from the first one on.
Prefix(S) == \A i \in S, j \in Idx : j < i => j \in S
ChainInv ==
  /\ Prefix(listed) /\ Prefix(rec.listed) /\ Prefix(Rows(links))
  /\ Chained(links)

\* Runs without a restart: a reconciliation begun is carried through.
FinalInv ==
  /\ rec.at # "segments" =>
       final = IF Rows(links) = {} THEN <<>> ELSE links[MaxOf(Rows(links))]
  /\ rec.at = "segments" /\ Rows(links) = {} => final = <<>>
  /\ rec.at = "done" => Rows(links) \in {{}, rec.listed}
-----------------------------------------------------------------------------
(***************************************************************************)
(* Links.                                                                  *)
(***************************************************************************)
LEMMA LinkTypes == <<>> \in Seq(Idx) /\ NoLinks \in Chains
<1>1. <<>> \in Seq(Idx)
  OBVIOUS
<1> QED
  BY <1>1 DEF NoLinks, Chains

\* A set of segments has a last one, and MaxOf is it.
LEMMA MaxExists ==
  ASSUME NEW S \in SUBSET Idx, S # {}
  PROVE  MaxOf(S) \in S /\ \A j \in S : j <= MaxOf(S)
<1> DEFINE T == {Segments - i : i \in S}
<1>0. Segments \in Nat /\ \A i \in S : i \in Nat /\ Segments - i \in Nat
  BY SyncAssumption DEF Idx
<1>1. T \subseteq Nat /\ T # {}
  BY <1>0
<1>2. PICK x \in T : \A y \in T : ~(<<y, x>> \in OpToRel(<, Nat))
  BY <1>1, NatLessThanWellFounded, WFMin
<1>3. PICK i \in S : x = Segments - i
  OBVIOUS
<1>4. \A j \in S : j <= i
  <2> SUFFICES ASSUME NEW j \in S, ~(j <= i) PROVE FALSE
    OBVIOUS
  <2>1. Segments - j \in T /\ Segments - j \in Nat /\ x \in Nat
    BY <1>0, <1>1
  <2>2. Segments - j < x
    BY <1>0, <1>3
  <2> QED
    BY <1>2, <2>1, <2>2 DEF OpToRel
<1> QED
  BY <1>4 DEF MaxOf

LEMMA LinkType ==
  ASSUME TypeOK, NEW i \in Idx
  PROVE  Link(i) \in Seq(Idx) /\ Link(i) # <<>>
<1> DEFINE before == {j \in rec.listed : j < i}
           base == IF before = {} THEN <<>> ELSE links[MaxOf(before)]
<1>1. before \in SUBSET Idx
  BY DEF TypeOK, TablesOK, RecType
<1>2. base \in Seq(Idx)
  <2>1. CASE before = {}
    BY <2>1, LinkTypes
  <2>2. CASE before # {}
    <3>1. MaxOf(before) \in Idx
      BY <1>1, <2>2, MaxExists
    <3> QED
      BY <2>2, <3>1 DEF TypeOK, TablesOK, Chains
  <2> QED
    BY <2>1, <2>2
<1>3. Link(i) = Append(base, i)
  BY DEF Link
<1> HIDE DEF base
<1> QED
  BY <1>2, <1>3

-----------------------------------------------------------------------------
(***************************************************************************)
(* Types.                                                                  *)
(***************************************************************************)
LEMMA TypeInit == Init => TypeOK
<1> SUFFICES ASSUME Init PROVE TypeOK
  OBVIOUS
<1>1. DirectoryOK
  BY DEF Init, Directory!Init, DirectoryOK
<1>2. NoRow \in RowType
  BY DEF NoRow, RowType
<1>3. TablesOK
  BY <1>2, LinkTypes DEF Init, TablesOK, RecIdle, RecType
<1>4. UploadOK
  BY LinkTypes DEF Init, UploadOK, UpIdle, UpType
<1> QED
  BY <1>1, <1>3, <1>4 DEF TypeOK

LEMMA TypeRecord == TypeOK /\ (Record \/ UNCHANGED vars) => TypeOK'
BY DEF Record, Directory!Next, Directory!Work, Directory!Recovered, Directory!Stopped, vars,
   archive, manifest, progress, server, TypeOK, DirectoryOK, TablesOK, UploadOK

LEMMA TypeCommand ==
  ASSUME TypeOK, Replay \/ Command
  PROVE  TypeOK'
<1>1. DirectoryOK' /\ UploadOK'
  BY DEF TypeOK, DirectoryOK, UploadOK, Replay, Command, Look, Upsert, InsertTrack, AppendSegment,
     SetFinalLink, Listed, SetPaused, CheckRetry, SetPending, archive, server, progress
<1>2. RecIdle \in RecType /\ NoRow \in RowType
  BY DEF RecIdle, RecType, NoRow, RowType
<1>3. row \in RowType /\ links \in Chains /\ rec \in RecType /\ rec.new \in RowType
  BY DEF TypeOK, TablesOK, RecType
<1>4. UNCHANGED <<parts, initDone>>
  BY DEF Replay, Command, Look, Upsert, InsertTrack, AppendSegment,
     SetFinalLink, Listed, SetPaused, CheckRetry, SetPending, progress
<1>5. SUFFICES row' \in RowType /\ links' \in Chains /\ rec' \in RecType
  BY <1>1, <1>4 DEF TypeOK, TablesOK
<1>6. CASE Replay
  <2>1. Status \in {"recording", "recovered", "stopped"}
    BY DEF Status, TypeOK, DirectoryOK
  <2>2. [NoRow EXCEPT !.status = Status] \in RowType
    BY <2>1 DEF NoRow, RowType
  <2> QED
    BY <1>3, <1>6, <2>2, SyncAssumption DEF Replay, manifest, TypeOK, DirectoryOK, RecType
<1>7. CASE Look
  <2>1. [row EXCEPT !.status = rec.new.status] \in RowType
    BY <1>3 DEF RowType
  <2> QED
    BY <1>3, <1>7, <2>1 DEF Look, manifest, RecType
<1>8. CASE Upsert
  BY <1>3, <1>8 DEF Upsert, Rec, RecType
<1>9. CASE InsertTrack
  BY <1>3, <1>9 DEF InsertTrack, RecType, TypeOK, DirectoryOK
<1>10. CASE AppendSegment
  <2>1. PICK i \in New : links' = [links EXCEPT ![i] = Link(i)]
    BY <1>10 DEF AppendSegment
  <2>2. i \in Idx
    BY <1>3 DEF New, RecType
  <2>3. links' \in Chains
    BY <1>3, <2>1, <2>2, LinkType DEF Chains
  <2> QED
    BY <1>3, <1>10, <2>3 DEF AppendSegment
<1>11. CASE SetFinalLink
  BY <1>3, <1>11 DEF SetFinalLink, Rec, RecType
<1>12. CASE Listed \/ CheckRetry
  BY <1>2, <1>3, <1>12 DEF Listed, CheckRetry, manifest, RecType
<1>13. CASE SetPaused
  <2>1. row' = [row EXCEPT !.paused = (rec.cmd = "pause")]
    BY <1>13 DEF SetPaused
  <2>2. row' \in RowType
    BY <1>3, <2>1 DEF RowType
  <2> QED
    BY <1>2, <1>3, <1>13, <2>2 DEF SetPaused
<1>14. CASE SetPending
  <2>1. row' \in RowType
    BY <1>3, <1>14 DEF SetPending, RowType
  <2> QED
    BY <1>3, <1>14, <2>1 DEF SetPending, Rec, RecType
<1> QED
  BY <1>6, <1>7, <1>8, <1>9, <1>10, <1>11, <1>12, <1>13, <1>14 DEF Command

LEMMA TypeUpload ==
  ASSUME TypeOK, Upload \/ Restart
  PROVE  TypeOK'
<1>1. DirectoryOK' /\ links' = links
  BY DEF TypeOK, DirectoryOK, Upload, Restart, Pick, BuildManifest, BeginUpload, Register,
     InitUpload, SendPart, SendInVain, Complete, SetUploaded, Verify, Settle, archive, manifest
<1>2. UpIdle \in UpType /\ RecIdle \in RecType
  BY LinkTypes DEF UpIdle, UpType, RecIdle, RecType, NoRow, RowType
<1>3. /\ row \in RowType /\ links \in Chains /\ rec \in RecType /\ up \in UpType
      /\ up.man \in Chains /\ declared \in Chains /\ received \in SUBSET Idx
      /\ parts \in [Idx -> {"none", "pending", "sent"}] /\ initDone \in BOOLEAN
  BY DEF TypeOK, TablesOK, UploadOK, UpType
<1>4. SUFFICES /\ row' \in RowType /\ rec' \in RecType /\ up' \in UpType /\ declared' \in Chains
               /\ received' \in SUBSET Idx /\ initDone' \in BOOLEAN
               /\ parts' \in [Idx -> {"none", "pending", "sent"}]
  BY <1>1, <1>3 DEF TypeOK, TablesOK, UploadOK
<1>5. CASE Pick \/ Complete
  BY <1>2, <1>3, <1>5 DEF Pick, Complete, Up, Fails, manifest, progress, server, UpType
<1>6. CASE BuildManifest
  BY <1>2, <1>3, <1>6 DEF BuildManifest, manifest, progress, server, UpType
<1>7. CASE BeginUpload
  <2>1. row' \in RowType
    BY <1>3, <1>7 DEF BeginUpload, RowType
  <2>2. parts' \in [Idx -> {"none", "pending", "sent"}]
    BY <1>3, <1>7 DEF BeginUpload, PartOf
  <2> QED
    BY <1>3, <1>7, <2>1, <2>2 DEF BeginUpload, Up, server, UpType
<1>8. CASE Register
  BY <1>2, <1>3, <1>8 DEF Register, Up, Fails, manifest, server, UpType
<1>9. CASE InitUpload
  BY <1>2, <1>3, <1>9 DEF InitUpload, Up, Fails, manifest, UpType
<1>10. CASE SendPart \/ SendInVain
  <2>1. parts' = parts \/ \E batch \in SUBSET Idx : parts' = Sent(batch)
    BY <1>10 DEF SendPart, SendInVain, Mark, Pending
  <2>2. parts' \in [Idx -> {"none", "pending", "sent"}]
    BY <1>3, <2>1 DEF Sent
  <2>3. \E arrived \in SUBSET Idx : received' = received \cup arrived
    BY <1>10 DEF SendPart, SendInVain, Transmit, Pending
  <2>4. row' \in RowType
    <3>1. row' = row \/ row' = [row EXCEPT !.upload = "failed"]
      BY <1>10 DEF SendPart, SendInVain, manifest
    <3> QED
      BY <1>3, <3>1 DEF RowType
  <2>5. rec' \in {rec, RecIdle} /\ up' \in {up, UpIdle} /\ UNCHANGED <<declared, initDone>>
    BY <1>10 DEF SendPart, SendInVain, Fails
  <2> QED
    BY <1>2, <1>3, <2>2, <2>3, <2>4, <2>5
<1>11. CASE SetUploaded
  <2>1. row' \in RowType
    BY <1>3, <1>11 DEF SetUploaded, RowType
  <2> QED
    BY <1>3, <1>11, <2>1 DEF SetUploaded, Up, progress, server, UpType
<1>12. CASE Verify
  <2>1. Chained(declared) \in BOOLEAN
    BY DEF Chained
  <2> QED
    BY <1>2, <1>3, <1>12, <2>1 DEF Verify, Fails, manifest, progress, server, UpType
<1>13. CASE Settle
  <2>1. row' \in RowType
    BY <1>3, <1>13 DEF Settle, RowType
  <2> QED
    BY <1>2, <1>3, <1>13, <2>1 DEF Settle, progress, server
<1>14. CASE Restart
  BY <1>2, <1>3, <1>14 DEF Restart, manifest, progress, server
<1> QED
  BY <1>5, <1>6, <1>7, <1>8, <1>9, <1>10, <1>11, <1>12, <1>13, <1>14 DEF Upload

LEMMA TypeStep == TypeOK /\ [Next]_vars => TypeOK'
BY TypeRecord, TypeCommand, TypeUpload DEF Next
-----------------------------------------------------------------------------
(***************************************************************************)
(* A part marked sent: mark_part_sent runs only after the server's answer, *)
(* and INSERT OR IGNORE keeps the mark when the pass starts over.          *)
(***************************************************************************)
LEMMA PartsStep ==
  ASSUME TypeOK, [Next]_vars
  PROVE  /\ received \subseteq received'
         /\ \A i \in Idx : parts[i] = "sent" => parts'[i] = "sent"
         /\ \A i \in Idx : parts'[i] = "sent" => parts[i] = "sent" \/ i \in received'
<1>1. parts \in [Idx -> {"none", "pending", "sent"}]
  BY DEF TypeOK, TablesOK
<1>2. CASE Record \/ Replay \/ Command \/ Restart \/ UNCHANGED vars
  BY <1>2 DEF Record, Replay, Command, Look, Upsert, InsertTrack, AppendSegment, SetFinalLink,
     Listed, SetPaused, CheckRetry, SetPending, Restart, progress, server, vars
<1>3. CASE Upload
  <2>1. CASE BeginUpload
    BY <1>1, <2>1 DEF BeginUpload, PartOf, server
  <2>2. CASE SendPart
    BY <1>1, <2>2 DEF SendPart, Transmit, Mark, Sent, Pending
  <2>4. CASE SendInVain
    BY <2>4 DEF SendInVain, Transmit, Mark
  <2>3. CASE Pick \/ BuildManifest \/ Register \/ InitUpload \/ Complete \/ SetUploaded \/ Verify
               \/ Settle
    BY <2>3 DEF Pick, BuildManifest, Register, InitUpload, Complete, SetUploaded, Verify, Settle,
       progress, server
  <2> QED
    BY <1>3, <2>1, <2>2, <2>3, <2>4 DEF Upload
<1> QED
  BY <1>2, <1>3 DEF Next

(***************************************************************************)
(* The table of parts never says more than the server has: a lost answer,  *)
(* a restart between answer and mark, a rejected batch leave it behind,    *)
(* never ahead.                                                            *)
(***************************************************************************)
THEOREM PartsReceived == Spec => []SentIsReceived
<1>1. Init => SentIsReceived
  BY DEF Init, SentIsReceived
<1>2. TypeOK /\ SentIsReceived /\ [Next]_vars => SentIsReceived'
  BY PartsStep DEF SentIsReceived
<1> QED
  BY <1>1, <1>2, TypeInit, TypeStep, PTL DEF Spec

\* Every transmission is recorded, or a fault has hit it.
LEMMA SendsCounted ==
  ASSUME TypeOK, sends \in [Idx -> Nat], spent \in Nat, [Next]_vars
  PROVE  /\ sends' \in [Idx -> Nat] /\ spent' \in {spent, spent + 1}
         /\ \A i \in Idx :
              \/ sends'[i] = sends[i]
              \/ sends'[i] = sends[i] + 1 /\ spent' = spent + 1
              \/ sends'[i] = sends[i] + 1 /\ parts[i] # "sent" /\ parts'[i] = "sent"
<1>1. parts \in [Idx -> {"none", "pending", "sent"}]
  BY DEF TypeOK, TablesOK
<1>2. CASE SendPart
  <2>1. PICK i \in Pending : Transmit({i}, {i}) /\ parts' = Mark({i}, TRUE)
    BY <1>2 DEF SendPart
  <2>2. i \in Idx /\ parts[i] # "sent" /\ parts'[i] = "sent"
    BY <1>1, <2>1 DEF Pending, Mark, Sent
  <2>3. sends' = [j \in Idx |-> IF j = i THEN sends[j] + 1 ELSE sends[j]]
    BY <2>1 DEF Transmit
  <2>4. spent' = spent
    BY <1>2 DEF SendPart
  <2> QED
    BY <2>2, <2>3, <2>4
<1>3. CASE SendInVain
  <2>1. PICK batch \in SUBSET Pending :
          sends' = [j \in Idx |-> IF j \in batch THEN sends[j] + 1 ELSE sends[j]]
    BY <1>3 DEF SendInVain, Transmit
  <2>2. spent' = spent + 1
    BY <1>3 DEF SendInVain, Fails, Fault
  <2> QED
    BY <2>1, <2>2
<1>4. CASE UNCHANGED sends
  <2>1. spent' \in {spent, spent + 1}
    BY DEF Next, Record, Replay, Command, Look, Upsert, InsertTrack, AppendSegment,
       SetFinalLink, Listed, SetPaused, CheckRetry, SetPending, Upload, Restart, Pick,
       BuildManifest, BeginUpload, Register, InitUpload, SendPart, SendInVain, Complete,
       SetUploaded, Verify, Settle, Fails, Fault, vars
  <2> QED
    BY <1>4, <2>1
<1>5. SendPart \/ SendInVain \/ UNCHANGED sends
  BY DEF Next, Record, Replay, Command, Look, Upsert, InsertTrack, AppendSegment,
     SetFinalLink, Listed, SetPaused, CheckRetry, SetPending, Upload, Restart, Pick,
     BuildManifest, BeginUpload, Register, InitUpload, Complete, SetUploaded, Verify, Settle,
     server, vars
<1> QED
  BY <1>2, <1>3, <1>4, <1>5

(***************************************************************************)
(* However often an upload starts over, whatever the operator retries and  *)
(* whichever old row a reconciliation writes back: as long as the          *)
(* acceptance of a part is not in the table, it was sent at most once per  *)
(* fault, and once it is, one time more.                                   *)
(***************************************************************************)
THEOREM PartsSentOncePerFault == Spec => []ResentOnlyAfterFault
<1> DEFINE Counted == sends \in [Idx -> Nat] /\ spent \in Nat /\ ResentOnlyAfterFault
<1>1. Init => Counted
  BY DEF Init, ResentOnlyAfterFault
<1>2. TypeOK /\ Counted /\ [Next]_vars => Counted'
  <2> SUFFICES ASSUME TypeOK, Counted, [Next]_vars PROVE Counted'
    OBVIOUS
  <2>1. /\ sends' \in [Idx -> Nat] /\ spent' \in {spent, spent + 1}
        /\ \A i \in Idx :
             \/ sends'[i] = sends[i]
             \/ sends'[i] = sends[i] + 1 /\ spent' = spent + 1
             \/ sends'[i] = sends[i] + 1 /\ parts[i] # "sent" /\ parts'[i] = "sent"
    BY SendsCounted
  <2>2. \A i \in Idx : parts[i] = "sent" => parts'[i] = "sent"
    BY PartsStep
  <2>3. ASSUME NEW i \in Idx PROVE sends'[i] <= spent' + (IF parts'[i] = "sent" THEN 1 ELSE 0)
    <3>1. sends[i] <= spent + (IF parts[i] = "sent" THEN 1 ELSE 0)
      BY DEF ResentOnlyAfterFault
    <3> QED
      BY <2>1, <2>2, <3>1
  <2> QED
    BY <2>1, <2>3 DEF ResentOnlyAfterFault
<1> QED
  BY <1>1, <1>2, TypeInit, TypeStep, PTL DEF Spec

-----------------------------------------------------------------------------
(***************************************************************************)
(* The confirmed mark.                                                     *)
(***************************************************************************)
LEMMA ServerInit == Init => ServerInv
BY DEF Init, ServerInv, UpIdle, RecIdle, NoRow

\* Recorder and operator copy rows, but make none confirmed.
LEMMA ServerCommand ==
  ASSUME TypeOK, ServerInv, Record \/ Replay \/ Command \/ UNCHANGED vars
  PROVE  ServerInv'
<1>1. UNCHANGED <<up, initDone, declared, received>>
  BY DEF Record, Replay, Command, Look, Upsert, InsertTrack, AppendSegment, SetFinalLink, Listed,
     SetPaused, CheckRetry, SetPending, progress, server, vars
<1>2. row \in RowType /\ rec \in RecType /\ rec.new \in RowType
  BY DEF TypeOK, TablesOK, RecType
<1>3. row'.confirmed \/ rec'.new.confirmed => row.confirmed \/ rec.new.confirmed
  <2>1. CASE Record \/ UNCHANGED vars
    BY <2>1 DEF Record, manifest, vars
  <2>2. CASE Replay
    BY <2>2 DEF Replay, NoRow, manifest
  <2>3. CASE Look
    <3>1. [row EXCEPT !.status = rec.new.status].confirmed = row.confirmed
      BY <1>2 DEF RowType
    <3>2. rec'.new = rec.new \/ rec'.new = [row EXCEPT !.status = rec.new.status]
      BY <1>2, <2>3 DEF Look, RecType
    <3> QED
      BY <2>3, <3>1, <3>2 DEF Look, manifest
  <2>4. CASE Upsert \/ InsertTrack \/ AppendSegment \/ SetFinalLink
    BY <1>2, <2>4 DEF Upsert, InsertTrack, AppendSegment, SetFinalLink, Rec, RecType
  <2>5. CASE Listed \/ CheckRetry
    BY <1>2, <2>5 DEF Listed, CheckRetry, RecIdle, NoRow, RecType, manifest
  <2>6. CASE SetPaused
    <3>1. row'.confirmed = row.confirmed
      BY <1>2, <2>6 DEF SetPaused, RowType
    <3> QED
      BY <2>6, <3>1 DEF SetPaused, RecIdle, NoRow
  <2>7. CASE SetPending
    <3>1. row'.confirmed = row.confirmed
      BY <1>2, <2>7 DEF SetPending, RowType
    <3>2. rec'.new = rec.new
      BY <1>2, <2>7 DEF SetPending, Rec, RecType
    <3> QED
      BY <3>1, <3>2
  <2> QED
    BY <2>1, <2>2, <2>3, <2>4, <2>5, <2>6, <2>7 DEF Command
<1>4. (Chained(declared)' <=> Chained(declared)) /\ Rows(declared)' = Rows(declared)
  BY <1>1 DEF Chained, Rows
<1> QED
  BY <1>1, <1>3, <1>4 DEF ServerInv, DeclaredGood, Rows

\* What was announced and found good stays so.
LEMMA DeclaredStays ==
  ASSUME TypeOK, Upload \/ Restart
  PROVE  /\ initDone => initDone' /\ UNCHANGED declared
         /\ DeclaredGood => DeclaredGood'
<1>1. initDone => initDone' /\ UNCHANGED declared
  BY DEF Upload, Restart, Pick, BuildManifest, BeginUpload, Register, InitUpload,
     SendPart, SendInVain,
     Complete, SetUploaded, Verify, Settle, progress, server
<1>2. received \subseteq received'
  BY PartsStep DEF Next
<1> QED
  BY <1>1, <1>2 DEF DeclaredGood, Rows, Chained

\* Only a verdict of the server makes a row confirmed.
LEMMA ConfirmedBySettle ==
  ASSUME TypeOK, ServerInv, Upload \/ Restart, row'.confirmed \/ rec'.new.confirmed
  PROVE  DeclaredGood'
<1>1. row \in RowType /\ (rec' = rec \/ rec' = RecIdle)
  BY DEF TypeOK, TablesOK, Upload, Restart, Pick, BuildManifest, BeginUpload, Register, InitUpload,
     SendPart, SendInVain, Complete, SetUploaded, Verify, Settle, manifest
<1>2. \/ row'.confirmed = row.confirmed
      \/ Settle /\ up.verified
  <2>1. CASE Settle
    BY <1>1, <2>1 DEF Settle, Verified, RowType
  <2>2. CASE BeginUpload \/ SendPart \/ SetUploaded
    BY <1>1, <2>2 DEF BeginUpload, SendPart, SetUploaded, RowType, manifest
  <2>4. CASE SendInVain
    <3>1. row' = row \/ row' = [row EXCEPT !.upload = "failed"]
      BY <2>4 DEF SendInVain
    <3> QED
      BY <1>1, <3>1 DEF RowType
  <2>3. CASE Pick \/ BuildManifest \/ Register \/ InitUpload \/ Complete \/ Verify \/ Restart
    BY <2>3 DEF Pick, BuildManifest, Register, InitUpload, Complete, Verify, Restart, manifest
  <2> QED
    BY <2>1, <2>2, <2>3, <2>4 DEF Upload
<1>3. DeclaredGood
  <2>1. CASE Settle /\ up.verified
    BY <2>1 DEF Settle, Up, ServerInv, DeclaredGood
  <2>2. CASE row'.confirmed = row.confirmed
    BY <1>1, <2>2 DEF ServerInv, RecIdle, NoRow
  <2> QED
    BY <1>2, <2>1, <2>2
<1> QED
  BY <1>3, DeclaredStays

\* A pass of upload_session.
LEMMA ServerUpload ==
  ASSUME TypeOK, ServerInv, Upload \/ Restart
  PROVE  ServerInv'
<1> DEFINE Places ==
      /\ up.at \notin {"idle", "build"} => Rows(up.man) # {}
      /\ initDone => Rows(declared) # {}
      /\ up.at \in {"send", "uploaded", "verify", "settle"} => initDone
      /\ up.at \in {"uploaded", "verify", "settle"} => Rows(declared) \subseteq received
      /\ up.at = "settle" /\ up.verified => Chained(declared)
<1>1. up \in UpType /\ received \subseteq received' /\ Places
  BY PartsStep DEF TypeOK, UploadOK, ServerInv, Next
<1>2. SUFFICES Places'
  BY <1>1, ConfirmedBySettle DEF ServerInv
<1>3. CASE up' = UpIdle /\ (~initDone /\ initDone' => Rows(declared)' # {})
  BY <1>1, <1>3, DeclaredStays DEF UpIdle, Rows
<1>4. ASSUME NEW here, NEW there, Up(here, there),
             <<here, there>> \in {<<"idle", "build">>, <<"begin", "register">>,
                                  <<"register", "init">>, <<"uploaded", "verify">>},
             UNCHANGED <<initDone, server>>
      PROVE  Places'
  <2>1. up.at = here /\ up'.at = there /\ up'.man = up.man /\ up'.verified = up.verified
    BY <1>1, <1>4 DEF Up, UpType
  <2> QED
    BY <1>1, <1>4, <2>1 DEF server, Rows, Chained
<1>11. CASE Pick \/ BeginUpload \/ SetUploaded
  BY <1>4, <1>11 DEF Pick, BeginUpload, SetUploaded, progress
<1>12. CASE Register
  <2>1. CASE Up("register", "init")
    BY <1>4, <1>12, <2>1 DEF Register
  <2>2. CASE Fails("net")
    BY <1>3, <1>12, <2>2 DEF Register, Fails
  <2> QED
    BY <1>12, <2>1, <2>2 DEF Register
<1>5. CASE BuildManifest
  BY <1>1, <1>3, <1>5 DEF BuildManifest, progress, server, UpType, Rows, Chained
<1>6. CASE InitUpload
  <2>1. CASE initDone /\ Up("init", "send") /\ UNCHANGED <<initDone, declared, received>>
    BY <1>1, <2>1 DEF Up, UpType, Rows, Chained
  <2>2. CASE Up("init", "send") /\ initDone' = TRUE /\ declared' = up.man /\ UNCHANGED received
    BY <1>1, <2>2 DEF Up, UpType, Rows, Chained
  <2>3. CASE Fails("net") /\ UNCHANGED initDone
    BY <1>3, <2>3 DEF Fails
  <2> QED
    BY <1>6, <2>1, <2>2, <2>3 DEF InitUpload
<1>7. CASE SendPart
  BY <1>1, <1>7 DEF SendPart, Rows, Chained
<1>13. CASE SendInVain
  BY <1>3, <1>13 DEF SendInVain, Fails
<1>8. CASE Complete
  <2>1. CASE Rows(declared) \subseteq received /\ Up("send", "uploaded")
    BY <1>1, <1>8, <2>1 DEF Complete, Up, UpType, progress, server, Rows, Chained
  <2>2. CASE Fails("net")
    BY <1>3, <1>8, <2>2 DEF Complete, Fails, progress
  <2> QED
    BY <1>8, <2>1, <2>2 DEF Complete
<1>9. CASE Verify
  <2>1. CASE up' = [up EXCEPT !.at = "settle", !.verified = Chained(declared)]
    BY <1>1, <1>9, <2>1 DEF Verify, UpType, progress, server, Rows, Chained
  <2>2. CASE Fails("verify")
    BY <1>3, <1>9, <2>2 DEF Verify, Fails, progress
  <2> QED
    BY <1>9, <2>1, <2>2 DEF Verify
<1>10. CASE Settle \/ Restart
  BY <1>3, <1>10 DEF Settle, Restart, progress
<1> QED
  BY <1>5, <1>6, <1>7, <1>8, <1>9, <1>10, <1>11, <1>12, <1>13 DEF Upload

(***************************************************************************)
(* A row says `confirmed`, which lets retention delete the audio, only     *)
(* when the server holds every segment of the composition announced and    *)
(* has found its chain right; a row copied by a reconciliation under way   *)
(* says no more, nor does a pass that is cut short.                        *)
(***************************************************************************)
THEOREM ConfirmedMeansVerified == Spec => []ConfirmedIsVerified
<1>1. TypeOK /\ ServerInv /\ [Next]_vars => ServerInv'
  BY ServerCommand, ServerUpload DEF Next
<1>2. ServerInv => ConfirmedIsVerified
  BY DEF ServerInv, DeclaredGood, ConfirmedIsVerified
<1> QED
  BY <1>1, <1>2, TypeInit, TypeStep, ServerInit, PTL DEF Spec
-----------------------------------------------------------------------------
(***************************************************************************)
(* The hash chain.                                                         *)
(***************************************************************************)
LEMMA RowsInit == Init => RowsInv
BY DEF Init, RowsInv, NoLinks, Rows, RecIdle

\* A reconciliation adds rows, and only from the journal it has read.
LEMMA OneMoreRow ==
  ASSUME TypeOK, AppendSegment
  PROVE  \E i \in rec.listed :
           /\ links[i] = <<>> /\ \A j \in rec.listed : j < i => links[j] # <<>>
           /\ links' = [links EXCEPT ![i] = Link(i)]
           /\ Rows(links)' = Rows(links) \cup {i}
           /\ \A j \in Idx \ {i} : links'[j] = links[j]
           /\ links'[i] = Link(i)
<1>1. PICK i \in New : (\A j \in New : i <= j) /\ links' = [links EXCEPT ![i] = Link(i)]
  BY DEF AppendSegment
<1>2. i \in rec.listed /\ i \in Idx /\ links[i] = <<>> /\ rec.listed \subseteq Idx
  BY <1>1 DEF New, TypeOK, TablesOK, RecType
<1>3. links'[i] = Link(i) /\ \A j \in Idx \ {i} : links'[j] = links[j]
  BY <1>1, <1>2 DEF TypeOK, TablesOK, Chains
<1>4. Rows(links)' = Rows(links) \cup {i}
  BY <1>2, <1>3, LinkType DEF Rows
<1>5. \A j \in rec.listed : j < i => links[j] # <<>>
  BY <1>1, <1>2 DEF New, Idx
<1> QED
  BY <1>1, <1>2, <1>3, <1>4, <1>5

\* What every other step leaves alone.
LEMMA LinksAlone ==
  ASSUME [Next]_vars, ~AppendSegment
  PROVE  UNCHANGED links
BY DEF Next, Record, Replay, Command, Look, Upsert, InsertTrack, SetFinalLink, Listed,
   SetPaused, CheckRetry, SetPending, Upload, Restart, Pick, BuildManifest, BeginUpload, Register,
   InitUpload, SendPart, SendInVain, Complete, SetUploaded, Verify, Settle, manifest, vars

LEMMA JournalGrows ==
  ASSUME [Next]_vars
  PROVE  listed \subseteq listed' /\ (~Record => UNCHANGED listed)
BY DEF Next, Record, Directory!Next, Directory!Work, Directory!Recovered, Directory!Stopped,
   Replay, Command, Look, Upsert, InsertTrack, AppendSegment, SetFinalLink, Listed, SetPaused,
   CheckRetry, SetPending, Upload, Restart, Pick, BuildManifest, BeginUpload, Register,
   InitUpload, SendPart, SendInVain, Complete, SetUploaded, Verify, Settle, archive, manifest, vars

\* What a reconciliation has read of the journal.
LEMMA JournalRead ==
  ASSUME TypeOK, [Next]_vars
  PROVE  \/ rec'.at # "idle" /\ rec'.listed = listed /\ UNCHANGED listed
         \/ rec'.at # "idle" /\ rec.at # "idle" /\ rec'.listed = rec.listed
         \/ rec' = RecIdle
         \/ rec' = rec
<1>1. rec \in RecType
  BY DEF TypeOK, TablesOK
<1>2. CASE Replay
  BY <1>2 DEF Replay, archive
<1>5. CASE InsertTrack
  <2>1. rec'.at = "segments" /\ rec'.listed = listed
    BY <1>1, <1>5 DEF InsertTrack, RecType
  <2> QED
    BY <1>5, <2>1 DEF InsertTrack, archive
<1>3. CASE Look \/ CheckRetry \/ Upsert \/ SetFinalLink \/ SetPending
  BY <1>1, <1>3 DEF Look, CheckRetry, Upsert, SetFinalLink, SetPending, Rec, RecType
<1>4. CASE Record \/ AppendSegment \/ Listed \/ SetPaused \/ Upload \/ Restart \/ UNCHANGED vars
  BY <1>4 DEF Record, AppendSegment, Listed, SetPaused, Upload, Restart, Pick, BuildManifest,
     BeginUpload, Register, InitUpload, SendPart, SendInVain, Complete, SetUploaded,
     Verify, Settle, vars
<1> QED
  BY <1>2, <1>3, <1>4, <1>5 DEF Next, Command

LEMMA RowsStep ==
  ASSUME TypeOK, RowsInv, [Next]_vars
  PROVE  RowsInv'
<1>1. listed \subseteq listed'
  BY JournalGrows
<1>2. CASE AppendSegment
  <2>1. UNCHANGED <<rec, listed>> /\ rec.at = "segments"
    BY <1>2 DEF AppendSegment, archive
  <2> QED
    BY <1>2, <2>1, OneMoreRow DEF RowsInv
<1>3. CASE ~AppendSegment
  <2>1. Rows(links)' = Rows(links)
    BY <1>3, LinksAlone DEF Rows
  <2> QED
    BY <1>1, <2>1, JournalRead DEF RowsInv, RecIdle
<1> QED
  BY <1>2, <1>3

(***************************************************************************)
(* One chain, when the journal has no gap.                                 *)
(***************************************************************************)
LEMMA ChainInit == Init => ChainInv
BY DEF Init, Directory!Init, RecIdle, NoLinks, ChainInv, Prefix, Rows, Chained

\* The next segment is chained to the last row: all segments before it have one.
LEMMA ChainAppend ==
  ASSUME TypeOK, RowsInv, ChainInv, AppendSegment
  PROVE  Prefix(Rows(links)') /\ Chained(links')
<1>1. PICK i \in rec.listed :
        /\ links[i] = <<>> /\ \A j \in rec.listed : j < i => links[j] # <<>>
        /\ Rows(links)' = Rows(links) \cup {i}
        /\ \A j \in Idx \ {i} : links'[j] = links[j]
        /\ links'[i] = Link(i)
  BY OneMoreRow
<1>2. rec.at = "segments" /\ rec.listed \subseteq Idx /\ i \in Idx
  BY <1>1 DEF AppendSegment, TypeOK, TablesOK, RecType
<1>3. /\ i \notin Rows(links)
      /\ \A j \in Idx : j < i => j \in Rows(links) /\ j \in rec.listed
  BY <1>1, <1>2 DEF Rows, ChainInv, Prefix
<1>4. \A j \in Rows(links) : j < i
  BY <1>2, <1>3 DEF Rows, ChainInv, Prefix, Idx
<1>5. Prefix(Rows(links)')
  BY <1>1, <1>2, <1>3, <1>4 DEF Prefix, ChainInv, Rows, Idx
<1>6. ASSUME NEW k \in Rows(links')
      PROVE  links'[k] = Append(LET before == {j \in Rows(links') : j < k} IN
                                IF before = {} THEN <<>> ELSE links'[MaxOf(before)], k)
  <2> DEFINE before == {j \in Rows(links) : j < k}
  <2>1. Rows(links') = Rows(links) \cup {i}
    BY <1>1 DEF Rows
  <2>2. k \in Idx /\ (k = i \/ (k \in Rows(links) /\ k < i))
    BY <1>2, <1>4, <2>1 DEF Rows
  <2>3. {j \in Rows(links') : j < k} = before
    BY <1>2, <2>1, <2>2 DEF Idx
  <2>4. before # {} => MaxOf(before) \in before
    BY MaxExists DEF Rows
  <2>5. before # {} => links'[MaxOf(before)] = links[MaxOf(before)]
    BY <1>1, <1>3, <2>4 DEF Rows
  <2>6. links'[k] = Append(IF before = {} THEN <<>> ELSE links[MaxOf(before)], k)
    <3>1. CASE k = i
      <4>1. {j \in rec.listed : j < i} = before
        BY <1>2, <1>3, <3>1 DEF RowsInv
      <4> QED
        BY <1>1, <3>1, <4>1 DEF Link
    <3>2. CASE k \in Rows(links) /\ k # i
      BY <1>1, <2>2, <3>2 DEF ChainInv, Chained
    <3> QED
      BY <2>2, <3>1, <3>2, <1>3
  <2> HIDE DEF before
  <2> QED
    BY <2>3, <2>5, <2>6
<1> QED
  BY <1>5, <1>6 DEF Chained

LEMMA ChainStep ==
  ASSUME ~Gaps, TypeOK, RowsInv, ChainInv, [Next]_vars
  PROVE  ChainInv'
<1>1. Prefix(listed')
  <2>1. CASE Record
    BY <2>1 DEF Record, Directory!Next, Directory!Work, Directory!Recovered, Directory!Stopped,
       ChainInv, Prefix
  <2>2. CASE ~Record
    BY <2>2, JournalGrows DEF ChainInv
  <2> QED
    BY <2>1, <2>2
<1>2. Prefix(rec'.listed)
  BY JournalRead DEF ChainInv, RecIdle, Prefix
<1>3. Prefix(Rows(links)') /\ Chained(links')
  <2>1. CASE AppendSegment
    BY <2>1, ChainAppend
  <2>2. CASE ~AppendSegment
    BY <2>2, LinksAlone DEF ChainInv, Rows, Chained
  <2> QED
    BY <2>1, <2>2
<1> QED
  BY <1>1, <1>2, <1>3 DEF ChainInv, Rows

(***************************************************************************)
(* Of a journal without gaps, the table of segments is at every moment one *)
(* chain from the first segment on, so a pass of the scheduler that reads  *)
(* it between two statements of a reconciliation, or after a crash there,  *)
(* announces a chain the server can verify.                                *)
(***************************************************************************)
THEOREM ChainAtEveryMoment == ~Gaps => (Spec => []ChainIntact)
<1> SUFFICES ASSUME ~Gaps PROVE Spec => []ChainIntact
  OBVIOUS
<1>1. TypeOK /\ RowsInv /\ ChainInv /\ [Next]_vars => RowsInv' /\ ChainInv'
  BY RowsStep, ChainStep
<1>2. ChainInv => ChainIntact
  BY DEF ChainInv, ChainIntact
<1> QED
  BY <1>1, <1>2, TypeInit, TypeStep, RowsInit, ChainInit, PTL DEF Spec

(***************************************************************************)
(* The final link, when no restart cuts a reconciliation short.            *)
(***************************************************************************)
LEMMA FinalInit == Init => FinalInv
BY DEF Init, RecIdle, NoLinks, FinalInv, Rows

LEMMA FinalStep ==
  ASSUME "crash" \notin Faults, TypeOK, RowsInv, FinalInv, [Next]_vars
  PROVE  FinalInv'
<1>1. rec \in RecType /\ links \in Chains
  BY DEF TypeOK, TablesOK
<1>2. CASE AppendSegment
  <2>1. UNCHANGED <<rec, final>> /\ rec.at = "segments"
    BY <1>2 DEF AppendSegment
  <2>2. Rows(links)' # {}
    BY <1>2, OneMoreRow
  <2> QED
    BY <2>1, <2>2 DEF FinalInv
<1>3. CASE SetFinalLink
  <2>1. rec.at = "segments" /\ rec'.at = "done" /\ rec'.listed = rec.listed /\ UNCHANGED links
    BY <1>1, <1>3 DEF SetFinalLink, Rec, RecType
  <2>2. rec.listed \subseteq Idx /\ Rows(links) = rec.listed
    BY <1>1, <1>3, <2>1 DEF SetFinalLink, New, Rows, RowsInv, RecType
  <2>3. final' = IF rec.listed = {} THEN final ELSE links[MaxOf(rec.listed)]
    BY <1>3 DEF SetFinalLink, LinkOfLast
  <2> QED
    BY <2>1, <2>2, <2>3 DEF FinalInv, Rows
<1>4. CASE InsertTrack
  <2>1. rec'.at = "segments" /\ final' = <<>>
    BY <1>1, <1>4 DEF InsertTrack, RecType
  <2> QED
    BY <2>1 DEF FinalInv
<1>5. CASE Look
  <2>1. UNCHANGED <<links, final>> /\ rec.at = "look" /\ rec'.listed = rec.listed
    BY <1>1, <1>5 DEF Look, manifest, RecType
  <2>2. Settled => Rows(links) \in {{}, rec.listed}
    <3>1. rec.listed \subseteq Idx /\ Rows(links) \subseteq rec.listed
      BY <1>1, <2>1 DEF RowsInv, RecType
    <3>2. IsFiniteSet(rec.listed) /\ IsFiniteSet(Rows(links))
      <4>1. 1 \in Int /\ Segments \in Int
        BY SyncAssumption
      <4>2. IsFiniteSet(Idx)
        BY <4>1, FS_Interval DEF Idx
      <4> QED
        BY <1>1, <3>1, <4>2, FS_Subset DEF RecType
    <3>3. Cardinality(Rows(links)) = 0 => Rows(links) = {}
      BY <3>2, FS_EmptySet
    <3>4. Cardinality(Rows(links)) = Cardinality(rec.listed) => Rows(links) = rec.listed
      BY <3>1, <3>2, FS_Subset
    <3> QED
      BY <3>3, <3>4 DEF Settled
  <2>3. rec'.at \in {"done", "upsert"} /\ (rec'.at = "done" => Settled)
    BY <1>1, <1>5 DEF Look, RecType
  <2> QED
    BY <2>1, <2>2, <2>3 DEF FinalInv, Rows
<1>6. CASE Upsert
  BY <1>1, <1>6 DEF Upsert, Rec, FinalInv, Rows, RecType
<1>7. CASE Replay \/ Listed \/ SetPaused \/ CheckRetry \/ SetPending
  <2>1. UNCHANGED <<links, final>> /\ rec.at # "segments" /\ rec'.at \notin {"segments", "done"}
    BY <1>1, <1>7 DEF Replay, Listed, SetPaused, CheckRetry, SetPending, Rec,
       RecIdle, manifest, RecType
  <2> QED
    BY <2>1 DEF FinalInv, Rows
<1>8. CASE Record \/ Upload \/ UNCHANGED vars
  <2>1. UNCHANGED <<links, final, rec>>
    BY <1>8 DEF Record, Upload, Pick, BuildManifest, BeginUpload, Register, InitUpload,
       SendPart, SendInVain,
       Fails, Fault, Complete, SetUploaded, Verify, Settle, manifest, vars
  <2> QED
    BY <2>1 DEF FinalInv, Rows
<1> QED
  BY <1>2, <1>3, <1>4, <1>5, <1>6, <1>7, <1>8 DEF Next, Command, Restart, Fault

(***************************************************************************)
(* Without a restart in the middle, a reconciliation that ends or finds    *)
(* nothing to do leaves the final link of the last segment it has read,    *)
(* with gaps in the journal and for both layouts of a session.             *)
(***************************************************************************)
THEOREM FinalLinkIsSet == "crash" \notin Faults => (Spec => []FinalLinkSet)
<1> SUFFICES ASSUME "crash" \notin Faults PROVE Spec => []FinalLinkSet
  OBVIOUS
<1>1. TypeOK /\ RowsInv /\ FinalInv /\ [Next]_vars => RowsInv' /\ FinalInv'
  BY RowsStep, FinalStep
<1>2. TypeOK /\ FinalInv => FinalLinkSet
  <2> SUFFICES ASSUME TypeOK, FinalInv, rec.at = "done", rec.listed # {}
               PROVE  final = links[MaxOf(rec.listed)]
    BY DEF FinalLinkSet
  <2>1. MaxOf(rec.listed) \in Idx
    BY MaxExists DEF TypeOK, TablesOK, RecType
  <2> QED
    BY <2>1 DEF FinalInv, Rows
<1> QED
  BY <1>1, <1>2, TypeInit, TypeStep, RowsInit, FinalInit, PTL DEF Spec
=============================================================================
