------------------------------ MODULE Copying ------------------------------
(* The export of a session whose files are damaged, or removed by the        *)
(* retention, between one export and the next and before a disc is burnt.    *)
EXTENDS ExportPackage, Retention

copyingVars == <<storeVars, commands, exportVars, now>>

CopyingInit == StoreInit /\ ExportInit /\ RetentionInit

CopyingNext ==
  \/ ExportNext /\ UNCHANGED now
  \/ RetentionNext /\ UNCHANGED exportVars
  \/ Damage /\ UNCHANGED <<exportVars, now>>

CopyingSpec == CopyingInit /\ [][CopyingNext]_copyingVars
=============================================================================
