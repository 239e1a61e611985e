---------------------------- MODULE SessionArchive ----------------------------
(***************************************************************************)
(* What a session directory promises to the manifest, the hash chain and   *)
(* the upload, which are all built from the journal: while the session is  *)
(* open only segments that are not listed change; a listed segment never   *)
(* changes again; and a session is reported recovered or stopped only when *)
(* every segment with audio in it is listed, after which nothing changes.  *)
(***************************************************************************)
EXTENDS Naturals

CONSTANTS Idx,    \* segment indexes
          Frames, \* how much audio a segment may hold
          Ordered \* segments are listed in the order of their indexes

VARIABLES
  kept,    \* frames of each segment that can be got back
  listed,  \* segments the journal names
  state    \* "open", then "recovered" (stopped after that or not) or "stopped"

archive == <<kept, listed, state>>

Init == kept = [i \in Idx |-> 0] /\ listed = {} /\ state = "open"

Complete == \A i \in Idx : kept[i] > 0 => i \in listed

\* Recording, crashing and recovering, as long as the session is open.
Work ==
  /\ state = "open"
  /\ kept' \in [Idx -> Frames]
  /\ \A i \in listed : kept'[i] = kept[i]
  /\ listed' \in SUBSET Idx /\ listed \subseteq listed'
  /\ Ordered => \A i \in listed', j \in Idx : j < i => j \in listed'
  /\ UNCHANGED state

Recovered ==
  /\ state = "open" /\ Complete
  /\ state' = "recovered"
  /\ UNCHANGED <<kept, listed>>

Stopped ==
  /\ state = "open" /\ Complete
  /\ state' = "stopped"
  /\ UNCHANGED <<kept, listed>>

Next == Work \/ Recovered \/ Stopped

Spec == Init /\ [][Next]_archive
=============================================================================
