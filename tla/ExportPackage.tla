--------------------------- MODULE ExportPackage ---------------------------
(* A copy of a session for somebody outside: the checks and the log of       *)
(* ipc/export_cmds.rs, the package written file by file (export/package.rs,  *)
(* audio.rs, flac.rs, manifest.rs, html.rs) and its burning on a disc        *)
(* (export/dvd.rs).  The folder is named after the case and the day, so a    *)
(* second export goes into the first one's files.                            *)
EXTENDS SessionStore

CONSTANTS
  Policies,      \* values export.policy takes; it is read by each command
  Formats,       \* the formats chosen: "flac", "wav"
  Stem,          \* sanitize_filename of a track's label, or of its role
  ExportFaults,  \* "io": a write may fail; "burn": the burning may fail
  MaxFailures    \* bound: exports that fail

VARIABLES
  folder,        \* the files of the package folder, by name
  failures       \* exports that failed so far (bound)

exportVars == <<folder, failures>>

Torn == [torn |-> TRUE]           \* a file whose writing was cut short
Removed == [removed |-> TRUE]     \* a write that takes the file away
AllTracks == -2
MixOfAll == -1                    \* the two compositions that are no track

\* check_policy
Permission(policy, confirmed) ==
  CASE policy = "forbidden" -> "denied"
    [] policy = "requires_confirmation" /\ ~confirmed -> "needs_confirmation"
    [] OTHER -> "allowed"

Audio(tracks, frames) == [tracks |-> tracks, frames |-> frames]

\* What the operator may choose: every track, the mix, or one of the tracks.
Compositions == {AllTracks, MixOfAll} \union TrackIds
PlannedTracks(comp) == IF comp < 0 THEN ResolveTracks ELSE <<comp>>

\* Planted bug: segments that cannot be read are passed over, as the player does.
JoinsWhatItCan(t) == TimelineOf(t).total > 0

\* A track is joined from all its segments or not at all: the first one that
\* is missing or damaged is an error, and so is a track without a frame.
Joins(t) ==
  LET tl == TimelineOf(t)
  IN  tl.total > 0 /\ \A i \in DOMAIN tl.segs : Readable(tl.segs[i])

\* The frames a join copies, segment by segment: those it could read.
JoinedFrames(t) ==
  LET segs == TimelineOf(t).segs
      written[i \in 0 .. Len(segs)] ==
        IF i = 0 THEN 0
        ELSE written[i-1] + IF Readable(segs[i]) THEN segs[i].frames ELSE 0
  IN  written[Len(segs)]

\* The mix ends with its shortest track.  The tracks before the first one that
\* ends have been asked for one frame more than those behind it.
MixFrames == Min({TimelineOf(ResolveTracks[i]).total : i \in DOMAIN ResolveTracks})
JoinsMix ==
  LET first == Min({i \in DOMAIN ResolveTracks : TimelineOf(ResolveTracks[i]).total = MixFrames})
  IN  /\ MixFrames > 0
      /\ \A i \in DOMAIN ResolveTracks :
           LET tl == TimelineOf(ResolveTracks[i])
               asked == IF i <= first THEN MixFrames ELSE MixFrames - 1
           IN  \A j \in DOMAIN tl.segs : tl.segs[j].start <= asked => Readable(tl.segs[j])

\* Planted bug: the markers keep the offsets of the wall clock.
KeepAnnotations(comp) == {MsToFrames(o) : o \in MarkerAt}

\* project_annotations: the markers move from the wall clock to the axis of
\* the first planned track, where the pauses are cut out.
ProjectAnnotations(comp) ==
  {FrameForMarker(TimelineOf(PlannedTracks(comp)[1]), StartedAt, o) : o \in MarkerAt}

\* The writes of one audio file.  A FLAC file is made from the WAV file, which
\* goes when the FLAC file is complete.
AudioWrites(name, audio, format) ==
  IF format = "wav" THEN <<[name |-> <<name, "wav">>, put |-> audio]>>
  ELSE << [name |-> <<name, "wav">>, put |-> audio],
          [name |-> <<name, "flac">>, put |-> audio],
          [name |-> <<name, "wav">>, put |-> Removed] >>

WritesOf(format) == IF format = "wav" THEN 1 ELSE 3

\* The planned tracks one after the other.
Separate(comp, format) ==
  LET planned == PlannedTracks(comp)
      each == WritesOf(format)
  IN  [k \in 1 .. each * Len(planned) |->
         LET t == planned[(k - 1) \div each + 1]
         IN  AudioWrites(Stem[t], Audio({t}, JoinedFrames(t)), format)[((k - 1) % each) + 1]]

PackageAudio(comp, format) ==
  IF comp = MixOfAll
  THEN AudioWrites("mix", Audio(TrackIds, MixFrames), format)
  ELSE Separate(comp, format)

\* The entry of a file holds the hash of what it was when it had been written.
\* Of the three writes of a FLAC file the second one stays.
FileEntries(audio, format) ==
  LET each == WritesOf(format)
      Kept(i) == audio[each * (i - 1) + Lesser(each, 2)]
  IN  [i \in 1 .. Len(audio) \div each |-> [name |-> Kept(i).name, hash |-> Kept(i).put]]

\* build_package: audio, markers, player, and the manifest as the last file.
PackageFiles(audio, entries, comp) ==
  audio \o << [name |-> <<"markers", "json">>, put |-> [markers |-> ProjectAnnotations(comp)]],
              [name |-> <<"player", "html">>, put |-> [player |-> entries]],
              [name |-> <<"manifest", "json">>, put |-> [entries |-> entries]] >>

\* The sequence of writes (the set has one member, to be evaluated once).
PackageWrites(comp, format) ==
  {PackageFiles(audio, FileEntries(audio, format), comp) : audio \in {PackageAudio(comp, format)}}

\* The folder after some writes: the last one to a name counts.
AfterWrites(fs, ws) ==
  LET last == [n \in {ws[i].name : i \in DOMAIN ws} |->
                 ws[Max({i \in DOMAIN ws : ws[i].name = n})].put]
  IN  [n \in (DOMAIN fs \ DOMAIN last) \union {m \in DOMAIN last : last[m] # Removed} |->
         IF n \in DOMAIN last THEN last[n] ELSE fs[n]]

\* How far the writes get when every segment can be read, and when one cannot:
\* the audio files before the one that does not join.
Reach(comp, format, all) ==
  IF comp = MixOfAll THEN IF JoinsMix THEN all ELSE 0
  ELSE LET broken == {i \in DOMAIN PlannedTracks(comp) : ~Joins(PlannedTracks(comp)[i])}
       IN  IF broken = {} THEN all
           ELSE (Min(broken) - 1) * WritesOf(format)
-----------------------------------------------------------------------------
\* A refusal by the administrator goes into the log, if it can; an answer that
\* is still missing does not.
RefuseExport ==
  /\ Command /\ Reconciles
  /\ \E policy \in Policies : Permission(policy, TRUE) = "denied"
  /\ \/ AppendEvent("export_denied")
     \/ "io" \in ExportFaults /\ UNCHANGED events
  /\ UNCHANGED <<session, rows, present, damaged, exportVars>>

AskConfirmation ==
  /\ Command /\ Reconciles
  /\ \E policy \in Policies, confirmed \in BOOLEAN :
       Permission(policy, confirmed) = "needs_confirmation"
  /\ UNCHANGED <<storeVars, exportVars>>

Permitted == Command /\ Reconciles
             /\ \E policy \in Policies, confirmed \in BOOLEAN :
                  Permission(policy, confirmed) = "allowed"

\* The package is complete, and the export is logged.
BuildPackage ==
  /\ Permitted
  /\ \E comp \in Compositions, format \in Formats : \E ws \in PackageWrites(comp, format) :
       /\ Reach(comp, format, Len(ws)) = Len(ws)
       /\ folder' = AfterWrites(folder, ws)
  /\ AppendEvent("export_ok")
  /\ UNCHANGED <<session, rows, present, damaged, failures>>

\* The export ends with an error, or the station with a crash: after some of
\* the writes, the next one cut short perhaps.  After the last one it is the
\* event that is not written.
BuildFails ==
  /\ Permitted
  /\ failures < MaxFailures
  /\ failures' = failures + 1
  /\ \E comp \in Compositions, format \in Formats : \E ws \in PackageWrites(comp, format) :
       LET reach == Reach(comp, format, Len(ws))
       IN  \E n \in IF "io" \in ExportFaults THEN 0 .. reach ELSE {reach} \ {Len(ws)} :
             LET done == AfterWrites(folder, SubSeq(ws, 1, n))
             IN  \/ folder' = done
                 \/ /\ n < Len(ws) /\ ws[n + 1].put # Removed
                    /\ folder' = AfterWrites(done, <<[ws[n + 1] EXCEPT !.put = Torn]>>)
  /\ UNCHANGED storeVars

ManifestName == <<"manifest", "json">>
MarkersName == <<"markers", "json">>

\* verify_package_on_path, on the folder that was burnt.
VerifyPackageOnPath(root, entries) ==
  \A i \in DOMAIN entries :
    entries[i].name \in DOMAIN root /\ root[entries[i].name] = entries[i].hash

\* export_burn_dvd: what is verified is the folder, the disc is not read.
BurnDvd ==
  /\ Command /\ Reconciles
  /\ ManifestName \in DOMAIN folder /\ folder[ManifestName] # Torn
  /\ AppendEvent(IF VerifyPackageOnPath(folder, folder[ManifestName].entries) THEN "dvd_ok" ELSE "dvd_failed")
  /\ UNCHANGED <<session, rows, present, damaged, exportVars>>

\* No drive, no tool, or the tool reports an error: nothing is logged.
BurnFails ==
  /\ Command /\ Reconciles
  /\ "burn" \in ExportFaults
  /\ ManifestName \in DOMAIN folder /\ folder[ManifestName] # Torn
  /\ UNCHANGED <<storeVars, exportVars>>

ExportInit ==
  /\ failures = 0
  /\ folder = [n \in {} |-> Torn]

ExportNext ==
  RefuseExport \/ AskConfirmation \/ BuildPackage \/ BuildFails \/ BurnDvd \/ BurnFails
-----------------------------------------------------------------------------
\* An export enters the log as successful only with every frame of the tracks
\* it copies in the files its manifest lists: a damaged segment, a full disk
\* or a crash ends it without that event, whatever it leaves in the folder.
OkMeansWhole ==
  [][ Len(events') > Len(events) /\ events'[Len(events')] = "export_ok" =>
        \A i \in DOMAIN folder'[ManifestName].entries :
          LET e == folder'[ManifestName].entries[i]
          IN  /\ e.hash.frames = Min({TimelineOf(t).total : t \in e.hash.tracks})
              /\ e.name \in DOMAIN folder'
              /\ e.hash.tracks = folder'[e.name].tracks => folder'[e.name] = e.hash
    ]_<<storeVars, exportVars>>

\* A marker of a package lies inside a track of the session, however long the
\* pauses before it were: the clock's offset alone would not.
MarkersInsideRecording ==
  MarkersName \in DOMAIN folder /\ folder[MarkersName] # Torn =>
    \A f \in folder[MarkersName].markers :
      \E i \in DOMAIN ResolveTracks : f < Recorded[ResolveTracks[i]].total
=============================================================================
