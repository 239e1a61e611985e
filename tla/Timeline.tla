------------------------------ MODULE Timeline ------------------------------
(* The axis of frames of one track: the rows of the manifest put end to end  *)
(* (player/timeline.rs), and the two ways into it, by frame (a seek) and by  *)
(* the wall clock (a marker).  Pauses leave no frames, so the axis is        *)
(* shorter than the clock.  A row is [track, index, frames, at], `at` being  *)
(* the millisecond at which the segment was opened.                          *)
EXTENDS Integers, Sequences, FiniteSets, FiniteSetsExt

CONSTANT Rate                      \* sample_rate_hz of the session
ASSUME RateAssumption == Rate \in Nat \ {0}

SaturatingSub(a, b) == IF a > b THEN a - b ELSE 0
Lesser(a, b) == IF a < b THEN a ELSE b

FramesToMs(frames) == (frames * 1000) \div Rate
MsToFrames(ms) == (ms * Rate) \div 1000

\* The rows of one track in the order of their index, each with the number of
\* frames before it.  The last segment may be shorter, or empty.
Build(rows, track) ==
  LET own == {r \in rows : r.track = track}
      Nth(i) == CHOOSE r \in own : Cardinality({q \in own : q.index <= r.index}) = i
      cursor[i \in 1 .. Cardinality(own) + 1] ==
        IF i = 1 THEN 0 ELSE cursor[i-1] + Nth(i-1).frames
  IN  [ segs  |-> [i \in 1 .. Cardinality(own) |->
                     [ track  |-> track,
                       index  |-> Nth(i).index,
                       start  |-> cursor[i],
                       frames |-> Nth(i).frames,
                       at     |-> Nth(i).at ]],
        total |-> cursor[Cardinality(own) + 1] ]

\* The places (segment, offset) where the binary search may find a frame: an
\* empty segment starts where the next one does, and the search may return
\* either.  A frame behind the end is taken for the last one.
Locate(tl, frame) ==
  LET f == Lesser(frame, SaturatingSub(tl.total, 1))
      exact == {i \in DOMAIN tl.segs : tl.segs[i].start = f}
      below == {i \in DOMAIN tl.segs : tl.segs[i].start < f}
  IN  IF exact # {} THEN {<<i, 0>> : i \in exact}
      ELSE {<<i, f - tl.segs[i].start>> : i \in {j \in below : \A k \in below : k <= j}}

\* The frame recorded at a moment of the wall clock.  A moment in a pause is
\* taken for the last frame before it, one outside the recording for the
\* first or the last frame.
FrameAtWallClock(tl, at) ==
  LET segs == tl.segs
      End(i) == segs[i].at + FramesToMs(segs[i].frames)
      decided == {i \in DOMAIN segs : at < segs[i].at \/ at < End(i)}
      LastOf(i) == segs[i].start + SaturatingSub(segs[i].frames, 1)
  IN  IF decided = {} THEN SaturatingSub(tl.total, 1)
      ELSE LET i == Min(decided) IN
           IF at >= segs[i].at THEN segs[i].start + MsToFrames(at - segs[i].at)
           ELSE IF i = 1 THEN 0 ELSE LastOf(i - 1)

FrameForMarker(tl, startedAt, offset) == FrameAtWallClock(tl, startedAt + offset)
-----------------------------------------------------------------------------
\* What Build comes to: every segment starts where the one before it ends, the
\* first at frame 0, and the last ends with the track.
Axis(tl) ==
  /\ Len(tl.segs) \in Nat /\ DOMAIN tl.segs = 1 .. Len(tl.segs)
  /\ \A i \in 1 .. Len(tl.segs) :
       /\ tl.segs[i].start \in Nat /\ tl.segs[i].frames \in Nat /\ tl.segs[i].at \in Nat
       /\ tl.segs[i].start = IF i = 1 THEN 0 ELSE tl.segs[i-1].start + tl.segs[i-1].frames
  /\ tl.total = IF Len(tl.segs) = 0 THEN 0
                ELSE tl.segs[Len(tl.segs)].start + tl.segs[Len(tl.segs)].frames
=============================================================================
