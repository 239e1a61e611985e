---------------------------- MODULE MCPlayback ----------------------------
(* Two tracks that were started together.  Track 0 has a pause between its   *)
(* segments, track 1 lost its device before it.                              *)
EXTENDS Playback

Segment(t, i, n, ms) == [track |-> t, index |-> i, frames |-> n, at |-> ms]

TwoTracks == {Segment(0, 0, 2, 1000), Segment(0, 1, 2, 9000), Segment(1, 0, 1, 1000),
              Segment(1, 1, 0, 9000)}
TwoRows == <<0, 1>>

=============================================================================
