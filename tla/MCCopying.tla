----------------------------- MODULE MCCopying -----------------------------
(* Two tracks with names of their own; track 0 has a pause between its       *)
(* segments.                                                                 *)
EXTENDS Copying

Segment(t, i, n, ms) == [track |-> t, index |-> i, frames |-> n, at |-> ms]

TwoTracks == {Segment(0, 0, 2, 1000), Segment(0, 1, 2, 9000), Segment(1, 0, 3, 1000)}
TwoRows == <<0, 1>>
OwnNames == [t \in {0, 1} |-> IF t = 0 THEN "judge" ELSE "defense"]

ASSUME Filled == OnlyLastEmpty
=============================================================================
