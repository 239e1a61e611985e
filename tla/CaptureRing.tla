------------------------------- MODULE CaptureRing -------------------------------
(***************************************************************************)
(* The lock-free single-producer single-consumer ring buffer between the   *)
(* audio callback and the consumer thread (audio/ring.rs), one atomic or   *)
(* one cell access per step.  Release/acquire on head and tail orders the  *)
(* cell accesses, so the steps interleave.  A sample is known by its       *)
(* number; sample s belongs to channel (s - 1) % Channels.                 *)
(***************************************************************************)
EXTENDS Naturals, Sequences

CONSTANTS
  Capacity,    \* cells of the buffer
  Channels,    \* channels of the device: the callback delivers whole frames
  Modulus,     \* head and tail wrap here (usize)
  MaxBlock,    \* bound: frames of one callback
  MaxSamples   \* bound: samples offered

\* A 64-bit counter does not live to wrap (MaxSamples < Modulus); one that wraps
\* keeps slots in step only if the capacity divides its range.
ASSUME RingAssumption ==
  /\ Capacity \in Nat \ {0} /\ Channels \in Nat \ {0}
  /\ Modulus \in Nat /\ Modulus > Capacity
  /\ MaxBlock \in Nat \ {0} /\ MaxSamples \in Nat
  /\ Modulus % Capacity = 0 \/ MaxSamples < Modulus

VARIABLES
  cell,       \* RingBuffer::buf
  head,       \* RingBuffer::head, moved by the producer
  tail,       \* RingBuffer::tail, moved by the consumer
  dropped,    \* RingBuffer::dropped
  push,       \* push_slice under way: where it is, its locals
  pop,        \* pop_slice under way: where it is, its locals
  block,      \* what pop_slice has read into `out`
  offered,    \* history: samples the callback was given
  delivered   \* history: samples pop_slice has returned

vars == <<cell, head, tail, dropped, push, pop, block, offered, delivered>>

Wrap(n) == n % Modulus
WrapSub(a, b) == (a + Modulus - b) % Modulus
Slot(n) == Wrap(n) % Capacity
Lesser(a, b) == IF a < b THEN a ELSE b

NoPush == [at |-> "idle", size |-> 0, todo |-> 0, i |-> 0]
NoPop  == [at |-> "idle", todo |-> 0, i |-> 0]

Init ==
  /\ cell = [c \in 0 .. Capacity - 1 |-> 0]
  /\ head = 0 /\ tail = 0 /\ dropped = 0
  /\ push = NoPush /\ pop = NoPop /\ block = <<>>
  /\ offered = 0 /\ delivered = <<>>

FreeAlways == Capacity                    \* planted bug: tail not looked at
FreeOneLess == Capacity - 1 - WrapSub(head, tail)  \* planted bug: one cell kept
\* Cells push_slice may fill, from its own head and the tail it loads.
Free == Capacity - WrapSub(head, tail)

\* push_slice: load tail and decide how much of the block fits.
LoadTail ==
  /\ push.at = "idle"
  /\ \E f \in 1 .. MaxBlock :
       /\ offered + f * Channels <= MaxSamples
       /\ push' = [at |-> "cells", size |-> f * Channels,
                   todo |-> Lesser(f * Channels, Free), i |-> 0]
  /\ UNCHANGED <<cell, head, tail, dropped, pop, block, offered, delivered>>

WriteCell ==
  /\ push.at = "cells" /\ push.i < push.todo
  /\ cell' = [cell EXCEPT ![Slot(head + push.i)] = offered + push.i + 1]
  /\ push' = [push EXCEPT !.i = @ + 1]
  /\ UNCHANGED <<head, tail, dropped, pop, block, offered, delivered>>

DroppedPerBlock(p) == 1                   \* planted bug: counts blocks
DroppedOf(p) == p.size - p.todo

\* Publish the new head; what did not fit is counted next.
PublishHead ==
  /\ push.at = "cells" /\ push.i = push.todo
  /\ head' = Wrap(head + push.todo)
  /\ offered' = offered + push.size
  /\ push' = IF DroppedOf(push) > 0 THEN [push EXCEPT !.at = "drop"] ELSE NoPush
  /\ UNCHANGED <<cell, tail, dropped, pop, block, delivered>>

CountDropped ==
  /\ push.at = "drop"
  /\ dropped' = dropped + DroppedOf(push)
  /\ push' = NoPush
  /\ UNCHANGED <<cell, head, tail, pop, block, offered, delivered>>

\* pop_slice: load head and decide how much to read.  The consumer's scratch
\* buffer is as large as the ring.
LoadHead ==
  /\ pop.at = "idle" /\ WrapSub(head, tail) > 0
  /\ pop' = [at |-> "cells", i |-> 0,
             todo |-> Lesser(Capacity, WrapSub(head, tail))]
  /\ UNCHANGED <<cell, head, tail, dropped, push, block, offered, delivered>>

ReadCell ==
  /\ pop.at = "cells" /\ pop.i < pop.todo
  /\ block' = Append(block, cell[Slot(tail + pop.i)])
  /\ pop' = [pop EXCEPT !.i = @ + 1]
  /\ UNCHANGED <<cell, head, tail, dropped, push, offered, delivered>>

ReadEnough == TRUE                        \* planted bug: tail moves first
ReadAll == pop.i = pop.todo

PublishTail ==
  /\ pop.at = "cells" /\ ReadAll
  /\ tail' = Wrap(tail + pop.todo)
  /\ delivered' = delivered \o block
  /\ block' = <<>> /\ pop' = NoPop
  /\ UNCHANGED <<cell, head, dropped, push, offered>>

Producer == LoadTail \/ WriteCell \/ PublishHead \/ CountDropped
Consumer == LoadHead \/ ReadCell \/ PublishTail

Next == Producer \/ Consumer

Spec == Init /\ [][Next]_vars

-----------------------------------------------------------------------------
Unwritten == {Slot(head + j) : j \in push.i .. push.todo - 1}
Unread    == {Slot(tail + j) : j \in pop.i .. pop.todo - 1}

(***************************************************************************)
(* No cell is written by the callback while the consumer reads it (the     *)
(* SAFETY comment of ring.rs): what push_slice has still to fill is        *)
(* disjoint from what pop_slice has still to read.                         *)
(***************************************************************************)
NoSharedCell == Unwritten \cap Unread = {}

(***************************************************************************)
(* Between two callbacks every sample is accounted for: delivered, waiting *)
(* in the ring, or counted in `dropped` (the xrun signal).                 *)
(***************************************************************************)
NothingUnaccounted ==
  push.at = "idle" =>
    offered = Len(delivered) + WrapSub(head, tail) + dropped

(***************************************************************************)
(* The samples handed out in one read are interleaved frames: the consumer *)
(* takes the k-th of them for channel (k - 1) % Channels                   *)
(* (convert::select_channel, downmix).                                     *)
(***************************************************************************)
ChannelsInPlace ==
  \A k \in 1 .. Len(block) : (block[k] - 1) % Channels = (k - 1) % Channels

\* The ring implements a bounded queue: the cells from tail to head are the
\* queue, a push takes effect with head and a pop with tail.
Queue == INSTANCE BoundedQueue WITH
  queue <- [k \in 1 .. WrapSub(head, tail) |-> cell[Slot(tail + k - 1)]]

ImplementsQueue == Queue!Spec
=============================================================================
