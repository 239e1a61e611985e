------------------------------ MODULE BoundedQueue ------------------------------
(***************************************************************************)
(* What the ring buffer between the audio callback and the consumer thread *)
(* promises (audio/ring.rs, module comment): of the samples offered, those *)
(* that find room are delivered, each once and in the order they were      *)
(* offered in; the rest of a block that does not fit is dropped.           *)
(***************************************************************************)
EXTENDS Naturals, Sequences

CONSTANT Capacity   \* samples the queue holds

VARIABLES
  offered,    \* samples offered so far; a sample is known by its number
  queue,      \* samples waiting
  delivered   \* samples the consumer has got

Init == offered = 0 /\ queue = <<>> /\ delivered = <<>>

\* A block of n samples is offered and the first k of them find room.
Accept(n, k) ==
  /\ k <= n /\ k <= Capacity - Len(queue)
  /\ offered' = offered + n
  /\ queue' = queue \o [j \in 1 .. k |-> offered + j]
  /\ UNCHANGED delivered

Offer ==
  /\ offered' \in Nat /\ offered' > offered
  /\ \E k \in 0 .. Capacity - Len(queue) : Accept(offered' - offered, k)

\* The consumer gets the first k samples.
Hand(k) ==
  /\ k <= Len(queue)
  /\ delivered' = delivered \o SubSeq(queue, 1, k)
  /\ queue' = SubSeq(queue, k + 1, Len(queue))
  /\ UNCHANGED offered

Take == \E k \in 1 .. Len(queue) : Hand(k)

Spec == Init /\ [][Offer \/ Take]_<<offered, queue, delivered>>
=============================================================================
