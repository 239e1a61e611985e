---------------------------- MODULE CaptureRing_proof ----------------------------
(***************************************************************************)
(* Theorems about the ring buffer for every capacity, number of channels,  *)
(* width of the counters, block length and number of samples.              *)
(*                                                                         *)
(* The counters of the program wrap; the histories do not.  The invariant  *)
(* says that head and tail are the unbounded counts of samples accepted    *)
(* and delivered, modulo the width, and that these counts are never more   *)
(* than a capacity apart.                                                  *)
(***************************************************************************)
EXTENDS CaptureRing, Integers, SequenceTheorems, TLAPS

\* Samples push_slice has published, and those pop_slice has returned.
Accepted  == offered - dropped - (IF push.at = "drop" THEN DroppedOf(push) ELSE 0)
Delivered == Len(delivered)

PushType == [at : {"idle", "cells", "drop"}, size : Nat, todo : Nat, i : Nat]
PopType  == [at : {"idle", "cells"}, todo : Nat, i : Nat]

RingType ==
  /\ cell \in [0 .. Capacity - 1 -> Nat]
  /\ head \in Nat /\ tail \in Nat /\ dropped \in Nat /\ offered \in Nat
  /\ push \in PushType /\ pop \in PopType
  /\ block \in Seq(Nat) /\ delivered \in Seq(Nat)

Counters ==
  /\ Accepted \in Nat
  /\ head = Accepted % Modulus /\ tail = Delivered % Modulus
  /\ Delivered <= Accepted /\ Accepted <= Delivered + Capacity
  /\ offered + (IF push.at = "cells" THEN push.size ELSE 0) <= MaxSamples

PushFits ==
  IF push.at = "cells"
  THEN /\ push.todo <= push.size /\ push.i <= push.todo
       /\ Accepted + push.todo <= Delivered + Capacity
  ELSE push.i = push.todo

PopFits ==
  /\ Len(block) = pop.i /\ pop.i <= pop.todo
  /\ Delivered + pop.todo <= Accepted
  /\ pop.at = "idle" => pop.todo = 0

DropFits == push.at = "drop" => push.todo <= push.size

RingInv == RingType /\ Counters /\ PushFits /\ PopFits /\ DropFits

-----------------------------------------------------------------------------
(***************************************************************************)
(* Arithmetic of counters.                                                 *)
(***************************************************************************)
LEMMA DivMod ==
  ASSUME NEW a \in Nat, NEW c \in Nat \ {0}
  PROVE  a = c * (a \div c) + (a % c) /\ a % c \in 0 .. c - 1 /\ a \div c \in Nat
BY Z3

LEMMA Multiples == 
  ASSUME NEW k \in Int, NEW c \in Nat \ {0}
  PROVE  /\ k >= 1 => c * k >= c
         /\ k >= 2 => c * k >= c + c
         /\ k <= -1 => c * k <= -c
         /\ k = 0 => c * k = 0 
         /\ k = 1 => c * k = c
BY Z3

LEMMA Distribute ==
  ASSUME NEW a \in Int, NEW b \in Int, NEW c \in Int
  PROVE  /\ c * (a + b) = c * a + c * b /\ c * (a - b) = c * a - c * b
         /\ c * a \in Int /\ c * b \in Int /\ a + b \in Int /\ a - b \in Int
BY Z3

\* Less than a capacity apart, two counts have different remainders.
LEMMA ModDistinct ==
  ASSUME NEW a \in Nat, NEW b \in Nat, NEW c \in Nat \ {0}, b < a, a - b < c
  PROVE  a % c # b % c
<1> DEFINE p == a \div c
           q == b \div c
<1>1. SUFFICES ASSUME a % c = b % c PROVE FALSE
  OBVIOUS
<1>2. a = c * p + (a % c) /\ b = c * q + (b % c) /\ p \in Nat /\ q \in Nat
  BY DivMod
<1>3. a - b = c * p - c * q
  BY <1>1, <1>2
<1>4. c * p - c * q = c * (p - q) /\ p - q \in Int
  BY <1>2
<1>5. p - q >= 1
  BY <1>2, <1>3, <1>4, Multiples
<1> QED
  BY <1>3, <1>4, <1>5, Multiples

\* A remainder is what is left after any multiple that leaves less than c.
LEMMA ModUnique ==
  ASSUME NEW a \in Nat, NEW c \in Nat \ {0}, NEW k \in Int, NEW r \in 0 .. c - 1,
         a = c * k + r
  PROVE  a % c = r
<1> DEFINE p == a \div c
<1>1. a = c * p + (a % c) /\ a % c \in 0 .. c - 1 /\ p \in Nat
  BY DivMod
<1>2. c * p - c * k = c * (p - k) /\ p - k \in Int /\ c * p \in Int /\ c * k \in Int
  BY <1>1, Distribute
<1>3. c * (p - k) = r - (a % c)
  <2> DEFINE z == a % c
  <2>1. z \in Int /\ a = c * p + z
    BY <1>1
  <2> HIDE DEF z, p
  <2>2. c * p + z = c * k + r
    BY <2>1
  <2>3. c * p - c * k = r - z
    <3> DEFINE u == c * p
               v == c * k
    <3>1. u \in Int /\ v \in Int /\ u + z = v + r
      BY <1>2, <2>2
    <3> HIDE DEF u, v
    <3>2. u - v = r - z
      BY <3>1, <2>1
    <3> QED
      BY <3>2 DEF u, v
  <2> QED
    BY <1>2, <2>3 DEF z
<1>4. p - k = 0
  BY <1>1, <1>2, <1>3, Multiples
<1> QED
  BY <1>1, <1>3, <1>4, Multiples

\* The distance of two wrapped counters is the distance of the counts.
LEMMA WrapDistance ==
  ASSUME NEW h \in Nat, NEW t \in Nat, NEW m \in Nat \ {0}, t <= h, h - t < m
  PROVE  (((h % m) + m) - (t % m)) % m = h - t
<1> DEFINE p == h \div m
           q == t \div m
           x == ((h % m) + m) - (t % m)
<1>1. h = m * p + (h % m) /\ h % m \in 0 .. m - 1 /\ p \in Nat
  BY DivMod
<1>2. t = m * q + (t % m) /\ t % m \in 0 .. m - 1 /\ q \in Nat
  BY DivMod
<1>3. m * (1 + q - p) = m + m * q - m * p /\ 1 + q - p \in Int
  BY <1>1, <1>2
<1>4. x = m * (1 + q - p) + (h - t) /\ x \in Nat
  BY <1>1, <1>2, <1>3
<1> HIDE DEF x
<1>5. h - t \in 0 .. m - 1
  OBVIOUS
<1>6. x % m = h - t
  BY <1>3, <1>4, <1>5, ModUnique
<1> QED
  BY <1>6 DEF x

LEMMA WrapSum ==
  ASSUME NEW a \in Nat, NEW b \in Nat, NEW m \in Nat \ {0}
  PROVE  ((a % m) + b) % m = (a + b) % m
<1> DEFINE p == a \div m
           y == (a % m) + b
<1>1. a = m * p + (a % m) /\ a % m \in 0 .. m - 1 /\ p \in Nat
  BY DivMod
<1>2. y \in Nat /\ a + b = m * p + y
  BY <1>1
<1> HIDE DEF y
<1>3. y = m * (y \div m) + (y % m) /\ y % m \in 0 .. m - 1 /\ y \div m \in Nat
  BY <1>2, DivMod
<1>4. m * (p + (y \div m)) = m * p + m * (y \div m) /\ p + (y \div m) \in Int
  <2> DEFINE e == y \div m
  <2>1. p \in Int /\ e \in Int /\ m \in Int
    BY <1>1, <1>3
  <2> HIDE DEF e, p
  <2>2. m * (p + e) = m * p + m * e /\ p + e \in Int
    BY <2>1, Distribute
  <2> QED
    BY <2>2 DEF e
<1>5. a + b = m * (p + (y \div m)) + (y % m)
  BY <1>2, <1>3, <1>4, <1>1
<1>6. (a + b) % m = y % m
  <2> DEFINE k == p + (y \div m)
             z == y % m
  <2>1. k \in Int /\ z \in 0 .. m - 1 /\ a + b = m * k + z /\ a + b \in Nat
    BY <1>3, <1>4, <1>5
  <2> HIDE DEF k, z
  <2>2. (a + b) % m = z
    BY <2>1, ModUnique
  <2> QED
    BY <2>2 DEF z
<1> QED
  BY <1>6 DEF y

\* A capacity that divides the width keeps slots in step across the wrap.
LEMMA ModOfMod ==
  ASSUME NEW a \in Nat, NEW m \in Nat \ {0}, NEW c \in Nat \ {0}, m % c = 0
  PROVE  (a % m) % c = a % c
<1> DEFINE p == a \div m
           d == m \div c
           r == a % m
<1>1. a = m * p + r /\ r \in Nat /\ p \in Nat
  BY DivMod
<1>2. m = c * d /\ d \in Nat
  BY DivMod
<1> HIDE DEF r, d, p
<1>3. r = c * (r \div c) + (r % c) /\ r % c \in 0 .. c - 1 /\ r \div c \in Nat
  BY <1>1, DivMod
<1>4. m * p = c * (d * p) /\ d * p \in Nat
  BY <1>1, <1>2
<1>5. c * (d * p + (r \div c)) = c * (d * p) + c * (r \div c) /\ d * p + (r \div c) \in Int
  <2> DEFINE e == r \div c
             f == d * p
  <2>1. e \in Int /\ f \in Int /\ c \in Int
    BY <1>3, <1>4
  <2> HIDE DEF e, f
  <2>2. c * (f + e) = c * f + c * e /\ f + e \in Int
    BY <2>1, Distribute
  <2> QED
    BY <2>2 DEF e, f
<1>6. a = c * (d * p + (r \div c)) + (r % c)
  BY <1>1, <1>3, <1>4, <1>5
<1>7. a % c = r % c
  BY <1>3, <1>5, <1>6, ModUnique
<1> QED
  BY <1>7 DEF r

-----------------------------------------------------------------------------
(***************************************************************************)
(* What the invariant says of the counters the code computes with.         *)
(***************************************************************************)
LEMMA FillLevel ==
  ASSUME RingType, Counters
  PROVE  WrapSub(head, tail) = Accepted - Delivered /\ Delivered \in Nat
<1>1. Accepted \in Nat /\ Delivered \in Nat /\ Modulus \in Nat \ {0}
  BY RingAssumption DEF Counters, RingType, Delivered
<1>2. Delivered <= Accepted /\ Accepted - Delivered < Modulus
  BY <1>1, RingAssumption DEF Counters
<1> HIDE DEF Accepted, Delivered
<1>3. (((Accepted % Modulus) + Modulus) - (Delivered % Modulus)) % Modulus
        = Accepted - Delivered
  BY <1>1, <1>2, WrapDistance
<1> QED
  BY <1>1, <1>3 DEF WrapSub, Counters

\* A counter that moves on by n stays the count, moved on by n, modulo the width.
LEMMA Advance ==
  ASSUME NEW a \in Nat, NEW n \in Nat
  PROVE  Wrap((a % Modulus) + n) = (a + n) % Modulus
<1>1. Modulus \in Nat \ {0}
  BY RingAssumption
<1> QED
  BY <1>1, WrapSum DEF Wrap

LEMMA CountersExist ==
  ASSUME NEW n \in Nat
  PROVE  n % Modulus \in Nat
BY RingAssumption, DivMod

LEMMA SlotsExist ==
  ASSUME NEW n \in Nat
  PROVE  Slot(n) \in 0 .. Capacity - 1
<1>1. n % Modulus \in Nat
  BY RingAssumption, DivMod
<1> QED
  BY <1>1, RingAssumption, DivMod DEF Slot, Wrap

-----------------------------------------------------------------------------
LEMMA RingStart == Init => RingInv
<1> SUFFICES ASSUME Init PROVE RingInv
  OBVIOUS
<1> USE DEF Init, NoPush, NoPop
<1>1. RingType
  BY RingAssumption DEF RingType, PushType, PopType
<1>2. Accepted = 0 /\ Delivered = 0 /\ 0 % Modulus = 0
  BY RingAssumption, ModUnique DEF Accepted, Delivered
<1>3. Counters
  BY <1>2, RingAssumption DEF Counters
<1> QED
  BY <1>1, <1>2, <1>3, RingAssumption DEF RingInv, PushFits, PopFits, DropFits

\* The constants, without the arithmetic of RingAssumption.
LEMMA Sizes ==
  /\ Capacity \in Nat \ {0} /\ Channels \in Nat \ {0} /\ Modulus \in Nat \ {0}
  /\ MaxBlock \in Nat \ {0} /\ MaxSamples \in Nat /\ Capacity < Modulus
BY RingAssumption

\* The invariant, field by field.
LEMMA Fields ==
  ASSUME RingInv
  PROVE  /\ push.at \in {"idle", "cells", "drop"}
         /\ push.size \in Nat /\ push.todo \in Nat /\ push.i \in Nat
         /\ pop.at \in {"idle", "cells"} /\ pop.todo \in Nat /\ pop.i \in Nat
         /\ Accepted \in Nat /\ Delivered \in Nat
         /\ WrapSub(head, tail) = Accepted - Delivered
<1>1. RingType /\ Counters
  BY DEF RingInv
<1>2. Accepted \in Nat /\ Delivered \in Nat /\ WrapSub(head, tail) = Accepted - Delivered
  BY <1>1, FillLevel DEF Counters
<1>3. push \in PushType /\ pop \in PopType
  BY <1>1 DEF RingType
<1> QED
  BY <1>2, <1>3 DEF PushType, PopType

\* A field of a record changed by a step.
LEMMA Stepped ==
  ASSUME NEW n \in Nat
  PROVE  /\ push \in PushType => /\ [push EXCEPT !.i = n] \in PushType
                                 /\ [push EXCEPT !.i = n].at = push.at
                                 /\ [push EXCEPT !.i = n].size = push.size
                                 /\ [push EXCEPT !.i = n].todo = push.todo
                                 /\ [push EXCEPT !.i = n].i = n
         /\ push \in PushType => /\ [push EXCEPT !.at = "drop"] \in PushType
                                 /\ [push EXCEPT !.at = "drop"].at = "drop"
                                 /\ [push EXCEPT !.at = "drop"].size = push.size
                                 /\ [push EXCEPT !.at = "drop"].todo = push.todo
                                 /\ [push EXCEPT !.at = "drop"].i = push.i
         /\ pop \in PopType => /\ [pop EXCEPT !.i = n] \in PopType
                               /\ [pop EXCEPT !.i = n].at = pop.at
                               /\ [pop EXCEPT !.i = n].todo = pop.todo
                               /\ [pop EXCEPT !.i = n].i = n
         /\ NoPush \in PushType /\ NoPop \in PopType
BY DEF PushType, PopType, NoPush, NoPop

(***************************************************************************)
(* Each memory access keeps the invariant.                                 *)
(***************************************************************************)
LEMMA RingStep == RingInv /\ [Next]_vars => RingInv'
<1> SUFFICES ASSUME RingInv, [Next]_vars PROVE RingInv'
  OBVIOUS
<1>1. RingType /\ Counters /\ PushFits /\ PopFits /\ DropFits
  BY DEF RingInv
<1>2. push \in PushType /\ pop \in PopType
  BY <1>1 DEF RingType
<1>n. /\ head \in Nat /\ tail \in Nat /\ offered \in Nat /\ dropped \in Nat
      /\ push.i \in Nat /\ push.todo \in Nat /\ push.size \in Nat
      /\ pop.i \in Nat /\ pop.todo \in Nat
      /\ Accepted \in Nat /\ Delivered \in Nat
  <2>1. head \in Nat /\ tail \in Nat /\ offered \in Nat /\ dropped \in Nat
    BY <1>1 DEF RingType
  <2> QED
    BY <2>1, Fields
<1>w. WrapSub(head, tail) = Accepted - Delivered /\ Delivered <= Accepted
        /\ Accepted <= Delivered + Capacity
  BY <1>1, FillLevel DEF Counters
<1>3. CASE LoadTail
  <2>1. PICK f \in 1 .. MaxBlock :
          /\ offered + f * Channels <= MaxSamples
          /\ push' = [at |-> "cells", size |-> f * Channels,
                      todo |-> Lesser(f * Channels, Free), i |-> 0]
    BY <1>3 DEF LoadTail
  <2>2. f * Channels \in Nat
    <3>1. f \in Nat /\ Channels \in Nat
      BY Sizes
    <3> QED
      BY <3>1, Z3
  <2> DEFINE size == f * Channels
             todo == Lesser(size, Free)
  <2>3. size \in Nat /\ offered + size <= MaxSamples
    BY <2>1, <2>2
  <2>4. push' = [at |-> "cells", size |-> size, todo |-> todo, i |-> 0]
    BY <2>1
  <2>5. Free = Capacity - (Accepted - Delivered) /\ Free \in Nat
    BY <1>w, <1>n, Sizes DEF Free
  <2> HIDE DEF size
  <2>6. todo \in Nat /\ todo <= size /\ todo <= Capacity - (Accepted - Delivered)
    BY <2>3, <2>5 DEF Lesser
  <2> HIDE DEF todo
  <2>7. RingType'
    BY <1>1, <1>3, <2>3, <2>4, <2>6 DEF LoadTail, RingType, PushType
  <2>8. Accepted' = Accepted /\ Delivered' = Delivered
    BY <1>3, <2>4 DEF LoadTail, Accepted, Delivered
  <2>9. push'.at = "cells" /\ push'.size = size /\ push'.todo = todo /\ push'.i = 0
    BY <2>4
  <2>10. Counters'
    BY <1>1, <1>3, <2>3, <2>8, <2>9 DEF LoadTail, Counters
  <2>11. Accepted \in Nat /\ Delivered \in Nat
    BY <1>n
  <2>12. PushFits'
    BY <2>6, <2>8, <2>9, <2>11, Sizes DEF PushFits
  <2> QED
    BY <1>1, <1>3, <2>7, <2>8, <2>9, <2>10, <2>12
    DEF LoadTail, RingInv, PopFits, DropFits
<1>4. CASE WriteCell
  <2>1. /\ push.i \in Nat /\ push.i + 1 \in Nat /\ head + push.i \in Nat
        /\ offered + push.i + 1 \in Nat
    BY <1>n
  <2>2. Slot(head + push.i) \in 0 .. Capacity - 1
    BY <2>1, SlotsExist
  <2>3. /\ push' \in PushType /\ push'.at = push.at /\ push'.size = push.size
        /\ push'.todo = push.todo /\ push'.i = push.i + 1
    <3>1. push' = [push EXCEPT !.i = push.i + 1]
      BY <1>4 DEF WriteCell
    <3> QED
      BY <1>2, <2>1, <3>1, Stepped
  <2>4. cell' \in [0 .. Capacity - 1 -> Nat]
    BY <1>1, <1>4, <2>1, <2>2 DEF WriteCell, RingType
  <2>5. RingType'
    BY <1>1, <1>4, <2>3, <2>4 DEF WriteCell, RingType
  <2>6. Accepted' = Accepted /\ Delivered' = Delivered
    BY <1>4, <2>3 DEF WriteCell, Accepted, Delivered, DroppedOf
  <2>7. Counters'
    BY <1>1, <1>4, <2>3, <2>6 DEF WriteCell, Counters
  <2>8. PushFits' /\ DropFits'
    BY <1>1, <1>4, <2>1, <2>3, <2>6, <1>n DEF WriteCell, PushFits, DropFits
  <2> QED
    BY <1>1, <1>4, <2>5, <2>6, <2>7, <2>8 DEF WriteCell, RingInv, PopFits
<1>5. CASE PublishHead
  <2>1. /\ push.size \in Nat /\ push.todo \in Nat /\ push.todo <= push.size
        /\ push.at = "cells" /\ push.i = push.todo
        /\ offered \in Nat /\ dropped \in Nat
    BY <1>1, <1>5, <1>n DEF PublishHead, PushFits, RingType
  <2>2. Accepted = offered - dropped /\ Delivered' = Delivered
    BY <1>5, <2>1 DEF PublishHead, Accepted, Delivered
  <2>3. /\ push' \in PushType /\ push'.at # "cells" /\ push'.i = push'.todo
        /\ push'.todo <= push'.size
        /\ Accepted' = Accepted + push.todo
    <3>1. CASE DroppedOf(push) > 0
      <4>1. push' = [push EXCEPT !.at = "drop"]
        BY <1>5, <3>1 DEF PublishHead
      <4>2. /\ push' \in PushType /\ push'.at = "drop" /\ push'.size = push.size
            /\ push'.todo = push.todo /\ push'.i = push.i
        BY <1>2, <2>1, <4>1, Stepped
      <4>3. Accepted' = (offered + push.size) - dropped - (push.size - push.todo)
        BY <1>5, <4>2 DEF PublishHead, Accepted, DroppedOf
      <4> QED
        BY <2>1, <2>2, <4>2, <4>3
    <3>2. CASE ~(DroppedOf(push) > 0)
      <4>1. push' = NoPush /\ push.size = push.todo
        BY <1>5, <2>1, <3>2 DEF PublishHead, DroppedOf
      <4>2. push' \in PushType /\ push'.at = "idle" /\ push'.i = 0 /\ push'.todo = 0 /\ push'.size = 0
        BY <4>1, Stepped DEF NoPush
      <4>3. Accepted' = (offered + push.size) - dropped
        BY <1>5, <2>1, <4>2 DEF PublishHead, Accepted, RingType
      <4> QED
        BY <2>1, <2>2, <4>1, <4>2, <4>3
    <3> QED
      BY <3>1, <3>2
  <2>4. head' = (Accepted + push.todo) % Modulus
    BY <1>1, <1>5, <2>1, <1>n, Advance DEF PublishHead, Counters
  <2>5. head' \in Nat
    <3>1. Accepted + push.todo \in Nat
      BY <1>n
    <3> QED
      BY <2>4, <3>1, CountersExist
  <2>6. offered' = offered + push.size /\ offered' <= MaxSamples /\ offered' \in Nat
    BY <1>1, <1>5, <2>1 DEF PublishHead, Counters
  <2>7. RingType'
    BY <1>1, <1>5, <2>3, <2>5, <2>6 DEF PublishHead, RingType
  <2>8. /\ Accepted + push.todo \in Nat /\ Delivered <= Accepted + push.todo
        /\ Accepted + push.todo <= Delivered + Capacity
    BY <1>1, <2>1, <1>n DEF Counters, PushFits
  <2>9. Counters'
    BY <1>1, <1>5, <2>2, <2>3, <2>4, <2>6, <2>8, Sizes DEF PublishHead, Counters
  <2>10. Delivered + pop.todo <= Accepted + push.todo
    BY <1>1, <2>1, <1>n DEF PopFits
  <2> QED
    BY <1>1, <1>5, <2>2, <2>3, <2>7, <2>9, <2>10
    DEF PublishHead, RingInv, PushFits, PopFits, DropFits
<1>6. CASE CountDropped
  <2>1. DroppedOf(push) \in Nat /\ push.at = "drop" /\ dropped \in Nat /\ offered \in Nat
    BY <1>1, <1>6, <1>n DEF CountDropped, DroppedOf, DropFits
  <2>2. push' \in PushType /\ push'.at = "idle" /\ push'.i = 0 /\ push'.todo = 0
    BY <1>6, Stepped DEF CountDropped, NoPush
  <2>3. Accepted' = Accepted /\ Delivered' = Delivered
    BY <1>6, <2>1, <2>2 DEF CountDropped, Accepted, Delivered
  <2>4. RingType'
    BY <1>1, <1>6, <2>1, <2>2 DEF CountDropped, RingType
  <2>5. Counters'
    BY <1>1, <1>6, <2>1, <2>2, <2>3 DEF CountDropped, Counters
  <2> QED
    BY <1>1, <1>6, <2>2, <2>3, <2>4, <2>5
    DEF CountDropped, RingInv, PushFits, PopFits, DropFits
<1>7. CASE LoadHead
  <2> DEFINE todo == Lesser(Capacity, WrapSub(head, tail))
  <2>1. pop' = [at |-> "cells", i |-> 0, todo |-> todo]
    BY <1>7 DEF LoadHead
  <2>2. todo \in Nat /\ todo <= Accepted - Delivered
    BY <1>w, <1>n, Sizes DEF Lesser
  <2> HIDE DEF todo
  <2>3. pop' \in PopType /\ pop'.i = 0 /\ pop'.todo = todo
    BY <2>1, <2>2 DEF PopType
  <2>4. RingType' /\ Accepted' = Accepted /\ Delivered' = Delivered
    BY <1>1, <1>7, <2>3 DEF LoadHead, RingType, Accepted, Delivered
  <2>5. Len(block') = 0
    <3>1. Len(block) = pop.i /\ pop.i <= pop.todo
      BY <1>1 DEF PopFits
    <3> QED
      BY <1>1, <1>7, <3>1, <1>n DEF LoadHead, PopFits
  <2>6. Delivered + todo <= Accepted
    BY <2>2, <1>n
  <2> QED
    BY <1>1, <1>7, <2>2, <2>3, <2>4, <2>5, <2>6
    DEF LoadHead, RingInv, Counters, PushFits, PopFits, DropFits
<1>8. CASE ReadCell
  <2>1. pop.i \in Nat /\ pop.i + 1 \in Nat /\ tail + pop.i \in Nat
    BY <1>n
  <2>2. Slot(tail + pop.i) \in 0 .. Capacity - 1
    BY <2>1, SlotsExist
  <2>3. cell[Slot(tail + pop.i)] \in Nat
    BY <1>1, <2>2 DEF RingType
  <2>4. block' \in Seq(Nat) /\ Len(block') = Len(block) + 1
    BY <1>1, <1>8, <2>3 DEF ReadCell, RingType
  <2>5. pop' \in PopType /\ pop'.todo = pop.todo /\ pop'.i = pop.i + 1
    <3>1. pop' = [pop EXCEPT !.i = pop.i + 1]
      BY <1>8 DEF ReadCell
    <3> QED
      BY <1>2, <2>1, <3>1, Stepped
  <2>6. RingType' /\ Accepted' = Accepted /\ Delivered' = Delivered
    BY <1>1, <1>8, <2>4, <2>5 DEF ReadCell, RingType, Accepted, Delivered
  <2>7. PopFits'
    <3>1. /\ Len(block) = pop.i /\ pop.i < pop.todo /\ Delivered + pop.todo <= Accepted
          /\ pop.at = "cells" /\ pop'.at = pop.at
      BY <1>1, <1>2, <1>8, <2>1, Stepped DEF ReadCell, PopFits
    <3> QED
      BY <1>n, <2>4, <2>5, <2>6, <3>1 DEF PopFits
  <2> QED
    BY <1>1, <1>8, <2>6, <2>7 DEF ReadCell, RingInv, Counters, PushFits, DropFits
<1>9. CASE PublishTail
  <2>1. /\ delivered' \in Seq(Nat) /\ Delivered' = Delivered + pop.todo
        /\ pop.todo \in Nat
    <3>1. Len(block) = pop.todo /\ delivered' = delivered \o block
      BY <1>1, <1>9 DEF PublishTail, ReadAll, PopFits
    <3>2. delivered \in Seq(Nat) /\ block \in Seq(Nat)
      BY <1>1 DEF RingType
    <3>3. Len(delivered \o block) = Len(delivered) + Len(block) /\ delivered \o block \in Seq(Nat)
      BY <3>2
    <3>4. pop.todo \in Nat
      BY <1>n
    <3> QED
      BY <3>1, <3>3, <3>4 DEF Delivered
  <2>2. tail' = (Delivered + pop.todo) % Modulus
    BY <1>1, <1>9, <2>1, <1>n, Advance DEF PublishTail, Counters
  <2>3. tail' \in Nat
    <3>1. Delivered + pop.todo \in Nat
      BY <1>n
    <3> QED
      BY <2>2, <3>1, CountersExist
  <2>4. pop' \in PopType /\ pop'.todo = 0 /\ pop'.i = 0 /\ block' = <<>>
    BY <1>9, Stepped DEF PublishTail, NoPop
  <2>5. Accepted' = Accepted
    BY <1>9 DEF PublishTail, Accepted
  <2>6. RingType'
    BY <1>1, <1>9, <2>1, <2>3, <2>4 DEF PublishTail, RingType
  <2>7. Delivered' \in Nat /\ Delivered' <= Accepted /\ Accepted <= Delivered' + Capacity
    <3>1. /\ Delivered <= Accepted /\ Accepted <= Delivered + Capacity
          /\ Delivered + pop.todo <= Accepted
      BY <1>1 DEF Counters, PopFits
    <3>2. Accepted \in Nat /\ Delivered \in Nat /\ Capacity \in Nat
      BY <1>n, Sizes
    <3> HIDE DEF Accepted, Delivered
    <3> QED
      BY <2>1, <3>1, <3>2
  <2>8. Counters'
    BY <1>1, <1>9, <2>1, <2>2, <2>5, <2>7 DEF PublishTail, Counters
  <2>9. push.at = "cells" => Accepted + push.todo <= Delivered' + Capacity
    <3>1. push.at = "cells" => Accepted + push.todo <= Delivered + Capacity
      BY <1>1 DEF PushFits
    <3>2. Delivered' \in Nat /\ Delivered <= Delivered' /\ Capacity \in Nat
      BY <1>n, <2>1, Sizes
    <3> HIDE DEF Accepted, Delivered
    <3> QED
      BY <1>n, <3>1, <3>2
  <2>10. PushFits' /\ DropFits'
    BY <1>1, <1>9, <2>5, <2>9 DEF PublishTail, PushFits, DropFits
  <2>11. PopFits'
    BY <2>4, <2>5, <2>7 DEF PopFits
  <2> QED
    BY <2>6, <2>8, <2>10, <2>11 DEF RingInv
<1>10. CASE UNCHANGED vars
  BY <1>1, <1>10 DEF vars, RingInv, RingType, Counters, PushFits, PopFits, DropFits,
                     Accepted, Delivered, DroppedOf
<1> QED
  BY <1>3, <1>4, <1>5, <1>6, <1>7, <1>8, <1>9, <1>10 DEF Next, Producer, Consumer

-----------------------------------------------------------------------------
\* The cell of the sample accepted after n others.
Place(n) == (n % Modulus) % Capacity

LEMMA PlaceExists ==
  ASSUME NEW n \in Nat
  PROVE  Place(n) \in 0 .. Capacity - 1
BY SlotsExist DEF Place, Slot, Wrap

\* The slots the code computes from its wrapped counters.
LEMMA SlotsArePlaces ==
  ASSUME RingInv, NEW j \in Nat
  PROVE  Slot(head + j) = Place(Accepted + j) /\ Slot(tail + j) = Place(Delivered + j)
<1>1. Accepted \in Nat /\ Delivered \in Nat
  BY Fields
<1>2. (head + j) % Modulus = (Accepted + j) % Modulus
  BY <1>1, Advance DEF RingInv, Counters, Wrap
<1>3. (tail + j) % Modulus = (Delivered + j) % Modulus
  BY <1>1, Advance DEF RingInv, Counters, Wrap
<1> QED
  BY <1>2, <1>3 DEF Slot, Wrap, Place

\* Less than a round of the buffer apart, two samples have different cells.
LEMMA PlacesApart ==
  ASSUME NEW a \in Nat, NEW b \in Nat, b < a, a - b < Capacity, a <= MaxSamples
  PROVE  Place(a) # Place(b)
<1>1. a % Capacity # b % Capacity
  BY Sizes, ModDistinct
<1>2. CASE Modulus % Capacity = 0
  BY <1>1, <1>2, Sizes, ModOfMod DEF Place
<1>3. CASE MaxSamples < Modulus
  <2>1. a \in 0 .. Modulus - 1 /\ b \in 0 .. Modulus - 1
    BY <1>3, Sizes
  <2>2. a = Modulus * 0 + a /\ b = Modulus * 0 + b
    BY <2>1, Sizes
  <2>3. a % Modulus = a /\ b % Modulus = b
    BY <2>1, <2>2, Sizes, ModUnique
  <2> QED
    BY <1>1, <2>3 DEF Place
<1> QED
  BY <1>2, <1>3, RingAssumption

\* A push under way stays within a capacity of what was delivered, and within
\* the samples offered.
LEMMA PushBounds ==
  ASSUME RingInv, push.at = "cells"
  PROVE  /\ push.i <= push.todo /\ push.todo <= push.size
         /\ Accepted + push.todo <= Delivered + Capacity
         /\ Accepted + push.todo <= MaxSamples
         /\ Accepted = offered - dropped /\ offered \in Nat /\ dropped \in Nat
<1>1. /\ push.todo \in Nat /\ push.size \in Nat /\ push.i \in Nat /\ Accepted \in Nat
      /\ Delivered \in Nat /\ MaxSamples \in Nat
  BY Fields, Sizes
<1>2. /\ push.i <= push.todo /\ push.todo <= push.size
      /\ Accepted + push.todo <= Delivered + Capacity
      /\ offered + push.size <= MaxSamples /\ offered \in Nat /\ dropped \in Nat
  BY DEF RingInv, RingType, PushFits, Counters
<1>3. Accepted = offered - dropped
  BY <1>2 DEF Accepted
<1> QED
  BY <1>1, <1>2, <1>3

\* What remains to be written is behind what remains to be read, by less than
\* a round of the buffer.
LEMMA CellsApart == RingInv => NoSharedCell
<1> SUFFICES ASSUME RingInv,
                    NEW j \in push.i .. push.todo - 1, NEW k \in pop.i .. pop.todo - 1
             PROVE  Slot(head + j) # Slot(tail + k)
  BY DEF NoSharedCell, Unwritten, Unread
<1>1. /\ push.i \in Nat /\ push.todo \in Nat /\ pop.i \in Nat /\ pop.todo \in Nat
      /\ Accepted \in Nat /\ Delivered \in Nat
  BY Fields
<1>2. j \in Nat /\ k \in Nat /\ push.i < push.todo /\ j < push.todo /\ k < pop.todo
  BY <1>1
<1>3. push.at = "cells"
  BY <1>1, <1>2 DEF RingInv, PushFits
<1>4. Delivered + pop.todo <= Accepted
  BY DEF RingInv, PopFits
<1> DEFINE a == Accepted + j
           b == Delivered + k
<1>5. a \in Nat /\ b \in Nat /\ b < a /\ a - b < Capacity /\ a <= MaxSamples
  BY <1>1, <1>2, <1>3, <1>4, PushBounds, Sizes
<1>6. Place(a) # Place(b)
  BY <1>5, PlacesApart
<1> QED
  BY <1>2, <1>6, SlotsArePlaces

(***************************************************************************)
(* The SAFETY comment of audio/ring.rs: callback and consumer never touch  *)
(* the same cell, whatever the capacity, the block length and the width of *)
(* the counters.                                                           *)
(***************************************************************************)
THEOREM CellsNeverShared == Spec => []NoSharedCell
BY RingStart, RingStep, CellsApart, PTL DEF Spec

(***************************************************************************)
(* Between two callbacks every sample offered was delivered, waits in the  *)
(* ring or was counted as dropped.                                         *)
(***************************************************************************)
THEOREM EverySampleCounted == Spec => []NothingUnaccounted
<1>1. RingInv => NothingUnaccounted
  <2> SUFFICES ASSUME RingInv, push.at = "idle"
               PROVE  offered = Len(delivered) + WrapSub(head, tail) + dropped
    BY DEF NothingUnaccounted
  <2>1. WrapSub(head, tail) = Accepted - Delivered /\ Delivered \in Nat
    BY FillLevel DEF RingInv
  <2> QED
    BY <2>1 DEF RingInv, RingType, Accepted, Delivered
<1> QED
  BY <1>1, RingStart, RingStep, PTL DEF Spec
-----------------------------------------------------------------------------
(***************************************************************************)
(* What is in the cells.                                                   *)
(***************************************************************************)

\* What push_slice has written are the next samples, and what pop_slice has
\* read are the oldest ones that wait.
DataInv ==
  /\ push.at = "cells" =>
       /\ push.size > 0
       /\ \A j \in Nat : j < push.i => cell[Place(Accepted + j)] = offered + j + 1
  /\ pop.at = "cells" => pop.todo > 0
  /\ \A k \in 1 .. Len(block) : block[k] = cell[Place(Delivered + (k - 1))]

LEMMA DataInit == Init => DataInv
BY DEF Init, NoPush, NoPop, DataInv

\* How the counts move.
LEMMA Counts ==
  ASSUME RingInv
  PROVE  /\ LoadTail \/ WriteCell \/ CountDropped \/ LoadHead \/ ReadCell \/ UNCHANGED vars
              => Accepted' = Accepted /\ Delivered' = Delivered
         /\ PublishHead => Accepted' = Accepted + push.todo /\ Delivered' = Delivered
         /\ PublishTail => Accepted' = Accepted /\ Delivered' = Delivered + pop.todo
<1>1. /\ push \in PushType /\ pop \in PopType /\ push.size \in Nat /\ push.todo \in Nat
      /\ push.i \in Nat /\ pop.i \in Nat
      /\ offered \in Nat /\ dropped \in Nat /\ delivered \in Seq(Nat) /\ block \in Seq(Nat)
  BY Fields DEF RingInv, RingType
<1>2. ASSUME LoadTail PROVE Accepted' = Accepted /\ Delivered' = Delivered
  BY <1>2 DEF LoadTail, Accepted, Delivered
<1>3. ASSUME WriteCell PROVE Accepted' = Accepted /\ Delivered' = Delivered
  <2>1. push'.at = push.at /\ push.at = "cells"
    BY <1>1, <1>3 DEF WriteCell, PushType
  <2> QED
    BY <1>3, <2>1 DEF WriteCell, Accepted, Delivered
<1>4. ASSUME CountDropped PROVE Accepted' = Accepted /\ Delivered' = Delivered
  <2>1. push'.at = "idle" /\ DroppedOf(push) \in Int
    BY <1>1, <1>4 DEF CountDropped, NoPush, DroppedOf
  <2> QED
    BY <1>1, <1>4, <2>1 DEF CountDropped, Accepted, Delivered
<1>5. ASSUME LoadHead \/ ReadCell \/ UNCHANGED vars
      PROVE  Accepted' = Accepted /\ Delivered' = Delivered
  BY <1>5 DEF LoadHead, ReadCell, vars, Accepted, Delivered, DroppedOf
<1>6. ASSUME PublishHead PROVE Accepted' = Accepted + push.todo /\ Delivered' = Delivered
  <2>1. Accepted = offered - dropped /\ push.todo <= push.size
    BY <1>6, PushBounds DEF PublishHead
  <2>2. CASE DroppedOf(push) > 0
    <3>1. push' = [push EXCEPT !.at = "drop"]
      BY <1>6, <2>2 DEF PublishHead
    <3>2. push'.at = "drop" /\ push'.size = push.size /\ push'.todo = push.todo
      BY <1>1, <3>1 DEF PushType
    <3> QED
      BY <1>1, <1>6, <2>1, <3>2 DEF PublishHead, Accepted, Delivered, DroppedOf
  <2>3. CASE ~(DroppedOf(push) > 0)
    <3>1. push'.at = "idle" /\ push.size = push.todo
      BY <1>1, <1>6, <2>1, <2>3 DEF PublishHead, NoPush, DroppedOf
    <3> QED
      BY <1>1, <1>6, <2>1, <3>1 DEF PublishHead, Accepted, Delivered
  <2> QED
    BY <2>2, <2>3
<1>7. ASSUME PublishTail PROVE Accepted' = Accepted /\ Delivered' = Delivered + pop.todo
  <2>1. Len(block) = pop.todo
    BY <1>1, <1>7 DEF PublishTail, ReadAll, RingInv, PopFits
  <2>2. Len(delivered \o block) = Len(delivered) + Len(block)
    BY <1>1
  <2> QED
    BY <1>7, <2>1, <2>2 DEF PublishTail, Accepted, Delivered, DroppedOf
<1> QED
  BY <1>2, <1>3, <1>4, <1>5, <1>6, <1>7

\* A write hits the cell of the next sample and none that holds another.
LEMMA WriteElsewhere ==
  ASSUME RingInv, WriteCell
  PROVE  /\ cell'[Place(Accepted + push.i)] = offered + push.i + 1
         /\ \A n \in Nat : Delivered <= n /\ n < Accepted + push.i =>
              cell'[Place(n)] = cell[Place(n)]
<1>1. /\ push.at = "cells" /\ push.i < push.todo /\ push.i \in Nat /\ push.todo \in Nat
      /\ Accepted \in Nat /\ Delivered \in Nat
  BY Fields DEF WriteCell
<1>2. Accepted + push.todo <= Delivered + Capacity /\ Accepted + push.todo <= MaxSamples
  BY <1>1, PushBounds
<1> DEFINE a == Accepted + push.i
<1>3. a \in Nat /\ a <= MaxSamples /\ a - Delivered < Capacity
  BY <1>1, <1>2, Sizes
<1>4. cell' = [cell EXCEPT ![Place(a)] = offered + push.i + 1]
  BY <1>1, SlotsArePlaces DEF WriteCell
<1>5. cell \in [0 .. Capacity - 1 -> Nat] /\ Place(a) \in 0 .. Capacity - 1
  BY <1>3, PlaceExists DEF RingInv, RingType
<1>6. ASSUME NEW n \in Nat, Delivered <= n, n < a
      PROVE  cell'[Place(n)] = cell[Place(n)]
  <2>1. a - n < Capacity
    BY <1>1, <1>3, <1>6, Sizes
  <2>2. Place(a) # Place(n) /\ Place(n) \in 0 .. Capacity - 1
    BY <1>3, <1>6, <2>1, PlacesApart, PlaceExists
  <2> QED
    BY <1>4, <1>5, <2>2
<1>7. cell'[Place(a)] = offered + push.i + 1
  BY <1>4, <1>5
<1> QED
  BY <1>6, <1>7

LEMMA DataStep ==
  ASSUME RingInv, DataInv, [Next]_vars
  PROVE  DataInv'
<1>1. /\ push \in PushType /\ pop \in PopType /\ push.at \in {"idle", "cells", "drop"}
      /\ push.size \in Nat /\ push.todo \in Nat /\ push.i \in Nat
      /\ pop.i \in Nat /\ pop.todo \in Nat /\ Accepted \in Nat /\ Delivered \in Nat
      /\ block \in Seq(Nat) /\ cell \in [0 .. Capacity - 1 -> Nat]
  BY Fields DEF RingInv, RingType
<1>2. Len(block) = pop.i /\ pop.i <= pop.todo /\ Delivered + pop.todo <= Accepted
  BY DEF RingInv, PopFits
<1>3. CASE LoadTail
  <2>1. PICK f \in 1 .. MaxBlock : push' = [at |-> "cells", size |-> f * Channels,
                                            todo |-> Lesser(f * Channels, Free), i |-> 0]
    BY <1>3 DEF LoadTail
  <2>2. f \in Nat \ {0} /\ Channels \in Nat \ {0}
    BY Sizes
  <2>3. f * Channels > 0
    <3> HIDE DEF Accepted, Delivered
    <3> QED
      BY <2>2, Z3
  <2> QED
    BY <1>3, <2>1, <2>3, Counts DEF LoadTail, DataInv
<1>4. CASE WriteCell
  <2>1. push'.at = push.at /\ push'.size = push.size /\ push'.i = push.i + 1
    BY <1>1, <1>4 DEF WriteCell, PushType
  <2>2. Accepted' = Accepted /\ Delivered' = Delivered /\ UNCHANGED <<pop, block, offered>>
    BY <1>4, Counts DEF WriteCell
  <2>3. ASSUME NEW j \in Nat, j < push.i + 1
        PROVE  cell'[Place(Accepted + j)] = offered + j + 1
    <3>1. CASE j = push.i
      BY <1>4, <3>1, WriteElsewhere
    <3>2. CASE j < push.i
      <4>1. /\ Accepted + j \in Nat /\ Delivered <= Accepted + j
            /\ Accepted + j < Accepted + push.i
        BY <1>1, <1>2, <3>2
      <4>2. cell'[Place(Accepted + j)] = cell[Place(Accepted + j)]
        BY <1>4, <4>1, WriteElsewhere
      <4> QED
        BY <1>4, <3>2, <4>2 DEF WriteCell, DataInv
    <3> QED
      BY <1>1, <2>3, <3>1, <3>2
  <2>4. ASSUME NEW k \in 1 .. Len(block)
        PROVE  block[k] = cell'[Place(Delivered + (k - 1))]
    <3>1. /\ Delivered + (k - 1) \in Nat /\ Delivered <= Delivered + (k - 1)
          /\ Delivered + (k - 1) < Accepted + push.i
      BY <1>1, <1>2
    <3> QED
      BY <1>4, <3>1, WriteElsewhere DEF DataInv
  <2> QED
    BY <1>4, <2>1, <2>2, <2>3, <2>4 DEF DataInv, WriteCell
<1>5. CASE PublishHead
  <2>1. push'.at # "cells"
    BY <1>1, <1>5 DEF PublishHead, NoPush, PushType
  <2> QED
    BY <1>5, <2>1, Counts DEF PublishHead, DataInv
<1>6. CASE CountDropped
  BY <1>6, Counts DEF CountDropped, NoPush, DataInv
<1>7. CASE LoadHead
  <2>1. pop'.todo > 0
    BY <1>7, Fields, Sizes DEF LoadHead, Lesser
  <2> QED
    BY <1>7, <2>1, Counts DEF LoadHead, DataInv
<1>8. CASE ReadCell
  <2>1. pop'.todo = pop.todo /\ pop.at = "cells"
    BY <1>1, <1>8 DEF ReadCell, PopType
  <2>2. Slot(tail + pop.i) = Place(Delivered + pop.i) /\ Delivered + pop.i \in Nat
    <3>1. pop.i \in Nat
      BY <1>1
    <3>2. Slot(tail + pop.i) = Place(Delivered + pop.i)
      BY <3>1, SlotsArePlaces
    <3> QED
      BY <1>1, <3>2
  <2>3. cell[Place(Delivered + pop.i)] \in Nat
    BY <1>1, <2>2, PlaceExists
  <2>4. block' = Append(block, cell[Place(Delivered + pop.i)])
    BY <1>8, <2>2 DEF ReadCell
  <2>5. /\ Len(block') = pop.i + 1
        /\ \A k \in 1 .. pop.i : block'[k] = block[k]
        /\ block'[pop.i + 1] = cell[Place(Delivered + pop.i)]
    BY <1>1, <1>2, <2>3, <2>4, AppendProperties
  <2>6. \A k \in 1 .. Len(block') : block'[k] = cell[Place(Delivered + (k - 1))]
    <3> SUFFICES ASSUME NEW k \in 1 .. pop.i + 1
                 PROVE  block'[k] = cell[Place(Delivered + (k - 1))]
      BY <2>5
    <3>1. CASE k \in 1 .. pop.i
      BY <1>2, <2>5, <3>1 DEF DataInv
    <3>2. CASE k = pop.i + 1
      <4>1. k - 1 = pop.i
        BY <1>1, <3>2
      <4> QED
        BY <2>5, <3>2, <4>1
    <3> QED
      BY <1>1, <3>1, <3>2
  <2> QED
    BY <1>8, <2>1, <2>6, Counts DEF ReadCell, DataInv
<1>9. CASE PublishTail
  BY <1>9, Counts DEF PublishTail, NoPop, DataInv
<1>10. CASE UNCHANGED vars
  BY <1>10, Counts DEF vars, DataInv
<1> QED
  BY <1>3, <1>4, <1>5, <1>6, <1>7, <1>8, <1>9, <1>10 DEF Next, Producer, Consumer
-----------------------------------------------------------------------------
(***************************************************************************)
(* Channels.  The callback delivers whole frames and the buffer holds a    *)
(* whole number of them, so all counts are multiples of a frame.           *)
(***************************************************************************)
WholeFrames == Capacity % Channels = 0

\* The sample that waits n places after the first is of channel n % Channels.
ChannelInv ==
  /\ offered % Channels = 0 /\ Accepted % Channels = 0 /\ Delivered % Channels = 0
  /\ push.at = "cells" => push.size % Channels = 0 /\ push.todo % Channels = 0
  /\ pop.at = "cells" => pop.todo % Channels = 0
  /\ \A n \in Nat : Delivered <= n /\ n < Accepted =>
       (cell[Place(n)] - 1) % Channels = n % Channels

\* Sums and differences of whole frames.
LEMMA FrameSum ==
  ASSUME NEW a \in Nat, NEW n \in Nat, a % Channels = 0
  PROVE  /\ (a + n) % Channels = n % Channels
         /\ a <= n /\ n % Channels = 0 => (n - a) % Channels = 0
<1>c. Channels \in Nat \ {0}
  BY Sizes
<1>1. \A m \in Nat : (a + m) % Channels = m % Channels
  <2> SUFFICES ASSUME NEW m \in Nat PROVE (a + m) % Channels = m % Channels
    OBVIOUS
  <2>1. (0 + m) % Channels = (a + m) % Channels
    BY <1>c, WrapSum
  <2> QED
    BY <2>1
<1>2. ASSUME a <= n, n % Channels = 0 PROVE (n - a) % Channels = 0
  <2>1. n - a \in Nat /\ a + (n - a) = n
    BY <1>2
  <2> QED
    BY <1>1, <1>2, <2>1
<1> QED
  BY <1>1, <1>2

LEMMA FramesWhole ==
  ASSUME NEW f \in Nat
  PROVE  f * Channels \in Nat /\ (f * Channels) % Channels = 0
<1>1. Channels \in Nat \ {0}
  BY Sizes
<1>2. f * Channels \in Nat /\ f * Channels = Channels * f + 0
  BY <1>1, Z3
<1> QED
  BY <1>1, <1>2, ModUnique

LEMMA ChannelInit == Init => ChannelInv
<1> SUFFICES ASSUME Init PROVE ChannelInv
  OBVIOUS
<1>1. Accepted = 0 /\ Delivered = 0 /\ offered = 0
  BY DEF Init, NoPush, Accepted, Delivered
<1>2. 0 % Channels = 0
  BY Sizes, ModUnique
<1> QED
  BY <1>1, <1>2 DEF Init, NoPush, NoPop, ChannelInv

LEMMA ChannelStep ==
  ASSUME WholeFrames, RingInv, DataInv, ChannelInv, [Next]_vars
  PROVE  ChannelInv'
<1>1. /\ push \in PushType /\ pop \in PopType /\ push.at \in {"idle", "cells", "drop"}
      /\ push.size \in Nat /\ push.todo \in Nat /\ push.i \in Nat
      /\ pop.i \in Nat /\ pop.todo \in Nat /\ Accepted \in Nat /\ Delivered \in Nat
      /\ offered \in Nat /\ Capacity \in Nat /\ Channels \in Nat \ {0}
  BY Fields, Sizes DEF RingInv, RingType
<1>2. Delivered <= Accepted /\ Accepted <= Delivered + Capacity
  BY DEF RingInv, Counters
<1>3. (Accepted - Delivered) % Channels = 0
  BY <1>1, <1>2, FrameSum DEF ChannelInv
<1>4. Free = Capacity - (Accepted - Delivered) /\ Free \in Nat /\ Free % Channels = 0
  <2>1. WrapSub(head, tail) = Accepted - Delivered
    BY Fields
  <2>2. Accepted - Delivered \in Nat /\ Accepted - Delivered <= Capacity
    BY <1>1, <1>2
  <2>3. (Capacity - (Accepted - Delivered)) % Channels = 0
    BY <1>1, <1>3, <2>2, FrameSum DEF WholeFrames
  <2> QED
    BY <1>1, <2>1, <2>2, <2>3 DEF Free
<1>5. CASE LoadTail
  <2>1. PICK f \in 1 .. MaxBlock : push' = [at |-> "cells", size |-> f * Channels,
                                            todo |-> Lesser(f * Channels, Free), i |-> 0]
    BY <1>5 DEF LoadTail
  <2>2. f \in Nat
    BY Sizes
  <2>3. (f * Channels) % Channels = 0
    BY <2>2, FramesWhole
  <2>4. push'.size % Channels = 0 /\ push'.todo % Channels = 0
    BY <1>4, <2>1, <2>3 DEF Lesser
  <2> QED
    BY <1>5, <2>4, Counts DEF LoadTail, ChannelInv
<1>6. CASE WriteCell
  <2>1. push'.at = push.at /\ push'.size = push.size /\ push'.todo = push.todo
    BY <1>1, <1>6 DEF WriteCell, PushType
  <2>2. \A n \in Nat : Delivered <= n /\ n < Accepted => cell'[Place(n)] = cell[Place(n)]
    BY <1>1, <1>6, WriteElsewhere
  <2> QED
    BY <1>6, <2>1, <2>2, Counts DEF WriteCell, ChannelInv
<1>7. CASE PublishHead
  <2>1. /\ push.at = "cells" /\ push.i = push.todo /\ Accepted' = Accepted + push.todo
        /\ Delivered' = Delivered /\ offered' = offered + push.size
        /\ UNCHANGED <<cell, pop>>
    BY <1>7, Counts DEF PublishHead
  <2>2. push'.at # "cells"
    BY <1>1, <1>7 DEF PublishHead, NoPush, PushType
  <2>3. Accepted' % Channels = 0 /\ offered' % Channels = 0
    BY <1>1, <2>1, FrameSum DEF ChannelInv
  <2>4. ASSUME NEW n \in Nat, Accepted <= n, n < Accepted + push.todo
        PROVE  (cell[Place(n)] - 1) % Channels = n % Channels
    <3> DEFINE j == n - Accepted
    <3>1. j \in Nat /\ j < push.i /\ n = Accepted + j
      BY <1>1, <2>1, <2>4
    <3>2. cell[Place(n)] = offered + j + 1
      BY <2>1, <3>1 DEF DataInv
    <3>3. (offered + j) % Channels = j % Channels /\ (Accepted + j) % Channels = j % Channels
      BY <1>1, <3>1, FrameSum DEF ChannelInv
    <3>4. cell[Place(n)] - 1 = offered + j
      BY <1>1, <3>1, <3>2
    <3> QED
      BY <3>1, <3>3, <3>4
  <2>5. ASSUME NEW n \in Nat, Delivered <= n, n < Accepted'
        PROVE  (cell[Place(n)] - 1) % Channels = n % Channels
    <3>1. CASE n < Accepted
      BY <2>5, <3>1 DEF ChannelInv
    <3>2. CASE Accepted <= n
      BY <2>1, <2>4, <2>5, <3>2
    <3> QED
      BY <1>1, <3>1, <3>2
  <2> QED
    BY <2>1, <2>2, <2>3, <2>5 DEF ChannelInv
<1>8. CASE CountDropped
  BY <1>8, Counts DEF CountDropped, NoPush, ChannelInv
<1>9. CASE LoadHead
  <2>1. pop'.todo % Channels = 0
    BY <1>3, <1>9, Fields DEF LoadHead, Lesser, WholeFrames
  <2> QED
    BY <1>9, <2>1, Counts DEF LoadHead, ChannelInv
<1>10. CASE ReadCell
  <2>1. pop'.at = pop.at /\ pop'.todo = pop.todo
    BY <1>1, <1>10 DEF ReadCell, PopType
  <2> QED
    BY <1>10, <2>1, Counts DEF ReadCell, ChannelInv
<1>11. CASE PublishTail
  <2>1. /\ pop.at = "cells" /\ pop'.at = "idle" /\ Delivered' = Delivered + pop.todo
        /\ Accepted' = Accepted /\ UNCHANGED <<cell, push, offered>>
    BY <1>11, Counts DEF PublishTail, NoPop
  <2>2. Delivered' % Channels = 0
    BY <1>1, <2>1, FrameSum DEF ChannelInv
  <2>3. \A n \in Nat : Delivered' <= n => Delivered <= n
    BY <1>1, <2>1
  <2> QED
    BY <2>1, <2>2, <2>3 DEF ChannelInv
<1>12. CASE UNCHANGED vars
  BY <1>12, Counts DEF vars, ChannelInv
<1> QED
  BY <1>5, <1>6, <1>7, <1>8, <1>9, <1>10, <1>11, <1>12 DEF Next, Producer, Consumer

(***************************************************************************)
(* A read hands out whole interleaved frames, also across the end of the   *)
(* buffer and the wrap of the counters and after blocks that were cut:     *)
(* channel n of the consumer is channel n of the device.                   *)
(***************************************************************************)
THEOREM ChannelsStayInPlace == WholeFrames => (Spec => []ChannelsInPlace)
<1> SUFFICES ASSUME WholeFrames PROVE Spec => []ChannelsInPlace
  OBVIOUS
<1>1. RingInv /\ DataInv /\ ChannelInv /\ [Next]_vars => DataInv' /\ ChannelInv'
  BY DataStep, ChannelStep
<1>2. RingInv /\ DataInv /\ ChannelInv => ChannelsInPlace
  <2> SUFFICES ASSUME RingInv, DataInv, ChannelInv, NEW k \in 1 .. Len(block)
               PROVE  (block[k] - 1) % Channels = (k - 1) % Channels
    BY DEF ChannelsInPlace
  <2>1. /\ Delivered \in Nat /\ Accepted \in Nat /\ Len(block) = pop.i /\ pop.i \in Nat
        /\ pop.todo \in Nat /\ pop.i <= pop.todo /\ Delivered + pop.todo <= Accepted
    BY Fields DEF RingInv, PopFits
  <2>2. k - 1 \in Nat /\ Delivered + (k - 1) \in Nat /\ Delivered <= Delivered + (k - 1)
          /\ Delivered + (k - 1) < Accepted
    BY <2>1
  <2>3. (cell[Place(Delivered + (k - 1))] - 1) % Channels = (Delivered + (k - 1)) % Channels
    BY <2>2 DEF ChannelInv
  <2>4. (Delivered + (k - 1)) % Channels = (k - 1) % Channels
    BY <2>1, <2>2, FrameSum DEF ChannelInv
  <2> QED
    BY <2>3, <2>4 DEF DataInv
<1> QED
  BY <1>1, <1>2, RingStart, RingStep, DataInit, ChannelInit, PTL DEF Spec
-----------------------------------------------------------------------------
(***************************************************************************)
(* The ring is a bounded queue.                                            *)
(***************************************************************************)
Waiting == [k \in 1 .. WrapSub(head, tail) |-> cell[Slot(tail + k - 1)]]

\* The queue the cells from tail to head stand for.
WaitingShape ==
  /\ Waiting \in Seq(Nat) /\ Len(Waiting) = Accepted - Delivered
  /\ \A k \in 1 .. Accepted - Delivered : Waiting[k] = cell[Place(Delivered + (k - 1))]

LEMMA WaitingIs == RingInv => WaitingShape
<1> SUFFICES ASSUME RingInv PROVE WaitingShape
  OBVIOUS
<1> DEFINE n == Accepted - Delivered
<1>1. /\ Accepted \in Nat /\ Delivered \in Nat /\ WrapSub(head, tail) = n
      /\ Delivered <= Accepted /\ tail \in Nat /\ cell \in [0 .. Capacity - 1 -> Nat]
  BY Fields DEF RingInv, RingType, Counters
<1>2. n \in Nat
  BY <1>1
<1>3. ASSUME NEW k \in 1 .. n
      PROVE  /\ cell[Slot(tail + k - 1)] = cell[Place(Delivered + (k - 1))]
             /\ cell[Slot(tail + k - 1)] \in Nat
  <2>1. k - 1 \in Nat /\ tail + k - 1 = tail + (k - 1) /\ Delivered + (k - 1) \in Nat
    BY <1>1, <1>2
  <2>2. Slot(tail + k - 1) = Place(Delivered + (k - 1))
    BY <2>1, SlotsArePlaces
  <2> QED
    BY <1>1, <2>1, <2>2, PlaceExists
<1> HIDE DEF n
<1>4. Waiting = [k \in 1 .. n |-> cell[Slot(tail + k - 1)]]
  BY <1>1 DEF Waiting
<1>5. Waiting \in [1 .. n -> Nat]
  BY <1>3, <1>4
<1>6. Waiting \in Seq(Nat) /\ Len(Waiting) = n
  BY <1>2, <1>5
<1> QED
  BY <1>3, <1>4, <1>6 DEF n, WaitingShape

\* Where neither counts nor waiting samples change, the queue is the same.
LEMMA WaitingAlone ==
  ASSUME RingInv, RingInv', Accepted' = Accepted, Delivered' = Delivered,
         \A n \in Nat : Delivered <= n /\ n < Accepted => cell'[Place(n)] = cell[Place(n)]
  PROVE  Waiting' = Waiting
<1>1. Accepted \in Nat /\ Delivered \in Nat
  BY Fields
<1>2. /\ Waiting \in Seq(Nat) /\ Len(Waiting) = Accepted - Delivered
      /\ \A k \in 1 .. Accepted - Delivered : Waiting[k] = cell[Place(Delivered + (k - 1))]
  BY WaitingIs DEF WaitingShape
<1>s. WaitingShape'
  BY WaitingIs, PTL
<1>3. /\ Waiting' \in Seq(Nat) /\ Len(Waiting') = Accepted - Delivered
      /\ \A k \in 1 .. Accepted - Delivered : Waiting'[k] = cell'[Place(Delivered + (k - 1))]
  BY <1>s DEF WaitingShape
<1>4. ASSUME NEW k \in 1 .. Len(Waiting) PROVE Waiting'[k] = Waiting[k]
  <2>1. /\ Delivered + (k - 1) \in Nat /\ Delivered <= Delivered + (k - 1)
        /\ Delivered + (k - 1) < Accepted /\ k \in 1 .. Accepted - Delivered
    BY <1>1, <1>2
  <2> QED
    BY <1>2, <1>3, <2>1
<1> QED
  BY <1>2, <1>3, <1>4, SeqEqual

\* push_slice takes effect when head is published.
LEMMA PublishHeadOffers ==
  ASSUME RingInv, RingInv', DataInv, PublishHead
  PROVE  /\ offered' \in Nat /\ offered' > offered /\ push.todo \in 0 .. Capacity - Len(Waiting)
         /\ push.todo <= offered' - offered /\ push.todo <= Capacity - Len(Waiting)
         /\ offered' = offered + (offered' - offered)
         /\ Waiting' = Waiting \o [j \in 1 .. push.todo |-> offered + j]
         /\ UNCHANGED delivered
<1> DEFINE todo == push.todo
           added == [j \in 1 .. todo |-> offered + j]
<1>1. /\ push.at = "cells" /\ push.i = todo /\ todo \in Nat /\ push.size \in Nat
      /\ push.size > 0 /\ offered \in Nat /\ offered' = offered + push.size
      /\ UNCHANGED <<cell, delivered>>
  BY Fields DEF PublishHead, DataInv, RingInv, RingType
<1>2. todo <= push.size /\ Accepted + todo <= Delivered + Capacity
  BY <1>1, PushBounds
<1>3. Accepted' = Accepted + todo /\ Delivered' = Delivered
  BY Counts
<1>4. Accepted \in Nat /\ Delivered \in Nat /\ Delivered <= Accepted /\ Capacity \in Nat
  BY Fields, Sizes DEF RingInv, Counters
<1>5. /\ Waiting \in Seq(Nat) /\ Len(Waiting) = Accepted - Delivered
      /\ \A k \in 1 .. Accepted - Delivered : Waiting[k] = cell[Place(Delivered + (k - 1))]
  BY WaitingIs DEF WaitingShape
<1>s. WaitingShape'
  BY WaitingIs, PTL
<1>6. /\ Waiting' \in Seq(Nat) /\ Len(Waiting') = (Accepted + todo) - Delivered
      /\ \A k \in 1 .. (Accepted + todo) - Delivered :
           Waiting'[k] = cell[Place(Delivered + (k - 1))]
  BY <1>1, <1>3, <1>s DEF WaitingShape
<1>7. added \in [1 .. todo -> Nat] /\ added \in Seq(Nat) /\ Len(added) = todo
  <2>1. \A j \in 1 .. todo : offered + j \in Nat
    BY <1>1
  <2>2. added \in [1 .. todo -> Nat]
    BY <2>1
  <2> HIDE DEF added
  <2> QED
    BY <1>1, <2>2
<1>8. \A j \in 1 .. todo : added[j] = cell[Place(Accepted + (j - 1))]
  <2> SUFFICES ASSUME NEW j \in 1 .. todo
               PROVE  offered + j = cell[Place(Accepted + (j - 1))]
    OBVIOUS
  <2>1. j - 1 \in Nat /\ j - 1 < push.i /\ offered + (j - 1) + 1 = offered + j
    BY <1>1
  <2> QED
    BY <1>1, <2>1 DEF DataInv
<1> HIDE DEF added, todo
<1>b. /\ Waiting \o added \in Seq(Nat) /\ Len(Waiting \o added) = Len(Waiting) + Len(added)
      /\ \A k \in 1 .. Len(Waiting) + Len(added) :
           (Waiting \o added)[k] = IF k <= Len(Waiting) THEN Waiting[k] ELSE added[k - Len(Waiting)]
  BY <1>5, <1>7, ConcatProperties
<1>9. /\ Waiting \o added \in Seq(Nat)
      /\ Len(Waiting \o added) = (Accepted - Delivered) + todo
      /\ \A k \in 1 .. (Accepted - Delivered) + todo :
           (Waiting \o added)[k] = IF k <= Accepted - Delivered THEN Waiting[k]
                                   ELSE added[k - (Accepted - Delivered)]
  BY <1>5, <1>7, <1>b
<1>10. ASSUME NEW k \in 1 .. Len(Waiting')
       PROVE  Waiting'[k] = (Waiting \o added)[k]
  <2>1. k \in 1 .. (Accepted + todo) - Delivered /\ k \in 1 .. (Accepted - Delivered) + todo
    BY <1>1, <1>4, <1>6 DEF todo
  <2>2. CASE k <= Accepted - Delivered
    <3>1. k \in 1 .. Accepted - Delivered
      BY <1>4, <2>1, <2>2
    <3> QED
      BY <1>5, <1>6, <1>9, <2>1, <2>2, <3>1
  <2>3. CASE ~(k <= Accepted - Delivered)
    <3> DEFINE j == k - (Accepted - Delivered)
    <3>1. j \in 1 .. todo /\ Accepted + (j - 1) = Delivered + (k - 1)
      BY <1>1, <1>4, <2>1, <2>3 DEF todo
    <3> QED
      BY <1>6, <1>8, <1>9, <2>1, <2>3, <3>1
  <2> QED
    BY <2>2, <2>3
<1>11. Waiting' = Waiting \o added
  <2>1. Len(Waiting') = Len(Waiting \o added)
    BY <1>1, <1>4, <1>6, <1>9 DEF todo
  <2> QED
    BY <1>6, <1>9, <1>10, <2>1, SeqEqual
<1>12. todo \in 0 .. Capacity - Len(Waiting) /\ todo <= Capacity - Len(Waiting)
  BY <1>1, <1>2, <1>4, <1>5 DEF todo
<1> QED
  BY <1>1, <1>2, <1>11, <1>12 DEF added, todo

\* pop_slice takes effect when tail is published.
LEMMA PublishTailTakes ==
  ASSUME RingInv, RingInv', DataInv, PublishTail
  PROVE  /\ pop.todo \in 1 .. Len(Waiting) /\ pop.todo <= Len(Waiting)
         /\ delivered' = delivered \o SubSeq(Waiting, 1, pop.todo)
         /\ Waiting' = SubSeq(Waiting, pop.todo + 1, Len(Waiting))
         /\ UNCHANGED offered
<1> DEFINE todo == pop.todo
           n == Accepted - Delivered
<1>1. /\ pop.at = "cells" /\ pop.i = todo /\ todo \in Nat /\ todo > 0
      /\ UNCHANGED <<cell, offered>> /\ delivered' = delivered \o block
  BY Fields DEF PublishTail, ReadAll, DataInv
<1>2. /\ Accepted \in Nat /\ Delivered \in Nat /\ n \in Nat /\ todo <= n
      /\ Len(block) = todo /\ block \in Seq(Nat)
  <2>1. Delivered + todo <= Accepted /\ Len(block) = todo /\ block \in Seq(Nat)
    BY <1>1 DEF RingInv, RingType, PopFits
  <2>2. Accepted \in Nat /\ Delivered \in Nat
    BY Fields
  <2> HIDE DEF todo
  <2>3. \A a, d, m \in Nat : d + m <= a => a - d \in Nat /\ m <= a - d
    OBVIOUS
  <2> QED
    BY <1>1, <2>1, <2>2, <2>3
<1>3. Accepted' = Accepted /\ Delivered' = Delivered + todo
  BY Counts
<1>4. /\ Waiting \in Seq(Nat) /\ Len(Waiting) = n
      /\ \A k \in 1 .. n : Waiting[k] = cell[Place(Delivered + (k - 1))]
  BY WaitingIs DEF WaitingShape
<1>s. WaitingShape'
  BY WaitingIs, PTL
<1>5. /\ Waiting' \in Seq(Nat) /\ Len(Waiting') = Accepted - (Delivered + todo)
      /\ \A k \in 1 .. Accepted - (Delivered + todo) :
           Waiting'[k] = cell[Place((Delivered + todo) + (k - 1))]
  BY <1>1, <1>3, <1>s DEF WaitingShape
<1>a. \A i \in Int : 1 <= i /\ i <= n => Waiting[i] \in Nat
  BY <1>4, ElementOfSeq
<1>6. block = SubSeq(Waiting, 1, todo)
  <2>1. \A i \in 1 .. todo : Waiting[i] \in Nat
    BY <1>1, <1>2, <1>a
  <2>2. 1 \in Int /\ todo \in Int /\ 1 <= todo
    BY <1>1
  <2>3. /\ SubSeq(Waiting, 1, todo) \in Seq(Nat) /\ Len(SubSeq(Waiting, 1, todo)) = (todo - 1) + 1
        /\ \A i \in 1 .. (todo - 1) + 1 : SubSeq(Waiting, 1, todo)[i] = Waiting[(1 + i) - 1]
    BY <2>1, <2>2, SubSeqProperties
  <2>4. ASSUME NEW i \in 1 .. Len(block) PROVE block[i] = SubSeq(Waiting, 1, todo)[i]
    <3>1. i \in 1 .. n /\ i \in 1 .. (todo - 1) + 1 /\ (1 + i) - 1 = i
      BY <1>1, <1>2
    <3> QED
      BY <1>4, <2>3, <3>1 DEF DataInv
  <2>5. Len(SubSeq(Waiting, 1, todo)) = Len(block)
    BY <1>1, <1>2, <2>3
  <2> QED
    BY <1>2, <2>3, <2>4, <2>5, SeqEqual
<1>7. Waiting' = SubSeq(Waiting, todo + 1, n)
  <2> DEFINE rest == SubSeq(Waiting, todo + 1, n)
  <2>1. \A i \in todo + 1 .. n : Waiting[i] \in Nat
    BY <1>1, <1>2, <1>a
  <2>2. todo + 1 \in Int /\ n \in Int
    BY <1>1, <1>2
  <2>3. /\ rest \in Seq(Nat)
        /\ Len(rest) = IF todo + 1 <= n THEN (n - (todo + 1)) + 1 ELSE 0
        /\ \A i \in 1 .. (n - (todo + 1)) + 1 : rest[i] = Waiting[((todo + 1) + i) - 1]
    BY <2>1, <2>2, SubSeqProperties
  <2>4. Len(rest) = n - todo /\ Len(Waiting') = n - todo
    BY <1>1, <1>2, <1>5, <2>3
  <2> HIDE DEF rest
  <2>5. ASSUME NEW i \in 1 .. Len(rest) PROVE rest[i] = Waiting'[i]
    <3>1. i \in 1 .. n - todo
      BY <2>4
    <3>2. \A a, d, t \in Nat : \A k \in 1 .. (a - d) - t :
            /\ k \in 1 .. ((a - d) - (t + 1)) + 1 /\ k \in 1 .. a - (d + t)
            /\ ((t + 1) + k) - 1 = t + k /\ t + k \in 1 .. a - d
            /\ d + ((t + k) - 1) = (d + t) + (k - 1)
      OBVIOUS
    <3>3. /\ i \in 1 .. (n - (todo + 1)) + 1 /\ i \in 1 .. Accepted - (Delivered + todo)
          /\ ((todo + 1) + i) - 1 = todo + i /\ todo + i \in 1 .. n
          /\ Delivered + ((todo + i) - 1) = (Delivered + todo) + (i - 1)
      BY <1>1, <1>2, <3>1, <3>2
    <3> QED
      BY <1>4, <1>5, <2>3, <3>3
  <2>6. rest = Waiting'
    BY <1>5, <2>3, <2>4, <2>5, SeqEqual
  <2> QED
    BY <2>6 DEF rest
<1> QED
  BY <1>1, <1>2, <1>4, <1>6, <1>7

(***************************************************************************)
(* The ring implements the bounded queue of ring.rs's module comment: what *)
(* fits of a block is delivered, each sample once and in order, for every  *)
(* capacity and width of the counters and every interleaving of the        *)
(* memory accesses of callback and consumer.                               *)
(***************************************************************************)
THEOREM RingIsAQueue == Spec => ImplementsQueue
<1>1. RingInv /\ Init => Queue!Init
  <2> SUFFICES ASSUME RingInv, Init PROVE Waiting = <<>> /\ offered = 0 /\ delivered = <<>>
    BY DEF Queue!Init, Waiting
  <2>1. Accepted = 0 /\ Delivered = 0
    BY DEF Init, NoPush, Accepted, Delivered
  <2>2. Waiting \in Seq(Nat) /\ Len(Waiting) = 0
    BY <2>1, WaitingIs DEF WaitingShape
  <2> QED
    BY <2>2, EmptySeq DEF Init
<1>2. ASSUME RingInv, RingInv', DataInv, [Next]_vars
      PROVE  [Queue!Offer \/ Queue!Take]_<<offered, Waiting, delivered>>
  <2>1. CASE PublishHead
    <3>1. Queue!Accept(offered' - offered, push.todo)
      BY <1>2, <2>1, PublishHeadOffers DEF Queue!Accept, Waiting
    <3>2. Queue!Offer
      BY <1>2, <2>1, <3>1, PublishHeadOffers DEF Queue!Offer, Waiting
    <3> QED
      BY <3>2
  <2>2. CASE PublishTail
    <3>1. Queue!Hand(pop.todo)
      BY <1>2, <2>2, PublishTailTakes DEF Queue!Hand, Waiting
    <3> QED
      BY <1>2, <2>2, <3>1, PublishTailTakes DEF Queue!Take, Waiting
  <2>3. CASE WriteCell
    BY <1>2, <2>3, Counts, WriteElsewhere, WaitingAlone, Fields DEF WriteCell
  <2>4. CASE LoadTail \/ CountDropped \/ LoadHead \/ ReadCell \/ UNCHANGED vars
    BY <2>4 DEF LoadTail, CountDropped, LoadHead, ReadCell, vars, Waiting, WrapSub, Slot, Wrap
  <2> QED
    BY <1>2, <2>1, <2>2, <2>3, <2>4 DEF Next, Producer, Consumer
<1>3. ASSUME RingInv, RingInv', DataInv, [Next]_vars
      PROVE  [Queue!Offer \/ Queue!Take]_<<offered,
               [k \in 1 .. WrapSub(head, tail) |-> cell[Slot(tail + k - 1)]], delivered>>
  BY <1>2, <1>3 DEF Waiting
<1>4. RingInv /\ DataInv /\ [Next]_vars => DataInv'
  BY DataStep
<1> QED
  BY <1>1, <1>3, <1>4, RingStart, RingStep, DataInit, PTL DEF Spec, ImplementsQueue, Queue!Spec
=============================================================================
