--------------------------- MODULE Annotations_proof ---------------------------
(***************************************************************************)
(* Theorems about the markup of a hearing, for all categories, roles,      *)
(* clocks and sample rates and any number of actions and failures.         *)
(*                                                                         *)
(* As long as no append has failed half way, memory, journal and table are *)
(* all beginnings of one chained sequence of actions; while the recording  *)
(* goes on, the journal is exactly what is in memory.  And what the markup *)
(* says of the speakers follows: in every beginning of the sequence all    *)
(* spans opened before the last change of speaker are closed.              *)
(***************************************************************************)
EXTENDS Annotations, Integers, FiniteSetTheorems, SequenceTheorems, WellFoundedInduction,
        TLAPS

Sequence(s) == s \in Seq(ToSet(s))

\* s is a beginning of t.
Starts(s, t) == Len(s) <= Len(t) /\ \A i \in 1 .. Len(s) : s[i] = t[i]

\* Numbered from 1, each link over all the actions up to its own.
Chained(records) ==
  \A i \in 1 .. Len(records) :
    records[i].seq = i /\ records[i].link = [k \in 1 .. i |-> records[k].body]

JournalInv ==
  /\ ids \in Nat /\ Sequence(ann) /\ Sequence(journal.lines)
  /\ journal = [lines |-> journal.lines, tail |-> journal.tail]
  /\ journal.tail \in {"clean", "torn", "open"}
  /\ journal.tail = "open" => journal.lines # << >>
  /\ Chained(journal.lines)
  /\ Starts(ann, Settled(journal))
  /\ state = "recording" => journal.tail = "clean" /\ journal.lines = ann

TableInv ==
  /\ Sequence(rows) /\ Chained(rows)
  /\ \A i \in 1 .. Len(rows) : i <= Len(journal.lines) => rows[i] = journal.lines[i]
  /\ state = "recording" => Len(rows) <= Len(journal.lines)

MarkupInv == ~spoilt => JournalInv /\ TableInv

-----------------------------------------------------------------------------
(***************************************************************************)
(* Sequences of any values.                                                *)
(***************************************************************************)
LEMMA SequenceIs ==
  ASSUME NEW s, Sequence(s)
  PROVE  Len(s) \in Nat /\ DOMAIN s = 1 .. Len(s) /\ s = [i \in 1 .. Len(s) |-> s[i]]
BY DEF Sequence

LEMMA SequenceOf ==
  ASSUME NEW n \in Nat, NEW s, s = [i \in 1 .. n |-> s[i]]
  PROVE  Sequence(s) /\ Len(s) = n
<1>1. DOMAIN s = 1 .. n
  OBVIOUS
<1>2. \A i \in 1 .. n : s[i] \in ToSet(s)
  BY <1>1 DEF ToSet
<1>3. s \in [1 .. n -> ToSet(s)]
  BY <1>2
<1>4. s \in Seq(ToSet(s)) /\ Len(s) = n
  BY <1>3
<1> QED
  BY <1>4 DEF Sequence

LEMMA Joined ==
  ASSUME NEW s, NEW t, Sequence(s), Sequence(t)
  PROVE  /\ Sequence(s \o t) /\ Len(s \o t) = Len(s) + Len(t)
         /\ \A i \in 1 .. Len(s) : (s \o t)[i] = s[i]
         /\ \A i \in 1 .. Len(t) : (s \o t)[Len(s) + i] = t[i]
<1> DEFINE S == ToSet(s) \union ToSet(t)
<1>1. s \in Seq(S) /\ t \in Seq(S)
  <2>1. s \in [1 .. Len(s) -> S] /\ Len(s) \in Nat
    BY SequenceIs DEF ToSet
  <2>2. t \in [1 .. Len(t) -> S] /\ Len(t) \in Nat
    BY SequenceIs DEF ToSet
  <2> QED
    BY <2>1, <2>2
<1> HIDE DEF S
<1>2. /\ s \o t \in Seq(S) /\ Len(s \o t) = Len(s) + Len(t)
      /\ \A i \in 1 .. Len(s) : (s \o t)[i] = s[i]
      /\ \A i \in 1 .. Len(t) : (s \o t)[Len(s) + i] = t[i]
  BY <1>1
<1> DEFINE u == s \o t
<1>3. u \in Seq(S)
  BY <1>2
<1> HIDE DEF u
<1>4. u = [i \in 1 .. Len(u) |-> u[i]] /\ Len(u) \in Nat
  BY <1>3
<1>5. Sequence(u)
  BY <1>4, SequenceOf
<1> QED
  BY <1>2, <1>5 DEF u

LEMMA Beginning ==
  ASSUME NEW s, Sequence(s), NEW n \in 0 .. Len(s)
  PROVE  /\ Sequence(SubSeq(s, 1, n)) /\ Len(SubSeq(s, 1, n)) = n
         /\ \A i \in 1 .. n : SubSeq(s, 1, n)[i] = s[i]
<1>1. s \in Seq(ToSet(s))
  BY DEF Sequence
<1>2. n \in Nat /\ n <= Len(s)
  BY <1>1
<1> DEFINE u == SubSeq(s, 1, n)
<1>3. /\ u \in Seq(ToSet(s)) /\ Len(u) = n
      /\ \A i \in 1 .. n : u[i] = s[i]
  BY <1>1, <1>2
<1> HIDE DEF u
<1>4. u = [i \in 1 .. n |-> u[i]]
  BY <1>2, <1>3
<1>5. Sequence(u)
  BY <1>2, <1>4, SequenceOf
<1> QED
  BY <1>3, <1>5 DEF u

LEMMA SameSequence ==
  ASSUME NEW s, NEW t, Sequence(s), Sequence(t), Len(s) = Len(t),
         \A i \in 1 .. Len(s) : s[i] = t[i]
  PROVE  s = t
<1>1. s = [i \in 1 .. Len(s) |-> s[i]] /\ t = [i \in 1 .. Len(s) |-> t[i]]
  BY SequenceIs
<1> QED
  BY <1>1

LEMMA StartsChained ==
  ASSUME NEW s, NEW t, Len(s) \in Nat, Len(t) \in Nat, Starts(s, t), Chained(t)
  PROVE  Chained(s)
<1> SUFFICES ASSUME NEW i \in 1 .. Len(s)
             PROVE  s[i].seq = i /\ s[i].link = [k \in 1 .. i |-> s[k].body]
  BY DEF Chained
<1>1. i \in 1 .. Len(t) /\ \A k \in 1 .. i : s[k] = t[k]
  BY DEF Starts
<1>2. t[i].seq = i /\ t[i].link = [k \in 1 .. i |-> t[k].body]
  BY <1>1 DEF Chained
<1>3. [k \in 1 .. i |-> t[k].body] = [k \in 1 .. i |-> s[k].body]
  BY <1>1
<1> QED
  BY <1>1, <1>2, <1>3

-----------------------------------------------------------------------------
(***************************************************************************)
(* The records of some actions continue the chain of those in memory.      *)
(***************************************************************************)
LEMMA NumberedSequence ==
  ASSUME NEW bodies, Sequence(bodies)
  PROVE  /\ Sequence(Numbered(bodies)) /\ Len(Numbered(bodies)) = Len(bodies)
         /\ \A i \in 1 .. Len(bodies) :
              /\ Numbered(bodies)[i].seq = Len(ann) + i
              /\ Numbered(bodies)[i].body = bodies[i]
              /\ Numbered(bodies)[i].link = LastLink(ann) \o SubSeq(bodies, 1, i)
<1> DEFINE r == Numbered(bodies)
<1>1. Len(bodies) \in Nat /\ DOMAIN bodies = 1 .. Len(bodies)
  BY SequenceIs
<1>2. r = [i \in 1 .. Len(bodies) |-> r[i]]
  BY <1>1 DEF Numbered
<1>3. \A i \in 1 .. Len(bodies) :
        /\ r[i].seq = Len(ann) + i
        /\ r[i].body = bodies[i]
        /\ r[i].link = LastLink(ann) \o SubSeq(bodies, 1, i)
  BY <1>1 DEF Numbered, NextLinks
<1> HIDE DEF r
<1>4. Sequence(r) /\ Len(r) = Len(bodies)
  BY <1>1, <1>2, SequenceOf
<1> QED
  BY <1>3, <1>4 DEF r

LEMMA LinkOfAll ==
  ASSUME Sequence(ann), Chained(ann)
  PROVE  /\ Sequence(LastLink(ann)) /\ Len(LastLink(ann)) = Len(ann)
         /\ \A k \in 1 .. Len(ann) : LastLink(ann)[k] = ann[k].body
<1>1. Len(ann) \in Nat /\ ann \in Seq(ToSet(ann))
  BY SequenceIs DEF Sequence
<1>2. CASE ann = << >>
  BY <1>2 DEF LastLink, Sequence
<1>3. CASE ann # << >>
  <2>1. Len(ann) \in 1 .. Len(ann)
    BY <1>1, <1>3
  <2> DEFINE L == [k \in 1 .. Len(ann) |-> ann[k].body]
  <2>2. LastLink(ann) = L
    BY <1>3, <2>1 DEF Chained, LastLink, Last
  <2>3. Sequence(L) /\ Len(L) = Len(ann)
    BY <1>1, SequenceOf
  <2> QED
    BY <2>2, <2>3
<1> QED
  BY <1>2, <1>3

LEMMA ChainGrows ==
  ASSUME NEW bodies, Sequence(bodies), Sequence(ann), Chained(ann)
  PROVE  Chained(ann \o Numbered(bodies))
<1> DEFINE r == Numbered(bodies)
           full == ann \o r
           L == LastLink(ann)
<1>1. /\ Len(ann) \in Nat /\ Len(bodies) \in Nat
      /\ Sequence(r) /\ Len(r) = Len(bodies)
  BY SequenceIs, NumberedSequence
<1>2. /\ Len(full) = Len(ann) + Len(bodies)
      /\ \A i \in 1 .. Len(ann) : full[i] = ann[i]
      /\ \A i \in 1 .. Len(bodies) : full[Len(ann) + i] = r[i]
  BY <1>1, Joined
<1>3. \A i \in 1 .. Len(bodies) :
        r[i].seq = Len(ann) + i /\ r[i].body = bodies[i] /\ r[i].link = L \o SubSeq(bodies, 1, i)
  BY NumberedSequence
<1>4. Sequence(L) /\ Len(L) = Len(ann) /\ \A k \in 1 .. Len(ann) : L[k] = ann[k].body
  BY LinkOfAll
<1> HIDE DEF r, full, L
<1> SUFFICES ASSUME NEW i \in 1 .. Len(full)
             PROVE  full[i].seq = i /\ full[i].link = [k \in 1 .. i |-> full[k].body]
  BY DEF Chained, full, r
<1>5. CASE i <= Len(ann)
  <2>1. i \in 1 .. Len(ann) /\ \A k \in 1 .. i : full[k] = ann[k]
    BY <1>1, <1>2, <1>5
  <2>2. ann[i].seq = i /\ ann[i].link = [k \in 1 .. i |-> ann[k].body]
    BY <2>1 DEF Chained
  <2>3. [k \in 1 .. i |-> ann[k].body] = [k \in 1 .. i |-> full[k].body]
    BY <2>1
  <2> QED
    BY <2>1, <2>2, <2>3
<1>6. CASE i > Len(ann)
  <2> DEFINE n == i - Len(ann)
             link == L \o SubSeq(bodies, 1, n)
             upto == [k \in 1 .. i |-> full[k].body]
  <2>1. n \in 1 .. Len(bodies) /\ i = Len(ann) + n /\ i \in Nat
    BY <1>1, <1>2, <1>6
  <2>2. full[i] = r[n] /\ r[n].seq = i /\ r[n].link = link
    BY <1>2, <1>3, <2>1
  <2> DEFINE sub == SubSeq(bodies, 1, n)
  <2>3. Sequence(sub) /\ Len(sub) = n /\ \A k \in 1 .. n : sub[k] = bodies[k]
    <3>1. n \in 0 .. Len(bodies)
      BY <1>1, <2>1
    <3> QED
      BY <3>1, Beginning
  <2> HIDE DEF n, sub
  <2>4. /\ Sequence(link) /\ Len(link) = Len(ann) + n
        /\ \A k \in 1 .. Len(ann) : link[k] = L[k]
        /\ \A k \in 1 .. n : link[Len(ann) + k] = bodies[k]
    <3>1. /\ Sequence(L \o sub) /\ Len(L \o sub) = Len(L) + Len(sub)
          /\ \A k \in 1 .. Len(L) : (L \o sub)[k] = L[k]
          /\ \A k \in 1 .. Len(sub) : (L \o sub)[Len(L) + k] = sub[k]
      BY <1>4, <2>3, Joined
    <3> QED
      BY <3>1, <1>4, <2>3 DEF sub
  <2>5. ASSUME NEW k \in 1 .. i
        PROVE  link[k] = full[k].body
    <3>1. CASE k <= Len(ann)
      <4>1. k \in 1 .. Len(ann)
        BY <1>1, <2>1, <3>1
      <4> QED
        BY <4>1, <2>4, <1>4, <1>2
    <3>2. CASE k > Len(ann)
      <4>1. k - Len(ann) \in 1 .. n /\ k = Len(ann) + (k - Len(ann))
        BY <1>1, <2>1, <3>2
      <4>2. k - Len(ann) \in 1 .. Len(bodies)
        BY <1>1, <2>1, <4>1
      <4>3. link[k] = bodies[k - Len(ann)] /\ full[k] = r[k - Len(ann)]
        BY <4>1, <4>2, <2>4, <1>2
      <4> QED
        BY <4>2, <4>3, <1>3
    <3>3. k <= Len(ann) \/ k > Len(ann)
      BY <1>1, <2>1
    <3> QED
      BY <3>1, <3>2, <3>3
  <2> HIDE DEF link
  <2>6. link = upto
    <3>1. link = [k \in 1 .. i |-> link[k]]
      BY <2>4, <2>1, SequenceIs
    <3> QED
      BY <3>1, <2>5
  <2> QED
    BY <2>1, <2>2, <2>6
<1> QED
  BY <1>5, <1>6, <1>1, <1>2

-----------------------------------------------------------------------------
(***************************************************************************)
(* What an append to a clean journal leaves, when it succeeds and when it  *)
(* fails: the lines before it, and the new one or not.                     *)
(***************************************************************************)
Clean(lines) == [lines |-> lines, tail |-> "clean"]

LEMMA OneMore ==
  ASSUME NEW records, Sequence(records), Sequence(ann), NEW n \in 0 .. Len(records)
  PROVE  /\ Sequence(Known(records, n)) /\ Len(Known(records, n)) = Len(ann) + n
         /\ Starts(Known(records, n), ann \o records)
         /\ Starts(ann, Known(records, n))
         /\ n < Len(records) => Append(Known(records, n), records[n + 1]) = Known(records, n + 1)
<1> DEFINE front == SubSeq(records, 1, n)
<1>1. /\ Sequence(front) /\ Len(front) = n /\ \A i \in 1 .. n : front[i] = records[i]
      /\ Len(records) \in Nat /\ Len(ann) \in Nat /\ n \in Nat /\ n <= Len(records)
  BY Beginning, SequenceIs
<1> HIDE DEF front
<1> DEFINE known == ann \o front
           full == ann \o records
<1>2. /\ Sequence(known) /\ Len(known) = Len(ann) + n
      /\ \A i \in 1 .. Len(ann) : known[i] = ann[i]
      /\ \A i \in 1 .. n : known[Len(ann) + i] = front[i]
  BY <1>1, Joined
<1>3. /\ Sequence(full) /\ Len(full) = Len(ann) + Len(records)
      /\ \A i \in 1 .. Len(ann) : full[i] = ann[i]
      /\ \A i \in 1 .. Len(records) : full[Len(ann) + i] = records[i]
  BY <1>1, Joined
<1> HIDE DEF known, full
<1>4. Starts(ann, known)
  BY <1>1, <1>2 DEF Starts
<1>5. \A i \in 1 .. Len(known) : i <= Len(ann) \/ (i - Len(ann) \in 1 .. n /\ i = Len(ann) + (i - Len(ann)))
  BY <1>1, <1>2
<1>6. Starts(known, full)
  <2>1. Len(known) <= Len(full)
    BY <1>1, <1>2, <1>3
  <2>2. ASSUME NEW i \in 1 .. Len(known)
        PROVE  known[i] = full[i]
    <3>1. CASE i <= Len(ann)
      BY <3>1, <1>1, <1>2, <1>3
    <3>2. CASE i - Len(ann) \in 1 .. n /\ i = Len(ann) + (i - Len(ann))
      <4>1. i - Len(ann) \in 1 .. Len(records)
        BY <3>2, <1>1
      <4>2. known[i] = front[i - Len(ann)] /\ full[i] = records[i - Len(ann)]
        BY <3>2, <4>1, <1>2, <1>3
      <4> QED
        BY <3>2, <4>2, <1>1
    <3> QED
      BY <3>1, <3>2, <1>5
  <2> QED
    BY <2>1, <2>2 DEF Starts
<1>7. Known(records, n) = known
  BY DEF Known, known, front
<1>8. ASSUME n < Len(records)
      PROVE  Append(known, records[n + 1]) = Known(records, n + 1)
  <2>1. Append(front, records[n + 1]) = SubSeq(records, 1, n + 1)
    <3>1. records \in Seq(ToSet(records)) /\ n + 1 \in 1 .. Len(records)
      BY <1>1, <1>8 DEF Sequence
    <3> HIDE DEF Sequence
    <3>2. SubSeq(records, 1, n + 1) = Append(SubSeq(records, 1, n), records[n + 1])
      BY <3>1, <1>1
    <3> QED
      BY <3>2 DEF front
  <2>2. Append(ann \o front, records[n + 1]) = ann \o Append(front, records[n + 1])
    <3> DEFINE S == ToSet(ann) \union (ToSet(front) \union {records[n + 1]})
    <3>1. ann \in Seq(S) /\ front \in Seq(S) /\ records[n + 1] \in S
      BY <1>1, SeqMonotonic DEF Sequence
    <3> HIDE DEF S
    <3> QED
      BY <3>1
  <2> QED
    BY <2>1, <2>2 DEF Known, known
<1> QED
  BY <1>1, <1>2, <1>4, <1>6, <1>7, <1>8 DEF full

LEMMA AppendSucceeds ==
  ASSUME NEW K, NEW records, Sequence(K), Sequence(records)
  PROVE  AppendLines(Clean(K), records) = Clean(K \o records)
<1>1. CASE records = << >>
  <2>1. K \o << >> = K
    BY ConcatEmptySeq DEF Sequence
  <2> QED
    BY <1>1, <2>1 DEF AppendLines, Clean
<1>2. CASE records # << >>
  BY <1>2 DEF AppendLines, Clean, Settled
<1> QED
  BY <1>1, <1>2

LEMMA AppendBreaks ==
  ASSUME NEW K, NEW r, Sequence(K), NEW how \in {"nothing", "torn", "open", "whole"},
         NEW j, j = AppendFails(Clean(K), r, how)
  PROVE  /\ j = [lines |-> j.lines, tail |-> j.tail]
         /\ j.tail \in {"clean", "torn", "open"}
         /\ j.tail = "open" => j.lines # << >>
         /\ j.lines \in {K, Append(K, r)}
         /\ Settled(j) \in {K, Append(K, r)}
         /\ how = "nothing" => j = Clean(K)
<1>1. CASE how = "nothing"
  BY <1>1 DEF AppendFails, Clean, Settled
<1>2. CASE how = "torn"
  BY <1>2 DEF AppendFails, Clean, Settled
<1>3. CASE how = "open"
  <2>1. j = [lines |-> Append(K, r), tail |-> "open"]
    BY <1>3 DEF AppendFails, Clean
  <2>2. Append(K, r) # << >> /\ Front(Append(K, r)) = K
    <3> DEFINE S == ToSet(K) \union {r}
    <3>1. K \in Seq(S) /\ r \in S
      BY SeqMonotonic DEF Sequence
    <3> HIDE DEF S
    <3> QED
      BY <3>1 DEF Front
  <2>3. /\ j = [lines |-> j.lines, tail |-> j.tail]
        /\ j.tail = "open" /\ j.lines = Append(K, r)
    BY <2>1
  <2>4. Settled(j) = K
    BY <2>2, <2>3 DEF Settled
  <2> QED
    BY <1>3, <2>2, <2>3, <2>4
<1>4. CASE how = "whole"
  <2>1. Sequence(<<r>>) /\ K \o <<r>> = Append(K, r)
    <3> DEFINE S == ToSet(K) \union {r}
    <3>1. K \in Seq(S) /\ r \in S
      BY SeqMonotonic DEF Sequence
    <3>2. Sequence(<<r>>)
      BY DEF Sequence, ToSet
    <3> HIDE DEF S
    <3> QED
      BY <3>1, <3>2
  <2>2. j = Clean(Append(K, r))
    BY <1>4, <2>1, AppendSucceeds DEF AppendFails
  <2> QED
    BY <1>4, <2>2 DEF Clean, Settled
<1> QED
  BY <1>1, <1>2, <1>3, <1>4

-----------------------------------------------------------------------------
(***************************************************************************)
(* Every step keeps the invariant.                                         *)
(***************************************************************************)
LEMMA Outcome ==
  ASSUME JournalInv, NEW bodies, Sequence(bodies), Record(bodies), ~spoilt'
  PROVE  \E n, m, k \in 0 .. Len(bodies) :
           LET records == Numbered(bodies)
           IN  /\ ann' = Known(records, n)
               /\ journal' = [lines |-> journal'.lines, tail |-> journal'.tail]
               /\ journal'.tail \in {"clean", "torn", "open"}
               /\ journal'.tail = "open" => journal'.lines # << >>
               /\ journal'.lines = Known(records, m) /\ n <= m
               /\ Settled(journal') = Known(records, k) /\ n <= k
               /\ state' = "recording" => journal'.tail = "clean" /\ m = n
<1> DEFINE records == Numbered(bodies)
<1>1. /\ Sequence(records) /\ Len(records) = Len(bodies) /\ Len(bodies) \in Nat
      /\ Sequence(ann)
  BY NumberedSequence, SequenceIs DEF JournalInv
<1>2. journal = Clean(ann)
  BY DEF Record, JournalInv, Clean
<1> HIDE DEF records
<1>3. CASE /\ journal' = AppendLines(journal, records)
           /\ ann' = Known(records, Len(records))
  <2> DEFINE n == Len(records)
  <2>1. SubSeq(records, 1, n) = records
    <3>1. records \in Seq(ToSet(records))
      BY <1>1 DEF Sequence
    <3> QED
      BY <3>1
  <2>2. journal' = Clean(Known(records, n))
    BY <1>1, <1>2, <1>3, <2>1, AppendSucceeds DEF Known
  <2>3. n \in 0 .. Len(bodies)
    BY <1>1
  <2> HIDE DEF n
  <2>4. /\ journal' = [lines |-> journal'.lines, tail |-> journal'.tail]
        /\ journal'.tail = "clean" /\ journal'.lines = Known(records, n)
    BY <2>2 DEF Clean
  <2>5. Settled(journal') = Known(records, n)
    BY <2>4 DEF Settled
  <2>6. ann' = Known(records, n) /\ n <= n
    BY <1>3, <2>3, <1>1 DEF n
  <2> QED
    BY <2>3, <2>4, <2>5, <2>6 DEF records
<1>4. ASSUME NEW n \in 0 .. Len(records) - 1, NEW how \in AppendFaults, NEW on \in BOOLEAN,
             journal' = AppendFails(AppendLines(journal, SubSeq(records, 1, n)), records[n + 1], how),
             ann' = Known(records, n),
             state' = IF on THEN "recording" ELSE "cut",
             spoilt' = (spoilt \/ (on /\ how # "nothing"))
      PROVE  \E l, m, k \in 0 .. Len(bodies) :
               /\ ann' = Known(records, l)
               /\ journal' = [lines |-> journal'.lines, tail |-> journal'.tail]
               /\ journal'.tail \in {"clean", "torn", "open"}
               /\ journal'.tail = "open" => journal'.lines # << >>
               /\ journal'.lines = Known(records, m) /\ l <= m
               /\ Settled(journal') = Known(records, k) /\ l <= k
               /\ state' = "recording" => journal'.tail = "clean" /\ m = l
  <2>1. n \in 0 .. Len(records) /\ n < Len(records) /\ n \in 0 .. Len(bodies) /\ n + 1 \in 0 .. Len(bodies)
    BY <1>1
  <2>2. how \in {"nothing", "torn", "open", "whole"}
    BY MarkupAssumption
  <2> DEFINE K == Known(records, n)
             L == Known(records, n + 1)
             r == records[n + 1]
             front == SubSeq(records, 1, n)
  <2>3. Sequence(K) /\ Append(K, r) = L
    BY <1>1, <2>1, OneMore
  <2>4. AppendLines(journal, front) = Clean(K)
    <3>1. Sequence(front)
      BY <1>1, <2>1, Beginning
    <3> HIDE DEF front
    <3>2. AppendLines(Clean(ann), front) = Clean(ann \o front)
      BY <1>1, <3>1, AppendSucceeds
    <3> QED
      BY <1>2, <3>2 DEF Known, front
  <2> HIDE DEF K, L, r, front
  <2>5. journal' = AppendFails(Clean(K), r, how)
    BY <1>4, <2>4 DEF r, front
  <2>6. /\ journal' = [lines |-> journal'.lines, tail |-> journal'.tail]
        /\ journal'.tail \in {"clean", "torn", "open"}
        /\ journal'.tail = "open" => journal'.lines # << >>
        /\ journal'.lines \in {K, L}
        /\ Settled(journal') \in {K, L}
        /\ how = "nothing" => journal' = Clean(K)
    <3>1. \A j : j = AppendFails(Clean(K), r, how) =>
            /\ j = [lines |-> j.lines, tail |-> j.tail]
            /\ j.tail \in {"clean", "torn", "open"}
            /\ j.tail = "open" => j.lines # << >>
            /\ j.lines \in {K, Append(K, r)}
            /\ Settled(j) \in {K, Append(K, r)}
            /\ how = "nothing" => j = Clean(K)
      BY <2>2, <2>3, AppendBreaks
    <3> QED
      BY <3>1, <2>3, <2>5
  <2>7. PICK m \in {n, n + 1} : journal'.lines = Known(records, m)
    BY <2>6 DEF K, L
  <2>8. PICK k \in {n, n + 1} : Settled(journal') = Known(records, k)
    BY <2>6 DEF K, L
  <2>9. CASE state' = "recording"
    <3>1. on /\ how = "nothing"
      BY <1>4, <2>9
    <3>2. journal' = Clean(K)
      BY <3>1, <2>6
    <3>3. journal'.tail = "clean" /\ journal'.lines = Known(records, n) /\ Settled(journal') = Known(records, n)
      BY <3>2 DEF Clean, Settled, K
    <3>4. n <= n
      BY <2>1
    <3> QED
      BY <3>3, <3>4, <2>1, <2>6, <1>4
  <2>10. CASE state' # "recording"
    <3>1. m \in 0 .. Len(bodies) /\ k \in 0 .. Len(bodies) /\ n <= m /\ n <= k
      BY <2>1, <2>7, <2>8
    <3> QED
      BY <3>1, <2>1, <2>6, <2>7, <2>8, <2>10, <1>4
  <2> QED
    BY <2>9, <2>10
<1>5. \/ /\ journal' = AppendLines(journal, records)
         /\ ann' = Known(records, Len(records))
      \/ \E n \in 0 .. Len(records) - 1, how \in AppendFaults, on \in BOOLEAN :
           /\ journal' = AppendFails(AppendLines(journal, SubSeq(records, 1, n)), records[n + 1], how)
           /\ ann' = Known(records, n)
           /\ state' = IF on THEN "recording" ELSE "cut"
           /\ spoilt' = (spoilt \/ (on /\ how # "nothing"))
  BY DEF Record, records
<1> QED
  BY <1>3, <1>4, <1>5 DEF records

LEMMA RecordKeeps ==
  ASSUME JournalInv, TableInv, ids' \in Nat,
         NEW bodies, Sequence(bodies), Record(bodies), ~spoilt'
  PROVE  JournalInv' /\ TableInv'
<1> DEFINE records == Numbered(bodies)
           full == ann \o records
<1>1. /\ Sequence(records) /\ Len(records) = Len(bodies) /\ Len(bodies) \in Nat
      /\ Sequence(ann) /\ Len(ann) \in Nat
      /\ state = "recording" /\ journal.lines = ann /\ rows' = rows
  BY NumberedSequence, SequenceIs DEF JournalInv, Record
<1>2. Chained(full)
  BY <1>1, ChainGrows DEF JournalInv
<1>3. PICK n, m, k \in 0 .. Len(bodies) :
        /\ ann' = Known(records, n)
        /\ journal' = [lines |-> journal'.lines, tail |-> journal'.tail]
        /\ journal'.tail \in {"clean", "torn", "open"}
        /\ journal'.tail = "open" => journal'.lines # << >>
        /\ journal'.lines = Known(records, m) /\ n <= m
        /\ Settled(journal') = Known(records, k) /\ n <= k
        /\ state' = "recording" => journal'.tail = "clean" /\ m = n
  BY Outcome
<1> HIDE DEF records
<1>4. \A i \in 0 .. Len(bodies) :
        /\ Sequence(Known(records, i)) /\ Len(Known(records, i)) = Len(ann) + i
        /\ Starts(Known(records, i), full) /\ Starts(ann, Known(records, i))
  BY <1>1, OneMore
<1>5. Sequence(full) /\ Len(full) \in Nat
  BY <1>1, Joined, SequenceIs
<1> HIDE DEF full
<1>6. Sequence(ann') /\ Sequence(journal'.lines)
  BY <1>3, <1>4
<1>7. Chained(journal'.lines)
  <2>1. Len(Known(records, m)) \in Nat
    BY <1>1, <1>4
  <2> QED
    BY <1>2, <1>3, <1>4, <1>5, <2>1, StartsChained
<1>8. Starts(ann', Settled(journal'))
  <2>1. Len(Known(records, n)) <= Len(Known(records, k))
    BY <1>1, <1>3, <1>4
  <2>2. ASSUME NEW i \in 1 .. Len(Known(records, n))
        PROVE  Known(records, n)[i] = Known(records, k)[i]
    <3>1. i \in 1 .. Len(Known(records, k))
      BY <1>1, <1>3, <1>4
    <3> QED
      BY <3>1, <1>4 DEF Starts
  <2> QED
    BY <2>1, <2>2, <1>3 DEF Starts
<1>9. JournalInv'
  BY <1>3, <1>6, <1>7, <1>8 DEF JournalInv
<1>10. \A i \in 1 .. Len(rows) : i <= Len(journal'.lines) => rows[i] = journal'.lines[i]
  <2> SUFFICES ASSUME NEW i \in 1 .. Len(rows)
               PROVE  rows[i] = Known(records, m)[i]
    BY <1>3
  <2>1. Len(rows) \in Nat /\ Len(rows) <= Len(ann)
    BY <1>1, SequenceIs DEF TableInv
  <2>2. i \in 1 .. Len(ann)
    BY <1>1, <2>1
  <2>3. rows[i] = ann[i]
    BY <1>1, <2>2 DEF TableInv
  <2> QED
    BY <2>2, <2>3, <1>4 DEF Starts
<1>11. Len(rows) <= Len(journal'.lines)
  BY <1>1, <1>3, <1>4, SequenceIs DEF TableInv
<1> QED
  BY <1>1, <1>9, <1>10, <1>11 DEF TableInv

LEMMA SettledLines ==
  ASSUME JournalInv
  PROVE  /\ Sequence(Settled(journal)) /\ Starts(Settled(journal), journal.lines)
         /\ Len(Settled(journal)) \in Nat /\ Len(journal.lines) \in Nat
         /\ journal.tail # "open" => Settled(journal) = journal.lines
<1>1. Sequence(journal.lines) /\ Len(journal.lines) \in Nat
  BY SequenceIs DEF JournalInv
<1>2. CASE journal.tail = "open"
  <2> DEFINE n == Len(journal.lines) - 1
  <2>1. Len(journal.lines) > 0
    BY <1>1, <1>2 DEF JournalInv, Sequence
  <2>2. n \in 0 .. Len(journal.lines) /\ n <= Len(journal.lines)
    BY <1>1, <2>1
  <2>3. Settled(journal) = SubSeq(journal.lines, 1, n)
    BY <1>2 DEF Settled, Front
  <2> HIDE DEF n
  <2> QED
    BY <1>1, <1>2, <2>2, <2>3, Beginning DEF Starts
<1>3. CASE journal.tail # "open"
  BY <1>1, <1>3 DEF Settled, Starts
<1> QED
  BY <1>2, <1>3

\* Another record of the session ends the line before it.
LEMMA SettledKeeps ==
  ASSUME JournalInv, TableInv, journal' = Clean(Settled(journal)),
         UNCHANGED <<ann, ids, rows>>,
         state' # "recording" \/ state' = state
  PROVE  JournalInv' /\ TableInv'
<1> DEFINE lines == Settled(journal)
<1>1. /\ Sequence(lines) /\ Starts(lines, journal.lines)
      /\ Len(lines) \in Nat /\ Len(journal.lines) \in Nat
      /\ journal.tail # "open" => lines = journal.lines
  BY SettledLines
<1>2. Chained(lines) /\ Starts(ann, lines)
  BY <1>1, StartsChained DEF JournalInv
<1> HIDE DEF lines
<1>3. /\ journal' = [lines |-> journal'.lines, tail |-> journal'.tail]
      /\ journal'.tail = "clean" /\ journal'.lines = lines
  BY DEF lines, Clean
<1>4. Settled(journal') = lines
  BY <1>3 DEF Settled
<1>5. state' = "recording" => journal'.lines = ann
  BY <1>1, <1>3 DEF JournalInv
<1>6. JournalInv'
  BY <1>1, <1>2, <1>3, <1>4, <1>5 DEF JournalInv
<1>7. \A i \in 1 .. Len(rows) : i <= Len(lines) => rows[i] = lines[i]
  <2> SUFFICES ASSUME NEW i \in 1 .. Len(rows), i <= Len(lines)
               PROVE  rows[i] = lines[i]
    OBVIOUS
  <2>1. Len(rows) \in Nat
    BY SequenceIs DEF TableInv
  <2>2. i \in 1 .. Len(lines) /\ i <= Len(journal.lines)
    BY <1>1, <2>1 DEF Starts
  <2> QED
    BY <1>1, <2>2 DEF Starts, TableInv
<1>8. state' = "recording" => Len(rows) <= Len(lines)
  BY <1>1 DEF JournalInv, TableInv
<1> QED
  BY <1>3, <1>6, <1>7, <1>8 DEF TableInv

LEMMA InsertedTable ==
  ASSUME JournalInv, TableInv, NEW n \in 0 .. Len(journal.lines),
         NEW t, t = Inserted(rows, SubSeq(journal.lines, 1, n))
  PROVE  /\ Sequence(t)
         /\ Len(t) = (IF Len(rows) < n THEN n ELSE Len(rows))
         /\ \A i \in 1 .. Len(rows) : t[i] = rows[i]
         /\ \A i \in Len(rows) + 1 .. n : t[i] = journal.lines[i]
<1> DEFINE rec == SubSeq(journal.lines, 1, n)
           top == IF Len(rows) < n THEN n ELSE Len(rows)
<1>1. /\ Sequence(rows) /\ Len(rows) \in Nat /\ DOMAIN rows = 1 .. Len(rows)
      /\ Sequence(journal.lines) /\ Len(journal.lines) \in Nat /\ n \in Nat
  BY SequenceIs DEF JournalInv, TableInv
<1>2. Sequence(rec) /\ DOMAIN rec = 1 .. n /\ \A i \in 1 .. n : rec[i] = journal.lines[i]
  <2>1. Sequence(rec) /\ Len(rec) = n /\ \A i \in 1 .. n : rec[i] = journal.lines[i]
    BY <1>1, Beginning
  <2> HIDE DEF rec
  <2> QED
    BY <2>1, SequenceIs
<1>3. \A i \in 1 .. n : rec[i].seq = i
  <2>1. Chained(journal.lines)
    BY DEF JournalInv
  <2> HIDE DEF rec
  <2>2. \A i \in 1 .. n : i \in 1 .. Len(journal.lines)
    BY <1>1
  <2> QED
    BY <1>2, <2>1, <2>2 DEF Chained
<1>0. t = Inserted(rows, rec)
  OBVIOUS
<1> HIDE DEF rec
<1>4. {rec[i].seq : i \in DOMAIN rec} = 1 .. n
  BY <1>2, <1>3
<1>5. \A s \in 1 .. n :
        (CHOOSE i \in DOMAIN rec : rec[i].seq = s /\ \A j \in 1 .. i - 1 : rec[j].seq # s) = s
  <2> TAKE s \in 1 .. n
  <2>1. \A i \in DOMAIN rec : rec[i].seq = s /\ (\A j \in 1 .. i - 1 : rec[j].seq # s) => i = s
    BY <1>2, <1>3
  <2>2. s \in DOMAIN rec /\ rec[s].seq = s
    BY <1>2, <1>3
  <2>3. \A j \in 1 .. s - 1 : rec[j].seq # s
    BY <1>1, <1>3
  <2> QED
    BY <2>1, <2>2, <2>3
<1> HIDE DEF top
<1>6. /\ t = [i \in (1 .. Len(rows)) \union (1 .. n) |-> t[i]]
      /\ \A i \in 1 .. Len(rows) : t[i] = rows[i]
      /\ \A i \in 1 .. n : i \notin 1 .. Len(rows) => t[i] = rec[i]
  <2>1. /\ t = [s \in DOMAIN rows \union {rec[i].seq : i \in DOMAIN rec} |-> t[s]]
        /\ DOMAIN t = DOMAIN rows \union {rec[i].seq : i \in DOMAIN rec}
    BY <1>0 DEF Inserted
  <2>2. \A s \in DOMAIN t : s \in DOMAIN rows => t[s] = rows[s]
    BY <1>0, <2>1 DEF Inserted
  <2>3. \A s \in DOMAIN t : s \notin DOMAIN rows =>
          t[s] = rec[CHOOSE i \in DOMAIN rec : rec[i].seq = s /\ \A j \in 1 .. i - 1 : rec[j].seq # s]
    BY <1>0, <2>1, Zenon DEF Inserted
  <2>4. DOMAIN t = (1 .. Len(rows)) \union (1 .. n)
    BY <2>1, <1>1, <1>4
  <2>5. ASSUME NEW s \in 1 .. n, s \notin 1 .. Len(rows)
        PROVE  t[s] = rec[s]
    <3>1. t[s] = rec[CHOOSE i \in DOMAIN rec : rec[i].seq = s /\ \A j \in 1 .. i - 1 : rec[j].seq # s]
      BY <2>3, <2>4, <2>5, <1>1, Zenon
    <3>2. (CHOOSE i \in DOMAIN rec : rec[i].seq = s /\ \A j \in 1 .. i - 1 : rec[j].seq # s) = s
      BY <1>5, Zenon
    <3> QED
      BY <3>1, <3>2, Zenon
  <2>6. t = [s \in (1 .. Len(rows)) \union (1 .. n) |-> t[s]]
    BY <2>1, <2>4
  <2> QED
    BY <2>2, <2>4, <2>5, <2>6, <1>1
<1>7. (1 .. Len(rows)) \union (1 .. n) = 1 .. top /\ top \in Nat
  BY <1>1 DEF top
<1>8. \A i \in 1 .. Len(rows) : t[i] = rows[i]
  BY <1>6
<1>9. ASSUME NEW i \in Len(rows) + 1 .. n
      PROVE  t[i] = journal.lines[i]
  <2>1. i \in 1 .. n /\ i \notin 1 .. Len(rows)
    BY <1>1
  <2> QED
    BY <2>1, <1>2, <1>6
<1>10. t = [i \in 1 .. top |-> t[i]]
  BY <1>6, <1>7
<1>11. Sequence(t) /\ Len(t) = top
  BY <1>7, <1>10, SequenceOf
<1> QED
  BY <1>8, <1>9, <1>11 DEF top

LEMMA ReconcileKeeps ==
  ASSUME JournalInv, TableInv, Reconcile
  PROVE  JournalInv' /\ TableInv'
<1>1. PICK n \in 0 .. Len(journal.lines) : rows' = Inserted(rows, SubSeq(journal.lines, 1, n))
  BY DEF Reconcile
<1>2. UNCHANGED <<state, journal, ann, ids>>
  BY DEF Reconcile
<1>3. /\ Sequence(rows')
      /\ Len(rows') = (IF Len(rows) < n THEN n ELSE Len(rows))
      /\ \A i \in 1 .. Len(rows) : rows'[i] = rows[i]
      /\ \A i \in Len(rows) + 1 .. n : rows'[i] = journal.lines[i]
  BY <1>1, InsertedTable
<1>4. /\ Len(rows) \in Nat /\ Len(journal.lines) \in Nat /\ n \in Nat /\ n <= Len(journal.lines)
  BY SequenceIs DEF JournalInv, TableInv
<1>5. JournalInv'
  BY <1>2 DEF JournalInv
<1>6. \A i \in 1 .. Len(rows') : i \in 1 .. Len(rows) \/ (i \in Len(rows) + 1 .. n /\ i \in 1 .. Len(journal.lines))
  BY <1>3, <1>4
<1>7. \A i \in 1 .. Len(rows') : i <= Len(journal.lines) => rows'[i] = journal.lines[i]
  BY <1>3, <1>6 DEF TableInv
<1>8. Chained(rows')
  <2> SUFFICES ASSUME NEW i \in 1 .. Len(rows')
               PROVE  rows'[i].seq = i /\ rows'[i].link = [k \in 1 .. i |-> rows'[k].body]
    BY DEF Chained
  <2>1. CASE i \in 1 .. Len(rows)
    <3>1. \A k \in 1 .. i : rows'[k] = rows[k]
      BY <1>3, <1>4, <2>1
    <3>2. rows[i].seq = i /\ rows[i].link = [k \in 1 .. i |-> rows[k].body]
      BY <2>1 DEF TableInv, Chained
    <3>3. [k \in 1 .. i |-> rows[k].body] = [k \in 1 .. i |-> rows'[k].body]
      BY <3>1
    <3> QED
      BY <3>2, <3>3, <1>3, <2>1
  <2>2. CASE i \in Len(rows) + 1 .. n /\ i \in 1 .. Len(journal.lines)
    <3>1. \A k \in 1 .. i : k \in 1 .. Len(rows') /\ k <= Len(journal.lines)
      BY <1>3, <1>4, <2>2
    <3>2. \A k \in 1 .. i : rows'[k] = journal.lines[k]
      BY <3>1, <1>7
    <3>3. journal.lines[i].seq = i /\ journal.lines[i].link = [k \in 1 .. i |-> journal.lines[k].body]
      BY <2>2 DEF JournalInv, Chained
    <3>4. [k \in 1 .. i |-> journal.lines[k].body] = [k \in 1 .. i |-> rows'[k].body]
      BY <3>2
    <3> QED
      BY <3>3, <3>4, <1>3, <2>2
  <2> QED
    BY <2>1, <2>2, <1>6
<1>9. state' = "recording" => Len(rows') <= Len(journal'.lines)
  BY <1>2, <1>3, <1>4 DEF TableInv
<1> QED
  BY <1>2, <1>3, <1>5, <1>7, <1>8, <1>9 DEF TableInv

LEMMA OneBody ==
  ASSUME NEW x
  PROVE  Sequence(<<x>>)
BY DEF Sequence, ToSet

LEMMA HandoverBodies ==
  ASSUME ids \in Nat, NEW at, NEW start
  PROVE  LET open == OpenIds(ann)
             ends == [i \in DOMAIN open |-> Body("role_ended", open[i], None, at)]
         IN  Sequence(Handover(ends, start))
<1> DEFINE S == {id \in 1 .. ids : \E s \in OpenSpans(ann) : s.id = id}
           open == OpenIds(ann)
           ends == [i \in DOMAIN open |-> Body("role_ended", open[i], None, at)]
<1>1. Cardinality(S) \in Nat
  <2>1. IsFiniteSet(1 .. ids)
    BY FS_Interval
  <2>2. IsFiniteSet(S)
    BY <2>1, FS_Subset
  <2> QED
    BY <2>2, FS_CardinalityType
<1>2. DOMAIN open = 1 .. Cardinality(S)
  BY DEF OpenIds, Ordered
<1> HIDE DEF S, open
<1>3. ends = [i \in 1 .. Cardinality(S) |-> ends[i]]
  BY <1>2
<1>4. Sequence(ends)
  <2> HIDE DEF ends
  <2> QED
    BY <1>1, <1>3, SequenceOf
<1>5. ends \o <<start>> = Append(ends, start)
  <2> DEFINE T == ToSet(ends) \union {start}
  <2> HIDE DEF ends
  <2>1. ends \in Seq(T) /\ start \in T
    BY <1>4, SeqMonotonic DEF Sequence
  <2> HIDE DEF T
  <2> QED
    BY <2>1
<1> HIDE DEF ends
<1>6. Sequence(Append(ends, start))
  BY <1>4, <1>5, OneBody, Joined
<1> QED
  BY <1>6 DEF Handover, ends, open

LEMMA NextKeeps ==
  ASSUME JournalInv, TableInv, ~spoilt', Next
  PROVE  JournalInv' /\ TableInv'
<1>0. ids \in Nat /\ ids + 1 \in Nat
  BY DEF JournalInv
<1>1. CASE AddMarker
  <2>1. PICK category \in Categories, at \in Times :
          Record(<<Body("marker_added", ids + 1, category, at)>>)
    BY <1>1 DEF AddMarker
  <2>2. ids' \in Nat
    BY <1>0, <1>1 DEF AddMarker
  <2> QED
    BY <2>1, <2>2, OneBody, RecordKeeps
<1>2. CASE EditMarker
  <2>1. PICK id \in Shown("marker_added"), category \in Categories :
          Record(<<Body("marker_edited", id, category, Started)>>)
    BY <1>2 DEF EditMarker
  <2>2. ids' \in Nat
    BY <1>0, <1>2 DEF EditMarker
  <2> QED
    BY <2>1, <2>2, OneBody, RecordKeeps
<1>3. CASE RemoveMarker
  <2>1. PICK id \in Shown("marker_added") :
          Record(<<Body("marker_removed", id, None, Started)>>)
    BY <1>3 DEF RemoveMarker
  <2>2. ids' \in Nat
    BY <1>0, <1>3 DEF RemoveMarker
  <2> QED
    BY <2>1, <2>2, OneBody, RecordKeeps
<1>4. CASE StartRoleSpan
  <2> DEFINE open == OpenIds(ann)
             Ends(at) == [i \in DOMAIN open |-> Body("role_ended", open[i], None, at)]
             Bodies(role, at) == Handover(Ends(at), Body("role_started", ids + 1, role, at))
  <2>1. PICK role \in Roles, at \in Times : Record(Bodies(role, at))
    BY <1>4 DEF StartRoleSpan
  <2>2. ids' \in Nat
    BY <1>0, <1>4 DEF StartRoleSpan
  <2>3. Sequence(Bodies(role, at))
    BY <1>0, HandoverBodies
  <2> HIDE DEF Bodies
  <2> QED
    BY <2>1, <2>2, <2>3, RecordKeeps
<1>5. CASE EndRoleSpan
  <2>1. PICK id \in Shown("role_started"), at \in Times :
          Record(<<Body("role_ended", id, None, at)>>)
    BY <1>5 DEF EndRoleSpan
  <2>2. ids' \in Nat
    BY <1>0, <1>5 DEF EndRoleSpan
  <2> QED
    BY <2>1, <2>2, OneBody, RecordKeeps
<1>6. CASE OtherRecord
  BY <1>6, SettledKeeps DEF OtherRecord, Clean
<1>7. CASE StopCapture
  <2>1. journal' = Clean(Settled(journal)) /\ state' = "stopped" /\ UNCHANGED <<ann, ids, rows>>
    BY <1>7 DEF StopCapture, Clean
  <2> QED
    BY <2>1, SettledKeeps
<1>8. CASE Reconcile
  BY <1>8, ReconcileKeeps
<1> QED
  BY <1>1, <1>2, <1>3, <1>4, <1>5, <1>6, <1>7, <1>8 DEF Next

LEMMA SpoiltStays == Next /\ ~spoilt' => ~spoilt
<1>1. \A bodies : Record(bodies) /\ ~spoilt' => ~spoilt
  BY DEF Record
<1> QED
  BY <1>1 DEF Next, AddMarker, EditMarker, RemoveMarker, StartRoleSpan, EndRoleSpan,
              OtherRecord, StopCapture, Reconcile

LEMMA MarkupInvariant == Spec => []MarkupInv
<1>1. Init => MarkupInv
  <2> SUFFICES ASSUME Init
               PROVE  JournalInv /\ TableInv
    BY DEF MarkupInv
  <2>1. Sequence(<< >>) /\ Len(<< >>) = 0
    BY DEF Sequence, ToSet
  <2>2. JournalInv
    BY <2>1 DEF Init, JournalInv, Chained, Starts, Settled
  <2>3. TableInv
    BY <2>1 DEF Init, TableInv, Chained
  <2> QED
    BY <2>2, <2>3
<1>2. MarkupInv /\ [Next]_vars => MarkupInv'
  <2> SUFFICES ASSUME MarkupInv, [Next]_vars, ~spoilt'
               PROVE  JournalInv' /\ TableInv'
    BY DEF MarkupInv
  <2>1. CASE Next
    BY <2>1, SpoiltStays, NextKeeps DEF MarkupInv
  <2>2. CASE UNCHANGED vars
    <3>1. JournalInv /\ TableInv
      BY <2>2 DEF vars, MarkupInv
    <3> QED
      BY <2>2, <3>1 DEF vars, JournalInv, TableInv
  <2> QED
    BY <2>1, <2>2
<1> QED
  BY <1>1, <1>2, PTL DEF Spec

\* No action that the window was told is done is ever lost from the journal,
\* whatever fails to be written and whenever the power goes.
THEOREM NoActionIsLost == Spec => []AcknowledgedIsKept
<1>1. MarkupInv => AcknowledgedIsKept
  <2> SUFFICES ASSUME JournalInv
               PROVE  IsPrefix(ann, journal.lines)
    BY DEF MarkupInv, AcknowledgedIsKept
  <2> DEFINE s == Settled(journal)
             t == journal.lines
  <2>1. Sequence(ann) /\ Sequence(t) /\ Len(ann) \in Nat /\ Starts(ann, s)
    BY SequenceIs DEF JournalInv
  <2>2. Sequence(s) /\ Starts(s, t) /\ Len(s) \in Nat /\ Len(t) \in Nat
    BY SettledLines
  <2> HIDE DEF s, t
  <2>3. Len(ann) <= Len(t) /\ \A i \in 1 .. Len(ann) : ann[i] = t[i]
    BY <2>1, <2>2 DEF Starts
  <2>4. Len(ann) \in 0 .. Len(ann) /\ Len(ann) \in 0 .. Len(t)
    BY <2>1, <2>2, <2>3
  <2>5. /\ Sequence(SubSeq(ann, 1, Len(ann))) /\ Len(SubSeq(ann, 1, Len(ann))) = Len(ann)
        /\ \A i \in 1 .. Len(ann) : SubSeq(ann, 1, Len(ann))[i] = ann[i]
    BY <2>1, <2>4, Beginning
  <2>6. /\ Sequence(SubSeq(t, 1, Len(ann))) /\ Len(SubSeq(t, 1, Len(ann))) = Len(ann)
        /\ \A i \in 1 .. Len(ann) : SubSeq(t, 1, Len(ann))[i] = t[i]
    BY <2>1, <2>4, Beginning
  <2>7. SubSeq(ann, 1, Len(ann)) = SubSeq(t, 1, Len(ann))
    BY <2>3, <2>5, <2>6, SameSequence
  <2> QED
    BY <2>3, <2>7 DEF IsPrefix, t
<1> QED
  BY <1>1, MarkupInvariant, PTL

LEMMA OrderedNumbers ==
  ASSUME NEW m \in Nat
  PROVE  /\ Cardinality(1 .. m) = m
         /\ Ordered(1 .. m) = [i \in 1 .. m |-> i]
<1>1. \A n \in 0 .. m : Cardinality(1 .. n) = n
  BY FS_Interval
<1>2. \A n \in 1 .. m : {k \in 1 .. m : k <= n} = 1 .. n
  OBVIOUS
<1>3. \A n \in 1 .. m : Cardinality({k \in 1 .. m : k <= n}) = n
  <2> TAKE n \in 1 .. m
  <2>1. {k \in 1 .. m : k <= n} = 1 .. n /\ n \in 0 .. m
    BY <1>2
  <2> QED
    BY <1>1, <2>1
<1>4. ASSUME NEW i \in 1 .. m
      PROVE  (CHOOSE n \in 1 .. m : Cardinality({k \in 1 .. m : k <= n}) = i) = i
  BY <1>3
<1>5. Cardinality(1 .. m) = m
  BY <1>1
<1>6. Ordered(1 .. m) =
        [i \in 1 .. Cardinality(1 .. m) |->
           CHOOSE n \in 1 .. m : Cardinality({k \in 1 .. m : k <= n}) = i]
  BY DEF Ordered
<1>7. Ordered(1 .. m) =
        [i \in 1 .. m |-> CHOOSE n \in 1 .. m : Cardinality({k \in 1 .. m : k <= n}) = i]
  BY <1>5, <1>6, Zenon
<1> QED
  BY <1>4, <1>5, <1>7, Zenon

\* The chain of the markup verifies whenever it is read from SQLite, between
\* any two inserts and however often the session has been reconciled.
THEOREM TableVerifies == Spec => []RowsVerify
<1>1. MarkupInv => RowsVerify
  <2> SUFFICES ASSUME TableInv
               PROVE  DOMAIN rows = 1 .. Cardinality(DOMAIN rows) /\ Verifies(Log)
    BY DEF MarkupInv, RowsVerify
  <2> DEFINE m == Len(rows)
  <2>1. m \in Nat /\ DOMAIN rows = 1 .. m /\ rows = [i \in 1 .. m |-> rows[i]] /\ Chained(rows)
    BY SequenceIs DEF TableInv
  <2> HIDE DEF m
  <2>2. Cardinality(1 .. m) = m /\ Ordered(1 .. m) = [i \in 1 .. m |-> i]
    BY <2>1, OrderedNumbers
  <2>3. Log = rows
    <3>1. Log = [i \in 1 .. m |-> rows[i]]
      BY <2>1, <2>2 DEF Log
    <3> QED
      BY <2>1, <3>1
  <2>4. ASSUME NEW i \in 1 .. m
        PROVE  rows[i].link = NextLinks(<< >>, [k \in 1 .. m |-> rows[k].body])[i]
    <3> DEFINE bodies == [k \in 1 .. m |-> rows[k].body]
               upto == [k \in 1 .. i |-> rows[k].body]
               none == << >>
    <3>1. Sequence(bodies) /\ Len(bodies) = m
      BY <2>1, SequenceOf
    <3>2. Sequence(upto) /\ Len(upto) = i /\ i \in 0 .. m /\ i \in Nat
      BY <2>1, SequenceOf
    <3>3. \A k \in 1 .. i : bodies[k] = upto[k]
      BY <2>1
    <3>4. NextLinks(none, bodies)[i] = none \o SubSeq(bodies, 1, i)
      BY DEF NextLinks
    <3>5. rows[i].link = upto
      BY <2>1 DEF Chained, m
    <3> HIDE DEF bodies, upto
    <3>6. /\ Sequence(SubSeq(bodies, 1, i)) /\ Len(SubSeq(bodies, 1, i)) = i
          /\ \A k \in 1 .. i : SubSeq(bodies, 1, i)[k] = bodies[k]
      BY <3>1, <3>2, Beginning
    <3>7. SubSeq(bodies, 1, i) = upto
      BY <3>2, <3>3, <3>6, SameSequence
    <3>8. none \o upto = upto
      BY <3>2, ConcatEmptySeq DEF Sequence
    <3> QED
      BY <3>4, <3>5, <3>7, <3>8 DEF bodies
  <2> QED
    BY <2>1, <2>2, <2>3, <2>4 DEF Verifies
<1> QED
  BY <1>1, MarkupInvariant, PTL


LEMMA LeastNumber ==
  ASSUME NEW S, S \subseteq Nat, S # {}
  PROVE  \E x \in S : \A y \in S : x <= y
<1>1. PICK x \in S : \A y \in S : ~(<<y, x>> \in OpToRel(<, Nat))
  BY NatLessThanWellFounded, WFMin
<1>2. \A y \in S : x <= y
  <2> SUFFICES ASSUME NEW y \in S PROVE x <= y
    OBVIOUS
  <2>1. x \in Nat /\ y \in Nat
    OBVIOUS
  <2>2. ~(y < x)
    BY <1>1, <2>1 DEF OpToRel
  <2> QED
    BY <2>1, <2>2
<1> QED
  BY <1>2

Blank == [markers |-> {}, spans |-> {}]

\* One action, as fold applies it.
Applied(snapshot, record) ==
  LET b == record.body
  IN  CASE b.action = "marker_added" ->
             [snapshot EXCEPT !.markers = @ \union {[id |-> b.target, category |-> b.what,
                                                     offset |-> b.offset]}]
        [] b.action = "marker_edited" ->
             [snapshot EXCEPT !.markers =
                {IF m.id = b.target THEN [m EXCEPT !.category = b.what] ELSE m : m \in @}]
        [] b.action = "marker_removed" ->
             [snapshot EXCEPT !.markers = {m \in @ : m.id # b.target}]
        [] b.action = "role_started" ->
             [snapshot EXCEPT !.spans = @ \union {[id |-> b.target, role |-> b.what,
                                                   from |-> b.offset, open |-> TRUE, to |-> 0]}]
        [] b.action = "role_ended" ->
             [snapshot EXCEPT !.spans =
                {IF s.id = b.target THEN [s EXCEPT !.open = FALSE, !.to = b.offset] ELSE s : s \in @}]

\* The fold is a recursion over the sets of places, the greatest taken last.
Folding(s, n, g) ==
  g = [u \in SUBSET (1 .. n) |-> IF u = {} THEN Blank ELSE Applied(g[u \ {Max(u)}], s[Max(u)])]

LEMMA FoldIs ==
  ASSUME NEW s, NEW n, DOMAIN s = 1 .. n
  PROVE  Fold(s) = (CHOOSE g : Folding(s, n, g))[1 .. n]
BY DEF Fold, FoldLeft, MapThenFoldSet, Folding, Applied, Blank

LEMMA FoldingThere ==
  ASSUME NEW s, NEW n \in Nat
  PROVE  \E g : Folding(s, n, g)
<1> DEFINE Bad == {m \in 0 .. n : ~\E g : Folding(s, m, g)}
<1> SUFFICES ASSUME Bad # {} PROVE FALSE
  OBVIOUS
<1>1. Bad \subseteq Nat
  OBVIOUS
<1>2. PICK m \in Bad : \A y \in Bad : m <= y
  BY <1>1, LeastNumber
<1>3. m \in 0 .. n /\ ~\E g : Folding(s, m, g)
  BY <1>2
<1>4. m # 0
  <2> SUFFICES ASSUME m = 0 PROVE FALSE
    OBVIOUS
  <2> DEFINE z == [u \in SUBSET (1 .. 0) |-> Blank]
  <2>1. \A u \in SUBSET (1 .. 0) : u = {}
    OBVIOUS
  <2>2. Folding(s, 0, z)
    BY <2>1, Zenon DEF Folding
  <2> QED
    BY <1>3, <2>2
<1>5. m - 1 \in 0 .. n /\ m - 1 \notin Bad /\ m \in 1 .. n
  BY <1>2, <1>3, <1>4
<1>6. PICK g : Folding(s, m - 1, g)
  BY <1>5
<1> DEFINE h == [u \in SUBSET (1 .. m) |-> IF m \in u THEN Applied(g[u \ {m}], s[m]) ELSE g[u]]
<1>7. ASSUME NEW u \in SUBSET (1 .. m)
      PROVE  h[u] = IF u = {} THEN Blank ELSE Applied(h[u \ {Max(u)}], s[Max(u)])
  <2>1. CASE m \in u
    <3>0. Max(u) = m
      <4>1. m \in Nat /\ \A x \in u : x \in Nat /\ x <= m
        BY <1>5
      <4>2. \A x \in u : (\A y \in u : x >= y) <=> x = m
        BY <2>1, <4>1
      <4> QED
        BY <2>1, <4>2 DEF Max
    <3>1. Max(u) = m /\ u \ {m} \in SUBSET (1 .. m) /\ m \notin u \ {m}
      BY <3>0
    <3>2. h[u \ {m}] = g[u \ {m}]
      BY <3>1
    <3>3. h[u] = Applied(g[u \ {m}], s[m])
      BY <2>1
    <3> HIDE DEF h
    <3> QED
      BY <2>1, <3>1, <3>2, <3>3
  <2>2. CASE m \notin u
    <3>1. u \in SUBSET (1 .. m - 1)
      BY <2>2, <1>5
    <3>2. h[u] = g[u] /\ g[u] = IF u = {} THEN Blank ELSE Applied(g[u \ {Max(u)}], s[Max(u)])
      BY <1>6, <2>2, <3>1, Zenon DEF Folding
    <3>3. u \ {Max(u)} \in SUBSET (1 .. m) /\ m \notin u \ {Max(u)}
      BY <2>2
    <3>4. h[u \ {Max(u)}] = g[u \ {Max(u)}]
      BY <3>3
    <3> HIDE DEF h
    <3> QED
      BY <3>2, <3>4
  <2> QED
    BY <2>1, <2>2
<1>8. h = [u \in SUBSET (1 .. m) |-> h[u]]
  OBVIOUS
<1> HIDE DEF h
<1>9. Folding(s, m, h)
  BY <1>7, <1>8, Zenon DEF Folding
<1> QED
  BY <1>3, <1>9

\* What the actions come to, one after the other.
LEMMA FoldRuns ==
  ASSUME NEW s, Sequence(s)
  PROVE  \E h : /\ Fold(s) = h[Len(s)] /\ h[0] = Blank
                /\ \A k \in 1 .. Len(s) : h[k] = Applied(h[k - 1], s[k])
<1> DEFINE n == Len(s)
           g == CHOOSE g : Folding(s, n, g)
           h == [k \in 0 .. n |-> g[1 .. k]]
<1>1. n \in Nat /\ DOMAIN s = 1 .. n
  BY SequenceIs
<1>2. Fold(s) = g[1 .. n]
  BY <1>1, FoldIs
<1> HIDE DEF n
<1>3. Folding(s, n, g)
  BY <1>1, FoldingThere
<1> HIDE DEF g
<1>4. \A u \in SUBSET (1 .. n) : g[u] = IF u = {} THEN Blank ELSE Applied(g[u \ {Max(u)}], s[Max(u)])
  BY <1>3, Zenon DEF Folding
<1>5. g[1 .. 0] = Blank
  <2>1. 1 .. 0 \in SUBSET (1 .. n) /\ 1 .. 0 = {}
    OBVIOUS
  <2> QED
    BY <1>4, <2>1
<1>6. ASSUME NEW k \in 1 .. n
      PROVE  g[1 .. k] = Applied(g[1 .. k - 1], s[k])
  <2>1. /\ 1 .. k \in SUBSET (1 .. n) /\ 1 .. k # {} /\ k \in 1 .. k
        /\ (1 .. k) \ {k} = 1 .. k - 1
    BY <1>1
  <2>2. Max(1 .. k) = k
    BY <1>1 DEF Max
  <2> QED
    BY <1>4, <2>1, <2>2
<1>7. \A k \in 1 .. n : h[k] = Applied(h[k - 1], s[k])
  BY <1>1, <1>6
<1>8. h[0] = Blank /\ h[n] = Fold(s)
  BY <1>1, <1>2, <1>5
<1> HIDE DEF h
<1> QED
  BY <1>7, <1>8 DEF n

-----------------------------------------------------------------------------
(***************************************************************************)
(* Who speaks.  A span is open from the action that starts it to the first *)
(* that ends it; no speaker starts before those before have been ended.    *)
(***************************************************************************)
Actions == {"marker_added", "marker_edited", "marker_removed", "role_started", "role_ended"}

Told(s) == \A i \in 1 .. Len(s) : s[i].body.action \in Actions

Starting(s, i) == s[i].body.action = "role_started"
Ending(s, i, id) == s[i].body.action = "role_ended" /\ s[i].body.target = id

\* The span that an action starts, as long as it is open.
SpanOf(s, i) ==
  [id |-> s[i].body.target, role |-> s[i].body.what, from |-> s[i].body.offset, open |-> TRUE, to |-> 0]

OpenAt(s, i, k) ==
  i \in 1 .. k /\ Starting(s, i) /\ \A j \in i + 1 .. k : ~Ending(s, j, s[i].body.target)

\* The open spans after some actions are those started and not ended.
Spoken(s, k, spans) ==
  /\ \A x \in spans : x.open => \E i \in 1 .. k : OpenAt(s, i, k) /\ x = SpanOf(s, i)
  /\ \A i \in 1 .. k : OpenAt(s, i, k) => SpanOf(s, i) \in spans

Handed(s) ==
  \A i, j \in 1 .. Len(s) :
    i < j /\ Starting(s, i) /\ Starting(s, j) =>
      \E k \in i + 1 .. j - 1 : Ending(s, k, s[i].body.target)

\* What an action does to the spans.
Effect(old, r, new) ==
  /\ r.body.action = "role_started" =>
       new = old \union {[id |-> r.body.target, role |-> r.body.what,
                          from |-> r.body.offset, open |-> TRUE, to |-> 0]}
  /\ r.body.action = "role_ended" =>
       new = {IF s.id = r.body.target THEN [s EXCEPT !.open = FALSE, !.to = r.body.offset]
              ELSE s : s \in old}
  /\ r.body.action \notin {"role_started", "role_ended"} => new = old

Snapshot(f) == f = [markers |-> f.markers, spans |-> f.spans]

LEMMA AppliedSpans ==
  ASSUME NEW f, Snapshot(f), NEW r, r.body.action \in Actions
  PROVE  Snapshot(Applied(f, r)) /\ Effect(f.spans, r, Applied(f, r).spans)
<1> DEFINE b == r.body
<1>1. CASE b.action = "marker_added"
  BY <1>1 DEF Applied, Snapshot, Effect
<1>2. CASE b.action = "marker_edited"
  BY <1>2 DEF Applied, Snapshot, Effect
<1>3. CASE b.action = "marker_removed"
  BY <1>3 DEF Applied, Snapshot, Effect
<1>4. CASE b.action = "role_started"
  BY <1>4 DEF Applied, Snapshot, Effect
<1>5. CASE b.action = "role_ended"
  BY <1>5 DEF Applied, Snapshot, Effect
<1> QED
  BY <1>1, <1>2, <1>3, <1>4, <1>5 DEF Actions

LEMMA SpokenGrows ==
  ASSUME NEW s, NEW k \in Nat \ {0}, s[k].body.action \in Actions,
         NEW f, Snapshot(f), Spoken(s, k - 1, f.spans),
         NEW f2, f2 = Applied(f, s[k])
  PROVE  Snapshot(f2) /\ Spoken(s, k, f2.spans)
<1> DEFINE b == s[k].body
<1>1. /\ Snapshot(f2)
      /\ b.action = "role_started" => f2.spans = f.spans \union {SpanOf(s, k)}
      /\ b.action = "role_ended" =>
           f2.spans = {IF x.id = b.target THEN [x EXCEPT !.open = FALSE, !.to = b.offset]
                       ELSE x : x \in f.spans}
      /\ b.action \notin {"role_started", "role_ended"} => f2.spans = f.spans
  <2>1. Snapshot(f2) /\ Effect(f.spans, s[k], f2.spans)
    BY AppliedSpans
  <2> QED
    BY <2>1 DEF Snapshot, Effect, SpanOf
<1>2. ASSUME NEW i \in 1 .. k - 1
      PROVE  /\ OpenAt(s, i, k) <=> OpenAt(s, i, k - 1) /\ ~Ending(s, k, s[i].body.target)
             /\ i \in 1 .. k
  <2>1. /\ i \in 1 .. k /\ k \in i + 1 .. k
        /\ \A j \in i + 1 .. k : j \in i + 1 .. k - 1 \/ j = k
        /\ \A j \in i + 1 .. k - 1 : j \in i + 1 .. k
    OBVIOUS
  <2> QED
    BY <2>1 DEF OpenAt
<1>3. OpenAt(s, k, k) <=> Starting(s, k)
  BY DEF OpenAt
<1>4. k \in 1 .. k /\ \A i \in 1 .. k : i \in 1 .. k - 1 \/ i = k
  OBVIOUS
<1>5. CASE b.action = "role_started"
  <2>1. f2.spans = f.spans \union {SpanOf(s, k)} /\ Starting(s, k) /\ \A id : ~Ending(s, k, id)
    BY <1>1, <1>5 DEF Starting, Ending
  <2>2. ASSUME NEW x \in f2.spans, x.open
        PROVE  \E i \in 1 .. k : OpenAt(s, i, k) /\ x = SpanOf(s, i)
    <3>1. CASE x \in f.spans
      BY <1>2, <2>1, <2>2, <3>1 DEF Spoken
    <3>2. CASE x = SpanOf(s, k)
      BY <1>3, <1>4, <2>1, <3>2
    <3> QED
      BY <2>1, <3>1, <3>2
  <2>3. ASSUME NEW i \in 1 .. k, OpenAt(s, i, k)
        PROVE  SpanOf(s, i) \in f2.spans
    BY <1>2, <1>4, <2>1, <2>3 DEF Spoken
  <2> QED
    BY <1>1, <2>2, <2>3 DEF Spoken
<1>6. CASE b.action = "role_ended"
  <2>1. /\ f2.spans = {IF x.id = b.target THEN [x EXCEPT !.open = FALSE, !.to = b.offset]
                       ELSE x : x \in f.spans}
        /\ ~Starting(s, k) /\ \A id : Ending(s, k, id) <=> id = b.target
    BY <1>1, <1>6 DEF Starting, Ending
  <2>2. ASSUME NEW x \in f2.spans, x.open
        PROVE  \E i \in 1 .. k : OpenAt(s, i, k) /\ x = SpanOf(s, i)
    <3>1. PICK y \in f.spans :
            x = IF y.id = b.target THEN [y EXCEPT !.open = FALSE, !.to = b.offset] ELSE y
      BY <2>1
    <3>2. CASE y.id = b.target /\ y.open
      <4>1. PICK i \in 1 .. k - 1 : y = SpanOf(s, i)
        BY <3>2 DEF Spoken
      <4>2. x.open = FALSE
        BY <3>1, <3>2, <4>1 DEF SpanOf
      <4> QED
        BY <2>2, <4>2
    <3>3. CASE y.id = b.target /\ ~y.open
      <4>1. x.open = FALSE \/ x.open = y.open
        BY <3>1, <3>3
      <4> QED
        BY <2>2, <3>3, <4>1
    <3>4. CASE y.id # b.target
      <4>1. x = y
        BY <3>1, <3>4
      <4>2. PICK i \in 1 .. k - 1 : OpenAt(s, i, k - 1) /\ x = SpanOf(s, i)
        BY <2>2, <4>1 DEF Spoken
      <4>3. x.id = s[i].body.target
        BY <4>2 DEF SpanOf
      <4>4. ~Ending(s, k, s[i].body.target)
        BY <2>1, <3>4, <4>1, <4>3
      <4> QED
        BY <1>2, <4>2, <4>4
    <3> QED
      BY <3>2, <3>3, <3>4
  <2>3. ASSUME NEW i \in 1 .. k, OpenAt(s, i, k)
        PROVE  SpanOf(s, i) \in f2.spans
    <3>1. i \in 1 .. k - 1
      BY <1>3, <1>4, <2>1, <2>3
    <3>2. SpanOf(s, i) \in f.spans /\ s[i].body.target # b.target
      BY <1>2, <2>1, <2>3, <3>1 DEF Spoken
    <3>3. SpanOf(s, i).id # b.target
      BY <3>2 DEF SpanOf
    <3> QED
      BY <2>1, <3>2, <3>3
  <2> QED
    BY <1>1, <2>2, <2>3 DEF Spoken
<1>7. CASE b.action \notin {"role_started", "role_ended"}
  <2>1. f2.spans = f.spans /\ ~Starting(s, k) /\ \A id : ~Ending(s, k, id)
    BY <1>1, <1>7 DEF Starting, Ending
  <2>2. \A x \in f2.spans : x.open => \E i \in 1 .. k : OpenAt(s, i, k) /\ x = SpanOf(s, i)
    BY <1>2, <2>1 DEF Spoken
  <2>3. \A i \in 1 .. k : OpenAt(s, i, k) => SpanOf(s, i) \in f2.spans
    BY <1>2, <1>3, <1>4, <2>1 DEF Spoken
  <2> QED
    BY <1>1, <2>2, <2>3 DEF Spoken
<1> QED
  BY <1>5, <1>6, <1>7

LEMMA FoldSpeaks ==
  ASSUME NEW s, Sequence(s), Told(s)
  PROVE  Spoken(s, Len(s), Fold(s).spans)
<1> DEFINE n == Len(s)
<1>1. n \in Nat
  BY SequenceIs
<1>2. PICK h : /\ Fold(s) = h[n] /\ h[0] = Blank
               /\ \A k \in 1 .. n : h[k] = Applied(h[k - 1], s[k])
  BY FoldRuns
<1>3. \A k \in 1 .. n : s[k].body.action \in Actions
  BY DEF Told
<1> HIDE DEF n
<1> DEFINE Fine(k) == Snapshot(h[k]) /\ Spoken(s, k, h[k].spans)
           Bad == {k \in 0 .. n : ~Fine(k)}
<1>4. Bad = {}
  <2> SUFFICES ASSUME Bad # {} PROVE FALSE
    OBVIOUS
  <2>1. Bad \subseteq Nat
    BY <1>1
  <2>2. PICK m \in Bad : \A y \in Bad : m <= y
    BY <2>1, LeastNumber
  <2>3. m \in 0 .. n /\ ~Fine(m)
    BY <2>2
  <2>4. m # 0
    <3>1. h[0] = [markers |-> {}, spans |-> {}]
      BY <1>2 DEF Blank
    <3>2. Spoken(s, 0, {})
      BY DEF Spoken
    <3>3. Fine(0)
      BY <3>1, <3>2 DEF Snapshot
    <3> QED
      BY <2>3, <3>3
  <2>5. m \in Nat \ {0} /\ m \in 1 .. n /\ m - 1 \in 0 .. n /\ m - 1 \notin Bad
    BY <1>1, <2>2, <2>3, <2>4
  <2>6. Fine(m - 1)
    BY <2>5
  <2>7. h[m] = Applied(h[m - 1], s[m]) /\ s[m].body.action \in Actions
    BY <1>2, <1>3, <2>5
  <2> DEFINE f == h[m - 1]
             f2 == h[m]
  <2>8. /\ Snapshot(f) /\ Spoken(s, m - 1, f.spans)
        /\ f2 = Applied(f, s[m])
    BY <2>6, <2>7
  <2> HIDE DEF f, f2
  <2>9. Snapshot(f2) /\ Spoken(s, m, f2.spans)
    BY <2>5, <2>7, <2>8, SpokenGrows
  <2> QED
    BY <2>3, <2>9 DEF f2
<1>5. n \in 0 .. n
  BY <1>1
<1> QED
  BY <1>2, <1>4, <1>5 DEF n

\* Handed over each time, one speaker at most.
LEMMA HandedIsOne ==
  ASSUME NEW s, Sequence(s), Told(s), Handed(s)
  PROVE  Cardinality(OpenSpans(s)) <= 1
<1> DEFINE n == Len(s)
<1>1. Spoken(s, n, Fold(s).spans) /\ n \in Nat
  BY FoldSpeaks, SequenceIs
<1>2. ASSUME NEW x \in OpenSpans(s), NEW y \in OpenSpans(s)
      PROVE  x = y
  <2>1. x \in Fold(s).spans /\ x.open /\ y \in Fold(s).spans /\ y.open
    BY DEF OpenSpans
  <2>2. PICK i \in 1 .. n : OpenAt(s, i, n) /\ x = SpanOf(s, i)
    BY <1>1, <2>1 DEF Spoken
  <2>3. PICK j \in 1 .. n : OpenAt(s, j, n) /\ y = SpanOf(s, j)
    BY <1>1, <2>1 DEF Spoken
  <2>4. ASSUME NEW p \in 1 .. n, NEW q \in 1 .. n, OpenAt(s, p, n), OpenAt(s, q, n)
        PROVE  ~(p < q)
    <3> SUFFICES ASSUME p < q PROVE FALSE
      OBVIOUS
    <3>1. PICK k \in p + 1 .. q - 1 : Ending(s, k, s[p].body.target)
      BY <2>4 DEF OpenAt, Handed
    <3>2. k \in p + 1 .. n
      BY <1>1
    <3> QED
      BY <2>4, <3>1, <3>2 DEF OpenAt
  <2>5. i = j
    BY <2>2, <2>3, <2>4
  <2> QED
    BY <2>2, <2>3, <2>5
<1>3. OpenSpans(s) = {} \/ \E x : OpenSpans(s) = {x}
  BY <1>2
<1>4. CASE OpenSpans(s) = {}
  BY <1>4, FS_EmptySet
<1>5. CASE \E x : OpenSpans(s) = {x}
  <2>1. Cardinality(OpenSpans(s)) = 1
    BY <1>5, FS_Singleton
  <2> QED
    BY <2>1
<1> QED
  BY <1>3, <1>4, <1>5

LEMMA StartsHanded ==
  ASSUME NEW s, NEW t, Len(s) \in Nat, Len(t) \in Nat, Starts(s, t), Told(t), Handed(t)
  PROVE  Told(s) /\ Handed(s)
<1>1. \A i \in 1 .. Len(s) : i \in 1 .. Len(t) /\ s[i] = t[i]
  BY DEF Starts
<1>2. Told(s)
  BY <1>1 DEF Told
<1>3. ASSUME NEW i \in 1 .. Len(s), NEW j \in 1 .. Len(s), i < j, Starting(s, i), Starting(s, j)
      PROVE  \E k \in i + 1 .. j - 1 : Ending(s, k, s[i].body.target)
  <2>1. i \in 1 .. Len(t) /\ j \in 1 .. Len(t) /\ Starting(t, i) /\ Starting(t, j) /\ s[i] = t[i]
    BY <1>1, <1>3 DEF Starting
  <2>2. PICK k \in i + 1 .. j - 1 : Ending(t, k, t[i].body.target)
    BY <1>3, <2>1 DEF Handed
  <2>3. k \in 1 .. Len(s)
    OBVIOUS
  <2> QED
    BY <1>1, <2>1, <2>2, <2>3 DEF Ending
<1> QED
  BY <1>2, <1>3 DEF Handed

\* Every member of a set of numbers has a place in its order.
LEMMA OrderedCovers ==
  ASSUME NEW S, IsFiniteSet(S), S \subseteq Nat, NEW n \in S
  PROVE  \E p \in DOMAIN Ordered(S) : Ordered(S)[p] = n
<1> DEFINE upto(k) == {m \in S : m <= k}
           p == Cardinality(upto(n))
<1>1. ASSUME NEW k \in S
      PROVE  upto(k) \in SUBSET S /\ k \in upto(k) /\ IsFiniteSet(upto(k)) /\ Cardinality(upto(k)) \in Nat
  <2>1. upto(k) \in SUBSET S /\ k \in upto(k)
    OBVIOUS
  <2> HIDE DEF upto
  <2> QED
    BY <2>1, FS_Subset, FS_CardinalityType
<1>2. p \in 1 .. Cardinality(S)
  <2>1. Cardinality(S) \in Nat /\ p \in Nat /\ p <= Cardinality(S) /\ p # 0
    <3> HIDE DEF upto
    <3> QED
      BY <1>1, FS_Subset, FS_CardinalityType, FS_EmptySet
  <2> QED
    BY <2>1
<1>3. ASSUME NEW k \in S, NEW l \in S, k < l
      PROVE  Cardinality(upto(k)) # Cardinality(upto(l))
  <2>1. upto(k) \in SUBSET upto(l) /\ l \notin upto(k)
    <3>1. k \in Nat /\ l \in Nat /\ \A x \in S : x \in Nat
      OBVIOUS
    <3>2. ASSUME NEW x \in upto(k) PROVE x \in upto(l) /\ x # l
      <4>1. x \in S /\ x <= k /\ x \in Nat
        BY <3>1
      <4> QED
        BY <1>3, <3>1, <4>1
    <3> QED
      BY <3>2
  <2>2. l \in upto(l) /\ IsFiniteSet(upto(l))
    BY <1>1
  <2> HIDE DEF upto
  <2> QED
    BY <2>1, <2>2, FS_Subset
<1>4. ASSUME NEW k \in S, Cardinality(upto(k)) = p
      PROVE  k = n
  <2>1. k \in Nat /\ n \in Nat
    OBVIOUS
  <2>2. ~(k < n) /\ ~(n < k)
    BY <1>3, <1>4
  <2> QED
    BY <2>1, <2>2
<1>5. DOMAIN Ordered(S) = 1 .. Cardinality(S)
  BY DEF Ordered
<1>6. Ordered(S)[p] = CHOOSE k \in S : Cardinality(upto(k)) = p
  <2> HIDE DEF p
  <2> QED
    BY <1>2, Zenon DEF Ordered
<1>7. (CHOOSE k \in S : Cardinality(upto(k)) = p) = n
  <2>1. Cardinality(upto(n)) = p
    OBVIOUS
  <2> HIDE DEF upto, p
  <2> QED
    BY <1>4, <2>1
<1> QED
  BY <1>2, <1>5, <1>6, <1>7

SpeakInv ==
  /\ Told(journal.lines) /\ Handed(journal.lines)
  /\ Told(rows) /\ Handed(rows)
  /\ \A i \in 1 .. Len(ann) : Starting(ann, i) => ann[i].body.target \in 1 .. ids

OpenTargets == {id \in 1 .. ids : \E s \in OpenSpans(ann) : s.id = id}

\* Of some actions one is a start at most, of a new span, behind the ends of
\* all that are open.
HandsOver(bodies) ==
  \A j \in 1 .. Len(bodies) :
    /\ bodies[j].action \in Actions
    /\ bodies[j].action = "role_started" =>
         /\ bodies[j].target \in 1 .. ids'
         /\ \A i \in 1 .. j - 1 : bodies[i].action # "role_started"
         /\ \A id \in OpenTargets : \E k \in 1 .. j - 1 :
              bodies[k].action = "role_ended" /\ bodies[k].target = id

LEMMA HandedGrows ==
  ASSUME JournalInv, SpeakInv, state = "recording", ids' \in Nat, ids <= ids',
         NEW bodies, Sequence(bodies), HandsOver(bodies),
         NEW full, full = ann \o Numbered(bodies)
  PROVE  /\ Told(full) /\ Handed(full)
         /\ \A i \in 1 .. Len(full) : Starting(full, i) => full[i].body.target \in 1 .. ids'
<1> DEFINE r == Numbered(bodies)
           m == Len(ann)
           n == Len(bodies)
<1>1. /\ m \in Nat /\ n \in Nat /\ Sequence(ann) /\ journal.lines = ann
      /\ Sequence(r) /\ Len(r) = n /\ \A i \in 1 .. n : r[i].body = bodies[i]
      /\ ids \in Nat
  BY SequenceIs, NumberedSequence DEF JournalInv
<1>0. full = ann \o r
  OBVIOUS
<1> HIDE DEF r
<1>2. /\ Len(full) = m + n
      /\ \A i \in 1 .. m : full[i] = ann[i]
      /\ \A i \in 1 .. n : full[m + i] = r[i]
  <2>1. Sequence(ann) /\ Sequence(r) /\ Len(r) = n
    BY <1>1
  <2>2. /\ Len(ann \o r) = Len(ann) + Len(r)
        /\ \A i \in 1 .. Len(ann) : (ann \o r)[i] = ann[i]
        /\ \A i \in 1 .. Len(r) : (ann \o r)[Len(ann) + i] = r[i]
    BY <2>1, Joined
  <2> QED
    BY <1>0, <2>1, <2>2
<1> HIDE DEF m, n
<1>3. \A i \in 1 .. m : i \in 1 .. m + n /\ full[i].body = ann[i].body
  BY <1>1, <1>2
<1>4. \A i \in 1 .. n : m + i \in 1 .. m + n /\ full[m + i].body = bodies[i]
  BY <1>1, <1>2
<1>5. \A i \in 1 .. m + n : ~(i \in 1 .. m) => i - m \in 1 .. n /\ m + (i - m) = i
  BY <1>1
<1>6. ASSUME NEW i \in 1 .. m + n, ~(i \in 1 .. m)
      PROVE  i - m \in 1 .. n /\ full[i].body = bodies[i - m]
  BY <1>4, <1>5, <1>6
<1>7. Told(full)
  <2> SUFFICES ASSUME NEW i \in 1 .. m + n PROVE full[i].body.action \in Actions
    BY <1>2 DEF Told
  <2>1. CASE i \in 1 .. m
    BY <1>1, <1>3, <2>1 DEF SpeakInv, Told, m
  <2>2. CASE ~(i \in 1 .. m)
    BY <1>6, <2>2 DEF HandsOver, n
  <2> QED
    BY <2>1, <2>2
<1>8. ASSUME NEW i \in 1 .. m + n, Starting(full, i)
      PROVE  full[i].body.target \in 1 .. ids'
  <2>1. CASE i \in 1 .. m
    <3>1. ann[i].body.target \in 1 .. ids
      BY <1>3, <1>8, <2>1 DEF SpeakInv, Starting, m
    <3>2. ann[i].body.target \in 1 .. ids'
      BY <1>1, <3>1
    <3> QED
      BY <1>3, <2>1, <3>2
  <2>2. CASE ~(i \in 1 .. m)
    <3> DEFINE b == i - m
    <3>1. b \in 1 .. n /\ full[i].body = bodies[b] /\ bodies[b].action = "role_started"
      BY <1>6, <1>8, <2>2 DEF Starting
    <3> HIDE DEF b
    <3>2. bodies[b].target \in 1 .. ids'
      BY <3>1 DEF HandsOver, n
    <3> QED
      BY <3>1, <3>2
  <2> QED
    BY <2>1, <2>2
<1>9. ASSUME NEW i \in 1 .. m + n, NEW j \in 1 .. m + n, i < j, Starting(full, i), Starting(full, j)
      PROVE  \E k \in i + 1 .. j - 1 : Ending(full, k, full[i].body.target)
  <2>1. CASE j \in 1 .. m
    <3>1. i \in 1 .. m
      BY <1>1, <1>9, <2>1
    <3>2. PICK k \in i + 1 .. j - 1 : Ending(ann, k, ann[i].body.target)
      <4>1. Starting(ann, i) /\ Starting(ann, j)
        BY <1>3, <1>9, <2>1, <3>1 DEF Starting
      <4> QED
        BY <1>1, <1>9, <2>1, <3>1, <4>1 DEF SpeakInv, Handed, m
    <3>3. k \in 1 .. m
      BY <1>1, <2>1, <3>1
    <3> QED
      BY <1>3, <3>1, <3>2, <3>3 DEF Ending
  <2>2. CASE ~(j \in 1 .. m)
    <3> DEFINE b == j - m
               id == full[i].body.target
    <3>1. b \in 1 .. n /\ full[j].body = bodies[b] /\ j = m + b /\ bodies[b].action = "role_started"
      BY <1>1, <1>5, <1>6, <1>9, <2>2 DEF Starting
    <3>2. /\ \A k \in 1 .. b - 1 : bodies[k].action # "role_started"
          /\ \A x \in OpenTargets : \E k \in 1 .. b - 1 :
               bodies[k].action = "role_ended" /\ bodies[k].target = x
      BY <3>1 DEF HandsOver, n
    <3> HIDE DEF b
    <3>3. i \in 1 .. m
      <4> SUFFICES ASSUME ~(i \in 1 .. m) PROVE FALSE
        OBVIOUS
      <4>1. i - m \in 1 .. n /\ full[i].body = bodies[i - m]
        BY <1>6
      <4>2. i - m \in 1 .. b - 1
        BY <1>1, <1>9, <3>1, <4>1
      <4> QED
        BY <1>9, <3>2, <4>1, <4>2 DEF Starting
    <3>4. Starting(ann, i) /\ id = ann[i].body.target /\ id \in 1 .. ids
      BY <1>3, <1>9, <3>3 DEF Starting, SpeakInv, m
    <3>5. CASE \E k \in i + 1 .. m : Ending(ann, k, id)
      <4>1. PICK k \in i + 1 .. m : Ending(ann, k, id)
        BY <3>5
      <4>2. k \in 1 .. m /\ k \in i + 1 .. j - 1
        BY <1>1, <3>1, <3>3
      <4> QED
        BY <1>3, <4>1, <4>2 DEF Ending
    <3>6. CASE ~\E k \in i + 1 .. m : Ending(ann, k, id)
      <4>1. OpenAt(ann, i, m)
        BY <3>3, <3>4, <3>6 DEF OpenAt
      <4>2. SpanOf(ann, i) \in Fold(ann).spans
        <5>1. Told(ann)
          BY <1>1 DEF SpeakInv
        <5> QED
          BY <1>1, <3>3, <4>1, <5>1, FoldSpeaks DEF Spoken, m
      <4>3. id \in OpenTargets
        <5>1. SpanOf(ann, i).open /\ SpanOf(ann, i).id = id
          BY <3>4 DEF SpanOf
        <5>2. SpanOf(ann, i) \in OpenSpans(ann)
          BY <4>2, <5>1 DEF OpenSpans
        <5> HIDE DEF id
        <5> QED
          BY <3>4, <5>1, <5>2 DEF OpenTargets
      <4>4. PICK k \in 1 .. b - 1 : bodies[k].action = "role_ended" /\ bodies[k].target = id
        BY <3>2, <4>3
      <4>5. k \in 1 .. n /\ m + k \in i + 1 .. j - 1
        BY <1>1, <3>1, <3>3
      <4> QED
        BY <1>4, <4>4, <4>5 DEF Ending
    <3> QED
      BY <3>5, <3>6
  <2> QED
    BY <2>1, <2>2
<1>10. Handed(full)
  BY <1>2, <1>9 DEF Handed
<1> QED
  BY <1>2, <1>7, <1>8, <1>10

LEMMA RecordSpeaks ==
  ASSUME JournalInv, TableInv, SpeakInv, ids' \in Nat, ids <= ids',
         NEW bodies, Sequence(bodies), HandsOver(bodies), Record(bodies), ~spoilt'
  PROVE  SpeakInv'
<1> DEFINE records == Numbered(bodies)
           full == ann \o records
<1>1. /\ Sequence(records) /\ Len(records) = Len(bodies) /\ Len(bodies) \in Nat
      /\ Sequence(ann) /\ Len(ann) \in Nat
      /\ state = "recording" /\ rows' = rows
  BY NumberedSequence, SequenceIs DEF JournalInv, Record
<1>2. PICK n, m, k \in 0 .. Len(bodies) :
        ann' = Known(records, n) /\ journal'.lines = Known(records, m)
  BY Outcome
<1>3. /\ Told(full) /\ Handed(full)
      /\ \A i \in 1 .. Len(full) : Starting(full, i) => full[i].body.target \in 1 .. ids'
  BY <1>1, HandedGrows
<1> HIDE DEF records
<1>4. \A i \in 0 .. Len(bodies) :
        /\ Sequence(Known(records, i)) /\ Len(Known(records, i)) = Len(ann) + i
        /\ Starts(Known(records, i), full)
  BY <1>1, OneMore
<1>5. Sequence(full) /\ Len(full) \in Nat
  BY <1>1, Joined, SequenceIs
<1> HIDE DEF full
<1>6. Told(journal'.lines) /\ Handed(journal'.lines)
  <2>1. Starts(Known(records, m), full) /\ Len(Known(records, m)) \in Nat
    BY <1>1, <1>4
  <2> QED
    BY <1>2, <1>3, <1>5, <2>1, StartsHanded
<1>7. \A i \in 1 .. Len(ann') : Starting(ann', i) => ann'[i].body.target \in 1 .. ids'
  <2>1. Starts(ann', full) /\ Len(ann') \in Nat
    BY <1>1, <1>2, <1>4
  <2>2. \A i \in 1 .. Len(ann') : i \in 1 .. Len(full) /\ ann'[i] = full[i]
    BY <1>5, <2>1 DEF Starts
  <2> QED
    BY <1>3, <2>2 DEF Starting
<1>8. Told(rows') /\ Handed(rows')
  BY <1>1 DEF SpeakInv
<1> QED
  BY <1>6, <1>7, <1>8 DEF SpeakInv, Starting

\* A single action that starts no span hands over trivially.
LEMMA OtherHands ==
  ASSUME NEW x, x.action \in Actions \ {"role_started"}
  PROVE  HandsOver(<<x>>)
<1>1. \A j \in 1 .. Len(<<x>>) : <<x>>[j] = x
  OBVIOUS
<1> QED
  BY <1>1 DEF HandsOver

\* A new speaker: the open spans are ended first.
LEMMA HandoverHands ==
  ASSUME ids \in Nat, ids' = ids + 1, NEW role, NEW at,
         NEW open, open = OpenIds(ann),
         NEW ends, ends = [i \in DOMAIN open |-> Body("role_ended", open[i], None, at)],
         NEW start, start = Body("role_started", ids + 1, role, at)
  PROVE  HandsOver(Handover(ends, start))
<1> DEFINE n == Cardinality(OpenTargets)
           bodies == Handover(ends, start)
<1>1. IsFiniteSet(OpenTargets) /\ OpenTargets \subseteq Nat /\ n \in Nat
  <2>1. IsFiniteSet(1 .. ids) /\ OpenTargets \subseteq 1 .. ids
    BY FS_Interval DEF OpenTargets
  <2>2. IsFiniteSet(OpenTargets)
    BY <2>1, FS_Subset
  <2>3. 1 .. ids \subseteq Nat
    OBVIOUS
  <2> QED
    BY <2>1, <2>2, <2>3, FS_CardinalityType
<1>2. open = Ordered(OpenTargets)
  BY DEF OpenIds, OpenTargets
<1>3. DOMAIN open = 1 .. n
  BY <1>2 DEF Ordered
<1> HIDE DEF n
<1>4. Sequence(ends) /\ Len(ends) = n
  <2>1. ends = [i \in 1 .. n |-> ends[i]]
    BY <1>3
  <2> QED
    BY <1>1, <2>1, SequenceOf
<1>5. /\ Len(bodies) = n + 1
      /\ \A i \in 1 .. n : bodies[i] = ends[i]
      /\ bodies[n + 1] = start
  <2> DEFINE T == ToSet(ends) \union {start}
  <2>1. ends \in Seq(T) /\ start \in T
    BY <1>4, SeqMonotonic DEF Sequence
  <2> HIDE DEF T
  <2>2. /\ Len(Append(ends, start)) = Len(ends) + 1
        /\ \A i \in 1 .. Len(ends) : Append(ends, start)[i] = ends[i]
        /\ Append(ends, start)[Len(ends) + 1] = start
    BY <2>1
  <2> QED
    BY <1>4, <2>2 DEF Handover
<1>6. \A i \in 1 .. n : bodies[i].action = "role_ended" /\ bodies[i].target = open[i]
  BY <1>3, <1>5 DEF Body
<1>7. start.action = "role_started" /\ start.target = ids + 1
  BY DEF Body
<1>8. \A id \in OpenTargets : \E k \in 1 .. n : open[k] = id
  BY <1>1, <1>2, <1>3, OrderedCovers
<1> HIDE DEF bodies
<1> SUFFICES ASSUME NEW j \in 1 .. n + 1
             PROVE  /\ bodies[j].action \in Actions
                    /\ bodies[j].action = "role_started" =>
                         /\ bodies[j].target \in 1 .. ids'
                         /\ \A i \in 1 .. j - 1 : bodies[i].action # "role_started"
                         /\ \A id \in OpenTargets : \E k \in 1 .. j - 1 :
                              bodies[k].action = "role_ended" /\ bodies[k].target = id
  BY <1>5 DEF HandsOver, bodies
<1>9. CASE j \in 1 .. n
  BY <1>6, <1>9 DEF Actions
<1>10. CASE j = n + 1
  <2>1. bodies[j] = start /\ j - 1 = n
    BY <1>1, <1>5, <1>10
  <2>2. bodies[j].action \in Actions /\ bodies[j].target \in 1 .. ids'
    BY <1>7, <2>1 DEF Actions
  <2>3. \A i \in 1 .. n : bodies[i].action # "role_started"
    BY <1>6
  <2>4. \A id \in OpenTargets : \E k \in 1 .. n : bodies[k].action = "role_ended" /\ bodies[k].target = id
    BY <1>6, <1>8
  <2> QED
    BY <2>1, <2>2, <2>3, <2>4
<1> QED
  BY <1>1, <1>9, <1>10

LEMMA SettledSpeaks ==
  ASSUME JournalInv, SpeakInv, journal' = Clean(Settled(journal)), UNCHANGED <<ann, ids, rows>>
  PROVE  SpeakInv'
<1>1. journal'.lines = Settled(journal)
  BY DEF Clean
<1>2. Told(Settled(journal)) /\ Handed(Settled(journal))
  BY SettledLines, StartsHanded DEF SpeakInv
<1> QED
  BY <1>1, <1>2 DEF SpeakInv, Starting

LEMMA ReconcileSpeaks ==
  ASSUME JournalInv, TableInv, SpeakInv, Reconcile
  PROVE  SpeakInv'
<1>1. PICK n \in 0 .. Len(journal.lines) : rows' = Inserted(rows, SubSeq(journal.lines, 1, n))
  BY DEF Reconcile
<1>2. UNCHANGED <<state, journal, ann, ids>>
  BY DEF Reconcile
<1>3. /\ Sequence(rows')
      /\ Len(rows') = (IF Len(rows) < n THEN n ELSE Len(rows))
      /\ \A i \in 1 .. Len(rows) : rows'[i] = rows[i]
      /\ \A i \in Len(rows) + 1 .. n : rows'[i] = journal.lines[i]
  BY <1>1, InsertedTable
<1>4. /\ Len(rows) \in Nat /\ Len(journal.lines) \in Nat /\ n \in Nat /\ n <= Len(journal.lines)
      /\ Len(rows') \in Nat
  BY <1>3, SequenceIs DEF JournalInv, TableInv
<1>5. Told(rows') /\ Handed(rows')
  <2>1. CASE Len(rows) < n
    <3>1. ASSUME NEW i \in 1 .. Len(rows') PROVE rows'[i] = journal.lines[i]
      <4>1. i \in 1 .. Len(rows) \/ i \in Len(rows) + 1 .. n
        BY <1>3, <1>4, <2>1
      <4>2. i <= Len(journal.lines)
        BY <1>3, <1>4, <2>1
      <4> QED
        BY <1>3, <4>1, <4>2 DEF TableInv
    <3>2. Starts(rows', journal.lines)
      BY <1>3, <1>4, <2>1, <3>1 DEF Starts
    <3> QED
      BY <1>4, <3>2, StartsHanded DEF SpeakInv
  <2>2. CASE ~(Len(rows) < n)
    <3>1. Starts(rows', rows)
      BY <1>3, <1>4, <2>2 DEF Starts
    <3> QED
      BY <1>4, <3>1, StartsHanded DEF SpeakInv
  <2> QED
    BY <2>1, <2>2
<1> QED
  BY <1>2, <1>5 DEF SpeakInv, Starting

LEMMA NextSpeaks ==
  ASSUME JournalInv, TableInv, SpeakInv, ~spoilt', Next
  PROVE  SpeakInv'
<1>0. ids \in Nat /\ ids + 1 \in Nat /\ ids <= ids + 1 /\ ids <= ids
  BY DEF JournalInv
<1>a. ASSUME NEW x, x.action \in Actions \ {"role_started"}, Record(<<x>>), ids' \in {ids, ids + 1}
      PROVE  SpeakInv'
  <2>1. ids' \in Nat /\ ids <= ids'
    BY <1>0, <1>a
  <2>2. Sequence(<<x>>) /\ HandsOver(<<x>>)
    BY <1>a, OneBody, OtherHands
  <2> QED
    BY <1>a, <2>1, <2>2, RecordSpeaks
<1>1. CASE AddMarker
  <2>1. PICK category \in Categories, at \in Times :
          Record(<<Body("marker_added", ids + 1, category, at)>>)
    BY <1>1 DEF AddMarker
  <2>2. ids' = ids + 1 /\ Body("marker_added", ids + 1, category, at).action \in Actions \ {"role_started"}
    BY <1>1 DEF AddMarker, Body, Actions
  <2> QED
    BY <1>a, <2>1, <2>2
<1>2. CASE EditMarker
  <2>1. PICK id \in Shown("marker_added"), category \in Categories :
          Record(<<Body("marker_edited", id, category, Started)>>)
    BY <1>2 DEF EditMarker
  <2>2. ids' = ids /\ Body("marker_edited", id, category, Started).action \in Actions \ {"role_started"}
    BY <1>2 DEF EditMarker, Body, Actions
  <2> QED
    BY <1>a, <2>1, <2>2
<1>3. CASE RemoveMarker
  <2>1. PICK id \in Shown("marker_added") :
          Record(<<Body("marker_removed", id, None, Started)>>)
    BY <1>3 DEF RemoveMarker
  <2>2. ids' = ids /\ Body("marker_removed", id, None, Started).action \in Actions \ {"role_started"}
    BY <1>3 DEF RemoveMarker, Body, Actions
  <2> QED
    BY <1>a, <2>1, <2>2
<1>4. CASE StartRoleSpan
  <2> DEFINE open == OpenIds(ann)
             Ends(at) == [i \in DOMAIN open |-> Body("role_ended", open[i], None, at)]
             Bodies(role, at) == Handover(Ends(at), Body("role_started", ids + 1, role, at))
  <2>1. PICK role \in Roles, at \in Times : Record(Bodies(role, at))
    BY <1>4 DEF StartRoleSpan
  <2>2. ids' = ids + 1 /\ ids' \in Nat /\ ids <= ids'
    BY <1>0, <1>4 DEF StartRoleSpan
  <2>3. Sequence(Bodies(role, at))
    BY <1>0, HandoverBodies
  <2>4. HandsOver(Bodies(role, at))
    <3>1. \A o, e, s : /\ o = OpenIds(ann)
                       /\ e = [i \in DOMAIN o |-> Body("role_ended", o[i], None, at)]
                       /\ s = Body("role_started", ids + 1, role, at)
                       => HandsOver(Handover(e, s))
      BY <1>0, <2>2, HandoverHands
    <3> QED
      BY <3>1
  <2> HIDE DEF Bodies
  <2> QED
    BY <2>1, <2>2, <2>3, <2>4, RecordSpeaks
<1>5. CASE EndRoleSpan
  <2>1. PICK id \in Shown("role_started"), at \in Times :
          Record(<<Body("role_ended", id, None, at)>>)
    BY <1>5 DEF EndRoleSpan
  <2>2. ids' = ids /\ Body("role_ended", id, None, at).action \in Actions \ {"role_started"}
    BY <1>5 DEF EndRoleSpan, Body, Actions
  <2> QED
    BY <1>a, <2>1, <2>2
<1>6. CASE OtherRecord
  BY <1>6, SettledSpeaks DEF OtherRecord, Clean
<1>7. CASE StopCapture
  BY <1>7, SettledSpeaks DEF StopCapture, Clean
<1>8. CASE Reconcile
  BY <1>8, ReconcileSpeaks
<1> QED
  BY <1>1, <1>2, <1>3, <1>4, <1>5, <1>6, <1>7, <1>8 DEF Next

LEMMA SpeakInvariant == Spec => [](~spoilt => SpeakInv)
<1>1. Init => SpeakInv
  <2>1. Len(<< >>) = 0
    OBVIOUS
  <2> QED
    BY <2>1 DEF Init, SpeakInv, Told, Handed
<1>2. MarkupInv /\ (~spoilt => SpeakInv) /\ [Next]_vars => (~spoilt => SpeakInv)'
  <2> SUFFICES ASSUME MarkupInv, ~spoilt => SpeakInv, [Next]_vars, ~spoilt'
               PROVE  SpeakInv'
    OBVIOUS
  <2>1. CASE Next
    BY <2>1, SpoiltStays, NextSpeaks DEF MarkupInv
  <2>2. CASE UNCHANGED vars
    BY <2>2 DEF vars, SpeakInv, Starting
  <2> QED
    BY <2>1, <2>2
<1> QED
  BY <1>1, <1>2, MarkupInvariant, PTL DEF Spec

\* In SQLite one role at most is open: a new speaker ends those before, and a
\* handover that fails half-way has ended some and started none.
THEOREM OneAtATime == Spec => []OneSpeaker
<1>1. MarkupInv /\ (~spoilt => SpeakInv) => OneSpeaker
  <2> SUFFICES ASSUME TableInv, SpeakInv
               PROVE  Cardinality(OpenSpans(Log)) <= 1
    BY DEF MarkupInv, OneSpeaker
  <2>1. Sequence(rows)
    BY DEF TableInv
  <2>2. Log = rows
    <3> DEFINE m == Len(rows)
    <3>1. m \in Nat /\ DOMAIN rows = 1 .. m /\ rows = [i \in 1 .. m |-> rows[i]]
      BY <2>1, SequenceIs
    <3> HIDE DEF m
    <3>2. Ordered(1 .. m) = [i \in 1 .. m |-> i]
      BY <3>1, OrderedNumbers
    <3>3. Log = [i \in 1 .. m |-> rows[i]]
      BY <3>1, <3>2 DEF Log
    <3> QED
      BY <3>1, <3>3
  <2> QED
    BY <2>1, <2>2, HandedIsOne DEF SpeakInv
<1> QED
  BY <1>1, MarkupInvariant, SpeakInvariant, PTL
=============================================================================
