--------------------------- MODULE VhostRingsProofs -------------------------
(***************************************************************************)
(* Proofs about the rings of module VhostServer, which implement the       *)
(* queues of module RequestQueue, and about their doorbells.               *)
(*                                                                         *)
(* First the rings of module Virtqueue by themselves: the arithmetic of    *)
(* wrapping indices, what writing a slot and moving an index do to the     *)
(* entries between two indices, and where each head is.  Then what each    *)
(* step of the event loop and of the guest does to them.  All of it holds  *)
(* for every queue size and every index width of which it is a divisor, so *)
(* for the code's u16 and the powers of two that it takes as queue sizes.  *)
(*                                                                         *)
(* Then the doorbells: no request waits on an enabled vring that nothing   *)
(* will wake the loop for, and no reply waits that the guest is not told   *)
(* of.                                                                     *)
(***************************************************************************)
EXTENDS VhostServerProofs, FiniteSetTheorems

\* As in VhostServerProofs.
USE SMTT(20), ZenonT(30)

-----------------------------------------------------------------------------
(***************************************************************************)
(* Indices and slots.                                                      *)
(***************************************************************************)

\* Slots repeat after IdxMod indices, because the queue size divides it.
LEMMA SlotRepeats ==
  ASSUME NEW a \in Nat
  PROVE  Slot(a + IdxMod) = Slot(a) /\ Slot(a) \in Heads
<1> DEFINE x == a \div QueueSize
           y == IdxMod \div QueueSize
           r == a % QueueSize
<1>1. x \in Int /\ r \in 0 .. (QueueSize - 1) /\ a = x * QueueSize + r
  BY Sizes
<1>2. y \in Int /\ IdxMod = y * QueueSize
  BY VirtqueueAssumption
<1> HIDE DEF x, y, r
<1>3. a + IdxMod = (x + y) * QueueSize + r
  BY <1>1, <1>2, Sizes
<1>4. ((x + y) * QueueSize + r) % QueueSize = r
  BY <1>1, <1>2, Sizes
<1> QED
  BY Zenon, <1>1, <1>3, <1>4 DEF Slot, Heads, r

\* How far one index is ahead of another, without the remainder.
LEMMA AheadIs ==
  ASSUME NEW i \in Indices, NEW l \in Indices
  PROVE  /\ Ahead(i, l) \in 0 .. (IdxMod - 1)
         /\ Ahead(i, l) = IF i >= l THEN i - l ELSE i + IdxMod - l
         /\ Ahead(i, l) = 0 <=> i = l
<1>1. PICK a \in Nat : a = i + IdxMod - l
  BY Sizes DEF Indices
<1>2. a % IdxMod = IF a < IdxMod THEN a ELSE a - IdxMod
  BY <1>1, Sizes, Wrap DEF Indices
<1> QED
  BY <1>1, <1>2, Sizes DEF Ahead, Indices

\* Moving the front index on takes it one further ahead, up to a whole turn.
LEMMA AheadGrows ==
  ASSUME NEW i \in Indices, NEW l \in Indices, Ahead(i, l) + 1 < IdxMod
  PROVE  Ahead(Succ(i), l) = Ahead(i, l) + 1
<1>1. PICK j \in Indices : j = Succ(i) /\ j = IF i + 1 < IdxMod THEN i + 1 ELSE 0
  BY SuccIs
<1>2. Ahead(i, l) = IF i >= l THEN i - l ELSE i + IdxMod - l
  BY AheadIs
<1>3. Ahead(j, l) = IF j >= l THEN j - l ELSE j + IdxMod - l
  BY AheadIs
<1> QED
  BY <1>1, <1>2, <1>3, Sizes DEF Indices

\* Moving the rear index on brings the front one nearer.
LEMMA AheadShrinks ==
  ASSUME NEW i \in Indices, NEW l \in Indices, i # l
  PROVE  Ahead(i, Succ(l)) = Ahead(i, l) - 1
<1>1. PICK m \in Indices : m = Succ(l) /\ m = IF l + 1 < IdxMod THEN l + 1 ELSE 0
  BY SuccIs
<1>2. Ahead(i, l) = IF i >= l THEN i - l ELSE i + IdxMod - l
  BY AheadIs
<1>3. Ahead(i, m) = IF i >= m THEN i - m ELSE i + IdxMod - m
  BY AheadIs
<1> QED
  BY <1>1, <1>2, <1>3, Sizes DEF Indices

\* A slot does not depend on whether the index has wrapped, because the queue
\* size divides IdxMod.
LEMMA SlotWraps ==
  ASSUME NEW l \in Indices, NEW k \in 0 .. (IdxMod - 1)
  PROVE  /\ (l + k) % IdxMod \in Indices
         /\ Slot((l + k) % IdxMod) = Slot(l + k)
         /\ Slot(l + k) \in Heads
<1>1. PICK a \in Nat : a = l + k /\ a < IdxMod + IdxMod
  BY Sizes DEF Indices
<1>2. Slot(a) \in Heads
  BY SlotRepeats
<1>3. CASE a < IdxMod
  <2>1. a % IdxMod = a
    BY <1>3, Wrap
  <2> QED
    BY <1>1, <1>2, <1>3, <2>1, Sizes DEF Indices
<1>4. CASE IdxMod <= a
  <2>1. PICK b \in Nat : b = a - IdxMod
    BY <1>4, Sizes
  <2>2. Slot(b + IdxMod) = Slot(b)
    BY SlotRepeats
  <2>3. a % IdxMod = b /\ b + IdxMod = a
    BY <1>1, <1>4, <2>1, Wrap, Sizes
  <2> QED
    BY <1>1, <1>2, <2>1, <2>2, <2>3, Sizes DEF Indices
<1> QED
  BY <1>1, <1>3, <1>4, Sizes

\* The slot an index names, counted from an index behind it.
LEMMA SlotAhead ==
  ASSUME NEW i \in Indices, NEW l \in Indices
  PROVE  Slot(i) = Slot(l + Ahead(i, l)) /\ Slot(i) \in Heads
<1>1. (l + Ahead(i, l)) % IdxMod = i
  <2>1. PICK a \in Nat : a = l + Ahead(i, l)
    BY Sizes, AheadIs DEF Indices
  <2>2. a = i \/ a = i + IdxMod
    <3>1. Ahead(i, l) = IF i >= l THEN i - l ELSE i + IdxMod - l
      BY AheadIs
    <3> QED
      BY <2>1, <3>1, Sizes DEF Indices
  <2>3. i \in Nat /\ i < IdxMod
    BY Sizes DEF Indices
  <2>4. a % IdxMod = i
    BY <2>1, <2>2, <2>3, Sizes, Wrap
  <2> QED
    BY <2>1, <2>4
<1>2. Ahead(i, l) \in 0 .. (IdxMod - 1)
  BY AheadIs
<1> QED
  BY <1>1, <1>2, SlotWraps

\* Indices less than a queue size apart name different slots.
LEMMA SlotsApart ==
  ASSUME NEW a \in Nat, NEW b \in Nat, a < b, b < a + QueueSize
  PROVE  Slot(a) # Slot(b)
<1> DEFINE x == a \div QueueSize
           y == b \div QueueSize
           r == a % QueueSize
<1> SUFFICES ASSUME r = b % QueueSize  PROVE FALSE
  BY DEF Slot
<1>1. x \in Int /\ r \in Int /\ a = x * QueueSize + r
  BY Sizes
<1>2. y \in Int /\ b = y * QueueSize + r
  BY Sizes
<1> HIDE DEF x, y, r
<1>3. PICK z \in Int : z = y - x
  BY <1>1, <1>2
<1>4. b - a = z * QueueSize
  BY <1>1, <1>2, <1>3, Sizes
<1>5. z * QueueSize > 0 /\ z * QueueSize < QueueSize
  BY <1>4, Sizes
<1>6. CASE z >= 1
  <2>1. z * QueueSize >= QueueSize
    BY <1>6, Sizes
  <2> QED
    BY <1>5, <2>1, Sizes
<1>7. CASE z <= 0
  <2>1. z * QueueSize <= 0
    BY <1>7, Sizes
  <2> QED
    BY <1>5, <2>1, Sizes
<1> QED
  BY <1>6, <1>7
-----------------------------------------------------------------------------
(***************************************************************************)
(* Entries: what lies between two indices of a ring, as a sequence.        *)
(***************************************************************************)

\* The entries are a sequence of heads, one for each index from last on.
LEMMA EntriesAre ==
  ASSUME NEW ring \in [Heads -> Heads], NEW last \in Indices, NEW idx \in Indices
  PROVE  /\ Entries(ring, last, idx) \in Seq(Heads)
         /\ Len(Entries(ring, last, idx)) = Ahead(idx, last)
         /\ Ahead(idx, last) \in Nat
         /\ \A i \in 1 .. Ahead(idx, last) :
              Entries(ring, last, idx)[i] = ring[Slot(last + (i - 1))]
<1> DEFINE n == Ahead(idx, last)
<1>1. n \in 0 .. (IdxMod - 1)
  BY AheadIs
<1>2. ASSUME NEW i \in 1 .. n
      PROVE  /\ Slot((last + i - 1) % IdxMod) = Slot(last + (i - 1))
             /\ ring[Slot((last + i - 1) % IdxMod)] \in Heads
  <2>1. PICK k \in 0 .. (IdxMod - 1) : k = i - 1
    BY <1>1, Sizes
  <2>2. Slot((last + k) % IdxMod) = Slot(last + k) /\ Slot(last + k) \in Heads
    BY SlotWraps
  <2>3. last + i - 1 = last + k
    BY <1>1, <2>1, Sizes DEF Indices
  <2> QED
    BY <2>1, <2>2, <2>3
<1> HIDE DEF n
<1>3. Entries(ring, last, idx) =
        [i \in 1 .. n |-> ring[Slot((last + i - 1) % IdxMod)]]
  BY DEF Entries, n
<1>4. n \in Nat
  BY <1>1, Sizes
<1>5. Entries(ring, last, idx) \in [1 .. n -> Heads]
  BY <1>2, <1>3
<1>6. Entries(ring, last, idx) \in Seq(Heads) /\ Len(Entries(ring, last, idx)) = n
  BY <1>4, <1>5, FunctionIsSeq
<1>7. \A i \in 1 .. n : Entries(ring, last, idx)[i] = ring[Slot(last + (i - 1))]
  BY <1>2, <1>3
<1> QED
  BY <1>6, <1>7 DEF n

\* There are as many as the indices are apart, so none between an index and
\* itself and some otherwise.
LEMMA EntriesEmpty ==
  ASSUME NEW ring \in [Heads -> Heads], NEW last \in Indices, NEW idx \in Indices
  PROVE  /\ Entries(ring, last, idx) \in Seq(Heads)
         /\ Len(Entries(ring, last, idx)) = Ahead(idx, last)
         /\ Entries(ring, last, idx) = <<>> <=> idx = last
<1>1. /\ Entries(ring, last, idx) \in Seq(Heads)
      /\ Len(Entries(ring, last, idx)) = Ahead(idx, last)
  BY EntriesAre
<1>2. Len(Entries(ring, last, idx)) = 0 <=> idx = last
  BY EntriesAre, AheadIs
<1> QED
  BY <1>1, <1>2, EmptySeq

\* Writing the slot of an index that is a queue size or less ahead of the
\* last entry leaves the entries alone.
LEMMA EntriesKept ==
  ASSUME NEW ring \in [Heads -> Heads], NEW last \in Indices, NEW idx \in Indices,
         Ahead(idx, last) < QueueSize, NEW after \in [Heads -> Heads],
         \A s \in Heads : s # Slot(idx) => after[s] = ring[s]
  PROVE  Entries(after, last, idx) = Entries(ring, last, idx)
<1> DEFINE n == Ahead(idx, last)
<1>1. Slot(idx) = Slot(last + n)
  BY SlotAhead
<1>2. ASSUME NEW i \in 1 .. n  PROVE Slot(last + (i - 1)) \in Heads
  <2>1. PICK k \in 0 .. (IdxMod - 1) : k = i - 1
    BY AheadIs, Sizes
  <2> QED
    BY <2>1, SlotWraps
<1>3. n \in Nat /\ last \in Nat /\ n < QueueSize
  BY EntriesAre, Sizes DEF Indices
<1>4. ASSUME NEW i \in 1 .. n
      PROVE  after[Slot(last + (i - 1))] = ring[Slot(last + (i - 1))]
  <2>1. PICK a \in Nat : a = last + (i - 1)
    BY <1>3
  <2>2. PICK b \in Nat : b = last + n
    BY <1>3
  <2>3. a < b /\ b < a + QueueSize
    BY <1>3, <2>1, <2>2, Sizes
  <2>4. Slot(a) # Slot(b)
    BY <2>3, SlotsApart
  <2> QED
    BY <1>1, <1>2, <2>1, <2>2, <2>4
<1>5. /\ Entries(after, last, idx) \in Seq(Heads)
      /\ Len(Entries(after, last, idx)) = n
      /\ \A i \in 1 .. n : Entries(after, last, idx)[i] = after[Slot(last + (i - 1))]
  BY EntriesAre
<1>6. /\ Entries(ring, last, idx) \in Seq(Heads)
      /\ Len(Entries(ring, last, idx)) = n
      /\ \A i \in 1 .. n : Entries(ring, last, idx)[i] = ring[Slot(last + (i - 1))]
  BY Zenon, EntriesAre
<1> HIDE DEF n
<1> QED
  BY <1>4, <1>5, <1>6, SeqEqual

\* Moving the front index over a slot appends what the slot holds.
LEMMA EntriesExtended ==
  ASSUME NEW ring \in [Heads -> Heads], NEW last \in Indices, NEW idx \in Indices,
         Ahead(idx, last) < QueueSize
  PROVE  Entries(ring, last, Succ(idx)) =
           Append(Entries(ring, last, idx), ring[Slot(idx)])
<1> DEFINE n == Ahead(idx, last)
           s == Entries(ring, last, idx)
           t == Entries(ring, last, Succ(idx))
           a == Append(s, ring[Slot(idx)])
<1>1. n \in Nat /\ n + 1 < IdxMod
  BY EntriesAre, Sizes
<1>2. Succ(idx) \in Indices
  BY SuccIs
<1>3. Ahead(Succ(idx), last) = n + 1
  BY <1>1, AheadGrows
<1>4. ring[Slot(idx)] = ring[Slot(last + n)] /\ ring[Slot(idx)] \in Heads
  BY SlotAhead
<1>5. /\ s \in Seq(Heads) /\ Len(s) = n
      /\ \A i \in 1 .. n : s[i] = ring[Slot(last + (i - 1))]
  BY Zenon, EntriesAre
<1>6. /\ t \in Seq(Heads) /\ Len(t) = n + 1
      /\ \A i \in 1 .. (n + 1) : t[i] = ring[Slot(last + (i - 1))]
  BY ZenonT(30), <1>2, <1>3, EntriesAre
<1>7. /\ a \in Seq(Heads) /\ Len(a) = n + 1
      /\ \A i \in 1 .. n : a[i] = s[i]
      /\ a[n + 1] = ring[Slot(idx)]
  BY <1>4, <1>5, AppendProperties
<1> HIDE DEF n, s, t, a
<1>8. \A i \in 1 .. (n + 1) : t[i] = a[i]
  <2> TAKE i \in 1 .. (n + 1)
  <2>1. CASE i \in 1 .. n
    BY ZenonT(30), <1>1, <1>5, <1>6, <1>7, <2>1
  <2>2. CASE i = n + 1
    <3>1. (n + 1) - 1 = n
      BY <1>1
    <3> QED
      BY ZenonT(30), <1>1, <1>4, <1>6, <1>7, <2>2, <3>1
  <2> QED
    BY <1>1, <2>1, <2>2
<1>9. t = a
  BY <1>6, <1>7, <1>8, SeqEqual
<1> QED
  BY <1>9 DEF t, a, s

\* Moving the rear index over a slot takes the first entry away.
LEMMA EntriesConsumed ==
  ASSUME NEW ring \in [Heads -> Heads], NEW last \in Indices, NEW idx \in Indices,
         idx # last
  PROVE  /\ Entries(ring, last, idx) # <<>>
         /\ Head(Entries(ring, last, idx)) = ring[Slot(last)]
         /\ Entries(ring, Succ(last), idx) = Tail(Entries(ring, last, idx))
<1> DEFINE n == Ahead(idx, last)
           s == Entries(ring, last, idx)
           t == Entries(ring, Succ(last), idx)
<1>1. n \in Nat /\ n # 0 /\ last \in Nat
  BY EntriesAre, AheadIs, Sizes DEF Indices
<1>2. Succ(last) \in Indices
  BY SuccIs
<1>3. Ahead(idx, Succ(last)) = n - 1
  BY AheadShrinks
<1>4. /\ s \in Seq(Heads) /\ Len(s) = n
      /\ \A i \in 1 .. n : s[i] = ring[Slot(last + (i - 1))]
  BY EntriesAre
<1>5. /\ t \in Seq(Heads) /\ Len(t) = n - 1
      /\ \A i \in 1 .. (n - 1) : t[i] = ring[Slot(Succ(last) + (i - 1))]
  BY ZenonT(30), <1>2, <1>3, EntriesAre
<1>6. \A i \in 1 .. (n - 1) : Slot(Succ(last) + (i - 1)) = Slot(last + i)
  <2> TAKE i \in 1 .. (n - 1)
  <2>1. Succ(last) = IF last + 1 < IdxMod THEN last + 1 ELSE 0
    BY SuccIs
  <2>2. CASE last + 1 < IdxMod
    <3>1. Succ(last) + (i - 1) = last + i
      BY <1>1, <2>1, <2>2, Sizes
    <3> QED
      BY <3>1
  <2>3. CASE ~(last + 1 < IdxMod)
    <3>1. PICK k \in Nat : k = i - 1
      BY <1>1
    <3>2. Slot(k + IdxMod) = Slot(k)
      BY SlotRepeats
    <3>3. Succ(last) + (i - 1) = k /\ last + i = k + IdxMod
      BY <1>1, <2>1, <2>3, <3>1, Sizes DEF Indices
    <3> QED
      BY <3>2, <3>3
  <2> QED
    BY <2>2, <2>3
<1> HIDE DEF n, s, t
<1>7. s # <<>> /\ Head(s) = s[1]
  BY <1>1, <1>4, EmptySeq
<1>8. s[1] = ring[Slot(last)]
  <2>1. last + (1 - 1) = last
    BY <1>1
  <2> QED
    BY <1>1, <1>4, <2>1
<1>9. /\ Tail(s) \in Seq(Heads) /\ Len(Tail(s)) = n - 1
      /\ \A i \in 1 .. (n - 1) : Tail(s)[i] = s[i + 1]
  BY <1>4, <1>7, HeadTailProperties
<1>10. \A i \in 1 .. (n - 1) : Tail(s)[i] = t[i]
  <2> TAKE i \in 1 .. (n - 1)
  <2>1. i + 1 \in 1 .. n /\ (i + 1) - 1 = i
    BY <1>1
  <2> QED
    BY ZenonT(30), <1>4, <1>5, <1>6, <1>9, <2>1
<1>11. t = Tail(s)
  BY <1>5, <1>9, <1>10, SeqEqual
<1> QED
  BY <1>7, <1>8, <1>11 DEF s, t
-----------------------------------------------------------------------------
(***************************************************************************)
(* Where the heads of a queue are: waiting, done, or with the driver.      *)
(***************************************************************************)
In(h, s) == \E i \in 1 .. Len(s) : s[i] = h

Distinct(s) == \A i, j \in 1 .. Len(s) : s[i] = s[j] => i = j

\* Every head is in one place, and only once.
Accounted(w, d, f) ==
  /\ Distinct(w) /\ Distinct(d)
  /\ \A h \in Heads : /\ ~(In(h, w) /\ In(h, d))
                      /\ h \in f => ~In(h, w) /\ ~In(h, d)
  /\ Cardinality(f) + Len(w) + Len(d) = QueueSize

\* A head appended to a sequence without it leaves the heads distinct.
LEMMA AppendIn ==
  ASSUME NEW s \in Seq(Heads), NEW h \in Heads
  PROVE  /\ Append(s, h) \in Seq(Heads) /\ Len(Append(s, h)) = Len(s) + 1 /\ Len(s) \in Nat
         /\ \A x : In(x, Append(s, h)) <=> In(x, s) \/ x = h
         /\ Distinct(s) /\ ~In(h, s) => Distinct(Append(s, h))
<1> DEFINE t == Append(s, h)
           n == Len(s)
<1>1. /\ t \in Seq(Heads) /\ Len(t) = n + 1 /\ n \in Nat /\ t[n + 1] = h
      /\ \A i \in 1 .. n : t[i] = s[i]
  BY AppendProperties, LenProperties
<1> HIDE DEF t, n
<1>2. \A i \in 1 .. (n + 1) : i \in 1 .. n \/ i = n + 1
  BY <1>1
<1>3. \A x : In(x, t) <=> In(x, s) \/ x = h
  BY <1>1, <1>2 DEF In, n
<1>4. ASSUME Distinct(s), ~In(h, s)  PROVE Distinct(t)
  BY <1>1, <1>2, <1>4 DEF Distinct, In, n
<1> QED
  BY <1>1, <1>3, <1>4 DEF t, n

\* The head taken off a sequence of distinct heads is not among the others.
LEMMA TailIn ==
  ASSUME NEW s \in Seq(Heads), s # <<>>
  PROVE  /\ Tail(s) \in Seq(Heads) /\ Len(s) \in Nat \ {0} /\ Len(Tail(s)) = Len(s) - 1
         /\ Head(s) \in Heads /\ In(Head(s), s)
         /\ \A x : In(x, Tail(s)) => In(x, s)
         /\ Distinct(s) => Distinct(Tail(s)) /\ ~In(Head(s), Tail(s))
<1> DEFINE t == Tail(s)
           n == Len(s)
<1>1. /\ t \in Seq(Heads) /\ n \in Nat \ {0} /\ Len(t) = n - 1
      /\ Head(s) = s[1] /\ Head(s) \in Heads
      /\ \A i \in 1 .. (n - 1) : t[i] = s[i + 1]
  BY EmptySeq, LenProperties, HeadTailProperties
<1> HIDE DEF t, n
<1>2. 1 \in 1 .. n /\ \A i \in 1 .. (n - 1) : i + 1 \in 1 .. n /\ i + 1 # 1
  BY <1>1
<1>3. \A x : In(x, t) => In(x, s)
  BY <1>1, <1>2 DEF In, n
<1>4. ASSUME Distinct(s)  PROVE Distinct(t) /\ ~In(Head(s), t)
  <2>1. ASSUME NEW i \in 1 .. Len(t), NEW j \in 1 .. Len(t), t[i] = t[j]
        PROVE  i = j
    <3>1. i + 1 \in 1 .. n /\ j + 1 \in 1 .. n /\ s[i + 1] = s[j + 1]
      BY <1>1, <1>2, <2>1
    <3>2. i + 1 = j + 1
      BY <1>4, <3>1 DEF Distinct, n
    <3> QED
      BY <1>1, <3>2
  <2>2. ~In(Head(s), t)
    BY <1>1, <1>2, <1>4 DEF Distinct, In, n
  <2> QED
    BY <2>1, <2>2 DEF Distinct
<1> QED
  BY <1>1, <1>2, <1>3, <1>4 DEF t, n, In

\* The driver's free heads are finitely many, and can be counted one by one.
LEMMA CountFree ==
  ASSUME NEW f \in SUBSET Heads, NEW h \in Heads
  PROVE  /\ Cardinality(f) \in Nat
         /\ h \in f => Cardinality(f \ {h}) = Cardinality(f) - 1 /\ Cardinality(f) > 0
         /\ h \notin f => Cardinality(f \cup {h}) = Cardinality(f) + 1
<1>1. IsFiniteSet(Heads)
  BY Sizes, FS_Interval DEF Heads
<1>2. IsFiniteSet(f)
  BY <1>1, FS_Subset
<1>3. /\ Cardinality(f) \in Nat /\ Cardinality(f \ {h}) \in Nat
      /\ Cardinality(f \cup {h}) = IF h \in f THEN Cardinality(f) ELSE Cardinality(f) + 1
      /\ Cardinality(f \ {h}) = IF h \in f THEN Cardinality(f) - 1 ELSE Cardinality(f)
  BY ZenonT(30), <1>2, FS_CardinalityType, FS_AddElement, FS_RemoveElement
<1> QED
  BY <1>3

\* Making a request available moves its head from the driver to the waiting
\* ones; there is room in the available ring.
LEMMA AccountSubmit ==
  ASSUME NEW w \in Seq(Heads), NEW d \in Seq(Heads), NEW f \in SUBSET Heads,
         Accounted(w, d, f), NEW h \in f
  PROVE  Accounted(Append(w, h), d, f \ {h}) /\ Len(w) < QueueSize
<1>1. h \in Heads /\ Len(d) \in Nat /\ ~In(h, w) /\ ~In(h, d)
  BY LenProperties DEF Accounted
<1>2. /\ Len(Append(w, h)) = Len(w) + 1 /\ Len(w) \in Nat /\ Distinct(Append(w, h))
      /\ \A x : In(x, Append(w, h)) <=> In(x, w) \/ x = h
  BY <1>1, AppendIn DEF Accounted
<1>3. /\ Cardinality(f \ {h}) = Cardinality(f) - 1 /\ Cardinality(f) > 0
      /\ Cardinality(f) \in Nat
  BY ZenonT(30), <1>1, CountFree
<1>4. Cardinality(f \ {h}) + Len(Append(w, h)) + Len(d) = QueueSize /\ Len(w) < QueueSize
  BY <1>1, <1>2, <1>3 DEF Accounted
<1> QED
  BY <1>1, <1>2, <1>4 DEF Accounted

\* Serving a request moves its head from the waiting ones to the done ones;
\* there is room in the used ring.
LEMMA AccountServe ==
  ASSUME NEW w \in Seq(Heads), NEW d \in Seq(Heads), NEW f \in SUBSET Heads,
         Accounted(w, d, f), w # <<>>
  PROVE  Accounted(Tail(w), Append(d, Head(w)), f) /\ Len(d) < QueueSize
<1> DEFINE h == Head(w)
<1>1. /\ Len(w) \in Nat \ {0} /\ Len(Tail(w)) = Len(w) - 1
      /\ h \in Heads /\ In(h, w) /\ Distinct(Tail(w)) /\ ~In(h, Tail(w))
      /\ \A x : In(x, Tail(w)) => In(x, w)
  BY TailIn DEF Accounted
<1>2. ~In(h, d) /\ h \notin f
  BY <1>1 DEF Accounted
<1>3. /\ Len(Append(d, h)) = Len(d) + 1 /\ Len(d) \in Nat /\ Distinct(Append(d, h))
      /\ \A x : In(x, Append(d, h)) <=> In(x, d) \/ x = h
  BY <1>1, <1>2, AppendIn DEF Accounted
<1>4. Cardinality(f) \in Nat
  BY ZenonT(30), <1>1, CountFree
<1> HIDE DEF h
<1>5. Cardinality(f) + Len(Tail(w)) + Len(Append(d, h)) = QueueSize /\ Len(d) < QueueSize
  BY <1>1, <1>3, <1>4, Sizes DEF Accounted
<1> QED
  BY ZenonT(30), <1>1, <1>2, <1>3, <1>5 DEF Accounted, h

\* Reading a reply moves its head back to the driver.
LEMMA AccountRead ==
  ASSUME NEW w \in Seq(Heads), NEW d \in Seq(Heads), NEW f \in SUBSET Heads,
         Accounted(w, d, f), d # <<>>
  PROVE  Accounted(w, Tail(d), f \cup {Head(d)})
<1> DEFINE h == Head(d)
<1>1. /\ Len(d) \in Nat \ {0} /\ Len(Tail(d)) = Len(d) - 1
      /\ h \in Heads /\ In(h, d) /\ Distinct(Tail(d)) /\ ~In(h, Tail(d))
      /\ \A x : In(x, Tail(d)) => In(x, d)
  BY TailIn DEF Accounted
<1>2. ~In(h, w) /\ h \notin f /\ Len(w) \in Nat
  BY <1>1, LenProperties DEF Accounted
<1>3. Cardinality(f) \in Nat /\ Cardinality(f \cup {h}) = Cardinality(f) + 1
  BY <1>1, <1>2, CountFree
<1> HIDE DEF h
<1>4. Cardinality(f \cup {h}) + Len(w) + Len(Tail(d)) = QueueSize
  BY <1>1, <1>2, <1>3, Sizes DEF Accounted
<1> QED
  BY <1>1, <1>2, <1>4 DEF Accounted, h
-----------------------------------------------------------------------------
(***************************************************************************)
(* The rings.                                                              *)
(***************************************************************************)

\* The requests that wait and those whose reply is unread, as ServedOnceInOrder
\* reads them off the rings.
Waiting(q) == Entries(avail_ring[q], used_idx[q], avail_idx[q])
Done(q) == Entries(used_ring[q], last_used[q], used_idx[q])

\* Every head of a vring is in one place.
RingInv == \A q \in Queues : Accounted(Waiting(q), Done(q), free[q])

\* The head popped last is that of the first waiting request, and its element
\* is in the used ring before the index that covers it moves.
HeadInv ==
  /\ pc \in {"push", "publish"} =>
       Waiting(Current) # <<>> /\ head = Head(Waiting(Current))
  /\ pc = "publish" => used_ring[Current][Slot(used_idx[Current])] = head

\* What is read off the rings are sequences of heads, as long as the indices
\* are apart.
LEMMA RingsAre ==
  ASSUME RingTypeOK, NEW q \in Queues
  PROVE  /\ Waiting(q) \in Seq(Heads) /\ Len(Waiting(q)) = Ahead(avail_idx[q], used_idx[q])
         /\ Done(q) \in Seq(Heads) /\ Len(Done(q)) = Ahead(used_idx[q], last_used[q])
         /\ free[q] \in SUBSET Heads
         /\ Waiting(q) = <<>> <=> avail_idx[q] = used_idx[q]
         /\ Done(q) = <<>> <=> used_idx[q] = last_used[q]
<1>1. /\ avail_ring[q] \in [Heads -> Heads] /\ used_ring[q] \in [Heads -> Heads]
      /\ avail_idx[q] \in Indices /\ used_idx[q] \in Indices /\ last_used[q] \in Indices
      /\ free[q] \in SUBSET Heads
  BY DEF RingTypeOK
<1>2. /\ Waiting(q) \in Seq(Heads) /\ Len(Waiting(q)) = Ahead(avail_idx[q], used_idx[q])
      /\ Waiting(q) = <<>> <=> avail_idx[q] = used_idx[q]
  BY ZenonT(30), <1>1, EntriesEmpty DEF Waiting
<1>3. /\ Done(q) \in Seq(Heads) /\ Len(Done(q)) = Ahead(used_idx[q], last_used[q])
      /\ Done(q) = <<>> <=> used_idx[q] = last_used[q]
  BY ZenonT(30), <1>1, EntriesEmpty DEF Done
<1> QED
  BY <1>1, <1>2, <1>3

\* Steps that leave the rings and the indices leave the queues.
LEMMA RingsKept ==
  UNCHANGED <<ringVars, last_used>>
    => \A q : Waiting(q)' = Waiting(q) /\ Done(q)' = Done(q)
  BY DEF Waiting, Done, ringVars

\* Submitting a request appends its head to the waiting ones.
LEMMA SubmitRing ==
  ASSUME RingTypeOK, RingInv, NEW q \in Queues, NEW h \in Heads, Submit(q, h)
  PROVE  /\ h \in free[q] /\ free' = [free EXCEPT ![q] = @ \ {h}]
         /\ Waiting(q)' = Append(Waiting(q), h)
         /\ \A p \in Queues : p # q => Waiting(p)' = Waiting(p)
         /\ \A p \in Queues : Done(p)' = Done(p)
<1>1. /\ h \in free[q] /\ free' = [free EXCEPT ![q] = @ \ {h}]
      /\ avail_ring' = [avail_ring EXCEPT ![q][Slot(avail_idx[q])] = h]
      /\ avail_idx' = [avail_idx EXCEPT ![q] = Succ(@)]
      /\ UNCHANGED <<used_ring, used_idx, last_used>>
  BY DEF Submit, AddAvail
<1>2. /\ avail_ring \in [Queues -> [Heads -> Heads]] /\ avail_idx \in [Queues -> Indices]
      /\ used_idx \in [Queues -> Indices]
  BY DEF RingTypeOK
<1>3. PICK ring \in [Heads -> Heads], idx \in Indices, last \in Indices :
        ring = avail_ring[q] /\ idx = avail_idx[q] /\ last = used_idx[q]
  BY <1>2
<1>4. Slot(idx) \in Heads
  BY SlotAhead
<1>5. /\ avail_ring'[q] = [ring EXCEPT ![Slot(idx)] = h]
      /\ \A p \in Queues : p # q => avail_ring'[p] = avail_ring[p]
  BY <1>1, <1>2, <1>3, <1>4, Update2
<1>6. avail_idx'[q] = Succ(idx) /\ \A p \in Queues : p # q => avail_idx'[p] = avail_idx[p]
  BY ZenonT(30), <1>1, <1>2, <1>3
<1>7. Ahead(idx, last) < QueueSize
  <2>1. Accounted(Waiting(q), Done(q), free[q])
    BY DEF RingInv
  <2>2. Len(Waiting(q)) < QueueSize
    BY ZenonT(30), <1>1, <2>1, AccountSubmit, RingsAre
  <2> QED
    BY Zenon, <1>3, <2>2, RingsAre
<1> DEFINE after == [ring EXCEPT ![Slot(idx)] = h]
<1>8. /\ after \in [Heads -> Heads] /\ after[Slot(idx)] = h
      /\ Entries(after, last, idx) = Entries(ring, last, idx)
  <2>1. /\ after \in [Heads -> Heads] /\ after[Slot(idx)] = h
        /\ \A s \in Heads : s # Slot(idx) => after[s] = ring[s]
    BY <1>4
  <2> HIDE DEF after
  <2> QED
    BY <1>7, <2>1, EntriesKept
<1> HIDE DEF after
<1>9. Entries(after, last, Succ(idx)) = Append(Entries(after, last, idx), after[Slot(idx)])
  BY ZenonT(30), <1>7, <1>8, EntriesExtended
<1>10. Waiting(q)' = Append(Waiting(q), h)
  BY ZenonT(30), <1>1, <1>3, <1>5, <1>6, <1>8, <1>9 DEF Waiting, after
<1> QED
  BY ZenonT(30), <1>1, <1>5, <1>6, <1>10 DEF Waiting, Done

\* Reading a reply takes its head off the done ones.
LEMMA ReadRing ==
  ASSUME RingTypeOK, NEW q \in Queues, ReadUsed(q)
  PROVE  /\ Done(q) # <<>> /\ free' = [free EXCEPT ![q] = @ \cup {Head(Done(q))}]
         /\ Done(q)' = Tail(Done(q))
         /\ \A p \in Queues : p # q => Done(p)' = Done(p)
         /\ \A p \in Queues : Waiting(p)' = Waiting(p)
<1>1. /\ used_idx[q] # last_used[q]
      /\ free' = [free EXCEPT ![q] = @ \cup {used_ring[q][Slot(last_used[q])]}]
      /\ last_used' = [last_used EXCEPT ![q] = Succ(@)]
      /\ UNCHANGED <<avail_ring, avail_idx, used_ring, used_idx>>
  BY Zenon DEF ReadUsed, MoreUsed, ringVars
<1>2. /\ used_ring[q] \in [Heads -> Heads] /\ used_idx[q] \in Indices
      /\ last_used[q] \in Indices /\ last_used \in [Queues -> Indices]
  BY DEF RingTypeOK
<1>3. /\ Done(q) # <<>> /\ Head(Done(q)) = used_ring[q][Slot(last_used[q])]
      /\ Entries(used_ring[q], Succ(last_used[q]), used_idx[q]) = Tail(Done(q))
  BY ZenonT(30), <1>1, <1>2, EntriesConsumed DEF Done
<1>4. /\ last_used'[q] = Succ(last_used[q])
      /\ \A p \in Queues : p # q => last_used'[p] = last_used[p]
  BY <1>1, <1>2
<1> QED
  BY ZenonT(30), <1>1, <1>3, <1>4 DEF Waiting, Done

\* Writing a used element changes no queue: the slot is not between the indices.
LEMMA WriteRing ==
  ASSUME Types, RingInv, HeadInv, pc = "push", NEW q, q = Current,
         WriteUsedElem(q, head), UNCHANGED driverVars
  PROVE  /\ q \in Queues /\ used_ring'[q][Slot(used_idx[q])] = head
         /\ \A p \in Queues : Waiting(p)' = Waiting(p) /\ Done(p)' = Done(p)
<1>1. q \in Queues /\ RingTypeOK /\ head \in Heads
  BY Zenon, TurnIs DEF Types, TypeOK
<1>2. /\ used_ring' = [used_ring EXCEPT ![q][Slot(used_idx[q])] = head]
      /\ UNCHANGED <<avail_ring, avail_idx, used_idx, last_used>>
  BY DEF WriteUsedElem, driverVars
<1>3. /\ used_ring \in [Queues -> [Heads -> Heads]] /\ last_used[q] \in Indices
      /\ used_idx[q] \in Indices
  BY <1>1 DEF RingTypeOK
<1>4. PICK ring \in [Heads -> Heads], idx \in Indices, last \in Indices :
        ring = used_ring[q] /\ idx = used_idx[q] /\ last = last_used[q]
  BY <1>1, <1>3
<1>5. Slot(idx) \in Heads
  BY ZenonT(30), SlotAhead
<1>6. /\ used_ring'[q] = [ring EXCEPT ![Slot(idx)] = head]
      /\ \A p \in Queues : p # q => used_ring'[p] = used_ring[p]
  BY ZenonT(30), <1>1, <1>2, <1>3, <1>4, <1>5, Update2
<1>7. Ahead(idx, last) < QueueSize
  <2>1. Accounted(Waiting(q), Done(q), free[q]) /\ Waiting(q) # <<>>
    BY ZenonT(30), <1>1 DEF RingInv, HeadInv
  <2>2. Len(Done(q)) < QueueSize
    BY ZenonT(30), <1>1, <2>1, AccountServe, RingsAre
  <2> QED
    BY ZenonT(30), <1>1, <1>4, <2>2, RingsAre
<1> DEFINE after == [ring EXCEPT ![Slot(idx)] = head]
<1>8. Entries(after, last, idx) = Entries(ring, last, idx)
  <2>1. /\ after \in [Heads -> Heads]
        /\ \A s \in Heads : s # Slot(idx) => after[s] = ring[s]
    BY <1>1, <1>5
  <2> HIDE DEF after
  <2> QED
    BY <1>7, <2>1, EntriesKept
<1>9. Done(q)' = Done(q) /\ used_ring'[q][Slot(used_idx[q])] = head
  BY <1>1, <1>2, <1>4, <1>5, <1>6, <1>8 DEF Done
<1> QED
  BY ZenonT(30), <1>1, <1>2, <1>6, <1>9 DEF Waiting, Done

\* Publishing the used index serves the first waiting request.
LEMMA PublishRing ==
  ASSUME Types, RingInv, HeadInv, pc = "publish", NEW q, q = Current,
         AdvanceUsedIdx(q), UNCHANGED driverVars
  PROVE  /\ q \in Queues /\ Waiting(q) # <<>>
         /\ Waiting(q)' = Tail(Waiting(q)) /\ Done(q)' = Append(Done(q), Head(Waiting(q)))
         /\ \A p \in Queues : p # q => Waiting(p)' = Waiting(p) /\ Done(p)' = Done(p)
<1>1. q \in Queues /\ RingTypeOK
  BY Zenon, TurnIs DEF Types, TypeOK
<1>2. /\ used_idx' = [used_idx EXCEPT ![q] = Succ(@)]
      /\ UNCHANGED <<avail_ring, avail_idx, used_ring, last_used>>
  BY DEF AdvanceUsedIdx, driverVars
<1>3. /\ used_ring[q] \in [Heads -> Heads] /\ avail_ring[q] \in [Heads -> Heads]
      /\ last_used[q] \in Indices /\ avail_idx[q] \in Indices
      /\ used_idx[q] \in Indices /\ used_idx \in [Queues -> Indices]
  BY <1>1 DEF RingTypeOK
<1>4. used_idx'[q] = Succ(used_idx[q]) /\ \A p \in Queues : p # q => used_idx'[p] = used_idx[p]
  BY ZenonT(30), <1>1, <1>2, <1>3
<1>5. /\ Waiting(q) # <<>> /\ used_ring[q][Slot(used_idx[q])] = Head(Waiting(q))
      /\ Accounted(Waiting(q), Done(q), free[q])
  BY <1>1 DEF HeadInv, RingInv
<1>6. Ahead(used_idx[q], last_used[q]) < QueueSize /\ avail_idx[q] # used_idx[q]
  <2>1. Len(Done(q)) < QueueSize
    BY ZenonT(30), <1>1, <1>5, AccountServe, RingsAre
  <2> QED
    BY ZenonT(30), <1>1, <1>5, <2>1, RingsAre
<1>7. Entries(avail_ring[q], Succ(used_idx[q]), avail_idx[q]) = Tail(Waiting(q))
  BY ZenonT(30), <1>3, <1>6, EntriesConsumed DEF Waiting
<1>8. Entries(used_ring[q], last_used[q], Succ(used_idx[q]))
        = Append(Done(q), used_ring[q][Slot(used_idx[q])])
  BY ZenonT(30), <1>3, <1>6, EntriesExtended DEF Done
<1>9. Waiting(q)' = Tail(Waiting(q)) /\ Done(q)' = Append(Done(q), Head(Waiting(q)))
  BY ZenonT(30), <1>2, <1>4, <1>5, <1>7, <1>8 DEF Waiting, Done
<1> QED
  BY ZenonT(30), <1>1, <1>2, <1>4, <1>5, <1>9 DEF Waiting, Done

\* At the start the driver has every head.
LEMMA InitRingInv == Init => RingInv /\ HeadInv
<1> SUFFICES ASSUME Init, NEW q \in Queues  PROVE Accounted(Waiting(q), Done(q), free[q])
  BY ZenonT(30) DEF RingInv, HeadInv, Init
<1>1. RingTypeOK /\ used_idx[q] = 0 /\ avail_idx[q] = 0 /\ last_used[q] = 0 /\ free[q] = Heads
  BY Zenon, InitTypeInv DEF TypeInv, Types, TypeOK, Init, RingInit
<1>2. Waiting(q) = <<>> /\ Done(q) = <<>>
  BY ZenonT(30), <1>1, RingsAre
<1>3. Cardinality(Heads) = QueueSize
  BY Sizes, FS_Interval DEF Heads
<1>4. Len(<<>>) = 0
  OBVIOUS
<1> QED
  BY <1>1, <1>2, <1>3, <1>4, Sizes DEF Accounted, Distinct, In

\* Every step keeps each head in one place.
LEMMA NextRingInv ==
  TypeInv /\ ServeInv /\ RingInv /\ HeadInv /\ [Next]_vars => RingInv' /\ HeadInv'
<1> SUFFICES ASSUME TypeInv, ServeInv, RingInv, HeadInv, [Next]_vars
             PROVE  RingInv' /\ HeadInv'
  BY ZenonT(30)
<1>t. Types /\ RingTypeOK /\ free \in [Queues -> SUBSET Heads]
  BY ZenonT(30) DEF TypeInv, Types, TypeOK, RingTypeOK
<1>a. \A q \in Queues : Accounted(Waiting(q), Done(q), free[q])
  BY DEF RingInv
<1>1. ASSUME UNCHANGED <<ringVars, last_used, free>>  PROVE RingInv'
  BY ZenonT(30), <1>1, RingsKept DEF RingInv
<1>2. ASSUME UNCHANGED <<ringVars, last_used, pc, kick_slots, head>>  PROVE HeadInv'
  BY ZenonT(30), <1>2, RingsKept, TurnKept DEF HeadInv, ringVars
<1>3. ASSUME pc' \notin {"push", "publish"}  PROVE HeadInv'
  BY <1>3 DEF HeadInv
<1>4. ASSUME NEW q \in Queues, NEW h \in Heads, Submit(q, h)
      PROVE  RingInv' /\ HeadInv'
  <2>1. /\ h \in free[q] /\ free' = [free EXCEPT ![q] = @ \ {h}]
        /\ Waiting(q)' = Append(Waiting(q), h)
        /\ \A p \in Queues : p # q => Waiting(p)' = Waiting(p)
        /\ \A p \in Queues : Done(p)' = Done(p)
    BY <1>4, <1>t, SubmitRing
  <2>2. Accounted(Waiting(q), Done(q), free[q])'
    <3>1. Accounted(Append(Waiting(q), h), Done(q), free[q] \ {h})
      BY ZenonT(30), <1>a, <1>t, <2>1, AccountSubmit, RingsAre
    <3>2. free'[q] = free[q] \ {h}
      BY <1>t, <2>1
    <3> QED
      BY ZenonT(30), <2>1, <3>1, <3>2
  <2>3. RingInv'
    <3> SUFFICES ASSUME NEW p \in Queues, p # q
                 PROVE  Accounted(Waiting(p), Done(p), free[p])'
      BY Zenon, <2>2 DEF RingInv
    <3>1. free'[p] = free[p]
      BY ZenonT(30), <1>t, <2>1
    <3> QED
      BY ZenonT(30), <1>a, <2>1, <3>1
  <2>4. UNCHANGED <<pc, kick_slots, head, used_ring, used_idx>>
    BY <1>4 DEF Submit, AddAvail, serverVars
  <2>5. HeadInv'
    <3> SUFFICES ASSUME pc \in {"push", "publish"}
                 PROVE  Waiting(Current)' # <<>> /\ head = Head(Waiting(Current)')
      BY ZenonT(30), <2>4, TurnKept DEF HeadInv
    <3>1. Current' = Current /\ Waiting(Current) # <<>> /\ head = Head(Waiting(Current))
      BY ZenonT(30), <2>4, TurnKept DEF HeadInv
    <3>2. Current \in Queues
      BY ZenonT(30), <1>t, TurnIs DEF Types, TypeOK
    <3>3. CASE Current # q
      BY ZenonT(30), <2>1, <3>1, <3>2, <3>3 DEF Waiting
    <3>4. CASE Current = q
      <4>1. PICK w \in Seq(Heads) : w = Waiting(q) /\ w # <<>> /\ head = Head(w)
        BY ZenonT(30), <1>t, <3>1, <3>4, RingsAre
      <4>2. Append(w, h) # <<>> /\ Head(Append(w, h)) = Head(w)
        <5>1. /\ Append(w, h) \in Seq(Heads) /\ Len(Append(w, h)) = Len(w) + 1
              /\ Len(w) \in Nat \ {0} /\ \A i \in 1 .. Len(w) : Append(w, h)[i] = w[i]
          BY <4>1, AppendProperties, LenProperties, EmptySeq
        <5> QED
          BY <4>1, <5>1, EmptySeq, HeadTailProperties
      <4>3. Waiting(Current)' = Append(w, h)
        BY ZenonT(30), <2>1, <3>1, <3>4, <4>1 DEF Waiting
      <4> QED
        BY ZenonT(30), <4>1, <4>2, <4>3
    <3> QED
      BY ZenonT(30), <3>3, <3>4
  <2> QED
    BY <2>3, <2>5
<1>5. ASSUME NEW q \in Queues, Reap(q), ReadUsed(q)
      PROVE  RingInv' /\ HeadInv'
  <2>1. /\ Done(q) # <<>> /\ free' = [free EXCEPT ![q] = @ \cup {Head(Done(q))}]
        /\ Done(q)' = Tail(Done(q))
        /\ \A p \in Queues : p # q => Done(p)' = Done(p)
        /\ \A p \in Queues : Waiting(p)' = Waiting(p)
    BY ZenonT(30), <1>5, <1>t, ReadRing
  <2>2. Accounted(Waiting(q), Done(q), free[q])'
    <3>1. Accounted(Waiting(q), Tail(Done(q)), free[q] \cup {Head(Done(q))})
      BY ZenonT(30), <1>a, <1>t, <2>1, AccountRead, RingsAre
    <3>2. free'[q] = free[q] \cup {Head(Done(q))}
      BY <1>t, <2>1
    <3> QED
      BY ZenonT(30), <2>1, <3>1, <3>2
  <2>3. RingInv'
    <3> SUFFICES ASSUME NEW p \in Queues, p # q
                 PROVE  Accounted(Waiting(p), Done(p), free[p])'
      BY Zenon, <2>2 DEF RingInv
    <3>1. free'[p] = free[p]
      BY ZenonT(30), <1>t, <2>1
    <3> QED
      BY ZenonT(30), <1>a, <2>1, <3>1
  <2>4. UNCHANGED <<pc, kick_slots, head, ringVars>>
    BY ZenonT(30), <1>5 DEF Reap, ReadUsed, serverVars
  <2>5. HeadInv'
    BY ZenonT(30), <2>4, TurnKept DEF HeadInv, Waiting, ringVars
  <2> QED
    BY ZenonT(30), <2>3, <2>5
<1>6. ASSUME NEW q \in Queues, Kick(q) \/ Interrupt(q) \/ (Reap(q) /\ ~ReadUsed(q)) \/ Send(q)
      PROVE  UNCHANGED <<ringVars, last_used, free, pc, kick_slots, head>>
  BY ZenonT(30), <1>6 DEF Kick, Interrupt, Reap, Send, driverVars, serverVars
<1>7. CASE Stop \/ Restart \/ Close
  BY ZenonT(30), <1>1, <1>2, <1>7 DEF Stop, Restart, Close, driverVars, serverVars
<1>8. CASE Poll \/ HandleOneMessage \/ Disconnected \/ KicksDone
  BY ZenonT(30), <1>1, <1>3, <1>8 DEF Poll, HandleOneMessage, Disconnected, KicksDone, driverVars
<1>9. CASE Drain \/ FinishVring
  BY ZenonT(30), <1>1, <1>3, <1>9 DEF Drain, BeginVring, FinishVring, driverVars
<1>10. CASE PopAvail
  <2>1. /\ pc = "pop" /\ pc' = "push" /\ UNCHANGED <<ringVars, last_used, free, kick_slots>>
        /\ avail_idx[Current] # vrings[Current].vq
        /\ head' = avail_ring[Current][Slot(vrings[Current].vq)]
    BY ZenonT(30), <1>10 DEF PopAvail, MoreAvail, HeadAt, driverVars
  <2>2. kick_slots # {} /\ vrings[Current].vq # Nil
    BY ZenonT(30), <1>t, <2>1 DEF Types, TypeOK, TypeInv, ServesBuilt
  <2>3. Current \in Queues /\ ~Has(Current, "SET_VRING_BASE")
    BY <1>t, <2>2, Served
  <2>4. vrings[Current].vq = used_idx[Current]
    BY ZenonT(30), <2>1, <2>2, <2>3 DEF ServeInv, VringInv, Midway
  <2>5. /\ avail_ring[Current] \in [Heads -> Heads] /\ avail_idx[Current] \in Indices
        /\ used_idx[Current] \in Indices
    BY ZenonT(30), <1>t, <2>3 DEF RingTypeOK
  <2>6. Waiting(Current) # <<>> /\ Head(Waiting(Current)) = avail_ring[Current][Slot(used_idx[Current])]
    BY ZenonT(30), <2>1, <2>4, <2>5, EntriesConsumed DEF Waiting
  <2>7. HeadInv'
    BY ZenonT(30), <2>1, <2>4, <2>6, TurnKept, RingsKept DEF HeadInv, Waiting, ringVars
  <2> QED
    BY ZenonT(30), <1>1, <2>1, <2>7
<1>11. CASE PushUsed
  <2>1. UNCHANGED <<driverVars, kick_slots, head>> /\ Current' = Current
    BY <1>11, TurnKept DEF PushUsed
  <2>2. CASE pc = "push"
    <3>1. WriteUsedElem(Current, head) /\ pc' = "publish" /\ used_idx' = used_idx
      BY ZenonT(30), <1>11, <2>2 DEF PushUsed, WriteUsedElem
    <3>2. /\ Current \in Queues /\ used_ring'[Current][Slot(used_idx[Current])] = head
          /\ \A p \in Queues : Waiting(p)' = Waiting(p) /\ Done(p)' = Done(p)
      BY ZenonT(30), <1>t, <2>1, <2>2, <3>1, WriteRing
    <3>3. RingInv'
      BY ZenonT(30), <2>1, <3>2 DEF RingInv, driverVars
    <3>4. HeadInv'
      BY ZenonT(30), <2>1, <2>2, <3>1, <3>2 DEF HeadInv, Waiting
    <3> QED
      BY ZenonT(30), <3>3, <3>4
  <2>3. CASE pc = "publish"
    <3>1. AdvanceUsedIdx(Current) /\ pc' = "pop"
      BY <1>11, <2>3 DEF PushUsed
    <3>2. PICK q : q = Current
      OBVIOUS
    <3>3. /\ q \in Queues /\ Waiting(q) # <<>>
          /\ Waiting(q)' = Tail(Waiting(q)) /\ Done(q)' = Append(Done(q), Head(Waiting(q)))
          /\ \A p \in Queues : p # q => Waiting(p)' = Waiting(p) /\ Done(p)' = Done(p)
      BY ZenonT(30), <1>t, <2>1, <2>3, <3>1, <3>2, PublishRing
    <3>4. Accounted(Tail(Waiting(q)), Append(Done(q), Head(Waiting(q))), free[q])
      BY ZenonT(30), <1>a, <1>t, <3>3, AccountServe, RingsAre
    <3>5. RingInv'
      BY ZenonT(30), <1>a, <2>1, <3>3, <3>4 DEF RingInv, driverVars
    <3> QED
      BY ZenonT(30), <1>3, <3>1, <3>5
  <2> QED
    BY ZenonT(30), <1>11, <2>2, <2>3 DEF PushUsed
<1>12. CASE UNCHANGED vars
  BY <1>1, <1>2, <1>12 DEF vars, driverVars, serverVars
<1> QED
  BY ZenonT(30), <1>1, <1>2, <1>4, <1>5, <1>6, <1>7, <1>8, <1>9, <1>10, <1>11, <1>12
     DEF Next, Server, FrontEnd, Guest
-----------------------------------------------------------------------------
(***************************************************************************)
(* The rings, the doorbells and the control messages implement the queues  *)
(* of module RequestQueue.                                                 *)
(***************************************************************************)
AllInv == Inv /\ RingInv /\ HeadInv

\* Every reachable state satisfies the invariant.
LEMMA RingInvariant == Spec => []AllInv
<1>1. Init => RingInv /\ HeadInv
  BY InitRingInv
<1>2. AllInv /\ [Next]_vars => RingInv' /\ HeadInv'
  BY ZenonT(30), NextRingInv DEF AllInv, Inv, TypeInv
<1> QED
  BY <1>1, <1>2, Invariant, PTL DEF Spec, AllInv

\* The queues as RequestQueue sees them.
waitingNow == [q \in Queues |-> Waiting(q)]
doneNow == [q \in Queues |-> Done(q)]

\* At the start the queues are empty.
LEMMA InitRefines == Init => Requests!Init
<1> SUFFICES ASSUME Init
             PROVE  \A q \in Queues : Waiting(q) = <<>> /\ Done(q) = <<>>
  BY ZenonT(30) DEF Requests!Init, Waiting, Done
<1>1. RingTypeOK
  BY ZenonT(30), InitTypeInv DEF TypeInv, Types, TypeOK
<1>2. \A q \in Queues : used_idx[q] = 0 /\ avail_idx[q] = 0 /\ last_used[q] = 0
  BY Zenon DEF Init, RingInit
<1> QED
  BY ZenonT(30), <1>1, <1>2, RingsAre

\* Every step is a step of the queues, or leaves them alone.
LEMMA NextRefines == AllInv /\ [Next]_vars => [Requests!Next]_(Requests!queueVars)
<1> SUFFICES ASSUME AllInv, [Next]_vars  PROVE [Requests!Next]_(Requests!queueVars)
  BY ZenonT(30)
<1> USE DEF AllInv, Inv
<1>t. Types /\ RingTypeOK
  BY ZenonT(30) DEF TypeInv, Types, TypeOK
<1>1. ASSUME \A q \in Queues : Waiting(q)' = Waiting(q) /\ Done(q)' = Done(q)
      PROVE  UNCHANGED Requests!queueVars
  BY Zenon, <1>1 DEF Requests!queueVars, Waiting, Done
<1>2. ASSUME UNCHANGED <<ringVars, last_used>>
      PROVE  UNCHANGED Requests!queueVars
  BY ZenonT(30), <1>1, <1>2, RingsKept
<1>3. ASSUME NEW q \in Queues, NEW h \in Heads, Submit(q, h)
      PROVE  Requests!MakeAvailable(q, h)
  <2>1. /\ h \in free[q] /\ Waiting(q)' = Append(Waiting(q), h)
        /\ \A p \in Queues : p # q => Waiting(p)' = Waiting(p)
        /\ \A p \in Queues : Done(p)' = Done(p)
    BY ZenonT(30), <1>3, <1>t, SubmitRing
  <2>2. ~In(h, Waiting(q)) /\ ~In(h, Done(q))
    BY ZenonT(30), <2>1 DEF RingInv, Accounted
  <2>3. ~Requests!UnderWay(q, h)
    BY Zenon, <2>2 DEF Requests!UnderWay, In, Waiting, Done
  <2>4. waitingNow' = [waitingNow EXCEPT ![q] = Append(@, h)] /\ doneNow' = doneNow
    BY ZenonT(30), <2>1 DEF waitingNow, doneNow
  <2> QED
    BY ZenonT(30), <2>3, <2>4 DEF Requests!MakeAvailable, waitingNow, doneNow, Waiting, Done
<1>4. ASSUME NEW q \in Queues, Reap(q), ReadUsed(q)
      PROVE  Requests!ReadReply(q)
  <2>1. /\ Done(q) # <<>> /\ Done(q)' = Tail(Done(q))
        /\ \A p \in Queues : p # q => Done(p)' = Done(p)
        /\ \A p \in Queues : Waiting(p)' = Waiting(p)
    BY <1>4, <1>t, ReadRing
  <2>2. doneNow' = [doneNow EXCEPT ![q] = Tail(@)] /\ waitingNow' = waitingNow
    BY ZenonT(30), <2>1 DEF waitingNow, doneNow
  <2> QED
    BY ZenonT(30), <2>1, <2>2 DEF Requests!ReadReply, waitingNow, doneNow, Waiting, Done
<1>5. ASSUME PushUsed, pc = "publish"
      PROVE  \E q \in Queues : Requests!Serve(q)
  <2>1. AdvanceUsedIdx(Current) /\ UNCHANGED driverVars
    BY <1>5 DEF PushUsed
  <2>2. PICK q : q = Current
    OBVIOUS
  <2>3. /\ q \in Queues /\ Waiting(q) # <<>>
        /\ Waiting(q)' = Tail(Waiting(q)) /\ Done(q)' = Append(Done(q), Head(Waiting(q)))
        /\ \A p \in Queues : p # q => Waiting(p)' = Waiting(p) /\ Done(p)' = Done(p)
    BY ZenonT(30), <1>5, <1>t, <2>1, <2>2, PublishRing
  <2>4. /\ waitingNow' = [waitingNow EXCEPT ![q] = Tail(@)]
        /\ doneNow' = [doneNow EXCEPT ![q] = Append(@, Head(waitingNow[q]))]
    BY ZenonT(30), <2>3 DEF waitingNow, doneNow
  <2>5. Requests!Serve(q)
    BY ZenonT(30), <2>3, <2>4 DEF Requests!Serve, waitingNow, doneNow, Waiting, Done
  <2> QED
    BY <2>3, <2>5
<1>6. ASSUME PushUsed, pc = "push"
      PROVE  UNCHANGED Requests!queueVars
  <2>1. WriteUsedElem(Current, head) /\ UNCHANGED driverVars
    BY ZenonT(30), <1>6 DEF PushUsed
  <2>2. \A p \in Queues : Waiting(p)' = Waiting(p) /\ Done(p)' = Done(p)
    BY ZenonT(30), <1>6, <1>t, <2>1, WriteRing
  <2> QED
    BY <1>1, <2>2
<1>7. ASSUME NEW q \in Queues, Kick(q) \/ Interrupt(q) \/ (Reap(q) /\ ~ReadUsed(q)) \/ Send(q)
      PROVE  UNCHANGED <<ringVars, last_used>>
  BY ZenonT(30), <1>7 DEF Kick, Interrupt, Reap, Send, driverVars
<1>8. CASE Stop \/ Restart \/ Close \/ Poll \/ HandleOneMessage \/ Disconnected
  BY ZenonT(30), <1>2, <1>8 DEF Stop, Restart, Close, Poll, HandleOneMessage, Disconnected, driverVars
<1>9. CASE KicksDone \/ Drain \/ PopAvail \/ FinishVring
  BY Zenon, <1>2, <1>9 DEF KicksDone, Drain, PopAvail, FinishVring, driverVars
<1>10. CASE UNCHANGED vars
  BY <1>2, <1>10 DEF vars, driverVars
<1>11. CASE PushUsed
  BY ZenonT(30), <1>5, <1>6, <1>11 DEF PushUsed, Requests!Next
<1>12. ASSUME NEW q \in Queues, Guest(q) \/ Send(q)
       PROVE  [Requests!Next]_(Requests!queueVars)
  BY ZenonT(30), <1>2, <1>3, <1>4, <1>7, <1>12 DEF Guest, Requests!Next
<1> QED
  BY ZenonT(30), <1>8, <1>9, <1>10, <1>11, <1>12 DEF Next, Server, FrontEnd

\* Every request is served once, in the order in which it was made available,
\* and its reply is read once, in that order: what pop_avail, push_used, the
\* front-end's messages and the restarts do to the rings implements the queues
\* of module RequestQueue.
THEOREM RingsImplementQueues == Spec => ServedOnceInOrder
  BY RingInvariant, InitRefines, NextRefines, PTL DEF Spec, ServedOnceInOrder, Requests!Spec
-----------------------------------------------------------------------------
(***************************************************************************)
(* The doorbells.                                                          *)
(***************************************************************************)
TurnsOn(q) == \E m \in Pending(q) : On(m)

\* Before the memory table has come, no message about a vring has.
MemInv ==
  ~mem => /\ \A q \in Queues : Idle(q)
          /\ \E i \in DOMAIN inbox :
               /\ inbox[i].req = "SET_MEM_TABLE"
               /\ \A j \in DOMAIN inbox : inbox[j].index # Nil => i < j

\* A vring has both its doorbells before it is enabled, its kick fd is that
\* of the current start, and that one rings when the vring is enabled.
BellInv(q) ==
  /\ ~Idle(q) \/ (TurnsOn(q) /\ ~Has(q, "SET_VRING_CALL")) => vrings[q].call_fd
  /\ vrings[q].enabled \/ (TurnsOn(q) /\ ~Has(q, "SET_VRING_KICK"))
       => vrings[q].kick_fd = Doorbell(starts)
  /\ \A m \in Pending(q) : m.req = "SET_VRING_KICK" => m.num = Doorbell(starts)
  /\ TurnsOn(q) => kick[q][starts] > 0

BellsInv == MemInv /\ \A q \in Queues : BellInv(q)

\* At the start every vring has yet to be told its doorbells.
LEMMA InitBellsInv == Init => BellsInv
<1> SUFFICES ASSUME Init  PROVE BellsInv
  OBVIOUS
<1>1. ASSUME NEW q \in Queues  PROVE Idle(q) /\ kick[q][starts] > 0
  BY <1>1, ServerAssumption DEF Init, Idle
<1>2. MemInv
  <2>1. /\ inbox[2].req = "SET_MEM_TABLE" /\ 2 \in DOMAIN inbox
        /\ \A j \in DOMAIN inbox : inbox[j].index = Nil
    BY DEF Init, Message
  <2> QED
    BY Zenon, <1>1, <2>1 DEF MemInv
<1>3. ASSUME NEW q \in Queues  PROVE BellInv(q)
  <2>1. /\ Configures(q, 1, 0, script[q])
        /\ \A i \in DOMAIN inbox : inbox[i].index # q
    BY InitConfigures
  <2>2. \A m \in Pending(q) : m.req = "SET_VRING_KICK" => m.num = Doorbell(1)
    BY Zenon, <2>1 DEF Pending, Configures
  <2>3. Has(q, "SET_VRING_KICK") /\ Has(q, "SET_VRING_CALL")
    BY Zenon, <2>1 DEF Pending, Has, Configures
  <2>4. starts = 1 /\ ~vrings[q].enabled
    BY Zenon DEF Init
  <2> QED
    BY Zenon, <1>1, <2>2, <2>3, <2>4 DEF BellInv
<1> QED
  BY <1>2, <1>3 DEF BellsInv

\* What a step leaves alone when it is about something else.
LEMMA BellKept ==
  ASSUME NEW q \in Queues, BellInv(q), Pending(q)' = Pending(q), starts' = starts,
         vrings'[q].call_fd = vrings[q].call_fd,
         vrings'[q].kick_fd = vrings[q].kick_fd,
         vrings'[q].enabled = vrings[q].enabled,
         Idle(q) => Idle(q)', TurnsOn(q) => kick'[q][starts] > 0
  PROVE  BellInv(q)'
<1>1. (TurnsOn(q)' <=> TurnsOn(q)) /\ \A req : Has(q, req)' <=> Has(q, req)
  BY Zenon DEF TurnsOn, Has
<1> QED
  BY Zenon, <1>1 DEF BellInv

\* Handling a message keeps the doorbells of the vring it is about.
LEMMA HandleBellInv ==
  ASSUME TypeInv, OrderInv, ServeInv, HandleOneMessage, NEW q \in Queues, BellInv(q)
  PROVE  BellInv(q)'
<1> DEFINE m == Head(inbox)
           slot == vrings[q]
<1>1. /\ kick_slots' = kick_slots /\ starts' = starts /\ kick' = kick
      /\ vrings'[q] = IF q = m.index THEN Configured(slot, m) ELSE slot
  BY Zenon DEF HandleOneMessage, bellVars
<1>2. slot \in VringSlot
  BY Zenon DEF TypeInv, Types, TypeOK
<1>3. CASE m.index # q
  <2>1. Pending(q)' = Pending(q)
    BY Zenon, <1>3, HandlePending DEF TypeInv
  <2>2. vrings'[q] = slot
    BY Zenon, <1>1, <1>3
  <2>3. Idle(q) => Idle(q)'
    BY Zenon, <1>1, <2>2 DEF Idle
  <2>4. TurnsOn(q) => kick'[q][starts] > 0
    BY Zenon, <1>1 DEF BellInv
  <2> QED
    BY Zenon, <1>1, <2>1, <2>2, <2>3, <2>4, BellKept
<1>4. CASE m.index = q
  <2>1. /\ Pending(q)' \subseteq Pending(q) /\ m \in Pending(q)
        /\ Pending(q) \subseteq Pending(q)' \cup {m}
        /\ \A n \in Pending(q)' : MayFollow(m, n)
    BY Zenon, <1>4, HandlePending DEF TypeInv
  <2>2. vrings'[q] = Configured(slot, m)
    BY <1>1, <1>4
  <2>3. SetsUp(m) => Idle(q)
    BY Zenon, <2>1 DEF ServeInv, VringInv
  <2> HIDE DEF m
  <2>4. /\ TurnsOn(q)' => TurnsOn(q)
        /\ \A req : Has(q, req) => Has(q, req)' \/ m.req = req
        /\ \A n \in Pending(q)' : n.req = "SET_VRING_KICK" => n.num = Doorbell(starts)
        /\ m.req = "SET_VRING_KICK" => m.num = Doorbell(starts)
        /\ TurnsOn(q)' => kick'[q][starts'] > 0
    BY Zenon, <1>1, <2>1 DEF TurnsOn, Has, BellInv
  <2>5. CASE On(m)
    <3>1. \A n \in Pending(q)' : ~SetsUp(n)
      BY <2>1, <2>5 DEF MayFollow
    <3>2. /\ TurnsOn(q) /\ ~Has(q, "SET_VRING_CALL") /\ ~Has(q, "SET_VRING_KICK")
      BY <2>1, <2>5, <3>1 DEF TurnsOn, Has, On, SetsUp, Off, Asks
    <3>3. vrings'[q].call_fd = slot.call_fd /\ vrings'[q].kick_fd = slot.kick_fd
      BY <1>2, <2>2, <2>5 DEF Configured, On, VringSlot
    <3> QED
      BY Zenon, <1>1, <2>4, <3>2, <3>3 DEF BellInv
  <2>6. CASE ~SetsUp(m)
    <3>1. \A n \in Pending(q)' : ~On(n)
      BY <2>1, <2>6 DEF MayFollow, SetsUp, Asks, Off, On
    <3>2. /\ vrings'[q].call_fd = slot.call_fd /\ vrings'[q].kick_fd = slot.kick_fd
          /\ vrings'[q].enabled => slot.enabled
      BY ZenonT(30), <1>2, <2>2, <2>6 DEF Configured, SetsUp, Off, Asks, VringSlot
    <3>3. Idle(q) => Idle(q)'
      BY Zenon, <1>1, <3>2 DEF Idle
    <3> QED
      BY Zenon, <1>1, <2>4, <3>1, <3>2, <3>3 DEF BellInv, TurnsOn
  <2>7. CASE SetsUp(m) /\ ~On(m)
    <3>1. m.req # "SET_VRING_ENABLE" /\ Idle(q)
      BY <2>3, <2>7 DEF SetsUp, Off, On
    <3>2. /\ vrings'[q].enabled = slot.enabled
          /\ vrings'[q].call_fd = (slot.call_fd \/ m.req = "SET_VRING_CALL")
          /\ vrings'[q].kick_fd = IF m.req = "SET_VRING_KICK" THEN m.num ELSE slot.kick_fd
      BY ZenonT(30), <1>2, <2>2, <3>1 DEF Configured, MaybeBuild, SetBase, VringSlot
    <3>3. Idle(q)' /\ ~vrings'[q].enabled
      BY Zenon, <1>1, <3>1, <3>2 DEF Idle
    <3>4. TurnsOn(q)' /\ ~Has(q, "SET_VRING_CALL")' => vrings'[q].call_fd
      BY ZenonT(30), <2>4, <3>2 DEF BellInv
    <3>5. TurnsOn(q)' /\ ~Has(q, "SET_VRING_KICK")' => vrings'[q].kick_fd = Doorbell(starts)
      BY Zenon, <2>4, <3>2 DEF BellInv
    <3> QED
      BY Zenon, <1>1, <2>4, <3>3, <3>4, <3>5 DEF BellInv
  <2> QED
    BY <2>5, <2>6, <2>7
<1> QED
  BY <1>3, <1>4

\* Every step keeps the memory table ahead of the messages about vrings.
LEMMA NextMemInv == TypeInv /\ MemInv /\ [Next]_vars => MemInv'
<1> SUFFICES ASSUME TypeInv, MemInv, [Next]_vars, ~mem'  PROVE MemInv'
  BY Zenon DEF MemInv
<1>t. Types
  BY DEF TypeInv
<1>m. ~mem /\ \A q \in Queues : Idle(q)
  <2>1. ~mem
    BY ZenonT(30) DEF Next, Server, FrontEnd, Guest, Submit, Kick, Interrupt, Reap, Send, Stop, Restart,
           Close, Poll, HandleOneMessage, Disconnected, KicksDone, Drain, PopAvail, PushUsed,
           FinishVring, serverVars, vars
  <2> QED
    BY Zenon, <2>1 DEF MemInv
<1>k. kick_slots = {}
  <2> SUFFICES ASSUME NEW s \in kick_slots  PROVE FALSE
    OBVIOUS
  <2>1. s[1] \in Queues
    BY Zenon, <1>t DEF Types, TypeOK
  <2> QED
    BY <1>m, <2>1 DEF Idle
<1>1. PICK i \in DOMAIN inbox : /\ inbox[i].req = "SET_MEM_TABLE"
                                /\ \A j \in DOMAIN inbox : inbox[j].index # Nil => i < j
  BY Zenon, <1>m DEF MemInv
<1>2. ASSUME UNCHANGED <<vrings, kick_slots, inbox>>  PROVE MemInv'
  BY Zenon, <1>2, <1>m, <1>1 DEF MemInv, Idle
<1>3. ASSUME NEW q \in Queues, Guest(q)
      PROVE  UNCHANGED <<vrings, kick_slots, inbox>>
  BY Zenon, <1>3 DEF Guest, Submit, Kick, Interrupt, Reap, serverVars, frontVars
<1>4. ASSUME NEW q \in Queues, Send(q)
      PROVE  MemInv'
  <2>1. UNCHANGED <<vrings, kick_slots>>
    BY <1>4 DEF Send, serverVars
  <2>2. /\ Len(inbox) \in Nat /\ DOMAIN inbox = 1 .. Len(inbox)
        /\ DOMAIN inbox' = 1 .. (Len(inbox) + 1)
        /\ \A j \in DOMAIN inbox : inbox'[j] = inbox[j]
    BY Zenon, <1>4, <1>t, SendMoves
  <2>3. i \in DOMAIN inbox' /\ inbox'[i].req = "SET_MEM_TABLE"
    BY <1>1, <2>2
  <2>4. ASSUME NEW j \in DOMAIN inbox', inbox'[j].index # Nil  PROVE i < j
    <3>1. CASE j \in DOMAIN inbox
      BY Zenon, <1>1, <2>2, <2>4, <3>1
    <3>2. CASE j = Len(inbox) + 1
      BY <2>2, <3>2
    <3> QED
      BY <2>2, <3>1, <3>2
  <2>5. \A p \in Queues : Idle(p)'
    BY Zenon, <1>m, <2>1 DEF Idle
  <2> QED
    BY Zenon, <2>3, <2>4, <2>5 DEF MemInv
<1>5. CASE Stop \/ Restart \/ Close
  BY Zenon, <1>2, <1>5 DEF Stop, Restart, Close, serverVars
<1>6. CASE Poll
  <2>1. UNCHANGED <<vrings, inbox>> /\ \A s \in kick_slots' : s[1] \in Queues /\ vrings[s[1]].enabled
    <3>1. UNCHANGED <<vrings, inbox>>
      BY ZenonT(30), <1>6 DEF Poll, frontVars
    <3>2. kick_slots' = {<<p, vrings[p].kick_fd>> : p \in {r \in Queues : Readable(r)}}
      BY ZenonT(30), <1>6 DEF Poll
    <3> QED
      BY <3>1, <3>2 DEF Readable
  <2>2. \A p \in Queues : Idle(p)'
    BY Zenon, <1>m, <2>1 DEF Idle
  <2> QED
    BY Zenon, <1>1, <2>1, <2>2 DEF MemInv
<1>7. CASE HandleOneMessage
  <2>1. /\ 1 \in DOMAIN inbox /\ Head(inbox) = inbox[1]
        /\ \A j \in DOMAIN inbox' :
             j \in Nat /\ j + 1 \in DOMAIN inbox /\ inbox'[j] = inbox[j + 1]
        /\ \A j \in DOMAIN inbox :
             j # 1 => j - 1 \in DOMAIN inbox' /\ inbox'[j - 1] = inbox[j] /\ 1 < j
    BY Zenon, <1>7, <1>t, HandleTakes
  <2>2. inbox[1].req # "SET_MEM_TABLE"
    BY ZenonT(30), <1>7, <2>1 DEF HandleOneMessage
  <2>i. i \in Int
    BY <1>t, LenProperties DEF Types, TypeOK
  <2>3. i # 1 /\ inbox[1].index = Nil
    <3>1. i # 1 /\ 1 < i
      BY Zenon, <1>1, <2>1, <2>2
    <3>2. ~(i < 1)
      BY <2>i, <3>1
    <3> QED
      BY Zenon, <1>1, <2>1, <3>1, <3>2
  <2>4. vrings' = vrings /\ kick_slots' = kick_slots
    <3>1. \A q \in Queues : q # Nil
      BY ServerAssumption, VirtqueueAssumption
    <3>2. /\ kick_slots' = kick_slots
          /\ vrings' = [q \in Queues |-> IF q = inbox[1].index
                                         THEN Configured(vrings[q], inbox[1])
                                         ELSE vrings[q]]
      BY ZenonT(30), <1>7, <2>1 DEF HandleOneMessage
    <3>3. vrings \in [Queues -> VringSlot]
      BY ZenonT(30), <1>t DEF Types, TypeOK
    <3> QED
      BY <2>3, <3>1, <3>2, <3>3
  <2>5. PICK k : k = i - 1
    OBVIOUS
  <2>6. k \in DOMAIN inbox' /\ inbox'[k].req = "SET_MEM_TABLE"
    BY Zenon, <1>1, <2>1, <2>3, <2>5
  <2>7. ASSUME NEW j \in DOMAIN inbox', inbox'[j].index # Nil  PROVE k < j
    <3>1. j \in Nat /\ j + 1 \in DOMAIN inbox /\ inbox[j + 1].index # Nil
      BY Zenon, <2>1, <2>7
    <3>2. i < j + 1
      BY Zenon, <1>1, <3>1
    <3> QED
      BY <2>5, <2>i, <3>1, <3>2
  <2>8. \A p \in Queues : Idle(p)'
    BY <1>m, <2>4 DEF Idle
  <2> QED
    BY Zenon, <2>6, <2>7, <2>8 DEF MemInv
<1>8. CASE Disconnected \/ KicksDone
  BY Zenon, <1>2, <1>8 DEF Disconnected, KicksDone, frontVars
<1>9. CASE Drain \/ PopAvail \/ PushUsed \/ FinishVring
  BY <1>k, <1>t, <1>9 DEF Drain, PopAvail, PushUsed, FinishVring, Types, TypeOK
<1>10. CASE UNCHANGED vars
  BY Zenon, <1>2, <1>10 DEF vars, serverVars, frontVars
<1> QED
  BY ZenonT(30), <1>2, <1>3, <1>4, <1>5, <1>6, <1>7, <1>8, <1>9, <1>10 DEF Next, Server, FrontEnd

\* Every step keeps the doorbells.
LEMMA NextBellInv ==
  ASSUME TypeInv, OrderInv, ServeInv, \A p \in Queues : BellInv(p), [Next]_vars,
         NEW q \in Queues
  PROVE  BellInv(q)'
<1>t. Types /\ BellInv(q) /\ VringInv(q)
  BY DEF TypeInv, ServeInv
<1>k. /\ kick \in [Queues -> [1 .. MaxStarts -> Nat]] /\ starts \in 1 .. MaxStarts
      /\ MaxStarts \in Nat
  BY Zenon, <1>t, ServerAssumption DEF Types, TypeOK
<1>p. UNCHANGED <<inbox, script>> => Pending(q)' = Pending(q)
  BY Zenon DEF Pending
<1>1. ASSUME UNCHANGED <<vrings, kick_slots, starts, kick>>, Pending(q)' = Pending(q)
      PROVE  BellInv(q)'
  <2>1. (Idle(q) => Idle(q)') /\ (TurnsOn(q) => kick'[q][starts] > 0)
    BY Zenon, <1>1, <1>t DEF Idle, BellInv
  <2> QED
    BY ZenonT(30), <1>1, <1>t, <2>1, BellKept
<1>2. ASSUME NEW p \in Queues, Guest(p), ~Kick(p)
      PROVE  UNCHANGED <<vrings, kick_slots, starts, kick, inbox, script>>
  BY Zenon, <1>2 DEF Guest, Submit, Interrupt, Reap, serverVars, frontVars
<1>3. ASSUME NEW p \in Queues, Kick(p)
      PROVE  BellInv(q)'
  <2>1. /\ UNCHANGED <<vrings, kick_slots, starts, inbox, script>>
        /\ kick' = [kick EXCEPT ![p][starts] = kick[p][starts] + 1]
    BY Zenon, <1>3 DEF Kick, serverVars, frontVars
  <2>2. kick[q][starts] > 0 => kick'[q][starts] > 0
    <3>1. kick[p] \in [1 .. MaxStarts -> Nat] /\ kick[p][starts] \in Nat
      BY <1>k
    <3>2. kick[p][starts] + 1 \in Nat /\ kick[p][starts] + 1 > 0
      BY <3>1
    <3>3. /\ q # p => kick'[q] = kick[q]
          /\ kick'[p] = [kick[p] EXCEPT ![starts] = kick[p][starts] + 1]
      BY Zenon, <1>k, <2>1, <3>2, Update2
    <3> QED
      BY ZenonT(30), <1>k, <3>1, <3>2, <3>3
  <2>3. (Idle(q) => Idle(q)') /\ (TurnsOn(q) => kick'[q][starts] > 0)
    BY Zenon, <1>t, <2>1, <2>2 DEF Idle, BellInv
  <2> QED
    BY Zenon, <1>p, <1>t, <2>1, <2>3, BellKept
<1>4. ASSUME NEW p \in Queues, Send(p)
      PROVE  BellInv(q)'
  BY ZenonT(30), <1>1, <1>4, <1>t, SendPending DEF Send, serverVars, bellVars
<1>5. CASE Stop
  <2>1. UNCHANGED <<vrings, kick_slots, starts, kick, inbox>>
    BY ZenonT(30), <1>5 DEF Stop, serverVars, bellVars
  <2>2. /\ script[q] = <<>>
        /\ script'[q] = <<Message("SET_VRING_ENABLE", q, 0), Message("GET_VRING_BASE", q, 0)>>
    BY Zenon, <1>5 DEF Stop
  <2>3. \A k \in DOMAIN script'[q] :
          ~On(script'[q][k]) /\ script'[q][k].req \notin {"SET_VRING_KICK", "SET_VRING_CALL"}
    BY <2>2 DEF On, Message
  <2>4. \A m : (On(m) \/ m.req \in {"SET_VRING_KICK", "SET_VRING_CALL"})
                => (m \in Pending(q)' <=> m \in Pending(q))
    BY <2>1, <2>2, <2>3 DEF Pending
  <2>5. /\ TurnsOn(q)' <=> TurnsOn(q)
        /\ Has(q, "SET_VRING_CALL")' <=> Has(q, "SET_VRING_CALL")
        /\ Has(q, "SET_VRING_KICK")' <=> Has(q, "SET_VRING_KICK")
    BY <2>4 DEF TurnsOn, Has
  <2>6. Idle(q)' <=> Idle(q)
    BY ZenonT(30), <2>1 DEF Idle
  <2> QED
    BY Zenon, <1>t, <2>1, <2>4, <2>5, <2>6 DEF BellInv
<1>6. CASE Restart
  <2>1. /\ UNCHANGED <<vrings, kick_slots>>
        /\ kick'[q] = [kick[q] EXCEPT ![starts + 1] = 1]
    BY Zenon, <1>6 DEF Restart, serverVars
  <2>2. /\ starts' = starts + 1 /\ starts' \in 1 .. MaxStarts /\ bases[q] # Nil
        /\ inbox' = inbox /\ Configures(q, starts', bases[q], script'[q])
    BY Zenon, <1>6, <1>t, RestartConfigures
  <2>3. Idle(q)' /\ ~vrings'[q].enabled /\ Pending(q) = {}
    BY ZenonT(30), <1>t, <2>1, <2>2 DEF VringInv, Idle, OrderInv
  <2>4. \A m \in Pending(q)' : m.req = "SET_VRING_KICK" => m.num = Doorbell(starts')
    BY ZenonT(60), <2>2, <2>3 DEF Pending, Configures
  <2>5. Has(q, "SET_VRING_KICK")' /\ Has(q, "SET_VRING_CALL")'
    BY Zenon, <2>2 DEF Pending, Has, Configures
  <2>6. kick'[q][starts'] > 0
    BY <1>k, <2>1, <2>2
  <2> QED
    BY Zenon, <2>3, <2>4, <2>5, <2>6 DEF BellInv
<1>7. CASE Poll
  <2>1. /\ UNCHANGED <<vrings, starts, kick, inbox, script>>
        /\ \A s \in kick_slots' : vrings[s[1]].enabled
    <3>1. UNCHANGED <<vrings, starts, kick, inbox, script>>
      BY ZenonT(30), <1>7 DEF Poll, frontVars, bellVars
    <3>2. kick_slots' = {<<p, vrings[p].kick_fd>> : p \in {r \in Queues : Readable(r)}}
      BY ZenonT(30), <1>7 DEF Poll
    <3> QED
      BY <3>1, <3>2 DEF Readable
  <2>2. (Idle(q) => Idle(q)') /\ (TurnsOn(q) => kick'[q][starts] > 0)
    BY Zenon, <1>t, <2>1 DEF Idle, BellInv
  <2> QED
    BY ZenonT(30), <1>p, <1>t, <2>1, <2>2, BellKept
<1>8. CASE HandleOneMessage
  BY ZenonT(30), <1>8, <1>t, HandleBellInv
<1>9. CASE Disconnected \/ KicksDone \/ FinishVring
  <2>1. UNCHANGED <<vrings, starts, kick, inbox, script>> /\ kick_slots' \subseteq kick_slots
    BY ZenonT(30), <1>9 DEF Disconnected, KicksDone, FinishVring, frontVars, bellVars
  <2>2. (Idle(q) => Idle(q)') /\ (TurnsOn(q) => kick'[q][starts] > 0)
    BY Zenon, <1>t, <2>1 DEF Idle, BellInv
  <2> QED
    BY Zenon, <1>p, <1>t, <2>1, <2>2, BellKept
<1>10. CASE Drain
  <2>1. /\ UNCHANGED <<vrings, starts, inbox, script>> /\ kick_slots' \subseteq kick_slots
        /\ kick' = [kick EXCEPT ![Current][CurrentFd] =
                      kick[Current][CurrentFd] - Drained(Current, CurrentFd)]
        /\ kick_slots # {}
    BY Zenon, <1>10 DEF Drain, BeginVring, frontVars
  <2>2. Current \in Queues /\ \A m \in Pending(Current) : ~SetsUp(m)
    BY <1>t, <2>1, Served
  <2>3. q = Current => ~TurnsOn(q)
    BY <2>2 DEF TurnsOn, SetsUp, On, Off, Asks
  <2>4. q # Current => kick'[q] = kick[q]
    BY ZenonT(30), <1>k, <2>1, <2>2
  <2>5. (Idle(q) => Idle(q)') /\ (TurnsOn(q) => kick'[q][starts] > 0)
    BY Zenon, <1>t, <2>1, <2>3, <2>4 DEF Idle, BellInv
  <2> QED
    BY Zenon, <1>p, <1>t, <2>1, <2>5, BellKept
<1>11. CASE PopAvail
  <2>1. /\ UNCHANGED <<kick_slots, starts, kick, inbox, script>>
        /\ vrings' = [vrings EXCEPT ![Current].vq = Succ(@)]
    BY <1>11 DEF PopAvail, frontVars, bellVars
  <2>2. /\ vrings'[q].call_fd = vrings[q].call_fd
        /\ vrings'[q].kick_fd = vrings[q].kick_fd
        /\ vrings'[q].enabled = vrings[q].enabled
    BY <1>t, <2>1 DEF Types, TypeOK, VringSlot
  <2>3. (Idle(q) => Idle(q)') /\ (TurnsOn(q) => kick'[q][starts] > 0)
    BY <1>t, <2>1, <2>2 DEF Idle, BellInv
  <2> QED
    BY <1>p, <1>t, <2>1, <2>2, <2>3, BellKept
<1>12. CASE PushUsed \/ Close
  BY Zenon, <1>1, <1>p, <1>12 DEF PushUsed, Close, serverVars, frontVars, bellVars
<1>13. CASE UNCHANGED vars
  BY Zenon, <1>1, <1>p, <1>13 DEF vars, serverVars, frontVars, bellVars
<1> QED
  BY ZenonT(30), <1>1, <1>p, <1>2, <1>3, <1>4, <1>5, <1>6, <1>7, <1>8, <1>9, <1>10, <1>11, <1>12, <1>13
     DEF Next, Server, FrontEnd

\* Every step keeps the doorbells of every vring.
LEMMA NextBellsInv ==
  TypeInv /\ OrderInv /\ ServeInv /\ BellsInv /\ [Next]_vars => BellsInv'
  BY NextMemInv, NextBellInv DEF BellsInv
-----------------------------------------------------------------------------
(***************************************************************************)
(* No wake-up is lost.                                                     *)
(***************************************************************************)

\* Who is being served stays the same while the loop is at the same place.
LEMMA ServingKept ==
  UNCHANGED <<pc, kick_slots>> => \A q : Serving(q)' <=> Serving(q)
  BY ZenonT(30), TurnKept DEF Serving

\* Every step keeps the interrupts the driver needs.
LEMMA NextCallPending ==
  TypeInv /\ BellsInv /\ CallPending /\ [Next]_vars => CallPending'
<1> SUFFICES ASSUME TypeInv, BellsInv, CallPending, [Next]_vars, NEW q \in Queues,
                    MoreUsed(q)'
             PROVE  call'[q] \/ reaping'[q] \/ (Serving(q)' /\ processed')
  BY ZenonT(30) DEF CallPending
<1> DEFINE Goal == call'[q] \/ reaping'[q] \/ (Serving(q)' /\ processed')
<1>t. /\ Types /\ RingTypeOK /\ call \in [Queues -> BOOLEAN] /\ reaping \in [Queues -> BOOLEAN]
      /\ processed \in BOOLEAN
  BY Zenon DEF TypeInv, Types, TypeOK
<1>c. MoreUsed(q) => call[q] \/ reaping[q] \/ (Serving(q) /\ processed)
  BY Zenon DEF CallPending
<1>u. UNCHANGED <<used_idx, last_used>> => MoreUsed(q)
  BY ZenonT(30) DEF MoreUsed
<1>1. ASSUME UNCHANGED <<used_idx, last_used, call, reaping, pc, kick_slots, processed>>
      PROVE  Goal
  BY ZenonT(30), <1>1, <1>c, <1>u, ServingKept
<1>2. ASSUME UNCHANGED <<used_idx, last_used, call, reaping>>,
             pc \notin {"pop", "push", "publish"}
      PROVE  Goal
  BY Zenon, <1>2, <1>c, <1>u DEF Serving
<1>3. ASSUME NEW p \in Queues, (\E h \in Heads : Submit(p, h)) \/ Kick(p) \/ Send(p)
      PROVE  UNCHANGED <<used_idx, last_used, call, reaping, pc, kick_slots, processed>>
  BY Zenon, <1>3 DEF Submit, AddAvail, Kick, Send, ringVars, driverVars, serverVars, bellVars
<1>4. ASSUME NEW p \in Queues, Interrupt(p)
      PROVE  Goal
  <2>1. /\ UNCHANGED <<used_idx, last_used, pc, kick_slots, processed>>
        /\ call' = [call EXCEPT ![p] = FALSE] /\ reaping' = [reaping EXCEPT ![p] = TRUE]
    BY <1>4 DEF Interrupt, ringVars, driverVars, serverVars
  <2>2. CASE p = q
    BY <1>t, <2>1, <2>2
  <2>3. CASE p # q
    BY ZenonT(30), <1>c, <1>t, <1>u, <2>1, <2>3, ServingKept
  <2> QED
    BY Zenon, <2>2, <2>3
<1>5. ASSUME NEW p \in Queues, Reap(p)
      PROVE  Goal
  <2>1. UNCHANGED <<used_idx, call, pc, kick_slots, processed>> /\ reaping[p]
    BY Zenon, <1>5 DEF Reap, ReadUsed, ringVars, serverVars
  <2>2. CASE ReadUsed(p)
    <3>1. reaping' = reaping /\ last_used' = [last_used EXCEPT ![p] = Succ(@)]
      BY Zenon, <1>5, <2>2 DEF Reap, ReadUsed
    <3>2. CASE p = q
      BY ZenonT(30), <2>1, <3>1, <3>2
    <3>3. CASE p # q
      <4>1. MoreUsed(q)
        BY Zenon, <1>t, <2>1, <3>1, <3>3 DEF MoreUsed, RingTypeOK
      <4> QED
        BY Zenon, <1>c, <2>1, <3>1, <4>1, ServingKept
    <3> QED
      BY <3>2, <3>3
  <2>3. CASE ~ReadUsed(p)
    <3>1. /\ ~MoreUsed(p) /\ last_used' = last_used
          /\ reaping' = [reaping EXCEPT ![p] = FALSE]
      BY <1>5, <2>3 DEF Reap, driverVars
    <3>2. p # q
      BY ZenonT(30), <1>u, <2>1, <3>1
    <3> QED
      BY ZenonT(30), <1>c, <1>t, <1>u, <2>1, <3>1, <3>2, ServingKept
  <2> QED
    BY ZenonT(30), <2>2, <2>3
<1>6. CASE Stop \/ Restart \/ Close
  BY ZenonT(30), <1>1, <1>6 DEF Stop, Restart, Close, ringVars, driverVars, serverVars, bellVars
<1>7. CASE Poll \/ HandleOneMessage \/ Disconnected \/ KicksDone \/ Drain
  BY ZenonT(30), <1>2, <1>7 DEF Poll, HandleOneMessage, Disconnected, KicksDone, Drain, ringVars,
                    driverVars, bellVars
<1>8. CASE PopAvail
  <2>1. /\ UNCHANGED <<used_idx, last_used, call, reaping, kick_slots, processed>>
        /\ pc' = "push" /\ Current' = Current
    BY <1>8, TurnKept DEF PopAvail, ringVars, driverVars, bellVars
  <2> QED
    BY Zenon, <1>c, <1>u, <2>1 DEF Serving
<1>9. CASE PushUsed
  <2>1. /\ UNCHANGED <<last_used, call, reaping, kick_slots>> /\ Current' = Current
        /\ \/ used_idx' = used_idx /\ pc' = "publish" /\ processed' = processed
           \/ used_idx' = [used_idx EXCEPT ![Current] = Succ(@)] /\ pc' = "pop" /\ processed'
    BY ZenonT(30), <1>9, TurnKept DEF PushUsed, WriteUsedElem, AdvanceUsedIdx, driverVars, bellVars
  <2>2. CASE Current = q
    BY ZenonT(30), <1>c, <1>u, <2>1, <2>2 DEF Serving
  <2>3. CASE Current # q
    <3>1. MoreUsed(q)
      BY ZenonT(30), <1>t, <2>1, <2>3 DEF MoreUsed, RingTypeOK
    <3> QED
      BY Zenon, <1>c, <2>1, <2>3, <3>1 DEF Serving
  <2> QED
    BY Zenon, <2>2, <2>3
<1>10. CASE FinishVring
  <2>1. /\ UNCHANGED <<used_idx, last_used, reaping>> /\ pc = "pop"
        /\ call' = [call EXCEPT ![Current] = @ \/ (processed /\ vrings[Current].call_fd)]
    BY ZenonT(30), <1>10 DEF FinishVring, ringVars, driverVars
  <2>2. Current \in Queues /\ ~Idle(Current)
    <3>1. kick_slots \subseteq Queues \X (1 .. MaxStarts) /\ kick_slots # {}
      BY ZenonT(30), <1>t, <2>1 DEF Types, TypeOK
    <3>2. Turn \in kick_slots /\ Turn = <<Current, CurrentFd>> /\ Current \in Queues
      BY Zenon, <3>1, TurnIs
    <3> QED
      BY <3>2 DEF Idle
  <2>3. vrings[Current].call_fd
    BY Zenon, <2>2 DEF BellsInv, BellInv
  <2>4. CASE Current = q
    BY Zenon, <1>c, <1>t, <1>u, <2>1, <2>3, <2>4
  <2>5. CASE Current # q
    BY ZenonT(30), <1>c, <1>t, <1>u, <2>1, <2>5 DEF Serving
  <2> QED
    BY <2>4, <2>5
<1>11. CASE UNCHANGED vars
  BY Zenon, <1>1, <1>11 DEF vars, ringVars, driverVars, serverVars, bellVars
<1> QED
  BY ZenonT(30), <1>1, <1>3, <1>4, <1>5, <1>6, <1>7, <1>8, <1>9, <1>10, <1>11
     DEF Next, Server, FrontEnd, Guest

\* A request that the server would find on vring q if it looked.
Unseen(q) ==
  /\ vrings[q].enabled /\ vrings[q].kick_fd # Nil /\ vrings[q].vq # Nil
  /\ MoreAvail(q, vrings[q].vq)

\* Every step keeps the kicks the server needs, where one read drains a kick
\* fd: an eventfd, or none at all.
LEMMA NextKickPending ==
  ASSUME KickFds # "pipe", TypeInv, OrderInv, ServeInv, BellsInv, KickPending, [Next]_vars
  PROVE  KickPending'
<1> DEFINE Woken(q) == owed[q] > 0 \/ kick[q][vrings[q].kick_fd] > 0 \/ Serving(q)
<1> SUFFICES ASSUME NEW q \in Queues, Unseen(q)'  PROVE Woken(q)'
  BY ZenonT(30) DEF KickPending, Unseen
<1>t. /\ Types /\ RingTypeOK /\ owed \in [Queues -> Nat]
      /\ kick \in [Queues -> [1 .. MaxStarts -> Nat]] /\ starts \in 1 .. MaxStarts
      /\ vrings \in [Queues -> VringSlot]
  BY ZenonT(30) DEF TypeInv, Types, TypeOK
<1>b. BellInv(q) /\ VringInv(q) /\ (Unseen(q) => Woken(q))
  BY ZenonT(30) DEF BellsInv, ServeInv, KickPending, Unseen
<1>u. UNCHANGED <<vrings, avail_idx>> => Unseen(q)
  BY Zenon DEF Unseen, MoreAvail
<1>1. ASSUME UNCHANGED <<vrings, avail_idx, owed, kick, pc, kick_slots>>  PROVE Woken(q)'
  BY ZenonT(30), <1>1, <1>b, <1>u, ServingKept
<1>2. ASSUME UNCHANGED <<vrings, avail_idx, owed, kick>>, ~Serving(q)  PROVE Woken(q)'
  BY ZenonT(30), <1>2, <1>b, <1>u
<1>3. ASSUME NEW p \in Queues, NEW h \in Heads, Submit(p, h)
      PROVE  Woken(q)'
  <2>1. /\ UNCHANGED <<vrings, pc, kick_slots, kick>>
        /\ owed' = [owed EXCEPT ![p] = @ + 1] /\ avail_idx' = [avail_idx EXCEPT ![p] = Succ(@)]
    BY Zenon, <1>3 DEF Submit, AddAvail, serverVars
  <2>2. CASE p = q
    BY <1>t, <2>1, <2>2
  <2>3. CASE p # q
    <3>1. Unseen(q) /\ owed'[q] = owed[q]
      BY Zenon, <1>t, <2>1, <2>3 DEF Unseen, MoreAvail, RingTypeOK
    <3> QED
      BY ZenonT(30), <1>b, <2>1, <3>1, ServingKept
  <2> QED
    BY Zenon, <2>2, <2>3
<1>4. ASSUME NEW p \in Queues, Kick(p)
      PROVE  Woken(q)'
  <2>1. /\ UNCHANGED <<vrings, avail_idx, pc, kick_slots>> /\ owed[p] > 0
        /\ owed' = [owed EXCEPT ![p] = @ - 1]
        /\ kick' = [kick EXCEPT ![p][starts] = kick[p][starts] + 1]
    BY Zenon, <1>4 DEF Kick, ringVars, serverVars
  <2>2. kick[p] \in [1 .. MaxStarts -> Nat] /\ kick[p][starts] \in Nat
    BY ZenonT(30), <1>t
  <2>3. kick[p][starts] + 1 \in Nat /\ kick[p][starts] + 1 > 0
    BY <2>2
  <2>4. /\ p # q => kick'[q] = kick[q]
        /\ kick'[p] = [kick[p] EXCEPT ![starts] = kick[p][starts] + 1]
    BY Zenon, <1>t, <2>1, <2>3, Update2
  <2>5. CASE p = q
    <3>1. vrings'[q].kick_fd = starts
      BY Zenon, <1>b, <2>1 DEF BellInv, Unseen, Doorbell
    <3> QED
      BY ZenonT(30), <1>t, <2>2, <2>3, <2>4, <2>5, <3>1
  <2>6. CASE p # q
    <3>1. owed'[q] = owed[q]
      BY ZenonT(30), <1>t, <2>1, <2>6
    <3> QED
      BY Zenon, <1>b, <1>u, <2>1, <2>4, <2>6, <3>1, ServingKept
  <2> QED
    BY Zenon, <2>5, <2>6
<1>5. ASSUME NEW p \in Queues, Interrupt(p) \/ Reap(p) \/ Send(p)
      PROVE  UNCHANGED <<vrings, avail_idx, owed, kick, pc, kick_slots>>
  BY ZenonT(30), <1>5 DEF Interrupt, Reap, ReadUsed, Send, ringVars, serverVars, bellVars
<1>6. CASE Stop \/ Close
  BY Zenon, <1>1, <1>6 DEF Stop, Close, ringVars, serverVars, bellVars
<1>7. CASE Restart
  <2>1. bases[q] # Nil /\ vrings' = vrings
    BY ZenonT(30), <1>7 DEF Restart, serverVars
  <2>2. ~vrings'[q].enabled
    BY ZenonT(30), <1>b, <2>1 DEF VringInv, Idle
  <2> QED
    BY Zenon, <2>2 DEF Unseen
<1>8. CASE Poll \/ Disconnected \/ KicksDone
  BY ZenonT(30), <1>2, <1>8 DEF Poll, Disconnected, KicksDone, ringVars, bellVars, Serving
<1>9. CASE HandleOneMessage
  <2> DEFINE m == Head(inbox)
  <2>1. /\ UNCHANGED <<avail_idx, owed, kick, starts>> /\ ~Serving(q)
        /\ vrings'[q] = IF q = m.index THEN Configured(vrings[q], m) ELSE vrings[q]
    BY ZenonT(30), <1>9 DEF HandleOneMessage, ringVars, bellVars, Serving
  <2>2. CASE m.index # q
    <3>1. vrings'[q] = vrings[q]
      BY ZenonT(30), <2>1, <2>2
    <3>2. Unseen(q)
      BY ZenonT(30), <2>1, <3>1 DEF Unseen, MoreAvail
    <3> QED
      BY ZenonT(30), <1>b, <2>1, <3>1, <3>2
  <2>3. CASE m.index = q
    <3>1. m \in Pending(q) /\ vrings'[q] = Configured(vrings[q], m) /\ vrings[q] \in VringSlot
      BY ZenonT(30), <1>9, <1>t, <2>1, <2>3, HandlePending
    <3> HIDE DEF m
    <3>2. CASE On(m)
      <4>1. TurnsOn(q) /\ kick[q][starts] > 0
        BY ZenonT(30), <1>b, <3>1, <3>2 DEF TurnsOn, BellInv
      <4>2. BellInv(q)'
        BY ZenonT(30), <1>9, <1>b, HandleBellInv
      <4>3. vrings'[q].kick_fd = starts
        BY ZenonT(30), <2>1, <4>2 DEF BellInv, Unseen, Doorbell
      <4> QED
        BY ZenonT(30), <2>1, <4>1, <4>3
    <3>3. CASE SetsUp(m) /\ ~On(m)
      <4>1. ~vrings[q].enabled /\ m.req # "SET_VRING_ENABLE"
        BY ZenonT(30), <1>b, <3>1, <3>3 DEF VringInv, Idle, SetsUp, On, Off
      <4>2. ~vrings'[q].enabled
        BY <3>1, <4>1 DEF Configured, MaybeBuild, SetBase, VringSlot
      <4> QED
        BY <4>2 DEF Unseen
    <3>4. CASE Off(m)
      <4>1. ~vrings'[q].enabled
        BY ZenonT(30), <3>1, <3>4 DEF Configured, Off, VringSlot
      <4> QED
        BY <4>1 DEF Unseen
    <3>5. CASE Asks(m)
      <4>1. vrings'[q] = vrings[q]
        BY ZenonT(30), <3>1, <3>5 DEF Configured, Asks
      <4>2. Unseen(q)
        BY ZenonT(30), <2>1, <4>1 DEF Unseen, MoreAvail
      <4> QED
        BY ZenonT(30), <1>b, <2>1, <4>1, <4>2
    <3> QED
      BY ZenonT(30), <3>2, <3>3, <3>4, <3>5 DEF SetsUp
  <2> QED
    BY ZenonT(30), <2>2, <2>3
<1>10. CASE Drain
  <2>1. /\ UNCHANGED <<vrings, avail_idx, owed>> /\ pc = "kicks" /\ kick_slots # {}
        /\ kick' = [kick EXCEPT ![Current][CurrentFd] =
                      kick[Current][CurrentFd] - Drained(Current, CurrentFd)]
        /\ BeginVring(Current)
    BY ZenonT(30), <1>10 DEF Drain, FullRead, ringVars
  <2>2. Current \in Queues /\ CurrentFd \in 1 .. MaxStarts /\ ~Idle(Current)
    <3>1. kick_slots \subseteq Queues \X (1 .. MaxStarts)
      BY ZenonT(30), <1>t DEF Types, TypeOK
    <3>2. /\ Turn \in kick_slots /\ Turn = <<Current, CurrentFd>>
          /\ Current \in Queues /\ CurrentFd \in 1 .. MaxStarts
      BY Zenon, <2>1, <3>1, TurnIs
    <3> QED
      BY <3>2 DEF Idle
  <2>3. CASE Current = q
    <3>1. mem
      BY Zenon, <2>2 DEF BellsInv, MemInv
    <3>2. pc' = "pop" /\ kick_slots' = kick_slots
      BY ZenonT(30), <1>u, <2>1, <2>3, <3>1 DEF BeginVring, Unseen
    <3> QED
      BY Zenon, <2>3, <3>2, TurnKept DEF Serving
  <2>4. CASE Current # q
    <3>1. kick'[q] = kick[q] /\ ~Serving(q)
      BY Zenon, <1>t, <2>1, <2>2, <2>4 DEF Serving
    <3> QED
      BY Zenon, <1>b, <1>u, <2>1, <3>1
  <2> QED
    BY Zenon, <2>3, <2>4
<1>11. CASE PopAvail
  <2>1. /\ UNCHANGED <<avail_idx, owed, kick, kick_slots>> /\ pc = "pop" /\ pc' = "push"
        /\ vrings' = [vrings EXCEPT ![Current].vq = Succ(@)] /\ Current' = Current
    BY <1>11, TurnKept DEF PopAvail, ringVars, bellVars
  <2>2. CASE Current = q
    BY <2>1, <2>2 DEF Serving
  <2>3. CASE Current # q
    <3>1. vrings'[q] = vrings[q]
      BY <1>t, <2>1, <2>3
    <3>2. Unseen(q) /\ ~Serving(q)
      BY <2>1, <2>3, <3>1 DEF Unseen, MoreAvail, Serving
    <3> QED
      BY <1>b, <2>1, <3>1, <3>2
  <2> QED
    BY Zenon, <2>2, <2>3
<1>12. CASE PushUsed
  <2>1. /\ UNCHANGED <<vrings, avail_idx, owed, kick, kick_slots>> /\ Current' = Current
        /\ pc' \in {"pop", "publish"}
    BY Zenon, <1>12, TurnKept DEF PushUsed, WriteUsedElem, AdvanceUsedIdx, bellVars
  <2> QED
    BY ZenonT(30), <1>b, <1>u, <2>1 DEF Serving
<1>13. CASE FinishVring
  <2>1. /\ UNCHANGED <<vrings, avail_idx, owed, kick>>
        /\ ~MoreAvail(Current, vrings[Current].vq)
    BY Zenon, <1>13 DEF FinishVring, ringVars
  <2>2. Current # q
    BY Zenon, <1>u, <2>1 DEF Unseen
  <2> QED
    BY ZenonT(30), <1>2, <2>1, <2>2 DEF Serving
<1>14. CASE UNCHANGED vars
  BY ZenonT(30), <1>1, <1>14 DEF vars, ringVars, serverVars, bellVars
<1> HIDE DEF Woken
<1> QED
  BY ZenonT(30), <1>1, <1>3, <1>4, <1>5, <1>6, <1>7, <1>8, <1>9, <1>10, <1>11, <1>12, <1>13, <1>14
     DEF Next, Server, FrontEnd, Guest

\* Every reachable state has its doorbells in order.
LEMMA DoorbellInvariant == Spec => [](Inv /\ BellsInv)
<1>1. Inv /\ BellsInv /\ [Next]_vars => BellsInv'
  BY NextBellsInv DEF Inv
<1> QED
  BY <1>1, Invariant, InitBellsInv, PTL DEF Spec

\* No wake-up is lost on the way out: while the driver has a reply to read, an
\* interrupt is pending, the driver is reading, or the loop is serving that
\* vring and calls at its end, also when the vring is disabled meanwhile.
THEOREM NoReplyUnnoticed == Spec => []CallPending
<1>1. Init => CallPending
  BY Zenon DEF Init, RingInit, CallPending, MoreUsed
<1>2. Inv /\ BellsInv /\ CallPending /\ [Next]_vars => CallPending'
  BY NextCallPending DEF Inv
<1> QED
  BY <1>1, <1>2, DoorbellInvariant, PTL DEF Spec

\* No wake-up is lost on the way in: while there is a request on a vring that
\* is polled, a kick is owed, pending on the fd that is polled, or the loop is
\* serving that vring and looks again.  Where the kick fd is a pipe, drain_fd
\* may read a full buffer and block on the next read before it looks at the
\* ring, so the theorem leaves that case out.
THEOREM NoRequestUnnoticed ==
  ASSUME KickFds # "pipe"
  PROVE  Spec => []KickPending
<1>1. Init => KickPending
  BY DEF Init, KickPending
<1>2. Inv /\ BellsInv /\ KickPending /\ [Next]_vars => KickPending'
  BY NextKickPending DEF Inv
<1> QED
  BY <1>1, <1>2, DoorbellInvariant, PTL DEF Spec
=============================================================================
