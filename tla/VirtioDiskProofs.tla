-------------------------- MODULE VirtioDiskProofs --------------------------
(***************************************************************************)
(* Proofs about VirtioDisk for any number of threads and descriptors: the  *)
(* driver does not touch a chain the device can follow, a completion is    *)
(* not lost, virtio_disk_rw() returns after the transfer, and descriptors  *)
(* neither leak nor are waited for in vain.                                *)
(***************************************************************************)
EXTENDS VirtioDisk, FiniteSetTheorems, TLAPS

Index == 0 .. UINT16 - 1

\* How far to is ahead of from, and the entries between them.
Ahead(from, to) == (to + UINT16 - from) % UINT16
Entries(r, from, to) == {r[(from + k) % NUM] : k \in 0 .. Ahead(from, to) - 1}

\* The entries are different, and leave room in the ring.
Ring(r, from, to) ==
  /\ Ahead(from, to) <= NUM - 2
  /\ \A k, l \in 0 .. Ahead(from, to) - 1 : r[(from + k) % NUM] = r[(from + l) % NUM] => k = l

\* The chains that are offered to the device, and those it has given back.
Offered == Entries(avail.ring, next_avail, avail.idx)
Returned == Entries(used.ring, used_idx, used.idx)

Busy(t) == idx[t] # <<>>

\* The first descriptor of t's chain, and all three.
HeadOf(t) == idx[t][1]
Chain(t) == {idx[t][1], idx[t][2], idx[t][3]}

QueueOK ==
  /\ free \in SUBSET Desc
  /\ desc \in [Desc -> [addr : Thread \cup Desc \cup {Nobody}, next : Desc,
                        flags : SUBSET {"NEXT", "WRITE"}]]
  /\ ops \in [Desc -> [type : {"IN", "OUT"}, sector : Thread \cup {Nobody}]]
  /\ info \in [Desc -> [b : Thread \cup {Nobody}, status : {0, BUSY}]]

RingsOK ==
  /\ used_idx \in Index /\ next_avail \in Index
  /\ avail \in [ring : [Desc -> Desc], idx : Index]
  /\ used \in [ring : [Desc -> Desc], idx : Index]
  /\ fetched \in SUBSET Desc
  /\ irq \in BOOLEAN /\ intr \in BOOLEAN

ThreadsOK ==
  /\ disk \in [Thread -> BOOLEAN]
  /\ buf = [t \in Thread |-> buf[t]] /\ platter = [t \in Thread |-> platter[t]]
  /\ pc \in [Thread -> {"idle", "alloc", "sleep_free", "sleep_buf", "check"}]
  /\ write \in [Thread -> BOOLEAN]
  /\ idx \in [Thread -> {<<>>} \cup Desc \X Desc \X Desc]

TypeOK == QueueOK /\ RingsOK /\ ThreadsOK

\* A thread has a chain from its allocation until it frees it; b->disk is set only
\* meanwhile, and always when the thread sleeps on its buffer.
ThreadInv ==
  \A t \in Thread : /\ Busy(t) <=> pc[t] \in {"sleep_buf", "check"}
                    /\ disk[t] => Busy(t)
                    /\ pc[t] = "sleep_buf" => disk[t]

\* A descriptor is free or in one chain.
FreeInv ==
  /\ free = Desc \ UNION {Range(idx[t]) : t \in Thread}
  /\ \A t, u \in Thread : t # u => Range(idx[t]) \cap Range(idx[u]) = {}

RingInv ==
  /\ Ring(avail.ring, next_avail, avail.idx)
  /\ Ring(used.ring, used_idx, used.idx)

\* i is the chain of a thread that waits: the device has not finished it, or it has.
Waited(i) == LET t == info[i].b IN t \in Thread /\ disk[t] /\ Busy(t) /\ HeadOf(t) = i
InFlight(i) == Waited(i) /\ info[i].status = BUSY
Answered(i) == Waited(i) /\ info[i].status = 0

\* What is offered or fetched is in flight, in one of the two places; what is returned is
\* answered, and an interrupt announces it.
StageInv ==
  /\ \A i \in Offered \cup fetched : InFlight(i)
  /\ \A i \in Returned : Answered(i)
  /\ Offered \cap fetched = {}
  /\ Returned # {} => irq \/ intr

\* The chain of t is as virtio_disk_rw() formatted it.
Format(t, h, m, l) ==
  /\ h # m /\ h # l /\ m # l
  /\ desc[h] = [addr |-> h, next |-> m, flags |-> {"NEXT"}]
  /\ desc[m] = [addr |-> t, next |-> l, flags |-> DataFlags(write[t])]
  /\ desc[l] = [addr |-> h, next |-> 0, flags |-> {"WRITE"}]
  /\ ops[h] = [type |-> IF write[t] THEN "OUT" ELSE "IN", sector |-> t]
  /\ info[h].b = t

Formatted(t) == Format(t, idx[t][1], idx[t][2], idx[t][3])

\* The request of t is where its status and b->disk say.
Placed(t) ==
  LET h == HeadOf(t) IN
  IF ~disk[t] THEN info[h].status = 0
  ELSE IF info[h].status = 0 THEN h \in Returned
  ELSE h \in Offered \cup fetched

\* A request whose status is 0 has been done.
Moved(t) == info[HeadOf(t)].status = 0 => buf[t] = platter[t]

Request(t) == Formatted(t) /\ Placed(t) /\ Moved(t)

RequestInv == \A t \in Thread : Busy(t) => Request(t)

SleepInv == FreeSleepers # {} => \E t \in Thread : Busy(t) \/ pc[t] = "alloc"

IInv == TypeOK /\ ThreadInv /\ FreeInv /\ RingInv /\ StageInv /\ RequestInv /\ SleepInv
-----------------------------------------------------------------------------
(* Arithmetic.                                                             *)

\* A set of natural numbers that is not empty has a least element.
LEMMA MinNat ==
  ASSUME NEW T, T \subseteq Nat, T # {}
  PROVE  \E m \in T : \A l \in T : m <= l
<1> DEFINE Lt == {q \in Nat \X Nat : q[1] < q[2]}
<1>1. IsWellFoundedOn(Lt, Nat)
  <2>1. Lt = OpToRel(<, Nat)
    BY Zenon DEF OpToRel
  <2> QED
    BY Zenon, <2>1, NatLessThanWellFounded
<1>2. PICK m \in T : \A l \in T : <<l, m>> \notin Lt
  <2> HIDE DEF Lt
  <2> QED
    BY Zenon, <1>1, WFMin
<1>3. ASSUME NEW l \in T PROVE m <= l
  <2>1. l \in Nat /\ m \in Nat /\ ~(l < m)
    BY Zenon, <1>2
  <2> QED
    BY <2>1
<1> QED
  BY Zenon, <1>3

LEMMA ModRange ==
  ASSUME NEW x \in Nat, NEW d \in Nat \ {0}
  PROVE  x % d \in 0 .. d - 1
  OBVIOUS

LEMMA ModSmall ==
  ASSUME NEW x \in Nat, NEW d \in Nat \ {0}, x < d
  PROVE  x % d = x
  OBVIOUS

LEMMA ModOver ==
  ASSUME NEW x \in Nat, NEW d \in Nat \ {0}, d <= x, x < d + d
  PROVE  x % d = x - d
  OBVIOUS

\* The only multiple of d between -d and d is 0.
LEMMA Multiple ==
  ASSUME NEW d \in Nat \ {0}, NEW k \in Int, -d < d * k, d * k < d
  PROVE  k = 0
<1>1. CASE k >= 1
  <2>1. d * k >= d
    BY <1>1
  <2> QED
    BY <2>1
<1>2. CASE k <= -1
  <2>1. d * k <= -d
    BY <1>2
  <2> QED
    BY <2>1
<1> QED
  BY <1>1, <1>2

LEMMA DivMod ==
  ASSUME NEW x \in Nat, NEW d \in Nat \ {0}
  PROVE  x \div d \in Int /\ x = d * (x \div d) + (x % d) /\ x % d \in 0 .. d - 1
  OBVIOUS

LEMMA ModUnique ==
  ASSUME NEW d \in Nat \ {0}, NEW k \in Int, NEW r \in 0 .. d - 1, NEW x \in Nat, x = d * k + r
  PROVE  x % d = r
<1> DEFINE q == x \div d
<1>1. q \in Int /\ x = d * q + (x % d) /\ x % d \in 0 .. d - 1
  BY Zenon, DivMod
<1> HIDE DEF q
<1>2. d * (k - q) = d * k - d * q
  BY <1>1
<1>3. k - q = 0
  BY <1>1, <1>2, Multiple
<1> QED
  BY <1>1, <1>3

\* Two slots of the ring less than a turn apart differ.
LEMMA ModInj ==
  ASSUME NEW d \in Nat \ {0}, NEW x \in Nat, NEW y \in Nat, x <= y, y < x + d, x % d = y % d
  PROVE  x = y
<1> DEFINE q == x \div d
           k == y \div d
<1>1. q \in Int /\ x = d * q + (x % d) /\ x % d \in 0 .. d - 1
  BY Zenon, DivMod
<1>2. k \in Int /\ y = d * k + (y % d)
  BY Zenon, DivMod
<1> HIDE DEF q, k
<1>3. d * (k - q) = d * k - d * q
  BY <1>1, <1>2
<1>4. k - q = 0
  BY <1>1, <1>2, <1>3, Multiple
<1> QED
  BY <1>1, <1>2, <1>4

\* A turn of the counters is a number of turns of the ring.
LEMMA ModShift ==
  ASSUME NEW d \in Nat \ {0}, NEW u \in Nat, u % d = 0, NEW x \in Nat, u <= x
  PROVE  (x - u) % d = x % d
<1> DEFINE q == x \div d
           k == u \div d
<1>1. q \in Int /\ x = d * q + (x % d) /\ x % d \in 0 .. d - 1
  BY Zenon, DivMod
<1>2. k \in Int /\ u = d * k
  BY DivMod
<1> HIDE DEF q, k
<1>3. d * (q - k) = d * q - d * k
  BY <1>1, <1>2
<1>4. x - u \in Nat /\ x - u = d * (q - k) + (x % d)
  BY <1>1, <1>2, <1>3
<1> DEFINE j == q - k
           r == x % d
           y == x - u
<1>5. j \in Int /\ r \in 0 .. d - 1 /\ y \in Nat /\ y = d * j + r
  BY <1>1, <1>2, <1>4
<1> HIDE DEF j, r, y
<1>6. y % d = r
  BY <1>5, ModUnique
<1> QED
  BY Zenon, <1>6 DEF r, y
-----------------------------------------------------------------------------
(* The rings.                                                              *)

LEMMA Sizes == NUM \in Nat \ {0} /\ NUM >= 3 /\ NUM <= UINT16 /\ UINT16 \in Nat \ {0}
<1>1. NUM \in Nat \ {0} /\ NUM >= 3 /\ UINT16 \in Nat \ {0} /\ UINT16 % NUM = 0
  BY VirtioAssumption
<1>2. UINT16 >= NUM
  BY <1>1, ModSmall
<1> QED
  BY Zenon, <1>1, <1>2

LEMMA SlotType ==
  ASSUME NEW x \in Nat
  PROVE  x % NUM \in Desc
  BY Zenon, Sizes, ModRange DEF Desc

LEMMA AheadIs ==
  ASSUME NEW from \in Index, NEW to \in Index
  PROVE  /\ Ahead(from, to) = IF from <= to THEN to - from ELSE to + UINT16 - from
         /\ Ahead(from, to) \in Index
<1> DEFINE x == to + UINT16 - from
<1>1. x \in Nat
  BY Sizes DEF Index
<1>2. CASE from <= to
  <2>1. UINT16 <= x /\ x < UINT16 + UINT16
    BY <1>2, Sizes DEF Index
  <2> HIDE DEF x
  <2>2. x % UINT16 = x - UINT16
    BY Zenon, <1>1, <2>1, Sizes, ModOver
  <2> QED
    BY <1>2, <2>2, Sizes DEF x, Ahead, Index
<1>3. CASE from > to
  <2>1. x < UINT16
    BY <1>3, Sizes DEF Index
  <2> HIDE DEF x
  <2>2. x % UINT16 = x
    BY Zenon, <1>1, <2>1, Sizes, ModSmall
  <2> QED
    BY <1>3, <1>1, <2>1, <2>2, Sizes DEF x, Ahead, Index
<1> QED
  BY <1>2, <1>3, Sizes DEF Index

\* The index after x.
LEMMA SuccIs ==
  ASSUME NEW x \in Index
  PROVE  /\ (x + 1) % UINT16 = IF x = UINT16 - 1 THEN 0 ELSE x + 1
         /\ (x + 1) % UINT16 \in Index
<1>1. x + 1 \in Nat /\ x + 1 <= UINT16
  BY Sizes DEF Index
<1>2. CASE x + 1 < UINT16
  <2>1. (x + 1) % UINT16 = x + 1
    BY Zenon, <1>1, <1>2, Sizes, ModSmall
  <2> QED
    BY <1>2, <2>1, Sizes DEF Index
<1>3. CASE x + 1 = UINT16
  <2>1. UINT16 % UINT16 = UINT16 - UINT16
    BY Sizes, ModOver
  <2> QED
    BY <1>3, <2>1, Sizes DEF Index
<1> QED
  BY <1>1, <1>2, <1>3, Sizes

\* The slot k entries after from does not depend on the turn of the index.
LEMMA SlotWrap ==
  ASSUME NEW x \in Nat, UINT16 <= x
  PROVE  (x - UINT16) % NUM = x % NUM
  BY Zenon, Sizes, VirtioAssumption, ModShift

\* The first slot after the entries.
LEMMA SlotEnd ==
  ASSUME NEW from \in Index, NEW to \in Index
  PROVE  (from + Ahead(from, to)) % NUM = to % NUM
<1>1. CASE from <= to
  <2>1. from + Ahead(from, to) = to
    BY <1>1, AheadIs, Sizes DEF Index
  <2> QED
    BY Zenon, <2>1
<1>2. CASE from > to
  <2>1. from + Ahead(from, to) = to + UINT16
    BY <1>2, AheadIs, Sizes DEF Index
  <2>2. to + UINT16 \in Nat /\ UINT16 <= to + UINT16 /\ (to + UINT16) - UINT16 = to
    BY Sizes DEF Index
  <2> DEFINE x == to + UINT16
  <2> HIDE DEF x
  <2>3. (x - UINT16) % NUM = x % NUM
    BY Zenon, <2>2, SlotWrap DEF x
  <2> QED
    BY Zenon, <2>1, <2>2, <2>3 DEF x
<1> QED
  BY <1>1, <1>2, Sizes DEF Index

\* Slots less than a turn apart differ.
LEMMA SlotsDiffer ==
  ASSUME NEW from \in Index, NEW k \in Nat, NEW l \in Nat, k < l, l < NUM
  PROVE  (from + k) % NUM # (from + l) % NUM
<1> DEFINE x == from + k
           y == from + l
<1>1. x \in Nat /\ y \in Nat /\ x <= y /\ y < x + NUM /\ x # y
  BY Sizes DEF Index
<1> HIDE DEF x, y
<1>2. x % NUM # y % NUM
  BY Zenon, <1>1, Sizes, ModInj
<1> QED
  BY Zenon, <1>2 DEF x, y

LEMMA AheadZero ==
  ASSUME NEW from \in Index, NEW to \in Index
  PROVE  Ahead(from, to) = 0 <=> from = to
<1>1. PICK w : w = Ahead(from, to)
  BY Zenon
<1>2. w = IF from <= to THEN to - from ELSE to + UINT16 - from
  BY Zenon, <1>1, AheadIs
<1>3. from \in Nat /\ to \in Nat /\ UINT16 \in Nat /\ from < UINT16 /\ to < UINT16
  BY Sizes DEF Index
<1>4. w = 0 <=> from = to
  BY <1>2, <1>3
<1> QED
  BY Zenon, <1>1, <1>4

LEMMA NoEntries ==
  ASSUME NEW r, NEW from \in Index, NEW to \in Index
  PROVE  Entries(r, from, to) = {} <=> from = to
<1>1. Ahead(from, to) = 0 <=> from = to
  BY Zenon, AheadZero
<1>2. Ahead(from, to) \in Nat
  BY AheadIs DEF Index
<1>3. CASE Ahead(from, to) = 0
  BY <1>1, <1>3 DEF Entries
<1>4. CASE Ahead(from, to) # 0
  <2>1. 0 \in 0 .. Ahead(from, to) - 1
    BY <1>2, <1>4
  <2> QED
    BY Zenon, <1>1, <1>4, <2>1 DEF Entries
<1> QED
  BY Zenon, <1>3, <1>4

\* There is room for a chain more: its descriptors are not among the entries.
LEMMA Room ==
  ASSUME NEW r \in [Desc -> Desc], NEW from \in Index, NEW to \in Index,
         Ring(r, from, to),
         NEW i \in Desc, NEW j \in Desc, NEW m \in Desc, i # j, i # m, j # m,
         {i, j, m} \cap Entries(r, from, to) = {}
  PROVE  Ahead(from, to) <= NUM - 3
<1> DEFINE W == Ahead(from, to)
           Slot(k) == (from + k) % NUM
<1> USE Sizes
<1>1. W \in Nat /\ W <= NUM - 2 /\ from \in Nat
  BY AheadIs DEF Ring, Index
<1>2. W <= NUM - 3
  <2> DEFINE D == Desc \ {i, j, m}
             f == [k \in 0 .. W - 1 |-> r[Slot(k)]]
  <2>1. f \in Injection(0 .. W - 1, D)
    <3>1. \A k \in 0 .. W - 1 : r[Slot(k)] \in D
      <4> SUFFICES ASSUME NEW k \in 0 .. W - 1 PROVE r[Slot(k)] \in D
        BY Zenon
      <4>1. Slot(k) \in Desc
        <5>1. from + k \in Nat
          BY <1>1
        <5> QED
          BY Zenon, <5>1, SlotType
      <4>2. r[Slot(k)] \in Entries(r, from, to)
        BY Zenon DEF Entries
      <4> QED
        BY Zenon, <4>1, <4>2
    <3>2. \A k, l \in 0 .. W - 1 : r[Slot(k)] = r[Slot(l)] => k = l
      BY Zenon DEF Ring
    <3> HIDE DEF D, W, Slot
    <3> QED
      BY Zenon, <3>1, <3>2 DEF Injection, IsInjective
  <2>2. IsFiniteSet(Desc) /\ Cardinality(Desc) = NUM
    BY FS_Interval DEF Desc
  <2> DEFINE D1 == Desc \ {i}
             D2 == D1 \ {j}
             D3 == D2 \ {m}
  <2>3. IsFiniteSet(D1) /\ Cardinality(D1) = NUM - 1 /\ j \in D1
    BY Zenon, <2>2, FS_RemoveElement
  <2>4. IsFiniteSet(D2) /\ Cardinality(D2) = NUM - 2 /\ m \in D2
    <3> HIDE DEF D1
    <3>1. IsFiniteSet(D2) /\ Cardinality(D2) = NUM - 2
      BY <2>3, FS_RemoveElement
    <3> QED
      BY Zenon, <3>1 DEF D1
  <2>5. IsFiniteSet(D3) /\ Cardinality(D3) = NUM - 3
    <3> HIDE DEF D2
    <3> QED
      BY <2>4, FS_RemoveElement
  <2>6. D = D3
    BY Zenon
  <2>7. IsFiniteSet(D) /\ Cardinality(D) = NUM - 3
    BY Zenon, <2>5, <2>6
  <2> HIDE DEF D, f
  <2>8. Cardinality(0 .. W - 1) <= NUM - 3
    BY <2>1, <2>7, FS_Injection
  <2>9. Cardinality(0 .. W - 1) = W
    <3> HIDE DEF W
    <3>1. 0 \in Int /\ W - 1 \in Int
      BY <1>1
    <3>2. Cardinality(0 .. W - 1) = IF 0 > W - 1 THEN 0 ELSE (W - 1) - 0 + 1
      BY ONLY Zenon, <3>1, FS_Interval
    <3> QED
      BY <1>1, <3>2
  <2> QED
    BY Zenon, <2>8, <2>9
<1> QED
  BY Zenon, <1>2

\* An entry is added.
LEMMA Push ==
  ASSUME NEW r \in [Desc -> Desc], NEW from \in Index, NEW to \in Index,
         Ring(r, from, to), Ahead(from, to) <= NUM - 3,
         NEW i \in Desc, i \notin Entries(r, from, to),
         NEW s \in [Desc -> Desc], s[to % NUM] = i,
         \A x \in Desc : x # to % NUM => s[x] = r[x],
         NEW end, end = (to + 1) % UINT16
  PROVE  /\ Ring(s, from, end)
         /\ Entries(s, from, end) = Entries(r, from, to) \cup {i}
<1> DEFINE W == Ahead(from, to)
           Slot(k) == (from + k) % NUM
<1> USE Sizes
<1>1. W \in Nat /\ W <= NUM - 2 /\ from \in Nat
  BY AheadIs DEF Ring, Index
<1>2. W <= NUM - 3
  BY Zenon
<1>3. Ahead(from, end) = W + 1
  <2>1. end = IF to = UINT16 - 1 THEN 0 ELSE to + 1
    BY Zenon, SuccIs
  <2>2. end \in Index
    BY Zenon, SuccIs
  <2>3. W = IF from <= to THEN to - from ELSE to + UINT16 - from
    BY Zenon, AheadIs
  <2>4. Ahead(from, end) = IF from <= end THEN end - from ELSE end + UINT16 - from
    BY Zenon, <2>2, AheadIs
  <2> HIDE DEF W
  <2>5. CASE to = UINT16 - 1
    BY <1>1, <1>2, <2>1, <2>3, <2>4, <2>5 DEF Index
  <2>6. CASE to # UINT16 - 1
    BY <1>1, <1>2, <2>1, <2>3, <2>4, <2>6 DEF Index
  <2> QED
    BY Zenon, <2>5, <2>6
<1>4. s[Slot(W)] = i
  BY Zenon, SlotEnd
<1>5. \A k \in 0 .. W - 1 : s[Slot(k)] = r[Slot(k)]
  <2> SUFFICES ASSUME NEW k \in 0 .. W - 1 PROVE s[Slot(k)] = r[Slot(k)]
    BY Zenon
  <2>1. Slot(k) \in Desc
    <3>1. from + k \in Nat
      BY <1>1
    <3> QED
      BY Zenon, <3>1, SlotType
  <2>2. k \in Nat /\ k < W /\ W < NUM
    BY <1>1
  <2>3. Slot(k) # Slot(W)
    BY Zenon, <1>1, <2>2, SlotsDiffer
  <2> QED
    BY <2>1, <2>3, SlotEnd
<1>6. 0 .. (W + 1) - 1 = (0 .. W - 1) \cup {W}
  BY <1>1
<1>7. Entries(r, from, to) = {r[Slot(k)] : k \in 0 .. W - 1}
  BY Zenon DEF Entries
<1>8. Entries(s, from, end) = {s[Slot(k)] : k \in 0 .. (W + 1) - 1}
  BY Zenon, <1>3 DEF Entries
<1>9. \A k, l \in 0 .. W - 1 : r[Slot(k)] = r[Slot(l)] => k = l
  BY Zenon DEF Ring
<1>10. Ring(s, from, end) <=> /\ W + 1 <= NUM - 2
                             /\ \A k, l \in 0 .. (W + 1) - 1 : s[Slot(k)] = s[Slot(l)] => k = l
  BY Zenon, <1>3 DEF Ring
<1> HIDE DEF W, Slot
<1>11. Entries(s, from, end) = Entries(r, from, to) \cup {i}
  BY <1>4, <1>5, <1>6, <1>7, <1>8
<1>12. \A k, l \in (0 .. W - 1) \cup {W} : s[Slot(k)] = s[Slot(l)] => k = l
  BY <1>4, <1>5, <1>7, <1>9
<1> QED
  BY <1>1, <1>2, <1>6, <1>10, <1>11, <1>12

\* The first entry is taken.
LEMMA Pop ==
  ASSUME NEW r \in [Desc -> Desc], NEW from \in Index, NEW to \in Index, from # to,
         Ring(r, from, to),
         NEW s \in [Desc -> Desc], \A x \in Desc : x # from % NUM => s[x] = r[x],
         NEW next, next = (from + 1) % UINT16
  PROVE  /\ r[from % NUM] \in Entries(r, from, to)
         /\ Ring(s, next, to)
         /\ Entries(s, next, to) = Entries(r, from, to) \ {r[from % NUM]}
<1> DEFINE W == Ahead(from, to)
           Slot(k) == (from + k) % NUM
<1> USE Sizes
<1>1. W \in Nat /\ W <= NUM - 2 /\ from \in Nat
  BY AheadIs DEF Ring, Index
<1>2. W # 0
  BY Zenon, AheadZero
<1>3. Ahead(next, to) = W - 1
  <2>1. next = IF from = UINT16 - 1 THEN 0 ELSE from + 1
    BY Zenon, SuccIs
  <2>2. next \in Index
    BY Zenon, SuccIs
  <2>3. W = IF from <= to THEN to - from ELSE to + UINT16 - from
    BY Zenon, AheadIs
  <2>4. Ahead(next, to) = IF next <= to THEN to - next ELSE to + UINT16 - next
    BY Zenon, <2>2, AheadIs
  <2> HIDE DEF W
  <2>5. CASE from = UINT16 - 1
    BY <1>1, <1>2, <2>1, <2>3, <2>4, <2>5 DEF Index
  <2>6. CASE from # UINT16 - 1
    BY <1>1, <1>2, <2>1, <2>3, <2>4, <2>6 DEF Index
  <2> QED
    BY Zenon, <2>5, <2>6
<1>4. \A k \in 0 .. W - 2 : (next + k) % NUM = Slot(k + 1)
  <2> SUFFICES ASSUME NEW k \in 0 .. W - 2 PROVE (next + k) % NUM = Slot(k + 1)
    BY Zenon
  <2>1. k \in Nat
    BY <1>1
  <2>2. CASE from = UINT16 - 1
    <3> DEFINE x == from + (k + 1)
    <3>1. next = 0 /\ x \in Nat /\ UINT16 <= x /\ x - UINT16 = next + k
      BY <1>1, <2>1, <2>2, SuccIs
    <3> HIDE DEF x
    <3>2. (x - UINT16) % NUM = x % NUM
      BY Zenon, <3>1, SlotWrap
    <3> QED
      BY Zenon, <3>1, <3>2 DEF x
  <2>3. CASE from # UINT16 - 1
    <3>1. next = from + 1
      BY Zenon, <2>3, SuccIs
    <3>2. next + k = from + (k + 1)
      BY <1>1, <2>1, <3>1
    <3> QED
      BY Zenon, <3>2
  <2> QED
    BY Zenon, <2>2, <2>3
<1>5. \A k \in 1 .. W - 1 : s[Slot(k)] = r[Slot(k)]
  <2> SUFFICES ASSUME NEW k \in 1 .. W - 1 PROVE s[Slot(k)] = r[Slot(k)]
    BY Zenon
  <2>1. k \in Nat /\ 0 < k /\ k < NUM
    BY <1>1
  <2>2. Slot(k) \in Desc
    <3>1. from + k \in Nat
      BY <1>1, <2>1
    <3> QED
      BY Zenon, <3>1, SlotType
  <2>3. Slot(0) # Slot(k)
    BY Zenon, <2>1, SlotsDiffer
  <2>4. Slot(0) = from % NUM
    BY <1>1
  <2> QED
    BY Zenon, <2>2, <2>3, <2>4
<1>6. Slot(0) = from % NUM
  BY <1>1
<1>7. Entries(r, from, to) = {r[Slot(k)] : k \in 0 .. W - 1}
  BY Zenon DEF Entries
<1>8. Entries(s, next, to) = {s[(next + k) % NUM] : k \in 0 .. W - 2}
  <2>1. (W - 1) - 1 = W - 2
    BY <1>1
  <2> QED
    BY Zenon, <1>3, <2>1 DEF Entries
<1>9. \A k, l \in 0 .. W - 1 : r[Slot(k)] = r[Slot(l)] => k = l
  BY Zenon DEF Ring
<1>10. Ring(s, next, to) <=>
         /\ W - 1 <= NUM - 2
         /\ \A k, l \in 0 .. W - 2 : s[(next + k) % NUM] = s[(next + l) % NUM] => k = l
  <2>1. (W - 1) - 1 = W - 2
    BY <1>1
  <2> QED
    BY Zenon, <1>3, <2>1 DEF Ring
<1> DEFINE Shifted(k) == (next + k) % NUM
<1>11. \A k \in 0 .. W - 2 : s[Shifted(k)] = r[Slot(k + 1)]
  <2> SUFFICES ASSUME NEW k \in 0 .. W - 2 PROVE s[Shifted(k)] = r[Slot(k + 1)]
    BY Zenon
  <2>1. k + 1 \in 1 .. W - 1
    BY <1>1
  <2> HIDE DEF W
  <2> QED
    BY Zenon, <1>4, <1>5, <2>1
<1>12. Entries(s, next, to) = {s[Shifted(k)] : k \in 0 .. W - 2}
  BY Zenon, <1>8
<1>13. Ring(s, next, to) <=>
         /\ W - 1 <= NUM - 2
         /\ \A k, l \in 0 .. W - 2 : s[Shifted(k)] = s[Shifted(l)] => k = l
  BY Zenon, <1>10
<1> HIDE DEF W, Slot, Shifted
<1>14. 0 \in 0 .. W - 1 /\ \A k \in 0 .. W - 2 : k + 1 \in 0 .. W - 1 /\ k + 1 # 0
  BY <1>1, <1>2
<1>15. \A k \in 0 .. W - 1 : k # 0 => k - 1 \in 0 .. W - 2 /\ (k - 1) + 1 = k
  BY <1>1
<1>16. \A e : e \in Entries(s, next, to) <=> e \in Entries(r, from, to) \ {r[Slot(0)]}
  <2>1. ASSUME NEW e, e \in Entries(s, next, to)
        PROVE  e \in Entries(r, from, to) \ {r[Slot(0)]}
    <3>1. PICK k \in 0 .. W - 2 : e = s[Shifted(k)]
      BY Zenon, <1>12, <2>1
    <3>2. e = r[Slot(k + 1)]
      BY Zenon, <1>11, <3>1
    <3> QED
      BY Zenon, <1>7, <1>9, <1>14, <3>2
  <2>2. ASSUME NEW e, e \in Entries(r, from, to), e # r[Slot(0)]
        PROVE  e \in Entries(s, next, to)
    <3>1. PICK k \in 0 .. W - 1 : e = r[Slot(k)]
      BY Zenon, <1>7, <2>2
    <3>2. PICK l \in 0 .. W - 2 : l + 1 = k
      BY Zenon, <1>15, <2>2, <3>1
    <3>3. e = s[Shifted(l)]
      BY Zenon, <1>11, <3>1, <3>2
    <3> QED
      BY Zenon, <1>12, <3>3
  <2> QED
    BY Zenon, <2>1, <2>2
<1>17. Ring(s, next, to)
  <2>1. \A k, l \in 0 .. W - 2 : s[Shifted(k)] = s[Shifted(l)] => k = l
    <3> SUFFICES ASSUME NEW k \in 0 .. W - 2, NEW l \in 0 .. W - 2, s[Shifted(k)] = s[Shifted(l)]
                 PROVE  k = l
      BY Zenon
    <3>1. k + 1 = l + 1
      BY Zenon, <1>9, <1>11, <1>14
    <3> QED
      BY <1>1, <3>1
  <2> QED
    BY <1>1, <1>13, <2>1
<1> QED
  BY Zenon, <1>6, <1>7, <1>14, <1>16, <1>17
-----------------------------------------------------------------------------
(* The descriptors.                                                        *)

LEMMA RangeEmpty == Range(<<>>) = {}
  BY DEF Range

LEMMA RangeTriple ==
  ASSUME NEW h, NEW m, NEW l
  PROVE  Range(<<h, m, l>>) = {h, m, l} /\ <<h, m, l>> # <<>>
<1>1. DOMAIN <<h, m, l>> = {1, 2, 3}
  OBVIOUS
<1>2. Range(<<h, m, l>>) = {h, m, l}
  BY <1>1 DEF Range
<1> QED
  BY Zenon, <1>1, <1>2

\* The lowest of a set of descriptors.
LEMMA MinIs ==
  ASSUME NEW T \in SUBSET Desc, T # {}
  PROVE  Min(T) \in T
<1>1. T \subseteq Nat
  BY Sizes DEF Desc
<1>2. \E m \in T : \A l \in T : m <= l
  BY Zenon, <1>1, MinNat
<1> QED
  BY Zenon, <1>2 DEF Min

LEMMA DescFinite ==
  ASSUME NEW T \in SUBSET Desc
  PROVE  IsFiniteSet(T) /\ Cardinality(T) \in Nat
<1>1. IsFiniteSet(Desc)
  BY Sizes, FS_Interval DEF Desc
<1>2. IsFiniteSet(T)
  BY Zenon, <1>1, FS_Subset
<1> QED
  BY Zenon, <1>2, FS_CardinalityType

\* alloc3_desc() gets three free descriptors.
LEMMA Alloc ==
  ASSUME free \in SUBSET Desc, Cardinality(free) >= 3
  PROVE  \E h, m, l \in free : h # m /\ h # l /\ m # l /\ alloc3_desc = <<h, m, l>>
<1> DEFINE h == Min(free)
           F1 == free \ {h}
           m == Min(F1)
           F2 == F1 \ {m}
           l == Min(F2)
<1>1. h \in free
  <2>1. free # {}
    BY FS_EmptySet
  <2> QED
    BY Zenon, <2>1, MinIs
<1>2. F1 \in SUBSET Desc /\ Cardinality(F1) >= 2
  <2> HIDE DEF h
  <2> QED
    BY <1>1, DescFinite, FS_RemoveElement
<1>3. m \in F1
  <2> HIDE DEF F1
  <2>1. F1 # {}
    BY <1>2, FS_EmptySet
  <2> QED
    BY Zenon, <1>2, <2>1, MinIs
<1>4. F2 \in SUBSET Desc /\ Cardinality(F2) >= 1
  <2> HIDE DEF F1, m
  <2> QED
    BY <1>2, <1>3, DescFinite, FS_RemoveElement
<1>5. l \in F2
  <2> HIDE DEF F2
  <2>1. F2 # {}
    BY <1>4, FS_EmptySet
  <2> QED
    BY Zenon, <1>4, <2>1, MinIs
<1>6. F2 = free \ {h, m}
  BY Zenon
<1>7. alloc3_desc = <<h, m, l>>
  BY Zenon, <1>6 DEF alloc3_desc
<1> HIDE DEF h, m, l
<1> QED
  BY Zenon, <1>1, <1>3, <1>5, <1>7

\* free is what no chain has.
LEMMA FreeIs ==
  ASSUME NEW f, NEW i
  PROVE  /\ f = Desc \ UNION {Range(i[t]) : t \in Thread}
              => \A x : x \in f <=> x \in Desc /\ \A t \in Thread : x \notin Range(i[t])
         /\ (\A x : x \in f <=> x \in Desc /\ \A t \in Thread : x \notin Range(i[t]))
              => f = Desc \ UNION {Range(i[t]) : t \in Thread}
  BY Zenon


\* The descriptors of a chain.
LEMMA ChainOf ==
  ASSUME ThreadsOK, NEW t \in Thread
  PROVE  /\ Busy(t) => /\ \E h, m, l \in Desc : idx[t] = <<h, m, l>> /\ Chain(t) = {h, m, l}
                       /\ HeadOf(t) \in Chain(t) /\ Chain(t) \subseteq Desc
                       /\ Range(idx[t]) = Chain(t)
         /\ ~Busy(t) => Range(idx[t]) = {}
<1>1. CASE Busy(t)
  <2>1. PICK h \in Desc, m \in Desc, l \in Desc : idx[t] = <<h, m, l>>
    BY <1>1 DEF ThreadsOK, Busy
  <2>2. Chain(t) = {h, m, l} /\ HeadOf(t) = h
    BY <2>1 DEF Chain, HeadOf
  <2> QED
    BY <1>1, <2>1, <2>2, RangeTriple
<1>2. CASE ~Busy(t)
  BY Zenon, <1>2, RangeEmpty DEF Busy
<1> QED
  BY Zenon, <1>1, <1>2

\* The chains of two threads have no descriptor in common, and no free one.
LEMMA Apart ==
  ASSUME IInv
  PROVE  /\ \A t, u \in Thread : t # u /\ Busy(t) /\ Busy(u) => Chain(t) \cap Chain(u) = {}
         /\ \A t \in Thread : Busy(t) => /\ Chain(t) \cap free = {} /\ Chain(t) \subseteq Desc
                                         /\ HeadOf(t) \in Chain(t)
<1>1. \A t \in Thread : Busy(t) => /\ Range(idx[t]) = Chain(t) /\ HeadOf(t) \in Chain(t)
                                   /\ Chain(t) \subseteq Desc
  BY Zenon, ChainOf DEF IInv, TypeOK
<1>2. /\ \A t, u \in Thread : t # u => Range(idx[t]) \cap Range(idx[u]) = {}
      /\ \A t \in Thread : Range(idx[t]) \cap free = {}
  BY Zenon DEF IInv, FreeInv
<1> QED
  BY Zenon, <1>1, <1>2

\* When descriptors are short, somebody has some.
LEMMA SomebodyBusy ==
  ASSUME IInv, Cardinality(free) < 3
  PROVE  \E t \in Thread : Busy(t)
<1> SUFFICES ASSUME \A t \in Thread : ~Busy(t) PROVE FALSE
  BY Zenon
<1>1. \A t \in Thread : Range(idx[t]) = {}
  BY Zenon, ChainOf DEF IInv, TypeOK
<1>2. free = Desc
  BY Zenon, <1>1 DEF IInv, FreeInv
<1>3. Cardinality(Desc) = NUM
  BY Sizes, FS_Interval DEF Desc
<1> QED
  BY <1>2, <1>3, Sizes

LEMMA SlotIn ==
  ASSUME NEW x \in Index
  PROVE  x % NUM \in Desc /\ 0 \in Desc /\ (x + 1) % UINT16 \in Index
<1>1. x \in Nat
  BY Sizes DEF Index
<1>2. 0 \in Desc
  BY Sizes DEF Desc
<1> QED
  BY Zenon, <1>1, <1>2, SlotType, SuccIs

LEMMA EntriesType ==
  ASSUME RingsOK
  PROVE  Offered \subseteq Desc /\ Returned \subseteq Desc /\ fetched \subseteq Desc
<1>1. ASSUME NEW r \in [Desc -> Desc], NEW from \in Index, NEW to \in Index
      PROVE  Entries(r, from, to) \subseteq Desc
  <2>1. ASSUME NEW k \in 0 .. Ahead(from, to) - 1 PROVE (from + k) % NUM \in Desc
    <3>1. from + k \in Nat
      BY AheadIs DEF Index
    <3> QED
      BY Zenon, <3>1, SlotType
  <2> QED
    BY Zenon, <2>1 DEF Entries
<1> QED
  BY Zenon, <1>1 DEF RingsOK, Offered, Returned
-----------------------------------------------------------------------------
LEMMA InitIInv == Init => IInv
<1> SUFFICES ASSUME Init PROVE IInv
  BY Zenon
<1> USE Sizes DEF Init, Busy
<1>0. 0 \in Desc /\ 0 \in Index
  BY DEF Desc, Index
<1>1. TypeOK
  BY Zenon, <1>0 DEF TypeOK, QueueOK, RingsOK, ThreadsOK, NoDesc, NoOp
<1>2. ThreadInv /\ RequestInv /\ SleepInv
  BY Zenon DEF ThreadInv, RequestInv, SleepInv, FreeSleepers
<1>3. FreeInv
  BY Zenon, RangeEmpty DEF FreeInv
<1>4. Offered = {} /\ Returned = {}
  BY Zenon, <1>0, NoEntries DEF Offered, Returned
<1>5. RingInv
  BY <1>0, AheadZero DEF RingInv, Ring
<1>6. StageInv
  BY Zenon, <1>4 DEF StageInv
<1> QED
  BY Zenon, <1>1, <1>2, <1>3, <1>5, <1>6 DEF IInv

LEMMA SameFormat ==
  ASSUME NEW t, Formatted(t), idx'[t] = idx[t], write'[t] = write[t],
         \A i \in Chain(t) : desc'[i] = desc[i],
         ops'[HeadOf(t)] = ops[HeadOf(t)], info'[HeadOf(t)].b = info[HeadOf(t)].b
  PROVE  Formatted(t)'
<1>1. PICK h, m, l : h = idx[t][1] /\ m = idx[t][2] /\ l = idx[t][3]
  BY Zenon
<1>2. /\ desc'[h] = desc[h] /\ desc'[m] = desc[m] /\ desc'[l] = desc[l]
      /\ ops'[h] = ops[h] /\ info'[h].b = info[h].b
  BY Zenon, <1>1 DEF Chain, HeadOf
<1>3. Format(t, h, m, l)
  BY Zenon, <1>1 DEF Formatted
<1>4. Format(t, h, m, l)'
  BY ONLY Zenon, <1>2, <1>3, write'[t] = write[t] DEF Format, DataFlags
<1> QED
  BY Zenon, <1>1, <1>4 DEF Formatted, Format, DataFlags

\* A request stays what it is while nobody touches its thread, its descriptors, its command
\* or its buffer, and it leaves none of the places where a request can be.
LEMMA Bystander ==
  ASSUME NEW t \in Thread, Busy(t), Request(t),
         idx'[t] = idx[t], disk'[t] = disk[t], write'[t] = write[t],
         buf'[t] = buf[t], platter'[t] = platter[t],
         \A i \in Chain(t) : desc'[i] = desc[i],
         ops'[HeadOf(t)] = ops[HeadOf(t)], info'[HeadOf(t)] = info[HeadOf(t)],
         HeadOf(t) \in Offered \cup fetched => HeadOf(t) \in Offered' \cup fetched',
         HeadOf(t) \in Returned => HeadOf(t) \in Returned'
  PROVE  Request(t)'
<1>1. HeadOf(t)' = HeadOf(t)
  BY Zenon DEF HeadOf
<1>4. Formatted(t)'
  BY Zenon, SameFormat DEF Request
<1>5. Placed(t)'
  BY Zenon, <1>1 DEF Request, Placed
<1>6. Moved(t)'
  BY Zenon, <1>1 DEF Request, Moved
<1> QED
  BY Zenon, <1>4, <1>5, <1>6 DEF Request

\* A thread that waits for a chain goes on waiting for it.
LEMMA StillWaited ==
  ASSUME NEW i, Waited(i), info'[i].b = info[i].b, idx'[info[i].b] = idx[info[i].b],
         disk'[info[i].b] = disk[info[i].b]
  PROVE  Waited(i)'
  BY Zenon DEF Waited, Busy, HeadOf

\* The same entries are in the rings as long as the rings are left alone.
LEMMA SameRings ==
  /\ avail'.ring = avail.ring /\ avail'.idx = avail.idx /\ next_avail' = next_avail => Offered' = Offered
  /\ used' = used /\ used_idx' = used_idx => Returned' = Returned
  BY Zenon DEF Offered, Returned, Entries, Ahead

LEMMA NextRings ==
  ASSUME NEW r, NEW from, NEW to
  PROVE  /\ avail'.ring = r /\ next_avail' = from /\ avail'.idx = to /\ Ring(r, from, to)
              => Ring(avail.ring, next_avail, avail.idx)'
         /\ used'.ring = r /\ used_idx' = from /\ used'.idx = to /\ Ring(r, from, to)
              => Ring(used.ring, used_idx, used.idx)'
  BY Zenon DEF Ring, Ahead

\* A step that leaves the requests and the rings as they are.
LEMMA Quiet ==
  ASSUME IInv, UNCHANGED <<free, desc, ops, info, avail, next_avail, fetched, used, used_idx, disk, idx>>,
         RingsOK', ThreadsOK', ThreadInv', SleepInv',
         \A t \in Thread : Busy(t) => write'[t] = write[t] /\ buf'[t] = buf[t] /\ platter'[t] = platter[t],
         Returned # {} => irq' \/ intr'
  PROVE  IInv'
<1>1. Offered' = Offered /\ Returned' = Returned
  BY Zenon, SameRings
<1>2. QueueOK'
  BY Zenon DEF IInv, TypeOK, QueueOK
<1>3. FreeInv' /\ RingInv'
  BY DEF IInv, FreeInv, RingInv, Ring, Ahead
<1>4. \A i : InFlight(i)' = InFlight(i) /\ Answered(i)' = Answered(i)
  BY Zenon DEF InFlight, Answered, Waited, Busy, HeadOf
<1>5. StageInv'
  BY Zenon, <1>1, <1>4 DEF IInv, StageInv
<1>6. RequestInv'
  BY Zenon, <1>1, Bystander DEF IInv, RequestInv, Busy
<1> QED
  BY Zenon, <1>2, <1>3, <1>5, <1>6 DEF IInv, TypeOK

\* The buffer of a thread without a request changes.
LEMMA Step_call ==
  ASSUME IInv, NEW t \in Thread, NEW w \in BOOLEAN, NEW v \in Data[t], call(t, w, v)
  PROVE  IInv'
<1> UNCHANGED <<free, desc, ops, info, avail, next_avail, fetched, used, used_idx, disk, idx,
                platter, irq, intr>>
  BY Zenon DEF call, queue, device
<1>1. RingsOK' /\ ThreadsOK'
  BY Zenon DEF IInv, TypeOK, RingsOK, ThreadsOK, call, Step
<1>2. ThreadInv' /\ SleepInv'
  BY Zenon DEF IInv, TypeOK, ThreadsOK, ThreadInv, SleepInv, FreeSleepers, Busy, call, Step
<1>3. \A u \in Thread : Busy(u) => write'[u] = write[u] /\ buf'[u] = buf[u]
  BY Zenon DEF IInv, TypeOK, ThreadsOK, ThreadInv, call
<1> QED
  BY Zenon, <1>1, <1>2, <1>3, Quiet DEF IInv, StageInv

\* Descriptors are short: the thread sleeps.
LEMMA Step_alloc_fail ==
  ASSUME IInv, NEW t \in Thread, alloc_fail(t)
  PROVE  IInv'
<1> UNCHANGED <<free, desc, ops, info, avail, next_avail, fetched, used, used_idx, disk, idx,
                platter, irq, intr, buf, write>>
  BY Zenon DEF alloc_fail, queue, device
<1>1. RingsOK' /\ ThreadsOK'
  BY Zenon DEF IInv, TypeOK, RingsOK, ThreadsOK, alloc_fail, Step, FreeSleepers
<1>2. ThreadInv'
  BY Zenon DEF IInv, TypeOK, ThreadsOK, ThreadInv, Busy, alloc_fail, Step, FreeSleepers
<1>3. SleepInv'
  BY Zenon, SomebodyBusy DEF SleepInv, Busy, alloc_fail
<1> QED
  BY Zenon, <1>1, <1>2, <1>3, Quiet DEF IInv, StageInv

\* The request is not done: the thread sleeps again.
LEMMA Step_again ==
  ASSUME IInv, NEW t \in Thread, again(t)
  PROVE  IInv'
<1> UNCHANGED <<free, desc, ops, info, avail, next_avail, fetched, used, used_idx, disk, idx,
                platter, irq, intr, buf, write>>
  BY Zenon DEF again, queue, device
<1>1. RingsOK' /\ ThreadsOK'
  BY Zenon DEF IInv, TypeOK, RingsOK, ThreadsOK, again, Step
<1>2. ThreadInv' /\ SleepInv'
  BY Zenon DEF IInv, TypeOK, ThreadsOK, ThreadInv, SleepInv, FreeSleepers, Busy, again, Finished, Step
<1> QED
  BY Zenon, <1>1, <1>2, Quiet DEF IInv, StageInv

\* A sleeper runs.
LEMMA Step_kill ==
  ASSUME IInv, NEW t \in Thread, kill(t)
  PROVE  IInv'
<1> UNCHANGED <<free, desc, ops, info, avail, next_avail, fetched, used, used_idx, disk, idx,
                platter, irq, intr, buf, write>>
  BY Zenon DEF kill, queue, device
<1>1. RingsOK' /\ ThreadsOK'
  BY Zenon DEF IInv, TypeOK, RingsOK, ThreadsOK, kill
<1>2. ThreadInv' /\ SleepInv'
  BY Zenon DEF IInv, TypeOK, ThreadsOK, ThreadInv, SleepInv, FreeSleepers, Busy, kill
<1> QED
  BY Zenon, <1>1, <1>2, Quiet DEF IInv, StageInv

\* The handler starts.
LEMMA Step_intr_ack ==
  ASSUME IInv, intr_ack
  PROVE  IInv'
<1> UNCHANGED <<free, desc, ops, info, avail, next_avail, fetched, used, used_idx, disk, idx,
                platter, buf, write, pc>> /\ intr' = TRUE /\ irq' = FALSE
  BY Zenon DEF intr_ack, queue
<1>1. RingsOK' /\ ThreadsOK'
  BY Zenon DEF IInv, TypeOK, RingsOK, ThreadsOK
<1>2. ThreadInv' /\ SleepInv'
  BY Zenon DEF IInv, ThreadInv, SleepInv, FreeSleepers, Busy
<1> QED
  BY Zenon, <1>1, <1>2, Quiet

\* The handler is done: the used ring is empty.
LEMMA Step_intr_done ==
  ASSUME IInv, intr_done
  PROVE  IInv'
<1> UNCHANGED <<free, desc, ops, info, avail, next_avail, fetched, used, used_idx, disk, idx,
                platter, buf, write, pc, irq>> /\ intr' = FALSE /\ used_idx = used.idx
  BY Zenon DEF intr_done, LoopEnds, queue, device
<1>1. RingsOK' /\ ThreadsOK'
  BY Zenon DEF IInv, TypeOK, RingsOK, ThreadsOK
<1>2. ThreadInv' /\ SleepInv'
  BY Zenon DEF IInv, ThreadInv, SleepInv, FreeSleepers, Busy
<1>3. Returned = {}
  BY Zenon, NoEntries DEF IInv, TypeOK, RingsOK, Returned
<1> QED
  BY Zenon, <1>1, <1>2, <1>3, Quiet

\* The device takes the first chain that is offered.
LEMMA Step_fetch ==
  ASSUME IInv, fetch
  PROVE  IInv'
<1> UNCHANGED <<free, desc, ops, info, used, used_idx, disk, idx, write, pc, irq, intr, buf, platter>>
  BY Zenon DEF fetch
<1>1. PICK r \in [Desc -> Desc], from \in Index, to \in Index :
        /\ r = avail.ring /\ from = next_avail /\ to = avail.idx
        /\ from # to /\ Ring(r, from, to) /\ Offered = Entries(r, from, to)
  BY Zenon DEF IInv, TypeOK, RingsOK, RingInv, Offered, fetch
<1>2. from % NUM \in Desc /\ 0 \in Desc /\ (from + 1) % UINT16 \in Index
  BY Zenon, SlotIn
<1>3. PICK h \in Desc, s \in [Desc -> Desc], next \in Index :
        /\ h = r[from % NUM] /\ s = [r EXCEPT ![from % NUM] = 0] /\ next = (from + 1) % UINT16
  BY Zenon, <1>2
<1>4. avail' = [ring |-> s, idx |-> to] /\ next_avail' = next /\ fetched' = fetched \cup {h}
  BY Zenon, <1>1, <1>3 DEF IInv, TypeOK, RingsOK, fetch
<1>5. h \in Offered /\ Ring(s, next, to) /\ Entries(s, next, to) = Offered \ {h}
  <2>1. \A x \in Desc : x # from % NUM => s[x] = r[x]
    BY Zenon, <1>3
  <2>2. /\ r[from % NUM] \in Entries(r, from, to) /\ Ring(s, next, to)
        /\ Entries(s, next, to) = Entries(r, from, to) \ {r[from % NUM]}
    BY ONLY <1>1, <1>3, <2>1, Pop, r \in [Desc -> Desc], from \in Index, to \in Index
  <2> QED
    BY Zenon, <1>1, <1>3, <2>2
<1>6. Offered' = Offered \ {h} /\ Returned' = Returned
  BY <1>4, <1>5, SameRings DEF Offered, Entries, Ahead
<1>7. QueueOK' /\ ThreadsOK' /\ ThreadInv' /\ SleepInv'
  BY Zenon DEF IInv, TypeOK, QueueOK, ThreadsOK, ThreadInv, SleepInv, FreeSleepers, Busy
<1>8. RingsOK'
  BY Zenon, <1>4 DEF IInv, TypeOK, RingsOK
<1>9. FreeInv' /\ RingInv'
  BY <1>4, <1>5 DEF IInv, FreeInv, RingInv, Ring, Ahead
<1>10. \A i : InFlight(i)' = InFlight(i) /\ Answered(i)' = Answered(i)
  BY Zenon DEF InFlight, Answered, Waited, Busy, HeadOf
<1>11. StageInv'
  BY Zenon, <1>4, <1>5, <1>6, <1>10 DEF IInv, StageInv
<1>12. RequestInv'
  BY Zenon, <1>4, <1>6, Bystander DEF IInv, RequestInv, Busy
<1> QED
  BY Zenon, <1>7, <1>8, <1>9, <1>11, <1>12 DEF IInv, TypeOK

\* The handler takes the first chain that was returned.
LEMMA Step_intr_loop ==
  ASSUME IInv, intr_loop
  PROVE  IInv'
<1> UNCHANGED <<free, desc, ops, info, avail, next_avail, fetched, idx, write, irq, intr, buf, platter>>
  BY Zenon DEF intr_loop, queue
<1>1. PICK r \in [Desc -> Desc], from \in Index, to \in Index :
        /\ r = used.ring /\ from = used_idx /\ to = used.idx
        /\ from # to /\ Ring(r, from, to) /\ Returned = Entries(r, from, to)
  BY Zenon DEF IInv, TypeOK, RingsOK, RingInv, Returned, intr_loop
<1>2. from % NUM \in Desc /\ 0 \in Desc /\ (from + 1) % UINT16 \in Index
  BY Zenon, SlotIn
<1>3. PICK h \in Desc, s \in [Desc -> Desc], next \in Index :
        /\ h = r[from % NUM] /\ s = [r EXCEPT ![from % NUM] = 0] /\ next = (from + 1) % UINT16
  BY Zenon, <1>2
<1>4. h = Id /\ used' = [ring |-> s, idx |-> to] /\ used_idx' = next
  BY Zenon, <1>1, <1>3 DEF IInv, TypeOK, RingsOK, intr_loop, Id
<1>5. h \in Returned /\ Ring(s, next, to) /\ Entries(s, next, to) = Returned \ {h}
  <2>1. \A x \in Desc : x # from % NUM => s[x] = r[x]
    BY Zenon, <1>3
  <2>2. /\ r[from % NUM] \in Entries(r, from, to) /\ Ring(s, next, to)
        /\ Entries(s, next, to) = Entries(r, from, to) \ {r[from % NUM]}
    BY ONLY <1>1, <1>3, <2>1, Pop, r \in [Desc -> Desc], from \in Index, to \in Index
  <2> QED
    BY Zenon, <1>1, <1>3, <2>2
<1>6. Offered' = Offered /\ Returned' = Returned \ {h}
  BY <1>4, <1>5, SameRings DEF Returned, Entries, Ahead
<1>7. PICK t \in Thread : t = info[h].b /\ disk[t] /\ Busy(t) /\ HeadOf(t) = h /\ info[h].status = 0
  BY Zenon, <1>5 DEF IInv, StageInv, Answered, Waited
<1>8. /\ disk' = [disk EXCEPT ![t] = FALSE]
      /\ pc' = [u \in Thread |-> IF u = t /\ pc[u] = "sleep_buf" THEN "check" ELSE pc[u]]
  BY Zenon, <1>4, <1>7 DEF intr_loop
<1>9. ~disk'[t] /\ \A u \in Thread : u # t => disk'[u] = disk[u]
  BY Zenon, <1>8 DEF IInv, TypeOK, ThreadsOK
<1>10. \A i : i # h => (InFlight(i) => InFlight(i)') /\ (Answered(i) => Answered(i)')
  BY Zenon, <1>7, <1>9, StillWaited DEF InFlight, Answered, Waited
<1>11. h \notin Offered \cup fetched
  BY <1>7 DEF IInv, StageInv, InFlight, BUSY
<1>12. QueueOK'
  BY Zenon DEF IInv, TypeOK, QueueOK
<1>13. RingsOK' /\ ThreadsOK'
  BY Zenon, <1>4, <1>8 DEF IInv, TypeOK, RingsOK, ThreadsOK
<1>14. ThreadInv' /\ SleepInv'
  BY Zenon, <1>7, <1>8 DEF IInv, TypeOK, ThreadsOK, ThreadInv, SleepInv, FreeSleepers, Busy
<1>15. FreeInv' /\ RingInv'
  BY <1>4, <1>5 DEF IInv, FreeInv, RingInv, Ring, Ahead
<1>16. StageInv'
  BY Zenon, <1>6, <1>10, <1>11 DEF IInv, StageInv
<1>17. ASSUME NEW u \in Thread, Busy(u) PROVE Request(u)'
  <2>1. CASE u = t
    <3>1. Request(t) /\ HeadOf(t)' = h
      BY Zenon, <1>7 DEF IInv, RequestInv, HeadOf
    <3>2. Formatted(t)'
      BY Zenon, <3>1, SameFormat DEF Request
    <3>3. Placed(t)' /\ Moved(t)'
      BY Zenon, <1>7, <1>9, <3>1 DEF Request, Placed, Moved
    <3> QED
      BY Zenon, <2>1, <3>2, <3>3 DEF Request
  <2>2. CASE u # t
    <3>1. HeadOf(u) # h
      BY Zenon, <1>7, <1>17, <2>2, Apart
    <3> QED
      BY Zenon, <1>6, <1>9, <1>17, <2>2, <3>1, Bystander DEF IInv, RequestInv
  <2> QED
    BY Zenon, <2>1, <2>2
<1>18. RequestInv'
  BY Zenon, <1>17 DEF RequestInv, Busy
<1> QED
  BY Zenon, <1>12, <1>13, <1>14, <1>15, <1>16, <1>18 DEF IInv, TypeOK

\* The device does a transfer and gives the chain back.
LEMMA Step_complete ==
  ASSUME IInv, NEW h \in Desc, complete(h)
  PROVE  IInv'
<1> UNCHANGED <<free, desc, ops, avail, next_avail, used_idx, intr, disk, pc, write, idx>>
  BY Zenon DEF complete
<1> h \in fetched /\ fetched' = fetched \ {h} /\ irq' = TRUE
  BY Zenon DEF complete
<1>1. PICK t \in Thread : t = info[h].b /\ disk[t] /\ Busy(t) /\ HeadOf(t) = h /\ info[h].status = BUSY
  BY Zenon DEF IInv, StageInv, InFlight, Waited
<1>2. PICK m \in Desc, l \in Desc : idx[t] = <<h, m, l>> /\ Chain(t) = {h, m, l}
  BY <1>1, ChainOf DEF IInv, TypeOK, HeadOf
<1>3. Request(t)
  BY Zenon, <1>1 DEF IInv, RequestInv
<1>4. /\ h # m /\ h # l /\ m # l
      /\ desc[h].next = m /\ desc[h].addr = h
      /\ desc[m].addr = t /\ desc[m].next = l /\ desc[m].flags = DataFlags(write[t])
      /\ desc[l].addr = h
      /\ ops[h].sector = t /\ (ops[h].type = "OUT" <=> write[t])
  BY <1>2, <1>3 DEF Request, Formatted, Format
<1>5. /\ info' = [info EXCEPT ![h].status = 0]
      /\ used' = [ring |-> [used.ring EXCEPT ![used.idx % NUM] = h], idx |-> (used.idx + 1) % UINT16]
  BY Zenon, <1>4 DEF complete
<1>6. /\ buf'[t] = platter'[t]
      /\ \A u \in Thread : u # t => buf'[u] = buf[u] /\ platter'[u] = platter[u]
      /\ buf' = [u \in Thread |-> buf'[u]] /\ platter' = [u \in Thread |-> platter'[u]]
  <2>1. CASE write[t]
    <3>1. /\ ops[desc[h].addr].type = "OUT" /\ ops[desc[h].addr].sector = t
          /\ desc[desc[h].next].addr = t
      BY Zenon, <1>4, <2>1
    <3>2. platter' = [platter EXCEPT ![t] = buf[t]] /\ buf' = buf
      BY ONLY Zenon, complete(h), <3>1 DEF complete
    <3> QED
      BY Zenon, <3>2 DEF IInv, TypeOK, ThreadsOK
  <2>2. CASE ~write[t]
    <3>1. buf' = [buf EXCEPT ![t] = platter[t]] /\ platter' = platter
      BY ONLY Zenon, complete(h), <1>4, <2>2 DEF complete, DataFlags
    <3> QED
      BY Zenon, <3>1 DEF IInv, TypeOK, ThreadsOK
  <2> QED
    BY Zenon, <2>1, <2>2
<1>7. Returned \cap {h, m, l} = {}
  <2> SUFFICES ASSUME NEW i \in Returned PROVE i \notin Chain(t)
    BY Zenon, <1>2
  <2>1. PICK u \in Thread : Busy(u) /\ HeadOf(u) = i /\ info[i].status = 0
    BY Zenon DEF IInv, StageInv, Answered, Waited
  <2>2. u # t
    BY <1>1, <2>1 DEF BUSY
  <2> QED
    BY Zenon, <1>1, <2>1, <2>2, Apart
<1>8. PICK r \in [Desc -> Desc], from \in Index, to \in Index :
        /\ r = used.ring /\ from = used_idx /\ to = used.idx
        /\ Ring(r, from, to) /\ Returned = Entries(r, from, to)
  BY Zenon DEF IInv, TypeOK, RingsOK, RingInv, Returned
<1>9. to % NUM \in Desc /\ (to + 1) % UINT16 \in Index
  BY Zenon, SlotIn
<1>10. PICK s \in [Desc -> Desc], end \in Index :
         s = [r EXCEPT ![to % NUM] = h] /\ end = (to + 1) % UINT16
  BY Zenon, <1>9
<1>11. used' = [ring |-> s, idx |-> end]
  BY Zenon, <1>5, <1>8, <1>10
<1>12. Ring(s, from, end) /\ Entries(s, from, end) = Returned \cup {h}
  <2>1. Ahead(from, to) <= NUM - 3
    BY <1>4, <1>7, <1>8, Room
  <2>2. s[to % NUM] = h /\ \A x \in Desc : x # to % NUM => s[x] = r[x]
    BY Zenon, <1>9, <1>10
  <2>3. h \notin Entries(r, from, to)
    BY Zenon, <1>7, <1>8
  <2>4. Ring(s, from, end) /\ Entries(s, from, end) = Entries(r, from, to) \cup {h}
    BY ONLY <1>8, <1>10, <2>1, <2>2, <2>3, Push, r \in [Desc -> Desc], from \in Index, to \in Index, h \in Desc
  <2> QED
    BY Zenon, <1>8, <2>4
<1>13. Returned' = Returned \cup {h} /\ Offered' = Offered
  <2>1. Returned' = Entries(s, from, end)
    BY Zenon, <1>8, <1>11 DEF Returned, Entries, Ahead
  <2> QED
    BY Zenon, <1>12, <2>1, SameRings
<1>14. /\ \A i \in Desc : info'[i].b = info[i].b /\ (i # h => info'[i] = info[i])
       /\ info'[h].status = 0
  BY Zenon, <1>5 DEF IInv, TypeOK, QueueOK
<1>15. Offered \subseteq Desc /\ Returned \subseteq Desc /\ fetched \subseteq Desc /\ h \notin Offered
  BY Zenon, EntriesType DEF IInv, TypeOK, StageInv
<1>16. \A i \in Desc : Waited(i) => Waited(i)'
  BY Zenon, <1>14, StillWaited
<1>17. QueueOK'
  <2>1. info[h] \in [b : Thread \cup {Nobody}, status : {0, BUSY}]
    BY Zenon DEF IInv, TypeOK, QueueOK
  <2>2. [info[h] EXCEPT !.status = 0] \in [b : Thread \cup {Nobody}, status : {0, BUSY}]
    BY Zenon, <2>1
  <2>3. info' = [info EXCEPT ![h] = [info[h] EXCEPT !.status = 0]]
    BY Zenon, <1>5
  <2> QED
    BY Zenon, <2>2, <2>3 DEF IInv, TypeOK, QueueOK
<1>18. RingsOK' /\ ThreadsOK'
  BY Zenon, <1>6, <1>11 DEF IInv, TypeOK, RingsOK, ThreadsOK
<1>19. ThreadInv' /\ SleepInv'
  BY Zenon DEF IInv, ThreadInv, SleepInv, FreeSleepers, Busy
<1>20. FreeInv' /\ RingInv'
  <2>1. FreeInv'
    BY Zenon DEF IInv, FreeInv
  <2>2. Ring(avail.ring, next_avail, avail.idx)' /\ Ring(used.ring, used_idx, used.idx)'
    BY Zenon, <1>8, <1>11, <1>12, NextRings DEF IInv, RingInv
  <2> QED
    BY Zenon, <2>1, <2>2 DEF RingInv
<1>21. StageInv'
  <2>1. \A i \in Offered' \cup fetched' : InFlight(i)'
    BY Zenon, <1>13, <1>14, <1>15, <1>16 DEF IInv, StageInv, InFlight
  <2>2. \A i \in Returned' : Answered(i)'
    BY Zenon, <1>13, <1>14, <1>15, <1>16 DEF IInv, StageInv, InFlight, Answered
  <2> QED
    BY Zenon, <1>13, <2>1, <2>2 DEF IInv, StageInv
<1>22. ASSUME NEW u \in Thread, Busy(u) PROVE Request(u)'
  <2>1. CASE u = t
    <3>1. Formatted(t)'
      BY Zenon, <1>1, <1>3, <1>14, SameFormat DEF Request
    <3>2. HeadOf(t)' = h
      BY Zenon, <1>1 DEF HeadOf
    <3>3. Placed(t)' /\ Moved(t)'
      BY Zenon, <1>6, <1>13, <1>14, <3>2 DEF Placed, Moved
    <3> QED
      BY Zenon, <2>1, <3>1, <3>3 DEF Request
  <2>2. CASE u # t
    <3>1. HeadOf(u) \in Desc /\ HeadOf(u) # h
      BY Zenon, <1>1, <1>22, <2>2, Apart
    <3> QED
      BY Zenon, <1>6, <1>13, <1>14, <1>22, <2>2, <3>1, Bystander DEF IInv, RequestInv
  <2> QED
    BY Zenon, <2>1, <2>2
<1>23. RequestInv'
  BY Zenon, <1>22 DEF RequestInv, Busy
<1> QED
  BY Zenon, <1>17, <1>18, <1>19, <1>20, <1>21, <1>23 DEF IInv, TypeOK

\* A request is formatted and offered to the device.
LEMMA Step_submit ==
  ASSUME IInv, NEW t \in Thread, submit(t)
  PROVE  IInv'
<1> UNCHANGED <<next_avail, fetched, used, irq, platter, used_idx, intr, buf, write>>
  BY Zenon DEF submit, device
<1>1. PICK h \in Desc, m \in Desc, l \in Desc :
        /\ h # m /\ h # l /\ m # l /\ alloc3_desc = <<h, m, l>>
        /\ h \in free /\ m \in free /\ l \in free
  BY Zenon, Alloc DEF IInv, TypeOK, QueueOK, submit
<1>2. Range(<<h, m, l>>) = {h, m, l} /\ <<h, m, l>> # <<>>
  BY Zenon, RangeTriple
<1>3. /\ idx' = [idx EXCEPT ![t] = <<h, m, l>>]
      /\ free' = free \ {h, m, l}
      /\ ops' = [ops EXCEPT ![h] = [type |-> IF write[t] THEN "OUT" ELSE "IN", sector |-> t]]
      /\ desc' = [desc EXCEPT ![h] = [addr |-> h, next |-> m, flags |-> {"NEXT"}],
                              ![m] = [addr |-> t, next |-> l, flags |-> DataFlags(write[t])],
                              ![l] = [addr |-> h, next |-> 0, flags |-> {"WRITE"}]]
      /\ info' = [info EXCEPT ![h] = [b |-> t, status |-> BUSY]]
      /\ avail' = [ring |-> [avail.ring EXCEPT ![avail.idx % NUM] = h],
                   idx |-> (avail.idx + 1) % UINT16]
      /\ disk' = [disk EXCEPT ![t] = TRUE]
      /\ pc[t] = "alloc" /\ pc' = [u \in Thread |-> IF u = t THEN "sleep_buf" ELSE pc[u]]
  BY Zenon, <1>1, <1>2 DEF submit, Step
<1>4. ~Busy(t) /\ ~disk[t]
  BY Zenon, <1>3 DEF IInv, ThreadInv
<1>5. /\ idx'[t] = <<h, m, l>> /\ Busy(t)' /\ HeadOf(t)' = h /\ disk'[t]
      /\ \A u \in Thread : u # t => idx'[u] = idx[u] /\ disk'[u] = disk[u]
  BY Zenon, <1>2, <1>3 DEF IInv, TypeOK, ThreadsOK, Busy, HeadOf
<1>6. /\ \A i \in Desc : i # h => info'[i] = info[i] /\ ops'[i] = ops[i]
      /\ \A i \in Desc : i \notin {h, m, l} => desc'[i] = desc[i]
  BY Zenon, <1>3 DEF IInv, TypeOK, QueueOK
<1>7. /\ info'[h] = [b |-> t, status |-> BUSY]
      /\ ops'[h] = [type |-> IF write[t] THEN "OUT" ELSE "IN", sector |-> t]
      /\ desc'[h] = [addr |-> h, next |-> m, flags |-> {"NEXT"}]
      /\ desc'[m] = [addr |-> t, next |-> l, flags |-> DataFlags(write[t])]
      /\ desc'[l] = [addr |-> h, next |-> 0, flags |-> {"WRITE"}]
  BY Zenon, <1>1, <1>3 DEF IInv, TypeOK, QueueOK
<1>8. \A u \in Thread : Busy(u) => /\ u # t /\ Chain(u) \cap {h, m, l} = {}
                                   /\ Chain(u) \subseteq Desc /\ HeadOf(u) \in Chain(u)
  BY <1>1, <1>4, Apart
<1>9. \A i : Waited(i) => i \in Desc /\ i \notin {h, m, l} /\ info[i].b \in Thread /\ info[i].b # t
  BY Zenon, <1>8 DEF Waited
<1>10. \A i \in Offered \cup fetched \cup Returned : Waited(i)
  BY Zenon DEF IInv, StageInv, InFlight, Answered
<1>11. PICK r \in [Desc -> Desc], from \in Index, to \in Index :
         /\ r = avail.ring /\ from = next_avail /\ to = avail.idx
         /\ Ring(r, from, to) /\ Offered = Entries(r, from, to)
  BY Zenon DEF IInv, TypeOK, RingsOK, RingInv, Offered
<1>12. to % NUM \in Desc /\ (to + 1) % UINT16 \in Index
  BY Zenon, SlotIn
<1>13. PICK s \in [Desc -> Desc], end \in Index :
         s = [r EXCEPT ![to % NUM] = h] /\ end = (to + 1) % UINT16
  BY Zenon, <1>12
<1>14. avail' = [ring |-> s, idx |-> end]
  BY Zenon, <1>3, <1>11, <1>13
<1>15. Ring(s, from, end) /\ Entries(s, from, end) = Offered \cup {h}
  <2>1. {h, m, l} \cap Entries(r, from, to) = {}
    BY Zenon, <1>9, <1>10, <1>11
  <2>2. Ahead(from, to) <= NUM - 3
    BY Zenon, <1>1, <1>11, <2>1, Room
  <2>3. s[to % NUM] = h /\ \A x \in Desc : x # to % NUM => s[x] = r[x]
    BY Zenon, <1>12, <1>13
  <2>4. Ring(s, from, end) /\ Entries(s, from, end) = Entries(r, from, to) \cup {h}
    BY ONLY <1>11, <1>13, <2>1, <2>2, <2>3, Push, r \in [Desc -> Desc], from \in Index, to \in Index, h \in Desc
  <2> QED
    BY Zenon, <1>11, <2>4
<1>16. Offered' = Offered \cup {h} /\ Returned' = Returned
  <2>1. Offered' = Entries(s, from, end)
    BY Zenon, <1>11, <1>14 DEF Offered, Entries, Ahead
  <2> QED
    BY Zenon, <1>15, <2>1, SameRings
<1>17. QueueOK'
  <2> DEFINE D == [addr : Thread \cup Desc \cup {Nobody}, next : Desc,
                   flags : SUBSET {"NEXT", "WRITE"}]
  <2>1. 0 \in Desc
    BY Sizes DEF Desc
  <2>2. desc'[h] \in D /\ desc'[m] \in D /\ desc'[l] \in D
    BY <1>7, <2>1 DEF DataFlags
  <2>3. desc \in [Desc -> D]
    BY Zenon DEF IInv, TypeOK, QueueOK
  <2> HIDE DEF D
  <2>4. desc' \in [Desc -> D]
    BY Zenon, <1>3, <1>6, <2>2, <2>3
  <2>5. /\ info' \in [Desc -> [b : Thread \cup {Nobody}, status : {0, BUSY}]]
        /\ ops' \in [Desc -> [type : {"IN", "OUT"}, sector : Thread \cup {Nobody}]]
        /\ free' \in SUBSET Desc
    BY Zenon, <1>3 DEF IInv, TypeOK, QueueOK
  <2> QED
    BY Zenon, <2>4, <2>5 DEF D, QueueOK
<1>18. RingsOK'
  BY Zenon, <1>14 DEF IInv, TypeOK, RingsOK
<1>19. ThreadsOK'
  BY Zenon, <1>3 DEF IInv, TypeOK, ThreadsOK
<1>20. ThreadInv' /\ SleepInv'
  BY Zenon, <1>3, <1>5 DEF IInv, TypeOK, ThreadsOK, ThreadInv, SleepInv, Busy
<1>21. FreeInv'
  <2>1. Range(idx[t]) = {} /\ Range(idx'[t]) = {h, m, l}
    BY Zenon, <1>2, <1>4, <1>5, ChainOf DEF IInv, TypeOK
  <2>2. \A u \in Thread : u # t => Range(idx'[u]) = Range(idx[u])
    BY Zenon, <1>5
  <2>3. \A x : x \in free <=> x \in Desc /\ \A u \in Thread : x \notin Range(idx[u])
    BY FreeIs DEF IInv, FreeInv
  <2>4. \A x : x \in free' <=> x \in Desc /\ \A u \in Thread : x \notin Range(idx'[u])
    BY Zenon, <1>3, <2>1, <2>2, <2>3
  <2>5. \A u \in Thread : Range(idx[u]) \cap {h, m, l} = {}
    BY Zenon, <1>1, <2>3
  <2>6. \A u, w \in Thread : u # w => Range(idx'[u]) \cap Range(idx'[w]) = {}
    BY Zenon, <2>1, <2>2, <2>5 DEF IInv, FreeInv
  <2>7. free' = Desc \ UNION {Range(idx'[u]) : u \in Thread}
    BY <2>4, FreeIs
  <2> QED
    BY Zenon, <2>6, <2>7 DEF FreeInv
<1>22. RingInv'
  <2>1. Ring(avail.ring, next_avail, avail.idx)' /\ Ring(used.ring, used_idx, used.idx)'
    BY Zenon, <1>11, <1>14, <1>15, NextRings DEF IInv, RingInv
  <2> QED
    BY Zenon, <2>1 DEF RingInv
<1>23. StageInv'
  <2>1. \A i : Waited(i) => Waited(i)' /\ info'[i] = info[i]
    <3> SUFFICES ASSUME NEW i, Waited(i) PROVE Waited(i)' /\ info'[i] = info[i]
      BY Zenon
    <3>1. /\ info'[i] = info[i] /\ idx'[info[i].b] = idx[info[i].b]
          /\ disk'[info[i].b] = disk[info[i].b]
      BY Zenon, <1>5, <1>6, <1>9
    <3> QED
      BY Zenon, <3>1, StillWaited
  <2>2. InFlight(h)'
    BY <1>5, <1>7 DEF InFlight, Waited
  <2>3. \A i : (InFlight(i) => InFlight(i)') /\ (Answered(i) => Answered(i)')
    BY Zenon, <2>1 DEF InFlight, Answered
  <2> QED
    BY Zenon, <1>9, <1>10, <1>16, <2>2, <2>3 DEF IInv, StageInv
<1>24. ASSUME NEW u \in Thread, Busy(u)' PROVE Request(u)'
  <2>1. CASE u = t
    <3>0. Format(t, h, m, l)'
      BY ONLY <1>1, <1>7, write' = write DEF Format, DataFlags
    <3>a. idx'[t][1] = h /\ idx'[t][2] = m /\ idx'[t][3] = l
      BY ONLY <1>5
    <3>1. Formatted(t)'
      BY ONLY Zenon, <3>a, <3>0 DEF Formatted, Format, DataFlags
    <3>2. Placed(t)' /\ Moved(t)'
      BY <1>5, <1>7, <1>16 DEF Placed, Moved, BUSY
    <3> QED
      BY Zenon, <2>1, <3>1, <3>2 DEF Request
  <2>2. CASE u # t
    <3>1. Busy(u) /\ Request(u)
      BY Zenon, <1>5, <1>24, <2>2 DEF IInv, RequestInv, Busy
    <3>2. /\ \A i \in Chain(u) : desc'[i] = desc[i]
          /\ ops'[HeadOf(u)] = ops[HeadOf(u)] /\ info'[HeadOf(u)] = info[HeadOf(u)]
      BY Zenon, <1>6, <1>8, <3>1
    <3> QED
      BY Zenon, <1>5, <1>16, <2>2, <3>1, <3>2, Bystander
  <2> QED
    BY Zenon, <2>1, <2>2
<1>25. RequestInv'
  BY Zenon, <1>24 DEF RequestInv
<1> QED
  BY Zenon, <1>17, <1>18, <1>19, <1>20, <1>21, <1>22, <1>23, <1>25 DEF IInv, TypeOK

\* A request is finished: its descriptors are freed.
LEMMA Step_finish ==
  ASSUME IInv, NEW t \in Thread, finish(t)
  PROVE  IInv'
<1> UNCHANGED <<avail, next_avail, fetched, used, irq, platter, used_idx, intr, disk, buf, write>>
  BY Zenon DEF finish, device
<1>1. Busy(t) /\ ~disk[t] /\ Formatted(t)
  BY Zenon DEF IInv, ThreadInv, RequestInv, Request, finish, Finished
<1>2. PICK h \in Desc, m \in Desc, l \in Desc : idx[t] = <<h, m, l>> /\ Chain(t) = {h, m, l}
  BY Zenon, <1>1, ChainOf DEF IInv, TypeOK
<1>3. free_chain(h) = {h, m, l} /\ idx[t][1] = h
  BY <1>1, <1>2 DEF Formatted, Format, free_chain, DataFlags
<1>4. /\ idx' = [idx EXCEPT ![t] = <<>>]
      /\ free' = free \cup {h, m, l}
      /\ ops' = [ops EXCEPT ![h] = NoOp]
      /\ desc' = [i \in Desc |-> IF i \in {h, m, l} THEN NoDesc ELSE desc[i]]
      /\ info' = [info EXCEPT ![h] = [info[h] EXCEPT !.b = Nobody]]
  BY Zenon, <1>3 DEF finish
<1>5. pc' = [u \in Thread |-> IF u = t THEN "idle"
                              ELSE IF pc[u] = "sleep_free" THEN "alloc" ELSE pc[u]]
  BY Zenon DEF finish, Step, Freed, FreeSleepers
<1>6. idx'[t] = <<>> /\ \A u \in Thread : u # t => idx'[u] = idx[u]
  BY Zenon, <1>4 DEF IInv, TypeOK, ThreadsOK
<1>7. /\ \A i \in Desc : i # h => info'[i] = info[i] /\ ops'[i] = ops[i]
      /\ \A i \in Desc : i \notin {h, m, l} => desc'[i] = desc[i]
  BY Zenon, <1>4 DEF IInv, TypeOK, QueueOK
<1>8. \A u \in Thread : u # t /\ Busy(u) => /\ Chain(u) \cap {h, m, l} = {}
                                            /\ Chain(u) \subseteq Desc /\ HeadOf(u) \in Chain(u)
  BY Zenon, <1>1, <1>2, Apart
<1>9. \A i : Waited(i) => i \in Desc /\ i # h /\ info[i].b \in Thread /\ info[i].b # t
  BY Zenon, <1>1, <1>8 DEF Waited
<1>10. Offered' = Offered /\ Returned' = Returned
  BY Zenon, SameRings
<1>11. QueueOK'
  <2>1. info[h] \in [b : Thread \cup {Nobody}, status : {0, BUSY}]
    BY Zenon DEF IInv, TypeOK, QueueOK
  <2>2. [info[h] EXCEPT !.b = Nobody] \in [b : Thread \cup {Nobody}, status : {0, BUSY}]
    BY Zenon, <2>1
  <2>3. /\ info' \in [Desc -> [b : Thread \cup {Nobody}, status : {0, BUSY}]]
        /\ ops' \in [Desc -> [type : {"IN", "OUT"}, sector : Thread \cup {Nobody}]]
        /\ free' \in SUBSET Desc
    BY Zenon, <1>4, <2>2 DEF IInv, TypeOK, QueueOK, NoOp
  <2>4. 0 \in Desc
    BY Sizes DEF Desc
  <2>5. NoDesc \in [addr : Thread \cup Desc \cup {Nobody}, next : Desc,
                    flags : SUBSET {"NEXT", "WRITE"}]
    BY Zenon, <2>4 DEF NoDesc
  <2>6. desc' \in [Desc -> [addr : Thread \cup Desc \cup {Nobody}, next : Desc,
                            flags : SUBSET {"NEXT", "WRITE"}]]
    BY Zenon, <1>4, <2>5 DEF IInv, TypeOK, QueueOK
  <2> QED
    BY Zenon, <2>3, <2>6 DEF QueueOK
<1>12. RingsOK' /\ ThreadsOK'
  BY Zenon, <1>4, <1>5 DEF IInv, TypeOK, RingsOK, ThreadsOK
<1>13. ThreadInv' /\ SleepInv'
  BY Zenon, <1>1, <1>5, <1>6 DEF IInv, TypeOK, ThreadsOK, ThreadInv, SleepInv, FreeSleepers, Busy
<1>14. FreeInv'
  <2>1. Range(idx'[t]) = {} /\ Range(idx[t]) = {h, m, l}
    BY Zenon, <1>1, <1>2, <1>6, RangeEmpty, ChainOf DEF IInv, TypeOK
  <2>2. \A u \in Thread : u # t => Range(idx'[u]) = Range(idx[u])
    BY Zenon, <1>6
  <2>3. \A x : x \in free <=> x \in Desc /\ \A u \in Thread : x \notin Range(idx[u])
    BY FreeIs DEF IInv, FreeInv
  <2>4. \A u \in Thread : u # t => Range(idx[u]) \cap {h, m, l} = {}
    BY Zenon, <2>1 DEF IInv, FreeInv
  <2>5. \A x : x \in free' <=> x \in Desc /\ \A u \in Thread : x \notin Range(idx'[u])
    BY Zenon, <1>4, <2>1, <2>2, <2>3, <2>4
  <2>6. \A u, w \in Thread : u # w => Range(idx'[u]) \cap Range(idx'[w]) = {}
    BY Zenon, <2>1, <2>2 DEF IInv, FreeInv
  <2>7. free' = Desc \ UNION {Range(idx'[u]) : u \in Thread}
    BY Zenon, <2>5, FreeIs
  <2> QED
    BY Zenon, <2>6, <2>7 DEF FreeInv
<1>15. RingInv'
  BY Zenon DEF IInv, RingInv, Ring, Ahead
<1>16. StageInv'
  <2>1. \A i : Waited(i) => Waited(i)' /\ info'[i] = info[i]
    BY Zenon, <1>6, <1>7, <1>9, StillWaited
  <2>2. \A i : (InFlight(i) => InFlight(i)') /\ (Answered(i) => Answered(i)')
    BY Zenon, <2>1 DEF InFlight, Answered
  <2> QED
    BY Zenon, <1>10, <2>2 DEF IInv, StageInv
<1>17. ASSUME NEW u \in Thread, Busy(u)' PROVE Request(u)'
  <2>1. u # t /\ Busy(u) /\ Request(u)
    BY Zenon, <1>6, <1>17 DEF IInv, RequestInv, Busy
  <2>2. /\ \A i \in Chain(u) : desc'[i] = desc[i]
        /\ ops'[HeadOf(u)] = ops[HeadOf(u)] /\ info'[HeadOf(u)] = info[HeadOf(u)]
    BY Zenon, <1>2, <1>7, <1>8, <2>1
  <2> QED
    BY Zenon, <1>6, <1>10, <2>1, <2>2, Bystander
<1>18. RequestInv'
  BY Zenon, <1>17 DEF RequestInv
<1> QED
  BY Zenon, <1>11, <1>12, <1>13, <1>14, <1>15, <1>16, <1>18 DEF IInv, TypeOK

LEMMA StepIInv == IInv /\ [Next]_vars => IInv'
<1> SUFFICES ASSUME IInv, [Next]_vars PROVE IInv'
  BY Zenon
<1>1. CASE UNCHANGED vars
  <2> UNCHANGED <<free, desc, ops, info, avail, next_avail, fetched, used, used_idx, disk, idx,
                  platter, buf, write, pc, irq, intr>>
    BY Zenon, <1>1 DEF vars, queue, device
  <2>1. RingsOK' /\ ThreadsOK' /\ ThreadInv' /\ SleepInv'
    BY Zenon DEF IInv, TypeOK, RingsOK, ThreadsOK, ThreadInv, SleepInv, FreeSleepers, Busy
  <2> QED
    BY Zenon, <2>1, Quiet DEF IInv, StageInv
<1> QED
  BY Zenon, <1>1, Step_call, Step_alloc_fail, Step_submit, Step_again, Step_finish, Step_kill, Step_fetch,
     Step_complete, Step_intr_ack, Step_intr_loop, Step_intr_done DEF Next
-----------------------------------------------------------------------------
\* The conjuncts of IInv hold in every reachable state.
THEOREM Inductive == Spec => []IInv
  BY InitIInv, StepIInv, PTL DEF Spec

\* virtio_disk_rw() does not free or reuse a descriptor that the device can still follow,
\* whatever wakes it.
THEOREM ChainsIntact == Spec => []ChainIntact
<1>1. IInv => ChainIntact
  <2> SUFFICES ASSUME IInv, NEW i \in Unfinished
               PROVE  LET d == desc[i].next IN
                      \E t \in Thread : /\ disk[t] /\ pc[t] \in {"sleep_buf", "check"}
                                        /\ idx[t] = <<i, d, desc[d].next>>
                                        /\ Range(idx[t]) \cap free = {}
                                        /\ desc[d].addr = t /\ info[i].b = t
    BY Zenon DEF ChainIntact
  <2>1. PICK t \in Thread : Busy(t) /\ disk[t] /\ HeadOf(t) = i
    BY Zenon DEF Unfinished, IInv, StageInv, InFlight, Waited, Busy, HeadOf
  <2>2. Formatted(t) /\ pc[t] \in {"sleep_buf", "check"}
    BY Zenon, <2>1 DEF IInv, RequestInv, Request, ThreadInv
  <2>3. PICK m \in Desc, l \in Desc : idx[t] = <<i, m, l>>
    BY <2>1, ChainOf DEF IInv, TypeOK, HeadOf
  <2>4. Range(idx[t]) \cap free = {}
    BY Zenon DEF IInv, FreeInv
  <2>5. desc[i].next = m /\ desc[m].next = l /\ desc[m].addr = t /\ info[i].b = t
    BY <2>2, <2>3 DEF Formatted, Format
  <2> QED
    BY Zenon, <2>1, <2>2, <2>3, <2>4, <2>5
<1> QED
  BY <1>1, Inductive, PTL

\* When virtio_disk_rw() is about to return, the device has done the transfer.
THEOREM TransfersDone == Spec => []TransferDone
<1>1. IInv => TransferDone
  BY Zenon DEF IInv, ThreadInv, RequestInv, Request, Placed, Moved, TransferDone, Finished
<1> QED
  BY <1>1, Inductive, PTL

\* Descriptors do not leak from alloc3_desc(), virtio_disk_rw() and free_chain(), and a
\* thread does not sleep on &disk.free[0] when nobody will free any.
THEOREM DescriptorsNotLost == Spec => []DescriptorsAccounted
<1>1. IInv => DescriptorsAccounted
  BY Zenon DEF IInv, FreeInv, SleepInv, DescriptorsAccounted, Busy
<1> QED
  BY <1>1, Inductive, PTL

LEMMA InEntries ==
  ASSUME NEW r, NEW from \in Index, NEW to \in Index, Ring(r, from, to), NEW i
  PROVE  (\E k \in 0 .. NUM - 1 : (to + UINT16 - from) % UINT16 > k /\ r[(from + k) % NUM] = i)
           <=> i \in Entries(r, from, to)
<1> DEFINE W == Ahead(from, to)
           Slot(k) == (from + k) % NUM
<1>1. W \in Nat /\ W <= NUM - 2 /\ NUM \in Nat
  BY AheadIs, Sizes DEF Ring, Index
<1>2. Entries(r, from, to) = {r[Slot(k)] : k \in 0 .. W - 1} /\ W = (to + UINT16 - from) % UINT16
  BY Zenon DEF Entries, Ahead
<1> HIDE DEF W, Slot
<1>3. (\E k \in 0 .. NUM - 1 : W > k /\ r[Slot(k)] = i) <=> \E k \in 0 .. W - 1 : r[Slot(k)] = i
  BY <1>1
<1> QED
  BY Zenon, <1>2, <1>3 DEF Slot

\* A completion is not lost between virtio_disk_intr()'s acknowledgement, its loop and
\* its end, and the handler does not panic or follow a null info[id].b.
THEOREM CompletionsSeen == Spec => []CompletionSeen
<1>1. IInv => CompletionSeen
  <2> SUFFICES ASSUME IInv PROVE CompletionSeen
    BY Zenon
  <2> DEFINE InRing(r, from, to, i) ==
        \E k \in 0 .. NUM - 1 : (to + UINT16 - from) % UINT16 > k /\ r[(from + k) % NUM] = i
  <2>1. /\ used_idx \in Index /\ used.idx \in Index /\ next_avail \in Index /\ avail.idx \in Index
        /\ Ring(used.ring, used_idx, used.idx) /\ Ring(avail.ring, next_avail, avail.idx)
    BY Zenon DEF IInv, TypeOK, RingsOK, RingInv
  <2>2. \A i : InRing(used.ring, used_idx, used.idx, i) <=> i \in Returned
    BY Zenon, <2>1, InEntries DEF Returned
  <2>3. \A i : InRing(avail.ring, next_avail, avail.idx, i) <=> i \in Offered
    BY Zenon, <2>1, InEntries DEF Offered
  <2> HIDE DEF InRing
  <2>4. ASSUME NEW t \in BufSleepers
        PROVE  /\ disk[t]
               /\ \/ idx[t][1] \in Offered
                  \/ idx[t][1] \in fetched
                  \/ (irq \/ intr) /\ idx[t][1] \in Returned
    BY Zenon DEF BufSleepers, IInv, ThreadInv, StageInv, RequestInv, Request, Placed, HeadOf
  <2>5. ASSUME NEW i \in Returned
        PROVE  info[i].status = 0 /\ info[i].b # Nobody /\ disk[info[i].b]
    BY Zenon, VirtioAssumption DEF IInv, StageInv, Answered, Waited
  <2>6. /\ \A t \in BufSleepers :
             /\ disk[t]
             /\ \/ InRing(avail.ring, next_avail, avail.idx, idx[t][1])
                \/ idx[t][1] \in fetched
                \/ (irq \/ intr) /\ InRing(used.ring, used_idx, used.idx, idx[t][1])
        /\ \A i \in Desc : InRing(used.ring, used_idx, used.idx, i) =>
             info[i].status = 0 /\ info[i].b # Nobody /\ disk[info[i].b]
    BY Zenon, <2>2, <2>3, <2>4, <2>5
  <2> QED
    BY Zenon, <2>6 DEF InRing, CompletionSeen
<1> QED
  BY <1>1, Inductive, PTL
=============================================================================
