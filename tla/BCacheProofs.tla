---------------------------- MODULE BCacheProofs ----------------------------
(***************************************************************************)
(* Proofs about BCache for any number of processes, blocks and buffers:    *)
(* the cache implements BlockStore, a process asleep on a buffer has       *)
(* somebody to wake it, and bget() finds a buffer while there are more of  *)
(* them than pins and processes.                                           *)
(***************************************************************************)
EXTENDS BCache, FiniteSetTheorems, SequenceTheorems, TLAPS

Labels == {"idle", "acquire", "asleep", "bread", "valid", "held", "changed", "written", "released"}

TypeOK ==
  /\ blockno \in [Buf -> Block \cup {NoBlock}]
  /\ valid \in [Buf -> BOOLEAN]
  /\ refcnt \in [Buf -> Nat]
  /\ data \in [Buf -> Value]
  /\ locked \in [Buf -> Proc \cup {NoProc}]
  /\ disk \in [Block -> Value]
  /\ logged \in SUBSET Block
  /\ pc \in [Proc -> Labels]
  /\ b \in [Proc -> Buf \cup {NoBuf}]

\* Every buffer is in the list.
Lists(s) == \A k \in Buf : \E j \in 1 .. Len(s) : s[j] = k
ListInv == lru \in Seq(Buf) /\ Lists(lru)

\* A process outside of the cache has no buffer; the buffer of another has a block.
HasInv ==
  \A p \in Proc : IF pc[p] = "idle" THEN b[p] = NoBuf
                  ELSE b[p] \in Buf /\ blockno[b[p]] \in Block

\* A block has one buffer at most.
BlockInv ==
  \A k, l \in Buf : blockno[k] = blockno[l] /\ blockno[k] # NoBlock => k = l

\* locked names the process that is between acquiresleep() and releasesleep().
LockInv ==
  /\ \A p \in Proc : Has(p) => locked[b[p]] = p
  /\ \A k \in Buf : locked[k] # NoProc => Has(locked[k]) /\ b[locked[k]] = k

Users(k) == {p \in Proc : b[p] = k}

\* refcnt counts the processes that have the buffer, and the pin.
RefInv ==
  \A k \in Buf :
    refcnt[k] = Cardinality(Users(k)) + IF blockno[k] \in logged THEN 1 ELSE 0

\* A pinned block is cached; there are no more of them than the log has room for.
PinInv ==
  /\ \A d \in logged : \E k \in Buf : blockno[k] = d /\ valid[k]
  /\ IsFiniteSet(logged) /\ Cardinality(logged) <= MaxPins

\* A buffer differs from the disk only while it is pinned or being changed.
DataInv ==
  /\ \A k \in Buf : valid[k] => blockno[k] \in Block
  /\ \A p \in Proc :
       /\ pc[p] = "valid" => ~valid[b[p]]
       /\ pc[p] \in {"held", "changed", "written"} => valid[b[p]]
       /\ pc[p] \in {"valid", "written"} => data[b[p]] = disk[blockno[b[p]]]
  /\ \A k \in Buf :
       valid[k] /\ blockno[k] \notin logged /\ (\A p \in Proc : pc[p] = "changed" => b[p] # k)
         => data[k] = disk[blockno[k]]

IInv == /\ TypeOK /\ ListInv /\ HasInv /\ BlockInv /\ LockInv /\ RefInv /\ PinInv /\ DataInv
        /\ SleeperHasHolder
-----------------------------------------------------------------------------
\* A set of natural numbers that is not empty has a least element, and a greatest one
\* if it is bounded.
LEMMA MinNat ==
  ASSUME NEW T, T \subseteq Nat, T # {}
  PROVE  \E m \in T : \A l \in T : m <= l
<1> DEFINE Lt == {q \in Nat \X Nat : q[1] < q[2]}
<1>1. IsWellFoundedOn(Lt, Nat)
  <2>1. Lt = OpToRel(<, Nat)
    BY Zenon DEF OpToRel
  <2> QED
    BY Zenon, <2>1, NatLessThanWellFounded
<1>2. PICK m \in T : \A l \in T : <<l, m>> \notin Lt
  <2> HIDE DEF Lt
  <2> QED
    BY Zenon, <1>1, WFMin
<1>3. ASSUME NEW l \in T PROVE m <= l
  <2>1. l \in Nat /\ m \in Nat /\ ~(l < m)
    BY Zenon, <1>2
  <2> QED
    BY <2>1
<1> QED
  BY Zenon, <1>3

LEMMA MaxNat ==
  ASSUME NEW n \in Nat, NEW T, T \subseteq 1 .. n, T # {}
  PROVE  \E m \in T : \A l \in T : l <= m
<1> DEFINE D == {n - l : l \in T}
<1>1. D \subseteq Nat /\ D # {}
  <2>1. \A l \in T : n - l \in Nat
    OBVIOUS
  <2> QED
    BY Zenon, <2>1
<1>2. PICK d \in D : \A l \in D : d <= l
  <2> HIDE DEF D
  <2> QED
    BY Zenon, <1>1, MinNat
<1>3. PICK m \in T : d = n - m
  BY Zenon
<1>4. \A l \in T : n - m <= n - l
  BY Zenon, <1>2, <1>3
<1> QED
  BY <1>3, <1>4

\* bget() takes a buffer that nobody uses.
LEMMA VictimUnused ==
  ASSUME lru \in Seq(Buf), Unused # {}
  PROVE  Victim \in Buf /\ refcnt[Victim] = 0
<1>1. Unused \subseteq 1 .. Len(lru) /\ Len(lru) \in Nat
  BY DEF Unused
<1>2. \E j \in Unused : \A l \in Unused : l <= j
  <2> HIDE DEF Unused
  <2> QED
    BY Zenon, <1>1, MaxNat
<1> DEFINE m == CHOOSE j \in Unused : \A l \in Unused : l <= j
<1>3. m \in Unused
  <2> HIDE DEF Unused
  <2> QED
    BY Zenon, <1>2
<1>4. Victim = lru[m]
  BY Zenon DEF Victim
<1> HIDE DEF m
<1> QED
  BY <1>1, <1>3, <1>4 DEF Unused

\* One process more, or less, has a buffer.
LEMMA OneUser ==
  ASSUME NEW U, IsFiniteSet(U), NEW p
  PROVE  /\ p \notin U => Cardinality(U \cup {p}) = Cardinality(U) + 1
         /\ p \in U => Cardinality(U \ {p}) = Cardinality(U) - 1
         /\ Cardinality(U) \in Nat
         /\ p \in U => Cardinality(U) >= 1
<1>1. Cardinality(U) \in Nat
  BY Zenon, FS_CardinalityType
<1>2. p \notin U => Cardinality(U \cup {p}) = Cardinality(U) + 1
  BY Zenon, FS_AddElement
<1>3. p \in U => Cardinality(U \ {p}) = Cardinality(U) - 1 /\ Cardinality(U \ {p}) \in Nat
  BY Zenon, FS_RemoveElement, FS_CardinalityType
<1> QED
  BY <1>1, <1>2, <1>3

LEMMA UsersFinite ==
  ASSUME NEW k
  PROVE  IsFiniteSet(Users(k)) /\ Cardinality(Users(k)) \in Nat
         /\ \A p \in Users(k) : Cardinality(Users(k)) >= 1
<1>1. IsFiniteSet(Users(k))
  BY Zenon, BCacheAssumption, FS_Subset DEF Users
<1> QED
  BY Zenon, <1>1, OneUser

\* A buffer with no reference: nobody has it, nor its lock, and it is not pinned.
LEMMA NoReference ==
  ASSUME IInv, NEW k \in Buf, refcnt[k] = 0
  PROVE  /\ blockno[k] \notin logged /\ locked[k] = NoProc
         /\ \A p \in Proc : b[p] # k
<1>1. blockno[k] \notin logged /\ Cardinality(Users(k)) = 0
  BY UsersFinite DEF IInv, RefInv
<1>2. \A p \in Proc : b[p] # k
  BY <1>1, UsersFinite DEF Users
<1>3. locked[k] = NoProc
  BY <1>2 DEF IInv, TypeOK, LockInv
<1> QED
  BY Zenon, <1>1, <1>2, <1>3

\* The buffer of a process has a reference.
LEMMA Counted ==
  ASSUME IInv, NEW p \in Proc, pc[p] # "idle"
  PROVE  b[p] \in Buf /\ refcnt[b[p]] >= 1
<1>1. b[p] \in Buf /\ p \in Users(b[p])
  BY Zenon DEF IInv, HasInv, Users
<1>2. Cardinality(Users(b[p])) \in Nat /\ Cardinality(Users(b[p])) >= 1
  BY Zenon, <1>1, UsersFinite
<1> QED
  BY <1>1, <1>2 DEF IInv, RefInv

\* A buffer moves to the front of the list.
LEMMA ToFront ==
  ASSUME NEW s \in Seq(Buf), Lists(s), NEW c \in Buf, NEW i \in 1 .. Len(s), s[i] = c
  PROVE  <<c>> \o Unlinked(s, i) \in Seq(Buf) /\ Lists(<<c>> \o Unlinked(s, i))
<1> DEFINE n == Len(s)
           u == SubSeq(s, 1, i - 1)
           w == SubSeq(s, i + 1, n)
           t == <<c>> \o (u \o w)
<1>1. n \in Nat /\ i \in 1 .. n /\ i \in Nat
  OBVIOUS
<1>2. u \in Seq(Buf) /\ Len(u) = i - 1 /\ \A j \in 1 .. i - 1 : u[j] = s[j]
  BY <1>1, SubSeqProperties
<1>3. w \in Seq(Buf) /\ Len(w) = n - i /\ \A j \in 1 .. n - i : w[j] = s[i + j]
  <2>1. i + 1 \in 1 .. n + 1 /\ n \in i .. n
    BY <1>1
  <2>2. /\ w \in Seq(Buf) /\ Len(w) = n - (i + 1) + 1
        /\ \A j \in 1 .. n - (i + 1) + 1 : w[j] = s[i + 1 + j - 1]
    <3>1. \A j \in i + 1 .. n : s[j] \in Buf
      BY <1>1
    <3>2. i + 1 <= n => Len(w) = n - (i + 1) + 1
      BY <1>1, <3>1, SubSeqProperties
    <3>3. ~(i + 1 <= n) => Len(w) = 0
      BY <1>1, <3>1, SubSeqProperties
    <3>4. ~(i + 1 <= n) => n - (i + 1) + 1 = 0
      BY <1>1
    <3>5. w \in Seq(Buf) /\ \A j \in 1 .. n - (i + 1) + 1 : w[j] = s[i + 1 + j - 1]
      BY <1>1, <3>1, SubSeqProperties
    <3> QED
      BY Zenon, <3>2, <3>3, <3>4, <3>5
  <2>3. n - (i + 1) + 1 = n - i /\ \A j \in 1 .. n - i : i + 1 + j - 1 = i + j
    BY <1>1
  <2> HIDE DEF w, n
  <2> QED
    BY Zenon, <2>2, <2>3
<1> HIDE DEF u, w, n
<1>4. /\ u \o w \in Seq(Buf) /\ Len(u \o w) = n - 1
      /\ \A j \in 1 .. n - 1 : (u \o w)[j] = IF j <= i - 1 THEN u[j] ELSE w[j - (i - 1)]
  <2>1. /\ u \o w \in Seq(Buf) /\ Len(u \o w) = Len(u) + Len(w)
        /\ \A j \in 1 .. Len(u) + Len(w) : (u \o w)[j] = IF j <= Len(u) THEN u[j] ELSE w[j - Len(u)]
    BY Zenon, <1>2, <1>3, ConcatProperties
  <2>2. Len(u) + Len(w) = n - 1
    BY <1>1, <1>2, <1>3
  <2> QED
    BY Zenon, <1>2, <2>1, <2>2
<1>5. /\ \A j \in 1 .. i - 1 : (u \o w)[j] = s[j]
      /\ \A j \in i .. n - 1 : (u \o w)[j] = s[j + 1]
  <2>1. ASSUME NEW j \in 1 .. i - 1 PROVE (u \o w)[j] = s[j]
    BY <1>1, <1>2, <1>4
  <2>2. ASSUME NEW j \in i .. n - 1 PROVE (u \o w)[j] = s[j + 1]
    <3>1. j \in 1 .. n - 1 /\ ~(j <= i - 1) /\ j - (i - 1) \in 1 .. n - i /\ i + (j - (i - 1)) = j + 1
      BY <1>1
    <3> QED
      BY Zenon, <1>3, <1>4, <3>1
  <2> QED
    BY Zenon, <2>1, <2>2
<1>6. t \in Seq(Buf) /\ Len(t) = n /\ t[1] = c /\ \A j \in 2 .. n : t[j] = (u \o w)[j - 1]
  <2> DEFINE x == u \o w
  <2>1. x \in Seq(Buf) /\ Len(x) = n - 1 /\ <<c>> \in Seq(Buf) /\ Len(<<c>>) = 1
    BY <1>4
  <2> HIDE DEF x
  <2>2. /\ <<c>> \o x \in Seq(Buf) /\ Len(<<c>> \o x) = 1 + Len(x)
        /\ \A j \in 1 .. 1 + Len(x) : (<<c>> \o x)[j] = IF j <= 1 THEN <<c>>[j] ELSE x[j - 1]
    <3> DEFINE y == <<c>>
    <3>1. y \in Seq(Buf) /\ Len(y) = 1
      OBVIOUS
    <3> HIDE DEF y
    <3>2. /\ y \o x \in Seq(Buf) /\ Len(y \o x) = Len(y) + Len(x)
          /\ \A j \in 1 .. Len(y) + Len(x) : (y \o x)[j] = IF j <= Len(y) THEN y[j] ELSE x[j - Len(y)]
      BY <2>1, <3>1, ConcatProperties
    <3> QED
      BY Zenon, <3>1, <3>2 DEF y
  <2>3. 1 + Len(x) = n
    BY <1>1, <2>1
  <2>4. t = <<c>> \o x
    BY Zenon DEF x
  <2> HIDE DEF t
  <2>5. t[1] = c
    BY <1>1, <2>2, <2>3, <2>4
  <2>6. \A j \in 2 .. n : t[j] = x[j - 1]
    BY <1>1, <2>2, <2>3, <2>4
  <2> QED
    BY Zenon, <2>2, <2>3, <2>4, <2>5, <2>6 DEF x
<1> HIDE DEF t
<1>7. ASSUME NEW k \in Buf
      PROVE  \E j \in 1 .. n : t[j] = k
  <2>1. PICK j \in 1 .. n : s[j] = k
    BY Zenon DEF n, Lists
  <2>2. CASE j = i
    BY <1>1, <1>6, <2>1, <2>2
  <2>3. CASE j < i
    <3>0. j + 1 \in 2 .. n /\ (j + 1) - 1 = j /\ j \in 1 .. i - 1
      BY <1>1, <2>3
    <3>1. t[j + 1] = (u \o w)[j] /\ (u \o w)[j] = s[j]
      BY Zenon, <1>5, <1>6, <3>0
    <3>2. j + 1 \in 1 .. n
      BY <1>1, <3>0
    <3> QED
      BY Zenon, <2>1, <3>1, <3>2
  <2>4. CASE j > i
    <3>1. j \in 2 .. n /\ j - 1 \in i .. n - 1 /\ (j - 1) + 1 = j
      BY <1>1, <2>4
    <3>2. t[j] = s[j]
      BY Zenon, <1>5, <1>6, <3>1
    <3> QED
      BY Zenon, <2>1, <3>2
  <2> QED
    BY <1>1, <2>2, <2>3, <2>4
<1>8. t = <<c>> \o Unlinked(s, i)
  BY Zenon DEF t, u, w, n, Unlinked
<1>9. Lists(t)
  BY Zenon, <1>6, <1>7 DEF Lists
<1> QED
  BY Zenon, <1>6, <1>8, <1>9

LEMMA InitIInv == Init => IInv
<1> SUFFICES ASSUME Init PROVE IInv
  BY Zenon
<1> USE BCacheAssumption DEF Init
<1>1. TypeOK
  BY Zenon DEF TypeOK, Labels
<1>2. ListInv
  <2>1. \E f \in [1 .. Cardinality(Buf) -> Buf] : IsInjective(f)
    <3>1. \E f : f \in Bijection(1 .. Cardinality(Buf), Buf)
      BY Zenon, FS_CardinalityType DEF ExistsBijection
    <3> QED
      BY Zenon, <3>1 DEF Bijection, Injection
  <2>2. lru \in [1 .. Cardinality(Buf) -> Buf] /\ IsInjective(lru)
    BY Zenon, <2>1
  <2>3. Cardinality(Buf) \in Nat
    BY Zenon, FS_CardinalityType
  <2>4. lru \in Seq(Buf) /\ Len(lru) = Cardinality(Buf)
    BY ONLY <2>2, <2>3, IsASeq
  <2>5. \A k \in Buf : \E j \in 1 .. Cardinality(Buf) : lru[j] = k
    <3>1. lru \in Injection(1 .. Cardinality(Buf), Buf)
      BY Zenon, <2>2 DEF Injection
    <3>2. Cardinality(1 .. Cardinality(Buf)) = Cardinality(Buf)
      BY <2>3, FS_Interval
    <3>3. lru \in Surjection(1 .. Cardinality(Buf), Buf)
      BY Zenon, <3>1, <3>2, FS_Injection
    <3> QED
      BY Zenon, <3>3 DEF Surjection
  <2> QED
    BY Zenon, <2>4, <2>5 DEF ListInv, Lists
<1>3. HasInv /\ BlockInv /\ LockInv /\ SleeperHasHolder
  BY Zenon DEF HasInv, BlockInv, LockInv, Has, SleeperHasHolder
<1>4. RefInv
  <2>1. \A k \in Buf : Users(k) = {}
    BY Zenon DEF Users
  <2> QED
    BY <2>1, FS_EmptySet DEF RefInv
<1>5. PinInv /\ DataInv
  BY FS_EmptySet DEF PinInv, DataInv
<1> QED
  BY Zenon, <1>1, <1>2, <1>3, <1>4, <1>5 DEF IInv

\* A process more has the buffer.
LEMMA Step_bget_hit ==
  ASSUME IInv, NEW p \in Proc, NEW d \in Block, bget_hit(p, d)
  PROVE  IInv'
<1> USE BCacheAssumption DEF IInv, TypeOK, Labels, Goto, Has, bget_hit, Cached
<1>a. PICK k \in Buf : /\ blockno[k] = d
                       /\ refcnt' = [refcnt EXCEPT ![k] = @ + 1]
                       /\ b' = [b EXCEPT ![p] = k]
  BY Zenon
<1>1. TypeOK'
  BY DEF HasInv
<1>2. ListInv'
  BY Zenon DEF ListInv
<1>3. HasInv'
  BY DEF HasInv, HasInv
<1>4. BlockInv'
  BY Zenon DEF BlockInv, HasInv
<1>5. LockInv'
  BY DEF LockInv, HasInv
<1>6. RefInv'
  <2>1. p \notin Users(k) /\ Users(k)' = Users(k) \cup {p}
    BY <1>a DEF Users, HasInv
  <2>2. \A l \in Buf : l # k => Users(l)' = Users(l)
    BY <1>a DEF Users, HasInv
  <2>3. Cardinality(Users(k)') = Cardinality(Users(k)) + 1
    BY Zenon, <2>1, UsersFinite, OneUser
  <2>4. \A l \in Buf : Cardinality(Users(l)) \in Nat
    BY Zenon, UsersFinite
  <2>5. UNCHANGED <<blockno, logged>>
    BY Zenon
  <2> QED
    BY <1>a, <2>2, <2>3, <2>4, <2>5 DEF RefInv
<1>7. PinInv'
  BY Zenon DEF PinInv, HasInv, DataInv
<1>8. DataInv'
  BY DEF DataInv, HasInv, LockInv, BlockInv
<1>9. SleeperHasHolder'
  BY DEF SleeperHasHolder, LockInv, HasInv
<1> QED
  BY Zenon, <1>1, <1>2, <1>3, <1>4, <1>5, <1>6, <1>7, <1>8, <1>9

\* A buffer nobody uses gets another block.
LEMMA Step_bget_recycle ==
  ASSUME IInv, NEW p \in Proc, NEW d \in Block, bget_recycle(p, d)
  PROVE  IInv'
<1> USE BCacheAssumption DEF IInv, TypeOK, Labels, Goto, Has, bget_recycle, Cached
<1>a. PICK u \in Buf : u = Victim
  BY Zenon, VictimUnused DEF ListInv
<1>d. /\ refcnt[u] = 0 /\ blockno[u] \notin logged /\ locked[u] = NoProc
      /\ \A q \in Proc : b[q] # u
  BY Zenon, <1>a, VictimUnused, NoReference DEF ListInv
<1>e. /\ blockno' = [blockno EXCEPT ![u] = d] /\ valid' = [valid EXCEPT ![u] = FALSE]
      /\ refcnt' = [refcnt EXCEPT ![u] = 1] /\ b' = [b EXCEPT ![p] = u]
  BY Zenon, <1>a
<1>b. \A k \in Buf : blockno[k] # d
  BY Zenon
<1>c. d \notin logged
  BY Zenon, <1>b DEF PinInv
<1>1. TypeOK'
  BY <1>d, <1>e
<1>2. ListInv'
  BY Zenon, <1>d, <1>e DEF ListInv
<1>3. HasInv'
  BY <1>d, <1>e DEF HasInv
<1>4. BlockInv'
  BY <1>d, <1>e DEF BlockInv, HasInv
<1>5. LockInv'
  BY <1>d, <1>e DEF LockInv, HasInv
<1>6. RefInv'
  <2>1. Users(u) = {} /\ Users(u)' = {p}
    BY <1>d, <1>e DEF Users, HasInv
  <2>2. \A l \in Buf : l # u => Users(l)' = Users(l)
    BY <1>d, <1>e DEF Users, HasInv
  <2>3. Cardinality({p}) = 1
    BY Zenon, FS_Singleton
  <2>4. ASSUME NEW l \in Buf
        PROVE  (refcnt[l] = Cardinality(Users(l)) + IF blockno[l] \in logged THEN 1 ELSE 0)'
    <3>1. CASE l = u
      <4>1. Users(l)' = {p}
        BY Zenon, <2>1, <3>1
      <4>2. refcnt'[l] = 1 /\ blockno'[l] \notin logged'
        BY Zenon, <1>d, <1>e, <1>c, <3>1
      <4> QED
        BY <2>3, <4>1, <4>2
    <3>2. CASE l # u
      <4>1. refcnt'[l] = refcnt[l] /\ blockno'[l] = blockno[l] /\ logged' = logged
        BY Zenon, <1>d, <1>e, <3>2
      <4> QED
        BY Zenon, <2>2, <3>2, <4>1 DEF RefInv
    <3> QED
      BY Zenon, <3>1, <3>2
  <2> QED
    BY Zenon, <2>4 DEF RefInv
<1>7. PinInv'
  <2>1. ASSUME NEW e \in logged
        PROVE  \E k \in Buf : blockno'[k] = e /\ valid'[k]
    <3>1. PICK k \in Buf : blockno[k] = e /\ valid[k]
      BY Zenon DEF PinInv
    <3>2. k # u
      BY Zenon, <1>d, <1>e, <3>1
    <3> QED
      BY Zenon, <1>d, <1>e, <3>1, <3>2
  <2> QED
    BY Zenon, <2>1 DEF PinInv
<1>8. DataInv'
  <2>1. \A q \in Proc : q # p => b'[q] = b[q] /\ pc'[q] = pc[q] /\ b[q] # u
    BY <1>d, <1>e
  <2>2. \A k \in Buf : k # u => blockno'[k] = blockno[k] /\ valid'[k] = valid[k]
    BY <1>d, <1>e
  <2>3. ~valid'[u] /\ pc'[p] = "acquire" /\ data' = data /\ disk' = disk /\ logged' = logged
    BY Zenon, <1>d, <1>e
  <2>4. \A q \in Proc : q # p /\ pc[q] # "idle" => b[q] \in Buf
    BY Zenon DEF HasInv
  <2>5. \A k \in Buf : valid'[k] => blockno'[k] \in Block
    BY Zenon, <2>2, <2>3 DEF DataInv
  <2>6. ASSUME NEW q \in Proc
        PROVE  (/\ pc[q] = "valid" => ~valid[b[q]]
                /\ pc[q] \in {"held", "changed", "written"} => valid[b[q]]
                /\ pc[q] \in {"valid", "written"} => data[b[q]] = disk[blockno[b[q]]])'
    <3>1. CASE q = p
      BY Zenon, <2>3, <3>1
    <3>2. CASE q # p
      <4>1. b'[q] = b[q] /\ pc'[q] = pc[q]
        BY Zenon, <2>1, <3>2
      <4>2. pc[q] # "idle" => valid'[b[q]] = valid[b[q]] /\ blockno'[b[q]] = blockno[b[q]]
        BY Zenon, <2>1, <2>2, <2>4, <3>2
      <4> QED
        <5>1. /\ pc[q] = "valid" => ~valid[b[q]]
              /\ pc[q] \in {"held", "changed", "written"} => valid[b[q]]
              /\ pc[q] \in {"valid", "written"} => data[b[q]] = disk[blockno[b[q]]]
          BY Zenon DEF DataInv
        <5> HIDE DEF IInv, TypeOK, bget_recycle
        <5> QED
          BY Zenon, <2>3, <4>1, <4>2, <5>1
    <3> QED
      BY Zenon, <3>1, <3>2
  <2>7. ASSUME NEW k \in Buf,
               (valid[k] /\ blockno[k] \notin logged /\ (\A q \in Proc : pc[q] = "changed" => b[q] # k))'
        PROVE  data'[k] = disk'[blockno'[k]]
    <3>1. k # u /\ valid[k] /\ blockno[k] \notin logged /\ blockno'[k] = blockno[k]
      BY Zenon, <2>2, <2>3, <2>7
    <3>2. pc[p] = "idle"
      BY Zenon
    <3>3. \A q \in Proc : pc[q] = "changed" => b[q] # k
      BY Zenon, <2>1, <2>7, <3>2
    <3> QED
      BY Zenon, <2>3, <3>1, <3>3 DEF DataInv
  <2> QED
    BY Zenon, <2>5, <2>6, <2>7 DEF DataInv
<1>9. SleeperHasHolder'
  BY <1>d, <1>e DEF SleeperHasHolder, LockInv, HasInv
<1> QED
  BY Zenon, <1>1, <1>2, <1>3, <1>4, <1>5, <1>6, <1>7, <1>8, <1>9

\* The lock is taken, or somebody has it.
LEMMA Step_acquiresleep ==
  ASSUME IInv, NEW p \in Proc, acquiresleep(p)
  PROVE  IInv'
<1> USE BCacheAssumption DEF IInv, TypeOK, Labels, Goto, Has, acquiresleep
<1>1. \A k \in Buf : Users(k)' = Users(k)
  BY Zenon DEF Users
<1>2. TypeOK'
  BY DEF HasInv
<1>3. ListInv'
  BY Zenon DEF ListInv
<1>4. HasInv'
  BY DEF HasInv, HasInv
<1>5. BlockInv'
  BY Zenon DEF BlockInv, HasInv
<1>6. LockInv'
  BY DEF LockInv, HasInv
<1>7. RefInv'
  BY Zenon, <1>1, UsersFinite DEF RefInv, HasInv, BlockInv
<1>8. PinInv'
  BY Zenon DEF PinInv, HasInv, DataInv
<1>9. DataInv'
  BY DEF DataInv, HasInv, LockInv, BlockInv
<1>10. SleeperHasHolder'
  BY DEF SleeperHasHolder, LockInv, HasInv
<1> QED
  BY Zenon, <1>2, <1>3, <1>4, <1>5, <1>6, <1>7, <1>8, <1>9, <1>10

\* The disk is read into a buffer that is not valid.
LEMMA Step_bread ==
  ASSUME IInv, NEW p \in Proc, bread(p)
  PROVE  IInv'
<1> USE BCacheAssumption DEF IInv, TypeOK, Labels, Goto, Has, bread
<1>1. \A k \in Buf : Users(k)' = Users(k)
  BY Zenon DEF Users
<1>2. TypeOK'
  BY DEF HasInv
<1>3. ListInv'
  BY Zenon DEF ListInv
<1>4. HasInv'
  BY DEF HasInv, HasInv
<1>5. BlockInv'
  BY Zenon DEF BlockInv, HasInv
<1>6. LockInv'
  BY DEF LockInv, HasInv
<1>7. RefInv'
  BY Zenon, <1>1, UsersFinite DEF RefInv, HasInv, BlockInv
<1>8. PinInv'
  BY Zenon DEF PinInv, HasInv, DataInv
<1>9. DataInv'
  BY DEF DataInv, HasInv, LockInv, BlockInv
<1>10. SleeperHasHolder'
  BY DEF SleeperHasHolder, LockInv, HasInv
<1> QED
  BY Zenon, <1>2, <1>3, <1>4, <1>5, <1>6, <1>7, <1>8, <1>9, <1>10

\* The buffer becomes valid.
LEMMA Step_bread_valid ==
  ASSUME IInv, NEW p \in Proc, bread_valid(p)
  PROVE  IInv'
<1> USE BCacheAssumption DEF IInv, TypeOK, Labels, Goto, Has, bread_valid
<1>1. \A k \in Buf : Users(k)' = Users(k)
  BY Zenon DEF Users
<1>2. TypeOK'
  BY Zenon DEF HasInv
<1>3. ListInv'
  BY Zenon DEF ListInv
<1>4. HasInv'
  BY Zenon DEF HasInv, HasInv
<1>5. BlockInv'
  BY Zenon DEF BlockInv, HasInv
<1>6. LockInv'
  BY DEF LockInv, HasInv
<1>7. RefInv'
  BY Zenon, <1>1, UsersFinite DEF RefInv, HasInv, BlockInv
<1>8. PinInv'
  BY Zenon DEF PinInv, HasInv, DataInv
<1>9. DataInv'
  BY DEF DataInv, HasInv, LockInv, BlockInv
<1>10. SleeperHasHolder'
  BY DEF SleeperHasHolder, LockInv, HasInv
<1> QED
  BY Zenon, <1>2, <1>3, <1>4, <1>5, <1>6, <1>7, <1>8, <1>9, <1>10

\* The holder changes the data.
LEMMA Step_change ==
  ASSUME IInv, NEW p \in Proc, NEW v \in Value, change(p, v)
  PROVE  IInv'
<1> USE BCacheAssumption DEF IInv, TypeOK, Labels, Goto, Has, change
<1>1. \A k \in Buf : Users(k)' = Users(k)
  BY Zenon DEF Users
<1>2. TypeOK'
  BY Zenon DEF HasInv
<1>3. ListInv'
  BY Zenon DEF ListInv
<1>4. HasInv'
  BY Zenon DEF HasInv, HasInv
<1>5. BlockInv'
  BY Zenon DEF BlockInv, HasInv
<1>6. LockInv'
  BY DEF LockInv, HasInv
<1>7. RefInv'
  BY Zenon, <1>1, UsersFinite DEF RefInv, HasInv, BlockInv
<1>8. PinInv'
  BY Zenon DEF PinInv, HasInv, DataInv
<1>9. DataInv'
  BY DEF DataInv, HasInv, LockInv, BlockInv
<1>10. SleeperHasHolder'
  BY DEF SleeperHasHolder, LockInv, HasInv
<1> QED
  BY Zenon, <1>2, <1>3, <1>4, <1>5, <1>6, <1>7, <1>8, <1>9, <1>10

\* The disk is made equal to the buffer.
LEMMA Step_bwrite ==
  ASSUME IInv, NEW p \in Proc, bwrite(p)
  PROVE  IInv'
<1> USE BCacheAssumption DEF IInv, TypeOK, Labels, Goto, Has, bwrite, holdingsleep
<1>1. \A k \in Buf : Users(k)' = Users(k)
  BY Zenon DEF Users
<1>2. TypeOK'
  BY Zenon DEF HasInv
<1>3. ListInv'
  BY Zenon DEF ListInv
<1>4. HasInv'
  BY Zenon DEF HasInv, HasInv
<1>5. BlockInv'
  BY Zenon DEF BlockInv, HasInv
<1>6. LockInv'
  BY DEF LockInv, HasInv
<1>7. RefInv'
  BY Zenon, <1>1, UsersFinite DEF RefInv, HasInv, BlockInv
<1>8. PinInv'
  BY Zenon DEF PinInv, HasInv, DataInv
<1>9. DataInv'
  BY DEF DataInv, HasInv, LockInv, BlockInv
<1>10. SleeperHasHolder'
  BY DEF SleeperHasHolder, LockInv, HasInv
<1> QED
  BY Zenon, <1>2, <1>3, <1>4, <1>5, <1>6, <1>7, <1>8, <1>9, <1>10

\* A changed block is pinned.
LEMMA Step_bpin ==
  ASSUME IInv, NEW p \in Proc, bpin(p)
  PROVE  IInv'
<1> USE BCacheAssumption DEF IInv, TypeOK, Labels, Goto, Has, bpin
<1>1. \A k \in Buf : Users(k)' = Users(k)
  BY Zenon DEF Users
<1>2. TypeOK'
  BY DEF HasInv
<1>3. ListInv'
  BY Zenon DEF ListInv
<1>4. HasInv'
  BY Zenon DEF HasInv, HasInv
<1>5. BlockInv'
  BY Zenon DEF BlockInv, HasInv
<1>6. LockInv'
  BY DEF LockInv, HasInv
<1>7. RefInv'
  BY <1>1, UsersFinite DEF RefInv, HasInv, BlockInv
<1>8. PinInv'
  <2>1. b[p] \in Buf /\ valid[b[p]] /\ valid' = valid /\ blockno' = blockno
    BY Zenon DEF HasInv, DataInv
  <2>2. CASE blockno[b[p]] \in logged
    BY <2>1, <2>2 DEF PinInv
  <2>3. CASE blockno[b[p]] \notin logged
    <3>1. logged' = logged \cup {blockno[b[p]]} /\ Cardinality(logged) < MaxPins
      BY Zenon, <2>3
    <3>2. IsFiniteSet(logged') /\ Cardinality(logged') = Cardinality(logged) + 1
          /\ Cardinality(logged) \in Nat
      BY ZenonT(60), <2>3, <3>1, FS_AddElement, FS_CardinalityType DEF PinInv
    <3> QED
      BY <2>1, <3>1, <3>2 DEF PinInv
  <2> QED
    BY Zenon, <2>2, <2>3
<1>9. DataInv'
  BY SMTT(30) DEF DataInv, HasInv, LockInv, BlockInv
<1>10. SleeperHasHolder'
  BY DEF SleeperHasHolder, LockInv, HasInv
<1> QED
  BY Zenon, <1>2, <1>3, <1>4, <1>5, <1>6, <1>7, <1>8, <1>9, <1>10

\* A written block is unpinned.
LEMMA Step_bunpin ==
  ASSUME IInv, NEW p \in Proc, bunpin(p)
  PROVE  IInv'
<1> USE BCacheAssumption DEF IInv, TypeOK, Labels, Goto, Has, bunpin
<1>a. b[p] \in Buf /\ refcnt[b[p]] >= 1
  BY Zenon, Counted
<1>1. \A k \in Buf : Users(k)' = Users(k)
  BY Zenon DEF Users
<1>2. TypeOK'
  BY <1>a
<1>3. ListInv'
  BY Zenon DEF ListInv
<1>4. HasInv'
  BY Zenon DEF HasInv, HasInv
<1>5. BlockInv'
  BY Zenon DEF BlockInv, HasInv
<1>6. LockInv'
  BY Zenon DEF LockInv, HasInv
<1>7. RefInv'
  BY <1>1, UsersFinite DEF RefInv, HasInv, BlockInv
<1>8. PinInv'
  <2>1. logged' = logged \ {blockno[b[p]]}
    BY Zenon
  <2>2. IsFiniteSet(logged') /\ Cardinality(logged') <= Cardinality(logged)
        /\ Cardinality(logged) \in Nat /\ Cardinality(logged') \in Nat
    BY Zenon, <2>1, FS_Subset, FS_CardinalityType DEF PinInv
  <2>3. Cardinality(logged') <= MaxPins
    BY <2>2 DEF PinInv
  <2> QED
    BY Zenon, <2>1, <2>2, <2>3 DEF PinInv
<1>9. DataInv'
  BY SMTT(30) DEF DataInv, HasInv, LockInv, BlockInv
<1>10. SleeperHasHolder'
  BY Zenon DEF SleeperHasHolder, LockInv, HasInv
<1> QED
  BY Zenon, <1>2, <1>3, <1>4, <1>5, <1>6, <1>7, <1>8, <1>9, <1>10

\* The lock is given back.
LEMMA Step_brelse ==
  ASSUME IInv, NEW p \in Proc, brelse(p)
  PROVE  IInv'
<1> USE BCacheAssumption DEF IInv, TypeOK, Labels, Goto, Has, brelse, holdingsleep
<1>1. \A k \in Buf : Users(k)' = Users(k)
  BY Zenon DEF Users
<1>2. TypeOK'
  BY Zenon DEF HasInv
<1>3. ListInv'
  BY Zenon DEF ListInv
<1>4. HasInv'
  BY Zenon DEF HasInv, HasInv
<1>5. BlockInv'
  BY Zenon DEF BlockInv, HasInv
<1>6. LockInv'
  BY SMTT(30) DEF LockInv, HasInv
<1>7. RefInv'
  BY Zenon, <1>1, UsersFinite DEF RefInv, HasInv, BlockInv
<1>8. PinInv'
  BY Zenon DEF PinInv, HasInv, DataInv
<1>9. DataInv'
  BY Zenon DEF DataInv, HasInv, LockInv, BlockInv
<1>10. SleeperHasHolder'
  BY Zenon DEF SleeperHasHolder, LockInv, HasInv
<1> QED
  BY Zenon, <1>2, <1>3, <1>4, <1>5, <1>6, <1>7, <1>8, <1>9, <1>10

\* A process less has the buffer.
LEMMA Step_brelse_ref ==
  ASSUME IInv, NEW p \in Proc, brelse_ref(p)
  PROVE  IInv'
<1> USE BCacheAssumption DEF IInv, TypeOK, Labels, Goto, Has, brelse_ref
<1>b. ListInv
  BY Zenon
<1>a. b[p] \in Buf /\ refcnt[b[p]] >= 1
  BY Zenon, Counted
<1>1. TypeOK'
  BY SMTT(30), <1>a
<1>2. ListInv'
  <2>1. CASE refcnt'[b[p]] = 0
    <3>1. Place(b[p]) \in 1 .. Len(lru) /\ lru[Place(b[p])] = b[p]
      <4> HIDE DEF IInv, TypeOK, brelse_ref
      <4>1. \E j \in DOMAIN lru : lru[j] = b[p]
        BY <1>a, <1>b DEF ListInv, Lists
      <4>2. Place(b[p]) \in DOMAIN lru /\ lru[Place(b[p])] = b[p]
        BY Zenon, <4>1 DEF Place
      <4> QED
        BY <1>b, <4>2 DEF ListInv
    <3>2. lru' = <<b[p]>> \o Unlinked(lru, Place(b[p]))
      BY Zenon, <2>1
    <3> HIDE DEF IInv, TypeOK, brelse_ref
    <3> QED
      BY Zenon, <1>a, <1>b, <3>1, <3>2, ToFront DEF ListInv
  <2>2. CASE refcnt'[b[p]] # 0
    BY Zenon, <2>2 DEF ListInv
  <2> QED
    BY Zenon, <2>1, <2>2
<1>3. HasInv'
  BY Zenon DEF HasInv, HasInv
<1>4. BlockInv'
  BY Zenon DEF BlockInv, HasInv
<1>5. LockInv'
  BY DEF LockInv, HasInv
<1>6. RefInv'
  <2>0. PICK k \in Buf : k = b[p]
    BY Zenon, <1>a
  <2>1. p \in Users(k) /\ Users(k)' = Users(k) \ {p}
    BY Zenon, <2>0 DEF Users
  <2>2. \A l \in Buf : l # k => Users(l)' = Users(l)
    BY Zenon, <2>0 DEF Users
  <2>3. Cardinality(Users(k)') = Cardinality(Users(k)) - 1
    BY Zenon, <2>1, UsersFinite, OneUser
  <2>4. \A l \in Buf : Cardinality(Users(l)) \in Nat
    BY Zenon, UsersFinite
  <2>5. UNCHANGED <<blockno, logged>> /\ refcnt' = [refcnt EXCEPT ![k] = @ - 1]
    BY Zenon, <2>0
  <2> QED
    BY <2>2, <2>3, <2>4, <2>5 DEF RefInv
<1>7. PinInv'
  BY Zenon DEF PinInv, HasInv, DataInv
<1>8. DataInv'
  BY SMTT(30) DEF DataInv, HasInv, LockInv, BlockInv
<1>9. SleeperHasHolder'
  BY DEF SleeperHasHolder, LockInv, HasInv
<1> QED
  BY Zenon, <1>1, <1>2, <1>3, <1>4, <1>5, <1>6, <1>7, <1>8, <1>9
-----------------------------------------------------------------------------
LEMMA StepIInv == IInv /\ [Next]_vars => IInv'
<1> SUFFICES ASSUME IInv, [Next]_vars PROVE IInv'
  BY Zenon
<1>1. CASE Next
  <2> PICK p \in Proc :
         \/ acquiresleep(p) \/ bread(p) \/ bread_valid(p)
         \/ bwrite(p) \/ bpin(p) \/ bunpin(p)
         \/ brelse(p) \/ brelse_ref(p)
         \/ \E d \in Block : bget_hit(p, d) \/ bget_recycle(p, d)
         \/ \E v \in Value : change(p, v)
    BY Zenon, <1>1 DEF Next
  <2> QED
    BY Zenon, Step_acquiresleep, Step_bread, Step_bread_valid, Step_bwrite, Step_bpin, Step_bunpin,
       Step_brelse, Step_brelse_ref, Step_bget_hit, Step_bget_recycle, Step_change
<1>2. CASE UNCHANGED vars
  BY SMTT(30), <1>2 DEF IInv, TypeOK, ListInv, HasInv, BlockInv, LockInv, RefInv, PinInv, DataInv,
     SleeperHasHolder, Users, Has, vars
<1> QED
  BY Zenon, <1>1, <1>2

\* The conjuncts of IInv hold in every reachable state.
THEOREM Inductive == Spec => []IInv
  BY InitIInv, StepIInv, PTL DEF Spec

\* A process that sleeps on a buffer's lock is never left behind by the last holder
\* (sleeplock.c: acquiresleep(), releasesleep()).
THEOREM SleepersHaveHolders == Spec => []SleeperHasHolder
  BY Inductive, PTL DEF IInv
-----------------------------------------------------------------------------
(* bget() does not panic.                                                  *)

\* The buffers outnumber the pins and the processes, as in param.h (NBUF).
Enough == Cardinality(Buf) > MaxPins + Cardinality(Proc)

LEMMA UnusedLeft ==
  ASSUME IInv, Enough
  PROVE  Unused # {}
<1> USE DEF IInv
<1> DEFINE Used == {k \in Buf : refcnt[k] # 0}
           H == {k \in Buf : \E p \in Proc : b[p] = k}
           L == {k \in Buf : blockno[k] \in logged}
<1>1. Used \subseteq H \cup L
  <2> SUFFICES ASSUME NEW k \in Buf, refcnt[k] # 0, k \notin L
               PROVE  \E p \in Proc : b[p] = k
    BY Zenon
  <2>1. Cardinality(Users(k)) # 0
    BY UsersFinite DEF RefInv
  <2>2. Users(k) # {}
    BY Zenon, <2>1, FS_EmptySet
  <2> QED
    BY Zenon, <2>2 DEF Users
<1>2. IsFiniteSet(H) /\ Cardinality(H) <= Cardinality(Proc)
  <2> DEFINE HP == {p \in Proc : b[p] \in Buf}
             f == [p \in HP |-> b[p]]
  <2>1. IsFiniteSet(HP) /\ Cardinality(HP) <= Cardinality(Proc)
    BY Zenon, BCacheAssumption, FS_Subset
  <2>2. f \in Surjection(HP, H)
    BY Zenon DEF Surjection
  <2>3. IsFiniteSet(H) /\ Cardinality(H) <= Cardinality(HP)
    <3> HIDE DEF f, HP, H
    <3> QED
      BY Zenon, <2>1, <2>2, FS_Surjection
  <2>4. Cardinality(H) \in Nat /\ Cardinality(HP) \in Nat /\ Cardinality(Proc) \in Nat
    BY Zenon, <2>1, <2>3, BCacheAssumption, FS_CardinalityType
  <2> HIDE DEF f, HP, H
  <2> QED
    BY <2>1, <2>3, <2>4
<1>3. IsFiniteSet(L) /\ Cardinality(L) <= MaxPins
  <2> DEFINE f == [k \in L |-> blockno[k]]
  <2>1. f \in Injection(L, logged)
    <3>1. \A k, l \in L : blockno[k] = blockno[l] => k = l
      BY Zenon, BCacheAssumption DEF BlockInv, TypeOK
    <3> QED
      BY Zenon, <3>1 DEF Injection, IsInjective
  <2>2. IsFiniteSet(L) /\ Cardinality(L) <= Cardinality(logged)
    <3>1. IsFiniteSet(logged)
      BY Zenon DEF PinInv
    <3> HIDE DEF f, L
    <3> QED
      BY Zenon, <2>1, <3>1, FS_Injection
  <2>3. Cardinality(L) \in Nat /\ Cardinality(logged) \in Nat /\ Cardinality(logged) <= MaxPins
    BY Zenon, <2>2, FS_CardinalityType DEF PinInv
  <2> QED
    BY <2>2, <2>3, BCacheAssumption
<1> HIDE DEF H, L
<1>4. Cardinality(H \cup L) <= Cardinality(Proc) + MaxPins /\ IsFiniteSet(H \cup L)
  <2>1. /\ IsFiniteSet(H \cup L) /\ IsFiniteSet(H \cap L)
        /\ Cardinality(H \cup L) = Cardinality(H) + Cardinality(L) - Cardinality(H \cap L)
    BY Zenon, <1>2, <1>3, FS_Union, FS_Intersection
  <2>2. /\ Cardinality(H) \in Nat /\ Cardinality(L) \in Nat /\ Cardinality(H \cap L) \in Nat
        /\ Cardinality(Proc) \in Nat
    BY Zenon, <1>2, <1>3, <2>1, BCacheAssumption, FS_CardinalityType
  <2> QED
    BY <1>2, <1>3, <2>1, <2>2, BCacheAssumption
<1>5. PICK k \in Buf : refcnt[k] = 0
  <2> SUFFICES ASSUME Buf \subseteq H \cup L PROVE FALSE
    BY Zenon, <1>1
  <2>1. Cardinality(Buf) <= Cardinality(H \cup L)
    BY Zenon, <1>4, FS_Subset
  <2>2. /\ Cardinality(Buf) \in Nat /\ Cardinality(H \cup L) \in Nat /\ Cardinality(Proc) \in Nat
    BY Zenon, <1>4, BCacheAssumption, FS_CardinalityType
  <2> QED
    BY <1>4, <2>1, <2>2, BCacheAssumption DEF Enough
<1>6. PICK j \in 1 .. Len(lru) : lru[j] = k
  BY Zenon DEF ListInv, Lists
<1> QED
  BY <1>5, <1>6 DEF ListInv, Unused

\* bget() does not reach panic("bget: no buffers") while there are more buffers than
\* blocks the log may pin and processes.
THEOREM BufferLeft ==
  ASSUME Enough
  PROVE  Spec => [](Unused # {})
<1>1. IInv => Unused # {}
  BY Zenon, UnusedLeft
<1> QED
  BY <1>1, Inductive, PTL
-----------------------------------------------------------------------------
(* The refinement.                                                         *)

\* The value and the owner of each block, when n are the blocks of the buffers, w tells
\* which are valid, s is their data, t the disk, and l who has locked them.
Val(n, w, s, t) ==
  [d \in Block |-> IF \E k \in {i \in Buf : n[i] = d} : w[k]
                   THEN s[CHOOSE k \in {i \in Buf : n[i] = d} : w[k]]
                   ELSE t[d]]
Owner(n, l) ==
  [d \in Block |-> IF \E k \in {i \in Buf : n[i] = d} : l[k] # NoProc
                   THEN l[CHOOSE k \in {i \in Buf : n[i] = d} : l[k] # NoProc]
                   ELSE NoProc]

\* No two buffers have the same block.
Distinct(n) == \A k, l \in Buf : n[k] = n[l] /\ n[k] \in Block => k = l

\* A cached block is what its buffer says, another is what the disk says.
LEMMA ValIs ==
  ASSUME NEW n, NEW w, NEW s, NEW t, Distinct(n), NEW d \in Block
  PROVE  /\ \A k \in Buf : n[k] = d => Val(n, w, s, t)[d] = IF w[k] THEN s[k] ELSE t[d]
         /\ (\A k \in Buf : n[k] # d) => Val(n, w, s, t)[d] = t[d]
<1>1. ASSUME NEW k \in Buf, n[k] = d
      PROVE  Val(n, w, s, t)[d] = IF w[k] THEN s[k] ELSE t[d]
  <2>1. {i \in Buf : n[i] = d} = {k}
    BY Zenon, <1>1 DEF Distinct
  <2> QED
    BY Zenon, <2>1 DEF Val
<1> QED
  BY Zenon, <1>1 DEF Val

LEMMA OwnerIs ==
  ASSUME NEW n, NEW l, Distinct(n), NEW d \in Block
  PROVE  /\ \A k \in Buf : n[k] = d => Owner(n, l)[d] = l[k]
         /\ (\A k \in Buf : n[k] # d) => Owner(n, l)[d] = NoProc
<1>1. ASSUME NEW k \in Buf, n[k] = d
      PROVE  Owner(n, l)[d] = l[k]
  <2>1. {i \in Buf : n[i] = d} = {k}
    BY Zenon, <1>1 DEF Distinct
  <2> QED
    BY Zenon, <2>1 DEF Owner
<1> QED
  BY Zenon, <1>1 DEF Owner

\* Two functions on the blocks are equal if they are at each block.
LEMMA ValEqual ==
  ASSUME NEW n, NEW w, NEW s, NEW t, NEW f, f = [d \in Block |-> f[d]],
         \A d \in Block : Val(n, w, s, t)[d] = f[d]
  PROVE  Val(n, w, s, t) = f
<1>1. Val(n, w, s, t) = [d \in Block |-> Val(n, w, s, t)[d]]
  BY Zenon DEF Val
<1> QED
  BY Zenon, <1>1

LEMMA OwnerEqual ==
  ASSUME NEW n, NEW l, NEW f, f = [d \in Block |-> f[d]],
         \A d \in Block : Owner(n, l)[d] = f[d]
  PROVE  Owner(n, l) = f
<1>1. Owner(n, l) = [d \in Block |-> Owner(n, l)[d]]
  BY Zenon DEF Owner
<1> QED
  BY Zenon, <1>1

val == Val(blockno, valid, data, disk)
owner == Owner(blockno, locked)

LEMMA Mapping ==
  ASSUME IInv
  PROVE  Distinct(blockno)
  BY Zenon, BCacheAssumption DEF IInv, BlockInv, Distinct

LEMMA Stutter ==
  ASSUME val' = val, owner' = owner
  PROVE  [S!Next]_(S!vars)
  BY Zenon DEF S!vars, val, owner, Val, Owner, Cached

\* The values are determined by what the buffers and the disk say of each block.
LEMMA ValUnique ==
  ASSUME NEW n, NEW w, NEW s, NEW t, Distinct(n), NEW f, f = [d \in Block |-> f[d]],
         \A k \in Buf : n[k] \in Block => f[n[k]] = IF w[k] THEN s[k] ELSE t[n[k]],
         \A d \in Block : (\A k \in Buf : n[k] # d) => f[d] = t[d]
  PROVE  f = Val(n, w, s, t)
<1>1. ASSUME NEW d \in Block
      PROVE  Val(n, w, s, t)[d] = f[d]
  <2>1. CASE \E i \in Buf : n[i] = d
    <3> PICK i \in Buf : n[i] = d
      BY Zenon, <2>1
    <3>1. Val(n, w, s, t)[d] = IF w[i] THEN s[i] ELSE t[d]
      BY ValIs
    <3> QED
      BY Zenon, <3>1
  <2>2. CASE \A i \in Buf : n[i] # d
    <3>1. Val(n, w, s, t)[d] = t[d]
      BY <2>2, ValIs
    <3> QED
      BY Zenon, <2>2, <3>1
  <2> QED
    BY Zenon, <2>1, <2>2
<1> QED
  BY <1>1, ValEqual

LEMMA OwnerUnique ==
  ASSUME NEW n, NEW l, Distinct(n), NEW f, f = [d \in Block |-> f[d]],
         \A k \in Buf : n[k] \in Block => f[n[k]] = l[k],
         \A d \in Block : (\A k \in Buf : n[k] # d) => f[d] = NoProc
  PROVE  f = Owner(n, l)
<1>1. ASSUME NEW d \in Block
      PROVE  Owner(n, l)[d] = f[d]
  <2>1. CASE \E i \in Buf : n[i] = d
    <3> PICK i \in Buf : n[i] = d
      BY Zenon, <2>1
    <3>1. Owner(n, l)[d] = l[i]
      BY OwnerIs
    <3> QED
      BY Zenon, <3>1
  <2>2. CASE \A i \in Buf : n[i] # d
    <3>1. Owner(n, l)[d] = NoProc
      BY <2>2, OwnerIs
    <3> QED
      BY Zenon, <2>2, <3>1
  <2> QED
    BY Zenon, <2>1, <2>2
<1> QED
  BY <1>1, OwnerEqual

\* A lock changes hands.
LEMMA OwnerSet ==
  ASSUME NEW n, Distinct(n), NEW k \in Buf, n[k] \in Block,
         NEW l, NEW m, NEW q, m[k] = q, \A i \in Buf : i # k => m[i] = l[i]
  PROVE  Owner(n, m) = [Owner(n, l) EXCEPT ![n[k]] = q]
<1> DEFINE g == Owner(n, l)
           f == [g EXCEPT ![n[k]] = q]
<1>1. g = [d \in Block |-> g[d]]
  BY Zenon DEF Owner
<1>2. \A i \in Buf : n[i] \in Block => g[n[i]] = l[i]
  BY OwnerIs
<1>3. \A d \in Block : (\A i \in Buf : n[i] # d) => g[d] = NoProc
  BY OwnerIs
<1> HIDE DEF g
<1>4. f = [d \in Block |-> f[d]]
  BY Zenon, <1>1
<1>5. \A i \in Buf : n[i] \in Block => f[n[i]] = m[i]
  BY Zenon, <1>1, <1>2 DEF Distinct
<1>6. \A d \in Block : (\A i \in Buf : n[i] # d) => f[d] = NoProc
  BY Zenon, <1>1, <1>3 DEF Distinct
<1> HIDE DEF f
<1>7. f = Owner(n, m)
  BY <1>4, <1>5, <1>6, OwnerUnique
<1> QED
  BY Zenon, <1>7 DEF f, g

\* A valid buffer is changed.
LEMMA ValSet ==
  ASSUME NEW n, Distinct(n), NEW k \in Buf, n[k] \in Block,
         NEW w, NEW s, NEW t, w[k],
         NEW r, \A i \in Buf : i # k => r[i] = s[i]
  PROVE  Val(n, w, r, t) = [Val(n, w, s, t) EXCEPT ![n[k]] = r[k]]
<1> DEFINE g == Val(n, w, s, t)
           f == [g EXCEPT ![n[k]] = r[k]]
<1>1. g = [d \in Block |-> g[d]]
  BY Zenon DEF Val
<1>2. \A i \in Buf : n[i] \in Block => g[n[i]] = IF w[i] THEN s[i] ELSE t[n[i]]
  BY SMTT(30), ValIs
<1>3. \A d \in Block : (\A i \in Buf : n[i] # d) => g[d] = t[d]
  BY SMTT(30), ValIs
<1> HIDE DEF g
<1>4. f = [d \in Block |-> f[d]]
  BY Zenon, <1>1
<1>5. \A i \in Buf : n[i] \in Block => f[n[i]] = IF w[i] THEN r[i] ELSE t[n[i]]
  BY Zenon, <1>1, <1>2 DEF Distinct
<1>6. \A d \in Block : (\A i \in Buf : n[i] # d) => f[d] = t[d]
  BY Zenon, <1>1, <1>3 DEF Distinct
<1> HIDE DEF f
<1>7. f = Val(n, w, r, t)
  BY <1>4, <1>5, <1>6, ValUnique
<1> QED
  BY Zenon, <1>7 DEF f, g

\* A buffer that is not valid is filled.
LEMMA FillSame ==
  ASSUME NEW n, Distinct(n), NEW k \in Buf, n[k] \in Block,
         NEW w, NEW s, NEW t, ~w[k],
         NEW r, \A i \in Buf : i # k => r[i] = s[i]
  PROVE  Val(n, w, r, t) = Val(n, w, s, t)
<1> DEFINE g == Val(n, w, s, t)
           f == g
<1>1. g = [d \in Block |-> g[d]]
  BY Zenon DEF Val
<1>2. \A i \in Buf : n[i] \in Block => g[n[i]] = IF w[i] THEN s[i] ELSE t[n[i]]
  BY SMTT(30), ValIs
<1>3. \A d \in Block : (\A i \in Buf : n[i] # d) => g[d] = t[d]
  BY SMTT(30), ValIs
<1> HIDE DEF g
<1>4. f = [d \in Block |-> f[d]]
  BY Zenon, <1>1
<1>5. \A i \in Buf : n[i] \in Block => f[n[i]] = IF w[i] THEN r[i] ELSE t[n[i]]
  BY Zenon, <1>1, <1>2 DEF Distinct
<1>6. \A d \in Block : (\A i \in Buf : n[i] # d) => f[d] = t[d]
  BY Zenon, <1>1, <1>3 DEF Distinct
<1> HIDE DEF f
<1>7. f = Val(n, w, r, t)
  BY <1>4, <1>5, <1>6, ValUnique
<1> QED
  BY Zenon, <1>7 DEF f, g

\* A block with a valid buffer is written.
LEMMA DiskSame ==
  ASSUME NEW n, Distinct(n), NEW k \in Buf, n[k] \in Block,
         NEW w, NEW s, NEW t, w[k],
         NEW u, \A d \in Block : d # n[k] => u[d] = t[d]
  PROVE  Val(n, w, s, u) = Val(n, w, s, t)
<1> DEFINE g == Val(n, w, s, t)
           f == g
<1>1. g = [d \in Block |-> g[d]]
  BY Zenon DEF Val
<1>2. \A i \in Buf : n[i] \in Block => g[n[i]] = IF w[i] THEN s[i] ELSE t[n[i]]
  BY SMTT(30), ValIs
<1>3. \A d \in Block : (\A i \in Buf : n[i] # d) => g[d] = t[d]
  BY SMTT(30), ValIs
<1> HIDE DEF g
<1>4. f = [d \in Block |-> f[d]]
  BY Zenon, <1>1
<1>5. \A i \in Buf : n[i] \in Block => f[n[i]] = IF w[i] THEN s[i] ELSE u[n[i]]
  BY Zenon, <1>1, <1>2 DEF Distinct
<1>6. \A d \in Block : (\A i \in Buf : n[i] # d) => f[d] = u[d]
  BY Zenon, <1>1, <1>3 DEF Distinct
<1> HIDE DEF f
<1>7. f = Val(n, w, s, u)
  BY <1>4, <1>5, <1>6, ValUnique
<1> QED
  BY Zenon, <1>7 DEF f, g

\* A buffer that equals the disk becomes valid.
LEMMA ValidSame ==
  ASSUME NEW n, Distinct(n), NEW k \in Buf, n[k] \in Block,
         NEW w, NEW s, NEW t, s[k] = t[n[k]],
         NEW z, z[k], \A i \in Buf : i # k => z[i] = w[i]
  PROVE  Val(n, z, s, t) = Val(n, w, s, t)
<1> DEFINE g == Val(n, w, s, t)
           f == g
<1>1. g = [d \in Block |-> g[d]]
  BY Zenon DEF Val
<1>2. \A i \in Buf : n[i] \in Block => g[n[i]] = IF w[i] THEN s[i] ELSE t[n[i]]
  BY SMTT(30), ValIs
<1>3. \A d \in Block : (\A i \in Buf : n[i] # d) => g[d] = t[d]
  BY SMTT(30), ValIs
<1> HIDE DEF g
<1>4. f = [d \in Block |-> f[d]]
  BY Zenon, <1>1
<1>5. \A i \in Buf : n[i] \in Block => f[n[i]] = IF z[i] THEN s[i] ELSE t[n[i]]
  BY Zenon, <1>1, <1>2 DEF Distinct
<1>6. \A d \in Block : (\A i \in Buf : n[i] # d) => f[d] = t[d]
  BY Zenon, <1>1, <1>3 DEF Distinct
<1> HIDE DEF f
<1>7. f = Val(n, z, s, t)
  BY <1>4, <1>5, <1>6, ValUnique
<1> QED
  BY Zenon, <1>7 DEF f, g

\* A buffer that is not valid or equals the disk is given a block that has no buffer.
LEMMA RecycleSame ==
  ASSUME NEW n, Distinct(n), NEW k \in Buf, NEW e \in Block, \A i \in Buf : n[i] # e,
         NEW w, NEW s, NEW t, w[k] /\ n[k] \in Block => s[k] = t[n[k]],
         NEW l, l[k] = NoProc,
         NEW m, m[k] = e, \A i \in Buf : i # k => m[i] = n[i],
         NEW z, ~z[k], \A i \in Buf : i # k => z[i] = w[i]
  PROVE  /\ Val(m, z, s, t) = Val(n, w, s, t)
         /\ Owner(m, l) = Owner(n, l)
<1>1. Distinct(m)
  BY DEF Distinct
<1>2. Val(m, z, s, t) = Val(n, w, s, t)
  <2> DEFINE f == Val(n, w, s, t)
  <2>1. f = [d \in Block |-> f[d]]
    BY Zenon DEF Val
  <2>2. \A i \in Buf : n[i] \in Block => f[n[i]] = IF w[i] THEN s[i] ELSE t[n[i]]
    BY SMTT(30), ValIs
  <2>3. \A d \in Block : (\A i \in Buf : n[i] # d) => f[d] = t[d]
    BY SMTT(30), ValIs
  <2> HIDE DEF f
  <2>4. \A i \in Buf : m[i] \in Block => f[m[i]] = IF z[i] THEN s[i] ELSE t[m[i]]
    BY SMTT(30), <2>2, <2>3
  <2>5. ASSUME NEW d \in Block, \A i \in Buf : m[i] # d
        PROVE  f[d] = t[d]
    <3>1. CASE n[k] = d
      BY Zenon, <2>2, <3>1
    <3>2. CASE n[k] # d
      BY <2>3, <2>5, <3>2
    <3> QED
      BY Zenon, <3>1, <3>2
  <2>6. f = Val(m, z, s, t)
    BY <1>1, <2>1, <2>4, <2>5, ValUnique
  <2> QED
    BY Zenon, <2>6 DEF f
<1>3. Owner(m, l) = Owner(n, l)
  <2> DEFINE f == Owner(n, l)
  <2>1. f = [d \in Block |-> f[d]]
    BY Zenon DEF Owner
  <2>2. \A i \in Buf : n[i] \in Block => f[n[i]] = l[i]
    BY SMTT(30), OwnerIs
  <2>3. \A d \in Block : (\A i \in Buf : n[i] # d) => f[d] = NoProc
    BY SMTT(30), OwnerIs
  <2> HIDE DEF f
  <2>4. \A i \in Buf : m[i] \in Block => f[m[i]] = l[i]
    BY SMTT(30), <2>2, <2>3
  <2>5. ASSUME NEW d \in Block, \A i \in Buf : m[i] # d
        PROVE  f[d] = NoProc
    <3>1. CASE n[k] = d
      BY Zenon, <2>2, <3>1
    <3>2. CASE n[k] # d
      BY <2>3, <2>5, <3>2
    <3> QED
      BY Zenon, <3>1, <3>2
  <2>6. f = Owner(m, l)
    BY <1>1, <2>1, <2>4, <2>5, OwnerUnique
  <2> QED
    BY Zenon, <2>6 DEF f
<1> QED
  BY Zenon, <1>2, <1>3

\* A client with a buffer: the block it holds, and what the cache shows of it.
LEMMA Holder ==
  ASSUME IInv, NEW p \in Proc, Has(p)
  PROVE  /\ b[p] \in Buf /\ blockno[b[p]] \in Block
         /\ locked[b[p]] = p
         /\ owner[blockno[b[p]]] = p
<1>1. b[p] \in Buf /\ blockno[b[p]] \in Block /\ locked[b[p]] = p
  BY Zenon, BCacheAssumption DEF IInv, TypeOK, HasInv, LockInv, BlockInv, Has
<1>2. owner[blockno[b[p]]] = p
  BY <1>1, Mapping, OwnerIs DEF owner
<1> QED
  BY Zenon, <1>1, <1>2

\* What takes a reference, drops one, pins or unpins is not seen.
LEMMA Ref_quiet ==
  ASSUME UNCHANGED <<blockno, valid, data, locked, disk>>
  PROVE  [S!Next]_(S!vars)
<1>1. val' = val /\ owner' = owner
  BY Zenon DEF val, owner, Val, Owner
<1> QED
  BY Zenon, <1>1, Stutter

LEMMA Ref_bget_recycle ==
  ASSUME IInv, NEW p \in Proc, NEW d \in Block, bget_recycle(p, d)
  PROVE  [S!Next]_(S!vars)
<1> USE BCacheAssumption
<1>1. Victim \in Buf /\ refcnt[Victim] = 0
  BY Zenon, VictimUnused DEF IInv, TypeOK, ListInv, bget_recycle
<1>2. PICK k \in Buf : k = Victim
  BY Zenon, <1>1
<1>3. /\ \A q \in Proc : b[q] # k
      /\ blockno[k] \notin logged
  BY Zenon, <1>1, <1>2, NoReference DEF IInv
<1>4. locked[k] = NoProc
  BY <1>3 DEF IInv, TypeOK, LockInv
<1>5. valid[k] => data[k] = disk[blockno[k]]
  BY Zenon, <1>3 DEF IInv, DataInv
<1>6. /\ blockno' = [blockno EXCEPT ![k] = d] /\ valid' = [valid EXCEPT ![k] = FALSE]
      /\ data' = data /\ locked' = locked /\ disk' = disk
      /\ \A i \in Buf : blockno[i] # d
  BY Zenon, <1>2 DEF bget_recycle, Cached
<1>7. /\ blockno'[k] = d /\ \A i \in Buf : i # k => blockno'[i] = blockno[i]
      /\ ~valid'[k] /\ \A i \in Buf : i # k => valid'[i] = valid[i]
  BY Zenon, <1>6 DEF IInv, TypeOK
<1>8. /\ Val(blockno', valid', data, disk) = Val(blockno, valid, data, disk)
      /\ Owner(blockno', locked) = Owner(blockno, locked)
  <2>1. Distinct(blockno)
    BY Zenon, Mapping
  <2>2. \A i \in Buf : blockno[i] # d
    BY Zenon, <1>6
  <2>3. valid[k] /\ blockno[k] \in Block => data[k] = disk[blockno[k]]
    BY Zenon, <1>5
  <2> HIDE DEF bget_recycle
  <2> QED
    BY ONLY SMTT(30), <1>4, <1>7, <2>1, <2>2, <2>3, RecycleSame, k \in Buf, d \in Block
<1>9. val' = val /\ owner' = owner
  BY <1>6, <1>8 DEF val, owner, Val, Owner
<1> QED
  BY Zenon, <1>9, Stutter

LEMMA Ref_acquiresleep ==
  ASSUME IInv, NEW p \in Proc, acquiresleep(p)
  PROVE  [S!Next]_(S!vars)
<1>1. CASE locked[b[p]] # NoProc
  BY Zenon, <1>1, Ref_quiet DEF acquiresleep
<1>2. CASE locked[b[p]] = NoProc
  <2>1. PICK k \in Buf : k = b[p] /\ blockno[k] \in Block
    BY Zenon DEF IInv, HasInv, acquiresleep
  <2>2. /\ UNCHANGED <<blockno, valid, data, disk>> /\ locked[k] = NoProc
        /\ locked'[k] = p /\ \A i \in Buf : i # k => locked'[i] = locked[i]
    BY Zenon, <1>2, <2>1 DEF acquiresleep, IInv, TypeOK
  <2>3. PICK e \in Block : e = blockno[k]
    BY Zenon, <2>1
  <2>4. Owner(blockno, locked') = [Owner(blockno, locked) EXCEPT ![e] = p]
    BY SMTT(30), <2>1, <2>2, <2>3, Mapping, OwnerSet
  <2>5. owner[e] = NoProc
    BY <2>1, <2>2, <2>3, Mapping, OwnerIs DEF owner
  <2>6. owner' = [owner EXCEPT ![e] = p]
    BY SMTT(30), <2>2, <2>4 DEF owner, Owner
  <2>7. val' = val
    BY Zenon, <2>2 DEF val, Val
  <2>8. S!Take(p, e)
    BY Zenon, <2>5, <2>6, <2>7 DEF S!Take, owner, val, Owner, Val, Cached
  <2> QED
    BY Zenon, <2>8 DEF S!Next
<1> QED
  BY Zenon, <1>1, <1>2

LEMMA Ref_bread ==
  ASSUME IInv, NEW p \in Proc, bread(p)
  PROVE  [S!Next]_(S!vars)
<1>1. CASE valid[b[p]]
  BY Zenon, <1>1, Ref_quiet DEF bread
<1>2. CASE ~valid[b[p]]
  <2>1. PICK k \in Buf : k = b[p] /\ blockno[k] \in Block
    BY Zenon, Holder DEF Has, bread
  <2>2. /\ UNCHANGED <<blockno, valid, locked, disk>> /\ ~valid[k]
        /\ \A i \in Buf : i # k => data'[i] = data[i]
    BY Zenon, <1>2, <2>1 DEF bread, IInv, TypeOK
  <2>3. Val(blockno, valid, data', disk) = Val(blockno, valid, data, disk)
    BY SMTT(30), <2>1, <2>2, Mapping, FillSame
  <2>4. val' = val /\ owner' = owner
    BY SMTT(30), <2>2, <2>3 DEF val, owner, Val, Owner
  <2> QED
    BY Zenon, <2>4, Stutter
<1> QED
  BY Zenon, <1>1, <1>2

LEMMA Ref_bread_valid ==
  ASSUME IInv, NEW p \in Proc, bread_valid(p)
  PROVE  [S!Next]_(S!vars)
<1>1. PICK k \in Buf : k = b[p] /\ blockno[k] \in Block
  BY Zenon, Holder DEF Has, bread_valid
<1>2. /\ UNCHANGED <<blockno, data, locked, disk>> /\ data[k] = disk[blockno[k]]
      /\ valid'[k] /\ \A i \in Buf : i # k => valid'[i] = valid[i]
  BY Zenon, <1>1 DEF bread_valid, IInv, TypeOK, DataInv
<1>3. Val(blockno, valid', data, disk) = Val(blockno, valid, data, disk)
  BY SMTT(30), <1>1, <1>2, Mapping, ValidSame
<1>4. val' = val /\ owner' = owner
  BY SMTT(30), <1>2, <1>3 DEF val, owner, Val, Owner
<1> QED
  BY Zenon, <1>4, Stutter

LEMMA Ref_change ==
  ASSUME IInv, NEW p \in Proc, NEW v \in Value, change(p, v)
  PROVE  [S!Next]_(S!vars)
<1>1. PICK k \in Buf : k = b[p] /\ blockno[k] \in Block /\ owner[blockno[k]] = p
  BY Zenon, Holder DEF Has, change
<1>2. /\ UNCHANGED <<blockno, valid, locked, disk>> /\ valid[k]
      /\ data'[k] = v /\ \A i \in Buf : i # k => data'[i] = data[i]
  BY Zenon, <1>1 DEF change, IInv, TypeOK, DataInv
<1>3. PICK e \in Block : e = blockno[k]
  BY Zenon, <1>1
<1>4. Val(blockno, valid, data', disk) = [Val(blockno, valid, data, disk) EXCEPT ![e] = v]
  <2>1. Distinct(blockno)
    BY Zenon, Mapping
  <2>2. Val(blockno, valid, data', disk)
          = [Val(blockno, valid, data, disk) EXCEPT ![blockno[k]] = data'[k]]
    BY ONLY SMTT(30), k \in Buf, <1>1, <1>2, <2>1, ValSet
  <2> QED
    BY Zenon, <1>2, <1>3, <2>2
<1>5. val' = [val EXCEPT ![e] = v]
  BY SMTT(30), <1>2, <1>4 DEF val, Val
<1>6. owner' = owner
  BY Zenon, <1>2 DEF owner, Owner
<1>7. S!Change(p, e, v)
  BY Zenon, <1>1, <1>3, <1>5, <1>6 DEF S!Change, owner, val, Owner, Val, Cached
<1> QED
  BY Zenon, <1>7 DEF S!Next

LEMMA Ref_bwrite ==
  ASSUME IInv, NEW p \in Proc, bwrite(p)
  PROVE  [S!Next]_(S!vars)
<1>1. PICK k \in Buf : k = b[p] /\ blockno[k] \in Block
  BY Zenon, Holder DEF Has, bwrite
<1>2. /\ UNCHANGED <<blockno, valid, data, locked>> /\ valid[k]
      /\ \A d \in Block : d # blockno[k] => disk'[d] = disk[d]
  BY Zenon, <1>1 DEF bwrite, IInv, TypeOK, DataInv
<1>3. Val(blockno, valid, data, disk') = Val(blockno, valid, data, disk)
  BY SMTT(30), <1>1, <1>2, Mapping, DiskSame
<1>4. val' = val /\ owner' = owner
  BY SMTT(30), <1>2, <1>3 DEF val, owner, Val, Owner
<1> QED
  BY Zenon, <1>4, Stutter

LEMMA Ref_brelse ==
  ASSUME IInv, NEW p \in Proc, brelse(p)
  PROVE  [S!Next]_(S!vars)
<1>1. PICK k \in Buf : k = b[p] /\ blockno[k] \in Block /\ owner[blockno[k]] = p
  BY Zenon, Holder DEF Has, brelse
<1>2. /\ UNCHANGED <<blockno, valid, data, disk>>
      /\ locked'[k] = NoProc /\ \A i \in Buf : i # k => locked'[i] = locked[i]
  BY Zenon, <1>1 DEF brelse, IInv, TypeOK
<1>3. PICK e \in Block : e = blockno[k]
  BY Zenon, <1>1
<1>4. Owner(blockno, locked') = [Owner(blockno, locked) EXCEPT ![e] = NoProc]
  BY SMTT(30), <1>1, <1>2, <1>3, Mapping, OwnerSet
<1>5. owner' = [owner EXCEPT ![e] = NoProc]
  BY SMTT(30), <1>2, <1>4 DEF owner, Owner
<1>6. val' = val
  BY Zenon, <1>2 DEF val, Val
<1>7. S!Give(p, e)
  BY Zenon, <1>1, <1>3, <1>5, <1>6 DEF S!Give, owner, val, Owner, Val, Cached
<1> QED
  BY Zenon, <1>7 DEF S!Next

LEMMA RefInit == Init => S!Init
<1> SUFFICES ASSUME Init PROVE S!Init
  BY Zenon
<1>1. PICK v \in Value : data = [k \in Buf |-> v] /\ disk = [d \in Block |-> v]
  BY Zenon DEF Init
<1> QED
  BY Zenon, <1>1 DEF Init, S!Init, Cached

LEMMA RefStep == IInv /\ [Next]_vars => [S!Next]_(S!vars)
<1> SUFFICES ASSUME IInv, [Next]_vars PROVE [S!Next]_(S!vars)
  BY Zenon
<1>1. CASE UNCHANGED vars
  BY Zenon, <1>1, Ref_quiet DEF vars
<1>2. ASSUME NEW p \in Proc, NEW d \in Block, bget_hit(p, d)
      PROVE  [S!Next]_(S!vars)
  BY Zenon, <1>2, Ref_quiet DEF bget_hit
<1>3. ASSUME NEW p \in Proc, bpin(p) \/ bunpin(p) \/ brelse_ref(p)
      PROVE  [S!Next]_(S!vars)
  BY Zenon, <1>3, Ref_quiet DEF bpin, bunpin, brelse_ref
<1> QED
  BY Zenon, <1>1, <1>2, <1>3, Ref_bget_recycle, Ref_acquiresleep, Ref_bread, Ref_bread_valid,
     Ref_change, Ref_bwrite, Ref_brelse DEF Next

\* What bread(), bwrite(), brelse(), bpin() and bunpin() promise: whatever buffer bget()
\* recycles, clients see one value and one owner of each block.
THEOREM CacheIsStore == Spec => IsStore
  BY Inductive, RefInit, RefStep, PTL DEF Spec, IsStore, S!Spec
=============================================================================
