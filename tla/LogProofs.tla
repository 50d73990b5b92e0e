----------------------------- MODULE LogProofs ------------------------------
(***************************************************************************)
(* Proofs about Log for any number of operations and blocks and any size   *)
(* of the log: it implements TxnDisk, so that a crash between any two      *)
(* steps loses whole transactions only, and what is committed is at home   *)
(* when end_op() returns.                                                  *)
(***************************************************************************)
EXTENDS Log, TLAPS

Labels == {"idle", "begin", "asleep", "op", "modified"} \cup Committing

TypeOK ==
  /\ home \in [Block -> Val]
  /\ dlog \in [1 .. nlog - 1 -> Val]
  /\ head \in Seq(Block)
  /\ cache \in [Block -> Val \cup {Absent}]
  /\ pins \in [Block -> Nat]
  /\ lh \in Seq(Block)
  /\ outstanding \in Nat
  /\ committing \in BOOLEAN
  /\ pc \in [Op -> Labels]
  /\ buf \in [Op -> SUBSET Block]
  /\ wrote \in [Op -> SUBSET Block]
  /\ tail \in [Op -> Nat]
  /\ rec \in {"read_head", "install", "clear", "up"}
  /\ rtail \in Nat

\* The operations that outstanding counts.
Active == {o \in Op : pc[o] \in {"op", "modified"}}

\* S has n members: 1 .. n numbers them.
Counts(n, S) ==
  \E f \in [1 .. n -> S] : /\ \A s \in S : \E i \in 1 .. n : f[i] = s
                           /\ \A i, j \in 1 .. n : f[i] = f[j] => i = j

CountInv == Counts(outstanding, Active)

\* Buffer locks, and no operation before recovery is over.
OpInv ==
  \A o \in Op :
    /\ IF pc[o] = "modified" THEN \E b \in Block : buf[o] = {b} /\ cache[b] # Absent
                             ELSE buf[o] = {}
    /\ \A q \in Op, b \in Block : b \in buf[o] /\ b \in buf[q] => o = q
    /\ rec # "up" => pc[o] = "idle"

\* One thread commits, and nobody else is between begin_op() and end_op() then.
CommitInv ==
  /\ committing <=> \E o \in Op : pc[o] \in Committing
  /\ \A o, q \in Op : pc[o] \in Committing /\ pc[q] \in Committing => o = q
  /\ committing => Active = {}

\* Where the loops of commit() are.
LoopInv ==
  \A o \in Op :
    /\ pc[o] \in {"write_log", "write_head", "install"} => tail[o] \in 1 .. Len(lh)
    /\ pc[o] \notin {"write_log", "install"} => tail[o] = 1
    /\ pc[o] = "committed" => lh = <<>>

NoDup(s) == /\ Len(s) <= nlog - 1
            /\ \A i, j \in 1 .. Len(s) : s[i] = s[j] => i = j

\* The header on the disk is empty but for the time of the installation.
HeadInv ==
  /\ NoDup(lh) /\ NoDup(head)
  /\ \A o \in Op : pc[o] \in {"install", "clear"} => head = lh
  /\ rec \in {"install", "clear"} => head = lh
  /\ rec = "up" /\ (\A o \in Op : pc[o] \notin {"install", "clear"}) => head = <<>>

\* The blocks of the log that are not installed yet are pinned, once each.
PinInv ==
  /\ \A b \in Block : pins[b] # 0 => \E i \in 1 .. Len(lh) : lh[i] = b
  /\ rec = "up" /\ (\A o \in Op : pc[o] \notin {"install", "clear"}) =>
       \A i \in 1 .. Len(lh) : pins[lh[i]] = 1
  /\ \A o \in Op : pc[o] = "install" =>
       \A i \in 1 .. Len(lh) : pins[lh[i]] = IF i < tail[o] THEN 0 ELSE 1
  /\ \A o \in Op : pc[o] = "clear" => \A b \in Block : pins[b] = 0
  /\ rec # "up" => \A b \in Block : pins[b] = 0

\* The cache differs from the disk only in what is pinned or locked.
CacheInv ==
  \A b \in Block :
    /\ pins[b] = 0 /\ (\A o \in Op : b \notin buf[o]) => cache[b] \in {Absent, home[b]}
    /\ pins[b] # 0 => cache[b] # Absent

\* How far the copies have come: from the cache to the log, and from there home.
CopyInv ==
  \A o \in Op :
    /\ pc[o] = "write_log" => \A i \in 1 .. tail[o] - 1 : dlog[i] = View(lh[i])
    /\ pc[o] \in {"write_head", "install"} => \A i \in 1 .. Len(lh) : dlog[i] = View(lh[i])
    /\ pc[o] = "install" => \A i \in 1 .. tail[o] - 1 : home[lh[i]] = dlog[i]
    /\ pc[o] = "clear" => \A i \in 1 .. Len(lh) : home[lh[i]] = dlog[i]

\* The same for recovery.
RecInv ==
  /\ rec = "install" => /\ rtail \in 1 .. Len(lh)
                        /\ \A i \in 1 .. rtail - 1 : home[lh[i]] = dlog[i]
  /\ rec # "install" => rtail = 1
  /\ rec = "clear" => \A i \in 1 .. Len(lh) : home[lh[i]] = dlog[i]
  /\ rec = "read_head" => lh = <<>>

IInv == /\ TypeOK /\ CountInv /\ OpInv /\ CommitInv /\ LoopInv /\ HeadInv
        /\ PinInv /\ CacheInv /\ CopyInv /\ RecInv
-----------------------------------------------------------------------------
LEMMA NlogPos == nlog \in Nat /\ nlog >= 3
  BY LogAssumption DEF nlog, LOGSIZE

\* The blocks of s, all different, are the pinned ones, and pinned once.
Pinned(s, f) ==
  /\ s \in Seq(Block) /\ NoDup(s) /\ f \in [Block -> Nat]
  /\ \A i \in 1 .. Len(s) : f[s[i]] = 1
  /\ \A c \in Block : f[c] # 0 => \E i \in 1 .. Len(s) : s[i] = c

\* A block is added to the log, and pinned.
LEMMA AppendNew ==
  ASSUME NEW s, NEW f, Pinned(s, f), NEW b \in Block, Len(s) < nlog - 1,
         \A i \in 1 .. Len(s) : s[i] # b
  PROVE  /\ Pinned(Append(s, b), [f EXCEPT ![b] = @ + 1])
         /\ f[b] = 0
<1> USE DEF Pinned
<1> DEFINE t == Append(s, b)
           g == [f EXCEPT ![b] = @ + 1]
<1> DEFINE n == Len(s)
<1>1. n \in Nat /\ \A i \in 1 .. n : s[i] \in Block
  OBVIOUS
<1>2. f[b] = 0
  BY Zenon
<1>3. t \in Seq(Block) /\ Len(t) = n + 1 /\ t[n + 1] = b /\ \A i \in 1 .. n : t[i] = s[i]
  OBVIOUS
<1>4. g \in [Block -> Nat] /\ g[b] = 1 /\ \A c \in Block : c # b => g[c] = f[c]
  BY <1>2
<1>5. n < nlog - 1 /\ (\A i, j \in 1 .. n : s[i] = s[j] => i = j)
  BY Zenon DEF NoDup
<1> HIDE DEF n, t, g
<1>6. NoDup(t)
  <2>1. n + 1 <= nlog - 1
    BY <1>1, <1>5, NlogPos
  <2>2. ASSUME NEW i \in 1 .. n + 1, NEW j \in 1 .. n + 1, t[i] = t[j], i # j
        PROVE  FALSE
    <3>1. CASE i \in 1 .. n /\ j \in 1 .. n
      BY <1>3, <1>5, <2>2, <3>1
    <3>2. CASE i \in 1 .. n /\ j = n + 1
      BY Zenon, <1>3, <2>2, <3>2 DEF n
    <3>3. CASE i = n + 1 /\ j \in 1 .. n
      BY Zenon, <1>3, <2>2, <3>3 DEF n
    <3> QED
      BY <1>1, <2>2, <3>1, <3>2, <3>3
  <2> QED
    BY Zenon, <1>3, <2>1, <2>2 DEF NoDup
<1>7. \A i \in 1 .. n + 1 : g[t[i]] = 1
  <2> TAKE i \in 1 .. n + 1
  <2>1. CASE i \in 1 .. n
    <3>1. t[i] = s[i] /\ s[i] \in Block /\ s[i] # b
      BY Zenon, <1>1, <1>3, <2>1 DEF n
    <3>2. f[s[i]] = 1
      BY Zenon, <2>1 DEF n
    <3> QED
      BY Zenon, <1>4, <3>1, <3>2
  <2>2. CASE i = n + 1
    BY Zenon, <1>3, <1>4, <2>2
  <2>3. i \in 1 .. n \/ i = n + 1
    BY <1>1
  <2> QED
    BY Zenon, <2>1, <2>2, <2>3
<1>8. \A c \in Block : g[c] # 0 => \E i \in 1 .. n + 1 : t[i] = c
  <2> TAKE c \in Block
  <2> HAVE g[c] # 0
  <2>1. CASE c = b
    <3>1. n + 1 \in 1 .. n + 1
      BY <1>1
    <3> QED
      BY Zenon, <1>3, <2>1, <3>1
  <2>2. CASE c # b
    <3>1. PICK i \in 1 .. n : s[i] = c
      BY Zenon, <1>4, <2>2 DEF n
    <3>2. i \in 1 .. n + 1 /\ t[i] = c
      BY <1>1, <1>3, <3>1
    <3> QED
      BY Zenon, <3>2
  <2> QED
    BY Zenon, <2>1, <2>2
<1>9. Pinned(t, g)
  BY Zenon, <1>3, <1>4, <1>6, <1>7, <1>8
<1> QED
  BY Zenon, <1>2, <1>9 DEF t, g

LEMMA CountsNone ==
  ASSUME NEW n \in Nat, NEW S, Counts(n, S)
  PROVE  n = 0 <=> S = {}
  BY DEF Counts

LEMMA CountsEmpty == Counts(0, {})
<1>1. [i \in 1 .. 0 |-> i] \in [1 .. 0 -> {}]
  OBVIOUS
<1> QED
  BY Zenon, <1>1 DEF Counts

LEMMA CountsAdd ==
  ASSUME NEW n \in Nat, NEW S, NEW x, x \notin S, Counts(n, S)
  PROVE  Counts(n + 1, S \cup {x})
<1>1. PICK f \in [1 .. n -> S] : /\ \A s \in S : \E i \in 1 .. n : f[i] = s
                               /\ \A i, j \in 1 .. n : f[i] = f[j] => i = j
  BY Zenon DEF Counts
<1> DEFINE g == [i \in 1 .. n + 1 |-> IF i = n + 1 THEN x ELSE f[i]]
<1>2. g \in [1 .. n + 1 -> S \cup {x}]
  BY <1>1
<1>3. \A s \in S \cup {x} : \E i \in 1 .. n + 1 : g[i] = s
  BY <1>1
<1>4. \A i, j \in 1 .. n + 1 : g[i] = g[j] => i = j
  BY <1>1
<1> HIDE DEF g
<1> QED
  BY Zenon, <1>2, <1>3, <1>4 DEF Counts

\* The last number goes to the one that the leaver had.
LEMMA CountsRemove ==
  ASSUME NEW n \in Nat, NEW S, NEW x \in S, Counts(n, S)
  PROVE  n # 0 /\ Counts(n - 1, S \ {x})
<1>1. PICK f \in [1 .. n -> S] : /\ \A s \in S : \E i \in 1 .. n : f[i] = s
                               /\ \A i, j \in 1 .. n : f[i] = f[j] => i = j
  BY Zenon DEF Counts
<1>2. PICK k \in 1 .. n : f[k] = x
  BY Zenon, <1>1
<1> DEFINE g == [i \in 1 .. n - 1 |-> IF i = k THEN f[n] ELSE f[i]]
<1>3. g \in [1 .. n - 1 -> S \ {x}]
  BY <1>1, <1>2
<1>4. ASSUME NEW s \in S \ {x}
      PROVE  \E i \in 1 .. n - 1 : g[i] = s
  <2>1. PICK i \in 1 .. n : f[i] = s
    BY Zenon, <1>1
  <2> QED
    BY <1>2, <2>1
<1>5. \A i, j \in 1 .. n - 1 : g[i] = g[j] => i = j
  BY <1>1
<1>6. n # 0
  BY <1>2
<1> HIDE DEF g
<1> QED
  BY Zenon, <1>3, <1>4, <1>5, <1>6 DEF Counts

LEMMA NoDupEmpty == NoDup(<<>>)
  BY NlogPos DEF NoDup

\* While an operation is in progress nobody commits, and all that is logged is pinned.
LEMMA Quiet ==
  ASSUME IInv, NEW o \in Op, pc[o] \in {"op", "modified"}
  PROVE  /\ rec = "up" /\ ~committing /\ head = <<>>
         /\ \A q \in Op : pc[q] \notin Committing
         /\ \A i \in 1 .. Len(lh) : pins[lh[i]] = 1
<1>1. rec = "up"
  BY Zenon DEF IInv, OpInv
<1>2. ~committing
  BY Zenon DEF IInv, CommitInv, Active
<1>3. \A q \in Op : pc[q] \notin Committing
  BY Zenon, <1>2 DEF IInv, CommitInv
<1> QED
  BY Zenon, <1>1, <1>2, <1>3 DEF IInv, HeadInv, PinInv, Committing

\* Whoever commits is alone.
LEMMA Alone ==
  ASSUME IInv, NEW o \in Op, pc[o] \in Committing
  PROVE  /\ rec = "up" /\ committing /\ Active = {}
         /\ \A q \in Op : q # o => pc[q] \notin Committing
         /\ \A q \in Op : buf[q] = {}
<1>1. rec = "up" /\ committing /\ Active = {}
  BY Zenon DEF IInv, OpInv, CommitInv, Committing
<1>2. \A q \in Op : q # o => pc[q] \notin Committing
  BY Zenon DEF IInv, CommitInv
<1>3. \A q \in Op : buf[q] = {}
  BY Zenon, <1>1 DEF IInv, OpInv, Active
<1> QED
  BY Zenon, <1>1, <1>2, <1>3

LEMMA InitIInv == Init => IInv
<1> SUFFICES ASSUME Init PROVE IInv
  BY Zenon
<1> USE LogAssumption DEF Init, Boot, NoBlock, Labels, Committing
<1>1. TypeOK
  <2>1. dlog \in [1 .. nlog - 1 -> Val]
    BY Zenon
  <2>2. lh \in Seq(Block) /\ head \in Seq(Block)
    OBVIOUS
  <2>3. pc \in [Op -> Labels] /\ tail \in [Op -> Nat] /\ rtail \in Nat /\ outstanding \in Nat
    BY Zenon
  <2>4. cache \in [Block -> Val \cup {Absent}] /\ pins \in [Block -> Nat]
    BY Zenon
  <2>5. buf \in [Op -> SUBSET Block] /\ wrote \in [Op -> SUBSET Block]
    BY Zenon
  <2> QED
    BY Zenon, <2>1, <2>2, <2>3, <2>4, <2>5 DEF TypeOK
<1>2. CountInv
  <2>1. Active = {}
    BY Zenon DEF Active
  <2> QED
    BY Zenon, <2>1, CountsEmpty DEF CountInv
<1>3. OpInv /\ LoopInv /\ PinInv /\ CacheInv /\ CopyInv /\ RecInv
  BY Zenon DEF OpInv, LoopInv, PinInv, CacheInv, CopyInv, RecInv
<1>4. CommitInv
  BY Zenon DEF CommitInv
<1>5. HeadInv
  BY Zenon, NoDupEmpty DEF HeadInv
<1> QED
  BY Zenon, <1>1, <1>2, <1>3, <1>4, <1>5 DEF IInv

\* A new operation, or a sleeper.
LEMMA Step_begin_op ==
  ASSUME IInv, NEW o \in Op, begin_op(o)
  PROVE  IInv'
<1> USE LogAssumption DEF IInv, TypeOK, Labels, Committing, Goto, disk, mem, begin_op
<1>1. TypeOK'
  <2>1. CASE MustWait
    BY Zenon, <2>1
  <2>2. CASE ~MustWait
    <3>1. pc' = [pc EXCEPT ![o] = "op"] /\ outstanding' = outstanding + 1
      BY Zenon, <2>2
    <3>2. pc' \in [Op -> Labels] /\ outstanding' \in Nat
      BY <3>1
    <3> QED
      BY Zenon, <3>2
  <2> QED
    BY Zenon, <2>1, <2>2
<1>2. Active' = IF MustWait THEN Active ELSE Active \cup {o}
  BY Zenon DEF Active
<1>3. CountInv'
  <2>1. o \notin Active
    BY Zenon DEF Active
  <2>2. ~MustWait => Counts(outstanding + 1, Active \cup {o})
    BY Zenon, <2>1, CountsAdd DEF CountInv
  <2> QED
    BY Zenon, <1>2, <2>2 DEF CountInv
<1>4. OpInv'
  BY Zenon DEF OpInv
<1>5. CommitInv'
  <2>1. committing => MustWait
    BY Zenon DEF MustWait
  <2>2. CASE MustWait
    <3>1. \A q \in Op : pc'[q] \in Committing <=> pc[q] \in Committing
      BY Zenon, <2>2
    <3> QED
      BY Zenon, <1>2, <2>2, <3>1 DEF CommitInv
  <2>3. CASE ~MustWait
    BY <1>2, <2>1, <2>3 DEF CommitInv
  <2> QED
    BY Zenon, <2>2, <2>3
<1>6. LoopInv'
  BY Zenon DEF LoopInv
<1>7. HeadInv'
  BY DEF HeadInv, NoDup
<1>8. PinInv'
  <2>1. \A q \in Op : pc'[q] \in {"install", "clear"} <=> pc[q] \in {"install", "clear"}
    BY Zenon
  <2>2. \A q \in Op : pc'[q] = "install" => pc[q] = "install"
    BY Zenon
  <2>3. \A q \in Op : pc'[q] = "clear" => pc[q] = "clear"
    BY Zenon
  <2> QED
    BY <2>1, <2>2, <2>3 DEF PinInv
<1>9. CacheInv'
  BY Zenon DEF CacheInv
<1>10. CopyInv'
  BY DEF CommitInv, CopyInv, View
<1>11. RecInv'
  BY Zenon DEF RecInv
<1> QED
  BY Zenon, <1>1, <1>3, <1>4, <1>5, <1>6, <1>7, <1>8, <1>9, <1>10, <1>11

\* The buffer of b is o's alone.
LEMMA Step_modify ==
  ASSUME IInv, NEW o \in Op, NEW b \in Block, NEW v \in Val, modify(o, b, v)
  PROVE  IInv'
<1> USE LogAssumption DEF IInv, TypeOK, Labels, Committing, Goto, disk, mem, modify
<1>1. TypeOK'
  BY Zenon
<1>2. Active' = Active
  BY Zenon DEF OpInv, Active
<1>3. CountInv'
  BY Zenon, <1>2 DEF CountInv
<1>4. OpInv'
  BY ZenonT(60) DEF OpInv
<1>5. CommitInv'
  BY <1>2 DEF CommitInv
<1>6. LoopInv'
  BY Zenon DEF LoopInv
<1>7. HeadInv'
  BY DEF HeadInv, NoDup
<1>8. PinInv'
  BY DEF PinInv
<1>9. CacheInv'
  BY Zenon DEF OpInv, CacheInv
<1>10. CopyInv'
  BY Zenon, Quiet DEF CopyInv
<1>11. RecInv'
  BY Zenon DEF RecInv
<1> QED
  BY Zenon, <1>1, <1>3, <1>4, <1>5, <1>6, <1>7, <1>8, <1>9, <1>10, <1>11

\* What was locked is pinned.
LEMMA Step_log_write ==
  ASSUME IInv, NEW o \in Op, log_write(o)
  PROVE  IInv'
<1> USE LogAssumption DEF IInv, TypeOK, Labels, Committing, Goto, disk, NoBlock, log_write
<1>1. PICK b \in buf[o] : IF Absorbed(b) THEN UNCHANGED <<lh, pins>>
                          ELSE lh' = Append(lh, b) /\ pins' = [pins EXCEPT ![b] = @ + 1]
  BY Zenon
<1>2. b \in Block /\ buf[o] = {b} /\ cache[b] # Absent
  BY DEF OpInv
<1>3. /\ rec = "up" /\ ~committing /\ head = <<>>
      /\ \A q \in Op : pc[q] \notin Committing
      /\ \A i \in 1 .. Len(lh) : pins[lh[i]] = 1
  BY Zenon, Quiet
<1>4. /\ Pinned(lh', pins')
      /\ \A c \in Block : c # b => pins'[c] = pins[c]
      /\ pins'[b] # 0
  <2>1. Pinned(lh, pins)
    BY Zenon, <1>3 DEF Pinned, HeadInv, PinInv
  <2>2. CASE Absorbed(b)
    <3>1. lh' = lh /\ pins' = pins
      BY Zenon, <1>1, <2>2
    <3>2. PICK i \in 1 .. Len(lh) : lh[i] = b
      BY <2>2 DEF Absorbed, Range
    <3>3. pins[b] = 1
      BY Zenon, <1>3, <3>2
    <3> QED
      BY <2>1, <3>1, <3>3
  <2>3. CASE ~Absorbed(b)
    <3>1. \A i \in 1 .. Len(lh) : lh[i] # b
      BY <2>3 DEF Absorbed, Range
    <3>2. Len(lh) < nlog - 1
      BY NlogPos DEF TooBig
    <3>3. lh' = Append(lh, b) /\ pins' = [pins EXCEPT ![b] = @ + 1]
      BY Zenon, <1>1, <2>3
    <3>4. pins \in [Block -> Nat]
      BY Zenon
    <3> HIDE DEF IInv, TypeOK, log_write
    <3>5. Pinned(Append(lh, b), [pins EXCEPT ![b] = @ + 1]) /\ pins[b] = 0
      BY <1>2, <2>1, <3>1, <3>2, AppendNew
    <3> QED
      BY <1>2, <3>3, <3>4, <3>5
  <2> QED
    BY Zenon, <2>2, <2>3
<1>5. TypeOK'
  BY Zenon, <1>4 DEF Pinned
<1>6. CountInv'
  <2>1. Active' = Active
    BY Zenon DEF Active
  <2> QED
    BY Zenon, <2>1 DEF CountInv
<1>7. OpInv'
  BY DEF OpInv
<1>8. \A q \in Op : pc'[q] \notin Committing
  BY Zenon, <1>3
<1>9. CommitInv'
  BY Zenon, <1>3, <1>8 DEF CommitInv
<1>10. LoopInv'
  BY Zenon, <1>8 DEF LoopInv
<1>11. HeadInv'
  BY Zenon, <1>3, <1>4, <1>8, NoDupEmpty DEF HeadInv, Pinned
<1>12. PinInv'
  BY Zenon, <1>3, <1>4, <1>8 DEF PinInv, Pinned
<1>13. CacheInv'
  BY Zenon, <1>2, <1>4 DEF CacheInv
<1>14. CopyInv'
  BY Zenon, <1>8 DEF CopyInv
<1>15. RecInv'
  BY Zenon, <1>3 DEF RecInv
<1> QED
  BY Zenon, <1>5, <1>6, <1>7, <1>9, <1>10, <1>11, <1>12, <1>13, <1>14, <1>15

\* The last operation to end commits.
LEMMA Step_end_op ==
  ASSUME IInv, NEW o \in Op, end_op(o)
  PROVE  IInv'
<1> USE LogAssumption DEF IInv, TypeOK, Labels, Committing, Goto, disk, mem, end_op, Wakeup
<1>1. TypeOK'
  <2>1. outstanding - 1 \in Nat
    <3>1. o \in Active
      BY Zenon DEF Active
    <3> QED
      BY <3>1, CountsNone DEF CountInv
  <2>2. pc' \in [Op -> Labels]
    BY Zenon
  <2> QED
    BY Zenon, <2>1, <2>2
<1>2. Active' = Active \ {o}
  BY Zenon DEF Active
<1>3. CountInv'
  <2>1. o \in Active
    BY Zenon DEF Active
  <2> QED
    BY Zenon, <1>2, <2>1, CountsRemove DEF CountInv
<1>4. OpInv'
  BY ZenonT(60) DEF OpInv
<1>5. CommitInv'
  <2>1. ~committing /\ \A q \in Op : pc[q] \notin Committing
    BY Zenon, Quiet
  <2>2. CASE outstanding' = 0
    <3>1. Active' = {}
      BY <1>3, <2>2, CountsNone DEF CountInv
    <3> QED
      BY <2>1, <2>2, <3>1 DEF CommitInv
  <2>3. CASE outstanding' # 0
    <3>1. ~committing' /\ \A q \in Op : pc'[q] \notin Committing
      BY <2>1, <2>3
    <3> QED
      BY Zenon, <3>1 DEF CommitInv
  <2> QED
    BY Zenon, <2>2, <2>3
<1>6. LoopInv'
  BY DEF LoopInv
<1>7. HeadInv'
  BY Quiet DEF HeadInv, NoDup
<1>8. PinInv'
  <2>1. \A q \in Op : pc[q] \notin Committing /\ pc'[q] \notin {"install", "clear"}
    BY Quiet
  <2> QED
    BY Zenon, <2>1, Quiet DEF PinInv
<1>9. CacheInv'
  BY Zenon DEF CacheInv
<1>10. CopyInv'
  <2>1. \A q \in Op : pc'[q] \notin {"write_log", "write_head", "install", "clear"}
    BY Quiet
  <2> QED
    BY Zenon, <2>1 DEF CopyInv
<1>11. RecInv'
  BY Zenon DEF RecInv
<1> QED
  BY Zenon, <1>1, <1>3, <1>4, <1>5, <1>6, <1>7, <1>8, <1>9, <1>10, <1>11

\* Nothing logged, nothing to do.
LEMMA Step_commit ==
  ASSUME IInv, NEW o \in Op, commit(o)
  PROVE  IInv'
<1> USE LogAssumption DEF IInv, TypeOK, Labels, Committing, Goto, disk, mem, commit
<1>1. TypeOK'
  BY Zenon
<1>2. Active' = Active
  BY Zenon DEF OpInv, Active
<1>3. CountInv'
  BY Zenon, <1>2 DEF CountInv
<1>4. OpInv'
  BY Zenon DEF OpInv
<1>5. CommitInv'
  BY <1>2 DEF CommitInv
<1>6. LoopInv'
  BY DEF LoopInv
<1>7. HeadInv'
  BY DEF HeadInv, NoDup
<1>8. PinInv'
  BY DEF PinInv
<1>9. CacheInv'
  BY Zenon DEF CacheInv
<1>10. CopyInv'
  BY DEF LoopInv, CopyInv, View
<1>11. RecInv'
  BY Zenon DEF RecInv
<1> QED
  BY Zenon, <1>1, <1>3, <1>4, <1>5, <1>6, <1>7, <1>8, <1>9, <1>10, <1>11

\* An iteration of a loop of commit().
LEMMA LoopStep ==
  ASSUME TypeOK, NEW o \in Op, NEW l \in Labels, Loop(o, l), tail[o] \in 1 .. Len(lh)
  PROVE  /\ \A q \in Op : q # o => pc'[q] = pc[q] /\ tail'[q] = tail[q]
         /\ \/ tail[o] < Len(lh) /\ pc'[o] = pc[o] /\ tail'[o] = tail[o] + 1
            \/ tail[o] = Len(lh) /\ pc'[o] = l /\ tail'[o] = 1
         /\ pc' \in [Op -> Labels] /\ tail' \in [Op -> Nat]
<1>1. Len(lh) \in Nat /\ tail[o] \in Nat /\ pc \in [Op -> Labels] /\ tail \in [Op -> Nat]
  BY DEF TypeOK
<1>2. CASE tail[o] < Len(lh)
  BY <1>1, <1>2 DEF Loop
<1>3. CASE ~ tail[o] < Len(lh)
  <2>1. tail[o] = Len(lh)
    BY <1>1, <1>3
  <2> QED
    BY <1>1, <1>3, <2>1 DEF Loop, Goto
<1> QED
  BY Zenon, <1>2, <1>3

\* One more block is in the log.
LEMMA Step_write_log ==
  ASSUME IInv, NEW o \in Op, write_log(o)
  PROVE  IInv'
<1> USE LogAssumption DEF IInv, TypeOK, Labels, Committing, write_log
<1>1. /\ \A q \in Op : q # o => pc[q] \notin Committing
      /\ \A q \in Op : buf[q] = {}
      /\ rec = "up" /\ committing /\ Active = {}
  BY Zenon, Alone
<1> DEFINE k == tail[o]
           b == lh[k]
<1>2. k \in 1 .. Len(lh) /\ b \in Block /\ Len(lh) <= nlog - 1 /\ k \in DOMAIN dlog
  BY NlogPos DEF LoopInv, HeadInv, NoDup
<1>3. cache[b] # Absent /\ dlog' = [dlog EXCEPT ![k] = cache[b]] /\ cache' = cache
  <2>1. pins[b] = 1
    BY Zenon, <1>1, <1>2 DEF PinInv
  <2>2. cache[b] # Absent
    BY <1>2, <2>1 DEF CacheInv
  <2>3. View(b) = cache[b]
    BY Zenon, <2>2 DEF View
  <2>4. [cache EXCEPT ![b] = cache[b]] = cache
    BY Zenon, <1>2
  <2> QED
    BY Zenon, <2>2, <2>3, <2>4
<1>4. /\ \A q \in Op : q # o => pc'[q] = pc[q] /\ tail'[q] = tail[q]
      /\ \/ k < Len(lh) /\ pc'[o] = "write_log" /\ tail'[o] = k + 1
         \/ k = Len(lh) /\ pc'[o] = "write_head" /\ tail'[o] = 1
      /\ pc' \in [Op -> Labels] /\ tail' \in [Op -> Nat]
  BY Zenon, <1>2, LoopStep
<1>5. TypeOK'
  BY <1>2, <1>3, <1>4
<1>6. CountInv'
  <2>1. Active' = Active
    BY Zenon, <1>4 DEF Active
  <2> QED
    BY Zenon, <2>1 DEF CountInv
<1>7. OpInv'
  BY <1>1, <1>3, <1>4 DEF OpInv
<1>8. CommitInv'
  BY Zenon, <1>1, <1>4 DEF CommitInv, Active
<1>9. LoopInv'
  BY <1>2, <1>4 DEF LoopInv
<1>10. HeadInv'
  BY <1>1, <1>4 DEF HeadInv, NoDup
<1>11. PinInv'
  <2>1. \A q \in Op : pc[q] \notin {"install", "clear"} /\ pc'[q] \notin {"install", "clear"}
    BY Zenon, <1>1, <1>4
  <2> QED
    BY Zenon, <1>1, <2>1 DEF PinInv
<1>12. CacheInv'
  BY Zenon, <1>3 DEF CacheInv
<1>13. CopyInv'
  <2>1. \A c \in Block : View(c)' = View(c)
    BY Zenon, <1>3 DEF View
  <2>2. \A i \in 1 .. k : dlog'[i] = View(lh[i])
    <3> TAKE i \in 1 .. k
    <3>1. CASE i = k
      BY Zenon, <1>2, <1>3, <3>1 DEF View
    <3>2. CASE i \in 1 .. k - 1
      BY <1>2, <1>3, <3>2 DEF CopyInv
    <3> QED
      BY <1>2, <3>1, <3>2
  <2>3. lh' = lh /\ \A i \in 1 .. Len(lh) : lh[i] \in Block
    OBVIOUS
  <2>4. \A q \in Op : q # o => pc'[q] \notin Committing
    BY Zenon, <1>1, <1>4
  <2> HIDE DEF IInv, TypeOK, write_log
  <2>5. CASE k < Len(lh) /\ pc'[o] = "write_log" /\ tail'[o] = k + 1
    <3>1. (\A i \in 1 .. tail[o] - 1 : dlog[i] = View(lh[i]))'
      BY SMTT(30), <1>2, <2>1, <2>2, <2>3, <2>5
    <3> QED
      BY Zenon, <2>4, <2>5, <3>1 DEF CopyInv
  <2>6. CASE k = Len(lh) /\ pc'[o] = "write_head"
    <3>1. (\A i \in 1 .. Len(lh) : dlog[i] = View(lh[i]))'
      BY Zenon, <1>2, <2>1, <2>2, <2>3, <2>6
    <3> QED
      BY Zenon, <2>4, <2>6, <3>1 DEF CopyInv
  <2> QED
    BY Zenon, <1>4, <2>5, <2>6
<1>14. RecInv'
  BY Zenon, <1>1 DEF RecInv
<1> QED
  BY Zenon, <1>5, <1>6, <1>7, <1>8, <1>9, <1>10, <1>11, <1>12, <1>13, <1>14

\* All of them are.
LEMMA Step_write_head ==
  ASSUME IInv, NEW o \in Op, write_head(o)
  PROVE  IInv'
<1> USE LogAssumption DEF IInv, TypeOK, Labels, Committing, Goto, disk, mem, write_head
<1>1. TypeOK'
  BY Zenon
<1>2. Active' = Active
  BY Zenon DEF OpInv, Active
<1>3. CountInv'
  BY Zenon, <1>2 DEF CountInv
<1>4. OpInv'
  BY Zenon DEF OpInv
<1>5. CommitInv'
  BY <1>2 DEF CommitInv
<1>6. LoopInv'
  BY Zenon DEF LoopInv
<1>7. HeadInv'
  BY DEF HeadInv, NoDup
<1>8. PinInv'
  BY DEF OpInv, CommitInv, LoopInv, PinInv
<1>9. CacheInv'
  BY Zenon DEF CacheInv
<1>10. CopyInv'
  BY DEF LoopInv, CopyInv, View
<1>11. RecInv'
  BY Zenon DEF RecInv
<1> QED
  BY Zenon, <1>1, <1>3, <1>4, <1>5, <1>6, <1>7, <1>8, <1>9, <1>10, <1>11

\* One more block is at home, and no longer pinned.
LEMMA Step_install_trans ==
  ASSUME IInv, NEW o \in Op, install_trans(o)
  PROVE  IInv'
<1> USE LogAssumption DEF IInv, TypeOK, Labels, Committing, install_trans
<1>1. /\ \A q \in Op : q # o => pc[q] \notin Committing
      /\ \A q \in Op : buf[q] = {}
      /\ rec = "up" /\ committing /\ Active = {}
  BY Zenon, Alone
<1> DEFINE k == tail[o]
           b == lh[k]
<1>2. k \in 1 .. Len(lh) /\ b \in Block /\ Len(lh) <= nlog - 1 /\ k \in DOMAIN dlog
  BY NlogPos DEF LoopInv, HeadInv, NoDup
<1>3. /\ dlog[k] = cache[b] /\ cache[b] \in Val
      /\ home' = [home EXCEPT ![b] = cache[b]] /\ cache' = cache
      /\ pins[b] = 1 /\ pins' = [pins EXCEPT ![b] = 0]
  <2>1. pins[b] = 1
    BY <1>2 DEF PinInv
  <2>2. dlog[k] = cache[b] /\ cache[b] \in Val
    BY SMTT(30), <1>2, <2>1 DEF CacheInv, CopyInv, View
  <2> QED
    BY <1>2, <2>1, <2>2
<1>4. /\ \A q \in Op : q # o => pc'[q] = pc[q] /\ tail'[q] = tail[q]
      /\ \/ k < Len(lh) /\ pc'[o] = "install" /\ tail'[o] = k + 1
         \/ k = Len(lh) /\ pc'[o] = "clear" /\ tail'[o] = 1
      /\ pc' \in [Op -> Labels] /\ tail' \in [Op -> Nat]
  BY Zenon, <1>2, LoopStep
<1>5. TypeOK'
  BY SMTT(30), <1>2, <1>3, <1>4
<1>6. CountInv'
  <2>1. Active' = Active
    BY Zenon, <1>4 DEF Active
  <2> QED
    BY Zenon, <2>1 DEF CountInv
<1>7. OpInv'
  BY <1>1, <1>3, <1>4 DEF OpInv
<1>8. CommitInv'
  BY <1>1, <1>4 DEF CommitInv, Active
<1>9. LoopInv'
  BY <1>2, <1>4 DEF LoopInv
<1>10. HeadInv'
  BY SMTT(30), <1>1, <1>4 DEF HeadInv, NoDup
<1>11. PinInv'
  <2>1. \A i \in 1 .. Len(lh) : pins'[lh[i]] = IF i < k + 1 THEN 0 ELSE 1
    BY SMTT(30), <1>2, <1>3 DEF PinInv, HeadInv, NoDup
  <2>2. \A c \in Block : pins'[c] # 0 => \E i \in 1 .. Len(lh) : lh[i] = c
    BY <1>2, <1>3 DEF PinInv
  <2>3. k = Len(lh) => \A c \in Block : pins'[c] = 0
    BY <2>1, <2>2
  <2>4. lh' = lh /\ rec' = "up" /\ \A q \in Op : q # o => pc'[q] \notin Committing
    BY Zenon, <1>1, <1>4
  <2> HIDE DEF IInv, TypeOK, install_trans
  <2>5. CASE k < Len(lh) /\ pc'[o] = "install" /\ tail'[o] = k + 1
    BY SMTT(30), <2>1, <2>2, <2>4, <2>5 DEF PinInv
  <2>6. CASE k = Len(lh) /\ pc'[o] = "clear"
    BY Zenon, <2>2, <2>3, <2>4, <2>6 DEF PinInv
  <2> QED
    BY Zenon, <1>4, <2>5, <2>6
<1>12. CacheInv'
  BY SMTT(30), <1>1, <1>2, <1>3 DEF CacheInv
<1>13. CopyInv'
  <2>1. \A c \in Block : View(c)' = View(c)
    BY <1>2, <1>3 DEF View
  <2>2. \A i \in 1 .. k : home'[lh[i]] = dlog[i]
    <3> TAKE i \in 1 .. k
    <3>1. CASE i = k
      BY Zenon, <1>2, <1>3, <3>1
    <3>2. CASE i \in 1 .. k - 1
      <4>1. lh[i] # b /\ lh[i] \in Block
        BY <1>2, <3>2 DEF HeadInv, NoDup
      <4>2. home[lh[i]] = dlog[i]
        BY Zenon, <1>2, <3>2 DEF CopyInv
      <4> QED
        BY Zenon, <1>2, <1>3, <4>1, <4>2
    <3> QED
      BY <1>2, <3>1, <3>2
  <2>3. /\ lh' = lh /\ dlog' = dlog
        /\ \A i \in 1 .. Len(lh) : lh[i] \in Block /\ dlog[i] = View(lh[i])
    BY SMTT(30) DEF CopyInv
  <2>4. \A q \in Op : q # o => pc'[q] \notin Committing
    BY Zenon, <1>1, <1>4
  <2> HIDE DEF IInv, TypeOK, install_trans
  <2>5. CASE k < Len(lh) /\ pc'[o] = "install" /\ tail'[o] = k + 1
    <3>1. \A i \in 1 .. tail'[o] - 1 : home'[lh'[i]] = dlog'[i]
      BY SMTT(30), <1>2, <2>2, <2>3, <2>5
    <3>2. (\A i \in 1 .. Len(lh) : dlog[i] = View(lh[i]))'
      BY Zenon, <2>1, <2>3
    <3> QED
      BY Zenon, <2>4, <2>5, <3>1, <3>2 DEF CopyInv
  <2>6. CASE k = Len(lh) /\ pc'[o] = "clear"
    <3>1. \A i \in 1 .. Len(lh') : home'[lh'[i]] = dlog'[i]
      BY Zenon, <1>2, <2>2, <2>3, <2>6
    <3> QED
      BY Zenon, <2>4, <2>6, <3>1 DEF CopyInv
  <2> QED
    BY Zenon, <1>4, <2>5, <2>6
<1>14. RecInv'
  BY Zenon, <1>1 DEF RecInv
<1> QED
  BY Zenon, <1>5, <1>6, <1>7, <1>8, <1>9, <1>10, <1>11, <1>12, <1>13, <1>14

\* All of them are.
LEMMA Step_clear_head ==
  ASSUME IInv, NEW o \in Op, clear_head(o)
  PROVE  IInv'
<1> USE LogAssumption DEF IInv, TypeOK, Labels, Committing, Goto, disk, mem, clear_head
<1>1. TypeOK'
  OBVIOUS
<1>2. Active' = Active
  BY Zenon DEF OpInv, Active
<1>3. CountInv'
  BY Zenon, <1>2 DEF CountInv
<1>4. OpInv'
  BY Zenon DEF OpInv
<1>5. CommitInv'
  BY <1>2 DEF CommitInv
<1>6. LoopInv'
  BY Zenon DEF CommitInv, LoopInv
<1>7. HeadInv'
  BY Zenon, Alone, NoDupEmpty DEF HeadInv
<1>8. PinInv'
  BY SMTT(30) DEF PinInv
<1>9. CacheInv'
  BY Zenon DEF CacheInv
<1>10. CopyInv'
  BY Zenon DEF CommitInv, CopyInv, View
<1>11. RecInv'
  BY Zenon DEF OpInv, RecInv
<1> QED
  BY Zenon, <1>1, <1>3, <1>4, <1>5, <1>6, <1>7, <1>8, <1>9, <1>10, <1>11

\* Nobody commits any more.
LEMMA Step_committed ==
  ASSUME IInv, NEW o \in Op, committed(o)
  PROVE  IInv'
<1> USE LogAssumption DEF IInv, TypeOK, Labels, Committing, Goto, disk, mem, committed, Wakeup
<1>1. TypeOK'
  BY Zenon
<1>2. Active' = Active
  BY Zenon DEF OpInv, Active
<1>3. CountInv'
  BY Zenon, <1>2 DEF CountInv
<1>4. OpInv'
  BY Zenon DEF OpInv
<1>5. CommitInv'
  BY Zenon, <1>2 DEF CommitInv
<1>6. LoopInv'
  BY Zenon DEF LoopInv
<1>7. HeadInv'
  BY SMTT(30) DEF LoopInv, HeadInv, NoDup
<1>8. PinInv'
  BY Zenon DEF PinInv
<1>9. CacheInv'
  BY Zenon DEF CacheInv
<1>10. CopyInv'
  BY SMTT(30) DEF CopyInv, View
<1>11. RecInv'
  BY Zenon DEF RecInv
<1> QED
  BY Zenon, <1>1, <1>3, <1>4, <1>5, <1>6, <1>7, <1>8, <1>9, <1>10, <1>11

\* Recovery begins.
LEMMA Step_read_head ==
  ASSUME IInv, read_head
  PROVE  IInv'
<1> USE LogAssumption DEF IInv, TypeOK, Labels, Committing, Goto, disk, mem, read_head, ops
<1>1. TypeOK'
  BY Zenon
<1>2. Active' = Active
  BY Zenon DEF OpInv, Active
<1>3. CountInv'
  BY Zenon, <1>2 DEF CountInv
<1>4. OpInv'
  BY Zenon DEF OpInv
<1>5. CommitInv'
  BY Zenon, <1>2 DEF CommitInv
<1>6. LoopInv'
  BY Zenon DEF OpInv, LoopInv
<1>7. HeadInv'
  BY SMTT(30) DEF HeadInv, NoDup
<1>8. PinInv'
  BY SMTT(30) DEF HeadInv, PinInv
<1>9. CacheInv'
  BY Zenon DEF CacheInv
<1>10. CopyInv'
  BY SMTT(30) DEF LoopInv, HeadInv, CopyInv, RecInv, View
<1>11. RecInv'
  BY SMTT(30) DEF RecInv
<1> QED
  BY Zenon, <1>1, <1>3, <1>4, <1>5, <1>6, <1>7, <1>8, <1>9, <1>10, <1>11

\* One more block is at home.
LEMMA Step_recover_install ==
  ASSUME IInv, recover_install
  PROVE  IInv'
<1> USE LogAssumption DEF IInv, TypeOK, Labels, Committing, Goto, disk, mem, recover_install, ops
<1>1. TypeOK'
  <2>1. rtail \in 1 .. Len(lh) /\ lh[rtail] \in Block /\ dlog[rtail] \in Val
    BY SMTT(30), NlogPos DEF RecInv, HeadInv, NoDup
  <2> QED
    BY <2>1
<1>2. Active' = Active
  BY Zenon DEF OpInv, Active
<1>3. CountInv'
  BY Zenon, <1>2 DEF CountInv
<1>4. OpInv'
  BY Zenon DEF OpInv
<1>5. CommitInv'
  BY Zenon, <1>2 DEF CommitInv
<1>6. LoopInv'
  BY Zenon DEF LoopInv
<1>7. HeadInv'
  BY SMTT(30) DEF HeadInv, NoDup
<1>8. PinInv'
  BY Zenon DEF PinInv
<1>9. CacheInv'
  BY DEF PinInv, CacheInv
<1>10. CopyInv'
  BY Zenon DEF OpInv, CopyInv, View
<1>11. RecInv'
  <2>1. rtail \in 1 .. Len(lh) /\ lh[rtail] \in Block /\ rtail \in Nat /\ Len(lh) \in Nat
    BY SMTT(30) DEF RecInv
  <2>2. \A i \in 1 .. rtail : home'[lh[i]] = dlog[i]
    BY SMTT(30), <2>1 DEF RecInv, HeadInv, NoDup
  <2> QED
    BY SMTT(30), <2>1, <2>2 DEF RecInv
<1> QED
  BY Zenon, <1>1, <1>3, <1>4, <1>5, <1>6, <1>7, <1>8, <1>9, <1>10, <1>11

\* Recovery is over.
LEMMA Step_recover_clear ==
  ASSUME IInv, recover_clear
  PROVE  IInv'
<1> USE LogAssumption DEF IInv, TypeOK, Labels, Committing, Goto, disk, mem, recover_clear, ops
<1>1. TypeOK'
  BY SMTT(30)
<1>2. Active' = Active
  BY Zenon DEF OpInv, Active
<1>3. CountInv'
  BY Zenon, <1>2 DEF CountInv
<1>4. OpInv'
  BY Zenon DEF OpInv
<1>5. CommitInv'
  BY Zenon, <1>2 DEF CommitInv
<1>6. LoopInv'
  BY Zenon DEF OpInv, LoopInv
<1>7. HeadInv'
  BY Zenon, NoDupEmpty DEF HeadInv
<1>8. PinInv'
  BY SMTT(30) DEF PinInv
<1>9. CacheInv'
  BY Zenon DEF CacheInv
<1>10. CopyInv'
  BY Zenon DEF OpInv, CopyInv, View
<1>11. RecInv'
  BY Zenon DEF RecInv
<1> QED
  BY Zenon, <1>1, <1>3, <1>4, <1>5, <1>6, <1>7, <1>8, <1>9, <1>10, <1>11

\* A block is read.
LEMMA Step_bread ==
  ASSUME IInv, NEW b \in Block, bread(b)
  PROVE  IInv'
<1> USE LogAssumption DEF IInv, TypeOK, Labels, Committing, Goto, disk, mem, bread, ops
<1>1. TypeOK'
  BY Zenon
<1>2. Active' = Active
  BY Zenon DEF OpInv, Active
<1>3. CountInv'
  BY Zenon, <1>2 DEF CountInv
<1>4. OpInv'
  BY Zenon DEF OpInv
<1>5. CommitInv'
  BY Zenon, <1>2 DEF CommitInv
<1>6. LoopInv'
  BY Zenon DEF LoopInv
<1>7. HeadInv'
  BY SMTT(30) DEF HeadInv, NoDup
<1>8. PinInv'
  BY Zenon DEF PinInv
<1>9. CacheInv'
  BY Zenon DEF CacheInv
<1>10. CopyInv'
  BY SMTT(30) DEF CopyInv, View
<1>11. RecInv'
  BY Zenon DEF RecInv
<1> QED
  BY Zenon, <1>1, <1>3, <1>4, <1>5, <1>6, <1>7, <1>8, <1>9, <1>10, <1>11

\* A buffer is given up that equals the disk.
LEMMA Step_recycle ==
  ASSUME IInv, NEW b \in Block, recycle(b)
  PROVE  IInv'
<1> USE LogAssumption DEF IInv, TypeOK, Labels, Committing, Goto, disk, mem, recycle, ops, Reusable
<1>1. TypeOK'
  BY Zenon
<1>2. Active' = Active
  BY Zenon DEF OpInv, Active
<1>3. CountInv'
  BY Zenon, <1>2 DEF CountInv
<1>4. OpInv'
  BY Zenon DEF OpInv
<1>5. CommitInv'
  BY Zenon, <1>2 DEF CommitInv
<1>6. LoopInv'
  BY Zenon DEF LoopInv
<1>7. HeadInv'
  BY SMTT(30) DEF HeadInv, NoDup
<1>8. PinInv'
  BY SMTT(30) DEF PinInv
<1>9. CacheInv'
  BY Zenon DEF CacheInv
<1>10. CopyInv'
  BY SMTT(30) DEF CacheInv, CopyInv, View
<1>11. RecInv'
  BY Zenon DEF RecInv
<1> QED
  BY Zenon, <1>1, <1>3, <1>4, <1>5, <1>6, <1>7, <1>8, <1>9, <1>10, <1>11

\* Only the disk is left.
LEMMA Step_crash ==
  ASSUME IInv, crash
  PROVE  IInv'
<1> USE LogAssumption DEF IInv, TypeOK, Labels, Committing, Goto, disk, mem, crash, NoBlock
<1>1. TypeOK'
  <2>1. lh' \in Seq(Block)
    OBVIOUS
  <2>2. cache' \in [Block -> Val \cup {Absent}] /\ pins' \in [Block -> Nat]
    BY Zenon
  <2>3. pc' \in [Op -> Labels] /\ tail' \in [Op -> Nat] /\ rtail' \in Nat /\ outstanding' \in Nat
    BY Zenon
  <2>4. buf' \in [Op -> SUBSET Block] /\ wrote' \in [Op -> SUBSET Block]
    BY Zenon
  <2> QED
    BY Zenon, <2>1, <2>2, <2>3, <2>4
<1>2. Active' = {}
  BY Zenon DEF Active
<1>3. CountInv'
  BY Zenon, <1>2, CountsEmpty DEF CountInv
<1>4. OpInv'
  BY Zenon DEF OpInv
<1>5. CommitInv'
  BY Zenon, <1>2 DEF CommitInv
<1>6. LoopInv'
  BY Zenon DEF LoopInv
<1>7. HeadInv'
  BY Zenon, NoDupEmpty DEF HeadInv
<1>8. PinInv'
  BY Zenon DEF PinInv
<1>9. CacheInv'
  BY Zenon DEF CacheInv
<1>10. CopyInv'
  BY Zenon DEF CopyInv, View
<1>11. RecInv'
  BY Zenon DEF RecInv
<1> QED
  BY Zenon, <1>1, <1>3, <1>4, <1>5, <1>6, <1>7, <1>8, <1>9, <1>10, <1>11
-----------------------------------------------------------------------------
LEMMA StepIInv == IInv /\ [Next]_vars => IInv'
<1> SUFFICES ASSUME IInv, [Next]_vars PROVE IInv'
  BY Zenon
<1>1. CASE \E o \in Op : Step(o)
  <2> PICK o \in Op : Step(o)
    BY Zenon, <1>1
  <2>1. CASE \E b \in Block, v \in Val : modify(o, b, v)
    BY Zenon, <2>1, Step_modify
  <2> QED
    BY Zenon, <2>1, Step_begin_op, Step_log_write, Step_end_op, Step_commit, Step_write_log,
       Step_write_head, Step_install_trans, Step_clear_head, Step_committed DEF Step
<1>2. CASE Recover
  BY Zenon, <1>2, Step_read_head, Step_recover_install, Step_recover_clear DEF Recover
<1>3. CASE \E b \in Block : bread(b) \/ recycle(b)
  BY Zenon, <1>3, Step_bread, Step_recycle
<1>4. CASE crash
  BY Zenon, <1>4, Step_crash
<1>5. CASE UNCHANGED vars
  <2>1. UNCHANGED <<home, dlog, head, cache, pins, lh, outstanding, committing, pc, buf, wrote,
                    tail, rec, rtail>>
    BY Zenon, <1>5 DEF vars, disk, mem, ops
  <2>2. TypeOK' /\ CountInv' /\ OpInv'
    BY Zenon, <2>1 DEF IInv, TypeOK, CountInv, OpInv, Active
  <2>3. CommitInv' /\ LoopInv' /\ HeadInv'
    BY Zenon, <2>1 DEF IInv, CommitInv, LoopInv, HeadInv, Active
  <2>4. PinInv' /\ CacheInv'
    BY Zenon, <2>1 DEF IInv, PinInv, CacheInv
  <2>5. CopyInv' /\ RecInv'
    BY <2>1 DEF IInv, CopyInv, RecInv, View
  <2> QED
    BY Zenon, <2>2, <2>3, <2>4, <2>5 DEF IInv
<1> QED
  BY Zenon, <1>1, <1>2, <1>3, <1>4, <1>5 DEF Next

\* The conjuncts of IInv hold in every reachable state.
THEOREM Inductive == Spec => []IInv
  BY InitIInv, StepIInv, PTL DEF Spec
-----------------------------------------------------------------------------
(* The refinement.                                                         *)

\* What the header h and the log blocks d make of the home blocks s.
Restored(h, d, s) ==
  [b \in Block |->
     IF b \in Range(h)
     THEN d[CHOOSE i \in DOMAIN h : h[i] = b /\ \A j \in DOMAIN h : h[j] = b => j <= i]
     ELSE s[b]]

\* The file system's view of the blocks.
Shown == IF rec = "up" THEN [b \in Block |-> View(b)] ELSE Recovered

\* No block is in the log twice, so recovery installs the only copy.
LEMMA RestoredIs ==
  ASSUME NEW h \in Seq(Block), NEW d, NEW s, NoDup(h)
  PROVE  /\ \A i \in 1 .. Len(h) : Restored(h, d, s)[h[i]] = d[i]
         /\ \A b \in Block : (\A i \in 1 .. Len(h) : h[i] # b) => Restored(h, d, s)[b] = s[b]
<1>1. DOMAIN h = 1 .. Len(h) /\ Len(h) \in Nat /\ \A i \in 1 .. Len(h) : h[i] \in Block
  OBVIOUS
<1>2. ASSUME NEW i \in 1 .. Len(h)
      PROVE  Restored(h, d, s)[h[i]] = d[i]
  <2> DEFINE Last(k) == h[k] = h[i] /\ \A j \in DOMAIN h : h[j] = h[i] => j <= k
  <2>1. i \in DOMAIN h /\ Last(i)
    BY <1>1, <1>2 DEF NoDup
  <2>2. \A k \in DOMAIN h : Last(k) => k = i
    BY Zenon, <1>1, <1>2 DEF NoDup
  <2>3. (CHOOSE k \in DOMAIN h : Last(k)) = i
    <3> HIDE DEF Last
    <3> QED
      BY Zenon, <2>1, <2>2
  <2>4. h[i] \in Range(h) /\ h[i] \in Block
    BY Zenon, <1>1, <1>2 DEF Range
  <2> QED
    BY Zenon, <2>3, <2>4 DEF Restored
<1>3. ASSUME NEW b \in Block, \A i \in 1 .. Len(h) : h[i] # b
      PROVE  Restored(h, d, s)[b] = s[b]
  BY Zenon, <1>1, <1>3 DEF Restored, Range
<1> QED
  BY Zenon, <1>2, <1>3

\* An empty header changes nothing.
LEMMA RestoredEmpty ==
  ASSUME NEW d, NEW s \in [Block -> Val]
  PROVE  Restored(<<>>, d, s) = s
<1>1. Range(<<>>) = {}
  BY DEF Range
<1> QED
  BY Zenon, <1>1 DEF Restored

\* Nor does one whose blocks are all home already.
LEMMA RestoredHome ==
  ASSUME NEW h \in Seq(Block), NEW d, NEW s \in [Block -> Val], NoDup(h),
         \A i \in 1 .. Len(h) : s[h[i]] = d[i]
  PROVE  Restored(h, d, s) = s
<1>1. ASSUME NEW b \in Block
      PROVE  Restored(h, d, s)[b] = s[b]
  <2>1. CASE \E i \in 1 .. Len(h) : h[i] = b
    BY SMTT(30), <2>1, RestoredIs
  <2>2. CASE \A i \in 1 .. Len(h) : h[i] # b
    BY SMTT(30), <2>2, RestoredIs
  <2> QED
    BY Zenon, <2>1, <2>2
<1>2. Restored(h, d, s) = [b \in Block |-> Restored(h, d, s)[b]]
  BY DEF Restored
<1> QED
  BY Zenon, <1>1, <1>2

\* What recovery restores does not depend on the home copy of a logged block.
LEMMA RestoredSame ==
  \A h \in Seq(Block) : \A k \in 1 .. Len(h) : \A d, s, r :
    (\A b \in Block : b # h[k] => r[b] = s[b]) => Restored(h, d, r) = Restored(h, d, s)
<1> SUFFICES ASSUME NEW h \in Seq(Block), NEW k \in 1 .. Len(h), NEW d, NEW s, NEW r,
                    \A b \in Block : b # h[k] => r[b] = s[b]
             PROVE  Restored(h, d, r) = Restored(h, d, s)
  BY Zenon
<1>1. h[k] \in Range(h)
  BY DEF Range
<1>2. \A b \in Block : b \notin Range(h) => r[b] = s[b]
  BY Zenon, <1>1
<1> QED
  BY <1>2 DEF Restored

LEMMA RecoveredIs ==
  /\ Recovered = Restored(head, dlog, home)
  /\ Recovered' = Restored(head', dlog', home')
  BY Zenon DEF Recovered, Restored

\* A step that changes neither the durable contents, nor what operations see, nor
\* which operations are in progress.
LEMMA Stutter ==
  ASSUME Recovered' = Recovered, Shown' = Shown, Active' = Active
  PROVE  [Txn!Next]_(Txn!vars)
  BY Zenon DEF Txn!vars, Shown, Active

\* The steps that leave the disk and the cache alone: begin_op is Begin, unless it goes
\* to sleep, and end_op is End.
LEMMA Ref_ops ==
  ASSUME IInv, NEW o \in Op,
         begin_op(o) \/ log_write(o) \/ end_op(o) \/ commit(o) \/ committed(o)
  PROVE  [Txn!Next]_(Txn!vars)
<1> USE DEF IInv, TypeOK, Labels, Committing
<1>1. UNCHANGED <<disk, cache, rec>>
  BY Zenon DEF begin_op, log_write, end_op, commit, committed, disk, mem
<1>2. Recovered' = Recovered /\ Shown' = Shown
  BY SMTT(30), <1>1 DEF Recovered, Shown, View, disk
<1>3. CASE begin_op(o)
  <2>1. CASE MustWait
    <3>1. Active' = Active
      BY Zenon, <1>3, <2>1 DEF Active, begin_op, Goto
    <3> QED
      BY Zenon, <1>2, <3>1, Stutter
  <2>2. CASE ~MustWait
    <3>1. o \notin Active /\ Active' = Active \cup {o}
      BY Zenon, <1>3, <2>2 DEF Active, begin_op, Goto
    <3>2. Txn!Begin(o)
      BY Zenon, <1>2, <3>1 DEF Txn!Begin, Active, Shown
    <3> QED
      BY Zenon, <3>2 DEF Txn!Next
  <2> QED
    BY Zenon, <2>1, <2>2
<1>4. CASE end_op(o)
  <2>1. o \in Active /\ Active' = Active \ {o}
    BY Zenon, <1>4 DEF Active, end_op, Goto, Wakeup
  <2>2. Txn!End(o)
    BY Zenon, <1>2, <2>1 DEF Txn!End, Active, Shown
  <2> QED
    BY Zenon, <2>2 DEF Txn!Next
<1>5. CASE log_write(o) \/ commit(o) \/ committed(o)
  <2>1. Active' = Active
    BY Zenon, <1>5 DEF Active, log_write, commit, committed, Goto, Wakeup
  <2> QED
    BY Zenon, <1>2, <2>1, Stutter
<1> QED
  BY Zenon, <1>3, <1>4, <1>5

\* A change of a block is Write.
LEMMA Ref_modify ==
  ASSUME IInv, NEW o \in Op, NEW b \in Block, NEW v \in Val, modify(o, b, v)
  PROVE  [Txn!Next]_(Txn!vars)
<1> USE LogAssumption DEF IInv, TypeOK, Labels
<1>1. rec = "up" /\ o \in Active
  BY Zenon DEF OpInv, Active, modify
<1>2. Recovered' = Recovered
  BY SMTT(30) DEF modify, Recovered, disk
<1>3. Active' = Active
  BY Zenon DEF modify, Active, Goto
<1>4. Shown' = [Shown EXCEPT ![b] = v]
  BY Zenon, <1>1 DEF modify, Shown, View, disk
<1>5. Txn!Write(o, b, v)
  BY Zenon, <1>1, <1>2, <1>3, <1>4 DEF Txn!Write, Active, Shown
<1> QED
  BY Zenon, <1>5 DEF Txn!Next

\* The log is written while the header is empty.
LEMMA Ref_write_log ==
  ASSUME IInv, NEW o \in Op, write_log(o)
  PROVE  [Txn!Next]_(Txn!vars)
<1>1. /\ \A q \in Op : q # o => pc[q] \notin Committing
      /\ rec = "up" /\ pc[o] = "write_log"
  BY Zenon, Alone DEF write_log, Committing
<1>2. head = <<>>
  BY Zenon, <1>1 DEF IInv, HeadInv, Committing
<1>3. tail[o] \in 1 .. Len(lh) /\ TypeOK
  BY Zenon, <1>1 DEF IInv, LoopInv
<1>4. Recovered' = Recovered
  <2>1. head' = <<>> /\ home' = home /\ home \in [Block -> Val]
    BY Zenon, <1>2, <1>3 DEF write_log, TypeOK
  <2>2. Restored(<<>>, dlog, home) = home /\ Restored(<<>>, dlog', home) = home
    BY Zenon, <2>1, RestoredEmpty
  <2> QED
    BY Zenon, <1>2, <2>1, <2>2, RecoveredIs
<1>5. Shown' = Shown
  <2>1. lh[tail[o]] \in Block
    BY <1>3 DEF TypeOK
  <2>2. \A b \in Block : View(b)' = View(b)
    BY Zenon, <1>3, <2>1, LogAssumption DEF write_log, View, TypeOK
  <2> QED
    BY Zenon, <1>1, <2>2 DEF Shown, write_log
<1>6. Active' = Active
  <2>1. pc'[o] \in Committing /\ \A q \in Op : q # o => pc'[q] = pc[q]
    BY Zenon, <1>1, <1>3, LoopStep DEF write_log, Committing, Labels
  <2> QED
    BY Zenon, <1>1, <2>1 DEF Active, Committing
<1> QED
  BY Zenon, <1>4, <1>5, <1>6, Stutter

\* The header reaches the disk: Commit.
LEMMA Ref_write_head ==
  ASSUME IInv, NEW o \in Op, write_head(o)
  PROVE  [Txn!Next]_(Txn!vars)
<1> USE DEF IInv, TypeOK
<1>1. /\ \A q \in Op : q # o => pc[q] \notin Committing
      /\ \A q \in Op : buf[q] = {}
      /\ rec = "up" /\ Active = {} /\ pc[o] = "write_head"
  BY Zenon, Alone DEF write_head, Committing
<1>2. /\ \A i \in 1 .. Len(lh) : dlog[i] = View(lh[i])
      /\ NoDup(lh)
  BY Zenon, <1>1 DEF CopyInv, HeadInv
<1>3. \A b \in Block : (\A i \in 1 .. Len(lh) : lh[i] # b) => View(b) = home[b]
  <2>1. \A b \in Block : (\A i \in 1 .. Len(lh) : lh[i] # b) => pins[b] = 0
    BY Zenon DEF PinInv
  <2> QED
    BY Zenon, <1>1, <2>1 DEF CacheInv, View
<1>4. Restored(lh, dlog, home) = [b \in Block |-> View(b)]
  <2>1. ASSUME NEW b \in Block
        PROVE  Restored(lh, dlog, home)[b] = View(b)
    <3>1. lh \in Seq(Block)
      BY Zenon
    <3> HIDE DEF IInv, TypeOK
    <3>2. /\ \A i \in 1 .. Len(lh) : Restored(lh, dlog, home)[lh[i]] = dlog[i]
          /\ (\A i \in 1 .. Len(lh) : lh[i] # b) => Restored(lh, dlog, home)[b] = home[b]
      BY SMTT(30), <1>2, <3>1, RestoredIs
    <3> QED
      BY SMTT(30), <1>2, <1>3, <3>2
  <2>2. Restored(lh, dlog, home) = [b \in Block |-> Restored(lh, dlog, home)[b]]
    BY DEF Restored
  <2> QED
    BY Zenon, <2>1, <2>2
<1>5. Recovered' = Shown
  BY Zenon, <1>1, <1>4, RecoveredIs DEF write_head, Shown
<1>6. Shown' = Shown
  BY Zenon, <1>1 DEF write_head, Shown, View, mem
<1>7. Active' = Active
  BY Zenon, <1>1 DEF Active, write_head, Goto
<1>8. Txn!Commit
  BY Zenon, <1>1, <1>5, <1>6, <1>7 DEF Txn!Commit, Shown, Active
<1> QED
  BY Zenon, <1>8 DEF Txn!Next

\* A block comes home that the log on the disk holds too.
LEMMA Ref_install_trans ==
  ASSUME IInv, NEW o \in Op, install_trans(o)
  PROVE  [Txn!Next]_(Txn!vars)
<1>1. /\ \A q \in Op : q # o => pc[q] \notin Committing
      /\ rec = "up" /\ pc[o] = "install"
  BY Zenon, Alone DEF install_trans, Committing
<1>2. /\ head = lh /\ tail[o] \in 1 .. Len(lh) /\ dlog[tail[o]] = View(lh[tail[o]])
      /\ lh[tail[o]] \in Block /\ TypeOK
  <2>1. head = lh
    BY Zenon, <1>1 DEF IInv, HeadInv
  <2>2. tail[o] \in 1 .. Len(lh)
    BY Zenon, <1>1 DEF IInv, LoopInv
  <2>3. dlog[tail[o]] = View(lh[tail[o]])
    BY Zenon, <1>1, <2>2 DEF IInv, CopyInv
  <2> QED
    BY <2>1, <2>2, <2>3 DEF IInv, TypeOK
<1>3. Recovered' = Recovered
  <2>1. head' = lh /\ dlog' = dlog /\ home' = [home EXCEPT ![lh[tail[o]]] = dlog[tail[o]]]
    BY Zenon, <1>2 DEF install_trans
  <2>2. home \in [Block -> Val] /\ lh \in Seq(Block)
    BY Zenon, <1>2 DEF TypeOK
  <2>3. Restored(lh, dlog, home') = Restored(lh, dlog, home)
    <3>1. \A b \in Block : b # lh[tail[o]] => home'[b] = home[b]
      BY Zenon, <2>1, <2>2
    <3>2. \A d, s, r : (\A b \in Block : b # lh[tail[o]] => r[b] = s[b])
                          => Restored(lh, d, r) = Restored(lh, d, s)
      BY ONLY Zenon, <1>2, <2>2, RestoredSame
    <3> QED
      BY ONLY Zenon, <3>1, <3>2
  <2> QED
    BY Zenon, <1>2, <2>1, <2>3, RecoveredIs
<1>4. Shown' = Shown
  <2>1. dlog[tail[o]] \in Val /\ dlog[tail[o]] # Absent
    BY SMTT(30), <1>2, LogAssumption DEF View, TypeOK
  <2>2. \A b \in Block : View(b)' = View(b)
    BY Zenon, <1>2, <2>1 DEF install_trans, View, TypeOK
  <2> QED
    BY Zenon, <1>1, <2>2 DEF Shown, install_trans
<1>5. Active' = Active
  <2>1. pc'[o] \in Committing /\ \A q \in Op : q # o => pc'[q] = pc[q]
    BY Zenon, <1>1, <1>2, LoopStep DEF install_trans, Committing, Labels
  <2> QED
    BY Zenon, <1>1, <2>1 DEF Active, Committing
<1> QED
  BY Zenon, <1>3, <1>4, <1>5, Stutter

\* The log is emptied when its blocks are home.
LEMMA Ref_clear_head ==
  ASSUME IInv, NEW o \in Op, clear_head(o)
  PROVE  [Txn!Next]_(Txn!vars)
<1> USE DEF IInv, TypeOK
<1>1. rec = "up" /\ pc[o] = "clear"
  BY Zenon, Alone DEF clear_head, Committing
<1>2. Recovered' = Recovered
  <2>1. /\ head \in Seq(Block) /\ NoDup(head) /\ home \in [Block -> Val]
        /\ \A i \in 1 .. Len(head) : home[head[i]] = dlog[i]
    BY Zenon, <1>1 DEF HeadInv, CopyInv
  <2>2. head' = <<>> /\ dlog' = dlog /\ home' = home
    BY Zenon DEF clear_head
  <2>3. Restored(head, dlog, home) = home
    BY Zenon, <2>1, RestoredHome
  <2> QED
    BY Zenon, <2>1, <2>2, <2>3, RestoredEmpty, RecoveredIs
<1>3. Shown' = Shown
  BY Zenon, <1>1 DEF Shown, clear_head, View
<1>4. Active' = Active
  BY Zenon, <1>1 DEF Active, clear_head, Goto
<1> QED
  BY Zenon, <1>2, <1>3, <1>4, Stutter

\* Recovery restores what it says, and shows it when it is over.
LEMMA Ref_recover ==
  ASSUME IInv, Recover
  PROVE  [Txn!Next]_(Txn!vars)
<1> USE DEF IInv, TypeOK
<1>1. Active' = Active
  BY Zenon DEF Active, Recover, read_head, recover_install, recover_clear, ops
<1>2. CASE read_head
  <2>1. Recovered' = Recovered
    BY SMTT(30), <1>2 DEF Recovered, read_head, disk
  <2>2. rec # "up" /\ rec' # "up"
    BY Zenon, <1>2 DEF read_head
  <2> QED
    BY Zenon, <1>1, <2>1, <2>2, Stutter DEF Shown
<1>3. CASE recover_install
  <2>1. head = lh /\ rtail \in 1 .. Len(lh) /\ home \in [Block -> Val] /\ lh \in Seq(Block)
    BY Zenon, <1>3 DEF HeadInv, RecInv, recover_install
  <2>2. head' = lh /\ dlog' = dlog /\ home' = [home EXCEPT ![lh[rtail]] = dlog[rtail]]
    BY Zenon, <1>3, <2>1 DEF recover_install
  <2>3. Restored(lh, dlog, home') = Restored(lh, dlog, home)
    <3>1. \A b \in Block : b # lh[rtail] => home'[b] = home[b]
      BY Zenon, <2>1, <2>2
    <3>2. \A d, s, r : (\A b \in Block : b # lh[rtail] => r[b] = s[b])
                          => Restored(lh, d, r) = Restored(lh, d, s)
      BY ONLY Zenon, <2>1, RestoredSame
    <3> QED
      BY ONLY Zenon, <3>1, <3>2
  <2>4. Recovered' = Recovered
    BY Zenon, <2>1, <2>2, <2>3, RecoveredIs
  <2>5. rec # "up" /\ rec' # "up"
    BY Zenon, <1>3 DEF recover_install
  <2> QED
    BY Zenon, <1>1, <2>4, <2>5, Stutter DEF Shown
<1>4. CASE recover_clear
  <2>1. /\ head \in Seq(Block) /\ NoDup(head) /\ home \in [Block -> Val]
        /\ \A i \in 1 .. Len(head) : home[head[i]] = dlog[i]
    BY Zenon, <1>4 DEF HeadInv, RecInv, recover_clear
  <2>2. head' = <<>> /\ dlog' = dlog /\ home' = home /\ cache' = cache
    BY Zenon, <1>4 DEF recover_clear
  <2>3. Restored(head, dlog, home) = home
    BY Zenon, <2>1, RestoredHome
  <2>4. Recovered = home /\ Recovered' = home
    BY Zenon, <2>1, <2>2, <2>3, RestoredEmpty, RecoveredIs
  <2>5. \A b \in Block : View(b)' = home[b]
    BY Zenon, <1>4, <2>2 DEF View, recover_clear, CacheInv, PinInv, OpInv
  <2>6. Shown = home /\ Shown' = home
    BY Zenon, <1>4, <2>1, <2>4, <2>5 DEF Shown, recover_clear
  <2> QED
    BY Zenon, <1>1, <2>4, <2>6, Stutter
<1> QED
  BY Zenon, <1>2, <1>3, <1>4 DEF Recover

\* The cache may hold a block or not.
LEMMA Ref_cache ==
  ASSUME IInv, NEW b \in Block, bread(b) \/ recycle(b)
  PROVE  [Txn!Next]_(Txn!vars)
<1> USE LogAssumption DEF IInv, TypeOK
<1>1. UNCHANGED <<disk, ops, rec>>
  BY Zenon DEF bread, recycle
<1>2. Recovered' = Recovered /\ Active' = Active
  BY SMTT(30), <1>1 DEF Recovered, Active, disk, ops
<1>3. \A c \in Block : View(c)' = View(c)
  BY Zenon, <1>1 DEF bread, recycle, Reusable, CacheInv, View, disk
<1>4. Shown' = Shown
  BY Zenon, <1>1, <1>2, <1>3 DEF Shown
<1> QED
  BY Zenon, <1>2, <1>4, Stutter

\* A crash is Crash.
LEMMA Ref_crash ==
  ASSUME IInv, crash
  PROVE  [Txn!Next]_(Txn!vars)
<1>1. Recovered' = Recovered
  BY SMTT(30) DEF crash, Recovered, disk
<1>2. Shown' = Recovered
  BY Zenon, <1>1 DEF Shown, crash
<1>3. Active' = {}
  BY Zenon DEF crash, Active
<1>4. Txn!Crash
  BY Zenon, <1>1, <1>2, <1>3 DEF Txn!Crash, Shown, Active
<1> QED
  BY Zenon, <1>4 DEF Txn!Next

LEMMA RefInit == Init => Txn!Init
<1> SUFFICES ASSUME Init PROVE Txn!Init
  BY Zenon
<1>1. home \in [Block -> Val] /\ head = <<>> /\ rec = "read_head" /\ pc = [o \in Op |-> "idle"]
  BY Zenon DEF Init, Boot
<1>2. Recovered = home
  BY Zenon, <1>1, RestoredEmpty, RecoveredIs
<1> QED
  BY Zenon, <1>1, <1>2 DEF Txn!Init

LEMMA RefStep == IInv /\ [Next]_vars => [Txn!Next]_(Txn!vars)
<1> SUFFICES ASSUME IInv, [Next]_vars PROVE [Txn!Next]_(Txn!vars)
  BY Zenon
<1>1. CASE \E o \in Op : Step(o)
  <2> PICK o \in Op : Step(o)
    BY Zenon, <1>1
  <2>1. CASE \E b \in Block, v \in Val : modify(o, b, v)
    BY Zenon, <2>1, Ref_modify
  <2> QED
    BY Zenon, <2>1, Ref_ops, Ref_write_log, Ref_write_head, Ref_install_trans, Ref_clear_head DEF Step
<1>2. CASE Recover
  BY Zenon, <1>2, Ref_recover
<1>3. CASE \E b \in Block : bread(b) \/ recycle(b)
  BY Zenon, <1>3, Ref_cache
<1>4. CASE crash
  BY Zenon, <1>4, Ref_crash
<1>5. CASE UNCHANGED vars
  <2>1. Recovered' = Recovered /\ Active' = Active
    BY SMTT(30), <1>5 DEF vars, disk, ops, Recovered, Active
  <2>2. Shown' = Shown
    BY Zenon, <1>5, <2>1 DEF vars, disk, mem, Shown, View
  <2> QED
    BY Zenon, <2>1, <2>2, Stutter
<1> QED
  BY Zenon, <1>1, <1>2, <1>3, <1>4, <1>5 DEF Next

\* Crash safety for every number of operations and blocks and every log size: the log, with
\* commits, evictions and crashes between any two of its steps, implements a disk
\* on which a group of ended operations appears in one step (log.c: commit()).
THEOREM CrashSafe == Spec => Atomic
  BY Inductive, RefInit, RefStep, PTL DEF Spec, Atomic, Txn!Spec

\* When end_op() returns from the commit it ran, the blocks are home and the log is empty.
THEOREM Durable == Spec => DurableOnReturn
<1> DEFINE Returns == \A o \in Op : pc[o] = "committed" /\ pc'[o] = "idle" /\ rec' = "up"
              => \A b \in Block : View(b) = home[b] /\ Recovered[b] = home[b]
<1>1. IInv /\ [Next]_vars => [Returns]_vars
  <2> SUFFICES ASSUME IInv, NEW o \in Op, pc[o] = "committed", NEW b \in Block
               PROVE  View(b) = home[b] /\ Recovered[b] = home[b]
    BY Zenon
  <2>1. /\ lh = <<>> /\ rec = "up" /\ \A q \in Op : buf[q] = {}
        /\ \A q \in Op : pc[q] \notin {"install", "clear"}
    BY Zenon, Alone DEF IInv, LoopInv, Committing
  <2>2. pins[b] = 0 /\ head = <<>>
    BY SMTT(30), <2>1 DEF IInv, PinInv, HeadInv, TypeOK
  <2>3. View(b) = home[b]
    BY Zenon, <2>1, <2>2 DEF IInv, CacheInv, View
  <2>4. Recovered = home
    BY Zenon, <2>2, RestoredEmpty, RecoveredIs DEF IInv, TypeOK
  <2> QED
    BY Zenon, <2>3, <2>4
<1> QED
  BY <1>1, Inductive, PTL DEF Spec, DurableOnReturn
=============================================================================
