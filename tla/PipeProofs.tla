----------------------------- MODULE PipeProofs -----------------------------
(***************************************************************************)
(* Proofs about Pipe for any number of readers and writers and any size of *)
(* the ring: no lost wakeup, no use after free, and a pipe is a FIFO.      *)
(***************************************************************************)
EXTENDS Pipe, Integers, SequenceTheorems, TLAPS

Inside == {"loop", "copy", "sleep", "done"}

TypeOK ==
  /\ data \in [0 .. PIPESIZE - 1 -> Byte] /\ got \in Byte
  /\ nread \in 0 .. UINT - 1 /\ nwrite \in 0 .. UINT - 1
  /\ readopen \in BOOLEAN /\ writeopen \in BOOLEAN /\ freed \in BOOLEAN
  /\ lock \in User \cup {NoProc}
  /\ open \in SUBSET User
  /\ killed \in [User -> BOOLEAN]
  /\ pc \in [User -> {"idle", "acquire", "asleep"} \cup Inside]
  /\ n \in [User -> Nat]
  /\ i \in [User -> Nat]

\* pi->lock is held inside of the loops, and nowhere else.
LockInv == \A p \in User : lock = p <=> pc[p] \in Inside

\* A process in a call has its end open, and so that end of the pipe is.
EndInv ==
  /\ \A p \in User : pc[p] # "idle" => p \in open
  /\ \A p \in open : IF p \in Writer THEN writeopen ELSE readopen
  /\ freed <=> ~readopen /\ ~writeopen

\* What was tested at the head of a loop still holds when it is relied on.
CopyInv ==
  /\ \A p \in Writer : /\ pc[p] = "copy" => readopen /\ ~Full
                       /\ pc[p] = "sleep" => readopen /\ Full
  /\ \A p \in Reader : pc[p] = "sleep" => writeopen /\ Empty

\* Whoever is asleep has a reason to be, or whoever holds the lock will wake it.
SleepInv ==
  /\ \A p \in Reader : pc[p] = "asleep" =>
       /\ writeopen
       /\ \/ Empty
          \/ \E w \in Writer : killed[w] \/ (lock = w /\ pc[w] \in {"loop", "copy", "done"})
  /\ \A p \in Writer : pc[p] = "asleep" =>
       /\ readopen
       /\ Full \/ \E r \in Reader : lock = r /\ pc[r] \in {"copy", "done"}

IInv == TypeOK /\ LockInv /\ EndInv /\ CopyInv /\ SleepInv
-----------------------------------------------------------------------------
LEMMA ModRange ==
  ASSUME NEW x \in Nat, NEW d \in Nat \ {0}
  PROVE  x % d \in 0 .. d - 1
  OBVIOUS

LEMMA ModSmall ==
  ASSUME NEW x \in Nat, NEW d \in Nat \ {0}, x < d
  PROVE  x % d = x
  OBVIOUS

LEMMA ModOver ==
  ASSUME NEW x \in Nat, NEW d \in Nat \ {0}, d <= x, x < d + d
  PROVE  x % d = x - d
  OBVIOUS

\* The only multiple of d between -d and d is 0.
LEMMA Multiple ==
  ASSUME NEW d \in Nat \ {0}, NEW k \in Int, -d < d * k, d * k < d
  PROVE  k = 0
<1>1. CASE k >= 1
  <2>1. d * k >= d
    BY <1>1
  <2> QED
    BY <2>1
<1>2. CASE k <= -1
  <2>1. d * k <= -d
    BY <1>2
  <2> QED
    BY <2>1
<1> QED
  BY <1>1, <1>2

LEMMA DivMod ==
  ASSUME NEW x \in Nat, NEW d \in Nat \ {0}
  PROVE  x \div d \in Int /\ x = d * (x \div d) + (x % d) /\ x % d \in 0 .. d - 1
  OBVIOUS

LEMMA ModUnique ==
  ASSUME NEW d \in Nat \ {0}, NEW k \in Int, NEW r \in 0 .. d - 1, NEW x \in Nat, x = d * k + r
  PROVE  x % d = r
<1> DEFINE q == x \div d
<1>1. q \in Int /\ x = d * q + (x % d) /\ x % d \in 0 .. d - 1
  BY Zenon, DivMod
<1> HIDE DEF q
<1>2. d * (k - q) = d * k - d * q
  BY <1>1
<1>3. k - q = 0
  BY <1>1, <1>2, Multiple
<1> QED
  BY <1>1, <1>3

\* Two slots of the ring less than a turn apart differ.
LEMMA ModInj ==
  ASSUME NEW d \in Nat \ {0}, NEW x \in Nat, NEW y \in Nat, x <= y, y < x + d, x % d = y % d
  PROVE  x = y
<1> DEFINE q == x \div d
           k == y \div d
<1>1. q \in Int /\ x = d * q + (x % d) /\ x % d \in 0 .. d - 1
  BY Zenon, DivMod
<1>2. k \in Int /\ y = d * k + (y % d)
  BY Zenon, DivMod
<1> HIDE DEF q, k
<1>3. d * (k - q) = d * k - d * q
  BY <1>1, <1>2
<1>4. k - q = 0
  BY <1>1, <1>2, <1>3, Multiple
<1> QED
  BY <1>1, <1>2, <1>4

\* A turn of the counters is a number of turns of the ring.
LEMMA ModShift ==
  ASSUME NEW d \in Nat \ {0}, NEW u \in Nat, u % d = 0, NEW x \in Nat, u <= x
  PROVE  (x - u) % d = x % d
<1> DEFINE q == x \div d
           k == u \div d
<1>1. q \in Int /\ x = d * q + (x % d) /\ x % d \in 0 .. d - 1
  BY Zenon, DivMod
<1>2. k \in Int /\ u = d * k
  BY DivMod
<1> HIDE DEF q, k
<1>3. d * (q - k) = d * q - d * k
  BY <1>1, <1>2
<1>4. x - u \in Nat /\ x - u = d * (q - k) + (x % d)
  BY <1>1, <1>2, <1>3
<1> DEFINE j == q - k
           r == x % d
           y == x - u
<1>5. j \in Int /\ r \in 0 .. d - 1 /\ y \in Nat /\ y = d * j + r
  BY <1>1, <1>2, <1>4
<1> HIDE DEF j, r, y
<1>6. y % d = r
  BY <1>5, ModUnique
<1> QED
  BY Zenon, <1>6 DEF r, y
-----------------------------------------------------------------------------
LEMMA InitIInv == Init => IInv
<1> SUFFICES ASSUME Init PROVE IInv
  BY Zenon
<1> USE PipeAssumption DEF Init, User, Inside
<1>1. TypeOK
  <2> PICK b \in Byte : data = [k \in 0 .. PIPESIZE - 1 |-> b] /\ got = b
    BY Zenon
  <2>1. data \in [0 .. PIPESIZE - 1 -> Byte] /\ got \in Byte
    BY Zenon
  <2>2. nread \in 0 .. UINT - 1 /\ nwrite \in 0 .. UINT - 1
    OBVIOUS
  <2> QED
    BY Zenon, <2>1, <2>2 DEF TypeOK
<1>2. LockInv /\ EndInv /\ CopyInv /\ SleepInv
  BY Zenon DEF LockInv, EndInv, CopyInv, SleepInv
<1> QED
  BY Zenon, <1>1, <1>2 DEF IInv

\* A call begins.
LEMMA Step_call ==
  ASSUME IInv, NEW p \in User, NEW m \in 0 .. MaxN, call(p, m)
  PROVE  IInv'
<1> USE PipeAssumption DEF IInv, TypeOK, User, Inside, Holds, Goto, ring, ends, call
<1>1. TypeOK'
  OBVIOUS
<1>2. LockInv'
  BY Zenon DEF LockInv
<1>3. EndInv'
  BY Zenon DEF EndInv
<1>4. CopyInv'
  BY Zenon DEF CopyInv, Full, Empty
<1>5. SleepInv'
  BY Zenon DEF SleepInv, Full, Empty
<1> QED
  BY Zenon, <1>1, <1>2, <1>3, <1>4, <1>5

\* The lock is taken.
LEMMA Step_acquire ==
  ASSUME IInv, NEW p \in User, acquire(p)
  PROVE  IInv'
<1> USE PipeAssumption DEF IInv, TypeOK, User, Inside, Holds, Goto, ring, ends, acquire
<1>1. TypeOK'
  BY Zenon
<1>2. LockInv'
  BY Zenon DEF LockInv
<1>3. EndInv'
  BY Zenon DEF EndInv
<1>4. CopyInv'
  BY Zenon DEF CopyInv, Full, Empty
<1>5. SleepInv'
  BY Zenon DEF SleepInv, Full, Empty
<1> QED
  BY Zenon, <1>1, <1>2, <1>3, <1>4, <1>5

\* p found the pipe full, or empty, under the lock it now gives back.
LEMMA Step_sleep ==
  ASSUME IInv, NEW p \in User, sleep(p)
  PROVE  IInv'
<1> USE PipeAssumption DEF IInv, TypeOK, User, Inside, Holds, Goto, ring, ends, sleep
<1>1. TypeOK'
  BY Zenon
<1>2. LockInv'
  BY Zenon DEF LockInv
<1>3. EndInv'
  BY Zenon DEF EndInv
<1>4. CopyInv'
  BY Zenon DEF CopyInv, Full, Empty
<1>5. SleepInv'
  BY Zenon DEF CopyInv, SleepInv, Full, Empty
<1> QED
  BY Zenon, <1>1, <1>2, <1>3, <1>4, <1>5

\* A writer that goes to sleep has woken the readers.
LEMMA Step_write_loop ==
  ASSUME IInv, NEW p \in User, write_loop(p)
  PROVE  IInv'
<1> USE PipeAssumption DEF IInv, TypeOK, User, Inside, Holds, Goto, ring, ends, write_loop, Wakeup, Side, Stay, Return
<1>1. TypeOK'
  <2>1. CASE i[p] >= n[p] /\ Goto(p, "done") /\ Stay
    BY Zenon, <2>1
  <2>2. CASE i[p] < n[p] /\ (~readopen \/ killed[p]) /\ Goto(p, "idle") /\ Return(p)
    BY Zenon, <2>2
  <2>3. CASE readopen /\ Full /\ Wakeup(p, "sleep") /\ Stay
    BY Zenon, <2>3
  <2>4. CASE readopen /\ ~Full /\ Goto(p, "copy") /\ Stay
    BY Zenon, <2>4
  <2> QED
    BY Zenon, <2>1, <2>2, <2>3, <2>4
<1>2. LockInv'
  BY DEF LockInv
<1>3. EndInv'
  BY Zenon DEF EndInv
<1>4. CopyInv'
  BY DEF CopyInv, Full, Empty
<1>5. SleepInv'
  <2>1. CASE i[p] >= n[p] /\ Goto(p, "done") /\ Stay
    BY Zenon, <2>1 DEF LockInv, EndInv, SleepInv, Full, Empty
  <2>2. CASE i[p] < n[p] /\ (~readopen \/ killed[p]) /\ Goto(p, "idle") /\ Return(p)
    BY Zenon, <2>2 DEF LockInv, EndInv, SleepInv, Full, Empty
  <2>3. CASE readopen /\ Full /\ Wakeup(p, "sleep") /\ Stay
    BY Zenon, <2>3 DEF LockInv, EndInv, SleepInv, Full, Empty
  <2>4. CASE readopen /\ ~Full /\ Goto(p, "copy") /\ Stay
    BY Zenon, <2>4 DEF LockInv, EndInv, SleepInv, Full, Empty
  <2> QED
    BY Zenon, <2>1, <2>2, <2>3, <2>4
<1> QED
  BY Zenon, <1>1, <1>2, <1>3, <1>4, <1>5

\* The readers asleep are owed a wakeup from now on.
LEMMA Step_write_byte ==
  ASSUME IInv, NEW p \in User, NEW b \in Byte, write_byte(p, b)
  PROVE  IInv'
<1> USE PipeAssumption DEF IInv, TypeOK, User, Inside, Holds, Goto, ring, ends, write_byte
<1>1. TypeOK'
  OBVIOUS
<1>2. LockInv'
  BY Zenon DEF LockInv
<1>3. EndInv'
  BY Zenon DEF EndInv
<1>4. CopyInv'
  BY Zenon DEF LockInv, CopyInv
<1>5. SleepInv'
  BY Zenon DEF CopyInv, SleepInv
<1> QED
  BY Zenon, <1>1, <1>2, <1>3, <1>4, <1>5

\* The bytes before the fault stay.
LEMMA Step_write_fault ==
  ASSUME IInv, NEW p \in User, write_fault(p)
  PROVE  IInv'
<1> USE PipeAssumption DEF IInv, TypeOK, User, Inside, Holds, Goto, ring, ends, write_fault
<1>1. TypeOK'
  BY Zenon
<1>2. LockInv'
  BY Zenon DEF LockInv
<1>3. EndInv'
  BY Zenon DEF EndInv
<1>4. CopyInv'
  BY Zenon DEF CopyInv, Full, Empty
<1>5. SleepInv'
  BY Zenon DEF SleepInv, Full, Empty
<1> QED
  BY Zenon, <1>1, <1>2, <1>3, <1>4, <1>5

\* The readers are woken.
LEMMA Step_write_done ==
  ASSUME IInv, NEW p \in User, write_done(p)
  PROVE  IInv'
<1> USE PipeAssumption DEF IInv, TypeOK, User, Inside, Holds, Goto, ring, ends, write_done, Wakeup, Side, Return
<1>1. TypeOK'
  BY Zenon
<1>2. LockInv'
  BY Zenon DEF LockInv
<1>3. EndInv'
  BY Zenon DEF EndInv
<1>4. CopyInv'
  BY Zenon DEF CopyInv, Full, Empty
<1>5. SleepInv'
  BY Zenon DEF SleepInv, Full, Empty
<1> QED
  BY Zenon, <1>1, <1>2, <1>3, <1>4, <1>5

\* Data, the end of it, or a reason to sleep.
LEMMA Step_read_loop ==
  ASSUME IInv, NEW p \in User, read_loop(p)
  PROVE  IInv'
<1> USE PipeAssumption DEF IInv, TypeOK, User, Inside, Holds, Goto, ring, ends, read_loop, Stay, Return
<1>1. TypeOK'
  OBVIOUS
<1>2. LockInv'
  <2>1. CASE Goto(p, "copy") /\ Stay
    BY Zenon, <2>1 DEF LockInv
  <2>2. CASE Goto(p, "idle") /\ Return(p)
    BY Zenon, <2>2 DEF LockInv
  <2>3. CASE Goto(p, "sleep") /\ Stay
    BY Zenon, <2>3 DEF LockInv
  <2> QED
    BY Zenon, <2>1, <2>2, <2>3
<1>3. EndInv'
  BY Zenon DEF EndInv
<1>4. CopyInv'
  BY DEF CopyInv, Full, Empty
<1>5. SleepInv'
  BY DEF SleepInv, Full, Empty
<1> QED
  BY Zenon, <1>1, <1>2, <1>3, <1>4, <1>5

\* The writers asleep are owed a wakeup from now on.
LEMMA Step_read_byte ==
  ASSUME IInv, NEW p \in User, NEW ok \in BOOLEAN, read_byte(p, ok)
  PROVE  IInv'
<1> USE PipeAssumption DEF IInv, TypeOK, User, Inside, Holds, Goto, ring, ends, read_byte
<1>1. TypeOK'
  <2>1. nread % PIPESIZE \in 0 .. PIPESIZE - 1 /\ (nread + 1) % UINT \in 0 .. UINT - 1
    BY ModRange
  <2>2. got' \in Byte /\ nread' \in 0 .. UINT - 1
    BY Zenon, <2>1
  <2>3. i' \in [User -> Nat] /\ pc' \in [User -> {"idle", "acquire", "asleep"} \cup Inside]
    <3>1. CASE ok
      BY <3>1
    <3>2. CASE ~ok
      BY Zenon, <3>2
    <3> QED
      BY Zenon, <3>1, <3>2
  <2> QED
    BY Zenon, <2>2, <2>3
<1>2. LockInv'
  BY Zenon DEF LockInv
<1>3. EndInv'
  BY Zenon DEF EndInv
<1>4. CopyInv'
  BY DEF LockInv, CopyInv
<1>5. SleepInv'
  BY DEF SleepInv
<1> QED
  BY Zenon, <1>1, <1>2, <1>3, <1>4, <1>5

\* No more is wanted, or there.
LEMMA Step_read_end ==
  ASSUME IInv, NEW p \in User, read_end(p)
  PROVE  IInv'
<1> USE PipeAssumption DEF IInv, TypeOK, User, Inside, Holds, Goto, ring, ends, read_end
<1>1. TypeOK'
  BY Zenon
<1>2. LockInv'
  BY Zenon DEF LockInv
<1>3. EndInv'
  BY Zenon DEF EndInv
<1>4. CopyInv'
  BY Zenon DEF CopyInv, Full, Empty
<1>5. SleepInv'
  BY Zenon DEF SleepInv, Full, Empty
<1> QED
  BY Zenon, <1>1, <1>2, <1>3, <1>4, <1>5

\* The writers are woken.
LEMMA Step_read_done ==
  ASSUME IInv, NEW p \in User, read_done(p)
  PROVE  IInv'
<1> USE PipeAssumption DEF IInv, TypeOK, User, Inside, Holds, Goto, ring, ends, read_done, Wakeup, Side, Return
<1>1. TypeOK'
  BY Zenon
<1>2. LockInv'
  BY Zenon DEF LockInv
<1>3. EndInv'
  BY Zenon DEF EndInv
<1>4. CopyInv'
  BY Zenon DEF CopyInv, Full, Empty
<1>5. SleepInv'
  BY Zenon DEF SleepInv, Full, Empty
<1> QED
  BY Zenon, <1>1, <1>2, <1>3, <1>4, <1>5

\* An end is closed with nobody of its side in the pipe, and the other side woken.
LEMMA Step_close ==
  ASSUME IInv, NEW p \in User, close(p)
  PROVE  IInv'
<1> USE PipeAssumption DEF IInv, TypeOK, User, Inside, Holds, Goto, ring, ends, close, pipeclose, Wakeup, Side
<1>1. TypeOK'
  <2>1. pc' \in [User -> {"idle", "acquire", "asleep"} \cup Inside]
    BY SMTT(30)
  <2>2. readopen' \in BOOLEAN /\ writeopen' \in BOOLEAN /\ freed' \in BOOLEAN /\ open' \in SUBSET User
    BY Zenon
  <2> QED
    BY Zenon, <2>1, <2>2
<1>2. LockInv'
  BY DEF LockInv
<1>3. EndInv'
  BY DEF EndInv
<1>4. CopyInv'
  BY DEF LockInv, CopyInv, Full, Empty
<1>5. SleepInv'
  BY DEF CopyInv, SleepInv, Full, Empty
<1> QED
  BY Zenon, <1>1, <1>2, <1>3, <1>4, <1>5

\* kill() does not take pi->lock.
LEMMA Step_kill ==
  ASSUME IInv, NEW p \in User, kill(p)
  PROVE  IInv'
<1> USE PipeAssumption DEF IInv, TypeOK, User, Inside, Holds, Goto, ring, ends, kill
<1>1. TypeOK'
  BY Zenon
<1>2. LockInv'
  BY Zenon DEF LockInv
<1>3. EndInv'
  BY Zenon DEF EndInv
<1>4. CopyInv'
  BY Zenon DEF CopyInv, Full, Empty
<1>5. SleepInv'
  BY Zenon DEF SleepInv, Full, Empty
<1> QED
  BY Zenon, <1>1, <1>2, <1>3, <1>4, <1>5
-----------------------------------------------------------------------------
\* A step of any process, or none, keeps the invariant.
LEMMA StepIInv == IInv /\ [Next]_vars => IInv'
<1> SUFFICES ASSUME IInv, [Next]_vars PROVE IInv'
  BY Zenon
<1>1. CASE Next
  BY Zenon, <1>1, Step_call, Step_acquire, Step_sleep, Step_write_loop, Step_write_byte,
     Step_write_fault, Step_write_done, Step_read_loop, Step_read_byte, Step_read_end,
     Step_read_done, Step_close, Step_kill DEF Next, Step
<1>2. CASE UNCHANGED vars
  BY Zenon, <1>2 DEF vars, ring, ends, IInv, TypeOK, LockInv, EndInv, CopyInv, SleepInv, Full, Empty
<1> QED
  BY Zenon, <1>1, <1>2

LEMMA Inductive == Spec => []IInv
  BY InitIInv, StepIInv, PTL DEF Spec

\* For any number of readers and writers, nobody sleeps in a pipe without a reason
\* while the lock is free, but for what a killed writer leaves behind.
THEOREM NoLostWakeup == Spec => []SleepJustified
<1>1. IInv => SleepJustified
  BY Zenon, PipeAssumption DEF IInv, TypeOK, SleepInv, SleepJustified, User
<1> QED
  BY <1>1, Inductive, PTL

\* For any number of readers and writers, nobody is inside of a pipe that is freed.
THEOREM FreedUnused == Spec => []NoUseAfterFree
<1>1. IInv => NoUseAfterFree
  BY Zenon, PipeAssumption DEF IInv, TypeOK, LockInv, EndInv, NoUseAfterFree, User, Inside
<1> QED
  BY <1>1, Inductive, PTL
-----------------------------------------------------------------------------
\* The counters never get further apart than the ring is long.
RingInv == Count <= PIPESIZE

\* The difference of two unsigned counters.
LEMMA Difference ==
  ASSUME NEW a \in 0 .. UINT - 1, NEW b \in 0 .. UINT - 1
  PROVE  (b + UINT - a) % UINT = IF b >= a THEN b - a ELSE b - a + UINT
<1> DEFINE x == b + UINT - a
<1>1. UINT \in Nat \ {0}
  BY PipeAssumption
<1>2. x \in Nat /\ x < UINT + UINT
  BY <1>1
<1>3. x < UINT => x % UINT = x
  BY Zenon, <1>1, <1>2, ModSmall
<1>4. UINT <= x => x % UINT = x - UINT
  BY Zenon, <1>1, <1>2, ModOver
<1> QED
  BY <1>1, <1>3, <1>4

LEMMA CountIs ==
  ASSUME TypeOK
  PROVE  Count = IF nwrite >= nread THEN nwrite - nread ELSE nwrite - nread + UINT
  BY Zenon, Difference DEF TypeOK, Count

LEMMA EmptyIs ==
  ASSUME TypeOK
  PROVE  Empty <=> Count = 0
  BY CountIs, PipeAssumption DEF TypeOK, Empty

LEMMA FullIs ==
  ASSUME TypeOK
  PROVE  Full <=> Count = PIPESIZE
<1> DEFINE x == nread + PIPESIZE
<1>1. /\ nread \in 0 .. UINT - 1 /\ nwrite \in 0 .. UINT - 1 /\ UINT \in Nat \ {0}
      /\ PIPESIZE \in Nat \ {0} /\ PIPESIZE < UINT
  BY PipeAssumption DEF TypeOK
<1>2. x \in Nat /\ x < UINT + UINT
  BY <1>1
<1>3. x < UINT => x % UINT = x
  BY Zenon, <1>1, <1>2, ModSmall
<1>4. UINT <= x => x % UINT = x - UINT
  BY Zenon, <1>1, <1>2, ModOver
<1>5. Full <=> nwrite = x % UINT
  BY Zenon DEF Full
<1> HIDE DEF Full
<1> QED
  BY <1>1, <1>3, <1>4, <1>5, CountIs

LEMMA Increment ==
  ASSUME NEW c \in 0 .. UINT - 1
  PROVE  (c + 1) % UINT = IF c + 1 < UINT THEN c + 1 ELSE 0
<1>1. UINT \in Nat \ {0}
  BY PipeAssumption
<1>2. CASE c + 1 < UINT
  BY <1>1, <1>2, ModSmall
<1>3. CASE c + 1 = UINT
  BY <1>1, <1>3, ModOver
<1> QED
  BY <1>1, <1>2, <1>3

\* A counter that has wrapped around stands at the slot after the one before.
LEMMA NextSlot ==
  ASSUME NEW c \in 0 .. UINT - 1, NEW k \in Nat
  PROVE  (((c + 1) % UINT) + k) % PIPESIZE = (c + 1 + k) % PIPESIZE
<1> USE PipeAssumption
<1>1. CASE c + 1 < UINT
  BY <1>1, ModSmall
<1>2. CASE c + 1 = UINT
  <2>1. (c + 1) % UINT = 0
    BY <1>2, ModOver
  <2>2. (c + 1 + k) - UINT = k
    BY <1>2
  <2>3. c + 1 + k \in Nat /\ UINT <= c + 1 + k
    BY <1>2
  <2>4. ((c + 1 + k) - UINT) % PIPESIZE = (c + 1 + k) % PIPESIZE
    BY Zenon, <2>3, ModShift
  <2> QED
    BY <2>1, <2>2, <2>4
<1> QED
  BY <1>1, <1>2

\* The next byte goes behind the last one.
LEMMA EndSlot ==
  ASSUME TypeOK
  PROVE  nwrite % PIPESIZE = (nread + Count) % PIPESIZE
<1> DEFINE x == nread + Count
<1>1. nread \in 0 .. UINT - 1 /\ nwrite \in 0 .. UINT - 1 /\ UINT \in Nat \ {0}
  BY PipeAssumption DEF TypeOK
<1>2. CASE nwrite >= nread
  <2>1. nwrite = x
    BY <1>1, <1>2, CountIs
  <2> QED
    BY Zenon, <2>1
<1>3. CASE ~ nwrite >= nread
  <2>1. x \in Nat /\ UINT <= x /\ nwrite = x - UINT
    BY <1>1, <1>3, CountIs
  <2> HIDE DEF x
  <2>2. (x - UINT) % PIPESIZE = x % PIPESIZE
    BY Zenon, <2>1, ModShift, PipeAssumption
  <2> QED
    BY Zenon, <2>1, <2>2 DEF x
<1> QED
  BY Zenon, <1>2, <1>3

LEMMA SlotsSeq ==
  ASSUME NEW a \in Nat, NEW c \in Nat, NEW d \in [0 .. PIPESIZE - 1 -> Byte]
  PROVE  /\ [k \in 1 .. c |-> d[(a + k - 1) % PIPESIZE]] \in Seq(Byte)
         /\ Len([k \in 1 .. c |-> d[(a + k - 1) % PIPESIZE]]) = c
<1> USE PipeAssumption
<1>1. \A k \in 1 .. c : (a + k - 1) % PIPESIZE \in 0 .. PIPESIZE - 1
  BY ModRange
<1>2. \A k \in 1 .. c : d[(a + k - 1) % PIPESIZE] \in Byte
  BY Zenon, <1>1
<1> QED
  BY <1>2

LEMMA ContentsSeq ==
  ASSUME TypeOK
  PROVE  Contents \in Seq(Byte) /\ Len(Contents) = Count /\ Count \in Nat
<1>1. nread \in Nat /\ data \in [0 .. PIPESIZE - 1 -> Byte] /\ Count \in Nat
  BY CountIs, PipeAssumption DEF TypeOK
<1> QED
  BY <1>1, SlotsSeq DEF Contents

\* A byte written goes behind all that are there, and over none of them.
LEMMA WriteIsPut ==
  ASSUME IInv, IInv', RingInv, NEW p \in User, NEW b \in Byte, write_byte(p, b)
  PROVE  RingInv' /\ F!Put(b)
<1> USE DEF IInv
<1>1. /\ nread \in 0 .. UINT - 1 /\ nwrite \in 0 .. UINT - 1
      /\ UINT \in Nat \ {0} /\ PIPESIZE \in Nat \ {0} /\ PIPESIZE < UINT
      /\ data \in [0 .. PIPESIZE - 1 -> Byte]
  BY PipeAssumption DEF TypeOK
<1>2. Count \in Nat /\ Count < PIPESIZE
  BY <1>1, CountIs, FullIs DEF CopyInv, RingInv, write_byte, Holds
<1>3. Count' = Count + 1
  <2>1. nread' = nread /\ nwrite' = IF nwrite + 1 < UINT THEN nwrite + 1 ELSE 0
    BY Zenon, <1>1, Increment DEF write_byte
  <2>2. nwrite' \in 0 .. UINT - 1
    BY <1>1, <2>1
  <2>3. Count' = IF nwrite' >= nread' THEN nwrite' - nread' ELSE nwrite' - nread' + UINT
    BY Zenon, <1>1, <2>1, <2>2, Difference DEF Count
  <2> QED
    BY <1>1, <1>2, <2>1, <2>3, CountIs
<1>4. /\ Contents \in Seq(Byte) /\ Len(Contents) = Count
      /\ Contents' \in Seq(Byte) /\ Len(Contents') = Count + 1
  <2>1. nread' \in Nat /\ data' \in [0 .. PIPESIZE - 1 -> Byte] /\ Count' \in Nat
    BY <1>1, <1>2, <1>3 DEF TypeOK
  <2>2. Contents' \in Seq(Byte) /\ Len(Contents') = Count'
    BY Zenon, <2>1, SlotsSeq DEF Contents
  <2> QED
    BY Zenon, <2>2, <1>3, ContentsSeq
<1>5. ASSUME NEW k \in 1 .. Count
      PROVE  Contents'[k] = Contents[k]
  <2> DEFINE x == nread + k - 1
             y == nread + Count
  <2>1. x \in Nat /\ y \in Nat /\ x <= y /\ x # y /\ y < x + PIPESIZE
    BY <1>1, <1>2
  <2>2. nwrite % PIPESIZE = y % PIPESIZE
    BY Zenon, EndSlot
  <2> HIDE DEF x, y
  <2>3. x % PIPESIZE # y % PIPESIZE
    <3>1. PIPESIZE \in Nat \ {0}
      BY Zenon, <1>1
    <3> QED
      BY Zenon, <2>1, <3>1, ModInj
  <2>4. x % PIPESIZE \in 0 .. PIPESIZE - 1
    BY Zenon, <1>1, <2>1, ModRange
  <2>5. data'[x % PIPESIZE] = data[x % PIPESIZE]
    BY Zenon, <1>1, <2>2, <2>3, <2>4 DEF write_byte
  <2> QED
    BY <1>1, <1>2, <1>3, <2>5 DEF Contents, write_byte, x
<1>6. Contents'[Count + 1] = b
  <2>1. nwrite % PIPESIZE \in 0 .. PIPESIZE - 1
    BY <1>1, ModRange
  <2>2. data'[nwrite % PIPESIZE] = b
    BY Zenon, <1>1, <2>1 DEF write_byte
  <2>3. data'[(nread + Count) % PIPESIZE] = b
    BY Zenon, <2>2, EndSlot
  <2>4. nread + (Count + 1) - 1 = nread + Count /\ Count + 1 \in 1 .. Count'
    BY <1>1, <1>2, <1>3
  <2> QED
    BY Zenon, <1>3, <2>3, <2>4 DEF Contents, write_byte
<1>7. Contents' = Append(Contents, b)
  <2>1. Append(Contents, b) \in Seq(Byte) /\ Len(Append(Contents, b)) = Count + 1
    BY <1>4
  <2>2. \A k \in 1 .. Count + 1 : Contents'[k] = Append(Contents, b)[k]
    BY <1>2, <1>4, <1>5, <1>6
  <2> QED
    BY Zenon, <1>4, <2>1, <2>2, SeqEqual
<1>8. readopen /\ writeopen
  BY Zenon, PipeAssumption DEF write_byte, Holds, CopyInv, EndInv, User
<1> QED
  BY <1>1, <1>2, <1>3, <1>4, <1>7, <1>8 DEF F!Put, RingInv, write_byte, ends

\* The byte read is the oldest one.
LEMMA ReadIsGet ==
  ASSUME IInv, IInv', RingInv, NEW p \in User, NEW ok \in BOOLEAN, read_byte(p, ok)
  PROVE  RingInv' /\ F!Get
<1> USE DEF IInv
<1>1. /\ nread \in 0 .. UINT - 1 /\ nwrite \in 0 .. UINT - 1
      /\ UINT \in Nat \ {0} /\ PIPESIZE \in Nat \ {0} /\ PIPESIZE < UINT
      /\ data \in [0 .. PIPESIZE - 1 -> Byte]
  BY PipeAssumption DEF TypeOK
<1>2. Count \in Nat \ {0} /\ Count <= PIPESIZE
  BY <1>1, CountIs, EmptyIs DEF RingInv, read_byte
<1>3. Count' = Count - 1
  <2>1. nwrite' = nwrite /\ nread' = IF nread + 1 < UINT THEN nread + 1 ELSE 0
    BY Zenon, <1>1, Increment DEF read_byte
  <2>2. nread' \in 0 .. UINT - 1
    BY <1>1, <2>1
  <2>3. Count' = IF nwrite' >= nread' THEN nwrite' - nread' ELSE nwrite' - nread' + UINT
    BY Zenon, <1>1, <2>1, <2>2, Difference DEF Count
  <2> QED
    BY <1>1, <1>2, <2>1, <2>3, CountIs
<1>4. /\ Contents \in Seq(Byte) /\ Len(Contents) = Count
      /\ Contents' \in Seq(Byte) /\ Len(Contents') = Count - 1
  <2>1. nread' \in Nat /\ data' \in [0 .. PIPESIZE - 1 -> Byte] /\ Count' \in Nat
    BY <1>1, <1>2, <1>3 DEF TypeOK
  <2>2. Contents' \in Seq(Byte) /\ Len(Contents') = Count'
    BY Zenon, <2>1, SlotsSeq DEF Contents
  <2> QED
    BY Zenon, <2>2, <1>3, ContentsSeq
<1>5. Contents # <<>> /\ got' = Head(Contents)
  <2>1. nread + 1 - 1 = nread /\ 1 \in 1 .. Count
    BY <1>1, <1>2
  <2>2. Contents[1] = data[nread % PIPESIZE]
    BY Zenon, <2>1 DEF Contents
  <2> QED
    BY <1>2, <1>4, <2>2 DEF read_byte
<1>6. ASSUME NEW k \in 1 .. Count - 1
      PROVE  Contents'[k] = Contents[k + 1]
  <2> DEFINE j == k - 1
  <2>1. j \in Nat /\ nread' + k - 1 = nread' + j /\ nread + (k + 1) - 1 = nread + 1 + j
    BY <1>1 DEF TypeOK
  <2>2. nread' = (nread + 1) % UINT /\ data' = data
    BY Zenon DEF read_byte
  <2>3. (nread' + j) % PIPESIZE = (nread + 1 + j) % PIPESIZE
    BY Zenon, <1>1, <2>1, <2>2, NextSlot
  <2>4. Contents'[k] = data[(nread' + j) % PIPESIZE]
    BY Zenon, <1>3, <2>1, <2>2 DEF Contents
  <2>5. Contents[k + 1] = data[(nread + 1 + j) % PIPESIZE]
    BY <1>2, <2>1 DEF Contents
  <2> QED
    BY Zenon, <2>3, <2>4, <2>5
<1>7. Contents' = Tail(Contents)
  <2>1. /\ Tail(Contents) \in Seq(Byte) /\ Len(Tail(Contents)) = Count - 1
        /\ \A k \in 1 .. Count - 1 : Tail(Contents)[k] = Contents[k + 1]
    BY Zenon, <1>4, <1>5, HeadTailProperties
  <2> QED
    BY Zenon, <1>4, <1>6, <2>1, SeqEqual
<1>8. readopen
  BY Zenon, PipeAssumption DEF read_byte, Holds, EndInv, User
<1> QED
  BY <1>1, <1>2, <1>3, <1>5, <1>7, <1>8 DEF F!Get, RingInv, read_byte, ends

\* All other steps leave the bytes alone; pipeclose() closes one end.
LEMMA OthersKeep ==
  ASSUME UNCHANGED ring
  PROVE  Contents' = Contents /\ got' = got /\ (RingInv => RingInv')
  BY Zenon DEF ring, Contents, Count, RingInv

LEMMA FifoStep == IInv /\ IInv' /\ RingInv /\ [Next]_vars => RingInv' /\ [F!Next]_F!vars
<1> SUFFICES ASSUME IInv, IInv', RingInv, [Next]_vars
             PROVE  RingInv' /\ [F!Next]_F!vars
  BY Zenon
<1>1. ASSUME NEW p \in User, NEW b \in Byte, write_byte(p, b)
      PROVE  RingInv' /\ [F!Next]_F!vars
  BY Zenon, <1>1, WriteIsPut DEF F!Next
<1>2. ASSUME NEW p \in User, NEW ok \in BOOLEAN, read_byte(p, ok)
      PROVE  RingInv' /\ [F!Next]_F!vars
  BY Zenon, <1>2, ReadIsGet DEF F!Next
<1>3. ASSUME NEW p \in User, close(p)
      PROVE  RingInv' /\ [F!Next]_F!vars
  <2>1. Contents' = Contents /\ got' = got /\ RingInv'
    BY Zenon, <1>3, OthersKeep DEF close
  <2>2. \/ UNCHANGED <<readopen, writeopen>>
        \/ writeopen' = FALSE /\ UNCHANGED readopen
        \/ readopen' = FALSE /\ UNCHANGED writeopen
    BY <1>3, PipeAssumption DEF close, pipeclose, User, IInv, TypeOK
  <2> QED
    BY Zenon, <2>1, <2>2 DEF F!Next, F!Close, F!vars
<1>4. ASSUME UNCHANGED ring, UNCHANGED ends
      PROVE  RingInv' /\ [F!Next]_F!vars
  BY Zenon, <1>4, OthersKeep DEF F!vars, ends
<1>5. CASE Next
  <2> PICK p \in User : \/ Step(p) \/ (\E m \in 0 .. MaxN : call(p, m))
                        \/ close(p) \/ kill(p)
    BY Zenon, <1>5 DEF Next
  <2> QED
    BY Zenon, <1>1, <1>2, <1>3, <1>4 DEF Step, acquire, sleep, write_loop, write_done, write_fault,
       read_loop, read_end, read_done, call, kill
<1>6. CASE UNCHANGED vars
  BY Zenon, <1>4, <1>6 DEF vars
<1> QED
  BY Zenon, <1>5, <1>6

LEMMA FifoInit == Init => RingInv /\ F!Init
<1> SUFFICES ASSUME Init PROVE RingInv /\ F!Init
  BY Zenon
<1>1. TypeOK
  BY Zenon, InitIInv DEF IInv
<1>2. Count = 0
  BY Zenon, <1>1, EmptyIs DEF Init, Empty
<1>3. Contents = <<>>
  BY <1>1, <1>2, ContentsSeq
<1> QED
  BY <1>1, <1>2, <1>3, PipeAssumption DEF F!Init, Init, RingInv, TypeOK

\* For every length of the ring, every width of the counters and any number of readers
\* and writers, a pipe is a FIFO.
THEOREM PipeIsFifo == Spec => IsFifo
  BY FifoInit, FifoStep, Inductive, PTL DEF Spec, IsFifo, F!Spec
=============================================================================
