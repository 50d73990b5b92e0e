--------------------------- MODULE SpinLockProofs ---------------------------
(***************************************************************************)
(* Proofs about SpinLock for every number of CPUs and locks.               *)
(***************************************************************************)
EXTENDS SpinLock, FiniteSetTheorems, TLAPS

\* A lock belongs to the thread whose amoswap found it free, until its word is
\* cleared again.
Owns(t, l) == l \in held[t] \/ (pc[t] \in {"locked", "unlock"} /\ lk[t] = l)

OwnInv ==
  /\ \A t \in Thread, l \in Lock : Owns(t, l) => locked[l]
  /\ \A t, u \in Thread, l \in Lock : Owns(t, l) /\ Owns(u, l) => t = u
  /\ \A t \in Thread : pc[t] # "run" => lk[t] \notin held[t]

\* lk->cpu is set exactly while a thread of that CPU holds the lock.
CpuInv ==
  \A c \in CPU, l \in Lock : cpu[l] = c <=> \E i \in Level : l \in held[<<c, i>>]

\* Only the level that executes holds or waits for locks; what it interrupted
\* was not beyond intr_off() in push_off().
LevelOK(c) ==
  /\ level[c] = 0 => held[<<c, 1>>] = {} /\ pc[<<c, 1>>] = "run"
  /\ level[c] = 1 => held[<<c, 0>>] = {} /\ pc[<<c, 0>>] \in {"run", "push_off"}

\* noff counts, for the level that executes.
NoffOK(c) ==
  /\ IsFiniteSet(held[Me(c)])
  /\ noff[c] = Cardinality(held[Me(c)]) + Pending(Me(c))

\* What push_off() read is still so, and what it saved is what it found.
IntrOK(c) ==
  /\ noff[c] > 0 => ~intr[c] /\ intena[c] = was[c]
  /\ level[c] = 1 => ~intr[c] /\ (noff[c] > 0 => ~intena[c])
  /\ pc[<<c, 0>>] = "push_off" => old[<<c, 0>>] = (intr[c] \/ level[c] = 1)
  /\ pc[<<c, 1>>] = "push_off" => ~old[<<c, 1>>]

CpusOK == \A c \in CPU : LevelOK(c) /\ NoffOK(c) /\ IntrOK(c)

IInv == TypeOK /\ OwnInv /\ CpuInv /\ CpusOK

\* What a step of CPU c leaves alone.
Others(c) ==
  \A d \in CPU \ {c} :
    /\ UNCHANGED <<level[d], noff[d], intr[d], intena[d], was[d]>>
    /\ \A i \in Level : UNCHANGED <<held[<<d, i>>], pc[<<d, i>>], old[<<d, i>>]>>
-----------------------------------------------------------------------------
\* The state of the CPUs is kept by a step that keeps that of one of them and
\* leaves the others alone: noff, intena and SIE are private to a CPU.
LEMMA OneCpuSteps ==
  ASSUME TypeOK, CpusOK, NEW c \in CPU, Others(c), (LevelOK(c) /\ NoffOK(c) /\ IntrOK(c))'
  PROVE  CpusOK'
<1> SUFFICES ASSUME NEW d \in CPU \ {c} PROVE (LevelOK(d) /\ NoffOK(d) /\ IntrOK(d))'
  BY Zenon DEF CpusOK
<1>1. LevelOK(d) /\ NoffOK(d) /\ IntrOK(d)
  BY Zenon DEF CpusOK
<1>2. level'[d] = level[d] /\ level[d] \in Level
  BY Zenon DEF Others, TypeOK
<1>3. Me(d)' = Me(d) /\ held'[Me(d)] = held[Me(d)] /\ pc'[Me(d)] = pc[Me(d)]
  BY Zenon, <1>2 DEF Others, Me
<1>4. LevelOK(d)' /\ IntrOK(d)'
  BY <1>1 DEF LevelOK, IntrOK, Others, Level
<1>5. NoffOK(d)'
  BY <1>1, <1>2, <1>3 DEF NoffOK, Pending, Others
<1> QED
  BY Zenon, <1>4, <1>5

\* A CPU that has interrupts on, or executes at noff = 0, holds no lock.
LEMMA NoffZero ==
  ASSUME IInv, NEW c \in CPU
  PROVE  /\ Cardinality(held[Me(c)]) \in Nat
         /\ Pending(Me(c)) \in {0, 1}
         /\ noff[c] = 0 <=> held[Me(c)] = {} /\ Pending(Me(c)) = 0
         /\ intr[c] => noff[c] = 0
<1>1. IsFiniteSet(held[Me(c)]) /\ noff[c] = Cardinality(held[Me(c)]) + Pending(Me(c))
  BY Zenon DEF IInv, CpusOK, NoffOK
<1>2. Cardinality(held[Me(c)]) \in Nat
  BY Zenon, <1>1, FS_CardinalityType
<1>3. Cardinality(held[Me(c)]) = 0 <=> held[Me(c)] = {}
  BY Zenon, <1>1, FS_EmptySet
<1>4. Pending(Me(c)) \in {0, 1}
  BY Zenon DEF Pending
<1>5. intr[c] => noff[c] = 0
  <2>1. noff[c] > 0 => ~intr[c]
    BY Zenon DEF IInv, CpusOK, IntrOK
  <2>2. noff[c] \in Nat
    BY Zenon DEF IInv, TypeOK
  <2> QED
    BY <2>1, <2>2
<1> QED
  BY <1>1, <1>2, <1>3, <1>4, <1>5

\* initlock() and the boot state satisfy the invariant.
LEMMA InitIInv == Init => IInv
<1> SUFFICES ASSUME Init PROVE IInv
  BY Zenon
<1>1. TypeOK
  BY Zenon DEF Init, TypeOK, Level, Labels
<1>2. OwnInv /\ CpuInv
  BY Zenon, SpinLockAssumption DEF Init, OwnInv, CpuInv, Owns, Thread, Level
<1>3. ASSUME NEW c \in CPU PROVE LevelOK(c) /\ NoffOK(c) /\ IntrOK(c)
  <2>1. /\ level[c] = 0 /\ noff[c] = 0 /\ ~intr[c]
        /\ \A i \in Level : <<c, i>> \in Thread
    BY Zenon DEF Init, Thread
  <2>2. \A i \in Level : held[<<c, i>>] = {} /\ pc[<<c, i>>] = "run"
    BY Zenon, <2>1 DEF Init
  <2> QED
    BY <2>1, <2>2, FS_EmptySet, SMTT(30) DEF LevelOK, NoffOK, IntrOK, Me, Pending, Level
<1> QED
  BY Zenon, <1>1, <1>2, <1>3 DEF IInv, CpusOK

\* Taking the argument of acquire() and reading intr_get() keep the invariant.
LEMMA Step_acquire ==
  ASSUME IInv, NEW c \in CPU, NEW l \in Lock, acquire(c, l)
  PROVE  IInv'
<1>0. Me(c) \in Thread /\ level[c] \in {0, 1}
  BY Zenon DEF IInv, TypeOK, Me, Thread, Level
<1>1. TypeOK'
  BY Zenon, <1>0, NoffZero, SpinLockAssumption DEF IInv, TypeOK, Labels, Level, Thread, acquire, At, Goto, Me
<1>2. OwnInv'
  <2>1. l \notin held[Me(c)]
    BY SpinLockAssumption DEF acquire
  <2> QED
    BY <1>0, <2>1 DEF IInv, TypeOK, OwnInv, Owns, acquire, At, Goto
<1>3. CpuInv'
  BY <1>0, SpinLockAssumption, Zenon DEF IInv, TypeOK, OwnInv, Owns, CpuInv, Thread, Level, acquire, At, Goto, Me
<1>4. Others(c)
  BY Zenon, <1>0 DEF IInv, TypeOK, Others, Thread, Level, acquire, At, Goto, Me
<1>5. LevelOK(c)'
  BY <1>0, NoffZero DEF IInv, TypeOK, CpusOK, LevelOK, Thread, Level, Pending, acquire, At, Goto, Me
<1>6. NoffOK(c)'
  BY <1>0, NoffZero, Zenon DEF IInv, TypeOK, CpusOK, NoffOK, Pending, Thread, Level, acquire, At, Goto, Me
<1>7. IntrOK(c)'
  BY <1>0, NoffZero DEF IInv, TypeOK, CpusOK, LevelOK, IntrOK, Pending, Thread, Level, acquire, At, Goto, Me
<1> QED
  BY Zenon, <1>1, <1>2, <1>3, <1>4, <1>5, <1>6, <1>7, OneCpuSteps DEF IInv

\* Turning interrupts off and counting keep the invariant.
LEMMA Step_push_off ==
  ASSUME IInv, NEW c \in CPU, push_off(c)
  PROVE  IInv'
<1>0. Me(c) \in Thread /\ level[c] \in {0, 1}
  BY Zenon DEF IInv, TypeOK, Me, Thread, Level
<1>1. TypeOK'
  <2>1. noff' \in [CPU -> Nat]
    BY DEF IInv, TypeOK, push_off
  <2>2. intena' \in [CPU -> BOOLEAN] /\ was' \in [CPU -> BOOLEAN]
    BY <1>0 DEF IInv, TypeOK, push_off
  <2>3. intr' \in [CPU -> BOOLEAN] /\ pc' \in [Thread -> Labels]
    BY Zenon, <1>0 DEF IInv, TypeOK, push_off, Goto, Labels
  <2> QED
    BY Zenon, <2>1, <2>2, <2>3 DEF IInv, TypeOK, push_off
<1>2. OwnInv'
  BY <1>0 DEF IInv, TypeOK, OwnInv, Owns, push_off, At, Goto
<1>3. CpuInv'
  BY <1>0, SpinLockAssumption, Zenon DEF IInv, TypeOK, OwnInv, Owns, CpuInv, Thread, Level, push_off, At, Goto, Me
<1>4. Others(c)
  BY Zenon, <1>0 DEF IInv, TypeOK, Others, Thread, Level, push_off, At, Goto, Me
<1>5. LevelOK(c)'
  BY Zenon, <1>0, NoffZero DEF IInv, TypeOK, CpusOK, LevelOK, Thread, Level, Pending, push_off, At, Goto, Me
<1>6. NoffOK(c)'
  <2>1. Me(c)' = Me(c) /\ held' = held
    BY Zenon DEF push_off, Me
  <2>2. noff'[c] = noff[c] + 1
    BY Zenon DEF IInv, TypeOK, push_off
  <2>3. pc[Me(c)] = "push_off" /\ pc'[Me(c)] = "spin"
    BY Zenon, <1>0 DEF IInv, TypeOK, push_off, At, Goto
  <2>4. Pending(Me(c)) = 0 /\ Pending(Me(c))' = 1
    BY Zenon, <2>1, <2>3 DEF Pending
  <2>5. IsFiniteSet(held[Me(c)]) /\ noff[c] = Cardinality(held[Me(c)]) + Pending(Me(c))
    BY Zenon DEF IInv, CpusOK, NoffOK
  <2>6. Cardinality(held[Me(c)]) \in Nat
    BY Zenon, NoffZero
  <2>7. noff'[c] = Cardinality(held[Me(c)]) + 1
    BY <2>2, <2>4, <2>5, <2>6
  <2> QED
    BY Zenon, <2>1, <2>4, <2>5, <2>7 DEF NoffOK
<1>7. IntrOK(c)'
  BY <1>0, NoffZero DEF IInv, TypeOK, CpusOK, LevelOK, IntrOK, Pending, Thread, Level, push_off, At, Goto, Me
<1> QED
  BY Zenon, <1>1, <1>2, <1>3, <1>4, <1>5, <1>6, <1>7, OneCpuSteps DEF IInv

\* A successful amoswap makes its CPU the only owner.
LEMMA Step_swap ==
  ASSUME IInv, NEW c \in CPU, swap(c)
  PROVE  IInv'
<1>0. Me(c) \in Thread /\ level[c] \in {0, 1}
  BY Zenon DEF IInv, TypeOK, Me, Thread, Level
<1>1. TypeOK'
  BY Zenon, <1>0, NoffZero, SpinLockAssumption DEF IInv, TypeOK, Labels, Level, Thread, swap, At, Goto, Me
<1>2. OwnInv'
  BY <1>0 DEF IInv, TypeOK, OwnInv, Owns, swap, At, Goto
<1>3. CpuInv'
  BY <1>0, SpinLockAssumption, ZenonT(30) DEF IInv, TypeOK, OwnInv, Owns, CpuInv, Thread, Level, swap, At, Goto, Me
<1>4. Others(c)
  BY Zenon, <1>0 DEF IInv, TypeOK, Others, Thread, Level, swap, At, Goto, Me
<1>5. LevelOK(c)'
  BY Zenon, <1>0, NoffZero DEF IInv, TypeOK, CpusOK, LevelOK, Thread, Level, Pending, swap, At, Goto, Me
<1>6. NoffOK(c)'
  BY Zenon, <1>0, NoffZero DEF IInv, TypeOK, CpusOK, NoffOK, Pending, Thread, Level, swap, At, Goto, Me
<1>7. IntrOK(c)'
  BY Zenon, <1>0, NoffZero DEF IInv, TypeOK, CpusOK, LevelOK, IntrOK, Pending, Thread, Level, swap, At, Goto, Me
<1> QED
  BY Zenon, <1>1, <1>2, <1>3, <1>4, <1>5, <1>6, <1>7, OneCpuSteps DEF IInv

\* Recording the CPU completes an acquire().
LEMMA Step_acquired ==
  ASSUME IInv, NEW c \in CPU, acquired(c)
  PROVE  IInv'
<1>0. Me(c) \in Thread /\ level[c] \in {0, 1}
  BY Zenon DEF IInv, TypeOK, Me, Thread, Level
<1>1. TypeOK'
  BY <1>0, NoffZero, SpinLockAssumption DEF IInv, TypeOK, Labels, Level, Thread, acquired, At, Goto, Me
<1>2. OwnInv'
  BY <1>0 DEF IInv, TypeOK, OwnInv, Owns, acquired, At, Goto
<1>3. CpuInv'
  <2> DEFINE l == lk[Me(c)]
  <2>1. l \in Lock /\ Owns(Me(c), l)
    BY Zenon, <1>0 DEF IInv, TypeOK, Owns, acquired, At
  <2>2. \A u \in Thread : l \in held'[u] <=> u = Me(c)
    BY <1>0, <2>1 DEF IInv, TypeOK, OwnInv, Owns, acquired
  <2>3. \A u \in Thread, m \in Lock \ {l} : m \in held'[u] <=> m \in held[u]
    BY Zenon, <1>0 DEF IInv, TypeOK, acquired
  <2>4. cpu'[l] = c /\ \A m \in Lock \ {l} : cpu'[m] = cpu[m]
    BY Zenon, <2>1 DEF IInv, TypeOK, acquired
  <2> SUFFICES ASSUME NEW d \in CPU, NEW m \in Lock
               PROVE  cpu'[m] = d <=> \E i \in Level : m \in held'[<<d, i>>]
    BY Zenon DEF CpuInv
  <2>5. \A i \in Level : <<d, i>> \in Thread
    BY Zenon DEF Thread
  <2>6. CASE m = l
    BY Zenon, <1>0, <2>2, <2>4, <2>5, <2>6 DEF Me, Level
  <2>7. CASE m # l
    <3>1. cpu[m] = d <=> \E i \in Level : m \in held[<<d, i>>]
      BY Zenon DEF IInv, CpuInv
    <3>2. cpu'[m] = cpu[m]
      BY Zenon, <2>4, <2>7
    <3>3. \A i \in Level : m \in held'[<<d, i>>] <=> m \in held[<<d, i>>]
      BY Zenon, <2>3, <2>5, <2>7
    <3> QED
      BY Zenon, <3>1, <3>2, <3>3
  <2> QED
    BY Zenon, <2>6, <2>7
<1>4. Others(c)
  BY Zenon, <1>0 DEF IInv, TypeOK, Others, Thread, Level, acquired, At, Goto, Me
<1>5. LevelOK(c)'
  BY Zenon, <1>0, NoffZero DEF IInv, TypeOK, CpusOK, LevelOK, Thread, Level, Pending, acquired, At, Goto, Me
<1>6. NoffOK(c)'
  <2>1. /\ IsFiniteSet(held[Me(c)]) /\ lk[Me(c)] \notin held[Me(c)]
        /\ noff[c] = Cardinality(held[Me(c)]) + 1
    BY Zenon, <1>0 DEF IInv, OwnInv, CpusOK, NoffOK, Pending, acquired, At
  <2>2. /\ IsFiniteSet(held[Me(c)] \cup {lk[Me(c)]})
        /\ Cardinality(held[Me(c)] \cup {lk[Me(c)]}) = Cardinality(held[Me(c)]) + 1
    BY <2>1, FS_AddElement, Zenon
  <2>3. /\ Me(c)' = Me(c) /\ pc'[Me(c)] = "run"
        /\ held'[Me(c)] = held[Me(c)] \cup {lk[Me(c)]}
    BY Zenon, <1>0 DEF IInv, TypeOK, acquired, Goto, Me
  <2>4. noff'[c] = Cardinality(held'[Me(c)]) + Pending(Me(c))'
    <3>1. Pending(Me(c))' = 0
      BY Zenon, <2>3 DEF Pending
    <3>2. noff'[c] = noff[c] /\ Cardinality(held[Me(c)]) \in Nat
      BY NoffZero, Zenon DEF acquired
    <3> QED
      BY <2>1, <2>2, <2>3, <3>1, <3>2
  <2> QED
    BY Zenon, <2>2, <2>3, <2>4 DEF NoffOK
<1>7. IntrOK(c)'
  BY <1>0, NoffZero, Zenon DEF IInv, TypeOK, CpusOK, LevelOK, IntrOK, Pending, Thread, Level, acquired, At, Goto, Me
<1> QED
  BY Zenon, <1>1, <1>2, <1>3, <1>4, <1>5, <1>6, <1>7, OneCpuSteps DEF IInv

\* release() up to lk->cpu = 0 keeps the invariant.
LEMMA Step_release ==
  ASSUME IInv, NEW c \in CPU, NEW l \in Lock, release(c, l)
  PROVE  IInv'
<1>0. Me(c) \in Thread /\ level[c] \in {0, 1}
  BY Zenon DEF IInv, TypeOK, Me, Thread, Level
<1>1. TypeOK'
  BY Zenon, <1>0, NoffZero, SpinLockAssumption DEF IInv, TypeOK, Labels, Level, Thread, release, At, Goto, Me
<1>2. OwnInv'
  BY <1>0 DEF IInv, TypeOK, OwnInv, Owns, release, At, Goto
<1>3. CpuInv'
  <2>1. Owns(Me(c), l)
    BY Zenon DEF Owns, release
  <2>2. \A u \in Thread : l \notin held'[u]
    BY Zenon, <1>0, <2>1 DEF IInv, TypeOK, OwnInv, Owns, release
  <2>3. \A u \in Thread, m \in Lock \ {l} : m \in held'[u] <=> m \in held[u]
    BY Zenon, <1>0 DEF IInv, TypeOK, release
  <2>4. cpu'[l] \notin CPU /\ \A m \in Lock \ {l} : cpu'[m] = cpu[m]
    BY Zenon, SpinLockAssumption DEF IInv, TypeOK, release
  <2> SUFFICES ASSUME NEW d \in CPU, NEW m \in Lock
               PROVE  cpu'[m] = d <=> \E i \in Level : m \in held'[<<d, i>>]
    BY Zenon DEF CpuInv
  <2>5. \A i \in Level : <<d, i>> \in Thread
    BY Zenon DEF Thread
  <2>6. CASE m = l
    BY Zenon, <2>2, <2>4, <2>5, <2>6
  <2>7. CASE m # l
    BY <2>3, <2>4, <2>5, <2>7 DEF IInv, CpuInv
  <2> QED
    BY <2>6, <2>7, Zenon
<1>4. Others(c)
  BY Zenon, <1>0 DEF IInv, TypeOK, Others, Thread, Level, release, At, Goto, Me
<1>5. LevelOK(c)'
  BY <1>0, NoffZero, Zenon DEF IInv, TypeOK, CpusOK, LevelOK, Thread, Level, Pending, release, At, Goto, Me
<1>6. NoffOK(c)'
  <2>1. /\ IsFiniteSet(held[Me(c)]) /\ l \in held[Me(c)]
        /\ noff[c] = Cardinality(held[Me(c)]) + 0
    BY Zenon, <1>0 DEF IInv, CpusOK, NoffOK, Pending, release, At
  <2>2. /\ IsFiniteSet(held[Me(c)] \ {l})
        /\ Cardinality(held[Me(c)] \ {l}) = Cardinality(held[Me(c)]) - 1
    BY Zenon, <2>1, FS_RemoveElement
  <2>3. /\ Me(c)' = Me(c) /\ pc'[Me(c)] = "unlock"
        /\ held'[Me(c)] = held[Me(c)] \ {l}
    BY Zenon, <1>0 DEF IInv, TypeOK, release, Goto, Me
  <2>4. noff'[c] = Cardinality(held'[Me(c)]) + Pending(Me(c))'
    <3>1. Pending(Me(c))' = 1
      BY Zenon, <2>3 DEF Pending
    <3>2. noff'[c] = noff[c] /\ Cardinality(held[Me(c)]) \in Nat
      BY Zenon, NoffZero DEF release
    <3> QED
      BY <2>1, <2>2, <2>3, <3>1, <3>2
  <2> QED
    BY <2>2, <2>3, <2>4, Zenon DEF NoffOK
<1>7. IntrOK(c)'
  BY <1>0, NoffZero, Zenon DEF IInv, TypeOK, CpusOK, LevelOK, IntrOK, Pending, Thread, Level, release, At, Goto, Me
<1> QED
  BY Zenon, <1>1, <1>2, <1>3, <1>4, <1>5, <1>6, <1>7, OneCpuSteps DEF IInv

\* Clearing the word and pop_off() keep the invariant.
LEMMA Step_unlock ==
  ASSUME IInv, NEW c \in CPU, unlock(c)
  PROVE  IInv'
<1>0. Me(c) \in Thread /\ level[c] \in {0, 1}
  BY Zenon DEF IInv, TypeOK, Me, Thread, Level
<1>1. TypeOK'
  BY <1>0, NoffZero, SpinLockAssumption DEF IInv, TypeOK, Labels, Level, Thread, unlock, pop_off, At, Goto, Me
<1>2. OwnInv'
  BY <1>0 DEF IInv, TypeOK, OwnInv, Owns, unlock, pop_off, At, Goto
<1>3. CpuInv'
  BY <1>0, SpinLockAssumption, ZenonT(30) DEF IInv, TypeOK, OwnInv, Owns, CpuInv, Thread, Level, unlock, pop_off, At, Goto, Me
<1>4. Others(c)
  BY Zenon, <1>0 DEF IInv, TypeOK, Others, Thread, Level, unlock, pop_off, At, Goto, Me
<1>5. LevelOK(c)'
  BY Zenon, <1>0, NoffZero DEF IInv, TypeOK, CpusOK, LevelOK, Thread, Level, Pending, unlock, pop_off, At, Goto, Me
<1>6. NoffOK(c)'
  BY <1>0, NoffZero, SMTT(30) DEF IInv, TypeOK, CpusOK, NoffOK, Pending, Thread, Level, unlock, pop_off, At, Goto, Me
<1>7. IntrOK(c)'
  BY <1>0, NoffZero, SMTT(30) DEF IInv, TypeOK, CpusOK, LevelOK, IntrOK, Pending, Thread, Level, unlock, pop_off, At, Goto, Me
<1> QED
  BY Zenon, <1>1, <1>2, <1>3, <1>4, <1>5, <1>6, <1>7, OneCpuSteps DEF IInv

\* An interrupt finds no lock held, since interrupts are on.
LEMMA Step_interrupt ==
  ASSUME IInv, NEW c \in CPU, interrupt(c)
  PROVE  IInv'
<1>0. Me(c) \in Thread /\ level[c] \in {0, 1}
  BY Zenon DEF IInv, TypeOK, Me, Thread, Level
<1>1. TypeOK'
  BY Zenon, <1>0, NoffZero, SpinLockAssumption DEF IInv, TypeOK, Labels, Level, Thread, interrupt, At, Goto, Me
<1>2. OwnInv'
  BY <1>0, SMTT(30) DEF IInv, TypeOK, OwnInv, Owns, interrupt, At, Goto
<1>3. CpuInv'
  BY Zenon DEF IInv, CpuInv, interrupt
<1>4. Others(c)
  BY Zenon, <1>0 DEF IInv, TypeOK, Others, Thread, Level, interrupt, At, Goto, Me
<1>5. LevelOK(c)'
  <2>1. held[Me(c)] = {} /\ Pending(Me(c)) = 0 /\ Me(c) = <<c, 0>>
    BY Zenon, NoffZero DEF interrupt, Me
  <2>2. pc[Me(c)] \in {"run", "push_off"}
    BY <1>0, <2>1 DEF Pending, IInv, TypeOK, Labels
  <2>3. level'[c] = 1
    BY Zenon DEF IInv, TypeOK, interrupt
  <2> QED
    BY <2>1, <2>2, <2>3 DEF LevelOK, interrupt
<1>6. NoffOK(c)'
  <2>1. noff'[c] = 0 /\ Me(c)' = <<c, 1>>
    BY Zenon, NoffZero DEF IInv, TypeOK, interrupt, Me
  <2>2. held'[<<c, 1>>] = {} /\ pc'[<<c, 1>>] = "run"
    BY Zenon DEF IInv, CpusOK, LevelOK, interrupt
  <2> QED
    BY <2>1, <2>2, FS_EmptySet DEF NoffOK, Pending
<1>7. IntrOK(c)'
  BY <1>0, NoffZero DEF IInv, TypeOK, CpusOK, LevelOK, IntrOK, Pending, Thread, Level, interrupt, At, Goto, Me
<1> QED
  BY Zenon, <1>1, <1>2, <1>3, <1>4, <1>5, <1>6, <1>7, OneCpuSteps DEF IInv

\* The end of a handler keeps the invariant.
LEMMA Step_sret ==
  ASSUME IInv, NEW c \in CPU, sret(c)
  PROVE  IInv'
<1>0. Me(c) \in Thread /\ level[c] \in {0, 1}
  BY Zenon DEF IInv, TypeOK, Me, Thread, Level
<1>1. TypeOK'
  BY Zenon, <1>0, NoffZero, SpinLockAssumption DEF IInv, TypeOK, Labels, Level, Thread, sret, At, Goto, Me
<1>2. OwnInv'
  BY Zenon, <1>0 DEF IInv, TypeOK, OwnInv, Owns, sret, At, Goto
<1>3. CpuInv'
  BY Zenon DEF IInv, CpuInv, sret
<1>4. Others(c)
  BY <1>0, Zenon DEF IInv, TypeOK, Others, Thread, Level, sret, At, Goto, Me
<1>5. LevelOK(c)'
  BY <1>0, NoffZero, Zenon DEF IInv, TypeOK, CpusOK, LevelOK, Thread, Level, Pending, sret, At, Goto, Me
<1>6. NoffOK(c)'
  <2>1. noff'[c] = 0 /\ Me(c)' = <<c, 0>>
    BY Zenon, NoffZero DEF IInv, TypeOK, sret, Me, At, Pending
  <2>2. held'[<<c, 0>>] = {} /\ pc'[<<c, 0>>] \in {"run", "push_off"}
    BY Zenon DEF IInv, CpusOK, LevelOK, sret
  <2> QED
    BY <2>1, <2>2, FS_EmptySet DEF NoffOK, Pending
<1>7. IntrOK(c)'
  <2>1. noff'[c] = 0 /\ level'[c] = 0 /\ intr'[c] = TRUE
    BY Zenon, NoffZero DEF IInv, TypeOK, sret, At, Pending
  <2>2. pc'[<<c, 0>>] = "push_off" => old'[<<c, 0>>] = TRUE
    BY Zenon DEF IInv, CpusOK, IntrOK, sret
  <2>3. pc'[<<c, 1>>] = "run"
    BY Zenon DEF sret, At, Me
  <2>4. pc'[<<c, 0>>] = "push_off" => old'[<<c, 0>>] = (intr'[c] \/ level'[c] = 1)
    BY Zenon, <2>1, <2>2
  <2>5. ~(noff'[c] > 0) /\ level'[c] # 1 /\ pc'[<<c, 1>>] # "push_off"
    BY <2>1, <2>3
  <2> QED
    BY <2>4, <2>5, Zenon DEF IntrOK
<1> QED
  BY Zenon, <1>1, <1>2, <1>3, <1>4, <1>5, <1>6, <1>7, OneCpuSteps DEF IInv

\* intr_on() and intr_off() outside locks keep the invariant.
LEMMA Step_intr_set ==
  ASSUME IInv, NEW c \in CPU, NEW b \in BOOLEAN, intr_set(c, b)
  PROVE  IInv'
<1>0. Me(c) \in Thread /\ level[c] \in {0, 1}
  BY Zenon DEF IInv, TypeOK, Me, Thread, Level
<1>1. TypeOK'
  BY <1>0, NoffZero, SpinLockAssumption, Zenon DEF IInv, TypeOK, Labels, Level, Thread, intr_set, At, Goto, Me
<1>2. OwnInv'
  BY <1>0, SMTT(30) DEF IInv, TypeOK, OwnInv, Owns, intr_set, At, Goto
<1>3. CpuInv'
  BY Zenon DEF IInv, CpuInv, intr_set
<1>4. Others(c)
  BY Zenon, <1>0 DEF IInv, TypeOK, Others, Thread, Level, intr_set, At, Goto, Me
<1>5. LevelOK(c)'
  BY Zenon, <1>0, NoffZero DEF IInv, TypeOK, CpusOK, LevelOK, Thread, Level, Pending, intr_set, At, Goto, Me
<1>6. NoffOK(c)'
  BY Zenon, <1>0, NoffZero DEF IInv, TypeOK, CpusOK, NoffOK, Pending, Thread, Level, intr_set, At, Goto, Me
<1>7. IntrOK(c)'
  BY <1>0, NoffZero, SMTT(30) DEF IInv, TypeOK, CpusOK, LevelOK, IntrOK, Pending, Thread, Level, intr_set, At, Goto, Me
<1> QED
  BY Zenon, <1>1, <1>2, <1>3, <1>4, <1>5, <1>6, <1>7, OneCpuSteps DEF IInv

\* Every step keeps the invariant.
LEMMA StepIInv == IInv /\ [Next]_vars => IInv'
<1> SUFFICES ASSUME IInv, [Next]_vars PROVE IInv'
  BY Zenon
<1>1. CASE UNCHANGED vars
  <2>1. TypeOK'
    BY Zenon, <1>1 DEF vars, IInv, TypeOK
  <2>2. OwnInv' /\ CpuInv'
    BY <1>1 DEF vars, IInv, OwnInv, Owns, CpuInv
  <2>3. ASSUME NEW c \in CPU PROVE (LevelOK(c) /\ NoffOK(c) /\ IntrOK(c))'
    <3>1. LevelOK(c) /\ NoffOK(c) /\ IntrOK(c)
      BY Zenon DEF IInv, CpusOK
    <3>2. LevelOK(c)' /\ NoffOK(c)'
      BY <1>1, <3>1, Zenon DEF vars, LevelOK, NoffOK, Me, Pending
    <3>3. IntrOK(c)'
      BY Zenon, <1>1, <3>1 DEF vars, IntrOK
    <3> QED
      BY Zenon, <3>2, <3>3
  <2> QED
    BY Zenon, <2>1, <2>2, <2>3 DEF IInv, CpusOK
<1>2. CASE Next
  <2> PICK c \in CPU : \/ Straight(c)
                       \/ \E l \in Lock : acquire(c, l) \/ release(c, l)
                       \/ interrupt(c) \/ sret(c)
                       \/ \E b \in BOOLEAN : intr_set(c, b)
    BY Zenon, <1>2 DEF Next
  <2> QED
    BY Zenon, Step_acquire, Step_push_off, Step_swap, Step_acquired, Step_release,
       Step_unlock, Step_interrupt, Step_sret, Step_intr_set DEF Straight
<1> QED
  BY Zenon, <1>1, <1>2

\* The inductive invariant holds in every reachable state of the locks.
THEOREM Invariance == Spec => []IInv
  BY InitIInv, StepIInv, PTL DEF Spec

\* acquire() and release() keep a lock with one thread of one CPU, a handler
\* and the code it interrupted included.
THEOREM Exclusion == Spec => []MutualExclusion
<1>1. IInv => MutualExclusion
  BY Zenon DEF IInv, TypeOK, OwnInv, Owns, MutualExclusion
<1> QED
  BY <1>1, Invariance, PTL

\* holding(), which reads two words without a lock, answers exactly.
THEOREM HoldingIsExact == Spec => []HoldingExact
<1>1. IInv => HoldingExact
  <2> SUFFICES ASSUME IInv, NEW c \in CPU, NEW l \in Lock
               PROVE  holding(c, l) <=> \E i \in Level : l \in held[<<c, i>>]
    BY Zenon DEF HoldingExact
  <2>1. cpu[l] = c <=> \E i \in Level : l \in held[<<c, i>>]
    BY Zenon DEF IInv, CpuInv
  <2>2. \A i \in Level : l \in held[<<c, i>>] => locked[l]
    BY Zenon DEF IInv, OwnInv, Owns, Thread
  <2> QED
    BY Zenon, <2>1, <2>2 DEF holding
<1> QED
  BY <1>1, Invariance, PTL

\* Between push_off() and the matching pop_off() interrupts are off.
THEOREM OffWhileHeld == Spec => []InterruptsOff
<1>1. IInv => InterruptsOff
  BY Zenon DEF IInv, CpusOK, IntrOK, InterruptsOff
<1> QED
  BY <1>1, Invariance, PTL

\* noff counts the locks of the CPU, so pop_off() recognises the outermost one.
THEOREM NoffIsCount == Spec => []NoffCounts
<1>1. IInv => NoffCounts
  <2> SUFFICES ASSUME IInv, NEW c \in CPU
               PROVE  noff[c] = Cardinality(held[<<c, 0>>]) + Pending(<<c, 0>>)
                                + Cardinality(held[<<c, 1>>]) + Pending(<<c, 1>>)
    BY Zenon DEF NoffCounts
  <2>1. noff[c] = Cardinality(held[Me(c)]) + Pending(Me(c)) /\ LevelOK(c)
    BY Zenon DEF IInv, CpusOK, NoffOK
  <2>2. Cardinality(held[Me(c)]) \in Nat /\ Pending(Me(c)) \in {0, 1}
    BY Zenon, NoffZero
  <2>3. CASE level[c] = 0
    BY <2>1, <2>2, <2>3, FS_EmptySet DEF LevelOK, Pending, Me
  <2>4. CASE level[c] = 1
    BY <2>1, <2>2, <2>4, FS_EmptySet DEF LevelOK, Pending, Me
  <2> QED
    BY Zenon, <2>3, <2>4 DEF IInv, TypeOK, Level
<1> QED
  BY <1>1, Invariance, PTL

\* No CPU meets panic("acquire"), panic("release") or the panics of pop_off().
THEOREM NeverPanics == Spec => []NoPanic
<1>1. IInv => NoPanic
  <2> SUFFICES ASSUME IInv, NEW c \in CPU
               PROVE  /\ At(c, "push_off") => ~holding(c, lk[Me(c)])
                      /\ At(c, "unlock") => ~intr[c] /\ noff[c] >= 1
                      /\ \A l \in held[Me(c)] : holding(c, l)
    BY Zenon DEF NoPanic
  <2>0. Me(c) \in Thread /\ level[c] \in {0, 1}
    BY Zenon DEF IInv, TypeOK, Me, Thread, Level
  <2>1. ASSUME At(c, "push_off") PROVE ~holding(c, lk[Me(c)])
    <3>1. lk[Me(c)] \in Lock /\ lk[Me(c)] \notin held[Me(c)]
      BY Zenon, <2>0, <2>1 DEF At, IInv, OwnInv, TypeOK
    <3>2. \A i \in Level : i # level[c] => held[<<c, i>>] = {}
      BY Zenon, <2>0 DEF IInv, CpusOK, LevelOK, Level
    <3>3. \A i \in Level : lk[Me(c)] \notin held[<<c, i>>]
      BY Zenon, <3>1, <3>2 DEF Me
    <3>4. \A l \in Lock : cpu[l] = c => \E i \in Level : l \in held[<<c, i>>]
      BY Zenon DEF IInv, CpuInv
    <3>5. cpu[lk[Me(c)]] # c
      BY Zenon, <3>1, <3>3, <3>4
    <3> QED
      BY Zenon, <3>5 DEF holding
  <2>2. ASSUME At(c, "unlock") PROVE ~intr[c] /\ noff[c] >= 1
    <3>1. Pending(Me(c)) = 1
      BY Zenon, <2>2 DEF At, Pending
    <3>2. noff[c] # 0 /\ noff[c] \in Nat
      BY <3>1, NoffZero DEF IInv, TypeOK
    <3> QED
      BY <3>2, NoffZero
  <2>3. ASSUME NEW l \in held[Me(c)] PROVE holding(c, l)
    <3>1. l \in Lock /\ locked[l]
      BY Zenon, <2>0 DEF IInv, TypeOK, OwnInv, Owns
    <3>2. level[c] \in Level /\ l \in held[<<c, level[c]>>]
      BY Zenon, <2>0 DEF Level, Me
    <3>3. cpu[l] = c
      BY Zenon, <3>1, <3>2 DEF IInv, CpuInv
    <3> QED
      BY Zenon, <3>1, <3>3 DEF holding
  <2> QED
    BY Zenon, <2>1, <2>2, <2>3
<1> QED
  BY <1>1, Invariance, PTL

\* An interrupt handler is not interrupted, whatever locks it takes and releases.
THEOREM HandlersRunOff == Spec => []HandlerNotInterrupted
<1>1. IInv => HandlerNotInterrupted
  BY Zenon DEF IInv, CpusOK, IntrOK, HandlerNotInterrupted
<1> QED
  BY <1>1, Invariance, PTL

\* The release of the last lock leaves interrupts as the first push_off() found
\* them, also when a handler ran between its intr_get() and intr_off().
THEOREM Restored == Spec => InterruptsRestored
<1> DEFINE R == \A c \in CPU : noff[c] > 0 /\ noff'[c] = 0 => intr'[c] = was[c]
<1>1. IInv /\ [Next]_vars => [R]_vars
  <2> SUFFICES ASSUME IInv, Next, NEW c \in CPU, noff[c] > 0, noff'[c] = 0
               PROVE  intr'[c] = was[c]
    BY Zenon
  <2>1. PICK d \in CPU : \/ Straight(d)
                         \/ \E l \in Lock : acquire(d, l) \/ release(d, l)
                         \/ interrupt(d) \/ sret(d)
                         \/ \E b \in BOOLEAN : intr_set(d, b)
    BY Zenon DEF Next
  <2>2. noff \in [CPU -> Nat] /\ intr \in [CPU -> BOOLEAN]
    BY Zenon DEF IInv, TypeOK
  <2>3. noff' # noff
    OBVIOUS
  <2>4. push_off(d) \/ unlock(d)
    BY <2>1, <2>3, Zenon DEF Straight, acquire, swap, acquired, release, interrupt, sret, intr_set
  <2>5. ~push_off(d)
    BY <2>2 DEF push_off
  <2>6. d = c /\ noff[c] = 1
    BY <2>2, <2>4, <2>5 DEF unlock, pop_off
  <2>7. intr'[c] = intena[c]
    BY <2>2, <2>4, <2>5, <2>6 DEF unlock, pop_off, IInv, TypeOK
  <2>8. intena[c] = was[c]
    BY Zenon DEF IInv, CpusOK, IntrOK
  <2> QED
    BY Zenon, <2>7, <2>8
<1> QED
  BY <1>1, Invariance, PTL DEF Spec, InterruptsRestored
=============================================================================
