------------------------------ MODULE SpinLock ------------------------------
(***************************************************************************)
(* kernel/spinlock.c: acquire, release, holding, push_off and pop_off, on  *)
(* several CPUs, each with the kernel code it runs (level 0) and, above    *)
(* it, an interrupt handler (level 1) that uses the same locks.            *)
(*                                                                         *)
(* An action is one access to memory that another CPU or an interrupt of   *)
(* the same CPU can get in front of.  Code takes locks in increasing order *)
(* and one at a time; it releases them in any order.                       *)
(***************************************************************************)
EXTENDS Integers, FiniteSets

CONSTANTS CPU, Lock, NoCpu

ASSUME SpinLockAssumption == /\ NoCpu \notin CPU
                             /\ Lock \subseteq Nat

Level == {0, 1}
Thread == CPU \X Level

VARIABLES
  locked,   \* lk->locked
  cpu,      \* lk->cpu
  noff,     \* mycpu()->noff
  intena,   \* mycpu()->intena
  intr,     \* SIE of the CPU: interrupts enabled
  level,    \* whether the CPU is in an interrupt handler
  pc,       \* where each level of each CPU is in acquire or release
  lk,       \* their argument
  old,      \* local old of push_off
  held,     \* the locks each level holds
  was       \* interrupts enabled before the outermost push_off

vars == <<locked, cpu, noff, intena, intr, level, pc, lk, old, held, was>>

Labels == {"run", "push_off", "spin", "locked", "unlock"}

TypeOK ==
  /\ locked \in [Lock -> BOOLEAN]
  /\ cpu \in [Lock -> CPU \cup {NoCpu}]
  /\ noff \in [CPU -> Nat]
  /\ intena \in [CPU -> BOOLEAN]
  /\ intr \in [CPU -> BOOLEAN]
  /\ level \in [CPU -> Level]
  /\ pc \in [Thread -> Labels]
  /\ lk \in [Thread -> Lock]
  /\ old \in [Thread -> BOOLEAN]
  /\ held \in [Thread -> SUBSET Lock]
  /\ was \in [CPU -> BOOLEAN]

\* initlock(), and a CPU before its first lock.
Init ==
  /\ locked = [l \in Lock |-> FALSE]
  /\ cpu = [l \in Lock |-> NoCpu]
  /\ noff = [c \in CPU |-> 0]
  /\ intena = [c \in CPU |-> FALSE]
  /\ intr = [c \in CPU |-> FALSE]
  /\ level = [c \in CPU |-> 0]
  /\ pc = [t \in Thread |-> "run"]
  /\ \E l \in Lock : lk = [t \in Thread |-> l]
  /\ old = [t \in Thread |-> FALSE]
  /\ held = [t \in Thread |-> {}]
  /\ was = [c \in CPU |-> FALSE]

Me(c) == <<c, level[c]>>                    \* what the CPU executes
At(c, l) == pc[Me(c)] = l
Goto(c, l) == pc' = [pc EXCEPT ![Me(c)] = l]

holding(c, l) == locked[l] /\ cpu[l] = c
-----------------------------------------------------------------------------
\* acquire(l) calls push_off(), which reads old = intr_get().
acquire(c, l) ==
  /\ At(c, "run")
  /\ \A m \in held[Me(c)] : m < l
  /\ lk' = [lk EXCEPT ![Me(c)] = l]
  /\ old' = [old EXCEPT ![Me(c)] = intr[c]]
  /\ Goto(c, "push_off")
  /\ UNCHANGED <<locked, cpu, noff, intena, intr, level, held, was>>

\* The rest of push_off(), from intr_off() on, and the check for panic("acquire").
push_off(c) ==
  /\ At(c, "push_off")
  /\ intr' = [intr EXCEPT ![c] = FALSE]
  /\ IF noff[c] = 0
     THEN /\ intena' = [intena EXCEPT ![c] = old[Me(c)]]
          /\ was' = [was EXCEPT ![c] = intr[c]]
     ELSE UNCHANGED <<intena, was>>
  /\ noff' = [noff EXCEPT ![c] = @ + 1]
  /\ ~holding(c, lk[Me(c)])
  /\ Goto(c, "spin")
  /\ UNCHANGED <<locked, cpu, level, lk, old, held>>
\* mutant: the old value of the word is ignored
swap_notest(c) ==
  /\ At(c, "spin")
  /\ locked' = [locked EXCEPT ![lk[Me(c)]] = TRUE]
  /\ Goto(c, "locked")
  /\ UNCHANGED <<cpu, noff, intena, intr, level, lk, old, held, was>>

\* amoswap finds the lock free; until then the CPU spins.
swap(c) ==
  /\ At(c, "spin")
  /\ ~locked[lk[Me(c)]]
  /\ locked' = [locked EXCEPT ![lk[Me(c)]] = TRUE]
  /\ Goto(c, "locked")
  /\ UNCHANGED <<cpu, noff, intena, intr, level, lk, old, held, was>>

\* lk->cpu = mycpu(); acquire returns
acquired(c) ==
  /\ At(c, "locked")
  /\ cpu' = [cpu EXCEPT ![lk[Me(c)]] = c]
  /\ held' = [held EXCEPT ![Me(c)] = @ \cup {lk[Me(c)]}]
  /\ Goto(c, "run")
  /\ UNCHANGED <<locked, noff, intena, intr, level, lk, old, was>>

\* release(l): the check for panic("release"), lk->cpu = 0
release(c, l) ==
  /\ At(c, "run") /\ l \in held[Me(c)]
  /\ holding(c, l)
  /\ cpu' = [cpu EXCEPT ![l] = NoCpu]
  /\ held' = [held EXCEPT ![Me(c)] = @ \ {l}]
  /\ lk' = [lk EXCEPT ![Me(c)] = l]
  /\ Goto(c, "unlock")
  /\ UNCHANGED <<locked, noff, intena, intr, level, old, was>>
\* pop_off() with its panics as guards
pop_off(c) ==
  /\ ~intr[c]
  /\ noff[c] >= 1
  /\ noff' = [noff EXCEPT ![c] = @ - 1]
  /\ intr' = [intr EXCEPT ![c] = noff[c] = 1 /\ intena[c]]
\* mutant: the lock word is left set
unlock_kept(c) ==
  /\ At(c, "unlock")
  /\ pop_off(c)
  /\ Goto(c, "run")
  /\ UNCHANGED <<locked, cpu, intena, level, lk, old, held, was>>

\* lk->locked = 0; pop_off()
unlock(c) ==
  /\ At(c, "unlock")
  /\ locked' = [locked EXCEPT ![lk[Me(c)]] = FALSE]
  /\ pop_off(c)
  /\ Goto(c, "run")
  /\ UNCHANGED <<cpu, intena, level, lk, old, held, was>>
-----------------------------------------------------------------------------
\* An interrupt: the hardware clears SIE.
interrupt(c) ==
  /\ intr[c] /\ level[c] = 0
  /\ intr' = [intr EXCEPT ![c] = FALSE]
  /\ level' = [level EXCEPT ![c] = 1]
  /\ UNCHANGED <<locked, cpu, noff, intena, pc, lk, old, held, was>>

\* sret at the end of the handler restores SIE.
sret(c) ==
  /\ level[c] = 1 /\ At(c, "run") /\ held[Me(c)] = {}
  /\ intr' = [intr EXCEPT ![c] = TRUE]
  /\ level' = [level EXCEPT ![c] = 0]
  /\ UNCHANGED <<locked, cpu, noff, intena, pc, lk, old, held, was>>

\* intr_on() in scheduler() and usertrap(), intr_off() in usertrapret(), all of
\* them called without a lock.
intr_set(c, b) ==
  /\ level[c] = 0 /\ At(c, "run") /\ held[Me(c)] = {}
  /\ intr[c] # b
  /\ intr' = [intr EXCEPT ![c] = b]
  /\ UNCHANGED <<locked, cpu, noff, intena, level, pc, lk, old, held, was>>
-----------------------------------------------------------------------------
Straight(c) == push_off(c) \/ swap(c) \/ acquired(c) \/ unlock(c)

Next == \E c \in CPU :
          \/ Straight(c)
          \/ \E l \in Lock : acquire(c, l) \/ release(c, l)
          \/ interrupt(c) \/ sret(c)
          \/ \E b \in BOOLEAN : intr_set(c, b)

Spec == Init /\ [][Next]_vars

\* CPUs keep executing, critical sections and handlers end, and a CPU that spins
\* gets a lock that is free again and again.
Fairness == \A c \in CPU : /\ SF_vars(Straight(c) \/ sret(c))
                           /\ \A l \in Lock : SF_vars(release(c, l))

FairSpec == Spec /\ Fairness
-----------------------------------------------------------------------------
\* At most one CPU, and one level of it, holds a lock: also an interrupt handler
\* does not get a lock of the code that it interrupted.
MutualExclusion ==
  \A t, u \in Thread : t # u => held[t] \cap held[u] = {}

\* holding() is exact for the CPU that asks, although it reads two words without
\* the lock while other CPUs write them.
HoldingExact ==
  \A c \in CPU, l \in Lock :
    holding(c, l) <=> \E i \in Level : l \in held[<<c, i>>]

\* No interrupt can arrive while the CPU holds a lock or waits for one.
InterruptsOff ==
  \A c \in CPU : noff[c] > 0 => ~intr[c]

\* A push_off() whose lock is not yet, or no longer, among those held.
Pending(t) == IF pc[t] \in {"spin", "locked", "unlock"} THEN 1 ELSE 0

\* noff counts the locks the CPU holds or is about to hold, so that the
\* outermost release is recognised.
NoffCounts ==
  \A c \in CPU :
    noff[c] = Cardinality(held[<<c, 0>>]) + Pending(<<c, 0>>)
              + Cardinality(held[<<c, 1>>]) + Pending(<<c, 1>>)

\* The panics of acquire, release and pop_off are never met: no CPU asks for a
\* lock that it holds, in its handler either.
NoPanic ==
  \A c \in CPU :
    /\ At(c, "push_off") => ~holding(c, lk[Me(c)])
    /\ At(c, "unlock") => ~intr[c] /\ noff[c] >= 1
    /\ \A l \in held[Me(c)] : holding(c, l)

\* push_off and pop_off are matched: when the last lock is released, interrupts
\* are as they were before the first push_off (an interrupt between intr_get()
\* and intr_off() in push_off() does not change that, nor do the handler's locks).
InterruptsRestored ==
  [][\A c \in CPU : noff[c] > 0 /\ noff'[c] = 0 => intr'[c] = was[c]]_vars

\* A handler runs with interrupts off to its end: its own locks do not turn them on.
HandlerNotInterrupted == \A c \in CPU : level[c] = 1 => ~intr[c]

\* Every acquire returns: two CPUs, or a CPU and its handler, never wait for
\* each other for ever.
AcquireReturns ==
  \A c \in CPU, i \in Level : pc[<<c, i>>] = "spin" ~> pc[<<c, i>>] = "locked"
=============================================================================
