----------------------------- MODULE SchedProofs -----------------------------
(***************************************************************************)
(* Proofs about Sched for every number of CPUs, processes and channels.    *)
(***************************************************************************)
EXTENDS Sched, TLAPS

\* c->proc is the thread the CPU executes, or the one its scheduler is getting
\* back, and names a process for one CPU at most.
CpuInv ==
  \A c \in CPU :
    /\ ctx[c] # NoProc => cproc[c] = ctx[c]
    /\ \A d \in CPU : cproc[c] # NoProc /\ cproc[c] = cproc[d] => c = d

\* The places a process can be in, and who has its lock there.
ThreadInv ==
  \A p \in Proc :
    /\ \A c \in CPU : cproc[c] = p =>
         \/ /\ ctx[c] = p /\ sw[p] = "on" /\ state[p] = "RUNNING"
            /\ plock[p] = IF pc[p] = "sleep_locked" THEN c ELSE NoCpu
         \/ ctx[c] = p /\ sw[p] = "swtch" /\ state[p] # "RUNNING" /\ plock[p] = c
         \/ ctx[c] = p /\ sw[p] = "out" /\ state[p] = "RUNNING" /\ plock[p] = c
         \/ ctx[c] = NoProc /\ sw[p] = "out" /\ state[p] # "RUNNING" /\ plock[p] = c
    /\ (\A c \in CPU : cproc[c] # p) =>
         sw[p] = "out" /\ state[p] # "RUNNING" /\ plock[p] = NoCpu
    /\ sw[p] # "on" => pc[p] \in {"run", "woken"}
    /\ state[p] = "SLEEPING" => pc[p] = "woken" /\ chan[p] = want[p]
    /\ pc[p] # "run" => want[p] \in Chan

\* Who holds the condition lock: a waker, or a process about to sleep.
LkInv ==
  /\ \A c \in CPU : sig[c] # NoChan =>
       /\ lk = c
       /\ \A p \in Proc : ctx[c] = p => sw[p] = "on" /\ pc[p] \in {"run", "woken"}
  /\ \A p \in Proc : pc[p] = "sleep" => \E c \in CPU : ctx[c] = p /\ lk = c
  /\ \A c \in CPU : lk = c =>
       sig[c] # NoChan \/ \E p \in Proc : ctx[c] = p /\ pc[p] = "sleep"

\* A process asleep, or past the point of no return in sleep(), has no event,
\* or is still to be visited by the wakeup() of that event.
WakeInv ==
  \A p \in Proc :
    /\ pc[p] = "sleep" => event[want[p]] = 0
    /\ pc[p] = "sleep_locked" \/ state[p] = "SLEEPING" =>
         event[want[p]] = 0 \/ \E c \in CPU : sig[c] = want[p] /\ p \in todo[c]

IInv == TypeOK /\ CpuInv /\ ThreadInv /\ LkInv /\ WakeInv
-----------------------------------------------------------------------------
LEMMA InitIInv == Init => IInv
<1> SUFFICES ASSUME Init PROVE IInv
  BY Zenon
<1> USE SchedAssumption DEF Init
<1>1. TypeOK
  BY Zenon DEF TypeOK
<1>2. CpuInv
  BY Zenon DEF CpuInv
<1>3. ThreadInv
  BY Zenon DEF ThreadInv
<1>4. LkInv
  BY Zenon DEF LkInv
<1>5. WakeInv
  <2>1. \A p \in Proc : pc[p] = "run" /\ state[p] = "RUNNABLE"
    BY Zenon
  <2> QED
    BY Zenon, <2>1 DEF WakeInv
<1> QED
  BY Zenon, <1>1, <1>2, <1>3, <1>4, <1>5 DEF IInv

\* The scheduler gives p a CPU and takes its lock.
LEMMA Step_scheduler ==
  ASSUME IInv, NEW c \in CPU, NEW p \in Proc, scheduler(c, p)
  PROVE  IInv'
<1> USE SchedAssumption DEF IInv, TypeOK, scheduler
<1>1. TypeOK'
  BY Zenon
<1>2. CpuInv'
  BY DEF CpuInv, ThreadInv
<1>3. ThreadInv'
  BY DEF CpuInv, ThreadInv
<1>4. LkInv'
  BY DEF CpuInv, ThreadInv, LkInv
<1>5. WakeInv'
  BY DEF CpuInv, ThreadInv, LkInv, WakeInv
<1> QED
  BY Zenon, <1>1, <1>2, <1>3, <1>4, <1>5

\* The resumed process releases the lock the scheduler took.
LEMMA Step_resume ==
  ASSUME IInv, NEW c \in CPU, NEW p \in Proc, resume(c, p)
  PROVE  IInv'
<1> USE SchedAssumption DEF IInv, TypeOK, resume
<1>1. TypeOK'
  BY Zenon
<1>2. CpuInv'
  BY Zenon DEF CpuInv
<1>3. ThreadInv'
  BY DEF CpuInv, ThreadInv
<1>4. LkInv'
  BY DEF CpuInv, ThreadInv, LkInv
<1>5. WakeInv'
  BY Zenon DEF CpuInv, ThreadInv, LkInv, WakeInv
<1> QED
  BY Zenon, <1>1, <1>2, <1>3, <1>4, <1>5

\* A process that yields holds no lock, so it is not in the middle of sleep().
LEMMA Step_yield ==
  ASSUME IInv, NEW c \in CPU, NEW p \in Proc, yield(c, p)
  PROVE  IInv'
<1> USE SchedAssumption DEF IInv, TypeOK, yield, Runs, Unlocked
<1>1. TypeOK'
  BY Zenon
<1>2. CpuInv'
  BY Zenon DEF CpuInv
<1>3. ThreadInv'
  BY DEF LkInv, CpuInv, ThreadInv
<1>4. LkInv'
  BY DEF CpuInv, ThreadInv, LkInv
<1>5. WakeInv'
  BY DEF CpuInv, ThreadInv, LkInv, WakeInv
<1> QED
  BY Zenon, <1>1, <1>2, <1>3, <1>4, <1>5

\* The switch leaves the lock to the scheduler.
LEMMA Step_sched ==
  ASSUME IInv, NEW c \in CPU, NEW p \in Proc, sched(c, p)
  PROVE  IInv'
<1> USE SchedAssumption DEF IInv, TypeOK, sched
<1>1. TypeOK'
  BY Zenon
<1>2. CpuInv'
  BY Zenon DEF CpuInv
<1>3. ThreadInv'
  BY DEF CpuInv, ThreadInv
<1>4. LkInv'
  BY DEF CpuInv, ThreadInv, LkInv
<1>5. WakeInv'
  BY Zenon DEF CpuInv, ThreadInv, LkInv, WakeInv
<1> QED
  BY Zenon, <1>1, <1>2, <1>3, <1>4, <1>5

\* The scheduler releases it.
LEMMA Step_switched ==
  ASSUME IInv, NEW c \in CPU, NEW p \in Proc, switched(c, p)
  PROVE  IInv'
<1> USE SchedAssumption DEF IInv, TypeOK, switched
<1>1. TypeOK'
  BY Zenon
<1>2. CpuInv'
  BY Zenon DEF CpuInv
<1>3. ThreadInv'
  BY DEF CpuInv, ThreadInv
<1>4. LkInv'
  BY DEF CpuInv, ThreadInv, LkInv
<1>5. WakeInv'
  BY Zenon DEF CpuInv, ThreadInv, LkInv, WakeInv
<1> QED
  BY Zenon, <1>1, <1>2, <1>3, <1>4, <1>5

\* No waker is at work while lk is free: the event taken was nobody's who sleeps.
LEMMA Step_test ==
  ASSUME IInv, NEW c \in CPU, NEW p \in Proc, NEW h \in Chan, test(c, p, h)
  PROVE  IInv'
<1> USE SchedAssumption DEF IInv, TypeOK, test, Ready, Runs, Unlocked
<1>1. TypeOK'
  OBVIOUS
<1>2. CpuInv'
  BY Zenon DEF CpuInv
<1>3. ThreadInv'
  BY DEF CpuInv, ThreadInv
<1>4. LkInv'
  BY DEF CpuInv, ThreadInv, LkInv
<1>5. WakeInv'
  BY DEF CpuInv, ThreadInv, LkInv, WakeInv
<1> QED
  BY Zenon, <1>1, <1>2, <1>3, <1>4, <1>5

\* p->lock is taken before lk is released.
LEMMA Step_sleep_lock ==
  ASSUME IInv, NEW c \in CPU, NEW p \in Proc, sleep_lock(c, p)
  PROVE  IInv'
<1> USE SchedAssumption DEF IInv, TypeOK, sleep_lock, Runs
<1>1. TypeOK'
  BY Zenon
<1>2. CpuInv'
  BY Zenon DEF CpuInv
<1>3. ThreadInv'
  BY DEF CpuInv, ThreadInv
<1>4. LkInv'
  BY DEF CpuInv, ThreadInv, LkInv
<1>5. WakeInv'
  BY DEF CpuInv, ThreadInv, LkInv, WakeInv
<1> QED
  BY Zenon, <1>1, <1>2, <1>3, <1>4, <1>5

LEMMA Step_sleep ==
  ASSUME IInv, NEW c \in CPU, NEW p \in Proc, sleep(c, p)
  PROVE  IInv'
<1> USE SchedAssumption DEF IInv, TypeOK, sleep, Runs
<1>1. TypeOK'
  BY Zenon
<1>2. CpuInv'
  BY Zenon DEF CpuInv
<1>3. ThreadInv'
  BY DEF CpuInv, ThreadInv
<1>4. LkInv'
  BY DEF CpuInv, ThreadInv, LkInv
<1>5. WakeInv'
  BY DEF CpuInv, ThreadInv, LkInv, WakeInv
<1> QED
  BY Zenon, <1>1, <1>2, <1>3, <1>4, <1>5

\* Every process past the point of no return is another CPU's, so the loop will visit it.
LEMMA Step_post ==
  ASSUME IInv, NEW c \in CPU, NEW h \in Chan, post(c, h)
  PROVE  IInv'
<1> USE SchedAssumption DEF IInv, TypeOK, post, Unlocked
<1>1. TypeOK'
  OBVIOUS
<1>2. CpuInv'
  BY Zenon DEF CpuInv
<1>3. ThreadInv'
  BY DEF CpuInv, ThreadInv
<1>4. LkInv'
  BY DEF CpuInv, ThreadInv, LkInv
<1>5. WakeInv'
  BY DEF CpuInv, ThreadInv, LkInv, WakeInv
<1> QED
  BY Zenon, <1>1, <1>2, <1>3, <1>4, <1>5

\* A process that is still switching has its lock, so the loop waits for it.
LEMMA Step_wakeup ==
  ASSUME IInv, NEW c \in CPU, NEW p \in Proc, wakeup(c, p)
  PROVE  IInv'
<1> USE SchedAssumption DEF IInv, TypeOK, wakeup, Asleep
<1>1. TypeOK'
  BY Zenon
<1>2. CpuInv'
  BY Zenon DEF CpuInv
<1>3. ThreadInv'
  BY DEF CpuInv, ThreadInv
<1>4. LkInv'
  BY DEF CpuInv, ThreadInv, LkInv
<1>5. WakeInv'
  BY SMTT(30) DEF CpuInv, ThreadInv, LkInv, WakeInv
<1> QED
  BY Zenon, <1>1, <1>2, <1>3, <1>4, <1>5

LEMMA Step_posted ==
  ASSUME IInv, NEW c \in CPU, posted(c)
  PROVE  IInv'
<1> USE SchedAssumption DEF IInv, TypeOK, posted
<1>1. TypeOK'
  BY Zenon
<1>2. CpuInv'
  BY Zenon DEF CpuInv
<1>3. ThreadInv'
  BY DEF CpuInv, ThreadInv
<1>4. LkInv'
  BY DEF CpuInv, ThreadInv, LkInv
<1>5. WakeInv'
  BY Zenon DEF CpuInv, ThreadInv, LkInv, WakeInv
<1> QED
  BY Zenon, <1>1, <1>2, <1>3, <1>4, <1>5

LEMMA Step_kill ==
  ASSUME IInv, NEW c \in CPU, NEW p \in Proc, NEW q \in Proc, kill(c, p, q)
  PROVE  IInv'
<1> USE SchedAssumption DEF IInv, TypeOK, kill, Runs, Unlocked
<1>1. TypeOK'
  BY Zenon
<1>2. CpuInv'
  BY Zenon DEF CpuInv
<1>3. ThreadInv'
  BY DEF CpuInv, ThreadInv
<1>4. LkInv'
  BY DEF CpuInv, ThreadInv, LkInv
<1>5. WakeInv'
  BY DEF CpuInv, ThreadInv, LkInv, WakeInv
<1> QED
  BY Zenon, <1>1, <1>2, <1>3, <1>4, <1>5

LEMMA StepIInv == IInv /\ [Next]_vars => IInv'
<1> SUFFICES ASSUME IInv, [Next]_vars PROVE IInv'
  BY Zenon
<1>1. ASSUME NEW c \in CPU, NEW p \in Proc,
             scheduler(c, p) \/ Straight(c, p) \/ yield(c, p) \/ wakeup(c, p)
      PROVE  IInv'
  BY Zenon, <1>1, Step_scheduler, Step_resume, Step_sched, Step_switched, Step_sleep_lock,
     Step_sleep, Step_yield, Step_wakeup DEF Straight
<1>2. ASSUME NEW c \in CPU, NEW p \in Proc, NEW h \in Chan, test(c, p, h)
      PROVE  IInv'
  BY Zenon, <1>2, Step_test
<1>3. ASSUME NEW c \in CPU, NEW h \in Chan, post(c, h)
      PROVE  IInv'
  BY Zenon, <1>3, Step_post
<1>4. ASSUME NEW c \in CPU, posted(c)
      PROVE  IInv'
  BY Zenon, <1>4, Step_posted
<1>5. ASSUME NEW c \in CPU, NEW p \in Proc, NEW q \in Proc, kill(c, p, q)
      PROVE  IInv'
  BY <1>5, Step_kill, Zenon
<1>6. CASE UNCHANGED vars
  BY <1>6 DEF vars, IInv, TypeOK, CpuInv, ThreadInv, LkInv, WakeInv
<1> QED
  BY Zenon, <1>1, <1>2, <1>3, <1>4, <1>5, <1>6 DEF Next

\* The inductive invariant holds in every reachable state.
THEOREM Invariance == Spec => []IInv
  BY InitIInv, StepIInv, PTL DEF Spec
-----------------------------------------------------------------------------
\* No kernel thread is ever executed by two CPUs (scheduler(), sched()).
THEOREM OneCpu == Spec => []OneCpuPerThread
<1>1. IInv => OneCpuPerThread
  BY Zenon DEF IInv, TypeOK, CpuInv, OneCpuPerThread
<1> QED
  BY <1>1, Invariance, PTL

\* Whoever takes a free p->lock reads the truth from p->state.
THEOREM StateIsTrue == Spec => []StateMatchesCpu
<1>1. IInv => StateMatchesCpu
  BY SchedAssumption DEF IInv, TypeOK, CpuInv, ThreadInv, StateMatchesCpu
<1> QED
  BY <1>1, Invariance, PTL

\* sched() never meets one of its panics.
THEOREM SchedSafe == Spec => []SchedNeverPanics
<1>1. IInv => SchedNeverPanics
  <2> SUFFICES ASSUME IInv, NEW c \in CPU, NEW p \in Proc, ctx[c] = p, sw[p] = "swtch"
               PROVE  ~SchedPanics(c, p)
    BY Zenon DEF SchedNeverPanics
  <2> USE SchedAssumption DEF IInv, TypeOK, CpuInv, ThreadInv
  <2>1. plock[p] = c /\ state[p] # "RUNNING"
    OBVIOUS
  <2>2. lk # c
    BY Zenon DEF LkInv
  <2>3. \A q \in Proc \ {p} : plock[q] # c
    OBVIOUS
  <2> QED
    BY Zenon, <2>1, <2>2, <2>3 DEF SchedPanics
<1> QED
  BY <1>1, Invariance, PTL

\* The lock that scheduler() and the resumed process release is held by their CPU.
THEOREM HandoverSafe == Spec => []HandoverHoldsLock
<1>1. IInv => HandoverHoldsLock
  BY SchedAssumption DEF IInv, TypeOK, CpuInv, ThreadInv, HandoverHoldsLock
<1> QED
  BY <1>1, Invariance, PTL

\* No wakeup is lost, for any number of sleepers, wakers and channels.
THEOREM WakeupsNotLost == Spec => []NoLostWakeup
<1>1. IInv => NoLostWakeup
  BY SchedAssumption DEF IInv, TypeOK, ThreadInv, LkInv, WakeInv, NoLostWakeup
<1> QED
  BY <1>1, Invariance, PTL
-----------------------------------------------------------------------------
(* Sched implements Monitor.                                               *)

\* The steps of a switch, of sleep() after the test and of the wakeup() loop do
\* not show to the clients.
LEMMA Hidden_scheduler ==
  ASSUME IInv, NEW c \in CPU, NEW p \in Proc, scheduler(c, p)
  PROVE  UNCHANGED Mon!vars
<1>1. \A q \in Proc : SleepingOn(q)' = SleepingOn(q)
  BY SchedAssumption, SMTT(30) DEF IInv, TypeOK, CpuInv, ThreadInv, LkInv, SleepingOn, scheduler
<1> QED
  BY Zenon, <1>1 DEF Mon!vars, scheduler

LEMMA Hidden_resume ==
  ASSUME IInv, NEW c \in CPU, NEW p \in Proc, resume(c, p)
  PROVE  UNCHANGED Mon!vars
<1>1. \A q \in Proc : SleepingOn(q)' = SleepingOn(q)
  BY Zenon, SchedAssumption DEF IInv, TypeOK, CpuInv, ThreadInv, LkInv, SleepingOn, resume
<1> QED
  BY Zenon, <1>1 DEF Mon!vars, resume

LEMMA Hidden_yield ==
  ASSUME IInv, NEW c \in CPU, NEW p \in Proc, yield(c, p)
  PROVE  UNCHANGED Mon!vars
<1>1. \A q \in Proc : SleepingOn(q)' = SleepingOn(q)
  BY SchedAssumption DEF IInv, TypeOK, CpuInv, ThreadInv, LkInv, SleepingOn, yield, Runs
<1> QED
  BY <1>1, Zenon DEF Mon!vars, yield

LEMMA Hidden_sched ==
  ASSUME IInv, NEW c \in CPU, NEW p \in Proc, sched(c, p)
  PROVE  UNCHANGED Mon!vars
<1>1. \A q \in Proc : SleepingOn(q)' = SleepingOn(q)
  BY Zenon, SchedAssumption DEF IInv, TypeOK, CpuInv, ThreadInv, LkInv, SleepingOn, sched
<1> QED
  BY Zenon, <1>1 DEF Mon!vars, sched

LEMMA Hidden_switched ==
  ASSUME IInv, NEW c \in CPU, NEW p \in Proc, switched(c, p)
  PROVE  UNCHANGED Mon!vars
<1>1. \A q \in Proc : SleepingOn(q)' = SleepingOn(q)
  BY Zenon, SchedAssumption DEF IInv, TypeOK, CpuInv, ThreadInv, LkInv, SleepingOn, switched
<1> QED
  BY Zenon, <1>1 DEF Mon!vars, switched

LEMMA Hidden_sleep_lock ==
  ASSUME IInv, NEW c \in CPU, NEW p \in Proc, sleep_lock(c, p)
  PROVE  UNCHANGED Mon!vars
<1>1. \A q \in Proc : SleepingOn(q)' = SleepingOn(q)
  BY SchedAssumption DEF IInv, TypeOK, CpuInv, ThreadInv, LkInv, SleepingOn, sleep_lock
<1> QED
  BY Zenon, <1>1 DEF Mon!vars, sleep_lock

LEMMA Hidden_sleep ==
  ASSUME IInv, NEW c \in CPU, NEW p \in Proc, sleep(c, p)
  PROVE  UNCHANGED Mon!vars
<1>1. \A q \in Proc : SleepingOn(q)' = SleepingOn(q)
  BY SchedAssumption, SMTT(30) DEF IInv, TypeOK, CpuInv, ThreadInv, LkInv, SleepingOn, sleep, Runs
<1> QED
  BY Zenon, <1>1 DEF Mon!vars, sleep

LEMMA Hidden_wakeup ==
  ASSUME IInv, NEW c \in CPU, NEW p \in Proc, wakeup(c, p)
  PROVE  UNCHANGED Mon!vars
<1>1. \A q \in Proc : SleepingOn(q)' = SleepingOn(q)
  BY SchedAssumption DEF IInv, TypeOK, CpuInv, ThreadInv, LkInv, SleepingOn, wakeup, Asleep
<1> QED
  BY Zenon, <1>1 DEF Mon!vars, wakeup

LEMMA Hidden_posted ==
  ASSUME IInv, NEW c \in CPU, posted(c)
  PROVE  UNCHANGED Mon!vars
<1>1. \A q \in Proc : SleepingOn(q)' = SleepingOn(q)
  BY Zenon, SchedAssumption DEF IInv, TypeOK, CpuInv, ThreadInv, LkInv, SleepingOn, posted
<1> QED
  BY Zenon, <1>1 DEF Mon!vars, posted

\* To test the condition is to take the event or to be asleep.
LEMMA Test_Monitor ==
  ASSUME IInv, NEW c \in CPU, NEW p \in Proc, NEW h \in Chan, test(c, p, h)
  PROVE  Mon!Consume(p, h) \/ Mon!Sleep(p, h)
<1> DEFINE W == [r \in Proc |-> SleepingOn(r)]
<1>1. SleepingOn(p) = NoChan
  BY SMTT(30) DEF SleepingOn, IInv, TypeOK, CpuInv, ThreadInv, test, Ready, Runs
<1>2. CASE event[h] > 0
  <2>1. \A q \in Proc : SleepingOn(q)' = SleepingOn(q)
    BY <1>2, SchedAssumption
       DEF SleepingOn, IInv, TypeOK, CpuInv, ThreadInv, LkInv, test, Ready, Runs
  <2> QED
    BY Zenon, <1>1, <1>2, <2>1 DEF Mon!Consume, test, Ready
<1>3. CASE ~(event[h] > 0)
  <2>1. SleepingOn(p)' = h
    BY <1>3, SchedAssumption, SMTT(30) DEF SleepingOn, IInv, TypeOK, CpuInv, ThreadInv, LkInv, test, Ready, Runs
  <2>2. \A q \in Proc \ {p} : SleepingOn(q)' = SleepingOn(q)
    BY <1>3, SchedAssumption DEF SleepingOn, IInv, TypeOK, CpuInv, ThreadInv, LkInv, test, Ready, Runs
  <2>3. W' = [W EXCEPT ![p] = h]
    BY Zenon, <2>1, <2>2
  <2>4. event[h] = 0 /\ event' = event
    BY <1>3 DEF IInv, TypeOK, test, Ready
  <2> QED
    BY Zenon, <1>1, <2>3, <2>4 DEF Mon!Sleep
<1> QED
  BY Zenon, <1>2, <1>3

\* To post an event is to wake every sleeper of its channel at once.
LEMMA Post_Monitor ==
  ASSUME IInv, NEW c \in CPU, NEW h \in Chan, post(c, h)
  PROVE  Mon!Signal(h)
<1> USE SchedAssumption DEF IInv, TypeOK, CpuInv, ThreadInv, LkInv, post, Unlocked
<1>1. \A q \in Proc : SleepingOn(q)' = IF SleepingOn(q) = h THEN NoChan ELSE SleepingOn(q)
  BY DEF SleepingOn
<1> QED
  BY <1>1 DEF Mon!Signal

LEMMA Kill_Monitor ==
  ASSUME IInv, NEW c \in CPU, NEW p \in Proc, NEW q \in Proc, kill(c, p, q)
  PROVE  Mon!Spurious(q)
<1> DEFINE W == [r \in Proc |-> SleepingOn(r)]
<1>1. SleepingOn(q)' = NoChan
  BY Zenon DEF SleepingOn, IInv, TypeOK, ThreadInv, kill
<1>2. \A r \in Proc \ {q} : SleepingOn(r)' = SleepingOn(r)
  BY Zenon DEF SleepingOn, IInv, TypeOK, kill
<1>3. W' = [W EXCEPT ![q] = NoChan]
  BY Zenon, <1>1, <1>2
<1> QED
  BY Zenon, <1>3 DEF Mon!Spurious, kill

\* sleep() and wakeup() are one atomic step each to the code that calls them
\* under its lock: Sched implements Monitor, for every number of CPUs.
THEOREM Refinement == Spec => SleepIsAtomic
<1>1. Init => Mon!Init
  BY Zenon, SchedAssumption DEF Init, Mon!Init, SleepingOn
<1>2. IInv /\ [Next]_vars => [Mon!Next]_(Mon!vars)
  <2> SUFFICES ASSUME IInv, [Next]_vars
               PROVE  Mon!Next \/ UNCHANGED Mon!vars
    BY Zenon
  <2>1. ASSUME NEW c \in CPU, NEW p \in Proc,
               scheduler(c, p) \/ Straight(c, p) \/ yield(c, p) \/ wakeup(c, p)
        PROVE  UNCHANGED Mon!vars
    BY Zenon, <2>1, Hidden_scheduler, Hidden_resume, Hidden_sched, Hidden_switched,
       Hidden_sleep_lock, Hidden_sleep, Hidden_yield, Hidden_wakeup DEF Straight
  <2>2. ASSUME NEW c \in CPU, NEW p \in Proc, NEW h \in Chan, test(c, p, h)
        PROVE  Mon!Next
    BY Zenon, <2>2, Test_Monitor DEF Mon!Next
  <2>3. ASSUME NEW c \in CPU, NEW h \in Chan, post(c, h)
        PROVE  Mon!Next
    BY Zenon, <2>3, Post_Monitor DEF Mon!Next
  <2>4. ASSUME NEW c \in CPU, posted(c)
        PROVE  UNCHANGED Mon!vars
    BY Zenon, <2>4, Hidden_posted
  <2>5. ASSUME NEW c \in CPU, NEW p \in Proc, NEW q \in Proc, kill(c, p, q)
        PROVE  Mon!Next
    BY Zenon, <2>5, Kill_Monitor DEF Mon!Next
  <2>6. CASE UNCHANGED vars
    BY Zenon, <2>6 DEF vars, Mon!vars, SleepingOn
  <2> QED
    BY Zenon, <2>1, <2>2, <2>3, <2>4, <2>5, <2>6 DEF Next
<1> QED
  BY <1>1, <1>2, Invariance, PTL DEF Spec, SleepIsAtomic, Mon!Spec
=============================================================================
