-------------------------------- MODULE Sched --------------------------------
(***************************************************************************)
(* Context switching and sleep/wakeup of kernel/proc.c: scheduler, sched,  *)
(* yield, forkret, sleep, wakeup and the wake-up in kill, on several CPUs, *)
(* with the p->lock that a process and a scheduler hand to each other      *)
(* through swtch().                                                        *)
(*                                                                         *)
(* The clients are the kernel's condition waits (log, pipe, console, disk, *)
(* ticks): under a lock lk a process takes an event of a channel, or       *)
(* sleeps on the channel until there is one; code on any CPU (an interrupt *)
(* handler, a system call) posts an event and calls wakeup() under lk.     *)
(*                                                                         *)
(* A spin lock is the CPU that holds it.  An action runs from one acquire  *)
(* to the next, or to a release that lets another CPU in half way.         *)
(***************************************************************************)
EXTENDS Naturals, FiniteSets

CONSTANTS CPU, Proc, Chan,
          NoCpu, NoProc, NoChan,
          MaxEvents                \* bound on the pending events of a channel

ASSUME SchedAssumption == /\ NoCpu \notin CPU
                          /\ NoProc \notin Proc
                          /\ NoChan \notin Chan
                          /\ MaxEvents \in Nat

VARIABLES
  state,   \* p->state
  chan,    \* p->chan
  plock,   \* p->lock
  lk,      \* the condition lock of the clients
  event,   \* the clients' condition: pending events of each channel
  ctx,     \* whose kernel thread each CPU executes; NoProc is the scheduler's
  cproc,   \* c->proc
  pc,      \* where each process is in its condition wait
  want,    \* the channel it waits for
  sw,      \* "on" a CPU, in sched() before "swtch", or switched "out"
  sig,     \* the channel that code on each CPU is waking, or NoChan
  todo     \* the processes its wakeup() loop still has to visit

vars == <<state, chan, plock, lk, event, ctx, cproc, pc, want, sw, sig, todo>>

TypeOK ==
  /\ state \in [Proc -> {"RUNNABLE", "RUNNING", "SLEEPING"}]
  /\ chan \in [Proc -> Chan \cup {NoChan}]
  /\ plock \in [Proc -> CPU \cup {NoCpu}]
  /\ lk \in CPU \cup {NoCpu}
  /\ event \in [Chan -> Nat]
  /\ ctx \in [CPU -> Proc \cup {NoProc}]
  /\ cproc \in [CPU -> Proc \cup {NoProc}]
  /\ pc \in [Proc -> {"run", "sleep", "sleep_locked", "woken"}]
  /\ want \in [Proc -> Chan \cup {NoChan}]
  /\ sw \in [Proc -> {"on", "swtch", "out"}]
  /\ sig \in [CPU -> Chan \cup {NoChan}]
  /\ todo \in [CPU -> SUBSET Proc]

\* After fork: every process is RUNNABLE and its saved context returns to
\* forkret(), which releases p->lock.
Init ==
  /\ state = [p \in Proc |-> "RUNNABLE"]
  /\ chan = [p \in Proc |-> NoChan]
  /\ plock = [p \in Proc |-> NoCpu]
  /\ lk = NoCpu
  /\ event = [h \in Chan |-> 0]
  /\ ctx = [c \in CPU |-> NoProc]
  /\ cproc = [c \in CPU |-> NoProc]
  /\ pc = [p \in Proc |-> "run"]
  /\ want = [p \in Proc |-> NoChan]
  /\ sw = [p \in Proc |-> "out"]
  /\ sig = [c \in CPU |-> NoChan]
  /\ todo = [c \in CPU |-> {}]

\* noff of the CPU is 0, so that interrupts are on.
Unlocked(c) == lk # c /\ \A p \in Proc : plock[p] # c

\* Kernel thread p executes on CPU c, not below an interrupt handler.
Runs(c, p) == ctx[c] = p /\ sw[p] = "on" /\ sig[c] = NoChan
-----------------------------------------------------------------------------
(* The switch between a scheduler and a process.                           *)
\* mutant: p->state is read without p->lock
scheduler_nolock(c, p) ==
  /\ ctx[c] = NoProc /\ cproc[c] = NoProc /\ sig[c] = NoChan
  /\ state[p] = "RUNNABLE"
  /\ plock' = [plock EXCEPT ![p] = c]
  /\ state' = [state EXCEPT ![p] = "RUNNING"]
  /\ cproc' = [cproc EXCEPT ![c] = p]
  /\ ctx' = [ctx EXCEPT ![c] = p]
  /\ UNCHANGED <<chan, lk, event, pc, want, sw, sig, todo>>

\* The scheduler finds p RUNNABLE under p->lock and switches to it.
scheduler(c, p) ==
  /\ ctx[c] = NoProc /\ cproc[c] = NoProc /\ sig[c] = NoChan
  /\ plock[p] = NoCpu
  /\ state[p] = "RUNNABLE"
  /\ plock' = [plock EXCEPT ![p] = c]
  /\ state' = [state EXCEPT ![p] = "RUNNING"]
  /\ cproc' = [cproc EXCEPT ![c] = p]
  /\ ctx' = [ctx EXCEPT ![c] = p]
  /\ UNCHANGED <<chan, lk, event, pc, want, sw, sig, todo>>

\* p came back from swtch() in sched(): the rest of yield(), of sleep() up to
\* its acquire(lk), or forkret().
resume(c, p) ==
  /\ ctx[c] = p /\ sw[p] = "out"
  /\ sw' = [sw EXCEPT ![p] = "on"]
  /\ chan' = [chan EXCEPT ![p] = IF pc[p] = "woken" THEN NoChan ELSE @]
  /\ plock' = [plock EXCEPT ![p] = NoCpu]
  /\ UNCHANGED <<state, lk, event, ctx, cproc, pc, want, sig, todo>>

\* yield() up to sched(), called on a timer interrupt.
yield(c, p) ==
  /\ Runs(c, p) /\ Unlocked(c)
  /\ plock[p] = NoCpu
  /\ plock' = [plock EXCEPT ![p] = c]
  /\ state' = [state EXCEPT ![p] = "RUNNABLE"]
  /\ sw' = [sw EXCEPT ![p] = "swtch"]
  /\ UNCHANGED <<chan, lk, event, ctx, cproc, pc, want, sig, todo>>

\* The panics of sched().
SchedPanics(c, p) ==
  \/ plock[p] # c
  \/ lk = c
  \/ \E q \in Proc \ {p} : plock[q] = c
  \/ state[p] = "RUNNING"

\* sched(): the processor's registers go over to the scheduler of CPU c.
sched(c, p) ==
  /\ ctx[c] = p /\ sw[p] = "swtch"
  /\ ~SchedPanics(c, p)
  /\ sw' = [sw EXCEPT ![p] = "out"]
  /\ ctx' = [ctx EXCEPT ![c] = NoProc]
  /\ UNCHANGED <<state, chan, plock, lk, event, cproc, pc, want, sig, todo>>
\* mutant: p->lock is never released
switched_keeps(c, p) ==
  /\ ctx[c] = NoProc /\ cproc[c] = p
  /\ cproc' = [cproc EXCEPT ![c] = NoProc]
  /\ UNCHANGED <<state, chan, plock, lk, event, ctx, pc, want, sw, sig, todo>>

\* The scheduler after its swtch() returned: c->proc = 0; release(&p->lock).
switched(c, p) ==
  /\ ctx[c] = NoProc /\ cproc[c] = p
  /\ cproc' = [cproc EXCEPT ![c] = NoProc]
  /\ plock' = [plock EXCEPT ![p] = NoCpu]
  /\ UNCHANGED <<state, chan, lk, event, ctx, pc, want, sw, sig, todo>>
-----------------------------------------------------------------------------
(* The condition wait:  acquire(lk); while(no event) sleep(h, lk);         *)
(* take the event; release(lk).                                            *)
\* The condition, tested again whenever sleep() returns.
Ready(h) == event[h] > 0

test(c, p, h) ==
  /\ Runs(c, p)
  /\ \/ pc[p] = "run"
     \/ pc[p] = "woken" /\ want[p] = h
  /\ lk = NoCpu /\ Unlocked(c)
  /\ IF Ready(h)
     THEN /\ event' = [event EXCEPT ![h] = @ - 1]
          /\ pc' = [pc EXCEPT ![p] = "run"]
          /\ want' = [want EXCEPT ![p] = NoChan]
          /\ UNCHANGED lk
     ELSE /\ lk' = c
          /\ pc' = [pc EXCEPT ![p] = "sleep"]
          /\ want' = [want EXCEPT ![p] = h]
          /\ UNCHANGED event
  /\ UNCHANGED <<state, chan, plock, ctx, cproc, sw, sig, todo>>

\* sleep(): acquire(&p->lock); release(lk).
sleep_lock(c, p) ==
  /\ Runs(c, p) /\ pc[p] = "sleep"
  /\ plock[p] = NoCpu
  /\ plock' = [plock EXCEPT ![p] = c]
  /\ lk' = NoCpu
  /\ pc' = [pc EXCEPT ![p] = "sleep_locked"]
  /\ UNCHANGED <<state, chan, event, ctx, cproc, want, sw, sig, todo>>

\* sleep(): p->chan = chan; p->state = SLEEPING; into sched().
sleep(c, p) ==
  /\ Runs(c, p) /\ pc[p] = "sleep_locked"
  /\ chan' = [chan EXCEPT ![p] = want[p]]
  /\ state' = [state EXCEPT ![p] = "SLEEPING"]
  /\ sw' = [sw EXCEPT ![p] = "swtch"]
  /\ pc' = [pc EXCEPT ![p] = "woken"]
  /\ UNCHANGED <<plock, lk, event, ctx, cproc, want, sig, todo>>
-----------------------------------------------------------------------------
(* The wakers.                                                             *)

\* acquire(lk), make the condition true, enter wakeup(h).
post(c, h) ==
  /\ lk = NoCpu /\ Unlocked(c) /\ sig[c] = NoChan
  /\ ctx[c] # NoProc => sw[ctx[c]] = "on"
  /\ event[h] < MaxEvents
  /\ lk' = c
  /\ event' = [event EXCEPT ![h] = @ + 1]
  /\ sig' = [sig EXCEPT ![c] = h]
  /\ todo' = [todo EXCEPT ![c] = Proc \ {cproc[c]}]
  /\ UNCHANGED <<state, chan, plock, ctx, cproc, pc, want, sw>>

Asleep(q, h) == state[q] = "SLEEPING" /\ chan[q] = h

\* mutant: the loop ends at the first sleeper
wakeup_one(c, q) ==
  /\ q \in todo[c]
  /\ plock[q] = NoCpu
  /\ state' = [state EXCEPT ![q] = IF Asleep(q, sig[c]) THEN "RUNNABLE" ELSE @]
  /\ todo' = [todo EXCEPT ![c] = IF Asleep(q, sig[c]) THEN {} ELSE @ \ {q}]
  /\ UNCHANGED <<chan, plock, lk, event, ctx, cproc, pc, want, sw, sig>>

\* One iteration of the loop of wakeup(), under the lock of q.
wakeup(c, q) ==
  /\ q \in todo[c]
  /\ plock[q] = NoCpu
  /\ state' = [state EXCEPT ![q] = IF Asleep(q, sig[c]) THEN "RUNNABLE" ELSE @]
  /\ todo' = [todo EXCEPT ![c] = @ \ {q}]
  /\ UNCHANGED <<chan, plock, lk, event, ctx, cproc, pc, want, sw, sig>>

\* release(lk)
posted(c) ==
  /\ sig[c] # NoChan /\ todo[c] = {}
  /\ lk' = NoCpu
  /\ sig' = [sig EXCEPT ![c] = NoChan]
  /\ UNCHANGED <<state, chan, plock, event, ctx, cproc, pc, want, sw, todo>>

\* kill() of q by process p: a sleeping victim is woken whatever its channel.
kill(c, p, q) ==
  /\ Runs(c, p) /\ Unlocked(c)
  /\ plock[q] = NoCpu
  /\ state[q] = "SLEEPING"
  /\ state' = [state EXCEPT ![q] = "RUNNABLE"]
  /\ UNCHANGED <<chan, plock, lk, event, ctx, cproc, pc, want, sw, sig, todo>>
-----------------------------------------------------------------------------
\* The steps of a thread that it takes as soon as it can.
Straight(c, p) == \/ resume(c, p) \/ sched(c, p) \/ switched(c, p)
                  \/ sleep_lock(c, p) \/ sleep(c, p)

Next == \E c \in CPU :
          \/ \E p \in Proc : scheduler(c, p) \/ Straight(c, p) \/ yield(c, p) \/ wakeup(c, p)
          \/ \E p \in Proc, h \in Chan : test(c, p, h)
          \/ \E h \in Chan : post(c, h)
          \/ posted(c)
          \/ \E p, q \in Proc : kill(c, p, q)

Spec == Init /\ [][Next]_vars

\* CPUs keep executing.  The scheduler's loop comes round to every process, the
\* timer interrupts every CPU again and again, and a spinning CPU gets a lock
\* that is free again and again.  Nothing says that an event is ever posted.
Fairness ==
  /\ \A p \in Proc : SF_vars(\E c \in CPU : scheduler(c, p))
  /\ \A c \in CPU :
       /\ WF_vars(posted(c) \/ \E p \in Proc : Straight(c, p))
       /\ SF_vars(\E p \in Proc : yield(c, p))
       /\ SF_vars(\E p \in Proc : wakeup(c, p))

FairSpec == Spec /\ Fairness
-----------------------------------------------------------------------------
\* A kernel thread, and so its stack, is never executed by two CPUs: not even
\* between a state change and the end of the switch, when the process is already
\* RUNNABLE but still on its old CPU (yield() and wakeup() against scheduler()).
OneCpuPerThread ==
  \A c, d \in CPU : ctx[c] # NoProc /\ ctx[c] = ctx[d] => c = d

\* p->state tells the truth to whoever holds p->lock: when the lock is free the
\* process is RUNNING exactly if some CPU executes it (scheduler(), sched()).
StateMatchesCpu ==
  \A p \in Proc : plock[p] = NoCpu =>
    /\ (state[p] = "RUNNING") <=> (\E c \in CPU : ctx[c] = p)
    /\ (state[p] = "RUNNING") <=> (sw[p] = "on")

\* None of the four panics of sched() can be met.
SchedNeverPanics ==
  \A c \in CPU, p \in Proc : ctx[c] = p /\ sw[p] = "swtch" => ~SchedPanics(c, p)

\* The two places that release a lock hold it: the scheduler the lock of the
\* process it got back, the resumed process its own.
HandoverHoldsLock ==
  \A c \in CPU, p \in Proc :
    \/ ctx[c] = NoProc /\ cproc[c] = p
    \/ ctx[c] = p /\ sw[p] = "out"
    => plock[p] = c

\* No lost wakeup: once the waker has released lk, nobody sleeps on a channel
\* that has an event (sleep() takes p->lock before it releases lk).
NoLostWakeup ==
  lk = NoCpu => \A p \in Proc : state[p] = "SLEEPING" => event[chan[p]] = 0

\* The channel p waits on as its clients see it: from its test of the condition
\* until it is woken, or is going to be by a wakeup() that has begun.
SleepingOn(p) ==
  IF \/ pc[p] \in {"sleep", "sleep_locked"}
     \/ state[p] = "SLEEPING"
  THEN IF \E c \in CPU : sig[c] = want[p] /\ p \in todo[c] THEN NoChan ELSE want[p]
  ELSE NoChan

Mon == INSTANCE Monitor WITH waiting <- [p \in Proc |-> SleepingOn(p)]

\* sleep() and wakeup() are atomic to their clients, which is how every other
\* module uses them: sleep() releases lk and blocks in one step, and wakeup()
\* reaches every sleeper in one step.
SleepIsAtomic == Mon!Spec

\* Every RUNNABLE process gets a CPU, also when there are more processes than
\* CPUs and the others never sleep (yield() and the loop of scheduler()).
RunnableRuns == \A p \in Proc : state[p] = "RUNNABLE" ~> state[p] = "RUNNING"

=============================================================================
