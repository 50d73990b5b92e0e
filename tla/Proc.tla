--------------------------------- MODULE Proc ---------------------------------
(***************************************************************************)
(* The life cycle of processes in kernel/proc.c: allocproc, fork, exit     *)
(* with reparent, wait, kill, freeproc, and the checks of p->killed in     *)
(* usertrap() of kernel/trap.c.                                            *)
(*                                                                         *)
(* An action runs from one acquire of wait_lock or of a p->lock to the     *)
(* next.  A p->lock stays held from one action to the next only while its  *)
(* process is between sched() and the end of its switch (sw = "swtch").    *)
(* Scheduling is module Sched's subject: here a RUNNABLE process may get a *)
(* CPU at any time, and sleep() and wakeup() are atomic.  The loops over   *)
(* the table visit it in any order.  Memory, files and the exit status are *)
(* left out.                                                               *)
(***************************************************************************)
EXTENDS Naturals, FiniteSets

CONSTANTS Proc,       \* the slots of the process table
          initproc,
          NoProc,
          MaxPid,     \* bound on nextpid
          KillArgs    \* the arguments processes pass to kill()

ASSUME ProcAssumption == /\ initproc \in Proc
                         /\ NoProc \notin Proc
                         /\ MaxPid \in Nat \ {0}
                         /\ KillArgs \subseteq Nat

VARIABLES
  state, parent, chan, killed, pid,   \* the fields of struct proc
  nextpid,
  wait_lock,   \* the process that holds wait_lock, or NoProc
  sw,          \* "on" a CPU, in sched() before "swtch", or switched "out"
  pc,          \* where the kernel thread of the process is
  np,          \* local np of fork()
  todo         \* the children that the scan of wait() has yet to look at

table == <<state, parent, chan, killed, pid>>
vars == <<table, nextpid, wait_lock, sw, pc, np, todo>>

\* procinit() and userinit(): one process, RUNNABLE, without a parent.
Init ==
  /\ state = [p \in Proc |-> IF p = initproc THEN "RUNNABLE" ELSE "UNUSED"]
  /\ parent = [p \in Proc |-> NoProc]
  /\ chan = [p \in Proc |-> NoProc]
  /\ killed = [p \in Proc |-> FALSE]
  /\ pid = [p \in Proc |-> IF p = initproc THEN 1 ELSE 0]
  /\ nextpid = 2
  /\ wait_lock = NoProc
  /\ sw = [p \in Proc |-> "out"]
  /\ pc = [p \in Proc |-> "user"]
  /\ np = [p \in Proc |-> NoProc]
  /\ todo = [p \in Proc |-> {}]

Unlocked(q) == sw[q] # "swtch"          \* nobody holds q->lock
At(p, l) == sw[p] = "on" /\ pc[p] = l
Goto(p, l) == pc' = [pc EXCEPT ![p] = l]
Children(p) == {q \in Proc : parent[q] = p}
-----------------------------------------------------------------------------
\* scheduler() switches to p, which releases p->lock: in forkret(), or at the
\* end of sleep().
dispatch(p) ==
  /\ state[p] = "RUNNABLE" /\ sw[p] = "out"
  /\ state' = [state EXCEPT ![p] = "RUNNING"]
  /\ sw' = [sw EXCEPT ![p] = "on"]
  /\ chan' = [chan EXCEPT ![p] = NoProc]
  /\ UNCHANGED <<parent, killed, pid, nextpid, wait_lock, pc, np, todo>>

\* swtch() in sched(), and the scheduler's release of p->lock.
switched(p) ==
  /\ sw[p] = "swtch"
  /\ sw' = [sw EXCEPT ![p] = "out"]
  /\ UNCHANGED <<table, nextpid, wait_lock, pc, np, todo>>

\* usertrap(): a process in user space enters the kernel, and exits if it has
\* been killed.  The check on the way back to user space is the same one.
usertrap(p) ==
  /\ At(p, "user")
  /\ Goto(p, IF killed[p] THEN "exit" ELSE "syscall")
  /\ UNCHANGED <<table, nextpid, wait_lock, sw, np, todo>>

\* usertrap() on an exception: setkilled(p) and exit(-1).
fault(p) ==
  /\ At(p, "user") /\ p # initproc
  /\ killed' = [killed EXCEPT ![p] = TRUE]
  /\ Goto(p, "exit")
  /\ UNCHANGED <<state, parent, chan, pid, nextpid, wait_lock, sw, np, todo>>

\* A system call of another part of the kernel.
other_syscall(p) ==
  /\ At(p, "syscall")
  /\ Goto(p, "user")
  /\ UNCHANGED <<table, nextpid, wait_lock, sw, np, todo>>
-----------------------------------------------------------------------------
\* fork() up to its first release(&np->lock): allocproc() takes an UNUSED slot
\* and a pid.
fork(p, q) ==
  /\ At(p, "syscall")
  /\ nextpid <= MaxPid
  /\ state[q] = "UNUSED" /\ Unlocked(q)
  /\ nextpid' = nextpid + 1
  /\ pid' = [pid EXCEPT ![q] = nextpid]
  /\ state' = [state EXCEPT ![q] = "USED"]
  /\ np' = [np EXCEPT ![p] = q]
  /\ pc' = [pc EXCEPT ![p] = "fork_parent", ![q] = "user"]
  /\ UNCHANGED <<parent, chan, killed, wait_lock, sw, todo>>

\* A memory allocation fails after the slot was taken: freeproc(np).
fork_nomem(p, q) ==
  /\ At(p, "syscall")
  /\ nextpid <= MaxPid
  /\ state[q] = "UNUSED" /\ Unlocked(q)
  /\ nextpid' = nextpid + 1
  /\ killed' = [killed EXCEPT ![q] = FALSE]
  /\ Goto(p, "user")
  /\ UNCHANGED <<state, parent, chan, pid, wait_lock, sw, np, todo>>

\* acquire(&wait_lock); np->parent = p; release(&wait_lock)
fork_parent(p) ==
  /\ At(p, "fork_parent")
  /\ wait_lock = NoProc
  /\ parent' = [parent EXCEPT ![np[p]] = p]
  /\ Goto(p, "fork_runnable")
  /\ UNCHANGED <<state, chan, killed, pid, nextpid, wait_lock, sw, np, todo>>

fork_runnable(p) ==
  /\ At(p, "fork_runnable")
  /\ Unlocked(np[p])
  /\ state' = [state EXCEPT ![np[p]] = "RUNNABLE"]
  /\ np' = [np EXCEPT ![p] = NoProc]
  /\ Goto(p, "user")
  /\ UNCHANGED <<parent, chan, killed, pid, nextpid, wait_lock, sw, todo>>
-----------------------------------------------------------------------------
sys_exit(p) ==
  /\ At(p, "syscall") /\ p # initproc      \* init.c never exits
  /\ Goto(p, "exit")
  /\ UNCHANGED <<table, nextpid, wait_lock, sw, np, todo>>

\* exit(), after the files are closed: acquire(&wait_lock).  panic("init
\* exiting") is the guard on initproc.
exit(p) ==
  /\ At(p, "exit") /\ p # initproc
  /\ wait_lock = NoProc
  /\ wait_lock' = p
  /\ Goto(p, "reparent")
  /\ UNCHANGED <<table, nextpid, sw, np, todo>>

Asleep(q, h) == state[q] = "SLEEPING" /\ chan[q] = h

\* wakeup(h) by p.  A sleeper that is still switching holds its own lock, so
\* that wakeup() has to wait for it.
wakeup(p, h) ==
  /\ \A q \in Proc \ {p} : Asleep(q, h) => Unlocked(q)
  /\ state' = [q \in Proc |-> IF q # p /\ Asleep(q, h) THEN "RUNNABLE" ELSE state[q]]
\* mutant: zombies are not passed on
reparent_live(p) ==
  /\ At(p, "reparent")
  /\ parent' = [q \in Proc |-> IF parent[q] = p /\ state[q] # "ZOMBIE"
                               THEN initproc ELSE parent[q]]
  /\ IF Children(p) # {} THEN wakeup(p, initproc) ELSE UNCHANGED state
  /\ Goto(p, "exit_wakeup")
  /\ UNCHANGED <<chan, killed, pid, nextpid, wait_lock, sw, np, todo>>

\* Pass the children to init, and wake init if there are any.
reparent(p) ==
  /\ At(p, "reparent")
  /\ parent' = [q \in Proc |-> IF parent[q] = p THEN initproc ELSE parent[q]]
  /\ IF Children(p) # {} THEN wakeup(p, initproc) ELSE UNCHANGED state
  /\ Goto(p, "exit_wakeup")
  /\ UNCHANGED <<chan, killed, pid, nextpid, wait_lock, sw, np, todo>>
\* mutant: the parent is not woken
exit_wakeup_none(p) ==
  /\ At(p, "exit_wakeup")
  /\ Goto(p, "exit_zombie")
  /\ UNCHANGED <<table, nextpid, wait_lock, sw, np, todo>>

exit_wakeup(p) ==
  /\ At(p, "exit_wakeup")
  /\ wakeup(p, parent[p])
  /\ Goto(p, "exit_zombie")
  /\ UNCHANGED <<parent, chan, killed, pid, nextpid, wait_lock, sw, np, todo>>

\* acquire(&p->lock); ZOMBIE; release(&wait_lock); into sched()
exit_zombie(p) ==
  /\ At(p, "exit_zombie")
  /\ state' = [state EXCEPT ![p] = "ZOMBIE"]
  /\ wait_lock' = NoProc
  /\ sw' = [sw EXCEPT ![p] = "swtch"]
  /\ Goto(p, "zombie")
  /\ UNCHANGED <<parent, chan, killed, pid, nextpid, np, todo>>
-----------------------------------------------------------------------------
sys_wait(p) ==
  /\ At(p, "syscall")
  /\ Goto(p, "wait")
  /\ UNCHANGED <<table, nextpid, wait_lock, sw, np, todo>>

\* acquire(&wait_lock), on entry and when sleep() returns
wait(p) ==
  /\ At(p, "wait")
  /\ wait_lock = NoProc
  /\ wait_lock' = p
  /\ todo' = [todo EXCEPT ![p] = Children(p)]
  /\ Goto(p, "wait_scan")
  /\ UNCHANGED <<table, nextpid, sw, np>>

\* One child, under its lock, is not a zombie.
wait_scan(p, q) ==
  /\ At(p, "wait_scan") /\ q \in todo[p]
  /\ Unlocked(q)
  /\ state[q] # "ZOMBIE"
  /\ todo' = [todo EXCEPT ![p] = @ \ {q}]
  /\ UNCHANGED <<table, nextpid, wait_lock, sw, pc, np>>

\* freeproc()
freeproc(q) ==
  /\ state' = [state EXCEPT ![q] = "UNUSED"]
  /\ parent' = [parent EXCEPT ![q] = NoProc]
  /\ chan' = [chan EXCEPT ![q] = NoProc]
  /\ killed' = [killed EXCEPT ![q] = FALSE]
  /\ pid' = [pid EXCEPT ![q] = 0]

Return(p) ==
  /\ wait_lock' = NoProc
  /\ todo' = [todo EXCEPT ![p] = {}]
  /\ Goto(p, "user")
\* mutant: the zombie is freed without its lock
wait_reap_nolock(p, q) ==
  /\ At(p, "wait_scan") /\ q \in todo[p]
  /\ state[q] = "ZOMBIE"
  /\ freeproc(q)
  /\ Return(p)
  /\ UNCHANGED <<nextpid, sw, np>>

wait_reap(p, q) ==
  /\ At(p, "wait_scan") /\ q \in todo[p]
  /\ Unlocked(q)
  /\ state[q] = "ZOMBIE"
  /\ freeproc(q)
  /\ Return(p)
  /\ UNCHANGED <<nextpid, sw, np>>

\* copyout() of the exit status fails: the zombie stays.  init passes no address.
wait_copyout_fails(p, q) ==
  /\ At(p, "wait_scan") /\ q \in todo[p] /\ p # initproc
  /\ Unlocked(q)
  /\ state[q] = "ZOMBIE"
  /\ Return(p)
  /\ UNCHANGED <<table, nextpid, sw, np>>
\* mutant: wait() does not look at p->killed before it sleeps
wait_none_deaf(p) ==
  /\ At(p, "wait_scan") /\ todo[p] = {}
  /\ IF Children(p) = {}
     THEN Return(p)
     ELSE Goto(p, "wait_sleep") /\ UNCHANGED <<wait_lock, todo>>
  /\ UNCHANGED <<table, nextpid, sw, np>>

\* if(!havekids || killed(p)) return -1
wait_none(p) ==
  /\ At(p, "wait_scan") /\ todo[p] = {}
  /\ IF Children(p) = {} \/ killed[p]
     THEN Return(p)
     ELSE Goto(p, "wait_sleep") /\ UNCHANGED <<wait_lock, todo>>
  /\ UNCHANGED <<table, nextpid, sw, np>>

\* sleep(p, &wait_lock)
wait_sleep(p) ==
  /\ At(p, "wait_sleep")
  /\ chan' = [chan EXCEPT ![p] = p]
  /\ state' = [state EXCEPT ![p] = "SLEEPING"]
  /\ wait_lock' = NoProc
  /\ sw' = [sw EXCEPT ![p] = "swtch"]
  /\ Goto(p, "wait")
  /\ UNCHANGED <<parent, killed, pid, nextpid, np, todo>>
-----------------------------------------------------------------------------
\* kill(n) by p finds its victim, q.  When it finds none it is other_syscall.
kill(p, q) ==
  /\ At(p, "syscall")
  /\ pid[q] \in KillArgs
  /\ Unlocked(q)
  /\ killed' = [killed EXCEPT ![q] = TRUE]
  /\ state' = [state EXCEPT ![q] = IF @ = "SLEEPING" THEN "RUNNABLE" ELSE @]
  /\ Goto(p, "user")
  /\ UNCHANGED <<parent, chan, pid, nextpid, wait_lock, sw, np, todo>>
-----------------------------------------------------------------------------
\* What a process does not choose: the rest of a system call it is in.
Forced(p) == \/ dispatch(p) \/ switched(p) \/ usertrap(p)
             \/ fork_parent(p) \/ fork_runnable(p)
             \/ exit(p) \/ reparent(p) \/ exit_wakeup(p) \/ exit_zombie(p)
             \/ wait(p) \/ wait_none(p) \/ wait_sleep(p)
             \/ \E q \in Proc : wait_scan(p, q) \/ wait_reap(p, q) \/ wait_copyout_fails(p, q)

Chosen(p) == \/ fault(p) \/ other_syscall(p) \/ sys_exit(p) \/ sys_wait(p)
             \/ \E q \in Proc : fork(p, q) \/ fork_nomem(p, q) \/ kill(p, q)

Next == \E p \in Proc : Forced(p) \/ Chosen(p)

Spec == Init /\ [][Next]_vars

\* Every RUNNABLE process is scheduled, a process in user space traps sooner or
\* later (the timer), a system call goes on, a spin lock that is free again and
\* again is obtained; and init.c calls wait() for ever.
Fairness == /\ \A p \in Proc : /\ SF_vars(Forced(p))
                               /\ WF_vars(At(p, "syscall") /\ Chosen(p))
            /\ SF_vars(sys_wait(initproc))

FairSpec == Spec /\ Fairness
-----------------------------------------------------------------------------
Live(q) == state[q] \in {"SLEEPING", "RUNNABLE", "RUNNING"}

\* No orphans: whatever the order in which a family exits, every process that
\* can run or is a zombie, init apart, has a parent that can still wait for it
\* (reparent() in exit(), np->parent in fork()).
ParentCanWait ==
  \A q \in Proc \ {initproc} :
    Live(q) \/ state[q] = "ZOMBIE" => parent[q] # NoProc /\ Live(parent[q])

\* wait() never frees a process whose kernel thread is still on its way through
\* sched(): a free slot is off every CPU ("make sure the child isn't still in
\* exit() or swtch()").
FreedIsOff == \A q \in Proc : state[q] \in {"UNUSED", "USED"} => sw[q] = "out"

\* A zombie whose parent is init is reaped, be it init's own child or one that
\* it was given by reparent(), and whether it became a zombie before or after.
ZombieReaped ==
  \A q \in Proc : state[q] = "ZOMBIE" /\ parent[q] = initproc ~> state[q] = "UNUSED"

\* A process that is killed exits, wherever kill() finds it: asleep (it is woken), in
\* user space or anywhere in a system call.  The one place
\* where it may not is named in the premise: a kill() after wait() has looked at
\* p->killed and before its sleep() is not seen until the wait is over (wait() holds
\* wait_lock there, kill() takes only p->lock).
KilledExits ==
  \A q \in Proc : killed[q] /\ state[q] # "SLEEPING" /\ pc[q] # "wait_sleep"
                    ~> state[q] \in {"ZOMBIE", "UNUSED"}
=============================================================================
