----------------------------- MODULE ProcProofs -----------------------------
(***************************************************************************)
(* Proofs about Proc for every size of the process table: no orphans, no   *)
(* slot freed under its thread, no exit missed by a parent that sleeps in  *)
(* wait(), and pids that name one process.                                 *)
(***************************************************************************)
EXTENDS Proc, TLAPS

States == {"UNUSED", "USED", "SLEEPING", "RUNNABLE", "RUNNING", "ZOMBIE"}
Labels == {"user", "syscall", "exit", "fork_parent", "fork_runnable", "reparent",
           "exit_wakeup", "exit_zombie", "zombie", "wait", "wait_scan", "wait_sleep"}

TypeOK ==
  /\ state \in [Proc -> States]
  /\ parent \in [Proc -> Proc \cup {NoProc}]
  /\ chan \in [Proc -> Proc \cup {NoProc}]
  /\ killed \in [Proc -> BOOLEAN]
  /\ pid \in [Proc -> Nat]
  /\ nextpid \in Nat
  /\ wait_lock \in Proc \cup {NoProc}
  /\ sw \in [Proc -> {"on", "swtch", "out"}]
  /\ pc \in [Proc -> Labels]
  /\ np \in [Proc -> Proc \cup {NoProc}]
  /\ todo \in [Proc -> SUBSET Proc]

\* What the state of a process says of its kernel thread, and where that may be
\* when it is not on a CPU.
ThreadInv ==
  \A p \in Proc :
    /\ sw[p] = "on" <=> state[p] = "RUNNING"
    /\ sw[p] = "swtch" => state[p] \in {"SLEEPING", "ZOMBIE"}
    /\ sw[p] # "on" => pc[p] \in {"user", "wait", "zombie"}
    /\ state[p] = "SLEEPING" => chan[p] = p

\* The sections under wait_lock, and who may be in one of exit()'s.
LockInv ==
  \A p \in Proc :
    /\ pc[p] \in {"reparent", "exit_wakeup", "exit_zombie", "wait_scan", "wait_sleep"} => wait_lock = p
    /\ pc[p] \in {"reparent", "exit_wakeup", "exit_zombie"} => p # initproc

\* A fork() under way has a slot of its own, which is its child from the moment it
\* says so until others may see it.
ForkInv ==
  \A p \in Proc : pc[p] \in {"fork_parent", "fork_runnable"} =>
    /\ np[p] \in Proc /\ state[np[p]] = "USED"
    /\ pc[p] = "fork_runnable" => parent[np[p]] = p
    /\ \A r \in Proc : pc[r] \in {"fork_parent", "fork_runnable"} /\ np[r] = np[p] => r = p

\* Whoever is somebody's parent is alive, and has not yet passed its children on.
FamilyInv ==
  /\ Live(initproc)
  /\ \A q \in Proc :
       /\ parent[q] # NoProc => /\ Live(parent[q])
                                /\ pc[parent[q]] \notin {"exit_wakeup", "exit_zombie"}
       /\ q # initproc /\ (Live(q) \/ state[q] = "ZOMBIE") => parent[q] # NoProc

\* No child that a scan of wait() has passed becomes a zombie before the scan ends
\* in sleep(), and a child about to become one has woken its parent.
ScanInv ==
  \A p, q \in Proc : parent[q] = p =>
    /\ pc[p] = "wait_scan" /\ q \notin todo[p] => state[q] # "ZOMBIE"
    /\ pc[p] = "wait_sleep" => state[q] # "ZOMBIE"
    /\ state[p] = "SLEEPING" => state[q] # "ZOMBIE" /\ pc[q] # "exit_zombie"

PidInv ==
  \A p \in Proc : /\ pid[p] < nextpid
                  /\ state[p] # "UNUSED" <=> pid[p] # 0
                  /\ \A q \in Proc : pid[p] = pid[q] /\ pid[p] # 0 => p = q

IInv == TypeOK /\ ThreadInv /\ LockInv /\ ForkInv /\ FamilyInv /\ ScanInv /\ PidInv

\* A process asleep in wait() has no child that is a zombie: exit() wakes the parent
\* before the state changes, and the parent cannot go to sleep in between.
NoMissedExit ==
  \A p, q \in Proc : state[p] = "SLEEPING" /\ parent[q] = p => state[q] # "ZOMBIE"

\* Two processes never have the same pid, which kill() and the owners of sleep locks
\* (lk->pid) rely on.
PidsUnique ==
  \A p, q \in Proc : state[p] # "UNUSED" /\ state[q] # "UNUSED" /\ pid[p] = pid[q] => p = q
-----------------------------------------------------------------------------
LEMMA InitIInv == Init => IInv
<1> SUFFICES ASSUME Init PROVE IInv
  BY Zenon
<1> USE ProcAssumption DEF Init, Live
<1>1. TypeOK
  BY Zenon DEF TypeOK, States, Labels
<1>2. ThreadInv
  BY Zenon DEF ThreadInv
<1>3. LockInv
  BY Zenon DEF LockInv
<1>4. ForkInv
  BY Zenon DEF ForkInv
<1>5. FamilyInv
  BY Zenon DEF FamilyInv
<1>6. ScanInv
  BY Zenon DEF ScanInv
<1>7. PidInv
  BY DEF PidInv
<1> QED
  BY Zenon, <1>1, <1>2, <1>3, <1>4, <1>5, <1>6, <1>7 DEF IInv

\* The scheduler runs p.
LEMMA Step_dispatch ==
  ASSUME IInv, NEW p \in Proc, dispatch(p)
  PROVE  IInv'
<1> USE ProcAssumption DEF IInv, TypeOK, States, Labels, Live, At, Goto, Unlocked, table, dispatch
<1>1. TypeOK'
  BY Zenon
<1>2. ThreadInv'
  BY DEF ThreadInv
<1>3. LockInv'
  BY Zenon DEF LockInv
<1>4. ForkInv'
  BY DEF ForkInv
<1>5. FamilyInv'
  BY Zenon DEF FamilyInv
<1>6. ScanInv'
  BY DEF ScanInv
<1>7. PidInv'
  BY Zenon DEF PidInv
<1> QED
  BY Zenon, <1>1, <1>2, <1>3, <1>4, <1>5, <1>6, <1>7

\* p is off its CPU.
LEMMA Step_switched ==
  ASSUME IInv, NEW p \in Proc, switched(p)
  PROVE  IInv'
<1> USE ProcAssumption DEF IInv, TypeOK, States, Labels, Live, At, Goto, Unlocked, table, switched
<1>1. TypeOK'
  BY Zenon
<1>2. ThreadInv'
  BY DEF ThreadInv
<1>3. LockInv'
  BY Zenon DEF LockInv
<1>4. ForkInv'
  BY Zenon DEF ForkInv
<1>5. FamilyInv'
  BY Zenon DEF FamilyInv
<1>6. ScanInv'
  BY DEF ScanInv
<1>7. PidInv'
  BY Zenon DEF PidInv
<1> QED
  BY Zenon, <1>1, <1>2, <1>3, <1>4, <1>5, <1>6, <1>7

\* A trap from user space.
LEMMA Step_usertrap ==
  ASSUME IInv, NEW p \in Proc, usertrap(p)
  PROVE  IInv'
<1> USE ProcAssumption DEF IInv, TypeOK, States, Labels, Live, At, Goto, Unlocked, table, usertrap
<1>1. TypeOK'
  BY Zenon
<1>2. ThreadInv'
  BY DEF ThreadInv
<1>3. LockInv'
  BY Zenon DEF LockInv
<1>4. ForkInv'
  BY DEF ForkInv
<1>5. FamilyInv'
  BY DEF FamilyInv
<1>6. ScanInv'
  BY DEF ScanInv
<1>7. PidInv'
  BY Zenon DEF PidInv
<1> QED
  BY Zenon, <1>1, <1>2, <1>3, <1>4, <1>5, <1>6, <1>7

\* An exception.
LEMMA Step_fault ==
  ASSUME IInv, NEW p \in Proc, fault(p)
  PROVE  IInv'
<1> USE ProcAssumption DEF IInv, TypeOK, States, Labels, Live, At, Goto, Unlocked, table, fault
<1>1. TypeOK'
  BY Zenon
<1>2. ThreadInv'
  BY DEF ThreadInv
<1>3. LockInv'
  BY Zenon DEF LockInv
<1>4. ForkInv'
  BY DEF ForkInv
<1>5. FamilyInv'
  BY DEF FamilyInv
<1>6. ScanInv'
  BY DEF ScanInv
<1>7. PidInv'
  BY Zenon DEF PidInv
<1> QED
  BY Zenon, <1>1, <1>2, <1>3, <1>4, <1>5, <1>6, <1>7

\* Another system call.
LEMMA Step_other_syscall ==
  ASSUME IInv, NEW p \in Proc, other_syscall(p)
  PROVE  IInv'
<1> USE ProcAssumption DEF IInv, TypeOK, States, Labels, Live, At, Goto, Unlocked, table, other_syscall
<1>1. TypeOK'
  BY Zenon
<1>2. ThreadInv'
  BY DEF ThreadInv
<1>3. LockInv'
  BY Zenon DEF LockInv
<1>4. ForkInv'
  BY DEF ForkInv
<1>5. FamilyInv'
  BY DEF FamilyInv
<1>6. ScanInv'
  BY DEF ScanInv
<1>7. PidInv'
  BY Zenon DEF PidInv
<1> QED
  BY Zenon, <1>1, <1>2, <1>3, <1>4, <1>5, <1>6, <1>7

\* A slot is taken: it was off every CPU, and nobody's.
LEMMA Step_fork ==
  ASSUME IInv, NEW p \in Proc, NEW q \in Proc, fork(p, q)
  PROVE  IInv'
<1> USE ProcAssumption DEF IInv, TypeOK, States, Labels, Live, At, Goto, Unlocked, table, fork
<1>1. TypeOK'
  OBVIOUS
<1>2. ThreadInv'
  BY DEF ThreadInv
<1>3. LockInv'
  BY Zenon DEF LockInv
<1>4. ForkInv'
  BY DEF ForkInv
<1>5. FamilyInv'
  BY DEF FamilyInv
<1>6. ScanInv'
  BY DEF ScanInv
<1>7. PidInv'
  BY DEF PidInv
<1> QED
  BY Zenon, <1>1, <1>2, <1>3, <1>4, <1>5, <1>6, <1>7

\* The slot is given back.
LEMMA Step_fork_nomem ==
  ASSUME IInv, NEW p \in Proc, NEW q \in Proc, fork_nomem(p, q)
  PROVE  IInv'
<1> USE ProcAssumption DEF IInv, TypeOK, States, Labels, Live, At, Goto, Unlocked, table, fork_nomem
<1>1. TypeOK'
  OBVIOUS
<1>2. ThreadInv'
  BY Zenon DEF ThreadInv
<1>3. LockInv'
  BY Zenon DEF LockInv
<1>4. ForkInv'
  BY DEF ForkInv
<1>5. FamilyInv'
  BY DEF FamilyInv
<1>6. ScanInv'
  BY DEF ScanInv
<1>7. PidInv'
  BY DEF PidInv
<1> QED
  BY Zenon, <1>1, <1>2, <1>3, <1>4, <1>5, <1>6, <1>7

\* p is alive, and not in exit(); wait_lock is free, so no scan is under way.
LEMMA Step_fork_parent ==
  ASSUME IInv, NEW p \in Proc, fork_parent(p)
  PROVE  IInv'
<1> USE ProcAssumption DEF IInv, TypeOK, States, Labels, Live, At, Goto, Unlocked, table, fork_parent
<1>1. TypeOK'
  BY Zenon
<1>2. ThreadInv'
  BY DEF ThreadInv
<1>3. LockInv'
  BY Zenon DEF LockInv
<1>4. ForkInv'
  BY DEF ForkInv
<1>5. FamilyInv'
  BY DEF ThreadInv, FamilyInv
<1>6. ScanInv'
  BY DEF LockInv, ForkInv, ScanInv
<1>7. PidInv'
  BY Zenon DEF PidInv
<1> QED
  BY Zenon, <1>1, <1>2, <1>3, <1>4, <1>5, <1>6, <1>7

\* The child has its parent by now.
LEMMA Step_fork_runnable ==
  ASSUME IInv, NEW p \in Proc, fork_runnable(p)
  PROVE  IInv'
<1> USE ProcAssumption DEF IInv, TypeOK, States, Labels, Live, At, Goto, Unlocked, table, fork_runnable
<1>1. TypeOK'
  BY Zenon
<1>2. ThreadInv'
  BY DEF ThreadInv, ForkInv
<1>3. LockInv'
  BY Zenon DEF LockInv
<1>4. ForkInv'
  BY DEF ForkInv
<1>5. FamilyInv'
  BY DEF ForkInv, FamilyInv
<1>6. ScanInv'
  BY DEF ScanInv
<1>7. PidInv'
  BY Zenon DEF ForkInv, PidInv
<1> QED
  BY Zenon, <1>1, <1>2, <1>3, <1>4, <1>5, <1>6, <1>7

\* exit() begins.
LEMMA Step_sys_exit ==
  ASSUME IInv, NEW p \in Proc, sys_exit(p)
  PROVE  IInv'
<1> USE ProcAssumption DEF IInv, TypeOK, States, Labels, Live, At, Goto, Unlocked, table, sys_exit
<1>1. TypeOK'
  BY Zenon
<1>2. ThreadInv'
  BY DEF ThreadInv
<1>3. LockInv'
  BY Zenon DEF LockInv
<1>4. ForkInv'
  BY DEF ForkInv
<1>5. FamilyInv'
  BY DEF FamilyInv
<1>6. ScanInv'
  BY DEF ScanInv
<1>7. PidInv'
  BY Zenon DEF PidInv
<1> QED
  BY Zenon, <1>1, <1>2, <1>3, <1>4, <1>5, <1>6, <1>7

\* wait_lock is taken.
LEMMA Step_exit ==
  ASSUME IInv, NEW p \in Proc, exit(p)
  PROVE  IInv'
<1> USE ProcAssumption DEF IInv, TypeOK, States, Labels, Live, At, Goto, Unlocked, table, exit
<1>1. TypeOK'
  BY Zenon
<1>2. ThreadInv'
  BY DEF ThreadInv
<1>3. LockInv'
  BY Zenon DEF LockInv
<1>4. ForkInv'
  BY DEF ForkInv
<1>5. FamilyInv'
  BY DEF FamilyInv
<1>6. ScanInv'
  BY DEF ScanInv
<1>7. PidInv'
  BY Zenon DEF PidInv
<1> QED
  BY Zenon, <1>1, <1>2, <1>3, <1>4, <1>5, <1>6, <1>7

\* init takes the children, zombies included, and is not asleep after it.
LEMMA Step_reparent ==
  ASSUME IInv, NEW p \in Proc, reparent(p)
  PROVE  IInv'
<1> USE ProcAssumption DEF IInv, TypeOK, States, Labels, Live, At, Goto, Unlocked, table, reparent, wakeup, Asleep, Children
<1>1. TypeOK'
  OBVIOUS
<1>2. ThreadInv'
  BY DEF ThreadInv
<1>3. LockInv'
  BY DEF LockInv
<1>4. ForkInv'
  BY DEF ForkInv
<1>5. FamilyInv'
  BY DEF LockInv, FamilyInv
<1>6. ScanInv'
  BY DEF ThreadInv, LockInv, ScanInv
<1>7. PidInv'
  BY DEF PidInv
<1> QED
  BY Zenon, <1>1, <1>2, <1>3, <1>4, <1>5, <1>6, <1>7

\* The parent is not asleep after it.
LEMMA Step_exit_wakeup ==
  ASSUME IInv, NEW p \in Proc, exit_wakeup(p)
  PROVE  IInv'
<1> USE ProcAssumption DEF IInv, TypeOK, States, Labels, Live, At, Goto, Unlocked, table, exit_wakeup, wakeup, Asleep
<1>1. TypeOK'
  BY Zenon
<1>2. ThreadInv'
  BY DEF ThreadInv
<1>3. LockInv'
  BY Zenon DEF LockInv
<1>4. ForkInv'
  BY DEF ForkInv
<1>5. FamilyInv'
  BY DEF FamilyInv
<1>6. ScanInv'
  BY DEF ThreadInv, ScanInv
<1>7. PidInv'
  BY Zenon DEF PidInv
<1> QED
  BY Zenon, <1>1, <1>2, <1>3, <1>4, <1>5, <1>6, <1>7

\* p has no children left, and its parent is awake and not in a scan.
LEMMA Step_exit_zombie ==
  ASSUME IInv, NEW p \in Proc, exit_zombie(p)
  PROVE  IInv'
<1> USE ProcAssumption DEF IInv, TypeOK, States, Labels, Live, At, Goto, Unlocked, table, exit_zombie
<1>1. TypeOK'
  BY Zenon
<1>2. ThreadInv'
  BY DEF ThreadInv
<1>3. LockInv'
  BY DEF LockInv
<1>4. ForkInv'
  BY DEF ThreadInv, ForkInv
<1>5. FamilyInv'
  BY DEF ThreadInv, LockInv, FamilyInv
<1>6. ScanInv'
  BY DEF LockInv, ScanInv
<1>7. PidInv'
  BY DEF ThreadInv, PidInv
<1> QED
  BY Zenon, <1>1, <1>2, <1>3, <1>4, <1>5, <1>6, <1>7

\* wait() begins.
LEMMA Step_sys_wait ==
  ASSUME IInv, NEW p \in Proc, sys_wait(p)
  PROVE  IInv'
<1> USE ProcAssumption DEF IInv, TypeOK, States, Labels, Live, At, Goto, Unlocked, table, sys_wait
<1>1. TypeOK'
  BY Zenon
<1>2. ThreadInv'
  BY DEF ThreadInv
<1>3. LockInv'
  BY Zenon DEF LockInv
<1>4. ForkInv'
  BY DEF ForkInv
<1>5. FamilyInv'
  BY DEF FamilyInv
<1>6. ScanInv'
  BY DEF ScanInv
<1>7. PidInv'
  BY Zenon DEF PidInv
<1> QED
  BY Zenon, <1>1, <1>2, <1>3, <1>4, <1>5, <1>6, <1>7

\* The scan is to look at all children.
LEMMA Step_wait ==
  ASSUME IInv, NEW p \in Proc, wait(p)
  PROVE  IInv'
<1> USE ProcAssumption DEF IInv, TypeOK, States, Labels, Live, At, Goto, Unlocked, table, wait, Children
<1>1. TypeOK'
  BY Zenon
<1>2. ThreadInv'
  BY DEF ThreadInv
<1>3. LockInv'
  BY Zenon DEF LockInv
<1>4. ForkInv'
  BY DEF ForkInv
<1>5. FamilyInv'
  BY DEF FamilyInv
<1>6. ScanInv'
  BY DEF ScanInv
<1>7. PidInv'
  BY Zenon DEF PidInv
<1> QED
  BY Zenon, <1>1, <1>2, <1>3, <1>4, <1>5, <1>6, <1>7

\* A child that is no zombie is passed.
LEMMA Step_wait_scan ==
  ASSUME IInv, NEW p \in Proc, NEW q \in Proc, wait_scan(p, q)
  PROVE  IInv'
<1> USE ProcAssumption DEF IInv, TypeOK, States, Labels, Live, At, Goto, Unlocked, table, wait_scan
<1>1. TypeOK'
  BY Zenon
<1>2. ThreadInv'
  BY Zenon DEF ThreadInv
<1>3. LockInv'
  BY Zenon DEF LockInv
<1>4. ForkInv'
  BY DEF ForkInv
<1>5. FamilyInv'
  BY Zenon DEF FamilyInv
<1>6. ScanInv'
  BY DEF ScanInv
<1>7. PidInv'
  BY Zenon DEF PidInv
<1> QED
  BY Zenon, <1>1, <1>2, <1>3, <1>4, <1>5, <1>6, <1>7

\* A zombie is nobody's parent, and its lock is free, so it is off its CPU.
LEMMA Step_wait_reap ==
  ASSUME IInv, NEW p \in Proc, NEW q \in Proc, wait_reap(p, q)
  PROVE  IInv'
<1> USE ProcAssumption DEF IInv, TypeOK, States, Labels, Live, At, Goto, Unlocked, table, wait_reap, freeproc, Return
<1>1. TypeOK'
  BY Zenon
<1>2. ThreadInv'
  BY DEF ThreadInv
<1>3. LockInv'
  BY Zenon DEF LockInv
<1>4. ForkInv'
  BY DEF ForkInv
<1>5. FamilyInv'
  BY DEF FamilyInv
<1>6. ScanInv'
  BY DEF ScanInv
<1>7. PidInv'
  BY DEF PidInv
<1> QED
  BY Zenon, <1>1, <1>2, <1>3, <1>4, <1>5, <1>6, <1>7

\* The zombie is left.
LEMMA Step_wait_copyout_fails ==
  ASSUME IInv, NEW p \in Proc, NEW q \in Proc, wait_copyout_fails(p, q)
  PROVE  IInv'
<1> USE ProcAssumption DEF IInv, TypeOK, States, Labels, Live, At, Goto, Unlocked, table, wait_copyout_fails, Return
<1>1. TypeOK'
  BY Zenon
<1>2. ThreadInv'
  BY DEF ThreadInv
<1>3. LockInv'
  BY Zenon DEF LockInv
<1>4. ForkInv'
  BY DEF ForkInv
<1>5. FamilyInv'
  BY DEF FamilyInv
<1>6. ScanInv'
  BY DEF ScanInv
<1>7. PidInv'
  BY Zenon DEF PidInv
<1> QED
  BY Zenon, <1>1, <1>2, <1>3, <1>4, <1>5, <1>6, <1>7

\* No child is a zombie, for the scan passed all of them.
LEMMA Step_wait_none ==
  ASSUME IInv, NEW p \in Proc, wait_none(p)
  PROVE  IInv'
<1> USE ProcAssumption DEF IInv, TypeOK, States, Labels, Live, At, Goto, Unlocked, table, wait_none, Return, Children
<1>1. TypeOK'
  OBVIOUS
<1>2. ThreadInv'
  BY DEF ThreadInv
<1>3. LockInv'
  BY DEF LockInv
<1>4. ForkInv'
  BY DEF ForkInv
<1>5. FamilyInv'
  BY DEF FamilyInv
<1>6. ScanInv'
  BY DEF ScanInv
<1>7. PidInv'
  BY Zenon DEF PidInv
<1> QED
  BY Zenon, <1>1, <1>2, <1>3, <1>4, <1>5, <1>6, <1>7

\* p sleeps on itself.
LEMMA Step_wait_sleep ==
  ASSUME IInv, NEW p \in Proc, wait_sleep(p)
  PROVE  IInv'
<1> USE ProcAssumption DEF IInv, TypeOK, States, Labels, Live, At, Goto, Unlocked, table, wait_sleep
<1>1. TypeOK'
  BY Zenon
<1>2. ThreadInv'
  BY DEF ThreadInv
<1>3. LockInv'
  BY Zenon DEF LockInv
<1>4. ForkInv'
  BY DEF ThreadInv, ForkInv
<1>5. FamilyInv'
  BY DEF ThreadInv, FamilyInv
<1>6. ScanInv'
  BY DEF LockInv, ScanInv
<1>7. PidInv'
  BY DEF ThreadInv, PidInv
<1> QED
  BY Zenon, <1>1, <1>2, <1>3, <1>4, <1>5, <1>6, <1>7

\* A sleeper is woken, and nobody else is touched.
LEMMA Step_kill ==
  ASSUME IInv, NEW p \in Proc, NEW q \in Proc, kill(p, q)
  PROVE  IInv'
<1> USE ProcAssumption DEF IInv, TypeOK, States, Labels, Live, At, Goto, Unlocked, table, kill
<1>1. TypeOK'
  BY Zenon
<1>2. ThreadInv'
  BY DEF ThreadInv
<1>3. LockInv'
  BY Zenon DEF LockInv
<1>4. ForkInv'
  BY DEF ForkInv
<1>5. FamilyInv'
  BY DEF FamilyInv
<1>6. ScanInv'
  BY DEF ScanInv
<1>7. PidInv'
  BY Zenon DEF PidInv
<1> QED
  BY Zenon, <1>1, <1>2, <1>3, <1>4, <1>5, <1>6, <1>7
-----------------------------------------------------------------------------
\* A step of any process, or none, keeps the invariant.
LEMMA StepIInv == IInv /\ [Next]_vars => IInv'
<1> SUFFICES ASSUME IInv, [Next]_vars PROVE IInv'
  BY Zenon
<1>1. CASE Next
  <2> PICK p \in Proc : Forced(p) \/ Chosen(p)
    BY Zenon, <1>1 DEF Next
  <2>1. CASE Forced(p)
    BY Zenon, <2>1, Step_dispatch, Step_switched, Step_usertrap, Step_fork_parent,
       Step_fork_runnable, Step_exit, Step_reparent, Step_exit_wakeup,
       Step_exit_zombie, Step_wait, Step_wait_none, Step_wait_sleep, Step_wait_scan,
       Step_wait_reap, Step_wait_copyout_fails DEF Forced
  <2>2. CASE Chosen(p)
    BY Zenon, <2>2, Step_fault, Step_other_syscall, Step_sys_exit, Step_sys_wait, Step_fork,
       Step_fork_nomem, Step_kill DEF Chosen
  <2> QED
    BY Zenon, <2>1, <2>2
<1>2. CASE UNCHANGED vars
  BY <1>2 DEF vars, table, IInv, TypeOK, ThreadInv, LockInv, ForkInv, FamilyInv, ScanInv, PidInv,
              Live
<1> QED
  BY Zenon, <1>1, <1>2

LEMMA Inductive == Spec => []IInv
  BY InitIInv, StepIInv, PTL DEF Spec

\* For every table and any order in which a family forks, exits and waits, each
\* process has a parent that can wait for it.
THEOREM NoOrphans == Spec => []ParentCanWait
<1>1. IInv => ParentCanWait
  BY Zenon, ProcAssumption DEF IInv, TypeOK, FamilyInv, ParentCanWait
<1> QED
  BY <1>1, Inductive, PTL

\* For every table, wait() frees no process that is still in sched().
THEOREM FreedOff == Spec => []FreedIsOff
<1>1. IInv => FreedIsOff
  BY Zenon DEF IInv, TypeOK, ThreadInv, FreedIsOff
<1> QED
  BY <1>1, Inductive, PTL

\* For every table, no parent sleeps in wait() through the exit of a child, its own or
\* one that reparent() gave it.
THEOREM ExitsNotMissed == Spec => []NoMissedExit
<1>1. IInv => NoMissedExit
  BY Zenon DEF IInv, ScanInv, NoMissedExit
<1> QED
  BY <1>1, Inductive, PTL

\* For every table, allocpid() gives out each pid once and freeproc() takes it back
\* before the slot is used again.
THEOREM UniquePids == Spec => []PidsUnique
<1>1. IInv => PidsUnique
  BY Zenon DEF IInv, PidInv, PidsUnique
<1> QED
  BY <1>1, Inductive, PTL

=============================================================================
