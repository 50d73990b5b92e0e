--------------------------------- MODULE Log ---------------------------------
(***************************************************************************)
(* The write-ahead log of kernel/log.c: begin_op, end_op, log_write,       *)
(* commit and recovery, over a disk on which a block write is the unit of  *)
(* atomicity, with a crash possible between any two steps.                 *)
(*                                                                         *)
(* One action is one critical section of log.lock, or one disk write with  *)
(* the memory accesses around it.  sleep(&log, &log.lock) releases the     *)
(* lock and blocks in one step (module Sched shows it may be read so). *)
(* The buffer cache appears as the copy of each block it holds, if any,    *)
(* and the pins that keep it there.                                        *)
(***************************************************************************)
EXTENDS Naturals, Sequences, FiniteSets, Functions

CONSTANTS Op,            \* threads of control that run FS system calls
          Block,         \* home blocks
          Val,           \* contents of a block
          MAXOPBLOCKS,   \* param.h: max # of blocks any FS op writes
          OpBlocks,      \* what an FS op really writes at most
          Absent         \* cache[b] when no buffer holds b

LOGSIZE == 3 * MAXOPBLOCKS      \* param.h
nlog == LOGSIZE                 \* mkfs.c: log blocks on disk, with the header

ASSUME LogAssumption == /\ MAXOPBLOCKS \in Nat \ {0}
                        /\ OpBlocks \in 1 .. MAXOPBLOCKS
                        /\ Absent \notin Val

VARIABLES
  home,         \* disk: the home blocks
  dlog,         \* disk: the log blocks after the header
  head,         \* disk: the block numbers in the log header
  cache,        \* the copy of each block in the buffer cache, or Absent
  pins,         \* bpin()s minus bunpin()s of each block
  lh,           \* log.lh, the blocks logged so far
  outstanding,  \* log.outstanding
  committing,   \* log.committing
  pc,           \* where each thread of control is
  buf,          \* the block whose buffer lock each op holds
  wrote,        \* the blocks each op has written
  tail,         \* the loop variable of write_log and install_trans
  rec,          \* where recovery is, "up" once it is over
  rtail         \* the loop variable of install_trans(1)

disk == <<home, dlog, head>>
mem == <<cache, pins, lh, outstanding, committing>>
ops == <<pc, buf, wrote, tail>>
vars == <<disk, mem, ops, rec, rtail>>

NoBlock == {}
Committing == {"commit", "write_log", "write_head", "install", "clear", "committed"}

\* Memory as the kernel finds it when it boots; the first process then calls
\* fsinit -> initlog -> recover_from_log before any FS system call can run.
Boot ==
  /\ cache = [b \in Block |-> Absent]
  /\ pins = [b \in Block |-> 0]
  /\ lh = <<>>
  /\ outstanding = 0
  /\ committing = FALSE
  /\ pc = [o \in Op |-> "idle"]
  /\ buf = [o \in Op |-> NoBlock]
  /\ wrote = [o \in Op |-> {}]
  /\ tail = [o \in Op |-> 1]
  /\ rec = "read_head"
  /\ rtail = 1

\* The disk as mkfs leaves it: some contents, an empty log.
Init == /\ home \in [Block -> Val]
        /\ \E v \in Val : dlog = [i \in 1 .. nlog - 1 |-> v]
        /\ head = <<>>
        /\ Boot
-----------------------------------------------------------------------------
Goto(o, l) == pc' = [pc EXCEPT ![o] = l]
Wakeup_none(o, l) == Goto(o, l)         \* mutant: nobody is woken

\* wakeup(&log): every op asleep in begin_op tries again.
Wakeup(o, l) ==
  pc' = [q \in Op |-> IF q = o THEN l
                      ELSE IF pc[q] = "asleep" THEN "begin" ELSE pc[q]]

MustWait == \/ committing
            \/ Len(lh) + (outstanding + 1) * MAXOPBLOCKS > LOGSIZE

begin_op(o) ==
  /\ rec = "up"
  /\ pc[o] \in {"idle", "begin"}
  /\ IF MustWait
     THEN Goto(o, "asleep") /\ UNCHANGED outstanding
     ELSE Goto(o, "op") /\ outstanding' = outstanding + 1
  /\ UNCHANGED <<disk, cache, pins, lh, committing, buf, wrote, tail, rec, rtail>>

\* bread(), which locks the buffer of b, and a change of its data.
modify(o, b, v) ==
  /\ pc[o] = "op"
  /\ \A q \in Op : b \notin buf[q]
  /\ Cardinality(wrote[o] \cup {b}) <= OpBlocks
  /\ cache' = [cache EXCEPT ![b] = v]
  /\ buf' = [buf EXCEPT ![o] = {b}]
  /\ wrote' = [wrote EXCEPT ![o] = @ \cup {b}]
  /\ Goto(o, "modified")
  /\ UNCHANGED <<disk, pins, lh, outstanding, committing, tail, rec, rtail>>

TooBig == Len(lh) >= LOGSIZE \/ Len(lh) >= nlog - 1
\* Log absorption: the block is in the log already.
Absorbed(b) == b \in Range(lh)

\* log_write() and the brelse() that follows it.  Its two panics are guards; an
\* op that met one would stay at "modified" and the sleepers would not wake.
log_write(o) ==
  /\ pc[o] = "modified"
  /\ ~TooBig
  /\ outstanding >= 1
  /\ \E b \in buf[o] :
       IF Absorbed(b)
       THEN UNCHANGED <<lh, pins>>
       ELSE /\ lh' = Append(lh, b)
            /\ pins' = [pins EXCEPT ![b] = @ + 1]
  /\ buf' = [buf EXCEPT ![o] = NoBlock]
  /\ Goto(o, "op")
  /\ UNCHANGED <<disk, cache, outstanding, committing, wrote, tail, rec, rtail>>

end_op(o) ==
  /\ pc[o] = "op"
  /\ ~committing
  /\ outstanding' = outstanding - 1
  /\ IF outstanding' = 0
     THEN committing' = TRUE /\ Goto(o, "commit")
     ELSE UNCHANGED committing /\ Wakeup(o, "idle")
  /\ wrote' = [wrote EXCEPT ![o] = {}]
  /\ UNCHANGED <<disk, cache, pins, lh, buf, tail, rec, rtail>>
-----------------------------------------------------------------------------
(* commit(), called without log.lock by the op that ended last.            *)

commit(o) ==
  /\ pc[o] = "commit"
  /\ Goto(o, IF Len(lh) > 0 THEN "write_log" ELSE "committed")
  /\ UNCHANGED <<disk, mem, buf, wrote, tail, rec, rtail>>

\* What bread() finds in, or brings into, the cache.
View(b) == IF cache[b] = Absent THEN home[b] ELSE cache[b]

\* The loop of a thread that goes on to label l after its last iteration.
Loop(o, l) ==
  IF tail[o] < Len(lh)
  THEN tail' = [tail EXCEPT ![o] = @ + 1] /\ UNCHANGED pc
  ELSE tail' = [tail EXCEPT ![o] = 1] /\ Goto(o, l)

write_log(o) ==
  /\ pc[o] = "write_log"
  /\ LET b == lh[tail[o]] IN
       /\ dlog' = [dlog EXCEPT ![tail[o]] = View(b)]
       /\ cache' = [cache EXCEPT ![b] = View(b)]
  /\ Loop(o, "write_head")
  /\ UNCHANGED <<home, head, pins, lh, outstanding, committing, buf, wrote, rec, rtail>>
\* mutant: the header is erased before the blocks are installed
write_head_noinstall(o) ==
  /\ pc[o] = "write_head"
  /\ head' = lh
  /\ Goto(o, "clear")
  /\ UNCHANGED <<home, dlog, mem, buf, wrote, tail, rec, rtail>>

\* The real commit: the header reaches the disk.
write_head(o) ==
  /\ pc[o] = "write_head"
  /\ head' = lh
  /\ Goto(o, "install")
  /\ UNCHANGED <<home, dlog, mem, buf, wrote, tail, rec, rtail>>

install_trans(o) ==
  /\ pc[o] = "install"
  /\ LET b == lh[tail[o]] IN
       /\ home' = [home EXCEPT ![b] = dlog[tail[o]]]
       /\ cache' = [cache EXCEPT ![b] = dlog[tail[o]]]
       /\ pins' = [pins EXCEPT ![b] = @ - 1]
  /\ Loop(o, "clear")
  /\ UNCHANGED <<dlog, head, lh, outstanding, committing, buf, wrote, rec, rtail>>

\* log.lh.n = 0 and write_head()
clear_head(o) ==
  /\ pc[o] = "clear"
  /\ lh' = <<>>
  /\ head' = <<>>
  /\ Goto(o, "committed")
  /\ UNCHANGED <<home, dlog, cache, pins, outstanding, committing, buf, wrote, tail, rec, rtail>>

\* The last critical section of end_op().
committed(o) ==
  /\ pc[o] = "committed"
  /\ committing' = FALSE
  /\ Wakeup(o, "idle")
  /\ UNCHANGED <<disk, cache, pins, lh, outstanding, buf, wrote, tail, rec, rtail>>
-----------------------------------------------------------------------------
(* recover_from_log()                                                      *)

read_head ==
  /\ rec = "read_head"
  /\ lh' = head
  /\ rec' = IF head = <<>> THEN "clear" ELSE "install"
  /\ UNCHANGED <<disk, cache, pins, outstanding, committing, ops, rtail>>

\* install_trans(1), which unpins nothing
recover_install ==
  /\ rec = "install"
  /\ LET b == lh[rtail] IN
       /\ home' = [home EXCEPT ![b] = dlog[rtail]]
       /\ cache' = [cache EXCEPT ![b] = dlog[rtail]]
  /\ IF rtail < Len(lh)
     THEN rtail' = rtail + 1 /\ UNCHANGED rec
     ELSE rtail' = 1 /\ rec' = "clear"
  /\ UNCHANGED <<dlog, head, pins, lh, outstanding, committing, ops>>

recover_clear ==
  /\ rec = "clear"
  /\ lh' = <<>>
  /\ head' = <<>>
  /\ rec' = "up"
  /\ UNCHANGED <<home, dlog, cache, pins, outstanding, committing, ops, rtail>>
-----------------------------------------------------------------------------
(* The buffer cache: any thread may read a block, and bget() recycles a    *)
(* buffer that nobody has locked or pinned.                                *)

bread(b) ==
  /\ rec = "up"
  /\ cache[b] = Absent
  /\ cache' = [cache EXCEPT ![b] = home[b]]
  /\ UNCHANGED <<disk, pins, lh, outstanding, committing, ops, rec, rtail>>
\* refcnt is 0: no user and no pin.
Reusable_pinned(b) == \A o \in Op : b \notin buf[o]      \* mutant: pins ignored
Reusable(b) == pins[b] = 0 /\ \A o \in Op : b \notin buf[o]

recycle(b) ==
  /\ cache[b] # Absent
  /\ Reusable(b)
  /\ cache' = [cache EXCEPT ![b] = Absent]
  /\ UNCHANGED <<disk, pins, lh, outstanding, committing, ops, rec, rtail>>

\* Power loss or panic: only the disk survives.
crash ==
  /\ cache' = [b \in Block |-> Absent]
  /\ pins' = [b \in Block |-> 0]
  /\ lh' = <<>>
  /\ outstanding' = 0
  /\ committing' = FALSE
  /\ pc' = [o \in Op |-> "idle"]
  /\ buf' = [o \in Op |-> NoBlock]
  /\ wrote' = [o \in Op |-> {}]
  /\ tail' = [o \in Op |-> 1]
  /\ rec' = "read_head"
  /\ rtail' = 1
  /\ UNCHANGED disk

Step(o) == \/ begin_op(o) \/ log_write(o) \/ end_op(o)
           \/ commit(o) \/ write_log(o) \/ write_head(o)
           \/ install_trans(o) \/ clear_head(o) \/ committed(o)
           \/ \E b \in Block, v \in Val : modify(o, b, v)

Recover == read_head \/ recover_install \/ recover_clear

Next == \/ \E o \in Op : Step(o)
        \/ Recover
        \/ \E b \in Block : bread(b) \/ recycle(b)
        \/ crash

Spec == Init /\ [][Next]_vars

\* Every thread that is not blocked keeps running, recovery included, and every
\* FS system call comes to its end_op(); nothing says that one ever begins.
Fairness ==
  /\ WF_vars(Recover)
  /\ \A o \in Op :
       /\ SF_vars(end_op(o))
       /\ WF_vars(\/ log_write(o)
                  \/ pc[o] = "begin" /\ begin_op(o)
                  \/ pc[o] \in Committing /\ Step(o))

FairSpec == Spec /\ Fairness
-----------------------------------------------------------------------------
(* What a reboot from the disk as it is now would install.                 *)
Recovered ==
  [b \in Block |->
     IF b \in Range(head)
     THEN dlog[CHOOSE i \in DOMAIN head :
                 head[i] = b /\ \A j \in DOMAIN head : head[j] = b => j <= i]
     ELSE home[b]]

Txn == INSTANCE TxnDisk WITH
         db <- Recovered,
         view <- IF rec = "up" THEN [b \in Block |-> View(b)] ELSE Recovered,
         active <- {o \in Op : pc[o] \in {"op", "modified"}}

\* Crash safety.  Through any interleaving of FS operations, commit steps,
\* cache evictions and crashes (also during recovery), what recovery would
\* restore changes only by one atomic commit of everything written by operations
\* that have all ended; and a reader never sees a block lose an update.
Atomic == Txn!Spec

\* The commit that end_op() waits for is on disk at its home blocks when end_op()
\* returns (log.c: commit() runs to its end before committing is cleared).
DurableOnReturn ==
  [][\A o \in Op : pc[o] = "committed" /\ pc'[o] = "idle" /\ rec' = "up"
        => \A b \in Block : View(b) = home[b] /\ Recovered[b] = home[b]]_vars

\* Operations that sleep in begin_op(), for log space or for a commit, are woken, all
\* together (wakeup(&log) in end_op()), or a crash ends them.
SleepersWake == (\E o \in Op : pc[o] = "asleep") ~> (\A o \in Op : pc[o] # "asleep")

=============================================================================
