------------------------------- MODULE BCache -------------------------------
(***************************************************************************)
(* The buffer cache, kernel/bio.c, and the sleep locks of its buffers,     *)
(* kernel/sleeplock.c.                                                     *)
(*                                                                         *)
(* A section of code under bcache.lock or under the spin lock of a sleep   *)
(* lock is one action; sleep() and wakeup() are atomic (module Sched).     *)
(* A client has one buffer at a time.  Like every client in the kernel it  *)
(* does not give a changed buffer back without writing it or pinning it,   *)
(* and unpins it only after writing it.                                    *)
(***************************************************************************)
EXTENDS Naturals, FiniteSets, Sequences, Functions

CONSTANTS Proc, Block, Value,
          Buf,           \* bcache.buf, NBUF of them
          MaxPins,       \* how many blocks the log pins
          NoProc, NoBlock, NoBuf

ASSUME BCacheAssumption == /\ IsFiniteSet(Proc) /\ IsFiniteSet(Buf)
                           /\ MaxPins \in Nat
                           /\ NoProc \notin Proc
                           /\ NoBlock \notin Block
                           /\ NoBuf \notin Buf

VARIABLES
  blockno, valid, refcnt, data,   \* struct buf
  locked,    \* the holder of b->lock (lk->locked and lk->pid)
  lru,       \* the list of all buffers from head.next on
  disk,
  logged,    \* the blocks pinned by the log
  pc, b      \* where each process is, and its buffer

vars == <<blockno, valid, refcnt, data, locked, lru, disk, logged, pc, b>>

\* binit()
Init ==
  /\ blockno = [k \in Buf |-> NoBlock]
  /\ valid = [k \in Buf |-> FALSE]
  /\ refcnt = [k \in Buf |-> 0]
  /\ \E v \in Value : data = [k \in Buf |-> v] /\ disk = [d \in Block |-> v]
  /\ locked = [k \in Buf |-> NoProc]
  /\ lru = CHOOSE s \in [1 .. Cardinality(Buf) -> Buf] : IsInjective(s)
  /\ logged = {}
  /\ pc = [p \in Proc |-> "idle"]
  /\ b = [p \in Proc |-> NoBuf]

Goto(p, l) == pc' = [pc EXCEPT ![p] = l]
-----------------------------------------------------------------------------
Cached(d) == {k \in Buf : blockno[k] = d}
Unused == {j \in DOMAIN lru : refcnt[lru[j]] = 0}

\* The first unused buffer from head.prev on.
Victim == lru[CHOOSE j \in Unused : \A l \in Unused : l <= j]

bget_hit(p, d) ==
  /\ pc[p] = "idle"
  /\ \E k \in Cached(d) :
       /\ refcnt' = [refcnt EXCEPT ![k] = @ + 1]
       /\ b' = [b EXCEPT ![p] = k]
  /\ Goto(p, "acquire")
  /\ UNCHANGED <<blockno, valid, data, locked, lru, disk, logged>>

\* mutant: valid is not reset
bget_recycle_valid(p, d) ==
  /\ pc[p] = "idle"
  /\ Cached(d) = {} /\ Unused # {}
  /\ blockno' = [blockno EXCEPT ![Victim] = d]
  /\ refcnt' = [refcnt EXCEPT ![Victim] = 1]
  /\ b' = [b EXCEPT ![p] = Victim]
  /\ Goto(p, "acquire")
  /\ UNCHANGED <<valid, data, locked, lru, disk, logged>>

\* With no unused buffer it panics: the guard Unused # {}, which always holds while
\* the buffers outnumber the pins and the processes, as in param.h (NBUF).
bget_recycle(p, d) ==
  /\ pc[p] = "idle"
  /\ Cached(d) = {} /\ Unused # {}
  /\ blockno' = [blockno EXCEPT ![Victim] = d]
  /\ valid' = [valid EXCEPT ![Victim] = FALSE]
  /\ refcnt' = [refcnt EXCEPT ![Victim] = 1]
  /\ b' = [b EXCEPT ![p] = Victim]
  /\ Goto(p, "acquire")
  /\ UNCHANGED <<data, locked, lru, disk, logged>>

\* acquiresleep(&b->lock): a turn of its loop
acquiresleep(p) ==
  /\ pc[p] = "acquire"
  /\ IF locked[b[p]] # NoProc
     THEN Goto(p, "asleep") /\ UNCHANGED locked
     ELSE Goto(p, "bread") /\ locked' = [locked EXCEPT ![b[p]] = p]
  /\ UNCHANGED <<blockno, valid, refcnt, data, lru, disk, logged, b>>

\* bread(): a buffer that is not valid is filled by virtio_disk_rw() ...
bread(p) ==
  /\ pc[p] = "bread"
  /\ IF valid[b[p]]
     THEN Goto(p, "held") /\ UNCHANGED data
     ELSE Goto(p, "valid") /\ data' = [data EXCEPT ![b[p]] = disk[blockno[b[p]]]]
  /\ UNCHANGED <<blockno, valid, refcnt, locked, lru, disk, logged, b>>

\* ... and then marked.
bread_valid(p) ==
  /\ pc[p] = "valid"
  /\ valid' = [valid EXCEPT ![b[p]] = TRUE]
  /\ Goto(p, "held")
  /\ UNCHANGED <<blockno, refcnt, data, locked, lru, disk, logged, b>>
-----------------------------------------------------------------------------
\* The client changes b->data.
change(p, v) ==
  /\ pc[p] \in {"held", "changed"}
  /\ data' = [data EXCEPT ![b[p]] = v]
  /\ Goto(p, "changed")
  /\ UNCHANGED <<blockno, valid, refcnt, locked, lru, disk, logged, b>>

holdingsleep(p) == locked[b[p]] = p

bwrite(p) ==
  /\ pc[p] \in {"held", "changed"}
  /\ holdingsleep(p)
  /\ disk' = [disk EXCEPT ![blockno[b[p]]] = data[b[p]]]
  /\ Goto(p, "written")
  /\ UNCHANGED <<blockno, valid, refcnt, data, locked, lru, logged, b>>

\* bpin() as log_write() calls it, once for a block of the transaction
bpin(p) ==
  /\ pc[p] = "changed"
  /\ LET d == blockno[b[p]] IN
       IF d \in logged
       THEN UNCHANGED <<refcnt, logged>>
       ELSE /\ Cardinality(logged) < MaxPins
            /\ refcnt' = [refcnt EXCEPT ![b[p]] = @ + 1]
            /\ logged' = logged \cup {d}
  /\ Goto(p, "held")
  /\ UNCHANGED <<blockno, valid, data, locked, lru, disk, b>>

\* bunpin() as install_trans() calls it, after bwrite()
bunpin(p) ==
  /\ pc[p] = "written"
  /\ blockno[b[p]] \in logged
  /\ refcnt' = [refcnt EXCEPT ![b[p]] = @ - 1]
  /\ logged' = logged \ {blockno[b[p]]}
  /\ UNCHANGED <<blockno, valid, data, locked, lru, disk, pc, b>>

\* mutant: nobody is woken
brelse_quiet(p) ==
  /\ pc[p] \in {"held", "written"}
  /\ holdingsleep(p)
  /\ locked' = [locked EXCEPT ![b[p]] = NoProc]
  /\ Goto(p, "released")
  /\ UNCHANGED <<blockno, valid, refcnt, data, lru, disk, logged, b>>

\* brelse(): releasesleep(), which wakes every process asleep on the lock ...
brelse(p) ==
  /\ pc[p] \in {"held", "written"}
  /\ holdingsleep(p)
  /\ locked' = [locked EXCEPT ![b[p]] = NoProc]
  /\ pc' = [q \in Proc |-> IF q = p THEN "released"
                           ELSE IF pc[q] = "asleep" /\ b[q] = b[p] THEN "acquire" ELSE pc[q]]
  /\ UNCHANGED <<blockno, valid, refcnt, data, lru, disk, logged, b>>

\* Where a buffer is in the list.
Place(k) == CHOOSE j \in DOMAIN lru : lru[j] = k

\* The list without its member at j, whose neighbours are linked to each other.
Unlinked(s, j) == SubSeq(s, 1, j - 1) \o SubSeq(s, j + 1, Len(s))

\* ... then, under bcache.lock, the count and the list.
brelse_ref(p) ==
  /\ pc[p] = "released"
  /\ refcnt' = [refcnt EXCEPT ![b[p]] = @ - 1]
  /\ lru' = IF refcnt'[b[p]] = 0 THEN <<b[p]>> \o Unlinked(lru, Place(b[p])) ELSE lru
  /\ b' = [b EXCEPT ![p] = NoBuf]
  /\ Goto(p, "idle")
  /\ UNCHANGED <<blockno, valid, data, locked, disk, logged>>

Next == \E p \in Proc :
          \/ acquiresleep(p) \/ bread(p) \/ bread_valid(p)
          \/ bwrite(p) \/ bpin(p) \/ bunpin(p)
          \/ brelse(p) \/ brelse_ref(p)
          \/ \E d \in Block : bget_hit(p, d) \/ bget_recycle(p, d)
          \/ \E v \in Value : change(p, v)

Spec == Init /\ [][Next]_vars

-----------------------------------------------------------------------------
Has(p) == pc[p] \in {"bread", "valid", "held", "changed", "written"}

S == INSTANCE BlockStore WITH
       val <- [d \in Block |->
                 IF \E k \in Cached(d) : valid[k]
                 THEN data[CHOOSE k \in Cached(d) : valid[k]]
                 ELSE disk[d]],
       owner <- [d \in Block |->
                   IF \E k \in Cached(d) : locked[k] # NoProc
                   THEN locked[CHOOSE k \in Cached(d) : locked[k] # NoProc]
                   ELSE NoProc]

\* The cache is invisible: whatever it recycles and when, clients see a store in
\* which a block has one value and one owner at a time.
IsStore == S!Spec

\* A sleeper has somebody to wake it: while a process sleeps on a buffer's lock, the
\* lock is held.
SleeperHasHolder ==
  \A p \in Proc : pc[p] = "asleep" => locked[b[p]] # NoProc
=============================================================================
