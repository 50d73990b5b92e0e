----------------------------- MODULE VirtioDisk -----------------------------
(***************************************************************************)
(* kernel/virtio_disk.c: virtio_disk_rw() called by several threads, the   *)
(* completion interrupt virtio_disk_intr(), and the device, which fetches  *)
(* descriptor chains from the avail ring and finishes them in any order.   *)
(*                                                                         *)
(* A thread has the sleep-lock of the buffer it passes, and a block has    *)
(* one buffer (module BCache), so a thread stands for its buffer and for   *)
(* the block of it.  A stretch of code between acquire(&disk.vdisk_lock)   *)
(* and its release or sleep() is one action, but the loop of the interrupt *)
(* handler takes one per iteration: the device runs during it.  A ring     *)
(* entry that was consumed, and the command of a free descriptor, are      *)
(* dead: they are set back to their initial values.                        *)
(***************************************************************************)
EXTENDS Naturals, FiniteSets, Sequences, FiniteSetsExt, Functions

CONSTANTS Thread,
          Data,     \* what the block of each thread can hold
          NUM,      \* descriptors, and entries of each ring
          UINT16,   \* the ring indices are uint16: 2^16
          Nobody    \* a null struct buf *

ASSUME VirtioAssumption == /\ NUM \in Nat /\ NUM >= 3
                           /\ UINT16 \in Nat \ {0} /\ UINT16 % NUM = 0
                           /\ Nobody \notin Thread

VARIABLES
  free, desc, ops, info, used_idx,   \* struct disk
  avail, used,    \* the rings: [ring, idx]
  next_avail,     \* device: how far it has read the avail ring
  fetched,        \* device: chains it works on
  irq,            \* device: an interrupt is pending
  intr,           \* the handler holds vdisk_lock, in its loop
  disk,           \* b->disk of each buffer
  buf,            \* b->data of each buffer
  platter,        \* what the blocks hold
  pc, write, idx  \* each thread: where it is, its argument, idx[0 .. 2]

queue == <<free, desc, ops, info, avail>>
device == <<next_avail, fetched, used, irq, platter>>
vars == <<queue, device, used_idx, intr, disk, buf, pc, write, idx>>

Desc == 0 .. NUM - 1
NoDesc == [addr |-> Nobody, next |-> 0, flags |-> {}]
NoOp == [type |-> "IN", sector |-> Nobody]
BUSY == 255       \* the status before the device writes 0

\* virtio_disk_init()
Init ==
  /\ free = Desc
  /\ desc = [i \in Desc |-> NoDesc]
  /\ ops = [i \in Desc |-> NoOp]
  /\ info = [i \in Desc |-> [b |-> Nobody, status |-> 0]]
  /\ used_idx = 0
  /\ avail = [ring |-> [i \in Desc |-> 0], idx |-> 0]
  /\ used = [ring |-> [i \in Desc |-> 0], idx |-> 0]
  /\ next_avail = 0 /\ fetched = {} /\ irq = FALSE /\ intr = FALSE
  /\ disk = [t \in Thread |-> FALSE]
  /\ buf = [t \in Thread |-> Min(Data[t])] /\ platter = buf
  /\ pc = [t \in Thread |-> "idle"]
  /\ write = [t \in Thread |-> FALSE]
  /\ idx = [t \in Thread |-> <<>>]

\* The threads W of wakeup() run again, t goes to l.
Step(t, l, W) ==
  pc' = [u \in Thread |-> IF u = t THEN l
                          ELSE IF u \notin W THEN pc[u]
                          ELSE IF pc[u] = "sleep_free" THEN "alloc" ELSE "check"]

\* The threads asleep on &disk.free[0], and on a buffer.
FreeSleepers == {t \in Thread : pc[t] = "sleep_free"}
BufSleepers == {t \in Thread : pc[t] = "sleep_buf"}
-----------------------------------------------------------------------------
\* virtio_disk_rw() is called by bwrite() for a buffer that was changed, or by
\* bread() for one that was recycled
call(t, w, v) ==
  /\ pc[t] = "idle"
  /\ write' = [write EXCEPT ![t] = w]
  /\ buf' = [buf EXCEPT ![t] = v]
  /\ Step(t, "alloc", {})
  /\ UNCHANGED <<queue, device, used_idx, intr, disk, idx>>

\* mutant: failing to allocate leaves the descriptors it did get allocated.
alloc_fail_leak(t) ==
  /\ pc[t] = "alloc" /\ ~intr /\ Cardinality(free) < 3
  /\ free' = {}
  /\ Step(t, "sleep_free", {})
  /\ UNCHANGED <<desc, ops, info, avail, device, used_idx, intr, disk, buf, write, idx>>

\* alloc3_desc() runs out and frees what it got, which wakes the other
\* sleepers; then sleep(&disk.free[0])
alloc_fail(t) ==
  /\ pc[t] = "alloc" /\ ~intr /\ Cardinality(free) < 3
  /\ Step(t, "sleep_free", IF free = {} THEN {} ELSE FreeSleepers)
  /\ UNCHANGED <<queue, device, used_idx, intr, disk, buf, write, idx>>

\* alloc3_desc(): alloc_desc() gives the lowest free descriptor, three times.
alloc3_desc ==
  LET a == Min(free)
      b == Min(free \ {a})
  IN <<a, b, Min(free \ {a, b})>>

\* mutant: the data descriptor is not marked as one the device writes.
DataFlags_in(w) == {"NEXT"}

\* The flags of the second descriptor.
DataFlags(w) == IF w THEN {"NEXT"} ELSE {"WRITE", "NEXT"}

\* virtio_disk_rw() from the allocation to sleep(b): the chain is formatted
\* and offered to the device.
submit(t) ==
  /\ pc[t] = "alloc" /\ ~intr /\ Cardinality(free) >= 3
  /\ LET i == alloc3_desc IN
     /\ idx' = [idx EXCEPT ![t] = i]
     /\ free' = free \ Range(i)
     /\ ops' = [ops EXCEPT ![i[1]] = [type |-> IF write[t] THEN "OUT" ELSE "IN",
                                      sector |-> t]]
     /\ desc' = [desc EXCEPT
          ![i[1]] = [addr |-> i[1], next |-> i[2], flags |-> {"NEXT"}],
          ![i[2]] = [addr |-> t, next |-> i[3], flags |-> DataFlags(write[t])],
          ![i[3]] = [addr |-> i[1], next |-> 0, flags |-> {"WRITE"}]]
     /\ info' = [info EXCEPT ![i[1]] = [b |-> t, status |-> BUSY]]
     /\ avail' = [ring |-> [avail.ring EXCEPT ![avail.idx % NUM] = i[1]],
                  idx |-> (avail.idx + 1) % UINT16]
  /\ disk' = [disk EXCEPT ![t] = TRUE]
  /\ Step(t, "sleep_buf", {})
  /\ UNCHANGED <<device, used_idx, intr, buf, write>>

\* mutant: if(b->disk == 1) where the code has while.
Finished_if(t) == TRUE

Finished(t) == ~disk[t]

\* Not done yet: sleep(b) again.
again(t) ==
  /\ pc[t] = "check" /\ ~intr /\ ~Finished(t)
  /\ Step(t, "sleep_buf", {})
  /\ UNCHANGED <<queue, device, used_idx, intr, disk, buf, write, idx>>

\* The descriptors free_chain(i) frees.
free_chain(i) ==
  LET j == desc[i].next
      k == desc[j].next
  IN {i} \cup (IF "NEXT" \in desc[i].flags
               THEN {j} \cup (IF "NEXT" \in desc[j].flags THEN {k} ELSE {})
               ELSE {})

\* Who free_desc() wakes.
Freed == FreeSleepers

\* The request is finished: the chain is freed and the call returns.
finish(t) ==
  /\ pc[t] = "check" /\ ~intr /\ Finished(t)
  /\ info' = [info EXCEPT ![idx[t][1]].b = Nobody]
  /\ LET c == free_chain(idx[t][1]) IN
     /\ free' = free \cup c
     /\ desc' = [i \in Desc |-> IF i \in c THEN NoDesc ELSE desc[i]]
  /\ ops' = [ops EXCEPT ![idx[t][1]] = NoOp]
  /\ idx' = [idx EXCEPT ![t] = <<>>]
  /\ Step(t, "idle", Freed)
  /\ UNCHANGED <<avail, device, used_idx, intr, disk, buf, write>>

\* kill() of the thread's process: it runs again before the event came.
kill(t) ==
  /\ pc[t] \in {"sleep_free", "sleep_buf"}
  /\ pc' = [pc EXCEPT ![t] = IF @ = "sleep_free" THEN "alloc" ELSE "check"]
  /\ UNCHANGED <<queue, device, used_idx, intr, disk, buf, write, idx>>
-----------------------------------------------------------------------------
\* The device takes a chain from the avail ring.
fetch ==
  /\ next_avail # avail.idx
  /\ fetched' = fetched \cup {avail.ring[next_avail % NUM]}
  /\ next_avail' = (next_avail + 1) % UINT16
  /\ avail' = [avail EXCEPT !.ring[next_avail % NUM] = 0]
  /\ UNCHANGED <<free, desc, ops, info, used, irq, platter, used_idx, intr, disk, buf, pc, write, idx>>

\* The device does the transfer the chain at i describes, writes the status,
\* adds i to the used ring and raises its interrupt.
complete(i) ==
  LET d == desc[desc[i].next]
      s == ops[desc[i].addr].sector
  IN /\ i \in fetched
     /\ fetched' = fetched \ {i}
     /\ IF ops[desc[i].addr].type = "OUT"
        THEN platter' = [platter EXCEPT ![s] = buf[d.addr]] /\ UNCHANGED buf
        ELSE /\ buf' = IF "WRITE" \in d.flags THEN [buf EXCEPT ![d.addr] = platter[s]] ELSE buf
             /\ UNCHANGED platter
     /\ info' = [info EXCEPT ![desc[d.next].addr].status = 0]
     /\ used' = [ring |-> [used.ring EXCEPT ![used.idx % NUM] = i],
                 idx |-> (used.idx + 1) % UINT16]
     /\ irq' = TRUE
     /\ UNCHANGED <<free, desc, ops, avail, next_avail, used_idx, intr, disk, pc, write, idx>>
-----------------------------------------------------------------------------
\* virtio_disk_intr() takes the lock and acknowledges the interrupt.
intr_ack ==
  /\ irq /\ ~intr
  /\ intr' = TRUE
  /\ irq' = FALSE
  /\ UNCHANGED <<queue, next_avail, fetched, used, platter, used_idx, disk, buf, pc, write, idx>>

\* The chain of the next used entry.
Id == used.ring[used_idx % NUM]

\* One iteration of the handler's loop, and wakeup(b).
intr_loop ==
  /\ intr /\ used_idx # used.idx
  /\ info[Id].status = 0 /\ info[Id].b # Nobody
  /\ disk' = [disk EXCEPT ![info[Id].b] = FALSE]
  /\ pc' = [t \in Thread |-> IF t = info[Id].b /\ pc[t] = "sleep_buf" THEN "check" ELSE pc[t]]
  /\ used_idx' = (used_idx + 1) % UINT16
  /\ used' = [used EXCEPT !.ring[used_idx % NUM] = 0]
  /\ UNCHANGED <<queue, next_avail, fetched, irq, platter, intr, buf, write, idx>>

\* mutant: if(disk.used_idx != disk.used->idx) where the code has while.
LoopEnds_if == TRUE

LoopEnds == used_idx = used.idx

\* The loop ends.
intr_done ==
  /\ intr /\ LoopEnds
  /\ intr' = FALSE
  /\ UNCHANGED <<queue, device, used_idx, disk, buf, pc, write, idx>>
-----------------------------------------------------------------------------
Next == \/ \E t \in Thread : \/ alloc_fail(t) \/ submit(t) \/ again(t) \/ finish(t) \/ kill(t)
                             \/ \E w \in BOOLEAN, v \in Data[t] : call(t, w, v)
        \/ fetch \/ intr_ack \/ intr_loop \/ intr_done
        \/ \E i \in Desc : complete(i)

Spec == Init /\ [][Next]_vars
-----------------------------------------------------------------------------
\* The chains the device has been offered and has not finished.
Unfinished == fetched \cup {i \in Desc : \E t \in Thread : idx[t] # <<>> /\ i = idx[t][1] /\ disk[t]
                                                           /\ info[i].status = BUSY}

\* A chain is not taken apart while the device can still follow it: its three
\* descriptors are allocated, to one thread, which still waits, and lead to that
\* thread's buffer and status byte.  virtio_disk_rw() frees them only when b->disk
\* is 0, whatever woke it.
ChainIntact ==
  \A i \in Unfinished :
    LET d == desc[i].next IN
    \E t \in Thread : /\ disk[t] /\ pc[t] \in {"sleep_buf", "check"}
                      /\ idx[t] = <<i, d, desc[d].next>>
                      /\ Range(idx[t]) \cap free = {}
                      /\ desc[d].addr = t /\ info[i].b = t

\* When virtio_disk_rw() is about to return, the transfer has happened: the
\* buffer holds what the block holds.
TransferDone ==
  \A t \in Thread : pc[t] = "check" /\ Finished(t) => buf[t] = platter[t]

\* Every descriptor is free or part of the chain of one request, and nobody is
\* asleep on &disk.free[0] unless a request is under way that will free some.
DescriptorsAccounted ==
  /\ free = Desc \ UNION {Range(idx[t]) : t \in Thread}
  /\ FreeSleepers # {} => \E t \in Thread : idx[t] # <<>> \/ pc[t] = "alloc"

\* No completion is lost between the acknowledgement, the loop over the used
\* ring and the end of the handler: a thread asleep on its buffer still has
\* b->disk set, and its chain is on its way to the device, with the device, or in
\* the used ring with an interrupt pending or being handled.  And what the handler
\* finds in the used ring is the chain of a thread that waits, with status 0: it
\* neither panics nor follows an info[id].b that is 0.
CompletionSeen ==
  LET InRing(r, from, to, i) ==
        \E k \in 0 .. NUM - 1 : (to + UINT16 - from) % UINT16 > k /\ r[(from + k) % NUM] = i
      Done(i) == InRing(used.ring, used_idx, used.idx, i)
  IN /\ \A t \in BufSleepers :
          /\ disk[t]
          /\ \/ InRing(avail.ring, next_avail, avail.idx, idx[t][1])
             \/ idx[t][1] \in fetched
             \/ (irq \/ intr) /\ Done(idx[t][1])
     /\ \A i \in Desc : Done(i) => /\ info[i].status = 0
                                   /\ info[i].b # Nobody /\ disk[info[i].b]
=============================================================================
