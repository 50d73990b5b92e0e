-------------------------------- MODULE Pipe --------------------------------
(***************************************************************************)
(* kernel/pipe.c: pipewrite, piperead and pipeclose on one pipe, used by   *)
(* processes that each have one of its ends open.                          *)
(*                                                                         *)
(* pi->lock is held from action to action while a process is in one of its *)
(* loops, so kill(), which does not take it, can come in between.  sleep() *)
(* and wakeup() are atomic (module Sched).                                 *)
(***************************************************************************)
EXTENDS Naturals, Sequences

CONSTANTS Writer, Reader,   \* the processes with a write or a read end
          Byte,
          PIPESIZE,
          UINT,             \* the counters are unsigned: 2^32
          MaxN,             \* bound on the count given to read() and write()
          NoProc

ASSUME PipeAssumption == /\ PIPESIZE \in Nat \ {0}
                         /\ UINT \in Nat /\ UINT % PIPESIZE = 0 /\ UINT > PIPESIZE
                         /\ MaxN \in Nat
                         /\ NoProc \notin Writer \cup Reader
                         /\ Writer \cap Reader = {}

User == Writer \cup Reader

\* Who shares p's end.
Side(p) == IF p \in Writer THEN Writer ELSE Reader

VARIABLES
  data, nread, nwrite, readopen, writeopen,   \* struct pipe
  freed,    \* kfree() of the pipe
  lock,     \* the process that holds pi->lock
  open,     \* the processes that have their end open
  killed,   \* p->killed
  pc, n, i, \* where each process is, its argument n and its local i
  got       \* the last byte a reader took

ends == <<readopen, writeopen, freed, open>>
ring == <<data, nread, nwrite, got>>
vars == <<ring, ends, lock, killed, pc, n, i>>

\* pipealloc(), after which fork() has given every process its end.
Init ==
  /\ \E b \in Byte : data = [k \in 0 .. PIPESIZE - 1 |-> b] /\ got = b
  /\ nread = 0 /\ nwrite = 0
  /\ readopen = TRUE /\ writeopen = TRUE
  /\ freed = FALSE
  /\ lock = NoProc
  /\ open = User
  /\ killed = [p \in User |-> FALSE]
  /\ pc = [p \in User |-> "idle"]
  /\ n = [p \in User |-> 0]
  /\ i = [p \in User |-> 0]

Holds(p, l) == lock = p /\ pc[p] = l
Goto(p, l) == pc' = [pc EXCEPT ![p] = l]

\* release(&pi->lock) and the end of the call, and of its local variables.
Return(p) == /\ lock' = NoProc
             /\ n' = [n EXCEPT ![p] = 0]
             /\ i' = [i EXCEPT ![p] = 0]

\* wakeup() of everybody of the other side who is asleep, by p, which goes to l.
Wakeup(p, l) ==
  pc' = [r \in User |-> IF r = p THEN l
                        ELSE IF r \notin Side(p) /\ pc[r] = "asleep" THEN "acquire" ELSE pc[r]]
-----------------------------------------------------------------------------
\* read() or write() of m bytes
call(p, m) ==
  /\ pc[p] = "idle" /\ p \in open /\ ~killed[p]
  /\ n' = [n EXCEPT ![p] = m]
  /\ i' = [i EXCEPT ![p] = 0]
  /\ Goto(p, "acquire")
  /\ UNCHANGED <<ring, ends, lock, killed>>

\* acquire(&pi->lock), on entry and at the end of sleep()
acquire(p) ==
  /\ pc[p] = "acquire" /\ lock = NoProc
  /\ lock' = p
  /\ Goto(p, "loop")
  /\ UNCHANGED <<ring, ends, killed, n, i>>

\* sleep(&pi->nread or &pi->nwrite, &pi->lock)
sleep(p) ==
  /\ Holds(p, "sleep")
  /\ lock' = NoProc
  /\ Goto(p, "asleep")
  /\ UNCHANGED <<ring, ends, killed, n, i>>
-----------------------------------------------------------------------------
\* The call goes on with pi->lock held.
Stay == UNCHANGED <<lock, n, i>>

\* mutant: the sum does not wrap.
Full_nowrap == nwrite = nread + PIPESIZE

Full == nwrite = (nread + PIPESIZE) % UINT

\* The head of the loop of pipewrite(): the end, an error, full, or a byte.
write_loop(p) ==
  /\ p \in Writer /\ Holds(p, "loop")
  /\ \/ i[p] >= n[p] /\ Goto(p, "done") /\ Stay
     \/ i[p] < n[p] /\ (~readopen \/ killed[p]) /\ Goto(p, "idle") /\ Return(p)
     \/ /\ i[p] < n[p] /\ readopen /\ ~killed[p]
        /\ IF Full THEN Wakeup(p, "sleep") ELSE Goto(p, "copy")
        /\ Stay
  /\ UNCHANGED <<ring, ends, killed>>

write_byte(p, b) ==
  /\ p \in Writer /\ Holds(p, "copy")
  /\ data' = [data EXCEPT ![nwrite % PIPESIZE] = b]
  /\ nwrite' = (nwrite + 1) % UINT
  /\ i' = [i EXCEPT ![p] = @ + 1]
  /\ Goto(p, "loop")
  /\ UNCHANGED <<nread, got, ends, lock, killed, n>>

\* copyin() fails: break
write_fault(p) ==
  /\ p \in Writer /\ Holds(p, "copy")
  /\ Goto(p, "done")
  /\ UNCHANGED <<ring, ends, lock, killed, n, i>>

\* mutant: the readers are not woken.
write_done_quiet(p) ==
  /\ p \in Writer /\ Holds(p, "done")
  /\ Goto(p, "idle")
  /\ Return(p)
  /\ UNCHANGED <<ring, ends, killed>>

write_done(p) ==
  /\ p \in Writer /\ Holds(p, "done")
  /\ Wakeup(p, "idle")
  /\ Return(p)
  /\ UNCHANGED <<ring, ends, killed>>
-----------------------------------------------------------------------------
Empty == nread = nwrite

\* The loop of piperead() that waits for data or for the end of it.
read_loop(p) ==
  /\ p \in Reader /\ Holds(p, "loop")
  /\ \/ (~Empty \/ ~writeopen) /\ Goto(p, "copy") /\ Stay
     \/ Empty /\ writeopen /\ killed[p] /\ Goto(p, "idle") /\ Return(p)
     \/ Empty /\ writeopen /\ ~killed[p] /\ Goto(p, "sleep") /\ Stay
  /\ UNCHANGED <<ring, ends, killed>>

\* One iteration of the copy loop; copyout() may fail after the byte was taken.
read_byte(p, ok) ==
  /\ p \in Reader /\ Holds(p, "copy")
  /\ i[p] < n[p] /\ ~Empty
  /\ got' = data[nread % PIPESIZE]
  /\ nread' = (nread + 1) % UINT
  /\ IF ok
     THEN i' = [i EXCEPT ![p] = @ + 1] /\ UNCHANGED pc
     ELSE UNCHANGED i /\ Goto(p, "done")
  /\ UNCHANGED <<data, nwrite, ends, lock, killed, n>>

read_end(p) ==
  /\ p \in Reader /\ Holds(p, "copy")
  /\ i[p] >= n[p] \/ Empty
  /\ Goto(p, "done")
  /\ UNCHANGED <<ring, ends, lock, killed, n, i>>

read_done(p) ==
  /\ p \in Reader /\ Holds(p, "done")
  /\ Wakeup(p, "idle")
  /\ Return(p)
  /\ UNCHANGED <<ring, ends, killed>>
-----------------------------------------------------------------------------
\* mutant: one closed end is enough.
pipeclose_either(p) ==
  /\ lock = NoProc
  /\ writeopen' = (writeopen /\ p \notin Writer)
  /\ readopen' = (readopen /\ p \notin Reader)
  /\ Wakeup(p, "idle")
  /\ freed' = (~readopen' \/ ~writeopen')

\* pipeclose() of the end p had: kfree() comes after the release of pi->lock, when
\* nobody else has the pipe.
pipeclose(p) ==
  /\ lock = NoProc
  /\ writeopen' = (writeopen /\ p \notin Writer)
  /\ readopen' = (readopen /\ p \notin Reader)
  /\ Wakeup(p, "idle")
  /\ freed' = (~readopen' /\ ~writeopen')

\* close() or exit(): fileclose() calls pipeclose() for the last descriptor of
\* an end.
close(p) ==
  /\ pc[p] = "idle" /\ p \in open
  /\ open' = open \ {p}
  /\ IF open' \cap Side(p) # {}
     THEN UNCHANGED <<readopen, writeopen, freed, pc>>
     ELSE pipeclose(p)
  /\ UNCHANGED <<ring, lock, killed, n, i>>

\* kill() from outside sets the flag and ends a sleep.
kill(p) ==
  /\ ~killed[p]
  /\ killed' = [killed EXCEPT ![p] = TRUE]
  /\ Goto(p, IF pc[p] = "asleep" THEN "acquire" ELSE pc[p])
  /\ UNCHANGED <<ring, ends, lock, n, i>>

Step(p) == \/ acquire(p) \/ sleep(p)
           \/ write_loop(p) \/ write_done(p) \/ write_fault(p)
           \/ \E b \in Byte : write_byte(p, b)
           \/ read_loop(p) \/ read_end(p) \/ read_done(p)
           \/ \E ok \in BOOLEAN : read_byte(p, ok)

Next == \E p \in User :
          \/ Step(p)
          \/ \E m \in 0 .. MaxN : call(p, m)
          \/ close(p)
          \/ kill(p)

Spec == Init /\ [][Next]_vars

-----------------------------------------------------------------------------
Count == (nwrite + UINT - nread) % UINT

\* The bytes between the two counters.
Contents == [k \in 1 .. Count |-> data[(nread + k - 1) % PIPESIZE]]

F == INSTANCE Fifo WITH Size <- PIPESIZE, q <- Contents

\* A pipe is a bounded FIFO, whoever reads and writes and however their calls are
\* split by sleeping, also when the unsigned counters wrap around: bytes come out
\* in the order they went in, and none is overwritten.
IsFifo == F!Spec

\* No lost wakeup: while pi->lock is free, a writer sleeps only on a full pipe with
\* a reader left, a reader only on an empty one with a writer left.  The exception:
\* a writer killed in the middle returns -1 and does not wake the readers of the
\* bytes it did write.
SleepJustified ==
  lock = NoProc =>
    \A p \in User : pc[p] = "asleep" =>
       IF p \in Reader THEN writeopen /\ (Empty \/ \E w \in Writer : killed[w])
       ELSE Full /\ readopen

\* The pipe is freed once, by the last close of both ends, and never while a
\* process is in piperead() or pipewrite().
NoUseAfterFree ==
  freed => lock = NoProc /\ \A p \in User : pc[p] = "idle" /\ p \notin open

=============================================================================
