------------------------------ MODULE Console ------------------------------
(***************************************************************************)
(* The console: kernel/uart.c and kernel/console.c, with the part of       *)
(* devintr() that serves the UART.                                         *)
(*                                                                         *)
(* Writers call uartputc() for each byte of consolewrite(); readers call   *)
(* consoleread(); the interrupt handler edits the input line, echoes keys  *)
(* and restarts output; a kernel thread prints with printf().  Echo and    *)
(* printf() write to the UART without uart_tx_lock.  The counters wrap     *)
(* around, so that typing and writing go on forever.  A slot of a ring that *)
(* will be written before it is read again is set to Nobody.               *)
(***************************************************************************)
EXTENDS Integers, FiniteSets, Sequences, SequencesExt

CONSTANTS Writer, Reader, Printer,
          UART_TX_BUF_SIZE, INPUT_BUF_SIZE,
          UINT,          \* the counters' range: 2^64 and 2^32
          FIFO,          \* the transmit FIFO of the UART
          Count,         \* the counts given to read()
          Workload,      \* who uses the console, and which keys are typed
          x, NL, EOF, BS, KILL, PROCS,  \* a letter, newline, ^D, ^H, ^U and ^P
          echoed,        \* a byte written by uartputc_sync()
          Nobody

intr == "intr"           \* the interrupt handler
Thread == Writer \cup Reader \cup Printer \cup {intr}

\* The buffers' sizes divide the range of the counters; as many can write to the
\* UART at once as there are CPUs, fewer than its FIFO holds.
ASSUME ConsoleAssumption ==
  /\ UART_TX_BUF_SIZE \in Nat \ {0} /\ INPUT_BUF_SIZE \in Nat \ {0}
  /\ UINT % UART_TX_BUF_SIZE = 0 /\ UINT % INPUT_BUF_SIZE = 0
  /\ UINT > UART_TX_BUF_SIZE /\ UINT > INPUT_BUF_SIZE
  /\ FIFO >= 2 + Cardinality(Printer)
  /\ \A l \in Workload : l.threads \subseteq Thread /\ l.keys \subseteq {x, NL, EOF, BS, KILL, PROCS}

VARIABLES
  load,                            \* the workload
  tx_buf, tx_w, tx_r, tx_lock,     \* uart_tx_...
  thr, txint, rhr,                 \* the UART: FIFO, transmit interrupt, received bytes
  buf, r, w, e, lock,              \* cons
  pc, c, n, target, killed,        \* threads; c is a byte in hand
  echo,                            \* how many bytes consoleintr() has yet to echo
  order,                           \* bytes that uartputc() took and that are not sent
  todo, edit                       \* lines to read, and the line being typed

tx == <<tx_buf, tx_w, tx_r, tx_lock>>
cons == <<buf, r, w, e, lock>>
ghost == <<order, todo, edit>>
vars == <<load, tx, thr, txint, rhr, cons, pc, c, n, target, killed, echo, ghost>>

Plus(a, b) == (a + b) % UINT
Minus(a, b) == (a - b) % UINT

\* uartinit(), consoleinit()
Init ==
  /\ load \in Workload
  /\ tx_buf = [k \in 0 .. UART_TX_BUF_SIZE - 1 |-> Nobody]
  /\ tx_w = 0 /\ tx_r = 0 /\ tx_lock = Nobody
  /\ thr = <<>> /\ txint = FALSE /\ rhr = <<>>
  /\ buf = [k \in 0 .. INPUT_BUF_SIZE - 1 |-> Nobody]
  /\ r = 0 /\ w = 0 /\ e = 0 /\ lock = Nobody
  /\ pc = [t \in Thread |-> "idle"]
  /\ c = [t \in Writer \cup {intr} |-> Nobody]
  /\ n = [t \in Reader |-> 0] /\ target = n
  /\ killed = [t \in Reader |-> FALSE]
  /\ echo = 0
  /\ order = <<>> /\ todo = <<>> /\ edit = <<>>

Goto(t, l) == pc' = [pc EXCEPT ![t] = l]
-----------------------------------------------------------------------------
(* The UART.                                                                 *)

\* mutant: the bit is not looked at.
TX_IDLE_any == TRUE

\* LSR_TX_IDLE: the FIFO is empty
TX_IDLE == thr = <<>>

\* A write to THR: lost if the FIFO is full; it clears the interrupt.
WriteTHR(b) ==
  /\ thr' = IF Len(thr) < FIFO THEN Append(thr, b) ELSE thr
  /\ txint' = FALSE

\* A byte is sent; when the FIFO is empty, the UART interrupts.
send ==
  /\ thr # <<>>
  /\ thr' = Tail(thr)
  /\ txint' = (Len(thr) = 1)
  /\ order' = IF Head(thr) = echoed THEN order ELSE Tail(order)
  /\ UNCHANGED <<tx, rhr, cons, pc, c, n, target, killed, echo, todo, edit>>

receive ==
  \E k \in load.keys :
    /\ rhr = <<>>
    /\ rhr' = <<k>>
    /\ UNCHANGED <<tx, thr, txint, cons, pc, c, n, target, killed, echo, ghost>>
-----------------------------------------------------------------------------
(* Output.                                                                   *)

\* consolewrite() has a byte for uartputc()
consolewrite(t) ==
  /\ pc[t] = "idle"
  /\ Goto(t, "acquire")
  /\ UNCHANGED <<tx, thr, txint, rhr, cons, c, n, target, killed, echo, ghost>>

Full == tx_w = Plus(tx_r, UART_TX_BUF_SIZE)

\* uartputc(): sleep while the buffer is full; then the byte goes in
uartputc(t) ==
  /\ pc[t] = "acquire" /\ tx_lock = Nobody
  /\ IF Full
     THEN Goto(t, "asleep") /\ UNCHANGED <<tx, order>>
     ELSE /\ tx_buf' = [tx_buf EXCEPT ![tx_w % UART_TX_BUF_SIZE] = t]
          /\ tx_w' = Plus(tx_w, 1)
          /\ tx_lock' = t
          /\ order' = Append(order, t)
          /\ Goto(t, "start")
          /\ UNCHANGED tx_r
  /\ UNCHANGED <<thr, txint, rhr, cons, c, n, target, killed, echo, todo, edit>>

\* mutant: the sleepers are woken when the buffer is empty.
Woken_empty(t) == t \in Writer /\ pc[t] = "asleep" /\ Plus(tx_r, 1) = tx_w

\* wakeup(&uart_tx_r)
Woken(t) == t \in Writer /\ pc[t] = "asleep"

\* uartstart(): the loop takes a byte while there is one and the UART is idle; the
\* caller releases the lock
uartstart(t) ==
  /\ pc[t] = "start" /\ tx_lock = t
  /\ IF tx_w = tx_r \/ ~TX_IDLE
     THEN Goto(t, "idle") /\ tx_lock' = Nobody /\ UNCHANGED <<tx_buf, tx_r, c>>
     ELSE /\ c' = [c EXCEPT ![t] = tx_buf[tx_r % UART_TX_BUF_SIZE]]
          /\ tx_r' = Plus(tx_r, 1) /\ tx_buf' = [tx_buf EXCEPT ![tx_r % UART_TX_BUF_SIZE] = Nobody]
          /\ pc' = [u \in Thread |-> IF u = t THEN "thr" ELSE IF Woken(u) THEN "acquire" ELSE pc[u]]
          /\ UNCHANGED tx_lock
  /\ UNCHANGED <<tx_w, thr, txint, rhr, cons, n, target, killed, echo, ghost>>

uartstart_thr(t) ==
  /\ pc[t] = "thr"
  /\ WriteTHR(c[t])
  /\ c' = [c EXCEPT ![t] = Nobody]
  /\ Goto(t, "start")
  /\ UNCHANGED <<tx, rhr, cons, n, target, killed, echo, ghost>>

\* printf(), with pr.lock, puts a byte with uartputc_sync()
printf(t) ==
  /\ \/ pc[t] = "idle" /\ TX_IDLE /\ Goto(t, "sync") /\ UNCHANGED <<thr, txint>>
     \/ pc[t] = "sync" /\ WriteTHR(echoed) /\ Goto(t, "idle")
  /\ UNCHANGED <<tx, rhr, cons, c, n, target, killed, echo, ghost>>
-----------------------------------------------------------------------------
(* The interrupt: uartintr() and consoleintr().                              *)

\* plic_claim()
uartintr ==
  /\ pc[intr] = "idle" /\ (txint \/ rhr # <<>>)
  /\ Goto(intr, "getc")
  /\ txint' = FALSE
  /\ UNCHANGED <<tx, thr, rhr, cons, c, n, target, killed, echo, ghost>>

\* How much ^U erases: up to a newline, or to w.
Erased == LET line == [k \in 1 .. Minus(e, w) |-> buf[Minus(e, k) % INPUT_BUF_SIZE]]
              nls == {k \in DOMAIN line : line[k] = NL}
          IN IF nls = {} THEN Len(line) ELSE (CHOOSE k \in nls : \A j \in nls : k <= j) - 1

Dropped(S) == [k \in DOMAIN buf |-> IF \E j \in S : j % INPUT_BUF_SIZE = k THEN Nobody ELSE buf[k]]

Room == Minus(e, r) < INPUT_BUF_SIZE

\* What consputc() echoes for a key: three bytes for a backspace.  procdump() of ^P
\* stands for one byte.
Echo(k) ==
  CASE k = PROCS -> 1
    [] k = KILL -> 3 * Erased
    [] k = BS -> IF e # w THEN 3 ELSE 0
    [] OTHER -> IF Room THEN 1 ELSE 0

\* uartgetc() has a byte: consoleintr() takes the lock
consoleintr ==
  /\ pc[intr] = "getc" /\ rhr # <<>> /\ lock = Nobody
  /\ rhr' = <<>>
  /\ c' = [c EXCEPT ![intr] = Head(rhr)]
  /\ lock' = intr
  /\ echo' = Echo(Head(rhr))
  /\ Goto(intr, "echo")
  /\ UNCHANGED <<tx, thr, txint, buf, r, w, e, n, target, killed, ghost>>

\* uartputc_sync(): wait for TX_IDLE, then write
uartputc_sync ==
  /\ \/ /\ pc[intr] = "echo" /\ echo > 0 /\ TX_IDLE
        /\ Goto(intr, "sync") /\ UNCHANGED <<thr, txint, echo>>
     \/ /\ pc[intr] = "sync"
        /\ WriteTHR(echoed) /\ echo' = echo - 1 /\ Goto(intr, "echo")
  /\ UNCHANGED <<tx, rhr, cons, c, n, target, killed, ghost>>

\* mutant: only a newline or an end of file ends a line.
Commits_eol(k) == k \in {NL, EOF}

\* A key ends the line; so does a buffer that it has made full.
Commits(k) == k \in {NL, EOF} \/ Minus(Plus(e, 1), r) = INPUT_BUF_SIZE

ReadersWoken == [t \in Thread |-> IF t = intr THEN "getc"
                                  ELSE IF t \in Reader /\ pc[t] = "asleep" THEN "acquire" ELSE pc[t]]

\* consoleintr() edits the line, and releases the lock
consoleintr_edit ==
  LET k == c[intr] IN
  /\ pc[intr] = "echo" /\ echo = 0
  /\ \/ k = PROCS /\ Goto(intr, "getc") /\ UNCHANGED <<buf, w, e, todo, edit>>
     \/ /\ k = KILL
        /\ e' = Minus(e, Erased) /\ edit' = <<>>
        /\ buf' = Dropped({Minus(e, j) : j \in 1 .. Erased})
        /\ Goto(intr, "getc") /\ UNCHANGED <<w, todo>>
     \/ /\ k = BS
        /\ e' = IF e # w THEN Minus(e, 1) ELSE e
        /\ edit' = IF edit = <<>> THEN <<>> ELSE Front(edit)
        /\ buf' = IF e # w THEN Dropped({Minus(e, 1)}) ELSE buf
        /\ Goto(intr, "getc") /\ UNCHANGED <<w, todo>>
     \/ /\ k \notin {PROCS, KILL, BS} /\ ~Room
        /\ Goto(intr, "getc") /\ UNCHANGED <<buf, w, e, todo, edit>>
     \/ /\ k \notin {PROCS, KILL, BS} /\ Room
        /\ buf' = [buf EXCEPT ![e % INPUT_BUF_SIZE] = k]
        /\ e' = Plus(e, 1)
        /\ IF Commits(k)
           THEN /\ w' = Plus(e, 1) /\ pc' = ReadersWoken
                /\ todo' = todo \o Append(edit, k) /\ edit' = <<>>
           ELSE Goto(intr, "getc") /\ edit' = Append(edit, k) /\ UNCHANGED <<w, todo>>
  /\ c' = [c EXCEPT ![intr] = Nobody]
  /\ lock' = Nobody
  /\ UNCHANGED <<tx, thr, txint, rhr, r, n, target, killed, echo, order>>

\* No byte is left: uartintr() takes uart_tx_lock to call uartstart()
uartintr_tx ==
  /\ pc[intr] = "getc" /\ rhr = <<>> /\ tx_lock = Nobody
  /\ tx_lock' = intr
  /\ Goto(intr, "start")
  /\ UNCHANGED <<tx_buf, tx_w, tx_r, thr, txint, rhr, cons, c, n, target, killed, echo, ghost>>
-----------------------------------------------------------------------------
(* Input.                                                                    *)
consoleread(t, m) ==
  /\ pc[t] = "idle"
  /\ n' = [n EXCEPT ![t] = m] /\ target' = [target EXCEPT ![t] = m]
  /\ Goto(t, "acquire")
  /\ UNCHANGED <<tx, thr, txint, rhr, cons, c, killed, echo, ghost>>

\* The end of consoleread(); a process that was killed exits, another takes its place.
Return(t) == /\ Goto(t, "idle") /\ lock' = Nobody
             /\ n' = [n EXCEPT ![t] = 0] /\ target' = [target EXCEPT ![t] = 0]
             /\ killed' = [killed EXCEPT ![t] = FALSE]

\* mutant: the end of file is taken in any case.
SaveEof_not(t) == FALSE

\* ^D is kept for the next read() if this one has something to return.
SaveEof(t) == n[t] < target[t]

\* An iteration of consoleread(), with the lock: it sleeps, or takes a byte; ok is
\* whether either_copyout() can store it
consoleread_byte(t, ok) ==
  LET b == buf[r % INPUT_BUF_SIZE] IN
  /\ pc[t] = "acquire" /\ lock \in {Nobody, t}
  /\ \/ n[t] = 0 /\ Return(t) /\ UNCHANGED <<r, buf, todo>>
     \/ n[t] > 0 /\ r = w /\ killed[t] /\ Return(t) /\ UNCHANGED <<r, buf, todo>>
     \/ /\ n[t] > 0 /\ r = w /\ ~killed[t]
        /\ Goto(t, "asleep") /\ lock' = Nobody
        /\ UNCHANGED <<r, buf, n, target, killed, todo>>
     \/ /\ n[t] > 0 /\ r # w /\ b = EOF
        /\ IF SaveEof(t) THEN UNCHANGED <<r, buf>> ELSE r' = Plus(r, 1) /\ buf' = Dropped({r})
        /\ todo' = IF n[t] < target[t] THEN todo ELSE Tail(todo)
        /\ Return(t)
     \/ /\ n[t] > 0 /\ r # w /\ b # EOF
        /\ r' = Plus(r, 1) /\ buf' = Dropped({r})
        /\ todo' = Tail(todo)
        /\ IF ~ok \/ b = NL THEN Return(t)
           ELSE /\ n' = [n EXCEPT ![t] = @ - 1] /\ lock' = t
                /\ UNCHANGED <<pc, target, killed>>
  /\ UNCHANGED <<tx, thr, txint, rhr, w, e, c, echo, order, edit>>

\* kill() of a reader, which wakes it
kill(t) ==
  /\ pc[t] # "idle" /\ ~killed[t]
  /\ killed' = [killed EXCEPT ![t] = TRUE]
  /\ Goto(t, IF pc[t] = "asleep" THEN "acquire" ELSE pc[t])
  /\ UNCHANGED <<tx, thr, txint, rhr, cons, c, n, target, echo, ghost>>
-----------------------------------------------------------------------------
Steps ==
  \/ send \/ receive
  \/ uartintr \/ consoleintr \/ uartputc_sync \/ consoleintr_edit \/ uartintr_tx
  \/ \E t \in Writer \cap load.threads : consolewrite(t) \/ uartputc(t)
  \/ \E t \in Writer \cup {intr} : uartstart(t) \/ uartstart_thr(t)
  \/ \E t \in Printer \cap load.threads : printf(t)
  \/ \E t \in Reader \cap load.threads :
       \/ kill(t)
       \/ \E m \in Count : consoleread(t, m)
       \/ \E ok \in BOOLEAN : consoleread_byte(t, ok)

Next == Steps /\ UNCHANGED load

Spec == Init /\ [][Next]_vars
-----------------------------------------------------------------------------
InHand == LET T == {t \in Writer \cup {intr} : pc[t] = "thr"} IN
          IF T = {} THEN <<>> ELSE <<c[CHOOSE t \in T : TRUE]>>

\* The bytes that write() was told are taken are in the UART, in uartstart()'s hand
\* and in the buffer, in the order of the calls: echo and printf(), which write to
\* the UART without the lock, make it drop, repeat or reorder none of them.
OutputInOrder ==
  order = SelectSeq(thr, LAMBDA b : b # echoed) \o InHand
          \o [k \in 1 .. Minus(tx_w, tx_r) |-> tx_buf[Plus(tx_r, k - 1) % UART_TX_BUF_SIZE]]

\* Buffered output is never left without something that will send it: the UART is
\* busy and will interrupt, or has, or uartstart() is running or the handler is on
\* its way to it.  And no writer sleeps when there is room.
OutputNotStuck ==
  /\ tx_w # tx_r => \/ thr # <<>> \/ txint
                    \/ pc[intr] # "idle"
                    \/ \E t \in Writer : pc[t] \in {"start", "thr"}
  /\ \A t \in Writer : pc[t] = "asleep" => Full

\* The ring holds the lines that were typed, as edited, and the line being edited:
\* what consoleread() returns is what was typed, in order, across the wrap-around of
\* the indices, and a ^D stays for the read() that is to return 0.
InputExact ==
  LET Part(a, b) == [k \in 1 .. Minus(b, a) |-> buf[Plus(a, k - 1) % INPUT_BUF_SIZE]] IN
  Part(r, w) = todo /\ Part(w, e) = edit

\* No reader sleeps while there is a line to read, and when the buffer is full there
\* is one: otherwise no key, not even a newline, would be taken any more.
InputNotStuck ==
  /\ \A t \in Reader : pc[t] = "asleep" => r = w
  /\ ~Room => r # w
=============================================================================
