------------------------------- MODULE Monitor -------------------------------
(***************************************************************************)
(* What sleep() and wakeup() (kernel/proc.c) promise to the code that uses *)
(* them around a condition lock: to find the condition false, release the  *)
(* lock and fall asleep is one step, and so is to make the condition true  *)
(* and wake every sleeper.                                                 *)
(***************************************************************************)
EXTENDS Naturals

CONSTANTS Proc, Chan, NoChan

VARIABLES event,    \* pending events of each channel: the condition
          waiting   \* the channel each process sleeps on, or NoChan

vars == <<event, waiting>>

Init == /\ event = [h \in Chan |-> 0]
        /\ waiting = [p \in Proc |-> NoChan]

Consume(p, h) == /\ waiting[p] = NoChan
                 /\ event[h] > 0
                 /\ event' = [event EXCEPT ![h] = @ - 1]
                 /\ UNCHANGED waiting

Sleep(p, h) == /\ waiting[p] = NoChan
               /\ event[h] = 0
               /\ waiting' = [waiting EXCEPT ![p] = h]
               /\ UNCHANGED event

Signal(h) == /\ event' = [event EXCEPT ![h] = @ + 1]
             /\ waiting' = [p \in Proc |-> IF waiting[p] = h THEN NoChan ELSE waiting[p]]

\* A sleeper may also return early: kill() makes it RUNNABLE.
Spurious(p) == /\ waiting' = [waiting EXCEPT ![p] = NoChan]
               /\ UNCHANGED event

Next == \/ \E p \in Proc, h \in Chan : Consume(p, h) \/ Sleep(p, h)
        \/ \E h \in Chan : Signal(h)
        \/ \E p \in Proc : Spurious(p)

Spec == Init /\ [][Next]_vars
=============================================================================
