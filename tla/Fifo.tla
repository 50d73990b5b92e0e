-------------------------------- MODULE Fifo --------------------------------
(***************************************************************************)
(* What a pipe (kernel/pipe.c) promises: a bounded queue of bytes that     *)
(* nobody writes to once its read end is closed.                           *)
(***************************************************************************)
EXTENDS Naturals, Sequences

CONSTANTS Byte,
          Size        \* how many bytes it holds

VARIABLES q,          \* the bytes in it
          got,        \* the last byte taken out
          readopen, writeopen

vars == <<q, got, readopen, writeopen>>

Init == /\ q = <<>>
        /\ got \in Byte
        /\ readopen = TRUE /\ writeopen = TRUE

Put(b) == /\ readopen /\ writeopen
          /\ Len(q) < Size
          /\ q' = Append(q, b)
          /\ UNCHANGED <<got, readopen, writeopen>>

Get == /\ readopen
       /\ q # <<>>
       /\ got' = Head(q)
       /\ q' = Tail(q)
       /\ UNCHANGED <<readopen, writeopen>>

Close == /\ \/ writeopen' = FALSE /\ UNCHANGED readopen
            \/ readopen' = FALSE /\ UNCHANGED writeopen
         /\ UNCHANGED <<q, got>>

Next == (\E b \in Byte : Put(b)) \/ Get \/ Close

Spec == Init /\ [][Next]_vars
=============================================================================
