----------------------------- MODULE BlockStore -----------------------------
(***************************************************************************)
(* What the buffer cache (kernel/bio.c) promises its clients: each block   *)
(* has one current value, which a process reads or changes while it alone  *)
(* has the block.                                                          *)
(***************************************************************************)
CONSTANTS Proc, Block, Value, NoProc

VARIABLES val,      \* the current value of each block
          owner     \* who has it

vars == <<val, owner>>

Init == /\ val \in [Block -> Value]
        /\ owner = [b \in Block |-> NoProc]

Take(p, b) == /\ owner[b] = NoProc
              /\ owner' = [owner EXCEPT ![b] = p]
              /\ UNCHANGED val

Change(p, b, v) == /\ owner[b] = p
                   /\ val' = [val EXCEPT ![b] = v]
                   /\ UNCHANGED owner

Give(p, b) == /\ owner[b] = p
              /\ owner' = [owner EXCEPT ![b] = NoProc]
              /\ UNCHANGED val

Next == \E p \in Proc, b \in Block :
          Take(p, b) \/ Give(p, b) \/ \E v \in Value : Change(p, b, v)

Spec == Init /\ [][Next]_vars
=============================================================================
