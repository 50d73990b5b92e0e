------------------------------- MODULE TxnDisk -------------------------------
(***************************************************************************)
(* What the logging layer (kernel/log.c) promises to the file system: FS   *)
(* operations change blocks between begin_op() and end_op(); the disk only *)
(* ever moves from one state with no operation in progress to another, in  *)
(* one step; a crash takes the blocks back to the last such state.         *)
(***************************************************************************)
CONSTANTS Op,      \* threads of control that run FS system calls
          Block,   \* home blocks
          Val      \* contents of a block

VARIABLES db,      \* the durable contents, what a reboot would show
          view,    \* the contents FS operations read and write
          active   \* the operations between begin_op() and end_op()

vars == <<db, view, active>>

TypeOK == /\ db \in [Block -> Val]
          /\ view \in [Block -> Val]
          /\ active \subseteq Op

Init == /\ db \in [Block -> Val]
        /\ view = db
        /\ active = {}

Begin(o) == /\ o \notin active
            /\ active' = active \cup {o}
            /\ UNCHANGED <<db, view>>

Write(o, b, v) == /\ o \in active
                  /\ view' = [view EXCEPT ![b] = v]
                  /\ UNCHANGED <<db, active>>

End(o) == /\ o \in active
          /\ active' = active \ {o}
          /\ UNCHANGED <<db, view>>

\* Never while an operation is in progress, and all blocks at once.
Commit == /\ active = {}
          /\ db' = view
          /\ UNCHANGED <<view, active>>

Crash == /\ view' = db
         /\ active' = {}
         /\ UNCHANGED db

Next == \/ \E o \in Op : Begin(o) \/ End(o)
        \/ \E o \in Op, b \in Block, v \in Val : Write(o, b, v)
        \/ Commit
        \/ Crash

Spec == Init /\ [][Next]_vars
=============================================================================
