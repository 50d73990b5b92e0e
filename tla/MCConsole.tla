----------------------------- MODULE MCConsole -----------------------------
EXTENDS Console

\* Output, with echo and kernel messages; input, with every key; and both.
Loads == {[threads |-> Writer \cup Printer, keys |-> {x, PROCS}],
          [threads |-> Reader, keys |-> {x, NL, EOF, BS, KILL, PROCS}],
          [threads |-> {CHOOSE t \in Writer : TRUE, CHOOSE t \in Reader : TRUE}, keys |-> {x, NL}]}
=============================================================================
