------------------------------ MODULE MCShell ------------------------------
(* An instance of Shell for TLC. *)
EXTENDS Shell

\* Every line of up to four tokens with one word, typed alone ...
Short == UNION {[1 .. k -> {"cat"} \cup Symbols] : k \in 0 .. 4}

\* ... and longer ones.  The last is to use up the processes.
Long == {
  <<<<"echo", "x", "|", "cat", "|", "cat">>>>,
  <<<<"(", "echo", "x", ";", "cat", "<", "x", ")", "|", "cat", ">", "y">>>>,
  <<<<"echo", "x", "x", "|", "cat", "x", "y">>>>,
  <<<<"echo", "x", "|", "cat", "&">>, <<"echo", "x", "|", "cat">>, <<"cd", "x">>>>,
  <<<<"(", "echo", "x", "&", ";", "echo", "x", ")", "|", "cat">>, <<"^D">>, <<"cat", "y">>>>,
  <<<<"(", "echo", "x", "|", "cat", ")", "&", ";", "cat", "&">>, <<"x">>>>,
  <<<<"(", "cat", ";", "cat", ")", "|", "(", "cat", ";", "cat", ")", "&">>, <<"cat">>>>}

Scripts == {<<l>> : l \in Short} \cup Long
=============================================================================
