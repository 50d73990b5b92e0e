------------------------------ MODULE ShParse ------------------------------
(***************************************************************************)
(* The parser of user/sh.c.  A line is a sequence of tokens: words, and    *)
(* the symbols of gettoken(), where "+" stands for ">>".  White space and  *)
(* the spelling of words are left out, and with them nulterminate().       *)
(*                                                                         *)
(* A parse function is applied to what is left of the line, and returns    *)
(* the command, with what is left after it, or Panic: panic() ends the     *)
(* process.                                                                *)
(***************************************************************************)
EXTENDS Naturals, Sequences, FiniteSets

CONSTANTS Word, MAXARGS

ASSUME ShParseAssumption == MAXARGS \in Nat \ {0}

Symbols == {"<", "|", ">", "+", "&", ";", "(", ")"}
Redirections == {"<", ">", "+"}

execcmd(argv) == [type |-> "EXEC", argv |-> argv]
pipecmd(left, right) == [type |-> "PIPE", left |-> left, right |-> right]
listcmd(left, right) == [type |-> "LIST", left |-> left, right |-> right]
backcmd(cmd) == [type |-> "BACK", cmd |-> cmd]
redircmd(cmd, tok, file) ==
  [type |-> "REDIR", cmd |-> cmd, file |-> file, fd |-> IF tok = "<" THEN 0 ELSE 1,
   mode |-> CASE tok = "<" -> "RDONLY" [] tok = ">" -> "TRUNC" [] tok = "+" -> "WRONLY"]

\* cmd inside the redirections R, a sequence of symbols and words, the first innermost.
RECURSIVE Redirected(_, _)
Redirected(cmd, R) ==
  IF R = <<>> THEN cmd
  ELSE Redirected(redircmd(cmd, R[1], R[2]), SubSeq(R, 3, Len(R)))

RECURSIVE Background(_, _)
Background(cmd, k) == IF k = 0 THEN cmd ELSE Background(backcmd(cmd), k - 1)

Panic == [ok |-> FALSE]
Parsed(cmd, s) == [ok |-> TRUE, cmd |-> cmd, s |-> s]

peek(s, toks) == s # <<>> /\ Head(s) \in toks

\* The redirections at the head of s, after R.
RECURSIVE parseredirs(_, _)
parseredirs(R, s) ==
  IF ~peek(s, Redirections) THEN [ok |-> TRUE, R |-> R, s |-> s]
  ELSE IF ~peek(Tail(s), Word) THEN Panic
  ELSE parseredirs(R \o SubSeq(s, 1, 2), SubSeq(s, 3, Len(s)))

\* The loop of parseexec(), with the arguments and redirections seen so far.
RECURSIVE parseargs(_, _, _)
parseargs(argv, R, s) ==
  IF s = <<>> \/ peek(s, {"|", ")", "&", ";"}) THEN Parsed(Redirected(execcmd(argv), R), s)
  ELSE IF ~peek(s, Word) \/ Len(argv) + 1 >= MAXARGS THEN Panic
  ELSE LET r == parseredirs(R, Tail(s))
       IN IF r.ok THEN parseargs(Append(argv, Head(s)), r.R, r.s) ELSE Panic

RECURSIVE parseline(_)

parseblock(s) ==
  LET b == parseline(Tail(s)) IN
  IF ~b.ok THEN Panic
  ELSE IF ~peek(b.s, {")"}) THEN Panic
  ELSE LET r == parseredirs(<<>>, Tail(b.s))
       IN IF r.ok THEN Parsed(Redirected(b.cmd, r.R), r.s) ELSE Panic

parseexec(s) ==
  IF peek(s, {"("}) THEN parseblock(s)
  ELSE LET r == parseredirs(<<>>, s)
       IN IF r.ok THEN parseargs(<<>>, r.R, r.s) ELSE Panic

RECURSIVE parsepipe(_)
parsepipe(s) ==
  LET l == parseexec(s) IN
  IF ~l.ok THEN Panic
  ELSE IF ~peek(l.s, {"|"}) THEN l
  ELSE LET r == parsepipe(Tail(l.s))
       IN IF r.ok THEN Parsed(pipecmd(l.cmd, r.cmd), r.s) ELSE Panic

\* The loop of parseline().
RECURSIVE parseback(_)
parseback(r) == IF peek(r.s, {"&"}) THEN parseback(Parsed(backcmd(r.cmd), Tail(r.s))) ELSE r

\* mutant: what follows the ";" is a pipeline, not a line.
parselist_pipe(l) == parsepipe(Tail(l.s))

\* What follows the ";" after l.
parselist(l) == parseline(Tail(l.s))

parseline(s) ==
  LET p == parsepipe(s) IN
  IF ~p.ok THEN Panic
  ELSE LET l == parseback(p) IN
       IF ~peek(l.s, {";"}) THEN l
       ELSE LET r == parselist(l)
            IN IF r.ok THEN Parsed(listcmd(l.cmd, r.cmd), r.s) ELSE Panic

parsecmd(s) == LET r == parseline(s) IN IF r.ok THEN (IF r.s = <<>> THEN r ELSE Panic) ELSE Panic
-----------------------------------------------------------------------------
(* The language of the parser, by how a line is put together. *)

Before(s, k) == SubSeq(s, 1, k - 1)
After(s, k) == SubSeq(s, k + 1, Len(s))
At(s, t) == {k \in DOMAIN s : s[k] = t}

\* The tokens of s that are redirections with their files, and those that are not.
InRedir(s, k) == s[k] \in Redirections \/ (k > 1 /\ s[k - 1] \in Redirections)
Select(s, Test(_, _)) ==
  LET K == SelectSeq([k \in DOMAIN s |-> k], LAMBDA k : Test(s, k))
  IN [j \in DOMAIN K |-> s[K[j]]]
Redirs(s) == Select(s, InRedir)
Args(s) == Select(s, LAMBDA t, k : ~InRedir(t, k))

\* Words, and redirections each followed by a word.
IsSimple(s) == \A k \in DOMAIN s :
                 IF s[k] \in Redirections THEN k < Len(s) /\ s[k + 1] \in Word ELSE s[k] \in Word

RECURSIVE LineTrees(_)
ExecTrees(s) ==
  {Redirected(execcmd(Args(t)), Redirs(t)) :
     t \in {t \in {s} : IsSimple(t) /\ Len(Args(t)) < MAXARGS}}
  \cup
  UNION {{Redirected(c, After(s, k)) : c \in LineTrees(SubSeq(s, 2, k - 1))} :
           k \in {k \in At(s, ")") : /\ s[1] = "("
                                     /\ IsSimple(After(s, k)) /\ Args(After(s, k)) = <<>>}}

RECURSIVE PipeTrees(_)
PipeTrees(s) ==
  ExecTrees(s) \cup
  UNION {{pipecmd(l, r) : l \in ExecTrees(Before(s, k)), r \in PipeTrees(After(s, k))} :
           k \in At(s, "|")}

BackTrees(s) ==
  UNION {{Background(c, Len(s) - k) : c \in PipeTrees(SubSeq(s, 1, k))} :
           k \in {k \in 0 .. Len(s) : \A j \in k + 1 .. Len(s) : s[j] = "&"}}

LineTrees(s) ==
  BackTrees(s) \cup
  UNION {{listcmd(l, r) : l \in BackTrees(Before(s, k)), r \in LineTrees(After(s, k))} :
           k \in At(s, ";")}
=============================================================================
