------------------------------- MODULE Shell -------------------------------
(***************************************************************************)
(* user/sh.c and user/init.c: the shell reads lines, and a child of it     *)
(* parses and runs each; init starts the shell again when it exits, and    *)
(* reaps orphans.  The programs are echo and cat.                          *)
(*                                                                         *)
(* code[p] is what process p has still to do, one system call after the    *)
(* other; every action is one call of one process.  The kernel appears by  *)
(* what the other modules show of it: descriptors are the lowest free      *)
(* ones, a pipe is a bounded FIFO with end-of-file when no descriptor is   *)
(* left for writing, exit() closes everything and leaves children to init. *)
(* One byte stands for what one read() or write() transfers; the console   *)
(* and files are at their end when they are read.                          *)
(***************************************************************************)
EXTENDS ShParse, FiniteSetsExt

CONSTANTS Script,     \* what the user may type: sequences of lines
          File,       \* the words that name existing files
          NPROC, NOFILE, PIPESIZE

ASSUME ShellAssumption == NPROC \in Nat /\ NPROC > 1 /\ NOFILE \in Nat /\ PIPESIZE \in Nat \ {0}

Proc == 0 .. NPROC - 1
Fd == 0 .. NOFILE - 1
initproc == 0

VARIABLES
  script,            \* the lines still to be typed
  state, parent, fd, \* of processes; state is "UNUSED", "LIVE" or "ZOMBIE"
  code,
  sh,                \* init's variable pid
  bytes,             \* the number of bytes in each pipe
  path,              \* where in the command each process is (history)
  failed             \* fork() or pipe() has failed (history)

vars == <<script, state, parent, fd, code, sh, bytes, path, failed>>

\* What a descriptor can be.  A pipe is known by the path of its command.
Closed == [kind |-> "closed", id |-> <<>>, name |-> ""]
Console == [kind |-> "console", id |-> <<>>, name |-> ""]
OpenFile(f) == [kind |-> "file", id |-> <<>>, name |-> f]
End(id, e) == [kind |-> "pipe", id |-> id, name |-> e]

\* One step of a path, from a node of the command tree to one below it.
To(type, name, n) == [type |-> type, name |-> name, n |-> n]

exit_ == <<[op |-> "exit"]>>
close_(d) == [op |-> "close", fd |-> d]
dup_(d) == [op |-> "dup", fd |-> d]
wait_ == [op |-> "wait"]
write_(must) == [op |-> "write", must |-> must]
fork1_(c) == [op |-> "fork", code |-> c]
runcmd_(cmd, pi) == [op |-> "run", cmd |-> cmd, path |-> pi]

\* main() of init.c has opened the console as 0, 1 and 2; main() of sh.c finds them open.
Standard == [d \in Fd |-> IF d <= 2 THEN Console ELSE Closed]
main == <<[op |-> "getcmd"]>>

Init ==
  /\ script \in Script
  /\ sh = 1
  /\ state = [p \in Proc |-> IF p \in {initproc, sh} THEN "LIVE" ELSE "UNUSED"]
  /\ parent = [p \in Proc |-> initproc]
  /\ fd = [p \in Proc |-> [d \in Fd |-> IF state[p] = "LIVE" THEN Standard[d] ELSE Closed]]
  /\ code = [p \in Proc |-> CASE p = initproc -> <<[op |-> "init_wait"]>>
                              [] p = sh -> main
                              [] OTHER -> <<>>]
  /\ bytes = <<>>
  /\ path = [p \in Proc |-> <<>>]
  /\ failed = FALSE
-----------------------------------------------------------------------------
Doing(p, op) == state[p] = "LIVE" /\ Head(code[p]).op = op
Do(p, c) == code' = [code EXCEPT ![p] = c]
Go(p) == Do(p, Tail(code[p]))

Unused == {p \in Proc : state[p] = "UNUSED"}
Free(p) == {d \in Fd : fd[p][d] = Closed}
Ends(F) == {F[p][d] : p \in Proc, d \in Fd}

\* The descriptors become F, and pipes without any are gone.
SetFd(F) == /\ fd' = F
            /\ bytes' = [id \in DOMAIN bytes \cap {e.id : e \in Ends(fd')} |-> bytes[id]]

\* p creates the process q, which is to do c.
Child(p, q, c) ==
  /\ state' = [state EXCEPT ![q] = "LIVE"]
  /\ parent' = [parent EXCEPT ![q] = p]
  /\ SetFd([fd EXCEPT ![q] = fd[p]])

Zombies(p) == {q \in Proc : state[q] = "ZOMBIE" /\ parent[q] = p}
Children(p) == {q \in Proc \ {initproc} : state[q] # "UNUSED" /\ parent[q] = p}

\* The kernel frees the slot of a child that is waited for.
Reap(q) == /\ state' = [state EXCEPT ![q] = "UNUSED"]
           /\ parent' = [parent EXCEPT ![q] = initproc]
-----------------------------------------------------------------------------
\* The inner loop of init's main()
init_wait ==
  /\ Doing(initproc, "init_wait")
  /\ \E q \in Zombies(initproc) :
       /\ Reap(q)
       /\ Do(initproc, <<[op |-> IF q = sh THEN "init_fork" ELSE "init_wait"]>>)
  /\ UNCHANGED <<script, fd, sh, bytes, path, failed>>

\* ... and the outer one.  When fork() fails, init exits.
init_fork ==
  /\ Doing(initproc, "init_fork")
  /\ IF Unused = {}
     THEN Do(initproc, exit_) /\ failed' = TRUE /\ UNCHANGED <<state, parent, fd, sh, bytes>>
     ELSE LET q == Min(Unused) IN
          /\ Child(initproc, q, main)
          /\ sh' = q
          /\ code' = [code EXCEPT ![initproc] = <<[op |-> "init_wait"]>>, ![q] = main]
          /\ UNCHANGED failed
  /\ UNCHANGED <<script, path>>

\* What the shell does with a line that c is to run.
sh_main(c) == <<fork1_(c), wait_>> \o main

\* getcmd(), and cd, which the shell does itself.  "^D" is the end of the input.
getcmd(p) ==
  LET l == Head(script) IN
  /\ Doing(p, "getcmd") /\ script # <<>>
  /\ script' = Tail(script)
  /\ Do(p, CASE l = <<"^D">> -> exit_
             [] l # <<>> /\ l[1] = "cd" -> main
             [] OTHER -> sh_main(<<[op |-> "parse", line |-> l,
                                    path |-> <<To("LINE", "", Len(script))>>]>>))
  /\ UNCHANGED <<state, parent, fd, sh, bytes, path, failed>>

\* What the lines that can be typed are parsed to, computed once.
Typed == UNION {{s[k] : k \in DOMAIN s} : s \in Script}
Command == [l \in Typed |-> parsecmd(l)]

parse(p) ==
  LET i == Head(code[p])
      r == Command[i.line]
  IN /\ Doing(p, "parse")
     /\ Do(p, IF r.ok THEN <<runcmd_(r.cmd, i.path)>> ELSE exit_)
     /\ UNCHANGED <<script, state, parent, fd, sh, bytes, path, failed>>
-----------------------------------------------------------------------------
(* runcmd() *)

\* mutant: no wait() for the left side.
run_list_nowait(c, pi) ==
  <<fork1_(<<runcmd_(c.left, Append(pi, To("LIST", "left", 0)))>>),
    runcmd_(c.right, Append(pi, To("LIST", "right", 0)))>>

run_list(c, pi) ==
  <<fork1_(<<runcmd_(c.left, Append(pi, To("LIST", "left", 0)))>>), wait_,
    runcmd_(c.right, Append(pi, To("LIST", "right", 0)))>>

run_redir(c, pi) ==
  <<close_(c.fd), [op |-> "open", file |-> c.file, mode |-> c.mode],
    runcmd_(c.cmd, Append(pi, To("REDIR", c.file, c.fd)))>>

run_back(c, pi) == <<fork1_(<<runcmd_(c.cmd, Append(pi, To("BACK", "", 0)))>>)>> \o exit_

run_exec(c) == IF c.argv = <<>> THEN exit_ ELSE <<[op |-> "exec", argv |-> c.argv]>>

runcmd(p) ==
  LET i == Head(code[p])
      c == i.cmd
  IN /\ Doing(p, "run")
     /\ path' = [path EXCEPT ![p] = i.path]
     /\ Do(p, CASE c.type = "EXEC" -> run_exec(c)
                [] c.type = "REDIR" -> run_redir(c, i.path)
                [] c.type = "LIST" -> run_list(c, i.path)
                [] c.type = "PIPE" -> <<[op |-> "pipe", cmd |-> c, path |-> i.path]>>
                [] c.type = "BACK" -> run_back(c, i.path))
     /\ UNCHANGED <<script, state, parent, fd, sh, bytes, failed>>

\* What the two children do with the pipe p[0] = r, p[1] = w.
run_left(c, pi, r, w) ==
  <<close_(1), dup_(w), close_(r), close_(w), runcmd_(c.left, Append(pi, To("PIPE", "left", 0)))>>

\* mutant: dup() comes before close(0).
run_right_order(c, pi, r, w) ==
  <<dup_(r), close_(0), close_(r), close_(w), runcmd_(c.right, Append(pi, To("PIPE", "right", 0)))>>

run_right(c, pi, r, w) ==
  <<close_(0), dup_(r), close_(r), close_(w), runcmd_(c.right, Append(pi, To("PIPE", "right", 0)))>>

\* mutant: the parent waits with its end for writing open.
run_pipe_open(c, pi, r, w) ==
  <<fork1_(run_left(c, pi, r, w)), fork1_(run_right(c, pi, r, w)),
    close_(r), wait_, wait_, close_(w)>> \o exit_

run_pipe(c, pi, r, w) ==
  <<fork1_(run_left(c, pi, r, w)), fork1_(run_right(c, pi, r, w)),
    close_(r), close_(w), wait_, wait_>> \o exit_

pipe(p) ==
  LET i == Head(code[p])
      r == Min(Free(p))
      w == Min(Free(p) \ {r})
  IN /\ Doing(p, "pipe")
     /\ IF Cardinality(Free(p)) < 2
        THEN Do(p, exit_) /\ failed' = TRUE /\ UNCHANGED <<fd, bytes>>
        ELSE /\ fd' = [fd EXCEPT ![p][r] = End(i.path, "r"), ![p][w] = End(i.path, "w")]
             /\ bytes' = [id \in DOMAIN bytes \cup {i.path} |->
                            IF id = i.path THEN 0 ELSE bytes[id]]
             /\ Do(p, run_pipe(i.cmd, i.path, r, w))
             /\ UNCHANGED failed
     /\ UNCHANGED <<script, state, parent, sh, path>>

\* fork1(): panic() when there is no process left
fork1(p) ==
  LET c == Head(code[p]).code IN
  /\ Doing(p, "fork")
  /\ IF Unused = {}
     THEN Do(p, exit_) /\ failed' = TRUE /\ UNCHANGED <<state, parent, fd, bytes, path>>
     ELSE LET q == Min(Unused) IN
          /\ Child(p, q, c)
          /\ code' = [code EXCEPT ![p] = Tail(@), ![q] = c]
          /\ path' = [path EXCEPT ![q] = c[Len(c)].path]
          /\ UNCHANGED failed
  /\ UNCHANGED <<script, sh>>

wait(p) ==
  /\ Doing(p, "wait")
  /\ \/ \E q \in Zombies(p) : Reap(q)
     \/ Children(p) = {} /\ UNCHANGED <<state, parent>>
  /\ Go(p)
  /\ UNCHANGED <<script, fd, sh, bytes, path, failed>>

close(p) ==
  /\ Doing(p, "close")
  /\ SetFd([fd EXCEPT ![p][Head(code[p]).fd] = Closed])
  /\ Go(p)
  /\ UNCHANGED <<script, state, parent, sh, path, failed>>

dup(p) ==
  /\ Doing(p, "dup")
  /\ SetFd(IF Free(p) = {} THEN fd
           ELSE [fd EXCEPT ![p][Min(Free(p))] = fd[p][Head(code[p]).fd]])
  /\ Go(p)
  /\ UNCHANGED <<script, state, parent, sh, path, failed>>

\* open() for a redirection; only O_CREATE makes a file
open(p) ==
  LET i == Head(code[p]) IN
  /\ Doing(p, "open")
  /\ IF Free(p) = {} \/ (i.mode = "RDONLY" /\ i.file \notin File)
     THEN Do(p, exit_) /\ UNCHANGED <<fd, bytes>>
     ELSE SetFd([fd EXCEPT ![p][Min(Free(p))] = OpenFile(i.file)]) /\ Go(p)
  /\ UNCHANGED <<script, state, parent, sh, path, failed>>

exit(p) ==
  /\ Doing(p, "exit") /\ p # initproc
  /\ state' = [state EXCEPT ![p] = "ZOMBIE"]
  /\ parent' = [q \in Proc |-> IF parent[q] = p THEN initproc ELSE parent[q]]
  /\ SetFd([fd EXCEPT ![p] = [d \in Fd |-> Closed]])
  /\ Do(p, <<>>)
  /\ path' = [path EXCEPT ![p] = <<>>]
  /\ UNCHANGED <<script, sh, failed>>
-----------------------------------------------------------------------------
(* The programs. *)

\* Two write()s for each argument.
echo(argv) == [k \in 1 .. 2 * (Len(argv) - 1) |-> write_(FALSE)] \o exit_

\* cat(0), or cat() of one file after the other.
cat(argv) == (IF Len(argv) = 1 THEN <<[op |-> "cat", fd |-> 0]>>
              ELSE [k \in 1 .. Len(argv) - 1 |-> [op |-> "cat_open", file |-> argv[k + 1]]])
             \o exit_

exec(p) ==
  LET argv == Head(code[p]).argv IN
  /\ Doing(p, "exec")
  /\ Do(p, CASE argv[1] = "echo" -> echo(argv)
             [] argv[1] = "cat" -> cat(argv)
             [] OTHER -> exit_)
  /\ UNCHANGED <<script, state, parent, fd, sh, bytes, path, failed>>

\* write() to 1: an error when nobody can read the pipe, and then cat exits.
write(p) ==
  LET e == fd[p][1]
      bad == e = Closed \/ (e.kind = "pipe" /\ End(e.id, "r") \notin Ends(fd))
  IN /\ Doing(p, "write")
     /\ IF bad \/ e.kind # "pipe" THEN UNCHANGED bytes
        ELSE bytes[e.id] < PIPESIZE /\ bytes' = [bytes EXCEPT ![e.id] = @ + 1]
     /\ IF bad /\ Head(code[p]).must THEN Do(p, exit_) ELSE Go(p)
     /\ UNCHANGED <<script, state, parent, fd, sh, path, failed>>

\* The loop of cat()
cat_read(p) ==
  LET e == fd[p][Head(code[p]).fd]
  IN /\ Doing(p, "cat")
     /\ IF e.kind = "pipe"
        THEN \/ /\ bytes[e.id] > 0
                /\ bytes' = [bytes EXCEPT ![e.id] = @ - 1]
                /\ Do(p, <<write_(TRUE)>> \o code[p])
             \/ /\ bytes[e.id] = 0 /\ End(e.id, "w") \notin Ends(fd)
                /\ Go(p) /\ UNCHANGED bytes
        ELSE Go(p) /\ UNCHANGED bytes
     /\ UNCHANGED <<script, state, parent, fd, sh, path, failed>>

cat_open(p) ==
  LET f == Head(code[p]).file
      d == Min(Free(p))
  IN /\ Doing(p, "cat_open")
     /\ IF Free(p) = {} \/ f \notin File
        THEN Do(p, exit_) /\ UNCHANGED <<fd, bytes>>
        ELSE /\ SetFd([fd EXCEPT ![p][d] = OpenFile(f)])
             /\ Do(p, <<[op |-> "cat", fd |-> d], close_(d)>> \o Tail(code[p]))
     /\ UNCHANGED <<script, state, parent, sh, path, failed>>
-----------------------------------------------------------------------------
Step(p) == \/ parse(p) \/ runcmd(p) \/ pipe(p) \/ fork1(p) \/ wait(p) \/ close(p) \/ dup(p)
           \/ open(p) \/ exit(p) \/ exec(p) \/ write(p) \/ cat_read(p) \/ cat_open(p)

Steps == init_wait \/ init_fork \/ \E p \in Proc : Step(p)

Next == Steps \/ \E p \in Proc : getcmd(p)

\* Some process that can go on does, which is less than module Sched shows; the user
\* need not type.
Fairness == WF_vars(Steps)

Spec == Init /\ [][Next]_vars /\ Fairness
-----------------------------------------------------------------------------
Language == [l \in Typed |-> LineTrees(l)]

\* parsecmd() accepts exactly the lines of the language that ShParse defines, and the
\* command it returns is the only one that the line can stand for.
ParseExact ==
  \A p \in Proc : Doing(p, "parse") =>
    LET l == Head(code[p]).line
        r == Command[l]
    IN Language[l] = IF r.ok THEN {r.cmd} ELSE {}

\* What descriptor d, 0 or 1, should be for the command at pi: what the innermost
\* pipe or redirection around it says.
Stdio(pi, d) ==
  LET K == {k \in DOMAIN pi : \/ pi[k].type = "PIPE" /\ pi[k].name = (IF d = 0 THEN "right" ELSE "left")
                              \/ pi[k].type = "REDIR" /\ pi[k].n = d}
      k == Max(K)
  IN IF K = {} THEN Console
     ELSE IF pi[k].type = "REDIR" THEN OpenFile(pi[k].name)
     ELSE End(SubSeq(pi, 1, k - 1), IF d = 0 THEN "r" ELSE "w")

\* However pipes, lists, redirections and blocks are nested, exec() starts a program
\* with the standard input and output that the line says, and with no other
\* descriptor: one left over from a pipe would keep its readers waiting.
Wired == \A p \in Proc : Doing(p, "exec") =>
           fd[p] = [d \in Fd |-> IF d \in {0, 1} THEN Stdio(path[p], d) ELSE Standard[d]]

\* From its k-th node on, pi is not in the background.
Foreground(pi, k) == \A j \in k .. Len(pi) : pi[j].type # "BACK"

\* Unless fork() or pipe() fails: when the right side of a list runs, nothing of its
\* left side does but what is in the background, and the shell prompts for a line
\* only when the same is true of the last one.
Sequenced ==
  ~failed => \A p \in Proc : state[p] = "LIVE" =>
    /\ path[p] # <<>> /\ Doing(sh, "getcmd") => ~Foreground(path[p], 1)
    /\ \A q \in Proc : state[q] = "LIVE" =>
         \A k \in DOMAIN path[p] \cap DOMAIN path[q] :
           /\ path[p][k] = To("LIST", "left", 0) /\ path[q][k] = To("LIST", "right", 0)
           /\ SubSeq(path[p], 1, k - 1) = SubSeq(path[q], 1, k - 1)
           => ~Foreground(path[p], k)

\* init waits, and the shell is at its prompt: nothing else is left.
AtRest == /\ Doing(initproc, "init_wait") /\ Doing(sh, "getcmd")
          /\ \A p \in Proc \ {initproc, sh} : state[p] = "UNUSED"

\* Once the user stops typing, the shell gets back to its prompt and every command
\* comes to its end and is reaped: no reader waits for a pipe that somebody who
\* waits for the reader has open.  When fork() fails, panic() ends the shell and init
\* starts another.  The exception is an init that finds no free process for it: it
\* exits, and the kernel panics.
ComesToRest == <>[](AtRest \/ Doing(initproc, "exit"))
=============================================================================
