------------------------------- MODULE FsTree -------------------------------
(***************************************************************************)
(* The inode table, directories and paths of kernel/fs.c, the file table   *)
(* of kernel/file.c, and the system calls of kernel/sysfile.c that change  *)
(* the tree: open, mkdir, mknod, link, unlink, chdir, dup, fstat, close,   *)
(* and the parts of fork() and exit() that share and drop files.           *)
(*                                                                         *)
(* The log (module Log) appears by what it promises: what was written when *)
(* the last of the calls under way ended is on the disk, and a crash       *)
(* returns to that.  What a stretch of code does while it holds the        *)
(* sleep-lock of an inode is one action when it takes no other lock than   *)
(* itable.lock or ftable.lock once.  The content of a directory is a       *)
(* function from names; the content of files is module FsData's subject.   *)
(***************************************************************************)
EXTENDS Naturals, Sequences, FiniteSets, FiniteSetsExt

CONSTANTS Proc, InitProc,
          Name,      \* names a directory can have entries for
          Call,      \* the calls of each process: [op, path, new], paths are sequences
          NINODES,   \* inodes on the disk, and root's is 1
          NINODE,    \* slots of the inode table
          NFILE, NOFILE

ASSUME FsTreeAssumption ==
  /\ InitProc \in Proc
  /\ NINODES \in Nat \ {0} /\ NINODE \in Nat \ {0} /\ NFILE \in Nat /\ NOFILE \in Nat
  /\ "." \notin Name /\ ".." \notin Name /\ "/" \notin Name

ROOTINO == 1
Inum == 1 .. NINODES
Slot == 1 .. NINODE
File == 1 .. NFILE
Fd == 0 .. NOFILE - 1
Nobody == "nobody"

VARIABLES
  disk,       \* dinodes and directory contents, as the running system sees them
  active,     \* the processes between begin_op() and end_op()
  itable, ftable,
  ofile, cwd, \* struct proc
  pr          \* where each process is in a system call, and its local variables

vars == <<disk, active, itable, ftable, ofile, cwd, pr>>

NoEnts == [n \in Name \cup {".", ".."} |-> 0]
FreeInode == [type |-> "none", nlink |-> 0, ents |-> NoEnts]
FreeSlot == [inum |-> 0, ref |-> 0, valid |-> FALSE, type |-> "none", nlink |-> 0, lock |-> Nobody]
FreeFile == [ref |-> 0, ip |-> 0]

\* A process outside of system calls, and one that does not exist.
Idle == [pc |-> "idle", op |-> "none", path |-> <<>>, new |-> <<>>, cur |-> 0,
         ip |-> 0, dp |-> 0, name |-> "", puts |-> <<>>, then |-> "idle"]
Unused == [Idle EXCEPT !.pc = "unused"]

\* What mkfs writes: the root directory, which is its own parent.
mkfs == [i \in Inum |-> IF i = ROOTINO
                        THEN [type |-> "DIR", nlink |-> 1,
                              ents |-> [NoEnts EXCEPT !["."] = ROOTINO, ![".."] = ROOTINO]]
                        ELSE FreeInode]

\* The state of a system that has just started: userinit() puts the first
\* process into the root directory.
Booted ==
  [itable |-> [s \in Slot |-> IF s = 1 THEN [FreeSlot EXCEPT !.inum = ROOTINO, !.ref = 1]
                              ELSE FreeSlot],
   ftable |-> [f \in File |-> FreeFile],
   ofile |-> [p \in Proc |-> [d \in Fd |-> 0]],
   cwd |-> [p \in Proc |-> IF p = InitProc THEN 1 ELSE 0],
   pr |-> [p \in Proc |-> IF p = InitProc THEN Idle ELSE Unused]]

Init ==
  /\ disk = mkfs
  /\ active = {}
  /\ itable = Booted.itable /\ ftable = Booted.ftable
  /\ ofile = Booted.ofile /\ cwd = Booted.cwd /\ pr = Booted.pr

\* Power failure, and recovery by the log.  It takes the disk back to the last
\* time when no call was under way, so that is the only time it need happen.
crash ==
  /\ active = {}
  /\ itable' = Booted.itable /\ ftable' = Booted.ftable
  /\ ofile' = Booted.ofile /\ cwd' = Booted.cwd /\ pr' = Booted.pr
  /\ UNCHANGED <<disk, active>>
-----------------------------------------------------------------------------
(* The inode table.  These operators take the table t and give the new one. *)

InTable(t, i) == {s \in Slot : t[s].ref > 0 /\ t[s].inum = i}

\* The slot iget() returns.
IgetSlot(t, i) == IF InTable(t, i) # {} THEN Min(InTable(t, i))
                  ELSE Min({s \in Slot : t[s].ref = 0})

iget(t, i) == LET s == IgetSlot(t, i) IN
              [t EXCEPT ![s] = IF @.ref > 0 THEN [@ EXCEPT !.ref = @ + 1]
                               ELSE [FreeSlot EXCEPT !.inum = i, !.ref = 1]]

idup(t, s) == [t EXCEPT ![s].ref = @ + 1]

\* The slot as ilock() leaves it, but for the lock: read from the disk if need be.
Loaded(s) == IF itable[s].valid THEN itable[s]
             ELSE LET d == disk[itable[s].inum] IN
                  [itable[s] EXCEPT !.valid = TRUE, !.type = d.type, !.nlink = d.nlink]

ilock(p, s) == [itable EXCEPT ![s] = [Loaded(s) EXCEPT !.lock = p]]
iunlock(t, s) == [t EXCEPT ![s].lock = Nobody]

\* ilock() goes on: the sleep-lock is free and the inode is not a free one.
CanLock(s) == itable[s].lock = Nobody /\ Loaded(s).type # "none"

\* iupdate() of the slot s of the table t, on the disk d.
iupdate(d, t, s) == [d EXCEPT ![t[s].inum].type = t[s].type, ![t[s].inum].nlink = t[s].nlink]

Ents(s) == disk[itable[s].inum].ents

\* mutant: the first condition of iput() does not ask for the last reference.
LastUnlinked_anyref(s) == itable[s].valid /\ itable[s].nlink = 0

\* The condition of iput(): truncate and free.
LastUnlinked(s) == itable[s].ref = 1 /\ itable[s].valid /\ itable[s].nlink = 0
-----------------------------------------------------------------------------
At(p, l) == pr[p].pc = l
Do(p, r) == pr' = [pr EXCEPT ![p] = r]

\* r, with nothing left but end_op(): only chdir() and exit() have more to do.
Ending(r) == [Idle EXCEPT !.pc = "end",
                          !.op = IF r.op \in {"chdir", "exit", "exited"} THEN r.op ELSE @,
                          !.ip = IF r.op = "chdir" THEN r.ip ELSE @]

\* r, gone on to iput() the slots q one by one, and then to l.
Puts(r, q, l) == [IF l = "end" THEN Ending(r) ELSE r EXCEPT !.pc = "iput", !.puts = q, !.then = l]

\* r, after iput() of the first of its slots.
Put(r) == IF Len(r.puts) > 1 THEN [r EXCEPT !.pc = "iput", !.puts = Tail(@)]
          ELSE IF r.then = "end" THEN Ending(r)
          ELSE [r EXCEPT !.pc = r.then, !.puts = <<>>, !.then = "idle"]

\* namex() gets its first inode.
StartSlot(p, path) == IF path # <<>> /\ Head(path) = "/" THEN IgetSlot(itable, ROOTINO) ELSE cwd[p]
StartTable(p, path, t) ==
  IF path # <<>> /\ Head(path) = "/" THEN iget(t, ROOTINO) ELSE idup(t, cwd[p])
Elems(path) == IF path # <<>> /\ Head(path) = "/" THEN Tail(path) ELSE path

\* A system call with a path: begin_op() and the start of namex()
syscall(p, c) ==
  /\ At(p, "idle")
  /\ active' = active \cup {p}
  /\ itable' = StartTable(p, c.path, itable)
  /\ Do(p, [Idle EXCEPT !.pc = "walk", !.op = c.op, !.path = Elems(c.path), !.new = c.new,
                        !.cur = StartSlot(p, c.path)])
  /\ UNCHANGED <<disk, ftable, ofile, cwd>>

\* Whether namex() is to stop at the parent, where it returns to, and where it
\* returns to with 0.
nameiparent(r) == r.op \in {"create", "mkdir", "mknod", "unlink", "link_new"}
Found(r) == CASE r.op = "open" -> "open"
              [] r.op = "chdir" -> "chdir"
              [] r.op = "link" -> "link"
              [] r.op = "link_new" -> "link_new"
              [] r.op = "unlink" -> "unlink"
              [] OTHER -> "create"
Fail(r) == IF r.op = "link_new" THEN "link_bad" ELSE "end"

\* One iteration of the loop of namex(): lock, look, unlock; the iput() follows.
walk(p) ==
  LET r == pr[p]
      s == r.cur
      t == [itable EXCEPT ![s] = Loaded(s)]
      i == Ents(s)[Head(r.path)]
  IN /\ At(p, "walk") /\ r.path # <<>> /\ CanLock(s)
     /\ \/ /\ Loaded(s).type # "DIR"
           /\ itable' = t /\ Do(p, Puts(r, <<s>>, Fail(r)))
        \/ /\ Loaded(s).type = "DIR" /\ nameiparent(r) /\ Len(r.path) = 1
           /\ itable' = t
           /\ Do(p, [r EXCEPT !.pc = Found(r), !.dp = s, !.name = Head(r.path),
                              !.path = <<>>, !.cur = 0])
        \/ /\ Loaded(s).type = "DIR" /\ ~(nameiparent(r) /\ Len(r.path) = 1) /\ i = 0
           /\ itable' = t /\ Do(p, Puts(r, <<s>>, Fail(r)))
        \/ /\ Loaded(s).type = "DIR" /\ ~(nameiparent(r) /\ Len(r.path) = 1) /\ i # 0
           /\ itable' = iget(t, i)
           /\ Do(p, Puts([r EXCEPT !.cur = IgetSlot(t, i), !.path = Tail(@)], <<s>>, "walk"))
     /\ UNCHANGED <<disk, active, ftable, ofile, cwd>>

\* The end of namex(): the path is used up.
walked(p) ==
  LET r == pr[p] IN
  /\ At(p, "walk") /\ r.path = <<>>
  /\ IF nameiparent(r) THEN Do(p, Puts(r, <<r.cur>>, Fail(r)))
     ELSE Do(p, [r EXCEPT !.pc = Found(r), !.ip = r.cur, !.cur = 0])
  /\ UNCHANGED <<disk, active, itable, ftable, ofile, cwd>>
-----------------------------------------------------------------------------
\* iput() when more remains of the inode: one reference less
iput(p) ==
  LET r == pr[p] IN
  /\ At(p, "iput") /\ ~LastUnlinked(Head(r.puts))
  /\ itable' = [itable EXCEPT ![Head(r.puts)].ref = @ - 1]
  /\ Do(p, Put(r))
  /\ UNCHANGED <<disk, active, ftable, ofile, cwd>>

\* iput() of the last reference to an inode without links takes its lock, with
\* itable.lock held ...
iput_last(p) ==
  LET s == Head(pr[p].puts) IN
  /\ At(p, "iput") /\ LastUnlinked(s)
  /\ itable[s].lock = Nobody
  /\ itable' = [itable EXCEPT ![s].lock = p]
  /\ Do(p, [pr[p] EXCEPT !.pc = "iput_free"])
  /\ UNCHANGED <<disk, active, ftable, ofile, cwd>>

\* The slot of an inode that iput() has freed.
Freed(x) == [x EXCEPT !.type = "none", !.nlink = 0, !.valid = FALSE, !.lock = Nobody]

\* ... and frees it with only that one held: itrunc(), type = 0, iupdate()
iput_free(p) ==
  LET s == Head(pr[p].puts) IN
  /\ At(p, "iput_free")
  /\ disk' = [disk EXCEPT ![itable[s].inum] = FreeInode]
  /\ itable' = [itable EXCEPT ![s] = Freed(@)]
  /\ Do(p, [pr[p] EXCEPT !.pc = "iput_dec"])
  /\ UNCHANGED <<active, ftable, ofile, cwd>>

iput_dec(p) ==
  LET s == Head(pr[p].puts) IN
  /\ At(p, "iput_dec")
  /\ itable' = [itable EXCEPT ![s].ref = @ - 1]
  /\ Do(p, Put(pr[p]))
  /\ UNCHANGED <<disk, active, ftable, ofile, cwd>>

\* iunlockput(dp) after something else was put
put_dp(p) ==
  LET s == pr[p].dp IN
  /\ At(p, "put_dp")
  /\ itable' = iunlock(itable, s)
  /\ Do(p, Puts(pr[p], <<s>>, "end"))
  /\ UNCHANGED <<disk, active, ftable, ofile, cwd>>

\* end_op(), and what is left of the system call after it
end_op(p) ==
  LET r == pr[p] IN
  /\ At(p, "end")
  /\ active' = active \ {p}
  /\ cwd' = [cwd EXCEPT ![p] = IF r.op = "chdir" /\ r.ip # 0 THEN r.ip
                               ELSE IF r.op = "exited" THEN 0 ELSE @]
  /\ Do(p, CASE r.op = "exit" -> [Idle EXCEPT !.pc = "exit"]
             [] r.op = "exited" -> Unused
             [] OTHER -> Idle)
  /\ UNCHANGED <<disk, itable, ftable, ofile>>
-----------------------------------------------------------------------------
\* sys_chdir() after namei(); iput(p->cwd)
chdir(p) ==
  LET r == pr[p] IN
  /\ At(p, "chdir") /\ CanLock(r.ip)
  /\ itable' = [itable EXCEPT ![r.ip] = Loaded(r.ip)]
  /\ IF Loaded(r.ip).type = "DIR"
     THEN Do(p, Puts(r, <<cwd[p]>>, "end"))
     ELSE Do(p, Puts([r EXCEPT !.ip = 0], <<r.ip>>, "end"))
  /\ UNCHANGED <<disk, active, ftable, ofile, cwd>>

\* sys_open() without O_CREATE after namei(), for writing if w
open(p, w) ==
  LET r == pr[p] IN
  /\ At(p, "open") /\ CanLock(r.ip)
  /\ IF Loaded(r.ip).type = "DIR" /\ w
     THEN /\ itable' = [itable EXCEPT ![r.ip] = Loaded(r.ip)]
          /\ Do(p, Puts(r, <<r.ip>>, "end"))
     ELSE /\ itable' = ilock(p, r.ip)
          /\ Do(p, [r EXCEPT !.pc = "open_file"])
  /\ UNCHANGED <<disk, active, ftable, ofile, cwd>>

\* The rest of sys_open(), with ip locked: filealloc(), fdalloc().  It fails when
\* one of them does, or for a device whose major number is out of range.
open_file(p, badmajor) ==
  LET r == pr[p]
      f == {g \in File : ftable[g].ref = 0}
      fd == {d \in Fd : ofile[p][d] = 0}
  IN /\ At(p, "open_file")
     /\ itable' = iunlock(itable, r.ip)
     /\ IF f = {} \/ fd = {} \/ (itable[r.ip].type = "DEVICE" /\ badmajor)
        THEN Do(p, Puts(r, <<r.ip>>, "end")) /\ UNCHANGED <<ftable, ofile>>
        ELSE /\ ftable' = [ftable EXCEPT ![Min(f)] = [ref |-> 1, ip |-> r.ip]]
             /\ ofile' = [ofile EXCEPT ![p][Min(fd)] = Min(f)]
             /\ Do(p, Ending(r))
     /\ UNCHANGED <<disk, active, cwd>>
-----------------------------------------------------------------------------
CreateType(r) == CASE r.op = "create" -> "FILE" [] r.op = "mkdir" -> "DIR" [] OTHER -> "DEVICE"

\* create() after nameiparent(): the entry is there, or ialloc() gives an inode,
\* or there is none
create(p) ==
  LET r == pr[p]
      t == ilock(p, r.dp)
      i == Ents(r.dp)[r.name]
      new == {j \in Inum : disk[j].type = "none"}
  IN /\ At(p, "create") /\ CanLock(r.dp)
     /\ \/ /\ i # 0
           /\ itable' = iunlock(iget(t, i), r.dp)
           /\ Do(p, Puts([r EXCEPT !.ip = IgetSlot(t, i), !.dp = 0], <<r.dp>>, "create_old"))
           /\ UNCHANGED disk
        \/ /\ i = 0 /\ new = {}
           /\ itable' = iunlock(t, r.dp)
           /\ Do(p, Puts(r, <<r.dp>>, "end"))
           /\ UNCHANGED disk
        \/ /\ i = 0 /\ new # {}
           /\ disk' = [disk EXCEPT ![Min(new)] = [FreeInode EXCEPT !.type = CreateType(r)]]
           /\ itable' = iget(t, Min(new))
           /\ Do(p, [r EXCEPT !.pc = "create_new", !.ip = IgetSlot(t, Min(new))])
     /\ UNCHANGED <<active, ftable, ofile, cwd>>

\* create() of what exists: fine for open() of something that is no directory
create_old(p) ==
  LET r == pr[p] IN
  /\ At(p, "create_old") /\ CanLock(r.ip)
  /\ IF r.op = "create" /\ Loaded(r.ip).type \in {"FILE", "DEVICE"}
     THEN itable' = ilock(p, r.ip) /\ Do(p, [r EXCEPT !.pc = "open_file"])
     ELSE /\ itable' = [itable EXCEPT ![r.ip] = Loaded(r.ip)]
          /\ Do(p, Puts(r, <<r.ip>>, "end"))
  /\ UNCHANGED <<disk, active, ftable, ofile, cwd>>

\* mutant: no dp->nlink++ for the ".." of a new directory.
DotDot_uncounted(r) == 0

\* How much a new entry adds to its directory's nlink.
DotDot(r) == IF r.op = "mkdir" THEN 1 ELSE 0

\* create() fills in the new inode, with dp still locked.  ok: the dirlink()s find
\* the disk blocks they need
create_new(p, ok) ==
  LET r == pr[p]
      i == itable[r.ip].inum
      d == itable[r.dp].inum
      t == [ilock(p, r.ip) EXCEPT ![r.ip].nlink = IF ok THEN 1 ELSE 0,
                                  ![r.dp].nlink = IF ok THEN @ + DotDot(r) ELSE @]
  IN /\ At(p, "create_new") /\ CanLock(r.ip)
     /\ IF ok
        THEN /\ disk' = [iupdate(iupdate(disk, t, r.ip), t, r.dp) EXCEPT
                          ![i].ents = IF r.op = "mkdir"
                                      THEN [NoEnts EXCEPT !["."] = i, ![".."] = d] ELSE NoEnts,
                          ![d].ents[r.name] = i]
             /\ itable' = iunlock(t, r.dp)
             /\ Do(p, Puts([r EXCEPT !.dp = 0], <<r.dp>>,
                           IF r.op = "create" THEN "open_file" ELSE "created"))
        ELSE /\ disk' = iupdate(disk, t, r.ip)
             /\ itable' = iunlock(t, r.ip)
             /\ Do(p, Puts(r, <<r.ip>>, "put_dp"))
     /\ UNCHANGED <<active, ftable, ofile, cwd>>

\* sys_mkdir() and sys_mknod(): iunlockput() of what create() made
created(p) ==
  LET r == pr[p] IN
  /\ At(p, "created")
  /\ itable' = iunlock(itable, r.ip)
  /\ Do(p, Puts(r, <<r.ip>>, "end"))
  /\ UNCHANGED <<disk, active, ftable, ofile, cwd>>
-----------------------------------------------------------------------------
\* mutant: iupdate() is forgotten after ip->nlink++.
Nlink_memory(t, s) == disk

\* iupdate() of a changed nlink.
Nlink(t, s) == iupdate(disk, t, s)

\* sys_link() after namei(old); nameiparent(new) starts
link(p) ==
  LET r == pr[p]
      t == [itable EXCEPT ![r.ip] = [Loaded(r.ip) EXCEPT !.nlink = @ + 1]]
  IN /\ At(p, "link") /\ CanLock(r.ip)
     /\ IF Loaded(r.ip).type = "DIR"
        THEN /\ itable' = [itable EXCEPT ![r.ip] = Loaded(r.ip)]
             /\ Do(p, Puts(r, <<r.ip>>, "end"))
             /\ UNCHANGED disk
        ELSE /\ disk' = Nlink(t, r.ip)
             /\ itable' = StartTable(p, r.new, t)
             /\ Do(p, [r EXCEPT !.pc = "walk", !.op = "link_new", !.path = Elems(r.new),
                                !.new = <<>>, !.cur = StartSlot(p, r.new)])
     /\ UNCHANGED <<active, ftable, ofile, cwd>>

\* sys_link(): dirlink(dp, name); ok as in create_new
link_new(p, ok) ==
  LET r == pr[p]
      t == [itable EXCEPT ![r.dp] = Loaded(r.dp)]
      i == Ents(r.dp)[r.name]
  IN /\ At(p, "link_new") /\ CanLock(r.dp)
     /\ IF i = 0 /\ ok
        THEN /\ disk' = [disk EXCEPT ![itable[r.dp].inum].ents[r.name] = itable[r.ip].inum]
             /\ itable' = t
             /\ Do(p, Puts(r, <<r.dp, r.ip>>, "end"))
        ELSE /\ itable' = IF i = 0 THEN t ELSE iget(ilock(p, r.dp), i)
             /\ Do(p, IF i = 0 THEN Puts([r EXCEPT !.dp = 0], <<r.dp>>, "link_bad")
                      ELSE Puts(r, <<IgetSlot(itable, i)>>, "link_exists"))
             /\ UNCHANGED disk
     /\ UNCHANGED <<active, ftable, ofile, cwd>>

\* dirlink() found the name, and has put what it found
link_exists(p) ==
  LET s == pr[p].dp IN
  /\ At(p, "link_exists")
  /\ itable' = iunlock(itable, s)
  /\ Do(p, Puts([pr[p] EXCEPT !.dp = 0], <<s>>, "link_bad"))
  /\ UNCHANGED <<disk, active, ftable, ofile, cwd>>

\* bad: the link is taken back
link_bad(p) ==
  LET r == pr[p]
      t == [itable EXCEPT ![r.ip] = [Loaded(r.ip) EXCEPT !.nlink = @ - 1]]
  IN /\ At(p, "link_bad") /\ CanLock(r.ip)
     /\ disk' = Nlink(t, r.ip)
     /\ itable' = t
     /\ Do(p, Puts(r, <<r.ip>>, "end"))
     /\ UNCHANGED <<active, ftable, ofile, cwd>>
-----------------------------------------------------------------------------
\* sys_unlink() after nameiparent(): lock dp and look the name up
unlink(p) ==
  LET r == pr[p]
      i == Ents(r.dp)[r.name]
  IN /\ At(p, "unlink") /\ CanLock(r.dp)
     /\ IF r.name \notin {".", ".."} /\ i # 0
        THEN /\ itable' = iget(ilock(p, r.dp), i)
             /\ Do(p, [r EXCEPT !.pc = "unlink_ip", !.ip = IgetSlot(itable, i)])
        ELSE /\ itable' = [itable EXCEPT ![r.dp] = Loaded(r.dp)]
             /\ Do(p, Puts(r, <<r.dp>>, "end"))
     /\ UNCHANGED <<disk, active, ftable, ofile, cwd>>

isdirempty(s) == \A n \in Name : Ents(s)[n] = 0

\* sys_unlink(): lock ip too, erase the entry, unlock dp
unlink_ip(p) ==
  LET r == pr[p]
      dir == Loaded(r.ip).type = "DIR"
      t == [ilock(p, r.ip) EXCEPT ![r.dp].nlink = IF dir THEN @ - 1 ELSE @]
  IN /\ At(p, "unlink_ip") /\ CanLock(r.ip) /\ Loaded(r.ip).nlink > 0
     /\ IF dir /\ ~isdirempty(r.ip)
        THEN /\ itable' = [itable EXCEPT ![r.ip] = Loaded(r.ip)]
             /\ Do(p, Puts([r EXCEPT !.ip = 0], <<r.ip>>, "put_dp"))
             /\ UNCHANGED disk
        ELSE /\ disk' = [iupdate(disk, t, r.dp) EXCEPT ![t[r.dp].inum].ents[r.name] = 0]
             /\ itable' = iunlock(t, r.dp)
             /\ Do(p, Puts([r EXCEPT !.dp = 0], <<r.dp>>, "unlinked"))
     /\ UNCHANGED <<active, ftable, ofile, cwd>>

\* sys_unlink(): ip->nlink--, with ip still locked
unlinked(p) ==
  LET r == pr[p]
      t == [itable EXCEPT ![r.ip].nlink = @ - 1]
  IN /\ At(p, "unlinked")
     /\ disk' = Nlink(t, r.ip)
     /\ itable' = iunlock(t, r.ip)
     /\ Do(p, Puts(r, <<r.ip>>, "end"))
     /\ UNCHANGED <<active, ftable, ofile, cwd>>
-----------------------------------------------------------------------------
\* mutant: the reference counts of the files are not raised.
filedup_not(F) == ftable

\* filedup() of every file f, F[f] times
filedup(F) == [f \in File |-> [ftable[f] EXCEPT !.ref = @ + F[f]]]

sys_dup(p, fd) ==
  LET new == {d \in Fd : ofile[p][d] = 0} IN
  /\ At(p, "idle") /\ ofile[p][fd] # 0 /\ new # {}
  /\ ofile' = [ofile EXCEPT ![p][Min(new)] = ofile[p][fd]]
  /\ ftable' = filedup([f \in File |-> IF f = ofile[p][fd] THEN 1 ELSE 0])
  /\ UNCHANGED <<disk, active, itable, cwd, pr>>

\* fork(): the child q shares p's files and directory
fork(p, q) ==
  /\ At(p, "idle") /\ At(q, "unused")
  /\ ofile' = [ofile EXCEPT ![q] = ofile[p]]
  /\ ftable' = filedup([f \in File |-> Cardinality({d \in Fd : ofile[p][d] = f})])
  /\ itable' = idup(itable, cwd[p])
  /\ cwd' = [cwd EXCEPT ![q] = cwd[p]]
  /\ Do(q, Idle)
  /\ UNCHANGED <<disk, active>>

\* filestat(), and the frame of fileread() and filewrite(): ilock(), iunlock()
filestat(p, fd) ==
  LET s == ftable[ofile[p][fd]].ip IN
  /\ At(p, "idle") /\ ofile[p][fd] # 0 /\ CanLock(s)
  /\ itable' = [itable EXCEPT ![s] = Loaded(s)]
  /\ UNCHANGED <<disk, active, ftable, ofile, cwd, pr>>

\* sys_close(), and exit() for each file: the descriptor is cleared, and
\* fileclose() gives up a reference
fileclose(p, fd) ==
  LET f == ofile[p][fd] IN
  /\ pr[p].pc \in {"idle", "exit"} /\ f # 0
  /\ ofile' = [ofile EXCEPT ![p][fd] = 0]
  /\ IF ftable[f].ref = 1
     THEN /\ ftable' = [ftable EXCEPT ![f] = FreeFile]
          /\ Do(p, [Idle EXCEPT !.pc = "close", !.op = IF At(p, "exit") THEN "exit" ELSE "close",
                                !.ip = ftable[f].ip])
     ELSE ftable' = [ftable EXCEPT ![f].ref = @ - 1] /\ UNCHANGED pr
  /\ UNCHANGED <<disk, active, itable, cwd>>

\* fileclose(): begin_op(), and iput() of the copied ff.ip
close_op(p) ==
  /\ At(p, "close")
  /\ active' = active \cup {p}
  /\ Do(p, Puts(pr[p], <<pr[p].ip>>, "end"))
  /\ UNCHANGED <<disk, itable, ftable, ofile, cwd>>

exit(p) ==
  /\ At(p, "idle") /\ p # InitProc
  /\ Do(p, [Idle EXCEPT !.pc = "exit"])
  /\ UNCHANGED <<disk, active, itable, ftable, ofile, cwd>>

\* exit() after its files: begin_op(), iput(p->cwd), end_op()
exit_cwd(p) ==
  /\ At(p, "exit") /\ \A d \in Fd : ofile[p][d] = 0
  /\ active' = active \cup {p}
  /\ Do(p, Puts([Idle EXCEPT !.op = "exited"], <<cwd[p]>>, "end"))
  /\ UNCHANGED <<disk, itable, ftable, ofile, cwd>>
-----------------------------------------------------------------------------
Next ==
  \/ \E p \in Proc :
       \/ \E c \in Call[p] : syscall(p, c)
       \/ walk(p) \/ walked(p) \/ iput(p) \/ iput_last(p) \/ iput_free(p) \/ iput_dec(p)
       \/ put_dp(p) \/ end_op(p) \/ chdir(p) \/ create(p) \/ create_old(p)
       \/ created(p) \/ link(p) \/ link_exists(p) \/ link_bad(p)
       \/ unlink(p) \/ unlink_ip(p) \/ unlinked(p) \/ close_op(p) \/ exit(p) \/ exit_cwd(p)
       \/ \E b \in BOOLEAN : open(p, b) \/ open_file(p, b) \/ create_new(p, b) \/ link_new(p, b)
       \/ \E fd \in Fd : sys_dup(p, fd) \/ filestat(p, fd) \/ fileclose(p, fd)
       \/ \E q \in Proc : fork(p, q)
  \/ crash

Spec == Init /\ [][Next]_vars
-----------------------------------------------------------------------------
\* The inode that p is about to lock, or 0.
Locking(p) ==
  LET r == pr[p] IN
  CASE r.pc = "walk" /\ r.path # <<>> -> r.cur
    [] r.pc \in {"open", "chdir", "link", "link_bad", "create_old", "create_new", "unlink_ip"} -> r.ip
    [] r.pc \in {"create", "unlink", "link_new"} -> r.dp
    [] OTHER -> 0

\* The panics of ilock() ("ilock: no type"), dirlookup() ("dirlookup not DIR") and
\* sys_unlink() ("unlink: nlink < 1") are not reached, and the acquiresleep() of
\* iput(), which runs with a spin-lock held, finds the lock free, as its comment
\* says.  An inode that a path, a descriptor or a working directory leads to is
\* thus never freed under whoever is about to use it.
NoPanic ==
  \A p \in Proc :
    LET s == Locking(p) IN
    /\ s # 0 /\ itable[s].lock = Nobody =>
         /\ itable[s].ref > 0 /\ Loaded(s).type # "none"
         /\ pr[p].pc \in {"create", "unlink", "link_new"} => Loaded(s).type = "DIR"
         /\ pr[p].pc = "unlink_ip" => Loaded(s).nlink > 0
    /\ At(p, "iput") /\ LastUnlinked(Head(pr[p].puts)) =>
         itable[Head(pr[p].puts)].lock = Nobody
    /\ \A fd \in Fd : LET f == ofile[p][fd] IN
         f # 0 => /\ ftable[f].ref > 0 /\ itable[ftable[f].ip].ref > 0
                  /\ itable[ftable[f].ip].lock = Nobody => Loaded(ftable[f].ip).type # "none"

\* The directories that can be reached from the root of the file system d.
RECURSIVE Reach(_, _)
Reach(d, R) == LET S == R \cup {d[i].ents[n] : i \in R, n \in Name}
                   D == {i \in S \ {0} : d[i].type = "DIR"}
               IN IF D = R THEN R ELSE Reach(d, D)

\* The directory entries for i, but for ".", in the directories R.
Links(d, R, i) == {<<j, n>> \in R \X (Name \cup {".."}) : d[j].ents[n] = i}

\* What a crash leaves is a tree that can be used.  Whenever no call is under way
\* every entry of a directory that can be reached is for an allocated inode, no
\* inode has more such entries than its nlink says, and "." and ".." are the
\* directory and one that has it.
CrashConsistent ==
  LET R == Reach(disk, {ROOTINO}) IN
  active = {} =>
    /\ \A i \in R :
         /\ disk[i].ents["."] = i
         /\ disk[i].ents[".."] \in R
         /\ i # ROOTINO => \E n \in Name : disk[disk[i].ents[".."]].ents[n] = i
         /\ \A n \in Name : LET j == disk[i].ents[n] IN j # 0 => disk[j].type # "none"
    /\ \A i \in Inum : Cardinality(Links(disk, R, i)) <= disk[i].nlink

\* The table has one slot for an inode, and a valid slot nobody has locked says what
\* the disk says: every change was followed by iupdate().
CacheCoherent ==
  /\ \A s, t \in Slot : itable[s].ref > 0 /\ itable[t].ref > 0 /\ s # t =>
                         itable[s].inum # itable[t].inum
  /\ \A s \in Slot : itable[s].ref > 0 /\ itable[s].valid /\ itable[s].lock = Nobody =>
                      LET d == disk[itable[s].inum] IN
                      itable[s].type = d.type /\ itable[s].nlink = d.nlink

\* When no system call is under way the references are those of the open files and
\* the working directories, and a file's are the descriptors: no path through the
\* calls, failing ones included, loses or keeps one.
RefsExact ==
  (\A p \in Proc : pr[p].pc \in {"idle", "unused"}) =>
    /\ \A s \in Slot :
         /\ itable[s].lock = Nobody
         /\ itable[s].ref = Cardinality({p \in Proc : cwd[p] = s}) +
                           Cardinality({f \in File : ftable[f].ref > 0 /\ ftable[f].ip = s})
    /\ \A f \in File :
         ftable[f].ref = Cardinality({<<p, d>> \in Proc \X Fd : ofile[p][d] = f})
=============================================================================
