------------------------------- MODULE Memory -------------------------------
(***************************************************************************)
(* Physical pages and user address spaces: kernel/kalloc.c, the user half  *)
(* of kernel/vm.c, exec() and sys_exec(), growproc(), and what allocproc(),*)
(* fork(), freeproc() of kernel/proc.c do with memory.                     *)
(*                                                                         *)
(* Processes meet in the free list, where another one may take the last    *)
(* page between two iterations of a loop; page tables are private.  Each   *)
(* iteration that allocates a page is an action.  Sizes are in bytes, and  *)
(* addresses in pages; what a page holds is one value.                     *)
(***************************************************************************)
EXTENDS Integers, FiniteSets, Sequences, FiniteSetsExt, SequencesExt, TLC

CONSTANTS NPROC, NPAGE,
          PGSIZE, NPTE, LEVELS,   \* 4096 bytes, 512 entries, 3 levels
          UINT64,                 \* 2^64
          Incr, MAXSZ,            \* the increments given to sbrk(), and a bound on the size
          Store,                  \* the pages that programs write to
          Program                 \* what exec() is called with

Proc == 1 .. NPROC
initproc == 1
Page == 1 .. NPAGE
PGROUNDUP(b) == (b + PGSIZE - 1) \div PGSIZE      \* as a number of pages
MAXVA == NPTE ^ LEVELS
TRAMPOLINE == MAXVA - 1
TRAPFRAME == MAXVA - 2
trampoline == 0                                   \* a page of the kernel's text

\* Memory runs out before the user part of an address space does: PHYSTOP is
\* 128 megabytes above the kernel, TRAPFRAME is at 2^38.
ASSUME MemoryAssumption ==
  /\ NPROC \in Nat \ {0} /\ PGSIZE \in Nat \ {0} /\ NPTE \in Nat \ {0, 1} /\ LEVELS \in Nat \ {0}
  /\ NPAGE \in Nat /\ NPAGE < TRAPFRAME
  /\ Incr \subseteq Int

Junk == -1
Text == NPROC + 1
Argv == NPROC + 2

VARIABLES
  freelist,                    \* the pages in kmem.freelist
  mem,                         \* what each page holds
  pagetable, trapframe, sz,    \* of each process
  pc, np, a, newsz,            \* where a process is in the kernel, and its locals
  new, nsz, prog, ph, argv,    \* those of exec()
  image,                       \* what each program is to find at the addresses it may use
  panic                        \* whether panic() was called

kmem == <<freelist, mem>>
execs == <<new, nsz, prog, ph, argv>>
vars == <<kmem, pagetable, trapframe, sz, pc, np, a, newsz, execs, image, panic>>

Goto(p, l) == pc' = [pc EXCEPT ![p] = l]
-----------------------------------------------------------------------------
(* Page tables: tab gives the page of each table page, leaf of each mapped   *)
(* address; u is the addresses with PTE_U.                                   *)
NoTable == [tab |-> <<>>, leaf |-> <<>>, u |-> {}]
Exists(t) == t.tab # <<>>

Without(g, S) == [x \in DOMAIN g \ S |-> g[x]]
Pages(g) == {g[x] : x \in DOMAIN g} \cap Page

\* What the next calls of kalloc() return, as many as an action makes at most.
FreePages == [j \in 1 .. Min({Cardinality(freelist), LEVELS + 2}) |->
                CHOOSE q \in freelist : Cardinality({r \in freelist : r < q}) = j - 1]

\* The table pages on the way to v, from the root, that do not exist.
Missing(t, v) ==
  SelectSeq([l \in 1 .. LEVELS |-> <<LEVELS - l, v \div NPTE ^ (LEVELS - l + 1)>>],
            LAMBDA x : x \notin DOMAIN t.tab)

\* walk(t, v, 1), with the pages P to allocate from: what it allocated stays in the
\* table when it fails.
walk(t, v, P) ==
  LET M == Missing(t, v)
      k == Min({Len(M), Len(P)})
  IN [ok |-> k = Len(M),
      used |-> {P[j] : j \in 1 .. k},
      t |-> [t EXCEPT !.tab = @ @@ [x \in {M[j] : j \in 1 .. k} |->
                                      P[CHOOSE j \in 1 .. k : M[j] = x]]]]

\* mutant: a page whose mapping failed is kept.
Kept_page(pg, w) == w.used \cup {pg}

\* What is gone from the free list after mappages() of pg: kfree(mem) if it failed.
Kept(pg, w) == IF w.ok THEN w.used \cup {pg} ELSE w.used

\* kalloc() and mappages() of the page at v.
MapNew(t, v, user) ==
  IF FreePages = <<>> THEN [ok |-> FALSE, used |-> {}, t |-> t, pg |-> 0]
  ELSE LET pg == FreePages[1]
           w == walk(t, v, Tail(FreePages))
       IN [ok |-> w.ok, used |-> Kept(pg, w), pg |-> pg,
           t |-> IF w.ok THEN [w.t EXCEPT !.leaf = @ @@ (v :> pg),
                                          !.u = IF user THEN @ \cup {v} ELSE @]
                 ELSE w.t]

\* uvmunmap()
Unmap(t, S) == [t EXCEPT !.leaf = Without(@, S), !.u = @ \ S]
UnmapPanics(t, S) == ~(S \subseteq DOMAIN t.leaf)
Leaves(t, S) == {t.leaf[v] : v \in S \cap DOMAIN t.leaf}

\* walkaddr()
walkaddr(t, v) == IF v \in t.u THEN t.leaf[v] ELSE 0

Range0(b) == 0 .. PGROUNDUP(b) - 1

\* proc_pagetable() with the pages P: the two mappings share their tables, so that
\* the second does not fail.
proc_pagetable(tf, P) ==
  LET w == walk(NoTable, TRAMPOLINE, P) IN
  [w EXCEPT !.t.leaf = (TRAMPOLINE :> trampoline) @@ (TRAPFRAME :> tf)]

\* proc_freepagetable(): the pages it frees, and whether it panics; uvmunmap()
\* must find what it unmaps, and freewalk() no leaf.
Freed(t, b) == Pages(t.tab) \cup Leaves(t, Range0(b))
FreePanics(t, b) == DOMAIN t.leaf # Range0(b) \cup {TRAMPOLINE, TRAPFRAME}

\* Pages move from and to the free list; kfree() fills them with junk.
Kalloc(used, S) ==
  /\ freelist' = (freelist \ used) \cup S
  /\ mem' = [q \in Page |-> IF q \in S THEN Junk ELSE mem[q]]
-----------------------------------------------------------------------------
\* kinit(), and userinit() with the one page of initcode
Init ==
  LET tf == 1
      w == proc_pagetable(tf, [j \in 1 .. LEVELS |-> j + 1])
      pg == LEVELS + 2
      x == walk(w.t, 0, [j \in 1 .. LEVELS |-> j + pg])
      t == [x.t EXCEPT !.leaf = @ @@ (0 :> pg), !.u = {0}]
  IN /\ freelist = Page \ ({tf, pg} \cup w.used \cup x.used)
     /\ mem = [q \in Page |-> IF q = pg THEN Text ELSE Junk]
     /\ pagetable = [p \in Proc |-> IF p = initproc THEN t ELSE NoTable]
     /\ trapframe = [p \in Proc |-> IF p = initproc THEN tf ELSE 0]
     /\ sz = [p \in Proc |-> IF p = initproc THEN PGSIZE ELSE 0]
     /\ pc = [p \in Proc |-> IF p = initproc THEN "user" ELSE "unused"]
     /\ np = [p \in Proc |-> 0] /\ a = np /\ newsz = np
     /\ new = [p \in Proc |-> NoTable]
     /\ nsz = np /\ ph = np
     /\ prog = [p \in Proc |-> <<>>]
     /\ argv = [p \in Proc |-> {}]
     /\ image = [p \in Proc |-> IF p = initproc THEN (0 :> Text) ELSE <<>>]
     /\ panic = FALSE
-----------------------------------------------------------------------------
\* Back to user space; dead locals are forgotten.
Return(p) ==
  /\ Goto(p, "user")
  /\ np' = [np EXCEPT ![p] = 0] /\ a' = [a EXCEPT ![p] = 0] /\ newsz' = [newsz EXCEPT ![p] = 0]

\* A range of pages is written, with copyout() or by the program: copyout() ends at
\* the first address that walkaddr() refuses.
copyout(p, v, k) ==
  LET Upto(S) == {w \in v .. v + k - 1 : (v .. w) \subseteq S}
      W == Upto(pagetable[p].u)
  IN /\ pc[p] = "user"
     /\ mem' = [q \in Page |-> IF q \in Leaves(pagetable[p], W) THEN p ELSE mem[q]]
     /\ image' = [image EXCEPT ![p] = [w \in DOMAIN @ |-> IF w \in Upto(DOMAIN @) THEN p ELSE @[w]]]
     /\ UNCHANGED <<freelist, pagetable, trapframe, sz, pc, np, a, newsz, execs, panic>>

\* sbrk(n), n > 0: growproc() calls uvmalloc()
sbrk_grow(p, n) ==
  /\ pc[p] = "user" /\ n > 0 /\ sz[p] + n <= MAXSZ
  /\ Goto(p, "grow")
  /\ a' = [a EXCEPT ![p] = PGROUNDUP(sz[p])]
  /\ newsz' = [newsz EXCEPT ![p] = sz[p] + n]
  /\ UNCHANGED <<kmem, pagetable, trapframe, sz, np, execs, image, panic>>

\* mutant: the size is rounded down.
Cut_down(b, old) == (b \div PGSIZE) .. PGROUNDUP(old) - 1

\* The pages that uvmdealloc() unmaps to shrink from old to b.
Cut(b, old) == PGROUNDUP(b) .. PGROUNDUP(old) - 1

\* sbrk(n), n < 0: uvmdealloc(); nothing when sz + n wraps around
sbrk_shrink(p, n) ==
  LET b == (sz[p] + n) % UINT64
      S == Cut(b, sz[p])
  IN /\ pc[p] = "user" /\ n < 0 /\ b < sz[p]
     /\ sz' = [sz EXCEPT ![p] = b]
     /\ pagetable' = [pagetable EXCEPT ![p] = Unmap(@, S)]
     /\ Kalloc({}, Leaves(pagetable[p], S))
     /\ image' = [image EXCEPT ![p] = Without(@, {v \in DOMAIN @ : v * PGSIZE >= b})]
     /\ panic' = (panic \/ UnmapPanics(pagetable[p], S))
     /\ UNCHANGED <<trapframe, pc, np, a, newsz, execs>>

\* An iteration of uvmalloc() in growproc(); uvmdealloc() if it fails
grow(p) ==
  LET r == MapNew(pagetable[p], a[p], TRUE)
      S == PGROUNDUP(sz[p]) .. a[p] - 1
  IN /\ pc[p] = "grow" /\ a[p] * PGSIZE < newsz[p]
     /\ IF r.ok
        THEN /\ pagetable' = [pagetable EXCEPT ![p] = r.t]
             /\ freelist' = freelist \ r.used
             /\ mem' = [mem EXCEPT ![r.pg] = 0]
             /\ a' = [a EXCEPT ![p] = @ + 1]
             /\ panic' = (panic \/ a[p] \in DOMAIN pagetable[p].leaf)
             /\ UNCHANGED <<pc, np, newsz>>
        ELSE /\ pagetable' = [pagetable EXCEPT ![p] = Unmap(r.t, S)]
             /\ Kalloc(r.used, Leaves(r.t, S))
             /\ panic' = (panic \/ UnmapPanics(r.t, S))
             /\ Return(p)
     /\ UNCHANGED <<trapframe, sz, execs, image>>

grow_end(p) ==
  /\ pc[p] = "grow" /\ a[p] * PGSIZE >= newsz[p]
  /\ sz' = [sz EXCEPT ![p] = newsz[p]]
  /\ image' = [image EXCEPT ![p] = @ @@ [v \in PGROUNDUP(sz[p]) .. a[p] - 1 |-> 0]]
  /\ Return(p)
  /\ UNCHANGED <<kmem, pagetable, trapframe, execs, panic>>
-----------------------------------------------------------------------------
\* fork(): allocproc() takes a trapframe and a page table; it gives back what it
\* got when there is not enough
fork(p) ==
  \E c \in Proc :
    LET w == proc_pagetable(FreePages[1], Tail(FreePages)) IN
    /\ pc[p] = "user" /\ pc[c] = "unused"
    /\ FreePages # <<>> /\ w.ok
    /\ pc' = [pc EXCEPT ![p] = "copy", ![c] = "used"]
    /\ np' = [np EXCEPT ![p] = c]
    /\ trapframe' = [trapframe EXCEPT ![c] = FreePages[1]]
    /\ pagetable' = [pagetable EXCEPT ![c] = w.t]
    /\ Kalloc(w.used \cup {FreePages[1]}, {})
    /\ UNCHANGED <<sz, a, newsz, execs, image, panic>>

\* freeproc(): the pages, and the fields
FreedProc(c) == {trapframe[c]} \cup Freed(pagetable[c], sz[c])

\* mutant: the page that failed is unmapped too.
Copied_more(i) == 0 .. i

\* What uvmcopy() unmaps when it fails at page i.
Copied(i) == 0 .. i - 1

\* An iteration of uvmcopy() in fork(); if it fails, what was copied is unmapped
\* and freeproc() frees the rest
uvmcopy(p) ==
  LET c == np[p]
      v == a[p]
      r == MapNew(pagetable[c], v, v \in pagetable[p].u)
      S == Copied(v)
  IN /\ pc[p] = "copy" /\ v * PGSIZE < sz[p]
     /\ IF r.ok
        THEN /\ pagetable' = [pagetable EXCEPT ![c] = r.t]
             /\ freelist' = freelist \ r.used
             /\ mem' = [mem EXCEPT ![r.pg] = mem[pagetable[p].leaf[v]]]
             /\ a' = [a EXCEPT ![p] = v + 1]
             /\ panic' = (panic \/ v \notin DOMAIN pagetable[p].leaf)
             /\ UNCHANGED <<pc, np, newsz, trapframe>>
        ELSE /\ Kalloc(r.used, {trapframe[c]} \cup Leaves(r.t, S) \cup Freed(Unmap(r.t, S), sz[c]))
             /\ pagetable' = [pagetable EXCEPT ![c] = NoTable]
             /\ trapframe' = [trapframe EXCEPT ![c] = 0]
             /\ panic' = (panic \/ UnmapPanics(r.t, S) \/ FreePanics(Unmap(r.t, S), sz[c]))
             /\ np' = [np EXCEPT ![p] = 0] /\ a' = [a EXCEPT ![p] = 0]
             /\ pc' = [pc EXCEPT ![p] = "user", ![c] = "unused"]
             /\ UNCHANGED newsz
     /\ UNCHANGED <<sz, execs, image>>

fork_end(p) ==
  LET c == np[p] IN
  /\ pc[p] = "copy" /\ a[p] * PGSIZE >= sz[p]
  /\ sz' = [sz EXCEPT ![c] = sz[p]]
  /\ image' = [image EXCEPT ![c] = image[p]]
  /\ pc' = [pc EXCEPT ![p] = "user", ![c] = "user"]
  /\ np' = [np EXCEPT ![p] = 0] /\ a' = [a EXCEPT ![p] = 0]
  /\ UNCHANGED <<kmem, pagetable, trapframe, newsz, execs, panic>>

\* exit() leaves the memory alone
exit(p) ==
  /\ pc[p] = "user" /\ p # initproc
  /\ Goto(p, "zombie")
  /\ image' = [image EXCEPT ![p] = <<>>]
  /\ UNCHANGED <<kmem, pagetable, trapframe, sz, np, a, newsz, execs, panic>>

\* freeproc(), called by wait()
freeproc(p) ==
  /\ pc[p] = "zombie"
  /\ Kalloc({}, FreedProc(p))
  /\ panic' = (panic \/ FreePanics(pagetable[p], sz[p]))
  /\ pagetable' = [pagetable EXCEPT ![p] = NoTable]
  /\ trapframe' = [trapframe EXCEPT ![p] = 0]
  /\ sz' = [sz EXCEPT ![p] = 0]
  /\ Goto(p, "unused")
  /\ UNCHANGED <<np, a, newsz, execs, image>>
-----------------------------------------------------------------------------
(* exec(): a program is its segments, the length of its file, and the        *)
(* number of its arguments and their size on the stack.                      *)

\* bad: of exec(), then of sys_exec(), with the table t and the size b, when some
\* pages were used and some others are gone already
Bad(p, used, gone, t, b) ==
  /\ Kalloc(used, argv[p] \cup gone \cup (IF Exists(t) THEN Freed(t, b) ELSE {}))
  /\ panic' = (panic \/ (Exists(t) /\ FreePanics(t, b)))
  /\ new' = [new EXCEPT ![p] = NoTable] /\ nsz' = [nsz EXCEPT ![p] = 0]
  /\ prog' = [prog EXCEPT ![p] = <<>>] /\ ph' = [ph EXCEPT ![p] = 0]
  /\ argv' = [argv EXCEPT ![p] = {}]
  /\ Return(p)
  /\ UNCHANGED <<pagetable, trapframe, sz, image>>

sys_exec(p, g) ==
  /\ pc[p] = "user"
  /\ Goto(p, "args")
  /\ prog' = [prog EXCEPT ![p] = g]
  /\ UNCHANGED <<kmem, pagetable, trapframe, sz, np, a, newsz, new, nsz, ph, argv, image, panic>>

\* fetchaddr() and fetchstr() of an argument at page v, into a page of its own
sys_exec_arg(p, v) ==
  /\ pc[p] = "args" /\ Cardinality(argv[p]) < prog[p].argc
  /\ IF walkaddr(pagetable[p], v) = 0 \/ freelist = {}
     THEN Bad(p, {}, {}, NoTable, 0)
     ELSE /\ freelist' = freelist \ {FreePages[1]}
          /\ argv' = [argv EXCEPT ![p] = @ \cup {FreePages[1]}]
          /\ UNCHANGED <<mem, pagetable, trapframe, sz, pc, np, a, newsz, new, nsz, prog, ph, image, panic>>

\* exec(): the ELF header, and proc_pagetable()
exec(p) ==
  LET w == proc_pagetable(trapframe[p], FreePages) IN
  /\ pc[p] = "args" /\ Cardinality(argv[p]) = prog[p].argc
  /\ IF ~w.ok THEN Bad(p, {}, {}, NoTable, 0)
     ELSE /\ freelist' = freelist \ w.used
          /\ new' = [new EXCEPT ![p] = w.t]
          /\ ph' = [ph EXCEPT ![p] = 1]
          /\ Goto(p, "ph")
          /\ UNCHANGED <<mem, pagetable, trapframe, sz, np, a, newsz, nsz, prog, argv, image, panic>>

\* The checks on a program header, or the stack after the last one; then uvmalloc()
exec_ph(p) ==
  LET s == prog[p].segs[ph[p]]
      last == ph[p] > Len(prog[p].segs)
      end == (s.vaddr + s.memsz) % UINT64
  IN /\ pc[p] = "ph"
     /\ IF ~last /\ (s.memsz < s.filesz \/ end < s.vaddr \/ s.vaddr % PGSIZE # 0)
        THEN Bad(p, {}, {}, new[p], nsz[p])
        ELSE /\ a' = [a EXCEPT ![p] = PGROUNDUP(nsz[p])]
             /\ IF last
                THEN /\ nsz' = [nsz EXCEPT ![p] = PGROUNDUP(@) * PGSIZE]
                     /\ newsz' = [newsz EXCEPT ![p] = (PGROUNDUP(nsz[p]) + 2) * PGSIZE]
                ELSE /\ newsz' = [newsz EXCEPT ![p] = Max({end, nsz[p]})]
                     /\ UNCHANGED nsz
             /\ Goto(p, IF last THEN "stack" ELSE "seg")
             /\ UNCHANGED <<kmem, pagetable, trapframe, sz, np, new, prog, ph, argv, image, panic>>

\* An iteration of uvmalloc() in exec(); uvmdealloc() if it fails
exec_alloc(p) ==
  LET r == MapNew(new[p], a[p], TRUE)
      S == PGROUNDUP(nsz[p]) .. a[p] - 1
  IN /\ pc[p] \in {"seg", "stack"} /\ a[p] * PGSIZE < newsz[p]
     /\ IF r.ok
        THEN /\ new' = [new EXCEPT ![p] = r.t]
             /\ freelist' = freelist \ r.used
             /\ mem' = [mem EXCEPT ![r.pg] = 0]
             /\ a' = [a EXCEPT ![p] = @ + 1]
             /\ panic' = (panic \/ a[p] \in DOMAIN new[p].leaf)
             /\ UNCHANGED <<pagetable, trapframe, sz, pc, np, newsz, nsz, prog, ph, argv, image>>
        ELSE Bad(p, r.used, Leaves(r.t, S), Unmap(r.t, S), nsz[p])

SegPages(s) == (s.vaddr \div PGSIZE) .. (s.vaddr \div PGSIZE) + PGROUNDUP(s.filesz) - 1

\* loadseg(): bad if the file is too short
loadseg(p) ==
  LET s == prog[p].segs[ph[p]] IN
  /\ pc[p] = "seg" /\ a[p] * PGSIZE >= newsz[p]
  /\ IF newsz[p] = 0 THEN Bad(p, {}, {}, new[p], nsz[p])
     ELSE IF s.short THEN Bad(p, {}, {}, new[p], newsz[p])
     ELSE /\ mem' = [q \in Page |-> IF q \in Leaves(new[p], SegPages(s)) THEN Text ELSE mem[q]]
          /\ panic' = (panic \/ ~(SegPages(s) \subseteq new[p].u))
          /\ nsz' = [nsz EXCEPT ![p] = newsz[p]]
          /\ ph' = [ph EXCEPT ![p] = @ + 1]
          /\ Goto(p, "ph")
          /\ UNCHANGED <<freelist, pagetable, trapframe, sz, np, a, newsz, new, prog, argv, image>>

\* The address space that exec() is to build: the segments from the file, zeros
\* around them, a guard page, and the stack with the arguments.
Image(g) ==
  LET top == Max({PGROUNDUP(s.vaddr + s.memsz) : s \in ToSet(g.segs)}) IN
  [v \in 0 .. top - 1 |-> IF \E s \in ToSet(g.segs) : v \in SegPages(s) THEN Text ELSE 0]
  @@ (top + 1 :> Argv)

\* What proc_freepagetable() frees of the old image.
OldFreed(p) == Freed(pagetable[p], sz[p])

\* The rest of exec(): uvmclear() of the guard page, the arguments, which must fit
\* in the page of the stack, and the commit; then sys_exec() frees its copies.
exec_commit(p) ==
  LET top == a[p] - 1
      t == [new[p] EXCEPT !.u = @ \ {top - 1}]
  IN /\ pc[p] = "stack" /\ a[p] * PGSIZE >= newsz[p]
     /\ IF prog[p].arglen > PGSIZE THEN Bad(p, {}, {}, t, newsz[p])
        ELSE /\ pagetable' = [pagetable EXCEPT ![p] = t]
             /\ sz' = [sz EXCEPT ![p] = newsz[p]]
             /\ freelist' = freelist \cup OldFreed(p) \cup argv[p]
             /\ mem' = [q \in Page |-> IF q \in OldFreed(p) \cup argv[p] THEN Junk
                                       ELSE IF q = walkaddr(t, top) THEN Argv ELSE mem[q]]
             /\ panic' = (panic \/ FreePanics(pagetable[p], sz[p]) \/ top - 1 \notin DOMAIN t.leaf)
             /\ image' = [image EXCEPT ![p] = Image(prog[p])]
             /\ new' = [new EXCEPT ![p] = NoTable] /\ nsz' = [nsz EXCEPT ![p] = 0]
             /\ prog' = [prog EXCEPT ![p] = <<>>] /\ ph' = [ph EXCEPT ![p] = 0]
             /\ argv' = [argv EXCEPT ![p] = {}]
             /\ Return(p)
             /\ UNCHANGED trapframe
-----------------------------------------------------------------------------
Next ==
  \E p \in Proc :
    \/ \E v \in Store : copyout(p, v, 2)
    \/ \E n \in Incr : sbrk_grow(p, n) \/ sbrk_shrink(p, n)
    \/ grow(p) \/ grow_end(p)
    \/ fork(p) \/ uvmcopy(p) \/ fork_end(p) \/ exit(p) \/ freeproc(p)
    \/ \E g \in Program : sys_exec(p, g)
    \/ \E v \in {0, PGROUNDUP(sz[p])} : sys_exec_arg(p, v)
    \/ exec(p) \/ exec_ph(p) \/ exec_alloc(p) \/ loadseg(p) \/ exec_commit(p)

Spec == Init /\ [][Next]_vars
-----------------------------------------------------------------------------
\* The pages that have an owner: trapframes, tables, user pages, arguments of
\* exec(); each with its place, to tell one that is owned twice.
Owned(p) ==
  LET Tab(n, t) == {<<n, x, t.tab[x]>> : x \in DOMAIN t.tab}
      Leaf(n, t) == {<<n, v, t.leaf[v]>> : v \in DOMAIN t.leaf \ {TRAMPOLINE, TRAPFRAME}}
  IN UNION {Tab("t", pagetable[p]), Tab("nt", new[p]), Leaf("l", pagetable[p]), Leaf("nl", new[p]),
            {<<"tf", 0, trapframe[p]>>} \ {<<"tf", 0, 0>>}, {<<"argv", q, q>> : q \in argv[p]}}

\* Each page of physical memory is free, or has one owner that will free it: kalloc()
\* running out at any point, in any process, loses no page and frees none twice.
PagesAccounted ==
  LET O(p) == {o[3] : o \in Owned(p)} IN
  /\ freelist \cup UNION {O(p) : p \in Proc} = Page
  /\ Cardinality(freelist) + MapThenSumSet(LAMBDA p : Cardinality(Owned(p)), Proc) = NPAGE

\* A program in user space finds in its memory what it is to find there: what it or
\* the kernel stored, zeros in new memory, its parent's data after fork(), the image
\* of the file after exec(), the old image after an exec() that failed.  It can use
\* those addresses and no other; above are the trampoline and its own trapframe.
AddressSpace ==
  \A p \in Proc : pc[p] = "user" =>
    LET t == pagetable[p] IN
    /\ \A v \in 0 .. MAXVA - 1 : walkaddr(t, v) # 0 <=> v \in DOMAIN image[p]
    /\ \A v \in DOMAIN image[p] : mem[walkaddr(t, v)] = image[p][v]
    /\ DOMAIN t.leaf = Range0(sz[p]) \cup {TRAMPOLINE, TRAPFRAME}
    /\ t.leaf[TRAPFRAME] = trapframe[p]

\* No "remap", "uvmunmap: not mapped", "uvmunmap: walk", "freewalk: leaf", "uvmcopy:
\* pte should exist", "loadseg: address should exist" or "uvmclear": the error paths
\* unmap just what was mapped.
NoPanic == ~panic
=============================================================================
