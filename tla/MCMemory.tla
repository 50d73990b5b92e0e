------------------------------ MODULE MCMemory ------------------------------
EXTENDS Memory

Seg(v, m, f, s) == [vaddr |-> v, memsz |-> m, filesz |-> f, short |-> s]

\* A page of bss between two segments; one page; arguments that do not fit; a file
\* that is too short; a segment that is not aligned.
Programs ==
  {[segs |-> <<Seg(0, 3, 1, FALSE), Seg(4, 1, 1, FALSE)>>, argc |-> 1, arglen |-> 1],
   [segs |-> <<Seg(0, 1, 1, FALSE)>>, argc |-> 0, arglen |-> 1],
   [segs |-> <<Seg(0, 2, 2, FALSE)>>, argc |-> 1, arglen |-> 3],
   [segs |-> <<Seg(0, 1, 1, FALSE), Seg(2, 2, 2, TRUE)>>, argc |-> 0, arglen |-> 1],
   [segs |-> <<Seg(1, 1, 1, FALSE)>>, argc |-> 0, arglen |-> 1]}

Incrs == {3, -1, -7}

\* Pages are interchangeable: of two states that differ in which page is where, one
\* is explored.  The invariants are part of the view, so that none is missed.
Shape(t) == <<DOMAIN t.tab, [v \in DOMAIN t.leaf |-> IF t.leaf[v] \in Page /\ v # TRAPFRAME
                                                     THEN mem[t.leaf[v]] ELSE 0], t.u>>
View == <<Cardinality(freelist), [p \in Proc |-> <<Shape(pagetable[p]), Shape(new[p])>>],
          [p \in Proc |-> Cardinality(argv[p])], trapframe[2] = 0,
          sz, pc, np, a, newsz, nsz, prog, ph, image, panic, PagesAccounted, AddressSpace>>
=============================================================================
