------------------------------- MODULE FsData -------------------------------
(***************************************************************************)
(* The content of files: the block bitmap, bmap(), itrunc(), readi() and   *)
(* writei() of kernel/fs.c, fileread() and filewrite() of kernel/file.c,   *)
(* on the empty file system that mkfs/mkfs.c lays out.                     *)
(*                                                                         *)
(* Files are open inodes; processes share their offsets.  A block is an    *)
(* array of numbers, be they bytes or, in an indirect block, block         *)
(* numbers.  A stretch that holds the buffer of the bitmap is one action,  *)
(* so the processes' allocations interleave.                               *)
(***************************************************************************)
EXTENDS Integers, FiniteSets, Sequences, FiniteSetsExt

CONSTANTS Proc, File,
          Opened,        \* who has which file open, and writes how much to it at a time
          byte,          \* what each process writes
          BSIZE, NDIRECT, NINDIRECT, MAXOPBLOCKS,
          nmeta, size,   \* blocks before the data blocks, and blocks in all
          UINT,          \* off and n are uint: 2^32
          Count,         \* the counts n given to read()
          Nobody

MAXFILE == NDIRECT + NINDIRECT

\* filewrite() needs room in a transaction for a block at least; offsets are uint.
ASSUME FsDataAssumption ==
  /\ BSIZE \in Nat \ {0} /\ NINDIRECT \in 1 .. BSIZE /\ NDIRECT \in Nat
  /\ nmeta \in Nat \ {0, 1} /\ size \in Nat /\ nmeta <= size
  /\ MAXOPBLOCKS \in Nat /\ MAXOPBLOCKS >= 6
  /\ UINT \in Nat /\ MAXFILE * BSIZE < UINT
  /\ Count \subseteq 0 .. UINT - 1
  /\ Opened \subseteq Proc \X File \X (1 .. (UINT \div 2) - 1)   \* n is an int there
  /\ Nobody \notin Proc \cup File

VARIABLES
  bitmap,        \* the blocks in use
  block,         \* the blocks' contents
  ip,            \* the in-memory inodes: addrs and size
  dip,           \* the on-disk ones
  lock,          \* ip->lock
  off,           \* f->off
  pc, f, n, i,   \* each process: the file, the count, and how much is done of it
  tot,           \* of writei()
  log,           \* the blocks that the call has passed to log_write()
  content        \* the file, as a reader is to see it

store == <<bitmap, block>>
vars == <<store, ip, dip, lock, off, pc, f, n, i, tot, log, content>>

NoInode == [addrs |-> [k \in 0 .. NDIRECT |-> 0], size |-> 0]
Zero == [k \in 0 .. BSIZE - 1 |-> 0]
InodeBlock == nmeta - 2    \* IBLOCK(), BBLOCK()
BitmapBlock == nmeta - 1

\* mkfs: the boot block, the superblock, the log, the inodes and the bitmap are in
\* use; the files are empty.
Init ==
  /\ bitmap = 0 .. nmeta - 1
  /\ block = [b \in nmeta .. size - 1 |-> Zero]
  /\ ip = [x \in File |-> NoInode] /\ dip = ip
  /\ lock = [x \in File |-> Nobody]
  /\ off = [x \in File |-> 0]
  /\ pc = [p \in Proc |-> "idle"]
  /\ f = [p \in Proc |-> Nobody]
  /\ n = [p \in Proc |-> 0] /\ i = [p \in Proc |-> 0] /\ tot = [p \in Proc |-> 0]
  /\ log = [p \in Proc |-> {}]
  /\ content = [x \in File |-> <<>>]

Goto(p, l) == pc' = [pc EXCEPT ![p] = l]
Return(p) == /\ Goto(p, "idle") /\ f' = [f EXCEPT ![p] = Nobody]
             /\ n' = [n EXCEPT ![p] = 0] /\ i' = [i EXCEPT ![p] = 0]
Log(p, B) == log' = [log EXCEPT ![p] = @ \cup B]
-----------------------------------------------------------------------------
FreeBlocks == (nmeta .. size - 1) \ bitmap

\* bzero()
Bzeroed(bl, b) == [bl EXCEPT ![b] = Zero]

\* The block of x that holds its block number bn, or 0 if none does.
Mapped(x, bn) ==
  IF bn < NDIRECT THEN ip[x].addrs[bn]
  ELSE IF ip[x].addrs[NDIRECT] = 0 THEN 0
  ELSE block[ip[x].addrs[NDIRECT]][bn - NDIRECT]

\* bmap() of bn needs an indirect block.
NeedsIndirect(x, bn) == bn >= NDIRECT /\ ip[x].addrs[NDIRECT] = 0
-----------------------------------------------------------------------------
\* write() is called
filewrite(p, x, m) ==
  /\ pc[p] = "idle"
  /\ f' = [f EXCEPT ![p] = x] /\ n' = [n EXCEPT ![p] = m]
  /\ Goto(p, "chunk")
  /\ UNCHANGED <<store, ip, dip, lock, off, i, tot, log, content>>

\* mutant: as much as the log can hold.
max_log == MAXOPBLOCKS * BSIZE

\* The most that filewrite() writes in one transaction.
max == ((MAXOPBLOCKS - 1 - 1 - 2) \div 2) * BSIZE

n1(p) == IF n[p] - i[p] > max THEN max ELSE n[p] - i[p]

\* writei() refuses what would make the file too long.
TooLong(o, m) == o + m > MAXFILE * BSIZE

\* begin_op(), ilock(), and the checks of writei(); -1 ends the write
chunk(p) ==
  LET x == f[p] IN
  /\ pc[p] = "chunk" /\ lock[x] = Nobody
  /\ IF off[x] > ip[x].size \/ TooLong(off[x], n1(p))
     THEN Return(p) /\ UNCHANGED lock
     ELSE lock' = [lock EXCEPT ![x] = p] /\ Goto(p, "loop") /\ UNCHANGED <<f, n, i>>
  /\ UNCHANGED <<store, ip, dip, off, tot, log, content>>

\* Where the next byte goes.
Pos(p) == off[f[p]] + tot[p]
Bn(p) == Pos(p) \div BSIZE
Looping(p) == pc[p] = "loop" /\ tot[p] < n1(p)

\* bmap(): balloc() for the indirect block
bmap_indirect(p) ==
  LET x == f[p]
      b == Min(FreeBlocks)
  IN /\ Looping(p) /\ NeedsIndirect(x, Bn(p)) /\ FreeBlocks # {}
     /\ bitmap' = bitmap \cup {b} /\ block' = Bzeroed(block, b)
     /\ ip' = [ip EXCEPT ![x].addrs[NDIRECT] = b]
     /\ Log(p, {BitmapBlock, b})
     /\ UNCHANGED <<dip, lock, off, pc, f, n, i, tot, content>>

\* bmap(): balloc() for the block of the next byte
bmap(p) ==
  LET x == f[p]
      b == Min(FreeBlocks)
      a == ip[x].addrs[NDIRECT]
  IN /\ Looping(p) /\ ~NeedsIndirect(x, Bn(p)) /\ Mapped(x, Bn(p)) = 0 /\ FreeBlocks # {}
     /\ bitmap' = bitmap \cup {b}
     /\ IF Bn(p) < NDIRECT
        THEN /\ ip' = [ip EXCEPT ![x].addrs[Bn(p)] = b]
             /\ block' = Bzeroed(block, b)
             /\ Log(p, {BitmapBlock, b})
        ELSE /\ block' = [Bzeroed(block, b) EXCEPT ![a][Bn(p) - NDIRECT] = b]
             /\ Log(p, {BitmapBlock, b, a})
             /\ UNCHANGED ip
     /\ UNCHANGED <<dip, lock, off, pc, f, n, i, tot, content>>

\* balloc() finds no block: break
bmap_fail(p) ==
  /\ Looping(p) /\ Mapped(f[p], Bn(p)) = 0 /\ FreeBlocks = {}
  /\ Goto(p, "done")
  /\ UNCHANGED <<store, ip, dip, lock, off, f, n, i, tot, log, content>>

\* mutant: the copy is not cut at the end of the block.
m_whole(p) == n1(p) - tot[p]

\* min(n - tot, BSIZE - off % BSIZE)
m_(p) == Min({n1(p) - tot[p], BSIZE - (Pos(p) % BSIZE)})

\* c, made l long, with k bytes of p at position o.
Overwrite(c, l, o, k, p) == [j \in 1 .. l |-> IF j > o /\ j <= o + k THEN byte[p] ELSE c[j]]

\* An iteration of writei() copies k bytes into the block: all, or fewer when
\* either_copyin() meets an address that is not mapped, and then it is not logged.
write_block(p, k) ==
  LET x == f[p]
      b == Mapped(x, Bn(p))
      o == Pos(p) % BSIZE
  IN /\ Looping(p) /\ b # 0 /\ k <= m_(p)
     /\ block' = [block EXCEPT ![b] = [j \in 0 .. BSIZE - 1 |->
                                         IF j >= o /\ j < o + k THEN byte[p] ELSE @[j]]]
     /\ IF k = m_(p)
        THEN tot' = [tot EXCEPT ![p] = @ + k] /\ Log(p, {b}) /\ UNCHANGED <<pc, content>>
        ELSE /\ Goto(p, "done")
             /\ content' = [content EXCEPT ![x] = Overwrite(@, Len(@), Pos(p), k, p)]
             /\ UNCHANGED <<tot, log>>
     /\ UNCHANGED <<bitmap, ip, dip, lock, off, f, n, i>>

\* mutant: the inode is written back only when the size has changed.
iupdate_grown(x, new) == IF new.size > ip[x].size THEN new ELSE dip[x]

\* The on-disk inode after iupdate() at the end of writei().
iupdate(x, new) == new

\* The end of writei(), and of a round of filewrite(): iunlock(), end_op()
writei_end(p) ==
  LET x == f[p]
      new == [ip[x] EXCEPT !.size = IF Pos(p) > @ THEN Pos(p) ELSE @]
      more == tot[p] = n1(p) /\ i[p] + tot[p] < n[p]
  IN /\ pc[p] = "done" \/ (pc[p] = "loop" /\ ~Looping(p))
     /\ ip' = [ip EXCEPT ![x] = new] /\ dip' = [dip EXCEPT ![x] = iupdate(x, new)]
     /\ off' = [off EXCEPT ![x] = @ + tot[p]]
     /\ content' = [content EXCEPT ![x] = Overwrite(@, new.size, off[x], tot[p], p)]
     /\ lock' = [lock EXCEPT ![x] = Nobody]
     /\ log' = [log EXCEPT ![p] = {}]
     /\ tot' = [tot EXCEPT ![p] = 0]
     /\ IF more THEN i' = [i EXCEPT ![p] = @ + tot[p]] /\ Goto(p, "chunk") /\ UNCHANGED <<f, n>>
                ELSE Return(p)
     /\ UNCHANGED store
-----------------------------------------------------------------------------
\* mutant: the sum is not checked for having wrapped.
Wraps_not(o, m) == FALSE

Wraps(o, m) == (o + m) % UINT < o

\* How many bytes readi() reads.
readi(x, o, m) ==
  IF o > ip[x].size \/ Wraps(o, m) THEN 0
  ELSE IF (o + m) % UINT > ip[x].size THEN ip[x].size - o ELSE m

\* fileread(): ilock(), readi(), iunlock(), outside of any transaction
fileread(x, m) ==
  /\ lock[x] = Nobody
  /\ off' = [off EXCEPT ![x] = @ + readi(x, @, m)]
  /\ UNCHANGED <<store, ip, dip, lock, pc, f, n, i, tot, log, content>>

\* open() with O_TRUNC, by a descriptor of its own, or the last iput(): itrunc()
itrunc(p, x) ==
  /\ pc[p] = "idle" /\ lock[x] = Nobody
  /\ lock' = [lock EXCEPT ![x] = p]
  /\ f' = [f EXCEPT ![p] = x]
  /\ Goto(p, "trunc")
  /\ UNCHANGED <<store, ip, dip, off, n, i, tot, log, content>>

\* The blocks itrunc() has still to free, in its order: direct ones, those the
\* indirect block lists, and that one.
DirectLeft(x) == {k \in 0 .. NDIRECT - 1 : ip[x].addrs[k] # 0}
Indirect(x) == ip[x].addrs[NDIRECT]

bfree(b) == bitmap' = bitmap \ {b}

trunc_direct(p) ==
  LET x == f[p]
      k == Min(DirectLeft(x))
  IN /\ pc[p] = "trunc" /\ DirectLeft(x) # {}
     /\ ip[x].addrs[k] \in bitmap
     /\ bfree(ip[x].addrs[k])
     /\ ip' = [ip EXCEPT ![x].addrs[k] = 0]
     /\ Log(p, {BitmapBlock})
     /\ UNCHANGED <<block, dip, lock, off, pc, f, n, i, tot, content>>

\* The blocks that the indirect block of x lists.
Listed(x) == IF Indirect(x) = 0 THEN {}
             ELSE {block[Indirect(x)][k] : k \in 0 .. NINDIRECT - 1} \ {0}

\* The loop over the indirect block; the numbers stay in it.  tot counts what is
\* freed of it
trunc_listed(p) ==
  LET x == f[p]
      left == {k \in 0 .. NINDIRECT - 1 : k >= tot[p] /\ block[Indirect(x)][k] # 0}
      b == block[Indirect(x)][Min(left)]
  IN /\ pc[p] = "trunc" /\ DirectLeft(x) = {} /\ Listed(x) # {} /\ left # {}
     /\ b \in bitmap
     /\ bfree(b)
     /\ tot' = [tot EXCEPT ![p] = Min(left) + 1]
     /\ Log(p, {BitmapBlock})
     /\ UNCHANGED <<block, ip, dip, lock, off, pc, f, n, i, content>>

\* bfree() of the indirect block, size = 0, iupdate(), iunlock(), end_op()
trunc_end(p) ==
  LET x == f[p] IN
  /\ pc[p] = "trunc" /\ DirectLeft(x) = {}
  /\ \A k \in 0 .. NINDIRECT - 1 : Listed(x) # {} /\ k >= tot[p] => block[Indirect(x)][k] = 0
  /\ IF Indirect(x) = 0 THEN UNCHANGED bitmap
     ELSE Indirect(x) \in bitmap /\ bfree(Indirect(x))
  /\ ip' = [ip EXCEPT ![x] = NoInode] /\ dip' = [dip EXCEPT ![x] = NoInode]
  /\ content' = [content EXCEPT ![x] = <<>>]
  /\ lock' = [lock EXCEPT ![x] = Nobody]
  /\ log' = [log EXCEPT ![p] = {}]
  /\ tot' = [tot EXCEPT ![p] = 0]
  /\ Return(p)
  /\ UNCHANGED <<block, off>>
-----------------------------------------------------------------------------
Next ==
  \/ \E p \in Proc :
       \/ chunk(p) \/ bmap_indirect(p) \/ bmap(p) \/ bmap_fail(p) \/ writei_end(p)
       \/ trunc_direct(p) \/ trunc_listed(p) \/ trunc_end(p)
       \/ \E k \in 0 .. BSIZE : write_block(p, k)
  \/ \E o \in Opened : itrunc(o[1], o[2]) \/ filewrite(o[1], o[2], o[3])
  \/ \E x \in File, m \in Count : fileread(x, m)

Spec == Init /\ [][Next]_vars
-----------------------------------------------------------------------------
\* The blocks an inode on the disk refers to, the indirect one included, once for
\* each time it does.
Refs(x) ==
  LET d == dip[x].addrs IN
  {<<x, k>> : k \in {k \in 0 .. NDIRECT : d[k] # 0}} \cup
  (IF d[NDIRECT] = 0 THEN {}
   ELSE {<<x, NDIRECT + 1 + k>> : k \in {k \in 0 .. NINDIRECT - 1 : block[d[NDIRECT]][k] # 0}})

RefBlock(r) == IF r[2] <= NDIRECT THEN dip[r[1]].addrs[r[2]]
               ELSE block[dip[r[1]].addrs[NDIRECT]][r[2] - NDIRECT - 1]

\* When no transaction is under way, and so in what a crash leaves, every data block
\* in use belongs to one place of one file and every block of a file is in use: what
\* balloc() marked was recorded with iupdate() or in the indirect block, also by the
\* calls that ran out of blocks or met a bad address, and itrunc() freed all of it.
BitmapExact ==
  (\A x \in File : lock[x] = Nobody) =>
    LET R == UNION {Refs(x) : x \in File} IN
    /\ {RefBlock(r) : r \in R} = bitmap \ (0 .. nmeta - 1)
    /\ \A r, s \in R : RefBlock(r) = RefBlock(s) => r = s

\* A file nobody has locked reads as what was written to it: bytes overwritten or
\* appended by whoever had the lock, at the offset at that time, whatever the blocks
\* held in an earlier life.
ContentExact ==
  \A x \in File : lock[x] = Nobody =>
    /\ ip[x].size = Len(content[x])
    /\ \A j \in 0 .. ip[x].size - 1 :
         Mapped(x, j \div BSIZE) # 0 /\ block[Mapped(x, j \div BSIZE)][j % BSIZE] = content[x][j + 1]

\* fileread() calls bmap() outside of a transaction: it finds every block it reads,
\* so that it does not allocate, and reads nothing beyond the end of the file,
\* whatever the count.
ReadInside ==
  \A x \in File, m \in Count : lock[x] = Nobody =>
    LET r == readi(x, off[x], m) IN
    /\ r > 0 => off[x] + r <= ip[x].size
    /\ \A j \in off[x] .. off[x] + r - 1 : Mapped(x, j \div BSIZE) # 0

\* A transaction of filewrite() or itrunc() writes fewer blocks than begin_op()
\* reserves for it, inode and bitmap included.  Fewer, and not as many, because the
\* log's header block takes one of the LOGSIZE blocks from which begin_op() reserves.
TxnFits == \A p \in Proc : Cardinality(log[p] \cup {InodeBlock}) < MAXOPBLOCKS

=============================================================================
