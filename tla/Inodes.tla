------------------------------- MODULE Inodes -------------------------------
(***************************************************************************)
(* Blocks, inodes, file contents and directories: what the functions of    *)
(* kernel/fs.c compute.  Each operator takes the file system fs, that is   *)
(* the disk as the buffer cache shows it and the inode table, and returns  *)
(* it changed, with a result.                                              *)
(*                                                                         *)
(* The unit of size is one item: a directory entry, or as much file data.  *)
(* A block holds BSIZE items, and zeroed items when it is allocated.  An   *)
(* indirect block is the same block read as a table of addresses.          *)
(***************************************************************************)
EXTENDS Integers, Sequences, FiniteSets

CONSTANTS
    NBLOCKS,        \* data blocks of the disk, sb.size
    NINODES,        \* inodes of the disk, sb.ninodes; number 1 is the root
    NINODE,         \* slots of the inode table
    BSIZE, NDIRECT, NINDIRECT

ASSUME InodesAssumption ==
    \A n \in {NBLOCKS, NINODES, NINODE, BSIZE, NDIRECT, NINDIRECT} : n \in Nat \ {0}

Blocks == 1..NBLOCKS
Inums == 1..NINODES-1
Slots == 1..NINODE
MAXFILE == NDIRECT + NINDIRECT
ROOTINO == 1

Item(name, inum) == [name |-> name, inum |-> inum]
ZeroItem == Item("", 0)
ZeroBlock == [item |-> [k \in 0..BSIZE-1 |-> ZeroItem], addr |-> [k \in 0..NINDIRECT-1 |-> 0]]
NoAddrs == [k \in 0..NDIRECT |-> 0]
Dinode(type, nlink, size, addrs) == [type |-> type, nlink |-> nlink, size |-> size, addrs |-> addrs]
FreeInode == Dinode("none", 0, 0, NoAddrs)
\* di: the copy of the disk inode, meaningful when valid; lock: the holder or 0.
FreeEntry == [inum |-> 0, ref |-> 0, valid |-> FALSE, lock |-> 0, di |-> FreeInode]

\* The least of some numbers, or what to take when there is none.
Least(S) == CHOOSE x \in S : \A y \in S : x <= y
LeastOr(S, none) == IF S = {} THEN none ELSE Least(S)
Min2(a, b) == IF a < b THEN a ELSE b

-----------------------------------------------------------------------------
\* balloc(): the first free block, marked in use and zeroed; 0 when there is none.
MarkUsed(fs, b) ==
    [fs |-> IF b = 0 THEN fs ELSE [fs EXCEPT !.used = @ \cup {b}, !.blk[b] = ZeroBlock], addr |-> b]
balloc(fs) == MarkUsed(fs, LeastOr(Blocks \ fs.used, 0))

\* bfree() of some blocks: panics if one is free.  What they hold is not kept here, for
\* balloc() would zero it.
bfree(fs, bs) ==
    [fs EXCEPT !.used = @ \ bs, !.panic = @ \/ ~(bs \subseteq fs.used),
               !.blk = [b \in Blocks |-> IF b \in bs THEN ZeroBlock ELSE @[b]]]

\* iupdate(): copy the in-memory inode to the disk.
iupdate(fs, s) == [fs EXCEPT !.dinode[fs.it[s].inum] = fs.it[s].di]

\* bmap(): the address of block bn of the inode in slot s, allocated if there is none and
\* recorded in the inode or, behind block NDIRECT, in the indirect block.
InInode(new, s, k) == [new EXCEPT !.fs.it[s].di.addrs[k] = new.addr]
Direct(fs, s, k) ==
    IF fs.it[s].di.addrs[k] # 0 THEN [fs |-> fs, addr |-> fs.it[s].di.addrs[k]]
    ELSE InInode(balloc(fs), s, k)
InBlock(new, b, j) == IF new.addr = 0 THEN new ELSE [new EXCEPT !.fs.blk[b].addr[j] = new.addr]
Indirect(ind, j) ==
    IF ind.addr = 0 THEN ind
    ELSE IF ind.fs.blk[ind.addr].addr[j] # 0 THEN [ind EXCEPT !.addr = ind.fs.blk[ind.addr].addr[j]]
    ELSE InBlock(balloc(ind.fs), ind.addr, j)
bmap(fs, s, bn) ==
    IF bn < NDIRECT THEN Direct(fs, s, bn) ELSE Indirect(Direct(fs, s, NDIRECT), bn - NDIRECT)

\* The blocks of an inode: direct, indirect, and those the indirect block names.
Through(fs, a) == IF a = 0 THEN {} ELSE {fs.blk[a].addr[j] : j \in 0..NINDIRECT-1} \ {0}
BlocksOf(fs, di) == ({di.addrs[k] : k \in 0..NDIRECT} \cup Through(fs, di.addrs[NDIRECT])) \ {0}

\* Faulty itrunc: the blocks behind the indirect block stay marked.
itruncDirect(fs, s) ==
    LET di == fs.it[s].di
        freed == bfree(fs, {di.addrs[k] : k \in 0..NDIRECT} \ {0})
    IN  iupdate([freed EXCEPT !.it[s].di = [di EXCEPT !.addrs = NoAddrs, !.size = 0]], s)

\* itrunc(): bfree() each of them, empty the inode, write it.
itrunc(fs, s) ==
    LET di == fs.it[s].di
        freed == bfree(fs, BlocksOf(fs, di))
    IN  iupdate([freed EXCEPT !.it[s].di = [di EXCEPT !.addrs = NoAddrs, !.size = 0]], s)

\* The item at offset off of a file, below its size.
ItemAt(fs, di, off) ==
    LET bn == off \div BSIZE
        b == IF bn < NDIRECT THEN di.addrs[bn]
             ELSE fs.blk[di.addrs[NDIRECT]].addr[bn - NDIRECT]
    IN  fs.blk[b].item[off % BSIZE]
Contents(fs, di) == [k \in 0..di.size-1 |-> ItemAt(fs, di, k)]

\* readi(): how many of n items there are to read at off.
readi(di, off, n) == IF off > di.size THEN 0 ELSE Min2(n, di.size - off)

\* The loop of writei(): the items from off on, until the disk is full.
RECURSIVE WriteItems(_, _, _, _, _)
WriteItem(r, s, off, items, tot) ==
    IF r.addr = 0 THEN [fs |-> r.fs, tot |-> tot]
    ELSE WriteItems([r.fs EXCEPT !.blk[r.addr].item[off % BSIZE] = Head(items)],
                    s, off + 1, Tail(items), tot + 1)
WriteItems(fs, s, off, items, tot) ==
    IF items = << >> THEN [fs |-> fs, tot |-> tot]
    ELSE WriteItem(bmap(fs, s, off \div BSIZE), s, off, items, tot)

\* writei(): the size grows by what was written, and the inode is always written back.
Grow(w, s, off) ==
    [w EXCEPT !.fs = iupdate([w.fs EXCEPT !.it[s].di.size = IF off + w.tot > @ THEN off + w.tot ELSE @], s)]
writei(fs, s, off, items) ==
    IF off > fs.it[s].di.size \/ off + Len(items) > MAXFILE * BSIZE THEN [fs |-> fs, tot |-> -1]
    ELSE Grow(WriteItems(fs, s, off, items, 0), s, off)

-----------------------------------------------------------------------------
\* iget(): the entry of an inode, or the first free one; panics when there is none.
Entry(fs, inum, here, empty) ==
    IF here # 0 THEN [fs |-> [fs EXCEPT !.it[here].ref = @ + 1], slot |-> here]
    ELSE IF empty = 0 THEN [fs |-> [fs EXCEPT !.panic = TRUE], slot |-> 1]
    ELSE [fs |-> [fs EXCEPT !.it[empty] = [@ EXCEPT !.inum = inum, !.ref = 1, !.valid = FALSE]],
          slot |-> empty]
iget(fs, inum) ==
    Entry(fs, inum, LeastOr({s \in Slots : fs.it[s].ref > 0 /\ fs.it[s].inum = inum}, 0),
          LeastOr({s \in Slots : fs.it[s].ref = 0}, 0))

\* Faulty ialloc: the inode gets no type.
FreeInum(fs) == LeastOr({i \in Inums : fs.dinode[i].type = "none"}, 0)
iallocNoType(fs, type) ==
    IF FreeInum(fs) = 0 THEN [fs |-> fs, slot |-> 0] ELSE iget(fs, FreeInum(fs))

\* ialloc(): the first free inode of the disk gets a type; slot 0 when there is none.
ialloc(fs, type) ==
    IF FreeInum(fs) = 0 THEN [fs |-> fs, slot |-> 0]
    ELSE iget([fs EXCEPT !.dinode[FreeInum(fs)] = [FreeInode EXCEPT !.type = type]], FreeInum(fs))

\* ilock() once the lock is free: read the inode if the entry is not valid, which
\* panics if the inode has been freed.
ilock(fs, s) ==
    LET di == fs.dinode[fs.it[s].inum]
    IN  IF fs.it[s].valid THEN fs
        ELSE [fs EXCEPT !.it[s].di = di, !.it[s].valid = TRUE, !.panic = @ \/ di.type = "none"]

\* dirlookup(): the offset of a name in a directory, -1 when it has none.
Offsets(fs, di, name) ==
    {k \in 0..di.size-1 : ItemAt(fs, di, k).inum # 0 /\ ItemAt(fs, di, k).name = name}
dirlookup(fs, s, name) == LeastOr(Offsets(fs, fs.it[s].di, name), -1)

\* dirlink(): the first empty entry, or a new one; fails if the name is there or the
\* disk or the file is full.
WholeItem(w) == [fs |-> w.fs, ok |-> w.tot = 1]
dirlink(fs, s, name, inum) ==
    LET di == fs.it[s].di
        empty == {k \in 0..di.size-1 : ItemAt(fs, di, k).inum = 0}
    IN  IF dirlookup(fs, s, name) # -1 THEN [fs |-> fs, ok |-> FALSE]
        ELSE WholeItem(writei(fs, s, LeastOr(empty, di.size), <<Item(name, inum)>>))

\* isdirempty(): nothing but "." and "..".
isdirempty(fs, s) == \A k \in 2..fs.it[s].di.size-1 : ItemAt(fs, fs.it[s].di, k).inum = 0
=============================================================================
