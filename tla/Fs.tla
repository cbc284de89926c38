--------------------------------- MODULE Fs ---------------------------------
(***************************************************************************)
(* The file system calls of kernel/sysfile.c over the inodes of Inodes:    *)
(* path lookup, create, link, unlink, chdir, open, close, read and write   *)
(* by processes that interleave.                                           *)
(*                                                                         *)
(* A step runs from one lock to the next: ilock() may block, and the locks *)
(* it waits for are the only ones held from step to step.  Two sections on *)
(* different inodes share only the bitmap and the inode blocks, and each   *)
(* access to those is one section of a buffer's lock.  iput() is two steps *)
(* when it frees: itable.lock is dropped in the middle.                    *)
(*                                                                         *)
(* There is no crash here: the transactions that contain the calls reach   *)
(* the disk whole or not at all (module Log).                              *)
(***************************************************************************)
EXTENDS Inodes

CONSTANTS
    NPROC,
    NFILE,          \* entries of the file table
    CALLS,          \* bound: CALLS[p], the calls on paths that p makes
    DATA            \* bound: what is passed to write()

ASSUME FsAssumption == NPROC \in Nat /\ NFILE \in Nat

VARIABLES
    fs,             \* the disk (used, blk, dinode), the inode table it, and panic
    op,             \* op[p]: where p is in the kernel, with its locals
    cwd,            \* p->cwd
    file            \* file[p]: the file p has open: slot (0 if none), off, writable
vars == <<fs, op, cwd, file>>

Procs == 1..NPROC
\* A call: path and its last use, create's type, open's mode, link's second path.
User == [pc |-> "user"]
NoFile == [slot |-> 0, off |-> 0, writable |-> FALSE]

\* mkfs leaves a root with ".", ".." and one link; every process starts there.
RootBlock == [ZeroBlock EXCEPT !.item = [k \in 0..BSIZE-1 |->
    IF k = 0 THEN Item(".", ROOTINO) ELSE IF k = 1 THEN Item("..", ROOTINO) ELSE ZeroItem]]
RootInode == Dinode("dir", 1, 2, [NoAddrs EXCEPT ![0] = 1])
Booted == [s \in Slots |-> IF s = 1 THEN [FreeEntry EXCEPT !.inum = ROOTINO, !.ref = NPROC] ELSE FreeEntry]
Init ==
    /\ fs = [used |-> {1}, blk |-> [b \in Blocks |-> IF b = 1 THEN RootBlock ELSE ZeroBlock],
             dinode |-> [i \in Inums |-> IF i = ROOTINO THEN RootInode ELSE FreeInode],
             it |-> Booted, panic |-> FALSE]
    /\ op = [p \in Procs |-> User]
    /\ cwd = [p \in Procs |-> 1]
    /\ file = [p \in Procs |-> NoFile]

-----------------------------------------------------------------------------
Then(p, to) == op' = [op EXCEPT ![p] = to]
At(p, pc) == op[p].pc = pc /\ ~fs.panic
\* p can take, or has, the lock of a slot.
CanLock(p, s) == fs.it[s].lock \in {0, p}
Lock(f, p, s) == [f EXCEPT !.it[s].lock = p]
Unlock(f, s) == [f EXCEPT !.it[s].lock = 0]
\* Change the link count of a locked inode and iupdate() it.
AddLink(f, s, d) == iupdate([f EXCEPT !.it[s].di.nlink = @ + d], s)

\* The end of iput(); what an entry without references holds is never read again.
Drop(f, s) == [f EXCEPT !.it[s] = IF @.ref = 1 THEN FreeEntry ELSE [@ EXCEPT !.ref = @ - 1]]

\* iput() a sequence of slots, then go on; a slot still locked is iunlock()ed first.
Puts(slots, then) == IF slots = << >> THEN then ELSE [pc |-> "iput", slots |-> slots, then |-> then]
Namex(call, start, path, parent, then) ==
    [pc |-> "namex", call |-> call, ip |-> start, path |-> path, parent |-> parent, then |-> then]

\* Faulty Iput: the inode is freed although others hold references to it.
IputAny(p) ==
    LET s == Head(op[p].slots)
        e == fs.it[s]
        next == Puts(Tail(op[p].slots), op[p].then)
        emptied == itrunc(fs, s)
    IN  /\ At(p, "iput")
        /\ IF e.lock = p THEN fs' = Unlock(fs, s) /\ UNCHANGED op
           ELSE IF e.valid /\ e.di.nlink = 0
           THEN /\ fs' = [iupdate([emptied EXCEPT !.it[s].di.type = "none"], s) EXCEPT !.it[s].valid = FALSE]
                /\ Then(p, [pc |-> "iput2", slot |-> s, then |-> next])
           ELSE fs' = Drop(fs, s) /\ Then(p, next)
        /\ UNCHANGED <<cwd, file>>

\* iput(): drop a reference; the last one to an inode without links frees it.
Iput(p) ==
    LET s == Head(op[p].slots)
        e == fs.it[s]
        next == Puts(Tail(op[p].slots), op[p].then)
        emptied == itrunc(fs, s)
    IN  /\ At(p, "iput")
        /\ IF e.lock = p THEN fs' = Unlock(fs, s) /\ UNCHANGED op
           ELSE IF e.ref = 1 /\ e.valid /\ e.di.nlink = 0
           THEN /\ fs' = [iupdate([emptied EXCEPT !.it[s].di.type = "none"], s) EXCEPT !.it[s].valid = FALSE]
                /\ Then(p, [pc |-> "iput2", slot |-> s, then |-> next])
           ELSE fs' = Drop(fs, s) /\ Then(p, next)
        /\ UNCHANGED <<cwd, file>>

\* ... the inode is free on the disk, and may be in use again, before the count drops.
Iput2(p) ==
    /\ At(p, "iput2")
    /\ fs' = Drop(fs, op[p].slot)
    /\ Then(p, op[p].then)
    /\ UNCHANGED <<cwd, file>>

\* Where a call goes on when namex() fails: only sys_link() has something to undo.
Failed(o) == IF o.then = "link2" THEN [pc |-> "linkbad", ip |-> o.call.ip] ELSE User
\* ... and when it finds ip.
Found(o, ip, name) == [pc |-> o.then, call |-> o.call, ip |-> ip, name |-> name]

\* One turn of the loop of namex(), or its end.
NamexInto(p, next) ==
    /\ Then(p, Puts(<<op[p].ip>>, [op[p] EXCEPT !.ip = next.slot, !.path = Tail(@)]))
    /\ fs' = next.fs
NamexDir(p, f, off) ==
    IF op[p].parent /\ Len(op[p].path) = 1
    THEN Then(p, Found(op[p], op[p].ip, Head(op[p].path))) /\ fs' = f
    ELSE IF off = -1 THEN Then(p, Puts(<<op[p].ip>>, Failed(op[p]))) /\ fs' = f
    ELSE NamexInto(p, iget(f, ItemAt(f, f.it[op[p].ip].di, off).inum))
NamexStep(p) ==
    LET o == op[p]
        f == ilock(fs, o.ip)
    IN  /\ At(p, "namex")
        /\ IF o.path = << >>
           THEN /\ Then(p, IF o.parent THEN Puts(<<o.ip>>, Failed(o)) ELSE Found(o, o.ip, ""))
                /\ UNCHANGED fs
           ELSE /\ CanLock(p, o.ip)
                /\ IF f.it[o.ip].di.type # "dir" THEN Then(p, Puts(<<o.ip>>, Failed(o))) /\ fs' = f
                   ELSE NamexDir(p, f, dirlookup(f, o.ip, Head(o.path)))
        /\ UNCHANGED <<cwd, file>>

\* The start of namex(): iget(ROOTINO) or idup(cwd).
Start(p, call, path, parent, then) ==
    LET r == IF path.abs THEN iget(fs, ROOTINO)
             ELSE [fs |-> [fs EXCEPT !.it[cwd[p]].ref = @ + 1], slot |-> cwd[p]]
    IN  /\ fs' = r.fs
        /\ Then(p, Namex(call, r.slot, path.names, parent, then))
        /\ UNCHANGED <<cwd, file>>

\* sys_open(), sys_mkdir(), sys_mknod(), sys_link(), sys_unlink() and sys_chdir().
Syscall(p, call) ==
    /\ At(p, "user")
    /\ Start(p, call, call.path, call.name \in {"create", "unlink"},
             CASE call.name = "create" -> "create" [] call.name = "unlink" -> "unlink1"
               [] call.name = "link" -> "link1" [] OTHER -> call.name)

-----------------------------------------------------------------------------
\* The part of create() that makes an inode: one link, "." and ".." in a directory,
\* the name in dp, a link of dp for ".."; a failure takes the link back.
AndLink(r, s, name, inum) == IF r.ok THEN dirlink(r.fs, s, name, inum) ELSE r
Linked(r, ip, dp, type) ==
    [ip |-> ip, ok |-> r.ok,
     fs |-> IF ~r.ok THEN AddLink(r.fs, ip, -1) ELSE IF type = "dir" THEN AddLink(r.fs, dp, 1) ELSE r.fs]
Furnish(r, ip, dp, type, name) ==
    LET self == r.fs.it[ip].inum
        parent == r.fs.it[dp].inum
    IN  Linked(AndLink(IF type = "dir" THEN AndLink(AndLink(r, ip, ".", self), ip, "..", parent) ELSE r,
                       dp, name, self), ip, dp, type)
CreateNew(new, dp, type, name) ==
    IF new.slot = 0 THEN [fs |-> new.fs, ip |-> 0, ok |-> FALSE]
    ELSE Furnish([fs |-> AddLink(ilock(new.fs, new.slot), new.slot, 1), ok |-> TRUE],
                 new.slot, dp, type, name)

\* create(): an existing name is looked at once dp is let go of, a new one is made
\* with dp locked.  The new inode stays locked for sys_open().
CreateOld(p, old) ==
    fs' = old.fs /\ Then(p, Puts(<<op[p].ip>>, [op[p] EXCEPT !.pc = "exists", !.ip = old.slot]))
CreateKeep(p, new) ==
    LET o == op[p]
        with == [o EXCEPT !.pc = IF o.call.type = "file" THEN "open" ELSE "made", !.ip = new.ip]
    IN  IF new.ok THEN fs' = Lock(new.fs, p, new.ip) /\ Then(p, Puts(<<o.ip>>, with))
        ELSE IF new.ip = 0 THEN fs' = new.fs /\ Then(p, Puts(<<o.ip>>, User))
        ELSE fs' = Lock(new.fs, p, o.ip) /\ Then(p, Puts(<<new.ip, o.ip>>, User))
CreateAt(p, f, off) ==
    IF off # -1 THEN CreateOld(p, iget(f, ItemAt(f, f.it[op[p].ip].di, off).inum))
    ELSE CreateKeep(p, CreateNew(ialloc(f, op[p].call.type), op[p].ip, op[p].call.type, op[p].name))
Create(p) ==
    LET f == ilock(fs, op[p].ip)
    IN  /\ At(p, "create") /\ CanLock(p, op[p].ip)
        /\ CreateAt(p, f, dirlookup(f, op[p].ip, op[p].name))
        /\ UNCHANGED <<cwd, file>>

\* The name was there: for sys_open() a file or a device will do.
Exists(p) ==
    LET o == op[p]
        f == ilock(fs, o.ip)
    IN  /\ At(p, "exists") /\ CanLock(p, o.ip)
        /\ IF o.call.type = "file" /\ f.it[o.ip].di.type \in {"file", "dev"}
           THEN fs' = Lock(f, p, o.ip) /\ Then(p, [o EXCEPT !.pc = "open"])
           ELSE fs' = f /\ Then(p, Puts(<<o.ip>>, User))
        /\ UNCHANGED <<cwd, file>>

\* sys_mkdir() and sys_mknod() have what they want.
Made(p) ==
    /\ At(p, "made")
    /\ Then(p, Puts(<<op[p].ip>>, User))
    /\ UNCHANGED <<fs, cwd, file>>

\* The rest of sys_open(): no directory for writing, a file and a descriptor, O_TRUNC.
\* The reference goes to the file.
Open(p) ==
    LET o == op[p]
        s == o.ip
        f == ilock(fs, s)
        di == f.it[s].di
        denied == di.type = "dir" /\ o.call.mode # "r"
        full == file[p].slot # 0 \/ Cardinality({q \in Procs : file[q].slot # 0}) = NFILE
        cut == IF o.call.mode = "trunc" /\ di.type = "file" THEN itrunc(f, s) ELSE f
    IN  /\ At(p, "open") /\ CanLock(p, s)
        /\ IF denied \/ full THEN fs' = Unlock(f, s) /\ Then(p, Puts(<<s>>, User)) /\ UNCHANGED file
           ELSE /\ fs' = Unlock(cut, s)
                /\ file' = [file EXCEPT ![p] = [slot |-> s, off |-> 0, writable |-> o.call.mode # "r"]]
                /\ Then(p, User)
        /\ UNCHANGED cwd

-----------------------------------------------------------------------------
\* Faulty Link1: the new link is not counted.
Link1NoCount(p) ==
    LET o == op[p]
        f == ilock(fs, o.ip)
    IN  /\ At(p, "link1") /\ CanLock(p, o.ip)
        /\ fs' = f
        /\ Then(p, IF f.it[o.ip].di.type = "dir" THEN Puts(<<o.ip>>, User)
                   ELSE [pc |-> "linkto", call |-> [o.call EXCEPT !.ip = o.ip]])
        /\ UNCHANGED <<cwd, file>>

\* sys_link(): count the link first ...
Link1(p) ==
    LET o == op[p]
        f == ilock(fs, o.ip)
    IN  /\ At(p, "link1") /\ CanLock(p, o.ip)
        /\ IF f.it[o.ip].di.type = "dir"
           THEN fs' = f /\ Then(p, Puts(<<o.ip>>, User))
           ELSE /\ fs' = AddLink(f, o.ip, 1)
                /\ Then(p, [pc |-> "linkto", call |-> [o.call EXCEPT !.ip = o.ip]])
        /\ UNCHANGED <<cwd, file>>
LinkTo(p) == At(p, "linkto") /\ Start(p, op[p].call, op[p].call.to, TRUE, "link2")

\* ... then write the name, or else ...
Link2(p) ==
    LET o == op[p]
        f == ilock(fs, o.ip)
        r == dirlink(f, o.ip, o.name, f.it[o.call.ip].inum)
    IN  /\ At(p, "link2") /\ CanLock(p, o.ip)
        /\ fs' = r.fs
        /\ Then(p, IF r.ok THEN Puts(<<o.ip, o.call.ip>>, User)
                   ELSE Puts(<<o.ip>>, [pc |-> "linkbad", ip |-> o.call.ip]))
        /\ UNCHANGED <<cwd, file>>

\* Faulty LinkBad: the reference is not put.
LinkBadNoPut(p) ==
    /\ At(p, "linkbad") /\ CanLock(p, op[p].ip)
    /\ fs' = AddLink(ilock(fs, op[p].ip), op[p].ip, -1)
    /\ Then(p, User)
    /\ UNCHANGED <<cwd, file>>

\* Faulty LinkBad: the count is not written back.
LinkBadNoUpdate(p) ==
    /\ At(p, "linkbad") /\ CanLock(p, op[p].ip)
    /\ fs' = [ilock(fs, op[p].ip) EXCEPT !.it[op[p].ip].di.nlink = @ - 1]
    /\ Then(p, Puts(<<op[p].ip>>, User))
    /\ UNCHANGED <<cwd, file>>

\* ... take the link back.
LinkBad(p) ==
    /\ At(p, "linkbad") /\ CanLock(p, op[p].ip)
    /\ fs' = AddLink(ilock(fs, op[p].ip), op[p].ip, -1)
    /\ Then(p, Puts(<<op[p].ip>>, User))
    /\ UNCHANGED <<cwd, file>>

\* sys_unlink(): find the name, keep dp locked ...
Unlink1At(p, f, off) ==
    LET o == op[p]
        r == iget(f, ItemAt(f, f.it[o.ip].di, off).inum)
    IN  IF o.name \in {".", ".."} \/ off = -1 THEN fs' = f /\ Then(p, Puts(<<o.ip>>, User))
        ELSE /\ fs' = Lock(r.fs, p, o.ip)
             /\ Then(p, [pc |-> "unlink2", dp |-> o.ip, ip |-> r.slot, off |-> off])
Unlink1(p) ==
    LET f == ilock(fs, op[p].ip)
    IN  /\ At(p, "unlink1") /\ CanLock(p, op[p].ip)
        /\ Unlink1At(p, f, dirlookup(f, op[p].ip, op[p].name))
        /\ UNCHANGED <<cwd, file>>

\* ... clear the entry unless it is a directory in use; with it goes the link of ".." ...
Cleared(p, w, dir) ==
    LET o == op[p]
        g == IF dir THEN AddLink(w.fs, o.dp, -1) ELSE w.fs
    IN  fs' = [Lock(Unlock(g, o.dp), p, o.ip) EXCEPT !.panic = @ \/ w.tot # 1]
Unlink2(p) ==
    LET o == op[p]
        f == ilock(fs, o.ip)
        dir == f.it[o.ip].di.type = "dir"
    IN  /\ At(p, "unlink2") /\ CanLock(p, o.ip)
        /\ IF f.it[o.ip].di.nlink < 1 THEN fs' = [f EXCEPT !.panic = TRUE] /\ UNCHANGED op
           ELSE IF dir /\ ~isdirempty(f, o.ip) THEN fs' = f /\ Then(p, Puts(<<o.ip, o.dp>>, User))
           ELSE /\ Cleared(p, writei(f, o.dp, o.off, <<ZeroItem>>), dir)
                /\ Then(p, Puts(<<o.dp>>, [pc |-> "unlink3", ip |-> o.ip]))
        /\ UNCHANGED <<cwd, file>>

\* ... and last the link of the inode, which stayed locked.
Unlink3(p) ==
    /\ At(p, "unlink3")
    /\ fs' = Unlock(AddLink(fs, op[p].ip, -1), op[p].ip)
    /\ Then(p, Puts(<<op[p].ip>>, User))
    /\ UNCHANGED <<cwd, file>>

\* sys_chdir(): the reference goes to cwd, once the old one has been put.
Chdir(p) ==
    LET o == op[p]
        f == ilock(fs, o.ip)
    IN  /\ At(p, "chdir") /\ CanLock(p, o.ip)
        /\ fs' = f
        /\ IF f.it[o.ip].di.type # "dir" THEN Then(p, Puts(<<o.ip>>, User)) /\ UNCHANGED cwd
           ELSE Then(p, Puts(<<cwd[p]>>, User)) /\ cwd' = [cwd EXCEPT ![p] = o.ip]
        /\ UNCHANGED file

-----------------------------------------------------------------------------
\* fileread() and filewrite() advance off with the inode locked; fileclose() puts it.
Read(p, n) ==
    LET s == file[p].slot
        f == ilock(fs, s)
    IN  /\ At(p, "user") /\ s # 0 /\ CanLock(p, s)
        /\ fs' = f
        /\ file' = [file EXCEPT ![p].off = @ + readi(f.it[s].di, @, n)]
        /\ UNCHANGED <<op, cwd>>

Write(p, items) ==
    LET s == file[p].slot
        w == writei(ilock(fs, s), s, file[p].off, items)
    IN  /\ At(p, "user") /\ s # 0 /\ file[p].writable /\ CanLock(p, s)
        /\ fs.it[s].di.type = "file"
        /\ fs' = w.fs
        /\ file' = [file EXCEPT ![p].off = IF w.tot > 0 THEN @ + w.tot ELSE @]
        /\ UNCHANGED <<op, cwd>>

Close(p) ==
    /\ At(p, "user") /\ file[p].slot # 0
    /\ file' = [file EXCEPT ![p] = NoFile]
    /\ Then(p, Puts(<<file[p].slot>>, User))
    /\ UNCHANGED <<fs, cwd>>

KernelStep(p) ==
    \/ Iput(p) \/ Iput2(p) \/ NamexStep(p)
    \/ Create(p) \/ Exists(p) \/ Made(p) \/ Open(p) \/ Chdir(p)
    \/ Link1(p) \/ LinkTo(p) \/ Link2(p) \/ LinkBad(p)
    \/ Unlink1(p) \/ Unlink2(p) \/ Unlink3(p)

UserStep(p) ==
    \/ \E call \in CALLS[p] : Syscall(p, call)
    \/ \E items \in DATA : Write(p, items)
    \/ Read(p, BSIZE) \/ Close(p)

Next == \E p \in Procs : KernelStep(p) \/ UserStep(p)

Spec == Init /\ [][Next]_vars

-----------------------------------------------------------------------------
\* The disk, the inode table, the current directories and the files keep their types.
TypeOK ==
    /\ fs.used \subseteq Blocks /\ fs.panic \in BOOLEAN
    /\ \A i \in Inums : fs.dinode[i].nlink \in Nat /\ fs.dinode[i].size \in 0..MAXFILE*BSIZE
    /\ \A s \in Slots : fs.it[s].ref \in Nat /\ fs.it[s].lock \in 0..NPROC
    /\ cwd \in [Procs -> Slots]
    /\ file \in [Procs -> [slot : 0..NINODE, off : 0..MAXFILE*BSIZE, writable : BOOLEAN]]

\* The assertions of the code hold: ilock() finds the inode allocated, iget() finds an
\* entry, bfree() a block in use, sys_unlink() a link to take away.
NoPanic == ~fs.panic

\* The references a call in progress holds.
Held(o) ==
    CASE o.pc \in {"user", "iput", "iput2"} -> << >>
      [] o.pc = "linkto" -> <<o.call.ip>>
      [] o.pc = "link2" \/ (o.pc = "namex" /\ o.then = "link2") -> <<o.ip, o.call.ip>>
      [] o.pc = "unlink2" -> <<o.dp, o.ip>>
      [] OTHER -> <<o.ip>>
AllHeld(o) ==
    CASE o.pc = "iput" -> o.slots \o Held(o.then)
      [] o.pc = "iput2" -> IF o.then.pc = "iput" THEN <<o.slot>> \o o.then.slots \o Held(o.then.then)
                           ELSE <<o.slot>> \o Held(o.then)
      [] OTHER -> Held(o)
\* Every reference there is: whose, which of its own, and to which entry.
References ==
    UNION {LET uses == <<cwd[p], file[p].slot>> \o AllHeld(op[p])
           IN  {<<p, j, uses[j]>> : j \in DOMAIN uses} : p \in Procs}

\* iget(), idup() and iput() on every path of every call, the failing ones included: the
\* count of an entry is the number of files, current directories and calls that use it.
RefsExact ==
    LET refs == References
    IN  \A s \in Slots : fs.it[s].ref = Cardinality({r \in refs : r[3] = s})

\* Two entries never stand for one inode, and a valid entry is what the disk holds: each
\* section that changes an inode ends in iupdate().
CacheCoherent ==
    \A s \in Slots : fs.it[s].ref > 0 =>
        /\ \A t \in Slots \ {s} : fs.it[t].ref > 0 => fs.it[t].inum # fs.it[s].inum
        /\ fs.it[s].valid => fs.it[s].di = fs.dinode[fs.it[s].inum]

\* The inode table as a cache: it keeps its types and agrees with the disk.
CacheSound == TypeOK /\ CacheCoherent

\* The places of an inode that hold an address: inode, place, place behind the indirect
\* block, block.
Places(i) ==
    LET di == fs.dinode[i]
        ind == di.addrs[NDIRECT]
    IN  {<<i, k, 0, di.addrs[k]>> : k \in 0..NDIRECT}
        \cup (IF ind = 0 THEN {} ELSE {<<i, NDIRECT, j + 1, fs.blk[ind].addr[j]>> : j \in 0..NINDIRECT-1})
Placed == {x \in UNION {Places(i) : i \in Inums} : x[4] # 0}

\* balloc(), bmap(), itrunc() and their failures: a block is marked in use exactly when
\* an inode has it, one inode has it in one place only, and none is smaller than its size.
BlocksExact ==
    LET placed == Placed
    IN  /\ fs.used = {x[4] : x \in placed}
        /\ Cardinality(placed) = Cardinality(fs.used)
        /\ \A i \in Inums :
              fs.dinode[i].size <=
                 BSIZE * Cardinality({x \in placed : x[1] = i /\ (x[2] = NDIRECT => x[3] # 0)})

\* The entries of the directories, "." and ".." aside: directory, offset, inode.
Named ==
    UNION {{<<d, k, ItemAt(fs, fs.dinode[d], k).inum>> : k \in 2..fs.dinode[d].size-1} :
           d \in {d \in Inums : fs.dinode[d].type = "dir"}}
\* sys_link() counts before it names, sys_unlink() the other way round: an inode never
\* has more names than links, so no name outlives its inode.
NamesCounted ==
    LET named == Named
    IN  \A i \in Inums : Cardinality({x \in named : x[3] = i}) <= fs.dinode[i].nlink

\* iput() frees an inode when the caller is the only one that refers to it, by a file, a
\* current directory or a call under way, and no directory has a name for it.
FreedWhenUnused ==
    [][\A i \in Inums : fs.dinode[i].type # "none" /\ fs'.dinode[i].type = "none" =>
          /\ \A x \in Named : x[3] # i
          /\ \A s \in Slots : fs.it[s].ref > 0 /\ fs.it[s].inum = i =>
                Cardinality({r \in References : r[3] = s}) = 1]_vars
=============================================================================
