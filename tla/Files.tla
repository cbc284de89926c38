------------------------------- MODULE Files --------------------------------
(***************************************************************************)
(* File descriptors, the file table and pipes: kernel/file.c, pipe.c, the  *)
(* descriptor calls of sysfile.c, and what fork() and exit() do with them, *)
(* composed with the process table of Proc.                                *)
(*                                                                         *)
(* A critical section of ftable.lock is one step.  A pipe's lock is held   *)
(* from one byte of pipewrite() to the next; killed() is read at each.     *)
(* nread and nwrite are uint: they wrap at WORD, a multiple of PIPESIZE.   *)
(***************************************************************************)
EXTENDS Proc

CONSTANTS
    NOFILE,         \* descriptors per process
    NFILE,          \* entries of the file table
    PIPESIZE,       \* bytes a pipe holds
    WORD,           \* 2^32: where nread and nwrite wrap
    BUFS, READS,    \* bounds: what is passed to write(), how much to read()
    VICTIMS         \* bound: slots whose process kill() is called on

ASSUME FilesAssumption ==
    /\ NOFILE \in Nat /\ NFILE \in Nat /\ READS \subseteq Nat
    /\ \A buf \in BUFS : Len(buf) > 0
    /\ VICTIMS \subseteq Procs \ {init}
    /\ PIPESIZE \in Nat \ {0}
    /\ WORD \in Nat /\ WORD > PIPESIZE /\ WORD % PIPESIZE = 0

VARIABLES
    ofile,          \* ofile[p][fd]: an entry of the file table, or 0
    file,           \* the file table: ref, pipe (0 for FD_NONE), writable
    pipe,           \* struct pipe: nread, nwrite, data, readopen, writeopen
    stranded        \* pipes whose last bytes a killed writer announced to nobody

fvars == <<ofile, file, pipe, stranded>>
vars == <<proc, op, lock, fvars>>

FDs == 0..NOFILE-1
FileIds == 1..NFILE
Pipes == 1..NPIPE

NoFile == [ref |-> 0, pipe |-> 0, writable |-> FALSE]
NoPipe == [nread |-> 0, nwrite |-> 0, data |-> [k \in 0..PIPESIZE-1 |-> 0],
           readopen |-> FALSE, writeopen |-> FALSE]
IsFree(pi) == ~pipe[pi].readopen /\ ~pipe[pi].writeopen

\* init has started a shell, which has no files open yet.
Init ==
    /\ proc = [p \in Procs |-> IF p > 2 THEN FreeSlot
                               ELSE [FreeSlot EXCEPT !.state = "RUNNABLE", !.parent = p - 1]]
    /\ op = [p \in Procs |-> User]
    /\ lock = [l \in Locks |-> 0]
    /\ ofile = [p \in Procs |-> [fd \in FDs |-> 0]]
    /\ file = [f \in FileIds |-> NoFile]
    /\ pipe = [pi \in Pipes |-> NoPipe]
    /\ stranded = {}

Then(p, to) == op' = [op EXCEPT ![p] = to]
FreeFds(p) == {fd \in FDs : ofile[p][fd] = 0}
FreeFiles == {f \in FileIds : file[f].ref = 0}

-----------------------------------------------------------------------------
\* Faulty fileclose: pipeclose() is skipped.
filecloseNoPipe(p, f, to) ==
    /\ file' = [file EXCEPT ![f] = IF file[f].ref > 1 THEN [file[f] EXCEPT !.ref = file[f].ref - 1] ELSE NoFile]
    /\ Then(p, to)

\* fileclose(): drop a reference; the last one empties the entry and, the lock
\* released, closes its end of the pipe.
fileclose(p, f, to) ==
    /\ file' = [file EXCEPT ![f] = IF file[f].ref > 1 THEN [file[f] EXCEPT !.ref = file[f].ref - 1] ELSE NoFile]
    /\ Then(p, IF file[f].ref > 1 \/ file[f].pipe = 0 THEN to
               ELSE [pc |-> "pipeclose", pipe |-> file[f].pipe, writable |-> file[f].writable,
                     then |-> to])

\* Faulty PipeClose: the sleepers of the other end are not woken.
PipeCloseNoWake(p) ==
    LET pi == op[p].pipe
        q == IF op[p].writable THEN [pipe[pi] EXCEPT !.writeopen = FALSE]
             ELSE [pipe[pi] EXCEPT !.readopen = FALSE]
    IN  /\ At(p, "pipeclose") /\ lock[pi] = 0
        /\ pipe' = [pipe EXCEPT ![pi] = IF ~q.readopen /\ ~q.writeopen THEN NoPipe ELSE q]
        /\ Then(p, op[p].then)
        /\ UNCHANGED <<proc, lock, ofile, file, stranded>>

\* pipeclose(): close one end, wake who sleeps at the other, free the page with the last.
PipeClose(p) ==
    LET pi == op[p].pipe
        w == op[p].writable
        q == IF w THEN [pipe[pi] EXCEPT !.writeopen = FALSE] ELSE [pipe[pi] EXCEPT !.readopen = FALSE]
        closed == ~q.readopen /\ ~q.writeopen
    IN  /\ At(p, "pipeclose") /\ lock[pi] = 0
        /\ pipe' = [pipe EXCEPT ![pi] = IF closed THEN NoPipe ELSE q]
        /\ proc' = wakeup(proc, Chan(IF w THEN "nread" ELSE "nwrite", pi), p)
        /\ stranded' = IF w \/ closed THEN stranded \ {pi} ELSE stranded
        /\ Then(p, op[p].then)
        /\ UNCHANGED <<lock, ofile, file>>

\* sys_dup(): fdalloc() then filedup().
SysDup(p, fd) ==
    /\ Calls(p) /\ ofile[p][fd] # 0 /\ FreeFds(p) # {}
    /\ ofile' = [ofile EXCEPT ![p][First(FreeFds(p))] = ofile[p][fd]]
    /\ file' = [file EXCEPT ![ofile[p][fd]].ref = @ + 1]
    /\ UNCHANGED <<proc, op, lock, pipe, stranded>>

SysClose(p, fd) ==
    /\ Calls(p) /\ ofile[p][fd] # 0
    /\ ofile' = [ofile EXCEPT ![p][fd] = 0]
    /\ fileclose(p, ofile[p][fd], User)
    /\ UNCHANGED <<proc, lock, pipe, stranded>>

-----------------------------------------------------------------------------
\* pipealloc(): the first filealloc() ...
SysPipe(p) ==
    /\ Calls(p) /\ FreeFiles # {}
    /\ LET f == First(FreeFiles)
       IN  /\ file' = [file EXCEPT ![f].ref = 1]
           /\ Then(p, [pc |-> "pipealloc", f0 |-> f])
    /\ UNCHANGED <<proc, lock, ofile, pipe, stranded>>

\* ... the second and kalloc(); a failure closes the first file, which is FD_NONE.
\* Then two descriptors; when they or the copyout() fail both files are closed.
PipeAlloc(p) ==
    LET f0 == op[p].f0
        f1 == First(FreeFiles)
        fd0 == First(FreeFds(p))
        fd1 == First(FreeFds(p) \ {fd0})
    IN  /\ At(p, "pipealloc")
        /\ \/ /\ FreeFiles # {}
              /\ \E pi \in Pipes :
                    /\ IsFree(pi)
                    /\ pipe' = [pipe EXCEPT ![pi].readopen = TRUE, ![pi].writeopen = TRUE]
                    /\ file' = [file EXCEPT ![f0] = [ref |-> 1, pipe |-> pi, writable |-> FALSE],
                                            ![f1] = [ref |-> 1, pipe |-> pi, writable |-> TRUE]]
              /\ \/ /\ Cardinality(FreeFds(p)) >= 2
                    /\ ofile' = [ofile EXCEPT ![p][fd0] = f0, ![p][fd1] = f1]
                    /\ Then(p, User)
                 \/ Then(p, [pc |-> "pipebad", f0 |-> f0, f1 |-> f1]) /\ UNCHANGED ofile
           \/ /\ FreeFiles = {} \/ \A pi \in Pipes : ~IsFree(pi)
              /\ fileclose(p, f0, User)
              /\ UNCHANGED <<pipe, ofile>>
        /\ UNCHANGED <<proc, lock, stranded>>

PipeBad(p) ==
    /\ \/ At(p, "pipebad") /\ fileclose(p, op[p].f0, [pc |-> "pipebad1", f1 |-> op[p].f1])
       \/ At(p, "pipebad1") /\ fileclose(p, op[p].f1, User)
    /\ UNCHANGED <<proc, lock, ofile, pipe, stranded>>

-----------------------------------------------------------------------------
Full(q) == q.nwrite = (q.nread + PIPESIZE) % WORD
Empty(q) == q.nread = q.nwrite
Count(q) == (q.nwrite - q.nread) % WORD
\* The next k bytes of a pipe, oldest first.
Front(q, k) == [j \in 1..k |-> q.data[((q.nread + j - 1) % WORD) % PIPESIZE]]

\* piperead(): sleep while empty and open for writing; then copy what is there, up to
\* n bytes.  A byte whose copyout() fails has left the pipe and is not delivered.
piperead(p, pi, n) ==
    LET q == pipe[pi]
        waits == Empty(q) /\ q.writeopen
        sleeps == waits /\ ~proc[p].killed
        k == IF n < Count(q) THEN n ELSE Count(q)
        Take(taken) ==
            /\ pipe' = [pipe EXCEPT ![pi].nread = (@ + taken) % WORD]
            /\ proc' = wakeup(proc, Chan("nwrite", pi), p)
            /\ stranded' = IF taken = Count(q) THEN stranded \ {pi} ELSE stranded
    IN  /\ Has(pi, p) /\ Holds(pi, p, sleeps)
        /\ Then(p, IF sleeps THEN ToSleep(Chan("nread", pi), [pc |-> "read", pipe |-> pi, n |-> n])
                   ELSE User)
        /\ IF waits THEN UNCHANGED <<proc, pipe, stranded>>
           ELSE \E j \in 0..k : (j = k \/ j > 0) /\ Take(j)

\* sys_read() and fileread() of a pipe; Read is where piperead() goes on after sleep().
SysRead(p, fd, n) ==
    LET f == file[ofile[p][fd]]
    IN  /\ Calls(p) /\ ofile[p][fd] # 0 /\ ~f.writable
        /\ piperead(p, f.pipe, n)
        /\ UNCHANGED <<ofile, file>>
Read(p) ==
    /\ At(p, "read") /\ piperead(p, op[p].pipe, op[p].n)
    /\ UNCHANGED <<ofile, file>>

\* The wakeup(&pi->nread) of pipewrite().
WakeReaders(p, pi) ==
    /\ proc' = wakeup(proc, Chan("nread", pi), p)
    /\ stranded' = stranded \ {pi}

\* Faulty pipewrite: one byte more than the ring holds.
pipewriteOver(p, pi, buf, fresh) ==
    LET q == pipe[pi]
    IN  /\ Has(pi, p) /\ q.readopen /\ ~proc[p].killed /\ buf # << >>
        /\ pipe' = [pipe EXCEPT ![pi].data[q.nwrite % PIPESIZE] = Head(buf),
                                ![pi].nwrite = (@ + 1) % WORD]
        /\ Then(p, [pc |-> "write", pipe |-> pi, buf |-> Tail(buf), fresh |-> TRUE])
        /\ Holds(pi, p, TRUE)
        /\ UNCHANGED <<proc, stranded>>

\* One turn of the loop of pipewrite(), or what follows it.  fresh: bytes were stored
\* since this call last woke the readers.  The return for a closed read end or a killed
\* caller wakes nobody.
pipewrite(p, pi, buf, fresh) ==
    LET q == pipe[pi]
        fails == buf # << >> /\ (~q.readopen \/ proc[p].killed)
        sleeps == buf # << >> /\ ~fails /\ Full(q)
        stores == buf # << >> /\ ~fails /\ ~Full(q)
        At1(b, fr) == [pc |-> "write", pipe |-> pi, buf |-> b, fresh |-> fr]
        End == Then(p, User) /\ Holds(pi, p, FALSE) /\ UNCHANGED pipe
    IN  /\ Has(pi, p)
        /\ \/ /\ fails /\ End
              /\ stranded' = IF fresh THEN stranded \cup {pi} ELSE stranded
              /\ UNCHANGED proc
           \/ /\ sleeps /\ WakeReaders(p, pi)
              /\ Then(p, ToSleep(Chan("nwrite", pi), At1(buf, FALSE)))
              /\ Holds(pi, p, TRUE) /\ UNCHANGED pipe
           \/ /\ stores
              /\ pipe' = [pipe EXCEPT ![pi].data[q.nwrite % PIPESIZE] = Head(buf),
                                      ![pi].nwrite = (@ + 1) % WORD]
              /\ Then(p, At1(Tail(buf), TRUE))
              /\ Holds(pi, p, TRUE) /\ UNCHANGED <<proc, stranded>>
           \/ \* the end of the loop, or copyin() failed
              /\ stores \/ buf = << >>
              /\ WakeReaders(p, pi) /\ End

\* sys_write() and filewrite() of a pipe, and the loop of pipewrite().
SysWrite(p, fd, buf) ==
    LET f == file[ofile[p][fd]]
    IN  /\ Calls(p) /\ ofile[p][fd] # 0 /\ f.writable
        /\ pipewrite(p, f.pipe, buf, FALSE)
        /\ UNCHANGED <<ofile, file>>
Write(p) ==
    /\ At(p, "write") /\ pipewrite(p, op[p].pipe, op[p].buf, op[p].fresh)
    /\ UNCHANGED <<ofile, file>>

-----------------------------------------------------------------------------
\* Faulty ForkAlloc: the child gets the descriptors, the files no references.
ForkAllocNoDup(p) ==
    /\ Calls(p) /\ Unused # {}
    /\ LET c == First(Unused)
       IN  /\ proc' = [proc EXCEPT ![c].state = "USED"]
           /\ ofile' = [ofile EXCEPT ![c] = ofile[p]]
           /\ Then(p, [pc |-> "fork", child |-> c])
    /\ UNCHANGED <<lock, file, pipe, stranded>>

\* fork(): allocproc() leaves killed alone; every open file gets one more reference.
\* When memory runs out freeproc() clears killed and the call returns.
ForkAlloc(p) ==
    /\ Calls(p) /\ Unused # {}
    /\ LET c == First(Unused)
       IN  \/ /\ proc' = [proc EXCEPT ![c].state = "USED"]
              /\ ofile' = [ofile EXCEPT ![c] = ofile[p]]
              /\ file' = [f \in FileIds |->
                            [file[f] EXCEPT !.ref = @ + Cardinality({fd \in FDs : ofile[p][fd] = f})]]
              /\ Then(p, [pc |-> "fork", child |-> c])
           \/ proc' = [proc EXCEPT ![c] = FreeSlot] /\ UNCHANGED <<op, ofile, file>>
    /\ UNCHANGED <<lock, pipe, stranded>>

\* ... then wait_lock for the parent, and the child's lock for its state.
ForkRun(p) ==
    /\ At(p, "fork") /\ lock[0] = 0
    /\ proc' = [proc EXCEPT ![op[p].child].parent = p, ![op[p].child].state = "RUNNABLE"]
    /\ Then(p, User)
    /\ UNCHANGED <<lock, fvars>>

\* exit(), called by the process or for a killed one by usertrap() ...
SysExit(p) ==
    /\ p # init /\ At(p, "user")
    /\ Then(p, [pc |-> "exit"])
    /\ UNCHANGED <<proc, lock, fvars>>

\* ... closes the descriptors in order, then becomes a zombie.
Exit(p) ==
    LET open == FDs \ FreeFds(p)
    IN  /\ At(p, "exit")
        /\ \/ /\ open = {} /\ ExitZombie(p)
              /\ UNCHANGED <<ofile, file>>
           \/ /\ open # {}
              /\ ofile' = [ofile EXCEPT ![p][First(open)] = 0]
              /\ fileclose(p, ofile[p][First(open)], [pc |-> "exit"])
              /\ UNCHANGED <<proc, lock>>
        /\ UNCHANGED <<pipe, stranded>>

-----------------------------------------------------------------------------
KernelStep(p) ==
    \/ (Sleep(p) \/ Awake(p) \/ (At(p, "wait") /\ Wait(p))) /\ UNCHANGED fvars
    \/ PipeClose(p) \/ PipeAlloc(p) \/ PipeBad(p)
    \/ Read(p) \/ Write(p) \/ ForkRun(p) \/ Exit(p)

\* init waits for ever (user/init.c); the others call what they like.
Syscall(p) ==
    \/ Calls(p) /\ Wait(p) /\ UNCHANGED fvars
    \/ /\ p # init
       /\ \/ SysPipe(p) \/ ForkAlloc(p) \/ SysExit(p)
          \/ \E s \in VICTIMS : Kill(p, s) /\ UNCHANGED fvars
          \/ \E fd \in FDs :
                \/ SysDup(p, fd) \/ SysClose(p, fd)
                \/ \E n \in READS : SysRead(p, fd, n)
                \/ \E buf \in BUFS : SysWrite(p, fd, buf)

Next == \E p \in Procs : KernelStep(p) \/ Syscall(p)

Spec == Init /\ [][Next]_vars

-----------------------------------------------------------------------------
Pcs == {"user", "tosleep", "asleep", "wait", "pipeclose", "pipealloc", "pipebad", "pipebad1",
        "read", "write", "fork", "exit"}
\* The process table, the locks, the descriptors, the file table and the pipes keep their
\* types; the indices of a pipe stay below WORD.
TypeOK ==
    /\ \A p \in Procs :
          /\ proc[p].state \in {"UNUSED", "USED", "RUNNABLE", "SLEEPING", "ZOMBIE"}
          /\ proc[p].killed \in BOOLEAN /\ proc[p].parent \in Procs \cup {0}
          /\ op[p].pc \in Pcs
    /\ lock \in [Locks -> Procs \cup {0}]
    /\ ofile \in [Procs -> [FDs -> FileIds \cup {0}]]
    /\ file \in [FileIds -> [ref : Nat, pipe : Pipes \cup {0}, writable : BOOLEAN]]
    /\ \A pi \in Pipes : pipe[pi].nread \in 0..WORD-1 /\ pipe[pi].nwrite \in 0..WORD-1
    /\ stranded \subseteq Pipes

\* What a process is doing once it has the processor, sleeping or not.
Doing(p) == IF op[p].pc \in {"tosleep", "asleep"} THEN op[p].then ELSE op[p]
\* A file allocated by pipealloc() or sys_pipe() and not yet a descriptor.
InFlight(p) ==
    LET o == IF op[p].pc = "pipeclose" THEN op[p].then ELSE op[p]
    IN  CASE o.pc = "pipealloc" -> {o.f0}
          [] o.pc = "pipebad" -> {o.f0, o.f1}
          [] o.pc = "pipebad1" -> {o.f1}
          [] OTHER -> {}

\* filealloc(), filedup() and fileclose(): the count of an entry is the number of
\* descriptors that name it, those of a child being forked included.
RefsExact ==
    \A f \in FileIds :
        file[f].ref = Cardinality({x \in Procs \X FDs : ofile[x[1]][x[2]] = f})
                      + Cardinality({p \in Procs : f \in InFlight(p)})

\* The tables keep their types and the counts of the file table are exact.
CountsExact == TypeOK /\ RefsExact

\* pipeclose(): an end is open exactly while a file, or a close under way, stands for
\* it, so the page is freed once, and no call is inside a pipe that is free.
PipeLifetime ==
    \A pi \in Pipes :
        /\ \A w \in BOOLEAN :
              (IF w THEN pipe[pi].writeopen ELSE pipe[pi].readopen) <=>
                 \/ \E f \in FileIds : file[f].pipe = pi /\ file[f].writable = w
                 \/ \E p \in Procs : op[p].pc = "pipeclose" /\ op[p].pipe = pi /\ op[p].writable = w
        /\ IsFree(pi) => \A p \in Procs : Doing(p).pc \in {"read", "write"} => Doing(p).pipe # pi

\* piperead() and pipewrite() miss no wakeup: once the lock is free a reader asleep has
\* nothing to read and a writer still has no room.  The one exception is in the code: a
\* writer killed between two bytes returns without waking the readers.
NoLostWakeup ==
    \A p \in Procs : proc[p].state = "SLEEPING" /\ proc[p].chan.kind \in {"nread", "nwrite"} =>
        LET pi == proc[p].chan.id
            q == pipe[pi]
        IN  lock[pi] = 0 =>
                IF proc[p].chan.kind = "nread" THEN q.writeopen /\ (Empty(q) \/ pi \in stranded)
                ELSE q.readopen /\ Full(q)

\* The ring of data[], nread and nwrite implements a queue of PIPESIZE bytes.
Fifo == INSTANCE Fifo WITH
    N <- PIPESIZE, Ids <- Pipes, Values <- UNION {{buf[j] : j \in DOMAIN buf} : buf \in BUFS},
    queue <- [pi \in Pipes |-> Front(pipe[pi], Count(pipe[pi]))]
PipeIsFifo == Fifo!Spec
=============================================================================
