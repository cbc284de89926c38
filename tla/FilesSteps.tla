----------------------------- MODULE FilesSteps -----------------------------
(***************************************************************************)
(* Proofs about processes, descriptors and pipes, for any number of        *)
(* processes, files and pipes and pipes of any size.                       *)
(*                                                                         *)
(* FilesInv is inductive.  It joins the process table (who holds which     *)
(* lock, who sleeps where, who is whose parent) with the file table (what  *)
(* every reference counts and which file stands for which end of a pipe):  *)
(* a read or a write is on an open pipe because the caller keeps the       *)
(* descriptor, and the descriptor keeps the file because counts are exact. *)
(***************************************************************************)
EXTENDS Files, FiniteSetTheorems, WellFoundedInduction, TLAPS

States == {"UNUSED", "USED", "RUNNABLE", "SLEEPING", "ZOMBIE"}
Exiting == [pc |-> "exit"]
Waiting == [pc |-> "wait"]
FileRec == [ref : Nat, pipe : Pipes \cup {0}, writable : BOOLEAN]

\* The process table, the pipes and the other tables have their fields and types.
IsProc(r) ==
    /\ r = [state |-> r.state, chan |-> r.chan, killed |-> r.killed, parent |-> r.parent]
    /\ r.state \in States /\ r.killed \in BOOLEAN /\ r.parent \in Procs \cup {0}
IsPipe(q) ==
    /\ q = [nread |-> q.nread, nwrite |-> q.nwrite, data |-> q.data,
            readopen |-> q.readopen, writeopen |-> q.writeopen]
    /\ q.nread \in 0..WORD-1 /\ q.nwrite \in 0..WORD-1
ProcType == DOMAIN proc = Procs /\ \A p \in Procs : IsProc(proc[p])
PipeType == DOMAIN pipe = Pipes /\ \A pi \in Pipes : IsPipe(pipe[pi])
TableType ==
    /\ lock \in [Locks -> Procs \cup {0}]
    /\ ofile \in [Procs -> [FDs -> FileIds \cup {0}]]
    /\ file \in [FileIds -> FileRec]
    /\ stranded \subseteq Pipes

\* Where a process is in the kernel, with the locals it has there.
SleepType(p, ch, then) ==
    \/ ch = Chan("child", p) /\ then = Waiting
    \/ then.pc = "read" /\ then.pipe \in Pipes /\ then.n \in Nat /\ ch = Chan("nread", then.pipe)
    \/ then.pc = "write" /\ then.pipe \in Pipes /\ ch = Chan("nwrite", then.pipe)
IsOp(p, o) ==
    /\ o.pc \in Pcs
    /\ o.pc \in {"tosleep", "asleep"} =>
          o = [pc |-> o.pc, chan |-> o.chan, then |-> o.then] /\ SleepType(p, o.chan, o.then)
    /\ o.pc \in {"read", "write"} => o.pipe \in Pipes
    /\ o.pc = "read" => o.n \in Nat
    /\ o.pc = "pipeclose" =>
          /\ o.pipe \in Pipes /\ o.writable \in BOOLEAN
          /\ o.then \in {User, Exiting} \/ (o.then.pc = "pipebad1" /\ o.then.f1 \in FileIds)
    /\ o.pc = "pipealloc" => o.f0 \in FileIds
    /\ o.pc = "pipebad" => o.f0 \in FileIds /\ o.f1 \in FileIds /\ o.f0 # o.f1
    /\ o.pc = "pipebad1" => o.f1 \in FileIds
    /\ o.pc = "fork" => o.child \in Procs
OpType == DOMAIN op = Procs /\ \A p \in Procs : IsOp(p, op[p])

\* A lock is held exactly by the process between its acquire() and its release().
Holding(p, l) ==
    \/ op[p].pc = "tosleep" /\ l = LockOf(op[p].chan)
    \/ op[p].pc = "wait" /\ l = 0
    \/ op[p].pc \in {"read", "write"} /\ l = op[p].pipe
LockInv == \A p \in Procs, l \in Locks : lock[l] = p <=> Holding(p, l)

\* What the state of a slot says of its kernel stack, its descriptors and its parent.
SlotInv(p) ==
    /\ proc[p].state = "SLEEPING" => op[p].pc = "asleep"
    /\ op[p].pc = "asleep" => proc[p].chan = op[p].chan
    /\ proc[p].state \in {"UNUSED", "USED", "ZOMBIE"} => op[p].pc = "user"
    /\ proc[p].state \in {"UNUSED", "ZOMBIE"} => \A fd \in FDs : ofile[p][fd] = 0
    /\ proc[p].state \in {"UNUSED", "USED"} => proc[p].parent = 0
    /\ op[p].pc = "fork" => proc[op[p].child].state = "USED"
InitInv ==
    /\ proc[init].state \in {"RUNNABLE", "SLEEPING"}
    /\ op[init].pc \in {"user", "wait", "tosleep", "asleep"}
    /\ op[init].pc \in {"tosleep", "asleep"} => op[init].then = Waiting
StateInv ==
    /\ \A p \in Procs : SlotInv(p)
    /\ \A p, q \in Procs :
          op[p].pc = "fork" /\ op[q].pc = "fork" /\ op[p].child = op[q].child => p = q
    /\ InitInv

\* A process that sleeps on ch, or holds the lock with which it goes to sleep on ch.
SleepsOn(p, ch) ==
    \/ proc[p].state = "SLEEPING" /\ proc[p].chan = ch
    \/ op[p].pc = "tosleep" /\ op[p].chan = ch
FamilyInv ==
    /\ \A p \in Procs : SleepsOn(p, Chan("child", p)) => Children(p) # {} /\ Zombies(p) = {}
    /\ \A p \in Procs \ {init} : proc[p].state \notin {"UNUSED", "USED"} =>
          proc[p].parent # 0 /\ proc[proc[p].parent].state \in {"RUNNABLE", "SLEEPING"}

\* A reader may sleep on bytes only while the writer that stored them has yet to wake it.
Unannounced(pi) == \E w \in Procs : op[w].pc = "write" /\ op[w].pipe = pi /\ op[w].fresh
WakeInv ==
    \A p \in Procs, pi \in Pipes :
        /\ SleepsOn(p, Chan("nread", pi)) =>
              pipe[pi].writeopen /\ (Empty(pipe[pi]) \/ pi \in stranded \/ Unannounced(pi))
        /\ op[p].pc = "tosleep" /\ op[p].chan = Chan("nread", pi) => Empty(pipe[pi])
        /\ SleepsOn(p, Chan("nwrite", pi)) => pipe[pi].readopen /\ Full(pipe[pi])

\* An entry without references is empty, descriptors are of pipes, and pipealloc() has the
\* only reference to the file it prepares.
FileInv ==
    /\ \A f \in FileIds : file[f].ref = 0 => file[f] = NoFile
    /\ \A p \in Procs, fd \in FDs : ofile[p][fd] # 0 => file[ofile[p][fd]].pipe # 0
    /\ \A p \in Procs : op[p].pc = "pipealloc" => file[op[p].f0].pipe = 0 /\ file[op[p].f0].ref = 1

\* One file, or one close under way, stands for each open end of a pipe.
Closing(p, pi, w) == op[p].pc = "pipeclose" /\ op[p].pipe = pi /\ op[p].writable = w
Stands(f, pi, w) == file[f].pipe = pi /\ file[f].writable = w
Open(pi, w) == IF w THEN pipe[pi].writeopen ELSE pipe[pi].readopen
EndInv(pi, w) ==
    /\ \A f, g \in FileIds : Stands(f, pi, w) /\ Stands(g, pi, w) => f = g
    /\ \A p, q \in Procs : Closing(p, pi, w) /\ Closing(q, pi, w) => p = q
    /\ \A f \in FileIds, p \in Procs : ~(Stands(f, pi, w) /\ Closing(p, pi, w))
    /\ Open(pi, w) <=> (\E f \in FileIds : Stands(f, pi, w)) \/ (\E p \in Procs : Closing(p, pi, w))
EndsInv == \A pi \in Pipes, w \in BOOLEAN : EndInv(pi, w)

\* A process inside piperead() or pipewrite() keeps a descriptor of that pipe.
Keeps(p, pi) == \E fd \in FDs : ofile[p][fd] # 0 /\ file[ofile[p][fd]].pipe = pi
UserOf(p) == Doing(p).pc \in {"read", "write"} => Keeps(p, Doing(p).pipe)
UserInv == \A p \in Procs : UserOf(p)

Types == ProcType /\ PipeType /\ TableType /\ OpType
FilesInv ==
    /\ Types /\ LockInv /\ StateInv /\ FamilyInv /\ WakeInv
    /\ RefsExact /\ FileInv /\ EndsInv /\ UserInv

-----------------------------------------------------------------------------
\* The numbers of the slots, the pipes and the locks, and the channels.
LEMMA Numbers ==
    /\ init \in Procs /\ 0 \notin Procs /\ init # 0 /\ 0 \in Locks
    /\ \A pi \in Pipes : pi \in Locks /\ pi # 0
    /\ \A p \in Procs : p # 0
BY SMTT(30), ProcAssumption DEF Procs, Locks, Pipes, init

LEMMA Channels ==
    /\ \A p : LockOf(Chan("child", p)) = 0
    /\ \A pi : LockOf(Chan("nread", pi)) = pi /\ LockOf(Chan("nwrite", pi)) = pi
    /\ Waiting.pc = "wait"
BY ZenonT(30) DEF LockOf, Chan, Waiting

LEMMA InWord ==
    ASSUME NEW x \in 0..WORD-1, NEW j \in Nat
    PROVE  (x + j) % WORD \in 0..WORD-1
BY SMTT(30), FilesAssumption

\* A set of naturals that is not empty has a least element.
LEMMA LeastExists ==
    ASSUME NEW S \in SUBSET Nat, S # {}
    PROVE  First(S) \in S
<1> DEFINE R == OpToRel(<, Nat)
<1>1. IsWellFoundedOn(R, Nat)
    BY ZenonT(30), NatLessThanWellFounded
<1> HIDE DEF R
<1>2. PICK x \in S : \A y \in S : ~ (<<y, x>> \in R)
    BY ZenonT(30), <1>1, WFMin
<1>3. \A y \in S : y < x => <<y, x>> \in R
    BY ZenonT(30) DEF R, OpToRel
<1>4. ASSUME NEW y \in S PROVE x <= y
  <2>1. ~(y < x)
      BY ZenonT(30), <1>2, <1>3
  <2>2. x \in Nat /\ y \in Nat
      BY ZenonT(30)
  <2> QED
      BY SMTT(30), <2>1, <2>2
<1> QED
    BY ZenonT(30), <1>4 DEF First

\* Only the process at p moves in the kernel, to o.
OpSet(p, o) ==
    /\ DOMAIN op' = Procs /\ op'[p] = o
    /\ \A q \in Procs \ {p} : op'[q] = op[q]

LEMMA OpMoves ==
    ASSUME OpType, NEW p \in Procs, NEW o, op' = [op EXCEPT ![p] = o]
    PROVE  OpSet(p, o)
BY ZenonT(30) DEF OpType, OpSet

LEMMA OpKept ==
    ASSUME OpType, NEW p \in Procs, NEW o, OpSet(p, o), IsOp(p, o)
    PROVE  OpType'
BY SMTT(30) DEF OpType, OpSet, IsOp, SleepType

\* A slot of the process table and a pipe, field by field: what they are made of and what an
\* assignment to one field makes of them.
ProcShape(r) ==
    r = [state |-> r.state, chan |-> r.chan, killed |-> r.killed, parent |-> r.parent]
PipeShape(q) ==
    q = [nread |-> q.nread, nwrite |-> q.nwrite, data |-> q.data,
         readopen |-> q.readopen, writeopen |-> q.writeopen]

LEMMA ProcFields ==
    ASSUME NEW s, NEW c, NEW k, NEW par, NEW r,
           r = [state |-> s, chan |-> c, killed |-> k, parent |-> par]
    PROVE  ProcShape(r) /\ r.state = s /\ r.chan = c /\ r.killed = k /\ r.parent = par
BY ZenonT(30) DEF ProcShape

LEMMA ProcSet ==
    ASSUME NEW r, ProcShape(r), NEW v
    PROVE  /\ [r EXCEPT !.state = v] =
                 [state |-> v, chan |-> r.chan, killed |-> r.killed, parent |-> r.parent]
           /\ [r EXCEPT !.chan = v] =
                 [state |-> r.state, chan |-> v, killed |-> r.killed, parent |-> r.parent]
           /\ [r EXCEPT !.killed = v] =
                 [state |-> r.state, chan |-> r.chan, killed |-> v, parent |-> r.parent]
           /\ [r EXCEPT !.parent = v] =
                 [state |-> r.state, chan |-> r.chan, killed |-> r.killed, parent |-> v]
BY SMTT(30) DEF ProcShape

LEMMA PipeFields ==
    ASSUME NEW nr, NEW nw, NEW d, NEW ro, NEW wo, NEW q,
           q = [nread |-> nr, nwrite |-> nw, data |-> d, readopen |-> ro, writeopen |-> wo]
    PROVE  /\ PipeShape(q) /\ q.nread = nr /\ q.nwrite = nw /\ q.data = d
           /\ q.readopen = ro /\ q.writeopen = wo
BY ZenonT(30) DEF PipeShape

LEMMA PipeSet ==
    ASSUME NEW q, PipeShape(q), NEW v
    PROVE  /\ [q EXCEPT !.nwrite = v] =
                 [nread |-> q.nread, nwrite |-> v, data |-> q.data,
                  readopen |-> q.readopen, writeopen |-> q.writeopen]
           /\ [q EXCEPT !.data = v] =
                 [nread |-> q.nread, nwrite |-> q.nwrite, data |-> v,
                  readopen |-> q.readopen, writeopen |-> q.writeopen]
           /\ [q EXCEPT !.readopen = v] =
                 [nread |-> q.nread, nwrite |-> q.nwrite, data |-> q.data,
                  readopen |-> v, writeopen |-> q.writeopen]
           /\ [q EXCEPT !.writeopen = v] =
                 [nread |-> q.nread, nwrite |-> q.nwrite, data |-> q.data,
                  readopen |-> q.readopen, writeopen |-> v]
BY SMTT(30) DEF PipeShape

\* The slots after wakeup(): some that slept on ch are RUNNABLE, nothing else.
LEMMA WakeFacts ==
    ASSUME NEW T, \A q \in Procs : IsProc(T[q]), NEW ch, NEW me, NEW U, U = wakeup(T, ch, me)
    PROVE  /\ DOMAIN U = Procs
           /\ \A q \in Procs :
                /\ IsProc(U[q]) /\ U[q].parent = T[q].parent /\ U[q].chan = T[q].chan
                /\ U[q].state = T[q].state \/ (T[q].state = "SLEEPING" /\ U[q].state = "RUNNABLE")
                /\ U[q].state = "SLEEPING" => q = me \/ T[q].chan # ch
<1>1. DOMAIN U = Procs
    BY ZenonT(30) DEF wakeup
<1>2. ASSUME NEW q \in Procs, U[q] = T[q], q = me \/ T[q].state # "SLEEPING" \/ T[q].chan # ch
      PROVE  /\ IsProc(U[q]) /\ U[q].parent = T[q].parent /\ U[q].chan = T[q].chan
             /\ U[q].state = T[q].state
             /\ U[q].state = "SLEEPING" => q = me \/ T[q].chan # ch
    BY ZenonT(30), <1>2
<1>3. ASSUME NEW q \in Procs, T[q].state = "SLEEPING", U[q] = [T[q] EXCEPT !.state = "RUNNABLE"]
      PROVE  /\ IsProc(U[q]) /\ U[q].parent = T[q].parent /\ U[q].chan = T[q].chan
             /\ U[q].state = "RUNNABLE"
  <2>1. T[q] = [state |-> T[q].state, chan |-> T[q].chan, killed |-> T[q].killed,
                parent |-> T[q].parent]
      BY ZenonT(30) DEF IsProc
  <2>2. U[q] = [state |-> "RUNNABLE", chan |-> T[q].chan, killed |-> T[q].killed,
                parent |-> T[q].parent]
      BY ZenonT(30), <1>3, <2>1
  <2>3. ProcShape(U[q]) /\ U[q].state = "RUNNABLE" /\ U[q].chan = T[q].chan
        /\ U[q].killed = T[q].killed /\ U[q].parent = T[q].parent
      BY SMTT(30), <2>2, ProcFields
  <2>4. T[q].killed \in BOOLEAN /\ T[q].parent \in Procs \cup {0} /\ "RUNNABLE" \in States
      BY ZenonT(30) DEF IsProc, States
  <2> QED
      BY ZenonT(30), <2>3, <2>4 DEF IsProc, ProcShape
<1>4. ASSUME NEW q \in Procs
      PROVE  \/ U[q] = T[q] /\ (q = me \/ T[q].state # "SLEEPING" \/ T[q].chan # ch)
             \/ T[q].state = "SLEEPING" /\ U[q] = [T[q] EXCEPT !.state = "RUNNABLE"]
    BY ZenonT(30) DEF wakeup
<1> QED
    BY ZenonT(30), <1>1, <1>2, <1>3, <1>4

-----------------------------------------------------------------------------
\* Nobody gets another parent, is created or dies.
Living == {"RUNNABLE", "SLEEPING"}
SameKin ==
    \A q \in Procs :
        /\ proc'[q].parent = proc[q].parent
        /\ proc'[q].state = proc[q].state \/ (proc[q].state \in Living /\ proc'[q].state \in Living)

LEMMA FamilySame ==
    ASSUME ProcType, FamilyInv, SameKin,
           \A q \in Procs : SleepsOn(q, Chan("child", q))' => SleepsOn(q, Chan("child", q))
    PROVE  FamilyInv'
<1>1. \A q \in Procs : Children(q)' = Children(q) /\ Zombies(q)' = Zombies(q)
    BY ZenonT(30) DEF SameKin, Children, Zombies, Living
<1>2. \A q \in Procs : proc[q].parent \in Procs \cup {0}
    BY ZenonT(30) DEF ProcType, IsProc
<1>3. ASSUME NEW q \in Procs \ {init}, proc'[q].state \notin {"UNUSED", "USED"}
      PROVE  proc'[q].parent # 0 /\ proc'[proc'[q].parent].state \in Living
  <2>1. proc[q].state \notin {"UNUSED", "USED"}
      BY ZenonT(30), <1>3 DEF SameKin, Living
  <2> QED
      BY ZenonT(30), <1>2, <2>1 DEF FamilyInv, SameKin, Living
<1> QED
    BY ZenonT(30), <1>1, <1>3 DEF FamilyInv, Living

\* A step of p that leaves the other slots as they are, up to waking them.
LEMMA StateSame ==
    ASSUME StateInv, SameKin, NEW p \in Procs, NEW o, OpSet(p, o), o.pc # "fork", SlotInv(p)',
           \A q \in Procs \ {p} :
               /\ proc[q].state # "UNUSED" => proc'[q].chan = proc[q].chan
               /\ ofile'[q] = ofile[q]
               /\ proc'[q].state = "SLEEPING" => proc[q].state = "SLEEPING",
           OpType, p = init => InitInv'
    PROVE  StateInv'
<1>1. ASSUME NEW q \in Procs \ {p} PROVE SlotInv(q)'
  <2>1. op'[q] = op[q] /\ SlotInv(q)
      BY ZenonT(30) DEF OpSet, StateInv
  <2>2. op[q].pc = "fork" => op[q].child \in Procs /\ proc'[op[q].child].state = "USED"
      BY ZenonT(30), <2>1 DEF SlotInv, SameKin, Living, OpType, IsOp
  <2> QED
      BY SMTT(30), <2>1, <2>2 DEF SlotInv, SameKin, Living
<1>2. InitInv'
  <2>1. CASE p = init
      BY ZenonT(30), <2>1
  <2>2. CASE p # init
      BY SMTT(30), <2>2, ProcAssumption DEF InitInv, StateInv, SameKin, Living, OpSet, Procs, init
  <2> QED
      BY ZenonT(30), <2>1, <2>2
<1>3. \A q, r \in Procs :
          op'[q].pc = "fork" /\ op'[r].pc = "fork" /\ op'[q].child = op'[r].child => q = r
    BY SMTT(30) DEF StateInv, OpSet
<1> QED
    BY ZenonT(30), <1>1, <1>2, <1>3 DEF StateInv

-----------------------------------------------------------------------------
\* p takes, keeps or releases lock l, which is free or its own.
LEMMA LockMoves ==
    ASSUME LockInv, lock \in [Locks -> Procs \cup {0}], NEW p \in Procs, NEW o, OpSet(p, o),
           NEW l \in Locks, NEW keep \in BOOLEAN, Holds(l, p, keep), Has(l, p),
           \A m \in Locks : Holding(p, m) => m = l,
           \A m \in Locks : Holding(p, m)' <=> keep /\ m = l
    PROVE  LockInv' /\ lock' \in [Locks -> Procs \cup {0}]
<1>1. \A q \in Procs : q # 0
    BY SMTT(30) DEF Procs
<1>2. \A q \in Procs \ {p}, m \in Locks : Holding(q, m)' <=> Holding(q, m)
    BY ZenonT(30) DEF OpSet, Holding, LockOf
<1>3. lock' \in [Locks -> Procs \cup {0}]
    BY ZenonT(30) DEF Holds
<1>4. ASSUME NEW q \in Procs, NEW m \in Locks PROVE lock'[m] = q <=> Holding(q, m)'
    BY SMTT(30), <1>1, <1>2 DEF LockInv, Holds, Has
<1> QED
    BY ZenonT(30), <1>3, <1>4 DEF LockInv

\* p holds afterwards what it held before.
LEMMA LockSame ==
    ASSUME LockInv, UNCHANGED lock, NEW p \in Procs, NEW o, OpSet(p, o),
           \A m \in Locks : Holding(p, m)' <=> Holding(p, m)
    PROVE  LockInv'
<1>1. \A q \in Procs \ {p}, m \in Locks : Holding(q, m)' <=> Holding(q, m)
    BY ZenonT(30) DEF OpSet, Holding, LockOf
<1> QED
    BY SMTT(30), <1>1 DEF LockInv

-----------------------------------------------------------------------------
\* The pipes and the sleepers at them are as before, but for some that were woken.
SamePipes ==
    \A pi \in Pipes :
        /\ pipe'[pi].nread = pipe[pi].nread /\ pipe'[pi].nwrite = pipe[pi].nwrite
        /\ pipe'[pi].readopen = pipe[pi].readopen /\ pipe'[pi].writeopen = pipe[pi].writeopen

LEMMA WakeSame ==
    ASSUME WakeInv, SamePipes, UNCHANGED stranded, NEW p \in Procs, NEW o, OpSet(p, o),
           op[p].pc # "write", o.pc = "tosleep" => o.chan.kind = "child",
           \A q \in Procs, pi \in Pipes :
               /\ SleepsOn(q, Chan("nread", pi))' => SleepsOn(q, Chan("nread", pi))
               /\ SleepsOn(q, Chan("nwrite", pi))' => SleepsOn(q, Chan("nwrite", pi))
    PROVE  WakeInv'
<1> SUFFICES ASSUME NEW q \in Procs, NEW pi \in Pipes
             PROVE  /\ SleepsOn(q, Chan("nread", pi))' =>
                         /\ pipe'[pi].writeopen
                         /\ Empty(pipe'[pi]) \/ pi \in stranded' \/ Unannounced(pi)'
                    /\ op'[q].pc = "tosleep" /\ op'[q].chan = Chan("nread", pi) => Empty(pipe'[pi])
                    /\ SleepsOn(q, Chan("nwrite", pi))' => pipe'[pi].readopen /\ Full(pipe'[pi])
    BY ZenonT(30) DEF WakeInv
<1>1. Unannounced(pi) => Unannounced(pi)'
    BY ZenonT(30) DEF Unannounced, OpSet
<1>2. (Empty(pipe'[pi]) <=> Empty(pipe[pi])) /\ (Full(pipe'[pi]) <=> Full(pipe[pi]))
    BY ZenonT(30) DEF SamePipes, Empty, Full
<1>3. op'[q].pc = "tosleep" /\ op'[q].chan = Chan("nread", pi) => op'[q] = op[q]
    BY SMTT(30) DEF OpSet, Chan
<1> QED
    BY ZenonT(30), <1>1, <1>2, <1>3 DEF WakeInv, SamePipes

\* The table after a step that at most woke or killed processes.
Woken ==
    /\ DOMAIN proc' = Procs
    /\ \A q \in Procs :
          /\ IsProc(proc'[q]) /\ proc'[q].parent = proc[q].parent
          /\ proc[q].state # "UNUSED" => proc'[q].chan = proc[q].chan
          /\ \/ proc'[q].state = proc[q].state
             \/ proc[q].state = "SLEEPING" /\ proc'[q].state = "RUNNABLE"

LEMMA WokenBy ==
    ASSUME ProcType, NEW ch, NEW me, proc' = wakeup(proc, ch, me)
    PROVE  Woken /\ \A q \in Procs : proc'[q].state = "SLEEPING" => q = me \/ proc[q].chan # ch
<1>1. \A q \in Procs : IsProc(proc[q])
    BY ZenonT(30) DEF ProcType
<1>2. PICK T, U : T = proc /\ U = proc'
    BY ZenonT(30)
<1>3. (\A q \in Procs : IsProc(T[q])) /\ U = wakeup(T, ch, me)
    BY ZenonT(30), <1>1, <1>2
<1>4. /\ DOMAIN U = Procs
      /\ \A q \in Procs :
            /\ IsProc(U[q]) /\ U[q].parent = T[q].parent /\ U[q].chan = T[q].chan
            /\ U[q].state = T[q].state \/ (T[q].state = "SLEEPING" /\ U[q].state = "RUNNABLE")
            /\ U[q].state = "SLEEPING" => q = me \/ T[q].chan # ch
    BY SMTT(30), <1>3, WakeFacts
<1> QED
    BY ZenonT(30), <1>2, <1>4 DEF Woken

\* Such a step of a running process, to a place where it is not asleep.
LEMMA SoftStep ==
    ASSUME FilesInv, Woken, NEW p \in Procs, NEW o, OpSet(p, o), IsOp(p, o),
           proc[p].state = "RUNNABLE", o.pc \notin {"asleep", "fork"},
           \A q \in Procs \ {p} : ofile'[q] = ofile[q],
           p = init => o.pc \in {"user", "wait", "tosleep"},
           p = init /\ o.pc = "tosleep" => o.then = Waiting,
           o.pc = "tosleep" /\ o.chan = Chan("child", p) => Children(p) # {} /\ Zombies(p) = {}
    PROVE  ProcType' /\ OpType' /\ StateInv' /\ FamilyInv'
<1> USE DEF FilesInv, Types
<1>1. ProcType' /\ OpType'
    BY ZenonT(30), OpKept DEF ProcType, Woken
<1>2. SameKin
    BY ZenonT(30) DEF SameKin, Woken, Living
<1>3. proc'[p].state = "RUNNABLE"
    BY ZenonT(30) DEF Woken
<1>4. SlotInv(p)'
    BY ZenonT(30), <1>3 DEF SlotInv, OpSet
<1>5. p = init => InitInv'
    BY ZenonT(30), <1>3 DEF InitInv, OpSet
<1>6. StateInv'
    BY ZenonT(30), <1>2, <1>4, <1>5, StateSame DEF Woken
<1>7. \A q \in Procs : Children(q)' = Children(q) /\ Zombies(q)' = Zombies(q)
    BY ZenonT(30), <1>2 DEF SameKin, Children, Zombies, Living
<1>8. \A q \in Procs : SleepsOn(q, Chan("child", q))' =>
          SleepsOn(q, Chan("child", q)) \/ (q = p /\ o.pc = "tosleep" /\ o.chan = Chan("child", p))
    BY ZenonT(30), <1>3 DEF SleepsOn, Woken, OpSet
<1>9. \A q \in Procs : proc[q].parent \in Procs \cup {0}
    BY ZenonT(30) DEF ProcType, IsProc
<1>10. ASSUME NEW q \in Procs \ {init}, proc'[q].state \notin {"UNUSED", "USED"}
       PROVE  proc'[q].parent # 0 /\ proc'[proc'[q].parent].state \in {"RUNNABLE", "SLEEPING"}
    BY ZenonT(30), <1>2, <1>9, <1>10 DEF FamilyInv, SameKin, Living
<1>11. FamilyInv'
    BY ZenonT(30), <1>7, <1>8, <1>10 DEF FamilyInv
<1> QED
    BY ZenonT(30), <1>1, <1>6, <1>11

-----------------------------------------------------------------------------
FilePcs == {"pipealloc", "pipebad", "pipebad1", "pipeclose"}

\* The process half moves without the files: nobody starts or ends what InFlight,
\* pipealloc() and pipeclose() are about, and no end of a pipe opens or closes.
LEMMA FilesQuiet ==
    ASSUME FilesInv, NEW p \in Procs, NEW o, OpSet(p, o),
           op[p].pc \notin FilePcs, o.pc \notin FilePcs, UNCHANGED <<ofile, file>>,
           \A pi \in Pipes : /\ pipe'[pi].readopen = pipe[pi].readopen
                             /\ pipe'[pi].writeopen = pipe[pi].writeopen,
           UserOf(p)'
    PROVE  RefsExact' /\ FileInv' /\ EndsInv' /\ UserInv'
<1> USE DEF FilesInv
<1>1. \A q \in Procs : InFlight(q)' = InFlight(q)
    BY ZenonT(30) DEF InFlight, OpSet, FilePcs
<1>2. RefsExact'
  <2>1. ASSUME NEW f \in FileIds PROVE {q \in Procs : f \in InFlight(q)'} = {q \in Procs : f \in InFlight(q)}
      BY ZenonT(30), <1>1
  <2> QED
      BY <2>1, Zenon DEF RefsExact
<1>3. FileInv'
    BY ZenonT(30) DEF FileInv, OpSet, FilePcs
<1>4. ASSUME NEW pi \in Pipes, NEW w \in BOOLEAN PROVE EndInv(pi, w)'
  <2>1. \A q \in Procs : Closing(q, pi, w)' <=> Closing(q, pi, w)
      BY ZenonT(30) DEF Closing, OpSet, FilePcs
  <2>2. \A f \in FileIds : Stands(f, pi, w)' <=> Stands(f, pi, w)
      BY ZenonT(30) DEF Stands
  <2>3. Open(pi, w)' = Open(pi, w)
      BY ZenonT(30) DEF Open
  <2> QED
      BY ZenonT(30), <2>1, <2>2, <2>3 DEF EndsInv, EndInv
<1>5. \A q \in Procs \ {p} : UserOf(q)'
    BY SMTT(30) DEF UserInv, UserOf, Doing, Keeps, OpSet
<1> QED
    BY ZenonT(30), <1>2, <1>3, <1>4, <1>5 DEF EndsInv, UserInv

-----------------------------------------------------------------------------
\* sleep() puts the caller to sleep and releases lk.
LEMMA SleepInv == ASSUME FilesInv, NEW p \in Procs, Sleep(p), UNCHANGED fvars PROVE FilesInv'
<1> DEFINE o == [pc |-> "asleep", chan |-> op[p].chan, then |-> op[p].then]
           l == LockOf(op[p].chan)
<1> USE DEF FilesInv, Types
<1>1. proc[p].state = "RUNNABLE" /\ op[p].pc = "tosleep" /\ IsProc(proc[p]) /\ IsOp(p, op[p])
    BY ZenonT(30) DEF Sleep, At, ProcType, OpType
<1>2. op[p] = [pc |-> op[p].pc, chan |-> op[p].chan, then |-> op[p].then]
      /\ SleepType(p, op[p].chan, op[p].then)
    BY ZenonT(30), <1>1 DEF IsOp
<1>3. OpSet(p, o)
  <2>1. [op[p] EXCEPT !.pc = "asleep"] = o
      BY SMTT(30), <1>2
  <2> QED
      BY ZenonT(30), <2>1 DEF Sleep, OpSet, OpType
<1>4. /\ DOMAIN proc' = Procs /\ \A q \in Procs \ {p} : proc'[q] = proc[q]
      /\ proc'[p] = [state |-> "SLEEPING", chan |-> op[p].chan, killed |-> proc[p].killed,
                     parent |-> proc[p].parent]
  <2>1. proc[p] = [state |-> proc[p].state, chan |-> proc[p].chan, killed |-> proc[p].killed,
                   parent |-> proc[p].parent]
      BY ZenonT(30), <1>1 DEF IsProc
  <2>2. PICK r : r = [proc[p] EXCEPT !.chan = op[p].chan]
      BY ZenonT(30)
  <2>3. /\ ProcShape(r) /\ r.chan = op[p].chan /\ r.killed = proc[p].killed
        /\ r.parent = proc[p].parent
      BY ZenonT(30), <2>1, <2>2, ProcSet, ProcFields DEF ProcShape
  <2>4. [r EXCEPT !.state = "SLEEPING"] =
            [state |-> "SLEEPING", chan |-> r.chan, killed |-> r.killed, parent |-> r.parent]
      BY ZenonT(30), <2>3, ProcSet
  <2>5. proc' = [proc EXCEPT ![p] = [r EXCEPT !.state = "SLEEPING"]]
      BY ZenonT(30), <2>2 DEF Sleep, ProcType
  <2> QED
      BY ZenonT(30), <2>3, <2>4, <2>5 DEF ProcType
<1> HIDE DEF o
<1>o. /\ o.pc = "asleep" /\ o.chan = op[p].chan /\ o.then = op[p].then
      /\ o = [pc |-> o.pc, chan |-> o.chan, then |-> o.then]
    BY ZenonT(30) DEF o
<1>5. IsProc(proc'[p])
    BY SMTT(30), <1>1, <1>4 DEF IsProc, States
<1>6. ProcType' /\ OpType'
  <2>1. IsOp(p, o)
      BY ZenonT(30), <1>o, <1>2 DEF IsOp, Pcs
  <2> QED
      BY ZenonT(30), <1>3, <1>4, <1>5, <2>1, OpKept DEF ProcType
<1>7. LockInv' /\ lock' \in [Locks -> Procs \cup {0}]
  <2>1. l \in Locks
      BY SMTT(30), <1>2, ProcAssumption DEF SleepType, LockOf, Chan, Locks, Pipes
  <2>2. \A m \in Locks : Holding(p, m) <=> m = l
      BY ZenonT(30), <1>1 DEF Holding
  <2>3. \A m \in Locks : ~Holding(p, m)'
      BY ZenonT(30), <1>3, <1>o DEF Holding, OpSet
  <2>4. Has(l, p)
      BY ZenonT(30), <2>1, <2>2 DEF LockInv, Has
  <2>5. Holds(l, p, FALSE)
      BY ZenonT(30) DEF Sleep
  <2> HIDE DEF l
  <2> QED
      BY ZenonT(30), <1>3, <2>1, <2>2, <2>3, <2>4, <2>5, LockMoves DEF TableType
<1>8. SameKin
    BY SMTT(30), <1>1, <1>4 DEF SameKin, Living
<1>9. SlotInv(p)' /\ (p = init => InitInv')
  <2>1. op'[p] = o /\ proc'[p].state = "SLEEPING" /\ proc'[p].chan = op[p].chan
      BY SMTT(30), <1>3, <1>4 DEF OpSet
  <2>2. p = init => op[p].then = Waiting
      BY ZenonT(30), <1>1 DEF StateInv, InitInv
  <2> QED
      BY ZenonT(30), <1>o, <2>1, <2>2 DEF SlotInv, InitInv
<1>10. StateInv'
    BY ZenonT(30), <1>3, <1>4, <1>8, <1>9, <1>o, StateSame DEF fvars
<1>11. ASSUME NEW q \in Procs, NEW ch, SleepsOn(q, ch)' PROVE SleepsOn(q, ch)
    BY SMTT(30), <1>1, <1>3, <1>4, <1>o, <1>11 DEF SleepsOn, OpSet
<1>12. FamilyInv'
    BY ZenonT(30), <1>8, <1>11, FamilySame
<1>13. WakeInv'
    BY ZenonT(30), <1>1, <1>3, <1>11, <1>o, WakeSame DEF SamePipes, fvars
<1>14. UserOf(p)'
  <2>1. UserOf(p)
      BY ZenonT(30) DEF UserInv
  <2> QED
      BY ZenonT(30), <1>1, <1>3, <1>o, <2>1 DEF UserOf, Doing, Keeps, OpSet, fvars
<1>15. RefsExact' /\ FileInv' /\ EndsInv' /\ UserInv'
    BY ZenonT(30), <1>1, <1>3, <1>14, <1>o, FilesQuiet DEF FilePcs, fvars
<1> QED
    BY ZenonT(30), <1>6, <1>7, <1>10, <1>12, <1>13, <1>15 DEF PipeType, TableType, fvars

\* A process woken takes lk again and goes on where it called sleep().
LEMMA AwakeInv == ASSUME FilesInv, NEW p \in Procs, Awake(p), UNCHANGED fvars PROVE FilesInv'
<1>0. PICK o, l : o = op[p].then /\ l = LockOf(op[p].chan)
    BY ZenonT(30)
<1> USE DEF FilesInv, Types
<1>1. proc[p].state = "RUNNABLE" /\ op[p].pc = "asleep" /\ IsProc(proc[p])
      /\ SleepType(p, op[p].chan, o)
    BY ZenonT(30), <1>0 DEF Awake, At, ProcType, OpType, IsOp
<1>2. OpSet(p, o)
    BY ZenonT(30), <1>0, OpMoves DEF Awake
<1>3. /\ DOMAIN proc' = Procs /\ \A q \in Procs \ {p} : proc'[q] = proc[q]
      /\ proc'[p] = [state |-> proc[p].state, chan |-> NoChan, killed |-> proc[p].killed,
                     parent |-> proc[p].parent]
  <2>1. proc[p] = [state |-> proc[p].state, chan |-> proc[p].chan, killed |-> proc[p].killed,
                   parent |-> proc[p].parent]
      BY ZenonT(30), <1>1 DEF IsProc
  <2>2. [proc[p] EXCEPT !.chan = NoChan] =
            [state |-> proc[p].state, chan |-> NoChan, killed |-> proc[p].killed,
             parent |-> proc[p].parent]
      BY ZenonT(30), <2>1, ProcSet DEF ProcShape
  <2> QED
      BY ZenonT(30), <2>2 DEF Awake, ProcType
<1>4. o.pc \in {"wait", "read", "write"} /\ l \in Locks
      /\ (o.pc = "wait" => l = 0) /\ (o.pc # "wait" => l = o.pipe) /\ IsOp(p, o)
  <2>1. CASE op[p].chan = Chan("child", p) /\ o = Waiting
    <3>1. l = 0 /\ o.pc = "wait"
        BY ZenonT(30), <1>0, <2>1, Channels
    <3> QED
        BY ZenonT(30), <3>1, Numbers DEF IsOp, Pcs
  <2>2. CASE o.pc = "read" /\ o.pipe \in Pipes /\ o.n \in Nat /\ op[p].chan = Chan("nread", o.pipe)
    <3>1. l = o.pipe
        BY ZenonT(30), <1>0, <2>2, Channels
    <3> QED
        BY ZenonT(30), <2>2, <3>1, Numbers DEF IsOp, Pcs
  <2>3. CASE o.pc = "write" /\ o.pipe \in Pipes /\ op[p].chan = Chan("nwrite", o.pipe)
    <3>1. l = o.pipe
        BY ZenonT(30), <1>0, <2>3, Channels
    <3> QED
        BY ZenonT(30), <2>3, <3>1, Numbers DEF IsOp, Pcs
  <2> QED
      BY ZenonT(30), <1>1, <2>1, <2>2, <2>3 DEF SleepType
<1>5. p = init => o = Waiting
    BY ZenonT(30), <1>0, <1>1 DEF StateInv, InitInv
<1>6. UserOf(p)'
  <2>1. UserOf(p)
      BY ZenonT(30) DEF UserInv
  <2> QED
      BY ZenonT(30), <1>0, <1>1, <1>2, <1>4, <2>1 DEF UserOf, Doing, Keeps, OpSet, fvars
<1>7. lock[l] = 0 /\ Holds(l, p, TRUE)
    BY ZenonT(30), <1>0 DEF Awake
<1>8. \A m \in Locks : ~Holding(p, m)
    BY ZenonT(30), <1>1 DEF Holding
<1>9. ProcType' /\ OpType'
  <2>1. IsProc(proc'[p])
      BY SMTT(30), <1>1, <1>3 DEF IsProc
  <2> QED
      BY ZenonT(30), <1>2, <1>3, <1>4, <2>1, OpKept DEF ProcType
<1>10. LockInv' /\ lock' \in [Locks -> Procs \cup {0}]
  <2>1. \A m \in Locks : Holding(p, m)' <=> TRUE /\ m = l
      BY ZenonT(30), <1>2, <1>4 DEF Holding, OpSet
  <2>2. Has(l, p)
      BY ZenonT(30), <1>7 DEF Has
  <2> QED
      BY ZenonT(30), <1>2, <1>4, <1>7, <1>8, <2>1, <2>2, LockMoves DEF TableType
<1>11. SameKin
    BY SMTT(30), <1>1, <1>3 DEF SameKin, Living
<1>12. SlotInv(p)' /\ (p = init => InitInv')
  <2>1. op'[p] = o /\ o.pc \notin {"asleep", "fork", "tosleep"} /\ proc'[p].state = "RUNNABLE"
    <3>1. op'[p] = o /\ o.pc \notin {"asleep", "fork", "tosleep"}
        BY ZenonT(30), <1>2, <1>4 DEF OpSet
    <3>2. PICK r : r = proc'[p]
        BY ZenonT(30)
    <3>3. r.state = proc[p].state
        BY SMTT(30), <1>3, <3>2, ProcFields
    <3> QED
        BY ZenonT(30), <1>1, <3>1, <3>2, <3>3
  <2>2. p = init => op'[init].pc = "wait" /\ proc'[init].state = "RUNNABLE"
      BY ZenonT(30), <1>5, <2>1, Channels
  <2>3. SlotInv(p)'
      BY ZenonT(30), <2>1 DEF SlotInv
  <2>4. p = init => InitInv'
      BY ZenonT(30), <2>2 DEF InitInv
  <2> QED
      BY ZenonT(30), <2>3, <2>4
<1>13. StateInv'
    BY ZenonT(30), <1>2, <1>3, <1>4, <1>11, <1>12, StateSame DEF fvars
<1>14. ASSUME NEW q \in Procs, NEW ch, SleepsOn(q, ch)' PROVE SleepsOn(q, ch)
  <2>1. op'[p].pc # "tosleep" /\ proc'[p].state # "SLEEPING"
      BY SMTT(30), <1>1, <1>2, <1>3, <1>4 DEF OpSet
  <2> QED
      BY ZenonT(30), <1>2, <1>3, <1>14, <2>1 DEF SleepsOn, OpSet
<1>15. FamilyInv'
    BY ZenonT(30), <1>11, <1>14, FamilySame
<1>16. WakeInv'
    BY ZenonT(30), <1>1, <1>2, <1>4, <1>14, WakeSame DEF SamePipes, fvars
<1>17. RefsExact' /\ FileInv' /\ EndsInv' /\ UserInv'
    BY ZenonT(30), <1>1, <1>2, <1>4, <1>6, FilesQuiet DEF FilePcs, fvars
<1> QED
    BY ZenonT(30), <1>9, <1>10, <1>13, <1>15, <1>16, <1>17 DEF PipeType, TableType, fvars

\* wait(): sleep with wait_lock held, or return with it released.
LEMMA WaitSame ==
    ASSUME FilesInv, NEW p \in Procs, Calls(p) \/ At(p, "wait"), WaitScan(p), UNCHANGED <<proc, fvars>>
    PROVE  FilesInv'
<1> DEFINE sleeps == Zombies(p) = {} /\ Children(p) # {} /\ ~proc[p].killed
<1> USE DEF FilesInv, Types
<1>1. proc[p].state = "RUNNABLE" /\ op[p].pc \in {"user", "wait"}
    BY ZenonT(30) DEF Calls, At
<1>0. PICK o : o = IF sleeps THEN ToSleep(Chan("child", p), Waiting) ELSE User
    BY ZenonT(30)
<1>2. OpSet(p, o) /\ Has(0, p) /\ 0 \in Locks
  <2>1. op' = [op EXCEPT ![p] = o] /\ Has(0, p)
      BY ZenonT(30), <1>0 DEF WaitScan, Waiting
  <2> QED
      BY ZenonT(30), <2>1, Numbers, OpMoves
<1>3. \/ o.pc = "user" /\ Holds(0, p, FALSE)
      \/ /\ o.pc = "tosleep" /\ o.chan = Chan("child", p) /\ o.then = Waiting /\ Holds(0, p, TRUE)
         /\ o = [pc |-> o.pc, chan |-> o.chan, then |-> o.then]
         /\ Children(p) # {} /\ Zombies(p) = {}
    BY ZenonT(30), <1>0 DEF WaitScan, ToSleep, User, Holds
<1> HIDE DEF sleeps
<1>11. /\ op'[p] = o /\ o.pc \in {"user", "tosleep"}
       /\ o.pc = "tosleep" => o.chan.kind = "child" /\ o.then.pc = "wait"
  <2>1. /\ op'[p] = o /\ o.pc \in {"user", "tosleep"}
        /\ o.pc = "tosleep" => o.chan = Chan("child", p) /\ o.then = Waiting
      BY ZenonT(30), <1>2, <1>3 DEF OpSet
  <2>2. Chan("child", p).kind = "child" /\ Waiting.pc = "wait"
      BY ZenonT(30) DEF Chan, Waiting
  <2> QED
      BY ZenonT(30), <2>1, <2>2
<1>4. LockInv' /\ lock' \in [Locks -> Procs \cup {0}]
  <2>1. \A m \in Locks : Holding(p, m) => m = 0
      BY ZenonT(30), <1>1 DEF Holding
  <2>2. \A m \in Locks : Holding(p, m)' <=> o.pc = "tosleep" /\ m = 0
      BY ZenonT(30), <1>11 DEF Holding, LockOf
  <2> QED
      BY ZenonT(30), <1>2, <1>3, <2>1, <2>2, LockMoves DEF TableType
<1>5. IsOp(p, o) /\ Woken
    BY ZenonT(30), <1>3 DEF IsOp, Pcs, SleepType, Woken, ProcType
<1>6. ProcType' /\ OpType' /\ StateInv' /\ FamilyInv'
    BY ZenonT(30), <1>1, <1>2, <1>3, <1>5, SoftStep DEF fvars
<1>7. ASSUME NEW q \in Procs, NEW pi \in Pipes, NEW k \in {"nread", "nwrite"}
      PROVE  SleepsOn(q, Chan(k, pi))' => SleepsOn(q, Chan(k, pi))
  <2>1. op'[q].pc = "tosleep" /\ op'[q].chan.kind = k => op'[q] = op[q]
      BY ZenonT(30), <1>2, <1>11 DEF OpSet
  <2>2. Chan(k, pi).kind = k
      BY ZenonT(30) DEF Chan
  <2> QED
      BY ZenonT(30), <2>1, <2>2 DEF SleepsOn
<1>8. WakeInv'
  <2> QED
      BY ZenonT(30), <1>1, <1>2, <1>7, <1>11, WakeSame DEF SamePipes, fvars
<1>9. UserOf(p)'
    BY ZenonT(30), <1>11 DEF UserOf, Doing
<1>10. RefsExact' /\ FileInv' /\ EndsInv' /\ UserInv'
    BY ZenonT(30), <1>1, <1>2, <1>3, <1>9, FilesQuiet DEF FilePcs, fvars
<1> QED
    BY ZenonT(30), <1>4, <1>6, <1>8, <1>10 DEF PipeType, TableType, fvars

\* wait() frees the slot of a zombie.
LEMMA WaitReap ==
    ASSUME FilesInv, NEW p \in Procs, Calls(p) \/ At(p, "wait"), WaitScan(p), UNCHANGED fvars,
           Zombies(p) # {}, proc' = [proc EXCEPT ![First(Zombies(p))] = FreeSlot]
    PROVE  FilesInv'
<1> DEFINE z == First(Zombies(p))
<1> USE DEF FilesInv, Types
<1>1. proc[p].state = "RUNNABLE" /\ op[p].pc \in {"user", "wait"}
    BY ZenonT(30) DEF Calls, At
<1>2. z \in Zombies(p)
  <2>1. Zombies(p) \in SUBSET Nat
      BY SMTT(30) DEF Zombies, Children, Procs
  <2> QED
      BY ZenonT(30), <2>1, LeastExists
<1> HIDE DEF z
<1>3. z \in Procs /\ proc[z].state = "ZOMBIE" /\ proc[z].parent = p /\ z # p
    BY ZenonT(30), <1>1, <1>2 DEF Zombies, Children
<1>4. /\ DOMAIN proc' = Procs /\ \A q \in Procs \ {z} : proc'[q] = proc[q]
      /\ proc'[z].state = "UNUSED" /\ proc'[z].parent = 0 /\ IsProc(proc'[z])
  <2>1. proc' = [proc EXCEPT ![z] = FreeSlot]
      BY ZenonT(30) DEF z
  <2>2. IsProc(FreeSlot) /\ FreeSlot.state = "UNUSED" /\ FreeSlot.parent = 0
      BY ZenonT(30) DEF FreeSlot, IsProc, States
  <2> QED
      BY ZenonT(30), <1>3, <2>1, <2>2 DEF ProcType
<1>5. OpSet(p, User) /\ Has(0, p) /\ Holds(0, p, FALSE) /\ 0 \in Locks /\ User.pc = "user"
  <2>1. op' = [op EXCEPT ![p] = User] /\ Has(0, p) /\ lock' = [lock EXCEPT ![0] = 0]
      BY ZenonT(30) DEF WaitScan, Holds
  <2>2. 0 \in Locks /\ User.pc = "user"
      BY SMTT(30), ProcAssumption DEF Locks, User
  <2> QED
      BY ZenonT(30), <2>1, <2>2, OpMoves DEF Holds
<1>6. ProcType' /\ OpType'
  <2>1. IsOp(p, User)
      BY ZenonT(30), <1>5 DEF IsOp, Pcs
  <2> QED
      BY ZenonT(30), <1>4, <1>5, <2>1, OpKept DEF ProcType
<1>7. LockInv' /\ lock' \in [Locks -> Procs \cup {0}]
  <2>1. \A m \in Locks : Holding(p, m) => m = 0
      BY ZenonT(30), <1>1 DEF Holding
  <2>2. \A m \in Locks : Holding(p, m)' <=> FALSE /\ m = 0
      BY ZenonT(30), <1>5 DEF Holding, OpSet
  <2> QED
      BY ZenonT(30), <1>5, <2>1, <2>2, LockMoves DEF TableType
<1>8. StateInv'
  <2>1. ASSUME NEW q \in Procs PROVE SlotInv(q)'
    <3>1. SlotInv(q) /\ SlotInv(z) /\ (op[q].pc = "fork" => op[q].child \in Procs)
        BY ZenonT(30), <1>3 DEF StateInv, OpType, IsOp
    <3>2. op[q].pc = "fork" => op[q].child # z
        BY ZenonT(30), <1>3, <3>1 DEF SlotInv
    <3> QED
      <4>1. CASE q = z
          BY ZenonT(30), <1>3, <1>4, <1>5, <3>1, <4>1 DEF SlotInv, OpSet, fvars
      <4>2. CASE q = p /\ q # z
          BY ZenonT(30), <1>1, <1>3, <1>4, <1>5, <3>1, <4>2 DEF SlotInv, OpSet, fvars
      <4>3. CASE q # p /\ q # z
          BY ZenonT(90), <1>4, <1>5, <3>1, <3>2, <4>3 DEF SlotInv, OpSet, fvars
      <4> QED
          BY ZenonT(30), <4>1, <4>2, <4>3
  <2>2. InitInv'
    <3>1. init # z /\ init \in Procs
        BY SMTT(30), <1>3, ProcAssumption DEF StateInv, InitInv, Procs, init
    <3> QED
        BY ZenonT(30), <1>4, <1>5, <3>1 DEF StateInv, InitInv, OpSet
  <2>3. \A q, r \in Procs :
            op'[q].pc = "fork" /\ op'[r].pc = "fork" /\ op'[q].child = op'[r].child => q = r
      BY ZenonT(30), <1>5 DEF StateInv, OpSet
  <2> QED
      BY ZenonT(30), <2>1, <2>2, <2>3 DEF StateInv
<1>9. ASSUME NEW q \in Procs, NEW ch, SleepsOn(q, ch)' PROVE SleepsOn(q, ch) /\ q # p
    BY ZenonT(30), <1>1, <1>3, <1>4, <1>5, <1>9 DEF SleepsOn, OpSet
<1>10. FamilyInv'
  <2>1. ASSUME NEW q \in Procs \ {p}
        PROVE  (Children(q) # {} /\ Zombies(q) = {}) => (Children(q)' # {} /\ Zombies(q)' = {})
      BY SMTT(30), <1>3, <1>4, ProcAssumption DEF Children, Zombies, Procs
  <2>2. ASSUME NEW q \in Procs \ {init}, proc'[q].state \notin {"UNUSED", "USED"}
        PROVE  proc'[q].parent # 0 /\ proc'[proc'[q].parent].state \in {"RUNNABLE", "SLEEPING"}
    <3>1. q # z /\ proc[q].parent \in Procs \cup {0}
        BY ZenonT(30), <1>4, <2>2 DEF ProcType, IsProc
    <3> QED
        BY ZenonT(30), <1>3, <1>4, <2>2, <3>1 DEF FamilyInv
  <2> QED
      BY ZenonT(30), <1>9, <2>1, <2>2 DEF FamilyInv
<1>11. WakeInv'
    BY ZenonT(30), <1>1, <1>5, <1>9, WakeSame DEF SamePipes, fvars
<1>12. UserOf(p)'
    BY ZenonT(30), <1>5 DEF UserOf, Doing, OpSet
<1>13. RefsExact' /\ FileInv' /\ EndsInv' /\ UserInv'
    BY ZenonT(30), <1>1, <1>5, <1>12, FilesQuiet DEF FilePcs, fvars
<1> QED
    BY ZenonT(30), <1>6, <1>7, <1>8, <1>10, <1>11, <1>13 DEF PipeType, TableType, fvars

\* kill() marks a process, and wakes it if it sleeps.
LEMMA KillInv ==
    ASSUME FilesInv, NEW p \in Procs, NEW s \in Procs, Kill(p, s), UNCHANGED fvars
    PROVE  FilesInv'
<1> USE DEF FilesInv, Types
<1>1. proc[p].state = "RUNNABLE" /\ op[p].pc = "user" /\ OpSet(p, op[p]) /\ IsOp(p, op[p])
    BY ZenonT(30) DEF Kill, Calls, OpSet, OpType
<1>2. PICK st \in States : st = IF proc[s].state = "SLEEPING" THEN "RUNNABLE" ELSE proc[s].state
    BY ZenonT(30) DEF ProcType, IsProc, States
<1>3. /\ DOMAIN proc' = Procs /\ \A q \in Procs \ {s} : proc'[q] = proc[q]
      /\ proc'[s] = [state |-> st, chan |-> proc[s].chan, killed |-> TRUE, parent |-> proc[s].parent]
  <2>1. proc[s] = [state |-> proc[s].state, chan |-> proc[s].chan, killed |-> proc[s].killed,
                   parent |-> proc[s].parent]
      BY ZenonT(30) DEF ProcType, IsProc
  <2>2. PICK r : r = [proc[s] EXCEPT !.killed = TRUE]
      BY ZenonT(30)
  <2>3. /\ ProcShape(r) /\ r.state = proc[s].state /\ r.chan = proc[s].chan /\ r.killed = TRUE
        /\ r.parent = proc[s].parent
      BY ZenonT(30), <2>1, <2>2, ProcSet, ProcFields DEF ProcShape
  <2>4. [r EXCEPT !.state = st] =
            [state |-> st, chan |-> r.chan, killed |-> r.killed, parent |-> r.parent]
      BY ZenonT(30), <2>3, ProcSet
  <2>5. proc' = [proc EXCEPT ![s] = [r EXCEPT !.state = st]]
      BY ZenonT(30), <1>2, <2>2, <2>3 DEF Kill, ProcType
  <2> QED
      BY ZenonT(30), <2>3, <2>4, <2>5 DEF ProcType
<1>4. Woken
  <2>1. IsProc(proc[s]) /\ \A q \in Procs : IsProc(proc[q])
      BY ZenonT(30) DEF ProcType
  <2>3. /\ ProcShape(proc'[s]) /\ proc'[s].state = st /\ proc'[s].chan = proc[s].chan
        /\ proc'[s].killed = TRUE /\ proc'[s].parent = proc[s].parent
      BY SMTT(30), <1>3, ProcFields
  <2>2. IsProc(proc'[s])
    <3>2. proc[s].parent \in Procs \cup {0}
        BY ZenonT(30), <2>1 DEF IsProc
    <3> QED
        BY ZenonT(30), <1>2, <2>3, <3>2 DEF IsProc, ProcShape
  <2> QED
      BY ZenonT(30), <1>2, <1>3, <2>1, <2>2, <2>3 DEF Woken
<1>5. ProcType' /\ OpType' /\ StateInv' /\ FamilyInv'
    BY ZenonT(30), <1>1, <1>4, SoftStep DEF fvars
<1>6. ASSUME NEW q \in Procs, NEW ch, SleepsOn(q, ch)' PROVE SleepsOn(q, ch)
    BY ZenonT(30), <1>4, <1>6 DEF SleepsOn, Woken, Kill
<1>7. WakeInv'
    BY ZenonT(30), <1>1, <1>6, WakeSame DEF SamePipes, fvars
<1>8. UserOf(p)'
    BY ZenonT(30), <1>1 DEF UserOf, Doing, OpSet
<1>9. RefsExact' /\ FileInv' /\ EndsInv' /\ UserInv'
    BY ZenonT(30), <1>1, <1>8, FilesQuiet DEF FilePcs, fvars
<1>10. LockInv'
    BY ZenonT(30), LockSame, <1>1 DEF Kill, Holding
<1> QED
    BY ZenonT(30), <1>5, <1>7, <1>9, <1>10 DEF PipeType, TableType, fvars, Kill

-----------------------------------------------------------------------------
\* The last part of fork(): the child gets its parent and becomes RUNNABLE.
LEMMA ForkRunInv == ASSUME FilesInv, NEW p \in Procs, ForkRun(p) PROVE FilesInv'
<1>0. PICK c : c = op[p].child
    BY ZenonT(30)
<1> USE DEF FilesInv, Types
<1>1. /\ proc[p].state = "RUNNABLE" /\ op[p].pc = "fork" /\ c \in Procs /\ proc[c].state = "USED"
      /\ c # p /\ proc[c].parent = 0 /\ op[c].pc = "user" /\ IsProc(proc[c])
  <2>1. proc[p].state = "RUNNABLE" /\ op[p].pc = "fork" /\ c \in Procs /\ proc[c].state = "USED"
      BY ZenonT(30), <1>0 DEF ForkRun, At, OpType, IsOp, StateInv, SlotInv
  <2>2. proc[c].parent = 0 /\ op[c].pc = "user" /\ IsProc(proc[c])
      BY ZenonT(30), <2>1 DEF StateInv, SlotInv, ProcType
  <2> QED
      BY ZenonT(30), <2>1, <2>2
<1>2. OpSet(p, User) /\ User.pc = "user" /\ UNCHANGED <<lock, fvars>>
    BY ZenonT(30), OpMoves DEF ForkRun, Then, User
<1>3. \A q \in Procs \ {p} : op[q].pc = "fork" => op[q].child # c
    BY ZenonT(30), <1>0, <1>1 DEF StateInv
<1>4. proc' = [proc EXCEPT ![c].parent = p, ![c].state = "RUNNABLE"]
    BY ZenonT(30), <1>0 DEF ForkRun
<1>5. /\ DOMAIN proc' = Procs /\ \A q \in Procs \ {c} : proc'[q] = proc[q]
      /\ proc'[c] = [state |-> "RUNNABLE", chan |-> proc[c].chan, killed |-> proc[c].killed,
                     parent |-> p]
  <2>1. proc[c] = [state |-> proc[c].state, chan |-> proc[c].chan, killed |-> proc[c].killed,
                   parent |-> proc[c].parent]
      BY ZenonT(30), <1>1 DEF IsProc
  <2>2. PICK r : r = [proc[c] EXCEPT !.parent = p]
      BY ZenonT(30)
  <2>3. /\ ProcShape(r) /\ r.chan = proc[c].chan /\ r.killed = proc[c].killed /\ r.parent = p
      BY ZenonT(30), <2>1, <2>2, ProcSet, ProcFields DEF ProcShape
  <2>4. [r EXCEPT !.state = "RUNNABLE"] =
            [state |-> "RUNNABLE", chan |-> r.chan, killed |-> r.killed, parent |-> r.parent]
      BY ZenonT(30), <2>3, ProcSet
  <2>5. proc' = [proc EXCEPT ![c] = [r EXCEPT !.state = "RUNNABLE"]]
      BY ZenonT(30), <1>1, <1>4, <2>2 DEF ProcType
  <2> QED
      BY ZenonT(30), <1>1, <2>3, <2>4, <2>5 DEF ProcType
<1>6. ProcType' /\ OpType'
  <2>1. IsProc(proc'[c])
      BY SMTT(30), <1>1, <1>5 DEF IsProc, States
  <2>2. IsOp(p, User)
      BY ZenonT(30), <1>2 DEF IsOp, Pcs
  <2> QED
      BY ZenonT(30), <1>2, <1>5, <2>1, <2>2, OpKept DEF ProcType
<1>7. LockInv'
    BY ZenonT(30), <1>1, <1>2, LockSame DEF Holding, OpSet
<1>8. StateInv'
  <2>1. ASSUME NEW q \in Procs PROVE SlotInv(q)'
    <3>1. SlotInv(q) /\ (op[q].pc = "fork" => op[q].child \in Procs)
        BY ZenonT(30) DEF StateInv, OpType, IsOp
    <3> QED
      <4>1. CASE q = p
          BY ZenonT(30), <1>1, <1>2, <1>5, <3>1, <4>1 DEF SlotInv, OpSet, fvars
      <4>2. CASE q = c
        <5>1. op'[q].pc = "user" /\ proc'[q].state = "RUNNABLE"
            BY SMTT(30), <1>1, <1>2, <1>5, <4>2, ProcFields DEF OpSet
        <5> QED
            BY ZenonT(30), <5>1 DEF SlotInv
      <4>3. CASE q # p /\ q # c
        <5>1. proc'[q] = proc[q] /\ op'[q] = op[q] /\ ofile' = ofile
            BY ZenonT(30), <1>2, <1>5, <4>3 DEF OpSet, fvars
        <5>2. op[q].pc = "fork" => proc'[op[q].child] = proc[op[q].child]
            BY ZenonT(30), <1>3, <1>5, <3>1, <4>3
        <5> QED
            BY ZenonT(30), <3>1, <5>1, <5>2 DEF SlotInv
      <4> QED
          BY ZenonT(30), <4>1, <4>2, <4>3
  <2>2. InitInv'
    <3>1. init # c /\ init # p /\ init \in Procs
        BY SMTT(30), <1>1, ProcAssumption DEF StateInv, InitInv, Procs, init
    <3> QED
        BY ZenonT(30), <1>2, <1>5, <3>1 DEF StateInv, InitInv, OpSet
  <2>3. \A q, r \in Procs :
            op'[q].pc = "fork" /\ op'[r].pc = "fork" /\ op'[q].child = op'[r].child => q = r
      BY ZenonT(30), <1>2 DEF StateInv, OpSet
  <2> QED
      BY ZenonT(30), <2>1, <2>2, <2>3 DEF StateInv
<1>9. ASSUME NEW q \in Procs, NEW ch, SleepsOn(q, ch)' PROVE SleepsOn(q, ch) /\ q # p
  <2>1. op'[p].pc = "user" /\ proc'[p].state = "RUNNABLE"
      BY ZenonT(30), <1>1, <1>2, <1>5 DEF OpSet
  <2>2. op'[c] = op[c] /\ proc'[c].state = "RUNNABLE"
      BY SMTT(30), <1>1, <1>2, <1>5, ProcFields DEF OpSet
  <2> QED
      BY ZenonT(30), <1>2, <1>5, <1>9, <2>1, <2>2 DEF SleepsOn, OpSet
<1>10. FamilyInv'
  <2>1. ASSUME NEW q \in Procs \ {p}
        PROVE  (Children(q) # {} /\ Zombies(q) = {}) => (Children(q)' # {} /\ Zombies(q)' = {})
    <3>1. proc'[c].parent = p
        BY SMTT(30), <1>5, ProcFields
    <3>2. q # 0
        BY ZenonT(30), Numbers
    <3>3. \A x \in Procs : proc'[x].parent = q <=> proc[x].parent = q
        BY ZenonT(30), <1>1, <1>5, <3>1, <3>2
    <3>4. \A x \in Procs : proc[x].parent = q => x # c
        BY ZenonT(30), <1>1, <3>2
    <3> QED
        BY ZenonT(90), <1>5, <3>3, <3>4 DEF Children, Zombies
  <2>2. ASSUME NEW q \in Procs \ {init}, proc'[q].state \notin {"UNUSED", "USED"}
        PROVE  proc'[q].parent # 0 /\ proc'[proc'[q].parent].state \in {"RUNNABLE", "SLEEPING"}
    <3>1. CASE q = c
      <4>1. proc'[c].parent = p
          BY SMTT(30), <1>5, ProcFields
      <4> QED
          BY ZenonT(30), <1>1, <1>5, <3>1, <4>1, Numbers
    <3>2. CASE q # c
      <4>1. proc[q].parent \in Procs \cup {0}
          BY ZenonT(30) DEF ProcType, IsProc
      <4> QED
          BY ZenonT(30), <1>1, <1>5, <2>2, <3>2, <4>1 DEF FamilyInv
    <3> QED
        BY ZenonT(30), <3>1, <3>2
  <2> QED
      BY ZenonT(30), <1>9, <2>1, <2>2 DEF FamilyInv
<1>11. WakeInv'
    BY ZenonT(30), <1>1, <1>2, <1>9, WakeSame DEF SamePipes, fvars
<1>12. UserOf(p)'
    BY ZenonT(30), <1>2 DEF UserOf, Doing, OpSet
<1>13. RefsExact' /\ FileInv' /\ EndsInv' /\ UserInv'
    BY ZenonT(30), <1>1, <1>2, <1>12, FilesQuiet DEF FilePcs, fvars
<1> QED
    BY ZenonT(30), <1>2, <1>6, <1>7, <1>8, <1>10, <1>11, <1>13 DEF PipeType, TableType, fvars

\* fork() gives up: the slot is as it was.
LEMMA ForkFails ==
    ASSUME FilesInv, NEW p \in Procs, Calls(p), Unused # {},
           proc' = [proc EXCEPT ![First(Unused)] = FreeSlot], UNCHANGED <<op, lock, fvars>>
    PROVE  FilesInv'
<1> DEFINE c == First(Unused)
<1> USE DEF FilesInv, Types
<1>1. proc[p].state = "RUNNABLE" /\ op[p].pc = "user" /\ OpSet(p, op[p]) /\ IsOp(p, op[p])
    BY ZenonT(30) DEF Calls, OpSet, OpType
<1>2. c \in Procs /\ proc[c].state = "UNUSED" /\ proc[c].parent = 0
  <2>1. Unused \in SUBSET Nat
      BY SMTT(30) DEF Unused, Procs
  <2>2. c \in Unused
      BY ZenonT(30), <2>1, LeastExists
  <2> QED
      BY ZenonT(30), <2>2 DEF Unused, StateInv, SlotInv
<1>3. Woken
  <2>1. IsProc(FreeSlot) /\ FreeSlot.state = "UNUSED" /\ FreeSlot.parent = 0
      BY ZenonT(30) DEF FreeSlot, IsProc, States
  <2>2. /\ DOMAIN proc' = Procs /\ proc'[c] = FreeSlot
        /\ \A q \in Procs \ {c} : proc'[q] = proc[q] /\ IsProc(proc[q])
      BY ZenonT(30), <1>2 DEF ProcType
  <2> HIDE DEF c
  <2> QED
      BY ZenonT(30), <1>2, <2>1, <2>2 DEF Woken
<1> HIDE DEF c
<1>5. ProcType' /\ OpType' /\ StateInv' /\ FamilyInv'
    BY ZenonT(30), <1>1, <1>3, SoftStep DEF fvars
<1>6. ASSUME NEW q \in Procs, NEW ch, SleepsOn(q, ch)' PROVE SleepsOn(q, ch)
    BY ZenonT(30), <1>3, <1>6 DEF SleepsOn, Woken
<1>7. WakeInv'
    BY ZenonT(30), <1>1, <1>6, WakeSame DEF SamePipes, fvars
<1>8. UserOf(p)'
    BY ZenonT(30), <1>1 DEF UserOf, Doing, OpSet
<1>9. RefsExact' /\ FileInv' /\ EndsInv' /\ UserInv'
    BY ZenonT(30), <1>1, <1>8, FilesQuiet DEF FilePcs, fvars
<1>10. LockInv'
    BY ZenonT(30), LockSame, <1>1 DEF Holding
<1> QED
    BY ZenonT(30), <1>5, <1>7, <1>9, <1>10 DEF PipeType, TableType, fvars

-----------------------------------------------------------------------------
\* exit() begins.
LEMMA SysExitInv == ASSUME FilesInv, NEW p \in Procs, SysExit(p) PROVE FilesInv'
<1> USE DEF FilesInv, Types
<1>1. /\ proc[p].state = "RUNNABLE" /\ op[p].pc = "user" /\ p # init /\ OpSet(p, Exiting)
      /\ Exiting.pc = "exit" /\ IsOp(p, Exiting) /\ UNCHANGED <<proc, lock, fvars>>
    BY ZenonT(30), OpMoves DEF SysExit, At, Then, Exiting, IsOp, Pcs
<1>2. Woken
    BY ZenonT(30), <1>1 DEF Woken, ProcType
<1>3. ProcType' /\ OpType' /\ StateInv' /\ FamilyInv'
    BY ZenonT(30), <1>1, <1>2, SoftStep DEF fvars
<1>4. ASSUME NEW q \in Procs, NEW ch, SleepsOn(q, ch)' PROVE SleepsOn(q, ch)
    BY ZenonT(30), <1>1, <1>4 DEF SleepsOn, OpSet
<1>5. WakeInv'
    BY ZenonT(30), <1>1, <1>4, WakeSame DEF SamePipes, fvars
<1>6. UserOf(p)'
    BY ZenonT(30), <1>1 DEF UserOf, Doing, OpSet
<1>7. RefsExact' /\ FileInv' /\ EndsInv' /\ UserInv'
    BY ZenonT(30), <1>1, <1>6, FilesQuiet DEF FilePcs, fvars
<1>8. LockInv'
    BY ZenonT(30), <1>1, LockSame DEF Holding, OpSet
<1> QED
    BY ZenonT(30), <1>1, <1>3, <1>5, <1>7, <1>8 DEF PipeType, TableType, fvars

\* The table after reparent() and the wakeup() of the parent.
Orphans(p, U) ==
    /\ DOMAIN U = Procs
    /\ \A q \in Procs :
         /\ IsProc(U[q]) /\ U[q].chan = proc[q].chan
         /\ U[q].parent = IF proc[q].parent = p THEN init ELSE proc[q].parent
         /\ U[q].state = proc[q].state \/ (proc[q].state = "SLEEPING" /\ U[q].state = "RUNNABLE")
         /\ q # p /\ U[q].state = "SLEEPING" =>
               /\ proc[q].chan # Chan("child", proc[p].parent)
               /\ Children(p) # {} => proc[q].chan # Chan("child", init)

LEMMA Orphaned ==
    ASSUME ProcType, NEW p \in Procs, NEW U,
           U = wakeup(reparent(proc, p), Chan("child", proc[p].parent), p)
    PROVE  Orphans(p, U)
<1> DEFINE M == [c \in Procs |-> IF proc[c].parent = p THEN [proc[c] EXCEPT !.parent = init] ELSE proc[c]]
<1>0. PICK R : R = reparent(proc, p)
    BY ZenonT(30)
<1>1. ASSUME NEW q \in Procs
      PROVE  /\ IsProc(M[q]) /\ M[q].chan = proc[q].chan /\ M[q].state = proc[q].state
             /\ M[q].parent = IF proc[q].parent = p THEN init ELSE proc[q].parent
  <2>1. IsProc(proc[q]) /\ init \in Procs
      BY ZenonT(30), Numbers DEF ProcType
  <2>2. CASE proc[q].parent = p
    <3>1. proc[q] = [state |-> proc[q].state, chan |-> proc[q].chan, killed |-> proc[q].killed,
                     parent |-> proc[q].parent]
        BY ZenonT(30), <2>1 DEF IsProc
    <3>2. M[q] = [state |-> proc[q].state, chan |-> proc[q].chan, killed |-> proc[q].killed,
                  parent |-> init]
        BY ZenonT(30), <2>2, <3>1
    <3> HIDE DEF M
    <3>3. /\ ProcShape(M[q]) /\ M[q].state = proc[q].state /\ M[q].chan = proc[q].chan
          /\ M[q].killed = proc[q].killed /\ M[q].parent = init
        BY SMTT(30), <3>2, ProcFields
    <3> QED
        BY ZenonT(30), <2>1, <2>2, <3>3 DEF IsProc, ProcShape
  <2>3. CASE proc[q].parent # p
      BY ZenonT(30), <2>1, <2>3
  <2> QED
      BY ZenonT(30), <2>2, <2>3
<1>2. (Children(p) = {} /\ R = M) \/ R = wakeup(M, Chan("child", init), p)
    BY ZenonT(30), <1>0 DEF reparent, Children
<1> HIDE DEF M
<1>3. ASSUME NEW q \in Procs
      PROVE  /\ IsProc(R[q]) /\ R[q].chan = proc[q].chan
             /\ R[q].parent = IF proc[q].parent = p THEN init ELSE proc[q].parent
             /\ R[q].state = proc[q].state \/ (proc[q].state = "SLEEPING" /\ R[q].state = "RUNNABLE")
             /\ q # p /\ R[q].state = "SLEEPING" /\ Children(p) # {} =>
                   proc[q].chan # Chan("child", init)
  <2>1. CASE Children(p) = {} /\ R = M
      BY ZenonT(30), <1>1, <2>1
  <2>2. CASE R = wakeup(M, Chan("child", init), p)
    <3>1. \A r \in Procs : IsProc(M[r])
        BY ZenonT(30), <1>1
    <3>2. \A r \in Procs :
              /\ IsProc(R[r]) /\ R[r].parent = M[r].parent /\ R[r].chan = M[r].chan
              /\ R[r].state = M[r].state \/ (M[r].state = "SLEEPING" /\ R[r].state = "RUNNABLE")
              /\ R[r].state = "SLEEPING" => r = p \/ M[r].chan # Chan("child", init)
        BY SMTT(30), <2>2, <3>1, WakeFacts
    <3> QED
        BY ZenonT(30), <1>1, <3>2
  <2> QED
      BY ZenonT(30), <1>2, <2>1, <2>2
<1>4. U = wakeup(R, Chan("child", proc[p].parent), p)
    BY ZenonT(30), <1>0
<1>5. \A q \in Procs : IsProc(R[q])
    BY ZenonT(30), <1>3
<1>6. /\ DOMAIN U = Procs
      /\ \A q \in Procs :
            /\ IsProc(U[q]) /\ U[q].parent = R[q].parent /\ U[q].chan = R[q].chan
            /\ U[q].state = R[q].state \/ (R[q].state = "SLEEPING" /\ U[q].state = "RUNNABLE")
            /\ U[q].state = "SLEEPING" => q = p \/ R[q].chan # Chan("child", proc[p].parent)
    BY SMTT(30), <1>4, <1>5, WakeFacts
<1> QED
  <2>1. ASSUME NEW q \in Procs
        PROVE  /\ IsProc(U[q]) /\ U[q].chan = proc[q].chan
               /\ U[q].parent = IF proc[q].parent = p THEN init ELSE proc[q].parent
               /\ U[q].state = proc[q].state \/ (proc[q].state = "SLEEPING" /\ U[q].state = "RUNNABLE")
               /\ q # p /\ U[q].state = "SLEEPING" =>
                     /\ proc[q].chan # Chan("child", proc[p].parent)
                     /\ Children(p) # {} => proc[q].chan # Chan("child", init)
    <3>1. /\ R[q].chan = proc[q].chan
          /\ R[q].parent = IF proc[q].parent = p THEN init ELSE proc[q].parent
          /\ R[q].state = proc[q].state \/ (proc[q].state = "SLEEPING" /\ R[q].state = "RUNNABLE")
          /\ q # p /\ R[q].state = "SLEEPING" /\ Children(p) # {} =>
                proc[q].chan # Chan("child", init)
        BY ZenonT(30), <1>3
    <3>2. /\ IsProc(U[q]) /\ U[q].parent = R[q].parent /\ U[q].chan = R[q].chan
          /\ U[q].state = R[q].state \/ (R[q].state = "SLEEPING" /\ U[q].state = "RUNNABLE")
          /\ U[q].state = "SLEEPING" => q = p \/ R[q].chan # Chan("child", proc[p].parent)
        BY ZenonT(30), <1>6
    <3>3. U[q].state = "SLEEPING" => R[q].state = "SLEEPING"
        BY ZenonT(30), <3>2
    <3>4. U[q].state = proc[q].state \/ (proc[q].state = "SLEEPING" /\ U[q].state = "RUNNABLE")
        BY ZenonT(30), <3>1, <3>2
    <3> QED
        BY ZenonT(30), <3>1, <3>2, <3>3, <3>4
  <2> QED
      BY ZenonT(30), <1>6, <2>1 DEF Orphans

\* The end of exit(), once every descriptor is closed.
LEMMA ExitZombieInv ==
    ASSUME FilesInv, NEW p \in Procs, \A fd \in FDs : ofile[p][fd] = 0, ExitZombie(p), UNCHANGED fvars
    PROVE  FilesInv'
<1>0. PICK pp : pp = proc[p].parent
    BY ZenonT(30)
<1> USE DEF FilesInv, Types
<1>1. /\ proc[p].state = "RUNNABLE" /\ op[p].pc = "exit" /\ lock[0] = 0 /\ p # init
      /\ OpSet(p, User) /\ User.pc = "user" /\ UNCHANGED <<lock, fvars>>
    BY ZenonT(30), OpMoves DEF ExitZombie, At, User, StateInv, InitInv
<1>2. /\ DOMAIN proc' = Procs
      /\ proc'[p].state = "ZOMBIE"
      /\ \A q \in Procs :
            /\ IsProc(proc'[q]) /\ proc'[q].chan = proc[q].chan
            /\ proc'[q].parent = IF proc[q].parent = p THEN init ELSE proc[q].parent
            /\ q # p => \/ proc'[q].state = proc[q].state
                        \/ proc[q].state = "SLEEPING" /\ proc'[q].state = "RUNNABLE"
            /\ q # p /\ proc'[q].state = "SLEEPING" =>
                  /\ proc[q].chan # Chan("child", pp)
                  /\ Children(p) # {} => proc[q].chan # Chan("child", init)
  <2>0. PICK U : U = wakeup(reparent(proc, p), Chan("child", pp), p)
      BY ZenonT(30)
  <2>1. /\ DOMAIN U = Procs
        /\ \A q \in Procs :
              /\ IsProc(U[q]) /\ U[q].chan = proc[q].chan
              /\ U[q].parent = IF proc[q].parent = p THEN init ELSE proc[q].parent
              /\ U[q].state = proc[q].state \/ (proc[q].state = "SLEEPING" /\ U[q].state = "RUNNABLE")
              /\ q # p /\ U[q].state = "SLEEPING" =>
                    /\ proc[q].chan # Chan("child", pp)
                    /\ Children(p) # {} => proc[q].chan # Chan("child", init)
    <3>1. ProcType /\ U = wakeup(reparent(proc, p), Chan("child", proc[p].parent), p)
        BY ZenonT(30), <1>0, <2>0
    <3>2. Orphans(p, U)
        BY ZenonT(30), <3>1, Orphaned
    <3> QED
        BY ZenonT(30), <1>0, <3>2 DEF Orphans
  <2>2. proc' = [U EXCEPT ![p].state = "ZOMBIE"]
      BY ZenonT(30), <1>0, <2>0 DEF ExitZombie
  <2>3. \A q \in Procs \ {p} : proc'[q] = U[q]
      BY ZenonT(30), <2>1, <2>2
  <2>4. U[p] = [state |-> U[p].state, chan |-> U[p].chan, killed |-> U[p].killed, parent |-> U[p].parent]
      BY ZenonT(30), <2>1 DEF IsProc
  <2>5. proc'[p] = [state |-> "ZOMBIE", chan |-> U[p].chan, killed |-> U[p].killed,
                    parent |-> U[p].parent]
    <3>1. [U[p] EXCEPT !.state = "ZOMBIE"] =
              [state |-> "ZOMBIE", chan |-> U[p].chan, killed |-> U[p].killed, parent |-> U[p].parent]
        BY ZenonT(30), <2>4, ProcSet DEF ProcShape
    <3> QED
        BY ZenonT(30), <2>1, <2>2, <3>1
  <2>6. /\ IsProc(proc'[p]) /\ proc'[p].state = "ZOMBIE" /\ proc'[p].chan = U[p].chan
        /\ proc'[p].parent = U[p].parent
    <3>1. IsProc(U[p])
        BY ZenonT(30), <2>1
    <3>2. /\ ProcShape(proc'[p]) /\ proc'[p].state = "ZOMBIE" /\ proc'[p].chan = U[p].chan
          /\ proc'[p].killed = U[p].killed /\ proc'[p].parent = U[p].parent
        BY SMTT(30), <2>5, ProcFields
    <3> QED
        BY ZenonT(30), <3>1, <3>2 DEF IsProc, ProcShape, States
  <2>7. DOMAIN proc' = Procs
      BY ZenonT(30), <2>1, <2>2
  <2> QED
      BY ZenonT(90), <2>1, <2>3, <2>6, <2>7
<1>3. /\ pp \in Procs /\ \A q \in Procs : proc[q].parent \in Procs \cup {0}
      /\ init \in Procs /\ 0 \notin Procs
  <2>1. init \in Procs /\ 0 \notin Procs
      BY ZenonT(30), Numbers
  <2>2. \A q \in Procs : proc[q].parent \in Procs \cup {0}
      BY ZenonT(30) DEF ProcType, IsProc
  <2>3. pp # 0
      BY ZenonT(30), <1>0, <1>1 DEF FamilyInv
  <2> QED
      BY ZenonT(30), <1>0, <2>1, <2>2, <2>3
<1>4. ProcType' /\ OpType'
  <2>1. IsOp(p, User)
      BY ZenonT(30), <1>1 DEF IsOp, Pcs
  <2> QED
      BY ZenonT(30), <1>1, <1>2, <2>1, OpKept DEF ProcType
<1>5. LockInv'
    BY ZenonT(30), <1>1, LockSame DEF Holding, OpSet
<1>6. StateInv'
  <2>1. ASSUME NEW q \in Procs PROVE SlotInv(q)'
    <3>1. SlotInv(q) /\ (op[q].pc = "fork" => op[q].child \in Procs /\ op[q].child # p)
        BY ZenonT(30), <1>1 DEF StateInv, SlotInv, OpType, IsOp
    <3> QED
      <4>1. CASE q = p
          BY ZenonT(30), <1>1, <1>2, <4>1 DEF SlotInv, OpSet, fvars
      <4>2. CASE q # p
        <5>1. proc[q].state \in {"UNUSED", "USED"} => proc[q].parent # p
            BY ZenonT(30), <1>3, <3>1 DEF SlotInv
        <5>2. op'[q] = op[q] /\ ofile'[q] = ofile[q]
            BY ZenonT(30), <1>1, <4>2 DEF OpSet, fvars
        <5>3. /\ proc'[q].chan = proc[q].chan
              /\ proc[q].parent # p => proc'[q].parent = proc[q].parent
              /\ \/ proc'[q].state = proc[q].state
                 \/ proc[q].state = "SLEEPING" /\ proc'[q].state = "RUNNABLE"
            BY ZenonT(30), <1>2, <4>2
        <5>4. op[q].pc = "fork" => proc'[op[q].child].state = "USED"
          <6>1. op[q].pc = "fork" => proc[op[q].child].state = "USED"
              BY ZenonT(30), <3>1 DEF SlotInv
          <6> QED
              BY ZenonT(30), <1>2, <3>1, <6>1
        <5>5. /\ proc'[q].state = "SLEEPING" => proc[q].state = "SLEEPING"
              /\ proc'[q].state \in {"UNUSED", "USED", "ZOMBIE"} => proc'[q].state = proc[q].state
            BY ZenonT(30), <5>3
        <5>6. /\ proc[q].state = "SLEEPING" => op[q].pc = "asleep"
              /\ op[q].pc = "asleep" => proc[q].chan = op[q].chan
              /\ proc[q].state \in {"UNUSED", "USED", "ZOMBIE"} => op[q].pc = "user"
              /\ proc[q].state \in {"UNUSED", "ZOMBIE"} => \A fd \in FDs : ofile[q][fd] = 0
              /\ proc[q].state \in {"UNUSED", "USED"} => proc[q].parent = 0
            BY ZenonT(30), <3>1 DEF SlotInv
        <5>7. /\ proc'[q].state = "SLEEPING" => op'[q].pc = "asleep"
              /\ op'[q].pc = "asleep" => proc'[q].chan = op'[q].chan
              /\ proc'[q].state \in {"UNUSED", "USED", "ZOMBIE"} => op'[q].pc = "user"
            BY ZenonT(30), <5>2, <5>3, <5>5, <5>6
        <5>8. /\ proc'[q].state \in {"UNUSED", "ZOMBIE"} => \A fd \in FDs : ofile'[q][fd] = 0
              /\ proc'[q].state \in {"UNUSED", "USED"} => proc'[q].parent = 0
            BY ZenonT(30), <5>1, <5>2, <5>3, <5>5, <5>6
        <5> QED
            BY ZenonT(30), <5>2, <5>4, <5>7, <5>8 DEF SlotInv
      <4> QED
          BY ZenonT(30), <4>1, <4>2
  <2>2. InitInv'
      BY ZenonT(30), <1>1, <1>2, <1>3 DEF StateInv, InitInv, OpSet
  <2>3. \A q, r \in Procs :
            op'[q].pc = "fork" /\ op'[r].pc = "fork" /\ op'[q].child = op'[r].child => q = r
    <3>1. op'[p].pc # "fork" /\ \A q \in Procs \ {p} : op'[q] = op[q]
        BY ZenonT(30), <1>1 DEF OpSet
    <3> QED
        BY ZenonT(30), <3>1 DEF StateInv
  <2> QED
      BY ZenonT(30), <2>1, <2>2, <2>3 DEF StateInv
<1>7. ASSUME NEW q \in Procs, NEW ch, SleepsOn(q, ch)' PROVE SleepsOn(q, ch) /\ q # p
  <2>1. op'[p].pc # "tosleep" /\ proc'[p].state # "SLEEPING"
      BY ZenonT(30), <1>1, <1>2 DEF OpSet
  <2>2. \A r \in Procs \ {p} : op'[r] = op[r] /\ (proc'[r].state = "SLEEPING" => proc[r].state = "SLEEPING")
      BY ZenonT(30), <1>1, <1>2 DEF OpSet
  <2> QED
      BY ZenonT(30), <1>2, <1>7, <2>1, <2>2 DEF SleepsOn
<1>8. FamilyInv'
  <2>1. ASSUME NEW q \in Procs, SleepsOn(q, Chan("child", q))'
        PROVE  Children(q)' # {} /\ Zombies(q)' = {}
    <3>1. q # p /\ Children(q) # {} /\ Zombies(q) = {}
        BY ZenonT(30), <1>7, <2>1 DEF FamilyInv
    <3>2. op[q].pc = "tosleep" => op[q].chan # Chan("child", q)
      <4>1. SUFFICES ASSUME op[q].pc = "tosleep", op[q].chan = Chan("child", q) PROVE FALSE
          BY ZenonT(30)
      <4>2. Holding(q, 0) /\ 0 \in Locks
        <5>1. LockOf(op[q].chan) = 0
            BY ZenonT(30), <4>1, Channels
        <5> QED
            BY ZenonT(30), <4>1, <5>1, Numbers DEF Holding
      <4> QED
          BY ZenonT(90), <1>1, <1>3, <4>2 DEF LockInv
    <3>3. proc'[q].state = "SLEEPING" /\ proc[q].chan = Chan("child", q)
        BY ZenonT(30), <1>1, <1>2, <2>1, <3>1, <3>2 DEF SleepsOn, OpSet
    <3>4. q # pp /\ (Children(p) # {} => q # init)
        BY ZenonT(30), <1>2, <3>1, <3>3
    <3>5. \A c \in Procs : proc'[c].parent = q <=> proc[c].parent = q
        BY ZenonT(30), <1>2, <3>1, <3>4 DEF Children
    <3>6. \A c \in Procs : proc[c].parent = q => c # p /\ (proc'[c].state = "ZOMBIE" => proc[c].state = "ZOMBIE")
        BY ZenonT(30), <1>0, <1>2, <3>4
    <3> QED
        BY ZenonT(30), <3>1, <3>5, <3>6 DEF Children, Zombies
  <2>2. ASSUME NEW q \in Procs \ {init}, proc'[q].state \notin {"UNUSED", "USED"}
        PROVE  proc'[q].parent # 0 /\ proc'[proc'[q].parent].state \in {"RUNNABLE", "SLEEPING"}
    <3>1. proc[q].parent # 0 /\ proc[proc[q].parent].state \in {"RUNNABLE", "SLEEPING"}
          /\ proc[q].parent \in Procs
        BY ZenonT(30), <1>1, <1>2, <1>3, <2>2 DEF FamilyInv
    <3>2. proc'[init].state \in {"RUNNABLE", "SLEEPING"} /\ init # 0
        BY ZenonT(30), <1>6, Numbers DEF StateInv, InitInv
    <3> QED
      <4>1. CASE proc[q].parent = p
          BY ZenonT(30), <1>2, <3>2, <4>1
      <4>2. CASE proc[q].parent # p
        <5>1. proc'[q].parent = proc[q].parent
            BY ZenonT(30), <1>2, <4>2
        <5>2. \/ proc'[proc[q].parent].state = proc[proc[q].parent].state
              \/ proc'[proc[q].parent].state = "RUNNABLE"
            BY ZenonT(30), <1>2, <3>1, <4>2
        <5> QED
            BY ZenonT(30), <3>1, <5>1, <5>2
      <4> QED
          BY ZenonT(30), <4>1, <4>2
  <2> QED
      BY ZenonT(30), <2>1, <2>2 DEF FamilyInv
<1>9. WakeInv'
    BY ZenonT(30), <1>1, <1>7, WakeSame DEF SamePipes, fvars
<1>10. UserOf(p)'
    BY ZenonT(30), <1>1 DEF UserOf, Doing, OpSet
<1>11. RefsExact' /\ FileInv' /\ EndsInv' /\ UserInv'
    BY ZenonT(30), <1>1, <1>10, FilesQuiet DEF FilePcs, fvars
<1> QED
    BY ZenonT(30), <1>1, <1>4, <1>5, <1>6, <1>8, <1>9, <1>11 DEF PipeType, TableType, fvars

-----------------------------------------------------------------------------
\* Reading Count bytes moves nread to nwrite, past the wrap or not.
LEMMA Modulo == ASSUME NEW x \in 0..WORD-1 PROVE x % WORD = x /\ (x + WORD) % WORD = x
BY SMTT(30), FilesAssumption

LEMMA ReadAll ==
    ASSUME NEW q, IsPipe(q)
    PROVE  /\ Count(q) \in Nat /\ (q.nread + Count(q)) % WORD = q.nwrite
           /\ Empty(q) => Count(q) = 0 /\ (q.nread + 0) % WORD = q.nwrite
<1>1. WORD \in Nat /\ WORD > 0 /\ q.nread \in 0..WORD-1 /\ q.nwrite \in 0..WORD-1
    BY SMTT(30), FilesAssumption DEF IsPipe
<1>2. CASE q.nwrite >= q.nread
  <2>1. q.nwrite - q.nread \in 0..WORD-1
      BY SMTT(30), <1>1, <1>2
  <2>2. Count(q) = q.nwrite - q.nread
      BY ZenonT(30), <2>1, Modulo DEF Count
  <2>3. q.nread + Count(q) = q.nwrite
      BY SMTT(30), <1>1, <2>2
  <2> QED
      BY SMTT(30), <1>1, <2>1, <2>2, <2>3, Modulo DEF Empty
<1>3. CASE q.nwrite < q.nread
  <2>1. q.nwrite - q.nread + WORD \in 0..WORD-1
      BY SMTT(30), <1>1, <1>3
  <2>2. (q.nwrite - q.nread) % WORD = q.nwrite - q.nread + WORD
      BY SMTT(30), <1>1, <1>3
  <2>3. q.nread + Count(q) = q.nwrite + WORD
    <3>1. Count(q) = q.nwrite - q.nread + WORD
        BY ZenonT(30), <2>2 DEF Count
    <3> QED
        BY SMTT(30), <1>1, <3>1
  <2> QED
    <3>1. Count(q) \in Nat
        BY SMTT(30), <1>1, <2>1, <2>2 DEF Count
    <3>2. (q.nread + Count(q)) % WORD = q.nwrite
        BY ZenonT(30), <1>1, <2>3, Modulo
    <3>3. ~Empty(q)
        BY SMTT(30), <1>1, <1>3 DEF Empty
    <3> QED
        BY ZenonT(30), <3>1, <3>2, <3>3
<1> QED
    BY SMTT(30), <1>1, <1>2, <1>3

\* A caller that returns from the kernel, or goes to sleep with the lock of its pipe.
LEMMA PipeStep ==
    ASSUME FilesInv, Woken, NEW p \in Procs \ {init}, NEW pi \in Pipes, NEW o, OpSet(p, o), IsOp(p, o),
           proc[p].state = "RUNNABLE", UNCHANGED <<ofile, file>>, Keeps(p, pi),
           op[p].pc = "user" \/ (op[p].pc \in {"read", "write"} /\ op[p].pipe = pi),
           NEW keep \in BOOLEAN, Holds(pi, p, keep), Has(pi, p),
           \/ ~keep /\ o.pc = "user"
           \/ keep /\ o.pc = "write" /\ o.pipe = pi
           \/ /\ keep /\ o.pc = "tosleep" /\ o.then.pipe = pi
              /\ \/ o.chan = Chan("nread", pi) /\ o.then.pc = "read"
                 \/ o.chan = Chan("nwrite", pi) /\ o.then.pc = "write",
           \A x \in Pipes : /\ pipe'[x].readopen = pipe[x].readopen
                            /\ pipe'[x].writeopen = pipe[x].writeopen
    PROVE  /\ ProcType' /\ OpType' /\ StateInv' /\ FamilyInv'
           /\ LockInv' /\ lock' \in [Locks -> Procs \cup {0}]
           /\ RefsExact' /\ FileInv' /\ EndsInv' /\ UserInv'
<1> USE DEF FilesInv, Types
<1>1. ProcType' /\ OpType' /\ StateInv' /\ FamilyInv'
  <2>1. Chan("child", p) # Chan("nread", pi) /\ Chan("child", p) # Chan("nwrite", pi)
      BY ZenonT(30) DEF Chan
  <2>2. o.pc \notin {"asleep", "fork"} /\ ~(o.pc = "tosleep" /\ o.chan = Chan("child", p))
      BY ZenonT(30), <2>1
  <2> QED
      BY ZenonT(30), <2>2, SoftStep
<1>2. pi \in Locks /\ \A ch : (ch = Chan("nread", pi) \/ ch = Chan("nwrite", pi)) => LockOf(ch) = pi
    BY ZenonT(30), Numbers, Channels
<1>3. LockInv' /\ lock' \in [Locks -> Procs \cup {0}]
  <2>1. \A m \in Locks : Holding(p, m) => m = pi
      BY ZenonT(30) DEF Holding
  <2>2. \A m \in Locks : Holding(p, m)' <=> keep /\ m = pi
      BY ZenonT(30), <1>2 DEF Holding, OpSet
  <2> QED
      BY ZenonT(30), <1>2, <2>1, <2>2, LockMoves DEF TableType
<1>4. UserOf(p)'
    BY ZenonT(30) DEF UserOf, Doing, OpSet, Keeps
<1>5. RefsExact' /\ FileInv' /\ EndsInv' /\ UserInv'
    BY ZenonT(30), <1>4, FilesQuiet DEF FilePcs
<1> QED
    BY ZenonT(30), <1>1, <1>3, <1>5

\* While p has the lock of a pipe nobody else is about to sleep at it.
LEMMA NobodyElse ==
    ASSUME FilesInv, NEW p, NEW pi \in Pipes, Has(pi, p), NEW q \in Procs \ {p}
    PROVE  op[q].pc = "tosleep" => op[q].chan \notin {Chan("nread", pi), Chan("nwrite", pi)}
<1> SUFFICES ASSUME op[q].pc = "tosleep", op[q].chan \in {Chan("nread", pi), Chan("nwrite", pi)}
             PROVE  FALSE
    BY ZenonT(30)
<1>1. Holding(q, pi) /\ pi \in Locks
  <2>1. LockOf(op[q].chan) = pi /\ pi \in Locks
      BY ZenonT(30), Numbers, Channels
  <2> QED
      BY ZenonT(30), <2>1 DEF Holding
<1>2. lock[pi] = q /\ q # 0
  <2>1. lock[pi] = q
      BY ZenonT(30), <1>1 DEF FilesInv, LockInv
  <2> QED
      BY ZenonT(30), <2>1, Numbers
<1> QED
    BY ZenonT(30), <1>2 DEF Has

\* piperead() sleeps, gives up, or takes bytes and wakes the writers.
LEMMA ReadInv ==
    ASSUME FilesInv, NEW p \in Procs \ {init}, NEW pi \in Pipes, NEW n \in Nat,
           proc[p].state = "RUNNABLE", Keeps(p, pi),
           op[p].pc = "user" \/ (op[p].pc = "read" /\ op[p].pipe = pi),
           piperead(p, pi, n), UNCHANGED <<ofile, file>>
    PROVE  FilesInv'
<1> USE DEF FilesInv, Types
<1>1. Has(pi, p) /\ IsPipe(pipe[pi]) /\ DOMAIN pipe = Pipes /\ OpType
    BY ZenonT(30) DEF piperead, PipeType
<1>2. CASE Empty(pipe[pi]) /\ pipe[pi].writeopen /\ ~proc[p].killed
  <2> DEFINE o == ToSleep(Chan("nread", pi), [pc |-> "read", pipe |-> pi, n |-> n])
  <2>1. OpSet(p, o) /\ Holds(pi, p, TRUE) /\ UNCHANGED <<proc, pipe, stranded>>
      BY ZenonT(30), <1>1, <1>2, OpMoves DEF piperead, Then, Holds
  <2>2. /\ o.pc = "tosleep" /\ o.chan = Chan("nread", pi) /\ o.then.pc = "read"
        /\ o.then.pipe = pi /\ o.then.n = n /\ o = [pc |-> o.pc, chan |-> o.chan, then |-> o.then]
      BY ZenonT(30) DEF ToSleep
  <2> HIDE DEF o
  <2>3. IsOp(p, o) /\ Woken
      BY ZenonT(30), <2>1, <2>2 DEF IsOp, Pcs, SleepType, Woken, ProcType
  <2>4. /\ ProcType' /\ OpType' /\ StateInv' /\ FamilyInv'
        /\ LockInv' /\ lock' \in [Locks -> Procs \cup {0}]
        /\ RefsExact' /\ FileInv' /\ EndsInv' /\ UserInv'
      BY ZenonT(30), <1>1, <2>1, <2>2, <2>3, PipeStep
  <2>5. \A q \in Procs : \A ch : SleepsOn(q, ch)' => SleepsOn(q, ch) \/ (q = p /\ ch = Chan("nread", pi))
      BY ZenonT(30), <2>1, <2>2 DEF SleepsOn, OpSet
  <2>6. \A x \in Pipes : Unannounced(x) => Unannounced(x)'
      BY ZenonT(30), <2>1 DEF Unannounced, OpSet
  <2>7. \A x, y \in Pipes : Chan("nread", x) = Chan("nread", y) => x = y
      BY ZenonT(30) DEF Chan
  <2>8. \A x, y \in Pipes : Chan("nread", x) # Chan("nwrite", y)
      BY ZenonT(30) DEF Chan
  <2>9. WakeInv'
    <3> SUFFICES ASSUME NEW q \in Procs, NEW x \in Pipes
                 PROVE  /\ SleepsOn(q, Chan("nread", x))' =>
                             /\ pipe'[x].writeopen
                             /\ Empty(pipe'[x]) \/ x \in stranded' \/ Unannounced(x)'
                        /\ op'[q].pc = "tosleep" /\ op'[q].chan = Chan("nread", x) => Empty(pipe'[x])
                        /\ SleepsOn(q, Chan("nwrite", x))' => pipe'[x].readopen /\ Full(pipe'[x])
        BY ZenonT(30) DEF WakeInv
    <3>1. op'[q].pc = "tosleep" /\ op'[q].chan = Chan("nread", x) => Empty(pipe'[x])
      <4>1. CASE q = p
          BY ZenonT(30), <1>2, <2>1, <2>2, <2>7, <4>1 DEF OpSet
      <4>2. CASE q # p
        <5>1. op'[q] = op[q]
            BY ZenonT(30), <2>1, <4>2 DEF OpSet
        <5> QED
            BY ZenonT(30), <2>1, <5>1 DEF WakeInv
      <4> QED
          BY ZenonT(30), <4>1, <4>2
    <3> QED
        BY ZenonT(30), <1>2, <2>1, <2>5, <2>6, <2>7, <2>8, <3>1 DEF WakeInv
  <2> QED
      BY ZenonT(30), <2>1, <2>4, <2>9 DEF PipeType, TableType
<1>3. CASE ~(Empty(pipe[pi]) /\ pipe[pi].writeopen /\ ~proc[p].killed)
  <2>1. OpSet(p, User) /\ Holds(pi, p, FALSE) /\ User.pc = "user"
      BY ZenonT(30), <1>1, <1>3, OpMoves DEF piperead, Then, Holds, User
  <2>2. IsOp(p, User)
      BY ZenonT(30), <2>1 DEF IsOp, Pcs
  <2>3. CASE UNCHANGED <<proc, pipe, stranded>>
    <3>1. Woken
        BY ZenonT(30), <2>3 DEF Woken, ProcType
    <3>2. /\ ProcType' /\ OpType' /\ StateInv' /\ FamilyInv'
          /\ LockInv' /\ lock' \in [Locks -> Procs \cup {0}]
          /\ RefsExact' /\ FileInv' /\ EndsInv' /\ UserInv'
        BY ZenonT(30), <1>1, <2>1, <2>2, <2>3, <3>1, PipeStep
    <3>3. \A q \in Procs : \A ch : SleepsOn(q, ch)' => SleepsOn(q, ch)
        BY ZenonT(30), <2>1, <2>3 DEF SleepsOn, OpSet
    <3>4. WakeInv'
        BY ZenonT(30), <2>1, <2>3, <3>3, WakeSame DEF SamePipes
    <3> QED
        BY ZenonT(30), <2>3, <3>2, <3>4 DEF PipeType, TableType
  <2>4. ASSUME NEW j \in Nat, j <= Count(pipe[pi]),
               pipe' = [pipe EXCEPT ![pi].nread = (@ + j) % WORD],
               proc' = wakeup(proc, Chan("nwrite", pi), p),
               stranded' = IF j = Count(pipe[pi]) THEN stranded \ {pi} ELSE stranded
        PROVE  FilesInv'
    <3>1. Woken /\ \A q \in Procs : proc'[q].state = "SLEEPING" => q = p \/ proc[q].chan # Chan("nwrite", pi)
        BY ZenonT(30), <2>4, WokenBy
    <3>2. /\ DOMAIN pipe' = Pipes /\ \A x \in Pipes \ {pi} : pipe'[x] = pipe[x]
          /\ pipe'[pi] = [nread |-> (pipe[pi].nread + j) % WORD, nwrite |-> pipe[pi].nwrite,
                          data |-> pipe[pi].data, readopen |-> pipe[pi].readopen,
                          writeopen |-> pipe[pi].writeopen]
      <4>1. pipe[pi] = [nread |-> pipe[pi].nread, nwrite |-> pipe[pi].nwrite, data |-> pipe[pi].data,
                        readopen |-> pipe[pi].readopen, writeopen |-> pipe[pi].writeopen]
          BY ZenonT(30), <1>1 DEF IsPipe
      <4> QED
          BY ZenonT(30), <1>1, <2>4, <4>1
    <3>3. (pipe[pi].nread + j) % WORD \in 0..WORD-1
      <4>1. pipe[pi].nread \in 0..WORD-1
          BY ZenonT(30), <1>1 DEF IsPipe
      <4> QED
          BY ZenonT(30), <2>4, <4>1, InWord
    <3>0. /\ PipeShape(pipe'[pi]) /\ pipe'[pi].nread = (pipe[pi].nread + j) % WORD
          /\ pipe'[pi].nwrite = pipe[pi].nwrite /\ pipe'[pi].readopen = pipe[pi].readopen
          /\ pipe'[pi].writeopen = pipe[pi].writeopen
      <4>1. PICK nr, nw, d, ro, wo : /\ nr = (pipe[pi].nread + j) % WORD /\ nw = pipe[pi].nwrite
                                     /\ d = pipe[pi].data /\ ro = pipe[pi].readopen
                                     /\ wo = pipe[pi].writeopen
          BY ZenonT(30)
      <4>2. pipe'[pi] = [nread |-> nr, nwrite |-> nw, data |-> d, readopen |-> ro, writeopen |-> wo]
          BY ZenonT(30), <3>2, <4>1
      <4>3. /\ PipeShape(pipe'[pi]) /\ pipe'[pi].nread = nr /\ pipe'[pi].nwrite = nw
            /\ pipe'[pi].readopen = ro /\ pipe'[pi].writeopen = wo
          BY SMTT(30), <4>2, PipeFields
      <4> QED
          BY ZenonT(30), <4>1, <4>3
    <3>4. PipeType'
      <4>1. IsPipe(pipe'[pi])
          BY ZenonT(30), <1>1, <3>0, <3>3 DEF IsPipe, PipeShape
      <4> QED
          BY ZenonT(30), <3>2, <4>1 DEF PipeType
    <3>5. /\ ProcType' /\ OpType' /\ StateInv' /\ FamilyInv'
          /\ LockInv' /\ lock' \in [Locks -> Procs \cup {0}]
          /\ RefsExact' /\ FileInv' /\ EndsInv' /\ UserInv'
      <4>1. \A x \in Pipes : /\ pipe'[x].readopen = pipe[x].readopen
                             /\ pipe'[x].writeopen = pipe[x].writeopen
          BY ZenonT(30), <3>0, <3>2
      <4> QED
          BY ZenonT(30), <1>1, <2>1, <2>2, <3>1, <4>1, PipeStep
    <3>6. Empty(pipe[pi]) \/ pi \in stranded => Empty(pipe'[pi]) \/ pi \in stranded'
      <4>1. pipe'[pi].nread = (pipe[pi].nread + j) % WORD /\ pipe'[pi].nwrite = pipe[pi].nwrite
          BY ZenonT(30), <3>0
      <4>2. /\ Count(pipe[pi]) \in Nat /\ (pipe[pi].nread + Count(pipe[pi])) % WORD = pipe[pi].nwrite
            /\ Empty(pipe[pi]) =>
                  Count(pipe[pi]) = 0 /\ (pipe[pi].nread + 0) % WORD = pipe[pi].nwrite
          BY ZenonT(30), <1>1, ReadAll
      <4>3. Empty(pipe[pi]) => j = 0
          BY SMTT(30), <2>4, <4>2
      <4>4. pi \in stranded => j = Count(pipe[pi]) \/ pi \in stranded'
          BY ZenonT(30), <2>4
      <4> QED
          BY ZenonT(30), <4>1, <4>2, <4>3, <4>4 DEF Empty
    <3>7. \A q \in Procs : \A ch : SleepsOn(q, ch)' =>
              /\ SleepsOn(q, ch) /\ q # p
              /\ op[q].pc = "tosleep" \/ ch # Chan("nwrite", pi)
        BY ZenonT(30), <2>1, <3>1 DEF SleepsOn, OpSet, Woken
    <3>8. \A q \in Procs \ {p} : op[q].pc = "tosleep" =>
              op[q].chan \notin {Chan("nread", pi), Chan("nwrite", pi)}
        BY ZenonT(30), <1>1, NobodyElse
    <3>9. \A x \in Pipes : Unannounced(x) => Unannounced(x)'
        BY ZenonT(30), <2>1 DEF Unannounced, OpSet
    <3>10. WakeInv'
      <4> SUFFICES ASSUME NEW q \in Procs, NEW x \in Pipes
                   PROVE  /\ SleepsOn(q, Chan("nread", x))' =>
                               /\ pipe'[x].writeopen
                               /\ Empty(pipe'[x]) \/ x \in stranded' \/ Unannounced(x)'
                          /\ op'[q].pc = "tosleep" /\ op'[q].chan = Chan("nread", x) => Empty(pipe'[x])
                          /\ SleepsOn(q, Chan("nwrite", x))' => pipe'[x].readopen /\ Full(pipe'[x])
          BY ZenonT(30) DEF WakeInv
      <4>1. CASE x = pi
        <5>1. SleepsOn(q, Chan("nwrite", pi))' => FALSE
          <6>1. SUFFICES ASSUME SleepsOn(q, Chan("nwrite", pi))' PROVE FALSE
              BY ZenonT(30)
          <6>2. q # p /\ op[q].pc = "tosleep" /\ op'[q] = op[q]
              BY ZenonT(30), <2>1, <3>7, <6>1 DEF OpSet
          <6>3. op[q].chan = Chan("nwrite", pi)
            <7>1. CASE proc'[q].state = "SLEEPING"
              <8>1. proc[q].state = "SLEEPING"
                  BY ZenonT(30), <3>1, <7>1 DEF Woken
              <8> QED
                  BY ZenonT(30), <6>2, <8>1 DEF StateInv, SlotInv
            <7>2. CASE proc'[q].state # "SLEEPING"
                BY ZenonT(30), <6>1, <6>2, <7>2 DEF SleepsOn
            <7> QED
                BY ZenonT(30), <7>1, <7>2
          <6> QED
              BY ZenonT(30), <3>8, <6>2, <6>3
        <5>2. ~(op'[q].pc = "tosleep" /\ op'[q].chan = Chan("nread", pi))
            BY ZenonT(30), <2>1, <3>8 DEF OpSet
        <5> QED
          <6>1. SleepsOn(q, Chan("nread", pi))' =>
                    pipe[pi].writeopen /\ (Empty(pipe[pi]) \/ pi \in stranded \/ Unannounced(pi))
              BY ZenonT(30), <3>7 DEF WakeInv
          <6>2. Unannounced(pi) => Unannounced(pi)'
              BY ZenonT(30), <3>9
          <6> QED
              BY ZenonT(30), <3>0, <3>6, <4>1, <5>1, <5>2, <6>1, <6>2
      <4>2. CASE x # pi
        <5>1. op'[q].pc = "tosleep" => op'[q] = op[q]
            BY ZenonT(30), <2>1 DEF OpSet
        <5>2. x \in stranded => x \in stranded'
            BY ZenonT(30), <2>4, <4>2
        <5> QED
            BY ZenonT(90), <3>2, <3>7, <3>9, <4>2, <5>1, <5>2 DEF WakeInv
      <4> QED
          BY ZenonT(30), <4>1, <4>2
    <3> QED
      <4>1. stranded' \subseteq Pipes
          BY ZenonT(30), <2>4 DEF TableType
      <4> QED
          BY ZenonT(30), <3>4, <3>5, <3>10, <4>1 DEF TableType
  <2> QED
    <3>1. CASE Empty(pipe[pi]) /\ pipe[pi].writeopen
        BY ZenonT(30), <2>3, <3>1 DEF piperead
    <3>2. CASE ~(Empty(pipe[pi]) /\ pipe[pi].writeopen)
        BY SMTT(30), <1>1, <2>4, <3>2, ReadAll DEF piperead
    <3> QED
        BY ZenonT(30), <3>1, <3>2
<1> QED
    BY ZenonT(30), <1>2, <1>3

\* pipewrite() wakes the readers and returns, or goes to sleep on a full pipe.
LEMMA WakesReaders ==
    ASSUME FilesInv, NEW p \in Procs \ {init}, NEW pi \in Pipes, NEW o, OpSet(p, o),
           proc[p].state = "RUNNABLE", Keeps(p, pi), Has(pi, p),
           op[p].pc = "user" \/ (op[p].pc = "write" /\ op[p].pipe = pi),
           NEW keep \in BOOLEAN, Holds(pi, p, keep), WakeReaders(p, pi), UNCHANGED <<pipe, ofile, file>>,
           \/ ~keep /\ o.pc = "user"
           \/ /\ keep /\ o.pc = "tosleep" /\ o.then.pipe = pi /\ o.chan = Chan("nwrite", pi)
              /\ o.then.pc = "write" /\ o = [pc |-> o.pc, chan |-> o.chan, then |-> o.then]
              /\ pipe[pi].readopen /\ Full(pipe[pi])
    PROVE  FilesInv'
<1> USE DEF FilesInv, Types
<1>1. Woken /\ \A q \in Procs : proc'[q].state = "SLEEPING" => q = p \/ proc[q].chan # Chan("nread", pi)
    BY ZenonT(30), WokenBy DEF WakeReaders
<1>2. IsOp(p, o)
    BY ZenonT(30) DEF IsOp, Pcs, SleepType
<1>3. /\ ProcType' /\ OpType' /\ StateInv' /\ FamilyInv'
      /\ LockInv' /\ lock' \in [Locks -> Procs \cup {0}]
      /\ RefsExact' /\ FileInv' /\ EndsInv' /\ UserInv'
    BY ZenonT(30), <1>1, <1>2, PipeStep
<1>4. \A q \in Procs : \A ch : SleepsOn(q, ch)' =>
          /\ SleepsOn(q, ch) \/ (q = p /\ o.pc = "tosleep" /\ ch = Chan("nwrite", pi))
          /\ op'[q].pc = "tosleep" \/ ch # Chan("nread", pi)
  <2>1. proc'[p].state # "SLEEPING" /\ op'[p] = o
      BY ZenonT(30), <1>1 DEF Woken, OpSet
  <2>2. \A q \in Procs \ {p} : op'[q] = op[q]
      BY ZenonT(30) DEF OpSet
  <2>3. \A q \in Procs \ {p} : proc'[q].state = "SLEEPING" =>
            proc[q].state = "SLEEPING" /\ proc'[q].chan = proc[q].chan /\ proc[q].chan # Chan("nread", pi)
      BY ZenonT(30), <1>1 DEF Woken
  <2> QED
      BY ZenonT(30), <2>1, <2>2, <2>3 DEF SleepsOn
<1>5. \A q \in Procs \ {p} : op[q].pc = "tosleep" =>
          op[q].chan \notin {Chan("nread", pi), Chan("nwrite", pi)}
    BY ZenonT(30), NobodyElse
<1>6. \A x, y \in Pipes : /\ Chan("nwrite", x) = Chan("nwrite", y) => x = y
                          /\ Chan("nread", x) # Chan("nwrite", y)
    BY ZenonT(30) DEF Chan
<1>7. \A q \in Procs : ~SleepsOn(q, Chan("nread", pi))'
  <2>1. SUFFICES ASSUME NEW q \in Procs, SleepsOn(q, Chan("nread", pi))' PROVE FALSE
      BY ZenonT(30)
  <2>2. op'[q].pc = "tosleep" /\ SleepsOn(q, Chan("nread", pi))
      BY ZenonT(30), <1>4, <1>6, <2>1
  <2>3. q # p
    <3>1. proc[p].state # "SLEEPING" /\ op[p].pc # "tosleep"
        BY ZenonT(30)
    <3> QED
        BY ZenonT(30), <2>2, <3>1 DEF SleepsOn
  <2>4. op[q].pc = "tosleep"
      BY ZenonT(30), <2>2, <2>3 DEF OpSet
  <2>5. op[q].chan = Chan("nread", pi)
      BY ZenonT(30), <2>2, <2>4 DEF SleepsOn, StateInv, SlotInv
  <2> QED
      BY ZenonT(30), <1>5, <2>3, <2>4, <2>5
<1>8. WakeInv'
  <2> SUFFICES ASSUME NEW q \in Procs, NEW x \in Pipes
               PROVE  /\ SleepsOn(q, Chan("nread", x))' =>
                           /\ pipe'[x].writeopen
                           /\ Empty(pipe'[x]) \/ x \in stranded' \/ Unannounced(x)'
                      /\ op'[q].pc = "tosleep" /\ op'[q].chan = Chan("nread", x) => Empty(pipe'[x])
                      /\ SleepsOn(q, Chan("nwrite", x))' => pipe'[x].readopen /\ Full(pipe'[x])
      BY ZenonT(30) DEF WakeInv
  <2>1. SleepsOn(q, Chan("nwrite", x))' => pipe'[x].readopen /\ Full(pipe'[x])
      BY ZenonT(30), <1>4, <1>6 DEF WakeInv
  <2>2. op'[q].pc = "tosleep" /\ op'[q].chan = Chan("nread", x) => Empty(pipe'[x])
    <3>1. q = p => ~(op'[q].pc = "tosleep" /\ op'[q].chan = Chan("nread", x))
      <4>1. op'[p] = o /\ (o.pc = "tosleep" => o.chan = Chan("nwrite", pi))
          BY ZenonT(30) DEF OpSet
      <4>2. Chan("nread", x) # Chan("nwrite", pi)
          BY ZenonT(30), <1>6
      <4> QED
          BY ZenonT(30), <4>1, <4>2
    <3>2. q # p => op'[q] = op[q]
        BY ZenonT(30) DEF OpSet
    <3> QED
        BY ZenonT(30), <3>1, <3>2 DEF WakeInv
  <2>3. CASE x = pi
      BY ZenonT(30), <1>7, <2>1, <2>2, <2>3
  <2>4. CASE x # pi
    <3>1. (x \in stranded => x \in stranded') /\ (Unannounced(x) => Unannounced(x)')
        BY ZenonT(30), <2>4 DEF WakeReaders, Unannounced, OpSet
    <3>2. SleepsOn(q, Chan("nread", x))' => SleepsOn(q, Chan("nread", x))
        BY ZenonT(30), <1>4, <1>6
    <3> QED
        BY ZenonT(30), <2>1, <2>2, <3>1, <3>2 DEF WakeInv
  <2> QED
      BY ZenonT(30), <2>3, <2>4
<1> QED
    BY ZenonT(30), <1>3, <1>8 DEF PipeType, TableType, WakeReaders

\* pipewrite() stores a byte: whoever sleeps in piperead() is still to be woken by p.
LEMMA StoresByte ==
    ASSUME FilesInv, NEW p \in Procs \ {init}, NEW pi \in Pipes, NEW o, OpSet(p, o),
           proc[p].state = "RUNNABLE", Keeps(p, pi), Has(pi, p), Holds(pi, p, TRUE),
           op[p].pc = "user" \/ (op[p].pc = "write" /\ op[p].pipe = pi), ~Full(pipe[pi]),
           o.pc = "write", o.pipe = pi, o.fresh, NEW v,
           pipe' = [pipe EXCEPT ![pi].data[pipe[pi].nwrite % PIPESIZE] = v,
                                ![pi].nwrite = (@ + 1) % WORD],
           UNCHANGED <<proc, stranded, ofile, file>>
    PROVE  FilesInv'
<1> USE DEF FilesInv, Types
<1>1. IsPipe(pipe[pi]) /\ DOMAIN pipe = Pipes
    BY ZenonT(30) DEF PipeType
<1>2. PICK d : d = [pipe[pi].data EXCEPT ![pipe[pi].nwrite % PIPESIZE] = v]
    BY ZenonT(30)
<1>3. /\ DOMAIN pipe' = Pipes /\ \A x \in Pipes \ {pi} : pipe'[x] = pipe[x]
      /\ pipe'[pi] = [nread |-> pipe[pi].nread, nwrite |-> (pipe[pi].nwrite + 1) % WORD, data |-> d,
                      readopen |-> pipe[pi].readopen, writeopen |-> pipe[pi].writeopen]
  <2>1. pipe[pi] = [nread |-> pipe[pi].nread, nwrite |-> pipe[pi].nwrite, data |-> pipe[pi].data,
                    readopen |-> pipe[pi].readopen, writeopen |-> pipe[pi].writeopen]
      BY ZenonT(30), <1>1 DEF IsPipe
  <2>2. PICK r : r = [pipe[pi] EXCEPT !.data = d]
      BY ZenonT(30)
  <2>3. /\ PipeShape(r) /\ r.nread = pipe[pi].nread /\ r.nwrite = pipe[pi].nwrite /\ r.data = d
        /\ r.readopen = pipe[pi].readopen /\ r.writeopen = pipe[pi].writeopen
      BY ZenonT(30), <2>1, <2>2, PipeSet, PipeFields DEF PipeShape
  <2>4. [r EXCEPT !.nwrite = (pipe[pi].nwrite + 1) % WORD] =
            [nread |-> r.nread, nwrite |-> (pipe[pi].nwrite + 1) % WORD, data |-> r.data,
             readopen |-> r.readopen, writeopen |-> r.writeopen]
      BY ZenonT(30), <2>3, PipeSet
  <2>5. pipe' = [pipe EXCEPT ![pi] = [r EXCEPT !.nwrite = (pipe[pi].nwrite + 1) % WORD]]
      BY ZenonT(30), <1>1, <1>2, <2>2, <2>3
  <2> QED
      BY ZenonT(30), <1>1, <2>3, <2>4, <2>5
<1>4. PipeType'
  <2>1. (pipe[pi].nwrite + 1) % WORD \in 0..WORD-1
      BY SMTT(30), <1>1, FilesAssumption DEF IsPipe
  <2> QED
      BY ZenonT(30), <1>1, <1>3, <2>1 DEF PipeType, IsPipe
<1>5. IsOp(p, o) /\ Woken
    BY ZenonT(30) DEF IsOp, Pcs, Woken, ProcType
<1>6. \A x \in Pipes : pipe'[x].readopen = pipe[x].readopen /\ pipe'[x].writeopen = pipe[x].writeopen
  <2>1. PICK nr, nw, ro, wo : /\ nr = pipe[pi].nread /\ nw = (pipe[pi].nwrite + 1) % WORD
                              /\ ro = pipe[pi].readopen /\ wo = pipe[pi].writeopen
      BY ZenonT(30)
  <2>2. pipe'[pi] = [nread |-> nr, nwrite |-> nw, data |-> d, readopen |-> ro, writeopen |-> wo]
      BY ZenonT(30), <1>3, <2>1
  <2>3. pipe'[pi].readopen = ro /\ pipe'[pi].writeopen = wo
    <3>1. PICK r : r = pipe'[pi]
        BY ZenonT(30)
    <3>2. r = [nread |-> nr, nwrite |-> nw, data |-> d, readopen |-> ro, writeopen |-> wo]
        BY ZenonT(30), <2>2, <3>1
    <3>3. r.readopen = ro /\ r.writeopen = wo
        BY ZenonT(30), <3>2, PipeFields
    <3> QED
        BY ZenonT(30), <3>1, <3>3
  <2>4. \A x \in Pipes \ {pi} : pipe'[x] = pipe[x]
      BY ZenonT(30), <1>3
  <2>5. pipe'[pi].readopen = pipe[pi].readopen /\ pipe'[pi].writeopen = pipe[pi].writeopen
      BY ZenonT(30), <2>1, <2>3
  <2> QED
      BY ZenonT(30), <2>4, <2>5
<1>7. /\ ProcType' /\ OpType' /\ StateInv' /\ FamilyInv'
      /\ LockInv' /\ lock' \in [Locks -> Procs \cup {0}]
      /\ RefsExact' /\ FileInv' /\ EndsInv' /\ UserInv'
    BY ZenonT(30), <1>5, <1>6, PipeStep
<1>8. \A q \in Procs : \A ch : SleepsOn(q, ch)' => SleepsOn(q, ch)
    BY ZenonT(30) DEF SleepsOn, OpSet
<1>9. \A q \in Procs \ {p} : op[q].pc = "tosleep" =>
          op[q].chan \notin {Chan("nread", pi), Chan("nwrite", pi)}
    BY ZenonT(30), NobodyElse
<1>10. WakeInv'
  <2> SUFFICES ASSUME NEW q \in Procs, NEW x \in Pipes
               PROVE  /\ SleepsOn(q, Chan("nread", x))' =>
                           /\ pipe'[x].writeopen
                           /\ Empty(pipe'[x]) \/ x \in stranded' \/ Unannounced(x)'
                      /\ op'[q].pc = "tosleep" /\ op'[q].chan = Chan("nread", x) => Empty(pipe'[x])
                      /\ SleepsOn(q, Chan("nwrite", x))' => pipe'[x].readopen /\ Full(pipe'[x])
      BY ZenonT(30) DEF WakeInv
  <2>1. CASE x = pi
    <3>1. Unannounced(pi)'
        BY ZenonT(30) DEF Unannounced, OpSet
    <3>2. ~SleepsOn(q, Chan("nwrite", pi))'
        BY ZenonT(30), <1>8 DEF WakeInv
    <3>3. ~(op'[q].pc = "tosleep" /\ op'[q].chan = Chan("nread", pi))
        BY ZenonT(30), <1>9 DEF OpSet
    <3> QED
        BY ZenonT(30), <1>6, <1>8, <2>1, <3>1, <3>2, <3>3 DEF WakeInv
  <2>2. CASE x # pi
    <3>1. Unannounced(x) => Unannounced(x)'
        BY ZenonT(30), <2>2 DEF Unannounced, OpSet
    <3>2. op'[q].pc = "tosleep" => op'[q] = op[q]
        BY ZenonT(30) DEF OpSet
    <3> QED
      <4>1. pipe'[x] = pipe[x] /\ stranded' = stranded
          BY ZenonT(30), <1>3, <2>2
      <4>2. /\ SleepsOn(q, Chan("nread", x))' => SleepsOn(q, Chan("nread", x))
            /\ SleepsOn(q, Chan("nwrite", x))' => SleepsOn(q, Chan("nwrite", x))
          BY ZenonT(30), <1>8
      <4> QED
          BY ZenonT(30), <3>1, <3>2, <4>1, <4>2 DEF WakeInv
  <2> QED
      BY ZenonT(30), <2>1, <2>2
<1> QED
    BY ZenonT(30), <1>4, <1>7, <1>10 DEF TableType

\* pipewrite() returns -1 and wakes nobody: the bytes it stored are stranded.
LEMMA WriteFails ==
    ASSUME FilesInv, NEW p \in Procs \ {init}, NEW pi \in Pipes, OpSet(p, User),
           proc[p].state = "RUNNABLE", Keeps(p, pi), Has(pi, p), Holds(pi, p, FALSE),
           op[p].pc = "user" \/ (op[p].pc = "write" /\ op[p].pipe = pi),
           stranded' \in {stranded, stranded \cup {pi}},
           op[p].pc = "write" /\ op[p].fresh => pi \in stranded',
           UNCHANGED <<proc, pipe, ofile, file>>
    PROVE  FilesInv'
<1> USE DEF FilesInv, Types
<1>1. User.pc = "user"
    BY ZenonT(30) DEF User
<1>2. IsOp(p, User) /\ Woken
    BY ZenonT(30), <1>1 DEF IsOp, Pcs, Woken, ProcType
<1>3. /\ ProcType' /\ OpType' /\ StateInv' /\ FamilyInv'
      /\ LockInv' /\ lock' \in [Locks -> Procs \cup {0}]
      /\ RefsExact' /\ FileInv' /\ EndsInv' /\ UserInv'
    BY ZenonT(30), <1>1, <1>2, PipeStep
<1>4. \A q \in Procs : /\ \A ch : SleepsOn(q, ch)' => SleepsOn(q, ch)
                       /\ op'[q].pc = "tosleep" => op'[q] = op[q]
    BY ZenonT(30), <1>1 DEF SleepsOn, OpSet
<1>5. \A x \in Pipes : x \in stranded \/ Unannounced(x) => x \in stranded' \/ Unannounced(x)'
  <2> SUFFICES ASSUME NEW x \in Pipes, Unannounced(x), x \notin stranded'
               PROVE  Unannounced(x)'
      BY ZenonT(30)
  <2>1. PICK w \in Procs : op[w].pc = "write" /\ op[w].pipe = x /\ op[w].fresh
      BY ZenonT(30) DEF Unannounced
  <2>2. w # p
      BY ZenonT(30), <2>1
  <2> QED
      BY ZenonT(30), <2>1, <2>2 DEF Unannounced, OpSet
<1>6. WakeInv'
    BY ZenonT(30), <1>4, <1>5 DEF WakeInv
<1> QED
    BY ZenonT(30), <1>3, <1>6 DEF PipeType, TableType

\* One turn of pipewrite().
LEMMA WriteInv ==
    ASSUME FilesInv, NEW p \in Procs \ {init}, NEW pi \in Pipes, NEW buf, NEW fresh,
           proc[p].state = "RUNNABLE", Keeps(p, pi),
           op[p].pc = "user" \/ (op[p].pc = "write" /\ op[p].pipe = pi /\ op[p].fresh = fresh),
           pipewrite(p, pi, buf, fresh), UNCHANGED <<ofile, file>>
    PROVE  FilesInv'
<1> DEFINE At1(b, fr) == [pc |-> "write", pipe |-> pi, buf |-> b, fresh |-> fr]
           o == ToSleep(Chan("nwrite", pi), At1(buf, FALSE))
           s == At1(Tail(buf), TRUE)
<1>1. OpType /\ Has(pi, p)
    BY ZenonT(30) DEF FilesInv, Types, pipewrite
<1>2. User.pc = "user"
    BY ZenonT(30) DEF User
<1>3. /\ o.pc = "tosleep" /\ o.then.pipe = pi /\ o.chan = Chan("nwrite", pi)
      /\ o.then.pc = "write" /\ o = [pc |-> o.pc, chan |-> o.chan, then |-> o.then]
    BY ZenonT(30) DEF ToSleep
<1>4. s.pc = "write" /\ s.pipe = pi /\ s.fresh
    BY ZenonT(30)
<1>5. \/ /\ Then(p, User) /\ Holds(pi, p, FALSE) /\ UNCHANGED <<pipe, proc>>
         /\ stranded' = IF fresh THEN stranded \cup {pi} ELSE stranded
      \/ /\ pipe[pi].readopen /\ Full(pipe[pi]) /\ WakeReaders(p, pi) /\ Then(p, o)
         /\ Holds(pi, p, TRUE) /\ UNCHANGED pipe
      \/ /\ ~Full(pipe[pi]) /\ Then(p, s) /\ Holds(pi, p, TRUE) /\ UNCHANGED <<proc, stranded>>
         /\ pipe' = [pipe EXCEPT ![pi].data[pipe[pi].nwrite % PIPESIZE] = Head(buf),
                                 ![pi].nwrite = (@ + 1) % WORD]
      \/ WakeReaders(p, pi) /\ Then(p, User) /\ Holds(pi, p, FALSE) /\ UNCHANGED pipe
    BY ZenonT(30) DEF pipewrite
<1> HIDE DEF o, s
<1>6. CASE /\ Then(p, User) /\ Holds(pi, p, FALSE) /\ UNCHANGED <<pipe, proc>>
           /\ stranded' = IF fresh THEN stranded \cup {pi} ELSE stranded
  <2>1. OpSet(p, User)
      BY ZenonT(30), <1>1, <1>6, OpMoves DEF Then
  <2>2. UNCHANGED <<proc, pipe, ofile, file>>
      BY ZenonT(30), <1>6
  <2>3. /\ stranded' \in {stranded, stranded \cup {pi}}
        /\ op[p].pc = "write" /\ op[p].fresh => pi \in stranded'
    <3>1. User.pc # "write" /\ "user" # "write"
        BY ZenonT(30), <1>2
    <3>2. CASE fresh
        BY ZenonT(30), <1>6, <3>2
    <3>3. CASE ~fresh
        BY ZenonT(30), <1>6, <3>1, <3>3
    <3> QED
        BY ZenonT(30), <3>2, <3>3
  <2> QED
      BY ZenonT(30), <1>1, <1>6, <2>1, <2>2, <2>3, WriteFails
<1>7. CASE /\ pipe[pi].readopen /\ Full(pipe[pi]) /\ WakeReaders(p, pi) /\ Then(p, o)
           /\ Holds(pi, p, TRUE) /\ UNCHANGED pipe
  <2>1. OpSet(p, o)
      BY ZenonT(30), <1>1, <1>7, OpMoves DEF Then
  <2> QED
      BY ZenonT(30), <1>1, <1>3, <1>7, <2>1, WakesReaders
<1>8. CASE /\ ~Full(pipe[pi]) /\ Then(p, s) /\ Holds(pi, p, TRUE) /\ UNCHANGED <<proc, stranded>>
           /\ pipe' = [pipe EXCEPT ![pi].data[pipe[pi].nwrite % PIPESIZE] = Head(buf),
                                   ![pi].nwrite = (@ + 1) % WORD]
  <2>1. OpSet(p, s)
      BY ZenonT(30), <1>1, <1>8, OpMoves DEF Then
  <2> QED
      BY ZenonT(30), <1>1, <1>4, <1>8, <2>1, StoresByte
<1>9. CASE WakeReaders(p, pi) /\ Then(p, User) /\ Holds(pi, p, FALSE) /\ UNCHANGED pipe
  <2>1. OpSet(p, User)
      BY ZenonT(30), <1>1, <1>9, OpMoves DEF Then
  <2> QED
      BY ZenonT(30), <1>1, <1>2, <1>9, <2>1, WakesReaders
<1> QED
    BY ZenonT(30), <1>5, <1>6, <1>7, <1>8, <1>9

-----------------------------------------------------------------------------
\* The pipe after pipeclose() of its end w.
ClosedPipe(pi, w) ==
    LET q == IF w THEN [pipe[pi] EXCEPT !.writeopen = FALSE] ELSE [pipe[pi] EXCEPT !.readopen = FALSE]
    IN  IF ~q.readopen /\ ~q.writeopen THEN NoPipe ELSE q

LEMMA PipeCloseFacts ==
    ASSUME NEW pi \in Pipes, NEW w \in BOOLEAN, IsPipe(pipe[pi])
    PROVE  /\ IsPipe(ClosedPipe(pi, w))
           /\ w => /\ ~ClosedPipe(pi, w).writeopen
                   /\ ClosedPipe(pi, w).readopen <=> pipe[pi].readopen
           /\ ~w => /\ ~ClosedPipe(pi, w).readopen
                    /\ ClosedPipe(pi, w).writeopen <=> pipe[pi].writeopen
           /\ (IF w THEN pipe[pi].readopen ELSE pipe[pi].writeopen) =>
                 /\ ClosedPipe(pi, w).nread = pipe[pi].nread
                 /\ ClosedPipe(pi, w).nwrite = pipe[pi].nwrite
<1> DEFINE q == pipe[pi]
<1>1. q = [nread |-> q.nread, nwrite |-> q.nwrite, data |-> q.data,
           readopen |-> q.readopen, writeopen |-> q.writeopen]
    BY ZenonT(30) DEF IsPipe
<1>2. IsPipe(NoPipe) /\ ~NoPipe.readopen /\ ~NoPipe.writeopen
    BY SMTT(30), FilesAssumption DEF IsPipe, NoPipe
<1>3. CASE w
  <2>1. PICK c : c = [q EXCEPT !.writeopen = FALSE]
      BY ZenonT(30)
  <2>2. /\ PipeShape(c) /\ c.nread = q.nread /\ c.nwrite = q.nwrite
        /\ c.readopen = q.readopen /\ c.writeopen = FALSE
      BY ZenonT(30), <1>1, <2>1, PipeSet, PipeFields DEF PipeShape
  <2>3. ClosedPipe(pi, w) = IF q.readopen THEN c ELSE NoPipe
      BY ZenonT(30), <1>3, <2>1, <2>2 DEF ClosedPipe
  <2>4. IsPipe(c)
      BY ZenonT(30), <2>2 DEF IsPipe, PipeShape
  <2> QED
      BY ZenonT(30), <1>2, <1>3, <2>2, <2>3, <2>4
<1>4. CASE ~w
  <2>1. PICK c : c = [q EXCEPT !.readopen = FALSE]
      BY ZenonT(30)
  <2>2. /\ PipeShape(c) /\ c.nread = q.nread /\ c.nwrite = q.nwrite
        /\ c.readopen = FALSE /\ c.writeopen = q.writeopen
      BY ZenonT(30), <1>1, <2>1, PipeSet, PipeFields DEF PipeShape
  <2>3. ClosedPipe(pi, w) = IF q.writeopen THEN c ELSE NoPipe
      BY ZenonT(30), <1>4, <2>1, <2>2 DEF ClosedPipe
  <2>4. IsPipe(c)
      BY ZenonT(30), <2>2 DEF IsPipe, PipeShape
  <2> QED
      BY ZenonT(30), <1>2, <1>4, <2>2, <2>3, <2>4
<1> QED
    BY ZenonT(30), <1>3, <1>4

\* pipeclose(): the end has no file any more, and who slept at the other one is woken.
LEMMA PipeCloseInv == ASSUME FilesInv, NEW p \in Procs, PipeClose(p) PROVE FilesInv'
<1>0. PICK pi, w, o : pi = op[p].pipe /\ w = op[p].writable /\ o = op[p].then
    BY ZenonT(30)
<1> USE DEF FilesInv, Types
<1>1. /\ proc[p].state = "RUNNABLE" /\ op[p].pc = "pipeclose" /\ lock[pi] = 0 /\ p # init
      /\ IsOp(p, op[p])
    BY ZenonT(30), <1>0 DEF PipeClose, At, StateInv, InitInv, OpType
<1>2. /\ pi \in Pipes /\ w \in BOOLEAN
      /\ o \in {User, Exiting} \/ (o.pc = "pipebad1" /\ o.f1 \in FileIds)
    BY ZenonT(30), <1>0, <1>1 DEF IsOp
<1>3. /\ pipe' = [pipe EXCEPT ![pi] = ClosedPipe(pi, w)]
      /\ proc' = wakeup(proc, Chan(IF w THEN "nread" ELSE "nwrite", pi), p)
      /\ stranded' = stranded \/ (stranded' = stranded \ {pi} /\ (w \/ ~pipe[pi].writeopen))
      /\ UNCHANGED <<lock, ofile, file>>
  <2>1. ~w => ([pipe[pi] EXCEPT !.readopen = FALSE].writeopen <=> pipe[pi].writeopen)
    <3>1. pipe[pi] = [nread |-> pipe[pi].nread, nwrite |-> pipe[pi].nwrite, data |-> pipe[pi].data,
                      readopen |-> pipe[pi].readopen, writeopen |-> pipe[pi].writeopen]
        BY ZenonT(30), <1>2 DEF PipeType, IsPipe
    <3> QED
        BY ZenonT(30), <3>1
  <2> QED
      BY ZenonT(30), <1>0, <1>2, <2>1 DEF PipeClose, ClosedPipe
<1>4. OpSet(p, o)
    BY ZenonT(30), <1>0, OpMoves DEF PipeClose, Then
<1>5. op[p].pc = "pipeclose" /\ op[p].pipe = pi /\ op[p].writable = w /\ op[p].then = o
    BY ZenonT(30), <1>0, <1>1
<1>6. o.pc \in {"user", "exit", "pipebad1"} /\ (o.pc = "pipebad1" => o.f1 \in FileIds)
    BY SMTT(30), <1>2 DEF User, Exiting
<1>7. IsOp(p, o)
    BY ZenonT(30), <1>6 DEF IsOp, Pcs
<1>8. /\ DOMAIN pipe' = Pipes /\ \A x \in Pipes \ {pi} : pipe'[x] = pipe[x]
      /\ pipe'[pi] = ClosedPipe(pi, w) /\ IsPipe(pipe[pi])
    BY ZenonT(30), <1>2, <1>3 DEF PipeType
<1>9. /\ IsPipe(pipe'[pi])
      /\ w => ~pipe'[pi].writeopen /\ (pipe'[pi].readopen <=> pipe[pi].readopen)
      /\ ~w => ~pipe'[pi].readopen /\ (pipe'[pi].writeopen <=> pipe[pi].writeopen)
      /\ (IF w THEN pipe[pi].readopen ELSE pipe[pi].writeopen) =>
            pipe'[pi].nread = pipe[pi].nread /\ pipe'[pi].nwrite = pipe[pi].nwrite
  <2>1. PICK cl : cl = ClosedPipe(pi, w)
      BY ZenonT(30)
  <2>2. /\ IsPipe(cl)
        /\ w => ~cl.writeopen /\ (cl.readopen <=> pipe[pi].readopen)
        /\ ~w => ~cl.readopen /\ (cl.writeopen <=> pipe[pi].writeopen)
        /\ (IF w THEN pipe[pi].readopen ELSE pipe[pi].writeopen) =>
              cl.nread = pipe[pi].nread /\ cl.nwrite = pipe[pi].nwrite
    <3>1. pi \in Pipes /\ w \in BOOLEAN /\ IsPipe(pipe[pi])
        BY ZenonT(30), <1>2, <1>8
    <3> QED
        BY ZenonT(30), <2>1, <3>1, PipeCloseFacts
  <2> QED
      BY ZenonT(30), <1>8, <2>1, <2>2
<1>10. PipeType'
    BY ZenonT(30), <1>8, <1>9 DEF PipeType
<1>11. PICK ch : ch = Chan(IF w THEN "nread" ELSE "nwrite", pi)
    BY ZenonT(30)
<1>12. Woken /\ \A q \in Procs : proc'[q].state = "SLEEPING" => q = p \/ proc[q].chan # ch
    BY ZenonT(30), <1>3, <1>11, WokenBy
<1>13. ProcType' /\ OpType' /\ StateInv' /\ FamilyInv'
    BY ZenonT(30), <1>1, <1>3, <1>4, <1>6, <1>7, <1>12, SoftStep
<1>14. LockInv'
    BY ZenonT(30), <1>1, <1>3, <1>4, <1>6, LockSame DEF Holding, OpSet
<1>15. WakeInv'
  <2> SUFFICES ASSUME NEW q \in Procs, NEW x \in Pipes
               PROVE  /\ SleepsOn(q, Chan("nread", x))' =>
                           /\ pipe'[x].writeopen
                           /\ Empty(pipe'[x]) \/ x \in stranded' \/ Unannounced(x)'
                      /\ op'[q].pc = "tosleep" /\ op'[q].chan = Chan("nread", x) => Empty(pipe'[x])
                      /\ SleepsOn(q, Chan("nwrite", x))' => pipe'[x].readopen /\ Full(pipe'[x])
      BY ZenonT(30) DEF WakeInv
  <2>1. \A c : SleepsOn(q, c)' => SleepsOn(q, c) /\ (op[q].pc = "tosleep" \/ c # ch)
      BY ZenonT(30), <1>1, <1>4, <1>6, <1>12 DEF SleepsOn, OpSet, Woken
  <2>2. op'[q].pc = "tosleep" => op'[q] = op[q] /\ q # p
      BY ZenonT(30), <1>4, <1>6 DEF OpSet
  <2>3. Unannounced(x) => Unannounced(x)'
      BY ZenonT(30), <1>1, <1>4 DEF Unannounced, OpSet
  <2>4. CASE x # pi
    <3>1. pipe'[x] = pipe[x] /\ (x \in stranded => x \in stranded')
        BY ZenonT(30), <1>3, <1>8, <2>4
    <3> QED
        BY ZenonT(30), <2>1, <2>2, <2>3, <3>1 DEF WakeInv
  <2>5. CASE x = pi
    <3>1. Has(pi, p)
        BY ZenonT(30), <1>1, <1>5 DEF Has
    <3>2. q # p => (op[q].pc = "tosleep" => op[q].chan \notin {Chan("nread", pi), Chan("nwrite", pi)})
        BY ZenonT(30), <1>2, <3>1, NobodyElse
    <3>3. \A c \in {Chan("nread", pi), Chan("nwrite", pi)} : SleepsOn(q, c)' => SleepsOn(q, c) /\ c # ch
        BY ZenonT(30), <1>1, <1>4, <1>6, <1>12, <3>2 DEF SleepsOn, OpSet, Woken
    <3>4. CASE w
      <4>1. ~SleepsOn(q, Chan("nread", pi))'
          BY ZenonT(30), <1>11, <3>3, <3>4
      <4>2. SleepsOn(q, Chan("nwrite", pi))' => pipe[pi].readopen /\ Full(pipe[pi])
          BY ZenonT(30), <1>2, <3>3 DEF WakeInv
      <4>3. SleepsOn(q, Chan("nwrite", pi))' => pipe'[pi].readopen /\ Full(pipe'[pi])
          BY ZenonT(30), <1>9, <3>4, <4>2 DEF Full
      <4> QED
          BY ZenonT(30), <2>2, <2>5, <3>2, <4>1, <4>3
    <3>5. CASE ~w
      <4>1. ~SleepsOn(q, Chan("nwrite", pi))'
          BY ZenonT(30), <1>11, <3>3, <3>5
      <4>2. SleepsOn(q, Chan("nread", pi))' =>
                pipe[pi].writeopen /\ (Empty(pipe[pi]) \/ pi \in stranded \/ Unannounced(pi))
          BY ZenonT(30), <1>2, <3>3 DEF WakeInv
      <4>3. pipe[pi].writeopen => (Empty(pipe'[pi]) <=> Empty(pipe[pi]))
          BY ZenonT(30), <1>9, <3>5 DEF Empty
      <4>4. pipe[pi].writeopen => stranded' = stranded
          BY ZenonT(30), <1>3, <3>5
      <4>5. SleepsOn(q, Chan("nread", pi))' =>
                pipe'[pi].writeopen /\ (Empty(pipe'[pi]) \/ pi \in stranded' \/ Unannounced(pi)')
          BY ZenonT(30), <1>9, <2>3, <2>5, <3>5, <4>2, <4>3, <4>4
      <4> QED
          BY ZenonT(30), <2>2, <2>5, <3>2, <4>1, <4>5
    <3> QED
        BY ZenonT(30), <3>4, <3>5
  <2> QED
      BY ZenonT(30), <2>4, <2>5
<1>16. RefsExact'
  <2>1. \A q \in Procs : InFlight(q)' = InFlight(q)
    <3>1. InFlight(p)' = InFlight(p)
        BY ZenonT(30), <1>4, <1>5, <1>6 DEF InFlight, OpSet
    <3> QED
        BY ZenonT(90), <1>4, <3>1 DEF InFlight, OpSet
  <2>2. ASSUME NEW f \in FileIds PROVE {q \in Procs : f \in InFlight(q)'} = {q \in Procs : f \in InFlight(q)}
      BY ZenonT(30), <2>1
  <2> QED
      BY <1>3, <2>2, Zenon DEF RefsExact
<1>17. FileInv'
    BY ZenonT(30), <1>3, <1>4, <1>6 DEF FileInv, OpSet
<1>18. ASSUME NEW x \in Pipes, NEW v \in BOOLEAN PROVE EndInv(x, v)'
  <2>1. \A f \in FileIds : Stands(f, x, v)' <=> Stands(f, x, v)
      BY ZenonT(30), <1>3 DEF Stands
  <2>2. \A q \in Procs : Closing(q, x, v)' <=> Closing(q, x, v) /\ q # p
      BY ZenonT(30), <1>4, <1>6 DEF Closing, OpSet
  <2>3. Closing(p, x, v) <=> x = pi /\ v = w
      BY ZenonT(30), <1>5 DEF Closing
  <2>4. EndInv(x, v)
      BY ZenonT(30) DEF EndsInv
  <2>5. CASE x = pi /\ v = w
    <3>1. ~Open(x, v)'
        BY ZenonT(30), <1>9, <2>5 DEF Open
    <3> QED
        BY ZenonT(30), <2>1, <2>2, <2>3, <2>4, <2>5, <3>1 DEF EndInv
  <2>6. CASE ~(x = pi /\ v = w)
    <3>1. Open(x, v)' <=> Open(x, v)
        BY ZenonT(30), <1>2, <1>8, <1>9, <2>6 DEF Open
    <3> QED
        BY ZenonT(30), <2>1, <2>2, <2>3, <2>4, <2>6, <3>1 DEF EndInv
  <2> QED
      BY ZenonT(30), <2>5, <2>6
<1>19. UserInv'
  <2>1. UserOf(p)'
      BY ZenonT(30), <1>4, <1>6 DEF UserOf, Doing, OpSet
  <2>2. ASSUME NEW q \in Procs \ {p} PROVE UserOf(q)'
    <3>1. op'[q] = op[q] /\ ofile' = ofile /\ file' = file /\ UserOf(q)
        BY ZenonT(30), <1>3, <1>4 DEF OpSet, UserInv
    <3> QED
        BY ZenonT(30), <3>1 DEF UserOf, Doing, Keeps
  <2> QED
      BY ZenonT(30), <2>1, <2>2 DEF UserInv
<1> QED
    BY ZenonT(30), <1>3, <1>10, <1>13, <1>14, <1>15, <1>16, <1>17, <1>18, <1>19 DEF TableType, EndsInv

-----------------------------------------------------------------------------
\* The file table.  A file has one reference for each descriptor that names it and for each
\* pipealloc() or sys_pipe() that has it in hand: Holders and Flying.  A call on descriptors
\* moves one element from or to one of these sets.

\* Facts of arithmetic and about pairs and empty entries, for use where sets are at stake.
LEMMA Sums ==
    /\ \A a, b \in Nat : a + b \in Nat
    /\ \A a \in Nat : a + 1 \in Nat /\ a + 1 # 0 /\ a + 0 = a /\ 1 * a = a
    /\ ~(1 > 1) /\ 1 # 0
BY SMTT(30)

LEMMA SumLess == ASSUME NEW a \in Nat, NEW b \in Nat PROVE a + b - 0 = a + b
BY SMTT(30)

JustPair(S, a, b) ==
    /\ S \subseteq Procs \X FDs /\ a \in Procs /\ b \in FDs
    /\ \A q \in Procs, d \in FDs : <<q, d>> \in S <=> q = a /\ d = b
LEMMA OnePair == ASSUME NEW S, NEW a, NEW b, JustPair(S, a, b) PROVE S = {<<a, b>>}
BY SMTT(30) DEF JustPair

LEMMA FileNumbers ==
    /\ \A f \in FileIds : f # 0
    /\ NoFile.ref = 0 /\ NoFile.pipe = 0 /\ NoFile \in FileRec
BY SMTT(30) DEF FileIds, NoFile, FileRec

LEMMA FileFields ==
    ASSUME NEW n, NEW x, NEW w, NEW r, r = [ref |-> n, pipe |-> x, writable |-> w]
    PROVE  /\ r.ref = n /\ r.pipe = x /\ r.writable = w
           /\ n \in Nat /\ x \in Pipes \cup {0} /\ w \in BOOLEAN => r \in FileRec
BY ZenonT(30) DEF FileRec

\* Who refers to a file: descriptors, and pipealloc() or sys_pipe() under way.
Holders(f) == {x \in Procs \X FDs : ofile[x[1]][x[2]] = f}
Flying(f) == {p \in Procs : f \in InFlight(p)}

LEMMA Counted ==
    ASSUME RefsExact, NEW f \in FileIds
    PROVE  /\ file[f].ref = Cardinality(Holders(f)) + Cardinality(Flying(f))
           /\ IsFiniteSet(Holders(f)) /\ Cardinality(Holders(f)) \in Nat
           /\ IsFiniteSet(Flying(f)) /\ Cardinality(Flying(f)) \in Nat
<1>1. IsFiniteSet(Procs) /\ IsFiniteSet(FDs)
    BY SMTT(30), ProcAssumption, FilesAssumption, FS_Interval DEF Procs, FDs
<1>2. IsFiniteSet(Procs \X FDs)
    BY <1>1, FS_Product, ZenonT(30)
<1>3. IsFiniteSet(Holders(f)) /\ IsFiniteSet(Flying(f))
    BY ZenonT(30), <1>1, <1>2, FS_Subset DEF Holders, Flying
<1>4. Cardinality(Holders(f)) \in Nat /\ Cardinality(Flying(f)) \in Nat
    BY ZenonT(30), <1>3, FS_CardinalityType
<1>5. file[f].ref = Cardinality(Holders(f)) + Cardinality(Flying(f))
    BY Zenon DEF RefsExact, Holders, Flying
<1> QED
    BY ZenonT(30), <1>3, <1>4, <1>5

\* A file without references is named by nobody.
Unreferenced ==
    RefsExact => \A f \in FileIds : file[f].ref = 0 =>
        /\ \A q \in Procs, fd \in FDs : ofile[q][fd] # f
        /\ \A q \in Procs : f \notin InFlight(q)

LEMMA NoHolders == Unreferenced
<1> SUFFICES ASSUME RefsExact, NEW f \in FileIds, file[f].ref = 0
             PROVE  /\ \A q \in Procs, fd \in FDs : ofile[q][fd] # f
                    /\ \A q \in Procs : f \notin InFlight(q)
    BY ZenonT(30) DEF Unreferenced
<1>1. Cardinality(Holders(f)) = 0 /\ Cardinality(Flying(f)) = 0
    BY SMTT(30), Counted
<1>2. Holders(f) = {} /\ Flying(f) = {}
    BY ZenonT(30), <1>1, Counted, FS_EmptySet
<1>3. ASSUME NEW q \in Procs, NEW fd \in FDs, ofile[q][fd] = f PROVE FALSE
  <2>1. <<q, fd>> \in Holders(f)
      BY ZenonT(30), <1>3 DEF Holders
  <2> QED
      BY ZenonT(30), <1>2, <2>1
<1> QED
    BY ZenonT(30), <1>2, <1>3 DEF Flying

\* A file with one reference, which pipealloc() has, is named by nobody else.
LEMMA OneHolder ==
    ASSUME RefsExact, NEW p \in Procs, NEW f \in FileIds, f \in InFlight(p), file[f].ref = 1
    PROVE  /\ \A q \in Procs, fd \in FDs : ofile[q][fd] # f
           /\ \A q \in Procs \ {p} : f \notin InFlight(q)
<1>1. p \in Flying(f)
    BY ZenonT(30) DEF Flying
<1>2. Cardinality(Flying(f)) = Cardinality(Flying(f) \ {p}) + 1
      /\ IsFiniteSet(Flying(f) \ {p}) /\ Cardinality(Flying(f) \ {p}) \in Nat
  <2>1. IsFiniteSet(Flying(f))
      BY ZenonT(30), Counted
  <2>2. IsFiniteSet(Flying(f) \ {p}) /\ Cardinality(Flying(f) \ {p}) = Cardinality(Flying(f)) - 1
      BY ZenonT(30), <1>1, <2>1, FS_RemoveElement
  <2> QED
      BY SMTT(30), <2>2, FS_CardinalityType, Counted
<1>3. Cardinality(Holders(f)) = 0 /\ Cardinality(Flying(f) \ {p}) = 0
    BY SMTT(30), <1>2, Counted
<1>4. Holders(f) = {} /\ Flying(f) \ {p} = {}
    BY ZenonT(30), <1>2, <1>3, Counted, FS_EmptySet
<1>5. ASSUME NEW q \in Procs, NEW fd \in FDs, ofile[q][fd] = f PROVE FALSE
  <2>1. <<q, fd>> \in Holders(f)
      BY ZenonT(30), <1>5 DEF Holders
  <2> QED
      BY ZenonT(30), <1>4, <2>1
<1> QED
    BY ZenonT(30), <1>4, <1>5 DEF Flying

\* What p has in hand once it is at o.
Hand(o) == CASE o.pc = "pipealloc" -> {o.f0}
             [] o.pc = "pipebad" -> {o.f0, o.f1}
             [] o.pc = "pipebad1" -> {o.f1}
             [] OTHER -> {}

LEMMA HandMoves ==
    ASSUME NEW p \in Procs, NEW o, OpSet(p, o), NEW t, t = IF o.pc = "pipeclose" THEN o.then ELSE o
    PROVE  /\ InFlight(p)' = Hand(t)
           /\ \A q \in Procs \ {p} : InFlight(q)' = InFlight(q)
           /\ op[p].pc # "pipeclose" => InFlight(p) = Hand(op[p])
<1>1. InFlight(p)' = Hand(t)
    BY ZenonT(30) DEF InFlight, Hand, OpSet
<1>2. \A q \in Procs \ {p} : InFlight(q)' = InFlight(q)
    BY ZenonT(30) DEF InFlight, OpSet
<1>3. op[p].pc # "pipeclose" => InFlight(p) = Hand(op[p])
    BY ZenonT(30) DEF InFlight, Hand
<1> QED
    BY ZenonT(30), <1>1, <1>2, <1>3

\* The references of a file after an element left or entered one of the two sets.
Same(f) == Holders(f)' = Holders(f) /\ Flying(f)' = Flying(f)
Drops(f) ==
    \/ \E x \in Holders(f) : Holders(f)' = Holders(f) \ {x} /\ Flying(f)' = Flying(f)
    \/ \E x \in Flying(f) : Holders(f)' = Holders(f) /\ Flying(f)' = Flying(f) \ {x}
Gains(f) ==
    \/ \E x : x \notin Holders(f) /\ Holders(f)' = Holders(f) \cup {x} /\ Flying(f)' = Flying(f)
    \/ \E x : x \notin Flying(f) /\ Holders(f)' = Holders(f) /\ Flying(f)' = Flying(f) \cup {x}
Refs(f) == Cardinality(Holders(f)) + Cardinality(Flying(f))

LEMMA RefsMove ==
    ASSUME RefsExact, NEW f \in FileIds
    PROVE  /\ file[f].ref = Refs(f) /\ Refs(f) \in Nat
           /\ Same(f) => Refs(f)' = Refs(f)
           /\ Drops(f) => Refs(f)' = Refs(f) - 1 /\ Refs(f) >= 1
           /\ Gains(f) => Refs(f)' = Refs(f) + 1
<1> DEFINE H == Holders(f)
           L == Flying(f)
<1>1. /\ file[f].ref = Cardinality(H) + Cardinality(L)
      /\ IsFiniteSet(H) /\ Cardinality(H) \in Nat /\ IsFiniteSet(L) /\ Cardinality(L) \in Nat
    BY ZenonT(30), Counted
<1>2. ASSUME NEW S, IsFiniteSet(S), NEW x \in S PROVE Cardinality(S \ {x}) = Cardinality(S) - 1
    BY ZenonT(30), <1>2, FS_RemoveElement
<1>e. ASSUME NEW S, IsFiniteSet(S), NEW x \in S PROVE Cardinality(S) # 0
    BY ZenonT(30), <1>e, FS_EmptySet
<1>3. ASSUME NEW S, IsFiniteSet(S), NEW x, x \notin S PROVE Cardinality(S \cup {x}) = Cardinality(S) + 1
    BY <1>3, FS_AddElement, ZenonT(30)
<1>4. Refs(f)' = Cardinality(H') + Cardinality(L')
    BY ZenonT(30) DEF Refs
<1>5. ASSUME Drops(f) PROVE Refs(f)' = Refs(f) - 1 /\ Refs(f) >= 1
  <2>1. CASE \E x \in H : H' = H \ {x} /\ L' = L
    <3>1. PICK x \in H : H' = H \ {x} /\ L' = L
        BY ZenonT(30), <2>1
    <3>2. Cardinality(H') = Cardinality(H) - 1 /\ Cardinality(L') = Cardinality(L)
          /\ Cardinality(H) # 0
        BY ZenonT(30), <1>1, <1>2, <1>e, <3>1
    <3> QED
        BY SMTT(30), <1>1, <1>4, <3>2 DEF Refs
  <2>2. CASE \E x \in L : H' = H /\ L' = L \ {x}
    <3>1. PICK x \in L : H' = H /\ L' = L \ {x}
        BY ZenonT(30), <2>2
    <3>2. Cardinality(L') = Cardinality(L) - 1 /\ Cardinality(H') = Cardinality(H)
          /\ Cardinality(L) # 0
        BY ZenonT(30), <1>1, <1>2, <1>e, <3>1
    <3> QED
        BY SMTT(30), <1>1, <1>4, <3>2 DEF Refs
  <2> QED
      BY ZenonT(30), <1>5, <2>1, <2>2 DEF Drops
<1>6. ASSUME Gains(f) PROVE Refs(f)' = Refs(f) + 1
  <2>1. CASE \E x : x \notin H /\ H' = H \cup {x} /\ L' = L
    <3>1. PICK x : x \notin H /\ H' = H \cup {x} /\ L' = L
        BY ZenonT(30), <2>1
    <3>2. Cardinality(H') = Cardinality(H) + 1 /\ Cardinality(L') = Cardinality(L)
        BY ZenonT(30), <1>1, <1>3, <3>1
    <3> QED
        BY SMTT(30), <1>1, <1>4, <3>2 DEF Refs
  <2>2. CASE \E x : x \notin L /\ H' = H /\ L' = L \cup {x}
    <3>1. PICK x : x \notin L /\ H' = H /\ L' = L \cup {x}
        BY ZenonT(30), <2>2
    <3>2. Cardinality(L') = Cardinality(L) + 1 /\ Cardinality(H') = Cardinality(H)
        BY ZenonT(30), <1>1, <1>3, <3>1
    <3> QED
        BY SMTT(30), <1>1, <1>4, <3>2 DEF Refs
  <2> QED
      BY ZenonT(30), <1>6, <2>1, <2>2 DEF Gains
<1>7. Same(f) => Refs(f)' = Refs(f)
    BY ZenonT(30) DEF Same, Refs
<1> QED
    BY SMTT(30), <1>1, <1>5, <1>6, <1>7 DEF Refs

LEMMA RefsHold == ASSUME \A f \in FileIds : file'[f].ref = Refs(f)' PROVE RefsExact'
BY ZenonT(30) DEF RefsExact, Refs, Holders, Flying

\* A descriptor of p that is closed or opened: the assignment, and what it does.
Assigns(p, fd, g) == ofile' = [ofile EXCEPT ![p][fd] = g]
Assigned(p, fd, g) ==
    /\ ofile' \in [Procs -> [FDs -> FileIds \cup {0}]]
    /\ ofile'[p][fd] = g /\ \A d \in FDs \ {fd} : ofile'[p][d] = ofile[p][d]
    /\ \A q \in Procs \ {p} : ofile'[q] = ofile[q]
    /\ \A f \in FileIds :
          /\ f # g => Holders(f)' = Holders(f) \ {<<p, fd>>}
          /\ f = g => Holders(f)' = Holders(f) \cup {<<p, fd>>}

LEMMA HoldersMove ==
    ASSUME TableType, NEW p \in Procs, NEW fd \in FDs, NEW g \in FileIds \cup {0}, Assigns(p, fd, g)
    PROVE  Assigned(p, fd, g)
<1>1. ofile' \in [Procs -> [FDs -> FileIds \cup {0}]]
    BY ZenonT(30) DEF TableType, Assigns
<1>2. /\ ofile'[p][fd] = g /\ \A d \in FDs \ {fd} : ofile'[p][d] = ofile[p][d]
      /\ \A q \in Procs \ {p} : ofile'[q] = ofile[q]
    BY ZenonT(30) DEF TableType, Assigns
<1>3. ASSUME NEW q \in Procs, NEW d \in FDs
      PROVE  ofile'[q][d] = IF q = p /\ d = fd THEN g ELSE ofile[q][d]
    BY ZenonT(30), <1>2
<1>4. ASSUME NEW f \in FileIds, NEW x \in Procs \X FDs
      PROVE  x \in Holders(f)' <=> (IF x = <<p, fd>> THEN f = g ELSE x \in Holders(f))
  <2>1. PICK q \in Procs, d \in FDs : x = <<q, d>>
      BY SMTT(30)
  <2>2. x[1] = q /\ x[2] = d /\ (x = <<p, fd>> <=> q = p /\ d = fd)
      BY ZenonT(30), <2>1
  <2>3. x \in Holders(f)' <=> ofile'[q][d] = f
      BY ZenonT(30), <2>2 DEF Holders
  <2>4. x \in Holders(f) <=> ofile[q][d] = f
      BY ZenonT(30), <2>2 DEF Holders
  <2> QED
      BY ZenonT(30), <1>3, <2>2, <2>3, <2>4
<1>5. \A f \in FileIds : Holders(f) \subseteq Procs \X FDs /\ Holders(f)' \subseteq Procs \X FDs
    BY ZenonT(30) DEF Holders
<1>6. <<p, fd>> \in Procs \X FDs
    BY ZenonT(30)
<1>7. ASSUME NEW f \in FileIds
      PROVE  /\ f # g => Holders(f)' = Holders(f) \ {<<p, fd>>}
             /\ f = g => Holders(f)' = Holders(f) \cup {<<p, fd>>}
    BY ZenonT(30), <1>4, <1>5, <1>6
<1> QED
    BY ZenonT(30), <1>1, <1>2, <1>7 DEF Assigned

-----------------------------------------------------------------------------
\* A call on descriptors is no concern of the process table or of who sleeps: it may
\* open a pipe, and closes none.
CallPcs == FilePcs \cup {"user", "exit"}

LEMMA CallStep ==
    ASSUME FilesInv, NEW p \in Procs \ {init}, NEW o, OpSet(p, o), IsOp(p, o),
           proc[p].state = "RUNNABLE", op[p].pc \in CallPcs, o.pc \in CallPcs,
           UNCHANGED <<proc, lock, stranded>>, \A q \in Procs \ {p} : ofile'[q] = ofile[q],
           \A x \in Pipes : /\ pipe'[x].nread = pipe[x].nread /\ pipe'[x].nwrite = pipe[x].nwrite
                            /\ pipe[x].readopen => pipe'[x].readopen
                            /\ pipe[x].writeopen => pipe'[x].writeopen
    PROVE  ProcType' /\ OpType' /\ StateInv' /\ FamilyInv' /\ LockInv' /\ WakeInv'
<1> USE DEF FilesInv, Types
<1>1. /\ op[p].pc \notin {"tosleep", "asleep", "fork", "wait", "read", "write"}
      /\ o.pc \notin {"tosleep", "asleep", "fork", "wait", "read", "write"}
    BY ZenonT(30) DEF CallPcs, FilePcs
<1>2. Woken
    BY ZenonT(30) DEF Woken, ProcType
<1>3. ProcType' /\ OpType' /\ StateInv' /\ FamilyInv'
    BY ZenonT(30), <1>1, <1>2, SoftStep
<1>4. LockInv'
    BY ZenonT(30), <1>1, LockSame DEF Holding, OpSet
<1>5. \A q \in Procs : /\ \A ch : SleepsOn(q, ch)' => SleepsOn(q, ch)
                       /\ op'[q].pc = "tosleep" => op'[q] = op[q]
    BY ZenonT(30), <1>1 DEF SleepsOn, OpSet
<1>6. \A x \in Pipes : /\ Empty(pipe'[x]) <=> Empty(pipe[x])
                       /\ Full(pipe'[x]) <=> Full(pipe[x])
                       /\ Unannounced(x) => Unannounced(x)'
    BY ZenonT(30), <1>1 DEF Empty, Full, Unannounced, OpSet
<1>7. WakeInv'
    BY ZenonT(90), <1>5, <1>6 DEF WakeInv
<1> QED
    BY ZenonT(30), <1>3, <1>4, <1>7

\* fileclose() of a file that loses one holder.
LEMMA FileClosed ==
    ASSUME FilesInv, NEW p \in Procs \ {init}, NEW f \in FileIds, NEW to,
           proc[p].state = "RUNNABLE", op[p].pc \in CallPcs \ {"pipeclose"},
           to \in {User, Exiting} \/ (to.pc = "pipebad1" /\ to.f1 \in FileIds),
           fileclose(p, f, to), UNCHANGED <<proc, lock, pipe, stranded>>,
           ofile' \in [Procs -> [FDs -> FileIds \cup {0}]],
           \A q \in Procs \ {p} : ofile'[q] = ofile[q],
           \A d \in FDs : ofile'[p][d] \in {ofile[p][d], 0},
           Drops(f), \A g \in FileIds \ {f} : Same(g)
    PROVE  FilesInv'
<1> USE DEF FilesInv, Types
<1> DEFINE last == ~(file[f].ref > 1 \/ file[f].pipe = 0)
           c == [pc |-> "pipeclose", pipe |-> file[f].pipe, writable |-> file[f].writable, then |-> to]
           o == IF last THEN c ELSE to
<1>0. /\ file[f] \in FileRec /\ file[f].ref \in Nat /\ file[f].pipe \in Pipes \cup {0}
      /\ file[f].writable \in BOOLEAN /\ DOMAIN file = FileIds
    BY ZenonT(30) DEF TableType, FileRec
<1>1. OpSet(p, o)
    BY ZenonT(30), OpMoves DEF fileclose, Then
<1>2. /\ DOMAIN file' = FileIds /\ \A g \in FileIds \ {f} : file'[g] = file[g]
      /\ file'[f] = IF file[f].ref > 1 THEN [file[f] EXCEPT !.ref = file[f].ref - 1] ELSE NoFile
    BY ZenonT(30), <1>0 DEF fileclose
<1>3. file[f].ref >= 1 /\ \A g \in FileIds : file'[g].ref = Refs(g)'
  <2>1. file[f].ref = Refs(f) /\ Refs(f) \in Nat /\ Refs(f)' = Refs(f) - 1 /\ Refs(f) >= 1
      BY ZenonT(30), RefsMove
  <2>2. file'[f].ref = file[f].ref - 1
    <3>1. CASE file[f].ref > 1
        BY ZenonT(30), <1>0, <1>2, <3>1 DEF FileRec
    <3>2. CASE ~(file[f].ref > 1)
        BY SMTT(30), <1>0, <1>2, <2>1, <3>2 DEF NoFile
    <3> QED
        BY ZenonT(30), <3>1, <3>2
  <2>3. ASSUME NEW g \in FileIds \ {f} PROVE file'[g].ref = Refs(g)'
      BY ZenonT(30), <1>2, RefsMove
  <2> QED
      BY ZenonT(30), <2>1, <2>2, <2>3
<1>4. RefsExact'
    BY ZenonT(30), <1>3, RefsHold
<1>5. to.pc \in {"user", "exit", "pipebad1"} /\ (to.pc = "pipebad1" => to.f1 \in FileIds)
    BY SMTT(30) DEF User, Exiting
<1>6. last => /\ file[f].ref = 1 /\ file'[f] = NoFile /\ file[f].pipe \in Pipes
              /\ o.pc = "pipeclose" /\ o.pipe = file[f].pipe /\ o.writable = file[f].writable
              /\ o.then = to
    BY SMTT(30), <1>0, <1>2, <1>3
<1>7. ~last => o = to
    BY ZenonT(30)
<1> HIDE DEF o, c
<1>8. IsOp(p, o) /\ o.pc \in CallPcs \ {"pipealloc"}
  <2>1. CASE last
    <3>1. to \in {User, Exiting} \/ (to.pc = "pipebad1" /\ to.f1 \in FileIds)
        BY ZenonT(30)
    <3> HIDE DEF last
    <3> QED
        BY ZenonT(30), <1>0, <1>6, <2>1, <3>1 DEF IsOp, Pcs, CallPcs, FilePcs
  <2>2. CASE ~last
      BY ZenonT(30), <1>5, <1>7, <2>2 DEF IsOp, Pcs, CallPcs, FilePcs
  <2> QED
      BY ZenonT(30), <2>1, <2>2
<1>9. ProcType' /\ OpType' /\ StateInv' /\ FamilyInv' /\ LockInv' /\ WakeInv'
    BY ZenonT(30), <1>1, <1>8, CallStep
<1>10. /\ file'[f] \in FileRec /\ (file'[f].ref = 0 => file'[f] = NoFile)
       /\ ~last => /\ file'[f].pipe = file[f].pipe
                   /\ file[f].pipe # 0 => file'[f].writable = file[f].writable
  <2>1. CASE file[f].ref > 1
    <3>1. file[f] = [ref |-> file[f].ref, pipe |-> file[f].pipe, writable |-> file[f].writable]
        BY ZenonT(30), <1>0 DEF FileRec
    <3>2. file'[f] = [ref |-> file[f].ref - 1, pipe |-> file[f].pipe, writable |-> file[f].writable]
        BY ZenonT(30), <1>2, <2>1, <3>1
    <3> QED
        BY SMTT(30), <1>0, <2>1, <3>2 DEF FileRec
  <2>2. CASE ~(file[f].ref > 1)
    <3>1. file'[f] = NoFile
        BY ZenonT(30), <1>2, <2>2
    <3> QED
      <4>1. NoFile \in FileRec /\ NoFile.pipe = 0
          BY ZenonT(30) DEF FileRec, NoFile
      <4>2. ~last => file[f].pipe = 0
          BY ZenonT(30), <2>2
      <4> QED
          BY ZenonT(30), <3>1, <4>1, <4>2
  <2> QED
      BY ZenonT(30), <2>1, <2>2
<1>11. TableType'
    BY ZenonT(30), <1>2, <1>10 DEF TableType, fileclose
<1>12. last => /\ \A q \in Procs, d \in FDs : ofile'[q][d] # f
               /\ \A q \in Procs : f \notin InFlight(q)'
  <2>1. Unreferenced'
      BY NoHolders, PTL
  <2> QED
      BY SMTT(30), <1>4, <1>6, <2>1 DEF Unreferenced, NoFile
<1> HIDE DEF last
<1>13. \A q \in Procs, d \in FDs : ofile'[q][d] # 0 =>
           /\ ofile'[q][d] = ofile[q][d] /\ ofile[q][d] \in FileIds
           /\ file'[ofile[q][d]].pipe = file[ofile[q][d]].pipe
  <2> SUFFICES ASSUME NEW q \in Procs, NEW d \in FDs, ofile'[q][d] # 0
               PROVE  /\ ofile'[q][d] = ofile[q][d] /\ ofile[q][d] \in FileIds
                      /\ file'[ofile[q][d]].pipe = file[ofile[q][d]].pipe
      BY ZenonT(30)
  <2>1. ofile'[q][d] = ofile[q][d] /\ ofile[q][d] \in FileIds
      BY SMTT(30) DEF TableType
  <2>2. CASE ofile[q][d] = f
    <3>1. ~last
        BY ZenonT(30), <1>12, <2>1, <2>2
    <3> QED
        BY ZenonT(30), <1>10, <2>1, <2>2, <3>1
  <2>3. CASE ofile[q][d] # f
      BY ZenonT(30), <1>2, <2>1, <2>3
  <2> QED
      BY ZenonT(30), <2>1, <2>2, <2>3
<1>14. FileInv'
  <2>1. \A g \in FileIds : file'[g].ref = 0 => file'[g] = NoFile
      BY ZenonT(30), <1>2, <1>10 DEF FileInv
  <2>2. \A q \in Procs, d \in FDs : ofile'[q][d] # 0 => file'[ofile'[q][d]].pipe # 0
      BY SMTT(30), <1>13 DEF FileInv
  <2>3. ASSUME NEW q \in Procs, op'[q].pc = "pipealloc"
        PROVE  file'[op'[q].f0].pipe = 0 /\ file'[op'[q].f0].ref = 1
    <3>1. q # p /\ op'[q] = op[q]
        BY ZenonT(30), <1>1, <1>8, <2>3 DEF OpSet
    <3>2. file[op[q].f0].pipe = 0 /\ file[op[q].f0].ref = 1 /\ op[q].f0 \in FileIds
        BY ZenonT(30), <2>3, <3>1 DEF FileInv, OpType, IsOp
    <3>3. op[q].f0 # f
      <4>1. SUFFICES ASSUME op[q].f0 = f PROVE FALSE
          BY ZenonT(30)
      <4>2. f \in InFlight(q)' /\ file'[f].ref = 0
        <5>1. file'[f] = NoFile
            BY ZenonT(30), <1>2, <3>2, <4>1, Sums
        <5>2. op'[q].pc = "pipealloc" /\ op'[q].f0 = f
            BY ZenonT(30), <2>3, <3>1, <4>1
        <5> QED
            BY ZenonT(30), <5>1, <5>2, FileNumbers DEF InFlight
      <4>3. Unreferenced'
          BY NoHolders, PTL
      <4> QED
          BY ZenonT(30), <1>4, <4>2, <4>3 DEF Unreferenced
    <3> QED
        BY ZenonT(30), <1>2, <3>1, <3>2, <3>3
  <2> QED
      BY ZenonT(30), <2>1, <2>2, <2>3 DEF FileInv
<1>15. ASSUME NEW x \in Pipes, NEW v \in BOOLEAN PROVE EndInv(x, v)'
  <2>0. x # 0 /\ EndInv(x, v) /\ (Open(x, v)' <=> Open(x, v))
      BY SMTT(30) DEF Pipes, EndsInv, Open
  <2>1. \A g \in FileIds \ {f} : Stands(g, x, v)' <=> Stands(g, x, v)
      BY ZenonT(30), <1>2 DEF Stands
  <2>2. \A q \in Procs \ {p} : Closing(q, x, v)' <=> Closing(q, x, v)
      BY ZenonT(30), <1>1 DEF Closing, OpSet
  <2>3. ~Closing(p, x, v)
      BY ZenonT(30) DEF Closing
  <2>4. CASE last
    <3>1. ~Stands(f, x, v)'
        BY ZenonT(30), <1>6, <2>0, <2>4, FileNumbers DEF Stands
    <3>2. Closing(p, x, v)' <=> Stands(f, x, v)
        BY ZenonT(30), <1>1, <1>6, <2>4 DEF Closing, Stands, OpSet
    <3> QED
        BY ZenonT(30), <2>0, <2>1, <2>2, <2>3, <3>1, <3>2 DEF EndInv
  <2>5. CASE ~last
    <3>1. Stands(f, x, v)' <=> Stands(f, x, v)
        BY ZenonT(30), <1>10, <2>0, <2>5 DEF Stands
    <3>2. ~Closing(p, x, v)'
        BY ZenonT(30), <1>1, <1>5, <1>7, <2>5 DEF Closing, OpSet
    <3> QED
        BY ZenonT(30), <2>0, <2>1, <2>2, <2>3, <3>1, <3>2 DEF EndInv
  <2> QED
      BY ZenonT(30), <2>4, <2>5
<1>16. UserInv'
  <2>1. UserOf(p)'
      BY ZenonT(30), <1>1, <1>8 DEF UserOf, Doing, OpSet, CallPcs, FilePcs
  <2>2. ASSUME NEW q \in Procs \ {p} PROVE UserOf(q)'
    <3>1. UserOf(q) /\ Doing(q)' = Doing(q) /\ ofile'[q] = ofile[q]
        BY ZenonT(30), <1>1 DEF UserInv, Doing, OpSet
    <3>2. \A x : Keeps(q, x) => Keeps(q, x)'
        BY SMTT(30), <1>13, <3>1 DEF Keeps
    <3> QED
        BY ZenonT(30), <3>1, <3>2 DEF UserOf
  <2> QED
      BY ZenonT(30), <2>1, <2>2 DEF UserInv
<1> QED
    BY ZenonT(30), <1>4, <1>9, <1>11, <1>14, <1>15, <1>16 DEF PipeType, EndsInv

\* After fileclose() p has in hand what it goes on with.
LEMMA CloseHand ==
    ASSUME OpType, NEW p \in Procs, NEW f, NEW to, to.pc # "pipeclose", fileclose(p, f, to),
           op[p].pc # "pipeclose"
    PROVE  /\ InFlight(p)' = Hand(to) /\ InFlight(p) = Hand(op[p])
           /\ \A q \in Procs \ {p} : InFlight(q)' = InFlight(q)
<1> DEFINE c == [pc |-> "pipeclose", pipe |-> file[f].pipe, writable |-> file[f].writable, then |-> to]
           o == IF file[f].ref > 1 \/ file[f].pipe = 0 THEN to ELSE c
<1>1. OpSet(p, o)
    BY ZenonT(30), OpMoves DEF fileclose, Then
<1>2. to = IF o.pc = "pipeclose" THEN o.then ELSE o
    BY ZenonT(30)
<1> HIDE DEF o
<1> QED
    BY SMTT(30), <1>1, <1>2, HandMoves

\* A descriptor is closed.
LEMMA CloseDescriptor ==
    ASSUME FilesInv, NEW p \in Procs \ {init}, NEW fd \in FDs, NEW to \in {User, Exiting},
           proc[p].state = "RUNNABLE", op[p].pc \in {"user", "exit"}, ofile[p][fd] # 0,
           ofile' = [ofile EXCEPT ![p][fd] = 0], fileclose(p, ofile[p][fd], to),
           UNCHANGED <<proc, lock, pipe, stranded>>
    PROVE  FilesInv'
<1> USE DEF FilesInv, Types
<1>1. PICK f \in FileIds : f = ofile[p][fd]
    BY ZenonT(30) DEF TableType
<1>2. to.pc \in {"user", "exit"}
    BY SMTT(30) DEF User, Exiting
<1>3. /\ ofile' \in [Procs -> [FDs -> FileIds \cup {0}]]
      /\ ofile'[p][fd] = 0 /\ \A d \in FDs \ {fd} : ofile'[p][d] = ofile[p][d]
      /\ \A q \in Procs \ {p} : ofile'[q] = ofile[q]
      /\ \A g \in FileIds : Holders(g)' = Holders(g) \ {<<p, fd>>}
  <2>1. 0 \in FileIds \cup {0} /\ \A g \in FileIds : g # 0
      BY SMTT(30) DEF FileIds
  <2>2. Assigns(p, fd, 0)
      BY ZenonT(30) DEF Assigns
  <2>3. Assigned(p, fd, 0)
      BY ZenonT(30), <2>1, <2>2, HoldersMove
  <2> QED
      BY ZenonT(30), <2>1, <2>3 DEF Assigned
<1>4. \A q \in Procs : InFlight(q)' = InFlight(q)
    BY ZenonT(30), <1>1, <1>2, CloseHand DEF Hand
<1>5. \A g \in FileIds : Flying(g)' = Flying(g)
    BY ZenonT(30), <1>4 DEF Flying
<1>6. \A g \in FileIds : <<p, fd>> \in Holders(g) <=> g = f
    BY ZenonT(30), <1>1 DEF Holders
<1>7. Drops(f) /\ \A g \in FileIds \ {f} : Same(g)
  <2>1. Drops(f)
      BY ZenonT(30), <1>3, <1>5, <1>6 DEF Drops
  <2>2. ASSUME NEW g \in FileIds \ {f} PROVE Same(g)
    <3>1. Holders(g) \ {<<p, fd>>} = Holders(g)
        BY ZenonT(30), <1>6
    <3> QED
        BY ZenonT(30), <1>3, <1>5, <3>1 DEF Same
  <2> QED
      BY ZenonT(30), <2>1, <2>2
<1>8. \A d \in FDs : ofile'[p][d] \in {ofile[p][d], 0}
    BY ZenonT(30), <1>3
<1>9. op[p].pc \in CallPcs \ {"pipeclose"}
    BY ZenonT(30) DEF CallPcs
<1> QED
    BY ZenonT(30), <1>1, <1>3, <1>7, <1>8, <1>9, FileClosed

LEMMA SysCloseInv == ASSUME FilesInv, NEW p \in Procs \ {init}, NEW fd \in FDs, SysClose(p, fd) PROVE FilesInv'
BY ZenonT(30), CloseDescriptor DEF SysClose, Calls

\* exit() closes a descriptor, or ends.
LEMMA ExitInv == ASSUME FilesInv, NEW p \in Procs, Exit(p) PROVE FilesInv'
<1> DEFINE open == FDs \ FreeFds(p)
<1>1. proc[p].state = "RUNNABLE" /\ op[p].pc = "exit" /\ p # init
    BY ZenonT(30) DEF Exit, At, FilesInv, StateInv, InitInv
<1>2. CASE open = {} /\ ExitZombie(p) /\ UNCHANGED fvars
  <2>1. \A fd \in FDs : ofile[p][fd] = 0
      BY ZenonT(30), <1>2 DEF FreeFds
  <2> QED
      BY ZenonT(30), <1>2, <2>1, ExitZombieInv
<1>3. CASE /\ open # {} /\ ofile' = [ofile EXCEPT ![p][First(open)] = 0]
           /\ fileclose(p, ofile[p][First(open)], Exiting)
           /\ UNCHANGED <<proc, lock, pipe, stranded>>
  <2>1. open \in SUBSET Nat
      BY SMTT(30) DEF FDs
  <2>2. First(open) \in open
      BY ZenonT(30), <1>3, <2>1, LeastExists
  <2>3. First(open) \in FDs /\ ofile[p][First(open)] # 0
      BY ZenonT(30), <2>2 DEF FreeFds
  <2> HIDE DEF open
  <2> QED
      BY ZenonT(30), <1>1, <1>3, <2>3, CloseDescriptor
<1> QED
    BY ZenonT(30), <1>2, <1>3 DEF Exit, fvars, Exiting

\* What pipealloc() and sys_pipe() have in hand is closed when they fail.
LEMMA CloseInHand ==
    ASSUME FilesInv, NEW p \in Procs \ {init}, NEW f \in FileIds, NEW to,
           proc[p].state = "RUNNABLE", op[p].pc \in {"pipealloc", "pipebad", "pipebad1"},
           to \in {User, Exiting} \/ (to.pc = "pipebad1" /\ to.f1 \in FileIds),
           fileclose(p, f, to), UNCHANGED <<proc, lock, ofile, pipe, stranded>>,
           f \in Hand(op[p]), Hand(to) = Hand(op[p]) \ {f}
    PROVE  FilesInv'
<1> USE DEF FilesInv, Types
<1>1. to.pc # "pipeclose" /\ op[p].pc # "pipeclose"
    BY SMTT(30) DEF User, Exiting
<1>2. /\ InFlight(p)' = Hand(to) /\ InFlight(p) = Hand(op[p])
      /\ \A q \in Procs \ {p} : InFlight(q)' = InFlight(q)
    BY ZenonT(30), <1>1, CloseHand
<1>3. \A g \in FileIds : Holders(g)' = Holders(g)
    BY ZenonT(30) DEF Holders
<1>4. p \in Flying(f) /\ Flying(f)' = Flying(f) \ {p} /\ \A g \in FileIds \ {f} : Flying(g)' = Flying(g)
    BY ZenonT(30), <1>2 DEF Flying
<1>5. Drops(f) /\ \A g \in FileIds \ {f} : Same(g)
    BY ZenonT(30), <1>3, <1>4 DEF Drops, Same
<1>6. op[p].pc \in CallPcs \ {"pipeclose"}
    BY ZenonT(30) DEF CallPcs, FilePcs
<1>7. ofile' \in [Procs -> [FDs -> FileIds \cup {0}]]
    BY ZenonT(30) DEF TableType
<1> QED
    BY ZenonT(30), <1>5, <1>6, <1>7, FileClosed

LEMMA PipeBadInv == ASSUME FilesInv, NEW p \in Procs, PipeBad(p) PROVE FilesInv'
<1>1. /\ proc[p].state = "RUNNABLE" /\ op[p].pc \in {"pipebad", "pipebad1"} /\ p # init
      /\ UNCHANGED <<proc, lock, ofile, pipe, stranded>> /\ IsOp(p, op[p])
    BY ZenonT(30) DEF PipeBad, At, FilesInv, Types, StateInv, InitInv, OpType
<1>2. CASE op[p].pc = "pipebad"
  <2> DEFINE to == [pc |-> "pipebad1", f1 |-> op[p].f1]
             f == op[p].f0
  <2>1. fileclose(p, f, to)
      BY ZenonT(30), <1>2 DEF PipeBad, At
  <2>2. f \in FileIds /\ op[p].f1 \in FileIds /\ f # op[p].f1
      BY ZenonT(30), <1>1, <1>2 DEF IsOp
  <2>3. to.pc = "pipebad1" /\ to.f1 = op[p].f1
      BY ZenonT(30)
  <2>4. f \in Hand(op[p]) /\ Hand(to) = Hand(op[p]) \ {f}
      BY ZenonT(30), <1>2, <2>2, <2>3 DEF Hand
  <2> HIDE DEF to, f
  <2> QED
      BY ZenonT(30), <1>1, <2>1, <2>2, <2>3, <2>4, CloseInHand
<1>3. CASE op[p].pc = "pipebad1"
  <2> DEFINE f == op[p].f1
  <2>1. fileclose(p, f, User)
      BY ZenonT(30), <1>3 DEF PipeBad, At
  <2>2. f \in FileIds
      BY ZenonT(30), <1>1, <1>3 DEF IsOp
  <2>3. f \in Hand(op[p]) /\ Hand(User) = Hand(op[p]) \ {f}
      BY ZenonT(30), <1>3 DEF Hand, User
  <2> HIDE DEF f
  <2> QED
      BY ZenonT(30), <1>1, <2>1, <2>2, <2>3, CloseInHand
<1> QED
    BY ZenonT(30), <1>1, <1>2, <1>3

-----------------------------------------------------------------------------
\* dup(): one descriptor and one reference more.
LEMMA SysDupInv == ASSUME FilesInv, NEW p \in Procs \ {init}, NEW fd \in FDs, SysDup(p, fd) PROVE FilesInv'
<1> USE DEF FilesInv, Types
<1>1. /\ proc[p].state = "RUNNABLE" /\ op[p].pc = "user" /\ OpSet(p, op[p]) /\ IsOp(p, op[p])
      /\ UNCHANGED <<proc, op, lock, pipe, stranded>>
    BY ZenonT(30) DEF SysDup, Calls, OpSet, OpType
<1>2. PICK f \in FileIds : f = ofile[p][fd]
    BY ZenonT(30) DEF SysDup, TableType
<1>3. PICK n \in FDs : n = First(FreeFds(p)) /\ ofile[p][n] = 0
  <2>1. FreeFds(p) \in SUBSET Nat /\ FreeFds(p) # {}
      BY SMTT(30) DEF FreeFds, FDs, SysDup
  <2>2. First(FreeFds(p)) \in FreeFds(p)
      BY ZenonT(30), <2>1, LeastExists
  <2> QED
      BY ZenonT(30), <2>2 DEF FreeFds
<1>4. ofile' = [ofile EXCEPT ![p][n] = f]
    BY ZenonT(30), <1>2, <1>3 DEF SysDup
<1>5. /\ ofile' \in [Procs -> [FDs -> FileIds \cup {0}]]
      /\ ofile'[p][n] = f /\ \A d \in FDs \ {n} : ofile'[p][d] = ofile[p][d]
      /\ \A q \in Procs \ {p} : ofile'[q] = ofile[q]
      /\ \A g \in FileIds : /\ g # f => Holders(g)' = Holders(g) \ {<<p, n>>}
                            /\ g = f => Holders(g)' = Holders(g) \cup {<<p, n>>}
  <2>1. f \in FileIds \cup {0} /\ Assigns(p, n, f)
      BY ZenonT(30), <1>4 DEF Assigns
  <2>2. Assigned(p, n, f)
      BY ZenonT(30), <2>1, HoldersMove
  <2> QED
      BY ZenonT(30), <2>2 DEF Assigned
<1>6. \A g \in FileIds : <<p, n>> \notin Holders(g)
  <2>1. \A g \in FileIds : g # 0
      BY SMTT(30) DEF FileIds
  <2> QED
      BY ZenonT(30), <1>3, <2>1 DEF Holders
<1>7. \A g \in FileIds : Flying(g)' = Flying(g)
    BY ZenonT(30), <1>1 DEF Flying, InFlight
<1>8. Gains(f) /\ \A g \in FileIds \ {f} : Same(g)
  <2>1. Gains(f)
      BY ZenonT(30), <1>5, <1>6, <1>7 DEF Gains
  <2>2. ASSUME NEW g \in FileIds \ {f} PROVE Same(g)
    <3>1. Holders(g) \ {<<p, n>>} = Holders(g)
        BY ZenonT(30), <1>6
    <3> QED
        BY ZenonT(30), <1>5, <1>7, <3>1 DEF Same
  <2> QED
      BY ZenonT(30), <2>1, <2>2
<1>9. /\ file[f] = [ref |-> file[f].ref, pipe |-> file[f].pipe, writable |-> file[f].writable]
      /\ file[f].ref \in Nat /\ file[f].pipe \in Pipes \cup {0} /\ file[f].writable \in BOOLEAN
    BY ZenonT(30) DEF TableType, FileRec
<1>10. /\ DOMAIN file' = FileIds /\ \A g \in FileIds \ {f} : file'[g] = file[g]
       /\ file'[f] = [ref |-> file[f].ref + 1, pipe |-> file[f].pipe, writable |-> file[f].writable]
    BY ZenonT(30), <1>2, <1>9 DEF SysDup, TableType
<1>11. file'[f].ref = file[f].ref + 1 /\ file'[f].pipe = file[f].pipe
       /\ file'[f].writable = file[f].writable /\ file'[f] \in FileRec
  <2>1. file[f].ref + 1 \in Nat
      BY ZenonT(30), <1>9, Sums
  <2> QED
    <3>1. PICK k, x, w, r : /\ k = file[f].ref + 1 /\ x = file[f].pipe /\ w = file[f].writable
                            /\ r = file'[f]
        BY ZenonT(30)
    <3>2. r = [ref |-> k, pipe |-> x, writable |-> w]
        BY ZenonT(30), <1>10, <3>1
    <3>3. /\ r.ref = k /\ r.pipe = x /\ r.writable = w
          /\ k \in Nat /\ x \in Pipes \cup {0} /\ w \in BOOLEAN => r \in FileRec
        BY SMTT(30), <3>2, FileFields
    <3> QED
        BY ZenonT(30), <1>9, <2>1, <3>1, <3>3
<1>12. TableType'
    BY ZenonT(30), <1>1, <1>2, <1>5, <1>10, <1>11 DEF TableType, SysDup
<1>13. RefsExact'
  <2>1. \A g \in FileIds : file'[g].ref = Refs(g)'
      BY ZenonT(30), <1>8, <1>10, <1>11, RefsMove
  <2> QED
      BY ZenonT(30), <2>1, RefsHold
<1>14. ProcType' /\ OpType' /\ StateInv' /\ FamilyInv' /\ LockInv' /\ WakeInv'
  <2>1. op[p].pc \in CallPcs
      BY ZenonT(30), <1>1 DEF CallPcs
  <2> QED
      BY ZenonT(30), <1>1, <1>5, <2>1, CallStep
<1>15. \A g \in FileIds : file'[g].pipe = file[g].pipe /\ file'[g].writable = file[g].writable
    BY ZenonT(30), <1>10, <1>11
<1>16. FileInv'
  <2>1. \A g \in FileIds : file'[g].ref = 0 => file'[g] = NoFile
    <3>1. file'[f].ref # 0
        BY ZenonT(30), <1>9, <1>11, Sums
    <3> QED
        BY ZenonT(30), <1>10, <3>1 DEF FileInv
  <2>2. ASSUME NEW q \in Procs, NEW d \in FDs, ofile'[q][d] # 0 PROVE file'[ofile'[q][d]].pipe # 0
    <3>1. \E r \in Procs, e \in FDs : ofile'[q][d] = ofile[r][e] /\ ofile[r][e] # 0
        BY ZenonT(90), <1>2, <1>5, <2>2 DEF SysDup
    <3>2. ofile'[q][d] \in FileIds
        BY SMTT(30), <1>5, <2>2
    <3> QED
        BY ZenonT(30), <1>15, <3>1, <3>2 DEF FileInv
  <2>3. ASSUME NEW q \in Procs, op[q].pc = "pipealloc" PROVE file'[op[q].f0] = file[op[q].f0]
    <3>1. op[q].f0 \in FileIds /\ file[op[q].f0].pipe = 0 /\ file[f].pipe # 0
        BY ZenonT(30), <1>2, <2>3 DEF OpType, IsOp, FileInv, SysDup
    <3> QED
        BY ZenonT(30), <1>10, <3>1
  <2> QED
      BY ZenonT(30), <1>1, <2>1, <2>2, <2>3 DEF FileInv
<1>17. ASSUME NEW x \in Pipes, NEW v \in BOOLEAN PROVE EndInv(x, v)'
  <2>1. /\ \A g \in FileIds : Stands(g, x, v)' <=> Stands(g, x, v)
        /\ \A q \in Procs : Closing(q, x, v)' <=> Closing(q, x, v)
        /\ Open(x, v)' <=> Open(x, v)
      BY ZenonT(30), <1>1, <1>15 DEF Stands, Closing, Open
  <2> QED
      BY ZenonT(30), <2>1 DEF EndsInv, EndInv
<1>18. UserInv'
  <2>1. ASSUME NEW q \in Procs, NEW x, Keeps(q, x) PROVE Keeps(q, x)'
    <3>1. PICK d \in FDs : ofile[q][d] # 0 /\ file[ofile[q][d]].pipe = x
        BY ZenonT(30), <2>1 DEF Keeps
    <3>2. ofile'[q][d] = ofile[q][d] /\ ofile[q][d] \in FileIds
        BY SMTT(30), <1>3, <1>5, <3>1 DEF TableType
    <3> QED
        BY ZenonT(30), <1>15, <3>1, <3>2 DEF Keeps
  <2> QED
      BY ZenonT(30), <1>1, <2>1 DEF UserInv, UserOf, Doing
<1> QED
    BY ZenonT(30), <1>1, <1>12, <1>13, <1>14, <1>16, <1>17, <1>18 DEF PipeType, EndsInv
=============================================================================
