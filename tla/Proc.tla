-------------------------------- MODULE Proc --------------------------------
(***************************************************************************)
(* The process table of kernel/proc.c as the code that blocks sees it:     *)
(* sleep(), wakeup(), kill() and the locks that a sleeper hands over.      *)
(*                                                                         *)
(* RUNNING and RUNNABLE are one state here: which process has a CPU is the *)
(* concern of Scheduler.  A critical section of p->lock is one step, and   *)
(* so is wakeup(): its callers hold the lock that a process must hold to   *)
(* go to sleep on the channel they wake.                                   *)
(***************************************************************************)
EXTENDS Integers, FiniteSets, Sequences

CONSTANTS
    NPROC,          \* slots of the process table; slot 1 is initproc
    NPIPE           \* pages that can hold a pipe

ASSUME ProcAssumption == NPROC \in Nat \ {0} /\ NPIPE \in Nat

VARIABLES
    proc,           \* the process table: state, chan, killed, parent
    op,             \* where each process is in the kernel, with its locals
    lock            \* lock[0] = wait_lock, lock[i] = the lock of pipe i: holder or 0

Procs == 1..NPROC
Locks == 0..NPIPE
init == 1

\* A channel is the address of a pipe's nread or nwrite, or of a struct proc.
NoChan == [kind |-> "none", id |-> 0]
Chan(kind, id) == [kind |-> kind, id |-> id]
\* The lock passed to sleep() along with the channel.
LockOf(ch) == IF ch.kind = "child" THEN 0 ELSE ch.id

User == [pc |-> "user"]
Unused == {p \in Procs : proc[p].state = "UNUSED"}
FreeSlot == [state |-> "UNUSED", chan |-> NoChan, killed |-> FALSE, parent |-> 0]
First(S) == CHOOSE x \in S : \A y \in S : x <= y

\* A process in user space that has not been killed may enter a system call.
Calls(p) == proc[p].state = "RUNNABLE" /\ op[p].pc = "user" /\ ~proc[p].killed
\* A process in the kernel, about to go on at pc.
At(p, pc) == proc[p].state = "RUNNABLE" /\ op[p].pc = pc

\* The caller holds lk when it goes to sleep on ch, and has released it otherwise.
Holds(l, p, keep) == lock' = [lock EXCEPT ![l] = IF keep THEN p ELSE 0]
\* lk can be taken, or is held since Awake.
Has(l, p) == lock[l] \in {0, p}

\* The table after wakeup(ch) by process me.
wakeup(table, ch, me) ==
    [p \in Procs |-> IF p # me /\ table[p].state = "SLEEPING" /\ table[p].chan = ch
                     THEN [table[p] EXCEPT !.state = "RUNNABLE"] ELSE table[p]]

\* What a caller of sleep(ch, lk) is about to do; it goes on at then.
ToSleep(ch, then) == [pc |-> "tosleep", chan |-> ch, then |-> then]

\* Faulty Sleep: lk is released before p->lock is taken, so wakeup() can come between.
SleepUnlocked(p) ==
    LET ch == op[p].chan
    IN  /\ At(p, "tosleep")
        /\ IF lock[LockOf(ch)] = p
           THEN Holds(LockOf(ch), p, FALSE) /\ UNCHANGED <<proc, op>>
           ELSE /\ proc' = [proc EXCEPT ![p].chan = ch, ![p].state = "SLEEPING"]
                /\ op' = [op EXCEPT ![p].pc = "asleep"]
                /\ UNCHANGED lock

\* sleep(): p->lock is held from before lk is released until the process is
\* SLEEPING, so no wakeup() falls in between ...
Sleep(p) ==
    LET ch == op[p].chan
    IN  /\ At(p, "tosleep")
        /\ proc' = [proc EXCEPT ![p].chan = ch, ![p].state = "SLEEPING"]
        /\ op' = [op EXCEPT ![p].pc = "asleep"]
        /\ Holds(LockOf(ch), p, FALSE)

\* ... and a process that was woken takes lk again.
Awake(p) ==
    LET ch == op[p].chan
    IN  /\ At(p, "asleep")
        /\ lock[LockOf(ch)] = 0 /\ Holds(LockOf(ch), p, TRUE)
        /\ proc' = [proc EXCEPT ![p].chan = NoChan]
        /\ op' = [op EXCEPT ![p] = op[p].then]

\* kill(pid) of the process in slot s, or of the first UNUSED slot, whose pid is 0.
\* The victim notices when it next returns to user space or tests killed().
Kill(p, s) ==
    /\ Calls(p)
    /\ s \in Unused => s = First(Unused)
    /\ proc' = [proc EXCEPT ![s].killed = TRUE,
                            ![s].state = IF @ = "SLEEPING" THEN "RUNNABLE" ELSE @]
    /\ UNCHANGED <<op, lock>>

\* wait() sees the children of p in table order, holding wait_lock.
Children(p) == {c \in Procs : proc[c].parent = p}
Zombies(p) == {c \in Children(p) : proc[c].state = "ZOMBIE"}

\* freeproc() of the first zombie, unless its status cannot be copied out; no
\* children or killed: -1; otherwise sleep on the caller's own address.
WaitScan(p) ==
    LET sleeps == Zombies(p) = {} /\ Children(p) # {} /\ ~proc[p].killed
    IN  /\ Has(0, p) /\ Holds(0, p, sleeps)
        /\ op' = [op EXCEPT ![p] = IF sleeps THEN ToSleep(Chan("child", p), [pc |-> "wait"]) ELSE User]
        /\ \/ Zombies(p) # {} /\ proc' = [proc EXCEPT ![First(Zombies(p))] = FreeSlot]
           \/ UNCHANGED proc

Wait(p) == (Calls(p) \/ At(p, "wait")) /\ WaitScan(p)

\* reparent(): the children of p become init's, and init is woken if there is one.
reparent(table, p) ==
    LET moved == [c \in Procs |-> IF table[c].parent = p THEN [table[c] EXCEPT !.parent = init]
                                  ELSE table[c]]
    IN  IF \E c \in Procs : table[c].parent = p THEN wakeup(moved, Chan("child", init), p)
        ELSE moved

\* The end of exit(), after the files are closed: one section of wait_lock.
ExitZombie(p) ==
    /\ At(p, "exit") /\ lock[0] = 0
    /\ proc' = [wakeup(reparent(proc, p), Chan("child", proc[p].parent), p)
                   EXCEPT ![p].state = "ZOMBIE"]
    /\ op' = [op EXCEPT ![p] = User]
    /\ UNCHANGED lock

-----------------------------------------------------------------------------
\* sleep() and wakeup() lose no wakeup between a parent and its children: a
\* process asleep in wait() has a child, and none of its children is a zombie.
NoLostChild ==
    \A p \in Procs : proc[p].state = "SLEEPING" /\ proc[p].chan = Chan("child", p) =>
        Children(p) # {} /\ Zombies(p) = {}

\* fork() and reparent() keep the family tree rooted: every process but init has a
\* living parent, so a zombie always has a process that can reap it.
LivingParent ==
    \A p \in Procs \ {init} : proc[p].state \notin {"UNUSED", "USED"} =>
        proc[proc[p].parent].state \in {"RUNNABLE", "SLEEPING"}

\* fork(), exit(), wait() and sleep() together: every zombie has a parent that can and
\* will reap it.
Family == NoLostChild /\ LivingParent
=============================================================================
