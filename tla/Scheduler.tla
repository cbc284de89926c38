----------------------------- MODULE Scheduler ------------------------------
(***************************************************************************)
(* The PBS scheduler of kernel/proc.c on one or more CPUs: scheduler(),    *)
(* sched(), yield(), update_time(), set_priority(), and the changes of     *)
(* p->state that fork, sleep, wakeup, exit and wait make under p->lock.    *)
(*                                                                         *)
(* A critical section of p->lock is one step, except that a process giving *)
(* up its CPU holds the lock across swtch(): its new state is then already *)
(* visible to the scheduler's test of min_proc->state, which takes no      *)
(* lock.  Behaviours are followed until one process is on two CPUs.        *)
(***************************************************************************)
EXTENDS Pbs, FiniteSets

CONSTANTS
    CPUs, Boot,     \* the CPUs; the one with cpuid() = 0, which handles the clock
    NPROC,          \* slots of the process table
    MAXTICKS,       \* bound: time counters stop here
    NEWPRIOS        \* values passed to set_priority()

ASSUME SchedulerAssumption ==
    /\ Boot \in CPUs /\ 0 \notin CPUs
    /\ NPROC \in Nat \ {0} /\ MAXTICKS \in Nat \ {0}
    /\ NEWPRIOS \subseteq 0..MAX_PRIO

VARIABLES
    proc,           \* the process table
    lock,           \* lock[p]: the CPU that holds p->lock across a swtch(), or 0
    schedLock,      \* the CPU that holds sched_lock, or 0
    cpu,            \* where each CPU is, with the locals of its scheduler()
    ticks,
    panic

vars == <<proc, lock, schedLock, cpu, ticks, panic>>

Slots == 1..NPROC
States == {"UNUSED", "SLEEPING", "RUNNABLE", "RUNNING", "ZOMBIE"}
\* idle: at the top of the loop; scan: in the table, sched_lock held; check:
\* min_proc chosen; lock: its state tested; run: c->proc runs; swtch: leaving it.
Pcs == {"idle", "scan", "check", "lock", "run", "swtch"}

Running(c) == cpu[c].proc
\* proc.h:100: the scheduler gives a process to one CPU only.
OneCpu == \A c, d \in CPUs : Running(c) # 0 /\ Running(c) = Running(d) => c = d
Go == panic = FALSE /\ OneCpu

\* A process that scheduler() has not looked at since allocproc().
NewProc(state, now) ==
    [state |-> state, RTime |-> 0, STime |-> 0, WTime |-> 0, ctime |-> now,
     STATIC |-> DEFAULT_PRIO, DYNAMIC |-> 0, N_RUN |-> 0]

\* The locals of scheduler() on a CPU, c->proc and, as history, the slots seen RUNNABLE.
Locals(pc, i, minprio, p) ==
    [pc |-> pc, i |-> i, min |-> 0, minprio |-> minprio, seen |-> {}, proc |-> p]
Idle == Locals("idle", 0, 0, 0)

Init ==
    /\ proc = [p \in Slots |-> IF p = 1 THEN NewProc("RUNNABLE", 0)
                               ELSE [NewProc("UNUSED", 0) EXCEPT !.STATIC = 0]]
    /\ lock = [p \in Slots |-> 0]
    /\ schedLock = 0
    /\ cpu = [c \in CPUs |-> Idle]
    /\ ticks = 0
    /\ panic = FALSE

-----------------------------------------------------------------------------
\* One turn of scheduler(): take sched_lock ...
ScanBegin(c) ==
    /\ Go /\ cpu[c].pc = "idle" /\ schedLock = 0
    /\ schedLock' = c
    /\ cpu' = [cpu EXCEPT ![c] = Locals("scan", 1, MAX_PRIO + 1, 0)]
    /\ UNCHANGED <<proc, lock, ticks, panic>>

\* Faulty Better: priorities compared as int.
BetterSigned(k, p, dyn) ==
    \/ k.min = 0
    \/ dyn < k.minprio
    \/ dyn = k.minprio /\ proc[p].ctime <= proc[k.min].ctime

\* ... p of dynamic priority dyn replaces the best slot so far ...
Better(k, p, dyn) ==
    LET m == proc[k.min]
    IN  \/ k.min = 0
        \/ ULess(dyn, k.minprio)
        \/ dyn = k.minprio /\ \/ proc[p].N_RUN < m.N_RUN
                              \/ proc[p].N_RUN = m.N_RUN /\ proc[p].ctime <= m.ctime

\* ... for each slot in turn, recompute the priority if it is RUNNABLE ...
ScanStep(c) ==
    LET k == cpu[c]
        p == k.i
        q == proc[p]
        dyn == DynamicPrio(q.STATIC, q.RTime, q.STime, q.WTime)
        best == IF Better(k, p, dyn) THEN [k EXCEPT !.min = p, !.minprio = dyn] ELSE k
    IN  /\ Go /\ k.pc = "scan" /\ p \in Slots /\ lock[p] = 0
        /\ IF q.state = "RUNNABLE"
           THEN /\ proc' = [proc EXCEPT ![p].DYNAMIC = dyn]
                /\ cpu' = [cpu EXCEPT ![c] = [best EXCEPT !.i = p + 1, !.seen = @ \cup {p}]]
           ELSE /\ cpu' = [cpu EXCEPT ![c].i = p + 1]
                /\ UNCHANGED proc
        /\ UNCHANGED <<lock, schedLock, ticks, panic>>

\* Faulty ScanEnd: sched_lock stays held when no process was found.
ScanEndKeepsLock(c) ==
    /\ Go /\ cpu[c].pc = "scan" /\ cpu[c].i = NPROC + 1
    /\ schedLock' = IF cpu[c].min = 0 THEN c ELSE 0
    /\ cpu' = [cpu EXCEPT ![c] = IF @.min = 0 THEN Idle ELSE [@ EXCEPT !.pc = "check"]]
    /\ UNCHANGED <<proc, lock, ticks, panic>>

\* ... release sched_lock ...
ScanEnd(c) ==
    /\ Go /\ cpu[c].pc = "scan" /\ cpu[c].i = NPROC + 1
    /\ schedLock' = 0
    /\ cpu' = [cpu EXCEPT ![c] = IF @.min = 0 THEN Idle ELSE [@ EXCEPT !.pc = "check"]]
    /\ UNCHANGED <<proc, lock, ticks, panic>>

\* ... test min_proc->state without its lock ...
CheckState(c) ==
    /\ Go /\ cpu[c].pc = "check"
    /\ cpu' = [cpu EXCEPT ![c] = IF proc[@.min].state = "RUNNABLE"
                                 THEN [@ EXCEPT !.pc = "lock"] ELSE Idle]
    /\ UNCHANGED <<proc, lock, schedLock, ticks, panic>>

\* ... take the lock and switch to the process, which releases it.
Dispatch(c) ==
    LET p == cpu[c].min
    IN  /\ Go /\ cpu[c].pc = "lock" /\ lock[p] = 0
        /\ proc' = [proc EXCEPT ![p].state = "RUNNING"]
        /\ cpu' = [cpu EXCEPT ![c] = Locals("run", 0, 0, p)]
        /\ UNCHANGED <<lock, schedLock, ticks, panic>>

-----------------------------------------------------------------------------
\* c->proc takes its lock, sets its state and calls sched() ...
Leave(c, state, table) ==
    LET p == Running(c)
    IN  /\ Go /\ cpu[c].pc = "run" /\ lock[p] = 0
        /\ proc' = [table EXCEPT ![p].state = state]
        /\ lock' = [lock EXCEPT ![p] = c]
        /\ cpu' = [cpu EXCEPT ![c].pc = "swtch"]
        /\ UNCHANGED <<schedLock, panic>>

\* ... and scheduler() releases the lock.
SwitchBack(c) ==
    /\ Go /\ cpu[c].pc = "swtch"
    /\ lock' = [lock EXCEPT ![Running(c)] = 0]
    /\ cpu' = [cpu EXCEPT ![c] = Idle]
    /\ UNCHANGED <<proc, schedLock, ticks, panic>>

Sleep(c) == Leave(c, "SLEEPING", proc) /\ UNCHANGED ticks
Exit(c) == Running(c) # 1 /\ Leave(c, "ZOMBIE", proc) /\ UNCHANGED ticks

\* update_time(): a tick is charged to the state each process is in.
Inc(n) == IF n < MAXTICKS THEN n + 1 ELSE n
update_time ==
    [p \in Slots |->
        CASE proc[p].state = "RUNNING" -> [proc[p] EXCEPT !.RTime = Inc(@)]
          [] proc[p].state = "SLEEPING" -> [proc[p] EXCEPT !.STime = Inc(@)]
          [] proc[p].state = "RUNNABLE" -> [proc[p] EXCEPT !.WTime = Inc(@)]
          [] OTHER -> proc[p]]

\* A timer interrupt: clockintr() on the boot CPU, then yield() if a process
\* was running.
TimerYield(c) ==
    IF c = Boot THEN Leave(c, "RUNNABLE", update_time) /\ ticks' = Inc(ticks)
    ELSE Leave(c, "RUNNABLE", proc) /\ UNCHANGED ticks

\* scheduler() runs with interrupts enabled when it holds no lock.
TimerIdle ==
    /\ Go /\ cpu[Boot].pc \in {"idle", "check", "lock"}
    /\ proc' = update_time /\ ticks' = Inc(ticks)
    /\ UNCHANGED <<lock, schedLock, cpu, panic>>

\* wakeup() or kill() by the process running on c or by an interrupt taken there.
Wakeup(c, p) ==
    /\ Go /\ cpu[c].pc \in {"idle", "check", "lock", "run"}
    /\ proc[p].state = "SLEEPING" /\ lock[p] = 0
    /\ proc' = [proc EXCEPT ![p].state = "RUNNABLE"]
    /\ UNCHANGED <<lock, schedLock, cpu, ticks, panic>>

\* fork(): allocproc() takes the first UNUSED slot.
Unused == {p \in Slots : proc[p].state = "UNUSED"}
First(S) == CHOOSE p \in S : \A q \in S : p <= q

Fork(c) ==
    /\ Go /\ cpu[c].pc = "run" /\ Unused # {}
    /\ proc' = [proc EXCEPT ![First(Unused)] = NewProc("RUNNABLE", ticks)]
    /\ UNCHANGED <<lock, schedLock, cpu, ticks, panic>>

\* wait() frees a zombie; freeproc() leaves the times and priorities alone.
Reap(c, p) ==
    /\ Go /\ cpu[c].pc = "run" /\ proc[p].state = "ZOMBIE" /\ lock[p] = 0
    /\ proc' = [proc EXCEPT ![p].state = "UNUSED"]
    /\ UNCHANGED <<lock, schedLock, cpu, ticks, panic>>

\* set_priority(new, pid) with pid in slot q, or q = NPROC + 1 when no slot has
\* it; pid 0 is that of the UNUSED slots.  The slots before q get a new dynamic
\* priority.  The yield() at the end is called with p->lock held and always
\* panics: in acquire() when p is the caller, in sched() otherwise.  After a
\* failed search p is one past the table, and what it reads is arbitrary.
SetPriority(c, new, q) ==
    LET old == IF q = 1 THEN NOTFOUND ELSE proc[q - 1].DYNAMIC
        Recomputed(s) == DynamicPrio(proc[s].STATIC, proc[s].RTime, proc[s].STime, proc[s].WTime)
    IN  /\ Go /\ cpu[c].pc = "run" /\ \A s \in Slots : lock[s] = 0
        /\ q \in Unused => q = First(Unused)
        /\ proc' = [s \in Slots |-> IF s < q THEN [proc[s] EXCEPT !.DYNAMIC = Recomputed(s)]
                                    ELSE IF s = q THEN [proc[s] EXCEPT !.STATIC = new]
                                    ELSE proc[s]]
        /\ IF q \in Slots THEN panic' = ULess(proc[q].DYNAMIC, old) ELSE panic' \in BOOLEAN
        /\ UNCHANGED <<lock, schedLock, cpu, ticks>>

-----------------------------------------------------------------------------
SchedulerStep(c) ==
    ScanBegin(c) \/ ScanStep(c) \/ ScanEnd(c) \/ CheckState(c) \/ Dispatch(c) \/ SwitchBack(c)

Next ==
    \/ \E c \in CPUs :
          \/ SchedulerStep(c)
          \/ TimerYield(c) \/ Sleep(c) \/ Exit(c) \/ Fork(c)
          \/ \E p \in Slots : Reap(c, p) \/ Wakeup(c, p)
          \/ \E new \in NEWPRIOS, q \in 1..NPROC+1 : SetPriority(c, new, q)
    \/ TimerIdle

Spec == Init /\ [][Next]_vars

\* A CPU in scheduler() goes on, and timer interrupts keep coming.
Fairness == \A c \in CPUs : WF_vars(SchedulerStep(c)) /\ WF_vars(TimerYield(c))
FairSpec == Spec /\ Fairness

\* The same with processes that only compute: the CPU is given up on ticks alone.
BusyNext ==
    \E c \in CPUs : SchedulerStep(c) \/ TimerYield(c) \/ Fork(c)
BusySpec == Init /\ [][BusyNext]_vars /\ Fairness

-----------------------------------------------------------------------------
\* The fields of struct proc the scheduler uses, and the locals of scheduler() on a CPU.
ProcType == [state : States, RTime : 0..MAXTICKS, STime : 0..MAXTICKS, WTime : 0..MAXTICKS,
             ctime : 0..MAXTICKS, STATIC : 0..MAX_PRIO, DYNAMIC : Int, N_RUN : Nat]
CpuType == [pc : Pcs, i : 0..NPROC+1, min : 0..NPROC, minprio : Int,
            seen : SUBSET Slots, proc : 0..NPROC]

TypeOK ==
    /\ proc \in [Slots -> ProcType]
    /\ lock \in [Slots -> CPUs \cup {0}]
    /\ schedLock \in CPUs \cup {0}
    /\ cpu \in [CPUs -> CpuType]
    /\ ticks \in 0..MAXTICKS
    /\ panic \in BOOLEAN

\* proc.h:99: p->state changes under p->lock only, so a process is on at most
\* one CPU, is RUNNING exactly while it is on one, and only a RUNNABLE process
\* is switched to.
RunsOnOneCpu ==
    /\ OneCpu
    /\ \A p \in Slots : proc[p].state = "RUNNING" <=>
                           \E c \in CPUs : cpu[c].pc = "run" /\ Running(c) = p
    /\ \A c \in CPUs : cpu[c].pc = "lock" => proc[cpu[c].min].state = "RUNNABLE"

\* scheduler(): the chosen slot has the least (dynamic priority, runs, creation
\* time) of the slots found RUNNABLE by this scan; the last of equals wins.
Key(p) == proc[p].DYNAMIC
Precedes(p, q) ==
    \/ ULess(Key(p), Key(q))
    \/ Key(p) = Key(q) /\ \/ proc[p].N_RUN < proc[q].N_RUN
                          \/ /\ proc[p].N_RUN = proc[q].N_RUN
                             /\ \/ proc[p].ctime < proc[q].ctime
                                \/ proc[p].ctime = proc[q].ctime /\ p >= q
ChosenIsBest ==
    \A c \in CPUs : cpu[c].pc \in {"scan", "check", "lock"} =>
        /\ cpu[c].min = 0 <=> cpu[c].seen = {}
        /\ \A q \in cpu[c].seen : Precedes(cpu[c].min, q)

\* scheduler() from its scan to swtch(): what it runs is RUNNABLE, on no other CPU, and
\* precedes every process the scan saw.
ScanSound == TypeOK /\ RunsOnOneCpu /\ ChosenIsBest

\* scheduler() releases sched_lock on every path: while some process is RUNNABLE
\* the CPUs do not idle for ever, unless set_priority() has stopped the kernel.
WorkConserving ==
    (\E p \in Slots : proc[p].state = "RUNNABLE") ~> (panic \/ \E c \in CPUs : Running(c) # 0)

\* README.md:210: scheduler() starves nobody; a RUNNABLE process eventually runs.
NoStarvation == \A p \in Slots : (proc[p].state = "RUNNABLE") ~> (proc[p].state # "RUNNABLE")
=============================================================================
