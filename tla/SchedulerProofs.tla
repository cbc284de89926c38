-------------------------- MODULE SchedulerProofs ---------------------------
(***************************************************************************)
(* Proofs about the PBS scheduler on one CPU, for any size of the process  *)
(* table, any clocks and any priorities.  With a second CPU the property   *)
(* does not hold: scheduler() tests min_proc->state without its lock.      *)
(***************************************************************************)
EXTENDS Scheduler, WellFoundedInduction, TLAPS

Scanning == cpu[Boot].pc \in {"scan", "check", "lock"}

\* The inductive invariant: ScanSound written for the only CPU, and what it needs to be
\* inductive.  The scan is inside the table and has seen slots below its index only,
\* minprio is the priority of the best of them, and c->proc is set exactly while a
\* process is on the CPU.
RunInv ==
    /\ \A p \in Slots :
          proc[p].state = "RUNNING" <=> cpu[Boot].pc = "run" /\ Running(Boot) = p
    /\ cpu[Boot].pc = "lock" => proc[cpu[Boot].min].state = "RUNNABLE"
    /\ cpu[Boot].pc \in {"run", "swtch"} <=> Running(Boot) # 0

BestInv ==
    Scanning =>
        /\ cpu[Boot].min = 0 <=> cpu[Boot].seen = {}
        /\ \A q \in cpu[Boot].seen : Precedes(cpu[Boot].min, q)
        /\ cpu[Boot].min # 0 => cpu[Boot].min \in cpu[Boot].seen

ScanInv ==
    /\ cpu[Boot].pc = "scan" =>
          /\ cpu[Boot].i \in 1..NPROC+1
          /\ \A q \in cpu[Boot].seen : q < cpu[Boot].i
          /\ cpu[Boot].min # 0 => cpu[Boot].minprio = Key(cpu[Boot].min)
    /\ cpu[Boot].pc \in {"check", "lock"} => cpu[Boot].min # 0

SchedInv == TypeOK /\ RunInv /\ BestInv /\ ScanInv

-----------------------------------------------------------------------------
\* A set of naturals that is not empty has a least element.
LEMMA LeastExists ==
    ASSUME NEW S \in SUBSET Nat, S # {}
    PROVE  \E x \in S : \A y \in S : x <= y
<1> DEFINE R == OpToRel(<, Nat)
<1>1. IsWellFoundedOn(R, Nat)
    BY NatLessThanWellFounded
<1> HIDE DEF R
<1>2. PICK x \in S : \A y \in S : ~ (<<y, x>> \in R)
    BY ZenonT(30), <1>1, WFMin
<1>3. \A y \in S : y < x => <<y, x>> \in R
    BY DEF R, OpToRel
<1>4. ASSUME NEW y \in S PROVE x <= y
  <2>1. ~(y < x)
      BY ZenonT(30), <1>2, <1>3
  <2>2. x \in Nat /\ y \in Nat
      OBVIOUS
  <2> QED
      BY <2>1, <2>2
<1> QED
    BY <1>4

\* allocproc() takes a slot that is UNUSED.
LEMMA FirstUnused == ASSUME Unused # {} PROVE First(Unused) \in Unused
<1>1. Unused \in SUBSET Nat
    BY DEF Unused, Slots
<1>2. \E x \in Unused : \A y \in Unused : x <= y
    BY <1>1, LeastExists
<1> QED
    BY <1>2 DEF First

\* Quotients and remainders by a positive number.
LEMMA DivType ==
    ASSUME NEW a \in Int, NEW d \in Nat \ {0}
    PROVE  a \div d \in Int /\ a % d \in 0..d-1
<1>1. a \div d \in Int
    OBVIOUS
<1>2. a % d \in 0..d-1
    OBVIOUS
<1> QED
    BY <1>1, <1>2

\* The wrapped index is a number.
LEMMA WrappedType == ASSUME NEW n \in Int, NEW d \in Nat \ {0} PROVE WrappedIndex(n, d) \in Int
<1> DEFINE hi == HALF - 1
           qhi == hi \div d
           qlo == ((hi % d) * HALF + (HALF + n)) \div d
           lo == qlo * 50
           top == (qhi * 50 + lo \div HALF) % HALF
<1>1. HALF \in Nat \ {0} /\ hi \in Int /\ HALF \div 2 \in Int
    BY DEF HALF
<1>2. qhi \in Int /\ hi % d \in Int
    BY <1>1, DivType
<1>3. (hi % d) * HALF + (HALF + n) \in Int
    BY <1>1, <1>2
<1>4. qlo \in Int /\ lo \in Int
  <2>1. \A x \in Int : x \div d \in Int
      BY DivType
  <2>2. qlo \in Int
      BY <1>3, <2>1, Zenon
  <2> HIDE DEF qlo
  <2> QED
      BY <2>2
<1>5. lo \div HALF \in Int /\ lo % HALF \in Int
    BY <1>1, <1>4, DivType
<1>6. qhi * 50 + lo \div HALF \in Int
    BY <1>2, <1>5
<1>7. top \in Int
    BY <1>1, <1>6, DivType
<1> HIDE DEF hi, qhi, qlo, lo, top
<1>8. (IF top < HALF \div 2 THEN top ELSE top - HALF) * HALF + (lo % HALF) \in Int
    BY <1>1, <1>5, <1>7
<1> QED
    BY <1>8 DEF WrappedIndex, hi, qhi, qlo, lo, top

\* The dynamic priority of scheduler() and set_priority() is a number.
LEMMA PrioType ==
    ASSUME NEW st \in Nat, NEW r \in Nat, NEW s \in Nat, NEW w \in Nat
    PROVE  DynamicPrio(st, r, s, w) \in Int
<1> DEFINE n == 3 * r - s - w
           d == r + w + s + 1
<1>1. n \in Int /\ d \in Nat \ {0}
    OBVIOUS
<1> HIDE DEF n, d
<1>2. WrappedIndex(n, d) \in Int /\ n \div d \in Int
    BY <1>1, WrappedType, DivType
<1>3. maxOf(IF n < 0 THEN WrappedIndex(n, d) ELSE (n \div d) * 50, 0) \in Int
    BY <1>1, <1>2 DEF maxOf
<1>4. calculate_RBI(r, s, w) \in Int
    BY <1>3 DEF calculate_RBI, n, d, DEFAULT_RBI
<1>5. Add32(st, calculate_RBI(r, s, w)) \in Int
    BY <1>4 DEF Add32, INT_MAX
<1> QED
    BY <1>5 DEF DynamicPrio, minOf, MAX_PRIO


-----------------------------------------------------------------------------
\* The words compared as uint are totally ordered.
LEMMA ULessOrder ==
    ASSUME NEW a \in Int, NEW b \in Int, NEW c \in Int
    PROVE  /\ ULess(a, b) /\ ULess(b, c) => ULess(a, c)
           /\ ULess(a, b) \/ a = b \/ ULess(b, a)
           /\ ~ULess(a, a)
BY DEF ULess

\* The order in which processes are chosen is transitive.
LEMMA PrecedesTrans ==
    ASSUME proc' \in [Slots -> ProcType], NEW a \in Slots, NEW b \in Slots, NEW c \in Slots,
           Precedes(a, b)', Precedes(b, c)'
    PROVE  Precedes(a, c)'
<1>1. \A x \in Slots : Key(x)' \in Int /\ proc'[x].N_RUN \in Int /\ proc'[x].ctime \in Int
    BY SchedulerAssumption DEF ProcType, Key
<1>2. a \in Int /\ b \in Int /\ c \in Int
    BY DEF Slots
<1>3. ULess(Key(a)', Key(b)') /\ ULess(Key(b)', Key(c)') => ULess(Key(a)', Key(c)')
    BY <1>1, ULessOrder
<1> QED
    BY <1>1, <1>2, <1>3 DEF Precedes

LEMMA IdleType == Idle \in CpuType
BY SchedulerAssumption DEF Idle, Locals, CpuType, Pcs, Slots

LEMMA NewProcType ==
    ASSUME NEW now \in 0..MAXTICKS PROVE NewProc("RUNNABLE", now) \in ProcType
BY SchedulerAssumption DEF NewProc, ProcType, States, DEFAULT_PRIO, MAX_PRIO

\* clockintr() changes the time counters only.
LEMMA UpdateTime ==
    ASSUME proc \in [Slots -> ProcType]
    PROVE  /\ update_time \in [Slots -> ProcType]
           /\ \A p \in Slots : /\ update_time[p].state = proc[p].state
                               /\ update_time[p].ctime = proc[p].ctime
                               /\ update_time[p].N_RUN = proc[p].N_RUN
                               /\ update_time[p].DYNAMIC = proc[p].DYNAMIC
<1>1. \A n \in 0..MAXTICKS : Inc(n) \in 0..MAXTICKS
    BY SchedulerAssumption DEF Inc
<1>2. ASSUME NEW p \in Slots
      PROVE  /\ update_time[p] \in ProcType
             /\ update_time[p].state = proc[p].state
             /\ update_time[p].ctime = proc[p].ctime
             /\ update_time[p].N_RUN = proc[p].N_RUN
             /\ update_time[p].DYNAMIC = proc[p].DYNAMIC
    BY ZenonT(30), <1>1 DEF update_time, ProcType
<1>3. update_time = [p \in Slots |-> update_time[p]]
    BY DEF update_time
<1> HIDE DEF update_time
<1> QED
    BY <1>2, <1>3

\* A step that leaves the CPU alone, and the fields that the scan compares, keeps its facts.
LEMMA ScanKept ==
    ASSUME SchedInv, UNCHANGED cpu,
           \A p \in Slots : /\ proc'[p].ctime = proc[p].ctime
                            /\ proc'[p].N_RUN = proc[p].N_RUN
                            /\ proc'[p].DYNAMIC = proc[p].DYNAMIC
    PROVE  BestInv' /\ ScanInv'
<1>1. cpu[Boot].min # 0 => cpu[Boot].min \in Slots
    BY SchedulerAssumption DEF SchedInv, TypeOK, CpuType, Slots
<1>2. cpu[Boot].seen \subseteq Slots
    BY ZenonT(30), SchedulerAssumption DEF SchedInv, TypeOK, CpuType
<1>3. \A p, q \in Slots : Precedes(p, q)' <=> Precedes(p, q)
    BY DEF Precedes, Key
<1>4. \A p \in Slots : Key(p)' = Key(p)
    BY ZenonT(30) DEF Key
<1>5. ASSUME Scanning, NEW q \in cpu[Boot].seen
      PROVE  Precedes(cpu[Boot].min, q)'
    BY ZenonT(30), <1>1, <1>2, <1>3, <1>5 DEF SchedInv, BestInv
<1>6. BestInv'
    BY ZenonT(30), <1>5 DEF SchedInv, BestInv, Scanning
<1>7. ScanInv'
    BY ZenonT(30), <1>1, <1>4 DEF SchedInv, ScanInv
<1> QED
    BY <1>6, <1>7

\* A CPU that does not scan has nothing to show.
LEMMA ScanOver ==
    ASSUME cpu'[Boot].pc \in {"idle", "run", "swtch"}
    PROVE  BestInv' /\ ScanInv'
BY DEF BestInv, ScanInv, Scanning

-----------------------------------------------------------------------------
LEMMA InitInv == ASSUME Init PROVE SchedInv
<1>1. [NewProc("UNUSED", 0) EXCEPT !.STATIC = 0] \in ProcType /\ NewProc("RUNNABLE", 0) \in ProcType
    BY SchedulerAssumption DEF NewProc, ProcType, States, DEFAULT_PRIO, MAX_PRIO
<1>2. TypeOK
  <2>1. proc \in [Slots -> ProcType] /\ cpu \in [CPUs -> CpuType] /\ lock \in [Slots -> CPUs \cup {0}]
      BY <1>1, IdleType DEF Init
  <2>2. panic \in BOOLEAN /\ schedLock \in CPUs \cup {0}
      BY ZenonT(30) DEF Init
  <2>3. ticks \in 0..MAXTICKS
      BY SchedulerAssumption DEF Init
  <2> QED
      BY <2>1, <2>2, <2>3 DEF TypeOK
<1>3. cpu[Boot] = Idle
    BY SchedulerAssumption DEF Init
<1>4. \A p \in Slots : proc[p].state # "RUNNING"
    BY DEF Init, NewProc
<1>5. RunInv
    BY <1>3, <1>4 DEF RunInv, Idle, Locals, Running
<1>6. BestInv /\ ScanInv
    BY <1>3 DEF BestInv, ScanInv, Scanning, Idle, Locals
<1> QED
    BY <1>2, <1>5, <1>6 DEF SchedInv

LEMMA ScanBeginInv == ASSUME SchedInv, ScanBegin(Boot) PROVE SchedInv'
<1> DEFINE k == Locals("scan", 1, MAX_PRIO + 1, 0)
<1>1. k \in CpuType /\ k.pc = "scan" /\ k.i = 1 /\ k.min = 0 /\ k.seen = {} /\ k.proc = 0
    BY SchedulerAssumption DEF Locals, CpuType, Pcs, Slots, MAX_PRIO
<1>2. cpu' = [cpu EXCEPT ![Boot] = k] /\ cpu[Boot].pc = "idle" /\ schedLock' = Boot
      /\ UNCHANGED <<proc, lock, ticks, panic>>
    BY DEF ScanBegin, k
<1>3. TypeOK'
    BY <1>1, <1>2, SchedulerAssumption DEF SchedInv, TypeOK
<1>4. cpu'[Boot] = k
    BY ZenonT(30), <1>2, SchedulerAssumption DEF SchedInv, TypeOK
<1>5. RunInv'
    BY ZenonT(30), <1>1, <1>2, <1>4 DEF SchedInv, RunInv, Running
<1>6. BestInv' /\ ScanInv'
    BY <1>1, <1>4, SchedulerAssumption DEF BestInv, ScanInv, Scanning
<1> QED
    BY ZenonT(30), <1>3, <1>5, <1>6 DEF SchedInv

\* The slot the scan has reached is RUNNABLE: the better of it and of min_proc comes
\* before every slot seen.
LEMMA ScanBest ==
    ASSUME SchedInv, cpu[Boot].pc = "scan", NEW p \in Slots, p = cpu[Boot].i, NEW dyn \in Int,
           NEW n, Better(cpu[Boot], p, dyn) => n = p, ~Better(cpu[Boot], p, dyn) => n = cpu[Boot].min,
           proc' \in [Slots -> ProcType], Key(p)' = dyn,
           \A x \in Slots : /\ x # p => Key(x)' = Key(x)
                            /\ proc'[x].N_RUN = proc[x].N_RUN /\ proc'[x].ctime = proc[x].ctime
    PROVE  /\ n \in cpu[Boot].seen \cup {p}
           /\ \A x \in cpu[Boot].seen \cup {p} : Precedes(n, x)'
           /\ Key(n)' = IF Better(cpu[Boot], p, dyn) THEN dyn ELSE cpu[Boot].minprio
<1> DEFINE S == cpu[Boot].seen
<1>0. PICK m \in 0..NPROC : m = cpu[Boot].min
    BY ZenonT(30), SchedulerAssumption DEF SchedInv, TypeOK, CpuType
<1>1. \A x \in S : x \in Slots /\ x < p
    BY ZenonT(30), SchedulerAssumption DEF SchedInv, TypeOK, CpuType, ScanInv
<1>2. /\ m = 0 <=> S = {}
      /\ \A x \in S : Precedes(m, x)
      /\ m # 0 => m \in S /\ cpu[Boot].minprio = Key(m)
    BY ZenonT(30), <1>0 DEF SchedInv, BestInv, ScanInv, Scanning
<1>3. Precedes(p, p)'
    BY DEF Precedes, ProcType, Slots
<1>4. CASE m = 0
    BY ZenonT(30), <1>0, <1>2, <1>3, <1>4 DEF Better
<1>5. CASE m # 0
  <2>1. m \in Slots /\ m < p /\ m # p
      BY <1>1, <1>2, <1>5 DEF Slots
  <2>2. \A x \in S : x \in Slots /\ x # p
      BY <1>1 DEF Slots
  <2>3. ASSUME NEW x \in S PROVE Precedes(m, x)'
    <3>1. /\ Key(m)' = Key(m) /\ Key(x)' = Key(x)
          /\ proc'[m].N_RUN = proc[m].N_RUN /\ proc'[x].N_RUN = proc[x].N_RUN
          /\ proc'[m].ctime = proc[m].ctime /\ proc'[x].ctime = proc[x].ctime
        BY ZenonT(30), <2>1, <2>2
    <3>2. Precedes(m, x)
        BY ZenonT(30), <1>2
    <3> QED
        BY ZenonT(30), <3>1, <3>2 DEF Precedes
  <2>4. Key(m)' = Key(m) /\ Key(m)' \in Int /\ cpu[Boot].minprio = Key(m)
      BY <1>2, <1>5, <2>1 DEF ProcType, Key
  <2>5. /\ proc[m].N_RUN \in Int /\ proc[p].N_RUN \in Int
        /\ proc[m].ctime \in Int /\ proc[p].ctime \in Int
      BY <2>1, SchedulerAssumption DEF SchedInv, TypeOK, ProcType
  <2>6. CASE Better(cpu[Boot], p, dyn)
    <3>1. Precedes(p, m)'
      <4>1. /\ proc'[m].N_RUN = proc[m].N_RUN /\ proc'[m].ctime = proc[m].ctime
            /\ proc'[p].N_RUN = proc[p].N_RUN /\ proc'[p].ctime = proc[p].ctime
          BY ZenonT(30), <2>1
      <4>2. \/ ULess(dyn, Key(m))
            \/ dyn = Key(m) /\ \/ proc[p].N_RUN < proc[m].N_RUN
                               \/ proc[p].N_RUN = proc[m].N_RUN /\ proc[p].ctime <= proc[m].ctime
          BY <1>0, <1>5, <2>4, <2>6 DEF Better
      <4>3. p >= m
          BY <2>1 DEF Slots
      <4> HIDE DEF Key
      <4> QED
          BY <2>4, <2>5, <4>1, <4>2, <4>3 DEF Precedes
    <3>2. \A x \in S : Precedes(p, x)'
        BY <2>1, <2>2, <2>3, <3>1, PrecedesTrans
    <3> QED
        BY <1>3, <2>6, <3>2
  <2>7. CASE ~Better(cpu[Boot], p, dyn)
    <3>1. ~ULess(dyn, Key(m)) /\ (ULess(Key(m), dyn) \/ Key(m) = dyn)
        BY <1>0, <1>5, <2>4, <2>7, ULessOrder DEF Better
    <3>2. Precedes(m, p)'
        BY <1>0, <1>5, <2>1, <2>4, <2>5, <2>7, <3>1 DEF Precedes, Better
    <3> QED
        BY ZenonT(30), <1>0, <1>2, <1>5, <2>3, <2>4, <2>7, <3>2
  <2> QED
      BY ZenonT(30), <2>6, <2>7
<1> QED
    BY <1>4, <1>5

LEMMA ScanStepInv == ASSUME SchedInv, ScanStep(Boot) PROVE SchedInv'
<1> DEFINE k == cpu[Boot]
           p == k.i
           q == proc[p]
           dyn == DynamicPrio(q.STATIC, q.RTime, q.STime, q.WTime)
<1>1. k \in CpuType /\ p \in Slots /\ k.pc = "scan" /\ q \in ProcType
    BY SchedulerAssumption DEF SchedInv, TypeOK, ScanStep
<1>2. dyn \in Int
  <2>1. q.STATIC \in Nat /\ q.RTime \in Nat /\ q.STime \in Nat /\ q.WTime \in Nat
      BY <1>1, SchedulerAssumption DEF ProcType, MAX_PRIO
  <2> QED
      BY ZenonT(30), <2>1, PrioType
<1>3. UNCHANGED <<lock, schedLock, ticks, panic>>
    BY DEF ScanStep
<1>4. CASE q.state # "RUNNABLE"
  <2>1. cpu' = [cpu EXCEPT ![Boot].i = p + 1] /\ UNCHANGED proc
      BY <1>4 DEF ScanStep
  <2>2. p + 1 \in 1..NPROC+1 /\ p < p + 1
      BY <1>1, SchedulerAssumption DEF Slots
  <2>3. cpu'[Boot] = [k EXCEPT !.i = p + 1]
      BY <2>1, SchedulerAssumption DEF SchedInv, TypeOK
  <2>4. cpu'[Boot] \in CpuType
      BY <1>1, <2>2, <2>3 DEF CpuType
  <2>5. TypeOK'
      BY <1>3, <2>1, <2>3, <2>4, SchedulerAssumption DEF SchedInv, TypeOK
  <2>6. /\ cpu'[Boot].pc = k.pc /\ cpu'[Boot].min = k.min /\ cpu'[Boot].minprio = k.minprio
        /\ cpu'[Boot].seen = k.seen /\ cpu'[Boot].proc = k.proc /\ cpu'[Boot].i = p + 1
      BY <1>1, <2>3 DEF CpuType
  <2>7. RunInv'
      BY ZenonT(30), <2>1, <2>6 DEF SchedInv, RunInv, Running
  <2>8. BestInv'
      BY <2>1, <2>6 DEF SchedInv, BestInv, Scanning, Precedes, Key
  <2>9. ScanInv'
    <3>1. \A x \in k.seen : x < p + 1
        BY <1>1, <2>2, SchedulerAssumption DEF SchedInv, ScanInv, CpuType, Slots
    <3>2. k.min # 0 => k.minprio = Key(k.min)'
        BY <1>1, <2>1 DEF SchedInv, ScanInv, Key
    <3> QED
        BY ZenonT(30), <1>1, <2>2, <2>6, <3>1, <3>2 DEF ScanInv
  <2> QED
      BY ZenonT(30), <2>5, <2>7, <2>8, <2>9 DEF SchedInv
<1>5. CASE q.state = "RUNNABLE"
  <2> DEFINE best == IF Better(k, p, dyn) THEN [k EXCEPT !.min = p, !.minprio = dyn] ELSE k
  <2>1. /\ proc' = [proc EXCEPT ![p].DYNAMIC = dyn]
        /\ cpu' = [cpu EXCEPT ![Boot] = [best EXCEPT !.i = p + 1, !.seen = @ \cup {p}]]
      BY ZenonT(30), <1>5 DEF ScanStep
  <2>2. PICK d \in Int : d = dyn
      BY <1>2
  <2>3. PICK e \in Slots : e = p
      BY <1>1
  <2>4. PICK S \in SUBSET Slots : S = k.seen
      BY <1>1 DEF CpuType
  <2>6. \E n \in 0..NPROC, prio \in Int : IF Better(k, e, d) THEN n = e /\ prio = d
                                           ELSE n = k.min /\ prio = k.minprio
      BY <1>1, SchedulerAssumption DEF Slots, CpuType
  <2> PICK n \in 0..NPROC, prio \in Int : IF Better(k, e, d) THEN n = e /\ prio = d
                                          ELSE n = k.min /\ prio = k.minprio
      BY ZenonT(30), <2>6
  <2>7. proc' = [proc EXCEPT ![e].DYNAMIC = d]
      BY ZenonT(30), <2>1, <2>2, <2>3
  <2>8. n \in S \cup {e} /\ (\A x \in S \cup {e} : Precedes(n, x)') /\ Key(n)' = prio
    <3>1. /\ e = cpu[Boot].i /\ S = cpu[Boot].seen /\ cpu[Boot].pc = "scan"
          /\ Better(cpu[Boot], e, d) => n = e /\ prio = d
          /\ ~Better(cpu[Boot], e, d) => n = cpu[Boot].min /\ prio = cpu[Boot].minprio
        BY ZenonT(30), <1>1, <2>3, <2>4
    <3> HIDE DEF k, p, q, dyn
    <3>2. proc' \in [Slots -> ProcType]
        BY <2>7 DEF SchedInv, TypeOK, ProcType
    <3>3. /\ Key(e)' = d
          /\ \A x \in Slots : /\ x # e => Key(x)' = Key(x)
                              /\ proc'[x].N_RUN = proc[x].N_RUN /\ proc'[x].ctime = proc[x].ctime
        BY <2>7 DEF SchedInv, TypeOK, ProcType, Key
    <3> QED
        BY <3>1, <3>2, <3>3, ScanBest
  <2>9. e + 1 \in 1..NPROC+1 /\ \A x \in S \cup {e} : x < e + 1
      BY <1>1, <2>3, <2>4, SchedulerAssumption DEF SchedInv, ScanInv, Slots
  <2>10. proc' \in [Slots -> ProcType] /\ \A x \in Slots : proc'[x].state = proc[x].state
      BY <2>7 DEF SchedInv, TypeOK, ProcType
  <2>11. best \in CpuType /\ best.pc = k.pc /\ best.seen = S /\ best.proc = k.proc
    <3>1. best = IF Better(k, e, d) THEN [k EXCEPT !.min = e, !.minprio = d] ELSE k
        BY <2>2, <2>3
    <3> HIDE DEF best, dyn, p, q, k
    <3>2. e \in 0..NPROC
        BY DEF Slots
    <3>3. ASSUME NEW r, r = [k EXCEPT !.min = e, !.minprio = d]
          PROVE  r \in CpuType /\ r.pc = k.pc /\ r.seen = k.seen /\ r.proc = k.proc
        BY ZenonT(30), <1>1, <3>2, <3>3 DEF CpuType
    <3> QED
        BY ZenonT(30), <1>1, <2>4, <3>1, <3>3
  <2>12. best.min = n /\ best.minprio = Key(n)'
      BY ZenonT(30), <1>1, <2>2, <2>3, <2>8 DEF CpuType
  <2> HIDE DEF best
  <2>13. cpu'[Boot] = [best EXCEPT !.i = e + 1, !.seen = @ \cup {e}]
      BY ZenonT(30), <2>1, <2>3, SchedulerAssumption DEF SchedInv, TypeOK
  <2>14. /\ cpu'[Boot].pc = k.pc /\ cpu'[Boot].min = n /\ cpu'[Boot].minprio = Key(n)'
         /\ cpu'[Boot].seen = S \cup {e} /\ cpu'[Boot].proc = k.proc /\ cpu'[Boot].i = e + 1
      BY <2>11, <2>12, <2>13 DEF CpuType
  <2>15. cpu'[Boot] \in CpuType
    <3>1. e + 1 \in 0..NPROC+1 /\ S \cup {e} \in SUBSET Slots
        BY <2>9, SchedulerAssumption
    <3>2. [best EXCEPT !.i = e + 1] \in CpuType
        BY ZenonT(30), <2>11, <3>1 DEF CpuType
    <3> QED
        BY ZenonT(30), <2>11, <2>13, <3>1, <3>2 DEF CpuType
  <2>16. TypeOK'
      BY ZenonT(30), <1>3, <2>1, <2>3, <2>10, <2>13, <2>15, SchedulerAssumption DEF SchedInv, TypeOK
  <2>17. RunInv'
      BY ZenonT(30), <1>1, <2>10, <2>14 DEF SchedInv, RunInv, Running
  <2>18. n # 0
      BY <2>8 DEF Slots
  <2>19. BestInv'
      BY ZenonT(30), <2>8, <2>14, <2>18 DEF BestInv
  <2>20. ScanInv'
      BY <1>1, <2>9, <2>14 DEF ScanInv
  <2> QED
      BY ZenonT(30), <2>16, <2>17, <2>19, <2>20 DEF SchedInv
<1> QED
    BY ZenonT(30), <1>4, <1>5

LEMMA ScanEndInv == ASSUME SchedInv, ScanEnd(Boot) PROVE SchedInv'
<1> DEFINE k == cpu[Boot]
<1>1. /\ k \in CpuType /\ k.pc = "scan" /\ k.proc = 0 /\ schedLock' = 0
      /\ UNCHANGED <<proc, lock, ticks, panic>>
    BY SchedulerAssumption DEF SchedInv, TypeOK, RunInv, ScanEnd, Running
<1>2. cpu' = [cpu EXCEPT ![Boot] = IF k.min = 0 THEN Idle ELSE [k EXCEPT !.pc = "check"]]
    BY DEF ScanEnd
<1>3. CASE k.min = 0
  <2>1. cpu' = [cpu EXCEPT ![Boot] = Idle]
      BY ZenonT(30), <1>2, <1>3
  <2>2. cpu'[Boot] = Idle /\ TypeOK'
      BY ZenonT(30), <1>1, <2>1, IdleType, SchedulerAssumption DEF SchedInv, TypeOK
  <2>3. cpu'[Boot].pc = "idle" /\ cpu'[Boot].proc = 0
      BY <2>2 DEF Idle, Locals
  <2>4. RunInv'
      BY ZenonT(30), <1>1, <2>3 DEF SchedInv, RunInv, Running
  <2> QED
      BY ZenonT(30), <2>2, <2>3, <2>4, ScanOver DEF SchedInv
<1>4. CASE k.min # 0
  <2>1. cpu' = [cpu EXCEPT ![Boot].pc = "check"]
      BY <1>2, <1>4
  <2>2. /\ cpu'[Boot].pc = "check" /\ cpu'[Boot].min = k.min /\ cpu'[Boot].seen = k.seen
        /\ cpu'[Boot].proc = 0 /\ TypeOK'
      BY ZenonT(30), <1>1, <2>1, SchedulerAssumption DEF SchedInv, TypeOK, CpuType, Pcs
  <2>3. RunInv'
      BY ZenonT(30), <1>1, <2>2 DEF SchedInv, RunInv, Running
  <2>4. BestInv'
      BY <1>1, <2>2 DEF SchedInv, BestInv, Scanning, Precedes, Key
  <2>5. ScanInv'
      BY ZenonT(30), <1>4, <2>2 DEF ScanInv
  <2> QED
      BY <2>2, <2>3, <2>4, <2>5 DEF SchedInv
<1> QED
    BY <1>3, <1>4

LEMMA CheckStateInv == ASSUME SchedInv, CheckState(Boot) PROVE SchedInv'
<1> DEFINE k == cpu[Boot]
<1>1. /\ k \in CpuType /\ k.pc = "check" /\ k.proc = 0
      /\ UNCHANGED <<proc, lock, schedLock, ticks, panic>>
    BY SchedulerAssumption DEF SchedInv, TypeOK, RunInv, CheckState, Running
<1>2. cpu' = [cpu EXCEPT ![Boot] = IF proc[k.min].state = "RUNNABLE"
                                   THEN [k EXCEPT !.pc = "lock"] ELSE Idle]
    BY ZenonT(30) DEF CheckState
<1>3. CASE proc[k.min].state # "RUNNABLE"
  <2>1. cpu' = [cpu EXCEPT ![Boot] = Idle]
      BY <1>2, <1>3
  <2>2. cpu'[Boot] = Idle /\ TypeOK'
      BY ZenonT(30), <1>1, <2>1, IdleType, SchedulerAssumption DEF SchedInv, TypeOK
  <2>3. cpu'[Boot].pc = "idle" /\ cpu'[Boot].proc = 0
      BY <2>2 DEF Idle, Locals
  <2>4. RunInv'
      BY ZenonT(30), <1>1, <2>3 DEF SchedInv, RunInv, Running
  <2> QED
      BY <2>2, <2>3, <2>4, ScanOver DEF SchedInv
<1>4. CASE proc[k.min].state = "RUNNABLE"
  <2>1. cpu' = [cpu EXCEPT ![Boot].pc = "lock"]
      BY ZenonT(30), <1>2, <1>4
  <2>2. /\ cpu'[Boot].pc = "lock" /\ cpu'[Boot].min = k.min /\ cpu'[Boot].seen = k.seen
        /\ cpu'[Boot].proc = 0 /\ TypeOK'
      BY ZenonT(30), <1>1, <2>1, SchedulerAssumption DEF SchedInv, TypeOK, CpuType, Pcs
  <2>3. RunInv'
      BY <1>1, <1>4, <2>2 DEF SchedInv, RunInv, Running
  <2>4. BestInv'
      BY <1>1, <2>2 DEF SchedInv, BestInv, Scanning, Precedes, Key
  <2>5. ScanInv'
      BY ZenonT(30), <1>1, <2>2 DEF SchedInv, ScanInv
  <2> QED
      BY ZenonT(30), <2>2, <2>3, <2>4, <2>5 DEF SchedInv
<1> QED
    BY <1>3, <1>4

LEMMA DispatchInv == ASSUME SchedInv, Dispatch(Boot) PROVE SchedInv'
<1>1. cpu[Boot] \in CpuType /\ cpu[Boot].pc = "lock" /\ cpu[Boot].min # 0
    BY ZenonT(30), SchedulerAssumption DEF SchedInv, TypeOK, ScanInv, Dispatch
<1>2. PICK p \in Slots : p = cpu[Boot].min
    BY <1>1, SchedulerAssumption DEF CpuType, Slots
<1>3. /\ proc' = [proc EXCEPT ![p].state = "RUNNING"]
      /\ cpu' = [cpu EXCEPT ![Boot] = Locals("run", 0, 0, p)]
      /\ UNCHANGED <<lock, schedLock, ticks, panic>>
    BY <1>2 DEF Dispatch
<1>4. Locals("run", 0, 0, p) \in CpuType
    BY SchedulerAssumption DEF Locals, CpuType, Pcs, Slots
<1>5. cpu'[Boot] \in CpuType /\ cpu'[Boot].pc = "run" /\ cpu'[Boot].proc = p
    BY ZenonT(30), <1>3, <1>4, SchedulerAssumption DEF SchedInv, TypeOK, Locals
<1>6. \A q \in Slots : /\ proc'[q] \in ProcType
                       /\ proc'[q].state = IF q = p THEN "RUNNING" ELSE proc[q].state
    BY <1>3 DEF SchedInv, TypeOK, ProcType, States
<1>7. TypeOK'
    BY <1>3, <1>5, <1>6, SchedulerAssumption DEF SchedInv, TypeOK
<1>8. RunInv'
    BY <1>1, <1>5, <1>6 DEF SchedInv, RunInv, Running, Slots
<1> QED
    BY ZenonT(30), <1>5, <1>7, <1>8, ScanOver DEF SchedInv

\* sched(): the process on the CPU gets another state, whatever the clock did to the table.
LEMMA LeaveInv ==
    ASSUME SchedInv, NEW state \in {"SLEEPING", "ZOMBIE", "RUNNABLE"},
           NEW table \in [Slots -> ProcType], \A p \in Slots : table[p].state = proc[p].state,
           Leave(Boot, state, table), ticks' \in 0..MAXTICKS
    PROVE  SchedInv'
<1>1. cpu[Boot] \in CpuType /\ cpu[Boot].pc = "run" /\ Running(Boot) # 0
    BY ZenonT(30), SchedulerAssumption DEF SchedInv, TypeOK, RunInv, Leave
<1>2. PICK p \in Slots : p = Running(Boot)
    BY <1>1, SchedulerAssumption DEF CpuType, Slots, Running
<1>3. /\ proc' = [table EXCEPT ![p].state = state] /\ lock' = [lock EXCEPT ![p] = Boot]
      /\ cpu' = [cpu EXCEPT ![Boot].pc = "swtch"] /\ UNCHANGED <<schedLock, panic>>
    BY <1>2 DEF Leave
<1>4. \A q \in Slots : /\ proc'[q] \in ProcType
                       /\ proc'[q].state = IF q = p THEN state ELSE proc[q].state
    BY <1>3 DEF ProcType, States
<1>5. cpu' \in [CPUs -> CpuType] /\ cpu'[Boot].pc = "swtch" /\ cpu'[Boot].proc = p
    BY ZenonT(30), <1>1, <1>2, <1>3, SchedulerAssumption DEF SchedInv, TypeOK, CpuType, Pcs, Running
<1>6. TypeOK'
    BY ZenonT(30), <1>3, <1>4, <1>5, SchedulerAssumption DEF SchedInv, TypeOK
<1>7. RunInv'
    BY <1>1, <1>2, <1>4, <1>5 DEF SchedInv, RunInv, Running, Slots
<1> QED
    BY <1>5, <1>6, <1>7, ScanOver DEF SchedInv

LEMMA SleepExitInv == ASSUME SchedInv, Sleep(Boot) \/ Exit(Boot) PROVE SchedInv'
<1>1. PICK table \in [Slots -> ProcType] : table = proc
    BY DEF SchedInv, TypeOK
<1>2. ticks' \in 0..MAXTICKS
    BY DEF SchedInv, TypeOK, Sleep, Exit
<1>3. Leave(Boot, "SLEEPING", table) \/ Leave(Boot, "ZOMBIE", table)
    BY ZenonT(30), <1>1 DEF Sleep, Exit
<1> QED
    BY ZenonT(30), <1>1, <1>2, <1>3, LeaveInv

LEMMA TimerYieldInv == ASSUME SchedInv, TimerYield(Boot) PROVE SchedInv'
<1>1. /\ update_time \in [Slots -> ProcType]
      /\ \A p \in Slots : update_time[p].state = proc[p].state
    BY ZenonT(30), UpdateTime DEF SchedInv, TypeOK
<1>2. PICK table \in [Slots -> ProcType] : table = update_time
    BY ZenonT(30), <1>1
<1>3. ticks' \in 0..MAXTICKS
    BY SchedulerAssumption DEF SchedInv, TypeOK, TimerYield, Inc
<1>4. Leave(Boot, "RUNNABLE", table)
    BY <1>2 DEF TimerYield
<1> QED
    BY ZenonT(30), <1>1, <1>2, <1>3, <1>4, LeaveInv

LEMMA SwitchBackInv == ASSUME SchedInv, SwitchBack(Boot) PROVE SchedInv'
<1>1. /\ cpu[Boot].pc = "swtch" /\ lock' = [lock EXCEPT ![Running(Boot)] = 0]
      /\ cpu' = [cpu EXCEPT ![Boot] = Idle] /\ UNCHANGED <<proc, schedLock, ticks, panic>>
    BY ZenonT(30) DEF SwitchBack
<1>2. cpu'[Boot] = Idle /\ cpu' \in [CPUs -> CpuType]
    BY <1>1, IdleType, SchedulerAssumption DEF SchedInv, TypeOK
<1>3. TypeOK'
    BY ZenonT(30), <1>1, <1>2 DEF SchedInv, TypeOK
<1>4. cpu'[Boot].pc = "idle" /\ cpu'[Boot].proc = 0
    BY <1>2 DEF Idle, Locals
<1>5. RunInv'
    BY ZenonT(30), <1>1, <1>4 DEF SchedInv, RunInv, Running
<1> QED
    BY ZenonT(30), <1>3, <1>4, <1>5, ScanOver DEF SchedInv

LEMMA TimerIdleInv == ASSUME SchedInv, TimerIdle PROVE SchedInv'
<1>1. proc' = update_time /\ UNCHANGED <<lock, schedLock, cpu, panic>>
    BY DEF TimerIdle
<1>2. ticks' \in 0..MAXTICKS
    BY SchedulerAssumption DEF SchedInv, TypeOK, TimerIdle, Inc
<1>3. /\ proc' \in [Slots -> ProcType]
      /\ \A p \in Slots : /\ proc'[p].state = proc[p].state
                          /\ proc'[p].ctime = proc[p].ctime
                          /\ proc'[p].N_RUN = proc[p].N_RUN
                          /\ proc'[p].DYNAMIC = proc[p].DYNAMIC
    BY ZenonT(30), <1>1, UpdateTime DEF SchedInv, TypeOK
<1>4. TypeOK'
    BY <1>1, <1>2, <1>3 DEF SchedInv, TypeOK
<1>5. BestInv' /\ ScanInv'
    BY ZenonT(30), <1>1, <1>3, ScanKept
<1>6. cpu[Boot].pc = "lock" => cpu[Boot].min \in Slots
    BY SchedulerAssumption DEF SchedInv, TypeOK, CpuType, ScanInv, Slots
<1>7. RunInv'
    BY <1>1, <1>3, <1>6 DEF SchedInv, RunInv, Running
<1> QED
    BY ZenonT(30), <1>4, <1>5, <1>7 DEF SchedInv

LEMMA WakeupInv == ASSUME SchedInv, NEW p \in Slots, Wakeup(Boot, p) PROVE SchedInv'
<1>1. /\ proc' = [proc EXCEPT ![p].state = "RUNNABLE"] /\ proc[p].state = "SLEEPING"
      /\ UNCHANGED <<lock, schedLock, cpu, ticks, panic>>
    BY DEF Wakeup
<1>2. \A q \in Slots : /\ proc'[q] \in ProcType
                       /\ proc'[q].state = IF q = p THEN "RUNNABLE" ELSE proc[q].state
                       /\ proc'[q].ctime = proc[q].ctime
                       /\ proc'[q].N_RUN = proc[q].N_RUN
                       /\ proc'[q].DYNAMIC = proc[q].DYNAMIC
    BY <1>1 DEF SchedInv, TypeOK, ProcType, States
<1>3. TypeOK'
    BY ZenonT(30), <1>1, <1>2 DEF SchedInv, TypeOK
<1>4. BestInv' /\ ScanInv'
    BY <1>1, <1>2, ScanKept
<1>5. cpu[Boot].pc = "lock" => cpu[Boot].min \in Slots
    BY SchedulerAssumption DEF SchedInv, TypeOK, CpuType, ScanInv, Slots
<1>6. RunInv'
    BY <1>1, <1>2, <1>5 DEF SchedInv, RunInv, Running
<1> QED
    BY ZenonT(30), <1>3, <1>4, <1>6 DEF SchedInv

\* A step of the process on the CPU that changes slots of the table but no RUNNING one.
LEMMA TableInv ==
    ASSUME SchedInv, cpu[Boot].pc = "run", UNCHANGED <<lock, schedLock, cpu, ticks>>,
           panic' \in BOOLEAN, proc' \in [Slots -> ProcType],
           \A p \in Slots : proc'[p].state = "RUNNING" <=> proc[p].state = "RUNNING"
    PROVE  SchedInv'
<1>1. TypeOK'
    BY ZenonT(30) DEF SchedInv, TypeOK
<1>2. RunInv'
    BY ZenonT(30) DEF SchedInv, RunInv, Running
<1> QED
    BY ZenonT(30), <1>1, <1>2, ScanOver DEF SchedInv

LEMMA ForkInv == ASSUME SchedInv, Fork(Boot) PROVE SchedInv'
<1>1. PICK p \in Slots : p = First(Unused) /\ proc[p].state = "UNUSED"
    BY ZenonT(30), FirstUnused DEF Fork, Unused
<1>2. PICK new \in ProcType : new = NewProc("RUNNABLE", ticks)
    BY ZenonT(30), NewProcType DEF SchedInv, TypeOK
<1>3. new.state = "RUNNABLE"
    BY ZenonT(30), <1>2 DEF NewProc
<1>4. /\ proc' = [proc EXCEPT ![p] = new] /\ cpu[Boot].pc = "run"
      /\ UNCHANGED <<lock, schedLock, cpu, ticks, panic>>
    BY ZenonT(30), <1>1, <1>2 DEF Fork
<1>5. /\ proc' \in [Slots -> ProcType]
      /\ \A q \in Slots : proc'[q] = IF q = p THEN new ELSE proc[q]
    BY ZenonT(30), <1>4 DEF SchedInv, TypeOK
<1>6. panic' \in BOOLEAN
    BY ZenonT(30), <1>4 DEF SchedInv, TypeOK
<1>7. \A q \in Slots : proc'[q].state = "RUNNING" <=> proc[q].state = "RUNNING"
    BY ZenonT(30), <1>1, <1>3, <1>5
<1> QED
    BY ZenonT(30), <1>4, <1>5, <1>6, <1>7, TableInv

LEMMA ReapInv == ASSUME SchedInv, NEW p \in Slots, Reap(Boot, p) PROVE SchedInv'
<1>1. /\ proc' = [proc EXCEPT ![p].state = "UNUSED"] /\ proc[p].state = "ZOMBIE"
      /\ cpu[Boot].pc = "run" /\ UNCHANGED <<lock, schedLock, cpu, ticks, panic>>
    BY DEF Reap
<1>2. \A q \in Slots : /\ proc'[q] \in ProcType
                       /\ proc'[q].state = IF q = p THEN "UNUSED" ELSE proc[q].state
    BY <1>1 DEF SchedInv, TypeOK, ProcType, States
<1>3. proc' \in [Slots -> ProcType] /\ panic' \in BOOLEAN
    BY <1>1, <1>2 DEF SchedInv, TypeOK
<1>4. \A q \in Slots : proc'[q].state = "RUNNING" <=> proc[q].state = "RUNNING"
    BY <1>1, <1>2
<1> QED
    BY <1>1, <1>3, <1>4, TableInv

LEMMA SetPriorityInv ==
    ASSUME SchedInv, NEW new \in NEWPRIOS, NEW q \in 1..NPROC+1, SetPriority(Boot, new, q)
    PROVE  SchedInv'
<1> DEFINE dyn(s) == DynamicPrio(proc[s].STATIC, proc[s].RTime, proc[s].STime, proc[s].WTime)
<1>1. /\ cpu[Boot].pc = "run" /\ UNCHANGED <<lock, schedLock, cpu, ticks>>
      /\ proc' = [s \in Slots |-> IF s < q THEN [proc[s] EXCEPT !.DYNAMIC = dyn(s)]
                                  ELSE IF s = q THEN [proc[s] EXCEPT !.STATIC = new]
                                  ELSE proc[s]]
    BY DEF SetPriority
<1>2. panic' \in BOOLEAN
  <2>1. \A a, b \in Int : ULess(a, b) \in BOOLEAN
    <3>1. \A a, b \in Int : ULess(a, b) = TRUE \/ ULess(a, b) = FALSE
        BY DEF ULess
    <3> QED
        BY <3>1, Zenon
  <2>2. q \in Slots => panic' = ULess(proc[q].DYNAMIC, IF q = 1 THEN NOTFOUND ELSE proc[q - 1].DYNAMIC)
      BY DEF SetPriority
  <2>3. q \notin Slots => panic' \in BOOLEAN
      BY ZenonT(30) DEF SetPriority
  <2>4. q \in Slots => proc[q].DYNAMIC \in Int /\ (q # 1 => proc[q - 1].DYNAMIC \in Int)
    <3>1. q \in Slots /\ q # 1 => q - 1 \in Slots
        BY SchedulerAssumption DEF Slots
    <3>2. \A s \in Slots : proc[s].DYNAMIC \in Int
        BY DEF SchedInv, TypeOK, ProcType
    <3> QED
        BY ZenonT(30), <3>1, <3>2
  <2>5. NOTFOUND \in Int
      BY DEF NOTFOUND
  <2>6. q \in Slots => (IF q = 1 THEN NOTFOUND ELSE proc[q - 1].DYNAMIC) \in Int
      BY ZenonT(30), <2>4, <2>5
  <2> QED
      BY <2>1, <2>2, <2>3, <2>4, <2>6, Zenon
<1>3. \A s \in Slots : proc[s] \in ProcType /\ dyn(s) \in Int
  <2>1. ASSUME NEW s \in Slots
        PROVE  /\ proc[s] \in ProcType /\ proc[s].STATIC \in Nat
               /\ proc[s].RTime \in Nat /\ proc[s].STime \in Nat /\ proc[s].WTime \in Nat
      BY SchedulerAssumption DEF SchedInv, TypeOK, ProcType, MAX_PRIO
  <2> QED
      BY ZenonT(30), <2>1, PrioType
<1>4. new \in 0..MAX_PRIO
    BY ZenonT(30), SchedulerAssumption
<1> HIDE DEF dyn
<1>5. \A s \in Slots : proc'[s] \in ProcType /\ proc'[s].state = proc[s].state
    BY <1>1, <1>3, <1>4 DEF ProcType
<1>6. proc' \in [Slots -> ProcType]
    BY <1>1, <1>5
<1> QED
    BY ZenonT(30), <1>1, <1>2, <1>5, <1>6, TableInv

-----------------------------------------------------------------------------
LEMMA NextInv == ASSUME CPUs = {Boot}, SchedInv, [Next]_vars PROVE SchedInv'
<1>1. CASE UNCHANGED vars
  <2>1. TypeOK' /\ RunInv' /\ UNCHANGED cpu /\ UNCHANGED proc
      BY <1>1 DEF SchedInv, TypeOK, RunInv, Running, vars
  <2> QED
      BY ZenonT(30), <2>1, ScanKept DEF SchedInv
<1>2. CASE SchedulerStep(Boot)
    BY ZenonT(30), <1>2, ScanBeginInv, ScanStepInv, ScanEndInv, CheckStateInv, DispatchInv, SwitchBackInv
       DEF SchedulerStep
<1>3. CASE TimerYield(Boot) \/ Sleep(Boot) \/ Exit(Boot) \/ Fork(Boot) \/ TimerIdle
    BY ZenonT(30), <1>3, TimerYieldInv, SleepExitInv, ForkInv, TimerIdleInv
<1>4. CASE \E p \in Slots : Reap(Boot, p) \/ Wakeup(Boot, p)
    BY ZenonT(30), <1>4, ReapInv, WakeupInv
<1>5. CASE \E new \in NEWPRIOS, q \in 1..NPROC+1 : SetPriority(Boot, new, q)
    BY ZenonT(30), <1>5, SetPriorityInv
<1> QED
    BY ZenonT(30), <1>1, <1>2, <1>3, <1>4, <1>5 DEF Next

\* On one CPU, for any table, clock bound and priorities: a process is RUNNING exactly while
\* it is on the CPU, only a RUNNABLE one is switched to, and the one that scheduler()
\* chooses comes before every RUNNABLE process the scan saw, whatever fork(), wakeup(),
\* the clock and set_priority() did around it.
THEOREM ScanSoundThm == CPUs = {Boot} => (Spec => []ScanSound)
<1> SUFFICES ASSUME CPUs = {Boot} PROVE Spec => []ScanSound
    OBVIOUS
<1>1. Init => SchedInv
    BY ZenonT(30), InitInv
<1>2. SchedInv /\ [Next]_vars => SchedInv'
    BY ZenonT(30), NextInv
<1>3. SchedInv => ScanSound
    BY SchedulerAssumption DEF SchedInv, ScanSound, RunInv, BestInv, RunsOnOneCpu, ChosenIsBest, OneCpu, Scanning
<1> QED
    BY <1>1, <1>2, <1>3, PTL DEF Spec
=============================================================================
