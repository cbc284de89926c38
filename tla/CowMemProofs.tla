---------------------------- MODULE CowMemProofs ----------------------------
(***************************************************************************)
(* Every action of CowMem keeps the invariant: NoDangling and              *)
(* NoSharedWritable hold for any number of processes, pages and page sizes *)
(* of an address space.  First when a step of a kernel path keeps it, and  *)
(* the steps that neither map nor allocate a page: the entries and exits   *)
(* of the system calls, exec() between its phases, fork(), exit() and      *)
(* wait(); then the steps that allocate, map, copy and free.               *)
(***************************************************************************)
EXTENDS CowMemSteps

USE SMTT(30)

\* When a step keeps the invariant, beyond types and counts: every writable
\* PTE, and every page about to be mapped writable, either stays what it was or
\* is the only holder of its page, and what fork is sharing stays read-only.
LEMMA KeepInv ==
    ASSUME CowInv, MemType', NoDangling', TableType', OpInv', NEW X, SoleKept(X),
           \A t \in Tables, a \in UserVA :
              ref'[Pte(t, a)] # NULL /\ "W" \in flags'[t][a] =>
                 \/ Pte(t, a) \notin X /\ ref'[Pte(t, a)] = ref[Pte(t, a)] /\ "W" \in flags[t][a]
                 \/ refcnt'[ref'[Pte(t, a)]] = 1,
           \A q \in Procs : op'[q].pc \in FreshPcs /\ ref'[Mem(q)] # NULL =>
              \/ Mem(q) \notin X /\ op[q].pc \in FreshPcs /\ ref'[Mem(q)] = ref[Mem(q)]
              \/ refcnt'[ref'[Mem(q)]] = 1,
           panic' = "none" => panic = "none",
           panic' = "none" => \A q \in Procs : op'[q].pc = "share_map" =>
              \/ "W" \notin flags'[Cur(q)'][op'[q].a]
              \/ /\ op[q].pc = "share_map" /\ op'[q].a = op[q].a /\ cur'[q] = cur[q]
                 /\ "W" \in flags'[Cur(q)][op[q].a] => "W" \in flags[Cur(q)][op[q].a]
    PROVE  CowInv'
<1>1. NoSharedWritable'
  <2>1. SUFFICES ASSUME NEW t \in Tables, NEW a \in UserVA,
                        ref'[Pte(t, a)] # NULL, "W" \in flags'[t][a]
                 PROVE  refcnt'[ref'[Pte(t, a)]] = 1
      BY ZenonT(30) DEF NoSharedWritable, Mapped
  <2>2. Pte(t, a) \in Holders
      BY ZenonT(30), HolderFacts
  <2>3. CASE Pte(t, a) \notin X /\ ref'[Pte(t, a)] = ref[Pte(t, a)] /\ "W" \in flags[t][a]
    <3>1. refcnt[ref[Pte(t, a)]] = 1
        BY ZenonT(30), <2>1, <2>3 DEF CowInv, NoSharedWritable, Mapped
    <3> QED
        BY <2>1, <2>2, <2>3, <3>1 DEF SoleKept
  <2> QED
      BY ZenonT(30), <2>1, <2>3
<1>2. Fresh'
  <2>1. SUFFICES ASSUME NEW q \in Procs, op'[q].pc \in FreshPcs, ref'[Mem(q)] # NULL
                 PROVE  refcnt'[ref'[Mem(q)]] = 1
      BY ZenonT(30) DEF Fresh
  <2>2. Mem(q) \in Holders
      BY HolderFacts
  <2>3. CASE Mem(q) \notin X /\ op[q].pc \in FreshPcs /\ ref'[Mem(q)] = ref[Mem(q)]
    <3>1. refcnt[ref[Mem(q)]] = 1
        BY <2>1, <2>3 DEF CowInv, Fresh
    <3> QED
        BY ZenonT(30), <2>1, <2>2, <2>3, <3>1 DEF SoleKept
  <2> QED
      BY ZenonT(30), <2>1, <2>3
<1>3. ReadOnly'
  <2>1. SUFFICES ASSUME panic' = "none", NEW q \in Procs, op'[q].pc = "share_map"
                 PROVE  "W" \notin flags'[Cur(q)'][op'[q].a]
      BY ZenonT(30) DEF ReadOnly
  <2>2. ASSUME op[q].pc = "share_map", op'[q].a = op[q].a, cur'[q] = cur[q],
               "W" \in flags'[Cur(q)][op[q].a] => "W" \in flags[Cur(q)][op[q].a]
        PROVE  "W" \notin flags'[Cur(q)'][op'[q].a]
    <3>1. Cur(q)' = Cur(q)
        BY ZenonT(30), <2>2 DEF Cur
    <3>2. "W" \notin flags[Cur(q)][op[q].a]
        BY ZenonT(30), <2>1, <2>2 DEF CowInv, ReadOnly
    <3> QED
        BY ZenonT(30), <2>2, <3>1, <3>2
  <2> QED
      BY ZenonT(30), <2>1, <2>2
<1> QED
    BY ZenonT(30), <1>1, <1>2, <1>3 DEF CowInv

\* The usual case: no PTE becomes writable and no path comes to a mapping.
LEMMA StepInv ==
    ASSUME CowInv, MemType', NoDangling', TableType', OpInv', SoleKept({}),
           panic' = "none" => panic = "none",
           \A t \in Tables, a \in UserVA :
              /\ ref'[Pte(t, a)] \in {ref[Pte(t, a)], NULL}
              /\ "W" \in flags'[t][a] => "W" \in flags[t][a],
           \A q \in Procs : op'[q].pc \in {"cow_map", "alloc_map", "share_map"} =>
              /\ op'[q] = op[q] /\ cur'[q] = cur[q]
              /\ ref'[Mem(q)] \in {ref[Mem(q)], NULL}
    PROVE  CowInv'
<1>1. \A t \in Tables, a \in UserVA : ref'[Pte(t, a)] # NULL /\ "W" \in flags'[t][a] =>
              Pte(t, a) \notin {} /\ ref'[Pte(t, a)] = ref[Pte(t, a)] /\ "W" \in flags[t][a]
    BY ZenonT(30)
<1>2. \A q \in Procs : op'[q].pc \in FreshPcs /\ ref'[Mem(q)] # NULL =>
              Mem(q) \notin {} /\ op[q].pc \in FreshPcs /\ ref'[Mem(q)] = ref[Mem(q)]
    BY ZenonT(30) DEF FreshPcs
<1>3. ASSUME NEW q \in Procs, op'[q].pc = "share_map"
      PROVE  /\ op[q].pc = "share_map" /\ op'[q].a = op[q].a /\ cur'[q] = cur[q]
             /\ "W" \in flags'[Cur(q)][op[q].a] => "W" \in flags[Cur(q)][op[q].a]
  <2>1. op'[q] = op[q] /\ cur'[q] = cur[q]
      BY ZenonT(30), <1>3
  <2>2. Cur(q) \in Tables /\ op[q].a \in UserVA
      BY ZenonT(30), <1>3, <2>1 DEF CowInv, TableType, OpInv, OpOK, Cur, Tables
  <2> QED
      BY ZenonT(30), <1>3, <2>1, <2>2
<1> QED
    BY ZenonT(30), <1>1, <1>2, <1>3, KeepInv

\* ... and the pages are not touched at all.
LEMMA QuietInv ==
    ASSUME CowInv, TableType', OpInv', UNCHANGED <<freelist, refcnt, junk, ref>>,
           panic' = "none" => panic = "none",
           \A t \in Tables, a \in UserVA : "W" \in flags'[t][a] => "W" \in flags[t][a],
           \A q \in Procs : op'[q].pc \in {"cow_map", "alloc_map", "share_map"} =>
              op'[q] = op[q] /\ cur'[q] = cur[q]
    PROVE  CowInv'
<1>1. MemType' /\ NoDangling' /\ SoleKept({})
    BY ZenonT(30), MemQuiet DEF CowInv
<1> QED
    BY ZenonT(30), <1>1, StepInv

\* One process changes its locals, and comes to no mapping.
LEMMA LocalInv ==
    ASSUME CowInv, NEW p \in Procs, NEW o, OpOK(p, o), op' = [op EXCEPT ![p] = o],
           o.pc \notin {"cow_map", "alloc_map", "share_map"},
           UNCHANGED <<freelist, refcnt, junk, ref, flags, cur>>,
           panic' = "none" => panic = "none", sz' \in [Procs -> 0..MAXPAGES]
    PROVE  CowInv'
<1>1. OpInv' /\ TableType'
    BY ZenonT(30), OpUpdate DEF CowInv, TableType
<1>2. op'[p] = o /\ \A q \in Procs \ {p} : op'[q] = op[q]
    BY ZenonT(30) DEF CowInv, OpInv
<1> QED
    BY ZenonT(30), <1>1, <1>2, QuietInv

-----------------------------------------------------------------------------
LEMMA FreeInv ==
    ASSUME CowInv, NEW p \in Procs, NEW todo \in Seq(Holders), Free(p, todo),
           UNCHANGED <<freelist, refcnt, junk, panic, ref, flags, cur, sz>>
    PROVE  CowInv'
<1>1. OpInv' /\ op'[p].pc = "free" /\ \A q \in Procs \ {p} : op'[q] = op[q]
    BY ZenonT(30), FreeOp DEF CowInv
<1>2. TableType'
    BY DEF CowInv, TableType
<1> QED
    BY ZenonT(30), <1>1, <1>2, QuietInv

LEMMA ExitInv ==
    ASSUME CowInv, NEW p \in Procs, panic = "none", Exit(p), UNCHANGED <<ref, flags, cur, sz>>
    PROVE  CowInv'
<1>1. CASE p = InitProc
  <2>1. UNCHANGED <<freelist, refcnt, junk, op>>
      BY ZenonT(30), <1>1 DEF Exit
  <2>2. OpInv' /\ TableType'
      BY <2>1 DEF CowInv, OpInv, TableType
  <2> QED
      BY ZenonT(30), <2>1, <2>2, QuietInv
<1>2. CASE p # InitProc
  <2>1. op' = [op EXCEPT ![p] = Idle("zombie")] /\ UNCHANGED <<freelist, refcnt, junk, panic>>
      BY ZenonT(30), <1>2 DEF Exit, kmemVars
  <2>2. OpOK(p, Idle("zombie")) /\ Idle("zombie").pc = "zombie"
      BY ZenonT(30), IdleOK DEF Idle, User
  <2>3. sz' \in [Procs -> 0..MAXPAGES]
      BY DEF CowInv, TableType
  <2> QED
      BY ZenonT(30), <2>1, <2>2, <2>3, LocalInv
<1> QED
    BY ZenonT(30), <1>1, <1>2

LEMMA CurType ==
    ASSUME CowInv, NEW p \in Procs
    PROVE  Cur(p) \in Tables /\ Spare(p) \in Tables /\ Cur(p)[1] = p /\ Spare(p)[1] = p
<1>1. cur[p] \in {0, 1}
    BY DEF CowInv, TableType
<1>2. 1 - cur[p] \in {0, 1}
    BY <1>1
<1> QED
    BY ZenonT(30), <1>1, <1>2 DEF Cur, Spare, Tables

LEMMA OpFacts ==
    ASSUME CowInv, NEW p \in Procs
    PROVE  op \in [Procs -> OpType] /\ op[p] \in OpType /\ OpOK(p, op[p]) /\ sz[p] \in 0..MAXPAGES
           /\ sz \in [Procs -> 0..MAXPAGES]
BY DEF CowInv, OpInv, TableType

LEMMA UserStoreInv ==
    ASSUME CowInv, NEW p \in Procs, NEW a, NEW v, UserStore(p, a, v)
    PROVE  CowInv'
<1>1. UNCHANGED <<freelist, refcnt, junk, panic, ref, flags, cur, sz, op>>
    BY DEF UserStore
<1>2. OpInv' /\ TableType'
    BY ZenonT(30), <1>1 DEF CowInv, OpInv, TableType
<1> QED
    BY ZenonT(30), <1>1, <1>2, QuietInv

LEMMA PageFaultInv ==
    ASSUME CowInv, NEW p \in Procs, NEW a \in UserVA, NEW atZero, PageFault(p, a, atZero)
    PROVE  CowInv'
<1>1. UNCHANGED <<ref, flags, cur, sz>> /\ panic = "none"
    BY DEF PageFault, At
<1>2. CASE Exit(p)
    BY ZenonT(30), <1>1, <1>2, ExitInv
<1>3. CASE ~Exit(p)
  <2> DEFINE o == [User EXCEPT !.pc = "cow", !.tab = Cur(p), !.a = a, !.next = "fault"]
  <2>1. op' = [op EXCEPT ![p] = o] /\ UNCHANGED <<freelist, refcnt, junk, panic>>
      BY ZenonT(30), <1>3 DEF PageFault, kmemVars
  <2>2. Cur(p) \in Tables /\ Cur(p)[1] = p /\ a \in Nat /\ << >> \in Seq(Holders) /\ 0 \in 0..MAXPAGES
      BY CurType, CowAssumption DEF UserVA
  <2>3. o \in OpType /\ o.pc = "cow" /\ o.tab = Cur(p) /\ o.a = a /\ o.next = "fault"
      BY ZenonT(30), <2>2 DEF User, OpType, OpPcs, Nexts
  <2> HIDE DEF o
  <2>4. OpOK(p, o)
      BY ZenonT(30), <2>2, <2>3 DEF OpOK
  <2> QED
      BY ZenonT(30), <1>1, <2>1, <2>3, <2>4, OpFacts, LocalInv
<1> QED
    BY ZenonT(30), <1>2, <1>3

LEMMA CopyoutInv ==
    ASSUME CowInv, NEW p \in Procs, NEW a \in UserVA, NEW v \in Vals, Copyout(p, a, v)
    PROVE  CowInv'
<1> DEFINE o == [User EXCEPT !.pc = "cow", !.tab = Cur(p), !.a = a, !.v = v, !.next = "copyout"]
<1>1. op' = [op EXCEPT ![p] = o] /\ UNCHANGED <<freelist, refcnt, junk, panic, ref, flags, cur, sz>>
    BY ZenonT(30) DEF Copyout, kmemVars
<1>2. Cur(p) \in Tables /\ Cur(p)[1] = p /\ a \in Nat /\ << >> \in Seq(Holders) /\ 0 \in 0..MAXPAGES
    BY CurType, CowAssumption DEF UserVA
<1>3. o \in OpType /\ o.pc = "cow" /\ o.tab = Cur(p) /\ o.a = a /\ o.next = "copyout"
    BY ZenonT(30), <1>2 DEF User, OpType, OpPcs, Nexts
<1> HIDE DEF o
<1>4. OpOK(p, o)
    BY ZenonT(30), <1>2, <1>3 DEF OpOK
<1> QED
    BY ZenonT(30), <1>1, <1>3, <1>4, OpFacts, LocalInv

\* A call that returns.
LEMMA ReturnInv ==
    ASSUME CowInv, NEW p \in Procs, op' = [op EXCEPT ![p] = User],
           UNCHANGED <<freelist, refcnt, junk, panic, ref, flags, cur>>,
           sz' \in [Procs -> 0..MAXPAGES]
    PROVE  CowInv'
<1>1. OpOK(p, User) /\ User.pc = "user"
    BY ZenonT(30), IdleOK DEF User
<1> QED
    BY ZenonT(30), <1>1, LocalInv

LEMMA CowFailInv ==
    ASSUME CowInv, NEW p \in Procs, CowFail(p)
    PROVE  CowInv'
<1>1. UNCHANGED <<ref, flags, cur, sz>> /\ op[p].pc = "cow" /\ panic = "none"
    BY ZenonT(30) DEF CowFail, At
<1>2. op[p].next \in {"fault", "copyout", "exec"} /\ op[p].hi \in 0..MAXPAGES
    BY ZenonT(30), <1>1, OpFacts DEF OpOK, OpType
<1>3. CASE op[p].next = "fault"
  <2>1. Exit(p)
      BY ZenonT(30), <1>3 DEF CowFail
  <2> QED
      BY ZenonT(30), <1>1, <2>1, ExitInv
<1>4. CASE op[p].next = "copyout"
  <2>1. op' = [op EXCEPT ![p] = User] /\ UNCHANGED <<freelist, refcnt, junk, panic>>
      BY ZenonT(30), <1>4 DEF CowFail, kmemVars
  <2> QED
      BY ZenonT(30), <1>1, <2>1, OpFacts, ReturnInv
<1>5. CASE op[p].next = "exec"
  <2>1. Free(p, TableSeq(Spare(p), op[p].hi)) /\ UNCHANGED <<freelist, refcnt, junk, panic>>
      BY ZenonT(30), <1>5 DEF CowFail, kmemVars
  <2>2. TableSeq(Spare(p), op[p].hi) \in Seq(Holders)
      BY ZenonT(30), <1>2, CurType, TableSeqType
  <2> QED
      BY ZenonT(30), <1>1, <2>1, <2>2, FreeInv
<1> QED
    BY ZenonT(30), <1>2, <1>3, <1>4, <1>5

LEMMA CopyoutStoreInv ==
    ASSUME CowInv, NEW p \in Procs, CopyoutStore(p)
    PROVE  CowInv'
BY ZenonT(30), OpFacts, ReturnInv DEF CopyoutStore

LEMMA SbrkGrowInv ==
    ASSUME CowInv, NEW p \in Procs, NEW n \in 1..MAXPAGES, SbrkGrow(p, n)
    PROVE  CowInv'
<1> DEFINE o == [User EXCEPT !.pc = "alloc", !.tab = Cur(p), !.a = sz[p],
                             !.lo = sz[p], !.hi = sz[p] + n, !.next = "sbrk"]
<1>1. /\ op' = [op EXCEPT ![p] = o] /\ sz[p] + n <= MAXPAGES
      /\ UNCHANGED <<freelist, refcnt, junk, panic, ref, flags, cur, sz>>
    BY ZenonT(30) DEF SbrkGrow, kmemVars
<1>2. /\ Cur(p) \in Tables /\ Cur(p)[1] = p /\ << >> \in Seq(Holders)
      /\ sz[p] \in 0..MAXPAGES /\ sz[p] \in Nat /\ sz[p] + n \in 0..MAXPAGES
    BY <1>1, CurType, OpFacts, CowAssumption
<1>3. /\ o \in OpType /\ o.pc = "alloc" /\ o.tab = Cur(p) /\ o.a = sz[p] /\ o.hi = sz[p] + n
      /\ o.next = "sbrk"
    BY ZenonT(30), <1>2 DEF User, OpType, OpPcs, Nexts
<1> HIDE DEF o
<1>4. OpOK(p, o)
    BY <1>2, <1>3 DEF OpOK
<1> QED
    BY ZenonT(30), <1>1, <1>3, <1>4, OpFacts, LocalInv

LEMMA SbrkShrinkInv ==
    ASSUME CowInv, NEW p \in Procs, NEW n \in 1..MAXPAGES, SbrkShrink(p, n)
    PROVE  CowInv'
<1> DEFINE todo == Ptes(Cur(p), sz[p] - n, sz[p])
<1> DEFINE o == [User EXCEPT !.pc = "free", !.hi = sz[p] - n, !.todo = todo, !.next = "shrunk"]
<1>1. /\ op' = [op EXCEPT ![p] = o] /\ n <= sz[p]
      /\ UNCHANGED <<freelist, refcnt, junk, panic, ref, flags, cur, sz>>
    BY DEF SbrkShrink, kmemVars
<1>2. sz[p] \in 0..MAXPAGES /\ sz[p] - n \in 0..MAXPAGES /\ sz[p] - n \in Nat /\ 0 \in 0..MAXPAGES
    BY <1>1, OpFacts, CowAssumption
<1>3. todo \in Seq(Holders)
    BY ZenonT(30), <1>2, CurType, PtesType
<1> HIDE DEF todo
<1>4. o \in OpType /\ o.pc = "free"
    BY ZenonT(30), <1>2, <1>3 DEF User, OpType, OpPcs, Nexts
<1> HIDE DEF o
<1>5. OpOK(p, o)
    BY ZenonT(30), <1>4 DEF OpOK
<1> QED
    BY ZenonT(30), <1>1, <1>4, <1>5, OpFacts, LocalInv

LEMMA SbrkDoneInv ==
    ASSUME CowInv, NEW p \in Procs, SbrkDone(p)
    PROVE  CowInv'
<1>1. op' = [op EXCEPT ![p] = User] /\ sz' = [sz EXCEPT ![p] = op[p].hi]
      /\ UNCHANGED <<freelist, refcnt, junk, panic, ref, flags, cur>>
    BY ZenonT(30) DEF SbrkDone, kmemVars
<1>2. sz' \in [Procs -> 0..MAXPAGES]
    BY ZenonT(30), <1>1, OpFacts DEF OpType
<1> QED
    BY ZenonT(30), <1>1, <1>2, ReturnInv

LEMMA ExecBeginInv ==
    ASSUME CowInv, NEW p \in Procs, NEW v \in Vals, ExecBegin(p, v)
    PROVE  CowInv'
<1> DEFINE o == [User EXCEPT !.pc = "exec_root", !.tab = Spare(p), !.v = v, !.next = "exec_text"]
<1>1. op' = [op EXCEPT ![p] = o] /\ UNCHANGED <<freelist, refcnt, junk, panic, ref, flags, cur, sz>>
    BY ZenonT(30) DEF ExecBegin, kmemVars
<1>2. Spare(p) \in Tables /\ Spare(p)[1] = p /\ << >> \in Seq(Holders) /\ 0 \in 0..MAXPAGES
    BY CurType, CowAssumption
<1>3. o \in OpType /\ o.pc = "exec_root" /\ o.tab = Spare(p) /\ o.a = 0 /\ o.next = "exec_text"
    BY ZenonT(30), <1>2 DEF User, OpType, OpPcs, Nexts
<1> HIDE DEF o
<1>4. OpOK(p, o)
    BY ZenonT(30), <1>2, <1>3 DEF OpOK
<1> QED
    BY ZenonT(30), <1>1, <1>3, <1>4, OpFacts, LocalInv

LEMMA ExecTextInv ==
    ASSUME CowInv, NEW p \in Procs, ExecText(p)
    PROVE  CowInv'
<1> DEFINE o == [op[p] EXCEPT !.pc = "alloc", !.hi = TEXTPAGES]
<1>1. op[p].pc = "exec_load" /\ UNCHANGED <<freelist, refcnt, junk, panic, ref, flags, cur, sz>>
    BY DEF ExecText, At, kmemVars
<1>2. op' = [op EXCEPT ![p] = o]
    BY ZenonT(30), OpFacts DEF ExecText, OpType
<1>3. /\ op[p] \in OpType /\ op[p].tab \in Tables /\ op[p].tab[1] = p
      /\ op[p].next = "exec_text" /\ op[p].a = 0
    BY ZenonT(30), <1>1, OpFacts DEF OpOK
<1>4. /\ o \in OpType /\ o.pc = "alloc" /\ o.tab = op[p].tab /\ o.a = 0 /\ o.hi = TEXTPAGES
      /\ o.next = "exec_text"
  <2>1. TEXTPAGES \in 0..MAXPAGES
      BY CowAssumption
  <2> QED
      BY ZenonT(30), <1>3, <2>1 DEF OpType, OpPcs
<1> HIDE DEF o
<1>5. OpOK(p, o)
    BY <1>3, <1>4, CowAssumption DEF OpOK
<1> QED
    BY ZenonT(30), <1>1, <1>2, <1>4, <1>5, OpFacts, LocalInv

LEMMA ExecStackInv ==
    ASSUME CowInv, NEW p \in Procs, ExecStack(p)
    PROVE  CowInv'
<1> DEFINE o == [op[p] EXCEPT !.next = "exec_stack", !.lo = op[p].hi, !.hi = op[p].hi + 2]
<1>1. /\ op[p].pc = "alloc" /\ op[p].a = op[p].hi /\ op[p].next = "exec_text"
      /\ UNCHANGED <<freelist, refcnt, junk, panic, ref, flags, cur, sz>>
    BY DEF ExecStack, At, kmemVars
<1>2. op' = [op EXCEPT ![p] = o]
    BY ZenonT(30), OpFacts DEF ExecStack, OpType
<1>3. op[p] \in OpType /\ op[p].tab \in Tables /\ op[p].tab[1] = p /\ op[p].hi = TEXTPAGES
    BY ZenonT(30), <1>1, OpFacts DEF OpOK
<1>4. TEXTPAGES \in 0..MAXPAGES /\ TEXTPAGES + 2 \in 0..MAXPAGES
    BY CowAssumption
<1>5. /\ o \in OpType /\ o.pc = "alloc" /\ o.tab = op[p].tab /\ o.a = TEXTPAGES
      /\ o.hi = TEXTPAGES + 2 /\ o.next = "exec_stack"
    BY ZenonT(30), <1>1, <1>3, <1>4 DEF OpType, Nexts
<1> HIDE DEF o
<1>6. OpOK(p, o)
    BY <1>3, <1>4, <1>5 DEF OpOK
<1> QED
    BY ZenonT(30), <1>1, <1>2, <1>5, <1>6, OpFacts, LocalInv

LEMMA ExecArgsInv ==
    ASSUME CowInv, NEW p \in Procs, ExecArgs(p)
    PROVE  CowInv'
<1> DEFINE hi == op[p].hi
<1> DEFINE o == [op[p] EXCEPT !.pc = "cow", !.a = hi - 1, !.next = "exec"]
<1>1. /\ op[p].pc = "alloc" /\ op[p].next = "exec_stack"
      /\ flags' = [flags EXCEPT ![op[p].tab][hi - 2] = @ \ {"U"}]
      /\ UNCHANGED <<freelist, refcnt, junk, panic, ref, cur, sz>>
    BY ZenonT(30) DEF ExecArgs, At, kmemVars
<1>2. op' = [op EXCEPT ![p] = o]
    BY ZenonT(30), OpFacts DEF ExecArgs, OpType
<1>3. op[p] \in OpType /\ op[p].tab \in Tables /\ op[p].tab[1] = p /\ hi = TEXTPAGES + 2
    BY ZenonT(30), <1>1, OpFacts DEF OpOK
<1>4. hi - 1 \in UserVA /\ hi - 1 \in Nat /\ hi - 2 \in UserVA
    BY <1>3, CowAssumption DEF UserVA
<1>5. o \in OpType /\ o.pc = "cow" /\ o.tab = op[p].tab /\ o.a = hi - 1 /\ o.next = "exec"
    BY ZenonT(30), <1>3, <1>4 DEF OpType, OpPcs, Nexts
<1> HIDE DEF o
<1>6. OpOK(p, o)
    BY ZenonT(30), <1>3, <1>4, <1>5 DEF OpOK
<1>7. OpInv' /\ op'[p] = o /\ \A q \in Procs \ {p} : op'[q] = op[q]
    BY ZenonT(30), <1>2, <1>6, OpUpdate DEF CowInv, OpInv
<1>8. TableType'
    BY ZenonT(30), <1>1, <1>3, <1>4 DEF CowInv, TableType
<1>9. \A t \in Tables, a \in UserVA : "W" \in flags'[t][a] => "W" \in flags[t][a]
    BY ZenonT(30), <1>1, <1>3, <1>4 DEF CowInv, TableType
<1> QED
    BY ZenonT(30), <1>1, <1>5, <1>7, <1>8, <1>9, QuietInv

LEMMA ExecNextArgInv ==
    ASSUME CowInv, NEW p \in Procs, ExecNextArg(p)
    PROVE  CowInv'
<1> DEFINE o == [op[p] EXCEPT !.pc = "cow"]
<1>1. op[p].pc = "exec_commit" /\ UNCHANGED <<freelist, refcnt, junk, panic, ref, flags, cur, sz>>
    BY ZenonT(30) DEF ExecNextArg, At, kmemVars
<1>2. op' = [op EXCEPT ![p] = o]
    BY ZenonT(30), OpFacts DEF ExecNextArg, OpType
<1>3. /\ op[p] \in OpType /\ op[p].tab \in Tables /\ op[p].tab[1] = p /\ op[p].a \in UserVA
      /\ op[p].next = "exec"
    BY ZenonT(30), <1>1, OpFacts DEF OpOK
<1>4. o \in OpType /\ o.pc = "cow" /\ o.tab = op[p].tab /\ o.a = op[p].a /\ o.next = "exec"
    BY ZenonT(30), <1>3 DEF OpType, OpPcs
<1> HIDE DEF o
<1>5. OpOK(p, o)
    BY ZenonT(30), <1>3, <1>4 DEF OpOK
<1> QED
    BY ZenonT(30), <1>1, <1>2, <1>4, <1>5, OpFacts, LocalInv

LEMMA ExecBadInv ==
    ASSUME CowInv, NEW p \in Procs, ExecBad(p)
    PROVE  CowInv'
<1>1. /\ op[p].pc \in {"exec_load", "exec_commit", "alloc"}
      /\ Free(p, TableSeq(op[p].tab, op[p].hi))
      /\ UNCHANGED <<freelist, refcnt, junk, panic, ref, flags, cur, sz>>
    BY ZenonT(30) DEF ExecBad, At, kmemVars
<1>2. op[p].tab \in Tables /\ op[p].hi \in 0..MAXPAGES
    BY ZenonT(30), <1>1, OpFacts DEF OpOK, OpType
<1>3. TableSeq(op[p].tab, op[p].hi) \in Seq(Holders)
    BY ZenonT(30), <1>2, TableSeqType
<1> QED
    BY ZenonT(30), <1>1, <1>3, FreeInv

LEMMA ExecCommitInv ==
    ASSUME CowInv, NEW p \in Procs, ExecCommit(p)
    PROVE  CowInv'
<1>1. /\ Free(p, TableSeq(Cur(p), sz[p]))
      /\ cur' = [cur EXCEPT ![p] = 1 - @] /\ sz' = [sz EXCEPT ![p] = op[p].hi]
      /\ UNCHANGED <<freelist, refcnt, junk, panic, ref, flags>>
    BY ZenonT(30) DEF ExecCommit
<1>2. TableSeq(Cur(p), sz[p]) \in Seq(Holders)
    BY ZenonT(30), OpFacts, CurType, TableSeqType
<1>3. OpInv' /\ op'[p].pc = "free" /\ \A q \in Procs \ {p} : op'[q] = op[q]
    BY ZenonT(30), <1>1, <1>2, FreeOp DEF CowInv
<1>4. TableType'
  <2>1. op[p].hi \in 0..MAXPAGES
      BY ZenonT(30), OpFacts DEF OpType
  <2>2. cur[p] \in {0, 1}
      BY ZenonT(30) DEF CowInv, TableType
  <2>3. 1 - cur[p] \in {0, 1}
      BY <2>2
  <2> QED
      BY ZenonT(30), <1>1, <2>1, <2>3 DEF CowInv, TableType
<1>5. \A q \in Procs \ {p} : cur'[q] = cur[q]
    BY ZenonT(30), <1>1 DEF CowInv, TableType
<1> QED
    BY ZenonT(30), <1>1, <1>3, <1>4, <1>5, QuietInv

LEMMA FreeDoneInv ==
    ASSUME CowInv, NEW p \in Procs, FreeDone(p)
    PROVE  CowInv'
<1> DEFINE c == op[p].who
<1>1. /\ op' = [q \in Procs |-> IF q = p THEN User ELSE IF q = c THEN Idle("unused") ELSE op[q]]
      /\ cur' = IF c # NULL THEN [cur EXCEPT ![c] = 0] ELSE cur
      /\ UNCHANGED <<freelist, refcnt, junk, panic, ref, flags>>
    BY ZenonT(30) DEF FreeDone, kmemVars
<1>2. c \in Procs \cup {NULL} /\ op[p].hi \in 0..MAXPAGES /\ 0 \in 0..MAXPAGES
    BY OpFacts, CowAssumption DEF OpType
<1>3. TableType'
  <2>1. cur' \in [Procs -> {0, 1}]
      BY ZenonT(30), <1>1, <1>2 DEF CowInv, TableType
  <2>2. sz' \in [Procs -> 0..MAXPAGES]
    <3>1. sz' = CASE c # NULL -> [sz EXCEPT ![c] = 0]
                  [] op[p].next = "shrunk" -> [sz EXCEPT ![p] = op[p].hi]
                  [] OTHER -> sz
        BY DEF FreeDone
    <3>2. sz \in [Procs -> 0..MAXPAGES]
        BY ZenonT(30), OpFacts
    <3> HIDE DEF c
    <3>3. sz' = [sz EXCEPT ![c] = 0] \/ sz' = [sz EXCEPT ![p] = op[p].hi] \/ sz' = sz
        BY <3>1
    <3> QED
        BY ZenonT(30), <1>2, <3>2, <3>3
  <2> QED
      BY ZenonT(30), <1>1, <2>1, <2>2 DEF CowInv, TableType
<1>4. \A q \in Procs : OpOK(q, User) /\ OpOK(q, Idle("unused")) /\ OpOK(q, op[q])
    BY ZenonT(30), IdleOK, OpFacts
<1>5. ASSUME NEW q \in Procs PROVE OpOK(q, op'[q]) /\ op'[q] \in OpType
    BY ZenonT(30), <1>1, <1>4 DEF OpOK
<1>6. OpInv'
    BY ZenonT(30), <1>1, <1>5 DEF OpInv
<1>7. ASSUME NEW q \in Procs, op'[q].pc \in {"cow_map", "alloc_map", "share_map"}
      PROVE  op'[q] = op[q] /\ cur'[q] = cur[q]
  <2>1. User.pc = "user" /\ Idle("unused").pc = "unused"
      BY DEF User, Idle
  <2>2. q # p /\ q # c
      BY ZenonT(30), <1>1, <1>7, <2>1
  <2> QED
      BY ZenonT(30), <1>1, <1>2, <2>2 DEF CowInv, TableType
<1> QED
    BY ZenonT(30), <1>1, <1>3, <1>6, <1>7, QuietInv

\* A step of p that also sets the state of slot c.
LEMMA TwoInv ==
    ASSUME CowInv, NEW p \in Procs, NEW c \in Procs, NEW o, NEW u, OpOK(p, o), OpOK(c, u),
           op' = [op EXCEPT ![p] = o, ![c] = u],
           o.pc \notin {"cow_map", "alloc_map", "share_map"},
           u.pc \notin {"cow_map", "alloc_map", "share_map"},
           UNCHANGED <<freelist, refcnt, junk, panic, ref, flags, cur>>,
           sz' \in [Procs -> 0..MAXPAGES]
    PROVE  CowInv'
<1>1. OpInv' /\ TableType'
    BY ZenonT(30), OpUpdateTwo DEF CowInv, TableType
<1>2. op'[p] \in {o, u} /\ op'[c] = u /\ \A q \in Procs \ {p, c} : op'[q] = op[q]
    BY ZenonT(30) DEF CowInv, OpInv
<1> QED
    BY ZenonT(30), <1>1, <1>2, QuietInv

LEMMA ForkBeginInv ==
    ASSUME CowInv, NEW p \in Procs, NEW c \in Procs, ForkBegin(p, c)
    PROVE  CowInv'
<1> DEFINE o == [User EXCEPT !.pc = "alloc_tf", !.tab = Cur(c), !.who = c, !.hi = sz[p]]
<1>1. /\ op' = [op EXCEPT ![p] = o, ![c] = Idle("embryo")]
      /\ UNCHANGED <<freelist, refcnt, junk, panic, ref, flags, cur, sz>>
    BY ZenonT(30) DEF ForkBegin, kmemVars
<1>2. Cur(c) \in Tables /\ << >> \in Seq(Holders) /\ 0 \in 0..MAXPAGES /\ sz[p] \in 0..MAXPAGES
    BY CurType, OpFacts, CowAssumption
<1>3. o \in OpType /\ o.pc = "alloc_tf" /\ o.tab = Cur(c) /\ o.who = c /\ o.a = 0 /\ o.hi = sz[p]
    BY ZenonT(30), <1>2 DEF User, OpType, OpPcs, Nexts
<1> HIDE DEF o
<1>4. OpOK(p, o)
    BY <1>2, <1>3 DEF OpOK
<1>5. OpOK(c, Idle("embryo")) /\ Idle("embryo").pc = "embryo"
    BY ZenonT(30), IdleOK DEF Idle, User
<1>6. sz' \in [Procs -> 0..MAXPAGES]
    BY ZenonT(30), <1>1, OpFacts
<1> QED
    BY ZenonT(30), <1>1, <1>3, <1>4, <1>5, <1>6, TwoInv

LEMMA ForkDoneInv ==
    ASSUME CowInv, NEW p \in Procs, ForkDone(p)
    PROVE  CowInv'
<1> DEFINE c == op[p].who
<1>1. /\ op' = [op EXCEPT ![p] = User, ![c] = User] /\ sz' = [sz EXCEPT ![c] = op[p].hi]
      /\ UNCHANGED <<freelist, refcnt, junk, panic, ref, flags, cur>> /\ op[p].pc = "share"
    BY ZenonT(30) DEF ForkDone, kmemVars, At
<1>2. c \in Procs /\ op[p].hi \in 0..MAXPAGES /\ sz \in [Procs -> 0..MAXPAGES]
    BY ZenonT(30), <1>1, OpFacts DEF OpOK, OpType
<1>3. sz' \in [Procs -> 0..MAXPAGES]
    BY ZenonT(30), <1>1, <1>2
<1>4. OpOK(p, User) /\ OpOK(c, User) /\ User.pc = "user"
    BY ZenonT(30), IdleOK DEF User
<1> QED
    BY ZenonT(30), <1>1, <1>2, <1>3, <1>4, TwoInv

LEMMA ReapInv ==
    ASSUME CowInv, NEW p \in Procs, NEW c \in Procs, Reap(p, c)
    PROVE  CowInv'
<1> DEFINE o == [User EXCEPT !.pc = "free", !.who = c, !.todo = ProcSeq(c, sz[c])]
<1>1. /\ op' = [op EXCEPT ![p] = o, ![c] = Idle("embryo")]
      /\ UNCHANGED <<freelist, refcnt, junk, panic, ref, flags, cur, sz>>
    BY ZenonT(30) DEF Reap, kmemVars
<1>2. sz[c] \in 0..MAXPAGES /\ 0 \in 0..MAXPAGES
    BY OpFacts, CowAssumption
<1>3. ProcSeq(c, sz[c]) \in Seq(Holders)
    BY ZenonT(30), <1>2, ProcSeqType DEF CowInv
<1>4. o \in OpType /\ o.pc = "free"
    BY ZenonT(30), <1>2, <1>3 DEF User, OpType, OpPcs, Nexts
<1> HIDE DEF o
<1>5. OpOK(p, o)
    BY ZenonT(30), <1>4 DEF OpOK
<1>6. OpOK(c, Idle("embryo")) /\ Idle("embryo").pc = "embryo"
    BY IdleOK DEF Idle, User
<1>7. sz' \in [Procs -> 0..MAXPAGES]
    BY <1>1, OpFacts
<1> QED
    BY ZenonT(30), <1>1, <1>4, <1>5, <1>6, <1>7, TwoInv

-----------------------------------------------------------------------------
\* The steps that allocate and free.
LEMMA Add2FLInv ==
    ASSUME CowInv, NEW p \in Procs, Add2FL(p)
    PROVE  CowInv'
<1>1. UNCHANGED <<ref, panic, flags, cur, sz, op>>
    BY DEF Add2FL
<1>2. MemType' /\ NoDangling' /\ SoleKept({})
    BY ZenonT(30), MemAdd2FL DEF CowInv
<1>3. OpInv' /\ TableType'
    BY ZenonT(30), <1>1 DEF CowInv, OpInv, TableType
<1> QED
    BY ZenonT(30), <1>1, <1>2, <1>3, StepInv

LEMMA FreeNextInv ==
    ASSUME CowInv, NEW p \in Procs, FreeNext(p)
    PROVE  CowInv'
<1> DEFINE h == Head(op[p].todo)
<1>1. /\ op[p].pc = "free" /\ op[p].todo # << >> /\ panic = "none"
      /\ flags' = IF h[1] = "pte" THEN [flags EXCEPT ![h[2]][h[3]] = {}] ELSE flags
      /\ UNCHANGED <<cur, sz>>
    BY DEF FreeNext, At
<1>2. op[p] \in OpType /\ op[p].todo \in Seq(Holders)
    BY ZenonT(30), OpFacts DEF OpType
<1>3. h \in Holders /\ Tail(op[p].todo) \in Seq(Holders)
    BY <1>1, <1>2
<1> DEFINE o == [op[p] EXCEPT !.todo = Tail(op[p].todo)]
<1>4. op' = [op EXCEPT ![p] = o]
    BY ZenonT(30), OpFacts DEF FreeNext, OpType
<1>5. o \in OpType /\ o.pc = "free"
    BY ZenonT(30), <1>1, <1>2, <1>3 DEF OpType
<1>6. OpOK(p, o)
    BY ZenonT(30), <1>5 DEF OpOK
<1>7. OpInv' /\ op'[p] = o /\ \A q \in Procs \ {p} : op'[q] = op[q]
    BY ZenonT(30), <1>4, <1>6, OpUpdate DEF CowInv, OpInv
<1> HIDE DEF o
<1>8. Kfree(p, h) \/ UNCHANGED <<freelist, refcnt, junk, ref>>
    BY ZenonT(30) DEF FreeNext
<1> HIDE DEF h
<1>9. /\ MemType' /\ NoDangling' /\ SoleKept({})
      /\ \A g \in Holders : ref'[g] = ref[g] \/ ref'[g] = NULL
  <2>1. CASE Kfree(p, h)
      BY ZenonT(30), <1>3, <2>1, MemKfree DEF CowInv
  <2>2. CASE UNCHANGED <<freelist, refcnt, junk, ref>>
      BY ZenonT(30), <2>2, MemQuiet DEF CowInv
  <2> QED
      BY ZenonT(30), <1>8, <2>1, <2>2
<1>10. h[1] = "pte" => h[2] \in Tables /\ h[3] \in UserVA
    BY <1>3 DEF Holders, Pte, Node, Tf, Mem
<1>11. TableType'
    BY ZenonT(30), <1>1, <1>10 DEF CowInv, TableType
<1>12. \A t \in Tables, a \in UserVA : "W" \in flags'[t][a] => "W" \in flags[t][a]
    BY ZenonT(30), <1>1, <1>10 DEF CowInv, TableType
<1>13. \A t \in Tables, a \in UserVA : ref'[Pte(t, a)] \in {ref[Pte(t, a)], NULL}
    BY ZenonT(30), <1>9, HolderFacts
<1>14. \A q \in Procs : ref'[Mem(q)] \in {ref[Mem(q)], NULL}
    BY ZenonT(30), <1>9, HolderFacts
<1> QED
    BY ZenonT(30), <1>1, <1>5, <1>7, <1>9, <1>11, <1>12, <1>13, <1>14, StepInv

LEMMA AllocProcInv ==
    ASSUME CowInv, NEW p \in Procs, NEW pc, NEW h \in Holders, NEW nextpc, NEW undo \in Seq(Holders),
           AllocProc(p, pc, h, nextpc, undo), OpOK(p, [op[p] EXCEPT !.pc = nextpc]),
           nextpc \notin {"cow_map", "alloc_map", "share_map"},
           \A t \in Tables, a \in UserVA : h # Pte(t, a), \A q \in Procs : h # Mem(q)
    PROVE  CowInv'
<1>1. UNCHANGED <<flags, cur, sz>>
    BY DEF AllocProc
<1>2. CASE Kalloc(h, Junk) /\ op' = [op EXCEPT ![p].pc = nextpc]
  <2> DEFINE o == [op[p] EXCEPT !.pc = nextpc]
  <2>1. op' = [op EXCEPT ![p] = o] /\ o.pc = nextpc
      BY ZenonT(30), <1>2, OpFacts DEF OpType
  <2> HIDE DEF o
  <2>2. OpInv' /\ op'[p] = o /\ \A q \in Procs \ {p} : op'[q] = op[q]
      BY ZenonT(30), <2>1, OpUpdate DEF CowInv, OpInv, o
  <2>3. /\ MemType' /\ NoDangling' /\ SoleKept({}) /\ UNCHANGED panic
        /\ \A g \in Holders \ {h} : ref'[g] = ref[g]
      BY ZenonT(30), <1>2, MemKalloc DEF CowInv
  <2>4. \A t \in Tables, a \in UserVA : ref'[Pte(t, a)] = ref[Pte(t, a)]
      BY ZenonT(30), <2>3, HolderFacts
  <2>5. \A q \in Procs : ref'[Mem(q)] = ref[Mem(q)]
      BY ZenonT(30), <2>3, HolderFacts
  <2>6. TableType'
      BY ZenonT(30), <1>1 DEF CowInv, TableType
  <2> QED
      BY ZenonT(30), <1>1, <2>1, <2>2, <2>3, <2>4, <2>5, <2>6, StepInv
<1>3. CASE NoMemory /\ Free(p, undo)
    BY ZenonT(30), <1>1, <1>3, FreeInv DEF NoMemory, kmemVars
<1> QED
    BY ZenonT(30), <1>2, <1>3 DEF AllocProc

LEMMA AllocTrapframeInv ==
    ASSUME CowInv, NEW p \in Procs, AllocTrapframe(p)
    PROVE  CowInv'
<1> DEFINE h == Tf(op[p].who)
<1>1. op[p].pc = "alloc_tf" /\ AllocProc(p, "alloc_tf", h, "alloc_root", << >>)
    BY ZenonT(30) DEF AllocTrapframe, AllocProc, At
<1>2. OpOK(p, op[p]) /\ op[p].who \in Procs
    BY ZenonT(30), <1>1, OpFacts DEF OpOK
<1>3. OpOK(p, [op[p] EXCEPT !.pc = "alloc_root"])
    BY ZenonT(30), <1>1, <1>2 DEF OpOK, OpType, OpPcs
<1>4. h \in Holders /\ (\A t \in Tables, a \in UserVA : h # Pte(t, a)) /\ \A q \in Procs : h # Mem(q)
    BY ZenonT(30), <1>2, HolderFacts, HoldersDiffer
<1>5. << >> \in Seq(Holders)
    OBVIOUS
<1> HIDE DEF h
<1> QED
    BY ZenonT(30), <1>1, <1>3, <1>4, <1>5, AllocProcInv

LEMMA AllocRootInv ==
    ASSUME CowInv, NEW p \in Procs, AllocRoot(p)
    PROVE  CowInv'
<1> DEFINE h == Node(op[p].tab, Root)
<1> DEFINE undo == <<Tf(op[p].who)>>
<1>1. op[p].pc = "alloc_root" /\ AllocProc(p, "alloc_root", h, "share", undo)
    BY ZenonT(30) DEF AllocRoot, AllocProc, At
<1>2. OpOK(p, op[p]) /\ op[p].who \in Procs /\ op[p].tab \in Tables
    BY ZenonT(30), <1>1, OpFacts DEF OpOK
<1>3. OpOK(p, [op[p] EXCEPT !.pc = "share"])
    BY <1>1, <1>2 DEF OpOK, OpType, OpPcs
<1>4. h \in Holders /\ (\A t \in Tables, a \in UserVA : h # Pte(t, a)) /\ \A q \in Procs : h # Mem(q)
    BY <1>2, HolderFacts, HoldersDiffer DEF Root
<1>5. undo \in Seq(Holders)
    BY <1>2, HolderFacts
<1> HIDE DEF h, undo
<1> QED
    BY ZenonT(30), <1>1, <1>3, <1>4, <1>5, AllocProcInv

LEMMA ExecRootInv ==
    ASSUME CowInv, NEW p \in Procs, ExecRoot(p)
    PROVE  CowInv'
<1> DEFINE h == Node(op[p].tab, Root)
<1>1. op[p].pc = "exec_root" /\ AllocProc(p, "exec_root", h, "exec_load", << >>)
    BY ZenonT(30) DEF ExecRoot, AllocProc, At
<1>2. OpOK(p, op[p]) /\ op[p].tab \in Tables
    BY ZenonT(30), <1>1, OpFacts DEF OpOK
<1>3. OpOK(p, [op[p] EXCEPT !.pc = "exec_load"])
    BY ZenonT(30), <1>1, <1>2 DEF OpOK, OpType, OpPcs
<1>4. h \in Holders /\ (\A t \in Tables, a \in UserVA : h # Pte(t, a)) /\ \A q \in Procs : h # Mem(q)
    BY <1>2, HolderFacts, HoldersDiffer DEF Root
<1>5. << >> \in Seq(Holders)
    OBVIOUS
<1> HIDE DEF h
<1> QED
    BY ZenonT(30), <1>1, <1>3, <1>4, <1>5, AllocProcInv

\* kalloc() of the page that p is about to map writable.
LEMMA NewPageInv ==
    ASSUME CowInv, NEW p \in Procs, NEW c, NEW pc \in FreshPcs, Kalloc(Mem(p), c),
           op' = [op EXCEPT ![p].pc = pc], OpOK(p, [op[p] EXCEPT !.pc = pc]),
           UNCHANGED <<flags, cur, sz>>
    PROVE  CowInv'
<1> DEFINE o == [op[p] EXCEPT !.pc = pc]
<1>1. op' = [op EXCEPT ![p] = o] /\ o.pc = pc
    BY ZenonT(30), OpFacts DEF OpType
<1> HIDE DEF o
<1>2. OpInv' /\ op'[p] = o /\ \A q \in Procs \ {p} : op'[q] = op[q]
    BY ZenonT(30), <1>1, OpUpdate DEF CowInv, OpInv, o
<1>3. Mem(p) \in Holders
    BY ZenonT(30), HolderFacts
<1>4. /\ MemType' /\ NoDangling' /\ SoleKept({}) /\ UNCHANGED panic
      /\ \A g \in Holders \ {Mem(p)} : ref'[g] = ref[g]
      /\ refcnt'[ref'[Mem(p)]] = 1
    BY ZenonT(30), <1>3, MemKalloc DEF CowInv
<1>5. \A t \in Tables, a \in UserVA : ref'[Pte(t, a)] = ref[Pte(t, a)]
    BY ZenonT(30), <1>4, HolderFacts, HoldersDiffer
<1>6. \A q \in Procs \ {p} : ref'[Mem(q)] = ref[Mem(q)]
    BY ZenonT(30), <1>4, HolderFacts, HoldersDiffer
<1>7. TableType'
    BY DEF CowInv, TableType
<1>8. \A q \in Procs : Cur(q)' = Cur(q)
    BY ZenonT(30) DEF Cur
<1>9. ASSUME NEW q \in Procs, op'[q].pc = "share_map" PROVE q # p
    BY ZenonT(30), <1>1, <1>2, <1>9 DEF FreshPcs
<1> QED
    BY ZenonT(30), <1>2, <1>4, <1>5, <1>6, <1>7, <1>8, <1>9, KeepInv

LEMMA CowCopyInv ==
    ASSUME CowInv, NEW p \in Procs, CowCopy(p)
    PROVE  CowInv'
<1> DEFINE c == content[ref[Pte(op[p].tab, op[p].a)]]
<1>1. /\ op[p].pc = "cow" /\ Kalloc(Mem(p), c) /\ op' = [op EXCEPT ![p].pc = "cow_map"]
      /\ UNCHANGED <<flags, cur, sz>>
    BY DEF CowCopy, At
<1>2. OpOK(p, op[p])
    BY ZenonT(30), OpFacts
<1>3. OpOK(p, [op[p] EXCEPT !.pc = "cow_map"])
    BY ZenonT(30), <1>1, <1>2 DEF OpOK, OpType, OpPcs
<1>4. "cow_map" \in FreshPcs
    BY ZenonT(30) DEF FreshPcs
<1> HIDE DEF c
<1> QED
    BY ZenonT(30), <1>1, <1>3, <1>4, NewPageInv

LEMMA UvmallocPageInv ==
    ASSUME CowInv, NEW p \in Procs, UvmallocPage(p)
    PROVE  CowInv'
<1>1. op[p].pc = "alloc" /\ op[p].a < op[p].hi /\ UNCHANGED <<flags, cur, sz>>
    BY DEF UvmallocPage, At
<1>2. CASE Kalloc(Mem(p), Zero) /\ op' = [op EXCEPT ![p].pc = "alloc_map"]
  <2>1. OpOK(p, op[p])
      BY OpFacts
  <2>2. op[p].a \in UserVA
      BY <1>1, <2>1, CowAssumption DEF OpOK, OpType, UserVA
  <2>3. OpOK(p, [op[p] EXCEPT !.pc = "alloc_map"])
      BY ZenonT(30), <1>1, <2>1, <2>2 DEF OpOK, OpType, OpPcs
  <2>4. "alloc_map" \in FreshPcs
      BY DEF FreshPcs
  <2> QED
      BY ZenonT(30), <1>1, <1>2, <2>3, <2>4, NewPageInv
<1>3. CASE NoMemory /\ Free(p, UvmallocUndo(p))
  <2>1. UvmallocUndo(p) \in Seq(Holders)
      BY ZenonT(30), <1>1, UndoType DEF CowInv
  <2> QED
      BY ZenonT(30), <1>1, <1>3, <2>1, FreeInv DEF NoMemory, kmemVars
<1> QED
    BY ZenonT(30), <1>2, <1>3 DEF UvmallocPage

LEMMA WalkAllocInv ==
    ASSUME CowInv, NEW p \in Procs, WalkAlloc(p)
    PROVE  CowInv'
<1> DEFINE t == op[p].tab
<1> DEFINE h == LeafNode(t, op[p].a)
<1>1. op[p].pc \in {"share_map", "alloc_map"} /\ UNCHANGED <<flags, cur, sz>>
    BY ZenonT(30) DEF WalkAlloc, At
<1>2. t \in Tables /\ op[p].a \in UserVA
    BY ZenonT(30), <1>1, OpFacts DEF OpOK
<1>3. TableType'
    BY ZenonT(30), <1>1 DEF CowInv, TableType
<1>4. CASE Kalloc(h, Junk) /\ UNCHANGED op
  <2>1. h \in Holders
      BY ZenonT(30), <1>2, HolderFacts
  <2>2. (\A u \in Tables, a \in UserVA : h # Pte(u, a)) /\ \A q \in Procs : h # Mem(q)
      BY ZenonT(30) DEF LeafNode, Node, Pte, Mem
  <2> HIDE DEF h
  <2>3. /\ MemType' /\ NoDangling' /\ SoleKept({}) /\ UNCHANGED panic
        /\ \A g \in Holders \ {h} : ref'[g] = ref[g]
      BY ZenonT(30), <1>4, <2>1, MemKalloc DEF CowInv
  <2>4. \A u \in Tables, a \in UserVA : ref'[Pte(u, a)] = ref[Pte(u, a)]
      BY ZenonT(30), <2>2, <2>3, HolderFacts
  <2>5. \A q \in Procs : ref'[Mem(q)] = ref[Mem(q)]
      BY ZenonT(30), <2>2, <2>3, HolderFacts
  <2>6. OpInv'
      BY ZenonT(30), <1>4 DEF CowInv, OpInv
  <2> QED
      BY ZenonT(30), <1>1, <1>3, <1>4, <2>3, <2>4, <2>5, <2>6, StepInv
<1>5. CASE Free(p, UvmallocUndo(p)) /\ UNCHANGED <<kmemVars, ref>> /\ op[p].pc = "alloc_map"
  <2>1. UvmallocUndo(p) \in Seq(Holders)
      BY ZenonT(30), <1>5, UndoType DEF CowInv
  <2> QED
      BY ZenonT(30), <1>1, <1>5, <2>1, FreeInv DEF kmemVars
<1>6. CASE /\ Free(p, Ptes(t, 0, op[p].a) \o ProcSeq(op[p].who, 0))
           /\ ref' = [ref EXCEPT ![Mem(p)] = NULL]
           /\ UNCHANGED kmemVars /\ op[p].pc = "share_map"
  <2>1. op[p].who \in Procs /\ op[p].a \in 0..MAXPAGES /\ 0 \in 0..MAXPAGES /\ 0 \in Nat
      BY <1>2, <1>6, OpFacts, CowAssumption DEF OpOK, UserVA
  <2>2. Ptes(t, 0, op[p].a) \in Seq(Holders)
      BY ZenonT(30), <1>2, <2>1, PtesType
  <2>3. ProcSeq(op[p].who, 0) \in Seq(Holders)
      BY ZenonT(30), <2>1, ProcSeqType DEF CowInv
  <2>4. Ptes(t, 0, op[p].a) \o ProcSeq(op[p].who, 0) \in Seq(Holders)
      BY <2>2, <2>3
  <2>5. OpInv' /\ op'[p].pc = "free" /\ \A q \in Procs \ {p} : op'[q] = op[q]
      BY ZenonT(30), <1>6, <2>4, FreeOp DEF CowInv
  <2>6. Mem(p) \in Holders
      BY ZenonT(30), HolderFacts
  <2>7. MemType' /\ NoDangling' /\ SoleKept({}) /\ UNCHANGED panic
      BY ZenonT(30), <1>6, <2>6, MemDrop DEF CowInv, kmemVars
  <2>8. \A g \in Holders : ref'[g] \in {ref[g], NULL}
      BY ZenonT(30), <1>6 DEF CowInv, MemType
  <2>9. \A u \in Tables, a \in UserVA : ref'[Pte(u, a)] \in {ref[Pte(u, a)], NULL}
      BY ZenonT(30), <2>8, HolderFacts
  <2>10. \A q \in Procs : ref'[Mem(q)] \in {ref[Mem(q)], NULL}
      BY ZenonT(30), <2>8, HolderFacts
  <2> QED
      BY ZenonT(30), <1>1, <1>3, <2>5, <2>7, <2>9, <2>10, StepInv
<1> QED
    BY ZenonT(30), <1>1, <1>4, <1>5, <1>6 DEF WalkAlloc, kmemVars

\* mappages(): a read-only mapping, or a mapping of a page of p's own.
LEMMA MapPageInv ==
    ASSUME CowInv, NEW p \in Procs, NEW t \in Tables, NEW a \in UserVA,
           NEW perm \in SUBSET {"W", "U", "T"}, MapPage(p, t, a, perm),
           "W" \in perm => t[1] = p /\ op[p].pc \in FreshPcs,
           NEW o, OpOK(p, o), op' = [op EXCEPT ![p] = o],
           o.pc \notin {"cow_map", "alloc_map", "share_map"},
           UNCHANGED <<freelist, refcnt, junk, cur, sz>>
    PROVE  CowInv'
<1>1. OpInv' /\ op'[p] = o /\ \A q \in Procs \ {p} : op'[q] = op[q]
    BY ZenonT(30), OpUpdate DEF CowInv, OpInv
<1>2. CASE Mapped(t, a)
  <2>1. UNCHANGED <<ref, flags>> /\ panic' = "kmem"
      BY ZenonT(30), <1>2 DEF MapPage
  <2>2. TableType'
      BY ZenonT(30), <2>1 DEF CowInv, TableType
  <2> QED
      BY ZenonT(30), <1>1, <2>1, <2>2, QuietInv
<1>3. CASE ~Mapped(t, a)
  <2> DEFINE h == Pte(t, a)
  <2>1. /\ ref' = [ref EXCEPT ![h] = ref[Mem(p)], ![Mem(p)] = NULL]
        /\ flags' = [flags EXCEPT ![t][a] = perm] /\ UNCHANGED panic
      BY ZenonT(30), <1>3 DEF MapPage
  <2>2. h \in Holders /\ Mem(p) \in Holders /\ h # Mem(p)
      BY ZenonT(30), HolderFacts, HoldersDiffer
  <2>3. MemType' /\ NoDangling' /\ SoleKept({})
      BY ZenonT(30), <2>1, <2>2, MemMove DEF CowInv
  <2>4. ref'[h] = ref[Mem(p)] /\ \A g \in Holders \ {h, Mem(p)} : ref'[g] = ref[g]
      BY ZenonT(30), <2>1, <2>2 DEF CowInv, MemType
  <2>5. TableType'
      BY ZenonT(30), <2>1 DEF CowInv, TableType
  <2>6. /\ flags'[t][a] = perm
        /\ \A u \in Tables, b \in UserVA : <<u, b>> # <<t, a>> => flags'[u][b] = flags[u][b]
      BY ZenonT(30), <2>1 DEF CowInv, TableType
  <2>7. ASSUME NEW u \in Tables, NEW b \in UserVA, ref'[Pte(u, b)] # NULL, "W" \in flags'[u][b]
        PROVE  \/ Pte(u, b) \notin {} /\ ref'[Pte(u, b)] = ref[Pte(u, b)] /\ "W" \in flags[u][b]
               \/ refcnt'[ref'[Pte(u, b)]] = 1
    <3>1. CASE u = t /\ b = a
      <4>1. op[p].pc \in FreshPcs /\ ref[Mem(p)] # NULL
          BY ZenonT(30), <2>4, <2>6, <2>7, <3>1
      <4>2. refcnt[ref[Mem(p)]] = 1
          BY ZenonT(30), <4>1 DEF CowInv, Fresh
      <4> QED
          BY ZenonT(30), <2>4, <3>1, <4>2
    <3>2. CASE ~(u = t /\ b = a)
      <4>1. Pte(u, b) # h /\ Pte(u, b) # Mem(p) /\ Pte(u, b) \in Holders
          BY ZenonT(30), <3>2, HolderFacts, HoldersDiffer
      <4> QED
          BY ZenonT(30), <2>4, <2>6, <2>7, <3>2, <4>1
    <3> QED
        BY ZenonT(30), <3>1, <3>2
  <2>8. ASSUME NEW q \in Procs, op'[q].pc \in FreshPcs
        PROVE  Mem(q) \notin {} /\ op[q].pc \in FreshPcs /\ ref'[Mem(q)] = ref[Mem(q)]
    <3>1. q # p /\ op'[q] = op[q]
        BY ZenonT(30), <1>1, <2>8 DEF FreshPcs
    <3>2. Mem(q) \in Holders /\ Mem(q) # Mem(p) /\ Mem(q) # h
        BY ZenonT(30), <3>1, HolderFacts, HoldersDiffer
    <3> QED
        BY ZenonT(30), <2>4, <2>8, <3>1, <3>2
  <2>9. ASSUME NEW q \in Procs, op'[q].pc = "share_map"
        PROVE  /\ op[q].pc = "share_map" /\ op'[q].a = op[q].a /\ cur'[q] = cur[q]
               /\ "W" \in flags'[Cur(q)][op[q].a] => "W" \in flags[Cur(q)][op[q].a]
    <3>1. q # p /\ op'[q] = op[q]
        BY ZenonT(30), <1>1, <2>9
    <3>2. Cur(q) \in Tables /\ Cur(q)[1] = q /\ op[q].a \in UserVA
        BY <2>9, <3>1, CurType, OpFacts DEF OpOK
    <3> QED
        BY ZenonT(30), <2>6, <2>9, <3>1, <3>2
  <2>10. /\ \A q \in Procs : op'[q].pc \in FreshPcs /\ ref'[Mem(q)] # NULL =>
               \/ Mem(q) \notin {} /\ op[q].pc \in FreshPcs /\ ref'[Mem(q)] = ref[Mem(q)]
               \/ refcnt'[ref'[Mem(q)]] = 1
         /\ OpInv' /\ (panic' = "none" => panic = "none")
      BY ZenonT(30), <1>1, <2>1, <2>8
  <2>11. \A u \in Tables, b \in UserVA : ref'[Pte(u, b)] # NULL /\ "W" \in flags'[u][b] =>
               \/ Pte(u, b) \notin {} /\ ref'[Pte(u, b)] = ref[Pte(u, b)] /\ "W" \in flags[u][b]
               \/ refcnt'[ref'[Pte(u, b)]] = 1
      BY ZenonT(30), <2>7
  <2>12. panic' = "none" => \A q \in Procs : op'[q].pc = "share_map" =>
               \/ "W" \notin flags'[Cur(q)'][op'[q].a]
               \/ /\ op[q].pc = "share_map" /\ op'[q].a = op[q].a /\ cur'[q] = cur[q]
                  /\ "W" \in flags'[Cur(q)][op[q].a] => "W" \in flags[Cur(q)][op[q].a]
      BY ZenonT(30), <2>9
  <2> HIDE DEF h
  <2> QED
      BY ZenonT(30), <2>3, <2>5, <2>10, <2>11, <2>12, KeepInv
<1> QED
    BY ZenonT(30), <1>2, <1>3

LEMMA UvmcopyMapInv ==
    ASSUME CowInv, NEW p \in Procs, UvmcopyMap(p)
    PROVE  CowInv'
<1> DEFINE t == op[p].tab
<1> DEFINE a == op[p].a
<1> DEFINE perm == flags[Cur(p)][a]
<1> DEFINE o == [op[p] EXCEPT !.pc = "share", !.a = a + 1]
<1>1. /\ op[p].pc = "share_map" /\ panic = "none" /\ MapPage(p, t, a, perm)
      /\ UNCHANGED <<freelist, refcnt, junk, cur, sz>>
    BY DEF UvmcopyMap, At
<1>2. op' = [op EXCEPT ![p] = o]
    BY ZenonT(30), OpFacts DEF UvmcopyMap, OpType
<1>3. t \in Tables /\ a \in UserVA /\ a < op[p].hi /\ op[p].who \in Procs /\ op[p] \in OpType
    BY ZenonT(30), <1>1, OpFacts DEF OpOK
<1>4. perm \in SUBSET {"W", "U", "T"} /\ "W" \notin perm
  <2>1. Cur(p) \in Tables /\ TableType /\ ReadOnly
      BY ZenonT(30), CurType DEF CowInv
  <2> QED
      BY ZenonT(30), <1>1, <1>3, <2>1 DEF TableType, ReadOnly
<1>5. a + 1 \in Nat /\ op[p].hi \in 0..MAXPAGES /\ a + 1 <= op[p].hi
  <2>1. op[p].hi \in 0..MAXPAGES
      BY ZenonT(30), <1>3 DEF OpType
  <2> HIDE DEF a
  <2> QED
      BY <1>3, <2>1, CowAssumption DEF UserVA
<1>6. /\ o \in OpType /\ o.pc = "share" /\ o.a = a + 1 /\ o.hi = op[p].hi /\ o.tab = t
      /\ o.who = op[p].who
    BY ZenonT(30), <1>3, <1>5 DEF OpType, OpPcs
<1> HIDE DEF o, perm, t, a
<1>7. OpOK(p, o)
    BY ZenonT(30), <1>3, <1>5, <1>6 DEF OpOK
<1> QED
    BY ZenonT(30), <1>1, <1>2, <1>3, <1>4, <1>6, <1>7, MapPageInv

LEMMA UvmallocMapInv ==
    ASSUME CowInv, NEW p \in Procs, UvmallocMap(p)
    PROVE  CowInv'
<1> DEFINE t == op[p].tab
<1> DEFINE a == op[p].a
<1> DEFINE perm == IF op[p].next = "exec_text" THEN {"U", "T"} ELSE {"W", "U"}
<1> DEFINE o == [op[p] EXCEPT !.pc = "alloc", !.a = a + 1]
<1>1. /\ op[p].pc = "alloc_map" /\ panic = "none" /\ MapPage(p, t, a, perm)
      /\ UNCHANGED <<freelist, refcnt, junk, cur, sz>>
    BY DEF UvmallocMap, At
<1>2. op' = [op EXCEPT ![p] = o]
    BY ZenonT(30), OpFacts DEF UvmallocMap, OpType
<1>3. /\ t \in Tables /\ t[1] = p /\ a \in UserVA /\ a < op[p].hi /\ op[p] \in OpType
      /\ OpOK(p, op[p])
    BY ZenonT(30), <1>1, OpFacts DEF OpOK
<1>4. perm \in SUBSET {"W", "U", "T"} /\ op[p].pc \in FreshPcs
    BY ZenonT(30), <1>1 DEF FreshPcs
<1>5. a + 1 \in Nat /\ op[p].hi \in 0..MAXPAGES /\ a + 1 <= op[p].hi
  <2>1. op[p].hi \in 0..MAXPAGES
      BY ZenonT(30), <1>3 DEF OpType
  <2> HIDE DEF a
  <2> QED
      BY <1>3, <2>1, CowAssumption DEF UserVA
<1>6. /\ o \in OpType /\ o.pc = "alloc" /\ o.a = a + 1 /\ o.hi = op[p].hi /\ o.tab = t
      /\ o.next = op[p].next
    BY ZenonT(30), <1>3, <1>5 DEF OpType, OpPcs
<1> HIDE DEF o, perm, t, a
<1>7. OpOK(p, o)
    BY ZenonT(30), <1>1, <1>3, <1>5, <1>6 DEF OpOK
<1> QED
    BY ZenonT(30), <1>1, <1>2, <1>3, <1>4, <1>6, <1>7, MapPageInv

LEMMA UvmcopyShareInv ==
    ASSUME CowInv, NEW p \in Procs, UvmcopyShare(p)
    PROVE  CowInv'
<1> DEFINE a == op[p].a
<1> DEFINE t == Cur(p)
<1> DEFINE g == Pte(t, a)
<1> DEFINE o == [op[p] EXCEPT !.pc = "share_map"]
<1>1. /\ op[p].pc = "share" /\ panic = "none" /\ a < op[p].hi
      /\ UNCHANGED <<freelist, junk, cur, sz>>
    BY ZenonT(30) DEF UvmcopyShare, At
<1>2. op' = [op EXCEPT ![p] = o]
    BY ZenonT(30), OpFacts DEF UvmcopyShare, OpType
<1>3. op[p].tab \in Tables /\ op[p].who \in Procs /\ op[p] \in OpType
    BY ZenonT(30), <1>1, OpFacts DEF OpOK
<1>4. a \in UserVA /\ t \in Tables /\ t[1] = p
  <2>1. a \in Nat /\ op[p].hi \in 0..MAXPAGES
      BY ZenonT(30), <1>3 DEF OpType
  <2>2. t \in Tables /\ t[1] = p
      BY ZenonT(30), CurType
  <2> HIDE DEF a
  <2> QED
      BY <1>1, <2>1, <2>2, CowAssumption DEF UserVA
<1>5. /\ o \in OpType /\ o.pc = "share_map" /\ o.a = a /\ o.hi = op[p].hi /\ o.tab = op[p].tab
      /\ o.who = op[p].who
    BY ZenonT(30), <1>3 DEF OpType, OpPcs
<1> HIDE DEF o
<1>6. OpOK(p, o)
    BY ZenonT(30), <1>1, <1>3, <1>4, <1>5 DEF OpOK
<1>7. OpInv' /\ op'[p] = o /\ \A q \in Procs \ {p} : op'[q] = op[q]
    BY ZenonT(30), <1>2, <1>6, OpUpdate DEF CowInv, OpInv
<1>8. g \in Holders /\ Mem(p) \in Holders /\ g # Mem(p)
    BY ZenonT(30), <1>4, HolderFacts, HoldersDiffer
<1>9. CASE ~Mapped(t, a) \/ refcnt[ref[g]] < 1
  <2>1. UNCHANGED <<refcnt, ref, flags>> /\ panic' = "kmem"
      BY ZenonT(30), <1>9 DEF UvmcopyShare
  <2>2. MemType' /\ NoDangling' /\ SoleKept({})
      BY ZenonT(30), <1>1, <2>1, MemQuiet DEF CowInv
  <2>3. TableType'
      BY ZenonT(30), <1>1, <2>1 DEF CowInv, TableType
  <2>4. \A q \in Procs : op'[q].pc \in FreshPcs => op[q].pc \in FreshPcs
      BY ZenonT(30), <1>5, <1>7 DEF FreshPcs
  <2> QED
      BY ZenonT(30), <1>7, <2>1, <2>2, <2>3, <2>4, KeepInv
<1>10. CASE ~(~Mapped(t, a) \/ refcnt[ref[g]] < 1)
  <2>1. /\ flags' = [flags EXCEPT ![t][a] = @ \ {"W"}]
        /\ refcnt' = [refcnt EXCEPT ![ref[g]] = @ + 1]
        /\ ref' = [ref EXCEPT ![Mem(p)] = ref[g]] /\ UNCHANGED panic
      BY ZenonT(30), <1>10 DEF UvmcopyShare
  <2>2. ref[g] # NULL
      BY ZenonT(30), <1>10 DEF Mapped
  <2>3. MemType' /\ NoDangling' /\ SoleKept({g})
      BY ZenonT(30), <1>1, <1>8, <2>1, <2>2, MemShare DEF CowInv
  <2>4. TableType'
      BY ZenonT(30), <1>1, <1>4, <2>1 DEF CowInv, TableType
  <2>5. /\ "W" \notin flags'[t][a]
        /\ \A u \in Tables, b \in UserVA : "W" \in flags'[u][b] => "W" \in flags[u][b]
      BY ZenonT(30), <1>4, <2>1 DEF CowInv, TableType
  <2>6. \A h \in Holders \ {Mem(p)} : ref'[h] = ref[h]
      BY ZenonT(30), <2>1 DEF CowInv, MemType
  <2>7. ASSUME NEW u \in Tables, NEW b \in UserVA, ref'[Pte(u, b)] # NULL, "W" \in flags'[u][b]
        PROVE  Pte(u, b) \notin {g} /\ ref'[Pte(u, b)] = ref[Pte(u, b)] /\ "W" \in flags[u][b]
    <3>1. ~(u = t /\ b = a)
        BY ZenonT(30), <2>5, <2>7
    <3>2. Pte(u, b) # g /\ Pte(u, b) \in Holders /\ Pte(u, b) # Mem(p)
        BY <1>4, <3>1, HolderFacts, HoldersDiffer
    <3> QED
        BY ZenonT(30), <2>5, <2>6, <2>7, <3>2
  <2>8. ASSUME NEW q \in Procs, op'[q].pc \in FreshPcs
        PROVE  Mem(q) \notin {g} /\ op[q].pc \in FreshPcs /\ ref'[Mem(q)] = ref[Mem(q)]
    <3>1. q # p /\ op'[q] = op[q]
        BY ZenonT(30), <1>5, <1>7, <2>8 DEF FreshPcs
    <3>2. Mem(q) \in Holders /\ Mem(q) # Mem(p) /\ Mem(q) # g
        BY ZenonT(30), <1>4, <3>1, HolderFacts, HoldersDiffer
    <3> QED
        BY ZenonT(30), <2>6, <2>8, <3>1, <3>2
  <2>9. ASSUME NEW q \in Procs, op'[q].pc = "share_map"
        PROVE  \/ "W" \notin flags'[Cur(q)'][op'[q].a]
               \/ /\ op[q].pc = "share_map" /\ op'[q].a = op[q].a /\ cur'[q] = cur[q]
                  /\ "W" \in flags'[Cur(q)][op[q].a] => "W" \in flags[Cur(q)][op[q].a]
    <3>1. Cur(q)' = Cur(q) /\ cur'[q] = cur[q]
        BY ZenonT(30), <1>1 DEF Cur
    <3>2. CASE q = p
        BY ZenonT(30), <1>5, <1>7, <2>5, <3>1, <3>2
    <3>3. CASE q # p
      <4>1. op'[q] = op[q]
          BY ZenonT(30), <1>7, <3>3
      <4>2. Cur(q) \in Tables /\ op[q].a \in UserVA
          BY ZenonT(30), <2>9, <4>1, CurType, OpFacts DEF OpOK
      <4> QED
          BY ZenonT(30), <2>5, <2>9, <3>1, <4>1, <4>2
    <3> QED
        BY ZenonT(30), <3>2, <3>3
  <2>10. OpInv' /\ (panic' = "none" => panic = "none")
      BY ZenonT(30), <1>7, <2>1
  <2> HIDE DEF g
  <2> QED
      BY ZenonT(30), <2>3, <2>4, <2>7, <2>8, <2>9, <2>10, KeepInv
<1> QED
    BY ZenonT(30), <1>9, <1>10

LEMMA CowMapInv ==
    ASSUME CowInv, NEW p \in Procs, CowMap(p)
    PROVE  CowInv'
<1> DEFINE t == op[p].tab
<1> DEFINE a == op[p].a
<1> DEFINE h == Pte(t, a)
<1> DEFINE m == Mem(p)
<1>1. /\ op[p].pc = "cow_map" /\ panic = "none"
      /\ ref' = [ref EXCEPT ![h] = ref[m], ![m] = NULL]
      /\ flags' = [flags EXCEPT ![t][a] = @ \cup {"W", "U"}]
      /\ UNCHANGED <<freelist, cur, sz>>
    BY ZenonT(30) DEF CowMap, At
<1>2. /\ t \in Tables /\ t[1] = p /\ a \in UserVA /\ op[p] \in OpType
      /\ op[p].next \in {"fault", "copyout", "exec"}
    BY ZenonT(30), <1>1, OpFacts DEF OpOK
<1>3. h \in Holders /\ m \in Holders /\ h # m
    BY ZenonT(30), <1>2, HolderFacts, HoldersDiffer
<1>4. \E o : /\ op' = [op EXCEPT ![p] = o] /\ OpOK(p, o)
             /\ o.pc \notin {"cow_map", "alloc_map", "share_map"}
  <2>1. CASE op[p].next = "fault"
    <3>1. op' = [op EXCEPT ![p] = User]
        BY ZenonT(30), <2>1 DEF CowMap
    <3>2. OpOK(p, User) /\ User.pc = "user"
        BY ZenonT(30), IdleOK DEF User
    <3> QED
        BY ZenonT(30), <3>1, <3>2
  <2>2. CASE op[p].next = "copyout"
    <3> DEFINE o == [op[p] EXCEPT !.pc = "copyout"]
    <3>1. op' = [op EXCEPT ![p] = o]
        BY ZenonT(30), <2>2, OpFacts DEF CowMap
    <3>2. o \in OpType /\ o.pc = "copyout" /\ o.tab = t /\ o.a = a
        BY ZenonT(30), <1>2 DEF OpType, OpPcs
    <3> HIDE DEF o
    <3>3. OpOK(p, o)
        BY ZenonT(30), <1>2, <3>2 DEF OpOK
    <3> QED
        BY ZenonT(30), <3>1, <3>2, <3>3
  <2>3. CASE op[p].next = "exec"
    <3> DEFINE o == [op[p] EXCEPT !.pc = "exec_commit"]
    <3>1. op' = [op EXCEPT ![p] = o]
        BY ZenonT(30), <2>3, OpFacts DEF CowMap
    <3>2. o \in OpType /\ o.pc = "exec_commit" /\ o.tab = t /\ o.a = a /\ o.next = "exec"
        BY ZenonT(30), <1>2, <2>3 DEF OpType, OpPcs
    <3> HIDE DEF o
    <3>3. OpOK(p, o)
        BY ZenonT(30), <1>2, <3>2 DEF OpOK
    <3> QED
        BY ZenonT(30), <3>1, <3>2, <3>3
  <2> QED
      BY ZenonT(30), <1>2, <2>1, <2>2, <2>3
<1>5. PICK o : /\ op' = [op EXCEPT ![p] = o] /\ OpOK(p, o)
               /\ o.pc \notin {"cow_map", "alloc_map", "share_map"}
    BY ZenonT(30), <1>4
<1>6. OpInv' /\ op'[p] = o /\ \A q \in Procs \ {p} : op'[q] = op[q]
    BY ZenonT(30), <1>5, OpUpdate DEF CowInv, OpInv
<1>7. ref[m] # NULL => refcnt[ref[m]] = 1 /\ ref[m] # ref[h]
  <2>1. ASSUME ref[m] # NULL PROVE refcnt[ref[m]] = 1
      BY ZenonT(30), <1>1, <2>1 DEF CowInv, Fresh, FreshPcs
  <2>2. ASSUME ref[m] # NULL, ref[m] = ref[h] PROVE refcnt[ref[m]] >= 2
      BY ZenonT(30), <1>3, <2>2, TwoRefs DEF CowInv
  <2> QED
      BY <2>1, <2>2
<1>8. /\ ref'[h] = ref[m] /\ \A g \in Holders \ {h, m} : ref'[g] = ref[g]
      /\ ref \in [Holders -> Pages \cup {NULL}] /\ refcnt \in [Pages -> Nat]
    BY ZenonT(30), <1>1, <1>3 DEF CowInv, MemType
<1>9. /\ MemType' /\ NoDangling' /\ SoleKept({}) /\ (panic' = "none" => panic = "none")
      /\ ref[m] # NULL => refcnt'[ref[m]] = 1
  <2>1. CASE ref[h] = NULL \/ refcnt[ref[h]] < 1
    <3>1. UNCHANGED <<refcnt, junk>> /\ panic' = "kmem"
        BY ZenonT(30), <2>1 DEF CowMap
    <3>2. MemType' /\ NoDangling' /\ SoleKept({})
        BY ZenonT(30), <1>1, <1>3, <3>1, MemMove DEF CowInv
    <3> QED
        BY ZenonT(30), <1>7, <3>1, <3>2
  <2>2. CASE ~(ref[h] = NULL \/ refcnt[ref[h]] < 1)
    <3>1. /\ refcnt' = [refcnt EXCEPT ![ref[h]] = @ - 1]
          /\ junk' = [junk EXCEPT ![p] = IF refcnt[ref[h]] = 1 THEN ref[h] ELSE NULL]
          /\ UNCHANGED panic
        BY ZenonT(30), <2>2 DEF CowMap
    <3>2. 1 \in Pages
        BY CowAssumption DEF Pages
    <3>3. ref' \in [Holders -> Pages \cup {NULL}] /\ ref'[h] # ref[h]
        BY ZenonT(30), <1>1, <1>3, <1>7, <1>8, <2>2, <3>2, MoveRef
    <3>4. \A pb \in Pages :
              /\ Cardinality(RefsIn(ref', pb)) <= Cardinality(RefsIn(ref, pb))
              /\ ref[h] = pb => Cardinality(RefsIn(ref', pb)) <= Cardinality(RefsIn(ref, pb)) - 1
        BY ZenonT(30), <1>1, <1>3, <1>8, MoveRef
    <3>5. MemType' /\ NoDangling' /\ SoleKept({})
        BY ZenonT(30), <1>1, <1>3, <2>2, <3>1, <3>3, <3>4, MemDecrease DEF CowInv
    <3>6. ref[m] # NULL => refcnt'[ref[m]] = 1
        BY ZenonT(30), <1>3, <1>7, <1>8, <3>1
    <3> QED
        BY ZenonT(30), <3>1, <3>5, <3>6
  <2> QED
      BY ZenonT(30), <2>1, <2>2
<1>10. TableType'
    BY ZenonT(30), <1>1, <1>2 DEF CowInv, TableType
<1>11. \A u \in Tables, b \in UserVA : <<u, b>> # <<t, a>> => flags'[u][b] = flags[u][b]
    BY ZenonT(30), <1>1, <1>2 DEF CowInv, TableType
<1> HIDE DEF t, a
<1>12. ASSUME NEW u \in Tables, NEW b \in UserVA, ref'[Pte(u, b)] # NULL, "W" \in flags'[u][b]
      PROVE  \/ Pte(u, b) \notin {} /\ ref'[Pte(u, b)] = ref[Pte(u, b)] /\ "W" \in flags[u][b]
             \/ refcnt'[ref'[Pte(u, b)]] = 1
  <2>1. CASE u = t /\ b = a
      BY ZenonT(30), <1>8, <1>9, <1>12, <2>1
  <2>2. CASE ~(u = t /\ b = a)
    <3>1. Pte(u, b) # h /\ Pte(u, b) # m /\ Pte(u, b) \in Holders
        BY <1>2, <2>2, HolderFacts, HoldersDiffer
    <3> QED
        BY ZenonT(30), <1>8, <1>11, <1>12, <2>2, <3>1
  <2> QED
      BY ZenonT(30), <2>1, <2>2
<1>13. ASSUME NEW q \in Procs, op'[q].pc \in FreshPcs
       PROVE  Mem(q) \notin {} /\ op[q].pc \in FreshPcs /\ ref'[Mem(q)] = ref[Mem(q)]
  <2>1. q # p /\ op'[q] = op[q]
      BY ZenonT(30), <1>5, <1>6, <1>13 DEF FreshPcs
  <2>2. Mem(q) \in Holders /\ Mem(q) # m /\ Mem(q) # h
      BY ZenonT(30), <1>2, <2>1, HolderFacts, HoldersDiffer
  <2> QED
      BY ZenonT(30), <1>8, <1>13, <2>1, <2>2
<1>14. ASSUME NEW q \in Procs, op'[q].pc = "share_map"
       PROVE  /\ op[q].pc = "share_map" /\ op'[q].a = op[q].a /\ cur'[q] = cur[q]
              /\ "W" \in flags'[Cur(q)][op[q].a] => "W" \in flags[Cur(q)][op[q].a]
  <2>1. q # p /\ op'[q] = op[q]
      BY ZenonT(30), <1>5, <1>6, <1>14
  <2>2. Cur(q) \in Tables /\ Cur(q)[1] = q /\ op[q].a \in UserVA
      BY ZenonT(30), <1>14, <2>1, CurType, OpFacts DEF OpOK
  <2> QED
      BY ZenonT(30), <1>1, <1>2, <1>11, <1>14, <2>1, <2>2
<1>15. OpInv' /\ (panic' = "none" => panic = "none")
    BY ZenonT(30), <1>6, <1>9
<1> HIDE DEF h, m
<1> QED
    BY ZenonT(30), <1>9, <1>10, <1>12, <1>13, <1>14, <1>15, KeepInv

-----------------------------------------------------------------------------
LEMMA StutterInv ==
    ASSUME CowInv, UNCHANGED vars
    PROVE  CowInv'
<1>1. UNCHANGED <<freelist, refcnt, junk, panic, ref, flags, cur, sz, op>>
    BY ZenonT(30) DEF vars, kmemVars
<1>2. OpInv' /\ TableType'
    BY ZenonT(30), <1>1 DEF CowInv, OpInv, TableType
<1> QED
    BY ZenonT(30), <1>1, <1>2, QuietInv

\* Every step of the memory code keeps the inductive invariant.
LEMMA NextInv ==
    ASSUME CowInv, [Next]_vars
    PROVE  CowInv'
<1>1. ASSUME NEW p \in Procs, Step(p) PROVE CowInv'
    BY ZenonT(30), <1>1, Add2FLInv, FreeNextInv, FreeDoneInv, CowCopyInv, CowFailInv, CowMapInv,
       CopyoutStoreInv, AllocTrapframeInv, AllocRootInv, UvmcopyShareInv, UvmcopyMapInv,
       ForkDoneInv, UvmallocPageInv, UvmallocMapInv, WalkAllocInv, SbrkDoneInv, ExecRootInv,
       ExecTextInv, ExecStackInv, ExecArgsInv, ExecNextArgInv, ExecBadInv, ExecCommitInv DEF Step
<1>2. ASSUME NEW p \in Procs, SysExit(p) PROVE CowInv'
    BY ZenonT(30), <1>2, ExitInv DEF SysExit, At
<1>3. ASSUME NEW p \in Procs, Call(p) PROVE CowInv'
    BY ZenonT(30), <1>2, <1>3, UserStoreInv, CopyoutInv, PageFaultInv, ForkBeginInv, ReapInv, SbrkGrowInv,
       SbrkShrinkInv, ExecBeginInv DEF Call
<1> QED
    BY ZenonT(30), <1>1, <1>3, StutterInv DEF Next

\* The inductive invariant holds in every reachable state: reference counts of
\* kalloc.c cover the holders, and what is or will be writable is not shared.
THEOREM CowInvariant == Spec => []CowInv
BY InitInv, NextInv, PTL DEF Spec

\* kalloc.c: no page on its way to the free list is named by anyone, and no
\* page gets there twice, whatever the interleaving of fork, exit, sbrk, exec
\* and copy-on-write faults.
THEOREM NoDanglingThm == Spec => []NoDangling
BY CowInvariant, PTL DEF CowInv

\* vm.c and trap.c: a page that two holders name is writable through no PTE.
THEOREM NoSharedWritableThm == Spec => []NoSharedWritable
BY CowInvariant, PTL DEF CowInv
=============================================================================
