---------------------------- MODULE CowMemSteps ----------------------------
(***************************************************************************)
(* The invariant of copy-on-write memory, and lemmas about its parts: how  *)
(* many holders name a page, the lists the clean-up loops work through,    *)
(* the initial state, and what the steps of kalloc.c do to the invariant.  *)
(***************************************************************************)
EXTENDS CowMem, FiniteSetTheorems, TLAPS

USE SMTT(30)

OpPcs == {"user", "unused", "zombie", "embryo", "free", "cow", "cow_map", "copyout",
          "alloc_tf", "alloc_root", "share", "share_map", "alloc", "alloc_map",
          "exec_root", "exec_load", "exec_commit"}
Nexts == {"user", "fault", "copyout", "exec", "sbrk", "exec_text", "exec_stack", "shrunk"}
OpType == [pc : OpPcs, tab : Tables \cup {NULL}, a : Nat, lo : 0..MAXPAGES, hi : 0..MAXPAGES,
           v : Vals \cup {NULL}, todo : Seq(Holders), who : Procs \cup {NULL}, next : Nexts]

\* The locals o of a kernel path of p are what its program counter needs: a
\* table (its own, except in fork), a user page and the bounds of its loop.
OpOK(p, o) ==
    /\ o \in OpType
    /\ o.pc \in {"cow", "cow_map", "copyout", "exec_commit", "share_map", "alloc_map"} => o.a \in UserVA
    /\ o.pc \in {"cow", "cow_map", "copyout", "exec_commit", "alloc", "alloc_map",
                 "exec_root", "exec_load"} => o.tab \in Tables /\ o.tab[1] = p
    /\ o.pc \in {"alloc_tf", "alloc_root", "share", "share_map"} => o.tab \in Tables /\ o.who \in Procs
    /\ o.pc \in {"alloc", "alloc_tf", "alloc_root", "share"} => o.a <= o.hi
    /\ o.pc \in {"alloc_map", "share_map"} => o.a < o.hi
    /\ o.pc \in {"alloc", "alloc_map"} =>
          \/ o.next = "sbrk"
          \/ o.next = "exec_text" /\ o.hi = TEXTPAGES
          \/ o.next = "exec_stack" /\ o.hi = TEXTPAGES + 2
    /\ o.pc \in {"exec_root", "exec_load"} => o.next = "exec_text" /\ o.a = 0
    /\ o.pc \in {"cow", "cow_map"} => o.next \in {"fault", "copyout", "exec"}
    /\ o.pc = "exec_commit" => o.next = "exec"

OpInv == op \in [Procs -> OpType] /\ \A p \in Procs : OpOK(p, op[p])

MemType ==
    /\ freelist \in SUBSET Pages
    /\ refcnt \in [Pages -> Nat]
    /\ ref \in [Holders -> Pages \cup {NULL}]
    /\ junk \in [Procs -> Pages \cup {NULL}]

TableType ==
    /\ flags \in [Tables -> [UserVA -> SUBSET {"W", "U", "T"}]]
    /\ cur \in [Procs -> {0, 1}]
    /\ sz \in [Procs -> 0..MAXPAGES]

\* A page that cowHandler() or uvmalloc() is about to map writable is its own.
FreshPcs == {"cow_map", "alloc_map"}
Fresh ==
    \A p \in Procs : op[p].pc \in FreshPcs /\ ref[Mem(p)] # NULL => refcnt[ref[Mem(p)]] = 1

\* A page that uvmcopy() is about to map in the child is read-only in the parent.
ReadOnly ==
    panic = "none" =>
        \A p \in Procs : op[p].pc = "share_map" => "W" \notin flags[Cur(p)][op[p].a]

CowInv == MemType /\ TableType /\ OpInv /\ NoDangling /\ NoSharedWritable /\ Fresh /\ ReadOnly

-----------------------------------------------------------------------------
\* Division keeps the order, so the page-table page of a user page exists.
LEMMA DivMono ==
    ASSUME NEW R \in Nat \ {0}, NEW a \in Nat, NEW b \in Nat, a <= b
    PROVE  a \div R \in Nat /\ a \div R <= b \div R
OBVIOUS

\* What each kind of holder is, and that they differ.
LEMMA HolderFacts ==
    /\ \A t \in Tables, a \in UserVA : Pte(t, a) \in Holders /\ LeafNode(t, a) \in Holders
    /\ \A t \in Tables : Node(t, Root) \in Holders
    /\ \A p \in Procs : Tf(p) \in Holders /\ Mem(p) \in Holders
<1>1. ASSUME NEW t \in Tables, NEW a \in UserVA PROVE Pte(t, a) \in Holders
    BY DEF Holders
<1>2. ASSUME NEW t \in Tables, NEW a \in UserVA PROVE LeafNode(t, a) \in Holders
  <2>1. a \in Nat /\ MAXPAGES - 1 \in Nat /\ a <= MAXPAGES - 1
      BY CowAssumption DEF UserVA
  <2>2. a \div REGION \in UserNodes
      BY <2>1, CowAssumption, DivMono DEF UserNodes
  <2> QED
      BY <2>2 DEF Holders, LeafNode
<1>3. ASSUME NEW t \in Tables PROVE Node(t, Root) \in Holders
    BY DEF Holders
<1>4. ASSUME NEW p \in Procs PROVE Tf(p) \in Holders /\ Mem(p) \in Holders
    BY DEF Holders
<1> QED
    BY ZenonT(30), <1>1, <1>2, <1>3, <1>4

LEMMA HoldersDiffer ==
    /\ \A t, u \in Tables : \A a, b \in UserVA : Pte(t, a) = Pte(u, b) => t = u /\ a = b
    /\ \A p, q \in Procs : Mem(p) = Mem(q) => p = q
    /\ \A t \in Tables, a \in UserVA : \A p \in Procs : Pte(t, a) # Mem(p) /\ Pte(t, a) # Tf(p)
    /\ \A t, u \in Tables : \A a \in UserVA : \A n \in Int : Pte(t, a) # Node(u, n)
    /\ \A t \in Tables, p \in Procs : \A n \in Int : Mem(p) # Node(t, n)
    /\ \A p, q \in Procs : Mem(p) # Tf(q)
BY DEF Pte, Mem, Tf, Node

\* There are finitely many holders.
LEMMA HoldersFinite == IsFiniteSet(Holders)
<1> USE CowAssumption
<1>1. IsFiniteSet({0, 1})
  <2>1. IsFiniteSet({}) /\ {} \cup {0} \cup {1} = {0, 1}
      BY FS_EmptySet
  <2>2. IsFiniteSet({} \cup {0})
      BY ZenonT(30), <2>1, FS_AddElement
  <2>3. IsFiniteSet({} \cup {0} \cup {1})
      BY <2>2, FS_AddElement
  <2> QED
      BY ZenonT(30), <2>1, <2>3
<1>2. IsFiniteSet(Tables)
    BY ZenonT(30), <1>1, FS_Product DEF Tables
<1>3. IsFiniteSet(UserVA) /\ IsFiniteSet(UserNodes \cup {Root})
  <2>1. IsFiniteSet(UserVA)
      BY FS_Interval DEF UserVA
  <2>2. (MAXPAGES - 1) \div REGION \in Int
      OBVIOUS
  <2>3. IsFiniteSet(UserNodes)
      BY <2>2, FS_Interval DEF UserNodes
  <2> QED
      BY ZenonT(30), <2>1, <2>3, FS_AddElement
<1> DEFINE A == {Pte(t, a) : t \in Tables, a \in UserVA}
<1> DEFINE B == {Node(t, n) : t \in Tables, n \in UserNodes \cup {Root}}
<1> DEFINE C == {Tf(p) : p \in Procs}
<1> DEFINE D == {Mem(p) : p \in Procs}
<1>4. IsFiniteSet(A)
  <2> DEFINE f == [x \in Tables \X UserVA |-> Pte(x[1], x[2])]
  <2>1. IsFiniteSet(Tables \X UserVA)
      BY ZenonT(30), <1>2, <1>3, FS_Product
  <2>2. f \in Surjection(Tables \X UserVA, A)
    <3>1. f \in [Tables \X UserVA -> A]
        OBVIOUS
    <3>2. ASSUME NEW y \in A PROVE \E x \in Tables \X UserVA : f[x] = y
      <4>1. PICK t \in Tables, a \in UserVA : y = Pte(t, a)
          OBVIOUS
      <4>2. <<t, a>> \in Tables \X UserVA /\ f[<<t, a>>] = y
          BY <4>1
      <4> QED
          BY <4>2
    <3> QED
        BY <3>1, <3>2 DEF Surjection
  <2> QED
      BY <2>1, <2>2, FS_Surjection
<1>5. IsFiniteSet(B)
  <2> DEFINE N == UserNodes \cup {Root}
  <2> DEFINE f == [x \in Tables \X N |-> Node(x[1], x[2])]
  <2>1. IsFiniteSet(Tables \X N)
      BY ZenonT(30), <1>2, <1>3, FS_Product
  <2>2. f \in Surjection(Tables \X N, B)
    <3>1. f \in [Tables \X N -> B]
        OBVIOUS
    <3>2. ASSUME NEW y \in B PROVE \E x \in Tables \X N : f[x] = y
      <4>1. PICK t \in Tables, a \in N : y = Node(t, a)
          OBVIOUS
      <4>2. <<t, a>> \in Tables \X N /\ f[<<t, a>>] = y
          BY <4>1
      <4> QED
          BY <4>2
    <3> HIDE DEF f, N
    <3> QED
        BY <3>1, <3>2 DEF Surjection
  <2> QED
      BY <2>1, <2>2, FS_Surjection
<1>6. IsFiniteSet(C)
  <2> DEFINE f == [p \in Procs |-> Tf(p)]
  <2>1. f \in Surjection(Procs, C)
      BY DEF Surjection
  <2> QED
      BY <2>1, FS_Surjection
<1>7. IsFiniteSet(D)
  <2> DEFINE f == [p \in Procs |-> Mem(p)]
  <2>1. f \in Surjection(Procs, D)
      BY DEF Surjection
  <2> QED
      BY <2>1, FS_Surjection
<1>8. Holders = A \cup B \cup C \cup D
    BY DEF Holders
<1> HIDE DEF A, B, C, D
<1> QED
    BY ZenonT(30), <1>4, <1>5, <1>6, <1>7, <1>8, FS_Union

-----------------------------------------------------------------------------
\* Counting references: how a change of one holder changes how many name pa.
LEMMA RefsFinite ==
    ASSUME NEW r, NEW pa
    PROVE  IsFiniteSet(RefsIn(r, pa)) /\ Cardinality(RefsIn(r, pa)) \in Nat
BY ZenonT(30), HoldersFinite, FS_Subset, FS_CardinalityType DEF RefsIn

LEMMA RefsFewer ==
    ASSUME NEW r, NEW s, NEW pa, RefsIn(s, pa) \subseteq RefsIn(r, pa)
    PROVE  Cardinality(RefsIn(s, pa)) <= Cardinality(RefsIn(r, pa))
BY ZenonT(30), RefsFinite, FS_Subset

LEMMA RefsOneMore ==
    ASSUME NEW r, NEW s, NEW pa, NEW h, RefsIn(s, pa) \subseteq RefsIn(r, pa) \cup {h}
    PROVE  Cardinality(RefsIn(s, pa)) <= Cardinality(RefsIn(r, pa)) + 1
<1> DEFINE S == RefsIn(r, pa)
<1> DEFINE T == RefsIn(s, pa)
<1>1. IsFiniteSet(S) /\ Cardinality(S) \in Nat /\ IsFiniteSet(T) /\ Cardinality(T) \in Nat
    BY RefsFinite
<1>2. T \in SUBSET (S \cup {h})
    OBVIOUS
<1> HIDE DEF S, T
<1>3. IsFiniteSet(S \cup {h}) /\ Cardinality(S \cup {h}) <= Cardinality(S) + 1
    BY <1>1, FS_AddElement
<1>4. Cardinality(S \cup {h}) \in Nat
    BY <1>3, FS_CardinalityType
<1>5. Cardinality(T) <= Cardinality(S \cup {h})
    BY <1>2, <1>3, FS_Subset
<1> QED
    BY <1>1, <1>3, <1>4, <1>5 DEF S, T

LEMMA RefsOneLess ==
    ASSUME NEW r, NEW s, NEW pa, NEW h \in RefsIn(r, pa), RefsIn(s, pa) \subseteq RefsIn(r, pa) \ {h}
    PROVE  Cardinality(RefsIn(s, pa)) <= Cardinality(RefsIn(r, pa)) - 1
<1> DEFINE S == RefsIn(r, pa)
<1> DEFINE T == RefsIn(s, pa)
<1>1. IsFiniteSet(S) /\ Cardinality(S) \in Nat /\ IsFiniteSet(T) /\ Cardinality(T) \in Nat
    BY ZenonT(30), RefsFinite
<1>2. T \in SUBSET (S \ {h}) /\ h \in S
    OBVIOUS
<1> HIDE DEF S, T
<1>3. IsFiniteSet(S \ {h}) /\ Cardinality(S \ {h}) = Cardinality(S) - 1
    BY ZenonT(30), <1>1, <1>2, FS_RemoveElement
<1>4. Cardinality(T) <= Cardinality(S \ {h})
    BY <1>2, <1>3, FS_Subset
<1> QED
    BY ZenonT(30), <1>1, <1>3, <1>4 DEF S, T

LEMMA RefsMoved ==
    ASSUME NEW r, NEW s, NEW pa, NEW g \in RefsIn(r, pa), NEW h,
           RefsIn(s, pa) \subseteq (RefsIn(r, pa) \ {g}) \cup {h}
    PROVE  Cardinality(RefsIn(s, pa)) <= Cardinality(RefsIn(r, pa))
<1> DEFINE S == RefsIn(r, pa)
<1> DEFINE T == RefsIn(s, pa)
<1> DEFINE U == S \ {g}
<1>1. IsFiniteSet(S) /\ Cardinality(S) \in Nat /\ IsFiniteSet(T) /\ Cardinality(T) \in Nat
    BY RefsFinite
<1>2. T \in SUBSET (U \cup {h}) /\ g \in S
    OBVIOUS
<1> HIDE DEF S, T
<1>3. IsFiniteSet(U) /\ Cardinality(U) = Cardinality(S) - 1
    BY ZenonT(30), <1>1, <1>2, FS_RemoveElement
<1> HIDE DEF U
<1>c. IsFiniteSet(U) /\ Cardinality(U) \in Nat
    BY ZenonT(30), <1>3, FS_CardinalityType
<1>4. IsFiniteSet(U \cup {h}) /\ Cardinality(U \cup {h}) <= Cardinality(U) + 1
    BY <1>c, FS_AddElement
<1>5. Cardinality(U \cup {h}) \in Nat
    BY <1>4, FS_CardinalityType
<1>6. Cardinality(T) <= Cardinality(U \cup {h})
    BY ZenonT(30), <1>2, <1>4, FS_Subset
<1> QED
    BY <1>1, <1>3, <1>4, <1>5, <1>6 DEF S, T

\* A set of two.
LEMMA TwoElements ==
    ASSUME NEW g, NEW h, g # h
    PROVE  IsFiniteSet({g, h}) /\ Cardinality({g, h}) = 2
<1>1. IsFiniteSet({g}) /\ Cardinality({g}) = 1
    BY ZenonT(30), FS_Singleton
<1>2. IsFiniteSet({g} \cup {h}) /\ Cardinality({g} \cup {h}) = Cardinality({g}) + 1
    BY ZenonT(30), <1>1, FS_AddElement
<1>3. {g} \cup {h} = {g, h}
    OBVIOUS
<1>4. Cardinality({g, h}) = 1 + 1
    BY ZenonT(30), <1>1, <1>2, <1>3
<1> QED
    BY <1>2, <1>3, <1>4

\* Two holders that name one page make its count at least 2, one at least 1.
LEMMA TwoRefs ==
    ASSUME MemType, NoDangling, NEW g \in Holders, NEW h \in Holders, g # h,
           ref[g] # NULL, ref[g] = ref[h]
    PROVE  refcnt[ref[g]] >= 2
<1> DEFINE S == Refs(ref[g])
<1> DEFINE P == {g, h}
<1>1. ref[g] \in Pages /\ refcnt[ref[g]] \in Nat
    BY ZenonT(30) DEF MemType
<1>2. Cardinality(S) <= refcnt[ref[g]]
    BY ZenonT(30), <1>1 DEF NoDangling
<1>3. IsFiniteSet(S) /\ Cardinality(S) \in Nat
    BY ZenonT(30), RefsFinite DEF Refs
<1>4. P \in SUBSET S
    BY ZenonT(30) DEF Refs, RefsIn
<1>7. Cardinality(P) = 2
    BY ZenonT(30), TwoElements
<1>8. Cardinality(P) <= Cardinality(S)
    BY <1>3, <1>4, FS_Subset
<1> QED
    BY <1>1, <1>2, <1>3, <1>7, <1>8

LEMMA OneRef ==
    ASSUME MemType, NoDangling, NEW h \in Holders, ref[h] # NULL
    PROVE  ref[h] \in Pages /\ refcnt[ref[h]] >= 1 /\ ref[h] \notin freelist
<1>1. ref[h] \in Pages /\ refcnt[ref[h]] \in Nat
    BY DEF MemType
<1>2. Cardinality(Refs(ref[h])) <= refcnt[ref[h]]
    BY <1>1 DEF NoDangling
<1>3. IsFiniteSet(Refs(ref[h])) /\ Cardinality(Refs(ref[h])) \in Nat
    BY RefsFinite DEF Refs
<1>4. Cardinality(Refs(ref[h])) # 0
    BY <1>3, FS_EmptySet DEF Refs, RefsIn
<1>5. refcnt[ref[h]] >= 1
    BY <1>1, <1>2, <1>3, <1>4
<1> QED
    BY <1>1, <1>5 DEF NoDangling

-----------------------------------------------------------------------------
\* The lists of holders that the clean-up loops work through.
LEMMA FunctionIsSeq ==
    ASSUME NEW S, NEW n \in Nat, NEW f \in [1..n -> S]
    PROVE  f \in Seq(S)
OBVIOUS

LEMMA PtesType ==
    ASSUME NEW t \in Tables, NEW lo \in Nat, NEW hi \in 0..MAXPAGES
    PROVE  Ptes(t, lo, hi) \in Seq(Holders)
<1> USE CowAssumption
<1>1. ASSUME NEW i \in 1..hi-lo PROVE Pte(t, lo + i - 1) \in Holders
  <2>1. lo + i - 1 \in UserVA
      BY DEF UserVA
  <2> QED
      BY ZenonT(30), <2>1, HolderFacts
<1>2. \E n \in Nat : 1..hi-lo = 1..n
  <2>1. CASE hi - lo >= 0
    <3>1. hi - lo \in Nat
        BY <2>1
    <3> QED
        BY ZenonT(30), <3>1
  <2>2. CASE hi - lo < 0
    <3>1. 1..hi-lo = 1..0
        BY <2>2
    <3> QED
        BY ZenonT(30), <3>1
  <2> QED
      BY <2>1, <2>2
<1>3. PICK n \in Nat : 1..hi-lo = 1..n
    BY ZenonT(30), <1>2
<1>4. Ptes(t, lo, hi) \in [1..n -> Holders]
    BY ZenonT(30), <1>1, <1>3 DEF Ptes
<1> QED
    BY ZenonT(30), <1>4, FunctionIsSeq

LEMMA TableSeqType ==
    ASSUME NEW t \in Tables, NEW n \in 0..MAXPAGES
    PROVE  TableSeq(t, n) \in Seq(Holders)
<1> USE CowAssumption
<1> DEFINE N == (MAXPAGES - 1) \div REGION
<1> DEFINE S == {m \in UserNodes : ref[Node(t, m)] # NULL}
<1> DEFINE k == Cardinality(S)
<1> DEFINE nodes == [i \in 1..k |-> Node(t, i - 1)]
<1>1. N \in Nat
    BY DivMono
<1>2. UserNodes = 0..N
    BY DEF UserNodes
<1> HIDE DEF N
<1>3. IsFiniteSet(0..N) /\ Cardinality(0..N) = N + 1
  <2>1. ASSUME NEW m \in Nat PROVE IsFiniteSet(0..m) /\ Cardinality(0..m) = m + 1
      BY FS_Interval
  <2> QED
      BY ZenonT(30), <1>1, <2>1
<1>4. k \in Nat /\ k <= N + 1
  <2>1. S \in SUBSET (0..N)
      BY <1>2
  <2> HIDE DEF S
  <2>2. IsFiniteSet(S) /\ Cardinality(S) <= Cardinality(0..N)
      BY ZenonT(30), <1>3, <2>1, FS_Subset
  <2> QED
      BY <1>3, <2>2, FS_CardinalityType
<1> HIDE DEF k
<1>5. ASSUME NEW i \in 1..k PROVE Node(t, i - 1) \in Holders
  <2>1. i - 1 \in UserNodes
      BY <1>1, <1>2, <1>4
  <2> QED
      BY <2>1 DEF Holders
<1>6. nodes \in [1..k -> Holders]
    BY ZenonT(30), <1>5
<1>7. nodes \in Seq(Holders) /\ <<Node(t, Root)>> \in Seq(Holders)
    BY <1>4, <1>6, HolderFacts, FunctionIsSeq
<1>8. NodeSeq(t) = nodes \o <<Node(t, Root)>>
    BY DEF NodeSeq, k
<1> HIDE DEF nodes
<1>9. NodeSeq(t) \in Seq(Holders)
    BY <1>7, <1>8
<1>10. Ptes(t, 0, n) \in Seq(Holders)
    BY ZenonT(30), PtesType
<1> QED
    BY <1>9, <1>10 DEF TableSeq

LEMMA ProcSeqType ==
    ASSUME TableType, NEW c \in Procs, NEW n \in 0..MAXPAGES
    PROVE  ProcSeq(c, n) \in Seq(Holders)
<1>1. Cur(c) \in Tables /\ <<Tf(c)>> \in Seq(Holders)
    BY HolderFacts DEF TableType, Cur, Tables
<1> QED
    BY <1>1, TableSeqType DEF ProcSeq

LEMMA UndoType ==
    ASSUME OpInv, NEW p \in Procs, op[p].pc \in {"alloc", "alloc_map"}
    PROVE  UvmallocUndo(p) \in Seq(Holders)
<1> USE CowAssumption
<1> DEFINE t == op[p].tab
<1>1. t \in Tables /\ op[p].lo \in 0..MAXPAGES /\ op[p].a \in 0..MAXPAGES
    BY DEF OpInv, OpOK, OpType
<1> HIDE DEF t
<1>2. Ptes(t, op[p].lo, op[p].a) \in Seq(Holders)
  <2>1. op[p].lo \in Nat
      BY <1>1
  <2> QED
      BY ZenonT(30), <1>1, <2>1, PtesType
<1>3. TableSeq(t, op[p].lo) \in Seq(Holders)
    BY ZenonT(30), <1>1, TableSeqType
<1>4. <<Mem(p)>> \in Seq(Holders)
    BY HolderFacts
<1> QED
    BY <1>2, <1>3, <1>4 DEF t, UvmallocUndo

-----------------------------------------------------------------------------
\* Locals of the kernel paths.
LEMMA IdleOK ==
    \A p : OpOK(p, User) /\ OpOK(p, Idle("unused")) /\ OpOK(p, Idle("zombie"))
             /\ OpOK(p, Idle("embryo"))
<1>1. << >> \in Seq(Holders) /\ 0 \in 0..MAXPAGES
    BY CowAssumption
<1>2. ASSUME NEW pc \in OpPcs PROVE Idle(pc) \in OpType /\ Idle(pc).pc = pc
    BY ZenonT(30), <1>1 DEF Idle, User, OpType, Nexts
<1>3. User \in OpType /\ User.pc = "user"
    BY <1>1 DEF User, OpType, OpPcs, Nexts
<1>4. {"unused", "zombie", "embryo"} \subseteq OpPcs
    BY ZenonT(30) DEF OpPcs
<1>5. ASSUME NEW p, NEW o \in OpType, o.pc \in {"user", "unused", "zombie", "embryo"}
      PROVE  OpOK(p, o)
    BY ZenonT(30), <1>5 DEF OpOK
<1> QED
    BY ZenonT(30), <1>2, <1>3, <1>4, <1>5

\* The state userinit() leaves.
LEMMA InitInv == Init => CowInv
<1> SUFFICES ASSUME Init PROVE CowInv
    OBVIOUS
<1> USE CowAssumption
<1> DEFINE t0 == <<InitProc, 0>>
<1> DEFINE held == <<Tf(InitProc), Node(t0, Root), Node(t0, 0), Pte(t0, 0)>>
<1> DEFINE page(h) == CHOOSE i \in 1..4 : held[i] = h
<1>1. \A h \in Holders : ref[h] = IF \E i \in 1..4 : held[i] = h THEN page(h) ELSE NULL
    BY ZenonT(30) DEF Init
<1>2. ASSUME NEW h \in Holders, ref[h] # NULL
      PROVE  ref[h] \in 1..4 /\ held[ref[h]] = h
  <2>1. (\E i \in 1..4 : held[i] = h) /\ ref[h] = page(h)
      BY ZenonT(30), <1>1, <1>2
  <2> HIDE DEF held
  <2> QED
      BY <2>1
<1> HIDE DEF page, held
<1>3. 1..4 \subseteq Pages /\ \A pa \in Pages : refcnt[pa] = IF pa \in 1..4 THEN 1 ELSE 0
    BY DEF Init, Pages
<1>4. MemType
  <2>1. refcnt \in [Pages -> Nat] /\ freelist \in SUBSET Pages /\ junk \in [Procs -> Pages \cup {NULL}]
      BY DEF Init
  <2>2. ref \in [Holders -> Pages \cup {NULL}]
    <3>1. ref = [h \in Holders |-> ref[h]]
        BY DEF Init
    <3>2. \A h \in Holders : ref[h] \in Pages \cup {NULL}
        BY ZenonT(30), <1>2, <1>3
    <3> QED
        BY ZenonT(30), <3>1, <3>2
  <2> QED
      BY ZenonT(30), <2>1, <2>2 DEF MemType
<1>5. TableType
  <2>1. 0 \in 0..MAXPAGES /\ 1 \in 0..MAXPAGES
      OBVIOUS
  <2> QED
      BY ZenonT(30), <2>1 DEF Init, TableType
<1>6. OpInv
  <2>1. OpOK(InitProc, User) /\ \A q \in Procs : OpOK(q, User) /\ OpOK(q, Idle("unused"))
      BY ZenonT(30), IdleOK
  <2>2. op = [q \in Procs |-> IF q = InitProc THEN User ELSE Idle("unused")]
      BY ZenonT(30) DEF Init
  <2>3. User \in OpType /\ Idle("unused") \in OpType
      BY ZenonT(30), <2>1 DEF OpOK
  <2> QED
      BY ZenonT(30), <2>1, <2>2, <2>3 DEF OpInv
<1>7. NoDangling
  <2>1. ASSUME NEW pa \in Pages PROVE Cardinality(Refs(pa)) <= refcnt[pa]
    <3>1. pa # NULL
        BY ZenonT(30) DEF Pages
    <3>2. CASE pa \in 1..4
      <4>1. Refs(pa) \in SUBSET {held[pa]}
          BY ZenonT(30), <1>2, <3>1 DEF Refs, RefsIn
      <4>2. IsFiniteSet({held[pa]}) /\ Cardinality({held[pa]}) = 1
          BY ZenonT(30), FS_Singleton
      <4>3. Cardinality(Refs(pa)) <= Cardinality({held[pa]})
          BY ZenonT(30), <4>1, <4>2, FS_Subset
      <4> QED
          BY ZenonT(30), <1>3, <3>2, <4>2, <4>3
    <3>3. CASE pa \notin 1..4
      <4>1. Refs(pa) = {}
          BY ZenonT(30), <1>2, <3>1, <3>3 DEF Refs, RefsIn
      <4> QED
          BY <1>3, <3>3, <4>1, FS_EmptySet
    <3> QED
        BY ZenonT(30), <3>2, <3>3
  <2>2. (\A pa \in freelist : refcnt[pa] = 0) /\ \A p \in Procs : junk[p] = NULL
      BY ZenonT(30), <1>3 DEF Init
  <2> QED
      BY ZenonT(30), <2>1, <2>2 DEF NoDangling
<1>8. NoSharedWritable
    BY ZenonT(30), <1>2, <1>3, HolderFacts DEF NoSharedWritable, Mapped
<1>9. \A p \in Procs : op[p].pc \in {"user", "unused"}
    BY ZenonT(30) DEF Init, User, Idle
<1>10. Fresh /\ ReadOnly
    BY ZenonT(30), <1>9 DEF Fresh, ReadOnly, FreshPcs
<1> QED
    BY ZenonT(30), <1>4, <1>5, <1>6, <1>7, <1>8, <1>10 DEF CowInv

-----------------------------------------------------------------------------
\* Locals of the kernel paths.
LEMMA OpUpdate ==
    ASSUME OpInv, NEW p \in Procs, NEW o, OpOK(p, o), op' = [op EXCEPT ![p] = o]
    PROVE  OpInv'
<1>1. op' \in [Procs -> OpType]
    BY ZenonT(30) DEF OpInv, OpOK
<1>2. ASSUME NEW q \in Procs PROVE OpOK(q, op'[q])
    BY ZenonT(30) DEF OpInv
<1> QED
    BY ZenonT(30), <1>1, <1>2 DEF OpInv

LEMMA OpUpdateTwo ==
    ASSUME OpInv, NEW p \in Procs, NEW c \in Procs, NEW o, NEW u, OpOK(p, o), OpOK(c, u),
           op' = [op EXCEPT ![p] = o, ![c] = u]
    PROVE  OpInv'
<1>1. op' \in [Procs -> OpType]
    BY ZenonT(30) DEF OpInv, OpOK
<1>2. ASSUME NEW q \in Procs PROVE OpOK(q, op'[q])
    BY ZenonT(30) DEF OpInv
<1> QED
    BY ZenonT(30), <1>1, <1>2 DEF OpInv

LEMMA FreeOp ==
    ASSUME OpInv, NEW p \in Procs, NEW todo \in Seq(Holders), Free(p, todo)
    PROVE  OpInv' /\ op'[p].pc = "free" /\ \A q \in Procs \ {p} : op'[q] = op[q]
<1> DEFINE o == [op[p] EXCEPT !.pc = "free", !.todo = todo, !.next = "user"]
<1>1. op \in [Procs -> OpType] /\ op[p] \in OpType
    BY DEF OpInv
<1>2. op' = [op EXCEPT ![p] = o]
    BY DEF Free
<1>3. o \in OpType /\ o.pc = "free"
    BY ZenonT(30), <1>1 DEF OpType, OpPcs, Nexts
<1>4. OpOK(p, o)
    BY ZenonT(30), <1>3 DEF OpOK
<1> HIDE DEF o
<1> QED
    BY ZenonT(30), <1>1, <1>2, <1>3, <1>4, OpUpdate

-----------------------------------------------------------------------------
\* What the steps of kalloc.c do to the references: counts still cover the
\* holders, and a holder that was the only one of its page still is.
SoleKept(X) ==
    \A h \in Holders \ X :
        ref[h] # NULL /\ refcnt[ref[h]] = 1 /\ ref'[h] = ref[h] => refcnt'[ref[h]] = 1

LEMMA MemQuiet ==
    ASSUME MemType, NoDangling, UNCHANGED <<freelist, refcnt, junk, ref>>
    PROVE  MemType' /\ NoDangling' /\ SoleKept({})
<1>1. MemType' /\ SoleKept({})
    BY DEF MemType, SoleKept
<1>2. \A pa : Refs(pa)' = Refs(pa)
    BY ZenonT(30) DEF Refs, RefsIn
<1> QED
    BY ZenonT(30), <1>1, <1>2 DEF NoDangling

\* A page of the free list is named by nobody.
LEMMA FreeUnnamed ==
    ASSUME MemType, NoDangling, NEW pa \in freelist
    PROVE  pa \in Pages /\ refcnt[pa] = 0 /\ \A h \in Holders : ref[h] # pa
<1>1. pa \in Pages /\ pa # NULL
    BY ZenonT(30), CowAssumption DEF MemType, Pages
<1> QED
    BY ZenonT(30), <1>1, OneRef DEF NoDangling

\* kalloc() into h: a page that only h names.
LEMMA MemKalloc ==
    ASSUME MemType, NoDangling, NEW h \in Holders, NEW c, Kalloc(h, c)
    PROVE  /\ MemType' /\ NoDangling' /\ SoleKept({}) /\ UNCHANGED <<panic, junk>>
           /\ \A g \in Holders \ {h} : ref'[g] = ref[g]
           /\ ref'[h] # NULL /\ refcnt'[ref'[h]] = 1
<1> DEFINE pa == CHOOSE g \in freelist : TRUE
<1>1. pa \in freelist
    BY DEF Kalloc
<1>2. pa \in Pages /\ refcnt[pa] = 0 /\ (\A g \in Holders : ref[g] # pa) /\ pa # NULL
    BY ZenonT(30), <1>1, FreeUnnamed, CowAssumption DEF Pages
<1>3. /\ refcnt' = [refcnt EXCEPT ![pa] = 1]
      /\ freelist' = freelist \ {pa}
      /\ ref' = [ref EXCEPT ![h] = pa]
      /\ UNCHANGED <<panic, junk>>
    BY ZenonT(30), <1>2 DEF Kalloc
<1> HIDE DEF pa
<1>4. MemType'
    BY ZenonT(30), <1>2, <1>3 DEF MemType
<1>5. ASSUME NEW pb \in Pages PROVE Cardinality(Refs(pb)') <= refcnt'[pb]
  <2>1. Cardinality(Refs(pb)) <= refcnt[pb]
      BY ZenonT(30) DEF NoDangling
  <2>2. CASE pb = pa
    <3>1. RefsIn(ref', pb) \subseteq RefsIn(ref, pb) \cup {h}
        BY ZenonT(30), <1>3 DEF RefsIn, MemType
    <3>2. Cardinality(RefsIn(ref', pb)) <= Cardinality(RefsIn(ref, pb)) + 1
        BY ZenonT(30), <3>1, RefsOneMore
    <3>3. Cardinality(RefsIn(ref, pb)) \in Nat /\ Cardinality(RefsIn(ref', pb)) \in Nat
        BY ZenonT(30), RefsFinite
    <3>4. refcnt'[pb] = 1 /\ refcnt[pb] = 0
        BY ZenonT(30), <1>2, <1>3, <2>2 DEF MemType
    <3> QED
        BY <2>1, <3>2, <3>3, <3>4 DEF Refs
  <2>3. CASE pb # pa
    <3>1. RefsIn(ref', pb) \subseteq RefsIn(ref, pb)
        BY ZenonT(30), <1>3, <2>3 DEF RefsIn, MemType
    <3>2. Cardinality(RefsIn(ref', pb)) <= Cardinality(RefsIn(ref, pb))
        BY ZenonT(30), <3>1, RefsFewer
    <3>3. Cardinality(RefsIn(ref, pb)) \in Nat /\ Cardinality(RefsIn(ref', pb)) \in Nat
        BY RefsFinite
    <3>4. refcnt'[pb] = refcnt[pb] /\ refcnt[pb] \in Nat
        BY ZenonT(30), <1>3, <2>3 DEF MemType
    <3> QED
        BY <2>1, <3>2, <3>3, <3>4 DEF Refs
  <2> QED
      BY ZenonT(30), <2>2, <2>3
<1>6. \A pb \in freelist' : refcnt'[pb] = 0
    BY ZenonT(30), <1>2, <1>3 DEF MemType, NoDangling
<1>7. ASSUME NEW q \in Procs, junk'[q] # NULL
      PROVE  /\ refcnt'[junk'[q]] = 0 /\ junk'[q] \notin freelist'
             /\ \A r \in Procs : junk'[r] = junk'[q] => r = q
  <2>1. junk'[q] = junk[q] /\ junk[q] # pa /\ junk[q] \in Pages
      BY ZenonT(30), <1>1, <1>3, <1>7 DEF NoDangling, MemType, pa
  <2> QED
      BY ZenonT(30), <1>3, <1>7, <2>1 DEF NoDangling, MemType
<1>8. NoDangling'
    BY ZenonT(30), <1>5, <1>6, <1>7 DEF NoDangling
<1>9. SoleKept({})
    BY ZenonT(30), <1>2, <1>3 DEF SoleKept, MemType
<1>10. (\A g \in Holders \ {h} : ref'[g] = ref[g]) /\ ref'[h] = pa /\ refcnt'[pa] = 1
    BY ZenonT(30), <1>2, <1>3 DEF MemType
<1> QED
    BY ZenonT(30), <1>2, <1>3, <1>4, <1>8, <1>9, <1>10

\* Dropping references without touching the counts.
LEMMA MemDrop ==
    ASSUME MemType, NoDangling, UNCHANGED <<freelist, refcnt, junk>>,
           NEW h \in Holders, ref' = [ref EXCEPT ![h] = NULL]
    PROVE  MemType' /\ NoDangling' /\ SoleKept({})
<1>1. MemType' /\ SoleKept({})
    BY DEF MemType, SoleKept
<1>2. ASSUME NEW pb \in Pages PROVE Cardinality(Refs(pb)') <= refcnt'[pb]
  <2>1. Cardinality(Refs(pb)) <= refcnt[pb] /\ refcnt[pb] \in Nat
      BY DEF NoDangling, MemType
  <2>2. pb # NULL
      BY ZenonT(30), CowAssumption DEF Pages
  <2>3. RefsIn(ref', pb) \subseteq RefsIn(ref, pb)
      BY ZenonT(30), <2>2 DEF RefsIn, MemType
  <2>4. Cardinality(RefsIn(ref', pb)) <= Cardinality(RefsIn(ref, pb))
      BY ZenonT(30), <2>3, RefsFewer
  <2>5. Cardinality(RefsIn(ref, pb)) \in Nat /\ Cardinality(RefsIn(ref', pb)) \in Nat
      BY ZenonT(30), RefsFinite
  <2> QED
      BY <2>1, <2>4, <2>5 DEF Refs
<1> QED
    BY ZenonT(30), <1>1, <1>2 DEF NoDangling

\* Moving a reference from g to h, and forgetting the one h had.
LEMMA MoveRef ==
    ASSUME NEW r \in [Holders -> Pages \cup {NULL}], NEW g \in Holders, NEW h \in Holders, g # h,
           NEW s, s = [r EXCEPT ![h] = r[g], ![g] = NULL], NEW pb \in Pages
    PROVE  /\ s \in [Holders -> Pages \cup {NULL}]
           /\ Cardinality(RefsIn(s, pb)) <= Cardinality(RefsIn(r, pb))
           /\ r[h] = pb => Cardinality(RefsIn(s, pb)) <= Cardinality(RefsIn(r, pb)) - 1
<1>1. s \in [Holders -> Pages \cup {NULL}] /\ pb # NULL
    BY ZenonT(30), CowAssumption DEF Pages
<1>2. s[h] = r[g] /\ s[g] = NULL /\ \A k \in Holders \ {g, h} : s[k] = r[k]
    OBVIOUS
<1>3. Cardinality(RefsIn(r, pb)) \in Nat /\ Cardinality(RefsIn(s, pb)) \in Nat
    BY ZenonT(30), RefsFinite
<1>4. CASE r[h] = pb /\ r[g] # pb
  <2>1. h \in RefsIn(r, pb) /\ RefsIn(s, pb) \subseteq RefsIn(r, pb) \ {h}
      BY ZenonT(30), <1>1, <1>2, <1>4 DEF RefsIn
  <2>2. Cardinality(RefsIn(s, pb)) <= Cardinality(RefsIn(r, pb)) - 1
      BY ZenonT(30), <2>1, RefsOneLess
  <2> QED
      BY <1>1, <1>3, <2>2
<1>5. CASE r[h] = pb /\ r[g] = pb
  <2>1. g \in RefsIn(r, pb) /\ RefsIn(s, pb) \subseteq RefsIn(r, pb) \ {g}
      BY ZenonT(30), <1>1, <1>2, <1>5 DEF RefsIn
  <2>2. Cardinality(RefsIn(s, pb)) <= Cardinality(RefsIn(r, pb)) - 1
      BY ZenonT(30), <2>1, RefsOneLess
  <2> QED
      BY <1>1, <1>3, <2>2
<1>6. CASE r[h] # pb /\ r[g] = pb
  <2>1. g \in RefsIn(r, pb) /\ RefsIn(s, pb) \subseteq (RefsIn(r, pb) \ {g}) \cup {h}
      BY ZenonT(30), <1>1, <1>2, <1>6 DEF RefsIn
  <2>2. Cardinality(RefsIn(s, pb)) <= Cardinality(RefsIn(r, pb))
      BY ZenonT(30), <2>1, RefsMoved
  <2> QED
      BY ZenonT(30), <1>1, <1>6, <2>2
<1>7. CASE r[h] # pb /\ r[g] # pb
  <2>1. RefsIn(s, pb) \subseteq RefsIn(r, pb)
      BY ZenonT(30), <1>1, <1>2, <1>7 DEF RefsIn
  <2>2. Cardinality(RefsIn(s, pb)) <= Cardinality(RefsIn(r, pb))
      BY ZenonT(30), <2>1, RefsFewer
  <2> QED
      BY ZenonT(30), <1>1, <1>7, <2>2
<1> QED
    BY ZenonT(30), <1>4, <1>5, <1>6, <1>7

LEMMA MemMove ==
    ASSUME MemType, NoDangling, UNCHANGED <<freelist, refcnt, junk>>,
           NEW g \in Holders, NEW h \in Holders, g # h,
           ref' = [ref EXCEPT ![h] = ref[g], ![g] = NULL]
    PROVE  MemType' /\ NoDangling' /\ SoleKept({})
<1>1. ref \in [Holders -> Pages \cup {NULL}] /\ 1 \in Pages
    BY CowAssumption DEF MemType, Pages
<1>2. MemType' /\ SoleKept({})
    BY ZenonT(30), <1>1, MoveRef DEF MemType, SoleKept
<1>3. ASSUME NEW pb \in Pages PROVE Cardinality(Refs(pb)') <= refcnt'[pb]
  <2>1. Cardinality(RefsIn(ref', pb)) <= Cardinality(RefsIn(ref, pb))
      BY ZenonT(30), <1>1, MoveRef
  <2>2. Cardinality(RefsIn(ref, pb)) \in Nat /\ Cardinality(RefsIn(ref', pb)) \in Nat
      BY ZenonT(30), RefsFinite
  <2>3. Cardinality(Refs(pb)) <= refcnt[pb] /\ refcnt[pb] \in Nat
      BY DEF NoDangling, MemType
  <2> QED
      BY <2>1, <2>2, <2>3 DEF Refs
<1> QED
    BY ZenonT(30), <1>2, <1>3 DEF NoDangling

\* decrease_cnt() of the page g named, whose holders are one less.
LEMMA MemDecrease ==
    ASSUME MemType, NoDangling, NEW p \in Procs, NEW g \in Holders, ref[g] # NULL,
           ref' \in [Holders -> Pages \cup {NULL}], ref'[g] # ref[g],
           \A pb \in Pages :
              /\ Cardinality(RefsIn(ref', pb)) <= Cardinality(RefsIn(ref, pb))
              /\ ref[g] = pb => Cardinality(RefsIn(ref', pb)) <= Cardinality(RefsIn(ref, pb)) - 1,
           refcnt' = [refcnt EXCEPT ![ref[g]] = @ - 1],
           junk' = [junk EXCEPT ![p] = IF refcnt[ref[g]] = 1 THEN ref[g] ELSE NULL],
           UNCHANGED freelist
    PROVE  MemType' /\ NoDangling' /\ SoleKept({})
<1> DEFINE pa == ref[g]
<1>1. pa \in Pages /\ refcnt[pa] >= 1 /\ pa \notin freelist /\ refcnt[pa] \in Nat
    BY ZenonT(30), OneRef DEF MemType
<1>2. refcnt[pa] - 1 \in Nat
    BY <1>1
<1>3. MemType'
    BY ZenonT(30), <1>1, <1>2 DEF MemType
<1>4. refcnt'[pa] = refcnt[pa] - 1 /\ \A pb \in Pages \ {pa} : refcnt'[pb] = refcnt[pb]
    BY ZenonT(30), <1>1 DEF MemType
<1>5. ASSUME NEW pb \in Pages PROVE Cardinality(Refs(pb)') <= refcnt'[pb]
  <2>1. Cardinality(RefsIn(ref, pb)) \in Nat /\ Cardinality(RefsIn(ref', pb)) \in Nat
      BY ZenonT(30), RefsFinite
  <2>2. Cardinality(Refs(pb)) <= refcnt[pb] /\ refcnt[pb] \in Nat
      BY ZenonT(30) DEF NoDangling, MemType
  <2> QED
      BY <1>4, <2>1, <2>2 DEF Refs
<1>6. \A pb \in freelist' : refcnt'[pb] = 0
    BY ZenonT(30), <1>1, <1>4 DEF NoDangling, MemType
<1>7. ASSUME NEW q \in Procs, junk'[q] # NULL
      PROVE  /\ refcnt'[junk'[q]] = 0 /\ junk'[q] \notin freelist'
             /\ \A r \in Procs : junk'[r] = junk'[q] => r = q
  <2>1. \A r \in Procs \ {p} : junk'[r] = junk[r]
      BY ZenonT(30) DEF MemType
  <2>2. \A r \in Procs : junk[r] # pa
      BY <1>1, CowAssumption DEF NoDangling, Pages
  <2>3. junk'[p] \in {pa, NULL} /\ (junk'[p] = pa => refcnt[pa] = 1)
      BY ZenonT(30), <1>1, CowAssumption DEF MemType, Pages
  <2>4. CASE q = p
    <3>1. junk'[q] = pa /\ refcnt[pa] = 1
        BY ZenonT(30), <1>7, <2>3, <2>4
    <3> QED
        BY <1>1, <1>4, <2>1, <2>2, <2>4, <3>1
  <2>5. CASE q # p
    <3>1. junk'[q] = junk[q] /\ junk[q] # NULL /\ junk[q] # pa /\ junk[q] \in Pages
        BY ZenonT(30), <1>7, <2>1, <2>2, <2>5 DEF MemType
    <3>2. refcnt'[junk'[q]] = 0 /\ junk'[q] \notin freelist'
        BY <1>4, <3>1 DEF NoDangling
    <3>3. \A r \in Procs : junk'[r] = junk'[q] => r = q
        BY <2>1, <2>3, <2>5, <3>1 DEF NoDangling
    <3> QED
        BY ZenonT(30), <3>2, <3>3
  <2> QED
      BY ZenonT(30), <2>4, <2>5
<1>8. SoleKept({})
  <2>1. SUFFICES ASSUME NEW h \in Holders, ref[h] # NULL, refcnt[ref[h]] = 1, ref'[h] = ref[h]
                 PROVE  refcnt'[ref[h]] = 1
      BY ZenonT(30) DEF SoleKept
  <2>2. ref[h] # pa
      BY <2>1, TwoRefs
  <2> QED
      BY ZenonT(30), <1>4, <2>1, <2>2 DEF MemType
<1>9. NoDangling'
    BY ZenonT(30), <1>5, <1>6, <1>7 DEF NoDangling
<1> QED
    BY ZenonT(30), <1>3, <1>8, <1>9

\* kfree() by p of the page h names.
LEMMA MemKfree ==
    ASSUME MemType, NoDangling, NEW p \in Procs, NEW h \in Holders, Kfree(p, h)
    PROVE  /\ MemType' /\ NoDangling' /\ SoleKept({})
           /\ \A g \in Holders : ref'[g] = ref[g] \/ ref'[g] = NULL
           /\ panic' = "none" => panic = "none"
<1>1. CASE ref[h] = NULL \/ refcnt[ref[h]] < 1
  <2>1. UNCHANGED <<freelist, refcnt, junk, ref>> /\ panic' = "kmem"
      BY ZenonT(30), <1>1 DEF Kfree
  <2> QED
      BY ZenonT(30), <2>1, MemQuiet
<1>2. CASE ~(ref[h] = NULL \/ refcnt[ref[h]] < 1)
  <2>1. /\ refcnt' = [refcnt EXCEPT ![ref[h]] = @ - 1]
        /\ junk' = [junk EXCEPT ![p] = IF refcnt[ref[h]] = 1 THEN ref[h] ELSE NULL]
        /\ ref' = [ref EXCEPT ![h] = NULL]
        /\ UNCHANGED <<panic, freelist>>
      BY ZenonT(30), <1>2 DEF Kfree
  <2>2. ref' \in [Holders -> Pages \cup {NULL}] /\ ref'[h] = NULL
        /\ \A g \in Holders \ {h} : ref'[g] = ref[g]
      BY ZenonT(30), <2>1 DEF MemType
  <2>3. ASSUME NEW pb \in Pages
        PROVE  /\ Cardinality(RefsIn(ref', pb)) <= Cardinality(RefsIn(ref, pb))
               /\ ref[h] = pb => Cardinality(RefsIn(ref', pb)) <= Cardinality(RefsIn(ref, pb)) - 1
    <3>1. pb # NULL
        BY ZenonT(30), CowAssumption DEF Pages
    <3>2. RefsIn(ref', pb) \subseteq RefsIn(ref, pb)
        BY ZenonT(30), <2>2, <3>1 DEF RefsIn
    <3>3. Cardinality(RefsIn(ref', pb)) <= Cardinality(RefsIn(ref, pb))
        BY ZenonT(30), <3>2, RefsFewer
    <3>4. ASSUME ref[h] = pb
          PROVE  Cardinality(RefsIn(ref', pb)) <= Cardinality(RefsIn(ref, pb)) - 1
      <4>1. h \in RefsIn(ref, pb) /\ RefsIn(ref', pb) \subseteq RefsIn(ref, pb) \ {h}
          BY ZenonT(30), <2>2, <3>1, <3>4 DEF RefsIn
      <4> QED
          BY ZenonT(30), <4>1, RefsOneLess
    <3> QED
        BY ZenonT(30), <3>3, <3>4
  <2>4. MemType' /\ NoDangling' /\ SoleKept({})
      BY ZenonT(30), <1>2, <2>1, <2>2, <2>3, MemDecrease
  <2> QED
      BY ZenonT(30), <2>1, <2>2, <2>4
<1> QED
    BY ZenonT(30), <1>1, <1>2

LEMMA MemAdd2FL ==
    ASSUME MemType, NoDangling, NEW p \in Procs, Add2FL(p)
    PROVE  MemType' /\ NoDangling' /\ SoleKept({})
<1>1. /\ junk[p] # NULL /\ junk[p] \in Pages /\ refcnt[junk[p]] = 0
      /\ freelist' = freelist \cup {junk[p]} /\ junk' = [junk EXCEPT ![p] = NULL]
      /\ UNCHANGED <<refcnt, ref>>
    BY ZenonT(30) DEF Add2FL, MemType, NoDangling
<1>2. MemType' /\ SoleKept({})
    BY ZenonT(30), <1>1 DEF MemType, SoleKept
<1>3. \A pb : Refs(pb)' = Refs(pb)
    BY ZenonT(30), <1>1 DEF Refs, RefsIn
<1>4. \A pb \in freelist' : refcnt'[pb] = 0
    BY ZenonT(30), <1>1 DEF NoDangling
<1>5. junk'[p] = NULL /\ \A r \in Procs \ {p} : junk'[r] = junk[r]
    BY ZenonT(30), <1>1 DEF MemType
<1>6. ASSUME NEW q \in Procs, junk'[q] # NULL
      PROVE  /\ refcnt'[junk'[q]] = 0 /\ junk'[q] \notin freelist'
             /\ \A r \in Procs : junk'[r] = junk'[q] => r = q
  <2>1. q # p /\ junk'[q] = junk[q] /\ junk[q] # junk[p]
      BY ZenonT(30), <1>1, <1>5, <1>6 DEF NoDangling
  <2> QED
      BY <1>1, <1>5, <1>6, <2>1 DEF NoDangling
<1>7. \A pb \in Pages : Cardinality(Refs(pb)') <= refcnt'[pb]
    BY ZenonT(30), <1>1, <1>3 DEF NoDangling
<1> QED
    BY ZenonT(30), <1>2, <1>4, <1>6, <1>7 DEF NoDangling

\* increase_cnt() of the page g names, for a second holder h.
LEMMA MemShare ==
    ASSUME MemType, NoDangling, NEW g \in Holders, NEW h \in Holders, ref[g] # NULL,
           refcnt' = [refcnt EXCEPT ![ref[g]] = @ + 1],
           ref' = [ref EXCEPT ![h] = ref[g]], UNCHANGED <<freelist, junk>>
    PROVE  MemType' /\ NoDangling' /\ SoleKept({g})
<1> DEFINE pa == ref[g]
<1>1. pa \in Pages /\ refcnt[pa] >= 1 /\ pa \notin freelist /\ refcnt[pa] \in Nat
    BY ZenonT(30), OneRef DEF MemType
<1>2. refcnt[pa] + 1 \in Nat
    BY <1>1
<1>3. MemType'
    BY ZenonT(30), <1>1, <1>2 DEF MemType
<1>4. refcnt'[pa] = refcnt[pa] + 1 /\ \A pb \in Pages \ {pa} : refcnt'[pb] = refcnt[pb]
    BY ZenonT(30), <1>1 DEF MemType
<1>5. ASSUME NEW pb \in Pages PROVE Cardinality(Refs(pb)') <= refcnt'[pb]
  <2>1. Cardinality(RefsIn(ref, pb)) \in Nat /\ Cardinality(RefsIn(ref', pb)) \in Nat
      BY ZenonT(30), RefsFinite
  <2>2. Cardinality(Refs(pb)) <= refcnt[pb] /\ refcnt[pb] \in Nat
      BY ZenonT(30) DEF NoDangling, MemType
  <2>3. CASE pb = pa
    <3>1. RefsIn(ref', pb) \subseteq RefsIn(ref, pb) \cup {h}
        BY ZenonT(30) DEF RefsIn, MemType
    <3>2. Cardinality(RefsIn(ref', pb)) <= Cardinality(RefsIn(ref, pb)) + 1
        BY ZenonT(30), <3>1, RefsOneMore
    <3> QED
        BY <1>4, <2>1, <2>2, <2>3, <3>2 DEF Refs
  <2>4. CASE pb # pa
    <3>1. RefsIn(ref', pb) \subseteq RefsIn(ref, pb)
        BY ZenonT(30), <2>4 DEF RefsIn, MemType
    <3>2. Cardinality(RefsIn(ref', pb)) <= Cardinality(RefsIn(ref, pb))
        BY ZenonT(30), <3>1, RefsFewer
    <3> QED
        BY <1>4, <2>1, <2>2, <2>4, <3>2 DEF Refs
  <2> QED
      BY ZenonT(30), <2>3, <2>4
<1>6. (\A pb \in freelist : pb # pa /\ pb \in Pages)
      /\ \A q \in Procs : junk[q] # NULL => junk[q] # pa /\ junk[q] \in Pages
    BY <1>1 DEF NoDangling, MemType
<1>7. NoDangling'
    BY ZenonT(30), <1>4, <1>5, <1>6 DEF NoDangling
<1>8. SoleKept({g})
  <2>1. SUFFICES ASSUME NEW k \in Holders, k # g, ref[k] # NULL, refcnt[ref[k]] = 1, ref'[k] = ref[k]
                 PROVE  refcnt'[ref[k]] = 1
      BY ZenonT(30) DEF SoleKept
  <2>2. ref[k] # pa
      BY <2>1, TwoRefs
  <2> QED
      BY ZenonT(30), <1>4, <2>1, <2>2 DEF MemType
<1> QED
    BY ZenonT(30), <1>3, <1>7, <1>8
=============================================================================
