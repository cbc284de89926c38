----------------------------- MODULE FilesProofs ----------------------------
(***************************************************************************)
(* The rest of the proof begun in FilesSteps: pipe() and fork(), which     *)
(* take files and references, the initial states and the step from Next to *)
(* FilesInv; and the properties that FilesInv implies.                     *)
(***************************************************************************)
EXTENDS FilesSteps

-----------------------------------------------------------------------------
\* A new file has one reference.
Single(f) ==
    \/ \E x : Holders(f)' = {x} /\ Flying(f)' = {}
    \/ \E x : Holders(f)' = {} /\ Flying(f)' = {x}

LEMMA OneReference == ASSUME NEW f, Single(f) PROVE Refs(f)' = 1
<1>1. Cardinality({}) = 0 /\ \A x : Cardinality({x}) = 1
    BY FS_EmptySet, FS_Singleton, ZenonT(30)
<1>2. \/ Cardinality(Holders(f)') = 1 /\ Cardinality(Flying(f)') = 0
      \/ Cardinality(Holders(f)') = 0 /\ Cardinality(Flying(f)') = 1
    BY ZenonT(30), <1>1 DEF Single
<1>3. Refs(f)' = Cardinality(Holders(f)') + Cardinality(Flying(f)')
    BY ZenonT(30) DEF Refs
<1> QED
    BY SMTT(30), <1>2, <1>3

\* What an assignment to the count makes of an entry of the file table.
LEMMA FileSet ==
    ASSUME NEW n, NEW x, NEW w, NEW r, r = [ref |-> n, pipe |-> x, writable |-> w], NEW v
    PROVE  [r EXCEPT !.ref = v] = [ref |-> v, pipe |-> x, writable |-> w]
BY SMTT(30)

\* filealloc() returns an entry without references.
LEMMA FreeFile ==
    ASSUME FilesInv, FreeFiles # {}
    PROVE  /\ First(FreeFiles) \in FileIds /\ file[First(FreeFiles)].ref = 0
           /\ file[First(FreeFiles)] = NoFile
<1>1. FreeFiles \in SUBSET Nat
    BY SMTT(30) DEF FreeFiles, FileIds
<1>2. First(FreeFiles) \in FreeFiles
    BY ZenonT(30), <1>1, LeastExists
<1> QED
    BY ZenonT(30), <1>2 DEF FreeFiles, FilesInv, FileInv

\* sys_pipe() begins: a file of type FD_NONE is in hand.
LEMMA SysPipeInv == ASSUME FilesInv, NEW p \in Procs \ {init}, SysPipe(p) PROVE FilesInv'
<1> USE DEF FilesInv, Types
<1>1. /\ proc[p].state = "RUNNABLE" /\ op[p].pc = "user"
      /\ UNCHANGED <<proc, lock, ofile, pipe, stranded>>
    BY ZenonT(30) DEF SysPipe, Calls
<1>2. PICK f \in FileIds : f = First(FreeFiles) /\ file[f].ref = 0 /\ file[f] = NoFile
    BY ZenonT(30), FreeFile DEF SysPipe
<1>0. PICK o : o = [pc |-> "pipealloc", f0 |-> f]
    BY ZenonT(30)
<1>3. OpSet(p, o) /\ o.pc = "pipealloc" /\ o.f0 = f
    BY ZenonT(30), <1>0, <1>2, OpMoves DEF SysPipe, Then
<1>4. /\ DOMAIN file' = FileIds /\ \A g \in FileIds \ {f} : file'[g] = file[g]
      /\ file'[f] = [ref |-> 1, pipe |-> 0, writable |-> FALSE]
  <2>1. file' = [file EXCEPT ![f].ref = 1]
      BY ZenonT(30), <1>2 DEF SysPipe
  <2>2. [NoFile EXCEPT !.ref = 1] = [ref |-> 1, pipe |-> 0, writable |-> FALSE]
    <3>1. PICK w : w = FALSE
        BY ZenonT(30)
    <3>2. NoFile = [ref |-> 0, pipe |-> 0, writable |-> w]
        BY ZenonT(30), <3>1 DEF NoFile
    <3>3. [NoFile EXCEPT !.ref = 1] = [ref |-> 1, pipe |-> 0, writable |-> w]
        BY SMTT(30), <3>2, FileSet
    <3> QED
        BY ZenonT(30), <3>1, <3>3
  <2>3. [file[f] EXCEPT !.ref = 1] = [ref |-> 1, pipe |-> 0, writable |-> FALSE]
      BY ZenonT(30), <1>2, <2>2
  <2>4. DOMAIN file = FileIds
      BY ZenonT(30) DEF TableType
  <2> QED
      BY ZenonT(30), <1>2, <2>1, <2>3, <2>4
<1>f. file'[f].ref = 1 /\ file'[f].pipe = 0
  <2>1. PICK w, r : w = FALSE /\ r = file'[f]
      BY ZenonT(30)
  <2>2. r = [ref |-> 1, pipe |-> 0, writable |-> w]
      BY ZenonT(30), <1>4, <2>1
  <2>3. r.ref = 1 /\ r.pipe = 0
      BY ZenonT(30), <2>2, FileFields
  <2> QED
      BY ZenonT(30), <2>1, <2>3
<1>5. IsOp(p, o) /\ op[p].pc \in CallPcs /\ o.pc \in CallPcs
    BY ZenonT(30), <1>1, <1>2, <1>3 DEF IsOp, Pcs, CallPcs, FilePcs
<1>6. ProcType' /\ OpType' /\ StateInv' /\ FamilyInv' /\ LockInv' /\ WakeInv'
    BY ZenonT(30), <1>1, <1>3, <1>5, CallStep
<1>7. TableType'
  <2>1. file'[f] \in FileRec
      BY SMTT(30), <1>4 DEF FileRec
  <2> QED
      BY ZenonT(30), <1>1, <1>2, <1>4, <2>1 DEF TableType, SysPipe
<1>8. /\ \A q \in Procs, d \in FDs : ofile[q][d] # f
      /\ \A q \in Procs : f \notin InFlight(q)
    BY ZenonT(30), <1>2, NoHolders DEF Unreferenced
<1>9. InFlight(p) = {} /\ InFlight(p)' = {f} /\ \A q \in Procs \ {p} : InFlight(q)' = InFlight(q)
    BY ZenonT(30), <1>1, <1>3, HandMoves DEF Hand
<1>10. \A g \in FileIds : Holders(g)' = Holders(g)
    BY ZenonT(30), <1>1 DEF Holders
<1>11. Holders(f) = {}
    BY ZenonT(30), <1>8 DEF Holders
<1>12. Flying(f)' = {p} /\ \A g \in FileIds \ {f} : Flying(g)' = Flying(g)
    BY ZenonT(30), <1>8, <1>9 DEF Flying
<1>13. RefsExact'
  <2>1. Single(f) /\ \A g \in FileIds \ {f} : Same(g)
      BY ZenonT(30), <1>2, <1>10, <1>11, <1>12 DEF Single, Same
  <2>2. \A g \in FileIds : file'[g].ref = Refs(g)'
    <3>1. Refs(f)' = 1 /\ file'[f].ref = 1
        BY ZenonT(30), <1>f, <2>1, OneReference
    <3>2. ASSUME NEW g \in FileIds \ {f} PROVE file'[g].ref = Refs(g)'
        BY ZenonT(30), <1>4, <2>1, RefsMove
    <3> QED
        BY ZenonT(30), <3>1, <3>2
  <2> QED
      BY ZenonT(30), <2>2, RefsHold
<1>14. FileInv'
  <2>1. \A q \in Procs, d \in FDs : ofile[q][d] # 0 => ofile[q][d] \in FileIds \ {f}
      BY SMTT(30), <1>8 DEF TableType
  <2>2. ASSUME NEW q \in Procs, op'[q].pc = "pipealloc"
        PROVE  file'[op'[q].f0].pipe = 0 /\ file'[op'[q].f0].ref = 1
    <3>1. CASE q = p
      <4>1. op'[q].f0 = f /\ file'[f].pipe = 0 /\ file'[f].ref = 1
          BY ZenonT(30), <1>3, <1>f, <3>1 DEF OpSet
      <4> QED
          BY ZenonT(30), <4>1
    <3>2. CASE q # p
      <4>1. op'[q] = op[q] /\ op[q].f0 \in FileIds /\ op[q].f0 # f
        <5>1. op'[q] = op[q]
            BY ZenonT(30), <1>3, <3>2 DEF OpSet
        <5>2. op[q].f0 \in FileIds /\ file[op[q].f0].ref = 1
            BY ZenonT(30), <2>2, <5>1 DEF OpType, IsOp, FileInv
        <5> QED
            BY ZenonT(30), <1>2, <5>1, <5>2, Sums
      <4> QED
        <5>1. file[op[q].f0].pipe = 0 /\ file[op[q].f0].ref = 1
            BY ZenonT(30), <2>2, <4>1 DEF FileInv
        <5> QED
            BY ZenonT(30), <1>4, <4>1, <5>1
    <3> QED
        BY ZenonT(30), <3>1, <3>2
  <2>3. \A g \in FileIds : file'[g].ref = 0 => file'[g] = NoFile
    <3>1. file'[f].ref # 0
        BY ZenonT(30), <1>f, Sums
    <3> QED
        BY ZenonT(30), <1>4, <3>1 DEF FileInv
  <2> QED
    <3>1. ASSUME NEW q \in Procs, NEW d \in FDs, ofile'[q][d] # 0 PROVE file'[ofile'[q][d]].pipe # 0
      <4>1. ofile' = ofile /\ ofile[q][d] \in FileIds \ {f} /\ ofile[q][d] # 0
          BY ZenonT(30), <1>1, <2>1, <3>1
      <4>2. file[ofile[q][d]].pipe # 0
          BY ZenonT(30), <4>1 DEF FileInv
      <4> QED
          BY ZenonT(30), <1>4, <4>1, <4>2
    <3> QED
        BY ZenonT(30), <2>2, <2>3, <3>1 DEF FileInv
<1>15. ASSUME NEW x \in Pipes, NEW v \in BOOLEAN PROVE EndInv(x, v)'
  <2>1. x # 0
      BY ZenonT(30), Numbers
  <2>2. /\ \A g \in FileIds : Stands(g, x, v)' <=> Stands(g, x, v)
        /\ \A q \in Procs : Closing(q, x, v)' <=> Closing(q, x, v)
        /\ Open(x, v)' <=> Open(x, v)
    <3>1. ~Stands(f, x, v) /\ ~Stands(f, x, v)'
      <4>1. file[f].pipe = 0 /\ file'[f].pipe = 0
          BY ZenonT(30), <1>2, <1>f, FileNumbers
      <4> QED
          BY ZenonT(30), <2>1, <4>1 DEF Stands
    <3>2. \A g \in FileIds \ {f} : Stands(g, x, v)' <=> Stands(g, x, v)
        BY ZenonT(30), <1>4 DEF Stands
    <3>3. \A q \in Procs : Closing(q, x, v)' <=> Closing(q, x, v)
        BY ZenonT(30), <1>1, <1>3 DEF Closing, OpSet
    <3> QED
        BY ZenonT(30), <1>1, <3>1, <3>2, <3>3 DEF Open
  <2> QED
    <3>1. EndInv(x, v)
        BY ZenonT(30) DEF EndsInv
    <3> QED
        BY ZenonT(30), <2>2, <3>1 DEF EndInv
<1>16. UserInv'
  <2>1. ASSUME NEW q \in Procs, NEW x, Keeps(q, x) PROVE Keeps(q, x)'
    <3>1. PICK d \in FDs : ofile[q][d] # 0 /\ file[ofile[q][d]].pipe = x
        BY ZenonT(30), <2>1 DEF Keeps
    <3>2. ofile[q][d] \in FileIds \ {f}
        BY SMTT(30), <1>8, <3>1 DEF TableType
    <3> QED
        BY ZenonT(30), <1>1, <1>4, <3>1, <3>2 DEF Keeps
  <2>2. UserOf(p)'
      BY ZenonT(30), <1>3 DEF UserOf, Doing, OpSet
  <2>3. ASSUME NEW q \in Procs \ {p} PROVE UserOf(q)'
    <3>1. UserOf(q) /\ Doing(q)' = Doing(q)
        BY ZenonT(30), <1>3 DEF UserInv, Doing, OpSet
    <3> QED
        BY ZenonT(30), <2>1, <3>1 DEF UserOf
  <2> QED
      BY ZenonT(30), <2>2, <2>3 DEF UserInv
<1> QED
    BY ZenonT(30), <1>1, <1>6, <1>7, <1>13, <1>14, <1>15, <1>16 DEF PipeType, EndsInv

\* pipealloc() succeeds: f0 and f1 stand for the two ends of a pipe that was free.
LEMMA PipeOpened ==
    ASSUME FilesInv, NEW p \in Procs \ {init}, NEW f0 \in FileIds, NEW f1 \in FileIds, NEW pi \in Pipes,
           proc[p].state = "RUNNABLE", op[p].pc = "pipealloc", op[p].f0 = f0, file[f1].ref = 0, IsFree(pi),
           pipe' = [pipe EXCEPT ![pi].readopen = TRUE, ![pi].writeopen = TRUE],
           file' = [file EXCEPT ![f0] = [ref |-> 1, pipe |-> pi, writable |-> FALSE],
                                ![f1] = [ref |-> 1, pipe |-> pi, writable |-> TRUE]],
           NEW o, OpSet(p, o), IsOp(p, o), o.pc \in {"user", "pipebad"},
           UNCHANGED <<proc, lock, stranded>>,
           ofile' \in [Procs -> [FDs -> FileIds \cup {0}]],
           \A q \in Procs \ {p} : ofile'[q] = ofile[q],
           \A d \in FDs : ofile'[p][d] = ofile[p][d] \/ ofile'[p][d] \in {f0, f1},
           Single(f0), Single(f1), \A g \in FileIds \ {f0, f1} : Same(g)
    PROVE  FilesInv'
<1> USE DEF FilesInv, Types
<1>1. /\ file[f0].pipe = 0 /\ file[f0].ref = 1 /\ f0 # f1 /\ file[f1] = NoFile
      /\ file[f1].pipe = 0 /\ f0 \in InFlight(p)
    BY SMTT(30) DEF FileInv, NoFile, InFlight
<1>2. /\ DOMAIN file' = FileIds /\ \A g \in FileIds \ {f0, f1} : file'[g] = file[g]
      /\ file'[f0] = [ref |-> 1, pipe |-> pi, writable |-> FALSE]
      /\ file'[f1] = [ref |-> 1, pipe |-> pi, writable |-> TRUE]
    BY ZenonT(30), <1>1 DEF TableType
<1>3. /\ DOMAIN pipe' = Pipes /\ \A x \in Pipes \ {pi} : pipe'[x] = pipe[x]
      /\ pipe'[pi] = [nread |-> pipe[pi].nread, nwrite |-> pipe[pi].nwrite, data |-> pipe[pi].data,
                      readopen |-> TRUE, writeopen |-> TRUE]
      /\ IsPipe(pipe[pi])
  <2>1. pipe[pi] = [nread |-> pipe[pi].nread, nwrite |-> pipe[pi].nwrite, data |-> pipe[pi].data,
                    readopen |-> pipe[pi].readopen, writeopen |-> pipe[pi].writeopen]
        /\ DOMAIN pipe = Pipes /\ IsPipe(pipe[pi])
      BY ZenonT(30) DEF PipeType, IsPipe
  <2>2. PICK r : r = [pipe[pi] EXCEPT !.readopen = TRUE]
      BY ZenonT(30)
  <2>3. r = [nread |-> pipe[pi].nread, nwrite |-> pipe[pi].nwrite, data |-> pipe[pi].data,
             readopen |-> TRUE, writeopen |-> pipe[pi].writeopen]
      BY ZenonT(30), <2>1, <2>2, PipeSet DEF PipeShape
  <2>4. /\ PipeShape(r) /\ r.nread = pipe[pi].nread /\ r.nwrite = pipe[pi].nwrite
        /\ r.data = pipe[pi].data /\ r.readopen = TRUE
      BY SMTT(30), <2>3, PipeFields
  <2>5. [r EXCEPT !.writeopen = TRUE] =
            [nread |-> r.nread, nwrite |-> r.nwrite, data |-> r.data,
             readopen |-> r.readopen, writeopen |-> TRUE]
      BY ZenonT(30), <2>4, PipeSet
  <2>6. pipe' = [pipe EXCEPT ![pi] = [r EXCEPT !.writeopen = TRUE]]
      BY ZenonT(30), <2>1, <2>2
  <2> QED
      BY ZenonT(30), <2>1, <2>4, <2>5, <2>6
<1>4. PipeType'
    BY ZenonT(30), <1>3 DEF PipeType, IsPipe
<1>5. \A x \in Pipes : /\ pipe'[x].nread = pipe[x].nread /\ pipe'[x].nwrite = pipe[x].nwrite
                       /\ pipe[x].readopen => pipe'[x].readopen
                       /\ pipe[x].writeopen => pipe'[x].writeopen
    BY SMTT(30), <1>3
<1>6. op[p].pc \in CallPcs /\ o.pc \in CallPcs
    BY ZenonT(30) DEF CallPcs, FilePcs
<1>7. ProcType' /\ OpType' /\ StateInv' /\ FamilyInv' /\ LockInv' /\ WakeInv'
    BY ZenonT(30), <1>5, <1>6, CallStep
<1>8. TableType'
  <2>1. file'[f0] \in FileRec /\ file'[f1] \in FileRec
      BY ZenonT(30), <1>2 DEF FileRec
  <2> QED
      BY ZenonT(30), <1>2, <2>1 DEF TableType
<1>9. RefsExact'
  <2>1. \A g \in FileIds : file'[g].ref = Refs(g)'
    <3>1. Refs(f0)' = 1 /\ file'[f0].ref = 1 /\ Refs(f1)' = 1 /\ file'[f1].ref = 1
        BY ZenonT(30), <1>2, OneReference
    <3>2. ASSUME NEW g \in FileIds \ {f0, f1} PROVE file'[g].ref = Refs(g)'
      <4>1. Same(g) /\ file'[g] = file[g]
          BY ZenonT(30), <1>2
      <4>2. file[g].ref = Refs(g) /\ Refs(g)' = Refs(g)
          BY ZenonT(30), <4>1, RefsMove
      <4> QED
          BY ZenonT(30), <4>1, <4>2
    <3> QED
        BY ZenonT(30), <3>1, <3>2
  <2> QED
      BY ZenonT(30), <2>1, RefsHold
<1>10. /\ \A q \in Procs, d \in FDs : ofile[q][d] \notin {f0, f1}
       /\ \A q \in Procs \ {p} : f0 \notin InFlight(q) /\ f1 \notin InFlight(q)
    BY ZenonT(90), <1>1, OneHolder, NoHolders DEF Unreferenced
<1>11. pi # 0
    BY ZenonT(30), Numbers
<1>12. FileInv'
  <2>1. \A g \in FileIds : file'[g].ref = 0 => file'[g] = NoFile
      BY SMTT(30), <1>2 DEF FileInv
  <2>2. ASSUME NEW q \in Procs, NEW d \in FDs, ofile'[q][d] # 0 PROVE file'[ofile'[q][d]].pipe # 0
    <3>1. CASE ofile'[q][d] \in {f0, f1}
        BY ZenonT(30), <1>2, <1>11, <3>1
    <3>2. CASE ofile'[q][d] \notin {f0, f1}
      <4>1. ofile'[q][d] = ofile[q][d] /\ ofile[q][d] \in FileIds \ {f0, f1}
          BY SMTT(30), <2>2, <3>2 DEF TableType
      <4> QED
        <5>1. file[ofile[q][d]].pipe # 0
            BY ZenonT(30), <2>2, <4>1 DEF FileInv
        <5> QED
            BY ZenonT(30), <1>2, <4>1, <5>1
    <3> QED
        BY ZenonT(30), <3>1, <3>2
  <2>3. ASSUME NEW q \in Procs, op'[q].pc = "pipealloc"
        PROVE  file'[op'[q].f0].pipe = 0 /\ file'[op'[q].f0].ref = 1
    <3>1. q # p /\ op'[q] = op[q] /\ op[q].f0 \in FileIds
        BY ZenonT(30), <2>3 DEF OpSet, OpType, IsOp
    <3>2. op[q].f0 \in InFlight(q)
        BY ZenonT(30), <2>3, <3>1 DEF InFlight
    <3> QED
      <4>1. op[q].f0 \in FileIds \ {f0, f1}
          BY ZenonT(30), <1>10, <3>1, <3>2
      <4>2. file[op[q].f0].pipe = 0 /\ file[op[q].f0].ref = 1
          BY ZenonT(30), <2>3, <3>1 DEF FileInv
      <4>3. file'[op[q].f0] = file[op[q].f0]
          BY ZenonT(30), <1>2, <4>1
      <4> QED
          BY ZenonT(30), <3>1, <4>2, <4>3
  <2> QED
      BY ZenonT(30), <2>1, <2>2, <2>3 DEF FileInv
<1>13. ASSUME NEW x \in Pipes, NEW v \in BOOLEAN PROVE EndInv(x, v)'
  <2>1. \A q \in Procs : Closing(q, x, v)' <=> Closing(q, x, v)
      BY ZenonT(30) DEF Closing, OpSet
  <2>2. \A g \in FileIds \ {f0, f1} : Stands(g, x, v)' <=> Stands(g, x, v)
      BY ZenonT(30), <1>2 DEF Stands
  <2>3. ~Stands(f0, x, v) /\ ~Stands(f1, x, v) /\ EndInv(x, v)
      BY SMTT(30), <1>1 DEF Stands, Pipes, EndsInv
  <2>4. /\ Stands(f0, x, v)' <=> x = pi /\ ~v
        /\ Stands(f1, x, v)' <=> x = pi /\ v
      BY ZenonT(30), <1>2 DEF Stands
  <2>5. CASE x = pi
    <3>1. ~Open(x, v) /\ Open(x, v)'
        BY ZenonT(90), <1>3, <2>5 DEF Open, IsFree
    <3>2. /\ \A g \in FileIds : ~Stands(g, x, v)
          /\ \A q \in Procs : ~Closing(q, x, v)
        BY ZenonT(30), <2>3, <3>1 DEF EndInv
    <3>3. PICK h \in {f0, f1} : \A g \in FileIds : Stands(g, x, v)' <=> g = h
      <4>1. CASE v
          BY ZenonT(30), <1>1, <2>2, <2>4, <2>5, <3>2, <4>1
      <4>2. CASE ~v
          BY ZenonT(30), <1>1, <2>2, <2>4, <2>5, <3>2, <4>2
      <4> QED
          BY ZenonT(30), <4>1, <4>2
    <3> QED
        BY ZenonT(30), <2>1, <3>1, <3>2, <3>3 DEF EndInv
  <2>6. CASE x # pi
    <3>1. Open(x, v)' <=> Open(x, v)
        BY ZenonT(30), <1>3, <2>6 DEF Open
    <3>2. \A g \in FileIds : Stands(g, x, v)' <=> Stands(g, x, v)
        BY ZenonT(30), <2>2, <2>3, <2>4, <2>6
    <3> QED
        BY ZenonT(30), <2>1, <2>3, <3>1, <3>2 DEF EndInv
  <2> QED
      BY ZenonT(30), <2>5, <2>6
<1>14. UserInv'
  <2>1. UserOf(p)'
      BY ZenonT(30) DEF UserOf, Doing, OpSet
  <2>2. ASSUME NEW q \in Procs \ {p} PROVE UserOf(q)'
    <3>1. UserOf(q) /\ Doing(q)' = Doing(q) /\ ofile'[q] = ofile[q]
        BY ZenonT(30) DEF UserInv, Doing, OpSet
    <3>2. ASSUME NEW x, Keeps(q, x) PROVE Keeps(q, x)'
      <4>1. PICK d \in FDs : ofile[q][d] # 0 /\ file[ofile[q][d]].pipe = x
          BY ZenonT(30), <3>2 DEF Keeps
      <4>2. ofile[q][d] \in FileIds \ {f0, f1}
        <5>1. ofile[q][d] \in FileIds \cup {0}
            BY ZenonT(30) DEF TableType
        <5> QED
            BY ZenonT(30), <1>10, <4>1, <5>1
      <4> QED
          BY ZenonT(90), <1>2, <3>1, <4>1, <4>2 DEF Keeps
    <3> QED
        BY ZenonT(30), <3>1, <3>2 DEF UserOf
  <2> QED
      BY ZenonT(30), <2>1, <2>2 DEF UserInv
<1> QED
    BY ZenonT(30), <1>4, <1>7, <1>8, <1>9, <1>12, <1>13, <1>14 DEF EndsInv

\* Two free descriptors, when there are two.
LEMMA TwoFree ==
    ASSUME NEW p \in Procs, Cardinality(FreeFds(p)) >= 2
    PROVE  \E d0, d1 \in FDs :
               /\ d0 = First(FreeFds(p)) /\ d1 = First(FreeFds(p) \ {First(FreeFds(p))}) /\ d0 # d1
               /\ ofile[p][d0] = 0 /\ ofile[p][d1] = 0
<1> DEFINE S == FreeFds(p)
           d0 == First(S)
           R == S \ {d0}
           d1 == First(R)
<1>1. S \in SUBSET Nat /\ R \in SUBSET Nat
    BY SMTT(30) DEF FreeFds, FDs
<1>2. S # {} /\ \A x : S # {x}
  <2>1. Cardinality({}) = 0 /\ \A x : Cardinality({x}) = 1
      BY FS_EmptySet, FS_Singleton, ZenonT(30)
  <2>2. Cardinality(S) # 0 /\ Cardinality(S) # 1
      BY SMTT(30)
  <2> HIDE DEF S
  <2> QED
      BY ZenonT(30), <2>1, <2>2
<1>3. d0 \in S
    BY ZenonT(30), <1>1, <1>2, LeastExists
<1>4. R # {}
    BY ZenonT(30), <1>2, <1>3
<1>5. d1 \in R
    BY ZenonT(30), <1>1, <1>4, LeastExists
<1>6. d0 \in S /\ d1 \in S /\ d0 # d1
    BY ZenonT(30), <1>3, <1>5
<1>7. \A x \in S : x \in FDs /\ ofile[p][x] = 0
    BY ZenonT(30) DEF FreeFds
<1> HIDE DEF S
<1> QED
    BY ZenonT(30), <1>6, <1>7 DEF S

LEMMA PipeAllocInv == ASSUME FilesInv, NEW p \in Procs, PipeAlloc(p) PROVE FilesInv'
<1> USE DEF FilesInv, Types
<1>0. PICK f1 : f1 = First(FreeFiles)
    BY ZenonT(30)
<1>1. /\ proc[p].state = "RUNNABLE" /\ op[p].pc = "pipealloc" /\ p # init /\ op[p].f0 \in FileIds
      /\ UNCHANGED <<proc, lock, stranded>>
    BY ZenonT(30) DEF PipeAlloc, At, StateInv, InitInv, OpType, IsOp
<1>2. PICK f0 \in FileIds : f0 = op[p].f0
    BY ZenonT(30), <1>1
<1>3. Hand(op[p]) = {f0} /\ Hand(User) = {}
    BY ZenonT(30), <1>1, <1>2 DEF Hand, User
<1>4. CASE fileclose(p, f0, User) /\ UNCHANGED <<pipe, ofile>>
  <2>1. f0 \in Hand(op[p]) /\ Hand(User) = Hand(op[p]) \ {f0}
      BY ZenonT(30), <1>3
  <2> QED
      BY ZenonT(30), <1>1, <1>4, <2>1, CloseInHand
<1>5. ASSUME FreeFiles # {}, NEW pi \in Pipes, IsFree(pi),
             pipe' = [pipe EXCEPT ![pi].readopen = TRUE, ![pi].writeopen = TRUE],
             file' = [file EXCEPT ![f0] = [ref |-> 1, pipe |-> pi, writable |-> FALSE],
                                  ![f1] = [ref |-> 1, pipe |-> pi, writable |-> TRUE]],
             \/ /\ Cardinality(FreeFds(p)) >= 2
                /\ ofile' = [ofile EXCEPT ![p][First(FreeFds(p))] = f0,
                                          ![p][First(FreeFds(p) \ {First(FreeFds(p))})] = f1]
                /\ Then(p, User)
             \/ Then(p, [pc |-> "pipebad", f0 |-> f0, f1 |-> f1]) /\ UNCHANGED ofile
      PROVE  FilesInv'
  <2>1. f1 \in FileIds /\ file[f1].ref = 0 /\ file[f0].ref = 1 /\ f0 \in InFlight(p) /\ f0 # f1
    <3>1. f1 \in FileIds /\ file[f1].ref = 0
        BY ZenonT(30), <1>0, <1>5, FreeFile
    <3>2. file[f0].ref = 1
        BY ZenonT(30), <1>1, <1>2 DEF FileInv
    <3>3. f0 \in InFlight(p)
        BY ZenonT(30), <1>1, <1>2 DEF InFlight
    <3> QED
        BY ZenonT(30), <3>1, <3>2, <3>3, Sums
  <2>2. /\ \A q \in Procs, d \in FDs : ofile[q][d] \notin {f0, f1}
        /\ \A q \in Procs \ {p} : f0 \notin InFlight(q) /\ f1 \notin InFlight(q)
      BY ZenonT(30), <2>1, OneHolder, NoHolders DEF Unreferenced
  <2>3. Holders(f0) = {} /\ Holders(f1) = {}
      BY ZenonT(30), <2>2 DEF Holders
  <2>4. CASE /\ Cardinality(FreeFds(p)) >= 2
             /\ ofile' = [ofile EXCEPT ![p][First(FreeFds(p))] = f0,
                                       ![p][First(FreeFds(p) \ {First(FreeFds(p))})] = f1]
             /\ Then(p, User)
    <3>1. PICK d0, d1 \in FDs :
               /\ d0 = First(FreeFds(p)) /\ d1 = First(FreeFds(p) \ {First(FreeFds(p))}) /\ d0 # d1
               /\ ofile[p][d0] = 0 /\ ofile[p][d1] = 0
        BY ZenonT(30), <2>4, TwoFree
    <3>2. ofile' = [ofile EXCEPT ![p][d0] = f0, ![p][d1] = f1]
        BY ZenonT(30), <2>4, <3>1
    <3>3. /\ ofile' \in [Procs -> [FDs -> FileIds \cup {0}]]
          /\ \A q \in Procs \ {p} : ofile'[q] = ofile[q]
          /\ ofile'[p][d0] = f0 /\ ofile'[p][d1] = f1
          /\ \A d \in FDs \ {d0, d1} : ofile'[p][d] = ofile[p][d]
        BY ZenonT(30), <2>1, <3>1, <3>2 DEF TableType
    <3>4. OpSet(p, User) /\ User.pc = "user" /\ IsOp(p, User)
        BY ZenonT(30), <2>4, OpMoves DEF Then, User, IsOp, Pcs
    <3>5. InFlight(p)' = {} /\ InFlight(p) = {f0} /\ \A q \in Procs \ {p} : InFlight(q)' = InFlight(q)
        BY ZenonT(30), <1>1, <1>3, <3>4, HandMoves
    <3>6. /\ Flying(f0)' = {} /\ Flying(f1)' = {}
          /\ \A g \in FileIds \ {f0, f1} : Flying(g)' = Flying(g)
        BY ZenonT(30), <2>1, <2>2, <3>5 DEF Flying
    <3>7. \A q \in Procs, d \in FDs : ofile'[q][d] =
              IF q = p /\ d = d0 THEN f0 ELSE IF q = p /\ d = d1 THEN f1 ELSE ofile[q][d]
        BY ZenonT(30), <3>1, <3>3
    <3>8. ASSUME NEW g \in FileIds, NEW q \in Procs, NEW d \in FDs
          PROVE  /\ <<q, d>> \in Holders(g)' <=> ofile'[q][d] = g
                 /\ <<q, d>> \in Holders(g) <=> ofile[q][d] = g
        BY ZenonT(30) DEF Holders
    <3>9. ASSUME NEW g \in FileIds, NEW q \in Procs, NEW d \in FDs
          PROVE  <<q, d>> \in Holders(g)' <=>
                     IF q = p /\ d = d0 THEN g = f0 ELSE IF q = p /\ d = d1 THEN g = f1
                     ELSE <<q, d>> \in Holders(g)
        BY SMTT(30), <3>7, <3>8
    <3>10. \A g \in FileIds : Holders(g) \subseteq Procs \X FDs /\ Holders(g)' \subseteq Procs \X FDs
        BY ZenonT(30) DEF Holders
    <3>11. Holders(f0)' = {<<p, d0>>}
      <4>1. \A q \in Procs, d \in FDs : <<q, d>> \in Holders(f0)' <=> q = p /\ d = d0
          BY ZenonT(30), <2>1, <2>3, <3>9
      <4> QED
        <5>1. PICK S : S = Holders(f0)'
            BY ZenonT(30)
        <5>2. JustPair(S, p, d0)
            BY ZenonT(30), <2>1, <3>10, <4>1, <5>1 DEF JustPair
        <5>3. S = {<<p, d0>>}
            BY ZenonT(30), <5>2, OnePair
        <5> QED
            BY ZenonT(30), <5>1, <5>3
    <3>12. Holders(f1)' = {<<p, d1>>}
      <4>1. \A q \in Procs, d \in FDs : <<q, d>> \in Holders(f1)' <=> q = p /\ d = d1
          BY ZenonT(30), <2>1, <2>3, <3>1, <3>9
      <4> QED
        <5>1. PICK S : S = Holders(f1)'
            BY ZenonT(30)
        <5>2. JustPair(S, p, d1)
            BY ZenonT(30), <2>1, <3>10, <4>1, <5>1 DEF JustPair
        <5>3. S = {<<p, d1>>}
            BY ZenonT(30), <5>2, OnePair
        <5> QED
            BY ZenonT(30), <5>1, <5>3
    <3>13. ASSUME NEW g \in FileIds \ {f0, f1} PROVE Holders(g)' = Holders(g)
      <4>1. g # 0
          BY SMTT(30) DEF FileIds
      <4>2. <<p, d0>> \notin Holders(g) /\ <<p, d1>> \notin Holders(g)
          BY ZenonT(30), <3>1, <3>8, <4>1
      <4>3. \A q \in Procs, d \in FDs : <<q, d>> \in Holders(g)' <=> <<q, d>> \in Holders(g)
          BY ZenonT(30), <3>9, <4>2
      <4> QED
          BY SMTT(30), <3>10, <4>3
    <3>14. Single(f0) /\ Single(f1) /\ \A g \in FileIds \ {f0, f1} : Same(g)
        BY ZenonT(30), <3>6, <3>11, <3>12, <3>13 DEF Single, Same
    <3>15. \A d \in FDs : ofile'[p][d] = ofile[p][d] \/ ofile'[p][d] \in {f0, f1}
        BY ZenonT(30), <3>3
    <3> QED
        BY ZenonT(30), <1>1, <1>2, <1>5, <2>1, <3>3, <3>4, <3>14, <3>15, PipeOpened
  <2>5. CASE Then(p, [pc |-> "pipebad", f0 |-> f0, f1 |-> f1]) /\ UNCHANGED ofile
    <3>0. PICK o : o = [pc |-> "pipebad", f0 |-> f0, f1 |-> f1]
        BY ZenonT(30)
    <3>1. OpSet(p, o) /\ o.pc = "pipebad" /\ o.f0 = f0 /\ o.f1 = f1
        BY ZenonT(30), <2>5, <3>0, OpMoves DEF Then
    <3>2. IsOp(p, o)
        BY ZenonT(30), <2>1, <3>1 DEF IsOp, Pcs
    <3>3. /\ InFlight(p)' = {f0, f1} /\ InFlight(p) = {f0}
          /\ \A q \in Procs \ {p} : InFlight(q)' = InFlight(q)
      <4>1. Hand(o) = {f0, f1}
          BY ZenonT(30), <3>1 DEF Hand
      <4> QED
          BY ZenonT(30), <1>1, <1>3, <3>1, <4>1, HandMoves
    <3>4. /\ Flying(f0)' = {p} /\ Flying(f1)' = {p}
          /\ \A g \in FileIds \ {f0, f1} : Flying(g)' = Flying(g)
        BY ZenonT(90), <2>1, <2>2, <3>3 DEF Flying
    <3>5. \A g \in FileIds : Holders(g)' = Holders(g)
        BY ZenonT(30), <2>5 DEF Holders
    <3>6. Single(f0) /\ Single(f1) /\ \A g \in FileIds \ {f0, f1} : Same(g)
        BY ZenonT(30), <2>1, <2>3, <3>4, <3>5 DEF Single, Same
    <3>7. ofile' \in [Procs -> [FDs -> FileIds \cup {0}]]
        BY ZenonT(30), <2>5 DEF TableType
    <3> QED
        BY ZenonT(30), <1>1, <1>2, <1>5, <2>1, <2>5, <3>1, <3>2, <3>6, <3>7, PipeOpened
  <2> QED
      BY ZenonT(30), <1>5, <2>4, <2>5
<1> QED
    BY ZenonT(30), <1>0, <1>2, <1>4, <1>5 DEF PipeAlloc

-----------------------------------------------------------------------------
\* The descriptors of p that name f, and the same for a child that has the same ones.
FdsOf(p, f) == {fd \in FDs : ofile[p][fd] = f}

LEMMA FdsCount ==
    ASSUME NEW p \in Procs, NEW f
    PROVE  /\ Cardinality(FdsOf(p, f)) \in Nat
           /\ (\A fd \in FDs : ofile[p][fd] # f) => Cardinality(FdsOf(p, f)) = 0
           /\ \A c : IsFiniteSet({c} \X FdsOf(p, f))
                     /\ Cardinality({c} \X FdsOf(p, f)) = Cardinality(FdsOf(p, f))
<1> DEFINE S == FdsOf(p, f)
<1>1. IsFiniteSet(FDs)
    BY SMTT(30), FilesAssumption, FS_Interval DEF FDs
<1>2. IsFiniteSet(S)
    BY ZenonT(30), <1>1, FS_Subset DEF FdsOf
<1>3. Cardinality(S) \in Nat
    BY ZenonT(30), <1>2, FS_CardinalityType
<1>4. (\A fd \in FDs : ofile[p][fd] # f) => S = {}
    BY ZenonT(30) DEF FdsOf
<1> HIDE DEF S
<1>5. S = {} => Cardinality(S) = 0
    BY FS_EmptySet, ZenonT(30)
<1>6. ASSUME NEW c
      PROVE  IsFiniteSet({c} \X S) /\ Cardinality({c} \X S) = Cardinality(S)
  <2>1. IsFiniteSet({c}) /\ Cardinality({c}) = 1
      BY FS_Singleton, ZenonT(30)
  <2>2. IsFiniteSet({c} \X S) /\ Cardinality({c} \X S) = Cardinality({c}) * Cardinality(S)
      BY <1>2, <2>1, FS_Product, ZenonT(30)
  <2>3. Cardinality({c}) * Cardinality(S) = Cardinality(S)
      BY ZenonT(30), <1>3, <2>1, Sums
  <2> QED
      BY ZenonT(30), <2>2, <2>3
<1> QED
    BY ZenonT(30), <1>3, <1>4, <1>5, <1>6 DEF S

\* fork() copies the descriptors and takes a reference for each of them.
LEMMA ForkCopies ==
    ASSUME FilesInv, NEW p \in Procs \ {init}, NEW c \in Procs, proc[p].state = "RUNNABLE",
           op[p].pc = "user", proc[c].state = "UNUSED", NEW o, o.pc = "fork", o.child = c, OpSet(p, o),
           proc' = [proc EXCEPT ![c].state = "USED"], ofile' = [ofile EXCEPT ![c] = ofile[p]],
           file' = [f \in FileIds |->
                      [file[f] EXCEPT !.ref = file[f].ref + Cardinality(FdsOf(p, f))]],
           UNCHANGED <<lock, pipe, stranded>>
    PROVE  FilesInv'
<1> USE DEF FilesInv, Types
<1>1. /\ c # p /\ proc[c].parent = 0 /\ op[c].pc = "user" /\ IsProc(proc[c])
      /\ \A fd \in FDs : ofile[c][fd] = 0
    BY ZenonT(30) DEF StateInv, SlotInv, ProcType
<1>2. /\ DOMAIN proc' = Procs /\ \A q \in Procs \ {c} : proc'[q] = proc[q]
      /\ proc'[c] = [state |-> "USED", chan |-> proc[c].chan, killed |-> proc[c].killed, parent |-> 0]
  <2>1. proc[c] = [state |-> proc[c].state, chan |-> proc[c].chan, killed |-> proc[c].killed,
                   parent |-> proc[c].parent]
      BY ZenonT(30), <1>1 DEF IsProc
  <2>2. [proc[c] EXCEPT !.state = "USED"] =
            [state |-> "USED", chan |-> proc[c].chan, killed |-> proc[c].killed, parent |-> 0]
      BY SMTT(30), <1>1, <2>1
  <2> QED
      BY ZenonT(30), <2>2 DEF ProcType
<1>3. /\ ofile' \in [Procs -> [FDs -> FileIds \cup {0}]] /\ ofile'[c] = ofile[p]
      /\ \A q \in Procs \ {c} : ofile'[q] = ofile[q]
    BY ZenonT(30) DEF TableType
<1>4. ProcType' /\ OpType'
  <2>1. IsProc(proc'[c])
      BY ZenonT(30), <1>1, <1>2 DEF IsProc, States
  <2>2. IsOp(p, o)
      BY ZenonT(30) DEF IsOp, Pcs
  <2> QED
      BY ZenonT(30), <1>2, <2>1, <2>2, OpKept DEF ProcType
<1>5. LockInv'
    BY ZenonT(30), LockSame DEF Holding, OpSet
<1>6. StateInv'
  <2>1. \A q \in Procs : op[q].pc = "fork" => op[q].child \in Procs /\ op[q].child # c
      BY ZenonT(30) DEF StateInv, SlotInv, OpType, IsOp
  <2>2. ASSUME NEW q \in Procs PROVE SlotInv(q)'
    <3>1. SlotInv(q)
        BY ZenonT(30) DEF StateInv
    <3>2. CASE q = p
      <4>1. op'[q] = o /\ proc'[q] = proc[q] /\ o.pc # "asleep" /\ proc'[c].state = "USED"
          BY SMTT(30), <1>1, <1>2, <3>2, ProcFields DEF OpSet
      <4> QED
          BY ZenonT(30), <3>2, <4>1 DEF SlotInv
    <3>3. CASE q = c
      <4>1. op'[c].pc = "user" /\ proc'[c].state = "USED" /\ proc'[c].parent = 0
          BY SMTT(30), <1>1, <1>2, ProcFields DEF OpSet
      <4> QED
          BY ZenonT(30), <3>3, <4>1 DEF SlotInv
    <3>4. CASE q # p /\ q # c
      <4>1. op'[q] = op[q] /\ proc'[q] = proc[q] /\ ofile'[q] = ofile[q]
          BY ZenonT(30), <1>2, <1>3, <3>4 DEF OpSet
      <4>2. op[q].pc = "fork" => proc'[op[q].child] = proc[op[q].child]
          BY ZenonT(30), <1>2, <2>1
      <4> QED
          BY ZenonT(30), <3>1, <4>1, <4>2 DEF SlotInv
    <3> QED
        BY ZenonT(30), <3>2, <3>3, <3>4
  <2>3. InitInv'
    <3>1. init # c /\ init # p /\ init \in Procs
        BY SMTT(30), ProcAssumption DEF StateInv, InitInv, Procs, init
    <3> QED
        BY ZenonT(30), <1>2, <3>1 DEF StateInv, InitInv, OpSet
  <2>4. ASSUME NEW q \in Procs, NEW r \in Procs, op'[q].pc = "fork", op'[r].pc = "fork",
               op'[q].child = op'[r].child
        PROVE  q = r
    <3>1. CASE q = p \/ r = p
        BY ZenonT(30), <2>1, <2>4, <3>1 DEF OpSet
    <3>2. CASE q # p /\ r # p
        BY ZenonT(30), <2>4, <3>2 DEF OpSet, StateInv
    <3> QED
        BY ZenonT(30), <3>1, <3>2
  <2> QED
      BY ZenonT(30), <2>2, <2>3, <2>4 DEF StateInv
<1>7. \A q \in Procs : \A ch : SleepsOn(q, ch)' => SleepsOn(q, ch)
  <2>1. proc'[c].state # "SLEEPING" /\ op'[p].pc # "tosleep"
      BY SMTT(30), <1>2, ProcFields DEF OpSet
  <2>2. \A q \in Procs : q # p => op'[q] = op[q]
      BY ZenonT(30) DEF OpSet
  <2> QED
      BY ZenonT(30), <1>2, <2>1, <2>2 DEF SleepsOn
<1>8. FamilyInv'
  <2>1. \A q \in Procs : /\ proc'[q].parent = proc[q].parent
                         /\ q # c => proc'[q].state = proc[q].state
                         /\ proc'[c].state = "USED"
    <3>1. proc'[c].parent = 0 /\ proc'[c].state = "USED"
        BY SMTT(30), <1>2, ProcFields
    <3> QED
        BY ZenonT(30), <1>1, <1>2, <3>1
  <2>2. \A q \in Procs : Children(q)' = Children(q) /\ Zombies(q)' = Zombies(q)
      BY ZenonT(30), <2>1 DEF Children, Zombies
  <2>3. ASSUME NEW q \in Procs \ {init}, proc'[q].state \notin {"UNUSED", "USED"}
        PROVE  proc'[q].parent # 0 /\ proc'[proc'[q].parent].state \in {"RUNNABLE", "SLEEPING"}
    <3>1. proc[q].parent # 0 /\ proc[proc[q].parent].state \in {"RUNNABLE", "SLEEPING"}
          /\ proc[q].parent \in Procs
        BY ZenonT(30), <2>1, <2>3 DEF FamilyInv, ProcType, IsProc
    <3> QED
        BY ZenonT(30), <2>1, <3>1
  <2> QED
      BY ZenonT(30), <1>7, <2>2, <2>3 DEF FamilyInv
<1>9. WakeInv'
    BY ZenonT(30), <1>7, WakeSame DEF SamePipes
<1>10. ASSUME NEW f \in FileIds
       PROVE  /\ file'[f] = [ref |-> file[f].ref + Cardinality(FdsOf(p, f)), pipe |-> file[f].pipe,
                             writable |-> file[f].writable]
              /\ file[f].ref \in Nat /\ file[f].pipe \in Pipes \cup {0} /\ file[f].writable \in BOOLEAN
              /\ file[f] = [ref |-> file[f].ref, pipe |-> file[f].pipe, writable |-> file[f].writable]
    BY ZenonT(30) DEF TableType, FileRec
<1>11. TableType'
  <2>1. ASSUME NEW f \in FileIds PROVE file'[f] \in FileRec
    <3>1. file[f].ref \in Nat /\ file[f].pipe \in Pipes \cup {0} /\ file[f].writable \in BOOLEAN
        BY ZenonT(30), <1>10
    <3>2. Cardinality(FdsOf(p, f)) \in Nat
        BY ZenonT(30), FdsCount
    <3>3. PICK n : n = file[f].ref + Cardinality(FdsOf(p, f))
        BY ZenonT(30)
    <3>4. n \in Nat
        BY ZenonT(30), <3>1, <3>2, <3>3, Sums
    <3>5. file'[f] = [ref |-> n, pipe |-> file[f].pipe, writable |-> file[f].writable]
        BY ZenonT(30), <1>10, <3>3
    <3> QED
        BY ZenonT(30), <3>1, <3>4, <3>5 DEF FileRec
  <2> QED
      BY ZenonT(30), <1>3, <2>1 DEF TableType
<1>12. \A q \in Procs : InFlight(q)' = InFlight(q)
    BY ZenonT(30), HandMoves DEF Hand
<1>13. ASSUME NEW f \in FileIds PROVE file'[f].ref = Refs(f)'
  <2> DEFINE N == {c} \X FdsOf(p, f)
  <2>1. Flying(f)' = Flying(f)
      BY ZenonT(30), <1>12 DEF Flying
  <2>2. ASSUME NEW q \in Procs, NEW d \in FDs
        PROVE  <<q, d>> \in Holders(f)' <=> <<q, d>> \in Holders(f) \cup N
    <3>0. f # 0
        BY SMTT(30) DEF FileIds
    <3>1. <<q, d>> \in Holders(f)' <=> ofile'[q][d] = f
        BY ZenonT(30) DEF Holders
    <3>2. <<q, d>> \in Holders(f) <=> ofile[q][d] = f
        BY ZenonT(30) DEF Holders
    <3>3. <<q, d>> \in N <=> q = c /\ ofile[p][d] = f
        BY ZenonT(30) DEF FdsOf
    <3>4. CASE q = c
        BY ZenonT(30), <1>1, <1>3, <3>0, <3>1, <3>2, <3>3, <3>4
    <3>5. CASE q # c
        BY ZenonT(30), <1>3, <3>1, <3>2, <3>3, <3>5
    <3> QED
        BY ZenonT(30), <3>4, <3>5
  <2>3. Holders(f) \subseteq Procs \X FDs /\ Holders(f)' \subseteq Procs \X FDs /\ N \subseteq Procs \X FDs
      BY ZenonT(30) DEF Holders, FdsOf
  <2>4. \A x \in Holders(f) : x \notin N
    <3>1. f # 0
        BY SMTT(30) DEF FileIds
    <3> QED
        BY ZenonT(30), <1>1, <3>1 DEF Holders
  <2>5. IsFiniteSet(N) /\ Cardinality(N) = Cardinality(FdsOf(p, f)) /\ Cardinality(FdsOf(p, f)) \in Nat
      BY ZenonT(30), FdsCount
  <2> HIDE DEF N
  <2>6. Holders(f)' = Holders(f) \cup N
      BY SMTT(30), <2>2, <2>3
  <2>7. Holders(f) \cap N = {}
      BY ZenonT(30), <2>4
  <2>8. /\ file[f].ref = Cardinality(Holders(f)) + Cardinality(Flying(f))
        /\ IsFiniteSet(Holders(f)) /\ Cardinality(Holders(f)) \in Nat /\ Cardinality(Flying(f)) \in Nat
      BY ZenonT(30), Counted
  <2>9. Cardinality(Holders(f) \cup N) = Cardinality(Holders(f)) + Cardinality(N)
    <3>1. Cardinality(Holders(f) \cup N) =
              Cardinality(Holders(f)) + Cardinality(N) - Cardinality(Holders(f) \cap N)
        BY <2>5, <2>8, FS_Union, ZenonT(30)
    <3>2. Cardinality(Holders(f) \cap N) = 0
        BY <2>7, FS_EmptySet, ZenonT(30)
    <3> QED
        BY ZenonT(30), <2>5, <2>8, <3>1, <3>2, SumLess
  <2>10. Cardinality(Holders(f)') = Cardinality(Holders(f)) + Cardinality(N)
      BY ZenonT(30), <2>6, <2>9
  <2>11. Cardinality(Flying(f)') = Cardinality(Flying(f))
      BY ZenonT(30), <2>1
  <2>12. Refs(f)' = Cardinality(Holders(f)') + Cardinality(Flying(f)')
      BY ZenonT(30) DEF Refs
  <2>13. file'[f].ref = file[f].ref + Cardinality(FdsOf(p, f))
      BY ZenonT(30), <1>10
  <2> QED
      BY SMTT(30), <2>5, <2>8, <2>10, <2>11, <2>12, <2>13
<1>14. RefsExact'
    BY ZenonT(30), <1>13, RefsHold
<1>15. \A f \in FileIds : file'[f].pipe = file[f].pipe /\ file'[f].writable = file[f].writable
    BY ZenonT(30), <1>10
<1>16. FileInv'
  <2>1. ASSUME NEW f \in FileIds, file'[f].ref = 0 PROVE file'[f] = NoFile
    <3>1. file'[f].ref = file[f].ref + Cardinality(FdsOf(p, f)) /\ Cardinality(FdsOf(p, f)) \in Nat
          /\ file[f].ref \in Nat
        BY ZenonT(30), <1>10, FdsCount
    <3>2. file[f].ref = 0 /\ Cardinality(FdsOf(p, f)) = 0
        BY SMTT(30), <2>1, <3>1
    <3>3. file[f] = NoFile
        BY ZenonT(30), <3>2 DEF FileInv
    <3> QED
      <4>1. file[f].ref + Cardinality(FdsOf(p, f)) = file[f].ref
          BY ZenonT(30), <3>1, <3>2, Sums
      <4> QED
          BY ZenonT(30), <1>10, <3>3, <4>1
  <2>2. ASSUME NEW q \in Procs, NEW d \in FDs, ofile'[q][d] # 0 PROVE file'[ofile'[q][d]].pipe # 0
    <3>1. \E r \in Procs : ofile'[q][d] = ofile[r][d]
        BY ZenonT(30), <1>3
    <3>2. ofile'[q][d] \in FileIds
      <4>1. ofile'[q][d] \in FileIds \cup {0}
          BY ZenonT(30), <1>3
      <4> QED
          BY ZenonT(30), <2>2, <4>1
    <3> QED
        BY ZenonT(90), <1>15, <2>2, <3>1, <3>2 DEF FileInv
  <2>3. ASSUME NEW q \in Procs, op'[q].pc = "pipealloc"
        PROVE  file'[op'[q].f0].pipe = 0 /\ file'[op'[q].f0].ref = 1
    <3>1. PICK g \in FileIds : g = op'[q].f0 /\ file[g].pipe = 0 /\ file[g].ref = 1
      <4>1. op'[q] = op[q]
          BY ZenonT(30), <2>3 DEF OpSet
      <4> QED
          BY ZenonT(90), <2>3, <4>1 DEF OpType, IsOp, FileInv
    <3>2. \A fd \in FDs : ofile[p][fd] # g
      <4>1. g # 0
          BY SMTT(30) DEF FileIds
      <4> QED
          BY ZenonT(30), <3>1, <4>1 DEF FileInv
    <3>3. Cardinality(FdsOf(p, g)) = 0
        BY ZenonT(30), <3>2, FdsCount
    <3> QED
      <4>1. file[g].ref + Cardinality(FdsOf(p, g)) = 1
        <5>1. file[g].ref \in Nat
            BY ZenonT(30), <1>10
        <5> QED
            BY ZenonT(30), <3>1, <3>3, <5>1, Sums
      <4>2. file'[g].ref = 1 /\ file'[g].pipe = file[g].pipe
          BY ZenonT(30), <1>10, <4>1
      <4> QED
          BY ZenonT(30), <3>1, <4>2
  <2> QED
      BY ZenonT(30), <2>1, <2>2, <2>3 DEF FileInv
<1>17. ASSUME NEW x \in Pipes, NEW v \in BOOLEAN PROVE EndInv(x, v)'
  <2>1. /\ \A g \in FileIds : Stands(g, x, v)' <=> Stands(g, x, v)
        /\ \A q \in Procs : Closing(q, x, v)' <=> Closing(q, x, v)
        /\ Open(x, v)' <=> Open(x, v)
      BY ZenonT(30), <1>15 DEF Stands, Closing, Open, OpSet
  <2> QED
      BY ZenonT(30), <2>1 DEF EndsInv, EndInv
<1>18. ASSUME NEW q \in Procs PROVE UserOf(q)'
  <2>1. CASE q = p \/ q = c
      BY ZenonT(30), <1>1, <2>1 DEF UserOf, Doing, OpSet
  <2>2. CASE q # p /\ q # c
    <3>1. UserOf(q) /\ Doing(q)' = Doing(q) /\ ofile'[q] = ofile[q]
        BY ZenonT(30), <1>3, <2>2 DEF UserInv, Doing, OpSet
    <3>2. ASSUME NEW x, Keeps(q, x) PROVE Keeps(q, x)'
      <4>1. PICK d \in FDs : ofile[q][d] # 0 /\ file[ofile[q][d]].pipe = x
          BY ZenonT(30), <3>2 DEF Keeps
      <4>2. ofile[q][d] \in FileIds
          BY SMTT(30), <4>1 DEF TableType
      <4> QED
          BY ZenonT(30), <1>15, <3>1, <4>1, <4>2 DEF Keeps
    <3> QED
        BY ZenonT(30), <3>1, <3>2 DEF UserOf
  <2> QED
      BY ZenonT(30), <2>1, <2>2
<1> QED
    BY ZenonT(30), <1>4, <1>5, <1>6, <1>8, <1>9, <1>11, <1>14, <1>16, <1>17, <1>18 DEF PipeType, EndsInv, UserInv

LEMMA ForkAllocInv == ASSUME FilesInv, NEW p \in Procs \ {init}, ForkAlloc(p) PROVE FilesInv'
<1> DEFINE c == First(Unused)
           o == [pc |-> "fork", child |-> c]
<1>1. Calls(p) /\ Unused # {} /\ UNCHANGED <<lock, pipe, stranded>>
    BY ZenonT(30) DEF ForkAlloc
<1>2. CASE proc' = [proc EXCEPT ![c] = FreeSlot] /\ UNCHANGED <<op, ofile, file>>
    BY ZenonT(30), <1>1, <1>2, ForkFails DEF fvars
<1>3. CASE /\ proc' = [proc EXCEPT ![c].state = "USED"] /\ ofile' = [ofile EXCEPT ![c] = ofile[p]]
           /\ file' = [f \in FileIds |->
                         [file[f] EXCEPT !.ref = file[f].ref + Cardinality(FdsOf(p, f))]]
           /\ Then(p, o)
  <2>1. c \in Procs /\ proc[c].state = "UNUSED"
    <3>1. Unused \in SUBSET Nat
        BY SMTT(30) DEF Unused, Procs
    <3>2. c \in Unused
        BY ZenonT(30), <1>1, <3>1, LeastExists
    <3> QED
        BY ZenonT(30), <3>2 DEF Unused
  <2>2. OpSet(p, o) /\ o.pc = "fork" /\ o.child = c
      BY ZenonT(30), <1>3, OpMoves DEF Then, FilesInv, Types
  <2> HIDE DEF c, o
  <2> QED
      BY ZenonT(30), <1>1, <1>3, <2>1, <2>2, ForkCopies DEF Calls
<1>4. \/ proc' = [proc EXCEPT ![c] = FreeSlot] /\ UNCHANGED <<op, ofile, file>>
      \/ /\ proc' = [proc EXCEPT ![c].state = "USED"] /\ ofile' = [ofile EXCEPT ![c] = ofile[p]]
         /\ file' = [f \in FileIds |->
                       [file[f] EXCEPT !.ref = file[f].ref + Cardinality(FdsOf(p, f))]]
         /\ Then(p, o)
    BY ZenonT(30) DEF ForkAlloc, FdsOf
<1> QED
    BY ZenonT(30), <1>2, <1>3, <1>4

\* read() and write() of a descriptor, and their loops after sleep().
LEMMA DescriptorPipe ==
    ASSUME FilesInv, NEW p \in Procs, NEW fd \in FDs, ofile[p][fd] # 0
    PROVE  file[ofile[p][fd]].pipe \in Pipes /\ Keeps(p, file[ofile[p][fd]].pipe)
<1>1. ofile[p][fd] \in FileIds
    BY SMTT(30) DEF FilesInv, Types, TableType
<1>2. file[ofile[p][fd]].pipe \in Pipes
    BY ZenonT(30), <1>1 DEF FilesInv, Types, TableType, FileRec, FileInv
<1> QED
    BY ZenonT(30), <1>2 DEF Keeps

LEMMA ReadStep ==
    ASSUME FilesInv, NEW p \in Procs,
           Read(p) \/ \E fd \in FDs, n \in READS : p # init /\ SysRead(p, fd, n)
    PROVE  FilesInv'
<1>1. CASE Read(p)
  <2>1. /\ proc[p].state = "RUNNABLE" /\ op[p].pc = "read" /\ p # init /\ op[p].pipe \in Pipes
        /\ op[p].n \in Nat /\ piperead(p, op[p].pipe, op[p].n) /\ UNCHANGED <<ofile, file>>
      BY ZenonT(30), <1>1 DEF Read, At, FilesInv, Types, StateInv, InitInv, OpType, IsOp
  <2>2. Keeps(p, op[p].pipe)
      BY ZenonT(30), <2>1 DEF FilesInv, UserInv, UserOf, Doing
  <2> QED
      BY ZenonT(30), <2>1, <2>2, ReadInv
<1>2. ASSUME NEW fd \in FDs, NEW n \in READS, p # init, SysRead(p, fd, n) PROVE FilesInv'
  <2>1. /\ proc[p].state = "RUNNABLE" /\ op[p].pc = "user" /\ ofile[p][fd] # 0
        /\ piperead(p, file[ofile[p][fd]].pipe, n) /\ UNCHANGED <<ofile, file>> /\ n \in Nat
      BY ZenonT(30), <1>2, FilesAssumption DEF SysRead, Calls
  <2>2. file[ofile[p][fd]].pipe \in Pipes /\ Keeps(p, file[ofile[p][fd]].pipe)
      BY ZenonT(30), <2>1, DescriptorPipe
  <2> QED
      BY ZenonT(30), <1>2, <2>1, <2>2, ReadInv
<1> QED
    BY ZenonT(30), <1>1, <1>2

LEMMA WriteStep ==
    ASSUME FilesInv, NEW p \in Procs,
           Write(p) \/ \E fd \in FDs, buf \in BUFS : p # init /\ SysWrite(p, fd, buf)
    PROVE  FilesInv'
<1>1. CASE Write(p)
  <2>1. /\ proc[p].state = "RUNNABLE" /\ op[p].pc = "write" /\ p # init /\ op[p].pipe \in Pipes
        /\ pipewrite(p, op[p].pipe, op[p].buf, op[p].fresh) /\ UNCHANGED <<ofile, file>>
      BY ZenonT(30), <1>1 DEF Write, At, FilesInv, Types, StateInv, InitInv, OpType, IsOp
  <2>2. Keeps(p, op[p].pipe)
      BY ZenonT(30), <2>1 DEF FilesInv, UserInv, UserOf, Doing
  <2> QED
      BY ZenonT(30), <2>1, <2>2, WriteInv
<1>2. ASSUME NEW fd \in FDs, NEW buf \in BUFS, p # init, SysWrite(p, fd, buf) PROVE FilesInv'
  <2>1. /\ proc[p].state = "RUNNABLE" /\ op[p].pc = "user" /\ ofile[p][fd] # 0
        /\ pipewrite(p, file[ofile[p][fd]].pipe, buf, FALSE) /\ UNCHANGED <<ofile, file>>
      BY ZenonT(30), <1>2 DEF SysWrite, Calls
  <2>2. file[ofile[p][fd]].pipe \in Pipes /\ Keeps(p, file[ofile[p][fd]].pipe)
      BY ZenonT(30), <2>1, DescriptorPipe
  <2> QED
      BY ZenonT(30), <1>2, <2>1, <2>2, WriteInv
<1> QED
    BY ZenonT(30), <1>1, <1>2

LEMMA WaitInv == ASSUME FilesInv, NEW p \in Procs, Wait(p), UNCHANGED fvars PROVE FilesInv'
<1>1. CASE UNCHANGED proc
    BY ZenonT(30), <1>1, WaitSame DEF Wait
<1>2. CASE Zombies(p) # {} /\ proc' = [proc EXCEPT ![First(Zombies(p))] = FreeSlot]
    BY ZenonT(30), <1>2, WaitReap DEF Wait
<1> QED
    BY ZenonT(30), <1>1, <1>2 DEF Wait, WaitScan

-----------------------------------------------------------------------------
\* init and a shell, with no files open.
LEMMA InitHolds == ASSUME Init PROVE FilesInv
<1>0. /\ User.pc = "user" /\ 0 \notin Procs /\ init \in Procs /\ init = 1
      /\ \A p \in Procs : p \in Nat
    BY SMTT(30), ProcAssumption DEF User, Procs, init
<1>tables. /\ DOMAIN proc = Procs /\ op = [p \in Procs |-> User] /\ lock = [l \in Locks |-> 0]
           /\ ofile = [p \in Procs |-> [fd \in FDs |-> 0]] /\ file = [f \in FileIds |-> NoFile]
           /\ pipe = [pi \in Pipes |-> NoPipe] /\ stranded = {}
    BY ZenonT(30) DEF Init
<1>1. ASSUME NEW p \in Procs
      PROVE  /\ op[p] = User /\ \A fd \in FDs : ofile[p][fd] = 0
             /\ proc[p] = [state |-> IF p > 2 THEN "UNUSED" ELSE "RUNNABLE", chan |-> NoChan,
                           killed |-> FALSE, parent |-> IF p > 2 THEN 0 ELSE p - 1]
  <2>1. [FreeSlot EXCEPT !.state = "RUNNABLE", !.parent = p - 1] =
            [state |-> "RUNNABLE", chan |-> NoChan, killed |-> FALSE, parent |-> p - 1]
    <3>1. PICK r : r = [FreeSlot EXCEPT !.state = "RUNNABLE"]
        BY ZenonT(30)
    <3>2. ProcShape(FreeSlot) /\ FreeSlot.chan = NoChan /\ FreeSlot.killed = FALSE
        BY SMTT(30), ProcFields DEF FreeSlot
    <3>3. r = [state |-> "RUNNABLE", chan |-> FreeSlot.chan, killed |-> FreeSlot.killed,
               parent |-> FreeSlot.parent]
        BY ZenonT(30), <3>1, <3>2, ProcSet
    <3>4. ProcShape(r) /\ r.state = "RUNNABLE" /\ r.chan = NoChan /\ r.killed = FALSE
        BY SMTT(30), <3>2, <3>3, ProcFields
    <3>5. [r EXCEPT !.parent = p - 1] =
              [state |-> r.state, chan |-> r.chan, killed |-> r.killed, parent |-> p - 1]
        BY ZenonT(30), <3>4, ProcSet
    <3> QED
        BY ZenonT(30), <3>1, <3>4, <3>5
  <2>2. proc[p] = IF p > 2 THEN FreeSlot ELSE [FreeSlot EXCEPT !.state = "RUNNABLE", !.parent = p - 1]
      BY ZenonT(30) DEF Init
  <2>3. op[p] = User /\ \A fd \in FDs : ofile[p][fd] = 0
      BY ZenonT(30), <1>tables
  <2> QED
      BY ZenonT(30), <2>1, <2>2, <2>3 DEF FreeSlot
<1>2. ASSUME NEW p \in Procs
      PROVE  /\ proc[p].state = IF p > 2 THEN "UNUSED" ELSE "RUNNABLE"
             /\ proc[p].parent = IF p > 2 THEN 0 ELSE p - 1
             /\ IsProc(proc[p])
  <2>1. p > 2 \/ p - 1 \in Procs \cup {0}
      BY SMTT(30), <1>0, ProcAssumption DEF Procs
  <2>2. proc[p].killed = FALSE /\ ProcShape(proc[p])
        /\ proc[p].state = (IF p > 2 THEN "UNUSED" ELSE "RUNNABLE")
        /\ proc[p].parent = (IF p > 2 THEN 0 ELSE p - 1)
    <3>1. PICK s, par : /\ s = IF p > 2 THEN "UNUSED" ELSE "RUNNABLE"
                        /\ par = IF p > 2 THEN 0 ELSE p - 1
        BY ZenonT(30)
    <3>2. proc[p] = [state |-> s, chan |-> NoChan, killed |-> FALSE, parent |-> par]
        BY ZenonT(30), <1>1, <3>1
    <3>3. /\ ProcShape(proc[p]) /\ proc[p].state = s /\ proc[p].killed = FALSE
          /\ proc[p].parent = par
        BY SMTT(30), <3>2, ProcFields
    <3> QED
        BY ZenonT(30), <3>1, <3>3
  <2> QED
      BY ZenonT(30), <2>1, <2>2 DEF IsProc, States, ProcShape
<1>3. ProcType /\ OpType
  <2>1. DOMAIN proc = Procs /\ DOMAIN op = Procs
      BY ZenonT(30), <1>tables
  <2>2. \A p \in Procs : IsOp(p, op[p])
      BY ZenonT(30), <1>0, <1>1 DEF IsOp, Pcs
  <2> QED
      BY ZenonT(30), <1>2, <2>1, <2>2 DEF ProcType, OpType
<1>4. PipeType /\ TableType
  <2>1. IsPipe(NoPipe)
      BY SMTT(30), FilesAssumption DEF IsPipe, NoPipe
  <2>2. NoFile \in FileRec
      BY ZenonT(30) DEF NoFile, FileRec
  <2> QED
      BY ZenonT(30), <1>tables, <2>1, <2>2 DEF PipeType, TableType
<1>5. LockInv
  <2>1. \A p \in Procs, l \in Locks : lock[l] # p /\ ~Holding(p, l)
      BY ZenonT(30), <1>0, <1>1, <1>tables DEF Holding
  <2> QED
      BY ZenonT(30), <2>1 DEF LockInv
<1>6. StateInv
  <2>1. \A p \in Procs : SlotInv(p)
      BY ZenonT(30), <1>0, <1>1, <1>2 DEF SlotInv
  <2>2. InitInv
    <3>1. op[init] = User /\ proc[init].state = IF init > 2 THEN "UNUSED" ELSE "RUNNABLE"
        BY ZenonT(30), <1>0, <1>1, <1>2
    <3>2. ~(init > 2)
        BY SMTT(30), <1>0
    <3> QED
        BY ZenonT(30), <1>0, <3>1, <3>2 DEF InitInv
  <2> QED
      BY ZenonT(30), <1>0, <1>1, <2>1, <2>2 DEF StateInv
<1>7. \A p \in Procs : \A ch : ~SleepsOn(p, ch)
    BY ZenonT(30), <1>0, <1>1, <1>2 DEF SleepsOn
<1>8. FamilyInv
  <2>1. ASSUME NEW p \in Procs \ {init}, proc[p].state \notin {"UNUSED", "USED"}
        PROVE  proc[p].parent # 0 /\ proc[proc[p].parent].state \in {"RUNNABLE", "SLEEPING"}
    <3>1. p = 2 /\ proc[p].parent = 1
      <4>1. /\ p \in 1..NPROC /\ p # 1
            /\ proc[p].state = IF p > 2 THEN "UNUSED" ELSE "RUNNABLE"
            /\ proc[p].parent = IF p > 2 THEN 0 ELSE p - 1
          BY ZenonT(30), <1>0, <1>2 DEF Procs
      <4>2. ~(p > 2)
          BY ZenonT(30), <2>1, <4>1
      <4> QED
          BY SMTT(30), <4>1, <4>2, ProcAssumption
    <3> QED
        BY SMTT(30), <1>0, <1>2, <3>1
  <2> QED
      BY ZenonT(30), <1>7, <2>1 DEF FamilyInv
<1>9. WakeInv
  <2>1. \A p \in Procs : op[p].pc # "tosleep"
      BY ZenonT(30), <1>0, <1>1
  <2> QED
      BY ZenonT(30), <1>7, <2>1 DEF WakeInv
<1>10. \A f \in FileIds : file[f] = NoFile /\ f # 0
    BY SMTT(30), <1>tables DEF FileIds
<1>11. RefsExact
  <2>1. \A p \in Procs : InFlight(p) = {}
      BY ZenonT(30), <1>0, <1>1 DEF InFlight
  <2>2. ASSUME NEW f \in FileIds
        PROVE  /\ {x \in Procs \X FDs : ofile[x[1]][x[2]] = f} = {}
               /\ {p \in Procs : f \in InFlight(p)} = {}
    <3>1. \A x \in Procs \X FDs : ofile[x[1]][x[2]] = 0
        BY ZenonT(30), <1>1
    <3> QED
        BY ZenonT(30), <1>10, <2>1, <3>1
  <2>3. Cardinality({}) = 0 /\ 0 + 0 = 0
      BY SMTT(30), FS_EmptySet
  <2>4. \A f \in FileIds : file[f].ref = 0
      BY SMTT(30), <1>10 DEF NoFile
  <2> QED
      BY ZenonT(30), <2>2, <2>3, <2>4 DEF RefsExact
<1>12. FileInv
    BY ZenonT(30), <1>0, <1>1, <1>10 DEF FileInv
<1>13. EndsInv
  <2> SUFFICES ASSUME NEW pi \in Pipes, NEW w \in BOOLEAN PROVE EndInv(pi, w)
      BY ZenonT(30) DEF EndsInv
  <2>1. ~Open(pi, w)
      BY ZenonT(30), <1>tables DEF Open, NoPipe
  <2>2. \A f \in FileIds : ~Stands(f, pi, w)
      BY SMTT(30), <1>10 DEF Stands, NoFile, Pipes
  <2>3. \A p \in Procs : ~Closing(p, pi, w)
      BY ZenonT(30), <1>0, <1>1 DEF Closing
  <2> QED
      BY ZenonT(30), <2>1, <2>2, <2>3 DEF EndInv
<1>14. UserInv
    BY ZenonT(30), <1>0, <1>1 DEF UserInv, UserOf, Doing
<1> QED
    BY ZenonT(30), <1>3, <1>4, <1>5, <1>6, <1>8, <1>9, <1>11, <1>12, <1>13, <1>14 DEF FilesInv, Types

\* FilesInv is kept by every step.
LEMMA NextInv == ASSUME FilesInv, [Next]_vars PROVE FilesInv'
<1>1. CASE UNCHANGED vars
  <2> USE <1>1 DEF vars, fvars, FilesInv, Types
  <2>1. ProcType' /\ PipeType'
      BY ZenonT(30) DEF ProcType, PipeType
  <2>2. TableType' /\ OpType'
      BY ZenonT(30) DEF TableType, OpType
  <2>3. LockInv'
      BY ZenonT(90) DEF LockInv, Holding
  <2>4. StateInv'
      BY ZenonT(30) DEF StateInv, SlotInv, InitInv
  <2>5. FamilyInv'
      BY ZenonT(30) DEF FamilyInv, SleepsOn, Children, Zombies
  <2>6. WakeInv'
      BY ZenonT(30) DEF WakeInv, SleepsOn, Unannounced
  <2>7. RefsExact'
      BY ZenonT(30) DEF RefsExact, InFlight
  <2>8. FileInv'
      BY ZenonT(30) DEF FileInv
  <2>9. EndsInv'
    <3>1. ASSUME NEW x \in Pipes, NEW v \in BOOLEAN PROVE EndInv(x, v)'
      <4>1. /\ \A g \in FileIds : Stands(g, x, v)' <=> Stands(g, x, v)
            /\ \A q \in Procs : Closing(q, x, v)' <=> Closing(q, x, v)
            /\ Open(x, v)' <=> Open(x, v)
          BY ZenonT(30) DEF Stands, Closing, Open
      <4>2. EndInv(x, v)
          BY ZenonT(30) DEF EndsInv
      <4> QED
          BY ZenonT(30), <4>1, <4>2 DEF EndInv
    <3> QED
        BY ZenonT(30), <3>1 DEF EndsInv
  <2>10. UserInv'
      BY ZenonT(30) DEF UserInv, UserOf, Doing, Keeps
  <2> QED
      BY ZenonT(30), <2>1, <2>2, <2>3, <2>4, <2>5, <2>6, <2>7, <2>8, <2>9, <2>10
<1>2. ASSUME NEW p \in Procs, KernelStep(p) PROVE FilesInv'
  <2>1. CASE (Sleep(p) \/ Awake(p) \/ (At(p, "wait") /\ Wait(p))) /\ UNCHANGED fvars
      BY ZenonT(30), <2>1, SleepInv, AwakeInv, WaitInv
  <2>2. CASE PipeClose(p) \/ PipeAlloc(p) \/ PipeBad(p)
      BY ZenonT(30), <2>2, PipeCloseInv, PipeAllocInv, PipeBadInv
  <2>3. CASE Read(p) \/ Write(p)
      BY ZenonT(30), <2>3, ReadStep, WriteStep
  <2>4. CASE ForkRun(p) \/ Exit(p)
      BY ZenonT(30), <2>4, ForkRunInv, ExitInv
  <2> QED
      BY ZenonT(30), <1>2, <2>1, <2>2, <2>3, <2>4 DEF KernelStep
<1>3. ASSUME NEW p \in Procs, Syscall(p) PROVE FilesInv'
  <2>1. CASE Calls(p) /\ Wait(p) /\ UNCHANGED fvars
      BY ZenonT(30), <2>1, WaitInv
  <2>2. CASE p # init /\ (SysPipe(p) \/ ForkAlloc(p) \/ SysExit(p))
      BY ZenonT(30), <2>2, SysPipeInv, ForkAllocInv, SysExitInv
  <2>3. ASSUME p # init, NEW s \in VICTIMS, Kill(p, s), UNCHANGED fvars PROVE FilesInv'
    <3>1. s \in Procs
        BY ZenonT(30), FilesAssumption
    <3> QED
        BY ZenonT(30), <2>3, <3>1, KillInv
  <2>4. ASSUME p # init, NEW fd \in FDs, SysDup(p, fd) \/ SysClose(p, fd) PROVE FilesInv'
      BY ZenonT(30), <2>4, SysDupInv, SysCloseInv
  <2>5. ASSUME p # init, NEW fd \in FDs, \E n \in READS : SysRead(p, fd, n) PROVE FilesInv'
      BY ZenonT(30), <2>5, ReadStep
  <2>6. ASSUME p # init, NEW fd \in FDs, \E buf \in BUFS : SysWrite(p, fd, buf) PROVE FilesInv'
      BY ZenonT(30), <2>6, WriteStep
  <2> QED
      BY ZenonT(30), <1>3, <2>1, <2>2, <2>3, <2>4, <2>5, <2>6 DEF Syscall
<1> QED
    BY ZenonT(30), <1>1, <1>2, <1>3 DEF Next

\* Processes, descriptors and pipes: the invariant of every reachable state.
THEOREM FilesInvariant == Spec => []FilesInv
<1>1. Init => FilesInv
    BY ZenonT(30), InitHolds
<1>2. FilesInv /\ [Next]_vars => FilesInv'
    BY ZenonT(30), NextInv
<1> QED
    BY <1>1, <1>2, PTL DEF Spec

-----------------------------------------------------------------------------
\* sleep(), wakeup(), fork(), exit() and wait() together: a process asleep in wait() has
\* a child and no zombie, and every process but init has a living parent, for any number
\* of processes.
THEOREM FamilyThm == Spec => []Family
<1>1. ASSUME FilesInv PROVE Family
  <2>1. NoLostChild
      BY ZenonT(30), <1>1 DEF FilesInv, FamilyInv, SleepsOn, NoLostChild
  <2>2. LivingParent
      BY ZenonT(30), <1>1 DEF FilesInv, FamilyInv, LivingParent
  <2> QED
      BY ZenonT(30), <2>1, <2>2 DEF Family
<1>2. FilesInv => Family
    BY ZenonT(30), <1>1
<1> QED
    BY <1>2, FilesInvariant, PTL

\* filealloc(), filedup() and fileclose(): the tables keep their types, and the count of a
\* file is exactly the descriptors and the calls that refer to it.
THEOREM CountsExactThm == Spec => []CountsExact
<1>1. ASSUME FilesInv PROVE CountsExact
  <2>1. TypeOK
      BY ZenonT(30), <1>1 DEF FilesInv, Types, ProcType, PipeType, TableType, OpType, IsProc, IsPipe, IsOp, States,
                  FileRec, TypeOK
  <2> QED
      BY ZenonT(30), <1>1, <2>1 DEF CountsExact, FilesInv
<1>2. FilesInv => CountsExact
    BY ZenonT(30), <1>1
<1> QED
    BY <1>2, FilesInvariant, PTL

\* pipeclose(): an end of a pipe is open exactly while a file, or a close under way, stands
\* for it, and no piperead() or pipewrite() is inside a pipe whose page is free.
THEOREM PipeLifetimeThm == Spec => []PipeLifetime
<1>1. ASSUME FilesInv, NEW pi \in Pipes
      PROVE  /\ \A w \in BOOLEAN :
                   (IF w THEN pipe[pi].writeopen ELSE pipe[pi].readopen) <=>
                      \/ \E f \in FileIds : file[f].pipe = pi /\ file[f].writable = w
                      \/ \E p \in Procs : op[p].pc = "pipeclose" /\ op[p].pipe = pi /\ op[p].writable = w
             /\ IsFree(pi) => \A p \in Procs : Doing(p).pc \in {"read", "write"} => Doing(p).pipe # pi
  <2>1. ASSUME NEW w \in BOOLEAN PROVE EndInv(pi, w)
      BY ZenonT(30), <1>1 DEF FilesInv, EndsInv
  <2>2. ASSUME IsFree(pi), NEW p \in Procs, Doing(p).pc \in {"read", "write"}, Doing(p).pipe = pi
        PROVE  FALSE
    <3>1. PICK fd \in FDs : ofile[p][fd] # 0 /\ file[ofile[p][fd]].pipe = pi
        BY ZenonT(30), <1>1, <2>2 DEF FilesInv, UserInv, UserOf, Keeps
    <3>2. PICK f \in FileIds : f = ofile[p][fd]
        BY ZenonT(30), <1>1, <3>1 DEF FilesInv, Types, TableType
    <3>3. PICK w \in BOOLEAN : w = file[f].writable
        BY ZenonT(30), <1>1 DEF FilesInv, Types, TableType, FileRec
    <3>4. Open(pi, w)
        BY ZenonT(30), <2>1, <3>1, <3>2, <3>3 DEF EndInv, Stands
    <3> QED
        BY ZenonT(30), <2>2, <3>4 DEF Open, IsFree
  <2>3. \A w \in BOOLEAN :
            (IF w THEN pipe[pi].writeopen ELSE pipe[pi].readopen) <=>
               \/ \E f \in FileIds : file[f].pipe = pi /\ file[f].writable = w
               \/ \E p \in Procs : op[p].pc = "pipeclose" /\ op[p].pipe = pi /\ op[p].writable = w
      BY ZenonT(30), <2>1 DEF EndInv, Open, Stands, Closing
  <2> QED
      BY ZenonT(30), <2>2, <2>3
<1>2. FilesInv => PipeLifetime
    BY ZenonT(30), <1>1 DEF PipeLifetime
<1> QED
    BY <1>2, FilesInvariant, PTL

\* piperead() and pipewrite() miss no wakeup: with the lock free, a reader asleep has
\* nothing to read (or bytes stranded by a killed writer) and a writer asleep no room.
THEOREM NoLostWakeupThm == Spec => []NoLostWakeup
<1>1. ASSUME FilesInv, NEW p \in Procs, proc[p].state = "SLEEPING",
             proc[p].chan.kind \in {"nread", "nwrite"}, lock[proc[p].chan.id] = 0
      PROVE  IF proc[p].chan.kind = "nread"
             THEN pipe[proc[p].chan.id].writeopen
                  /\ (Empty(pipe[proc[p].chan.id]) \/ proc[p].chan.id \in stranded)
             ELSE pipe[proc[p].chan.id].readopen /\ Full(pipe[proc[p].chan.id])
  <2>1. op[p].pc = "asleep" /\ proc[p].chan = op[p].chan /\ IsOp(p, op[p])
      BY ZenonT(30), <1>1 DEF FilesInv, Types, StateInv, SlotInv, OpType
  <2>2. PICK pi \in Pipes : proc[p].chan \in {Chan("nread", pi), Chan("nwrite", pi)}
    <3>1. SleepType(p, proc[p].chan, op[p].then)
        BY ZenonT(30), <2>1 DEF IsOp
    <3> QED
        BY SMTT(30), <1>1, <3>1 DEF SleepType, Chan
  <2>3. proc[p].chan.id = pi /\ proc[p].chan = Chan(proc[p].chan.kind, pi)
      BY SMTT(30), <2>2 DEF Chan
  <2>4. ~Unannounced(pi)
    <3>1. SUFFICES ASSUME NEW w \in Procs, op[w].pc = "write", op[w].pipe = pi PROVE FALSE
        BY ZenonT(30) DEF Unannounced
    <3>2. Holding(w, pi) /\ pi \in Locks /\ w # 0
        BY SMTT(30), <3>1 DEF Holding, Locks, Pipes, Procs
    <3> QED
        BY ZenonT(30), <1>1, <2>3, <3>2 DEF FilesInv, LockInv
  <2>5. SleepsOn(p, proc[p].chan)
      BY ZenonT(30), <1>1 DEF SleepsOn
  <2>6. CASE proc[p].chan = Chan("nread", pi)
    <3>1. pipe[pi].writeopen /\ (Empty(pipe[pi]) \/ pi \in stranded)
        BY ZenonT(30), <1>1, <2>4, <2>5, <2>6 DEF FilesInv, WakeInv
    <3> QED
        BY SMTT(30), <2>3, <2>6, <3>1 DEF Chan
  <2>7. CASE proc[p].chan = Chan("nwrite", pi)
    <3>1. pipe[pi].readopen /\ Full(pipe[pi])
        BY ZenonT(30), <1>1, <2>5, <2>7 DEF FilesInv, WakeInv
    <3> QED
        BY SMTT(30), <2>3, <2>7, <3>1 DEF Chan
  <2> QED
      BY ZenonT(30), <2>2, <2>6, <2>7
<1>2. FilesInv => NoLostWakeup
    BY ZenonT(30), <1>1 DEF NoLostWakeup
<1> QED
    BY <1>2, FilesInvariant, PTL
=============================================================================
