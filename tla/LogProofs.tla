----------------------------- MODULE LogProofs -----------------------------
(***************************************************************************)
(* Theorems about Log, for every set of processes, blocks and contents and *)
(* every log size.  The argument: LogInv is inductive, one lemma per       *)
(* action, and under it every step of Log is a step of TxDisk or a         *)
(* stuttering step.                                                        *)
(***************************************************************************)
EXTENDS Log, FiniteSetTheorems, TLAPS

USE LogAssumption, SMTT(30)

\* What the count of the calls in progress relies on: cardinalities of sets of
\* processes (CountingHolds below).
Counting ==
  /\ Cardinality({}) = 0
  /\ \A S \in SUBSET Procs : Cardinality(S) \in Nat /\ (Cardinality(S) = 0 => S = {})
  /\ \A S \in SUBSET Procs, p \in Procs :
        /\ p \notin S => Cardinality(S \cup {p}) = Cardinality(S) + 1
        /\ p \in S => Cardinality(S \ {p}) = Cardinality(S) - 1

\* A logged block already installed has its logged contents in the cache and at home.
LEMMA InstalledFacts ==
  ASSUME LogInv, NEW i \in DOMAIN lh, Installed(i)
  PROVE  logData[i] = cache[lh[i]] /\ disk[lh[i]] = logData[i]
<1>1. PICK p \in Procs : \/ pc[p] = "clear_head"
                         \/ pc[p] = "install_trans" /\ i <= tail
  BY DEF Installed
<1>2. i \in 1..Len(lh) /\ tail \in Nat
  BY DEF LogInv, TypeOK
<1>3. logData[i] = cache[lh[i]]
  BY <1>1, <1>2 DEF LogInv, PhaseInv, InLog
<1>4. disk[lh[i]] = logData[i]
  BY <1>1, <1>2 DEF LogInv, PhaseInv, AtHome
<1> QED
  BY <1>3, <1>4

\* The calls in progress: counting them as one begins and as one ends.
LEMMA ActiveCount ==
  ASSUME Counting
  PROVE  Cardinality(Active) \in Nat /\ (Cardinality(Active) = 0 <=> Active = {})
<1>1. Active \in SUBSET Procs
  BY DEF Active
<1> QED
  BY <1>1 DEF Counting

LEMMA CountOneMore ==
  ASSUME Counting, NEW p \in Procs, p \notin Active
  PROVE  Cardinality(Active \cup {p}) = Cardinality(Active) + 1
<1>1. Active \in SUBSET Procs
  BY DEF Active
<1> QED
  BY <1>1 DEF Counting

LEMMA CountOneLess ==
  ASSUME Counting, NEW p \in Procs, p \in Active
  PROVE  Cardinality(Active \ {p}) = Cardinality(Active) - 1
<1>1. Active \in SUBSET Procs
  BY DEF Active
<1> QED
  BY <1>1 DEF Counting

-----------------------------------------------------------------------------
LEMMA ActiveSame ==
  ASSUME CommitterInv, Active' = Active, outstanding' = outstanding
  PROVE  outstanding' = Cardinality(Active')
BY DEF CommitterInv

LEMMA BeginOpInv ==
  ASSUME Counting, LogInv, TypeOK', NEW p \in Procs, BeginOp(p)
  PROVE  LogInv'
<1> USE DEF diskVars, bufVars
<1>1. pc' = [pc EXCEPT ![p] = "inop"] /\ pc \in [Procs -> Pcs]
  BY DEF LogInv, BeginOp, TypeOK
<1>2. outstanding' = Cardinality(Active')
  <2>1. Active' = Active \cup {p} /\ p \notin Active
    BY <1>1 DEF BeginOp, Active
  <2> QED
    BY ZenonT(30), <2>1, CountOneMore DEF LogInv, BeginOp, CommitterInv
<1>3. CommitterInv'
  <2>1. /\ CommitterInv /\ ~committing /\ UNCHANGED <<committing, boot>> /\ boot = "up"
        /\ outstanding \in Nat /\ outstanding' = outstanding + 1
    BY ZenonT(30) DEF LogInv, BeginOp, Admit, TypeOK, Up
  <2>2. \A q \in Procs : pc[q] \notin CommitPcs
    BY ZenonT(30), <2>1 DEF CommitterInv
  <2>3. \A q \in Procs : pc'[q] \notin CommitPcs
    BY <1>1, <2>2 DEF CommitPcs
  <2>4. outstanding' # 0
    BY <2>1
  <2> QED
    BY ZenonT(30), <1>2, <2>1, <2>3, <2>4 DEF CommitterInv
<1>4. HeaderInv'
  BY <1>1 DEF LogInv, BeginOp, HeaderInv
<1>5. PinInv'
  BY <1>1 DEF LogInv, BeginOp, PinInv, Installed, Logged
<1>6. PhaseInv'
  BY <1>1 DEF LogInv, BeginOp, PhaseInv, InLog, AtHome
<1>7. BootInv' /\ SleepInv'
  BY <1>1, <1>2 DEF LogInv, BeginOp, BootInv, AtHome, SleepInv, Up, TypeOK
<1> QED
  BY <1>3, <1>4, <1>5, <1>6, <1>7 DEF LogInv

LEMMA BeginSleepInv ==
  ASSUME LogInv, TypeOK', NEW p \in Procs, BeginSleep(p)
  PROVE  LogInv'
<1> USE DEF diskVars, bufVars, logVars
<1>1. pc' = [pc EXCEPT ![p] = "sleeping"] /\ pc \in [Procs -> Pcs]
  BY DEF LogInv, BeginSleep, TypeOK
<1>2. Active' = Active
  BY <1>1 DEF BeginSleep, Active
<1>3. CommitterInv'
  BY <1>1, <1>2, ActiveSame DEF LogInv, BeginSleep, CommitterInv, CommitPcs, Up
<1>4. HeaderInv'
  BY <1>1 DEF LogInv, BeginSleep, HeaderInv
<1>5. PinInv'
  BY <1>1 DEF LogInv, BeginSleep, PinInv, Installed, Logged
<1>6. PhaseInv'
  BY <1>1 DEF LogInv, BeginSleep, PhaseInv, InLog, AtHome
<1>7. BootInv'
  BY <1>1 DEF BeginSleep, BootInv, AtHome, Up
<1>8. SleepInv'
  <2>1. SUFFICES ASSUME ~committing, outstanding = 0 PROVE FALSE
    BY DEF BeginSleep, SleepInv, TypeOK
  <2>2. Len(lh) = 0
    BY <2>1 DEF LogInv, BeginSleep, CommitterInv, Up
  <2> QED
    BY <2>1, <2>2 DEF BeginSleep, Admit
<1> QED
  BY <1>3, <1>4, <1>5, <1>6, <1>7, <1>8 DEF LogInv

LEMMA EndOpInv ==
  ASSUME Counting, LogInv, TypeOK', NEW p \in Procs, EndOp(p)
  PROVE  LogInv'
<1> USE DEF diskVars, bufVars
<1>1. pc \in [Procs -> Pcs] /\ pc[p] = "inop" /\ boot = "up" /\ boot' = boot
  BY DEF LogInv, EndOp, TypeOK, Up
<1>2. p \in Active /\ outstanding = Cardinality(Active) /\ outstanding # 0
  BY <1>1, ActiveCount DEF LogInv, Active, CommitterInv
<1>3. ~committing /\ \A q \in Procs : pc[q] \notin CommitPcs
  BY <1>2 DEF LogInv, CommitterInv
<1>4. \A q \in Procs :
        /\ q # p => (pc'[q] = pc[q] \/ (pc[q] = "sleeping" /\ pc'[q] = "begin_op"))
        /\ pc'[p] \in {"idle", "write_log", "finish"}
  BY <1>1, <1>3 DEF EndOp, Wakeup
<1>5. outstanding' = Cardinality(Active')
  <2>1. Active' = Active \ {p}
    BY <1>4 DEF Active
  <2>2. Cardinality(Active \ {p}) = Cardinality(Active) - 1
    BY ZenonT(30), <1>2, CountOneLess
  <2> QED
    BY <1>2, <2>1, <2>2 DEF EndOp
<1>6. CASE outstanding' = 0
  <2>1. /\ committing' = TRUE
        /\ pc' = [pc EXCEPT ![p] = IF Len(lh) > 0 THEN "write_log" ELSE "finish"]
    BY ZenonT(30), <1>3, <1>6 DEF EndOp
  <2>2. CommitterInv'
    BY <1>1, <1>3, <1>5, <1>6, <2>1 DEF CommitterInv, CommitPcs
  <2>3. HeaderInv'
    BY ZenonT(30), <1>1, <1>3, <2>1 DEF LogInv, EndOp, HeaderInv, CommitPcs
  <2>4. PinInv'
    BY ZenonT(30), <1>1, <1>3, <2>1 DEF LogInv, EndOp, PinInv, Installed, Logged, CommitPcs
  <2>5. PhaseInv'
    <3>1. lh' = lh /\ tail' = 0 /\ lh \in Seq(Blocks)
      BY DEF EndOp, TypeOK
    <3>2. Len(lh) > 0 \/ lh = << >>
      BY <3>1
    <3>3. \A q \in Procs : q # p => pc'[q] \notin CommitPcs
      BY ZenonT(30), <1>1, <1>3, <2>1
    <3> QED
      BY <1>1, <2>1, <3>1, <3>2, <3>3 DEF PhaseInv, InLog, CommitPcs
  <2> QED
    BY <1>1, <2>1, <2>2, <2>3, <2>4, <2>5 DEF LogInv, BootInv, SleepInv
<1>7. CASE outstanding' # 0
  <2>1. committing' = FALSE /\ pc' = Wakeup(p, "idle") /\ pc'[p] = "idle"
    BY <1>3, <1>7 DEF EndOp, Wakeup, TypeOK
  <2>2. \A q \in Procs : pc'[q] \notin CommitPcs
    BY <1>3, <1>4, <2>1 DEF CommitPcs
  <2>3. CommitterInv'
    BY ZenonT(30), <1>1, <1>5, <1>7, <2>1, <2>2 DEF CommitterInv
  <2>4. HeaderInv'
    BY ZenonT(30), <1>1, <1>3, <2>2 DEF LogInv, EndOp, HeaderInv, CommitPcs
  <2>5. PinInv'
    BY <1>1, <1>3, <2>2 DEF LogInv, EndOp, PinInv, Installed, Logged, CommitPcs
  <2>6. PhaseInv'
    BY <2>2 DEF PhaseInv, CommitPcs
  <2> QED
    BY <1>1, <1>7, <2>1, <2>3, <2>4, <2>5, <2>6 DEF LogInv, BootInv, SleepInv, TypeOK
<1> QED
  BY ZenonT(30), <1>6, <1>7

\* What the steps of commit() have in common: p is the only committer.
LEMMA OnlyCommitter ==
  ASSUME LogInv, NEW p \in Procs, pc[p] \in CommitPcs
  PROVE  /\ committing /\ outstanding = 0 /\ boot = "up"
         /\ \A q \in Procs : pc[q] \in CommitPcs => q = p
BY ZenonT(30) DEF LogInv, CommitterInv, TypeOK, CommitPcs

\* A commit in progress: the machine is up, and whoever sleeps will be woken.
LEMMA CommitKeeps ==
  ASSUME boot' = "up", committing'
  PROVE  BootInv' /\ SleepInv'
BY ZenonT(30) DEF BootInv, SleepInv

\* log_write() appends to the header.
LEMMA AppendFacts ==
  ASSUME NEW S, NEW s \in Seq(S), NEW e \in S
  PROVE  /\ DOMAIN s = 1..Len(s) /\ DOMAIN Append(s, e) = 1..Len(s) + 1
         /\ Append(s, e)[Len(s) + 1] = e
         /\ \A i \in 1..Len(s) : Append(s, e)[i] = s[i] /\ s[i] \in S
OBVIOUS

LEMMA WriteLogInv ==
  ASSUME LogInv, TypeOK', NEW p \in Procs, WriteLog(p)
  PROVE  LogInv'
<1> USE DEF bufVars, logVars
<1>1. /\ pc \in [Procs -> Pcs] /\ pc[p] = "write_log" /\ boot' = boot /\ boot = "up" /\ Up
      /\ lh \in Seq(Blocks) /\ lh' = lh /\ tail \in Nat /\ tail < Len(lh)
      /\ cache' = cache /\ disk' = disk /\ head' = head /\ pins' = pins
      /\ Len(lh) <= NLOG - 1
  BY DEF LogInv, WriteLog, TypeOK, Up, PhaseInv, HeaderInv
<1>2. \A q \in Procs : q # p => pc[q] \notin CommitPcs /\ pc'[q] = pc[q]
  BY ZenonT(30), <1>1, OnlyCommitter DEF WriteLog, CommitPcs
<1>3. pc'[p] \in {"write_log", "write_head"}
  BY <1>1 DEF WriteLog
<1>4. Active' = Active
  BY ZenonT(30), <1>1, <1>2, <1>3 DEF Active
<1>5. CommitterInv'
  BY <1>1, <1>2, <1>3, <1>4, OnlyCommitter DEF LogInv, WriteLog, CommitterInv, CommitPcs
<1>6. HeaderInv'
  BY ZenonT(30), <1>1, <1>2, <1>3 DEF LogInv, HeaderInv, CommitPcs
<1>7. PinInv'
  BY <1>1, <1>2, <1>3 DEF LogInv, PinInv, Logged, Installed, CommitPcs
<1>8. PhaseInv'
  <2>1. InLog(tail)
    BY ZenonT(30), <1>1 DEF LogInv, PhaseInv
  <2>2. logData' = [logData EXCEPT ![tail + 1] = cache[lh[tail + 1]]]
        /\ logData \in [1..NLOG-1 -> Vals]
    BY DEF LogInv, WriteLog, TypeOK
  <2>3. ASSUME NEW i \in 1..tail + 1 PROVE logData'[i] = cache'[lh'[i]]
    <3>1. lh' = lh /\ cache' = cache /\ tail \in Nat /\ tail + 1 \in 1..NLOG-1 /\ i \in 1..NLOG-1
      BY <1>1
    <3>2. CASE i = tail + 1
      BY <2>2, <3>1, <3>2
    <3>3. CASE i # tail + 1
      <4>1. i \in 1..tail
        BY <3>1, <3>3
      <4>2. logData[i] = cache[lh[i]]
        BY <2>1, <4>1 DEF InLog
      <4> QED
        BY <2>2, <3>1, <3>3, <4>2
    <3> QED
      BY <3>2, <3>3
  <2>4. CASE tail + 1 < Len(lh)
    <3>1. pc' = pc /\ tail' = tail + 1
      BY <1>1, <2>4 DEF WriteLog
    <3>2. tail' < Len(lh') /\ \A i \in 1..tail' : logData'[i] = cache'[lh'[i]]
      BY <1>1, <2>3, <2>4, <3>1
    <3>3. pc'[p] = "write_log" /\ \A q \in Procs : q # p => pc'[q] \notin CommitPcs
      BY <1>1, <1>2, <3>1
    <3> QED
      BY <3>2, <3>3 DEF PhaseInv, InLog, CommitPcs
  <2>5. CASE tail + 1 >= Len(lh)
    <3>1. tail + 1 = Len(lh)
      BY <1>1, <2>5
    <3>2. tail' = 0 /\ pc'[p] = "write_head"
      BY <1>1, <3>1 DEF WriteLog
    <3>3. tail' = 0 /\ Len(lh') > 0 /\ \A i \in 1..Len(lh') : logData'[i] = cache'[lh'[i]]
      <4>1. Len(lh') = tail + 1 /\ tail \in Nat
        BY ZenonT(30), <1>1, <3>1
      <4> QED
        BY <2>3, <3>2, <4>1
    <3>4. \A q \in Procs : q # p => pc'[q] \notin CommitPcs
      BY <1>2
    <3> QED
      BY <3>2, <3>3, <3>4 DEF PhaseInv, InLog, CommitPcs
  <2> QED
    BY <1>1, <2>4, <2>5
<1>9. boot' = "up" /\ committing'
  BY ZenonT(30), <1>1, OnlyCommitter DEF WriteLog, CommitPcs
<1> QED
  BY <1>5, <1>6, <1>7, <1>8, <1>9, CommitKeeps DEF LogInv

LEMMA WriteHeadInv ==
  ASSUME LogInv, TypeOK', NEW p \in Procs, WriteHead(p)
  PROVE  LogInv'
<1> USE DEF bufVars, logVars
<1>1. /\ pc \in [Procs -> Pcs] /\ pc[p] = "write_head" /\ boot' = boot /\ boot = "up" /\ Up
      /\ pc' = [pc EXCEPT ![p] = "install_trans"]
      /\ lh \in Seq(Blocks) /\ lh' = lh /\ tail = 0 /\ tail' = 0 /\ Len(lh) > 0
      /\ cache' = cache /\ disk' = disk /\ head' = lh /\ pins' = pins
      /\ logData' = logData /\ InLog(Len(lh))
  BY ZenonT(30) DEF LogInv, WriteHead, TypeOK, Up, PhaseInv
<1>2. \A q \in Procs : q # p => pc[q] \notin CommitPcs /\ pc'[q] = pc[q]
  BY <1>1, OnlyCommitter DEF CommitPcs
<1>3. Active' = Active
  BY ZenonT(30), <1>1 DEF Active
<1>4. CommitterInv'
  BY <1>1, <1>2, <1>3, OnlyCommitter DEF LogInv, WriteHead, CommitterInv, CommitPcs
<1>5. HeaderInv'
  BY ZenonT(30), <1>1 DEF LogInv, HeaderInv
<1>6. PinInv'
  <2>1. \A i \in DOMAIN lh : ~Installed(i) /\ ~Installed(i)'
    BY <1>1, <1>2 DEF Installed, CommitPcs
  <2> QED
    BY <1>1, <2>1 DEF LogInv, PinInv, Logged
<1>7. PhaseInv'
  BY <1>1, <1>2 DEF PhaseInv, InLog, AtHome, CommitPcs
<1>8. boot' = "up" /\ committing'
  BY ZenonT(30), <1>1, OnlyCommitter DEF WriteHead, CommitPcs
<1> QED
  BY <1>4, <1>5, <1>6, <1>7, <1>8, CommitKeeps DEF LogInv

LEMMA InstallTransInv ==
  ASSUME LogInv, TypeOK', NEW p \in Procs, InstallTrans(p)
  PROVE  LogInv'
<1> USE DEF logVars
<1>1. /\ pc \in [Procs -> Pcs] /\ pc[p] = "install_trans" /\ boot' = boot /\ boot = "up" /\ Up
      /\ lh \in Seq(Blocks) /\ lh' = lh /\ tail \in Nat /\ tail < Len(lh)
      /\ head' = head /\ head = lh /\ logData' = logData
      /\ InLog(Len(lh)) /\ AtHome(tail)
      /\ outstanding' = outstanding /\ committing' = committing
  BY ZenonT(30) DEF LogInv, InstallTrans, TypeOK, Up, PhaseInv
<1>2. \A q \in Procs : q # p => pc[q] \notin CommitPcs /\ pc'[q] = pc[q]
  BY <1>1, OnlyCommitter DEF InstallTrans, CommitPcs
<1>3. pc'[p] \in {"install_trans", "clear_head"}
  BY ZenonT(30), <1>1 DEF InstallTrans
<1>4. /\ disk \in [Blocks -> Vals] /\ cache \in [Blocks -> Vals] /\ pins \in [Blocks -> Nat]
      /\ disk' = [disk EXCEPT ![lh[tail + 1]] = logData[tail + 1]]
      /\ cache' = [cache EXCEPT ![lh[tail + 1]] = logData[tail + 1]]
      /\ pins' = [pins EXCEPT ![lh[tail + 1]] = @ - 1]
      /\ tail + 1 \in DOMAIN lh /\ lh[tail + 1] \in Blocks
  BY <1>1 DEF LogInv, InstallTrans, Install, TypeOK
<1>5. cache' = cache
  <2>1. cache[lh[tail + 1]] = logData[tail + 1]
    BY <1>1 DEF InLog
  <2> QED
    BY <1>4, <2>1
<1>6. \A i \in 1..tail + 1 : disk'[lh[i]] = logData[i]
  <2>1. \A i \in 1..tail : lh[i] # lh[tail + 1] /\ lh[i] \in Blocks
    BY <1>1 DEF LogInv, HeaderInv
  <2> QED
    BY <1>1, <1>4, <2>1 DEF AtHome
<1>7. (tail + 1 < Len(lh) /\ tail' = tail + 1 /\ pc'[p] = "install_trans")
      \/ (tail + 1 = Len(lh) /\ tail' = 0 /\ pc'[p] = "clear_head")
  BY <1>1 DEF InstallTrans
<1>8. CommitterInv'
  <2>1. Active' = Active
    BY <1>1, <1>2, <1>3 DEF Active
  <2> QED
    BY ZenonT(30), <1>1, <1>2, <1>3, <2>1, OnlyCommitter DEF LogInv, CommitterInv, CommitPcs
<1>9. HeaderInv'
  BY ZenonT(30), <1>1, <1>3 DEF LogInv, HeaderInv
<1>10. PinInv'
  <2>1. ASSUME NEW b \in Blocks, ~Logged(b)'
        PROVE cache'[b] = disk'[b] /\ pins'[b] = 0
    BY ZenonT(30), <1>1, <1>4, <1>5, <2>1 DEF LogInv, Logged, PinInv
  <2>2. ASSUME NEW i \in DOMAIN lh
        PROVE pins'[lh[i]] = IF Installed(i)' THEN 0 ELSE 1
    <3>1. Installed(i) <=> i <= tail
      BY <1>1, <1>2 DEF Installed, CommitPcs
    <3>2. Installed(i)' <=> i <= tail + 1
      BY <1>1, <1>2, <1>7 DEF Installed, CommitPcs
    <3>3. pins[lh[i]] = IF Installed(i) THEN 0 ELSE 1
      BY <1>1 DEF LogInv, PinInv
    <3>4. CASE i = tail + 1
      BY <1>1, <1>4, <3>1, <3>2, <3>3, <3>4
    <3>5. CASE i # tail + 1
      <4>1. lh[i] # lh[tail + 1] /\ lh[i] \in Blocks
        BY <1>1, <1>4, <3>5 DEF LogInv, HeaderInv
      <4> QED
        BY <1>1, <1>4, <3>1, <3>2, <3>3, <3>5, <4>1
    <3> QED
      BY <3>4, <3>5
  <2> QED
    BY ZenonT(30), <1>1, <2>1, <2>2 DEF PinInv
<1>11. PhaseInv'
  BY <1>1, <1>2, <1>5, <1>6, <1>7 DEF PhaseInv, InLog, AtHome, CommitPcs
<1>12. boot' = "up" /\ committing'
  BY ZenonT(30), <1>1, OnlyCommitter DEF CommitPcs
<1> QED
  BY <1>8, <1>9, <1>10, <1>11, <1>12, CommitKeeps DEF LogInv

LEMMA ClearHeadInv ==
  ASSUME LogInv, TypeOK', NEW p \in Procs, ClearHead(p)
  PROVE  LogInv'
<1> USE DEF bufVars
<1>1. /\ pc \in [Procs -> Pcs] /\ pc[p] = "clear_head" /\ boot' = boot /\ boot = "up" /\ Up
      /\ pc' = [pc EXCEPT ![p] = "finish"]
      /\ lh \in Seq(Blocks) /\ lh' = << >> /\ head' = << >>
      /\ cache' = cache /\ disk' = disk /\ pins' = pins /\ logData' = logData
      /\ outstanding' = outstanding /\ committing' = committing
      /\ InLog(Len(lh)) /\ AtHome(Len(lh))
  BY ZenonT(30) DEF LogInv, ClearHead, TypeOK, Up, PhaseInv
<1>2. \A q \in Procs : q # p => pc[q] \notin CommitPcs /\ pc'[q] = pc[q]
  BY ZenonT(30), <1>1, OnlyCommitter DEF CommitPcs
<1>3. Active' = Active
  BY ZenonT(30), <1>1 DEF Active
<1>4. CommitterInv'
  BY <1>1, <1>2, <1>3, OnlyCommitter DEF LogInv, CommitterInv, CommitPcs
<1>5. HeaderInv'
  <2>1. lh' = << >> /\ head' = << >>
    BY ZenonT(30), <1>1
  <2> QED
    BY <2>1 DEF HeaderInv
<1>6. PinInv'
  <2>1. ASSUME NEW i \in DOMAIN lh
        PROVE  pins[lh[i]] = 0 /\ cache[lh[i]] = disk[lh[i]]
    <3>1. pc[p] = "clear_head" /\ Up /\ PinInv /\ InLog(Len(lh)) /\ AtHome(Len(lh))
      BY ZenonT(30), <1>1 DEF LogInv
    <3>2. pins[lh[i]] = 0
      <4>1. Installed(i)
        BY ZenonT(30), <3>1 DEF Installed
      <4> QED
        BY ZenonT(30), <3>1, <4>1 DEF PinInv
    <3>3. i \in 1..Len(lh)
      <4>1. lh \in Seq(Blocks)
        BY ZenonT(30), <1>1
      <4> QED
        BY <4>1
    <3> QED
      BY ZenonT(30), <3>1, <3>2, <3>3 DEF InLog, AtHome
  <2>2. ASSUME NEW b \in Blocks
        PROVE  cache[b] = disk[b] /\ pins[b] = 0
    <3>1. PinInv /\ Up
      BY ZenonT(30), <1>1 DEF LogInv
    <3> QED
      BY ZenonT(30), <2>1, <3>1 DEF PinInv, Logged
  <2>3. DOMAIN lh' = {} /\ UNCHANGED <<cache, disk, pins>>
    <3>1. lh' = << >>
      BY ZenonT(30), <1>1
    <3>2. DOMAIN << >> = {}
      OBVIOUS
    <3> QED
      BY ZenonT(30), <1>1, <3>1, <3>2
  <2> QED
    BY ZenonT(30), <2>2, <2>3 DEF PinInv
<1>7. PhaseInv'
  BY <1>1, <1>2 DEF PhaseInv, CommitPcs
<1>8. boot' = "up" /\ committing'
  BY <1>1, OnlyCommitter DEF CommitPcs
<1> QED
  BY <1>4, <1>5, <1>6, <1>7, <1>8, CommitKeeps DEF LogInv

LEMMA FinishCommitInv ==
  ASSUME LogInv, TypeOK', NEW p \in Procs, FinishCommit(p)
  PROVE  LogInv'
<1> USE DEF diskVars, bufVars
<1>1. /\ pc \in [Procs -> Pcs] /\ pc[p] = "finish" /\ boot' = boot /\ boot = "up" /\ Up
      /\ lh = << >> /\ lh' = lh /\ committing' = FALSE
  BY DEF LogInv, FinishCommit, TypeOK, Up, PhaseInv
<1>2. \A q \in Procs : q # p => pc[q] \notin CommitPcs
  BY <1>1, OnlyCommitter DEF CommitPcs
<1>3. pc'[p] = "idle" /\ \A q \in Procs :
        /\ pc'[q] # "sleeping"
        /\ q # p => (pc'[q] = pc[q] \/ (pc[q] = "sleeping" /\ pc'[q] = "begin_op"))
  BY ZenonT(30), <1>1 DEF FinishCommit, Wakeup
<1>4. \A q \in Procs : pc'[q] \notin CommitPcs
  BY ZenonT(30), <1>2, <1>3 DEF CommitPcs
<1>5. Active' = Active
  BY ZenonT(30), <1>1, <1>3 DEF Active
<1>6. CommitterInv'
  BY <1>1, <1>4, <1>5, OnlyCommitter DEF LogInv, FinishCommit, CommitterInv, CommitPcs
<1>7. HeaderInv'
  BY ZenonT(30), <1>1, <1>2, <1>4 DEF LogInv, FinishCommit, HeaderInv, CommitPcs
<1>8. PinInv'
  <2>1. DOMAIN lh = {} /\ UNCHANGED <<cache, pins, disk, lh>>
    BY <1>1 DEF FinishCommit
  <2>2. \A b : ~Logged(b) /\ ~Logged(b)'
    BY ZenonT(30), <2>1 DEF Logged
  <2>3. \A b \in Blocks : cache[b] = disk[b] /\ pins[b] = 0
    BY <1>1, <2>2 DEF LogInv, PinInv
  <2> QED
    BY ZenonT(30), <2>1, <2>3 DEF PinInv
<1>9. PhaseInv'
  BY ZenonT(30), <1>4 DEF PhaseInv, CommitPcs
<1>10. BootInv' /\ SleepInv'
  BY ZenonT(30), <1>1, <1>3 DEF BootInv, SleepInv
<1> QED
  BY ZenonT(30), <1>6, <1>7, <1>8, <1>9, <1>10 DEF LogInv

LEMMA LogWriteInv ==
  ASSUME Counting, LogInv, TypeOK', NEW p \in Procs, NEW b \in Blocks, NEW v \in Vals,
         LogWrite(p, b, v)
  PROVE  LogInv'
<1> USE DEF diskVars
<1>1. /\ pc \in [Procs -> Pcs] /\ pc[p] = "inop" /\ boot' = boot /\ boot = "up" /\ Up
      /\ lh \in Seq(Blocks) /\ pins \in [Blocks -> Nat] /\ cache \in [Blocks -> Vals]
      /\ cache' = [cache EXCEPT ![b] = v]
      /\ disk' = disk /\ head' = head /\ logData' = logData
      /\ outstanding' = outstanding /\ committing' = committing
  BY ZenonT(30) DEF LogInv, LogWrite, TypeOK, Up
<1>2. p \in Active /\ outstanding # 0 /\ outstanding \in Nat
  <2>1. p \in Active
    BY ZenonT(30), <1>1 DEF Active
  <2> QED
    BY ZenonT(30), <2>1, ActiveCount DEF LogInv, CommitterInv
<1>3. ~committing /\ \A q \in Procs : pc[q] \notin CommitPcs
  BY ZenonT(30), <1>2 DEF LogInv, CommitterInv
<1>4. /\ pc'[p] \in {"inop", "panic"}
      /\ \A q \in Procs : q # p => pc'[q] = pc[q]
      /\ \A q \in Procs : pc'[q] \notin CommitPcs
  BY ZenonT(30), <1>1, <1>3 DEF LogWrite, CommitPcs
<1>5. CommitterInv'
  <2>1. Active' = Active
    BY ZenonT(30), <1>1, <1>4 DEF Active
  <2> QED
    BY ZenonT(30), <1>1, <1>2, <1>3, <1>4, <2>1 DEF LogInv, CommitterInv
<1>6. PhaseInv' /\ BootInv' /\ SleepInv'
  BY <1>1, <1>2, <1>4 DEF PhaseInv, BootInv, SleepInv, CommitPcs
<1>7. head = << >>
  BY ZenonT(30), <1>1, <1>3 DEF LogInv, HeaderInv, CommitPcs
<1>8. \A i : ~Installed(i) /\ ~Installed(i)'
  BY ZenonT(30), <1>3, <1>4 DEF Installed, CommitPcs
<1>9. \A i \in DOMAIN lh : pins[lh[i]] = 1
  BY ZenonT(30), <1>1, <1>8 DEF LogInv, PinInv
<1>10. \/ ~TooBig /\ ~Logged(b) /\ lh' = Append(lh, b)
          /\ pins' = [pins EXCEPT ![b] = @ + 1]
       \/ TooBig /\ lh' = lh /\ pins' = pins /\ pc'[p] = "panic"
       \/ Logged(b) /\ lh' = lh /\ pins' = pins
  BY <1>1, <1>2 DEF LogWrite
<1>11. CASE Logged(b) /\ lh' = lh /\ pins' = pins
  <2>1. HeaderInv'
    BY <1>1, <1>3, <1>7, <1>11 DEF LogInv, HeaderInv
  <2>2. PinInv'
    BY ZenonT(30), <1>1, <1>8, <1>9, <1>11 DEF LogInv, PinInv, Logged
  <2> QED
    BY ZenonT(30), <1>5, <1>6, <2>1, <2>2 DEF LogInv
<1>12. CASE /\ ~TooBig /\ ~Logged(b) /\ lh' = Append(lh, b)
            /\ pins' = [pins EXCEPT ![b] = @ + 1]
  <2>1. HeaderInv'
    <3>1. /\ lh \in Seq(Blocks) /\ lh' = Append(lh, b) /\ head' = << >>
          /\ \A i \in DOMAIN lh : lh[i] # b
          /\ HeaderInv /\ ~TooBig
      BY ZenonT(30), <1>1, <1>7, <1>12 DEF LogInv, Logged
    <3> QED
      BY <3>1 DEF HeaderInv, TooBig
  <2>2. pins[b] = 0
    <3>1. Up /\ ~Logged(b)
      BY ZenonT(30), <1>1, <1>12
    <3> QED
      BY <3>1 DEF LogInv, PinInv
  <2>3. /\ DOMAIN lh' = 1..Len(lh) + 1 /\ lh'[Len(lh) + 1] = b
        /\ \A i \in 1..Len(lh) : lh'[i] = lh[i] /\ lh[i] # b /\ lh[i] \in Blocks
    <3>1. lh \in Seq(Blocks) /\ lh' = Append(lh, b) /\ \A i \in DOMAIN lh : lh[i] # b
      BY ZenonT(30), <1>1, <1>12 DEF Logged
    <3> QED
      BY <3>1, AppendFacts
  <2>4. \A i \in DOMAIN lh' : pins'[lh'[i]] = 1
    BY <1>1, <1>9, <1>12, <2>2, <2>3
  <2>5. \A c \in Blocks : ~Logged(c)' => c # b /\ ~Logged(c)
    <3>1. SUFFICES ASSUME NEW c \in Blocks, c = b \/ Logged(c) PROVE Logged(c)'
      OBVIOUS
    <3>2. CASE c = b
      <4>1. Len(lh) + 1 \in DOMAIN lh'
        BY <1>1, <2>3
      <4> QED
        BY ZenonT(30), <2>3, <3>2, <4>1 DEF Logged
    <3>3. CASE Logged(c)
      <4>1. PICK i \in DOMAIN lh : lh[i] = c
        BY <3>3 DEF Logged
      <4>2. i \in 1..Len(lh) /\ Len(lh) \in Nat
        BY <1>1, <4>1
      <4>3. i \in 1..Len(lh) + 1
        BY <4>2
      <4>4. i \in DOMAIN lh' /\ lh'[i] = c
        BY <2>3, <4>1, <4>2, <4>3
      <4> QED
        BY <4>4 DEF Logged
    <3> QED
      BY <3>1, <3>2, <3>3
  <2>6. PinInv'
    BY ZenonT(30), <1>1, <1>8, <1>12, <2>4, <2>5 DEF LogInv, PinInv
  <2> QED
    BY <1>5, <1>6, <2>1, <2>6 DEF LogInv
<1>13. CASE TooBig /\ lh' = lh /\ pins' = pins /\ pc'[p] = "panic"
  <2>1. HeaderInv'
    BY ZenonT(30), <1>1, <1>3, <1>7, <1>13 DEF LogInv, HeaderInv
  <2>2. PinInv'
    BY <1>13 DEF PinInv, Up
  <2> QED
    BY <1>5, <1>6, <2>1, <2>2 DEF LogInv
<1> QED
  BY ZenonT(30), <1>10, <1>11, <1>12, <1>13

LEMMA EvictInv ==
  ASSUME LogInv, TypeOK', NEW b \in Blocks, Evict(b)
  PROVE  LogInv' /\ cache' = cache
<1> USE DEF diskVars, logVars
<1>1. cache[b] = disk[b]
  <2>1. CASE Logged(b)
    <3>1. PICK i \in DOMAIN lh : lh[i] = b
      BY ZenonT(30), <2>1 DEF Logged
    <3>2. Installed(i)
      BY <3>1 DEF LogInv, Evict, PinInv
    <3> QED
      BY <3>1, <3>2, InstalledFacts
  <2>2. CASE ~Logged(b)
    BY ZenonT(30), <2>2 DEF LogInv, Evict, PinInv
  <2> QED
    BY ZenonT(30), <2>1, <2>2
<1>2. cache' = cache
  BY <1>1 DEF Evict, TypeOK
<1>3. CommitterInv'
  BY ZenonT(30) DEF LogInv, Evict, CommitterInv, Active
<1>4. HeaderInv'
  BY ZenonT(30) DEF LogInv, Evict, HeaderInv
<1>5. PinInv'
  <2>1. PinInv /\ UNCHANGED <<cache, disk, pins, lh, tail, pc, boot>>
    BY ZenonT(30), <1>2 DEF LogInv, Evict
  <2> QED
    BY <2>1 DEF PinInv, Logged, Installed, Up
<1>6. PhaseInv'
  BY <1>2 DEF LogInv, Evict, PhaseInv, InLog, AtHome
<1>7. BootInv' /\ SleepInv'
  BY <1>2 DEF LogInv, Evict, Up, BootInv, SleepInv
<1> QED
  BY ZenonT(30), <1>2, <1>3, <1>4, <1>5, <1>6, <1>7 DEF LogInv

LEMMA RecoverInv ==
  ASSUME Counting, LogInv, TypeOK', Recover
  PROVE  LogInv'
<1> USE DEF diskVars, bufVars, logVars
<1>1. boot # "up" /\ pc' = pc /\ outstanding' = outstanding /\ committing' = committing
  BY ZenonT(30) DEF Recover, ReadHead, RecoverInstall, RecoverClear
<1>2. ~Up /\ (\A p \in Procs : pc[p] = "idle") /\ cache = disk /\ pins = [b \in Blocks |-> 0]
  BY ZenonT(30), <1>1 DEF LogInv, Up, CommitterInv, BootInv
<1>3. PhaseInv' /\ SleepInv'
  BY <1>1, <1>2 DEF PhaseInv, SleepInv
<1>4. Active' = Active /\ Active = {} /\ outstanding' = 0 /\ ~committing
  BY ZenonT(30), <1>1, <1>2, ActiveCount DEF LogInv, Active, CommitterInv, CommitPcs
<1>5. CASE ReadHead
  <2>1. lh' = head /\ head' = head /\ boot' # "up" /\ tail' = 0
    BY ZenonT(30), <1>1, <1>5 DEF LogInv, ReadHead, BootInv
  <2>2. CommitterInv'
    BY ZenonT(30), <1>1, <1>2, <1>4, <2>1 DEF LogInv, CommitterInv
  <2>3. HeaderInv'
    BY ZenonT(30), <2>1 DEF LogInv, HeaderInv
  <2>4. BootInv'
    BY <1>2, <1>5, <2>1 DEF ReadHead, BootInv, AtHome, TypeOK
  <2> QED
    BY ZenonT(30), <1>3, <2>1, <2>2, <2>3, <2>4 DEF LogInv, PinInv, Up
<1>6. CASE RecoverInstall
  <2>1. /\ lh = head /\ lh' = lh /\ head' = head /\ logData' = logData
        /\ boot' # "up" /\ pins' = pins /\ lh \in Seq(Blocks)
        /\ tail \in Nat /\ tail < Len(lh) /\ AtHome(tail)
    BY ZenonT(30), <1>6 DEF LogInv, RecoverInstall, BootInv, TypeOK
  <2>2. /\ disk' = [disk EXCEPT ![lh[tail + 1]] = logData[tail + 1]]
        /\ disk \in [Blocks -> Vals] /\ cache' = disk'
    BY <1>2, <1>6 DEF LogInv, RecoverInstall, Install, TypeOK
  <2>3. CommitterInv'
    BY ZenonT(30), <1>1, <1>2, <1>4, <2>1 DEF LogInv, CommitterInv
  <2>4. HeaderInv'
    BY <2>1 DEF LogInv, HeaderInv
  <2>5. \A i \in 1..tail + 1 : disk'[lh[i]] = logData[i]
    <3>1. \A i \in 1..tail : lh[i] # lh[tail + 1] /\ lh[i] \in Blocks
      BY <2>1 DEF LogInv, HeaderInv
    <3> QED
      BY <2>1, <2>2, <3>1 DEF AtHome
  <2>6. \/ tail + 1 < Len(lh) /\ tail' = tail + 1 /\ boot' = "install_trans"
        \/ tail + 1 = Len(lh) /\ tail' = 0 /\ boot' = "clear_head"
    BY <1>6, <2>1 DEF RecoverInstall
  <2>7. BootInv'
    BY ZenonT(30), <1>2, <2>1, <2>2, <2>5, <2>6 DEF BootInv, AtHome
  <2> QED
    BY ZenonT(30), <1>3, <2>1, <2>3, <2>4, <2>7 DEF LogInv, PinInv, Up
<1>7. CASE RecoverClear
  <2>1. lh' = << >> /\ head' = << >> /\ boot' = "up" /\ cache' = disk' /\ pins' = pins
    BY ZenonT(30), <1>2, <1>7 DEF RecoverClear
  <2>2. CommitterInv'
    BY ZenonT(30), <1>1, <1>2, <1>4, <2>1 DEF LogInv, CommitterInv, CommitPcs
  <2>3. HeaderInv'
    BY <2>1 DEF HeaderInv
  <2>4. PinInv'
    BY <1>2, <2>1 DEF PinInv
  <2> QED
    BY ZenonT(30), <1>3, <2>1, <2>2, <2>3, <2>4 DEF LogInv, BootInv
<1> QED
  BY ZenonT(30), <1>5, <1>6, <1>7 DEF Recover

LEMMA CrashInv ==
  ASSUME Counting, LogInv, TypeOK', Crash
  PROVE  LogInv'
<1> USE DEF diskVars
<1>1. boot' = "read_head" /\ \A p \in Procs : pc'[p] = "idle"
  BY DEF Crash
<1>2. Active' = {}
  BY ZenonT(30), <1>1 DEF Active
<1>3. CommitterInv'
  BY ZenonT(30), <1>1, <1>2, Counting DEF Counting, Crash, CommitterInv, CommitPcs
<1>4. HeaderInv'
  BY <1>1 DEF LogInv, Crash, HeaderInv
<1>5. PinInv' /\ PhaseInv' /\ SleepInv'
  BY ZenonT(30), <1>1 DEF PinInv, PhaseInv, SleepInv, Up
<1>6. BootInv'
  BY <1>1 DEF Crash, BootInv
<1> QED
  BY ZenonT(30), <1>3, <1>4, <1>5, <1>6 DEF LogInv

-----------------------------------------------------------------------------
\* One element less, one less in the cardinality.
LEMMA RemoveOne ==
  ASSUME NEW S, NEW x, IsFiniteSet(S), x \in S
  PROVE  IsFiniteSet(S \ {x}) /\ Cardinality(S \ {x}) = Cardinality(S) - 1
BY ZenonT(30), FS_RemoveElement

LEMMA CountingHolds == Counting
<1>1. Cardinality({}) = 0
  BY FS_EmptySet
<1>2. ASSUME NEW S \in SUBSET Procs
      PROVE  IsFiniteSet(S) /\ Cardinality(S) \in Nat /\ (Cardinality(S) = 0 => S = {})
  BY FS_Subset, FS_CardinalityType, FS_EmptySet
<1>3. ASSUME NEW S \in SUBSET Procs, NEW p \in Procs
      PROVE  /\ p \notin S => Cardinality(S \cup {p}) = Cardinality(S) + 1
             /\ p \in S => Cardinality(S \ {p}) = Cardinality(S) - 1
  <2>1. IsFiniteSet(S)
    BY <1>2
  <2>2. p \notin S => Cardinality(S \cup {p}) = Cardinality(S) + 1
    BY ZenonT(30), <2>1, FS_AddElement
  <2>3. p \in S => Cardinality(S \ {p}) = Cardinality(S) - 1
    BY ZenonT(30), <2>1, FS_RemoveElement
  <2> QED
    BY <2>2, <2>3
<1> QED
  BY <1>1, <1>2, <1>3 DEF Counting

LEMMA EmptySeq == ASSUME NEW S PROVE << >> \in Seq(S)
OBVIOUS

LEMMA InitInv == ASSUME Counting PROVE Init => LogInv
<1> SUFFICES ASSUME Init PROVE LogInv
  OBVIOUS
<1>1. TypeOK
  <2>1. wrote \in [Procs -> SUBSET Blocks]
    BY DEF Init
  <2> QED
    BY ZenonT(30), <2>1, EmptySeq DEF Init, TypeOK, Pcs
<1>2. CommitterInv
  <2>1. Active = {}
    BY DEF Init, Active
  <2>2. outstanding = Cardinality(Active)
    BY <2>1 DEF Init, Counting
  <2> QED
    BY <2>2 DEF Init, CommitterInv, CommitPcs
<1>3. HeaderInv
  BY DEF Init, HeaderInv
<1>4. PinInv /\ PhaseInv /\ BootInv /\ SleepInv
  BY DEF Init, PinInv, PhaseInv, BootInv, SleepInv
<1> QED
  BY <1>1, <1>2, <1>3, <1>4 DEF LogInv

-----------------------------------------------------------------------------
LEMMA TypeStep == ASSUME Counting PROVE LogInv /\ [Next]_vars => TypeOK'
<1> SUFFICES ASSUME LogInv, [Next]_vars PROVE TypeOK'
  OBVIOUS
<1> USE DEF TypeOK, diskVars, bufVars, logVars, Pcs, CommitPcs
<1>0. TypeOK
  BY DEF LogInv
<1>1. ASSUME NEW p \in Procs, BeginOp(p) PROVE TypeOK'
  BY <1>0, <1>1 DEF BeginOp
<1>2. ASSUME NEW p \in Procs, BeginSleep(p) PROVE TypeOK'
  BY <1>0, <1>2 DEF BeginSleep
<1>3. ASSUME NEW p \in Procs, EndOp(p) PROVE TypeOK'
  <2>1. outstanding' \in Nat
    <3>1. p \in Active
      BY <1>0, <1>3 DEF EndOp, Active
    <3>2. Active # {}
      BY <3>1
    <3>3. Cardinality(Active) \in Nat /\ Cardinality(Active) # 0
      BY ZenonT(30), <3>2, ActiveCount
    <3> QED
      BY <1>3, <3>3 DEF EndOp, LogInv, CommitterInv
  <2> QED
    BY ZenonT(30), <1>0, <1>3, <2>1 DEF EndOp, Wakeup
<1>4. ASSUME NEW p \in Procs, WriteLog(p) PROVE TypeOK'
  <2>1. tail < Len(lh) /\ Len(lh) <= NLOG - 1
    BY ZenonT(30), <1>4 DEF WriteLog, LogInv, PhaseInv, HeaderInv
  <2>2. lh[tail + 1] \in Blocks
    BY <1>0, <2>1
  <2>3. logData' \in [1..NLOG-1 -> Vals]
    BY ZenonT(30), <1>0, <1>4, <2>2 DEF WriteLog
  <2>4. pc' \in [Procs -> Pcs] /\ tail' \in Nat
    <3>1. CASE tail + 1 < Len(lh)
      BY <1>0, <1>4, <3>1 DEF WriteLog
    <3>2. CASE tail' = 0 /\ pc' = [pc EXCEPT ![p] = "write_head"]
      BY ZenonT(30), <1>0, <3>2
    <3> QED
      BY ZenonT(30), <1>4, <3>1, <3>2 DEF WriteLog
  <2> QED
    BY ZenonT(30), <1>0, <1>4, <2>3, <2>4 DEF WriteLog
<1>5. ASSUME NEW p \in Procs, WriteHead(p) PROVE TypeOK'
  BY ZenonT(30), <1>0, <1>5 DEF WriteHead
<1>6. ASSUME NEW p \in Procs, InstallTrans(p) PROVE TypeOK'
  <2>1. tail < Len(lh) /\ Len(lh) <= NLOG - 1
    BY ZenonT(30), <1>6 DEF InstallTrans, LogInv, PhaseInv, HeaderInv
  <2>2. lh[tail + 1] \in Blocks /\ logData[tail + 1] \in Vals
    BY <1>0, <2>1
  <2>3. pins[lh[tail + 1]] = 1
    <3>1. ~Installed(tail + 1)
      BY <1>0, <1>6 DEF Installed, InstallTrans, LogInv, CommitterInv
    <3> QED
      BY <1>0, <1>6, <2>1, <3>1 DEF InstallTrans, Up, LogInv, PinInv
  <2>4. disk' \in [Blocks -> Vals] /\ cache' \in [Blocks -> Vals]
    BY ZenonT(30), <1>0, <1>6, <2>2 DEF InstallTrans, Install
  <2>5. pins' \in [Blocks -> Nat]
    BY <1>0, <1>6, <2>2, <2>3 DEF InstallTrans
  <2>6. pc' \in [Procs -> Pcs] /\ tail' \in Nat
    <3>1. CASE tail + 1 < Len(lh)
      BY <1>0, <1>6, <3>1 DEF InstallTrans
    <3>2. CASE tail' = 0 /\ pc' = [pc EXCEPT ![p] = "clear_head"]
      BY ZenonT(30), <1>0, <3>2
    <3> QED
      BY ZenonT(30), <1>6, <3>1, <3>2 DEF InstallTrans
  <2> QED
    BY ZenonT(30), <1>0, <1>6, <2>4, <2>5, <2>6 DEF InstallTrans
<1>7. ASSUME NEW p \in Procs, ClearHead(p) PROVE TypeOK'
  BY <1>0, <1>7 DEF ClearHead
<1>8. ASSUME NEW p \in Procs, FinishCommit(p) PROVE TypeOK'
  BY ZenonT(30), <1>0, <1>8 DEF FinishCommit, Wakeup
<1>9. ASSUME NEW p \in Procs, NEW b \in Blocks, NEW v \in Vals, LogWrite(p, b, v)
      PROVE TypeOK'
  <2>1. wrote' \in [Procs -> SUBSET Blocks] /\ cache' \in [Blocks -> Vals]
    BY ZenonT(30), <1>0, <1>9 DEF LogWrite
  <2>2. lh' \in Seq(Blocks) /\ pins' \in [Blocks -> Nat]
    <3>1. CASE UNCHANGED <<lh, pins>>
      BY ZenonT(30), <1>0, <3>1
    <3>2. CASE lh' = Append(lh, b) /\ pins' = [pins EXCEPT ![b] = @ + 1]
      BY <1>0, <3>2
    <3> QED
      BY ZenonT(30), <1>9, <3>1, <3>2 DEF LogWrite
  <2>3. pc' \in [Procs -> Pcs]
    BY ZenonT(30), <1>0, <1>9 DEF LogWrite
  <2> QED
    BY ZenonT(30), <1>0, <1>9, <2>1, <2>2, <2>3 DEF LogWrite
<1>10. ASSUME NEW b \in Blocks, Evict(b) PROVE TypeOK'
  BY ZenonT(30), <1>0, <1>10 DEF Evict
<1>11. CASE ReadHead
  BY ZenonT(30), <1>0, <1>11 DEF ReadHead
<1>12. CASE RecoverInstall
  <2>1. tail < Len(lh) /\ Len(lh) <= NLOG - 1
    BY ZenonT(30), <1>12 DEF RecoverInstall, LogInv, BootInv, HeaderInv
  <2>2. lh[tail + 1] \in Blocks /\ logData[tail + 1] \in Vals
    BY <1>0, <2>1
  <2> QED
    BY <1>0, <1>12, <2>1, <2>2 DEF RecoverInstall, Install
<1>13. CASE RecoverClear
  BY <1>0, <1>13 DEF RecoverClear
<1>14. CASE Crash
  <2>1. pins' \in [Blocks -> Nat] /\ pc' \in [Procs -> Pcs]
    BY ZenonT(30), <1>14 DEF Crash
  <2>2. wrote' \in [Procs -> SUBSET Blocks]
    BY ZenonT(30), <1>14 DEF Crash
  <2> QED
    BY ZenonT(30), <1>0, <1>14, <2>1, <2>2, EmptySeq DEF Crash
<1>15. CASE UNCHANGED vars
  BY ZenonT(30), <1>0, <1>15 DEF vars
<1> QED
  BY ZenonT(30), <1>1, <1>2, <1>3, <1>4, <1>5, <1>6, <1>7, <1>8, <1>9, <1>10, <1>11, <1>12,
     <1>13, <1>14, <1>15 DEF Next, CommitStep, Recover

-----------------------------------------------------------------------------
LEMMA StutterInv ==
  ASSUME LogInv, UNCHANGED vars
  PROVE  LogInv'
<1> USE DEF vars, diskVars, bufVars, logVars
<1>1. TypeOK' /\ HeaderInv' /\ SleepInv'
  BY ZenonT(30) DEF LogInv, TypeOK, HeaderInv, SleepInv
<1>2. CommitterInv'
  BY DEF LogInv, CommitterInv, Active
<1>3. PinInv'
  BY DEF LogInv, PinInv, Logged, Installed, Up
<1>4. PhaseInv'
  BY ZenonT(30) DEF LogInv, PhaseInv, InLog, AtHome
<1>5. BootInv'
  BY DEF LogInv, BootInv, AtHome
<1> QED
  BY ZenonT(30), <1>1, <1>2, <1>3, <1>4, <1>5 DEF LogInv

LEMMA NextInv == ASSUME Counting PROVE LogInv /\ [Next]_vars => LogInv'
<1> SUFFICES ASSUME LogInv, [Next]_vars PROVE LogInv'
  OBVIOUS
<1>1. TypeOK'
  BY ZenonT(30), TypeStep
<1>2. CASE UNCHANGED vars
  BY ZenonT(30), <1>2, StutterInv
<1>3. ASSUME NEW p \in Procs, CommitStep(p) PROVE LogInv'
  BY ZenonT(30), <1>1, <1>3, WriteLogInv, WriteHeadInv, InstallTransInv, ClearHeadInv,
     FinishCommitInv DEF CommitStep
<1> QED
  BY ZenonT(30), <1>1, <1>2, <1>3, BeginOpInv, BeginSleepInv, EndOpInv, LogWriteInv, EvictInv,
     RecoverInv, CrashInv DEF Next

\* log.c, every interleaving and every crash: the in-memory header, the pins,
\* the on-disk log and the home blocks agree as LogInv says.
THEOREM LogInvariant == Spec => []LogInv
<1>1. Init => LogInv
  BY CountingHolds, InitInv
<1>2. LogInv /\ [Next]_vars => LogInv'
  BY CountingHolds, NextInv
<1> QED
  BY <1>1, <1>2, PTL DEF Spec

-----------------------------------------------------------------------------
\* begin_op()/end_op(): a process asleep in begin_op() always has a call or a
\* commit in progress that will wake it.
THEOREM NoLostWakeupThm == Spec => []NoLostWakeup
<1>1. LogInv => NoLostWakeup
  <2> SUFFICES ASSUME LogInv, NEW p \in Procs, pc[p] = "sleeping"
               PROVE  \E q \in Procs : pc[q] \in {"inop", "panic"} \cup CommitPcs
    BY ZenonT(30) DEF NoLostWakeup
  <2>1. CASE committing
    BY ZenonT(30), <2>1 DEF LogInv, CommitterInv
  <2>2. CASE outstanding > 0
    <3>1. Active # {}
      <4>1. Cardinality(Active) # 0
        BY <2>2 DEF LogInv, CommitterInv
      <4> QED
        BY ZenonT(30), <4>1, CountingHolds, ActiveCount
    <3> QED
      BY <3>1 DEF Active
  <2> QED
    BY ZenonT(30), <2>1, <2>2 DEF LogInv, SleepInv
<1> QED
  BY <1>1, LogInvariant, PTL

\* end_op() of the last call: once the log is quiet, a crash loses nothing.
THEOREM QuietIsDurableThm == Spec => []QuietIsDurable
<1>1. LogInv => QuietIsDurable
  <2> SUFFICES ASSUME LogInv, boot = "up", outstanding = 0, ~committing
               PROVE  Recovered = cache
    BY ZenonT(30) DEF QuietIsDurable
  <2>1. lh = << >> /\ head = << >>
    BY DEF LogInv, CommitterInv, HeaderInv, CommitPcs
  <2>2. Up
    <3>1. Active = {}
      BY ZenonT(30), CountingHolds, ActiveCount DEF LogInv, CommitterInv
    <3> QED
      BY <3>1 DEF Up, Active
  <2>3. \A b \in Blocks : cache[b] = disk[b]
    BY <2>1, <2>2 DEF LogInv, PinInv, Logged
  <2> QED
    BY <2>1, <2>3 DEF Recovered, Replay, LogInv, TypeOK
<1> QED
  BY <1>1, LogInvariant, PTL

-----------------------------------------------------------------------------
\* Replaying a header that names each block once.
LEMMA ReplayAt ==
  ASSUME NEW h, NEW ld, NEW d, NEW i \in DOMAIN h, h[i] \in Blocks,
         \A j \in DOMAIN h : h[j] = h[i] => j = i
  PROVE  Replay(h, ld, d)[h[i]] = ld[i]
<1>1. (CHOOSE j \in DOMAIN h : h[j] = h[i]) = i
  OBVIOUS
<1> QED
  BY <1>1 DEF Replay

LEMMA ReplayElse ==
  ASSUME NEW h, NEW ld, NEW d, NEW b \in Blocks, \A i \in DOMAIN h : h[i] # b
  PROVE  Replay(h, ld, d)[b] = d[b]
BY ZenonT(30) DEF Replay

LEMMA RecoveredTyped ==
  ASSUME TypeOK, HeaderInv
  PROVE  Recovered \in [Blocks -> Vals]
<1>1. \A i \in DOMAIN head : logData[i] \in Vals
  BY DEF TypeOK, HeaderInv
<1> QED
  BY ZenonT(30), <1>1 DEF Recovered, Replay, TypeOK

\* Once every logged block is at home, erasing the header changes nothing.
LEMMA RecoveredHome ==
  ASSUME TypeOK, HeaderInv, lh = head, AtHome(Len(lh))
  PROVE  Recovered = disk
<1>1. ASSUME NEW b \in Blocks PROVE Recovered[b] = disk[b]
  <2>1. CASE \A i \in DOMAIN head : head[i] # b
    BY <2>1, ReplayElse DEF Recovered
  <2>2. ASSUME NEW i \in DOMAIN head, head[i] = b PROVE Recovered[b] = disk[b]
    <3>1. i \in 1..Len(lh)
      BY DEF TypeOK
    <3>2. Recovered[head[i]] = logData[i]
      BY <2>2, ReplayAt DEF Recovered, HeaderInv
    <3> QED
      BY ZenonT(30), <2>2, <3>1, <3>2 DEF AtHome
  <2> QED
    BY ZenonT(30), <2>1, <2>2
<1> QED
  BY ZenonT(30), <1>1 DEF Recovered, Replay, TypeOK

\* Installing a logged block does not change what recovery would restore.
LEMMA RecoveredInstall ==
  ASSUME LogInv, Install, lh = head, head' = head, logData' = logData,
         tail < Len(lh), tail \in Nat
  PROVE  Recovered' = Recovered
<1>1. /\ disk' = [disk EXCEPT ![lh[tail + 1]] = logData[tail + 1]]
      /\ disk \in [Blocks -> Vals] /\ tail + 1 \in DOMAIN head
  BY DEF Install, LogInv, TypeOK
<1>2. \A b \in Blocks : (\A i \in DOMAIN head : head[i] # b) => disk'[b] = disk[b]
  BY ZenonT(30), <1>1
<1> QED
  BY ZenonT(30), <1>2 DEF Recovered, Replay

LEMMA InitRefines == Init => Abstract!Init
<1> SUFFICES ASSUME Init PROVE Abstract!Init
  OBVIOUS
<1>1. LogInv
  BY CountingHolds, InitInv
<1>2. Recovered \in [Blocks -> Vals]
  BY ZenonT(30), <1>1, RecoveredTyped DEF LogInv
<1>3. Active = {}
  BY DEF Init, Active
<1> QED
  BY ZenonT(30), <1>2, <1>3 DEF Init, Abstract!Init

LEMMA RecoveredSame == ASSUME UNCHANGED diskVars PROVE Recovered' = Recovered
BY DEF Recovered, diskVars

\* A step that moves p between program counters outside its call.
LEMMA ActiveKept ==
  ASSUME pc \in [Procs -> Pcs], NEW p \in Procs, NEW s, pc' = [pc EXCEPT ![p] = s],
         p \notin Active, s # "inop", s # "panic"
  PROVE  Active' = Active
<1>1. pc'[p] = s /\ \A q \in Procs : q # p => pc'[q] = pc[q]
  OBVIOUS
<1>2. \A q \in Procs : pc'[q] \in {"inop", "panic"} <=> pc[q] \in {"inop", "panic"}
  BY ZenonT(30), <1>1 DEF Active
<1> QED
  BY ZenonT(30), <1>2 DEF Active

\* What TxDisk does not see.
LEMMA AbstractSame ==
  ASSUME Recovered' = Recovered, Active' = Active, boot' = boot, cache' = cache
  PROVE  UNCHANGED Abstract!vars
BY DEF Abstract!vars

\* Every step of Log is a step of TxDisk, or leaves TxDisk's variables alone.
LEMMA NextRefines ==
  LogInv /\ LogInv' /\ [Next]_vars => [Abstract!Next]_Abstract!vars
<1> SUFFICES ASSUME LogInv, LogInv', [Next]_vars
             PROVE  [Abstract!Next]_Abstract!vars
  OBVIOUS
<1>a. TypeOK /\ CommitterInv /\ HeaderInv /\ PinInv /\ PhaseInv /\ BootInv
  BY ZenonT(30) DEF LogInv
<1>b. /\ pc \in [Procs -> Pcs] /\ lh \in Seq(Blocks) /\ tail \in Nat
      /\ disk \in [Blocks -> Vals] /\ cache \in [Blocks -> Vals]
  BY ZenonT(30), <1>a DEF TypeOK
<1>c. TypeOK'
  BY DEF LogInv
<1>1. ASSUME NEW p \in Procs, BeginOp(p) PROVE Abstract!Begin(p)
  <2>1. /\ pc' = [pc EXCEPT ![p] = "inop"] /\ pc[p] \in {"idle", "begin_op"}
        /\ UNCHANGED diskVars /\ boot' = boot /\ cache' = cache
    BY ZenonT(30), <1>1 DEF BeginOp, bufVars
  <2>2. Active' = Active \cup {p} /\ p \notin Active
    BY ZenonT(30), <1>b, <2>1 DEF Active
  <2>3. Recovered' = Recovered
    BY ZenonT(30), <2>1, RecoveredSame
  <2> QED
    BY ZenonT(30), <2>1, <2>2, <2>3 DEF Abstract!Begin
<1>2. ASSUME NEW p \in Procs, BeginSleep(p) PROVE UNCHANGED Abstract!vars
  <2>1. /\ pc' = [pc EXCEPT ![p] = "sleeping"] /\ pc[p] \in {"idle", "begin_op"}
        /\ UNCHANGED diskVars /\ boot' = boot /\ cache' = cache
    BY <1>2 DEF BeginSleep, bufVars
  <2>2. Active' = Active
    <3>1. p \notin Active
      BY <2>1 DEF Active
    <3> QED
      BY ZenonT(30), <1>b, <2>1, <3>1, ActiveKept
  <2> QED
    BY ZenonT(30), <2>1, <2>2, RecoveredSame, AbstractSame
<1>3. ASSUME NEW p \in Procs, EndOp(p) PROVE Abstract!End(p)
  <2>1. p \in Active /\ UNCHANGED diskVars /\ boot' = boot /\ cache' = cache
    BY ZenonT(30), <1>3 DEF EndOp, Active, bufVars
  <2>2. ~committing
    <3>1. Cardinality(Active) # 0
      BY ZenonT(30), <2>1, CountingHolds, ActiveCount
    <3> QED
      BY ZenonT(30), <1>a, <3>1 DEF CommitterInv
  <2>3. /\ pc'[p] \in {"idle", "write_log", "finish"}
        /\ \A q \in Procs : q # p => \/ pc'[q] = pc[q]
                                     \/ pc[q] = "sleeping" /\ pc'[q] = "begin_op"
    BY ZenonT(30), <1>3, <1>b, <2>2 DEF EndOp, Wakeup
  <2>4. Active' = Active \ {p}
    BY ZenonT(30), <2>3 DEF Active
  <2>5. Recovered' = Recovered
    BY <2>1, RecoveredSame
  <2> QED
    BY ZenonT(30), <2>1, <2>4, <2>5 DEF Abstract!End
<1>4. ASSUME NEW p \in Procs, WriteLog(p) PROVE UNCHANGED Abstract!vars
  <2>1. /\ pc[p] = "write_log" /\ (pc' = pc \/ pc' = [pc EXCEPT ![p] = "write_head"])
        /\ disk' = disk /\ head' = head /\ boot' = boot /\ cache' = cache /\ boot = "up"
    BY ZenonT(30), <1>4 DEF WriteLog, bufVars, Up
  <2>2. Active' = Active
    BY ZenonT(30), <1>b, <2>1 DEF Active
  <2>3. \A q \in Procs : pc[q] \notin {"install_trans", "clear_head"}
    BY ZenonT(30), <1>4, OnlyCommitter DEF WriteLog, CommitPcs
  <2>4. head = << >>
    BY ZenonT(30), <1>a, <2>1, <2>3 DEF HeaderInv
  <2>5. Recovered = disk /\ Recovered' = disk
    BY <1>b, <2>1, <2>4 DEF Recovered, Replay
  <2> QED
    BY ZenonT(30), <2>1, <2>2, <2>5, AbstractSame
<1>5. ASSUME NEW p \in Procs, WriteHead(p) PROVE Abstract!Commit
  <2>1. /\ pc[p] = "write_head" /\ pc' = [pc EXCEPT ![p] = "install_trans"]
        /\ boot = "up" /\ boot' = boot /\ cache' = cache /\ head' = lh /\ Up
        /\ disk' = disk /\ logData' = logData
    BY ZenonT(30), <1>5 DEF WriteHead, Up, bufVars
  <2>2. InLog(Len(lh))
    BY ZenonT(30), <1>a, <2>1 DEF PhaseInv
  <2>3. Active' = Active
    <3>1. p \notin Active
      BY ZenonT(30), <2>1 DEF Active
    <3> QED
      BY ZenonT(30), <1>b, <2>1, <3>1, ActiveKept
  <2>4. Active = {}
    <3>1. committing
      BY <1>a, <2>1 DEF CommitterInv, CommitPcs
    <3>2. Cardinality(Active) = 0
      BY ZenonT(30), <1>a, <3>1 DEF CommitterInv
    <3> QED
      BY ZenonT(30), <3>2, CountingHolds, ActiveCount
  <2>5. ASSUME NEW b \in Blocks PROVE Replay(lh, logData, disk)[b] = cache[b]
    <3>1. ASSUME NEW i \in DOMAIN lh, lh[i] = b
          PROVE Replay(lh, logData, disk)[b] = cache[b]
      <4>1. i \in 1..Len(lh) /\ \A j \in DOMAIN lh : lh[j] = lh[i] => j = i
        BY <1>a, <1>b DEF HeaderInv
      <4>2. Replay(lh, logData, disk)[lh[i]] = logData[i]
        BY <3>1, <4>1, ReplayAt
      <4> QED
        BY ZenonT(30), <2>2, <3>1, <4>1, <4>2 DEF InLog
    <3>2. CASE \A i \in DOMAIN lh : lh[i] # b
      <4>1. cache[b] = disk[b]
        BY ZenonT(30), <1>a, <2>1, <3>2 DEF PinInv, Logged
      <4> QED
        BY <3>2, <4>1, ReplayElse
    <3> QED
      BY ZenonT(30), <3>1, <3>2
  <2>6. Replay(lh, logData, disk) = cache
    <3>1. Replay(lh, logData, disk) = [b \in Blocks |-> Replay(lh, logData, disk)[b]]
      BY DEF Replay
    <3> QED
      BY ZenonT(30), <1>b, <2>5, <3>1
  <2>7. Recovered' = cache
    BY ZenonT(30), <2>1, <2>6 DEF Recovered
  <2> QED
    BY ZenonT(30), <2>1, <2>3, <2>4, <2>7 DEF Abstract!Commit
<1>6. ASSUME NEW p \in Procs, InstallTrans(p) PROVE UNCHANGED Abstract!vars
  <2>1. /\ pc[p] = "install_trans" /\ (pc' = pc \/ pc' = [pc EXCEPT ![p] = "clear_head"])
        /\ boot' = boot /\ head' = head /\ logData' = logData /\ Install
    BY ZenonT(30), <1>6 DEF InstallTrans
  <2>2. head = lh /\ tail < Len(lh) /\ InLog(Len(lh))
    BY ZenonT(30), <1>a, <1>6 DEF InstallTrans, PhaseInv
  <2>3. Recovered' = Recovered
    BY ZenonT(30), <1>b, <2>1, <2>2, RecoveredInstall
  <2>4. cache' = cache
    <3>1. cache[lh[tail + 1]] = logData[tail + 1]
      BY <1>b, <2>2 DEF InLog
    <3> QED
      BY ZenonT(30), <1>b, <2>1, <3>1 DEF Install
  <2>5. Active' = Active
    BY ZenonT(30), <1>b, <2>1 DEF Active
  <2> QED
    BY ZenonT(30), <2>1, <2>3, <2>4, <2>5, AbstractSame
<1>7. ASSUME NEW p \in Procs, ClearHead(p) PROVE UNCHANGED Abstract!vars
  <2>1. /\ pc[p] = "clear_head" /\ pc' = [pc EXCEPT ![p] = "finish"]
        /\ head' = << >> /\ disk' = disk /\ cache' = cache /\ boot' = boot
    BY ZenonT(30), <1>7 DEF ClearHead, bufVars
  <2>2. lh = head /\ AtHome(Len(lh))
    BY ZenonT(30), <1>a, <2>1 DEF PhaseInv
  <2>3. Recovered = disk
    BY ZenonT(30), <1>a, <2>2, RecoveredHome
  <2>4. Recovered' = disk
    BY <1>b, <2>1 DEF Recovered, Replay
  <2>5. Active' = Active
    <3>1. p \notin Active
      BY ZenonT(30), <2>1 DEF Active
    <3> QED
      BY ZenonT(30), <1>b, <2>1, <3>1, ActiveKept
  <2> QED
    BY ZenonT(30), <2>1, <2>3, <2>4, <2>5, AbstractSame
<1>8. ASSUME NEW p \in Procs, FinishCommit(p) PROVE UNCHANGED Abstract!vars
  <2>1. /\ pc[p] = "finish" /\ pc' = Wakeup(p, "idle")
        /\ UNCHANGED diskVars /\ cache' = cache /\ boot' = boot
    BY ZenonT(30), <1>8 DEF FinishCommit, bufVars
  <2>2. Active' = Active
    BY ZenonT(30), <2>1 DEF Active, Wakeup
  <2> QED
    BY ZenonT(30), <2>1, <2>2, RecoveredSame, AbstractSame
<1>9. ASSUME NEW p \in Procs, NEW b \in Blocks, NEW v \in Vals, LogWrite(p, b, v)
      PROVE  Abstract!Write(p, b, v)
  <2>1. /\ pc[p] = "inop" /\ (pc' = pc \/ pc' = [pc EXCEPT ![p] = "panic"])
        /\ UNCHANGED diskVars /\ boot' = boot /\ boot = "up"
        /\ cache' = [cache EXCEPT ![b] = v]
    BY ZenonT(30), <1>9 DEF LogWrite, Up
  <2>2. Active' = Active /\ p \in Active
    BY ZenonT(30), <1>b, <1>9, <2>1 DEF Active, LogWrite
  <2>3. Recovered' = Recovered
    BY ZenonT(30), <2>1, RecoveredSame
  <2> QED
    BY ZenonT(30), <2>1, <2>2, <2>3 DEF Abstract!Write
<1>10. ASSUME NEW b \in Blocks, Evict(b) PROVE UNCHANGED Abstract!vars
  <2>1. UNCHANGED diskVars /\ pc' = pc /\ boot' = boot
    BY ZenonT(30), <1>10 DEF Evict
  <2>2. Active' = Active
    BY ZenonT(30), <2>1 DEF Active
  <2>3. cache' = cache
    BY ZenonT(30), <1>10, <1>c, EvictInv
  <2> QED
    BY ZenonT(30), <2>1, <2>2, <2>3, RecoveredSame, AbstractSame
<1>11. CASE Recover
  <2>1. Active' = Active
    <3>1. pc' = pc
      BY ZenonT(30), <1>11 DEF Recover, ReadHead, RecoverInstall, RecoverClear
    <3> QED
      BY ZenonT(30), <3>1 DEF Active
  <2>2. CASE ReadHead
    <3>1. UNCHANGED diskVars /\ cache' = cache /\ boot # "up" /\ boot' # "up"
      BY <2>2 DEF ReadHead, bufVars
    <3> QED
      BY ZenonT(30), <2>1, <3>1, RecoveredSame DEF Abstract!vars
  <2>3. CASE RecoverInstall
    <3>1. boot # "up" /\ boot' # "up" /\ Install /\ head' = head /\ logData' = logData
      BY ZenonT(30), <2>3 DEF RecoverInstall
    <3>2. lh = head /\ tail < Len(lh)
      BY ZenonT(30), <1>a, <2>3 DEF RecoverInstall, BootInv
    <3>3. Recovered' = Recovered
      BY ZenonT(30), <1>b, <3>1, <3>2, RecoveredInstall
    <3> QED
      BY ZenonT(30), <2>1, <3>1, <3>3 DEF Abstract!vars
  <2>4. CASE RecoverClear
    <3>1. /\ lh = head /\ AtHome(Len(lh)) /\ head' = << >> /\ disk' = disk
          /\ cache' = disk /\ boot' = "up" /\ boot # "up"
      BY ZenonT(30), <1>a, <2>4 DEF RecoverClear, BootInv, bufVars
    <3>2. Recovered = disk
      BY ZenonT(30), <1>a, <3>1, RecoveredHome
    <3>3. Recovered' = disk
      BY <1>b, <3>1 DEF Recovered, Replay
    <3> QED
      BY ZenonT(30), <2>1, <3>1, <3>2, <3>3 DEF Abstract!vars
  <2> QED
    BY ZenonT(30), <1>11, <2>2, <2>3, <2>4 DEF Recover
<1>12. CASE Crash
  <2>1. UNCHANGED diskVars /\ boot' = "read_head" /\ \A p \in Procs : pc'[p] = "idle"
    BY ZenonT(30), <1>12 DEF Crash
  <2>2. Active' = {}
    BY ZenonT(30), <2>1 DEF Active
  <2> QED
    BY ZenonT(30), <2>1, <2>2, RecoveredSame DEF Abstract!Next, Abstract!Crash
<1>13. CASE UNCHANGED vars
  <2>1. UNCHANGED diskVars /\ cache' = cache /\ boot' = boot /\ pc' = pc
    BY ZenonT(30), <1>13 DEF vars, bufVars
  <2>2. Active' = Active
    BY ZenonT(30), <2>1 DEF Active
  <2> QED
    BY ZenonT(30), <2>1, <2>2, RecoveredSame, AbstractSame
<1>14. ASSUME NEW p \in Procs, CommitStep(p) PROVE [Abstract!Next]_Abstract!vars
  BY ZenonT(30), <1>4, <1>5, <1>6, <1>7, <1>8, <1>14 DEF CommitStep, Abstract!Next
<1> QED
  BY ZenonT(30), <1>1, <1>2, <1>3, <1>9, <1>10, <1>11, <1>12, <1>13, <1>14 DEF Next, Abstract!Next

\* log.c implements the transactional disk: calls are atomic as groups across
\* crashes at any point, recovery included.
THEOREM CrashAtomicity == Spec => CrashAtomic
<1>1. Init => Abstract!Init
  BY ZenonT(30), InitRefines
<1>2. LogInv /\ LogInv' /\ [Next]_vars => [Abstract!Next]_Abstract!vars
  BY NextRefines
<1> QED
  BY <1>1, <1>2, LogInvariant, PTL DEF Spec, CrashAtomic, Abstract!Spec

-----------------------------------------------------------------------------
\* The reservation of begin_op(): the header blocks each call in progress has
\* not used, as pairs of a call and a number, so that they can be counted.
Room == {x \in Active \X (1..MAXOPBLOCKS) : x[2] > Cardinality(wrote[x[1]])}

\* No panic() of log.c so far, and why there is none to come: a call has written
\* at most OPBLOCKS blocks, all logged, and what is logged and what is reserved
\* fit the header.
SpaceInv ==
    /\ NoPanic
    /\ \A p \in Active : /\ IsFiniteSet(wrote[p]) /\ Cardinality(wrote[p]) <= OPBLOCKS
                         /\ \A b \in wrote[p] : Logged(b)
    /\ Active # {} => Len(lh) + Cardinality(Room) <= LOGSIZE

\* What a call may use of its reservation: param.h and mkfs leave this much room.
Reserved == OPBLOCKS < MAXOPBLOCKS /\ LOGSIZE - MAXOPBLOCKS + OPBLOCKS < NLOG - 1

\* The reservation is finite, and at most MAXOPBLOCKS for each call.
RoomBound ==
  /\ IsFiniteSet(Active) /\ IsFiniteSet(Room)
  /\ Cardinality(Room) \in Nat /\ Cardinality(Room) <= Cardinality(Active) * MAXOPBLOCKS

LEMMA RoomFinite == RoomBound
<1>1. IsFiniteSet(Active)
  BY FS_Subset DEF Active
<1>2. IsFiniteSet(1..MAXOPBLOCKS) /\ Cardinality(1..MAXOPBLOCKS) = MAXOPBLOCKS
  BY FS_Interval
<1>3. /\ IsFiniteSet(Active \X (1..MAXOPBLOCKS))
      /\ Cardinality(Active \X (1..MAXOPBLOCKS)) = Cardinality(Active) * Cardinality(1..MAXOPBLOCKS)
  BY ZenonT(30), <1>1, <1>2, FS_Product
<1>4. Room \in SUBSET (Active \X (1..MAXOPBLOCKS))
  BY ZenonT(30) DEF Room
<1>5. IsFiniteSet(Room) /\ Cardinality(Room) <= Cardinality(Active \X (1..MAXOPBLOCKS))
  BY ZenonT(30), <1>3, <1>4, FS_Subset
<1> QED
  BY ZenonT(30), <1>1, <1>2, <1>3, <1>5, FS_CardinalityType DEF RoomBound

\* A call that is about to write has part of its reservation left.
LEMMA RoomLeft ==
  ASSUME SpaceInv, NEW p \in Active
  PROVE  Cardinality(Room) >= MAXOPBLOCKS - OPBLOCKS
<1> DEFINE c == Cardinality(wrote[p])
           R == {p} \X ((c + 1)..MAXOPBLOCKS)
<1>1. c \in Nat /\ c <= OPBLOCKS
  BY ZenonT(30), FS_CardinalityType DEF SpaceInv
<1> HIDE DEF c
<1>2. IsFiniteSet((c + 1)..MAXOPBLOCKS) /\ Cardinality((c + 1)..MAXOPBLOCKS) = MAXOPBLOCKS - c
  BY <1>1, FS_Interval
<1>3. IsFiniteSet({p}) /\ Cardinality({p}) = 1
  BY ZenonT(30), FS_Singleton
<1>4. IsFiniteSet(R) /\ Cardinality(R) = Cardinality({p}) * Cardinality((c + 1)..MAXOPBLOCKS)
  BY ZenonT(30), <1>2, <1>3, FS_Product
<1>5. R \in SUBSET Room
  BY <1>1 DEF Room, c
<1>6. Cardinality(R) <= Cardinality(Room)
  BY ZenonT(30), <1>5, RoomFinite, FS_Subset DEF RoomBound
<1> HIDE DEF R
<1> QED
  BY <1>1, <1>2, <1>3, <1>4, <1>6, RoomFinite DEF RoomBound

\* A step that neither starts a call nor writes.
LEMMA SpaceKept ==
  ASSUME SpaceInv, NoPanic', Active' \subseteq Active, UNCHANGED <<wrote, lh>>
  PROVE  SpaceInv'
<1>1. Room' \in SUBSET Room
  BY DEF Room
<1>2. Cardinality(Room') <= Cardinality(Room) /\ Cardinality(Room') \in Nat
  BY ZenonT(30), <1>1, RoomFinite, FS_Subset, FS_CardinalityType DEF RoomBound
<1>3. Active' # {} => Len(lh') + Cardinality(Room') <= LOGSIZE
  BY <1>2, RoomFinite DEF SpaceInv, RoomBound
<1>4. ASSUME NEW p \in Active'
      PROVE  /\ IsFiniteSet(wrote'[p]) /\ Cardinality(wrote'[p]) <= OPBLOCKS
             /\ \A b \in wrote'[p] : Logged(b)'
  BY ZenonT(30), <1>4 DEF SpaceInv, Logged
<1> QED
  BY ZenonT(30), <1>3, <1>4 DEF SpaceInv

LEMMA SpaceEmpty ==
  ASSUME NoPanic', Active' = {}
  PROVE  SpaceInv'
BY ZenonT(30) DEF SpaceInv

LEMMA BeginOpSpace ==
  ASSUME LogInv, SpaceInv, NEW p \in Procs, BeginOp(p)
  PROVE  SpaceInv'
<1>1. pc[p] \in {"idle", "begin_op"} /\ pc' = [pc EXCEPT ![p] = "inop"]
      /\ wrote' = [wrote EXCEPT ![p] = {}] /\ lh' = lh /\ outstanding' = outstanding + 1
  BY ZenonT(30) DEF BeginOp
<1>2. Active' = Active \cup {p} /\ p \notin Active
  BY ZenonT(30), <1>1 DEF Active, LogInv, TypeOK
<1>3. Cardinality(Active') = outstanding + 1
  BY ZenonT(30), <1>2, CountingHolds, CountOneMore DEF LogInv, CommitterInv
<1>4. wrote'[p] = {} /\ \A q \in Active : wrote'[q] = wrote[q]
  BY ZenonT(30), <1>1, <1>2 DEF LogInv, TypeOK, Active
<1>5. NoPanic'
  BY ZenonT(30), <1>1 DEF SpaceInv, NoPanic, LogInv, TypeOK
<1>6. ASSUME NEW q \in Active'
      PROVE  /\ IsFiniteSet(wrote'[q]) /\ Cardinality(wrote'[q]) <= OPBLOCKS
             /\ \A b \in wrote'[q] : Logged(b)'
  <2>1. CASE q = p
    BY <1>4, <2>1, FS_EmptySet
  <2>2. CASE q \in Active
    BY ZenonT(30), <1>1, <1>4, <2>2 DEF SpaceInv, Logged
  <2> QED
    BY ZenonT(30), <1>2, <1>6, <2>1, <2>2
<1>7. Len(lh) + (outstanding + 1) * MAXOPBLOCKS <= LOGSIZE
  BY DEF BeginOp, Admit
<1>8. RoomBound'
  BY RoomFinite, PTL
<1>9. Len(lh') + Cardinality(Room)' <= LOGSIZE
  BY <1>1, <1>3, <1>7, <1>8 DEF RoomBound, LogInv, TypeOK
<1> QED
  BY ZenonT(30), <1>5, <1>6, <1>9 DEF SpaceInv

LEMMA LogWriteSpace ==
  ASSUME Reserved, LogInv, SpaceInv, NEW p \in Procs, NEW b \in Blocks, NEW v \in Vals,
         LogWrite(p, b, v)
  PROVE  SpaceInv'
<1> DEFINE c == Cardinality(wrote[p])
<1>1. p \in Active /\ IsFiniteSet(wrote[p]) /\ c \in Nat /\ c <= OPBLOCKS
  BY ZenonT(30), FS_CardinalityType DEF LogWrite, Active, SpaceInv
<1>2. ~TooBig
  <2>1. Len(lh) + Cardinality(Room) <= LOGSIZE /\ Len(lh) \in Nat
    BY <1>1 DEF SpaceInv, LogInv, TypeOK
  <2>2. Cardinality(Room) >= MAXOPBLOCKS - OPBLOCKS /\ Cardinality(Room) \in Nat
    BY ZenonT(30), <1>1, RoomLeft, RoomFinite DEF RoomBound
  <2> QED
    BY <2>1, <2>2 DEF TooBig, Reserved
<1>3. outstanding >= 1
  <2>1. Cardinality(Active) # 0 /\ Cardinality(Active) \in Nat
    BY ZenonT(30), <1>1, CountingHolds, ActiveCount
  <2> QED
    BY <2>1 DEF LogInv, CommitterInv
<1>4. UNCHANGED pc /\ wrote' = [wrote EXCEPT ![p] = @ \cup {b}]
      /\ (Logged(b) => lh' = lh) /\ (~Logged(b) => lh' = Append(lh, b))
      /\ Cardinality(wrote[p] \cup {b}) <= OPBLOCKS
  BY <1>2, <1>3 DEF LogWrite, LogInv, TypeOK
<1>5. Active' = Active /\ NoPanic'
  BY ZenonT(30), <1>4 DEF Active, SpaceInv, NoPanic
<1>6. wrote'[p] = wrote[p] \cup {b} /\ \A q \in Active : q # p => wrote'[q] = wrote[q]
  BY ZenonT(30), <1>4 DEF LogInv, TypeOK, Active
<1>7. Logged(b)' /\ \A k \in Blocks : Logged(k) => Logged(k)'
  <2>1. CASE Logged(b)
    BY ZenonT(30), <1>4, <2>1 DEF Logged
  <2>2. CASE ~Logged(b)
    <3>1. lh' = Append(lh, b) /\ lh \in Seq(Blocks)
      BY ZenonT(30), <1>4, <2>2 DEF LogInv, TypeOK
    <3>2. /\ DOMAIN lh' = 1..Len(lh) + 1 /\ lh'[Len(lh) + 1] = b
          /\ \A i \in DOMAIN lh : i \in DOMAIN lh' /\ lh'[i] = lh[i]
      BY <3>1
    <3>3. Len(lh) + 1 \in DOMAIN lh'
      BY <3>1, <3>2
    <3> QED
      BY ZenonT(30), <3>2, <3>3 DEF Logged
  <2> QED
    BY ZenonT(30), <2>1, <2>2
<1>8. ASSUME NEW q \in Active'
      PROVE  /\ IsFiniteSet(wrote'[q]) /\ Cardinality(wrote'[q]) <= OPBLOCKS
             /\ \A k \in wrote'[q] : Logged(k)'
  <2>1. CASE q = p
    <3>1. IsFiniteSet(wrote[p] \cup {b})
      BY ZenonT(30), <1>1, FS_AddElement
    <3>2. \A k \in wrote[p] : k \in Blocks /\ Logged(k)
      BY ZenonT(30), <1>1 DEF SpaceInv, LogInv, TypeOK, Active
    <3>3. IsFiniteSet(wrote'[p]) /\ Cardinality(wrote'[p]) <= OPBLOCKS
      BY ZenonT(30), <1>4, <1>6, <3>1
    <3>4. \A k \in wrote'[p] : Logged(k)'
      BY ZenonT(30), <1>6, <1>7, <3>2
    <3> QED
      BY ZenonT(30), <2>1, <3>3, <3>4
  <2>2. CASE q # p
    <3>1. \A k \in wrote[q] : k \in Blocks /\ Logged(k)
      BY ZenonT(30), <1>5, <1>8 DEF SpaceInv, LogInv, TypeOK, Active
    <3> QED
      BY ZenonT(30), <1>5, <1>6, <1>7, <1>8, <2>2, <3>1 DEF SpaceInv
  <2> QED
    BY ZenonT(30), <2>1, <2>2
<1>9. Len(lh') + Cardinality(Room)' <= LOGSIZE
  <2>0. Len(lh) + Cardinality(Room) <= LOGSIZE /\ Len(lh) \in Nat
    BY <1>1 DEF SpaceInv, LogInv, TypeOK
  <2>1. CASE b \in wrote[p]
    <3>1. lh' = lh /\ wrote'[p] = wrote[p]
      <4>1. wrote[p] \cup {b} = wrote[p]
        BY ZenonT(30), <2>1
      <4>2. Logged(b)
        BY ZenonT(30), <1>1, <2>1 DEF SpaceInv
      <4> QED
        BY ZenonT(30), <1>4, <1>6, <4>1, <4>2
    <3>2. \A q \in Active : wrote'[q] = wrote[q]
      BY ZenonT(30), <1>6, <3>1
    <3>3. Room' = Room
      BY ZenonT(30), <1>5, <3>2 DEF Room
    <3> QED
      BY ZenonT(30), <2>0, <3>1, <3>3
  <2>2. CASE b \notin wrote[p]
    <3>1. Cardinality(wrote[p] \cup {b}) = c + 1
      BY ZenonT(30), <1>1, <2>2, FS_AddElement
    <3>2. c + 1 \in 1..MAXOPBLOCKS
      BY <1>1, <1>4, <3>1
    <3>3. <<p, c + 1>> \in Room
      BY <1>1, <3>2 DEF Room
    <3>4. Room' \in SUBSET (Room \ {<<p, c + 1>>})
      <4> SUFFICES ASSUME NEW q \in Active, NEW n \in 1..MAXOPBLOCKS, n > Cardinality(wrote'[q])
                   PROVE  n > Cardinality(wrote[q]) /\ (q = p => n # c + 1)
        BY <1>5 DEF Room
      <4>1. CASE q = p
        <5>1. Cardinality(wrote'[p]) = c + 1
          BY ZenonT(30), <1>6, <3>1
        <5> QED
          BY <1>1, <4>1, <5>1
      <4>2. CASE q # p
        BY ZenonT(30), <1>6, <4>2
      <4> QED
        BY ZenonT(30), <4>1, <4>2
    <3>5. /\ IsFiniteSet(Room \ {<<p, c + 1>>})
          /\ Cardinality(Room \ {<<p, c + 1>>}) = Cardinality(Room) - 1
      <4>1. IsFiniteSet(Room)
        BY ZenonT(30), RoomFinite DEF RoomBound
      <4> QED
        BY ZenonT(30), <3>3, <4>1, RemoveOne
    <3>6. Cardinality(Room') <= Cardinality(Room) - 1 /\ Cardinality(Room') \in Nat
      BY <3>4, <3>5, FS_Subset, FS_CardinalityType
    <3>7. Len(lh') <= Len(lh) + 1 /\ Len(lh') \in Nat
      BY <1>4 DEF LogInv, TypeOK
    <3> QED
      BY <2>0, <3>6, <3>7, RoomFinite DEF RoomBound
  <2> QED
    BY ZenonT(30), <2>1, <2>2
<1> QED
  BY ZenonT(30), <1>5, <1>8, <1>9 DEF SpaceInv

LEMMA EndOpSpace ==
  ASSUME LogInv, SpaceInv, NEW p \in Procs, EndOp(p)
  PROVE  SpaceInv'
<1>1. ~committing
  <2>1. p \in Active
    BY DEF EndOp, Active
  <2>2. Cardinality(Active) # 0
    BY <2>1, CountingHolds, ActiveCount
  <2> QED
    BY <2>2 DEF LogInv, CommitterInv
<1>2. UNCHANGED <<wrote, lh>> /\ pc[p] = "inop"
  BY DEF EndOp
<1>3. /\ pc' \in [Procs -> Pcs] /\ pc'[p] \in {"write_log", "finish", "idle"}
      /\ \A q \in Procs : q # p => pc'[q] = pc[q] \/ pc'[q] = "begin_op"
  <2>1. CASE outstanding' = 0
    <3>1. pc' = [pc EXCEPT ![p] = IF Len(lh) > 0 THEN "write_log" ELSE "finish"]
      BY ZenonT(30), <1>1, <2>1 DEF EndOp
    <3> QED
      BY <3>1 DEF LogInv, TypeOK, Pcs, CommitPcs
  <2>2. CASE outstanding' # 0
    <3>1. pc' = Wakeup(p, "idle")
      BY ZenonT(30), <1>1, <2>2 DEF EndOp
    <3> QED
      BY <3>1 DEF Wakeup, LogInv, TypeOK, Pcs
  <2> QED
    BY <2>1, <2>2
<1>4. NoPanic' /\ Active' \subseteq Active
  BY <1>3 DEF NoPanic, Active, SpaceInv
<1> QED
  BY <1>2, <1>4, SpaceKept

\* The committer: no call is in progress, and none starts.
LEMMA CommitSpace ==
  ASSUME LogInv, SpaceInv, NEW p \in Procs, CommitStep(p)
  PROVE  SpaceInv'
<1>1. pc[p] \in CommitPcs
  BY DEF CommitStep, WriteLog, WriteHead, InstallTrans, ClearHead, FinishCommit, CommitPcs
<1>2. Active = {}
  <2>1. Cardinality(Active) = 0
    BY ZenonT(30), <1>1 DEF LogInv, CommitterInv
  <2> QED
    BY ZenonT(30), <2>1, CountingHolds, ActiveCount
<1>3. \A q \in Procs : pc'[q] = pc[q] \/ pc'[q] \in CommitPcs \cup {"begin_op", "idle"}
  BY ZenonT(30) DEF CommitStep, WriteLog, WriteHead, InstallTrans, ClearHead, FinishCommit, Wakeup,
         CommitPcs, LogInv, TypeOK
<1>4. NoPanic' /\ Active' = {}
  BY ZenonT(30), <1>2, <1>3 DEF NoPanic, Active, SpaceInv, CommitPcs
<1> QED
  BY ZenonT(30), <1>4, SpaceEmpty

LEMMA NextSpace ==
  ASSUME Reserved, LogInv, SpaceInv, [Next]_vars
  PROVE  SpaceInv'
<1>1. ASSUME NEW p \in Procs, BeginSleep(p) PROVE SpaceInv'
  <2>1. UNCHANGED <<wrote, lh>> /\ pc' = [pc EXCEPT ![p] = "sleeping"]
    BY ZenonT(30), <1>1 DEF BeginSleep, logVars
  <2>2. NoPanic' /\ Active' \subseteq Active
    BY ZenonT(30), <2>1 DEF NoPanic, Active, SpaceInv, LogInv, TypeOK
  <2> QED
    BY ZenonT(30), <2>1, <2>2, SpaceKept
<1>2. ASSUME UNCHANGED <<pc, wrote, lh>> PROVE SpaceInv'
  BY ZenonT(30), <1>2, SpaceKept DEF NoPanic, Active, SpaceInv
<1>3. ASSUME Recover PROVE SpaceInv'
  <2>1. boot # "up" /\ UNCHANGED pc
    BY <1>3 DEF Recover, ReadHead, RecoverInstall, RecoverClear
  <2>2. Active' = {} /\ NoPanic'
    BY ZenonT(30), <2>1 DEF LogInv, CommitterInv, Active, NoPanic
  <2> QED
    BY ZenonT(30), <2>2, SpaceEmpty
<1>4. ASSUME Crash PROVE SpaceInv'
  BY ZenonT(30), <1>4, SpaceEmpty DEF Crash, Active, NoPanic
<1>5. ASSUME NEW b \in Blocks, Evict(b) PROVE SpaceInv'
  BY ZenonT(30), <1>2, <1>5 DEF Evict, logVars
<1>6. ASSUME UNCHANGED vars PROVE SpaceInv'
  BY ZenonT(30), <1>2, <1>6 DEF vars, logVars
<1> QED
  BY ZenonT(30), <1>1, <1>3, <1>4, <1>5, <1>6, BeginOpSpace, LogWriteSpace, EndOpSpace, CommitSpace DEF Next

\* log.c:220: for any number of processes and any log, when a call writes fewer
\* blocks than begin_op() reserves, by as much as the on-disk log is smaller
\* than the header, neither "too big a transaction" nor any other panic() of
\* log_write() and end_op() is reached.
THEOREM NoPanicThm == Reserved => (Spec => []NoPanic)
<1> SUFFICES ASSUME Reserved PROVE Spec => []NoPanic
  OBVIOUS
<1>1. Init => SpaceInv
  <2> SUFFICES ASSUME Init PROVE SpaceInv
    OBVIOUS
  <2>1. Active = {} /\ NoPanic
    BY ZenonT(30) DEF Init, Active, NoPanic
  <2> QED
    BY <2>1 DEF SpaceInv
<1>2. LogInv /\ SpaceInv /\ [Next]_vars => SpaceInv'
  BY ZenonT(30), NextSpace
<1>3. SpaceInv => NoPanic
  BY DEF SpaceInv
<1> QED
  BY <1>1, <1>2, <1>3, LogInvariant, PTL DEF Spec
=============================================================================
