-------------------------------- MODULE Log --------------------------------
(***************************************************************************)
(* The write-ahead log of the file system, kernel/log.c, together with the *)
(* part of the buffer cache it relies on (bpin/bunpin and eviction in      *)
(* kernel/bio.c).  Processes run file system calls concurrently, the last  *)
(* call to end commits for all, and the machine may crash between any two  *)
(* disk writes, recovery included.  One disk block write is atomic.        *)
(***************************************************************************)
EXTENDS Integers, Sequences, FiniteSets

CONSTANTS
    Procs,          \* processes that make file system calls
    Blocks,         \* home blocks: every block outside the log
    Vals,           \* contents of a block
    MAXOPBLOCKS,    \* what begin_op() reserves for one call (param.h)
    LOGSIZE,        \* capacity of the in-memory header (param.h)
    NLOG,           \* log.size: blocks of the on-disk log, header included
    OPBLOCKS        \* distinct blocks one call really writes, at most

ASSUME LogAssumption ==
    /\ IsFiniteSet(Procs)
    /\ MAXOPBLOCKS \in Nat \ {0}
    /\ LOGSIZE \in Nat /\ LOGSIZE >= MAXOPBLOCKS
    /\ NLOG \in Nat \ {0}
    /\ OPBLOCKS \in 0..MAXOPBLOCKS

VARIABLES
    disk,           \* home blocks on disk
    logData,        \* data blocks of the on-disk log
    head,           \* header block of the on-disk log: the logged blocks
    cache,          \* contents of home blocks as the buffer cache shows them
    pins,           \* b->refcnt contributed by bpin()
    lh,             \* log.lh in memory
    outstanding,    \* log.outstanding
    committing,     \* log.committing
    tail,           \* loop variable of write_log() and install_trans()
    pc,             \* where each process is in its file system call
    wrote,          \* blocks written by the call each process is in
    boot            \* progress of recover_from_log()

diskVars == <<disk, logData, head>>
bufVars  == <<cache, pins>>
logVars  == <<lh, outstanding, committing>>
vars == <<diskVars, bufVars, logVars, tail, pc, wrote, boot>>

CommitPcs == {"write_log", "write_head", "install_trans", "clear_head", "finish"}
Pcs == {"idle", "begin_op", "sleeping", "inop", "panic"} \cup CommitPcs

Logged(b) == \E i \in DOMAIN lh : lh[i] = b

\* panic() never returns and its caller holds log.lock.
Up == boot = "up" /\ \A p \in Procs : pc[p] # "panic"

\* pc after wakeup(&log), p itself going to `next'.
Wakeup(p, next) ==
    [q \in Procs |-> IF q = p THEN next
                     ELSE IF pc[q] = "sleeping" THEN "begin_op" ELSE pc[q]]

-----------------------------------------------------------------------------
\* The machine as mkfs leaves it, about to run initlog().
Init ==
    /\ disk \in [Blocks -> Vals]
    /\ logData \in [1..NLOG-1 -> Vals]
    /\ head = << >>
    /\ cache = disk
    /\ pins = [b \in Blocks |-> 0]
    /\ lh = << >>
    /\ outstanding = 0
    /\ committing = FALSE
    /\ tail = 0
    /\ pc = [p \in Procs |-> "idle"]
    /\ wrote = [p \in Procs |-> {}]
    /\ boot = "read_head"

\* Fault: begin_op() without the test for log space.
AdmitNoSpaceTest == ~committing

\* begin_op(): the test that lets a call in.
Admit == ~committing /\ Len(lh) + (outstanding + 1) * MAXOPBLOCKS <= LOGSIZE

BeginOp(p) ==
    /\ Up
    /\ pc[p] \in {"idle", "begin_op"}
    /\ Admit
    /\ outstanding' = outstanding + 1
    /\ pc' = [pc EXCEPT ![p] = "inop"]
    /\ wrote' = [wrote EXCEPT ![p] = {}]
    /\ UNCHANGED <<diskVars, bufVars, lh, committing, tail, boot>>

\* begin_op() finds no room: sleep(&log, &log.lock), which releases log.lock
\* only once the process can be woken.
BeginSleep(p) ==
    /\ Up
    /\ pc[p] \in {"idle", "begin_op"}
    /\ ~Admit
    /\ pc' = [pc EXCEPT ![p] = "sleeping"]
    /\ UNCHANGED <<diskVars, bufVars, logVars, tail, wrote, boot>>

TooBig == Len(lh) >= LOGSIZE \/ Len(lh) >= NLOG - 1

\* A call modifies a buffer and passes it to log_write(): absorbed when the
\* block is logged already, otherwise appended and pinned.
LogWrite(p, b, v) ==
    /\ Up
    /\ pc[p] = "inop"
    /\ Cardinality(wrote[p] \cup {b}) <= OPBLOCKS
    /\ wrote' = [wrote EXCEPT ![p] = @ \cup {b}]
    /\ cache' = [cache EXCEPT ![b] = v]
    /\ IF TooBig \/ outstanding < 1
       THEN /\ pc' = [pc EXCEPT ![p] = "panic"]
            /\ UNCHANGED <<lh, pins>>
       ELSE /\ IF Logged(b)
               THEN UNCHANGED <<lh, pins>>
               ELSE /\ lh' = Append(lh, b)
                    /\ pins' = [pins EXCEPT ![b] = @ + 1]
            /\ UNCHANGED pc
    /\ UNCHANGED <<diskVars, outstanding, committing, tail, boot>>

\* bget() recycles a buffer nobody holds; the next bread() of the block
\* fetches it from disk.
Evict(b) ==
    /\ Up
    /\ pins[b] = 0
    /\ cache' = [cache EXCEPT ![b] = disk[b]]
    /\ UNCHANGED <<diskVars, pins, logVars, tail, pc, wrote, boot>>

\* end_op() up to the release of log.lock.
EndOp(p) ==
    /\ Up
    /\ pc[p] = "inop"
    /\ outstanding' = outstanding - 1
    /\ IF committing
       THEN /\ pc' = [pc EXCEPT ![p] = "panic"]
            /\ UNCHANGED committing
       ELSE IF outstanding' = 0
       THEN /\ committing' = TRUE
            /\ pc' = [pc EXCEPT ![p] = IF Len(lh) > 0 THEN "write_log"
                                                      ELSE "finish"]
       ELSE /\ pc' = Wakeup(p, "idle")
            /\ UNCHANGED committing
    /\ tail' = 0
    /\ UNCHANGED <<diskVars, bufVars, lh, wrote, boot>>

\* Fault: write_log() does not advance to the next block.
WriteLogStuck(p) ==
    /\ Up
    /\ pc[p] = "write_log"
    /\ logData' = [logData EXCEPT ![tail + 1] = cache[lh[tail + 1]]]
    /\ UNCHANGED <<disk, head, bufVars, logVars, tail, pc, wrote, boot>>

\* One iteration of write_log(): cache block to log block.
WriteLog(p) ==
    /\ Up
    /\ pc[p] = "write_log"
    /\ logData' = [logData EXCEPT ![tail + 1] = cache[lh[tail + 1]]]
    /\ IF tail + 1 < Len(lh)
       THEN tail' = tail + 1 /\ UNCHANGED pc
       ELSE tail' = 0 /\ pc' = [pc EXCEPT ![p] = "write_head"]
    /\ UNCHANGED <<disk, head, bufVars, logVars, wrote, boot>>

\* Fault: commit() erases the header without install_trans().
WriteHeadNoInstall(p) ==
    /\ Up
    /\ pc[p] = "write_head"
    /\ head' = lh
    /\ pc' = [pc EXCEPT ![p] = "clear_head"]
    /\ UNCHANGED <<disk, logData, bufVars, logVars, tail, wrote, boot>>

\* write_head() in commit(): the transaction commits.
WriteHead(p) ==
    /\ Up
    /\ pc[p] = "write_head"
    /\ head' = lh
    /\ pc' = [pc EXCEPT ![p] = "install_trans"]
    /\ UNCHANGED <<disk, logData, bufVars, logVars, tail, wrote, boot>>

\* One block of install_trans(): log block to home block, through the cache.
Install ==
    /\ cache' = [cache EXCEPT ![lh[tail + 1]] = logData[tail + 1]]
    /\ disk' = [disk EXCEPT ![lh[tail + 1]] = logData[tail + 1]]

\* One iteration of install_trans(0).
InstallTrans(p) ==
    /\ Up
    /\ pc[p] = "install_trans"
    /\ Install
    /\ pins' = [pins EXCEPT ![lh[tail + 1]] = @ - 1]
    /\ IF tail + 1 < Len(lh)
       THEN tail' = tail + 1 /\ UNCHANGED pc
       ELSE tail' = 0 /\ pc' = [pc EXCEPT ![p] = "clear_head"]
    /\ UNCHANGED <<logData, head, logVars, wrote, boot>>

\* log.lh.n = 0 and the second write_head() of commit().
ClearHead(p) ==
    /\ Up
    /\ pc[p] = "clear_head"
    /\ lh' = << >>
    /\ head' = << >>
    /\ pc' = [pc EXCEPT ![p] = "finish"]
    /\ UNCHANGED <<disk, logData, bufVars, outstanding, committing, tail, wrote, boot>>

\* Fault: no wakeup(&log) after the commit.
FinishCommitNoWakeup(p) ==
    /\ Up
    /\ pc[p] = "finish"
    /\ committing' = FALSE
    /\ pc' = [pc EXCEPT ![p] = "idle"]
    /\ UNCHANGED <<diskVars, bufVars, lh, outstanding, tail, wrote, boot>>

\* The end of end_op() after commit().
FinishCommit(p) ==
    /\ Up
    /\ pc[p] = "finish"
    /\ committing' = FALSE
    /\ pc' = Wakeup(p, "idle")
    /\ UNCHANGED <<diskVars, bufVars, lh, outstanding, tail, wrote, boot>>

-----------------------------------------------------------------------------
\* Power is lost: memory is gone, the disk stays.
Crash ==
    /\ cache' = disk
    /\ pins' = [b \in Blocks |-> 0]
    /\ lh' = << >>
    /\ outstanding' = 0
    /\ committing' = FALSE
    /\ tail' = 0
    /\ pc' = [p \in Procs |-> "idle"]
    /\ wrote' = [p \in Procs |-> {}]
    /\ boot' = "read_head"
    /\ UNCHANGED diskVars

\* Fault: recovery clears the log without installing it.
ReadHeadNoInstall ==
    /\ boot = "read_head"
    /\ lh' = head
    /\ boot' = "clear_head"
    /\ UNCHANGED <<diskVars, bufVars, outstanding, committing, tail, pc, wrote>>

\* initlog() -> recover_from_log(): read_head() ...
ReadHead ==
    /\ boot = "read_head"
    /\ lh' = head
    /\ boot' = IF Len(head) > 0 THEN "install_trans" ELSE "clear_head"
    /\ UNCHANGED <<diskVars, bufVars, outstanding, committing, tail, pc, wrote>>

\* ... one iteration of install_trans(1) ...
RecoverInstall ==
    /\ boot = "install_trans"
    /\ Install
    /\ IF tail + 1 < Len(lh)
       THEN tail' = tail + 1 /\ UNCHANGED boot
       ELSE tail' = 0 /\ boot' = "clear_head"
    /\ UNCHANGED <<logData, head, pins, logVars, pc, wrote>>

\* ... log.lh.n = 0 and write_head().
RecoverClear ==
    /\ boot = "clear_head"
    /\ lh' = << >>
    /\ head' = << >>
    /\ boot' = "up"
    /\ UNCHANGED <<disk, logData, bufVars, outstanding, committing, tail, pc, wrote>>

-----------------------------------------------------------------------------
CommitStep(p) ==
    \/ WriteLog(p)
    \/ WriteHead(p)
    \/ InstallTrans(p)
    \/ ClearHead(p)
    \/ FinishCommit(p)

Recover == ReadHead \/ RecoverInstall \/ RecoverClear

Next ==
    \/ \E p \in Procs :
         \/ BeginOp(p)
         \/ BeginSleep(p)
         \/ EndOp(p)
         \/ CommitStep(p)
         \/ \E b \in Blocks, v \in Vals : LogWrite(p, b, v)
    \/ \E b \in Blocks : Evict(b)
    \/ Recover
    \/ Crash

Spec == Init /\ [][Next]_vars

\* A process in a file system call keeps running: calls end, a woken process
\* tries again, and the committer and recovery finish their loops.
Fairness ==
    /\ \A p \in Procs :
         /\ WF_vars(EndOp(p))
         /\ WF_vars(CommitStep(p))
         /\ WF_vars(pc[p] = "begin_op" /\ (BeginOp(p) \/ BeginSleep(p)))
    /\ WF_vars(Recover)

FairSpec == Spec /\ Fairness

-----------------------------------------------------------------------------
TypeOK ==
    /\ disk \in [Blocks -> Vals]
    /\ logData \in [1..NLOG-1 -> Vals]
    /\ head \in Seq(Blocks)
    /\ cache \in [Blocks -> Vals]
    /\ pins \in [Blocks -> Nat]
    /\ lh \in Seq(Blocks)
    /\ outstanding \in Nat
    /\ committing \in BOOLEAN
    /\ tail \in Nat
    /\ pc \in [Procs -> Pcs]
    /\ wrote \in [Procs -> SUBSET Blocks]
    /\ boot \in {"read_head", "install_trans", "clear_head", "up"}

\* Home blocks d after the blocks named by header h are copied from log data ld.
Replay(h, ld, d) ==
    [b \in Blocks |->
        IF \E i \in DOMAIN h : h[i] = b
        THEN ld[CHOOSE i \in DOMAIN h : h[i] = b]
        ELSE d[b]]

\* What the disk holds once recover_from_log() has replayed the header.
Recovered == Replay(head, logData, disk)

Active == {p \in Procs : pc[p] \in {"inop", "panic"}}

Abstract == INSTANCE TxDisk WITH
    durable <- Recovered,
    current <- IF boot = "up" THEN cache ELSE Recovered,
    active  <- Active

\* log.c:10-16: file system calls between crashes are atomic as groups.  Every
\* step of begin_op/log_write/end_op/commit/recovery, crashes included, is a
\* step of the abstract transactional disk or leaves it as it was.
CrashAtomic == Abstract!Spec

\* log.c:220: calls that keep to OPBLOCKS never meet "too big a transaction",
\* and neither "log_write outside of trans" nor "log.committing" is reachable.
NoPanic == \A p \in Procs : pc[p] # "panic"

\* begin_op() sleeps only while somebody is bound to call wakeup(&log): a call
\* that will end or a commit that will finish.  A sleeper with neither would
\* sleep forever.
NoLostWakeup ==
    (\E p \in Procs : pc[p] = "sleeping")
        => \E q \in Procs : pc[q] \in {"inop", "panic"} \cup CommitPcs

\* When no call is active and no commit runs, nothing the calls wrote is lost
\* by a crash: end_op() of the last call has made all of it durable.
QuietIsDurable ==
    (boot = "up" /\ outstanding = 0 /\ ~committing) => Recovered = cache

\* A process that sleeps in begin_op() is woken (or the machine crashes).
SleeperWakes ==
    \A p \in Procs : pc[p] = "sleeping" ~> pc[p] # "sleeping"

\* end_op() returns: a call that has begun is over, its commit included.
CallsFinish ==
    \A p \in Procs : pc[p] \in {"inop"} \cup CommitPcs ~> pc[p] = "idle"

(***************************************************************************)
(* The inductive invariant behind the theorems of LogProofs.               *)
(***************************************************************************)
\* Blocks lh[1..n] have reached the log, or their home.
InLog(n)  == \A i \in 1..n : logData[i] = cache[lh[i]]
AtHome(n) == \A i \in 1..n : disk[lh[i]] = logData[i]

\* Position i of the header has been installed by the running commit.
Installed(i) == \E p \in Procs : \/ pc[p] = "clear_head"
                                 \/ pc[p] = "install_trans" /\ i <= tail

\* At most one process commits, and only when no call is active.
CommitterInv ==
    /\ outstanding = Cardinality(Active)
    /\ committing <=> \E p \in Procs : pc[p] \in CommitPcs
    /\ committing => outstanding = 0
    /\ \A p, q \in Procs : pc[p] \in CommitPcs /\ pc[q] \in CommitPcs => p = q
    /\ ~committing /\ outstanding = 0 /\ boot = "up" => lh = << >>
    /\ boot # "up" => \A p \in Procs : pc[p] = "idle"

\* The header names each block once and fits the on-disk log.
HeaderInv ==
    /\ Len(lh) <= NLOG - 1 /\ Len(head) <= NLOG - 1
    /\ \A i, j \in DOMAIN lh : lh[i] = lh[j] => i = j
    /\ \A i, j \in DOMAIN head : head[i] = head[j] => i = j
    /\ (boot = "up" /\ \A p \in Procs : pc[p] \notin {"install_trans", "clear_head"})
          => head = << >>

\* A buffer that differs from its home block is logged and pinned.
PinInv ==
    Up =>
        /\ \A b \in Blocks : ~Logged(b) => cache[b] = disk[b] /\ pins[b] = 0
        /\ \A i \in DOMAIN lh : pins[lh[i]] = IF Installed(i) THEN 0 ELSE 1

\* How far each phase of commit() has got.
PhaseInv ==
    \A p \in Procs :
        /\ pc[p] = "write_log" => tail < Len(lh) /\ InLog(tail)
        /\ pc[p] = "write_head" => tail = 0 /\ Len(lh) > 0 /\ InLog(Len(lh))
        /\ pc[p] = "install_trans" =>
              /\ head = lh /\ tail < Len(lh)
              /\ InLog(Len(lh)) /\ AtHome(tail)
        /\ pc[p] = "clear_head" =>
              /\ head = lh
              /\ InLog(Len(lh)) /\ AtHome(Len(lh))
        /\ pc[p] = "finish" => lh = << >>

\* How far recover_from_log() has got.
BootInv ==
    boot # "up" =>
        /\ cache = disk
        /\ pins = [b \in Blocks |-> 0]
        /\ boot = "read_head" => tail = 0 /\ lh = << >>
        /\ boot = "install_trans" => lh = head /\ tail < Len(lh) /\ AtHome(tail)
        /\ boot = "clear_head" => lh = head /\ AtHome(Len(lh))

\* A sleeper in begin_op() has somebody left to wake it.
SleepInv ==
    (\E p \in Procs : pc[p] = "sleeping") => committing \/ outstanding > 0

\* log.c as a whole: at every step of every interleaving, the in-memory header,
\* the pins, the on-disk log and the home blocks agree as far as the running
\* commit or recovery has got.
LogInv ==
    /\ TypeOK
    /\ CommitterInv
    /\ HeaderInv
    /\ PinInv
    /\ PhaseInv
    /\ BootInv
    /\ SleepInv
=============================================================================
