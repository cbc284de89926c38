-------------------------------- MODULE Bio ---------------------------------
(***************************************************************************)
(* The buffer cache of kernel/bio.c, the sleep locks of sleeplock.c and    *)
(* the disk driver of virtio_disk.c, with the device they talk to.         *)
(*                                                                         *)
(* A section of bcache.lock, of a sleep lock's lk or of vdisk_lock is one  *)
(* step; sleep() puts a process into asleep, wakeup() and kill() take it   *)
(* out.  A recycled buffer holds junk until the disk has filled it.        *)
(* Callers follow the rule of the log: a buffer that was changed           *)
(* is written or pinned before it is released, and unpinned once it has    *)
(* been written.                                                           *)
(***************************************************************************)
EXTENDS Integers, Sequences, FiniteSets

CONSTANTS
    Procs, BLOCKS,  \* model values
    STORED,         \* bound: the blocks that callers change
    NBUF,           \* buffers of the cache
    NUM,            \* descriptors of the queue
    WORD,           \* 2^16: where the ring indices wrap
    MAXPIN          \* bound: buffers pinned at a time

ASSUME BioAssumption ==
    /\ STORED \subseteq BLOCKS
    /\ NBUF \in Nat \ {0} /\ NUM \in Nat /\ NUM >= 3 /\ WORD >= NUM /\ WORD % NUM = 0
    /\ NBUF >= Cardinality(Procs) + MAXPIN

VARIABLES
    buf,            \* buf[b]: blockno, valid, refcnt, locked, disk, data
    lru,            \* the list from bcache.head: most recently used first
    pinned,         \* buffers the log holds a reference to
    vq,             \* the queue: free, desc, info, avail, used, and the indices
    dev,            \* the device: the requests it has taken, and its interrupt line
    platter,        \* what is on the disk
    latest,         \* what was last stored into each block by a holder of its buffer
    op,             \* op[p]: pc, the buffer, whether the transfer writes, its chain
    asleep          \* processes that sleep
vars == <<buf, lru, pinned, vq, dev, platter, latest, op, asleep>>

Bufs == 1..NBUF
Descs == 0..NUM-1
None == "none"
\* What a block holds: its own first contents, or the changed ones.
Data(k, v) == [of |-> k, v |-> v]
Junk == Data(None, 0)
Idle == [pc |-> "idle", b |-> 0, write |-> FALSE, id |-> 0]
NoDesc == [next |-> 0, more |-> FALSE, buf |-> 0, write |-> FALSE]

\* binit() and virtio_disk_init(): each buffer is put at the front in turn.
Init ==
    /\ buf = [b \in Bufs |-> [blockno |-> None, valid |-> FALSE, refcnt |-> 0, locked |-> None,
                              disk |-> FALSE, data |-> Junk]]
    /\ lru = [k \in 1..NBUF |-> NBUF + 1 - k]
    /\ pinned = {}
    /\ vq = [free |-> Descs, desc |-> [i \in Descs |-> NoDesc], info |-> [i \in Descs |-> 0],
             avail |-> [i \in Descs |-> 0], availidx |-> 0,
             used |-> [i \in Descs |-> 0], usedidx |-> 0, used_idx |-> 0]
    /\ dev = [seen |-> 0, taken |-> {}, irq |-> FALSE]
    /\ platter = [k \in BLOCKS |-> Data(k, 0)] /\ latest = platter
    /\ op = [p \in Procs |-> Idle] /\ asleep = {}

At(p, pc) == op[p].pc = pc /\ p \notin asleep
Go(p, pc) == op' = [op EXCEPT ![p].pc = pc]
\* wakeup() of those who sleep at pc, for buffer b.
Wake(pc, b) == asleep \ {q \in Procs : op[q].pc = pc /\ op[q].b = b}

-----------------------------------------------------------------------------
\* The buffers that cache k; the least recently used one nobody refers to.
Cached(k) == {b \in Bufs : buf[b].blockno = k}
LastFree == LET S == {j \in 1..NBUF : buf[lru[j]].refcnt = 0}
            IN  lru[CHOOSE j \in S : \A i \in S : i <= j]
HasFree == \E b \in Bufs : buf[b].refcnt = 0

\* Faulty bget: the scan for the block is left out.
bgetUncached(p, k) ==
    LET b == LastFree
    IN  /\ At(p, "idle") /\ HasFree
        /\ buf' = [buf EXCEPT ![b] = [@ EXCEPT !.blockno = k, !.valid = FALSE, !.refcnt = 1, !.data = Junk]]
        /\ op' = [op EXCEPT ![p] = [Idle EXCEPT !.pc = "lock", !.b = b]]
        /\ UNCHANGED <<lru, pinned, vq, dev, platter, latest, asleep>>

\* bget(): the buffer of a block, or the last free one of the list, which changes hands.
\* panic("bget: no buffers") is the state in which it is not enabled.
bget(p, k) ==
    LET b == IF Cached(k) # {} THEN CHOOSE b \in Cached(k) : TRUE ELSE LastFree
    IN  /\ At(p, "idle") /\ (Cached(k) # {} \/ HasFree)
        /\ buf' = [buf EXCEPT ![b] = IF Cached(k) # {} THEN [@ EXCEPT !.refcnt = @ + 1]
                                     ELSE [@ EXCEPT !.blockno = k, !.valid = FALSE, !.refcnt = 1, !.data = Junk]]
        /\ op' = [op EXCEPT ![p] = [Idle EXCEPT !.pc = "lock", !.b = b]]
        /\ UNCHANGED <<lru, pinned, vq, dev, platter, latest, asleep>>

\* acquiresleep(): sleep while it is locked.  bread() goes on: a buffer that is not
\* valid is read.
acquiresleep(p) ==
    LET b == op[p].b
    IN  /\ At(p, "lock")
        /\ \/ /\ buf[b].locked # None /\ asleep' = asleep \cup {p}
              /\ UNCHANGED <<buf, op>>
           \/ /\ buf[b].locked = None
              /\ buf' = [buf EXCEPT ![b].locked = p]
              /\ Go(p, IF buf[b].valid THEN "use" ELSE "rw")
              /\ UNCHANGED asleep
        /\ UNCHANGED <<lru, pinned, vq, dev, platter, latest>>

\* What the holder does: store into b->data, bwrite(), bpin() by log_write(), bunpin().
Store(p) ==
    LET b == op[p].b
    IN  /\ At(p, "use") /\ buf[b].blockno \in STORED
        /\ buf' = [buf EXCEPT ![b].data.v = 1 - @]
        /\ latest' = [latest EXCEPT ![buf[b].blockno] = buf'[b].data]
        /\ UNCHANGED <<lru, pinned, vq, dev, platter, op, asleep>>
bwrite(p) ==
    /\ At(p, "use") /\ buf[op[p].b].data # platter[buf[op[p].b].blockno]
    /\ op' = [op EXCEPT ![p].pc = "rw", ![p].write = TRUE]
    /\ UNCHANGED <<buf, lru, pinned, vq, dev, platter, latest, asleep>>
Clean(b) == buf[b].data = platter[buf[b].blockno]
bpin(p) ==
    LET b == op[p].b
    IN  /\ At(p, "use") /\ b \notin pinned /\ Cardinality(pinned) < MAXPIN /\ ~Clean(b)
        /\ buf' = [buf EXCEPT ![b].refcnt = @ + 1] /\ pinned' = pinned \cup {b}
        /\ UNCHANGED <<lru, vq, dev, platter, latest, op, asleep>>
bunpin(p) ==
    LET b == op[p].b
    IN  /\ At(p, "use") /\ b \in pinned /\ Clean(b)
        /\ buf' = [buf EXCEPT ![b].refcnt = @ - 1] /\ pinned' = pinned \ {b}
        /\ UNCHANGED <<lru, vq, dev, platter, latest, op, asleep>>

\* Faulty releasesleep: the sleepers are not woken.
releasesleepNoWake(p) ==
    LET b == op[p].b
    IN  /\ At(p, "use") /\ (Clean(b) \/ b \in pinned)
        /\ buf' = [buf EXCEPT ![b].locked = None]
        /\ Go(p, "put")
        /\ UNCHANGED <<lru, pinned, vq, dev, platter, latest, asleep>>

\* brelse(): releasesleep(), which wakes who waits for the buffer ...
releasesleep(p) ==
    LET b == op[p].b
    IN  /\ At(p, "use") /\ (Clean(b) \/ b \in pinned)
        /\ buf' = [buf EXCEPT ![b].locked = None]
        /\ asleep' = Wake("lock", b)
        /\ Go(p, "put")
        /\ UNCHANGED <<lru, pinned, vq, dev, platter, latest>>

\* ... then the reference; the last one moves the buffer to the front.
brelse(p) ==
    LET b == op[p].b
    IN  /\ At(p, "put")
        /\ buf' = [buf EXCEPT ![b].refcnt = @ - 1]
        /\ lru' = IF buf[b].refcnt = 1 THEN <<b>> \o SelectSeq(lru, LAMBDA c : c # b) ELSE lru
        /\ op' = [op EXCEPT ![p] = Idle]
        /\ UNCHANGED <<pinned, vq, dev, platter, latest, asleep>>

-----------------------------------------------------------------------------
Least(S) == CHOOSE x \in S : \A y \in S : x <= y

\* virtio_disk_rw(): three descriptors, or sleep on &free[0].  alloc3_desc() gives
\* back the ones it got, and each free_desc() wakes the others that sleep there.
Start(p) ==
    LET b == op[p].b
        d0 == Least(vq.free)
        d1 == Least(vq.free \ {d0})
        d2 == Least(vq.free \ {d0, d1})
        w == op[p].write
        enough == Cardinality(vq.free) >= 3
    IN  /\ At(p, "rw")
        /\ \/ /\ ~enough
              /\ asleep' = (IF vq.free = {} THEN asleep
                            ELSE asleep \ {q \in Procs : op[q].pc = "rw"}) \cup {p}
              /\ UNCHANGED <<buf, vq, op>>
           \/ /\ enough
              /\ vq' = [vq EXCEPT
                    !.free = @ \ {d0, d1, d2},
                    !.desc[d0] = [next |-> d1, more |-> TRUE, buf |-> 0, write |-> FALSE],
                    !.desc[d1] = [next |-> d2, more |-> TRUE, buf |-> b, write |-> ~w],
                    !.desc[d2] = [NoDesc EXCEPT !.write = TRUE],
                    !.info[d0] = b,
                    !.avail[vq.availidx % NUM] = d0,
                    !.availidx = (@ + 1) % WORD]
              /\ buf' = [buf EXCEPT ![b].disk = TRUE]
              /\ op' = [op EXCEPT ![p].pc = "io", ![p].id = d0]
              /\ asleep' = asleep \cup {p}
        /\ UNCHANGED <<lru, pinned, dev, platter, latest>>

\* The device takes the next request of the avail ring (an entry that has been read,
\* here or in the used ring, is not read again: 0 stands for it) ...
Take ==
    /\ dev.seen # vq.availidx
    /\ dev' = [dev EXCEPT !.taken = @ \cup {vq.avail[dev.seen % NUM]}, !.seen = (@ + 1) % WORD]
    /\ vq' = [vq EXCEPT !.avail[dev.seen % NUM] = 0]
    /\ UNCHANGED <<buf, lru, pinned, platter, latest, op, asleep>>

\* ... and finishes those it has in any order: the second descriptor of the chain has
\* the buffer, and says whether the device writes it.
Finish ==
    /\ \E id \in dev.taken :
        LET d == vq.desc[vq.desc[id].next]
            k == buf[d.buf].blockno
        IN  /\ IF d.write THEN buf' = [buf EXCEPT ![d.buf].data = platter[k]] /\ UNCHANGED platter
               ELSE platter' = [platter EXCEPT ![k] = buf[d.buf].data] /\ UNCHANGED buf
            /\ vq' = [vq EXCEPT !.used[vq.usedidx % NUM] = id, !.usedidx = (@ + 1) % WORD]
            /\ dev' = [dev EXCEPT !.taken = @ \ {id}, !.irq = TRUE]
    /\ UNCHANGED <<lru, pinned, latest, op, asleep>>

\* The requests between the driver's index and the device's in the used ring.
Done == {vq.used[((vq.used_idx + j) % WORD) % NUM] : j \in 0..((vq.usedidx - vq.used_idx) % WORD) - 1}

\* virtio_disk_intr(): acknowledge, then every completion there is.
virtio_disk_intr ==
    LET bs == {vq.info[id] : id \in Done}
    IN  /\ dev.irq
        /\ dev' = [dev EXCEPT !.irq = FALSE]
        /\ buf' = [b \in Bufs |-> IF b \in bs THEN [buf[b] EXCEPT !.disk = FALSE] ELSE buf[b]]
        /\ asleep' = asleep \ {p \in Procs : op[p].pc = "io" /\ op[p].b \in bs}
        /\ vq' = [vq EXCEPT !.used_idx = vq.usedidx, !.used = [i \in Descs |-> 0]]
        /\ UNCHANGED <<lru, pinned, platter, latest, op>>

\* free_chain() follows next as long as more says so.
Chain(id) == LET d == vq.desc IN
    {id} \cup (IF d[id].more THEN {d[id].next} ELSE {})
         \cup (IF d[id].more /\ d[d[id].next].more THEN {d[d[id].next].next} ELSE {})

\* Faulty End: whatever woke the process, the disk is taken to be done.
EndEarly(p) ==
    LET o == op[p]
        ids == Chain(o.id)
    IN  /\ At(p, "io")
        /\ vq' = [vq EXCEPT !.info[o.id] = 0, !.free = @ \cup ids,
                            !.desc = [i \in Descs |-> IF i \in ids THEN NoDesc ELSE @[i]]]
        /\ asleep' = asleep \ {q \in Procs : op[q].pc = "rw"}
        /\ buf' = [buf EXCEPT ![o.b].valid = TRUE]
        /\ op' = [op EXCEPT ![p].pc = "use", ![p].write = FALSE, ![p].id = 0]
        /\ UNCHANGED <<lru, pinned, dev, platter, latest>>

\* Faulty End: the first descriptor only goes back.
EndOne(p) ==
    LET o == op[p]
    IN  /\ At(p, "io") /\ ~buf[o.b].disk
        /\ vq' = [vq EXCEPT !.info[o.id] = 0, !.free = @ \cup {o.id}, !.desc[o.id] = NoDesc]
        /\ asleep' = asleep \ {q \in Procs : op[q].pc = "rw"}
        /\ buf' = [buf EXCEPT ![o.b].valid = TRUE]
        /\ op' = [op EXCEPT ![p].pc = "use", ![p].write = FALSE, ![p].id = 0]
        /\ UNCHANGED <<lru, pinned, dev, platter, latest>>

\* The rest of virtio_disk_rw(): the process woke, and the disk is done with b unless
\* another wakeup was meant.  bread() marks the buffer valid.
End(p) ==
    LET o == op[p]
        ids == Chain(o.id)
    IN  /\ At(p, "io")
        /\ \/ /\ buf[o.b].disk /\ asleep' = asleep \cup {p}
              /\ UNCHANGED <<buf, vq, op>>
           \/ /\ ~buf[o.b].disk
              /\ vq' = [vq EXCEPT !.info[o.id] = 0, !.free = @ \cup ids,
                                  !.desc = [i \in Descs |-> IF i \in ids THEN NoDesc ELSE @[i]]]
              /\ asleep' = asleep \ {q \in Procs : op[q].pc = "rw"}
              /\ buf' = [buf EXCEPT ![o.b].valid = TRUE]
              /\ op' = [op EXCEPT ![p].pc = "use", ![p].write = FALSE, ![p].id = 0]
        /\ UNCHANGED <<lru, pinned, dev, platter, latest>>

\* kill(): whoever sleeps runs, and finds in its loop that nothing has happened.
Kill(p) ==
    /\ p \in asleep /\ asleep' = asleep \ {p}
    /\ UNCHANGED <<buf, lru, pinned, vq, dev, platter, latest, op>>

-----------------------------------------------------------------------------
Step(p) == acquiresleep(p) \/ Start(p) \/ End(p) \/ brelse(p)
Next ==
    \/ Take \/ Finish \/ virtio_disk_intr
    \/ \E p \in Procs :
          \/ Step(p) \/ Kill(p) \/ Store(p) \/ bwrite(p) \/ bpin(p) \/ bunpin(p) \/ releasesleep(p)
          \/ \E k \in BLOCKS : bget(p, k)
Spec == Init /\ [][Next]_vars

-----------------------------------------------------------------------------
\* The buffers, the list, the queue and the sleepers keep their types; the list names
\* every buffer.
TypeOK ==
    /\ \A b \in Bufs : buf[b].blockno \in BLOCKS \cup {None} /\ buf[b].refcnt \in Nat
                       /\ buf[b].locked \in Procs \cup {None}
                       /\ buf[b].data \in [of : BLOCKS \cup {None}, v : {0, 1}]
    /\ {lru[k] : k \in 1..NBUF} = Bufs
    /\ vq.free \subseteq Descs /\ asleep \subseteq Procs

\* bget() finds a buffer whatever the others hold: with one buffer for every process that
\* uses one and for every pinned one, panic("bget: no buffers") is out of reach.
BuffersSuffice == \A p \in Procs : op[p].pc = "idle" => HasFree

\* One buffer per block, and its count is the processes that use or wait for it and the log.
OneBuffer ==
    \A b \in Bufs :
        /\ buf[b].blockno # None => Cached(buf[b].blockno) = {b}
        /\ buf[b].refcnt = Cardinality({p \in Procs : op[p].pc # "idle" /\ op[p].b = b})
                           + Cardinality(pinned \cap {b})

\* bget(), brelse(), bpin() and bunpin(): the list and the counts keep their types, a
\* block has one buffer, and there is always a buffer for the next block.
CacheSound == TypeOK /\ OneBuffer /\ BuffersSuffice

\* What bread() returns is what was last stored into the block, through recycling,
\* pinning, and completions out of order; the disk never touches a buffer in use.
ReadsLatest ==
    \A p \in Procs : op[p].pc = "use" =>
        LET b == buf[op[p].b] IN b.locked = p /\ b.data = latest[b.blockno]

\* Each request under way has three descriptors of its own, and all others are free.
ChainsDisjoint ==
    LET ios == {p \in Procs : op[p].pc = "io"}
    IN  /\ \A p \in ios : Cardinality(Chain(op[p].id)) = 3 /\ vq.info[op[p].id] = op[p].b
        /\ \A p, q \in ios : p # q => Chain(op[p].id) \cap Chain(op[q].id) = {}
        /\ vq.free = Descs \ UNION {Chain(op[p].id) : p \in ios}

\* No wakeup is lost: who sleeps for a buffer finds it locked, who sleeps for
\* descriptors finds fewer than three, who sleeps for the disk has a request under way.
NoLostWakeup ==
    \A p \in asleep :
        CASE op[p].pc = "lock" -> buf[op[p].b].locked # None
          [] op[p].pc = "rw" -> Cardinality(vq.free) < 3
          [] op[p].pc = "io" -> /\ buf[op[p].b].disk
                                /\ op[p].id \in dev.taken \cup Done \cup
                                     {vq.avail[((dev.seen + j) % WORD) % NUM] :
                                        j \in 0..((vq.availidx - dev.seen) % WORD) - 1}
                                /\ (op[p].id \in Done => dev.irq)
=============================================================================
