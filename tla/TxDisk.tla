------------------------------- MODULE TxDisk -------------------------------
(***************************************************************************)
(* What the logging layer (kernel/log.c) promises to file system calls:   *)
(* a disk whose contents change by whole groups of completed calls.       *)
(*                                                                         *)
(*   durable   what the disk holds after a crash at this moment           *)
(*   current   what file system calls see (the buffer cache)              *)
(*   active    the calls between begin_op() and end_op()                  *)
(*                                                                         *)
(* The header comment of log.c (lines 10-31) states it in words: a         *)
(* transaction holds the updates of several calls and is only committed    *)
(* when no call is active, so an uncompleted call is never made durable.   *)
(***************************************************************************)
CONSTANTS Procs, Blocks, Vals

VARIABLES durable, current, active
vars == <<durable, current, active>>

Init ==
    /\ durable \in [Blocks -> Vals]
    /\ current = durable
    /\ active = {}

Begin(p) ==
    /\ p \notin active
    /\ active' = active \cup {p}
    /\ UNCHANGED <<durable, current>>

Write(p, b, v) ==
    /\ p \in active
    /\ current' = [current EXCEPT ![b] = v]
    /\ UNCHANGED <<durable, active>>

End(p) ==
    /\ p \in active
    /\ active' = active \ {p}
    /\ UNCHANGED <<durable, current>>

\* Everything written so far becomes durable at once, and only when every
\* call that wrote it has ended.
Commit ==
    /\ active = {}
    /\ durable' = current
    /\ UNCHANGED <<current, active>>

Crash ==
    /\ current' = durable
    /\ active' = {}
    /\ UNCHANGED durable

Next ==
    \/ \E p \in Procs :
         \/ Begin(p)
         \/ End(p)
         \/ \E b \in Blocks, v \in Vals : Write(p, b, v)
    \/ Commit
    \/ Crash

Spec == Init /\ [][Next]_vars
=============================================================================
