----------------------------- MODULE PrivateMem -----------------------------
(***************************************************************************)
(* What the virtual memory system promises to user programs: every process *)
(* has memory of its own.  fork() gives the child a copy, no process ever  *)
(* sees another's stores, and a page fault changes nothing.  This is what  *)
(* uvmcopy() did before it became copy-on-write, and what its comment      *)
(* (vm.c:304-309) still states.                                            *)
(***************************************************************************)
EXTENDS Naturals

CONSTANTS Procs, MAXPAGES, Vals, Zero,
          None        \* no process

VARIABLES mem,        \* mem[p][a]: contents of page a of process p
          mode        \* "user", or why p is in the kernel: "fault", "call"; "none"

Pages(n) == 0..n-1
Images(n) == [Pages(n) -> Vals]

Init ==
    /\ mem \in [Procs -> Images(1) \cup {None}]
    /\ mode = [p \in Procs |-> IF mem[p] = None THEN "none" ELSE "user"]

Move(p, from, to) == mode[p] = from /\ mode' = [mode EXCEPT ![p] = to]

\* p is in the kernel and back without a change to any memory.
Trap(p) ==
    /\ \E why \in {"fault", "call"} : Move(p, "user", why) \/ Move(p, why, "user")
    /\ UNCHANGED mem

\* A store by p itself, or by a system call that ends with it.
Store(p, a, v) ==
    /\ mem[p] # None /\ a \in DOMAIN mem[p]
    /\ \E from \in {"user", "call"} : Move(p, from, "user")
    /\ mem' = [mem EXCEPT ![p][a] = v]

Fork(p, c) ==
    /\ mode[p] = "call" /\ mode[c] = "none"
    /\ mode' = [mode EXCEPT ![p] = "user", ![c] = "user"]
    /\ mem' = [mem EXCEPT ![c] = mem[p]]

\* New pages are zero.
Grow(p, n) ==
    /\ Move(p, "call", "user")
    /\ DOMAIN mem[p] \subseteq Pages(n)
    /\ mem' = [mem EXCEPT ![p] =
                 [a \in Pages(n) |-> IF a \in DOMAIN mem[p] THEN mem[p][a] ELSE Zero]]

\* Pages are given back one at a time.
Shrink(p, a) ==
    /\ mode[p] = "call" /\ a \in DOMAIN mem[p]
    /\ mem' = [mem EXCEPT ![p] = [b \in DOMAIN mem[p] \ {a} |-> mem[p][b]]]
    /\ UNCHANGED mode

Exec(p, image) ==
    /\ mode[p] = "call"
    /\ mem' = [mem EXCEPT ![p] = image]
    /\ UNCHANGED mode

Exit(p) ==
    /\ mem[p] # None
    /\ mem' = [mem EXCEPT ![p] = None]
    /\ mode' = [mode EXCEPT ![p] = "none"]

Next ==
    \E p \in Procs :
        \/ Trap(p) \/ Exit(p)
        \/ \E a \in Pages(MAXPAGES), v \in Vals : Store(p, a, v)
        \/ \E c \in Procs : Fork(p, c)
        \/ \E n \in 1..MAXPAGES : Grow(p, n) \/ \E image \in Images(n) : Exec(p, image)
        \/ \E a \in Pages(MAXPAGES) : Shrink(p, a)

Spec == Init /\ [][Next]_<<mem, mode>>
=============================================================================
