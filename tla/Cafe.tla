-------------------------------- MODULE Cafe --------------------------------
(***************************************************************************)
(* The cafe simulation, concurrency/1.c: one thread per customer, one      *)
(* semaphore per barista, two totals.                                      *)
(*                                                                         *)
(* Time is in whole seconds.  A thread that can go on does so before the   *)
(* next second; reading tv_sec may be up to SLIP seconds ahead of the time *)
(* slept, because it truncates.                                            *)
(***************************************************************************)
EXTENDS Integers, FiniteSets

CONSTANTS
    Customers,
    NBARISTAS,      \* num_baristas
    ARRIVALS, TOLERANCES, PREPTIMES,    \* values the input may contain
    SLIP

ASSUME CafeAssumption ==
    /\ IsFiniteSet(Customers) /\ Customers # {}
    /\ NBARISTAS \in Nat \ {0} /\ SLIP \in Nat
    /\ ARRIVALS \subseteq Nat /\ TOLERANCES \subseteq Nat /\ PREPTIMES \subseteq Nat

VARIABLES
    input,          \* arrival_time, tolerance and preparation time of each customer
    sem,            \* baristaSemaphores[]
    cust,           \* each customer thread: where it is, i, the time it wakes, current_time
    coffee_waste, waiting_time,
    now,
    report          \* what main() printed: the totals, or << >>

vars == <<input, sem, cust, coffee_waste, waiting_time, now, report>>

Baristas == 1..NBARISTAS
NotHere == [pc |-> "arriving", i |-> 1, wake |-> 0, t |-> 0]

Init ==
    /\ input \in [Customers -> [arrival : ARRIVALS, tolerance : TOLERANCES, prep : PREPTIMES]]
    /\ sem = [b \in Baristas |-> 1]
    /\ cust = [c \in Customers |-> [NotHere EXCEPT !.wake = input[c].arrival]]
    /\ coffee_waste = 0 /\ waiting_time = 0
    /\ now = 0
    /\ report = << >>

Move(c, pc) == cust' = [cust EXCEPT ![c].pc = pc]
Waited(c) == cust[c].t - input[c].arrival
Late(c) == Waited(c) > input[c].tolerance

-----------------------------------------------------------------------------
\* usleep() until the arrival time is over.
Arrive(c) ==
    /\ cust[c].pc = "arriving" /\ now >= cust[c].wake
    /\ Move(c, "poll")
    /\ UNCHANGED <<input, sem, coffee_waste, waiting_time, now, report>>

\* Faulty TryBarista: a customer looks at each barista once only.
TryBaristaOnce(c) ==
    LET i == cust[c].i
    IN  /\ cust[c].pc = "poll" /\ i <= NBARISTAS
        /\ IF sem[i] > 0
           THEN /\ sem' = [sem EXCEPT ![i] = @ - 1]
                /\ cust' = [cust EXCEPT ![c].pc = "prep", ![c].wake = now + input[c].prep]
           ELSE /\ cust' = [cust EXCEPT ![c].i = i + 1]
                /\ UNCHANGED sem
        /\ UNCHANGED <<input, coffee_waste, waiting_time, now, report>>

\* sem_trywait() of barista i; the loop goes round until one succeeds, and
\* preparation begins.
TryBarista(c) ==
    LET i == cust[c].i
    IN  /\ cust[c].pc = "poll"
        /\ IF sem[i] > 0
           THEN /\ sem' = [sem EXCEPT ![i] = @ - 1]
                /\ cust' = [cust EXCEPT ![c].pc = "prep", ![c].wake = now + input[c].prep]
           ELSE /\ cust' = [cust EXCEPT ![c].i = IF i = NBARISTAS THEN 1 ELSE i + 1]
                /\ UNCHANGED sem
        /\ UNCHANGED <<input, coffee_waste, waiting_time, now, report>>

\* The coffee is ready and current_time is read.
Prepared(c) ==
    /\ cust[c].pc = "prep" /\ now >= cust[c].wake
    /\ \E slip \in 0..SLIP :
          cust' = [cust EXCEPT ![c].t = now + slip, ![c].pc = "ready"]
    /\ UNCHANGED <<input, sem, coffee_waste, waiting_time, now, report>>

\* Faulty Leave: the waste is counted for every customer.
LeaveAlways(c) ==
    /\ cust[c].pc = "ready"
    /\ coffee_waste' = coffee_waste + 1
    /\ Move(c, "complete")
    /\ UNCHANGED <<input, sem, waiting_time, now, report>>

\* An impatient customer has left: counted under print_mutex.
Leave(c) ==
    /\ cust[c].pc = "ready"
    /\ IF Late(c)
       THEN /\ coffee_waste' = coffee_waste + 1
            /\ waiting_time' = waiting_time + input[c].tolerance
       ELSE UNCHANGED <<coffee_waste, waiting_time>>
    /\ Move(c, "complete")
    /\ UNCHANGED <<input, sem, now, report>>

\* The order is complete.  The addition is outside the if above it, whatever
\* its indentation says.
Complete(c) ==
    /\ cust[c].pc = "complete"
    /\ waiting_time' = waiting_time + Waited(c)
    /\ Move(c, "post")
    /\ UNCHANGED <<input, sem, coffee_waste, now, report>>

\* Faulty Post: the barista is released twice.
PostTwice(c) ==
    /\ cust[c].pc = "post"
    /\ sem' = [sem EXCEPT ![cust[c].i] = @ + 2]
    /\ Move(c, "done")
    /\ UNCHANGED <<input, coffee_waste, waiting_time, now, report>>

Post(c) ==
    /\ cust[c].pc = "post"
    /\ sem' = [sem EXCEPT ![cust[c].i] = @ + 1]
    /\ Move(c, "done")
    /\ UNCHANGED <<input, coffee_waste, waiting_time, now, report>>

\* main() joins the threads and prints the totals.
Report ==
    /\ report = << >> /\ \A c \in Customers : cust[c].pc = "done"
    /\ report' = <<coffee_waste, waiting_time \div Cardinality(Customers)>>
    /\ UNCHANGED <<input, sem, cust, coffee_waste, waiting_time, now>>

\* A second passes when every thread sleeps, polls in vain or has ended.
Asleep(c) == cust[c].pc \in {"arriving", "prep"} /\ cust[c].wake > now
Tick ==
    /\ \E c \in Customers : Asleep(c)
    /\ \A c \in Customers :
          Asleep(c) \/ cust[c].pc = "done" \/ (cust[c].pc = "poll" /\ \A b \in Baristas : sem[b] = 0)
    /\ now' = now + 1
    /\ UNCHANGED <<input, sem, cust, coffee_waste, waiting_time, report>>

CustomerThread(c) ==
    Arrive(c) \/ TryBarista(c) \/ Prepared(c) \/ Leave(c) \/ Complete(c) \/ Post(c)

Next == (\E c \in Customers : CustomerThread(c)) \/ Report \/ Tick

Spec == Init /\ [][Next]_vars

\* Every thread runs, and time passes.
Fairness == (\A c \in Customers : WF_vars(CustomerThread(c))) /\ WF_vars(Tick) /\ WF_vars(Report)
FairSpec == Spec /\ Fairness

-----------------------------------------------------------------------------
Pcs == {"arriving", "poll", "prep", "ready", "complete", "post", "done"}
TypeOK ==
    /\ input \in [Customers -> [arrival : ARRIVALS, tolerance : TOLERANCES, prep : PREPTIMES]]
    /\ sem \in [Baristas -> Nat]
    /\ cust \in [Customers -> [pc : Pcs, i : Baristas, wake : Nat, t : Nat]]
    /\ coffee_waste \in Nat /\ waiting_time \in Nat /\ now \in Nat

\* src/README.md:260: each barista handles one order at a time, and is free
\* exactly when its semaphore says so, through every interleaving of the
\* polling loops.
Served(b) == {c \in Customers : cust[c].pc \in {"prep", "ready", "complete", "post"} /\ cust[c].i = b}
OneOrderAtATime == \A b \in Baristas : Cardinality(Served(b)) + sem[b] = 1

\* The waste counts exactly the customers that left without their order.
Gone == {c \in Customers : cust[c].pc \in {"complete", "post", "done"}}
WasteIsExact == coffee_waste = Cardinality({c \in Gone : Late(c)})

\* Polling never starves a customer: every coffee is made and main() reports.
EveryoneIsServed == <>(report # << >>)
=============================================================================
