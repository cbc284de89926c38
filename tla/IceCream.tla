------------------------------ MODULE IceCream ------------------------------
(***************************************************************************)
(* The ice cream parlour simulation, concurrency/2.c: a thread per         *)
(* machine, per customer and per order of an accepted customer.            *)
(*                                                                         *)
(* Time is in whole seconds.  A thread that can go on does so before the   *)
(* next second.  Toppings are left out: parseCustomerOrder() keeps only    *)
(* toppings that exist, so the check on them never fails, and nothing      *)
(* uses their quantities.                                                  *)
(***************************************************************************)
EXTENDS Integers, Sequences, FiniteSets, FiniteSetsExt

CONSTANTS
    NMACHINES, K,       \* N and K of the input
    MStart, MEnd,       \* start_time and end_time of each machine
    Customers, Arrival, \* arrival_time of each customer
    Orders,             \* the flavours each customer orders
    Prep                \* preparation_time of the flavours on sale

Machines == 1..NMACHINES

ASSUME IceCreamAssumption ==
    /\ NMACHINES \in Nat \ {0} /\ K \in Nat /\ IsFiniteSet(Customers)
    /\ MStart \in [Machines -> Nat] /\ MEnd \in [Machines -> Nat]
    /\ \A m \in Machines : MStart[m] <= MEnd[m]
    /\ Arrival \in [Customers -> Nat]
    /\ DOMAIN Orders = Customers
    /\ Prep \in [DOMAIN Prep -> Nat]

VARIABLES
    mach,               \* where each machine thread is
    isAvailable, machine_sem,
    customer_sem,
    machineTimeAvailable,
    cust,               \* each customer thread: where it is, i, flag
    order,              \* each order thread: where it is, its machine, when it wakes
    now,
    exited              \* main() has returned

vars == <<mach, isAvailable, machine_sem, customer_sem, machineTimeAvailable, cust, order, now, exited>>

OrderIds == UNION {{<<c, i>> : i \in DOMAIN Orders[c]} : c \in Customers}
OnSale(c) == \A i \in DOMAIN Orders[c] : Orders[c][i] \in DOMAIN Prep
TotalTime(c) == MapThenSumSet(LAMBDA i : Prep[Orders[c][i]], DOMAIN Orders[c])
AllTime == MapThenSumSet(LAMBDA m : MEnd[m] - MStart[m], Machines)

\* A customer orders finitely many ice creams, and the times add up to numbers.
ASSUME OrdersAssumption ==
    /\ IsFiniteSet(OrderIds)
    /\ AllTime \in Nat /\ \A c \in Customers : OnSale(c) => TotalTime(c) \in Nat

Init ==
    /\ mach = [m \in Machines |-> "off"]
    /\ isAvailable = [m \in Machines |-> TRUE]
    /\ machine_sem = [m \in Machines |-> 0]
    /\ customer_sem = K
    /\ machineTimeAvailable = AllTime
    /\ cust = [c \in Customers |-> [pc |-> "arriving", i |-> 1, flag |-> FALSE]]
    /\ order = [o \in OrderIds |-> [pc |-> "none", i |-> 1, wake |-> 0]]
    /\ now = 0
    /\ exited = FALSE

-----------------------------------------------------------------------------
\* machine_thread(): two posts when the machine starts ...
MachineStart(m) ==
    /\ \/ mach[m] = "off" /\ now >= MStart[m] /\ mach' = [mach EXCEPT ![m] = "starting"]
       \/ mach[m] = "starting" /\ mach' = [mach EXCEPT ![m] = "on"]
    /\ machine_sem' = [machine_sem EXCEPT ![m] = @ + 1]
    /\ UNCHANGED <<isAvailable, customer_sem, machineTimeAvailable, cust, order, now, exited>>

\* ... and no longer available when it stops.
MachineStop(m) ==
    /\ mach[m] = "on" /\ now >= MEnd[m]
    /\ mach' = [mach EXCEPT ![m] = "stopped"]
    /\ isAvailable' = [isAvailable EXCEPT ![m] = FALSE]
    /\ UNCHANGED <<machine_sem, customer_sem, machineTimeAvailable, cust, order, now, exited>>

-----------------------------------------------------------------------------
MoveTo(c, pc) == cust' = [cust EXCEPT ![c].pc = pc]

\* The customer leaves unserviced and gives its place back.
Unserviced(c) ==
    /\ MoveTo(c, "unserviced")
    /\ customer_sem' = customer_sem + 1

\* customer_thread(): arrive and wait for one of the K places ...
Enter(c) ==
    /\ cust[c].pc = "arriving" /\ now >= Arrival[c] /\ customer_sem > 0
    /\ customer_sem' = customer_sem - 1
    /\ MoveTo(c, "check")
    /\ UNCHANGED <<mach, isAvailable, machine_sem, machineTimeAvailable, order, now, exited>>

\* ... every flavour is on sale and the machine time left, read without its
\* lock, suffices ...
CheckOrder(c) ==
    /\ cust[c].pc = "check"
    /\ IF OnSale(c) /\ TotalTime(c) <= machineTimeAvailable
       THEN MoveTo(c, "machines") /\ UNCHANGED customer_sem
       ELSE Unserviced(c)
    /\ UNCHANGED <<mach, isAvailable, machine_sem, machineTimeAvailable, order, now, exited>>

\* Faulty CheckMachines: the loop counter does not advance.
CheckMachinesStuck(c) ==
    /\ cust[c].pc = "machines"
    /\ cust' = [cust EXCEPT ![c].flag = ~@]
    /\ UNCHANGED <<mach, isAvailable, machine_sem, customer_sem, machineTimeAvailable, order, now, exited>>

\* ... for each order some machine runs long enough after the arrival; flag is
\* not reset between orders ...
Fits(c, i, m) ==
    isAvailable[m] /\ MStart[m] <= Arrival[c] /\ MEnd[m] >= Arrival[c] + Prep[Orders[c][i]]
CheckMachines(c) ==
    LET i == cust[c].i
        flag == cust[c].flag \/ \E m \in Machines : Fits(c, i, m)
    IN  /\ cust[c].pc = "machines"
        /\ IF i > Len(Orders[c]) THEN MoveTo(c, "deduct") /\ UNCHANGED customer_sem
           ELSE IF flag
           THEN /\ cust' = [cust EXCEPT ![c].i = i + 1, ![c].flag = TRUE]
                /\ UNCHANGED customer_sem
           ELSE Unserviced(c)
        /\ UNCHANGED <<mach, isAvailable, machine_sem, machineTimeAvailable, order, now, exited>>

\* ... then the time is deducted under its lock ...
Deduct(c) ==
    /\ cust[c].pc = "deduct"
    /\ machineTimeAvailable' = machineTimeAvailable - TotalTime(c)
    /\ MoveTo(c, "spawn")
    /\ UNCHANGED <<mach, isAvailable, machine_sem, customer_sem, order, now, exited>>

\* ... and an order thread starts for each order.  The place is not given back.
Spawn(c) ==
    /\ cust[c].pc = "spawn"
    /\ order' = [o \in OrderIds |-> IF o[1] = c THEN [order[o] EXCEPT !.pc = "look"] ELSE order[o]]
    /\ MoveTo(c, "accepted")
    /\ UNCHANGED <<mach, isAvailable, machine_sem, customer_sem, machineTimeAvailable, now, exited>>

-----------------------------------------------------------------------------
NextMachine(i) == IF i = NMACHINES THEN 1 ELSE i + 1

\* single_order_thread(): look at isAvailable of machine i ...
Look(o) ==
    /\ order[o].pc = "look"
    /\ order' = [order EXCEPT ![o] = IF isAvailable[order[o].i] THEN [order[o] EXCEPT !.pc = "try"]
                                     ELSE [order[o] EXCEPT !.i = NextMachine(order[o].i)]]
    /\ UNCHANGED <<mach, isAvailable, machine_sem, customer_sem, machineTimeAvailable, cust, now, exited>>

\* ... sem_trywait() it, and prepare the ice cream ...
Try(o) ==
    LET i == order[o].i
    IN  /\ order[o].pc = "try"
        /\ IF machine_sem[i] > 0
           THEN /\ machine_sem' = [machine_sem EXCEPT ![i] = @ - 1]
                /\ order' = [order EXCEPT ![o].pc = "prep", ![o].wake = now + Prep[Orders[o[1]][o[2]]]]
           ELSE /\ order' = [order EXCEPT ![o].pc = "look", ![o].i = NextMachine(@)]
                /\ UNCHANGED machine_sem
        /\ UNCHANGED <<mach, isAvailable, customer_sem, machineTimeAvailable, cust, now, exited>>

\* Faulty Finish: the machine is not released.
FinishNoPost(o) ==
    /\ order[o].pc = "prep" /\ now >= order[o].wake
    /\ order' = [order EXCEPT ![o].pc = "done"]
    /\ UNCHANGED <<mach, isAvailable, machine_sem, customer_sem, machineTimeAvailable, cust, now, exited>>

\* ... and release the machine.
Finish(o) ==
    /\ order[o].pc = "prep" /\ now >= order[o].wake
    /\ order' = [order EXCEPT ![o].pc = "done"]
    /\ machine_sem' = [machine_sem EXCEPT ![order[o].i] = @ + 1]
    /\ UNCHANGED <<mach, isAvailable, customer_sem, machineTimeAvailable, cust, now, exited>>

-----------------------------------------------------------------------------
\* main() joins the customers and the machines, not the orders, and returns.
Ended(c) == cust[c].pc \in {"unserviced", "accepted"}
MainReturns ==
    /\ \A c \in Customers : Ended(c)
    /\ \A m \in Machines : mach[m] = "stopped"
    /\ exited' = TRUE
    /\ UNCHANGED <<mach, isAvailable, machine_sem, customer_sem, machineTimeAvailable, cust, order, now>>

\* A second passes when every thread sleeps, waits, polls in vain or has ended.
MachineSleeps(m) ==
    (mach[m] = "off" /\ MStart[m] > now) \/ (mach[m] = "on" /\ MEnd[m] > now)
CustomerSleeps(c) == cust[c].pc = "arriving" /\ Arrival[c] > now
OrderSleeps(o) == order[o].pc = "prep" /\ order[o].wake > now
Tick ==
    /\ \/ \E m \in Machines : MachineSleeps(m)
       \/ \E c \in Customers : CustomerSleeps(c)
       \/ \E o \in OrderIds : OrderSleeps(o)
    /\ \A m \in Machines : MachineSleeps(m) \/ mach[m] = "stopped"
    /\ \A c \in Customers :
          CustomerSleeps(c) \/ Ended(c) \/ (cust[c].pc = "arriving" /\ customer_sem = 0)
    /\ \A o \in OrderIds :
          \/ OrderSleeps(o) \/ order[o].pc \in {"none", "done"}
          \/ order[o].pc = "look" /\ \A m \in Machines : ~isAvailable[m] \/ machine_sem[m] = 0
    /\ now' = now + 1
    /\ UNCHANGED <<mach, isAvailable, machine_sem, customer_sem, machineTimeAvailable, cust, order, exited>>

MachineThread(m) == ~exited /\ (MachineStart(m) \/ MachineStop(m))
CustomerThread(c) ==
    ~exited /\ (Enter(c) \/ CheckOrder(c) \/ CheckMachines(c) \/ Deduct(c) \/ Spawn(c))
OrderThread(o) == ~exited /\ (Look(o) \/ Try(o) \/ Finish(o))

Next ==
    \/ \E m \in Machines : MachineThread(m)
    \/ \E c \in Customers : CustomerThread(c)
    \/ \E o \in OrderIds : OrderThread(o)
    \/ ~exited /\ (MainReturns \/ Tick)

Spec == Init /\ [][Next]_vars

\* Every thread runs, and time passes.
Fairness ==
    /\ \A m \in Machines : WF_vars(MachineThread(m))
    /\ \A c \in Customers : WF_vars(CustomerThread(c))
    /\ \A o \in OrderIds : WF_vars(OrderThread(o))
    /\ WF_vars(~exited /\ Tick)
FairSpec == Spec /\ Fairness

-----------------------------------------------------------------------------
TypeOK ==
    /\ mach \in [Machines -> {"off", "starting", "on", "stopped"}]
    /\ isAvailable \in [Machines -> BOOLEAN]
    /\ machine_sem \in [Machines -> 0..2]
    /\ customer_sem \in 0..K
    /\ machineTimeAvailable \in Int
    /\ cust \in [Customers -> [pc : {"arriving", "check", "machines", "deduct", "spawn",
                                     "accepted", "unserviced"}, i : Nat, flag : BOOLEAN]]
    /\ order \in [OrderIds -> [pc : {"none", "look", "try", "prep", "done"},
                               i : Machines, wake : Nat]]
    /\ now \in Nat /\ exited \in BOOLEAN

\* A machine's semaphore and the orders it prepares add up to the posts of its
\* thread: two once it is on, so it prepares up to two ice creams at a time.
Posts(m) == CASE mach[m] = "off" -> 0 [] mach[m] = "starting" -> 1 [] OTHER -> 2
On(m) == {o \in OrderIds : order[o].pc = "prep" /\ order[o].i = m}
MachineLoad == \A m \in Machines : Cardinality(On(m)) + machine_sem[m] = Posts(m)

\* A place of the parlour is free, taken, or kept by an accepted customer for
\* good: at most K customers are ever accepted.
Places == Cardinality({c \in Customers : cust[c].pc \notin {"arriving", "unserviced"}})
PlacesAddUp == customer_sem + Places = K

\* Both kinds of semaphores count what they stand for: free halves of a machine, and
\* free places of the parlour.
SemaphoresAddUp == TypeOK /\ MachineLoad /\ PlacesAddUp

\* 2.c:282: what is promised never exceeds the machine time available.
TimeNonNegative == machineTimeAvailable >= 0

\* Every customer thread ends or is left waiting for a place when all K are kept.
CustomersSettle ==
    \A c \in Customers : <>[](Ended(c) \/ (cust[c].pc = "arriving" /\ customer_sem = 0))
=============================================================================
