--------------------------- MODULE IceCreamProofs ---------------------------
(***************************************************************************)
(* Proofs about the ice cream parlour, for any number of machines,         *)
(* customers and places, any opening hours and any orders.                 *)
(***************************************************************************)
EXTENDS IceCream, FiniteSetTheorems, TLAPS

\* What SemaphoresAddUp needs to be inductive.  customer_thread() goes on past its first
\* check only with flavours on sale, so preparation times are numbers, and it starts its
\* order threads once, so starting them takes no order off a machine.
ThreadsInv ==
    /\ \A c \in Customers :
          cust[c].pc \in {"machines", "deduct", "spawn", "accepted"} => OnSale(c)
    /\ \A o \in OrderIds : order[o].pc # "none" => cust[o[1]].pc = "accepted"

ParlourInv == SemaphoresAddUp /\ ThreadsInv

-----------------------------------------------------------------------------
\* One more element, one more in the cardinality.
LEMMA AddOne ==
    ASSUME NEW S, IsFiniteSet(S), NEW T, NEW x, x \notin S, T = S \cup {x}
    PROVE  Cardinality(T) = Cardinality(S) + 1
BY FS_AddElement

\* An order names its customer and a place in their list.
LEMMA OrderIdFacts ==
    ASSUME NEW o \in OrderIds
    PROVE  o[1] \in Customers /\ o[2] \in DOMAIN Orders[o[1]]
BY DEF OrderIds

\* The orders at a machine and the customers in any state are finitely many.
LEMMA Finite ==
    /\ \A m : IsFiniteSet(On(m)) /\ Cardinality(On(m)) \in Nat
    /\ \A S : S \subseteq Customers => IsFiniteSet(S) /\ Cardinality(S) \in Nat
<1>1. ASSUME NEW m PROVE IsFiniteSet(On(m)) /\ Cardinality(On(m)) \in Nat
    BY OrdersAssumption, FS_Subset, FS_CardinalityType DEF On
<1>2. ASSUME NEW S, S \subseteq Customers PROVE IsFiniteSet(S) /\ Cardinality(S) \in Nat
    BY <1>2, IceCreamAssumption, FS_Subset, FS_CardinalityType
<1> QED
    BY <1>1, <1>2

-----------------------------------------------------------------------------
\* No machine starts and no order changes hands: machines and orders add up as before.
LEMMA MachinesSame ==
    ASSUME MachineLoad, UNCHANGED <<mach, machine_sem>>,
           \A m \in Machines : On(m)' = On(m)
    PROVE  MachineLoad'
<1> SUFFICES ASSUME NEW m \in Machines
             PROVE  Cardinality(On(m)') + machine_sem'[m] = Posts(m)'
    BY DEF MachineLoad, Machines
<1> QED
    BY DEF MachineLoad, Posts

\* Nobody comes in or gives a place back: the places add up as before.
Inside == {c \in Customers : cust[c].pc \notin {"arriving", "unserviced"}}
LEMMA PlacesSame ==
    ASSUME PlacesAddUp, UNCHANGED customer_sem, Inside' = Inside
    PROVE  PlacesAddUp'
BY ZenonT(30) DEF PlacesAddUp, Places, Inside

\* c gives its place back.
LEMMA UnservicedPlaces ==
    ASSUME TypeOK, PlacesAddUp, NEW c \in Customers,
           cust[c].pc \notin {"arriving", "unserviced"}, Unserviced(c)
    PROVE  PlacesAddUp' /\ customer_sem' \in 0..K
<1> USE IceCreamAssumption
<1>1. Inside' = Inside \ {c} /\ c \in Inside
    BY DEF Inside, Unserviced, MoveTo, TypeOK
<1>2. IsFiniteSet(Inside) /\ Cardinality(Inside) \in Nat /\ Cardinality(Inside \ {c}) \in Nat
    BY Finite DEF Inside
<1>3. Cardinality(Inside') = Cardinality(Inside) - 1
    BY ZenonT(30), <1>1, <1>2, FS_RemoveElement
<1>4. customer_sem' = customer_sem + 1 /\ customer_sem \in Nat
    BY DEF Unserviced, TypeOK
<1>5. customer_sem + Cardinality(Inside) = K
    BY DEF PlacesAddUp, Places, Inside
<1>6. customer_sem' + Cardinality(Inside') = K
    BY <1>2, <1>3, <1>4, <1>5
<1>7. customer_sem' \in 0..K
    BY <1>1, <1>2, <1>4, <1>6
<1> QED
    BY ZenonT(30), <1>6, <1>7 DEF PlacesAddUp, Places, Inside

-----------------------------------------------------------------------------
\* main() before the threads start.
LEMMA InitInv == Init => ParlourInv
<1> SUFFICES ASSUME Init PROVE ParlourInv
    OBVIOUS
<1> USE IceCreamAssumption, OrdersAssumption
<1>1. TypeOK
  <2>1. 1 \in Machines
      BY DEF Machines
  <2>2. /\ mach \in [Machines -> {"off", "starting", "on", "stopped"}]
        /\ machine_sem \in [Machines -> 0..2] /\ customer_sem \in 0..K
        /\ machineTimeAvailable \in Int /\ now \in Nat
      BY DEF Init
  <2>3. isAvailable \in [Machines -> BOOLEAN] /\ exited \in BOOLEAN
      BY ZenonT(30) DEF Init
  <2>4. 1 \in Nat /\ 0 \in Nat
      OBVIOUS
  <2>5. cust \in [Customers -> [pc : {"arriving", "check", "machines", "deduct", "spawn",
                                     "accepted", "unserviced"}, i : Nat, flag : BOOLEAN]]
      BY <2>4, Zenon DEF Init
  <2>6. order \in [OrderIds -> [pc : {"none", "look", "try", "prep", "done"},
                               i : Machines, wake : Nat]]
      BY <2>1, <2>4 DEF Init
  <2> QED
      BY ZenonT(30), <2>2, <2>3, <2>5, <2>6 DEF TypeOK
<1>2. MachineLoad
  <2> SUFFICES ASSUME NEW m \in Machines PROVE Cardinality(On(m)) + machine_sem[m] = Posts(m)
      BY DEF MachineLoad
  <2>1. On(m) = {}
      BY DEF On, Init
  <2> QED
      BY <2>1, FS_EmptySet DEF Init, Posts
<1>3. PlacesAddUp
  <2>1. Inside = {}
      BY DEF Inside, Init
  <2>2. Cardinality(Inside) = 0 /\ customer_sem = K
      BY ZenonT(30), <2>1, FS_EmptySet DEF Init
  <2> QED
      BY <2>2 DEF PlacesAddUp, Places, Inside
<1>4. ThreadsInv
    BY DEF Init, ThreadsInv
<1> QED
    BY ZenonT(30), <1>1, <1>2, <1>3, <1>4 DEF ParlourInv, SemaphoresAddUp

\* machine_thread() posts its semaphore a first or a second time.
LEMMA MachineStartInv == ASSUME ParlourInv, NEW m \in Machines, MachineStart(m) PROVE ParlourInv'
<1> USE DEF ParlourInv, SemaphoresAddUp
<1>1. \A k \in Machines : On(k)' = On(k)
    BY DEF On, MachineStart
<1>2. /\ machine_sem' = [machine_sem EXCEPT ![m] = @ + 1]
      /\ machine_sem[m] \in 0..2
      /\ Posts(m)' = Posts(m) + 1 /\ Posts(m)' \in 0..2
      /\ \A k \in Machines : k # m => Posts(k)' = Posts(k)
      /\ mach' \in [Machines -> {"off", "starting", "on", "stopped"}]
    BY DEF MachineStart, TypeOK, Posts
<1>3. MachineLoad'
  <2> SUFFICES ASSUME NEW k \in Machines
               PROVE  Cardinality(On(k)') + machine_sem'[k] = Posts(k)'
      BY DEF MachineLoad, Machines
  <2>1. Cardinality(On(k)) + machine_sem[k] = Posts(k) /\ Cardinality(On(k)) \in Nat
      BY Finite DEF MachineLoad
  <2> QED
      BY <1>1, <1>2, <2>1 DEF TypeOK
<1>4. machine_sem[m] + 1 \in 0..2
  <2>1. Cardinality(On(m)) + machine_sem[m] = Posts(m) /\ Cardinality(On(m)) \in Nat
      BY Finite DEF MachineLoad
  <2> QED
      BY <1>2, <2>1
<1>5. TypeOK'
    BY <1>2, <1>4 DEF TypeOK, MachineStart
<1>6. PlacesAddUp' /\ ThreadsInv'
    BY PlacesSame DEF MachineStart, Inside, ThreadsInv
<1> QED
    BY <1>3, <1>5, <1>6

\* machine_thread() stops.
LEMMA MachineStopInv == ASSUME ParlourInv, NEW m \in Machines, MachineStop(m) PROVE ParlourInv'
<1> USE DEF ParlourInv, SemaphoresAddUp
<1>1. TypeOK'
    BY DEF TypeOK, MachineStop
<1>2. MachineLoad'
  <2> SUFFICES ASSUME NEW k \in Machines
               PROVE  Cardinality(On(k)') + machine_sem'[k] = Posts(k)'
      BY DEF MachineLoad, Machines
  <2>1. On(k)' = On(k) /\ machine_sem' = machine_sem
      BY DEF On, MachineStop
  <2>2. Posts(k)' = Posts(k)
      BY DEF Posts, MachineStop, TypeOK
  <2> QED
      BY ZenonT(30), <2>1, <2>2 DEF MachineLoad
<1>3. PlacesAddUp' /\ ThreadsInv'
    BY PlacesSame DEF MachineStop, Inside, ThreadsInv
<1> QED
    BY ZenonT(30), <1>1, <1>2, <1>3

-----------------------------------------------------------------------------
\* customer_thread() takes a place.
LEMMA EnterInv == ASSUME ParlourInv, NEW c \in Customers, Enter(c) PROVE ParlourInv'
<1> USE IceCreamAssumption DEF ParlourInv, SemaphoresAddUp
<1>1. /\ cust' = [cust EXCEPT ![c].pc = "check"] /\ cust[c].pc = "arriving"
      /\ customer_sem' = customer_sem - 1 /\ customer_sem > 0 /\ customer_sem \in 0..K
    BY DEF Enter, MoveTo, TypeOK
<1>2. TypeOK'
    BY <1>1 DEF TypeOK, Enter
<1>3. MachineLoad'
    BY MachinesSame DEF Enter, On
<1>4. PlacesAddUp'
  <2>1. Inside' = Inside \cup {c} /\ c \notin Inside
      BY <1>1 DEF Inside, TypeOK
  <2>2. IsFiniteSet(Inside) /\ Cardinality(Inside) \in Nat
      BY Finite DEF Inside
  <2>3. Cardinality(Inside') = Cardinality(Inside) + 1
      BY ZenonT(30), <2>1, <2>2, FS_AddElement
  <2>4. customer_sem + Cardinality(Inside) = K
      BY DEF PlacesAddUp, Places, Inside
  <2> QED
      BY <1>1, <2>2, <2>3, <2>4 DEF PlacesAddUp, Places, Inside
<1>5. ThreadsInv'
    BY <1>1, OrderIdFacts DEF ThreadsInv, Enter, TypeOK
<1> QED
    BY ZenonT(30), <1>2, <1>3, <1>4, <1>5

\* A step of customer_thread() between two states inside the parlour.
LEMMA InsideInv ==
    ASSUME ParlourInv, NEW c \in Customers, cust[c].pc \in {"check", "machines", "deduct"},
           NEW pc \in {"machines", "deduct", "spawn"}, NEW i \in Nat, NEW f \in BOOLEAN,
           cust' = [cust EXCEPT ![c] = [pc |-> pc, i |-> i, flag |-> f]], OnSale(c),
           UNCHANGED <<mach, isAvailable, machine_sem, customer_sem, order, now, exited>>,
           machineTimeAvailable' \in Int
    PROVE  ParlourInv'
<1> USE IceCreamAssumption DEF ParlourInv, SemaphoresAddUp
<1>1. TypeOK'
    BY ZenonT(30) DEF TypeOK
<1>2. MachineLoad'
    BY ZenonT(30), MachinesSame DEF On
<1>3. Inside' = Inside
    BY ZenonT(30) DEF Inside, TypeOK
<1>4. ThreadsInv'
    BY OrderIdFacts DEF ThreadsInv, TypeOK
<1> QED
    BY ZenonT(30), <1>1, <1>2, <1>3, <1>4, PlacesSame

\* customer_thread() leaves unserviced.
LEMMA UnservicedInv ==
    ASSUME ParlourInv, NEW c \in Customers, cust[c].pc \in {"check", "machines"}, Unserviced(c),
           UNCHANGED <<mach, isAvailable, machine_sem, machineTimeAvailable, order, now, exited>>
    PROVE  ParlourInv'
<1> USE IceCreamAssumption DEF ParlourInv, SemaphoresAddUp
<1>1. PlacesAddUp' /\ customer_sem' \in 0..K
    BY ZenonT(30), UnservicedPlaces
<1>2. TypeOK'
    BY <1>1 DEF TypeOK, Unserviced, MoveTo
<1>3. MachineLoad'
    BY ZenonT(30), MachinesSame DEF On
<1>4. ThreadsInv'
    BY OrderIdFacts DEF ThreadsInv, TypeOK, Unserviced, MoveTo
<1> QED
    BY ZenonT(30), <1>1, <1>2, <1>3, <1>4

\* The record of a customer with a new pc.
LEMMA MovedTo ==
    ASSUME TypeOK, NEW c \in Customers, NEW pc, MoveTo(c, pc)
    PROVE  /\ cust' = [cust EXCEPT ![c] = [pc |-> pc, i |-> cust[c].i, flag |-> cust[c].flag]]
           /\ cust[c].i \in Nat /\ cust[c].flag \in BOOLEAN
<1>1. cust[c] \in [pc : {"arriving", "check", "machines", "deduct", "spawn", "accepted",
                        "unserviced"}, i : Nat, flag : BOOLEAN]
    BY Zenon DEF TypeOK
<1>2. cust' = [cust EXCEPT ![c].pc = pc]
    BY DEF MoveTo
<1>3. cust[c].i \in Nat /\ cust[c].flag \in BOOLEAN
    BY <1>1, Zenon
<1>4. [cust[c] EXCEPT !.pc = pc] = [pc |-> pc, i |-> cust[c].i, flag |-> cust[c].flag]
    BY <1>1
<1> QED
    BY <1>2, <1>3, <1>4, Zenon

\* customer_thread() compares flavours and machine time.
LEMMA CheckOrderInv == ASSUME ParlourInv, NEW c \in Customers, CheckOrder(c) PROVE ParlourInv'
<1>0. TypeOK /\ machineTimeAvailable \in Int
    BY ZenonT(30) DEF ParlourInv, SemaphoresAddUp, TypeOK
<1>1. CASE OnSale(c) /\ TotalTime(c) <= machineTimeAvailable
  <2>1. MoveTo(c, "machines") /\ cust[c].pc = "check"
      BY ZenonT(30), <1>1 DEF CheckOrder
  <2>2. UNCHANGED <<mach, isAvailable, machine_sem, customer_sem, order, now, exited>>
        /\ machineTimeAvailable' \in Int
      BY ZenonT(30), <1>0, <1>1 DEF CheckOrder
  <2> QED
      BY <1>0, <1>1, <2>1, <2>2, MovedTo, InsideInv
<1>2. CASE ~(OnSale(c) /\ TotalTime(c) <= machineTimeAvailable)
    BY ZenonT(30), <1>2, UnservicedInv DEF CheckOrder
<1> QED
    BY ZenonT(30), <1>1, <1>2

\* customer_thread() looks for a machine for its next order.
LEMMA CheckMachinesInv == ASSUME ParlourInv, NEW c \in Customers, CheckMachines(c) PROVE ParlourInv'
<1>0. TypeOK /\ machineTimeAvailable \in Int /\ cust[c].pc = "machines" /\ OnSale(c)
    BY ZenonT(30) DEF ParlourInv, SemaphoresAddUp, TypeOK, CheckMachines, ThreadsInv
<1>1. UNCHANGED <<mach, isAvailable, machine_sem, machineTimeAvailable, order, now, exited>>
    BY DEF CheckMachines
<1>2. CASE MoveTo(c, "deduct") /\ UNCHANGED customer_sem
    BY <1>0, <1>1, <1>2, MovedTo, InsideInv
<1>3. CASE cust' = [cust EXCEPT ![c].i = cust[c].i + 1, ![c].flag = TRUE] /\ UNCHANGED customer_sem
  <2>0. cust[c] \in [pc : {"arriving", "check", "machines", "deduct", "spawn", "accepted",
                          "unserviced"}, i : Nat, flag : BOOLEAN]
      BY <1>0, Zenon DEF TypeOK
  <2>1. cust[c].i + 1 \in Nat
      BY <2>0
  <2>2. PICK n \in Nat, f \in BOOLEAN : n = cust[c].i + 1 /\ f = TRUE
      BY ZenonT(30), <2>1
  <2>3. cust' = [cust EXCEPT ![c].i = n, ![c].flag = f]
      BY ZenonT(30), <1>3, <2>2
  <2>6. c \in DOMAIN cust
      BY <1>0, Zenon DEF TypeOK
  <2>4. [[cust[c] EXCEPT !.i = n] EXCEPT !.flag = f] = [pc |-> "machines", i |-> n, flag |-> f]
    <3>1. [cust[c] EXCEPT !.i = n] = [pc |-> "machines", i |-> n, flag |-> cust[c].flag]
        BY <1>0, <2>0
    <3>2. [[pc |-> "machines", i |-> n, flag |-> cust[c].flag] EXCEPT !.flag = f]
             = [pc |-> "machines", i |-> n, flag |-> f]
        OBVIOUS
    <3> QED
        BY ZenonT(30), <3>1, <3>2
  <2>5. cust' = [cust EXCEPT ![c] = [pc |-> "machines", i |-> n, flag |-> f]]
      BY ZenonT(30), <2>3, <2>4, <2>6
  <2> QED
      BY ZenonT(30), <1>0, <1>1, <1>3, <2>5, InsideInv
<1>4. CASE Unserviced(c)
    BY ZenonT(30), <1>0, <1>1, <1>4, UnservicedInv
<1> QED
    BY ZenonT(30), <1>2, <1>3, <1>4 DEF CheckMachines

\* customer_thread() deducts the time of its orders.
LEMMA DeductInv == ASSUME ParlourInv, NEW c \in Customers, Deduct(c) PROVE ParlourInv'
<1>0. TypeOK /\ machineTimeAvailable \in Int /\ cust[c].pc = "deduct" /\ OnSale(c)
    BY DEF ParlourInv, SemaphoresAddUp, TypeOK, Deduct, ThreadsInv
<1>1. machineTimeAvailable' \in Int
    BY <1>0, OrdersAssumption DEF Deduct
<1>2. MoveTo(c, "spawn")
      /\ UNCHANGED <<mach, isAvailable, machine_sem, customer_sem, order, now, exited>>
    BY DEF Deduct
<1> QED
    BY <1>0, <1>1, <1>2, MovedTo, InsideInv

\* customer_thread() starts its order threads, which exist for the first time.
LEMMA SpawnInv == ASSUME ParlourInv, NEW c \in Customers, Spawn(c) PROVE ParlourInv'
<1> USE IceCreamAssumption DEF ParlourInv, SemaphoresAddUp
<1>1. /\ cust' = [cust EXCEPT ![c].pc = "accepted"] /\ cust[c].pc = "spawn"
      /\ order' = [o \in OrderIds |-> IF o[1] = c THEN [order[o] EXCEPT !.pc = "look"] ELSE order[o]]
    BY ZenonT(30) DEF Spawn, MoveTo
<1>2. TypeOK'
  <2> DEFINE C == [pc : {"arriving", "check", "machines", "deduct", "spawn", "accepted",
                         "unserviced"}, i : Nat, flag : BOOLEAN]
             R == [pc : {"none", "look", "try", "prep", "done"}, i : Machines, wake : Nat]
  <2>c. cust \in [Customers -> C] /\ order \in [OrderIds -> R]
      BY ZenonT(30) DEF TypeOK
  <2>1. cust' \in [Customers -> C]
    <3>1. [cust[c] EXCEPT !.pc = "accepted"] \in C
        BY ZenonT(30), <2>c
    <3> HIDE DEF C
    <3> QED
        BY ZenonT(30), <1>1, <2>c, <3>1
  <2>2. order' \in [OrderIds -> R]
    <3>1. ASSUME NEW o \in OrderIds PROVE [order[o] EXCEPT !.pc = "look"] \in R
        BY ZenonT(30), <2>c
    <3> HIDE DEF R
    <3> QED
        BY ZenonT(30), <1>1, <2>c, <3>1
  <2> QED
      BY ZenonT(30), <2>1, <2>2 DEF TypeOK, Spawn
<1>3. \A o \in OrderIds : o[1] = c => order[o].pc = "none"
    BY <1>1 DEF ThreadsInv
<1>4. \A m \in Machines : On(m)' = On(m)
    BY <1>1, <1>3 DEF On, TypeOK
<1>5. Inside' = Inside
    BY <1>1 DEF Inside, TypeOK
<1>6. ThreadsInv'
    BY <1>1, OrderIdFacts DEF ThreadsInv, TypeOK
<1>7. UNCHANGED <<mach, machine_sem, customer_sem>>
    BY DEF Spawn
<1> QED
    BY ZenonT(30), <1>2, <1>4, <1>5, <1>6, <1>7, MachinesSame, PlacesSame

-----------------------------------------------------------------------------
\* single_order_thread() looks at a machine.
LEMMA LookInv == ASSUME ParlourInv, NEW o \in OrderIds, Look(o) PROVE ParlourInv'
<1> USE IceCreamAssumption DEF ParlourInv, SemaphoresAddUp
<1>1. order[o] \in [pc : {"none", "look", "try", "prep", "done"}, i : Machines, wake : Nat]
      /\ order[o].pc = "look" /\ NextMachine(order[o].i) \in Machines
    BY DEF TypeOK, Look, NextMachine, Machines
<1>2. PICK r \in [pc : {"look", "try"}, i : Machines, wake : Nat] : order' = [order EXCEPT ![o] = r]
  <2>1. CASE isAvailable[order[o].i]
    <3>1. order' = [order EXCEPT ![o] = [order[o] EXCEPT !.pc = "try"]]
        BY <2>1 DEF Look
    <3>2. [order[o] EXCEPT !.pc = "try"] \in [pc : {"look", "try"}, i : Machines, wake : Nat]
        BY <1>1
    <3> QED
        BY ZenonT(30), <3>1, <3>2
  <2>2. CASE ~isAvailable[order[o].i]
    <3>1. order' = [order EXCEPT ![o] = [order[o] EXCEPT !.i = NextMachine(order[o].i)]]
        BY ZenonT(30), <2>2 DEF Look
    <3>2. [order[o] EXCEPT !.i = NextMachine(order[o].i)]
             \in [pc : {"look", "try"}, i : Machines, wake : Nat]
        BY ZenonT(30), <1>1
    <3> QED
        BY ZenonT(30), <3>1, <3>2
  <2> QED
      BY <2>1, <2>2
<1>3. TypeOK'
    BY <1>2 DEF TypeOK, Look
<1>4. \A m \in Machines : On(m)' = On(m)
    BY <1>1, <1>2 DEF On, TypeOK
<1>5. ThreadsInv'
    BY <1>1, <1>2 DEF ThreadsInv, TypeOK, Look
<1>6. UNCHANGED <<mach, machine_sem, customer_sem, cust>>
    BY DEF Look
<1> QED
    BY <1>3, <1>4, <1>5, <1>6, MachinesSame, PlacesSame DEF Inside

\* single_order_thread() gets the machine it tried, or goes on to the next.
LEMMA TryInv == ASSUME ParlourInv, NEW o \in OrderIds, Try(o) PROVE ParlourInv'
<1> USE IceCreamAssumption DEF ParlourInv, SemaphoresAddUp
<1> DEFINE wake == now + Prep[Orders[o[1]][o[2]]]
<1>0. PICK i \in Machines : i = order[o].i
    BY ZenonT(30) DEF TypeOK
<1>1. /\ order[o] \in [pc : {"none", "look", "try", "prep", "done"}, i : Machines, wake : Nat]
      /\ order[o].pc = "try" /\ order[o].i = i /\ NextMachine(i) \in Machines
      /\ machine_sem \in [Machines -> 0..2]
  <2>1. /\ order[o] \in [pc : {"none", "look", "try", "prep", "done"}, i : Machines, wake : Nat]
        /\ order[o].pc = "try" /\ order[o].i = i /\ machine_sem \in [Machines -> 0..2]
      BY ZenonT(30), <1>0 DEF TypeOK, Try
  <2>2. NextMachine(i) \in Machines
      BY <1>0 DEF NextMachine, Machines
  <2> QED
      BY ZenonT(30), <2>1, <2>2
<1>2. wake \in Nat
  <2>1. cust[o[1]].pc = "accepted" /\ o[1] \in Customers /\ o[2] \in DOMAIN Orders[o[1]]
      BY <1>1, OrderIdFacts DEF ThreadsInv
  <2>2. Orders[o[1]][o[2]] \in DOMAIN Prep
      BY <2>1 DEF ThreadsInv, OnSale
  <2> QED
      BY <2>2 DEF TypeOK
<1>3. UNCHANGED <<mach, isAvailable, customer_sem, machineTimeAvailable, cust, now, exited>>
    BY DEF Try
<1>4. CASE machine_sem[i] > 0
  <2> HIDE DEF wake
  <2>1. order' = [order EXCEPT ![o] = [pc |-> "prep", i |-> i, wake |-> wake]]
        /\ machine_sem' = [machine_sem EXCEPT ![i] = @ - 1]
      BY <1>1, <1>4 DEF Try, TypeOK, wake
  <2>2. machine_sem[i] - 1 \in 0..2
      BY <1>1, <1>4
  <2>3. TypeOK'
      BY <1>1, <1>2, <1>3, <2>1, <2>2 DEF TypeOK
  <2>4. \A m \in Machines : IF m = i THEN On(m)' = On(m) \cup {o} /\ o \notin On(m)
                            ELSE On(m)' = On(m)
      BY <1>1, <2>1 DEF On, TypeOK
  <2>5. MachineLoad'
    <3> SUFFICES ASSUME NEW m \in Machines
                 PROVE  Cardinality(On(m)') + machine_sem'[m] = Posts(m)'
        BY DEF MachineLoad, Machines
    <3>1. Cardinality(On(m)) + machine_sem[m] = Posts(m) /\ Cardinality(On(m)) \in Nat
          /\ IsFiniteSet(On(m)) /\ Posts(m)' = Posts(m) /\ machine_sem[m] \in 0..2
        BY ZenonT(30), <1>1, <1>3, Finite DEF MachineLoad, Posts
    <3>2. CASE m = i
      <4>1. Cardinality(On(m)') = Cardinality(On(m)) + 1
          BY ZenonT(30), <2>4, <3>1, <3>2, AddOne
      <4> QED
          BY <1>1, <2>1, <3>1, <3>2, <4>1
    <3>3. CASE m # i
        BY ZenonT(30), <1>1, <2>1, <2>4, <3>1, <3>3
    <3> QED
        BY ZenonT(30), <3>2, <3>3
  <2>6. ThreadsInv'
      BY ZenonT(30), <1>1, <1>3, <2>1 DEF ThreadsInv, TypeOK
  <2> QED
      BY <1>3, <2>3, <2>5, <2>6, PlacesSame DEF Inside
<1>5. CASE ~(machine_sem[i] > 0)
  <2>1. order' = [order EXCEPT ![o] = [pc |-> "look", i |-> NextMachine(i), wake |-> order[o].wake]]
        /\ UNCHANGED machine_sem
      BY <1>1, <1>5 DEF Try, TypeOK
  <2>2. TypeOK'
      BY <1>1, <1>3, <2>1 DEF TypeOK
  <2>3. \A m \in Machines : On(m)' = On(m)
      BY <1>1, <2>1 DEF On, TypeOK
  <2>4. ThreadsInv'
      BY ZenonT(30), <1>1, <1>3, <2>1 DEF ThreadsInv, TypeOK
  <2> QED
      BY ZenonT(30), <1>3, <2>1, <2>2, <2>3, <2>4, MachinesSame, PlacesSame DEF Inside
<1> QED
    BY <1>4, <1>5

\* single_order_thread() has prepared its ice cream and posts the machine.
LEMMA FinishInv == ASSUME ParlourInv, NEW o \in OrderIds, Finish(o) PROVE ParlourInv'
<1> USE IceCreamAssumption DEF ParlourInv, SemaphoresAddUp
<1>0. PICK i \in Machines : i = order[o].i
    BY DEF TypeOK
<1>1. /\ order[o].pc = "prep" /\ order[o].i = i
      /\ machine_sem \in [Machines -> 0..2]
      /\ order' = [order EXCEPT ![o].pc = "done"]
      /\ machine_sem' = [machine_sem EXCEPT ![i] = @ + 1]
    BY <1>0 DEF TypeOK, Finish
<1>2. UNCHANGED <<mach, isAvailable, customer_sem, machineTimeAvailable, cust, now, exited>>
    BY ZenonT(30) DEF Finish
<1>3. \A m \in Machines : IF m = i THEN On(m)' = On(m) \ {o} /\ o \in On(m)
                          ELSE On(m)' = On(m)
    BY <1>1 DEF On, TypeOK
<1>4. ASSUME NEW m \in Machines
      PROVE  /\ Cardinality(On(m)') = IF m = i THEN Cardinality(On(m)) - 1 ELSE Cardinality(On(m))
             /\ Cardinality(On(m)) \in Nat /\ (m = i => Cardinality(On(m)) > 0)
  <2>1. IsFiniteSet(On(m)) /\ Cardinality(On(m)) \in Nat
      BY Finite
  <2>2. CASE m # i
      BY ZenonT(30), <1>3, <2>1, <2>2
  <2>3. CASE m = i
    <3>1. Cardinality(On(m)') = Cardinality(On(m)) - 1
        BY <1>3, <2>1, <2>3, FS_RemoveElement
    <3>2. Cardinality(On(m)) # 0
        BY ZenonT(30), <1>3, <2>1, <2>3, FS_EmptySet
    <3> QED
        BY <2>1, <2>3, <3>1, <3>2
  <2> QED
      BY <2>2, <2>3
<1>5. MachineLoad'
  <2> SUFFICES ASSUME NEW m \in Machines
               PROVE  Cardinality(On(m)') + machine_sem'[m] = Posts(m)'
      BY DEF MachineLoad, Machines
  <2>1. Cardinality(On(m)) + machine_sem[m] = Posts(m) /\ Cardinality(On(m)) \in Nat
        /\ Posts(m)' = Posts(m) /\ machine_sem[m] \in 0..2
      BY ZenonT(30), <1>1, <1>2, Finite DEF MachineLoad, Posts
  <2> QED
      BY <1>1, <1>3, <1>4, <2>1
<1>6. machine_sem[i] + 1 \in 0..2
  <2>1. Cardinality(On(i)) + machine_sem[i] = Posts(i) /\ Cardinality(On(i)) \in Nat
        /\ Posts(i) \in 0..2
      BY <1>1, Finite DEF MachineLoad, Posts
  <2> QED
      BY <1>1, <1>4, <2>1
<1>7. TypeOK'
    BY <1>1, <1>2, <1>6 DEF TypeOK
<1>8. ThreadsInv'
    BY ZenonT(30), <1>1, <1>2 DEF ThreadsInv, TypeOK
<1> QED
    BY ZenonT(30), <1>2, <1>5, <1>7, <1>8, PlacesSame DEF Inside

\* main() returns, or a second passes.
LEMMA TimeInv == ASSUME ParlourInv, MainReturns \/ Tick PROVE ParlourInv'
<1> USE DEF ParlourInv, SemaphoresAddUp
<1>1. UNCHANGED <<mach, isAvailable, machine_sem, customer_sem, machineTimeAvailable, cust, order>>
    BY DEF MainReturns, Tick
<1>2. TypeOK'
  <2>1. now' \in Nat
      BY DEF TypeOK, MainReturns, Tick
  <2>2. exited' \in BOOLEAN
      BY Zenon DEF TypeOK, MainReturns, Tick
  <2> QED
      BY ZenonT(30), <1>1, <2>1, <2>2 DEF TypeOK
<1>3. MachineLoad'
    BY ZenonT(30), <1>1, MachinesSame DEF On
<1> QED
    BY ZenonT(30), <1>1, <1>2, <1>3, PlacesSame DEF Inside, ThreadsInv

-----------------------------------------------------------------------------
\* Every step of every thread keeps the semaphores and the threads in line.
LEMMA NextInv == ASSUME ParlourInv, [Next]_vars PROVE ParlourInv'
<1>1. CASE \E m \in Machines : MachineThread(m)
    BY <1>1, MachineStartInv, MachineStopInv DEF MachineThread
<1>2. CASE \E c \in Customers : CustomerThread(c)
    BY ZenonT(30), <1>2, EnterInv, CheckOrderInv, CheckMachinesInv, DeductInv, SpawnInv DEF CustomerThread
<1>3. CASE \E o \in OrderIds : OrderThread(o)
    BY ZenonT(30), <1>3, LookInv, TryInv, FinishInv DEF OrderThread
<1>4. CASE ~exited /\ (MainReturns \/ Tick)
    BY ZenonT(30), <1>4, TimeInv
<1>5. CASE UNCHANGED vars
  <2>1. MachineLoad'
      BY <1>5, MachinesSame DEF ParlourInv, SemaphoresAddUp, On, vars
  <2> QED
      BY ZenonT(30), <1>5, <2>1, PlacesSame
      DEF ParlourInv, SemaphoresAddUp, TypeOK, Inside, ThreadsInv, vars
<1> QED
    BY ZenonT(30), <1>1, <1>2, <1>3, <1>4, <1>5 DEF Next

\* customer_sem and the machine semaphores of 2.c count what they stand for in every
\* state: free places plus customers inside are K, and free halves of a machine plus
\* the orders it prepares are the posts of its thread, never more than two.
THEOREM SemaphoresThm == Spec => []SemaphoresAddUp
<1>1. ParlourInv => SemaphoresAddUp
    BY DEF ParlourInv
<1> QED
    BY <1>1, InitInv, NextInv, PTL DEF Spec
=============================================================================
