----------------------------- MODULE CafeProofs -----------------------------
(***************************************************************************)
(* Proofs about the cafe simulation, for any number of customers and       *)
(* baristas and any input.                                                 *)
(***************************************************************************)
EXTENDS Cafe, FiniteSetTheorems, TLAPS

\* What TypeOK needs to be inductive: no thread passes its usleep() early, so
\* the waiting times added up are never negative.
Timely ==
    \A c \in Customers :
        /\ cust[c].pc = "arriving" => cust[c].wake = input[c].arrival
        /\ cust[c].pc # "arriving" => now >= input[c].arrival
        /\ cust[c].pc \in {"ready", "complete", "post", "done"} => cust[c].t >= input[c].arrival

CafeInv == TypeOK /\ Timely /\ OneOrderAtATime /\ WasteIsExact

-----------------------------------------------------------------------------
\* One more element, one more in the cardinality.
LEMMA AddOne ==
    ASSUME NEW S, IsFiniteSet(S), NEW T, NEW x, x \notin S, T = S \cup {x}
    PROVE  Cardinality(T) = Cardinality(S) + 1
BY FS_AddElement

\* One element less, one less in the cardinality.
LEMMA RemoveOne ==
    ASSUME NEW S, IsFiniteSet(S), NEW T, NEW x, x \in S, T = S \ {x}
    PROVE  Cardinality(T) = Cardinality(S) - 1
BY FS_RemoveElement

\* The customers at a barista, and those that are gone, are finitely many.
LEMMA Finite ==
    /\ \A b : IsFiniteSet(Served(b)) /\ Cardinality(Served(b)) \in Nat
    /\ \A S : S \subseteq Customers => IsFiniteSet(S) /\ Cardinality(S) \in Nat
BY CafeAssumption, FS_Subset, FS_CardinalityType DEF Served

\* The initial state: every barista free, nobody gone.
LEMMA InitInv == Init => CafeInv
<1> SUFFICES ASSUME Init PROVE CafeInv
    OBVIOUS
<1> USE CafeAssumption
<1>1. 1 \in Baristas
    BY DEF Baristas
<1>2. TypeOK
    BY ZenonT(30), <1>1 DEF Init, TypeOK, NotHere, Pcs, Baristas
<1>3. Timely
    BY DEF Init, Timely, NotHere
<1>4. \A b \in Baristas : Served(b) = {}
    BY DEF Init, Served, NotHere
<1>5. {c \in Gone : Late(c)} = {}
    BY DEF Init, Gone, NotHere
<1>6. OneOrderAtATime
  <2> SUFFICES ASSUME NEW b \in Baristas PROVE Cardinality(Served(b)) + sem[b] = 1
      BY DEF OneOrderAtATime
  <2>1. Cardinality(Served(b)) = 0
      BY <1>4, FS_EmptySet
  <2>2. sem[b] = 1
      BY DEF Init
  <2> QED
      BY <2>1, <2>2
<1>7. WasteIsExact
    BY ZenonT(30), <1>5, FS_EmptySet DEF Init, WasteIsExact
<1> QED
    BY <1>2, <1>3, <1>6, <1>7 DEF CafeInv

-----------------------------------------------------------------------------
\* Nobody joins or leaves a barista: the order counts are as before.
LEMMA OrdersSame ==
    ASSUME OneOrderAtATime, UNCHANGED sem, \A b \in Baristas : Served(b)' = Served(b)
    PROVE  OneOrderAtATime'
<1> SUFFICES ASSUME NEW b \in Baristas PROVE Cardinality(Served(b)') + sem'[b] = 1
    BY DEF OneOrderAtATime, Baristas
<1> QED
    BY DEF OneOrderAtATime

\* Nobody goes, and nobody's waiting time changes: the waste is as before.
LEMMA WasteSame ==
    ASSUME WasteIsExact, UNCHANGED coffee_waste,
           {c \in Gone : Late(c)}' = {c \in Gone : Late(c)}
    PROVE  WasteIsExact'
BY DEF WasteIsExact

\* usleep() ends for c.
LEMMA ArriveInv == ASSUME CafeInv, NEW c \in Customers, Arrive(c) PROVE CafeInv'
<1> USE CafeAssumption DEF CafeInv, Arrive, Move
<1>1. TypeOK'
    BY ZenonT(30) DEF TypeOK, Pcs
<1>2. Timely'
    BY DEF TypeOK, Timely
<1>3. \A b \in Baristas : Served(b)' = Served(b)
    BY ZenonT(30) DEF TypeOK, Served, Baristas
<1>4. {k \in Gone : Late(k)}' = {k \in Gone : Late(k)}
    BY DEF TypeOK, Gone, Late, Waited
<1> QED
    BY ZenonT(30), <1>1, <1>2, <1>3, <1>4, OrdersSame, WasteSame

\* c polls: it gets a barista who is free, or looks at the next one.
LEMMA TryBaristaInv == ASSUME CafeInv, NEW c \in Customers, TryBarista(c) PROVE CafeInv'
<1> USE CafeAssumption DEF CafeInv
<1>0. cust[c].i \in Baristas /\ cust[c].pc = "poll"
    BY DEF TypeOK, TryBarista
<1>t. input[c].prep \in Nat /\ now \in Nat
    BY ZenonT(30) DEF TypeOK
<1>u. UNCHANGED <<input, coffee_waste, waiting_time, now>>
    BY DEF TryBarista
<1>6. CASE sem[cust[c].i] > 0
  <2>0. /\ cust' = [cust EXCEPT ![c].pc = "prep", ![c].wake = now + input[c].prep]
        /\ sem' = [sem EXCEPT ![cust[c].i] = @ - 1]
      BY <1>6 DEF TryBarista
  <2>1. TypeOK'
    <3>0. sem[cust[c].i] - 1 \in Nat
        BY <1>0, <1>6 DEF TypeOK
    <3>1. sem' \in [Baristas -> Nat]
        BY <3>0, <1>0, <2>0 DEF TypeOK
    <3>2. cust' \in [Customers -> [pc : Pcs, i : Baristas, wake : Nat, t : Nat]]
      <4>1. now + input[c].prep \in Nat /\ "prep" \in Pcs
          BY <1>t DEF Pcs
      <4> DEFINE w == now + input[c].prep
      <4>2. cust' = [cust EXCEPT ![c].pc = "prep", ![c].wake = w] /\ w \in Nat
          BY <2>0, <4>1
      <4> HIDE DEF w
      <4> QED
          BY ZenonT(30), <4>1, <4>2 DEF TypeOK
    <3> QED
        BY ZenonT(30), <1>u, <3>1, <3>2 DEF TypeOK
  <2>2. Timely'
      BY <1>0, <1>u, <2>0 DEF TypeOK, Timely
  <2>3. OneOrderAtATime'
    <3> SUFFICES ASSUME NEW b \in Baristas PROVE Cardinality(Served(b)') + sem'[b] = 1
        BY DEF OneOrderAtATime, Baristas
    <3>1. CASE b = cust[c].i
      <4>1. c \notin Served(b) /\ Served(b)' = Served(b) \cup {c}
          BY ZenonT(30), <1>0, <2>0, <3>1 DEF TypeOK, Served
      <4>2. sem'[b] = sem[b] - 1
          BY <1>0, <2>0, <3>1 DEF TypeOK
      <4>3. Cardinality(Served(b)') = Cardinality(Served(b)) + 1
          BY ZenonT(30), <4>1, Finite, AddOne
      <4> QED
          BY <4>2, <4>3, Finite DEF OneOrderAtATime, TypeOK
    <3>2. CASE b # cust[c].i
      <4>1. Served(b)' = Served(b)
          BY <1>0, <2>0, <3>2 DEF TypeOK, Served
      <4>2. sem'[b] = sem[b]
          BY ZenonT(30), <1>0, <2>0, <3>2 DEF TypeOK
      <4> QED
          BY ZenonT(30), <4>1, <4>2 DEF OneOrderAtATime
    <3> QED
        BY <3>1, <3>2
  <2>4. {k \in Gone : Late(k)}' = {k \in Gone : Late(k)}
      BY <1>0, <1>u, <2>0 DEF TypeOK, Gone, Late, Waited
  <2> QED
      BY ZenonT(30), <1>u, <2>1, <2>2, <2>3, <2>4, WasteSame
<1>7. CASE ~(sem[cust[c].i] > 0)
  <2> DEFINE n == IF cust[c].i = NBARISTAS THEN 1 ELSE cust[c].i + 1
  <2>n. n \in Baristas
      BY <1>0 DEF Baristas
  <2>0. cust' = [cust EXCEPT ![c].i = n]
      BY <1>7 DEF TryBarista
  <2> HIDE DEF n
  <2>1. TypeOK'
      BY ZenonT(30), <1>7, <1>u, <2>n, <2>0 DEF TypeOK, TryBarista
  <2>2. Timely'
      BY <1>u, <2>0 DEF TypeOK, Timely
  <2>3. \A b \in Baristas : Served(b)' = Served(b)
      BY <1>0, <2>0 DEF TypeOK, Served
  <2>5. {k \in Gone : Late(k)}' = {k \in Gone : Late(k)}
      BY <1>0, <1>u, <2>0 DEF TypeOK, Gone, Late, Waited
  <2>4. UNCHANGED sem
      BY <1>7 DEF TryBarista
  <2> QED
      BY ZenonT(30), <1>u, <2>1, <2>2, <2>3, <2>4, <2>5, OrdersSame, WasteSame
<1> QED
    BY <1>6, <1>7

\* The coffee of c is ready.
LEMMA PreparedInv == ASSUME CafeInv, NEW c \in Customers, Prepared(c) PROVE CafeInv'
<1> USE CafeAssumption DEF CafeInv
<1> PICK slip \in 0..SLIP : cust' = [cust EXCEPT ![c].t = now + slip, ![c].pc = "ready"]
    BY ZenonT(30) DEF Prepared
<1>0. cust[c].pc = "prep"
    BY DEF Prepared
<1>1. TypeOK'
  <2>1. now + slip \in Nat
      BY DEF TypeOK
  <2> DEFINE r == [cust[c] EXCEPT !.t = now + slip, !.pc = "ready"]
  <2>2. r \in [pc : Pcs, i : Baristas, wake : Nat, t : Nat]
      BY ZenonT(30), <2>1 DEF TypeOK, Pcs
  <2>3. cust' = [cust EXCEPT ![c] = r]
      BY ZenonT(30) DEF TypeOK
  <2> HIDE DEF r
  <2>4. cust' \in [Customers -> [pc : Pcs, i : Baristas, wake : Nat, t : Nat]]
      BY ZenonT(30), <2>2, <2>3 DEF TypeOK
  <2> QED
      BY ZenonT(30), <2>4 DEF TypeOK, Prepared
<1>2. Timely'
    BY DEF TypeOK, Timely, Prepared
<1>3. \A b \in Baristas : Served(b)' = Served(b)
    BY ZenonT(30), <1>0 DEF TypeOK, Served
<1>4. {k \in Gone : Late(k)}' = {k \in Gone : Late(k)}
    BY DEF TypeOK, Gone, Late, Waited, Prepared
<1> QED
    BY <1>1, <1>2, <1>3, <1>4, OrdersSame, WasteSame DEF Prepared

\* c is gone: its coffee is wasted exactly when it was late.
LEMMA LeaveInv == ASSUME CafeInv, NEW c \in Customers, Leave(c) PROVE CafeInv'
<1> USE CafeAssumption DEF CafeInv
<1> DEFINE G == {k \in Gone : Late(k)}
<1>0. /\ cust[c].pc = "ready" /\ c \notin Gone
      /\ cust' = [cust EXCEPT ![c].pc = "complete"]
    BY DEF Leave, Move, Gone
<1>t. input[c].tolerance \in Nat
    BY ZenonT(30) DEF TypeOK
<1>1. TypeOK'
  <2>1. cust' \in [Customers -> [pc : Pcs, i : Baristas, wake : Nat, t : Nat]]
      BY ZenonT(30), <1>0 DEF TypeOK, Pcs
  <2>2. coffee_waste' \in Nat /\ waiting_time' \in Nat
      BY <1>t DEF TypeOK, Leave
  <2> QED
      BY <2>1, <2>2 DEF TypeOK, Leave
<1>2. Timely'
    BY <1>0 DEF TypeOK, Timely, Leave
<1>3. \A b \in Baristas : Served(b)' = Served(b)
    BY ZenonT(30), <1>0 DEF TypeOK, Served, Baristas
<1>4. Gone' = Gone \cup {c} /\ \A k \in Customers : Late(k)' <=> Late(k)
    BY <1>0 DEF TypeOK, Gone, Late, Waited, Leave
<1>5. WasteIsExact'
  <2>1. CASE Late(c)
    <3>1. G' = G \cup {c} /\ c \notin G
        BY <1>0, <1>4, <2>1 DEF Gone
    <3>2. Cardinality(G') = Cardinality(G) + 1
        BY ZenonT(30), <3>1, Finite, AddOne DEF Gone
    <3> QED
        BY <2>1, <3>2 DEF WasteIsExact, Leave
  <2>2. CASE ~Late(c)
    <3>1. G' = G
        BY <1>0, <1>4, <2>2 DEF Gone
    <3> QED
        BY <2>2, <3>1 DEF WasteIsExact, Leave
  <2> QED
      BY <2>1, <2>2
<1> QED
    BY ZenonT(30), <1>1, <1>2, <1>3, <1>5, OrdersSame DEF Leave

\* The order of c is complete.
LEMMA CompleteInv == ASSUME CafeInv, NEW c \in Customers, Complete(c) PROVE CafeInv'
<1> USE CafeAssumption DEF CafeInv, Complete, Move
<1>0. Waited(c) \in Nat
    BY DEF TypeOK, Timely, Waited
<1>1. TypeOK'
  <2>1. waiting_time' \in Nat
      BY <1>0 DEF TypeOK
  <2>2. cust' \in [Customers -> [pc : Pcs, i : Baristas, wake : Nat, t : Nat]]
      BY ZenonT(30) DEF TypeOK, Pcs
  <2> QED
      BY ZenonT(30), <2>1, <2>2 DEF TypeOK
<1>2. Timely'
    BY DEF TypeOK, Timely
<1>3. \A b \in Baristas : Served(b)' = Served(b)
    BY ZenonT(30) DEF TypeOK, Served, Baristas
<1>4. {k \in Gone : Late(k)}' = {k \in Gone : Late(k)}
    BY DEF TypeOK, Gone, Late, Waited
<1> QED
    BY ZenonT(30), <1>1, <1>2, <1>3, <1>4, OrdersSame, WasteSame

\* c releases its barista.
LEMMA PostInv == ASSUME CafeInv, NEW c \in Customers, Post(c) PROVE CafeInv'
<1> USE CafeAssumption DEF CafeInv
<1>0. /\ cust[c].i \in Baristas /\ cust[c].pc = "post"
      /\ cust' = [cust EXCEPT ![c].pc = "done"]
    BY DEF TypeOK, Post, Move
<1>1. TypeOK'
  <2>1. cust' \in [Customers -> [pc : Pcs, i : Baristas, wake : Nat, t : Nat]]
      BY ZenonT(30), <1>0 DEF TypeOK, Pcs
  <2>2. sem' \in [Baristas -> Nat]
      BY <1>0 DEF TypeOK, Post
  <2> QED
      BY <2>1, <2>2 DEF TypeOK, Post
<1>2. Timely'
    BY <1>0 DEF TypeOK, Timely, Post
<1>3. OneOrderAtATime'
  <2> SUFFICES ASSUME NEW b \in Baristas PROVE Cardinality(Served(b)') + sem'[b] = 1
      BY DEF OneOrderAtATime, Baristas
  <2>1. CASE b = cust[c].i
    <3>1. c \in Served(b) /\ Served(b)' = Served(b) \ {c}
        BY <1>0, <2>1 DEF TypeOK, Served
    <3>2. sem'[b] = sem[b] + 1
        BY <1>0, <2>1 DEF TypeOK, Post
    <3>3. Cardinality(Served(b)') = Cardinality(Served(b)) - 1
        BY ZenonT(30), <3>1, Finite, RemoveOne
    <3> QED
        BY <3>2, <3>3, Finite DEF OneOrderAtATime, TypeOK
  <2>2. CASE b # cust[c].i
    <3>1. Served(b)' = Served(b)
        BY ZenonT(30), <1>0, <2>2 DEF TypeOK, Served
    <3>2. sem'[b] = sem[b]
        BY ZenonT(30), <1>0, <2>2 DEF TypeOK, Post
    <3> QED
        BY <3>1, <3>2 DEF OneOrderAtATime
  <2> QED
      BY <2>1, <2>2
<1>4. {k \in Gone : Late(k)}' = {k \in Gone : Late(k)}
    BY <1>0 DEF TypeOK, Gone, Late, Waited, Post
<1> QED
    BY <1>1, <1>2, <1>3, <1>4, WasteSame DEF Post

\* main() prints, or a second passes.
LEMMA OtherInv == ASSUME CafeInv, Report \/ Tick \/ UNCHANGED vars PROVE CafeInv'
<1> USE CafeAssumption DEF CafeInv
<1>0. UNCHANGED <<input, sem, cust, coffee_waste, waiting_time>>
    BY DEF Report, Tick, vars
<1>n. now' \in Nat /\ now' >= now
    BY DEF TypeOK, Report, Tick, vars
<1>1. TypeOK'
    BY <1>0, <1>n DEF TypeOK
<1>2. Timely'
  <2>1. \A c \in Customers : input[c].arrival \in Nat
      BY ZenonT(30) DEF TypeOK
  <2> QED
      BY <1>0, <1>n, <2>1 DEF TypeOK, Timely
<1>3. \A b \in Baristas : Served(b)' = Served(b)
    BY <1>0 DEF Served
<1>4. {k \in Gone : Late(k)}' = {k \in Gone : Late(k)}
    BY <1>0 DEF Gone, Late, Waited
<1> QED
    BY ZenonT(30), <1>0, <1>1, <1>2, <1>3, <1>4, OrdersSame, WasteSame

-----------------------------------------------------------------------------
\* The invariant holds in every state of every simulation: the semaphores of
\* 1.c and its counters stay consistent for every number of threads.
THEOREM CafeInvariant == Spec => []CafeInv
<1>1. CafeInv /\ [Next]_vars => CafeInv'
  <2> SUFFICES ASSUME CafeInv, [Next]_vars PROVE CafeInv'
      OBVIOUS
  <2>1. ASSUME NEW c \in Customers, CustomerThread(c) PROVE CafeInv'
      BY <2>1, ArriveInv, TryBaristaInv, PreparedInv, LeaveInv, CompleteInv, PostInv
         DEF CustomerThread
  <2>2. CASE Report \/ Tick \/ UNCHANGED vars
      BY <2>2, OtherInv
  <2> QED
      BY <2>1, <2>2 DEF Next
<1> QED
    BY <1>1, InitInv, PTL DEF Spec

\* Type correctness of 1.c's shared state.
THEOREM TypeCorrect == Spec => []TypeOK
BY CafeInvariant, PTL DEF CafeInv

\* README.md:260: each barista of customerThread() handles one order at a time.
THEOREM OneOrderThm == Spec => []OneOrderAtATime
BY CafeInvariant, PTL DEF CafeInv

\* coffee_waste of customerThread() counts exactly the customers that left.
THEOREM WasteThm == Spec => []WasteIsExact
BY CafeInvariant, PTL DEF CafeInv
=============================================================================
