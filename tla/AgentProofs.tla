----------------------------- MODULE AgentProofs -----------------------------
(***************************************************************************)
(* Proofs about the parts of the agent that all providers share: how they  *)
(* are loaded, started and stopped and how events reach them (Service, of  *)
(* ProviderLoad and EventBus), and the remote calls that reach the agent   *)
(* (RpcTransport).  They hold for every finite set of providers and every  *)
(* relation between them, and every number of subscribers, events, clients *)
(* and calls.                                                              *)
(*                                                                         *)
(* First the loader and the event bus, each on its own.  Each step of the  *)
(* service is then a step of each of the two, or none: what is proved of   *)
(* them holds of the service.  On top of it come the two places where      *)
(* events are handled: in the loop, when all providers were started and    *)
(* none was stopped, and while the stop() of MQTT is awaited, when those   *)
(* constructed after it were all stopped.  The remote calls are apart from *)
(* the service: their agent may die and be started again at any point.     *)
(***************************************************************************)
EXTENDS Service, RpcTransport, Integers, FiniteSetTheorems, TLAPS

-----------------------------------------------------------------------------
(* The loader (ProviderLoad). *)

(* What is not loaded is pending. *)
Covered == Providers \subseteq Loaded \cup Elements(pending)

(* Every provider was constructed after the ones it requires. *)
Ordered ==
    \A n \in 1..Len(loaded) : \A q \in requires[loaded[n]] :
        \E k \in 1..(n - 1) : loaded[k] = q

(* As long as the pass has constructed nothing, everything it has examined was
   postponed. *)
Postponed ==
    /\ Len(pending) <= lenPending
    /\ Len(pending) = lenPending =>
         \A k \in 1..Len(pending) :
            k < i => Complete(pending[k]) /\ ~Resolved(pending[k])

(* Nothing is pending any more once load_providers has returned. *)
Done == pc \in {"starting", "running", "stopping", "exited"} => pending = <<>>

IInv == TypeOK /\ Covered /\ Ordered /\ Postponed /\ Done /\ VerdictIsRight

LEMMA Size == Cardinality(Providers) \in Nat
BY ProvidersAssumption, FS_CardinalityType

(* Removing an element of a sequence leaves the others, in their order. *)
LEMMA RemoveFacts ==
    ASSUME NEW S, NEW s \in Seq(S), NEW n \in 1..Len(s)
    PROVE  /\ Remove(s, n) \in Seq(S)
           /\ Len(Remove(s, n)) = Len(s) - 1
           /\ Elements(s) \subseteq Elements(Remove(s, n)) \cup {s[n]}
<1> DEFINE r == Remove(s, n)
<1>1. /\ SubSeq(s, 1, n - 1) \in Seq(S)
      /\ Len(SubSeq(s, 1, n - 1)) = n - 1
      /\ \A k \in 1..(n - 1) : SubSeq(s, 1, n - 1)[k] = s[k]
  OBVIOUS
<1>2. /\ SubSeq(s, n + 1, Len(s)) \in Seq(S)
      /\ Len(SubSeq(s, n + 1, Len(s))) = Len(s) - n
      /\ \A k \in 1..(Len(s) - n) : SubSeq(s, n + 1, Len(s))[k] = s[n + k]
  OBVIOUS
<1>3. /\ r \in Seq(S) /\ Len(r) = Len(s) - 1
      /\ \A k \in 1..(n - 1) : r[k] = SubSeq(s, 1, n - 1)[k]
      /\ \A k \in 1..(Len(s) - n) : r[n - 1 + k] = SubSeq(s, n + 1, Len(s))[k]
  <2> HIDE DEF r
  <2> DEFINE u == SubSeq(s, 1, n - 1)
             v == SubSeq(s, n + 1, Len(s))
  <2>1. r = u \o v
    BY DEF r, Remove
  <2>2. /\ u \in Seq(S) /\ Len(u) = n - 1
        /\ v \in Seq(S) /\ Len(v) = Len(s) - n
    BY <1>1, <1>2
  <2> HIDE DEF u, v
  <2>3. /\ u \o v \in Seq(S) /\ Len(u \o v) = Len(u) + Len(v)
        /\ \A k \in 1..Len(u) : (u \o v)[k] = u[k]
        /\ \A k \in 1..Len(v) : (u \o v)[Len(u) + k] = v[k]
    BY <2>2
  <2>4. r \in Seq(S) /\ Len(r) = Len(s) - 1
    BY <2>1, <2>2, <2>3
  <2>5. \A k \in 1..(n - 1) : r[k] = u[k]
    BY <2>1, <2>2, <2>3
  <2>6. \A k \in 1..(Len(s) - n) : r[n - 1 + k] = v[k]
    BY <2>1, <2>2, <2>3
  <2> QED
    BY <2>4, <2>5, <2>6 DEF u, v
<1> HIDE DEF r
<1>4. \A k \in 1..(n - 1) : r[k] = s[k]
  BY <1>1, <1>3
<1>5. ASSUME NEW k \in n..(Len(s) - 1)
      PROVE  r[k] = s[k + 1]
  <2>1. k - n + 1 \in 1..(Len(s) - n)
    OBVIOUS
  <2>2. r[n - 1 + (k - n + 1)] = s[n + (k - n + 1)]
    BY <1>2, <1>3, <2>1
  <2> QED
    BY <2>2
<1>6. ASSUME NEW k \in 1..Len(s), k # n
      PROVE  s[k] \in Elements(r)
  <2>1. CASE k < n
    <3>1. k \in 1..Len(r) /\ r[k] = s[k]
      BY <2>1, <1>3, <1>4
    <3> QED
      BY <3>1 DEF Elements
  <2>2. CASE k > n
    <3>1. k - 1 \in 1..Len(r) /\ r[k - 1] = s[k]
      BY <2>2, <1>3, <1>5
    <3> QED
      BY <3>1 DEF Elements
  <2> QED
    BY <1>6, <2>1, <2>2
<1> QED
  BY <1>3, <1>6 DEF Elements, r

LEMMA AppendFacts ==
    ASSUME NEW S, NEW s \in Seq(S), NEW e \in S
    PROVE  /\ Append(s, e) \in Seq(S)
           /\ Len(Append(s, e)) = Len(s) + 1
           /\ \A k \in 1..Len(s) : Append(s, e)[k] = s[k]
           /\ Append(s, e)[Len(s) + 1] = e
           /\ Elements(Append(s, e)) = Elements(s) \cup {e}
BY DEF Elements

-----------------------------------------------------------------------------
(* Construct, the step that changes the sequences. *)

LEMMA ConstructStep ==
    ASSUME TypeOK, Construct
    PROVE  \E p \in Providers :
              /\ Examining(p) /\ Complete(p) /\ Resolved(p)
              /\ loaded' = Append(loaded, p)
              /\ loaded' \in Seq(Providers)
              /\ Len(loaded') = Len(loaded) + 1
              /\ Loaded' = Loaded \cup {p}
              /\ pending' \in Seq(Providers)
              /\ Len(pending') = Len(pending) - 1
              /\ Elements(pending) \subseteq Elements(pending') \cup {p}
<1>1. PICK p \in Providers : /\ Examining(p) /\ Complete(p) /\ Resolved(p)
                             /\ loaded' = Append(loaded, p)
  BY DEF Construct
<1>2. /\ pending \in Seq(Providers) /\ loaded \in Seq(Providers)
      /\ i \in 1..Len(pending) /\ p = pending[i]
  BY <1>1 DEF TypeOK, Examining
<1>3. pending' = Remove(pending, i)
  BY DEF Construct
<1>4. /\ pending' \in Seq(Providers)
      /\ Len(pending') = Len(pending) - 1
      /\ Elements(pending) \subseteq Elements(pending') \cup {p}
  BY <1>2, <1>3, RemoveFacts
<1>5. /\ loaded' \in Seq(Providers)
      /\ Len(loaded') = Len(loaded) + 1
      /\ Elements(loaded') = Elements(loaded) \cup {p}
  BY <1>1, <1>2, AppendFacts
<1> QED
  BY <1>1, <1>4, <1>5 DEF Loaded

LEMMA TypeInit == Init => TypeOK
<1> SUFFICES ASSUME Init
             PROVE  TypeOK
  OBVIOUS
<1>1. pending \in [1..Cardinality(Providers) -> Providers]
  BY DEF Init, Orders
<1>2. pending \in Seq(Providers) /\ Len(pending) = Cardinality(Providers)
  BY <1>1, Size
<1> QED
  BY <1>2, Size DEF Init, TypeOK

LEMMA TypeStep == TypeOK /\ [Next]_vars => TypeOK'
<1> SUFFICES ASSUME TypeOK, [Next]_vars
             PROVE  TypeOK'
  OBVIOUS
<1> USE Size
<1>1. Len(pending) \in Nat /\ Len(loaded) \in Nat
  BY DEF TypeOK
<1>2. CASE Construct
  <2>1. PICK p \in Providers :
           /\ Examining(p)
           /\ loaded' \in Seq(Providers)
           /\ Len(loaded') = Len(loaded) + 1
           /\ pending' \in Seq(Providers)
           /\ Len(pending') = Len(pending) - 1
    BY <1>2, ConstructStep
  <2>2. i' \in 1..(Cardinality(Providers) + 1)
    BY <1>1, <1>2, <2>1 DEF Construct, Examining, TypeOK
  <2> QED
    BY <1>1, <1>2, <2>1, <2>2 DEF Construct, TypeOK
<1>3. CASE Postpone
  BY <1>1, <1>3 DEF Postpone, Examining, TypeOK
<1>4. CASE EndPass
  BY <1>1, <1>4 DEF EndPass, TypeOK
<1>5. CASE FindMissing \/ ConstructorRaises
  BY <1>5 DEF FindMissing, ConstructorRaises, TypeOK
<1>6. CASE StartNext \/ StartRaises \/ AllStarted \/ MainEnds
  BY <1>1, <1>6, SMTT(20) DEF StartNext, StartRaises, AllStarted, MainEnds, TypeOK
<1>7. CASE StopNext \/ StopRaises \/ AllStopped
  BY <1>1, <1>7, SMTT(20) DEF StopNext, StopRaises, AllStopped, TypeOK
<1>8. CASE UNCHANGED vars
  BY <1>8 DEF vars, TypeOK
<1> QED
  BY <1>2, <1>3, <1>4, <1>5, <1>6, <1>7, <1>8 DEF Next, LoadStep

(* The variables keep their types, and every provider is either pending or
   loaded. *)
THEOREM TypeCorrect == Spec => []TypeOK
BY TypeInit, TypeStep, PTL DEF Spec

-----------------------------------------------------------------------------
(* The loading steps but Construct leave the sequences alone, and so do the
   steps after the loading. *)
LEMMA Frame ==
    ASSUME [Next]_vars, ~Construct
    PROVE  UNCHANGED <<requires, pending, loaded>>
BY DEF Next, LoadStep, FindMissing, Postpone, ConstructorRaises, EndPass,
       StartNext, StartRaises, AllStarted, MainEnds, StopNext, StopRaises,
       AllStopped, vars

LEMMA CoveredStep ==
    TypeOK /\ Covered /\ [Next]_vars => Covered'
<1> SUFFICES ASSUME TypeOK, Covered, [Next]_vars
             PROVE  Covered'
  OBVIOUS
<1>1. CASE Construct
  BY <1>1, ConstructStep DEF Covered
<1>2. CASE ~Construct
  BY <1>2, Frame DEF Covered, Loaded
<1> QED
  BY <1>1, <1>2

LEMMA OrderStep ==
    TypeOK /\ Ordered /\ [Next]_vars => Ordered'
<1> SUFFICES ASSUME TypeOK, Ordered, [Next]_vars
             PROVE  Ordered'
  OBVIOUS
<1>1. CASE Construct
  <2>1. PICK p \in Providers : Resolved(p) /\ loaded' = Append(loaded, p)
    BY <1>1, ConstructStep
  <2>2. requires' = requires
    BY <1>1 DEF Construct
  <2>3. loaded \in Seq(Providers)
    BY DEF TypeOK
  <2>4. /\ Len(loaded') = Len(loaded) + 1
        /\ \A k \in 1..Len(loaded) : loaded'[k] = loaded[k]
        /\ loaded'[Len(loaded) + 1] = p
    BY <2>1, <2>3, AppendFacts
  <2>5. SUFFICES ASSUME NEW n \in 1..Len(loaded'), NEW q \in requires[loaded'[n]]
                 PROVE  \E k \in 1..(n - 1) : loaded'[k] = q
    BY <2>2 DEF Ordered
  <2>6. CASE n \in 1..Len(loaded)
    <3>1. PICK k \in 1..(n - 1) : loaded[k] = q
      BY <2>4, <2>5, <2>6 DEF Ordered
    <3>2. k \in 1..Len(loaded)
      BY <2>3, <2>6
    <3> QED
      BY <2>4, <3>1, <3>2
  <2>7. CASE n = Len(loaded) + 1
    <3>1. q \in Loaded
      BY <2>1, <2>4, <2>5, <2>7 DEF Resolved
    <3>2. PICK k \in 1..Len(loaded) : loaded[k] = q
      BY <3>1 DEF Loaded, Elements
    <3> QED
      BY <2>3, <2>4, <2>7, <3>2
  <2> QED
    BY <2>3, <2>4, <2>6, <2>7
<1>2. CASE ~Construct
  BY <1>2, Frame DEF Ordered
<1> QED
  BY <1>1, <1>2

LEMMA PostponedStep ==
    TypeOK /\ Postponed /\ [Next]_vars => Postponed'
<1> SUFFICES ASSUME TypeOK, Postponed, [Next]_vars
             PROVE  Postponed'
  OBVIOUS
<1>1. pending \in Seq(Providers) /\ Len(pending) \in Nat /\ lenPending \in Nat
      /\ i \in Nat
  BY Size DEF TypeOK
<1>2. CASE Construct
  BY <1>1, <1>2, ConstructStep DEF Construct, Postponed
<1>3. CASE Postpone
  <2>1. UNCHANGED <<requires, pending, loaded, lenPending>> /\ i' = i + 1
    BY <1>3 DEF Postpone
  <2>2. Complete(pending[i]) /\ ~Resolved(pending[i])
    BY <1>3 DEF Postpone, Examining
  <2> QED
    BY <1>1, <2>1, <2>2 DEF Postponed, Complete, Resolved, Loaded
<1>4. CASE EndPass
  BY <1>1, <1>4 DEF EndPass, Postponed, Complete, Resolved, Loaded
<1>5. CASE UNCHANGED <<requires, pending, loaded, lenPending, i>>
  BY <1>5 DEF Postponed, Complete, Resolved, Loaded
<1> QED
  BY <1>2, <1>3, <1>4, <1>5
     DEF Next, LoadStep, FindMissing, ConstructorRaises, StartNext, StartRaises,
         AllStarted, MainEnds, StopNext, StopRaises, AllStopped, vars

LEMMA DoneStep ==
    Done /\ [Next]_vars => Done'
<1> SUFFICES ASSUME Done, [Next]_vars
             PROVE  Done'
  OBVIOUS
<1>1. CASE Construct
  BY <1>1 DEF Construct, Examining, Done
<1>2. CASE ~Construct
  BY <1>2, Frame
     DEF Done, Next, LoadStep, FindMissing, Postpone, ConstructorRaises,
         EndPass, StartNext, StartRaises, AllStarted, MainEnds, StopNext,
         StopRaises, AllStopped, vars
<1> QED
  BY <1>1, <1>2

(* A pass that postponed everything has found a loop. *)
LEMMA LoopFound ==
    ASSUME TypeOK, Covered, Postponed, EndPass, pc' = "loop"
    PROVE  Loop(Providers \ Loaded)
<1>1. pending # <<>> /\ Len(pending) = lenPending /\ i > Len(pending)
  BY DEF EndPass
<1>2. pending \in Seq(Providers) /\ i \in Nat /\ Len(pending) \in Nat
  BY Size DEF TypeOK
<1>3. \A k \in 1..Len(pending) : Complete(pending[k]) /\ ~Resolved(pending[k])
  BY <1>1, <1>2 DEF Postponed
<1>4. ASSUME NEW k \in 1..Len(pending)
      PROVE  requires[pending[k]] \cap (Providers \ Loaded) # {}
  <2>1. pending[k] \in Providers
    BY <1>2
  <2>2. requires[pending[k]] \subseteq Providers \cup {Absent}
    BY <2>1 DEF TypeOK
  <2> QED
    BY <1>3, <2>2 DEF Complete, Resolved
<1>5. \A p \in Providers \ Loaded : requires[p] \cap (Providers \ Loaded) # {}
  BY <1>4 DEF Covered, Elements
<1>6. 1 \in 1..Len(pending)
  BY <1>1, <1>2
<1> QED
  BY <1>4, <1>5, <1>6 DEF Loop

LEMMA VerdictStep == IInv /\ [Next]_vars => VerdictIsRight'
<1> SUFFICES ASSUME IInv, [Next]_vars
             PROVE  VerdictIsRight'
  OBVIOUS
<1>1. TypeOK' /\ Covered' /\ Done'
  BY TypeStep, CoveredStep, DoneStep DEF IInv
<1>2. pc' \in {"starting", "running", "stopping", "exited"} =>
         Loaded' = Providers
  <2> SUFFICES ASSUME pc' \in {"starting", "running", "stopping", "exited"}
               PROVE  Loaded' = Providers
    OBVIOUS
  <2>1. pending' = <<>>
    BY <1>1 DEF Done
  <2> QED
    BY <1>1, <2>1 DEF TypeOK, Covered, Loaded, Elements
<1>3. CASE Construct
  <2>1. pc' = "loading"
    BY <1>3 DEF Construct, Examining
  <2> QED
    BY <2>1 DEF VerdictIsRight
<1>4. CASE FindMissing
  BY <1>2, <1>4 DEF FindMissing, VerdictIsRight, Complete
<1>5. CASE EndPass
  <2>1. pc' # "missing" /\ UNCHANGED <<requires, loaded>>
    BY <1>5 DEF EndPass
  <2>2. pc' = "loop" => Loop(Providers \ Loaded)
    BY <1>5, LoopFound DEF IInv
  <2> QED
    BY <1>2, <2>1, <2>2 DEF VerdictIsRight, Loop, Loaded
<1>6. CASE ~Construct /\ ~FindMissing /\ ~EndPass
  <2>1. UNCHANGED <<requires, pending, loaded>>
    BY <1>6, Frame
  <2>2. pc' \in {"missing", "loop"} => pc' = pc
    BY <1>6
       DEF Next, LoadStep, Postpone, ConstructorRaises, StartNext, StartRaises,
           AllStarted, MainEnds, StopNext, StopRaises, AllStopped, vars
  <2> QED
    BY <1>2, <2>1, <2>2 DEF IInv, VerdictIsRight, Loop, Loaded
<1> QED
  BY <1>3, <1>4, <1>5, <1>6

LEMMA InvInit == Init => IInv
<1> SUFFICES ASSUME Init
             PROVE  IInv
  OBVIOUS
<1>1. TypeOK
  BY TypeInit
<1>2. Covered
  BY DEF Init, Orders, Covered
<1>3. Ordered /\ Postponed /\ Done /\ VerdictIsRight
  BY <1>1 DEF Init, TypeOK, Ordered, Postponed, Done, VerdictIsRight
<1> QED
  BY <1>1, <1>2, <1>3 DEF IInv

LEMMA InvStep == IInv /\ [Next]_vars => IInv'
BY TypeStep, CoveredStep, OrderStep, PostponedStep, DoneStep, VerdictStep DEF IInv

LEMMA Invariance == Spec => []IInv
BY InvInit, InvStep, PTL DEF Spec

-----------------------------------------------------------------------------
LEMMA Served == IInv => RequirementsServed
<1> SUFFICES ASSUME IInv
             PROVE  RequirementsServed
  OBVIOUS
<1>1. \A p \in Loaded : requires[p] \subseteq Loaded
  <2> SUFFICES ASSUME NEW n \in 1..Len(loaded), NEW q \in requires[loaded[n]]
               PROVE  q \in Loaded
    BY DEF Loaded, Elements
  <2>1. PICK k \in 1..(n - 1) : loaded[k] = q
    BY DEF IInv, Ordered
  <2>2. k \in 1..Len(loaded)
    BY <2>1 DEF IInv, TypeOK
  <2> QED
    BY <2>1, <2>2 DEF Loaded, Elements
<1>2. \A p \in Active : requires[p] \subseteq Active
  <2> DEFINE m == IF started < Len(loaded) - stopped THEN started
                  ELSE Len(loaded) - stopped
  <2>1. m \in 0..Len(loaded)
    BY DEF IInv, TypeOK
  <2>2. Active = {loaded[n] : n \in 1..m}
    BY DEF Active
  <2> HIDE DEF m
  <2> SUFFICES ASSUME NEW n \in 1..m, NEW q \in requires[loaded[n]]
               PROVE  q \in {loaded[k] : k \in 1..m}
    BY <2>2
  <2>3. n \in 1..Len(loaded)
    BY <2>1 DEF IInv, TypeOK
  <2>4. PICK k \in 1..(n - 1) : loaded[k] = q
    BY <2>3 DEF IInv, Ordered
  <2>5. k \in 1..m
    BY <2>1, <2>4
  <2> QED
    BY <2>4, <2>5
<1> QED
  BY <1>1, <1>2 DEF RequirementsServed

(* A provider is constructed, and is active, only while every provider it
   requires is. *)
THEOREM ServedCorrect == Spec => []RequirementsServed
BY Served, Invariance, PTL

(* load_providers never reports a loop or a missing class where there is none,
   and when it returns everything is loaded. *)
THEOREM VerdictCorrect == Spec => []VerdictIsRight
<1>1. IInv => VerdictIsRight
  BY DEF IInv
<1> QED
  BY <1>1, Invariance, PTL

-----------------------------------------------------------------------------
(* The event bus (EventBus).  InOrder is not inductive: that a subscriber is
   called with the next event and with no other follows from where the events
   between the last one appended and the one being handled are: first the
   deque, then the tasks made and not run, each holding consecutive numbers. *)

InTask == mpc = "task" \/ (mpc = "put" /\ caller = "task")

(* How many events left the deque, and how many of their tasks were begun. *)
Taken == published - Len(dq)
Begun == Taken - Len(ready)

BusTypes ==
    /\ published \in 0..MaxEvents /\ tokens \in Nat
    /\ dq \in Seq(1..MaxEvents) /\ ready \in Seq(1..MaxEvents)
    /\ tpc \in {"run", "put"} /\ mpc \in Bus!MainPCs
    /\ caller \in {"start", "loop", "task"}
    /\ popped \in 0..MaxEvents
    /\ nextSub \in 1..(NumSubscribers + 1)
    /\ eventTasks \subseteq 1..MaxEvents
    /\ seen \in [Bus!Subscribers -> 0..MaxEvents]

Consecutive ==
    /\ Taken \in Nat /\ Begun \in Nat
    /\ \A k \in 1..Len(dq) : dq[k] = Taken + k
    /\ \A k \in 1..Len(ready) : ready[k] = Begun + k

Progress ==
    /\ InTask => /\ popped = Begun
                 /\ \A s \in Bus!Subscribers :
                       seen[s] = IF s < nextSub THEN Begun ELSE Begun - 1
    /\ ~InTask => \A s \in Bus!Subscribers : seen[s] = Begun

BusInv == BusTypes /\ Consecutive /\ Progress /\ Bus!TokensMatchItems

LEMMA Sizes == NumSubscribers \in Nat /\ NumSubscribers >= 1 /\ MaxEvents \in Nat
BY SizesAssumption

LEMMA BusInvInit == Bus!Init => BusInv
<1> SUFFICES ASSUME Bus!Init
             PROVE  BusInv
  OBVIOUS
<1> USE Sizes DEF Bus!Init
<1>1. BusTypes
  BY DEF BusTypes, Bus!MainPCs, Bus!Subscribers
<1>2. Taken = 0 /\ Begun = 0
  <2>1. Len(dq) = 0 /\ Len(ready) = 0 /\ published = 0
    OBVIOUS
  <2> HIDE DEF Bus!Init
  <2> QED
    BY <2>1 DEF Taken, Begun
<1>3. Consecutive
  BY <1>2 DEF Consecutive
<1>4. Progress
  BY <1>2 DEF Progress, InTask
<1>5. Bus!TokensMatchItems
  BY DEF Bus!TokensMatchItems, Bus!Holding
<1> QED
  BY <1>1, <1>3, <1>4, <1>5 DEF BusInv

LEMMA BusTypesStep ==
    BusTypes /\ Consecutive /\ [Bus!Next]_(Bus!vars) => BusTypes'
<1> SUFFICES ASSUME BusTypes, Consecutive, [Bus!Next]_(Bus!vars)
             PROVE  BusTypes'
  OBVIOUS
<1> USE Sizes DEF BusTypes, Bus!MainPCs, Bus!Subscribers
<1>1. CASE Bus!ThreadAppend
  <2>1. published + 1 \in 1..MaxEvents /\ published' = published + 1
    BY <1>1 DEF Bus!ThreadAppend, Bus!Put, Bus!AppendItem, Bus!WriteToken
  <2>2. dq' = Append(dq, published + 1)
    BY <1>1 DEF Bus!ThreadAppend, Bus!Put, Bus!AppendItem, Bus!WriteToken
  <2>3. dq' \in Seq(1..MaxEvents)
    BY <2>1, <2>2
  <2> QED
    BY <1>1, <2>1, <2>3 DEF Bus!ThreadAppend, Bus!Put, Bus!AppendItem, Bus!WriteToken
<1>2. CASE Bus!ThreadWrite
  BY <1>2 DEF Bus!ThreadWrite, Bus!Put, Bus!AppendItem, Bus!WriteToken
<1>3. CASE Bus!MainAppend
  <2>1. published + 1 \in 1..MaxEvents /\ published' = published + 1
    BY <1>3 DEF Bus!MainAppend, Bus!Put, Bus!AppendItem, Bus!WriteToken
  <2>2. dq' = Append(dq, published + 1)
    BY <1>3 DEF Bus!MainAppend, Bus!Put, Bus!AppendItem, Bus!WriteToken
  <2>3. dq' \in Seq(1..MaxEvents)
    BY <2>1, <2>2
  <2> QED
    BY <1>3, <2>1, <2>3 DEF Bus!MainAppend, Bus!Put, Bus!AppendItem, Bus!WriteToken
<1>4. CASE Bus!MainWrite
  BY <1>4 DEF Bus!MainWrite, Bus!Put, Bus!AppendItem, Bus!WriteToken
<1>5. CASE Bus!AddReader
  BY <1>5 DEF Bus!AddReader
<1>6. CASE Bus!HandleEventqueue
  BY <1>6 DEF Bus!HandleEventqueue
<1>7. CASE Bus!ReadToken
  BY <1>7 DEF Bus!ReadToken
<1>8. CASE Bus!Pop
  <2>1. Head(dq) \in 1..MaxEvents /\ Tail(dq) \in Seq(1..MaxEvents)
    BY <1>8 DEF Bus!Pop
  <2>2. ready' = Append(ready, Head(dq)) /\ eventTasks' = eventTasks \cup {Head(dq)}
    BY <1>8 DEF Bus!Pop
  <2>3. ready' \in Seq(1..MaxEvents)
    BY <2>1, <2>2
  <2>4. eventTasks' \subseteq 1..MaxEvents
    BY <2>1, <2>2
  <2> QED
    BY <1>8, <2>1, <2>3, <2>4 DEF Bus!Pop
<1>9. CASE Bus!Drained
  BY <1>9 DEF Bus!Drained
<1>10. CASE Bus!RunTask
  <2>1. Head(ready) \in 1..MaxEvents /\ Tail(ready) \in Seq(1..MaxEvents)
    BY <1>10 DEF Bus!RunTask
  <2> QED
    BY <1>10, <2>1 DEF Bus!RunTask
<1>11. CASE Bus!CallSubscriber
  BY <1>11 DEF Bus!CallSubscriber
<1>12. CASE Bus!EndTask
  BY <1>12 DEF Bus!EndTask
<1>13. CASE UNCHANGED Bus!vars
  BY <1>13 DEF Bus!vars, Taken, Begun
<1> QED
  BY <1>1, <1>2, <1>3, <1>4, <1>5, <1>6, <1>7, <1>8, <1>9, <1>10,
     <1>11, <1>12, <1>13
     DEF Bus!Next, Bus!MainStep

LEMMA TokensStep ==
    BusTypes /\ Bus!TokensMatchItems /\ [Bus!Next]_(Bus!vars)
        => Bus!TokensMatchItems'
<1> SUFFICES ASSUME BusTypes, Bus!TokensMatchItems, [Bus!Next]_(Bus!vars)
             PROVE  Bus!TokensMatchItems'
  OBVIOUS
<1> USE Sizes DEF BusTypes, Bus!TokensMatchItems, Bus!Holding, Bus!MainPCs
<1>1. CASE Bus!ThreadAppend
  BY <1>1 DEF Bus!ThreadAppend, Bus!Put, Bus!AppendItem, Bus!WriteToken
<1>2. CASE Bus!ThreadWrite
  BY <1>2 DEF Bus!ThreadWrite, Bus!Put, Bus!AppendItem, Bus!WriteToken
<1>3. CASE Bus!MainAppend
  BY <1>3 DEF Bus!MainAppend, Bus!Put, Bus!AppendItem, Bus!WriteToken
<1>4. CASE Bus!MainWrite
  BY <1>4 DEF Bus!MainWrite, Bus!Put, Bus!AppendItem, Bus!WriteToken
<1>5. CASE Bus!AddReader
  BY <1>5 DEF Bus!AddReader
<1>6. CASE Bus!HandleEventqueue
  BY <1>6 DEF Bus!HandleEventqueue
<1>7. CASE Bus!ReadToken
  BY <1>7 DEF Bus!ReadToken
<1>8. CASE Bus!Pop
  BY <1>8 DEF Bus!Pop
<1>9. CASE Bus!Drained
  BY <1>9 DEF Bus!Drained
<1>10. CASE Bus!RunTask
  BY <1>10 DEF Bus!RunTask
<1>11. CASE Bus!CallSubscriber
  BY <1>11 DEF Bus!CallSubscriber
<1>12. CASE Bus!EndTask
  BY <1>12 DEF Bus!EndTask
<1>13. CASE UNCHANGED Bus!vars
  BY <1>13 DEF Bus!vars, Taken, Begun
<1> QED
  BY <1>1, <1>2, <1>3, <1>4, <1>5, <1>6, <1>7, <1>8, <1>9, <1>10,
     <1>11, <1>12, <1>13
     DEF Bus!Next, Bus!MainStep

LEMMA ConsecutiveStep ==
    BusTypes /\ Consecutive /\ [Bus!Next]_(Bus!vars) => Consecutive'
<1> SUFFICES ASSUME BusTypes, Consecutive, [Bus!Next]_(Bus!vars)
             PROVE  Consecutive'
  OBVIOUS
<1> USE Sizes DEF BusTypes, Consecutive, Taken, Begun
<1>1. CASE Bus!ThreadAppend
  <2>1. /\ published' = published + 1 /\ ready' = ready
        /\ dq' = Append(dq, published + 1)
    BY <1>1 DEF Bus!ThreadAppend, Bus!Put, Bus!AppendItem, Bus!WriteToken
  <2>2. Len(dq') = Len(dq) + 1
    BY <2>1
  <2>3. Taken' = Taken /\ Begun' = Begun
    BY <2>1, <2>2
  <2>4. /\ \A k \in 1..Len(dq) : dq'[k] = dq[k]
        /\ dq'[Len(dq) + 1] = published + 1
    BY <2>1
  <2>5. Len(dq) \in Nat /\ published \in Nat
    OBVIOUS
  <2>6. \A k \in 1..Len(dq') : dq'[k] = Taken + k
    <3> SUFFICES ASSUME NEW k \in 1..Len(dq')
                 PROVE  dq'[k] = Taken + k
      OBVIOUS
    <3>1. CASE k = Len(dq) + 1
      BY <2>4, <2>5, <3>1
    <3>2. CASE k # Len(dq) + 1
      BY <2>2, <2>4, <2>5, <3>2
    <3> QED
      BY <3>1, <3>2
  <2>7. \A k \in 1..Len(ready') : ready'[k] = Begun' + k
    BY <2>1, <2>3
  <2> HIDE DEF Taken, Begun
  <2> QED
    BY <2>3, <2>6, <2>7
<1>2. CASE Bus!ThreadWrite
  BY <1>2 DEF Bus!ThreadWrite, Bus!Put, Bus!AppendItem, Bus!WriteToken
<1>3. CASE Bus!MainAppend
  <2>1. /\ published' = published + 1 /\ ready' = ready
        /\ dq' = Append(dq, published + 1)
    BY <1>3 DEF Bus!MainAppend, Bus!Put, Bus!AppendItem, Bus!WriteToken
  <2>2. Len(dq') = Len(dq) + 1
    BY <2>1
  <2>3. Taken' = Taken /\ Begun' = Begun
    BY <2>1, <2>2
  <2>4. /\ \A k \in 1..Len(dq) : dq'[k] = dq[k]
        /\ dq'[Len(dq) + 1] = published + 1
    BY <2>1
  <2>5. Len(dq) \in Nat /\ published \in Nat
    OBVIOUS
  <2>6. \A k \in 1..Len(dq') : dq'[k] = Taken + k
    <3> SUFFICES ASSUME NEW k \in 1..Len(dq')
                 PROVE  dq'[k] = Taken + k
      OBVIOUS
    <3>1. CASE k = Len(dq) + 1
      BY <2>4, <2>5, <3>1
    <3>2. CASE k # Len(dq) + 1
      BY <2>2, <2>4, <2>5, <3>2
    <3> QED
      BY <3>1, <3>2
  <2>7. \A k \in 1..Len(ready') : ready'[k] = Begun' + k
    BY <2>1, <2>3
  <2> HIDE DEF Taken, Begun
  <2> QED
    BY <2>3, <2>6, <2>7
<1>4. CASE Bus!MainWrite
  BY <1>4 DEF Bus!MainWrite, Bus!Put, Bus!AppendItem, Bus!WriteToken
<1>5. CASE Bus!AddReader
  BY <1>5 DEF Bus!AddReader
<1>6. CASE Bus!HandleEventqueue
  BY <1>6 DEF Bus!HandleEventqueue
<1>7. CASE Bus!ReadToken
  BY <1>7 DEF Bus!ReadToken
<1>8. CASE Bus!Pop
  <2>1. /\ dq' = Tail(dq) /\ ready' = Append(ready, Head(dq))
        /\ published' = published
    BY <1>8 DEF Bus!Pop
  <2>2. Len(dq) \in Nat \ {0} /\ Len(dq') = Len(dq) - 1
    BY <1>8, <2>1 DEF Bus!Pop
  <2>3. Len(ready') = Len(ready) + 1
    BY <2>1
  <2>4. Taken' = Taken + 1 /\ Begun' = Begun
    BY <2>1, <2>2, <2>3
  <2>5. \A k \in 1..Len(dq') : dq'[k] = Taken' + k
    BY <2>1, <2>2, <2>4
  <2>6. Head(dq) = Taken + 1
    BY <1>8, <2>2 DEF Bus!Pop
  <2>7. /\ \A k \in 1..Len(ready) : ready'[k] = ready[k]
        /\ ready'[Len(ready) + 1] = Taken + 1
    BY <2>1, <2>6
  <2>8. Len(ready) \in Nat /\ Begun + Len(ready) = Taken
    OBVIOUS
  <2> HIDE DEF Taken, Begun
  <2>9. \A k \in 1..Len(ready') : ready'[k] = Begun' + k
    <3> SUFFICES ASSUME NEW k \in 1..Len(ready')
                 PROVE  ready'[k] = Begun' + k
      OBVIOUS
    <3>1. CASE k = Len(ready) + 1
      BY <2>4, <2>7, <2>8, <3>1
    <3>2. CASE k # Len(ready) + 1
      BY <2>3, <2>4, <2>7, <2>8, <3>2
    <3> QED
      BY <3>1, <3>2
  <2> QED
    BY <2>4, <2>5, <2>9
<1>9. CASE Bus!Drained
  BY <1>9 DEF Bus!Drained
<1>10. CASE Bus!RunTask
  <2>1. /\ ready' = Tail(ready) /\ UNCHANGED <<dq, published>>
    BY <1>10 DEF Bus!RunTask
  <2>2. Len(ready) \in Nat \ {0} /\ Len(ready') = Len(ready) - 1
    BY <1>10, <2>1 DEF Bus!RunTask
  <2>3. Taken' = Taken /\ Begun' = Begun + 1
    BY <2>1, <2>2
  <2>4. \A k \in 1..Len(ready') : ready'[k] = Begun' + k
    BY <2>1, <2>2, <2>3
  <2> HIDE DEF Taken, Begun
  <2> QED
    BY <2>1, <2>3, <2>4
<1>11. CASE Bus!CallSubscriber
  BY <1>11 DEF Bus!CallSubscriber
<1>12. CASE Bus!EndTask
  BY <1>12 DEF Bus!EndTask
<1>13. CASE UNCHANGED Bus!vars
  BY <1>13 DEF Bus!vars, Taken, Begun
<1> QED
  BY <1>1, <1>2, <1>3, <1>4, <1>5, <1>6, <1>7, <1>8, <1>9, <1>10,
     <1>11, <1>12, <1>13
     DEF Bus!Next, Bus!MainStep

LEMMA ProgressStep ==
    BusTypes /\ Consecutive /\ Progress /\ [Bus!Next]_(Bus!vars) => Progress'
<1> SUFFICES ASSUME BusTypes, Consecutive, Progress, [Bus!Next]_(Bus!vars)
             PROVE  Progress'
  OBVIOUS
<1> USE Sizes DEF BusTypes, Progress, InTask, Bus!MainPCs, Bus!Subscribers
<1>1. CASE Bus!ThreadAppend
  <2>1. Begun' = Begun
    <3>1. /\ published' = published + 1 /\ ready' = ready
          /\ dq' = Append(dq, published + 1)
      BY <1>1 DEF Bus!ThreadAppend, Bus!Put, Bus!AppendItem, Bus!WriteToken
    <3>2. Len(dq') = Len(dq) + 1
      BY <3>1
    <3> QED
      BY <3>1, <3>2 DEF Taken, Begun
  <2> QED
    BY <1>1, <2>1 DEF Bus!ThreadAppend
<1>2. CASE Bus!ThreadWrite
  <2>1. Begun' = Begun
    BY <1>2 DEF Bus!ThreadWrite, Bus!Put, Bus!AppendItem, Bus!WriteToken, Taken, Begun
  <2> QED
    BY <1>2, <2>1 DEF Bus!ThreadWrite, Bus!Put, Bus!AppendItem, Bus!WriteToken
<1>3. CASE Bus!MainAppend
  <2>1. Begun' = Begun
    <3>1. /\ published' = published + 1 /\ ready' = ready
          /\ dq' = Append(dq, published + 1)
      BY <1>3 DEF Bus!MainAppend, Bus!Put, Bus!AppendItem, Bus!WriteToken
    <3>2. Len(dq') = Len(dq) + 1
      BY <3>1
    <3> QED
      BY <3>1, <3>2 DEF Taken, Begun
  <2> QED
    BY <1>3, <2>1 DEF Bus!MainAppend
<1>4. CASE Bus!MainWrite
  <2>1. Begun' = Begun
    BY <1>4 DEF Bus!MainWrite, Bus!Put, Bus!AppendItem, Bus!WriteToken, Taken, Begun
  <2> QED
    BY <1>4, <2>1 DEF Bus!MainWrite, Bus!Put, Bus!AppendItem, Bus!WriteToken
<1>5. CASE Bus!AddReader
  <2>1. Begun' = Begun
    BY <1>5 DEF Bus!AddReader, Taken, Begun
  <2> QED
    BY <1>5, <2>1 DEF Bus!AddReader
<1>6. CASE Bus!HandleEventqueue
  <2>1. Begun' = Begun
    BY <1>6 DEF Bus!HandleEventqueue, Taken, Begun
  <2> QED
    BY <1>6, <2>1 DEF Bus!HandleEventqueue
<1>7. CASE Bus!ReadToken
  <2>1. Begun' = Begun
    BY <1>7 DEF Bus!ReadToken, Taken, Begun
  <2> QED
    BY <1>7, <2>1 DEF Bus!ReadToken
<1>8. CASE Bus!Pop
  <2>1. Begun' = Begun
    <3>1. /\ dq' = Tail(dq) /\ ready' = Append(ready, Head(dq))
          /\ published' = published
      BY <1>8 DEF Bus!Pop
    <3>2. Len(dq') = Len(dq) - 1 /\ Len(ready') = Len(ready) + 1
      BY <1>8, <3>1 DEF Bus!Pop
    <3>3. Len(dq) \in Nat /\ Len(ready) \in Nat /\ published \in Nat
      OBVIOUS
    <3>4. published' - Len(dq') - Len(ready') = published - Len(dq) - Len(ready)
      <4>1. published' = published
        BY <3>1
      <4> HIDE DEF BusTypes, Progress
      <4> QED
        BY <3>2, <3>3, <4>1
    <3> QED
      BY <3>4 DEF Taken, Begun
  <2> QED
    BY <1>8, <2>1 DEF Bus!Pop
<1>9. CASE Bus!Drained
  <2>1. Begun' = Begun
    BY <1>9 DEF Bus!Drained, Taken, Begun
  <2> QED
    BY <1>9, <2>1 DEF Bus!Drained
<1>10. CASE Bus!RunTask
  <2>1. Begun \in Nat /\ Begun' = Begun + 1 /\ popped' = Begun'
    <3>1. /\ ready' = Tail(ready) /\ UNCHANGED <<dq, published>>
          /\ popped' = Head(ready)
      BY <1>10 DEF Bus!RunTask
    <3>2. Len(ready) \in Nat \ {0} /\ Len(ready') = Len(ready) - 1
      BY <1>10, <3>1 DEF Bus!RunTask
    <3>3. Head(ready) = ready[1] /\ ready[1] = Begun + 1
      BY <1>10, <3>2 DEF Bus!RunTask, Consecutive
    <3> QED
      BY <3>1, <3>2, <3>3 DEF Taken, Begun, Consecutive
  <2> QED
    BY <1>10, <2>1 DEF Bus!RunTask
<1>11. CASE Bus!CallSubscriber
  <2>1. Begun' = Begun /\ Begun \in Nat
    BY <1>11 DEF Bus!CallSubscriber, Taken, Begun, Consecutive
  <2>2. InTask /\ InTask'
    BY <1>11 DEF Bus!CallSubscriber
  <2>3. \A s \in Bus!Subscribers :
           seen'[s] = IF s < nextSub' THEN Begun ELSE Begun - 1
    BY <1>11, <2>2 DEF Bus!CallSubscriber
  <2> QED
    BY <1>11, <2>1, <2>2, <2>3 DEF Bus!CallSubscriber
<1>12. CASE Bus!EndTask
  <2>1. Begun' = Begun
    BY <1>12 DEF Bus!EndTask, Taken, Begun
  <2>2. \A s \in Bus!Subscribers : seen[s] = Begun
    BY <1>12 DEF Bus!EndTask
  <2> QED
    BY <1>12, <2>1, <2>2 DEF Bus!EndTask
<1>13. CASE UNCHANGED Bus!vars
  BY <1>13 DEF Bus!vars, Taken, Begun
<1> QED
  BY <1>1, <1>2, <1>3, <1>4, <1>5, <1>6, <1>7, <1>8, <1>9, <1>10,
     <1>11, <1>12, <1>13
     DEF Bus!Next, Bus!MainStep

LEMMA BusInvStep == BusInv /\ [Bus!Next]_(Bus!vars) => BusInv'
BY BusTypesStep, TokensStep, ConsecutiveStep, ProgressStep DEF BusInv

LEMMA BusInvariance == Bus!Spec => []BusInv
BY BusInvInit, BusInvStep, PTL DEF Bus!Spec

(* The variables keep their types; the eventfd never exceeds its bound because
   it never exceeds the length of the deque. *)
THEOREM BusTypeCorrect == Bus!Spec => []Bus!TypeOK
<1>1. BusInv => Bus!TypeOK
  <2> SUFFICES ASSUME BusInv
               PROVE  Bus!TypeOK
    OBVIOUS
  <2>1. tokens <= Len(dq)
    BY DEF BusInv, BusTypes, Bus!TokensMatchItems, Bus!Holding
  <2>2. Len(dq) <= published
    BY DEF BusInv, BusTypes, Consecutive, Taken
  <2>3. tokens \in 0..MaxEvents
    BY <2>1, <2>2, Sizes DEF BusInv, BusTypes
  <2> QED
    BY <2>3 DEF BusInv, BusTypes, Bus!TypeOK
<1> QED
  BY <1>1, BusInvariance, PTL

LEMMA CalledInOrder ==
    ASSUME BusInv, Bus!Next, NEW s \in Bus!Subscribers, seen'[s] # seen[s]
    PROVE  seen'[s] = seen[s] + 1
<1>1. Bus!CallSubscriber
  BY DEF Bus!Next, Bus!MainStep, Bus!ThreadAppend, Bus!ThreadWrite,
         Bus!MainAppend, Bus!MainWrite, Bus!AddReader, Bus!HandleEventqueue,
         Bus!ReadToken, Bus!Pop, Bus!Drained, Bus!RunTask,
         Bus!EndTask
<1>2. s = nextSub /\ seen'[s] = popped
  BY <1>1 DEF Bus!CallSubscriber, BusInv, BusTypes
<1>3. popped = Begun /\ seen[s] = Begun - 1 /\ Begun \in Nat
  BY <1>1, <1>2, Sizes
     DEF Bus!CallSubscriber, BusInv, BusTypes, Progress, InTask, Consecutive,
         Bus!Subscribers
<1> QED
  BY <1>2, <1>3

-----------------------------------------------------------------------------
(* The service. *)

(* The main thread is in start_providers, or in put() called from there. *)
Early == mpc = "start" \/ (mpc = "put" /\ caller = "start")

(* Where the main thread is when the event loop does not turn. *)
Waiting ==
    /\ Turning => ~Early
    /\ ~Turning => Early \/ mpc = "loop"
    /\ pc = "starting" => Early
    /\ Early /\ mpc = "put" => pc = "starting"
    /\ pc \in {"loading", "missing", "loop"} => mpc = "start"
    /\ pc \in {"stopping", "exited"} => ~Early

(* What the turning loop finds of the providers. *)
Phases ==
    /\ pc = "running" => started = Len(loaded) /\ stopped = 0
    /\ pc = "stopping" => started = Len(loaded)
    /\ pc \in {"loading", "starting"} => stopped = 0
    /\ suspended => pc = "stopping" /\ stopped < Len(loaded) /\ NextToStop = Mqtt

ServiceInv == IInv /\ BusInv /\ Waiting /\ Phases

-----------------------------------------------------------------------------
(* The two components. *)

LEMMA LoaderStep == [ServiceNext]_serviceVars => [Next]_vars
BY DEF ServiceNext, serviceVars, Load, Start, PublishAtStart, EnterLoop, HandleEvents,
       PublishAtWork, ThreadPublishes, End, AwaitStop, StopOne, Exit, Next, vars

LEMMA BusStep == [ServiceNext]_serviceVars => [Bus!Next]_(Bus!vars)
BY DEF ServiceNext, serviceVars, busVars, Load, Start, PublishAtStart, EnterLoop,
       HandleEvents, PublishAtWork, ThreadPublishes, End, AwaitStop, StopOne, Exit,
       Bus!ThreadAppend, Bus!ThreadWrite, Bus!MainStep, Bus!Next, Bus!vars

-----------------------------------------------------------------------------
(* The phases. *)

LEMMA WaitingStep == Waiting /\ Phases /\ [ServiceNext]_serviceVars => Waiting'
<1> SUFFICES ASSUME Waiting, Phases, [ServiceNext]_serviceVars
             PROVE  Waiting'
  OBVIOUS
<1> USE DEF Waiting, Phases, Early, Turning
<1>1. CASE Load
  BY <1>1 DEF Load, LoadStep, FindMissing, Postpone, Construct, ConstructorRaises,
              EndPass, Examining, busVars
<1>2. CASE Start
  BY <1>2 DEF Start, StartNext, StartRaises, busVars
<1>3. CASE PublishAtStart
  BY <1>3 DEF PublishAtStart, vars, Bus!MainAppend, Bus!MainWrite
<1>4. CASE EnterLoop
  BY <1>4 DEF EnterLoop, AllStarted, Bus!AddReader
<1>5. CASE HandleEvents
  BY <1>5 DEF HandleEvents, vars, Bus!MainStep, Bus!MainWrite, Bus!AddReader,
              Bus!HandleEventqueue, Bus!ReadToken, Bus!Pop, Bus!Drained, Bus!RunTask,
              Bus!CallSubscriber, Bus!EndTask
<1>6. CASE PublishAtWork
  BY <1>6 DEF PublishAtWork, vars, Bus!MainAppend
<1>7. CASE ThreadPublishes
  BY <1>7 DEF ThreadPublishes, vars, Bus!ThreadAppend, Bus!ThreadWrite
<1>8. CASE End
  BY <1>8 DEF End, MainEnds, busVars
<1>9. CASE AwaitStop
  BY <1>9 DEF AwaitStop, vars, busVars
<1>10. CASE StopOne
  BY <1>10 DEF StopOne, StopNext, StopRaises, busVars
<1>11. CASE Exit
  BY <1>11 DEF Exit, AllStopped, busVars
<1>12. CASE UNCHANGED serviceVars
  BY <1>12 DEF serviceVars, vars, busVars
<1> QED
  BY <1>1, <1>2, <1>3, <1>4, <1>5, <1>6, <1>7, <1>8, <1>9, <1>10, <1>11, <1>12
     DEF ServiceNext

LEMMA PhasesStep == TypeOK /\ Phases /\ [ServiceNext]_serviceVars => Phases'
<1> SUFFICES ASSUME TypeOK, Phases, [ServiceNext]_serviceVars
             PROVE  Phases'
  OBVIOUS
<1> USE DEF TypeOK, Phases, NextToStop
<1>1. CASE Load
  BY <1>1 DEF Load, LoadStep, FindMissing, Postpone, Construct, ConstructorRaises,
              EndPass, Examining, busVars
<1>2. CASE Start
  BY <1>2 DEF Start, StartNext, StartRaises, busVars
<1>3. CASE EnterLoop
  BY <1>3 DEF EnterLoop, AllStarted
<1>4. CASE End
  BY <1>4 DEF End, MainEnds
<1>5. CASE AwaitStop
  BY <1>5 DEF AwaitStop, vars, Suspends
<1>6. CASE StopOne
  BY <1>6 DEF StopOne, StopNext, StopRaises
<1>7. CASE Exit
  BY <1>7 DEF Exit, AllStopped
<1>8. CASE UNCHANGED <<vars, suspended>>
  BY <1>8 DEF vars
<1> QED
  BY <1>1, <1>2, <1>3, <1>4, <1>5, <1>6, <1>7, <1>8
     DEF ServiceNext, PublishAtStart, HandleEvents, PublishAtWork, ThreadPublishes,
         serviceVars

LEMMA Invariant == ServiceSpec => []ServiceInv
<1>1. ServiceInit => ServiceInv
  <2> SUFFICES ASSUME ServiceInit
               PROVE  ServiceInv
    OBVIOUS
  <2>1. IInv
    BY InvInit DEF ServiceInit
  <2>2. BusInv
    BY BusInvInit DEF ServiceInit
  <2>3. Waiting /\ Phases
    BY DEF ServiceInit, Init, Bus!Init, Waiting, Phases, Early, Turning
  <2> QED
    BY <2>1, <2>2, <2>3 DEF ServiceInv
<1>2. ServiceInv /\ [ServiceNext]_serviceVars => ServiceInv'
  BY LoaderStep, BusStep, InvStep, BusInvStep, WaitingStep, PhasesStep
     DEF ServiceInv, IInv
<1> QED
  BY <1>1, <1>2, PTL DEF ServiceSpec

-----------------------------------------------------------------------------
(* The eventfd and the deque agree in every interleaving of the two threads,
   while the providers start, at work and while they stop. *)
THEOREM TokensCorrect == ServiceSpec => []TokensMatchItems
<1>1. ServiceInv => TokensMatchItems
  BY DEF ServiceInv, BusInv, TokensMatchItems
<1> QED
  BY <1>1, Invariant, PTL

(* Every subscriber is called with every event once and in order. *)
THEOREM OrderCorrect == ServiceSpec => InOrder
<1>1. ServiceInv /\ [ServiceNext]_serviceVars =>
         [\A s \in Bus!Subscribers :
             seen'[s] # seen[s] => seen'[s] = seen[s] + 1]_(Bus!vars)
  <2> SUFFICES ASSUME ServiceInv, [ServiceNext]_serviceVars, NEW s \in Bus!Subscribers,
                      seen'[s] # seen[s]
               PROVE  seen'[s] = seen[s] + 1
    OBVIOUS
  <2>1. BusInv /\ Bus!Next
    BY BusStep DEF ServiceInv, Bus!vars
  <2> QED
    BY <2>1, CalledInOrder
<1> QED
  BY <1>1, Invariant, PTL DEF ServiceSpec, InOrder, Bus!InOrder

(* A provider is constructed, and is active, only while every provider it
   requires is. *)
THEOREM StopsInOrder == ServiceSpec => []RequirementsServed
<1>1. ServiceInv => RequirementsServed
  BY Served DEF ServiceInv
<1> QED
  BY <1>1, Invariant, PTL

-----------------------------------------------------------------------------
(* No provider is loaded twice: there are as many as there are classes. *)
LEMMA LoadedOnce ==
    ASSUME IInv, pc \in {"running", "stopping"}
    PROVE  /\ Loaded = Providers
           /\ \A m, n \in 1..Len(loaded) : loaded[m] = loaded[n] => m = n
<1>1. pending = <<>> /\ Loaded = Providers
  BY DEF IInv, Done, VerdictIsRight
<1>2. Len(loaded) = Cardinality(Providers) /\ Len(loaded) \in Nat
  BY <1>1, Size DEF IInv, TypeOK
<1>3. loaded \in Surjection(1..Len(loaded), Providers)
  BY <1>1 DEF Loaded, Elements, Surjection, IInv, TypeOK
<1>4. IsFiniteSet(1..Len(loaded)) /\ Cardinality(1..Len(loaded)) = Len(loaded)
  BY <1>2, FS_Interval
<1>5. loaded \in Injection(1..Len(loaded), Providers)
  BY <1>2, <1>3, <1>4, FS_Surjection
<1> QED
  BY <1>1, <1>5 DEF Injection, IsInjective

(* When a subscriber is called every provider is active, or stop_providers
   awaits the stop() of MQTT and none of those that share in MQTT is. *)
ActiveWhenCalled ==
    mpc = "task" => IF suspended THEN Users \cap Active = {} ELSE Active = Providers

(* Events are handled with the agent complete, or with nothing left that they
   and the requests connect, whatever the providers require of each other: all of
   these are active when a subscriber is called, or none. *)
THEOREM ActiveTogether == ServiceSpec => [](ActiveWhenCalled /\ AllOrNoneActive)
<1>1. ServiceInv => ActiveWhenCalled /\ AllOrNoneActive
  <2> SUFFICES ASSUME ServiceInv, mpc = "task"
               PROVE  IF suspended THEN Users \cap Active = {} ELSE Active = Providers
    BY DEF ActiveWhenCalled, AllOrNoneActive, Users
  <2>1. Turning
    BY DEF ServiceInv, Waiting, Early
  <2>2. /\ pc \in {"running", "stopping"} /\ started = Len(loaded)
        /\ stopped \in 0..Len(loaded) /\ Len(loaded) \in Nat
    BY <2>1 DEF Turning, ServiceInv, Phases, IInv, TypeOK
  <2>3. Active = {loaded[n] : n \in 1..(Len(loaded) - stopped)}
    BY <2>2 DEF Active
  <2>4. CASE pc = "running"
    <3>1. Active = Loaded
      BY <2>3, <2>4 DEF ServiceInv, Phases, IInv, TypeOK, Loaded, Elements
    <3>2. ~suspended
      BY <2>4 DEF ServiceInv, Phases
    <3> QED
      BY <2>2, <3>1, <3>2, LoadedOnce DEF ServiceInv
  <2>5. CASE suspended
    <3>1. /\ Len(loaded) - stopped \in 1..Len(loaded)
          /\ loaded[Len(loaded) - stopped] = Mqtt
      BY <2>2, <2>5 DEF ServiceInv, Phases, NextToStop
    <3>2. SUFFICES ASSUME NEW n \in 1..(Len(loaded) - stopped), loaded[n] \in Users
                   PROVE  FALSE
      BY <2>3, <2>5
    <3>3. n \in 1..Len(loaded)
      BY <2>2
    <3>4. ASSUME NEW m \in 1..n, Mqtt \in requires[loaded[m]]
          PROVE  FALSE
      <4>1. m \in 1..Len(loaded)
        BY <3>3
      <4>2. PICK k \in 1..(m - 1) : loaded[k] = Mqtt
        BY <3>4, <4>1 DEF ServiceInv, IInv, Ordered
      <4>3. k = Len(loaded) - stopped
        BY <2>2, <3>1, <4>1, <4>2, LoadedOnce DEF ServiceInv
      <4> QED
        BY <3>2, <4>2, <4>3
    <3>5. PICK q \in requires[loaded[n]] : Mqtt \in requires[q]
      BY <3>2, <3>4 DEF Users
    <3>6. PICK k \in 1..(n - 1) : loaded[k] = q
      BY <3>3, <3>5 DEF ServiceInv, IInv, Ordered
    <3> QED
      BY <3>4, <3>5, <3>6
  <2> QED
    BY <2>1, <2>4, <2>5 DEF Turning
<1> QED
  BY <1>1, Invariant, PTL

-----------------------------------------------------------------------------
(* Remote calls (RpcTransport). *)

LEMMA RpcSizes == /\ MaxCalls \in Nat /\ MaxCalls >= 1
               /\ CallsOf \in [Clients -> 0..MaxCalls]
BY CallsAssumption

LEMMA TailFacts ==
    ASSUME NEW S, NEW s \in Seq(S), s # <<>>
    PROVE  /\ Tail(s) \in Seq(S)
           /\ Len(Tail(s)) = Len(s) - 1
           /\ \A k \in 1..Len(Tail(s)) : Tail(s)[k] = s[k + 1]
           /\ Head(s) = s[1] /\ Head(s) \in S /\ Len(s) >= 1
OBVIOUS

LEMMA PrefixFacts ==
    ASSUME NEW S, NEW s \in Seq(S), NEW p \in Prefixes(s)
    PROVE  /\ p \in Seq(S)
           /\ Len(p) <= Len(s)
           /\ \A k \in 1..Len(p) : p[k] = s[k]
BY DEF Prefixes

-----------------------------------------------------------------------------
(* Types. *)

LEMMA RpcTypeInit == RpcInit => RpcTypeOK
BY RpcSizes DEF RpcInit, RpcTypeOK, Codes, Links, Ids, Calls

LEMMA RequestType ==
    ASSUME RpcTypeOK, NEW c \in Clients, made[c] < CallsOf[c], nextId[c] = made[c]
    PROVE  /\ RequestId(c) \in Ids
           /\ made[c] + 1 \in Calls
           /\ [client |-> c, id |-> RequestId(c), call |-> made[c] + 1]
                 \in Requests
BY RpcSizes DEF RpcTypeOK, RequestId, Ids, Calls, Requests

LEMMA SendResponseType ==
    ASSUME RpcTypeOK, NEW r \in Requests, NEW code \in Codes, SendResponse(r, code)
    PROVE  replies' \in [Clients -> Seq(Responses)]
<1>1. [id |-> r.id, code |-> code] \in Responses
  BY DEF Requests, Responses
<1>2. replies \in [Clients -> Seq(Responses)]
  BY DEF RpcTypeOK
<1>3. \A c \in Clients :
         Append(replies[c], [id |-> r.id, code |-> code]) \in Seq(Responses)
  BY <1>1, <1>2
<1> QED
  BY <1>2, <1>3 DEF SendResponse

LEMMA ReplyRange ==
    ASSUME RpcTypeOK, NEW c \in Clients, replies[c] # <<>>
    PROVE  /\ Head(replies[c]).id \in Ids
           /\ Head(replies[c]).code \in Codes
           /\ Tail(replies[c]) \in Seq(Responses)
<1>1. replies[c] \in Seq(Responses)
  BY DEF RpcTypeOK
<1>2. Head(replies[c]) \in Responses /\ Tail(replies[c]) \in Seq(Responses)
  BY <1>1
<1> QED
  BY <1>2 DEF Responses

-----------------------------------------------------------------------------
(* The numbers: a request carries the number of its call less one, and calls
   and identifiers are counted together. *)

WellNumbered(r) == r.call = r.id + 1 /\ r.call <= made[r.client]

Numbering ==
    /\ \A c \in Clients : nextId[c] = made[c]
    /\ \A j \in 1..Len(queue) : WellNumbered(queue[j])
    /\ apc = "handling" <=> job # NoJob
    /\ apc = "handling" => WellNumbered(job)

(* What a client has been told, by what it is doing. *)
Sessions ==
    \A c \in Clients :
        /\ cpc[c] = "off" => made[c] = 0
        /\ \A n \in Calls : n > made[c] => told[c][n] = "nothing"
        /\ cpc[c] \in {"off", "idle"} =>
              \A n \in 1..made[c] : told[c][n] # "nothing"
        /\ cpc[c] = "waiting" =>
              /\ made[c] > 0
              /\ told[c][made[c]] = "nothing"
              /\ \A n \in 1..(made[c] - 1) : told[c][n] # "nothing"
        /\ result[c] # "none" => cpc[c] = "waiting"

(* The calls of a client lie in the queue in order, and behind every call of
   it that was begun. *)
Order ==
    /\ \A x, j \in 1..Len(queue) :
          x < j /\ queue[x].client = queue[j].client =>
              queue[x].call < queue[j].call
    /\ \A j \in 1..Len(queue) : \A m \in R!Started(queue[j].client) :
          m < queue[j].call
    /\ \A c \in Clients : \A m \in R!Started(c) : m <= made[c]
    /\ \A c \in Clients : done[c] \subseteq R!Started(c)
    /\ apc = "handling" =>
          job.call \in R!Started(job.client) \ done[job.client]

(* A call that was answered lies nowhere on the way to its handler. *)
Settled(c, n) ==
    /\ n \in 1..made[c]
    /\ \A j \in 1..Len(queue) : queue[j].client = c => queue[j].call # n
    /\ apc = "handling" /\ job.client = c => job.call # n

Answered(c, n, code) == Settled(c, n) /\ R!True(code, c, n)

(* Every answer under way is true of its call, and stays so. *)
Answers ==
    \A c \in Clients :
        /\ \A k \in 1..Len(replies[c]) :
              Answered(c, replies[c][k].id + 1, replies[c][k].code)
        /\ result[c] # "none" => Answered(c, made[c], result[c])

RpcIInv == RpcTypeOK /\ Numbering /\ Sessions /\ Order /\ Answers /\ InFlightIsWaitedFor

-----------------------------------------------------------------------------
(* Every step but a request keeps a part of the queue, in order. *)
Shifted(d) ==
    /\ d \in Nat
    /\ queue' \in Seq(Requests)
    /\ Len(queue') + d <= Len(queue)
    /\ \A j \in 1..Len(queue') : j + d \in 1..Len(queue) /\ queue'[j] = queue[j + d]

LEMMA Shifting ==
    ASSUME RpcTypeOK,
           \/ UNCHANGED queue
           \/ queue' = <<>>
           \/ queue' \in Prefixes(queue)
           \/ queue # <<>> /\ queue' = Tail(queue)
    PROVE  \E d \in {0, 1} : Shifted(d)
<1> queue \in Seq(Requests)
  BY DEF RpcTypeOK
<1>1. CASE UNCHANGED queue
  <2>1. Len(queue) \in Nat
    OBVIOUS
  <2> QED
    BY <1>1, <2>1 DEF Shifted
<1>2. CASE queue' = <<>>
  <2>1. Len(queue) \in Nat
    OBVIOUS
  <2> QED
    BY <1>2, <2>1 DEF Shifted
<1>3. CASE queue' \in Prefixes(queue)
  <2>1. /\ queue' \in Seq(Requests)
        /\ Len(queue') <= Len(queue)
        /\ \A k \in 1..Len(queue') : queue'[k] = queue[k]
    BY <1>3, PrefixFacts
  <2>2. Len(queue) \in Nat /\ Len(queue') \in Nat
    BY <2>1
  <2> QED
    BY <2>1, <2>2 DEF Shifted
<1>4. CASE queue # <<>> /\ queue' = Tail(queue)
  <2>1. /\ queue' \in Seq(Requests)
        /\ Len(queue') = Len(queue) - 1
        /\ \A k \in 1..Len(queue') : queue'[k] = queue[k + 1]
    BY <1>4, TailFacts
  <2>2. Len(queue) \in Nat /\ Len(queue') \in Nat
    BY <2>1
  <2> QED
    BY <2>1, <2>2 DEF Shifted
<1> QED
  BY <1>1, <1>2, <1>3, <1>4

LEMMA HeadOfQueue ==
    ASSUME RpcTypeOK, queue # <<>>
    PROVE  /\ Head(queue) = queue[1] /\ 1 \in 1..Len(queue)
           /\ Head(queue) \in Requests
           /\ Tail(queue) \in Seq(Requests)
BY TailFacts DEF RpcTypeOK

LEMMA RequestRange ==
    ASSUME NEW r \in Requests
    PROVE  r.client \in Clients /\ r.id \in Ids /\ r.call \in Calls
BY DEF Requests

(* A request goes to the end of the queue, or is lost. *)
LEMMA PublishQueue ==
    ASSUME RpcTypeOK, NEW r \in Requests, Publish(r)
    PROVE  /\ queue' \in Seq(Requests)
           /\ \A j \in 1..Len(queue') :
                 \/ j \in 1..Len(queue) /\ queue'[j] = queue[j]
                 \/ queue'[j] = r /\ j = Len(queue) + 1
<1>1. CASE queue' = Append(queue, r)
  <2>1. /\ queue' \in Seq(Requests)
        /\ Len(queue') = Len(queue) + 1
        /\ \A k \in 1..Len(queue) : queue'[k] = queue[k]
        /\ queue'[Len(queue) + 1] = r
    BY <1>1, AppendFacts DEF RpcTypeOK
  <2>2. Len(queue) \in Nat
    BY DEF RpcTypeOK
  <2> QED
    BY <2>1, <2>2
<1>2. CASE UNCHANGED queue
  BY <1>2 DEF RpcTypeOK
<1> QED
  BY <1>1, <1>2 DEF Publish

-----------------------------------------------------------------------------
(* Types are kept. *)
LEMMA RpcTypeStep ==
    ASSUME RpcTypeOK, Numbering, Sessions, [RpcNext]_rpcVars
    PROVE  RpcTypeOK'
<1> USE RpcSizes
<1>1. ASSUME NEW c \in Clients, StartClient(c) PROVE RpcTypeOK'
  BY <1>1 DEF RpcTypeOK, StartClient, agentVars, Links
<1>2. ASSUME NEW c \in Clients, SubscribeClient(c) PROVE RpcTypeOK'
  BY <1>2 DEF RpcTypeOK, SubscribeClient, agentVars, Links
<1>3. ASSUME NEW c \in Clients, LoseClientLink(c) PROVE RpcTypeOK'
  <2>1. PICK p \in Prefixes(replies[c]) : replies' = [replies EXCEPT ![c] = p]
    BY <1>3 DEF LoseClientLink
  <2>2. p \in Seq(Responses)
    BY PrefixFacts DEF RpcTypeOK
  <2>3. replies' \in [Clients -> Seq(Responses)]
    BY <2>1, <2>2 DEF RpcTypeOK
  <2> QED
    BY <1>3, <2>3 DEF RpcTypeOK, LoseClientLink, agentVars, Links
<1>4. ASSUME NEW c \in Clients, ExitClient(c) PROVE RpcTypeOK'
  BY <1>4 DEF RpcTypeOK, ExitClient, agentVars, Links
<1>5. ASSUME NEW c \in Clients, Request(c) PROVE RpcTypeOK'
  <2>1. /\ RequestId(c) \in Ids /\ made[c] + 1 \in Calls
        /\ [client |-> c, id |-> RequestId(c), call |-> made[c] + 1] \in Requests
    BY <1>5, RequestType DEF Request, Numbering
  <2>2. queue' \in Seq(Requests)
    BY <1>5, <2>1, PublishQueue DEF Request
  <2>3. made' \in [Clients -> 0..MaxCalls] /\ nextId' \in [Clients -> 0..MaxCalls]
    BY <1>5, <2>1 DEF RpcTypeOK, Request, Numbering, Calls
  <2>4. inFlight' \in [Clients -> [Ids -> {"none", "pending", "cancelled"}]]
    BY <1>5, <2>1 DEF RpcTypeOK, Request
  <2> QED
    BY <1>5, <2>2, <2>3, <2>4 DEF RpcTypeOK, Request, agentVars
<1>6. ASSUME NEW c \in Clients, HandleResponse(c) PROVE RpcTypeOK'
  <2>1. /\ Head(replies[c]).id \in Ids /\ Head(replies[c]).code \in Codes
        /\ Tail(replies[c]) \in Seq(Responses)
    BY <1>6, ReplyRange DEF HandleResponse
  <2>2. result' \in [Clients -> Codes \cup {"none"}]
    BY <1>6, <2>1 DEF RpcTypeOK, HandleResponse
  <2>3. inFlight' \in [Clients -> [Ids -> {"none", "pending", "cancelled"}]]
    <3>1. \A x \in Ids : [inFlight EXCEPT ![c][x] = "none"]
                            \in [Clients -> [Ids -> {"none", "pending", "cancelled"}]]
      BY DEF RpcTypeOK
    <3> QED
      BY <1>6, <2>1, <3>1, ZenonT(20) DEF RpcTypeOK, HandleResponse
  <2>4. replies' \in [Clients -> Seq(Responses)]
    BY <1>6, <2>1 DEF RpcTypeOK, HandleResponse
  <2> QED
    BY <1>6, <2>2, <2>3, <2>4 DEF RpcTypeOK, HandleResponse, agentVars
<1>7. ASSUME NEW c \in Clients, GetResponse(c) PROVE RpcTypeOK'
  <2>1. made[c] \in Calls
    BY <1>7 DEF RpcTypeOK, Sessions, GetResponse, Calls
  <2>2. told' \in [Clients -> [Calls -> Codes \cup {"nothing", "unknown"}]]
    BY <1>7, <2>1 DEF RpcTypeOK, GetResponse, Tell
  <2> QED
    BY <1>7, <2>2 DEF RpcTypeOK, GetResponse, Tell, agentVars
<1>8. ASSUME NEW c \in Clients, Timeout(c) PROVE RpcTypeOK'
  <2>1. made[c] \in Calls
    BY <1>8 DEF RpcTypeOK, Sessions, Timeout, Calls
  <2>2. told' \in [Clients -> [Calls -> Codes \cup {"nothing", "unknown"}]]
    BY <1>8, <2>1 DEF RpcTypeOK, Timeout, Tell
  <2>3. inFlight' \in [Clients -> [Ids -> {"none", "pending", "cancelled"}]]
    BY <1>8 DEF RpcTypeOK, Timeout, CancelFutures
  <2> QED
    BY <1>8, <2>2, <2>3 DEF RpcTypeOK, Timeout, Tell, agentVars
<1>9. CASE StartAgent \/ SubscribeAgent
  BY <1>9 DEF RpcTypeOK, StartAgent, SubscribeAgent, clientVars, Links
<1>10. CASE LoseAgentLink
  <2>1. queue' \in Seq(Requests)
    BY <1>10, PrefixFacts DEF LoseAgentLink, RpcTypeOK
  <2> QED
    BY <1>10, <2>1 DEF RpcTypeOK, LoseAgentLink, clientVars, Links
<1>11. CASE CrashAgent
  BY <1>11 DEF RpcTypeOK, CrashAgent, clientVars, Links
<1>12. CASE Refuse
  <2>1. Head(queue) \in Requests /\ Tail(queue) \in Seq(Requests)
    BY <1>12, HeadOfQueue DEF Refuse
  <2>2. replies' \in [Clients -> Seq(Responses)]
    BY <1>12, <2>1, SendResponseType DEF Refuse, Codes
  <2> QED
    BY <1>12, <2>1, <2>2 DEF RpcTypeOK, Refuse, clientVars, agentVars
<1>13. CASE Ignore
  BY <1>13, HeadOfQueue DEF RpcTypeOK, Ignore, clientVars, agentVars
<1>14. CASE CallHandler
  <2>1. Head(queue) \in Requests /\ Tail(queue) \in Seq(Requests)
    BY <1>14, HeadOfQueue DEF CallHandler
  <2>2. begun' \in [Clients -> Seq(Calls)]
    <3>1. Append(begun[Head(queue).client], Head(queue).call) \in Seq(Calls)
      BY <2>1, RequestRange, AppendFacts DEF RpcTypeOK
    <3> QED
      BY <1>14, <3>1 DEF RpcTypeOK, CallHandler
  <2> QED
    BY <1>14, <2>1, <2>2 DEF RpcTypeOK, CallHandler, clientVars
<1>15. CASE HandlerReturns
  <2>1. job \in Requests
    BY <1>15 DEF RpcTypeOK, Numbering, HandlerReturns
  <2>2. replies' \in [Clients -> Seq(Responses)]
    BY <1>15, <2>1, SendResponseType DEF HandlerReturns, Codes
  <2>3. done' \in [Clients -> SUBSET Calls]
    BY <1>15, <2>1, RequestRange DEF RpcTypeOK, HandlerReturns
  <2> QED
    BY <1>15, <2>2, <2>3 DEF RpcTypeOK, HandlerReturns, clientVars
<1>16. CASE HandlerRaises
  <2>1. job \in Requests
    BY <1>16 DEF RpcTypeOK, Numbering, HandlerRaises
  <2>2. replies' \in [Clients -> Seq(Responses)]
    BY <1>16, <2>1, SendResponseType DEF HandlerRaises, Codes
  <2> QED
    BY <1>16, <2>2 DEF RpcTypeOK, HandlerRaises, clientVars
<1>17. CASE UNCHANGED rpcVars
  BY <1>17 DEF RpcTypeOK, rpcVars, clientVars, agentVars
<1> QED
  BY <1>1, <1>2, <1>3, <1>4, <1>5, <1>6, <1>7, <1>8, <1>9, <1>10, <1>11,
     <1>12, <1>13, <1>14, <1>15, <1>16, <1>17 DEF RpcNext, AgentStep, ClientStep

-----------------------------------------------------------------------------
(* The numbers stay in step. *)
LEMMA NumberingStep ==
    ASSUME RpcTypeOK, Numbering, RpcTypeOK', [RpcNext]_rpcVars
    PROVE  Numbering'
<1> USE RpcSizes
<1>1. ASSUME NEW c \in Clients, Request(c) PROVE Numbering'
  <2>1. PICK r \in Requests :
           r = [client |-> c, id |-> RequestId(c), call |-> made[c] + 1]
    BY <1>1, RequestType DEF Request, Numbering
  <2>2. /\ r.call = r.id + 1
        /\ r.call = made'[c] /\ r.client = c
        /\ \A d \in Clients : made[d] <= made'[d]
    BY <1>1, <2>1 DEF Request, RpcTypeOK, RequestId, Numbering
  <2>3. \A d \in Clients : nextId'[d] = made'[d]
    BY <1>1 DEF Request, RpcTypeOK, Numbering
  <2>4. WellNumbered(r)'
    BY <2>1, <2>2, RequestRange DEF WellNumbered, RpcTypeOK
  <2>5. ASSUME NEW q \in Requests, WellNumbered(q) PROVE WellNumbered(q)'
    <3>1. /\ made[q.client] <= made'[q.client]
          /\ made[q.client] \in Nat /\ made'[q.client] \in Nat /\ q.call \in Nat
      BY <2>2, RequestRange DEF RpcTypeOK, Calls
    <3> QED
      BY <2>5, <3>1 DEF WellNumbered
  <2>6. (\A j \in 1..Len(queue) : WellNumbered(queue[j]))'
    <3> SUFFICES ASSUME NEW j \in 1..Len(queue') PROVE queue'[j] \in Requests /\ WellNumbered(queue[j])'
      OBVIOUS
    <3>1. queue \in Seq(Requests) /\ queue' \in Seq(Requests)
      BY DEF RpcTypeOK
    <3>2. queue'[j] = r \/ (j \in 1..Len(queue) /\ queue'[j] = queue[j])
      <4>1. Publish(r)
        BY <1>1, <2>1 DEF Request
      <4> QED
        BY <4>1, PublishQueue
    <3>3. CASE queue'[j] = r
      BY <2>4, <3>3 DEF WellNumbered
    <3>4. CASE j \in 1..Len(queue) /\ queue'[j] = queue[j]
      <4>1. queue[j] \in Requests /\ WellNumbered(queue[j])
        BY <3>1, <3>4 DEF Numbering
      <4>2. PICK q \in Requests : q = queue[j]
        BY <4>1
      <4>3. WellNumbered(q)'
        BY <2>5, <4>1, <4>2 DEF WellNumbered
      <4> QED
        BY <3>4, <4>1, <4>2, <4>3 DEF WellNumbered
    <3> QED
      BY <3>2, <3>3, <3>4
  <2>7. (apc = "handling" <=> job # NoJob)' /\ (apc = "handling" => WellNumbered(job))'
    <3>1. apc = "handling" => job \in Requests
      BY DEF Numbering, RpcTypeOK
    <3> QED
      BY <1>1, <2>5, <3>1 DEF Request, Numbering, agentVars, WellNumbered
  <2> QED
    BY <2>3, <2>6, <2>7 DEF Numbering
<1>2. ASSUME UNCHANGED <<nextId, made>>, NEW d \in {0, 1}, Shifted(d)
      PROVE  (\A j \in 1..Len(queue) : WellNumbered(queue[j]))'
  BY <1>2 DEF Shifted, Numbering, WellNumbered
<1>3. CASE AgentStep
  <2>1. UNCHANGED <<nextId, made>>
    BY <1>3 DEF AgentStep, StartAgent, SubscribeAgent, LoseAgentLink, CrashAgent,
       Refuse, Ignore, CallHandler, HandlerReturns, HandlerRaises, clientVars
  <2>2. \E d \in {0, 1} : Shifted(d)
    BY <1>3, Shifting DEF AgentStep, StartAgent, SubscribeAgent, LoseAgentLink,
       CrashAgent, Refuse, Ignore, CallHandler, HandlerReturns, HandlerRaises,
       clientVars
  <2>3. (apc = "handling" <=> job # NoJob)' /\ (apc = "handling" => WellNumbered(job))'
    <3>1. CASE CallHandler
      BY <2>1, <3>1, HeadOfQueue, NoJobAssumption
      DEF CallHandler, Numbering, WellNumbered
    <3> QED
      BY <1>3, <2>1, <3>1 DEF AgentStep, StartAgent, SubscribeAgent, LoseAgentLink,
         CrashAgent, Refuse, Ignore, HandlerReturns, HandlerRaises, agentVars,
         Numbering, WellNumbered
  <2> QED
    BY <1>2, <2>1, <2>2, <2>3 DEF Numbering
<1>4. ASSUME UNCHANGED <<nextId, made, queue, apc, job>> PROVE Numbering'
  BY <1>4 DEF Numbering, WellNumbered
<1>5. ASSUME NEW c \in Clients, ClientStep(c), ~Request(c) PROVE Numbering'
  BY <1>4, <1>5 DEF ClientStep, StartClient, SubscribeClient, LoseClientLink,
     ExitClient, HandleResponse, GetResponse, Timeout, Tell, agentVars
<1> QED
  BY <1>1, <1>3, <1>4, <1>5 DEF RpcNext, rpcVars, clientVars, agentVars

-----------------------------------------------------------------------------
(* What the clients were told. *)
LEMMA SessionsStep ==
    ASSUME RpcTypeOK, Sessions, InFlightIsWaitedFor, RpcTypeOK', [RpcNext]_rpcVars
    PROVE  Sessions'
<1> USE RpcSizes
<1>1. ASSUME NEW c \in Clients, StartClient(c) PROVE Sessions'
  BY <1>1 DEF StartClient, Sessions, RpcTypeOK
<1>2. ASSUME NEW c \in Clients, ExitClient(c) PROVE Sessions'
  BY <1>2 DEF ExitClient, Sessions, RpcTypeOK
<1>3. ASSUME NEW c \in Clients, Request(c) PROVE Sessions'
  <2>1. made[c] + 1 \in Calls /\ made'[c] = made[c] + 1
    BY <1>3 DEF Request, RpcTypeOK, Calls
  <2> QED
    BY <1>3, <2>1, SMTT(20) DEF Request, Sessions, RpcTypeOK, Calls
<1>4. ASSUME NEW c \in Clients, HandleResponse(c) PROVE Sessions'
  <2>1. Head(replies[c]).id \in Ids
    BY <1>4, ReplyRange DEF HandleResponse
  <2>2. \A d \in Clients : result'[d] # "none" => result[d] # "none" \/ cpc[d] = "waiting"
    BY <1>4, <2>1 DEF HandleResponse, InFlightIsWaitedFor, RpcTypeOK
  <2> QED
    BY <1>4, <2>2 DEF HandleResponse, Sessions
<1>5. ASSUME NEW c \in Clients, NEW answer \in Codes \cup {"unknown"}, cpc[c] = "waiting",
             Tell(c, answer), UNCHANGED made
      PROVE  Sessions'
  <2>1. made[c] \in Calls
    BY <1>5 DEF Sessions, RpcTypeOK, Calls
  <2>2. answer # "nothing"
    BY DEF Codes
  <2>3. ASSUME NEW n \in 1..made[c] PROVE told'[c][n] # "nothing"
    <3>1. n \in Calls /\ (n = made[c] \/ n \in 1..(made[c] - 1))
      BY <2>1 DEF Calls
    <3>2. told'[c] = [told[c] EXCEPT ![made[c]] = answer]
      BY <1>5 DEF Tell, RpcTypeOK
    <3>3. \A k \in 1..(made[c] - 1) : told[c][k] # "nothing"
      BY <1>5 DEF Sessions
    <3> QED
      BY <2>2, <3>1, <3>2, <3>3 DEF RpcTypeOK
  <2>4. /\ cpc'[c] = "idle" /\ result'[c] = "none"
        /\ \A n \in Calls : n > made[c] => told'[c][n] = told[c][n]
        /\ \A d \in Clients \ {c} :
              cpc'[d] = cpc[d] /\ result'[d] = result[d] /\ told'[d] = told[d]
    BY <1>5, <2>1 DEF Tell, RpcTypeOK, Calls
  <2> QED
    BY <1>5, <2>3, <2>4 DEF Sessions
<1>6. ASSUME NEW c \in Clients, GetResponse(c) PROVE Sessions'
  BY <1>5, <1>6 DEF GetResponse, RpcTypeOK
<1>7. ASSUME NEW c \in Clients, Timeout(c) PROVE Sessions'
  BY <1>5, <1>7 DEF Timeout
<1>8. ASSUME UNCHANGED <<cpc, result, made, told>> PROVE Sessions'
  BY <1>8 DEF Sessions
<1>9. ASSUME NEW c \in Clients, SubscribeClient(c) \/ LoseClientLink(c) PROVE Sessions'
  BY <1>8, <1>9 DEF SubscribeClient, LoseClientLink
<1>10. CASE AgentStep
  BY <1>8, <1>10 DEF AgentStep, StartAgent, SubscribeAgent, LoseAgentLink, CrashAgent,
     Refuse, Ignore, CallHandler, HandlerReturns, HandlerRaises, clientVars
<1> QED
  BY <1>1, <1>2, <1>3, <1>4, <1>6, <1>7, <1>8, <1>9, <1>10
  DEF RpcNext, ClientStep, rpcVars, clientVars

-----------------------------------------------------------------------------
(* The table of requests in flight. *)
LEMMA InFlightStep ==
    ASSUME RpcTypeOK, Numbering, Sessions, InFlightIsWaitedFor, RpcTypeOK', [RpcNext]_rpcVars
    PROVE  InFlightIsWaitedFor'
<1> USE RpcSizes
<1>1. ASSUME NEW c \in Clients, StartClient(c) PROVE InFlightIsWaitedFor'
  BY <1>1 DEF StartClient, InFlightIsWaitedFor, RpcTypeOK
<1>2. ASSUME NEW c \in Clients, ExitClient(c) PROVE InFlightIsWaitedFor'
  BY <1>2 DEF ExitClient, InFlightIsWaitedFor, RpcTypeOK
<1>3. ASSUME NEW c \in Clients, Request(c) PROVE InFlightIsWaitedFor'
  <2>1. RequestId(c) \in Ids /\ RequestId(c) = nextId[c]
    BY <1>3, RequestType DEF Request, Numbering, RequestId
  <2>2. result[c] = "none"
    BY <1>3 DEF Request, Sessions
  <2>3. /\ cpc'[c] = "waiting" /\ nextId'[c] = nextId[c] + 1
        /\ inFlight'[c] = [inFlight[c] EXCEPT ![nextId[c]] = "pending"]
        /\ \A d \in Clients \ {c} : /\ cpc'[d] = cpc[d] /\ nextId'[d] = nextId[d]
                                    /\ inFlight'[d] = inFlight[d]
    BY <1>3, <2>1 DEF Request, RpcTypeOK
  <2>4. \A x \in Ids : inFlight[c][x] # "pending"
    BY <1>3 DEF Request, InFlightIsWaitedFor
  <2>5. \A x \in Ids : inFlight'[c][x] = "pending" <=> x = nextId[c]
    BY <2>1, <2>3, <2>4 DEF RpcTypeOK
  <2>6. \A x \in Ids : x = nextId[c] <=> nextId'[c] = x + 1
    BY <2>3 DEF RpcTypeOK, Ids
  <2>7. \A x \in Ids : inFlight'[c][x] = "cancelled" => inFlight[c][x] = "cancelled"
    BY <2>1, <2>3 DEF RpcTypeOK
  <2>8. UNCHANGED <<result, told>>
    BY <1>3 DEF Request
  <2> SUFFICES ASSUME NEW d \in Clients, NEW x \in Ids
               PROVE  /\ inFlight'[d][x] = "pending" <=>
                            /\ cpc'[d] = "waiting"
                            /\ result'[d] = "none"
                            /\ nextId'[d] = x + 1
                      /\ inFlight'[d][x] = "cancelled" => told'[d][x + 1] = "unknown"
    BY DEF InFlightIsWaitedFor
  <2>9. CASE d = c
    BY <2>2, <2>3, <2>5, <2>6, <2>7, <2>8, <2>9 DEF InFlightIsWaitedFor
  <2>10. CASE d # c
    BY <2>3, <2>8, <2>10 DEF InFlightIsWaitedFor
  <2> QED
    BY <2>9, <2>10
<1>4. ASSUME NEW c \in Clients, HandleResponse(c) PROVE InFlightIsWaitedFor'
  <2>1. Head(replies[c]).id \in Ids /\ Head(replies[c]).code \in Codes
    BY <1>4, ReplyRange DEF HandleResponse
  <2>2. PICK x \in Ids, code \in Codes : x = Head(replies[c]).id /\ code = Head(replies[c]).code
    BY <2>1
  <2>3. UNCHANGED <<cpc, nextId, told>>
    BY <1>4 DEF HandleResponse
  <2>4. CASE inFlight[c][x] = "pending"
    <3>1. /\ result' = [result EXCEPT ![c] = code]
          /\ inFlight' = [inFlight EXCEPT ![c][x] = "none"]
      BY <1>4, <2>2, <2>4 DEF HandleResponse
    <3>2. code # "none" /\ \A k \in Ids : nextId[c] = k + 1 => k = x
      BY <2>4 DEF Codes, InFlightIsWaitedFor, Ids, RpcTypeOK
    <3> QED
      BY <2>3, <3>1, <3>2, SMTT(20) DEF InFlightIsWaitedFor, RpcTypeOK
  <2>5. CASE inFlight[c][x] # "pending"
    <3>1. UNCHANGED <<result, inFlight>>
      BY <1>4, <2>2, <2>5 DEF HandleResponse
    <3> QED
      BY <2>3, <3>1 DEF InFlightIsWaitedFor
  <2> QED
    BY <2>4, <2>5
<1>5. ASSUME NEW c \in Clients, GetResponse(c) PROVE InFlightIsWaitedFor'
  <2>1. made[c] \in Calls /\ told[c][made[c]] = "nothing" /\ nextId[c] = made[c]
    BY <1>5 DEF GetResponse, Sessions, RpcTypeOK, Calls, Numbering
  <2>2. /\ cpc'[c] = "idle"
        /\ \A n \in Calls : n # made[c] => told'[c][n] = told[c][n]
        /\ \A d \in Clients \ {c} :
              cpc'[d] = cpc[d] /\ result'[d] = result[d] /\ told'[d] = told[d]
        /\ UNCHANGED <<inFlight, nextId>>
    BY <1>5, <2>1 DEF GetResponse, Tell, RpcTypeOK
  <2>3. \A x \in Ids : x + 1 \in Calls
    BY DEF Ids, Calls
  <2>4. \A x \in Ids : inFlight[c][x] # "pending"
    BY <1>5 DEF GetResponse, InFlightIsWaitedFor
  <2>5. \A x \in Ids : inFlight[c][x] = "cancelled" => x + 1 # made[c]
    BY <2>1 DEF InFlightIsWaitedFor
  <2> QED
    BY <2>2, <2>3, <2>4, <2>5 DEF InFlightIsWaitedFor
<1>6. ASSUME NEW c \in Clients, Timeout(c) PROVE InFlightIsWaitedFor'
  <2>1. made[c] \in Calls /\ nextId[c] = made[c]
    BY <1>6 DEF Timeout, Sessions, RpcTypeOK, Calls, Numbering
  <2>2. /\ cpc'[c] = "idle"
        /\ told'[c][made[c]] = "unknown"
        /\ \A n \in Calls : n # made[c] => told'[c][n] = told[c][n]
        /\ \A d \in Clients \ {c} :
              cpc'[d] = cpc[d] /\ result'[d] = result[d] /\ told'[d] = told[d]
        /\ UNCHANGED nextId
    BY <1>6, <2>1 DEF Timeout, Tell, RpcTypeOK
  <2>3. /\ \A d \in Clients \ {c} : inFlight'[d] = inFlight[d]
        /\ \A x \in Ids : /\ inFlight'[c][x] # "pending"
                          /\ inFlight'[c][x] = "cancelled" =>
                                inFlight[c][x] \in {"pending", "cancelled"}
    BY <1>6 DEF Timeout, CancelFutures, RpcTypeOK
  <2>4. \A x \in Ids : x + 1 \in Calls
    BY DEF Ids, Calls
  <2>5. \A x \in Ids : inFlight'[c][x] = "cancelled" => told'[c][x + 1] = "unknown"
    BY <2>1, <2>2, <2>3, <2>4 DEF InFlightIsWaitedFor
  <2> QED
    BY <2>2, <2>3, <2>5 DEF InFlightIsWaitedFor
<1>7. ASSUME UNCHANGED <<cpc, nextId, inFlight, result, told>> PROVE InFlightIsWaitedFor'
  BY <1>7 DEF InFlightIsWaitedFor
<1>8. ASSUME NEW c \in Clients, SubscribeClient(c) \/ LoseClientLink(c)
      PROVE  InFlightIsWaitedFor'
  BY <1>7, <1>8 DEF SubscribeClient, LoseClientLink
<1>9. CASE AgentStep
  BY <1>7, <1>9 DEF AgentStep, StartAgent, SubscribeAgent, LoseAgentLink, CrashAgent,
     Refuse, Ignore, CallHandler, HandlerReturns, HandlerRaises, clientVars
<1> QED
  BY <1>1, <1>2, <1>3, <1>4, <1>5, <1>6, <1>7, <1>8, <1>9
  DEF RpcNext, ClientStep, rpcVars, clientVars

-----------------------------------------------------------------------------
(* The order of the calls. *)
LEMMA StartedRange ==
    ASSUME RpcTypeOK, NEW c \in Clients
    PROVE  R!Started(c) \subseteq Calls
BY DEF RpcTypeOK, R!Started

LEMMA StartedAppend ==
    ASSUME RpcTypeOK, NEW c \in Clients, NEW n \in Calls,
           begun' = [begun EXCEPT ![c] = Append(@, n)]
    PROVE  /\ R!Started(c)' = R!Started(c) \cup {n}
           /\ \A d \in Clients \ {c} : R!Started(d)' = R!Started(d)
<1>1. begun[c] \in Seq(Calls) /\ Len(begun[c]) \in Nat
  BY DEF RpcTypeOK
<1>2. /\ begun'[c] = Append(begun[c], n)
      /\ \A d \in Clients \ {c} : begun'[d] = begun[d]
  BY DEF RpcTypeOK
<1>3. /\ DOMAIN begun'[c] = 1..(Len(begun[c]) + 1)
      /\ DOMAIN begun[c] = 1..Len(begun[c])
      /\ \A k \in 1..Len(begun[c]) : begun'[c][k] = begun[c][k]
      /\ begun'[c][Len(begun[c]) + 1] = n
  BY <1>1, <1>2, AppendFacts
<1>4. 1..(Len(begun[c]) + 1) = 1..Len(begun[c]) \cup {Len(begun[c]) + 1}
  BY <1>1
<1>5. R!Started(c)' = R!Started(c) \cup {n}
  BY <1>3, <1>4 DEF R!Started
<1> QED
  BY <1>2, <1>5 DEF R!Started

(* Removing requests from the queue leaves the others in order. *)
LEMMA ShiftedOrder ==
    ASSUME RpcTypeOK, Order, NEW d \in {0, 1}, Shifted(d), UNCHANGED begun
    PROVE  /\ (\A x, j \in 1..Len(queue) :
                  x < j /\ queue[x].client = queue[j].client =>
                      queue[x].call < queue[j].call)'
           /\ (\A j \in 1..Len(queue) : \A m \in R!Started(queue[j].client) :
                  m < queue[j].call)'
<1>1. Len(queue) \in Nat /\ Len(queue') \in Nat
  BY DEF RpcTypeOK, Shifted
<1>2. \A x, j \in 1..Len(queue') : x < j => x + d < j + d
  BY <1>1
<1>3. (\A x, j \in 1..Len(queue) :
          x < j /\ queue[x].client = queue[j].client =>
              queue[x].call < queue[j].call)'
  BY <1>2 DEF Shifted, Order
<1>4. (\A j \in 1..Len(queue) : \A m \in R!Started(queue[j].client) :
          m < queue[j].call)'
  BY ZenonT(20) DEF Shifted, Order, R!Started
<1> QED
  BY <1>3, <1>4

LEMMA RpcOrderStep ==
    ASSUME RpcTypeOK, Numbering, Order, RpcTypeOK', [RpcNext]_rpcVars
    PROVE  Order'
<1> USE RpcSizes
<1>1. ASSUME NEW c \in Clients, Request(c) PROVE Order'
  <2>1. PICK r \in Requests :
           r = [client |-> c, id |-> RequestId(c), call |-> made[c] + 1]
    BY <1>1, RequestType DEF Request, Numbering
  <2>2. r.client = c /\ r.call = made[c] + 1
    BY <2>1
  <2>3. /\ Len(queue) \in Nat /\ Len(queue') \in Nat
        /\ \A j \in 1..Len(queue') :
              \/ j \in 1..Len(queue) /\ queue'[j] = queue[j]
              \/ queue'[j] = r /\ j = Len(queue) + 1
    <3>1. Publish(r)
      BY <1>1, <2>1 DEF Request
    <3> QED
      BY <3>1, PublishQueue DEF RpcTypeOK
  <2>4. UNCHANGED <<begun, done, apc, job>>
    BY <1>1 DEF Request, agentVars
  <2>5. \A d \in Clients : R!Started(d)' = R!Started(d)
    BY <2>4 DEF R!Started
  <2>6. \A j \in 1..Len(queue) : /\ queue[j] \in Requests
                                 /\ queue[j].call <= made[queue[j].client]
                                 /\ queue[j].call \in Nat
    <3>1. \A j \in 1..Len(queue) : queue[j] \in Requests
      BY DEF RpcTypeOK
    <3>2. \A j \in 1..Len(queue) : queue[j].call <= made[queue[j].client]
      BY DEF Numbering, WellNumbered
    <3> QED
      BY <3>1, <3>2, RequestRange DEF Calls
  <2>7. made[c] \in Nat /\ made'[c] = made[c] + 1
        /\ \A d \in Clients \ {c} : made'[d] = made[d]
    BY <1>1 DEF Request, RpcTypeOK
  <2>8. (\A x, j \in 1..Len(queue) :
            x < j /\ queue[x].client = queue[j].client =>
                queue[x].call < queue[j].call)'
    <3> SUFFICES ASSUME NEW x \in 1..Len(queue'), NEW j \in 1..Len(queue'), x < j,
                        queue'[x].client = queue'[j].client
                 PROVE  queue'[x].call < queue'[j].call
      OBVIOUS
    <3>1. x \in 1..Len(queue) /\ queue'[x] = queue[x]
      BY <2>3
    <3>2. CASE j \in 1..Len(queue) /\ queue'[j] = queue[j]
      BY <3>1, <3>2 DEF Order
    <3>3. CASE queue'[j] = r
      BY <2>2, <2>6, <2>7, <3>1, <3>3
    <3> QED
      BY <2>3, <3>2, <3>3
  <2>9. (\A j \in 1..Len(queue) : \A m \in R!Started(queue[j].client) :
            m < queue[j].call)'
    <3> SUFFICES ASSUME NEW j \in 1..Len(queue'), NEW m \in R!Started(queue[j].client)'
                 PROVE  m < queue'[j].call
      OBVIOUS
    <3>1. m \in {begun[queue'[j].client][x] : x \in DOMAIN begun[queue'[j].client]}
      BY <2>4 DEF R!Started
    <3>2. CASE j \in 1..Len(queue) /\ queue'[j] = queue[j]
      BY <3>1, <3>2 DEF Order, R!Started
    <3>3. CASE queue'[j] = r
      <4>1. m \in R!Started(c)
        BY <2>2, <3>1, <3>3 DEF R!Started
      <4>2. m \in Nat /\ m <= made[c]
        BY <4>1, StartedRange DEF Order, Calls
      <4> QED
        BY <2>2, <2>7, <3>3, <4>2
    <3> QED
      BY <2>3, <3>2, <3>3
  <2>10. (\A d \in Clients : \A m \in R!Started(d) : m <= made[d])'
    <3> SUFFICES ASSUME NEW d \in Clients, NEW m \in R!Started(d) PROVE m <= made'[d]
      BY <2>5
    <3> QED
      BY <2>7, StartedRange DEF Order, Calls
  <2> QED
    BY <2>4, <2>5, <2>8, <2>9, <2>10 DEF Order, R!Started
<1>2. CASE CallHandler
  <2>1. /\ Head(queue) = queue[1] /\ 1 \in 1..Len(queue) /\ queue[1] \in Requests
        /\ queue' \in Seq(Requests)
        /\ Len(queue') = Len(queue) - 1
        /\ \A k \in 1..Len(queue') : queue'[k] = queue[k + 1]
    BY <1>2, HeadOfQueue, TailFacts DEF CallHandler, RpcTypeOK
  <2>2. PICK h \in Requests : h = queue[1]
    BY <2>1
  <2>3. /\ begun' = [begun EXCEPT ![h.client] = Append(@, h.call)]
        /\ job' = h /\ UNCHANGED <<made, done>>
    BY <1>2, <2>1, <2>2 DEF CallHandler
  <2>4. /\ h.client \in Clients /\ h.call \in Calls /\ h.call <= made[h.client]
    BY <2>1, <2>2, RequestRange DEF Numbering, WellNumbered
  <2>5. /\ R!Started(h.client)' = R!Started(h.client) \cup {h.call}
        /\ \A d \in Clients \ {h.client} : R!Started(d)' = R!Started(d)
    BY <2>3, <2>4, StartedAppend
  <2>6. /\ Len(queue) \in Nat /\ Len(queue') \in Nat
        /\ \A j \in 1..Len(queue') :
              j + 1 \in 1..Len(queue) /\ 1 < j + 1 /\ queue[j + 1] \in Requests
    BY <2>1 DEF RpcTypeOK
  <2>7. \A m \in R!Started(h.client) : m < h.call
    BY <2>1, <2>2 DEF Order
  <2>8. (\A x, j \in 1..Len(queue) :
            x < j /\ queue[x].client = queue[j].client =>
                queue[x].call < queue[j].call)'
    BY <2>1, <2>6 DEF Order
  <2>9. (\A j \in 1..Len(queue) : \A m \in R!Started(queue[j].client) :
            m < queue[j].call)'
    <3> SUFFICES ASSUME NEW j \in 1..Len(queue'), NEW m \in R!Started(queue[j].client)'
                 PROVE  m < queue'[j].call
      OBVIOUS
    <3>1. PICK q \in Requests : q = queue[j + 1] /\ q = queue'[j]
      BY <2>1, <2>6
    <3>2. m \in R!Started(q.client)'
      BY <3>1 DEF R!Started
    <3>3. \A k \in R!Started(q.client) : k < q.call
      BY <2>6, <3>1 DEF Order
    <3>4. q.client = h.client => h.call < q.call
      BY <2>1, <2>2, <2>6, <3>1 DEF Order
    <3> QED
      BY <2>5, <3>1, <3>2, <3>3, <3>4, RequestRange
  <2>10. (\A d \in Clients : \A m \in R!Started(d) : m <= made[d])'
    BY <2>3, <2>4, <2>5 DEF Order
  <2>11. (\A d \in Clients : done[d] \subseteq R!Started(d))'
    BY <2>3, <2>5 DEF Order
  <2>12. job'.call \in R!Started(job.client)' /\ job'.call \notin done'[job'.client]
    <3>1. h.call \notin done[h.client]
      BY <2>4, <2>7 DEF Order, Calls
    <3>2. R!Started(job.client)' = R!Started(h.client)'
      BY <2>3 DEF R!Started
    <3> QED
      BY <2>3, <2>5, <3>1, <3>2
  <2> QED
    BY <2>8, <2>9, <2>10, <2>11, <2>12 DEF Order
<1>4. CASE StartAgent \/ SubscribeAgent \/ LoseAgentLink \/ CrashAgent \/ Refuse \/ Ignore
  <2>1. UNCHANGED <<made, begun, done>> /\ (apc' # "handling" \/ UNCHANGED <<apc, job>>)
    BY <1>4 DEF StartAgent, SubscribeAgent, LoseAgentLink, CrashAgent, Refuse, Ignore,
       agentVars
  <2>2. PICK d \in {0, 1} : Shifted(d)
    BY <1>4, Shifting DEF StartAgent, SubscribeAgent, LoseAgentLink, CrashAgent, Refuse,
       Ignore
  <2>3. (\A c \in Clients : /\ \A m \in R!Started(c) : m <= made[c]
                            /\ done[c] \subseteq R!Started(c))'
    BY <2>1 DEF Order, R!Started
  <2>4. (apc = "handling" =>
            job.call \in R!Started(job.client) \ done[job.client])'
    BY <2>1 DEF Order, R!Started
  <2> QED
    BY <2>1, <2>2, <2>3, <2>4, ShiftedOrder DEF Order
<1>5. CASE HandlerReturns \/ HandlerRaises
  <2>1. /\ apc = "handling" /\ job \in Requests /\ apc' = "idle"
        /\ UNCHANGED <<queue, made, begun>>
    BY <1>5 DEF HandlerReturns, HandlerRaises, RpcTypeOK, Numbering
  <2>2. ASSUME NEW d \in Clients PROVE done'[d] \subseteq R!Started(d)
    <3>1. \/ done'[d] = done[d]
          \/ d = job.client /\ done'[d] = done[d] \cup {job.call}
      <4>1. done' = done \/ done' = [done EXCEPT ![job.client] = @ \cup {job.call}]
        BY <1>5 DEF HandlerReturns, HandlerRaises
      <4>2. done \in [Clients -> SUBSET Calls] /\ job.client \in Clients
        BY <2>1, RequestRange DEF RpcTypeOK
      <4>3. CASE done' = [done EXCEPT ![job.client] = @ \cup {job.call}]
        BY <4>2, <4>3, Zenon
      <4> QED
        BY <4>1, <4>3
    <3>2. job.call \in R!Started(job.client) /\ done[d] \subseteq R!Started(d)
      BY <2>1 DEF Order
    <3> QED
      BY <3>1, <3>2
  <2> QED
    BY <2>1, <2>2 DEF Order, R!Started
<1>6. ASSUME UNCHANGED <<made, begun, done, apc, job, queue>> PROVE Order'
  BY <1>6 DEF Order, R!Started
<1>7. ASSUME NEW c \in Clients, ClientStep(c), ~Request(c) PROVE Order'
  BY <1>6, <1>7 DEF ClientStep, StartClient, SubscribeClient, LoseClientLink,
     ExitClient, HandleResponse, GetResponse, Timeout, Tell, agentVars
<1> QED
  BY <1>1, <1>2, <1>4, <1>5, <1>6, <1>7 DEF RpcNext, AgentStep, rpcVars, agentVars

-----------------------------------------------------------------------------
(* What was answered stays answered, and the answer stays true. *)
LEMMA SettledStep ==
    ASSUME RpcTypeOK, Numbering, RpcTypeOK', [RpcNext]_rpcVars,
           NEW c \in Clients, NEW n, Settled(c, n)
    PROVE  Settled(c, n)'
<1> USE RpcSizes
<1>1. ASSUME NEW e \in Clients, Request(e) PROVE Settled(c, n)'
  <2>1. PICK r \in Requests :
           r = [client |-> e, id |-> RequestId(e), call |-> made[e] + 1]
    BY <1>1, RequestType DEF Request, Numbering
  <2>2. r.client = e /\ r.call = made[e] + 1
    BY <2>1
  <2>3. \A j \in 1..Len(queue') : (j \in 1..Len(queue) /\ queue'[j] = queue[j]) \/ queue'[j] = r
    <3>1. Publish(r)
      BY <1>1, <2>1 DEF Request
    <3> QED
      BY <3>1, PublishQueue
  <2>4. n \in Nat /\ n <= made[c] /\ n \in 1..made'[c] /\ made[c] \in Nat
    BY <1>1 DEF Request, RpcTypeOK, Settled
  <2>5. r.client = c => r.call # n
    BY <2>2, <2>4
  <2>6. UNCHANGED <<apc, job>>
    BY <1>1 DEF Request, agentVars
  <2> QED
    BY <2>3, <2>4, <2>5, <2>6 DEF Settled
<1>2. CASE CallHandler
  <2>1. /\ Head(queue) = queue[1] /\ 1 \in 1..Len(queue)
        /\ Len(queue') = Len(queue) - 1 /\ Len(queue) \in Nat
        /\ \A k \in 1..Len(queue') : queue'[k] = queue[k + 1]
    BY <1>2, HeadOfQueue, TailFacts DEF CallHandler, RpcTypeOK
  <2>2. \A k \in 1..Len(queue') : k + 1 \in 1..Len(queue)
    BY <2>1 DEF RpcTypeOK
  <2> QED
    BY <1>2, <2>1, <2>2 DEF CallHandler, Settled
<1>3. CASE AgentStep /\ ~CallHandler
  <2>1. UNCHANGED made /\ (apc' # "handling" \/ UNCHANGED <<apc, job>>)
    BY <1>3 DEF AgentStep, StartAgent, SubscribeAgent, LoseAgentLink, CrashAgent, Refuse,
       Ignore, HandlerReturns, HandlerRaises, agentVars
  <2>2. PICK d \in {0, 1} : Shifted(d)
    BY <1>3, Shifting DEF AgentStep, StartAgent, SubscribeAgent, LoseAgentLink, CrashAgent,
       Refuse, Ignore, HandlerReturns, HandlerRaises
  <2> QED
    BY <2>1, <2>2 DEF Settled, Shifted
<1>4. ASSUME UNCHANGED <<made, queue, apc, job>> PROVE Settled(c, n)'
  BY <1>4 DEF Settled
<1>5. ASSUME NEW e \in Clients, ClientStep(e), ~Request(e) PROVE Settled(c, n)'
  BY <1>4, <1>5 DEF ClientStep, StartClient, SubscribeClient, LoseClientLink,
     ExitClient, HandleResponse, GetResponse, Timeout, Tell, agentVars
<1> QED
  BY <1>1, <1>2, <1>3, <1>4, <1>5 DEF RpcNext, rpcVars, agentVars

LEMMA SettledIsPast ==
    ASSUME RpcTypeOK, Numbering, [RpcNext]_rpcVars, NEW c \in Clients, NEW n, Settled(c, n)
    PROVE  /\ (n \in R!Started(c))' <=> n \in R!Started(c)
           /\ (n \in done[c])' <=> n \in done[c]
<1>1. CASE CallHandler
  <2>1. PICK h \in Requests : h = queue[1] /\ h = Head(queue) /\ 1 \in 1..Len(queue)
    BY <1>1, HeadOfQueue DEF CallHandler
  <2>2. /\ begun' = [begun EXCEPT ![h.client] = Append(@, h.call)] /\ UNCHANGED done
        /\ h.client \in Clients /\ h.call \in Calls
    BY <1>1, <2>1, RequestRange DEF CallHandler
  <2>3. h.client = c => h.call # n
    BY <2>1 DEF Settled
  <2>4. /\ R!Started(h.client)' = R!Started(h.client) \cup {h.call}
        /\ \A d \in Clients \ {h.client} : R!Started(d)' = R!Started(d)
    BY <2>2, StartedAppend
  <2>5. CASE c = h.client
    <3>1. R!Started(c)' = R!Started(c) \cup {h.call}
      BY <2>4, <2>5 DEF R!Started
    <3> QED
      BY <2>2, <2>3, <2>5, <3>1
  <2> QED
    BY <2>2, <2>4, <2>5
<1>2. CASE HandlerReturns
  <2>1. /\ UNCHANGED begun /\ job \in Requests
        /\ job.client = c => job.call # n
        /\ done' = [done EXCEPT ![job.client] = @ \cup {job.call}]
    BY <1>2 DEF HandlerReturns, Settled, RpcTypeOK, Numbering
  <2>2. done \in [Clients -> SUBSET Calls] /\ job.client \in Clients
    BY <2>1, RequestRange DEF RpcTypeOK
  <2>3. done'[c] = done[c] \/ (c = job.client /\ done'[c] = done[c] \cup {job.call})
    BY <2>1, <2>2, Zenon
  <2> QED
    BY <2>1, <2>3 DEF R!Started
<1>3. CASE UNCHANGED <<begun, done>>
  BY <1>3 DEF R!Started
<1>4. ASSUME NEW e \in Clients, ClientStep(e) PROVE UNCHANGED <<begun, done>>
  BY <1>4 DEF ClientStep, StartClient, SubscribeClient, LoseClientLink, ExitClient,
     Request, HandleResponse, GetResponse, Timeout
<1>5. CASE AgentStep /\ ~CallHandler /\ ~HandlerReturns
  BY <1>3, <1>5 DEF AgentStep, StartAgent, SubscribeAgent, LoseAgentLink, CrashAgent,
     Refuse, Ignore, HandlerRaises
<1> QED
  BY <1>1, <1>2, <1>3, <1>4, <1>5 DEF RpcNext, rpcVars

LEMMA AnsweredStep ==
    ASSUME RpcTypeOK, Numbering, RpcTypeOK', [RpcNext]_rpcVars,
           NEW c \in Clients, NEW n, NEW code \in Codes, Answered(c, n, code)
    PROVE  Answered(c, n, code)'
<1>1. Settled(c, n) /\ Settled(c, n)'
  BY SettledStep DEF Answered
<1>2. /\ (n \in R!Started(c))' <=> n \in R!Started(c)
      /\ (n \in done[c])' <=> n \in done[c]
  BY <1>1, SettledIsPast
<1>3. R!True(code, c, n)'
  <2>1. CASE code = "ok"
    BY <1>2, <2>1 DEF Answered, R!True
  <2>2. CASE code = "invalid"
    BY <1>2, <2>2 DEF Answered, R!True
  <2>3. CASE code = "failed"
    BY <1>2, <2>3 DEF Answered, R!True
  <2>4. CASE code = "refused"
    BY <1>2, <2>4 DEF Answered, R!True
  <2> QED
    BY <2>1, <2>2, <2>3, <2>4 DEF Codes
<1> QED
  BY <1>1, <1>3 DEF Answered

(* A response goes to the client of the request, behind the others. *)
LEMMA SendResponseReplies ==
    ASSUME RpcTypeOK, NEW r \in Requests, NEW code \in Codes, SendResponse(r, code),
           NEW c \in Clients, NEW k \in 1..Len(replies'[c])
    PROVE  \/ k \in 1..Len(replies[c]) /\ replies'[c][k] = replies[c][k]
           \/ c = r.client /\ replies'[c][k] = [id |-> r.id, code |-> code]
<1> DEFINE e == [id |-> r.id, code |-> code]
<1>1. e \in Responses
  BY DEF Requests, Responses
<1>2. replies[c] \in Seq(Responses) /\ Len(replies[c]) \in Nat
  BY DEF RpcTypeOK
<1>3. CASE replies'[c] = replies[c]
  BY <1>3
<1>4. CASE c = r.client /\ replies'[c] = Append(replies[c], e)
  <2>1. /\ Len(replies'[c]) = Len(replies[c]) + 1
        /\ \A l \in 1..Len(replies[c]) : replies'[c][l] = replies[c][l]
        /\ replies'[c][Len(replies[c]) + 1] = e
    BY <1>1, <1>2, <1>4, AppendFacts
  <2> QED
    BY <1>2, <1>4, <2>1
<1> QED
  BY <1>3, <1>4 DEF SendResponse, Receivers, ClientId

(* The three ways in which the agent answers. *)
LEMMA RefusedIsTrue ==
    ASSUME RpcTypeOK, Numbering, Order, Refuse
    PROVE  \E r \in Requests, code \in Codes :
              /\ SendResponse(r, code)
              /\ r.call = r.id + 1
              /\ Answered(r.client, r.call, code)'
<1>1. /\ Head(queue) = queue[1] /\ 1 \in 1..Len(queue) /\ queue[1] \in Requests
      /\ Len(queue') = Len(queue) - 1 /\ Len(queue) \in Nat
      /\ \A k \in 1..Len(queue') : queue'[k] = queue[k + 1]
  BY HeadOfQueue, TailFacts DEF Refuse, RpcTypeOK
<1>2. PICK r \in Requests : r = queue[1] /\ r = Head(queue)
  BY <1>1
<1>3. PICK code \in {"refused", "invalid"} : SendResponse(r, code)
  BY <1>2 DEF Refuse
<1>4. /\ r.client \in Clients /\ r.call \in Nat /\ r.call >= 1
      /\ r.call = r.id + 1 /\ r.call <= made[r.client] /\ made[r.client] \in Nat
  BY <1>1, <1>2, RequestRange DEF Numbering, WellNumbered, RpcTypeOK, Calls
<1>5. UNCHANGED <<made, begun, done>> /\ apc' = "idle"
  BY DEF Refuse, agentVars
<1>6. ASSUME NEW j \in 1..Len(queue'), queue'[j].client = r.client
      PROVE  queue'[j].call # r.call
  <2>1. j + 1 \in 1..Len(queue) /\ 1 < j + 1
    BY <1>1
  <2>2. queue[1].call < queue[j + 1].call
    BY <1>1, <1>2, <1>6, <2>1 DEF Order
  <2> QED
    BY <1>1, <1>2, <1>4, <2>2
<1>7. Settled(r.client, r.call)'
  BY <1>4, <1>5, <1>6 DEF Settled
<1>8. r.call \notin R!Started(r.client) /\ r.call \notin done[r.client]
  <2>1. r.call \notin R!Started(r.client)
    <3>1. \A m \in R!Started(r.client) : m < r.call
      BY <1>1, <1>2 DEF Order
    <3> QED
      BY <1>4, <3>1
  <2> QED
    BY <1>4, <2>1 DEF Order
<1>9. R!True(code, r.client, r.call)'
  <2>1. CASE code = "refused"
    BY <1>5, <1>8, <2>1 DEF R!True, R!Started
  <2>2. CASE code = "invalid"
    BY <1>5, <1>8, <2>2 DEF R!True
  <2> QED
    BY <1>3, <2>1, <2>2
<1>10. Answered(r.client, r.call, code)'
  BY <1>7, <1>9 DEF Answered
<1> QED
  BY <1>3, <1>4, <1>10 DEF Codes

LEMMA HandledIsTrue ==
    ASSUME RpcTypeOK, Numbering, Order, HandlerReturns \/ HandlerRaises
    PROVE  \E code \in Codes :
              /\ job \in Requests
              /\ SendResponse(job, code)
              /\ job.call = job.id + 1
              /\ \A c \in Clients, n \in Calls :
                    c = job.client /\ n = job.call => Answered(c, n, code)'
<1>1. /\ apc = "handling" /\ job \in Requests /\ apc' = "idle"
      /\ UNCHANGED <<queue, made, begun>>
  BY DEF HandlerReturns, HandlerRaises, RpcTypeOK, Numbering
<1>2. /\ job.client \in Clients /\ job.call \in Calls
      /\ job.call = job.id + 1 /\ job.call <= made[job.client]
  BY <1>1, RequestRange DEF Numbering, WellNumbered
<1>3. job.call \in R!Started(job.client) \ done[job.client]
  BY <1>1 DEF Order
<1>4. PICK c \in Clients, n \in Calls : c = job.client /\ n = job.call
  BY <1>2
<1>5. Settled(c, n)'
  <2>1. n \in 1..made'[c]
    BY <1>1, <1>2, <1>4 DEF Calls, RpcTypeOK
  <2>2. \A j \in 1..Len(queue') : queue'[j].client = c => queue'[j].call # n
    <3> SUFFICES ASSUME NEW j \in 1..Len(queue), queue[j].client = c
                 PROVE  queue[j].call # n
      BY <1>1
    <3>1. n < queue[j].call
      BY <1>3, <1>4 DEF Order
    <3> QED
      BY <1>4, <3>1 DEF Calls
  <2> QED
    BY <1>1, <2>1, <2>2 DEF Settled
<1>6. n \in R!Started(c)' /\ n \notin done[c]
  BY <1>1, <1>3, <1>4 DEF R!Started
<1>7. CASE HandlerReturns
  <2>1. SendResponse(job, "ok") /\ done' = [done EXCEPT ![c] = @ \cup {n}]
    BY <1>4, <1>7 DEF HandlerReturns
  <2>2. n \in done'[c]
    BY <2>1 DEF RpcTypeOK
  <2>3. R!True("ok", c, n)'
    BY <2>2 DEF R!True
  <2> QED
    BY <1>1, <1>2, <1>4, <1>5, <2>1, <2>3 DEF Answered, Codes
<1>8. CASE HandlerRaises
  <2>1. PICK code \in {"invalid", "failed"} : SendResponse(job, code)
    BY <1>8 DEF HandlerRaises
  <2>2. UNCHANGED done
    BY <1>8 DEF HandlerRaises
  <2>3. R!True(code, c, n)'
    <3>1. CASE code = "invalid"
      BY <1>6, <2>2, <3>1 DEF R!True
    <3>2. CASE code = "failed"
      BY <1>6, <2>2, <3>2 DEF R!True
    <3> QED
      BY <2>1, <3>1, <3>2
  <2> QED
    BY <1>1, <1>2, <1>4, <1>5, <2>1, <2>3 DEF Answered, Codes
<1> QED
  BY <1>7, <1>8

LEMMA AnswersStep ==
    ASSUME RpcIInv, RpcTypeOK', [RpcNext]_rpcVars
    PROVE  Answers'
<1> USE DEF RpcIInv
<1> SUFFICES ASSUME NEW c \in Clients
             PROVE  /\ \A k \in 1..Len(replies'[c]) :
                          Answered(c, replies[c][k].id + 1, replies[c][k].code)'
                    /\ (result[c] # "none" => Answered(c, made[c], result[c]))'
  BY DEF Answers
<1>1. ASSUME NEW l \in 1..Len(replies[c]), NEW e \in Responses, e = replies[c][l]
      PROVE  Answered(c, e.id + 1, e.code)'
  <2>1. Answered(c, e.id + 1, e.code) /\ e.code \in Codes
    BY <1>1 DEF Answers, Responses
  <2> QED
    BY <2>1, AnsweredStep
<1>2. ASSUME NEW k \in 1..Len(replies'[c])
      PROVE  Answered(c, replies[c][k].id + 1, replies[c][k].code)'
  <2>1. replies[c] \in Seq(Responses) /\ replies'[c] \in Seq(Responses)
    BY DEF RpcTypeOK
  <2>2. PICK e \in Responses : e = replies'[c][k]
    BY <2>1
  <2>3. CASE \E l \in 1..Len(replies[c]) : replies'[c][k] = replies[c][l]
    <3>1. PICK l \in 1..Len(replies[c]) : e = replies[c][l]
      BY <2>2, <2>3
    <3>2. Answered(c, e.id + 1, e.code)'
      BY <1>1, <3>1
    <3> QED
      BY <2>2, <3>2 DEF Answered, Settled
  <2>4. CASE UNCHANGED replies
    BY <2>3, <2>4
  <2>5. ASSUME NEW d \in Clients, LoseClientLink(d)
        PROVE  \E l \in 1..Len(replies[c]) : replies'[c][k] = replies[c][l]
    <3>1. PICK p \in Prefixes(replies[d]) : replies' = [replies EXCEPT ![d] = p]
      BY <2>5 DEF LoseClientLink
    <3>2. CASE d = c
      <4>1. p = replies'[c]
        BY <3>1, <3>2 DEF RpcTypeOK
      <4>2. /\ Len(p) <= Len(replies[c]) /\ Len(p) \in Nat /\ Len(replies[c]) \in Nat
            /\ \A l \in 1..Len(p) : p[l] = replies[c][l]
        BY <2>1, <3>2, PrefixFacts
      <4> QED
        BY <4>1, <4>2
    <3>3. CASE d # c
      BY <3>1, <3>3 DEF RpcTypeOK
    <3> QED
      BY <3>2, <3>3
  <2>6. ASSUME NEW d \in Clients, ExitClient(d)
        PROVE  \E l \in 1..Len(replies[c]) : replies'[c][k] = replies[c][l]
    <3>1. CASE d = c
      <4>1. replies'[c] = <<>>
        BY <2>6, <3>1 DEF ExitClient, RpcTypeOK
      <4> QED
        BY <4>1
    <3>2. CASE d # c
      BY <2>6, <3>2 DEF ExitClient, RpcTypeOK
    <3> QED
      BY <3>1, <3>2
  <2>7. ASSUME NEW d \in Clients, HandleResponse(d)
        PROVE  \E l \in 1..Len(replies[c]) : replies'[c][k] = replies[c][l]
    <3>1. CASE d = c
      <4>1. replies[c] # <<>> /\ replies'[c] = Tail(replies[c])
        BY <2>7, <3>1 DEF HandleResponse, RpcTypeOK
      <4>2. /\ Len(replies'[c]) = Len(replies[c]) - 1
            /\ replies'[c][k] = replies[c][k + 1]
        BY <2>1, <4>1, TailFacts
      <4>3. Len(replies[c]) \in Nat /\ k + 1 \in 1..Len(replies[c])
        BY <2>1, <4>2
      <4> QED
        BY <4>2, <4>3
    <3>2. CASE d # c
      BY <2>7, <3>2 DEF HandleResponse, RpcTypeOK
    <3> QED
      BY <3>1, <3>2
  <2>8. ASSUME NEW r \in Requests, NEW code \in Codes, SendResponse(r, code),
               r.call = r.id + 1, Answered(r.client, r.call, code)'
        PROVE  Answered(c, replies[c][k].id + 1, replies[c][k].code)'
    <3>1. CASE k \in 1..Len(replies[c]) /\ replies'[c][k] = replies[c][k]
      BY <2>3, <3>1
    <3>2. CASE c = r.client /\ replies'[c][k] = [id |-> r.id, code |-> code]
      <4>1. e.id + 1 = r.call /\ e.code = code
        BY <2>2, <2>8, <3>2
      <4>2. Answered(c, e.id + 1, e.code)'
        BY <2>8, <3>2, <4>1
      <4> QED
        BY <2>2, <4>2 DEF Answered, Settled
    <3> QED
      BY <2>8, <3>1, <3>2, SendResponseReplies
  <2>9. CASE Refuse
    BY <2>8, <2>9, RefusedIsTrue
  <2>10. CASE HandlerReturns \/ HandlerRaises
    <3>1. PICK code \in Codes :
              /\ job \in Requests
              /\ SendResponse(job, code)
              /\ job.call = job.id + 1
              /\ \A d \in Clients, n \in Calls :
                    d = job.client /\ n = job.call => Answered(d, n, code)'
      BY <2>10, HandledIsTrue
    <3>2. PICK r \in Requests : r = job
      BY <3>1
    <3>3. r.client \in Clients /\ r.call \in Calls
      BY RequestRange
    <3>4. SendResponse(r, code) /\ r.call = r.id + 1 /\ Answered(r.client, r.call, code)'
      BY <3>1, <3>2, <3>3
    <3> QED
      BY <2>8, <3>4
  <2> QED
    BY <2>3, <2>4, <2>5, <2>6, <2>7, <2>9, <2>10
    DEF RpcNext, AgentStep, ClientStep, StartClient, SubscribeClient, Request, GetResponse,
        Timeout, StartAgent, SubscribeAgent, LoseAgentLink, CrashAgent, Ignore,
        CallHandler, rpcVars
<1>3. (result[c] # "none" => Answered(c, made[c], result[c]))'
  <2>1. ASSUME result'[c] # "none"
        PROVE  /\ made'[c] = made[c]
               /\ result'[c] \in Codes
               /\ Answered(c, made[c], result'[c])
    <3>1. CASE result'[c] = result[c] /\ made'[c] = made[c]
      BY <2>1, <3>1 DEF Answers, RpcTypeOK
    <3>2. CASE HandleResponse(c)
      <4>1. PICK x \in Ids, code \in Codes :
               x = Head(replies[c]).id /\ code = Head(replies[c]).code
        BY <3>2, ReplyRange DEF HandleResponse
      <4>2. CASE inFlight[c][x] = "pending"
        <5>1. result'[c] = code /\ made'[c] = made[c]
          BY <3>2, <4>1, <4>2 DEF HandleResponse, RpcTypeOK
        <5>2. made[c] = x + 1
          BY <4>2 DEF InFlightIsWaitedFor, Numbering
        <5>3. Answered(c, x + 1, code)
          <6>1. Head(replies[c]) = replies[c][1] /\ 1 \in 1..Len(replies[c])
            BY <3>2, TailFacts DEF HandleResponse, RpcTypeOK
          <6> QED
            BY <4>1, <6>1 DEF Answers
        <5> QED
          BY <5>1, <5>2, <5>3
      <4>3. CASE inFlight[c][x] # "pending"
        BY <3>1, <3>2, <4>1, <4>3 DEF HandleResponse
      <4> QED
        BY <4>2, <4>3
    <3>3. ASSUME NEW d \in Clients, HandleResponse(d), d # c
          PROVE  result'[c] = result[c] /\ made'[c] = made[c]
      BY <3>3 DEF HandleResponse, RpcTypeOK
    <3>4. ASSUME NEW d \in Clients, Request(d)
          PROVE  result'[c] = result[c] /\ made'[c] = made[c]
      <4>1. result' = result
        BY <3>4 DEF Request
      <4>2. d # c
        BY <2>1, <3>4, <4>1 DEF Request, Sessions
      <4> QED
        BY <3>4, <4>1, <4>2 DEF Request, RpcTypeOK
    <3>5. ASSUME NEW d \in Clients, ExitClient(d) \/ GetResponse(d) \/ Timeout(d)
          PROVE  result'[c] = result[c] /\ made'[c] = made[c]
      BY <2>1, <3>5 DEF ExitClient, GetResponse, Timeout, Tell, RpcTypeOK
    <3> QED
      BY <3>1, <3>2, <3>3, <3>4, <3>5
      DEF RpcNext, AgentStep, ClientStep, StartClient, SubscribeClient, LoseClientLink,
          StartAgent, SubscribeAgent, LoseAgentLink, CrashAgent, Refuse, Ignore,
          CallHandler, HandlerReturns, HandlerRaises, clientVars, rpcVars
  <2> SUFFICES ASSUME result'[c] # "none" PROVE Answered(c, made[c], result[c])'
    OBVIOUS
  <2>2. PICK n \in 0..MaxCalls, code \in Codes :
           n = made[c] /\ code = result'[c] /\ n = made'[c]
    BY <2>1 DEF RpcTypeOK
  <2>3. Answered(c, n, code)'
    BY <2>1, <2>2, AnsweredStep
  <2> QED
    BY <2>2, <2>3 DEF Answered, Settled
<1> QED
  BY <1>2, <1>3

-----------------------------------------------------------------------------
(* The invariant holds initially. *)
LEMMA RpcInvInit == RpcInit => RpcIInv
<1> SUFFICES ASSUME RpcInit PROVE RpcIInv
  OBVIOUS
<1> USE RpcSizes
<1>1. RpcTypeOK
  BY RpcTypeInit
<1>2. Numbering
  BY NoJobAssumption DEF RpcInit, Numbering
<1>3. Sessions
  <2>1. \A c \in Clients : /\ cpc[c] = "off" /\ made[c] = 0 /\ result[c] = "none"
                           /\ \A n \in Calls : told[c][n] = "nothing"
    BY DEF RpcInit, Calls
  <2>2. \A n : n \notin 1..0
    OBVIOUS
  <2> QED
    BY <2>1, <2>2 DEF Sessions
<1>4. Order
  BY DEF RpcInit, Order, R!Started
<1>5. Answers
  <2>1. \A c \in Clients : replies[c] = <<>> /\ result[c] = "none"
    BY DEF RpcInit
  <2>2. Len(<<>>) = 0 /\ \A k : k \notin 1..0
    OBVIOUS
  <2> QED
    BY <2>1, <2>2 DEF Answers
<1>6. InFlightIsWaitedFor
  BY DEF RpcInit, InFlightIsWaitedFor
<1> QED
  BY <1>1, <1>2, <1>3, <1>4, <1>5, <1>6 DEF RpcIInv

LEMMA RpcInductive == RpcIInv /\ [RpcNext]_rpcVars => RpcIInv'
<1> SUFFICES ASSUME RpcIInv, [RpcNext]_rpcVars PROVE RpcIInv'
  OBVIOUS
<1>1. RpcTypeOK'
  BY RpcTypeStep DEF RpcIInv
<1>2. Numbering' /\ Sessions' /\ Order' /\ InFlightIsWaitedFor'
  BY <1>1, NumberingStep, SessionsStep, RpcOrderStep, InFlightStep DEF RpcIInv
<1>3. Answers'
  BY <1>1, AnswersStep
<1> QED
  BY <1>1, <1>2, <1>3 DEF RpcIInv

LEMMA RpcInvariant == RpcFairSpec => []RpcIInv
BY RpcInvInit, RpcInductive, PTL DEF RpcFairSpec, RpcSpec

(* The variables keep their types, for any number of clients and of calls. *)
THEOREM RpcTypeCorrect == RpcFairSpec => []RpcTypeOK
<1>1. RpcIInv => RpcTypeOK
  BY DEF RpcIInv
<1> QED
  BY <1>1, RpcInvariant, PTL

(* in_flight_requests always says which call a client waits for. *)
THEOREM InFlightCorrect == RpcFairSpec => []InFlightIsWaitedFor
<1>1. RpcIInv => InFlightIsWaitedFor
  BY DEF RpcIInv
<1> QED
  BY <1>1, RpcInvariant, PTL

-----------------------------------------------------------------------------
(* The steps of the transport are steps of RemoteCall, or leave what it sees
   alone. *)
LEMMA RequestMakes ==
    ASSUME RpcIInv, NEW c \in Clients, Request(c)
    PROVE  R!Make(c)
BY DEF RpcIInv, RpcTypeOK, Sessions, Request, R!Make

LEMMA CallHandlerBegins ==
    ASSUME RpcIInv, CallHandler
    PROVE  \E c \in Clients : R!Begin(c)
<1> USE DEF RpcIInv
<1>1. PICK h \in Requests : h = queue[1] /\ h = Head(queue) /\ 1 \in 1..Len(queue)
  BY HeadOfQueue DEF CallHandler
<1>2. h.client \in Clients /\ h.call \in 1..made[h.client]
  BY <1>1, RequestRange DEF Numbering, WellNumbered, Calls, RpcTypeOK
<1>3. \A m \in R!Started(h.client) : m < h.call
  BY <1>1 DEF Order
<1>4. begun' = [begun EXCEPT ![h.client] = Append(@, h.call)] /\ UNCHANGED <<made, done, told>>
  BY <1>1 DEF CallHandler
<1>5. R!Begin(h.client)
  BY <1>2, <1>3, <1>4 DEF R!Begin
<1> QED
  BY <1>2, <1>5

LEMMA HandlerReturnsFinishes ==
    ASSUME RpcIInv, HandlerReturns
    PROVE  \E c \in Clients : R!Finish(c)
<1> USE DEF RpcIInv
<1>1. job \in Requests /\ job.client \in Clients
  BY RequestRange DEF HandlerReturns, Numbering, RpcTypeOK
<1>2. job.call \in R!Started(job.client) \ done[job.client]
  BY DEF HandlerReturns, Order
<1>3. R!Finish(job.client)
  BY <1>2 DEF HandlerReturns, R!Finish
<1> QED
  BY <1>1, <1>3

LEMMA AnswerTells ==
    ASSUME RpcIInv, NEW c \in Clients, GetResponse(c) \/ Timeout(c)
    PROVE  R!Tell(c)
<1> USE DEF RpcIInv
<1>1. cpc[c] = "waiting" /\ UNCHANGED <<made, begun, done>>
  BY DEF GetResponse, Timeout
<1>2. made[c] > 0 /\ told[c][made[c]] = "nothing"
  BY <1>1 DEF Sessions
<1>3. CASE GetResponse(c)
  <2>1. /\ result[c] \in R!Answers /\ R!True(result[c], c, made[c])
        /\ told' = [told EXCEPT ![c][made[c]] = result[c]]
    BY <1>3 DEF GetResponse, Answers, Answered, RpcTypeOK, Codes, R!Answers, Tell
  <2> QED
    BY <1>1, <1>2, <2>1 DEF R!Tell
<1>4. CASE Timeout(c)
  <2>1. /\ "unknown" \in R!Answers /\ R!True("unknown", c, made[c])
        /\ told' = [told EXCEPT ![c][made[c]] = "unknown"]
    BY <1>4 DEF Timeout, Tell, R!Answers, R!True
  <2> QED
    BY <1>1, <1>2, <2>1 DEF R!Tell
<1> QED
  BY <1>3, <1>4

LEMMA RefinesStep == RpcIInv /\ [RpcNext]_rpcVars => [R!Next]_(R!cvars)
<1> SUFFICES ASSUME RpcIInv, [RpcNext]_rpcVars PROVE R!Next \/ UNCHANGED R!cvars
  OBVIOUS
<1>1. ASSUME NEW c \in Clients, ClientStep(c) PROVE R!Next \/ UNCHANGED R!cvars
  BY <1>1, RequestMakes, AnswerTells
  DEF ClientStep, StartClient, SubscribeClient, LoseClientLink, ExitClient,
      HandleResponse, R!Next, R!cvars
<1>2. CASE AgentStep
  BY <1>2, CallHandlerBegins, HandlerReturnsFinishes
  DEF AgentStep, StartAgent, SubscribeAgent, LoseAgentLink, CrashAgent, Refuse, Ignore,
      HandlerRaises, R!Next, R!cvars
<1> QED
  BY <1>1, <1>2 DEF RpcNext, rpcVars, R!cvars

LEMMA RefinesInit == RpcInit => R!Init
BY DEF RpcInit, R!Init, Calls, R!Calls

(* The transport implements RemoteCall: a method runs at most once and in the
   order of its client's calls, and an answer is true of the call it is given
   for, whatever is lost, late or restarted, for any number of clients and of
   calls. *)
THEOREM RemoteCallCorrect == RpcFairSpec => RefinesRemoteCall
BY RefinesInit, RefinesStep, RpcInvariant, PTL
DEF RpcFairSpec, RpcSpec, RefinesRemoteCall, R!Spec
==============================================================================
