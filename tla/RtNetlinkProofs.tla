--------------------------- MODULE RtNetlinkProofs ---------------------------
(***************************************************************************)
(* Proofs about RtNetlink, for any sets of interfaces and names.           *)
(*                                                                         *)
(* That every message about an address can be named needs two facts: an    *)
(* interface that the kernel has is in the map, or a message that puts it  *)
(* there is on the way (Tracked); and in the socket such a message comes   *)
(* before every message about an address of that interface (Covered).      *)
(*                                                                         *)
(* That the subscribers end up with what is so needs what is under way to  *)
(* them: the last message about a thing, in the socket or held by the      *)
(* thread, says what is so, and when there is none, they know it already   *)
(* or start() has yet to tell them (Told).                                 *)
(***************************************************************************)
EXTENDS RtNetlink, TLAPS

Announces(m, i) == m.op = "newlink" /\ m.index = i

(* Every message about an address is about an interface that is in the map
   by then. *)
Covered(q) ==
    \A k \in 1..Len(q) : ~IsLink(q[k]) =>
        \/ interfaceMap[q[k].index] # NoName
        \/ \E j \in 1..(k - 1) : Announces(q[j], q[k].index)

Tracked(i) ==
    \/ interfaceMap[i] # NoName
    \/ \E j \in 1..Len(socket) : Announces(socket[j], i)

Existing == {i \in Indexes : link[i] # NoName}

(* What is about to be published is an event. *)
Publishing ==
    /\ tpc = "publishing" => tevent \in Events
    /\ mpc \in {"linkevent", "addrevent"} => mevent \in Events

(* What a dump holds while start() goes through it. *)
Dumping ==
    /\ mpc \in {"links", "linkevent"} => \A m \in dump : m.op = "newlink"
    /\ mpc \in {"addrs", "addrevent"} => \A m \in dump : m.op = "newaddr"

Types ==
    /\ TypeOK
    /\ addr \subseteq Existing /\ Existing \subseteq born
    /\ Publishing /\ Dumping

(* Before start() is through, and the thread listens, a change is a race. *)
Quiet ==
    /\ mpc # "failed" /\ tpc # "dead"
    /\ mpc = "off" <=> tpc = "off"
    /\ mpc # "running" \/ tpc = "binding" => socket = <<>>

Following ==
    /\ mpc \in {"links", "linkevent"} =>
          \A i \in Existing : \/ interfaceMap[i] # NoName
                              \/ \E m \in dump : m.index = i
    /\ mpc \in {"addrs", "addrevent"} =>
          /\ \A i \in Existing : interfaceMap[i] # NoName
          /\ \A m \in dump : m.index \in Existing
    /\ mpc = "running" => \A i \in Existing : Tracked(i)
    /\ Covered(socket)

NamingInv == ~raced => Quiet /\ Following

-----------------------------------------------------------------------------
(* Messages and events. *)

LEMMA LinkMessageFacts ==
    ASSUME NEW op \in {"newlink", "dellink"}, NEW i \in Indexes, NEW n \in Names
    PROVE  LET m == LinkMessage(op, i, n)
           IN  /\ m \in Messages /\ IsLink(m)
               /\ m.op = op /\ m.index = i /\ m.name = n
BY DEF LinkMessage, Messages, IsLink

LEMMA AddrMessageFacts ==
    ASSUME NEW op \in {"newaddr", "deladdr"}, NEW i \in Indexes
    PROVE  LET m == AddrMessage(op, i)
           IN  m \in Messages /\ ~IsLink(m) /\ m.op = op /\ m.index = i
BY DEF AddrMessage, Messages, IsLink

LEMMA MessageFacts ==
    ASSUME NEW m \in Messages
    PROVE  /\ m.op \in {"newlink", "dellink", "newaddr", "deladdr"}
           /\ m.index \in Indexes
           /\ IsLink(m) => m.name \in Names
BY DEF Messages, IsLink

LEMMA EventFacts ==
    ASSUME NEW m \in Messages, IsLink(m) \/ Known(m),
           interfaceMap \in [Indexes -> Names \cup {NoName}]
    PROVE  EventOf(m) \in Events
<1>1. m.name \in Names \/ ~IsLink(m)
  BY MessageFacts
<1>2. IsLink(m) \/ interfaceMap[m.index] \in Names
  BY MessageFacts DEF Known
<1> QED
  BY <1>1, <1>2, MessageFacts DEF EventOf, Events

(* An entry of the maps is added or changed, none goes. *)
LEMMA MapFacts ==
    ASSUME NEW m \in Messages, IsLink(m), MapLink(m),
           interfaceMap \in [Indexes -> Names \cup {NoName}],
           interfaceNameMap \in [Names -> Indexes \cup {NoIndex}]
    PROVE  /\ interfaceMap' \in [Indexes -> Names \cup {NoName}]
           /\ interfaceNameMap' \in [Names -> Indexes \cup {NoIndex}]
           /\ interfaceMap'[m.index] # NoName
           /\ \A i \in Indexes : interfaceMap[i] # NoName => interfaceMap'[i] # NoName
BY MessageFacts, NamesAssumption DEF MapLink

LEMMA LearnFacts ==
    ASSUME NEW e \in Events, Learn(e),
           viewLink \in [Indexes -> Names \cup {NoName}],
           viewAddr \subseteq Indexes \X Names
    PROVE  /\ viewLink' \in [Indexes -> Names \cup {NoName}]
           /\ viewAddr' \subseteq Indexes \X Names
BY DEF Learn, Events

-----------------------------------------------------------------------------
(* The types. *)

LEMMA ChangeTypes ==
    ASSUME TypeOK, Publishing, Dumping, NEW ms \in Seq(Messages), Change(ms)
    PROVE  /\ socket' \in Seq(Messages)
           /\ changes' \in 0..MaxChanges /\ raced' \in BOOLEAN /\ missed' \in BOOLEAN
           /\ UNCHANGED <<tpc, tevent, mpc, dump, mevent, maps, view>>
<1>1. socket \o ms \in Seq(Messages)
  BY DEF TypeOK
<1> QED
  BY <1>1, ChangesAssumption DEF Change, TypeOK

(* A change of the kernel, apart from the links and addresses. *)
LEMMA KernelTypes ==
    ASSUME Types, NEW ms \in Seq(Messages), Change(ms),
           link' \in [Indexes -> Names \cup {NoName}],
           addr' \subseteq Existing', Existing' \subseteq born', born' \subseteq Indexes,
           renamed' \subseteq Indexes
    PROVE  Types'
<1>1. /\ socket' \in Seq(Messages)
      /\ changes' \in 0..MaxChanges /\ raced' \in BOOLEAN /\ missed' \in BOOLEAN
      /\ UNCHANGED <<tpc, tevent, mpc, dump, mevent, maps, view>>
  BY ChangeTypes DEF Types
<1>2. TypeOK'
  BY <1>1 DEF Types, TypeOK, maps, view
<1>3. Publishing' /\ Dumping'
  BY <1>1 DEF Types, Publishing, Dumping
<1> QED
  BY <1>2, <1>3 DEF Types

LEMMA KernelStepTypes == Types /\ KernelStep => Types'
<1> SUFFICES ASSUME Types, NEW i \in Indexes,
                    \/ \E n \in Names : NewLink(i, n) \/ RenameLink(i, n)
                    \/ DelLink(i) \/ NewAddr(i) \/ DelAddr(i)
             PROVE  Types'
  BY DEF KernelStep
<1> USE NamesAssumption
<1>1. ASSUME NEW n \in Names, NewLink(i, n) PROVE Types'
  <2>1. <<LinkMessage("newlink", i, n)>> \in Seq(Messages)
    BY LinkMessageFacts
  <2> QED
    BY <1>1, <2>1, KernelTypes DEF NewLink, Types, TypeOK, Existing
<1>2. ASSUME NEW n \in Names, RenameLink(i, n) PROVE Types'
  <2>1. <<LinkMessage("newlink", i, n)>> \in Seq(Messages)
    BY LinkMessageFacts
  <2> QED
    BY <1>2, <2>1, KernelTypes DEF RenameLink, Types, TypeOK, Existing
<1>3. CASE DelLink(i)
  <2> DEFINE gone == <<LinkMessage("dellink", i, link[i])>>
             lost == IF i \in addr THEN <<AddrMessage("deladdr", i)>> ELSE <<>>
  <2>1. link[i] \in Names
    BY <1>3 DEF DelLink, Types, TypeOK
  <2>2. gone \in Seq(Messages) /\ lost \in Seq(Messages)
    BY <2>1, LinkMessageFacts, AddrMessageFacts
  <2>3. gone \o lost \in Seq(Messages) /\ lost \o gone \in Seq(Messages)
    BY <2>2
  <2>4. Change(gone \o lost) \/ Change(lost \o gone)
    BY <1>3 DEF DelLink
  <2> HIDE DEF gone, lost
  <2> QED
    BY <1>3, <2>3, <2>4, KernelTypes DEF DelLink, Types, TypeOK, Existing
<1>4. CASE NewAddr(i)
  <2>1. <<AddrMessage("newaddr", i)>> \in Seq(Messages)
    BY AddrMessageFacts
  <2>2. i \in born
    BY <1>4 DEF NewAddr, Types, Existing
  <2> QED
    BY <1>4, <2>1, KernelTypes DEF NewAddr, Types, TypeOK, Existing
<1>5. CASE DelAddr(i)
  <2>1. <<AddrMessage("deladdr", i)>> \in Seq(Messages)
    BY AddrMessageFacts
  <2> QED
    BY <1>5, <2>1, KernelTypes DEF DelAddr, Types, TypeOK, Existing
<1> QED
  BY <1>1, <1>2, <1>3, <1>4, <1>5

LEMMA ThreadStepTypes == Types /\ ThreadStep => Types'
<1> SUFFICES ASSUME Types, ThreadStep PROVE Types'
  OBVIOUS
<1> USE DEF kernel, maps, view, history
<1>1. CASE Bind
  BY <1>1 DEF Bind, Types, TypeOK, Existing, Publishing, Dumping
<1>2. CASE Receive
  <2> DEFINE m == Head(socket)
  <2>1. m \in Messages /\ Tail(socket) \in Seq(Messages)
    BY <1>2 DEF Receive, Types, TypeOK
  <2>2. (IsLink(m) \/ Known(m)) /\ ReceiveMessage(m)
    BY <1>2 DEF Receive
  <2>3. EventOf(m) \in Events
    BY <2>1, <2>2, EventFacts DEF Types, TypeOK
  <2>4. m.op = "newlink" => IsLink(m)
    BY DEF IsLink
  <2>5. /\ interfaceMap' \in [Indexes -> Names \cup {NoName}]
        /\ interfaceNameMap' \in [Names -> Indexes \cup {NoIndex}]
    BY <2>1, <2>2, <2>4, MapFacts DEF ReceiveMessage, Types, TypeOK
  <2>6. tevent' \in Events /\ tpc' = "publishing"
    BY <2>2, <2>3 DEF ReceiveMessage
  <2>7. /\ socket' = Tail(socket)
        /\ UNCHANGED <<link, addr, born, mpc, dump, mevent, viewLink, viewAddr,
                       changes, raced, missed, renamed>>
    BY <1>2 DEF Receive
  <2> HIDE DEF m
  <2> QED
    BY <2>1, <2>5, <2>6, <2>7 DEF Types, TypeOK, Existing, Publishing, Dumping
<1>3. CASE ReceiveUnknown
  BY <1>3 DEF ReceiveUnknown, Types, TypeOK, Existing, Publishing, Dumping
<1>4. CASE PublishReceived
  <2>1. tevent \in Events /\ Learn(tevent)
    BY <1>4 DEF PublishReceived, Types, Publishing
  <2>2. /\ viewLink' \in [Indexes -> Names \cup {NoName}]
        /\ viewAddr' \subseteq Indexes \X Names
    BY <2>1, LearnFacts DEF Types, TypeOK
  <2> QED
    BY <1>4, <2>2 DEF PublishReceived, Types, TypeOK, Existing, Publishing, Dumping
<1> QED
  BY <1>1, <1>2, <1>3, <1>4 DEF ThreadStep

LEMMA MainStepTypes == Types /\ MainStep => Types'
<1> SUFFICES ASSUME Types, MainStep PROVE Types'
  OBVIOUS
<1> USE DEF kernel, maps, view, history
<1>1. CASE StartThread
  BY <1>1 DEF StartThread, Types, TypeOK, Existing, Publishing, Dumping
<1>2. CASE DumpLinks
  <2>1. \A i \in Existing : link[i] \in Names
    BY DEF Types, TypeOK, Existing
  <2>2. dump' = {LinkMessage("newlink", i, link[i]) : i \in Existing}
    BY <1>2 DEF DumpLinks, Existing
  <2>3. \A i \in Existing : LET m == LinkMessage("newlink", i, link[i])
                            IN  m \in Messages /\ m.op = "newlink"
    BY <2>1 DEF Existing, LinkMessage, Messages
  <2>4. dump' \subseteq Messages /\ \A m \in dump' : m.op = "newlink"
    BY <2>2, <2>3
  <2> QED
    BY <1>2, <2>4 DEF DumpLinks, Types, TypeOK, Existing, Publishing, Dumping
<1>3. CASE MapDumped
  <2>1. PICK m \in dump : mevent' = EventOf(m) /\ MapLink(m) /\ dump' = dump \ {m}
    BY <1>3 DEF MapDumped
  <2>2. m \in Messages /\ IsLink(m)
    BY <1>3 DEF MapDumped, Types, TypeOK, Dumping, IsLink
  <2>3. EventOf(m) \in Events
    BY <2>2, EventFacts DEF Types, TypeOK
  <2>4. /\ interfaceMap' \in [Indexes -> Names \cup {NoName}]
        /\ interfaceNameMap' \in [Names -> Indexes \cup {NoIndex}]
    BY <2>1, <2>2, MapFacts DEF Types, TypeOK
  <2> QED
    BY <1>3, <2>1, <2>3, <2>4
       DEF MapDumped, Types, TypeOK, Existing, Publishing, Dumping
<1>4. CASE PublishDumped
  <2>1. mevent \in Events /\ Learn(mevent)
    BY <1>4 DEF PublishDumped, Types, Publishing
  <2>2. /\ viewLink' \in [Indexes -> Names \cup {NoName}]
        /\ viewAddr' \subseteq Indexes \X Names
    BY <2>1, LearnFacts DEF Types, TypeOK
  <2> QED
    BY <1>4, <2>2 DEF PublishDumped, Types, TypeOK, Existing, Publishing, Dumping
<1>5. CASE DumpAddrs
  <2>1. \A i \in addr : i \in Indexes
    BY DEF Types, TypeOK
  <2>2. \A i \in addr : LET m == AddrMessage("newaddr", i)
                        IN  m \in Messages /\ m.op = "newaddr"
    BY <2>1, AddrMessageFacts
  <2>3. dump' \subseteq Messages /\ \A m \in dump' : m.op = "newaddr"
    BY <1>5, <2>2 DEF DumpAddrs
  <2> QED
    BY <1>5, <2>3 DEF DumpAddrs, Types, TypeOK, Existing, Publishing, Dumping
<1>6. CASE NameDumped
  <2>1. PICK m \in dump : Known(m) /\ mevent' = EventOf(m) /\ dump' = dump \ {m}
    BY <1>6 DEF NameDumped
  <2>2. EventOf(m) \in Events
    BY <2>1, EventFacts DEF Types, TypeOK
  <2> QED
    BY <1>6, <2>1, <2>2 DEF NameDumped, Types, TypeOK, Existing, Publishing, Dumping
<1>7. CASE StartRaises
  BY <1>7 DEF StartRaises, Types, TypeOK, Existing, Publishing, Dumping
<1>8. CASE Started
  BY <1>8 DEF Started, Types, TypeOK, Existing, Publishing, Dumping
<1> QED
  BY <1>1, <1>2, <1>3, <1>4, <1>5, <1>6, <1>7, <1>8 DEF MainStep

LEMMA StutterTypes == Types /\ UNCHANGED vars => Types'
BY DEF vars, kernel, maps, view, history, Types, TypeOK, Existing, Publishing, Dumping

LEMMA InitTypes == Init => Types
<1> SUFFICES ASSUME Init PROVE Types
  OBVIOUS
<1>1. TypeOK
  <2>1. link \in [Indexes -> Names \cup {NoName}] /\ addr \subseteq born /\ born \subseteq Indexes
    BY DEF Init
  <2>2. /\ interfaceMap \in [Indexes -> Names \cup {NoName}]
        /\ interfaceNameMap \in [Names -> Indexes \cup {NoIndex}]
        /\ viewLink \in [Indexes -> Names \cup {NoName}]
        /\ viewAddr \subseteq Indexes \X Names
    BY DEF Init
  <2>3. socket \in Seq(Messages) /\ changes \in 0..MaxChanges
    BY ChangesAssumption DEF Init
  <2> QED
    BY <2>1, <2>2, <2>3 DEF Init, TypeOK
<1> QED
  BY <1>1 DEF Init, Types, Existing, Publishing, Dumping

(* Every variable has its type in every reachable state of the listener: the
   two threads of routesia/rtnetlink/provider.py publish events and never
   anything else, and the maps have an entry for every index and name. *)
THEOREM TypeCorrect == Spec => []TypeOK
<1>1. Init => Types
  BY InitTypes
<1>2. Types /\ [Next]_vars => Types'
  BY KernelStepTypes, ThreadStepTypes, MainStepTypes, StutterTypes DEF Next
<1>3. Types => TypeOK
  BY DEF Types
<1> QED
  BY <1>1, <1>2, <1>3, PTL DEF Spec

-----------------------------------------------------------------------------
(* The names. *)

LEMMA EmptyCovered == Covered(<<>>)
BY DEF Covered

(* Messages that the kernel adds behind the others. *)
LEMMA AppendFacts ==
    ASSUME TypeOK, Covered(socket), NEW ms \in Seq(Messages),
           \A k \in 1..Len(ms) : IsLink(ms[k]) \/ Tracked(ms[k].index),
           socket' = socket \o ms, UNCHANGED interfaceMap
    PROVE  /\ Covered(socket)'
           /\ \A i \in Indexes : Tracked(i) => Tracked(i)'
           /\ \A i \in Indexes, k \in 1..Len(ms) : Announces(ms[k], i) => Tracked(i)'
<1> DEFINE q == socket \o ms
           n == Len(socket)
<1>1. /\ socket \in Seq(Messages) /\ q \in Seq(Messages) /\ n \in Nat
      /\ Len(ms) \in Nat /\ Len(q) = n + Len(ms)
      /\ \A k \in 1..n : q[k] = socket[k]
      /\ \A k \in 1..Len(ms) : q[n + k] = ms[k]
      /\ \A k \in 1..Len(q) : k \in 1..n \/ \E l \in 1..Len(ms) : k = n + l
  <2>1. socket \in Seq(Messages)
    BY DEF TypeOK
  <2>2. \A k \in 1..(n + Len(ms)) : k \in 1..n \/ \E l \in 1..Len(ms) : k = n + l
    <3> TAKE k \in 1..(n + Len(ms))
    <3>1. CASE k <= n
      BY <2>1, <3>1
    <3>2. CASE k > n
      <4>1. k - n \in 1..Len(ms) /\ k = n + (k - n)
        BY <2>1, <3>2
      <4> QED
        BY <4>1
    <3> QED
      BY <2>1, <3>1, <3>2
  <2>3. q \in Seq(Messages) /\ Len(q) = n + Len(ms) /\ n \in Nat /\ Len(ms) \in Nat
    BY <2>1
  <2>4. \A k \in 1..n : q[k] = socket[k]
    BY <2>1
  <2>5. \A k \in 1..Len(ms) : q[n + k] = ms[k]
    BY <2>1
  <2> QED
    BY <2>1, <2>2, <2>3, <2>4, <2>5
<1> HIDE DEF q, n
<1>2. socket' = q /\ interfaceMap' = interfaceMap
  BY DEF q
<1>3. ASSUME NEW i, NEW k \in 1..n, Announces(socket[k], i)
      PROVE  k \in 1..Len(q) /\ Announces(q[k], i)
  BY <1>1, <1>3
<1>4. ASSUME NEW k \in 1..Len(q), ~IsLink(q[k])
      PROVE  \/ interfaceMap[q[k].index] # NoName
             \/ \E j \in 1..(k - 1) : Announces(q[j], q[k].index)
  <2>1. CASE k \in 1..n
    <3>1. q[k] = socket[k]
      BY <1>1, <2>1
    <3>2. \/ interfaceMap[socket[k].index] # NoName
          \/ \E j \in 1..(k - 1) : Announces(socket[j], socket[k].index)
      BY <1>4, <2>1, <3>1 DEF Covered, n
    <3>3. \A j \in 1..(k - 1) : q[j] = socket[j]
      BY <1>1, <2>1
    <3> QED
      BY <3>1, <3>2, <3>3
  <2>2. CASE \E l \in 1..Len(ms) : k = n + l
    <3>1. PICK l \in 1..Len(ms) : k = n + l
      BY <2>2
    <3>2. q[k] = ms[l]
      BY <1>1, <3>1
    <3>3. Tracked(q[k].index)
      BY <1>4, <3>1, <3>2
    <3>4. \A j \in 1..n : j \in 1..(k - 1) /\ q[j] = socket[j]
      BY <1>1, <3>1
    <3> QED
      BY <3>3, <3>4 DEF Tracked, n
  <2> QED
    BY <1>1, <2>1, <2>2
<1>6. ASSUME NEW i \in Indexes, Tracked(i) PROVE Tracked(i)'
  BY <1>2, <1>3, <1>6 DEF Tracked, Announces, n
<1>7. ASSUME NEW i \in Indexes, NEW k \in 1..Len(ms), Announces(ms[k], i)
      PROVE  Tracked(i)'
  <2>1. n + k \in 1..Len(q) /\ q[n + k] = ms[k]
    BY <1>1
  <2> QED
    BY <1>2, <1>7, <2>1 DEF Tracked, Announces
<1> QED
  BY <1>2, <1>4, <1>6, <1>7 DEF Covered, Announces, IsLink

LEMMA KernelNaming ==
    ASSUME Types, NamingInv, ~raced', NEW ms \in Seq(Messages), Change(ms),
           \A k \in 1..Len(ms) : IsLink(ms[k]) \/ ms[k].index \in Existing,
           \A i \in Existing' : i \in Existing \/ \E k \in 1..Len(ms) : Announces(ms[k], i)
    PROVE  NamingInv'
<1>1. /\ ~raced /\ mpc \in {"off", "running"} /\ tpc # "binding"
      /\ UNCHANGED <<tpc, mpc, dump, interfaceMap>>
      /\ socket' = IF Listening THEN socket \o ms ELSE socket
  BY DEF Change, Types, TypeOK, maps
<1>2. Quiet /\ Following
  BY <1>1 DEF NamingInv
<1>3. CASE mpc = "off"
  <2>1. tpc = "off" /\ socket = <<>> /\ socket' = <<>>
    BY <1>1, <1>2, <1>3 DEF Quiet, Listening
  <2>2. Covered(socket)'
    BY <2>1 DEF Covered
  <2> QED
    BY <1>1, <1>3, <2>1, <2>2 DEF NamingInv, Quiet, Following
<1>4. CASE mpc = "running"
  <2>1. socket' = socket \o ms
    BY <1>1, <1>2, <1>4 DEF Quiet, Listening, Types, TypeOK
  <2>2. \A i \in Existing : i \in Indexes /\ Tracked(i)
    BY <1>2, <1>4 DEF Following, Existing
  <2>3. /\ Covered(socket)'
        /\ \A i \in Indexes : Tracked(i) => Tracked(i)'
        /\ \A i \in Indexes, k \in 1..Len(ms) : Announces(ms[k], i) => Tracked(i)'
    BY <1>1, <1>2, <2>1, <2>2, AppendFacts DEF Types, Following
  <2>4. \A i \in Existing' : i \in Indexes
    BY DEF Existing
  <2>5. \A i \in Existing' : Tracked(i)'
    BY <2>2, <2>3, <2>4
  <2>6. Quiet'
    BY <1>1, <1>2, <1>4 DEF Quiet
  <2>7. Following'
    BY <1>1, <1>4, <2>3, <2>5 DEF Following
  <2> QED
    BY <2>6, <2>7 DEF NamingInv
<1> QED
  BY <1>1, <1>3, <1>4

(* An interface that goes, with the messages about it in either order. *)
LEMMA JoinFacts ==
    ASSUME NEW s \in Seq(Messages), NEW t \in Seq(Messages), NEW i \in Indexes,
           \A k \in 1..Len(s) : IsLink(s[k]) \/ s[k].index = i,
           \A k \in 1..Len(t) : IsLink(t[k]) \/ t[k].index = i
    PROVE  /\ s \o t \in Seq(Messages)
           /\ \A k \in 1..Len(s \o t) : IsLink((s \o t)[k]) \/ (s \o t)[k].index = i
<1>1. /\ s \o t \in Seq(Messages) /\ Len(s \o t) = Len(s) + Len(t)
      /\ Len(s) \in Nat /\ Len(t) \in Nat
  OBVIOUS
<1>2. ASSUME NEW k \in 1..Len(s \o t)
      PROVE  IsLink((s \o t)[k]) \/ (s \o t)[k].index = i
  <2>1. CASE k <= Len(s)
    <3>1. (s \o t)[k] = s[k] /\ k \in 1..Len(s)
      BY <1>1, <2>1
    <3> QED
      BY <3>1
  <2>2. CASE k > Len(s)
    <3>1. (s \o t)[k] = t[k - Len(s)] /\ k - Len(s) \in 1..Len(t)
      BY <1>1, <2>2
    <3> QED
      BY <3>1
  <2> QED
    BY <1>1, <2>1, <2>2
<1> QED
  BY <1>1, <1>2

LEMMA KernelStepNaming == Types /\ NamingInv /\ KernelStep => NamingInv'
<1> SUFFICES ASSUME Types, NamingInv, ~raced', NEW i \in Indexes,
                    \/ \E n \in Names : NewLink(i, n) \/ RenameLink(i, n)
                    \/ DelLink(i) \/ NewAddr(i) \/ DelAddr(i)
             PROVE  NamingInv'
  BY DEF KernelStep, NamingInv
<1> USE NamesAssumption
<1>1. ASSUME NEW n \in Names, NewLink(i, n) \/ RenameLink(i, n) PROVE NamingInv'
  <2> DEFINE ms == <<LinkMessage("newlink", i, n)>>
  <2>1. /\ ms \in Seq(Messages) /\ Len(ms) = 1 /\ IsLink(ms[1])
        /\ Announces(ms[1], i)
    BY LinkMessageFacts DEF Announces
  <2>2. Change(ms) /\ link' = [link EXCEPT ![i] = n]
    BY <1>1 DEF NewLink, RenameLink
  <2>3. \A j \in Existing' : j \in Existing \/ j = i
    BY <2>2 DEF Existing, Types, TypeOK
  <2> HIDE DEF ms
  <2> QED
    BY <2>1, <2>2, <2>3, KernelNaming
<1>2. CASE DelLink(i)
  <2> DEFINE gone == <<LinkMessage("dellink", i, link[i])>>
             lost == IF i \in addr THEN <<AddrMessage("deladdr", i)>> ELSE <<>>
  <2>1. link[i] \in Names /\ i \in Existing
    BY <1>2 DEF DelLink, Types, TypeOK, Existing
  <2>2. /\ gone \in Seq(Messages) /\ lost \in Seq(Messages)
        /\ \A k \in 1..Len(gone) : IsLink(gone[k]) \/ gone[k].index = i
        /\ \A k \in 1..Len(lost) : IsLink(lost[k]) \/ lost[k].index = i
    BY <2>1, LinkMessageFacts, AddrMessageFacts
  <2>3. Change(gone \o lost) \/ Change(lost \o gone)
    BY <1>2 DEF DelLink
  <2>4. \A j \in Existing' : j \in Existing
    BY <1>2 DEF DelLink, Existing, Types, TypeOK
  <2> HIDE DEF gone, lost
  <2>5. CASE Change(gone \o lost)
    BY <2>1, <2>2, <2>4, <2>5, JoinFacts, KernelNaming
  <2>6. CASE Change(lost \o gone)
    BY <2>1, <2>2, <2>4, <2>6, JoinFacts, KernelNaming
  <2> QED
    BY <2>3, <2>5, <2>6
<1>3. ASSUME NEW op \in {"newaddr", "deladdr"}, Change(<<AddrMessage(op, i)>>),
             i \in Existing, UNCHANGED link
      PROVE  NamingInv'
  <2> DEFINE ms == <<AddrMessage(op, i)>>
  <2>1. ms \in Seq(Messages) /\ Len(ms) = 1 /\ ms[1].index = i
    BY AddrMessageFacts
  <2>2. \A j \in Existing' : j \in Existing
    BY <1>3 DEF Existing
  <2>3. Change(ms)
    BY <1>3
  <2> HIDE DEF ms
  <2> QED
    BY <1>3, <2>1, <2>2, <2>3, KernelNaming
<1>4. CASE NewAddr(i)
  BY <1>3, <1>4 DEF NewAddr, Existing
<1>5. CASE DelAddr(i)
  BY <1>3, <1>5 DEF DelAddr, Types
<1> QED
  BY <1>1, <1>2, <1>4, <1>5

(* The thread takes the first message; what it announced is in the map. *)
LEMMA TailFacts ==
    ASSUME TypeOK, Covered(socket), socket # <<>>, socket' = Tail(socket),
           ReceiveMessage(Head(socket))
    PROVE  /\ Covered(socket)'
           /\ \A i \in Indexes : interfaceMap[i] # NoName => interfaceMap'[i] # NoName
           /\ \A i \in Indexes : Tracked(i) => Tracked(i)'
<1> DEFINE m == Head(socket)
           q == Tail(socket)
           n == Len(socket)
<1>1. /\ m = socket[1] /\ m \in Messages /\ q \in Seq(Messages)
      /\ n \in Nat /\ n >= 1 /\ Len(q) = n - 1
      /\ \A k \in 1..(n - 1) : q[k] = socket[k + 1]
  BY DEF TypeOK
<1>2. \A k \in 1..n : socket[k].index \in Indexes
  BY MessageFacts DEF TypeOK
<1>3. /\ \A i \in Indexes : interfaceMap[i] # NoName => interfaceMap'[i] # NoName
      /\ \A i : Announces(m, i) => interfaceMap'[i] # NoName
  <2>1. CASE m.op = "newlink"
    <3>1. IsLink(m) /\ MapLink(m)
      BY <2>1 DEF IsLink, ReceiveMessage
    <3> QED
      BY <1>1, <3>1, MapFacts DEF TypeOK, Announces
  <2>2. CASE m.op # "newlink"
    BY <2>2 DEF ReceiveMessage, maps, Announces
  <2> QED
    BY <2>1, <2>2
<1>4. socket' = q
  OBVIOUS
<1> HIDE DEF m, q, n
<1>5. ASSUME NEW i \in Indexes, NEW j \in 1..n, Announces(socket[j], i)
      PROVE  \/ interfaceMap'[i] # NoName
             \/ j - 1 \in 1..Len(q) /\ Announces(q[j - 1], i)
  <2>1. CASE j = 1
    BY <1>1, <1>3, <1>5, <2>1
  <2>2. CASE j > 1
    <3>1. j - 1 \in 1..(n - 1) /\ (j - 1) + 1 = j
      BY <1>1, <2>2
    <3> QED
      BY <1>1, <1>5, <3>1
  <2> QED
    BY <2>1, <2>2
<1>6. ASSUME NEW k \in 1..Len(q), ~IsLink(q[k])
      PROVE  \/ interfaceMap'[q[k].index] # NoName
             \/ \E j \in 1..(k - 1) : Announces(q[j], q[k].index)
  <2>1. k + 1 \in 1..n /\ q[k] = socket[k + 1]
    BY <1>1
  <2>2. \/ interfaceMap[q[k].index] # NoName
        \/ \E j \in 1..k : Announces(socket[j], q[k].index)
    BY <1>6, <2>1 DEF Covered, n
  <2>3. ASSUME NEW j \in 1..k, Announces(socket[j], q[k].index)
        PROVE  \/ interfaceMap'[q[k].index] # NoName
               \/ \E l \in 1..(k - 1) : Announces(q[l], q[k].index)
    <3>1. j \in 1..n /\ (j - 1 \in 1..Len(q) => j - 1 \in 1..(k - 1))
      BY <1>1
    <3>2. q[k].index \in Indexes
      BY <1>2, <2>1
    <3> QED
      BY <1>5, <2>3, <3>1, <3>2
  <2> QED
    BY <1>2, <1>3, <2>1, <2>2, <2>3
<1>7. ASSUME NEW i \in Indexes, Tracked(i) PROVE Tracked(i)'
  <2>1. interfaceMap'[i] # NoName \/ \E l \in 1..Len(q) : Announces(q[l], i)
    <3>1. interfaceMap[i] # NoName \/ \E j \in 1..n : Announces(socket[j], i)
      BY <1>7 DEF Tracked, n
    <3> QED
      BY <1>3, <1>5, <3>1
  <2> QED
    BY <1>4, <2>1 DEF Tracked, Announces
<1> QED
  BY <1>3, <1>4, <1>6, <1>7 DEF Covered, Announces, IsLink

LEMMA ThreadStepNaming == Types /\ NamingInv /\ ThreadStep => NamingInv'
<1> SUFFICES ASSUME Types, NamingInv, ThreadStep, ~raced' PROVE NamingInv'
  BY DEF NamingInv
<1> USE DEF kernel, maps, view, history
<1>1. ~raced /\ Quiet /\ Following /\ Covered(socket)
  BY DEF ThreadStep, Bind, Receive, ReceiveUnknown, PublishReceived, NamingInv, Following
<1>2. CASE Bind
  BY <1>1, <1>2 DEF Bind, NamingInv, Quiet, Following, Covered, Tracked, Existing,
                    Announces, IsLink
<1>3. CASE Receive
  <2>1. mpc = "running" /\ tpc = "polling"
    BY <1>1, <1>3 DEF Receive, Quiet
  <2>2. /\ Covered(socket)'
        /\ \A i \in Indexes : Tracked(i) => Tracked(i)'
    BY <1>1, <1>3, TailFacts DEF Receive, Types
  <2>3. UNCHANGED <<mpc, link, dump>> /\ tpc' = "publishing"
    BY <1>3 DEF Receive, ReceiveMessage
  <2>4. \A i \in Existing' : Tracked(i)'
    BY <1>1, <2>1, <2>2, <2>3 DEF Following, Existing
  <2>5. Quiet'
    BY <1>1, <2>1, <2>3 DEF Quiet
  <2>6. Following'
    BY <2>1, <2>2, <2>3, <2>4 DEF Following
  <2> QED
    BY <2>5, <2>6 DEF NamingInv
<1>4. CASE ReceiveUnknown
  <2>1. 1 \in 1..Len(socket) /\ Head(socket) = socket[1]
    BY <1>4 DEF ReceiveUnknown, Types, TypeOK
  <2>2. \/ interfaceMap[socket[1].index] # NoName
        \/ \E j \in 1..(1 - 1) : Announces(socket[j], socket[1].index)
    BY <1>1, <1>4, <2>1 DEF ReceiveUnknown, Covered
  <2> QED
    BY <1>4, <2>1, <2>2 DEF ReceiveUnknown, Known
<1>5. CASE PublishReceived
  BY <1>1, <1>5 DEF PublishReceived, NamingInv, Quiet, Following, Covered, Tracked,
                    Existing, Announces, IsLink
<1> QED
  BY <1>2, <1>3, <1>4, <1>5 DEF ThreadStep

LEMMA MainStepNaming == Types /\ NamingInv /\ MainStep => NamingInv'
<1> SUFFICES ASSUME Types, NamingInv, MainStep, ~raced' PROVE NamingInv'
  BY DEF NamingInv
<1> USE DEF kernel, maps, view, history
<1>1. /\ ~raced /\ Quiet /\ Following
      /\ socket = <<>> /\ socket' = <<>> /\ Covered(socket)'
  <2>1. /\ ~raced /\ mpc # "running" /\ UNCHANGED socket
    BY DEF MainStep, StartThread, DumpLinks, MapDumped, PublishDumped, DumpAddrs,
           NameDumped, StartRaises, Started
  <2>2. Quiet /\ Following
    BY <2>1 DEF NamingInv
  <2>3. socket' = <<>>
    BY <2>1, <2>2 DEF Quiet
  <2> QED
    BY <2>1, <2>2, <2>3 DEF Quiet, Covered
<1>2. CASE StartThread
  BY <1>1, <1>2 DEF StartThread, NamingInv, Quiet, Following
<1>3. CASE DumpLinks
  <2>1. \A i \in Existing' : \E m \in dump' : m.index = i
    <3> SUFFICES ASSUME NEW i \in Existing'
                 PROVE  \E m \in dump' : m.index = i
      OBVIOUS
    <3>1. LinkMessage("newlink", i, link[i]) \in dump'
      BY <1>3 DEF DumpLinks, Existing
    <3>2. LinkMessage("newlink", i, link[i]).index = i
      BY DEF LinkMessage
    <3> QED
      BY <3>1, <3>2
  <2> QED
    BY <1>1, <1>3, <2>1 DEF DumpLinks, NamingInv, Quiet, Following
<1>4. CASE MapDumped
  <2>1. PICK m \in dump : MapLink(m) /\ dump' = dump \ {m}
    BY <1>4 DEF MapDumped
  <2>2. m \in Messages /\ IsLink(m)
    BY <1>4 DEF MapDumped, Types, TypeOK, Dumping, IsLink
  <2>3. /\ interfaceMap'[m.index] # NoName
        /\ \A i \in Indexes : interfaceMap[i] # NoName => interfaceMap'[i] # NoName
    BY <2>1, <2>2, MapFacts DEF Types, TypeOK
  <2>4. \A i \in Existing' : \/ interfaceMap'[i] # NoName
                             \/ \E d \in dump' : d.index = i
    BY <1>1, <1>4, <2>1, <2>3 DEF MapDumped, Following, Existing
  <2> QED
    BY <1>1, <1>4, <2>4 DEF MapDumped, NamingInv, Quiet, Following
<1>5. CASE PublishDumped
  BY <1>1, <1>5 DEF PublishDumped, NamingInv, Quiet, Following, Existing
<1>6. CASE DumpAddrs
  <2>1. \A i \in Existing' : interfaceMap'[i] # NoName
    BY <1>1, <1>6 DEF DumpAddrs, Following, Existing
  <2>2. \A m \in dump' : m.index \in Existing'
    BY <1>6 DEF DumpAddrs, AddrMessage, Types, Existing
  <2> QED
    BY <1>1, <1>6, <2>1, <2>2 DEF DumpAddrs, NamingInv, Quiet, Following
<1>7. CASE NameDumped
  BY <1>1, <1>7 DEF NameDumped, NamingInv, Quiet, Following, Existing
<1>8. CASE StartRaises
  BY <1>1, <1>8 DEF StartRaises, Following, Known
<1>9. CASE Started
  BY <1>1, <1>9 DEF Started, NamingInv, Quiet, Following, Tracked, Existing
<1> QED
  BY <1>2, <1>3, <1>4, <1>5, <1>6, <1>7, <1>8, <1>9 DEF MainStep

LEMMA StutterNaming == NamingInv /\ UNCHANGED vars => NamingInv'
BY DEF vars, kernel, maps, view, history, NamingInv, Quiet, Following, Covered, Tracked,
       Existing, Announces, IsLink

LEMMA InitNaming == Init => NamingInv
BY EmptyCovered DEF Init, NamingInv, Quiet, Following

(* Unless the kernel changed while start() was at work, neither the thread nor
   start() meets an address whose interface is not in the map: event_thread
   goes on, and RTNetlinkProvider.start returns. *)
THEOREM NamesKnown == Spec => []NamesAreKnown
<1>1. Init => Types /\ NamingInv
  BY InitTypes, InitNaming
<1>2. Types /\ NamingInv /\ [Next]_vars => Types' /\ NamingInv'
  BY KernelStepTypes, ThreadStepTypes, MainStepTypes, StutterTypes,
     KernelStepNaming, ThreadStepNaming, MainStepNaming, StutterNaming DEF Next
<1>3. NamingInv => NamesAreKnown
  BY DEF NamingInv, Quiet, NamesAreKnown
<1> QED
  BY <1>1, <1>2, <1>3, PTL DEF Spec

-----------------------------------------------------------------------------
(* Messages on their way. *)

(* q has no message of M; the last message of M in q, if any, is one of G. *)
None(q, M) == \A k \in 1..Len(q) : q[k] \notin M
Ends(q, M, G) ==
    \A k \in 1..Len(q) :
        q[k] \in M /\ (\A l \in (k + 1)..Len(q) : q[l] \notin M) => q[k] \in G

Told(q, held, M, G, shown) ==
    /\ Ends(q, M, G)
    /\ None(q, M) => held \cap M \subseteq G
    /\ None(q, M) /\ held \cap M = {} => shown

LEMMA JoinedIndices ==
    ASSUME NEW S, NEW q \in Seq(S), NEW ms \in Seq(S)
    PROVE  /\ Len(q) \in Nat /\ Len(ms) \in Nat /\ Len(q \o ms) = Len(q) + Len(ms)
           /\ \A k \in 1..Len(q) : k \in 1..Len(q \o ms) /\ (q \o ms)[k] = q[k]
           /\ \A k \in 1..Len(ms) : /\ Len(q) + k \in 1..Len(q \o ms)
                                    /\ (q \o ms)[Len(q) + k] = ms[k]
           /\ \A k \in 1..Len(q \o ms) :
                 k \in 1..Len(q) \/ \E l \in 1..Len(ms) : k = Len(q) + l
<1>1. /\ Len(q) \in Nat /\ Len(ms) \in Nat /\ Len(q \o ms) = Len(q) + Len(ms)
      /\ \A k \in 1..Len(q) : (q \o ms)[k] = q[k]
      /\ \A k \in 1..Len(ms) : (q \o ms)[Len(q) + k] = ms[k]
  OBVIOUS
<1>2. ASSUME NEW k \in 1..Len(q \o ms)
      PROVE  k \in 1..Len(q) \/ \E l \in 1..Len(ms) : k = Len(q) + l
  <2>1. CASE k <= Len(q)
    BY <1>1, <2>1
  <2>2. CASE k > Len(q)
    <3>1. k - Len(q) \in 1..Len(ms) /\ k = Len(q) + (k - Len(q))
      BY <1>1, <2>2
    <3> QED
      BY <3>1
  <2> QED
    BY <1>1, <2>1, <2>2
<1> QED
  BY <1>1, <1>2

LEMMA TailIndices ==
    ASSUME NEW S, NEW q \in Seq(S), q # <<>>
    PROVE  /\ Head(q) = q[1] /\ Len(q) \in Nat /\ Len(q) >= 1 /\ Len(Tail(q)) = Len(q) - 1
           /\ \A k \in 1..Len(Tail(q)) : k + 1 \in 1..Len(q) /\ Tail(q)[k] = q[k + 1]
           /\ \A k \in 1..Len(q) : k = 1 \/ \E l \in 1..Len(Tail(q)) : k = l + 1
<1>1. /\ Head(q) = q[1] /\ Len(q) \in Nat /\ Len(q) >= 1 /\ Len(Tail(q)) = Len(q) - 1
      /\ \A k \in 1..Len(Tail(q)) : Tail(q)[k] = q[k + 1]
  OBVIOUS
<1>2. ASSUME NEW k \in 1..Len(q), k # 1
      PROVE  \E l \in 1..Len(Tail(q)) : k = l + 1
  <2>1. k - 1 \in 1..Len(Tail(q)) /\ k = (k - 1) + 1
    BY <1>1, <1>2
  <2> QED
    BY <2>1
<1> QED
  BY <1>1, <1>2

(* Messages ms are added behind those of q. *)
LEMMA NoneJoined ==
    ASSUME NEW S, NEW q \in Seq(S), NEW ms \in Seq(S), NEW M
    PROVE  None(q \o ms, M) <=> None(q, M) /\ None(ms, M)
<1> DEFINE j == q \o ms
<1>1. /\ \A k \in 1..Len(q) : k \in 1..Len(j) /\ j[k] = q[k]
      /\ \A k \in 1..Len(ms) : Len(q) + k \in 1..Len(j) /\ j[Len(q) + k] = ms[k]
      /\ \A k \in 1..Len(j) : k \in 1..Len(q) \/ \E l \in 1..Len(ms) : k = Len(q) + l
  BY JoinedIndices
<1> HIDE DEF j
<1>2. None(j, M) => None(q, M) /\ None(ms, M)
  BY <1>1 DEF None
<1>3. None(q, M) /\ None(ms, M) => None(j, M)
  BY <1>1 DEF None
<1> QED
  BY <1>2, <1>3 DEF j

LEMMA EndsJoined ==
    ASSUME NEW S, NEW q \in Seq(S), NEW ms \in Seq(S), NEW M, NEW G,
           IF None(ms, M) THEN Ends(q, M, G) ELSE Ends(ms, M, G)
    PROVE  Ends(q \o ms, M, G)
<1> DEFINE j == q \o ms
<1>a. Len(q) \in Nat /\ Len(ms) \in Nat /\ Len(j) = Len(q) + Len(ms)
  OBVIOUS
<1>1. /\ \A k \in 1..Len(q) : k \in 1..Len(j) /\ j[k] = q[k]
      /\ \A k \in 1..Len(ms) : Len(q) + k \in 1..Len(j) /\ j[Len(q) + k] = ms[k]
      /\ \A k \in 1..Len(j) : k \in 1..Len(q) \/ \E l \in 1..Len(ms) : k = Len(q) + l
  BY JoinedIndices
<1> HIDE DEF j
<1> SUFFICES ASSUME NEW k \in 1..Len(j), j[k] \in M,
                    \A l \in (k + 1)..Len(j) : j[l] \notin M
             PROVE  j[k] \in G
  BY DEF Ends, j
<1>2. CASE k \in 1..Len(q)
  <2>1. j[k] = q[k]
    BY <1>a, <1>1, <1>2
  <2>2. ASSUME NEW l \in (k + 1)..Len(q) PROVE q[l] \notin M
    <3>1. l \in 1..Len(q) /\ l \in (k + 1)..Len(j)
      BY <1>a, <1>1, <1>2
    <3> QED
      BY <1>a, <1>1, <3>1
  <2>3. ASSUME NEW l \in 1..Len(ms) PROVE ms[l] \notin M
    <3>1. Len(q) + l \in (k + 1)..Len(j)
      BY <1>a, <1>1, <1>2
    <3> QED
      BY <1>a, <1>1, <3>1
  <2>4. Ends(q, M, G)
    BY <2>3 DEF None
  <2> QED
    BY <1>2, <2>1, <2>2, <2>4 DEF Ends
<1>3. CASE \E l \in 1..Len(ms) : k = Len(q) + l
  <2>1. PICK l \in 1..Len(ms) : k = Len(q) + l
    BY <1>3
  <2>2. j[k] = ms[l] /\ ms[l] \in M
    BY <1>a, <1>1, <2>1
  <2>3. ASSUME NEW p \in (l + 1)..Len(ms) PROVE ms[p] \notin M
    <3>1. p \in 1..Len(ms) /\ Len(q) + p \in (k + 1)..Len(j)
      BY <1>a, <1>1, <2>1
    <3> QED
      BY <1>a, <1>1, <3>1
  <2>4. Ends(ms, M, G)
    BY <2>2 DEF None
  <2> QED
    BY <2>2, <2>3, <2>4 DEF Ends
<1> QED
  BY <1>a, <1>1, <1>2, <1>3

LEMMA ToldJoined ==
    ASSUME NEW S, NEW q \in Seq(S), NEW ms \in Seq(S), NEW held, NEW M, NEW G,
           NEW shown \in BOOLEAN,
           IF None(ms, M) THEN Told(q, held, M, G, shown) ELSE Ends(ms, M, G)
    PROVE  Told(q \o ms, held, M, G, shown)
<1>1. Ends(q \o ms, M, G)
  BY EndsJoined DEF Told
<1>2. None(q \o ms, M) => None(q, M) /\ None(ms, M)
  BY NoneJoined
<1> QED
  BY <1>1, <1>2 DEF Told

(* The first message of q is taken: it is held as event e, or handled at once. *)
LEMMA ToldTaken ==
    ASSUME NEW S, NEW q \in Seq(S), q # <<>>, NEW M, NEW G, NEW shown \in BOOLEAN,
           Told(q, {}, M, G, shown)
    PROVE  /\ Ends(Tail(q), M, G)
           /\ None(Tail(q), M) => IF Head(q) \in M THEN Head(q) \in G ELSE shown
<1> DEFINE t == Tail(q)
<1>1. /\ Head(q) = q[1] /\ Len(q) \in Nat /\ Len(q) >= 1 /\ Len(t) = Len(q) - 1
      /\ \A k \in 1..Len(t) : k + 1 \in 1..Len(q) /\ t[k] = q[k + 1]
      /\ \A k \in 1..Len(q) : k = 1 \/ \E l \in 1..Len(t) : k = l + 1
  BY TailIndices
<1> HIDE DEF t
<1>2. Ends(q, M, G)
  BY DEF Told
<1>3. ASSUME NEW k \in 1..Len(t), t[k] \in M, \A l \in (k + 1)..Len(t) : t[l] \notin M
      PROVE  t[k] \in G
  <2>1. k + 1 \in 1..Len(q) /\ t[k] = q[k + 1]
    BY <1>1
  <2>2. ASSUME NEW l \in ((k + 1) + 1)..Len(q) PROVE q[l] \notin M
    <3>1. PICK p \in 1..Len(t) : l = p + 1
      BY <1>1
    <3>2. p \in (k + 1)..Len(t)
      BY <1>1, <3>1
    <3> QED
      BY <1>1, <1>3, <3>1, <3>2
  <2> QED
    BY <1>2, <1>3, <2>1, <2>2 DEF Ends
<1>4. ASSUME None(t, M) PROVE \A l \in 2..Len(q) : q[l] \notin M
  <2> TAKE l \in 2..Len(q)
  <2>1. PICK p \in 1..Len(t) : l = p + 1
    BY <1>1
  <2> QED
    BY <1>1, <1>4, <2>1 DEF None
<1>5. ASSUME None(t, M), q[1] \in M PROVE q[1] \in G
  <2>1. 1 \in 1..Len(q) /\ 1 + 1 = 2
    BY <1>1
  <2> QED
    BY <1>2, <1>4, <1>5, <2>1 DEF Ends
<1>6. ASSUME None(t, M), q[1] \notin M PROVE shown
  <2>1. None(q, M)
    BY <1>1, <1>4, <1>6 DEF None
  <2> QED
    BY <2>1 DEF Told
<1> QED
  BY <1>1, <1>3, <1>5, <1>6 DEF Ends, t

LEMMA ToldHeld ==
    ASSUME NEW S, NEW q \in Seq(S), q # <<>>, NEW M, NEW G, NEW shown \in BOOLEAN,
           Told(q, {}, M, G, shown), NEW e,
           Head(q) \in M <=> e \in M, Head(q) \in M \cap G => e \in G
    PROVE  Told(Tail(q), {e}, M, G, shown)
BY ToldTaken DEF Told

LEMMA ToldHandled ==
    ASSUME NEW S, NEW q \in Seq(S), q # <<>>, NEW M, NEW G, 
           NEW shown \in BOOLEAN, NEW then \in BOOLEAN,
           Told(q, {}, M, G, shown),
           Head(q) \in M \cap G => then, Head(q) \notin M /\ shown => then
    PROVE  Told(Tail(q), {}, M, G, then)
BY ToldTaken DEF Told

(* The event that was held is published. *)
LEMMA ToldPublished ==
    ASSUME NEW q, NEW e, NEW M, NEW G, NEW shown \in BOOLEAN, NEW then \in BOOLEAN,
           Told(q, {e}, M, G, shown),
           e \in M \cap G => then, e \notin M /\ shown => then
    PROVE  Told(q, {}, M, G, then)
BY DEF Told

LEMMA ToldShown ==
    ASSUME NEW q, NEW held, NEW M, NEW G, NEW shown \in BOOLEAN, NEW then \in BOOLEAN,
           Told(q, held, M, G, shown), shown => then
    PROVE  Told(q, held, M, G, then)
BY DEF Told

LEMMA ToldEmpty ==
    ASSUME NEW M, NEW G, NEW shown \in BOOLEAN
    PROVE  Told(<<>>, {}, M, G, shown) <=> shown
BY DEF Told, Ends, None

LEMMA SingleFacts ==
    ASSUME NEW S, NEW a \in S, NEW M, NEW G
    PROVE  /\ <<a>> \in Seq(S)
           /\ None(<<a>>, M) <=> a \notin M
           /\ Ends(<<a>>, M, G) <=> (a \in M => a \in G)
BY DEF None, Ends

LEMMA EmptyFacts ==
    ASSUME NEW M, NEW G
    PROVE  None(<<>>, M) /\ Ends(<<>>, M, G)
BY DEF None, Ends

LEMMA PairFacts ==
    ASSUME NEW S, NEW a \in S, NEW b \in S, NEW M, NEW G
    PROVE  /\ <<a>> \o <<b>> \in Seq(S)
           /\ None(<<a>> \o <<b>>, M) <=> a \notin M /\ b \notin M
           /\ (IF b \in M THEN b \in G ELSE a \in M => a \in G)
              => Ends(<<a>> \o <<b>>, M, G)
<1>1. <<a>> \in Seq(S) /\ <<b>> \in Seq(S)
  OBVIOUS
<1>2. /\ None(<<a>>, M) <=> a \notin M
      /\ None(<<b>>, M) <=> b \notin M
      /\ Ends(<<a>>, M, G) <=> (a \in M => a \in G)
      /\ Ends(<<b>>, M, G) <=> (b \in M => b \in G)
  BY SingleFacts
<1>3. None(<<a>> \o <<b>>, M) <=> None(<<a>>, M) /\ None(<<b>>, M)
  BY <1>1, NoneJoined
<1>4. (IF None(<<b>>, M) THEN Ends(<<a>>, M, G) ELSE Ends(<<b>>, M, G))
      => Ends(<<a>> \o <<b>>, M, G)
  BY <1>1, EndsJoined
<1> QED
  BY <1>1, <1>2, <1>3, <1>4

-----------------------------------------------------------------------------
(* What is under way to the subscribers. *)

(* The event the thread is about to publish. *)
Held == IF tpc = "publishing" THEN {tevent} ELSE {}

About(i, ops) == {m \in Messages \cup Events : m.op \in ops /\ m.index = i}
LinksOf(i) == About(i, {"newlink", "dellink"})
AddrsOf(i) == About(i, {"newaddr", "deladdr"})
Named(n) == {m \in Messages \cup Events : m.op = "newlink" /\ m.name = n}

(* Where the two threads are, and what they are about to publish. *)
InOrder ==
    /\ mpc = "off" <=> tpc = "off"
    /\ tpc \in {"off", "binding"} => socket = <<>>
    /\ mpc = "linkevent" => mevent.op = "newlink"
    /\ mpc = "addrevent" => mevent.op = "newaddr"

(* start() has yet to publish interface i, or its address. *)
LinkAwaited(i) ==
    \/ mpc \in {"off", "begin"}
    \/ mpc \in {"links", "linkevent"} /\ \E m \in dump : m.index = i
    \/ mpc = "linkevent" /\ mevent.index = i

AddrAwaited(i) ==
    \/ mpc \in {"off", "begin", "links", "linkevent"}
    \/ mpc \in {"addrs", "addrevent"} /\ \E m \in dump : m.index = i
    \/ mpc = "addrevent" /\ mevent.index = i

LinkTold(i) == Told(socket, Held, LinksOf(i), About(i, {"newlink"}),
                    viewLink[i] # NoName \/ LinkAwaited(i))
AddrTold(i) == Told(socket, Held, AddrsOf(i), About(i, {"newaddr"}),
                    Seen(i) # {} \/ AddrAwaited(i))

MissedInv ==
    ~missed /\ mpc # "failed" /\ tpc # "dead" =>
        /\ \A i \in Existing : LinkTold(i)
        /\ \A i \in addr : AddrTold(i)

LEMMA KernelMissed ==
    ASSUME Types, InOrder, MissedInv, NEW ms \in Seq(Messages), Change(ms),
           ~missed', mpc # "failed", tpc # "dead",
           Existing' \subseteq Indexes, addr' \subseteq Indexes,
           \A i \in Existing' : IF None(ms, LinksOf(i)) THEN i \in Existing
                                ELSE Ends(ms, LinksOf(i), About(i, {"newlink"})),
           \A i \in addr' : IF None(ms, AddrsOf(i)) THEN i \in addr
                            ELSE Ends(ms, AddrsOf(i), About(i, {"newaddr"}))
    PROVE  MissedInv'
<1>1. /\ ~missed /\ (tpc = "binding" => mpc = "begin")
      /\ UNCHANGED <<tpc, tevent, mpc, dump, mevent, viewLink, viewAddr>>
      /\ socket' = IF Listening THEN socket \o ms ELSE socket
  BY DEF Change, Types, TypeOK, view
<1>2. /\ \A i \in Existing : LinkTold(i)
      /\ \A i \in addr : AddrTold(i)
  BY <1>1 DEF MissedInv
<1>3. /\ Held' = Held
      /\ \A i \in Indexes : /\ LinkAwaited(i)' = LinkAwaited(i)
                            /\ AddrAwaited(i)' = AddrAwaited(i)
                            /\ Seen(i)' = Seen(i)
  BY <1>1 DEF Held, LinkAwaited, AddrAwaited, Seen
<1>4. CASE Listening
  <2>1. socket \in Seq(Messages) /\ socket' = socket \o ms
    BY <1>1, <1>4 DEF Types, TypeOK
  <2>2. ASSUME NEW i \in Existing' PROVE LinkTold(i)'
    <3>1. Told(socket \o ms, Held, LinksOf(i), About(i, {"newlink"}),
               viewLink[i] # NoName \/ LinkAwaited(i))
      BY <1>2, <2>1, ToldJoined DEF LinkTold
    <3> QED
      BY <1>1, <1>3, <2>1, <3>1 DEF LinkTold, LinksOf, About
  <2>3. ASSUME NEW i \in addr' PROVE AddrTold(i)'
    <3>1. Told(socket \o ms, Held, AddrsOf(i), About(i, {"newaddr"}),
               Seen(i) # {} \/ AddrAwaited(i))
      BY <1>2, <2>1, ToldJoined DEF AddrTold
    <3> QED
      BY <1>1, <1>3, <2>1, <3>1 DEF AddrTold, AddrsOf, About
  <2> QED
    BY <2>2, <2>3 DEF MissedInv
<1>5. CASE ~Listening
  <2>1. /\ tpc \in {"off", "binding"} /\ mpc \in {"off", "begin"}
        /\ socket = <<>> /\ socket' = <<>> /\ Held = {}
    BY <1>1, <1>5 DEF Listening, InOrder, Types, TypeOK, Held
  <2>2. \A i \in Indexes : LinkAwaited(i)' /\ AddrAwaited(i)'
    BY <1>1, <2>1 DEF LinkAwaited, AddrAwaited
  <2>3. \A M, G : Told(<<>>, {}, M, G, TRUE)
    BY ToldEmpty
  <2>4. \A i \in Indexes : LinkTold(i)' /\ AddrTold(i)'
    BY <1>3, <2>1, <2>2, <2>3 DEF LinkTold, AddrTold
  <2> QED
    BY <2>4 DEF MissedInv
<1> QED
  BY <1>4, <1>5

(* What is reported about interface i is about no other. *)
LEMMA LinkMessageAbout ==
    ASSUME NEW op \in {"newlink", "dellink"}, NEW i \in Indexes, NEW n \in Names,
           NEW j, NEW ops
    PROVE  /\ LinkMessage(op, i, n) \in Messages
           /\ LinkMessage(op, i, n) \in About(j, ops) <=> op \in ops /\ i = j
BY LinkMessageFacts DEF About

LEMMA AddrMessageAbout ==
    ASSUME NEW op \in {"newaddr", "deladdr"}, NEW i \in Indexes, NEW j, NEW ops
    PROVE  /\ AddrMessage(op, i) \in Messages
           /\ AddrMessage(op, i) \in About(j, ops) <=> op \in ops /\ i = j
BY AddrMessageFacts DEF About

(* What the kernel reports when an interface goes. *)
LEMMA RemovalFacts ==
    ASSUME Types, NEW i \in Indexes, DelLink(i)
    PROVE  \E ms \in Seq(Messages) :
              /\ Change(ms)
              /\ \A j \in Indexes :
                    /\ None(ms, LinksOf(j)) <=> i # j
                    /\ None(ms, About(j, {"newlink"})) /\ \A n : None(ms, Named(n))
                    /\ None(ms, AddrsOf(j)) <=> i # j \/ i \notin addr
                    /\ Ends(ms, LinksOf(i), About(i, {"dellink"}))
                    /\ Ends(ms, AddrsOf(i), About(i, {"deladdr"}))
<1> DEFINE a == LinkMessage("dellink", i, link[i])
           b == AddrMessage("deladdr", i)
           Fits(ms) == \A j \in Indexes :
                    /\ None(ms, LinksOf(j)) <=> i # j
                    /\ None(ms, About(j, {"newlink"})) /\ \A n : None(ms, Named(n))
                    /\ None(ms, AddrsOf(j)) <=> i # j \/ i \notin addr
                    /\ Ends(ms, LinksOf(i), About(i, {"dellink"}))
                    /\ Ends(ms, AddrsOf(i), About(i, {"deladdr"}))
<1>1. link[i] \in Names
  BY DEF DelLink, Types, TypeOK
<1>2. /\ a \in Messages
      /\ \A j \in Indexes : /\ a \in LinksOf(j) <=> i = j
                            /\ a \notin AddrsOf(j) /\ a \notin About(j, {"newlink"})
                            /\ \A n : a \notin Named(n)
      /\ a \in About(i, {"dellink"})
  BY <1>1, LinkMessageAbout, LinkMessageFacts DEF LinksOf, AddrsOf, Named
<1>3. /\ b \in Messages
      /\ \A j \in Indexes : /\ b \in AddrsOf(j) <=> i = j
                            /\ b \notin LinksOf(j) /\ b \notin About(j, {"newlink"})
                            /\ \A n : b \notin Named(n)
      /\ b \in About(i, {"deladdr"})
  BY AddrMessageAbout, AddrMessageFacts DEF LinksOf, AddrsOf, Named
<1>4. IF i \in addr THEN Change(<<a>> \o <<b>>) \/ Change(<<b>> \o <<a>>)
                    ELSE Change(<<a>>)
  <2>1. <<a>> \o <<>> = <<a>> /\ <<>> \o <<a>> = <<a>>
    BY <1>2
  <2> QED
    BY <2>1 DEF DelLink
<1> HIDE DEF a, b
<1>5. i \notin addr => <<a>> \in Seq(Messages) /\ Fits(<<a>>)
  BY <1>2, SingleFacts
<1>6. i \in addr => <<a>> \o <<b>> \in Seq(Messages) /\ Fits(<<a>> \o <<b>>)
  <2>1. /\ <<a>> \o <<b>> \in Seq(Messages)
        /\ \A M : None(<<a>> \o <<b>>, M) <=> a \notin M /\ b \notin M
        /\ \A M, G : (IF b \in M THEN b \in G ELSE a \in M => a \in G)
                       => Ends(<<a>> \o <<b>>, M, G)
    BY <1>2, <1>3, PairFacts
  <2> QED
    BY <1>2, <1>3, <2>1
<1>7. i \in addr => <<b>> \o <<a>> \in Seq(Messages) /\ Fits(<<b>> \o <<a>>)
  <2>1. /\ <<b>> \o <<a>> \in Seq(Messages)
        /\ \A M : None(<<b>> \o <<a>>, M) <=> b \notin M /\ a \notin M
        /\ \A M, G : (IF a \in M THEN a \in G ELSE b \in M => b \in G)
                       => Ends(<<b>> \o <<a>>, M, G)
    BY <1>2, <1>3, PairFacts
  <2> QED
    BY <1>2, <1>3, <2>1
<1> HIDE DEF Fits
<1>8. \E ms \in Seq(Messages) : Change(ms) /\ Fits(ms)
  BY <1>4, <1>5, <1>6, <1>7
<1> QED
  BY <1>8 DEF Fits

LEMMA KernelStepMissed == Types /\ InOrder /\ MissedInv /\ KernelStep => MissedInv'
<1> SUFFICES ASSUME Types, InOrder, MissedInv, NEW i \in Indexes,
                    \/ \E n \in Names : NewLink(i, n) \/ RenameLink(i, n)
                    \/ DelLink(i) \/ NewAddr(i) \/ DelAddr(i),
                    ~missed', mpc' # "failed", tpc' # "dead"
             PROVE  MissedInv'
  BY DEF KernelStep, MissedInv
<1>1. mpc # "failed" /\ tpc # "dead"
  BY DEF NewLink, RenameLink, DelLink, NewAddr, DelAddr, Change
<1>2. Existing' \subseteq Indexes /\ addr \subseteq Indexes
  BY DEF Existing, Types
<1>3. ASSUME NEW n \in Names, NewLink(i, n) \/ RenameLink(i, n) PROVE MissedInv'
  <2> DEFINE m == LinkMessage("newlink", i, n)
  <2>1. /\ m \in Messages /\ m \in About(i, {"newlink"})
        /\ \A j \in Indexes : /\ m \in LinksOf(j) <=> i = j
                              /\ m \notin AddrsOf(j)
    BY LinkMessageAbout DEF LinksOf, AddrsOf
  <2>2. Change(<<m>>) /\ link' = [link EXCEPT ![i] = n] /\ addr' = addr
    BY <1>3 DEF NewLink, RenameLink
  <2>3. \A j \in Existing' : j \in Existing \/ j = i
    BY <2>2 DEF Existing, Types, TypeOK
  <2> HIDE DEF m
  <2>4. <<m>> \in Seq(Messages)
    BY <2>1
  <2>5. \A j \in Existing' : IF None(<<m>>, LinksOf(j)) THEN j \in Existing
                             ELSE Ends(<<m>>, LinksOf(j), About(j, {"newlink"}))
    BY <1>2, <2>1, <2>3, SingleFacts
  <2>6. \A j \in addr' : IF None(<<m>>, AddrsOf(j)) THEN j \in addr
                         ELSE Ends(<<m>>, AddrsOf(j), About(j, {"newaddr"}))
    BY <1>2, <2>1, <2>2, SingleFacts
  <2> QED
    BY <1>1, <1>2, <2>2, <2>4, <2>5, <2>6, KernelMissed
<1>4. CASE DelLink(i)
  <2>1. PICK ms \in Seq(Messages) :
              /\ Change(ms)
              /\ \A j \in Indexes :
                    /\ None(ms, LinksOf(j)) <=> i # j
                    /\ None(ms, AddrsOf(j)) <=> i # j \/ i \notin addr
    BY <1>4, RemovalFacts
  <2>2. /\ \A j \in Existing' : j \in Existing /\ j # i
        /\ \A j \in addr' : j \in addr /\ j # i
    BY <1>4, NamesAssumption DEF DelLink, Existing, Types, TypeOK
  <2> QED
    BY <1>1, <1>2, <2>1, <2>2, KernelMissed
<1>5. CASE NewAddr(i)
  <2> DEFINE m == AddrMessage("newaddr", i)
  <2>1. /\ m \in Messages /\ m \in About(i, {"newaddr"})
        /\ \A j \in Indexes : /\ m \in AddrsOf(j) <=> i = j
                              /\ m \notin LinksOf(j)
    BY AddrMessageAbout DEF LinksOf, AddrsOf
  <2>2. Change(<<m>>) /\ addr' = addr \cup {i} /\ Existing' = Existing
    BY <1>5 DEF NewAddr, Existing
  <2> HIDE DEF m
  <2>4. <<m>> \in Seq(Messages)
    BY <2>1
  <2>5. \A j \in Existing' : IF None(<<m>>, LinksOf(j)) THEN j \in Existing
                             ELSE Ends(<<m>>, LinksOf(j), About(j, {"newlink"}))
    BY <1>2, <2>1, <2>2, SingleFacts
  <2>6. \A j \in addr' : IF None(<<m>>, AddrsOf(j)) THEN j \in addr
                         ELSE Ends(<<m>>, AddrsOf(j), About(j, {"newaddr"}))
    BY <1>2, <2>1, <2>2, SingleFacts
  <2> QED
    BY <1>1, <1>2, <2>2, <2>4, <2>5, <2>6, KernelMissed
<1>6. CASE DelAddr(i)
  <2> DEFINE m == AddrMessage("deladdr", i)
  <2>1. /\ m \in Messages
        /\ \A j \in Indexes : /\ m \in AddrsOf(j) <=> i = j
                              /\ m \notin LinksOf(j)
    BY AddrMessageAbout DEF LinksOf, AddrsOf
  <2>2. Change(<<m>>) /\ addr' = addr \ {i} /\ Existing' = Existing
    BY <1>6 DEF DelAddr, Existing
  <2> HIDE DEF m
  <2>4. <<m>> \in Seq(Messages)
    BY <2>1
  <2>5. \A j \in Existing' : None(<<m>>, LinksOf(j)) /\ j \in Existing
    BY <1>2, <2>1, <2>2, SingleFacts
  <2>6. \A j \in addr' : None(<<m>>, AddrsOf(j)) /\ j \in addr
    BY <1>2, <2>1, <2>2, SingleFacts
  <2> QED
    BY <1>1, <1>2, <2>2, <2>4, <2>5, <2>6, KernelMissed
<1> QED
  BY <1>3, <1>4, <1>5, <1>6

(* The event of a message says what the message says. *)
LEMMA EventAbout ==
    ASSUME TypeOK, NEW m \in Messages, IsLink(m) \/ Known(m)
    PROVE  /\ EventOf(m) \in Events
           /\ \A i, ops : EventOf(m) \in About(i, ops) <=> m \in About(i, ops)
<1>1. EventOf(m) \in Events
  BY EventFacts DEF TypeOK
<1>2. EventOf(m).op = m.op /\ EventOf(m).index = m.index
  BY DEF EventOf
<1> QED
  BY <1>1, <1>2 DEF About

LEMMA ReceiveFacts ==
    ASSUME Types, Receive
    PROVE  /\ socket \in Seq(Messages) /\ socket # <<>> /\ socket' = Tail(socket)
           /\ Head(socket) \in Messages /\ (IsLink(Head(socket)) \/ Known(Head(socket)))
           /\ ReceiveMessage(Head(socket))
           /\ Held = {} /\ Held' = {EventOf(Head(socket))}
           /\ tpc = "polling" /\ tpc' = "publishing" /\ mpc # "failed"
           /\ UNCHANGED <<link, addr, born, mpc, dump, mevent, viewLink, viewAddr,
                          changes, raced, missed, renamed>>
<1>1. /\ socket \in Seq(Messages) /\ socket # <<>> /\ socket' = Tail(socket)
      /\ (IsLink(Head(socket)) \/ Known(Head(socket)))
      /\ ReceiveMessage(Head(socket)) /\ tpc = "polling" /\ mpc # "failed"
      /\ UNCHANGED <<link, addr, born, mpc, dump, mevent, viewLink, viewAddr,
                     changes, raced, missed, renamed>>
  BY DEF Receive, Types, TypeOK, kernel, view, history
<1>2. Head(socket) \in Messages
  BY <1>1
<1>3. tevent' = EventOf(Head(socket)) /\ tpc' = "publishing"
  BY <1>1 DEF ReceiveMessage
<1> QED
  BY <1>1, <1>2, <1>3 DEF Held

(* What the subscribers learn from an event. *)
LEMMA LearnAbout ==
    ASSUME NEW e \in Events, Learn(e), viewLink \in [Indexes -> Names \cup {NoName}],
           viewAddr \subseteq Indexes \X Names, NEW i \in Indexes
    PROVE  /\ e \in About(i, {"newlink"}) => viewLink'[i] = e.name /\ viewLink'[i] # NoName
           /\ e \in About(i, {"dellink"}) => viewLink'[i] = NoName
           /\ e \notin LinksOf(i) => viewLink'[i] = viewLink[i]
           /\ e \in About(i, {"newaddr"}) => Seen(i)' = Seen(i) \cup {<<i, e.name>>}
           /\ e \in About(i, {"deladdr"}) => Seen(i)' = Seen(i) \ {<<i, e.name>>}
           /\ e \notin AddrsOf(i) => Seen(i)' = Seen(i)
<1>1. /\ e.op \in {"newlink", "dellink", "newaddr", "deladdr"}
      /\ e.index \in Indexes /\ e.name \in Names
      /\ \A ops : e \in About(i, ops) <=> e.op \in ops /\ e.index = i
  BY DEF Events, About
<1>2. /\ e.op = "newlink" => viewLink' = [viewLink EXCEPT ![e.index] = e.name]
      /\ e.op = "dellink" => viewLink' = [viewLink EXCEPT ![e.index] = NoName]
      /\ e.op \in {"newaddr", "deladdr"} => viewLink' = viewLink
      /\ e.op = "newaddr" => viewAddr' = viewAddr \cup {<<e.index, e.name>>}
      /\ e.op = "deladdr" => viewAddr' = viewAddr \ {<<e.index, e.name>>}
      /\ e.op \in {"newlink", "dellink"} => viewAddr' = viewAddr
  BY DEF Learn
<1>3. /\ e \in About(i, {"newlink"}) => viewLink'[i] = e.name /\ viewLink'[i] # NoName
      /\ e \in About(i, {"dellink"}) => viewLink'[i] = NoName
      /\ e \notin LinksOf(i) => viewLink'[i] = viewLink[i]
  BY <1>1, <1>2, NamesAssumption DEF LinksOf
<1>4. /\ e \in About(i, {"newaddr"}) => Seen(i)' = Seen(i) \cup {<<i, e.name>>}
      /\ e \in About(i, {"deladdr"}) => Seen(i)' = Seen(i) \ {<<i, e.name>>}
      /\ e \notin AddrsOf(i) => Seen(i)' = Seen(i)
  BY <1>1, <1>2 DEF AddrsOf, Seen
<1> QED
  BY <1>3, <1>4

LEMMA ThreadStepMissed ==
    Types /\ Types' /\ MissedInv /\ ThreadStep => MissedInv'
<1> SUFFICES ASSUME Types, Types', MissedInv, ThreadStep,
                    ~missed', mpc' # "failed", tpc' # "dead"
             PROVE  MissedInv'
  BY DEF MissedInv
<1>1. /\ ~missed /\ mpc # "failed" /\ tpc # "dead"
      /\ UNCHANGED <<link, addr, mpc, dump, mevent, missed>>
  BY DEF ThreadStep, Bind, Receive, ReceiveUnknown, PublishReceived, kernel, history
<1>2. /\ \A i \in Existing : LinkTold(i)
      /\ \A i \in addr : AddrTold(i)
  BY <1>1 DEF MissedInv
<1>3. /\ Existing' = Existing /\ addr' = addr /\ Existing \subseteq Indexes
      /\ addr \subseteq Indexes
      /\ \A i \in Indexes : LinkAwaited(i)' = LinkAwaited(i) /\ AddrAwaited(i)' = AddrAwaited(i)
  BY <1>1 DEF Existing, LinkAwaited, AddrAwaited, Types
<1>4. CASE Bind
  <2>1. Held' = Held /\ UNCHANGED <<socket, viewLink, viewAddr, tevent>>
    BY <1>4 DEF Bind, Held, view
  <2> QED
    BY <1>2, <1>3, <2>1 DEF MissedInv, LinkTold, AddrTold, LinksOf, AddrsOf, About, Seen
<1>5. CASE Receive
  <2> DEFINE m == Head(socket)
             e == EventOf(m)
  <2>1. /\ socket \in Seq(Messages) /\ socket # <<>> /\ socket' = Tail(socket)
        /\ Held = {} /\ Held' = {e} /\ tpc # "off" /\ tpc' = "publishing"
        /\ UNCHANGED <<viewLink, viewAddr>>
        /\ \A i, ops : e \in About(i, ops) <=> m \in About(i, ops)
    BY <1>5, ReceiveFacts, EventAbout DEF Types
  <2> HIDE DEF m, e
  <2>2. ASSUME NEW i \in Existing PROVE LinkTold(i)'
    <3>1. Told(Tail(socket), {e}, LinksOf(i), About(i, {"newlink"}),
               viewLink[i] # NoName \/ LinkAwaited(i))
      BY <1>2, <2>1, <2>2, ToldHeld DEF LinkTold, LinksOf, m
    <3> QED
      BY <1>3, <2>1, <2>2, <3>1 DEF LinkTold, LinksOf, About
  <2>3. ASSUME NEW i \in addr PROVE AddrTold(i)'
    <3>1. Told(Tail(socket), {e}, AddrsOf(i), About(i, {"newaddr"}),
               Seen(i) # {} \/ AddrAwaited(i))
      BY <1>2, <2>1, <2>3, ToldHeld DEF AddrTold, AddrsOf, m
    <3> QED
      BY <1>3, <2>1, <2>3, <3>1 DEF AddrTold, AddrsOf, About, Seen
  <2> QED
    BY <1>3, <2>2, <2>3 DEF MissedInv
<1>6. CASE ReceiveUnknown
  BY <1>6 DEF ReceiveUnknown, MissedInv
<1>7. CASE PublishReceived
  <2>1. /\ tevent \in Events /\ Learn(tevent) /\ Held = {tevent} /\ Held' = {}
        /\ tpc # "off" /\ tpc' = "polling" /\ socket' = socket
        /\ viewLink \in [Indexes -> Names \cup {NoName}]
        /\ viewAddr \subseteq Indexes \X Names
    BY <1>7 DEF PublishReceived, Types, TypeOK, Publishing, Held
  <2>2. ASSUME NEW i \in Existing PROVE LinkTold(i)'
    <3>1. /\ tevent \in LinksOf(i) \cap About(i, {"newlink"}) => viewLink'[i] # NoName
          /\ tevent \notin LinksOf(i) => viewLink'[i] = viewLink[i]
      BY <1>3, <2>1, <2>2, LearnAbout
    <3>2. Told(socket, {}, LinksOf(i), About(i, {"newlink"}),
               viewLink'[i] # NoName \/ LinkAwaited(i))
      BY <1>2, <2>1, <2>2, <3>1, ToldPublished DEF LinkTold
    <3> QED
      BY <1>3, <2>1, <2>2, <3>2 DEF LinkTold, LinksOf, About
  <2>3. ASSUME NEW i \in addr PROVE AddrTold(i)'
    <3>a. i \in Indexes
      BY <1>3, <2>3
    <3>1. /\ tevent \in AddrsOf(i) \cap About(i, {"newaddr"}) => Seen(i)' # {}
          /\ tevent \notin AddrsOf(i) => Seen(i)' = Seen(i)
      BY <2>1, <3>a, LearnAbout
    <3>2. Told(socket, {}, AddrsOf(i), About(i, {"newaddr"}),
               Seen(i)' # {} \/ AddrAwaited(i))
      BY <1>2, <2>1, <2>3, <3>1, ToldPublished DEF AddrTold
    <3> QED
      BY <1>3, <2>1, <2>3, <3>2 DEF AddrTold, AddrsOf, About
  <2> QED
    BY <1>3, <2>2, <2>3 DEF MissedInv
<1> QED
  BY <1>4, <1>5, <1>6, <1>7 DEF ThreadStep

LEMMA InOrderStep == Types /\ InOrder /\ [Next]_vars => InOrder'
<1> SUFFICES ASSUME Types, InOrder, [Next]_vars PROVE InOrder'
  OBVIOUS
<1> USE DEF maps, view, history, kernel
<1>1. CASE KernelStep
  BY <1>1 DEF KernelStep, NewLink, RenameLink, DelLink, NewAddr, DelAddr, Change, InOrder,
              Listening
<1>2. CASE Receive
  BY <1>2, ReceiveFacts DEF InOrder
<1>3. CASE Bind \/ ReceiveUnknown \/ PublishReceived
  BY <1>3 DEF Bind, ReceiveUnknown, PublishReceived, InOrder
<1>4. CASE MapDumped
  BY <1>4 DEF MapDumped, InOrder, EventOf, Types, Dumping
<1>5. CASE NameDumped
  BY <1>5 DEF NameDumped, InOrder, EventOf, Types, Dumping
<1>6. CASE StartThread \/ DumpLinks \/ PublishDumped \/ DumpAddrs \/ StartRaises \/ Started
  BY <1>6 DEF StartThread, DumpLinks, PublishDumped, DumpAddrs, StartRaises, Started, InOrder
<1>7. CASE UNCHANGED vars
  BY <1>7 DEF vars, InOrder
<1> QED
  BY <1>1, <1>2, <1>3, <1>4, <1>5, <1>6, <1>7 DEF Next, ThreadStep, MainStep

(* What start() does next to what the subscribers know, or are about to learn. *)
LEMMA MainStepAwaited ==
    ASSUME Types, Types', InOrder, MainStep
    PROVE  /\ \A i \in Existing : viewLink[i] # NoName \/ LinkAwaited(i)
                               => viewLink'[i] # NoName \/ LinkAwaited(i)' \/ mpc' = "failed"
           /\ \A i \in addr : Seen(i) # {} \/ AddrAwaited(i)
                           => Seen(i)' # {} \/ AddrAwaited(i)' \/ mpc' = "failed"
<1> DEFINE Links == \A i \in Existing : viewLink[i] # NoName \/ LinkAwaited(i)
                               => viewLink'[i] # NoName \/ LinkAwaited(i)' \/ mpc' = "failed"
           Addrs == \A i \in addr : Seen(i) # {} \/ AddrAwaited(i)
                           => Seen(i)' # {} \/ AddrAwaited(i)' \/ mpc' = "failed"
<1> USE DEF maps, view, history, kernel
<1>1. Existing \subseteq Indexes /\ addr \subseteq Indexes
  BY DEF Existing, Types
<1>2. CASE StartThread \/ StartRaises
  BY <1>2 DEF StartThread, StartRaises, LinkAwaited, AddrAwaited, Seen
<1>3. CASE DumpLinks
  <2>1. ASSUME NEW i \in Existing PROVE LinkAwaited(i)'
    <3>1. LinkMessage("newlink", i, link[i]) \in dump' /\ mpc' = "links"
      BY <1>3, <2>1 DEF DumpLinks, Existing
    <3>2. LinkMessage("newlink", i, link[i]).index = i
      BY DEF LinkMessage
    <3> QED
      BY <3>1, <3>2 DEF LinkAwaited
  <2>2. \A i \in addr : AddrAwaited(i)'
    BY <1>3 DEF DumpLinks, AddrAwaited
  <2> QED
    BY <2>1, <2>2
<1>4. CASE MapDumped
  <2>1. PICK m \in dump : mevent' = EventOf(m) /\ dump' = dump \ {m}
    BY <1>4 DEF MapDumped
  <2>2. mevent'.index = m.index
    BY <2>1 DEF EventOf
  <2> QED
    BY <1>4, <2>1, <2>2 DEF MapDumped, LinkAwaited, AddrAwaited, Seen
<1>5. CASE PublishDumped
  <2>1. /\ mevent \in Events /\ Learn(mevent) /\ UNCHANGED dump
        /\ mpc = "linkevent" => mpc' = "links"
        /\ mpc = "addrevent" => mpc' = "addrs"
        /\ mpc \in {"linkevent", "addrevent"}
    BY <1>5 DEF PublishDumped, Types, Publishing
  <2>2. \A i, ops : mevent \in About(i, ops) <=> mevent.op \in ops /\ mevent.index = i
    BY <2>1 DEF About
  <2>3. /\ viewLink \in [Indexes -> Names \cup {NoName}]
        /\ viewAddr \subseteq Indexes \X Names
    BY DEF Types, TypeOK
  <2>4. ASSUME NEW i \in Existing, viewLink[i] # NoName \/ LinkAwaited(i)
        PROVE  viewLink'[i] # NoName \/ LinkAwaited(i)'
    <3>1. /\ mevent \in About(i, {"newlink"}) => viewLink'[i] # NoName
          /\ mevent \notin LinksOf(i) => viewLink'[i] = viewLink[i]
      BY <1>1, <2>1, <2>3, <2>4, LearnAbout
    <3> QED
      BY <2>1, <2>2, <2>4, <3>1 DEF LinkAwaited, LinksOf, InOrder
  <2>5. ASSUME NEW i \in addr, Seen(i) # {} \/ AddrAwaited(i)
        PROVE  Seen(i)' # {} \/ AddrAwaited(i)'
    <3>1. /\ mevent \in About(i, {"newaddr"}) => Seen(i)' # {}
          /\ mevent \notin AddrsOf(i) => Seen(i)' = Seen(i)
      BY <1>1, <2>1, <2>3, <2>5, LearnAbout, ZenonT(20)
    <3> QED
      BY <2>1, <2>2, <2>5, <3>1 DEF AddrAwaited, AddrsOf, InOrder
  <2> QED
    BY <2>4, <2>5
<1>6. CASE DumpAddrs
  <2>1. ASSUME NEW i \in addr PROVE AddrAwaited(i)'
    <3>1. AddrMessage("newaddr", i) \in dump' /\ mpc' = "addrs"
      BY <1>6, <2>1 DEF DumpAddrs
    <3>2. AddrMessage("newaddr", i).index = i
      BY DEF AddrMessage
    <3> QED
      BY <3>1, <3>2 DEF AddrAwaited
  <2>2. Links
    BY <1>6 DEF DumpAddrs, LinkAwaited
  <2> QED
    BY <2>1, <2>2
<1>7. CASE NameDumped
  <2>1. PICK m \in dump : mevent' = EventOf(m) /\ dump' = dump \ {m}
    BY <1>7 DEF NameDumped
  <2>2. mevent'.index = m.index
    BY <2>1 DEF EventOf
  <2> QED
    BY <1>7, <2>1, <2>2 DEF NameDumped, LinkAwaited, AddrAwaited, Seen
<1>8. CASE Started
  BY <1>8 DEF Started, LinkAwaited, AddrAwaited, Seen
<1> QED
  BY <1>2, <1>3, <1>4, <1>5, <1>6, <1>7, <1>8 DEF MainStep

LEMMA MainStepMissed ==
    Types /\ Types' /\ InOrder /\ MissedInv /\ MainStep => MissedInv'
<1> SUFFICES ASSUME Types, Types', InOrder, MissedInv, MainStep,
                    ~missed', mpc' # "failed", tpc' # "dead"
             PROVE  MissedInv'
  BY DEF MissedInv
<1>1. /\ ~missed /\ mpc # "failed" /\ tpc # "dead"
      /\ UNCHANGED <<link, addr, socket, tevent, missed>>
      /\ mpc = "off" => mpc' = "begin" /\ tpc' = "binding"
      /\ mpc # "off" => mpc' # "off" /\ tpc' = tpc
  BY DEF MainStep, StartThread, DumpLinks, MapDumped, PublishDumped, DumpAddrs, NameDumped,
         StartRaises, Started, kernel, history, InOrder
<1>2. /\ \A i \in Existing : LinkTold(i)
      /\ \A i \in addr : AddrTold(i)
  BY <1>1 DEF MissedInv
<1>3. Held' = Held
  BY <1>1 DEF InOrder, Held
<1>4. Existing' = Existing /\ addr' = addr
  BY <1>1 DEF Existing
<1>5. /\ \A i \in Existing : viewLink[i] # NoName \/ LinkAwaited(i)
                               => viewLink'[i] # NoName \/ LinkAwaited(i)'
      /\ \A i \in addr : Seen(i) # {} \/ AddrAwaited(i)
                           => Seen(i)' # {} \/ AddrAwaited(i)'
  BY MainStepAwaited
<1>6. ASSUME NEW i \in Existing PROVE LinkTold(i)'
  <2>1. Told(socket, Held, LinksOf(i), About(i, {"newlink"}),
             viewLink'[i] # NoName \/ LinkAwaited(i)')
    BY <1>2, <1>5, <1>6, ToldShown DEF LinkTold
  <2> QED
    BY <1>1, <1>3, <1>6, <2>1 DEF LinkTold, LinksOf, About
<1>7. ASSUME NEW i \in addr PROVE AddrTold(i)'
  <2>1. Told(socket, Held, AddrsOf(i), About(i, {"newaddr"}),
             Seen(i)' # {} \/ AddrAwaited(i)')
    BY <1>2, <1>5, <1>7, ToldShown DEF AddrTold
  <2> QED
    BY <1>1, <1>3, <1>7, <2>1 DEF AddrTold, AddrsOf, About
<1> QED
  BY <1>4, <1>6, <1>7 DEF MissedInv

LEMMA StutterMissed == MissedInv /\ UNCHANGED vars => MissedInv'
<1> SUFFICES ASSUME MissedInv, UNCHANGED vars PROVE MissedInv'
  OBVIOUS
<1>1. UNCHANGED <<link, addr, socket, tpc, tevent, mpc, dump, mevent, viewLink, viewAddr, missed>>
  BY DEF vars, kernel, view, history
<1>2. /\ Held' = Held /\ Existing' = Existing
      /\ \A i : LinkAwaited(i)' = LinkAwaited(i) /\ AddrAwaited(i)' = AddrAwaited(i)
      /\ \A i : Seen(i)' = Seen(i)
  BY <1>1 DEF Held, Existing, LinkAwaited, AddrAwaited, Seen
<1>3. \A i : LinkTold(i)' = LinkTold(i) /\ AddrTold(i)' = AddrTold(i)
  BY <1>1, <1>2 DEF LinkTold, AddrTold, LinksOf, AddrsOf, About
<1> QED
  BY <1>1, <1>2, <1>3 DEF MissedInv

LEMMA InitMissed == Init => InOrder /\ MissedInv
<1> SUFFICES ASSUME Init PROVE MissedInv
  BY DEF Init, InOrder
<1>1. socket = <<>> /\ Held = {} /\ mpc = "off"
  BY DEF Init, Held
<1>2. \A M, G : Told(<<>>, {}, M, G, TRUE)
  BY ToldEmpty
<1> QED
  BY <1>1, <1>2 DEF MissedInv, LinkTold, AddrTold, LinkAwaited, AddrAwaited

(* Once everything reported has reached them, the subscribers know every
   interface and every address the kernel has, whatever changed while start()
   went through its dumps: only a change that falls between a dump and the
   moment event_thread listens is lost. *)
THEOREM NothingMissedCorrect == Spec => []NothingMissed
<1> DEFINE Inv == Types /\ InOrder /\ MissedInv
<1>1. Init => Inv
  BY InitTypes, InitMissed
<1>2. Inv /\ [Next]_vars => Inv'
  <2>1. Inv /\ [Next]_vars => Types' /\ InOrder'
    BY KernelStepTypes, ThreadStepTypes, MainStepTypes, StutterTypes, InOrderStep DEF Next
  <2>2. Inv /\ [Next]_vars => MissedInv'
    BY <2>1, KernelStepMissed, ThreadStepMissed, MainStepMissed, StutterMissed DEF Next
  <2> QED
    BY <2>1, <2>2
<1>3. Inv => NothingMissed
  <2> SUFFICES ASSUME Inv, Settled, ~missed
               PROVE  \A i \in Indexes : /\ link[i] # NoName => viewLink[i] # NoName
                                         /\ i \in addr => Seen(i) # {}
    BY DEF NothingMissed
  <2>1. socket = <<>> /\ Held = {} /\ mpc = "running" /\ tpc = "polling"
    BY DEF Settled, Held
  <2>2. \A i \in Indexes : ~LinkAwaited(i) /\ ~AddrAwaited(i)
    BY <2>1 DEF LinkAwaited, AddrAwaited
  <2>3. /\ \A i \in Existing : LinkTold(i)
        /\ \A i \in addr : AddrTold(i)
    BY <2>1 DEF MissedInv
  <2>4. ASSUME NEW i \in Indexes, link[i] # NoName PROVE viewLink[i] # NoName
    <3>1. Told(<<>>, {}, LinksOf(i), About(i, {"newlink"}),
               viewLink[i] # NoName \/ LinkAwaited(i))
      BY <2>1, <2>3, <2>4 DEF LinkTold, Existing
    <3> QED
      BY <2>2, <3>1, ToldEmpty
  <2>5. ASSUME NEW i \in Indexes, i \in addr PROVE Seen(i) # {}
    <3>1. Told(<<>>, {}, AddrsOf(i), About(i, {"newaddr"}),
               Seen(i) # {} \/ AddrAwaited(i))
      BY <2>1, <2>3, <2>5 DEF AddrTold
    <3> QED
      BY <2>2, <3>1, ToldEmpty
  <2> QED
    BY <2>4, <2>5
<1> QED
  BY <1>1, <1>2, <1>3, PTL DEF Spec

-----------------------------------------------------------------------------
(* What the subscribers and the maps say, when nothing raced with start(). *)

Distinct == \A i, j \in Existing : link[i] = link[j] => i = j

(* What start() works on is what the kernel has. *)
Starting ==
    /\ mpc \in {"off", "begin"} => viewAddr = {} /\ \A i \in Indexes : viewLink[i] = NoName
    /\ mpc # "running" => tpc # "publishing"
    /\ mpc \in {"links", "linkevent"} => \A m \in dump : m.name = link[m.index]
    /\ mpc = "linkevent" => mevent.name = link[mevent.index]
    /\ mpc \in {"addrs", "addrevent"} => \A m \in dump : m.index \in addr
    /\ mpc = "addrevent" => mevent.index \in addr

(* The last message about interface i says what is so. *)
LinkState(i) == IF link[i] # NoName THEN {LinkMessage("newlink", i, link[i])}
                ELSE About(i, {"dellink"})
AddrState(i) == IF i \in addr THEN About(i, {"newaddr"}) ELSE About(i, {"deladdr"})

MapAwaited(i) ==
    \/ mpc \in {"off", "begin"}
    \/ mpc \in {"links", "linkevent"} /\ \E m \in dump : m.index = i

ViewShown(i) == viewLink[i] = link[i] \/ (link[i] # NoName /\ LinkAwaited(i))
MapShown(i) == interfaceMap[i] = link[i] \/ MapAwaited(i)
NameShown(i) == interfaceNameMap[link[i]] = i \/ MapAwaited(i)
AddrShown(i) == IF i \in addr THEN Seen(i) # {} \/ AddrAwaited(i) ELSE Seen(i) = {}

ViewRight(i) == Told(socket, Held, LinksOf(i), LinkState(i), ViewShown(i))
MapRight(i) == Told(socket, {}, About(i, {"newlink"}), LinkState(i), MapShown(i))
NameRight(i) == Told(socket, {}, Named(link[i]), LinkState(i), NameShown(i))
AddrRight(i) == Told(socket, Held, AddrsOf(i), AddrState(i), AddrShown(i))

(* Interface i has had no name but n, wherever its name may still come from. *)
OneName(i, n) ==
    /\ link[i] \in {NoName, n} /\ interfaceMap[i] \in {NoName, n}
    /\ Seen(i) \subseteq {<<i, n>>}
    /\ None(socket, About(i, {"newlink"}) \ Named(n))
    /\ \A e \in Held : e \in AddrsOf(i) => e.name = n
    /\ mpc = "addrevent" /\ mevent.index = i => mevent.name = n

Right ==
    /\ \A i \in Indexes : ViewRight(i)
    /\ \A i \in Existing : MapRight(i) /\ NameRight(i)
    /\ \A i \in Indexes \ renamed : AddrRight(i)

Naming ==
    /\ \A i \in born \ renamed : \E n \in Names : OneName(i, n)
    /\ \A i \in Indexes \ born : \A n \in Names : OneName(i, n)

ViewInv == ~raced => Starting /\ Right /\ Naming

LEMMA DistinctStep == Types /\ Distinct /\ [Next]_vars => Distinct'
<1> SUFFICES ASSUME Types, Distinct, [Next]_vars PROVE Distinct'
  OBVIOUS
<1>1. CASE UNCHANGED link
  BY <1>1 DEF Distinct, Existing
<1>2. ASSUME NEW i \in Indexes, NEW n \in Names, NewLink(i, n) \/ RenameLink(i, n)
      PROVE  Distinct'
  <2>1. link' = [link EXCEPT ![i] = n] /\ \A j \in Indexes : link[j] # n
    BY <1>2 DEF NewLink, RenameLink, Free
  <2> QED
    BY <2>1 DEF Distinct, Existing, Types, TypeOK
<1>3. ASSUME NEW i \in Indexes, DelLink(i) PROVE Distinct'
  BY <1>3 DEF DelLink, Distinct, Existing, Types, TypeOK
<1>4. UNCHANGED link \/ \E i \in Indexes : DelLink(i) \/ \E n \in Names : NewLink(i, n) \/ RenameLink(i, n)
  BY DEF Next, KernelStep, NewAddr, DelAddr, ThreadStep, Bind, Receive, ReceiveUnknown,
         PublishReceived, MainStep, StartThread, DumpLinks, MapDumped, PublishDumped,
         DumpAddrs, NameDumped, StartRaises, Started, kernel, vars
<1> QED
  BY <1>1, <1>2, <1>3, <1>4

LEMMA KernelView ==
    ASSUME Types, NamingInv, InOrder, ViewInv, NEW ms \in Seq(Messages), Change(ms), ~raced',
           Types', renamed \subseteq renamed',
           \A i \in Indexes : IF None(ms, LinksOf(i)) THEN link'[i] = link[i]
                              ELSE Ends(ms, LinksOf(i), LinkState(i)'),
           \A i \in Existing' :
              IF None(ms, About(i, {"newlink"})) THEN link'[i] = link[i]
              ELSE Ends(ms, About(i, {"newlink"}), LinkState(i)'),
           \A i \in Existing' :
              IF None(ms, Named(link'[i])) THEN link'[i] = link[i]
              ELSE Ends(ms, Named(link'[i]), LinkState(i)'),
           \A i \in Indexes \ renamed' :
              IF None(ms, AddrsOf(i)) THEN i \in addr' <=> i \in addr
              ELSE Ends(ms, AddrsOf(i), AddrState(i)')
    PROVE  Right' /\ Starting'
<1>1. /\ ~raced /\ mpc \in {"off", "running"} /\ tpc # "binding"
      /\ UNCHANGED <<tpc, tevent, mpc, dump, mevent, viewLink, viewAddr,
                     interfaceMap, interfaceNameMap>>
      /\ socket' = IF Listening THEN socket \o ms ELSE socket
  BY DEF Change, Types, TypeOK, maps, view
<1>2. Quiet /\ Starting /\ Right
  BY <1>1 DEF NamingInv, ViewInv
<1>3. Held' = Held /\ Existing' \subseteq Indexes /\ socket \in Seq(Messages)
  BY <1>1 DEF Held, Existing, Types, TypeOK
<1>4. \A i \in Indexes : /\ LinkAwaited(i)' = LinkAwaited(i)
                         /\ MapAwaited(i)' = MapAwaited(i)
                         /\ AddrAwaited(i)' = AddrAwaited(i)
                         /\ Seen(i)' = Seen(i)
  BY <1>1 DEF LinkAwaited, MapAwaited, AddrAwaited, Seen
<1>5. Starting'
  BY <1>1, <1>2 DEF Starting
<1>6. CASE mpc = "off"
  <2>1. socket' = <<>> /\ Held' = {}
    BY <1>1, <1>2, <1>3, <1>6 DEF InOrder, Listening, Held
  <2>2. \A i \in Indexes : /\ ViewShown(i)' /\ MapShown(i)'
                           /\ NameShown(i)' /\ AddrShown(i)'
    BY <1>1, <1>2, <1>6 DEF ViewShown, MapShown, NameShown, AddrShown, LinkAwaited, MapAwaited,
                            AddrAwaited, Starting, Seen
  <2>3. \A M, G : Told(<<>>, {}, M, G, TRUE)
    BY ToldEmpty
  <2>4. \A i \in Indexes : ViewRight(i)' /\ MapRight(i)' /\ NameRight(i)' /\ AddrRight(i)'
    BY <2>1, <2>2, <2>3 DEF ViewRight, MapRight, NameRight, AddrRight
  <2> QED
    BY <1>3, <1>5, <2>4 DEF Right
<1>7. CASE mpc = "running"
  <2>1. socket' = socket \o ms
    BY <1>1, <1>2, <1>7 DEF Quiet, Listening, Types, TypeOK
  <2>2. ASSUME NEW i \in Indexes PROVE ViewRight(i)'
    <3>1. CASE None(ms, LinksOf(i))
      <4>1. LinkState(i)' = LinkState(i) /\ ViewShown(i)' = ViewShown(i)
        BY <1>1, <1>4, <3>1 DEF LinkState, ViewShown, About
      <4>2. Told(socket \o ms, Held, LinksOf(i), LinkState(i), ViewShown(i))
        BY <1>2, <1>3, <3>1, ToldJoined DEF Right, ViewRight, ViewShown
      <4> QED
        BY <1>3, <2>1, <4>1, <4>2 DEF ViewRight, LinksOf, About
    <3>2. CASE ~None(ms, LinksOf(i))
      <4>1. Told(socket \o ms, Held, LinksOf(i), LinkState(i)', ViewShown(i)')
        BY <1>3, <3>2, ToldJoined DEF ViewShown
      <4> QED
        BY <1>3, <2>1, <4>1 DEF ViewRight, LinksOf, About
    <3> QED
      BY <3>1, <3>2
  <2>3. ASSUME NEW i \in Existing' PROVE MapRight(i)'
    <3>1. CASE None(ms, About(i, {"newlink"}))
      <4>1. LinkState(i)' = LinkState(i) /\ MapShown(i)' = MapShown(i) /\ i \in Existing
        BY <1>1, <1>3, <1>4, <2>3, <3>1 DEF LinkState, MapShown, About, Existing
      <4>2. Told(socket \o ms, {}, About(i, {"newlink"}), LinkState(i), MapShown(i))
        BY <1>2, <1>3, <3>1, <4>1, ToldJoined DEF Right, MapRight, MapShown
      <4> QED
        BY <2>1, <4>1, <4>2 DEF MapRight, About
    <3>2. CASE ~None(ms, About(i, {"newlink"}))
      <4>1. Told(socket \o ms, {}, About(i, {"newlink"}), LinkState(i)', MapShown(i)')
        BY <1>3, <3>2, ToldJoined DEF MapShown
      <4> QED
        BY <2>1, <4>1 DEF MapRight, About
    <3> QED
      BY <3>1, <3>2
  <2>4. ASSUME NEW i \in Existing' PROVE NameRight(i)'
    <3>1. CASE None(ms, Named(link'[i]))
      <4>1. /\ LinkState(i)' = LinkState(i) /\ NameShown(i)' = NameShown(i) /\ i \in Existing
            /\ link'[i] = link[i]
        BY <1>1, <1>3, <1>4, <2>4, <3>1 DEF LinkState, NameShown, About, Existing
      <4>2. Told(socket \o ms, {}, Named(link[i]), LinkState(i), NameShown(i))
        BY <1>2, <1>3, <3>1, <4>1, ToldJoined DEF Right, NameRight, NameShown
      <4> QED
        BY <2>1, <4>1, <4>2 DEF NameRight, Named
    <3>2. CASE ~None(ms, Named(link'[i]))
      <4>1. Told(socket \o ms, {}, Named(link'[i]), LinkState(i)', NameShown(i)')
        BY <1>3, <2>4, <3>2, ToldJoined DEF NameShown
      <4> QED
        BY <2>1, <4>1 DEF NameRight, Named
    <3> QED
      BY <3>1, <3>2
  <2>5. ASSUME NEW i \in Indexes \ renamed' PROVE AddrRight(i)'
    <3>1. CASE None(ms, AddrsOf(i))
      <4>1. AddrState(i)' = AddrState(i) /\ AddrShown(i)' = AddrShown(i) /\ i \in Indexes \ renamed
        BY <1>4, <2>5, <3>1 DEF AddrState, AddrShown, About
      <4>2. Told(socket \o ms, Held, AddrsOf(i), AddrState(i), AddrShown(i))
        BY <1>2, <1>3, <3>1, <4>1, ToldJoined DEF Right, AddrRight, AddrShown
      <4> QED
        BY <1>3, <2>1, <4>1, <4>2 DEF AddrRight, AddrsOf, About
    <3>2. CASE ~None(ms, AddrsOf(i))
      <4>1. Told(socket \o ms, Held, AddrsOf(i), AddrState(i)', AddrShown(i)')
        BY <1>3, <2>5, <3>2, ToldJoined DEF AddrShown
      <4> QED
        BY <1>3, <2>1, <4>1 DEF AddrRight, AddrsOf, About
    <3> QED
      BY <3>1, <3>2
  <2> QED
    BY <1>5, <2>2, <2>3, <2>4, <2>5 DEF Right
<1> QED
  BY <1>1, <1>6, <1>7

LEMMA KernelNames ==
    ASSUME Types, NamingInv, InOrder, ViewInv, NEW ms \in Seq(Messages), Change(ms), ~raced',
           \A i \in born' \ renamed' :
              \E n \in Names : /\ OneName(i, n) /\ link'[i] \in {NoName, n}
                               /\ None(ms, About(i, {"newlink"}) \ Named(n)),
           \A i \in Indexes \ born' : /\ i \notin born /\ link'[i] = NoName
                                      /\ None(ms, About(i, {"newlink"})),
           born' \subseteq Indexes
    PROVE  Naming'
<1>1. /\ ~raced
      /\ UNCHANGED <<tpc, tevent, mpc, mevent, viewAddr, interfaceMap>>
      /\ socket' = IF Listening THEN socket \o ms ELSE socket
      /\ socket \in Seq(Messages)
  BY DEF Change, Types, TypeOK, maps, view
<1>2. Naming /\ Held' = Held /\ \A i : Seen(i)' = Seen(i)
  BY <1>1 DEF ViewInv, Held, Seen
<1>3. ASSUME NEW i \in Indexes, NEW n \in Names, OneName(i, n), link'[i] \in {NoName, n},
             None(ms, About(i, {"newlink"}) \ Named(n))
      PROVE  OneName(i, n)'
  <2>1. None(socket, About(i, {"newlink"}) \ Named(n))
    BY <1>3 DEF OneName
  <2>2. None(socket', About(i, {"newlink"}) \ Named(n))
    BY <1>1, <1>3, <2>1, NoneJoined
  <2> QED
    BY <1>1, <1>2, <1>3, <2>2 DEF OneName, About, AddrsOf, Named
<1>4. ASSUME NEW i \in born' \ renamed' PROVE \E n \in Names : OneName(i, n)'
  BY <1>3, <1>4
<1>5. ASSUME NEW i \in Indexes \ born', NEW n \in Names PROVE OneName(i, n)'
  <2>1. OneName(i, n) /\ link'[i] \in {NoName, n}
    BY <1>2, <1>5 DEF Naming
  <2>2. None(ms, About(i, {"newlink"}) \ Named(n))
    BY <1>5 DEF None
  <2> QED
    BY <1>3, <1>5, <2>1, <2>2
<1> QED
  BY <1>4, <1>5 DEF Naming

LEMMA KernelStepView ==
    Types /\ Types' /\ NamingInv /\ InOrder /\ Distinct' /\ ViewInv /\ KernelStep => ViewInv'
<1> SUFFICES ASSUME Types, Types', NamingInv, InOrder, Distinct', ViewInv, NEW i \in Indexes,
                    \/ \E n \in Names : NewLink(i, n) \/ RenameLink(i, n)
                    \/ DelLink(i) \/ NewAddr(i) \/ DelAddr(i),
                    ~raced'
             PROVE  Right' /\ Starting' /\ Naming'
  BY DEF KernelStep, ViewInv
<1>1. ~raced /\ Naming
  BY DEF NewLink, RenameLink, DelLink, NewAddr, DelAddr, Change, ViewInv
<1>2. /\ Existing' \subseteq Indexes /\ addr \subseteq Indexes /\ addr' \subseteq Indexes
      /\ born \subseteq Indexes /\ born' \subseteq Indexes /\ Existing \subseteq born
      /\ link \in [Indexes -> Names \cup {NoName}]
  BY DEF Existing, Types, TypeOK
<1>3. ASSUME NEW n \in Names, NewLink(i, n) \/ RenameLink(i, n)
      PROVE  Right' /\ Starting' /\ Naming'
  <2> DEFINE m == LinkMessage("newlink", i, n)
             ms == <<m>>
  <2>1. /\ m \in Messages /\ \A j : m \in About(j, {"newlink"}) <=> i = j
        /\ \A j : m \in LinksOf(j) <=> i = j
        /\ \A j : m \notin AddrsOf(j)
        /\ \A o : m \in Named(o) <=> n = o
    BY LinkMessageAbout, LinkMessageFacts DEF LinksOf, AddrsOf, Named
  <2>2. /\ Change(ms) /\ link' = [link EXCEPT ![i] = n] /\ addr' = addr
        /\ born' = born \cup {i} /\ renamed \subseteq renamed'
        /\ i \in born \cap renamed' \/ i \notin born
        /\ born' \ renamed' \subseteq (born \ renamed) \cup {i}
    BY <1>2, <1>3 DEF NewLink, RenameLink, Existing
  <2>3. /\ link'[i] = n /\ \A j \in Indexes : j # i => link'[j] = link[j]
        /\ \A j \in Existing' : j # i => link'[j] # n
        /\ LinkState(i)' = {m}
    <3>1. link'[i] = n /\ \A j \in Indexes : j # i => link'[j] = link[j]
      BY <1>2, <2>2
    <3>2. i \in Existing'
      BY <3>1, NamesAssumption DEF Existing
    <3> QED
      BY <3>1, <3>2, NamesAssumption DEF Distinct, LinkState, LinkMessage
  <2> HIDE DEF m
  <2>4. /\ ms \in Seq(Messages)
        /\ \A M : None(ms, M) <=> m \notin M
        /\ \A M, G : Ends(ms, M, G) <=> (m \in M => m \in G)
    BY <2>1, SingleFacts
  <2> HIDE DEF ms
  <2>5. \A j \in Indexes : IF None(ms, LinksOf(j)) THEN link'[j] = link[j]
                           ELSE Ends(ms, LinksOf(j), LinkState(j)')
    BY <2>1, <2>3, <2>4
  <2>6. \A j \in Existing' :
              IF None(ms, About(j, {"newlink"})) THEN link'[j] = link[j]
              ELSE Ends(ms, About(j, {"newlink"}), LinkState(j)')
    BY <1>2, <2>1, <2>3, <2>4
  <2>7. \A j \in Existing' :
              IF None(ms, Named(link'[j])) THEN link'[j] = link[j]
              ELSE Ends(ms, Named(link'[j]), LinkState(j)')
    BY <1>2, <2>1, <2>3, <2>4
  <2>8. \A j \in Indexes \ renamed' :
              IF None(ms, AddrsOf(j)) THEN j \in addr' <=> j \in addr
              ELSE Ends(ms, AddrsOf(j), AddrState(j)')
    BY <2>1, <2>2, <2>4
  <2>9. Right' /\ Starting'
    BY <2>2, <2>4, <2>5, <2>6, <2>7, <2>8, KernelView
  <2>10. \A j \in born' \ renamed' :
              \E o \in Names : /\ OneName(j, o) /\ link'[j] \in {NoName, o}
                               /\ None(ms, About(j, {"newlink"}) \ Named(o))
    <3> SUFFICES ASSUME NEW j \in born' \ renamed'
                 PROVE  \E o \in Names : /\ OneName(j, o) /\ link'[j] \in {NoName, o}
                               /\ None(ms, About(j, {"newlink"}) \ Named(o))
      OBVIOUS
    <3>1. CASE j = i
      <4>1. OneName(i, n)
        BY <1>1, <2>2, <3>1 DEF Naming
      <4> QED
        BY <2>1, <2>3, <2>4, <3>1, <4>1
    <3>2. CASE j # i
      <4>1. j \in born \ renamed /\ j \in Indexes
        BY <1>2, <2>2, <3>2
      <4>2. PICK o \in Names : OneName(j, o)
        BY <1>1, <4>1 DEF Naming
      <4>3. link'[j] \in {NoName, o}
        BY <2>3, <3>2, <4>1, <4>2 DEF OneName
      <4> QED
        BY <2>1, <2>4, <3>2, <4>2, <4>3
    <3> QED
      BY <3>1, <3>2
  <2>11. \A j \in Indexes \ born' : /\ j \notin born /\ link'[j] = NoName
                                    /\ None(ms, About(j, {"newlink"}))
    <3>1. \A j \in Indexes \ born' : j # i /\ j \notin born /\ link[j] = NoName
      BY <1>2, <2>2 DEF Existing
    <3> QED
      BY <2>1, <2>3, <2>4, <3>1
  <2>12. Naming'
    BY <1>2, <2>2, <2>4, <2>10, <2>11, KernelNames
  <2> QED
    BY <2>9, <2>12
<1>4. CASE DelLink(i)
  <2>1. PICK ms \in Seq(Messages) :
              /\ Change(ms)
              /\ \A j \in Indexes :
                    /\ None(ms, LinksOf(j)) <=> i # j
                    /\ None(ms, About(j, {"newlink"})) /\ \A n : None(ms, Named(n))
                    /\ None(ms, AddrsOf(j)) <=> i # j \/ i \notin addr
                    /\ Ends(ms, LinksOf(i), About(i, {"dellink"}))
                    /\ Ends(ms, AddrsOf(i), About(i, {"deladdr"}))
    BY <1>4, RemovalFacts
  <2>2. /\ link'[i] = NoName /\ \A j \in Indexes : j # i => link'[j] = link[j]
        /\ addr' = addr \ {i} /\ born' = born /\ renamed' = renamed /\ i \in born
        /\ \A j \in Existing' : j # i
    BY <1>2, <1>4 DEF DelLink, Existing
  <2>3. LinkState(i)' = About(i, {"dellink"}) /\ AddrState(i)' = About(i, {"deladdr"})
    BY <2>2 DEF LinkState, AddrState, About
  <2>4. Right' /\ Starting'
    <3>1. \A j \in Indexes : IF None(ms, LinksOf(j)) THEN link'[j] = link[j]
                             ELSE Ends(ms, LinksOf(j), LinkState(j)')
      BY <2>1, <2>2, <2>3
    <3>2. \A j \in Existing' :
              IF None(ms, About(j, {"newlink"})) THEN link'[j] = link[j]
              ELSE Ends(ms, About(j, {"newlink"}), LinkState(j)')
      BY <1>2, <2>1, <2>2
    <3>3. \A j \in Existing' :
              IF None(ms, Named(link'[j])) THEN link'[j] = link[j]
              ELSE Ends(ms, Named(link'[j]), LinkState(j)')
      BY <1>2, <2>1, <2>2
    <3>4. \A j \in Indexes \ renamed' :
              IF None(ms, AddrsOf(j)) THEN j \in addr' <=> j \in addr
              ELSE Ends(ms, AddrsOf(j), AddrState(j)')
      BY <2>1, <2>2, <2>3
    <3> QED
      BY <2>1, <2>2, <3>1, <3>2, <3>3, <3>4, KernelView
  <2>5. \A j \in born' \ renamed' :
              \E o \in Names : /\ OneName(j, o) /\ link'[j] \in {NoName, o}
                               /\ None(ms, About(j, {"newlink"}) \ Named(o))
    <3> SUFFICES ASSUME NEW j \in born' \ renamed'
                 PROVE  \E o \in Names : /\ OneName(j, o) /\ link'[j] \in {NoName, o}
                               /\ None(ms, About(j, {"newlink"}) \ Named(o))
      OBVIOUS
    <3>1. PICK o \in Names : OneName(j, o)
      BY <1>1, <2>2 DEF Naming
    <3>2. j \in Indexes /\ link'[j] \in {NoName, o}
      BY <1>2, <2>2, <3>1 DEF OneName
    <3>3. None(ms, About(j, {"newlink"}) \ Named(o))
      BY <2>1, <3>2 DEF None
    <3> QED
      BY <3>1, <3>2, <3>3
  <2>6. \A j \in Indexes \ born' : /\ j \notin born /\ link'[j] = NoName
                                   /\ None(ms, About(j, {"newlink"}))
    BY <1>2, <2>1, <2>2 DEF Existing
  <2>7. Naming'
    BY <1>2, <2>1, <2>5, <2>6, KernelNames
  <2> QED
    BY <2>4, <2>7
<1>5. ASSUME NEW op \in {"newaddr", "deladdr"}, Change(<<AddrMessage(op, i)>>),
             UNCHANGED <<link, born, renamed>>,
             addr' = IF op = "newaddr" THEN addr \cup {i} ELSE addr \ {i}
      PROVE  Right' /\ Starting' /\ Naming'
  <2> DEFINE m == AddrMessage(op, i)
             ms == <<m>>
  <2>1. /\ m \in Messages /\ m \in About(i, {op})
        /\ \A j : m \in AddrsOf(j) <=> i = j
        /\ \A j : m \notin LinksOf(j) /\ m \notin About(j, {"newlink"})
        /\ \A o : m \notin Named(o)
    BY AddrMessageAbout, AddrMessageFacts DEF LinksOf, AddrsOf, Named
  <2>2. Change(ms)
    BY <1>5
  <2>3. AddrState(i)' = About(i, {op})
    BY <1>5 DEF AddrState, About
  <2> HIDE DEF m
  <2>4. /\ ms \in Seq(Messages)
        /\ \A M : None(ms, M) <=> m \notin M
        /\ \A M, G : Ends(ms, M, G) <=> (m \in M => m \in G)
    BY <2>1, SingleFacts
  <2> HIDE DEF ms
  <2>5. Right' /\ Starting'
    <3>1. \A j \in Indexes : None(ms, LinksOf(j)) /\ link'[j] = link[j]
      BY <1>5, <2>1, <2>4
    <3>2. \A j \in Existing' : None(ms, About(j, {"newlink"})) /\ None(ms, Named(link'[j]))
      BY <2>1, <2>4
    <3>3. \A j \in Indexes \ renamed' :
              IF None(ms, AddrsOf(j)) THEN j \in addr' <=> j \in addr
              ELSE Ends(ms, AddrsOf(j), AddrState(j)')
      BY <1>5, <2>1, <2>3, <2>4
    <3>4. \A j \in Existing' : link'[j] = link[j]
      BY <1>5
    <3>5. renamed \subseteq renamed'
      BY <1>5
    <3> QED
      BY <2>2, <2>4, <3>1, <3>2, <3>3, <3>4, <3>5, KernelView
  <2>6. \A j \in born' \ renamed' :
              \E o \in Names : /\ OneName(j, o) /\ link'[j] \in {NoName, o}
                               /\ None(ms, About(j, {"newlink"}) \ Named(o))
    <3> SUFFICES ASSUME NEW j \in born' \ renamed'
                 PROVE  \E o \in Names : /\ OneName(j, o) /\ link'[j] \in {NoName, o}
                               /\ None(ms, About(j, {"newlink"}) \ Named(o))
      OBVIOUS
    <3>1. PICK o \in Names : OneName(j, o)
      BY <1>1, <1>5 DEF Naming
    <3>2. link'[j] \in {NoName, o}
      BY <1>5, <3>1 DEF OneName
    <3>3. None(ms, About(j, {"newlink"}) \ Named(o))
      BY <2>1, <2>4
    <3> QED
      BY <3>1, <3>2, <3>3
  <2>7. \A j \in Indexes \ born' : /\ j \notin born /\ link'[j] = NoName
                                   /\ None(ms, About(j, {"newlink"}))
    <3>1. \A j \in Indexes \ born' : j \notin born /\ link'[j] = NoName
      BY <1>2, <1>5 DEF Existing
    <3> QED
      BY <2>1, <2>4, <3>1
  <2>8. Naming'
    BY <1>2, <2>2, <2>4, <2>6, <2>7, KernelNames
  <2> QED
    BY <2>5, <2>8
<1>6. CASE NewAddr(i)
  BY <1>5, <1>6 DEF NewAddr
<1>7. CASE DelAddr(i)
  BY <1>5, <1>7 DEF DelAddr
<1> QED
  BY <1>3, <1>4, <1>6, <1>7

(* The thread takes a message, and puts the names of an interface in the maps. *)
LEMMA ReceiveView ==
    ASSUME Types, NamingInv, InOrder, Starting, Right, Naming, ~raced, Receive
    PROVE  Starting' /\ Right' /\ Naming'
<1> DEFINE m == Head(socket)
           e == EventOf(m)
<1>1. /\ socket \in Seq(Messages) /\ socket # <<>> /\ socket' = Tail(socket)
      /\ m \in Messages /\ (IsLink(m) \/ Known(m)) /\ ReceiveMessage(m)
      /\ Held = {} /\ Held' = {e} /\ tpc' = "publishing" /\ tpc = "polling"
      /\ UNCHANGED <<link, addr, born, mpc, dump, mevent, viewLink, viewAddr, renamed>>
  BY ReceiveFacts
<1>2. /\ e \in Events
      /\ \A i, ops : e \in About(i, ops) <=> m \in About(i, ops)
      /\ e.index = m.index
      /\ ~IsLink(m) => e.name = interfaceMap[m.index]
  BY <1>1, EventAbout DEF Types, EventOf
<1>3. /\ \A i, ops : m \in About(i, ops) <=> m.op \in ops /\ m.index = i
      /\ \A n : m \in Named(n) <=> m.op = "newlink" /\ m.name = n
      /\ m.op = "newlink" => /\ m.name \in Names
                             /\ \A i, n : LinkMessage("newlink", i, n) = m => i = m.index /\ n = m.name
      /\ m.index \in Indexes
      /\ m.op \in {"newaddr", "deladdr"} => ~IsLink(m)
  BY <1>1, MessageFacts DEF About, Named, IsLink, LinkMessage
<1>4. /\ \A i \in Indexes : interfaceMap'[i] = IF m.op = "newlink" /\ i = m.index
                                               THEN m.name ELSE interfaceMap[i]
      /\ \A n \in Names : interfaceNameMap'[n] = IF m.op = "newlink" /\ n = m.name
                                                 THEN m.index ELSE interfaceNameMap[n]
  BY <1>1, <1>3 DEF ReceiveMessage, MapLink, maps, Types, TypeOK
<1>5. mpc = "running"
  BY <1>1 DEF NamingInv, Quiet
<1>6. /\ \A i : /\ LinkState(i)' = LinkState(i) /\ AddrState(i)' = AddrState(i)
                /\ LinkAwaited(i)' = LinkAwaited(i) /\ MapAwaited(i)' = MapAwaited(i)
                /\ AddrAwaited(i)' = AddrAwaited(i) /\ Seen(i)' = Seen(i)
      /\ Existing' = Existing
      /\ \A i \in Existing : i \in Indexes /\ link[i] \in Names
  BY <1>1 DEF LinkState, AddrState, LinkAwaited, MapAwaited, AddrAwaited, Seen, About, Existing,
              Types, TypeOK
<1>7. Starting'
  BY <1>1, <1>5 DEF Starting
<1> HIDE DEF m, e
<1>8. ASSUME NEW i \in Indexes PROVE ViewRight(i)'
  <2>1. Told(socket, {}, LinksOf(i), LinkState(i), ViewShown(i))
    BY <1>1 DEF Right, ViewRight
  <2>2. m \in LinksOf(i) \cap LinkState(i) => e \in LinkState(i)
    <3>1. m.op = "newlink" => e = m
      BY <1>1, <1>3 DEF EventOf, e, IsLink, Messages
    <3>2. \A n : LinkMessage("newlink", i, n).op = "newlink"
      BY DEF LinkMessage
    <3> QED
      BY <1>2, <3>1, <3>2 DEF LinkState
  <2>3. ViewShown(i)' = ViewShown(i)
    BY <1>1, <1>6 DEF ViewShown
  <2>4. Told(Tail(socket), {e}, LinksOf(i), LinkState(i), ViewShown(i))
    BY <1>1, <1>2, <2>1, <2>2, ToldHeld DEF LinksOf, m, ViewShown
  <2> QED
    BY <1>1, <1>6, <2>3, <2>4 DEF ViewRight, LinksOf, About
<1>9. ASSUME NEW i \in Existing PROVE MapRight(i)'
  <2>1. /\ Told(socket, {}, About(i, {"newlink"}), LinkState(i), MapShown(i))
        /\ LinkState(i) = {LinkMessage("newlink", i, link[i])}
    BY <1>1, <1>9 DEF Right, MapRight, LinkState, Existing
  <2>2. /\ m \in About(i, {"newlink"}) \cap LinkState(i) => MapShown(i)'
        /\ m \notin About(i, {"newlink"}) /\ MapShown(i) => MapShown(i)'
    BY <1>1, <1>3, <1>4, <1>6, <1>9, <2>1 DEF MapShown
  <2>3. Told(Tail(socket), {}, About(i, {"newlink"}), LinkState(i), MapShown(i)')
    BY <1>1, <2>1, <2>2, ToldHandled DEF m, MapShown
  <2> QED
    BY <1>1, <1>6, <2>3 DEF MapRight, About
<1>10. ASSUME NEW i \in Existing PROVE NameRight(i)'
  <2>1. /\ Told(socket, {}, Named(link[i]), LinkState(i), NameShown(i))
        /\ LinkState(i) = {LinkMessage("newlink", i, link[i])}
    BY <1>1, <1>10 DEF Right, NameRight, LinkState, Existing
  <2>2. /\ m \in Named(link[i]) \cap LinkState(i) => NameShown(i)'
        /\ m \notin Named(link[i]) /\ NameShown(i) => NameShown(i)'
    BY <1>1, <1>3, <1>4, <1>6, <1>10, <2>1 DEF NameShown
  <2>3. Told(Tail(socket), {}, Named(link[i]), LinkState(i), NameShown(i)')
    BY <1>1, <2>1, <2>2, ToldHandled DEF m, NameShown
  <2> QED
    BY <1>1, <1>6, <2>3 DEF NameRight, Named
<1>11. ASSUME NEW i \in Indexes \ renamed PROVE AddrRight(i)'
  <2>1. Told(socket, {}, AddrsOf(i), AddrState(i), AddrShown(i))
    BY <1>1, <1>11 DEF Right, AddrRight
  <2>2. AddrShown(i)' = AddrShown(i) /\ (m \in AddrState(i) => e \in AddrState(i))
    BY <1>1, <1>2, <1>6 DEF AddrShown, AddrState
  <2>3. Told(Tail(socket), {e}, AddrsOf(i), AddrState(i), AddrShown(i))
    BY <1>1, <1>2, <2>1, <2>2, ToldHeld DEF AddrsOf, m, AddrShown
  <2> QED
    BY <1>1, <1>6, <2>2, <2>3 DEF AddrRight, AddrsOf, About
<1>12. ASSUME NEW i \in Indexes, NEW n \in Names, OneName(i, n) PROVE OneName(i, n)'
  <2> DEFINE Others == About(i, {"newlink"}) \ Named(n)
  <2>1. m \notin Others /\ None(Tail(socket), Others)
    <3>1. None(socket, Others)
      BY <1>12 DEF OneName
    <3>2. /\ Head(socket) = socket[1] /\ 1 \in 1..Len(socket)
          /\ \A k \in 1..Len(Tail(socket)) : k + 1 \in 1..Len(socket) /\ Tail(socket)[k] = socket[k + 1]
      BY <1>1, TailIndices
    <3> HIDE DEF Others
    <3> QED
      BY <3>1, <3>2 DEF None, m
  <2>2. interfaceMap'[i] \in {NoName, n}
    BY <1>3, <1>4, <1>12, <2>1 DEF OneName
  <2>3. e \in AddrsOf(i) => e.name = n
    <3>1. e \in AddrsOf(i) => m.index = i /\ ~IsLink(m)
      BY <1>2, <1>3 DEF AddrsOf
    <3>2. interfaceMap[i] \in {NoName, n}
      BY <1>12 DEF OneName
    <3>3. ~IsLink(m) => interfaceMap[m.index] # NoName
      BY <1>1 DEF Known
    <3> QED
      BY <1>2, <3>1, <3>2, <3>3
  <2>4. None(socket', Others)
    BY <1>1, <2>1
  <2> QED
    BY <1>1, <1>5, <1>6, <1>12, <2>2, <2>3, <2>4 DEF OneName, AddrsOf, About, Named
<1>13. Naming'
  <2>1. ASSUME NEW i \in born \ renamed PROVE \E n \in Names : OneName(i, n)'
    BY <1>12, <2>1 DEF Naming, Types, TypeOK
  <2>2. ASSUME NEW i \in Indexes \ born, NEW n \in Names PROVE OneName(i, n)'
    BY <1>12, <2>2 DEF Naming
  <2> QED
    BY <1>1, <2>1, <2>2 DEF Naming
<1>14. Right'
  BY <1>1, <1>6, <1>8, <1>9, <1>10, <1>11 DEF Right
<1> QED
  BY <1>7, <1>13, <1>14

(* The thread publishes what it took. *)
LEMMA PublishView ==
    ASSUME Types, NamingInv, InOrder, Starting, Right, Naming, ~raced, PublishReceived
    PROVE  Starting' /\ Right' /\ Naming'
<1>1. /\ tevent \in Events /\ Learn(tevent) /\ Held = {tevent} /\ Held' = {}
      /\ tpc' = "polling"
      /\ UNCHANGED <<link, addr, born, socket, mpc, dump, mevent, interfaceMap, interfaceNameMap,
                     renamed>>
      /\ viewLink \in [Indexes -> Names \cup {NoName}]
      /\ viewAddr \subseteq Indexes \X Names
  BY DEF PublishReceived, Types, TypeOK, Publishing, Held, kernel, maps, history
<1>2. mpc = "running" /\ tevent.name \in Names /\ born \subseteq Indexes
  BY <1>1 DEF PublishReceived, Starting, Events, Types, TypeOK
<1>3. Starting'
  BY <1>1, <1>2 DEF Starting
<1>4. /\ \A i : /\ LinkState(i)' = LinkState(i) /\ AddrState(i)' = AddrState(i)
                /\ LinkAwaited(i)' = LinkAwaited(i) /\ MapAwaited(i)' = MapAwaited(i)
                /\ AddrAwaited(i)' = AddrAwaited(i)
      /\ Existing' = Existing
  BY <1>1 DEF LinkState, AddrState, LinkAwaited, MapAwaited, AddrAwaited, About, Existing
<1>5. ASSUME NEW i \in Indexes
      PROVE  /\ tevent \in About(i, {"newlink"}) => viewLink'[i] = tevent.name /\ viewLink'[i] # NoName
             /\ tevent \in About(i, {"dellink"}) => viewLink'[i] = NoName
             /\ tevent \notin LinksOf(i) => viewLink'[i] = viewLink[i]
             /\ tevent \in About(i, {"newaddr"}) => Seen(i)' = Seen(i) \cup {<<i, tevent.name>>}
             /\ tevent \in About(i, {"deladdr"}) => Seen(i)' = Seen(i) \ {<<i, tevent.name>>}
             /\ tevent \notin AddrsOf(i) => Seen(i)' = Seen(i)
  BY <1>1, <1>5, LearnAbout
<1>6. ASSUME NEW i \in Indexes PROVE ViewRight(i)'
  <2>1. Told(socket, {tevent}, LinksOf(i), LinkState(i), ViewShown(i))
    BY <1>1, <1>6 DEF Right, ViewRight
  <2>2. tevent \in LinksOf(i) \cap LinkState(i) => viewLink'[i] = link[i]
    <3>1. CASE link[i] = NoName
      BY <1>5, <3>1 DEF LinkState
    <3>2. CASE link[i] # NoName /\ tevent = LinkMessage("newlink", i, link[i])
      <4>1. tevent.op = "newlink" /\ tevent.index = i /\ tevent.name = link[i]
        BY <3>2 DEF LinkMessage
      <4>2. tevent \in About(i, {"newlink"})
        BY <1>1, <4>1 DEF About
      <4> QED
        BY <1>5, <4>1, <4>2
    <3> QED
      BY <3>1, <3>2 DEF LinkState
  <2>3. tevent \notin LinksOf(i) => ViewShown(i)' = ViewShown(i)
    BY <1>1, <1>4, <1>5 DEF ViewShown
  <2>4. Told(socket, {}, LinksOf(i), LinkState(i), ViewShown(i)')
    BY <1>1, <2>1, <2>2, <2>3, ToldPublished DEF ViewShown
  <2> QED
    BY <1>1, <1>4, <2>4 DEF ViewRight, LinksOf, About
<1>7. ASSUME NEW i \in Existing PROVE MapRight(i)' /\ NameRight(i)'
  BY <1>1, <1>4, <1>7 DEF Right, MapRight, NameRight, MapShown, NameShown, About, Named
<1>8. \A i \in Indexes \ renamed : \E n \in Names : OneName(i, n)
  BY <1>2 DEF Naming
<1>9. ASSUME NEW i \in Indexes \ renamed PROVE AddrRight(i)'
  <2>1. Told(socket, {tevent}, AddrsOf(i), AddrState(i), AddrShown(i))
    BY <1>1, <1>9 DEF Right, AddrRight
  <2>2. PICK n \in Names : OneName(i, n)
    BY <1>8
  <2>3. tevent \in AddrsOf(i) => tevent.name = n /\ Seen(i) \subseteq {<<i, n>>}
    BY <1>1, <2>2 DEF OneName
  <2>4. tevent \in AddrsOf(i) \cap AddrState(i) => AddrShown(i)'
    BY <1>1, <1>5, <2>3 DEF AddrShown, AddrState
  <2>5. tevent \notin AddrsOf(i) => AddrShown(i)' = AddrShown(i)
    BY <1>1, <1>4, <1>5 DEF AddrShown
  <2>6. Told(socket, {}, AddrsOf(i), AddrState(i), AddrShown(i)')
    BY <1>1, <2>1, <2>4, <2>5, ToldPublished DEF AddrShown
  <2> QED
    BY <1>1, <1>4, <2>6 DEF AddrRight, AddrsOf, About
<1>10. ASSUME NEW i \in Indexes, NEW n \in Names, OneName(i, n) PROVE OneName(i, n)'
  <2>1. tevent \in AddrsOf(i) => tevent.name = n
    BY <1>1, <1>10 DEF OneName
  <2>2. Seen(i)' \subseteq {<<i, n>>}
    <3>1. Seen(i) \subseteq {<<i, n>>}
      BY <1>10 DEF OneName
    <3>2. tevent \in AddrsOf(i) => tevent \in About(i, {"newaddr"}) \/ tevent \in About(i, {"deladdr"})
      BY DEF AddrsOf, About
    <3> QED
      BY <1>5, <2>1, <3>1, <3>2
  <2> QED
    BY <1>1, <1>2, <1>10, <2>2 DEF OneName, About, Named, AddrsOf
<1>11. Naming'
  BY <1>1, <1>2, <1>10 DEF Naming
<1> QED
  BY <1>1, <1>3, <1>4, <1>6, <1>7, <1>9, <1>11 DEF Right

LEMMA ThreadStepView ==
    Types /\ NamingInv /\ InOrder /\ ViewInv /\ ThreadStep => ViewInv'
<1> SUFFICES ASSUME Types, NamingInv, InOrder, ViewInv, ThreadStep, ~raced'
             PROVE  Starting' /\ Right' /\ Naming'
  BY DEF ViewInv
<1>1. ~raced /\ Starting /\ Right /\ Naming
  BY DEF ThreadStep, Bind, Receive, ReceiveUnknown, PublishReceived, history, ViewInv
<1>2. CASE Bind
  <2>1. /\ Held' = Held /\ tpc = "binding" /\ tpc' = "polling"
        /\ UNCHANGED <<link, addr, born, socket, mpc, dump, mevent, interfaceMap,
                       interfaceNameMap, viewLink, viewAddr, renamed, tevent>>
    BY <1>2 DEF Bind, Held, kernel, maps, view, history
  <2>2. /\ \A i : /\ LinkState(i)' = LinkState(i) /\ AddrState(i)' = AddrState(i)
                  /\ LinkAwaited(i)' = LinkAwaited(i) /\ MapAwaited(i)' = MapAwaited(i)
                  /\ AddrAwaited(i)' = AddrAwaited(i) /\ Seen(i)' = Seen(i)
        /\ Existing' = Existing
    BY <2>1 DEF LinkState, AddrState, LinkAwaited, MapAwaited, AddrAwaited, About, Existing, Seen
  <2>3. \A i : /\ ViewRight(i)' = ViewRight(i) /\ MapRight(i)' = MapRight(i)
               /\ NameRight(i)' = NameRight(i) /\ AddrRight(i)' = AddrRight(i)
    BY <2>1, <2>2 DEF ViewRight, MapRight, NameRight, AddrRight, ViewShown, MapShown,
                      NameShown, AddrShown, LinksOf, AddrsOf, About, Named
  <2>4. Right' /\ Starting'
    BY <1>1, <2>1, <2>2, <2>3 DEF Right, Starting
  <2>5. \A i, n : OneName(i, n)' = OneName(i, n)
    BY <2>1, <2>2 DEF OneName, About, AddrsOf, Named
  <2> QED
    BY <1>1, <2>1, <2>4, <2>5 DEF Naming
<1>3. CASE Receive
  BY <1>1, <1>3, ReceiveView
<1>4. CASE ReceiveUnknown
  <2>1. tpc' = "dead" /\ NamingInv'
    BY <1>4, ThreadStepNaming DEF ReceiveUnknown, ThreadStep
  <2> QED
    BY <2>1 DEF NamingInv, Quiet
<1>5. CASE PublishReceived
  BY <1>1, <1>5, PublishView
<1> QED
  BY <1>2, <1>3, <1>4, <1>5 DEF ThreadStep

(* start() is at work: nothing is under way but what it publishes itself. *)
LEMMA StartView ==
    ASSUME Starting, Right, NamingInv, InOrder, ~raced, mpc # "running"
    PROVE  /\ socket = <<>> /\ Held = {} /\ tpc \notin {"publishing", "dead"}
           /\ \A i \in Indexes : ViewShown(i)
           /\ \A i \in Existing : MapShown(i) /\ NameShown(i)
           /\ \A i \in Indexes \ renamed : AddrShown(i)
<1>1. socket = <<>> /\ Held = {} /\ tpc \notin {"publishing", "dead"}
  BY DEF NamingInv, Quiet, Starting, Held
<1>2. ASSUME NEW i \in Indexes PROVE ViewShown(i)
  <2>1. Told(<<>>, {}, LinksOf(i), LinkState(i), ViewShown(i))
    BY <1>1, <1>2 DEF Right, ViewRight
  <2> QED
    BY <2>1, ToldEmpty DEF ViewShown
<1>3. ASSUME NEW i \in Existing PROVE MapShown(i)
  <2>1. Told(<<>>, {}, About(i, {"newlink"}), LinkState(i), MapShown(i))
    BY <1>1, <1>3 DEF Right, MapRight
  <2> QED
    BY <2>1, ToldEmpty DEF MapShown
<1>4. ASSUME NEW i \in Existing PROVE NameShown(i)
  <2>1. Told(<<>>, {}, Named(link[i]), LinkState(i), NameShown(i))
    BY <1>1, <1>4 DEF Right, NameRight
  <2> QED
    BY <2>1, ToldEmpty DEF NameShown
<1>5. ASSUME NEW i \in Indexes \ renamed PROVE AddrShown(i)
  <2>1. Told(<<>>, {}, AddrsOf(i), AddrState(i), AddrShown(i))
    BY <1>1, <1>5 DEF Right, AddrRight
  <2> QED
    BY <2>1, ToldEmpty DEF AddrShown
<1> QED
  BY <1>1, <1>2, <1>3, <1>4, <1>5

LEMMA MainStepView ==
    Types /\ Types' /\ NamingInv /\ NamingInv' /\ InOrder /\ InOrder' /\ Distinct
        /\ ViewInv /\ MainStep => ViewInv'
<1> SUFFICES ASSUME Types, Types', NamingInv, NamingInv', InOrder, InOrder', Distinct,
                    ViewInv, MainStep, ~raced'
             PROVE  Starting' /\ Right' /\ Naming'
  BY DEF ViewInv
<1>1. /\ ~raced /\ mpc # "running"
      /\ UNCHANGED <<link, addr, born, socket, tevent, renamed>>
      /\ tpc' \in {tpc, "binding"}
  BY DEF MainStep, StartThread, DumpLinks, MapDumped, PublishDumped, DumpAddrs, NameDumped,
         StartRaises, Started, kernel, history
<1>2. Starting /\ Right /\ Naming
  BY <1>1 DEF ViewInv
<1>3. /\ socket = <<>> /\ Held = {} /\ tpc \notin {"publishing", "dead"}
      /\ \A i \in Indexes : ViewShown(i)
      /\ \A i \in Existing : MapShown(i) /\ NameShown(i)
      /\ \A i \in Indexes \ renamed : AddrShown(i)
  BY <1>1, <1>2, StartView
<1>4. socket' = <<>> /\ Held' = {} /\ Existing' = Existing /\ tpc' # "publishing"
  BY <1>1, <1>3 DEF Held, Existing
<1>5. /\ Existing \subseteq Indexes /\ \A i \in Existing : link[i] \in Names
      /\ born \subseteq Indexes /\ addr \subseteq Existing
      /\ interfaceMap \in [Indexes -> Names \cup {NoName}]
      /\ interfaceNameMap \in [Names -> Indexes \cup {NoIndex}]
      /\ viewLink \in [Indexes -> Names \cup {NoName}]
      /\ viewAddr \subseteq Indexes \X Names
      /\ dump \subseteq Messages
  BY DEF Existing, Types, TypeOK
<1> DEFINE Shown == /\ \A i \in Indexes : ViewShown(i)
                    /\ \A i \in Existing : MapShown(i) /\ NameShown(i)
                    /\ \A i \in Indexes \ renamed : AddrShown(i)
           Kept == \A i \in Indexes, n \in Names : OneName(i, n) => OneName(i, n)'
<1>6. SUFFICES Starting' /\ Shown' /\ Kept
  <2>1. ASSUME Shown' PROVE Right'
    <3>1. \A M, G : Told(<<>>, {}, M, G, TRUE)
      BY ToldEmpty
    <3>2. /\ \A i \in Indexes : ViewShown(i)'
          /\ \A i \in Existing : MapShown(i)' /\ NameShown(i)'
          /\ \A i \in Indexes \ renamed : AddrShown(i)'
      BY <1>1, <1>4, <2>1
    <3>3. \A i \in Indexes : ViewRight(i)'
      BY <1>4, <3>1, <3>2 DEF ViewRight
    <3>4. \A i \in Existing : MapRight(i)' /\ NameRight(i)'
      BY <1>4, <3>1, <3>2 DEF MapRight, NameRight
    <3>5. \A i \in Indexes \ renamed : AddrRight(i)'
      BY <1>4, <3>1, <3>2 DEF AddrRight
    <3> QED
      BY <1>1, <1>4, <3>3, <3>4, <3>5 DEF Right
  <2>2. ASSUME Kept PROVE Naming'
    BY <1>1, <1>2, <1>5, <2>2 DEF Naming
  <2> QED
    BY <2>1, <2>2
<1> USE DEF maps, view
<1>7. CASE StartThread
  <2>1. /\ mpc = "off" /\ mpc' = "begin"
        /\ UNCHANGED <<dump, mevent, interfaceMap, interfaceNameMap, viewLink, viewAddr>>
    BY <1>7 DEF StartThread
  <2>2. Starting'
    BY <1>1, <1>2, <1>4, <2>1 DEF Starting
  <2>3. Shown'
    BY <1>1, <1>3, <1>4, <2>1
       DEF ViewShown, MapShown, NameShown, AddrShown, LinkAwaited, MapAwaited, AddrAwaited, Seen
  <2>4. Kept
    BY <1>1, <1>3, <1>4, <2>1 DEF OneName, Seen, About, Named, AddrsOf
  <2> QED
    BY <2>2, <2>3, <2>4
<1>8. CASE DumpLinks
  <2>1. /\ mpc = "begin" /\ mpc' = "links"
        /\ dump' = {LinkMessage("newlink", i, link[i]) : i \in Existing}
        /\ UNCHANGED <<mevent, interfaceMap, interfaceNameMap, viewLink, viewAddr>>
    BY <1>8 DEF DumpLinks, Existing
  <2>2. \A m \in dump' : m.name = link[m.index]
    BY <2>1 DEF LinkMessage
  <2>3. Starting'
    BY <1>1, <1>4, <2>1, <2>2 DEF Starting
  <2>4. ASSUME NEW i \in Existing PROVE LinkAwaited(i)' /\ MapAwaited(i)'
    <3>1. LinkMessage("newlink", i, link[i]) \in dump'
      BY <2>1, <2>4
    <3>2. LinkMessage("newlink", i, link[i]).index = i
      BY DEF LinkMessage
    <3> QED
      BY <2>1, <3>1, <3>2 DEF LinkAwaited, MapAwaited
  <2>5. Shown'
    <3>1. \A i \in Indexes : i \notin Existing => viewLink[i] = link[i]
      BY <1>3, <2>1 DEF ViewShown, Existing
    <3>2. \A i \in Indexes : ViewShown(i)'
      BY <1>1, <1>5, <2>1, <2>4, <3>1 DEF ViewShown, Existing
    <3>3. \A i \in Existing : MapShown(i)' /\ NameShown(i)'
      BY <2>4 DEF MapShown, NameShown
    <3>4. \A i \in Indexes \ renamed : AddrShown(i)'
      BY <1>1, <1>3, <2>1 DEF AddrShown, AddrAwaited, Seen
    <3> QED
      BY <1>1, <1>4, <3>2, <3>3, <3>4
  <2>6. Kept
    BY <1>1, <1>3, <1>4, <2>1 DEF OneName, Seen, About, Named, AddrsOf
  <2> QED
    BY <2>3, <2>5, <2>6
<1>9. CASE MapDumped
  <2>1. PICK m \in dump : mevent' = EventOf(m) /\ MapLink(m) /\ dump' = dump \ {m}
    BY <1>9 DEF MapDumped
  <2>2. /\ mpc = "links" /\ mpc' = "linkevent" /\ UNCHANGED <<viewLink, viewAddr>>
        /\ m \in Messages /\ m.op = "newlink" /\ IsLink(m)
    BY <1>9 DEF MapDumped, Types, TypeOK, Dumping, IsLink
  <2>3. /\ m.index \in Indexes /\ m.name \in Names /\ m.name = link[m.index]
        /\ mevent'.index = m.index /\ mevent'.name = m.name
    BY <1>2, <2>1, <2>2, MessageFacts DEF Starting, EventOf
  <2>4. m.index \in Existing
    BY <2>3, NamesAssumption DEF Existing
  <2>5. /\ \A i \in Indexes : interfaceMap'[i] = IF i = m.index THEN m.name ELSE interfaceMap[i]
        /\ \A n \in Names : interfaceNameMap'[n] = IF n = m.name THEN m.index ELSE interfaceNameMap[n]
    BY <1>5, <2>1, <2>3 DEF MapLink
  <2>6. Starting'
    <3>1. \A d \in dump : d.name = link[d.index]
      BY <1>2, <2>2 DEF Starting
    <3> QED
      BY <1>1, <1>4, <2>1, <2>2, <2>3, <3>1 DEF Starting
  <2>7. \A i \in Existing : LinkAwaited(i) => LinkAwaited(i)'
    BY <2>1, <2>2, <2>3 DEF LinkAwaited
  <2>8. \A i \in Existing : i # m.index => (MapAwaited(i) => MapAwaited(i)')
    BY <2>1, <2>2 DEF MapAwaited
  <2>9. \A i \in Existing : i # m.index => link[i] # m.name
    BY <2>3, <2>4 DEF Distinct
  <2>10. Shown'
    <3>1. \A i \in Indexes : ViewShown(i)'
      BY <1>1, <1>3, <2>2, <2>7 DEF ViewShown, Existing
    <3>2. \A i \in Existing : MapShown(i)' /\ NameShown(i)'
      BY <1>1, <1>3, <1>5, <2>3, <2>5, <2>8, <2>9 DEF MapShown, NameShown
    <3>3. \A i \in Indexes \ renamed : AddrShown(i)'
      BY <1>1, <1>3, <2>2 DEF AddrShown, AddrAwaited, Seen
    <3> QED
      BY <1>1, <1>4, <3>1, <3>2, <3>3
  <2>11. Kept
    <3>1. ASSUME NEW i \in Indexes, NEW n \in Names, OneName(i, n)
          PROVE  interfaceMap'[i] \in {NoName, n}
      BY <2>3, <2>5, <3>1, NamesAssumption DEF OneName
    <3> QED
      BY <1>1, <1>3, <1>4, <2>2, <3>1 DEF OneName, Seen, About, Named, AddrsOf
  <2> QED
    BY <2>6, <2>10, <2>11
<1>10. CASE PublishDumped
  <2>1. /\ mevent \in Events /\ Learn(mevent)
        /\ UNCHANGED <<dump, mevent, interfaceMap, interfaceNameMap>>
        /\ \/ mpc = "linkevent" /\ mpc' = "links" /\ mevent.op = "newlink"
           \/ mpc = "addrevent" /\ mpc' = "addrs" /\ mevent.op = "newaddr"
    BY <1>10 DEF PublishDumped, Types, Publishing, InOrder
  <2>2. \A i, ops : mevent \in About(i, ops) <=> mevent.op \in ops /\ mevent.index = i
    BY <2>1 DEF About
  <2>3. \A i \in Indexes :
           /\ mevent \in About(i, {"newlink"}) => viewLink'[i] = mevent.name /\ viewLink'[i] # NoName
           /\ mevent \notin LinksOf(i) => viewLink'[i] = viewLink[i]
           /\ mevent \in About(i, {"newaddr"}) => Seen(i)' = Seen(i) \cup {<<i, mevent.name>>}
           /\ mevent \notin AddrsOf(i) => Seen(i)' = Seen(i)
    BY <1>5, <2>1, LearnAbout
  <2>4. Starting'
    BY <1>1, <1>2, <1>4, <2>1 DEF Starting
  <2>5. \A i \in Existing : MapShown(i)' /\ NameShown(i)'
    BY <1>1, <1>3, <2>1 DEF MapShown, NameShown, MapAwaited
  <2>6. CASE mpc = "linkevent"
    <3>1. /\ mpc' = "links" /\ mevent.name = link[mevent.index]
          /\ \A i \in Indexes : viewLink'[i] = IF mevent.index = i THEN mevent.name ELSE viewLink[i]
          /\ \A i \in Indexes : Seen(i)' = Seen(i)
      BY <1>2, <2>1, <2>2, <2>3, <2>6 DEF Starting, LinksOf, AddrsOf
    <3>2. \A i \in Indexes : ViewShown(i)'
      BY <1>1, <1>3, <2>1, <2>6, <3>1 DEF ViewShown, LinkAwaited
    <3>3. \A i \in Indexes \ renamed : AddrShown(i)'
      BY <1>1, <1>3, <2>6, <3>1 DEF AddrShown, AddrAwaited
    <3>4. Kept
      BY <1>1, <1>3, <1>4, <2>1, <2>6, <3>1 DEF OneName, About, Named, AddrsOf
    <3> QED
      BY <1>1, <1>4, <2>4, <2>5, <3>2, <3>3, <3>4
  <2>7. CASE mpc = "addrevent"
    <3>1. /\ mpc' = "addrs" /\ mevent.index \in addr
          /\ \A i \in Indexes : viewLink'[i] = viewLink[i]
          /\ \A i \in Indexes : Seen(i)' = IF mevent.index = i THEN Seen(i) \cup {<<i, mevent.name>>}
                                           ELSE Seen(i)
      BY <1>2, <2>1, <2>2, <2>3, <2>7 DEF Starting, LinksOf, AddrsOf
    <3>2. \A i \in Indexes : ViewShown(i)'
      BY <1>1, <1>3, <2>1, <2>7, <3>1 DEF ViewShown, LinkAwaited
    <3>3. \A i \in Indexes \ renamed : AddrShown(i)'
      BY <1>1, <1>3, <2>1, <2>7, <3>1 DEF AddrShown, AddrAwaited
    <3>4. Kept
      <4>1. ASSUME NEW i \in Indexes, NEW n \in Names, OneName(i, n)
            PROVE  Seen(i)' \subseteq {<<i, n>>}
        <5>1. Seen(i) \subseteq {<<i, n>>} /\ (mevent.index = i => mevent.name = n)
          BY <2>7, <4>1 DEF OneName
        <5> QED
          BY <3>1, <5>1
      <4> QED
        BY <1>1, <1>3, <1>4, <2>1, <2>7, <3>1, <4>1 DEF OneName, About, Named, AddrsOf
    <3> QED
      BY <1>1, <1>4, <2>4, <2>5, <3>2, <3>3, <3>4
  <2> QED
    BY <2>1, <2>6, <2>7
<1>11. CASE DumpAddrs
  <2>1. /\ mpc = "links" /\ dump = {} /\ mpc' = "addrs"
        /\ dump' = {AddrMessage("newaddr", i) : i \in addr}
        /\ UNCHANGED <<mevent, interfaceMap, interfaceNameMap, viewLink, viewAddr>>
    BY <1>11 DEF DumpAddrs
  <2>2. \A m \in dump' : m.index \in addr
    BY <2>1 DEF AddrMessage
  <2>3. Starting'
    BY <1>1, <1>4, <2>1, <2>2 DEF Starting
  <2>4. ASSUME NEW i \in addr PROVE AddrAwaited(i)'
    <3>1. AddrMessage("newaddr", i) \in dump'
      BY <2>1, <2>4
    <3>2. AddrMessage("newaddr", i).index = i
      BY DEF AddrMessage
    <3> QED
      BY <2>1, <3>1, <3>2 DEF AddrAwaited
  <2>5. Shown'
    <3>1. \A i \in Indexes : ViewShown(i)'
      BY <1>1, <1>3, <2>1 DEF ViewShown, LinkAwaited
    <3>2. \A i \in Existing : MapShown(i)' /\ NameShown(i)'
      BY <1>1, <1>3, <2>1 DEF MapShown, NameShown, MapAwaited
    <3>3. \A i \in Indexes \ renamed : AddrShown(i)'
      BY <1>1, <1>3, <2>1, <2>4 DEF AddrShown, Seen
    <3> QED
      BY <1>1, <1>4, <3>1, <3>2, <3>3
  <2>6. Kept
    BY <1>1, <1>3, <1>4, <2>1 DEF OneName, Seen, About, Named, AddrsOf
  <2> QED
    BY <2>3, <2>5, <2>6
<1>12. CASE NameDumped
  <2>1. PICK m \in dump : Known(m) /\ mevent' = EventOf(m) /\ dump' = dump \ {m}
    BY <1>12 DEF NameDumped
  <2>2. /\ mpc = "addrs" /\ mpc' = "addrevent"
        /\ UNCHANGED <<interfaceMap, interfaceNameMap, viewLink, viewAddr>>
        /\ m \in Messages /\ m.op = "newaddr" /\ ~IsLink(m)
    BY <1>12 DEF NameDumped, Types, TypeOK, Dumping, IsLink
  <2>3. /\ mevent'.index = m.index /\ m.index \in addr
        /\ mevent'.name = interfaceMap[m.index] /\ interfaceMap[m.index] # NoName
    BY <1>2, <2>1, <2>2 DEF Starting, EventOf, Known
  <2>4. Starting'
    <3>1. \A d \in dump : d.index \in addr
      BY <1>2, <2>2 DEF Starting
    <3> QED
      BY <1>1, <1>4, <2>1, <2>2, <2>3, <3>1 DEF Starting
  <2>5. Shown'
    <3>1. \A i \in Indexes : ViewShown(i)'
      BY <1>1, <1>3, <2>2 DEF ViewShown, LinkAwaited
    <3>2. \A i \in Existing : MapShown(i)' /\ NameShown(i)'
      BY <1>1, <1>3, <2>2 DEF MapShown, NameShown, MapAwaited
    <3>3. \A i \in Indexes \ renamed : AddrShown(i)'
      BY <1>1, <1>3, <2>1, <2>2, <2>3 DEF AddrShown, AddrAwaited, Seen
    <3> QED
      BY <1>1, <1>4, <3>1, <3>2, <3>3
  <2>6. Kept
    <3>1. ASSUME NEW i \in Indexes, NEW n \in Names, OneName(i, n)
          PROVE  mevent'.index = i => mevent'.name = n
      BY <2>3, <3>1 DEF OneName
    <3> QED
      BY <1>1, <1>3, <1>4, <2>2, <3>1 DEF OneName, Seen, About, Named, AddrsOf
  <2> QED
    BY <2>4, <2>5, <2>6
<1>13. CASE StartRaises
  BY <1>1, <1>13 DEF StartRaises, NamingInv, Quiet
<1>14. CASE Started
  <2>1. /\ mpc = "addrs" /\ dump = {} /\ mpc' = "running"
        /\ UNCHANGED <<dump, mevent, interfaceMap, interfaceNameMap, viewLink, viewAddr>>
    BY <1>14 DEF Started
  <2>2. Starting'
    BY <2>1 DEF Starting
  <2>3. Shown'
    BY <1>1, <1>3, <1>4, <2>1
       DEF ViewShown, MapShown, NameShown, AddrShown, LinkAwaited, MapAwaited, AddrAwaited, Seen
  <2>4. Kept
    BY <1>1, <1>3, <1>4, <2>1 DEF OneName, Seen, About, Named, AddrsOf
  <2> QED
    BY <2>2, <2>3, <2>4
<1> QED
  BY <1>7, <1>8, <1>9, <1>10, <1>11, <1>12, <1>13, <1>14 DEF MainStep

LEMMA StutterView == ViewInv /\ UNCHANGED vars => ViewInv'
<1> SUFFICES ASSUME ViewInv, UNCHANGED vars PROVE ViewInv'
  OBVIOUS
<1>1. UNCHANGED <<link, addr, born, socket, tpc, tevent, mpc, dump, mevent, interfaceMap,
                  interfaceNameMap, viewLink, viewAddr, raced, renamed>>
  BY DEF vars, kernel, maps, view, history
<1>2. /\ Held' = Held /\ Existing' = Existing
      /\ \A i : /\ LinkState(i)' = LinkState(i) /\ AddrState(i)' = AddrState(i)
                /\ LinkAwaited(i)' = LinkAwaited(i) /\ MapAwaited(i)' = MapAwaited(i)
                /\ AddrAwaited(i)' = AddrAwaited(i) /\ Seen(i)' = Seen(i)
  BY <1>1 DEF Held, Existing, LinkState, AddrState, LinkAwaited, MapAwaited, AddrAwaited, Seen,
              About
<1>3. \A i : /\ ViewRight(i)' = ViewRight(i) /\ MapRight(i)' = MapRight(i)
             /\ NameRight(i)' = NameRight(i) /\ AddrRight(i)' = AddrRight(i)
  BY <1>1, <1>2 DEF ViewRight, MapRight, NameRight, AddrRight, ViewShown, MapShown,
                    NameShown, AddrShown, LinksOf, AddrsOf, About, Named
<1>4. \A i, n : OneName(i, n)' = OneName(i, n)
  BY <1>1, <1>2 DEF OneName, About, AddrsOf, Named
<1>5. Starting' = Starting
  BY <1>1 DEF Starting
<1> QED
  BY <1>1, <1>2, <1>3, <1>4, <1>5 DEF ViewInv, Right, Naming

LEMMA InitView == Init => Distinct /\ InOrder /\ ViewInv
<1> SUFFICES ASSUME Init PROVE Distinct /\ InOrder /\ ViewInv
  OBVIOUS
<1>1. /\ socket = <<>> /\ Held = {} /\ mpc = "off" /\ tpc = "off" /\ viewAddr = {}
      /\ born = Existing /\ renamed = {}
      /\ \A i \in Indexes : viewLink[i] = NoName /\ interfaceMap[i] = NoName
  BY DEF Init, Held, Existing
<1>2. Distinct /\ InOrder /\ Starting
  BY <1>1 DEF Init, Distinct, Existing, InOrder, Starting
<1>3. \A M, G : Told(<<>>, {}, M, G, TRUE)
  BY ToldEmpty
<1>4. \A i \in Indexes : ViewShown(i) /\ MapShown(i) /\ NameShown(i) /\ AddrShown(i)
  BY <1>1 DEF ViewShown, MapShown, NameShown, AddrShown, LinkAwaited, MapAwaited, AddrAwaited,
              Seen
<1>5. \A i \in Indexes : ViewRight(i) /\ MapRight(i) /\ NameRight(i) /\ AddrRight(i)
  BY <1>1, <1>3, <1>4 DEF ViewRight, MapRight, NameRight, AddrRight
<1>6. ASSUME NEW i \in Indexes, NEW n \in Names, link[i] \in {NoName, n} PROVE OneName(i, n)
  BY <1>1, <1>6 DEF OneName, None, Seen
<1>7. Naming
  <2>1. \A i \in born : i \in Indexes /\ link[i] \in Names
    BY <1>1 DEF Init, Existing
  <2>2. \A i \in Indexes \ born : link[i] = NoName
    BY <1>1 DEF Existing
  <2> QED
    BY <1>6, <2>1, <2>2 DEF Naming
<1> QED
  BY <1>2, <1>5, <1>7 DEF ViewInv, Right, Existing

(* When the kernel kept still while start() was at work, then, once everything
   reported has been published, the subscribers know exactly the interfaces the
   kernel has, interface_map and interface_name_map are right about them, and
   so are the addresses, except those of an interface that was renamed:
   RTNetlinkProvider loses nothing, invents nothing and mixes nothing up. *)
THEOREM SettledCorrect == Spec => []SettledView
<1> DEFINE Inv == Types /\ NamingInv /\ InOrder /\ Distinct /\ ViewInv
<1>1. Init => Inv
  BY InitTypes, InitNaming, InitView
<1>2. Inv /\ [Next]_vars => Inv'
  <2>1. Inv /\ [Next]_vars => Types' /\ NamingInv' /\ InOrder' /\ Distinct'
    BY KernelStepTypes, ThreadStepTypes, MainStepTypes, StutterTypes,
       KernelStepNaming, ThreadStepNaming, MainStepNaming, StutterNaming,
       InOrderStep, DistinctStep DEF Next
  <2>2. Inv /\ [Next]_vars => ViewInv'
    BY <2>1, KernelStepView, ThreadStepView, MainStepView, StutterView DEF Next
  <2> QED
    BY <2>1, <2>2
<1>3. Inv => SettledView
  <2> SUFFICES ASSUME Inv, Settled, ~raced
               PROVE  /\ viewLink = link
                      /\ \A i \in Indexes :
                            /\ link[i] # NoName => /\ interfaceMap[i] = link[i]
                                                   /\ interfaceNameMap[link[i]] = i
                            /\ i \notin renamed => (Seen(i) # {} <=> i \in addr)
    BY DEF SettledView
  <2>1. /\ socket = <<>> /\ Held = {} /\ mpc = "running" /\ Right
        /\ link \in [Indexes -> Names \cup {NoName}]
        /\ viewLink \in [Indexes -> Names \cup {NoName}]
    BY DEF Settled, Held, ViewInv, Types, TypeOK
  <2>2. \A i \in Indexes : ~LinkAwaited(i) /\ ~MapAwaited(i) /\ ~AddrAwaited(i)
    BY <2>1 DEF LinkAwaited, MapAwaited, AddrAwaited
  <2>3. ASSUME NEW i \in Indexes PROVE viewLink[i] = link[i]
    <3>1. Told(<<>>, {}, LinksOf(i), LinkState(i), ViewShown(i))
      BY <2>1, <2>3 DEF Right, ViewRight
    <3> QED
      BY <2>2, <3>1, ToldEmpty DEF ViewShown
  <2>4. ASSUME NEW i \in Indexes, link[i] # NoName
        PROVE  interfaceMap[i] = link[i] /\ interfaceNameMap[link[i]] = i
    <3>1. /\ Told(<<>>, {}, About(i, {"newlink"}), LinkState(i), MapShown(i))
          /\ Told(<<>>, {}, Named(link[i]), LinkState(i), NameShown(i))
      BY <2>1, <2>4 DEF Right, MapRight, NameRight, Existing
    <3>2. MapShown(i) /\ NameShown(i)
      BY <3>1, ToldEmpty DEF MapShown, NameShown
    <3> QED
      BY <2>2, <3>2 DEF MapShown, NameShown
  <2>5. ASSUME NEW i \in Indexes, i \notin renamed PROVE Seen(i) # {} <=> i \in addr
    <3>1. Told(<<>>, {}, AddrsOf(i), AddrState(i), AddrShown(i))
      BY <2>1, <2>5 DEF Right, AddrRight
    <3>2. AddrShown(i)
      BY <3>1, ToldEmpty DEF AddrShown
    <3> QED
      BY <2>2, <3>2 DEF AddrShown
  <2> QED
    BY <2>1, <2>3, <2>4, <2>5
<1> QED
  BY <1>1, <1>2, <1>3, PTL DEF Spec
=============================================================================
