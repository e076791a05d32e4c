-------------------------- MODULE RouteTableProofs --------------------------
(***************************************************************************)
(* The two invariants of RouteTable, for any tables, destinations,         *)
(* interfaces, configurations and leases: when the reports were handled, a *)
(* configured route that can be there is there, and none is there that the *)
(* agent put and that nothing asks for.                                    *)
(*                                                                         *)
(* Neither is inductive.  Between two settled states the tables know less  *)
(* than the kernel, and what makes up for it is in three places: in the    *)
(* reports on their way, in the loop of the handler that runs, and in what *)
(* that loop has yet to reach.  The inductive invariant IInv says, for     *)
(* each route and each link, that the reports lead from what the table     *)
(* knows to what is so (Leads), and, for each configured route that is     *)
(* absent though it could be there, which report or which loop will apply  *)
(* it (Coming, Noticed).                                                   *)
(*                                                                         *)
(* The kernel's side of a step is summed up once, by Moves: whatever the   *)
(* kernel changed it has reported behind the reports there were.  A lemma  *)
(* for each request and each change proves Moves; the lemmas of the        *)
(* actions use nothing else of the kernel.                                 *)
(***************************************************************************)
EXTENDS RouteTable, Integers, FiniteSetTheorems, TLAPS

-----------------------------------------------------------------------------
(* What the reports on their way say. *)

LinkEvents == [op : {"newlink", "dellink"}, interface : Interfaces]
RouteEvents == [op : {"newroute", "delroute"}, table : Tables, destination : Destinations,
                hop : KernelHops]
LeaseEvents == [op : {"preinit", "bound", "lost"}, interface : Interfaces, routes : LeaseRoutes]
Events == LinkEvents \cup RouteEvents \cup LeaseEvents

Of(t, d) == {x \in RouteEvents : x.table = t /\ x.destination = d}
OfLink(i) == {x \in LinkEvents : x.interface = i}

(* The next hop a report gives, or that there is none; of a link, which it is. *)
Said(x) == IF x.op = "newroute" THEN x.hop ELSE IF x.op = "delroute" THEN NoRoute ELSE x.op

(* When those of q that are in A were handled, what was v is w. *)
Leads(q, A, v, w) ==
    \/ v = w /\ \A m \in DOMAIN q : q[m] \notin A
    \/ \E n \in DOMAIN q : /\ q[n] \in A /\ Said(q[n]) = w
                           /\ \A m \in DOMAIN q : m > n => q[m] \notin A

HopOf(r) == IF r = NoRoute THEN NoRoute ELSE r.hop
StateOf(e) == IF e = NoEntity THEN NoRoute ELSE e.state
LinkOf(n) == IF n = NoIndex THEN "dellink" ELSE "newlink"

-----------------------------------------------------------------------------
(* The inductive invariant. *)

OfLease == {"drop", "take", "preinit", "release"}

TypeOK ==
    /\ created \in [Interfaces -> Nat] /\ link \in [Interfaces -> Nat]
    /\ route \in [Tables -> [Destinations -> KernelRoutes \cup {NoRoute}]]
    /\ queue \in Seq(Events)
    /\ data \in Configurations /\ previous \in Configurations
    /\ tables \in Seq(Tables) /\ interfaces \in [Tables -> SUBSET Interfaces]
    /\ entity \in [Tables -> [Destinations -> Entities \cup {NoEntity}]]
    /\ leased \in [Interfaces -> [Destinations -> LeasedRoutes \cup {NoEntity}]]
    /\ task \in {"idle", "commit", "rollback", "dependents", "linkup"} \cup OfLease
    /\ event \in Events \cup {NoEvent}
    /\ left \in Seq(Tables) /\ todo \in SUBSET Slots
    /\ changes \in 0..MaxChanges
    /\ ours \in SUBSET Slots /\ late \in SUBSET Tables /\ stuck \in BOOLEAN

(* An interface has the index of its last creation, or none; a route goes over
   an interface that is there. *)
LinkInv ==
    /\ \A i \in Interfaces : link[i] \in {NoIndex, created[i]}
    /\ \A t \in Tables, d \in Destinations :
          route[t][d] # NoRoute => link[route[t][d].hop.interface] # NoIndex

(* What the loops of the handlers have yet to reach, and what they have done. *)
LoopInv ==
    /\ task = "idle" => todo = {}
    /\ Configuring => \A s \in todo :
          /\ s[1] \in Range(tables)
          /\ Wanted(data, s[1], s[2]) \/ HasConfig(entity[s[1]][s[2]])
    /\ task = "linkup" => event \in LinkEvents
    /\ task \in OfLease => event \in LeaseEvents
    /\ task \in OfLease \ {"take"} =>
          \A d \in Destinations : <<Main, d>> \in todo => HasLease(event.interface, d)
    /\ task = "drop" =>
          \A d \in Destinations :
              HasLease(event.interface, d)
                  /\ event.routes[d] # leased[event.interface][d].gateway => <<Main, d>> \in todo
    /\ task = "take" =>
          \A d \in Destinations :
              <<Main, d>> \in todo => ~HasLease(event.interface, d) /\ event.routes[d] # NoRoute
    /\ task = "release" =>
          \A d \in Destinations :
              HasLease(event.interface, d) =>
                  leased[event.interface][d].args = NoArgs \/ <<Main, d>> \in todo

(* The route of the kernel is one that was asked for with these arguments. *)
Puts(t, d, args) == args # NoArgs /\ Deletable(t, d, args)

(* A route of the agent is one that an entity or a lease can still remove. *)
OursAt(t, d) ==
    \/ HasConfig(entity[t][d]) /\ Puts(t, d, entity[t][d].args)
    \/ t = Main /\ \E i \in Interfaces : HasLease(i, d) /\ Puts(t, d, leased[i][d].args)

OursInv == \A s \in ours : OursAt(s[1], s[2])

(* handle_config_change has yet to reach it; what it has reached is as
   configured. *)
Due(t, d) == Configuring /\ (t \in Range(left) \/ <<t, d>> \in todo)

Synced(c, e) == IF c = NoConfig THEN ~HasConfig(e) ELSE HasConfig(e) /\ e.config = c

SyncInv ==
    ~stuck => \A t \in Tables, d \in Destinations :
        data[t] # NoTable /\ ~Due(t, d) => Synced(data[t][d], entity[t][d])

(* Only tables there are have configured routes. *)
KnownInv ==
    \A t \in Tables, d \in Destinations : HasConfig(entity[t][d]) => t \in Range(tables)

(* The reports lead from what a table knows of a route to what is so. *)
ToldInv ==
    \A t \in Tables, d \in Destinations :
        Leads(queue, Of(t, d), StateOf(entity[t][d]), HopOf(route[t][d]))

(* The same of a link; a table the loop of handle_interface_add has yet to
   reach will know of it. A table made after the start knows none. *)
Telling(t, i) == task = "linkup" /\ event.interface = i /\ t \in Range(left)

Knows(t, i) == IF i \in interfaces[t] \/ Telling(t, i) THEN "newlink" ELSE "dellink"

LinkToldInv ==
    ~stuck => \A t \in Range(tables) \ late, i \in Interfaces :
        Leads(queue, OfLink(i), Knows(t, i), LinkOf(link[i]))

(* Whether the handler of x will apply a route of <<t, d>> configured as c. *)
Announces(x, t, d, c) ==
    \/ x \in Of(t, d) /\ x.op = "delroute"
    \/ x \in RouteEvents /\ x.op = "newroute" /\ x.table = t /\ c.gateway \in Covers[x.destination]
    \/ c.gateway = NoGateway /\ x \in LinkEvents /\ x.op = "newlink" /\ x.interface = c.interface

Coming(q, t, d, c) == \E x \in Range(q) : Announces(x, t, d, c)

(* Whether the loop that runs will apply it. *)
Noticed(t, d, c) ==
    \/ task \in {"dependents", "linkup"} /\ <<t, d>> \in todo
    \/ c.gateway = NoGateway /\ Telling(t, c.interface)

Cared(t, d) ==
    ~stuck /\ t \notin late /\ data[t] # NoTable /\ ~Due(t, d) /\ HasConfig(entity[t][d])

(* A configured route that could be there and is not will be applied. *)
PresentAt(t, d) ==
    Cared(t, d) /\ Reachable(t, entity[t][d].config) /\ route[t][d] = NoRoute
        => Coming(queue, t, d, entity[t][d].config) \/ Noticed(t, d, entity[t][d].config)

PresentInv == \A t \in Tables, d \in Destinations : PresentAt(t, d)

IInv == /\ TypeOK /\ LinkInv /\ LoopInv /\ OursInv /\ SyncInv /\ KnownInv
        /\ ToldInv /\ LinkToldInv /\ PresentInv
-----------------------------------------------------------------------------
(* Reports that are put behind others, and the first that is taken away. *)

LEMMA LeadsGrown ==
    ASSUME NEW q \in Seq(Events), NEW x \in Events, NEW A, NEW v, NEW w, Leads(q, A, v, w)
    PROVE  Leads(Append(q, x), A, v, IF x \in A THEN Said(x) ELSE w)
<1> DEFINE r == Append(q, x)
<1>1. /\ Len(q) \in Nat /\ DOMAIN q = 1..Len(q) /\ DOMAIN r = 1..(Len(q) + 1)
      /\ \A n \in DOMAIN q : r[n] = q[n]
      /\ r[Len(q) + 1] = x
  OBVIOUS
<1> HIDE DEF r
<1>2. \A n \in DOMAIN r : n \in DOMAIN q \/ n = Len(q) + 1
  BY <1>1
<1>3. \A n \in DOMAIN q : n \in DOMAIN r /\ r[n] = q[n] /\ n < Len(q) + 1
  BY <1>1
<1>4. Len(q) + 1 \in DOMAIN r /\ r[Len(q) + 1] = x /\ \A n \in DOMAIN r : ~(n > Len(q) + 1)
  BY <1>1
<1>5. CASE x \in A
  BY <1>4, <1>5 DEF Leads, r
<1>6. CASE x \notin A
  <2>1. CASE v = w /\ \A m \in DOMAIN q : q[m] \notin A
    BY <1>2, <1>3, <1>4, <1>6, <2>1 DEF Leads, r
  <2>2. ASSUME NEW n \in DOMAIN q, q[n] \in A, Said(q[n]) = w,
               \A m \in DOMAIN q : m > n => q[m] \notin A
        PROVE  Leads(r, A, v, w)
    <3>1. \A m \in DOMAIN r : m > n => r[m] \notin A
      BY <1>2, <1>3, <1>4, <1>6, <2>2
    <3> QED
      BY <1>3, <2>2, <3>1 DEF Leads
  <2> QED
    BY <1>6, <2>1, <2>2 DEF Leads, r
<1> QED
  BY <1>5, <1>6

LEMMA LeadsTaken ==
    ASSUME NEW q \in Seq(Events), q # <<>>, NEW A, NEW v, NEW w, Leads(q, A, v, w)
    PROVE  Leads(Tail(q), A, IF Head(q) \in A THEN Said(Head(q)) ELSE v, w)
<1> DEFINE r == Tail(q)
<1>1. /\ Len(q) \in Nat /\ Len(q) >= 1 /\ DOMAIN q = 1..Len(q) /\ DOMAIN r = 1..(Len(q) - 1)
      /\ \A n \in DOMAIN r : r[n] = q[n + 1]
      /\ Head(q) = q[1]
  OBVIOUS
<1> HIDE DEF r
<1>2. 1 \in DOMAIN q /\ \A n \in DOMAIN q : n = 1 \/ (n - 1 \in DOMAIN r /\ r[n - 1] = q[n])
  BY <1>1
<1>3. \A n \in DOMAIN r : n + 1 \in DOMAIN q /\ r[n] = q[n + 1] /\ n + 1 > 1
  BY <1>1
<1>4. CASE v = w /\ \A m \in DOMAIN q : q[m] \notin A
  BY <1>1, <1>2, <1>3, <1>4 DEF Leads, r
<1>5. ASSUME NEW n \in DOMAIN q, q[n] \in A, Said(q[n]) = w,
             \A m \in DOMAIN q : m > n => q[m] \notin A
      PROVE  Leads(r, A, IF Head(q) \in A THEN Said(Head(q)) ELSE v, w)
  <2>1. CASE n = 1
    BY <1>1, <1>3, <1>5, <2>1 DEF Leads
  <2>2. CASE n # 1
    <3>1. n - 1 \in DOMAIN r /\ r[n - 1] = q[n]
      BY <1>2, <2>2
    <3>2. ASSUME NEW m \in DOMAIN r, m > n - 1
          PROVE  r[m] \notin A
      <4>1. m + 1 \in DOMAIN q /\ m + 1 > n /\ r[m] = q[m + 1]
        BY <1>1, <1>3, <3>2
      <4> QED
        BY <1>5, <4>1
    <3> QED
      BY <1>5, <3>1, <3>2 DEF Leads
  <2> QED
    BY <2>1, <2>2
<1> QED
  BY <1>4, <1>5 DEF Leads, r

(* A report that is the last of its kind among those that are put behind. *)
LEMMA LeadsJoined ==
    ASSUME NEW q \in Seq(Events), NEW s \in Seq(Events), NEW A, NEW v, NEW w
    PROVE  /\ Leads(q, A, v, w) /\ (\A m \in DOMAIN s : s[m] \notin A)
                  => Leads(q \o s, A, v, w)
           /\ \A n \in DOMAIN s : /\ s[n] \in A /\ Said(s[n]) = w
                                  /\ \A m \in DOMAIN s : m > n => s[m] \notin A
                  => Leads(q \o s, A, v, w)
<1> DEFINE r == q \o s
           a == Len(q)
<1>1. /\ a \in Nat /\ Len(s) \in Nat /\ DOMAIN q = 1..a /\ DOMAIN s = 1..Len(s)
      /\ DOMAIN r = 1..(a + Len(s))
      /\ \A n \in DOMAIN q : r[n] = q[n]
      /\ \A n \in DOMAIN s : r[a + n] = s[n]
  OBVIOUS
<1> HIDE DEF r, a
<1>2. \A n \in DOMAIN q : n \in DOMAIN r /\ r[n] = q[n]
  BY <1>1
<1>3. \A n \in DOMAIN s : a + n \in DOMAIN r /\ r[a + n] = s[n]
  BY <1>1
<1>4. \A n \in DOMAIN r : n \in DOMAIN q \/ (n - a \in DOMAIN s /\ r[n] = s[n - a])
  BY <1>1
<1>5. ASSUME Leads(q, A, v, w), \A m \in DOMAIN s : s[m] \notin A
      PROVE  Leads(r, A, v, w)
  <2>1. CASE v = w /\ \A m \in DOMAIN q : q[m] \notin A
    BY <1>2, <1>4, <1>5, <2>1 DEF Leads
  <2>2. ASSUME NEW n \in DOMAIN q, q[n] \in A, Said(q[n]) = w,
               \A m \in DOMAIN q : m > n => q[m] \notin A
        PROVE  Leads(r, A, v, w)
    <3>1. \A m \in DOMAIN r : m > n => r[m] \notin A
      BY <1>2, <1>4, <1>5, <2>2
    <3> QED
      BY <1>2, <2>2, <3>1 DEF Leads
  <2> QED
    BY <1>5, <2>1, <2>2 DEF Leads
<1>6. ASSUME NEW n \in DOMAIN s, s[n] \in A, Said(s[n]) = w,
             \A m \in DOMAIN s : m > n => s[m] \notin A
      PROVE  Leads(r, A, v, w)
  <2>1. a + n \in DOMAIN r /\ r[a + n] = s[n]
    BY <1>3
  <2>2. ASSUME NEW m \in DOMAIN r, m > a + n
        PROVE  r[m] \notin A
    <3>1. m \notin DOMAIN q
      BY <1>1, <2>2
    <3>2. m - a \in DOMAIN s /\ r[m] = s[m - a] /\ m - a > n
      BY <1>1, <1>4, <2>2, <3>1
    <3> QED
      BY <1>6, <3>2
  <2> QED
    BY <1>6, <2>1, <2>2 DEF Leads
<1> QED
  BY <1>5, <1>6 DEF r

(* What is not so yet will be said. *)
LEMMA LeadsTo ==
    ASSUME NEW q, NEW A, NEW v, NEW w, Leads(q, A, v, w), v # w
    PROVE  \E x \in Range(q) : x \in A /\ Said(x) = w
  BY DEF Leads, Range

LEMMA RangeGrown ==
    ASSUME NEW S, NEW q \in Seq(S), NEW x
    PROVE  Range(Append(q, x)) = Range(q) \cup {x}
<1>1. /\ Len(q) \in Nat /\ DOMAIN q = 1..Len(q)
      /\ DOMAIN Append(q, x) = 1..(Len(q) + 1)
      /\ \A n \in DOMAIN q : n \in DOMAIN Append(q, x) /\ Append(q, x)[n] = q[n]
      /\ Append(q, x)[Len(q) + 1] = x
  OBVIOUS
<1>2. \A n \in DOMAIN Append(q, x) : n \in DOMAIN q \/ n = Len(q) + 1
  BY <1>1
<1>3. Len(q) + 1 \in DOMAIN Append(q, x)
  BY <1>1
<1> QED
  BY <1>1, <1>2, <1>3 DEF Range

LEMMA RangeTaken ==
    ASSUME NEW S, NEW q \in Seq(S), q # <<>>
    PROVE  /\ Range(q) = Range(Tail(q)) \cup {Head(q)}
           /\ Tail(q) \in Seq(S) /\ Head(q) \in S /\ Head(q) \in Range(q)
<1>1. /\ Len(q) \in Nat /\ Len(q) >= 1 /\ DOMAIN q = 1..Len(q)
      /\ DOMAIN Tail(q) = 1..(Len(q) - 1)
      /\ \A n \in DOMAIN Tail(q) : Tail(q)[n] = q[n + 1]
      /\ Head(q) = q[1] /\ Tail(q) \in Seq(S) /\ Head(q) \in S
  OBVIOUS
<1>2. 1 \in DOMAIN q /\ \A n \in DOMAIN q : n = 1 \/ (n - 1 \in DOMAIN Tail(q) /\ q[n] = Tail(q)[n - 1])
  BY <1>1
<1>3. \A n \in DOMAIN Tail(q) : n + 1 \in DOMAIN q
  BY <1>1
<1> QED
  BY <1>1, <1>2, <1>3 DEF Range

LEMMA RangeJoined ==
    ASSUME NEW S, NEW q \in Seq(S), NEW s \in Seq(S)
    PROVE  Range(q \o s) = Range(q) \cup Range(s)
<1> DEFINE r == q \o s
           a == Len(q)
<1>1. /\ a \in Nat /\ Len(s) \in Nat /\ DOMAIN q = 1..a /\ DOMAIN s = 1..Len(s)
      /\ DOMAIN r = 1..(a + Len(s))
      /\ \A n \in DOMAIN q : r[n] = q[n]
      /\ \A n \in DOMAIN s : r[a + n] = s[n]
  OBVIOUS
<1> HIDE DEF r, a
<1>2. \A n \in DOMAIN q : n \in DOMAIN r /\ r[n] = q[n]
  BY <1>1
<1>3. \A n \in DOMAIN s : a + n \in DOMAIN r /\ r[a + n] = s[n]
  BY <1>1
<1>4. \A n \in DOMAIN r : n \in DOMAIN q \/ (n - a \in DOMAIN s /\ r[n] = s[n - a])
  BY <1>1
<1>5. ASSUME NEW x \in Range(r)
      PROVE  x \in Range(q) \cup Range(s)
  <2>1. PICK n \in DOMAIN r : x = r[n]
    BY DEF Range
  <2>2. CASE n \in DOMAIN q
    BY <1>2, <2>1, <2>2 DEF Range
  <2>3. CASE n \notin DOMAIN q
    BY <1>4, <2>1, <2>3 DEF Range
  <2> QED
    BY <2>2, <2>3
<1>6. \A x \in Range(q) \cup Range(s) : x \in Range(r)
  BY <1>2, <1>3 DEF Range
<1>7. Range(r) = Range(q) \cup Range(s)
  BY <1>5, <1>6
<1> QED
  BY <1>7 DEF r

(* An order of a finite set is a sequence that has each of its elements once. *)
LEMMA OrderIs ==
    ASSUME NEW S, IsFiniteSet(S), NEW order \in SetToSeqs(S)
    PROVE  /\ order \in Seq(S) /\ Range(order) = S
           /\ \A m, n \in DOMAIN order : m # n => order[m] # order[n]
<1> DEFINE D == 1..Cardinality(S)
<1>1. Cardinality(S) \in Nat
  BY FS_CardinalityType
<1>2. order \in [D -> S] /\ \A m, n \in D : m # n => order[m] # order[n]
  BY DEF SetToSeqs
<1>3. IsFiniteSet(D) /\ Cardinality(D) = Cardinality(S)
  BY <1>1, FS_Interval
<1>4. order \in Seq(S)
  BY <1>1, <1>2
<1> HIDE DEF D
<1>5. order \in Injection(D, S)
  BY <1>2 DEF Injection, IsInjective
<1>6. order \in Surjection(D, S)
  BY <1>3, <1>5, FS_Injection
<1> QED
  BY <1>2, <1>4, <1>6 DEF Surjection, Range

-----------------------------------------------------------------------------
(* Events. *)

LEMMA RouteEventIs ==
    ASSUME NEW t \in Tables, NEW d \in Destinations, NEW hop \in KernelHops,
           NEW op \in {"newroute", "delroute"}
    PROVE  LET x == RouteEvent(op, t, d, hop) IN
           /\ x \in Events /\ x \in RouteEvents /\ x \in Of(t, d)
           /\ x.op = op /\ x.table = t /\ x.destination = d
           /\ Said(x) = IF op = "newroute" THEN hop ELSE NoRoute
           /\ \A n \in Tables, m \in Destinations : x \in Of(n, m) => n = t /\ m = d
           /\ \A i \in Interfaces : x \notin OfLink(i)
  BY DEF RouteEvent, Events, RouteEvents, LinkEvents, Of, OfLink, Said

LEMMA LinkEventIs ==
    ASSUME NEW i \in Interfaces, NEW op \in {"newlink", "dellink"}
    PROVE  LET x == LinkEvent(op, i) IN
           /\ x \in Events /\ x \in LinkEvents /\ x \in OfLink(i) /\ Said(x) = op
           /\ x.op = op /\ x.interface = i
           /\ \A t \in Tables, d \in Destinations : x \notin Of(t, d)
           /\ \A j \in Interfaces : x \in OfLink(j) => j = i
  BY DEF LinkEvent, Events, RouteEvents, LinkEvents, Of, OfLink, Said

LEMMA LeaseEventIs ==
    ASSUME NEW i \in Interfaces, NEW op \in {"preinit", "bound", "lost"},
           NEW routes \in LeaseRoutes
    PROVE  LET x == LeaseEvent(op, i, routes) IN
           /\ x \in Events
           /\ \A t \in Tables, d \in Destinations : x \notin Of(t, d)
           /\ \A j \in Interfaces : x \notin OfLink(j)
  BY DEF LeaseEvent, Events, LeaseEvents, RouteEvents, LinkEvents, Of, OfLink

(* What an event is, by its kind. *)
LEMMA EventIs ==
    ASSUME NEW x \in Events
    PROVE  /\ x.op \in {"newroute", "delroute"} =>
                 /\ x \in RouteEvents /\ x.table \in Tables /\ x.destination \in Destinations
                 /\ x.hop \in KernelHops /\ x \in Of(x.table, x.destination)
                 /\ \A t \in Tables, d \in Destinations :
                       x \in Of(t, d) => t = x.table /\ d = x.destination
                 /\ \A i \in Interfaces : x \notin OfLink(i)
                 /\ Said(x) = IF x.op = "newroute" THEN x.hop ELSE NoRoute
           /\ x.op \in {"newlink", "dellink"} =>
                 /\ x \in LinkEvents /\ x.interface \in Interfaces /\ Said(x) = x.op
                 /\ x \in OfLink(x.interface)
                 /\ \A i \in Interfaces : x \in OfLink(i) => i = x.interface
                 /\ \A t \in Tables, d \in Destinations : x \notin Of(t, d)
           /\ x.op \in {"preinit", "bound", "lost"} =>
                 /\ x \in LeaseEvents /\ x.interface \in Interfaces /\ x.routes \in LeaseRoutes
                 /\ \A i \in Interfaces : x \notin OfLink(i)
                 /\ \A t \in Tables, d \in Destinations : x \notin Of(t, d)
  BY DEF Events, RouteEvents, LinkEvents, LeaseEvents, Of, OfLink, Said

-----------------------------------------------------------------------------
(* What the kernel does and what it reports of it, behind the reports of q. *)

Moves(q) ==
    /\ route' \in [Tables -> [Destinations -> KernelRoutes \cup {NoRoute}]]
    /\ queue' \in Seq(Events)
    /\ \A t \in Tables, d \in Destinations :
          route'[t][d] # NoRoute => link'[route'[t][d].hop.interface] # NoIndex
    /\ \A t \in Tables, d \in Destinations, v \in KernelHops \cup {NoRoute} :
          Leads(q, Of(t, d), v, HopOf(route[t][d])) => Leads(queue', Of(t, d), v, HopOf(route'[t][d]))
    /\ \A i \in Interfaces, v \in {"newlink", "dellink"} :
          Leads(q, OfLink(i), v, LinkOf(link[i])) => Leads(queue', OfLink(i), v, LinkOf(link'[i]))
    /\ Range(q) \subseteq Range(queue')
    /\ \A t \in Tables, d \in Destinations :
          HopOf(route'[t][d]) # HopOf(route[t][d]) =>
              \E x \in Range(queue') : x \in Of(t, d) /\ Said(x) = HopOf(route'[t][d])
    /\ \A i \in Interfaces :
          LinkOf(link'[i]) # LinkOf(link[i]) =>
              \E x \in Range(queue') : x \in OfLink(i) /\ Said(x) = LinkOf(link'[i])

LEMMA MovesNone ==
    ASSUME TypeOK, LinkInv, NEW q \in Seq(Events),
           queue' = q, route' = route, link' = link
    PROVE  Moves(q)
  BY DEF Moves, TypeOK, LinkInv

(* One report, which says what is so now of the one thing that has changed. *)
LEMMA MovesOnce ==
    ASSUME NEW q \in Seq(Events), NEW x \in Events, queue' = Append(q, x),
           route' \in [Tables -> [Destinations -> KernelRoutes \cup {NoRoute}]],
           \A t \in Tables, d \in Destinations :
               route'[t][d] # NoRoute => link'[route'[t][d].hop.interface] # NoIndex,
           \A t \in Tables, d \in Destinations :
               HopOf(route'[t][d]) = IF x \in Of(t, d) THEN Said(x) ELSE HopOf(route[t][d]),
           \A i \in Interfaces :
               LinkOf(link'[i]) = IF x \in OfLink(i) THEN Said(x) ELSE LinkOf(link[i])
    PROVE  Moves(q)
<1>1. queue' \in Seq(Events)
  OBVIOUS
<1>2. Range(queue') = Range(q) \cup {x}
  BY RangeGrown
<1>3. \A A, v, w : Leads(q, A, v, w) => Leads(queue', A, v, IF x \in A THEN Said(x) ELSE w)
  BY LeadsGrown
<1>4. \A t \in Tables, d \in Destinations, v \in KernelHops \cup {NoRoute} :
         Leads(q, Of(t, d), v, HopOf(route[t][d])) => Leads(queue', Of(t, d), v, HopOf(route'[t][d]))
  BY <1>3
<1>5. \A i \in Interfaces, v \in {"newlink", "dellink"} :
         Leads(q, OfLink(i), v, LinkOf(link[i])) => Leads(queue', OfLink(i), v, LinkOf(link'[i]))
  BY <1>3
<1>6. x \in Range(queue')
  BY <1>2
<1> QED
  BY <1>1, <1>2, <1>4, <1>5, <1>6 DEF Moves

-----------------------------------------------------------------------------
(* Tables of tables. *)

LEMMA SlotSet ==
    ASSUME NEW S, NEW f \in [Tables -> [Destinations -> S]], NEW t \in Tables,
           NEW d \in Destinations, NEW x \in S
    PROVE  LET g == [f EXCEPT ![t][d] = x] IN
           /\ g \in [Tables -> [Destinations -> S]]
           /\ g[t][d] = x
           /\ \A n \in Tables, m \in Destinations : (n # t \/ m # d) => g[n][m] = f[n][m]
  OBVIOUS

LEMMA HopIs ==
    ASSUME NEW r \in KernelRoutes
    PROVE  /\ r # NoRoute /\ HopOf(r) = r.hop /\ r.hop \in KernelHops /\ r.own \in BOOLEAN
           /\ r.hop.interface \in Interfaces /\ r.hop.gateway \in Gateways \cup {NoGateway}
           /\ r.hop # NoRoute /\ r.hop \in Hops
  BY SentinelsAssumption DEF KernelRoutes, KernelHops, HopOf, Hops

(* route("replace"), or another program that puts a route. *)
LEMMA PutMoves ==
    ASSUME TypeOK, LinkInv, NEW q \in Seq(Events), NEW t \in Tables, NEW d \in Destinations,
           NEW r \in KernelRoutes, link[r.hop.interface] # NoIndex, link' = link,
           route' = [route EXCEPT ![t][d] = r],
           \/ queue' = Append(q, RouteEvent("newroute", t, d, r.hop))
           \/ queue' = q /\ route[t][d] = r
    PROVE  Moves(q)
<1>1. /\ route' \in [Tables -> [Destinations -> KernelRoutes \cup {NoRoute}]]
      /\ route'[t][d] = r
      /\ \A n \in Tables, m \in Destinations : (n # t \/ m # d) => route'[n][m] = route[n][m]
  <2>1. route \in [Tables -> [Destinations -> KernelRoutes \cup {NoRoute}]]
    BY DEF TypeOK
  <2> QED
    BY <2>1, SlotSet
<1>2. r # NoRoute /\ HopOf(r) = r.hop /\ r.hop \in KernelHops
  BY HopIs
<1>3. \A n \in Tables, m \in Destinations :
         route'[n][m] # NoRoute => link'[route'[n][m].hop.interface] # NoIndex
  <2>1. ASSUME NEW n \in Tables, NEW m \in Destinations, route'[n][m] # NoRoute
        PROVE  link'[route'[n][m].hop.interface] # NoIndex
    <3>1. CASE n = t /\ m = d
      BY <1>1, <3>1
    <3>2. CASE n # t \/ m # d
      BY <1>1, <2>1, <3>2 DEF LinkInv
    <3> QED
      BY <3>1, <3>2
  <2> QED
    BY <2>1
<1>4. CASE queue' = Append(q, RouteEvent("newroute", t, d, r.hop))
  <2> DEFINE x == RouteEvent("newroute", t, d, r.hop)
  <2>1. /\ x \in Events /\ x \in Of(t, d) /\ Said(x) = r.hop
        /\ \A n \in Tables, m \in Destinations : x \in Of(n, m) => n = t /\ m = d
        /\ \A i \in Interfaces : x \notin OfLink(i)
    BY <1>2, RouteEventIs
  <2> HIDE DEF x
  <2>2. queue' = Append(q, x)
    BY <1>4 DEF x
  <2>3. \A n \in Tables, m \in Destinations :
           HopOf(route'[n][m]) = IF x \in Of(n, m) THEN Said(x) ELSE HopOf(route[n][m])
    BY <1>1, <1>2, <2>1
  <2> QED
    BY <1>1, <1>3, <2>1, <2>2, <2>3, MovesOnce
<1>5. CASE queue' = q /\ route[t][d] = r
  <2>1. route' = route
    BY <1>5 DEF TypeOK
  <2> QED
    BY <1>5, <2>1, MovesNone
<1> QED
  BY <1>4, <1>5

(* route("delete"), or another program that removes one. *)
LEMMA RemoveMoves ==
    ASSUME TypeOK, LinkInv, NEW q \in Seq(Events), NEW t \in Tables, NEW d \in Destinations,
           route[t][d] # NoRoute, link' = link,
           route' = [route EXCEPT ![t][d] = NoRoute],
           queue' = Append(q, RouteEvent("delroute", t, d, route[t][d].hop))
    PROVE  Moves(q)
<1>1. /\ route' \in [Tables -> [Destinations -> KernelRoutes \cup {NoRoute}]]
      /\ route'[t][d] = NoRoute
      /\ \A n \in Tables, m \in Destinations : (n # t \/ m # d) => route'[n][m] = route[n][m]
  <2>1. route \in [Tables -> [Destinations -> KernelRoutes \cup {NoRoute}]]
    BY DEF TypeOK
  <2> QED
    BY <2>1, SlotSet
<1> DEFINE x == RouteEvent("delroute", t, d, route[t][d].hop)
<1>2. route[t][d] \in KernelRoutes /\ route[t][d].hop \in KernelHops
  BY HopIs DEF TypeOK
<1>3. /\ x \in Events /\ x \in Of(t, d) /\ Said(x) = NoRoute
      /\ \A n \in Tables, m \in Destinations : x \in Of(n, m) => n = t /\ m = d
      /\ \A i \in Interfaces : x \notin OfLink(i)
  BY <1>2, RouteEventIs
<1> HIDE DEF x
<1>4. queue' = Append(q, x)
  BY DEF x
<1>5. \A n \in Tables, m \in Destinations :
         route'[n][m] # NoRoute => link'[route'[n][m].hop.interface] # NoIndex
  BY <1>1 DEF LinkInv
<1>6. \A n \in Tables, m \in Destinations :
         HopOf(route'[n][m]) = IF x \in Of(n, m) THEN Said(x) ELSE HopOf(route[n][m])
  BY <1>1, <1>3 DEF HopOf
<1> QED
  BY <1>1, <1>3, <1>4, <1>5, <1>6, MovesOnce

(* The routes over a link go with it. *)
LEMMA DeleteLinkIs ==
    ASSUME TypeOK, LinkInv, NEW i \in Interfaces, DeleteLink(i)
    PROVE  /\ Moves(queue)
           /\ link' = [link EXCEPT ![i] = NoIndex]
           /\ \A t \in Tables, d \in Destinations :
                 IF route[t][d] # NoRoute /\ route[t][d].hop.interface = i
                 THEN route'[t][d] = NoRoute /\ <<t, d>> \notin ours'
                 ELSE route'[t][d] = route[t][d]
           /\ ours' \subseteq ours
<1> DEFINE over == {s \in Slots : /\ route[s[1]][s[2]] # NoRoute
                                  /\ route[s[1]][s[2]].hop.interface = i}
           report(s) == RouteEvent("delroute", s[1], s[2], route[s[1]][s[2]].hop)
           reports == {report(s) : s \in over}
           x == LinkEvent("dellink", i)
<1>1. PICK order \in SetToSeqs(reports) : queue' = queue \o order \o <<x>>
  BY DEF DeleteLink
<1>2. /\ link' = [link EXCEPT ![i] = NoIndex] /\ link[i] # NoIndex
      /\ route' = [t \in Tables |-> [d \in Destinations |->
                      IF <<t, d>> \in over THEN NoRoute ELSE route[t][d]]]
      /\ ours' = ours \ over
  BY DEF DeleteLink
<1>3. \A s \in over : /\ s[1] \in Tables /\ s[2] \in Destinations /\ s = <<s[1], s[2]>>
                      /\ route[s[1]][s[2]] \in KernelRoutes
                      /\ route[s[1]][s[2]].hop \in KernelHops
  BY HopIs DEF TypeOK, Slots
<1>4. \A t \in Tables, d \in Destinations :
         <<t, d>> \in over <=> route[t][d] # NoRoute /\ route[t][d].hop.interface = i
  BY DEF Slots
<1>5. \A s \in over : /\ report(s) \in Events /\ report(s) \in Of(s[1], s[2])
                      /\ Said(report(s)) = NoRoute
                      /\ \A n \in Tables, m \in Destinations :
                            report(s) \in Of(n, m) => n = s[1] /\ m = s[2]
                      /\ \A j \in Interfaces : report(s) \notin OfLink(j)
  BY <1>3, RouteEventIs
<1>6. IsFiniteSet(reports)
  <2>1. IsFiniteSet(over)
    BY FinitenessAssumption, FS_Product, FS_Subset DEF Slots
  <2> DEFINE f == [s \in over |-> report(s)]
  <2>2. f \in Surjection(over, reports)
    BY DEF Surjection
  <2> QED
    BY <2>1, <2>2, FS_Surjection
<1>7. /\ x \in Events /\ x \in OfLink(i) /\ Said(x) = "dellink"
      /\ \A t \in Tables, d \in Destinations : x \notin Of(t, d)
      /\ \A j \in Interfaces : x \in OfLink(j) => j = i
  BY LinkEventIs
<1>8. \A t \in Tables, d \in Destinations :
         route'[t][d] = IF <<t, d>> \in over THEN NoRoute ELSE route[t][d]
  BY <1>2
<1>9. route' \in [Tables -> [Destinations -> KernelRoutes \cup {NoRoute}]]
  BY <1>2 DEF TypeOK
<1>. reports = {report(s) : s \in over}
  OBVIOUS
<1> HIDE DEF over, report, reports, x
<1>10. /\ \A e \in reports : e \in Events
       /\ \A e \in reports, j \in Interfaces : e \notin OfLink(j)
       /\ \A e \in reports, t \in Tables, d \in Destinations :
             e \in Of(t, d) => <<t, d>> \in over /\ e = report(<<t, d>>) /\ Said(e) = NoRoute
       /\ \A t \in Tables, d \in Destinations :
             <<t, d>> \in over => \E e \in reports : e \in Of(t, d) /\ Said(e) = NoRoute
  <2>1. ASSUME NEW s \in over, NEW t \in Tables, NEW d \in Destinations,
               report(s) \in Of(t, d)
        PROVE  s = <<t, d>>
    BY <1>3, <1>5, <2>1
  <2>2. \A t \in Tables, d \in Destinations :
           <<t, d>> \in over => report(<<t, d>>) \in Of(t, d) /\ Said(report(<<t, d>>)) = NoRoute
    BY <1>5
  <2> QED
    BY <1>3, <1>5, <2>1, <2>2
<1>11. /\ order \in Seq(reports) /\ Range(order) = reports
       /\ \A m, n \in DOMAIN order : m # n => order[m] # order[n]
  BY <1>6, OrderIs
<1>12. order \in Seq(Events)
  BY <1>10, <1>11
<1> DEFINE p == queue \o order
<1>13. p \in Seq(Events) /\ queue' = Append(p, x) /\ Range(p) = Range(queue) \cup reports
  <2>1. queue \in Seq(Events)
    BY DEF TypeOK
  <2>2. p \in Seq(Events) /\ queue' = Append(p, x)
    BY <1>1, <1>7, <1>12, <2>1
  <2> QED
    BY <1>11, <1>12, <2>1, <2>2, RangeJoined
<1>14. \A n \in DOMAIN order : order[n] \in reports
  BY <1>11 DEF Range
<1>15. \A e \in reports : \E n \in DOMAIN order : order[n] = e
  BY <1>11 DEF Range
<1>16. queue \in Seq(Events)
  BY DEF TypeOK
<1>17. ASSUME NEW t \in Tables, NEW d \in Destinations, NEW v,
              Leads(queue, Of(t, d), v, HopOf(route[t][d]))
       PROVE  Leads(p, Of(t, d), v, HopOf(route'[t][d]))
  <2>1. CASE <<t, d>> \in over
    <3>1. PICK n \in DOMAIN order : order[n] \in Of(t, d) /\ Said(order[n]) = NoRoute
      BY <1>10, <1>15, <2>1
    <3>2. ASSUME NEW m \in DOMAIN order, m # n
          PROVE  order[m] \notin Of(t, d)
      <4>1. order[n] = report(<<t, d>>) /\ order[m] # order[n] /\ order[m] \in reports
        BY <1>10, <1>11, <1>14, <3>1, <3>2
      <4> QED
        BY <1>10, <4>1
    <3>3. \A m \in DOMAIN order : m > n => order[m] \notin Of(t, d)
      <4>1. n \in Nat /\ \A m \in DOMAIN order : m \in Nat
        BY <1>12
      <4> QED
        BY <3>2, <4>1
    <3>4. HopOf(route'[t][d]) = NoRoute
      BY <1>8, <2>1 DEF HopOf
    <3> QED
      BY <1>12, <1>16, <3>1, <3>3, <3>4, LeadsJoined
  <2>2. CASE <<t, d>> \notin over
    <3>1. \A m \in DOMAIN order : order[m] \notin Of(t, d)
      BY <1>10, <1>14, <2>2
    <3> QED
      BY <1>8, <1>12, <1>16, <1>17, <2>2, <3>1, LeadsJoined
  <2> QED
    BY <2>1, <2>2
<1>18. ASSUME NEW j \in Interfaces, NEW v, Leads(queue, OfLink(j), v, LinkOf(link[j]))
       PROVE  Leads(p, OfLink(j), v, LinkOf(link[j]))
  <2>1. \A m \in DOMAIN order : order[m] \notin OfLink(j)
    BY <1>10, <1>14
  <2> QED
    BY <1>12, <1>16, <1>18, <2>1, LeadsJoined
<1> HIDE DEF p
<1>19. Range(queue') = Range(p) \cup {x} /\ queue' \in Seq(Events)
  BY <1>7, <1>13, RangeGrown
<1>20. \A t \in Tables, d \in Destinations, v \in KernelHops \cup {NoRoute} :
          Leads(queue, Of(t, d), v, HopOf(route[t][d])) => Leads(queue', Of(t, d), v, HopOf(route'[t][d]))
  <2>1. ASSUME NEW t \in Tables, NEW d \in Destinations, NEW v,
               Leads(queue, Of(t, d), v, HopOf(route[t][d]))
        PROVE  Leads(queue', Of(t, d), v, HopOf(route'[t][d]))
    BY <1>7, <1>13, <1>17, <2>1, LeadsGrown
  <2> QED
    BY <2>1
<1>21. \A j \in Interfaces : LinkOf(link'[j]) = IF j = i THEN "dellink" ELSE LinkOf(link[j])
  BY <1>2 DEF TypeOK, LinkOf
<1>22. \A j \in Interfaces, v \in {"newlink", "dellink"} :
          Leads(queue, OfLink(j), v, LinkOf(link[j])) => Leads(queue', OfLink(j), v, LinkOf(link'[j]))
  <2>1. ASSUME NEW j \in Interfaces, NEW v, Leads(queue, OfLink(j), v, LinkOf(link[j]))
        PROVE  Leads(queue', OfLink(j), v, LinkOf(link'[j]))
    <3>1. Leads(queue', OfLink(j), v, IF x \in OfLink(j) THEN Said(x) ELSE LinkOf(link[j]))
      BY <1>7, <1>13, <1>18, <2>1, LeadsGrown
    <3> QED
      BY <1>7, <1>21, <3>1
  <2> QED
    BY <2>1
<1>23. \A t \in Tables, d \in Destinations :
          HopOf(route'[t][d]) # HopOf(route[t][d]) =>
              \E e \in Range(queue') : e \in Of(t, d) /\ Said(e) = HopOf(route'[t][d])
  <2>1. ASSUME NEW t \in Tables, NEW d \in Destinations,
               HopOf(route'[t][d]) # HopOf(route[t][d])
        PROVE  \E e \in Range(queue') : e \in Of(t, d) /\ Said(e) = HopOf(route'[t][d])
    <3>1. <<t, d>> \in over /\ HopOf(route'[t][d]) = NoRoute
      BY <1>8, <2>1 DEF HopOf
    <3> QED
      BY <1>10, <1>13, <1>19, <3>1
  <2> QED
    BY <2>1
<1>24. \A j \in Interfaces :
          LinkOf(link'[j]) # LinkOf(link[j]) =>
              \E e \in Range(queue') : e \in OfLink(j) /\ Said(e) = LinkOf(link'[j])
  BY <1>7, <1>19, <1>21
<1>25. \A t \in Tables, d \in Destinations :
          route'[t][d] # NoRoute => link'[route'[t][d].hop.interface] # NoIndex
  <2>1. ASSUME NEW t \in Tables, NEW d \in Destinations, route'[t][d] # NoRoute
        PROVE  link'[route'[t][d].hop.interface] # NoIndex
    <3>1. /\ route'[t][d] = route[t][d] /\ route[t][d] # NoRoute
          /\ route[t][d].hop.interface # i
      BY <1>4, <1>8, <2>1
    <3>2. route[t][d].hop.interface \in Interfaces /\ link[route[t][d].hop.interface] # NoIndex
      BY <3>1, HopIs DEF TypeOK, LinkInv
    <3> QED
      BY <1>2, <3>1, <3>2 DEF TypeOK
  <2> QED
    BY <2>1
<1>26. Range(queue) \subseteq Range(queue')
  BY <1>13, <1>19
<1>27. Moves(queue)
  BY <1>9, <1>19, <1>20, <1>22, <1>23, <1>24, <1>25, <1>26 DEF Moves
<1> QED
  BY <1>2, <1>4, <1>8, <1>27

-----------------------------------------------------------------------------
(* What was told and what is announced, after the kernel has moved. *)

LEMMA StateIs ==
    ASSUME TypeOK, NEW t \in Tables, NEW d \in Destinations
    PROVE  /\ StateOf(entity[t][d]) \in KernelHops \cup {NoRoute}
           /\ HopOf(route[t][d]) \in KernelHops \cup {NoRoute}
           /\ HopOf(route[t][d]) = NoRoute <=> route[t][d] = NoRoute
<1>1. entity[t][d] \in Entities \cup {NoEntity} /\ route[t][d] \in KernelRoutes \cup {NoRoute}
  BY DEF TypeOK
<1>2. StateOf(entity[t][d]) \in KernelHops \cup {NoRoute}
  BY <1>1 DEF StateOf, Entities
<1> QED
  BY <1>1, <1>2, HopIs DEF HopOf

LEMMA ToldKept ==
    ASSUME TypeOK, ToldInv, Moves(queue),
           \A t \in Tables, d \in Destinations : StateOf(entity'[t][d]) = StateOf(entity[t][d])
    PROVE  ToldInv'
  BY StateIs DEF ToldInv, Moves

LEMMA ToldTaken ==
    ASSUME TypeOK, ToldInv, queue # <<>>, Moves(Tail(queue)),
           \A t \in Tables, d \in Destinations :
               StateOf(entity'[t][d]) = IF Head(queue) \in Of(t, d) THEN Said(Head(queue))
                                                                    ELSE StateOf(entity[t][d])
    PROVE  ToldInv'
<1> SUFFICES ASSUME NEW t \in Tables, NEW d \in Destinations
             PROVE  Leads(queue', Of(t, d), StateOf(entity'[t][d]), HopOf(route'[t][d]))
  BY DEF ToldInv
<1>1. queue \in Seq(Events) /\ Head(queue) \in Events
  BY RangeTaken DEF TypeOK
<1>2. Leads(queue, Of(t, d), StateOf(entity[t][d]), HopOf(route[t][d]))
  BY DEF ToldInv
<1>3. Leads(Tail(queue), Of(t, d), StateOf(entity'[t][d]), HopOf(route[t][d]))
  BY <1>1, <1>2, LeadsTaken
<1>4. StateOf(entity'[t][d]) \in KernelHops \cup {NoRoute}
  <2>1. CASE Head(queue) \in Of(t, d)
    <3>1. Said(Head(queue)) \in KernelHops \cup {NoRoute}
      BY <2>1 DEF Of, RouteEvents, Said
    <3> QED
      BY <2>1, <3>1
  <2>2. CASE Head(queue) \notin Of(t, d)
    BY <2>2, StateIs
  <2> QED
    BY <2>1, <2>2
<1> QED
  BY <1>3, <1>4 DEF Moves

LEMMA LinkToldKept ==
    ASSUME TypeOK, LinkToldInv, Moves(queue), stuck => stuck',
           Range(tables') \ late' \subseteq Range(tables) \ late,
           \A t \in Range(tables) \ late, i \in Interfaces : Knows(t, i)' = Knows(t, i)
    PROVE  LinkToldInv'
<1> SUFFICES ASSUME ~stuck', NEW t \in Range(tables') \ late', NEW i \in Interfaces
             PROVE  Leads(queue', OfLink(i), Knows(t, i)', LinkOf(link'[i]))
  BY DEF LinkToldInv
<1>1. Leads(queue, OfLink(i), Knows(t, i), LinkOf(link[i]))
  BY DEF LinkToldInv
<1>2. Knows(t, i) \in {"newlink", "dellink"}
  BY DEF Knows
<1> QED
  BY <1>1, <1>2 DEF Moves

LEMMA LinkToldTaken ==
    ASSUME TypeOK, LinkToldInv, queue # <<>>, Moves(Tail(queue)), stuck => stuck',
           Range(tables') \ late' \subseteq Range(tables) \ late,
           \A t \in Range(tables') \ late', i \in Interfaces :
               ~stuck' => Knows(t, i)' = IF Head(queue) \in OfLink(i) THEN Said(Head(queue))
                                                                      ELSE Knows(t, i)
    PROVE  LinkToldInv'
<1> SUFFICES ASSUME ~stuck', NEW t \in Range(tables') \ late', NEW i \in Interfaces
             PROVE  Leads(queue', OfLink(i), Knows(t, i)', LinkOf(link'[i]))
  BY DEF LinkToldInv
<1>1. queue \in Seq(Events) /\ Head(queue) \in Events
  BY RangeTaken DEF TypeOK
<1>2. Leads(queue, OfLink(i), Knows(t, i), LinkOf(link[i]))
  BY DEF LinkToldInv
<1>3. Leads(Tail(queue), OfLink(i), Knows(t, i)', LinkOf(link[i]))
  BY <1>1, <1>2, LeadsTaken
<1>4. Knows(t, i)' \in {"newlink", "dellink"}
  BY DEF Knows
<1> QED
  BY <1>3, <1>4 DEF Moves

LEMMA LinkIs ==
    ASSUME NEW n
    PROVE  (LinkOf(n) = "newlink" <=> n # NoIndex) /\ (LinkOf(n) = "dellink" <=> n = NoIndex)
  BY DEF LinkOf

(* A configured route whose next hop is reachable is there, or it will be
   applied: where it was, or its next hop was not reachable, that was reported. *)
LEMMA PresentOn ==
    ASSUME TypeOK, PresentInv, NEW q, Moves(q), NEW H, Range(queue) \subseteq Range(q) \cup H,
           NEW t \in Tables, NEW d \in Destinations, NEW c \in Hops,
           Cared(t, d), entity[t][d].config = c,
           route'[t][d] = NoRoute, Reachable(t, c)'
    PROVE  \/ Coming(queue', t, d, c) \/ Noticed(t, d, c)
           \/ \E h \in H : Announces(h, t, d, c)
<1>1. CASE route[t][d] # NoRoute
  <2>1. HopOf(route'[t][d]) = NoRoute /\ HopOf(route[t][d]) # NoRoute
    BY <1>1, StateIs DEF HopOf
  <2>2. PICK x \in Range(queue') : x \in Of(t, d) /\ Said(x) = NoRoute
    BY <2>1 DEF Moves
  <2>3. x.op = "delroute"
    BY <2>2, SentinelsAssumption DEF Of, RouteEvents, Said, KernelHops, Hops
  <2> QED
    BY <2>2, <2>3 DEF Coming, Announces
<1>2. CASE ~Reachable(t, c)
  <2>1. CASE c.gateway = NoGateway
    <3>1. c.interface \in Interfaces /\ link[c.interface] = NoIndex /\ link'[c.interface] # NoIndex
      BY <1>2, <2>1 DEF Reachable, Hops
    <3>2. LinkOf(link'[c.interface]) = "newlink" /\ LinkOf(link[c.interface]) # "newlink"
      BY <3>1, LinkIs
    <3>3. PICK x \in Range(queue') : x \in OfLink(c.interface) /\ Said(x) = "newlink"
      BY <3>1, <3>2 DEF Moves
    <3>4. x.op = "newlink" /\ x \in LinkEvents /\ x.interface = c.interface
      BY <3>3 DEF OfLink, LinkEvents, Said
    <3> QED
      BY <2>1, <3>3, <3>4 DEF Coming, Announces
  <2>2. CASE c.gateway # NoGateway
    <3>1. PICK n \in Destinations :
             /\ c.gateway \in Covers[n] /\ route'[t][n] # NoRoute
             /\ route'[t][n].hop.gateway = NoGateway
             /\ c.interface \in {NoInterface, route'[t][n].hop.interface}
      BY <2>2 DEF Reachable
    <3>2. ~(/\ route[t][n] # NoRoute
            /\ route[t][n].hop.gateway = NoGateway
            /\ c.interface \in {NoInterface, route[t][n].hop.interface})
      BY <1>2, <2>2, <3>1 DEF Reachable
    <3>3. route'[t][n] \in KernelRoutes /\ route[t][n] \in KernelRoutes \cup {NoRoute}
      BY <3>1 DEF Moves, TypeOK
    <3>4. HopOf(route'[t][n]) = route'[t][n].hop /\ route'[t][n].hop \in KernelHops
      BY <3>3, HopIs
    <3>5. HopOf(route[t][n]) # route'[t][n].hop
      <4>1. CASE route[t][n] = NoRoute
        BY <3>3, <4>1, HopIs DEF HopOf
      <4>2. CASE route[t][n] # NoRoute
        BY <3>1, <3>2, <3>3, <4>2, HopIs
      <4> QED
        BY <4>1, <4>2
    <3>6. PICK x \in Range(queue') : x \in Of(t, n) /\ Said(x) = route'[t][n].hop
      BY <3>4, <3>5 DEF Moves
    <3>7. x \in RouteEvents /\ x.table = t /\ x.destination = n
      BY <3>6 DEF Of
    <3>8. x.op = "newroute"
      BY <3>3, <3>6, <3>7, HopIs DEF RouteEvents, Said
    <3> QED
      BY <3>1, <3>6, <3>7, <3>8 DEF Coming, Announces
  <2> QED
    BY <2>1, <2>2
<1>3. CASE route[t][d] = NoRoute /\ Reachable(t, c)
  <2>1. Coming(queue, t, d, c) \/ Noticed(t, d, c)
    BY <1>3 DEF PresentInv, PresentAt
  <2> QED
    BY <2>1 DEF Coming, Moves
<1> QED
  BY <1>1, <1>2, <1>3

LEMMA PresentStays ==
    ASSUME TypeOK, PresentInv, Moves(queue),
           NEW t \in Tables, NEW d \in Destinations, NEW c \in Hops,
           Cared(t, d), entity[t][d].config = c,
           route'[t][d] = NoRoute, Reachable(t, c)'
    PROVE  Coming(queue', t, d, c) \/ Noticed(t, d, c)
<1>1. PICK H : H = {}
  OBVIOUS
<1>2. Range(queue) \subseteq Range(queue) \cup H
  OBVIOUS
<1>3. \/ Coming(queue', t, d, c) \/ Noticed(t, d, c)
      \/ \E h \in H : Announces(h, t, d, c)
  BY <1>2, PresentOn
<1> QED
  BY <1>1, <1>3

LEMMA PresentKept ==
    ASSUME TypeOK, PresentInv, Moves(queue), NEW t \in Tables, NEW d \in Destinations,
           Cared(t, d)' => Cared(t, d) /\ entity'[t][d].config = entity[t][d].config,
           \A c : Noticed(t, d, c) => Noticed(t, d, c)'
    PROVE  PresentAt(t, d)'
<1>1. PICK c : c = entity'[t][d].config
  OBVIOUS
<1> SUFFICES ASSUME Cared(t, d)', Reachable(t, c)', route'[t][d] = NoRoute
             PROVE  Coming(queue', t, d, c) \/ Noticed(t, d, c)'
  BY <1>1 DEF PresentAt, Reachable, Coming, Noticed
<1>2. Cared(t, d) /\ entity[t][d].config = c
  BY <1>1
<1>3. c \in Hops
  BY <1>2, SentinelsAssumption DEF Cared, HasConfig, TypeOK, Entities
<1>4. Coming(queue', t, d, c) \/ Noticed(t, d, c)
  BY <1>2, <1>3, PresentStays
<1> QED
  BY <1>4

(* The same where the first event is handled. *)
LEMMA PresentTaken ==
    ASSUME TypeOK, PresentInv, queue # <<>>, Moves(Tail(queue)),
           NEW t \in Tables, NEW d \in Destinations,
           Cared(t, d)' => Cared(t, d) /\ entity'[t][d].config = entity[t][d].config,
           \A c : Noticed(t, d, c) => Noticed(t, d, c)',
           \A c \in Hops : /\ c = entity'[t][d].config /\ Announces(Head(queue), t, d, c)
                           /\ route'[t][d] = NoRoute /\ Cared(t, d)'
                           => Coming(queue', t, d, c) \/ Noticed(t, d, c)'
    PROVE  PresentAt(t, d)'
<1>1. PICK c : c = entity'[t][d].config
  OBVIOUS
<1> SUFFICES ASSUME Cared(t, d)', Reachable(t, c)', route'[t][d] = NoRoute
             PROVE  Coming(queue', t, d, c) \/ Noticed(t, d, c)'
  BY <1>1 DEF PresentAt, Reachable, Coming, Noticed
<1>2. Cared(t, d) /\ entity[t][d].config = c
  BY <1>1
<1>3. c \in Hops
  BY <1>2, SentinelsAssumption DEF Cared, HasConfig, TypeOK, Entities
<1>4. PICK H : H = {Head(queue)}
  OBVIOUS
<1>5. Range(queue) \subseteq Range(Tail(queue)) \cup H
  BY <1>4, RangeTaken DEF TypeOK
<1>6. \/ Coming(queue', t, d, c) \/ Noticed(t, d, c)
      \/ \E h \in H : Announces(h, t, d, c)
  BY <1>2, <1>3, <1>5, PresentOn
<1> QED
  BY <1>1, <1>3, <1>4, <1>6

-----------------------------------------------------------------------------
(* The requests to the kernel. *)

LEMMA OursOn ==
    ASSUME NEW t \in Tables, NEW d \in Destinations, OursAt(t, d),
           route'[t][d] = route[t][d],
           route[t][d] # NoRoute => link'[route[t][d].hop.interface] = link[route[t][d].hop.interface],
           \/ HasConfig(entity'[t][d]) /\ entity'[t][d].args = entity[t][d].args
           \/ ~HasConfig(entity[t][d])
           \/ ~Puts(t, d, entity[t][d].args),
           \A i \in Interfaces :
               t = Main /\ HasLease(i, d) /\ Puts(t, d, leased[i][d].args) => leased'[i][d] = leased[i][d]
    PROVE  OursAt(t, d)'
<1>1. \A a : Puts(t, d, a) => Puts(t, d, a)'
  BY DEF Puts, Deletable
<1>2. ASSUME HasConfig(entity[t][d]), Puts(t, d, entity[t][d].args)
      PROVE  OursAt(t, d)'
  <2>1. PICK a : a = entity[t][d].args
    OBVIOUS
  <2>2. Puts(t, d, a)' /\ entity'[t][d].args = a /\ HasConfig(entity'[t][d])
    BY <1>1, <1>2, <2>1
  <2>3. Puts(t, d, entity[t][d].args)'
    BY <2>2 DEF Puts, Deletable
  <2> QED
    BY <2>2, <2>3 DEF OursAt, HasConfig
<1>3. ASSUME t = Main, NEW i \in Interfaces, HasLease(i, d), Puts(t, d, leased[i][d].args)
      PROVE  OursAt(t, d)'
  <2>1. PICK a : a = leased[i][d].args
    OBVIOUS
  <2>2. Puts(t, d, a)' /\ leased'[i][d] = leased[i][d]
    BY <1>1, <1>3, <2>1
  <2>3. Puts(t, d, leased[i][d].args)'
    BY <2>1, <2>2 DEF Puts, Deletable
  <2>4. HasLease(i, d)'
    BY <1>3, <2>2 DEF HasLease
  <2> QED
    BY <1>3, <2>3, <2>4 DEF OursAt
<1> QED
  BY <1>2, <1>3 DEF OursAt

(* What was asked for as hop can be deleted as it was asked for. *)
LEMMA ReplaceIs ==
    ASSUME TypeOK, LinkInv, NEW t \in Tables, NEW d \in Destinations, NEW hop \in Hops,
           NEW q \in Seq(Events), Replace(t, d, hop, q), link' = link, created' = created
    PROVE  /\ Moves(q)
           /\ ours' \subseteq ours \cup {<<t, d>>}
           /\ route'[t][d] # NoRoute
           /\ \A n \in Tables, m \in Destinations :
                 (n # t \/ m # d) => route'[n][m] = route[n][m]
           /\ ArgsFor(hop) \in Args
           /\ \A a : a = ArgsFor(hop) => Puts(t, d, a)'
<1>1. PICK resolved \in Resolved(t, hop) :
         /\ route' = [route EXCEPT ![t][d] = [hop |-> resolved, own |-> TRUE]]
         /\ queue' = IF route[t][d] = [hop |-> resolved, own |-> TRUE] THEN q
                     ELSE Append(q, RouteEvent("newroute", t, d, resolved))
         /\ ours' = ours \cup {<<t, d>>}
  BY DEF Replace
<1> DEFINE r == [hop |-> resolved, own |-> TRUE]
<1>2. PICK i \in Interfaces : /\ resolved = [hop EXCEPT !.interface = i] /\ link[i] # NoIndex
                              /\ hop.interface \in {i, NoInterface}
  BY DEF Resolved
<1>3. /\ resolved \in KernelHops /\ resolved.interface = i /\ resolved.gateway = hop.gateway
  BY <1>2 DEF Hops, KernelHops
<1>4. r \in KernelRoutes /\ r.hop = resolved /\ r.own /\ r # NoRoute
  <2>1. r \in KernelRoutes
    BY <1>3 DEF KernelRoutes
  <2> QED
    BY <2>1, HopIs
<1> HIDE DEF r
<1>5. /\ route' = [route EXCEPT ![t][d] = r]
      /\ \/ queue' = Append(q, RouteEvent("newroute", t, d, r.hop))
         \/ queue' = q /\ route[t][d] = r
  BY <1>1, <1>4 DEF r
<1>6. Moves(q)
  <2>1. r \in KernelRoutes /\ link[r.hop.interface] # NoIndex
    BY <1>2, <1>3, <1>4
  <2> QED
    BY <1>5, <2>1, PutMoves
<1>7. /\ route'[t][d] = r
      /\ \A n \in Tables, m \in Destinations : (n # t \/ m # d) => route'[n][m] = route[n][m]
  BY <1>4, <1>5, SlotSet DEF TypeOK
<1>8. ArgsFor(hop) \in Args
  BY DEF ArgsFor, Args, Hops, NoIndex, TypeOK
<1>9. ASSUME NEW a, a = ArgsFor(hop)
      PROVE  Puts(t, d, a)'
  <2>1. a # NoArgs /\ a.hop = hop /\ (hop.interface # NoInterface => a.index = created[hop.interface])
    BY <1>8, <1>9, SentinelsAssumption DEF ArgsFor
  <2>2. hop.interface # NoInterface => hop.interface = i /\ created[i] = link'[i]
    BY <1>2 DEF LinkInv
  <2>3. Deletable(t, d, a)'
    BY <1>3, <1>4, <1>7, <2>1, <2>2 DEF Deletable
  <2> QED
    BY <2>1, <2>3 DEF Puts
<1> QED
  BY <1>1, <1>4, <1>6, <1>7, <1>8, <1>9

LEMMA RemovalIs ==
    ASSUME TypeOK, LinkInv, NEW t \in Tables, NEW d \in Destinations, NEW args,
           Removal(t, d, args), link' = link
    PROVE  /\ Moves(queue)
           /\ ours' \subseteq ours
           /\ \A n \in Tables, m \in Destinations :
                 (n # t \/ m # d) => route'[n][m] = route[n][m]
           /\ \/ route'[t][d] = route[t][d] /\ ~Puts(t, d, args)
              \/ <<t, d>> \notin ours'
           /\ ours' \subseteq Slots
<1>1. CASE Puts(t, d, args)
  <2>1. /\ route' = [route EXCEPT ![t][d] = NoRoute]
        /\ queue' = Append(queue, RouteEvent("delroute", t, d, route[t][d].hop))
        /\ ours' = ours \ {<<t, d>>} /\ route[t][d] # NoRoute
    BY <1>1 DEF Removal, Puts, Deletable
  <2>2. queue \in Seq(Events) /\ ours \subseteq Slots
    BY DEF TypeOK
  <2>3. Moves(queue)
    BY <2>1, <2>2, RemoveMoves
  <2>4. \A n \in Tables, m \in Destinations : (n # t \/ m # d) => route'[n][m] = route[n][m]
    BY <2>1, SlotSet DEF TypeOK
  <2> QED
    BY <2>1, <2>2, <2>3, <2>4
<1>2. CASE ~Puts(t, d, args)
  <2>1. route' = route /\ queue' = queue /\ ours' = ours
    BY <1>2 DEF Removal, Puts
  <2>2. queue \in Seq(Events) /\ ours \subseteq Slots
    BY DEF TypeOK
  <2> QED
    BY <1>2, <2>1, <2>2, MovesNone
<1> QED
  BY <1>1, <1>2

LEMMA EntityIs ==
    ASSUME NEW e \in Entities
    PROVE  /\ e # NoEntity /\ e.config \in Hops \cup {NoConfig}
           /\ e.state \in KernelHops \cup {NoRoute} /\ e.args \in Args \cup {NoArgs}
           /\ HasConfig(e) <=> e.config \in Hops
           /\ StateOf(e) = e.state
           /\ \A c \in Hops \cup {NoConfig} :
                 LET f == [e EXCEPT !.config = c] IN
                 f \in Entities /\ f.config = c /\ f.state = e.state /\ f.args = e.args
           /\ \A s \in KernelHops \cup {NoRoute} :
                 LET f == [e EXCEPT !.state = s] IN
                 f \in Entities /\ f.config = e.config /\ f.state = s /\ f.args = e.args
           /\ \A a \in Args \cup {NoArgs} :
                 LET f == [e EXCEPT !.args = a] IN
                 f \in Entities /\ f.config = e.config /\ f.state = e.state /\ f.args = a
<1>1. e # NoEntity
  BY SentinelsAssumption
<1>2. /\ e.config \in Hops \cup {NoConfig}
      /\ e.state \in KernelHops \cup {NoRoute} /\ e.args \in Args \cup {NoArgs}
  BY DEF Entities
<1>3. HasConfig(e) <=> e.config \in Hops
  BY <1>1, <1>2, SentinelsAssumption DEF HasConfig
<1> QED
  BY <1>1, <1>2, <1>3 DEF Entities, StateOf

LEMMA WithConfig ==
    ASSUME NEW e \in Entities, NEW c \in Hops \cup {NoConfig}
    PROVE  LET f == [e EXCEPT !.config = c] IN
           f \in Entities /\ f.config = c /\ f.state = e.state /\ f.args = e.args
  BY DEF Entities

LEMMA WithState ==
    ASSUME NEW e \in Entities, NEW s \in KernelHops \cup {NoRoute}
    PROVE  LET f == [e EXCEPT !.state = s] IN
           f \in Entities /\ f.config = e.config /\ f.state = s /\ f.args = e.args
  BY DEF Entities

LEMMA WithArgs ==
    ASSUME NEW e \in Entities, NEW a \in Args \cup {NoArgs}
    PROVE  LET f == [e EXCEPT !.args = a] IN
           f \in Entities /\ f.config = e.config /\ f.state = e.state /\ f.args = a
  BY DEF Entities

LEMMA NewIs == New \in Entities /\ New.config = NoConfig /\ New.state = NoRoute /\ New.args = NoArgs
  BY DEF New, Entities

(* apply() of one entity: the kernel is asked for its route, or nothing. *)
LEMMA ApplyIs ==
    ASSUME TypeOK, LinkInv, NEW t \in Tables, NEW d \in Destinations,
           NEW e \in Entities \cup {NoEntity}, NEW q \in Seq(Events),
           Apply(t, d, e, q), link' = link, created' = created
    PROVE  /\ Moves(q)
           /\ entity' \in [Tables -> [Destinations -> Entities \cup {NoEntity}]]
           /\ ours' \subseteq ours \cup {<<t, d>>}
           /\ ours' \in SUBSET Slots
           /\ \A n \in Tables, m \in Destinations :
                 (n # t \/ m # d) => route'[n][m] = route[n][m] /\ entity'[n][m] = entity[n][m]
           /\ HasConfig(entity'[t][d]) <=> HasConfig(e)
           /\ HasConfig(e) => entity'[t][d].config = e.config
           /\ StateOf(entity'[t][d]) = StateOf(e)
           /\ \/ /\ route'[t][d] = route[t][d] /\ entity'[t][d] = e /\ ours' = ours
                 /\ ~Applies(t, d, e) \/ ~Accepts(t, e.config)
                 /\ queue' = q /\ route' = route
              \/ /\ HasConfig(e) /\ route'[t][d] # NoRoute
                 /\ \A a : a = entity'[t][d].args => Puts(t, d, a)'
<1>1. entity \in [Tables -> [Destinations -> Entities \cup {NoEntity}]] /\ ours \subseteq Slots
  BY DEF TypeOK
<1>2. CASE Applies(t, d, e) /\ Accepts(t, e.config)
  <2>1. HasConfig(e)
    BY <1>2 DEF Applies
  <2>2. e \in Entities /\ e.config \in Hops
    BY <2>1, EntityIs DEF HasConfig
  <2> DEFINE f == [e EXCEPT !.args = ArgsFor(e.config)]
  <2>3. Replace(t, d, e.config, q) /\ entity' = [entity EXCEPT ![t][d] = f]
    BY <1>2 DEF Apply
  <2>4. /\ Moves(q)
        /\ ours' \subseteq ours \cup {<<t, d>>}
        /\ route'[t][d] # NoRoute
        /\ \A n \in Tables, m \in Destinations :
              (n # t \/ m # d) => route'[n][m] = route[n][m]
        /\ ArgsFor(e.config) \in Args
        /\ \A a : a = ArgsFor(e.config) => Puts(t, d, a)'
    BY <2>2, <2>3, ReplaceIs
  <2>5. f \in Entities /\ f.config = e.config /\ f.state = e.state /\ f.args = ArgsFor(e.config)
    BY <2>2, <2>4, EntityIs
  <2> HIDE DEF f
  <2>6. /\ entity' \in [Tables -> [Destinations -> Entities \cup {NoEntity}]]
        /\ entity'[t][d] = f
        /\ \A n \in Tables, m \in Destinations : (n # t \/ m # d) => entity'[n][m] = entity[n][m]
    BY <1>1, <2>3, <2>5, SlotSet
  <2>7. /\ HasConfig(f) /\ StateOf(f) = StateOf(e)
    BY <2>2, <2>5, EntityIs
  <2>8. ours' \in SUBSET Slots
    BY <1>1, <2>4 DEF Slots
  <2> QED
    BY <2>1, <2>4, <2>5, <2>6, <2>7, <2>8
<1>3. CASE ~(Applies(t, d, e) /\ Accepts(t, e.config))
  <2>1. /\ entity' = [entity EXCEPT ![t][d] = e] /\ queue' = q
        /\ route' = route /\ ours' = ours
    BY <1>3 DEF Apply
  <2>2. /\ entity' \in [Tables -> [Destinations -> Entities \cup {NoEntity}]]
        /\ entity'[t][d] = e
        /\ \A n \in Tables, m \in Destinations : (n # t \/ m # d) => entity'[n][m] = entity[n][m]
    BY <1>1, <2>1, SlotSet
  <2>3. Moves(q)
    BY <2>1, MovesNone
  <2> QED
    BY <1>1, <1>3, <2>1, <2>2, <2>3
<1> QED
  BY <1>2, <1>3

LEMMA WasRemoved ==
    ASSUME NEW x, NEW t, NEW d, NEW c, x \in Of(t, d), Said(x) = NoRoute
    PROVE  Announces(x, t, d, c)
  BY SentinelsAssumption DEF Of, RouteEvents, Said, KernelHops, Hops, Announces

LEMMA WasPut ==
    ASSUME NEW x, NEW t, NEW d, NEW n, NEW c, NEW hop, x \in Of(t, n), Said(x) = hop,
           hop \in KernelHops, c.gateway \in Covers[n]
    PROVE  Announces(x, t, d, c)
  BY SentinelsAssumption DEF Of, RouteEvents, Said, KernelHops, Hops, Announces

LEMMA WasCreated ==
    ASSUME NEW x, NEW t, NEW d, NEW c, x \in OfLink(c.interface), Said(x) = "newlink",
           c.gateway = NoGateway
    PROVE  Announces(x, t, d, c)
  BY DEF OfLink, LinkEvents, Said, Announces

(* A route is there when it was applied, unless its next hop is not reachable;
   or what the table does not know of it yet is announced. *)
LEMMA ApplyPresent ==
    ASSUME TypeOK, LinkInv, NEW t \in Tables, NEW d \in Destinations,
           NEW e \in Entities, HasConfig(e), NEW q \in Seq(Events),
           Apply(t, d, e, q), link' = link, created' = created,
           \A n \in Destinations \ {d} :
               Leads(q, Of(t, n), StateOf(entity[t][n]), HopOf(route[t][n])),
           Leads(q, Of(t, d), e.state, HopOf(route[t][d])),
           \A i \in Interfaces : Leads(q, OfLink(i), Knows(t, i), LinkOf(link[i])),
           NEW c, c = e.config, route'[t][d] = NoRoute, Reachable(t, c)'
    PROVE  Coming(queue', t, d, c) \/ (c.gateway = NoGateway /\ Telling(t, c.interface))
<1>1. /\ route' = route /\ queue' = q
      /\ ~Applies(t, d, e) \/ ~Accepts(t, c)
  BY ApplyIs
<1>2. Reachable(t, c) /\ route[t][d] = NoRoute
  BY <1>1 DEF Reachable
<1>3. c \in Hops /\ e # NoEntity
  BY EntityIs
<1>4. CASE e.state = c
  <2>1. e.state # NoRoute /\ HopOf(route[t][d]) = NoRoute
    BY <1>2, <1>3, <1>4, SentinelsAssumption DEF HopOf
  <2>2. PICK x \in Range(q) : x \in Of(t, d) /\ Said(x) = NoRoute
    BY <2>1, LeadsTo
  <2> QED
    BY <1>1, <2>2, WasRemoved DEF Coming
<1>5. CASE e.state # c /\ c.gateway = NoGateway
  <2>1. c.interface \in Interfaces /\ link[c.interface] # NoIndex
    BY <1>2, <1>3, <1>5 DEF Reachable, Hops
  <2>2. Accepts(t, c)
    <3>1. c.interface \in {i \in Interfaces : /\ link[i] # NoIndex
                                              /\ c.interface \in {i, NoInterface}
                                              /\ c.gateway # NoGateway => i \in Over(t, c.gateway)}
      BY <1>5, <2>1
    <3> QED
      BY <3>1 DEF Accepts, Resolved
  <2>3. created[c.interface] # 0
    BY <2>1 DEF LinkInv, NoIndex
  <2>4. ~Accessible([entity[t] EXCEPT ![d] = e], t, c)
    BY <1>1, <1>5, <2>2, <2>3 DEF Applies
  <2>5. c.interface \notin interfaces[t]
    BY <1>5, <2>4 DEF Accessible
  <2>6. CASE Telling(t, c.interface)
    BY <1>5, <2>6
  <2>7. CASE ~Telling(t, c.interface)
    <3>1. Knows(t, c.interface) = "dellink" /\ LinkOf(link[c.interface]) = "newlink"
      BY <2>1, <2>5, <2>7, LinkIs DEF Knows
    <3>2. PICK x \in Range(q) : x \in OfLink(c.interface) /\ Said(x) = "newlink"
      <4>1. Leads(q, OfLink(c.interface), "dellink", "newlink")
        BY <2>1, <3>1
      <4> QED
        BY <4>1, LeadsTo
    <3> QED
      BY <1>1, <1>5, <3>2, WasCreated DEF Coming
  <2> QED
    BY <2>6, <2>7
<1>6. CASE e.state # c /\ c.gateway # NoGateway
  <2>1. PICK n \in Destinations :
           /\ c.gateway \in Covers[n] /\ route[t][n] # NoRoute
           /\ route[t][n].hop.gateway = NoGateway
           /\ c.interface \in {NoInterface, route[t][n].hop.interface}
    BY <1>2, <1>6 DEF Reachable
  <2> DEFINE i == route[t][n].hop.interface
  <2>2. route[t][n] \in KernelRoutes /\ n # d
    BY <1>2, <2>1 DEF TypeOK
  <2>3. i \in Interfaces /\ link[i] # NoIndex /\ HopOf(route[t][n]) = route[t][n].hop
    BY <2>1, <2>2, HopIs DEF LinkInv
  <2>4. route[t][n].hop = [gateway |-> NoGateway, interface |-> i]
    BY <2>1, <2>2, HopIs DEF KernelHops
  <2>5. i \in Over(t, c.gateway)
    BY <2>1, <2>3, <2>4 DEF Over
  <2> HIDE DEF i
  <2>6. Accepts(t, c)
    <3>1. PICK j \in Interfaces : j = i
      BY <2>3
    <3>2. /\ link[j] # NoIndex /\ c.interface \in {j, NoInterface}
          /\ c.gateway # NoGateway => j \in Over(t, c.gateway)
      BY <2>1, <2>3, <2>5, <3>1 DEF i
    <3>3. [c EXCEPT !.interface = j] \in Resolved(t, c)
      BY <3>2 DEF Resolved
    <3> QED
      BY <3>3 DEF Accepts
  <2>7. c.interface # NoInterface => created[c.interface] # 0
    BY <2>1, <2>3 DEF LinkInv, NoIndex, i
  <2>8. ~Accessible([entity[t] EXCEPT ![d] = e], t, c)
    BY <1>1, <1>6, <2>6, <2>7 DEF Applies
  <2>9. StateOf(entity[t][n]) # route[t][n].hop
    <3>1. SUFFICES ASSUME StateOf(entity[t][n]) = route[t][n].hop
                   PROVE  FALSE
      OBVIOUS
    <3>2. StateOf(entity[t][n]) # NoRoute
      BY <2>2, <3>1, HopIs
    <3>3. /\ entity[t][n] # NoEntity /\ entity[t][n].state = route[t][n].hop
          /\ entity[t][n].state # NoRoute
      BY <3>1, <3>2 DEF StateOf
    <3>4. [entity[t] EXCEPT ![d] = e][n] = entity[t][n]
      BY <2>2 DEF TypeOK
    <3> QED
      BY <1>6, <2>1, <2>8, <3>3, <3>4 DEF Accessible
  <2>10. PICK x \in Range(q) : x \in Of(t, n) /\ Said(x) = route[t][n].hop
    <3>1. Leads(q, Of(t, n), StateOf(entity[t][n]), route[t][n].hop)
      BY <2>2, <2>3
    <3> QED
      BY <2>9, <3>1, LeadsTo
  <2>11. route[t][n].hop \in KernelHops
    BY <2>2, HopIs
  <2> QED
    BY <1>1, <2>1, <2>10, <2>11, WasPut DEF Coming
<1> QED
  BY <1>4, <1>5, <1>6

-----------------------------------------------------------------------------
(* The kernel, and the programs beside the agent. *)

LEMMA OthersKeep ==
    ASSUME IInv, Moves(queue),
           created' \in [Interfaces -> Nat], link' \in [Interfaces -> Nat],
           \A i \in Interfaces : link'[i] \in {NoIndex, created'[i]},
           Outside, ours' \in SUBSET Slots, OursInv',
           UNCHANGED <<data, previous, provider, loop, late, stuck>>
    PROVE  IInv'
<1>1. TypeOK /\ LinkInv /\ LoopInv /\ SyncInv /\ KnownInv /\ ToldInv /\ LinkToldInv /\ PresentInv
  BY DEF IInv
<1>2. /\ data' = data /\ previous' = previous /\ tables' = tables /\ interfaces' = interfaces
      /\ entity' = entity /\ leased' = leased /\ task' = task /\ event' = event
      /\ left' = left /\ todo' = todo /\ late' = late /\ stuck' = stuck
  BY DEF provider, loop
<1>3. changes' \in 0..MaxChanges
  BY <1>1, BoundAssumption DEF Outside, TypeOK
<1>4. TypeOK'
  BY <1>1, <1>2, <1>3 DEF TypeOK, Moves
<1>5. LinkInv'
  BY DEF LinkInv, Moves
<1>6. LoopInv'
  BY <1>1, <1>2 DEF LoopInv, Configuring, HasConfig, HasLease, Wanted
<1>7. SyncInv' /\ KnownInv'
  BY <1>1, <1>2 DEF SyncInv, KnownInv, Due, Configuring, HasConfig, Synced
<1>8. ToldInv'
  BY <1>1, <1>2, ToldKept
<1>9. LinkToldInv'
  <2>1. \A t \in Range(tables) \ late, i \in Interfaces : Knows(t, i)' = Knows(t, i)
    BY <1>2 DEF Knows, Telling
  <2> QED
    BY <1>1, <1>2, <2>1, LinkToldKept
<1>10. PresentInv'
  <2>1. \A t \in Tables, d \in Destinations :
           /\ Cared(t, d)' => Cared(t, d) /\ entity'[t][d].config = entity[t][d].config
           /\ \A c : Noticed(t, d, c) => Noticed(t, d, c)'
    BY <1>2 DEF Cared, Due, Configuring, HasConfig, Noticed, Telling
  <2> QED
    BY <1>1, <2>1, PresentKept DEF PresentInv
<1> QED
  BY <1>4, <1>5, <1>6, <1>7, <1>8, <1>9, <1>10 DEF IInv

LEMMA CreateLinkKeeps ==
    ASSUME IInv, NEW i \in Interfaces, CreateLink(i)
    PROVE  IInv'
<1>1. TypeOK /\ LinkInv /\ OursInv
  BY DEF IInv
<1>2. /\ Outside /\ link[i] = NoIndex
      /\ created' = [created EXCEPT ![i] = @ + 1]
      /\ link' = [link EXCEPT ![i] = created[i] + 1]
      /\ queue' = Append(queue, LinkEvent("newlink", i))
      /\ route' = route /\ ours' = ours
      /\ UNCHANGED <<data, previous, provider, loop, late, stuck>>
  BY DEF CreateLink
<1>3. /\ created' \in [Interfaces -> Nat] /\ link' \in [Interfaces -> Nat]
      /\ \A j \in Interfaces : link'[j] \in {NoIndex, created'[j]}
      /\ link'[i] # NoIndex /\ \A j \in Interfaces : j # i => link'[j] = link[j]
  <2>1. created \in [Interfaces -> Nat] /\ link \in [Interfaces -> Nat]
    BY <1>1 DEF TypeOK
  <2>2. \A j \in Interfaces : link[j] \in {NoIndex, created[j]}
    BY <1>1 DEF LinkInv
  <2> QED
    BY <1>2, <2>1, <2>2 DEF NoIndex
<1>4. \A t \in Tables, d \in Destinations : route[t][d] # NoRoute =>
         /\ route[t][d].hop.interface \in Interfaces \ {i}
         /\ link'[route[t][d].hop.interface] = link[route[t][d].hop.interface]
         /\ link[route[t][d].hop.interface] # NoIndex
  BY <1>1, <1>2, <1>3, HopIs DEF TypeOK, LinkInv
<1>5. Moves(queue)
  <2> DEFINE x == LinkEvent("newlink", i)
  <2>1. /\ x \in Events /\ x \in OfLink(i) /\ Said(x) = "newlink"
        /\ \A t \in Tables, d \in Destinations : x \notin Of(t, d)
        /\ \A j \in Interfaces : x \in OfLink(j) => j = i
    BY LinkEventIs
  <2> HIDE DEF x
  <2>2. queue' = Append(queue, x) /\ queue \in Seq(Events)
    BY <1>1, <1>2 DEF x, TypeOK
  <2>3. \A j \in Interfaces :
           LinkOf(link'[j]) = IF x \in OfLink(j) THEN Said(x) ELSE LinkOf(link[j])
    BY <1>3, <2>1, LinkIs
  <2>4. route' \in [Tables -> [Destinations -> KernelRoutes \cup {NoRoute}]]
    BY <1>1, <1>2 DEF TypeOK
  <2> QED
    BY <1>2, <1>4, <2>1, <2>2, <2>3, <2>4, MovesOnce
<1>6. OursInv' /\ ours' \in SUBSET Slots
  <2>1. ASSUME NEW s \in ours
        PROVE  OursAt(s[1], s[2])'
    <3>1. s[1] \in Tables /\ s[2] \in Destinations /\ OursAt(s[1], s[2])
      BY <1>1 DEF TypeOK, Slots, OursInv
    <3>2. entity' = entity /\ leased' = leased
      BY <1>2 DEF provider
    <3> QED
      BY <1>2, <1>4, <3>1, <3>2, OursOn DEF OursAt
  <2> QED
    BY <1>1, <1>2, <2>1 DEF OursInv, TypeOK
<1> QED
  BY <1>2, <1>3, <1>5, <1>6, OthersKeep

LEMMA TouchLinkKeeps ==
    ASSUME IInv, NEW i \in Interfaces, TouchLink(i)
    PROVE  IInv'
<1>1. TypeOK /\ LinkInv /\ OursInv
  BY DEF IInv
<1>2. /\ Outside /\ link[i] # NoIndex
      /\ queue' = Append(queue, LinkEvent("newlink", i))
      /\ created' = created /\ link' = link /\ route' = route /\ ours' = ours
      /\ UNCHANGED <<data, previous, provider, loop, late, stuck>>
  BY DEF TouchLink, kernel
<1>3. Moves(queue)
  <2> DEFINE x == LinkEvent("newlink", i)
  <2>1. /\ x \in Events /\ x \in OfLink(i) /\ Said(x) = "newlink"
        /\ \A t \in Tables, d \in Destinations : x \notin Of(t, d)
        /\ \A j \in Interfaces : x \in OfLink(j) => j = i
    BY LinkEventIs
  <2> HIDE DEF x
  <2>2. queue' = Append(queue, x) /\ queue \in Seq(Events)
    BY <1>1, <1>2 DEF x, TypeOK
  <2>3. \A j \in Interfaces :
           LinkOf(link'[j]) = IF x \in OfLink(j) THEN Said(x) ELSE LinkOf(link[j])
    BY <1>2, <2>1, LinkIs
  <2>4. /\ route' \in [Tables -> [Destinations -> KernelRoutes \cup {NoRoute}]]
        /\ \A t \in Tables, d \in Destinations :
              route'[t][d] # NoRoute => link'[route'[t][d].hop.interface] # NoIndex
    BY <1>1, <1>2 DEF TypeOK, LinkInv
  <2> QED
    BY <1>2, <2>1, <2>2, <2>3, <2>4, MovesOnce
<1>4. OursInv' /\ ours' \in SUBSET Slots
  <2>1. entity' = entity /\ leased' = leased
    BY <1>2 DEF provider
  <2> QED
    BY <1>1, <1>2, <2>1 DEF OursInv, OursAt, HasConfig, HasLease, Puts, Deletable, TypeOK
<1>5. /\ created' \in [Interfaces -> Nat] /\ link' \in [Interfaces -> Nat]
      /\ \A j \in Interfaces : link'[j] \in {NoIndex, created'[j]}
  BY <1>1, <1>2 DEF TypeOK, LinkInv
<1> QED
  BY <1>2, <1>3, <1>4, <1>5, OthersKeep

LEMMA LeaseReportedKeeps ==
    ASSUME IInv, NEW i \in Interfaces, NEW routes \in LeaseRoutes, LeaseReported(i, routes)
    PROVE  IInv'
<1>1. TypeOK /\ LinkInv /\ OursInv
  BY DEF IInv
<1>2. PICK op \in {"preinit", "bound", "lost"} : queue' = Append(queue, LeaseEvent(op, i, routes))
  BY DEF LeaseReported
<1>3. /\ Outside
      /\ created' = created /\ link' = link /\ route' = route /\ ours' = ours
      /\ UNCHANGED <<data, previous, provider, loop, late, stuck>>
  BY DEF LeaseReported, kernel
<1>4. Moves(queue)
  <2> DEFINE x == LeaseEvent(op, i, routes)
  <2>1. /\ x \in Events
        /\ \A t \in Tables, d \in Destinations : x \notin Of(t, d)
        /\ \A j \in Interfaces : x \notin OfLink(j)
    BY LeaseEventIs
  <2> HIDE DEF x
  <2>2. queue' = Append(queue, x) /\ queue \in Seq(Events)
    BY <1>1, <1>2 DEF x, TypeOK
  <2>3. /\ route' \in [Tables -> [Destinations -> KernelRoutes \cup {NoRoute}]]
        /\ \A t \in Tables, d \in Destinations :
              route'[t][d] # NoRoute => link'[route'[t][d].hop.interface] # NoIndex
    BY <1>1, <1>3 DEF TypeOK, LinkInv
  <2> QED
    BY <1>3, <2>1, <2>2, <2>3, MovesOnce
<1>5. OursInv' /\ ours' \in SUBSET Slots
  <2>1. entity' = entity /\ leased' = leased
    BY <1>3 DEF provider
  <2> QED
    BY <1>1, <1>3, <2>1 DEF OursInv, OursAt, HasConfig, HasLease, Puts, Deletable, TypeOK
<1>6. /\ created' \in [Interfaces -> Nat] /\ link' \in [Interfaces -> Nat]
      /\ \A j \in Interfaces : link'[j] \in {NoIndex, created'[j]}
  BY <1>1, <1>3 DEF TypeOK, LinkInv
<1> QED
  BY <1>3, <1>4, <1>5, <1>6, OthersKeep

(* Routes of the agent that were not touched are as they were. *)
LEMMA OursUntouched ==
    ASSUME TypeOK, OursInv, UNCHANGED <<link, entity, leased>>, ours' \subseteq ours,
           \A s \in ours' : route'[s[1]][s[2]] = route[s[1]][s[2]]
    PROVE  OursInv' /\ ours' \in SUBSET Slots
<1>1. ASSUME NEW s \in ours'
      PROVE  OursAt(s[1], s[2])'
  <2>1. s[1] \in Tables /\ s[2] \in Destinations /\ OursAt(s[1], s[2])
    BY DEF TypeOK, Slots, OursInv
  <2> QED
    BY <2>1, OursOn DEF OursAt
<1> QED
  BY <1>1 DEF OursInv, TypeOK

LEMMA DeleteLinkKeeps ==
    ASSUME IInv, NEW i \in Interfaces, DeleteLink(i)
    PROVE  IInv'
<1>1. TypeOK /\ LinkInv /\ OursInv
  BY DEF IInv
<1>2. /\ Outside /\ created' = created
      /\ UNCHANGED <<data, previous, provider, loop, late, stuck>>
  BY DEF DeleteLink
<1>3. /\ Moves(queue)
      /\ link' = [link EXCEPT ![i] = NoIndex]
      /\ \A t \in Tables, d \in Destinations :
            IF route[t][d] # NoRoute /\ route[t][d].hop.interface = i
            THEN route'[t][d] = NoRoute /\ <<t, d>> \notin ours'
            ELSE route'[t][d] = route[t][d]
      /\ ours' \subseteq ours
  BY <1>1, DeleteLinkIs
<1>4. OursInv' /\ ours' \in SUBSET Slots
  <2>1. ASSUME NEW s \in ours'
        PROVE  OursAt(s[1], s[2])'
    <3>1. s[1] \in Tables /\ s[2] \in Destinations /\ s = <<s[1], s[2]>> /\ OursAt(s[1], s[2])
      BY <1>1, <1>3 DEF TypeOK, Slots, OursInv
    <3>2. route'[s[1]][s[2]] = route[s[1]][s[2]]
      BY <1>3, <3>1
    <3>3. route[s[1]][s[2]] # NoRoute =>
             link'[route[s[1]][s[2]].hop.interface] = link[route[s[1]][s[2]].hop.interface]
      <4>1. ASSUME route[s[1]][s[2]] # NoRoute
            PROVE  link'[route[s[1]][s[2]].hop.interface] = link[route[s[1]][s[2]].hop.interface]
        <5>1. route[s[1]][s[2]].hop.interface \in Interfaces \ {i}
          BY <1>1, <1>3, <3>1, <4>1, HopIs DEF TypeOK
        <5> QED
          BY <1>1, <1>3, <5>1 DEF TypeOK
      <4> QED
        BY <4>1
    <3>4. entity' = entity /\ leased' = leased
      BY <1>2 DEF provider
    <3> QED
      BY <3>1, <3>2, <3>3, <3>4, OursOn DEF OursAt
  <2> QED
    BY <1>1, <1>3, <2>1 DEF OursInv, TypeOK
<1>5. /\ created' \in [Interfaces -> Nat] /\ link' \in [Interfaces -> Nat]
      /\ \A j \in Interfaces : link'[j] \in {NoIndex, created'[j]}
  BY <1>1, <1>2, <1>3 DEF TypeOK, LinkInv, NoIndex
<1> QED
  BY <1>2, <1>3, <1>4, <1>5, OthersKeep

LEMMA OtherPutsKeeps ==
    ASSUME IInv, NEW t \in Tables, NEW d \in Destinations, NEW hop \in KernelHops,
           OtherPuts(t, d, hop)
    PROVE  IInv'
<1>1. TypeOK /\ LinkInv /\ OursInv
  BY DEF IInv
<1> DEFINE r == [hop |-> hop, own |-> FALSE]
<1>2. r \in KernelRoutes /\ r.hop = hop
  BY DEF KernelRoutes
<1> HIDE DEF r
<1>3. /\ Outside /\ link[hop.interface] # NoIndex
      /\ route' = [route EXCEPT ![t][d] = r]
      /\ queue' = Append(queue, RouteEvent("newroute", t, d, hop))
      /\ ours' = ours \ {<<t, d>>} /\ created' = created /\ link' = link
      /\ UNCHANGED <<data, previous, provider, loop, late, stuck>>
  BY DEF OtherPuts, r
<1>4. Moves(queue)
  <2>1. queue \in Seq(Events) /\ link[r.hop.interface] # NoIndex
        /\ queue' = Append(queue, RouteEvent("newroute", t, d, r.hop))
    BY <1>1, <1>2, <1>3 DEF TypeOK
  <2> QED
    BY <1>1, <1>2, <1>3, <2>1, PutMoves
<1>5. OursInv' /\ ours' \in SUBSET Slots
  <2>1. \A s \in ours' : route'[s[1]][s[2]] = route[s[1]][s[2]]
    <3>1. \A n \in Tables, m \in Destinations : (n # t \/ m # d) => route'[n][m] = route[n][m]
      BY <1>1, <1>2, <1>3, SlotSet DEF TypeOK
    <3>2. \A s \in ours' : s[1] \in Tables /\ s[2] \in Destinations /\ s = <<s[1], s[2]>>
                           /\ s # <<t, d>>
      BY <1>1, <1>3 DEF TypeOK, Slots
    <3> QED
      BY <3>1, <3>2
  <2> QED
    BY <1>1, <1>3, <2>1, OursUntouched DEF provider
<1>6. /\ created' \in [Interfaces -> Nat] /\ link' \in [Interfaces -> Nat]
      /\ \A j \in Interfaces : link'[j] \in {NoIndex, created'[j]}
  BY <1>1, <1>3 DEF TypeOK, LinkInv
<1> QED
  BY <1>3, <1>4, <1>5, <1>6, OthersKeep

LEMMA OtherRemovesKeeps ==
    ASSUME IInv, NEW t \in Tables, NEW d \in Destinations, OtherRemoves(t, d)
    PROVE  IInv'
<1>1. TypeOK /\ LinkInv /\ OursInv
  BY DEF IInv
<1>2. /\ Outside /\ route[t][d] # NoRoute
      /\ route' = [route EXCEPT ![t][d] = NoRoute]
      /\ queue' = Append(queue, RouteEvent("delroute", t, d, route[t][d].hop))
      /\ ours' = ours \ {<<t, d>>} /\ created' = created /\ link' = link
      /\ UNCHANGED <<data, previous, provider, loop, late, stuck>>
  BY DEF OtherRemoves
<1>3. Moves(queue)
  BY <1>1, <1>2, RemoveMoves DEF TypeOK
<1>4. OursInv' /\ ours' \in SUBSET Slots
  <2>1. \A s \in ours' : route'[s[1]][s[2]] = route[s[1]][s[2]]
    <3>1. \A n \in Tables, m \in Destinations : (n # t \/ m # d) => route'[n][m] = route[n][m]
      BY <1>1, <1>2, SlotSet DEF TypeOK
    <3>2. \A s \in ours' : s[1] \in Tables /\ s[2] \in Destinations /\ s = <<s[1], s[2]>>
                           /\ s # <<t, d>>
      BY <1>1, <1>2 DEF TypeOK, Slots
    <3> QED
      BY <3>1, <3>2
  <2> QED
    BY <1>1, <1>2, <2>1, OursUntouched DEF provider
<1>5. /\ created' \in [Interfaces -> Nat] /\ link' \in [Interfaces -> Nat]
      /\ \A j \in Interfaces : link'[j] \in {NoIndex, created'[j]}
  BY <1>1, <1>2 DEF TypeOK, LinkInv
<1> QED
  BY <1>2, <1>3, <1>4, <1>5, OthersKeep

-----------------------------------------------------------------------------
(* A commit and its rollback: how they begin and end. *)

(* Nothing is expected of a table before it is reached. *)
LEMMA Restarts ==
    ASSUME left' \in SetToSeqs({t \in Tables : data'[t] # NoTable}),
           task' \in {"commit", "rollback"}
    PROVE  left' \in Seq(Tables) /\ SyncInv' /\ PresentInv'
<1> DEFINE S == {t \in Tables : data'[t] # NoTable}
<1>1. IsFiniteSet(S)
  BY FinitenessAssumption, FS_Subset
<1>2. left' \in Seq(S) /\ Range(left') = S
  BY <1>1, OrderIs
<1>3. left' \in Seq(Tables)
  BY <1>2
<1>4. \A t \in Tables, d \in Destinations : data'[t] # NoTable => Due(t, d)'
  BY <1>2 DEF Due, Configuring
<1>5. SyncInv'
  BY <1>4 DEF SyncInv
<1>6. PresentInv'
  BY <1>4 DEF PresentInv, PresentAt, Cared
<1> QED
  BY <1>3, <1>5, <1>6

(* Where neither the kernel nor an entity changes. *)
LEMMA QuietKeeps ==
    ASSUME IInv, TypeOK', UNCHANGED <<kernel, queue, entity, leased, ours>>
    PROVE  LinkInv' /\ OursInv' /\ ToldInv' /\ Moves(queue)
<1>1. TypeOK /\ LinkInv /\ OursInv /\ ToldInv
  BY DEF IInv
<1>2. link' = link /\ created' = created /\ route' = route
  BY DEF kernel
<1>3. LinkInv'
  BY <1>1, <1>2 DEF LinkInv
<1>4. OursInv'
  BY <1>1, <1>2 DEF OursInv, OursAt, HasConfig, HasLease, Puts, Deletable
<1>5. ToldInv'
  BY <1>1, <1>2 DEF ToldInv
<1>6. Moves(queue)
  BY <1>1, <1>2, MovesNone DEF TypeOK
<1> QED
  BY <1>3, <1>4, <1>5, <1>6

LEMMA Unheard ==
    ASSUME task \in {"idle", "commit", "rollback"} \cup OfLease
    PROVE  /\ \A t, i : ~Telling(t, i)
           /\ \A t, d, c : ~Noticed(t, d, c)
  BY DEF Telling, Noticed, OfLease

LEMMA CommitKeeps ==
    ASSUME IInv, NEW d \in Configurations, Commit(d)
    PROVE  IInv'
<1>1. TypeOK /\ LoopInv /\ KnownInv /\ LinkToldInv
  BY DEF IInv
<1>2. /\ task = "idle" /\ Outside /\ data' = d /\ task' = "commit"
      /\ left' \in SetToSeqs({t \in Tables : d[t] # NoTable})
      /\ UNCHANGED <<kernel, queue, previous, provider, event, todo, ours, late, stuck>>
  BY DEF Commit, Idle
<1>3. left' \in Seq(Tables) /\ SyncInv' /\ PresentInv'
  BY <1>2, Restarts
<1>4. changes' \in 0..MaxChanges
  BY <1>1, <1>2, BoundAssumption DEF Outside, TypeOK
<1>5. TypeOK'
  BY <1>1, <1>2, <1>3, <1>4 DEF TypeOK, kernel, provider
<1>6. LinkInv' /\ OursInv' /\ ToldInv' /\ Moves(queue)
  BY <1>2, <1>5, QuietKeeps DEF provider
<1>7. LoopInv'
  BY <1>1, <1>2 DEF LoopInv, Configuring, OfLease
<1>8. KnownInv'
  BY <1>1, <1>2 DEF KnownInv, provider
<1>9. LinkToldInv'
  <2>1. \A t \in Range(tables) \ late, i \in Interfaces : Knows(t, i)' = Knows(t, i)
    BY <1>2 DEF Knows, Telling, provider
  <2> QED
    BY <1>1, <1>2, <1>6, <2>1, LinkToldKept DEF provider
<1> QED
  BY <1>3, <1>5, <1>6, <1>7, <1>8, <1>9 DEF IInv

LEMMA RangeOfMore ==
    ASSUME NEW q \in Seq(Tables), NEW t
    PROVE  Range(Append(q, t)) = Range(q) \cup {t}
  BY RangeGrown

LEMMA MadeTable ==
    ASSUME TypeOK, NEW t \in Tables, MakeTable(t)
    PROVE  /\ tables' \in Seq(Tables) /\ late' \in SUBSET Tables
           /\ late \subseteq late'
           /\ Range(tables') = Range(tables) \cup {t}
           /\ Range(tables') \ late' \subseteq Range(tables) \ late
<1>1. tables \in Seq(Tables) /\ late \in SUBSET Tables
  BY DEF TypeOK
<1>2. CASE t \in Range(tables)
  BY <1>1, <1>2 DEF MakeTable
<1>3. CASE t \notin Range(tables)
  <2>1. tables' = Append(tables, t) /\ late' = late \cup {t}
    BY <1>3 DEF MakeTable
  <2>2. Range(tables') = Range(tables) \cup {t}
    BY <1>1, <2>1, RangeOfMore
  <2> QED
    BY <1>1, <2>1, <2>2
<1> QED
  BY <1>2, <1>3

LEMMA BeginTableKeeps ==
    ASSUME IInv, BeginTable
    PROVE  IInv'
<1>1. TypeOK /\ LoopInv /\ KnownInv /\ LinkToldInv /\ SyncInv /\ PresentInv
  BY DEF IInv
<1>2. PICK t : t = Head(left)
  OBVIOUS
<1>3. /\ Configuring /\ todo = {} /\ left # <<>>
      /\ MakeTable(t) /\ todo' = ToConfigure(t) /\ left' = Tail(left)
      /\ UNCHANGED <<kernel, queue, data, previous, interfaces, entity, leased, task,
                     event, changes, ours, stuck>>
  BY <1>2 DEF BeginTable
<1>4. /\ t \in Tables /\ left' \in Seq(Tables)
      /\ Range(left) = Range(left') \cup {t}
  BY <1>1, <1>2, <1>3, RangeTaken DEF TypeOK
<1>5. /\ tables' \in Seq(Tables) /\ late' \in SUBSET Tables /\ late \subseteq late'
      /\ Range(tables') = Range(tables) \cup {t}
      /\ Range(tables') \ late' \subseteq Range(tables) \ late
  BY <1>1, <1>3, <1>4, MadeTable
<1>6. /\ todo' \in SUBSET Slots
      /\ \A s \in todo' : /\ s[1] = t
                          /\ Wanted(data, s[1], s[2]) \/ HasConfig(entity[s[1]][s[2]])
      /\ \A d \in Destinations : <<t, d>> \in todo' <=> Wanted(data, t, d) \/ HasConfig(entity[t][d])
      /\ \A n, d : <<n, d>> \in todo' => n = t
  BY <1>3, <1>4 DEF ToConfigure, Slots
<1>7. TypeOK'
  BY <1>1, <1>3, <1>4, <1>5, <1>6 DEF TypeOK, kernel
<1>8. LinkInv' /\ OursInv' /\ ToldInv' /\ Moves(queue)
  BY <1>3, <1>7, QuietKeeps
<1>9. task \in {"commit", "rollback"} /\ task' = task /\ Configuring'
  BY <1>3 DEF Configuring
<1>10. LoopInv'
  <2>1. task' # "idle" /\ task' # "linkup" /\ task' \notin OfLease
    BY <1>9 DEF OfLease
  <2>2. \A s \in todo' :
           /\ s[1] \in Range(tables')
           /\ Wanted(data', s[1], s[2]) \/ HasConfig(entity'[s[1]][s[2]])
    BY <1>3, <1>5, <1>6
  <2> QED
    BY <2>1, <2>2 DEF LoopInv, OfLease
<1>11. KnownInv'
  BY <1>1, <1>3, <1>5 DEF KnownInv, HasConfig
<1>12. SyncInv'
  <2> SUFFICES ASSUME ~stuck', NEW n \in Tables, NEW d \in Destinations,
                      data'[n] # NoTable, ~Due(n, d)'
               PROVE  Synced(data[n][d], entity[n][d])
    BY <1>3 DEF SyncInv, Synced, HasConfig
  <2>1. n \notin Range(left') /\ <<n, d>> \notin todo'
    BY <1>9 DEF Due
  <2>2. CASE n = t
    BY <1>3, <1>6, <2>1, <2>2 DEF Synced, Wanted
  <2>3. CASE n # t
    <3>1. ~Due(n, d)
      BY <1>3, <1>4, <2>1, <2>3 DEF Due
    <3> QED
      BY <1>1, <1>3, <3>1 DEF SyncInv
  <2> QED
    BY <2>2, <2>3
<1>13. LinkToldInv'
  <2>1. \A n \in Range(tables) \ late, i \in Interfaces : Knows(n, i)' = Knows(n, i)
    BY <1>3, <1>9 DEF Knows, Telling
  <2> QED
    BY <1>1, <1>3, <1>5, <1>8, <2>1, LinkToldKept
<1>14. PresentInv'
  <2> SUFFICES ASSUME NEW n \in Tables, NEW d \in Destinations
               PROVE  PresentAt(n, d)'
    BY DEF PresentInv
  <2>1. ASSUME Cared(n, d)'
        PROVE  Cared(n, d)
    <3>1. n \notin Range(left') /\ <<n, d>> \notin todo' /\ HasConfig(entity[n][d])
      BY <1>3, <1>9, <2>1 DEF Cared, Due, HasConfig
    <3>2. n # t
      BY <1>6, <3>1
    <3> QED
      BY <1>3, <1>4, <1>5, <2>1, <3>1, <3>2 DEF Cared, Due
  <2>2. \A c : ~Noticed(n, d, c)
    BY <1>9, Unheard
  <2> QED
    BY <1>1, <1>3, <1>8, <2>1, <2>2, PresentKept
<1> QED
  BY <1>7, <1>8, <1>10, <1>11, <1>12, <1>13, <1>14 DEF IInv

LEMMA EmptyRange == Range(<<>>) = {}
  BY DEF Range

(* Steps at the end of a loop: there is nothing left of it. *)
LEMMA EndKeeps ==
    ASSUME IInv, TypeOK', todo = {}, left = <<>>, task' = "idle", todo' = {},
           Moves(queue), LinkInv', OursInv',
           UNCHANGED <<data, tables, interfaces, entity, late, stuck>>
    PROVE  IInv'
<1>1. TypeOK /\ KnownInv /\ LinkToldInv /\ SyncInv /\ PresentInv /\ ToldInv
  BY DEF IInv
<1>2. /\ \A t, d : ~Due(t, d) /\ ~Due(t, d)'
      /\ \A t, i : ~Telling(t, i) /\ ~Telling(t, i)'
      /\ \A t, d, c : ~Noticed(t, d, c)
  BY EmptyRange DEF Due, Configuring, Telling, Noticed
<1>3. LoopInv'
  BY DEF LoopInv, Configuring, OfLease
<1>4. SyncInv' /\ KnownInv'
  BY <1>1, <1>2 DEF SyncInv, KnownInv, Synced, HasConfig
<1>5. LinkToldInv'
  <2>1. \A t \in Range(tables) \ late, i \in Interfaces : Knows(t, i)' = Knows(t, i)
    BY <1>2 DEF Knows
  <2> QED
    BY <1>1, <2>1, LinkToldKept
<1>6. ToldInv'
  BY <1>1, ToldKept
<1>7. PresentInv'
  <2> SUFFICES ASSUME NEW t \in Tables, NEW d \in Destinations
               PROVE  PresentAt(t, d)'
    BY DEF PresentInv
  <2>1. Cared(t, d)' => Cared(t, d)
    BY <1>2 DEF Cared, HasConfig
  <2> QED
    BY <1>1, <1>2, <2>1, PresentKept
<1> QED
  BY <1>3, <1>4, <1>5, <1>6, <1>7 DEF IInv

LEMMA CommitSucceedsKeeps ==
    ASSUME IInv, CommitSucceeds \/ RolledBack
    PROVE  IInv'
<1>1. /\ todo = {} /\ left = <<>> /\ task' = "idle" /\ previous' \in {data, previous}
      /\ UNCHANGED <<kernel, queue, data, provider, event, left, todo, history>>
  BY DEF CommitSucceeds, RolledBack
<1>2. TypeOK'
  BY <1>1 DEF IInv, TypeOK, kernel, provider, history
<1>3. LinkInv' /\ OursInv' /\ Moves(queue)
  BY <1>1, <1>2, QuietKeeps DEF provider, history
<1> QED
  BY <1>1, <1>2, <1>3, EndKeeps DEF provider, history

LEMMA OthersFailKeeps ==
    ASSUME IInv, OthersFail
    PROVE  IInv'
<1>1. TypeOK /\ LoopInv /\ KnownInv /\ LinkToldInv
  BY DEF IInv
<1>2. /\ task = "commit" /\ data' = previous /\ previous' = previous /\ task' = "rollback"
      /\ left' \in SetToSeqs({t \in Tables : previous[t] # NoTable}) /\ todo' = {}
      /\ UNCHANGED <<kernel, queue, provider, event, changes, ours, late, stuck>>
  BY DEF OthersFail, RollBack
<1>3. left' \in Seq(Tables) /\ SyncInv' /\ PresentInv'
  BY <1>2, Restarts
<1>4. TypeOK'
  BY <1>1, <1>2, <1>3 DEF TypeOK, kernel, provider
<1>5. LinkInv' /\ OursInv' /\ ToldInv' /\ Moves(queue)
  BY <1>2, <1>4, QuietKeeps DEF provider
<1>6. LoopInv'
  BY <1>2 DEF LoopInv, OfLease
<1>7. KnownInv'
  BY <1>1, <1>2 DEF KnownInv, provider
<1>8. LinkToldInv'
  <2>1. \A t \in Range(tables) \ late, i \in Interfaces : Knows(t, i)' = Knows(t, i)
    BY <1>2 DEF Knows, Telling, provider
  <2> QED
    BY <1>1, <1>2, <1>5, <2>1, LinkToldKept DEF provider
<1> QED
  BY <1>3, <1>4, <1>5, <1>6, <1>7, <1>8 DEF IInv

LEMMA LoopEndsKeeps ==
    ASSUME IInv, LoopEnds
    PROVE  IInv'
<1>1. TypeOK /\ LinkInv /\ OursInv /\ LoopInv
  BY DEF IInv
<1>2. /\ todo = {} /\ left = <<>> /\ task' = "idle" /\ event' = NoEvent
      /\ leased' = IF task = "release"
                   THEN [leased EXCEPT ![event.interface] = [d \in Destinations |-> NoEntity]]
                   ELSE leased
      /\ UNCHANGED <<kernel, queue, data, previous, tables, interfaces, entity, left,
                     todo, history>>
  BY DEF LoopEnds
<1>3. task = "release" => event.interface \in Interfaces
  BY <1>1 DEF LoopInv, OfLease, LeaseEvents
<1>4. leased' \in [Interfaces -> [Destinations -> LeasedRoutes \cup {NoEntity}]]
  BY <1>1, <1>2, <1>3 DEF TypeOK
<1>5. TypeOK'
  BY <1>1, <1>2, <1>4 DEF TypeOK, kernel, history
<1>6. LinkInv' /\ Moves(queue)
  BY <1>1, <1>2, MovesNone DEF LinkInv, kernel, TypeOK
<1>7. OursInv'
  <2>1. ASSUME NEW s \in ours, NEW i \in Interfaces, HasLease(i, s[2]),
               Puts(s[1], s[2], leased[i][s[2]].args)
        PROVE  leased'[i][s[2]] = leased[i][s[2]]
    <3>1. s[2] \in Destinations /\ leased[i][s[2]].args # NoArgs
      BY <1>1, <2>1 DEF TypeOK, Slots, Puts
    <3>2. ~(task = "release" /\ i = event.interface)
      BY <1>1, <1>2, <2>1, <3>1 DEF LoopInv
    <3> QED
      BY <1>1, <1>2, <1>3, <3>1, <3>2 DEF TypeOK
  <2>2. ASSUME NEW s \in ours
        PROVE  OursAt(s[1], s[2])'
    <3>1. s[1] \in Tables /\ s[2] \in Destinations /\ OursAt(s[1], s[2])
      BY <1>1 DEF TypeOK, Slots, OursInv
    <3>2. link' = link /\ route' = route /\ entity' = entity
      BY <1>2 DEF kernel
    <3> QED
      BY <2>1, <3>1, <3>2, OursOn DEF OursAt
  <2> QED
    BY <1>2, <2>2 DEF OursInv, history
<1> QED
  BY <1>2, <1>5, <1>6, <1>7, EndKeeps DEF history

-----------------------------------------------------------------------------
(* Handlers that do not change an entity: of links, and the first part of those
   of leases. *)

LEMMA HeadIs ==
    ASSUME TypeOK, NEW op, Handle(op)
    PROVE  /\ task = "idle" /\ queue # <<>> /\ Head(queue).op = op /\ Head(queue) \in Events
           /\ Tail(queue) \in Seq(Events) /\ Head(queue) \in Range(queue)
  BY RangeTaken DEF Handle, Idle, TypeOK

LEMMA QuietTaken ==
    ASSUME IInv, queue # <<>>, queue' = Tail(queue),
           \A t \in Tables, d \in Destinations : Head(queue) \notin Of(t, d),
           UNCHANGED <<kernel, entity, leased, ours>>
    PROVE  LinkInv' /\ OursInv' /\ ToldInv' /\ Moves(Tail(queue)) /\ queue' \in Seq(Events)
<1>1. TypeOK /\ LinkInv /\ OursInv /\ ToldInv
  BY DEF IInv
<1>2. link' = link /\ created' = created /\ route' = route
  BY DEF kernel
<1>3. LinkInv'
  BY <1>1, <1>2 DEF LinkInv
<1>4. OursInv'
  BY <1>1, <1>2 DEF OursInv, OursAt, HasConfig, HasLease, Puts, Deletable
<1>5. Tail(queue) \in Seq(Events)
  BY <1>1, RangeTaken DEF TypeOK
<1>6. Moves(Tail(queue))
  BY <1>1, <1>2, <1>5, MovesNone
<1>7. ToldInv'
  BY <1>1, <1>6, ToldTaken
<1> QED
  BY <1>3, <1>4, <1>5, <1>6, <1>7

LEMMA LeaseBegins ==
    ASSUME IInv, Idle, queue # <<>>, Head(queue).op \in {"preinit", "bound", "lost"},
           queue' = Tail(queue), event' = Head(queue), task' \in OfLease,
           left' = <<>>, todo' \in SUBSET Slots, LoopInv',
           UNCHANGED <<kernel, data, previous, provider, history>>
    PROVE  IInv'
<1>1. TypeOK /\ KnownInv /\ LinkToldInv /\ SyncInv /\ PresentInv
  BY DEF IInv
<1>2. Head(queue) \in Events
  BY <1>1, RangeTaken DEF TypeOK
<1>3. /\ \A t \in Tables, d \in Destinations : Head(queue) \notin Of(t, d)
      /\ \A i \in Interfaces : Head(queue) \notin OfLink(i)
  BY <1>2, EventIs
<1>4. LinkInv' /\ OursInv' /\ ToldInv' /\ Moves(Tail(queue)) /\ queue' \in Seq(Events)
  BY <1>3, QuietTaken DEF provider, history
<1>5. TypeOK'
  BY <1>1, <1>2, <1>4 DEF TypeOK, kernel, provider, history
<1>6. task = "idle" /\ task' # "commit" /\ task' # "rollback" /\ task' # "linkup"
  BY DEF Idle, OfLease
<1>7. /\ \A t, d : ~Due(t, d) /\ ~Due(t, d)'
      /\ \A t, i : ~Telling(t, i) /\ ~Telling(t, i)'
      /\ \A t, d, c : ~Noticed(t, d, c)
  BY <1>6 DEF Due, Configuring, Telling, Noticed
<1>8. SyncInv' /\ KnownInv'
  BY <1>1, <1>7 DEF SyncInv, KnownInv, Synced, HasConfig, provider, history
<1>9. LinkToldInv'
  <2>1. \A t \in Range(tables) \ late, i \in Interfaces : Knows(t, i)' = Knows(t, i)
    BY <1>7 DEF Knows, provider
  <2> QED
    BY <1>1, <1>3, <1>4, <2>1, LinkToldTaken DEF provider, history
<1>10. PresentInv'
  <2> SUFFICES ASSUME NEW t \in Tables, NEW d \in Destinations
               PROVE  PresentAt(t, d)'
    BY DEF PresentInv
  <2>1. Cared(t, d)' => Cared(t, d) /\ entity'[t][d].config = entity[t][d].config
    BY <1>7 DEF Cared, HasConfig, provider, history
  <2>2. \A c : ~Announces(Head(queue), t, d, c)
    BY <1>2, <1>3 DEF Announces, RouteEvents, LinkEvents
  <2> QED
    BY <1>1, <1>4, <1>7, <2>1, <2>2, PresentTaken
<1> QED
  BY <1>4, <1>5, <1>8, <1>9, <1>10 DEF IInv

LEMMA HandlePreinitKeeps ==
    ASSUME IInv, HandlePreinit
    PROVE  IInv'
<1>1. TypeOK
  BY DEF IInv
<1> DEFINE i == Head(queue).interface
           networks == {d \in Destinations : Head(queue).routes[d] = NoGateway /\ HasLease(i, d)}
<1>2. /\ Handle("preinit") /\ Begin("preinit", <<>>, {<<Main, d>> : d \in networks})
      /\ UNCHANGED <<kernel, data, previous, provider, history>>
  BY DEF HandlePreinit
<1>3. Head(queue) \in Events /\ Head(queue).op = "preinit" /\ Idle /\ queue # <<>>
  BY <1>1, <1>2, HeadIs DEF Idle
<1>4. Head(queue) \in LeaseEvents
  BY <1>3, EventIs
<1>5. /\ queue' = Tail(queue) /\ event' = Head(queue) /\ task' = "preinit"
      /\ left' = <<>> /\ todo' = {<<Main, d>> : d \in networks}
  BY <1>2 DEF Begin
<1>6. todo' \in SUBSET Slots
  BY <1>5, ConfigurationsAssumption DEF Slots
<1>7. LoopInv'
  <2>1. leased' = leased
    BY <1>2 DEF provider
  <2> QED
    BY <1>4, <1>5, <2>1 DEF LoopInv, OfLease, Configuring, HasLease
<1> QED
  BY <1>2, <1>3, <1>5, <1>6, <1>7, LeaseBegins DEF OfLease

LEMMA HandleAcquiredKeeps ==
    ASSUME IInv, HandleAcquired
    PROVE  IInv'
<1>1. TypeOK
  BY DEF IInv
<1>2. /\ Handle("bound")
      /\ Begin("drop", <<>>, Outdated(Head(queue).interface, Head(queue).routes))
      /\ UNCHANGED <<kernel, data, previous, provider, history>>
  BY DEF HandleAcquired
<1>3. Head(queue) \in Events /\ Head(queue).op = "bound" /\ Idle /\ queue # <<>>
  BY <1>1, <1>2, HeadIs DEF Idle
<1>4. Head(queue) \in LeaseEvents
  BY <1>3, EventIs
<1>5. /\ queue' = Tail(queue) /\ event' = Head(queue) /\ task' = "drop"
      /\ left' = <<>> /\ todo' = Outdated(Head(queue).interface, Head(queue).routes)
  BY <1>2 DEF Begin
<1>6. todo' \in SUBSET Slots
  BY <1>5, ConfigurationsAssumption DEF Slots, Outdated
<1>7. LoopInv'
  <2>1. leased' = leased
    BY <1>2 DEF provider
  <2> QED
    BY <1>4, <1>5, <2>1 DEF LoopInv, OfLease, Configuring, HasLease, Outdated
<1> QED
  BY <1>2, <1>3, <1>5, <1>6, <1>7, LeaseBegins DEF OfLease

LEMMA HandleLostKeeps ==
    ASSUME IInv, HandleLost
    PROVE  IInv'
<1>1. TypeOK
  BY DEF IInv
<1> DEFINE i == Head(queue).interface
<1>2. /\ Handle("lost")
      /\ Begin("release", <<>>, {<<Main, d>> : d \in {n \in Destinations : HasLease(i, n)}})
      /\ UNCHANGED <<kernel, data, previous, provider, history>>
  BY DEF HandleLost
<1>3. Head(queue) \in Events /\ Head(queue).op = "lost" /\ Idle /\ queue # <<>>
  BY <1>1, <1>2, HeadIs DEF Idle
<1>4. Head(queue) \in LeaseEvents
  BY <1>3, EventIs
<1>5. /\ queue' = Tail(queue) /\ event' = Head(queue) /\ task' = "release"
      /\ left' = <<>> /\ todo' = {<<Main, d>> : d \in {n \in Destinations : HasLease(i, n)}}
  BY <1>2 DEF Begin
<1>6. todo' \in SUBSET Slots
  BY <1>5, ConfigurationsAssumption DEF Slots
<1>7. LoopInv'
  <2>1. leased' = leased
    BY <1>2 DEF provider
  <2> QED
    BY <1>4, <1>5, <2>1 DEF LoopInv, OfLease, Configuring, HasLease
<1> QED
  BY <1>2, <1>3, <1>5, <1>6, <1>7, LeaseBegins DEF OfLease

LEMMA BeginTakeKeeps ==
    ASSUME IInv, BeginTake
    PROVE  IInv'
<1>1. TypeOK /\ LoopInv /\ KnownInv /\ LinkToldInv /\ SyncInv /\ PresentInv
  BY DEF IInv
<1>2. /\ task = "drop" /\ todo = {} /\ task' = "take"
      /\ todo' = Fresh(event.interface, event.routes)
      /\ UNCHANGED <<kernel, queue, data, previous, provider, event, left, history>>
  BY DEF BeginTake
<1>3. todo' \in SUBSET Slots
  BY <1>2, ConfigurationsAssumption DEF Slots, Fresh
<1>4. TypeOK'
  BY <1>1, <1>2, <1>3 DEF TypeOK, kernel, provider, history, OfLease
<1>5. LinkInv' /\ OursInv' /\ ToldInv' /\ Moves(queue)
  BY <1>2, <1>4, QuietKeeps DEF provider, history
<1>6. LoopInv'
  <2>1. event \in LeaseEvents
    BY <1>1, <1>2 DEF LoopInv, OfLease
  <2>2. \A d \in Destinations :
           HasLease(event.interface, d) => event.routes[d] = leased[event.interface][d].gateway
    BY <1>1, <1>2 DEF LoopInv
  <2>3. \A d \in Destinations :
           <<Main, d>> \in todo' => ~HasLease(event.interface, d) /\ event.routes[d] # NoRoute
    BY <1>2, <2>2 DEF Fresh
  <2> QED
    BY <1>2, <2>1, <2>3 DEF LoopInv, OfLease, Configuring, HasLease, provider
<1>7. /\ \A t, d : ~Due(t, d) /\ ~Due(t, d)'
      /\ \A t, i : ~Telling(t, i) /\ ~Telling(t, i)'
      /\ \A t, d, c : ~Noticed(t, d, c)
  BY <1>2 DEF Due, Configuring, Telling, Noticed
<1>8. SyncInv' /\ KnownInv'
  BY <1>1, <1>2, <1>7 DEF SyncInv, KnownInv, Synced, HasConfig, provider, history
<1>9. LinkToldInv'
  <2>1. \A t \in Range(tables) \ late, i \in Interfaces : Knows(t, i)' = Knows(t, i)
    BY <1>2, <1>7 DEF Knows, provider
  <2> QED
    BY <1>1, <1>2, <1>5, <2>1, LinkToldKept DEF provider, history
<1>10. PresentInv'
  <2> SUFFICES ASSUME NEW t \in Tables, NEW d \in Destinations
               PROVE  PresentAt(t, d)'
    BY DEF PresentInv
  <2>1. Cared(t, d)' => Cared(t, d) /\ entity'[t][d].config = entity[t][d].config
    BY <1>2, <1>7 DEF Cared, HasConfig, provider, history
  <2> QED
    BY <1>1, <1>5, <1>7, <2>1, PresentKept
<1> QED
  BY <1>4, <1>5, <1>6, <1>8, <1>9, <1>10 DEF IInv

LEMMA HandleInterfaceAddKeeps ==
    ASSUME IInv, HandleInterfaceAdd
    PROVE  IInv'
<1>1. TypeOK /\ KnownInv /\ LinkToldInv /\ SyncInv /\ PresentInv
  BY DEF IInv
<1>2. /\ Handle("newlink") /\ Begin("linkup", tables, {})
      /\ UNCHANGED <<kernel, data, previous, provider, history>>
  BY DEF HandleInterfaceAdd
<1>3. PICK x \in Events : x = Head(queue)
  BY <1>1, <1>2, HeadIs
<1>4. x.op = "newlink" /\ task = "idle" /\ queue # <<>>
  BY <1>1, <1>2, <1>3, HeadIs
<1>5. /\ x \in LinkEvents /\ x.interface \in Interfaces /\ Said(x) = "newlink"
      /\ \A i \in Interfaces : x \in OfLink(i) <=> i = x.interface
      /\ \A t \in Tables, d \in Destinations : x \notin Of(t, d)
  BY <1>4, EventIs
<1>6. /\ queue' = Tail(queue) /\ event' = x /\ task' = "linkup" /\ left' = tables /\ todo' = {}
  BY <1>2, <1>3 DEF Begin
<1>7. LinkInv' /\ OursInv' /\ ToldInv' /\ Moves(Tail(queue)) /\ queue' \in Seq(Events)
  BY <1>2, <1>3, <1>4, <1>5, <1>6, QuietTaken DEF provider, history
<1>8. TypeOK'
  BY <1>1, <1>2, <1>6, <1>7 DEF TypeOK, kernel, provider, history
<1>9. LoopInv'
  BY <1>5, <1>6 DEF LoopInv, OfLease, Configuring
<1>10. /\ \A t, d : ~Due(t, d) /\ ~Due(t, d)'
       /\ \A t, i : ~Telling(t, i)
       /\ \A t, i : Telling(t, i)' <=> x.interface = i /\ t \in Range(tables)
       /\ \A t, d, c : ~Noticed(t, d, c)
  BY <1>4, <1>6 DEF Due, Configuring, Telling, Noticed
<1>11. SyncInv' /\ KnownInv'
  BY <1>1, <1>2, <1>10 DEF SyncInv, KnownInv, Synced, HasConfig, provider, history
<1>12. LinkToldInv'
  <2>1. \A t \in Range(tables) \ late, i \in Interfaces :
           Knows(t, i)' = IF x \in OfLink(i) THEN Said(x) ELSE Knows(t, i)
    BY <1>2, <1>5, <1>10 DEF Knows, provider
  <2> QED
    BY <1>1, <1>2, <1>3, <1>4, <1>7, <2>1, LinkToldTaken DEF provider, history
<1>13. PresentInv'
  <2> SUFFICES ASSUME NEW t \in Tables, NEW d \in Destinations
               PROVE  PresentAt(t, d)'
    BY DEF PresentInv
  <2>1. Cared(t, d)' => Cared(t, d) /\ entity'[t][d].config = entity[t][d].config
    BY <1>2, <1>10 DEF Cared, HasConfig, provider, history
  <2>2. ASSUME NEW c \in Hops, Announces(x, t, d, c), Cared(t, d)'
        PROVE  Noticed(t, d, c)'
    <3>1. c.gateway = NoGateway /\ x.interface = c.interface
      BY <1>4, <1>5, <2>2 DEF Announces
    <3>2. t \in Range(tables)
      BY <1>1, <2>1, <2>2 DEF Cared, KnownInv
    <3> QED
      BY <1>10, <3>1, <3>2 DEF Noticed
  <2> QED
    BY <1>1, <1>3, <1>4, <1>7, <1>10, <2>1, <2>2, PresentTaken
<1> QED
  BY <1>7, <1>8, <1>9, <1>11, <1>12, <1>13 DEF IInv

LEMMA HandleInterfaceRemoveKeeps ==
    ASSUME IInv, HandleInterfaceRemove
    PROVE  IInv'
<1>1. TypeOK /\ LoopInv /\ KnownInv /\ LinkToldInv /\ SyncInv /\ PresentInv
  BY DEF IInv
<1>2. PICK x \in Events : x = Head(queue)
  BY <1>1, HeadIs DEF HandleInterfaceRemove
<1>3. PICK told :
         /\ interfaces' = [t \in Tables |-> IF t \in told THEN interfaces[t] \ {x.interface}
                                                         ELSE interfaces[t]]
         /\ stuck' = (stuck \/ told # Range(tables))
  BY <1>2 DEF HandleInterfaceRemove
<1>4. /\ Handle("dellink") /\ queue' = Tail(queue)
      /\ UNCHANGED <<kernel, data, previous, tables, entity, leased, loop, changes,
                     ours, late>>
  BY DEF HandleInterfaceRemove
<1>5. x.op = "dellink" /\ task = "idle" /\ queue # <<>>
  BY <1>1, <1>2, <1>4, HeadIs
<1>6. /\ x \in LinkEvents /\ x.interface \in Interfaces /\ Said(x) = "dellink"
      /\ \A i \in Interfaces : x \in OfLink(i) <=> i = x.interface
      /\ \A t \in Tables, d \in Destinations : x \notin Of(t, d)
  BY <1>5, EventIs
<1>7. LinkInv' /\ OursInv' /\ ToldInv' /\ Moves(Tail(queue)) /\ queue' \in Seq(Events)
  BY <1>2, <1>4, <1>5, <1>6, QuietTaken
<1>8. interfaces' \in [Tables -> SUBSET Interfaces] /\ stuck' \in BOOLEAN
  <2>1. stuck' \in BOOLEAN
    BY <1>3
  <2> QED
    BY <1>1, <1>3, <2>1 DEF TypeOK
<1>9. TypeOK'
  BY <1>1, <1>4, <1>7, <1>8 DEF TypeOK, kernel, loop
<1>10. LoopInv'
  BY <1>1, <1>4, <1>5 DEF LoopInv, loop, Configuring, OfLease
<1>11. /\ \A t, d : ~Due(t, d) /\ ~Due(t, d)'
       /\ \A t, i : ~Telling(t, i) /\ ~Telling(t, i)'
       /\ \A t, d, c : ~Noticed(t, d, c)
  BY <1>4, <1>5 DEF Due, Configuring, Telling, Noticed, loop
<1>12. stuck => stuck'
  BY <1>3
<1>13. SyncInv' /\ KnownInv'
  BY <1>1, <1>4, <1>11, <1>12 DEF SyncInv, KnownInv, Synced, HasConfig
<1>14. LinkToldInv'
  <2>1. ASSUME NEW t \in Range(tables) \ late, NEW i \in Interfaces, ~stuck'
        PROVE  Knows(t, i)' = IF x \in OfLink(i) THEN Said(x) ELSE Knows(t, i)
    <3>1. t \in told /\ t \in Tables
      <4>1. told = Range(tables)
        BY <1>3, <2>1
      <4>2. t \in Tables
        BY <1>1, <2>1 DEF TypeOK, Range
      <4> QED
        BY <2>1, <4>1, <4>2
    <3>2. interfaces'[t] = interfaces[t] \ {x.interface}
      BY <1>3, <3>1
    <3> QED
      BY <1>6, <1>11, <3>2 DEF Knows
  <2> QED
    BY <1>1, <1>2, <1>4, <1>5, <1>7, <1>12, <2>1, LinkToldTaken
<1>15. PresentInv'
  <2> SUFFICES ASSUME NEW t \in Tables, NEW d \in Destinations
               PROVE  PresentAt(t, d)'
    BY DEF PresentInv
  <2>1. Cared(t, d)' => Cared(t, d) /\ entity'[t][d].config = entity[t][d].config
    BY <1>4, <1>11, <1>12 DEF Cared, HasConfig
  <2>2. \A c : ~Announces(x, t, d, c)
    BY <1>5, <1>6 DEF Announces
  <2> QED
    BY <1>1, <1>2, <1>5, <1>7, <1>11, <2>1, <2>2, PresentTaken
<1> QED
  BY <1>7, <1>9, <1>10, <1>13, <1>14, <1>15 DEF IInv

LEMMA TellTableKeeps ==
    ASSUME IInv, TellTable
    PROVE  IInv'
<1>1. TypeOK /\ LoopInv /\ KnownInv /\ LinkToldInv /\ SyncInv /\ PresentInv /\ ToldInv
  BY DEF IInv
<1>2. PICK t, i : t = Head(left) /\ i = event.interface
  OBVIOUS
<1>3. /\ task = "linkup" /\ todo = {} /\ left # <<>>
      /\ interfaces' = [interfaces EXCEPT ![t] = @ \cup {i}]
      /\ todo' = {<<t, d>> : d \in {n \in Destinations :
                    /\ HasConfig(entity[t][n]) /\ entity[t][n].state = NoRoute
                    /\ entity[t][n].config = [gateway |-> NoGateway, interface |-> i]}}
      /\ left' = Tail(left)
      /\ UNCHANGED <<kernel, queue, data, previous, tables, entity, leased, task, event, history>>
  BY <1>2 DEF TellTable
<1>4. /\ t \in Tables /\ left' \in Seq(Tables)
      /\ Range(left) = Range(left') \cup {t} /\ i \in Interfaces
  <2>1. i \in Interfaces
    BY <1>1, <1>2, <1>3 DEF LoopInv, LinkEvents
  <2> QED
    BY <1>1, <1>2, <1>3, <2>1, RangeTaken DEF TypeOK
<1>5. todo' \in SUBSET Slots
  BY <1>3, <1>4 DEF Slots
<1>6. /\ interfaces' \in [Tables -> SUBSET Interfaces]
      /\ interfaces'[t] = interfaces[t] \cup {i}
      /\ \A n \in Tables : n # t => interfaces'[n] = interfaces[n]
  BY <1>1, <1>3, <1>4 DEF TypeOK
<1>7. TypeOK'
  BY <1>1, <1>3, <1>4, <1>5, <1>6 DEF TypeOK, kernel, history
<1>8. LinkInv' /\ OursInv' /\ ToldInv' /\ Moves(queue)
  BY <1>3, <1>7, QuietKeeps DEF history
<1>9. LoopInv'
  BY <1>1, <1>3 DEF LoopInv, OfLease, Configuring
<1>10. /\ \A n, d : ~Due(n, d) /\ ~Due(n, d)'
       /\ \A n, j : Telling(n, j) <=> i = j /\ n \in Range(left)
       /\ \A n, j : Telling(n, j)' <=> i = j /\ n \in Range(left')
  BY <1>2, <1>3 DEF Due, Configuring, Telling
<1>11. SyncInv' /\ KnownInv'
  BY <1>1, <1>3, <1>10 DEF SyncInv, KnownInv, Synced, HasConfig, history
<1>12. LinkToldInv'
  <2>1. ASSUME NEW n \in Range(tables) \ late, NEW j \in Interfaces
        PROVE  Knows(n, j)' = Knows(n, j)
    <3>1. n \in Tables
      BY <1>1 DEF TypeOK, Range
    <3> QED
      BY <1>4, <1>6, <1>10, <3>1 DEF Knows
  <2> QED
    BY <1>1, <1>3, <1>8, <2>1, LinkToldKept DEF history
<1>13. PresentInv'
  <2> SUFFICES ASSUME NEW n \in Tables, NEW d \in Destinations
               PROVE  PresentAt(n, d)'
    BY DEF PresentInv
  <2>1. PICK c : c = entity'[n][d].config
    OBVIOUS
  <2> SUFFICES ASSUME Cared(n, d)', Reachable(n, c)', route'[n][d] = NoRoute
               PROVE  Coming(queue', n, d, c) \/ Noticed(n, d, c)'
    BY <2>1 DEF PresentAt, Reachable, Coming, Noticed
  <2>2. Cared(n, d) /\ entity[n][d].config = c
    BY <1>3, <1>10, <2>1 DEF Cared, HasConfig, history
  <2>3. c \in Hops /\ entity[n][d] \in Entities
    BY <1>1, <2>2, EntityIs DEF Cared, HasConfig, TypeOK
  <2>4. Coming(queue', n, d, c) \/ Noticed(n, d, c)
    BY <1>1, <1>8, <2>2, <2>3, PresentStays
  <2>5. ASSUME Noticed(n, d, c)
        PROVE  Coming(queue', n, d, c) \/ Noticed(n, d, c)'
    <3>1. c.gateway = NoGateway /\ i = c.interface /\ n \in Range(left)
      BY <1>3, <1>10, <2>5 DEF Noticed
    <3>2. CASE n # t
      BY <1>4, <1>10, <3>1, <3>2 DEF Noticed
    <3>3. CASE n = t /\ entity[n][d].state = NoRoute
      <4>1. c = [gateway |-> NoGateway, interface |-> i]
        BY <2>3, <3>1 DEF Hops
      <4>2. <<n, d>> \in todo'
        BY <1>3, <2>2, <3>3, <4>1 DEF Cared
      <4> QED
        BY <1>3, <4>2 DEF Noticed
    <3>4. CASE n = t /\ entity[n][d].state # NoRoute
      <4>1. Leads(queue', Of(n, d), entity[n][d].state, NoRoute)
        <5>1. Leads(queue', Of(n, d), StateOf(entity'[n][d]), HopOf(route'[n][d]))
          BY <1>8 DEF ToldInv
        <5>2. HopOf(route'[n][d]) = NoRoute
          BY DEF HopOf
        <5>3. StateOf(entity'[n][d]) = entity[n][d].state
          BY <1>3, <2>3, EntityIs
        <5> QED
          BY <5>1, <5>2, <5>3
      <4>2. PICK y \in Range(queue') : y \in Of(n, d) /\ Said(y) = NoRoute
        BY <3>4, <4>1, LeadsTo
      <4> QED
        BY <4>2, WasRemoved DEF Coming
    <3> QED
      BY <3>2, <3>3, <3>4
  <2> QED
    BY <2>4, <2>5
<1> QED
  BY <1>7, <1>8, <1>9, <1>11, <1>12, <1>13 DEF IInv

-----------------------------------------------------------------------------
(* The handlers of routes. *)

(* What was found of a route, and what is yet to be heard. *)
LEMMA ComesBack ==
    ASSUME ToldInv', NEW t \in Tables, NEW d \in Destinations, NEW c,
           route'[t][d] = NoRoute, StateOf(entity'[t][d]) # NoRoute
    PROVE  Coming(queue', t, d, c)
<1>1. Leads(queue', Of(t, d), StateOf(entity'[t][d]), HopOf(route'[t][d]))
  BY DEF ToldInv
<1>2. HopOf(route'[t][d]) = NoRoute
  BY DEF HopOf
<1>3. PICK y \in Range(queue') : y \in Of(t, d) /\ Said(y) = NoRoute
  BY <1>1, <1>2, LeadsTo
<1> QED
  BY <1>3, WasRemoved DEF Coming

LEMMA HandleRouteAddKeeps ==
    ASSUME IInv, HandleRouteAdd
    PROVE  IInv'
<1>1. TypeOK /\ LinkInv /\ KnownInv /\ OursInv /\ LinkToldInv /\ SyncInv /\ PresentInv /\ ToldInv
  BY DEF IInv
<1>2. PICK x \in Events : x = Head(queue)
  BY <1>1, HeadIs DEF HandleRouteAdd
<1>3. x.op = "newroute" /\ task = "idle" /\ queue # <<>> /\ Tail(queue) \in Seq(Events)
  BY <1>1, <1>2, HeadIs DEF HandleRouteAdd
<1>4. PICK t \in Tables, d \in Destinations, hop \in KernelHops :
         t = x.table /\ d = x.destination /\ hop = x.hop
  BY <1>3, EventIs
<1>5. /\ x \in RouteEvents /\ Said(x) = hop
      /\ \A n \in Tables, m \in Destinations : x \in Of(n, m) <=> n = t /\ m = d
      /\ \A i \in Interfaces : x \notin OfLink(i)
  BY <1>3, <1>4, EventIs
<1>6. PICK e \in Entities : e = IF entity[t][d] = NoEntity THEN New ELSE entity[t][d]
  BY <1>1, NewIs DEF TypeOK
<1>7. PICK f \in Entities : /\ f = [e EXCEPT !.state = hop]
                            /\ f.config = e.config /\ f.state = hop /\ f.args = e.args
  BY WithState
<1> DEFINE routes == [entity[t] EXCEPT ![d] = f]
<1>8. /\ MakeTable(t) /\ entity' = [entity EXCEPT ![t] = routes]
      /\ Begin("dependents", <<>>, Dependents(routes, t, d))
      /\ UNCHANGED <<kernel, data, previous, interfaces, leased, changes, ours, stuck>>
  BY <1>2, <1>4, <1>6, <1>7 DEF HandleRouteAdd
<1>9. /\ queue' = Tail(queue) /\ event' = x /\ task' = "dependents" /\ left' = <<>>
      /\ todo' = Dependents(routes, t, d)
  BY <1>2, <1>8 DEF Begin
<1>10. /\ entity' \in [Tables -> [Destinations -> Entities \cup {NoEntity}]]
       /\ entity'[t] = routes /\ entity'[t][d] = f
       /\ \A n \in Tables, m \in Destinations : (n # t \/ m # d) => entity'[n][m] = entity[n][m]
  BY <1>1, <1>8 DEF TypeOK
<1>11. /\ tables' \in Seq(Tables) /\ late' \in SUBSET Tables /\ late \subseteq late'
       /\ Range(tables') = Range(tables) \cup {t}
       /\ Range(tables') \ late' \subseteq Range(tables) \ late
  BY <1>1, <1>8, MadeTable
<1>12. link' = link /\ created' = created /\ route' = route
  BY <1>8 DEF kernel
<1>13. Moves(Tail(queue))
  BY <1>1, <1>3, <1>9, <1>12, MovesNone
<1>14. todo' \in SUBSET Slots
  BY <1>9 DEF Dependents, Slots
<1>15. TypeOK'
  <2> HIDE DEF routes
  <2>1. queue' \in Seq(Events) /\ event' \in Events \cup {NoEvent} /\ left' \in Seq(Tables)
    BY <1>3, <1>9
  <2>2. task' \in {"idle", "commit", "rollback", "dependents", "linkup"} \cup OfLease
    BY <1>9
  <2> QED
    BY <1>1, <1>8, <1>10, <1>11, <1>12, <1>14, <2>1, <2>2 DEF TypeOK
<1>16. LinkInv'
  BY <1>1, <1>12 DEF LinkInv
<1>17. LoopInv'
  BY <1>9 DEF LoopInv, OfLease, Configuring
<1>18. /\ HasConfig(entity'[t][d]) <=> HasConfig(entity[t][d])
       /\ HasConfig(entity[t][d]) => /\ entity'[t][d].config = entity[t][d].config
                                     /\ entity'[t][d].args = entity[t][d].args
  <2>1. CASE entity[t][d] = NoEntity
    BY <1>6, <1>7, <1>10, <2>1, NewIs DEF HasConfig
  <2>2. CASE entity[t][d] # NoEntity
    BY <1>6, <1>7, <1>10, <2>2, EntityIs DEF HasConfig
  <2> QED
    BY <2>1, <2>2
<1>19. \A n \in Tables, m \in Destinations :
          /\ HasConfig(entity'[n][m]) <=> HasConfig(entity[n][m])
          /\ HasConfig(entity[n][m]) => /\ entity'[n][m].config = entity[n][m].config
                                        /\ entity'[n][m].args = entity[n][m].args
  BY <1>10, <1>18
<1>20. OursInv'
  <2>1. ASSUME NEW s \in ours
        PROVE  OursAt(s[1], s[2])'
    <3>1. s[1] \in Tables /\ s[2] \in Destinations /\ OursAt(s[1], s[2])
      BY <1>1 DEF TypeOK, Slots, OursInv
    <3>2. \/ HasConfig(entity'[s[1]][s[2]]) /\ entity'[s[1]][s[2]].args = entity[s[1]][s[2]].args
          \/ ~HasConfig(entity[s[1]][s[2]])
      BY <1>19, <3>1
    <3> QED
      BY <1>8, <1>12, <3>1, <3>2, OursOn
  <2> QED
    BY <1>8, <2>1 DEF OursInv
<1>21. /\ \A n, m : ~Due(n, m) /\ ~Due(n, m)'
       /\ \A n, i : ~Telling(n, i) /\ ~Telling(n, i)'
       /\ \A n, m, c : ~Noticed(n, m, c)
  BY <1>3, <1>9 DEF Due, Configuring, Telling, Noticed
<1>22. SyncInv'
  <2>1. \A n \in Tables, m \in Destinations :
           Synced(data[n][m], entity[n][m]) => Synced(data'[n][m], entity'[n][m])
    BY <1>8, <1>19 DEF Synced
  <2> QED
    BY <1>1, <1>8, <1>21, <2>1 DEF SyncInv
<1>23. KnownInv'
  BY <1>1, <1>11, <1>19 DEF KnownInv
<1>24. ToldInv'
  <2>1. \A n \in Tables, m \in Destinations :
           StateOf(entity'[n][m]) = IF x \in Of(n, m) THEN Said(x) ELSE StateOf(entity[n][m])
    <3>1. StateOf(f) = hop
      BY <1>7, EntityIs
    <3> QED
      BY <1>5, <1>10, <3>1
  <2> QED
    BY <1>1, <1>2, <1>3, <1>13, <2>1, ToldTaken
<1>25. LinkToldInv'
  <2>1. \A n \in Range(tables) \ late, i \in Interfaces : Knows(n, i)' = Knows(n, i)
    BY <1>8, <1>21 DEF Knows
  <2> QED
    BY <1>1, <1>2, <1>3, <1>5, <1>8, <1>11, <1>13, <2>1, LinkToldTaken
<1>26. PresentInv'
  <2> SUFFICES ASSUME NEW n \in Tables, NEW m \in Destinations
               PROVE  PresentAt(n, m)'
    BY DEF PresentInv
  <2>1. Cared(n, m)' => Cared(n, m) /\ entity'[n][m].config = entity[n][m].config
    BY <1>8, <1>11, <1>19, <1>21 DEF Cared
  <2>2. ASSUME NEW c \in Hops, c = entity'[n][m].config, Announces(x, n, m, c),
               route'[n][m] = NoRoute, Cared(n, m)'
        PROVE  Coming(queue', n, m, c) \/ Noticed(n, m, c)'
    <3>1. n = t /\ c.gateway \in Covers[d]
      BY <1>3, <1>4, <1>5, <2>2 DEF Announces, LinkEvents
    <3>2. CASE entity'[n][m].state = NoRoute
      <4>1. HasConfig(routes[m]) /\ routes[m].state = NoRoute /\ routes[m].config = c
        BY <1>10, <2>2, <3>1, <3>2 DEF Cared
      <4>2. <<n, m>> \in todo'
        BY <1>9, <3>1, <4>1 DEF Dependents
      <4> QED
        BY <1>9, <4>2 DEF Noticed
    <3>3. CASE entity'[n][m].state # NoRoute
      <4>1. StateOf(entity'[n][m]) # NoRoute
        BY <2>2, <3>3 DEF StateOf, Cared, HasConfig
      <4> QED
        BY <1>24, <2>2, <4>1, ComesBack
    <3> QED
      BY <3>2, <3>3
  <2> QED
    BY <1>1, <1>2, <1>3, <1>13, <1>21, <2>1, <2>2, PresentTaken
<1> QED
  BY <1>15, <1>16, <1>17, <1>20, <1>22, <1>23, <1>24, <1>25, <1>26 DEF IInv

(* Of the routes of the agent, the one that is asked for is as it was asked for. *)
LEMMA ApplyOurs ==
    ASSUME TypeOK, LinkInv, OursInv, NEW t \in Tables, NEW d \in Destinations,
           NEW e \in Entities \cup {NoEntity}, NEW q \in Seq(Events),
           Apply(t, d, e, q), link' = link, created' = created, leased' = leased,
           HasConfig(entity[t][d]) => HasConfig(e) /\ e.args = entity[t][d].args
    PROVE  OursInv'
<1>1. /\ ours' \subseteq ours \cup {<<t, d>>}
      /\ ours' \in SUBSET Slots
      /\ \A n \in Tables, m \in Destinations :
            (n # t \/ m # d) => route'[n][m] = route[n][m] /\ entity'[n][m] = entity[n][m]
      /\ HasConfig(entity'[t][d]) <=> HasConfig(e)
      /\ \/ route'[t][d] = route[t][d] /\ entity'[t][d] = e /\ ours' = ours
         \/ /\ HasConfig(e) /\ route'[t][d] # NoRoute
            /\ \A a : a = entity'[t][d].args => Puts(t, d, a)'
  BY ApplyIs
<1>2. ASSUME NEW s \in ours'
      PROVE  OursAt(s[1], s[2])'
  <2>1. s[1] \in Tables /\ s[2] \in Destinations /\ s = <<s[1], s[2]>>
    BY <1>1, <1>2 DEF Slots
  <2>2. CASE s # <<t, d>>
    <3>1. OursAt(s[1], s[2])
      BY <1>1, <1>2, <2>2 DEF OursInv
    <3>2. s[1] # t \/ s[2] # d
      BY <2>1, <2>2
    <3> QED
      BY <1>1, <2>1, <3>1, <3>2, OursOn DEF OursAt
  <2>3. CASE s = <<t, d>> /\ ours' = ours /\ route'[t][d] = route[t][d] /\ entity'[t][d] = e
    <3>1. OursAt(t, d)
      BY <1>2, <2>3 DEF OursInv
    <3>2. \/ HasConfig(entity'[t][d]) /\ entity'[t][d].args = entity[t][d].args
          \/ ~HasConfig(entity[t][d])
      BY <2>3
    <3>3. OursAt(t, d)'
      BY <2>3, <3>1, <3>2, OursOn
    <3> QED
      BY <2>3, <3>3
  <2>4. CASE /\ s = <<t, d>> /\ HasConfig(e)
             /\ \A a : a = entity'[t][d].args => Puts(t, d, a)'
    <3>1. OursAt(t, d)'
      BY <1>1, <2>4 DEF OursAt, Puts, Deletable, HasConfig
    <3> QED
      BY <2>4, <3>1
  <2> QED
    BY <1>1, <2>2, <2>3, <2>4
<1> QED
  BY <1>2 DEF OursInv

LEMMA HandleRouteRemoveKeeps ==
    ASSUME IInv, HandleRouteRemove
    PROVE  IInv'
<1>1. TypeOK /\ LinkInv /\ LoopInv /\ KnownInv /\ OursInv /\ LinkToldInv /\ SyncInv
      /\ PresentInv /\ ToldInv
  BY DEF IInv
<1>2. PICK x \in Events : x = Head(queue)
  BY <1>1, HeadIs DEF HandleRouteRemove
<1>3. x.op = "delroute" /\ task = "idle" /\ queue # <<>> /\ Tail(queue) \in Seq(Events)
  BY <1>1, <1>2, HeadIs DEF HandleRouteRemove
<1>4. PICK t \in Tables, d \in Destinations : t = x.table /\ d = x.destination
  BY <1>3, EventIs
<1>5. /\ x \in RouteEvents /\ Said(x) = NoRoute
      /\ \A n \in Tables, m \in Destinations : x \in Of(n, m) <=> n = t /\ m = d
      /\ \A i \in Interfaces : x \notin OfLink(i)
  BY <1>3, <1>4, EventIs
<1>6. PICK g : g = entity[t][d]
  OBVIOUS
<1>7. PICK e : e = IF HasConfig(g) THEN [g EXCEPT !.state = NoRoute] ELSE NoEntity
  OBVIOUS
<1>8. /\ e \in Entities \cup {NoEntity} /\ StateOf(e) = NoRoute
      /\ HasConfig(e) <=> HasConfig(g)
      /\ HasConfig(g) => e \in Entities /\ e.state = NoRoute /\ e.config = g.config /\ e.args = g.args
  <2>1. CASE HasConfig(g)
    <3>1. g \in Entities
      BY <1>1, <1>6, <2>1 DEF HasConfig, TypeOK
    <3>2. e \in Entities /\ e.state = NoRoute /\ e.config = g.config /\ e.args = g.args
      BY <1>7, <2>1, <3>1, EntityIs
    <3> QED
      BY <2>1, <3>1, <3>2, EntityIs
  <2>2. CASE ~HasConfig(g)
    BY <1>7, <2>2 DEF HasConfig, StateOf
  <2> QED
    BY <2>1, <2>2
<1>9. UNCHANGED <<link, created, data, previous, tables, interfaces, leased, loop,
                  changes, late, stuck>>
  BY DEF HandleRouteRemove
<1>10. Apply(t, d, e, Tail(queue))
  <2>1. CASE HasConfig(g)
    BY <1>2, <1>4, <1>6, <1>7, <2>1 DEF HandleRouteRemove
  <2>2. CASE ~HasConfig(g)
    <3>1. /\ entity' = [entity EXCEPT ![t][d] = NoEntity] /\ queue' = Tail(queue)
          /\ route' = route /\ ours' = ours
      BY <1>2, <1>4, <1>6, <2>2 DEF HandleRouteRemove
    <3>2. e = NoEntity /\ ~Applies(t, d, e)
      BY <1>7, <2>2 DEF Applies, HasConfig
    <3> QED
      BY <3>1, <3>2 DEF Apply
  <2> QED
    BY <2>1, <2>2
<1>11. /\ Moves(Tail(queue))
       /\ entity' \in [Tables -> [Destinations -> Entities \cup {NoEntity}]]
       /\ ours' \subseteq ours \cup {<<t, d>>}
       /\ ours' \in SUBSET Slots
       /\ \A n \in Tables, m \in Destinations :
             (n # t \/ m # d) => route'[n][m] = route[n][m] /\ entity'[n][m] = entity[n][m]
       /\ HasConfig(entity'[t][d]) <=> HasConfig(e)
       /\ HasConfig(e) => entity'[t][d].config = e.config
       /\ StateOf(entity'[t][d]) = StateOf(e)
       /\ \/ route'[t][d] = route[t][d] /\ entity'[t][d] = e /\ ours' = ours
          \/ /\ HasConfig(e) /\ route'[t][d] # NoRoute
             /\ \A a : a = entity'[t][d].args => Puts(t, d, a)'
  BY <1>1, <1>3, <1>8, <1>9, <1>10, ApplyIs
<1>12. TypeOK'
  BY <1>1, <1>9, <1>11 DEF TypeOK, Moves, loop
<1>13. LinkInv'
  BY <1>1, <1>9, <1>11 DEF LinkInv, Moves
<1>14. LoopInv'
  BY <1>1, <1>3, <1>9 DEF LoopInv, OfLease, Configuring, loop
<1>15. \A n \in Tables, m \in Destinations :
          /\ HasConfig(entity'[n][m]) <=> HasConfig(entity[n][m])
          /\ HasConfig(entity[n][m]) => entity'[n][m].config = entity[n][m].config
  BY <1>6, <1>8, <1>11
<1>16. OursInv'
  <2>1. HasConfig(entity[t][d]) => HasConfig(e) /\ e.args = entity[t][d].args
    BY <1>6, <1>8
  <2> QED
    BY <1>1, <1>3, <1>8, <1>9, <1>10, <2>1, ApplyOurs
<1>17. /\ \A n, m : ~Due(n, m) /\ ~Due(n, m)'
       /\ \A n, i : ~Telling(n, i) /\ ~Telling(n, i)'
       /\ \A n, m, c : ~Noticed(n, m, c)
  BY <1>3, <1>9 DEF Due, Configuring, Telling, Noticed, loop
<1>18. SyncInv'
  <2>1. \A n \in Tables, m \in Destinations :
           Synced(data[n][m], entity[n][m]) => Synced(data'[n][m], entity'[n][m])
    BY <1>9, <1>15 DEF Synced
  <2> QED
    BY <1>1, <1>9, <1>17, <2>1 DEF SyncInv
<1>19. KnownInv'
  BY <1>1, <1>9, <1>15 DEF KnownInv
<1>20. ToldInv'
  <2>1. \A n \in Tables, m \in Destinations :
           StateOf(entity'[n][m]) = IF x \in Of(n, m) THEN Said(x) ELSE StateOf(entity[n][m])
    BY <1>5, <1>8, <1>11
  <2> QED
    BY <1>1, <1>2, <1>3, <1>11, <2>1, ToldTaken
<1>21. LinkToldInv'
  <2>1. \A n \in Range(tables) \ late, i \in Interfaces : Knows(n, i)' = Knows(n, i)
    BY <1>9, <1>17 DEF Knows
  <2> QED
    BY <1>1, <1>2, <1>3, <1>5, <1>9, <1>11, <2>1, LinkToldTaken
<1>22. PresentInv'
  <2> SUFFICES ASSUME NEW n \in Tables, NEW m \in Destinations
               PROVE  PresentAt(n, m)'
    BY DEF PresentInv
  <2>1. Cared(n, m)' => Cared(n, m) /\ entity'[n][m].config = entity[n][m].config
    BY <1>9, <1>15, <1>17 DEF Cared
  <2>2. CASE n # t \/ m # d
    <3>1. \A c : ~Announces(x, n, m, c)
      BY <1>3, <1>5, <2>2 DEF Announces, LinkEvents
    <3> QED
      BY <1>1, <1>2, <1>3, <1>11, <1>17, <2>1, <3>1, PresentTaken
  <2>3. CASE n = t /\ m = d
    <3>1. PICK c : c = entity'[t][d].config
      OBVIOUS
    <3> SUFFICES ASSUME Cared(t, d)', Reachable(t, c)', route'[t][d] = NoRoute
                 PROVE  Coming(queue', t, d, c)
      BY <2>3, <3>1 DEF PresentAt, Reachable, Coming, Noticed
    <3>2. Cared(t, d) /\ HasConfig(g) /\ c = e.config
      BY <1>6, <1>8, <1>11, <2>1, <2>3, <3>1 DEF Cared
    <3>3. \A k \in Destinations \ {d} :
             Leads(Tail(queue), Of(t, k), StateOf(entity[t][k]), HopOf(route[t][k]))
      <4>1. ASSUME NEW k \in Destinations \ {d}
            PROVE  Leads(Tail(queue), Of(t, k), StateOf(entity[t][k]), HopOf(route[t][k]))
        <5>1. Leads(queue, Of(t, k), StateOf(entity[t][k]), HopOf(route[t][k])) /\ x \notin Of(t, k)
          BY <1>1, <1>5 DEF ToldInv
        <5> QED
          BY <1>1, <1>2, <1>3, <5>1, LeadsTaken DEF TypeOK
      <4> QED
        BY <4>1
    <3>4. Leads(Tail(queue), Of(t, d), e.state, HopOf(route[t][d]))
      <4>1. Leads(queue, Of(t, d), StateOf(entity[t][d]), HopOf(route[t][d])) /\ x \in Of(t, d)
        BY <1>1, <1>5 DEF ToldInv
      <4> QED
        BY <1>1, <1>2, <1>3, <1>5, <1>8, <3>2, <4>1, LeadsTaken DEF TypeOK
    <3>5. \A i \in Interfaces : Leads(Tail(queue), OfLink(i), Knows(t, i), LinkOf(link[i]))
      <4>1. ASSUME NEW i \in Interfaces
            PROVE  Leads(Tail(queue), OfLink(i), Knows(t, i), LinkOf(link[i]))
        <5>1. t \in Range(tables) \ late /\ ~stuck
          BY <1>1, <3>2 DEF Cared, KnownInv
        <5>2. Leads(queue, OfLink(i), Knows(t, i), LinkOf(link[i])) /\ x \notin OfLink(i)
          BY <1>1, <1>5, <5>1 DEF LinkToldInv
        <5> QED
          BY <1>1, <1>2, <1>3, <5>2, LeadsTaken DEF TypeOK
      <4> QED
        BY <4>1
    <3>6. Coming(queue', t, d, c) \/ (c.gateway = NoGateway /\ Telling(t, c.interface))
      BY <1>1, <1>3, <1>8, <1>9, <1>10, <3>2, <3>3, <3>4, <3>5, ApplyPresent
    <3> QED
      BY <1>17, <3>6
  <2> QED
    BY <2>2, <2>3
<1> QED
  BY <1>12, <1>13, <1>14, <1>16, <1>18, <1>19, <1>20, <1>21, <1>22 DEF IInv

-----------------------------------------------------------------------------
(* handle_config_change at one route: it is done, or it ends halfway. *)

LEMMA ConfiguringKeeps ==
    ASSUME IInv, NEW t \in Tables, NEW d \in Destinations, Configuring, <<t, d>> \in todo,
           HandlerRaises \/ Reached(t, d),
           Moves(queue), OursInv', ours' \in SUBSET Slots,
           entity' \in [Tables -> [Destinations -> Entities \cup {NoEntity}]],
           \A n \in Tables, m \in Destinations :
               (n # t \/ m # d) => entity'[n][m] = entity[n][m],
           StateOf(entity'[t][d]) = StateOf(entity[t][d]),
           data[t] # NoTable => Synced(data[t][d], entity'[t][d]),
           Reached(t, d) => PresentAt(t, d)',
           UNCHANGED <<link, created, tables, interfaces, leased, event, changes, late>>
    PROVE  IInv'
<1>1. TypeOK /\ LinkInv /\ LoopInv /\ SyncInv /\ KnownInv /\ ToldInv /\ LinkToldInv /\ PresentInv
  BY DEF IInv
<1>2. task \in {"commit", "rollback"}
  BY DEF Configuring
<1>3. \/ /\ task' = "rollback" /\ data' = previous /\ previous' = previous /\ stuck' = stuck
         /\ todo' = {} /\ left' \in SetToSeqs({n \in Tables : data'[n] # NoTable})
      \/ /\ task' = "idle" /\ data' = data /\ previous' = previous
         /\ todo' = {} /\ left' = <<>> /\ stuck' = TRUE
      \/ Reached(t, d) /\ task' = task /\ data' = data /\ previous' = previous /\ stuck' = stuck
         /\ todo' = todo \ {<<t, d>>} /\ left' = left
  BY DEF HandlerRaises, RollBack, Reached
<1>4. /\ data' \in Configurations /\ previous' \in Configurations
      /\ task' \in {"idle", "commit", "rollback"} /\ left' \in Seq(Tables)
      /\ todo' \in SUBSET Slots /\ stuck' \in BOOLEAN /\ (stuck => stuck')
  <2>1. CASE task' = "rollback" /\ left' \in SetToSeqs({n \in Tables : data'[n] # NoTable})
    <3>1. left' \in Seq(Tables)
      BY <2>1, Restarts
    <3> QED
      BY <1>1, <1>2, <1>3, <3>1 DEF TypeOK
  <2>2. CASE task' = "idle" /\ stuck' = TRUE /\ todo' = {} /\ left' = <<>>
    <3>1. left' \in Seq(Tables)
      BY <2>2
    <3> QED
      BY <1>1, <1>3, <2>2, <3>1 DEF TypeOK
  <2>3. CASE Reached(t, d) /\ todo' = todo \ {<<t, d>>} /\ left' = left
    <3>1. /\ data' = data /\ previous' = previous /\ task' = task /\ stuck' = stuck
      BY <2>3 DEF Reached
    <3> QED
      BY <1>1, <1>2, <2>3, <3>1 DEF TypeOK
  <2> QED
    BY <1>3, <2>1, <2>2, <2>3
<1>5. /\ route' \in [Tables -> [Destinations -> KernelRoutes \cup {NoRoute}]]
      /\ queue' \in Seq(Events)
      /\ \A n \in Tables, m \in Destinations :
            route'[n][m] # NoRoute => link'[route'[n][m].hop.interface] # NoIndex
  BY DEF Moves
<1>6. TypeOK'
  <2>1. task' \in {"idle", "commit", "rollback", "dependents", "linkup"} \cup OfLease
    BY <1>4
  <2> QED
    BY <1>1, <1>4, <1>5, <2>1 DEF TypeOK
<1>7. LinkInv'
  BY <1>1, <1>5 DEF LinkInv
<1>8. \A n \in Tables, m \in Destinations :
         <<n, m>> \in todo' => <<n, m>> \in todo /\ entity'[n][m] = entity[n][m] /\ data' = data
  <2>1. ASSUME NEW n \in Tables, NEW m \in Destinations, <<n, m>> \in todo'
        PROVE  <<n, m>> \in todo /\ <<n, m>> # <<t, d>> /\ data' = data
    BY <1>3, <2>1
  <2> QED
    BY <2>1
<1>9. LoopInv'
  <2>1. ASSUME NEW s \in todo'
        PROVE  s[1] \in Range(tables') /\ (Wanted(data', s[1], s[2]) \/ HasConfig(entity'[s[1]][s[2]]))
    <3>1. s[1] \in Tables /\ s[2] \in Destinations /\ s = <<s[1], s[2]>>
      BY <1>4, <2>1 DEF Slots
    <3>2. s \in todo /\ entity'[s[1]][s[2]] = entity[s[1]][s[2]] /\ data' = data
      BY <1>8, <2>1, <3>1
    <3> QED
      BY <1>1, <3>2 DEF LoopInv
  <2>2. task' = "idle" => todo' = {}
    BY <1>2, <1>3
  <2>3. task' # "linkup" /\ task' \notin OfLease
    BY <1>4 DEF OfLease
  <2> QED
    BY <2>1, <2>2, <2>3 DEF LoopInv, OfLease
<1>10. KnownInv'
  <2>1. t \in Range(tables)
    BY <1>1 DEF LoopInv
  <2>2. ASSUME NEW n \in Tables, NEW m \in Destinations, HasConfig(entity'[n][m])
        PROVE  n \in Range(tables')
    <3>1. CASE n = t
      BY <2>1, <3>1
    <3>2. CASE n # t
      BY <1>1, <2>2, <3>2 DEF KnownInv
    <3> QED
      BY <3>1, <3>2
  <2> QED
    BY <2>2 DEF KnownInv
<1>11. ToldInv'
  <2>1. \A n \in Tables, m \in Destinations : StateOf(entity'[n][m]) = StateOf(entity[n][m])
    <3>1. ASSUME NEW n \in Tables, NEW m \in Destinations
          PROVE  StateOf(entity'[n][m]) = StateOf(entity[n][m])
      <4>1. CASE n = t /\ m = d
        BY <4>1
      <4>2. CASE n # t \/ m # d
        BY <4>2
      <4> QED
        BY <4>1, <4>2
    <3> QED
      BY <3>1
  <2> QED
    BY <1>1, <2>1, ToldKept
<1>12. /\ \A n, i : ~Telling(n, i) /\ ~Telling(n, i)'
       /\ \A n, m, c : ~Noticed(n, m, c)
  BY <1>2, <1>4, Unheard DEF Telling
<1>13. LinkToldInv'
  <2>1. \A n \in Range(tables) \ late, i \in Interfaces : Knows(n, i)' = Knows(n, i)
    BY <1>12 DEF Knows
  <2> QED
    BY <1>1, <1>4, <2>1, LinkToldKept
<1>14. SyncInv' /\ PresentInv'
  <2>1. CASE task' = "rollback" /\ left' \in SetToSeqs({n \in Tables : data'[n] # NoTable})
    BY <2>1, Restarts
  <2>2. CASE stuck'
    BY <2>2 DEF SyncInv, PresentInv, PresentAt, Cared
  <2>3. CASE Reached(t, d) /\ task' = task /\ data' = data /\ stuck' = stuck
             /\ todo' = todo \ {<<t, d>>} /\ left' = left
    <3>1. \A n \in Tables, m \in Destinations :
             (n # t \/ m # d) => (Due(n, m)' <=> Due(n, m))
      BY <2>3 DEF Due, Configuring
    <3>2. SyncInv'
      <4>1. ASSUME ~stuck', NEW n \in Tables, NEW m \in Destinations, data'[n] # NoTable, ~Due(n, m)'
            PROVE  Synced(data'[n][m], entity'[n][m])
        <5>1. CASE n = t /\ m = d
          BY <2>3, <4>1, <5>1
        <5>2. CASE n # t \/ m # d
          <6>1. Synced(data[n][m], entity[n][m])
            BY <1>1, <2>3, <3>1, <4>1, <5>2 DEF SyncInv
          <6> QED
            BY <2>3, <5>2, <6>1
        <5> QED
          BY <5>1, <5>2
      <4> QED
        BY <4>1 DEF SyncInv
    <3>3. ASSUME NEW n \in Tables, NEW m \in Destinations
          PROVE  PresentAt(n, m)'
      <4>1. CASE n = t /\ m = d
        BY <2>3, <4>1
      <4>2. CASE n # t \/ m # d
        <5>1. Cared(n, m)' => Cared(n, m) /\ entity'[n][m].config = entity[n][m].config
          BY <2>3, <3>1, <4>2 DEF Cared
        <5> QED
          BY <1>1, <1>12, <5>1, PresentKept
      <4> QED
        BY <4>1, <4>2
    <3> QED
      BY <3>2, <3>3 DEF PresentInv
  <2> QED
    BY <1>3, <2>1, <2>2, <2>3
<1> QED
  BY <1>6, <1>7, <1>9, <1>10, <1>11, <1>13, <1>14 DEF IInv

LEMMA UpdateRouteKeeps ==
    ASSUME IInv, NEW t \in Tables, NEW d \in Destinations, UpdateRoute(t, d)
    PROVE  IInv'
<1>1. TypeOK /\ LinkInv /\ LoopInv /\ OursInv /\ KnownInv /\ ToldInv /\ LinkToldInv
  BY DEF IInv
<1>2. PICK g \in Entities : g = IF entity[t][d] = NoEntity THEN New ELSE entity[t][d]
  BY <1>1, NewIs DEF TypeOK
<1>3. /\ Configuring /\ <<t, d>> \in todo /\ Wanted(data, t, d)
      /\ UNCHANGED <<link, created, tables, interfaces, leased, event, changes, late>>
  BY DEF UpdateRoute
<1>4. PICK c \in Hops : c = data[t][d]
  BY <1>1, <1>3, ConfigurationsAssumption DEF TypeOK, Wanted
<1>5. PICK e \in Entities : /\ e = [g EXCEPT !.config = c]
                            /\ e.config = c /\ e.state = g.state /\ e.args = g.args
  BY WithConfig
<1>6. /\ Apply(t, d, e, queue)
      /\ IF Raises(t, d, e) THEN HandlerRaises ELSE Reached(t, d)
  BY <1>2, <1>4, <1>5 DEF UpdateRoute
<1>7. queue \in Seq(Events)
  BY <1>1 DEF TypeOK
<1>8. HasConfig(e) /\ StateOf(e) = StateOf(entity[t][d])
  <2>1. HasConfig(e) /\ StateOf(e) = e.state
    BY <1>5, EntityIs
  <2>2. CASE entity[t][d] = NoEntity
    BY <1>2, <1>5, <2>1, <2>2, NewIs DEF StateOf
  <2>3. CASE entity[t][d] # NoEntity
    BY <1>2, <1>5, <2>1, <2>3 DEF StateOf
  <2> QED
    BY <2>1, <2>2, <2>3
<1>9. /\ Moves(queue)
      /\ entity' \in [Tables -> [Destinations -> Entities \cup {NoEntity}]]
      /\ ours' \in SUBSET Slots
      /\ \A n \in Tables, m \in Destinations :
            (n # t \/ m # d) => route'[n][m] = route[n][m] /\ entity'[n][m] = entity[n][m]
      /\ HasConfig(entity'[t][d]) /\ entity'[t][d].config = c
      /\ StateOf(entity'[t][d]) = StateOf(entity[t][d])
  <2>1. link' = link /\ created' = created /\ e \in Entities \cup {NoEntity}
    BY <1>3
  <2>2. /\ Moves(queue)
        /\ entity' \in [Tables -> [Destinations -> Entities \cup {NoEntity}]]
        /\ ours' \in SUBSET Slots
        /\ \A n \in Tables, m \in Destinations :
              (n # t \/ m # d) => route'[n][m] = route[n][m] /\ entity'[n][m] = entity[n][m]
        /\ HasConfig(entity'[t][d]) <=> HasConfig(e)
        /\ HasConfig(e) => entity'[t][d].config = e.config
        /\ StateOf(entity'[t][d]) = StateOf(e)
    BY <1>1, <1>6, <1>7, <2>1, ApplyIs
  <2> QED
    BY <1>5, <1>8, <2>2
<1>10. OursInv'
  <2>1. HasConfig(entity[t][d]) => HasConfig(e) /\ e.args = entity[t][d].args
    BY <1>2, <1>5, <1>8 DEF HasConfig
  <2> QED
    BY <1>1, <1>3, <1>6, <1>7, <2>1, ApplyOurs
<1>11. Synced(data[t][d], entity'[t][d])
  BY <1>4, <1>9, SentinelsAssumption DEF Synced
<1>12. ASSUME Reached(t, d)
       PROVE  PresentAt(t, d)'
  <2> SUFFICES ASSUME Cared(t, d)', Reachable(t, c)', route'[t][d] = NoRoute
               PROVE  Coming(queue', t, d, c)
    BY <1>9 DEF PresentAt, Reachable, Coming, Noticed
  <2>1. ~stuck /\ t \in Range(tables) \ late
    BY <1>1, <1>3, <1>12 DEF Cared, Reached, LoopInv
  <2>2. \A m \in Destinations \ {d} :
           Leads(queue, Of(t, m), StateOf(entity[t][m]), HopOf(route[t][m]))
    BY <1>1 DEF ToldInv
  <2>3. e.state = StateOf(entity[t][d])
    BY <1>8, EntityIs
  <2>4. Leads(queue, Of(t, d), e.state, HopOf(route[t][d]))
    BY <1>1, <2>3 DEF ToldInv
  <2>5. \A i \in Interfaces : Leads(queue, OfLink(i), Knows(t, i), LinkOf(link[i]))
    BY <1>1, <2>1 DEF LinkToldInv
  <2>6. Coming(queue', t, d, c) \/ (c.gateway = NoGateway /\ Telling(t, c.interface))
    BY <1>1, <1>3, <1>5, <1>6, <1>7, <1>8, <2>2, <2>4, <2>5, ApplyPresent
  <2> QED
    BY <1>3, <2>6 DEF Telling, Configuring
<1> QED
  BY <1>3, <1>6, <1>9, <1>10, <1>11, <1>12, ConfiguringKeeps

LEMMA RemoveRouteKeeps ==
    ASSUME IInv, NEW t \in Tables, NEW d \in Destinations, RemoveRoute(t, d)
    PROVE  IInv'
<1>1. TypeOK /\ LinkInv /\ LoopInv /\ OursInv
  BY DEF IInv
<1>2. /\ Configuring /\ <<t, d>> \in todo /\ ~Wanted(data, t, d)
      /\ UNCHANGED <<link, created, tables, interfaces, leased, event, changes, late>>
  BY DEF RemoveRoute
<1>3. PICK g \in Entities : g = entity[t][d]
  <2>1. HasConfig(entity[t][d])
    BY <1>1, <1>2 DEF LoopInv
  <2>2. entity[t][d] \in Entities \cup {NoEntity}
    BY <1>1 DEF TypeOK
  <2> QED
    BY <2>1, <2>2 DEF HasConfig
<1>4. PICK a \in Args \cup {NoArgs} :
         a = IF RemoveRaises(t, d, g.args) THEN g.args ELSE NoArgs
  BY <1>3, EntityIs
<1>5. PICK h \in Entities : /\ h = [g EXCEPT !.config = NoConfig]
                            /\ h.config = NoConfig /\ h.state = g.state /\ h.args = g.args
  BY WithConfig
<1>6. PICK e \in Entities : /\ e = [h EXCEPT !.args = a]
                            /\ e.config = h.config /\ e.state = h.state /\ e.args = a
  BY WithArgs
<1>7. /\ e = [g EXCEPT !.config = NoConfig, !.args = a]
      /\ e.config = NoConfig /\ e.state = g.state
  BY <1>5, <1>6
<1>8. /\ Removal(t, d, g.args) /\ entity' = [entity EXCEPT ![t][d] = e]
      /\ HandlerRaises \/ Reached(t, d)
  BY <1>3, <1>4, <1>7 DEF RemoveRoute
<1>9. /\ entity' \in [Tables -> [Destinations -> Entities \cup {NoEntity}]]
      /\ entity'[t][d] = e
      /\ \A n \in Tables, m \in Destinations : (n # t \/ m # d) => entity'[n][m] = entity[n][m]
  <2>1. PICK S : S = Entities \cup {NoEntity}
    OBVIOUS
  <2>2. entity \in [Tables -> [Destinations -> S]] /\ e \in S
    BY <1>1, <2>1 DEF TypeOK
  <2>3. /\ entity' \in [Tables -> [Destinations -> S]] /\ entity'[t][d] = e
        /\ \A n \in Tables, m \in Destinations : (n # t \/ m # d) => entity'[n][m] = entity[n][m]
    BY <1>8, <2>2, SlotSet
  <2> QED
    BY <2>1, <2>3
<1>10. /\ Moves(queue) /\ ours' \subseteq ours /\ ours' \subseteq Slots
       /\ \A n \in Tables, m \in Destinations : (n # t \/ m # d) => route'[n][m] = route[n][m]
       /\ \/ route'[t][d] = route[t][d] /\ ~Puts(t, d, g.args)
          \/ <<t, d>> \notin ours'
  BY <1>1, <1>2, <1>8, RemovalIs
<1>11. OursInv'
  <2>1. ASSUME NEW s \in ours'
        PROVE  OursAt(s[1], s[2])'
    <3>1. s[1] \in Tables /\ s[2] \in Destinations /\ s = <<s[1], s[2]>> /\ OursAt(s[1], s[2])
      BY <1>1, <1>10, <2>1 DEF Slots, OursInv
    <3>2. CASE s[1] # t \/ s[2] # d
      BY <1>2, <1>9, <1>10, <3>1, <3>2, OursOn DEF OursAt
    <3>3. CASE s[1] = t /\ s[2] = d
      <4>1. route'[t][d] = route[t][d] /\ ~Puts(t, d, entity[t][d].args)
        BY <1>3, <1>10, <2>1, <3>1, <3>3
      <4> QED
        BY <1>2, <3>1, <3>3, <4>1, OursOn
    <3> QED
      BY <3>2, <3>3
  <2> QED
    BY <2>1 DEF OursInv
<1>12. ~HasConfig(entity'[t][d]) /\ StateOf(entity'[t][d]) = StateOf(entity[t][d])
  <2>1. ~HasConfig(e)
    BY <1>7 DEF HasConfig
  <2>2. StateOf(e) = e.state /\ StateOf(g) = g.state
    BY EntityIs
  <2> QED
    BY <1>3, <1>6, <1>7, <1>9, <2>1, <2>2
<1>13. data[t] # NoTable => Synced(data[t][d], entity'[t][d])
  BY <1>2, <1>12 DEF Wanted, Synced
<1>14. PresentAt(t, d)'
  BY <1>12 DEF PresentAt, Cared
<1> QED
  BY <1>2, <1>8, <1>9, <1>10, <1>11, <1>12, <1>13, <1>14, ConfiguringKeeps

(* A dependent of a route or of a link that came. *)
LEMMA ApplyDependentKeeps ==
    ASSUME IInv, NEW t \in Tables, NEW d \in Destinations, ApplyDependent(t, d)
    PROVE  IInv'
<1>1. /\ TypeOK /\ LinkInv /\ LoopInv /\ OursInv /\ SyncInv /\ KnownInv
      /\ ToldInv /\ LinkToldInv /\ PresentInv
  BY DEF IInv
<1>2. /\ task \in {"dependents", "linkup"} /\ <<t, d>> \in todo
      /\ UNCHANGED <<link, created, data, previous, tables, interfaces, leased, changes, late>>
  BY DEF ApplyDependent
<1>3. \/ /\ task' = "idle" /\ left' = <<>> /\ todo' = {} /\ event' = NoEvent /\ stuck' = TRUE
      \/ /\ task' = task /\ left' = left /\ todo' = todo \ {<<t, d>>} /\ event' = event
         /\ stuck' = stuck
  BY DEF ApplyDependent
<1>4. PICK e \in Entities \cup {NoEntity} : e = entity[t][d]
  BY <1>1 DEF TypeOK
<1>5. Apply(t, d, e, queue) /\ queue \in Seq(Events)
  BY <1>1, <1>4 DEF ApplyDependent, TypeOK
<1>6. /\ Moves(queue)
      /\ entity' \in [Tables -> [Destinations -> Entities \cup {NoEntity}]]
      /\ ours' \in SUBSET Slots
      /\ \A n \in Tables, m \in Destinations :
            (n # t \/ m # d) => route'[n][m] = route[n][m] /\ entity'[n][m] = entity[n][m]
      /\ HasConfig(entity'[t][d]) <=> HasConfig(e)
      /\ HasConfig(e) => entity'[t][d].config = e.config
      /\ StateOf(entity'[t][d]) = StateOf(e)
  BY <1>1, <1>2, <1>5, ApplyIs
<1>7. \A n \in Tables, m \in Destinations :
         /\ HasConfig(entity'[n][m]) <=> HasConfig(entity[n][m])
         /\ HasConfig(entity[n][m]) => entity'[n][m].config = entity[n][m].config
         /\ StateOf(entity'[n][m]) = StateOf(entity[n][m])
  BY <1>4, <1>6
<1>8. /\ route' \in [Tables -> [Destinations -> KernelRoutes \cup {NoRoute}]]
      /\ queue' \in Seq(Events)
      /\ \A n \in Tables, m \in Destinations :
            route'[n][m] # NoRoute => link'[route'[n][m].hop.interface] # NoIndex
  BY <1>6 DEF Moves
<1>9. /\ task' \in {"idle", "dependents", "linkup"} /\ event' \in Events \cup {NoEvent}
      /\ left' \in Seq(Tables) /\ todo' \in SUBSET Slots /\ stuck' \in BOOLEAN /\ (stuck => stuck')
  <2>1. CASE left' = <<>> /\ task' = "idle" /\ todo' = {} /\ event' = NoEvent /\ stuck' = TRUE
    <3>1. left' \in Seq(Tables)
      BY <2>1
    <3> QED
      BY <2>1, <3>1
  <2>2. CASE left' = left /\ todo' = todo \ {<<t, d>>} /\ task' = task /\ event' = event
             /\ stuck' = stuck
    BY <1>1, <1>2, <2>2 DEF TypeOK
  <2> QED
    BY <1>3, <2>1, <2>2
<1>10. TypeOK'
  <2>1. task' \in {"idle", "commit", "rollback", "dependents", "linkup"} \cup OfLease
    BY <1>9
  <2> QED
    BY <1>1, <1>2, <1>6, <1>8, <1>9, <2>1 DEF TypeOK
<1>11. LinkInv'
  BY <1>1, <1>2, <1>8 DEF LinkInv
<1>12. LoopInv'
  BY <1>1, <1>2, <1>3 DEF LoopInv, OfLease, Configuring
<1>13. OursInv'
  BY <1>1, <1>2, <1>4, <1>5, ApplyOurs
<1>14. \A n, m : ~Due(n, m) /\ ~Due(n, m)'
  BY <1>2, <1>9 DEF Due, Configuring
<1>15. SyncInv'
  <2>1. \A n \in Tables, m \in Destinations :
           Synced(data[n][m], entity[n][m]) => Synced(data'[n][m], entity'[n][m])
    BY <1>2, <1>7 DEF Synced
  <2> QED
    BY <1>1, <1>2, <1>9, <1>14, <2>1 DEF SyncInv
<1>16. KnownInv'
  BY <1>1, <1>2, <1>7 DEF KnownInv
<1>17. ToldInv'
  BY <1>1, <1>6, <1>7, ToldKept
<1>18. CASE stuck'
  <2>1. LinkToldInv' /\ PresentInv'
    BY <1>18 DEF LinkToldInv, PresentInv, PresentAt, Cared
  <2> QED
    BY <1>10, <1>11, <1>12, <1>13, <1>15, <1>16, <1>17, <2>1 DEF IInv
<1>19. CASE ~stuck'
  <2>1. /\ task' = task /\ left' = left /\ todo' = todo \ {<<t, d>>} /\ event' = event
        /\ stuck' = stuck
    BY <1>3, <1>19
  <2>2. \A n, i : Telling(n, i)' <=> Telling(n, i)
    BY <2>1 DEF Telling
  <2>3. LinkToldInv'
    <3>1. \A n \in Range(tables) \ late, i \in Interfaces : Knows(n, i)' = Knows(n, i)
      BY <1>2, <2>2 DEF Knows
    <3> QED
      BY <1>1, <1>2, <1>6, <1>9, <3>1, LinkToldKept
  <2>4. ASSUME NEW n \in Tables, NEW m \in Destinations
        PROVE  PresentAt(n, m)'
    <3>1. Cared(n, m)' => Cared(n, m) /\ entity'[n][m].config = entity[n][m].config
      BY <1>2, <1>7, <1>14, <2>1 DEF Cared
    <3>2. CASE n # t \/ m # d
      <4>1. \A c : Noticed(n, m, c) => Noticed(n, m, c)'
        <5>1. <<n, m>> \in todo => <<n, m>> \in todo'
          BY <2>1, <3>2
        <5> QED
          BY <2>1, <2>2, <5>1 DEF Noticed
      <4> QED
        BY <1>1, <1>6, <3>1, <4>1, PresentKept
    <3>3. CASE n = t /\ m = d
      <4>1. PICK c : c = entity'[t][d].config
        OBVIOUS
      <4> SUFFICES ASSUME Cared(t, d)', Reachable(t, c)', route'[t][d] = NoRoute
                   PROVE  Coming(queue', t, d, c) \/ Noticed(t, d, c)'
        BY <3>3, <4>1 DEF PresentAt, Reachable, Coming, Noticed
      <4>2. /\ HasConfig(e) /\ c = e.config /\ e \in Entities
            /\ t \in Range(tables) \ late /\ ~stuck
        BY <1>1, <1>4, <1>6, <3>1, <3>3, <4>1 DEF Cared, KnownInv, HasConfig
      <4>3. \A k \in Destinations \ {d} :
               Leads(queue, Of(t, k), StateOf(entity[t][k]), HopOf(route[t][k]))
        BY <1>1 DEF ToldInv
      <4>4. e.state = StateOf(entity[t][d])
        BY <1>4, <4>2, EntityIs
      <4>5. Leads(queue, Of(t, d), e.state, HopOf(route[t][d]))
        BY <1>1, <4>4 DEF ToldInv
      <4>6. \A i \in Interfaces : Leads(queue, OfLink(i), Knows(t, i), LinkOf(link[i]))
        BY <1>1, <4>2 DEF LinkToldInv
      <4>7. Coming(queue', t, d, c) \/ (c.gateway = NoGateway /\ Telling(t, c.interface))
        BY <1>1, <1>2, <1>5, <4>2, <4>3, <4>5, <4>6, ApplyPresent
      <4> QED
        BY <2>2, <4>7 DEF Noticed
    <3> QED
      BY <3>2, <3>3
  <2> QED
    BY <1>10, <1>11, <1>12, <1>13, <1>15, <1>16, <1>17, <2>3, <2>4 DEF IInv, PresentInv
<1> QED
  BY <1>18, <1>19

-----------------------------------------------------------------------------
(* The handlers of leases, at one route. *)

LEMMA LeasedSet ==
    ASSUME NEW S, NEW f \in [Interfaces -> [Destinations -> S]], NEW i \in Interfaces,
           NEW d \in Destinations, NEW x \in S
    PROVE  LET g == [f EXCEPT ![i][d] = x] IN
           /\ g \in [Interfaces -> [Destinations -> S]]
           /\ g[i][d] = x
           /\ \A j \in Interfaces, m \in Destinations : (j # i \/ m # d) => g[j][m] = f[j][m]
  OBVIOUS

LEMMA LeaseStepKeeps ==
    ASSUME IInv, task \in OfLease, NEW d \in Destinations, Moves(queue),
           OursInv', ours' \in SUBSET Slots,
           leased' \in [Interfaces -> [Destinations -> LeasedRoutes \cup {NoEntity}]],
           \/ LoopRaises
           \/ LoopInv' /\ todo' = todo \ {<<Main, d>>} /\ UNCHANGED <<task, event, left, stuck>>,
           UNCHANGED <<link, created, data, previous, tables, interfaces, entity, changes, late>>
    PROVE  IInv'
<1>1. TypeOK /\ LinkInv /\ SyncInv /\ KnownInv /\ ToldInv /\ LinkToldInv /\ PresentInv
  BY DEF IInv
<1>2. \/ /\ task' = "idle" /\ left' = <<>> /\ todo' = {} /\ event' = NoEvent /\ stuck' = TRUE
      \/ /\ task' = task /\ left' = left /\ todo' = todo \ {<<Main, d>>} /\ event' = event
         /\ stuck' = stuck /\ LoopInv'
  BY DEF LoopRaises
<1>3. /\ task' \in {"idle"} \cup OfLease /\ event' \in Events \cup {NoEvent}
      /\ left' \in Seq(Tables) /\ todo' \in SUBSET Slots /\ stuck' \in BOOLEAN /\ (stuck => stuck')
  <2>1. CASE left' = <<>> /\ task' = "idle" /\ todo' = {} /\ event' = NoEvent /\ stuck' = TRUE
    <3>1. left' \in Seq(Tables)
      BY <2>1
    <3> QED
      BY <2>1, <3>1
  <2>2. CASE left' = left /\ todo' = todo \ {<<Main, d>>} /\ task' = task /\ event' = event
             /\ stuck' = stuck
    BY <1>1, <2>2 DEF TypeOK
  <2> QED
    BY <1>2, <2>1, <2>2
<1>4. /\ route' \in [Tables -> [Destinations -> KernelRoutes \cup {NoRoute}]]
      /\ queue' \in Seq(Events)
      /\ \A n \in Tables, m \in Destinations :
            route'[n][m] # NoRoute => link'[route'[n][m].hop.interface] # NoIndex
  BY DEF Moves
<1>5. TypeOK'
  <2>1. task' \in {"idle", "commit", "rollback", "dependents", "linkup"} \cup OfLease
    BY <1>3
  <2> QED
    BY <1>1, <1>3, <1>4, <2>1 DEF TypeOK
<1>6. LinkInv'
  BY <1>1, <1>4 DEF LinkInv
<1>7. LoopInv'
  BY <1>2 DEF LoopInv, OfLease, Configuring
<1>8. /\ \A n, i : ~Telling(n, i) /\ ~Telling(n, i)'
      /\ \A n, m, c : ~Noticed(n, m, c)
      /\ \A n, m : ~Due(n, m) /\ ~Due(n, m)'
  BY <1>3 DEF OfLease, Telling, Noticed, Due, Configuring
<1>9. SyncInv'
  BY <1>1, <1>3, <1>8 DEF SyncInv
<1>10. KnownInv'
  BY <1>1 DEF KnownInv
<1>11. ToldInv'
  BY <1>1, ToldKept
<1>12. LinkToldInv'
  <2>1. \A n \in Range(tables) \ late, i \in Interfaces : Knows(n, i)' = Knows(n, i)
    BY <1>8 DEF Knows
  <2> QED
    BY <1>1, <1>3, <2>1, LinkToldKept
<1>13. PresentInv'
  <2>1. ASSUME NEW n \in Tables, NEW m \in Destinations
        PROVE  PresentAt(n, m)'
    <3>1. Cared(n, m)' => Cared(n, m) /\ entity'[n][m].config = entity[n][m].config
      BY <1>3, <1>8 DEF Cared
    <3> QED
      BY <1>1, <1>8, <3>1, PresentKept
  <2> QED
    BY <2>1 DEF PresentInv
<1> QED
  BY <1>5, <1>6, <1>7, <1>9, <1>10, <1>11, <1>12, <1>13 DEF IInv

(* What a removal leaves of the agent is as it was asked for. *)
LEMMA RemovalOurs ==
    ASSUME TypeOK, LinkInv, OursInv, NEW d \in Destinations, NEW i \in Interfaces,
           Removal(Main, d, leased[i][d].args), UNCHANGED <<link, entity>>,
           \A j \in Interfaces, m \in Destinations :
               (j # i \/ m # d) => leased'[j][m] = leased[j][m]
    PROVE  OursInv'
<1>1. Main \in Tables
  BY ConfigurationsAssumption
<1>2. /\ ours' \subseteq ours /\ ours' \subseteq Slots
      /\ \A n \in Tables, m \in Destinations : (n # Main \/ m # d) => route'[n][m] = route[n][m]
      /\ \/ route'[Main][d] = route[Main][d] /\ ~Puts(Main, d, leased[i][d].args)
         \/ <<Main, d>> \notin ours'
  BY <1>1, RemovalIs
<1>3. ASSUME NEW s \in ours'
      PROVE  OursAt(s[1], s[2])'
  <2>1. s[1] \in Tables /\ s[2] \in Destinations /\ s = <<s[1], s[2]>> /\ OursAt(s[1], s[2])
    BY <1>2, <1>3 DEF Slots, OursInv
  <2>2. route'[s[1]][s[2]] = route[s[1]][s[2]]
    BY <1>2, <1>3, <2>1
  <2>3. \/ HasConfig(entity'[s[1]][s[2]]) /\ entity'[s[1]][s[2]].args = entity[s[1]][s[2]].args
        \/ ~HasConfig(entity[s[1]][s[2]])
    OBVIOUS
  <2>4. \A j \in Interfaces :
           s[1] = Main /\ HasLease(j, s[2]) /\ Puts(s[1], s[2], leased[j][s[2]].args)
               => leased'[j][s[2]] = leased[j][s[2]]
    <3>1. ASSUME NEW j \in Interfaces, s[1] = Main, Puts(s[1], s[2], leased[j][s[2]].args)
          PROVE  j # i \/ s[2] # d
      BY <1>2, <1>3, <2>1, <3>1
    <3> QED
      BY <2>1, <3>1
  <2> QED
    BY <2>1, <2>2, <2>3, <2>4, OursOn
<1> QED
  BY <1>3 DEF OursInv

LEMMA DropRouteKeeps ==
    ASSUME IInv, NEW d \in Destinations, DropRoute(d)
    PROVE  IInv'
<1>1. TypeOK /\ LinkInv /\ LoopInv /\ OursInv
  BY DEF IInv
<1>2. /\ task = "drop" /\ task \in OfLease /\ <<Main, d>> \in todo
      /\ UNCHANGED <<link, created, data, previous, tables, interfaces, entity, changes, late>>
  BY DEF DropRoute, OfLease
<1>3. event \in LeaseEvents
  BY <1>1, <1>2 DEF LoopInv
<1>4. PICK i \in Interfaces : i = event.interface
  BY <1>3 DEF LeaseEvents
<1>5. PICK args : args = leased[i][d].args
  OBVIOUS
<1>6. /\ leased' = [leased EXCEPT ![i][d] = NoEntity]
      /\ Removal(Main, d, args)
      /\ \/ LoopRaises
         \/ todo' = todo \ {<<Main, d>>} /\ UNCHANGED <<task, event, left, stuck>>
  BY <1>4, <1>5 DEF DropRoute
<1>7. /\ leased' \in [Interfaces -> [Destinations -> LeasedRoutes \cup {NoEntity}]]
      /\ leased'[i][d] = NoEntity
      /\ \A j \in Interfaces, m \in Destinations :
            (j # i \/ m # d) => leased'[j][m] = leased[j][m]
  <2>1. NoEntity \in LeasedRoutes \cup {NoEntity}
    OBVIOUS
  <2>2. /\ leased \in [Interfaces -> [Destinations -> LeasedRoutes \cup {NoEntity}]]
        /\ leased' = [leased EXCEPT ![i][d] = NoEntity]
    BY <1>1, <1>6 DEF TypeOK
  <2> QED
    BY <2>1, <2>2, LeasedSet
<1>8. Moves(queue) /\ ours' \in SUBSET Slots
  BY <1>1, <1>2, <1>6, RemovalIs, ConfigurationsAssumption
<1>9. OursInv'
  BY <1>1, <1>2, <1>5, <1>6, <1>7, RemovalOurs
<1>10. ASSUME todo' = todo \ {<<Main, d>>}, UNCHANGED <<task, event, left, stuck>>
       PROVE  LoopInv'
  <2>1. /\ task' = "drop" /\ task' \in OfLease /\ event' = event /\ ~Configuring'
        /\ ~HasLease(i, d)' /\ <<Main, d>> \notin todo'
    BY <1>2, <1>7, <1>10 DEF HasLease, Configuring
  <2>2. \A n \in Destinations : n # d =>
           /\ leased'[i][n] = leased[i][n]
           /\ HasLease(i, n)' <=> HasLease(i, n)
           /\ <<Main, n>> \in todo' <=> <<Main, n>> \in todo
    BY <1>7, <1>10 DEF HasLease
  <2>3. \A n \in Destinations : <<Main, n>> \in todo' => HasLease(i, n)'
    BY <1>1, <1>2, <1>4, <2>1, <2>2 DEF LoopInv, OfLease
  <2>4. \A n \in Destinations :
           HasLease(i, n)' /\ event'.routes[n] # leased'[i][n].gateway => <<Main, n>> \in todo'
    BY <1>1, <1>2, <1>4, <2>1, <2>2 DEF LoopInv
  <2>5. i = event'.interface
    BY <1>4, <2>1
  <2> QED
    BY <1>3, <2>1, <2>3, <2>4, <2>5 DEF LoopInv
<1> QED
  BY <1>2, <1>6, <1>7, <1>8, <1>9, <1>10, LeaseStepKeeps

LEMMA ReleaseRouteKeeps ==
    ASSUME IInv, NEW d \in Destinations, ReleaseRoute(d)
    PROVE  IInv'
<1>1. TypeOK /\ LinkInv /\ LoopInv /\ OursInv
  BY DEF IInv
<1>2. /\ task \in {"preinit", "release"} /\ task \in OfLease /\ <<Main, d>> \in todo
      /\ UNCHANGED <<link, created, data, previous, tables, interfaces, entity, changes, late>>
  BY DEF ReleaseRoute, OfLease
<1>3. event \in LeaseEvents
  BY <1>1, <1>2 DEF LoopInv
<1>4. PICK i \in Interfaces : i = event.interface
  BY <1>3 DEF LeaseEvents
<1>5. PICK args : args = leased[i][d].args
  OBVIOUS
<1>6. HasLease(i, d)
  BY <1>1, <1>2, <1>4 DEF LoopInv, OfLease
<1>7. PICK x \in LeasedRoutes \cup {NoEntity} :
         /\ x = IF task = "preinit" THEN NoEntity ELSE [leased[i][d] EXCEPT !.args = NoArgs]
         /\ task = "release" => x.args = NoArgs
  <2>1. PICK l \in LeasedRoutes : l = leased[i][d]
    BY <1>1, <1>6 DEF TypeOK, HasLease
  <2>2. [l EXCEPT !.args = NoArgs] \in LeasedRoutes /\ [l EXCEPT !.args = NoArgs].args = NoArgs
    BY DEF LeasedRoutes
  <2> QED
    BY <1>2, <2>1, <2>2
<1>8. /\ Removal(Main, d, args)
      /\ \/ LoopRaises /\ leased' = leased
         \/ /\ todo' = todo \ {<<Main, d>>} /\ UNCHANGED <<task, event, left, stuck>>
            /\ leased' = [leased EXCEPT ![i][d] = x]
  BY <1>4, <1>5, <1>7 DEF ReleaseRoute
<1>9. /\ leased' \in [Interfaces -> [Destinations -> LeasedRoutes \cup {NoEntity}]]
      /\ leased' = leased \/ leased'[i][d] = x
      /\ \A j \in Interfaces, m \in Destinations :
            (j # i \/ m # d) => leased'[j][m] = leased[j][m]
  <2>1. CASE leased' = leased
    BY <1>1, <2>1 DEF TypeOK
  <2>2. CASE leased' = [leased EXCEPT ![i][d] = x]
    <3>1. leased \in [Interfaces -> [Destinations -> LeasedRoutes \cup {NoEntity}]]
      BY <1>1 DEF TypeOK
    <3> QED
      BY <2>2, <3>1, LeasedSet
  <2> QED
    BY <1>8, <2>1, <2>2
<1>10. Moves(queue) /\ ours' \in SUBSET Slots
  BY <1>1, <1>2, <1>8, RemovalIs, ConfigurationsAssumption
<1>11. OursInv'
  BY <1>1, <1>2, <1>5, <1>8, <1>9, RemovalOurs
<1>12. ASSUME todo' = todo \ {<<Main, d>>}, UNCHANGED <<task, event, left, stuck>>,
              leased' = [leased EXCEPT ![i][d] = x]
       PROVE  LoopInv'
  <2>1. /\ task' = task /\ task' \in {"preinit", "release"} /\ event' = event /\ ~Configuring'
        /\ leased'[i][d] = x /\ <<Main, d>> \notin todo' /\ i = event'.interface
    <3>1. leased \in [Interfaces -> [Destinations -> LeasedRoutes \cup {NoEntity}]]
      BY <1>1 DEF TypeOK
    <3>2. leased'[i][d] = x
      BY <1>12, <3>1, LeasedSet
    <3>3. task' = task /\ event' = event /\ <<Main, d>> \notin todo'
      BY <1>12
    <3>4. task' \in {"preinit", "release"} /\ ~Configuring'
      BY <1>2, <3>3 DEF Configuring
    <3> QED
      BY <1>4, <3>2, <3>3, <3>4
  <2>2. \A n \in Destinations : n # d =>
           /\ leased'[i][n] = leased[i][n]
           /\ HasLease(i, n)' <=> HasLease(i, n)
           /\ <<Main, n>> \in todo' <=> <<Main, n>> \in todo
    BY <1>9, <1>12 DEF HasLease
  <2>3. \A n \in Destinations : <<Main, n>> \in todo' => HasLease(i, n)'
    BY <1>1, <1>2, <1>4, <2>1, <2>2 DEF LoopInv, OfLease
  <2>4. task' = "release" =>
           \A n \in Destinations :
              HasLease(i, n)' => leased'[i][n].args = NoArgs \/ <<Main, n>> \in todo'
    <3>1. task = "release" =>
             \A n \in Destinations :
                HasLease(i, n) => leased[i][n].args = NoArgs \/ <<Main, n>> \in todo
      BY <1>1, <1>4 DEF LoopInv
    <3>2. task' = "release" => task = "release" /\ leased'[i][d].args = NoArgs
      BY <1>7, <1>12, <2>1
    <3> QED
      BY <2>2, <3>1, <3>2
  <2> QED
    BY <1>3, <2>1, <2>3, <2>4 DEF LoopInv
<1> QED
  BY <1>2, <1>8, <1>9, <1>10, <1>11, <1>12, LeaseStepKeeps

LEMMA TakeRouteKeeps ==
    ASSUME IInv, NEW d \in Destinations, TakeRoute(d)
    PROVE  IInv'
<1>1. TypeOK /\ LinkInv /\ LoopInv /\ OursInv /\ Main \in Tables
  BY ConfigurationsAssumption DEF IInv
<1>2. /\ task = "take" /\ task \in OfLease /\ <<Main, d>> \in todo
      /\ UNCHANGED <<link, created, data, previous, tables, interfaces, entity, changes, late>>
  BY DEF TakeRoute, OfLease
<1>3. event \in LeaseEvents
  BY <1>1, <1>2 DEF LoopInv
<1>4. PICK i \in Interfaces : i = event.interface
  BY <1>3 DEF LeaseEvents
<1>5. ~HasLease(i, d) /\ event.routes[d] # NoRoute
  BY <1>1, <1>2, <1>4 DEF LoopInv
<1>6. PICK g \in Gateways \cup {NoGateway} : g = event.routes[d]
  BY <1>3, <1>5, LeaseAssumption DEF LeaseEvents
<1>7. PICK hop \in Hops : hop = [gateway |-> g, interface |-> i]
  BY DEF Hops
<1>8. PICK put \in BOOLEAN :
         put = /\ \/ g = NoGateway
                  \/ Accessible(entity[Main], Main, [hop EXCEPT !.interface = NoInterface])
               /\ Accepts(Main, hop)
  OBVIOUS
<1>9. PICK x : x = [gateway |-> g, args |-> IF put THEN ArgsFor(hop) ELSE NoArgs]
  OBVIOUS
<1>10. /\ leased' = [leased EXCEPT ![i][d] = x]
       /\ IF put THEN Replace(Main, d, hop, queue) ELSE UNCHANGED <<route, queue, ours>>
       /\ \/ LoopRaises
          \/ todo' = todo \ {<<Main, d>>} /\ UNCHANGED <<task, event, left, stuck>>
  BY <1>4, <1>6, <1>7, <1>8, <1>9 DEF TakeRoute
<1>11. queue \in Seq(Events) /\ ours \in SUBSET Slots
  BY <1>1 DEF TypeOK
<1>12. /\ Moves(queue) /\ ours' \subseteq ours \cup {<<Main, d>>}
       /\ \A n \in Tables, m \in Destinations : (n # Main \/ m # d) => route'[n][m] = route[n][m]
       /\ x \in LeasedRoutes /\ x # NoEntity
       /\ \/ put /\ \A a : a = x.args => Puts(Main, d, a)'
          \/ ours' = ours /\ route' = route
  <2>1. CASE put
    <3>1. /\ Moves(queue) /\ ours' \subseteq ours \cup {<<Main, d>>}
          /\ \A n \in Tables, m \in Destinations :
                (n # Main \/ m # d) => route'[n][m] = route[n][m]
          /\ ArgsFor(hop) \in Args /\ \A a : a = ArgsFor(hop) => Puts(Main, d, a)'
      BY <1>1, <1>2, <1>10, <1>11, <2>1, ReplaceIs
    <3>2. x.args = ArgsFor(hop) /\ x \in LeasedRoutes
      BY <1>9, <2>1, <3>1 DEF LeasedRoutes
    <3> QED
      BY <2>1, <3>1, <3>2, SentinelsAssumption
  <2>2. CASE ~put
    <3>1. Moves(queue)
      BY <1>1, <1>2, <1>10, <1>11, <2>2, MovesNone
    <3>2. x \in LeasedRoutes
      BY <1>9, <2>2 DEF LeasedRoutes
    <3> QED
      BY <1>10, <2>2, <3>1, <3>2, SentinelsAssumption
  <2> QED
    BY <2>1, <2>2
<1>13. /\ leased' \in [Interfaces -> [Destinations -> LeasedRoutes \cup {NoEntity}]]
       /\ leased'[i][d] = x
       /\ \A j \in Interfaces, m \in Destinations :
             (j # i \/ m # d) => leased'[j][m] = leased[j][m]
  <2>1. /\ leased \in [Interfaces -> [Destinations -> LeasedRoutes \cup {NoEntity}]]
        /\ x \in LeasedRoutes \cup {NoEntity} /\ leased' = [leased EXCEPT ![i][d] = x]
    BY <1>1, <1>10, <1>12 DEF TypeOK
  <2> QED
    BY <2>1, LeasedSet
<1>14. ours' \in SUBSET Slots
  BY <1>1, <1>11, <1>12 DEF Slots
<1>15. OursInv'
  <2>1. ASSUME NEW s \in ours'
        PROVE  OursAt(s[1], s[2])'
    <3>1. s[1] \in Tables /\ s[2] \in Destinations /\ s = <<s[1], s[2]>>
      BY <1>14, <2>1 DEF Slots
    <3>2. CASE s = <<Main, d>> /\ put /\ \A a : a = x.args => Puts(Main, d, a)'
      <4>1. HasLease(i, d)' /\ \A a : a = leased'[i][d].args => Puts(Main, d, a)'
        BY <1>12, <1>13, <3>2 DEF HasLease
      <4>2. OursAt(Main, d)'
        BY <4>1 DEF OursAt, Puts, Deletable
      <4> QED
        BY <3>2, <4>2
    <3>3. CASE OursAt(s[1], s[2]) /\ route'[s[1]][s[2]] = route[s[1]][s[2]]
      <4>1. \A j \in Interfaces :
               s[1] = Main /\ HasLease(j, s[2]) => leased'[j][s[2]] = leased[j][s[2]]
        BY <1>5, <1>13, <3>1
      <4> QED
        BY <1>2, <3>1, <3>3, <4>1, OursOn
    <3>4. CASE s # <<Main, d>>
      <4>1. s \in ours /\ (s[1] # Main \/ s[2] # d)
        BY <1>12, <2>1, <3>1, <3>4
      <4> QED
        BY <1>1, <1>12, <3>1, <3>3, <4>1 DEF OursInv
    <3>5. CASE ours' = ours /\ route' = route
      BY <1>1, <2>1, <3>3, <3>5 DEF OursInv
    <3> QED
      BY <1>12, <3>2, <3>4, <3>5
  <2> QED
    BY <2>1 DEF OursInv
<1>16. ASSUME todo' = todo \ {<<Main, d>>}, UNCHANGED <<task, event, left, stuck>>
       PROVE  LoopInv'
  <2>1. /\ task' = "take" /\ task' \in OfLease /\ event' = event /\ ~Configuring'
        /\ <<Main, d>> \notin todo' /\ i = event'.interface
    BY <1>2, <1>4, <1>16 DEF Configuring
  <2>2. \A n \in Destinations : <<Main, n>> \in todo' =>
           <<Main, n>> \in todo /\ (HasLease(i, n)' <=> HasLease(i, n))
    BY <1>13, <1>16, <2>1 DEF HasLease
  <2>3. \A n \in Destinations :
           <<Main, n>> \in todo' => ~HasLease(i, n)' /\ event'.routes[n] # NoRoute
    BY <1>1, <1>2, <1>4, <2>1, <2>2 DEF LoopInv
  <2> QED
    BY <1>3, <2>1, <2>3 DEF LoopInv
<1> QED
  BY <1>2, <1>10, <1>12, <1>13, <1>14, <1>15, <1>16, LeaseStepKeeps

-----------------------------------------------------------------------------
(* At the start: the reports of what the kernel has are on their way. *)

LEMMA InitQueue ==
    ASSUME Init, link \in [Interfaces -> Nat]
    PROVE  /\ route \in [Tables -> [Destinations -> KernelRoutes \cup {NoRoute}]]
           /\ \A t \in Tables, d \in Destinations :
                 route[t][d] # NoRoute => link[route[t][d].hop.interface] # NoIndex
           /\ queue \in Seq(Events)
           /\ \A t \in Tables, d \in Destinations :
                 Leads(queue, Of(t, d), NoRoute, HopOf(route[t][d]))
           /\ \A i \in Interfaces : Leads(queue, OfLink(i), "dellink", LinkOf(link[i]))
<1> DEFINE up == {i \in Interfaces : link[i] # NoIndex}
<1>1. PICK there \in SUBSET {r \in OtherRoutes : link[r[3].interface] # NoIndex} :
         /\ \A r, s \in there : r[1] = s[1] /\ r[2] = s[2] => r = s
         /\ route = [t \in Tables |-> [d \in Destinations |->
               IF \E r \in there : r[1] = t /\ r[2] = d
               THEN [hop |-> (CHOOSE r \in there : r[1] = t /\ r[2] = d)[3], own |-> FALSE]
               ELSE NoRoute]]
         /\ \E links \in SetToSeqs(up), routes \in SetToSeqs(there) :
               queue = [n \in DOMAIN links |-> LinkEvent("newlink", links[n])]
                       \o [n \in DOMAIN routes |-> RouteEvent("newroute", routes[n][1],
                                                              routes[n][2], routes[n][3])]
  BY DEF Init
<1>2. PICK links \in SetToSeqs(up), routes \in SetToSeqs(there) :
         queue = [n \in DOMAIN links |-> LinkEvent("newlink", links[n])]
                 \o [n \in DOMAIN routes |-> RouteEvent("newroute", routes[n][1],
                                                        routes[n][2], routes[n][3])]
  BY <1>1
<1> DEFINE a == [n \in DOMAIN links |-> LinkEvent("newlink", links[n])]
           b == [n \in DOMAIN routes |-> RouteEvent("newroute", routes[n][1], routes[n][2],
                                                    routes[n][3])]
<1>3. \A r \in there : /\ r[1] \in Tables /\ r[2] \in Destinations /\ r[3] \in KernelHops
                       /\ link[r[3].interface] # NoIndex
  BY OthersAssumption
<1>4. \A r, s \in there : r[1] = s[1] /\ r[2] = s[2] => r = s
  BY <1>1
<1>5. \A r \in there : route[r[1]][r[2]] = [hop |-> r[3], own |-> FALSE]
  <2>1. ASSUME NEW r \in there
        PROVE  route[r[1]][r[2]] = [hop |-> r[3], own |-> FALSE]
    <3>1. (CHOOSE s \in there : s[1] = r[1] /\ s[2] = r[2]) = r
      BY <1>4
    <3> QED
      BY <1>1, <1>3, <3>1
  <2> QED
    BY <2>1
<1>6. \A t \in Tables, d \in Destinations :
         (\A r \in there : r[1] # t \/ r[2] # d) => route[t][d] = NoRoute
  BY <1>1
<1>7. IsFiniteSet(there)
  <2> DEFINE f == [r \in there |-> <<r[1], r[2]>>]
  <2>1. f \in Injection(there, Slots)
    BY <1>3, <1>4 DEF Injection, IsInjective, Slots
  <2>2. IsFiniteSet(Slots)
    BY FinitenessAssumption, FS_Product DEF Slots
  <2> HIDE DEF f
  <2> QED
    BY <2>1, <2>2, FS_Injection
<1>8. IsFiniteSet(up)
  BY FinitenessAssumption, FS_Subset
<1> HIDE DEF up
<1>9. /\ links \in Seq(up) /\ Range(links) = up
      /\ routes \in Seq(there) /\ Range(routes) = there
      /\ \A m, n \in DOMAIN routes : m # n => routes[m] # routes[n]
      /\ \A m, n \in DOMAIN links : m # n => links[m] # links[n]
  BY <1>7, <1>8, OrderIs
<1>10. /\ \A n \in DOMAIN links : links[n] \in up /\ links[n] \in Interfaces
       /\ \A n \in DOMAIN routes : routes[n] \in there
  BY <1>9 DEF up
<1>11. /\ DOMAIN a = DOMAIN links /\ DOMAIN b = DOMAIN routes
       /\ \A n \in DOMAIN links : a[n] = LinkEvent("newlink", links[n])
       /\ \A n \in DOMAIN routes : b[n] = RouteEvent("newroute", routes[n][1], routes[n][2],
                                                     routes[n][3])
  OBVIOUS
<1>12. \A n \in DOMAIN a : /\ a[n] \in Events /\ Said(a[n]) = "newlink" /\ a[n] \in OfLink(links[n])
                           /\ \A t \in Tables, d \in Destinations : a[n] \notin Of(t, d)
                           /\ \A i \in Interfaces : a[n] \in OfLink(i) => i = links[n]
  BY <1>10, <1>11, LinkEventIs
<1>13. \A n \in DOMAIN b :
          /\ b[n] \in Events /\ b[n] \in Of(routes[n][1], routes[n][2]) /\ Said(b[n]) = routes[n][3]
          /\ \A t \in Tables, d \in Destinations :
                b[n] \in Of(t, d) => t = routes[n][1] /\ d = routes[n][2]
          /\ \A i \in Interfaces : b[n] \notin OfLink(i)
  BY <1>3, <1>10, <1>11, RouteEventIs
<1>14. a \in Seq(Events) /\ b \in Seq(Events)
  <2>1. Len(links) \in Nat /\ DOMAIN links = 1..Len(links)
        /\ Len(routes) \in Nat /\ DOMAIN routes = 1..Len(routes)
    BY <1>9
  <2>2. a \in [1..Len(links) -> Events] /\ b \in [1..Len(routes) -> Events]
    BY <1>11, <1>12, <1>13, <2>1
  <2> QED
    BY <2>1, <2>2
<1>15. queue = a \o b
  BY <1>2
<1> HIDE DEF a, b
<1>16. ASSUME NEW t \in Tables, NEW d \in Destinations
       PROVE  /\ route[t][d] \in KernelRoutes \cup {NoRoute}
              /\ route[t][d] # NoRoute => link[route[t][d].hop.interface] # NoIndex
              /\ Leads(queue, Of(t, d), NoRoute, HopOf(route[t][d]))
  <2>1. CASE \A r \in there : r[1] # t \/ r[2] # d
    <3>1. route[t][d] = NoRoute /\ HopOf(route[t][d]) = NoRoute
      BY <1>6, <2>1 DEF HopOf
    <3>2. \A n \in DOMAIN b : b[n] \notin Of(t, d)
      BY <1>10, <1>11, <1>13, <2>1
    <3>3. \A n \in DOMAIN a : a[n] \notin Of(t, d)
      BY <1>12
    <3>4. Leads(a, Of(t, d), NoRoute, NoRoute)
      BY <3>3 DEF Leads
    <3> QED
      BY <1>14, <1>15, <3>1, <3>2, <3>4, LeadsJoined
  <2>2. ASSUME NEW r \in there, r[1] = t, r[2] = d
        PROVE  /\ route[t][d] \in KernelRoutes
               /\ link[route[t][d].hop.interface] # NoIndex
               /\ Leads(queue, Of(t, d), NoRoute, HopOf(route[t][d]))
    <3>1. route[t][d] = [hop |-> r[3], own |-> FALSE]
      BY <1>5, <2>2
    <3>2. route[t][d] \in KernelRoutes
      BY <1>3, <3>1 DEF KernelRoutes
    <3>3. route[t][d].hop = r[3] /\ HopOf(route[t][d]) = r[3]
      BY <3>1, <3>2, HopIs
    <3>4. PICK n \in DOMAIN routes : routes[n] = r
      BY <1>9 DEF Range
    <3>5. n \in DOMAIN b /\ b[n] \in Of(t, d) /\ Said(b[n]) = r[3]
      BY <1>11, <1>13, <2>2, <3>4
    <3>6. ASSUME NEW m \in DOMAIN b, m > n, b[m] \in Of(t, d)
          PROVE  FALSE
      <4>1. routes[m][1] = t /\ routes[m][2] = d /\ routes[m] \in there /\ m \in DOMAIN routes
        BY <1>10, <1>11, <1>13, <3>6
      <4>2. routes[m] = r
        BY <1>4, <2>2, <4>1
      <4>3. m # n
        <5>1. Len(routes) \in Nat /\ DOMAIN routes = 1..Len(routes)
          BY <1>9
        <5> QED
          BY <3>4, <3>6, <4>1, <5>1
      <4> QED
        BY <1>9, <3>4, <4>1, <4>2, <4>3
    <3>7. Leads(queue, Of(t, d), NoRoute, HopOf(route[t][d]))
      BY <1>14, <1>15, <3>3, <3>5, <3>6, LeadsJoined
    <3> QED
      BY <1>3, <3>2, <3>3, <3>7
  <2> QED
    BY <2>1, <2>2
<1>17. ASSUME NEW i \in Interfaces
       PROVE  Leads(queue, OfLink(i), "dellink", LinkOf(link[i]))
  <2>1. \A n \in DOMAIN b : b[n] \notin OfLink(i)
    BY <1>13
  <2>2. Leads(a, OfLink(i), "dellink", LinkOf(link[i]))
    <3>1. CASE link[i] = NoIndex
      <4>1. LinkOf(link[i]) = "dellink"
        BY <3>1, LinkIs
      <4>2. \A n \in DOMAIN a : a[n] \notin OfLink(i)
        BY <1>10, <1>11, <1>12, <3>1 DEF up
      <4> QED
        BY <4>1, <4>2 DEF Leads
    <3>2. CASE link[i] # NoIndex
      <4>1. LinkOf(link[i]) = "newlink"
        BY <3>2, LinkIs
      <4>2. PICK n \in DOMAIN links : links[n] = i
        BY <1>9, <3>2 DEF up, Range
      <4>3. n \in DOMAIN a /\ a[n] \in OfLink(i) /\ Said(a[n]) = "newlink"
        BY <1>11, <1>12, <4>2
      <4>4. ASSUME NEW m \in DOMAIN a, m > n
            PROVE  a[m] \notin OfLink(i)
        <5>1. Len(links) \in Nat /\ DOMAIN links = 1..Len(links)
          BY <1>9
        <5>2. m \in DOMAIN links /\ m # n
          BY <1>11, <4>2, <4>4, <5>1
        <5> QED
          BY <1>9, <1>12, <4>2, <5>2
      <4> QED
        BY <4>1, <4>3, <4>4 DEF Leads
    <3> QED
      BY <3>1, <3>2
  <2> QED
    BY <1>14, <1>15, <2>1, <2>2, LeadsJoined
<1>18. route \in [Tables -> [Destinations -> KernelRoutes \cup {NoRoute}]]
  <2>1. PICK K : K = KernelRoutes \cup {NoRoute}
    OBVIOUS
  <2>2. \A t \in Tables, d \in Destinations : route[t][d] \in K
    BY <1>16, <2>1
  <2>3. route = [t \in Tables |-> [d \in Destinations |-> route[t][d]]]
    BY <1>1
  <2>4. route \in [Tables -> [Destinations -> K]]
    BY <2>2, <2>3
  <2> QED
    BY <2>1, <2>4
<1>19. queue \in Seq(Events)
  BY <1>14, <1>15
<1> QED
  BY <1>16, <1>17, <1>18, <1>19

LEMMA InitKeeps == Init => IInv
<1> SUFFICES ASSUME Init
             PROVE  IInv
  OBVIOUS
<1>1. /\ created \in [Interfaces -> {0, 1}] /\ link = created
      /\ data \in Configurations /\ previous = data
      /\ interfaces = [t \in Tables |-> {}]
      /\ entity = [t \in Tables |-> [d \in Destinations |->
                      IF Wanted(data, t, d) THEN [New EXCEPT !.config = data[t][d]] ELSE NoEntity]]
      /\ leased = [i \in Interfaces |-> [d \in Destinations |-> NoEntity]]
      /\ task = "idle" /\ event = NoEvent /\ left = <<>> /\ todo = {}
      /\ changes = 0 /\ ours = {} /\ late = {} /\ stuck = FALSE
  BY DEF Init
<1>2. PICK order \in SetToSeqs({t \in Tables : data[t] # NoTable} \ {Main}) :
         tables = <<Main>> \o order
  BY DEF Init
<1>3. link \in [Interfaces -> Nat] /\ created \in [Interfaces -> Nat]
  BY <1>1
<1>4. /\ route \in [Tables -> [Destinations -> KernelRoutes \cup {NoRoute}]]
      /\ \A t \in Tables, d \in Destinations :
            route[t][d] # NoRoute => link[route[t][d].hop.interface] # NoIndex
      /\ queue \in Seq(Events)
      /\ \A t \in Tables, d \in Destinations : Leads(queue, Of(t, d), NoRoute, HopOf(route[t][d]))
      /\ \A i \in Interfaces : Leads(queue, OfLink(i), "dellink", LinkOf(link[i]))
  BY <1>3, InitQueue
<1>5. tables \in Seq(Tables) /\ \A t \in Tables : data[t] # NoTable => t \in Range(tables)
  <2> DEFINE S == {t \in Tables : data[t] # NoTable} \ {Main}
  <2>1. IsFiniteSet(S)
    BY FinitenessAssumption, FS_Subset
  <2>2. order \in Seq(S) /\ Range(order) = S
    BY <1>2, <2>1, OrderIs
  <2>3. <<Main>> \in Seq(Tables) /\ order \in Seq(Tables)
    BY <2>2, ConfigurationsAssumption
  <2>4. Range(<<Main>>) = {Main}
    BY DEF Range
  <2> HIDE DEF S
  <2>5. Range(tables) = {Main} \cup S
    <3>1. PICK m \in Seq(Tables) : m = <<Main>>
      BY <2>3
    <3>2. Range(m \o order) = Range(m) \cup Range(order)
      BY <2>3, RangeJoined
    <3> QED
      BY <1>2, <2>2, <2>4, <3>1, <3>2
  <2> QED
    BY <1>2, <2>3, <2>5 DEF S
<1>6. ASSUME NEW t \in Tables, NEW d \in Destinations
      PROVE  /\ entity[t][d] \in Entities \cup {NoEntity}
             /\ StateOf(entity[t][d]) = NoRoute
             /\ HasConfig(entity[t][d]) => Wanted(data, t, d)
             /\ data[t] # NoTable => Synced(data[t][d], entity[t][d])
  <2>1. CASE Wanted(data, t, d)
    <3>1. PICK c \in Hops : c = data[t][d]
      BY <1>1, <2>1, ConfigurationsAssumption DEF Wanted
    <3>2. PICK e \in Entities : /\ e = [New EXCEPT !.config = c]
                                /\ e.config = c /\ e.state = New.state /\ e.args = New.args
      BY NewIs, WithConfig
    <3>3. entity[t][d] = e
      BY <1>1, <2>1, <3>1, <3>2
    <3>4. e.state = NoRoute /\ StateOf(e) = e.state /\ HasConfig(e) /\ c # NoConfig
      BY <3>2, NewIs, EntityIs, SentinelsAssumption
    <3>5. Synced(c, e)
      BY <3>2, <3>4 DEF Synced
    <3> QED
      BY <2>1, <3>1, <3>3, <3>4, <3>5
  <2>2. CASE ~Wanted(data, t, d)
    <3>1. entity[t][d] = NoEntity
      BY <1>1, <2>2
    <3> QED
      BY <2>2, <3>1 DEF StateOf, HasConfig, Synced, Wanted
  <2> QED
    BY <2>1, <2>2
<1>7. TypeOK
  <2>1. entity \in [Tables -> [Destinations -> Entities \cup {NoEntity}]]
    <3>1. PICK K : K = Entities \cup {NoEntity}
      OBVIOUS
    <3>2. \A t \in Tables, d \in Destinations : entity[t][d] \in K
      BY <1>6, <3>1
    <3>3. entity = [t \in Tables |-> [d \in Destinations |-> entity[t][d]]]
      BY <1>1
    <3>4. entity \in [Tables -> [Destinations -> K]]
      BY <3>2, <3>3
    <3> QED
      BY <3>1, <3>4
  <2>2. leased \in [Interfaces -> [Destinations -> LeasedRoutes \cup {NoEntity}]]
    BY <1>1
  <2>3. left \in Seq(Tables) /\ todo \in SUBSET Slots
    BY <1>1
  <2>4. changes \in 0..MaxChanges
    BY <1>1, BoundAssumption
  <2>5. interfaces \in [Tables -> SUBSET Interfaces]
    BY <1>1
  <2> QED
    BY <1>1, <1>3, <1>4, <1>5, <2>1, <2>2, <2>3, <2>4, <2>5 DEF TypeOK
<1>8. LinkInv
  BY <1>1, <1>4 DEF LinkInv
<1>9. LoopInv
  BY <1>1 DEF LoopInv, OfLease, Configuring
<1>10. OursInv
  BY <1>1 DEF OursInv
<1>11. SyncInv
  BY <1>6 DEF SyncInv
<1>12. KnownInv
  BY <1>5, <1>6 DEF KnownInv, Wanted
<1>13. ToldInv
  BY <1>4, <1>6 DEF ToldInv
<1>14. LinkToldInv
  <2>1. ASSUME NEW t \in Range(tables), NEW i \in Interfaces
        PROVE  Knows(t, i) = "dellink"
    <3>1. t \in Tables
      BY <1>5 DEF Range
    <3> QED
      BY <1>1, <3>1 DEF Knows, Telling
  <2> QED
    BY <1>4, <2>1 DEF LinkToldInv
<1>15. PresentInv
  <2> SUFFICES ASSUME NEW t \in Tables, NEW d \in Destinations, NEW c, c = entity[t][d].config,
                      Cared(t, d), Reachable(t, c)
               PROVE  Coming(queue, t, d, c)
    BY DEF PresentInv, PresentAt
  <2>1. c \in Hops
    BY <1>6, EntityIs DEF Cared, HasConfig
  <2>2. CASE c.gateway = NoGateway
    <3>1. PICK i \in Interfaces : i = c.interface /\ link[i] # NoIndex
      BY <2>1, <2>2 DEF Reachable, Hops
    <3>2. Leads(queue, OfLink(i), "dellink", "newlink")
      BY <1>4, <3>1, LinkIs
    <3>3. PICK x \in Range(queue) : x \in OfLink(i) /\ Said(x) = "newlink"
      BY <3>2, LeadsTo
    <3> QED
      BY <2>2, <3>1, <3>3, WasCreated DEF Coming
  <2>3. CASE c.gateway # NoGateway
    <3>1. PICK n \in Destinations : c.gateway \in Covers[n] /\ route[t][n] # NoRoute
      BY <2>3 DEF Reachable
    <3>2. PICK hop \in KernelHops : hop = HopOf(route[t][n])
      BY <1>4, <3>1, HopIs
    <3>3. hop # NoRoute /\ Leads(queue, Of(t, n), NoRoute, hop)
      BY <1>4, <3>2, SentinelsAssumption DEF KernelHops, Hops
    <3>4. PICK x \in Range(queue) : x \in Of(t, n) /\ Said(x) = hop
      BY <3>3, LeadsTo
    <3> QED
      BY <3>1, <3>4, WasPut DEF Coming
  <2> QED
    BY <2>2, <2>3
<1> QED
  BY <1>7, <1>8, <1>9, <1>10, <1>11, <1>12, <1>13, <1>14, <1>15 DEF IInv

LEMMA StutterKeeps == IInv /\ UNCHANGED vars => IInv'
<1> SUFFICES ASSUME IInv, UNCHANGED vars
             PROVE  IInv'
  OBVIOUS
<1>1. UNCHANGED <<link, created, route, queue, data, previous, tables, interfaces, entity,
                  leased, task, event, left, todo, changes, ours, late, stuck>>
  BY DEF vars, kernel, provider, loop, history
<1>2. TypeOK' /\ LinkInv' /\ KnownInv' /\ ToldInv'
  BY <1>1 DEF IInv, TypeOK, LinkInv, KnownInv, ToldInv
<1>3. LoopInv'
  BY <1>1 DEF IInv, LoopInv, Configuring, HasLease
<1>4. OursInv'
  BY <1>1 DEF IInv, OursInv, OursAt, HasLease, Puts, Deletable
<1>5. SyncInv'
  BY <1>1 DEF IInv, SyncInv, Due, Configuring
<1>6. LinkToldInv'
  BY <1>1 DEF IInv, LinkToldInv, Knows, Telling
<1>7. PresentInv'
  BY <1>1 DEF IInv, PresentInv, PresentAt, Cared, Due, Configuring, Reachable, Coming, Noticed,
              Telling
<1> QED
  BY <1>2, <1>3, <1>4, <1>5, <1>6, <1>7 DEF IInv

LEMMA NextKeeps == IInv /\ [Next]_vars => IInv'
<1> SUFFICES ASSUME IInv, [Next]_vars
             PROVE  IInv'
  OBVIOUS
<1>1. CASE Others
  <2>1. ASSUME NEW i \in Interfaces, CreateLink(i) \/ TouchLink(i) \/ DeleteLink(i)
        PROVE  IInv'
    BY <2>1, CreateLinkKeeps, TouchLinkKeeps, DeleteLinkKeeps
  <2>2. ASSUME NEW r \in OtherRoutes, OtherPuts(r[1], r[2], r[3])
        PROVE  IInv'
    <3>1. r[1] \in Tables /\ r[2] \in Destinations /\ r[3] \in KernelHops
      BY OthersAssumption
    <3> QED
      BY <2>2, <3>1, OtherPutsKeeps
  <2>3. ASSUME NEW i \in Interfaces, NEW routes \in LeaseRoutes, LeaseReported(i, routes)
        PROVE  IInv'
    BY <2>3, LeaseReportedKeeps
  <2>4. ASSUME NEW t \in Tables, NEW d \in Destinations, OtherRemoves(t, d)
        PROVE  IInv'
    BY <2>4, OtherRemovesKeeps
  <2>5. ASSUME NEW d \in Configurations, Commit(d)
        PROVE  IInv'
    BY <2>5, CommitKeeps
  <2> QED
    BY <1>1, <2>1, <2>2, <2>3, <2>4, <2>5 DEF Others
<1>2. CASE Agent
  <2>1. CASE BeginTable \/ CommitSucceeds \/ OthersFail \/ RolledBack
    BY <2>1, BeginTableKeeps, CommitSucceedsKeeps, OthersFailKeeps
  <2>2. CASE HandleRouteAdd \/ HandleRouteRemove
    BY <2>2, HandleRouteAddKeeps, HandleRouteRemoveKeeps
  <2>3. CASE HandleInterfaceAdd \/ TellTable \/ HandleInterfaceRemove
    BY <2>3, HandleInterfaceAddKeeps, TellTableKeeps, HandleInterfaceRemoveKeeps
  <2>4. CASE HandlePreinit \/ HandleAcquired \/ BeginTake \/ HandleLost \/ LoopEnds
    BY <2>4, HandlePreinitKeeps, HandleAcquiredKeeps, BeginTakeKeeps, HandleLostKeeps,
       LoopEndsKeeps
  <2>5. ASSUME NEW d \in Destinations, DropRoute(d) \/ TakeRoute(d) \/ ReleaseRoute(d)
        PROVE  IInv'
    BY <2>5, DropRouteKeeps, TakeRouteKeeps, ReleaseRouteKeeps
  <2>6. ASSUME NEW t \in Tables, NEW d \in Destinations,
               UpdateRoute(t, d) \/ RemoveRoute(t, d) \/ ApplyDependent(t, d)
        PROVE  IInv'
    BY <2>6, UpdateRouteKeeps, RemoveRouteKeeps, ApplyDependentKeeps
  <2> QED
    BY <1>2, <2>1, <2>2, <2>3, <2>4, <2>5, <2>6 DEF Agent
<1>3. CASE UNCHANGED vars
  BY <1>3, StutterKeeps
<1> QED
  BY <1>1, <1>2, <1>3 DEF Next

LEMMA InvHolds == Spec => []IInv
<1> QED
  BY InitKeeps, NextKeeps, PTL DEF Spec

-----------------------------------------------------------------------------
(* Every variable of the provider, of the kernel and of the reports keeps its
   type, whatever clients, leases, links and other programs do, and in whatever
   order. *)
THEOREM TypeCorrect == Spec => []TypeOK
<1>1. IInv => TypeOK
  BY DEF IInv
<1> QED
  BY <1>1, InvHolds, PTL

(* When the reports were handled, a configured route whose next hop is reachable
   is in the kernel, whoever removed it: RouteEntity.apply when it is
   configured, and the handlers of routes and of interfaces, which apply what
   depends on what was reported, leave none out. *)
THEOREM ConfiguredCorrect == Spec => []ConfiguredPresent
<1>1. IInv => ConfiguredPresent
  <2> SUFFICES ASSUME IInv, Settled, ~stuck, NEW s \in ConfiguredSlots(data),
                      Reachable(s[1], data[s[1]][s[2]]), s[1] \notin late
               PROVE  route[s[1]][s[2]] # NoRoute
    BY DEF ConfiguredPresent
  <2>1. PICK t \in Tables, d \in Destinations : t = s[1] /\ d = s[2]
    BY DEF ConfiguredSlots, Slots
  <2>2. data[t] # NoTable /\ data[t][d] # NoConfig
    BY <2>1 DEF ConfiguredSlots, Wanted
  <2>3. task = "idle" /\ queue = <<>>
    BY DEF Settled
  <2>4. ~Due(t, d) /\ \A c : ~Noticed(t, d, c) /\ ~Coming(queue, t, d, c)
    BY <2>3, EmptyRange DEF Due, Configuring, Noticed, Telling, Coming
  <2>5. HasConfig(entity[t][d]) /\ entity[t][d].config = data[t][d]
    BY <2>2, <2>4 DEF IInv, SyncInv, Synced
  <2>6. Cared(t, d)
    BY <2>1, <2>2, <2>4, <2>5 DEF Cared
  <2>7. PresentAt(t, d)
    BY DEF IInv, PresentInv
  <2> QED
    BY <2>1, <2>4, <2>5, <2>6, <2>7 DEF PresentAt
<1> QED
  BY <1>1, InvHolds, PTL

(* A route the agent put and that is there is configured or of a lease, or its
   table is not configured any more: remove() and the handlers of leases leave
   no other, however a commit, a rollback and the ends of leases follow each
   other. *)
THEOREM GoneCorrect == Spec => []UnconfiguredGone
<1>1. IInv => UnconfiguredGone
  <2> SUFFICES ASSUME IInv, Settled, ~stuck, NEW s \in ours
               PROVE  \/ Wanted(data, s[1], s[2])
                      \/ s[1] = Main /\ \E i \in Interfaces : HasLease(i, s[2])
                      \/ data[s[1]] = NoTable
    BY DEF UnconfiguredGone
  <2>1. s[1] \in Tables /\ s[2] \in Destinations /\ OursAt(s[1], s[2])
    BY DEF IInv, TypeOK, Slots, OursInv
  <2>2. ~Due(s[1], s[2])
    BY DEF Settled, Due, Configuring
  <2>3. ASSUME HasConfig(entity[s[1]][s[2]]), data[s[1]] # NoTable
        PROVE  Wanted(data, s[1], s[2])
    BY <2>1, <2>2, <2>3 DEF IInv, SyncInv, Synced, Wanted
  <2> QED
    BY <2>1, <2>3 DEF OursAt
<1> QED
  BY <1>1, InvHolds, PTL
=============================================================================
