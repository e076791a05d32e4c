------------------------- MODULE AddressTableProofs -------------------------
(***************************************************************************)
(* What holds of AddressTable for any finite sets of addresses and         *)
(* interfaces: types, that the agent leaves the addresses of others alone, *)
(* that an address that is no longer configured is gone, that what is      *)
(* listed as present is there, and that what is configured is there too.   *)
(*                                                                         *)
(* The last two rest on what the events on their way say (Told): the last  *)
(* one about an address or an interface says how it is, and if there is    *)
(* none the provider knows it.                                             *)
(***************************************************************************)
EXTENDS AddressTable, FiniteSetTheorems, WellFoundedInduction, TLAPS

(* The loops reach only what they are about. *)
Loops ==
    /\ Removing => \A a \in todo : HasConfig(entity[a])
    /\ Updating => \A a \in todo : data[a] # NoConfig
    /\ task = "linkup" => \A a \in todo : entity[a] # NoEntity
    /\ task = "idle" => todo = {}
    /\ task \notin {"remove", "update"} => data = previous

(* What others put has no configuration, old, new or remembered. *)
Unnamed == \A a \in foreign : ~Named(a)

(* Unless a loop broke off: an entity is configured if the configuration says
   so, or said so before a commit whose first loop has not come to it. *)
Following ==
    ~stuck => \A a \in Addresses : HasConfig(entity[a]) =>
                 /\ data[a] # NoConfig \/ (Removing /\ a \in todo)
                 /\ task = "remove" => previous[a] # NoConfig

(* What the agent put is configured, or will be by the rollback that runs. *)
Tended ==
    ~stuck => \A a \in ours \ hasty :
                 \/ HasConfig(entity[a])
                 \/ task = "unremove" /\ data[a] # NoConfig
                 \/ task = "unupdate" /\ a \in todo

IInv == TypeOK /\ Loops /\ Unnamed /\ Following /\ Tended

-----------------------------------------------------------------------------
(* Events. *)

(* What an event says depends on its kind. *)
LEMMA EventFields ==
    ASSUME NEW e \in Events
    PROVE  /\ e.op \in {"newlink", "dellink"} => e.interface \in Interfaces /\ e.index \in Nat
           /\ e.op \in {"newaddr", "deladdr"} => e.address \in Addresses
           /\ e.op \in {"preinit", "bound", "lost"} =>
                 e.interface \in Interfaces /\ e.address \in Addresses
  BY DEF Events

LEMMA EventsMade ==
    /\ \A i \in Interfaces, n \in Nat : /\ LinkEvent("newlink", i, n) \in Events
                                        /\ LinkEvent("dellink", i, n) \in Events
    /\ \A a \in Addresses : /\ AddressEvent("newaddr", a) \in Events
                            /\ AddressEvent("deladdr", a) \in Events
    /\ \A i \in Interfaces, a \in Addresses, op \in {"preinit", "bound", "lost"} :
          LeaseEvent(op, i, a) \in Events
  BY DEF Events, LinkEvent, AddressEvent, LeaseEvent

(* An order of a finite set is a sequence of its elements. *)
LEMMA OrderIsSeq ==
    ASSUME NEW S, IsFiniteSet(S), NEW order \in SetToSeqs(S)
    PROVE  order \in Seq(S) /\ DOMAIN order = 1..Cardinality(S) /\ Cardinality(S) \in Nat
<1>1. Cardinality(S) \in Nat
  BY FS_CardinalityType
<1>2. order \in [1..Cardinality(S) -> S]
  BY DEF SetToSeqs
<1> QED
  BY <1>1, <1>2

(* One event for each of them. *)
LEMMA AddressEventsSeq ==
    ASSUME NEW S \in SUBSET Addresses, NEW order \in SetToSeqs(S),
           NEW op \in {"newaddr", "deladdr"}
    PROVE  [n \in DOMAIN order |-> AddressEvent(op, order[n])] \in Seq(Events)
<1>1. IsFiniteSet(S)
  BY FinitenessAssumption, FS_Subset
<1>2. order \in Seq(S) /\ DOMAIN order = 1..Cardinality(S) /\ Cardinality(S) \in Nat
  BY <1>1, OrderIsSeq
<1>3. \A n \in DOMAIN order : AddressEvent(op, order[n]) \in Events
  BY <1>2, EventsMade
<1> QED
  BY <1>2, <1>3

LEMMA LinkEventsSeq ==
    ASSUME NEW S \in SUBSET Interfaces, NEW order \in SetToSeqs(S)
    PROVE  [n \in DOMAIN order |-> LinkEvent("newlink", order[n], 1)] \in Seq(Events)
<1>1. IsFiniteSet(S)
  BY FinitenessAssumption, FS_Subset
<1>2. order \in Seq(S) /\ DOMAIN order = 1..Cardinality(S) /\ Cardinality(S) \in Nat
  BY <1>1, OrderIsSeq
<1>3. \A n \in DOMAIN order : LinkEvent("newlink", order[n], 1) \in Events
  BY <1>2, EventsMade
<1> QED
  BY <1>2, <1>3

-----------------------------------------------------------------------------
(* Entities. *)

(* apply() changes one entity, and not its configuration; it adds its address
   or none, and only if it has a configuration. *)
LEMMA ApplyFacts ==
    ASSUME TypeOK, NEW a \in Addresses, NEW e \in Entities,
           NEW waiting \in Seq(Events), Apply(a, e, waiting)
    PROVE  /\ entity' \in [Addresses -> Entities \cup {NoEntity}]
           /\ entity'[a] \in Entities /\ entity'[a].config = e.config
           /\ \A b \in Addresses \ {a} : entity'[b] = entity[b]
           /\ held \subseteq held' /\ held' \subseteq Addresses
           /\ ours' \subseteq held'
           /\ ours' = ours \/ (ours' = ours \cup {a} /\ e.config # NoConfig)
           /\ queue' \in Seq(Events)
<1>1. Applied(a, e) \in Entities /\ Applied(a, e).config = e.config
  BY DEF Applied, Entities, NoIndex
<1>2. entity' = [entity EXCEPT ![a] = Applied(a, e)]
  BY DEF Apply
<1>3. /\ held \subseteq held' /\ held' \subseteq Addresses
      /\ ours' \subseteq held'
  BY DEF Apply, TypeOK
<1>4. ours' = ours \/ (ours' = ours \cup {a} /\ e.config # NoConfig)
  BY DEF Apply, Calls
<1>5. queue' \in Seq(Events)
  <2>1. /\ AddressEvent("newaddr", a) \in Events
        /\ AddressEvent("deladdr", a) \in Events
    BY EventsMade
  <2>2. CASE Calls(a, e) = "adds"
    BY <2>1, <2>2 DEF Apply
  <2>3. CASE Calls(a, e) = "replaces"
    BY <2>1, <2>3 DEF Apply
  <2>4. CASE Calls(a, e) \notin {"adds", "replaces"}
    BY <2>4 DEF Apply
  <2> QED
    BY <2>2, <2>3, <2>4
<1> QED
  BY <1>1, <1>2, <1>3, <1>4, <1>5 DEF TypeOK

LEMMA NewFacts ==
    ASSUME NEW c \in AddressConfigs \cup {NoConfig}, NEW n \in Nat
    PROVE  New(c, n) \in Entities /\ New(c, n).config = c
  BY DEF New, Entities

-----------------------------------------------------------------------------
(* The initial states. *)

LEMMA InitCorrect == Init => IInv
<1> SUFFICES ASSUME Init
             PROVE  IInv
  OBVIOUS
<1>1. /\ created \in [Interfaces -> Nat] /\ link \in [Interfaces -> Nat]
      /\ held \subseteq Addresses
      /\ data \in Configurations /\ previous \in Configurations
  <2>1. created \in [Interfaces -> {0, 1}] /\ link = created
    BY DEF Init
  <2>2. created \in [Interfaces -> Nat]
    BY <2>1
  <2>3. /\ held \subseteq Addresses
        /\ data \in Configurations /\ previous \in Configurations
    BY DEF Init
  <2> QED
    BY <2>1, <2>2, <2>3
<1>2. queue \in Seq(Events)
  <2>1. PICK links \in SetToSeqs({i \in Interfaces : link[i] # NoIndex}),
             addresses \in SetToSeqs(held) :
             queue = [n \in DOMAIN links |-> LinkEvent("newlink", links[n], 1)]
                     \o [n \in DOMAIN addresses |-> AddressEvent("newaddr", addresses[n])]
    BY DEF Init
  <2>2. [n \in DOMAIN links |-> LinkEvent("newlink", links[n], 1)] \in Seq(Events)
    BY LinkEventsSeq
  <2>3. [n \in DOMAIN addresses |-> AddressEvent("newaddr", addresses[n])] \in Seq(Events)
    BY <1>1, AddressEventsSeq
  <2> QED
    BY <2>1, <2>2, <2>3
<1>3. entity \in [Addresses -> Entities \cup {NoEntity}]
  <2>1. \A a \in Addresses : New(data[a], NoIndex) \in Entities
    BY <1>1, NewFacts DEF Configurations, NoIndex
  <2> QED
    BY <2>1 DEF Init
<1>4. TypeOK
  <2>1. /\ interfaces \in [Interfaces -> Nat]
        /\ lease \in [Interfaces -> Leases \cup {NoLease}]
    BY DEF Init, NoIndex
  <2>2. /\ task = "idle" /\ todo = {}
        /\ changes \in 0..MaxChanges
        /\ foreign \subseteq held /\ ours = {} /\ lost = {} /\ hasty = {}
        /\ stuck = FALSE
    BY BoundAssumption DEF Init
  <2> QED
    BY <1>1, <1>2, <1>3, <2>1, <2>2 DEF TypeOK
<1>5. Loops
  BY DEF Init, Loops, Removing, Updating
<1>6. \A a \in Addresses : HasConfig(entity[a]) <=> data[a] # NoConfig
  BY <1>1, NewFacts, SentinelsAssumption DEF Init, HasConfig, Configurations, NoIndex
<1>7. Unnamed
  BY <1>1, <1>6 DEF Init, Unnamed, Named, Configured
<1>8. Following /\ Tended
  BY <1>6 DEF Init, Following, Tended
<1> QED
  BY <1>4, <1>5, <1>7, <1>8 DEF IInv

-----------------------------------------------------------------------------
(* Steps that leave alone which entities are configured. *)

LEMMA ConfigsKept ==
    ASSUME IInv, TypeOK', Loops',
           data' = data, previous' = previous, stuck => stuck',
           \A a \in Addresses : HasConfig(entity'[a]) <=> HasConfig(entity[a]),
           \A a \in foreign' : ~Named(a),
           \A a \in ours' \ hasty' : a \in ours \ hasty \/ HasConfig(entity[a]),
           \/ task' = task /\ todo' = todo
           \/ task \in {"idle", "linkup"} /\ task' \in {"idle", "linkup"}
    PROVE  IInv'
<1>1. \A a \in foreign' : a \in Addresses
  BY DEF TypeOK
<1>2. \A a \in ours' : a \in Addresses
  BY DEF TypeOK
<1>3. Unnamed'
  BY <1>1 DEF Unnamed, Named
<1>4. Following'
  <2>1. CASE task' = task /\ todo' = todo
    BY <2>1 DEF IInv, Following, Removing
  <2>2. CASE task \in {"idle", "linkup"} /\ task' \in {"idle", "linkup"}
    BY <2>2 DEF IInv, Following, Removing
  <2> QED
    BY <2>1, <2>2
<1>5. Tended'
  <2>1. CASE task' = task /\ todo' = todo
    BY <2>1, <1>2 DEF IInv, Tended
  <2>2. CASE task \in {"idle", "linkup"} /\ task' \in {"idle", "linkup"}
    BY <2>2, <1>2 DEF IInv, Tended
  <2> QED
    BY <2>1, <2>2
<1> QED
  BY <1>3, <1>4, <1>5 DEF IInv

(* The kernel, other programs and the DHCP client. *)
LEMMA OutsideKeeps ==
    ASSUME IInv,
           \/ \E i \in Interfaces : CreateLink(i) \/ TouchLink(i) \/ DeleteLink(i)
           \/ \E a \in Addresses : OtherAdds(a) \/ OtherRemoves(a) \/ LeaseReported(a)
    PROVE  IInv'
<1> USE DEF IInv
<1>1. changes' \in 0..MaxChanges
  <2>1. Outside
    BY DEF CreateLink, TouchLink, DeleteLink, OtherAdds, OtherRemoves, LeaseReported
  <2> QED
    BY <2>1, BoundAssumption DEF Outside, TypeOK
<1>2. ASSUME NEW i \in Interfaces, CreateLink(i)
      PROVE  IInv'
  <2>1. LinkEvent("newlink", i, created[i] + 1) \in Events
    BY EventsMade DEF TypeOK
  <2>2. TypeOK'
    BY <1>1, <1>2, <2>1 DEF TypeOK, CreateLink, provider
  <2>3. Loops'
    BY <1>2 DEF Loops, CreateLink, provider, Removing, Updating
  <2> QED
    BY <1>2, <2>2, <2>3, ConfigsKept DEF CreateLink, provider, Unnamed
<1>3. ASSUME NEW i \in Interfaces, TouchLink(i)
      PROVE  IInv'
  <2>1. LinkEvent("newlink", i, link[i]) \in Events
    BY EventsMade DEF TypeOK
  <2>2. TypeOK'
    BY <1>1, <1>3, <2>1 DEF TypeOK, TouchLink, provider, kernel
  <2>3. Loops'
    BY <1>3 DEF Loops, TouchLink, provider, Removing, Updating
  <2> QED
    BY <1>3, <2>2, <2>3, ConfigsKept DEF TouchLink, provider, Unnamed
<1>4. ASSUME NEW i \in Interfaces, DeleteLink(i)
      PROVE  IInv'
  <2> DEFINE gone == held \cap OfInterface(i)
  <2>1. PICK order \in SetToSeqs(gone) :
            queue' = queue \o [n \in DOMAIN order |-> AddressEvent("deladdr", order[n])]
                           \o <<LinkEvent("dellink", i, link[i])>>
    BY <1>4 DEF DeleteLink
  <2>2. gone \subseteq Addresses
    BY DEF TypeOK
  <2>3. [n \in DOMAIN order |-> AddressEvent("deladdr", order[n])] \in Seq(Events)
    BY <2>2, AddressEventsSeq
  <2>4. LinkEvent("dellink", i, link[i]) \in Events
    BY EventsMade DEF TypeOK
  <2>5. queue' \in Seq(Events)
    BY <2>1, <2>3, <2>4 DEF TypeOK
  <2>6. TypeOK'
    BY <1>1, <1>4, <2>2, <2>5 DEF TypeOK, DeleteLink, provider, NoIndex
  <2>7. Loops'
    BY <1>4 DEF Loops, DeleteLink, provider, Removing, Updating
  <2> QED
    BY <1>4, <2>6, <2>7, ConfigsKept DEF DeleteLink, provider, Unnamed
<1>5. ASSUME NEW a \in Addresses, OtherAdds(a)
      PROVE  IInv'
  <2>1. TypeOK'
    BY <1>1, <1>5, EventsMade DEF TypeOK, OtherAdds, provider
  <2>2. Loops'
    BY <1>5 DEF Loops, OtherAdds, provider, Removing, Updating
  <2>3. \A b \in foreign' : ~Named(b)
    BY <1>5 DEF OtherAdds, Unnamed
  <2> QED
    BY <1>5, <2>1, <2>2, <2>3, ConfigsKept DEF OtherAdds, provider
<1>6. ASSUME NEW a \in Addresses, OtherRemoves(a)
      PROVE  IInv'
  <2>1. TypeOK'
    BY <1>1, <1>6, EventsMade DEF TypeOK, OtherRemoves, provider
  <2>2. Loops'
    BY <1>6 DEF Loops, OtherRemoves, provider, Removing, Updating
  <2> QED
    BY <1>6, <2>1, <2>2, ConfigsKept DEF OtherRemoves, provider, Unnamed
<1>7. ASSUME NEW a \in Addresses, LeaseReported(a)
      PROVE  IInv'
  <2>1. PICK op \in {"preinit", "bound", "lost"} :
            queue' = Append(queue, LeaseEvent(op, InterfaceOf[a], a))
    BY <1>7 DEF LeaseReported
  <2>2. LeaseEvent(op, InterfaceOf[a], a) \in Events
    BY EventsMade, InterfacesAssumption
  <2>3. TypeOK'
    BY <1>1, <1>7, <2>1, <2>2 DEF TypeOK, LeaseReported, provider, kernel
  <2>4. Loops'
    BY <1>7 DEF Loops, LeaseReported, provider, Removing, Updating
  <2> QED
    BY <1>7, <2>3, <2>4, ConfigsKept DEF LeaseReported, provider, Unnamed
<1> QED
  BY <1>2, <1>3, <1>4, <1>5, <1>6, <1>7

(* The event handlers. *)
LEMMA HandlersKeep ==
    ASSUME IInv,
           \/ HandleAddressAdd \/ HandleAddressRemove
           \/ HandleInterfaceAdd \/ HandleInterfaceRemove
           \/ HandlePreinit \/ HandleAcquired \/ HandleLost
    PROVE  IInv'
<1> USE DEF IInv
<1> DEFINE event == Head(queue)
<1>0. /\ task = "idle" /\ todo = {}
      /\ queue # <<>> /\ event \in Events /\ Tail(queue) \in Seq(Events)
  <2>1. Idle /\ queue # <<>>
    BY DEF Handle, HandleAddressAdd, HandleAddressRemove, HandleInterfaceAdd,
       HandleInterfaceRemove, HandlePreinit, HandleAcquired, HandleLost
  <2> QED
    BY <2>1 DEF Idle, TypeOK
<1>1. ASSUME HandleAddressAdd
      PROVE  IInv'
  <2> DEFINE a == event.address
             e == IF entity[a] = NoEntity THEN New(NoConfig, NoIndex) ELSE entity[a]
             new == [e EXCEPT !.seen = TRUE, !.state = "present"]
  <2>1. a \in Addresses
    BY <1>0, <1>1, EventFields DEF HandleAddressAdd, Handle
  <2>2. e \in Entities /\ (HasConfig(entity[a]) <=> e.config # NoConfig)
    BY <2>1, NewFacts DEF TypeOK, HasConfig, NoIndex
  <2>3. new \in Entities /\ new.config = e.config
    BY <2>2 DEF Entities
  <2>4. entity' = [entity EXCEPT ![a] = new] /\ queue' = Tail(queue)
    BY <1>1 DEF HandleAddressAdd
  <2>5. \A b \in Addresses : HasConfig(entity'[b]) <=> HasConfig(entity[b])
    BY <2>1, <2>2, <2>3, <2>4, SentinelsAssumption DEF HasConfig, TypeOK
  <2>6. TypeOK'
    <3>1. entity' \in [Addresses -> Entities \cup {NoEntity}]
      BY <2>3, <2>4 DEF TypeOK
    <3> QED
      BY <1>0, <1>1, <2>4, <3>1 DEF TypeOK, HandleAddressAdd, kernel, history
  <2>7. Loops'
    BY <1>0, <1>1 DEF HandleAddressAdd, Loops, Removing, Updating
  <2> QED
    BY <1>1, <2>5, <2>6, <2>7, ConfigsKept DEF HandleAddressAdd, history, Unnamed
<1>2. ASSUME HandleAddressRemove
      PROVE  IInv'
  <2> DEFINE a == event.address
             e == [entity[a] EXCEPT !.state = "missing"]
  <2>1. a \in Addresses
    BY <1>0, <1>2, EventFields DEF HandleAddressRemove, Handle
  <2>2. Loops'
    BY <1>0, <1>2 DEF HandleAddressRemove, Loops, Removing, Updating
  <2>3. CASE HasConfig(entity[a])
    <3>1. Apply(a, e, Tail(queue))
      BY <1>2, <2>3 DEF HandleAddressRemove
    <3>2. e \in Entities /\ e.config = entity[a].config
      BY <2>1, <2>3 DEF TypeOK, HasConfig, Entities
    <3>3. /\ entity' \in [Addresses -> Entities \cup {NoEntity}]
          /\ entity'[a] \in Entities /\ entity'[a].config = e.config
          /\ \A b \in Addresses \ {a} : entity'[b] = entity[b]
          /\ held \subseteq held' /\ held' \subseteq Addresses
          /\ ours' \subseteq held'
          /\ ours' \subseteq ours \cup {a}
          /\ queue' \in Seq(Events)
      BY <1>0, <2>1, <3>1, <3>2, ApplyFacts
    <3>4. \A b \in Addresses : HasConfig(entity'[b]) <=> HasConfig(entity[b])
      BY <2>1, <3>2, <3>3, <2>3, SentinelsAssumption DEF HasConfig
    <3>5. TypeOK'
      BY <1>2, <3>3 DEF TypeOK, HandleAddressRemove
    <3> QED
      BY <1>2, <2>2, <2>3, <3>3, <3>4, <3>5, ConfigsKept DEF HandleAddressRemove, Unnamed
  <2>4. CASE ~HasConfig(entity[a])
    <3>1. /\ entity' = [entity EXCEPT ![a] = NoEntity]
          /\ queue' = Tail(queue)
          /\ UNCHANGED <<held, ours>>
      BY <1>2, <2>4 DEF HandleAddressRemove
    <3>2. \A b \in Addresses : HasConfig(entity'[b]) <=> HasConfig(entity[b])
      BY <2>1, <2>4, <3>1 DEF HasConfig, TypeOK
    <3>3. TypeOK'
      BY <1>0, <1>2, <3>1 DEF TypeOK, HandleAddressRemove
    <3> QED
      BY <1>2, <2>2, <3>1, <3>2, <3>3, ConfigsKept DEF HandleAddressRemove, Unnamed
  <2> QED
    BY <2>3, <2>4
<1>3. ASSUME HandleInterfaceAdd
      PROVE  IInv'
  <2>1. event.interface \in Interfaces /\ event.index \in Nat
    BY <1>0, <1>3, EventFields DEF HandleInterfaceAdd, Handle
  <2>2. /\ todo' \subseteq Addresses
        /\ \A a \in todo' : entity[a] # NoEntity
        /\ task' \in {"idle", "linkup"} /\ (task' = "idle" => todo' = {})
    BY <1>3 DEF HandleInterfaceAdd, Known, OfInterface
  <2>3. TypeOK'
    BY <1>0, <1>3, <2>1, <2>2 DEF TypeOK, HandleInterfaceAdd, kernel, history
  <2>4. Loops'
    BY <1>0, <1>3, <2>2 DEF HandleInterfaceAdd, Loops, Removing, Updating
  <2> QED
    BY <1>0, <1>3, <2>2, <2>3, <2>4, ConfigsKept DEF HandleInterfaceAdd, history, Unnamed
<1>4. ASSUME HandleInterfaceRemove
      PROVE  IInv'
  <2> DEFINE i == event.interface
  <2>1. i \in Interfaces
    BY <1>0, <1>4, EventFields DEF HandleInterfaceRemove, Handle
  <2>2. entity' = [a \in Addresses |-> IF a \in Known(i) THEN Unlinked(entity[a])
                                                         ELSE entity[a]]
    BY <1>4 DEF HandleInterfaceRemove
  <2>3. \A a \in Known(i) : /\ Unlinked(entity[a]) \in Entities
                            /\ Unlinked(entity[a]).config = entity[a].config
                            /\ entity[a] # NoEntity
    BY DEF Known, OfInterface, Unlinked, TypeOK, Entities, NoIndex
  <2>4. \A a \in Addresses : HasConfig(entity'[a]) <=> HasConfig(entity[a])
    BY <2>2, <2>3, SentinelsAssumption DEF HasConfig
  <2>5. TypeOK'
    <3>1. entity' \in [Addresses -> Entities \cup {NoEntity}]
      BY <2>2, <2>3 DEF TypeOK
    <3>2. interfaces' \in [Interfaces -> Nat]
      BY <1>4, <2>1 DEF HandleInterfaceRemove, TypeOK, NoIndex
    <3> QED
      BY <1>0, <1>4, <3>1, <3>2 DEF TypeOK, HandleInterfaceRemove, kernel, history
  <2>6. Loops'
    BY <1>0, <1>4 DEF HandleInterfaceRemove, Loops, Removing, Updating
  <2> QED
    BY <1>4, <2>4, <2>5, <2>6, ConfigsKept DEF HandleInterfaceRemove, history, Unnamed
<1>5. ASSUME HandlePreinit
      PROVE  IInv'
  <2>1. TypeOK'
    BY <1>0, <1>5 DEF TypeOK, HandlePreinit, kernel, provider, history
  <2>2. Loops'
    BY <1>0, <1>5 DEF HandlePreinit, Loops, Removing, Updating
  <2> QED
    BY <1>5, <2>1, <2>2, ConfigsKept DEF HandlePreinit, provider, history, Unnamed
<1>6. ASSUME HandleAcquired
      PROVE  IInv'
  <2> DEFINE i == event.interface
             a == event.address
             n == IF lease[i] = NoLease THEN interfaces[i] ELSE lease[i].index
  <2>1. i \in Interfaces /\ a \in Addresses
    BY <1>0, <1>6, EventFields DEF HandleAcquired, Handle
  <2>2. n \in Nat
    BY <2>1 DEF TypeOK, Leases
  <2>3. lease' \in [Interfaces -> Leases \cup {NoLease}]
    <3>1. PICK m \in {n, NoIndex} :
              lease' = [lease EXCEPT ![i] = [address |-> a, index |-> m]]
      BY <1>6 DEF HandleAcquired
    <3>2. [address |-> a, index |-> m] \in Leases
      BY <2>1, <2>2, <3>1 DEF Leases, NoIndex
    <3> QED
      BY <3>1, <3>2 DEF TypeOK
  <2>4. held \subseteq held' /\ held' \subseteq Addresses /\ queue' \in Seq(Events)
    <3>1. AddressEvent("newaddr", a) \in Events
      BY <2>1, EventsMade
    <3>2. \/ held' = held \cup {a} /\ queue' = Append(Tail(queue), AddressEvent("newaddr", a))
          \/ held' = held /\ queue' = Tail(queue)
      BY <1>6 DEF HandleAcquired
    <3>3. held \subseteq held' /\ held' \subseteq Addresses
      BY <2>1, <3>2 DEF TypeOK
    <3>4. queue' \in Seq(Events)
      BY <1>0, <3>1, <3>2
    <3> QED
      BY <3>3, <3>4
  <2>5. TypeOK'
    BY <1>6, <2>3, <2>4 DEF TypeOK, HandleAcquired, history
  <2>6. Loops'
    BY <1>0, <1>6 DEF HandleAcquired, Loops, Removing, Updating
  <2> QED
    BY <1>6, <2>5, <2>6, ConfigsKept DEF HandleAcquired, history, Unnamed
<1>7. ASSUME HandleLost
      PROVE  IInv'
  <2>1. TypeOK'
    BY <1>0, <1>7 DEF TypeOK, HandleLost, kernel, history
  <2>2. Loops'
    BY <1>0, <1>7 DEF HandleLost, Loops, Removing, Updating
  <2> QED
    BY <1>7, <2>1, <2>2, ConfigsKept DEF HandleLost, history, Unnamed
<1> QED
  BY <1>1, <1>2, <1>3, <1>4, <1>5, <1>6, <1>7

LEMMA SetIndexKeeps ==
    ASSUME IInv, NEW a \in Addresses, SetIndex(a)
    PROVE  IInv'
<1> USE DEF IInv
<1> DEFINE e == [entity[a] EXCEPT !.index = interfaces[InterfaceOf[a]]]
<1>1. /\ task = "linkup" /\ a \in todo /\ entity[a] # NoEntity
      /\ Apply(a, e, queue)
      /\ todo' \subseteq todo /\ task' \in {"idle", "linkup"}
      /\ task' = "idle" => todo' = {}
      /\ stuck => stuck'
  BY DEF SetIndex, Loops
<1>2. e \in Entities /\ e.config = entity[a].config
  BY <1>1, InterfacesAssumption DEF TypeOK, Entities
<1>3. /\ entity' \in [Addresses -> Entities \cup {NoEntity}]
      /\ entity'[a] \in Entities /\ entity'[a].config = e.config
      /\ \A b \in Addresses \ {a} : entity'[b] = entity[b]
      /\ held \subseteq held' /\ held' \subseteq Addresses
      /\ ours' \subseteq held'
      /\ ours' = ours \/ (ours' = ours \cup {a} /\ e.config # NoConfig)
      /\ queue' \in Seq(Events)
  BY <1>1, <1>2, ApplyFacts DEF TypeOK
<1>4. \A b \in Addresses : HasConfig(entity'[b]) <=> HasConfig(entity[b])
  BY <1>1, <1>2, <1>3, SentinelsAssumption DEF HasConfig
<1>5. TypeOK'
  <2>1. stuck' \in BOOLEAN
    BY DEF SetIndex
  <2> QED
    BY <1>1, <1>3, <2>1 DEF TypeOK, SetIndex
<1>6. Loops'
  <2>1. \A b \in todo' : entity'[b] # NoEntity
    BY <1>1, <1>3, SentinelsAssumption DEF Loops, TypeOK
  <2> QED
    BY <1>1, <2>1 DEF SetIndex, Loops, Removing, Updating
<1>7. \A b \in ours' \ hasty' : b \in ours \ hasty \/ HasConfig(entity[b])
  BY <1>1, <1>2, <1>3 DEF SetIndex, HasConfig
<1> QED
  BY <1>1, <1>4, <1>5, <1>6, <1>7, ConfigsKept DEF SetIndex, Unnamed

-----------------------------------------------------------------------------
(* Commits. *)

LEMMA CommitKeeps ==
    ASSUME IInv, NEW d \in Configurations, Commit(d)
    PROVE  IInv'
<1> USE DEF IInv
<1>1. task = "idle" /\ todo = {} /\ data = previous
  BY DEF Commit, Idle, Loops
<1>2. /\ data' = d /\ task' = "remove" /\ todo' = Unconfigured(entity, d)
      /\ foreign' = foreign \ Configured(d)
      /\ UNCHANGED <<held, entity, previous, ours, hasty, stuck>>
  BY DEF Commit, kernel, provider
<1>3. TypeOK'
  <2>1. changes' \in 0..MaxChanges
    BY BoundAssumption DEF Commit, Outside, TypeOK
  <2>2. todo' \subseteq Addresses /\ foreign' \subseteq held
    BY <1>2 DEF Unconfigured, TypeOK
  <2> QED
    BY <1>2, <2>1, <2>2 DEF Commit, TypeOK, kernel, provider
<1>4. Loops'
  BY <1>2 DEF Loops, Removing, Updating, Unconfigured
<1>5. Unnamed'
  BY <1>2 DEF Unnamed, Named, Configured, TypeOK
<1>6. Following'
  BY <1>1, <1>2 DEF Following, Removing, Unconfigured
<1>7. Tended'
  BY <1>1, <1>2 DEF Tended
<1> QED
  BY <1>3, <1>4, <1>5, <1>6, <1>7

(* A rollback begins: what it finds unconfigured it will remove, and what the
   agent put it will configure. *)
LEMMA RollBackKeeps ==
    ASSUME TypeOK, TypeOK', Unnamed, RollBack, foreign' = foreign,
           \A b \in foreign : ~HasConfig(entity'[b]),
           ~stuck => \A b \in ours' \ hasty' : HasConfig(entity'[b]) \/ previous[b] # NoConfig
    PROVE  IInv'
<1>1. /\ data' = previous /\ previous' = previous /\ stuck' = stuck
      /\ task' = "unremove"
      /\ todo' = Unconfigured(entity', previous)
  BY DEF RollBack
<1>2. Loops'
  BY <1>1 DEF Loops, Removing, Updating, Unconfigured
<1>3. Unnamed'
  BY <1>1 DEF Unnamed, Named
<1>4. Following'
  BY <1>1 DEF Following, Removing, Unconfigured
<1>5. Tended'
  BY <1>1 DEF Tended
<1> QED
  BY <1>2, <1>3, <1>4, <1>5 DEF IInv

(* A rollback breaks off. *)
LEMMA GivingUpKeeps ==
    ASSUME TypeOK', Unnamed, foreign' = foreign, data = previous,
           todo' = {}, task' = "idle", stuck' = TRUE, UNCHANGED <<data, previous>>,
           \A b \in foreign : ~HasConfig(entity'[b])
    PROVE  IInv'
<1>1. Loops'
  BY DEF Loops, Removing, Updating
<1>2. Unnamed'
  BY DEF Unnamed, Named
<1> QED
  BY <1>1, <1>2 DEF IInv, Following, Tended

LEMMA RemoveAddressKeeps ==
    ASSUME IInv, NEW a \in Addresses, RemoveAddress(a)
    PROVE  IInv'
<1> USE DEF IInv
<1> DEFINE e == entity[a]
           gone == e.seen /\ Removable(a, e)
           raises == e.seen /\ ~Removable(a, e)
<1>1. /\ Removing /\ a \in todo
      /\ entity' = [entity EXCEPT ![a] = [e EXCEPT !.config = NoConfig]]
      /\ hasty' = IF e.seen THEN hasty ELSE hasty \cup {a}
      /\ gone => held' = held \ {a} /\ ours' = ours \ {a}
      /\ ~gone => held' = held /\ ours' = ours
      /\ gone => queue' = Append(queue, AddressEvent("deladdr", a))
      /\ ~gone => queue' = queue
      /\ IF raises THEN HandlerRaises ELSE Reached(a)
      /\ UNCHANGED <<link, created, interfaces, lease, changes, foreign, lost>>
  BY DEF RemoveAddress, ConfigRemoved
<1>2. HasConfig(e) /\ a \notin foreign
  BY <1>1 DEF Loops, Unnamed, Named
<1>3. [e EXCEPT !.config = NoConfig] \in Entities
  BY <1>2 DEF HasConfig, TypeOK, Entities
<1>4. /\ entity' \in [Addresses -> Entities \cup {NoEntity}]
      /\ ~HasConfig(entity'[a])
      /\ \A b \in Addresses \ {a} : entity'[b] = entity[b]
  BY <1>1, <1>2, <1>3 DEF TypeOK, HasConfig, Entities
<1>5. \A b \in foreign : ~HasConfig(entity'[b])
  BY <1>4 DEF Unnamed, Named, TypeOK
<1>6. /\ queue' \in Seq(Events)
      /\ held' \subseteq Addresses /\ foreign \subseteq held' /\ ours' \subseteq held'
      /\ ours' \subseteq ours /\ hasty \subseteq hasty' /\ hasty' \subseteq Addresses
  <2>1. queue' \in Seq(Events)
    <3>1. AddressEvent("deladdr", a) \in Events
      BY EventsMade
    <3>2. queue' = queue \/ queue' = Append(queue, AddressEvent("deladdr", a))
      BY <1>1
    <3>3. queue \in Seq(Events)
      BY DEF TypeOK
    <3> QED
      BY <3>1, <3>2, <3>3
  <2>2. /\ held \subseteq Addresses /\ foreign \subseteq held
        /\ ours \subseteq held
    BY DEF TypeOK
  <2>3. /\ held' \subseteq Addresses /\ foreign \subseteq held'
        /\ ours' \subseteq held' /\ ours' \subseteq ours
    BY <1>1, <1>2, <2>2
  <2>4. hasty \subseteq hasty' /\ hasty' \subseteq Addresses
    BY <1>1 DEF TypeOK
  <2> QED
    BY <2>1, <2>3, <2>4
<1>7. CASE raises
  <2>1. HandlerRaises
    BY <1>1, <1>7
  <2>2. CASE task = "remove"
    <3>1. RollBack
      BY <2>1, <2>2 DEF HandlerRaises
    <3>2. TypeOK'
      BY <1>1, <1>4, <1>6, <3>1 DEF RollBack, Unconfigured, TypeOK
    <3>3. ~stuck => \A b \in ours' \ hasty' : HasConfig(entity'[b]) \/ previous[b] # NoConfig
      <4> SUFFICES ASSUME ~stuck, NEW b \in ours' \ hasty'
                   PROVE  HasConfig(entity'[b]) \/ previous[b] # NoConfig
        OBVIOUS
      <4>1. CASE b = a
        BY <4>1, <1>2, <2>2 DEF Following
      <4>2. CASE b # a
        BY <4>2, <1>4, <1>6, <2>2 DEF Tended, TypeOK
      <4> QED
        BY <4>1, <4>2
    <3> QED
      BY <1>1, <1>5, <3>1, <3>2, <3>3, RollBackKeeps
  <2>3. CASE task = "unremove"
    <3>1. /\ todo' = {} /\ task' = "idle" /\ stuck' = TRUE
          /\ UNCHANGED <<data, previous>>
      BY <2>1, <2>3 DEF HandlerRaises
    <3>2. TypeOK'
      BY <1>1, <1>4, <1>6, <3>1 DEF TypeOK
    <3>3. data = previous
      BY <2>3 DEF Loops
    <3> QED
      BY <1>1, <1>5, <3>1, <3>2, <3>3, GivingUpKeeps
  <2> QED
    BY <1>1, <2>2, <2>3 DEF Removing
<1>8. CASE ~raises
  <2>1. todo' = todo \ {a} /\ UNCHANGED <<task, data, previous, stuck>>
    BY <1>1, <1>8 DEF Reached
  <2>2. TypeOK'
    BY <1>1, <1>4, <1>6, <2>1 DEF TypeOK
  <2>3. Loops'
    BY <1>1, <1>4, <2>1 DEF Loops, Removing, Updating, TypeOK
  <2>4. Unnamed'
    BY <1>1, <1>5, <2>1 DEF Unnamed, Named
  <2>5. Following'
    BY <1>1, <1>4, <2>1 DEF Following, Removing
  <2>6. Tended'
    <3>1. a \notin ours' \ hasty'
      BY <1>1, <1>8
    <3>2. \A b \in ours' \ hasty' : b \in ours \ hasty /\ entity'[b] = entity[b]
      BY <1>4, <1>6, <3>1 DEF TypeOK
    <3> QED
      BY <1>1, <2>1, <3>1, <3>2 DEF Tended, Removing
  <2> QED
    BY <2>2, <2>3, <2>4, <2>5, <2>6
<1> QED
  BY <1>7, <1>8

LEMMA UpdateAddressKeeps ==
    ASSUME IInv, NEW a \in Addresses, UpdateAddress(a)
    PROVE  IInv'
<1> USE DEF IInv
<1> DEFINE e == IF entity[a] = NoEntity THEN New(data[a], interfaces[InterfaceOf[a]])
                                        ELSE [entity[a] EXCEPT !.config = data[a]]
<1>1. /\ Updating /\ a \in todo
      /\ Apply(a, e, queue)
      /\ hasty' = hasty \/ hasty' = hasty \cup {a}
      /\ IF Raises(a, e) THEN HandlerRaises ELSE Reached(a)
      /\ UNCHANGED <<link, created, interfaces, lease, changes, foreign, lost>>
  BY DEF UpdateAddress
<1>2. data[a] # NoConfig /\ a \notin foreign
  BY <1>1 DEF Loops, Unnamed, Named
<1>3. e \in Entities /\ e.config = data[a]
  <2>1. CASE entity[a] = NoEntity
    BY <2>1, NewFacts, InterfacesAssumption DEF TypeOK, Configurations
  <2>2. CASE entity[a] # NoEntity
    <3>1. entity[a] \in Entities /\ data[a] \in AddressConfigs \cup {NoConfig}
      BY <2>2 DEF TypeOK, Configurations
    <3>2. e = [entity[a] EXCEPT !.config = data[a]]
      BY <2>2
    <3> QED
      BY <3>1, <3>2 DEF Entities
  <2> QED
    BY <2>1, <2>2
<1>4. /\ entity' \in [Addresses -> Entities \cup {NoEntity}]
      /\ entity'[a] \in Entities /\ entity'[a].config = e.config
      /\ \A b \in Addresses \ {a} : entity'[b] = entity[b]
      /\ held \subseteq held' /\ held' \subseteq Addresses
      /\ ours' \subseteq held'
      /\ ours' \subseteq ours \cup {a}
      /\ queue' \in Seq(Events)
  BY <1>1, <1>3, ApplyFacts DEF TypeOK
<1>5. HasConfig(entity'[a])
  BY <1>2, <1>3, <1>4, SentinelsAssumption DEF HasConfig
<1>6. \A b \in foreign : ~HasConfig(entity'[b])
  BY <1>2, <1>4 DEF Unnamed, Named, TypeOK
<1>7. foreign \subseteq held' /\ hasty \subseteq hasty' /\ hasty' \subseteq Addresses
  BY <1>1, <1>4 DEF TypeOK
<1>8. CASE Raises(a, e)
  <2>1. HandlerRaises
    BY <1>1, <1>8
  <2>2. CASE task = "update"
    <3>1. RollBack
      BY <2>1, <2>2 DEF HandlerRaises
    <3>2. TypeOK'
      BY <1>1, <1>4, <1>7, <3>1 DEF RollBack, Unconfigured, TypeOK
    <3>3. ~stuck => \A b \in ours' \ hasty' : HasConfig(entity'[b])
      BY <1>4, <1>5, <1>7, <2>2 DEF Tended, TypeOK
    <3> QED
      BY <1>1, <1>6, <3>1, <3>2, <3>3, RollBackKeeps
  <2>3. CASE task = "unupdate"
    <3>1. /\ todo' = {} /\ task' = "idle" /\ stuck' = TRUE
          /\ UNCHANGED <<data, previous>>
      BY <2>1, <2>3 DEF HandlerRaises
    <3>2. TypeOK'
      BY <1>1, <1>4, <1>7, <3>1 DEF TypeOK
    <3>3. data = previous
      BY <2>3 DEF Loops
    <3> QED
      BY <1>1, <1>6, <3>1, <3>2, <3>3, GivingUpKeeps
  <2> QED
    BY <1>1, <2>2, <2>3 DEF Updating
<1>9. CASE ~Raises(a, e)
  <2>1. todo' = todo \ {a} /\ UNCHANGED <<task, data, previous, stuck>>
    BY <1>1, <1>9 DEF Reached
  <2>2. TypeOK'
    BY <1>1, <1>4, <1>7, <2>1 DEF TypeOK
  <2>3. Loops'
    BY <1>1, <2>1 DEF Loops, Removing, Updating
  <2>4. Unnamed'
    BY <1>1, <1>6, <2>1 DEF Unnamed, Named
  <2>5. Following'
    BY <1>1, <1>2, <1>4, <2>1 DEF Following, Removing, Updating
  <2>6. Tended'
    <3> SUFFICES ASSUME ~stuck, NEW b \in ours' \ hasty', b # a
                 PROVE  HasConfig(entity'[b]) \/ (task' = "unupdate" /\ b \in todo')
      BY <1>5, <2>1 DEF Tended
    <3>1. b \in ours \ hasty /\ entity'[b] = entity[b]
      BY <1>4, <1>7 DEF TypeOK
    <3> QED
      BY <1>1, <2>1, <3>1 DEF Tended, Updating
  <2> QED
    BY <2>2, <2>3, <2>4, <2>5, <2>6
<1> QED
  BY <1>8, <1>9

(* What else a commit does. *)
LEMMA PassesKeep ==
    ASSUME IInv, BeginUpdate \/ CommitSucceeds \/ OthersFail \/ RolledBack
    PROVE  IInv'
<1> USE DEF IInv
<1>1. ASSUME BeginUpdate
      PROVE  IInv'
  <2>1. /\ Removing /\ todo = {} /\ todo' = Configured(data)
        /\ task' = IF task = "remove" THEN "update" ELSE "unupdate"
        /\ UNCHANGED <<data, previous, entity, foreign, ours, hasty, stuck>>
    BY <1>1 DEF BeginUpdate, provider, history
  <2>2. TypeOK'
    BY <1>1, <2>1 DEF BeginUpdate, TypeOK, kernel, provider, history, Configured
  <2>3. Loops'
    BY <2>1 DEF Loops, Removing, Updating, Configured
  <2>4. Unnamed' /\ Following'
    BY <2>1 DEF Unnamed, Named, Following, Removing
  <2>5. Tended'
    BY <2>1 DEF Tended, Removing, Configured, TypeOK
  <2> QED
    BY <2>2, <2>3, <2>4, <2>5
<1>2. ASSUME CommitSucceeds
      PROVE  IInv'
  <2>1. /\ task = "update" /\ todo = {} /\ task' = "idle" /\ previous' = data
        /\ UNCHANGED <<todo, data, entity, foreign, ours, hasty, stuck>>
    BY <1>2 DEF CommitSucceeds, provider, history
  <2>2. TypeOK'
    BY <1>2, <2>1 DEF CommitSucceeds, TypeOK, kernel, provider, history
  <2>3. Loops'
    BY <2>1 DEF Loops, Removing, Updating
  <2>4. Unnamed' /\ Following'
    BY <2>1 DEF Unnamed, Named, Following, Removing
  <2>5. Tended'
    BY <2>1 DEF Tended
  <2> QED
    BY <2>2, <2>3, <2>4, <2>5
<1>3. ASSUME OthersFail
      PROVE  IInv'
  <2>1. /\ task = "update" /\ RollBack
        /\ UNCHANGED <<held, entity, foreign, ours, hasty>>
    BY <1>3 DEF OthersFail, kernel, provider
  <2>2. TypeOK'
    BY <1>3, <2>1 DEF OthersFail, TypeOK, kernel, provider, RollBack, Unconfigured
  <2>3. \A b \in foreign : ~HasConfig(entity'[b])
    BY <2>1 DEF Unnamed, Named
  <2>4. ~stuck => \A b \in ours' \ hasty' : HasConfig(entity'[b])
    BY <2>1 DEF Tended
  <2> QED
    BY <2>1, <2>2, <2>3, <2>4, RollBackKeeps
<1>4. ASSUME RolledBack
      PROVE  IInv'
  <2>1. /\ task = "unupdate" /\ todo = {} /\ task' = "idle"
        /\ UNCHANGED <<todo, data, previous, entity, foreign, ours, hasty, stuck>>
    BY <1>4 DEF RolledBack, provider, history
  <2>2. TypeOK'
    BY <1>4, <2>1 DEF RolledBack, TypeOK, kernel, provider, history
  <2>3. Loops'
    BY <2>1 DEF Loops, Removing, Updating
  <2>4. Unnamed' /\ Following'
    BY <2>1 DEF Unnamed, Named, Following, Removing
  <2>5. Tended'
    BY <2>1 DEF Tended
  <2> QED
    BY <2>2, <2>3, <2>4, <2>5
<1> QED
  BY <1>1, <1>2, <1>3, <1>4

-----------------------------------------------------------------------------
(* The theorems. *)

LEMMA NextCorrect == IInv /\ [Next]_vars => IInv'
<1> SUFFICES ASSUME IInv, [Next]_vars
             PROVE  IInv'
  OBVIOUS
<1>1. CASE Others
  BY <1>1, OutsideKeeps, CommitKeeps DEF Others
<1>2. CASE Agent
  BY <1>2, HandlersKeep, SetIndexKeeps, RemoveAddressKeeps, UpdateAddressKeeps,
     PassesKeep DEF Agent
<1>3. CASE UNCHANGED vars
  BY <1>3 DEF vars, kernel, provider, history, IInv, TypeOK, Loops, Removing, Updating,
     Unnamed, Named, Following, Tended
<1> QED
  BY <1>1, <1>2, <1>3 DEF Next

LEMMA Invariance == Spec => []IInv
<1> QED
  BY InitCorrect, NextCorrect, PTL DEF Spec

(* The variables keep their types; what is said to be there of the agent's or
   of others' is there. *)
THEOREM TypeCorrect == Spec => []TypeOK
<1>1. IInv => TypeOK
  BY DEF IInv
<1> QED
  BY <1>1, Invariance, PTL

(* An address that the agent put and that is no longer configured is gone, once
   the agent is at rest, unless its configuration went before the kernel's report
   of it came, or a loop of the provider broke off: for any number of addresses. *)
THEOREM UnconfiguredCorrect == Spec => []UnconfiguredGone
<1>1. IInv => UnconfiguredGone
  BY DEF IInv, UnconfiguredGone, Settled, Tended, Following, Removing, TypeOK
<1> QED
  BY <1>1, Invariance, PTL

(* The agent takes no address away that others put and nobody configured. *)
THEOREM ForeignCorrect == Spec => ForeignKept
<1>1. IInv /\ [Next]_vars => [foreign \ held' # {} => changes' # changes]_vars
  <2> SUFFICES ASSUME IInv, Next, foreign \ held' # {}
               PROVE  changes' # changes
    BY DEF vars
  <2>1. CASE Others
    <3>1. Outside
      BY <2>1 DEF Others, CreateLink, TouchLink, DeleteLink, OtherAdds, OtherRemoves,
         LeaseReported, Commit
    <3> QED
      BY <3>1 DEF Outside, IInv, TypeOK
  <2>2. CASE Agent
    <3>1. foreign' = foreign
      BY <2>2 DEF Agent, BeginUpdate, CommitSucceeds, OthersFail, RolledBack,
         RemoveAddress, UpdateAddress, SetIndex, HandleAddressAdd, HandleAddressRemove,
         HandleInterfaceAdd, HandleInterfaceRemove, HandlePreinit, HandleAcquired,
         HandleLost, history
    <3>2. foreign' \subseteq held'
      BY NextCorrect DEF IInv, TypeOK
    <3> QED
      BY <3>1, <3>2
  <2> QED
    BY <2>1, <2>2 DEF Next
<1> QED
  BY <1>1, Invariance, PTL DEF Spec, ForeignKept

-----------------------------------------------------------------------------
(* Events on their way. *)

(* q has no event of M; the last event of M in q, if any, is one of G. *)
None(q, M) == \A k \in 1..Len(q) : q[k] \notin M
Ends(q, M, G) ==
    \A k \in 1..Len(q) :
        q[k] \in M /\ (\A l \in (k + 1)..Len(q) : q[l] \notin M) => q[k] \in G

(* The last event of M that is on its way is one of G; if none is, it is known. *)
Told(q, M, G, known) == Ends(q, M, G) /\ (None(q, M) => known)

LEMMA JoinedIndices ==
    ASSUME NEW q \in Seq(Events), NEW ms \in Seq(Events)
    PROVE  /\ q \o ms \in Seq(Events)
           /\ Len(q) \in Nat /\ Len(ms) \in Nat /\ Len(q \o ms) = Len(q) + Len(ms)
           /\ \A k \in 1..Len(q) : k \in 1..Len(q \o ms) /\ (q \o ms)[k] = q[k]
           /\ \A k \in 1..Len(ms) : /\ Len(q) + k \in 1..Len(q \o ms)
                                    /\ (q \o ms)[Len(q) + k] = ms[k]
           /\ \A k \in 1..Len(q \o ms) :
                 k \in 1..Len(q) \/ \E l \in 1..Len(ms) : k = Len(q) + l
<1>1. /\ Len(q) \in Nat /\ Len(ms) \in Nat /\ Len(q \o ms) = Len(q) + Len(ms)
      /\ \A k \in 1..Len(q) : (q \o ms)[k] = q[k]
      /\ \A k \in 1..Len(ms) : (q \o ms)[Len(q) + k] = ms[k]
  OBVIOUS
<1>2. ASSUME NEW k \in 1..Len(q \o ms)
      PROVE  k \in 1..Len(q) \/ \E l \in 1..Len(ms) : k = Len(q) + l
  <2>1. CASE k <= Len(q)
    BY <1>1, <2>1
  <2>2. CASE k > Len(q)
    <3>1. k - Len(q) \in 1..Len(ms) /\ k = Len(q) + (k - Len(q))
      BY <1>1, <2>2
    <3> QED
      BY <3>1
  <2> QED
    BY <1>1, <2>1, <2>2
<1>3. q \o ms \in Seq(Events)
  OBVIOUS
<1> QED
  BY <1>1, <1>2, <1>3

LEMMA TailIndices ==
    ASSUME NEW q \in Seq(Events), q # <<>>
    PROVE  /\ Head(q) = q[1] /\ Head(q) \in Events /\ Tail(q) \in Seq(Events)
           /\ Len(q) \in Nat /\ Len(q) >= 1 /\ Len(Tail(q)) = Len(q) - 1
           /\ \A k \in 1..Len(Tail(q)) : k + 1 \in 1..Len(q) /\ Tail(q)[k] = q[k + 1]
           /\ \A k \in 1..Len(q) : k = 1 \/ \E l \in 1..Len(Tail(q)) : k = l + 1
<1>1. /\ Head(q) = q[1] /\ Head(q) \in Events /\ Tail(q) \in Seq(Events)
      /\ Len(q) \in Nat /\ Len(q) >= 1 /\ Len(Tail(q)) = Len(q) - 1
      /\ \A k \in 1..Len(Tail(q)) : Tail(q)[k] = q[k + 1]
  OBVIOUS
<1>2. ASSUME NEW k \in 1..Len(q), k # 1
      PROVE  \E l \in 1..Len(Tail(q)) : k = l + 1
  <2>1. k - 1 \in 1..Len(Tail(q)) /\ k = (k - 1) + 1
    BY <1>1, <1>2
  <2> QED
    BY <2>1
<1> QED
  BY <1>1, <1>2

(* A set of numbers that is not empty has a least one. *)
LEMMA LeastElement ==
    ASSUME NEW T \in SUBSET Nat, T # {}
    PROVE  \E n \in T : \A m \in T : n <= m
<1> DEFINE R == OpToRel(<, Nat)
<1>1. IsWellFoundedOn(R, Nat)
  BY NatLessThanWellFounded
<1>2. \A m, n \in Nat : m < n => <<m, n>> \in R
  BY DEF OpToRel
<1> HIDE DEF R
<1>3. PICK n \in T : \A m \in T : ~(<<m, n>> \in R)
  BY <1>1, WFMin
<1>4. \A m \in T : ~(m < n)
  BY <1>2, <1>3
<1>5. \A m \in T : m \in Nat /\ n \in Nat
  OBVIOUS
<1> QED
  BY <1>4, <1>5

(* Where some event of M is on its way, one of them is the last. *)
LEMMA LastIsTold ==
    ASSUME NEW q \in Seq(Events), NEW M, NEW G, Ends(q, M, G), ~None(q, M)
    PROVE  \E k \in 1..Len(q) : q[k] \in M /\ q[k] \in G
<1> DEFINE T == {n \in Nat : n < Len(q) /\ q[Len(q) - n] \in M}
<1>1. Len(q) \in Nat
  OBVIOUS
<1>2. PICK j \in 1..Len(q) : q[j] \in M
  BY DEF None
<1>3. Len(q) - j \in Nat /\ Len(q) - j < Len(q) /\ Len(q) - (Len(q) - j) = j
  BY <1>1
<1>4. Len(q) - j \in T
  BY <1>2, <1>3
<1>5. PICK n \in T : \A m \in T : n <= m
  <2>1. T \in SUBSET Nat /\ T # {}
    BY <1>4
  <2> HIDE DEF T
  <2> QED
    BY <2>1, LeastElement
<1>6. n \in Nat /\ n < Len(q) /\ q[Len(q) - n] \in M
  BY <1>5
<1>7. Len(q) - n \in 1..Len(q)
  BY <1>1, <1>6
<1>8. ASSUME NEW l \in ((Len(q) - n) + 1)..Len(q), q[l] \in M PROVE FALSE
  <2>1. /\ Len(q) - l \in Nat /\ Len(q) - l < Len(q) /\ Len(q) - l < n
        /\ Len(q) - (Len(q) - l) = l
    BY <1>1, <1>6
  <2>2. Len(q) - l \in T
    BY <1>8, <2>1
  <2>3. n <= Len(q) - l
    BY <1>5, <2>2
  <2> QED
    BY <1>1, <1>6, <2>1, <2>3
<1> QED
  BY <1>6, <1>7, <1>8 DEF Ends

(* Events ms are added behind those of q. *)
LEMMA NoneJoined ==
    ASSUME NEW q \in Seq(Events), NEW ms \in Seq(Events), NEW M
    PROVE  None(q \o ms, M) <=> None(q, M) /\ None(ms, M)
<1> DEFINE j == q \o ms
<1>1. /\ \A k \in 1..Len(q) : k \in 1..Len(j) /\ j[k] = q[k]
      /\ \A k \in 1..Len(ms) : Len(q) + k \in 1..Len(j) /\ j[Len(q) + k] = ms[k]
      /\ \A k \in 1..Len(j) : k \in 1..Len(q) \/ \E l \in 1..Len(ms) : k = Len(q) + l
  BY JoinedIndices
<1> HIDE DEF j
<1>2. None(j, M) => None(q, M) /\ None(ms, M)
  BY <1>1 DEF None
<1>3. None(q, M) /\ None(ms, M) => None(j, M)
  BY <1>1 DEF None
<1> QED
  BY <1>2, <1>3 DEF j

LEMMA EndsJoined ==
    ASSUME NEW q \in Seq(Events), NEW ms \in Seq(Events), NEW M, NEW G,
           IF None(ms, M) THEN Ends(q, M, G) ELSE Ends(ms, M, G)
    PROVE  Ends(q \o ms, M, G)
<1> DEFINE j == q \o ms
<1>1. /\ Len(q) \in Nat /\ Len(ms) \in Nat /\ Len(j) = Len(q) + Len(ms)
      /\ \A k \in 1..Len(q) : k \in 1..Len(j) /\ j[k] = q[k]
      /\ \A k \in 1..Len(ms) : Len(q) + k \in 1..Len(j) /\ j[Len(q) + k] = ms[k]
      /\ \A k \in 1..Len(j) : k \in 1..Len(q) \/ \E l \in 1..Len(ms) : k = Len(q) + l
  BY JoinedIndices
<1> HIDE DEF j
<1> SUFFICES ASSUME NEW k \in 1..Len(j), j[k] \in M,
                    \A l \in (k + 1)..Len(j) : j[l] \notin M
             PROVE  j[k] \in G
  BY DEF Ends, j
<1>2. CASE k \in 1..Len(q)
  <2>1. j[k] = q[k]
    BY <1>1, <1>2
  <2>2. ASSUME NEW l \in (k + 1)..Len(q) PROVE q[l] \notin M
    <3>1. l \in 1..Len(q) /\ l \in (k + 1)..Len(j)
      BY <1>1, <1>2
    <3> QED
      BY <1>1, <3>1
  <2>3. ASSUME NEW l \in 1..Len(ms) PROVE ms[l] \notin M
    <3>1. Len(q) + l \in (k + 1)..Len(j)
      BY <1>1, <1>2
    <3> QED
      BY <1>1, <3>1
  <2>4. Ends(q, M, G)
    BY <2>3 DEF None
  <2> QED
    BY <1>2, <2>1, <2>2, <2>4 DEF Ends
<1>3. CASE \E l \in 1..Len(ms) : k = Len(q) + l
  <2>1. PICK l \in 1..Len(ms) : k = Len(q) + l
    BY <1>3
  <2>2. j[k] = ms[l] /\ ms[l] \in M
    BY <1>1, <2>1
  <2>3. ASSUME NEW p \in (l + 1)..Len(ms) PROVE ms[p] \notin M
    <3>1. p \in 1..Len(ms) /\ Len(q) + p \in (k + 1)..Len(j)
      BY <1>1, <2>1
    <3> QED
      BY <1>1, <3>1
  <2>4. Ends(ms, M, G)
    BY <2>2 DEF None
  <2> QED
    BY <2>2, <2>3, <2>4 DEF Ends
<1> QED
  BY <1>1, <1>2, <1>3

LEMMA ToldJoined ==
    ASSUME NEW q \in Seq(Events), NEW ms \in Seq(Events), NEW M, NEW G, NEW known \in BOOLEAN,
           IF None(ms, M) THEN Told(q, M, G, known) ELSE Ends(ms, M, G)
    PROVE  Told(q \o ms, M, G, known)
<1>1. Ends(q \o ms, M, G)
  BY EndsJoined DEF Told
<1>2. None(q \o ms, M) => None(q, M) /\ None(ms, M)
  BY NoneJoined
<1> QED
  BY <1>1, <1>2 DEF Told

(* The first event of q is taken. *)
LEMMA NoneTaken ==
    ASSUME NEW q \in Seq(Events), q # <<>>, NEW M
    PROVE  None(q, M) <=> Head(q) \notin M /\ None(Tail(q), M)
<1> DEFINE t == Tail(q)
<1>1. /\ Head(q) = q[1] /\ 1 \in 1..Len(q)
      /\ \A k \in 1..Len(t) : k + 1 \in 1..Len(q) /\ t[k] = q[k + 1]
      /\ \A k \in 1..Len(q) : k = 1 \/ \E l \in 1..Len(t) : k = l + 1
  BY TailIndices
<1> HIDE DEF t
<1>2. None(q, M) => q[1] \notin M /\ None(t, M)
  BY <1>1 DEF None
<1>3. q[1] \notin M /\ None(t, M) => None(q, M)
  BY <1>1 DEF None
<1> QED
  BY <1>1, <1>2, <1>3 DEF t

LEMMA ToldTaken ==
    ASSUME NEW q \in Seq(Events), q # <<>>, NEW M, NEW G,
           NEW known \in BOOLEAN, NEW then \in BOOLEAN,
           Told(q, M, G, known),
           Head(q) \in M \cap G => then, Head(q) \notin M /\ known => then
    PROVE  Told(Tail(q), M, G, then)
<1> DEFINE t == Tail(q)
<1>1. /\ Head(q) = q[1] /\ Len(q) \in Nat /\ Len(q) >= 1 /\ Len(t) = Len(q) - 1
      /\ \A k \in 1..Len(t) : k + 1 \in 1..Len(q) /\ t[k] = q[k + 1]
      /\ \A k \in 1..Len(q) : k = 1 \/ \E l \in 1..Len(t) : k = l + 1
  BY TailIndices
<1>2. None(q, M) <=> q[1] \notin M /\ None(t, M)
  BY <1>1, NoneTaken
<1> HIDE DEF t
<1>3. Ends(q, M, G)
  BY DEF Told
<1>4. ASSUME NEW k \in 1..Len(t), t[k] \in M, \A l \in (k + 1)..Len(t) : t[l] \notin M
      PROVE  t[k] \in G
  <2>1. k + 1 \in 1..Len(q) /\ t[k] = q[k + 1]
    BY <1>1
  <2>2. ASSUME NEW l \in ((k + 1) + 1)..Len(q) PROVE q[l] \notin M
    <3>1. PICK p \in 1..Len(t) : l = p + 1
      BY <1>1
    <3>2. p \in (k + 1)..Len(t)
      BY <1>1, <3>1
    <3> QED
      BY <1>1, <1>4, <3>1, <3>2
  <2> QED
    BY <1>3, <1>4, <2>1, <2>2 DEF Ends
<1>5. ASSUME None(t, M), q[1] \in M PROVE q[1] \in G
  <2>1. ASSUME NEW l \in (1 + 1)..Len(q) PROVE q[l] \notin M
    <3>1. PICK p \in 1..Len(t) : l = p + 1
      BY <1>1
    <3> QED
      BY <1>1, <1>5, <3>1 DEF None
  <2>2. 1 \in 1..Len(q)
    BY <1>1
  <2> QED
    BY <1>3, <1>5, <2>1, <2>2 DEF Ends
<1>6. None(t, M) => then
  BY <1>1, <1>2, <1>5 DEF Told
<1> QED
  BY <1>4, <1>6 DEF Told, Ends, t

LEMMA SingleFacts ==
    ASSUME NEW x \in Events, NEW M, NEW G
    PROVE  /\ <<x>> \in Seq(Events)
           /\ None(<<x>>, M) <=> x \notin M
           /\ Ends(<<x>>, M, G) <=> (x \in M => x \in G)
BY DEF None, Ends

-----------------------------------------------------------------------------
(* What the events on their way say of an address, and of an interface. *)

AboutAddress(a, ops) == {e \in Events : e.op \in ops /\ e.address = a}
AboutLink(i) == {e \in Events : e.op \in {"newlink", "dellink"} /\ e.interface = i}
Creation(i, n) == {e \in Events : e.op = "newlink" /\ e.interface = i /\ e.index = n}

Reports(a) == AboutAddress(a, {"newaddr", "deladdr"})
Present(e) == e # NoEntity /\ e.state = "present"

(* The last report about an address says whether it is there; so does its entity
   if there is no report. *)
AddressTold(q, a, e, there) ==
    Told(q, Reports(a), AboutAddress(a, {IF a \in there THEN "newaddr" ELSE "deladdr"}),
         Present(e) => a \in there)

(* The last report about an interface that exists says its index; so does what
   the provider knows if there is no report. *)
LinkTold(q, i, n, known) ==
    n # NoIndex => Told(q, AboutLink(i), Creation(i, n), known = n)

TellInv == /\ \A a \in Addresses : AddressTold(queue, a, entity[a], held)
           /\ \A i \in Interfaces : LinkTold(queue, i, link[i], interfaces[i])

(* A report is about one address or one interface. *)
LEMMA AddressEventAbout ==
    ASSUME NEW a \in Addresses, NEW op \in {"newaddr", "deladdr"}
    PROVE  /\ AddressEvent(op, a) \in Events
           /\ \A b \in Addresses : \A ops : AddressEvent(op, a) \in AboutAddress(b, ops)
                                          <=> op \in ops /\ b = a
           /\ \A i \in Interfaces : AddressEvent(op, a) \notin AboutLink(i)
           /\ \A i \in Interfaces : \A n : AddressEvent(op, a) \notin Creation(i, n)
<1>1. AddressEvent(op, a) \in Events
  BY EventsMade
<1>2. AddressEvent(op, a).op = op /\ AddressEvent(op, a).address = a
  BY DEF AddressEvent
<1> QED
  BY <1>1, <1>2 DEF AboutAddress, AboutLink, Creation

LEMMA LinkEventAbout ==
    ASSUME NEW i \in Interfaces, NEW n \in Nat, NEW op \in {"newlink", "dellink"}
    PROVE  /\ LinkEvent(op, i, n) \in Events
           /\ \A b \in Addresses, ops \in SUBSET {"newaddr", "deladdr"} :
                 LinkEvent(op, i, n) \notin AboutAddress(b, ops)
           /\ \A j \in Interfaces : LinkEvent(op, i, n) \in AboutLink(j) <=> j = i
           /\ \A j \in Interfaces : \A m : LinkEvent(op, i, n) \in Creation(j, m)
                                         <=> op = "newlink" /\ j = i /\ m = n
<1>1. LinkEvent(op, i, n) \in Events
  BY EventsMade
<1>2. /\ LinkEvent(op, i, n).op = op /\ LinkEvent(op, i, n).interface = i
      /\ LinkEvent(op, i, n).index = n
  BY DEF LinkEvent
<1> QED
  BY <1>1, <1>2 DEF AboutAddress, AboutLink, Creation

LEMMA LeaseEventAbout ==
    ASSUME NEW i \in Interfaces, NEW a \in Addresses, NEW op \in {"preinit", "bound", "lost"}
    PROVE  /\ LeaseEvent(op, i, a) \in Events
           /\ \A b \in Addresses, ops \in SUBSET {"newaddr", "deladdr"} :
                 LeaseEvent(op, i, a) \notin AboutAddress(b, ops)
           /\ \A j \in Interfaces : LeaseEvent(op, i, a) \notin AboutLink(j)
           /\ \A j \in Interfaces : \A m : LeaseEvent(op, i, a) \notin Creation(j, m)
<1>1. LeaseEvent(op, i, a) \in Events
  BY EventsMade
<1>2. LeaseEvent(op, i, a).op = op
  BY DEF LeaseEvent
<1> QED
  BY <1>1, <1>2 DEF AboutAddress, AboutLink, Creation

(* Events that are not about an address change nothing that is said of it. *)
LEMMA AddressSilent ==
    ASSUME NEW q \in Seq(Events), NEW ms \in Seq(Events), NEW a, NEW e, NEW f, NEW H, NEW K,
           a \in H <=> a \in K,
           AddressTold(q, a, e, H), Present(f) => Present(e), None(ms, Reports(a))
    PROVE  AddressTold(q \o ms, a, f, K)
<1> DEFINE G == AboutAddress(a, {IF a \in K THEN "newaddr" ELSE "deladdr"})
<1>1. Told(q, Reports(a), G, Present(f) => a \in K)
  BY DEF AddressTold, Told
<1>2. (Present(f) => a \in K) \in BOOLEAN
  OBVIOUS
<1> HIDE DEF G
<1>3. Told(q \o ms, Reports(a), G, Present(f) => a \in K)
  BY <1>1, <1>2, ToldJoined
<1> QED
  BY <1>3 DEF AddressTold, G

LEMMA LinkSilent ==
    ASSUME NEW q \in Seq(Events), NEW ms \in Seq(Events), NEW i, NEW n, NEW known,
           LinkTold(q, i, n, known), None(ms, AboutLink(i))
    PROVE  LinkTold(q \o ms, i, n, known)
<1>1. (known = n) \in BOOLEAN
  OBVIOUS
<1> QED
  BY <1>1, ToldJoined DEF LinkTold

(* Events whose last says what is so need nothing else. *)
LEMMA AddressSaid ==
    ASSUME NEW q \in Seq(Events), NEW ms \in Seq(Events), NEW a, NEW f, NEW H,
           ~None(ms, Reports(a)),
           Ends(ms, Reports(a), AboutAddress(a, {IF a \in H THEN "newaddr" ELSE "deladdr"}))
    PROVE  AddressTold(q \o ms, a, f, H)
<1>1. (Present(f) => a \in H) \in BOOLEAN
  OBVIOUS
<1> QED
  BY <1>1, ToldJoined DEF AddressTold

LEMMA LinkSaid ==
    ASSUME NEW q \in Seq(Events), NEW ms \in Seq(Events), NEW i, NEW n, NEW known,
           ~None(ms, AboutLink(i)), Ends(ms, AboutLink(i), Creation(i, n))
    PROVE  LinkTold(q \o ms, i, n, known)
<1>1. (known = n) \in BOOLEAN
  OBVIOUS
<1> QED
  BY <1>1, ToldJoined DEF LinkTold

(* What is said of an address, or of an interface, in p is what was said in q. *)
SameOfAddress(q, p, b) ==
    /\ None(p, Reports(b)) <=> None(q, Reports(b))
    /\ \A e, f, H, K : AddressTold(q, b, e, H) /\ (Present(f) => Present(e)) /\ (b \in H <=> b \in K)
                         => AddressTold(p, b, f, K)

SameOfLink(q, p, i) ==
    \A n : /\ None(p, Creation(i, n)) <=> None(q, Creation(i, n))
           /\ \A known : LinkTold(q, i, n, known) => LinkTold(p, i, n, known)

LEMMA JoinedSame ==
    ASSUME NEW q \in Seq(Events), NEW ms \in Seq(Events)
    PROVE  /\ \A b \in Addresses : None(ms, Reports(b)) => SameOfAddress(q, q \o ms, b)
           /\ \A i \in Interfaces : None(ms, AboutLink(i)) => SameOfLink(q, q \o ms, i)
<1>1. ASSUME NEW b \in Addresses, None(ms, Reports(b))
      PROVE  SameOfAddress(q, q \o ms, b)
  <2>1. None(q \o ms, Reports(b)) <=> None(q, Reports(b))
    BY <1>1, NoneJoined
  <2>2. ASSUME NEW e, NEW f, NEW H, NEW K,
               AddressTold(q, b, e, H), Present(f) => Present(e), b \in H <=> b \in K
        PROVE  AddressTold(q \o ms, b, f, K)
    BY <1>1, <2>2, AddressSilent
  <2> QED
    BY <2>1, <2>2 DEF SameOfAddress
<1>2. ASSUME NEW i \in Interfaces, None(ms, AboutLink(i))
      PROVE  SameOfLink(q, q \o ms, i)
  <2> SUFFICES ASSUME NEW n
               PROVE  /\ None(q \o ms, Creation(i, n)) <=> None(q, Creation(i, n))
                      /\ \A known : LinkTold(q, i, n, known) => LinkTold(q \o ms, i, n, known)
    BY DEF SameOfLink
  <2>1. None(ms, Creation(i, n))
    BY <1>2 DEF None, Creation, AboutLink
  <2>2. None(q \o ms, Creation(i, n)) <=> None(q, Creation(i, n))
    BY <2>1, NoneJoined
  <2>3. ASSUME NEW known, LinkTold(q, i, n, known)
        PROVE  LinkTold(q \o ms, i, n, known)
    BY <1>2, <2>3, LinkSilent
  <2> QED
    BY <2>2, <2>3
<1> QED
  BY <1>1, <1>2

LEMMA SameTwice ==
    ASSUME NEW q, NEW p, NEW r
    PROVE  /\ \A b : SameOfAddress(q, p, b) /\ SameOfAddress(p, r, b) => SameOfAddress(q, r, b)
           /\ \A i : SameOfLink(q, p, i) /\ SameOfLink(p, r, i) => SameOfLink(q, r, i)
BY DEF SameOfAddress, SameOfLink

(* One report of an address more, of an interface, or of a lease. *)
LEMMA AddressReported ==
    ASSUME NEW q \in Seq(Events), NEW a \in Addresses,
           NEW op \in {"newaddr", "deladdr"}, NEW p, p = Append(q, AddressEvent(op, a))
    PROVE  /\ p \in Seq(Events)
           /\ \A f, K : (a \in K <=> op = "newaddr") => AddressTold(p, a, f, K)
           /\ \A b \in Addresses \ {a} : SameOfAddress(q, p, b)
           /\ \A i \in Interfaces : SameOfLink(q, p, i)
<1> DEFINE x == AddressEvent(op, a)
<1>1. /\ x \in Events
      /\ \A b \in Addresses : \A ops : x \in AboutAddress(b, ops) <=> op \in ops /\ b = a
      /\ \A i \in Interfaces : x \notin AboutLink(i)
  BY AddressEventAbout
<1> HIDE DEF x
<1>2. <<x>> \in Seq(Events) /\ p = q \o <<x>>
  BY <1>1 DEF x
<1>3. \A M, G : /\ None(<<x>>, M) <=> x \notin M
                /\ Ends(<<x>>, M, G) <=> (x \in M => x \in G)
  BY <1>1, SingleFacts
<1>4. \A b \in Addresses : None(<<x>>, Reports(b)) <=> b # a
  BY <1>1, <1>3 DEF Reports
<1>5. p \in Seq(Events)
  BY <1>2
<1>6. ASSUME NEW f, NEW K, a \in K <=> op = "newaddr"
      PROVE  AddressTold(p, a, f, K)
  <2>1. x \in AboutAddress(a, {IF a \in K THEN "newaddr" ELSE "deladdr"})
    BY <1>1, <1>6
  <2>2. /\ ~None(<<x>>, Reports(a))
        /\ Ends(<<x>>, Reports(a), AboutAddress(a, {IF a \in K THEN "newaddr" ELSE "deladdr"}))
    BY <1>3, <1>4, <2>1
  <2> QED
    BY <1>2, <2>2, AddressSaid
<1>7. /\ \A b \in Addresses \ {a} : SameOfAddress(q, p, b)
      /\ \A i \in Interfaces : SameOfLink(q, p, i)
  <2>1. \A i \in Interfaces : None(<<x>>, AboutLink(i))
    BY <1>1, <1>3
  <2> QED
    BY <1>2, <1>4, <2>1, JoinedSame
<1> QED
  BY <1>5, <1>6, <1>7

LEMMA LinkReported ==
    ASSUME NEW q \in Seq(Events), NEW i \in Interfaces, NEW n \in Nat,
           NEW op \in {"newlink", "dellink"}, NEW p, p = Append(q, LinkEvent(op, i, n))
    PROVE  /\ p \in Seq(Events)
           /\ op = "newlink" => ~None(p, Creation(i, n)) /\ \A known : LinkTold(p, i, n, known)
           /\ \A b \in Addresses : SameOfAddress(q, p, b)
           /\ \A j \in Interfaces \ {i} : SameOfLink(q, p, j)
<1> DEFINE x == LinkEvent(op, i, n)
<1>1. /\ x \in Events
      /\ \A b \in Addresses, ops \in SUBSET {"newaddr", "deladdr"} : x \notin AboutAddress(b, ops)
      /\ \A j \in Interfaces : x \in AboutLink(j) <=> j = i
      /\ \A j \in Interfaces : \A m : x \in Creation(j, m) <=> op = "newlink" /\ j = i /\ m = n
  BY LinkEventAbout
<1> HIDE DEF x
<1>2. <<x>> \in Seq(Events) /\ p = q \o <<x>>
  BY <1>1 DEF x
<1>3. \A M, G : /\ None(<<x>>, M) <=> x \notin M
                /\ Ends(<<x>>, M, G) <=> (x \in M => x \in G)
  BY <1>1, SingleFacts
<1>4. \A b \in Addresses : None(<<x>>, Reports(b))
  BY <1>1, <1>3 DEF Reports
<1>5. p \in Seq(Events)
  BY <1>2
<1>6. ASSUME op = "newlink"
      PROVE  ~None(p, Creation(i, n)) /\ \A known : LinkTold(p, i, n, known)
  <2>1. ~None(<<x>>, AboutLink(i)) /\ Ends(<<x>>, AboutLink(i), Creation(i, n))
    BY <1>1, <1>3, <1>6
  <2>2. ~None(<<x>>, Creation(i, n))
    BY <1>1, <1>3, <1>6
  <2>3. ~None(p, Creation(i, n))
    BY <1>2, <2>2, NoneJoined
  <2>4. ASSUME NEW known PROVE LinkTold(p, i, n, known)
    BY <1>2, <2>1, LinkSaid
  <2> QED
    BY <2>3, <2>4
<1>7. /\ \A b \in Addresses : SameOfAddress(q, p, b)
      /\ \A j \in Interfaces \ {i} : SameOfLink(q, p, j)
  <2>1. \A j \in Interfaces \ {i} : None(<<x>>, AboutLink(j))
    BY <1>1, <1>3
  <2> QED
    BY <1>2, <1>4, <2>1, JoinedSame
<1> QED
  BY <1>5, <1>6, <1>7

LEMMA LeaseReportedSame ==
    ASSUME NEW q \in Seq(Events), NEW i \in Interfaces, NEW a \in Addresses,
           NEW op \in {"preinit", "bound", "lost"}, NEW p, p = Append(q, LeaseEvent(op, i, a))
    PROVE  /\ p \in Seq(Events)
           /\ \A b \in Addresses : SameOfAddress(q, p, b)
           /\ \A j \in Interfaces : SameOfLink(q, p, j)
<1> DEFINE x == LeaseEvent(op, i, a)
<1>1. /\ x \in Events
      /\ \A b \in Addresses, ops \in SUBSET {"newaddr", "deladdr"} : x \notin AboutAddress(b, ops)
      /\ \A j \in Interfaces : x \notin AboutLink(j)
  BY LeaseEventAbout
<1> HIDE DEF x
<1>2. <<x>> \in Seq(Events) /\ p = q \o <<x>>
  BY <1>1 DEF x
<1>3. \A M : None(<<x>>, M) <=> x \notin M
  BY <1>1, SingleFacts
<1>4. \A b \in Addresses : None(<<x>>, Reports(b))
  BY <1>1, <1>3 DEF Reports
<1>5. p \in Seq(Events)
  BY <1>2
<1> QED
  BY <1>1, <1>2, <1>3, <1>4, <1>5, JoinedSame

(* The first event is handled. *)
LEMMA AddressHandled ==
    ASSUME NEW q \in Seq(Events), q # <<>>, NEW a, NEW e, NEW f, NEW H,
           AddressTold(q, a, e, H),
           Head(q) \in Reports(a) => Head(q).op = "newaddr" \/ ~Present(f),
           Head(q) \notin Reports(a) /\ Present(f) => Present(e)
    PROVE  AddressTold(Tail(q), a, f, H)
<1> DEFINE M == Reports(a)
           G == AboutAddress(a, {IF a \in H THEN "newaddr" ELSE "deladdr"})
<1>1. Told(q, M, G, Present(e) => a \in H)
  BY DEF AddressTold
<1>2. (Present(e) => a \in H) \in BOOLEAN /\ (Present(f) => a \in H) \in BOOLEAN
  OBVIOUS
<1>3. Head(q) \in M \cap G => (Present(f) => a \in H)
  BY DEF Reports, AboutAddress
<1>4. Head(q) \notin M /\ (Present(e) => a \in H) => (Present(f) => a \in H)
  OBVIOUS
<1> HIDE DEF M, G
<1>5. Told(Tail(q), M, G, Present(f) => a \in H)
  BY <1>1, <1>2, <1>3, <1>4, ToldTaken
<1> QED
  BY <1>5 DEF AddressTold, M, G

LEMMA LinkHandled ==
    ASSUME NEW q \in Seq(Events), q # <<>>, NEW i, NEW n, NEW known, NEW then,
           LinkTold(q, i, n, known),
           Head(q) \in AboutLink(i) /\ Head(q).op = "newlink" => then = Head(q).index,
           Head(q) \notin AboutLink(i) => then = known
    PROVE  LinkTold(Tail(q), i, n, then)
<1> SUFFICES ASSUME n # NoIndex
             PROVE  Told(Tail(q), AboutLink(i), Creation(i, n), then = n)
  BY DEF LinkTold
<1>1. Told(q, AboutLink(i), Creation(i, n), known = n)
  BY DEF LinkTold
<1>2. (known = n) \in BOOLEAN /\ (then = n) \in BOOLEAN
  OBVIOUS
<1>3. Head(q) \in AboutLink(i) \cap Creation(i, n) => then = n
  BY DEF Creation
<1>4. Head(q) \notin AboutLink(i) /\ known = n => then = n
  OBVIOUS
<1> QED
  BY <1>1, <1>2, <1>3, <1>4, ToldTaken

-----------------------------------------------------------------------------
(* Several reports at once. *)

(* An order of a finite set reaches all of it. *)
LEMMA OrderIsOnto ==
    ASSUME NEW S, IsFiniteSet(S), NEW order \in SetToSeqs(S)
    PROVE  \A x \in S : \E n \in DOMAIN order : order[n] = x
<1> DEFINE D == 1..Cardinality(S)
<1>1. Cardinality(S) \in Nat
  BY FS_CardinalityType
<1>2. order \in [D -> S] /\ \A m, n \in D : m # n => order[m] # order[n]
  BY DEF SetToSeqs
<1>3. IsFiniteSet(D) /\ Cardinality(D) = Cardinality(S)
  BY <1>1, FS_Interval
<1> HIDE DEF D
<1>4. order \in Injection(D, S)
  BY <1>2 DEF Injection, IsInjective
<1>5. order \in Surjection(D, S)
  BY <1>3, <1>4, FS_Injection
<1> QED
  BY <1>2, <1>5 DEF Surjection

LEMMA AddressesReported ==
    ASSUME NEW S \in SUBSET Addresses, NEW order \in SetToSeqs(S),
           NEW op \in {"newaddr", "deladdr"},
           NEW ms, ms = [n \in DOMAIN order |-> AddressEvent(op, order[n])]
    PROVE  /\ ms \in Seq(Events)
           /\ \A b \in Addresses : /\ None(ms, Reports(b)) <=> b \notin S
                                   /\ Ends(ms, Reports(b), AboutAddress(b, {op}))
           /\ \A i \in Interfaces : None(ms, AboutLink(i)) /\ \A n : None(ms, Creation(i, n))
<1>1. IsFiniteSet(S)
  BY FinitenessAssumption, FS_Subset
<1>2. /\ order \in Seq(S) /\ DOMAIN order = 1..Cardinality(S) /\ Cardinality(S) \in Nat
      /\ \A b \in S : \E n \in DOMAIN order : order[n] = b
  BY <1>1, OrderIsSeq, OrderIsOnto
<1>3. ms \in Seq(Events)
  BY AddressEventsSeq
<1>4. DOMAIN ms = 1..Len(ms) /\ DOMAIN ms = DOMAIN order
  BY <1>3
<1>5. \A n \in 1..Len(ms) : order[n] \in S /\ ms[n] = AddressEvent(op, order[n])
  BY <1>2, <1>4
<1>6. ASSUME NEW n \in 1..Len(ms)
      PROVE  /\ \A b \in Addresses : \A ops : ms[n] \in AboutAddress(b, ops)
                                            <=> op \in ops /\ b = order[n]
             /\ \A i \in Interfaces : ms[n] \notin AboutLink(i)
             /\ \A i \in Interfaces : \A m : ms[n] \notin Creation(i, m)
  <2>1. order[n] \in Addresses /\ ms[n] = AddressEvent(op, order[n])
    BY <1>5
  <2> QED
    BY <2>1, AddressEventAbout
<1>7. ASSUME NEW b \in Addresses
      PROVE  /\ None(ms, Reports(b)) <=> b \notin S
             /\ Ends(ms, Reports(b), AboutAddress(b, {op}))
  <2>1. \A n \in 1..Len(ms) : ms[n] \in Reports(b) <=> b = order[n]
    BY <1>6 DEF Reports
  <2>2. b \in S => \E n \in 1..Len(ms) : b = order[n]
    BY <1>2, <1>4
  <2>3. None(ms, Reports(b)) <=> b \notin S
    BY <1>5, <2>1, <2>2 DEF None
  <2>4. Ends(ms, Reports(b), AboutAddress(b, {op}))
    BY <1>6, <2>1 DEF Ends
  <2> QED
    BY <2>3, <2>4
<1> QED
  BY <1>3, <1>6, <1>7 DEF None

LEMMA LinksReported ==
    ASSUME NEW S \in SUBSET Interfaces, NEW order \in SetToSeqs(S),
           NEW ms, ms = [n \in DOMAIN order |-> LinkEvent("newlink", order[n], 1)]
    PROVE  /\ ms \in Seq(Events)
           /\ \A b \in Addresses : None(ms, Reports(b))
           /\ \A i \in Interfaces : /\ None(ms, AboutLink(i)) <=> i \notin S
                                    /\ None(ms, Creation(i, 1)) <=> i \notin S
                                    /\ Ends(ms, AboutLink(i), Creation(i, 1))
<1>1. IsFiniteSet(S)
  BY FinitenessAssumption, FS_Subset
<1>2. /\ order \in Seq(S) /\ DOMAIN order = 1..Cardinality(S) /\ Cardinality(S) \in Nat
      /\ \A b \in S : \E n \in DOMAIN order : order[n] = b
  BY <1>1, OrderIsSeq, OrderIsOnto
<1>3. ms \in Seq(Events)
  BY LinkEventsSeq
<1>4. DOMAIN ms = 1..Len(ms) /\ DOMAIN ms = DOMAIN order
  BY <1>3
<1>5. \A n \in 1..Len(ms) : order[n] \in S /\ ms[n] = LinkEvent("newlink", order[n], 1)
  BY <1>2, <1>4
<1>6. ASSUME NEW n \in 1..Len(ms)
      PROVE  /\ \A b \in Addresses : ms[n] \notin Reports(b)
             /\ \A i \in Interfaces : /\ ms[n] \in AboutLink(i) <=> i = order[n]
                                      /\ ms[n] \in Creation(i, 1) <=> i = order[n]
  <2>1. order[n] \in Interfaces /\ ms[n] = LinkEvent("newlink", order[n], 1)
    BY <1>5
  <2> QED
    BY <2>1, LinkEventAbout DEF Reports
<1>7. ASSUME NEW i \in Interfaces
      PROVE  /\ None(ms, AboutLink(i)) <=> i \notin S
             /\ None(ms, Creation(i, 1)) <=> i \notin S
             /\ Ends(ms, AboutLink(i), Creation(i, 1))
  <2>1. i \in S => \E n \in 1..Len(ms) : i = order[n]
    BY <1>2, <1>4
  <2>2. (None(ms, AboutLink(i)) <=> i \notin S) /\ (None(ms, Creation(i, 1)) <=> i \notin S)
    BY <1>5, <1>6, <2>1, ZenonT(20) DEF None
  <2>3. Ends(ms, AboutLink(i), Creation(i, 1))
    BY <1>6 DEF Ends
  <2> QED
    BY <2>2, <2>3
<1> QED
  BY <1>3, <1>6, <1>7 DEF None

(* What apply() makes the kernel report. *)
LEMMA ApplyTold ==
    ASSUME TypeOK, NEW a \in Addresses, NEW e \in Entities,
           NEW waiting \in Seq(Events), Apply(a, e, waiting)
    PROVE  /\ \A b \in Addresses \ {a} : b \in held' <=> b \in held
           /\ \A b \in Addresses \ {a} : SameOfAddress(waiting, queue', b)
           /\ \A i \in Interfaces : SameOfLink(waiting, queue', i)
           /\ \A f, g : AddressTold(waiting, a, f, held) /\ (Present(g) => Present(f))
                          => AddressTold(queue', a, g, held')
           /\ a \notin held' => a \notin held /\ queue' = waiting
<1> DEFINE new == AddressEvent("newaddr", a)
           del == AddressEvent("deladdr", a)
<1>1. CASE Calls(a, e) = "adds"
  <2>1. held' = held \cup {a} /\ queue' = Append(waiting, new)
    BY <1>1 DEF Apply
  <2>2. /\ \A f, K : (a \in K <=> "newaddr" = "newaddr") => AddressTold(queue', a, f, K)
        /\ \A b \in Addresses \ {a} : SameOfAddress(waiting, queue', b)
        /\ \A i \in Interfaces : SameOfLink(waiting, queue', i)
    BY <2>1, AddressReported
  <2>3. a \in held' /\ \A b \in Addresses \ {a} : b \in held' <=> b \in held
    BY <2>1
  <2> QED
    BY <2>2, <2>3
<1>2. CASE Calls(a, e) = "replaces"
  <2> DEFINE p == Append(waiting, del)
  <2>1. held' = held
    BY <1>2 DEF Apply
  <2>2. a \in held
    BY <1>2 DEF Calls, Removable
  <2>3. queue' = Append(p, new)
    <3>1. queue' = waiting \o <<del, new>>
      BY <1>2 DEF Apply
    <3>2. new \in Events /\ del \in Events
      BY AddressEventAbout
    <3> HIDE DEF new, del
    <3>3. waiting \o <<del, new>> = Append(Append(waiting, del), new)
      BY <3>2
    <3> QED
      BY <3>1, <3>3 DEF p
  <2>4. /\ p \in Seq(Events)
        /\ \A b \in Addresses \ {a} : SameOfAddress(waiting, p, b)
        /\ \A i \in Interfaces : SameOfLink(waiting, p, i)
    BY AddressReported
  <2> HIDE DEF p
  <2>5. /\ \A f, K : (a \in K <=> "newaddr" = "newaddr") => AddressTold(queue', a, f, K)
        /\ \A b \in Addresses \ {a} : SameOfAddress(p, queue', b)
        /\ \A i \in Interfaces : SameOfLink(p, queue', i)
    BY <2>3, <2>4, AddressReported
  <2>6. /\ \A b \in Addresses \ {a} : SameOfAddress(waiting, queue', b)
        /\ \A i \in Interfaces : SameOfLink(waiting, queue', i)
    BY <2>4, <2>5, SameTwice
  <2> QED
    BY <2>1, <2>2, <2>5, <2>6
<1>3. CASE Calls(a, e) \notin {"adds", "replaces"}
  <2>1. held' = held /\ queue' = waiting
    BY <1>3 DEF Apply
  <2>2. /\ \A b \in Addresses : SameOfAddress(waiting, waiting, b)
        /\ \A i \in Interfaces : SameOfLink(waiting, waiting, i)
    BY DEF SameOfAddress, SameOfLink, AddressTold, Told
  <2>3. \A f, g : AddressTold(waiting, a, f, held) /\ (Present(g) => Present(f))
                    => AddressTold(waiting, a, g, held)
    BY DEF AddressTold, Told
  <2> QED
    BY <2>1, <2>2, <2>3
<1> QED
  BY <1>1, <1>2, <1>3

(* It makes no entity present. *)
LEMMA ApplyPresent ==
    ASSUME NEW a \in Addresses, NEW e \in Entities
    PROVE  Present(Applied(a, e)) => Present(e) /\ e.config = NoConfig
BY SentinelsAssumption DEF Applied, Present, Entities

-----------------------------------------------------------------------------
LEMMA InitTold == Init => TellInv
<1> SUFFICES ASSUME Init
             PROVE  TellInv
  OBVIOUS
<1>1. PICK links \in SetToSeqs({i \in Interfaces : link[i] # NoIndex}),
           addresses \in SetToSeqs(held) :
           queue = [n \in DOMAIN links |-> LinkEvent("newlink", links[n], 1)]
                   \o [n \in DOMAIN addresses |-> AddressEvent("newaddr", addresses[n])]
  BY DEF Init
<1> DEFINE ls == [n \in DOMAIN links |-> LinkEvent("newlink", links[n], 1)]
           as == [n \in DOMAIN addresses |-> AddressEvent("newaddr", addresses[n])]
<1>2. /\ link \in [Interfaces -> {0, 1}] /\ held \subseteq Addresses
      /\ interfaces = [i \in Interfaces |-> NoIndex]
      /\ \A a \in Addresses : ~Present(entity[a])
  BY SentinelsAssumption DEF Init, New, Present
<1>3. /\ ls \in Seq(Events)
      /\ \A b \in Addresses : None(ls, Reports(b))
      /\ \A i \in Interfaces : /\ None(ls, AboutLink(i)) <=> link[i] = NoIndex
                               /\ Ends(ls, AboutLink(i), Creation(i, 1))
  BY LinksReported
<1>4. /\ as \in Seq(Events)
      /\ \A b \in Addresses : /\ None(as, Reports(b)) <=> b \notin held
                              /\ Ends(as, Reports(b), AboutAddress(b, {"newaddr"}))
      /\ \A i \in Interfaces : None(as, AboutLink(i))
  BY <1>2, AddressesReported
<1>5. queue = ls \o as
  BY <1>1
<1> HIDE DEF ls, as
<1>6. ASSUME NEW a \in Addresses
      PROVE  AddressTold(queue, a, entity[a], held)
  <2>1. CASE a \in held
    <3>1. /\ ~None(as, Reports(a))
          /\ Ends(as, Reports(a), AboutAddress(a, {IF a \in held THEN "newaddr" ELSE "deladdr"}))
      BY <1>4, <2>1
    <3> QED
      BY <1>3, <1>4, <1>5, <3>1, AddressSaid
  <2>2. CASE a \notin held
    <3>1. None(queue, Reports(a))
      BY <1>3, <1>4, <1>5, <2>2, NoneJoined
    <3> QED
      BY <1>2, <3>1 DEF AddressTold, Told, Ends, None
  <2> QED
    BY <2>1, <2>2
<1>7. ASSUME NEW i \in Interfaces
      PROVE  LinkTold(queue, i, link[i], interfaces[i])
  <2>1. CASE link[i] = NoIndex
    BY <2>1 DEF LinkTold
  <2>2. CASE link[i] # NoIndex
    <3>1. link[i] = 1
      BY <1>2, <2>2 DEF NoIndex
    <3>2. ~None(ls, AboutLink(i)) /\ Ends(ls, AboutLink(i), Creation(i, 1))
      BY <1>3, <2>2
    <3>3. None(as, AboutLink(i))
      BY <1>4
    <3>4. Told(ls, AboutLink(i), Creation(i, 1), interfaces[i] = 1)
      BY <3>2 DEF Told
    <3>5. LinkTold(ls, i, 1, interfaces[i])
      BY <3>4 DEF LinkTold
    <3>6. LinkTold(ls \o as, i, 1, interfaces[i])
      BY <1>3, <1>4, <3>3, <3>5, LinkSilent
    <3> QED
      BY <1>5, <3>1, <3>6
  <2> QED
    BY <2>1, <2>2
<1> QED
  BY <1>6, <1>7 DEF TellInv

-----------------------------------------------------------------------------
(* What is told stays true: a change of the kernel is reported. *)

LEMMA TellKept ==
    ASSUME TellInv,
           \A b \in Addresses : \/ AddressTold(queue', b, entity'[b], held')
                                \/ /\ SameOfAddress(queue, queue', b)
                                   /\ Present(entity'[b]) => Present(entity[b])
                                   /\ b \in held' <=> b \in held,
           \A i \in Interfaces : \/ LinkTold(queue', i, link'[i], interfaces'[i])
                                 \/ /\ SameOfLink(queue, queue', i)
                                    /\ link'[i] = link[i] /\ interfaces'[i] = interfaces[i]
    PROVE  TellInv'
<1>1. ASSUME NEW b \in Addresses
      PROVE  AddressTold(queue', b, entity'[b], held')
  <2>1. AddressTold(queue, b, entity[b], held)
    BY DEF TellInv
  <2> QED
    BY <2>1 DEF SameOfAddress
<1>2. ASSUME NEW i \in Interfaces
      PROVE  LinkTold(queue', i, link'[i], interfaces'[i])
  <2>1. LinkTold(queue, i, link[i], interfaces[i])
    BY DEF TellInv
  <2> QED
    BY <2>1 DEF SameOfLink
<1> QED
  BY <1>1, <1>2 DEF TellInv

LEMMA QueueSame ==
    /\ \A b \in Addresses : SameOfAddress(queue, queue, b)
    /\ \A i \in Interfaces : SameOfLink(queue, queue, i)
BY DEF SameOfAddress, SameOfLink, AddressTold, Told

LEMMA OutsideTold ==
    ASSUME TypeOK, TellInv,
           \/ \E i \in Interfaces : CreateLink(i) \/ TouchLink(i) \/ DeleteLink(i)
           \/ \E a \in Addresses : OtherAdds(a) \/ OtherRemoves(a) \/ LeaseReported(a)
    PROVE  TellInv'
<1>0. /\ queue \in Seq(Events) /\ held \subseteq Addresses
      /\ link \in [Interfaces -> Nat] /\ created \in [Interfaces -> Nat]
  BY DEF TypeOK
<1>1. ASSUME NEW i \in Interfaces, CreateLink(i)
      PROVE  TellInv'
  <2>1. /\ created[i] + 1 \in Nat
        /\ queue' = Append(queue, LinkEvent("newlink", i, created[i] + 1))
        /\ link' = [link EXCEPT ![i] = created[i] + 1]
        /\ UNCHANGED <<held, interfaces, entity>>
    BY <1>0, <1>1 DEF CreateLink, provider
  <2>2. /\ \A known : LinkTold(queue', i, created[i] + 1, known)
        /\ \A b \in Addresses : SameOfAddress(queue, queue', b)
        /\ \A j \in Interfaces \ {i} : SameOfLink(queue, queue', j)
    BY <1>0, <2>1, LinkReported
  <2>3. link'[i] = created[i] + 1 /\ \A j \in Interfaces \ {i} : link'[j] = link[j]
    BY <1>0, <2>1
  <2> QED
    BY <2>1, <2>2, <2>3, TellKept
<1>2. ASSUME NEW i \in Interfaces, TouchLink(i)
      PROVE  TellInv'
  <2>1. /\ link[i] \in Nat
        /\ queue' = Append(queue, LinkEvent("newlink", i, link[i]))
        /\ UNCHANGED <<link, held, interfaces, entity>>
    BY <1>0, <1>2 DEF TouchLink, kernel, provider
  <2>2. /\ \A known : LinkTold(queue', i, link[i], known)
        /\ \A b \in Addresses : SameOfAddress(queue, queue', b)
        /\ \A j \in Interfaces \ {i} : SameOfLink(queue, queue', j)
    BY <1>0, <2>1, LinkReported
  <2> QED
    BY <2>1, <2>2, TellKept
<1>3. ASSUME NEW i \in Interfaces, DeleteLink(i)
      PROVE  TellInv'
  <2> DEFINE gone == held \cap OfInterface(i)
  <2>1. PICK order \in SetToSeqs(gone) :
            queue' = queue \o [n \in DOMAIN order |-> AddressEvent("deladdr", order[n])]
                           \o <<LinkEvent("dellink", i, link[i])>>
    BY <1>3 DEF DeleteLink
  <2> DEFINE ms == [n \in DOMAIN order |-> AddressEvent("deladdr", order[n])]
             p == queue \o ms
  <2>2. gone \in SUBSET Addresses
    BY <1>0
  <2>3. held' = held \ gone /\ link' = [link EXCEPT ![i] = NoIndex] /\ UNCHANGED <<interfaces, entity>>
    BY <1>3 DEF DeleteLink, provider
  <2> HIDE DEF gone
  <2>4. /\ ms \in Seq(Events)
        /\ \A b \in Addresses : /\ None(ms, Reports(b)) <=> b \notin gone
                                /\ Ends(ms, Reports(b), AboutAddress(b, {"deladdr"}))
        /\ \A j \in Interfaces : None(ms, AboutLink(j))
    BY <2>2, AddressesReported
  <2>5. LinkEvent("dellink", i, link[i]) \in Events
    BY <1>0, EventsMade
  <2> HIDE DEF ms
  <2>6. p \in Seq(Events) /\ queue' = Append(p, LinkEvent("dellink", i, link[i]))
    <3>1. queue' = p \o <<LinkEvent("dellink", i, link[i])>>
      BY <2>1 DEF ms
    <3> QED
      BY <1>0, <2>4, <2>5, <3>1
  <2>7. /\ \A b \in Addresses : b \notin gone => SameOfAddress(queue, p, b)
        /\ \A j \in Interfaces : SameOfLink(queue, p, j)
    BY <1>0, <2>4, JoinedSame
  <2>8. ASSUME NEW b \in gone, NEW f
        PROVE  AddressTold(p, b, f, held')
    <3>1. b \in Addresses /\ b \notin held'
      BY <2>2, <2>3
    <3>2. /\ ~None(ms, Reports(b))
          /\ Ends(ms, Reports(b), AboutAddress(b, {IF b \in held' THEN "newaddr" ELSE "deladdr"}))
      BY <2>4, <3>1
    <3> QED
      BY <1>0, <2>4, <3>2, AddressSaid
  <2> HIDE DEF p
  <2>9. /\ \A b \in Addresses : SameOfAddress(p, queue', b)
        /\ \A j \in Interfaces \ {i} : SameOfLink(p, queue', j)
    BY <1>0, <2>6, LinkReported
  <2>10. ASSUME NEW b \in Addresses
         PROVE  \/ AddressTold(queue', b, entity'[b], held')
                \/ SameOfAddress(queue, queue', b) /\ (b \in held' <=> b \in held)
    <3>1. CASE b \in gone
      BY <2>8, <2>9, <3>1 DEF SameOfAddress
    <3>2. CASE b \notin gone
      BY <2>3, <2>7, <2>9, <3>2, SameTwice
    <3> QED
      BY <3>1, <3>2
  <2>11. ASSUME NEW j \in Interfaces
         PROVE  \/ LinkTold(queue', j, link'[j], interfaces'[j])
                \/ SameOfLink(queue, queue', j) /\ link'[j] = link[j]
    <3>1. CASE j = i
      BY <1>0, <2>3, <3>1 DEF LinkTold
    <3>2. CASE j # i
      BY <1>0, <2>3, <2>7, <2>9, <3>2, SameTwice
    <3> QED
      BY <3>1, <3>2
  <2> QED
    BY <2>3, <2>10, <2>11, TellKept
<1>4. ASSUME NEW a \in Addresses, OtherAdds(a)
      PROVE  TellInv'
  <2>1. /\ queue' = Append(queue, AddressEvent("newaddr", a)) /\ held' = held \cup {a}
        /\ UNCHANGED <<link, interfaces, entity>>
    BY <1>4 DEF OtherAdds, provider
  <2>2. /\ \A f, K : (a \in K <=> "newaddr" = "newaddr") => AddressTold(queue', a, f, K)
        /\ \A b \in Addresses \ {a} : SameOfAddress(queue, queue', b)
        /\ \A i \in Interfaces : SameOfLink(queue, queue', i)
    BY <1>0, <2>1, AddressReported
  <2> QED
    BY <2>1, <2>2, TellKept
<1>5. ASSUME NEW a \in Addresses, OtherRemoves(a)
      PROVE  TellInv'
  <2>1. /\ queue' = Append(queue, AddressEvent("deladdr", a)) /\ held' = held \ {a}
        /\ UNCHANGED <<link, interfaces, entity>>
    BY <1>5 DEF OtherRemoves, provider
  <2>2. /\ \A f, K : (a \in K <=> "deladdr" = "newaddr") => AddressTold(queue', a, f, K)
        /\ \A b \in Addresses \ {a} : SameOfAddress(queue, queue', b)
        /\ \A i \in Interfaces : SameOfLink(queue, queue', i)
    BY <1>0, <2>1, AddressReported
  <2> QED
    BY <2>1, <2>2, TellKept
<1>6. ASSUME NEW a \in Addresses, LeaseReported(a)
      PROVE  TellInv'
  <2>1. PICK op \in {"preinit", "bound", "lost"} :
            queue' = Append(queue, LeaseEvent(op, InterfaceOf[a], a))
    BY <1>6 DEF LeaseReported
  <2>2. UNCHANGED <<link, held, interfaces, entity>>
    BY <1>6 DEF LeaseReported, kernel, provider
  <2>3. /\ \A b \in Addresses : SameOfAddress(queue, queue', b)
        /\ \A i \in Interfaces : SameOfLink(queue, queue', i)
    BY <1>0, <2>1, InterfacesAssumption, LeaseReportedSame
  <2> QED
    BY <2>2, <2>3, TellKept
<1> QED
  BY <1>1, <1>2, <1>3, <1>4, <1>5, <1>6

(* apply() called on the way. *)
LEMMA ApplyingTold ==
    ASSUME TypeOK, TellInv, NEW a \in Addresses, NEW e \in Entities, Apply(a, e, queue),
           Present(e) /\ e.config = NoConfig => Present(entity[a]),
           UNCHANGED <<link, interfaces>>
    PROVE  TellInv'
<1>1. queue \in Seq(Events) /\ entity \in [Addresses -> Entities \cup {NoEntity}]
  BY DEF TypeOK
<1>2. /\ \A b \in Addresses \ {a} : b \in held' <=> b \in held
      /\ \A b \in Addresses \ {a} : SameOfAddress(queue, queue', b)
      /\ \A i \in Interfaces : SameOfLink(queue, queue', i)
      /\ \A f, g : AddressTold(queue, a, f, held) /\ (Present(g) => Present(f))
                     => AddressTold(queue', a, g, held')
  BY <1>1, ApplyTold
<1>3. /\ entity'[a] = Applied(a, e)
      /\ \A b \in Addresses \ {a} : entity'[b] = entity[b]
  BY <1>1 DEF Apply
<1>4. Present(entity'[a]) => Present(entity[a])
  BY <1>3, ApplyPresent
<1>5. AddressTold(queue', a, entity'[a], held')
  BY <1>2, <1>4 DEF TellInv
<1> QED
  BY <1>2, <1>3, <1>5, TellKept

LEMMA LoopsTold ==
    ASSUME IInv, TellInv, NEW a \in Addresses,
           RemoveAddress(a) \/ UpdateAddress(a) \/ SetIndex(a)
    PROVE  TellInv'
<1>0. /\ TypeOK /\ Loops
      /\ queue \in Seq(Events) /\ entity \in [Addresses -> Entities \cup {NoEntity}]
      /\ interfaces \in [Interfaces -> Nat] /\ data \in Configurations
  BY DEF IInv, TypeOK
<1>1. ASSUME RemoveAddress(a)
      PROVE  TellInv'
  <2> DEFINE e == entity[a]
             gone == e.seen /\ Removable(a, e)
  <2>1. /\ Removing /\ a \in todo
        /\ entity' = [entity EXCEPT ![a] = [e EXCEPT !.config = NoConfig]]
        /\ gone => held' = held \ {a} /\ queue' = Append(queue, AddressEvent("deladdr", a))
        /\ ~gone => held' = held /\ queue' = queue
        /\ UNCHANGED <<link, interfaces>>
    BY <1>1 DEF RemoveAddress, ConfigRemoved
  <2> HIDE DEF gone
  <2>2. e \in Entities
    BY <1>0, <2>1 DEF Loops, HasConfig
  <2>3. Present(entity'[a]) => Present(entity[a])
    BY <1>0, <2>1, <2>2, SentinelsAssumption DEF Present, Entities
  <2>4. \A b \in Addresses \ {a} : entity'[b] = entity[b]
    BY <1>0, <2>1
  <2>5. CASE gone
    <3>1. /\ \A f, K : (a \in K <=> "deladdr" = "newaddr") => AddressTold(queue', a, f, K)
          /\ \A b \in Addresses \ {a} : SameOfAddress(queue, queue', b)
          /\ \A i \in Interfaces : SameOfLink(queue, queue', i)
      BY <1>0, <2>1, <2>5, AddressReported
    <3>2. held' = held \ {a}
      BY <2>1, <2>5
    <3> QED
      BY <2>1, <2>4, <3>1, <3>2, TellKept
  <2>6. CASE ~gone
    BY <2>1, <2>3, <2>4, <2>6, QueueSame, TellKept
  <2> QED
    BY <2>5, <2>6
<1>2. ASSUME UpdateAddress(a)
      PROVE  TellInv'
  <2> DEFINE e == IF entity[a] = NoEntity THEN New(data[a], interfaces[InterfaceOf[a]])
                                          ELSE [entity[a] EXCEPT !.config = data[a]]
  <2>1. Updating /\ a \in todo /\ Apply(a, e, queue) /\ UNCHANGED <<link, interfaces>>
    BY <1>2 DEF UpdateAddress
  <2>2. data[a] \in AddressConfigs /\ data[a] # NoConfig
    BY <1>0, <2>1, SentinelsAssumption DEF Loops, Configurations
  <2>3. e \in Entities /\ e.config = data[a]
    <3>1. CASE entity[a] = NoEntity
      BY <1>0, <2>2, <3>1, NewFacts, InterfacesAssumption
    <3>2. CASE entity[a] # NoEntity
      <4>1. entity[a] \in Entities
        BY <1>0, <3>2
      <4>2. e = [entity[a] EXCEPT !.config = data[a]]
        BY <3>2
      <4> QED
        BY <2>2, <4>1, <4>2 DEF Entities
    <3> QED
      BY <3>1, <3>2
  <2> HIDE DEF e
  <2> QED
    BY <1>0, <2>1, <2>2, <2>3, ApplyingTold
<1>3. ASSUME SetIndex(a)
      PROVE  TellInv'
  <2> DEFINE e == [entity[a] EXCEPT !.index = interfaces[InterfaceOf[a]]]
  <2>1. task = "linkup" /\ a \in todo /\ Apply(a, e, queue) /\ UNCHANGED <<link, interfaces>>
    BY <1>3 DEF SetIndex
  <2>2. entity[a] \in Entities
    BY <1>0, <2>1 DEF Loops
  <2>3. interfaces[InterfaceOf[a]] \in Nat
    BY <1>0, InterfacesAssumption
  <2>4. e \in Entities /\ e.state = entity[a].state
    BY <2>2, <2>3 DEF Entities
  <2>5. Present(e) => Present(entity[a])
    BY <2>2, <2>4, SentinelsAssumption DEF Present
  <2> HIDE DEF e
  <2> QED
    BY <1>0, <2>1, <2>4, <2>5, ApplyingTold
<1> QED
  BY <1>1, <1>2, <1>3

(* The first event was handled and is gone: what is left is told, if what it said
   is noted. *)
LEMMA TakenTold ==
    ASSUME TellInv, queue \in Seq(Events), queue # <<>>
    PROVE  /\ \A b \in Addresses : \A f :
                 /\ Head(queue) \in Reports(b) => Head(queue).op = "newaddr" \/ ~Present(f)
                 /\ Head(queue) \notin Reports(b) /\ Present(f) => Present(entity[b])
                 => AddressTold(Tail(queue), b, f, held)
           /\ \A i \in Interfaces : \A then :
                 /\ Head(queue) \in AboutLink(i) /\ Head(queue).op = "newlink"
                       => then = Head(queue).index
                 /\ Head(queue) \notin AboutLink(i) => then = interfaces[i]
                 => LinkTold(Tail(queue), i, link[i], then)
<1>1. ASSUME NEW b \in Addresses, NEW f,
             Head(queue) \in Reports(b) => Head(queue).op = "newaddr" \/ ~Present(f),
             Head(queue) \notin Reports(b) /\ Present(f) => Present(entity[b])
      PROVE  AddressTold(Tail(queue), b, f, held)
  <2>1. AddressTold(queue, b, entity[b], held)
    BY DEF TellInv
  <2> QED
    BY <1>1, <2>1, AddressHandled
<1>2. ASSUME NEW i \in Interfaces, NEW then,
             Head(queue) \in AboutLink(i) /\ Head(queue).op = "newlink"
                => then = Head(queue).index,
             Head(queue) \notin AboutLink(i) => then = interfaces[i]
      PROVE  LinkTold(Tail(queue), i, link[i], then)
  <2>1. LinkTold(queue, i, link[i], interfaces[i])
    BY DEF TellInv
  <2> QED
    BY <1>2, <2>1, LinkHandled
<1> QED
  BY <1>1, <1>2

LEMMA HandlersTold ==
    ASSUME TypeOK, TellInv,
           \/ HandleAddressAdd \/ HandleAddressRemove
           \/ HandleInterfaceAdd \/ HandleInterfaceRemove
           \/ HandlePreinit \/ HandleAcquired \/ HandleLost
    PROVE  TellInv'
<1> DEFINE event == Head(queue)
           rest == Tail(queue)
<1>0. /\ queue \in Seq(Events) /\ queue # <<>>
      /\ event \in Events /\ rest \in Seq(Events)
      /\ entity \in [Addresses -> Entities \cup {NoEntity}]
      /\ interfaces \in [Interfaces -> Nat]
  <2>1. queue # <<>> /\ queue \in Seq(Events)
    BY DEF TypeOK, Handle, HandleAddressAdd, HandleAddressRemove, HandleInterfaceAdd,
       HandleInterfaceRemove, HandlePreinit, HandleAcquired, HandleLost
  <2> QED
    BY <2>1, TailIndices DEF TypeOK
<1>a. /\ \A b \in Addresses : event \in Reports(b)
            <=> event.op \in {"newaddr", "deladdr"} /\ event.address = b
      /\ \A i \in Interfaces : event \in AboutLink(i)
            <=> event.op \in {"newlink", "dellink"} /\ event.interface = i
  BY <1>0 DEF Reports, AboutAddress, AboutLink
<1>b. /\ \A b \in Addresses : \A f :
            /\ event \in Reports(b) => event.op = "newaddr" \/ ~Present(f)
            /\ event \notin Reports(b) /\ Present(f) => Present(entity[b])
            => AddressTold(rest, b, f, held)
      /\ \A i \in Interfaces : \A then :
            /\ event \in AboutLink(i) /\ event.op = "newlink" => then = event.index
            /\ event \notin AboutLink(i) => then = interfaces[i]
            => LinkTold(rest, i, link[i], then)
  BY <1>0, TakenTold
<1> HIDE DEF event, rest
<1>1. ASSUME HandleAddressAdd
      PROVE  TellInv'
  <2>1. /\ event.op = "newaddr" /\ queue' = rest
        /\ \A b \in Addresses : b # event.address => entity'[b] = entity[b]
        /\ UNCHANGED <<link, held, interfaces>>
    BY <1>0, <1>1 DEF HandleAddressAdd, Handle, kernel, event, rest
  <2>2. \A b \in Addresses : AddressTold(rest, b, entity'[b], held)
    BY <1>a, <1>b, <2>1
  <2>3. \A i \in Interfaces : LinkTold(rest, i, link[i], interfaces[i])
    BY <1>a, <1>b, <2>1
  <2> QED
    BY <2>1, <2>2, <2>3, TellKept
<1>2. ASSUME HandleAddressRemove
      PROVE  TellInv'
  <2> DEFINE a == event.address
             e == [entity[a] EXCEPT !.state = "missing"]
  <2>1. event.op = "deladdr" /\ a \in Addresses /\ UNCHANGED <<link, interfaces>>
    BY <1>0, <1>2, EventFields DEF HandleAddressRemove, Handle, event
  <2>2. /\ \A b \in Addresses \ {a} : AddressTold(rest, b, entity[b], held)
        /\ \A f : ~Present(f) => AddressTold(rest, a, f, held)
        /\ \A i \in Interfaces : LinkTold(rest, i, link[i], interfaces[i])
    BY <1>a, <1>b, <2>1
  <2>3. CASE HasConfig(entity[a])
    <3>1. Apply(a, e, rest)
      BY <1>2, <2>3 DEF HandleAddressRemove, event, rest
    <3>2. e \in Entities /\ e.config = entity[a].config /\ e.config # NoConfig
      BY <1>0, <2>1, <2>3 DEF HasConfig, Entities
    <3>3. entity'[a] = Applied(a, e) /\ \A b \in Addresses \ {a} : entity'[b] = entity[b]
      BY <1>0, <2>1, <3>1 DEF Apply
    <3>4. ~Present(entity'[a])
      BY <2>1, <3>2, <3>3, ApplyPresent
    <3> HIDE DEF e
    <3>5. /\ \A b \in Addresses \ {a} : b \in held' <=> b \in held
          /\ \A b \in Addresses \ {a} : SameOfAddress(rest, queue', b)
          /\ \A i \in Interfaces : SameOfLink(rest, queue', i)
          /\ \A f, g : AddressTold(rest, a, f, held) /\ (Present(g) => Present(f))
                         => AddressTold(queue', a, g, held')
      BY <1>0, <2>1, <3>1, <3>2, ApplyTold
    <3>6. AddressTold(queue', a, entity'[a], held')
      BY <2>2, <3>4, <3>5
    <3>7. \A b \in Addresses \ {a} : AddressTold(queue', b, entity'[b], held')
      BY <2>2, <3>3, <3>5 DEF SameOfAddress
    <3>8. \A i \in Interfaces : LinkTold(queue', i, link[i], interfaces[i])
      BY <2>2, <3>5 DEF SameOfLink
    <3> QED
      BY <2>1, <3>6, <3>7, <3>8, TellKept
  <2>4. CASE ~HasConfig(entity[a])
    <3>1. /\ entity' = [entity EXCEPT ![a] = NoEntity]
          /\ queue' = rest /\ held' = held
      BY <1>2, <2>4 DEF HandleAddressRemove, event, rest
    <3>2. ~Present(entity'[a]) /\ \A b \in Addresses \ {a} : entity'[b] = entity[b]
      BY <1>0, <2>1, <3>1 DEF Present
    <3> QED
      BY <2>1, <2>2, <3>1, <3>2, TellKept
  <2> QED
    BY <2>3, <2>4
<1>3. ASSUME HandleInterfaceAdd
      PROVE  TellInv'
  <2>1. /\ event.op = "newlink" /\ queue' = rest
        /\ interfaces' = [interfaces EXCEPT ![event.interface] = event.index]
        /\ UNCHANGED <<link, held, entity>>
    BY <1>3 DEF HandleInterfaceAdd, Handle, kernel, event, rest
  <2>2. \A b \in Addresses : AddressTold(rest, b, entity[b], held)
    BY <1>a, <1>b, <2>1
  <2>3. \A i \in Interfaces : LinkTold(rest, i, link[i], interfaces'[i])
    BY <1>0, <1>a, <1>b, <2>1
  <2> QED
    BY <2>1, <2>2, <2>3, TellKept
<1>4. ASSUME HandleInterfaceRemove
      PROVE  TellInv'
  <2>1. /\ event.op = "dellink" /\ queue' = rest
        /\ interfaces' = [interfaces EXCEPT ![event.interface] = NoIndex]
        /\ entity' = [a \in Addresses |-> IF a \in Known(event.interface)
                                          THEN Unlinked(entity[a]) ELSE entity[a]]
        /\ UNCHANGED <<link, held>>
    BY <1>4 DEF HandleInterfaceRemove, Handle, kernel, event, rest
  <2>2. \A e \in Entities : Present(Unlinked(e)) => Present(e)
    BY SentinelsAssumption DEF Unlinked, Present, Entities
  <2>3. \A a \in Addresses : Present(entity'[a]) => Present(entity[a])
    <3> TAKE a \in Addresses
    <3>1. a \in Known(event.interface) => entity[a] \in Entities
      BY <1>0 DEF Known
    <3> QED
      BY <2>1, <2>2, <3>1
  <2>4. \A b \in Addresses : AddressTold(rest, b, entity'[b], held)
    BY <1>a, <1>b, <2>1, <2>3
  <2>5. \A i \in Interfaces : LinkTold(rest, i, link[i], interfaces'[i])
    BY <1>0, <1>a, <1>b, <2>1
  <2> QED
    BY <2>1, <2>4, <2>5, TellKept
<1>5. ASSUME HandlePreinit \/ HandleLost
      PROVE  TellInv'
  <2>1. /\ event.op \in {"preinit", "lost"} /\ queue' = rest
        /\ UNCHANGED <<link, held, interfaces, entity>>
    BY <1>5 DEF HandlePreinit, HandleLost, Handle, kernel, provider, event, rest
  <2>2. \A b \in Addresses : AddressTold(rest, b, entity[b], held)
    BY <1>a, <1>b, <2>1
  <2>3. \A i \in Interfaces : LinkTold(rest, i, link[i], interfaces[i])
    BY <1>a, <1>b, <2>1
  <2> QED
    BY <2>1, <2>2, <2>3, TellKept
<1>6. ASSUME HandleAcquired
      PROVE  TellInv'
  <2> DEFINE a == event.address
  <2>1. event.op = "bound" /\ a \in Addresses /\ UNCHANGED <<link, interfaces, entity>>
    BY <1>0, <1>6, EventFields DEF HandleAcquired, Handle, event
  <2>2. /\ \A b \in Addresses : AddressTold(rest, b, entity[b], held)
        /\ \A i \in Interfaces : LinkTold(rest, i, link[i], interfaces[i])
    BY <1>a, <1>b, <2>1
  <2>3. \/ held' = held \cup {a} /\ queue' = Append(rest, AddressEvent("newaddr", a))
        \/ held' = held /\ queue' = rest
    BY <1>6 DEF HandleAcquired, event, rest
  <2>4. CASE held' = held \cup {a} /\ queue' = Append(rest, AddressEvent("newaddr", a))
    <3>1. /\ \A f, K : (a \in K <=> "newaddr" = "newaddr") => AddressTold(queue', a, f, K)
          /\ \A b \in Addresses \ {a} : SameOfAddress(rest, queue', b)
          /\ \A i \in Interfaces : SameOfLink(rest, queue', i)
      BY <1>0, <2>1, <2>4, AddressReported
    <3>2. \A b \in Addresses : AddressTold(queue', b, entity[b], held')
      BY <2>2, <2>4, <3>1 DEF SameOfAddress
    <3>3. \A i \in Interfaces : LinkTold(queue', i, link[i], interfaces[i])
      BY <2>2, <3>1 DEF SameOfLink
    <3> QED
      BY <2>1, <3>2, <3>3, TellKept
  <2>5. CASE held' = held /\ queue' = rest
    BY <2>1, <2>2, <2>5, TellKept
  <2> QED
    BY <2>3, <2>4, <2>5
<1> QED
  BY <1>1, <1>2, <1>3, <1>4, <1>5, <1>6

LEMMA NextTold == IInv /\ TellInv /\ [Next]_vars => TellInv'
<1> SUFFICES ASSUME IInv, TellInv, [Next]_vars
             PROVE  TellInv'
  OBVIOUS
<1>0. TypeOK
  BY DEF IInv
<1>1. CASE UNCHANGED <<link, held, queue, interfaces, entity>>
  BY <1>1, QueueSame, TellKept
<1>2. ASSUME \/ \E d \in Configurations : Commit(d)
             \/ BeginUpdate \/ CommitSucceeds \/ OthersFail \/ RolledBack
             \/ UNCHANGED vars
      PROVE  UNCHANGED <<link, held, queue, interfaces, entity>>
  BY <1>2 DEF Commit, BeginUpdate, CommitSucceeds, OthersFail, RolledBack, kernel, provider, vars
<1>3. CASE Others
  BY <1>0, <1>1, <1>2, <1>3, OutsideTold DEF Others
<1>4. CASE Agent
  BY <1>0, <1>1, <1>2, <1>4, LoopsTold, HandlersTold DEF Agent
<1> QED
  BY <1>1, <1>2, <1>3, <1>4 DEF Next

LEMMA TellInvariance == Spec => []TellInv
<1> QED
  BY InitTold, Invariance, NextTold, PTL DEF Spec

(* In every behaviour, when the reports are handled, what addresses() lists as
   present is there. *)
THEOREM PresentCorrect == Spec => []PresentIsTrue
<1>1. TypeOK /\ TellInv => PresentIsTrue
  <2> SUFFICES ASSUME TypeOK, TellInv, Settled, NEW a \in Addresses, Present(entity[a])
               PROVE  a \in held
    BY DEF PresentIsTrue, Present
  <2>1. Told(queue, Reports(a), AboutAddress(a, {IF a \in held THEN "newaddr" ELSE "deladdr"}),
             Present(entity[a]) => a \in held)
    BY DEF TellInv, AddressTold
  <2>2. None(queue, Reports(a))
    BY DEF Settled, None
  <2> QED
    BY <2>1, <2>2 DEF Told
<1> QED
  BY <1>1, TypeCorrect, TellInvariance, PTL

-----------------------------------------------------------------------------
(* A configured address that is not there, though nobody took it away, was never
   seen, and its entity has no index yet: none was told, or the kernel had none. *)

Coming(a) == HasConfig(entity[a]) /\ a \notin held \cup lost \cup hasty

QuietAt(a) ==
    Coming(a) => ~entity[a].seen /\ entity[a].index = NoIndex /\ None(queue, Reports(a))

(* It will be told: the report of its interface is on its way, or being handled. *)
AwaitedAt(a) ==
    LET i == InterfaceOf[a] IN
    ~stuck /\ Coming(a) /\ link[i] # NoIndex =>
        \/ ~None(queue, Creation(i, link[i]))
        \/ task = "linkup" /\ a \in todo /\ interfaces[i] = link[i]

(* An entity without a configuration was seen, or its configuration went before. *)
ForgottenAt(a) ==
    entity[a] # NoEntity /\ ~entity[a].seen /\ entity[a].config = NoConfig => a \in hasty

ComeInv == \A a \in Addresses : QuietAt(a) /\ AwaitedAt(a) /\ ForgottenAt(a)

(* The entities follow the configuration, and the updates that are due. *)
Kept ==
    ~stuck => \A a \in Addresses : data[a] # NoConfig =>
                 HasConfig(entity[a]) \/ Removing \/ (Updating /\ a \in todo)

LEMMA InitComes == Init => ComeInv /\ Kept
<1> SUFFICES ASSUME Init
             PROVE  ComeInv /\ Kept
  OBVIOUS
<1>1. PICK links \in SetToSeqs({i \in Interfaces : link[i] # NoIndex}),
           addresses \in SetToSeqs(held) :
           queue = [n \in DOMAIN links |-> LinkEvent("newlink", links[n], 1)]
                   \o [n \in DOMAIN addresses |-> AddressEvent("newaddr", addresses[n])]
  BY DEF Init
<1> DEFINE ls == [n \in DOMAIN links |-> LinkEvent("newlink", links[n], 1)]
           as == [n \in DOMAIN addresses |-> AddressEvent("newaddr", addresses[n])]
<1>2. /\ link \in [Interfaces -> {0, 1}] /\ held \subseteq Addresses
      /\ entity = [a \in Addresses |-> IF data[a] = NoConfig THEN NoEntity
                                       ELSE New(data[a], NoIndex)]
      /\ data \in Configurations
  BY DEF Init
<1>3. /\ ls \in Seq(Events)
      /\ \A b \in Addresses : None(ls, Reports(b))
      /\ \A i \in Interfaces : None(ls, Creation(i, 1)) <=> link[i] = NoIndex
  BY LinksReported
<1>4. /\ as \in Seq(Events)
      /\ \A b \in Addresses : None(as, Reports(b)) <=> b \notin held
  BY <1>2, AddressesReported
<1>5. queue = ls \o as
  BY <1>1
<1> HIDE DEF ls, as
<1>6. \A c, n : New(c, n).config = c /\ New(c, n).index = n /\ New(c, n).seen = FALSE
  BY DEF New
<1>7. ASSUME NEW a \in Addresses
      PROVE  data[a] # NoConfig <=> entity[a] # NoEntity
  <2>1. data[a] # NoConfig => New(data[a], NoIndex) # NoEntity
    BY <1>2, NewFacts, SentinelsAssumption DEF Configurations, NoIndex
  <2> QED
    BY <1>2, <2>1
<1>8. ASSUME NEW a \in Addresses
      PROVE  QuietAt(a) /\ AwaitedAt(a) /\ ForgottenAt(a)
  <2>1. entity[a] # NoEntity => entity[a] = New(data[a], NoIndex) /\ data[a] # NoConfig
    BY <1>2
  <2>2. a \notin held => None(queue, Reports(a))
    BY <1>3, <1>4, <1>5, NoneJoined
  <2>3. link[InterfaceOf[a]] # NoIndex
        => ~None(queue, Creation(InterfaceOf[a], link[InterfaceOf[a]]))
    <3>1. InterfaceOf[a] \in Interfaces
      BY InterfacesAssumption
    <3>2. link[InterfaceOf[a]] # NoIndex => link[InterfaceOf[a]] = 1
      BY <1>2, <3>1 DEF NoIndex
    <3>3. \A M : None(queue, M) <=> None(ls, M) /\ None(as, M)
      BY <1>3, <1>4, <1>5, NoneJoined
    <3> QED
      BY <1>3, <3>1, <3>2, <3>3
  <2>4. QuietAt(a)
    BY <1>6, <2>1, <2>2 DEF QuietAt, Coming, HasConfig
  <2>5. AwaitedAt(a)
    BY <2>3 DEF AwaitedAt
  <2>6. ForgottenAt(a)
    BY <1>6, <2>1 DEF ForgottenAt
  <2> QED
    BY <2>4, <2>5, <2>6
<1>9. Kept
  BY <1>2, <1>6, <1>7 DEF Kept, HasConfig
<1> QED
  BY <1>8, <1>9 DEF ComeInv

(* What a step leaves as it was. *)
LEMMA ComesSame ==
    ASSUME ComeInv, NEW a \in Addresses,
           entity'[a] # NoEntity => /\ entity[a] # NoEntity
                                    /\ entity'[a].seen = entity[a].seen
                                    /\ entity'[a].config = entity[a].config
                                    /\ entity'[a].index \in {entity[a].index, NoIndex},
           a \in held => a \in held' \cup lost', lost \subseteq lost', hasty \subseteq hasty',
           None(queue, Reports(a)) => None(queue', Reports(a)), stuck => stuck',
           LET i == InterfaceOf[a] IN
           ~stuck' /\ HasConfig(entity[a]) /\ link'[i] # NoIndex =>
              \/ ~None(queue', Creation(i, link'[i]))
              \/ task' = "linkup" /\ a \in todo' /\ interfaces'[i] = link'[i]
              \/ /\ link'[i] = link[i]
                 /\ None(queue', Creation(i, link[i])) => None(queue, Creation(i, link[i]))
                 /\ task = "linkup" /\ a \in todo =>
                       task' = "linkup" /\ a \in todo' /\ interfaces'[i] = interfaces[i]
    PROVE  QuietAt(a)' /\ AwaitedAt(a)' /\ ForgottenAt(a)'
<1>1. QuietAt(a) /\ AwaitedAt(a) /\ ForgottenAt(a)
  BY DEF ComeInv
<1>2. Coming(a)' => Coming(a) /\ HasConfig(entity[a]) /\ entity'[a] # NoEntity
  BY DEF Coming, HasConfig
<1>3. QuietAt(a)'
  BY <1>1, <1>2 DEF QuietAt
<1>4. AwaitedAt(a)'
  BY <1>1, <1>2 DEF AwaitedAt
<1>5. ForgottenAt(a)'
  BY <1>1 DEF ForgottenAt
<1> QED
  BY <1>3, <1>4, <1>5

LEMMA OutsideComes ==
    ASSUME TypeOK, ComeInv,
           \/ \E i \in Interfaces : CreateLink(i) \/ TouchLink(i) \/ DeleteLink(i)
           \/ \E a \in Addresses : OtherAdds(a) \/ OtherRemoves(a) \/ LeaseReported(a)
    PROVE  ComeInv'
<1>0. /\ queue \in Seq(Events) /\ held \subseteq Addresses
      /\ link \in [Interfaces -> Nat] /\ created \in [Interfaces -> Nat]
  BY DEF TypeOK
<1>a. /\ UNCHANGED <<interfaces, entity, task, todo, hasty, stuck>>
      /\ lost \subseteq lost' /\ held \subseteq held' \cup lost'
  BY DEF CreateLink, TouchLink, DeleteLink, OtherAdds, OtherRemoves, LeaseReported, kernel, provider
<1>b. \A a \in Addresses : InterfaceOf[a] \in Interfaces
  BY InterfacesAssumption
<1>c. SUFFICES ASSUME NEW a \in Addresses
               PROVE  /\ None(queue, Reports(a)) => None(queue', Reports(a)) \/ a \in held' \cup lost'
                      /\ LET i == InterfaceOf[a] IN
                         link'[i] # NoIndex =>
                            \/ ~None(queue', Creation(i, link'[i]))
                            \/ /\ link'[i] = link[i]
                               /\ None(queue', Creation(i, link[i])) => None(queue, Creation(i, link[i]))
  <2>1. ASSUME NEW a \in Addresses
        PROVE  QuietAt(a)' /\ AwaitedAt(a)' /\ ForgottenAt(a)'
    <3>1. CASE a \in held' \cup lost'
      <4>1. ForgottenAt(a)
        BY DEF ComeInv
      <4> QED
        BY <1>a, <3>1, <4>1 DEF QuietAt, AwaitedAt, ForgottenAt, Coming
    <3>2. CASE a \notin held' \cup lost'
      BY <1>a, <1>c, <3>2, ComesSame
    <3> QED
      BY <3>1, <3>2
  <2> QED
    BY <2>1 DEF ComeInv
<1> DEFINE j == InterfaceOf[a]
<1>d. j \in Interfaces
  BY <1>b
<1>1. ASSUME NEW i \in Interfaces, CreateLink(i)
      PROVE  /\ None(queue, Reports(a)) => None(queue', Reports(a))
             /\ \/ ~None(queue', Creation(j, link'[j]))
                \/ /\ link'[j] = link[j]
                   /\ None(queue', Creation(j, link[j])) => None(queue, Creation(j, link[j]))
  <2>1. /\ created[i] + 1 \in Nat
        /\ queue' = Append(queue, LinkEvent("newlink", i, created[i] + 1))
        /\ link' = [link EXCEPT ![i] = created[i] + 1]
    BY <1>0, <1>1 DEF CreateLink
  <2>2. /\ ~None(queue', Creation(i, created[i] + 1))
        /\ \A b \in Addresses : SameOfAddress(queue, queue', b)
        /\ \A k \in Interfaces \ {i} : SameOfLink(queue, queue', k)
    BY <1>0, <2>1, LinkReported
  <2> QED
    BY <1>0, <1>d, <2>1, <2>2 DEF SameOfAddress, SameOfLink
<1>2. ASSUME NEW i \in Interfaces, TouchLink(i)
      PROVE  /\ None(queue, Reports(a)) => None(queue', Reports(a))
             /\ \/ ~None(queue', Creation(j, link'[j]))
                \/ /\ link'[j] = link[j]
                   /\ None(queue', Creation(j, link[j])) => None(queue, Creation(j, link[j]))
  <2>1. /\ link[i] \in Nat /\ link' = link
        /\ queue' = Append(queue, LinkEvent("newlink", i, link[i]))
    BY <1>0, <1>2 DEF TouchLink, kernel
  <2>2. /\ ~None(queue', Creation(i, link[i]))
        /\ \A b \in Addresses : SameOfAddress(queue, queue', b)
        /\ \A k \in Interfaces \ {i} : SameOfLink(queue, queue', k)
    BY <1>0, <2>1, LinkReported
  <2> QED
    BY <1>d, <2>1, <2>2 DEF SameOfAddress, SameOfLink
<1>3. ASSUME NEW i \in Interfaces, DeleteLink(i)
      PROVE  /\ None(queue, Reports(a)) => None(queue', Reports(a)) \/ a \in lost'
             /\ link'[j] # NoIndex =>
                   /\ link'[j] = link[j]
                   /\ None(queue', Creation(j, link[j])) => None(queue, Creation(j, link[j]))
  <2> DEFINE gone == held \cap OfInterface(i)
  <2>1. PICK order \in SetToSeqs(gone) :
            queue' = queue \o [n \in DOMAIN order |-> AddressEvent("deladdr", order[n])]
                           \o <<LinkEvent("dellink", i, link[i])>>
    BY <1>3 DEF DeleteLink
  <2> DEFINE ms == [n \in DOMAIN order |-> AddressEvent("deladdr", order[n])]
             p == queue \o ms
  <2>2. gone \in SUBSET Addresses
    BY <1>0
  <2>3. lost' = lost \cup gone /\ link' = [link EXCEPT ![i] = NoIndex]
    BY <1>3 DEF DeleteLink
  <2> HIDE DEF gone
  <2>4. /\ ms \in Seq(Events)
        /\ \A b \in Addresses : None(ms, Reports(b)) <=> b \notin gone
        /\ \A k \in Interfaces : None(ms, AboutLink(k))
    BY <2>2, AddressesReported
  <2>5. LinkEvent("dellink", i, link[i]) \in Events
    BY <1>0, EventsMade
  <2> HIDE DEF ms
  <2>6. p \in Seq(Events) /\ queue' = Append(p, LinkEvent("dellink", i, link[i]))
    <3>1. queue' = p \o <<LinkEvent("dellink", i, link[i])>>
      BY <2>1 DEF ms
    <3> QED
      BY <1>0, <2>4, <2>5, <3>1
  <2>7. /\ \A b \in Addresses : b \notin gone => SameOfAddress(queue, p, b)
        /\ \A k \in Interfaces : SameOfLink(queue, p, k)
    BY <1>0, <2>4, JoinedSame
  <2> HIDE DEF p
  <2>8. /\ \A b \in Addresses : SameOfAddress(p, queue', b)
        /\ \A k \in Interfaces \ {i} : SameOfLink(p, queue', k)
    BY <1>0, <2>6, LinkReported
  <2>9. link'[j] # NoIndex => j # i /\ link'[j] = link[j]
    BY <1>0, <1>d, <2>3
  <2> QED
    BY <1>d, <2>3, <2>7, <2>8, <2>9 DEF SameOfAddress, SameOfLink
<1>4. ASSUME NEW b \in Addresses, OtherAdds(b) \/ OtherRemoves(b)
      PROVE  /\ None(queue, Reports(a)) => None(queue', Reports(a)) \/ a \in held' \cup lost'
             /\ link'[j] = link[j]
             /\ None(queue', Creation(j, link[j])) => None(queue, Creation(j, link[j]))
  <2>1. PICK op \in {"newaddr", "deladdr"} :
            queue' = Append(queue, AddressEvent(op, b))
    BY <1>4 DEF OtherAdds, OtherRemoves
  <2>2. link' = link /\ b \in held' \cup lost'
    BY <1>4 DEF OtherAdds, OtherRemoves
  <2>3. /\ \A c \in Addresses \ {b} : SameOfAddress(queue, queue', c)
        /\ \A i \in Interfaces : SameOfLink(queue, queue', i)
    BY <1>0, <2>1, AddressReported
  <2> QED
    BY <1>d, <2>2, <2>3 DEF SameOfAddress, SameOfLink
<1>5. ASSUME NEW b \in Addresses, LeaseReported(b)
      PROVE  /\ None(queue, Reports(a)) => None(queue', Reports(a))
             /\ link'[j] = link[j]
             /\ None(queue', Creation(j, link[j])) => None(queue, Creation(j, link[j]))
  <2>1. PICK op \in {"preinit", "bound", "lost"} :
            queue' = Append(queue, LeaseEvent(op, InterfaceOf[b], b))
    BY <1>5 DEF LeaseReported
  <2>2. link' = link
    BY <1>5 DEF LeaseReported, kernel
  <2>3. /\ \A c \in Addresses : SameOfAddress(queue, queue', c)
        /\ \A i \in Interfaces : SameOfLink(queue, queue', i)
    BY <1>0, <1>b, <2>1, LeaseReportedSame
  <2> QED
    BY <1>d, <2>2, <2>3 DEF SameOfAddress, SameOfLink
<1> QED
  BY <1>1, <1>2, <1>3, <1>4, <1>5

(* An interface that exists and that the provider does not know as it is will be
   reported. *)
LEMMA CreationComes ==
    ASSUME TypeOK, TellInv, NEW i \in Interfaces, link[i] # NoIndex, interfaces[i] # link[i]
    PROVE  ~None(queue, Creation(i, link[i]))
<1>1. Told(queue, AboutLink(i), Creation(i, link[i]), interfaces[i] = link[i])
  BY DEF TellInv, LinkTold
<1>2. queue \in Seq(Events)
  BY DEF TypeOK
<1>3. ~None(queue, AboutLink(i)) /\ Ends(queue, AboutLink(i), Creation(i, link[i]))
  BY <1>1 DEF Told
<1>4. \E k \in 1..Len(queue) : queue[k] \in AboutLink(i) /\ queue[k] \in Creation(i, link[i])
  BY <1>2, <1>3, LastIsTold
<1> QED
  BY <1>4 DEF None

LEMMA UnreportedIs ==
    ASSUME TypeOK, NEW a \in Addresses
    PROVE  Unreported(a) <=> ~None(queue, Reports(a))
<1>1. \A n \in 1..Len(queue) : queue[n] \in Events
  BY DEF TypeOK
<1> QED
  BY <1>1 DEF Unreported, None, Reports, AboutAddress

(* apply() on the way, of an entity that saw nothing: the address is there then,
   or its entity has no index. *)
LEMMA ApplyingComes ==
    ASSUME TypeOK, NEW a \in Addresses, NEW e \in Entities, Apply(a, e, queue),
           ~e.seen, e.config # NoConfig, a \notin held'
    PROVE  /\ a \notin held /\ queue' = queue
           /\ entity'[a].index = NoIndex /\ ~entity'[a].seen
           /\ e.index = NoIndex \/ e.index # link[InterfaceOf[a]]
<1>1. a \notin held /\ queue' = queue
  BY ApplyTold DEF TypeOK
<1>2. Calls(a, e) \in {"none", "nodevice"}
  BY <1>1 DEF Apply, Calls
<1>3. e.index = NoIndex \/ (Calls(a, e) = "nodevice" /\ e.index # link[InterfaceOf[a]])
  BY <1>1, <1>2 DEF Calls, Addable
<1>4. Applied(a, e) = [e EXCEPT !.index = NoIndex, !.state = "nointerface"]
  BY <1>3 DEF Applied
<1>5. entity'[a] = Applied(a, e)
  BY DEF Apply, TypeOK
<1>6. entity'[a].index = NoIndex /\ entity'[a].seen = e.seen
  BY <1>4, <1>5 DEF Entities
<1> QED
  BY <1>1, <1>3, <1>6

LEMMA RemoveAddressComes ==
    ASSUME IInv, ComeInv, NEW a \in Addresses, RemoveAddress(a)
    PROVE  ComeInv'
<1>0. /\ TypeOK /\ Loops
      /\ queue \in Seq(Events) /\ entity \in [Addresses -> Entities \cup {NoEntity}]
  BY DEF IInv, TypeOK
<1> DEFINE e == entity[a]
           gone == e.seen /\ Removable(a, e)
<1>1. /\ Removing /\ a \in todo
      /\ entity' = [entity EXCEPT ![a] = [e EXCEPT !.config = NoConfig]]
      /\ hasty' = IF e.seen THEN hasty ELSE hasty \cup {a}
      /\ gone => held' = held \ {a} /\ queue' = Append(queue, AddressEvent("deladdr", a))
      /\ ~gone => held' = held /\ queue' = queue
      /\ UNCHANGED <<link, interfaces, lost>>
      /\ stuck => stuck'
  BY DEF RemoveAddress, ConfigRemoved, HandlerRaises, RollBack, Reached
<1>2. e \in Entities
  BY <1>0, <1>1 DEF Loops, HasConfig
<1>3. entity'[a].config = NoConfig /\ entity'[a].seen = e.seen
  BY <1>0, <1>1, <1>2 DEF Entities
<1> HIDE DEF gone
<1>4. QuietAt(a)' /\ AwaitedAt(a)' /\ ForgottenAt(a)'
  BY <1>1, <1>3 DEF QuietAt, AwaitedAt, ForgottenAt, Coming, HasConfig
<1>5. ASSUME NEW b \in Addresses \ {a}
      PROVE  QuietAt(b)' /\ AwaitedAt(b)' /\ ForgottenAt(b)'
  <2>1. /\ SameOfAddress(queue, queue', b)
        /\ SameOfLink(queue, queue', InterfaceOf[b])
    <3>1. CASE gone
      BY <1>0, <1>1, <3>1, AddressReported, InterfacesAssumption
    <3>2. CASE ~gone
      BY <1>1, <3>2, QueueSame, InterfacesAssumption
    <3> QED
      BY <3>1, <3>2
  <2>2. entity'[b] = entity[b] /\ (b \in held' <=> b \in held) /\ hasty \subseteq hasty'
    BY <1>0, <1>1
  <2>3. task # "linkup"
    BY <1>1 DEF Removing
  <2> QED
    BY <1>1, <2>1, <2>2, <2>3, ComesSame DEF SameOfAddress, SameOfLink
<1> QED
  BY <1>4, <1>5 DEF ComeInv

LEMMA UpdateAddressComes ==
    ASSUME IInv, TellInv, ComeInv, NEW a \in Addresses, UpdateAddress(a)
    PROVE  ComeInv'
<1>0. /\ TypeOK /\ Loops
      /\ queue \in Seq(Events) /\ entity \in [Addresses -> Entities \cup {NoEntity}]
      /\ interfaces \in [Interfaces -> Nat] /\ data \in Configurations
  BY DEF IInv, TypeOK
<1> DEFINE e == IF entity[a] = NoEntity THEN New(data[a], interfaces[InterfaceOf[a]])
                                        ELSE [entity[a] EXCEPT !.config = data[a]]
           i == InterfaceOf[a]
<1>1. /\ Updating /\ a \in todo /\ Apply(a, e, queue)
      /\ hasty' = IF a \notin held /\ (e.seen \/ Unreported(a)) THEN hasty \cup {a} ELSE hasty
      /\ UNCHANGED <<link, interfaces, lost>>
      /\ stuck => stuck'
  BY DEF UpdateAddress, HandlerRaises, RollBack, Reached
<1>2. data[a] \in AddressConfigs /\ data[a] # NoConfig /\ i \in Interfaces /\ task # "linkup"
  BY <1>0, <1>1, SentinelsAssumption, InterfacesAssumption DEF Loops, Configurations, Updating
<1>3. /\ e \in Entities /\ e.config = data[a]
      /\ entity[a] = NoEntity => e.index = interfaces[i]
      /\ entity[a] # NoEntity => entity[a] \in Entities /\ e.seen = entity[a].seen
  <2>1. CASE entity[a] = NoEntity
    <3>1. New(data[a], interfaces[i]) \in Entities
      BY <1>0, <1>2, NewFacts
    <3> QED
      BY <2>1, <3>1 DEF New
  <2>2. CASE entity[a] # NoEntity
    <3>1. entity[a] \in Entities
      BY <1>0, <2>2
    <3>2. e = [entity[a] EXCEPT !.config = data[a]]
      BY <2>2
    <3> QED
      BY <1>2, <2>2, <3>1, <3>2 DEF Entities
  <2> QED
    BY <2>1, <2>2
<1> HIDE DEF e
<1>4. entity'[a].config # NoConfig
  <2>1. entity'[a].config = e.config
    BY <1>0, <1>1, <1>3, ApplyFacts
  <2> QED
    BY <1>2, <1>3, <2>1
<1>5. ASSUME Coming(a)'
      PROVE  /\ ~entity'[a].seen /\ entity'[a].index = NoIndex /\ None(queue', Reports(a))
             /\ ~stuck' /\ link[i] # NoIndex => ~None(queue', Creation(i, link[i]))
  <2>1. a \notin held' /\ a \notin lost /\ a \notin hasty'
    BY <1>1, <1>5 DEF Coming
  <2>2. a \notin held /\ queue' = queue
    BY <1>0, <1>1, <1>3, <2>1, ApplyTold
  <2>3. ~e.seen /\ None(queue, Reports(a)) /\ a \notin hasty
    BY <1>0, <1>1, <1>3, <2>1, <2>2, UnreportedIs DEF Entities
  <2>4. /\ entity'[a].index = NoIndex /\ ~entity'[a].seen
        /\ e.index = NoIndex \/ e.index # link[i]
    BY <1>0, <1>1, <1>2, <1>3, <2>1, <2>3, ApplyingComes
  <2>5. ASSUME ~stuck', link[i] # NoIndex
        PROVE  ~None(queue, Creation(i, link[i]))
    <3>1. CASE entity[a] = NoEntity
      BY <1>0, <1>2, <1>3, <2>4, <2>5, <3>1, CreationComes
    <3>2. CASE entity[a] # NoEntity
      <4>1. QuietAt(a) /\ AwaitedAt(a) /\ ForgottenAt(a)
        BY DEF ComeInv
      <4>2. ~entity[a].seen
        BY <1>3, <2>3, <3>2
      <4>3. HasConfig(entity[a])
        BY <2>3, <3>2, <4>1, <4>2 DEF ForgottenAt, HasConfig
      <4>4. Coming(a)
        BY <2>1, <2>2, <2>3, <4>3 DEF Coming
      <4> QED
        BY <1>1, <1>2, <2>5, <4>1, <4>4 DEF AwaitedAt
    <3> QED
      BY <3>1, <3>2
  <2> QED
    BY <2>2, <2>3, <2>4, <2>5
<1>6. QuietAt(a)' /\ AwaitedAt(a)' /\ ForgottenAt(a)'
  BY <1>1, <1>4, <1>5 DEF QuietAt, AwaitedAt, ForgottenAt
<1>7. ASSUME NEW b \in Addresses \ {a}
      PROVE  QuietAt(b)' /\ AwaitedAt(b)' /\ ForgottenAt(b)'
  <2>1. /\ SameOfAddress(queue, queue', b) /\ SameOfLink(queue, queue', InterfaceOf[b])
        /\ b \in held' <=> b \in held
    BY <1>0, <1>1, <1>3, ApplyTold, InterfacesAssumption
  <2>2. entity'[b] = entity[b] /\ hasty \subseteq hasty'
    BY <1>0, <1>1 DEF Apply
  <2> QED
    BY <1>1, <1>2, <2>1, <2>2, ComesSame DEF SameOfAddress, SameOfLink
<1> QED
  BY <1>6, <1>7 DEF ComeInv

LEMMA SetIndexComes ==
    ASSUME IInv, ComeInv, NEW a \in Addresses, SetIndex(a)
    PROVE  ComeInv'
<1>0. /\ TypeOK /\ Loops
      /\ queue \in Seq(Events) /\ entity \in [Addresses -> Entities \cup {NoEntity}]
      /\ interfaces \in [Interfaces -> Nat]
  BY DEF IInv, TypeOK
<1> DEFINE e == [entity[a] EXCEPT !.index = interfaces[InterfaceOf[a]]]
           i == InterfaceOf[a]
<1>1. /\ task = "linkup" /\ a \in todo /\ Apply(a, e, queue)
      /\ ~stuck' => ~stuck /\ todo' = todo \ {a}
      /\ task' = IF todo' = {} THEN "idle" ELSE task
      /\ UNCHANGED <<link, interfaces, lost, hasty>>
  BY DEF SetIndex
<1>2. /\ entity[a] \in Entities /\ e \in Entities
      /\ e.config = entity[a].config /\ e.seen = entity[a].seen /\ e.index = interfaces[i]
  <2>1. entity[a] \in Entities /\ interfaces[i] \in Nat
    BY <1>0, <1>1, InterfacesAssumption DEF Loops
  <2> QED
    BY <2>1 DEF Entities
<1> HIDE DEF e
<1>3. QuietAt(a) /\ AwaitedAt(a) /\ ForgottenAt(a)
  BY DEF ComeInv
<1>4. entity'[a].config = e.config /\ entity'[a] # NoEntity
  BY <1>0, <1>1, <1>2, ApplyFacts, SentinelsAssumption
<1>5. ASSUME Coming(a)'
      PROVE  /\ ~entity'[a].seen /\ entity'[a].index = NoIndex /\ None(queue', Reports(a))
             /\ ~stuck' /\ link[i] # NoIndex => ~None(queue', Creation(i, link[i]))
  <2>1. a \notin held' /\ a \notin lost /\ a \notin hasty /\ e.config # NoConfig
    BY <1>1, <1>4, <1>5 DEF Coming, HasConfig
  <2>2. a \notin held /\ queue' = queue
    BY <1>0, <1>1, <1>2, <2>1, ApplyTold
  <2>3. HasConfig(entity[a])
    BY <1>2, <2>1, SentinelsAssumption DEF HasConfig
  <2>4. Coming(a) /\ ~entity[a].seen /\ None(queue, Reports(a))
    BY <1>3, <2>1, <2>2, <2>3 DEF Coming, QuietAt
  <2>5. /\ entity'[a].index = NoIndex /\ ~entity'[a].seen
        /\ e.index = NoIndex \/ e.index # link[i]
    BY <1>0, <1>1, <1>2, <2>1, <2>4, ApplyingComes
  <2> QED
    BY <1>1, <1>2, <1>3, <2>2, <2>4, <2>5 DEF AwaitedAt
<1>6. ForgottenAt(a)'
  <2>1. CASE entity[a].config = NoConfig
    <3>1. entity'[a] = Applied(a, e)
      BY <1>0, <1>1 DEF Apply
    <3>2. Applied(a, e) = e
      BY <1>2, <2>1 DEF Applied
    <3> QED
      BY <1>1, <1>2, <1>3, <3>1, <3>2, SentinelsAssumption DEF ForgottenAt
  <2>2. CASE entity[a].config # NoConfig
    BY <1>2, <1>4, <2>2 DEF ForgottenAt
  <2> QED
    BY <2>1, <2>2
<1>7. QuietAt(a)' /\ AwaitedAt(a)' /\ ForgottenAt(a)'
  BY <1>1, <1>5, <1>6 DEF QuietAt, AwaitedAt
<1>8. ASSUME NEW b \in Addresses \ {a}
      PROVE  QuietAt(b)' /\ AwaitedAt(b)' /\ ForgottenAt(b)'
  <2>1. /\ SameOfAddress(queue, queue', b) /\ SameOfLink(queue, queue', InterfaceOf[b])
        /\ b \in held' <=> b \in held
    BY <1>0, <1>1, <1>2, ApplyTold, InterfacesAssumption
  <2>2. entity'[b] = entity[b]
    BY <1>0, <1>1 DEF Apply
  <2>3. ~stuck' /\ b \in todo => task' = "linkup" /\ b \in todo'
    BY <1>1
  <2>4. stuck => stuck'
    BY DEF SetIndex
  <2> QED
    BY <1>1, <2>1, <2>2, <2>3, <2>4, ComesSame DEF SameOfAddress, SameOfLink
<1> QED
  BY <1>7, <1>8 DEF ComeInv

(* The first event was handled and is gone. *)
LEMMA TakenSame ==
    ASSUME TypeOK, queue # <<>>, NEW q, q = Tail(queue)
    PROVE  /\ \A M : None(queue, M) => None(q, M)
           /\ \A M : Head(queue) \notin M => (None(q, M) <=> None(queue, M))
<1> QED
  BY NoneTaken DEF TypeOK

LEMMA HandleAddressAddComes ==
    ASSUME TypeOK, Loops, ComeInv, HandleAddressAdd
    PROVE  ComeInv'
<1> DEFINE event == Head(queue)
<1>0. /\ task = "idle" /\ queue # <<>> /\ event.op = "newaddr"
      /\ queue \in Seq(Events) /\ event \in Events
      /\ entity \in [Addresses -> Entities \cup {NoEntity}]
  BY TailIndices DEF HandleAddressAdd, Handle, Idle, TypeOK
<1>3. PICK a \in Addresses : a = event.address
  BY <1>0, EventFields
<1> DEFINE e == IF entity[a] = NoEntity THEN New(NoConfig, NoIndex) ELSE entity[a]
           new == [e EXCEPT !.seen = TRUE, !.state = "present"]
<1>1. /\ queue' = Tail(queue)
      /\ entity' = [entity EXCEPT ![a] = new]
      /\ UNCHANGED <<link, held, interfaces, lost, hasty, stuck>>
  BY <1>3 DEF HandleAddressAdd, kernel, history
<1>2. /\ task = "idle" /\ queue # <<>> /\ event.op = "newaddr"
      /\ queue \in Seq(Events) /\ event \in Events
      /\ entity \in [Addresses -> Entities \cup {NoEntity}]
  BY <1>0
<1>4. e \in Entities /\ (HasConfig(entity[a]) => e = entity[a])
  BY <1>2, <1>3, NewFacts DEF NoIndex, HasConfig
<1>5. event \in Reports(a) /\ \A i \in Interfaces : \A n : event \notin Creation(i, n)
  BY <1>2, <1>3 DEF Reports, AboutAddress, Creation
<1> HIDE DEF e
<1>6. /\ new.seen = TRUE /\ new.config = e.config
      /\ entity'[a] = new /\ \A b \in Addresses \ {a} : entity'[b] = entity[b]
  BY <1>1, <1>2, <1>3, <1>4 DEF Entities
<1> HIDE DEF new, event
<1>7. ~None(queue, Reports(a))
  BY <1>1, <1>2, <1>5, NoneTaken DEF event
<1>8. ~Coming(a)'
  <2>1. SUFFICES ASSUME Coming(a)'
                 PROVE  FALSE
    OBVIOUS
  <2>2. QuietAt(a) /\ a \notin held \cup lost \cup hasty
    BY <1>1, <2>1 DEF ComeInv, Coming
  <2>3. ~HasConfig(entity[a])
    BY <1>7, <2>2 DEF QuietAt, Coming
  <2>4. new.config # NoConfig
    BY <1>6, <2>1 DEF Coming, HasConfig
  <2>5. e.config # NoConfig
    BY <1>6, <2>4
  <2>6. entity[a] # NoEntity
    BY <1>4, <2>5 DEF e, New
  <2>7. entity[a].config # NoConfig
    BY <2>5, <2>6 DEF e
  <2> QED
    BY <2>3, <2>6, <2>7 DEF HasConfig
<1>9. QuietAt(a)' /\ AwaitedAt(a)' /\ ForgottenAt(a)'
  BY <1>6, <1>8 DEF QuietAt, AwaitedAt, ForgottenAt
<1>10. ASSUME NEW b \in Addresses \ {a}
       PROVE  QuietAt(b)' /\ AwaitedAt(b)' /\ ForgottenAt(b)'
  <2>1. InterfaceOf[b] \in Interfaces
    BY InterfacesAssumption
  <2>2. /\ None(queue, Reports(b)) => None(queue', Reports(b))
        /\ None(queue', Creation(InterfaceOf[b], link[InterfaceOf[b]]))
              => None(queue, Creation(InterfaceOf[b], link[InterfaceOf[b]]))
    BY <1>1, <1>2, <1>5, <2>1, TakenSame DEF event
  <2>3. entity'[b] = entity[b]
    BY <1>6
  <2> QED
    BY <1>1, <1>2, <2>2, <2>3, ComesSame
<1> QED
  BY <1>9, <1>10 DEF ComeInv

LEMMA HandleAddressRemoveComes ==
    ASSUME TypeOK, Loops, ComeInv, HandleAddressRemove
    PROVE  ComeInv'
<1> DEFINE event == Head(queue)
           rest == Tail(queue)
<1>1. /\ task = "idle" /\ queue # <<>> /\ event.op = "deladdr"
      /\ UNCHANGED <<link, interfaces, lost, hasty, stuck>>
  BY DEF HandleAddressRemove, Handle, Idle
<1>2. /\ queue \in Seq(Events) /\ event \in Events /\ rest \in Seq(Events)
      /\ entity \in [Addresses -> Entities \cup {NoEntity}]
  BY <1>1, TailIndices DEF TypeOK
<1>3. PICK a \in Addresses : a = event.address
  BY <1>1, <1>2, EventFields
<1> DEFINE e == [entity[a] EXCEPT !.state = "missing"]
<1>4. event \in Reports(a) /\ \A i \in Interfaces : \A n : event \notin Creation(i, n)
  BY <1>1, <1>2, <1>3 DEF Reports, AboutAddress, Creation
<1>5. \/ HasConfig(entity[a]) /\ Apply(a, e, rest)
      \/ /\ ~HasConfig(entity[a])
         /\ entity' = [entity EXCEPT ![a] = NoEntity] /\ queue' = rest /\ held' = held
  BY <1>3 DEF HandleAddressRemove
<1>6. HasConfig(entity[a]) => e \in Entities /\ e.config # NoConfig
  BY <1>2, <1>3 DEF HasConfig, Entities
<1> HIDE DEF e
<1>7. \A b \in Addresses \ {a} : entity'[b] = entity[b]
  BY <1>2, <1>3, <1>5 DEF Apply
<1>8. /\ held \subseteq held'
      /\ \A b \in Addresses \ {a} : SameOfAddress(rest, queue', b)
      /\ \A i \in Interfaces : SameOfLink(rest, queue', i)
  <2>1. CASE HasConfig(entity[a])
    <3>1. Apply(a, e, rest) /\ e \in Entities
      BY <1>5, <1>6, <2>1
    <3> HIDE DEF rest, event
    <3>2. held \subseteq held'
      BY <3>1 DEF Apply
    <3> QED
      BY <1>2, <1>3, <3>1, <3>2, ApplyTold
  <2>2. CASE ~HasConfig(entity[a])
    <3>1. queue' = rest /\ held' = held
      BY <1>5, <2>2
    <3> QED
      BY <3>1 DEF SameOfAddress, SameOfLink, AddressTold, Told
  <2> QED
    BY <2>1, <2>2
<1>9. rest = Tail(queue)
  OBVIOUS
<1> HIDE DEF event, rest
<1>10. ~None(queue, Reports(a))
  BY <1>1, <1>2, <1>4, NoneTaken DEF event
<1>11. ~Coming(a)'
  <2>1. SUFFICES ASSUME Coming(a)'
                 PROVE  FALSE
    OBVIOUS
  <2>2. CASE HasConfig(entity[a])
    <3>1. a \notin held \cup lost \cup hasty
      BY <1>1, <1>8, <2>1 DEF Coming
    <3>2. QuietAt(a)
      BY <1>3 DEF ComeInv
    <3> QED
      BY <1>10, <2>2, <3>1, <3>2 DEF QuietAt, Coming
  <2>3. CASE ~HasConfig(entity[a])
    BY <1>2, <1>3, <1>5, <2>1, <2>3 DEF Coming, HasConfig
  <2> QED
    BY <2>2, <2>3
<1>12. ForgottenAt(a)'
  <2>1. CASE HasConfig(entity[a])
    <3>1. Apply(a, e, rest) /\ e \in Entities /\ e.config # NoConfig
      BY <1>5, <1>6, <2>1
    <3>2. entity'[a].config # NoConfig
      BY <1>2, <1>3, <3>1, ApplyFacts
    <3> QED
      BY <3>2 DEF ForgottenAt
  <2>2. CASE ~HasConfig(entity[a])
    <3>1. entity'[a] = NoEntity
      BY <1>2, <1>3, <1>5, <2>2
    <3> QED
      BY <3>1 DEF ForgottenAt
  <2> QED
    BY <2>1, <2>2
<1>13. QuietAt(a)' /\ AwaitedAt(a)'
  BY <1>11 DEF QuietAt, AwaitedAt
<1>14. ASSUME NEW b \in Addresses \ {a}
       PROVE  QuietAt(b)' /\ AwaitedAt(b)' /\ ForgottenAt(b)'
  <2>1. InterfaceOf[b] \in Interfaces
    BY InterfacesAssumption
  <2>2. /\ None(queue, Reports(b)) => None(rest, Reports(b))
        /\ None(rest, Creation(InterfaceOf[b], link[InterfaceOf[b]]))
              => None(queue, Creation(InterfaceOf[b], link[InterfaceOf[b]]))
    BY <1>1, <1>4, <1>9, <2>1, TakenSame DEF event
  <2>3. /\ None(queue, Reports(b)) => None(queue', Reports(b))
        /\ None(queue', Creation(InterfaceOf[b], link[InterfaceOf[b]]))
              => None(queue, Creation(InterfaceOf[b], link[InterfaceOf[b]]))
    BY <1>8, <2>1, <2>2 DEF SameOfAddress, SameOfLink
  <2>4. entity'[b] = entity[b] /\ b \in held => b \in held'
    BY <1>7, <1>8
  <2> QED
    BY <1>1, <1>7, <1>8, <2>3, <2>4, ComesSame
<1> QED
  BY <1>12, <1>13, <1>14 DEF ComeInv

LEMMA HandleInterfacesComes ==
    ASSUME TypeOK, Loops, ComeInv, HandleInterfaceAdd \/ HandleInterfaceRemove
    PROVE  ComeInv'
<1> DEFINE event == Head(queue)
           j == event.interface
<1>1. /\ task = "idle" /\ queue # <<>> /\ event.op \in {"newlink", "dellink"}
      /\ queue' = Tail(queue)
      /\ UNCHANGED <<link, held, lost, hasty, stuck>>
  BY DEF HandleInterfaceAdd, HandleInterfaceRemove, Handle, Idle, kernel, history
<1>2. /\ queue \in Seq(Events) /\ event \in Events
      /\ entity \in [Addresses -> Entities \cup {NoEntity}]
      /\ interfaces \in [Interfaces -> Nat]
  BY <1>1, TailIndices DEF TypeOK
<1>3. j \in Interfaces
  BY <1>1, <1>2, EventFields
<1>4. SUFFICES ASSUME NEW a \in Addresses
               PROVE  QuietAt(a)' /\ AwaitedAt(a)' /\ ForgottenAt(a)'
  BY DEF ComeInv
<1> DEFINE i == InterfaceOf[a]
<1>5. i \in Interfaces
  BY InterfacesAssumption
<1>6. entity[a] # NoEntity => entity[a] \in Entities
  BY <1>2
<1>7. event \notin Reports(a)
  BY <1>1 DEF Reports, AboutAddress
<1>8. None(queue, Reports(a)) => None(queue', Reports(a))
  BY <1>1, TakenSame
<1>9. event \notin Creation(i, link[i]) =>
         (None(queue', Creation(i, link[i])) => None(queue, Creation(i, link[i])))
  BY <1>1, TakenSame
<1>10. CASE HandleInterfaceAdd
  <2>1. /\ interfaces' = [interfaces EXCEPT ![j] = event.index]
        /\ todo' = Known(j)
        /\ task' = IF todo' = {} THEN "idle" ELSE "linkup"
        /\ entity' = entity
    BY <1>10 DEF HandleInterfaceAdd
  <2>2. event \in Creation(i, link[i]) /\ HasConfig(entity[a])
        => task' = "linkup" /\ a \in todo' /\ interfaces'[i] = link[i]
    <3>1. SUFFICES ASSUME event \in Creation(i, link[i]), HasConfig(entity[a])
                   PROVE  task' = "linkup" /\ a \in todo' /\ interfaces'[i] = link[i]
      OBVIOUS
    <3>2. j = i /\ event.index = link[i]
      BY <3>1 DEF Creation
    <3>3. a \in todo'
      BY <2>1, <3>1, <3>2 DEF Known, OfInterface, HasConfig
    <3> QED
      BY <1>2, <1>5, <2>1, <3>2, <3>3
  <2> HIDE DEF event
  <2> QED
    BY <1>1, <1>8, <1>9, <2>1, <2>2, ComesSame
<1>11. CASE HandleInterfaceRemove
  <2>1. /\ event.op = "dellink" /\ UNCHANGED <<task, todo>>
        /\ entity'[a] = IF a \in Known(j) THEN Unlinked(entity[a]) ELSE entity[a]
    BY <1>11 DEF HandleInterfaceRemove, Handle
  <2>2. event \notin Creation(i, link[i])
    BY <2>1 DEF Creation
  <2>3. entity'[a] # NoEntity => /\ entity[a] # NoEntity
                                 /\ entity'[a].seen = entity[a].seen
                                 /\ entity'[a].config = entity[a].config
                                 /\ entity'[a].index \in {entity[a].index, NoIndex}
    <3>1. CASE a \in Known(j)
      <4>1. entity[a] # NoEntity /\ entity[a] \in Entities
        BY <1>6, <3>1 DEF Known
      <4>2. entity'[a] = Unlinked(entity[a])
        BY <2>1, <3>1
      <4>3. /\ Unlinked(entity[a]).seen = entity[a].seen
            /\ Unlinked(entity[a]).config = entity[a].config
            /\ Unlinked(entity[a]).index = NoIndex
        BY <4>1 DEF Unlinked, Entities
      <4> QED
        BY <4>1, <4>2, <4>3
    <3>2. CASE a \notin Known(j)
      BY <2>1, <3>2
    <3> QED
      BY <3>1, <3>2
  <2> HIDE DEF event
  <2> QED
    BY <1>1, <1>8, <1>9, <2>1, <2>2, <2>3, ComesSame
<1> QED
  BY <1>10, <1>11

LEMMA HandleLeasesComes ==
    ASSUME TypeOK, Loops, ComeInv, HandlePreinit \/ HandleAcquired \/ HandleLost
    PROVE  ComeInv'
<1> DEFINE event == Head(queue)
           rest == Tail(queue)
           b == event.address
<1>1. /\ task = "idle" /\ queue # <<>> /\ event.op \in {"preinit", "bound", "lost"}
      /\ UNCHANGED <<link, interfaces, entity, lost, hasty, stuck, task>>
      /\ held \subseteq held'
      /\ \/ queue' = rest
         \/ b \in held' /\ queue' = Append(rest, AddressEvent("newaddr", b))
  BY DEF HandlePreinit, HandleAcquired, HandleLost, Handle, Idle, kernel, provider, history
<1>2. queue \in Seq(Events) /\ event \in Events /\ rest \in Seq(Events) /\ rest = Tail(queue)
  BY <1>1, TailIndices DEF TypeOK
<1>3. b \in Addresses
  BY <1>1, <1>2, EventFields
<1>4. /\ \A a \in Addresses : event \notin Reports(a)
      /\ \A i \in Interfaces : \A n : event \notin Creation(i, n)
  BY <1>1 DEF Reports, AboutAddress, Creation
<1>5. ASSUME NEW a \in Addresses
      PROVE  QuietAt(a)' /\ AwaitedAt(a)' /\ ForgottenAt(a)'
  <2> DEFINE i == InterfaceOf[a]
  <2>1. i \in Interfaces
    BY InterfacesAssumption
  <2>2. /\ None(queue, Reports(a)) => None(rest, Reports(a))
        /\ None(rest, Creation(i, link[i])) => None(queue, Creation(i, link[i]))
    BY <1>1, <1>2, <1>4, <2>1, TakenSame
  <2>3. CASE a \in held'
    <3>1. ForgottenAt(a)
      BY DEF ComeInv
    <3> QED
      BY <1>1, <2>3, <3>1 DEF QuietAt, AwaitedAt, ForgottenAt, Coming
  <2>4. CASE a \notin held'
    <3>1. SameOfAddress(rest, queue', a) /\ SameOfLink(rest, queue', i)
      <4>1. CASE queue' = rest
        BY <4>1 DEF SameOfAddress, SameOfLink, AddressTold, Told
      <4>2. CASE b \in held' /\ queue' = Append(rest, AddressEvent("newaddr", b))
        <5> HIDE DEF b, rest
        <5> QED
          BY <1>2, <1>3, <2>1, <2>4, <4>2, AddressReported
      <4> QED
        BY <1>1, <4>1, <4>2
    <3>2. /\ None(queue, Reports(a)) => None(queue', Reports(a))
          /\ None(queue', Creation(i, link[i])) => None(queue, Creation(i, link[i]))
      BY <2>1, <2>2, <3>1 DEF SameOfAddress, SameOfLink
    <3> HIDE DEF b, rest, event
    <3> QED
      BY <1>1, <2>4, <3>2, ComesSame
  <2> QED
    BY <2>3, <2>4
<1> QED
  BY <1>5 DEF ComeInv

LEMMA HandlersComes ==
    ASSUME TypeOK, Loops, ComeInv,
           \/ HandleAddressAdd \/ HandleAddressRemove
           \/ HandleInterfaceAdd \/ HandleInterfaceRemove
           \/ HandlePreinit \/ HandleAcquired \/ HandleLost
    PROVE  ComeInv'
<1> QED
  BY HandleAddressAddComes, HandleAddressRemoveComes, HandleInterfacesComes, HandleLeasesComes

LEMMA NextComes == IInv /\ TellInv /\ ComeInv /\ [Next]_vars => ComeInv'
<1> SUFFICES ASSUME IInv, TellInv, ComeInv, [Next]_vars
             PROVE  ComeInv'
  OBVIOUS
<1>0. TypeOK /\ Loops
  BY DEF IInv
<1>1. ASSUME \/ \E d \in Configurations : Commit(d)
             \/ BeginUpdate \/ CommitSucceeds \/ OthersFail \/ RolledBack
      PROVE  ComeInv'
  <2>1. /\ UNCHANGED <<link, held, queue, interfaces, entity, lost, hasty, stuck>>
        /\ task # "linkup"
    BY <1>1 DEF Commit, BeginUpdate, CommitSucceeds, OthersFail, RolledBack, RollBack,
       Idle, Removing, kernel, provider, history
  <2>2. ASSUME NEW a \in Addresses
        PROVE  QuietAt(a)' /\ AwaitedAt(a)' /\ ForgottenAt(a)'
    BY <2>1, ComesSame
  <2> QED
    BY <2>2 DEF ComeInv
<1>2. CASE Others
  BY <1>0, <1>1, <1>2, OutsideComes DEF Others
<1>3. CASE Agent
  BY <1>0, <1>1, <1>3, RemoveAddressComes, UpdateAddressComes, SetIndexComes, HandlersComes
     DEF Agent
<1>4. CASE UNCHANGED vars
  BY <1>4 DEF vars, kernel, provider, history, ComeInv, QuietAt, AwaitedAt, ForgottenAt, Coming
<1> QED
  BY <1>2, <1>3, <1>4 DEF Next

(* The loop that updates leaves every address it reached with a configuration. *)
LEMMA ConfigUpdated ==
    ASSUME TypeOK, Loops, NEW a \in Addresses, UpdateAddress(a)
    PROVE  HasConfig(entity'[a])
<1> DEFINE e == IF entity[a] = NoEntity THEN New(data[a], interfaces[InterfaceOf[a]])
                                        ELSE [entity[a] EXCEPT !.config = data[a]]
<1>1. Updating /\ a \in todo /\ Apply(a, e, queue) /\ queue \in Seq(Events)
  BY DEF UpdateAddress, TypeOK
<1>2. data[a] \in AddressConfigs /\ interfaces[InterfaceOf[a]] \in Nat
  BY <1>1, InterfacesAssumption DEF Loops, Configurations, TypeOK
<1>3. e \in Entities /\ e.config = data[a]
  <2>1. CASE entity[a] = NoEntity
    BY <1>2, <2>1, NewFacts
  <2>2. CASE entity[a] # NoEntity
    <3>1. entity[a] \in Entities
      BY <2>2 DEF TypeOK
    <3>2. e = [entity[a] EXCEPT !.config = data[a]]
      BY <2>2
    <3> QED
      BY <1>2, <3>1, <3>2 DEF Entities
  <2> QED
    BY <2>1, <2>2
<1> HIDE DEF e
<1>4. entity'[a] \in Entities /\ entity'[a].config = data[a]
  BY <1>1, <1>3, ApplyFacts
<1> QED
  BY <1>2, <1>4, SentinelsAssumption DEF HasConfig

(* An entity loses its configuration only in the loop that removes. *)
LEMMA ConfigsHandled ==
    ASSUME IInv, NEW a \in Addresses, HasConfig(entity[a]),
           \/ HandleAddressAdd \/ HandleAddressRemove
           \/ HandleInterfaceAdd \/ HandleInterfaceRemove
           \/ HandlePreinit \/ HandleAcquired \/ HandleLost
           \/ \E b \in Addresses : SetIndex(b) \/ UpdateAddress(b)
    PROVE  HasConfig(entity'[a])
<1>0. /\ TypeOK /\ Loops
      /\ entity \in [Addresses -> Entities \cup {NoEntity}]
      /\ entity[a] \in Entities
  BY DEF IInv, TypeOK, HasConfig
<1>1. ASSUME NEW b \in Addresses, NEW e \in Entities, NEW q \in Seq(Events), Apply(b, e, q),
             b = a => e.config # NoConfig
      PROVE  HasConfig(entity'[a])
  <2>1. /\ entity'[b] \in Entities /\ entity'[b].config = e.config
        /\ b # a => entity'[a] = entity[a]
    BY <1>0, <1>1, ApplyFacts
  <2> QED
    BY <1>1, <2>1, SentinelsAssumption DEF HasConfig
<1>2. CASE HandleAddressAdd
  <2>1. PICK b : entity' = [entity EXCEPT ![b] =
                    [(IF entity[b] = NoEntity THEN New(NoConfig, NoIndex) ELSE entity[b])
                        EXCEPT !.seen = TRUE, !.state = "present"]]
    BY <1>2 DEF HandleAddressAdd
  <2>2. CASE b = a
    <3>1. entity'[a] = [entity[a] EXCEPT !.seen = TRUE, !.state = "present"]
      BY <1>0, <2>1, <2>2 DEF HasConfig
    <3>2. entity'[a] \in Entities /\ entity'[a].config = entity[a].config
      BY <1>0, <3>1 DEF Entities
    <3> QED
      BY <3>2, SentinelsAssumption DEF HasConfig
  <2>3. CASE b # a
    BY <1>0, <2>1, <2>3
  <2> QED
    BY <2>2, <2>3
<1>3. CASE HandleAddressRemove
  <2>1. queue # <<>> /\ queue \in Seq(Events) /\ Head(queue).op = "deladdr"
    BY <1>0, <1>3 DEF HandleAddressRemove, Handle, TypeOK
  <2>2. Head(queue) \in Events /\ Tail(queue) \in Seq(Events)
    BY <2>1, TailIndices
  <2>3. PICK b \in Addresses : b = Head(queue).address
    BY <2>1, <2>2, EventFields
  <2>4. CASE HasConfig(entity[b])
    <3> DEFINE e == [entity[b] EXCEPT !.state = "missing"]
    <3>1. Apply(b, e, Tail(queue))
      BY <1>3, <2>3, <2>4 DEF HandleAddressRemove
    <3>2. e \in Entities /\ e.config # NoConfig
      BY <1>0, <2>4 DEF HasConfig, Entities
    <3> QED
      BY <1>1, <2>2, <3>1, <3>2
  <2>5. CASE ~HasConfig(entity[b])
    <3>1. entity' = [entity EXCEPT ![b] = NoEntity] /\ b # a
      BY <1>3, <2>3, <2>5 DEF HandleAddressRemove
    <3> QED
      BY <1>0, <3>1
  <2> QED
    BY <2>4, <2>5
<1>4. CASE HandleInterfaceRemove
  <2>1. entity'[a] = Unlinked(entity[a]) \/ entity'[a] = entity[a]
    BY <1>4 DEF HandleInterfaceRemove
  <2>2. Unlinked(entity[a]) \in Entities /\ Unlinked(entity[a]).config = entity[a].config
    BY <1>0 DEF Unlinked, Entities, NoIndex
  <2> QED
    BY <2>1, <2>2, SentinelsAssumption DEF HasConfig
<1>5. CASE HandleInterfaceAdd \/ HandlePreinit \/ HandleAcquired \/ HandleLost
  BY <1>5 DEF HandleInterfaceAdd, HandlePreinit, HandleAcquired, HandleLost, provider
<1>6. ASSUME NEW b \in Addresses, SetIndex(b)
      PROVE  HasConfig(entity'[a])
  <2> DEFINE e == [entity[b] EXCEPT !.index = interfaces[InterfaceOf[b]]]
  <2>1. Apply(b, e, queue) /\ entity[b] # NoEntity
    BY <1>0, <1>6 DEF SetIndex, Loops
  <2>2. entity[b] \in Entities /\ interfaces[InterfaceOf[b]] \in Nat
    BY <1>0, <2>1, InterfacesAssumption DEF TypeOK
  <2>3. e \in Entities /\ e.config = entity[b].config
    BY <2>2 DEF Entities
  <2> HIDE DEF e
  <2> QED
    BY <1>0, <1>1, <2>1, <2>3 DEF HasConfig, TypeOK
<1>7. ASSUME NEW b \in Addresses, UpdateAddress(b)
      PROVE  HasConfig(entity'[a])
  <2>1. HasConfig(entity'[b])
    BY <1>0, <1>7, ConfigUpdated
  <2>2. b # a => entity'[a] = entity[a]
    BY <1>7, <1>0 DEF UpdateAddress, Apply
  <2> QED
    BY <2>1, <2>2
<1> QED
  BY <1>2, <1>3, <1>4, <1>5, <1>6, <1>7

LEMMA NextKeeps == IInv /\ Kept /\ [Next]_vars => Kept'
<1> SUFFICES ASSUME IInv, Kept, [Next]_vars, ~stuck', NEW a \in Addresses, data'[a] # NoConfig
             PROVE  HasConfig(entity'[a]) \/ Removing' \/ (Updating' /\ a \in todo')
  BY DEF Kept
<1>0. TypeOK /\ Loops
  BY DEF IInv
<1>1. ASSUME UNCHANGED <<data, entity, task, todo, stuck>>
      PROVE  HasConfig(entity'[a]) \/ Removing' \/ (Updating' /\ a \in todo')
  BY <1>1 DEF Kept, Removing, Updating
<1>2. CASE UNCHANGED vars
  BY <1>1, <1>2 DEF vars, kernel, provider, history
<1>3. CASE Others
  <2>1. CASE \E d \in Configurations : Commit(d)
    BY <2>1 DEF Commit, Removing
  <2>2. CASE \E i \in Interfaces : CreateLink(i) \/ TouchLink(i) \/ DeleteLink(i)
    BY <1>1, <2>2 DEF CreateLink, TouchLink, DeleteLink, provider
  <2>3. CASE \E b \in Addresses : OtherAdds(b) \/ OtherRemoves(b) \/ LeaseReported(b)
    BY <1>1, <2>3 DEF OtherAdds, OtherRemoves, LeaseReported, provider
  <2> QED
    BY <1>3, <2>1, <2>2, <2>3 DEF Others
<1>4. CASE BeginUpdate
  BY <1>0, <1>4 DEF BeginUpdate, Removing, Updating, Configured, provider
<1>5. CASE CommitSucceeds \/ RolledBack
  <2>1. /\ UNCHANGED <<data, entity, stuck>> /\ todo = {} /\ task \in {"update", "unupdate"}
    BY <1>5 DEF CommitSucceeds, RolledBack, provider, history
  <2> QED
    BY <2>1 DEF Kept, Removing
<1>6. CASE OthersFail
  BY <1>6 DEF OthersFail, RollBack, Removing
<1>7. ASSUME NEW b \in Addresses, RemoveAddress(b)
      PROVE  HasConfig(entity'[a]) \/ Removing' \/ (Updating' /\ a \in todo')
  BY <1>7 DEF RemoveAddress, ConfigRemoved, HandlerRaises, RollBack, Reached, Removing
<1>8. ASSUME NEW b \in Addresses, UpdateAddress(b)
      PROVE  HasConfig(entity'[a]) \/ Removing' \/ (Updating' /\ a \in todo')
  <2>1. Updating /\ (RollBack \/ stuck' = TRUE \/ Reached(b))
    BY <1>8 DEF UpdateAddress, HandlerRaises
  <2>2. CASE RollBack
    BY <2>2 DEF RollBack, Removing
  <2>3. CASE Reached(b)
    <3>1. /\ UNCHANGED <<data, task, stuck>> /\ todo' = todo \ {b}
      BY <2>3 DEF Reached
    <3>2. HasConfig(entity[a]) \/ a \in todo
      BY <2>1, <3>1 DEF Kept, Removing, Updating
    <3>3. CASE HasConfig(entity[a])
      BY <1>8, <3>3, ConfigsHandled
    <3>4. CASE a \in todo
      <4>1. HasConfig(entity'[b])
        BY <1>0, <1>8, ConfigUpdated
      <4> QED
        BY <2>1, <3>1, <3>4, <4>1 DEF Updating
    <3> QED
      BY <3>2, <3>3, <3>4
  <2> QED
    BY <2>1, <2>2, <2>3
<1>9. ASSUME \/ HandleAddressAdd \/ HandleAddressRemove
             \/ HandleInterfaceAdd \/ HandleInterfaceRemove
             \/ HandlePreinit \/ HandleAcquired \/ HandleLost
             \/ \E b \in Addresses : SetIndex(b)
      PROVE  HasConfig(entity'[a]) \/ Removing' \/ (Updating' /\ a \in todo')
  <2>1. data' = data /\ task \in {"idle", "linkup"}
    BY <1>9 DEF HandleAddressAdd, HandleAddressRemove, HandleInterfaceAdd,
       HandleInterfaceRemove, HandlePreinit, HandleAcquired, HandleLost, SetIndex,
       Handle, Idle
  <2>3. ~stuck
    BY <1>9 DEF HandleAddressAdd, HandleAddressRemove, HandleInterfaceAdd,
       HandleInterfaceRemove, HandlePreinit, HandleAcquired, HandleLost, SetIndex, history
  <2>2. HasConfig(entity[a])
    BY <2>1, <2>3 DEF Kept, Removing, Updating
  <2> QED
    BY <1>9, <2>2, ConfigsHandled
<1> QED
  BY <1>2, <1>3, <1>4, <1>5, <1>6, <1>7, <1>8, <1>9 DEF Next, Agent

LEMMA ComeInvariance == Spec => [](ComeInv /\ Kept)
<1> QED
  BY InitComes, Invariance, TellInvariance, NextComes, NextKeeps, PTL DEF Spec

(* In every behaviour, when the reports are handled and no loop broke off, a
   configured address is there if its interface is, but for those that somebody
   else took away and those whose configuration changed before the kernel's word. *)
THEOREM ConfiguredCorrect == Spec => []ConfiguredPresent
<1>1. TypeOK /\ ComeInv /\ Kept => ConfiguredPresent
  <2> SUFFICES ASSUME TypeOK, ComeInv, Kept, Settled, ~stuck,
                      NEW a \in Configured(data) \ (lost \cup hasty),
                      link[InterfaceOf[a]] # NoIndex, a \notin held
               PROVE  FALSE
    BY DEF ConfiguredPresent
  <2>1. a \in Addresses /\ data[a] # NoConfig /\ task = "idle" /\ queue = <<>>
    BY DEF Configured, Settled
  <2>2. HasConfig(entity[a])
    BY <2>1 DEF Kept, Removing, Updating
  <2>3. Coming(a) /\ AwaitedAt(a)
    BY <2>1, <2>2 DEF Coming, ComeInv
  <2>4. None(queue, Creation(InterfaceOf[a], link[InterfaceOf[a]]))
    BY <2>1 DEF None
  <2> QED
    BY <2>1, <2>3, <2>4 DEF AwaitedAt
<1> QED
  BY <1>1, TypeCorrect, ComeInvariance, PTL
=============================================================================
