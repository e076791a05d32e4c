---------------------------- MODULE AddressTable ----------------------------
(***************************************************************************)
(* routesia/address: the addresses of the agent against the address table  *)
(* of the kernel.  An entity is created for every address that is          *)
(* configured or that the kernel reports.  Commits, reports of the kernel, *)
(* links that come and go, and DHCP leases all act on it, and other        *)
(* programs add and remove addresses and links at any time.  The reports   *)
(* come through the event bus (EventBus), in order and late.               *)
(*                                                                         *)
(* An address is an interface and an IP in the kernel's spelling; the      *)
(* index of a link is how many times the interface has been created.       *)
(***************************************************************************)
EXTENDS Naturals, Sequences, FiniteSets, SequencesExt

CONSTANTS Addresses,
          Interfaces,
          InterfaceOf,    \* the interface of each address
          AddressConfigs, \* peer and scope: what a configuration says of an address
          Reported,       \* the one of them that the kernel reports back
          NoConfig, NoEntity, NoLease,
          MaxChanges      \* bound on what clients, links, leases and others do

ASSUME InterfacesAssumption == InterfaceOf \in [Addresses -> Interfaces]
ASSUME FinitenessAssumption == IsFiniteSet(Addresses) /\ IsFiniteSet(Interfaces)
ASSUME BoundAssumption == MaxChanges \in Nat

(* No interface has the index 0. *)
NoIndex == 0

VARIABLES link,       \* the kernel: the index of each interface, or NoIndex
          created,    \* the kernel: how often each interface was created
          held,       \* the kernel: the addresses that are there
          queue,      \* events on their way to the provider
          data,       \* ConfigProvider.data: the configured addresses
          previous,   \* previous_data of rpc_commit, data when none is running
          interfaces, \* AddressProvider.interfaces
          entity,     \* AddressProvider.addresses
          lease,      \* AddressProvider.dhcp_addresses
          task,       \* the handler that runs, if any
          todo,       \* the addresses its loop has yet to reach
          changes,    \* history variables: the changes made so far,
          foreign,    \*   addresses others put, that no configuration named,
          ours,       \*   addresses the agent put because they were configured,
          lost,       \*   addresses that went without the agent,
          hasty,      \*   addresses whose configuration went, or came back, before
                      \*   the agent's last call about them was reported,
          stuck       \*   a rollback or a loop of this provider ended halfway

kernel == <<link, created, held>>
provider == <<interfaces, entity, lease>>
history == <<changes, foreign, ours, lost, hasty, stuck>>
vars == <<kernel, queue, data, previous, provider, task, todo, history>>

Configurations == [Addresses -> AddressConfigs \cup {NoConfig}]
Configured(d) == {a \in Addresses : d[a] # NoConfig}
OfInterface(i) == {a \in Addresses : InterfaceOf[a] = i}

Entities == [config : AddressConfigs \cup {NoConfig}, index : Nat,
             seen : BOOLEAN, state : {"present", "nointerface", "missing"}]
Leases == [address : Addresses, index : Nat]

ASSUME SentinelsAssumption == /\ NoConfig \notin AddressConfigs
                              /\ NoEntity \notin Entities

LinkEvent(op, i, n) == [op |-> op, interface |-> i, index |-> n]
AddressEvent(op, a) == [op |-> op, address |-> a]
LeaseEvent(op, i, a) == [op |-> op, interface |-> i, address |-> a]

Events == [op : {"newlink", "dellink"}, interface : Interfaces, index : Nat]
          \cup [op : {"newaddr", "deladdr"}, address : Addresses]
          \cup [op : {"preinit", "bound", "lost"}, interface : Interfaces,
                address : Addresses]

-----------------------------------------------------------------------------
(* The kernel, and the programs beside the agent. *)

(* One more thing happens outside; commits count too. *)
Outside == changes < MaxChanges /\ changes' = changes + 1

CreateLink(i) ==
    /\ Outside
    /\ link[i] = NoIndex
    /\ created' = [created EXCEPT ![i] = @ + 1]
    /\ link' = [link EXCEPT ![i] = created[i] + 1]
    /\ queue' = Append(queue, LinkEvent("newlink", i, created[i] + 1))
    /\ UNCHANGED <<held, data, previous, provider, task, todo,
                   foreign, ours, lost, hasty, stuck>>

(* A change of a link's flags is reported as a new link too. *)
TouchLink(i) ==
    /\ Outside
    /\ link[i] # NoIndex
    /\ queue' = Append(queue, LinkEvent("newlink", i, link[i]))
    /\ UNCHANGED <<kernel, data, previous, provider, task, todo,
                   foreign, ours, lost, hasty, stuck>>

(* The addresses of a link go with it, and are reported first. *)
DeleteLink(i) ==
    /\ Outside
    /\ link[i] # NoIndex
    /\ link' = [link EXCEPT ![i] = NoIndex]
    /\ LET gone == held \cap OfInterface(i) IN
       /\ held' = held \ gone
       /\ \E order \in SetToSeqs(gone) :
             queue' = queue \o [n \in DOMAIN order |-> AddressEvent("deladdr", order[n])]
                            \o <<LinkEvent("dellink", i, link[i])>>
       /\ foreign' = foreign \ gone
       /\ ours' = ours \ gone
       /\ lost' = lost \cup gone
    /\ UNCHANGED <<created, data, previous, provider, task, todo, hasty, stuck>>

HasConfig(e) == e # NoEntity /\ e.config # NoConfig

Named(a) == data[a] # NoConfig \/ previous[a] # NoConfig \/ HasConfig(entity[a])

OtherAdds(a) ==
    /\ Outside
    /\ link[InterfaceOf[a]] # NoIndex /\ a \notin held
    /\ held' = held \cup {a}
    /\ queue' = Append(queue, AddressEvent("newaddr", a))
    /\ foreign' = IF Named(a) THEN foreign ELSE foreign \cup {a}
    /\ UNCHANGED <<link, created, data, previous, provider, task, todo,
                   ours, lost, hasty, stuck>>

OtherRemoves(a) ==
    /\ Outside
    /\ a \in held
    /\ held' = held \ {a}
    /\ queue' = Append(queue, AddressEvent("deladdr", a))
    /\ foreign' = foreign \ {a}
    /\ ours' = ours \ {a}
    /\ lost' = lost \cup {a}
    /\ UNCHANGED <<link, created, data, previous, provider, task, todo, hasty, stuck>>

(* DHCPv4Client.on_event publishes what the DHCP client reports. *)
LeaseReported(a) ==
    /\ Outside
    /\ \E op \in {"preinit", "bound", "lost"} :
          queue' = Append(queue, LeaseEvent(op, InterfaceOf[a], a))
    /\ UNCHANGED <<kernel, data, previous, provider, task, todo,
                   foreign, ours, lost, hasty, stuck>>

-----------------------------------------------------------------------------
(* AddressEntity.  apply() makes the kernel have what is configured. *)

(* What the kernel makes of a removal, and of an addition. *)
Removable(a, e) == e.index = link[InterfaceOf[a]] /\ a \in held
Addable(a, e) == e.index = link[InterfaceOf[a]]

(* Mutant: what was seen is not compared, the address is added again. *)
CallsAlways(a, e) ==
    IF e.config = NoConfig \/ e.index = NoIndex THEN "none"
    ELSE IF e.seen THEN IF Removable(a, e) THEN "replaces" ELSE "raises"
    ELSE IF ~Addable(a, e) THEN "nodevice"
    ELSE IF a \in held THEN "exists" ELSE "adds"

(* The calls of apply: none when the address was seen as it is configured. *)
Calls(a, e) ==
    IF \/ e.config = NoConfig \/ e.index = NoIndex
       \/ e.seen /\ e.config = Reported
    THEN "none"
    ELSE IF e.seen THEN IF Removable(a, e) THEN "replaces" ELSE "raises"
    ELSE IF ~Addable(a, e) THEN "nodevice"
    ELSE IF a \in held THEN "exists" ELSE "adds"

(* The entity after apply. ENODEV takes its index away. *)
Applied(a, e) ==
    CASE e.config = NoConfig -> e
      [] e.config # NoConfig /\ (e.index = NoIndex \/ Calls(a, e) = "nodevice") ->
            [e EXCEPT !.index = NoIndex, !.state = "nointerface"]
      [] OTHER -> [e EXCEPT !.state = "missing"]

(* The events that are on their way when apply is called come first. *)
Apply(a, e, waiting) ==
    /\ entity' = [entity EXCEPT ![a] = Applied(a, e)]
    /\ held' = IF Calls(a, e) = "adds" THEN held \cup {a} ELSE held
    /\ ours' = IF Calls(a, e) = "adds" THEN ours \cup {a} ELSE ours
    /\ LET reports == CASE Calls(a, e) = "adds" -> <<AddressEvent("newaddr", a)>>
                        [] Calls(a, e) = "replaces" -> <<AddressEvent("deladdr", a),
                                                         AddressEvent("newaddr", a)>>
                        [] OTHER -> <<>>
       IN  queue' = waiting \o reports

Raises(a, e) == Calls(a, e) = "raises"

New(c, n) == [config |-> c, index |-> n, seen |-> FALSE, state |-> "nointerface"]

-----------------------------------------------------------------------------
(* on_config_change, called by rpc_commit and, to roll back, once more. *)

(* The addresses to remove, which each call begins with. *)
Unconfigured(es, d) == {a \in Addresses : HasConfig(es[a]) /\ d[a] = NoConfig}

Idle == task = "idle" /\ todo = {}

Commit(d) ==
    /\ Idle /\ Outside
    /\ data' = d
    /\ task' = "remove"
    /\ todo' = Unconfigured(entity, d)
    /\ foreign' = foreign \ Configured(d)
    /\ UNCHANGED <<kernel, queue, previous, provider, ours, lost, hasty, stuck>>

Removing == task \in {"remove", "unremove"}
Updating == task \in {"update", "unupdate"}

RollBack ==
    /\ data' = previous
    /\ task' = "unremove"
    /\ todo' = Unconfigured(entity', previous)
    /\ UNCHANGED <<previous, stuck>>

(* call_change_handlers catches what the handler raises: a failed commit is
   rolled back, and what comes of the rollback is not looked at. *)
HandlerRaises ==
    IF task \in {"remove", "update"} THEN RollBack
    ELSE /\ todo' = {} /\ task' = "idle" /\ stuck' = TRUE
         /\ UNCHANGED <<data, previous>>

Reached(a) == todo' = todo \ {a} /\ UNCHANGED <<task, data, previous, stuck>>

(* Mutant: the status is cleared first, and remove() finds nothing to remove. *)
ConfigRemovedCleared(a) ==
    /\ entity' = [entity EXCEPT ![a] = [@ EXCEPT !.config = NoConfig, !.seen = FALSE]]
    /\ hasty' = IF entity[a].seen THEN hasty ELSE hasty \cup {a}
    /\ UNCHANGED <<held, ours, queue>>
    /\ Reached(a)

(* on_config_removed: an address that was not reported yet is not removed. *)
ConfigRemoved(a) ==
    LET e == entity[a] IN
    /\ entity' = [entity EXCEPT ![a] = [e EXCEPT !.config = NoConfig]]
    /\ hasty' = IF e.seen THEN hasty ELSE hasty \cup {a}
    /\ IF e.seen /\ Removable(a, e)
       THEN /\ held' = held \ {a}
            /\ ours' = ours \ {a}
            /\ queue' = Append(queue, AddressEvent("deladdr", a))
       ELSE UNCHANGED <<held, ours, queue>>
    /\ IF e.seen /\ ~Removable(a, e) THEN HandlerRaises ELSE Reached(a)

RemoveAddress(a) ==
    /\ Removing /\ a \in todo
    /\ ConfigRemoved(a)
    /\ UNCHANGED <<link, created, interfaces, lease, changes, foreign, lost>>

BeginUpdate ==
    /\ Removing /\ todo = {}
    /\ todo' = Configured(data)
    /\ task' = IF task = "remove" THEN "update" ELSE "unupdate"
    /\ UNCHANGED <<kernel, queue, data, previous, provider, history>>

(* A call about an address has not been reported yet. *)
Unreported(a) ==
    \E n \in 1..Len(queue) : /\ queue[n].op \in {"newaddr", "deladdr"}
                             /\ queue[n].address = a

(* on_config_change of the entity, or its constructor, which applies twice: the
   second time finds what the first time did. *)
UpdateAddress(a) ==
    /\ Updating /\ a \in todo
    /\ LET e == IF entity[a] = NoEntity
                THEN New(data[a], interfaces[InterfaceOf[a]])
                ELSE [entity[a] EXCEPT !.config = data[a]]
       IN  /\ Apply(a, e, queue)
           /\ hasty' = IF a \notin held /\ (e.seen \/ Unreported(a)) THEN hasty \cup {a}
                                                                   ELSE hasty
           /\ IF Raises(a, e) THEN HandlerRaises ELSE Reached(a)
    /\ UNCHANGED <<link, created, interfaces, lease, changes, foreign, lost>>

CommitSucceeds ==
    /\ task = "update" /\ todo = {}
    /\ task' = "idle"
    /\ previous' = data
    /\ UNCHANGED <<kernel, queue, data, provider, todo, history>>

(* The handler of another provider failed. *)
OthersFail ==
    /\ task = "update" /\ todo = {}
    /\ UNCHANGED <<kernel, queue, provider, changes, foreign, ours, lost, hasty>>
    /\ RollBack

RolledBack ==
    /\ task = "unupdate" /\ todo = {}
    /\ task' = "idle"
    /\ UNCHANGED <<kernel, queue, data, previous, provider, todo, history>>

-----------------------------------------------------------------------------
(* The event handlers. None of them awaits anything. *)

Handle(op) == Idle /\ queue # <<>> /\ Head(queue).op = op

(* handle_address_add. find_config compares an IP with its text and finds
   nothing, and its result is passed for an index: a new entity has neither. *)
HandleAddressAdd ==
    /\ Handle("newaddr")
    /\ LET a == Head(queue).address
           e == IF entity[a] = NoEntity THEN New(NoConfig, NoIndex) ELSE entity[a]
       IN  entity' = [entity EXCEPT ![a] = [e EXCEPT !.seen = TRUE, !.state = "present"]]
    /\ queue' = Tail(queue)
    /\ UNCHANGED <<kernel, data, previous, interfaces, lease, task, todo, history>>

(* Mutant: only what is configured is kept up to date. *)
HandleConfiguredRemove ==
    /\ Handle("deladdr")
    /\ LET a == Head(queue).address IN
       IF HasConfig(entity[a])
       THEN Apply(a, [entity[a] EXCEPT !.state = "missing"], Tail(queue))
       ELSE queue' = Tail(queue) /\ UNCHANGED <<entity, held, ours>>
    /\ UNCHANGED <<link, created, data, previous, interfaces, lease, task, todo,
                   changes, foreign, lost, hasty, stuck>>

(* handle_address_remove. What was seen stays noted, so that apply does not put
   it back; if apply raises, only the task of the event ends. *)
HandleAddressRemove ==
    /\ Handle("deladdr")
    /\ LET a == Head(queue).address IN
       IF HasConfig(entity[a])
       THEN Apply(a, [entity[a] EXCEPT !.state = "missing"], Tail(queue))
       ELSE /\ entity' = [entity EXCEPT ![a] = NoEntity]
            /\ queue' = Tail(queue)
            /\ UNCHANGED <<held, ours>>
    /\ UNCHANGED <<link, created, data, previous, interfaces, lease, task, todo,
                   changes, foreign, lost, hasty, stuck>>

(* Mutant: only the addresses without a configuration are told. *)
KnownUnconfigured(i) ==
    {a \in OfInterface(i) : entity[a] # NoEntity /\ ~HasConfig(entity[a])}

Known(i) == {a \in OfInterface(i) : entity[a] # NoEntity}

(* handle_interface_add, and the loop in it *)
HandleInterfaceAdd ==
    /\ Handle("newlink")
    /\ LET event == Head(queue) IN
       /\ interfaces' = [interfaces EXCEPT ![event.interface] = event.index]
       /\ todo' = Known(event.interface)
       /\ task' = IF todo' = {} THEN "idle" ELSE "linkup"
    /\ queue' = Tail(queue)
    /\ UNCHANGED <<kernel, data, previous, entity, lease, history>>

(* set_ifindex. If apply raises, the addresses after this one are not told. *)
SetIndex(a) ==
    /\ task = "linkup" /\ a \in todo
    /\ LET e == [entity[a] EXCEPT !.index = interfaces[InterfaceOf[a]]] IN
       /\ Apply(a, e, queue)
       /\ todo' = IF Raises(a, e) THEN {} ELSE todo \ {a}
       /\ stuck' = (stuck \/ Raises(a, e))
    /\ task' = IF todo' = {} THEN "idle" ELSE task
    /\ UNCHANGED <<link, created, data, previous, interfaces, lease,
                   changes, foreign, lost, hasty>>

Unlinked(e) == [e EXCEPT !.index = NoIndex,
                         !.state = IF e.config = NoConfig THEN @ ELSE "nointerface"]

(* handle_interface_remove. Without an index apply calls nothing. *)
HandleInterfaceRemove ==
    /\ Handle("dellink")
    /\ LET i == Head(queue).interface IN
       /\ entity' = [a \in Addresses |-> IF a \in Known(i) THEN Unlinked(entity[a])
                                                           ELSE entity[a]]
       /\ interfaces' = [interfaces EXCEPT ![i] = NoIndex]
    /\ queue' = Tail(queue)
    /\ UNCHANGED <<kernel, data, previous, lease, task, todo, history>>

(* handle_dhcp_lease_preinit looks the address up under a key that no entity
   has, an address object where the keys have its text. *)
HandlePreinit ==
    /\ Handle("preinit")
    /\ queue' = Tail(queue)
    /\ UNCHANGED <<kernel, data, previous, provider, task, todo, history>>

(* handle_dhcp_lease_acquired, and apply of DHCPAddressEntity. No report
   reaches the entity of a lease: it has seen nothing, and removes nothing. *)
HandleAcquired ==
    /\ Handle("bound")
    /\ LET i == Head(queue).interface
           a == Head(queue).address
           new == lease[i] = NoLease \/ lease[i].address # a
           n == IF lease[i] = NoLease THEN interfaces[i] ELSE lease[i].index
           there == n # NoIndex /\ n = link[i]
       IN  /\ lease' = [lease EXCEPT ![i] =
                  [address |-> a, index |-> IF new /\ ~there THEN NoIndex ELSE n]]
           /\ IF new /\ there /\ a \notin held
              THEN /\ held' = held \cup {a}
                   /\ queue' = Append(Tail(queue), AddressEvent("newaddr", a))
              ELSE held' = held /\ queue' = Tail(queue)
    /\ UNCHANGED <<link, created, data, previous, interfaces, entity, task, todo, history>>

(* handle_dhcp_lease_lost *)
HandleLost ==
    /\ Handle("lost")
    /\ lease' = [lease EXCEPT ![Head(queue).interface] = NoLease]
    /\ queue' = Tail(queue)
    /\ UNCHANGED <<kernel, data, previous, interfaces, entity, task, todo, history>>

-----------------------------------------------------------------------------
(* start(): the configuration was loaded, an entity made for every address of
   it, and the reports of what the kernel has are on their way. *)
Init ==
    /\ created \in [Interfaces -> {0, 1}]
    /\ link = created
    /\ held \in SUBSET {a \in Addresses : link[InterfaceOf[a]] # NoIndex}
    /\ data \in Configurations
    /\ previous = data
    /\ \E links \in SetToSeqs({i \in Interfaces : link[i] # NoIndex}),
          addresses \in SetToSeqs(held) :
          queue = [n \in DOMAIN links |-> LinkEvent("newlink", links[n], 1)]
                  \o [n \in DOMAIN addresses |-> AddressEvent("newaddr", addresses[n])]
    /\ interfaces = [i \in Interfaces |-> NoIndex]
    /\ entity = [a \in Addresses |-> IF data[a] = NoConfig THEN NoEntity
                                     ELSE New(data[a], NoIndex)]
    /\ lease = [i \in Interfaces |-> NoLease]
    /\ task = "idle" /\ todo = {}
    /\ changes = 0
    /\ foreign = held \ Configured(data)
    /\ ours = {} /\ lost = {} /\ hasty = {}
    /\ stuck = FALSE

Others ==
    \/ \E i \in Interfaces : CreateLink(i) \/ TouchLink(i) \/ DeleteLink(i)
    \/ \E a \in Addresses : OtherAdds(a) \/ OtherRemoves(a) \/ LeaseReported(a)
    \/ \E d \in Configurations : Commit(d)

Agent ==
    \/ BeginUpdate \/ CommitSucceeds \/ OthersFail \/ RolledBack
    \/ \E a \in Addresses : RemoveAddress(a) \/ UpdateAddress(a) \/ SetIndex(a)
    \/ HandleAddressAdd \/ HandleAddressRemove
    \/ HandleInterfaceAdd \/ HandleInterfaceRemove
    \/ HandlePreinit \/ HandleAcquired \/ HandleLost

Next == Others \/ Agent

(* The event loop of the agent turns. *)
Spec == Init /\ [][Next]_vars /\ WF_vars(Agent)

-----------------------------------------------------------------------------
TypeOK ==
    /\ link \in [Interfaces -> Nat] /\ created \in [Interfaces -> Nat]
    /\ held \subseteq Addresses
    /\ queue \in Seq(Events)
    /\ data \in Configurations /\ previous \in Configurations
    /\ interfaces \in [Interfaces -> Nat]
    /\ entity \in [Addresses -> Entities \cup {NoEntity}]
    /\ lease \in [Interfaces -> Leases \cup {NoLease}]
    /\ task \in {"idle", "remove", "update", "unremove", "unupdate", "linkup"}
    /\ todo \subseteq Addresses
    /\ changes \in 0..MaxChanges
    /\ foreign \subseteq held /\ ours \subseteq held
    /\ lost \subseteq Addresses /\ hasty \subseteq Addresses
    /\ stuck \in BOOLEAN

(* The agent does not take away what others put there, as long as nobody
   configured it: it only knows it from the kernel's reports. *)
ForeignKept == [][foreign \ held' # {} => changes' # changes]_vars

Settled == task = "idle" /\ queue = <<>>

(* When all reports are handled, a configured address is there if its
   interface is, unless somebody else took it away: then it stays away. *)
ConfiguredPresent ==
    Settled /\ ~stuck =>
        \A a \in Configured(data) \ (lost \cup hasty) :
            link[InterfaceOf[a]] # NoIndex => a \in held

(* An address that is no longer configured is gone, unless the kernel had not
   reported it when its configuration went. *)
UnconfiguredGone ==
    Settled /\ ~stuck => \A a \in ours \ hasty : data[a] # NoConfig

(* What is listed as present is there. *)
PresentIsTrue ==
    Settled => \A a \in Addresses :
                  entity[a] # NoEntity /\ entity[a].state = "present" => a \in held

(* An address that the kernel reports as it is configured is left in peace: the
   agent comes to rest. *)
ComesToRest ==
    [](\A a \in Addresses : data[a] \in {NoConfig, Reported}) => <>[]Settled
=============================================================================
