--------------------------- MODULE InterfaceTree ---------------------------
(***************************************************************************)
(* routesia/interface: the links of the kernel against the interfaces that *)
(* are configured.  Bridges and VLANs are made by the agent; a VLAN needs  *)
(* its trunk and a port its bridge, which may come later or go away.  An   *)
(* entity keeps what is configured and what was last reported, and uses    *)
(* the index that was reported in every call.  Other programs change links *)
(* at any time.  The reports come through the event bus (EventBus), in     *)
(* order and late.                                                         *)
(*                                                                         *)
(* "bridge" stands for what is made by itself (a bridge, a SIT tunnel) and *)
(* "vlan" for what is made on another interface (a VLAN, or a VXLAN that   *)
(* names one).  The index of a link is how many times it was created.      *)
(***************************************************************************)
EXTENDS Naturals, Sequences, FiniteSets, SequencesExt

CONSTANTS Interfaces,
          Physical,       \* those that come and go by themselves
          Configurations, \* the contents of the interfaces section
          NoInterface, NoConfig, NoLink, NoEntity, NoEvent,
          MaxChanges      \* bound on what clients, links and others do

(* No link has the index 0. *)
NoIndex == 0

Types == {"ethernet", "bridge", "vlan"}
Configs == [type : Types, base : Interfaces \cup {NoInterface},
            master : Interfaces \cup {NoInterface}, up : BOOLEAN]

(* A VLAN without a trunk is one that create() refuses. *)
Valid(c) == c.type = "vlan" => c.base # NoInterface

ASSUME ConfigurationsAssumption ==
    /\ NoInterface \notin Interfaces /\ NoConfig \notin Configs
    /\ Physical \subseteq Interfaces
    /\ Configurations \subseteq [Interfaces -> Configs \cup {NoConfig}]
    /\ \A d \in Configurations, i \in Interfaces : d[i] # NoConfig =>
          /\ i \in Physical <=> d[i].type = "ethernet"
          /\ d[i].base # NoInterface => d[i].type = "vlan" /\ d[i].base \in Physical
          /\ i \notin {d[i].base, d[i].master}
    /\ \E d \in Configurations : \A i \in Interfaces : d[i] # NoConfig => Valid(d[i])
ASSUME FinitenessAssumption == IsFiniteSet(Interfaces)
ASSUME BoundAssumption == MaxChanges \in Nat

VARIABLES link,      \* the kernel: the links
          created,   \* the kernel: how often each link was created
          queue,     \* events on their way to the provider
          data,      \* ConfigProvider.data
          previous,  \* previous_data of rpc_commit, data when none is running
          entity,    \* InterfaceProvider.interfaces
          dependencies, \* InterfaceProvider.interface_dependencies
          task,      \* the handler that runs, if any
          event,     \* the event it handles
          left,      \* the dependent interfaces its loop has yet to reach
          todo,      \* the interfaces a commit has yet to reach
          changes,   \* history variables: the changes made so far,
          taken,     \*   virtual links others deleted, or that were on another trunk,
          orphaned,  \*   links whose configuration went before they were known,
          stale,     \*   interfaces whose removal was not handled to its end,
          stuck,     \*   interfaces the last handler they needed failed or passed over,
          broken     \*   a rollback failed

kernel == <<link, created, queue>>
config == <<data, previous>>
provider == <<entity, dependencies>>
loop == <<task, event, left, todo>>
history == <<changes, taken, orphaned, stale, stuck, broken>>
vars == <<kernel, config, provider, loop, history>>

(* own: the agent made it. *)
Links == [index : Nat, up : BOOLEAN, own : BOOLEAN,
          master : Interfaces \cup {NoInterface}, base : Interfaces \cup {NoInterface}]
Entities == [type : Types, config : Configs \cup {NoConfig}, ifindex : Nat, up : BOOLEAN]
Events == [op : {"newlink", "dellink", "preinit"}, name : Interfaces,
           index : Nat, up : BOOLEAN]

ASSUME SentinelsAssumption ==
    NoLink \notin Links /\ NoEntity \notin Entities /\ NoEvent \notin Events

Exists(i) == link[i] # NoLink
Configured(i) == data[i] # NoConfig

-----------------------------------------------------------------------------
(* What the kernel makes of a request. k holds the links, how often each was
   created, the queue, and whether the last request went well. *)

Kernel(waiting) == [link |-> link, created |-> created, queue |-> waiting, ok |-> TRUE]
Failed(k) == [k EXCEPT !.ok = FALSE]
Becomes(k) == link' = k.link /\ created' = k.created /\ queue' = k.queue

NewLink(i, l) == [op |-> "newlink", name |-> i, index |-> l.index, up |-> l.up]
DelLink(i, l) == [op |-> "dellink", name |-> i, index |-> l.index, up |-> FALSE]
Preinit(i) == [op |-> "preinit", name |-> i, index |-> NoIndex, up |-> FALSE]

There(k, i) == k.link[i] # NoLink
At(k, i, index) == There(k, i) /\ k.link[i].index = index

(* The kernel reports the links that differ; the order is its own. *)
Changed(k, new, set) ==
    LET order == SetToSeq({j \in set : new[j] # k.link[j]}) IN
    [k EXCEPT !.link = [j \in Interfaces |-> IF j \in set THEN new[j] ELSE @[j]],
              !.queue = @ \o [n \in DOMAIN order |-> NewLink(order[n], new[order[n]])]]

On(k, i) == {j \in Interfaces : There(k, j) /\ k.link[j].base = i}

(* The VLANs of a link are up and down with it. *)
Switched(k, i, up) ==
    LET vlans == On(k, i)
        new == [j \in Interfaces |-> IF j \in vlans \cup {i} THEN [k.link[j] EXCEPT !.up = up]
                                     ELSE k.link[j]]
    IN  Changed(Changed(k, new, {i}), new, vlans)

Added(k, i, base, own) ==
    LET new == [index |-> k.created[i] + 1, up |-> FALSE, own |-> own,
                master |-> NoInterface, base |-> base]
    IN  [k EXCEPT !.link[i] = new, !.created[i] = @ + 1, !.queue = Append(@, NewLink(i, new))]

(* A link takes the VLANs on it along; the ports of a bridge are released. *)
Deleted(k, i) ==
    LET gone == On(k, i)
        ports == {j \in Interfaces : There(k, j) /\ k.link[j].master \in gone \cup {i}}
        order == SetToSeq(gone)
        new == [j \in Interfaces |-> IF j \in gone \cup {i} THEN NoLink
                                     ELSE IF j \notin ports THEN k.link[j]
                                     ELSE [k.link[j] EXCEPT !.master = NoInterface]]
        released == Changed([k EXCEPT !.queue = @ \o [n \in DOMAIN order |->
                                                        DelLink(order[n], k.link[order[n]])]],
                            new, ports \ (gone \cup {i}))
    IN  [released EXCEPT !.link = new, !.queue = Append(@, DelLink(i, k.link[i]))]

(* link("add"). The callers ignore that the name is taken. *)
Add(k, i, base, baseIndex) ==
    IF There(k, i) THEN k
    ELSE IF base # NoInterface /\ ~At(k, base, baseIndex) THEN Failed(k)
    ELSE Added(k, i, base, TRUE)

(* link("set"): first the master, then the state. A VLAN cannot be up while its
   trunk is down. *)
Set(k, i, index, master, masterIndex, up) ==
    IF ~At(k, i, index) \/ (master # NoInterface /\ ~At(k, master, masterIndex)) THEN Failed(k)
    ELSE LET joined == IF master = NoInterface THEN k
                       ELSE Changed(k, [k.link EXCEPT ![i].master = master], {i})
             base == k.link[i].base
         IN  IF ~up THEN joined
             ELSE IF base # NoInterface /\ ~k.link[base].up THEN Failed(joined)
             ELSE Switched(joined, i, TRUE)

-----------------------------------------------------------------------------
(* Other programs. *)

Outside == changes < MaxChanges /\ changes' = changes + 1

PlugIn(i) ==
    /\ Outside
    /\ i \in Physical /\ ~Exists(i)
    /\ Becomes(Added(Kernel(queue), i, NoInterface, FALSE))
    /\ UNCHANGED <<config, provider, loop, taken, orphaned, stale, stuck, broken>>

HasConfig(i) == entity[i] # NoEntity /\ entity[i].config # NoConfig

(* What is on a link although it is configured to be elsewhere. *)
Elsewhere(i) == {j \in On(Kernel(queue), i) : HasConfig(j) /\ entity[j].config.base # i}

DeleteLink(i) ==
    /\ Outside
    /\ Exists(i)
    /\ Becomes(Deleted(Kernel(queue), i))
    /\ taken' = taken \cup Elsewhere(i) \cup ({i} \ Physical)
    /\ UNCHANGED <<config, provider, loop, orphaned, stale, stuck, broken>>

SwitchLink(i, up) ==
    /\ Outside
    /\ Exists(i) /\ link[i].up # up
    /\ up /\ link[i].base # NoInterface => link[link[i].base].up
    /\ Becomes(Switched(Kernel(queue), i, up))
    /\ UNCHANGED <<config, provider, loop, taken, orphaned, stale, stuck, broken>>

(* DHCPv4Client.on_event publishes that a client starts. *)
LeasePreinit(i) ==
    /\ Outside
    /\ queue' = Append(queue, Preinit(i))
    /\ UNCHANGED <<link, created, config, provider, loop, taken, orphaned, stale, stuck,
                   broken>>

-----------------------------------------------------------------------------
(* InterfaceEntity *)

New(type) == [type |-> type, config |-> NoConfig, ifindex |-> NoIndex, up |-> FALSE]

(* get_ifindex *)
Ifindex(i) ==
    IF i = NoInterface \/ entity[i] = NoEntity THEN NoIndex ELSE entity[i].ifindex

(* dependent_interfaces: a VLAN is not told of its bridge. *)
DependsOn(c) == IF c.type = "vlan" THEN c.base ELSE c.master

(* create *)
Create(k, i, e) ==
    CASE e.type = "ethernet" -> k
      [] e.type = "bridge" -> Add(k, i, NoInterface, NoIndex)
      [] e.type = "vlan" ->
            IF e.config.base = NoInterface THEN Failed(k)
            ELSE IF Ifindex(e.config.base) = NoIndex THEN k
            ELSE Add(k, i, e.config.base, Ifindex(e.config.base))

(* apply_link_config: a master that is not known is left out of the call. *)
ApplyLinkConfig(k, i, e) ==
    LET master == IF Ifindex(e.config.master) = NoIndex THEN NoInterface ELSE e.config.master IN
    IF ~e.config.up /\ e.config.master = NoInterface THEN k
    ELSE Set(k, i, e.ifindex, master, Ifindex(master), e.config.up)

(* Mutant: nothing is asked for before the link was reported. *)
ApplyKnown(k, i, e) ==
    IF e.config = NoConfig \/ e.ifindex = NoIndex THEN k ELSE ApplyLinkConfig(k, i, e)

(* apply *)
Apply(k, i, e) ==
    IF e.config = NoConfig THEN k
    ELSE LET made == Create(k, i, e) IN
         IF made.ok /\ e.ifindex # NoIndex THEN ApplyLinkConfig(made, i, e) ELSE made

(* Mutant: a VLAN is left to go with its trunk. *)
RemoveBridge(k, i, e) == IF e.type = "bridge" /\ At(k, i, e.ifindex) THEN Deleted(k, i) ELSE k

(* remove of a virtual interface: a link that is gone is no error. *)
RemoveLink(k, i, e) ==
    IF e.type # "ethernet" /\ At(k, i, e.ifindex) THEN Deleted(k, i) ELSE k

-----------------------------------------------------------------------------
(* on_config_change, called by rpc_commit and, to roll back, once more: first
   the interfaces that are not configured any more, then the others. *)

Idle == task = "idle"
Configuring == task \in {"commit", "rollback"}
Unconfigured(d, entities) ==
    {i \in Interfaces : /\ d[i] = NoConfig /\ entities[i] # NoEntity
                        /\ entities[i].config # NoConfig}
ToReach(d, entities) == {i \in Interfaces : d[i] # NoConfig} \cup Unconfigured(d, entities)

Commit(d) ==
    /\ Idle /\ Outside
    /\ data' = d
    /\ task' = "commit" /\ todo' = ToReach(d, entity)
    /\ UNCHANGED <<kernel, previous, provider, event, left, taken, orphaned, stale, stuck,
                   broken>>

Reached(i) == todo' = todo \ {i} /\ UNCHANGED <<data, task, broken>>

(* A failed commit is rolled back; what comes of that is not looked at. *)
RollBack ==
    /\ data' = previous
    /\ task' = "rollback" /\ todo' = ToReach(previous, entity')
    /\ UNCHANGED broken

HandlerRaises ==
    IF task = "commit" THEN RollBack
    ELSE task' = "idle" /\ todo' = {} /\ broken' = TRUE /\ UNCHANGED data

(* on_config_removed. The link stays if its creation is yet to be handled. *)
RemoveConfig(i) ==
    /\ Configuring /\ i \in todo \cap Unconfigured(data, entity)
    /\ Becomes(RemoveLink(Kernel(queue), i, entity[i]))
    /\ orphaned' = IF i \notin Physical /\ Exists(i) /\ entity[i].ifindex # link[i].index
                   THEN orphaned \cup {i} ELSE orphaned
    /\ entity' = [entity EXCEPT ![i].config = NoConfig]
    /\ Reached(i)
    /\ UNCHANGED <<previous, dependencies, event, left, changes, taken, stale, stuck>>

(* on_config_change of an entity, or a new entity. *)
UpdateConfig(i) ==
    /\ Configuring /\ todo \cap Unconfigured(data, entity) = {} /\ i \in todo
    /\ LET old == IF entity[i] = NoEntity THEN New(data[i].type) ELSE entity[i]
           e == [old EXCEPT !.config = data[i]]
           k == IF e = old THEN Kernel(queue) ELSE Apply(Kernel(queue), i, e)
       IN  /\ Becomes(k)
           /\ entity' = [entity EXCEPT ![i] = e]
           /\ taken' = IF There(k, i) THEN taken \ {i} ELSE taken
           /\ stuck' = IF k.ok /\ e # old THEN stuck \ {i} ELSE stuck
           /\ IF k.ok THEN Reached(i) ELSE HandlerRaises
    /\ UNCHANGED <<previous, dependencies, event, left, changes, orphaned, stale>>

CommitSucceeds ==
    /\ task = "commit" /\ todo = {}
    /\ task' = "idle" /\ previous' = data
    /\ UNCHANGED <<kernel, data, provider, event, left, todo, history>>

(* The handler of another provider failed. *)
OthersFail ==
    /\ task = "commit" /\ todo = {}
    /\ UNCHANGED <<kernel, previous, provider, event, left, changes, taken, orphaned,
                   stale, stuck>>
    /\ RollBack

RolledBack ==
    /\ task = "rollback" /\ todo = {}
    /\ task' = "idle"
    /\ UNCHANGED <<kernel, config, provider, event, left, todo, history>>

-----------------------------------------------------------------------------
(* The handlers of the kernel's reports. None of them awaits anything. *)

Handle(op) == Idle /\ queue # <<>> /\ Head(queue).op = op
Begin(loopTask, i) == task' = loopTask /\ event' = Head(queue) /\ left' = dependencies[i]
Waiting(i) == Range(dependencies[i])

(* Mutant: physical links are left as they come. *)
IsDownVirtual(e) == e.config # NoConfig /\ e.config.up /\ ~e.up /\ e.type # "ethernet"

(* What update_state sets up. *)
IsDown(e) == e.config # NoConfig /\ e.config.up /\ ~e.up

(* handle_interface_add and update_state. The kind is looked up where it is not,
   so that the entity of a link that is not configured is an Ethernet one. An
   exception ends the task before the dependent interfaces are told. *)
HandleInterfaceAdd ==
    /\ Handle("newlink")
    /\ LET i == Head(queue).name
           old == IF entity[i] = NoEntity THEN New("ethernet") ELSE entity[i]
           e == [old EXCEPT !.ifindex = Head(queue).index, !.up = Head(queue).up]
           before == Kernel(Tail(queue))
           k == IF IsDown(e) THEN ApplyLinkConfig(before, i, e) ELSE before
       IN  /\ Becomes(k)
           /\ entity' = [entity EXCEPT ![i] = e]
           /\ IF k.ok
              THEN Begin("linkup", i) /\ stuck' = IF There(k, i) THEN stuck \ {i} ELSE stuck
              ELSE stuck' = stuck \cup {i} \cup Waiting(i) /\ UNCHANGED <<task, event, left>>
           /\ stale' = stale \ {i}
    /\ UNCHANGED <<config, dependencies, todo, changes, taken, orphaned, broken>>

(* handle_interface_remove: the dependent interfaces come first. *)
HandleInterfaceRemove ==
    /\ Handle("dellink")
    /\ queue' = Tail(queue)
    /\ Begin("linkdown", Head(queue).name)
    /\ UNCHANGED <<link, created, config, provider, todo, history>>

(* on_dependent_interface_add, which both handlers call. What is made on
   another interface does nothing while it is there. *)
ApplyDependent ==
    /\ task \in {"linkup", "linkdown"} /\ left # <<>>
    /\ LET i == Head(left)
           e == entity[i]
           passed == e.type = "vlan" /\ e.ifindex # NoIndex
           k == IF passed THEN Kernel(queue) ELSE Apply(Kernel(queue), i, e)
       IN  /\ Becomes(k)
           /\ taken' = IF There(k, i) THEN taken \ {i} ELSE taken
           /\ IF k.ok
              THEN /\ left' = Tail(left) /\ UNCHANGED <<task, event>>
                   /\ stuck' = IF ~passed THEN stuck \ {i}
                               ELSE IF There(k, i) THEN stuck ELSE stuck \cup {i}
              ELSE /\ task' = "idle" /\ event' = NoEvent /\ left' = <<>>
                   /\ stuck' = stuck \cup Range(left)
           /\ stale' = IF ~k.ok /\ task = "linkdown" THEN stale \cup {event.name} ELSE stale
    /\ UNCHANGED <<config, provider, todo, changes, orphaned, broken>>

LoopEnds == task' = "idle" /\ event' = NoEvent /\ UNCHANGED left

DependentsTold ==
    /\ task = "linkup" /\ left = <<>>
    /\ LoopEnds
    /\ UNCHANGED <<kernel, config, provider, todo, history>>

(* Mutant: the index is kept. *)
ForgottenState(e) == [e EXCEPT !.up = FALSE]

(* on_interface_remove *)
Forgotten(e) == [e EXCEPT !.ifindex = NoIndex, !.up = FALSE]

(* A name is in a list once. *)
Without(names, i) ==
    IF i \in Range(names) THEN RemoveAt(names, CHOOSE n \in DOMAIN names : names[n] = i)
    ELSE names

(* The end of handle_interface_remove. An entity without a configuration is deleted; it stays
   in the lists it was in, and does nothing there. *)
LinkGone ==
    /\ task = "linkdown" /\ left = <<>>
    /\ LET i == event.name
           kept == HasConfig(i)
       IN  /\ entity' = [entity EXCEPT ![i] =
                 IF kept THEN Forgotten(@) ELSE NoEntity]
           /\ dependencies' = IF kept THEN dependencies
                              ELSE [j \in Interfaces |-> Without(dependencies[j], i)]
           /\ stale' = stale \ {i}
    /\ LoopEnds
    /\ UNCHANGED <<kernel, config, todo, changes, taken, orphaned, stuck, broken>>

(* handle_dhcp_lease_preinit. That the call fails is without consequence. *)
HandlePreinit ==
    /\ Handle("preinit")
    /\ LET i == Head(queue).name
           k == IF entity[i] = NoEntity \/ entity[i].up THEN Kernel(Tail(queue))
                ELSE Set(Kernel(Tail(queue)), i, entity[i].ifindex, NoInterface, NoIndex, TRUE)
       IN  Becomes(k)
    /\ UNCHANGED <<config, provider, loop, history>>

-----------------------------------------------------------------------------
(* After start(). There may be physical links, and what an agent that was killed
   left of the same configuration. The bridges that were missing are made; no
   trunk is known yet. The reports of the links are on their way. *)
StartLink(d, i, ups, joined) ==
    [index |-> 1, up |-> i \in ups, own |-> i \notin Physical,
     master |-> IF i \in joined THEN d[i].master ELSE NoInterface,
     base |-> IF d[i] = NoConfig THEN NoInterface ELSE d[i].base]

Dependents(i) == {n \in Interfaces : Configured(n) /\ DependsOn(data[n]) = i}

Init ==
    /\ data \in {d \in Configurations : \A i \in Interfaces : d[i] # NoConfig => Valid(d[i])}
    /\ previous = data
    /\ \E there \in SUBSET Interfaces, ups \in SUBSET Interfaces, joined \in SUBSET Interfaces :
          /\ ups \cup joined \subseteq there
          /\ \A i \in there : Configured(i) \/ i \in Physical
          /\ \A i \in there : Configured(i) /\ data[i].base # NoInterface =>
                data[i].base \in there /\ (i \in ups => data[i].base \in ups)
          /\ \A i \in joined : Configured(i) /\ data[i].master \in there
          /\ LET made == {i \in Interfaces \ there : Configured(i) /\ data[i].type = "bridge"} IN
             /\ link = [i \in Interfaces |->
                   IF i \in there THEN StartLink(data, i, ups, joined)
                   ELSE IF i \in made THEN StartLink(data, i, {}, {}) ELSE NoLink]
             /\ created = [i \in Interfaces |-> IF Exists(i) THEN 1 ELSE 0]
             /\ \E found \in SetToSeqs(there), new \in SetToSeqs(made) :
                   queue = [n \in DOMAIN found |-> NewLink(found[n], link[found[n]])]
                           \o [n \in DOMAIN new |-> NewLink(new[n], link[new[n]])]
    /\ entity = [i \in Interfaces |->
                    IF Configured(i) THEN [New(data[i].type) EXCEPT !.config = data[i]]
                    ELSE NoEntity]
    /\ LET orders == [i \in Interfaces |-> SetToSeqs(Dependents(i))] IN
       \E lists \in [Interfaces -> UNION Range(orders)] :
          /\ \A i \in Interfaces : lists[i] \in orders[i]
          /\ dependencies = lists
    /\ task = "idle" /\ event = NoEvent /\ left = <<>> /\ todo = {}
    /\ changes = 0 /\ taken = {} /\ orphaned = {} /\ stale = {} /\ stuck = {}
    /\ broken = FALSE

Others ==
    \/ \E i \in Interfaces : PlugIn(i) \/ DeleteLink(i) \/ LeasePreinit(i)
    \/ \E i \in Interfaces, up \in BOOLEAN : SwitchLink(i, up)
    \/ \E d \in Configurations : Commit(d)

Agent ==
    \/ \E i \in Interfaces : RemoveConfig(i) \/ UpdateConfig(i)
    \/ CommitSucceeds \/ OthersFail \/ RolledBack
    \/ HandleInterfaceAdd \/ HandleInterfaceRemove \/ HandlePreinit
    \/ ApplyDependent \/ DependentsTold \/ LinkGone

Next == Others \/ Agent

Spec == Init /\ [][Next]_vars

-----------------------------------------------------------------------------
Settled == task = "idle" /\ queue = <<>>

(* When all reports are handled, what interface/list shows is what the kernel
   has, but for an interface whose last report was not handled to its end. *)
StateIsTrue ==
    Settled => \A i \in Interfaces \ stale :
        IF Exists(i)
        THEN /\ entity[i] # NoEntity
             /\ entity[i].ifindex = link[i].index /\ entity[i].up = link[i].up
        ELSE entity[i] # NoEntity => entity[i].ifindex = NoIndex /\ ~entity[i].up

(* An interface that is configured to be up is up, whoever put it down, and
   whenever its link and its configuration came. *)
UpKept ==
    Settled /\ ~broken => \A i \in Interfaces \ stuck :
        Configured(i) /\ data[i].up /\ Exists(i) => link[i].up

(* A configured virtual interface is there when its trunk is, however often the
   trunk went and came, unless another program deleted it. One that was added
   after the start does not wait for its trunk, and one that was reported while
   it was not configured is taken for an Ethernet one. *)
VirtualPresent ==
    Settled /\ ~broken => \A i \in Interfaces \ (stuck \cup taken) :
        /\ Configured(i) /\ entity[i].type # "ethernet"
        /\ data[i].base # NoInterface => Exists(data[i].base) /\ i \in Waiting(data[i].base)
        => Exists(i)

(* A link the agent made does not outlive its configuration, unless that went
   before the creation of the link was handled. *)
RemovedGone ==
    Settled => \A i \in Interfaces : Exists(i) /\ link[i].own => Configured(i) \/ i \in orphaned
=============================================================================
