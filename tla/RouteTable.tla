----------------------------- MODULE RouteTable -----------------------------
(***************************************************************************)
(* routesia/route: the routes of the agent against the routing tables of   *)
(* the kernel.  A TableEntity keeps, for every destination that is         *)
(* configured or that the kernel reports, what is configured, what was     *)
(* reported, and what the agent asked for.  A configured route is put in   *)
(* when its next hop is accessible, by what was reported; the main table   *)
(* also has the routes of DHCP leases.  Other programs change routes and   *)
(* links at any time.  The reports come through the event bus (EventBus),  *)
(* in order and late.                                                      *)
(*                                                                         *)
(* A route has one next hop.  The index of a link is how many times the    *)
(* interface has been created.                                             *)
(***************************************************************************)
EXTENDS Naturals, Sequences, FiniteSets, SequencesExt

CONSTANTS Tables, Main, Destinations, Gateways, Interfaces,
          Covers,          \* the gateways in each destination
          Configurations,  \* the contents of the route section
          LeaseRoutes,     \* the routes a lease can bring
          OtherRoutes,     \* routes other programs put, as <<t, d, next hop>>
          NoGateway, NoInterface, NoRoute, NoConfig, NoTable, NoEntity, NoArgs,
          NoEvent,
          MaxChanges       \* bound on what clients, links, leases and others do

(* No interface has the index 0. *)
NoIndex == 0

Hops == [gateway : Gateways \cup {NoGateway}, interface : Interfaces \cup {NoInterface}]
KernelHops == [gateway : Gateways \cup {NoGateway}, interface : Interfaces]

ASSUME CoversAssumption == Covers \in [Destinations -> SUBSET Gateways]
ASSUME NoGatewayAssumption == NoGateway \notin Gateways /\ NoInterface \notin Interfaces
ASSUME ConfigurationsAssumption ==
    /\ Main \in Tables
    /\ Configurations \subseteq
          [Tables -> [Destinations -> Hops \cup {NoConfig}] \cup {NoTable}]
    /\ \A d \in Configurations : d[Main] # NoTable
ASSUME LeaseAssumption ==
    LeaseRoutes \subseteq [Destinations -> Gateways \cup {NoGateway, NoRoute}]
ASSUME OthersAssumption == OtherRoutes \subseteq Tables \X Destinations \X KernelHops
ASSUME FinitenessAssumption ==
    IsFiniteSet(Tables) /\ IsFiniteSet(Destinations) /\ IsFiniteSet(Interfaces)
ASSUME BoundAssumption == MaxChanges \in Nat

VARIABLES link,       \* the kernel: the index of each interface, or NoIndex
          created,    \* the kernel: how often each interface was created
          route,      \* the kernel: the routes of each table
          queue,      \* events on their way to the provider
          data,       \* ConfigProvider.data: the tables and their routes
          previous,   \* previous_data of rpc_commit, data when none is running
          tables,     \* RouteProvider.tables, in the order of the dictionary
          interfaces, \* TableEntity.interfaces
          entity,     \* TableEntity.routes
          leased,     \* TableEntity.dhcp_routes of the main table
          task,       \* the handler that runs, if any
          event,      \* the event it handles
          left,       \* the tables its loop has yet to reach
          todo,       \* the routes of the table it is at that it has yet to reach
          changes,    \* history variables: the changes made so far,
          ours,       \*   routes the agent put,
          late,       \*   tables that were made after the start,
          stuck       \*   a loop or a rollback of this provider ended halfway

kernel == <<link, created, route>>
provider == <<tables, interfaces, entity, leased>>
loop == <<task, event, left, todo>>
history == <<changes, ours, late, stuck>>
vars == <<kernel, queue, data, previous, provider, loop, history>>

(* Linux compares the protocol of a route it is asked to delete. *)
KernelRoutes == [hop : KernelHops, own : BOOLEAN]
Args == [hop : Hops, index : Nat]
Entities == [config : Hops \cup {NoConfig}, state : KernelHops \cup {NoRoute},
             args : Args \cup {NoArgs}]
LeasedRoutes == [gateway : Gateways \cup {NoGateway}, args : Args \cup {NoArgs}]

ASSUME SentinelsAssumption ==
    /\ NoConfig \notin Hops /\ NoRoute \notin Hops \cup KernelRoutes \cup Gateways
    /\ NoRoute # NoGateway
    /\ NoEntity \notin Entities \cup LeasedRoutes /\ NoArgs \notin Args
    /\ NoTable \notin [Destinations -> Hops \cup {NoConfig}]

LinkEvent(op, i) == [op |-> op, interface |-> i]
RouteEvent(op, t, d, hop) == [op |-> op, table |-> t, destination |-> d, hop |-> hop]
LeaseEvent(op, i, routes) == [op |-> op, interface |-> i, routes |-> routes]

Slots == Tables \X Destinations
Wanted(d, t, n) == d[t] # NoTable /\ d[t][n] # NoConfig
ConfiguredSlots(d) == {s \in Slots : Wanted(d, s[1], s[2])}

-----------------------------------------------------------------------------
(* The kernel, and the programs beside the agent. *)

Outside == changes < MaxChanges /\ changes' = changes + 1

CreateLink(i) ==
    /\ Outside
    /\ link[i] = NoIndex
    /\ created' = [created EXCEPT ![i] = @ + 1]
    /\ link' = [link EXCEPT ![i] = created[i] + 1]
    /\ queue' = Append(queue, LinkEvent("newlink", i))
    /\ UNCHANGED <<route, data, previous, provider, loop, ours, late, stuck>>

(* A change of a link's flags is reported as a new link too. *)
TouchLink(i) ==
    /\ Outside
    /\ link[i] # NoIndex
    /\ queue' = Append(queue, LinkEvent("newlink", i))
    /\ UNCHANGED <<kernel, data, previous, provider, loop, ours, late, stuck>>

(* The routes over a link go with it, and are reported first, in any order. *)
DeleteLink(i) ==
    /\ Outside
    /\ link[i] # NoIndex
    /\ link' = [link EXCEPT ![i] = NoIndex]
    /\ LET over == {s \in Slots : /\ route[s[1]][s[2]] # NoRoute
                                  /\ route[s[1]][s[2]].hop.interface = i}
           reports == {RouteEvent("delroute", s[1], s[2], route[s[1]][s[2]].hop) : s \in over}
       IN  /\ route' = [t \in Tables |-> [d \in Destinations |->
                           IF <<t, d>> \in over THEN NoRoute ELSE route[t][d]]]
           /\ \E order \in SetToSeqs(reports) : queue' = queue \o order \o <<LinkEvent("dellink", i)>>
           /\ ours' = ours \ over
    /\ UNCHANGED <<created, data, previous, provider, loop, late, stuck>>

OtherPuts(t, d, hop) ==
    /\ Outside
    /\ link[hop.interface] # NoIndex
    /\ route[t][d] # [hop |-> hop, own |-> FALSE]
    /\ route' = [route EXCEPT ![t][d] = [hop |-> hop, own |-> FALSE]]
    /\ queue' = Append(queue, RouteEvent("newroute", t, d, hop))
    /\ ours' = ours \ {<<t, d>>}
    /\ UNCHANGED <<link, created, data, previous, provider, loop, late, stuck>>

OtherRemoves(t, d) ==
    /\ Outside
    /\ route[t][d] # NoRoute
    /\ route' = [route EXCEPT ![t][d] = NoRoute]
    /\ queue' = Append(queue, RouteEvent("delroute", t, d, route[t][d].hop))
    /\ ours' = ours \ {<<t, d>>}
    /\ UNCHANGED <<link, created, data, previous, provider, loop, late, stuck>>

(* DHCPv4Client.on_event publishes what the DHCP client reports. The routes are
   the network of the address, the gateway's and those the lease lists. *)
LeaseReported(i, routes) ==
    /\ Outside
    /\ \E op \in {"preinit", "bound", "lost"} : queue' = Append(queue, LeaseEvent(op, i, routes))
    /\ UNCHANGED <<kernel, data, previous, provider, loop, ours, late, stuck>>

-----------------------------------------------------------------------------
(* What the kernel makes of a request. *)

(* The interfaces over which it finds a gateway: by routes without one. *)
Over(t, gateway) ==
    {i \in Interfaces : \E n \in {t, Main}, d \in Destinations :
        /\ gateway \in Covers[d] /\ route[n][d] # NoRoute
        /\ route[n][d].hop = [gateway |-> NoGateway, interface |-> i]}

(* The next hops it makes of the one asked for; none if it refuses. *)
Resolved(t, hop) ==
    {[hop EXCEPT !.interface = i] : i \in
        {i \in Interfaces :
            /\ link[i] # NoIndex /\ hop.interface \in {i, NoInterface}
            /\ hop.gateway # NoGateway => i \in Over(t, hop.gateway)}}

Accepts(t, hop) == Resolved(t, hop) # {}

(* route("replace"); what it finds as it is asked for is not reported. *)
Replace(t, d, hop, waiting) ==
    \E resolved \in Resolved(t, hop) :
        LET new == [hop |-> resolved, own |-> TRUE] IN
        /\ route' = [route EXCEPT ![t][d] = new]
        /\ queue' = IF route[t][d] = new THEN waiting
                    ELSE Append(waiting, RouteEvent("newroute", t, d, resolved))
        /\ ours' = ours \cup {<<t, d>>}

(* route_args *)
ArgsFor(hop) ==
    [hop |-> hop,
     index |-> IF hop.interface = NoInterface THEN NoIndex ELSE created[hop.interface]]

(* Whether route("delete") finds the route. *)
Deletable(t, d, args) ==
    /\ route[t][d] # NoRoute /\ route[t][d].own
    /\ route[t][d].hop.gateway = args.hop.gateway
    /\ args.hop.interface # NoInterface =>
          /\ route[t][d].hop.interface = args.hop.interface
          /\ args.index = link[args.hop.interface]

(* remove() of an entity: nothing to do, the call, or an exception. *)
RemoveRaises(t, d, args) == args # NoArgs /\ ~Deletable(t, d, args)

Removal(t, d, args) ==
    IF args # NoArgs /\ Deletable(t, d, args)
    THEN /\ route' = [route EXCEPT ![t][d] = NoRoute]
         /\ queue' = Append(queue, RouteEvent("delroute", t, d, route[t][d].hop))
         /\ ours' = ours \ {<<t, d>>}
    ELSE UNCHANGED <<route, queue, ours>>

-----------------------------------------------------------------------------
(* RouteEntity.apply *)

HasConfig(e) == e # NoEntity /\ e.config # NoConfig
New == [config |-> NoConfig, state |-> NoRoute, args |-> NoArgs]

(* nexthop_accessible: a route to the gateway was reported, itself included;
   gateway_accessible is the same for any interface. *)
Accessible(routes, t, hop) ==
    IF hop.gateway = NoGateway THEN hop.interface \in interfaces[t]
    ELSE \E d \in Destinations :
            /\ hop.gateway \in Covers[d] /\ routes[d] # NoEntity
            /\ routes[d].state # NoRoute
            /\ hop.interface \in {NoInterface, routes[d].state.interface}

(* Whether apply asks the kernel for the route. *)
Applies(t, d, e) ==
    /\ HasConfig(e)
    /\ Accessible([entity[t] EXCEPT ![d] = e], t, e.config)
    /\ e.state # e.config
    /\ e.config.interface # NoInterface => created[e.config.interface] # 0

Raises(t, d, e) == Applies(t, d, e) /\ ~Accepts(t, e.config)

Apply(t, d, e, waiting) ==
    IF Applies(t, d, e) /\ Accepts(t, e.config)
    THEN /\ Replace(t, d, e.config, waiting)
         /\ entity' = [entity EXCEPT ![t][d] = [e EXCEPT !.args = ArgsFor(e.config)]]
    ELSE /\ entity' = [entity EXCEPT ![t][d] = e]
         /\ queue' = waiting
         /\ UNCHANGED <<route, ours>>

-----------------------------------------------------------------------------
(* handle_config_change, called by rpc_commit and, to roll back, once more: for
   each table of the configuration first its routes, then what it had before. *)

Idle == task = "idle"

Commit(d) ==
    /\ Idle /\ Outside
    /\ data' = d
    /\ task' = "commit"
    /\ left' \in SetToSeqs({t \in Tables : d[t] # NoTable})
    /\ UNCHANGED <<kernel, queue, previous, provider, event, todo, ours, late, stuck>>

Configuring == task \in {"commit", "rollback"}

(* The table of a TableEntity, which is made when it is first heard of. *)
MakeTable(t) ==
    IF t \in Range(tables) THEN UNCHANGED <<tables, late>>
    ELSE tables' = Append(tables, t) /\ late' = late \cup {t}

(* Mutant: what is not configured any more is left. *)
ToConfigureOnly(t) == {<<t, d>> : d \in {n \in Destinations : Wanted(data, t, n)}}

(* The routes a table is to add or update, and those it is to remove. *)
ToConfigure(t) ==
    {<<t, d>> : d \in {n \in Destinations : Wanted(data, t, n) \/ HasConfig(entity[t][n])}}

BeginTable ==
    /\ Configuring /\ todo = {} /\ left # <<>>
    /\ MakeTable(Head(left))
    /\ todo' = ToConfigure(Head(left))
    /\ left' = Tail(left)
    /\ UNCHANGED <<kernel, queue, data, previous, interfaces, entity, leased, task,
                   event, changes, ours, stuck>>

RollBack ==
    /\ data' = previous
    /\ task' = "rollback"
    /\ left' \in SetToSeqs({t \in Tables : previous[t] # NoTable})
    /\ todo' = {}
    /\ UNCHANGED <<previous, stuck>>

(* A failed commit is rolled back; what comes of that is not looked at. *)
HandlerRaises ==
    IF task = "commit" THEN RollBack
    ELSE /\ task' = "idle" /\ left' = <<>> /\ todo' = {} /\ stuck' = TRUE
         /\ UNCHANGED <<data, previous>>

Reached(t, d) == todo' = todo \ {<<t, d>>} /\ UNCHANGED <<data, previous, task, left, stuck>>

UpdateRoute(t, d) ==
    /\ Configuring /\ <<t, d>> \in todo /\ Wanted(data, t, d)
    /\ LET e == [(IF entity[t][d] = NoEntity THEN New ELSE entity[t][d])
                    EXCEPT !.config = data[t][d]]
       IN  /\ Apply(t, d, e, queue)
           /\ IF Raises(t, d, e) THEN HandlerRaises ELSE Reached(t, d)
    /\ UNCHANGED <<link, created, tables, interfaces, leased, event, changes,
                   late>>

(* remove() forgets what was asked for once the kernel has done it. *)
RemoveRoute(t, d) ==
    /\ Configuring /\ <<t, d>> \in todo
    /\ \A s \in todo : ~Wanted(data, s[1], s[2])
    /\ LET e == entity[t][d] IN
       /\ Removal(t, d, e.args)
       /\ entity' = [entity EXCEPT ![t][d] =
             [e EXCEPT !.config = NoConfig,
                       !.args = IF RemoveRaises(t, d, e.args) THEN e.args ELSE NoArgs]]
       /\ IF RemoveRaises(t, d, e.args) THEN HandlerRaises ELSE Reached(t, d)
    /\ UNCHANGED <<link, created, tables, interfaces, leased, event, changes,
                   late>>

CommitSucceeds ==
    /\ task = "commit" /\ todo = {} /\ left = <<>>
    /\ task' = "idle"
    /\ previous' = data
    /\ UNCHANGED <<kernel, queue, data, provider, event, left, todo, history>>

(* The handler of another provider failed. *)
OthersFail ==
    /\ task = "commit" /\ todo = {} /\ left = <<>>
    /\ UNCHANGED <<kernel, queue, provider, event, changes, ours, late>>
    /\ RollBack

RolledBack ==
    /\ task = "rollback" /\ todo = {} /\ left = <<>>
    /\ task' = "idle"
    /\ UNCHANGED <<kernel, queue, data, previous, provider, event, left, todo, history>>

-----------------------------------------------------------------------------
(* The handlers of the kernel's reports. None of them awaits anything. *)

Handle(op) == Idle /\ queue # <<>> /\ Head(queue).op = op

Begin(loopTask, tableOrder, slots) ==
    /\ queue' = Tail(queue)
    /\ event' = Head(queue)
    /\ task' = loopTask /\ left' = tableOrder /\ todo' = slots

(* Mutant: only routes to the very destination are looked at. *)
DependentsSame(routes, t, d) ==
    {<<t, n>> : n \in {m \in Destinations : /\ HasConfig(routes[m])
                                            /\ routes[m].state = NoRoute
                                            /\ m = d}}

(* Configured routes that are absent and have their gateway in d. *)
Dependents(routes, t, d) ==
    {<<t, n>> : n \in {m \in Destinations : /\ HasConfig(routes[m])
                                            /\ routes[m].state = NoRoute
                                            /\ routes[m].config.gateway \in Covers[d]}}

(* handle_route_add *)
HandleRouteAdd ==
    /\ Handle("newroute")
    /\ LET t == Head(queue).table
           d == Head(queue).destination
           e == IF entity[t][d] = NoEntity THEN New ELSE entity[t][d]
           routes == [entity[t] EXCEPT ![d] = [e EXCEPT !.state = Head(queue).hop]]
       IN  /\ MakeTable(t)
           /\ entity' = [entity EXCEPT ![t] = routes]
           /\ Begin("dependents", <<>>, Dependents(routes, t, d))
    /\ UNCHANGED <<kernel, data, previous, interfaces, leased, changes, ours, stuck>>

(* apply of one of them. An exception ends the loop, and the task of the event. *)
ApplyDependent(t, d) ==
    /\ task \in {"dependents", "linkup"} /\ <<t, d>> \in todo
    /\ Apply(t, d, entity[t][d], queue)
    /\ IF Raises(t, d, entity[t][d])
       THEN /\ task' = "idle" /\ left' = <<>> /\ todo' = {} /\ event' = NoEvent
            /\ stuck' = TRUE
       ELSE todo' = todo \ {<<t, d>>} /\ UNCHANGED <<task, left, event, stuck>>
    /\ UNCHANGED <<link, created, data, previous, tables, interfaces, leased,
                   changes, late>>

(* handle_route_remove: what is configured is put back if it can be. *)
HandleRouteRemove ==
    /\ Handle("delroute")
    /\ LET t == Head(queue).table
           d == Head(queue).destination
       IN  IF HasConfig(entity[t][d])
           THEN Apply(t, d, [entity[t][d] EXCEPT !.state = NoRoute], Tail(queue))
           ELSE /\ entity' = [entity EXCEPT ![t][d] = NoEntity]
                /\ queue' = Tail(queue)
                /\ UNCHANGED <<route, ours>>
    /\ UNCHANGED <<link, created, data, previous, tables, interfaces, leased, loop,
                   changes, late, stuck>>

(* handle_interface_add: each table is told, and tries the routes over it. *)
HandleInterfaceAdd ==
    /\ Handle("newlink")
    /\ Begin("linkup", tables, {})
    /\ UNCHANGED <<kernel, data, previous, provider, history>>

TellTable ==
    /\ task = "linkup" /\ todo = {} /\ left # <<>>
    /\ LET t == Head(left)
           i == event.interface
       IN  /\ interfaces' = [interfaces EXCEPT ![t] = @ \cup {i}]
           /\ todo' = {<<t, d>> : d \in {n \in Destinations :
                          /\ HasConfig(entity[t][n]) /\ entity[t][n].state = NoRoute
                          /\ entity[t][n].config = [gateway |-> NoGateway, interface |-> i]}}
    /\ left' = Tail(left)
    /\ UNCHANGED <<kernel, queue, data, previous, tables, entity, leased, task, event, history>>

(* handle_interface_remove. A table that was made after the link raises, and the
   tables behind it are not told. *)
HandleInterfaceRemove ==
    /\ Handle("dellink")
    /\ LET i == Head(queue).interface
           told == {tables[n] : n \in {m \in DOMAIN tables :
                       \A k \in 1..m : i \in interfaces[tables[k]]}}
       IN  /\ interfaces' = [t \in Tables |-> IF t \in told THEN interfaces[t] \ {i}
                                                           ELSE interfaces[t]]
           /\ stuck' = (stuck \/ told # Range(tables))
    /\ queue' = Tail(queue)
    /\ UNCHANGED <<kernel, data, previous, tables, entity, leased, loop, changes,
                   ours, late>>

-----------------------------------------------------------------------------
(* The handlers of leases. The client has no table configured: with one, each
   of them raises at once. *)

LoopRaises == task' = "idle" /\ left' = <<>> /\ todo' = {} /\ event' = NoEvent /\ stuck' = TRUE

HasLease(i, d) == leased[i][d] # NoEntity

(* existing - new, and new - existing *)
Outdated(i, routes) ==
    {<<Main, d>> : d \in {n \in Destinations : HasLease(i, n) /\ routes[n] # leased[i][n].gateway}}
Fresh(i, routes) ==
    {<<Main, d>> : d \in {n \in Destinations :
        routes[n] # NoRoute /\ (HasLease(i, n) => routes[n] # leased[i][n].gateway)}}

(* handle_dhcp_lease_acquired *)
HandleAcquired ==
    /\ Handle("bound")
    /\ Begin("drop", <<>>, Outdated(Head(queue).interface, Head(queue).routes))
    /\ UNCHANGED <<kernel, data, previous, provider, history>>

(* The route is popped before it is removed. *)
DropRoute(d) ==
    /\ task = "drop" /\ <<Main, d>> \in todo
    /\ LET i == event.interface
           args == leased[i][d].args
       IN  /\ leased' = [leased EXCEPT ![i][d] = NoEntity]
           /\ Removal(Main, d, args)
           /\ IF RemoveRaises(Main, d, args) THEN LoopRaises
              ELSE todo' = todo \ {<<Main, d>>} /\ UNCHANGED <<task, event, left, stuck>>
    /\ UNCHANGED <<link, created, data, previous, tables, interfaces, entity,
                   changes, late>>

BeginTake ==
    /\ task = "drop" /\ todo = {}
    /\ task' = "take"
    /\ todo' = Fresh(event.interface, event.routes)
    /\ UNCHANGED <<kernel, queue, data, previous, provider, event, left, history>>

(* The entity is entered, then applied, once: nothing looks at it again. *)
TakeRoute(d) ==
    /\ task = "take" /\ <<Main, d>> \in todo
    /\ LET i == event.interface
           g == event.routes[d]
           hop == [gateway |-> g, interface |-> i]
           insertable == g = NoGateway
                         \/ Accessible(entity[Main], Main, [hop EXCEPT !.interface = NoInterface])
           put == insertable /\ Accepts(Main, hop)
       IN  /\ leased' = [leased EXCEPT ![i][d] =
                            [gateway |-> g, args |-> IF put THEN ArgsFor(hop) ELSE NoArgs]]
           /\ IF put THEN Replace(Main, d, hop, queue) ELSE UNCHANGED <<route, queue, ours>>
           /\ IF insertable /\ ~put THEN LoopRaises
              ELSE todo' = todo \ {<<Main, d>>} /\ UNCHANGED <<task, event, left, stuck>>
    /\ UNCHANGED <<link, created, data, previous, tables, interfaces, entity,
                   changes, late>>

(* handle_dhcp_lease_preinit removes the route to the network of the address. *)
HandlePreinit ==
    /\ Handle("preinit")
    /\ LET i == Head(queue).interface
           networks == {d \in Destinations : Head(queue).routes[d] = NoGateway /\ HasLease(i, d)}
       IN  Begin("preinit", <<>>, {<<Main, d>> : d \in networks})
    /\ UNCHANGED <<kernel, data, previous, provider, history>>

(* handle_dhcp_lease_lost *)
HandleLost ==
    /\ Handle("lost")
    /\ LET i == Head(queue).interface IN
       Begin("release", <<>>, {<<Main, d>> : d \in {n \in Destinations : HasLease(i, n)}})
    /\ UNCHANGED <<kernel, data, previous, provider, history>>

(* One that cannot be removed stays in the table, with those after it. *)
ReleaseRoute(d) ==
    /\ task \in {"preinit", "release"} /\ <<Main, d>> \in todo
    /\ LET i == event.interface
           args == leased[i][d].args
       IN  /\ Removal(Main, d, args)
           /\ IF RemoveRaises(Main, d, args) THEN LoopRaises /\ UNCHANGED leased
              ELSE /\ todo' = todo \ {<<Main, d>>}
                   /\ leased' = [leased EXCEPT ![i][d] =
                         IF task = "preinit" THEN NoEntity ELSE [@ EXCEPT !.args = NoArgs]]
                   /\ UNCHANGED <<task, event, left, stuck>>
    /\ UNCHANGED <<link, created, data, previous, tables, interfaces, entity,
                   changes, late>>

(* The end of the loops; that of a lost lease forgets its routes. *)
LoopEnds ==
    /\ task \in {"dependents", "linkup", "take", "preinit", "release"}
    /\ todo = {} /\ left = <<>>
    /\ task' = "idle" /\ event' = NoEvent
    /\ leased' = IF task = "release"
                 THEN [leased EXCEPT ![event.interface] = [d \in Destinations |-> NoEntity]]
                 ELSE leased
    /\ UNCHANGED <<kernel, queue, data, previous, tables, interfaces, entity, left,
                   todo, history>>

-----------------------------------------------------------------------------
(* start(): the configuration was loaded and its tables made; nothing was known
   to be accessible yet. The reports of what the kernel has are on their way:
   first the links, then the routes. *)
Init ==
    /\ created \in [Interfaces -> {0, 1}]
    /\ link = created
    /\ \E there \in SUBSET {r \in OtherRoutes : link[r[3].interface] # NoIndex} :
          /\ \A r, s \in there : r[1] = s[1] /\ r[2] = s[2] => r = s
          /\ route = [t \in Tables |-> [d \in Destinations |->
                IF \E r \in there : r[1] = t /\ r[2] = d
                THEN [hop |-> (CHOOSE r \in there : r[1] = t /\ r[2] = d)[3], own |-> FALSE]
                ELSE NoRoute]]
          /\ \E links \in SetToSeqs({i \in Interfaces : link[i] # NoIndex}),
                routes \in SetToSeqs(there) :
                queue = [n \in DOMAIN links |-> LinkEvent("newlink", links[n])]
                        \o [n \in DOMAIN routes |-> RouteEvent("newroute", routes[n][1],
                                                               routes[n][2], routes[n][3])]
    /\ data \in Configurations
    /\ previous = data
    /\ \E order \in SetToSeqs({t \in Tables : data[t] # NoTable} \ {Main}) :
          tables = <<Main>> \o order
    /\ interfaces = [t \in Tables |-> {}]
    /\ entity = [t \in Tables |-> [d \in Destinations |->
                    IF Wanted(data, t, d) THEN [New EXCEPT !.config = data[t][d]] ELSE NoEntity]]
    /\ leased = [i \in Interfaces |-> [d \in Destinations |-> NoEntity]]
    /\ task = "idle" /\ event = NoEvent /\ left = <<>> /\ todo = {}
    /\ changes = 0
    /\ ours = {} /\ late = {}
    /\ stuck = FALSE

Others ==
    \/ \E i \in Interfaces : CreateLink(i) \/ TouchLink(i) \/ DeleteLink(i)
    \/ \E i \in Interfaces, routes \in LeaseRoutes : LeaseReported(i, routes)
    \/ \E r \in OtherRoutes : OtherPuts(r[1], r[2], r[3])
    \/ \E t \in Tables, d \in Destinations : OtherRemoves(t, d)
    \/ \E d \in Configurations : Commit(d)

Agent ==
    \/ BeginTable \/ CommitSucceeds \/ OthersFail \/ RolledBack
    \/ HandleRouteAdd \/ HandleRouteRemove
    \/ HandleInterfaceAdd \/ TellTable \/ HandleInterfaceRemove
    \/ HandlePreinit \/ HandleAcquired \/ BeginTake \/ HandleLost \/ LoopEnds
    \/ \E d \in Destinations : DropRoute(d) \/ TakeRoute(d) \/ ReleaseRoute(d)
    \/ \E t \in Tables, d \in Destinations :
          UpdateRoute(t, d) \/ RemoveRoute(t, d) \/ ApplyDependent(t, d)

Next == Others \/ Agent

Spec == Init /\ [][Next]_vars

-----------------------------------------------------------------------------
Settled == task = "idle" /\ queue = <<>>

(* In the kernel: the interface is there, or a route without a gateway leads to
   the gateway. *)
Reachable(t, hop) ==
    IF hop.gateway = NoGateway
    THEN hop.interface # NoInterface /\ link[hop.interface] # NoIndex
    ELSE \E d \in Destinations :
            /\ hop.gateway \in Covers[d] /\ route[t][d] # NoRoute
            /\ route[t][d].hop.gateway = NoGateway
            /\ hop.interface \in {NoInterface, route[t][d].hop.interface}

(* A configured route is there when its next hop is reachable, whoever removed
   it. A table made after the start does not know the interfaces. *)
ConfiguredPresent ==
    Settled /\ ~stuck => \A s \in ConfiguredSlots(data) :
        Reachable(s[1], data[s[1]][s[2]]) /\ s[1] \notin late => route[s[1]][s[2]] # NoRoute

(* A route the agent put is configured, of a lease, or in a table that is not
   configured any more, whose routes stay. *)
UnconfiguredGone ==
    Settled /\ ~stuck => \A s \in ours :
        \/ Wanted(data, s[1], s[2])
        \/ s[1] = Main /\ \E i \in Interfaces : HasLease(i, s[2])
        \/ data[s[1]] = NoTable
=============================================================================
