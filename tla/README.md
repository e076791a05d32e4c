# A verification project for Routesia

Routesia is a configuration engine for Linux routers: an agent process that
keeps a versioned configuration, applies it to the kernel and to a handful of
daemons, and answers remote procedure calls that a command line client sends
through an MQTT broker. This directory holds TLA+ models of it, the TLC
configurations that check them on small instances, and proofs of their most
important properties that TLAPS checks for every value of the constants.

All source paths below are relative to `routesia/`.

## 1. The system

One agent process runs an asyncio event loop. `service.py` constructs the
*providers* (one per subsystem) in dependency order, starts them, and
dispatches events. Besides the main thread there is one thread that waits for
netlink messages (`rtnetlink/provider.py`), and the callbacks of the MQTT
library run on the loop. Clients are separate processes. Nothing is
persisted but the configuration files, the generated files of the daemons and
what the kernel holds.

| Component | State it keeps | Operations | Talks to | What is hard, and what makes it correct |
|---|---|---|---|---|
| Configuration store, `config/provider.py` | `data`, `staged_data` (object references), `<version>.conf` files | load, start, drop, commit with rollback, save | every provider through change handlers; clients by RPC | A handler or the save fails halfway, the process dies in a save, `data` and `staged_data` are one object for a while. Correct: a reply is true, a restart loads what ran, history is not rewritten |
| Event queue and dispatch, `eventqueue.py`, `service.py:290-325` | a deque, an eventfd, a set of tasks, the subscriptions | `put`, `get`, `publish_event`, `handle_eventqueue`, `handle_event` | netlink thread and main thread write, main thread reads | Two threads between the halves of `put` and `get`. Correct: token count fits, every subscriber sees every event once and in order |
| RPC over MQTT, `rpc.py`, `rpcclient.py`, `mqtt.py` | handler table; per client a counter, `in_flight_requests` and futures; the message queue | register, request, response, timeout, connect, disconnect | broker, clients, all providers | Lost messages (QoS 0), no reconnect, late answers, an agent that dies in a handler. Correct: at most once, in order, an answer belongs to its call, a caller comes back |
| Provider loading and life cycle, `service.py:143-260` | the class table, `providers` in order of construction | load, start, stop | all providers | The list is changed while it is iterated, constructors and starts raise. Correct: a provider lives only while those it uses do, the verdict on the dependencies is right |
| Message registry, `schema/registry.py` | a table of message types | register, unpack | RPC | Filled once at start |
| Netlink listener, `rtnetlink/provider.py` | `interface_map`, `interface_name_map`, the thread | dump at start, decode, publish | event queue; interface, address and route providers | The dump races with the thread; maps never forget. Correct: subscribers end with the kernel's state |
| Interfaces, `interface/` | entities per name, dependencies between them | commit, link events, dependent links | netlink, configuration, events | Links come and go in any order against commits. Correct: what is configured and possible exists, and nothing else of ours |
| Addresses, `address/` | entities per (interface, address), DHCP addresses | commit, kernel address events, interface events, leases | netlink, interfaces, DHCP client | Three sources of events for one address. Correct: a configured address is put back, an external one is left alone |
| Routes, `route/` | tables, routes, reachability of next hops, DHCP routes | commit, kernel route events, interface and lease events | netlink, interfaces, DHCP client | A next hop becomes reachable later, leases change. Correct: exactly the reachable configured and leased routes are installed |
| IP address management, `ipam/` | hosts of the configuration, the table made of them | staged CRUD, commit | DNS and DHCP servers | A host is sent back whole; an address that cannot be parsed ends the loop halfway. Correct: the table is made before its readers generate their files |
| DHCP client, `dhcp/client/`, `programs/routesia_dhcpv4_event.py` | a client unit and the last report per interface | staged CRUD, commit, reports from a hook process | systemd, addresses, routes | A client holds a message that staged edits change in place; a rollback compares with it. Correct: each unit was started for the running configuration, consumers see its last report |
| DHCP server, `dhcp/server/` | staged lists of options, classes, subnets, reservations; the interfaces present | staged CRUD, commit, interface events | systemd, IPAM, interfaces | Removal of what was never added, deletion within the loop over a list. Correct: keys stay unique, an accepted edit is done and touches nothing else, the server runs with what is configured and present |
| DNS cache, `dns/cache/` | listening addresses, a pending timer | commit, address events, delayed restart; commands edit a copy of the section | systemd, addresses, IPAM, clients | The timer against commits and restarts. Correct: unbound runs with what the last state asks for, and comes to listen on an address that is there |
| Authoritative DNS, `dns/authoritative/` | listening addresses | commit, address events | systemd, addresses, IPAM | As above without the timer |
| Netfilter, `netfilter/` | `applied` | commit, get and update of the section, flush at stop | nft, clients | A client edits a copy of the section that others change meanwhile; a refused or rolled back ruleset, a crash. Correct: the kernel enforces the running section, names stay unique, an edit is lost only to an overlapping command |
| systemd units, `systemd.py` | none | start, stop, restart of a unit | D-Bus | Thin wrapper |
| Command router and REPL, `cli/__init__.py` and helpers | the command tree, the client | building the tree, matching, completion, running with a timeout, the loop | RPC client | Matching that does not come back, exceptions that end the loop. Correct: a line runs the command it spells, with each value where it was given |
| Line editor, `cli/prompt.py`, `keyreader.py`, `history.py` | the keys read, the input, the cursor, the selector of completions, the row on the screen, the history and its file | keys, completion, recall | terminal, router | Six pieces of state kept up by hand in every key. Correct: what is shown is what Enter will run, and a completion can become a command |
| Command modules, `*/cli.py` | none | read, modify and write back a configuration section, a host, or one item of a list | RPC | Two clients: the second write of a section undoes the first. Correct: only then, and only what was overlapped |
| Programs, `programs/` | none | start the agent, the REPL | all | They name the providers |

Most RPC handlers are coroutines that never await. The event loop therefore runs
them to their end, and the interleavings that matter are those between
processes, between the two threads, between tasks and callbacks of the loop,
and with crashes and failing calls. `PROJECT.json` lists the hazards with the line
where each bites and the properties that watch it.

## 2. What is modelled

| Module | Models | Kind |
|---|---|---|
| `ConfigHistory` | what the configuration store promises | abstract specification |
| `ConfigCommit` | `config/provider.py` | detailed specification |
| `EventBus` | `eventqueue.py` and event dispatch of `service.py` | detailed specification |
| `RemoteCall` | what a remote call promises its caller | abstract specification |
| `RpcTransport` | `rpc.py`, `rpcclient.py`, `mqtt.py` | detailed specification |
| `ProviderLoad` | loading, starting and stopping in `service.py` | detailed specification |
| `Service` | `service.py` as a whole: `ProviderLoad` and `EventBus` run together (`EventSizes` holds the constants they share) | composition |
| `RtNetlink` | `rtnetlink/provider.py` and its events, against a kernel that changes | detailed specification |
| `AddressTable` | `address/` against the kernel's address table | detailed specification |
| `RouteTable` | `route/` against the kernel's routing tables | detailed specification |
| `InterfaceTree` | `interface/` against the kernel's links | detailed specification |
| `NetfilterSection` | the commands of `netfilter/cli.py` and the ruleset of `netfilter/config.py` | pure operators |
| `Netfilter` | `netfilter/provider.py`, clients that run those commands, and the kernel's ruleset | detailed specification |
| `HostServers`, `LeaseClients` | what `ipam/`, `dns/`, `dhcp/server/` and `dhcp/client/` do in their change handlers | pure operators |
| `HostServices` | those providers together, against commits, events, reports of dhclient, faults and restarts | composition |
| `StagedLists` | the loops over repeated fields | pure operators |
| `DhcpServerSection`, `DnsSections` | the requests on the DHCP server's section, the commands on the sections of the DNS servers and on the hosts | pure operators |
| `StagedEdits` | two clients that run those commands at the same time | detailed specification |
| `CommandTree` | the router of `cli/__init__.py`: the tree, matching, binding, completion | pure operators |
| `LineEditor` | the key handlers of `cli/prompt.py`, `cli/history.py`, and the row of the terminal | pure operators |
| `CommandLine` | `cli/keyreader.py` and the loop of the REPL, with those two | composition |
| `MCConfigCommit`, `MCRpcTransport`, `MCService`, `MCRtNetlink`, `MCAddressTable`, `MCRouteTable`, `MCInterfaceTree`, `MCNetfilter`, `MCHostServices`, `MCStagedEdits`, `MCCommandLine` | instances for TLC | |
| `ConfigCommitProofs`, `AgentProofs`, `RtNetlinkProofs`, `AddressTableProofs`, `RouteTableProofs`, `InterfaceTreeProofs`, `NetfilterProofs`, `HostServicesProofs` | theorems | |

`Service`, `HostServices` and `CommandLine` compose modules directly. The others are connected by what one shows and the next
assumes: `RtNetlink`, `AddressTable`, `RouteTable`, `InterfaceTree` and `HostServices` take from `EventBus` that events arrive in order,
once; the last four, and `Netfilter`, take the order of calls of `rpc_commit` from `ConfigCommit`; `Netfilter` and `StagedEdits` take
from `RpcTransport` that a request is handled at most once, or lost.

### ConfigCommit

`heap` holds the two live `Config` objects; `data` and `staged` say which of them
`ConfigProvider.data` and `staged_data` refer to, because `rpc_commit` makes both
the same object while it tries the staged configuration, and a `save_config` that
raises leaves them so. `applied` is what each change handler's subsystem was last
given, or `Mixed` when it raised in the middle. `files` are the
`<version>.conf` files.

`rpc_commit` is cut into one action per call it makes (`CommitBegin`,
`HandlerAccepts`, `HandlerRaises`, `AllAccepted`, `RollBack`, `RolledBack`,
`OpenFile`, `WriteFile`, `SaveRaises`), with `pc` as the position in it, because the
process can die, and each of the calls can raise, between any two of them. No other
RPC runs in between: the coroutine does not await. What is written to a
file that was truncated and not finished is one of three outcomes (`Torn`): empty,
which parses as a blank configuration of version 0, text that does not parse, or
a prefix that still has its version.

Abstractions. The configuration RPCs of the subsystems all write into
`staged_data` in place; they are one action, `EditStaged`, that puts any content
there. `Contents` leaves out `system.version`, which is modelled apart.
`InitConfig`, the very first start on an empty directory, is one step. A provider
whose `start()` does not apply the configuration (the DNS cache, for instance) is one that is
not in `StartApplies`. A commit at `MaxVersion` is not taken: the bound on the
versions. The content `Mixed` never is a configuration, so a subsystem
left halfway is told from every proper state.

### EventBus

Events are numbers, in the order in which they were appended to the deque. The
netlink thread and the main thread each take the two steps of `put`; `get` is the
two steps `ReadToken` and `Pop`. `mpc` is what the main thread is doing: starting the
providers (events are published already, but nobody reads), turning the loop, inside
`put`, draining, between the halves of `get`, or in a task. A task
calls the subscribers one after the other, whether they return or raise, and any of
them may publish.

Abstractions. All subscribers subscribe to one event class; the order between two
classes is that of their tasks and the same. The subscribers of this code base do not suspend (they
are plain functions, or coroutines that do not await anything that waits), so a task runs to its
end. asyncio starts tasks in the order in which they were made.

### RpcTransport

`cpc`, `clink`, `nextId`, `inFlight`, `result` are the state of each client program, of
its connection, and of `RPCClient`; `result` is the future's result between
`set_result` and the wake-up of the coroutine that awaits it. `queue` is everything
between the clients' publish and the agent's `main()`, the broker's part followed by
the agent's `messagequeue`. When the agent loses its connection it keeps what
it had received and loses the rest, so `queue` becomes one of its
prefixes; when it dies all of it is lost. A response goes to whoever is
subscribed to the topic made of the client's UUID.

QoS 0: every publish may be dropped (`Publish`, `SendResponse`). What
is delivered on one connection is delivered in order. Neither side reconnects
in the code, and the model has no such action; a client process that lost its
connection can still call, and times out.

`Refuse`, `Ignore`, `CallHandler`, `HandlerReturns`, `HandlerRaises` are
`handle_request`: no such method or a missing argument is answered; an argument of
an unknown type, or one that cannot be unpacked, raises out of the handler
into the log and is never answered; otherwise the handler is called, and answers, or raises.
The handler is a step with a beginning and an end, so that the agent can die between
them.

History variables `made`, `begun`, `done`, `told` record calls, method starts,
returns, and what callers learnt. They are the state of `RemoteCall`.

Abstractions. Method names and arguments are not modelled: which of the outcomes a request
has is a choice. Topic matching is left out, each topic having one receiver. UUIDs do
not collide (`ClientId`).

### ProviderLoad

`pending` is `pending_providers`, a list made from a set: any order. `i` is the position
of the `for` loop in it. Removing an element during the iteration moves
the next one under the position already passed (`Construct`), so that it is skipped until the
next pass. `requires` is chosen in `Init` from *all* relations among the
providers and one class that was never added. A constructor, a `start()` or
a `stop()` may raise, which leaves `load_providers`, `start_providers`,
`stop_providers` and ends the process.

### Service

`ProviderLoad` says what `run()` does with the providers, `EventBus` what the queue does with events; neither says when. `Service` is
the two with the schedule of `service.py`. `start_providers` runs on the event loop without suspending, so events
are published (`PublishAtStart`, and the netlink thread from the `start()` of its provider, `Monitor`, on) but none is handled
before `EnterLoop` adds the reader. `stop_providers` stops the providers from the last constructed to the first without suspending either, but for
`MQTT.stop`, which awaits the task of the client (`suspended`): events are handled meanwhile, when those that were constructed after
MQTT are stopped and those before it are not. The netlink thread is not stopped; it publishes until the process ends. `Users` are the providers that use MQTT, by
themselves or through the RPC provider; the subscribers are among them.

### RtNetlink

`link`, `addr`, `born` are the kernel: the name of each interface, the interfaces that
have their address, the indexes used. Interfaces are created, renamed and deleted, addresses
come and go at any time. `socket` is what the thread (`tpc`) has not received; messages
before its `bind()` are not received at all. `start()` (`mpc`) starts the thread, then reads the
links and the addresses in two dumps, and publishes each entry. Both write the maps and both
publish, with the constructor of the event, which reads the maps, as one step and the
publication as another.

`viewLink`, `viewAddr` are what a subscriber that keeps what it was told would know. Publishing changes them at once:
the event bus keeps the order, and `EventBus` shows that.

An address message for an interface that the map does not know raises
`InterfaceDoesNotExist`: in the thread it ends the thread, in `start()` it ends
the agent (`ReceiveUnknown`, `StartRaises`).

History variables: `raced` says that the kernel changed while `start()` was at work, `missed` that it
changed after a dump and before the thread was bound, `renamed` which interfaces changed
their name. Routes, which are dumped after the addresses, are left out: they name interfaces as addresses do.

### AddressTable

`link`, `created`, `held` are the kernel; `queue` is the events on their way to the
provider; `data` and `previous` are the configuration that `rpc_commit` is trying and the one before it;
`interfaces`, `entity`, `lease` are `AddressProvider`'s three tables. An entity has `config`, `index`
(`ifindex`), `seen` (whether `status.address` was filled) and `state`.

The handlers of events do not await, and are one action each, except where a loop of theirs
calls the kernel for one entity after the other and such a call raises: then the rest is not reached. Such loops
are steps, one entity each, with `task` as the loop and `todo` as what it has left:
the two loops of `on_config_change`, in a commit (`remove`, `update`) and in its rollback (`unremove`, `unupdate`),
and the loop of `handle_interface_add` (`linkup`). `Calls` says what `apply()` makes the kernel do, and
`Applied` what is left in the entity.

Abstractions. An address is an interface and an IP in the kernel's spelling. What a configuration says beyond
that is one of `AddressConfigs`; the kernel reports `Reported`, that is, a configuration with a scope never equals what is
reported. Peers are left out. The index of a link is how many times the interface was created. Reports are in order (`EventBus`).

History variables. `foreign` are the addresses that others put and no configuration named,
`ours` those that the agent put for a configuration; `lost` are addresses that went without the agent; `hasty` are
addresses whose configuration went, or came back, while a report of the agent's own call was still under way;
`stuck` says that a rollback or a loop ended halfway. The last three are the preconditions of the properties, and each
is something the code does not handle:

- An address that somebody else removes, or that goes with its link, is not put
  back: `status.address` still says what was seen, so `apply()` finds nothing to do (`lost`).
- An address whose configuration is removed before the kernel has reported it stays (`hasty`). If the configuration comes back while the
  report of the address it had put is still under way, that report arrives for the new entity, which then takes itself for present
  although the address is gone; this takes five changes (`Unreported`).
- An address configured with a scope is removed and added again by each `apply()`, and the removal raises when the link was
  replaced meanwhile; that cuts `handle_interface_add` short (`stuck`).
- A commit that removed an address and then failed does not put it back: `remove()` leaves `status.address` as it was, so that the
  rollback's `apply()` finds the configuration already there.
- The address of a lease is never removed: the entity of a lease gets no reports, and
  `handle_dhcp_lease_preinit` looks it up with an address object in a table whose keys are text.

They are behaviours of the model, each reached in the run. No text of the repository promises
otherwise, so they are preconditions and not findings.

### RouteTable

`link`, `created`, `route` are the kernel; `tables` is the order of the dictionary `RouteProvider.tables`,
`interfaces` and `entity` are the interface set and the routes of each `TableEntity`, `leased` the `dhcp_routes` of the main table. An
entity has `config`, `state` (the next hop that was reported) and `args` (`route_args`, what it asked the kernel for).
`task`, `event`, `left`, `todo` are the handler that runs, what it handles, and where its loops are: over the tables, and
over the routes of one table. Each round that calls the kernel is a step, because an exception ends the loops.

What the kernel accepts is modelled as far as the code depends on it: a next hop needs its link, or a route without a
gateway that leads to its gateway in its table or the main one (`Resolved`); a route is deleted if it is the agent's and what
was asked for (`Deletable`). `interface_name_map` never forgets (`created`). When a link is deleted its routes are
reported first; Linux keeps silent about the IPv4 routes of a link that goes down, which the code has no
answer to and the model leaves out.

Abstractions. A route has one next hop; metrics, scopes and sources are left out. The main table is always configured
(`init_config`, and the RPC refuses to delete it). A lease has one gateway for each destination. A lease of a client with a `table` is left
out: all three handlers refer to `table` before it has a value, and raise.

History variables as in `AddressTable`, and `late`, the tables made after the start. Behaviours that are preconditions of
the properties, or the reason why one is stated of configured routes only:

- The default route of a new lease is applied once, before the route to the lease's own network has been reported, when its gateway
  counts as unreachable. `handle_route_add_event` looks for dependents only among configured routes; a renewal finds the route.
- A table made by a commit does not know the interfaces that exist, so that its interface routes are not installed
  until the interface is reported again; the removal of an interface raises in such a table (`late`).
- The routes of a table that is deleted from the configuration stay, in the kernel and as entities; so do those of a table that a
  rolled back commit added.
- A dependent route that the kernel refuses ends the loop, and the others are not tried (`stuck`). So does the removal of a
  lease's route that is gone already, which then leaves the lease in `dhcp_routes`.
- A commit that removes the configuration of a route that is gone and not reachable fails, each time: `remove()` asks the kernel
  to delete what it asked for, the kernel refuses, and the exception counts as the handler's failure.
- A route that was there as configured when the agent started is not the agent's to remove (`args` is empty).

### InterfaceTree

`link`, `created` are the kernel's links with their index, state, master and trunk; `entity` is `InterfaceProvider.interfaces`, with the
class it was made with, `config`, `ifindex` and `up`; `dependencies` is `interface_dependencies`, which only `start()` fills. `task`, `event`, `left`,
`todo` are the handler that runs and where its loop is, over the dependent interfaces of an event or over the interfaces of a commit.

The operators on `k` are requests to the kernel: each takes the links and the queue, and returns what they are after it and whether the request was
refused, which raises in the caller. `Apply` is the composition the code makes of `create` and `apply_link_config`; two requests of
one `apply()` are one step. The kernel deletes the VLANs on a link with it, releases the ports of a bridge, and keeps a VLAN down while its trunk is.

Abstractions. Three types stand for five (see the module); a VLAN's trunk is a physical link; addresses are not flushed here
(`flush_addresses` deletes what `AddressTable` puts back or takes for the act of another program). A request in which the master is `None` is taken to leave the master alone, as pyroute2 does. `IFLA_KIND` is an attribute of the nested link
info and never found where `InterfaceEvent` looks, so a link without a configuration gets an Ethernet entity. The dynamic configuration has no caller.

History variables: `taken`, the virtual links others deleted, or that were on another trunk than the configured one when that went; `orphaned`, those whose configuration was removed before
the creation of the link was handled; `stale`, those whose removal was handled halfway; `stuck`, those whose last request, or that of a handler that was to
reach them, was refused, and VLANs that a handler passed over, because the removal of their link had yet to be handled; `broken`, that a rollback failed. They are the preconditions, and are behaviours of the code:

- When a trunk goes, `handle_interface_remove` calls `on_dependent_interface_add` of its VLANs before it forgets the trunk. They
  ask for the link again, on an index that is gone; the exception ends the handler, and the trunk stays listed
  until it is back (`stale`). The same holds for a bridge and its ports. `on_dependent_interface_remove` has no caller.
- A configuration that is removed, or rolled back, before the report of its link leaves the link behind, and its entity
  comes back as an Ethernet one that will not delete it (`orphaned`).
- A VLAN that is added by a commit while its trunk is away is not made when the trunk comes (`dependencies`).
- A virtual link that another program deletes is not made again (`taken`). Nor is a VLAN that a commit moved to another trunk, which
  leaves its link on the old one, when that trunk goes.
- A virtual interface that is reported while it is not configured gets an Ethernet entity, keeps it when it is configured again, and is then not made when it is missing.
- When a trunk goes, its VLANs are reported first, but a VLAN with another report still on its way counts as there: `on_dependent_interface_add` passes over
  it, and nothing asks again before the trunk is reported the next time (`stuck`).
- A link that is up already joins its bridge only if the bridge is reported after it. No property is stated about masters.

### NetfilterSection and Netfilter

`NetfilterSection` says, command by command, which sections the client may send back for the section it got. The set is empty
when the handler raises first, since the update request is the last thing every handler does. `Handlers` is the table of the sixteen families of match
commands: what each gets done before Python or protobuf stops it. Reading it off the code showed that much of
`netfilter/cli.py` cannot work, and the model says so instead of what the names promise:

- No match can be added: every `match add` assigns to a repeated field, which protobuf refuses. Matches come from the file alone.
- `masquerade remove` is registered with the handler of `masquerade add`, and refuses what it should remove.
- The port commands compare an address object with text and always refuse; port maps therefore never change and are left out.
- `forward policy` raises, as do the `icmp6` and `meta` match commands of the input chain.
- `zone remove` leaves the rules that name the zone. `config.py` resolves an unknown zone to no interface, and a rule whose zones have no interface has no
  interface restriction any more (`SideInterfaces`).

`Position` is Python's indexing, negative indices included.

`Netfilter` has the four copies of the section: `staged`, `running`, `saved`, and the copy that each client edits (`task`). A command is three steps:
`Read` gets and edits, `Write` is the update request, `GiveUp` is a timeout, an interrupt or a lost request. A commit is
`CommitApplied` and `CommitSaved`, with a crash possible between them, or `CommitRolledBack`, one step because
`rpc_commit` does not await, and `Crash` in the middle of it has the outcome of a crash before or after. `Apply` is `apply()` with its three ways out.
`ruleset` is abstract: `Render` of a section, `Nothing`, or the `Foreign` one that was there before. A crash of the machine
empties it, one of the process leaves it.

Abstractions. Other sections are left out; because of them a commit with an unchanged netfilter section is possible, and the handlers of other providers may
fail at any time. `save_config` that raises or tears the file is the matter of `ConfigCommit`. nftables takes a ruleset whole or refuses it whole;
what it refuses is modelled by a description that cannot be quoted (`Unquotable`). `netfilter config list` and the completers only read.

History variables: `raced` marks the commands whose copy is older than the staged section, `found` is the ruleset that the process met at its start. Behaviours that
are preconditions of the properties:

- The update sends the whole section. A command that overlaps another one puts back what the other removed, and loses what it added (`raced`).
- A process that dies between applying and saving leaves the ruleset of a configuration that was never saved. If the saved one is disabled, the
  next process has applied nothing and flushes nothing: the ruleset stays (`found`).

### HostServers, LeaseClients and HostServices

`HostServers` is what a change handler or an event handler of `ipam/`, `dns/` and `dhcp/server/` does, as operators on the
provider's state: the files it writes, in order, what the unit runs with, whether it raised and after which file. A file is what it was
generated from. `LeaseClients` is the same for `dhcp/client/`. `HostServices` runs them: `data` and `staged` are the
configuration, `table` the hosts of IPAM, `cache`, `nsd`, `kea`, `clients` the providers with their units, `holds` and `links` the kernel, `queue` the
events on their way, `inbox` what the hook program (`programs/routesia_dhcpv4_event.py`) has sent. A commit is one action: it does not await. It
calls IPAM before the others, because IPAM is constructed before the providers that use it and registers its handler in its constructor;
`CallHandlers` gives the states after all handlers, one of which may raise, and a failed commit calls them again with the previous configuration.

`timer` is the delayed restart of the DNS cache: an address event cancels the one that is pending and starts another; a commit applies at once
and leaves it. The client provider keeps the message of the configuration it was given. After a failed commit that
message is part of `staged_data`, so that the next edit changes the client's configuration under it (`shared`).

A scope says which sections are at work together. They interact through the host table and through an exception of one (`another`); four scopes
cover every pair that does. Abstractions: one address that all DNS servers are asked to listen on; hosts by name, with or without an address that
does not parse; units start, or do not, at once.

Behaviours that are preconditions of the properties, or shape the model:

- The DNS cache's `start()` starts its unit with the files there are, without applying the configuration.
- An interface that is removed and was never added makes `set.remove` raise in the handler of the DHCP server.
- The loop of IPAM stops at an address that does not parse: the hosts before it are in the table, the rest are not. The commit
  fails, its rollback makes the table again.
- A rollback that systemd refuses one client leaves those after it with the unit of the failed configuration (`troubled`).
- A unit outlives the agent: after a crash a dhclient may run for an interface whose client the configuration no longer has.

### StagedLists, DhcpServerSection, DnsSections and StagedEdits

`StagedLists` is what the loops over repeated fields do, `for ... break` and the deletion inside the loop without a `break`, which skips
the next item, included. `DhcpServerSection` is the request handlers of `dhcp/server/provider.py` with the commands of `dhcp/server/cli.py` that send them: one
request for each item. `DnsSections` is the commands of the two DNS servers, which send back a whole section as those of netfilter do, and
of IPAM, which send back a whole host. All commands have one shape, an operation on an item of a list of the section or of one
of its entries. An edit is the set of sections it may leave, empty when a handler raises.

`StagedEdits` runs two clients: `Ask` gets and edits, `Accept` is the agent's handler, `Fail` a refusal, a loss or a
timeout. Sections share nothing, so one is looked at at a time.
Reading the code showed, and the model says:

- `subnet delete` never works (the address it sends is the text of an empty message), nor does the authoritative server's `listen-address add` (the handler has no argument of the
  name that is registered); a reservation is refused when its subnet has one.
- An addition of an option compares names only, so a second option that goes by its code is refused. In a client class an option may have a
  name and a code: an update by code of one without a name is copied over every option of that code, named ones too, and leaves equal
  copies (`cli.py` 699-721, `provider.py` 358-362 and 388-390). A deletion by code then leaves every other of those that lie side by side.
- An update on the DHCP server names one or a few fields, but sends a whole item, or all settings, as it was read: sent late, it takes
  back what others have added to the subnet or the class since, and the other settings (`cli.py` 373-389, 556-574, 811-832).
- The lists of listen addresses and access rules never find a duplicate: text is compared with address objects.
- A record that is updated may become equal to another one; `host update` sends a host without its aliases and addresses.

These are why `KeysUnique` leaves out some lists (`Bags`) and lets nameless options of a class be copies (`NamesOrCopies`), why `OthersKept` speaks of
stale requests apart, and why `DoneAsAsked` asks less of some deletions (`Ambiguous`). A subnet's
leases are asked from Kea by the position in the staged section, while Kea numbers by the running one; it is only read, and not modelled.

### CommandTree, LineEditor and CommandLine

`CommandTree` is `CommandRouter` and `CommandNode`: the tree made of the registered commands, the descent along the words of a line, keyword
arguments in pairs, what runs and what may follow. A word is a sequence of letters, so that prefixes and completions are real.
`LineEditor` is every key handler of `cli/prompt.py` as an operator from a prompt to a prompt; `row` is the terminal's row right of the
prefix as the escape codes written so far have left it, character by character, because that is what can go wrong. `CommandLine` is the loop:
`Read` (what the terminal has, through the escape sequences of `cli/keyreader.py`), one action for each key, completion that times out or raises,
`handle_command`, the history and its file between sessions.

Behaviours that the properties exclude, or that the model shows:

- The row is written wrongly in three cases, after which it is no longer followed (`followed`): completing in front of the first
  word (the fragment under the cursor at position 0 is looked for with `input[-1]`), a completion put over a longer word, and a
  completion that clears the rest of the row under an open selector.
- Home and End leave an open selector open (`strayed`).
- A positional value that is spelt like its argument's name is taken for a name, and the command is refused (`ValueIsName`).
- The first child that takes a word is final: of `show :arg1 foo` and `show :arg2 bar` (as `tests/cli/test_cli.py` 437-461 registers them) the
  second never runs (`DrawnAway`). The 288 commands of the modules have no argument beside another child; one path, `address show`, is registered
  twice, both times with the same handler.
- A wrong keyword before Tab, a keyword given twice on Enter, or any error of a completer beyond those `prompt()` catches, ends the client.
- Ctrl-V quotes nothing; keys typed ahead of an Enter are lost with their key reader; an empty history file loads as one empty line.

Abstractions. Arguments are not converted to their types; output, and what is printed around the prompt, is left out. Lines are shorter than the terminal.

## 3. Runs

| Run | Instance | Properties | States |
|---|---|---|---|
| `config_commit` | two handlers, one of which applies at start; two contents beside the empty one; versions 0..3 | `SuccessIsEverywhere`, `RollbackRestores`, `RunningIsDurable`, `CommitAnswered`, `RefinesHistory` | 549,978 |
| `config_history_lost` | the same | `HistoryNeverRewritten`, **violated** | |
| `service` | three providers and an absent class, every relation; two subscribers, three events | `TokensMatchItems`, `RequirementsServed`, `AllOrNoneActive`, `InOrder`, `EventuallySeen`, `LoadingEnds` | 150,864 |
| `rpc_transport` | one client with two calls and one with one | `EveryCallEnds`, `RefinesRemoteCall` | 388,864 |
| `rtnetlink` | two interfaces, two names, four changes | `SettledView`, `NothingMissed`, `NamesAreKnown` | 1,556,719 |
| `address_table` | two addresses of one interface, with and without a scope, two changes | `ConfiguredPresent`, `UnconfiguredGone`, `PresentIsTrue`, `ComesToRest` | 476,445 |
| `route_table` | one interface, three destinations of which two cover the gateway, two tables, two leases, two changes | `ConfiguredPresent`, `UnconfiguredGone` | 1,174,233 |
| `interface_tree` | a physical link, a VLAN on it, a bridge; four configurations, one refused; two changes | `StateIsTrue`, `UpKept`, `VirtualPresent`, `RemovedGone` | 804,231 |
| `netfilter` | two clients and two commands; two zones, one interface; the initial section empty or with one rule and one match in each chain; indices -1 and 0 | `NamesUnique`, `RulesetIsRunning`, `AtomicUnlessRaced` | 444,338 |
| `host_services` | two interfaces, two tables, two hosts, one of which does not parse; two edits, commits, changes, faults and reports, one restart; four scopes | `ServedIsCurrent`, `ClientsRunAsConfigured`, `LastLeaseReported`, `AddressReachesCache` | 501,151 |
| `staged_edits` | two clients; each kind of section from one with an entry in most of its lists, the DHCP server's with three lists of options in its class | `KeysUnique`, `OthersKept`, `DoneAsAsked` | 657,848 |
| `command_line` | seven commands over words of two letters; a new history and three edits, or one of two earlier ones of three lines and one edit | `RunsWhatWasTyped`, `LineShown`, `SelectedIsVisible`, `CompletionLeads` | 5,251,601 |

No run checks a type invariant: those of `ConfigCommit`, `EventBus`, `RpcTransport`, `ProviderLoad`, `RtNetlink`, `AddressTable` and `InterfaceTree` are
theorems (`TypeCorrect`, `BusTypeCorrect`, `RpcTypeCorrect`, section 5). The other modules have none; a value of a wrong kind would stop TLC in the guards and lookups.

**config_commit.** After "Committed version N" every subsystem has exactly that
configuration, `N.conf` holds it, and no later edit reaches it
(`SuccessIsEverywhere`, which must stay true until the next commit). After a failed commit whose
rollback went through, every subsystem has the running configuration
again (`RollbackRestores`; nothing is promised when the rollback fails too, whose result the
code does not look at). As long as every save was completed, a restart loads what was running (`RunningIsDurable`),
and the store implements `ConfigHistory` (`RefinesHistory`): what runs changes by a successful commit alone, and no version that was saved is written again.
Every commit is answered or the process dies (`CommitAnswered`). Two handlers are the fewest at which one can fail after
another accepted. Versions up to 3 allow a successful commit, a failed one, and a
commit on top of it whose version was counted up twice. Deadlock is
checked: the agent is restarted for ever.

**config_history_lost.** The one finding. `README.rst` promises "a
configuration system that tracks history". `save_config` truncates `<version>.conf` in
place; a crash between the `open` and the end of the write leaves the newest file
empty. An empty file parses. The next start takes it for the
newest configuration, which is blank and of version 0, and the commits after that count up from
there and overwrite the intact `1.conf`, `2.conf` of earlier commits. TLC
shows the sequence of steps.

**service.** In every interleaving of the two threads the eventfd has one token per item
in the deque, counting those halfway through (`TokensMatchItems`), so `popleft` never
finds the deque empty and no item is left without a wake-up, from before the reader is added until the process ends. Every subscriber is called with
every event, in order, though others raise or publish (`InOrder`,
`EventuallySeen`). For every dependency relation and every order of the list no provider exists, runs, or is being stopped while one it uses is not
(`RequirementsServed`), loading ends although the list is changed while it is iterated (`LoadingEnds`), and no subscriber is ever called while some of the providers that
events and requests connect are at work and others are not (`AllOrNoneActive`): in particular the events that are handled while `MQTT.stop` waits find
all that use MQTT stopped. Three providers are enough for a chain, a fork, a loop beside a provider that loads, and a provider on each side of MQTT. Three
events allow one before the reader is added, one in a task and one published by a subscriber. The program ends: no deadlock check.

**rpc_transport.** A caller comes back whatever is lost
(`EveryCallEnds`); and the transport implements `RemoteCall`: at most once, in
the order of the client's calls, and no answer is told to a caller that is not true of its
very call, late answers and agent restarts included
(`RefinesRemoteCall`). Two calls of one client are needed for the late
answer of the first to come in during the second; the second client
shares the agent's queue. Deadlock is checked: the agent restarts for ever.

**rtnetlink.** If the kernel kept still during `start()`, the subscribers end with what the kernel
has and both maps are right about it (`SettledView`), and neither thread meets an interface that it cannot name, because
the maps never forget (`NamesAreKnown`: with maps that forget, the report of an address of a deleted interface would
end the thread). Changes during `start()` leave stale entries behind, since an entry of a dump can be published after
its removal, but nothing that is there is unknown, if the thread was bound in time (`NothingMissed`). The address of a
renamed interface stays known under its old name. Four changes allow two interfaces to exchange a name during a
dump. The bound on changes ends the run, and a failed start is an end, so deadlock is not checked.

**address_table.** When the reports are handled: an address that is configured is there if its interface is
(`ConfiguredPresent`), an address the agent put and that is not configured any more is gone (`UnconfiguredGone`),
what is listed as present is there (`PresentIsTrue`); each up to the preconditions
above. With configurations that the kernel reports as they are it comes to rest (`ComesToRest`: it does not answer its own reports for
ever). Two addresses on one interface are the fewest at which a loop can be cut short. Two changes
allow a commit within the reports of another change, or a link that comes and goes; initial
states range over all configurations and all contents of the kernel. The safety
properties were also explored with three changes (8.1 million states with a bounded queue), and on one address with five, which
is where a late report meets a configuration that came back. The bound ends the run: no deadlock check.

**route_table.** When the reports are handled a configured route whose next
hop is reachable is there, in whatever order links, routes and commits came and whoever removed it (`ConfiguredPresent`), and a route the
agent put is configured, leased, or in a table that was deleted (`UnconfiguredGone`). A destination that covers its own gateway is needed for a route that
makes itself accessible, a second for a loop with more than one dependent, a second table for tables that are made late. Two changes
allow a commit, a link or a lease within the reports of another change. A smaller instance (one table, one lease) was
explored with three changes. The bound ends the run: no deadlock check.

**interface_tree.** When the reports are handled: `interface/list` shows the links of the kernel (`StateIsTrue`); an interface that is configured up
is up, whoever put it down and whichever of its link and its configuration came last (`UpKept`); a virtual interface is there when its
trunk is, however often the trunk was removed and came back, and although the handler of its removal raises (`VirtualPresent`); no link of the agent outlives its configuration
(`RemovedGone`); each up to the preconditions above. A trunk with a VLAN that is also the port of a bridge is the least with both
kinds of dependence. Initial states include what an agent that was killed left behind. Two changes take a trunk away and bring it back, or let a commit
fall between a change and its report; larger instances (four interfaces, seven changes) were explored by simulation. The bound ends the run: no deadlock check.

**netfilter.** Handlers look names up and stop at the first; no zone, masqueraded interface, interface of a zone or zone of a rule is
listed twice in any copy of the section, though the check is made on a copy that may be old when it is
written (`NamesUnique`). Between requests the kernel enforces the running section, or nothing once it was disabled, or
what the process found if it never applied anything, whatever was refused, rolled back, or interrupted by a crash (`RulesetIsRunning`). The staged section changes by the whole effect of one
command on what is staged, by a drop or a restart, or by a command that was overlapped
(`AtomicUnlessRaced`): nothing else loses an edit. Two commands of two clients are the least that overlap; two
of one client remove a zone and write a rule that names it. Index -1 is the one at which Python and a naive reading differ. The instance has one
family of matches; one with two was explored as well (1.27 million states). The bound `MaxCommands` does not stop the
run (the agent restarts for ever), so deadlock is checked.

**host_services.** With every event handled and no timer running, each server's files and unit are those that the running configuration, the table of hosts and what is known of addresses
and interfaces ask for, whatever commits, rollbacks, events and restarts came in which order (`ServedIsCurrent`). That includes the order of IPAM before its readers, a rollback
that meets a half written set of files, and a timer that fires after a commit. It is not promised after an `apply()` that raised, nor for the DNS cache between a start of the
agent and its first `apply()`. unbound comes to listen on an address that is there, however the timer is
started and cancelled (`AddressReachesCache`). Each dhclient runs for, and was started since, the configuration of its interface, although the configuration it is compared with is
a message that edits may have changed in place (`ClientsRunAsConfigured`); and the address and route providers were last told what it
last reported, for the table it is configured for (`LastLeaseReported`). Two commits are a configuration and one over it, or a failed one and its retry; two changes an address that comes and goes
while the timer runs. The bounds end the run: no deadlock check.

**staged_edits.** Lookups stop at the first match, or change all: in no list is a key listed twice, however commands, drops and commits interleave, but for the nameless
options of a client class, which may be copies of each other (`KeysUnique`). An accepted command leaves everything it does not name as it was and in order (`OthersKept`): the item
next to one that a deletion inside a loop skips, and of an item that it updates the other fields and all of its lists. That is promised as long as the command would still send the same request
(`Stale` is the contrary). A stale one does lose the edits of others: on the DHCP server those inside the subnet, the class, the option or the settings that an update sends back, on IPAM those inside the host,
and on the DNS servers those in the whole section. Outside of what the request carries it changes nothing (`Outside`). Additions and deletions on the DHCP server read nothing and are never stale. What was accepted was done: the item added is there
as given, and after a deletion nothing of that key is, or, where several items share what it gives, as many less as its loop takes (`DoneAsAsked`). A client class starts without options or with
two, so that a code is shared and an update by code makes copies. Two clients are what a stale copy takes; `MaxEdits` bounds the requests, after which drops and commits
go on, so deadlock is checked.

**command_line.** What runs is a command of the form that `add_command` documents, which the line fits, with each value under the argument it was given for; and a line that fits a command runs it, unless
another one draws it away or a value is spelt like its argument's name (`RunsWhatWasTyped`, against a reference definition without the tree). A line may fit two commands, as `show foo all` does beside `show foo :arg`, or only one that the
router does not come back to, as with `show :arg1 foo` and `show :arg2 bar`. `DrawnAway` says which of them gives way, by the patterns and their order alone: to the word that was typed, or to the argument that was registered first. What the row shows is the line that Enter will run, with the cursor where the next key
takes effect (`LineShown`); what Space or Enter would insert is among the completions shown (`SelectedIsVisible`); a completion changes the last word only, and if what was there
could become a command it still can (`CompletionLeads`). Three words at the top make a selector of two rows scroll. `budget` bounds the keys that insert, delete or enter; moves, recalls and completions are not bounded. Three such keys
make a word, a blank and a key in the middle of them; the earlier lines bring keywords, a word beside an argument and two arguments beside each other, and one edit of them reaches a refused or changed command. The client is started again: deadlock is checked.

Every property of a passing run has a mutant, a plausible bug written beside the definition
it changes (marked *Mutant* in the modules), under which TLC finds the property violated.

## 4. Fairness

Only what the code's scheduling gives.

- `WF(CommitStep)`: `rpc_commit` does not await; the event loop runs it to its end. Handlers are
  taken to return or raise. Starting, editing, crashing and restarting are not fair.
- `Service`: `WF(Load)` and `WF(Start \/ EnterLoop \/ ...)`, since `load_providers` and `start_providers` contain no await; `WF(HandleEvents)` and
  `WF(ThreadPublishes)` within `put`: the event loop turns, and the operating system schedules the two threads. That anything is published, and that the service is stopped, is not fair.
- `WF(Timeout(c))`: each client's clock runs. Neither the broker nor the agent, nor
  the delivery of any message, is fair; that is why `EveryCallEnds` means something.
- `HostServices`: `WF(HandleEvent)` and `WF(TimerFires)`: the event loop turns, and its clock runs. Commits, changes, reports and restarts are not fair.
- `WF(Agent)` of `AddressTable`: the event loop turns, and the handlers of the provider do not await.
- `RtNetlink`, `RouteTable`, `InterfaceTree` and `Netfilter` have no fairness: their properties are about what is so when everything has been handled. Nor have `StagedEdits` and `CommandLine`:
  nothing obliges a client, or who types, to go on.

## 5. Proofs

TLAPS proves the following for every value of the constants that satisfies the named
assumptions of the modules (sizes are natural numbers, sentinels
are not data).

| Module | Theorem | For every |
|---|---|---|
| `ConfigCommitProofs` | `TypeCorrect`, `RepliesCorrect`, `RollbackCorrect`, `DurableCorrect`, `HistoryCorrect`, `RunningCorrect`, `RefinementCorrect` | set of contents, number of handlers, choice of those that apply at start, bound on versions |
| `AgentProofs`, of `RpcTransport` | `RpcTypeCorrect`, `InFlightCorrect`, `RemoteCallCorrect` | set of clients, number of calls of each |
| `AgentProofs`, of `ProviderLoad` | `TypeCorrect`, `ServedCorrect`, `VerdictCorrect` | finite set of providers, requirements among them |
| `AgentProofs`, of `EventBus` and `Service` | `BusTypeCorrect`, `TokensCorrect`, `OrderCorrect`, `StopsInOrder`, `ActiveTogether` | finite set of providers, which of them is MQTT and which has the thread, number of subscribers and events |
| `RtNetlinkProofs` | `TypeCorrect`, `NamesKnown`, `NothingMissedCorrect`, `SettledCorrect` | set of interfaces and names, number of changes |
| `AddressTableProofs` | `TypeCorrect`, `ConfiguredCorrect`, `UnconfiguredCorrect`, `PresentCorrect`, `ForeignCorrect` | finite sets of addresses and interfaces, configurations, number of changes |
| `RouteTableProofs` | `TypeCorrect`, `ConfiguredCorrect`, `GoneCorrect` | finite sets of tables, destinations and interfaces, gateways, configurations, leases, number of changes |
| `InterfaceTreeProofs` | `TypeCorrect`, `StateCorrect`, `UpCorrect`, `VirtualCorrect`, `RemovedCorrect` | finite set of interfaces, physical ones among them, configurations, number of changes |
| `NetfilterProofs` | `KernelCorrect`, `SavedCorrect`, `EditsCorrect`, `NamesCorrect` | set of clients, names, indices and commands, initial sections that load and repeat no name, number of commands |
| `HostServicesProofs` | `ServedCorrect`, `ClientsCorrect`, `LeasesCorrect` | set of hosts, names, tables and sections, finite set of interfaces, all bounds |

Each module states one inductive invariant `IInv`, or one for each theorem that does not need the whole (`KernelInv`, `EditInv` and `NamesInv` of
`NetfilterProofs`, `ServersInv` and `ClientsInv` of `HostServicesProofs`), proves that `Init` implies it and
that every action keeps it, and draws the theorems from it. The invariants were checked by TLC on the runs before they were proved.

Five modules, `RtNetlinkProofs`, `AddressTableProofs`, `RouteTableProofs`, `InterfaceTreeProofs` and `HostServicesProofs`, are about observers that learn of the kernel from messages in order. They share
one argument: of each thing, *the last message on its way about it says how it is, and if there is none, the observer knows it already*
(`Told`, `Tells`, `Leads`, `ToldInv`). Each change of the kernel appends the message that keeps this so, each handler takes the first message and may change what it
knows of nothing but the thing the message is about. With no message left, what is known is true.

Where a handler looks for the first item of a list, or a loop stops at the first bad one, the proof needs that a set of positions that is not empty has a least
element (`LeastIn`). It follows from the library's theorem that `<` on the naturals is well-founded.

- **ConfigCommit.** The replies depend on where the commit stands, so `IInv` adds when `data` and `staged` are one
  object (`Aliasing`), what the handlers called so far were given
  (`Delivered`), and, while no save has failed, that each file holds the version of its name, that the running
  configuration (the previous one during a commit) is the newest file and that the staged version is not behind it
  (`Durable`). The last is what makes `HistoryCorrect` true: the version a commit is going to write is greater than
  every file's. `Latest` is a CHOOSE; `HasLatest` carries the existence of a
  maximum along instead of proving by induction that finite sets have one.
  `RunningCorrect` is about whole commits: the configuration in force (`InForce`) is what runs, or, while a commit tries another, what it falls back to, or, while the agent is down, what it will
  load. No step changes it but the last one of a commit that succeeds, so a commit that fails or is rolled back, or is cut by a crash, ends with the configuration it began with. The crash is where
  `Durable` is needed: the newest file then holds what was in force (`InForceIsNewest`).
  `RollbackCorrect` needs of `Delivered` only that the second round of handlers is given the previous object, and that none of them raised.
  `RefinementCorrect` maps edits, drops, restarts (a drop) and the end of a save to the actions of `ConfigHistory`, a damaged
  save to `Damage`, and everything else to stuttering (`HistoryStep`).
- **EventBus.** `InOrder` says that a subscriber's next event is the last plus one. `BusInv` says
  where all events are: the deque and the tasks made but not run hold
  consecutive numbers, and the subscribers are at the event before, or,
  within a task, at it, up to `nextSub` (`Consecutive`, `Progress`).
- **RpcTransport.** That an answer is true must outlast everything that happens while it is on its way. `RpcIInv`
  says that a request carries the number of its call (`Numbering`), that a
  client's requests lie in the queue in order and behind everything that was begun (`Order`), what a client
  in each state has been told (`Sessions`), and that a call with an answer under way lies nowhere between its client
  and a handler (`Settled`), so that nothing can happen to it any more (`Answers`).
  `RemoteCallCorrect` then maps `Request`, `CallHandler`, `HandlerReturns`, `GetResponse` and
  `Timeout` to the actions of `RemoteCall`, and everything else to stuttering.
- **ProviderLoad.** A provider was constructed after those it requires (`InOrder`), what is not loaded is pending (`Covered`), and
  as long as a pass has constructed nothing everything it looked at was postponed (`Postponed`): that is
  why a pass without progress proves a loop.
- **Service.** Every step of the composition is a step of `ProviderLoad` or leaves it alone (`LoaderStep`), and the same of `EventBus` (`BusStep`), so that the invariants of the two hold in it and their
  theorems carry over. `ActiveTogether` says when which of the two cases of `AllOrNoneActive` is so: every provider is active when a subscriber is called, unless the stop of MQTT is awaited, and then none that shares in MQTT (`ActiveWhenCalled`). It needs how the two meet: what `mpc` is in each phase (`Phases`, `Waiting`), and that no class is loaded twice (`LoadedOnce`), so that
  what was constructed after MQTT is what is stopped before it.
- **RtNetlink.** An address can be named if its interface is in the map, or if the message that will put it there lies before the message about the address. `Covered` says that of
  every message in the socket, `Tracked` of every interface there is, `Following` what a dump has left to do; with `Quiet` they are inductive as long as nothing raced with `start()`.
  `NothingMissedCorrect` is the common argument for what is there: the last message about it, in the socket or in the hands of the thread, says so, or the
  subscribers know it, or `start()` has yet to publish it (`LinkAwaited`, `AddrAwaited`). `SettledCorrect` adds the other direction and the names, which are only true if
  nothing raced with `start()`: then `start()` publishes what is so, in every position of its two loops (`Starting`), and the name maps hold the last name told (`Naming`, `OneName`).
- **AddressTable.** That others' addresses are left alone needs that no configuration, tried, previous or remembered
  by an entity, names them (`Unnamed`), which needs that an entity is configured only if the configuration says so or a
  loop has yet to reach it (`Following`). For the addresses of the agent, `Tended` says that each is followed by an entity with a
  configuration, or that the running rollback will configure it; at rest the two give `UnconfiguredGone`.
  `PresentCorrect` is the common argument for addresses and for interfaces, since an entity that meets the wrong index of its link does not ask for its
  address. `ConfiguredCorrect` is about the addresses that are configured and not there, and that nobody took (`Coming`): such an entity has seen nothing
  (`QuietAt`), so that its next `apply()` will add the address, and the report of its interface that will call it is on its way or being handled (`AwaitedAt`). Proving it showed that the set
  of exceptions was too small: with five changes, more than the run has, a late report reaches a configuration that came back (`hasty`, above).
- **RouteTable.** A route is applied when it is configured, when its own removal is reported, and when what its next hop needs is reported: a route that covers its gateway, or its interface. `PresentInv` says of every
  configured route that is absent though its next hop is reachable that one of these reports is on its way (`Coming`), or that the loop of such a handler has yet to reach it (`Noticed`), unless `handle_config_change` has yet to
  (`Due`, which also excepts an entity from being configured as the configuration says, `SyncInv`). When `apply()` does not ask the kernel, the table finds the next hop not accessible although it is, or has the route as it should be although it
  is gone; by `ToldInv` and `LinkToldInv` what it does not know yet is on its way (`ApplyPresent`). `OursInv` says that a route of the agent can be deleted with the arguments an entity or a lease has kept for it, so that
  `remove()` takes it away or ends the loop (`stuck`). A change of the kernel, be it the agent's or another's, enters all this through one definition, `Moves`: what changed was reported behind the reports there were.
- **InterfaceTree.** `ShapeInv` holds what the rest is stated with: types, where the loops are, and which configuration an entity has while a commit or a rollback has reached some of
  them (`SyncInv`). `ToldInv` is the common argument for links: the last report on its way says what the link is; when none is, the entity agrees with it, or its removal was
  not handled to its end (`Missed`). An entity that is told late uses an index that may be gone, so the other parts speak of what an entity *knows*. `UpInv`: what wants to be up, is there, and has no report on its
  way, is up; one that is down has a report coming, whose handler sees to it. `ThereInv`: a virtual interface that is not there, with its trunk there, has the report of the trunk
  before it, or the handler of that report is about to tell it (`Announced`). Both except what a rollback is about to apply again (`Due`): between a failed commit and the end of the
  rollback an entity has the wrong configuration. `OwnInv`: the agent's link has an entity that is virtual and configured. It is where the invariant showed the model's exceptions to be too
  small: `taken` and `stuck` were cleared too early, which four interfaces and seven changes reach, and the run's three interfaces do not.
- **Netfilter.** `KernelInv` adds to `RulesetIsRunning` that an enabled running section was applied, so that disabling it always flushes.
  `SavedLoads` needs that what is being saved is what was accepted. `EditInv` says that the copy of a command that was
  not overlapped is an effect of that command on the staged section as it still is; `RaceKeeps` shows that every change of the
  staged section marks the commands under way. So far the proofs do not look into the commands: they hold for any `Edit`.
  `NamesCorrect` goes through all of them: each keeps `WellFormed` of the section it edits (`EditKeeps`, from one lemma for each kind of list), whatever else the section
  holds. That makes every copy well-formed, `staged`, `running`, `saved` and each client's, also a copy that is old. Its assumption is that no initial section repeats a name.
- **HostServices.** `ServersInv` says that each server whose last `apply()` went through runs with the files for what it *knows* to be there (`CacheFor`, `AuthoritativeFor`, `DhcpFor`), and what it knows is
  the common argument. Between the two lies `WholeTable`: IPAM's table may be cut short by a host that does not parse, but then that host is in the table, so no file with hosts can be
  made of it; a file that was made is of all hosts. A file that does not ask for an address is the same with and without it (`CacheDeaf`), which is why the handlers may ignore such events.
  `ClientsInv` says of every interface outside `troubled` that its client is unshared, configured for the running configuration and started for it, and that
  the last report of its dhclient is the last one in the inbox, or published. A failed commit is two calls of `apply_v4`: `RolledBack` shows that a client that ends
  unshared and with the old configuration is either untouched or newly started, whatever the first call did to it and wherever it broke off.

Only model-checked: the liveness properties (`CommitAnswered`, `EventuallySeen`, `EveryCallEnds`,
`LoadingEnds`, `ComesToRest`, `AddressReachesCache`), which are beyond this prover, as everything with ENABLED; what folds, recursive functions and `SelectSeq` compute for every
input (the operators of `StagedLists`, `CommandTree` and `LineEditor`), since the induction theorems of the library take an operator, which the provers cannot instantiate; and therefore the properties of
`StagedEdits` and `CommandLine`. `HistoryNeverRewritten` is false and has no theorem.

`HistoryCorrect` and `RunningCorrect` (no saved version is rewritten, and only the end of a successful commit changes what is in force, while every save went through), `InFlightCorrect` (the table of
calls holds exactly what is waited for), `VerdictCorrect` (a reported missing class or loop is real), `ForeignCorrect` (addresses of others are left alone) and `SavedCorrect` (the newest file
loads) are properties that only theorems state; no run checks them.

## 6. Plan

What the project has left, the most useful first:

1. Theorems: `KeysUnique` of `StagedEdits`, as far as it follows from facts about one list.
2. Peers in `AddressTable`, multipath routes in `RouteTable`, routes in `RtNetlink`.
3. The staged CRUD of interfaces, addresses and routes in `StagedEdits`: single requests for single items, like those on the DHCP server.

## 7. Not modelled

Formatting and parsing: the types of arguments, the text that is printed, nftables, Kea, unbound, nsd and systemd file
generation beyond what goes into a file and whether it can be made; the protobuf encoding; D-Bus and netlink wire formats. They compute values
without state of their own. The registry of message types is filled once at start and only looked up. Commands that only read (`show`, `list`, leases of Kea) have no
state to change. Undefined behaviour of the Python runtime is not an issue; threads share only the event queue
and the interface maps. `start_background`, `run_command` and the impersonation of provider classes serve the tests and scripts.
