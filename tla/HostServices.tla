---------------------------- MODULE HostServices ----------------------------
(***************************************************************************)
(* The services the agent runs for the network: unbound, nsd and kea, with *)
(* the hosts of IPAM in their files, and a dhclient per interface that is  *)
(* configured for one.                                                     *)
(*                                                                         *)
(* Their providers change what they run in a commit, which calls them one  *)
(* after the other, calls them again when one has failed, and does not     *)
(* await; and when an address or an interface comes or goes, which reaches *)
(* them as an event. The DNS cache waits a second after an event before it *)
(* applies it.                                                             *)
(*                                                                         *)
(* The address that the DNS servers are asked to listen on is on one       *)
(* interface or on none.                                                   *)
(***************************************************************************)
EXTENDS HostServers

CONSTANTS
    Name,                   \* names of the entries that Hosts are
    Tables, NoTable,        \* route tables of leases, and none
    CacheSections,          \* what an operator makes of the section dns.cache,
    AuthoritativeSections,  \* of dns.authoritative,
    DhcpSections,           \* and of dhcp.server
    Default,                \* the configuration with every service off
    AllAtWork,              \* and one with all of them at work
    Scopes,                 \* bound: sections that are at work, edited and disturbed
                            \* together; "another" stands for all the others
    MaxEdits, MaxCommits,   \* bounds: edits, and commits that change something,
    MaxChanges,             \* addresses and interfaces that come and go,
    MaxFaults,              \* files and units that cannot be written or started,
    MaxReports,             \* reports of a dhclient,
    MaxRestarts             \* and restarts of the agent

ASSUME NoTableAssumption == NoTable \notin Tables
ASSUME SectionsAssumption ==
    /\ CacheSections \subseteq Cache
    /\ AuthoritativeSections \subseteq Authoritative
    /\ DhcpSections \subseteq Dhcp
ASSUME BoundsAssumption ==
    /\ MaxEdits \in Nat /\ MaxCommits \in Nat /\ MaxChanges \in Nat
    /\ MaxFaults \in Nat /\ MaxReports \in Nat /\ MaxRestarts \in Nat

INSTANCE LeaseClients

Address == "address"

(* The sections these services are configured by; ahead says that the version
   of staged_data was counted up by a commit that failed. *)
Configurations ==
    [ipam: Seq(Hosts), cache: Cache, nsd: Authoritative, kea: Dhcp,
     client: [Links -> Tables \cup {NoTable}], ahead: BOOLEAN]

ASSUME AddressAssumption == Address \notin Links
ASSUME ConfigurationsAssumption == Default \in Configurations /\ AllAtWork \in Configurations

VARIABLES
    scope,         \* one of Scopes
    data, staged,  \* ConfigProvider.data and staged_data
    table,         \* the hosts IPAM has read
    cache, nsd, kea,
    clients,       \* v4_clients, with the units
    troubled,      \* interfaces whose client a rollback did not get right
    holds,         \* BOOLEAN: an interface has the address
    links,         \* the interfaces there are
    queue,         \* events published and not handled yet
    inbox,         \* reports of dhclients the agent has not handled yet
    published,     \* by interface: the last lease event published
    used           \* what was used of each bound

agent == <<table, cache, nsd, kea, clients>>
kernel == <<holds, links>>
vars == <<scope, data, staged, agent, troubled, kernel, queue, inbox, published, used>>

Bound == [edits |-> MaxEdits, commits |-> MaxCommits, changes |-> MaxChanges,
          faults |-> MaxFaults, reports |-> MaxReports, restarts |-> MaxRestarts]

Use(costs) ==
    LET now == [k \in DOMAIN used |->
                    used[k] + IF k \in DOMAIN costs THEN costs[k] ELSE 0]
    IN (\A k \in DOMAIN used : now[k] <= Bound[k]) /\ used' = now

-----------------------------------------------------------------------------
(* The edits of the staged configuration. *)

(* host/add refuses a name that is there, host/update and host/remove one that
   is not. *)
EditHosts ==
    "ipam" \in scope /\ \E h \in Hosts :
        LET hosts == staged.ipam
            at == {i \in DOMAIN hosts : Name[hosts[i]] = Name[h]}
        IN /\ staged' \in {[staged EXCEPT !.ipam = q] :
                  q \in IF at = {} THEN {Append(hosts, h)}
                        ELSE {ReplaceAt(hosts, Min(at), h), RemoveAt(hosts, Min(at))}}
           /\ UNCHANGED clients

EditServer ==
    /\ \/ "cache" \in scope /\ \E c \in CacheSections : staged' = [staged EXCEPT !.cache = c]
       \/ "nsd" \in scope /\ \E c \in AuthoritativeSections : staged' = [staged EXCEPT !.nsd = c]
       \/ "kea" \in scope /\ \E c \in DhcpSections : staged' = [staged EXCEPT !.kea = c]
    /\ UNCHANGED clients

(* update copies into the message that is there, which a client may share; add
   makes a new one, and delete leaves the old one to who has it. *)
EditClient ==
    "client" \in scope /\ \E l \in Links, t \in Tables \cup {NoTable} :
        /\ staged.client[l] # t
        /\ staged' = [staged EXCEPT !.client[l] = t]
        /\ clients' = [clients EXCEPT ![l] =
               IF ~@.shared THEN @
               ELSE Configure(@, IF t = NoTable THEN @.config ELSE t, t # NoTable)]

EditStaged ==
    /\ EditHosts \/ EditServer \/ EditClient
    /\ staged' # staged
    /\ Use([edits |-> 1])
    /\ UNCHANGED <<data, table, cache, nsd, kea, troubled, kernel, queue, inbox, published>>

(* rpc_drop_staged: the messages of staged_data are others than before. *)
DropStaged ==
    /\ staged # data
    /\ staged' = data
    /\ clients' = [l \in Links |-> [clients[l] EXCEPT !.shared = FALSE]]
    /\ UNCHANGED <<data, table, cache, nsd, kea, troubled, kernel, queue, inbox,
                   published, used>>

-----------------------------------------------------------------------------
(* The commit. *)

NoFault == <<"nobody", "">>

(* A file that cannot be written is as one that cannot be generated. *)
Faults ==
    {NoFault, <<"another", "">>}
    \cup {f \in {<<"cache", "half">>, <<"cache", "unit">>, <<"nsd", "half">>,
                 <<"nsd", "unit">>, <<"kea", "unit">>, <<"kea", "absent">>}
                \cup ({"client"} \X Links) : f[1] \in scope}

Of(fault, who) == IF fault[1] = who THEN fault[2] ELSE ""

Hit(fault) == IF fault = NoFault THEN 0 ELSE 1

(* Mutant: the servers are called before IPAM. *)
HostsForLate(a, d) == a.table

(* IPAM is constructed before the providers that use it, and registers its
   change handler there. *)
HostsFor(a, d) == UpdateHosts(d.ipam).table

(* call_change_handlers on the providers in state a: the states they may be in
   then. An exception of one does not keep the others from being called. *)
CallHandlers(a, d, shared, fault) ==
    LET hosts == HostsFor(a, d)
        t == UpdateHosts(d.ipam)
        c == ApplyCache(a.cache, d.cache, hosts, Of(fault, "cache"))
        n == ApplyAuthoritative(a.nsd, d.nsd, hosts, Of(fault, "nsd"))
        k == ApplyDhcp(a.kea, d.kea, hosts, Of(fault, "kea"))
        raised == \/ t.raised \/ fault[1] \in {"another", "client"}
                  \/ "raised" \in {c.last, n.last, k.last}
    IN {[agent |-> [table |-> t.table, cache |-> c, nsd |-> n, kea |-> k, clients |-> cs],
         raised |-> raised] :
           cs \in IF fault[1] = "client"
                  THEN ApplyUntil(a.clients, d.client, shared, fault[2])
                  ELSE {ApplyAll(a.clients, d.client, shared)}}

Agent == [table |-> table, cache |-> cache, nsd |-> nsd, kea |-> kea, clients |-> clients]

Become(a) ==
    /\ table' = a.table
    /\ cache' = a.cache
    /\ nsd' = a.nsd
    /\ kea' = a.kea
    /\ clients' = a.clients

Unshared(cs) == [l \in Links |-> [cs[l] EXCEPT !.shared = FALSE]]

(* The file is saved, and staged_data is a new copy. *)
CommitSucceeds ==
    \E fault \in Faults : \E r \in CallHandlers(Agent, staged, TRUE, fault) :
        /\ ~r.raised
        /\ Use([commits |-> 1, faults |-> Hit(fault)])
        /\ data' = [staged EXCEPT !.ahead = FALSE]
        /\ staged' = data'
        /\ Become([r.agent EXCEPT !.clients = Unshared(@)])
        /\ troubled' = {l \in troubled : ~Calls(clients[l], staged.client[l])}

(* The handlers are called again, with the previous configuration; the version
   of staged_data stays counted up, which alone makes for another commit. *)
CommitFails ==
    \E first, second \in Faults :
        /\ Use([commits |-> 1, faults |-> Hit(first) + Hit(second)])
        /\ \E r \in CallHandlers(Agent, staged, TRUE, first) :
            /\ r.raised
            /\ \E q \in CallHandlers(r.agent, data, FALSE, second) :
                /\ Become(q.agent)
                /\ troubled' = troubled \cup {l \in Links :
                       \/ q.agent.clients[l].shared
                       \/ q.agent.clients[l].config # data.client[l]
                       \/ second = <<"client", l>>}
        /\ staged' = [staged EXCEPT !.ahead = TRUE]
        /\ UNCHANGED data

Commit ==
    /\ staged # data
    /\ CommitSucceeds \/ CommitFails
    /\ UNCHANGED <<kernel, queue, inbox, published>>

-----------------------------------------------------------------------------
(* Addresses and interfaces come and go. *)

Event(what, add) == [what |-> what, add |-> add]

AddressChanges ==
    /\ scope \cap {"cache", "nsd"} # {}
    /\ holds' = ~holds
    /\ Use([changes |-> 1])
    /\ queue' = Append(queue, Event(Address, ~holds))
    /\ UNCHANGED <<data, staged, agent, troubled, links, inbox, published>>

LinkChanges ==
    "kea" \in scope /\ \E l \in Links :
        /\ links' = IF l \in links THEN links \ {l} ELSE links \cup {l}
        /\ Use([changes |-> 1])
        /\ queue' = Append(queue, Event(l, l \notin links))
        /\ UNCHANGED <<data, staged, agent, troubled, holds, inbox, published>>

Knows(s, e) == [s EXCEPT !.known = IF e.add THEN @ \cup {e.what} ELSE @ \ {e.what}]

(* Mutant: call_later is inside the "if" that cancels the timer that runs. *)
ScheduleApplyAgain(s) == [s EXCEPT !.timer = s.timer]

ScheduleApply(s) == [s EXCEPT !.timer = TRUE]

(* An address that is reported again, or goes without having been reported, is
   no change. *)
CacheHandles(e) ==
    cache' = IF (e.what \in cache.known) = e.add THEN cache
             ELSE IF data.cache.listen THEN ScheduleApply(Knows(cache, e))
             ELSE Knows(cache, e)

(* Here an address that is reported again is applied again. *)
AuthoritativeHandles(e, fault) ==
    nsd' = IF ~e.add /\ e.what \notin nsd.known THEN nsd
           ELSE IF data.nsd.listen
           THEN ApplyAuthoritative(Knows(nsd, e), data.nsd, table, Of(fault, "nsd"))
           ELSE Knows(nsd, e)

(* set.remove() raises for an interface it does not know, and the handler ends. *)
DhcpHandles(e, fault) ==
    kea' = IF ~e.add /\ e.what \notin kea.known THEN kea
           ELSE IF e.what \in data.kea.interface
           THEN ApplyDhcp(Knows(kea, e), data.kea, table, Of(fault, "kea"))
           ELSE Knows(kea, e)

HandleEvent ==
    /\ queue # <<>>
    /\ queue' = Tail(queue)
    /\ LET e == Head(queue) IN
       IF e.what = Address
       THEN \E fault \in {f \in Faults : f = NoFault \/ f[1] = "nsd"} :
                /\ CacheHandles(e) /\ AuthoritativeHandles(e, fault)
                /\ UNCHANGED kea
                /\ Use([faults |-> Hit(fault)])
       ELSE \E fault \in {f \in Faults : f = NoFault \/ f[1] = "kea"} :
                /\ DhcpHandles(e, fault)
                /\ UNCHANGED <<cache, nsd>>
                /\ Use([faults |-> Hit(fault)])
    /\ UNCHANGED <<data, staged, table, clients, troubled, kernel, inbox, published>>

TimerFires ==
    /\ cache.timer
    /\ \E fault \in {f \in Faults : f = NoFault \/ f[1] = "cache"} :
           /\ cache' = ApplyCache(cache, data.cache, table, Of(fault, "cache"))
           /\ Use([faults |-> Hit(fault)])
    /\ UNCHANGED <<data, staged, table, nsd, kea, clients, troubled, kernel, queue,
                   inbox, published>>

-----------------------------------------------------------------------------
(* The leases. *)

NoReport == [kind |-> "nothing", table |-> NoTable]

(* A dhclient runs its script, which sends the report to the agent. *)
DhclientReports ==
    \E l \in Links, kind \in {"acquired", "lost"} :
        /\ clients[l].unit # NoTable
        /\ clients' = [clients EXCEPT ![l].sent = kind]
        /\ inbox' = Append(inbox, [link |-> l, kind |-> kind])
        /\ Use([reports |-> 1])
        /\ UNCHANGED <<data, staged, table, cache, nsd, kea, troubled, kernel, queue,
                       published>>

(* Mutant: the report that came last is handled first. *)
NextReportLast(q) == <<Last(q), Front(q)>>

NextReport(q) == <<Head(q), Tail(q)>>

HandleReport ==
    /\ inbox # <<>>
    /\ LET r == NextReport(inbox)[1] IN
       published' = IF clients[r.link].config = NoTable THEN published
                    ELSE [published EXCEPT ![r.link] =
                             [kind |-> r.kind, table |-> clients[r.link].config]]
    /\ inbox' = NextReport(inbox)[2]
    /\ UNCHANGED <<data, staged, agent, troubled, kernel, queue, used>>

(* rpc_v4_restart. *)
RestartClient ==
    \E l \in Links :
        /\ clients[l].config # NoTable
        /\ clients' = [clients EXCEPT ![l] = StartUnit(@)]
        /\ UNCHANGED <<data, staged, table, cache, nsd, kea, troubled, kernel, queue,
                       inbox, published, used>>

-----------------------------------------------------------------------------
(* The agent ends, and starts again with the configuration that was saved.
   What it leaves behind are files and units. *)

(* stop() of the DNS cache and of the DHCP server stop the unit, the one of the
   authoritative server does nothing. *)
Ended(clean, s) == NewServer(s.first, s.second, IF clean THEN Stopped ELSE s.unit)

EndedClients(clean, cs) ==
    [l \in Links |-> IF clean /\ cs[l].config # NoTable THEN NoClient
                     ELSE [cs[l] EXCEPT !.config = NoTable, !.shared = FALSE]]

(* start(): all but the DNS cache apply the configuration, knowing no address
   and no interface yet; the DNS cache starts its unit, also one that is not
   enabled, with the files that are there. *)
Started(d, c, n, k, cs) ==
    [table |-> UpdateHosts(d.ipam).table,
     cache |-> [c EXCEPT !.unit = <<c.first, c.second>>],
     nsd |-> ApplyAuthoritative(n, d.nsd, UpdateHosts(d.ipam).table, ""),
     kea |-> ApplyDhcp(k, d.kea, UpdateHosts(d.ipam).table, ""),
     clients |-> ApplyAll(cs, d.client, FALSE)]

(* What is there is reported, after the end of something that was there before. *)
Dump(hs, ls) ==
    SetToSeq({Event(w, TRUE) : w \in (IF hs THEN {Address} ELSE {}) \cup ls})

Dumps ==
    {Dump(holds, links)}
    \cup {<<Event(l, FALSE)>> \o Dump(holds, links) :
             l \in IF "kea" \in scope THEN Links \ links ELSE {}}

(* The process may have died between the change handlers and the save. *)
Before ==
    {Agent} \cup (IF staged = data THEN {}
                  ELSE {r.agent : r \in CallHandlers(Agent, staged, TRUE, NoFault)})

Restart ==
    \E clean \in BOOLEAN, a \in Before :
        /\ clean => a = Agent
        /\ Become(Started(data, Ended(clean, a.cache), Ended(FALSE, a.nsd),
                          Ended(clean, a.kea), EndedClients(clean, a.clients)))
        /\ queue' \in Dumps
        /\ staged' = data
        /\ troubled' = {}
        /\ inbox' = <<>>
        /\ published' = [l \in Links |-> NoReport]
        /\ Use([restarts |-> 1])
        /\ UNCHANGED <<data, kernel>>

-----------------------------------------------------------------------------
Init ==
    /\ scope \in Scopes
    /\ data \in {Default, [s \in DOMAIN Default |->
                              IF s \in scope THEN AllAtWork[s] ELSE Default[s]]}
    /\ staged = data
    /\ holds = (scope \cap {"cache", "nsd"} # {})
    /\ links = IF "kea" \in scope THEN Links ELSE {}
    /\ LET new == NewServer(NotThere, NotThere, Stopped)
           a == Started(data, new, new, new, [l \in Links |-> NoClient])
       IN /\ table = a.table /\ cache = a.cache /\ nsd = a.nsd /\ kea = a.kea
          /\ clients = a.clients
    /\ queue = Dump(holds, links)
    /\ troubled = {}
    /\ inbox = <<>>
    /\ published = [l \in Links |-> NoReport]
    /\ used = [k \in DOMAIN Bound |-> 0]

Step ==
    \/ EditStaged \/ DropStaged \/ Commit
    \/ AddressChanges \/ LinkChanges \/ HandleEvent \/ TimerFires
    \/ DhclientReports \/ HandleReport \/ RestartClient
    \/ Restart

Next == Step /\ UNCHANGED scope

(* The event loop turns, and a timer fires. *)
Spec ==
    /\ Init /\ [][Next]_vars
    /\ WF_vars(HandleEvent /\ UNCHANGED scope)
    /\ WF_vars(TimerFires /\ UNCHANGED scope)

-----------------------------------------------------------------------------
(* What each server would run with, were it started now: from the running
   configuration, its hosts, and the addresses and interfaces there are. *)
HostsOf(d) == {d.ipam[i] : i \in DOMAIN d.ipam}
Held == IF holds THEN {Address} ELSE {}

WantedCache ==
    IF data.cache.enabled
    THEN <<LocalConf(data.cache, HostsOf(data), Held), ForwardConf(data.cache)>>
    ELSE Stopped
WantedAuthoritative ==
    IF data.nsd.enabled
    THEN <<NsdConf(data.nsd, Held), ZoneFile(data.nsd, HostsOf(data))>>
    ELSE Stopped
WantedDhcp ==
    IF data.kea.interface # {}
    THEN <<Dhcp4Conf(data.kea, HostsOf(data), links), NotThere>>
    ELSE Stopped

(* With every event handled and no timer running, each server runs with that,
   whatever commits, rollbacks, events and restarts came in which order; unless
   its last apply() raised, or the DNS cache has not applied anything since the
   agent was started. *)
ServedIsCurrent ==
    queue = <<>> =>
        /\ cache.last = "applied" /\ ~cache.timer => cache.unit = WantedCache
        /\ nsd.last = "applied" => nsd.unit = WantedAuthoritative
        /\ kea.last = "applied" => kea.unit = WantedDhcp

(* unbound comes to listen on an address that is there, also one that was there
   before the agent was started again: however the timer is started, cancelled
   and started again. *)
Listening ==
    cache.unit # Stopped /\ cache.unit[1] # NotThere /\ cache.unit[1].bound

AddressReachesCache ==
    \A c \in {s \in CacheSections : s.enabled /\ s.listen} :
        holds /\ data.cache = c ~> \/ Listening
                                   \/ ~holds \/ data.cache # c
                                   \/ cache.last = "raised"

(* A dhclient runs for the interfaces the running configuration says, and has
   been started since what it says of them changed; also after commits that
   failed. Out of this are the interfaces that a rollback did not come to, because
   systemd refused one before them, and units that run on after a crash for an
   interface that has no client then. *)
ClientsRunAsConfigured ==
    \A l \in Links \ troubled :
        /\ clients[l].config = data.client[l]
        /\ \/ clients[l].unit = data.client[l]
           \/ data.client[l] = NoTable /\ used.restarts > 0

(* What a running dhclient has reported last is what the address and route
   providers were told last, and for the table of the running configuration: no
   report of the dhclient that ran before, or for the table before, comes after. *)
LastLeaseReported ==
    \A l \in Links \ troubled :
        /\ clients[l].sent # "nothing" /\ data.client[l] # NoTable
        /\ \A i \in DOMAIN inbox : inbox[i].link # l
        => published[l] = [kind |-> clients[l].sent, table |-> data.client[l]]
=============================================================================
