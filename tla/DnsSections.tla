---------------------------- MODULE DnsSections ----------------------------
(***************************************************************************)
(* The sections of the DNS cache and of the authoritative DNS server.  The *)
(* agent hands out a section and takes a whole one back; every command     *)
(* gets it, edits its copy and sends the copy.  An edit is the set of      *)
(* sections a command may send: empty when it raises before it does.  And  *)
(* the hosts of IPAM, each of which is sent as a whole.                    *)
(*                                                                         *)
(* "setting" stands for the fields of an item that no lookup depends on.   *)
(***************************************************************************)
EXTENDS StagedLists

Removed(q, Is(_)) == {RemoveFirstMatch(q, Is)}
Set(q, m, Is(_)) ==
    {ChangeFirst(q, Is, LAMBDA x : [x EXCEPT !.setting = Given(m.item.setting, @)])}

(* Lists of items with a name, and of strings.                              *)
Named(q, m) ==
    LET Is(x) == x.name = m.item.name IN
    CASE m.op = "add" -> AddUnless(q, m.item, Is)
      [] m.op = "update" -> Set(q, m, Is)
      [] m.op = "remove" -> Removed(q, Is)

Strings(q, m) ==
    CASE m.op = "add" -> AddUnless(q, m.item, LAMBDA x : x = m.item)
      [] m.op = "remove" -> {RemoveFirst(q, m.item)}

(* A lookup of a zone that is not there raises.                             *)
InZone(s, list, m, Edit(_)) ==
    InEntry(s, list, LAMBDA z : z.name = m.of[2], LAMBDA z : InList(z, m.list, Edit(z[m.list])))

(* zone update and forward-zone update raise for a zone that is not there,  *)
(* their removal does not.                                                  *)
Zones(q, m) ==
    IF m.op = "update" /\ Found(q, LAMBDA z : z.name = m.item.name) = {} THEN {}
    ELSE Named(q, m)

-----------------------------------------------------------------------------
(* The DNS cache. *)

UpdateConfig(s, m) == {[s EXCEPT !.settings = Given(m.item, @)]}

(* The addresses and networks listed are strings, the ones typed are not:   *)
(* an addition never finds the one it is looking for.                       *)
ListenAddresses(s, m) ==
    InList(s, "listen_address",
           IF m.op = "add" THEN {Append(s.listen_address, m.item)}
           ELSE {RemoveFirst(s.listen_address, m.item)})

AccessRules(s, m) ==
    InList(s, "access_control_rule",
           IF m.op = "add" THEN {Append(s.access_control_rule, m.item)}
           ELSE {RemoveFirst(s.access_control_rule, m.item)})

ForwardZones(s, m) == InList(s, "forward_zone", Zones(s.forward_zone, m))

ForwardAddresses(s, m) == InZone(s, "forward_zone", m, LAMBDA q : Named(q, m))

LocalZones(s, m) == InList(s, "local_zone", Zones(s.local_zone, m))

LocalZoneNetworks(s, m) == InZone(s, "local_zone", m, LAMBDA q : Strings(q, m))

(* Records may share a name; one is added unless the whole of it is there.  *)
AddRecord(q, m) ==
    AddUnless(q, m.item, LAMBDA x : x.name = m.item.name /\ x.data = m.item.data)

RemoveRecord(q, m) ==
    Removed(q, LAMBDA x : x.name = m.item.name /\ m.item.data \in {NoArgument, x.data})

(* The update changes the first record of the name.                         *)
UpdateLocalData(q, m) ==
    {ChangeFirst(q, LAMBDA x : x.name = m.item.name,
        LAMBDA x : [x EXCEPT !.data = Given(m.item.data, @),
                             !.setting = Given(m.item.setting, @)])}

LocalData(s, m) ==
    InZone(s, "local_zone", m, LAMBDA q :
        CASE m.op = "add" -> AddRecord(q, m)
          [] m.op = "update" -> UpdateLocalData(q, m)
          [] m.op = "remove" -> RemoveRecord(q, m))

CacheEdit(s, m) ==
    CASE m.list = "settings" -> UpdateConfig(s, m)
      [] m.list = "listen_address" -> ListenAddresses(s, m)
      [] m.list = "access_control_rule" -> AccessRules(s, m)
      [] m.list = "forward_zone" -> ForwardZones(s, m)
      [] m.list = "forward_address" -> ForwardAddresses(s, m)
      [] m.list = "local_zone" -> LocalZones(s, m)
      [] m.list = "ipam_network" -> LocalZoneNetworks(s, m)
      [] m.list = "local_data" -> LocalData(s, m)

-----------------------------------------------------------------------------
(* The authoritative server. *)

SetConfig(s, m) == {[s EXCEPT !.settings = Given(m.item, @)]}

(* "add" registers an argument its handler does not have, and is refused.   *)
AuthoritativeListenAddresses(s, m) ==
    IF m.op = "add" THEN {}
    ELSE InList(s, "listen_address", {RemoveFirst(s.listen_address, m.item)})

AuthoritativeZones(s, m) == InList(s, "zone", Zones(s.zone, m))

ZoneStrings(s, m) == InZone(s, "zone", m, LAMBDA q : Strings(q, m))

(* With a TTL alone, or data a record of the name has, that record's TTL is *)
(* set; otherwise the first record of the name gets the data, and raises    *)
(* when there is none to give.                                              *)
UpdateZoneRecord(q, m) ==
    LET SameName(x) == x.name = m.item.name
        Same(x) == SameName(x) /\ m.item.data \in {NoArgument, x.data}
    IN  CASE m.item.setting # NoArgument /\ Found(q, Same) # {} -> Set(q, m, Same)
          [] Found(q, SameName) = {} -> {q}
          [] OTHER -> IF m.item.data = NoArgument THEN {}
                      ELSE {ChangeFirst(q, SameName,
                               LAMBDA x : [x EXCEPT !.data = m.item.data,
                                                    !.setting = Given(m.item.setting, @)])}

ZoneRecords(s, m) ==
    InZone(s, "zone", m, LAMBDA q :
        CASE m.op = "add" -> AddRecord(q, m)
          [] m.op = "update" -> UpdateZoneRecord(q, m)
          [] m.op = "remove" -> RemoveRecord(q, m))

AuthoritativeEdit(s, m) ==
    CASE m.list = "settings" -> SetConfig(s, m)
      [] m.list = "listen_address" -> AuthoritativeListenAddresses(s, m)
      [] m.list = "zone" -> AuthoritativeZones(s, m)
      [] m.list \in {"ipam_network", "notify", "allow_transfer"} -> ZoneStrings(s, m)
      [] m.list = "record" -> ZoneRecords(s, m)

-----------------------------------------------------------------------------
(* IPAM.  The requests of a command, having read the section s, and what    *)
(* the agent does with one.                                                 *)

(* An update of the hardware address sends a host that has nothing else.    *)
HostCommands(s, m) == {m}

(* An alias or an address is edited in a copy of the host, which is sent.   *)
HostListCommands(s, m) ==
    {Command("update", "host", Server, h) :
        h \in UNION {InList(s.host[i], m.list, Strings(s.host[i][m.list], m)) :
                       i \in Found(s.host, LAMBDA x : x.name = m.of[2])}}

(* Mutant: the new host gets a name and nothing else.                       *)
HostAddUncopied(s, r) ==
    InList(s, "host", AddUnless(s.host, [r.item EXCEPT !.setting = NoArgument],
                                LAMBDA x : x.name = r.item.name))

HostAdd(s, r) ==
    InList(s, "host", AddUnless(s.host, r.item, LAMBDA x : x.name = r.item.name))

HostUpdate(s, r) ==
    InEntry(s, "host", LAMBDA x : x.name = r.item.name, LAMBDA x : {r.item})

HostRemove(s, r) ==
    InList(s, "host", IF Found(s.host, LAMBDA x : x.name = r.item.name) = {} THEN {}
                      ELSE Removed(s.host, LAMBDA x : x.name = r.item.name))
=============================================================================
