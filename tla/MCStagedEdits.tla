--------------------------- MODULE MCStagedEdits ---------------------------
(***************************************************************************)
(* StagedEdits with two clients, each kind of section on its own, starting *)
(* from sections with an entry in most of their lists.                     *)
(***************************************************************************)
EXTENDS StagedEdits

CONSTANTS a, b,         \* names, addresses, codes: whatever a key is
          old, new      \* settings and data

(* Command sets: op on items of a list, at a place. *)
On(ops, list, of, items) == {Command(op, list, of, i) : op \in ops, i \in items}

AddDelete == {"add", "delete"}
AddRemove == {"add", "remove"}
Edits == {"add", "update", "delete"}

Definition(n, v) == [name |-> n, setting |-> v]
Option(n, c, v) == [name |-> n, code |-> c, setting |-> v]
Class(n, v, d, o) == [name |-> n, setting |-> v, option_definition |-> d, option |-> o]
Subnet(x, v, p, o, r, y) ==
    [address |-> x, setting |-> v, pool |-> p, option |-> o, reservation |-> r,
     relay_address |-> y]
Reservation(h, v) == [hardware_address |-> h, setting |-> v]

DhcpSection(options) ==
    [settings |-> [renew_timer |-> old, valid_lifetime |-> old],
     interface |-> <<a>>,
     option_definition |-> <<Definition(a, old)>>,
     client_class |-> <<Class(a, old, <<Definition(a, old)>>, options)>>,
     option |-> <<Option(a, Unset, old)>>,
     subnet |-> <<Subnet(a, old, <<a>>, <<Option(Unset, a, old)>>,
                         <<Reservation(a, old)>>, <<>>)>>]

(* At the server and in a subnet an option has a name or a code, in a class  *)
(* it may have both: the class starts without options, or with a named and  *)
(* a nameless one, of one code or of two, in either order.                  *)
EitherOption == {Option(a, Unset, new), Option(Unset, a, new)}
AddedClassOption == {Option(n, c, new) : n \in {b, Unset}, c \in {a, b}}
ClassOption == {Option(b, Unset, new), Option(Unset, a, new), Option(Unset, b, new)}
ClassOptions ==
    {<<>>, <<Option(Unset, a, old), Option(b, a, old)>>,
     <<Option(b, b, old), Option(Unset, a, old)>>}

DhcpCommands ==
    On({"update"}, "settings", Server,
       {[renew_timer |-> new, valid_lifetime |-> NoArgument],
        [renew_timer |-> NoArgument, valid_lifetime |-> new]})
    \cup On(AddDelete, "interface", Server, {a})
    \cup On(Edits, "option_definition", Server, {Definition(a, new)})
    \cup On(Edits, "option", Server, EitherOption)
    \cup On(Edits, "client_class", Server, {Class(a, new, <<>>, <<>>)})
    \cup On({"add"}, "client_class", Server, {Class(b, new, <<>>, <<>>)})
    \cup On(Edits, "option_definition", Of("client_class", a), {Definition(a, new)})
    \cup On({"add"}, "option", Of("client_class", a), AddedClassOption)
    \cup On({"update", "delete"}, "option", Of("client_class", a), ClassOption)
    \cup On(Edits, "subnet", Server, {Subnet(a, new, <<>>, <<>>, <<>>, <<>>)})
    \cup On({"add"}, "subnet", Server, {Subnet(b, new, <<>>, <<>>, <<>>, <<>>)})
    \cup On(AddDelete, "pool", Of("subnet", a), {a, b})
    \cup On(AddDelete, "pool", Of("subnet", b), {b})
    \cup On(Edits, "option", Of("subnet", a), EitherOption)
    \cup On(Edits, "reservation", Of("subnet", a), {Reservation(a, new)})
    \cup On(AddDelete, "relay_address", Of("subnet", a), {a})

ForwardZone(n, v, q) == [name |-> n, setting |-> v, forward_address |-> q]
LocalZone(n, v, q, r) ==
    [name |-> n, setting |-> v, ipam_network |-> q, local_data |-> r]
Record(n, d, v) == [name |-> n, data |-> d, setting |-> v]

CacheSection ==
    [settings |-> old, listen_address |-> <<a>>, access_control_rule |-> <<>>,
     forward_zone |-> <<ForwardZone(a, old, <<Definition(a, old)>>)>>,
     local_zone |-> <<LocalZone(a, old, <<>>, <<Record(a, old, old)>>)>>]

RecordItems == {Record(a, old, old), Record(a, new, NoArgument), Record(a, NoArgument, new)}
RecordCommands(list, zone) ==
    On({"add"}, list, Of(zone, a), {Record(a, new, old)})
    \cup On({"update", "remove"}, list, Of(zone, a), RecordItems)

CacheCommands ==
    On({"update"}, "settings", Server, {new})
    \cup On(AddRemove, "listen_address", Server, {a})
    \cup On(AddRemove, "access_control_rule", Server, {a})
    \cup On({"add", "update", "remove"}, "forward_zone", Server, {ForwardZone(a, new, <<>>)})
    \cup On({"add"}, "forward_zone", Server, {ForwardZone(b, new, <<>>)})
    \cup On({"add", "update", "remove"}, "forward_address", Of("forward_zone", a),
            {Definition(a, new), Definition(b, new)})
    \cup On({"add", "update", "remove"}, "local_zone", Server, {LocalZone(a, new, <<>>, <<>>)})
    \cup On(AddRemove, "ipam_network", Of("local_zone", a), {a})
    \cup RecordCommands("local_data", "local_zone")

Zone(n, v, q, r) ==
    [name |-> n, setting |-> v, ipam_network |-> q, notify |-> <<>>, allow_transfer |-> <<>>,
     record |-> r]

AuthoritativeSection ==
    [settings |-> old, listen_address |-> <<a>>,
     zone |-> <<Zone(a, old, <<a>>, <<Record(a, old, old)>>)>>]

AuthoritativeCommands ==
    On({"update"}, "settings", Server, {new})
    \cup On(AddRemove, "listen_address", Server, {a})
    \cup On({"add", "update", "remove"}, "zone", Server, {Zone(a, new, <<>>, <<>>)})
    \cup On({"add"}, "zone", Server, {Zone(b, new, <<>>, <<>>)})
    \cup UNION {On(AddRemove, list, Of("zone", a), {a}) :
                  list \in {"ipam_network", "notify", "allow_transfer"}}
    \cup RecordCommands("record", "zone")

Host(n, v, q, r) == [name |-> n, setting |-> v, alias |-> q, ip_address |-> r]

IpamSection == [host |-> <<Host(a, old, <<a>>, <<>>)>>]

IpamCommands ==
    On({"add", "update", "remove"}, "host", Server, {Host(a, new, <<>>, <<>>)})
    \cup On({"add"}, "host", Server, {Host(b, new, <<>>, <<>>)})
    \cup UNION {On(AddRemove, list, Of("host", h), {a, b}) :
                  list \in {"alias", "ip_address"}, h \in {a, b}}

MCInitSections ==
    [dhcp |-> {DhcpSection(q) : q \in ClassOptions}, cache |-> {CacheSection},
     authoritative |-> {AuthoritativeSection}, ipam |-> {IpamSection}]

MCCommands ==
    [dhcp |-> DhcpCommands, cache |-> CacheCommands,
     authoritative |-> AuthoritativeCommands, ipam |-> IpamCommands]

MCSymmetry == Permutations(Clients)
=============================================================================
