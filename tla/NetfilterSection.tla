-------------------------- MODULE NetfilterSection --------------------------
(***************************************************************************)
(* The netfilter section of the configuration: what each "netfilter config *)
(* ..." command of the client does to it, and the ruleset the agent makes  *)
(* of it.  Pure operators; Netfilter.tla runs them.                        *)
(*                                                                         *)
(* An edit is the set of sections its command may send back: empty when    *)
(* the handler raises before its update request (an InvalidArgument, or    *)
(* an IndexError, TypeError or AttributeError nobody catches), so that a   *)
(* command that raises changes nothing.                                    *)
(*                                                                         *)
(* Left out: the port maps of an ip_forward, which no command can change,  *)
(* and the text of nftables.                                               *)
(***************************************************************************)
EXTENDS Integers, Sequences, SequencesExt

CONSTANTS
    Zones,          \* zone names
    Interfaces,     \* interface names
    Destinations,   \* addresses masqueraded traffic is forwarded to
    Descriptions,   \* descriptions of rules
    Unquotable,     \* the descriptions nftables cannot parse
    Values,         \* values a match lists
    Families,       \* the kinds of match in use
    Indexes,        \* positions a user may type, negative ones included
    NoArgument      \* an optional argument that was not given

AllFamilies == {"ip", "ip6", "tcp", "udp", "icmp", "icmp6", "ct", "meta"}
Fields == {"protocol", "source", "destination", "type", "code", "state",
           "input_interface", "output_interface"}
Chains == {"input", "forward"}
Verdicts == {"ACCEPT", "DROP"}
Sides == {"source_zone", "destination_zone"}

ASSUME FamiliesKnown == Families \subseteq AllFamilies
ASSUME IndexesAreIntegers == Indexes \subseteq Int
ASSUME UnquotableAssumption == Unquotable \subseteq Descriptions
ASSUME NoArgumentOutside == NoArgument \notin Descriptions \cup Verdicts

Zone == [name: Zones, interface: Seq(Interfaces)]
Masquerade == [interface: Interfaces, ip_forward: Seq(Destinations)]
Match == [negate: BOOLEAN, values: [Fields -> Seq(Values)]]
Rule == [description: Descriptions, verdict: Verdicts, source_zone: Seq(Zones),
         destination_zone: Seq(Zones), match: [Families -> Seq(Match)]]
Chain == [policy: Verdicts, rule: Seq(Rule)]
Section == [enabled: BOOLEAN, zone: Seq(Zone), masquerade: Seq(Masquerade),
            input: Chain, forward: Chain]

-----------------------------------------------------------------------------
(* Zones and masquerading. *)

(* The answer of a handler that goes on to its update only under a guard.  *)
When(guard, s) == IF guard THEN {s} ELSE {}

(* The first entry of q whose key is the given one, as a set of positions. *)
FirstWith(q, key, value) ==
    {i \in DOMAIN q : /\ q[i][key] = value
                      /\ \A j \in DOMAIN q : j < i => q[j][key] # value}

AddZone(s, zone) ==
    When(FirstWith(s.zone, "name", zone) = {},
         [s EXCEPT !.zone = Append(@, [name |-> zone, interface |-> <<>>])])

RemoveZone(s, zone) ==
    {[s EXCEPT !.zone = RemoveFirstMatch(@, LAMBDA z : z.name = zone)]}

AddZoneInterface(s, zone, interface) ==
    {[s EXCEPT !.zone[i].interface = Append(@, interface)] :
        i \in {j \in FirstWith(s.zone, "name", zone) :
                    ~Contains(s.zone[j].interface, interface)}}

RemoveZoneInterface(s, zone, interface) ==
    {[s EXCEPT !.zone[i].interface = RemoveFirst(@, interface)] :
        i \in FirstWith(s.zone, "name", zone)}

AddMasquerade(s, interface) ==
    When(FirstWith(s.masquerade, "interface", interface) = {},
         [s EXCEPT !.masquerade =
             Append(@, [interface |-> interface, ip_forward |-> <<>>])])

(* "masquerade remove" is registered with the handler of "masquerade add". *)
RemoveMasquerade(s, interface) == AddMasquerade(s, interface)

(* Both loops go over every entry of the interface, and the update is sent  *)
(* even when there is none.  A destination may be listed twice.            *)
EditForwards(s, interface, Edit(_)) ==
    {[s EXCEPT !.masquerade =
        [i \in DOMAIN s.masquerade |->
            IF s.masquerade[i].interface = interface
            THEN [s.masquerade[i] EXCEPT !.ip_forward = Edit(@)]
            ELSE s.masquerade[i]]]}

AddMasqueradeForward(s, interface, destination) ==
    EditForwards(s, interface, LAMBDA q : Append(q, destination))

RemoveMasqueradeForward(s, interface, destination) ==
    EditForwards(s, interface, LAMBDA q : RemoveFirst(q, destination))

(* The destination asked for is an IPv4Address, the ones listed are strings *)
(* and never equal to it: the handlers of both port commands always raise.  *)
EditMasqueradePort(s) == {}

-----------------------------------------------------------------------------
(* Rules. *)

(* Element i of a Python list is element Position(q, i) of the sequence.    *)
Position(q, i) == IF i < 0 THEN Len(q) + i + 1 ELSE i + 1

(* The handler edits rule i of a chain; an index out of range raises.       *)
EditRule(s, chain, i, Edit(_)) ==
    LET p == Position(s[chain].rule, i) IN
    IF p \in DOMAIN s[chain].rule
    THEN {[s EXCEPT ![chain].rule[p] = r] : r \in Edit(s[chain].rule[p])}
    ELSE {}

(* The forward handler's annotation is no callable: its command raises.     *)
SetPolicy(s, chain, policy) ==
    When(chain = "input", [s EXCEPT ![chain].policy = policy])

AddRule(s, chain, description, verdict) ==
    {[s EXCEPT ![chain].rule =
        Append(@, [description |-> description, verdict |-> verdict,
                   source_zone |-> <<>>, destination_zone |-> <<>>,
                   match |-> [f \in Families |-> <<>>]])]}

(* Here alone the index is a UInt32, which a negative number is not.        *)
UpdateRule(s, chain, i, description, verdict) ==
    IF i < 0 THEN {} ELSE
    EditRule(s, chain, i, LAMBDA r :
        {[r EXCEPT !.description = IF description = NoArgument THEN @ ELSE description,
                   !.verdict = IF verdict = NoArgument THEN @ ELSE verdict]})

RemoveRule(s, chain, i) ==
    LET p == Position(s[chain].rule, i) IN
    When(p \in DOMAIN s[chain].rule, [s EXCEPT ![chain].rule = RemoveAt(@, p)])

(* Mutant: the zone is appended without looking for it in the rule.         *)
AddRuleZoneUnchecked(s, chain, i, side, zone) ==
    IF FirstWith(s.zone, "name", zone) = {} THEN {} ELSE
    EditRule(s, chain, i, LAMBDA r : {[r EXCEPT ![side] = Append(@, zone)]})

AddRuleZone(s, chain, i, side, zone) ==
    IF FirstWith(s.zone, "name", zone) = {} THEN {} ELSE
    EditRule(s, chain, i, LAMBDA r :
        When(~Contains(r[side], zone), [r EXCEPT ![side] = Append(@, zone)]))

RemoveRuleZone(s, chain, i, side, zone) ==
    EditRule(s, chain, i, LAMBDA r : {[r EXCEPT ![side] = RemoveFirst(@, zone)]})

-----------------------------------------------------------------------------
(* Matches.  The handlers of a family differ in what they get done before   *)
(* Python or protobuf stops them.  Assigning to a repeated field raises,    *)
(* and so does putting an address or a number among strings, a string among *)
(* numbers, indexing with a string (an argument without annotation), and a  *)
(* registered argument the handler does not know.                           *)
(*   negate: update with only the negate argument gets to its update request *)
(*   extend: the fields whose values "update" appends                       *)
(*   remove: the match can be removed                                       *)
(*   add, delete: the fields one value can be appended to, or removed from  *)
Stuck == [negate |-> FALSE, extend |-> {}, remove |-> FALSE, add |-> {}, delete |-> {}]
Works(extend, add, delete) ==
    [negate |-> TRUE, extend |-> extend, remove |-> TRUE, add |-> add, delete |-> delete]

Addresses == {"source", "destination"}

(* An address is appended as an object; "protocol add" has no such argument. *)
InputIp == Works(Addresses, {}, {"protocol"})
(* Its update always assigns the protocol. *)
ForwardIp == [Works({}, Addresses, Addresses \cup {"protocol"}) EXCEPT !.negate = FALSE]
InputIp6 == Works(Addresses, Addresses \cup {"protocol"}, Addresses \cup {"protocol"})
ForwardIp6 == Works(Addresses, Addresses \cup {"protocol"}, Addresses \cup {"protocol"})
(* Ports are numbers to the handlers and strings to the schema. *)
InputTcp == Works({}, {}, {})
ForwardTcp == Works({}, {}, {})
InputUdp == Works({}, {}, {})
ForwardUdp == Works({}, {}, {})
(* Codes are strings to the handlers and numbers to the schema. *)
InputIcmp == Works({}, {"type"}, {"type"})
ForwardIcmp == [Works({}, {"type"}, {"type"}) EXCEPT !.negate = FALSE]
InputIcmp6 == Stuck
ForwardIcmp6 == Works({}, {"type"}, {"type"})
InputCt == Works({}, {"state"}, {"state"})
ForwardCt == Works({}, {"state"}, {"state"})
InputMeta == Stuck
(* The interface commands register an argument the handlers do not have. *)
ForwardMeta == Works({}, {"protocol"}, {"protocol"})

Handlers ==
    [input |-> [ip |-> InputIp, ip6 |-> InputIp6, tcp |-> InputTcp, udp |-> InputUdp,
                icmp |-> InputIcmp, icmp6 |-> InputIcmp6, ct |-> InputCt,
                meta |-> InputMeta],
     forward |-> [ip |-> ForwardIp, ip6 |-> ForwardIp6, tcp |-> ForwardTcp,
                  udp |-> ForwardUdp, icmp |-> ForwardIcmp, icmp6 |-> ForwardIcmp6,
                  ct |-> ForwardCt, meta |-> ForwardMeta]]

(* Every "match add" assigns to a repeated field of the match it has added. *)
AddMatch(s) == {}

(* The handler edits match j of a family in rule i.                         *)
EditMatch(s, chain, i, family, j, Edit(_)) ==
    EditRule(s, chain, i, LAMBDA r :
        LET p == Position(r.match[family], j) IN
        IF p \in DOMAIN r.match[family]
        THEN {[r EXCEPT !.match[family][p] = m] : m \in Edit(r.match[family][p])}
        ELSE {})

NegateMatch(s, chain, i, family, j, negate) ==
    EditMatch(s, chain, i, family, j, LAMBDA m :
        When(Handlers[chain][family].negate, [m EXCEPT !.negate = negate]))

ExtendMatch(s, chain, i, family, j, field, value) ==
    EditMatch(s, chain, i, family, j, LAMBDA m :
        When(field \in Handlers[chain][family].extend,
             [m EXCEPT !.values[field] = Append(@, value)]))

RemoveMatch(s, chain, i, family, j) ==
    IF ~Handlers[chain][family].remove THEN {} ELSE
    EditRule(s, chain, i, LAMBDA r :
        LET p == Position(r.match[family], j) IN
        When(p \in DOMAIN r.match[family], [r EXCEPT !.match[family] = RemoveAt(@, p)]))

AddValue(s, chain, i, family, j, field, value) ==
    EditMatch(s, chain, i, family, j, LAMBDA m :
        When(field \in Handlers[chain][family].add,
             [m EXCEPT !.values[field] = Append(@, value)]))

(* remove() raises when the value is not listed.                            *)
RemoveValue(s, chain, i, family, j, field, value) ==
    EditMatch(s, chain, i, family, j, LAMBDA m :
        When(field \in Handlers[chain][family].delete /\ Contains(m.values[field], value),
             [m EXCEPT !.values[field] = RemoveFirst(@, value)]))

-----------------------------------------------------------------------------
(* The commands, with the arguments a user may give. *)

SectionCommands ==
    [op: {"enable", "disable", "ip-forward-port"}]
    \cup [op: {"zone add", "zone remove"}, zone: Zones]
    \cup [op: {"zone interface add", "zone interface remove"},
          zone: Zones, interface: Interfaces]
    \cup [op: {"masquerade add", "masquerade remove"}, interface: Interfaces]
    \cup [op: {"ip-forward add", "ip-forward remove"},
          interface: Interfaces, destination: Destinations]

RuleCommands ==
    [op: {"policy"}, chain: Chains, policy: Verdicts]
    \cup [op: {"rule add"}, chain: Chains, description: Descriptions, verdict: Verdicts]
    \cup [op: {"rule update"}, chain: Chains, index: Indexes,
          description: Descriptions \cup {NoArgument}, verdict: Verdicts \cup {NoArgument}]
    \cup [op: {"rule remove"}, chain: Chains, index: Indexes]
    \cup [op: {"rule zone add", "rule zone remove"}, chain: {"input"}, index: Indexes,
          side: {"source_zone"}, zone: Zones]
    \cup [op: {"rule zone add", "rule zone remove"}, chain: {"forward"}, index: Indexes,
          side: Sides, zone: Zones]

MatchCommands(chain) ==
    [op: {"match add"}, chain: {chain}]
    \cup [op: {"match negate"}, chain: {chain}, index: Indexes, family: Families,
          match: Indexes, negate: BOOLEAN]
    \cup [op: {"match remove"}, chain: {chain}, index: Indexes, family: Families,
          match: Indexes]
    \cup [op: {"match extend", "value add", "value remove"}, chain: {chain}, index: Indexes,
          family: Families, match: Indexes, field: Fields, value: Values]

InputMatchCommands == MatchCommands("input")
ForwardMatchCommands == MatchCommands("forward")

Commands ==
    SectionCommands \cup RuleCommands \cup InputMatchCommands \cup ForwardMatchCommands

Edit(s, m) ==
    CASE m.op = "enable" -> {[s EXCEPT !.enabled = TRUE]}
      [] m.op = "disable" -> {[s EXCEPT !.enabled = FALSE]}
      [] m.op = "zone add" -> AddZone(s, m.zone)
      [] m.op = "zone remove" -> RemoveZone(s, m.zone)
      [] m.op = "zone interface add" -> AddZoneInterface(s, m.zone, m.interface)
      [] m.op = "zone interface remove" -> RemoveZoneInterface(s, m.zone, m.interface)
      [] m.op = "masquerade add" -> AddMasquerade(s, m.interface)
      [] m.op = "masquerade remove" -> RemoveMasquerade(s, m.interface)
      [] m.op = "ip-forward add" -> AddMasqueradeForward(s, m.interface, m.destination)
      [] m.op = "ip-forward remove" -> RemoveMasqueradeForward(s, m.interface, m.destination)
      [] m.op = "ip-forward-port" -> EditMasqueradePort(s)
      [] m.op = "policy" -> SetPolicy(s, m.chain, m.policy)
      [] m.op = "rule add" -> AddRule(s, m.chain, m.description, m.verdict)
      [] m.op = "rule update" -> UpdateRule(s, m.chain, m.index, m.description, m.verdict)
      [] m.op = "rule remove" -> RemoveRule(s, m.chain, m.index)
      [] m.op = "rule zone add" -> AddRuleZone(s, m.chain, m.index, m.side, m.zone)
      [] m.op = "rule zone remove" -> RemoveRuleZone(s, m.chain, m.index, m.side, m.zone)
      [] m.op = "match add" -> AddMatch(s)
      [] m.op = "match negate" ->
             NegateMatch(s, m.chain, m.index, m.family, m.match, m.negate)
      [] m.op = "match extend" ->
             ExtendMatch(s, m.chain, m.index, m.family, m.match, m.field, m.value)
      [] m.op = "match remove" -> RemoveMatch(s, m.chain, m.index, m.family, m.match)
      [] m.op = "value add" ->
             AddValue(s, m.chain, m.index, m.family, m.match, m.field, m.value)
      [] m.op = "value remove" ->
             RemoveValue(s, m.chain, m.index, m.family, m.match, m.field, m.value)

-----------------------------------------------------------------------------
(* The ruleset. *)

(* A dictionary of zones: the last of two entries of a name wins, and a name *)
(* nobody defines stands for no interface.                                  *)
ZoneInterfaces(s, zone) ==
    UNION {ToSet(s.zone[i].interface) :
        i \in {j \in DOMAIN s.zone :
                 /\ s.zone[j].name = zone
                 /\ \A k \in DOMAIN s.zone : k > j => s.zone[k].name # zone}}

(* No interface at all in the zones of a side leaves the side unrestricted. *)
SideInterfaces(s, zones) == UNION {ZoneInterfaces(s, zone) : zone \in ToSet(zones)}

(* One clause per field that has values; clauses are conjoined.             *)
Clauses(matches) ==
    UNION {UNION {{[family |-> f, field |-> g, negate |-> matches[f][i].negate,
                    values |-> ToSet(matches[f][i].values[g])] :
                       g \in {h \in Fields : matches[f][i].values[h] # <<>>}} :
                  i \in DOMAIN matches[f]} :
           f \in DOMAIN matches}

RenderRule(s, r) ==
    [iifname |-> SideInterfaces(s, r.source_zone),
     oifname |-> SideInterfaces(s, r.destination_zone),
     clauses |-> Clauses(r.match), verdict |-> r.verdict, comment |-> r.description]

RenderChain(s, chain) ==
    [policy |-> chain.policy,
     rule |-> [i \in DOMAIN chain.rule |-> RenderRule(s, chain.rule[i])]]

Render(s) ==
    [nat |-> s.masquerade,
     input |-> RenderChain(s, s.input), forward |-> RenderChain(s, s.forward)]

(* nftables takes a ruleset as one transaction, or refuses all of it.       *)
NftAccepts(ruleset) ==
    \A chain \in Chains : \A i \in DOMAIN ruleset[chain].rule :
        ruleset[chain].rule[i].comment \notin Unquotable
=============================================================================
