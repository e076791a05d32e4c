------------------------- MODULE DhcpServerSection -------------------------
(***************************************************************************)
(* The DHCPv4 server section: the requests its commands send, and what the *)
(* handlers of the agent do with them.  Additions and deletions send what  *)
(* was typed; an update gets the section, changes its copy of one item and *)
(* sends that item, which the handler copies over the staged one.          *)
(*                                                                         *)
(* Left out: the checks that mandatory fields are not empty, which no      *)
(* command fails, and the fields that are handled like the one kept        *)
(* ("setting").                                                            *)
(***************************************************************************)
EXTENDS StagedLists

CONSTANT Unset      \* the default value of a name or a code

(* What a request names among the items of its list: an option goes by its  *)
(* name, or by its code when it has no name.                                *)
SameOption(x, item) ==
    IF item.name # Unset THEN x.name = item.name ELSE x.code = item.code

Names(list, x, item) ==
    CASE list \in {"interface", "pool", "relay_address"} -> x = item
      [] list \in {"option_definition", "client_class"} -> x.name = item.name
      [] list = "option" -> SameOption(x, item)
      [] list = "subnet" -> x.address = item.address
      [] list = "reservation" -> x.hardware_address = item.hardware_address

Update(q, r) == ReplaceEvery(q, r.item, LAMBDA x : Names(r.list, x, r.item))
Delete(q, r) == DeleteWhileIterating(q, LAMBDA x : Names(r.list, x, r.item))

(* The handlers of a list whose additions must have a new name.             *)
ItemHandlers(q, r) ==
    CASE r.op = "add" -> AddUnless(q, r.item, LAMBDA x : Names(r.list, x, r.item))
      [] r.op = "update" -> {Update(q, r)}
      [] r.op = "delete" -> {Delete(q, r)}

(* An addition compares names only, and all options without one have the    *)
(* same: a second option that goes by its code is refused.                  *)
OptionListHandlers(q, r) ==
    CASE r.op = "add" -> AddUnless(q, r.item, LAMBDA x : x.name = r.item.name)
      [] r.op = "update" -> {Update(q, r)}
      [] r.op = "delete" -> {Delete(q, r)}

(* Strings: their deletion breaks out of the loop.                          *)
StringHandlers(q, r) ==
    CASE r.op = "add" -> AddUnless(q, r.item, LAMBDA x : x = r.item)
      [] r.op = "delete" -> {RemoveFirst(q, r.item)}

InterfaceHandlers(s, r) == InList(s, "interface", ItemHandlers(s.interface, r))

(* Every field of the settings is assigned, given or not.                   *)
SettingsHandler(s, r) == {[s EXCEPT !.settings = r.item]}

OptionDefinitionHandlers(s, r) ==
    InList(s, "option_definition", ItemHandlers(s.option_definition, r))

ClientClassHandlers(s, r) == InList(s, "client_class", ItemHandlers(s.client_class, r))

OptionHandlers(s, r) == InList(s, "option", OptionListHandlers(s.option, r))

SubnetHandlers(s, r) == InList(s, "subnet", ItemHandlers(s.subnet, r))

(* The lists of a client class and of a subnet.                             *)
InClass(s, r, Edit(_)) == InEntry(s, "client_class", LAMBDA x : x.name = r.of[2], Edit)
InSubnet(s, r, Edit(_)) == InEntry(s, "subnet", LAMBDA x : x.address = r.of[2], Edit)

ClassOptionDefinitionHandlers(s, r) ==
    InClass(s, r, LAMBDA c :
        InList(c, "option_definition", ItemHandlers(c.option_definition, r)))

ClassOptionHandlers(s, r) ==
    InClass(s, r, LAMBDA c : InList(c, "option", OptionListHandlers(c.option, r)))

(* Mutant: a pool is appended without looking for it.                       *)
PoolHandlersUnchecked(s, r) ==
    InSubnet(s, r, LAMBDA n :
        InList(n, "pool", IF r.op = "add" THEN {Append(n.pool, r.item)}
                          ELSE StringHandlers(n.pool, r)))

PoolHandlers(s, r) ==
    InSubnet(s, r, LAMBDA n : InList(n, "pool", StringHandlers(n.pool, r)))

SubnetOptionHandlers(s, r) ==
    InSubnet(s, r, LAMBDA n : InList(n, "option", OptionListHandlers(n.option, r)))

(* The loop of the addition reads reservation.name, a field there is none   *)
(* of: it raises whenever the subnet has a reservation.                     *)
ReservationListHandlers(q, r) ==
    IF r.op = "add" THEN AddUnless(q, r.item, LAMBDA x : TRUE) ELSE ItemHandlers(q, r)

ReservationHandlers(s, r) ==
    InSubnet(s, r, LAMBDA n :
        InList(n, "reservation", ReservationListHandlers(n.reservation, r)))

RelayAddressHandlers(s, r) ==
    InSubnet(s, r, LAMBDA n :
        InList(n, "relay_address", StringHandlers(n.relay_address, r)))

Handle(s, r) ==
    CASE r.list = "interface" -> InterfaceHandlers(s, r)
      [] r.list = "settings" -> SettingsHandler(s, r)
      [] r.list = "client_class" -> ClientClassHandlers(s, r)
      [] r.list = "subnet" -> SubnetHandlers(s, r)
      [] r.list = "pool" -> PoolHandlers(s, r)
      [] r.list = "reservation" -> ReservationHandlers(s, r)
      [] r.list = "relay_address" -> RelayAddressHandlers(s, r)
      [] r.list = "option_definition" ->
            IF r.of = Server THEN OptionDefinitionHandlers(s, r)
            ELSE ClassOptionDefinitionHandlers(s, r)
      [] r.list = "option" ->
            IF r.of = Server THEN OptionHandlers(s, r)
            ELSE IF r.of[1] = "client_class" THEN ClassOptionHandlers(s, r)
            ELSE SubnetOptionHandlers(s, r)

-----------------------------------------------------------------------------
(* The commands.  Each is the set of requests it may send, having read the  *)
(* section s when it is an update: empty when it raises.                    *)

(* Mutant: an update sends what was typed, and nothing else of the item.     *)
UpdatedTyped(q, m) ==
    {m : i \in Found(q, LAMBDA x : Names(m.list, x, m.item))}

(* The request of an update: the item it finds in q, with the typed setting. *)
Updated(q, m) ==
    {[m EXCEPT !.item = [q[i] EXCEPT !.setting = m.item.setting]] :
        i \in Found(q, LAMBDA x : Names(m.list, x, m.item))}

(* The requests of an update in the class, or the subnet, that m names.     *)
UpdatedInClass(s, m) ==
    UNION {Updated(s.client_class[i][m.list], m) :
             i \in Found(s.client_class, LAMBDA x : x.name = m.of[2])}
UpdatedInSubnet(s, m) ==
    UNION {Updated(s.subnet[i][m.list], m) :
             i \in Found(s.subnet, LAMBDA x : x.address = m.of[2])}

UpdateGlobalSettings(s, m) ==
    {[m EXCEPT !.item = [f \in DOMAIN s.settings |-> Given(m.item[f], s.settings[f])]]}

OptionDefinitionCommands(s, m) ==
    IF m.op = "update" THEN Updated(s.option_definition, m) ELSE {m}

OptionCommands(s, m) == IF m.op = "update" THEN Updated(s.option, m) ELSE {m}

ClientClassCommands(s, m) == IF m.op = "update" THEN Updated(s.client_class, m) ELSE {m}

ClassOptionDefinitionCommands(s, m) == IF m.op = "update" THEN UpdatedInClass(s, m) ELSE {m}

ClassOptionCommands(s, m) == IF m.op = "update" THEN UpdatedInClass(s, m) ELSE {m}

(* "delete" sends the text of an empty message instead of the address, and  *)
(* the agent refuses it.                                                    *)
SubnetCommands(s, m) ==
    CASE m.op = "add" -> {m}
      [] m.op = "update" -> Updated(s.subnet, m)
      [] m.op = "delete" -> {}

SubnetOptionCommands(s, m) == IF m.op = "update" THEN UpdatedInSubnet(s, m) ELSE {m}

ReservationCommands(s, m) == IF m.op = "update" THEN UpdatedInSubnet(s, m) ELSE {m}

(* Interfaces, pools and relay addresses are only added and deleted.        *)
StringCommands(m) == {m}

Requests(s, m) ==
    CASE m.list \in {"interface", "pool", "relay_address"} -> StringCommands(m)
      [] m.list = "settings" -> UpdateGlobalSettings(s, m)
      [] m.list = "client_class" -> ClientClassCommands(s, m)
      [] m.list = "subnet" -> SubnetCommands(s, m)
      [] m.list = "reservation" -> ReservationCommands(s, m)
      [] m.list = "option_definition" ->
            IF m.of = Server THEN OptionDefinitionCommands(s, m)
            ELSE ClassOptionDefinitionCommands(s, m)
      [] m.list = "option" ->
            IF m.of = Server THEN OptionCommands(s, m)
            ELSE IF m.of[1] = "client_class" THEN ClassOptionCommands(s, m)
            ELSE SubnetOptionCommands(s, m)
=============================================================================
