---------------------------- MODULE StagedEdits ----------------------------
(***************************************************************************)
(* Clients that edit the staged configuration at the same time.  A command *)
(* is two steps: the client gets the section, if it needs it, and makes    *)
(* its request; the agent handles the request and answers.  The agent      *)
(* handles one request at a time, but nothing orders the requests of two   *)
(* clients, and a drop or a commit may come between any two of them.       *)
(*                                                                         *)
(* Sections do not share anything, so that one is looked at at a time: its *)
(* kind is chosen at the start.                                            *)
(***************************************************************************)
EXTENDS DhcpServerSection, DnsSections

CONSTANTS
    Clients,
    Idle,           \* a client without a command under way
    InitSections,   \* function from a kind to the sections to start from
    Commands,       \* function from a kind to the commands on its section
    MaxEdits        \* bound on the commands that are under way or were answered

VARIABLES
    kind,       \* the section looked at
    staged,     \* the section in config.staged_data
    running,    \* the section in config.data
    task,       \* what each client has typed, and the request it has sent for it
    edits       \* number of requests the agent has taken

vars == <<kind, staged, running, task, edits>>

Kinds == {"dhcp", "cache", "authoritative", "ipam"}

ASSUME MaxEditsAssumption == MaxEdits \in Nat
ASSUME KindsAreKnown == DOMAIN InitSections \subseteq Kinds /\ DOMAIN InitSections = DOMAIN Commands

-----------------------------------------------------------------------------
(* dns/.../config/update carries the whole section. *)
Whole(sections) == {Command("update", "section", Server, s) : s \in sections}

RequestsOf(m) ==
    CASE kind = "dhcp" -> Requests(staged, m)
      [] kind = "cache" -> Whole(CacheEdit(staged, m))
      [] kind = "authoritative" -> Whole(AuthoritativeEdit(staged, m))
      [] kind = "ipam" -> IF m.list = "host" THEN HostCommands(staged, m)
                          ELSE HostListCommands(staged, m)

(* What the agent may make of the staged section: nothing when it refuses.  *)
Handled(r) ==
    CASE r.list = "section" -> {r.item}
      [] kind = "dhcp" -> Handle(staged, r)
      [] kind = "ipam" -> CASE r.op = "add" -> HostAdd(staged, r)
                            [] r.op = "update" -> HostUpdate(staged, r)
                            [] r.op = "remove" -> HostRemove(staged, r)

Init ==
    /\ kind \in DOMAIN InitSections
    /\ staged \in InitSections[kind]
    /\ running = staged
    /\ task = [c \in Clients |-> Idle]
    /\ edits = 0

UnderWay == {c \in Clients : task[c] # Idle}

(* The client has what it needs of the section and sends its request.       *)
Ask(c, m) ==
    /\ task[c] = Idle
    /\ edits + Cardinality(UnderWay) < MaxEdits
    /\ \E r \in RequestsOf(m) :
          task' = [task EXCEPT ![c] = [command |-> m, request |-> r]]
    /\ UNCHANGED <<kind, staged, running, edits>>

Accept(c) ==
    /\ task[c] # Idle
    /\ staged' \in Handled(task[c].request)
    /\ task' = [task EXCEPT ![c] = Idle]
    /\ edits' = edits + 1
    /\ UNCHANGED <<kind, running>>

(* The agent refuses the request, or it is lost, or the client gives up     *)
(* before the agent gets to it.                                             *)
Fail(c) ==
    /\ task[c] # Idle
    /\ task' = [task EXCEPT ![c] = Idle]
    /\ UNCHANGED <<kind, staged, running, edits>>

(* A drop, or a restart.                                                    *)
Drop ==
    /\ staged' = running
    /\ UNCHANGED <<kind, running, task, edits>>

(* A commit that succeeds makes the staged section the running one.         *)
Commit ==
    /\ running' = staged
    /\ UNCHANGED <<kind, staged, task, edits>>

Next ==
    \/ \E c \in Clients : (\E m \in Commands[kind] : Ask(c, m)) \/ Accept(c) \/ Fail(c)
    \/ Drop \/ Commit

Spec == Init /\ [][Next]_vars

-----------------------------------------------------------------------------
(* The keys by which the handlers look items up. *)
KeysOf(q, list) ==
    CASE list \in {"interface", "pool", "relay_address", "ipam_network", "notify",
                   "allow_transfer", "alias", "ip_address"} -> q
      [] list = "subnet" -> [i \in DOMAIN q |-> q[i].address]
      [] list = "reservation" -> [i \in DOMAIN q |-> q[i].hardware_address]
      [] OTHER -> [i \in DOMAIN q |-> q[i].name]

(* Lists that may hold one key twice: records of a name, and the two whose   *)
(* additions compare an address with a string.                              *)
Bags == {"settings", "listen_address", "access_control_rule", "local_data", "record"}

(* The fields of a section, or of an item, that are lists of items.         *)
ListsIn(x, but) == DOMAIN x \ (but \cup {"name", "address", "setting", "hardware_address"})
HasLists(list) == list \in {"client_class", "subnet", "forward_zone", "local_zone", "zone", "host"}

Keyed(x, but) ==
    \A list \in ListsIn(x, but) : LET keys == KeysOf(x[list], list) IN
        \A i, j \in DOMAIN keys : keys[i] = keys[j] => i = j

(* In a client class an option may have a name and a code.  An update by     *)
(* code copies a nameless one over every other of its code, so that copies  *)
(* of it may be listed.                                                     *)
NamesOrCopies(q) ==
    \A i, j \in DOMAIN q : i # j /\ q[i].name = q[j].name =>
        q[i].name = Unset /\ (q[i].code = q[j].code => q[i] = q[j])

(* Lookups stop at the first match, or change every match, as if there were *)
(* only one: in no list is a key listed twice, however the commands of the  *)
(* clients, drops and commits interleave, and although a check may be made  *)
(* on a copy that is stale when it is sent back.  Only of the options of a  *)
(* client class some may be listed twice, those without a name; it makes no *)
(* difference which of them a lookup finds, as they are equal.              *)
KeysUnique ==
    \A s \in {staged, running} :
        /\ Keyed(s, Bags)
        /\ \A list \in ListsIn(s, Bags) : HasLists(list) =>
              \A i \in DOMAIN s[list] :
                  IF list = "client_class"
                  THEN Keyed(s[list][i], Bags \cup {"option"}) /\ NamesOrCopies(s[list][i].option)
                  ELSE Keyed(s[list][i], Bags)

-----------------------------------------------------------------------------
(* x is an item the command names: an addition the one it brings. *)
IsNamed(m, x) ==
    CASE m.op = "add" -> x = m.item
      [] m.op # "add" /\ kind = "dhcp" -> Names(m.list, x, m.item)
      [] m.op # "add" /\ m.list \in {"local_data", "record"} ->
            x.name = m.item.name /\ (m.op # "update" => m.item.data \in {NoArgument, x.data})
      [] m.op # "add" /\ m.list \in {"forward_zone", "local_zone", "zone", "forward_address",
                                     "host"} ->
            x.name = m.item.name
      [] OTHER -> x = m.item

Without(q, m) == SelectSeq(q, LAMBDA x : ~IsNamed(m, x))

(* An update names a field, and the data if the item is a record; but all    *)
(* options of a code, and all of a host.                                    *)
NamesFields(m) ==
    m.op = "update" /\ m.list # "host" /\ (m.list = "option" => m.item.name # Unset)
Unnamed(x) == [f \in DOMAIN x |-> IF f \in {"setting", "data"} THEN NoArgument ELSE x[f]]
Others(q, m) ==
    IF NamesFields(m) THEN [i \in DOMAIN q |-> IF IsNamed(m, q[i]) THEN Unnamed(q[i]) ELSE q[i]]
    ELSE Without(q, m)

OtherSettings(old, m) ==
    IF kind # "dhcp" THEN NoArgument
    ELSE [f \in DOMAIN old |-> IF m.item[f] = NoArgument THEN old[f] ELSE NoArgument]

(* The positions of the entry whose list the command edits.                 *)
Owner(s, m) ==
    Found(s[m.of[1]], LAMBDA x : IF m.of[1] = "subnet" THEN x.address = m.of[2]
                                 ELSE x.name = m.of[2])

(* s with the list that m is about edited. *)
InPlace(s, m, Edit(_)) ==
    IF m.of = Server THEN [s EXCEPT ![m.list] = Edit(@)]
    ELSE [s EXCEPT ![m.of[1]] =
             [i \in DOMAIN @ |-> IF i \in Owner(s, m) THEN [@[i] EXCEPT ![m.list] = Edit(@)]
                                 ELSE @[i]]]

(* The section without what the command names. *)
Rest(s, m) ==
    IF m.list = "settings" THEN InPlace(s, m, LAMBDA q : OtherSettings(q, m))
    ELSE InPlace(s, m, LAMBDA q : Others(q, m))

(* The section without what the request carries: all of it in the DNS        *)
(* servers, all settings, or a whole item.                                  *)
Outside(s, r) ==
    CASE r.list = "section" -> NoArgument
      [] r.list = "settings" -> InPlace(s, r, LAMBDA q : NoArgument)
      [] OTHER -> InPlace(s, r, LAMBDA q : Without(q, r))

Accepted(c) == task[c] # Idle /\ task'[c] = Idle /\ edits' # edits

(* What the client has read is stale: the command would send another        *)
(* request now.                                                             *)
Stale(c) == task[c].request \notin RequestsOf(task[c].command)

(* An accepted command leaves everything that it does not name as it was,   *)
(* and in the same order, down to the other fields and lists of the item    *)
(* that it updates, unless what it had read of that item is stale.  Then it *)
(* loses or revives what others have edited, but only within what its       *)
(* request carries: for a command on the DHCP server the item, or the       *)
(* settings, for one on IPAM the host, and for the DNS servers the section. *)
OthersKept ==
    [][\A c \in Clients : Accepted(c) =>
           LET m == task[c].command
               r == task[c].request
           IN  /\ Outside(staged', r) = Outside(staged, r)
               /\ Stale(c) \/ Rest(staged', m) = Rest(staged, m)]_vars

ListOf(s, m) ==
    IF m.of = Server THEN s[m.list]
    ELSE LET o == Owner(s, m) IN
         IF o = {} THEN <<>> ELSE s[m.of[1]][CHOOSE i \in o : TRUE][m.list]

(* How many items of its list the command names. *)
Count(s, m) == Cardinality({i \in DOMAIN ListOf(s, m) : IsNamed(m, ListOf(s, m)[i])})

(* A deletion by what several items may share: an address the addition did  *)
(* not find, a record another one was changed into, the code of an option.  *)
Ambiguous(m) ==
    \/ m.list \in {"listen_address", "access_control_rule", "local_data", "record"}
    \/ m.list = "option" /\ m.item.name = Unset

(* When the agent has accepted an addition the item is there as it was      *)
(* given, and when it has accepted a deletion nothing of that key is left;  *)
(* a copy that was stale when it was sent makes no difference.  Of several  *)
(* items that share what a deletion gives one goes, and of several options  *)
(* of a code at least every other: one that follows a deleted one stays.    *)
DoneAsAsked ==
    [][\A c \in Clients : Accepted(c) => LET m == task[c].command IN
           /\ m.op = "add" => Contains(ListOf(staged', m), m.item)
           /\ m.op \in {"delete", "remove"} =>
                 CASE ~Ambiguous(m) -> Count(staged', m) = 0
                   [] Ambiguous(m) /\ m.list = "option" ->
                         2 * Count(staged', m) <= Count(staged, m)
                   [] OTHER -> Stale(c) \/ Count(staged, m) \in {0, Count(staged', m) + 1}]_vars
=============================================================================
