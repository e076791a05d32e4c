---------------------------- MODULE LeaseClients ----------------------------
(***************************************************************************)
(* dhcp/client/provider.py and dhcp/client/entities.py: the DHCP clients   *)
(* of the interfaces that are configured for one. Pure operators;          *)
(* HostServices runs them.                                                 *)
(*                                                                         *)
(* A client holds on to the message of the configuration it was given. It  *)
(* may be a part of staged_data, and then an edit of it changes the client *)
(* too: the message is "shared".                                           *)
(***************************************************************************)
EXTENDS FiniteSets

CONSTANTS Links,   \* names of interfaces
          Tables,  \* route tables the leases may be for
          NoTable  \* instead of a table: no client on this interface

(* The client of one interface: the configuration it holds, what the unit was
   last started for, and what the dhclient in it has last reported. *)
NoClient == [config |-> NoTable, shared |-> FALSE, unit |-> NoTable, sent |-> "nothing"]

StartUnit(c) == [c EXCEPT !.unit = c.config, !.sent = "nothing"]

Configure(c, table, shared) == [c EXCEPT !.config = table, !.shared = shared]

(* Mutant: a change of the table is no reason to start the unit again. *)
OnConfigChangeKeeps(c, table, shared) ==
    IF c.config = NoTable
    THEN StartUnit(Configure(c, table, shared))
    ELSE Configure(c, table, shared)

(* The unit does not depend on the table; it is started again so that dhclient
   asks for the lease anew, and the lease is reported for the new table. *)
OnConfigChange(c, table, shared) ==
    IF c.config = table
    THEN Configure(c, table, shared)
    ELSE StartUnit(Configure(c, table, shared))

Process(c, table, shared) ==
    IF table = NoTable THEN NoClient ELSE OnConfigChange(c, table, shared)

(* systemd is called for an interface whose client goes, comes or changes. *)
Calls(c, table) == c.config # table

(* That call raises: the client that was to go is still there, a new or changed
   one has its configuration but was not started, or not even stopped. *)
Interrupted(c, table, shared) ==
    LET d == Configure(c, table, shared) IN
    IF table = NoTable THEN {c}
    ELSE IF c.config = NoTable THEN {d}
    ELSE {d, [d EXCEPT !.unit = NoTable, !.sent = "nothing"]}

(* apply_v4, all of it. *)
ApplyAll(clients, section, shared) ==
    [l \in Links |-> IF section[l] = NoTable /\ clients[l].config = NoTable
                     THEN clients[l]
                     ELSE Process(clients[l], section[l], shared)]

(* apply_v4 as far as the interface on which systemd raises. The clients that
   go come first, the others in the order of the configuration. *)
ApplyUntil(clients, section, shared, failing) ==
    IF ~Calls(clients[failing], section[failing]) THEN {} ELSE
    LET whole == ApplyAll(clients, section, shared)
        Going(l) == section[l] = NoTable
        before == IF Going(failing) THEN {} ELSE {l \in Links : Going(l)}
        among == {l \in Links \ {failing} : Going(l) <=> Going(failing)}
    IN {[l \in Links |-> CASE l = failing -> c
                            [] l \in before \cup some -> whole[l]
                            [] OTHER -> clients[l]] :
           some \in SUBSET among,
           c \in Interrupted(clients[failing], section[failing], shared)}
=============================================================================
