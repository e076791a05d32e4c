----------------------------- MODULE HostServers -----------------------------
(***************************************************************************)
(* What the change handlers of ipam, dns/cache, dns/authoritative and      *)
(* dhcp/server do with their sections: the table of hosts, and the files   *)
(* and units of unbound, nsd and kea. Pure operators; HostServices runs    *)
(* them.                                                                   *)
(*                                                                         *)
(* A file is what it was generated from. unbound and nsd have two files,   *)
(* or kinds of file, which are written one after the other, kea has one.   *)
(* A server is asked to listen on one address (kea: on interfaces) and     *)
(* binds what it knows to be there.                                        *)
(***************************************************************************)
EXTENDS Naturals, FiniteSets, Sequences, SequencesExt, FiniteSetsExt

CONSTANTS Hosts,      \* entries of the list of hosts
          Unparsable, \* the hosts that have an address ip_address() refuses
          Links,      \* names of interfaces
          Stopped,    \* instead of what a unit runs with
          NotThere,   \* instead of a file that was not written
          Raises      \* instead of a file whose generate() raises

ASSUME UnparsableAssumption == Unparsable \subseteq Hosts
ASSUME LinksAssumption == IsFiniteSet(Links)

Cache == [enabled: BOOLEAN, listen: BOOLEAN, use_ipam: BOOLEAN]
Authoritative ==
    [enabled: BOOLEAN, listen: BOOLEAN, use_ipam: BOOLEAN, email: BOOLEAN]
Dhcp == [interface: SUBSET Links, use_ipam: BOOLEAN]

(* A provider that runs a server: what it knows of addresses or interfaces,
   its timer, the two files, what the unit runs with, and how its last
   apply() ended. *)
NewServer(first, second, unit) ==
    [known |-> {}, timer |-> FALSE, first |-> first, second |-> second,
     unit |-> unit, last |-> "none"]

-----------------------------------------------------------------------------
(* IPAM. *)

(* The loop enters a host by its name before it parses its addresses. *)
UpdateHosts(hosts) ==
    LET bad == {i \in DOMAIN hosts : hosts[i] \in Unparsable}
        end == IF bad = {} THEN Len(hosts) ELSE Min(bad)
    IN [table |-> {hosts[i] : i \in 1..end}, raised |-> bad # {}]

(* The hosts a file names; their addresses are parsed when it is made. *)
Named(use_ipam, table) == IF use_ipam THEN table ELSE {}
Parses(hosts) == hosts \cap Unparsable = {}

-----------------------------------------------------------------------------
(* The files. *)

LocalConf(section, table, known) ==
    LET hosts == Named(section.use_ipam, table) IN
    IF Parses(hosts)
    THEN [section |-> section, bound |-> section.listen /\ known # {}, hosts |-> hosts]
    ELSE Raises

ForwardConf(section) == section

NsdConf(section, known) ==
    [section |-> section, bound |-> section.listen /\ known # {}]

(* The host part of the email is what follows an @, which may not be there. *)
ZoneFile(section, table) ==
    LET hosts == Named(section.use_ipam, table) IN
    IF section.email /\ Parses(hosts)
    THEN [section |-> section, hosts |-> hosts]
    ELSE Raises

Dhcp4Conf(section, table, known) ==
    LET hosts == Named(section.use_ipam, table) IN
    IF Parses(hosts)
    THEN [section |-> section, interfaces |-> section.interface \cap known,
          hosts |-> hosts]
    ELSE Raises

-----------------------------------------------------------------------------
(* apply(). A fault is where it raises: "write" before the first file is in
   place, "half" between the two, "unit" in the call of systemd; "absent" is
   the answer that there is no such unit, which the DHCP server lets pass. *)

Install(s, first, second, fault) ==
    IF fault = "write" \/ first = Raises THEN [s EXCEPT !.last = "raised"]
    ELSE IF fault = "half" \/ second = Raises
    THEN [s EXCEPT !.first = first, !.last = "raised"]
    ELSE IF fault \in {"unit", "absent"}
    THEN [s EXCEPT !.first = first, !.second = second,
                   !.last = IF fault = "unit" THEN "raised" ELSE "absent"]
    ELSE [s EXCEPT !.first = first, !.second = second,
                   !.unit = <<first, second>>, !.last = "applied"]

StopServer(s, fault) ==
    CASE fault = "unit" -> [s EXCEPT !.last = "raised"]
      [] fault = "absent" -> [s EXCEPT !.last = "absent"]
      [] OTHER -> [s EXCEPT !.unit = Stopped, !.last = "applied"]

(* A pending restart is cancelled whatever comes of this one. *)
ApplyCache(s, section, table, fault) ==
    LET c == [s EXCEPT !.timer = FALSE] IN
    IF section.enabled
    THEN Install(c, LocalConf(section, table, s.known), ForwardConf(section), fault)
    ELSE StopServer(c, fault)

ApplyAuthoritative(s, section, table, fault) ==
    IF section.enabled
    THEN Install(s, NsdConf(section, s.known), ZoneFile(section, table), fault)
    ELSE StopServer(s, fault)

ApplyDhcp(s, section, table, fault) ==
    IF section.interface # {}
    THEN Install(s, Dhcp4Conf(section, table, s.known), NotThere, fault)
    ELSE StopServer(s, fault)
=============================================================================
