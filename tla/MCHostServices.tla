---------------------------- MODULE MCHostServices ----------------------------
(***************************************************************************)
(* HostServices with two interfaces, two tables, and entries for two       *)
(* hosts, one of which has an address that cannot be parsed. The agent     *)
(* starts with everything off, or with the services of the scope at work.  *)
(***************************************************************************)
EXTENDS HostServices

CONSTANTS h1, h2, h3, l1, l2, t1, t2

MCHosts == {h1, h2, h3}
MCName == [h \in MCHosts |-> IF h = h1 THEN "a" ELSE "b"]
MCUnparsable == {h2}
MCLinks == {l1, l2}
MCTables == {t1, t2}

CacheOff == [enabled |-> FALSE, listen |-> TRUE, use_ipam |-> FALSE]
CacheOn == [enabled |-> TRUE, listen |-> TRUE, use_ipam |-> TRUE]
MCCacheSections == {CacheOff, CacheOn}

NsdOff == [enabled |-> FALSE, listen |-> FALSE, use_ipam |-> FALSE, email |-> TRUE]
NsdOn == [enabled |-> TRUE, listen |-> TRUE, use_ipam |-> TRUE, email |-> TRUE]
NsdBad == [NsdOn EXCEPT !.email = FALSE]
MCAuthoritativeSections == {NsdOff, NsdOn, NsdBad}

MCDhcpSections ==
    {[interface |-> i, use_ipam |-> TRUE] : i \in {{}, {l1}, {l1, l2}}}

MCDefault ==
    [ipam |-> <<>>, cache |-> CacheOff, nsd |-> NsdOff,
     kea |-> [interface |-> {}, use_ipam |-> TRUE],
     client |-> [l \in MCLinks |-> NoTable], ahead |-> FALSE]
MCAllAtWork ==
    [ipam |-> <<h1>>, cache |-> CacheOn, nsd |-> NsdOn,
     kea |-> [interface |-> {l1}, use_ipam |-> TRUE],
     client |-> [l \in MCLinks |-> IF l = l1 THEN t1 ELSE NoTable], ahead |-> FALSE]

MCScopes == {{"ipam", "cache"}, {"ipam", "nsd"}, {"ipam", "kea"}, {"client"}}
=============================================================================
