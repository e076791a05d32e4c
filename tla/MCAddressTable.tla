--------------------------- MODULE MCAddressTable ---------------------------
(***************************************************************************)
(* AddressTable with two addresses of one interface.                       *)
(***************************************************************************)
EXTENDS AddressTable

CONSTANTS a1, a2, eth0, plain, scoped

MCAddresses == {a1, a2}
MCInterfaces == {eth0}
MCInterfaceOf == [a \in MCAddresses |-> eth0]
MCAddressConfigs == {plain, scoped}
=============================================================================
