---------------------------- MODULE MCRouteTable ----------------------------
(***************************************************************************)
(* RouteTable with one interface, a network on it with a gateway, and two  *)
(* destinations behind it, one of which covers the gateway as well.        *)
(***************************************************************************)
EXTENDS RouteTable

CONSTANTS main, extra, lan, any, far, gw, eth0

MCTables == {main, extra}
MCDestinations == {lan, any, far}
MCGateways == {gw}
MCInterfaces == {eth0}
MCCovers == [d \in MCDestinations |-> IF d = far THEN {} ELSE {gw}]

OnLink == [gateway |-> NoGateway, interface |-> eth0]
Via == [gateway |-> gw, interface |-> NoInterface]
ViaLink == [gateway |-> gw, interface |-> eth0]

Of(a, f) == [d \in MCDestinations |-> CASE d = any -> a [] d = far -> f [] OTHER -> NoConfig]
In(m, e) == [t \in MCTables |-> IF t = main THEN m ELSE e]

MCConfigurations == {In(Of(NoConfig, NoConfig), NoTable),
                     In(Of(ViaLink, Via), NoTable),
                     In(Of(NoConfig, Via), Of(OnLink, NoConfig))}
MCLeaseRoutes == {[d \in MCDestinations |-> IF d = lan THEN NoGateway ELSE NoRoute],
                  [d \in MCDestinations |-> CASE d = lan -> NoGateway
                                              [] d = any -> gw [] OTHER -> NoRoute]}
MCOtherRoutes == {<<main, lan, OnLink>>, <<main, any, OnLink>>, <<extra, lan, OnLink>>}
=============================================================================
