------------------------------ MODULE MCService ------------------------------
(***************************************************************************)
(* Service with every dependency relation among three providers and one    *)
(* class that is not there; one of the providers is MQTT, and the netlink  *)
(* thread belongs to another.                                              *)
(***************************************************************************)
EXTENDS Service

CONSTANTS p1, p2, p3

MCProviders == {p1, p2, p3}
=============================================================================
