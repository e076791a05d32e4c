-------------------------- MODULE MCInterfaceTree --------------------------
(***************************************************************************)
(* InterfaceTree with a physical interface, a VLAN on it and a bridge.     *)
(***************************************************************************)
EXTENDS InterfaceTree

CONSTANTS eth, vlan, bridge

MCInterfaces == {eth, vlan, bridge}
MCPhysical == {eth}

Trunk(up) == [type |-> "ethernet", base |-> NoInterface, master |-> NoInterface, up |-> up]
Port == [type |-> "ethernet", base |-> NoInterface, master |-> bridge, up |-> TRUE]
Vlan(base) == [type |-> "vlan", base |-> base, master |-> NoInterface, up |-> TRUE]
Bridge(up) == [type |-> "bridge", base |-> NoInterface, master |-> NoInterface, up |-> up]

With(e, v, b) == [i \in MCInterfaces |-> CASE i = eth -> e [] i = vlan -> v [] i = bridge -> b]

(* The last one is refused. *)
MCConfigurations == {With(NoConfig, NoConfig, Bridge(FALSE)),
                     With(Trunk(TRUE), Vlan(eth), NoConfig),
                     With(Port, Vlan(eth), Bridge(TRUE)),
                     With(Trunk(FALSE), Vlan(NoInterface), NoConfig)}
=============================================================================
