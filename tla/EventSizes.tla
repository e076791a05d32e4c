----------------------------- MODULE EventSizes -----------------------------
(***************************************************************************)
(* The parameters of the event bus, apart from it, so that a module that   *)
(* composes the bus with another component has the assumption as well.     *)
(***************************************************************************)
EXTENDS Naturals

CONSTANTS NumSubscribers,  \* subscribers of the events, called in this order
          MaxEvents        \* bound on the number of events published

ASSUME SizesAssumption == NumSubscribers \in Nat \ {0} /\ MaxEvents \in Nat
=============================================================================
