--------------------------- MODULE MCRpcTransport ---------------------------
(***************************************************************************)
(* RpcTransport with a client that makes two calls, so that the answer of  *)
(* the first can come in during the second, and one that makes a single    *)
(* call beside it.                                                         *)
(***************************************************************************)
EXTENDS RpcTransport

CONSTANTS k1, k2

MCClients == {k1, k2}
MCCallsOf == [c \in MCClients |-> IF c = k1 THEN 2 ELSE 1]
=============================================================================
