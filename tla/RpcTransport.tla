---------------------------- MODULE RpcTransport ----------------------------
(***************************************************************************)
(* routesia/rpcclient.py, routesia/rpc.py and routesia/mqtt.py: a client   *)
(* process publishes a request on the request topic of the agent and waits *)
(* for the response on a topic of its own, under the timeout of its        *)
(* program (cli/__init__.py, routesia_dhcpv4_event.py).  The agent handles *)
(* one message after the other.                                            *)
(*                                                                         *)
(* Everything is published with QoS 0 and nobody reconnects: the broker    *)
(* may drop any message, drops it when its receiver has not subscribed,    *)
(* and what is under way is lost with the connection or the process. What  *)
(* one connection carries stays in order.                                  *)
(* queue is what lies between the clients and the agent's main(): the      *)
(* broker's part of it and the agent's messagequeue, which is behind it.   *)
(***************************************************************************)
EXTENDS Naturals, Sequences

CONSTANTS Clients,  \* the client processes, each started once
          CallsOf,  \* how many requests each of them may make
          MaxCalls, \* bound on CallsOf
          NoJob     \* no request is being handled

ASSUME CallsAssumption == /\ MaxCalls \in Nat \ {0}
                          /\ CallsOf \in [Clients -> 0..MaxCalls]

VARIABLES cpc,      \* per client: what its program is doing
          clink,    \* per client: its connection to the broker
          nextId,   \* per client: RPCClient.request_id
          inFlight, \* per client: in_flight_requests, with the future's state
          result,   \* per client: the result of the future it waits for
          replies,  \* per client: responses on their way to handle_response
          queue,    \* requests on their way to handle_request
          apc,      \* the agent: down, idle, or inside a handler
          alink,    \* the agent's connection to the broker
          job,      \* the request handle_request is at
          made,     \* history variables, as in RemoteCall: calls made,
          begun,    \*   handlers started,
          done,     \*   handlers that returned,
          told      \*   what the callers were told

clientVars == <<cpc, clink, nextId, inFlight, result>>
agentVars == <<apc, alink, job>>
rpcVars == <<clientVars, agentVars, replies, queue, made, begun, done, told>>

Ids == 0..(MaxCalls - 1)
Calls == 1..MaxCalls
Codes == {"ok", "invalid", "failed", "refused"}
Links == {"none", "open", "subscribed", "lost"}

(* A request; call tells it from the others of its client for the history
   variables only, and is not in the message. *)
Requests == [client : Clients, id : Ids, call : Calls]
Responses == [id : Ids, code : Codes]

ASSUME NoJobAssumption == NoJob \notin Requests

(* The client_id, a UUID of the process, makes the response topic. *)
ClientId(c) == c

Prefixes(s) == {SubSeq(s, 1, n) : n \in 0..Len(s)}

-----------------------------------------------------------------------------
(* A client process. *)

StartClient(c) ==
    /\ cpc[c] = "off"
    /\ cpc' = [cpc EXCEPT ![c] = "idle"]
    /\ clink' = [clink EXCEPT ![c] = "open"]
    /\ UNCHANGED <<nextId, inFlight, result, agentVars, replies, queue, made,
                   begun, done, told>>

(* on_connect. The command line interface does not wait for it. *)
SubscribeClient(c) ==
    /\ clink[c] = "open"
    /\ clink' = [clink EXCEPT ![c] = "subscribed"]
    /\ UNCHANGED <<cpc, nextId, inFlight, result, agentVars, replies, queue,
                   made, begun, done, told>>

(* on_disconnect: nothing reconnects. *)
LoseClientLink(c) ==
    /\ clink[c] \in {"open", "subscribed"}
    /\ clink' = [clink EXCEPT ![c] = "lost"]
    /\ \E p \in Prefixes(replies[c]) : replies' = [replies EXCEPT ![c] = p]
    /\ UNCHANGED <<cpc, nextId, inFlight, result, agentVars, queue, made,
                   begun, done, told>>

(* The program ends or is killed, also in the middle of a call. *)
ExitClient(c) ==
    /\ cpc[c] \in {"idle", "waiting"}
    /\ cpc' = [cpc EXCEPT ![c] = "exited"]
    /\ clink' = [clink EXCEPT ![c] = "lost"]
    /\ replies' = [replies EXCEPT ![c] = <<>>]
    /\ inFlight' = [inFlight EXCEPT ![c] = [i \in Ids |-> "none"]]
    /\ result' = [result EXCEPT ![c] = "none"]
    /\ UNCHANGED <<nextId, agentVars, queue, made, begun, done, told>>

(* get_request_id *)
RequestId(c) == nextId[c]

(* mqtt.publish of the request, and what becomes of it. *)
Publish(request) ==
    \/ /\ clink[request.client] # "lost"
       /\ alink = "subscribed"
       /\ queue' = Append(queue, request)
    \/ UNCHANGED queue

(* request *)
Request(c) ==
    /\ cpc[c] = "idle"
    /\ made[c] < CallsOf[c]
    /\ made' = [made EXCEPT ![c] = @ + 1]
    /\ nextId' = [nextId EXCEPT ![c] = @ + 1]
    /\ Publish([client |-> c, id |-> RequestId(c), call |-> made[c] + 1])
    /\ inFlight' = [inFlight EXCEPT ![c][RequestId(c)] = "pending"]
    /\ cpc' = [cpc EXCEPT ![c] = "waiting"]
    /\ UNCHANGED <<clink, result, agentVars, replies, begun, done, told>>

(* handle_response. A future whose caller timed out is cancelled: set_result
   raises, and the entry stays in in_flight_requests. *)
HandleResponse(c) ==
    /\ cpc[c] \in {"idle", "waiting"}
    /\ replies[c] # <<>>
    /\ LET response == Head(replies[c]) IN
         IF inFlight[c][response.id] = "pending"
         THEN /\ result' = [result EXCEPT ![c] = response.code]
              /\ inFlight' = [inFlight EXCEPT ![c][response.id] = "none"]
         ELSE UNCHANGED <<result, inFlight>>
    /\ replies' = [replies EXCEPT ![c] = Tail(@)]
    /\ UNCHANGED <<cpc, clink, nextId, agentVars, queue, made, begun, done,
                   told>>

Tell(c, answer) ==
    /\ told' = [told EXCEPT ![c][made[c]] = answer]
    /\ result' = [result EXCEPT ![c] = "none"]
    /\ cpc' = [cpc EXCEPT ![c] = "idle"]

(* get_response goes on after its await. *)
GetResponse(c) ==
    /\ cpc[c] = "waiting"
    /\ result[c] # "none"
    /\ Tell(c, result[c])
    /\ UNCHANGED <<clink, nextId, inFlight, agentVars, replies, queue, made,
                   begun, done>>

CancelFutures(c) ==
    inFlight' = [inFlight EXCEPT ![c] =
                    [i \in Ids |-> IF @[i] = "pending" THEN "cancelled" ELSE @[i]]]

(* Mutant: the request is published once more before the caller gives up. *)
TimeoutRepublishes(c) ==
    /\ cpc[c] = "waiting"
    /\ Publish([client |-> c, id |-> nextId[c] - 1, call |-> made[c]])
    /\ CancelFutures(c)
    /\ Tell(c, "unknown")
    /\ UNCHANGED <<clink, nextId, agentVars, replies, made, begun, done>>

(* Mutant: no timeout for a client that lost its connection. *)
TimeoutIfConnected(c) ==
    /\ cpc[c] = "waiting"
    /\ clink[c] # "lost"
    /\ CancelFutures(c)
    /\ Tell(c, "unknown")
    /\ UNCHANGED <<clink, nextId, agentVars, replies, queue, made, begun, done>>

(* asyncio.timeout cancels the caller, and with it the future it awaits unless
   that has a result already; an answer that was not yet returned is lost. *)
Timeout(c) ==
    /\ cpc[c] = "waiting"
    /\ CancelFutures(c)
    /\ Tell(c, "unknown")
    /\ UNCHANGED <<clink, nextId, agentVars, replies, queue, made, begun, done>>

-----------------------------------------------------------------------------
(* The agent. *)

(* start: connect() has sent CONNECT. *)
StartAgent ==
    /\ apc = "down"
    /\ apc' = "idle" /\ alink' = "open"
    /\ UNCHANGED <<clientVars, job, replies, queue, made, begun, done, told>>

(* on_connect *)
SubscribeAgent ==
    /\ alink = "open"
    /\ alink' = "subscribed"
    /\ UNCHANGED <<clientVars, apc, job, replies, queue, made, begun, done,
                   told>>

(* The broker drops the connection; what the agent had received stays. *)
LoseAgentLink ==
    /\ alink \in {"open", "subscribed"}
    /\ alink' = "lost"
    /\ queue' \in Prefixes(queue)
    /\ UNCHANGED <<clientVars, apc, job, replies, made, begun, done, told>>

CrashAgent ==
    /\ apc # "down"
    /\ apc' = "down" /\ alink' = "none" /\ job' = NoJob
    /\ queue' = <<>>
    /\ UNCHANGED <<clientVars, replies, made, begun, done, told>>

(* The connections subscribed to the response topic of a client. *)
Receivers(client) == {c \in Clients : /\ ClientId(c) = ClientId(client)
                                      /\ clink[c] = "subscribed"}

(* send_response *)
SendResponse(request, code) ==
    \/ /\ alink = "subscribed"
       /\ replies' = [c \in Clients |->
                         IF c \in Receivers(request.client)
                         THEN Append(replies[c], [id |-> request.id, code |-> code])
                         ELSE replies[c]]
    \/ UNCHANGED replies

(* main takes the next message. No handler, or an argument missing: an error
   response. *)
Refuse ==
    /\ apc = "idle"
    /\ queue # <<>>
    /\ \E code \in {"refused", "invalid"} : SendResponse(Head(queue), code)
    /\ queue' = Tail(queue)
    /\ UNCHANGED <<clientVars, agentVars, made, begun, done, told>>

(* An argument of an unknown type, or one that cannot be unpacked: the
   exception is logged by handle_message, and nobody answers. *)
Ignore ==
    /\ apc = "idle"
    /\ queue # <<>>
    /\ queue' = Tail(queue)
    /\ UNCHANGED <<clientVars, agentVars, replies, made, begun, done, told>>

CallHandler ==
    /\ apc = "idle"
    /\ queue # <<>>
    /\ job' = Head(queue)
    /\ queue' = Tail(queue)
    /\ begun' = [begun EXCEPT ![Head(queue).client] = Append(@, Head(queue).call)]
    /\ apc' = "handling"
    /\ UNCHANGED <<clientVars, alink, replies, made, done, told>>

HandlerReturns ==
    /\ apc = "handling"
    /\ done' = [done EXCEPT ![job.client] = @ \cup {job.call}]
    /\ SendResponse(job, "ok")
    /\ apc' = "idle" /\ job' = NoJob
    /\ UNCHANGED <<clientVars, alink, queue, made, begun, told>>

(* RPCInvalidArgument, or any other exception. *)
HandlerRaises ==
    /\ apc = "handling"
    /\ \E code \in {"invalid", "failed"} : SendResponse(job, code)
    /\ apc' = "idle" /\ job' = NoJob
    /\ UNCHANGED <<clientVars, alink, queue, made, begun, done, told>>

-----------------------------------------------------------------------------
(* The names below are its own, so that a module can extend this one together
   with Service. *)
RpcInit ==
    /\ cpc = [c \in Clients |-> "off"]
    /\ clink = [c \in Clients |-> "none"]
    /\ nextId = [c \in Clients |-> 0]
    /\ inFlight = [c \in Clients |-> [i \in Ids |-> "none"]]
    /\ result = [c \in Clients |-> "none"]
    /\ replies = [c \in Clients |-> <<>>]
    /\ queue = <<>>
    /\ apc = "down" /\ alink = "none" /\ job = NoJob
    /\ made = [c \in Clients |-> 0]
    /\ begun = [c \in Clients |-> <<>>]
    /\ done = [c \in Clients |-> {}]
    /\ told = [c \in Clients |-> [n \in Calls |-> "nothing"]]

ClientStep(c) ==
    \/ StartClient(c) \/ SubscribeClient(c) \/ LoseClientLink(c)
    \/ ExitClient(c) \/ Request(c) \/ HandleResponse(c) \/ GetResponse(c)
    \/ Timeout(c)

AgentStep ==
    \/ StartAgent \/ SubscribeAgent \/ LoseAgentLink \/ CrashAgent
    \/ Refuse \/ Ignore \/ CallHandler \/ HandlerReturns \/ HandlerRaises

RpcNext == AgentStep \/ \E c \in Clients : ClientStep(c)

RpcSpec == RpcInit /\ [][RpcNext]_rpcVars

(* The clock of a client runs whatever the agent and the broker do. *)
RpcFairSpec == RpcSpec /\ \A c \in Clients : WF_rpcVars(Timeout(c))

-----------------------------------------------------------------------------
(* What must hold. *)

RpcTypeOK ==
    /\ cpc \in [Clients -> {"off", "idle", "waiting", "exited"}]
    /\ clink \in [Clients -> Links]
    /\ nextId \in [Clients -> 0..MaxCalls]
    /\ inFlight \in [Clients -> [Ids -> {"none", "pending", "cancelled"}]]
    /\ result \in [Clients -> Codes \cup {"none"}]
    /\ replies \in [Clients -> Seq(Responses)]
    /\ queue \in Seq(Requests)
    /\ apc \in {"down", "idle", "handling"}
    /\ alink \in Links
    /\ job \in Requests \cup {NoJob}
    /\ made \in [Clients -> 0..MaxCalls]
    /\ begun \in [Clients -> Seq(Calls)]
    /\ done \in [Clients -> SUBSET Calls]
    /\ told \in [Clients -> [Calls -> Codes \cup {"nothing", "unknown"}]]

(* in_flight_requests: the call a client waits for, and no other, can still be
   answered, until it has its result; what else is left in the table belongs
   to calls whose callers were told that nothing is known. *)
InFlightIsWaitedFor ==
    \A c \in Clients : \A i \in Ids :
        /\ inFlight[c][i] = "pending" <=>
              /\ cpc[c] = "waiting"
              /\ result[c] = "none"
              /\ nextId[c] = i + 1
        /\ inFlight[c][i] = "cancelled" => told[c][i + 1] = "unknown"

(* A caller never waits for ever, whatever is lost and whoever dies. *)
EveryCallEnds == \A c \in Clients : cpc[c] = "waiting" ~> cpc[c] # "waiting"

(* A method runs at most once and in the order of its client's calls, and an
   answer is true of the call it is given for, also after timeouts, when late
   answers come in during the next call, and after the agent died halfway. *)
R == INSTANCE RemoteCall

RefinesRemoteCall == R!Spec
=============================================================================
