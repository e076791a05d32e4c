------------------------------- MODULE Service -------------------------------
(***************************************************************************)
(* routesia/service.py as a whole: run() loads the providers, service_main *)
(* starts them, adds the reader of the event queue, runs until the main    *)
(* tasks end, and stops the providers. ProviderLoad is the providers,      *)
(* EventBus the events; here is when which of them may make a step.        *)
(*                                                                         *)
(* start_providers and stop_providers run on the event loop and keep it    *)
(* until one of them suspends. MQTT.stop is the only one that does: it     *)
(* awaits the task of the client, and events are handled meanwhile. The    *)
(* netlink thread publishes from the start of its provider to the end of   *)
(* the process: nothing stops it.                                          *)
(***************************************************************************)
EXTENDS ProviderLoad, EventSizes

CONSTANTS Mqtt,    \* the provider whose stop() suspends
          Monitor  \* the provider whose start() starts the netlink thread

ASSUME NamesAssumption == Mqtt \in Providers /\ Monitor \in Providers

VARIABLES dq, tokens, published, tpc, mpc, caller, popped, nextSub, ready,
          eventTasks, seen,
          suspended  \* stop_providers awaits a stop()

Bus == INSTANCE EventBus

busVars == <<dq, tokens, published, tpc, mpc, caller, popped, nextSub, ready,
             eventTasks, seen>>
serviceVars == <<vars, busVars, suspended>>

Started == {loaded[n] : n \in 1..started}
Alive == pc \notin {"missing", "loop", "raised", "exited"}

-----------------------------------------------------------------------------
(* load_providers and start_providers. *)

Load ==
    /\ LoadStep
    /\ UNCHANGED <<busVars, suspended>>

Start ==
    /\ mpc = "start"
    /\ StartNext \/ StartRaises
    /\ UNCHANGED <<busVars, suspended>>

(* A start() publishes what it finds. *)
PublishAtStart ==
    /\ pc = "starting"
    /\ Bus!MainAppend \/ Bus!MainWrite
    /\ UNCHANGED <<vars, suspended>>

EnterLoop ==
    /\ AllStarted
    /\ Bus!AddReader
    /\ UNCHANGED suspended

-----------------------------------------------------------------------------
(* The event loop, and the thread beside it. *)

Turning == pc = "running" \/ suspended

HandleEvents ==
    /\ Turning
    /\ Bus!MainStep
    /\ UNCHANGED <<vars, suspended>>

PublishAtWork ==
    /\ Turning
    /\ Bus!MainAppend
    /\ UNCHANGED <<vars, suspended>>

ThreadPublishes ==
    /\ Alive /\ Monitor \in Started
    /\ Bus!ThreadAppend \/ Bus!ThreadWrite
    /\ UNCHANGED <<vars, suspended>>

-----------------------------------------------------------------------------
(* stop_providers, in the reverse order. *)

End ==
    /\ mpc = "loop"
    /\ MainEnds
    /\ UNCHANGED <<busVars, suspended>>

NextToStop == loaded[Len(loaded) - stopped]

(* Mutant: every stop() is awaited. *)
AnySuspends(p) == p \in Providers

Suspends(p) == p = Mqtt

AwaitStop ==
    /\ pc = "stopping" /\ ~suspended
    /\ stopped < Len(loaded) /\ Suspends(NextToStop)
    /\ suspended' = TRUE
    /\ UNCHANGED <<vars, busVars>>

StopOne ==
    /\ mpc = "loop"
    /\ StopNext \/ StopRaises
    /\ Suspends(NextToStop) => suspended
    /\ suspended' = FALSE
    /\ UNCHANGED busVars

Exit ==
    /\ AllStopped
    /\ UNCHANGED <<busVars, suspended>>

-----------------------------------------------------------------------------
ServiceInit == Init /\ Bus!Init /\ suspended = FALSE

ServiceNext ==
    \/ Load \/ Start \/ PublishAtStart \/ EnterLoop
    \/ HandleEvents \/ PublishAtWork \/ ThreadPublishes
    \/ End \/ AwaitStop \/ StopOne \/ Exit

(* load_providers does not await, a start() comes to its end, the event loop
   turns, and a thread inside put() gets out of it. *)
ServiceSpec ==
    /\ ServiceInit /\ [][ServiceNext]_serviceVars
    /\ WF_serviceVars(Load)
    /\ WF_serviceVars(Start \/ EnterLoop \/ (PublishAtStart /\ mpc = "put"))
    /\ WF_serviceVars(HandleEvents)
    /\ WF_serviceVars(ThreadPublishes /\ tpc = "put")

-----------------------------------------------------------------------------
(* The eventfd and the deque of EventQueue agree, also for what is published
   while the providers start and while they stop. *)
TokensMatchItems == Bus!TokensMatchItems

(* handle_event calls every subscriber with every event, in order. *)
InOrder == Bus!InOrder

(* Every event reaches every subscriber, also one published by a start(), before
   there is a reader, unless the process comes to its end first. *)
EventuallySeen ==
    \A e \in 1..MaxEvents :
        published >= e ~> \/ \A s \in Bus!Subscribers : seen[s] >= e
                          \/ pc \in {"stopping", "raised", "exited"}

(* The providers that have a share in MQTT: it is what they take, or what the
   RPC provider that they take does. Every subscriber is one of these. *)
Users == {p \in Providers :
             Mqtt \in requires[p] \/ \E q \in requires[p] : Mqtt \in requires[q]}

(* A subscriber is called while all of the providers that events and requests
   connect are at work, or none of them any more: no event finds some of them
   started and others not yet, or some stopped and others not. *)
AllOrNoneActive ==
    mpc = "task" => Users \subseteq Active \/ Users \cap Active = {}
=============================================================================
