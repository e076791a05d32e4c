------------------------------ MODULE EventBus ------------------------------
(***************************************************************************)
(* routesia/eventqueue.py and the event half of routesia/service.py.       *)
(*                                                                         *)
(* Events are published by the main thread and by the netlink thread.      *)
(* put() appends to a deque and then adds one to an eventfd, in two steps; *)
(* get() takes one from the eventfd and then pops the deque, in two steps. *)
(* The main thread drains the queue when the eventfd is readable, making   *)
(* one task per event, and asyncio runs those tasks in the order they were *)
(* made, each calling the event's subscribers one after the other.         *)
(*                                                                         *)
(* Events are numbered in the order in which they are appended.  No        *)
(* subscriber of this code base suspends, so a task runs to its end.       *)
(***************************************************************************)
EXTENDS Naturals, Sequences, EventSizes

Subscribers == 1..NumSubscribers

VARIABLES dq,         \* EventQueue.dq
          tokens,     \* the value of the eventfd
          published,  \* how many events were appended so far
          tpc,        \* the netlink thread: "run" or inside put()
          mpc,        \* what the main thread is doing
          caller,     \* what the main thread goes back to after put()
          popped,     \* the local event of handle_eventqueue, then of the task
          nextSub,    \* the next subscriber handle_event calls
          ready,      \* tasks made and not run yet, by event
          eventTasks, \* Service.event_tasks, by event
          seen        \* per subscriber: the last event it was called with

vars == <<dq, tokens, published, tpc, mpc, caller, popped, nextSub, ready,
          eventTasks, seen>>

MainPCs == {"start", "loop", "put", "drain", "pop", "task"}

-----------------------------------------------------------------------------
(* put(), by either thread. *)

AppendItem ==
    /\ published < MaxEvents
    /\ dq' = Append(dq, published + 1)
    /\ published' = published + 1
    /\ UNCHANGED tokens

WriteToken ==
    /\ tokens' = tokens + 1
    /\ UNCHANGED <<dq, published>>

(* Mutant: the eventfd is written before the item is in the deque. *)
PutSwapped(half) == \/ half = 1 /\ WriteToken
                    \/ half = 2 /\ AppendItem

Put(half) == \/ half = 1 /\ AppendItem
             \/ half = 2 /\ WriteToken

ThreadAppend ==
    /\ tpc = "run"
    /\ Put(1)
    /\ tpc' = "put"
    /\ UNCHANGED <<mpc, caller, popped, nextSub, ready, eventTasks, seen>>

ThreadWrite ==
    /\ tpc = "put"
    /\ Put(2)
    /\ tpc' = "run"
    /\ UNCHANGED <<mpc, caller, popped, nextSub, ready, eventTasks, seen>>

(* publish_event by a start(), by a coroutine or by a subscriber. *)
MainAppend ==
    /\ mpc \in {"start", "loop", "task"}
    /\ Put(1)
    /\ mpc' = "put"
    /\ caller' = mpc
    /\ UNCHANGED <<tpc, popped, nextSub, ready, eventTasks, seen>>

MainWrite ==
    /\ mpc = "put"
    /\ Put(2)
    /\ mpc' = caller
    /\ UNCHANGED <<tpc, caller, popped, nextSub, ready, eventTasks, seen>>

-----------------------------------------------------------------------------
(* The main thread. *)

(* start_providers is over: service_main adds the reader for the eventfd. *)
AddReader ==
    /\ mpc = "start"
    /\ mpc' = "loop"
    /\ UNCHANGED <<dq, tokens, published, tpc, caller, popped, nextSub, ready,
                   eventTasks, seen>>

(* The event loop finds the eventfd readable and calls handle_eventqueue. *)
HandleEventqueue ==
    /\ mpc = "loop"
    /\ tokens > 0
    /\ mpc' = "drain"
    /\ UNCHANGED <<dq, tokens, published, tpc, caller, popped, nextSub, ready,
                   eventTasks, seen>>

(* Mutant: without EFD_SEMAPHORE a read takes the whole count. *)
ReadTokenAll ==
    /\ mpc = "drain"
    /\ tokens > 0
    /\ tokens' = 0
    /\ mpc' = "pop"
    /\ UNCHANGED <<dq, published, tpc, caller, popped, nextSub, ready,
                   eventTasks, seen>>

(* os.read of the eventfd, which is a semaphore. *)
ReadToken ==
    /\ mpc = "drain"
    /\ tokens > 0
    /\ tokens' = tokens - 1
    /\ mpc' = "pop"
    /\ UNCHANGED <<dq, published, tpc, caller, popped, nextSub, ready,
                   eventTasks, seen>>

(* dq.popleft(), and a task for the event. popleft raises when the deque is
   empty; TokensMatchItems says that it never is. *)
Pop ==
    /\ mpc = "pop"
    /\ dq # <<>>
    /\ ready' = Append(ready, Head(dq))
    /\ eventTasks' = eventTasks \cup {Head(dq)}
    /\ dq' = Tail(dq)
    /\ mpc' = "drain"
    /\ UNCHANGED <<tokens, published, tpc, caller, popped, nextSub, seen>>

(* BlockingIOError: the queue is drained, and the tasks that are done are
   removed from event_tasks. *)
Drained ==
    /\ mpc = "drain"
    /\ tokens = 0
    /\ mpc' = "loop"
    /\ eventTasks' = {e \in eventTasks : \E i \in 1..Len(ready) : ready[i] = e}
    /\ UNCHANGED <<dq, tokens, published, tpc, caller, popped, nextSub, ready,
                   seen>>

(* The event loop runs the oldest task. *)
RunTask ==
    /\ mpc = "loop"
    /\ ready # <<>>
    /\ popped' = Head(ready)
    /\ ready' = Tail(ready)
    /\ nextSub' = 1
    /\ mpc' = "task"
    /\ UNCHANGED <<dq, tokens, published, tpc, caller, eventTasks, seen>>

(* Mutant: an exception of a subscriber ends the task. *)
CallSubscriberUnguarded ==
    /\ mpc = "task"
    /\ nextSub <= NumSubscribers
    /\ seen' = [seen EXCEPT ![nextSub] = popped]
    /\ nextSub' \in {nextSub + 1, NumSubscribers + 1}
    /\ UNCHANGED <<dq, tokens, published, tpc, mpc, caller, popped, ready,
                   eventTasks>>

(* One round of the loop of handle_event: whether the subscriber returns or
   raises, the next one is called. *)
CallSubscriber ==
    /\ mpc = "task"
    /\ nextSub <= NumSubscribers
    /\ seen' = [seen EXCEPT ![nextSub] = popped]
    /\ nextSub' = nextSub + 1
    /\ UNCHANGED <<dq, tokens, published, tpc, mpc, caller, popped, ready,
                   eventTasks>>

EndTask ==
    /\ mpc = "task"
    /\ nextSub > NumSubscribers
    /\ mpc' = "loop"
    /\ UNCHANGED <<dq, tokens, published, tpc, caller, popped, nextSub, ready,
                   eventTasks, seen>>

-----------------------------------------------------------------------------
Init ==
    /\ dq = <<>> /\ tokens = 0 /\ published = 0
    /\ tpc = "run"
    /\ mpc = "start" /\ caller = "start"
    /\ popped = 0 /\ nextSub = 1
    /\ ready = <<>> /\ eventTasks = {}
    /\ seen = [s \in Subscribers |-> 0]

(* What the main thread does about events that are there. *)
MainStep ==
    \/ MainWrite \/ AddReader \/ HandleEventqueue \/ ReadToken \/ Pop
    \/ Drained \/ RunTask \/ CallSubscriber \/ EndTask

Next == ThreadAppend \/ ThreadWrite \/ MainAppend \/ MainStep

(* The event loop keeps turning, and a thread inside put() gets out of it. *)
Spec == Init /\ [][Next]_vars /\ WF_vars(MainStep) /\ WF_vars(ThreadWrite)

-----------------------------------------------------------------------------
TypeOK ==
    /\ dq \in Seq(1..MaxEvents)
    /\ tokens \in 0..MaxEvents
    /\ published \in 0..MaxEvents
    /\ tpc \in {"run", "put"}
    /\ mpc \in MainPCs
    /\ caller \in {"start", "loop", "task"}
    /\ popped \in 0..MaxEvents
    /\ nextSub \in 1..(NumSubscribers + 1)
    /\ ready \in Seq(1..MaxEvents)
    /\ eventTasks \subseteq 1..MaxEvents
    /\ seen \in [Subscribers -> 0..MaxEvents]

Holding(b) == IF b THEN 1 ELSE 0

(* The eventfd counts the items of the deque, but for those whose put() or
   get() is between its two steps: neither an item without a wakeup nor a
   wakeup without an item, so popleft finds one, however the threads interleave. *)
TokensMatchItems ==
    Len(dq) = tokens + Holding(tpc = "put") + Holding(mpc = "put")
                     + Holding(mpc = "pop")

(* Every subscriber is called with every event, in the order the events were
   appended, whatever the other subscribers raise and publish. *)
InOrder == [][\A s \in Subscribers :
                 seen'[s] # seen[s] => seen'[s] = seen[s] + 1]_vars

(* Every event reaches every subscriber. *)
EventuallySeen ==
    \A e \in 1..MaxEvents :
        published >= e ~> \A s \in Subscribers : seen[s] >= e
=============================================================================
