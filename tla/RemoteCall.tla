----------------------------- MODULE RemoteCall -----------------------------
(***************************************************************************)
(* What a remote procedure call of a routesia client promises its caller:  *)
(* the method runs at most once, the calls of a client run in the order it *)
(* made them, and what the caller is told is true of that very call, or is *)
(* that nothing is known.  RpcTransport, the detailed model of rpc.py,     *)
(* rpcclient.py and mqtt.py, is checked against this module.               *)
(***************************************************************************)
EXTENDS Naturals, Sequences

CONSTANTS Clients,  \* the client processes
          CallsOf,  \* how many calls each of them may make
          MaxCalls  \* bound on CallsOf

VARIABLES made,  \* per client: the number of calls it made
          begun, \* per client: the calls whose method was started, in order
          done,  \* per client: the calls whose method returned
          told   \* per client and call: what the caller was told

cvars == <<made, begun, done, told>>

Calls == 1..MaxCalls
Answers == {"ok", "invalid", "failed", "refused", "unknown"}

Init ==
    /\ made = [c \in Clients |-> 0]
    /\ begun = [c \in Clients |-> <<>>]
    /\ done = [c \in Clients |-> {}]
    /\ told = [c \in Clients |-> [n \in Calls |-> "nothing"]]

(* A client makes its next call, having been told about the one before it. *)
Make(c) ==
    /\ made[c] < CallsOf[c]
    /\ \A n \in 1..made[c] : told[c][n] # "nothing"
    /\ made' = [made EXCEPT ![c] = @ + 1]
    /\ UNCHANGED <<begun, done, told>>

Started(c) == {begun[c][i] : i \in DOMAIN begun[c]}

(* The method of a call starts: never again, and never after a later call of
   the same client. *)
Begin(c) ==
    /\ \E n \in 1..made[c] :
          /\ \A m \in Started(c) : m < n
          /\ begun' = [begun EXCEPT ![c] = Append(@, n)]
    /\ UNCHANGED <<made, done, told>>

Finish(c) ==
    /\ \E n \in Started(c) \ done[c] : done' = [done EXCEPT ![c] = @ \cup {n}]
    /\ UNCHANGED <<made, begun, told>>

(* What each answer says about the call it is given for. *)
True(answer, c, n) ==
    CASE answer = "ok"      -> n \in done[c]
      [] answer = "failed"  -> n \in Started(c) \ done[c]
      [] answer = "invalid" -> n \notin done[c]
      [] answer = "refused" -> n \notin Started(c)
      [] answer = "unknown" -> TRUE

Tell(c) ==
    /\ made[c] > 0
    /\ told[c][made[c]] = "nothing"
    /\ \E answer \in Answers :
          /\ True(answer, c, made[c])
          /\ told' = [told EXCEPT ![c][made[c]] = answer]
    /\ UNCHANGED <<made, begun, done>>

Next == \E c \in Clients : Make(c) \/ Begin(c) \/ Finish(c) \/ Tell(c)

Spec == Init /\ [][Next]_cvars
=============================================================================
