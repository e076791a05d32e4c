---------------------------- MODULE ProviderLoad ----------------------------
(***************************************************************************)
(* routesia/service.py: load_providers, which constructs every provider    *)
(* once the ones its constructor asks for are there, and the start and     *)
(* stop of the providers in that order and in the reverse of it.           *)
(*                                                                         *)
(* pending_providers is a list made from a set, so its order is arbitrary. *)
(* The loop removes from the list it iterates over: the element behind a   *)
(* constructed provider is skipped until the next pass.  The service, a    *)
(* provider as well, is there from the start and left out.                 *)
(***************************************************************************)
EXTENDS Naturals, Sequences, FiniteSets

CONSTANTS Providers, \* the classes given to add_provider
          Absent     \* a provider class that was not

ASSUME ProvidersAssumption == IsFiniteSet(Providers) /\ Absent \notin Providers

VARIABLES requires,   \* per provider: the providers its constructor takes
          pending,    \* pending_providers
          lenPending, \* len_pending, from the beginning of the pass
          i,          \* where the iteration over pending_providers is
          loaded,     \* Service.providers, an ordered dictionary
          started,    \* how many of them were started
          stopped,    \* how many of them were stopped, from the last
          pc

vars == <<requires, pending, lenPending, i, loaded, started, stopped, pc>>

Elements(s) == {s[n] : n \in 1..Len(s)}
Loaded == Elements(loaded)

Remove(s, n) == SubSeq(s, 1, n - 1) \o SubSeq(s, n + 1, Len(s))

(* Mutant: the last requirement decides. *)
ResolvedPartly(p) ==
    requires[p] = {} \/ \E q \in requires[p] : q \in Loaded

Resolved(p) == requires[p] \subseteq Loaded

Complete(p) == Absent \notin requires[p]

-----------------------------------------------------------------------------
(* load_providers *)

Examining(p) == pc = "loading" /\ i <= Len(pending) /\ p = pending[i]

(* ProviderDependencyMissing *)
FindMissing ==
    /\ \E p \in Providers : Examining(p) /\ ~Complete(p)
    /\ pc' = "missing"
    /\ UNCHANGED <<requires, pending, lenPending, i, loaded, started, stopped>>

(* Try again in the next pass. *)
Postpone ==
    /\ \E p \in Providers : Examining(p) /\ Complete(p) /\ ~Resolved(p)
    /\ i' = i + 1
    /\ UNCHANGED <<requires, pending, lenPending, loaded, started, stopped, pc>>

Construct ==
    /\ \E p \in Providers : /\ Examining(p) /\ Complete(p) /\ Resolved(p)
                            /\ loaded' = Append(loaded, p)
    /\ pending' = Remove(pending, i)
    /\ i' = i + 1
    /\ UNCHANGED <<requires, lenPending, started, stopped, pc>>

ConstructorRaises ==
    /\ \E p \in Providers : Examining(p) /\ Complete(p) /\ Resolved(p)
    /\ pc' = "raised"
    /\ UNCHANGED <<requires, pending, lenPending, i, loaded, started, stopped>>

(* Mutant: no loop is detected. *)
EndPassForever ==
    /\ pc = "loading"
    /\ i > Len(pending)
    /\ IF pending = <<>>
       THEN pc' = "starting" /\ UNCHANGED <<lenPending, i>>
       ELSE i' = 1 /\ lenPending' = Len(pending) /\ UNCHANGED pc
    /\ UNCHANGED <<requires, pending, loaded, started, stopped>>

(* The pass is over: nothing is pending, nothing was resolved
   (ProviderDependencyLoop), or there is another pass. *)
EndPass ==
    /\ pc = "loading"
    /\ i > Len(pending)
    /\ \/ /\ pending = <<>>
          /\ pc' = "starting"
          /\ UNCHANGED <<lenPending, i>>
       \/ /\ pending # <<>>
          /\ Len(pending) = lenPending
          /\ pc' = "loop"
          /\ UNCHANGED <<lenPending, i>>
       \/ /\ pending # <<>>
          /\ Len(pending) # lenPending
          /\ i' = 1 /\ lenPending' = Len(pending)
          /\ UNCHANGED pc
    /\ UNCHANGED <<requires, pending, loaded, started, stopped>>

-----------------------------------------------------------------------------
(* start_providers and stop_providers: an exception leaves them. *)

StartNext ==
    /\ pc = "starting"
    /\ started < Len(loaded)
    /\ started' = started + 1
    /\ UNCHANGED <<requires, pending, lenPending, i, loaded, stopped, pc>>

StartRaises ==
    /\ pc = "starting"
    /\ started < Len(loaded)
    /\ pc' = "raised"
    /\ UNCHANGED <<requires, pending, lenPending, i, loaded, started, stopped>>

AllStarted ==
    /\ pc = "starting"
    /\ started = Len(loaded)
    /\ pc' = "running"
    /\ UNCHANGED <<requires, pending, lenPending, i, loaded, started, stopped>>

(* The main tasks are cancelled, or the process is interrupted. *)
MainEnds ==
    /\ pc = "running"
    /\ pc' = "stopping"
    /\ UNCHANGED <<requires, pending, lenPending, i, loaded, started, stopped>>

StopNext ==
    /\ pc = "stopping"
    /\ stopped < Len(loaded)
    /\ stopped' = stopped + 1
    /\ UNCHANGED <<requires, pending, lenPending, i, loaded, started, pc>>

StopRaises ==
    /\ pc = "stopping"
    /\ stopped < Len(loaded)
    /\ pc' = "raised"
    /\ UNCHANGED <<requires, pending, lenPending, i, loaded, started, stopped>>

AllStopped ==
    /\ pc = "stopping"
    /\ stopped = Len(loaded)
    /\ pc' = "exited"
    /\ UNCHANGED <<requires, pending, lenPending, i, loaded, started, stopped>>

-----------------------------------------------------------------------------
Orders == {s \in [1..Cardinality(Providers) -> Providers] :
              Elements(s) = Providers}

Init ==
    /\ requires \in [Providers -> SUBSET (Providers \cup {Absent})]
    /\ pending \in Orders
    /\ lenPending = Len(pending)
    /\ i = 1
    /\ loaded = <<>>
    /\ started = 0 /\ stopped = 0
    /\ pc = "loading"

LoadStep == FindMissing \/ Postpone \/ Construct \/ ConstructorRaises \/ EndPass

Next ==
    \/ LoadStep
    \/ StartNext \/ StartRaises \/ AllStarted
    \/ MainEnds
    \/ StopNext \/ StopRaises \/ AllStopped

(* load_providers does not await. *)
Spec == Init /\ [][Next]_vars /\ WF_vars(LoadStep)

-----------------------------------------------------------------------------
TypeOK ==
    /\ requires \in [Providers -> SUBSET (Providers \cup {Absent})]
    /\ pending \in Seq(Providers)
    /\ lenPending \in 0..Cardinality(Providers)
    /\ i \in 1..(Cardinality(Providers) + 1)
    /\ loaded \in Seq(Providers)
    /\ started \in 0..Len(loaded) /\ stopped \in 0..Len(loaded)
    /\ pc \in {"loading", "missing", "loop", "raised", "starting", "running",
               "stopping", "exited"}
    /\ Len(pending) + Len(loaded) = Cardinality(Providers)

(* The providers between their start and their stop. *)
Active == {loaded[n] : n \in 1..(IF started < Len(loaded) - stopped THEN started
                                 ELSE Len(loaded) - stopped)}

(* A provider is constructed, and is active, only while every provider it
   requires is, through every order of loading, start and stop. *)
RequirementsServed ==
    /\ \A p \in Loaded : requires[p] \subseteq Loaded
    /\ \A p \in Active : requires[p] \subseteq Active

(* A set of providers each of which waits for another of the set. *)
Loop(S) == S # {} /\ \A p \in S : requires[p] \cap S # {}

(* The verdict is right: everything is loaded, or a required class was not
   added, or there is a loop; skipping elements never makes one up. *)
VerdictIsRight ==
    /\ pc \in {"starting", "running", "stopping", "exited"} => Loaded = Providers
    /\ pc = "missing" => \E p \in Providers : Absent \in requires[p]
    /\ pc = "loop" => Loop(Providers \ Loaded)

(* load_providers comes to a verdict. *)
LoadingEnds == <>(pc # "loading")
=============================================================================
