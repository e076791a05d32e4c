--------------------------- MODULE ConfigHistory ---------------------------
(***************************************************************************)
(* What the configuration store of the agent promises its operators: a     *)
(* history of committed configurations that only grows, and one working    *)
(* copy that can be edited, dropped back to the newest committed           *)
(* configuration, or committed as a new version, for as long as every save *)
(* is completed.  ConfigCommit, the detailed model of                      *)
(* routesia/config/provider.py, implements it.                             *)
(***************************************************************************)
EXTENDS Naturals

CONSTANTS Contents,   \* what a configuration can say, its version left out
          Empty,      \* the content of a fresh installation
          Versions    \* the version numbers there are, 0 among them

VARIABLES history,    \* function from committed versions to their content
          staged,     \* the content of the working copy
          intact      \* every save so far was completed

hvars == <<history, staged, intact>>

Newest == CHOOSE v \in DOMAIN history : \A w \in DOMAIN history : w <= v

Init == /\ history = [v \in {0} |-> Empty]
        /\ staged = Empty
        /\ intact = TRUE

(* The operator edits the working copy. *)
Edit == /\ staged' \in Contents
        /\ UNCHANGED <<history, intact>>

(* The working copy is abandoned: by a drop, or because the agent restarts. *)
Drop == /\ staged' = history[Newest]
        /\ UNCHANGED <<history, intact>>

(* The working copy becomes a new version.  Versions may be skipped. *)
Commit ==
    \E v \in Versions :
        /\ \A w \in DOMAIN history : w < v
        /\ history' = [w \in DOMAIN history \cup {v} |->
                          IF w = v THEN staged ELSE history[w]]
        /\ UNCHANGED <<staged, intact>>

(* Nothing is promised once the disk refused or lost part of a save. *)
Damage == intact' = FALSE

Next == Edit \/ Drop \/ Commit \/ Damage

Spec == Init /\ [][Next]_hvars
=============================================================================
