---------------------------- MODULE ConfigCommit ----------------------------
(***************************************************************************)
(* routesia/config/provider.py: the running and the staged configuration,  *)
(* the commit that tries a staged configuration on every subsystem, rolls  *)
(* it back when one of them fails and otherwise saves it as                *)
(* <version>.conf, and what a restart of the agent finds in those files.   *)
(*                                                                         *)
(* rpc_commit never awaits, so no other coroutine runs between its steps;  *)
(* the process can die between any two of them, and every call it makes    *)
(* can raise.  Its steps are therefore actions of their own, ordered by    *)
(* pc.                                                                     *)
(*                                                                         *)
(* data and staged are Python references.  They are modelled as the names  *)
(* of the two live Config objects, because the commit makes them the same  *)
(* object for a while and a failed save leaves them so.                    *)
(***************************************************************************)
EXTENDS Integers

CONSTANTS Contents,      \* what a configuration can say, system.version left out
          Empty,         \* the content of Config() and of init_config
          Mixed,         \* a subsystem that raised halfway through a content
          NoFile,        \* no <version>.conf
          Unparsable,    \* a file text_format.Merge rejects
          NumHandlers,   \* registered change handlers, called in order
          StartApplies,  \* the handlers' owners whose start() applies the config
          MaxVersion     \* bound on system.version

ASSUME ContentsAssumption == Empty \in Contents /\ Mixed \notin Contents
ASSUME HandlersAssumption == /\ NumHandlers \in Nat
                             /\ StartApplies \subseteq 1..NumHandlers
ASSUME VersionAssumption == MaxVersion \in Nat

Handlers == 1..NumHandlers
Versions == 0..MaxVersion

(* A Config object, and a configuration file that can be read back. *)
Config == [version : Versions, content : Contents]

ASSUME FilesAssumption == /\ NoFile # Unparsable
                          /\ NoFile \notin Config
                          /\ Unparsable \notin Config

(* Config(), and what init_config makes of it: no init handler is registered
   yet when the constructor runs init_config. *)
Blank == [version |-> 0, content |-> Empty]

Slots == {"a", "b"}
Other(s) == IF s = "a" THEN "b" ELSE "a"

VARIABLES heap,     \* the two Config objects
          data,     \* ConfigProvider.data: the running configuration
          staged,   \* ConfigProvider.staged_data
          files,    \* <version>.conf, per version
          applied,  \* per handler: the content its subsystem was last given
          pc,       \* where rpc_commit, or the agent, stands
          next,     \* the index of the next handler to call
          ok,       \* success of call_change_handlers
          outcome,  \* the reply to the last commit since the agent started
          intact,   \* history variable: every save so far was completed
          committed \* history variable: the versions whose save was completed

vars == <<heap, data, staged, files, applied, pc, next, ok, outcome, intact,
          committed>>

PCs == {"down", "starting", "idle", "apply", "save", "write", "rollback"}
Outcomes == {"none", "success", "unchanged", "error", "raised"}

Running == heap[data]
Staged == heap[staged]

SavedVersions == {v \in Versions : files[v] # NoFile}

(* get_latest_config_version: the largest <version>.conf, whatever is in it. *)
Latest == CHOOSE v \in SavedVersions : \A w \in SavedVersions : w <= v

(* What may be in a file after open(..., "w") truncated it and before its text
   was completely written: nothing, a text cut inside a field, or a prefix,
   which starts with the system section. *)
Torn(c) == {Blank, Unparsable, [c EXCEPT !.content = Empty]}

-----------------------------------------------------------------------------
(* Starting and stopping. *)

(* The constructor without any configuration file: init_config. *)
InitConfig ==
    /\ pc = "down"
    /\ SavedVersions = {}
    /\ heap' = [s \in Slots |-> Blank]
    /\ data' = "a" /\ staged' = "b"
    /\ files' = [files EXCEPT ![0] = Blank]
    /\ committed' = {0}
    /\ pc' = "starting"
    /\ outcome' = "none"
    /\ UNCHANGED <<applied, next, ok, intact>>

(* The constructor with configuration files: load_config reads the newest. *)
LoadConfig ==
    /\ pc = "down"
    /\ SavedVersions # {}
    /\ files[Latest] # Unparsable
    /\ heap' = [heap EXCEPT !["a"] = files[Latest], !["b"] = Blank]
    /\ data' = "a" /\ staged' = "b"
    /\ pc' = "starting"
    /\ outcome' = "none"
    /\ UNCHANGED <<files, applied, next, ok, intact, committed>>

(* The newest file cannot be parsed: the constructor raises, systemd restarts
   the agent, and nothing of its state has changed. *)
LoadRaises ==
    /\ pc = "down"
    /\ SavedVersions # {}
    /\ files[Latest] = Unparsable
    /\ UNCHANGED vars

(* start() of the config provider copies the running configuration into the
   staged one; start() of the subsystems that do so applies it. *)
Start ==
    /\ pc = "starting"
    /\ heap' = [heap EXCEPT ![staged] = Running]
    /\ applied' = [h \in Handlers |->
                      IF h \in StartApplies THEN Running.content ELSE applied[h]]
    /\ pc' = "idle"
    /\ UNCHANGED <<data, staged, files, next, ok, outcome, intact, committed>>

(* A subsystem's start() raises: nothing in start_providers catches it, and the
   agent exits with the subsystems in front of it started. *)
StartRaises ==
    /\ pc = "starting"
    /\ \E h \in StartApplies :
          applied' = [g \in Handlers |->
                        IF g \in StartApplies /\ g < h THEN Running.content
                        ELSE IF g = h THEN Mixed ELSE applied[g]]
    /\ pc' = "down"
    /\ UNCHANGED <<heap, data, staged, files, next, ok, outcome, intact,
                   committed>>

(* The process dies. What a save had truncated is torn. *)
Crash ==
    /\ pc # "down"
    /\ IF pc = "write"
       THEN /\ \E t \in Torn(Running) :
                  files' = [files EXCEPT ![Running.version] = t]
            /\ intact' = FALSE
       ELSE UNCHANGED <<files, intact>>
    /\ pc' = "down"
    /\ UNCHANGED <<heap, data, staged, applied, next, ok, outcome, committed>>

-----------------------------------------------------------------------------
(* RPCs that do not commit. *)

(* The configuration RPCs of the subsystems write to staged_data in place. *)
EditStaged ==
    /\ pc = "idle"
    /\ \E c \in Contents : heap' = [heap EXCEPT ![staged].content = c]
    /\ UNCHANGED <<data, staged, files, applied, pc, next, ok, outcome,
                   intact, committed>>

(* rpc_drop_staged *)
DropStaged ==
    /\ pc = "idle"
    /\ heap' = [heap EXCEPT ![staged] = Running]
    /\ UNCHANGED <<data, staged, files, applied, pc, next, ok, outcome,
                   intact, committed>>

-----------------------------------------------------------------------------
(* rpc_commit *)

CommitUnchanged ==
    /\ pc = "idle"
    /\ Running = Staged
    /\ outcome' = "unchanged"
    /\ UNCHANGED <<heap, data, staged, files, applied, pc, next, ok, intact,
                   committed>>

(* The staged object becomes the running one and its version goes up. *)
CommitBegin ==
    /\ pc = "idle"
    /\ Running # Staged
    /\ Staged.version < MaxVersion
    /\ data' = staged
    /\ heap' = [heap EXCEPT ![staged].version = @ + 1]
    /\ pc' = "apply"
    /\ next' = 1 /\ ok' = TRUE
    /\ UNCHANGED <<staged, files, applied, outcome, intact, committed>>

(* One round of the loop of call_change_handlers. *)
HandlerAccepts ==
    /\ pc \in {"apply", "rollback"}
    /\ next <= NumHandlers
    /\ applied' = [applied EXCEPT ![next] = Running.content]
    /\ next' = next + 1
    /\ UNCHANGED <<heap, data, staged, files, pc, ok, outcome, intact,
                   committed>>

(* Mutant: the exception is logged, and success stays True. *)
HandlerRaisesUnnoticed ==
    /\ pc \in {"apply", "rollback"}
    /\ next <= NumHandlers
    /\ \E c \in {applied[next], Mixed} :
          applied' = [applied EXCEPT ![next] = c]
    /\ next' = next + 1
    /\ UNCHANGED <<heap, data, staged, files, pc, ok, outcome, intact,
                   committed>>

(* The handler raises, before or after it changed something; the loop goes on. *)
HandlerRaises ==
    /\ pc \in {"apply", "rollback"}
    /\ next <= NumHandlers
    /\ \E c \in {applied[next], Mixed} :
          applied' = [applied EXCEPT ![next] = c]
    /\ ok' = FALSE
    /\ next' = next + 1
    /\ UNCHANGED <<heap, data, staged, files, pc, outcome, intact, committed>>

(* Every handler succeeded: on to save_config. *)
AllAccepted ==
    /\ pc = "apply"
    /\ next > NumHandlers
    /\ ok
    /\ pc' = "save"
    /\ UNCHANGED <<heap, data, staged, files, applied, next, ok, outcome,
                   intact, committed>>

(* Mutant: data is restored, the handlers are not called again. *)
RollBackSilently ==
    /\ pc = "apply" /\ next > NumHandlers /\ ~ok
    /\ data' = Other(staged)
    /\ pc' = "rollback"
    /\ ok' = TRUE
    /\ UNCHANGED <<heap, staged, files, applied, next, outcome, intact,
                   committed>>

(* Mutant: the handlers are called again with the configuration that failed. *)
RollBackKeepsData ==
    /\ pc = "apply" /\ next > NumHandlers /\ ~ok
    /\ pc' = "rollback"
    /\ next' = 1 /\ ok' = TRUE
    /\ UNCHANGED <<heap, data, staged, files, applied, outcome, intact,
                   committed>>

(* Mutant: the commit is retried until it succeeds. *)
RollBackRetries ==
    /\ pc = "apply" /\ next > NumHandlers /\ ~ok
    /\ next' = 1 /\ ok' = TRUE
    /\ UNCHANGED <<heap, data, staged, files, applied, pc, outcome, intact,
                   committed>>

(* One failed: data is the previous object again and all of them are called
   once more. staged_data stays the object that was tried. *)
RollBack ==
    /\ pc = "apply"
    /\ next > NumHandlers
    /\ ~ok
    /\ data' = Other(staged)
    /\ pc' = "rollback"
    /\ next' = 1 /\ ok' = TRUE
    /\ UNCHANGED <<heap, staged, files, applied, outcome, intact, committed>>

(* The result of the second round is not looked at. *)
RolledBack ==
    /\ pc = "rollback"
    /\ next > NumHandlers
    /\ pc' = "idle"
    /\ outcome' = "error"
    /\ UNCHANGED <<heap, data, staged, files, applied, next, ok, intact,
                   committed>>

(* save_config: open(config_file, "w") creates the file or truncates it. The
   truncated file is what Crash and SaveRaises, the only steps that can leave it
   so, put into files. *)
OpenFile ==
    /\ pc = "save"
    /\ pc' = "write"
    /\ UNCHANGED <<heap, data, staged, files, applied, next, ok, outcome,
                   intact, committed>>

(* Mutant: the new staged_data is left empty. *)
WriteFileBlankStaged ==
    /\ pc = "write"
    /\ files' = [files EXCEPT ![Running.version] = Running]
    /\ committed' = committed \cup {Running.version}
    /\ staged' = Other(data)
    /\ heap' = [heap EXCEPT ![Other(data)] = Blank]
    /\ pc' = "idle"
    /\ outcome' = "success"
    /\ UNCHANGED <<data, applied, next, ok, intact>>

(* The text is written; then a new Config object becomes the staged one. *)
WriteFile ==
    /\ pc = "write"
    /\ files' = [files EXCEPT ![Running.version] = Running]
    /\ committed' = committed \cup {Running.version}
    /\ staged' = Other(data)
    /\ heap' = [heap EXCEPT ![Other(data)] = Running]
    /\ pc' = "idle"
    /\ outcome' = "success"
    /\ UNCHANGED <<data, applied, next, ok, intact>>

(* open, write or close raises: rpc_commit is left before its reset of
   staged_data, and the client gets an error. *)
SaveRaises ==
    /\ \/ pc = "save" /\ UNCHANGED files
       \/ pc = "write" /\ \E t \in Torn(Running) :
                             files' = [files EXCEPT ![Running.version] = t]
    /\ intact' = FALSE
    /\ pc' = "idle"
    /\ outcome' = "raised"
    /\ UNCHANGED <<heap, data, staged, applied, next, ok, committed>>

-----------------------------------------------------------------------------
Init ==
    /\ heap = [s \in Slots |-> Blank]
    /\ data = "a" /\ staged = "b"
    /\ files = [v \in Versions |-> NoFile]
    /\ applied = [h \in Handlers |-> Empty]
    /\ pc = "down"
    /\ next = 1 /\ ok = TRUE
    /\ outcome = "none"
    /\ intact = TRUE
    /\ committed = {}

(* The steps of a call to rpc_commit that the event loop runs to its end. *)
CommitStep ==
    \/ HandlerAccepts \/ HandlerRaises \/ AllAccepted \/ RollBack \/ RolledBack
    \/ OpenFile \/ WriteFile \/ SaveRaises

Next ==
    \/ InitConfig \/ LoadConfig \/ LoadRaises \/ Start \/ StartRaises \/ Crash
    \/ EditStaged \/ DropStaged \/ CommitUnchanged \/ CommitBegin
    \/ CommitStep

Spec == Init /\ [][Next]_vars

(* The event loop keeps running the coroutine it is in. *)
FairSpec == Spec /\ WF_vars(CommitStep)

-----------------------------------------------------------------------------
(* What must hold. *)

TypeOK ==
    /\ heap \in [Slots -> Config]
    /\ data \in Slots /\ staged \in Slots
    /\ files \in [Versions -> Config \cup {NoFile, Unparsable}]
    /\ applied \in [Handlers -> Contents \cup {Mixed}]
    /\ pc \in PCs
    /\ next \in 1..(NumHandlers + 1)
    /\ ok \in BOOLEAN
    /\ outcome \in Outcomes
    /\ intact \in BOOLEAN
    /\ committed \subseteq SavedVersions

(* "Committed version N." is true: every subsystem was given exactly that
   configuration, N.conf holds it, and no edit reaches it through staged_data.
   It stays true until the next commit, whatever failed before. *)
SuccessIsEverywhere ==
    pc = "idle" /\ outcome = "success" =>
        /\ \A h \in Handlers : applied[h] = Running.content
        /\ files[Running.version] = Running
        /\ data # staged

(* After a commit that failed, a rollback whose handlers all succeeded has
   given every subsystem the running configuration again. *)
RollbackRestores ==
    pc = "idle" /\ outcome = "error" /\ ok =>
        \A h \in Handlers : applied[h] = Running.content

(* Between commits the running configuration is the one a restart would load,
   through failed commits, retries, drops, edits and crashes, as long as no
   save was cut short. *)
RunningIsDurable ==
    intact /\ pc \in {"starting", "idle"} => files[Latest] = Running

(* The configuration in force: what runs; while a commit tries another, the one
   it falls back to; while the agent is down, the one it will load. *)
InForce ==
    CASE pc \in {"apply", "save", "write"} -> heap[Other(staged)]
      [] pc = "down" /\ SavedVersions # {} -> files[Latest]
      [] OTHER -> Running

(* The configuration in force changes in one step only, the last one of a
   commit that is answered with success, and then to what that commit tried:
   no edit of staged_data, no drop, no step of a commit that fails or is rolled
   back, no crash in the middle of one and no restart changes it, as long as no
   save was cut short. *)
OnlySuccessChangesRunning ==
    [][intact' /\ SavedVersions # {} =>
           \/ InForce' = InForce
           \/ pc = "write" /\ pc' = "idle" /\ outcome' = "success" /\ InForce' = Running]_vars

(* A version that was committed stays in the history as it was committed: no
   later save writes to its file. *)
HistoryKept == \A v \in committed : files'[v] = files[v]

HistoryKeptWhileIntact == [][intact' => HistoryKept]_vars

(* The same whatever the disk and the process do, as README.rst promises: a
   configuration system that tracks history. *)
HistoryNeverRewritten == [][HistoryKept]_vars

(* A commit is answered, or the agent dies. *)
CommitAnswered == pc = "apply" ~> pc \in {"idle", "down"}

ContentOf(f) == IF f \in {NoFile, Unparsable} THEN Empty ELSE f.content

(* The history and the working copy an operator sees, as ConfigHistory
   promises them. *)
H == INSTANCE ConfigHistory WITH
        history <- [v \in SavedVersions \cup {0} |-> ContentOf(files[v])],
        staged  <- IF pc \in {"down", "starting"} /\ SavedVersions # {}
                   THEN ContentOf(files[Latest]) ELSE Staged.content,
        intact  <- intact

RefinesHistory == H!Spec
=============================================================================
