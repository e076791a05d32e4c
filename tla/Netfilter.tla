----------------------------- MODULE Netfilter -----------------------------
(***************************************************************************)
(* The netfilter provider and the clients that edit its section.           *)
(*                                                                         *)
(* A command of a client is three steps: it gets the whole staged section, *)
(* edits its copy, and sends the whole copy back.  The agent answers       *)
(* requests one at a time, but nothing orders the commands of two clients. *)
(* Commit applies the staged section to nftables, together with the other  *)
(* providers, and rolls back when any of them fails; it saves the file     *)
(* after that, so that a crash may come between the two.                   *)
(*                                                                         *)
(* raced and found are history variables: what was changed under a command *)
(* since its get, and the ruleset the running process met when it started. *)
(***************************************************************************)
EXTENDS NetfilterSection

CONSTANTS
    Clients,
    InitSections,   \* the sections the first file may hold
    Idle,           \* a client without a command under way
    MaxCommands     \* bound on the commands that reach their update request

VARIABLES
    phase,      \* of the agent: "down", "idle", or "saving" inside a commit
    staged,     \* config.staged_data.netfilter
    running,    \* config.data.netfilter
    saved,      \* the section in the newest file
    applied,    \* NetfilterProvider.applied
    ruleset,    \* what the kernel enforces
    task,       \* what each client is about to send back
    raced,      \* staged was changed since the client's get
    found,      \* the ruleset at the start of the process
    commands    \* commands so far

vars == <<phase, staged, running, saved, applied, ruleset, task, raced, found, commands>>

Nothing == [tables |-> {}]          \* after "flush ruleset"
Foreign == [tables |-> {"foreign"}] \* somebody else's tables

Loads(s) == s.enabled => NftAccepts(Render(s))

ASSUME InitSectionsLoad == \A s \in InitSections : s \in Section /\ Loads(s)
ASSUME MaxCommandsAssumption == MaxCommands \in Nat
ASSUME IdleIsNoTask == \A m \in Commands, s \in InitSections :
                            Idle # [command |-> m, edited |-> s]

-----------------------------------------------------------------------------
(* Mutant: a section that was just disabled is not flushed.                 *)
ApplyUnflushed(s, k) ==
    IF s.enabled /\ NftAccepts(Render(s))
    THEN [applied |-> TRUE, ruleset |-> Render(s)] ELSE k

(* apply(): what it leaves in <<applied, ruleset>>.  A refused ruleset raises *)
(* before anything is changed.                                              *)
Apply(s, k) ==
    IF s.enabled
    THEN IF NftAccepts(Render(s)) THEN [applied |-> TRUE, ruleset |-> Render(s)] ELSE k
    ELSE IF k.applied THEN [applied |-> TRUE, ruleset |-> Nothing] ELSE k

Nft == [applied |-> applied, ruleset |-> ruleset]

NftBecomes(k) == applied' = k.applied /\ ruleset' = k.ruleset

(* Every command under way has now read a section that is no longer staged. *)
RaceUnless(same) == raced' = IF same THEN raced ELSE [c \in Clients |-> TRUE]

Init ==
    /\ phase = "down"
    /\ saved \in InitSections
    /\ staged = saved /\ running = saved
    /\ applied = FALSE
    /\ ruleset = Foreign /\ found = Foreign
    /\ task = [c \in Clients |-> Idle]
    /\ raced = [c \in Clients |-> FALSE]
    /\ commands = 0

(* Mutant: netfilter/config/get answers with the running section.           *)
ReadRunning(c, m) ==
    /\ phase = "idle"
    /\ task[c] = Idle
    /\ commands < MaxCommands
    /\ \E s \in Edit(running, m) : task' = [task EXCEPT ![c] = [command |-> m, edited |-> s]]
    /\ raced' = [raced EXCEPT ![c] = FALSE]
    /\ commands' = commands + 1
    /\ UNCHANGED <<phase, staged, running, saved, applied, ruleset, found>>

(* The client has the answer of netfilter/config/get and has edited it.     *)
Read(c, m) ==
    /\ phase = "idle"
    /\ task[c] = Idle
    /\ commands < MaxCommands
    /\ \E s \in Edit(staged, m) : task' = [task EXCEPT ![c] = [command |-> m, edited |-> s]]
    /\ raced' = [raced EXCEPT ![c] = FALSE]
    /\ commands' = commands + 1
    /\ UNCHANGED <<phase, staged, running, saved, applied, ruleset, found>>

(* The agent handles netfilter/config/update.                               *)
Write(c) ==
    /\ phase = "idle"
    /\ task[c] # Idle
    /\ staged' = task[c].edited
    /\ task' = [task EXCEPT ![c] = Idle]
    /\ RaceUnless(staged' = staged)
    /\ UNCHANGED <<phase, running, saved, applied, ruleset, found, commands>>

(* The command is interrupted, times out, or its update request is lost.    *)
GiveUp(c) ==
    /\ task[c] # Idle
    /\ task' = [task EXCEPT ![c] = Idle]
    /\ UNCHANGED <<phase, staged, running, saved, applied, ruleset, raced, found, commands>>

Drop ==
    /\ phase = "idle"
    /\ staged' = running
    /\ RaceUnless(staged' = staged)
    /\ UNCHANGED <<phase, running, saved, applied, ruleset, task, found, commands>>

(* The other providers' handlers fail or not; this one's runs either way,   *)
(* and a commit of other sections alone calls it too.                       *)
CommitApplied ==
    /\ phase = "idle"
    /\ Loads(staged)
    /\ NftBecomes(Apply(staged, Nft))
    /\ running' = staged
    /\ phase' = "saving"
    /\ UNCHANGED <<staged, saved, task, raced, found, commands>>

CommitRolledBack ==
    /\ phase = "idle"
    /\ NftBecomes(Apply(running, Apply(staged, Nft)))
    /\ UNCHANGED <<phase, staged, running, saved, task, raced, found, commands>>

CommitSaved ==
    /\ phase = "saving"
    /\ saved' = running
    /\ staged' = running
    /\ phase' = "idle"
    /\ UNCHANGED <<running, applied, ruleset, task, raced, found, commands>>

(* The process dies and leaves the kernel as it is, or the machine does.    *)
Crash ==
    /\ phase # "down"
    /\ phase' = "down"
    /\ ruleset' \in {ruleset, Nothing}
    /\ UNCHANGED <<staged, running, saved, applied, task, raced, found, commands>>

Stop ==
    /\ phase = "idle"
    /\ phase' = "down"
    /\ ruleset' = Nothing
    /\ UNCHANGED <<staged, running, saved, applied, task, raced, found, commands>>

(* A provider whose start() raises ends the process: it stays down.         *)
Start ==
    /\ phase = "down"
    /\ Loads(saved)
    /\ NftBecomes(Apply(saved, [applied |-> FALSE, ruleset |-> ruleset]))
    /\ found' = ruleset
    /\ running' = saved
    /\ staged' = saved
    /\ phase' = "idle"
    /\ RaceUnless(staged' = staged)
    /\ UNCHANGED <<saved, task, commands>>

Next ==
    \/ \E c \in Clients : (\E m \in Commands : Read(c, m)) \/ Write(c) \/ GiveUp(c)
    \/ Drop
    \/ CommitApplied \/ CommitRolledBack \/ CommitSaved
    \/ Crash \/ Stop \/ Start

Spec == Init /\ [][Next]_vars

-----------------------------------------------------------------------------
Distinct(q, key) == \A i, j \in DOMAIN q : q[i][key] = q[j][key] => i = j
NoRepeats(q) == \A i, j \in DOMAIN q : q[i] = q[j] => i = j

RuleWellFormed(r) == NoRepeats(r.source_zone) /\ NoRepeats(r.destination_zone)
ChainWellFormed(chain) == \A i \in DOMAIN chain.rule : RuleWellFormed(chain.rule[i])

WellFormed(s) ==
    /\ Distinct(s.zone, "name") /\ Distinct(s.masquerade, "interface")
    /\ \A i \in DOMAIN s.zone : NoRepeats(s.zone[i].interface)
    /\ ChainWellFormed(s.input) /\ ChainWellFormed(s.forward)

(* What the first file holds is a new, empty section or one that the agent  *)
(* saved, which NamesUnique says of every file.                             *)
ASSUME InitSectionsWellFormed == \A s \in InitSections : WellFormed(s)

(* Handlers look names up and stop at the first: no zone, no masqueraded    *)
(* interface, no interface of a zone and no zone of a rule is ever listed   *)
(* twice, in the staged section, the running one, the file or an update on  *)
(* its way, whatever the clients' commands interleave with (the checks are  *)
(* made on a copy that may be stale when it is written back).               *)
NamesUnique ==
    /\ WellFormed(staged) /\ WellFormed(running) /\ WellFormed(saved)
    /\ \A c \in Clients : task[c] # Idle => WellFormed(task[c].edited)

(* Between requests the kernel enforces the running section: its rendering  *)
(* when it is enabled, nothing when it was enabled and no longer is, and    *)
(* otherwise what the process found; after rollbacks, refusals, crashes and *)
(* restarts alike.                                                          *)
RulesetIsRunning ==
    phase # "down" =>
        ruleset = IF running.enabled THEN Render(running)
                  ELSE IF applied THEN Nothing ELSE found

(* The newest file never holds a section nftables would refuse at the next  *)
(* start: what could not be applied is rolled back before it is saved.      *)
SavedLoads == Loads(saved)

(* The staged section changes by a drop or a start, by the whole effect of  *)
(* one command on the section it finds, or by the write of a command under  *)
(* which somebody else changed the section.  Overlapping commands are the   *)
(* only way to lose or revive an edit.                                      *)
AtomicUnlessRaced ==
    [][staged' # staged =>
         \/ staged' = running'
         \/ \E c \in Clients :
               /\ task[c] # Idle /\ task'[c] = Idle
               /\ raced[c] \/ staged' \in Edit(staged, task[c].command)]_vars
=============================================================================
