------------------------- MODULE ConfigCommitProofs -------------------------
(***************************************************************************)
(* Proofs about ConfigCommit for every set of contents, every number of    *)
(* change handlers and every bound on the versions.                        *)
(*                                                                         *)
(* The invariant is built up in parts.  TypeOK needs that the files have a *)
(* largest version (Latest is a CHOOSE); Aliasing says when data and       *)
(* staged are one object; Delivered what the subsystems were given while   *)
(* the handlers are called; Durable how the files and the two objects are  *)
(* ordered while no save has failed.                                       *)
(***************************************************************************)
EXTENDS ConfigCommit, TLAPS

IsLatest(v) == v \in SavedVersions /\ \A w \in SavedVersions : w <= v

HasLatest == SavedVersions # {} => \E v \in Versions : IsLatest(v)

(* data and staged are the same object while a commit tries the staged one,
   and otherwise only when a save has failed. *)
Aliasing ==
    /\ pc \in {"apply", "save", "write"} => data = staged
    /\ pc \in {"starting", "rollback"} => data # staged
    /\ pc = "idle" /\ (intact \/ outcome \in {"success", "error"})
          => data # staged

(* As long as no handler of the round has raised, those called so far were
   given the running configuration; no commit was answered before the start. *)
Delivered ==
    /\ pc \in {"apply", "save", "write", "rollback"} /\ ok =>
          \A h \in Handlers : h < next => applied[h] = Running.content
    /\ pc \in {"save", "write"} => ok /\ next = NumHandlers + 1
    /\ pc = "starting" => outcome = "none"

(* While no save has failed, every file holds the version it is named after,
   the running configuration (the previous one, while another is tried) is the
   newest file, and the staged version never falls behind it. *)
Previous == heap[Other(staged)]

IsNewest(c) == IsLatest(c.version) /\ files[c.version] = c

Durable ==
    intact =>
      /\ \A v \in SavedVersions : files[v] \in Config /\ files[v].version = v
      /\ pc \in {"starting", "idle", "rollback"} => IsNewest(Running)
      /\ pc \in {"apply", "save", "write"} =>
            IsNewest(Previous) /\ Previous.version < Running.version
      /\ pc \in {"idle", "rollback"} => Staged.version >= Running.version

(* The inductive invariant. *)
IInv == /\ TypeOK /\ HasLatest
        /\ Aliasing /\ Delivered /\ Durable
        /\ SuccessIsEverywhere /\ RollbackRestores

LEMMA ConstantTypes ==
    /\ NumHandlers \in Nat /\ MaxVersion \in Nat
    /\ Versions \subseteq Nat /\ 0 \in Versions
    /\ Blank \in Config
    /\ NoFile \notin Config /\ Unparsable \notin Config
    /\ NoFile # Unparsable
BY ContentsAssumption, HandlersAssumption, VersionAssumption, FilesAssumption
   DEF Versions, Config, Blank

LEMMA LatestIsLatest ==
    ASSUME TypeOK, NEW v, IsLatest(v)
    PROVE  Latest = v
<1>1. /\ v \in SavedVersions
      /\ \A w \in SavedVersions : w <= v
  BY DEF IsLatest
<1>2. \A u \in SavedVersions :
         (\A w \in SavedVersions : w <= u) => u = v
  BY <1>1, ConstantTypes DEF SavedVersions
<1> QED
  BY <1>1, <1>2 DEF Latest

LEMMA TornTypes ==
    ASSUME NEW c \in Config
    PROVE  /\ Torn(c) \subseteq Config \cup {Unparsable}
           /\ NoFile \notin Torn(c)
BY ConstantTypes, ContentsAssumption DEF Torn, Config

(* Files are only ever added or replaced, so they keep a largest version. *)
LEMMA AddedFile ==
    ASSUME TypeOK, HasLatest, NEW u \in Versions, NEW f,
           f # NoFile, files' = [files EXCEPT ![u] = f]
    PROVE  /\ SavedVersions' = SavedVersions \cup {u}
           /\ HasLatest'
<1>1. SavedVersions' = SavedVersions \cup {u}
  BY DEF SavedVersions, TypeOK, Versions
<1>2. CASE SavedVersions = {}
  BY <1>1, <1>2, ConstantTypes DEF HasLatest, IsLatest
<1>3. CASE SavedVersions # {}
  <2>1. PICK v \in Versions : IsLatest(v)
    BY <1>3 DEF HasLatest
  <2>2. CASE u <= v
    BY <1>1, <2>1, <2>2 DEF HasLatest, IsLatest
  <2>3. CASE ~(u <= v)
    <3>1. \A w \in SavedVersions : w <= u
      BY <2>1, <2>3, ConstantTypes DEF IsLatest, SavedVersions
    <3> QED
      BY <1>1, <3>1, ConstantTypes DEF HasLatest, IsLatest
  <2> QED
    BY <2>2, <2>3
<1> QED
  BY <1>1, <1>2, <1>3

LEMMA TypeInit == Init => TypeOK /\ HasLatest
BY ConstantTypes, ContentsAssumption
   DEF Init, TypeOK, HasLatest, SavedVersions, Slots, PCs, Outcomes, Config

LEMMA TypeStep == TypeOK /\ HasLatest /\ [Next]_vars => TypeOK' /\ HasLatest'
<1> SUFFICES ASSUME TypeOK, HasLatest, [Next]_vars
             PROVE  TypeOK' /\ HasLatest'
  OBVIOUS
<1> USE ConstantTypes
<1> USE DEF Slots, PCs, Outcomes, Running, Staged, Other
<1>0. Running \in Config /\ Running.version \in Versions
  BY DEF TypeOK, Config
<1>1. CASE InitConfig
  BY <1>1, AddedFile DEF InitConfig, TypeOK
<1>2. CASE LoadConfig
  <2>1. PICK v \in Versions : IsLatest(v)
    BY <1>2 DEF LoadConfig, HasLatest
  <2>2. Latest = v
    BY <2>1, LatestIsLatest
  <2>3. files[Latest] \in Config
    BY <1>2, <2>1, <2>2 DEF LoadConfig, TypeOK, IsLatest, SavedVersions
  <2> QED
    BY <1>2, <2>3 DEF LoadConfig, TypeOK, HasLatest, IsLatest, SavedVersions
<1>3. CASE LoadRaises
  BY <1>3 DEF LoadRaises, vars, TypeOK, HasLatest, IsLatest, SavedVersions
<1>4. CASE Start
  BY <1>4, <1>0 DEF Start, TypeOK, HasLatest, IsLatest, SavedVersions, Config
<1>5. CASE StartRaises
  BY <1>5, <1>0 DEF StartRaises, TypeOK, HasLatest, IsLatest, SavedVersions,
     Config
<1>6. CASE Crash
  <2>1. CASE pc = "write"
    <3>1. PICK t \in Torn(Running) :
             files' = [files EXCEPT ![Running.version] = t]
      BY <1>6, <2>1 DEF Crash
    <3>2. t # NoFile /\ t \in Config \cup {Unparsable}
      BY <1>0, <3>1, TornTypes
    <3>3. SavedVersions' = SavedVersions \cup {Running.version} /\ HasLatest'
      BY <1>0, <3>1, <3>2, AddedFile
    <3> QED
      BY <1>6, <2>1, <3>1, <3>2, <3>3 DEF Crash, TypeOK
  <2>2. CASE pc # "write"
    BY <1>6, <2>2 DEF Crash, TypeOK, HasLatest, IsLatest, SavedVersions
  <2> QED
    BY <2>1, <2>2
<1>7. CASE EditStaged
  BY <1>7 DEF EditStaged, TypeOK, HasLatest, IsLatest, SavedVersions, Config
<1>8. CASE DropStaged
  BY <1>8, <1>0 DEF DropStaged, TypeOK, HasLatest, IsLatest, SavedVersions
<1>9. CASE CommitUnchanged
  BY <1>9 DEF CommitUnchanged, TypeOK, HasLatest, IsLatest, SavedVersions
<1>10. CASE CommitBegin
  <2>1. heap[staged].version + 1 \in Versions
    BY <1>10 DEF CommitBegin, TypeOK, Config, Versions
  <2> QED
    BY <1>10, <2>1 DEF CommitBegin, TypeOK, HasLatest, IsLatest, SavedVersions,
       Config
<1>11. CASE HandlerAccepts
  <2>1. next + 1 \in 1..(NumHandlers + 1)
    BY <1>11 DEF HandlerAccepts, TypeOK
  <2>2. applied' \in [Handlers -> Contents \cup {Mixed}]
    BY <1>11, <1>0 DEF HandlerAccepts, TypeOK, Config
  <2> QED
    BY <1>11, <2>1, <2>2
       DEF HandlerAccepts, TypeOK, HasLatest, IsLatest, SavedVersions
<1>12. CASE HandlerRaises
  <2>1. next + 1 \in 1..(NumHandlers + 1) /\ next \in Handlers
    BY <1>12 DEF HandlerRaises, TypeOK, Handlers
  <2>2. applied' \in [Handlers -> Contents \cup {Mixed}]
    BY <1>12, <2>1 DEF HandlerRaises, TypeOK
  <2> QED
    BY <1>12, <2>1, <2>2
       DEF HandlerRaises, TypeOK, HasLatest, IsLatest, SavedVersions
<1>13. CASE AllAccepted
  BY <1>13 DEF AllAccepted, TypeOK, HasLatest, IsLatest, SavedVersions
<1>14. CASE RollBack
  BY <1>14 DEF RollBack, TypeOK, HasLatest, IsLatest, SavedVersions
<1>15. CASE RolledBack
  BY <1>15 DEF RolledBack, TypeOK, HasLatest, IsLatest, SavedVersions
<1>16. CASE OpenFile
  BY <1>16 DEF OpenFile, TypeOK, HasLatest, IsLatest, SavedVersions
<1>17. CASE WriteFile
  <2>1. files' = [files EXCEPT ![Running.version] = Running]
    BY <1>17 DEF WriteFile
  <2>2. SavedVersions' = SavedVersions \cup {Running.version} /\ HasLatest'
    BY <1>0, <2>1, AddedFile
  <2> QED
    BY <1>17, <1>0, <2>2 DEF WriteFile, TypeOK
<1>18. CASE SaveRaises
  <2>1. CASE pc = "save"
    BY <1>18, <2>1 DEF SaveRaises, TypeOK, HasLatest, IsLatest, SavedVersions
  <2>2. CASE pc # "save"
    <3>1. PICK t \in Torn(Running) :
             files' = [files EXCEPT ![Running.version] = t]
      BY <1>18, <2>2 DEF SaveRaises
    <3>2. t # NoFile /\ t \in Config \cup {Unparsable}
      BY <1>0, <3>1, TornTypes
    <3>3. SavedVersions' = SavedVersions \cup {Running.version} /\ HasLatest'
      BY <1>0, <3>1, <3>2, AddedFile
    <3> QED
      BY <1>18, <2>2, <3>1, <3>2, <3>3 DEF SaveRaises, TypeOK
  <2> QED
    BY <2>1, <2>2
<1>19. CASE UNCHANGED vars
  BY <1>19 DEF vars, TypeOK, HasLatest, IsLatest, SavedVersions
<1> QED
  BY <1>1, <1>2, <1>3, <1>4, <1>5, <1>6, <1>7, <1>8, <1>9, <1>10, <1>11,
     <1>12, <1>13, <1>14, <1>15, <1>16, <1>17, <1>18, <1>19 DEF Next, CommitStep

(* The state of the agent and the files stays well-formed: in particular a
   restart always finds a newest file to load, whatever was torn. *)
THEOREM TypeCorrect == Spec => [](TypeOK /\ HasLatest)
BY TypeInit, TypeStep, PTL DEF Spec

-----------------------------------------------------------------------------
(* When the two references are one object. *)
LEMMA AliasingStep ==
    TypeOK /\ Aliasing /\ [Next]_vars => Aliasing'
<1> SUFFICES ASSUME TypeOK, Aliasing, [Next]_vars
             PROVE  Aliasing'
  OBVIOUS
<1> USE DEF TypeOK, Aliasing, Slots, Other
<1>1. CASE InitConfig
  BY <1>1 DEF InitConfig
<1>2. CASE LoadConfig
  BY <1>2 DEF LoadConfig
<1>3. CASE LoadRaises
  BY <1>3 DEF LoadRaises, vars
<1>4. CASE Start
  BY <1>4 DEF Start
<1>5. CASE StartRaises
  BY <1>5 DEF StartRaises
<1>6. CASE Crash
  BY <1>6 DEF Crash
<1>7. CASE EditStaged
  BY <1>7 DEF EditStaged
<1>8. CASE DropStaged
  BY <1>8 DEF DropStaged
<1>9. CASE CommitUnchanged
  BY <1>9 DEF CommitUnchanged
<1>10. CASE CommitBegin
  BY <1>10 DEF CommitBegin
<1>11. CASE HandlerAccepts
  BY <1>11 DEF HandlerAccepts
<1>12. CASE HandlerRaises
  BY <1>12 DEF HandlerRaises
<1>13. CASE AllAccepted
  BY <1>13 DEF AllAccepted
<1>14. CASE RollBack
  BY <1>14 DEF RollBack
<1>15. CASE RolledBack
  BY <1>15 DEF RolledBack
<1>16. CASE OpenFile
  BY <1>16 DEF OpenFile
<1>17. CASE WriteFile
  BY <1>17 DEF WriteFile
<1>18. CASE SaveRaises
  BY <1>18 DEF SaveRaises
<1>19. CASE UNCHANGED vars
  BY <1>19 DEF vars
<1> QED
  BY <1>1, <1>2, <1>3, <1>4, <1>5, <1>6, <1>7, <1>8, <1>9, <1>10,
     <1>11, <1>12, <1>13, <1>14, <1>15, <1>16, <1>17, <1>18, <1>19
     DEF Next, CommitStep

(* What the subsystems were given, and what the operator was told. *)
LEMMA DeliveredStep ==
    TypeOK /\ Aliasing /\ Delivered /\ [Next]_vars => Delivered'
<1> SUFFICES ASSUME TypeOK, Aliasing, Delivered, [Next]_vars
             PROVE  Delivered'
  OBVIOUS
<1> USE DEF TypeOK, Aliasing, Delivered, Running, Slots, Other, Handlers
<1>1. CASE InitConfig
  BY <1>1 DEF InitConfig
<1>2. CASE LoadConfig
  BY <1>2 DEF LoadConfig
<1>3. CASE LoadRaises
  BY <1>3 DEF LoadRaises, vars
<1>4. CASE Start
  BY <1>4 DEF Start
<1>5. CASE StartRaises
  BY <1>5 DEF StartRaises
<1>6. CASE Crash
  BY <1>6 DEF Crash
<1>7. CASE EditStaged
  BY <1>7 DEF EditStaged
<1>8. CASE DropStaged
  BY <1>8 DEF DropStaged
<1>9. CASE CommitUnchanged
  BY <1>9 DEF CommitUnchanged
<1>10. CASE CommitBegin
  BY <1>10 DEF CommitBegin
<1>11. CASE HandlerAccepts
  BY <1>11 DEF HandlerAccepts
<1>12. CASE HandlerRaises
  BY <1>12 DEF HandlerRaises
<1>13. CASE AllAccepted
  BY <1>13, ConstantTypes DEF AllAccepted
<1>14. CASE RollBack
  BY <1>14 DEF RollBack
<1>15. CASE RolledBack
  BY <1>15 DEF RolledBack
<1>16. CASE OpenFile
  BY <1>16 DEF OpenFile
<1>17. CASE WriteFile
  BY <1>17 DEF WriteFile
<1>18. CASE SaveRaises
  BY <1>18 DEF SaveRaises
<1>19. CASE UNCHANGED vars
  BY <1>19 DEF vars
<1> QED
  BY <1>1, <1>2, <1>3, <1>4, <1>5, <1>6, <1>7, <1>8, <1>9, <1>10,
     <1>11, <1>12, <1>13, <1>14, <1>15, <1>16, <1>17, <1>18, <1>19
     DEF Next, CommitStep

LEMMA RepliesStep ==
    TypeOK /\ Aliasing /\ Delivered /\ SuccessIsEverywhere /\ RollbackRestores /\ [Next]_vars => (SuccessIsEverywhere /\ RollbackRestores)'
<1> SUFFICES ASSUME TypeOK, Aliasing, Delivered, SuccessIsEverywhere, RollbackRestores, [Next]_vars
             PROVE  (SuccessIsEverywhere /\ RollbackRestores)'
  OBVIOUS
<1> USE DEF TypeOK, Aliasing, Delivered,
       SuccessIsEverywhere, RollbackRestores, Running, Slots, Other, Handlers
<1>1. CASE InitConfig
  BY <1>1 DEF InitConfig
<1>2. CASE LoadConfig
  BY <1>2 DEF LoadConfig
<1>3. CASE LoadRaises
  BY <1>3 DEF LoadRaises, vars
<1>4. CASE Start
  BY <1>4 DEF Start
<1>5. CASE StartRaises
  BY <1>5 DEF StartRaises
<1>6. CASE Crash
  BY <1>6 DEF Crash
<1>7. CASE EditStaged
  BY <1>7 DEF EditStaged
<1>8. CASE DropStaged
  BY <1>8 DEF DropStaged
<1>9. CASE CommitUnchanged
  BY <1>9 DEF CommitUnchanged
<1>10. CASE CommitBegin
  BY <1>10 DEF CommitBegin
<1>11. CASE HandlerAccepts
  BY <1>11 DEF HandlerAccepts
<1>12. CASE HandlerRaises
  BY <1>12 DEF HandlerRaises
<1>13. CASE AllAccepted
  BY <1>13 DEF AllAccepted
<1>14. CASE RollBack
  BY <1>14 DEF RollBack
<1>15. CASE RolledBack
  BY <1>15, ConstantTypes DEF RolledBack
<1>16. CASE OpenFile
  BY <1>16 DEF OpenFile
<1>17. CASE WriteFile
  <2>1. Running \in Config /\ Running.version \in Versions
    BY DEF Config
  <2>2. Running' = Running /\ data' # staged'
    BY <1>17 DEF WriteFile
  <2>3. files'[Running.version] = Running
    BY <1>17, <2>1 DEF WriteFile
  <2>4. \A h \in Handlers : applied'[h] = Running.content
    BY <1>17, ConstantTypes DEF WriteFile
  <2> QED
    BY <1>17, <2>2, <2>3, <2>4 DEF WriteFile
<1>18. CASE SaveRaises
  BY <1>18 DEF SaveRaises
<1>19. CASE UNCHANGED vars
  BY <1>19 DEF vars
<1> QED
  BY <1>1, <1>2, <1>3, <1>4, <1>5, <1>6, <1>7, <1>8, <1>9, <1>10,
     <1>11, <1>12, <1>13, <1>14, <1>15, <1>16, <1>17, <1>18, <1>19
     DEF Next, CommitStep

(* The order of the files and of the two objects. *)
LEMMA DurableStep ==
    TypeOK /\ HasLatest /\ Aliasing /\ Delivered /\ Durable /\ [Next]_vars => Durable'
<1> SUFFICES ASSUME TypeOK, HasLatest, Aliasing, Delivered, Durable, [Next]_vars
             PROVE  Durable'
  OBVIOUS
<1> USE DEF TypeOK, HasLatest, Aliasing, Delivered, Durable, IsNewest,
       Running, Staged, Previous, Slots, Other
<1>0. \A s \in Slots : /\ heap[s] \in Config
                        /\ heap[s].version \in Versions
                        /\ heap[s].version \in Nat
  BY ConstantTypes DEF Config
<1>a. /\ Running \in Config /\ Running.version \in Versions
      /\ Running.version \in Nat
      /\ Staged.version \in Nat /\ Previous.version \in Nat
  BY <1>0
<1>1. CASE InitConfig
  <2>1. Blank # NoFile /\ Blank.version = 0
    BY ConstantTypes DEF Blank
  <2>2. SavedVersions' = SavedVersions \cup {0}
    BY <1>1, <2>1, ConstantTypes, AddedFile DEF InitConfig
  <2>3. SavedVersions' = {0}
    BY <1>1, <2>2 DEF InitConfig
  <2> QED
    BY <1>1, <2>1, <2>3, ConstantTypes DEF InitConfig, IsLatest
<1>2. CASE LoadConfig
  <2> SUFFICES ASSUME intact
               PROVE  Durable'
    BY <1>2 DEF LoadConfig
  <2>1. PICK v \in Versions : IsLatest(v)
    BY <1>2 DEF LoadConfig
  <2>2. Latest = v
    BY <2>1, LatestIsLatest
  <2>3. files[v] \in Config /\ files[v].version = v
    BY <2>1 DEF IsLatest
  <2>4. SavedVersions' = SavedVersions
    BY <1>2 DEF LoadConfig, SavedVersions
  <2>5. Running' = files[v]
    BY <1>2, <2>2 DEF LoadConfig
  <2>6. IsNewest(Running)'
    BY <1>2, <2>1, <2>3, <2>4, <2>5 DEF LoadConfig, IsLatest
  <2>7. \A u \in SavedVersions' : files'[u] \in Config /\ files'[u].version = u
    BY <1>2, <2>4 DEF LoadConfig
  <2> QED
    BY <1>2, <2>6, <2>7 DEF LoadConfig
<1>3. CASE LoadRaises
  BY <1>3 DEF LoadRaises, vars, IsLatest, SavedVersions
<1>4. CASE Start
  BY <1>4, <1>0, <1>a DEF Start, IsLatest, SavedVersions
<1>5. CASE StartRaises
  BY <1>5, <1>0, <1>a DEF StartRaises, IsLatest, SavedVersions
<1>6. CASE Crash
  BY <1>6, <1>0, <1>a DEF Crash, IsLatest, SavedVersions
<1>7. CASE EditStaged
  BY <1>7, <1>0, <1>a DEF EditStaged, IsLatest, SavedVersions
<1>8. CASE DropStaged
  BY <1>8, <1>0, <1>a DEF DropStaged, IsLatest, SavedVersions
<1>9. CASE CommitUnchanged
  BY <1>9, <1>0, <1>a DEF CommitUnchanged, IsLatest, SavedVersions
<1>10. CASE CommitBegin
  BY <1>10, <1>0, <1>a DEF CommitBegin, IsLatest, SavedVersions
<1>11. CASE HandlerAccepts
  BY <1>11, <1>0, <1>a DEF HandlerAccepts, IsLatest, SavedVersions
<1>12. CASE HandlerRaises
  BY <1>12, <1>0, <1>a DEF HandlerRaises, IsLatest, SavedVersions
<1>13. CASE AllAccepted
  BY <1>13, <1>0, <1>a DEF AllAccepted, IsLatest, SavedVersions
<1>14. CASE RollBack
  <2>1. Running' = Previous /\ Staged' = Running /\ files' = files
    BY <1>14 DEF RollBack
  <2>2. SavedVersions' = SavedVersions
    BY <2>1 DEF SavedVersions
  <2>3. intact => IsNewest(Running)'
    BY <1>14, <2>1, <2>2 DEF RollBack, IsLatest
  <2>4. intact => Staged'.version >= Running'.version
    BY <1>14, <1>a, <2>1 DEF RollBack
  <2> QED
    BY <1>14, <2>1, <2>2, <2>3, <2>4 DEF RollBack
<1>15. CASE RolledBack
  BY <1>15, <1>0, <1>a DEF RolledBack, IsLatest, SavedVersions
<1>16. CASE OpenFile
  BY <1>16, <1>0, <1>a DEF OpenFile, IsLatest, SavedVersions
<1>17. CASE WriteFile
  <2> SUFFICES ASSUME intact
               PROVE  Durable'
    BY <1>17 DEF WriteFile
  <2>1. files' = [files EXCEPT ![Running.version] = Running]
    BY <1>17 DEF WriteFile
  <2>2. SavedVersions' = SavedVersions \cup {Running.version}
    BY <1>a, <2>1, ConstantTypes, AddedFile
  <2>3. \A w \in SavedVersions : w <= Running.version
    <3>1. Previous.version < Running.version
      BY <1>17 DEF WriteFile
    <3>2. \A w \in SavedVersions : w <= Previous.version
      BY <1>17 DEF WriteFile, IsLatest
    <3>3. SavedVersions \subseteq Nat
      BY ConstantTypes DEF SavedVersions
    <3> HIDE DEF TypeOK, Durable, Aliasing, Delivered, HasLatest
    <3> QED
      BY <1>a, <3>1, <3>2, <3>3
  <2>4. Running' = Running /\ Staged' = Running
    BY <1>17 DEF WriteFile
  <2>5. files'[Running.version] = Running
    BY <1>a, <2>1
  <2>6. IsNewest(Running)'
    <3>1. IsLatest(Running.version)'
      BY <1>a, <2>2, <2>3, <2>4 DEF IsLatest
    <3> QED
      BY <2>4, <2>5, <3>1 DEF IsNewest
  <2>7. \A u \in SavedVersions' : files'[u] \in Config /\ files'[u].version = u
    BY <1>a, <2>1, <2>2 DEF SavedVersions
  <2>8. Running'.version >= Running'.version
    BY <1>a, <2>4
  <2> QED
    BY <1>17, <2>4, <2>6, <2>7, <2>8 DEF WriteFile
<1>18. CASE SaveRaises
  BY <1>18, <1>0, <1>a DEF SaveRaises, IsLatest, SavedVersions
<1>19. CASE UNCHANGED vars
  BY <1>19 DEF vars, IsLatest, SavedVersions
<1> QED
  BY <1>1, <1>2, <1>3, <1>4, <1>5, <1>6, <1>7, <1>8, <1>9, <1>10,
     <1>11, <1>12, <1>13, <1>14, <1>15, <1>16, <1>17, <1>18, <1>19
     DEF Next, CommitStep

(* The invariant that the properties of the runs follow from. *)
LEMMA InvInit == Init => IInv
BY TypeInit DEF Init, IInv, Aliasing, Delivered, Durable, SuccessIsEverywhere,
   RollbackRestores, SavedVersions

LEMMA InvStep == IInv /\ [Next]_vars => IInv'
BY TypeStep, AliasingStep, DeliveredStep, RepliesStep, DurableStep DEF IInv

LEMMA Invariance == Spec => []IInv
BY InvInit, InvStep, PTL DEF Spec

(* What an operator reads after "Committed version N." is true: every subsystem
   was given that configuration and N.conf holds it. No assumption is made on
   crashes, on failing handlers or on the disk. *)
THEOREM RepliesCorrect == Spec => []SuccessIsEverywhere
<1>1. IInv => SuccessIsEverywhere
  BY DEF IInv
<1> QED
  BY <1>1, Invariance, PTL

(* After a commit that was refused and rolled back without an error, every
   subsystem is back on the running configuration: the handlers that were called
   before the one that failed were called again with the old data. *)
THEOREM RollbackCorrect == Spec => []RollbackRestores
<1>1. IInv => RollbackRestores
  BY DEF IInv
<1> QED
  BY <1>1, Invariance, PTL

(* What a restart would load is what runs, while no save has failed. *)
THEOREM DurableCorrect == Spec => []RunningIsDurable
<1>1. IInv => RunningIsDurable
  <2> SUFFICES ASSUME IInv, intact, pc \in {"starting", "idle"}
               PROVE  files[Latest] = Running
    BY DEF RunningIsDurable
  <2>1. IsLatest(Running.version) /\ files[Running.version] = Running
    BY DEF IInv, Durable, IsNewest
  <2>2. Latest = Running.version
    BY <2>1, LatestIsLatest DEF IInv
  <2> QED
    BY <2>1, <2>2
<1> QED
  BY <1>1, Invariance, PTL

(* A committed version is never overwritten, while no save has failed. *)
THEOREM HistoryCorrect == Spec => HistoryKeptWhileIntact
<1>1. IInv /\ [Next]_vars => [intact' => HistoryKept]_vars
  <2> SUFFICES ASSUME IInv, [Next]_vars, intact',
                      NEW v \in committed
               PROVE  files'[v] = files[v]
    BY DEF HistoryKept
  <2>1. v \in SavedVersions /\ v \in Versions
    BY DEF IInv, TypeOK, SavedVersions
  <2>2. CASE InitConfig
    BY <2>1, <2>2 DEF InitConfig
  <2>3. CASE WriteFile
    <3>1. intact /\ Previous.version < Running.version
      BY <2>3 DEF WriteFile, IInv, Durable
    <3>2. v <= Previous.version
      BY <2>1, <2>3, <3>1 DEF WriteFile, IInv, Durable, IsNewest, IsLatest
    <3>3. Previous.version \in Nat /\ Running.version \in Nat /\ v \in Nat
      BY <2>1, ConstantTypes
         DEF IInv, TypeOK, Config, Previous, Running, Other, Slots
    <3>4. v # Running.version
      BY <3>1, <3>2, <3>3
    <3> QED
      BY <2>1, <2>3, <3>4 DEF WriteFile, IInv, TypeOK
  <2>4. CASE Crash \/ SaveRaises
    BY <2>4 DEF Crash, SaveRaises
  <2>5. CASE UNCHANGED files
    BY <2>5
  <2> QED
    BY <2>2, <2>3, <2>4, <2>5
       DEF Next, CommitStep, LoadConfig, LoadRaises, Start, StartRaises,
           EditStaged, DropStaged, CommitUnchanged, CommitBegin,
           HandlerAccepts, HandlerRaises, AllAccepted, RollBack, RolledBack,
           OpenFile, vars
<1> QED
  BY <1>1, Invariance, PTL DEF Spec, HistoryKeptWhileIntact

(* While no save has failed and the agent runs, the configuration in force is
   what a restart would load. *)
LEMMA InForceIsNewest ==
    ASSUME IInv, intact, pc # "down"
    PROVE  files[Latest] = InForce
<1>1. CASE pc \in {"apply", "save", "write"}
  <2>1. IsNewest(InForce)
    BY <1>1 DEF IInv, Durable, InForce, Previous
  <2> QED
    BY <2>1, LatestIsLatest DEF IsNewest, IInv
<1>2. CASE pc \in {"starting", "idle", "rollback"}
  <2>1. IsNewest(InForce)
    BY <1>2 DEF IInv, Durable, InForce
  <2> QED
    BY <2>1, LatestIsLatest DEF IsNewest, IInv
<1> QED
  BY <1>1, <1>2 DEF IInv, TypeOK, PCs

(* Nothing but the end of a successful commit changes the configuration in
   force: not the steps of one that fails or is rolled back, from its begin to
   its answer, and no crash or restart in between, while no save has failed. *)
THEOREM RunningCorrect == Spec => OnlySuccessChangesRunning
<1>1. IInv /\ [Next]_vars =>
         [intact' /\ SavedVersions # {} =>
            \/ InForce' = InForce
            \/ pc = "write" /\ pc' = "idle" /\ outcome' = "success"
               /\ InForce' = Running]_vars
  <2> SUFFICES ASSUME IInv, Next, intact', SavedVersions # {}
               PROVE  \/ InForce' = InForce
                      \/ pc = "write" /\ pc' = "idle" /\ outcome' = "success"
                         /\ InForce' = Running
    BY DEF InForce, Running, SavedVersions, Latest, vars
  <2>t. /\ TypeOK /\ Aliasing
        /\ data \in Slots /\ staged \in Slots
        /\ heap \in [Slots -> Config]
    BY DEF IInv, TypeOK
  <2>1. ASSUME pc # "down", pc' = "down", UNCHANGED files, UNCHANGED intact
        PROVE  InForce' = InForce
    <3>1. SavedVersions' = SavedVersions /\ Latest' = Latest
      BY <2>1 DEF SavedVersions, Latest
    <3>2. InForce' = files[Latest]
      BY <2>1, <3>1 DEF InForce
    <3> QED
      BY <2>1, <3>2, InForceIsNewest
  <2>2. CASE Crash
    BY <2>1, <2>2 DEF Crash
  <2>3. CASE StartRaises
    BY <2>1, <2>3 DEF StartRaises
  <2>4. CASE LoadConfig
    <3>1. InForce = files[Latest]
      BY <2>4 DEF LoadConfig, InForce
    <3>2. InForce' = files[Latest]
      BY <2>t, <2>4 DEF LoadConfig, InForce, Running, Slots
    <3> QED
      BY <3>1, <3>2
  <2>5. CASE Start
    BY <2>t, <2>5 DEF Start, Aliasing, InForce, Running
  <2>6. CASE EditStaged
    BY <2>t, <2>6 DEF EditStaged, Aliasing, InForce, Running
  <2>7. CASE DropStaged
    BY <2>t, <2>7 DEF DropStaged, Aliasing, InForce, Running
  <2>8. CASE CommitBegin
    BY <2>t, <2>8 DEF CommitBegin, Aliasing, InForce, Running, Other, Slots
  <2>9. CASE RollBack
    BY <2>t, <2>9 DEF RollBack, InForce, Running
  <2>10. CASE WriteFile
    BY <2>t, <2>10 DEF WriteFile, InForce, Running, Other, Slots
  <2>11. CASE SaveRaises
    BY <2>11 DEF SaveRaises
  <2>12. CASE InitConfig
    BY <2>12 DEF InitConfig
  <2>13. CASE HandlerAccepts \/ HandlerRaises \/ AllAccepted \/ OpenFile
    BY <2>13 DEF HandlerAccepts, HandlerRaises, AllAccepted, OpenFile, InForce, Running
  <2>14. CASE RolledBack
    BY <2>14 DEF RolledBack, InForce, Running
  <2>15. CASE LoadRaises \/ CommitUnchanged
    BY <2>15 DEF LoadRaises, CommitUnchanged, InForce, Running, SavedVersions, Latest, vars
  <2> QED
    BY <2>2, <2>3, <2>4, <2>5, <2>6, <2>7, <2>8, <2>9, <2>10, <2>11, <2>12,
       <2>13, <2>14, <2>15 DEF Next, CommitStep
<1> QED
  BY <1>1, Invariance, PTL DEF Spec, OnlySuccessChangesRunning

-----------------------------------------------------------------------------
(* The history and the working copy of an operator, as RefinesHistory maps
   them. *)
History == [v \in SavedVersions \cup {0} |-> ContentOf(files[v])]
Working == IF pc \in {"down", "starting"} /\ SavedVersions # {}
           THEN ContentOf(files[Latest]) ELSE Staged.content

(* The newest version of the history is the newest file. *)
LEMMA NewestIsLatest ==
    ASSUME TypeOK, HasLatest, SavedVersions # {}
    PROVE  /\ Latest \in SavedVersions
           /\ H!Newest = Latest
           /\ History[H!Newest] = ContentOf(files[Latest])
<1>1. PICK v \in Versions : IsLatest(v)
  BY DEF HasLatest
<1>2. Latest = v /\ v \in SavedVersions
  BY <1>1, LatestIsLatest DEF IsLatest
<1>3. \A w \in SavedVersions \cup {0} : w <= v
  BY <1>1, ConstantTypes DEF IsLatest, Versions
<1>4. \A u \in SavedVersions \cup {0} :
         (\A w \in SavedVersions \cup {0} : w <= u) => u = v
  BY <1>2, <1>3, ConstantTypes DEF SavedVersions
<1>5. H!Newest = v
  BY <1>2, <1>3, <1>4 DEF H!Newest
<1> QED
  BY <1>2, <1>5 DEF History

(* While no save has failed, what runs is the content of the newest file. *)
LEMMA RunningIsNewest ==
    ASSUME IInv, intact, pc \in {"starting", "idle", "rollback"}
    PROVE  /\ SavedVersions # {}
           /\ Running.content = ContentOf(files[Latest])
<1>1. IsLatest(Running.version) /\ files[Running.version] = Running
  BY DEF IInv, Durable, IsNewest
<1>2. Latest = Running.version
  BY <1>1, LatestIsLatest DEF IInv
<1>3. Running \in Config
  BY DEF IInv, TypeOK, Running
<1> QED
  BY <1>1, <1>2, <1>3, ConstantTypes DEF ContentOf, IsLatest

(* Every step is one of the abstract history, or changes nothing of it. *)
LEMMA HistoryStep == IInv /\ [Next]_vars => [H!Next]_(H!hvars)
<1> SUFFICES ASSUME IInv, [Next]_vars, intact'
             PROVE  \/ UNCHANGED <<History, Working, intact>>
                    \/ H!Edit \/ H!Drop \/ H!Commit
  BY DEF H!Next, H!Damage, H!hvars, History, Working
<1>0. TypeOK /\ HasLatest /\ TypeOK' /\ HasLatest'
  BY TypeStep DEF IInv
<1>1. intact
  BY DEF Next, CommitStep, InitConfig, LoadConfig, LoadRaises, Start,
         StartRaises, Crash, EditStaged, DropStaged, CommitUnchanged,
         CommitBegin, HandlerAccepts, HandlerRaises, AllAccepted, RollBack,
         RolledBack, OpenFile, WriteFile, SaveRaises, vars
<1>2. ASSUME UNCHANGED files, pc \notin {"down", "starting"},
             pc' \notin {"down", "starting"}, Staged'.content = Staged.content
      PROVE  UNCHANGED <<History, Working>>
  BY <1>2 DEF History, Working, SavedVersions
<1>3. ASSUME UNCHANGED files, SavedVersions # {}, pc \in {"down", "starting"},
             pc' \in {"down", "starting"}
      PROVE  UNCHANGED <<History, Working>>
  BY <1>3 DEF History, Working, SavedVersions, Latest
<1>4. CASE InitConfig
  <2>1. SavedVersions' = {0}
    BY <1>4, <1>0, ConstantTypes DEF InitConfig, SavedVersions, TypeOK
  <2>2. Latest' = 0
    BY <2>1 DEF Latest
  <2>3. files'[0] = Blank /\ files[0] = NoFile
    BY <1>4, <1>0, ConstantTypes DEF InitConfig, SavedVersions, TypeOK
  <2>4. History = [v \in {0} |-> Empty] /\ History' = History
    BY <1>4, <2>1, <2>3, ConstantTypes DEF History, ContentOf, InitConfig, Blank
  <2>5. Working' = Empty
    BY <1>4, <2>1, <2>2, <2>3, ConstantTypes
       DEF Working, ContentOf, InitConfig, Blank
  <2>6. H!Newest = 0
    BY <2>4 DEF H!Newest, History
  <2>7. H!Drop
    BY <1>4, <2>4, <2>5, <2>6 DEF H!Drop, InitConfig, History, Working
  <2> QED
    BY <2>7
<1>5. CASE LoadConfig \/ LoadRaises \/ StartRaises
  BY <1>5, <1>3, <1>1, RunningIsNewest
     DEF LoadConfig, LoadRaises, StartRaises, vars
<1>6. CASE Start
  <2>1. SavedVersions # {} /\ Running.content = ContentOf(files[Latest])
    BY <1>6, <1>1, RunningIsNewest DEF Start
  <2>2. Staged' = Running
    BY <1>6, <1>0 DEF Start, TypeOK, Staged
  <2> QED
    BY <1>6, <2>1, <2>2 DEF Start, History, Working, SavedVersions
<1>7. CASE Crash
  <2>1. pc # "write" /\ UNCHANGED files /\ pc' = "down" /\ UNCHANGED intact
    BY <1>7 DEF Crash
  <2>2. SavedVersions # {}
    BY <1>7, <1>1, RunningIsNewest
       DEF Crash, IInv, TypeOK, PCs, Durable, IsNewest, IsLatest
  <2>3. Working' = ContentOf(files[Latest]) /\ History' = History
    BY <2>1, <2>2 DEF Working, History, SavedVersions, Latest
  <2>4. H!Drop
    BY <1>0, <2>1, <2>2, <2>3, NewestIsLatest DEF H!Drop, History, Working
  <2> QED
    BY <2>4
<1>8. CASE EditStaged
  <2>1. PICK c \in Contents : heap' = [heap EXCEPT ![staged].content = c]
    BY <1>8 DEF EditStaged
  <2>2. Staged'.content = c
    BY <1>8, <2>1, <1>0 DEF EditStaged, TypeOK, Staged, Config
  <2>3. H!Edit
    BY <1>8, <2>2 DEF EditStaged, H!Edit, SavedVersions
  <2> QED
    BY <2>3
<1>9. CASE DropStaged
  <2>1. SavedVersions # {} /\ Running.content = ContentOf(files[Latest])
    BY <1>9, <1>1, RunningIsNewest DEF DropStaged
  <2>2. Staged' = Running
    BY <1>9, <1>0 DEF DropStaged, TypeOK, Staged
  <2>3. Working' = ContentOf(files[Latest]) /\ History' = History
    BY <1>9, <2>1, <2>2 DEF DropStaged, Working, History, SavedVersions
  <2>4. H!Drop
    BY <1>0, <1>9, <2>1, <2>3, NewestIsLatest
       DEF H!Drop, History, Working, DropStaged
  <2> QED
    BY <2>4
<1>10. CASE CommitBegin
  <2>1. Staged'.content = Staged.content
    BY <1>10, <1>0 DEF CommitBegin, TypeOK, Staged, Config
  <2> QED
    BY <1>10, <2>1, <1>2 DEF CommitBegin
<1>11. CASE WriteFile
  <2>1. /\ data = staged /\ Running = Staged /\ Staged' = Running
        /\ Running.version \in Versions /\ Running \in Config
    BY <1>11, <1>0
       DEF WriteFile, IInv, Aliasing, TypeOK, Running, Staged, Slots, Other,
           Config
  <2>2. SavedVersions' = SavedVersions \cup {Running.version}
    BY <1>11, <1>0, <2>1, AddedFile, ConstantTypes DEF WriteFile
  <2>3. IsLatest(Previous.version) /\ Previous.version < Running.version
    BY <1>11, <1>1 DEF WriteFile, IInv, Durable, IsNewest
  <2>4. \A w \in SavedVersions \cup {0} : w < Running.version
    <3>1. /\ Previous.version \in Nat /\ Running.version \in Nat
          /\ SavedVersions \cup {0} \subseteq Nat
      BY <2>1, <2>3, ConstantTypes DEF IsLatest, SavedVersions
    <3>2. \A w \in SavedVersions : w <= Previous.version
      BY <2>3 DEF IsLatest
    <3> QED
      BY <2>3, <3>1, <3>2
  <2>5. /\ files'[Running.version] = Running
        /\ \A w \in SavedVersions \cup {0} : files'[w] = files[w]
    BY <1>11, <1>0, <2>1, <2>4, ConstantTypes
       DEF WriteFile, TypeOK, SavedVersions
  <2>6. Working = Running.content /\ Working' = Running.content
    BY <1>11, <2>1 DEF WriteFile, Working
  <2>7. ContentOf(files'[Running.version]) = Running.content
    BY <2>1, <2>5, ConstantTypes DEF ContentOf
  <2>8. History' = [w \in DOMAIN History \cup {Running.version} |->
                       IF w = Running.version THEN Working ELSE History[w]]
    BY <2>2, <2>4, <2>5, <2>6, <2>7 DEF History, ContentOf
  <2>9. H!Commit
    BY <1>11, <2>1, <2>4, <2>6, <2>8
       DEF H!Commit, History, Working, WriteFile
  <2> QED
    BY <2>9
<1>12. CASE \/ CommitUnchanged \/ HandlerAccepts \/ HandlerRaises
            \/ AllAccepted \/ RollBack \/ RolledBack \/ OpenFile
  BY <1>12, <1>2
     DEF CommitUnchanged, HandlerAccepts, HandlerRaises, AllAccepted, RollBack,
         RolledBack, OpenFile, Staged
<1>13. CASE UNCHANGED vars
  <2>1. SavedVersions' = SavedVersions /\ Staged' = Staged
    BY <1>13 DEF vars, SavedVersions, Staged
  <2>2. Latest' = Latest
    BY <2>1 DEF Latest
  <2>3. History' = History /\ Working' = Working
    BY <1>13, <2>1, <2>2 DEF vars, History, Working
  <2> QED
    BY <1>13, <2>3 DEF vars
<1> QED
  BY <1>4, <1>5, <1>6, <1>7, <1>8, <1>9, <1>10, <1>11, <1>12, <1>13
     DEF Next, CommitStep, SaveRaises

(* The store implements ConfigHistory: as long as every save is completed, an
   operator sees a history that only grows and one working copy, through
   failed handlers, rollbacks, crashes and restarts. *)
THEOREM RefinementCorrect == Spec => RefinesHistory
<1>1. Init => H!Init
  BY ConstantTypes
     DEF Init, H!Init, SavedVersions, ContentOf, Staged, Slots, Blank
<1> QED
  BY <1>1, HistoryStep, Invariance, PTL DEF Spec, RefinesHistory, H!Spec
=============================================================================
