-------------------------- MODULE NetfilterProofs --------------------------
(***************************************************************************)
(* What the netfilter provider guarantees for every set of clients, every  *)
(* command and every section: what the kernel enforces, what is saved,     *)
(* which edits can be lost, and that no name is ever listed twice.  The    *)
(* first three do not look into a section (Edit, Render and NftAccepts     *)
(* stay closed); the last goes through every command.                      *)
(***************************************************************************)
EXTENDS Netfilter, WellFoundedInduction, TLAPS

-----------------------------------------------------------------------------
(* The kernel and the file. *)

(* The rollback of a commit ends with the ruleset of the running section    *)
(* only because nftables took that section before, and the saved one is     *)
(* taken at the next start because it was running.  A running section that  *)
(* is enabled has been applied by this process, so that disabling it does   *)
(* flush the kernel.                                                        *)
KernelInv ==
    /\ phase \in {"down", "idle", "saving"}
    /\ applied \in BOOLEAN
    /\ Loads(saved)
    /\ phase # "down" => Loads(running) /\ (running.enabled => applied = TRUE)
    /\ RulesetIsRunning

LEMMA KernelInit == Init => KernelInv
  BY InitSectionsLoad DEF Init, KernelInv, RulesetIsRunning

LEMMA KernelStep == KernelInv /\ [Next]_vars => KernelInv'
<1> SUFFICES ASSUME KernelInv, [Next]_vars PROVE KernelInv'
  OBVIOUS
<1> USE DEF KernelInv, RulesetIsRunning
<1>1. ASSUME NEW c \in Clients, NEW m \in Commands, Read(c, m) PROVE KernelInv'
  BY <1>1 DEF Read
<1>2. ASSUME NEW c \in Clients, Write(c) PROVE KernelInv'
  BY <1>2 DEF Write
<1>3. ASSUME NEW c \in Clients, GiveUp(c) PROVE KernelInv'
  BY <1>3 DEF GiveUp
<1>4. CASE Drop
  BY <1>4 DEF Drop
<1>5. CASE CommitApplied
  <2>1. phase' = "saving" /\ running' = staged /\ saved' = saved /\ found' = found
    BY <1>5 DEF CommitApplied
  <2>2. Loads(saved)' /\ Loads(running)'
    BY <1>5, <2>1 DEF CommitApplied, Loads
  <2>3. CASE staged.enabled
    BY <1>5, <2>1, <2>2, <2>3 DEF CommitApplied, NftBecomes, Apply, Nft, Loads
  <2>4. CASE ~staged.enabled
    <3>1. CASE applied = TRUE
      BY <1>5, <2>1, <2>2, <2>4, <3>1 DEF CommitApplied, NftBecomes, Apply, Nft
    <3>2. CASE applied # TRUE
      BY <1>5, <2>1, <2>2, <2>4, <3>2 DEF CommitApplied, NftBecomes, Apply, Nft
    <3> QED
      BY <3>1, <3>2
  <2> QED
    BY <2>1, <2>2, <2>3, <2>4
<1>6. CASE CommitRolledBack
  (* apply() of the failed section leaves the provider applied if it was, and *)
  (* otherwise the kernel as it was unless it has loaded that section.       *)
  <2> DEFINE k == Apply(staged, Nft)
  <2>1. UNCHANGED <<phase, running, saved, found>> /\ NftBecomes(Apply(running, k))
    BY <1>6 DEF CommitRolledBack
  <2>2. Loads(saved)' /\ (phase' # "down" => Loads(running)')
    BY <2>1 DEF Loads
  <2>3. Loads(running) /\ phase = "idle"
    BY <1>6 DEF CommitRolledBack
  <2>4. k = Nft \/ (k.applied = TRUE)
    BY DEF Apply
  <2>5. CASE running.enabled
    BY <2>1, <2>2, <2>3, <2>5 DEF NftBecomes, Apply, Loads
  <2>6. CASE ~running.enabled /\ k.applied
    BY <2>1, <2>2, <2>3, <2>6 DEF NftBecomes, Apply
  <2>7. CASE ~running.enabled /\ ~k.applied
    BY <2>1, <2>2, <2>3, <2>4, <2>7 DEF NftBecomes, Apply, Nft
  <2> QED
    BY <2>5, <2>6, <2>7
<1>7. CASE CommitSaved
  BY <1>7 DEF CommitSaved, Loads
<1>8. CASE Crash
  BY <1>8 DEF Crash, Loads
<1>9. CASE Stop
  BY <1>9 DEF Stop, Loads
<1>10. CASE Start
  <2>1. phase' = "idle" /\ running' = saved /\ saved' = saved /\ found' = ruleset
    BY <1>10 DEF Start
  <2>2. Loads(saved)' /\ Loads(running)'
    BY <1>10, <2>1 DEF Start, Loads
  <2>3. NftBecomes(Apply(saved, [applied |-> FALSE, ruleset |-> ruleset])) /\ Loads(saved)
    BY <1>10 DEF Start
  <2>4. CASE saved.enabled
    BY <2>1, <2>2, <2>3, <2>4 DEF NftBecomes, Apply, Loads
  <2>5. CASE ~saved.enabled
    BY <2>1, <2>2, <2>3, <2>5 DEF NftBecomes, Apply
  <2> QED
    BY <2>1, <2>2, <2>4, <2>5
<1>11. CASE UNCHANGED vars
  BY <1>11 DEF vars, Loads
<1> QED
  BY <1>1, <1>2, <1>3, <1>4, <1>5, <1>6, <1>7, <1>8, <1>9, <1>10, <1>11 DEF Next

(* Between requests the kernel enforces the running section, after any      *)
(* sequence of commits, rollbacks, refusals, crashes and restarts of the    *)
(* agent (NetfilterProvider.apply and its callers).                         *)
THEOREM KernelCorrect == Spec => []RulesetIsRunning
<1>1. KernelInv => RulesetIsRunning
  BY DEF KernelInv
<1> QED
  BY KernelInit, KernelStep, <1>1, PTL DEF Spec

(* The newest file always holds a section nftables takes, so that the next  *)
(* start of the provider does not raise (ConfigProvider.rpc_commit saves    *)
(* only what every handler has accepted).                                   *)
THEOREM SavedCorrect == Spec => []SavedLoads
<1>1. KernelInv => SavedLoads
  BY DEF KernelInv, SavedLoads
<1> QED
  BY KernelInit, KernelStep, <1>1, PTL DEF Spec

-----------------------------------------------------------------------------
(* The edits. *)

(* A command nobody has changed the section under holds its own edit of the *)
(* section that is still staged; the copy that ends a commit changes nothing. *)
EditInv ==
    /\ phase = "saving" => staged = running
    /\ raced \in [Clients -> BOOLEAN]
    /\ task = [c \in Clients |-> task[c]]
    /\ \A c \in Clients : task[c] # Idle /\ ~raced[c] =>
           task[c].edited \in Edit(staged, task[c].command)

LEMMA EditInit == Init => EditInv
  BY DEF Init, EditInv

(* A step that changes the staged section marks every command under way.    *)
LEMMA RaceKeeps ==
    ASSUME EditInv, UNCHANGED task, RaceUnless(staged' = staged), phase' # "saving"
    PROVE  EditInv'
<1> USE DEF EditInv
<1>1. CASE staged' = staged
  BY <1>1 DEF RaceUnless
<1>2. CASE staged' # staged
  <2>1. raced' = [c \in Clients |-> TRUE]
    BY <1>2 DEF RaceUnless
  <2> QED
    BY <2>1
<1> QED
  BY <1>1, <1>2

LEMMA EditStep == EditInv /\ [Next]_vars => EditInv'
<1> SUFFICES ASSUME EditInv, [Next]_vars PROVE EditInv'
  OBVIOUS
<1>1. ASSUME NEW c \in Clients, NEW m \in Commands, Read(c, m) PROVE EditInv'
  <2>1. PICK s \in Edit(staged, m) :
            task' = [task EXCEPT ![c] = [command |-> m, edited |-> s]]
    BY <1>1 DEF Read
  <2>2. staged' = staged /\ raced' = [raced EXCEPT ![c] = FALSE]
    BY <1>1 DEF Read
  <2>3. /\ raced' \in [Clients -> BOOLEAN]
        /\ task' = [d \in Clients |-> task'[d]]
    BY <2>1, <2>2 DEF EditInv
  <2>4. ASSUME NEW d \in Clients, task'[d] # Idle, ~raced'[d]
        PROVE  task'[d].edited \in Edit(staged', task'[d].command)
    <3>1. CASE d = c
      <4>1. task'[d] = [command |-> m, edited |-> s]
        BY <2>1, <3>1 DEF EditInv
      <4> QED
        BY <2>2, <4>1
    <3>2. CASE d # c
      <4>1. task'[d] = task[d] /\ raced'[d] = raced[d]
        BY <2>1, <2>2, <3>2 DEF EditInv
      <4> QED
        BY <2>2, <2>4, <4>1 DEF EditInv
    <3> QED
      BY <3>1, <3>2
  <2>5. phase' = "idle"
    BY <1>1 DEF Read
  <2> QED
    BY <2>3, <2>4, <2>5 DEF EditInv
<1>2. ASSUME NEW c \in Clients, Write(c) \/ GiveUp(c) PROVE EditInv'
  <2>1. task' = [task EXCEPT ![c] = Idle]
    BY <1>2 DEF Write, GiveUp
  <2>2. \/ staged' = staged /\ raced' = raced
        \/ raced' = [d \in Clients |-> TRUE]
    BY <1>2 DEF Write, GiveUp, RaceUnless
  <2>3. /\ raced' \in [Clients -> BOOLEAN]
        /\ task' = [d \in Clients |-> task'[d]]
    BY <2>1, <2>2 DEF EditInv
  <2>4. ASSUME NEW d \in Clients, task'[d] # Idle, ~raced'[d]
        PROVE  task'[d].edited \in Edit(staged', task'[d].command)
    <3>1. d # c /\ task'[d] = task[d]
      BY <2>1, <2>4 DEF EditInv
    <3>2. staged' = staged /\ raced' = raced
      BY <2>2, <2>4
    <3> QED
      BY <2>4, <3>1, <3>2 DEF EditInv
  <2>5. phase' = "saving" => staged' = running'
    BY <1>2 DEF Write, GiveUp, EditInv
  <2> QED
    BY <2>3, <2>4, <2>5 DEF EditInv
<1>3. CASE Drop \/ Start
  BY <1>3, RaceKeeps DEF Drop, Start
<1>4. ASSUME UNCHANGED <<staged, task, raced>>, phase' = "saving" => staged' = running'
      PROVE  EditInv'
  BY <1>4 DEF EditInv
<1>5. CASE CommitApplied \/ CommitRolledBack \/ Crash \/ Stop
  BY <1>4, <1>5 DEF CommitApplied, CommitRolledBack, Crash, Stop
<1>6. CASE CommitSaved
  BY <1>4, <1>6 DEF CommitSaved, EditInv
<1>7. CASE UNCHANGED vars
  BY <1>4, <1>7 DEF vars, EditInv
<1> QED
  BY <1>1, <1>2, <1>3, <1>5, <1>6, <1>7 DEF Next

(* An edit is lost or revived only by commands that overlap: any other      *)
(* change of the staged section is the whole effect of one command on the   *)
(* section it finds, a drop, a commit or a start (the get and update of     *)
(* every handler of NetfilterCLI).                                          *)
THEOREM EditsCorrect == Spec => AtomicUnlessRaced
<1> DEFINE A == staged' # staged =>
                  \/ staged' = running'
                  \/ \E c \in Clients :
                        /\ task[c] # Idle /\ task'[c] = Idle
                        /\ raced[c] \/ staged' \in Edit(staged, task[c].command)
<1>1. EditInv /\ [Next]_vars => [A]_vars
  <2> SUFFICES ASSUME EditInv, Next, staged' # staged PROVE A
    OBVIOUS
  <2>1. ASSUME NEW c \in Clients, Write(c) PROVE A
    <3>1. task[c] # Idle /\ task'[c] = Idle /\ staged' = task[c].edited
      BY <2>1 DEF Write, EditInv
    <3> QED
      BY <3>1 DEF EditInv
  <2>2. CASE Drop \/ CommitSaved \/ Start
    BY <2>2 DEF Drop, CommitSaved, Start
  <2> QED
    BY <2>1, <2>2 DEF Next, Read, GiveUp, CommitApplied, CommitRolledBack, Crash, Stop
<1> QED
  BY EditInit, EditStep, <1>1, PTL DEF Spec, AtomicUnlessRaced

-----------------------------------------------------------------------------
(* What the handlers use of sequences. *)

(* A set of numbers that is not empty has a least one. *)
LEMMA LeastIn ==
    ASSUME NEW T \in SUBSET Nat, T # {}
    PROVE  Min(T) \in T /\ \A m \in T : Min(T) <= m
<1> DEFINE R == OpToRel(<, Nat)
<1>1. IsWellFoundedOn(R, Nat)
  BY NatLessThanWellFounded
<1>2. \A m, n \in Nat : m < n => <<m, n>> \in R
  BY DEF OpToRel
<1> HIDE DEF R
<1>3. PICK n \in T : \A m \in T : ~(<<m, n>> \in R)
  BY <1>1, WFMin
<1>4. \A m \in T : ~(m < n)
  BY <1>2, <1>3
<1>5. \A m \in T : m \in Nat /\ n \in Nat
  OBVIOUS
<1>6. \E k \in T : \A m \in T : k <= m
  BY <1>4, <1>5
<1> QED
  BY <1>6 DEF Min

LEMMA RemoveAtFacts ==
    ASSUME NEW S, NEW q \in Seq(S), NEW p \in 1..Len(q)
    PROVE  /\ RemoveAt(q, p) \in Seq(S)
           /\ Len(RemoveAt(q, p)) = Len(q) - 1
           /\ \A i \in 1..(Len(q) - 1) : RemoveAt(q, p)[i] = IF i < p THEN q[i] ELSE q[i + 1]
<1> DEFINE f == SubSeq(q, 1, p - 1)
           b == SubSeq(q, p + 1, Len(q))
<1>1. f \in Seq(S) /\ Len(f) = p - 1 /\ \A i \in 1..(p - 1) : f[i] = q[i]
  OBVIOUS
<1>2. b \in Seq(S) /\ Len(b) = Len(q) - p /\ \A i \in 1..(Len(q) - p) : b[i] = q[p + i]
  OBVIOUS
<1>3. RemoveAt(q, p) = f \o b
  BY DEF RemoveAt
<1> HIDE DEF f, b
<1>4. f \o b \in Seq(S) /\ Len(f \o b) = Len(q) - 1
  BY <1>1, <1>2
<1>5. \A i \in 1..(Len(q) - 1) : (f \o b)[i] = IF i < p THEN q[i] ELSE q[i + 1]
  <2> TAKE i \in 1..(Len(q) - 1)
  <2>0. i \in Int /\ p \in Int
    OBVIOUS
  <2>1. CASE i < p
    BY <1>1, <1>2, <2>1
  <2>2. CASE ~(i < p)
    <3>1. (f \o b)[i] = b[i - (p - 1)]
      BY <1>1, <1>2, <2>2
    <3>2. i - (p - 1) \in 1..(Len(q) - p) /\ p + (i - (p - 1)) = i + 1
      BY <2>2
    <3> QED
      BY <1>2, <2>2, <3>1, <3>2
  <2> QED
    BY <2>0, <2>1, <2>2
<1> QED
  BY <1>3, <1>4, <1>5

LEMMA RemoveFirstFacts ==
    ASSUME NEW S, NEW q \in Seq(S), NEW e
    PROVE  \/ RemoveFirst(q, e) = q
           \/ \E p \in 1..Len(q) : q[p] = e /\ RemoveFirst(q, e) = RemoveAt(q, p)
<1>1. CASE \E i \in 1..Len(q) : q[i] = e
  <2> DEFINE I == {i \in 1..Len(q) : q[i] = e}
  <2>1. I \in SUBSET Nat /\ I # {}
    BY <1>1
  <2>2. RemoveFirst(q, e) = RemoveAt(q, Min(I))
    BY <1>1 DEF RemoveFirst, SelectInSeq
  <2> HIDE DEF I
  <2>3. Min(I) \in I
    BY <2>1, LeastIn
  <2> QED
    BY <2>2, <2>3 DEF I
<1>2. CASE ~\E i \in 1..Len(q) : q[i] = e
  BY <1>2 DEF RemoveFirst
<1> QED
  BY <1>1, <1>2

LEMMA NoRepeatsKept ==
    ASSUME NEW S, NEW q \in Seq(S), NoRepeats(q)
    PROVE  /\ \A p \in 1..Len(q) : NoRepeats(RemoveAt(q, p))
           /\ \A e : NoRepeats(RemoveFirst(q, e)) /\ RemoveFirst(q, e) \in Seq(S)
           /\ \A e \in S : ~Contains(q, e) => NoRepeats(Append(q, e))
<1>1. ASSUME NEW p \in 1..Len(q)
      PROVE  NoRepeats(RemoveAt(q, p)) /\ RemoveAt(q, p) \in Seq(S)
  <2> DEFINE r == RemoveAt(q, p)
  <2>1. /\ r \in Seq(S) /\ Len(r) = Len(q) - 1
        /\ \A i \in 1..(Len(q) - 1) : r[i] = IF i < p THEN q[i] ELSE q[i + 1]
    BY RemoveAtFacts
  <2> HIDE DEF r
  <2>2. ASSUME NEW i \in DOMAIN r, NEW j \in DOMAIN r, r[i] = r[j]
        PROVE  i = j
    <3> DEFINE at(k) == IF k < p THEN k ELSE k + 1
    <3>1. /\ i \in 1..(Len(q) - 1) /\ j \in 1..(Len(q) - 1)
          /\ at(i) \in DOMAIN q /\ at(j) \in DOMAIN q
      BY <2>1
    <3>2. q[at(i)] = q[at(j)]
      BY <2>1, <2>2, <3>1
    <3>3. at(i) = at(j)
      BY <3>1, <3>2 DEF NoRepeats
    <3> QED
      BY <3>1, <3>3
  <2> QED
    BY <2>1, <2>2 DEF NoRepeats, r
<1>2. ASSUME NEW e
      PROVE  NoRepeats(RemoveFirst(q, e)) /\ RemoveFirst(q, e) \in Seq(S)
  BY <1>1, RemoveFirstFacts
<1>3. ASSUME NEW e \in S, ~Contains(q, e)
      PROVE  NoRepeats(Append(q, e))
  BY <1>3 DEF NoRepeats, Contains
<1> QED
  BY <1>1, <1>2, <1>3

LEMMA DistinctKept ==
    ASSUME NEW S, NEW q \in Seq(S), NEW key, Distinct(q, key)
    PROVE  /\ \A p \in 1..Len(q) : Distinct(RemoveAt(q, p), key)
           /\ \A x \in S : (\A i \in DOMAIN q : q[i][key] # x[key]) => Distinct(Append(q, x), key)
<1>1. ASSUME NEW p \in 1..Len(q)
      PROVE  Distinct(RemoveAt(q, p), key)
  <2> DEFINE r == RemoveAt(q, p)
  <2>1. /\ r \in Seq(S) /\ Len(r) = Len(q) - 1
        /\ \A i \in 1..(Len(q) - 1) : r[i] = IF i < p THEN q[i] ELSE q[i + 1]
    BY RemoveAtFacts
  <2> HIDE DEF r
  <2>2. ASSUME NEW i \in DOMAIN r, NEW j \in DOMAIN r, r[i][key] = r[j][key]
        PROVE  i = j
    <3> DEFINE at(k) == IF k < p THEN k ELSE k + 1
    <3>1. /\ i \in 1..(Len(q) - 1) /\ j \in 1..(Len(q) - 1)
          /\ at(i) \in DOMAIN q /\ at(j) \in DOMAIN q
      BY <2>1
    <3>2. r[i] = q[at(i)] /\ r[j] = q[at(j)]
      BY <2>1, <3>1
    <3>3. at(i) = at(j)
      BY <2>2, <3>1, <3>2 DEF Distinct
    <3> QED
      BY <3>1, <3>3
  <2> QED
    BY <2>1, <2>2 DEF Distinct, r
<1>2. ASSUME NEW x \in S, \A i \in DOMAIN q : q[i][key] # x[key]
      PROVE  Distinct(Append(q, x), key)
  BY <1>2 DEF Distinct
<1> QED
  BY <1>1, <1>2

LEMMA NoneWith ==
    ASSUME NEW S, NEW q \in Seq(S), NEW key, NEW value, FirstWith(q, key, value) = {}
    PROVE  \A i \in DOMAIN q : q[i][key] # value
<1> SUFFICES ASSUME NEW i \in DOMAIN q, q[i][key] = value
             PROVE  FALSE
  OBVIOUS
<1> DEFINE I == {j \in DOMAIN q : q[j][key] = value}
<1>1. I \in SUBSET Nat /\ I # {}
  OBVIOUS
<1>2. \A j \in DOMAIN q : q[j][key] = value => j \in I
  OBVIOUS
<1>3. \A j \in I : j \in DOMAIN q /\ q[j][key] = value
  OBVIOUS
<1> HIDE DEF I
<1>4. Min(I) \in I /\ \A j \in I : Min(I) <= j
  BY <1>1, LeastIn
<1>5. Min(I) \in FirstWith(q, key, value)
  <2>1. PICK m \in I : m = Min(I) /\ \A j \in I : m <= j
    BY <1>4
  <2>2. ASSUME NEW j \in DOMAIN q, j < m
        PROVE  q[j][key] # value
    <3>1. ~(m <= j)
      BY <1>1, <2>2
    <3> QED
      BY <1>2, <2>1, <3>1
  <2>3. m \in FirstWith(q, key, value)
    BY <1>3, <2>2 DEF FirstWith
  <2> QED
    BY <2>1, <2>3
<1> QED
  BY <1>5

-----------------------------------------------------------------------------
(* A section in which one list is another. *)

LEMMA ZonesReplaced ==
    ASSUME NEW s \in Section, WellFormed(s), NEW z \in Seq(Zone), Distinct(z, "name"),
           \A i \in DOMAIN z : NoRepeats(z[i].interface)
    PROVE  [s EXCEPT !.zone = z] \in Section /\ WellFormed([s EXCEPT !.zone = z])
<1> DEFINE r == [s EXCEPT !.zone = z]
<1>1. /\ r \in Section
      /\ r.zone = z /\ r.masquerade = s.masquerade
      /\ r.input = s.input /\ r.forward = s.forward
  BY DEF Section
<1> HIDE DEF r
<1>2. WellFormed(r)
  BY <1>1 DEF WellFormed
<1> QED
  BY <1>1, <1>2 DEF r

LEMMA MasqueradesReplaced ==
    ASSUME NEW s \in Section, WellFormed(s), NEW z \in Seq(Masquerade), Distinct(z, "interface")
    PROVE  [s EXCEPT !.masquerade = z] \in Section /\ WellFormed([s EXCEPT !.masquerade = z])
<1> DEFINE r == [s EXCEPT !.masquerade = z]
<1>1. /\ r \in Section
      /\ r.masquerade = z /\ r.zone = s.zone
      /\ r.input = s.input /\ r.forward = s.forward
  BY DEF Section
<1> HIDE DEF r
<1>2. WellFormed(r)
  BY <1>1 DEF WellFormed
<1> QED
  BY <1>1, <1>2 DEF r

LEMMA ChainReplaced ==
    ASSUME NEW s \in Section, WellFormed(s), NEW chain \in Chains, NEW c \in Chain,
           ChainWellFormed(c), NEW r, r = [s EXCEPT ![chain] = c]
    PROVE  r \in Section /\ WellFormed(r)
<1>1. CASE chain = "input"
  <2>1. r = [s EXCEPT !.input = c]
    BY <1>1
  <2>2. /\ r \in Section
        /\ r.masquerade = s.masquerade /\ r.zone = s.zone
        /\ r.input = c /\ r.forward = s.forward
    BY <2>1 DEF Section
  <2>3. WellFormed(r)
    BY <2>2 DEF WellFormed
  <2> QED
    BY <2>2, <2>3
<1>2. CASE chain = "forward"
  <2>1. r = [s EXCEPT !.forward = c]
    BY <1>2
  <2>2. /\ r \in Section
        /\ r.masquerade = s.masquerade /\ r.zone = s.zone
        /\ r.input = s.input /\ r.forward = c
    BY <2>1 DEF Section
  <2>3. WellFormed(r)
    BY <2>2 DEF WellFormed
  <2> QED
    BY <2>2, <2>3
<1> QED
  BY <1>1, <1>2 DEF Chains

(* The chain of a section that is well-formed is. *)
LEMMA ChainOf ==
    ASSUME NEW s \in Section, WellFormed(s), NEW chain \in Chains
    PROVE  /\ s[chain] \in Chain /\ ChainWellFormed(s[chain])
           /\ s[chain].rule \in Seq(Rule)
<1>1. CASE chain = "input"
  <2>1. s["input"] = s.input /\ s.input \in Chain /\ s.input.rule \in Seq(Rule)
    BY DEF Section, Chain
  <2> QED
    BY <1>1, <2>1 DEF WellFormed
<1>2. CASE chain = "forward"
  <2>1. s["forward"] = s.forward /\ s.forward \in Chain /\ s.forward.rule \in Seq(Rule)
    BY DEF Section, Chain
  <2> QED
    BY <1>2, <2>1 DEF WellFormed
<1> QED
  BY <1>1, <1>2 DEF Chains

LEMMA RulesReplaced ==
    ASSUME NEW s \in Section, WellFormed(s), NEW chain \in Chains, NEW q \in Seq(Rule),
           \A i \in DOMAIN q : RuleWellFormed(q[i]),
           NEW c, c = [s[chain] EXCEPT !.rule = q],
           NEW r, r = [s EXCEPT ![chain] = c]
    PROVE  r \in Section /\ WellFormed(r)
<1>1. s[chain] \in Chain
  BY ChainOf
<1>2. c \in Chain /\ c.rule = q
  BY <1>1 DEF Chain
<1>3. ChainWellFormed(c)
  BY <1>2 DEF ChainWellFormed
<1> QED
  BY <1>2, <1>3, ChainReplaced

LEMMA RuleReplaced ==
    ASSUME NEW s \in Section, WellFormed(s), NEW chain \in Chains,
           NEW p \in DOMAIN s[chain].rule, NEW x \in Rule, RuleWellFormed(x)
    PROVE  LET r == [s EXCEPT ![chain].rule[p] = x] IN r \in Section /\ WellFormed(r)
<1> DEFINE q == [s[chain].rule EXCEPT ![p] = x]
           c == [s[chain] EXCEPT !.rule = q]
           r == [s EXCEPT ![chain].rule[p] = x]
<1>1. r = [s EXCEPT ![chain] = c]
  OBVIOUS
<1>2. s[chain].rule \in Seq(Rule) /\ \A i \in DOMAIN s[chain].rule : RuleWellFormed(s[chain].rule[i])
  BY ChainOf DEF ChainWellFormed
<1>3. q \in Seq(Rule) /\ \A i \in DOMAIN q : RuleWellFormed(q[i])
  BY <1>2
<1>4. c = [s[chain] EXCEPT !.rule = q]
  OBVIOUS
<1> HIDE DEF q, c, r
<1>5. r \in Section /\ WellFormed(r)
  BY <1>1, <1>3, <1>4, RulesReplaced
<1> QED
  BY <1>5 DEF r

-----------------------------------------------------------------------------
(* Zones and masquerading. *)

LEMMA SectionFields ==
    ASSUME NEW s \in Section
    PROVE  /\ s.zone \in Seq(Zone) /\ s.masquerade \in Seq(Masquerade)
           /\ \A i \in DOMAIN s.zone : /\ s.zone[i] \in Zone
                                       /\ s.zone[i].interface \in Seq(Interfaces)
           /\ \A i \in DOMAIN s.masquerade : s.masquerade[i] \in Masquerade
<1>1. s.zone \in Seq(Zone) /\ s.masquerade \in Seq(Masquerade)
  BY DEF Section
<1>2. /\ \A i \in DOMAIN s.zone : s.zone[i] \in Zone
      /\ \A i \in DOMAIN s.masquerade : s.masquerade[i] \in Masquerade
  BY <1>1
<1>3. \A z \in Zone : z.interface \in Seq(Interfaces)
  BY DEF Zone
<1> QED
  BY <1>1, <1>2, <1>3

LEMMA AddZoneKeeps ==
    ASSUME NEW s \in Section, WellFormed(s), NEW zone \in Zones, NEW r \in AddZone(s, zone)
    PROVE  r \in Section /\ WellFormed(r)
<1> DEFINE x == [name |-> zone, interface |-> <<>>]
           z == Append(s.zone, x)
<1>1. r = [s EXCEPT !.zone = z] /\ FirstWith(s.zone, "name", zone) = {}
  BY DEF AddZone, When
<1>2. s.zone \in Seq(Zone) /\ x \in Zone
  <2>1. s.zone \in Seq(Zone)
    BY SectionFields
  <2>2. x \in Zone
    BY DEF Zone
  <2> QED
    BY <2>1, <2>2
<1>3. \A i \in DOMAIN s.zone : s.zone[i]["name"] # zone
  BY <1>1, <1>2, NoneWith
<1>4. x["name"] = zone
  OBVIOUS
<1>5. Distinct(z, "name")
  BY <1>2, <1>3, <1>4, DistinctKept DEF WellFormed
<1>6. z \in Seq(Zone) /\ \A i \in DOMAIN z : NoRepeats(z[i].interface)
  BY <1>2 DEF WellFormed, NoRepeats
<1> HIDE DEF z
<1> QED
  BY <1>1, <1>5, <1>6, ZonesReplaced

LEMMA RemoveZoneKeeps ==
    ASSUME NEW s \in Section, WellFormed(s), NEW zone \in Zones, NEW r \in RemoveZone(s, zone)
    PROVE  r \in Section /\ WellFormed(r)
<1> DEFINE z == RemoveFirstMatch(s.zone, LAMBDA y : y.name = zone)
           I == {i \in 1..Len(s.zone) : s.zone[i].name = zone}
<1>1. r = [s EXCEPT !.zone = z]
  BY DEF RemoveZone
<1>2. s.zone \in Seq(Zone)
  BY SectionFields
<1>3. CASE I = {}
  <2>1. ~\E i \in 1..Len(s.zone) : s.zone[i].name = zone
    BY <1>3
  <2>2. z = s.zone
    BY <2>1 DEF RemoveFirstMatch
  <2>3. r = s
    BY <1>1, <2>2 DEF Section
  <2> QED
    BY <2>3
<1>4. CASE I # {}
  <2>1. z = RemoveAt(s.zone, Min(I))
    BY <1>4 DEF RemoveFirstMatch, SelectInSeq
  <2>2. I \in SUBSET Nat /\ \A i \in I : i \in 1..Len(s.zone)
    OBVIOUS
  <2> HIDE DEF I, z
  <2>3. PICK p \in 1..Len(s.zone) : z = RemoveAt(s.zone, p)
    BY <1>4, <2>1, <2>2, LeastIn
  <2>4. Distinct(z, "name")
    BY <1>2, <2>3, DistinctKept DEF WellFormed
  <2>5. /\ z \in Seq(Zone) /\ Len(z) = Len(s.zone) - 1
        /\ \A i \in 1..(Len(s.zone) - 1) : z[i] = IF i < p THEN s.zone[i] ELSE s.zone[i + 1]
    BY <1>2, <2>3, RemoveAtFacts
  <2>6. \A i \in DOMAIN s.zone : NoRepeats(s.zone[i].interface)
    BY DEF WellFormed
  <2>7. \A i \in DOMAIN z : \E j \in DOMAIN s.zone : z[i] = s.zone[j]
    BY <1>2, <2>5
  <2>8. \A i \in DOMAIN z : NoRepeats(z[i].interface)
    BY <2>6, <2>7
  <2> QED
    BY <1>1, <2>4, <2>5, <2>8, ZonesReplaced
<1> QED
  BY <1>3, <1>4

(* A zone with other interfaces. *)
LEMMA ZoneReplaced ==
    ASSUME NEW s \in Section, WellFormed(s), NEW k \in DOMAIN s.zone,
           NEW q \in Seq(Interfaces), NoRepeats(q),
           NEW r, r = [s EXCEPT !.zone[k].interface = q]
    PROVE  r \in Section /\ WellFormed(r)
<1> DEFINE y == [s.zone[k] EXCEPT !.interface = q]
           z == [s.zone EXCEPT ![k] = y]
<1>1. r = [s EXCEPT !.zone = z]
  OBVIOUS
<1>2. s.zone \in Seq(Zone) /\ s.zone[k] \in Zone
  BY SectionFields
<1>3. y \in Zone /\ y.name = s.zone[k].name /\ y.interface = q
  BY <1>2 DEF Zone
<1> HIDE DEF y
<1>4. z \in Seq(Zone) /\ DOMAIN z = DOMAIN s.zone
  BY <1>2, <1>3
<1>5. \A i \in DOMAIN z : z[i].name = s.zone[i].name
  BY <1>2, <1>3
<1>6. Distinct(z, "name")
  BY <1>4, <1>5 DEF WellFormed, Distinct
<1>7. \A i \in DOMAIN z : NoRepeats(z[i].interface)
  BY <1>2, <1>3 DEF WellFormed
<1> HIDE DEF z
<1> QED
  BY <1>1, <1>4, <1>6, <1>7, ZonesReplaced

LEMMA ZoneInterfacesKept ==
    ASSUME NEW s \in Section, WellFormed(s), NEW zone \in Zones, NEW interface \in Interfaces,
           NEW r \in AddZoneInterface(s, zone, interface)
                     \cup RemoveZoneInterface(s, zone, interface)
    PROVE  r \in Section /\ WellFormed(r)
<1>1. PICK k \in DOMAIN s.zone :
          \/ /\ ~Contains(s.zone[k].interface, interface)
             /\ r = [s EXCEPT !.zone[k].interface = Append(@, interface)]
          \/ r = [s EXCEPT !.zone[k].interface = RemoveFirst(@, interface)]
  BY DEF AddZoneInterface, RemoveZoneInterface, FirstWith
<1> DEFINE q == s.zone[k].interface
           more == Append(q, interface)
           less == RemoveFirst(q, interface)
<1>2. q \in Seq(Interfaces) /\ NoRepeats(q)
  BY SectionFields DEF WellFormed
<1>3. CASE ~Contains(q, interface) /\ r = [s EXCEPT !.zone[k].interface = Append(@, interface)]
  <2>1. r = [s EXCEPT !.zone[k].interface = more]
    BY <1>3
  <2>2. more \in Seq(Interfaces) /\ NoRepeats(more)
    BY <1>2, <1>3, NoRepeatsKept
  <2> HIDE DEF more, q
  <2> QED
    BY <2>1, <2>2, ZoneReplaced
<1>4. CASE r = [s EXCEPT !.zone[k].interface = RemoveFirst(@, interface)]
  <2>1. r = [s EXCEPT !.zone[k].interface = less]
    BY <1>4
  <2>2. less \in Seq(Interfaces) /\ NoRepeats(less)
    BY <1>2, NoRepeatsKept
  <2> HIDE DEF less, q
  <2> QED
    BY <2>1, <2>2, ZoneReplaced
<1> QED
  BY <1>1, <1>3, <1>4

LEMMA AddMasqueradeKeeps ==
    ASSUME NEW s \in Section, WellFormed(s), NEW interface \in Interfaces,
           NEW r \in AddMasquerade(s, interface)
    PROVE  r \in Section /\ WellFormed(r)
<1> DEFINE x == [interface |-> interface, ip_forward |-> <<>>]
           z == Append(s.masquerade, x)
<1>1. r = [s EXCEPT !.masquerade = z] /\ FirstWith(s.masquerade, "interface", interface) = {}
  BY DEF AddMasquerade, When
<1>2. s.masquerade \in Seq(Masquerade) /\ x \in Masquerade
  <2>1. s.masquerade \in Seq(Masquerade)
    BY SectionFields
  <2>2. x \in Masquerade
    BY DEF Masquerade
  <2> QED
    BY <2>1, <2>2
<1>3. \A i \in DOMAIN s.masquerade : s.masquerade[i]["interface"] # interface
  BY <1>1, <1>2, NoneWith
<1>4. x["interface"] = interface
  OBVIOUS
<1>5. Distinct(z, "interface")
  BY <1>2, <1>3, <1>4, DistinctKept DEF WellFormed
<1>6. z \in Seq(Masquerade)
  BY <1>2
<1> HIDE DEF z
<1> QED
  BY <1>1, <1>5, <1>6, MasqueradesReplaced

(* Other forwards in some entries leave the interfaces as they are. *)
LEMMA ForwardsReplaced ==
    ASSUME NEW s \in Section, WellFormed(s), NEW z \in Seq(Masquerade),
           DOMAIN z = DOMAIN s.masquerade,
           \A i \in DOMAIN z : z[i].interface = s.masquerade[i].interface,
           NEW r, r = [s EXCEPT !.masquerade = z]
    PROVE  r \in Section /\ WellFormed(r)
<1>1. Distinct(z, "interface")
  BY DEF WellFormed, Distinct
<1> QED
  BY <1>1, MasqueradesReplaced

LEMMA ForwardsKept ==
    ASSUME NEW s \in Section, WellFormed(s), NEW interface \in Interfaces,
           NEW destination \in Destinations,
           NEW r \in AddMasqueradeForward(s, interface, destination)
                     \cup RemoveMasqueradeForward(s, interface, destination)
    PROVE  r \in Section /\ WellFormed(r)
<1> DEFINE ms == s.masquerade
           forwards(i) == ms[i].ip_forward
           more(i) == [ms[i] EXCEPT !.ip_forward = Append(@, destination)]
           less(i) == [ms[i] EXCEPT !.ip_forward = RemoveFirst(@, destination)]
           added == [i \in DOMAIN ms |-> IF ms[i].interface = interface THEN more(i) ELSE ms[i]]
           removed == [i \in DOMAIN ms |-> IF ms[i].interface = interface THEN less(i) ELSE ms[i]]
<1>1. \/ r = [s EXCEPT !.masquerade = added]
      \/ r = [s EXCEPT !.masquerade = removed]
  BY DEF AddMasqueradeForward, RemoveMasqueradeForward, EditForwards
<1>2. ms \in Seq(Masquerade) /\ \A i \in DOMAIN ms : ms[i] \in Masquerade
  BY SectionFields
<1>3. ASSUME NEW i \in DOMAIN ms
      PROVE  /\ more(i) \in Masquerade /\ more(i).interface = ms[i].interface
             /\ less(i) \in Masquerade /\ less(i).interface = ms[i].interface
  <2>1. ms[i] \in Masquerade /\ ms[i].ip_forward \in Seq(Destinations)
    BY <1>2 DEF Masquerade
  <2>2. RemoveFirst(ms[i].ip_forward, destination) \in Seq(Destinations)
    BY <2>1, RemoveFirstFacts, RemoveAtFacts
  <2>3. Append(ms[i].ip_forward, destination) \in Seq(Destinations)
    BY <2>1
  <2> HIDE DEF ms
  <2>4. more(i) \in Masquerade /\ more(i).interface = ms[i].interface
    BY <2>1, <2>3 DEF Masquerade
  <2>5. less(i) \in Masquerade /\ less(i).interface = ms[i].interface
    BY <2>1, <2>2 DEF Masquerade
  <2> QED
    BY <2>4, <2>5
<1> HIDE DEF ms, more, less
<1>4. /\ added \in Seq(Masquerade) /\ DOMAIN added = DOMAIN ms
      /\ \A i \in DOMAIN added : added[i].interface = ms[i].interface
  BY <1>2, <1>3
<1>5. /\ removed \in Seq(Masquerade) /\ DOMAIN removed = DOMAIN ms
      /\ \A i \in DOMAIN removed : removed[i].interface = ms[i].interface
  BY <1>2, <1>3
<1> HIDE DEF added, removed
<1>6. CASE r = [s EXCEPT !.masquerade = added]
  BY <1>4, <1>6, ForwardsReplaced DEF ms
<1>7. CASE r = [s EXCEPT !.masquerade = removed]
  BY <1>5, <1>7, ForwardsReplaced DEF ms
<1> QED
  BY <1>1, <1>6, <1>7

-----------------------------------------------------------------------------
(* Rules. *)

LEMMA RuleOf ==
    ASSUME NEW s \in Section, WellFormed(s), NEW chain \in Chains, NEW p \in DOMAIN s[chain].rule
    PROVE  /\ s[chain].rule[p] \in Rule /\ RuleWellFormed(s[chain].rule[p])
  BY ChainOf DEF ChainWellFormed

LEMMA SetPolicyKeeps ==
    ASSUME NEW s \in Section, WellFormed(s), NEW chain \in Chains, NEW policy \in Verdicts,
           NEW r \in SetPolicy(s, chain, policy)
    PROVE  r \in Section /\ WellFormed(r)
<1> DEFINE c == [s[chain] EXCEPT !.policy = policy]
<1>1. r = [s EXCEPT ![chain] = c]
  BY DEF SetPolicy, When
<1>2. s[chain] \in Chain /\ ChainWellFormed(s[chain])
  BY ChainOf
<1>3. c \in Chain /\ c.rule = s[chain].rule
  BY <1>2 DEF Chain
<1>4. ChainWellFormed(c)
  BY <1>2, <1>3 DEF ChainWellFormed
<1> HIDE DEF c
<1> QED
  BY <1>1, <1>3, <1>4, ChainReplaced

LEMMA AddRuleKeeps ==
    ASSUME NEW s \in Section, WellFormed(s), NEW chain \in Chains,
           NEW description \in Descriptions, NEW verdict \in Verdicts,
           NEW r \in AddRule(s, chain, description, verdict)
    PROVE  r \in Section /\ WellFormed(r)
<1> DEFINE x == [description |-> description, verdict |-> verdict,
                 source_zone |-> <<>>, destination_zone |-> <<>>,
                 match |-> [f \in Families |-> <<>>]]
           q == Append(s[chain].rule, x)
           c == [s[chain] EXCEPT !.rule = q]
<1>1. r = [s EXCEPT ![chain] = c]
  BY DEF AddRule
<1>2. s[chain].rule \in Seq(Rule) /\ ChainWellFormed(s[chain])
  BY ChainOf
<1>3. x \in Rule
  <2>1. [f \in Families |-> <<>>] \in [Families -> Seq(Match)]
    OBVIOUS
  <2> QED
    BY <2>1 DEF Rule
<1>4. RuleWellFormed(x)
  BY DEF RuleWellFormed, NoRepeats
<1>5. c = [s[chain] EXCEPT !.rule = q]
  OBVIOUS
<1> HIDE DEF x
<1>6. q \in Seq(Rule) /\ \A i \in DOMAIN q : RuleWellFormed(q[i])
  BY <1>2, <1>3, <1>4 DEF ChainWellFormed
<1> HIDE DEF q, c
<1> QED
  BY <1>1, <1>5, <1>6, RulesReplaced

LEMMA RemoveRuleKeeps ==
    ASSUME NEW s \in Section, WellFormed(s), NEW chain \in Chains, NEW index \in Indexes,
           NEW r \in RemoveRule(s, chain, index)
    PROVE  r \in Section /\ WellFormed(r)
<1> DEFINE p == Position(s[chain].rule, index)
           q == RemoveAt(s[chain].rule, p)
           c == [s[chain] EXCEPT !.rule = q]
<1>1. r = [s EXCEPT ![chain] = c] /\ p \in DOMAIN s[chain].rule
  BY DEF RemoveRule, When
<1>2. s[chain].rule \in Seq(Rule) /\ ChainWellFormed(s[chain])
  BY ChainOf
<1>3. c = [s[chain] EXCEPT !.rule = q]
  OBVIOUS
<1> HIDE DEF p
<1>4. p \in 1..Len(s[chain].rule)
  BY <1>1, <1>2
<1>5. /\ q \in Seq(Rule) /\ Len(q) = Len(s[chain].rule) - 1
      /\ \A i \in 1..(Len(s[chain].rule) - 1) :
            q[i] = IF i < p THEN s[chain].rule[i] ELSE s[chain].rule[i + 1]
  BY <1>2, <1>4, RemoveAtFacts
<1> HIDE DEF q
<1>6. \A i \in DOMAIN q : \E j \in DOMAIN s[chain].rule : q[i] = s[chain].rule[j]
  BY <1>2, <1>5
<1>7. \A i \in DOMAIN q : RuleWellFormed(q[i])
  BY <1>2, <1>6 DEF ChainWellFormed
<1> HIDE DEF c
<1> QED
  BY <1>1, <1>3, <1>5, <1>7, RulesReplaced

LEMMA UpdateRuleKeeps ==
    ASSUME NEW s \in Section, WellFormed(s), NEW chain \in Chains, NEW index \in Indexes,
           NEW description \in Descriptions \cup {NoArgument},
           NEW verdict \in Verdicts \cup {NoArgument},
           NEW r \in UpdateRule(s, chain, index, description, verdict)
    PROVE  r \in Section /\ WellFormed(r)
<1> DEFINE q == s[chain].rule
           p == Position(q, index)
           x == [q[p] EXCEPT !.description = IF description = NoArgument THEN @ ELSE description,
                             !.verdict = IF verdict = NoArgument THEN @ ELSE verdict]
<1>1. p \in DOMAIN s[chain].rule /\ r = [s EXCEPT ![chain].rule[p] = x]
  BY DEF UpdateRule, EditRule
<1> HIDE DEF p
<1>2. q[p] \in Rule /\ RuleWellFormed(q[p])
  BY <1>1, RuleOf
<1>3. x \in Rule /\ x.source_zone = q[p].source_zone
      /\ x.destination_zone = q[p].destination_zone
  <2>1. q[p].description \in Descriptions /\ q[p].verdict \in Verdicts
    BY <1>2 DEF Rule
  <2> HIDE DEF q
  <2> DEFINE d == IF description = NoArgument THEN q[p].description ELSE description
             v == IF verdict = NoArgument THEN q[p].verdict ELSE verdict
  <2>2. d \in Descriptions /\ v \in Verdicts
    BY <2>1
  <2>3. x = [q[p] EXCEPT !.description = d, !.verdict = v]
    OBVIOUS
  <2> HIDE DEF d, v, x
  <2> QED
    BY <1>2, <2>2, <2>3 DEF Rule
<1>4. RuleWellFormed(x)
  BY <1>2, <1>3 DEF RuleWellFormed
<1> HIDE DEF x, q
<1> QED
  BY <1>1, <1>3, <1>4, RuleReplaced

(* A rule with other zones on one side. *)
LEMMA SideReplaced ==
    ASSUME NEW x \in Rule, RuleWellFormed(x), NEW side \in Sides,
           NEW q \in Seq(Zones), NoRepeats(q)
    PROVE  [x EXCEPT ![side] = q] \in Rule /\ RuleWellFormed([x EXCEPT ![side] = q])
<1> DEFINE y == [x EXCEPT ![side] = q]
<1>1. CASE side = "source_zone"
  <2>1. y \in Rule /\ y.source_zone = q /\ y.destination_zone = x.destination_zone
    BY <1>1 DEF Rule
  <2> HIDE DEF y
  <2>2. RuleWellFormed(y)
    BY <2>1 DEF RuleWellFormed
  <2> QED
    BY <2>1, <2>2 DEF y
<1>2. CASE side = "destination_zone"
  <2>1. y \in Rule /\ y.destination_zone = q /\ y.source_zone = x.source_zone
    BY <1>2 DEF Rule
  <2> HIDE DEF y
  <2>2. RuleWellFormed(y)
    BY <2>1 DEF RuleWellFormed
  <2> QED
    BY <2>1, <2>2 DEF y
<1> QED
  BY <1>1, <1>2 DEF Sides

LEMMA SideOf ==
    ASSUME NEW x \in Rule, RuleWellFormed(x), NEW side \in Sides
    PROVE  x[side] \in Seq(Zones) /\ NoRepeats(x[side])
<1>1. CASE side = "source_zone"
  <2>1. x["source_zone"] = x.source_zone /\ x.source_zone \in Seq(Zones)
    BY DEF Rule
  <2> QED
    BY <1>1, <2>1 DEF RuleWellFormed
<1>2. CASE side = "destination_zone"
  <2>1. x["destination_zone"] = x.destination_zone /\ x.destination_zone \in Seq(Zones)
    BY DEF Rule
  <2> QED
    BY <1>2, <2>1 DEF RuleWellFormed
<1> QED
  BY <1>1, <1>2 DEF Sides

LEMMA RuleZonesKept ==
    ASSUME NEW s \in Section, WellFormed(s), NEW chain \in Chains, NEW index \in Indexes,
           NEW side \in Sides, NEW zone \in Zones,
           NEW r \in AddRuleZone(s, chain, index, side, zone)
                     \cup RemoveRuleZone(s, chain, index, side, zone)
    PROVE  r \in Section /\ WellFormed(r)
<1> DEFINE p == Position(s[chain].rule, index)
           x == s[chain].rule[p]
           more == Append(x[side], zone)
           less == RemoveFirst(x[side], zone)
<1>1. /\ p \in DOMAIN s[chain].rule
      /\ \/ ~Contains(x[side], zone) /\ r = [s EXCEPT ![chain].rule[p] = [x EXCEPT ![side] = more]]
         \/ r = [s EXCEPT ![chain].rule[p] = [x EXCEPT ![side] = less]]
  BY DEF AddRuleZone, RemoveRuleZone, EditRule, When
<1> HIDE DEF p
<1>2. x \in Rule /\ RuleWellFormed(x)
  BY <1>1, RuleOf
<1>3. x[side] \in Seq(Zones) /\ NoRepeats(x[side])
  BY <1>2, SideOf
<1>4. CASE ~Contains(x[side], zone) /\ r = [s EXCEPT ![chain].rule[p] = [x EXCEPT ![side] = more]]
  <2>1. more \in Seq(Zones) /\ NoRepeats(more)
    BY <1>3, <1>4, NoRepeatsKept
  <2> HIDE DEF more
  <2>2. [x EXCEPT ![side] = more] \in Rule /\ RuleWellFormed([x EXCEPT ![side] = more])
    BY <1>2, <2>1, SideReplaced
  <2> QED
    BY <1>1, <1>4, <2>2, RuleReplaced
<1>5. CASE r = [s EXCEPT ![chain].rule[p] = [x EXCEPT ![side] = less]]
  <2>1. less \in Seq(Zones) /\ NoRepeats(less)
    BY <1>3, NoRepeatsKept
  <2> HIDE DEF less
  <2>2. [x EXCEPT ![side] = less] \in Rule /\ RuleWellFormed([x EXCEPT ![side] = less])
    BY <1>2, <2>1, SideReplaced
  <2> QED
    BY <1>1, <1>5, <2>2, RuleReplaced
<1> QED
  BY <1>1, <1>4, <1>5

-----------------------------------------------------------------------------
(* Matches. *)

(* A rule with other matches of one family. *)
LEMMA MatchesReplaced ==
    ASSUME NEW s \in Section, WellFormed(s), NEW chain \in Chains,
           NEW p \in DOMAIN s[chain].rule, NEW family \in Families, NEW q \in Seq(Match),
           NEW x, x = s[chain].rule[p],
           NEW r, r = [s EXCEPT ![chain].rule[p] = [x EXCEPT !.match[family] = q]]
    PROVE  r \in Section /\ WellFormed(r)
<1> DEFINE m == [x.match EXCEPT ![family] = q]
           y == [x EXCEPT !.match = m]
<1>1. r = [s EXCEPT ![chain].rule[p] = y]
  OBVIOUS
<1>2. x \in Rule /\ RuleWellFormed(x)
  BY RuleOf
<1>3. m \in [Families -> Seq(Match)]
  BY <1>2 DEF Rule
<1> HIDE DEF m
<1>4. y \in Rule /\ y.source_zone = x.source_zone /\ y.destination_zone = x.destination_zone
  BY <1>2, <1>3 DEF Rule
<1>5. RuleWellFormed(y)
  BY <1>2, <1>4 DEF RuleWellFormed
<1> HIDE DEF y
<1>6. [s EXCEPT ![chain].rule[p] = y] \in Section /\ WellFormed([s EXCEPT ![chain].rule[p] = y])
  BY <1>4, <1>5, RuleReplaced
<1> QED
  BY <1>1, <1>6

LEMMA MatchesOf ==
    ASSUME NEW s \in Section, WellFormed(s), NEW chain \in Chains,
           NEW p \in DOMAIN s[chain].rule, NEW family \in Families
    PROVE  /\ s[chain].rule[p].match[family] \in Seq(Match)
           /\ \A k \in DOMAIN s[chain].rule[p].match[family] :
                 s[chain].rule[p].match[family][k] \in Match
<1>1. s[chain].rule[p] \in Rule
  BY RuleOf
<1>2. s[chain].rule[p].match[family] \in Seq(Match)
  BY <1>1 DEF Rule
<1> QED
  BY <1>2

LEMMA RemoveMatchKeeps ==
    ASSUME NEW s \in Section, WellFormed(s), NEW chain \in Chains, NEW index \in Indexes,
           NEW family \in Families, NEW match \in Indexes,
           NEW r \in RemoveMatch(s, chain, index, family, match)
    PROVE  r \in Section /\ WellFormed(r)
<1> DEFINE p == Position(s[chain].rule, index)
           x == s[chain].rule[p]
           k == Position(x.match[family], match)
           q == RemoveAt(x.match[family], k)
<1>1. /\ p \in DOMAIN s[chain].rule
      /\ k \in DOMAIN x.match[family]
      /\ r = [s EXCEPT ![chain].rule[p] = [x EXCEPT !.match[family] = q]]
  BY DEF RemoveMatch, EditRule, When
<1> HIDE DEF p, k
<1>2. x.match[family] \in Seq(Match)
  BY <1>1, MatchesOf
<1>3. q \in Seq(Match)
  BY <1>1, <1>2, RemoveAtFacts
<1>4. x = s[chain].rule[p]
  OBVIOUS
<1> HIDE DEF q, x
<1> QED
  BY <1>1, <1>3, <1>4, MatchesReplaced

(* One match of a family is another.  EditMatch is written out, because it  *)
(* takes an operator.                                                       *)
LEMMA MatchReplaced ==
    ASSUME NEW s \in Section, WellFormed(s), NEW chain \in Chains,
           NEW p \in DOMAIN s[chain].rule, NEW family \in Families,
           NEW x, x = s[chain].rule[p],
           NEW k \in DOMAIN x.match[family], NEW m \in Match,
           NEW r, r = [s EXCEPT ![chain].rule[p] = [x EXCEPT !.match[family][k] = m]]
    PROVE  r \in Section /\ WellFormed(r)
<1> DEFINE q == [x.match[family] EXCEPT ![k] = m]
<1>1. r = [s EXCEPT ![chain].rule[p] = [x EXCEPT !.match[family] = q]]
  OBVIOUS
<1>2. x.match[family] \in Seq(Match)
  BY MatchesOf
<1>3. q \in Seq(Match)
  BY <1>2
<1> HIDE DEF q
<1>4. ASSUME NEW t, t = [s EXCEPT ![chain].rule[p] = [x EXCEPT !.match[family] = q]]
      PROVE  t \in Section /\ WellFormed(t)
  BY <1>3, <1>4, MatchesReplaced
<1> QED
  BY <1>1, <1>4

LEMMA NegateMatchKeeps ==
    ASSUME NEW s \in Section, WellFormed(s), NEW chain \in Chains, NEW index \in Indexes,
           NEW family \in Families, NEW match \in Indexes, NEW negate \in BOOLEAN,
           NEW r \in NegateMatch(s, chain, index, family, match, negate)
    PROVE  r \in Section /\ WellFormed(r)
<1> DEFINE p == Position(s[chain].rule, index)
           x == s[chain].rule[p]
           k == Position(x.match[family], match)
           m == [x.match[family][k] EXCEPT !.negate = negate]
<1>1. /\ p \in DOMAIN s[chain].rule
      /\ k \in DOMAIN x.match[family]
      /\ r = [s EXCEPT ![chain].rule[p] = [x EXCEPT !.match[family][k] = m]]
  BY DEF NegateMatch, EditMatch, EditRule, When
<1> HIDE DEF p, k
<1>2. x.match[family][k] \in Match
  BY <1>1, MatchesOf
<1>3. m \in Match
  BY <1>2 DEF Match
<1>4. x = s[chain].rule[p]
  OBVIOUS
<1> HIDE DEF m, x
<1> QED
  BY <1>1, <1>3, <1>4, MatchReplaced

(* A match with other values in one field. *)
LEMMA ValuesReplaced ==
    ASSUME NEW m \in Match, NEW field \in Fields, NEW q \in Seq(Values)
    PROVE  [m EXCEPT !.values[field] = q] \in Match
<1> DEFINE v == [m.values EXCEPT ![field] = q]
<1>1. v \in [Fields -> Seq(Values)]
  BY DEF Match
<1>2. [m EXCEPT !.values[field] = q] = [m EXCEPT !.values = v]
  OBVIOUS
<1> HIDE DEF v
<1>3. [m EXCEPT !.values = v] \in Match
  BY <1>1 DEF Match
<1> QED
  BY <1>2, <1>3

LEMMA ValuesKept ==
    ASSUME NEW s \in Section, WellFormed(s), NEW chain \in Chains, NEW index \in Indexes,
           NEW family \in Families, NEW match \in Indexes, NEW field \in Fields,
           NEW value \in Values,
           NEW r \in ExtendMatch(s, chain, index, family, match, field, value)
                     \cup AddValue(s, chain, index, family, match, field, value)
                     \cup RemoveValue(s, chain, index, family, match, field, value)
    PROVE  r \in Section /\ WellFormed(r)
<1> DEFINE p == Position(s[chain].rule, index)
           x == s[chain].rule[p]
           k == Position(x.match[family], match)
           y == x.match[family][k]
           more == Append(y.values[field], value)
           less == RemoveFirst(y.values[field], value)
<1>1. /\ p \in DOMAIN s[chain].rule
      /\ k \in DOMAIN x.match[family]
      /\ \/ r = [s EXCEPT ![chain].rule[p] =
                    [x EXCEPT !.match[family][k] = [y EXCEPT !.values[field] = more]]]
         \/ r = [s EXCEPT ![chain].rule[p] =
                    [x EXCEPT !.match[family][k] = [y EXCEPT !.values[field] = less]]]
  <2>1. CASE r \in ExtendMatch(s, chain, index, family, match, field, value)
    BY <2>1, ZenonT(20) DEF ExtendMatch, EditMatch, EditRule, When
  <2>2. CASE r \in AddValue(s, chain, index, family, match, field, value)
    BY <2>2, ZenonT(20) DEF AddValue, EditMatch, EditRule, When
  <2>3. CASE r \in RemoveValue(s, chain, index, family, match, field, value)
    BY <2>3, ZenonT(20) DEF RemoveValue, EditMatch, EditRule, When
  <2> QED
    BY <2>1, <2>2, <2>3
<1> HIDE DEF p, k
<1>2. y \in Match
  BY <1>1, MatchesOf
<1>3. y.values[field] \in Seq(Values)
  BY <1>2 DEF Match
<1>4. more \in Seq(Values) /\ less \in Seq(Values)
  <2>1. more \in Seq(Values)
    BY <1>3
  <2>2. less \in Seq(Values)
    BY <1>3, RemoveFirstFacts, RemoveAtFacts
  <2> QED
    BY <2>1, <2>2
<1>5. x = s[chain].rule[p]
  OBVIOUS
<1> HIDE DEF more, less, y
<1>6. /\ [y EXCEPT !.values[field] = more] \in Match
      /\ [y EXCEPT !.values[field] = less] \in Match
  BY <1>2, <1>4, ValuesReplaced
<1> HIDE DEF x
<1>7. CASE r = [s EXCEPT ![chain].rule[p] =
                  [x EXCEPT !.match[family][k] = [y EXCEPT !.values[field] = more]]]
  BY <1>1, <1>5, <1>6, <1>7, MatchReplaced
<1>8. CASE r = [s EXCEPT ![chain].rule[p] =
                  [x EXCEPT !.match[family][k] = [y EXCEPT !.values[field] = less]]]
  BY <1>1, <1>5, <1>6, <1>8, MatchReplaced
<1> QED
  BY <1>1, <1>7, <1>8

-----------------------------------------------------------------------------
(* All the commands. *)

LEMMA SectionCommandKeeps ==
    ASSUME NEW s \in Section, WellFormed(s), NEW m \in SectionCommands, NEW r \in Edit(s, m)
    PROVE  r \in Section /\ WellFormed(r)
<1>1. CASE m \in [op: {"enable", "disable", "ip-forward-port"}]
  <2>1. \/ r = [s EXCEPT !.enabled = TRUE]
        \/ r = [s EXCEPT !.enabled = FALSE]
    BY <1>1 DEF Edit, EditMasqueradePort
  <2>2. /\ r \in Section
        /\ r.zone = s.zone /\ r.masquerade = s.masquerade
        /\ r.input = s.input /\ r.forward = s.forward
    BY <2>1 DEF Section
  <2> QED
    BY <2>2 DEF WellFormed
<1>2. CASE m \in [op: {"zone add", "zone remove"}, zone: Zones]
  <2>1. m.zone \in Zones /\ r \in AddZone(s, m.zone) \cup RemoveZone(s, m.zone)
    BY <1>2 DEF Edit
  <2> QED
    BY <2>1, AddZoneKeeps, RemoveZoneKeeps
<1>3. CASE m \in [op: {"zone interface add", "zone interface remove"},
                  zone: Zones, interface: Interfaces]
  <2>1. /\ m.zone \in Zones /\ m.interface \in Interfaces
        /\ r \in AddZoneInterface(s, m.zone, m.interface)
                 \cup RemoveZoneInterface(s, m.zone, m.interface)
    BY <1>3 DEF Edit
  <2> QED
    BY <2>1, ZoneInterfacesKept
<1>4. CASE m \in [op: {"masquerade add", "masquerade remove"}, interface: Interfaces]
  <2>1. m.interface \in Interfaces /\ r \in AddMasquerade(s, m.interface)
    BY <1>4 DEF Edit, RemoveMasquerade
  <2> QED
    BY <2>1, AddMasqueradeKeeps
<1>5. CASE m \in [op: {"ip-forward add", "ip-forward remove"},
                  interface: Interfaces, destination: Destinations]
  <2>1. /\ m.interface \in Interfaces /\ m.destination \in Destinations
        /\ r \in AddMasqueradeForward(s, m.interface, m.destination)
                 \cup RemoveMasqueradeForward(s, m.interface, m.destination)
    BY <1>5 DEF Edit
  <2> QED
    BY <2>1, ForwardsKept
<1> QED
  BY <1>1, <1>2, <1>3, <1>4, <1>5 DEF SectionCommands

LEMMA RuleCommandKeeps ==
    ASSUME NEW s \in Section, WellFormed(s), NEW m \in RuleCommands, NEW r \in Edit(s, m)
    PROVE  r \in Section /\ WellFormed(r)
<1>1. CASE m \in [op: {"policy"}, chain: Chains, policy: Verdicts]
  <2>1. m.chain \in Chains /\ m.policy \in Verdicts /\ r \in SetPolicy(s, m.chain, m.policy)
    BY <1>1 DEF Edit
  <2> QED
    BY <2>1, SetPolicyKeeps
<1>2. CASE m \in [op: {"rule add"}, chain: Chains, description: Descriptions, verdict: Verdicts]
  <2>1. /\ m.chain \in Chains /\ m.description \in Descriptions /\ m.verdict \in Verdicts
        /\ r \in AddRule(s, m.chain, m.description, m.verdict)
    BY <1>2 DEF Edit
  <2> QED
    BY <2>1, AddRuleKeeps
<1>3. CASE m \in [op: {"rule update"}, chain: Chains, index: Indexes,
                  description: Descriptions \cup {NoArgument},
                  verdict: Verdicts \cup {NoArgument}]
  <2>1. /\ m.chain \in Chains /\ m.index \in Indexes
        /\ m.description \in Descriptions \cup {NoArgument}
        /\ m.verdict \in Verdicts \cup {NoArgument}
        /\ r \in UpdateRule(s, m.chain, m.index, m.description, m.verdict)
    BY <1>3 DEF Edit
  <2> QED
    BY <2>1, UpdateRuleKeeps
<1>4. CASE m \in [op: {"rule remove"}, chain: Chains, index: Indexes]
  <2>1. m.chain \in Chains /\ m.index \in Indexes /\ r \in RemoveRule(s, m.chain, m.index)
    BY <1>4 DEF Edit
  <2> QED
    BY <2>1, RemoveRuleKeeps
<1>5. CASE m \in [op: {"rule zone add", "rule zone remove"}, chain: Chains, index: Indexes,
                  side: Sides, zone: Zones]
  <2>1. /\ m.chain \in Chains /\ m.index \in Indexes /\ m.side \in Sides /\ m.zone \in Zones
        /\ r \in AddRuleZone(s, m.chain, m.index, m.side, m.zone)
                 \cup RemoveRuleZone(s, m.chain, m.index, m.side, m.zone)
    BY <1>5 DEF Edit
  <2> QED
    BY <2>1, RuleZonesKept
<1>6. {"input"} \subseteq Chains /\ {"forward"} \subseteq Chains /\ {"source_zone"} \subseteq Sides
  BY DEF Chains, Sides
<1> QED
  BY <1>1, <1>2, <1>3, <1>4, <1>5, <1>6 DEF RuleCommands

LEMMA MatchCommandKeeps ==
    ASSUME NEW s \in Section, WellFormed(s), NEW chain \in Chains,
           NEW m \in MatchCommands(chain), NEW r \in Edit(s, m)
    PROVE  r \in Section /\ WellFormed(r)
<1>1. CASE m \in [op: {"match add"}, chain: {chain}]
  BY <1>1 DEF Edit, AddMatch
<1>2. CASE m \in [op: {"match negate"}, chain: {chain}, index: Indexes, family: Families,
                  match: Indexes, negate: BOOLEAN]
  <2>1. /\ m.index \in Indexes /\ m.family \in Families /\ m.match \in Indexes
        /\ m.negate \in BOOLEAN
        /\ r \in NegateMatch(s, chain, m.index, m.family, m.match, m.negate)
    BY <1>2 DEF Edit
  <2> QED
    BY <2>1, NegateMatchKeeps
<1>3. CASE m \in [op: {"match remove"}, chain: {chain}, index: Indexes, family: Families,
                  match: Indexes]
  <2>1. /\ m.index \in Indexes /\ m.family \in Families /\ m.match \in Indexes
        /\ r \in RemoveMatch(s, chain, m.index, m.family, m.match)
    BY <1>3 DEF Edit
  <2> QED
    BY <2>1, RemoveMatchKeeps
<1>4. CASE m \in [op: {"match extend", "value add", "value remove"}, chain: {chain},
                  index: Indexes, family: Families, match: Indexes, field: Fields,
                  value: Values]
  <2>1. /\ m.index \in Indexes /\ m.family \in Families /\ m.match \in Indexes
        /\ m.field \in Fields /\ m.value \in Values
        /\ r \in ExtendMatch(s, chain, m.index, m.family, m.match, m.field, m.value)
                 \cup AddValue(s, chain, m.index, m.family, m.match, m.field, m.value)
                 \cup RemoveValue(s, chain, m.index, m.family, m.match, m.field, m.value)
    BY <1>4 DEF Edit
  <2> QED
    BY <2>1, ValuesKept
<1> QED
  BY <1>1, <1>2, <1>3, <1>4 DEF MatchCommands

(* No command brings a repetition into a section that has none: the lookups *)
(* of the handlers suffice.                                                 *)
LEMMA EditKeeps ==
    ASSUME NEW s \in Section, WellFormed(s), NEW m \in Commands, NEW r \in Edit(s, m)
    PROVE  r \in Section /\ WellFormed(r)
<1>1. CASE m \in SectionCommands
  BY <1>1, SectionCommandKeeps
<1>2. CASE m \in RuleCommands
  BY <1>2, RuleCommandKeeps
<1>3. CASE m \in InputMatchCommands \cup ForwardMatchCommands
  BY <1>3, MatchCommandKeeps DEF InputMatchCommands, ForwardMatchCommands, Chains
<1> QED
  BY <1>1, <1>2, <1>3 DEF Commands

-----------------------------------------------------------------------------
(* The sections. *)

Sound == {s \in Section : WellFormed(s)}

(* Nothing but a section without repetitions is ever staged, running, saved *)
(* or on its way back to the agent.  What a client sends was sound when it  *)
(* was edited, whatever it replaces when it arrives.                        *)
NamesInv ==
    /\ staged \in Sound /\ running \in Sound /\ saved \in Sound
    /\ task = [c \in Clients |-> task[c]]
    /\ \A c \in Clients : task[c] # Idle => task[c].edited \in Sound

LEMMA NamesInit == Init => NamesInv
<1>1. \A s \in InitSections : s \in Sound
  BY InitSectionsLoad, InitSectionsWellFormed DEF Sound
<1> QED
  BY <1>1 DEF Init, NamesInv

LEMMA NamesStep == NamesInv /\ [Next]_vars => NamesInv'
<1> SUFFICES ASSUME NamesInv, [Next]_vars PROVE NamesInv'
  OBVIOUS
<1> USE DEF NamesInv
<1>1. ASSUME NEW c \in Clients, NEW m \in Commands, Read(c, m) PROVE NamesInv'
  <2>1. PICK r \in Edit(staged, m) : task' = [task EXCEPT ![c] = [command |-> m, edited |-> r]]
    BY <1>1 DEF Read
  <2>2. r \in Sound
    BY EditKeeps DEF Sound
  <2>3. UNCHANGED <<staged, running, saved>>
    BY <1>1 DEF Read
  <2>4. \A d \in Clients : task'[d] # Idle => task'[d].edited \in Sound
    BY <2>1, <2>2
  <2> QED
    BY <2>1, <2>3, <2>4
<1>2. ASSUME NEW c \in Clients, Write(c) PROVE NamesInv'
  BY <1>2 DEF Write
<1>3. ASSUME NEW c \in Clients, GiveUp(c) PROVE NamesInv'
  BY <1>3 DEF GiveUp
<1>4. CASE Drop
  BY <1>4 DEF Drop
<1>5. CASE CommitApplied
  BY <1>5 DEF CommitApplied
<1>6. CASE CommitRolledBack
  BY <1>6 DEF CommitRolledBack
<1>7. CASE CommitSaved
  BY <1>7 DEF CommitSaved
<1>8. CASE Crash
  BY <1>8 DEF Crash
<1>9. CASE Stop
  BY <1>9 DEF Stop
<1>10. CASE Start
  BY <1>10 DEF Start
<1>11. CASE UNCHANGED vars
  BY <1>11 DEF vars
<1> QED
  BY <1>1, <1>2, <1>3, <1>4, <1>5, <1>6, <1>7, <1>8, <1>9, <1>10, <1>11 DEF Next

(* No zone, masqueraded interface, interface of a zone or zone of a rule is *)
(* ever listed twice, whatever commands the clients interleave: the check   *)
(* of a handler is made on a copy, and the copy is written back whole       *)
(* (the "netfilter config" handlers of cli.py and rpc_config_update).       *)
THEOREM NamesCorrect == Spec => []NamesUnique
<1>1. NamesInv => NamesUnique
  BY DEF NamesInv, NamesUnique, Sound
<1> QED
  BY NamesInit, NamesStep, <1>1, PTL DEF Spec
=============================================================================
