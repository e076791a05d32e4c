------------------------- MODULE InterfaceTreeProofs -------------------------
(***************************************************************************)
(* What holds of InterfaceTree for every finite set of interfaces, every   *)
(* set of configurations and every number of changes: that the interface   *)
(* list is true when the reports are handled, that what is configured up   *)
(* is up, that virtual interfaces are there when their trunk is, and that  *)
(* no link of the agent outlives its configuration.                        *)
(***************************************************************************)
EXTENDS InterfaceTree, Integers, FiniteSetTheorems, SequenceTheorems, WellFoundedInduction, TLAPS

-----------------------------------------------------------------------------
(* What the kernel has, and the reports on their way. *)

Nothing == {NoInterface}
Kernels == [link : [Interfaces -> Links \cup {NoLink}], created : [Interfaces -> Nat],
            queue : Seq(Events), ok : BOOLEAN]

(* A link has an index, is made on a physical one, and is the agent's only when
   it is not physical. *)
Sound(l, j) ==
    l # NoLink => /\ l.index # NoIndex
                  /\ l.base \in Physical \cup Nothing
                  /\ l.own => j \notin Physical

About(x, j) == x.op # "preinit" /\ x.name = j
Says(x, l) ==
    IF l = NoLink THEN x.op = "dellink"
    ELSE x.op = "newlink" /\ x.index = l.index /\ x.up = l.up

Silent(q, j) == \A n \in DOMAIN q : ~About(q[n], j)
Coming(q, j) == \E n \in DOMAIN q : q[n].op = "newlink" /\ q[n].name = j
LastSays(q, j, l) ==
    \A n \in DOMAIN q :
        About(q[n], j) /\ (\A m \in DOMAIN q : m > n => ~About(q[m], j)) => Says(q[n], l)

-----------------------------------------------------------------------------
(* The inductive invariant. *)

TypeOK ==
    /\ link \in [Interfaces -> Links \cup {NoLink}] /\ created \in [Interfaces -> Nat]
    /\ queue \in Seq(Events)
    /\ data \in Configurations /\ previous \in Configurations
    /\ entity \in [Interfaces -> Entities \cup {NoEntity}]
    /\ dependencies \in [Interfaces -> Seq(Interfaces)]
    /\ task \in {"idle", "commit", "rollback", "linkup", "linkdown"}
    /\ event \in Events \cup {NoEvent} /\ left \in Seq(Interfaces)
    /\ todo \in SUBSET Interfaces
    /\ changes \in 0..MaxChanges /\ taken \in SUBSET Interfaces
    /\ orphaned \in SUBSET Interfaces /\ stale \in SUBSET Interfaces
    /\ stuck \in SUBSET Interfaces /\ broken \in BOOLEAN

(* A handler of a report has its event, and the dependent interfaces it has yet
   to tell are known; only a commit or a rollback has interfaces to reach. *)
LoopInv ==
    /\ task \in {"linkup", "linkdown"} =>
          event \in Events /\ \A i \in Range(left) : entity[i] # NoEntity
    /\ \A j \in Interfaces : /\ IsInjective(dependencies[j])
                              /\ \A i \in Waiting(j) : entity[i] # NoEntity
    /\ ~Configuring => todo = {}

(* An entity is of its interface. *)
Fits(e, i) ==
    e # NoEntity => /\ i \in Physical => e.type = "ethernet"
                    /\ e.config # NoConfig =>
                          /\ e.config.base \in Physical \cup Nothing
                          /\ i # e.config.base

Wants(e) == e # NoEntity /\ e.config # NoConfig
Matches(e, c) == IF c = NoConfig THEN ~Wants(e) ELSE Wants(e) /\ e.config = c

(* What was reached has its configuration, unless a rollback failed; what is
   still to be reached by a commit has the one before. *)
SyncInv ==
    /\ task # "commit" => previous = data
    /\ \A i \in todo : Configured(i) \/ Wants(entity[i])
    /\ \A i \in Interfaces \ todo : Wants(entity[i]) => Configured(i)
    /\ ~broken => /\ \A i \in Interfaces \ todo : Matches(entity[i], data[i])
                  /\ task = "commit" => \A i \in todo : Matches(entity[i], previous[i])

ShapeInv ==
    /\ TypeOK /\ LoopInv /\ SyncInv
    /\ \A i \in Interfaces : Sound(link[i], i) /\ Fits(entity[i], i)

(* The last report of a link says what it is; when there is none, the entity
   does, or the removal was not handled to its end. *)
Agrees(e, l) ==
    IF l # NoLink THEN e # NoEntity /\ e.ifindex = l.index /\ e.up = l.up
    ELSE e # NoEntity => e.ifindex = NoIndex /\ ~e.up

Missed(i) == i \in stale \/ (task = "linkdown" /\ event.name = i)
Noted(q, i, l, e, missed) == Silent(q, i) => IF missed THEN l = NoLink ELSE Agrees(e, l)

ToldInv ==
    \A i \in Interfaces : /\ LastSays(queue, i, link[i])
                          /\ Noted(queue, i, link[i], entity[i], Missed(i))

(* What a rollback is about to apply again. *)
Due(i) == task = "rollback" /\ i \in todo /\ ~Matches(entity[i], data[i])

UpAt(q, i, l, e) ==
    Wants(e) /\ e.config.up /\ l # NoLink /\ Silent(q, i) => l.up

UpInv ==
    ~broken => \A i \in Interfaces \ stuck :
        ~Due(i) => UpAt(queue, i, link[i], entity[i])

(* A virtual interface that is not there will be told of its trunk. *)
Announced(q, i, b) ==
    Coming(q, b) \/ (task = "linkup" /\ event.name = b /\ i \in Range(left))

ThereInv ==
    ~broken => \A i \in Interfaces \ (stuck \cup taken) :
        /\ ~Due(i) /\ Wants(entity[i]) /\ entity[i].type # "ethernet" /\ ~Exists(i)
        => LET b == entity[i].config.base IN
           /\ b # NoInterface
           /\ Exists(b) /\ i \in Waiting(b) => Announced(queue, i, b)

(* A link of the agent is configured or orphaned; one that is taken for an
   Ethernet link is orphaned. *)
OwnInv ==
    \A i \in Interfaces \ orphaned :
        Exists(i) /\ link[i].own =>
            Wants(entity[i]) /\ entity[i].type # "ethernet"

IInv == ShapeInv /\ ToldInv /\ UpInv /\ ThereInv /\ OwnInv

-----------------------------------------------------------------------------
(* Numbers, sequences and orders of sets. *)

(* A set of numbers that is not empty has a least one. *)
LEMMA LeastIn ==
    ASSUME NEW T \in SUBSET Nat, T # {}
    PROVE  \E n \in T : \A m \in T : n <= m
<1> DEFINE R == OpToRel(<, Nat)
<1>1. IsWellFoundedOn(R, Nat)
  BY NatLessThanWellFounded
<1>2. \A m, n \in Nat : m < n => <<m, n>> \in R
  BY DEF OpToRel
<1> HIDE DEF R
<1>3. PICK n \in T : \A m \in T : ~(<<m, n>> \in R)
  BY <1>1, WFMin
<1>4. \A m \in T : ~(m < n) /\ m \in Nat /\ n \in Nat
  BY <1>2, <1>3
<1> QED
  BY <1>3, <1>4

LEMMA OrdersOf ==
    ASSUME NEW S \in SUBSET Interfaces, NEW order \in [1..Cardinality(S) -> S],
           IsInjective(order)
    PROVE  order \in Seq(S) /\ \A x \in S : \E n \in DOMAIN order : order[n] = x
<1> DEFINE D == 1..Cardinality(S)
<1>0. IsFiniteSet(S)
  BY FinitenessAssumption, FS_Subset
<1>1. Cardinality(S) \in Nat
  BY <1>0, FS_CardinalityType
<1>2. IsFiniteSet(D) /\ Cardinality(D) = Cardinality(S)
  BY <1>1, FS_Interval
<1>3. order \in Seq(S)
  BY <1>1
<1>4. order \in Injection(D, S)
  BY DEF Injection
<1> HIDE DEF D
<1>5. order \in Surjection(D, S)
  BY <1>0, <1>2, <1>4, FS_Injection
<1>6. DOMAIN order = D
  BY DEF D
<1> QED
  BY <1>3, <1>5, <1>6 DEF Surjection

LEMMA OrderOf ==
    ASSUME NEW S \in SUBSET Interfaces
    PROVE  /\ SetToSeq(S) \in Seq(S)
           /\ \A x \in S : \E n \in DOMAIN SetToSeq(S) : SetToSeq(S)[n] = x
<1> DEFINE D == 1..Cardinality(S)
<1>1. ExistsBijection(D, S)
  BY FinitenessAssumption, FS_Subset, FS_CardinalityType
<1>2. \E f \in [D -> S] : IsInjective(f)
  BY <1>1 DEF ExistsBijection, Bijection, Injection
<1>3. SetToSeq(S) \in [D -> S] /\ IsInjective(SetToSeq(S))
  BY <1>2 DEF SetToSeq
<1> QED
  BY <1>3, OrdersOf

-----------------------------------------------------------------------------
(* Reports that are put behind others, and the first that is taken away. *)

LEMMA LastThere ==
    ASSUME NEW q \in Seq(Events), NEW j, ~Silent(q, j)
    PROVE  \E n \in DOMAIN q : /\ About(q[n], j)
                               /\ \A m \in DOMAIN q : m > n => ~About(q[m], j)
<1> DEFINE T == {k \in Nat : Len(q) - k \in DOMAIN q /\ About(q[Len(q) - k], j)}
<1>1. PICK n \in DOMAIN q : About(q[n], j)
  BY DEF Silent
<1>2. /\ n \in Nat /\ Len(q) \in Nat /\ n <= Len(q) /\ DOMAIN q = 1..Len(q)
  OBVIOUS
<1>3. Len(q) - n \in T
  <2>1. Len(q) - n \in Nat /\ Len(q) - (Len(q) - n) = n
    BY <1>2
  <2> QED
    BY <1>1, <2>1
<1>4. PICK k \in T : \A m \in T : k <= m
  BY <1>3, LeastIn
<1>5. k \in Nat /\ Len(q) - k \in DOMAIN q /\ About(q[Len(q) - k], j)
  OBVIOUS
<1>6. ASSUME NEW m \in DOMAIN q, m > Len(q) - k
      PROVE  ~About(q[m], j)
  <2>1. Len(q) - m \in Nat /\ Len(q) - (Len(q) - m) = m /\ Len(q) - m < k
    BY <1>2, <1>5, <1>6
  <2>2. Len(q) - m \notin T
    BY <1>2, <1>4, <1>5, <2>1
  <2> QED
    BY <2>1, <2>2
<1> QED
  BY <1>5, <1>6

LEMMA JoinedSays ==
    ASSUME NEW q \in Seq(Events), NEW s \in Seq(Events), NEW j
    PROVE  /\ q \o s \in Seq(Events)
           /\ Silent(q \o s, j) <=> Silent(q, j) /\ Silent(s, j)
           /\ Coming(q \o s, j) <=> Coming(q, j) \/ Coming(s, j)
           /\ \A l : Silent(s, j) /\ LastSays(q, j, l) => LastSays(q \o s, j, l)
           /\ \A l : ~Silent(s, j) /\ LastSays(s, j, l) => LastSays(q \o s, j, l)
<1> DEFINE r == q \o s
           a == Len(q)
<1>1. r \in Seq(Events) /\ a \in Nat
  OBVIOUS
<1>2. \A n \in DOMAIN q : n \in DOMAIN r /\ r[n] = q[n] /\ n \in Nat /\ n <= a
  OBVIOUS
<1>3. \A n \in DOMAIN s : a + n \in DOMAIN r /\ r[a + n] = s[n] /\ n \in Nat /\ n >= 1
  OBVIOUS
<1>4. \A n \in DOMAIN r : \/ n \in DOMAIN q
                          \/ n - a \in DOMAIN s /\ a + (n - a) = n
  OBVIOUS
<1> HIDE DEF r, a
<1>5. Silent(r, j) <=> Silent(q, j) /\ Silent(s, j)
  <2>1. ASSUME Silent(r, j)
        PROVE  Silent(q, j) /\ Silent(s, j)
    BY <1>2, <1>3, <2>1 DEF Silent
  <2>2. ASSUME Silent(q, j), Silent(s, j), NEW n \in DOMAIN r
        PROVE  ~About(r[n], j)
    BY <1>2, <1>3, <1>4, <2>2 DEF Silent
  <2> QED
    BY <2>1, <2>2 DEF Silent
<1>6. Coming(r, j) <=> Coming(q, j) \/ Coming(s, j)
  <2>1. ASSUME NEW n \in DOMAIN r, r[n].op = "newlink" /\ r[n].name = j
        PROVE  Coming(q, j) \/ Coming(s, j)
    BY <1>2, <1>3, <1>4, <2>1 DEF Coming
  <2>2. Coming(q, j) \/ Coming(s, j) => Coming(r, j)
    BY <1>2, <1>3 DEF Coming
  <2> QED
    BY <2>1, <2>2 DEF Coming
<1>7. ASSUME NEW l, Silent(s, j), LastSays(q, j, l)
      PROVE  LastSays(r, j, l)
  <2> SUFFICES ASSUME NEW n \in DOMAIN r, About(r[n], j),
                      \A m \in DOMAIN r : m > n => ~About(r[m], j)
               PROVE  Says(r[n], l)
    BY DEF LastSays
  <2>1. n \in DOMAIN q
    BY <1>3, <1>4, <1>7 DEF Silent
  <2>2. \A m \in DOMAIN q : m > n => ~About(q[m], j)
    BY <1>2
  <2> QED
    BY <1>2, <1>7, <2>1, <2>2 DEF LastSays
<1>8. ASSUME NEW l, ~Silent(s, j), LastSays(s, j, l)
      PROVE  LastSays(r, j, l)
  <2> SUFFICES ASSUME NEW n \in DOMAIN r, About(r[n], j),
                      \A m \in DOMAIN r : m > n => ~About(r[m], j)
               PROVE  Says(r[n], l)
    BY DEF LastSays
  <2>1. PICK k \in DOMAIN s : About(s[k], j)
    BY <1>8 DEF Silent
  <2>2. a + k \in DOMAIN r /\ About(r[a + k], j) /\ k \in Nat /\ k >= 1
    BY <1>3, <2>1
  <2>3. ~(a + k > n)
    BY <2>2
  <2>4. n \notin DOMAIN q
    BY <1>1, <1>2, <2>2, <2>3
  <2>5. n - a \in DOMAIN s /\ a + (n - a) = n /\ r[n] = s[n - a] /\ n - a \in Nat
    BY <1>3, <1>4, <2>4
  <2>6. ASSUME NEW m \in DOMAIN s, m > n - a
        PROVE  ~About(s[m], j)
    <3>1. a + m \in DOMAIN r /\ r[a + m] = s[m] /\ m \in Nat
      BY <1>3
    <3>2. n \in Nat
      BY <1>1, <2>5
    <3>3. a + m > n
      BY <1>1, <2>5, <2>6, <3>1, <3>2
    <3> QED
      BY <3>1, <3>3
  <2> QED
    BY <1>8, <2>5, <2>6 DEF LastSays
<1> QED
  BY <1>1, <1>5, <1>6, <1>7, <1>8 DEF r

LEMMA OneSays ==
    ASSUME NEW x \in Events, NEW j
    PROVE  /\ <<x>> \in Seq(Events)
           /\ Silent(<<x>>, j) <=> ~About(x, j)
           /\ Coming(<<x>>, j) <=> x.op = "newlink" /\ x.name = j
           /\ \A l : Says(x, l) => LastSays(<<x>>, j, l)
<1>1. DOMAIN <<x>> = {1} /\ <<x>>[1] = x
  OBVIOUS
<1> QED
  BY <1>1 DEF Silent, Coming, LastSays

LEMMA TakenSays ==
    ASSUME NEW q \in Seq(Events), q # <<>>, NEW j
    PROVE  /\ Tail(q) \in Seq(Events) /\ Head(q) \in Events
           /\ Silent(Tail(q), j) /\ ~About(Head(q), j) => Silent(q, j)
           /\ Coming(q, j) => \/ Coming(Tail(q), j)
                              \/ Head(q).op = "newlink" /\ Head(q).name = j
           /\ \A l : LastSays(q, j, l) => LastSays(Tail(q), j, l)
           /\ \A l : LastSays(q, j, l) /\ Silent(Tail(q), j) /\ About(Head(q), j)
                         => Says(Head(q), l)
<1> DEFINE r == Tail(q)
<1>1. /\ r \in Seq(Events) /\ Len(r) = Len(q) - 1 /\ Len(q) \in Nat /\ Len(q) >= 1
      /\ \A k \in DOMAIN r : r[k] = q[k + 1]
      /\ Head(q) = q[1] /\ Head(q) \in Events
  OBVIOUS
<1> HIDE DEF r
<1>2. \A k \in DOMAIN r : k + 1 \in DOMAIN q /\ r[k] = q[k + 1]
  BY <1>1
<1>3. \A k \in DOMAIN q : k # 1 => k - 1 \in DOMAIN r /\ r[k - 1] = q[k]
  BY <1>1
<1>4. 1 \in DOMAIN q
  BY <1>1
<1>5. ASSUME NEW l, LastSays(q, j, l)
      PROVE  LastSays(r, j, l)
  <2> SUFFICES ASSUME NEW i \in DOMAIN r, About(r[i], j),
                      \A m \in DOMAIN r : m > i => ~About(r[m], j)
               PROVE  Says(r[i], l)
    BY DEF LastSays
  <2>1. i + 1 \in DOMAIN q /\ About(q[i + 1], j)
    BY <1>2
  <2>2. ASSUME NEW m \in DOMAIN q, m > i + 1
        PROVE  ~About(q[m], j)
    <3>1. i \in Nat /\ m \in Nat /\ i >= 1
      BY <1>1
    <3>2. m # 1 /\ m - 1 > i
      BY <2>2, <3>1
    <3> QED
      BY <1>3, <3>2
  <2>3. Says(q[i + 1], l)
    BY <1>5, <2>1, <2>2 DEF LastSays
  <2> QED
    BY <1>2, <2>3
<1>6. ASSUME Silent(r, j), ~About(q[1], j)
      PROVE  Silent(q, j)
  BY <1>3, <1>6 DEF Silent
<1>7. ASSUME NEW l, Silent(r, j), About(q[1], j), LastSays(q, j, l)
      PROVE  Says(q[1], l)
  <2>1. \A m \in DOMAIN q : m > 1 => ~About(q[m], j)
    BY <1>3, <1>7 DEF Silent
  <2> QED
    BY <1>4, <1>7, <2>1 DEF LastSays
<1>8. Coming(q, j) => Coming(r, j) \/ (q[1].op = "newlink" /\ q[1].name = j)
  BY <1>3 DEF Coming
<1> QED
  BY <1>1, <1>5, <1>6, <1>7, <1>8 DEF r

-----------------------------------------------------------------------------
(* One state of the kernel and a later one. *)

SameFace(l, m) == (l = NoLink <=> m = NoLink)
                  /\ (l # NoLink => m.index = l.index /\ m.up = l.up)
SameLink(l, m) == m.index = l.index /\ m.own = l.own /\ m.base = l.base

(* What the reports in between tell of a link. *)
ToldAt(k, after, j) ==
    /\ LastSays(k.queue, j, k.link[j]) => LastSays(after.queue, j, after.link[j])
    /\ Silent(after.queue, j) => Silent(k.queue, j) /\ SameFace(k.link[j], after.link[j])
    /\ Coming(k.queue, j) => Coming(after.queue, j)

IsSound(k) == k \in Kernels /\ \A j \in Interfaces : Sound(k.link[j], j)
Leads(k, after) == IsSound(after) /\ \A j \in Interfaces : ToldAt(k, after, j)

Kept(k, after) ==
    \A j \in Interfaces : /\ There(k, j) <=> There(after, j)
                          /\ There(k, j) => SameLink(k.link[j], after.link[j])

(* Only i is new, and is reported. *)
Grown(k, after, i) ==
    \A j \in Interfaces :
        /\ There(k, j) => There(after, j) /\ SameLink(k.link[j], after.link[j])
        /\ There(after, j) /\ ~There(k, j) => j = i /\ Coming(after.queue, j)

LEMMA KernelShape ==
    ASSUME NEW k \in Kernels
    PROVE  /\ k.link \in [Interfaces -> Links \cup {NoLink}]
           /\ k.created \in [Interfaces -> Nat] /\ k.queue \in Seq(Events)
           /\ k.ok \in BOOLEAN
  BY DEF Kernels

LEMMA LinkShape ==
    ASSUME NEW l \in Links
    PROVE  /\ l.index \in Nat /\ l.up \in BOOLEAN /\ l.own \in BOOLEAN
           /\ l.master \in Interfaces \cup Nothing /\ l.base \in Interfaces \cup Nothing
           /\ l # NoLink
  BY SentinelsAssumption DEF Links, Nothing

LEMMA LeadsItself ==
    ASSUME NEW k, IsSound(k)
    PROVE  Leads(k, k) /\ Kept(k, k)
  BY DEF Leads, Kept, ToldAt, SameFace, SameLink

LEMMA KeptGrown ==
    ASSUME NEW k, NEW a, NEW i, Kept(k, a)
    PROVE  Grown(k, a, i)
  BY DEF Kept, Grown

LEMMA LeadsOn ==
    ASSUME NEW k, NEW a, NEW b, Leads(k, a), Leads(a, b)
    PROVE  Leads(k, b)
<1>1. ASSUME NEW j \in Interfaces
      PROVE  ToldAt(k, b, j)
  BY DEF Leads, ToldAt, SameFace
<1> QED
  BY <1>1 DEF Leads

LEMMA KeptOn ==
    ASSUME NEW k, NEW a, NEW b, Kept(k, a), Kept(a, b)
    PROVE  Kept(k, b)
  BY DEF Kept, SameLink

LEMMA GrownOn ==
    ASSUME NEW k, NEW a, NEW b, NEW i, Grown(k, a, i), Kept(a, b), Leads(a, b)
    PROVE  Grown(k, b, i)
  BY DEF Grown, Kept, SameLink, Leads, ToldAt

(* What was put behind the reports speaks of the link as it is now, or not at
   all when it looks the same. *)
LEMMA SaidAt ==
    ASSUME NEW k \in Kernels, NEW a \in Kernels, NEW s \in Seq(Events), NEW j \in Interfaces,
           a.queue = k.queue \o s,
           Silent(s, j) => SameFace(k.link[j], a.link[j]),
           ~Silent(s, j) => LastSays(s, j, a.link[j])
    PROVE  ToldAt(k, a, j)
<1>0. k.queue \in Seq(Events)
  BY KernelShape
<1>1. /\ Silent(a.queue, j) <=> Silent(k.queue, j) /\ Silent(s, j)
      /\ Coming(a.queue, j) <=> Coming(k.queue, j) \/ Coming(s, j)
      /\ \A l : Silent(s, j) /\ LastSays(k.queue, j, l) => LastSays(a.queue, j, l)
      /\ \A l : ~Silent(s, j) /\ LastSays(s, j, l) => LastSays(a.queue, j, l)
  BY <1>0, JoinedSays
<1>2. SameFace(k.link[j], a.link[j]) /\ LastSays(k.queue, j, k.link[j])
         => LastSays(k.queue, j, a.link[j])
  BY DEF SameFace, LastSays, Says
<1> QED
  BY <1>1, <1>2 DEF ToldAt

(* Reports of each of some links. *)
LEMMA ReportsSay ==
    ASSUME NEW S \in SUBSET Interfaces, NEW order \in Seq(S), NEW l,
           \A j \in S : \E n \in DOMAIN order : order[n] = j,
           NEW s, s \in Seq(Events), DOMAIN s = DOMAIN order,
           \A n \in DOMAIN order : /\ s[n].name = order[n] /\ s[n].op # "preinit"
                                   /\ Says(s[n], l[order[n]])
    PROVE  \A j \in Interfaces : /\ Silent(s, j) <=> j \notin S
                                 /\ LastSays(s, j, l[j])
<1>1. \A n \in DOMAIN order : order[n] \in S
  OBVIOUS
<1> QED
  BY <1>1 DEF Silent, LastSays, About

LEMMA EventShape ==
    ASSUME NEW i \in Interfaces, NEW l \in Links
    PROVE  /\ NewLink(i, l) \in Events /\ About(NewLink(i, l), i) /\ NewLink(i, l).name = i
           /\ NewLink(i, l).op = "newlink" /\ Says(NewLink(i, l), l)
           /\ DelLink(i, l) \in Events /\ About(DelLink(i, l), i) /\ DelLink(i, l).name = i
           /\ DelLink(i, l).op = "dellink" /\ Says(DelLink(i, l), NoLink)
           /\ Preinit(i) \in Events /\ Preinit(i).op = "preinit" /\ Preinit(i).name = i
  BY LinkShape DEF NewLink, DelLink, Preinit, Events, About, Says, NoIndex

-----------------------------------------------------------------------------
(* What the kernel does. *)

(* a is k with new links in place of those of a set. *)
Relinked(k, a, set, new) ==
    /\ Leads(k, a) /\ Kept(k, a) /\ a.ok = k.ok
    /\ \A j \in Interfaces : a.link[j] = IF j \in set THEN new[j] ELSE k.link[j]

Renewable(k, set, new) ==
    \A j \in set : There(k, j) /\ new[j] \in Links /\ SameLink(k.link[j], new[j])

LEMMA ChangedLeads ==
    ASSUME NEW k, IsSound(k), NEW set \in SUBSET Interfaces, NEW new,
           Renewable(k, set, new)
    PROVE  Relinked(k, Changed(k, new, set), set, new)
<1> DEFINE S == {j \in set : new[j] # k.link[j]}
           order == SetToSeq(S)
           s == [n \in DOMAIN order |-> NewLink(order[n], new[order[n]])]
           a == Changed(k, new, set)
<1>0. k \in Kernels
  BY DEF IsSound
<1>1. S \in SUBSET Interfaces
  OBVIOUS
<1>2. order \in Seq(S) /\ \A x \in S : \E n \in DOMAIN order : order[n] = x
  BY <1>1, OrderOf
<1>3. \A n \in DOMAIN order : order[n] \in S
  <2> HIDE DEF order, S
  <2> QED
    BY <1>2
<1>4. /\ a = [k EXCEPT !.link = [j \in Interfaces |-> IF j \in set THEN new[j] ELSE k.link[j]],
                       !.queue = k.queue \o s]
  BY <1>0 DEF Changed
<1>5. s \in Seq(Events)
  <2>1. \A n \in DOMAIN order : NewLink(order[n], new[order[n]]) \in Events
    BY <1>3, EventShape DEF Renewable
  <2>2. DOMAIN order = 1..Len(order) /\ Len(order) \in Nat
    BY <1>2
  <2> HIDE DEF order
  <2> QED
    BY <2>1, <2>2
<1>6. \A n \in DOMAIN order : /\ s[n].name = order[n] /\ s[n].op # "preinit"
                              /\ Says(s[n], new[order[n]])
  BY <1>3, EventShape DEF Renewable
<1>7. DOMAIN s = DOMAIN order
  OBVIOUS
<1>8. \A j \in S : j \in set /\ j \in Interfaces
  OBVIOUS
<1>9. \A j \in set \ S : new[j] = k.link[j]
  OBVIOUS
<1> HIDE DEF S, order, s, a
<1>10. \A j \in Interfaces : /\ Silent(s, j) <=> j \notin S
                             /\ LastSays(s, j, new[j])
  BY <1>1, <1>2, <1>5, <1>6, <1>7, ReportsSay
<1>11. /\ k.queue \o s \in Seq(Events)
       /\ k.link \in [Interfaces -> Links \cup {NoLink}]
  <2>1. k.queue \in Seq(Events) /\ k.link \in [Interfaces -> Links \cup {NoLink}]
    BY <1>0, KernelShape
  <2> QED
    BY <1>5, <2>1
<1>12. /\ a \in Kernels /\ a.queue = k.queue \o s /\ a.ok = k.ok
       /\ \A j \in Interfaces : a.link[j] = IF j \in set THEN new[j] ELSE k.link[j]
  BY <1>0, <1>4, <1>11 DEF Kernels, Renewable
<1>13. ASSUME NEW j \in Interfaces
       PROVE  ToldAt(k, a, j)
  <2>1. Silent(s, j) => a.link[j] = k.link[j]
    BY <1>9, <1>10, <1>12
  <2>2. ~Silent(s, j) => LastSays(s, j, a.link[j])
    BY <1>8, <1>10, <1>12
  <2>3. Silent(s, j) => SameFace(k.link[j], a.link[j])
    BY <2>1 DEF SameFace
  <2> QED
    BY <1>0, <1>5, <1>12, <2>2, <2>3, SaidAt
<1>14. Kept(k, a)
  BY <1>12, LinkShape DEF Kept, There, SameLink, Renewable
<1>15. IsSound(a)
  BY <1>12, LinkShape DEF IsSound, Sound, SameLink, There, Renewable
<1> QED
  BY <1>12, <1>13, <1>14, <1>15 DEF Leads, Relinked, a

LEMMA SwitchedLeads ==
    ASSUME NEW k, IsSound(k), NEW i \in Interfaces, There(k, i), NEW up \in BOOLEAN
    PROVE  LET a == Switched(k, i, up) IN
           /\ Leads(k, a) /\ Kept(k, a) /\ a.ok = k.ok
           /\ There(a, i) /\ a.link[i].up = up
<1> DEFINE vlans == On(k, i)
           new == [j \in Interfaces |-> IF j \in vlans \cup {i} THEN [k.link[j] EXCEPT !.up = up]
                                        ELSE k.link[j]]
           b == Changed(k, new, {i})
           a == Changed(b, new, vlans)
<1>0. a = Switched(k, i, up)
  BY DEF Switched
<1>1. k.link \in [Interfaces -> Links \cup {NoLink}]
  BY KernelShape DEF IsSound
<1>2. vlans \in SUBSET Interfaces /\ \A j \in vlans : There(k, j)
  BY DEF On
<1>3. ASSUME NEW j \in vlans \cup {i}
      PROVE  /\ new[j] \in Links /\ SameLink(k.link[j], new[j]) /\ new[j].up = up
  <2>1. k.link[j] \in Links /\ j \in Interfaces
    BY <1>1, <1>2 DEF There
  <2>2. new[j] = [k.link[j] EXCEPT !.up = up]
    BY <2>1
  <2> HIDE DEF new, vlans
  <2> QED
    BY <2>1, <2>2 DEF Links, SameLink
<1> HIDE DEF new, vlans
<1>4. /\ Leads(k, b) /\ Kept(k, b) /\ b.ok = k.ok
      /\ \A j \in Interfaces : b.link[j] = IF j \in {i} THEN new[j] ELSE k.link[j]
  <2>1. Renewable(k, {i}, new) /\ {i} \in SUBSET Interfaces
    BY <1>3 DEF Renewable
  <2>2. Relinked(k, b, {i}, new)
    BY <2>1, ChangedLeads
  <2> QED
    BY <2>2 DEF Relinked
<1> HIDE DEF b
<1>6. /\ Leads(b, a) /\ Kept(b, a) /\ a.ok = b.ok
      /\ \A j \in Interfaces : a.link[j] = IF j \in vlans THEN new[j] ELSE b.link[j]
  <2>1. Renewable(b, vlans, new)
    BY <1>2, <1>3, <1>4 DEF Kept, SameLink, Renewable
  <2>2. IsSound(b)
    BY <1>4 DEF Leads
  <2>3. Relinked(b, a, vlans, new)
    BY <1>2, <2>1, <2>2, ChangedLeads
  <2> QED
    BY <2>3 DEF Relinked
<1> HIDE DEF a
<1>7. a.link[i] = new[i]
  BY <1>4, <1>6
<1>8. Leads(k, a) /\ Kept(k, a)
  BY <1>4, <1>6, LeadsOn, KeptOn
<1>9. There(a, i) /\ a.link[i].up = up
  BY <1>3, <1>7, LinkShape DEF There
<1> QED
  BY <1>0, <1>4, <1>6, <1>8, <1>9

LEMMA AddedLeads ==
    ASSUME NEW k, IsSound(k), NEW i \in Interfaces, ~There(k, i),
           NEW base \in Physical \cup Nothing, NEW own \in BOOLEAN, own => i \notin Physical
    PROVE  LET a == Added(k, i, base, own) IN
           /\ Leads(k, a) /\ Grown(k, a, i) /\ a.ok = k.ok
           /\ There(a, i) /\ a.link[i].own = own
<1> DEFINE new == [index |-> k.created[i] + 1, up |-> FALSE, own |-> own,
                   master |-> NoInterface, base |-> base]
           a == Added(k, i, base, own)
           s == <<NewLink(i, new)>>
<1>0. k \in Kernels
  BY DEF IsSound
<1>1. /\ k.link \in [Interfaces -> Links \cup {NoLink}]
      /\ k.created \in [Interfaces -> Nat] /\ k.queue \in Seq(Events)
  BY <1>0, KernelShape
<1>2. k.created[i] + 1 \in Nat /\ k.created[i] + 1 # 0
  BY <1>1
<1>3. base \in Interfaces \cup {NoInterface}
  BY ConfigurationsAssumption DEF Nothing
<1>4. /\ new \in Links /\ new.own = own /\ Sound(new, i)
  BY <1>2, <1>3 DEF Links, Sound, NoIndex
<1>5. a = [k EXCEPT !.link[i] = new, !.created[i] = k.created[i] + 1,
                    !.queue = Append(k.queue, NewLink(i, new))]
  BY <1>0 DEF Added, Kernels
<1> HIDE DEF new, a
<1>6. NewLink(i, new) \in Events
  BY <1>4, EventShape
<1>7. Append(k.queue, NewLink(i, new)) = k.queue \o s /\ k.queue \o s \in Seq(Events)
  BY <1>1, <1>6, SMTT(20)
<1> HIDE DEF s
<1>8. /\ a \in Kernels /\ a.queue = k.queue \o s /\ a.ok = k.ok
      /\ \A j \in Interfaces : a.link[j] = IF j = i THEN new ELSE k.link[j]
  BY <1>0, <1>1, <1>2, <1>4, <1>5, <1>7 DEF Kernels
<1>9. new # NoLink
  BY <1>4, LinkShape
<1>10. ASSUME NEW j \in Interfaces
       PROVE  ToldAt(k, a, j)
  <2>1. /\ s \in Seq(Events)
        /\ Silent(s, j) <=> j # i
        /\ LastSays(s, j, new)
    <3>1. /\ NewLink(i, new).op = "newlink" /\ NewLink(i, new).name = i
          /\ Says(NewLink(i, new), new)
      BY <1>4, EventShape
    <3>2. About(NewLink(i, new), j) <=> j = i
      BY <3>1 DEF About
    <3> QED
      BY <1>6, <3>1, <3>2, OneSays DEF s
  <2>2. Silent(s, j) => SameFace(k.link[j], a.link[j])
    BY <1>8, <2>1 DEF SameFace
  <2>3. ~Silent(s, j) => LastSays(s, j, a.link[j])
    BY <1>8, <2>1
  <2> QED
    BY <1>0, <1>8, <2>1, <2>2, <2>3, SaidAt
<1>11. Coming(a.queue, i)
  <2>1. s \in Seq(Events) /\ Coming(s, i)
    BY <1>4, <1>6, EventShape, OneSays DEF s
  <2> QED
    BY <1>1, <1>8, <2>1, JoinedSays
<1>12. Grown(k, a, i)
  BY <1>8, <1>11 DEF Grown, There, SameLink
<1>13. IsSound(a)
  BY <1>4, <1>8 DEF IsSound
<1>14. There(a, i) /\ a.link[i].own = own
  BY <1>4, <1>8, <1>9 DEF There
<1> QED
  BY <1>8, <1>10, <1>12, <1>13, <1>14 DEF Leads, a

(* A link that goes takes those made on it along; the others stay. *)
Cut(k, a, i) ==
    \A j \in Interfaces :
        /\ There(a, j) <=> There(k, j) /\ j # i /\ k.link[j].base # i
        /\ There(a, j) => SameLink(k.link[j], a.link[j])

LEMMA ToldOn ==
    ASSUME NEW k, NEW a, NEW b, NEW j, ToldAt(k, a, j), ToldAt(a, b, j)
    PROVE  ToldAt(k, b, j)
  BY DEF ToldAt, SameFace

LEMMA DeletedLeads ==
    ASSUME NEW k, IsSound(k), NEW i \in Interfaces, There(k, i)
    PROVE  /\ Leads(k, Deleted(k, i)) /\ Cut(k, Deleted(k, i), i)
           /\ Deleted(k, i).ok = k.ok
<1> DEFINE gone == On(k, i)
           ports == {j \in Interfaces : There(k, j) /\ k.link[j].master \in gone \cup {i}}
           order == SetToSeq(gone)
           new == [j \in Interfaces |-> IF j \in gone \cup {i} THEN NoLink
                                        ELSE IF j \notin ports THEN k.link[j]
                                        ELSE [k.link[j] EXCEPT !.master = NoInterface]]
           s == [n \in DOMAIN order |-> DelLink(order[n], k.link[order[n]])]
           set == ports \ (gone \cup {i})
           first == [k EXCEPT !.queue = k.queue \o s]
           cut == [first EXCEPT !.link = [j \in Interfaces |-> IF j \in gone THEN NoLink
                                                               ELSE k.link[j]]]
           last == DelLink(i, k.link[i])
           a == Deleted(k, i)
<1>0. /\ k \in Kernels /\ k.link \in [Interfaces -> Links \cup {NoLink}]
      /\ k.queue \in Seq(Events)
  BY KernelShape DEF IsSound
<1>1. /\ gone \in SUBSET Interfaces /\ set \in SUBSET Interfaces
      /\ \A j \in Interfaces : j \in gone <=> There(k, j) /\ k.link[j].base = i
      /\ \A j \in set : j \notin gone /\ j # i /\ There(k, j)
  BY DEF On
<1>2. \A j \in Interfaces : There(k, j) => k.link[j] \in Links
  BY <1>0 DEF There
<1>3. \A j \in Interfaces : /\ j \in gone \cup {i} => new[j] = NoLink
                            /\ j \notin gone \cup {i} /\ j \notin set => new[j] = k.link[j]
  OBVIOUS
<1>4. ASSUME NEW j \in set
      PROVE  new[j] \in Links /\ SameLink(k.link[j], new[j])
  <2>1. new[j] = [k.link[j] EXCEPT !.master = NoInterface] /\ k.link[j] \in Links
    BY <1>1, <1>2
  <2> HIDE DEF new, set
  <2> QED
    BY <2>1 DEF Links, SameLink
<1>5. /\ order \in Seq(gone)
      /\ \A j \in gone : \E n \in DOMAIN order : order[n] = j
  BY <1>1, OrderOf
<1>6. /\ \A n \in DOMAIN order : order[n] \in gone
      /\ DOMAIN order = 1..Len(order) /\ Len(order) \in Nat
  <2> HIDE DEF order, gone
  <2> QED
    BY <1>5
<1>7. ASSUME NEW n \in DOMAIN order
      PROVE  /\ s[n] \in Events /\ s[n].name = order[n] /\ s[n].op # "preinit"
             /\ Says(s[n], NoLink)
  <2>1. order[n] \in Interfaces /\ k.link[order[n]] \in Links
    BY <1>1, <1>2, <1>6
  <2>2. s[n] = DelLink(order[n], k.link[order[n]])
    OBVIOUS
  <2> HIDE DEF order, s
  <2> QED
    BY <2>1, <2>2, EventShape
<1>8. s \in Seq(Events) /\ DOMAIN s = DOMAIN order
  <2>1. s = [n \in 1..Len(order) |-> s[n]]
    BY <1>6
  <2> HIDE DEF s, order
  <2> QED
    BY <1>6, <1>7, <2>1
<1>9. a = LET released == Changed(first, new, set) IN
          [released EXCEPT !.link = new, !.queue = Append(released.queue, last)]
  BY DEF Deleted
<1>10. /\ Changed(first, new, set).queue = Changed(cut, new, set).queue
       /\ Changed(first, new, set).created = Changed(cut, new, set).created
       /\ Changed(first, new, set).ok = Changed(cut, new, set).ok
  <2>1. /\ first.queue = cut.queue /\ first.created = cut.created /\ first.ok = cut.ok
    BY <1>0 DEF Kernels
  <2>2. \A j \in set : first.link[j] = cut.link[j]
    BY <1>0, <1>1 DEF Kernels
  <2>3. {j \in set : new[j] # first.link[j]} = {j \in set : new[j] # cut.link[j]}
    BY <2>2
  <2>4. DOMAIN first = {"link", "created", "queue", "ok"} /\ DOMAIN cut = DOMAIN first
    BY <1>0 DEF Kernels
  <2> HIDE DEF first, cut, new, set
  <2> QED
    BY <2>1, <2>3, <2>4 DEF Changed
<1>11. /\ cut \in Kernels /\ cut.queue = k.queue \o s /\ cut.ok = k.ok
       /\ \A j \in Interfaces : cut.link[j] = IF j \in gone THEN NoLink ELSE k.link[j]
  <2>1. k.queue \o s \in Seq(Events)
    BY <1>0, <1>8
  <2> HIDE DEF s, gone
  <2> QED
    BY <1>0, <2>1 DEF Kernels
<1>12. last \in Events /\ About(last, i) /\ last.name = i /\ Says(last, NoLink)
  BY <1>2, EventShape
<1> HIDE DEF gone, ports, order, new, s, set, first, cut, last, a
<1>13. ASSUME NEW j \in Interfaces
       PROVE  /\ Silent(s, j) <=> j \notin gone
              /\ LastSays(s, j, NoLink)
  <2> DEFINE l == [x \in Interfaces |-> NoLink]
  <2>1. \A n \in DOMAIN order : /\ s[n].name = order[n] /\ s[n].op # "preinit"
                                /\ Says(s[n], l[order[n]])
    BY <1>1, <1>6, <1>7
  <2>2. l[j] = NoLink
    OBVIOUS
  <2> HIDE DEF l
  <2>3. /\ Silent(s, j) <=> j \notin gone
        /\ LastSays(s, j, l[j])
    BY <1>1, <1>5, <1>8, <2>1, ReportsSay
  <2> QED
    BY <2>2, <2>3
<1>14. ASSUME NEW j \in Interfaces
       PROVE  ToldAt(k, cut, j)
  <2>1. Silent(s, j) => SameFace(k.link[j], cut.link[j])
    BY <1>11, <1>13 DEF SameFace
  <2>2. ~Silent(s, j) => LastSays(s, j, cut.link[j])
    BY <1>11, <1>13
  <2> QED
    BY <1>0, <1>8, <1>11, <2>1, <2>2, SaidAt
<1>15. IsSound(cut)
  BY <1>11 DEF IsSound, Sound
<1> DEFINE b == Changed(cut, new, set)
<1>16. Relinked(cut, b, set, new)
  <2>1. Renewable(cut, set, new)
    BY <1>1, <1>4, <1>11 DEF Renewable, There, SameLink
  <2> QED
    BY <1>1, <1>15, <2>1, ChangedLeads
<1>17. /\ b \in Kernels /\ b.ok = k.ok /\ \A j \in Interfaces : ToldAt(cut, b, j)
       /\ \A j \in Interfaces : b.link[j] = IF j \in set THEN new[j] ELSE cut.link[j]
  BY <1>11, <1>16 DEF Relinked, Leads, IsSound
<1>18. \A j \in Interfaces : new[j] = IF j = i THEN NoLink ELSE b.link[j]
  BY <1>3, <1>11, <1>17
<1>19. new \in [Interfaces -> Links \cup {NoLink}]
  <2>1. \A j \in Interfaces : new[j] \in Links \cup {NoLink}
    BY <1>0, <1>3, <1>4
  <2>2. new = [j \in Interfaces |-> new[j]]
    BY DEF new
  <2> QED
    BY <2>1, <2>2
<1>20. /\ a \in Kernels /\ a.link = new /\ a.ok = k.ok
       /\ a.queue = b.queue \o <<last>>
  <2>1. /\ Changed(first, new, set).queue = b.queue
        /\ Changed(first, new, set).created = b.created
        /\ Changed(first, new, set).ok = b.ok
    BY <1>10
  <2>2. b.queue \in Seq(Events) /\ b.ok \in BOOLEAN
    BY <1>17, KernelShape
  <2>3. Append(b.queue, last) = b.queue \o <<last>> /\ b.queue \o <<last>> \in Seq(Events)
    <3> HIDE DEF b
    <3> QED
      BY <1>12, <2>2
  <2> DEFINE r == Changed(first, new, set)
             links == [j \in Interfaces |-> IF j \in set THEN new[j] ELSE k.link[j]]
  <2>4. links \in [Interfaces -> Links \cup {NoLink}]
    BY <1>0, <1>1, <1>4
  <2>5. r = [k EXCEPT !.link = links, !.queue = r.queue]
    BY <1>0 DEF Changed, Kernels, first
  <2>6. a = [r EXCEPT !.link = new, !.queue = Append(r.queue, last)]
    BY <1>9
  <2> HIDE DEF b, r, links
  <2>7. r \in Kernels /\ r.ok = k.ok
    BY <1>0, <2>1, <2>2, <2>4, <2>5 DEF Kernels, r
  <2> QED
    BY <1>17, <1>19, <2>1, <2>3, <2>6, <2>7 DEF Kernels, r
<1> HIDE DEF b
<1>21. ASSUME NEW j \in Interfaces
       PROVE  ToldAt(b, a, j)
  <2>1. /\ <<last>> \in Seq(Events)
        /\ Silent(<<last>>, j) <=> j # i
        /\ LastSays(<<last>>, i, NoLink)
    <3>1. About(last, j) <=> j = i
      BY <1>12 DEF About
    <3>2. <<last>> \in Seq(Events) /\ (Silent(<<last>>, j) <=> ~About(last, j))
      BY <1>12, OneSays
    <3>3. LastSays(<<last>>, i, NoLink)
      BY <1>12, OneSays
    <3> QED
      BY <3>1, <3>2, <3>3
  <2>2. Silent(<<last>>, j) => SameFace(b.link[j], a.link[j])
    BY <1>18, <1>20, <2>1 DEF SameFace
  <2>3. ~Silent(<<last>>, j) => LastSays(<<last>>, j, a.link[j])
    BY <1>18, <1>20, <2>1
  <2> QED
    BY <1>17, <1>20, <2>1, <2>2, <2>3, SaidAt
<1>22. \A j \in Interfaces : ToldAt(k, a, j)
  BY <1>14, <1>17, <1>21, ToldOn
<1>23. Cut(k, a, i)
  <2> SUFFICES ASSUME NEW j \in Interfaces
               PROVE  /\ There(a, j) <=> There(k, j) /\ j # i /\ k.link[j].base # i
                      /\ There(a, j) => SameLink(k.link[j], a.link[j])
    BY DEF Cut
  <2>1. a.link[j] = new[j]
    BY <1>20
  <2>2. CASE j \in gone \cup {i}
    BY <1>1, <1>3, <2>1, <2>2 DEF There
  <2>3. CASE j \in set
    BY <1>1, <1>4, <2>1, <2>3, LinkShape DEF There
  <2>4. CASE j \notin gone \cup {i} /\ j \notin set
    BY <1>1, <1>3, <2>1, <2>4 DEF There, SameLink
  <2> QED
    BY <2>2, <2>3, <2>4
<1>24. IsSound(a)
  BY <1>20, <1>23, LinkShape DEF IsSound, Sound, Cut, There, SameLink
<1> QED
  BY <1>20, <1>22, <1>23, <1>24 DEF Leads, a

LEMMA FailedLeads ==
    ASSUME NEW k, IsSound(k)
    PROVE  /\ Leads(k, Failed(k)) /\ Kept(k, Failed(k)) /\ ~Failed(k).ok
           /\ Failed(k).link = k.link
<1>1. /\ Failed(k) \in Kernels /\ Failed(k).link = k.link /\ Failed(k).queue = k.queue
      /\ Failed(k).ok = FALSE
  BY DEF Failed, Kernels, IsSound
<1>2. IsSound(Failed(k))
  BY <1>1 DEF IsSound
<1> QED
  BY <1>1, <1>2 DEF Leads, Kept, ToldAt, SameFace, SameLink, There

LEMMA AddLeads ==
    ASSUME NEW k, IsSound(k), NEW i \in Interfaces, i \notin Physical,
           NEW base \in Physical \cup Nothing, NEW baseIndex
    PROVE  /\ Leads(k, Add(k, i, base, baseIndex)) /\ Grown(k, Add(k, i, base, baseIndex), i)
           /\ Add(k, i, base, baseIndex).ok => There(Add(k, i, base, baseIndex), i)
<1>1. CASE There(k, i)
  BY <1>1, LeadsItself, KeptGrown DEF Add
<1>2. CASE ~There(k, i) /\ base # NoInterface /\ ~At(k, base, baseIndex)
  BY <1>2, FailedLeads, KeptGrown DEF Add
<1>3. CASE ~There(k, i) /\ ~(base # NoInterface /\ ~At(k, base, baseIndex))
  <2>1. Add(k, i, base, baseIndex) = Added(k, i, base, TRUE)
    BY <1>3 DEF Add
  <2>2. TRUE => i \notin Physical
    OBVIOUS
  <2>3. /\ Leads(k, Added(k, i, base, TRUE)) /\ Grown(k, Added(k, i, base, TRUE), i)
        /\ There(Added(k, i, base, TRUE), i)
    BY <1>3, <2>2, AddedLeads
  <2> QED
    BY <2>1, <2>3
<1> QED
  BY <1>1, <1>2, <1>3

(* A set that goes well leaves the link up that was to be up. *)
Upped(k, a, i, up) ==
    /\ Leads(k, a) /\ Kept(k, a)
    /\ a.ok /\ up => There(a, i) /\ a.link[i].up

LEMMA JoinedLeads ==
    ASSUME NEW k, IsSound(k), NEW i \in Interfaces, There(k, i),
           NEW master \in Interfaces
    PROVE  LET a == Changed(k, [k.link EXCEPT ![i].master = master], {i})
           IN  Leads(k, a) /\ Kept(k, a)
<1> DEFINE new == [k.link EXCEPT ![i].master = master]
<1>1. k.link \in [Interfaces -> Links \cup {NoLink}] /\ k.link[i] \in Links
  BY KernelShape DEF IsSound, There
<1>2. new[i] = [k.link[i] EXCEPT !.master = master]
  BY <1>1
<1>3. new[i] \in Links /\ SameLink(k.link[i], new[i])
  BY <1>1, <1>2 DEF Links, SameLink
<1> HIDE DEF new
<1>4. Renewable(k, {i}, new)
  BY <1>3 DEF Renewable
<1>5. Relinked(k, Changed(k, new, {i}), {i}, new)
  BY <1>4, ChangedLeads
<1> QED
  BY <1>5 DEF Relinked, new

LEMMA SetLeads ==
    ASSUME NEW k, IsSound(k), NEW i \in Interfaces, NEW index,
           NEW master \in Interfaces \cup Nothing, NEW masterIndex, NEW up \in BOOLEAN
    PROVE  Upped(k, Set(k, i, index, master, masterIndex, up), i, up)
<1> DEFINE a == Set(k, i, index, master, masterIndex, up)
           joined == IF master = NoInterface THEN k
                     ELSE Changed(k, [k.link EXCEPT ![i].master = master], {i})
           base == k.link[i].base
<1> SUFFICES Upped(k, a, i, up)
  OBVIOUS
<1>1. CASE ~At(k, i, index) \/ (master # NoInterface /\ ~At(k, master, masterIndex))
  <2>1. a = Failed(k)
    BY <1>1 DEF Set
  <2> QED
    BY <2>1, FailedLeads DEF Upped
<1>2. CASE ~(~At(k, i, index) \/ (master # NoInterface /\ ~At(k, master, masterIndex)))
  <2>1. There(k, i)
    BY <1>2 DEF At
  <2>2. Leads(k, joined) /\ Kept(k, joined)
    BY <2>1, LeadsItself, JoinedLeads DEF Nothing
  <2>3. a = IF ~up THEN joined
            ELSE IF base # NoInterface /\ ~k.link[base].up THEN Failed(joined)
            ELSE Switched(joined, i, TRUE)
    BY <1>2 DEF Set
  <2> HIDE DEF joined, a
  <2>4. IsSound(joined) /\ There(joined, i)
    BY <2>1, <2>2 DEF Leads, Kept
  <2>5. CASE ~up
    BY <2>2, <2>3, <2>5 DEF Upped
  <2>6. CASE a = Failed(joined)
    BY <2>2, <2>4, <2>6, FailedLeads, LeadsOn, KeptOn DEF Upped
  <2>7. CASE a = Switched(joined, i, TRUE)
    <3> DEFINE b == Switched(joined, i, TRUE)
    <3>1. Leads(joined, b) /\ Kept(joined, b) /\ There(b, i) /\ b.link[i].up = TRUE
      BY <2>4, SwitchedLeads
    <3> HIDE DEF b
    <3>2. Leads(k, b) /\ Kept(k, b)
      BY <2>2, <3>1, LeadsOn, KeptOn
    <3> QED
      BY <2>7, <3>1, <3>2 DEF Upped, b
  <2> QED
    BY <2>3, <2>5, <2>6, <2>7 DEF a
<1> QED
  BY <1>1, <1>2

-----------------------------------------------------------------------------
(* What the agent asks for. *)

LEMMA EntityShape ==
    ASSUME NEW e \in Entities
    PROVE  /\ e.type \in Types /\ e.config \in Configs \cup {NoConfig}
           /\ e.ifindex \in Nat /\ e.up \in BOOLEAN /\ e # NoEntity
  BY SentinelsAssumption DEF Entities

LEMMA ConfigShape ==
    ASSUME NEW c \in Configs
    PROVE  /\ c.type \in Types /\ c.base \in Interfaces \cup Nothing
           /\ c.master \in Interfaces \cup Nothing /\ c.up \in BOOLEAN /\ c # NoConfig
  BY ConfigurationsAssumption DEF Configs, Nothing

LEMMA LinkConfigLeads ==
    ASSUME NEW k, IsSound(k), NEW i \in Interfaces, NEW e \in Entities, e.config # NoConfig
    PROVE  Upped(k, ApplyLinkConfig(k, i, e), i, e.config.up)
<1>1. e.config \in Configs
  BY EntityShape
<1>2. e.config.up \in BOOLEAN /\ e.config.master \in Interfaces \cup Nothing
  BY <1>1, ConfigShape
<1> DEFINE master == IF Ifindex(e.config.master) = NoIndex THEN NoInterface
                     ELSE e.config.master
           a == Set(k, i, e.ifindex, master, Ifindex(master), e.config.up)
<1>3. master \in Interfaces \cup Nothing
  BY <1>2 DEF Nothing
<1>4. ApplyLinkConfig(k, i, e) = IF ~e.config.up /\ e.config.master = NoInterface THEN k ELSE a
  BY DEF ApplyLinkConfig
<1> HIDE DEF master
<1>5. Upped(k, a, i, e.config.up)
  BY <1>2, <1>3, SetLeads
<1>6. ~e.config.up => Upped(k, k, i, e.config.up)
  BY LeadsItself DEF Upped
<1> QED
  BY <1>4, <1>5, <1>6

(* What is not made, although all went well, waits for its trunk. *)
Delayed(e) ==
    \/ e.type = "ethernet"
    \/ e.config.base # NoInterface /\ Ifindex(e.config.base) = NoIndex

Made(k, a, i, e) ==
    /\ Leads(k, a) /\ Grown(k, a, i)
    /\ e.type = "ethernet" => Kept(k, a)
    /\ a.ok => There(a, i) \/ Delayed(e)

LEMMA CreateLeads ==
    ASSUME NEW k, IsSound(k), NEW i \in Interfaces, NEW e \in Entities, e.config # NoConfig,
           Fits(e, i)
    PROVE  Made(k, Create(k, i, e), i, e)
<1> DEFINE base == e.config.base
<1>1. base \in Physical \cup Nothing /\ (e.type # "ethernet" => i \notin Physical)
  BY EntityShape DEF Fits
<1>2. CASE e.type = "ethernet"
  <2>1. Create(k, i, e) = k
    BY <1>2 DEF Create
  <2> QED
    BY <1>2, <2>1, LeadsItself, KeptGrown DEF Made, Delayed
<1>3. CASE e.type = "bridge"
  <2>1. Create(k, i, e) = Add(k, i, NoInterface, NoIndex)
    BY <1>3 DEF Create
  <2>2. NoInterface \in Physical \cup Nothing
    BY DEF Nothing
  <2>3. /\ Leads(k, Add(k, i, NoInterface, NoIndex)) /\ Grown(k, Add(k, i, NoInterface, NoIndex), i)
        /\ Add(k, i, NoInterface, NoIndex).ok => There(Add(k, i, NoInterface, NoIndex), i)
    BY <1>1, <1>3, <2>2, AddLeads
  <2> QED
    BY <1>3, <2>1, <2>3 DEF Made
<1>4. CASE e.type = "vlan"
  <2>1. Create(k, i, e) = IF base = NoInterface THEN Failed(k)
                          ELSE IF Ifindex(base) = NoIndex THEN k
                          ELSE Add(k, i, base, Ifindex(base))
    BY <1>4 DEF Create
  <2> HIDE DEF base
  <2>2. CASE base = NoInterface
    BY <1>4, <2>1, <2>2, FailedLeads, KeptGrown DEF Made
  <2>3. CASE base # NoInterface /\ Ifindex(base) = NoIndex
    BY <1>4, <2>1, <2>3, LeadsItself, KeptGrown DEF Made, Delayed, base
  <2>4. CASE base # NoInterface /\ Ifindex(base) # NoIndex
    <3> DEFINE a == Add(k, i, base, Ifindex(base))
    <3>1. Leads(k, a) /\ Grown(k, a, i) /\ (a.ok => There(a, i))
      BY <1>1, <1>4, AddLeads
    <3>2. Create(k, i, e) = a
      BY <2>1, <2>4
    <3> HIDE DEF a
    <3> QED
      BY <1>4, <3>1, <3>2 DEF Made
  <2> QED
    BY <2>2, <2>3, <2>4
<1> QED
  BY <1>2, <1>3, <1>4, EntityShape DEF Types

(* An entity is applied: only it may be new. *)
Applied(k, a, i, e) ==
    /\ Leads(k, a) /\ Grown(k, a, i)
    /\ There(a, i) /\ ~There(k, i) => Wants(e) /\ e.type # "ethernet"
    /\ a.ok /\ Wants(e) => There(a, i) \/ Delayed(e)
    /\ a.ok /\ Wants(e) /\ e.config.up /\ e.ifindex # NoIndex => There(a, i) /\ a.link[i].up

LEMMA ApplyLeads ==
    ASSUME NEW k, IsSound(k), NEW i \in Interfaces, NEW e \in Entities, Fits(e, i)
    PROVE  Applied(k, Apply(k, i, e), i, e)
<1> DEFINE made == Create(k, i, e)
           a == Apply(k, i, e)
<1> SUFFICES Applied(k, a, i, e)
  OBVIOUS
<1>1. CASE e.config = NoConfig
  <2>1. a = k
    BY <1>1 DEF Apply
  <2> QED
    BY <1>1, <2>1, LeadsItself, KeptGrown DEF Applied, Wants
<1>2. CASE e.config # NoConfig
  <2>1. Wants(e)
    BY <1>2, EntityShape DEF Wants
  <2>2. Made(k, made, i, e)
    BY <1>2, CreateLeads
  <2>3. a = IF made.ok /\ e.ifindex # NoIndex THEN ApplyLinkConfig(made, i, e) ELSE made
    BY <1>2 DEF Apply
  <2> HIDE DEF made, a
  <2>4. IsSound(made)
    BY <2>2 DEF Made, Leads
  <2>5. CASE made.ok /\ e.ifindex # NoIndex
    <3> DEFINE b == ApplyLinkConfig(made, i, e)
    <3>1. Upped(made, b, i, e.config.up)
      BY <1>2, <2>4, LinkConfigLeads
    <3>2. a = b
      BY <2>3, <2>5
    <3> HIDE DEF b
    <3>3. Leads(k, b) /\ Grown(k, b, i)
      BY <2>2, <3>1, LeadsOn, GrownOn DEF Made, Upped
    <3>4. There(b, i) <=> There(made, i)
      BY <3>1 DEF Upped, Kept
    <3>5. e.type = "ethernet" => (There(made, i) <=> There(k, i))
      BY <2>2 DEF Made, Kept
    <3> QED
      BY <2>1, <2>2, <2>5, <3>1, <3>2, <3>3, <3>4, <3>5 DEF Applied, Made, Upped
  <2>6. CASE ~(made.ok /\ e.ifindex # NoIndex)
    <3>1. a = made
      BY <2>3, <2>6
    <3>2. e.type = "ethernet" => (There(made, i) <=> There(k, i))
      BY <2>2 DEF Made, Kept
    <3> QED
      BY <2>1, <2>2, <2>6, <3>1, <3>2 DEF Applied, Made
  <2> QED
    BY <2>5, <2>6 DEF a
<1> QED
  BY <1>1, <1>2

(* A removed interface is gone, or the agent did not know its link. *)
Removed(k, a, i, e) ==
    /\ Leads(k, a)
    /\ \A j \in Interfaces : /\ There(a, j) => There(k, j) /\ SameLink(k.link[j], a.link[j])
                             /\ j # i /\ There(k, j) => There(a, j)
    /\ There(a, i) => e.type = "ethernet" \/ k.link[i].index # e.ifindex

LEMMA RemoveLeads ==
    ASSUME NEW k, IsSound(k), NEW i \in Interfaces, NEW e \in Entities, Fits(e, i)
    PROVE  Removed(k, RemoveLink(k, i, e), i, e)
<1>1. CASE e.type # "ethernet" /\ At(k, i, e.ifindex)
  <2>1. RemoveLink(k, i, e) = Deleted(k, i)
    BY <1>1 DEF RemoveLink
  <2>2. i \notin Physical /\ i \notin Nothing
    BY <1>1, EntityShape, ConfigurationsAssumption DEF Fits, Nothing
  <2>3. \A j \in Interfaces : There(k, j) => k.link[j].base # i
    BY <2>2 DEF IsSound, Sound, There
  <2>4. Leads(k, Deleted(k, i)) /\ Cut(k, Deleted(k, i), i)
    BY <1>1, DeletedLeads DEF At
  <2> QED
    BY <2>1, <2>3, <2>4 DEF Cut, Removed
<1>2. CASE ~(e.type # "ethernet" /\ At(k, i, e.ifindex))
  <2>1. RemoveLink(k, i, e) = k
    BY <1>2 DEF RemoveLink
  <2> QED
    BY <1>2, <2>1, LeadsItself DEF Removed, At, SameLink
<1> QED
  BY <1>1, <1>2

-----------------------------------------------------------------------------
(* What the parts of the invariant say of one interface, and what keeps it. *)

SameReport(e, f) ==
    IF e = NoEntity THEN f = NoEntity \/ (f.ifindex = NoIndex /\ ~f.up)
    ELSE f # NoEntity /\ f.ifindex = e.ifindex /\ f.up = e.up

LEMMA NotedOn ==
    ASSUME NEW k, NEW a, NEW j, NEW e, NEW f, NEW m \in BOOLEAN, NEW n \in BOOLEAN,
           ToldAt(k, a, j), LastSays(k.queue, j, k.link[j]),
           Noted(k.queue, j, k.link[j], e, m), SameReport(e, f), m = n
    PROVE  LastSays(a.queue, j, a.link[j]) /\ Noted(a.queue, j, a.link[j], f, n)
<1>1. LastSays(a.queue, j, a.link[j])
  BY DEF ToldAt
<1>2. ASSUME Silent(a.queue, j)
      PROVE  IF n THEN a.link[j] = NoLink ELSE Agrees(f, a.link[j])
  <2>1. Silent(k.queue, j) /\ SameFace(k.link[j], a.link[j])
    BY <1>2 DEF ToldAt
  <2>2. IF m THEN k.link[j] = NoLink ELSE Agrees(e, k.link[j])
    BY <2>1 DEF Noted
  <2> QED
    BY <2>1, <2>2 DEF SameFace, Agrees, SameReport
<1> QED
  BY <1>1, <1>2 DEF Noted

LEMMA UpOn ==
    ASSUME NEW k, NEW a, NEW j, NEW e, NEW f, ToldAt(k, a, j),
           UpAt(k.queue, j, k.link[j], e),
           Wants(f) /\ f.config.up => Wants(e) /\ e.config.up
    PROVE  UpAt(a.queue, j, a.link[j], f)
  BY DEF UpAt, ToldAt, SameFace

(* After an apply that went well a link is up, or a report of it is coming. *)
LEMMA UpApplied ==
    ASSUME NEW k, NEW a, NEW i, NEW e, NEW f, NEW m \in BOOLEAN, ToldAt(k, a, i),
           Applied(k, a, i, f), a.ok, Sound(k.link[i], i),
           Noted(k.queue, i, k.link[i], e, m), SameReport(e, f)
    PROVE  UpAt(a.queue, i, a.link[i], f)
<1> SUFFICES ASSUME Wants(f), f.config.up, a.link[i] # NoLink, Silent(a.queue, i),
                    f.ifindex = NoIndex
             PROVE  FALSE
  BY DEF UpAt, Applied
<1>1. Silent(k.queue, i) /\ SameFace(k.link[i], a.link[i])
  BY DEF ToldAt
<1>2. k.link[i] # NoLink
  BY <1>1 DEF SameFace
<1>3. Agrees(e, k.link[i])
  BY <1>1, <1>2 DEF Noted
<1> QED
  BY <1>2, <1>3 DEF Agrees, SameReport, Sound

(* The link of an interface whose index is not known is about to be reported. *)
LEMMA ComingBecause ==
    ASSUME NEW q \in Seq(Events), NEW b, NEW l, NEW e, NEW m \in BOOLEAN,
           LastSays(q, b, l), Noted(q, b, l, e, m), Sound(l, b), l # NoLink,
           e # NoEntity => e.ifindex = NoIndex
    PROVE  Coming(q, b)
<1>1. CASE Silent(q, b)
  BY <1>1 DEF Noted, Agrees, Sound
<1>2. CASE ~Silent(q, b)
  <2>1. PICK n \in DOMAIN q : /\ About(q[n], b)
                              /\ \A x \in DOMAIN q : x > n => ~About(q[x], b)
    BY <1>2, LastThere
  <2>2. Says(q[n], l)
    BY <2>1 DEF LastSays
  <2> QED
    BY <2>1, <2>2 DEF Says, Coming, About
<1> QED
  BY <1>1, <1>2

LEMMA KernelIs ==
    ASSUME ShapeInv, NEW q \in Seq(Events)
    PROVE  /\ IsSound(Kernel(q)) /\ Kernel(q).link = link /\ Kernel(q).queue = q
           /\ Kernel(q).ok = TRUE
  BY DEF ShapeInv, TypeOK, Kernel, Kernels, IsSound

LEMMA LeadsShape ==
    ASSUME NEW k, NEW a, Leads(k, a)
    PROVE  /\ a.link \in [Interfaces -> Links \cup {NoLink}]
           /\ a.created \in [Interfaces -> Nat] /\ a.queue \in Seq(Events)
           /\ \A j \in Interfaces : /\ Sound(a.link[j], j) /\ ToldAt(k, a, j)
                                    /\ Coming(k.queue, j) => Coming(a.queue, j)
  BY KernelShape DEF Leads, IsSound, ToldAt

(* The report that is handled says nothing of the other links. *)
LEMMA TakenTold ==
    ASSUME NEW q \in Seq(Events), q # <<>>, ShapeInv, NEW j \in Interfaces
    PROVE  /\ LastSays(q, j, link[j]) => LastSays(Tail(q), j, link[j])
           /\ ~About(Head(q), j) => ToldAt(Kernel(q), Kernel(Tail(q)), j)
<1>1. /\ Kernel(q).link = link /\ Kernel(q).queue = q
      /\ Kernel(Tail(q)).link = link /\ Kernel(Tail(q)).queue = Tail(q)
  BY DEF Kernel
<1>2. /\ Silent(Tail(q), j) /\ ~About(Head(q), j) => Silent(q, j)
      /\ Coming(q, j) => \/ Coming(Tail(q), j)
                         \/ Head(q).op = "newlink" /\ Head(q).name = j
      /\ \A l : LastSays(q, j, l) => LastSays(Tail(q), j, l)
  BY TakenSays
<1> QED
  BY <1>1, <1>2 DEF ToldAt, SameFace, About

-----------------------------------------------------------------------------
(* Steps that only change what the kernel has. *)

LEMMA KernelMoves ==
    ASSUME IInv, NEW a, NEW i \in Interfaces,
           Leads(Kernel(queue), a), Grown(Kernel(queue), a, i), Becomes(a),
           There(a, i) /\ ~Exists(i) => ~a.link[i].own,
           UNCHANGED <<config, provider, loop, taken, orphaned, stale, stuck, broken>>,
           changes' \in 0..MaxChanges
    PROVE  IInv'
<1> DEFINE k == Kernel(queue)
<1>1. /\ data' = data /\ previous' = previous /\ entity' = entity
      /\ dependencies' = dependencies /\ task' = task /\ event' = event /\ left' = left
      /\ todo' = todo /\ taken' = taken /\ orphaned' = orphaned /\ stale' = stale
      /\ stuck' = stuck /\ broken' = broken
      /\ link' = a.link /\ created' = a.created /\ queue' = a.queue
  BY DEF config, provider, loop, Becomes
<1>2. /\ link' \in [Interfaces -> Links \cup {NoLink}]
      /\ created' \in [Interfaces -> Nat] /\ queue' \in Seq(Events)
      /\ \A j \in Interfaces : Sound(link'[j], j) /\ ToldAt(k, a, j)
      /\ \A j \in Interfaces : Coming(queue, j) => Coming(queue', j)
  <2>1. k.queue = queue
    BY DEF Kernel
  <2> QED
    BY <1>1, <2>1, LeadsShape
<1>3. k.link = link /\ k.queue = queue
  BY DEF Kernel
<1> HIDE DEF k
<1>4. \A j \in Interfaces : /\ link[j] # NoLink => link'[j] # NoLink /\ SameLink(link[j], link'[j])
                            /\ link'[j] # NoLink /\ link[j] = NoLink
                                  => j = i /\ Coming(queue', j)
  BY <1>1, <1>3 DEF Grown, There, k
<1>5. ShapeInv'
  BY <1>1, <1>2 DEF IInv, ShapeInv, TypeOK, LoopInv, SyncInv, Configuring, Waiting,
                    Configured
<1>6. ToldInv'
  <2> SUFFICES ASSUME NEW j \in Interfaces
               PROVE  /\ LastSays(queue', j, link'[j])
                      /\ Noted(queue', j, link'[j], entity'[j], Missed(j)')
    BY DEF ToldInv
  <2>1. /\ LastSays(k.queue, j, k.link[j])
        /\ Noted(k.queue, j, k.link[j], entity[j], Missed(j))
    BY <1>3 DEF IInv, ToldInv
  <2>2. Missed(j)' = Missed(j) /\ Missed(j) \in BOOLEAN
    BY <1>1 DEF Missed
  <2>3. SameReport(entity[j], entity[j])
    BY DEF SameReport
  <2> QED
    BY <1>1, <1>2, <2>1, <2>2, <2>3, NotedOn
<1>7. UpInv'
  <2> SUFFICES ASSUME NEW j \in Interfaces \ stuck, ~broken, ~Due(j)
               PROVE  UpAt(queue', j, link'[j], entity'[j])
    BY <1>1 DEF UpInv, Due
  <2>1. UpAt(k.queue, j, k.link[j], entity[j])
    BY <1>3 DEF IInv, UpInv
  <2> QED
    BY <1>1, <1>2, <2>1, UpOn
<1>8. ThereInv'
  <2> SUFFICES ASSUME NEW j \in Interfaces \ (stuck \cup taken), ~broken, ~Due(j),
                      Wants(entity[j]), entity[j].type # "ethernet", link'[j] = NoLink,
                      NEW b, b = entity[j].config.base
               PROVE  /\ b # NoInterface
                      /\ link'[b] # NoLink /\ j \in Waiting(b) => Announced(queue, j, b)'
    BY <1>1 DEF ThereInv, Due, Exists, Waiting, Announced
  <2>1. /\ b # NoInterface
        /\ link[b] # NoLink /\ j \in Waiting(b) => Announced(queue, j, b)
    BY <1>4 DEF IInv, ThereInv, Exists
  <2>2. b \in Interfaces
    BY <2>1, ConfigurationsAssumption DEF IInv, ShapeInv, Fits, Wants, Nothing
  <2> QED
    BY <1>1, <1>2, <1>4, <2>1, <2>2 DEF Announced
<1>9. OwnInv'
  BY <1>1, <1>3, <1>4 DEF IInv, OwnInv, Exists, SameLink, There
<1> QED
  BY <1>5, <1>6, <1>7, <1>8, <1>9 DEF IInv

LEMMA QueueIs ==
    ASSUME IInv
    PROVE  /\ ShapeInv /\ queue \in Seq(Events) /\ IsSound(Kernel(queue))
           /\ Kernel(queue).link = link /\ Kernel(queue).queue = queue
           /\ Kernel(queue).ok = TRUE
           /\ \A j \in Interfaces : There(Kernel(queue), j) <=> Exists(j)
           /\ changes \in 0..MaxChanges
<1>1. ShapeInv /\ queue \in Seq(Events) /\ changes \in 0..MaxChanges
  BY DEF IInv, ShapeInv, TypeOK
<1> QED
  BY <1>1, KernelIs DEF There, Exists

LEMMA OutsideCounts ==
    ASSUME IInv, Outside
    PROVE  changes' \in 0..MaxChanges
  BY QueueIs, BoundAssumption DEF Outside

LEMMA PlugInKeeps ==
    ASSUME IInv, NEW i \in Interfaces, PlugIn(i)
    PROVE  IInv'
<1> DEFINE k == Kernel(queue)
           a == Added(k, i, NoInterface, FALSE)
<1>1. /\ IsSound(k) /\ ~There(k, i) /\ NoInterface \in Physical \cup Nothing
      /\ FALSE \in BOOLEAN /\ (FALSE => i \notin Physical)
  BY QueueIs DEF PlugIn, Nothing
<1>2. Leads(k, a) /\ Grown(k, a, i) /\ a.link[i].own = FALSE
  <2> HIDE DEF k
  <2> QED
    BY <1>1, AddedLeads
<1>3. Becomes(a) /\ changes' \in 0..MaxChanges
  BY OutsideCounts DEF PlugIn
<1>4. UNCHANGED <<config, provider, loop, taken, orphaned, stale, stuck, broken>>
  BY DEF PlugIn
<1> HIDE DEF a
<1> QED
  BY <1>2, <1>3, <1>4, KernelMoves

LEMMA KeptMoves ==
    ASSUME IInv, NEW a, Leads(Kernel(queue), a), Kept(Kernel(queue), a), Becomes(a),
           UNCHANGED <<config, provider, loop, taken, orphaned, stale, stuck, broken>>,
           changes' \in 0..MaxChanges, NEW i \in Interfaces
    PROVE  IInv'
<1>1. Grown(Kernel(queue), a, i)
  BY KeptGrown
<1>2. There(a, i) => Exists(i)
  BY QueueIs DEF Kept
<1> QED
  BY <1>1, <1>2, KernelMoves

LEMMA SwitchLinkKeeps ==
    ASSUME IInv, NEW i \in Interfaces, NEW up \in BOOLEAN, SwitchLink(i, up)
    PROVE  IInv'
<1> DEFINE k == Kernel(queue)
           a == Switched(k, i, up)
<1>1. IsSound(k) /\ There(k, i)
  BY QueueIs DEF SwitchLink
<1>2. Leads(k, a) /\ Kept(k, a)
  <2> HIDE DEF k
  <2> QED
    BY <1>1, SwitchedLeads
<1>3. Becomes(a) /\ changes' \in 0..MaxChanges
  BY OutsideCounts DEF SwitchLink
<1>4. UNCHANGED <<config, provider, loop, taken, orphaned, stale, stuck, broken>>
  BY DEF SwitchLink
<1> HIDE DEF a
<1> QED
  BY <1>2, <1>3, <1>4, KeptMoves

LEMMA LeasePreinitKeeps ==
    ASSUME IInv, NEW i \in Interfaces, LeasePreinit(i)
    PROVE  IInv'
<1> DEFINE k == Kernel(queue)
           s == <<Preinit(i)>>
           a == Kernel(queue \o s)
<1>1. /\ Preinit(i) \in Events /\ Preinit(i).op = "preinit"
      /\ s \in Seq(Events) /\ \A j \in Interfaces : Silent(s, j)
  <2>1. Preinit(i) \in Events /\ Preinit(i).op = "preinit"
    BY DEF Preinit, Events, NoIndex
  <2> QED
    BY <2>1, OneSays DEF About
<1>2. /\ queue \o s \in Seq(Events) /\ Append(queue, Preinit(i)) = queue \o s
  BY <1>1, QueueIs
<1> HIDE DEF s
<1>3. /\ IsSound(k) /\ k.link = link /\ k.queue = queue
      /\ IsSound(a) /\ a.link = link /\ a.queue = queue \o s /\ a.created = created
  BY <1>2, QueueIs, KernelIs DEF Kernel
<1>4. \A j \in Interfaces : ToldAt(k, a, j)
  BY <1>1, <1>3, SaidAt DEF SameFace, IsSound
<1>5. Leads(k, a) /\ Kept(k, a)
  BY <1>3, <1>4 DEF Leads, Kept, There, SameLink
<1>6. Becomes(a) /\ changes' \in 0..MaxChanges
  BY <1>2, <1>3, OutsideCounts DEF LeasePreinit, Becomes
<1>7. UNCHANGED <<config, provider, loop, taken, orphaned, stale, stuck, broken>>
  BY DEF LeasePreinit
<1> HIDE DEF a
<1> QED
  BY <1>5, <1>6, <1>7, KeptMoves

LEMMA HandlePreinitKeeps ==
    ASSUME IInv, HandlePreinit
    PROVE  IInv'
<1> DEFINE k == Kernel(queue)
           b == Kernel(Tail(queue))
           i == Head(queue).name
           a == IF entity[i] = NoEntity \/ entity[i].up THEN b
                ELSE Set(b, i, entity[i].ifindex, NoInterface, NoIndex, TRUE)
<1>1. queue \in Seq(Events) /\ queue # <<>> /\ Head(queue).op = "preinit"
  BY QueueIs DEF HandlePreinit, Handle
<1>2. Tail(queue) \in Seq(Events) /\ Head(queue) \in Events /\ i \in Interfaces
  <2>1. Tail(queue) \in Seq(Events) /\ Head(queue) \in Events
    BY <1>1
  <2> QED
    BY <2>1 DEF Events
<1>3. \A j \in Interfaces : ToldAt(k, b, j)
  BY <1>1, QueueIs, TakenTold DEF About
<1>4. IsSound(b) /\ b.link = k.link
  BY <1>2, QueueIs, KernelIs
<1>5. Leads(k, b) /\ Kept(k, b)
  BY <1>3, <1>4 DEF Leads, Kept, There, SameLink
<1>6. Becomes(a)
  BY DEF HandlePreinit
<1>7. UNCHANGED <<config, provider, loop, taken, orphaned, stale, stuck, broken>>
      /\ changes' \in 0..MaxChanges
  BY QueueIs DEF HandlePreinit, history
<1> HIDE DEF b, i, k
<1>8. Upped(b, Set(b, i, entity[i].ifindex, NoInterface, NoIndex, TRUE), i, TRUE)
  <2>1. NoInterface \in Interfaces \cup Nothing /\ TRUE \in BOOLEAN
    BY DEF Nothing
  <2> QED
    BY <1>2, <1>4, <2>1, SetLeads
<1>9. Leads(b, a) /\ Kept(b, a)
  BY <1>4, <1>8, LeadsItself DEF Upped
<1> HIDE DEF a
<1>10. Leads(k, a) /\ Kept(k, a)
  BY <1>5, <1>9, LeadsOn, KeptOn
<1> QED
  BY <1>2, <1>6, <1>7, <1>10, KeptMoves DEF k

(* What goes with a link of another program is noted, or was on that link by its
   configuration. *)
LEMMA DeleteLinkKeeps ==
    ASSUME IInv, NEW i \in Interfaces, DeleteLink(i)
    PROVE  IInv'
<1> DEFINE k == Kernel(queue)
           a == Deleted(k, i)
<1>1. /\ data' = data /\ previous' = previous /\ entity' = entity
      /\ dependencies' = dependencies /\ task' = task /\ event' = event /\ left' = left
      /\ todo' = todo /\ orphaned' = orphaned /\ stale' = stale
      /\ stuck' = stuck /\ broken' = broken
      /\ link' = a.link /\ created' = a.created /\ queue' = a.queue
      /\ taken' = taken \cup Elsewhere(i) \cup ({i} \ Physical)
      /\ changes' \in 0..MaxChanges
  BY OutsideCounts DEF DeleteLink, config, provider, loop, Becomes
<1>2. IsSound(k) /\ There(k, i) /\ k.link = link /\ k.queue = queue
  BY QueueIs DEF DeleteLink
<1>3. Leads(k, a) /\ Cut(k, a, i)
  <2> HIDE DEF k
  <2> QED
    BY <1>2, DeletedLeads
<1> HIDE DEF a
<1>4. /\ link' \in [Interfaces -> Links \cup {NoLink}]
      /\ created' \in [Interfaces -> Nat] /\ queue' \in Seq(Events)
      /\ \A j \in Interfaces : Sound(link'[j], j) /\ ToldAt(k, a, j)
      /\ \A j \in Interfaces : Coming(queue, j) => Coming(queue', j)
  BY <1>1, <1>2, <1>3, LeadsShape
<1> HIDE DEF k
<1>5. \A j \in Interfaces : /\ link'[j] # NoLink <=> link[j] # NoLink /\ j # i /\ link[j].base # i
                            /\ link'[j] # NoLink => SameLink(link[j], link'[j])
  BY <1>1, <1>2, <1>3 DEF Cut, There
<1>6. Elsewhere(i) \in SUBSET Interfaces
  BY DEF Elsewhere, On
<1>7. ShapeInv'
  BY <1>1, <1>4, <1>6 DEF IInv, ShapeInv, TypeOK, LoopInv, SyncInv, Configuring, Waiting,
                    Configured
<1>8. ToldInv'
  <2> SUFFICES ASSUME NEW j \in Interfaces
               PROVE  /\ LastSays(queue', j, link'[j])
                      /\ Noted(queue', j, link'[j], entity'[j], Missed(j)')
    BY DEF ToldInv
  <2>1. /\ LastSays(k.queue, j, k.link[j])
        /\ Noted(k.queue, j, k.link[j], entity[j], Missed(j))
    BY <1>2 DEF IInv, ToldInv
  <2>2. Missed(j)' = Missed(j) /\ Missed(j) \in BOOLEAN
    BY <1>1 DEF Missed
  <2>3. SameReport(entity[j], entity[j])
    BY DEF SameReport
  <2> QED
    BY <1>1, <1>4, <2>1, <2>2, <2>3, NotedOn
<1>9. UpInv'
  <2> SUFFICES ASSUME NEW j \in Interfaces \ stuck, ~broken, ~Due(j)
               PROVE  UpAt(queue', j, link'[j], entity'[j])
    BY <1>1 DEF UpInv, Due
  <2>1. UpAt(k.queue, j, k.link[j], entity[j])
    BY <1>2 DEF IInv, UpInv
  <2> QED
    BY <1>1, <1>4, <2>1, UpOn
<1>10. ThereInv'
  <2> SUFFICES ASSUME NEW j \in Interfaces \ (stuck \cup taken'), ~broken, ~Due(j),
                      Wants(entity[j]), entity[j].type # "ethernet", link'[j] = NoLink,
                      NEW b, b = entity[j].config.base
               PROVE  /\ b # NoInterface
                      /\ link'[b] # NoLink /\ j \in Waiting(b) => Announced(queue, j, b)'
    BY <1>1 DEF ThereInv, Due, Exists, Waiting, Announced
  <2>1. CASE link[j] = NoLink
    <3>1. /\ b # NoInterface
          /\ link[b] # NoLink /\ j \in Waiting(b) => Announced(queue, j, b)
      BY <1>1, <2>1 DEF IInv, ThereInv, Exists
    <3>2. b \in Interfaces
      BY <3>1, ConfigurationsAssumption DEF IInv, ShapeInv, Fits, Wants, Nothing
    <3> QED
      BY <1>1, <1>4, <1>5, <3>1, <3>2 DEF Announced
  <2>2. CASE link[j] # NoLink
    <3>1. j = i \/ link[j].base = i
      BY <1>5, <2>2
    <3>2. j # i
      BY <1>1 DEF IInv, ShapeInv, Fits, Wants
    <3>3. j \in On(Kernel(queue), i) /\ HasConfig(j)
      BY <2>2, <3>1, <3>2, QueueIs DEF On, There, HasConfig, Wants
    <3>4. b = i
      BY <1>1, <3>3 DEF Elsewhere
    <3>5. b # NoInterface /\ link'[b] = NoLink
      BY <1>5, <3>4, ConfigurationsAssumption
    <3> QED
      BY <3>5
  <2> QED
    BY <2>1, <2>2
<1>11. OwnInv'
  BY <1>1, <1>5 DEF IInv, OwnInv, Exists, SameLink
<1> QED
  BY <1>7, <1>8, <1>9, <1>10, <1>11 DEF IInv

-----------------------------------------------------------------------------
(* The steps of a commit that do not touch a link. *)

(* Nothing that was reported, or that a handler has yet to tell, is lost. *)
Unmoved ==
    /\ link' = link /\ created' = created /\ queue' = queue
    /\ entity' = entity /\ dependencies' = dependencies
    /\ event' = event /\ left' = left /\ taken' = taken /\ orphaned' = orphaned
    /\ stale' = stale /\ stuck' = stuck /\ broken' = broken

LEMMA UnmovedKeeps ==
    ASSUME IInv, Unmoved, ShapeInv', task # "linkdown", task' # "linkdown",
           task = "linkup" <=> task' = "linkup",
           \A i \in Interfaces : ~broken /\ Due(i) => Due(i)'
    PROVE  IInv'
<1>1. \A i \in Interfaces : Missed(i)' = Missed(i)
  BY DEF Unmoved, Missed
<1>2. ToldInv'
  BY <1>1 DEF IInv, ToldInv, Unmoved
<1>3. UpInv'
  BY DEF IInv, UpInv, Unmoved
<1>4. ThereInv'
  <2> SUFFICES ASSUME NEW j \in Interfaces \ (stuck \cup taken), ~broken, ~Due(j),
                      Wants(entity[j]), entity[j].type # "ethernet", link[j] = NoLink,
                      NEW b, b = entity[j].config.base
               PROVE  /\ b # NoInterface
                      /\ link[b] # NoLink /\ j \in Waiting(b) => Announced(queue, j, b)'
    BY DEF ThereInv, Unmoved, Exists, Waiting, Announced
  <2>1. /\ b # NoInterface
        /\ link[b] # NoLink /\ j \in Waiting(b) => Announced(queue, j, b)
    BY DEF IInv, ThereInv, Exists
  <2> QED
    BY <2>1 DEF Announced, Unmoved
<1>5. OwnInv'
  BY DEF IInv, OwnInv, Unmoved, Exists
<1> QED
  BY <1>2, <1>3, <1>4, <1>5 DEF IInv

LEMMA ToReachShape ==
    ASSUME NEW d, NEW e
    PROVE  /\ ToReach(d, e) \in SUBSET Interfaces
           /\ \A i \in Interfaces : i \in ToReach(d, e) <=> d[i] # NoConfig \/ Wants(e[i])
  BY DEF ToReach, Unconfigured, Wants

LEMMA CommitKeeps ==
    ASSUME IInv, NEW d \in Configurations, Commit(d)
    PROVE  IInv'
<1>1. /\ Unmoved /\ data' = d /\ previous' = previous /\ task = "idle" /\ task' = "commit"
      /\ todo' = ToReach(d, entity) /\ changes' \in 0..MaxChanges
  BY OutsideCounts DEF Commit, Idle, Unmoved, kernel, provider
<1>2. ShapeInv
  BY DEF IInv
<1>3. TypeOK'
  BY <1>1, <1>2, ToReachShape DEF ShapeInv, TypeOK, Unmoved
<1>4. LoopInv'
  BY <1>1, <1>2 DEF ShapeInv, LoopInv, Unmoved, Configuring, Waiting
<1>5. SyncInv'
  BY <1>1, <1>2, ToReachShape DEF ShapeInv, LoopInv, SyncInv, Unmoved, Configuring,
                                  Configured, Matches
<1>6. ShapeInv'
  BY <1>1, <1>2, <1>3, <1>4, <1>5 DEF ShapeInv, Unmoved
<1> QED
  BY <1>1, <1>6, UnmovedKeeps DEF Due

LEMMA CommitSucceedsKeeps ==
    ASSUME IInv, CommitSucceeds
    PROVE  IInv'
<1>1. /\ Unmoved /\ data' = data /\ previous' = data /\ task = "commit" /\ task' = "idle"
      /\ todo = {} /\ todo' = todo /\ changes' = changes
  BY DEF CommitSucceeds, Unmoved, kernel, provider, history
<1>2. ShapeInv
  BY DEF IInv
<1>3. TypeOK' /\ LoopInv' /\ SyncInv'
  BY <1>1, <1>2 DEF ShapeInv, TypeOK, LoopInv, SyncInv, Unmoved, Configuring, Waiting,
                    Configured
<1>4. ShapeInv'
  BY <1>1, <1>2, <1>3 DEF ShapeInv, Unmoved
<1> QED
  BY <1>1, <1>4, UnmovedKeeps DEF Due

LEMMA OthersFailKeeps ==
    ASSUME IInv, OthersFail
    PROVE  IInv'
<1>1. /\ Unmoved /\ data' = previous /\ previous' = previous /\ task = "commit"
      /\ task' = "rollback" /\ todo' = ToReach(previous, entity) /\ changes' = changes
  BY DEF OthersFail, RollBack, Unmoved, kernel, provider
<1>2. ShapeInv
  BY DEF IInv
<1>3. TypeOK'
  BY <1>1, <1>2, ToReachShape DEF ShapeInv, TypeOK, Unmoved
<1>4. LoopInv'
  BY <1>1, <1>2 DEF ShapeInv, LoopInv, Unmoved, Configuring, Waiting
<1>5. SyncInv'
  BY <1>1, <1>2, ToReachShape DEF ShapeInv, LoopInv, SyncInv, Unmoved, Configuring,
                                  Configured, Matches
<1>6. ShapeInv'
  BY <1>1, <1>2, <1>3, <1>4, <1>5 DEF ShapeInv, Unmoved
<1> QED
  BY <1>1, <1>6, UnmovedKeeps DEF Due

LEMMA RolledBackKeeps ==
    ASSUME IInv, RolledBack
    PROVE  IInv'
<1>1. /\ Unmoved /\ data' = data /\ previous' = previous /\ task = "rollback"
      /\ task' = "idle" /\ todo = {} /\ todo' = todo /\ changes' = changes
  BY DEF RolledBack, Unmoved, kernel, config, provider, history
<1>2. ShapeInv
  BY DEF IInv
<1>3. TypeOK' /\ LoopInv' /\ SyncInv'
  BY <1>1, <1>2 DEF ShapeInv, TypeOK, LoopInv, SyncInv, Unmoved, Configuring, Waiting,
                    Configured
<1>4. ShapeInv'
  BY <1>1, <1>2, <1>3 DEF ShapeInv, Unmoved
<1> QED
  BY <1>1, <1>4, UnmovedKeeps DEF Due

(* The link of an interface that is not configured any more is gone, or noted. *)
LEMMA RemoveConfigKeeps ==
    ASSUME IInv, NEW i \in Interfaces, RemoveConfig(i)
    PROVE  IInv'
<1> DEFINE k == Kernel(queue)
           e == entity[i]
           f == [e EXCEPT !.config = NoConfig]
           a == RemoveLink(k, i, e)
<1>1. /\ previous' = previous /\ dependencies' = dependencies /\ event' = event
      /\ left' = left /\ changes' = changes /\ taken' = taken /\ stale' = stale
      /\ stuck' = stuck /\ broken' = broken /\ data' = data /\ task' = task
      /\ todo' = todo \ {i} /\ task \in {"commit", "rollback"}
      /\ i \in todo /\ data[i] = NoConfig /\ e # NoEntity /\ e.config # NoConfig
      /\ link' = a.link /\ created' = a.created /\ queue' = a.queue
      /\ orphaned' = IF i \notin Physical /\ Exists(i) /\ e.ifindex # link[i].index
                     THEN orphaned \cup {i} ELSE orphaned
  BY DEF RemoveConfig, Unconfigured, Becomes, Reached, Configuring
<1>2. /\ ShapeInv /\ IsSound(k) /\ k.link = link /\ k.queue = queue
      /\ entity \in [Interfaces -> Entities \cup {NoEntity}] /\ Fits(e, i)
  BY QueueIs DEF ShapeInv, TypeOK
<1>3. e \in Entities
  BY <1>1, <1>2
<1>4. /\ f \in Entities /\ f.config = NoConfig /\ f.type = e.type /\ f.ifindex = e.ifindex
      /\ f.up = e.up /\ f # NoEntity
  BY <1>3, SentinelsAssumption DEF Entities
<1>5. /\ entity' = [entity EXCEPT ![i] = f] /\ entity'[i] = f
      /\ \A j \in Interfaces : j # i => entity'[j] = entity[j]
  BY <1>2 DEF RemoveConfig
<1> HIDE DEF k, e, f
<1>6. Removed(k, a, i, e)
  BY <1>2, <1>3, RemoveLeads
<1> HIDE DEF a
<1>7. /\ link' \in [Interfaces -> Links \cup {NoLink}]
      /\ created' \in [Interfaces -> Nat] /\ queue' \in Seq(Events)
      /\ \A j \in Interfaces : Sound(link'[j], j) /\ ToldAt(k, a, j)
      /\ \A j \in Interfaces : Coming(queue, j) => Coming(queue', j)
  BY <1>1, <1>2, <1>6, LeadsShape DEF Removed
<1>8. /\ \A j \in Interfaces : /\ link'[j] # NoLink => link[j] # NoLink /\ SameLink(link[j], link'[j])
                               /\ j # i /\ link[j] # NoLink => link'[j] # NoLink
      /\ link'[i] # NoLink => e.type = "ethernet" \/ link[i].index # e.ifindex
  BY <1>1, <1>2, <1>6 DEF Removed, There
<1>9. ~Wants(entity'[i])
  BY <1>4, <1>5 DEF Wants
<1>10. ShapeInv'
  <2>1. TypeOK'
    BY <1>1, <1>2, <1>4, <1>5, <1>7 DEF ShapeInv, TypeOK
  <2>2. LoopInv'
    BY <1>1, <1>2, <1>4, <1>5 DEF ShapeInv, LoopInv, Configuring, Waiting
  <2>3. SyncInv'
    BY <1>1, <1>2, <1>5, <1>9 DEF ShapeInv, SyncInv, Configured, Matches
  <2>4. Fits(f, i)
    BY <1>2, <1>3, <1>4, EntityShape DEF Fits
  <2> QED
    BY <1>2, <1>5, <1>7, <2>1, <2>2, <2>3, <2>4 DEF ShapeInv
<1>11. ToldInv'
  <2> SUFFICES ASSUME NEW j \in Interfaces
               PROVE  /\ LastSays(queue', j, link'[j])
                      /\ Noted(queue', j, link'[j], entity'[j], Missed(j)')
    BY DEF ToldInv
  <2>1. /\ LastSays(k.queue, j, k.link[j])
        /\ Noted(k.queue, j, k.link[j], entity[j], Missed(j))
    BY <1>2 DEF IInv, ToldInv
  <2>2. Missed(j)' = Missed(j) /\ Missed(j) \in BOOLEAN
    BY <1>1 DEF Missed
  <2>3. SameReport(entity[j], entity'[j])
    BY <1>1, <1>4, <1>5 DEF SameReport, e
  <2> QED
    BY <1>1, <1>7, <2>1, <2>2, <2>3, NotedOn
<1>12. UpInv'
  <2> SUFFICES ASSUME NEW j \in Interfaces \ stuck, ~broken, ~Due(j)'
               PROVE  UpAt(queue', j, link'[j], entity'[j])
    BY <1>1 DEF UpInv
  <2>1. CASE j = i
    BY <1>9, <2>1 DEF UpAt
  <2>2. CASE j # i
    <3>1. ~Due(j)
      BY <1>1, <1>5, <2>2 DEF Due
    <3>2. UpAt(k.queue, j, k.link[j], entity[j])
      BY <1>2, <3>1 DEF IInv, UpInv
    <3> QED
      BY <1>1, <1>5, <1>7, <2>2, <3>2, UpOn
  <2> QED
    BY <2>1, <2>2
<1>13. ThereInv'
  <2> SUFFICES ASSUME NEW j \in Interfaces \ (stuck \cup taken), ~broken, ~Due(j)',
                      Wants(entity'[j]), entity'[j].type # "ethernet", link'[j] = NoLink,
                      NEW b, b = entity'[j].config.base
               PROVE  /\ b # NoInterface
                      /\ link'[b] # NoLink /\ j \in Waiting(b) => Announced(queue, j, b)'
    BY <1>1 DEF ThereInv, Exists, Waiting, Announced
  <2>1. j # i /\ ~Due(j) /\ entity'[j] = entity[j] /\ link[j] = NoLink
    BY <1>1, <1>5, <1>8, <1>9 DEF Due
  <2>2. /\ b # NoInterface
        /\ link[b] # NoLink /\ j \in Waiting(b) => Announced(queue, j, b)
    BY <2>1 DEF IInv, ThereInv, Exists
  <2>3. b \in Interfaces
    BY <2>1, <2>2, ConfigurationsAssumption DEF IInv, ShapeInv, Fits, Wants, Nothing
  <2> QED
    BY <1>1, <1>7, <1>8, <2>2, <2>3 DEF Announced
<1>14. OwnInv'
  <2> SUFFICES ASSUME NEW j \in Interfaces \ orphaned', link'[j] # NoLink, link'[j].own
               PROVE  Wants(entity'[j]) /\ entity'[j].type # "ethernet"
    BY DEF OwnInv, Exists
  <2>1. j \notin orphaned /\ link[j] # NoLink /\ link[j].own
    BY <1>1, <1>8 DEF SameLink
  <2>2. Wants(entity[j]) /\ entity[j].type # "ethernet"
    BY <2>1 DEF IInv, OwnInv, Exists
  <2>3. j # i
    <3>1. ASSUME j = i PROVE FALSE
      <4>1. i \notin Physical
        BY <1>2, <2>1, <3>1 DEF ShapeInv, Sound
      <4>2. link[i].index = e.ifindex
        BY <1>1, <2>1, <3>1, <4>1 DEF Exists
      <4> QED
        BY <1>8, <2>2, <3>1, <4>2 DEF e
    <3> QED
      BY <3>1
  <2> QED
    BY <1>5, <2>2, <2>3
<1> QED
  BY <1>10, <1>11, <1>12, <1>13, <1>14 DEF IInv

(* What a configuration is applied to, and what comes of it: it is reached, the
   commit is rolled back, or the rollback fails. *)
LEMMA UpdateConfigKeeps ==
    ASSUME IInv, NEW i \in Interfaces, UpdateConfig(i)
    PROVE  IInv'
<1> DEFINE k == Kernel(queue)
           old == IF entity[i] = NoEntity THEN New(data[i].type) ELSE entity[i]
           e == [old EXCEPT !.config = data[i]]
           a == IF e = old THEN k ELSE Apply(k, i, e)
           reached == /\ a.ok /\ todo' = todo \ {i} /\ data' = data /\ task' = task
                      /\ broken' = broken
           undone == /\ ~a.ok /\ task = "commit" /\ data' = previous /\ task' = "rollback"
                     /\ todo' = ToReach(previous, entity') /\ broken' = broken
           lost == /\ ~a.ok /\ task = "rollback" /\ data' = data /\ task' = "idle"
                   /\ todo' = {} /\ broken' = TRUE
<1>1. /\ previous' = previous /\ dependencies' = dependencies /\ event' = event
      /\ left' = left /\ changes' = changes /\ orphaned' = orphaned /\ stale' = stale
      /\ task \in {"commit", "rollback"} /\ i \in todo /\ todo \cap Unconfigured(data, entity) = {}
      /\ link' = a.link /\ created' = a.created /\ queue' = a.queue
      /\ entity' = [entity EXCEPT ![i] = e]
      /\ taken' = IF There(a, i) THEN taken \ {i} ELSE taken
      /\ stuck' = IF a.ok /\ e # old THEN stuck \ {i} ELSE stuck
      /\ reached \/ undone \/ lost
  BY DEF UpdateConfig, Becomes, Reached, Configuring, HandlerRaises, RollBack
<1>2. /\ ShapeInv /\ IsSound(k) /\ k.link = link /\ k.queue = queue /\ k.ok = TRUE
      /\ entity \in [Interfaces -> Entities \cup {NoEntity}] /\ Fits(entity[i], i)
      /\ data \in Configurations /\ previous \in Configurations
  BY QueueIs DEF ShapeInv, TypeOK
<1>3. /\ data[i] \in Configs /\ (i \in Physical <=> data[i].type = "ethernet")
      /\ data[i].base \in Physical \cup Nothing /\ i # data[i].base
  <2>1. i \notin Unconfigured(data, entity)
    BY <1>1
  <2>2. data[i] # NoConfig
    BY <1>1, <1>2, <2>1 DEF ShapeInv, SyncInv, Configured, Wants, Unconfigured
  <2>3. data[i] \in Configs \cup {NoConfig}
    BY <1>2, ConfigurationsAssumption
  <2>4. /\ i \in Physical <=> data[i].type = "ethernet"
        /\ data[i].base # NoInterface => data[i].type = "vlan" /\ data[i].base \in Physical
        /\ i \notin {data[i].base, data[i].master}
    BY <1>2, <2>2, ConfigurationsAssumption
  <2> QED
    BY <2>2, <2>3, <2>4 DEF Nothing
<1>4. /\ old \in Entities /\ (i \in Physical => old.type = "ethernet")
      /\ entity[i] = NoEntity => /\ old.config = NoConfig /\ old.ifindex = NoIndex
                                 /\ old.up = FALSE
      /\ entity[i] # NoEntity => old = entity[i]
  <2>1. CASE entity[i] = NoEntity
    <3>1. old = New(data[i].type) /\ data[i].type \in Types
      BY <1>3, <2>1, ConfigShape
    <3> QED
      BY <1>3, <2>1, <3>1 DEF New, Entities, NoIndex
  <2>2. CASE entity[i] # NoEntity
    BY <1>2, <2>2 DEF Fits
  <2> QED
    BY <2>1, <2>2
<1>5. /\ e \in Entities /\ e.config = data[i] /\ e.type = old.type
      /\ e.ifindex = old.ifindex /\ e.up = old.up
      /\ old.config = data[i] => e = old
  <2> HIDE DEF old
  <2>1. old \in Entities
    BY <1>4
  <2> QED
    BY <1>3, <2>1 DEF Entities
<1> HIDE DEF k, old, e
<1>6. Wants(e) /\ Fits(e, i) /\ e # NoEntity
  BY <1>3, <1>4, <1>5, EntityShape, ConfigShape DEF Wants, Fits
<1>7. entity'[i] = e /\ \A j \in Interfaces : j # i => entity'[j] = entity[j]
  BY <1>1, <1>2
<1>8. SameReport(entity[i], e)
  BY <1>4, <1>5, <1>6 DEF SameReport
<1>9. e = old => entity[i] = e
  BY <1>3, <1>4, <1>5, ConfigShape
<1>10. e # old => Applied(k, a, i, e)
  BY <1>2, <1>5, <1>6, ApplyLeads
<1>11. e = old => a = k
  OBVIOUS
<1> HIDE DEF a
<1>12. /\ Leads(k, a) /\ Grown(k, a, i)
       /\ There(a, i) /\ ~There(k, i) => e.type # "ethernet"
       /\ ~a.ok => e # old
  BY <1>2, <1>10, <1>11, LeadsItself, KeptGrown DEF Applied
<1>13. /\ link' \in [Interfaces -> Links \cup {NoLink}]
       /\ created' \in [Interfaces -> Nat] /\ queue' \in Seq(Events)
       /\ \A j \in Interfaces : Sound(link'[j], j) /\ ToldAt(k, a, j)
       /\ \A j \in Interfaces : Coming(queue, j) => Coming(queue', j)
  BY <1>1, <1>2, <1>12, LeadsShape
<1>14. /\ \A j \in Interfaces : /\ link[j] # NoLink => link'[j] # NoLink /\ SameLink(link[j], link'[j])
                                /\ link'[j] # NoLink /\ link[j] = NoLink
                                      => j = i /\ Coming(queue', j)
       /\ link'[i] # NoLink /\ link[i] = NoLink => e.type # "ethernet"
  BY <1>1, <1>2, <1>12 DEF Grown, There
<1>15. ShapeInv'
  <2>1. entity' \in [Interfaces -> Entities \cup {NoEntity}]
    BY <1>1, <1>2, <1>5
  <2>2. \A j \in Interfaces : Sound(link'[j], j) /\ Fits(entity'[j], j)
    BY <1>2, <1>6, <1>7, <1>13 DEF ShapeInv
  <2>3. \A j \in todo : data[j] # NoConfig
    BY <1>1, <1>2 DEF ShapeInv, TypeOK, SyncInv, Configured, Wants, Unconfigured
  <2>4. CASE reached
    <3>1. TypeOK'
      BY <1>1, <1>2, <1>13, <2>1, <2>4 DEF ShapeInv, TypeOK
    <3>2. LoopInv'
      BY <1>1, <1>2, <1>6, <1>7, <2>4 DEF ShapeInv, LoopInv, Configuring, Waiting
    <3>3. SyncInv'
      BY <1>1, <1>2, <1>3, <1>5, <1>6, <1>7, <2>4, ConfigShape
         DEF ShapeInv, SyncInv, Configured, Matches
    <3> QED
      BY <2>2, <3>1, <3>2, <3>3 DEF ShapeInv
  <2>5. CASE undone
    <3>1. TypeOK'
      BY <1>1, <1>2, <1>13, <2>1, <2>5, ToReachShape DEF ShapeInv, TypeOK
    <3>2. LoopInv'
      BY <1>1, <1>2, <1>6, <1>7, <2>5 DEF ShapeInv, LoopInv, Configuring, Waiting
    <3>3. SyncInv'
      BY <1>1, <1>2, <2>5, ToReachShape DEF ShapeInv, SyncInv, Configured, Matches
    <3> QED
      BY <2>2, <3>1, <3>2, <3>3 DEF ShapeInv
  <2>6. CASE lost
    <3>1. TypeOK'
      BY <1>1, <1>2, <1>13, <2>1, <2>6 DEF ShapeInv, TypeOK
    <3>2. LoopInv'
      BY <1>1, <1>2, <1>6, <1>7, <2>6 DEF ShapeInv, LoopInv, Configuring, Waiting
    <3>3. SyncInv'
      BY <1>1, <1>2, <1>3, <1>7, <2>3, <2>6, ConfigShape DEF ShapeInv, SyncInv, Configured
    <3> QED
      BY <2>2, <3>1, <3>2, <3>3 DEF ShapeInv
  <2> QED
    BY <1>1, <2>4, <2>5, <2>6
<1>16. ToldInv'
  <2> SUFFICES ASSUME NEW j \in Interfaces
               PROVE  /\ LastSays(queue', j, link'[j])
                      /\ Noted(queue', j, link'[j], entity'[j], Missed(j)')
    BY DEF ToldInv
  <2>1. /\ LastSays(k.queue, j, k.link[j])
        /\ Noted(k.queue, j, k.link[j], entity[j], Missed(j))
    BY <1>2 DEF IInv, ToldInv
  <2>2. Missed(j)' = Missed(j) /\ Missed(j) \in BOOLEAN
    BY <1>1 DEF Missed
  <2>3. SameReport(entity[j], entity'[j])
    BY <1>7, <1>8 DEF SameReport
  <2> QED
    BY <1>1, <1>13, <2>1, <2>2, <2>3, NotedOn
(* An entity that was changed and could not be applied is applied again. *)
<1>17. ASSUME ~broken', ~Due(i)'
       PROVE  reached /\ (~Due(i) \/ e # old)
  <2>1. ~lost
    BY <1>17
  <2>2. ~undone
    <3> SUFFICES ASSUME undone PROVE FALSE
      OBVIOUS
    <3>1. i \in todo'
      BY <1>6, <1>7, ToReachShape
    <3>2. Matches(entity[i], previous[i])
      BY <1>1, <1>2, <1>17 DEF ShapeInv, SyncInv
    <3>3. ~Matches(e, previous[i])
      BY <1>4, <1>5, <1>6, <1>12, <3>2 DEF Matches, Wants
    <3> QED
      BY <1>7, <1>17, <3>1, <3>3 DEF Due
  <2>3. e = old => Matches(entity[i], data[i])
    BY <1>3, <1>5, <1>6, <1>9, ConfigShape DEF Matches
  <2> QED
    BY <1>1, <2>1, <2>2, <2>3 DEF Due
<1>18. ASSUME NEW j \in Interfaces, j # i, ~broken', ~Due(j)'
       PROVE  ~Due(j) /\ ~broken
  BY <1>1, <1>7, <1>18 DEF Due
<1>19. UpInv'
  <2> SUFFICES ASSUME NEW j \in Interfaces \ stuck', ~broken', ~Due(j)'
               PROVE  UpAt(queue', j, link'[j], entity'[j])
    BY DEF UpInv
  <2>1. CASE j = i /\ e # old
    <3>1. a.ok
      BY <1>17, <2>1
    <3>2. /\ Noted(k.queue, i, k.link[i], entity[i], Missed(i))
          /\ Missed(i) \in BOOLEAN /\ Sound(k.link[i], i)
      BY <1>2 DEF IInv, ToldInv, Missed, ShapeInv
    <3>3. UpAt(a.queue, i, a.link[i], e)
      BY <1>8, <1>10, <1>13, <2>1, <3>1, <3>2, UpApplied
    <3> QED
      BY <1>1, <1>7, <2>1, <3>3
  <2>2. CASE ~(j = i /\ e # old)
    <3>1. ~Due(j) /\ ~broken /\ j \notin stuck /\ entity'[j] = entity[j]
      BY <1>1, <1>7, <1>9, <1>17, <1>18, <2>2
    <3>2. UpAt(k.queue, j, k.link[j], entity[j])
      BY <1>2, <3>1 DEF IInv, UpInv
    <3> QED
      BY <1>1, <1>13, <3>1, <3>2, UpOn
  <2> QED
    BY <2>1, <2>2
<1>20. ThereInv'
  <2> SUFFICES ASSUME NEW j \in Interfaces \ (stuck' \cup taken'), ~broken', ~Due(j)',
                      Wants(entity'[j]), entity'[j].type # "ethernet", link'[j] = NoLink,
                      NEW b, b = entity'[j].config.base
               PROVE  /\ b # NoInterface
                      /\ link'[b] # NoLink /\ j \in Waiting(b) => Announced(queue, j, b)'
    BY <1>1 DEF ThereInv, Exists, Waiting, Announced
  <2>1. CASE j = i /\ e # old
    <3>1. a.ok /\ ~There(a, i)
      BY <1>1, <1>17, <2>1 DEF There
    <3>2. b # NoInterface /\ Ifindex(b) = NoIndex
      BY <1>6, <1>7, <1>10, <2>1, <3>1 DEF Applied, Delayed
    <3>3. b \in Interfaces
      BY <1>6, <1>7, <2>1, <3>2, ConfigurationsAssumption DEF Fits, Wants, Nothing
    <3>4. ASSUME link'[b] # NoLink
          PROVE  Coming(queue', b)
      <4>1. CASE link[b] = NoLink
        BY <1>14, <3>3, <3>4, <4>1
      <4>2. CASE link[b] # NoLink
        <5>1. /\ LastSays(queue, b, link[b])
              /\ Noted(queue, b, link[b], entity[b], Missed(b))
              /\ Missed(b) \in BOOLEAN /\ Sound(link[b], b) /\ queue \in Seq(Events)
          BY <1>2, <3>3, QueueIs DEF IInv, ToldInv, Missed, ShapeInv
        <5>2. entity[b] # NoEntity => entity[b].ifindex = NoIndex
          BY <3>2 DEF Ifindex
        <5>3. Coming(queue, b)
          BY <4>2, <5>1, <5>2, ComingBecause
        <5> QED
          BY <1>13, <3>3, <5>3
      <4> QED
        BY <4>1, <4>2
    <3> QED
      BY <3>2, <3>4 DEF Announced
  <2>2. CASE ~(j = i /\ e # old)
    <3>1. /\ ~Due(j) /\ ~broken /\ j \notin stuck /\ entity'[j] = entity[j] /\ link[j] = NoLink
      BY <1>1, <1>7, <1>9, <1>14, <1>17, <1>18, <2>2
    <3>2. j \notin taken
      BY <1>1 DEF There
    <3>3. /\ b # NoInterface
          /\ link[b] # NoLink /\ j \in Waiting(b) => Announced(queue, j, b)
      BY <3>1, <3>2 DEF IInv, ThereInv, Exists
    <3>4. b \in Interfaces
      BY <3>1, <3>3, ConfigurationsAssumption DEF IInv, ShapeInv, Fits, Wants, Nothing
    <3> QED
      BY <1>1, <1>13, <1>14, <3>3, <3>4 DEF Announced
  <2> QED
    BY <2>1, <2>2
<1>21. OwnInv'
  <2> SUFFICES ASSUME NEW j \in Interfaces \ orphaned, link'[j] # NoLink, link'[j].own
               PROVE  Wants(entity'[j]) /\ entity'[j].type # "ethernet"
    BY <1>1 DEF OwnInv, Exists
  <2>1. CASE link[j] # NoLink
    <3>1. Wants(entity[j]) /\ entity[j].type # "ethernet"
      BY <1>14, <2>1 DEF IInv, OwnInv, Exists, SameLink
    <3> QED
      BY <1>4, <1>5, <1>6, <1>7, <3>1 DEF Wants
  <2>2. CASE link[j] = NoLink
    BY <1>6, <1>7, <1>14, <2>2
  <2> QED
    BY <2>1, <2>2
<1> QED
  BY <1>15, <1>16, <1>19, <1>20, <1>21 DEF IInv

-----------------------------------------------------------------------------
(* The handlers of the reports. *)

LEMMA HeadIs ==
    ASSUME IInv, NEW op, Handle(op)
    PROVE  /\ queue \in Seq(Events) /\ queue # <<>> /\ Tail(queue) \in Seq(Events)
           /\ Head(queue) \in Events /\ Head(queue).op = op /\ task = "idle"
           /\ Head(queue).name \in Interfaces /\ Head(queue).index \in Nat
           /\ Head(queue).up \in BOOLEAN
<1>1. queue \in Seq(Events) /\ queue # <<>> /\ Head(queue).op = op /\ task = "idle"
  BY QueueIs DEF Handle, Idle
<1>2. Tail(queue) \in Seq(Events) /\ Head(queue) \in Events
  BY <1>1
<1> QED
  BY <1>1, <1>2 DEF Events

(* What was reported of a link is noted, and what waits for it is told. *)
LEMMA HandleInterfaceAddKeeps ==
    ASSUME IInv, HandleInterfaceAdd
    PROVE  IInv'
<1> DEFINE x == Head(queue)
           i == x.name
           k == Kernel(queue)
           b == Kernel(Tail(queue))
           old == IF entity[i] = NoEntity THEN New("ethernet") ELSE entity[i]
           e == [old EXCEPT !.ifindex = x.index, !.up = x.up]
           a == IF IsDown(e) THEN ApplyLinkConfig(b, i, e) ELSE b
           told == /\ a.ok /\ task' = "linkup" /\ event' = x /\ left' = dependencies[i]
                   /\ stuck' = IF There(a, i) THEN stuck \ {i} ELSE stuck
           failed == /\ ~a.ok /\ task' = task /\ event' = event /\ left' = left
                     /\ stuck' = stuck \cup {i} \cup Waiting(i)
<1>1. /\ data' = data /\ previous' = previous /\ dependencies' = dependencies
      /\ todo' = todo /\ changes' = changes /\ taken' = taken /\ orphaned' = orphaned
      /\ broken' = broken /\ stale' = stale \ {i}
      /\ link' = a.link /\ created' = a.created /\ queue' = a.queue
      /\ entity' = [entity EXCEPT ![i] = e]
      /\ told \/ failed
  BY DEF HandleInterfaceAdd, config, Becomes, Begin
<1>2. /\ queue \in Seq(Events) /\ queue # <<>> /\ Tail(queue) \in Seq(Events)
      /\ x \in Events /\ x.op = "newlink" /\ task = "idle" /\ i \in Interfaces
      /\ x.index \in Nat /\ x.up \in BOOLEAN
  BY HeadIs DEF HandleInterfaceAdd
<1>3. /\ ShapeInv /\ IsSound(k) /\ k.link = link /\ k.queue = queue
      /\ IsSound(b) /\ b.link = link /\ b.queue = Tail(queue)
      /\ entity \in [Interfaces -> Entities \cup {NoEntity}] /\ Fits(entity[i], i)
      /\ todo = {}
  BY <1>2, QueueIs, KernelIs DEF ShapeInv, TypeOK, LoopInv, Configuring
<1>4. \A j \in Interfaces : j # i => ToldAt(k, b, j)
  BY <1>2, <1>3, TakenTold DEF About
<1>5. LastSays(Tail(queue), i, link[i]) /\ (Silent(Tail(queue), i) => Says(x, link[i]))
  <2>1. LastSays(queue, i, link[i])
    BY <1>2 DEF IInv, ToldInv
  <2>2. About(x, i)
    BY <1>2 DEF About
  <2> QED
    BY <1>2, <2>1, <2>2, TakenSays
<1>6. /\ old \in Entities /\ (entity[i] # NoEntity => old = entity[i])
      /\ entity[i] = NoEntity => old.config = NoConfig /\ old.type = "ethernet"
  BY <1>2, <1>3 DEF New, Entities, NoIndex, Types
<1>7. /\ e \in Entities /\ e.config = old.config /\ e.type = old.type
      /\ e.ifindex = x.index /\ e.up = x.up /\ e # NoEntity
  <2> HIDE DEF old, x
  <2>1. e \in Entities /\ e.config = old.config /\ e.type = old.type
        /\ e.ifindex = x.index /\ e.up = x.up
    BY <1>2, <1>6 DEF Entities
  <2> QED
    BY <2>1, EntityShape
<1> HIDE DEF x, i, k, b, old, e
<1>8. entity'[i] = e /\ \A j \in Interfaces : j # i => entity'[j] = entity[j]
  BY <1>1, <1>2, <1>3
<1>9. /\ Fits(e, i) /\ (Wants(e) <=> Wants(entity[i]))
      /\ Wants(e) => e.config = entity[i].config /\ e.type = entity[i].type
  BY <1>3, <1>6, <1>7 DEF Fits, Wants
<1>10. /\ Leads(b, a) /\ Kept(b, a)
       /\ a.ok /\ IsDown(e) => There(a, i) /\ a.link[i].up
  <2>1. CASE IsDown(e)
    <3>1. e.config # NoConfig /\ e.config.up
      BY <2>1 DEF IsDown
    <3>2. Upped(b, ApplyLinkConfig(b, i, e), i, e.config.up)
      BY <1>2, <1>3, <1>7, <3>1, LinkConfigLeads
    <3> QED
      BY <2>1, <3>1, <3>2 DEF Upped
  <2>2. CASE ~IsDown(e)
    BY <1>3, <2>2, LeadsItself
  <2> QED
    BY <2>1, <2>2
<1> HIDE DEF a
<1>11. /\ link' \in [Interfaces -> Links \cup {NoLink}]
       /\ created' \in [Interfaces -> Nat] /\ queue' \in Seq(Events)
       /\ \A j \in Interfaces : Sound(link'[j], j) /\ ToldAt(b, a, j)
       /\ \A j \in Interfaces : Coming(Tail(queue), j) => Coming(queue', j)
  <2>1. link' = a.link /\ created' = a.created /\ queue' = a.queue /\ b.queue = Tail(queue)
    BY <1>1, <1>3
  <2>2. /\ a.link \in [Interfaces -> Links \cup {NoLink}]
        /\ a.created \in [Interfaces -> Nat] /\ a.queue \in Seq(Events)
        /\ \A j \in Interfaces : /\ Sound(a.link[j], j) /\ ToldAt(b, a, j)
                                 /\ Coming(b.queue, j) => Coming(a.queue, j)
    BY <1>10, LeadsShape
  <2> QED
    BY <2>1, <2>2
<1>12. \A j \in Interfaces : /\ link'[j] # NoLink <=> link[j] # NoLink
                             /\ link'[j] # NoLink => SameLink(link[j], link'[j])
  BY <1>1, <1>3, <1>10 DEF Kept, There
<1>13. \A j \in Interfaces : j # i /\ Coming(queue, j) => Coming(queue', j)
  BY <1>3, <1>4, <1>11 DEF ToldAt
<1>14. ShapeInv'
  <2>1. \A j \in Interfaces : Sound(link'[j], j) /\ Fits(entity'[j], j)
    BY <1>3, <1>8, <1>9, <1>11 DEF ShapeInv
  <2>2. entity' \in [Interfaces -> Entities \cup {NoEntity}]
    BY <1>1, <1>3, <1>7
  <2>3. Waiting(i) \in SUBSET Interfaces /\ dependencies[i] \in Seq(Interfaces)
    <3>1. dependencies[i] \in Seq(Interfaces)
      BY <1>2, <1>3 DEF ShapeInv, TypeOK
    <3> QED
      BY <3>1 DEF Waiting, Range
  <2>4. TypeOK'
    BY <1>1, <1>2, <1>3, <1>11, <2>2, <2>3 DEF ShapeInv, TypeOK
  <2>5. \A j \in Interfaces : Wants(entity'[j]) <=> Wants(entity[j])
    BY <1>8, <1>9
  <2>6. \A j \in Interfaces : entity[j] # NoEntity => entity'[j] # NoEntity
    BY <1>7, <1>8
  <2>7. LoopInv'
    <3>1. \A j \in Interfaces : \A n \in Waiting(j) : n \in Interfaces /\ entity[n] # NoEntity
      BY <1>3 DEF ShapeInv, TypeOK, LoopInv, Waiting, Range
    <3>2. \A j \in Interfaces : \A n \in Waiting(j) : entity'[n] # NoEntity
      BY <2>6, <3>1
    <3>3. told => \A n \in Range(left') : entity'[n] # NoEntity
      BY <1>2, <3>2 DEF Waiting
    <3>4. \A j \in Interfaces : IsInjective(dependencies[j])
      BY <1>3 DEF ShapeInv, LoopInv
    <3>5. task' \in {"linkup", "linkdown"} => event' \in Events
      BY <1>1, <1>2
    <3>6. ~Configuring' /\ todo' = {}
      BY <1>1, <1>2, <1>3 DEF Configuring
    <3>7. task' \in {"linkup", "linkdown"} => told
      BY <1>1, <1>2
    <3> QED
      BY <1>1, <3>2, <3>3, <3>4, <3>5, <3>6, <3>7 DEF LoopInv, Waiting
  <2>8. SyncInv'
    <3>1. \A j \in Interfaces : \A c : Matches(entity[j], c) => Matches(entity'[j], c)
      BY <1>8, <1>9 DEF Matches
    <3> QED
      BY <1>1, <1>2, <1>3, <2>5, <3>1 DEF ShapeInv, SyncInv, Configured
  <2> QED
    BY <2>1, <2>4, <2>7, <2>8 DEF ShapeInv
<1>15. \A j \in Interfaces : /\ Missed(j) <=> j \in stale
                             /\ Missed(j)' <=> j \in stale /\ j # i
  BY <1>1, <1>2 DEF Missed
<1>16. Noted(Tail(queue), i, link[i], e, FALSE)
  BY <1>2, <1>5, <1>7 DEF Noted, Agrees, Says
<1>17. ToldInv'
  <2> SUFFICES ASSUME NEW j \in Interfaces
               PROVE  /\ LastSays(queue', j, link'[j])
                      /\ Noted(queue', j, link'[j], entity'[j], Missed(j)')
    BY DEF ToldInv
  <2>1. CASE j = i
    <3>1. /\ LastSays(b.queue, i, b.link[i])
          /\ Noted(b.queue, i, b.link[i], e, FALSE)
      BY <1>3, <1>5, <1>16
    <3>2. SameReport(e, e)
      BY DEF SameReport
    <3>3. LastSays(a.queue, i, a.link[i]) /\ Noted(a.queue, i, a.link[i], e, FALSE)
      BY <1>2, <1>11, <3>1, <3>2, NotedOn
    <3>4. ~Missed(j)'
      BY <1>15, <2>1
    <3> QED
      BY <1>1, <1>8, <2>1, <3>3, <3>4 DEF Noted
  <2>2. CASE j # i
    <3>1. /\ LastSays(k.queue, j, k.link[j])
          /\ Noted(k.queue, j, k.link[j], entity[j], Missed(j))
      BY <1>3 DEF IInv, ToldInv
    <3>2. Missed(j)' = Missed(j) /\ Missed(j) \in BOOLEAN
      BY <1>15, <2>2 DEF Missed
    <3>3. SameReport(entity[j], entity[j])
      BY DEF SameReport
    <3>4. ToldAt(k, a, j)
      BY <1>4, <1>11, <2>2, ToldOn
    <3> QED
      BY <1>1, <1>8, <2>2, <3>1, <3>2, <3>3, <3>4, NotedOn
  <2> QED
    BY <2>1, <2>2
<1>18. \A j : ~Due(j) /\ ~Due(j)'
  BY <1>1, <1>2 DEF Due
<1>19. UpInv'
  <2> SUFFICES ASSUME NEW j \in Interfaces \ stuck', ~broken
               PROVE  UpAt(queue', j, link'[j], entity'[j])
    BY <1>1 DEF UpInv
  <2>1. CASE j = i
    <3> SUFFICES ASSUME Wants(e), e.config.up, link'[i] # NoLink, Silent(queue', i)
                 PROVE  link'[i].up
      BY <1>8, <2>1 DEF UpAt
    <3>1. a.ok
      BY <1>1, <2>1
    <3>2. CASE IsDown(e)
      BY <1>1, <1>10, <3>1, <3>2
    <3>3. CASE ~IsDown(e)
      <4>1. e.up
        BY <3>3 DEF IsDown, Wants
      <4>2. Silent(Tail(queue), i) /\ SameFace(link[i], link'[i])
        BY <1>1, <1>2, <1>3, <1>11 DEF ToldAt
      <4>3. Agrees(e, link[i])
        BY <1>16, <4>2 DEF Noted
      <4> QED
        BY <4>1, <4>2, <4>3 DEF Agrees, SameFace
    <3> QED
      BY <3>2, <3>3
  <2>2. CASE j # i
    <3>1. j \notin stuck
      BY <1>1, <2>2
    <3>2. UpAt(k.queue, j, k.link[j], entity[j])
      BY <1>3, <1>18, <3>1 DEF IInv, UpInv
    <3>3. ToldAt(k, a, j)
      BY <1>4, <1>11, <2>2, ToldOn
    <3> QED
      BY <1>1, <1>8, <2>2, <3>2, <3>3, UpOn
  <2> QED
    BY <2>1, <2>2
<1>20. ThereInv'
  <2> SUFFICES ASSUME NEW j \in Interfaces \ (stuck' \cup taken), ~broken,
                      Wants(entity'[j]), entity'[j].type # "ethernet", link'[j] = NoLink,
                      NEW c, c = entity'[j].config.base
               PROVE  /\ c # NoInterface
                      /\ link'[c] # NoLink /\ j \in Waiting(c) => Announced(queue, j, c)'
    BY <1>1 DEF ThereInv, Exists, Waiting, Announced
  <2>1. /\ Wants(entity[j]) /\ entity[j].type # "ethernet" /\ c = entity[j].config.base
        /\ link[j] = NoLink
    BY <1>8, <1>9, <1>12
  <2>2. j \notin stuck
    BY <1>1 DEF There
  <2>3. /\ c # NoInterface
        /\ link[c] # NoLink /\ j \in Waiting(c) => Coming(queue, c)
    BY <1>2, <1>18, <2>1, <2>2 DEF IInv, ThereInv, Exists, Announced
  <2>4. c \in Interfaces
    BY <2>1, <2>3, ConfigurationsAssumption DEF IInv, ShapeInv, Fits, Wants, Nothing
  <2> SUFFICES ASSUME link'[c] # NoLink, j \in Waiting(c)
               PROVE  Announced(queue, j, c)'
    BY <2>3
  <2>5. Coming(queue, c)
    BY <1>12, <2>3, <2>4
  <2>6. CASE c # i
    BY <1>13, <2>4, <2>5, <2>6 DEF Announced
  <2>7. CASE c = i
    <3>1. j \in Range(dependencies[i])
      BY <2>7 DEF Waiting
    <3>2. told
      BY <1>1, <2>7
    <3> QED
      BY <2>7, <3>1, <3>2 DEF Announced, i
  <2> QED
    BY <2>6, <2>7
<1>21. OwnInv'
  <2> SUFFICES ASSUME NEW j \in Interfaces \ orphaned, link'[j] # NoLink, link'[j].own
               PROVE  Wants(entity'[j]) /\ entity'[j].type # "ethernet"
    BY <1>1 DEF OwnInv, Exists
  <2>1. Wants(entity[j]) /\ entity[j].type # "ethernet"
    BY <1>12 DEF IInv, OwnInv, Exists, SameLink
  <2> QED
    BY <1>8, <1>9, <2>1
<1> QED
  BY <1>14, <1>17, <1>19, <1>20, <1>21 DEF IInv

(* The end of a link is known before it is noted. *)
LEMMA HandleInterfaceRemoveKeeps ==
    ASSUME IInv, HandleInterfaceRemove
    PROVE  IInv'
<1>1. PICK i : i = Head(queue).name
  OBVIOUS
<1> DEFINE k == Kernel(queue)
           b == Kernel(Tail(queue))
<1>2. /\ link' = link /\ created' = created /\ queue' = Tail(queue)
      /\ data' = data /\ previous' = previous /\ entity' = entity
      /\ dependencies' = dependencies /\ todo' = todo /\ changes' = changes
      /\ taken' = taken /\ orphaned' = orphaned /\ stale' = stale /\ stuck' = stuck
      /\ broken' = broken
      /\ task' = "linkdown" /\ event' = Head(queue) /\ left' = dependencies[i]
  BY <1>1 DEF HandleInterfaceRemove, Begin, config, provider, history
<1>3. /\ queue \in Seq(Events) /\ queue # <<>> /\ Tail(queue) \in Seq(Events)
      /\ Head(queue) \in Events /\ Head(queue).op = "dellink" /\ task = "idle"
      /\ i \in Interfaces
  BY <1>1, HeadIs DEF HandleInterfaceRemove
<1>4. /\ ShapeInv /\ k.link = link /\ k.queue = queue /\ b.link = link
      /\ b.queue = Tail(queue) /\ todo = {}
  BY <1>3, QueueIs, KernelIs DEF ShapeInv, LoopInv, Configuring
<1>5. \A j \in Interfaces : j # i => ToldAt(k, b, j)
  BY <1>1, <1>3, <1>4, TakenTold DEF About
<1>6. LastSays(Tail(queue), i, link[i]) /\ (Silent(Tail(queue), i) => link[i] = NoLink)
  <2>1. LastSays(queue, i, link[i])
    BY <1>3 DEF IInv, ToldInv
  <2>2. About(Head(queue), i)
    BY <1>1, <1>3 DEF About
  <2>3. Says(Head(queue), link[i]) => link[i] = NoLink
    BY <1>3 DEF Says
  <2> QED
    BY <1>3, <2>1, <2>2, <2>3, TakenSays
<1>7. \A j \in Interfaces : Coming(queue, j) => Coming(Tail(queue), j)
  BY <1>3, TakenSays
<1> HIDE DEF k, b
<1>8. ShapeInv'
  <2>1. TypeOK' /\ SyncInv'
    BY <1>2, <1>3, <1>4 DEF ShapeInv, TypeOK, SyncInv, Configured
  <2>2. LoopInv'
    BY <1>2, <1>3, <1>4 DEF ShapeInv, LoopInv, Configuring, Waiting
  <2> QED
    BY <1>2, <1>4, <2>1, <2>2 DEF ShapeInv
<1>9. \A j \in Interfaces : /\ Missed(j) <=> j \in stale
                            /\ Missed(j)' <=> j \in stale \/ j = i
  BY <1>1, <1>2, <1>3 DEF Missed
<1>10. ToldInv'
  <2> SUFFICES ASSUME NEW j \in Interfaces
               PROVE  /\ LastSays(queue', j, link'[j])
                      /\ Noted(queue', j, link'[j], entity'[j], Missed(j)')
    BY DEF ToldInv
  <2>1. CASE j = i
    BY <1>2, <1>6, <1>9, <2>1 DEF Noted
  <2>2. CASE j # i
    <3>1. /\ LastSays(k.queue, j, k.link[j])
          /\ Noted(k.queue, j, k.link[j], entity[j], Missed(j))
      BY <1>4 DEF IInv, ToldInv
    <3>2. Missed(j)' = Missed(j) /\ Missed(j) \in BOOLEAN
      BY <1>9, <2>2 DEF Missed
    <3>3. SameReport(entity[j], entity[j])
      BY DEF SameReport
    <3> QED
      BY <1>2, <1>4, <1>5, <2>2, <3>1, <3>2, <3>3, NotedOn
  <2> QED
    BY <2>1, <2>2
<1>11. \A j : ~Due(j) /\ ~Due(j)'
  BY <1>2, <1>3 DEF Due
<1>12. UpInv'
  <2> SUFFICES ASSUME NEW j \in Interfaces \ stuck, ~broken
               PROVE  UpAt(queue', j, link'[j], entity'[j])
    BY <1>2 DEF UpInv
  <2>1. CASE j = i
    BY <1>2, <1>6, <2>1 DEF UpAt
  <2>2. CASE j # i
    <3>1. UpAt(k.queue, j, k.link[j], entity[j])
      BY <1>4, <1>11 DEF IInv, UpInv
    <3> QED
      BY <1>2, <1>4, <1>5, <2>2, <3>1, UpOn
  <2> QED
    BY <2>1, <2>2
<1>13. ThereInv'
  <2> SUFFICES ASSUME NEW j \in Interfaces \ (stuck \cup taken), ~broken,
                      Wants(entity[j]), entity[j].type # "ethernet", link[j] = NoLink,
                      NEW c, c = entity[j].config.base
               PROVE  /\ c # NoInterface
                      /\ link[c] # NoLink /\ j \in Waiting(c) => Announced(queue, j, c)'
    BY <1>2 DEF ThereInv, Exists, Waiting, Announced
  <2>1. /\ c # NoInterface
        /\ link[c] # NoLink /\ j \in Waiting(c) => Coming(queue, c)
    BY <1>3, <1>11 DEF IInv, ThereInv, Exists, Announced
  <2>2. c \in Interfaces
    BY <2>1, ConfigurationsAssumption DEF IInv, ShapeInv, Fits, Wants, Nothing
  <2> QED
    BY <1>2, <1>7, <2>1, <2>2 DEF Announced
<1>14. OwnInv'
  BY <1>2 DEF IInv, OwnInv, Exists
<1> QED
  BY <1>8, <1>10, <1>12, <1>13, <1>14 DEF IInv

LEMMA DependentsToldKeeps ==
    ASSUME IInv, DependentsTold
    PROVE  IInv'
<1>1. /\ link' = link /\ created' = created /\ queue' = queue
      /\ data' = data /\ previous' = previous /\ entity' = entity
      /\ dependencies' = dependencies /\ todo' = todo /\ changes' = changes
      /\ taken' = taken /\ orphaned' = orphaned /\ stale' = stale /\ stuck' = stuck
      /\ broken' = broken
      /\ task = "linkup" /\ left = <<>> /\ task' = "idle" /\ event' = NoEvent /\ left' = left
  BY DEF DependentsTold, LoopEnds, kernel, config, provider, history
<1>2. ShapeInv'
  BY <1>1 DEF IInv, ShapeInv, TypeOK, LoopInv, SyncInv, Configuring, Waiting, Configured
<1>3. \A j \in Interfaces : Missed(j)' = Missed(j)
  BY <1>1 DEF Missed
<1>4. ToldInv'
  BY <1>1, <1>3 DEF IInv, ToldInv
<1>5. \A j : ~Due(j) /\ ~Due(j)'
  BY <1>1 DEF Due
<1>6. UpInv'
  BY <1>1, <1>5 DEF IInv, UpInv
<1>7. \A j, b : Announced(queue, j, b) => Announced(queue, j, b)'
  BY <1>1 DEF Announced, Range
<1>8. ThereInv'
  BY <1>1, <1>5, <1>7 DEF IInv, ThereInv, Exists, Waiting
<1>9. OwnInv'
  BY <1>1 DEF IInv, OwnInv, Exists
<1> QED
  BY <1>2, <1>4, <1>6, <1>8, <1>9 DEF IInv

LEMMA WithoutShape ==
    ASSUME NEW names \in Seq(Interfaces), IsInjective(names), NEW i
    PROVE  /\ Without(names, i) \in Seq(Interfaces) /\ IsInjective(Without(names, i))
           /\ Range(Without(names, i)) = Range(names) \ {i}
<1> DEFINE n == CHOOSE m \in DOMAIN names : names[m] = i
           s == RemoveAt(names, n)
<1>1. CASE i \notin Range(names)
  BY <1>1 DEF Without
<1>2. CASE i \in Range(names)
  <2>1. n \in DOMAIN names /\ names[n] = i
    BY <1>2 DEF Range
  <2>2. s = SubSeq(names, 1, n - 1) \o SubSeq(names, n + 1, Len(names))
    BY DEF RemoveAt
  <2>3. Without(names, i) = s
    BY <1>2 DEF Without
  <2>4. /\ DOMAIN names = 1..Len(names) /\ Len(names) \in Nat
        /\ \A m \in DOMAIN names : names[m] \in Interfaces
    OBVIOUS
  <2> HIDE DEF n, s
  <2>5. n \in Nat /\ 1 <= n /\ n <= Len(names)
    BY <2>1, <2>4
  <2>6. /\ s \in Seq(Interfaces) /\ Len(s) = Len(names) - 1
        /\ \A m \in 1..Len(s) : s[m] = IF m < n THEN names[m] ELSE names[m + 1]
    <3> DEFINE p == SubSeq(names, 1, n - 1)
               q == SubSeq(names, n + 1, Len(names))
    <3>1. 1 \in Int /\ n - 1 \in Int /\ n + 1 \in Int /\ Len(names) \in Int
      BY <2>4, <2>5
    <3>2. /\ p \in Seq(Interfaces) /\ Len(p) = n - 1
          /\ \A m \in 1..(n - 1) : p[m] = names[m]
      <4>1. \A m \in 1..(n - 1) : names[m] \in Interfaces
        BY <2>4, <2>5
      <4>2. /\ p \in Seq(Interfaces)
            /\ Len(p) = IF 1 <= n - 1 THEN n - 1 - 1 + 1 ELSE 0
            /\ \A m \in 1..(n - 1 - 1 + 1) : p[m] = names[1 + m - 1]
        BY <3>1, <4>1, SubSeqProperties
      <4> HIDE DEF p
      <4>3. Len(p) = n - 1 /\ n - 1 - 1 + 1 = n - 1
        BY <2>5, <4>2
      <4>4. \A m \in 1..(n - 1) : 1 + m - 1 = m
        BY <2>5
      <4> QED
        BY <4>2, <4>3, <4>4
    <3>3. /\ q \in Seq(Interfaces) /\ Len(q) = Len(names) - n
          /\ \A m \in 1..(Len(names) - n) : q[m] = names[n + m]
      <4>1. \A m \in (n + 1)..Len(names) : names[m] \in Interfaces
        BY <2>4, <2>5
      <4>2. /\ q \in Seq(Interfaces)
            /\ Len(q) = IF n + 1 <= Len(names) THEN Len(names) - (n + 1) + 1 ELSE 0
            /\ \A m \in 1..(Len(names) - (n + 1) + 1) : q[m] = names[(n + 1) + m - 1]
        BY <3>1, <4>1, SubSeqProperties
      <4> HIDE DEF q
      <4>3. Len(names) - (n + 1) + 1 = Len(names) - n
        BY <2>4, <2>5
      <4>5. Len(q) = Len(names) - n
        <5>1. CASE n + 1 <= Len(names)
          BY <4>2, <4>3, <5>1
        <5>2. CASE ~(n + 1 <= Len(names))
          <6>1. \A x, y \in Nat : x <= y /\ ~(x + 1 <= y) => y - x = 0
            OBVIOUS
          <6>2. Len(names) \in Nat
            BY <2>4
          <6>3. Len(names) - n = 0
            BY <2>5, <5>2, <6>1, <6>2
          <6> QED
            BY <4>2, <5>2, <6>3
        <5> QED
          BY <5>1, <5>2
      <4>4. \A m \in 1..(Len(names) - n) : (n + 1) + m - 1 = n + m
        BY <2>5
      <4> QED
        BY <4>2, <4>3, <4>4, <4>5
    <3> HIDE DEF p, q
    <3>4. /\ p \o q \in Seq(Interfaces) /\ Len(p \o q) = Len(names) - 1
          /\ \A m \in 1..(Len(names) - 1) :
                (p \o q)[m] = IF m <= n - 1 THEN p[m] ELSE q[m - (n - 1)]
      <4>1. /\ p \o q \in Seq(Interfaces) /\ Len(p \o q) = Len(p) + Len(q)
            /\ \A m \in 1..(Len(p) + Len(q)) :
                  (p \o q)[m] = IF m <= Len(p) THEN p[m] ELSE q[m - Len(p)]
        BY <3>2, <3>3, ConcatProperties
      <4>2. Len(p) + Len(q) = Len(names) - 1
        BY <2>4, <2>5, <3>2, <3>3
      <4> QED
        BY <3>2, <4>1, <4>2
    <3>5. ASSUME NEW m \in 1..(Len(names) - 1)
          PROVE  (p \o q)[m] = IF m < n THEN names[m] ELSE names[m + 1]
      <4>1. CASE m < n
        <5>1. m \in 1..(n - 1) /\ m <= n - 1
          BY <2>5, <4>1
        <5> QED
          BY <3>2, <3>4, <4>1, <5>1
      <4>2. CASE ~(m < n)
        <5>1. /\ ~(m <= n - 1) /\ m - (n - 1) \in 1..(Len(names) - n)
              /\ n + (m - (n - 1)) = m + 1
          BY <2>4, <2>5, <4>2
        <5> QED
          BY <3>3, <3>4, <4>2, <5>1
      <4> QED
        BY <4>1, <4>2
    <3>6. s = p \o q
      BY <2>2 DEF p, q
    <3> QED
      BY <3>4, <3>5, <3>6
  <2>7. \A m \in DOMAIN s : /\ m \in Nat /\ m \in 1..Len(s)
                            /\ m < n => m \in DOMAIN names /\ s[m] = names[m]
                            /\ ~(m < n) => m + 1 \in DOMAIN names /\ s[m] = names[m + 1]
    BY <2>4, <2>5, <2>6
  <2>8. \A m \in DOMAIN names : /\ m \in Nat
                                /\ m < n => m \in DOMAIN s
                                /\ m > n => m - 1 \in DOMAIN s /\ m - 1 + 1 = m /\ ~(m - 1 < n)
    BY <2>4, <2>5, <2>6
  <2>9. IsInjective(s)
    <3>1. \A p, q \in DOMAIN names : names[p] = names[q] => p = q
      BY DEF IsInjective
    <3>2. ASSUME NEW p \in DOMAIN s, NEW q \in DOMAIN s, s[p] = s[q]
          PROVE  p = q
      BY <2>5, <2>7, <3>1, <3>2
    <3> QED
      BY <3>2 DEF IsInjective
  <2>10. Range(s) = Range(names) \ {i}
    <3>1. \A p, q \in DOMAIN names : names[p] = names[q] => p = q
      BY DEF IsInjective
    <3>2. ASSUME NEW m \in DOMAIN s
          PROVE  s[m] \in Range(names) /\ s[m] # i
      BY <2>1, <2>5, <2>7, <3>1 DEF Range
    <3>3. ASSUME NEW m \in DOMAIN names, names[m] # i
          PROVE  names[m] \in Range(s)
      <4>1. CASE m < n
        BY <2>7, <2>8, <4>1 DEF Range
      <4>2. CASE m > n
        <5>1. m - 1 \in DOMAIN s /\ s[m - 1] = names[m]
          BY <2>7, <2>8, <4>2
        <5> QED
          BY <5>1 DEF Range
      <4> QED
        BY <2>1, <2>5, <2>8, <3>3, <4>1, <4>2
    <3> QED
      BY <3>2, <3>3 DEF Range
  <2> QED
    BY <2>3, <2>6, <2>9, <2>10
<1> QED
  BY <1>1, <1>2

(* An entity that is not configured goes with its link. *)
LEMMA LinkGoneKeeps ==
    ASSUME IInv, LinkGone
    PROVE  IInv'
<1>1. PICK i : i = event.name
  OBVIOUS
<1>2. PICK f : f = IF HasConfig(i) THEN Forgotten(entity[i]) ELSE NoEntity
  OBVIOUS
<1>3. /\ link' = link /\ created' = created /\ queue' = queue
      /\ data' = data /\ previous' = previous /\ todo' = todo /\ changes' = changes
      /\ taken' = taken /\ orphaned' = orphaned /\ stuck' = stuck /\ broken' = broken
      /\ stale' = stale \ {i}
      /\ entity' = [entity EXCEPT ![i] = IF HasConfig(i) THEN Forgotten(@) ELSE NoEntity]
      /\ dependencies' = IF HasConfig(i) THEN dependencies
                         ELSE [j \in Interfaces |-> Without(dependencies[j], i)]
      /\ task = "linkdown" /\ left = <<>> /\ task' = "idle" /\ event' = NoEvent /\ left' = left
  BY <1>1 DEF LinkGone, LoopEnds, kernel, config
<1>4. /\ ShapeInv /\ event \in Events /\ i \in Interfaces /\ todo = {}
      /\ entity \in [Interfaces -> Entities \cup {NoEntity}]
      /\ dependencies \in [Interfaces -> Seq(Interfaces)] /\ Fits(entity[i], i)
  BY <1>1, <1>3 DEF IInv, ShapeInv, TypeOK, LoopInv, Configuring, Events
<1>5. entity'[i] = f /\ \A j \in Interfaces : j # i => entity'[j] = entity[j]
  BY <1>2, <1>3, <1>4
<1>6. /\ HasConfig(i) => /\ f \in Entities /\ f.ifindex = NoIndex /\ f.up = FALSE
                         /\ f.config = entity[i].config /\ f.type = entity[i].type
                         /\ f # NoEntity /\ Wants(f) /\ Wants(entity[i])
      /\ ~HasConfig(i) => f = NoEntity /\ ~Wants(f) /\ ~Wants(entity[i])
  <2>1. CASE HasConfig(i)
    <3>1. entity[i] \in Entities /\ f = [entity[i] EXCEPT !.ifindex = NoIndex, !.up = FALSE]
      BY <1>2, <1>4, <2>1 DEF HasConfig, Forgotten
    <3>2. /\ f \in Entities /\ f.ifindex = NoIndex /\ f.up = FALSE
          /\ f.config = entity[i].config /\ f.type = entity[i].type
      BY <3>1 DEF Entities, NoIndex
    <3> QED
      BY <2>1, <3>1, <3>2, EntityShape DEF HasConfig, Wants
  <2>2. CASE ~HasConfig(i)
    BY <1>2, <2>2 DEF HasConfig, Wants
  <2> QED
    BY <2>1, <2>2
<1>7. \A j \in Interfaces :
          /\ Wants(entity'[j]) <=> Wants(entity[j])
          /\ Wants(entity[j]) => /\ entity'[j].config = entity[j].config
                                 /\ entity'[j].type = entity[j].type
  BY <1>5, <1>6
<1>8. /\ dependencies' \in [Interfaces -> Seq(Interfaces)]
      /\ \A j \in Interfaces : /\ IsInjective(dependencies'[j])
                               /\ Range(dependencies'[j]) \in SUBSET Range(dependencies[j])
                               /\ ~HasConfig(i) => i \notin Range(dependencies'[j])
  <2>1. \A j \in Interfaces : IsInjective(dependencies[j]) /\ dependencies[j] \in Seq(Interfaces)
    BY <1>4 DEF ShapeInv, LoopInv
  <2>2. CASE HasConfig(i)
    BY <1>3, <1>4, <2>1, <2>2
  <2>3. CASE ~HasConfig(i)
    BY <1>3, <2>1, <2>3, WithoutShape
  <2> QED
    BY <2>2, <2>3
<1>9. ShapeInv'
  <2>1. entity' \in [Interfaces -> Entities \cup {NoEntity}]
    <3>1. f \in Entities \cup {NoEntity}
      BY <1>6
    <3>2. \A j \in Interfaces : entity'[j] \in Entities \cup {NoEntity}
      BY <1>4, <1>5, <3>1
    <3> QED
      BY <1>3, <1>4, <3>2
  <2>2. TypeOK'
    BY <1>3, <1>4, <1>8, <2>1 DEF ShapeInv, TypeOK
  <2>3. \A j \in Interfaces : \A n \in Range(dependencies'[j]) : entity'[n] # NoEntity
    <3>1. \A j \in Interfaces : \A n \in Range(dependencies[j]) :
             n \in Interfaces /\ entity[n] # NoEntity
      BY <1>4 DEF ShapeInv, LoopInv, Waiting, Range
    <3> QED
      BY <1>5, <1>6, <1>8, <3>1
  <2>4. LoopInv'
    BY <1>3, <1>4, <1>8, <2>3 DEF LoopInv, Configuring, Waiting
  <2>5. SyncInv'
    <3>1. \A j \in Interfaces : \A c : Matches(entity[j], c) => Matches(entity'[j], c)
      BY <1>7 DEF Matches
    <3> QED
      BY <1>3, <1>4, <1>7, <3>1 DEF ShapeInv, SyncInv, Configured
  <2>6. Fits(f, i)
    BY <1>4, <1>6 DEF Fits, Wants
  <2> QED
    BY <1>3, <1>4, <1>5, <2>2, <2>4, <2>5, <2>6 DEF ShapeInv
<1>10. \A j \in Interfaces : /\ Missed(j) <=> j \in stale \/ j = i
                             /\ Missed(j)' <=> j \in stale /\ j # i
  BY <1>1, <1>3 DEF Missed
<1>11. ToldInv'
  <2> SUFFICES ASSUME NEW j \in Interfaces
               PROVE  /\ LastSays(queue, j, link[j])
                      /\ Noted(queue, j, link[j], entity'[j], Missed(j)')
    BY <1>3 DEF ToldInv
  <2>1. LastSays(queue, j, link[j]) /\ Noted(queue, j, link[j], entity[j], Missed(j))
    BY DEF IInv, ToldInv
  <2>2. CASE j = i
    BY <1>5, <1>6, <1>10, <2>1, <2>2 DEF Noted, Agrees
  <2>3. CASE j # i
    BY <1>5, <1>10, <2>1, <2>3 DEF Noted
  <2> QED
    BY <2>1, <2>2, <2>3
<1>12. \A j : ~Due(j) /\ ~Due(j)'
  BY <1>3 DEF Due
<1>13. UpInv'
  BY <1>3, <1>7, <1>12 DEF IInv, UpInv, UpAt
<1>14. ThereInv'
  <2> SUFFICES ASSUME NEW j \in Interfaces \ (stuck \cup taken), ~broken,
                      Wants(entity'[j]), entity'[j].type # "ethernet", link[j] = NoLink,
                      NEW c, c = entity'[j].config.base
               PROVE  /\ c # NoInterface
                      /\ link[c] # NoLink /\ j \in Waiting(c)' => Announced(queue, j, c)'
    BY <1>3 DEF ThereInv, Exists, Announced
  <2>1. /\ c # NoInterface
        /\ link[c] # NoLink /\ j \in Waiting(c) => Coming(queue, c)
    BY <1>3, <1>7, <1>12 DEF IInv, ThereInv, Exists, Announced
  <2>2. c \in Interfaces
    BY <1>7, <2>1, ConfigurationsAssumption DEF IInv, ShapeInv, Fits, Wants, Nothing
  <2>3. j \in Waiting(c)' => j \in Waiting(c)
    BY <1>8, <2>2 DEF Waiting
  <2> QED
    BY <1>3, <2>1, <2>3 DEF Announced
<1>15. OwnInv'
  BY <1>3, <1>7 DEF IInv, OwnInv, Exists
<1> QED
  BY <1>9, <1>11, <1>13, <1>14, <1>15 DEF IInv

LEMMA RangeOfTail ==
    ASSUME NEW S, NEW s \in Seq(S), s # <<>>
    PROVE  /\ Head(s) \in S /\ Tail(s) \in Seq(S)
           /\ Range(s) = {Head(s)} \cup Range(Tail(s))
<1>1. /\ Head(s) \in S /\ Tail(s) \in Seq(S) /\ Head(s) = s[1] /\ 1 \in DOMAIN s
      /\ Len(Tail(s)) = Len(s) - 1 /\ Len(s) \in Nat /\ Len(s) >= 1
      /\ DOMAIN s = 1..Len(s) /\ DOMAIN Tail(s) = 1..(Len(s) - 1)
      /\ \A m \in DOMAIN Tail(s) : Tail(s)[m] = s[m + 1]
  OBVIOUS
<1> DEFINE t == Tail(s)
<1> HIDE DEF t
<1>2. /\ \A m \in DOMAIN t : m + 1 \in DOMAIN s /\ t[m] = s[m + 1]
      /\ \A m \in DOMAIN s : m # 1 => m - 1 \in DOMAIN t /\ s[m] = t[m - 1]
  BY <1>1 DEF t
<1>3. Range(s) = {s[1]} \cup Range(t)
  BY <1>1, <1>2 DEF Range
<1> QED
  BY <1>1, <1>3 DEF t

(* A dependent interface is applied, and what is left of the loop when that
   fails is noted. *)
LEMMA ApplyDependentKeeps ==
    ASSUME IInv, ApplyDependent
    PROVE  IInv'
<1>1. PICK i : i = Head(left)
  OBVIOUS
<1>2. PICK e : e = entity[i]
  OBVIOUS
<1> DEFINE k == Kernel(queue)
           passed == e.type = "vlan" /\ e.ifindex # NoIndex
           a == IF passed THEN k ELSE Apply(k, i, e)
           told == /\ a.ok /\ left' = Tail(left) /\ task' = task /\ event' = event
                   /\ stuck' = IF ~passed THEN stuck \ {i}
                               ELSE IF There(a, i) THEN stuck ELSE stuck \cup {i}
                   /\ stale' = stale
           failed == /\ ~a.ok /\ task' = "idle" /\ event' = NoEvent /\ left' = <<>>
                     /\ stuck' = stuck \cup Range(left)
                     /\ stale' = IF task = "linkdown" THEN stale \cup {event.name} ELSE stale
<1>3. /\ data' = data /\ previous' = previous /\ entity' = entity
      /\ dependencies' = dependencies /\ todo' = todo /\ changes' = changes
      /\ orphaned' = orphaned /\ broken' = broken
      /\ link' = a.link /\ created' = a.created /\ queue' = a.queue
      /\ taken' = IF There(a, i) THEN taken \ {i} ELSE taken
      /\ task \in {"linkup", "linkdown"} /\ left # <<>>
      /\ told \/ failed
  BY <1>1, <1>2 DEF ApplyDependent, config, provider, Becomes
<1>4. /\ ShapeInv /\ IsSound(k) /\ k.link = link /\ k.queue = queue /\ k.ok = TRUE
      /\ event \in Events /\ left \in Seq(Interfaces) /\ event.name \in Interfaces
      /\ todo = {}
  BY <1>3, QueueIs DEF ShapeInv, TypeOK, LoopInv, Configuring, Events
<1>5. /\ i \in Interfaces /\ Tail(left) \in Seq(Interfaces)
      /\ Range(left) = {i} \cup Range(Tail(left)) /\ Range(left) \in SUBSET Interfaces
  <2>1. Range(left) \in SUBSET Interfaces
    BY <1>4 DEF Range
  <2> QED
    BY <1>1, <1>3, <1>4, <2>1, RangeOfTail
<1>6. e \in Entities /\ Fits(e, i)
  <2>1. entity[i] # NoEntity
    BY <1>3, <1>4, <1>5 DEF ShapeInv, LoopInv
  <2> QED
    BY <1>2, <1>4, <1>5, <2>1 DEF ShapeInv, TypeOK
<1> HIDE DEF k, passed
<1>7. ~passed => Applied(k, a, i, e)
  BY <1>4, <1>5, <1>6, ApplyLeads
<1>8. passed => a = k
  OBVIOUS
<1> HIDE DEF a
<1>9. /\ Leads(k, a) /\ Grown(k, a, i)
      /\ There(a, i) /\ ~There(k, i) => Wants(e) /\ e.type # "ethernet"
      /\ ~a.ok => ~passed
  BY <1>4, <1>7, <1>8, LeadsItself, KeptGrown DEF Applied
<1>10. /\ link' \in [Interfaces -> Links \cup {NoLink}]
       /\ created' \in [Interfaces -> Nat] /\ queue' \in Seq(Events)
       /\ \A j \in Interfaces : Sound(link'[j], j) /\ ToldAt(k, a, j)
       /\ \A j \in Interfaces : Coming(queue, j) => Coming(queue', j)
  BY <1>3, <1>4, <1>9, LeadsShape
<1>11. /\ \A j \in Interfaces : /\ link[j] # NoLink => link'[j] # NoLink /\ SameLink(link[j], link'[j])
                                /\ link'[j] # NoLink /\ link[j] = NoLink
                                      => j = i /\ Coming(queue', j)
       /\ link'[i] # NoLink /\ link[i] = NoLink => Wants(e) /\ e.type # "ethernet"
  BY <1>3, <1>4, <1>9 DEF Grown, There
<1>12. ShapeInv'
  <2>1. TypeOK'
    <3>1. CASE told
      BY <1>3, <1>4, <1>5, <1>10, <3>1 DEF ShapeInv, TypeOK
    <3>2. CASE failed
      <4>1. /\ stale' \in SUBSET Interfaces /\ stuck' \in SUBSET Interfaces
            /\ taken' \in SUBSET Interfaces
        BY <1>3, <1>4, <1>5, <3>2 DEF ShapeInv, TypeOK
      <4>2. left' \in Seq(Interfaces) /\ event' \in Events \cup {NoEvent} /\ task' = "idle"
        BY <3>2
      <4> QED
        BY <1>3, <1>4, <1>10, <4>1, <4>2 DEF ShapeInv, TypeOK
    <3> QED
      BY <1>3, <3>1, <3>2
  <2>2. LoopInv'
    BY <1>3, <1>4, <1>5 DEF ShapeInv, LoopInv, Configuring, Waiting
  <2>3. SyncInv'
    BY <1>3, <1>4 DEF ShapeInv, SyncInv, Configured
  <2> QED
    BY <1>3, <1>4, <1>10, <2>1, <2>2, <2>3 DEF ShapeInv
<1>13. \A j \in Interfaces : (Missed(j)' <=> Missed(j)) /\ Missed(j) \in BOOLEAN
  BY <1>3 DEF Missed
<1>14. ToldInv'
  <2> SUFFICES ASSUME NEW j \in Interfaces
               PROVE  /\ LastSays(queue', j, link'[j])
                      /\ Noted(queue', j, link'[j], entity'[j], Missed(j)')
    BY DEF ToldInv
  <2>1. /\ LastSays(k.queue, j, k.link[j])
        /\ Noted(k.queue, j, k.link[j], entity[j], Missed(j))
    BY <1>4 DEF IInv, ToldInv
  <2>2. Missed(j)' = Missed(j) /\ Missed(j) \in BOOLEAN
    BY <1>13 DEF Missed
  <2>3. SameReport(entity[j], entity[j])
    BY DEF SameReport
  <2> QED
    BY <1>3, <1>10, <2>1, <2>2, <2>3, NotedOn
<1>15. \A j : ~Due(j) /\ ~Due(j)'
  BY <1>3 DEF Due
<1>16. UpInv'
  <2> SUFFICES ASSUME NEW j \in Interfaces \ stuck', ~broken
               PROVE  UpAt(queue', j, link'[j], entity[j])
    BY <1>3 DEF UpInv
  <2>1. CASE j = i /\ ~passed /\ a.ok
    <3>1. /\ Noted(k.queue, i, k.link[i], e, Missed(i))
          /\ Missed(i) \in BOOLEAN /\ Sound(k.link[i], i)
      BY <1>2, <1>4, <1>5 DEF IInv, ToldInv, Missed, ShapeInv
    <3>2. SameReport(e, e)
      BY DEF SameReport
    <3>3. UpAt(a.queue, i, a.link[i], e)
      BY <1>5, <1>7, <1>10, <2>1, <3>1, <3>2, UpApplied
    <3> QED
      BY <1>2, <1>3, <2>1, <3>3
  <2>2. CASE ~(j = i /\ ~passed /\ a.ok)
    <3>1. j \notin stuck
      BY <1>3, <2>2
    <3>2. UpAt(k.queue, j, k.link[j], entity[j])
      BY <1>4, <1>15, <3>1 DEF IInv, UpInv
    <3> QED
      BY <1>3, <1>10, <3>2, UpOn
  <2> QED
    BY <2>1, <2>2
<1>17. ThereInv'
  <2> SUFFICES ASSUME NEW j \in Interfaces \ (stuck' \cup taken'), ~broken,
                      Wants(entity[j]), entity[j].type # "ethernet", link'[j] = NoLink,
                      NEW b, b = entity[j].config.base
               PROVE  /\ b # NoInterface
                      /\ link'[b] # NoLink /\ j \in Waiting(b) => Announced(queue, j, b)'
    BY <1>3 DEF ThereInv, Exists, Waiting, Announced
  <2>1. CASE j = i
    <3>1. ~There(a, i)
      BY <1>3, <2>1 DEF There
    <3>2. told /\ ~passed
      BY <1>3, <1>5, <2>1, <3>1
    <3>3. b # NoInterface /\ Ifindex(b) = NoIndex
      BY <1>2, <1>7, <2>1, <3>1, <3>2 DEF Applied, Delayed
    <3>4. b \in Interfaces
      BY <1>2, <1>6, <2>1, <3>3, ConfigurationsAssumption DEF Fits, Wants, Nothing
    <3>5. ASSUME link'[b] # NoLink
          PROVE  Coming(queue', b)
      <4>1. CASE link[b] = NoLink
        BY <1>11, <3>4, <3>5, <4>1
      <4>2. CASE link[b] # NoLink
        <5>1. /\ LastSays(queue, b, link[b])
              /\ Noted(queue, b, link[b], entity[b], Missed(b))
              /\ Missed(b) \in BOOLEAN /\ Sound(link[b], b) /\ queue \in Seq(Events)
          BY <1>4, <3>4, QueueIs DEF IInv, ToldInv, Missed, ShapeInv
        <5>2. entity[b] # NoEntity => entity[b].ifindex = NoIndex
          BY <3>3 DEF Ifindex
        <5>3. Coming(queue, b)
          BY <4>2, <5>1, <5>2, ComingBecause
        <5> QED
          BY <1>10, <3>4, <5>3
      <4> QED
        BY <4>1, <4>2
    <3> QED
      BY <3>3, <3>5 DEF Announced
  <2>2. CASE j # i
    <3>1. j \notin stuck /\ j \notin taken /\ link[j] = NoLink
      BY <1>3, <1>11, <2>2
    <3>2. /\ b # NoInterface
          /\ link[b] # NoLink /\ j \in Waiting(b) => Announced(queue, j, b)
      BY <1>15, <3>1 DEF IInv, ThereInv, Exists
    <3>3. b \in Interfaces
      BY <3>2, ConfigurationsAssumption DEF IInv, ShapeInv, Fits, Wants, Nothing
    <3>4. failed => j \notin Range(left)
      OBVIOUS
    <3>5. j \in Range(left) => j \in Range(Tail(left))
      BY <1>5, <2>2
    <3>6. Announced(queue, j, b) => Announced(queue, j, b)'
      <4>1. CASE told
        BY <1>3, <1>10, <3>3, <3>5, <4>1 DEF Announced
      <4>2. CASE failed
        BY <1>10, <3>3, <3>4, <4>2 DEF Announced
      <4> QED
        BY <1>3, <4>1, <4>2
    <3>7. link'[b] # NoLink => link[b] # NoLink \/ Announced(queue, j, b)'
      BY <1>11, <3>3 DEF Announced
    <3> QED
      BY <3>2, <3>6, <3>7
  <2> QED
    BY <2>1, <2>2
<1>18. OwnInv'
  <2> SUFFICES ASSUME NEW j \in Interfaces \ orphaned, link'[j] # NoLink, link'[j].own
               PROVE  Wants(entity[j]) /\ entity[j].type # "ethernet"
    BY <1>3 DEF OwnInv, Exists
  <2>1. CASE link[j] # NoLink
    BY <1>11, <2>1 DEF IInv, OwnInv, Exists, SameLink
  <2>2. CASE link[j] = NoLink
    BY <1>2, <1>11, <2>2
  <2> QED
    BY <2>1, <2>2
<1> QED
  BY <1>12, <1>14, <1>16, <1>17, <1>18 DEF IInv

-----------------------------------------------------------------------------
(* The start. *)

LEMMA ReportsOf ==
    ASSUME NEW S \in SUBSET Interfaces, NEW order \in SetToSeqs(S), NEW l,
           \A j \in S : l[j] \in Links
    PROVE  LET s == [n \in DOMAIN order |-> NewLink(order[n], l[order[n]])] IN
           /\ s \in Seq(Events)
           /\ \A j \in Interfaces : /\ Silent(s, j) <=> j \notin S
                                    /\ LastSays(s, j, l[j])
                                    /\ j \in S => Coming(s, j)
<1> DEFINE s == [n \in DOMAIN order |-> NewLink(order[n], l[order[n]])]
<1>1. order \in [1..Cardinality(S) -> S] /\ IsInjective(order)
  BY DEF SetToSeqs, IsInjective
<1>2. order \in Seq(S) /\ \A x \in S : \E n \in DOMAIN order : order[n] = x
  BY <1>1, OrdersOf
<1>3. /\ \A n \in DOMAIN order : order[n] \in S
      /\ DOMAIN order = 1..Len(order) /\ Len(order) \in Nat
  BY <1>2
<1>4. ASSUME NEW n \in DOMAIN order
      PROVE  /\ s[n] \in Events /\ s[n].name = order[n] /\ s[n].op = "newlink"
             /\ Says(s[n], l[order[n]])
  <2>1. order[n] \in Interfaces /\ l[order[n]] \in Links
    BY <1>3
  <2>2. s[n] = NewLink(order[n], l[order[n]])
    OBVIOUS
  <2> HIDE DEF s
  <2> QED
    BY <2>1, <2>2, EventShape
<1>5. s = [n \in 1..Len(order) |-> s[n]] /\ DOMAIN s = DOMAIN order
  BY <1>3
<1> HIDE DEF s
<1>6. s \in Seq(Events)
  BY <1>3, <1>4, <1>5
<1>7. \A n \in DOMAIN order : /\ s[n].name = order[n] /\ s[n].op # "preinit"
                              /\ Says(s[n], l[order[n]])
  BY <1>4
<1>8. \A j \in Interfaces : /\ Silent(s, j) <=> j \notin S
                            /\ LastSays(s, j, l[j])
  BY <1>2, <1>5, <1>6, <1>7, ReportsSay
<1>9. \A j \in S : Coming(s, j)
  BY <1>2, <1>4, <1>5 DEF Coming
<1> QED
  BY <1>6, <1>8, <1>9 DEF s

LEMMA StartsRight ==
    ASSUME Init
    PROVE  IInv
<1>1. /\ data \in Configurations
      /\ \A i \in Interfaces : data[i] # NoConfig => Valid(data[i])
      /\ previous = data
      /\ task = "idle" /\ event = NoEvent /\ left = <<>> /\ todo = {}
      /\ changes = 0 /\ taken = {} /\ orphaned = {} /\ stale = {} /\ stuck = {}
      /\ broken = FALSE
      /\ entity = [i \in Interfaces |->
                      IF Configured(i) THEN [New(data[i].type) EXCEPT !.config = data[i]]
                      ELSE NoEntity]
  BY DEF Init
<1>2. PICK there \in SUBSET Interfaces, ups \in SUBSET Interfaces, joined \in SUBSET Interfaces :
          /\ \A i \in there : Configured(i) \/ i \in Physical
          /\ \A i \in joined : Configured(i)
          /\ LET made == {i \in Interfaces \ there : Configured(i) /\ data[i].type = "bridge"} IN
             /\ link = [i \in Interfaces |->
                   IF i \in there THEN StartLink(data, i, ups, joined)
                   ELSE IF i \in made THEN StartLink(data, i, {}, {}) ELSE NoLink]
             /\ created = [i \in Interfaces |-> IF Exists(i) THEN 1 ELSE 0]
             /\ \E found \in SetToSeqs(there), new \in SetToSeqs(made) :
                   queue = [n \in DOMAIN found |-> NewLink(found[n], link[found[n]])]
                           \o [n \in DOMAIN new |-> NewLink(new[n], link[new[n]])]
  BY DEF Init
<1> DEFINE made == {i \in Interfaces \ there : Configured(i) /\ data[i].type = "bridge"}
<1>3. /\ link = [i \in Interfaces |->
            IF i \in there THEN StartLink(data, i, ups, joined)
            ELSE IF i \in made THEN StartLink(data, i, {}, {}) ELSE NoLink]
      /\ created = [i \in Interfaces |-> IF Exists(i) THEN 1 ELSE 0]
  BY <1>2
<1>4. PICK found \in SetToSeqs(there), new \in SetToSeqs(made) :
          queue = [n \in DOMAIN found |-> NewLink(found[n], link[found[n]])]
                  \o [n \in DOMAIN new |-> NewLink(new[n], link[new[n]])]
  BY <1>2
<1>5. /\ made \in SUBSET Interfaces /\ \A i \in made : Configured(i) /\ i \notin there
      /\ \A i \in Interfaces \ there : Configured(i) /\ data[i].type = "bridge" => i \in made
  OBVIOUS
<1> HIDE DEF made
<1>6. ASSUME NEW i \in Interfaces, Configured(i)
      PROVE  /\ data[i] \in Configs /\ (i \in Physical <=> data[i].type = "ethernet")
             /\ data[i].base \in Physical \cup Nothing /\ i # data[i].base
             /\ data[i].type \in Types /\ data[i].master \in Interfaces \cup Nothing
             /\ data[i].type = "vlan" => data[i].base # NoInterface
  <2>1. data[i] \in Configs
    BY <1>1, <1>6, ConfigurationsAssumption DEF Configured
  <2>2. /\ i \in Physical <=> data[i].type = "ethernet"
        /\ data[i].base # NoInterface => data[i].base \in Physical
        /\ i \notin {data[i].base, data[i].master}
    BY <1>1, <1>6, ConfigurationsAssumption DEF Configured
  <2>3. data[i].type = "vlan" => data[i].base # NoInterface
    BY <1>1, <1>6 DEF Configured, Valid
  <2> QED
    BY <2>1, <2>2, <2>3, ConfigShape DEF Nothing
<1>7. ASSUME NEW i \in Interfaces, NEW u, NEW m, Configured(i) \/ (i \in Physical /\ i \notin m)
      PROVE  LET l == StartLink(data, i, u, m) IN
             l \in Links /\ Sound(l, i) /\ (l.own => i \notin Physical)
  <2> DEFINE l == StartLink(data, i, u, m)
  <2>1. CASE Configured(i)
    <3>1. l.index = 1 /\ (l.own => i \notin Physical) /\ l.base = data[i].base
      BY <1>6, <2>1 DEF StartLink, Configured
    <3>2. data[i].base \in Interfaces \cup Nothing
      BY <1>6, <2>1, ConfigurationsAssumption DEF Nothing
    <3>3. l \in Links
      BY <1>6, <2>1, <3>2 DEF StartLink, Configured, Nothing, Links
    <3> HIDE DEF l
    <3>4. Sound(l, i)
      BY <1>6, <2>1, <3>1 DEF Sound, NoIndex
    <3> QED
      BY <3>1, <3>3, <3>4 DEF l
  <2>2. CASE ~Configured(i)
    <3>1. l = [index |-> 1, up |-> i \in u, own |-> i \notin Physical,
               master |-> NoInterface, base |-> NoInterface]
      BY <1>7, <2>2 DEF StartLink, Configured
    <3> HIDE DEF l
    <3>2. l \in Links
      BY <3>1 DEF Links
    <3>3. l.index = 1 /\ (l.own => i \notin Physical) /\ l.base = NoInterface
      BY <3>1
    <3>4. Sound(l, i)
      BY <3>3 DEF Sound, NoIndex, Nothing
    <3> QED
      BY <3>2, <3>3, <3>4 DEF l
  <2> QED
    BY <2>1, <2>2
<1>8. ASSUME NEW i \in Interfaces
      PROVE  /\ link[i] \in Links \cup {NoLink} /\ Sound(link[i], i)
             /\ i \in there \cup made <=> link[i] # NoLink
             /\ i \in there \cup made => link[i] \in Links
             /\ link[i] # NoLink /\ link[i].own => i \notin Physical
  <2>1. CASE i \in there
    <3>1. link[i] = StartLink(data, i, ups, joined)
      BY <1>3, <2>1
    <3>2. Configured(i) \/ (i \in Physical /\ i \notin joined)
      BY <1>2, <2>1
    <3> QED
      BY <1>7, <2>1, <3>1, <3>2, LinkShape
  <2>2. CASE i \in made
    <3>1. link[i] = StartLink(data, i, {}, {})
      BY <1>3, <1>5, <2>2
    <3> QED
      BY <1>5, <1>7, <2>2, <3>1, LinkShape
  <2>3. CASE i \notin there \cup made
    BY <1>3, <2>3 DEF Sound
  <2> QED
    BY <2>1, <2>2, <2>3
<1>9. ASSUME NEW i \in Interfaces
      PROVE  /\ entity[i] \in Entities \cup {NoEntity} /\ Fits(entity[i], i)
             /\ Configured(i) => /\ entity[i] # NoEntity /\ entity[i].type = data[i].type
                                 /\ entity[i].config = data[i]
                                 /\ entity[i].ifindex = NoIndex /\ entity[i].up = FALSE
             /\ ~Configured(i) => entity[i] = NoEntity
  <2>1. CASE Configured(i)
    <3>1. entity[i] = [New(data[i].type) EXCEPT !.config = data[i]]
      BY <1>1, <2>1
    <3>2. entity[i] = [type |-> data[i].type, config |-> data[i], ifindex |-> 0, up |-> FALSE]
      BY <3>1 DEF New, NoIndex
    <3>3. entity[i] \in Entities
      BY <1>6, <2>1, <3>2 DEF Entities
    <3>4. /\ entity[i].type = data[i].type /\ entity[i].config = data[i]
          /\ entity[i].ifindex = 0 /\ entity[i].up = FALSE
      BY <3>2
    <3>5. Fits(entity[i], i)
      BY <1>6, <2>1, <3>4 DEF Fits
    <3> QED
      BY <2>1, <3>3, <3>4, <3>5, EntityShape DEF NoIndex
  <2>2. CASE ~Configured(i)
    BY <1>1, <2>2 DEF Fits
  <2> QED
    BY <2>1, <2>2
<1>10. /\ queue \in Seq(Events)
       /\ \A j \in Interfaces : /\ Silent(queue, j) => link[j] = NoLink
                                /\ LastSays(queue, j, link[j])
                                /\ link[j] # NoLink => Coming(queue, j)
  <2> DEFINE p == [n \in DOMAIN found |-> NewLink(found[n], link[found[n]])]
             q == [n \in DOMAIN new |-> NewLink(new[n], link[new[n]])]
  <2>1. /\ p \in Seq(Events)
        /\ \A j \in Interfaces : /\ Silent(p, j) <=> j \notin there
                                 /\ LastSays(p, j, link[j])
                                 /\ j \in there => Coming(p, j)
    BY <1>8, ReportsOf
  <2>2. /\ q \in Seq(Events)
        /\ \A j \in Interfaces : /\ Silent(q, j) <=> j \notin made
                                 /\ LastSays(q, j, link[j])
                                 /\ j \in made => Coming(q, j)
    BY <1>5, <1>8, ReportsOf
  <2>3. queue = p \o q
    BY <1>4
  <2> HIDE DEF p, q
  <2>4. ASSUME NEW j \in Interfaces
        PROVE  /\ p \o q \in Seq(Events)
               /\ Silent(p \o q, j) <=> Silent(p, j) /\ Silent(q, j)
               /\ Coming(p \o q, j) <=> Coming(p, j) \/ Coming(q, j)
               /\ LastSays(p \o q, j, link[j])
    BY <2>1, <2>2, JoinedSays
  <2>5. p \o q \in Seq(Events)
    BY <2>1, <2>2
  <2> QED
    BY <1>8, <2>1, <2>2, <2>3, <2>4, <2>5
<1>11. /\ dependencies \in [Interfaces -> Seq(Interfaces)]
       /\ \A j \in Interfaces : /\ IsInjective(dependencies[j])
                                /\ \A i \in Waiting(j) : i \in Interfaces /\ Configured(i)
  <2> DEFINE orders == [i \in Interfaces |-> SetToSeqs(Dependents(i))]
  <2>1. PICK lists \in [Interfaces -> UNION Range(orders)] :
           (\A i \in Interfaces : lists[i] \in orders[i]) /\ dependencies = lists
    BY DEF Init
  <2>2. ASSUME NEW j \in Interfaces
        PROVE  /\ dependencies[j] \in Seq(Interfaces) /\ IsInjective(dependencies[j])
               /\ \A i \in Waiting(j) : i \in Interfaces /\ Configured(i)
    <3>1. dependencies[j] \in SetToSeqs(Dependents(j))
      BY <2>1
    <3>2. Dependents(j) \in SUBSET Interfaces /\ \A i \in Dependents(j) : Configured(i)
      BY DEF Dependents
    <3>3. /\ dependencies[j] \in [1..Cardinality(Dependents(j)) -> Dependents(j)]
          /\ IsInjective(dependencies[j])
      BY <3>1 DEF SetToSeqs, IsInjective
    <3>4. dependencies[j] \in Seq(Dependents(j))
      BY <3>2, <3>3, OrdersOf
    <3>5. \A i \in Waiting(j) : i \in Dependents(j)
      BY <3>3 DEF Waiting, Range
    <3> QED
      BY <3>2, <3>3, <3>4, <3>5
  <2>3. DOMAIN dependencies = Interfaces /\ dependencies = [j \in Interfaces |-> dependencies[j]]
    BY <2>1
  <2> QED
    BY <2>2, <2>3
<1>12. ShapeInv
  <2>1. TypeOK
    <3>1. link \in [Interfaces -> Links \cup {NoLink}] /\ created \in [Interfaces -> Nat]
      BY <1>3, <1>8
    <3>2. entity \in [Interfaces -> Entities \cup {NoEntity}]
      BY <1>1, <1>9
    <3>3. <<>> \in Seq(Interfaces) /\ 0 \in 0..MaxChanges
      BY BoundAssumption
    <3> QED
      BY <1>1, <1>10, <1>11, <3>1, <3>2, <3>3 DEF TypeOK
  <2>2. LoopInv
    BY <1>1, <1>9, <1>11 DEF LoopInv, Configuring
  <2>3. SyncInv
    BY <1>1, <1>9 DEF SyncInv, Wants, Matches, Configured
  <2> QED
    BY <1>8, <1>9, <2>1, <2>2, <2>3 DEF ShapeInv
<1>13. ToldInv
  BY <1>1, <1>9, <1>10 DEF ToldInv, Noted, Missed, Agrees
<1>14. UpInv
  BY <1>10 DEF UpInv, UpAt
<1>15. ThereInv
  <2> SUFFICES ASSUME NEW j \in Interfaces, Wants(entity[j]), entity[j].type # "ethernet",
                      link[j] = NoLink, NEW b, b = entity[j].config.base
               PROVE  b # NoInterface /\ (link[b] # NoLink => Coming(queue, b))
    BY DEF ThereInv, Exists, Announced
  <2>1. Configured(j) /\ b = data[j].base /\ data[j].type # "ethernet"
    BY <1>9 DEF Wants
  <2>2. data[j].type # "bridge"
    BY <1>5, <1>8, <2>1
  <2>3. b # NoInterface
    BY <1>6, <2>1, <2>2 DEF Types
  <2>4. b \in Interfaces
    BY <1>6, <2>1, <2>3, ConfigurationsAssumption DEF Nothing
  <2> QED
    BY <1>10, <2>3, <2>4
<1>16. OwnInv
  <2> SUFFICES ASSUME NEW j \in Interfaces, link[j] # NoLink, link[j].own
               PROVE  Wants(entity[j]) /\ entity[j].type # "ethernet"
    BY DEF OwnInv, Exists
  <2>1. j \notin Physical /\ j \in there \cup made
    BY <1>8
  <2>2. Configured(j)
    BY <1>2, <1>5, <2>1
  <2> QED
    BY <1>6, <1>9, <2>1, <2>2 DEF Wants, Configured
<1> QED
  BY <1>12, <1>13, <1>14, <1>15, <1>16 DEF IInv

LEMMA StepKeeps ==
    ASSUME IInv, [Next]_vars
    PROVE  IInv'
<1>1. CASE UNCHANGED vars
  <2>1. /\ link' = link /\ created' = created /\ queue' = queue
        /\ data' = data /\ previous' = previous /\ entity' = entity
        /\ dependencies' = dependencies /\ task' = task /\ event' = event /\ left' = left
        /\ todo' = todo /\ changes' = changes /\ taken' = taken /\ orphaned' = orphaned
        /\ stale' = stale /\ stuck' = stuck /\ broken' = broken
    BY <1>1 DEF vars, kernel, config, provider, loop, history
  <2>2. ShapeInv'
    BY <2>1 DEF IInv, ShapeInv, TypeOK, LoopInv, SyncInv, Configuring, Waiting, Configured
  <2>3. ToldInv' /\ UpInv'
    BY <2>1 DEF IInv, ToldInv, UpInv, Missed, Due
  <2>4. ThereInv'
    BY <2>1 DEF IInv, ThereInv, Due, Exists, Waiting, Announced
  <2>5. OwnInv'
    BY <2>1 DEF IInv, OwnInv, Exists
  <2> QED
    BY <2>2, <2>3, <2>4, <2>5 DEF IInv
<1>2. CASE Others
  BY <1>2, PlugInKeeps, DeleteLinkKeeps, LeasePreinitKeeps, SwitchLinkKeeps, CommitKeeps
     DEF Others
<1>3. CASE Agent
  BY <1>3, RemoveConfigKeeps, UpdateConfigKeeps, CommitSucceedsKeeps, OthersFailKeeps,
     RolledBackKeeps, HandleInterfaceAddKeeps, HandleInterfaceRemoveKeeps,
     HandlePreinitKeeps, ApplyDependentKeeps, DependentsToldKeeps, LinkGoneKeeps DEF Agent
<1> QED
  BY <1>1, <1>2, <1>3 DEF Next

-----------------------------------------------------------------------------
(* What follows. *)

LEMMA InvHolds == Spec => []IInv
<1>1. Init => IInv
  BY StartsRight
<1>2. IInv /\ [Next]_vars => IInv'
  BY StepKeeps
<1> QED
  BY <1>1, <1>2, PTL DEF Spec

LEMMA SettledIs ==
    ASSUME IInv, Settled
    PROVE  /\ task = "idle" /\ todo = {} /\ \A j : Silent(queue, j) /\ ~Coming(queue, j)
           /\ \A j : ~Due(j)
<1>1. task = "idle" /\ queue = <<>> /\ todo = {}
  BY DEF IInv, ShapeInv, LoopInv, Settled, Configuring
<1> QED
  BY <1>1 DEF Silent, Coming, Due

(* The variables have their types, whatever is configured, plugged in and
   reported (InterfaceProvider, InterfaceEntity). *)
THEOREM TypeCorrect == Spec => []TypeOK
<1>1. IInv => TypeOK
  BY DEF IInv, ShapeInv
<1> QED
  BY <1>1, InvHolds, PTL

(* Whatever other programs do while reports are handled late, and whatever
   handler fails, interface/list shows what the kernel has once all reports are
   handled (InterfaceEntity.update_state, on_interface_remove). *)
THEOREM StateCorrect == Spec => []StateIsTrue
<1>1. ASSUME IInv PROVE StateIsTrue
  <2> SUFFICES ASSUME Settled, NEW i \in Interfaces \ stale
               PROVE  IF Exists(i)
                      THEN /\ entity[i] # NoEntity
                           /\ entity[i].ifindex = link[i].index /\ entity[i].up = link[i].up
                      ELSE entity[i] # NoEntity => entity[i].ifindex = NoIndex /\ ~entity[i].up
    BY DEF StateIsTrue
  <2>1. ~Missed(i) /\ Silent(queue, i)
    BY <1>1, SettledIs DEF Missed
  <2>2. Agrees(entity[i], link[i])
    BY <1>1, <2>1 DEF IInv, ToldInv, Noted
  <2> QED
    BY <2>2 DEF Agrees, Exists
<1> QED
  BY <1>1, InvHolds, PTL

(* What is configured to be up is up once all reports are handled, unless the
   last handler it needed failed (update_state, apply_link_config). *)
THEOREM UpCorrect == Spec => []UpKept
<1>1. ASSUME IInv PROVE UpKept
  <2> SUFFICES ASSUME Settled, ~broken, NEW i \in Interfaces \ stuck,
                      Configured(i), data[i].up, Exists(i)
               PROVE  link[i].up
    BY DEF UpKept
  <2>1. todo = {} /\ Silent(queue, i) /\ ~Due(i)
    BY <1>1, SettledIs
  <2>2. Matches(entity[i], data[i])
    BY <1>1, <2>1 DEF IInv, ShapeInv, SyncInv
  <2>3. Wants(entity[i]) /\ entity[i].config.up
    BY <2>2 DEF Matches, Configured
  <2>4. UpAt(queue, i, link[i], entity[i])
    BY <1>1, <2>1 DEF IInv, UpInv
  <2> QED
    BY <2>1, <2>3, <2>4 DEF UpAt, Exists
<1> QED
  BY <1>1, InvHolds, PTL

(* A configured VLAN or bridge is there when what it is made on is, once all
   reports are handled (create, on_dependent_interface_add). *)
THEOREM VirtualCorrect == Spec => []VirtualPresent
<1>1. ASSUME IInv PROVE VirtualPresent
  <2> SUFFICES ASSUME Settled, ~broken, NEW i \in Interfaces \ (stuck \cup taken),
                      Configured(i), entity[i].type # "ethernet", ~Exists(i),
                      data[i].base # NoInterface =>
                         Exists(data[i].base) /\ i \in Waiting(data[i].base)
               PROVE  FALSE
    BY DEF VirtualPresent
  <2>1. task = "idle" /\ todo = {} /\ ~Due(i) /\ ~Coming(queue, data[i].base)
    BY <1>1, SettledIs
  <2>2. Matches(entity[i], data[i])
    BY <1>1, <2>1 DEF IInv, ShapeInv, SyncInv
  <2>3. Wants(entity[i]) /\ entity[i].config = data[i]
    BY <2>2 DEF Matches, Configured
  <2>4. /\ data[i].base # NoInterface
        /\ Exists(data[i].base) /\ i \in Waiting(data[i].base)
              => Announced(queue, i, data[i].base)
    BY <1>1, <2>1, <2>3 DEF IInv, ThereInv
  <2> QED
    BY <2>1, <2>4 DEF Announced
<1> QED
  BY <1>1, InvHolds, PTL

(* A link the agent made goes with its configuration, unless that went before
   the creation was handled (on_config_removed, VirtualInterface.remove). *)
THEOREM RemovedCorrect == Spec => []RemovedGone
<1>1. ASSUME IInv PROVE RemovedGone
  <2> SUFFICES ASSUME Settled, NEW i \in Interfaces, Exists(i), link[i].own, i \notin orphaned
               PROVE  Configured(i)
    BY DEF RemovedGone
  <2>1. todo = {}
    BY <1>1, SettledIs
  <2>2. Wants(entity[i])
    BY <1>1 DEF IInv, OwnInv
  <2> QED
    BY <1>1, <2>1, <2>2 DEF IInv, ShapeInv, SyncInv
<1> QED
  BY <1>1, InvHolds, PTL
=============================================================================
