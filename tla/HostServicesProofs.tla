-------------------------- MODULE HostServicesProofs --------------------------
(***************************************************************************)
(* What the services guarantee for every set of hosts, interfaces, tables  *)
(* and sections, and for every bound: that unbound, nsd and kea serve what *)
(* the running configuration says, that a dhclient runs for the interfaces *)
(* it names, and that what a dhclient has reported last was told last.     *)
(***************************************************************************)
EXTENDS HostServices, Integers, FiniteSetTheorems, WellFoundedInduction, TLAPS

-----------------------------------------------------------------------------
(* Numbers, sequences and orders of sets. *)

(* A set of numbers that is not empty has a least one. *)
LEMMA LeastIn ==
    ASSUME NEW T \in SUBSET Nat, T # {}
    PROVE  Min(T) \in T
<1> DEFINE R == OpToRel(<, Nat)
<1>1. IsWellFoundedOn(R, Nat)
  BY NatLessThanWellFounded
<1>2. \A m, n \in Nat : m < n => <<m, n>> \in R
  BY DEF OpToRel
<1> HIDE DEF R
<1>3. PICK n \in T : \A m \in T : ~(<<m, n>> \in R)
  BY <1>1, WFMin
<1>4. \A m \in T : ~(m < n)
  BY <1>2, <1>3
<1>5. \A m \in T : m \in Nat /\ n \in Nat
  OBVIOUS
<1>6. \E k \in T : \A m \in T : k <= m
  BY <1>4, <1>5
<1> QED
  BY <1>6 DEF Min

LEMMA OrderOf ==
    ASSUME NEW S, IsFiniteSet(S)
    PROVE  /\ SetToSeq(S) \in Seq(S)
           /\ \A x \in S : \E n \in DOMAIN SetToSeq(S) : SetToSeq(S)[n] = x
<1> DEFINE D == 1..Cardinality(S)
           order == SetToSeq(S)
<1>1. Cardinality(S) \in Nat /\ ExistsBijection(D, S)
  BY FS_CardinalityType
<1>2. \E f \in [D -> S] : IsInjective(f)
  BY <1>1 DEF ExistsBijection, Bijection, Injection
<1>3. order \in [D -> S] /\ IsInjective(order)
  BY <1>2 DEF SetToSeq
<1> HIDE DEF order
<1>4. IsFiniteSet(D) /\ Cardinality(D) = Cardinality(S)
  BY <1>1, FS_Interval
<1>5. order \in Seq(S)
  BY <1>1, <1>3
<1> HIDE DEF D
<1>6. order \in Injection(D, S)
  BY <1>3 DEF Injection
<1>7. order \in Surjection(D, S)
  BY <1>4, <1>6, FS_Injection
<1>8. \A x \in S : \E n \in DOMAIN order : order[n] = x
  BY <1>3, <1>7 DEF Surjection
<1> QED
  BY <1>5, <1>8 DEF order

LEMMA RemoveAtIsSeq ==
    ASSUME NEW S, NEW q \in Seq(S), NEW p \in 1..Len(q)
    PROVE  RemoveAt(q, p) \in Seq(S)
<1> DEFINE f == SubSeq(q, 1, p - 1)
           b == SubSeq(q, p + 1, Len(q))
<1>1. f \in Seq(S) /\ b \in Seq(S)
  OBVIOUS
<1> HIDE DEF f, b
<1>2. f \o b \in Seq(S)
  BY <1>1
<1> QED
  BY <1>2 DEF RemoveAt, f, b

-----------------------------------------------------------------------------
(* The servers. *)

Things == Links \cup {Address}

(* What a server is, whatever its files and its unit hold. *)
IsServer(s) ==
    s \in [known: SUBSET Things, timer: BOOLEAN, first: {s.first}, second: {s.second},
           unit: {s.unit}, last: {"none", "applied", "raised", "absent"}]

LEMMA NewServerIs ==
    ASSUME NEW first, NEW second, NEW unit
    PROVE  LET s == NewServer(first, second, unit) IN
           IsServer(s) /\ s.known = {} /\ s.last = "none"
  BY DEF NewServer, IsServer

(* Installed runs with the two files, or is not the outcome of apply().     *)
Runs(s, unit) == s.last = "applied" => s.unit = unit

LEMMA InstallGives ==
    ASSUME NEW s, IsServer(s), NEW first, NEW second, NEW fault
    PROVE  LET r == Install(s, first, second, fault) IN
           /\ IsServer(r) /\ r.known = s.known /\ r.timer = s.timer
           /\ Runs(r, <<first, second>>)
           /\ r.last = "applied" => first # Raises /\ second # Raises
<1> DEFINE r == Install(s, first, second, fault)
<1>1. CASE fault = "write" \/ first = Raises
  <2>1. r = [s EXCEPT !.last = "raised"]
    BY <1>1 DEF Install
  <2> HIDE DEF r
  <2> QED
    BY <2>1 DEF IsServer, Runs, r
<1>2. CASE ~(fault = "write" \/ first = Raises) /\ (fault = "half" \/ second = Raises)
  <2>1. r = [s EXCEPT !.first = first, !.last = "raised"]
    BY <1>2 DEF Install
  <2> HIDE DEF r
  <2> QED
    BY <2>1 DEF IsServer, Runs, r
<1>3. CASE ~(fault = "write" \/ first = Raises) /\ ~(fault = "half" \/ second = Raises)
           /\ fault \in {"unit", "absent"}
  <2>1. r = [s EXCEPT !.first = first, !.second = second,
                      !.last = IF fault = "unit" THEN "raised" ELSE "absent"]
    BY <1>3 DEF Install
  <2> HIDE DEF r
  <2> QED
    BY <2>1 DEF IsServer, Runs, r
<1>4. CASE ~(fault = "write" \/ first = Raises) /\ ~(fault = "half" \/ second = Raises)
           /\ ~(fault \in {"unit", "absent"})
  <2>1. r = [s EXCEPT !.first = first, !.second = second,
                      !.unit = <<first, second>>, !.last = "applied"]
    BY <1>4 DEF Install
  <2> HIDE DEF r
  <2> QED
    BY <1>4, <2>1 DEF IsServer, Runs, r
<1> QED
  BY <1>1, <1>2, <1>3, <1>4

LEMMA StopGives ==
    ASSUME NEW s, IsServer(s), NEW fault
    PROVE  LET r == StopServer(s, fault) IN
           /\ IsServer(r) /\ r.known = s.known /\ r.timer = s.timer
           /\ Runs(r, Stopped)
<1> DEFINE r == StopServer(s, fault)
<1>1. CASE fault = "unit"
  <2>1. r = [s EXCEPT !.last = "raised"]
    BY <1>1 DEF StopServer
  <2> HIDE DEF r
  <2> QED
    BY <2>1 DEF IsServer, Runs, r
<1>2. CASE fault = "absent"
  <2>1. r = [s EXCEPT !.last = "absent"]
    BY <1>2 DEF StopServer
  <2> HIDE DEF r
  <2> QED
    BY <2>1 DEF IsServer, Runs, r
<1>3. CASE fault # "unit" /\ fault # "absent"
  <2>1. r = [s EXCEPT !.unit = Stopped, !.last = "applied"]
    BY <1>3 DEF StopServer
  <2> HIDE DEF r
  <2> QED
    BY <2>1 DEF IsServer, Runs, r
<1> QED
  BY <1>1, <1>2, <1>3

-----------------------------------------------------------------------------
(* What each server runs with, by what it knows. *)

CacheFor(d, known) ==
    IF d.cache.enabled
    THEN <<LocalConf(d.cache, HostsOf(d), known), ForwardConf(d.cache)>> ELSE Stopped
AuthoritativeFor(d, known) ==
    IF d.nsd.enabled
    THEN <<NsdConf(d.nsd, known), ZoneFile(d.nsd, HostsOf(d))>> ELSE Stopped
DhcpFor(d, known) ==
    IF d.kea.interface # {}
    THEN <<Dhcp4Conf(d.kea, HostsOf(d), known), NotThere>> ELSE Stopped

TableOf(d) == UpdateHosts(d.ipam).table

(* Where the table of hosts ends early, at one with an address that cannot  *)
(* be parsed, no file with hosts is made of it: a file that was made is of  *)
(* all the hosts.                                                           *)
LEMMA WholeTable ==
    ASSUME NEW d \in Configurations, NEW use_ipam, Parses(Named(use_ipam, TableOf(d)))
    PROVE  Named(use_ipam, TableOf(d)) = Named(use_ipam, HostsOf(d))
<1>1. CASE ~use_ipam
  BY <1>1 DEF Named
<1>2. CASE use_ipam
  <2> DEFINE hosts == d.ipam
             bad == {i \in DOMAIN hosts : hosts[i] \in Unparsable}
             end == IF bad = {} THEN Len(hosts) ELSE Min(bad)
  <2>1. hosts \in Seq(Hosts)
    BY DEF Configurations
  <2>2. TableOf(d) = {hosts[i] : i \in 1..end}
    BY DEF TableOf, UpdateHosts
  <2>3. bad = {}
    <3> SUFFICES ASSUME bad # {}
                 PROVE  FALSE
      OBVIOUS
    <3>1. bad \in SUBSET Nat
      BY <2>1
    <3>2. \A i \in bad : i \in DOMAIN hosts /\ hosts[i] \in Unparsable
      OBVIOUS
    <3>3. end = Min(bad)
      OBVIOUS
    <3> HIDE DEF bad, end, hosts
    <3>4. Min(bad) \in bad
      BY <3>1, LeastIn
    <3>5. end \in 1..end /\ hosts[end] \in Unparsable
      BY <2>1, <3>2, <3>3, <3>4
    <3>6. hosts[end] \in TableOf(d) \cap Unparsable
      BY <2>2, <3>5
    <3> QED
      BY <1>2, <3>6 DEF Named, Parses
  <2>4. TableOf(d) = HostsOf(d)
    <3>1. end = Len(hosts)
      BY <2>3
    <3> HIDE DEF bad, end
    <3>2. TableOf(d) = {hosts[i] : i \in DOMAIN hosts}
      BY <2>1, <2>2, <3>1
    <3> QED
      BY <3>2 DEF HostsOf
  <2> QED
    BY <2>4
<1> QED
  BY <1>1, <1>2

LEMMA CacheApplied ==
    ASSUME NEW d \in Configurations, NEW s, IsServer(s), NEW fault
    PROVE  LET r == ApplyCache(s, d.cache, TableOf(d), fault) IN
           /\ IsServer(r) /\ r.known = s.known /\ r.timer = FALSE
           /\ Runs(r, CacheFor(d, s.known))
<1> DEFINE c == [s EXCEPT !.timer = FALSE]
           local == LocalConf(d.cache, TableOf(d), s.known)
           r == ApplyCache(s, d.cache, TableOf(d), fault)
<1>1. IsServer(c) /\ c.known = s.known /\ c.timer = FALSE
  BY DEF IsServer
<1>2. CASE d.cache.enabled
  <2>1. r = Install(c, local, ForwardConf(d.cache), fault)
    BY <1>2 DEF ApplyCache
  <2>2. local # Raises => local = LocalConf(d.cache, HostsOf(d), s.known)
    BY WholeTable DEF LocalConf
  <2> HIDE DEF c, local, r
  <2>3. /\ IsServer(r) /\ r.known = c.known /\ r.timer = c.timer
        /\ Runs(r, <<local, ForwardConf(d.cache)>>)
        /\ r.last = "applied" => local # Raises
    BY <1>1, <2>1, InstallGives
  <2>4. Runs(r, CacheFor(d, s.known))
    BY <1>2, <2>2, <2>3 DEF Runs, CacheFor
  <2> QED
    BY <1>1, <2>3, <2>4 DEF r
<1>3. CASE ~d.cache.enabled
  <2>1. r = StopServer(c, fault)
    BY <1>3 DEF ApplyCache
  <2> HIDE DEF c, r
  <2>2. IsServer(r) /\ r.known = c.known /\ r.timer = c.timer /\ Runs(r, Stopped)
    BY <1>1, <2>1, StopGives
  <2> QED
    BY <1>1, <1>3, <2>2 DEF r, CacheFor
<1> QED
  BY <1>2, <1>3

LEMMA AuthoritativeApplied ==
    ASSUME NEW d \in Configurations, NEW s, IsServer(s), NEW fault
    PROVE  LET r == ApplyAuthoritative(s, d.nsd, TableOf(d), fault) IN
           /\ IsServer(r) /\ r.known = s.known
           /\ Runs(r, AuthoritativeFor(d, s.known))
<1> DEFINE zone == ZoneFile(d.nsd, TableOf(d))
           r == ApplyAuthoritative(s, d.nsd, TableOf(d), fault)
<1>1. CASE d.nsd.enabled
  <2>1. r = Install(s, NsdConf(d.nsd, s.known), zone, fault)
    BY <1>1 DEF ApplyAuthoritative
  <2>2. zone # Raises => zone = ZoneFile(d.nsd, HostsOf(d))
    BY WholeTable DEF ZoneFile
  <2> HIDE DEF zone, r
  <2>3. /\ IsServer(r) /\ r.known = s.known
        /\ Runs(r, <<NsdConf(d.nsd, s.known), zone>>)
        /\ r.last = "applied" => zone # Raises
    BY <2>1, InstallGives
  <2>4. Runs(r, AuthoritativeFor(d, s.known))
    BY <1>1, <2>2, <2>3 DEF Runs, AuthoritativeFor
  <2> QED
    BY <2>3, <2>4 DEF r
<1>2. CASE ~d.nsd.enabled
  <2>1. r = StopServer(s, fault)
    BY <1>2 DEF ApplyAuthoritative
  <2> HIDE DEF r
  <2>2. IsServer(r) /\ r.known = s.known /\ Runs(r, Stopped)
    BY <2>1, StopGives
  <2> QED
    BY <1>2, <2>2 DEF r, AuthoritativeFor
<1> QED
  BY <1>1, <1>2

LEMMA DhcpApplied ==
    ASSUME NEW d \in Configurations, NEW s, IsServer(s), NEW fault
    PROVE  LET r == ApplyDhcp(s, d.kea, TableOf(d), fault) IN
           /\ IsServer(r) /\ r.known = s.known
           /\ Runs(r, DhcpFor(d, s.known))
<1> DEFINE conf == Dhcp4Conf(d.kea, TableOf(d), s.known)
           r == ApplyDhcp(s, d.kea, TableOf(d), fault)
<1>1. CASE d.kea.interface # {}
  <2>1. r = Install(s, conf, NotThere, fault)
    BY <1>1 DEF ApplyDhcp
  <2>2. conf # Raises => conf = Dhcp4Conf(d.kea, HostsOf(d), s.known)
    BY WholeTable DEF Dhcp4Conf
  <2> HIDE DEF conf, r
  <2>3. /\ IsServer(r) /\ r.known = s.known
        /\ Runs(r, <<conf, NotThere>>)
        /\ r.last = "applied" => conf # Raises
    BY <2>1, InstallGives
  <2>4. Runs(r, DhcpFor(d, s.known))
    BY <1>1, <2>2, <2>3 DEF Runs, DhcpFor
  <2> QED
    BY <2>3, <2>4 DEF r
<1>2. CASE d.kea.interface = {}
  <2>1. r = StopServer(s, fault)
    BY <1>2 DEF ApplyDhcp
  <2> HIDE DEF r
  <2>2. IsServer(r) /\ r.known = s.known /\ Runs(r, Stopped)
    BY <2>1, StopGives
  <2> QED
    BY <1>2, <2>2 DEF r, DhcpFor
<1> QED
  BY <1>1, <1>2

-----------------------------------------------------------------------------
(* Events on their way. *)

Events == [what: Things, add: BOOLEAN]

(* The last event about w says whether it is in T; without an event about   *)
(* w, K says so.                                                            *)
Tells(q, w, K, T) ==
    /\ \A n \in DOMAIN q :
          /\ q[n].what = w
          /\ \A m \in DOMAIN q : m > n => q[m].what # w
          => (q[n].add <=> w \in T)
    /\ (\A n \in DOMAIN q : q[n].what # w) => (w \in K <=> w \in T)

(* w has come or gone, and an event says so.                                *)
LEMMA TellsOfChange ==
    ASSUME NEW q \in Seq(Events), NEW w, NEW K, NEW T, NEW e \in Events,
           e.what = w, e.add <=> w \in T
    PROVE  Tells(Append(q, e), w, K, T)
<1> DEFINE r == Append(q, e)
           n == Len(q) + 1
<1>1. r \in Seq(Events) /\ Len(r) = n /\ r[n] = e /\ n \in DOMAIN r
  OBVIOUS
<1>2. ASSUME NEW k \in DOMAIN r, \A m \in DOMAIN r : m > k => r[m].what # w
      PROVE  k = n
  BY <1>1, <1>2
<1> HIDE DEF r
<1> QED
  BY <1>1, <1>2 DEF Tells, r

(* Another thing has. *)
LEMMA TellsOfOthers ==
    ASSUME NEW q \in Seq(Events), NEW w, NEW K, NEW T, NEW U, NEW e \in Events,
           e.what # w, w \in T <=> w \in U, Tells(q, w, K, T)
    PROVE  Tells(Append(q, e), w, K, U)
<1> DEFINE r == Append(q, e)
<1>1. /\ r \in Seq(Events) /\ Len(r) = Len(q) + 1 /\ r[Len(q) + 1] = e
      /\ DOMAIN q \subseteq DOMAIN r /\ \A k \in DOMAIN q : r[k] = q[k]
  OBVIOUS
<1>2. \A k \in DOMAIN r : r[k].what = w => k \in DOMAIN q
  BY <1>1
<1> HIDE DEF r
<1>3. ASSUME NEW k \in DOMAIN r, r[k].what = w, \A m \in DOMAIN r : m > k => r[m].what # w
      PROVE  r[k].add <=> w \in U
  <2>1. k \in DOMAIN q /\ q[k].what = w /\ \A m \in DOMAIN q : m > k => q[m].what # w
    BY <1>1, <1>2, <1>3
  <2> QED
    BY <1>1, <2>1 DEF Tells
<1>4. ASSUME \A k \in DOMAIN r : r[k].what # w
      PROVE  w \in K <=> w \in U
  <2>1. \A k \in DOMAIN q : q[k].what # w
    BY <1>1, <1>4
  <2> QED
    BY <2>1 DEF Tells
<1>5. Tells(r, w, K, U)
  BY <1>3, <1>4 DEF Tells
<1> QED
  BY <1>5 DEF r

(* The first event is handled: what is known of the thing it is about is    *)
(* what it says, and nothing else changes.                                  *)
LEMMA TellsRest ==
    ASSUME NEW q \in Seq(Events), q # <<>>, NEW w, NEW K, NEW L, NEW T, Tells(q, w, K, T),
           Head(q).what = w => (w \in L <=> Head(q).add),
           Head(q).what # w => (w \in L <=> w \in K)
    PROVE  Tells(Tail(q), w, L, T)
<1> DEFINE r == Tail(q)
<1>1. /\ r \in Seq(Events) /\ Len(r) = Len(q) - 1 /\ Len(q) \in Nat /\ Len(q) >= 1
      /\ \A k \in DOMAIN r : r[k] = q[k + 1]
      /\ Head(q) = q[1]
  OBVIOUS
<1> HIDE DEF r
<1>2. \A k \in DOMAIN r : k + 1 \in DOMAIN q /\ r[k] = q[k + 1]
  BY <1>1
<1>3. \A k \in DOMAIN q : k # 1 => k - 1 \in DOMAIN r /\ r[k - 1] = q[k]
  BY <1>1
<1>4. ASSUME NEW k \in DOMAIN r, r[k].what = w, \A m \in DOMAIN r : m > k => r[m].what # w
      PROVE  r[k].add <=> w \in T
  <2>1. k + 1 \in DOMAIN q /\ q[k + 1].what = w
    BY <1>2, <1>4
  <2>2. ASSUME NEW m \in DOMAIN q, m > k + 1
        PROVE  q[m].what # w
    <3>1. k \in Nat /\ m \in Nat /\ k >= 1
      BY <1>1
    <3>2. m # 1 /\ m - 1 > k
      BY <2>2, <3>1
    <3> QED
      BY <1>3, <1>4, <3>2
  <2>3. q[k + 1].add <=> w \in T
    BY <2>1, <2>2 DEF Tells
  <2> QED
    BY <1>2, <2>3
<1>5. ASSUME \A k \in DOMAIN r : r[k].what # w
      PROVE  w \in L <=> w \in T
  <2>1. \A k \in DOMAIN q : k # 1 => q[k].what # w
    BY <1>3, <1>5
  <2>2. 1 \in DOMAIN q
    BY <1>1
  <2>3. CASE q[1].what = w
    <3>1. \A m \in DOMAIN q : m > 1 => q[m].what # w
      BY <2>1
    <3>2. q[1].add <=> w \in T
      BY <2>2, <2>3, <3>1 DEF Tells
    <3> QED
      BY <1>1, <2>3, <3>2
  <2>4. CASE q[1].what # w
    <3>1. \A m \in DOMAIN q : q[m].what # w
      BY <2>1, <2>4
    <3>2. w \in K <=> w \in T
      BY <3>1 DEF Tells
    <3> QED
      BY <1>1, <2>4, <3>2
  <2> QED
    BY <2>3, <2>4
<1>6. Tells(r, w, L, T)
  BY <1>4, <1>5 DEF Tells
<1> QED
  BY <1>6 DEF r

-----------------------------------------------------------------------------
(* What is there is reported at the start. *)

There(hs, ls) == (IF hs THEN {Address} ELSE {}) \cup ls

LEMMA DumpTells ==
    ASSUME NEW hs, NEW ls \in SUBSET Links
    PROVE  /\ Dump(hs, ls) \in Seq(Events)
           /\ \A w : Tells(Dump(hs, ls), w, {}, There(hs, ls))
<1> DEFINE T == There(hs, ls)
           S == {Event(w, TRUE) : w \in T}
           q == Dump(hs, ls)
<1>1. T \subseteq Things
  BY DEF There, Things
<1>2. IsFiniteSet(S)
  <2>1. IsFiniteSet(Links) /\ IsFiniteSet({Address})
    BY LinksAssumption, FS_Singleton
  <2>2. IsFiniteSet(Things)
    BY <2>1, FS_Union DEF Things
  <2>3. IsFiniteSet(T)
    BY <1>1, <2>2, FS_Subset
  <2>4. \A e \in S : \E w \in T : e = Event(w, TRUE)
    OBVIOUS
  <2> DEFINE f == [w \in T |-> Event(w, TRUE)]
  <2>5. S = {f[w] : w \in T} /\ f \in [T -> S]
    OBVIOUS
  <2> HIDE DEF T, S, f
  <2>6. f \in Surjection(T, S)
    BY <2>5 DEF Surjection
  <2> QED
    BY <2>3, <2>6, FS_Surjection
<1>3. q = SetToSeq(S)
  BY DEF Dump, There
<1>4. S \subseteq Events /\ \A e \in S : e.add = TRUE /\ e.what \in T
  <2>1. ASSUME NEW w \in T
        PROVE  /\ Event(w, TRUE) \in Events
               /\ Event(w, TRUE).add = TRUE /\ Event(w, TRUE).what = w
    BY <1>1 DEF Event, Events
  <2> HIDE DEF T
  <2> QED
    BY <2>1
<1>5. \A w \in T : \E e \in S : e.what = w
  <2>1. ASSUME NEW w \in T
        PROVE  Event(w, TRUE) \in S /\ Event(w, TRUE).what = w
    BY DEF Event
  <2> QED
    BY <2>1
<1> HIDE DEF S, q
<1>6. q \in Seq(S) /\ \A e \in S : \E n \in DOMAIN q : q[n] = e
  BY <1>2, <1>3, OrderOf
<1>7. q \in Seq(Events) /\ \A n \in DOMAIN q : q[n] \in S
  BY <1>4, <1>6
<1>8. ASSUME NEW w
      PROVE  Tells(q, w, {}, T)
  <2>1. \A n \in DOMAIN q : q[n].add = TRUE /\ q[n].what \in T
    BY <1>4, <1>7
  <2>2. w \in T => \E n \in DOMAIN q : q[n].what = w
    BY <1>5, <1>6
  <2> HIDE DEF T
  <2> QED
    BY <2>1, <2>2 DEF Tells
<1> QED
  BY <1>7, <1>8 DEF q

LEMMA Prefixed ==
    ASSUME NEW S, NEW e \in S, NEW d \in Seq(S), NEW q, q = <<e>> \o d
    PROVE  /\ q \in Seq(S) /\ Len(q) = Len(d) + 1 /\ q[1] = e /\ Len(d) \in Nat
           /\ \A k \in DOMAIN d : k + 1 \in DOMAIN q /\ q[k + 1] = d[k]
<1> DEFINE one == <<e>>
<1>1. one \in Seq(S) /\ Len(one) = 1 /\ one[1] = e /\ q = one \o d
  OBVIOUS
<1> HIDE DEF one
<1>2. q \in Seq(S) /\ Len(q) = Len(d) + 1 /\ Len(d) \in Nat
  BY <1>1
<1>3. q[1] = e
  BY <1>1
<1>4. \A k \in DOMAIN d : k + 1 \in DOMAIN q /\ q[k + 1] = d[k]
  BY <1>1
<1> QED
  BY <1>2, <1>3, <1>4

LEMMA DumpsTell ==
    ASSUME holds \in BOOLEAN, links \in SUBSET Links, NEW q \in Dumps
    PROVE  /\ q \in Seq(Events)
           /\ \A w : Tells(q, w, {}, There(holds, links))
<1> DEFINE T == There(holds, links)
           d == Dump(holds, links)
<1>1. d \in Seq(Events) /\ \A w : Tells(d, w, {}, T)
  BY DumpTells
<1>2. CASE q = d
  BY <1>1, <1>2
<1>3. CASE q # d
  <2>1. PICK l \in Links \ links : q = <<Event(l, FALSE)>> \o d
    BY <1>3 DEF Dumps
  <2> DEFINE e == Event(l, FALSE)
  <2>2. e \in Events /\ e.what = l /\ e.add = FALSE
    BY DEF Event, Events, Things
  <2>3. ~(l \in T)
    BY AddressAssumption DEF There
  <2> HIDE DEF d, e, T
  <2>4. /\ q \in Seq(Events) /\ Len(q) = Len(d) + 1 /\ q[1] = e /\ Len(d) \in Nat
        /\ \A k \in DOMAIN d : k + 1 \in DOMAIN q /\ q[k + 1] = d[k]
    <3>1. d \in Seq(Events) /\ q = <<e>> \o d
      BY <1>1, <2>1 DEF e
    <3> QED
      BY <2>2, <3>1, Prefixed
  <2>5. \A k \in DOMAIN q : k # 1 => k - 1 \in DOMAIN d /\ q[k] = d[k - 1]
    BY <2>4, <1>1
  <2>6. ASSUME NEW w
        PROVE  Tells(q, w, {}, T)
    <3>1. Tells(d, w, {}, T)
      BY <1>1
    <3>2. ASSUME NEW k \in DOMAIN q, q[k].what = w, \A m \in DOMAIN q : m > k => q[m].what # w
          PROVE  q[k].add <=> w \in T
      <4>1. CASE k = 1
        BY <2>2, <2>3, <2>4, <3>2, <4>1
      <4>2. CASE k # 1
        <5>1. k - 1 \in DOMAIN d /\ q[k] = d[k - 1]
          BY <2>5, <4>2
        <5>2. ASSUME NEW m \in DOMAIN d, m > k - 1
              PROVE  d[m].what # w
          <6>1. m + 1 \in DOMAIN q /\ q[m + 1] = d[m]
            BY <2>4
          <6>2. m + 1 > k
            BY <1>1, <2>4, <5>2
          <6> QED
            BY <3>2, <6>1, <6>2
        <5> QED
          BY <3>1, <3>2, <5>1, <5>2 DEF Tells
      <4> QED
        BY <4>1, <4>2
    <3>3. ASSUME \A k \in DOMAIN q : q[k].what # w
          PROVE  w \in {} <=> w \in T
      <4>1. \A k \in DOMAIN d : d[k].what # w
        BY <2>4, <3>3
      <4> QED
        BY <3>1, <4>1 DEF Tells
    <3> QED
      BY <3>2, <3>3 DEF Tells
  <2> QED
    BY <2>4, <2>6 DEF T
<1> QED
  BY <1>2, <1>3

-----------------------------------------------------------------------------
(* The servers keep up: with the running configuration, by what they know.  *)

CacheCurrent(s, d) == s.last = "applied" /\ ~s.timer => s.unit = CacheFor(d, s.known)
AuthoritativeCurrent(s, d) == Runs(s, AuthoritativeFor(d, s.known))
DhcpCurrent(s, d) == Runs(s, DhcpFor(d, s.known))

ServersType ==
    /\ data \in Configurations /\ staged \in Configurations
    /\ IsServer(cache) /\ IsServer(nsd) /\ IsServer(kea)
    /\ cache.known \subseteq {Address} /\ nsd.known \subseteq {Address}
    /\ kea.known \subseteq Links
    /\ holds \in BOOLEAN /\ links \in SUBSET Links
    /\ queue \in Seq(Events)

ServersCurrent ==
    /\ table = TableOf(data)
    /\ CacheCurrent(cache, data)
    /\ AuthoritativeCurrent(nsd, data)
    /\ DhcpCurrent(kea, data)

ServersTold ==
    /\ Tells(queue, Address, cache.known, There(holds, links))
    /\ Tells(queue, Address, nsd.known, There(holds, links))
    /\ \A l \in Links : Tells(queue, l, kea.known, There(holds, links))

ServersInv == ServersType /\ ServersCurrent /\ ServersTold

(* The version of the configuration is nothing to them. *)
LEMMA SameSections ==
    ASSUME NEW d \in Configurations
    PROVE  LET e == [d EXCEPT !.ahead = FALSE] IN
           /\ e \in Configurations
           /\ TableOf(e) = TableOf(d)
           /\ \A s : CacheCurrent(s, d) => CacheCurrent(s, e)
           /\ \A s : AuthoritativeCurrent(s, d) => AuthoritativeCurrent(s, e)
           /\ \A s : DhcpCurrent(s, d) => DhcpCurrent(s, e)
           /\ e.client = d.client
<1> DEFINE e == [d EXCEPT !.ahead = FALSE]
<1>1. /\ e \in Configurations
      /\ e.ipam = d.ipam /\ e.cache = d.cache /\ e.nsd = d.nsd /\ e.kea = d.kea
      /\ e.client = d.client
  BY DEF Configurations
<1> HIDE DEF e
<1>2. TableOf(e) = TableOf(d) /\ HostsOf(e) = HostsOf(d)
  BY <1>1 DEF TableOf, HostsOf
<1>3. \A k : /\ CacheFor(e, k) = CacheFor(d, k)
             /\ AuthoritativeFor(e, k) = AuthoritativeFor(d, k)
             /\ DhcpFor(e, k) = DhcpFor(d, k)
  BY <1>1, <1>2 DEF CacheFor, AuthoritativeFor, DhcpFor
<1> QED
  BY <1>1, <1>2, <1>3 DEF CacheCurrent, AuthoritativeCurrent, DhcpCurrent, e

(* What a call of the change handlers leaves. *)
LEMMA HandlersGive ==
    ASSUME NEW a, NEW d \in Configurations, NEW shared, NEW fault,
           IsServer(a.cache), IsServer(a.nsd), IsServer(a.kea),
           NEW r \in CallHandlers(a, d, shared, fault)
    PROVE  LET b == r.agent IN
           /\ b.table = TableOf(d)
           /\ IsServer(b.cache) /\ b.cache.known = a.cache.known /\ CacheCurrent(b.cache, d)
           /\ IsServer(b.nsd) /\ b.nsd.known = a.nsd.known /\ AuthoritativeCurrent(b.nsd, d)
           /\ IsServer(b.kea) /\ b.kea.known = a.kea.known /\ DhcpCurrent(b.kea, d)
<1> DEFINE t == TableOf(d)
           c == ApplyCache(a.cache, d.cache, t, Of(fault, "cache"))
           n == ApplyAuthoritative(a.nsd, d.nsd, t, Of(fault, "nsd"))
           k == ApplyDhcp(a.kea, d.kea, t, Of(fault, "kea"))
<1>1. r.agent.table = t /\ r.agent.cache = c /\ r.agent.nsd = n /\ r.agent.kea = k
  BY DEF CallHandlers, HostsFor, TableOf
<1>2. IsServer(c) /\ c.known = a.cache.known /\ Runs(c, CacheFor(d, a.cache.known))
  BY CacheApplied
<1>3. IsServer(n) /\ n.known = a.nsd.known /\ Runs(n, AuthoritativeFor(d, a.nsd.known))
  BY AuthoritativeApplied
<1>4. IsServer(k) /\ k.known = a.kea.known /\ Runs(k, DhcpFor(d, a.kea.known))
  BY DhcpApplied
<1> HIDE DEF c, n, k
<1> QED
  BY <1>1, <1>2, <1>3, <1>4 DEF CacheCurrent, AuthoritativeCurrent, DhcpCurrent, Runs

LEMMA KnowsGives ==
    ASSUME NEW s, IsServer(s), NEW e \in Events
    PROVE  LET r == Knows(s, e) IN
           /\ IsServer(r)
           /\ r.known = IF e.add THEN s.known \cup {e.what} ELSE s.known \ {e.what}
           /\ r.timer = s.timer /\ r.unit = s.unit /\ r.last = s.last
<1> DEFINE k == IF e.add THEN s.known \cup {e.what} ELSE s.known \ {e.what}
<1>1. Knows(s, e) = [s EXCEPT !.known = k]
  BY DEF Knows
<1>2. k \in SUBSET Things
  BY DEF IsServer, Events
<1> HIDE DEF k
<1>3. [s EXCEPT !.known = k].known = k
  BY DEF IsServer
<1> QED
  BY <1>1, <1>2, <1>3 DEF IsServer, k

(* A file that does not ask for an address does not depend on it.           *)
LEMMA CacheDeaf ==
    ASSUME NEW d \in Configurations, ~d.cache.listen, NEW k, NEW l
    PROVE  CacheFor(d, k) = CacheFor(d, l)
<1>1. LocalConf(d.cache, HostsOf(d), k) = LocalConf(d.cache, HostsOf(d), l)
  BY DEF LocalConf
<1> QED
  BY <1>1 DEF CacheFor

LEMMA AuthoritativeDeaf ==
    ASSUME NEW d \in Configurations, ~d.nsd.listen, NEW k, NEW l
    PROVE  AuthoritativeFor(d, k) = AuthoritativeFor(d, l)
<1>1. NsdConf(d.nsd, k) = NsdConf(d.nsd, l)
  BY DEF NsdConf
<1> QED
  BY <1>1 DEF AuthoritativeFor

LEMMA DhcpDeaf ==
    ASSUME NEW d \in Configurations, NEW k, NEW l,
           d.kea.interface \cap k = d.kea.interface \cap l
    PROVE  DhcpFor(d, k) = DhcpFor(d, l)
<1>1. Dhcp4Conf(d.kea, HostsOf(d), k) = Dhcp4Conf(d.kea, HostsOf(d), l)
  BY DEF Dhcp4Conf
<1> QED
  BY <1>1 DEF DhcpFor

LEMMA CacheHears ==
    ASSUME ServersType, ServersCurrent, NEW e \in Events, e.what = Address,
           NEW s, s = IF (e.what \in cache.known) = e.add THEN cache
                      ELSE IF data.cache.listen THEN ScheduleApply(Knows(cache, e))
                      ELSE Knows(cache, e)
    PROVE  /\ IsServer(s) /\ s.known \subseteq {Address} /\ (Address \in s.known <=> e.add)
           /\ CacheCurrent(s, data)
<1> DEFINE k == Knows(cache, e)
<1>1. /\ IsServer(k)
      /\ k.known = IF e.add THEN cache.known \cup {e.what} ELSE cache.known \ {e.what}
      /\ k.timer = cache.timer /\ k.unit = cache.unit /\ k.last = cache.last
  BY KnowsGives DEF ServersType
<1>2. k.known \subseteq {Address} /\ (Address \in k.known <=> e.add)
  BY <1>1 DEF ServersType
<1> HIDE DEF k
<1>3. CASE (e.what \in cache.known) = e.add
  BY <1>3 DEF ServersType, ServersCurrent, Events
<1>4. CASE ~((e.what \in cache.known) = e.add) /\ data.cache.listen
  <2>1. s = [k EXCEPT !.timer = TRUE]
    BY <1>4 DEF ScheduleApply, k
  <2>2. IsServer(s) /\ s.known = k.known /\ s.timer = TRUE
    BY <1>1, <2>1 DEF IsServer
  <2> QED
    BY <1>2, <2>2 DEF CacheCurrent
<1>5. CASE ~((e.what \in cache.known) = e.add) /\ ~data.cache.listen
  <2>1. s = k
    BY <1>5 DEF k
  <2>2. CacheFor(data, k.known) = CacheFor(data, cache.known)
    BY <1>5, CacheDeaf DEF ServersType
  <2> QED
    BY <1>1, <1>2, <2>1, <2>2 DEF ServersCurrent, CacheCurrent
<1> QED
  BY <1>3, <1>4, <1>5

LEMMA AuthoritativeHears ==
    ASSUME ServersType, ServersCurrent, NEW e \in Events, e.what = Address, NEW fault,
           NEW s, s = IF ~e.add /\ e.what \notin nsd.known THEN nsd
                      ELSE IF data.nsd.listen
                      THEN ApplyAuthoritative(Knows(nsd, e), data.nsd, table, Of(fault, "nsd"))
                      ELSE Knows(nsd, e)
    PROVE  /\ IsServer(s) /\ s.known \subseteq {Address} /\ (Address \in s.known <=> e.add)
           /\ AuthoritativeCurrent(s, data)
<1> DEFINE k == Knows(nsd, e)
           a == ApplyAuthoritative(k, data.nsd, table, Of(fault, "nsd"))
<1>1. /\ IsServer(k)
      /\ k.known = IF e.add THEN nsd.known \cup {e.what} ELSE nsd.known \ {e.what}
      /\ k.unit = nsd.unit /\ k.last = nsd.last
  BY KnowsGives DEF ServersType
<1>2. k.known \subseteq {Address} /\ (Address \in k.known <=> e.add)
  BY <1>1 DEF ServersType
<1> HIDE DEF k
<1>3. CASE ~e.add /\ e.what \notin nsd.known
  BY <1>3 DEF ServersType, ServersCurrent
<1>4. CASE ~(~e.add /\ e.what \notin nsd.known) /\ data.nsd.listen
  <2>1. s = a
    BY <1>4 DEF k
  <2>2. IsServer(a) /\ a.known = k.known /\ Runs(a, AuthoritativeFor(data, k.known))
    BY <1>1, AuthoritativeApplied DEF ServersType, ServersCurrent
  <2> HIDE DEF a
  <2> QED
    BY <1>2, <2>1, <2>2 DEF AuthoritativeCurrent
<1>5. CASE ~(~e.add /\ e.what \notin nsd.known) /\ ~data.nsd.listen
  <2>1. s = k
    BY <1>5 DEF k
  <2>2. AuthoritativeFor(data, k.known) = AuthoritativeFor(data, nsd.known)
    BY <1>5, AuthoritativeDeaf DEF ServersType
  <2> QED
    BY <1>1, <1>2, <2>1, <2>2 DEF ServersCurrent, AuthoritativeCurrent, Runs
<1> QED
  BY <1>3, <1>4, <1>5

LEMMA DhcpHears ==
    ASSUME ServersType, ServersCurrent, NEW e \in Events, e.what \in Links, NEW fault,
           NEW s, s = IF ~e.add /\ e.what \notin kea.known THEN kea
                      ELSE IF e.what \in data.kea.interface
                      THEN ApplyDhcp(Knows(kea, e), data.kea, table, Of(fault, "kea"))
                      ELSE Knows(kea, e)
    PROVE  /\ IsServer(s) /\ s.known \subseteq Links
           /\ e.what \in s.known <=> e.add
           /\ \A l \in Links : l # e.what => (l \in s.known <=> l \in kea.known)
           /\ DhcpCurrent(s, data)
<1> DEFINE k == Knows(kea, e)
           a == ApplyDhcp(k, data.kea, table, Of(fault, "kea"))
<1>1. /\ IsServer(k)
      /\ k.known = IF e.add THEN kea.known \cup {e.what} ELSE kea.known \ {e.what}
      /\ k.unit = kea.unit /\ k.last = kea.last
  BY KnowsGives DEF ServersType
<1>2. /\ k.known \subseteq Links
      /\ e.what \in k.known <=> e.add
      /\ \A l \in Links : l # e.what => (l \in k.known <=> l \in kea.known)
  BY <1>1 DEF ServersType
<1> HIDE DEF k
<1>3. CASE ~e.add /\ e.what \notin kea.known
  BY <1>3 DEF ServersType, ServersCurrent
<1>4. CASE ~(~e.add /\ e.what \notin kea.known) /\ e.what \in data.kea.interface
  <2>1. s = a
    BY <1>4 DEF k
  <2>2. IsServer(a) /\ a.known = k.known /\ Runs(a, DhcpFor(data, k.known))
    BY <1>1, DhcpApplied DEF ServersType, ServersCurrent
  <2> HIDE DEF a
  <2> QED
    BY <1>2, <2>1, <2>2 DEF DhcpCurrent
<1>5. CASE ~(~e.add /\ e.what \notin kea.known) /\ ~(e.what \in data.kea.interface)
  <2>1. s = k
    BY <1>5 DEF k
  <2>2. data.kea.interface \cap k.known = data.kea.interface \cap kea.known
    BY <1>1, <1>5
  <2>3. DhcpFor(data, k.known) = DhcpFor(data, kea.known)
    BY <2>2, DhcpDeaf DEF ServersType
  <2> QED
    BY <1>1, <1>2, <2>1, <2>3 DEF ServersCurrent, DhcpCurrent, Runs
<1> QED
  BY <1>3, <1>4, <1>5

-----------------------------------------------------------------------------
(* The steps. *)

LEMMA StagedEdited ==
    ASSUME staged \in Configurations, EditStaged
    PROVE  staged' \in Configurations
<1>1. CASE EditHosts
  <2>1. PICK h \in Hosts : LET hosts == staged.ipam
                               at == {i \in DOMAIN hosts : Name[hosts[i]] = Name[h]}
                           IN staged' \in {[staged EXCEPT !.ipam = q] :
                                q \in IF at = {} THEN {Append(hosts, h)}
                                      ELSE {ReplaceAt(hosts, Min(at), h),
                                            RemoveAt(hosts, Min(at))}}
    BY <1>1 DEF EditHosts
  <2> DEFINE hosts == staged.ipam
             at == {i \in DOMAIN hosts : Name[hosts[i]] = Name[h]}
  <2>2. hosts \in Seq(Hosts)
    BY DEF Configurations
  <2>3. PICK q : /\ q \in IF at = {} THEN {Append(hosts, h)}
                          ELSE {ReplaceAt(hosts, Min(at), h), RemoveAt(hosts, Min(at))}
                 /\ staged' = [staged EXCEPT !.ipam = q]
    BY <2>1
  <2>4. at \in SUBSET Nat /\ at \subseteq 1..Len(hosts)
    BY <2>2
  <2> HIDE DEF at, hosts
  <2>5. q \in Seq(Hosts)
    <3>1. CASE at = {}
      BY <2>2, <2>3, <3>1
    <3>2. CASE at # {}
      <4>1. Min(at) \in 1..Len(hosts)
        BY <2>4, <3>2, LeastIn
      <4>2. ReplaceAt(hosts, Min(at), h) \in Seq(Hosts)
        BY <2>2, <4>1 DEF ReplaceAt
      <4>3. RemoveAt(hosts, Min(at)) \in Seq(Hosts)
        BY <2>2, <4>1, RemoveAtIsSeq
      <4> QED
        BY <2>3, <3>2, <4>2, <4>3
    <3> QED
      BY <3>1, <3>2
  <2> QED
    BY <2>3, <2>5 DEF Configurations
<1>2. CASE EditServer
  <2>1. \/ \E c \in Cache : staged' = [staged EXCEPT !.cache = c]
        \/ \E c \in Authoritative : staged' = [staged EXCEPT !.nsd = c]
        \/ \E c \in Dhcp : staged' = [staged EXCEPT !.kea = c]
    BY <1>2, SectionsAssumption DEF EditServer
  <2>2. CASE \E c \in Cache : staged' = [staged EXCEPT !.cache = c]
    BY <2>2 DEF Configurations
  <2>3. CASE \E c \in Authoritative : staged' = [staged EXCEPT !.nsd = c]
    BY <2>3 DEF Configurations
  <2>4. CASE \E c \in Dhcp : staged' = [staged EXCEPT !.kea = c]
    BY <2>4 DEF Configurations
  <2> QED
    BY <2>1, <2>2, <2>3, <2>4
<1>3. CASE EditClient
  <2>1. PICK l \in Links, t \in Tables \cup {NoTable} : staged' = [staged EXCEPT !.client[l] = t]
    BY <1>3 DEF EditClient
  <2> DEFINE c == [staged.client EXCEPT ![l] = t]
  <2>2. c \in [Links -> Tables \cup {NoTable}]
    BY DEF Configurations
  <2>3. staged' = [staged EXCEPT !.client = c]
    BY <2>1
  <2> HIDE DEF c
  <2> QED
    BY <2>2, <2>3 DEF Configurations
<1> QED
  BY <1>1, <1>2, <1>3 DEF EditStaged

(* Nothing of theirs changes. *)
LEMMA ServersUntouched ==
    ASSUME ServersInv, staged' \in Configurations,
           UNCHANGED <<data, table, cache, nsd, kea, kernel, queue>>
    PROVE  ServersInv'
<1>1. UNCHANGED <<holds, links>>
  BY DEF kernel
<1>2. ServersType'
  BY <1>1 DEF ServersInv, ServersType
<1>3. ServersCurrent'
  BY DEF ServersInv, ServersCurrent
<1>4. ServersTold'
  BY <1>1 DEF ServersInv, ServersTold
<1> QED
  BY <1>2, <1>3, <1>4 DEF ServersInv

(* New states of the servers, that know what they knew before. *)
LEMMA ServersReplaced ==
    ASSUME ServersInv, UNCHANGED <<kernel, queue>>,
           data' \in Configurations, staged' \in Configurations, table' = TableOf(data'),
           NEW c, c = cache', NEW n, n = nsd', NEW k, k = kea',
           IsServer(c), c.known = cache.known, CacheCurrent(c, data'),
           IsServer(n), n.known = nsd.known, AuthoritativeCurrent(n, data'),
           IsServer(k), k.known = kea.known, DhcpCurrent(k, data')
    PROVE  ServersInv'
<1>1. UNCHANGED <<holds, links, queue>>
  BY DEF kernel
<1>2. ServersType'
  BY <1>1 DEF ServersInv, ServersType
<1>3. ServersCurrent'
  BY DEF ServersCurrent
<1>4. ServersTold'
  BY <1>1 DEF ServersInv, ServersTold
<1> QED
  BY <1>2, <1>3, <1>4 DEF ServersInv

LEMMA ServersCommit ==
    ASSUME ServersInv, Commit
    PROVE  ServersInv'
<1>1. UNCHANGED <<kernel, queue>>
  BY DEF Commit
<1>2. /\ data \in Configurations /\ staged \in Configurations
      /\ IsServer(Agent.cache) /\ IsServer(Agent.nsd) /\ IsServer(Agent.kea)
      /\ Agent.cache = cache /\ Agent.nsd = nsd /\ Agent.kea = kea
  BY DEF ServersInv, ServersType, Agent
<1> DEFINE Given(b, a, d) ==
             /\ b.table = TableOf(d)
             /\ IsServer(b.cache) /\ b.cache.known = a.cache.known /\ CacheCurrent(b.cache, d)
             /\ IsServer(b.nsd) /\ b.nsd.known = a.nsd.known /\ AuthoritativeCurrent(b.nsd, d)
             /\ IsServer(b.kea) /\ b.kea.known = a.kea.known /\ DhcpCurrent(b.kea, d)
<1>a. ASSUME NEW a, IsServer(a.cache), IsServer(a.nsd), IsServer(a.kea),
             NEW d \in Configurations, NEW shared, NEW fault,
             NEW r \in CallHandlers(a, d, shared, fault)
      PROVE  Given(r.agent, a, d)
  BY <1>a, HandlersGive
<1>3. CASE CommitSucceeds
  <2>0. PICK fault \in Faults :
            \E r \in CallHandlers(Agent, staged, TRUE, fault) :
                /\ data' = [staged EXCEPT !.ahead = FALSE]
                /\ staged' = data'
                /\ Become([r.agent EXCEPT !.clients = Unshared(@)])
    BY <1>3 DEF CommitSucceeds
  <2>1. PICK r \in CallHandlers(Agent, staged, TRUE, fault) :
            /\ data' = [staged EXCEPT !.ahead = FALSE]
            /\ staged' = data'
            /\ Become([r.agent EXCEPT !.clients = Unshared(@)])
    BY <2>0
  <2> DEFINE b == r.agent
  <2>2. /\ b.table = TableOf(staged)
        /\ IsServer(b.cache) /\ b.cache.known = cache.known /\ CacheCurrent(b.cache, staged)
        /\ IsServer(b.nsd) /\ b.nsd.known = nsd.known /\ AuthoritativeCurrent(b.nsd, staged)
        /\ IsServer(b.kea) /\ b.kea.known = kea.known /\ DhcpCurrent(b.kea, staged)
    <3> HIDE DEF Given
    <3>1. Given(b, Agent, staged)
      BY <1>2, <1>a
    <3> QED
      BY <1>2, <3>1 DEF Given
  <2>3. cache' = b.cache /\ nsd' = b.nsd /\ kea' = b.kea /\ table' = b.table
    <3>1. /\ [b EXCEPT !.clients = Unshared(@)].cache = b.cache
          /\ [b EXCEPT !.clients = Unshared(@)].nsd = b.nsd
          /\ [b EXCEPT !.clients = Unshared(@)].kea = b.kea
          /\ [b EXCEPT !.clients = Unshared(@)].table = b.table
      BY DEF CallHandlers
    <3> QED
      BY <2>1, <3>1 DEF Become
  <2> HIDE DEF b
  <2>4. /\ data' \in Configurations /\ table' = TableOf(data')
        /\ CacheCurrent(b.cache, data') /\ AuthoritativeCurrent(b.nsd, data')
        /\ DhcpCurrent(b.kea, data')
    BY <1>2, <2>1, <2>2, <2>3, SameSections
  <2> QED
    BY <1>1, <2>1, <2>2, <2>3, <2>4, ServersReplaced
<1>4. CASE CommitFails
  <2>01. PICK first \in Faults, second \in Faults :
             \E r \in CallHandlers(Agent, staged, TRUE, first) :
                 \E q \in CallHandlers(r.agent, data, FALSE, second) : Become(q.agent)
    BY <1>4 DEF CommitFails
  <2>02. PICK r \in CallHandlers(Agent, staged, TRUE, first) :
             \E q \in CallHandlers(r.agent, data, FALSE, second) : Become(q.agent)
    BY <2>01
  <2>03. PICK q \in CallHandlers(r.agent, data, FALSE, second) : Become(q.agent)
    BY <2>02
  <2>04. staged' = [staged EXCEPT !.ahead = TRUE] /\ data' = data
    BY <1>4 DEF CommitFails
  <2>1. Become(q.agent) /\ staged' = [staged EXCEPT !.ahead = TRUE] /\ data' = data
    BY <2>03, <2>04
  <2> DEFINE a == r.agent
             b == q.agent
  <2>2. /\ IsServer(a.cache) /\ a.cache.known = cache.known
        /\ IsServer(a.nsd) /\ a.nsd.known = nsd.known
        /\ IsServer(a.kea) /\ a.kea.known = kea.known
    <3> HIDE DEF Given
    <3>1. Given(a, Agent, staged)
      BY <1>2, <1>a
    <3> QED
      BY <1>2, <3>1 DEF Given
  <2>3. /\ b.table = TableOf(data)
        /\ IsServer(b.cache) /\ b.cache.known = a.cache.known /\ CacheCurrent(b.cache, data)
        /\ IsServer(b.nsd) /\ b.nsd.known = a.nsd.known /\ AuthoritativeCurrent(b.nsd, data)
        /\ IsServer(b.kea) /\ b.kea.known = a.kea.known /\ DhcpCurrent(b.kea, data)
    BY <1>2, <2>2, HandlersGive
  <2>4. cache' = b.cache /\ nsd' = b.nsd /\ kea' = b.kea /\ table' = b.table
    BY <2>1 DEF Become
  <2>5. staged' \in Configurations
    BY <1>2, <2>1 DEF Configurations
  <2> HIDE DEF a, b
  <2>6. /\ data' \in Configurations /\ table' = TableOf(data')
        /\ CacheCurrent(b.cache, data') /\ AuthoritativeCurrent(b.nsd, data')
        /\ DhcpCurrent(b.kea, data')
    BY <1>2, <2>1, <2>3, <2>4
  <2> QED
    BY <1>1, <2>2, <2>3, <2>4, <2>5, <2>6, ServersReplaced
<1> QED
  BY <1>3, <1>4 DEF Commit

LEMMA ServersAddress ==
    ASSUME ServersInv, AddressChanges
    PROVE  ServersInv'
<1> DEFINE e == Event(Address, ~holds)
           T == There(holds, links)
           U == There(holds', links)
<1>1. /\ holds' = ~holds /\ queue' = Append(queue, e)
      /\ UNCHANGED <<data, staged, agent, links>>
  BY DEF AddressChanges
<1>2. ServersType /\ ServersCurrent /\ ServersTold
  BY DEF ServersInv
<1>3. UNCHANGED <<table, cache, nsd, kea>>
  BY <1>1 DEF agent
<1>4. e \in Events /\ e.what = Address /\ e.add = ~holds
  BY DEF Event, Events, Things
<1>5. (e.add <=> Address \in U) /\ \A l \in Links : l \in T <=> l \in U
  <2>1. ~(Address \in links)
    BY <1>2, AddressAssumption DEF ServersType
  <2>2. \A l \in Links : l # Address
    BY AddressAssumption
  <2> QED
    BY <1>1, <1>2, <1>4, <2>1, <2>2 DEF There, ServersType
<1> HIDE DEF e, T, U
<1>6. queue \in Seq(Events)
  BY <1>2 DEF ServersType
<1>7. queue' \in Seq(Events)
  BY <1>1, <1>4, <1>6
<1>8. ServersType'
  BY <1>1, <1>2, <1>3, <1>7 DEF ServersType
<1>9. ServersCurrent'
  BY <1>1, <1>2, <1>3 DEF ServersCurrent
<1>10. \A K : Tells(queue', Address, K, U)
  BY <1>1, <1>4, <1>5, <1>6, TellsOfChange
<1>11. ASSUME NEW l \in Links
       PROVE  Tells(queue', l, kea.known, U)
  <2>1. Tells(queue, l, kea.known, T)
    BY <1>2 DEF ServersTold, T
  <2>2. e.what # l
    BY <1>4, AddressAssumption
  <2> QED
    BY <1>1, <1>4, <1>5, <1>6, <2>1, <2>2, TellsOfOthers
<1>12. ServersTold'
  BY <1>1, <1>3, <1>10, <1>11 DEF ServersTold, U
<1> QED
  BY <1>8, <1>9, <1>12 DEF ServersInv

LEMMA ServersLink ==
    ASSUME ServersInv, LinkChanges
    PROVE  ServersInv'
<1>1. PICK l \in Links :
         /\ links' = IF l \in links THEN links \ {l} ELSE links \cup {l}
         /\ queue' = Append(queue, Event(l, l \notin links))
         /\ UNCHANGED <<data, staged, agent, holds>>
  BY DEF LinkChanges
<1> DEFINE e == Event(l, l \notin links)
           T == There(holds, links)
           U == There(holds, links')
<1>2. ServersType /\ ServersCurrent /\ ServersTold
  BY DEF ServersInv
<1>3. UNCHANGED <<table, cache, nsd, kea>>
  BY <1>1 DEF agent
<1>4. e \in Events /\ e.what = l /\ (e.add <=> l \notin links)
  BY DEF Event, Events, Things
<1>5. (e.add <=> l \in U) /\ \A k \in Links \cup {Address} : k # l => (k \in T <=> k \in U)
  <2>1. l # Address
    BY AddressAssumption
  <2> QED
    BY <1>1, <1>4, <2>1 DEF There
<1>6. links' \in SUBSET Links
  BY <1>1, <1>2 DEF ServersType
<1>7. queue \in Seq(Events) /\ queue' = Append(queue, e)
  BY <1>1, <1>2 DEF ServersType
<1> HIDE DEF e, T, U
<1>8. queue' \in Seq(Events)
  BY <1>4, <1>7
<1>9. ServersType'
  BY <1>1, <1>2, <1>3, <1>6, <1>8 DEF ServersType
<1>10. ServersCurrent'
  BY <1>1, <1>2, <1>3 DEF ServersCurrent
<1>11. ASSUME NEW w \in Links \cup {Address}, NEW K, Tells(queue, w, K, T)
       PROVE  Tells(queue', w, K, U)
  <2>1. CASE w = l
    BY <1>4, <1>5, <1>7, <2>1, TellsOfChange
  <2>2. CASE w # l
    BY <1>4, <1>5, <1>7, <1>11, <2>2, TellsOfOthers
  <2> QED
    BY <2>1, <2>2
<1>12. /\ Tells(queue, Address, cache.known, T) /\ Tells(queue, Address, nsd.known, T)
       /\ \A k \in Links : Tells(queue, k, kea.known, T)
  BY <1>2 DEF ServersTold, T
<1>13. ServersTold'
  BY <1>1, <1>3, <1>11, <1>12 DEF ServersTold, U
<1> QED
  BY <1>9, <1>10, <1>13 DEF ServersInv

LEMMA ServersHandle ==
    ASSUME ServersInv, HandleEvent
    PROVE  ServersInv'
<1> DEFINE e == Head(queue)
           T == There(holds, links)
<1>1. /\ queue # <<>> /\ queue' = Tail(queue)
      /\ UNCHANGED <<data, staged, table, kernel>>
  BY DEF HandleEvent
<1>2. UNCHANGED <<holds, links>>
  BY <1>1 DEF kernel
<1>3. ServersType /\ ServersCurrent /\ ServersTold
  BY DEF ServersInv
<1>4. queue \in Seq(Events)
  BY <1>3 DEF ServersType
<1>5. e \in Events /\ queue' \in Seq(Events)
  BY <1>1, <1>4
<1>6. e.what = Address \/ e.what \in Links
  BY <1>5 DEF Events, Things
<1>7. /\ Tells(queue, Address, cache.known, T) /\ Tells(queue, Address, nsd.known, T)
      /\ \A k \in Links : Tells(queue, k, kea.known, T)
  BY <1>3 DEF ServersTold
<1>8. ASSUME NEW w, NEW K, NEW L, Tells(queue, w, K, T),
             e.what = w => (w \in L <=> e.add),
             e.what # w => (w \in L <=> w \in K)
      PROVE  Tells(queue', w, L, T)
  BY <1>1, <1>4, <1>8, TellsRest
<1>9. CASE e.what = Address
  <2>1. PICK fault : CacheHandles(e) /\ AuthoritativeHandles(e, fault) /\ kea' = kea
    BY <1>9 DEF HandleEvent
  <2>2. PICK c : c = cache'
    OBVIOUS
  <2>3. PICK n : n = nsd'
    OBVIOUS
  <2>4. PICK ev : ev = e
    OBVIOUS
  <2> HIDE DEF e, T
  <2>5. /\ IsServer(c) /\ c.known \subseteq {Address} /\ (Address \in c.known <=> ev.add)
        /\ CacheCurrent(c, data)
    BY <1>3, <1>5, <1>9, <2>1, <2>2, <2>4, CacheHears DEF CacheHandles
  <2>6. /\ IsServer(n) /\ n.known \subseteq {Address} /\ (Address \in n.known <=> ev.add)
        /\ AuthoritativeCurrent(n, data)
    BY <1>3, <1>5, <1>9, <2>1, <2>3, <2>4, AuthoritativeHears DEF AuthoritativeHandles
  <2>7. ServersType'
    BY <1>1, <1>2, <1>3, <1>5, <2>1, <2>2, <2>3, <2>5, <2>6 DEF ServersType
  <2>8. ServersCurrent'
    BY <1>1, <1>3, <2>1, <2>2, <2>3, <2>5, <2>6 DEF ServersCurrent
  <2>9. Tells(queue', Address, c.known, T) /\ Tells(queue', Address, n.known, T)
    BY <1>7, <1>8, <1>9, <2>4, <2>5, <2>6
  <2>10. \A k \in Links : Tells(queue', k, kea.known, T)
    <3>1. \A k \in Links : e.what # k
      BY <1>9, AddressAssumption
    <3> QED
      BY <1>7, <1>8, <3>1
  <2>11. ServersTold'
    BY <1>2, <2>1, <2>2, <2>3, <2>9, <2>10 DEF ServersTold, T
  <2> QED
    BY <2>7, <2>8, <2>11 DEF ServersInv
<1>10. CASE e.what \in Links
  <2>0. e.what # Address
    BY <1>10, AddressAssumption
  <2>1. PICK fault : DhcpHandles(e, fault) /\ cache' = cache /\ nsd' = nsd
    BY <2>0 DEF HandleEvent
  <2>2. PICK k : k = kea'
    OBVIOUS
  <2>3. PICK ev : ev = e
    OBVIOUS
  <2> HIDE DEF e, T
  <2>4. /\ IsServer(k) /\ k.known \subseteq Links
        /\ ev.what \in k.known <=> ev.add
        /\ \A l \in Links : l # ev.what => (l \in k.known <=> l \in kea.known)
        /\ DhcpCurrent(k, data)
    BY <1>3, <1>5, <1>10, <2>1, <2>2, <2>3, DhcpHears DEF DhcpHandles
  <2>5. ServersType'
    BY <1>1, <1>2, <1>3, <1>5, <2>1, <2>2, <2>4 DEF ServersType
  <2>6. ServersCurrent'
    BY <1>1, <1>3, <2>1, <2>2, <2>4 DEF ServersCurrent
  <2>7. Tells(queue', Address, cache.known, T) /\ Tells(queue', Address, nsd.known, T)
    BY <1>7, <1>8, <2>0
  <2>8. \A l \in Links : Tells(queue', l, k.known, T)
    BY <1>7, <1>8, <2>3, <2>4
  <2>9. ServersTold'
    BY <1>2, <2>1, <2>2, <2>7, <2>8 DEF ServersTold, T
  <2> QED
    BY <2>5, <2>6, <2>9 DEF ServersInv
<1> QED
  BY <1>6, <1>9, <1>10

LEMMA ServersTimer ==
    ASSUME ServersInv, TimerFires
    PROVE  ServersInv'
<1>1. PICK fault : cache' = ApplyCache(cache, data.cache, table, Of(fault, "cache"))
  BY DEF TimerFires
<1>2. UNCHANGED <<data, staged, table, nsd, kea, kernel, queue>>
  BY DEF TimerFires
<1>3. /\ data \in Configurations /\ staged \in Configurations /\ table = TableOf(data)
      /\ IsServer(cache) /\ IsServer(nsd) /\ IsServer(kea)
      /\ AuthoritativeCurrent(nsd, data) /\ DhcpCurrent(kea, data)
  BY DEF ServersInv, ServersType, ServersCurrent
<1>4. PICK c : c = cache'
  OBVIOUS
<1>5. IsServer(c) /\ c.known = cache.known /\ Runs(c, CacheFor(data, cache.known))
  BY <1>1, <1>3, <1>4, CacheApplied
<1>6. CacheCurrent(c, data)
  BY <1>5 DEF CacheCurrent, Runs
<1>7. AuthoritativeCurrent(nsd, data') /\ DhcpCurrent(kea, data') /\ CacheCurrent(c, data')
      /\ data' \in Configurations /\ staged' \in Configurations /\ table' = TableOf(data')
  BY <1>2, <1>3, <1>6
<1> QED
  BY <1>2, <1>3, <1>4, <1>5, <1>7, ServersReplaced

LEMMA StartedGives ==
    ASSUME NEW d \in Configurations, NEW c, NEW n, NEW k, NEW cs,
           NEW c1, NEW c2, NEW cu, c = NewServer(c1, c2, cu),
           NEW n1, NEW n2, NEW nu, n = NewServer(n1, n2, nu),
           NEW k1, NEW k2, NEW ku, k = NewServer(k1, k2, ku)
    PROVE  LET b == Started(d, c, n, k, cs) IN
           /\ b.table = TableOf(d)
           /\ IsServer(b.cache) /\ b.cache.known = {} /\ CacheCurrent(b.cache, d)
           /\ IsServer(b.nsd) /\ b.nsd.known = {} /\ AuthoritativeCurrent(b.nsd, d)
           /\ IsServer(b.kea) /\ b.kea.known = {} /\ DhcpCurrent(b.kea, d)
<1> DEFINE bc == [c EXCEPT !.unit = <<c.first, c.second>>]
           bn == ApplyAuthoritative(n, d.nsd, TableOf(d), "")
           bk == ApplyDhcp(k, d.kea, TableOf(d), "")
           b == Started(d, c, n, k, cs)
<1>1. b.table = TableOf(d) /\ b.cache = bc /\ b.nsd = bn /\ b.kea = bk
  BY DEF Started, TableOf
<1>2. /\ IsServer(c) /\ c.known = {} /\ c.last = "none"
      /\ IsServer(n) /\ n.known = {}
      /\ IsServer(k) /\ k.known = {}
  BY NewServerIs
<1>3. IsServer(bc) /\ bc.known = {} /\ bc.last = "none"
  BY <1>2 DEF IsServer
<1>4. IsServer(bn) /\ bn.known = {} /\ Runs(bn, AuthoritativeFor(d, {}))
  BY <1>2, AuthoritativeApplied
<1>5. IsServer(bk) /\ bk.known = {} /\ Runs(bk, DhcpFor(d, {}))
  BY <1>2, DhcpApplied
<1> HIDE DEF bc, bn, bk, b
<1>6. CacheCurrent(bc, d) /\ AuthoritativeCurrent(bn, d) /\ DhcpCurrent(bk, d)
  BY <1>3, <1>4, <1>5 DEF CacheCurrent, AuthoritativeCurrent, DhcpCurrent
<1> QED
  BY <1>1, <1>3, <1>4, <1>5, <1>6 DEF b

LEMMA ServersRestart ==
    ASSUME ServersInv, Restart
    PROVE  ServersInv'
<1>1. PICK clean \in BOOLEAN, a \in Before :
         /\ Become(Started(data, Ended(clean, a.cache), Ended(FALSE, a.nsd),
                           Ended(clean, a.kea), EndedClients(clean, a.clients)))
         /\ queue' \in Dumps
         /\ staged' = data
         /\ UNCHANGED <<data, kernel>>
  BY DEF Restart
<1> DEFINE b == Started(data, Ended(clean, a.cache), Ended(FALSE, a.nsd),
                        Ended(clean, a.kea), EndedClients(clean, a.clients))
<1>2. ServersType
  BY DEF ServersInv
<1>3. data \in Configurations /\ holds \in BOOLEAN /\ links \in SUBSET Links
  BY <1>2 DEF ServersType
<1>4. /\ b.table = TableOf(data)
      /\ IsServer(b.cache) /\ b.cache.known = {} /\ CacheCurrent(b.cache, data)
      /\ IsServer(b.nsd) /\ b.nsd.known = {} /\ AuthoritativeCurrent(b.nsd, data)
      /\ IsServer(b.kea) /\ b.kea.known = {} /\ DhcpCurrent(b.kea, data)
  BY <1>3, StartedGives DEF Ended
<1>5. cache' = b.cache /\ nsd' = b.nsd /\ kea' = b.kea /\ table' = b.table
  BY <1>1 DEF Become
<1> HIDE DEF b
<1>6. UNCHANGED <<holds, links>>
  BY <1>1 DEF kernel
<1>7. queue' \in Seq(Events) /\ \A w : Tells(queue', w, {}, There(holds, links))
  BY <1>1, <1>3, DumpsTell
<1>8. ServersType'
  BY <1>1, <1>3, <1>4, <1>5, <1>6, <1>7 DEF ServersType
<1>9. ServersCurrent'
  BY <1>1, <1>4, <1>5 DEF ServersCurrent
<1>10. ServersTold'
  BY <1>4, <1>5, <1>6, <1>7 DEF ServersTold
<1> QED
  BY <1>8, <1>9, <1>10 DEF ServersInv

LEMMA ServersStep == ServersInv /\ [Next]_vars => ServersInv'
<1> SUFFICES ASSUME ServersInv, [Next]_vars PROVE ServersInv'
  OBVIOUS
<1>1. data \in Configurations /\ staged \in Configurations
  BY DEF ServersInv, ServersType
<1>2. CASE EditStaged
  BY <1>2, StagedEdited, ServersUntouched, <1>1 DEF EditStaged
<1>3. CASE DropStaged
  BY <1>1, <1>3, ServersUntouched DEF DropStaged
<1>4. CASE Commit
  BY <1>4, ServersCommit
<1>5. CASE AddressChanges
  BY <1>5, ServersAddress
<1>6. CASE LinkChanges
  BY <1>6, ServersLink
<1>7. CASE HandleEvent
  BY <1>7, ServersHandle
<1>8. CASE TimerFires
  BY <1>8, ServersTimer
<1>9. CASE DhclientReports
  BY <1>1, <1>9, ServersUntouched DEF DhclientReports
<1>10. CASE HandleReport
  BY <1>1, <1>10, ServersUntouched DEF HandleReport, agent
<1>11. CASE RestartClient
  BY <1>1, <1>11, ServersUntouched DEF RestartClient
<1>12. CASE Restart
  BY <1>12, ServersRestart
<1>13. CASE UNCHANGED vars
  BY <1>1, <1>13, ServersUntouched DEF vars, agent
<1> QED
  BY <1>2, <1>3, <1>4, <1>5, <1>6, <1>7, <1>8, <1>9, <1>10, <1>11, <1>12, <1>13
     DEF Next, Step

LEMMA ConfigurationsStart ==
    ASSUME NEW d, d \in {Default, [s \in DOMAIN Default |->
                              IF s \in scope THEN AllAtWork[s] ELSE Default[s]]}
    PROVE  d \in Configurations
<1>1. CASE d = Default
  BY <1>1, ConfigurationsAssumption
<1>2. CASE d = [s \in DOMAIN Default |-> IF s \in scope THEN AllAtWork[s] ELSE Default[s]]
  BY <1>2, ConfigurationsAssumption DEF Configurations
<1> QED
  BY <1>1, <1>2

LEMMA ServersInit == Init => ServersInv
<1> SUFFICES ASSUME Init PROVE ServersInv
  OBVIOUS
<1> DEFINE new == NewServer(NotThere, NotThere, Stopped)
           b == Started(data, new, new, new, [l \in Links |-> NoClient])
<1>1. data \in Configurations /\ staged = data
  BY ConfigurationsStart DEF Init
<1>2. /\ b.table = TableOf(data)
      /\ IsServer(b.cache) /\ b.cache.known = {} /\ CacheCurrent(b.cache, data)
      /\ IsServer(b.nsd) /\ b.nsd.known = {} /\ AuthoritativeCurrent(b.nsd, data)
      /\ IsServer(b.kea) /\ b.kea.known = {} /\ DhcpCurrent(b.kea, data)
  BY <1>1, StartedGives
<1>3. cache = b.cache /\ nsd = b.nsd /\ kea = b.kea /\ table = b.table
  BY DEF Init
<1> HIDE DEF b
<1>4. holds \in BOOLEAN /\ links \in SUBSET Links /\ queue = Dump(holds, links)
  BY DEF Init
<1>5. queue \in Seq(Events) /\ \A w : Tells(queue, w, {}, There(holds, links))
  BY <1>4, DumpTells
<1>6. ServersType
  BY <1>1, <1>2, <1>3, <1>4, <1>5 DEF ServersType
<1>7. ServersCurrent
  BY <1>2, <1>3 DEF ServersCurrent
<1>8. ServersTold
  BY <1>2, <1>3, <1>5 DEF ServersTold
<1> QED
  BY <1>6, <1>7, <1>8 DEF ServersInv

(* An empty queue: everything there is known. *)
LEMMA ServersServe == ServersInv => ServedIsCurrent
<1> SUFFICES ASSUME ServersInv, queue = <<>>
             PROVE  /\ cache.last = "applied" /\ ~cache.timer => cache.unit = WantedCache
                    /\ nsd.last = "applied" => nsd.unit = WantedAuthoritative
                    /\ kea.last = "applied" => kea.unit = WantedDhcp
  BY DEF ServedIsCurrent
<1> DEFINE T == There(holds, links)
<1>1. ServersType /\ ServersCurrent /\ ServersTold
  BY DEF ServersInv
<1>2. \A w, K : Tells(queue, w, K, T) => (w \in K <=> w \in T)
  BY DEF Tells
<1>3. (Address \in T <=> holds) /\ \A l \in Links : l \in T <=> l \in links
  BY <1>1, AddressAssumption DEF There, ServersType
<1>4. /\ Address \in cache.known <=> holds
      /\ Address \in nsd.known <=> holds
      /\ \A l \in Links : l \in kea.known <=> l \in links
  BY <1>1, <1>2, <1>3 DEF ServersTold
<1>5. cache.known = Held /\ nsd.known = Held /\ kea.known = links
  BY <1>1, <1>4 DEF ServersType, Held
<1>6. cache.last = "applied" /\ ~cache.timer => cache.unit = WantedCache
  BY <1>1, <1>5 DEF ServersCurrent, CacheCurrent, CacheFor, WantedCache
<1>7. nsd.last = "applied" => nsd.unit = WantedAuthoritative
  BY <1>1, <1>5 DEF ServersCurrent, AuthoritativeCurrent, AuthoritativeFor, Runs,
                    WantedAuthoritative
<1>8. kea.last = "applied" => kea.unit = WantedDhcp
  BY <1>1, <1>5 DEF ServersCurrent, DhcpCurrent, DhcpFor, Runs, WantedDhcp
<1> QED
  BY <1>6, <1>7, <1>8

(* With every event handled and no timer running, each server runs with the *)
(* files its section, the hosts and the addresses and interfaces there are  *)
(* make, unless its last apply() raised: what IPAM, events, rollbacks and   *)
(* restarts did before, in whatever order, has left nothing behind.         *)
THEOREM ServedCorrect == Spec => []ServedIsCurrent
  BY ServersInit, ServersStep, ServersServe, PTL DEF Spec

-----------------------------------------------------------------------------
(* The reports of dhclients on their way. *)

Reports == [link: Links, kind: {"acquired", "lost"}]

LastSays(q, l, kind) ==
    \A n \in DOMAIN q :
        q[n].link = l /\ (\A m \in DOMAIN q : m > n => q[m].link # l) => q[n].kind = kind

Silent(q, l) == \A n \in DOMAIN q : q[n].link # l

LEMMA ReportSent ==
    ASSUME NEW q \in Seq(Reports), NEW r \in Reports
    PROVE  /\ LastSays(Append(q, r), r.link, r.kind)
           /\ ~Silent(Append(q, r), r.link)
           /\ \A l, k : l # r.link /\ LastSays(q, l, k) => LastSays(Append(q, r), l, k)
           /\ \A l : Silent(Append(q, r), l) => Silent(q, l)
<1> DEFINE s == Append(q, r)
           n == Len(q) + 1
<1>1. /\ s \in Seq(Reports) /\ n \in DOMAIN s /\ s[n] = r
      /\ DOMAIN q \subseteq DOMAIN s /\ \A k \in DOMAIN q : s[k] = q[k]
      /\ \A k \in DOMAIN s : k = n \/ (k \in DOMAIN q /\ n > k)
  OBVIOUS
<1> HIDE DEF s, n
<1>2. LastSays(s, r.link, r.kind)
  BY <1>1 DEF LastSays
<1>3. ~Silent(s, r.link)
  BY <1>1 DEF Silent
<1>4. ASSUME NEW l, NEW k, l # r.link, LastSays(q, l, k)
      PROVE  LastSays(s, l, k)
  <2> SUFFICES ASSUME NEW i \in DOMAIN s, s[i].link = l,
                      \A m \in DOMAIN s : m > i => s[m].link # l
               PROVE  s[i].kind = k
    BY DEF LastSays
  <2>1. i \in DOMAIN q /\ q[i].link = l /\ \A m \in DOMAIN q : m > i => q[m].link # l
    BY <1>1, <1>4
  <2> QED
    BY <1>1, <1>4, <2>1 DEF LastSays
<1>5. \A l : Silent(s, l) => Silent(q, l)
  BY <1>1 DEF Silent
<1> QED
  BY <1>2, <1>3, <1>4, <1>5 DEF s

LEMMA ReportTaken ==
    ASSUME NEW q \in Seq(Reports), q # <<>>
    PROVE  /\ \A l, k : LastSays(q, l, k) => LastSays(Tail(q), l, k)
           /\ \A l : Silent(Tail(q), l) /\ Head(q).link # l => Silent(q, l)
           /\ \A l, k : Silent(Tail(q), l) /\ Head(q).link = l /\ LastSays(q, l, k)
                            => Head(q).kind = k
<1> DEFINE r == Tail(q)
<1>1. /\ r \in Seq(Reports) /\ Len(r) = Len(q) - 1 /\ Len(q) \in Nat /\ Len(q) >= 1
      /\ \A k \in DOMAIN r : r[k] = q[k + 1]
      /\ Head(q) = q[1]
  OBVIOUS
<1> HIDE DEF r
<1>2. \A k \in DOMAIN r : k + 1 \in DOMAIN q /\ r[k] = q[k + 1]
  BY <1>1
<1>3. \A k \in DOMAIN q : k # 1 => k - 1 \in DOMAIN r /\ r[k - 1] = q[k]
  BY <1>1
<1>4. 1 \in DOMAIN q
  BY <1>1
<1>5. ASSUME NEW l, NEW k, LastSays(q, l, k)
      PROVE  LastSays(r, l, k)
  <2> SUFFICES ASSUME NEW i \in DOMAIN r, r[i].link = l,
                      \A m \in DOMAIN r : m > i => r[m].link # l
               PROVE  r[i].kind = k
    BY DEF LastSays
  <2>1. i + 1 \in DOMAIN q /\ q[i + 1].link = l
    BY <1>2
  <2>2. ASSUME NEW m \in DOMAIN q, m > i + 1
        PROVE  q[m].link # l
    <3>1. i \in Nat /\ m \in Nat /\ i >= 1
      BY <1>1
    <3>2. m # 1 /\ m - 1 > i
      BY <2>2, <3>1
    <3> QED
      BY <1>3, <3>2
  <2>3. q[i + 1].kind = k
    BY <1>5, <2>1, <2>2 DEF LastSays
  <2> QED
    BY <1>2, <2>3
<1>6. ASSUME NEW l, Silent(r, l), q[1].link # l
      PROVE  Silent(q, l)
  BY <1>3, <1>6 DEF Silent
<1>7. ASSUME NEW l, NEW k, Silent(r, l), q[1].link = l, LastSays(q, l, k)
      PROVE  q[1].kind = k
  <2>1. \A m \in DOMAIN q : m > 1 => q[m].link # l
    BY <1>3, <1>7 DEF Silent
  <2> QED
    BY <1>4, <1>7, <2>1 DEF LastSays
<1> QED
  BY <1>1, <1>5, <1>6, <1>7 DEF r

-----------------------------------------------------------------------------
(* A client. *)

Tabs == Tables \cup {NoTable}
Client == [config: Tabs, shared: BOOLEAN, unit: Tabs, sent: {"nothing", "acquired", "lost"}]

(* apply_v4 for one interface. *)
After(c, t, shared) ==
    IF t = NoTable /\ c.config = NoTable THEN c ELSE Process(c, t, shared)

Same(c, b) == c.config = b.config /\ c.unit = b.unit /\ c.sent = b.sent
Fresh(c, t) == c.config = t /\ c.unit = t /\ c.sent = "nothing"

LEMMA ConfigureGives ==
    ASSUME NEW c \in Client, NEW t \in Tabs, NEW shared \in BOOLEAN
    PROVE  LET b == Configure(c, t, shared) IN
           /\ b \in Client /\ b.config = t /\ b.unit = c.unit /\ b.sent = c.sent
           /\ b.shared = shared
  BY DEF Client, Configure

LEMMA StartGives ==
    ASSUME NEW c \in Client
    PROVE  /\ StartUnit(c) \in Client /\ Fresh(StartUnit(c), c.config)
           /\ StartUnit(c).shared = c.shared
  BY DEF Client, StartUnit, Fresh

LEMMA NoClientIs ==
    NoClient \in Client /\ Fresh(NoClient, NoTable) /\ ~NoClient.shared
  BY DEF Client, NoClient, Fresh, Tabs

Applied(c, t, shared, b) ==
    /\ b \in Client /\ b.config = t
    /\ c.config = t => Same(b, c)
    /\ c.config # t => Fresh(b, t)
    /\ t # NoTable /\ ~shared => ~b.shared
    /\ t = NoTable /\ c.config = t => b = c
    /\ t = NoTable /\ c.config # t => ~b.shared

LEMMA AfterGives ==
    ASSUME NEW c \in Client, NEW t \in Tabs, NEW shared \in BOOLEAN
    PROVE  Applied(c, t, shared, After(c, t, shared))
<1> DEFINE b == After(c, t, shared)
<1> SUFFICES Applied(c, t, shared, b)
  OBVIOUS
<1>1. CASE t = NoTable /\ c.config = NoTable
  BY <1>1 DEF After, Same, Applied
<1>2. CASE t = NoTable /\ c.config # NoTable
  <2>1. b = NoClient
    BY <1>2 DEF After, Process
  <2> HIDE DEF b
  <2> QED
    BY <1>2, <2>1, NoClientIs DEF Fresh, Applied
<1>3. CASE t # NoTable /\ c.config = t
  <2>1. b = Configure(c, t, shared)
    BY <1>3 DEF After, Process, OnConfigChange
  <2> HIDE DEF b
  <2> QED
    BY <1>3, <2>1, ConfigureGives DEF Same, Applied
<1>4. CASE t # NoTable /\ c.config # t
  <2> DEFINE d == Configure(c, t, shared)
  <2>1. b = StartUnit(d)
    BY <1>4 DEF After, Process, OnConfigChange
  <2>2. d \in Client /\ d.config = t /\ d.shared = shared
    BY ConfigureGives
  <2> HIDE DEF b, d
  <2> QED
    BY <1>4, <2>1, <2>2, StartGives DEF Fresh, Applied
<1> QED
  BY <1>1, <1>2, <1>3, <1>4

LEMMA InterruptedGives ==
    ASSUME NEW c \in Client, NEW t \in Tabs, NEW shared \in BOOLEAN,
           NEW b \in Interrupted(c, t, shared)
    PROVE  /\ b \in Client
           /\ IF t = NoTable THEN b = c ELSE b.config = t /\ b.shared = shared
<1> DEFINE d == Configure(c, t, shared)
<1>1. d \in Client /\ d.config = t /\ d.shared = shared
  BY ConfigureGives
<1> HIDE DEF d
<1>2. CASE t = NoTable
  BY <1>2 DEF Interrupted
<1>3. CASE t # NoTable
  <2>1. b \in {d, [d EXCEPT !.unit = NoTable, !.sent = "nothing"]}
    BY <1>3 DEF Interrupted, d
  <2>2. [d EXCEPT !.unit = NoTable, !.sent = "nothing"] \in Client
    BY <1>1 DEF Client, Tabs
  <2>3. /\ [d EXCEPT !.unit = NoTable, !.sent = "nothing"].config = d.config
        /\ [d EXCEPT !.unit = NoTable, !.sent = "nothing"].shared = d.shared
    BY <1>1 DEF Client
  <2> QED
    BY <1>1, <1>3, <2>1, <2>2, <2>3
<1> QED
  BY <1>2, <1>3

(* What a call of the change handlers makes of the client of an interface:  *)
(* all it should, nothing, or a part when systemd refuses its unit.         *)
LEMMA HandlersOnClients ==
    ASSUME NEW a, NEW d \in Configurations, NEW shared \in BOOLEAN, NEW fault \in Faults,
           a.clients \in [Links -> Client],
           NEW r \in CallHandlers(a, d, shared, fault)
    PROVE  LET cs == r.agent.clients
               full(l) == After(a.clients[l], d.client[l], shared)
           IN
           /\ cs \in [Links -> Client]
           /\ \A l \in Links : \/ cs[l] = full(l) \/ cs[l] = a.clients[l]
                               \/ /\ fault = <<"client", l>>
                                  /\ a.clients[l].config # d.client[l]
                                  /\ cs[l] \in Interrupted(a.clients[l], d.client[l], shared)
           /\ ~r.raised => \A l \in Links : cs[l] = full(l)
<1> DEFINE cs == r.agent.clients
           full(l) == After(a.clients[l], d.client[l], shared)
           whole == ApplyAll(a.clients, d.client, shared)
<1>1. \A l \in Links : a.clients[l] \in Client /\ d.client[l] \in Tabs
  BY DEF Configurations, Tabs
<1>2. whole = [l \in Links |-> full(l)]
  BY DEF ApplyAll, After
<1>3. \A l \in Links : full(l) \in Client
  <2> SUFFICES ASSUME NEW l \in Links
               PROVE  full(l) \in Client
    OBVIOUS
  <2>1. Applied(a.clients[l], d.client[l], shared, full(l))
    BY <1>1, AfterGives
  <2> QED
    BY <2>1 DEF Applied
<1>4. CASE fault[1] # "client"
  <2>1. cs = whole
    BY <1>4 DEF CallHandlers
  <2> HIDE DEF cs, whole, full
  <2>2. cs \in [Links -> Client] /\ \A l \in Links : cs[l] = full(l)
    BY <1>2, <1>3, <2>1
  <2> QED
    BY <2>2 DEF cs, full
<1>5. CASE fault[1] = "client"
  <2>1. PICK f \in Links : fault = <<"client", f>>
    <3> DEFINE Server == {<<"cache", "half">>, <<"cache", "unit">>, <<"nsd", "half">>,
                          <<"nsd", "unit">>, <<"kea", "unit">>, <<"kea", "absent">>}
    <3>0. \/ fault \in {<<"nobody", "">>, <<"another", "">>} \/ fault \in Server
          \/ fault \in {"client"} \X Links
      BY DEF Faults, NoFault
    <3>a. \A x \in Server : x[1] \in {"cache", "nsd", "kea"}
      OBVIOUS
    <3>b. <<"nobody", "">>[1] = "nobody" /\ <<"another", "">>[1] = "another"
      OBVIOUS
    <3> HIDE DEF Server
    <3>1. fault \in {"client"} \X Links
      BY <1>5, <3>0, <3>a, <3>b
    <3>2. fault = <<fault[1], fault[2]>> /\ fault[2] \in Links
      BY <3>1
    <3> QED
      BY <1>5, <3>2
  <2>2. cs \in ApplyUntil(a.clients, d.client, shared, f) /\ r.raised
    BY <2>1 DEF CallHandlers
  <2>3. a.clients[f].config # d.client[f]
    BY <2>2 DEF ApplyUntil, Calls
  <2> DEFINE before == IF d.client[f] = NoTable THEN {}
                       ELSE {l \in Links : d.client[l] = NoTable}
             among == {l \in Links \ {f} : d.client[l] = NoTable <=> d.client[f] = NoTable}
             Mixed(some, c) == [l \in Links |-> CASE l = f -> c
                                                  [] l \in before \cup some -> whole[l]
                                                  [] OTHER -> a.clients[l]]
  <2>4. ApplyUntil(a.clients, d.client, shared, f)
            = {Mixed(some, c) : some \in SUBSET among,
                                c \in Interrupted(a.clients[f], d.client[f], shared)}
    BY <2>3 DEF ApplyUntil, Calls
  <2> HIDE DEF among
  <2>5. PICK some \in SUBSET among, c \in Interrupted(a.clients[f], d.client[f], shared) :
            cs = Mixed(some, c)
    <3> HIDE DEF Mixed, cs
    <3> QED
      BY <2>2, <2>4
  <2>a. f \notin before \cup some
    BY <2>5 DEF among
  <2> HIDE DEF before
  <2> HIDE DEF cs, whole, full
  <2>6. c \in Client
    BY <1>1, InterruptedGives
  <2>7. \A l \in Links : \/ l = f /\ cs[l] = c
                         \/ l # f /\ cs[l] = full(l)
                         \/ l # f /\ cs[l] = a.clients[l]
    <3> SUFFICES ASSUME NEW l \in Links
                 PROVE  \/ l = f /\ cs[l] = c
                        \/ l # f /\ cs[l] = full(l)
                        \/ l # f /\ cs[l] = a.clients[l]
      OBVIOUS
    <3>1. cs[l] = CASE l = f -> c
                    [] l \in before \cup some -> whole[l]
                    [] OTHER -> a.clients[l]
      BY <2>5
    <3>2. whole[l] = full(l)
      BY <1>2
    <3>3. CASE l = f
      BY <2>a, <3>1, <3>3
    <3>4. CASE l # f /\ l \in before \cup some
      BY <3>1, <3>2, <3>4
    <3>5. CASE l # f /\ l \notin before \cup some
      BY <3>1, <3>5
    <3> QED
      BY <3>3, <3>4, <3>5
  <2>8. cs \in [Links -> Client]
    <3>1. cs = [l \in Links |-> cs[l]]
      BY <2>5
    <3>2. \A l \in Links : cs[l] \in Client
      BY <1>1, <1>3, <2>6, <2>7
    <3> QED
      BY <3>1, <3>2
  <2> QED
    BY <2>1, <2>2, <2>3, <2>6, <2>7, <2>8 DEF cs, full
<1> QED
  BY <1>4, <1>5

(* Two calls, the second with the configuration there was before the first: *)
(* where the client has the configuration then and does not share it, it is *)
(* as before, or new.                                                       *)
LEMMA RolledBack ==
    ASSUME NEW c \in Client, ~c.shared, NEW t \in Tabs, NEW shared \in BOOLEAN,
           NEW b \in Client, NEW e \in Client,
           \/ b = After(c, t, shared) \/ b = c
           \/ c.config # t /\ b \in Interrupted(c, t, shared),
           \/ e = After(b, c.config, FALSE) \/ e = b,
           ~e.shared, e.config = c.config
    PROVE  Same(e, c) \/ Fresh(e, c.config)
<1> DEFINE d == c.config
<1>1. d \in Tabs
  BY DEF Client
<1>2. CASE b = c
  <2>1. CASE e = b
    BY <1>2, <2>1 DEF Same
  <2>2. CASE e = After(c, d, FALSE)
    <3> HIDE DEF d
    <3>1. Applied(c, d, FALSE, e)
      BY <1>1, <2>2, AfterGives
    <3> QED
      BY <3>1 DEF Applied, d
  <2> QED
    BY <1>2, <2>1, <2>2
<1>3. CASE b.config # d
  <2>1. e = After(b, d, FALSE)
    BY <1>3
  <2> HIDE DEF d
  <2>2. b.config # d => Fresh(e, d)
    <3>1. Applied(b, d, FALSE, e)
      BY <1>1, <2>1, AfterGives
    <3> QED
      BY <3>1 DEF Applied
  <2> QED
    BY <1>3, <2>2 DEF d
<1>4. CASE b # c /\ b.config = d
  <2>1. b = After(c, t, shared)
    <3> SUFFICES ASSUME c.config # t, b \in Interrupted(c, t, shared)
                 PROVE  FALSE
      BY <1>4
    <3>1. IF t = NoTable THEN b = c ELSE b.config = t
      BY InterruptedGives
    <3> QED
      BY <1>4, <3>1
  <2> HIDE DEF d
  <2>2. b.config = t /\ (c.config = t => Same(b, c))
    <3>1. Applied(c, t, shared, b)
      BY <2>1, AfterGives
    <3> QED
      BY <3>1 DEF Applied
  <2>3. t = d /\ Same(b, c)
    BY <1>4, <2>2 DEF d
  <2>4. CASE e = b
    BY <2>3, <2>4
  <2>5. CASE e = After(b, d, FALSE)
    <3>1. b.config = d => Same(e, b)
      <4>1. Applied(b, d, FALSE, e)
        BY <1>1, <2>5, AfterGives
      <4> QED
        BY <4>1 DEF Applied
    <3> QED
      BY <1>4, <2>3, <3>1 DEF Same
  <2> QED
    BY <2>4, <2>5 DEF d
<1> QED
  BY <1>2, <1>3, <1>4

-----------------------------------------------------------------------------
(* Every client is as the running configuration says, but the ones a        *)
(* rollback did not get right.                                              *)

(* What the client c of interface l reported last is what was published     *)
(* last, or is said by the last report on its way.                          *)
Reported(c, l, q, last) ==
    c.sent # "nothing" /\ c.config # NoTable =>
        /\ LastSays(q, l, c.sent)
        /\ Silent(q, l) => last = [kind |-> c.sent, table |-> c.config]

(* The client c of interface l, configured for t. *)
Right(c, t, l, restarts, q, last) ==
    /\ ~c.shared /\ c.config = t
    /\ c.unit = t \/ (t = NoTable /\ restarts > 0)
    /\ Reported(c, l, q, last)

ClientsType ==
    /\ clients \in [Links -> Client]
    /\ inbox \in Seq(Reports)
    /\ published = [l \in Links |-> published[l]]
    /\ "restarts" \in DOMAIN used /\ used["restarts"] \in Nat

ClientsRight ==
    \A l \in Links \ troubled :
        Right(clients[l], data.client[l], l, used["restarts"], inbox, published[l])

ClientsInv == ClientsType /\ ClientsRight

LEMMA RightStays ==
    ASSUME NEW c, NEW b, NEW t, NEW l, NEW n, NEW q, NEW last,
           Right(c, t, l, n, q, last), Same(b, c), ~b.shared
    PROVE  Right(b, t, l, n, q, last)
  BY DEF Right, Same, Reported

LEMMA RightNew ==
    ASSUME NEW b, NEW t, NEW l, NEW n, NEW q, NEW last, Fresh(b, t), ~b.shared
    PROVE  Right(b, t, l, n, q, last)
  BY DEF Right, Fresh, Reported

LEMMA UseGives ==
    ASSUME NEW costs, Use(costs), "restarts" \in DOMAIN used, used["restarts"] \in Nat
    PROVE  /\ "restarts" \in DOMAIN used'
           /\ "restarts" \notin DOMAIN costs => used'["restarts"] = used["restarts"]
           /\ costs["restarts"] = 1 /\ "restarts" \in DOMAIN costs
                => used'["restarts"] = used["restarts"] + 1
<1> DEFINE now == [k \in DOMAIN used |->
                      used[k] + IF k \in DOMAIN costs THEN costs[k] ELSE 0]
<1>1. used' = now
  BY DEF Use
<1> QED
  BY <1>1

(* The steps that do not change the running configuration, nor what is on   *)
(* its way.                                                                 *)
LEMMA ClientsReplaced ==
    ASSUME ClientsInv, UNCHANGED <<data, inbox, published, troubled>>,
           "restarts" \in DOMAIN used', used'["restarts"] = used["restarts"],
           NEW cs, cs = clients', cs \in [Links -> Client],
           \A l \in Links \ troubled :
               /\ ~cs[l].shared
               /\ Same(cs[l], clients[l]) \/ Fresh(cs[l], clients[l].config)
    PROVE  ClientsInv'
<1>1. ClientsType'
  BY DEF ClientsInv, ClientsType
<1>2. ASSUME NEW l \in Links \ troubled
      PROVE  Right(cs[l], data.client[l], l, used["restarts"], inbox, published[l])
  <2>1. Right(clients[l], data.client[l], l, used["restarts"], inbox, published[l])
    BY DEF ClientsInv, ClientsRight
  <2>2. clients[l].config = data.client[l]
    BY <2>1 DEF Right
  <2> QED
    BY <2>1, <2>2, RightStays, RightNew
<1>3. ClientsRight'
  BY <1>2 DEF ClientsRight
<1> QED
  BY <1>1, <1>3 DEF ClientsInv

(* The clients do not change. *)
LEMMA ClientsUntouched ==
    ASSUME ClientsInv, UNCHANGED <<data, inbox, published, troubled, clients>>,
           "restarts" \in DOMAIN used', used'["restarts"] = used["restarts"]
    PROVE  ClientsInv'
<1>1. clients \in [Links -> Client]
  BY DEF ClientsInv, ClientsType
<1>2. \A l \in Links \ troubled : ~clients[l].shared /\ Same(clients[l], clients[l])
  BY DEF ClientsInv, ClientsRight, Right, Same
<1> QED
  BY <1>1, <1>2, ClientsReplaced

LEMMA ClientsEdited ==
    ASSUME ClientsInv, EditStaged
    PROVE  ClientsInv'
<1>1. UNCHANGED <<data, inbox, published, troubled>>
  BY DEF EditStaged
<1>2. "restarts" \in DOMAIN used' /\ used'["restarts"] = used["restarts"]
  <2>1. Use([edits |-> 1])
    BY DEF EditStaged
  <2>2. "restarts" \notin DOMAIN [edits |-> 1]
    OBVIOUS
  <2> QED
    BY <2>1, <2>2, UseGives DEF ClientsInv, ClientsType
<1>3. CASE EditHosts \/ EditServer
  <2>1. clients' = clients
    BY <1>3 DEF EditHosts, EditServer
  <2> QED
    BY <1>1, <1>2, <2>1, ClientsUntouched
<1>4. CASE EditClient
  <2>1. PICK l \in Links, t \in Tabs :
           clients' = [clients EXCEPT ![l] =
               IF ~@.shared THEN @
               ELSE Configure(@, IF t = NoTable THEN @.config ELSE t, t # NoTable)]
    BY <1>4 DEF EditClient, Tabs
  <2> DEFINE c == clients[l]
             b == IF ~c.shared THEN c
                  ELSE Configure(c, IF t = NoTable THEN c.config ELSE t, t # NoTable)
             cs == [clients EXCEPT ![l] = b]
  <2>2. clients \in [Links -> Client] /\ c \in Client
    BY DEF ClientsInv, ClientsType
  <2>3. clients' = cs
    BY <2>1
  <2>4. b \in Client
    <3>1. (IF t = NoTable THEN c.config ELSE t) \in Tabs /\ (t # NoTable) \in BOOLEAN
      BY <2>2 DEF Client
    <3> QED
      BY <2>2, <3>1, ConfigureGives
  <2>5. ~c.shared => b = c
    OBVIOUS
  <2> HIDE DEF b
  <2>6. cs \in [Links -> Client] /\ \A k \in Links : cs[k] = IF k = l THEN b ELSE clients[k]
    BY <2>2, <2>4
  <2>7. \A k \in Links \ troubled : ~clients[k].shared
    BY DEF ClientsInv, ClientsRight, Right
  <2>8. \A k \in Links \ troubled : cs[k] = clients[k]
    BY <2>5, <2>6, <2>7
  <2>9. \A k \in Links \ troubled : ~cs[k].shared /\ Same(cs[k], clients[k])
    BY <2>7, <2>8 DEF Same
  <2> HIDE DEF cs
  <2> QED
    BY <1>1, <1>2, <2>3, <2>6, <2>9, ClientsReplaced
<1> QED
  BY <1>3, <1>4 DEF EditStaged

LEMMA UnsharedGives ==
    ASSUME NEW c \in Client
    PROVE  LET b == [c EXCEPT !.shared = FALSE] IN b \in Client /\ Same(b, c) /\ ~b.shared
  BY DEF Client, Same

LEMMA ClientsDropped ==
    ASSUME ClientsInv, DropStaged
    PROVE  ClientsInv'
<1> DEFINE cs == [l \in Links |-> [clients[l] EXCEPT !.shared = FALSE]]
<1>1. UNCHANGED <<data, inbox, published, troubled, used>> /\ clients' = cs
  BY DEF DropStaged
<1>2. \A l \in Links : clients[l] \in Client
  BY DEF ClientsInv, ClientsType
<1>3. \A l \in Links : cs[l] \in Client /\ Same(cs[l], clients[l]) /\ ~cs[l].shared
  BY <1>2, UnsharedGives
<1>4. cs \in [Links -> Client]
  BY <1>3
<1> HIDE DEF cs
<1> QED
  BY <1>1, <1>3, <1>4, ClientsReplaced DEF ClientsInv, ClientsType

LEMMA ClientsReport ==
    ASSUME ClientsInv, DhclientReports
    PROVE  ClientsInv'
<1>1. PICK l \in Links, kind \in {"acquired", "lost"} :
          /\ clients' = [clients EXCEPT ![l].sent = kind]
          /\ inbox' = Append(inbox, [link |-> l, kind |-> kind])
          /\ Use([reports |-> 1])
          /\ UNCHANGED <<data, troubled, published>>
  BY DEF DhclientReports
<1> DEFINE c == clients[l]
           b == [c EXCEPT !.sent = kind]
           cs == [clients EXCEPT ![l] = b]
           r == [link |-> l, kind |-> kind]
<1>2. "restarts" \in DOMAIN used' /\ used'["restarts"] = used["restarts"]
  <2>1. "restarts" \notin DOMAIN [reports |-> 1]
    OBVIOUS
  <2> QED
    BY <1>1, <2>1, UseGives DEF ClientsInv, ClientsType
<1>3. clients \in [Links -> Client] /\ c \in Client /\ inbox \in Seq(Reports)
  BY DEF ClientsInv, ClientsType
<1>4. /\ b \in Client /\ b.sent = kind
      /\ b.config = c.config /\ b.unit = c.unit /\ b.shared = c.shared
  BY <1>3 DEF Client
<1>5. clients' = cs
  BY <1>1
<1> HIDE DEF b
<1>6. cs \in [Links -> Client] /\ \A k \in Links : cs[k] = IF k = l THEN b ELSE clients[k]
  BY <1>3, <1>4
<1>7. r \in Reports /\ r.link = l /\ r.kind = kind
  BY DEF Reports
<1> HIDE DEF cs, r
<1>8. /\ LastSays(inbox', l, kind) /\ ~Silent(inbox', l)
      /\ \A k \in Links : \A s : k # l /\ LastSays(inbox, k, s) => LastSays(inbox', k, s)
      /\ \A k \in Links : Silent(inbox', k) => Silent(inbox, k)
  <2>1. inbox' = Append(inbox, r)
    BY <1>1 DEF r
  <2> QED
    BY <1>3, <1>7, <2>1, ReportSent
<1>9. inbox' \in Seq(Reports)
  BY <1>1, <1>3, <1>7 DEF r
<1>10. ClientsType'
  BY <1>1, <1>2, <1>5, <1>6, <1>9 DEF ClientsInv, ClientsType
<1>11. ASSUME NEW k \in Links \ troubled
       PROVE  Right(cs[k], data.client[k], k, used["restarts"], inbox', published[k])
  <2>1. Right(clients[k], data.client[k], k, used["restarts"], inbox, published[k])
    BY DEF ClientsInv, ClientsRight
  <2>2. CASE k = l
    BY <1>4, <1>6, <1>8, <2>1, <2>2 DEF Right, Reported
  <2>3. CASE k # l
    BY <1>6, <1>8, <2>1, <2>3 DEF Right, Reported
  <2> QED
    BY <2>2, <2>3
<1>12. ClientsRight'
  BY <1>1, <1>2, <1>5, <1>11 DEF ClientsRight
<1> QED
  BY <1>10, <1>12 DEF ClientsInv

LEMMA ClientsReportHandled ==
    ASSUME ClientsInv, HandleReport
    PROVE  ClientsInv'
<1> DEFINE r == Head(inbox)
           c == clients[r.link]
           v == [kind |-> r.kind, table |-> c.config]
<1>1. /\ inbox # <<>> /\ inbox' = Tail(inbox)
      /\ published' = IF c.config = NoTable THEN published
                      ELSE [published EXCEPT ![r.link] = v]
      /\ UNCHANGED <<data, clients, troubled, used>>
  BY DEF HandleReport, NextReport, agent
<1>2. clients \in [Links -> Client] /\ inbox \in Seq(Reports)
  BY DEF ClientsInv, ClientsType
<1>3. r \in Reports /\ inbox' \in Seq(Reports)
  BY <1>1, <1>2
<1>4. r.link \in Links
  BY <1>3 DEF Reports
<1>5. /\ \A l, k : LastSays(inbox, l, k) => LastSays(inbox', l, k)
      /\ \A l : Silent(inbox', l) /\ r.link # l => Silent(inbox, l)
      /\ \A l, k : Silent(inbox', l) /\ r.link = l /\ LastSays(inbox, l, k) => r.kind = k
  BY <1>1, <1>2, ReportTaken
<1> HIDE DEF r
<1>6. published = [l \in Links |-> published[l]]
  BY DEF ClientsInv, ClientsType
<1>7. /\ published' = [l \in Links |-> published'[l]]
      /\ \A l \in Links : published'[l] = IF l = r.link /\ c.config # NoTable THEN v
                                          ELSE published[l]
  <2>1. CASE c.config = NoTable
    BY <1>1, <1>6, <2>1
  <2>2. CASE c.config # NoTable
    <3>1. published' = [published EXCEPT ![r.link] = v]
      BY <1>1, <2>2
    <3> HIDE DEF v, c
    <3> QED
      BY <1>4, <1>6, <2>2, <3>1
  <2> QED
    BY <2>1, <2>2
<1>8. ClientsType'
  BY <1>1, <1>3, <1>7 DEF ClientsInv, ClientsType
<1>9. ASSUME NEW l \in Links \ troubled
      PROVE  Right(clients[l], data.client[l], l, used["restarts"], inbox', published'[l])
  <2>1. Right(clients[l], data.client[l], l, used["restarts"], inbox, published[l])
    BY DEF ClientsInv, ClientsRight
  <2>2. CASE l = r.link
    BY <1>5, <1>7, <2>1, <2>2 DEF Right, Reported
  <2>3. CASE l # r.link
    BY <1>5, <1>7, <2>1, <2>3 DEF Right, Reported
  <2> QED
    BY <2>2, <2>3
<1>10. ClientsRight'
  BY <1>1, <1>9 DEF ClientsRight
<1> QED
  BY <1>8, <1>10 DEF ClientsInv

LEMMA ClientsRestarted ==
    ASSUME ClientsInv, RestartClient
    PROVE  ClientsInv'
<1>1. PICK l \in Links : clients' = [clients EXCEPT ![l] = StartUnit(@)]
  BY DEF RestartClient
<1>2. UNCHANGED <<data, inbox, published, troubled, used>>
  BY DEF RestartClient
<1> DEFINE b == StartUnit(clients[l])
           cs == [clients EXCEPT ![l] = b]
<1>3. clients \in [Links -> Client] /\ clients[l] \in Client /\ clients' = cs
  BY <1>1 DEF ClientsInv, ClientsType
<1>4. b \in Client /\ Fresh(b, clients[l].config) /\ b.shared = clients[l].shared
  BY <1>3, StartGives
<1> HIDE DEF b
<1>5. cs \in [Links -> Client] /\ \A k \in Links : cs[k] = IF k = l THEN b ELSE clients[k]
  BY <1>3, <1>4
<1> HIDE DEF cs
<1>6. \A k \in Links \ troubled : ~clients[k].shared
  BY DEF ClientsInv, ClientsRight, Right
<1>7. ASSUME NEW k \in Links \ troubled
      PROVE  ~cs[k].shared /\ (Same(cs[k], clients[k]) \/ Fresh(cs[k], clients[k].config))
  BY <1>4, <1>5, <1>6 DEF Same
<1> QED
  BY <1>2, <1>3, <1>5, <1>7, ClientsReplaced DEF ClientsInv, ClientsType

-----------------------------------------------------------------------------
(* The commit, and the restart. *)

LEMMA UnsharedClients ==
    ASSUME NEW cs \in [Links -> Client]
    PROVE  /\ Unshared(cs) \in [Links -> Client]
           /\ \A l \in Links : Same(Unshared(cs)[l], cs[l]) /\ ~Unshared(cs)[l].shared
<1>1. \A l \in Links : /\ Unshared(cs)[l] = [cs[l] EXCEPT !.shared = FALSE]
                       /\ cs[l] \in Client
  BY DEF Unshared
<1>2. \A l \in Links : /\ Unshared(cs)[l] \in Client
                       /\ Same(Unshared(cs)[l], cs[l]) /\ ~Unshared(cs)[l].shared
  BY <1>1, UnsharedGives
<1> QED
  BY <1>2 DEF Unshared

LEMMA ClientsCommitted ==
    ASSUME ClientsInv, staged \in Configurations, CommitSucceeds,
           UNCHANGED <<inbox, published>>
    PROVE  ClientsInv'
<1>1. PICK fault \in Faults :
          \E r \in CallHandlers(Agent, staged, TRUE, fault) :
              /\ ~r.raised
              /\ Use([commits |-> 1, faults |-> Hit(fault)])
              /\ data' = [staged EXCEPT !.ahead = FALSE]
              /\ Become([r.agent EXCEPT !.clients = Unshared(@)])
              /\ troubled' = {l \in troubled : ~Calls(clients[l], staged.client[l])}
  BY DEF CommitSucceeds
<1>2. PICK r \in CallHandlers(Agent, staged, TRUE, fault) :
          /\ ~r.raised
          /\ Use([commits |-> 1, faults |-> Hit(fault)])
          /\ data' = [staged EXCEPT !.ahead = FALSE]
          /\ Become([r.agent EXCEPT !.clients = Unshared(@)])
          /\ troubled' = {l \in troubled : ~Calls(clients[l], staged.client[l])}
  BY <1>1
<1> DEFINE cs == r.agent.clients
           us == Unshared(cs)
<1>3. /\ Agent.clients = clients /\ clients \in [Links -> Client]
      /\ \A l \in Links : clients[l] \in Client /\ staged.client[l] \in Tabs
  BY DEF Agent, ClientsInv, ClientsType, Configurations, Tabs
<1>4. /\ cs \in [Links -> Client]
      /\ \A l \in Links : cs[l] = After(clients[l], staged.client[l], TRUE)
  <2>1. /\ cs \in [Links -> Client]
        /\ \A l \in Links : cs[l] = After(Agent.clients[l], staged.client[l], TRUE)
    BY <1>2, <1>3, HandlersOnClients
  <2> QED
    BY <1>3, <2>1
<1>5. clients' = us
  <2>1. [r.agent EXCEPT !.clients = Unshared(@)].clients = Unshared(cs)
    BY DEF CallHandlers
  <2> QED
    BY <1>2, <2>1 DEF Become
<1>6. "restarts" \in DOMAIN used' /\ used'["restarts"] = used["restarts"]
  <2>1. "restarts" \notin DOMAIN [commits |-> 1, faults |-> Hit(fault)]
    OBVIOUS
  <2> QED
    BY <1>2, <2>1, UseGives DEF ClientsInv, ClientsType
<1> HIDE DEF cs
<1>7. us \in [Links -> Client] /\ \A l \in Links : Same(us[l], cs[l]) /\ ~us[l].shared
  BY <1>4, UnsharedClients
<1> HIDE DEF us
<1>8. ClientsType'
  BY <1>5, <1>6, <1>7 DEF ClientsInv, ClientsType
<1>9. data'.client = staged.client
  BY <1>2, SameSections
<1>10. ASSUME NEW l \in Links, l \notin troubled'
       PROVE  Right(us[l], staged.client[l], l, used["restarts"], inbox, published[l])
  <2> DEFINE c == clients[l]
             t == staged.client[l]
  <2>1. /\ cs[l].config = t
        /\ c.config = t => Same(cs[l], c)
        /\ c.config # t => Fresh(cs[l], t)
    <3>1. Applied(c, t, TRUE, cs[l])
      BY <1>3, <1>4, AfterGives
    <3> QED
      BY <3>1 DEF Applied
  <2>2. CASE c.config # t
    <3>1. Fresh(us[l], t)
      BY <1>7, <2>1, <2>2 DEF Same, Fresh
    <3> QED
      BY <1>7, <3>1, RightNew
  <2>3. CASE c.config = t
    <3>1. l \notin troubled
      BY <1>2, <1>10, <2>3 DEF Calls
    <3>2. Right(c, data.client[l], l, used["restarts"], inbox, published[l])
      BY <3>1 DEF ClientsInv, ClientsRight
    <3>3. data.client[l] = t
      BY <2>3, <3>2 DEF Right
    <3>4. Same(us[l], c) /\ ~us[l].shared
      BY <1>7, <2>1, <2>3 DEF Same
    <3> QED
      BY <3>2, <3>3, <3>4, RightStays
  <2> QED
    BY <2>2, <2>3
<1>11. ClientsRight'
  BY <1>5, <1>6, <1>9, <1>10 DEF ClientsRight
<1> QED
  BY <1>8, <1>11 DEF ClientsInv

LEMMA ClientsRolledBack ==
    ASSUME ClientsInv, data \in Configurations, staged \in Configurations, CommitFails,
           UNCHANGED <<inbox, published>>
    PROVE  ClientsInv'
<1>1. PICK first \in Faults, second \in Faults :
          /\ Use([commits |-> 1, faults |-> Hit(first) + Hit(second)])
          /\ \E r \in CallHandlers(Agent, staged, TRUE, first) :
              \E q \in CallHandlers(r.agent, data, FALSE, second) :
                /\ Become(q.agent)
                /\ troubled' = troubled \cup {l \in Links :
                       \/ q.agent.clients[l].shared
                       \/ q.agent.clients[l].config # data.client[l]
                       \/ second = <<"client", l>>}
  BY DEF CommitFails
<1>2. PICK r \in CallHandlers(Agent, staged, TRUE, first) :
              \E q \in CallHandlers(r.agent, data, FALSE, second) :
                /\ Become(q.agent)
                /\ troubled' = troubled \cup {l \in Links :
                       \/ q.agent.clients[l].shared
                       \/ q.agent.clients[l].config # data.client[l]
                       \/ second = <<"client", l>>}
  BY <1>1
<1>3. PICK q \in CallHandlers(r.agent, data, FALSE, second) :
                /\ Become(q.agent)
                /\ troubled' = troubled \cup {l \in Links :
                       \/ q.agent.clients[l].shared
                       \/ q.agent.clients[l].config # data.client[l]
                       \/ second = <<"client", l>>}
  BY <1>2
<1> DEFINE bs == r.agent.clients
           cs == q.agent.clients
<1>4. /\ Agent.clients = clients /\ clients \in [Links -> Client]
      /\ \A l \in Links : /\ clients[l] \in Client
                          /\ staged.client[l] \in Tabs /\ data.client[l] \in Tabs
  BY DEF Agent, ClientsInv, ClientsType, Configurations, Tabs
<1>5. /\ bs \in [Links -> Client]
      /\ \A l \in Links :
            \/ bs[l] = After(clients[l], staged.client[l], TRUE) \/ bs[l] = clients[l]
            \/ /\ clients[l].config # staged.client[l]
               /\ bs[l] \in Interrupted(clients[l], staged.client[l], TRUE)
  <2>1. /\ bs \in [Links -> Client]
        /\ \A l \in Links :
              \/ bs[l] = After(Agent.clients[l], staged.client[l], TRUE)
              \/ bs[l] = Agent.clients[l]
              \/ /\ first = <<"client", l>>
                 /\ Agent.clients[l].config # staged.client[l]
                 /\ bs[l] \in Interrupted(Agent.clients[l], staged.client[l], TRUE)
    BY <1>4, HandlersOnClients
  <2> QED
    BY <1>4, <2>1
<1>6. /\ cs \in [Links -> Client]
      /\ \A l \in Links :
            \/ cs[l] = After(bs[l], data.client[l], FALSE) \/ cs[l] = bs[l]
            \/ second = <<"client", l>>
  <2>1. r.agent.clients \in [Links -> Client] /\ FALSE \in BOOLEAN
    BY <1>5
  <2>2. /\ cs \in [Links -> Client]
        /\ \A l \in Links :
              \/ cs[l] = After(r.agent.clients[l], data.client[l], FALSE)
              \/ cs[l] = r.agent.clients[l]
              \/ /\ second = <<"client", l>>
                 /\ r.agent.clients[l].config # data.client[l]
                 /\ cs[l] \in Interrupted(r.agent.clients[l], data.client[l], FALSE)
    BY <2>1, HandlersOnClients
  <2> QED
    BY <2>2
<1>7. clients' = cs
  BY <1>3 DEF Become
<1>8. "restarts" \in DOMAIN used' /\ used'["restarts"] = used["restarts"]
  <2>1. "restarts" \notin DOMAIN [commits |-> 1, faults |-> Hit(first) + Hit(second)]
    OBVIOUS
  <2> QED
    BY <1>1, <2>1, UseGives DEF ClientsInv, ClientsType
<1>9. \A l \in Links : l \notin troubled' =>
          l \notin troubled /\ ~cs[l].shared /\ cs[l].config = data.client[l]
          /\ second # <<"client", l>>
  BY <1>3
<1> HIDE DEF bs, cs
<1>10. ClientsType'
  BY <1>6, <1>7, <1>8 DEF ClientsInv, ClientsType
<1>11. ASSUME NEW l \in Links, l \notin troubled'
       PROVE  Right(cs[l], data.client[l], l, used["restarts"], inbox, published[l])
  <2> DEFINE c == clients[l]
             b == bs[l]
             e == cs[l]
  <2>1. Right(c, data.client[l], l, used["restarts"], inbox, published[l])
    BY <1>9, <1>11 DEF ClientsInv, ClientsRight
  <2>2. ~c.shared /\ c.config = data.client[l]
    BY <2>1 DEF Right
  <2>3. ~e.shared /\ e.config = c.config
    BY <1>9, <1>11, <2>2
  <2>4. c \in Client /\ b \in Client /\ e \in Client
    BY <1>4, <1>5, <1>6
  <2>5. e = After(b, c.config, FALSE) \/ e = b
    BY <1>6, <1>9, <1>11, <2>2
  <2>6. \/ b = After(c, staged.client[l], TRUE) \/ b = c
        \/ c.config # staged.client[l] /\ b \in Interrupted(c, staged.client[l], TRUE)
    BY <1>5
  <2>7. staged.client[l] \in Tabs /\ TRUE \in BOOLEAN
    BY <1>4
  <2> HIDE DEF b, c, e
  <2>8. Same(e, c) \/ Fresh(e, c.config)
    BY <2>2, <2>3, <2>4, <2>5, <2>6, <2>7, RolledBack
  <2>9. Right(e, data.client[l], l, used["restarts"], inbox, published[l])
    BY <2>1, <2>2, <2>3, <2>8, RightStays, RightNew
  <2> QED
    BY <2>9 DEF e
<1>12. ClientsRight'
  <2>1. data' = data
    BY DEF CommitFails
  <2> QED
    BY <1>7, <1>8, <1>11, <2>1 DEF ClientsRight
<1> QED
  BY <1>10, <1>12 DEF ClientsInv

(* What start() makes of the clients it finds, none of them configured.     *)
LEMMA ClientsStart ==
    ASSUME NEW cs \in [Links -> Client], NEW d \in Configurations,
           \A l \in Links : cs[l].config = NoTable /\ ~cs[l].shared
    PROVE  LET bs == ApplyAll(cs, d.client, FALSE) IN
           /\ bs \in [Links -> Client]
           /\ \A l \in Links : /\ ~bs[l].shared /\ bs[l].config = d.client[l]
                               /\ IF d.client[l] = NoTable THEN bs[l] = cs[l]
                                  ELSE Fresh(bs[l], d.client[l])
<1> DEFINE bs == ApplyAll(cs, d.client, FALSE)
<1>1. \A l \in Links : cs[l] \in Client /\ d.client[l] \in Tabs
  BY DEF Configurations, Tabs
<1>2. bs = [l \in Links |-> After(cs[l], d.client[l], FALSE)]
  BY DEF ApplyAll, After
<1> HIDE DEF bs
<1>3. ASSUME NEW l \in Links
      PROVE  /\ bs[l] \in Client /\ ~bs[l].shared /\ bs[l].config = d.client[l]
             /\ IF d.client[l] = NoTable THEN bs[l] = cs[l] ELSE Fresh(bs[l], d.client[l])
  <2>1. bs[l] = After(cs[l], d.client[l], FALSE)
    BY <1>2
  <2>2. cs[l] \in Client /\ d.client[l] \in Tabs /\ FALSE \in BOOLEAN
    BY <1>1
  <2>3. /\ bs[l] \in Client /\ bs[l].config = d.client[l]
        /\ cs[l].config # d.client[l] => Fresh(bs[l], d.client[l])
        /\ d.client[l] # NoTable => ~bs[l].shared
        /\ d.client[l] = NoTable /\ cs[l].config = d.client[l] => bs[l] = cs[l]
    <3>1. Applied(cs[l], d.client[l], FALSE, bs[l])
      BY <2>1, <2>2, AfterGives
    <3> QED
      BY <3>1 DEF Applied
  <2> QED
    BY <2>3
<1>4. bs \in [Links -> Client]
  BY <1>2, <1>3
<1> QED
  BY <1>3, <1>4 DEF bs

LEMMA ClientsAgain ==
    ASSUME ClientsInv, data \in Configurations, staged \in Configurations, Restart
    PROVE  ClientsInv'
<1>1. PICK clean \in BOOLEAN, a \in Before :
         /\ clients' = ApplyAll(EndedClients(clean, a.clients), data.client, FALSE)
         /\ troubled' = {} /\ inbox' = <<>> /\ published' = [l \in Links |-> NoReport]
         /\ Use([restarts |-> 1]) /\ UNCHANGED data
  BY ZenonT(20) DEF Restart, Become, Started
<1> DEFINE cs == a.clients
           es == EndedClients(clean, cs)
           bs == ApplyAll(es, data.client, FALSE)
<1>2. cs \in [Links -> Client]
  <2>1. Agent.clients = clients /\ clients \in [Links -> Client]
    BY DEF Agent, ClientsInv, ClientsType
  <2>2. CASE a = Agent
    BY <2>1, <2>2
  <2>3. CASE a # Agent
    <3>1. PICK r \in CallHandlers(Agent, staged, TRUE, NoFault) : a = r.agent
      BY <1>1, <2>3 DEF Before
    <3>2. NoFault \in Faults /\ TRUE \in BOOLEAN
      BY DEF Faults
    <3>3. r.agent.clients \in [Links -> Client]
      BY <2>1, <3>2, HandlersOnClients
    <3> QED
      BY <3>1, <3>3
  <2> QED
    BY <2>2, <2>3
<1> HIDE DEF cs
<1>3. /\ es \in [Links -> Client]
      /\ \A l \in Links : es[l].config = NoTable /\ ~es[l].shared
  <2>1. ASSUME NEW c \in Client
        PROVE  LET e == [c EXCEPT !.config = NoTable, !.shared = FALSE] IN
               e \in Client /\ e.config = NoTable /\ ~e.shared
    BY DEF Client, Tabs
  <2>2. NoClient \in Client /\ NoClient.config = NoTable /\ ~NoClient.shared
    BY NoClientIs DEF Fresh
  <2>3. es = [l \in Links |-> IF clean /\ cs[l].config # NoTable THEN NoClient
                              ELSE [cs[l] EXCEPT !.config = NoTable, !.shared = FALSE]]
    BY DEF EndedClients
  <2> HIDE DEF es
  <2>4. ASSUME NEW l \in Links
        PROVE  es[l] \in Client /\ es[l].config = NoTable /\ ~es[l].shared
    <3>1. CASE clean /\ cs[l].config # NoTable
      BY <2>2, <2>3, <3>1
    <3>2. CASE ~(clean /\ cs[l].config # NoTable)
      <4>1. es[l] = [cs[l] EXCEPT !.config = NoTable, !.shared = FALSE]
        BY <2>3, <3>2
      <4>2. cs[l] \in Client
        BY <1>2
      <4> QED
        BY <2>1, <4>1, <4>2
    <3> QED
      BY <3>1, <3>2
  <2> QED
    BY <2>3, <2>4
<1> HIDE DEF es
<1>4. /\ bs \in [Links -> Client]
      /\ \A l \in Links : /\ ~bs[l].shared /\ bs[l].config = data.client[l]
                          /\ IF data.client[l] = NoTable THEN bs[l] = es[l]
                             ELSE Fresh(bs[l], data.client[l])
  BY <1>3, ClientsStart
<1>5. clients' = bs
  BY <1>1 DEF es, cs
<1> HIDE DEF bs
<1>6. "restarts" \in DOMAIN used' /\ used'["restarts"] \in Nat /\ used'["restarts"] > 0
  <2>1. [restarts |-> 1]["restarts"] = 1 /\ "restarts" \in DOMAIN [restarts |-> 1]
    OBVIOUS
  <2>2. "restarts" \in DOMAIN used /\ used["restarts"] \in Nat
    BY DEF ClientsInv, ClientsType
  <2>3. "restarts" \in DOMAIN used' /\ used'["restarts"] = used["restarts"] + 1
    BY <1>1, <2>1, <2>2, UseGives
  <2> QED
    BY <2>2, <2>3
<1>7. inbox' \in Seq(Reports) /\ published' = [l \in Links |-> published'[l]]
  BY <1>1
<1>8. ClientsType'
  BY <1>4, <1>5, <1>6, <1>7 DEF ClientsType
<1>9. ASSUME NEW l \in Links, NEW q, NEW last
      PROVE  Right(bs[l], data.client[l], l, used'["restarts"], q, last)
  BY <1>4, <1>6 DEF Right, Reported, Fresh
<1>10. ClientsRight'
  BY <1>1, <1>5, <1>9 DEF ClientsRight
<1> QED
  BY <1>8, <1>10 DEF ClientsInv

-----------------------------------------------------------------------------
LEMMA ClientsStep ==
    ServersInv /\ ClientsInv /\ [Next]_vars => ClientsInv'
<1> SUFFICES ASSUME ServersInv, ClientsInv, [Next]_vars PROVE ClientsInv'
  OBVIOUS
<1>1. data \in Configurations /\ staged \in Configurations
  BY DEF ServersInv, ServersType
<1>2. "restarts" \in DOMAIN used /\ used["restarts"] \in Nat
  BY DEF ClientsInv, ClientsType
<1>3. CASE EditStaged
  BY <1>3, ClientsEdited
<1>4. CASE DropStaged
  BY <1>4, ClientsDropped
<1>5. CASE Commit
  <2>1. UNCHANGED <<inbox, published>>
    BY <1>5 DEF Commit
  <2>2. CASE CommitSucceeds
    BY <1>1, <2>1, <2>2, ClientsCommitted
  <2>3. CASE CommitFails
    BY <1>1, <2>1, <2>3, ClientsRolledBack
  <2> QED
    BY <1>5, <2>2, <2>3 DEF Commit
<1>6. CASE AddressChanges
  <2>1. Use([changes |-> 1]) /\ "restarts" \notin DOMAIN [changes |-> 1]
    BY <1>6 DEF AddressChanges
  <2> QED
    BY <1>2, <1>6, <2>1, UseGives, ClientsUntouched DEF AddressChanges, agent
<1>7. CASE LinkChanges
  <2>1. Use([changes |-> 1]) /\ "restarts" \notin DOMAIN [changes |-> 1]
    BY <1>7 DEF LinkChanges
  <2>2. UNCHANGED <<data, inbox, published, troubled, clients>>
    BY <1>7 DEF LinkChanges, agent
  <2> QED
    BY <1>2, <2>1, <2>2, UseGives, ClientsUntouched
<1>8. CASE HandleEvent
  <2>1. \E n : Use([faults |-> n])
    BY <1>8 DEF HandleEvent
  <2>2. PICK n : Use([faults |-> n])
    BY <2>1
  <2>3. "restarts" \notin DOMAIN [faults |-> n]
    OBVIOUS
  <2>4. UNCHANGED <<data, inbox, published, troubled, clients>>
    BY <1>8 DEF HandleEvent
  <2> QED
    BY <1>2, <2>2, <2>3, <2>4, UseGives, ClientsUntouched
<1>9. CASE TimerFires
  <2>1. \E n : Use([faults |-> n])
    BY <1>9 DEF TimerFires
  <2>2. PICK n : Use([faults |-> n])
    BY <2>1
  <2>3. "restarts" \notin DOMAIN [faults |-> n]
    OBVIOUS
  <2>4. UNCHANGED <<data, inbox, published, troubled, clients>>
    BY <1>9 DEF TimerFires
  <2> QED
    BY <1>2, <2>2, <2>3, <2>4, UseGives, ClientsUntouched
<1>10. CASE DhclientReports
  BY <1>10, ClientsReport
<1>11. CASE HandleReport
  BY <1>11, ClientsReportHandled
<1>12. CASE RestartClient
  BY <1>12, ClientsRestarted
<1>13. CASE Restart
  BY <1>1, <1>13, ClientsAgain
<1>14. CASE UNCHANGED vars
  BY <1>2, <1>14, ClientsUntouched DEF vars, agent
<1> QED
  BY <1>3, <1>4, <1>5, <1>6, <1>7, <1>8, <1>9, <1>10, <1>11, <1>12, <1>13, <1>14
     DEF Next, Step

LEMMA ClientsInit == Init => ClientsInv
<1> SUFFICES ASSUME Init PROVE ClientsInv
  OBVIOUS
<1> DEFINE cs == [l \in Links |-> NoClient]
           bs == ApplyAll(cs, data.client, FALSE)
<1>1. data \in Configurations
  BY ConfigurationsStart DEF Init
<1>2. clients = bs
  BY DEF Init, Started
<1>3. NoClient \in Client /\ NoClient.config = NoTable /\ NoClient.unit = NoTable
      /\ ~NoClient.shared
  BY NoClientIs DEF Fresh
<1>4. cs \in [Links -> Client] /\ \A l \in Links : cs[l] = NoClient
  BY <1>3
<1> HIDE DEF cs
<1>5. /\ bs \in [Links -> Client]
      /\ \A l \in Links : /\ ~bs[l].shared /\ bs[l].config = data.client[l]
                          /\ IF data.client[l] = NoTable THEN bs[l] = cs[l]
                             ELSE Fresh(bs[l], data.client[l])
  BY <1>1, <1>3, <1>4, ClientsStart
<1> HIDE DEF bs
<1>6. ClientsType
  BY <1>2, <1>5 DEF Init, ClientsType, Bound
<1>7. ASSUME NEW l \in Links, NEW n, NEW q, NEW last
      PROVE  Right(bs[l], data.client[l], l, n, q, last)
  BY <1>3, <1>4, <1>5 DEF Right, Reported, Fresh
<1>8. ClientsRight
  BY <1>2, <1>7 DEF ClientsRight
<1> QED
  BY <1>6, <1>8 DEF ClientsInv

LEMMA HostsCorrect == Spec => [](ServersInv /\ ClientsInv)
<1>1. Init => ServersInv /\ ClientsInv
  BY ServersInit, ClientsInit
<1>2. ServersInv /\ ClientsInv /\ [Next]_vars => ServersInv' /\ ClientsInv'
  BY ServersStep, ClientsStep
<1> QED
  BY <1>1, <1>2, PTL DEF Spec

(* A dhclient runs for the interfaces the running configuration says, and   *)
(* has been started since what it says of them changed: apply_v4, called a  *)
(* second time when a commit fails, gets every client right that systemd    *)
(* does not refuse again.                                                   *)
THEOREM ClientsCorrect == Spec => []ClientsRunAsConfigured
<1>1. ServersInv /\ ClientsInv => ClientsRunAsConfigured
  BY DEF ClientsInv, ClientsRight, Right, ClientsRunAsConfigured
<1> QED
  BY <1>1, HostsCorrect, PTL

(* What a running dhclient has reported last is what the address and route  *)
(* providers were told last, and for the table of the running               *)
(* configuration: handlers that start a unit again let no report of the     *)
(* dhclient before come after.                                              *)
THEOREM LeasesCorrect == Spec => []LastLeaseReported
<1>1. ServersInv /\ ClientsInv => LastLeaseReported
  <2> SUFFICES ASSUME ClientsInv, NEW l \in Links \ troubled,
                      clients[l].sent # "nothing", data.client[l] # NoTable,
                      \A i \in DOMAIN inbox : inbox[i].link # l
               PROVE  published[l] = [kind |-> clients[l].sent, table |-> data.client[l]]
    BY DEF LastLeaseReported
  <2> QED
    BY DEF ClientsInv, ClientsRight, Right, Reported, Silent
<1> QED
  BY <1>1, HostsCorrect, PTL
===============================================================================
