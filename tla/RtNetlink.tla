----------------------------- MODULE RtNetlink -----------------------------
(***************************************************************************)
(* routesia/rtnetlink/provider.py: what the subscribers of the netlink     *)
(* events learn about the kernel.  start() starts a thread that publishes  *)
(* every change the kernel reports, and publishes itself, from two dumps,  *)
(* what was there before.  Both publish on one queue, so that a stale part *)
(* of a dump can follow the change that made it stale, and both use the    *)
(* maps between the indexes and the names of the interfaces.               *)
(*                                                                         *)
(* Addresses stand for what belongs to an interface and is dumped after    *)
(* the interfaces.  An interface has one of them or none.  The event bus   *)
(* delivers in the order of publication (EventBus), so that publishing is  *)
(* the change of what the subscribers know.                                *)
(***************************************************************************)
EXTENDS Naturals, Sequences

CONSTANTS Indexes,    \* of interfaces; the kernel does not use one again
          Names,      \* of interfaces
          NoName,     \* no interface, or one that is not in the map
          NoIndex,    \* a name that is not in the map
          MaxChanges  \* bound on the changes the kernel reports

ASSUME NamesAssumption == NoName \notin Names /\ NoIndex \notin Indexes
ASSUME ChangesAssumption == MaxChanges \in Nat

VARIABLES link,      \* the kernel: the name of each interface
          addr,      \* the kernel: the interfaces that have their address
          born,      \* the kernel: the indexes used so far
          socket,    \* messages the thread has not received yet
          tpc,       \* the thread
          tevent,    \* the event it is about to publish
          mpc,       \* start(), in the main thread
          dump,      \* messages of a dump that are not handled yet
          mevent,    \* the event start() is about to publish
          interfaceMap,     \* interface_map
          interfaceNameMap, \* interface_name_map
          viewLink,  \* what the subscribers know: the name of each interface
          viewAddr,  \* and the addresses, as interface and name
          changes,   \* history variables: the number of changes so far,
          raced,     \*   one came while start() was at work,
          missed,    \*   one came after a dump and before the thread listened,
          renamed    \*   the interfaces that changed their name

kernel == <<link, addr, born>>
maps == <<interfaceMap, interfaceNameMap>>
view == <<viewLink, viewAddr>>
history == <<changes, raced, missed, renamed>>
vars == <<kernel, socket, tpc, tevent, mpc, dump, mevent, maps, view, history>>

Messages == [op : {"newlink", "dellink"}, index : Indexes, name : Names]
            \cup [op : {"newaddr", "deladdr"}, index : Indexes]
Events == [op : {"newlink", "dellink", "newaddr", "deladdr"},
           index : Indexes, name : Names]

LinkMessage(op, i, n) == [op |-> op, index |-> i, name |-> n]
AddrMessage(op, i) == [op |-> op, index |-> i]

IsLink(m) == m.op \in {"newlink", "dellink"}

-----------------------------------------------------------------------------
(* The kernel. *)

Listening == tpc \in {"polling", "publishing"}

Change(messages) ==
    /\ mpc # "failed"
    /\ changes < MaxChanges
    /\ changes' = changes + 1
    /\ raced' = (raced \/ mpc \notin {"off", "running"} \/ tpc = "binding")
    /\ missed' = (missed \/ (tpc = "binding" /\ mpc # "begin"))
    /\ socket' = IF Listening THEN socket \o messages ELSE socket
    /\ UNCHANGED <<tpc, tevent, mpc, dump, mevent, maps, view>>

Free(n) == \A i \in Indexes : link[i] # n

NewLink(i, n) ==
    /\ i \notin born /\ Free(n)
    /\ Change(<<LinkMessage("newlink", i, n)>>)
    /\ link' = [link EXCEPT ![i] = n]
    /\ born' = born \cup {i}
    /\ UNCHANGED <<addr, renamed>>

RenameLink(i, n) ==
    /\ link[i] # NoName /\ Free(n)
    /\ Change(<<LinkMessage("newlink", i, n)>>)
    /\ link' = [link EXCEPT ![i] = n]
    /\ renamed' = renamed \cup {i}
    /\ UNCHANGED <<addr, born>>

(* Its address goes with it; which of the two is reported first is left open. *)
DelLink(i) ==
    /\ link[i] # NoName
    /\ LET gone == <<LinkMessage("dellink", i, link[i])>>
           lost == IF i \in addr THEN <<AddrMessage("deladdr", i)>> ELSE <<>>
       IN  Change(gone \o lost) \/ Change(lost \o gone)
    /\ link' = [link EXCEPT ![i] = NoName]
    /\ addr' = addr \ {i}
    /\ UNCHANGED <<born, renamed>>

NewAddr(i) ==
    /\ link[i] # NoName /\ i \notin addr
    /\ Change(<<AddrMessage("newaddr", i)>>)
    /\ addr' = addr \cup {i}
    /\ UNCHANGED <<link, born, renamed>>

DelAddr(i) ==
    /\ i \in addr
    /\ Change(<<AddrMessage("deladdr", i)>>)
    /\ addr' = addr \ {i}
    /\ UNCHANGED <<link, born, renamed>>

-----------------------------------------------------------------------------
(* Both threads of the agent. *)

MapLink(m) ==
    /\ interfaceMap' = [interfaceMap EXCEPT ![m.index] = m.name]
    /\ interfaceNameMap' = [interfaceNameMap EXCEPT ![m.name] = m.index]

Known(m) == interfaceMap[m.index] # NoName

(* The constructors of the events. AddressEvent looks the name up. *)
EventOf(m) ==
    [op |-> m.op, index |-> m.index,
     name |-> IF IsLink(m) THEN m.name ELSE interfaceMap[m.index]]

(* publish_event, up to the subscribers. *)
Learn(event) ==
    LET named == <<event.index, event.name>> IN
    /\ viewLink' = CASE event.op = "newlink" -> [viewLink EXCEPT ![event.index] = event.name]
                     [] event.op = "dellink" -> [viewLink EXCEPT ![event.index] = NoName]
                     [] OTHER -> viewLink
    /\ viewAddr' = CASE event.op = "newaddr" -> viewAddr \cup {named}
                     [] event.op = "deladdr" -> viewAddr \ {named}
                     [] OTHER -> viewAddr

-----------------------------------------------------------------------------
(* event_thread *)

Bind ==
    /\ tpc = "binding" /\ mpc # "failed"
    /\ tpc' = "polling"
    /\ UNCHANGED <<kernel, socket, tevent, mpc, dump, mevent, maps, view, history>>

(* Mutant: an interface that is removed is forgotten at once. *)
ReceiveForgets(m) ==
    /\ tevent' = EventOf(m)
    /\ tpc' = "publishing"
    /\ IF m.op = "newlink" THEN MapLink(m)
       ELSE /\ interfaceMap' = IF m.op = "dellink"
                               THEN [interfaceMap EXCEPT ![m.index] = NoName]
                               ELSE interfaceMap
            /\ UNCHANGED interfaceNameMap

(* Mutant: the removal of an interface is not published. *)
ReceiveSkipsRemoval(m) ==
    IF m.op = "dellink" THEN UNCHANGED <<tevent, tpc, maps>>
    ELSE /\ tevent' = EventOf(m)
         /\ tpc' = "publishing"
         /\ IF m.op = "newlink" THEN MapLink(m) ELSE UNCHANGED maps

(* Mutant: the thread waits for start(), and drops what comes before. *)
ReceiveWhenRunning(m) ==
    IF mpc # "running" THEN UNCHANGED <<tevent, tpc, maps>>
    ELSE /\ tevent' = EventOf(m)
         /\ tpc' = "publishing"
         /\ IF m.op = "newlink" THEN MapLink(m) ELSE UNCHANGED maps

(* A message whose event can be constructed. The entries of an interface that
   was removed stay in the maps. *)
ReceiveMessage(m) ==
    /\ tevent' = EventOf(m)
    /\ tpc' = "publishing"
    /\ IF m.op = "newlink" THEN MapLink(m) ELSE UNCHANGED maps

Receive ==
    /\ tpc = "polling" /\ mpc # "failed"
    /\ socket # <<>>
    /\ IsLink(Head(socket)) \/ Known(Head(socket))
    /\ ReceiveMessage(Head(socket))
    /\ socket' = Tail(socket)
    /\ UNCHANGED <<kernel, mpc, dump, mevent, view, history>>

(* InterfaceDoesNotExist: nothing catches it, and the thread is over. *)
ReceiveUnknown ==
    /\ tpc = "polling" /\ mpc # "failed"
    /\ socket # <<>>
    /\ ~IsLink(Head(socket)) /\ ~Known(Head(socket))
    /\ tpc' = "dead" /\ socket' = <<>>
    /\ UNCHANGED <<kernel, tevent, mpc, dump, mevent, maps, view, history>>

PublishReceived ==
    /\ tpc = "publishing" /\ mpc # "failed"
    /\ Learn(tevent)
    /\ tpc' = "polling"
    /\ UNCHANGED <<kernel, socket, tevent, mpc, dump, mevent, maps, history>>

-----------------------------------------------------------------------------
(* start *)

StartThread ==
    /\ mpc = "off"
    /\ mpc' = "begin" /\ tpc' = "binding"
    /\ UNCHANGED <<kernel, socket, tevent, dump, mevent, maps, view, history>>

(* get_interfaces *)
DumpLinks ==
    /\ mpc = "begin"
    /\ dump' = {LinkMessage("newlink", i, link[i]) :
                    i \in {j \in Indexes : link[j] # NoName}}
    /\ mpc' = "links"
    /\ UNCHANGED <<kernel, socket, tpc, tevent, mevent, maps, view, history>>

MapDumped ==
    /\ mpc = "links"
    /\ \E m \in dump :
          /\ mevent' = EventOf(m)
          /\ MapLink(m)
          /\ dump' = dump \ {m}
    /\ mpc' = "linkevent"
    /\ UNCHANGED <<kernel, socket, tpc, tevent, view, history>>

PublishDumped ==
    /\ \/ mpc = "linkevent" /\ mpc' = "links"
       \/ mpc = "addrevent" /\ mpc' = "addrs"
    /\ Learn(mevent)
    /\ UNCHANGED <<kernel, socket, tpc, tevent, dump, mevent, maps, history>>

(* get_addresses *)
DumpAddrs ==
    /\ mpc = "links" /\ dump = {}
    /\ dump' = {AddrMessage("newaddr", i) : i \in addr}
    /\ mpc' = "addrs"
    /\ UNCHANGED <<kernel, socket, tpc, tevent, mevent, maps, view, history>>

NameDumped ==
    /\ mpc = "addrs"
    /\ \E m \in dump : Known(m) /\ mevent' = EventOf(m) /\ dump' = dump \ {m}
    /\ mpc' = "addrevent"
    /\ UNCHANGED <<kernel, socket, tpc, tevent, maps, view, history>>

(* InterfaceDoesNotExist leaves start(), and the agent exits. *)
StartRaises ==
    /\ mpc = "addrs"
    /\ \E m \in dump : ~Known(m)
    /\ mpc' = "failed"
    /\ UNCHANGED <<kernel, socket, tpc, tevent, dump, mevent, maps, view, history>>

Started ==
    /\ mpc = "addrs" /\ dump = {}
    /\ mpc' = "running"
    /\ UNCHANGED <<kernel, socket, tpc, tevent, dump, mevent, maps, view, history>>

-----------------------------------------------------------------------------
(* The kernel has interfaces with distinct names when the agent starts. *)
Init ==
    /\ link \in {f \in [Indexes -> Names \cup {NoName}] :
                    \A i, j \in Indexes : f[i] = f[j] => i = j \/ f[i] = NoName}
    /\ born = {i \in Indexes : link[i] # NoName}
    /\ addr \in SUBSET born
    /\ socket = <<>>
    /\ tpc = "off" /\ mpc = "off"
    /\ tevent = <<>> /\ mevent = <<>>
    /\ dump = {}
    /\ interfaceMap = [i \in Indexes |-> NoName]
    /\ interfaceNameMap = [n \in Names |-> NoIndex]
    /\ viewLink = [i \in Indexes |-> NoName]
    /\ viewAddr = {}
    /\ changes = 0 /\ raced = FALSE /\ missed = FALSE /\ renamed = {}

KernelStep ==
    \E i \in Indexes : \/ \E n \in Names : NewLink(i, n) \/ RenameLink(i, n)
                       \/ DelLink(i) \/ NewAddr(i) \/ DelAddr(i)

ThreadStep == Bind \/ Receive \/ ReceiveUnknown \/ PublishReceived

MainStep ==
    \/ StartThread \/ DumpLinks \/ MapDumped \/ PublishDumped \/ DumpAddrs
    \/ NameDumped \/ StartRaises \/ Started

Next == KernelStep \/ ThreadStep \/ MainStep

Spec == Init /\ [][Next]_vars

-----------------------------------------------------------------------------
TypeOK ==
    /\ link \in [Indexes -> Names \cup {NoName}]
    /\ addr \subseteq born /\ born \subseteq Indexes
    /\ socket \in Seq(Messages)
    /\ tpc \in {"off", "binding", "polling", "publishing", "dead"}
    /\ tevent \in Events \cup {<<>>}
    /\ mpc \in {"off", "begin", "links", "linkevent", "addrs", "addrevent",
                "running", "failed"}
    /\ dump \subseteq Messages
    /\ mevent \in Events \cup {<<>>}
    /\ interfaceMap \in [Indexes -> Names \cup {NoName}]
    /\ interfaceNameMap \in [Names -> Indexes \cup {NoIndex}]
    /\ viewLink \in [Indexes -> Names \cup {NoName}]
    /\ viewAddr \subseteq Indexes \X Names
    /\ changes \in 0..MaxChanges
    /\ raced \in BOOLEAN /\ missed \in BOOLEAN
    /\ renamed \subseteq Indexes

(* Everything the kernel has reported has reached the subscribers. *)
Settled == mpc = "running" /\ tpc = "polling" /\ socket = <<>>

(* The addresses of interface i that the subscribers know of. *)
Seen(i) == {named \in viewAddr : named[1] = i}

(* When the kernel kept still while start() was at work, the subscribers end up
   with what the kernel has, and the maps are right about it. The addresses of
   a renamed interface stay behind under its old name. *)
SettledView ==
    Settled /\ ~raced =>
        /\ viewLink = link
        /\ \A i \in Indexes :
              /\ link[i] # NoName => /\ interfaceMap[i] = link[i]
                                     /\ interfaceNameMap[link[i]] = i
              /\ i \notin renamed => (Seen(i) # {} <=> i \in addr)

(* Changes during start() leave the subscribers with things that are gone, but
   never without things that are there, unless the thread was not listening. *)
NothingMissed ==
    Settled /\ ~missed =>
        \A i \in Indexes : /\ link[i] # NoName => viewLink[i] # NoName
                           /\ i \in addr => Seen(i) # {}

(* Once started, the thread does not meet an interface it cannot name, also not
   in what the kernel reports about an interface that was removed. *)
NamesAreKnown == ~raced => tpc # "dead" /\ mpc # "failed"
=============================================================================
