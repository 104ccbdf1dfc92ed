----------------------------- MODULE PeerTable -----------------------------
(***************************************************************************)
(* The peers of a node: PeerStore (peer/peer.go), the addresses they are   *)
(* found by (addrToPeer), and the goroutines that change both without a    *)
(* common lock: readers that complete handshakes (node/handshake.go),      *)
(* removals by the heartbeat loop and by failed re-handshakes              *)
(* (node/heartbeat.go), KCP dials (node/kcp_transport.go) and the cleanup. *)
(*                                                                         *)
(* A link is an address a peer talks from, with its transport; a TCP link  *)
(* is one connection.  An object is a *peer.Peer.  When a removal starts   *)
(* is left open: the clock and Rehandshake decide that.                    *)
(***************************************************************************)
EXTENDS Integers, FiniteSets

CONSTANTS
    Ids,       \* peers
    Links,     \* the links they use
    Owner,     \* the peer of a link
    TcpLinks,  \* the links that are TCP connections
    Removals,  \* calls of removePeer, by the heartbeat loop or a re-handshake
    MaxPeers,
    MaxObjects,\* bounds the peer objects created
    None,      \* no object, no peer, no work
    Done       \* a removal that has returned

Udp == "udp"
Readers == {Udp} \cup TcpLinks
Reader(l) == IF l \in TcpLinks THEN l ELSE Udp

Objects == 1..MaxObjects

\* A *peer.Peer, what a reader and what a removal is doing.
PeerObjects == [id : Ids, link : Links, open : BOOLEAN]
Works == [link : Links, pc : {"check", "add", "route", "existing"}, object : Objects \cup {None}]
RemovalStates == [id : Ids, object : Objects, pc : {"close", "routes", "remove"}]

ASSUME PeerTableAssumption ==
    /\ TcpLinks \subseteq Links /\ IsFiniteSet(TcpLinks) /\ IsFiniteSet(Ids)
    /\ Owner \in [Links -> Ids]
    /\ MaxPeers \in Nat \ {0} /\ MaxObjects \in Nat
    /\ None \notin Ids /\ None \notin Objects
    /\ None \notin PeerObjects /\ None \notin Works
    /\ None \notin RemovalStates /\ Done \notin RemovalStates

VARIABLES
    table,      \* PeerStore
    route,      \* addrToPeer
    obj,        \* the objects, in order of creation: id, link, open
    live,       \* TCP connections that are not closed
    work,       \* what a reader is doing about a handshake
    removal,    \* how far a removal is
    overlapped, \* history: peers with two goroutines at work at once
    moved       \* history: peers refreshed from another address

vars == <<table, route, obj, live, work, removal, overlapped, moved>>

Listed == {i \in Ids : table[i] # None}
Count == Cardinality(Listed)

Removing(i) == \E w \in Removals : removal[w] \notin {None, Done} /\ removal[w].id = i

\* Goroutines at work on a peer.
Busy(i) ==
    \/ \E r \in Readers : work[r] # None /\ Owner[work[r].link] = i
    \/ Removing(i)

Init ==
    /\ table = [i \in Ids |-> None]
    /\ route = [l \in Links |-> None]
    /\ obj = [o \in Objects |-> None]
    /\ live = TcpLinks
    /\ work = [r \in Readers |-> None]
    /\ removal = [w \in Removals |-> None]
    /\ overlapped = {} /\ moved = {}

Mark(i) == overlapped' = IF Busy(i) THEN overlapped \cup {i} ELSE overlapped

----------------------------------------------------------------------------
(* processHandshake, once the handshake over link l is complete.           *)

\* Peers.Get decides; what follows acts on the object it returned.
Established(l) ==
    LET r == Reader(l) o == table[Owner[l]]
    IN  /\ work[r] = None
        /\ l \in TcpLinks => l \in live
        /\ work' = [work EXCEPT ![r] =
                      [link |-> l, pc |-> IF o = None THEN "check" ELSE "existing", object |-> o]]
        /\ Mark(Owner[l])
        /\ UNCHANGED <<table, route, obj, live, removal, moved>>

\* Mutant: a full table takes one more.
CheckMaxPeersLate(r) ==
    /\ work[r] # None /\ work[r].pc = "check"
    /\ work' = IF Count > MaxPeers THEN [work EXCEPT ![r] = None]
               ELSE [work EXCEPT ![r].pc = "add"]
    /\ UNCHANGED <<table, route, obj, live, removal, overlapped, moved>>

\* The count is read without a lock; a refused connection stays open.
CheckMaxPeers(r) ==
    /\ work[r] # None /\ work[r].pc = "check"
    /\ work' = IF Count >= MaxPeers THEN [work EXCEPT ![r] = None]
               ELSE [work EXCEPT ![r].pc = "add"]
    /\ UNCHANGED <<table, route, obj, live, removal, overlapped, moved>>

Add(r, o) ==
    LET l == work[r].link
    IN  /\ work[r] # None /\ work[r].pc = "add"
        /\ obj[o] = None /\ \A q \in 1..o - 1 : obj[q] # None
        /\ obj' = [obj EXCEPT ![o] = [id |-> Owner[l], link |-> l, open |-> TRUE]]
        /\ table' = [table EXCEPT ![Owner[l]] = o]
        /\ work' = [work EXCEPT ![r].pc = "route"]
        /\ moved' = moved \ {Owner[l]}
        /\ UNCHANGED <<route, live, removal, overlapped>>

SetRoute(r) ==
    LET l == work[r].link
    IN  /\ work[r] # None /\ work[r].pc = "route"
        /\ route' = [route EXCEPT ![l] = Owner[l]]
        /\ work' = [work EXCEPT ![r] = None]
        /\ UNCHANGED <<table, obj, live, removal, overlapped, moved>>

\* UpgradeTransport: never from TCP to UDP; a TCP connection it replaces is
\* closed.  It does not ask whether the object was closed or removed.
UpgradeTransport(o, l) ==
    LET old == obj[o].link
    IN  IF old \in TcpLinks /\ l \notin TcpLinks
        THEN UNCHANGED <<obj, live>>
        ELSE /\ obj' = [obj EXCEPT ![o].link = l, ![o].open = TRUE]
             /\ live' = live \ ({old} \ {l})

\* Mutant: the upgrade to TCP leaves the address out.
HandleExistingPeerNoRoute(r) ==
    LET l == work[r].link o == work[r].object
    IN  /\ work[r] # None /\ work[r].pc = "existing"
        /\ UpgradeTransport(o, l)
        /\ work' = [work EXCEPT ![r] = None]
        /\ moved' = IF l \notin TcpLinks /\ obj'[o].link # obj[o].link THEN moved \cup {Owner[l]} ELSE moved
        /\ UNCHANGED <<table, route, removal, overlapped>>

\* Only the upgrade to TCP records the address of the link.
handleExistingPeer(r) ==
    LET l == work[r].link o == work[r].object
        ToTCP == l \in TcpLinks /\ obj[o].link \notin TcpLinks
    IN  /\ work[r] # None /\ work[r].pc = "existing"
        /\ UpgradeTransport(o, l)
        /\ work' = IF ToTCP THEN [work EXCEPT ![r].pc = "route"] ELSE [work EXCEPT ![r] = None]
        /\ moved' = IF ~ToTCP /\ obj'[o].link # obj[o].link THEN moved \cup {Owner[l]} ELSE moved
        /\ UNCHANGED <<table, route, removal, overlapped>>

\* handleTCP returns: the connection is closed, the peer stays.
EndTCP(l) ==
    /\ l \in live /\ work[l] = None
    /\ live' = live \ {l}
    /\ UNCHANGED <<table, route, obj, work, removal, overlapped, moved>>

----------------------------------------------------------------------------
(* removePeerWithReconnect.                                                *)

RemoveStart(w, i) ==
    /\ removal[w] = None
    /\ table[i] # None
    /\ removal' = [removal EXCEPT ![w] = [id |-> i, object |-> table[i], pc |-> "close"]]
    /\ Mark(i)
    /\ UNCHANGED <<table, route, obj, live, work, moved>>

\* Mutant: the peer is not closed.
RemoveCloseSkipped(w) ==
    /\ removal[w] \notin {None, Done} /\ removal[w].pc = "close"
    /\ removal' = [removal EXCEPT ![w].pc = "routes"]
    /\ UNCHANGED <<table, route, obj, live, work, overlapped, moved>>

\* Peer.Close; the KCP session goes too (see Mux).
RemoveClose(w) ==
    LET o == removal[w].object
    IN  /\ removal[w] \notin {None, Done} /\ removal[w].pc = "close"
        /\ obj' = [obj EXCEPT ![o].open = FALSE]
        /\ live' = live \ {obj[o].link}
        /\ removal' = [removal EXCEPT ![w].pc = "routes"]
        /\ UNCHANGED <<table, route, work, overlapped, moved>>

RemoveRoutes(w) ==
    /\ removal[w] \notin {None, Done} /\ removal[w].pc = "routes"
    /\ route' = [l \in Links |-> IF route[l] = removal[w].id THEN None ELSE route[l]]
    /\ removal' = [removal EXCEPT ![w].pc = "remove"]
    /\ UNCHANGED <<table, obj, live, work, overlapped, moved>>

\* Mutant: an object other than the closed one stays.
RemoveKeepsNewer(w) ==
    /\ removal[w] \notin {None, Done} /\ removal[w].pc = "remove"
    /\ removal' = [removal EXCEPT ![w] = Done]
    /\ UNCHANGED <<table, route, obj, live, work, overlapped, moved>>

\* By ID, whatever object that is by now.
Remove(w) ==
    /\ removal[w] \notin {None, Done} /\ removal[w].pc = "remove"
    /\ table' = [table EXCEPT ![removal[w].id] = None]
    /\ removal' = [removal EXCEPT ![w] = Done]
    /\ UNCHANGED <<route, obj, live, work, overlapped, moved>>

----------------------------------------------------------------------------
\* UpgradePeer of KCP, by a sender that holds the send lock of the object
\* (Close waits for it): it records the address once more.  Whether there is
\* a session already is left open.
UpgradePeer(o) ==
    /\ obj[o] # None /\ obj[o].open
    /\ obj[o].link \notin TcpLinks
    /\ route[obj[o].link] = None
    /\ route' = [route EXCEPT ![obj[o].link] = obj[o].id]
    /\ UNCHANGED <<table, obj, live, work, removal, overlapped, moved>>

\* The addresses of peers that are gone.
cleanupStaleMappings ==
    /\ \E l \in Links : route[l] # None /\ table[route[l]] = None
    /\ route' = [l \in Links |->
                   IF route[l] # None /\ table[route[l]] = None THEN None ELSE route[l]]
    /\ UNCHANGED <<table, obj, live, work, removal, overlapped, moved>>

Handshake(r) ==
    CheckMaxPeers(r) \/ SetRoute(r) \/ handleExistingPeer(r) \/ \E o \in Objects : Add(r, o)

RemovalStep(w) == RemoveClose(w) \/ RemoveRoutes(w) \/ Remove(w)

Next ==
    \/ \E l \in Links : Established(l)
    \/ \E r \in Readers : Handshake(r)
    \/ \E l \in TcpLinks : EndTCP(l)
    \/ \E w \in Removals : RemovalStep(w) \/ \E i \in Ids : RemoveStart(w, i)
    \/ \E o \in Objects : UpgradePeer(o)
    \/ cleanupStaleMappings

Spec == Init /\ [][Next]_vars
----------------------------------------------------------------------------
TypeOK ==
    /\ table \in [Ids -> Objects \cup {None}]
    /\ route \in [Links -> Ids \cup {None}]
    /\ obj \in [Objects -> PeerObjects \cup {None}]
    /\ live \subseteq TcpLinks
    /\ work \in [Readers -> Works \cup {None}]
    /\ removal \in [Removals -> RemovalStates \cup {None, Done}]
    /\ overlapped \subseteq Ids /\ moved \subseteq Ids

(***************************************************************************)
(* What the README and the configuration promise of MaxPeers: a node never *)
(* has more peers.  processHandshake compares the count and adds the peer  *)
(* afterwards, without a lock, so that two readers pass the same check.    *)
(***************************************************************************)
AtMostMaxPeers == Count <= MaxPeers

(***************************************************************************)
(* The limit on peers, although every reader checks it without a lock:     *)
(* each of the other readers can add one more, and no more than that.      *)
(***************************************************************************)
CountBound == Count <= MaxPeers + Cardinality(Readers) - 1

(***************************************************************************)
(* A listed peer can be used: its object is closed only while a removal of *)
(* the peer is under way, though removals act on an ID and on an object    *)
(* read earlier and handshakes revive objects that were closed.            *)
(***************************************************************************)
ListedIsOpen ==
    \A i \in Listed : obj[table[i]].open \/ Removing(i)

(***************************************************************************)
(* No peer is left behind open but not listed (keys in memory, connection  *)
(* open, never removed again), unless two goroutines worked on this peer   *)
(* at the same time.                                                       *)
(***************************************************************************)
OrphansNeedOverlap ==
    \A o \in Objects : obj[o] # None /\ obj[o].open /\ table[obj[o].id] # o
        => obj[o].id \in overlapped \/ Busy(obj[o].id)

(***************************************************************************)
(* A listed peer is found by the address it talks from (processData and    *)
(* the heartbeats look it up), unless two goroutines worked on it at once  *)
(* or it was refreshed from another address without a change of transport. *)
(***************************************************************************)
ListedIsRouted ==
    \A i \in Listed : route[obj[table[i]].link] = i \/ i \in overlapped \cup moved \/ Busy(i)
=============================================================================
