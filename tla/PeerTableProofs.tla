-------------------------- MODULE PeerTableProofs --------------------------
(***************************************************************************)
(* The peer table for any number of peers, links, readers and removals:    *)
(* types, the objects that are used, the closed objects, the peers that    *)
(* have seen no overlap, and the number of peers.                          *)
(***************************************************************************)
EXTENDS PeerTable, FiniteSetTheorems, TLAPS

\* Reader r works on peer i; removal w is removing it.
Working(r, i) == work[r] # None /\ Owner[work[r].link] = i
Under(w, i) == removal[w] \notin {None, Done} /\ removal[w].id = i

\* Objects belong to the peer they are used for: the listed ones, all that
\* exist, those being removed and those a reader found.
KnownListed ==
    \A i \in Ids : table[i] # None => obj[table[i]] # None /\ obj[table[i]].id = i
KnownObjects ==
    \A o \in Objects : obj[o] # None => Owner[obj[o].link] = obj[o].id
KnownRemoved ==
    \A w \in Removals : removal[w] \notin {None, Done} =>
        obj[removal[w].object] # None /\ obj[removal[w].object].id = removal[w].id
KnownFound ==
    \A r \in Readers : work[r] # None /\ work[r].pc = "existing" =>
        /\ work[r].object # None /\ obj[work[r].object] # None
        /\ obj[work[r].object].id = Owner[work[r].link]

Known == KnownListed /\ KnownObjects /\ KnownRemoved /\ KnownFound

\* At most one goroutine works on a peer that has seen no overlap.
Alone(i) ==
    /\ \A r \in Readers : Working(r, i) =>
          /\ \A q \in Readers : Working(q, i) => q = r
          /\ \A w \in Removals : ~Under(w, i)
    /\ \A w \in Removals : Under(w, i) => \A v \in Removals : Under(v, i) => v = w

\* What that goroutine knows is still true.
Fresh(i) ==
    /\ \A r \in Readers : Working(r, i) =>
          /\ work[r].pc \in {"check", "add"} => table[i] = None
          /\ work[r].pc = "existing" => work[r].object = table[i]
          /\ work[r].pc = "route" => table[i] # None /\ obj[table[i]].link = work[r].link
    /\ \A w \in Removals : Under(w, i) =>
          /\ removal[w].object = table[i]
          /\ removal[w].pc \in {"routes", "remove"} => ~obj[removal[w].object].open

\* The only open object of the peer is the listed one.
NoOrphan(i) ==
    \A o \in Objects : obj[o] # None /\ obj[o].id = i /\ obj[o].open => table[i] = o

\* The route is missing only while someone is about to set or remove it.
Routed(i) ==
    table[i] # None =>
        \/ route[obj[table[i]].link] = i
        \/ i \in moved
        \/ \E r \in Readers : Working(r, i) /\ work[r].pc = "route"
        \/ \E w \in Removals : Under(w, i) /\ removal[w].pc = "remove"

Undisturbed(i) == Alone(i) /\ Fresh(i) /\ NoOrphan(i) /\ Routed(i)

Consistent ==
    /\ TypeOK /\ Known /\ ListedIsOpen
    /\ \A i \in Ids \ overlapped : Undisturbed(i)

Adding == {r \in Readers : work[r] # None /\ work[r].pc = "add"}
RoomLeft == Count + Cardinality(Adding) <= MaxPeers + Cardinality(Readers) - 1

----------------------------------------------------------------------------
(* The steps, one name per action.                                         *)

\* First-order reasoning suffices for most leaves; those that need records or
\* arithmetic cite SMT.
USE Zenon

\* A step of the table is a step of one of its actions.
LEMMA StepCases ==
    ASSUME [Next]_vars
    PROVE  \/ \E l \in Links : Established(l)
           \/ \E r \in Readers : CheckMaxPeers(r) \/ SetRoute(r) \/ handleExistingPeer(r)
           \/ \E r \in Readers, o \in Objects : Add(r, o)
           \/ \E l \in TcpLinks : EndTCP(l)
           \/ \E w \in Removals, i \in Ids : RemoveStart(w, i)
           \/ \E w \in Removals : RemoveClose(w) \/ RemoveRoutes(w) \/ Remove(w)
           \/ \E o \in Objects : UpgradePeer(o)
           \/ cleanupStaleMappings
           \/ UNCHANGED vars
BY DEF Next, Handshake, RemovalStep

\* The reader of a link is a reader.
LEMMA ReaderType == \A l \in Links : Reader(l) \in Readers
BY DEF Reader, Readers

\* Type correctness is kept by every step.
LEMMA TypeStep ==
    ASSUME TypeOK, Known, [Next]_vars
    PROVE  TypeOK'
<1> USE PeerTableAssumption DEF TypeOK
<1>1. ASSUME NEW l \in Links, Established(l) PROVE TypeOK'
  <2>1. work' \in [Readers -> Works \cup {None}]
    BY <1>1, ReaderType, SMT DEF Established, Works
  <2>2. overlapped' \subseteq Ids BY <1>1 DEF Established, Mark
  <2> QED BY <1>1, <2>1, <2>2 DEF Established
<1>2. ASSUME NEW r \in Readers, CheckMaxPeers(r) PROVE TypeOK'
  <2>1. work' \in [Readers -> Works \cup {None}] BY <1>2, SMT DEF CheckMaxPeers, Works
  <2> QED BY <1>2, <2>1 DEF CheckMaxPeers
<1>3. ASSUME NEW r \in Readers, SetRoute(r) PROVE TypeOK'
  <2>1. Owner[work[r].link] \in Ids /\ work[r].link \in Links BY <1>3 DEF SetRoute, Works
  <2> QED BY <1>3, <2>1 DEF SetRoute
<1>4. ASSUME NEW r \in Readers, handleExistingPeer(r) PROVE TypeOK'
  <2>1. work' \in [Readers -> Works \cup {None}] BY <1>4, SMT DEF handleExistingPeer, Works
  <2>2. work[r].link \in Links /\ Owner[work[r].link] \in Ids BY <1>4 DEF handleExistingPeer, Works
  <2>3. work[r].object \in Objects /\ obj[work[r].object] \in PeerObjects
    BY <1>4 DEF handleExistingPeer, Known, KnownFound, Works
  <2>4. obj' \in [Objects -> PeerObjects \cup {None}]
    BY <1>4, <2>2, <2>3, SMT DEF handleExistingPeer, UpgradeTransport, PeerObjects
  <2>5. live' \subseteq TcpLinks BY <1>4 DEF handleExistingPeer, UpgradeTransport
  <2>6. moved' \subseteq Ids BY <1>4, <2>2 DEF handleExistingPeer
  <2> QED BY <1>4, <2>1, <2>4, <2>5, <2>6 DEF handleExistingPeer
<1>5. ASSUME NEW r \in Readers, NEW o \in Objects, Add(r, o) PROVE TypeOK'
  <2>1. work' \in [Readers -> Works \cup {None}] BY <1>5, SMT DEF Add, Works
  <2>2. work[r].link \in Links /\ Owner[work[r].link] \in Ids BY <1>5 DEF Add, Works
  <2>3. obj' \in [Objects -> PeerObjects \cup {None}] BY <1>5, <2>2 DEF Add, PeerObjects
  <2> QED BY <1>5, <2>1, <2>2, <2>3 DEF Add
<1>6. ASSUME NEW l \in TcpLinks, EndTCP(l) PROVE TypeOK'
  BY <1>6 DEF EndTCP
<1>7. ASSUME NEW w \in Removals, NEW i \in Ids, RemoveStart(w, i) PROVE TypeOK'
  <2>1. removal' \in [Removals -> RemovalStates \cup {None, Done}]
    BY <1>7, SMT DEF RemoveStart, RemovalStates
  <2>2. overlapped' \subseteq Ids BY <1>7 DEF RemoveStart, Mark
  <2> QED BY <1>7, <2>1, <2>2 DEF RemoveStart
<1>8. ASSUME NEW w \in Removals, RemoveClose(w) PROVE TypeOK'
  <2>1. removal' \in [Removals -> RemovalStates \cup {None, Done}]
    BY <1>8, SMT DEF RemoveClose, RemovalStates
  <2>2. removal[w].object \in Objects /\ obj[removal[w].object] \in PeerObjects
    BY <1>8 DEF RemoveClose, RemovalStates, Known, KnownRemoved
  <2>3. obj' \in [Objects -> PeerObjects \cup {None}] BY <1>8, <2>2 DEF RemoveClose, PeerObjects
  <2> QED BY <1>8, <2>1, <2>3 DEF RemoveClose
<1>9. ASSUME NEW w \in Removals, RemoveRoutes(w) \/ Remove(w) PROVE TypeOK'
  <2>1. removal' \in [Removals -> RemovalStates \cup {None, Done}]
    BY <1>9, SMT DEF RemoveRoutes, Remove, RemovalStates
  <2>2. table' \in [Ids -> Objects \cup {None}] BY <1>9 DEF RemoveRoutes, Remove
  <2>3. route' \in [Links -> Ids \cup {None}] BY <1>9 DEF RemoveRoutes, Remove
  <2> QED BY <1>9, <2>1, <2>2, <2>3 DEF RemoveRoutes, Remove
<1>10. ASSUME NEW o \in Objects, UpgradePeer(o) PROVE TypeOK'
  <2>1. obj[o].link \in Links /\ obj[o].id \in Ids BY <1>10 DEF UpgradePeer, PeerObjects
  <2> QED BY <1>10, <2>1 DEF UpgradePeer
<1>11. CASE cleanupStaleMappings
  <2>1. route' \in [Links -> Ids \cup {None}] BY <1>11 DEF cleanupStaleMappings
  <2> QED BY <1>11, <2>1 DEF cleanupStaleMappings
<1>12. CASE UNCHANGED vars BY <1>12 DEF vars
<1> QED BY StepCases, <1>1, <1>2, <1>3, <1>4, <1>5, <1>6, <1>7, <1>8, <1>9, <1>10, <1>11, <1>12

----------------------------------------------------------------------------
(* What the steps do to objects.                                           *)

\* UpgradeTransport changes one object: its link, and it is open then; or not
\* at all.  An object keeps its ID.
LEMMA Upgraded ==
    ASSUME TypeOK, Known, NEW r \in Readers, handleExistingPeer(r)
    PROVE  /\ work[r].object \in Objects /\ obj[work[r].object] \in PeerObjects
           /\ work[r].link \in Links
           /\ obj[work[r].object].id = Owner[work[r].link]
           /\ obj' \in [Objects -> PeerObjects \cup {None}]
           /\ \A o \in Objects : o # work[r].object => obj'[o] = obj[o]
           /\ obj'[work[r].object] \in PeerObjects
           /\ obj'[work[r].object].id = obj[work[r].object].id
           /\ \/ obj'[work[r].object] = obj[work[r].object]
              \/ obj'[work[r].object].link = work[r].link /\ obj'[work[r].object].open
<1> USE PeerTableAssumption
<1>1. /\ work[r].object \in Objects /\ obj[work[r].object] \in PeerObjects
      /\ work[r].link \in Links /\ obj[work[r].object].id = Owner[work[r].link]
  BY DEF handleExistingPeer, Known, KnownFound, Works, TypeOK
<1>2. UpgradeTransport(work[r].object, work[r].link) BY DEF handleExistingPeer
<1>3. CASE obj' = obj BY <1>1, <1>3 DEF TypeOK
<1>4. CASE obj' = [obj EXCEPT ![work[r].object].link = work[r].link,
                              ![work[r].object].open = TRUE]
  <2>1. obj \in [Objects -> PeerObjects \cup {None}] BY DEF TypeOK
  <2> QED BY <1>1, <1>4, <2>1 DEF PeerObjects
<1> QED BY <1>2, <1>3, <1>4 DEF UpgradeTransport

\* Peer.Close marks one object.
LEMMA Closed ==
    ASSUME TypeOK, Known, NEW w \in Removals, RemoveClose(w)
    PROVE  /\ removal[w] \in RemovalStates
           /\ removal[w].object \in Objects /\ removal[w].id \in Ids
           /\ obj[removal[w].object] \in PeerObjects
           /\ obj[removal[w].object].id = removal[w].id
           /\ obj' \in [Objects -> PeerObjects \cup {None}]
           /\ \A o \in Objects : o # removal[w].object => obj'[o] = obj[o]
           /\ obj'[removal[w].object] \in PeerObjects
           /\ obj'[removal[w].object].id = obj[removal[w].object].id
           /\ obj'[removal[w].object].link = obj[removal[w].object].link
           /\ ~obj'[removal[w].object].open
<1> USE PeerTableAssumption
<1>1. /\ removal[w] \in RemovalStates /\ removal[w].object \in Objects /\ removal[w].id \in Ids
      /\ obj[removal[w].object] \in PeerObjects
      /\ obj[removal[w].object].id = removal[w].id
  BY DEF RemoveClose, Known, KnownRemoved, RemovalStates, TypeOK
<1>2. obj' = [obj EXCEPT ![removal[w].object].open = FALSE] BY DEF RemoveClose
<1>3. obj \in [Objects -> PeerObjects \cup {None}] BY DEF TypeOK
<1> QED BY <1>1, <1>2, <1>3 DEF PeerObjects

\* A new object is open, has the link of its handshake, and was not there.
LEMMA Added ==
    ASSUME TypeOK, NEW r \in Readers, NEW o \in Objects, Add(r, o)
    PROVE  /\ work[r] \in Works /\ work[r].link \in Links /\ Owner[work[r].link] \in Ids
           /\ obj[o] = None
           /\ obj' \in [Objects -> PeerObjects \cup {None}]
           /\ \A q \in Objects : q # o => obj'[q] = obj[q]
           /\ obj'[o] \in PeerObjects /\ obj'[o].id = Owner[work[r].link]
           /\ obj'[o].link = work[r].link /\ obj'[o].open
<1> USE PeerTableAssumption
<1>1. work[r] \in Works /\ work[r].link \in Links /\ Owner[work[r].link] \in Ids
  BY DEF Add, Works, TypeOK
<1>2. obj' = [obj EXCEPT ![o] = [id |-> Owner[work[r].link], link |-> work[r].link, open |-> TRUE]]
  BY DEF Add
<1>3. obj \in [Objects -> PeerObjects \cup {None}] /\ obj[o] = None BY DEF TypeOK, Add
<1> QED BY <1>1, <1>2, <1>3 DEF PeerObjects

\* What a reader does is a record of its own.
LEMMA WorkType ==
    ASSUME TypeOK, NEW r \in Readers, work[r] # None
    PROVE  work[r] \in Works /\ work[r].link \in Links /\ Owner[work[r].link] \in Ids
           /\ work[r].object \in Objects \cup {None}
BY PeerTableAssumption DEF TypeOK, Works

\* A listed object is an object.
LEMMA TableType ==
    ASSUME TypeOK, NEW i \in Ids, table[i] # None
    PROVE  table[i] \in Objects
BY DEF TypeOK

\* What a removal does is a record too.
LEMMA RemovalType ==
    ASSUME TypeOK, NEW w \in Removals, removal[w] \notin {None, Done}
    PROVE  removal[w] \in RemovalStates /\ removal[w].id \in Ids /\ removal[w].object \in Objects
BY PeerTableAssumption DEF TypeOK, RemovalStates

\* A reader and a removal move on with what they are doing.
LEMMA WorkMoves ==
    ASSUME TypeOK, NEW r \in Readers, work[r] # None,
           NEW p \in {"check", "add", "route", "existing"}, work' = [work EXCEPT ![r].pc = p]
    PROVE  /\ work'[r] # None /\ work'[r].pc = p
           /\ work'[r].link = work[r].link /\ work'[r].object = work[r].object
           /\ \A q \in Readers : q # r => work'[q] = work[q]
<1>1. work[r] \in Works BY WorkType
<1>2. work \in [Readers -> Works \cup {None}] BY DEF TypeOK
<1>3. /\ work'[r] = [work[r] EXCEPT !.pc = p]
      /\ \A q \in Readers : q # r => work'[q] = work[q]
  BY <1>2
<1>4. /\ work'[r] \in Works /\ work'[r].pc = p
      /\ work'[r].link = work[r].link /\ work'[r].object = work[r].object
  BY <1>1, <1>3, SMT DEF Works
<1> QED BY <1>3, <1>4, PeerTableAssumption

\* The same of a removal.
LEMMA RemovalMoves ==
    ASSUME TypeOK, NEW w \in Removals, removal[w] \notin {None, Done},
           NEW p \in {"close", "routes", "remove"}, removal' = [removal EXCEPT ![w].pc = p]
    PROVE  /\ removal'[w] \notin {None, Done} /\ removal'[w].pc = p
           /\ removal'[w].id = removal[w].id /\ removal'[w].object = removal[w].object
           /\ \A v \in Removals : v # w => removal'[v] = removal[v]
<1>1. removal[w] \in RemovalStates BY RemovalType
<1>2. removal \in [Removals -> RemovalStates \cup {None, Done}] BY DEF TypeOK
<1>3. /\ removal'[w] = [removal[w] EXCEPT !.pc = p]
      /\ \A v \in Removals : v # w => removal'[v] = removal[v]
  BY <1>2
<1>4. /\ removal'[w] \in RemovalStates /\ removal'[w].pc = p
      /\ removal'[w].id = removal[w].id /\ removal'[w].object = removal[w].object
  BY <1>1, <1>3, SMT DEF RemovalStates
<1> QED BY <1>3, <1>4, PeerTableAssumption

\* What a step leaves alone stays known.
LEMMA KnownFrame ==
    ASSUME Known
    PROVE  /\ UNCHANGED <<table, obj>> => KnownListed'
           /\ UNCHANGED obj => KnownObjects'
           /\ UNCHANGED <<obj, removal>> => KnownRemoved'
           /\ UNCHANGED <<obj, work>> => KnownFound'
<1>1. ASSUME UNCHANGED <<table, obj>> PROVE KnownListed' BY <1>1 DEF Known, KnownListed
<1>2. ASSUME UNCHANGED obj PROVE KnownObjects' BY <1>2 DEF Known, KnownObjects
<1>3. ASSUME UNCHANGED <<obj, removal>> PROVE KnownRemoved' BY <1>3 DEF Known, KnownRemoved
<1>4. ASSUME UNCHANGED <<obj, work>> PROVE KnownFound' BY <1>4 DEF Known, KnownFound
<1> QED BY <1>1, <1>2, <1>3, <1>4

\* Objects keep belonging to the peer they are used for.
LEMMA KnownStep ==
    ASSUME TypeOK, TypeOK', Known, [Next]_vars
    PROVE  Known'
<1> USE PeerTableAssumption
<1>1. ASSUME NEW l \in Links, Established(l) PROVE Known'
  <2>1. UNCHANGED <<table, obj, removal>> BY <1>1 DEF Established
  <2>2. Reader(l) \in Readers BY ReaderType
  <2>3. \A r \in Readers : r # Reader(l) => work'[r] = work[r]
    BY <1>1, <2>2 DEF Established, TypeOK
  <2>4. work'[Reader(l)] = [link |-> l, object |-> table[Owner[l]],
                            pc |-> IF table[Owner[l]] = None THEN "check" ELSE "existing"]
    BY <1>1, <2>2 DEF Established, TypeOK
  <2>5. Owner[l] \in Ids OBVIOUS
  <2>6. table[Owner[l]] # None => obj[table[Owner[l]]] # None /\ obj[table[Owner[l]]].id = Owner[l]
    BY <2>5 DEF Known, KnownListed
  <2>7. work'[Reader(l)].pc = "existing" =>
          /\ work'[Reader(l)].object # None /\ obj[work'[Reader(l)].object] # None
          /\ obj[work'[Reader(l)].object].id = Owner[work'[Reader(l)].link]
    BY <2>4, <2>6, SMT
  <2>8. KnownFound' BY <2>1, <2>3, <2>7 DEF Known, KnownFound
  <2> QED BY <2>1, <2>8, KnownFrame DEF Known
<1>2. ASSUME NEW r \in Readers, CheckMaxPeers(r) \/ SetRoute(r) PROVE Known'
  <2>1. UNCHANGED <<table, obj, removal>> BY <1>2 DEF CheckMaxPeers, SetRoute
  <2>2. \A q \in Readers : q # r => work'[q] = work[q]
    BY <1>2, SMT DEF CheckMaxPeers, SetRoute, TypeOK
  <2>3. work'[r] = None \/ work'[r].pc = "add"
    BY <1>2, SMT DEF CheckMaxPeers, SetRoute, TypeOK, Works
  <2>4. KnownFound' BY <2>1, <2>2, <2>3, SMT DEF Known, KnownFound
  <2> QED BY <2>1, <2>4, KnownFrame DEF Known
<1>3. ASSUME NEW r \in Readers, handleExistingPeer(r) PROVE Known'
  <2>1. UNCHANGED <<table, removal>> BY <1>3 DEF handleExistingPeer
  <2>2. \A q \in Readers : q # r => work'[q] = work[q]
    BY <1>3 DEF handleExistingPeer, TypeOK
  <2>3. work'[r] = None \/ work'[r].pc = "route"
    BY <1>3, SMT DEF handleExistingPeer, TypeOK, Works
  <2>4. ASSUME NEW o \in Objects, obj[o] # None
        PROVE  obj'[o] # None /\ obj'[o].id = obj[o].id /\ Owner[obj'[o].link] = obj'[o].id
    <3>1. Owner[obj[o].link] = obj[o].id BY <2>4 DEF Known, KnownObjects
    <3> QED BY <1>3, <2>4, <3>1, Upgraded, SMT
  <2>5. \A o \in Objects : obj[o] = None => obj'[o] = None
    BY <1>3, Upgraded, SMT
  <2>6. KnownListed' BY <2>1, <2>4, TableType DEF Known, KnownListed
  <2>7. KnownObjects' BY <2>4, <2>5 DEF Known, KnownObjects
  <2>8. KnownRemoved' BY <2>1, <2>4, RemovalType DEF Known, KnownRemoved
  <2>9. KnownFound' BY <2>2, <2>3, <2>4, WorkType, SMT DEF Known, KnownFound
  <2> QED BY <2>6, <2>7, <2>8, <2>9 DEF Known
<1>4. ASSUME NEW r \in Readers, NEW o \in Objects, Add(r, o) PROVE Known'
  <2>1. UNCHANGED removal BY <1>4 DEF Add
  <2>2. \A q \in Readers : q # r => work'[q] = work[q]
    BY <1>4, SMT DEF Add, TypeOK
  <2>3. work'[r].pc = "route"
    <3>1. work[r] # None /\ work' = [work EXCEPT ![r].pc = "route"] BY <1>4 DEF Add
    <3> QED BY <3>1, WorkMoves
  <2>4. \A q \in Objects : obj[q] # None => obj'[q] = obj[q]
    BY <1>4, Added
  <2>5. table' = [table EXCEPT ![Owner[work[r].link]] = o] BY <1>4 DEF Add
  <2>6. \A q \in Objects : q # o => obj'[q] = obj[q] BY <1>4, Added
  <2>7. obj'[o] # None /\ obj'[o].id = Owner[work[r].link] /\ obj'[o].link = work[r].link
        /\ Owner[work[r].link] \in Ids
    BY <1>4, Added, SMT
  <2>8. KnownListed' BY <2>4, <2>5, <2>7, TableType, SMT DEF Known, KnownListed, TypeOK
  <2>9. KnownObjects' BY <2>6, <2>7 DEF Known, KnownObjects
  <2>10. KnownRemoved' BY <2>1, <2>4, RemovalType DEF Known, KnownRemoved
  <2>11. KnownFound' BY <2>2, <2>3, <2>4, WorkType, SMT DEF Known, KnownFound
  <2> QED BY <2>8, <2>9, <2>10, <2>11 DEF Known
<1>5. ASSUME NEW l \in TcpLinks, EndTCP(l) PROVE Known'
  <2>1. UNCHANGED <<table, obj, work, removal>> BY <1>5 DEF EndTCP
  <2> QED BY <2>1, KnownFrame DEF Known
<1>6. ASSUME NEW w \in Removals, NEW i \in Ids, RemoveStart(w, i) PROVE Known'
  <2>1. UNCHANGED <<table, obj, work>> BY <1>6 DEF RemoveStart
  <2>2. \A v \in Removals : v # w => removal'[v] = removal[v] BY <1>6 DEF RemoveStart, TypeOK
  <2>3. removal'[w] = [id |-> i, object |-> table[i], pc |-> "close"] BY <1>6 DEF RemoveStart, TypeOK
  <2>4. table[i] # None BY <1>6 DEF RemoveStart
  <2>5. obj[table[i]] # None /\ obj[table[i]].id = i BY <2>4 DEF Known, KnownListed
  <2>6. obj[removal'[w].object] # None /\ obj[removal'[w].object].id = removal'[w].id
    BY <2>3, <2>5, SMT
  <2>7. KnownRemoved' BY <2>1, <2>2, <2>6 DEF Known, KnownRemoved
  <2> QED BY <2>1, <2>7, KnownFrame DEF Known
<1>7. ASSUME NEW w \in Removals, RemoveClose(w) PROVE Known'
  <2>1. UNCHANGED <<table, work>> BY <1>7 DEF RemoveClose
  <2>2. \A v \in Removals : v # w => removal'[v] = removal[v] BY <1>7 DEF RemoveClose, TypeOK
  <2>3. removal'[w].id = removal[w].id /\ removal'[w].object = removal[w].object
    BY <1>7, RemovalMoves DEF RemoveClose
  <2>4. \A o \in Objects : obj[o] # None =>
          obj'[o] # None /\ obj'[o].id = obj[o].id /\ obj'[o].link = obj[o].link
    BY <1>7, Closed
  <2>5. \A o \in Objects : obj[o] = None => obj'[o] = None BY <1>7, Closed
  <2>6. removal[w] \notin {None, Done} BY <1>7 DEF RemoveClose
  <2>7. KnownListed' BY <2>1, <2>4, TableType DEF Known, KnownListed
  <2>8. KnownObjects' BY <2>4, <2>5 DEF Known, KnownObjects
  <2>9. KnownRemoved' BY <2>2, <2>3, <2>4, <2>6, RemovalType, SMT DEF Known, KnownRemoved
  <2>10. KnownFound' BY <2>1, <2>4, WorkType DEF Known, KnownFound
  <2> QED BY <2>7, <2>8, <2>9, <2>10 DEF Known
<1>8. ASSUME NEW w \in Removals, RemoveRoutes(w) PROVE Known'
  <2>1. UNCHANGED <<table, obj, work>> BY <1>8 DEF RemoveRoutes
  <2>2. \A v \in Removals : v # w => removal'[v] = removal[v] BY <1>8 DEF RemoveRoutes, TypeOK
  <2>3. removal[w] \notin {None, Done} BY <1>8 DEF RemoveRoutes
  <2>4. removal'[w].id = removal[w].id /\ removal'[w].object = removal[w].object
    BY <1>8, RemovalMoves DEF RemoveRoutes
  <2>5. KnownRemoved' BY <2>1, <2>2, <2>3, <2>4, SMT DEF Known, KnownRemoved
  <2> QED BY <2>1, <2>5, KnownFrame DEF Known
<1>9. ASSUME NEW w \in Removals, Remove(w) PROVE Known'
  <2>1. UNCHANGED <<obj, work>> BY <1>9 DEF Remove
  <2>2. \A v \in Removals : v # w => removal'[v] = removal[v] BY <1>9, SMT DEF Remove, TypeOK
  <2>3. removal'[w] = Done BY <1>9, SMT DEF Remove, TypeOK
  <2>4. \A i \in Ids : table'[i] = None \/ table'[i] = table[i] BY <1>9 DEF Remove, TypeOK
  <2>5. KnownListed' BY <2>1, <2>4 DEF Known, KnownListed
  <2>6. KnownRemoved' BY <2>1, <2>2, <2>3 DEF Known, KnownRemoved
  <2> QED BY <2>1, <2>5, <2>6, KnownFrame DEF Known
<1>10. CASE UNCHANGED <<table, obj, work, removal>>
  BY <1>10, KnownFrame DEF Known
<1>11. ASSUME NEW o \in Objects, UpgradePeer(o) PROVE Known'
  BY <1>10, <1>11 DEF UpgradePeer
<1>12. CASE cleanupStaleMappings \/ UNCHANGED vars
  BY <1>10, <1>12 DEF cleanupStaleMappings, vars
<1> QED BY StepCases, <1>1, <1>2, <1>3, <1>4, <1>5, <1>6, <1>7, <1>8, <1>9, <1>11, <1>12

----------------------------------------------------------------------------
\* A listed peer whose object was closed is being removed: Peer.Close is
\* followed by Peers.Remove of the same ID.
LEMMA OpenStep ==
    ASSUME TypeOK, TypeOK', Known, ListedIsOpen, [Next]_vars
    PROVE  ListedIsOpen'
<1> USE PeerTableAssumption
<1> SUFFICES ASSUME NEW i \in Ids, table'[i] # None, ~obj'[table'[i]].open
             PROVE  Removing(i)'
  BY DEF ListedIsOpen, Listed
<1>0. table[i] # None /\ ~obj[table[i]].open => Removing(i)
  BY DEF ListedIsOpen, Listed
<1>1. table[i] # None => table[i] \in Objects /\ obj[table[i]] # None /\ obj[table[i]].id = i
  BY DEF TypeOK, Known, KnownListed
<1>2. CASE UNCHANGED <<table, obj, removal>>
  BY <1>0, <1>2 DEF Removing
<1>3. ASSUME NEW r \in Readers, handleExistingPeer(r) PROVE Removing(i)'
  <2>1. UNCHANGED <<table, removal>> BY <1>3 DEF handleExistingPeer
  <2>2. ~obj[table[i]].open BY <1>1, <1>3, <2>1, Upgraded
  <2> QED BY <1>0, <2>1, <2>2 DEF Removing
<1>4. ASSUME NEW r \in Readers, NEW o \in Objects, Add(r, o) PROVE Removing(i)'
  <2>1. UNCHANGED removal /\ table' = [table EXCEPT ![Owner[work[r].link]] = o]
    BY <1>4 DEF Add
  <2>2. i # Owner[work[r].link]
    <3>1. table \in [Ids -> Objects \cup {None}] BY DEF TypeOK
    <3>2. obj'[o].open BY <1>4, Added
    <3> QED BY <2>1, <3>1, <3>2
  <2>3. table'[i] = table[i] BY <2>1, <2>2, SMT DEF TypeOK
  <2>4. ~obj[table[i]].open BY <1>1, <1>4, <2>3, Added, SMT
  <2> QED BY <1>0, <2>1, <2>3, <2>4 DEF Removing
<1>5. ASSUME NEW w \in Removals, NEW j \in Ids, RemoveStart(w, j) PROVE Removing(i)'
  <2>1. UNCHANGED <<table, obj>> /\ removal[w] = None BY <1>5 DEF RemoveStart
  <2>2. \A v \in Removals : v # w => removal'[v] = removal[v] BY <1>5 DEF RemoveStart, TypeOK
  <2> QED BY <1>0, <2>1, <2>2 DEF Removing
<1>6. ASSUME NEW w \in Removals, RemoveClose(w) PROVE Removing(i)'
  <2>1. UNCHANGED table /\ removal[w] \notin {None, Done} BY <1>6 DEF RemoveClose
  <2>2. /\ removal'[w] \notin {None, Done} /\ removal'[w].id = removal[w].id
        /\ \A v \in Removals : v # w => removal'[v] = removal[v]
    BY <1>6, RemovalMoves DEF RemoveClose
  <2>3. Removing(i) => Removing(i)' BY <2>2 DEF Removing
  <2>4. CASE table[i] # removal[w].object BY <1>0, <1>1, <1>6, <2>1, <2>3, <2>4, Closed
  <2>5. CASE table[i] = removal[w].object
    <3>1. removal[w].id = i BY <1>1, <1>6, <2>1, <2>5, Closed
    <3> QED BY <2>2, <3>1 DEF Removing
  <2> QED BY <2>4, <2>5
<1>7. ASSUME NEW w \in Removals, RemoveRoutes(w) PROVE Removing(i)'
  <2>1. UNCHANGED <<table, obj>> BY <1>7 DEF RemoveRoutes
  <2>2. /\ removal'[w] \notin {None, Done} /\ removal'[w].id = removal[w].id
        /\ \A v \in Removals : v # w => removal'[v] = removal[v]
    BY <1>7, RemovalMoves DEF RemoveRoutes
  <2> QED BY <1>0, <2>1, <2>2 DEF Removing
<1>8. ASSUME NEW w \in Removals, Remove(w) PROVE Removing(i)'
  <2>1. UNCHANGED obj /\ table' = [table EXCEPT ![removal[w].id] = None]
        /\ removal[w] \notin {None, Done}
    BY <1>8 DEF Remove
  <2>2. i # removal[w].id BY <2>1, SMT DEF TypeOK
  <2>3. table'[i] = table[i] BY <2>1, <2>2 DEF TypeOK
  <2>4. \A v \in Removals : v # w => removal'[v] = removal[v] BY <1>8, SMT DEF Remove, TypeOK
  <2> QED BY <1>0, <2>1, <2>2, <2>3, <2>4 DEF Removing
<1>9. ASSUME NEW l \in Links, Established(l) PROVE Removing(i)'
  BY <1>2, <1>9 DEF Established
<1>10. ASSUME NEW r \in Readers, CheckMaxPeers(r) \/ SetRoute(r) PROVE Removing(i)'
  BY <1>2, <1>10 DEF CheckMaxPeers, SetRoute
<1>11. ASSUME NEW l \in TcpLinks, EndTCP(l) PROVE Removing(i)'
  BY <1>2, <1>11 DEF EndTCP
<1>12. ASSUME NEW o \in Objects, UpgradePeer(o) PROVE Removing(i)'
  BY <1>2, <1>12 DEF UpgradePeer
<1>13. CASE cleanupStaleMappings \/ UNCHANGED vars
  BY <1>2, <1>13 DEF cleanupStaleMappings, vars
<1> QED BY StepCases, <1>3, <1>4, <1>5, <1>6, <1>7, <1>8, <1>9, <1>10, <1>11, <1>12, <1>13

----------------------------------------------------------------------------
(* Peers that have seen no overlap.                                        *)

\* A step that is not about a peer leaves it undisturbed.
LEMMA Elsewhere ==
    ASSUME TypeOK, Known, NEW i \in Ids, Undisturbed(i),
           \A r \in Readers : work'[r] = work[r] \/ (~Working(r, i) /\ ~Working(r, i)'),
           \A w \in Removals : removal'[w] = removal[w] \/ (~Under(w, i) /\ ~Under(w, i)'),
           table'[i] = table[i],
           \A o \in Objects : obj[o] # None /\ obj[o].id = i => obj'[o] = obj[o],
           \A o \in Objects : obj'[o] # None /\ obj'[o].id = i => obj'[o] = obj[o],
           \A l \in Links : route[l] = i => route'[l] = i,
           i \in moved => i \in moved'
    PROVE  Undisturbed(i)'
<1>1. \A r \in Readers : Working(r, i)' => Working(r, i) /\ work'[r] = work[r]
  BY DEF Working
<1>2. \A r \in Readers : Working(r, i) => Working(r, i)' /\ work'[r] = work[r]
  BY DEF Working
<1>3. \A w \in Removals : Under(w, i)' => Under(w, i) /\ removal'[w] = removal[w]
  BY DEF Under
<1>4. \A w \in Removals : Under(w, i) => Under(w, i)' /\ removal'[w] = removal[w]
  BY DEF Under
<1>5. table[i] # None => /\ table[i] \in Objects /\ obj[table[i]] # None
                         /\ obj'[table[i]] = obj[table[i]]
                         /\ obj[table[i]].link \in Links
  BY PeerTableAssumption, SMT DEF TypeOK, Known, KnownListed, PeerObjects
<1>6. Alone(i)' BY <1>1, <1>3 DEF Undisturbed, Alone
<1>7. Fresh(i)'
  <2>1. \A w \in Removals : Under(w, i) =>
          removal[w].object \in Objects /\ obj'[removal[w].object] = obj[removal[w].object]
    BY RemovalType DEF Under, Known, KnownRemoved
  <2> QED BY <1>1, <1>3, <1>5, <2>1, SMT DEF Undisturbed, Fresh
<1>8. NoOrphan(i)' BY DEF Undisturbed, NoOrphan
<1>9. Routed(i)'
  <2> SUFFICES ASSUME table[i] # None PROVE Routed(i)' BY DEF Routed
  <2>1. CASE route[obj[table[i]].link] = i BY <1>5, <2>1 DEF Routed
  <2>2. CASE i \in moved BY <2>2 DEF Routed
  <2>3. ASSUME NEW r \in Readers, Working(r, i), work[r].pc = "route" PROVE Routed(i)'
    BY <1>2, <2>3 DEF Routed
  <2>4. ASSUME NEW w \in Removals, Under(w, i), removal[w].pc = "remove" PROVE Routed(i)'
    BY <1>4, <2>4 DEF Routed
  <2> QED BY <2>1, <2>2, <2>3, <2>4 DEF Undisturbed, Routed
<1> QED BY <1>6, <1>7, <1>8, <1>9 DEF Undisturbed

\* Peers.Get in processHandshake: the reader is alone, or there is an overlap.
LEMMA EstablishedUndisturbed ==
    ASSUME TypeOK, Known, NEW l \in Links, Established(l),
           NEW i \in Ids \ overlapped', Undisturbed(i)
    PROVE  Undisturbed(i)'
<1> USE PeerTableAssumption
<1>1. UNCHANGED <<table, route, obj, removal, moved>> BY DEF Established
<1>2. Reader(l) \in Readers BY ReaderType
<1>3. \A r \in Readers : r # Reader(l) => work'[r] = work[r]
  BY <1>2 DEF Established, TypeOK
<1>4. work'[Reader(l)] = [link |-> l, object |-> table[Owner[l]],
                          pc |-> IF table[Owner[l]] = None THEN "check" ELSE "existing"]
  BY <1>2 DEF Established, TypeOK
<1>5. CASE Owner[l] # i
  <2>1. ~Working(Reader(l), i) /\ ~Working(Reader(l), i)'
    BY <1>4, <1>5, SMT DEF Working, Established
  <2> QED BY <1>1, <1>3, <2>1, Elsewhere
<1>6. CASE Owner[l] = i
  <2>1. ~Busy(i) BY <1>6 DEF Established, Mark
  <2>2. \A w \in Removals : ~Under(w, i) BY <2>1 DEF Busy, Removing, Under
  <2>3. \A r \in Readers : ~Working(r, i) BY <2>1 DEF Busy, Working
  <2>4. \A r \in Readers : Working(r, i)' => r = Reader(l) BY <1>3, <2>3 DEF Working
  <2>5. \A w \in Removals : ~Under(w, i)' BY <1>1, <2>2 DEF Under
  <2>6. Alone(i)' BY <2>4, <2>5 DEF Alone
  <2>7. Fresh(i)' BY <1>1, <1>4, <1>6, <2>4, <2>5, SMT DEF Fresh
  <2>8. NoOrphan(i)' BY <1>1 DEF Undisturbed, NoOrphan
  <2>9. Routed(i)' BY <1>1, <2>2, <2>3 DEF Undisturbed, Routed
  <2> QED BY <2>6, <2>7, <2>8, <2>9 DEF Undisturbed
<1> QED BY <1>5, <1>6

\* The check of MaxPeers, and a refusal.
LEMMA CheckUndisturbed ==
    ASSUME TypeOK, Known, NEW r \in Readers, CheckMaxPeers(r),
           NEW i \in Ids \ overlapped', Undisturbed(i)
    PROVE  Undisturbed(i)'
<1> USE PeerTableAssumption
<1>1. UNCHANGED <<table, route, obj, removal, moved>> /\ work[r] # None /\ work[r].pc = "check"
  BY DEF CheckMaxPeers
<1>2. /\ \A q \in Readers : q # r => work'[q] = work[q]
      /\ \/ work'[r] = None
         \/ work'[r] # None /\ work'[r].pc = "add" /\ work'[r].link = work[r].link
  <2>1. CASE work' = [work EXCEPT ![r] = None] BY <2>1 DEF TypeOK
  <2>2. CASE work' = [work EXCEPT ![r].pc = "add"] BY <1>1, <2>2, WorkMoves
  <2> QED BY <2>1, <2>2 DEF CheckMaxPeers
<1>3. CASE ~Working(r, i)
  BY <1>1, <1>2, <1>3, Elsewhere DEF Working
<1>4. CASE Working(r, i)
  <2>1. \A q \in Readers : Working(q, i)' => q = r
    BY <1>2, <1>4 DEF Working, Undisturbed, Alone
  <2>2. \A w \in Removals : ~Under(w, i) BY <1>4 DEF Undisturbed, Alone
  <2>3. \A w \in Removals : ~Under(w, i)' BY <1>1, <2>2 DEF Under
  <2>4. table[i] = None BY <1>1, <1>4 DEF Undisturbed, Fresh
  <2>5. Alone(i)' BY <2>1, <2>3 DEF Alone
  <2>6. Fresh(i)' BY <1>1, <1>2, <2>1, <2>3, <2>4 DEF Fresh, Working
  <2>7. NoOrphan(i)' BY <1>1 DEF Undisturbed, NoOrphan
  <2>8. Routed(i)' BY <1>1, <2>4 DEF Routed
  <2> QED BY <2>5, <2>6, <2>7, <2>8 DEF Undisturbed
<1> QED BY <1>3, <1>4

\* The address of a new or upgraded peer is recorded.
LEMMA SetRouteUndisturbed ==
    ASSUME TypeOK, Known, NEW r \in Readers, SetRoute(r),
           NEW i \in Ids \ overlapped', Undisturbed(i)
    PROVE  Undisturbed(i)'
<1> USE PeerTableAssumption
<1>1. UNCHANGED <<table, obj, removal, moved>> /\ work[r] # None /\ work[r].pc = "route"
  BY DEF SetRoute
<1>2. work'[r] = None /\ \A q \in Readers : q # r => work'[q] = work[q]
  BY DEF SetRoute, TypeOK
<1>3. work[r].link \in Links BY <1>1, WorkType
<1>4. /\ route'[work[r].link] = Owner[work[r].link]
      /\ \A l \in Links : l # work[r].link => route'[l] = route[l]
  BY <1>3 DEF SetRoute, TypeOK
<1>5. CASE ~Working(r, i)
  <2>1. table[i] # None => Owner[obj[table[i]].link] = i BY SMT DEF Known, KnownListed, KnownObjects, TypeOK
  <2>2. Owner[work[r].link] # i BY <1>1, <1>5 DEF Working
  <2>3. \A q \in Readers : work'[q] = work[q] \/ (~Working(q, i) /\ ~Working(q, i)')
    BY <1>2, <1>5 DEF Working
  <2>4. Alone(i)' BY <1>1, <2>3 DEF Undisturbed, Alone, Working, Under
  <2>5. Fresh(i)' BY <1>1, <2>3 DEF Undisturbed, Fresh, Working, Under
  <2>6. NoOrphan(i)' BY <1>1 DEF Undisturbed, NoOrphan
  <2>7. Routed(i)'
    <3> SUFFICES ASSUME table[i] # None PROVE Routed(i)' BY <1>1 DEF Routed
    <3>1. obj[table[i]].link # work[r].link BY <2>1, <2>2
    <3>2. obj[table[i]].link \in Links BY SMT DEF TypeOK, Known, KnownListed, PeerObjects
    <3>3. CASE route[obj[table[i]].link] = i BY <1>1, <1>4, <3>1, <3>2, <3>3 DEF Routed
    <3>4. CASE i \in moved BY <1>1, <3>4 DEF Routed
    <3>5. ASSUME NEW q \in Readers, Working(q, i), work[q].pc = "route" PROVE Routed(i)'
      BY <2>3, <3>5 DEF Routed, Working
    <3>6. ASSUME NEW w \in Removals, Under(w, i), removal[w].pc = "remove" PROVE Routed(i)'
      BY <1>1, <3>6 DEF Routed, Under
    <3> QED BY <3>3, <3>4, <3>5, <3>6 DEF Undisturbed, Routed
  <2> QED BY <2>4, <2>5, <2>6, <2>7 DEF Undisturbed
<1>6. CASE Working(r, i)
  <2>1. \A q \in Readers : ~Working(q, i)'
    BY <1>2, <1>6, SMT DEF Working, Undisturbed, Alone
  <2>2. \A w \in Removals : ~Under(w, i)' BY <1>1, <1>6 DEF Undisturbed, Alone, Under
  <2>3. Alone(i)' /\ Fresh(i)' BY <2>1, <2>2 DEF Alone, Fresh
  <2>4. NoOrphan(i)' BY <1>1 DEF Undisturbed, NoOrphan
  <2>5. obj[table[i]].link = work[r].link /\ Owner[work[r].link] = i
    BY <1>1, <1>6 DEF Undisturbed, Fresh, Working
  <2>6. Routed(i)' BY <1>1, <1>4, <2>5 DEF Routed
  <2> QED BY <2>3, <2>4, <2>6 DEF Undisturbed
<1> QED BY <1>5, <1>6

\* handleExistingPeer: the object is the listed one; it takes the new link and
\* its address is recorded next, or the peer counts as moved.
LEMMA ExistingUndisturbed ==
    ASSUME TypeOK, Known, NEW r \in Readers, handleExistingPeer(r),
           NEW i \in Ids \ overlapped', Undisturbed(i)
    PROVE  Undisturbed(i)'
<1> USE PeerTableAssumption
<1> DEFINE o == work[r].object
           l == work[r].link
<1>1. UNCHANGED <<table, route, removal>> /\ work[r] # None /\ work[r].pc = "existing"
  BY DEF handleExistingPeer
<1>2. /\ o \in Objects /\ obj[o] # None /\ obj[o].id = Owner[l]
      /\ \A q \in Objects : q # o => obj'[q] = obj[q]
      /\ obj'[o] # None /\ obj'[o].id = Owner[l]
  BY Upgraded
<1>3. \A q \in Readers : q # r => work'[q] = work[q] BY DEF handleExistingPeer, TypeOK
<1>4. \/ work'[r] = None /\ (obj'[o].link # obj[o].link => Owner[l] \in moved')
      \/ /\ work'[r] # None /\ work'[r].pc = "route" /\ work'[r].link = l
         /\ obj'[o].link = l
  <2>1. CASE l \in TcpLinks /\ obj[o].link \notin TcpLinks
    <3>1. work' = [work EXCEPT ![r].pc = "route"] BY <2>1 DEF handleExistingPeer
    <3>2. obj' = [obj EXCEPT ![o].link = l, ![o].open = TRUE]
      BY <2>1 DEF handleExistingPeer, UpgradeTransport
    <3>3. obj'[o].link = l BY <3>2, <1>2, SMT DEF TypeOK, PeerObjects
    <3> QED BY <1>1, <3>1, <3>3, WorkMoves
  <2>2. CASE ~(l \in TcpLinks /\ obj[o].link \notin TcpLinks)
    BY <2>2 DEF handleExistingPeer, TypeOK
  <2> QED BY <2>1, <2>2
<1>5. moved \subseteq moved' BY DEF handleExistingPeer
<1> HIDE DEF o, l
<1>6. CASE ~Working(r, i)
  <2>1. Owner[l] # i BY <1>1, <1>6 DEF Working, l
  <2>2. ~Working(r, i)' BY <1>4, <2>1 DEF Working
  <2> QED BY <1>1, <1>2, <1>3, <1>5, <1>6, <2>1, <2>2, Elsewhere
<1>7. CASE Working(r, i)
  <2>1. Owner[l] = i BY <1>7 DEF Working, l
  <2>2. o = table[i] BY <1>1, <1>7 DEF Undisturbed, Fresh, o
  <2>3. \A q \in Readers : Working(q, i)' => q = r
    BY <1>3, <1>7 DEF Working, Undisturbed, Alone
  <2>4. \A w \in Removals : ~Under(w, i)' /\ ~Under(w, i) BY <1>1, <1>7 DEF Undisturbed, Alone, Under
  <2>5. Alone(i)' BY <2>3, <2>4 DEF Alone
  <2>6. Fresh(i)'
    <3>1. Working(r, i)' => work'[r].pc = "route" /\ obj'[table'[i]].link = work'[r].link
      BY <1>1, <1>4, <2>2 DEF Working
    <3>2. table'[i] # None BY <1>1, <1>2, <2>2
    <3> QED BY <2>3, <2>4, <3>1, <3>2 DEF Fresh
  <2>7. NoOrphan(i)' BY <1>1, <1>2, <2>2 DEF Undisturbed, NoOrphan
  <2>8. Routed(i)'
    <3>1. CASE work'[r] = None /\ obj'[o].link # obj[o].link BY <1>4, <2>1, <3>1 DEF Routed
    <3>2. CASE work'[r] = None /\ obj'[o].link = obj[o].link
      <4>1. \A q \in Readers : Working(q, i) => q = r BY <1>7 DEF Undisturbed, Alone
      <4>2. route[obj[table[i]].link] = i \/ i \in moved
        BY <1>1, <1>2, <2>2, <2>4, <4>1 DEF Undisturbed, Routed
      <4> QED BY <1>1, <1>5, <2>2, <3>2, <4>2 DEF Routed
    <3>3. CASE work'[r] # None /\ work'[r].pc = "route" /\ work'[r].link = l
      BY <2>1, <3>3 DEF Routed, Working
    <3> QED BY <1>4, <3>1, <3>2, <3>3
  <2> QED BY <2>5, <2>6, <2>7, <2>8 DEF Undisturbed
<1> QED BY <1>6, <1>7

\* Peers.Add: nothing was listed, so nothing is orphaned.
LEMMA AddUndisturbed ==
    ASSUME TypeOK, Known, NEW r \in Readers, NEW o \in Objects, Add(r, o),
           NEW i \in Ids \ overlapped', Undisturbed(i)
    PROVE  Undisturbed(i)'
<1> USE PeerTableAssumption
<1> DEFINE l == work[r].link
<1>1. UNCHANGED <<route, removal>> /\ work[r] # None /\ work[r].pc = "add"
      /\ table' = [table EXCEPT ![Owner[l]] = o]
  BY DEF Add
<1>2. /\ l \in Links /\ Owner[l] \in Ids /\ obj[o] = None
      /\ \A q \in Objects : q # o => obj'[q] = obj[q]
      /\ obj'[o] # None /\ obj'[o].id = Owner[l] /\ obj'[o].link = l
  BY Added, SMT
<1>3. /\ work'[r] # None /\ work'[r].pc = "route" /\ work'[r].link = l
      /\ \A q \in Readers : q # r => work'[q] = work[q]
  BY <1>1, WorkMoves DEF Add
<1>4. \A j \in Ids : j # Owner[l] => (j \in moved => j \in moved') BY DEF Add
<1>5. table'[Owner[l]] = o /\ \A j \in Ids : j # Owner[l] => table'[j] = table[j]
  BY <1>1, <1>2 DEF TypeOK
<1> HIDE DEF l
<1>6. CASE Owner[l] # i
  <2>1. ~Working(r, i) /\ ~Working(r, i)' BY <1>1, <1>3, <1>6 DEF Working, l
  <2> QED BY <1>1, <1>2, <1>3, <1>4, <1>5, <1>6, <2>1, Elsewhere
<1>7. CASE Owner[l] = i
  <2>1. Working(r, i) BY <1>1, <1>7 DEF Working, l
  <2>2. table[i] = None BY <1>1, <2>1 DEF Undisturbed, Fresh
  <2>3. \A q \in Readers : Working(q, i)' => q = r
    BY <1>3, <2>1 DEF Working, Undisturbed, Alone
  <2>4. \A w \in Removals : ~Under(w, i)' BY <1>1, <2>1 DEF Undisturbed, Alone, Under
  <2>5. Alone(i)' BY <2>3, <2>4 DEF Alone
  <2>6. Fresh(i)' BY <1>2, <1>3, <1>5, <1>7, <2>3, <2>4 DEF Fresh
  <2>7. NoOrphan(i)' BY <1>2, <1>5, <1>7, <2>2, SMT DEF Undisturbed, NoOrphan
  <2>8. Routed(i)' BY <1>3, <1>7 DEF Routed, Working
  <2> QED BY <2>5, <2>6, <2>7, <2>8 DEF Undisturbed
<1> QED BY <1>6, <1>7

\* A removal starts: it is alone, or there is an overlap.
LEMMA RemoveStartUndisturbed ==
    ASSUME TypeOK, Known, NEW w \in Removals, NEW j \in Ids, RemoveStart(w, j),
           NEW i \in Ids \ overlapped', Undisturbed(i)
    PROVE  Undisturbed(i)'
<1> USE PeerTableAssumption
<1>1. UNCHANGED <<table, route, obj, work, moved>> /\ removal[w] = None BY DEF RemoveStart
<1>2. /\ removal'[w] = [id |-> j, object |-> table[j], pc |-> "close"]
      /\ \A v \in Removals : v # w => removal'[v] = removal[v]
  BY DEF RemoveStart, TypeOK
<1>3. CASE j # i
  <2>1. ~Under(w, i) /\ ~Under(w, i)' BY <1>1, <1>2, <1>3, SMT DEF Under
  <2> QED BY <1>1, <1>2, <2>1, Elsewhere
<1>4. CASE j = i
  <2>1. ~Busy(i) BY <1>4 DEF RemoveStart, Mark
  <2>2. \A v \in Removals : ~Under(v, i) BY <2>1 DEF Busy, Removing, Under
  <2>3. \A r \in Readers : ~Working(r, i) /\ ~Working(r, i)' BY <1>1, <2>1 DEF Busy, Working
  <2>4. \A v \in Removals : Under(v, i)' => v = w BY <1>2, <2>2 DEF Under
  <2>5. Alone(i)' BY <2>3, <2>4 DEF Alone
  <2>6. Fresh(i)' BY <1>1, <1>2, <1>4, <2>3, <2>4, SMT DEF Fresh
  <2>7. NoOrphan(i)' BY <1>1 DEF Undisturbed, NoOrphan
  <2>8. Routed(i)' BY <1>1, <2>2, <2>3 DEF Undisturbed, Routed
  <2> QED BY <2>5, <2>6, <2>7, <2>8 DEF Undisturbed
<1> QED BY <1>3, <1>4

\* Peer.Close, the routes and Peers.Remove: alone, they act on the object that
\* is listed.
LEMMA RemovalUndisturbed ==
    ASSUME TypeOK, Known, NEW w \in Removals, RemoveClose(w) \/ RemoveRoutes(w) \/ Remove(w),
           NEW i \in Ids \ overlapped', Undisturbed(i)
    PROVE  Undisturbed(i)'
<1> USE PeerTableAssumption
<1> DEFINE j == removal[w].id
           o == removal[w].object
<1>1. UNCHANGED <<work, moved>> /\ removal[w] \notin {None, Done}
  BY DEF RemoveClose, RemoveRoutes, Remove
<1>2. /\ removal[w] \in RemovalStates /\ j \in Ids /\ o \in Objects
      /\ obj[o] # None /\ obj[o].id = j
  BY <1>1, RemovalType DEF Known, KnownRemoved
<1>3. \A q \in Objects : q # o => obj'[q] = obj[q]
  BY Closed DEF RemoveRoutes, Remove
<1>4. obj'[o] # None /\ obj'[o].id = j /\ obj'[o].link = obj[o].link
  BY <1>2, Closed DEF RemoveRoutes, Remove
<1>5. \A v \in Removals : v # w => removal'[v] = removal[v]
  BY DEF RemoveClose, RemoveRoutes, Remove, TypeOK
<1>6. removal'[w] = Done \/ (removal'[w].id = j /\ removal'[w].object = o)
  <2>1. CASE RemoveClose(w) BY <1>1, <2>1, RemovalMoves DEF RemoveClose
  <2>2. CASE RemoveRoutes(w) BY <1>1, <2>2, RemovalMoves DEF RemoveRoutes
  <2>3. CASE Remove(w) BY <2>3 DEF Remove, TypeOK
  <2> QED BY <2>1, <2>2, <2>3
<1>7. \A k \in Ids : k # j => table'[k] = table[k] /\ \A l \in Links : route[l] = k => route'[l] = k
  BY <1>2, SMT DEF RemoveClose, RemoveRoutes, Remove, TypeOK
<1> HIDE DEF j, o
<1>8. CASE i # j
  <2>1. ~Under(w, i) /\ ~Under(w, i)' BY <1>6, <1>8 DEF Under, j
  <2> QED BY <1>1, <1>2, <1>3, <1>4, <1>5, <1>7, <1>8, <2>1, Elsewhere
<1>9. CASE i = j
  <2>1. Under(w, i) BY <1>1, <1>9 DEF Under, j
  <2>2. \A r \in Readers : ~Working(r, i)' BY <1>1, <2>1 DEF Undisturbed, Alone, Working
  <2>3. \A v \in Removals : Under(v, i) => v = w BY <2>1 DEF Undisturbed, Alone
  <2>4. \A v \in Removals : Under(v, i)' => v = w BY <1>5, <2>3 DEF Under
  <2>5. Alone(i)' BY <2>2, <2>4 DEF Alone
  <2>6. o = table[i] BY <2>1 DEF Undisturbed, Fresh, o
  <2>7. CASE RemoveClose(w)
    <3>1. UNCHANGED <<table, route>> BY <2>7 DEF RemoveClose
    <3>2. removal'[w].pc = "routes" /\ removal'[w].object = o
      BY <1>1, <2>7, RemovalMoves DEF RemoveClose, o
    <3>3. ~obj'[o].open BY <2>7, Closed DEF o
    <3>4. Fresh(i)' BY <2>2, <2>4, <2>6, <3>1, <3>2, <3>3 DEF Fresh
    <3>5. NoOrphan(i)' BY <1>3, <2>6, <3>1, <3>3 DEF Undisturbed, NoOrphan
    <3>6. removal[w].pc = "close" BY <2>7 DEF RemoveClose
    <3>7. \A r \in Readers : ~Working(r, i) BY <1>1, <2>2 DEF Working
    <3>8. table[i] # None => route[obj[table[i]].link] = i \/ i \in moved
      BY <2>3, <3>6, <3>7 DEF Undisturbed, Routed
    <3>9. Routed(i)' BY <1>1, <1>4, <2>6, <3>1, <3>8 DEF Routed
    <3> QED BY <2>5, <3>4, <3>5, <3>9 DEF Undisturbed
  <2>8. CASE RemoveRoutes(w)
    <3>1. UNCHANGED <<table, obj>> /\ removal[w].pc = "routes" BY <2>8 DEF RemoveRoutes
    <3>2. removal'[w] \notin {None, Done} /\ removal'[w].pc = "remove"
          /\ removal'[w].object = o /\ removal'[w].id = i
      BY <1>1, <1>9, <2>8, RemovalMoves DEF RemoveRoutes, o, j
    <3>3. ~obj[o].open BY <2>1, <3>1 DEF Undisturbed, Fresh, o
    <3>4. Fresh(i)' BY <2>2, <2>4, <2>6, <3>1, <3>2, <3>3 DEF Fresh
    <3>5. NoOrphan(i)' BY <3>1 DEF Undisturbed, NoOrphan
    <3>6. Routed(i)' BY <3>2 DEF Routed, Under
    <3> QED BY <2>5, <3>4, <3>5, <3>6 DEF Undisturbed
  <2>9. CASE Remove(w)
    <3>1. UNCHANGED obj /\ removal[w].pc = "remove" BY <2>9 DEF Remove
    <3>2. table'[i] = None /\ removal'[w] = Done BY <1>9, <2>9 DEF Remove, TypeOK, j
    <3>3. \A v \in Removals : ~Under(v, i)' BY <2>4, <3>2 DEF Under
    <3>4. Fresh(i)' BY <2>2, <3>3 DEF Fresh
    <3>5. ~obj[o].open BY <2>1, <3>1 DEF Undisturbed, Fresh, o
    <3>6. NoOrphan(i)' BY <2>6, <3>1, <3>5 DEF Undisturbed, NoOrphan
    <3>7. Routed(i)' BY <3>2 DEF Routed
    <3> QED BY <2>5, <3>4, <3>6, <3>7 DEF Undisturbed
  <2> QED BY <2>7, <2>8, <2>9
<1> QED BY <1>8, <1>9

\* Peers without overlap stay undisturbed.
LEMMA UndisturbedStep ==
    ASSUME Consistent, [Next]_vars, NEW i \in Ids \ overlapped'
    PROVE  Undisturbed(i)'
<1> USE PeerTableAssumption
<1>1. overlapped \subseteq overlapped'
  BY StepCases DEF Established, CheckMaxPeers, SetRoute, handleExistingPeer, Add, EndTCP,
     RemoveStart, RemoveClose, RemoveRoutes, Remove, UpgradePeer, cleanupStaleMappings, vars, Mark
<1>2. TypeOK /\ Known /\ Undisturbed(i) BY <1>1 DEF Consistent
<1>3. CASE UNCHANGED <<table, obj, work, removal, moved>>
            /\ \A l \in Links : route[l] = i => route'[l] = i
  BY <1>2, <1>3, Elsewhere
<1>4. ASSUME NEW o \in Objects, UpgradePeer(o) PROVE Undisturbed(i)'
  BY <1>2, <1>3, <1>4 DEF UpgradePeer, TypeOK
<1>5. CASE cleanupStaleMappings
  <2>1. CASE table[i] = None
    <3>1. UNCHANGED <<table, obj, work, removal, moved>> BY <1>5 DEF cleanupStaleMappings
    <3>2. Alone(i)' BY <1>2, <3>1 DEF Undisturbed, Alone, Working, Under
    <3>3. Fresh(i)' BY <1>2, <3>1 DEF Undisturbed, Fresh, Working, Under
    <3>4. NoOrphan(i)' BY <1>2, <3>1 DEF Undisturbed, NoOrphan
    <3>5. Routed(i)' BY <2>1, <3>1 DEF Routed
    <3> QED BY <3>2, <3>3, <3>4, <3>5 DEF Undisturbed
  <2>2. CASE table[i] # None BY <1>3, <1>5, <2>2 DEF cleanupStaleMappings
  <2> QED BY <2>1, <2>2
<1>6. ASSUME NEW l \in TcpLinks, EndTCP(l) PROVE Undisturbed(i)'
  BY <1>3, <1>6 DEF EndTCP
<1>7. CASE UNCHANGED vars BY <1>3, <1>7 DEF vars
<1> QED BY StepCases, <1>2, <1>4, <1>5, <1>6, <1>7, EstablishedUndisturbed, CheckUndisturbed,
           SetRouteUndisturbed, ExistingUndisturbed, AddUndisturbed,
           RemoveStartUndisturbed, RemovalUndisturbed

\* The inductive invariant holds throughout.
LEMMA ConsistentHolds == Spec => []Consistent
<1> USE PeerTableAssumption
<1>1. Init => Consistent
  <2> SUFFICES ASSUME Init PROVE Consistent OBVIOUS
  <2>1. TypeOK BY DEF Init, TypeOK
  <2>2. Known /\ ListedIsOpen
    BY DEF Init, Known, KnownListed, KnownObjects, KnownRemoved, KnownFound, ListedIsOpen, Listed
  <2>3. ASSUME NEW i \in Ids PROVE Undisturbed(i)
    BY DEF Init, Undisturbed, Alone, Fresh, NoOrphan, Routed, Working, Under
  <2> QED BY <2>1, <2>2, <2>3 DEF Consistent
<1>2. Consistent /\ [Next]_vars => Consistent'
  <2> SUFFICES ASSUME Consistent, [Next]_vars PROVE Consistent' OBVIOUS
  <2>1. TypeOK' BY TypeStep DEF Consistent
  <2>2. Known' BY <2>1, KnownStep DEF Consistent
  <2>3. ListedIsOpen' BY <2>1, OpenStep DEF Consistent
  <2>4. \A i \in Ids \ overlapped' : Undisturbed(i)' BY UndisturbedStep
  <2> QED BY <2>1, <2>2, <2>3, <2>4 DEF Consistent
<1> QED BY <1>1, <1>2, PTL DEF Spec

\* The variables keep their types: a removal or a handshake never acts on an
\* object that does not exist.
THEOREM TypeHolds == Spec => []TypeOK
<1>1. Consistent => TypeOK BY DEF Consistent
<1> QED BY <1>1, ConsistentHolds, PTL

\* A listed peer is open, or a removal of it (Peer.Close before Peers.Remove,
\* heartbeat.go) is under way.
THEOREM OpenHolds == Spec => []ListedIsOpen
<1>1. Consistent => ListedIsOpen BY DEF Consistent
<1> QED BY <1>1, ConsistentHolds, PTL

\* An open object that the table has lost needs two goroutines at work on its
\* peer at once (removePeer by ID while processHandshake adds or revives it).
THEOREM OrphansHold == Spec => []OrphansNeedOverlap
<1>1. Consistent => OrphansNeedOverlap
  <2> SUFFICES ASSUME Consistent, NEW o \in Objects,
                      obj[o] # None, obj[o].open, table[obj[o].id] # o
               PROVE  obj[o].id \in overlapped
    BY DEF OrphansNeedOverlap
  <2>1. obj[o].id \in Ids BY DEF Consistent, TypeOK, PeerObjects
  <2> QED BY <2>1 DEF Consistent, Undisturbed, NoOrphan
<1> QED BY <1>1, ConsistentHolds, PTL

\* A listed peer is in addrToPeer under the address it talks from, with the
\* exceptions ListedIsRouted names.
THEOREM RoutedHolds == Spec => []ListedIsRouted
<1>1. Consistent => ListedIsRouted
  <2> SUFFICES ASSUME Consistent, NEW i \in Listed, i \notin overlapped, i \notin moved
               PROVE  route[obj[table[i]].link] = i \/ Busy(i)
    BY DEF ListedIsRouted
  <2>1. i \in Ids /\ table[i] # None BY DEF Listed
  <2>2. Routed(i) BY <2>1 DEF Consistent, Undisturbed
  <2> QED BY <2>1, <2>2 DEF Routed, Busy, Removing, Working, Under
<1> QED BY <1>1, ConsistentHolds, PTL

----------------------------------------------------------------------------
(* The number of peers.                                                    *)

\* The readers are finitely many and the one of the UDP socket is among them.
LEMMA ReadersFinite ==
    IsFiniteSet(Readers) /\ Cardinality(Readers) \in Nat /\ Cardinality(Readers) >= 1
<1>1. IsFiniteSet({Udp}) /\ Cardinality({Udp}) = 1 BY FS_Singleton
<1>2. IsFiniteSet(Readers) BY <1>1, FS_Union, PeerTableAssumption DEF Readers
<1>3. Cardinality({Udp}) <= Cardinality(Readers)
  <2>1. {Udp} \subseteq Readers BY DEF Readers
  <2> QED BY <1>2, <2>1, FS_Subset
<1>4. Cardinality(Readers) \in Nat BY <1>2, FS_CardinalityType
<1> QED BY <1>1, <1>2, <1>3, <1>4

\* The peers listed and the readers about to add one can be counted.
LEMMA Counted ==
    /\ IsFiniteSet(Listed) /\ Count \in Nat
    /\ IsFiniteSet(Adding) /\ Cardinality(Adding) \in Nat
    /\ Cardinality(Adding) <= Cardinality(Readers)
<1>1. IsFiniteSet(Listed)
  <2>1. Listed \subseteq Ids BY DEF Listed
  <2> QED BY <2>1, FS_Subset, PeerTableAssumption
<1>2. Count \in Nat BY <1>1, FS_CardinalityType DEF Count
<1>3. Adding \subseteq Readers BY DEF Adding
<1>4. IsFiniteSet(Adding) /\ Cardinality(Adding) <= Cardinality(Readers)
  BY <1>3, ReadersFinite, FS_Subset
<1>5. Cardinality(Adding) \in Nat BY <1>4, FS_CardinalityType
<1> QED BY <1>1, <1>2, <1>4, <1>5

\* Neither a listed peer more nor a reader more that is about to add one.
LEMMA FewerCount ==
    ASSUME RoomLeft, Listed' \subseteq Listed, Adding' \subseteq Adding
    PROVE  RoomLeft'
<1>1. Cardinality(Listed') <= Cardinality(Listed) /\ Cardinality(Listed') \in Nat
  <2>1. IsFiniteSet(Listed') BY Counted, FS_Subset
  <2> QED BY <2>1, Counted, FS_Subset, FS_CardinalityType
<1>2. Cardinality(Adding') <= Cardinality(Adding) /\ Cardinality(Adding') \in Nat
  <2>1. IsFiniteSet(Adding') BY Counted, FS_Subset
  <2> QED BY <2>1, Counted, FS_Subset, FS_CardinalityType
<1>3. Count' = Cardinality(Listed') /\ Count = Cardinality(Listed) BY DEF Count
<1>4. Cardinality(Readers) \in Nat /\ MaxPeers \in Nat BY ReadersFinite, PeerTableAssumption
<1>5. Count \in Nat /\ Cardinality(Adding) \in Nat BY Counted
<1> QED BY <1>1, <1>2, <1>3, <1>4, <1>5, SMT DEF RoomLeft

\* The peers listed and those about to be are bounded in every step.
LEMMA RoomStep ==
    ASSUME Consistent, RoomLeft, [Next]_vars
    PROVE  RoomLeft'
<1> USE PeerTableAssumption
<1>0. TypeOK /\ Known BY DEF Consistent
<1>1. ASSUME NEW l \in Links, Established(l) PROVE RoomLeft'
  <2>1. Listed' \subseteq Listed BY <1>1 DEF Established, Listed
  <2>2. Reader(l) \in Readers BY ReaderType
  <2>3. \A r \in Readers : r # Reader(l) => work'[r] = work[r]
    BY <1>0, <1>1, <2>2 DEF Established, TypeOK
  <2>4. work'[Reader(l)].pc # "add" BY <1>0, <1>1, <2>2 DEF Established, TypeOK
  <2>5. Adding' \subseteq Adding BY <2>3, <2>4 DEF Adding
  <2> QED BY <2>1, <2>5, FewerCount
<1>2. ASSUME NEW r \in Readers, CheckMaxPeers(r) PROVE RoomLeft'
  <2>1. CASE Count >= MaxPeers
    <3>1. Listed' \subseteq Listed BY <1>2 DEF CheckMaxPeers, Listed
    <3>2. work' = [work EXCEPT ![r] = None] BY <1>2, <2>1 DEF CheckMaxPeers
    <3>3. Adding' \subseteq Adding BY <1>0, <3>2 DEF Adding, TypeOK
    <3> QED BY <3>1, <3>3, FewerCount
  <2>2. CASE ~(Count >= MaxPeers)
    <3>1. Count' = Count BY <1>2 DEF CheckMaxPeers, Count, Listed
    <3>2. Adding' \subseteq Readers BY DEF Adding
    <3>3. Cardinality(Adding') <= Cardinality(Readers) /\ Cardinality(Adding') \in Nat
      <4>1. IsFiniteSet(Adding') BY <3>2, ReadersFinite, FS_Subset
      <4> QED BY <3>2, <4>1, ReadersFinite, FS_Subset, FS_CardinalityType
    <3>4. Count \in Nat /\ Cardinality(Readers) \in Nat BY Counted, ReadersFinite
    <3> QED BY <2>2, <3>1, <3>3, <3>4, SMT DEF RoomLeft
  <2> QED BY <2>1, <2>2
<1>3. ASSUME NEW r \in Readers, NEW o \in Objects, Add(r, o) PROVE RoomLeft'
  <2>1. /\ work'[r].pc = "route"
        /\ \A q \in Readers : q # r => work'[q] = work[q]
    BY <1>0, <1>3, WorkMoves DEF Add
  <2>2. r \in Adding BY <1>3 DEF Adding, Add
  <2>3. Adding' = Adding \ {r} BY <2>1 DEF Adding
  <2>4. Cardinality(Adding') = Cardinality(Adding) - 1 BY <2>2, <2>3, Counted, FS_RemoveElement
  <2>5. Listed' \subseteq Listed \cup {Owner[work[r].link]}
    BY <1>0, <1>3 DEF Add, Listed, TypeOK
  <2>6. IsFiniteSet(Listed \cup {Owner[work[r].link]})
        /\ Cardinality(Listed \cup {Owner[work[r].link]}) \in Nat
        /\ Cardinality(Listed \cup {Owner[work[r].link]}) <= Cardinality(Listed) + 1
    <3>1. IsFiniteSet(Listed) /\ Cardinality(Listed) \in Nat BY Counted, FS_CardinalityType
    <3>2. IsFiniteSet(Listed \cup {Owner[work[r].link]})
          /\ Cardinality(Listed \cup {Owner[work[r].link]}) =
               IF Owner[work[r].link] \in Listed THEN Cardinality(Listed) ELSE Cardinality(Listed) + 1
      BY <3>1, FS_AddElement
    <3> QED BY <3>1, <3>2, SMT
  <2>7. Cardinality(Listed') \in Nat
        /\ Cardinality(Listed') <= Cardinality(Listed \cup {Owner[work[r].link]})
    <3>1. IsFiniteSet(Listed') BY <2>5, <2>6, FS_Subset
    <3> QED BY <2>5, <2>6, <3>1, FS_Subset, FS_CardinalityType
  <2>8. Count' = Cardinality(Listed') /\ Count = Cardinality(Listed) /\ Count \in Nat
    BY Counted DEF Count
  <2>9. Count' <= Count + 1 /\ Count' \in Nat BY <2>6, <2>7, <2>8, SMT
  <2>10. Cardinality(Adding) \in Nat /\ Cardinality(Readers) \in Nat BY Counted, ReadersFinite
  <2> QED BY <2>4, <2>8, <2>9, <2>10, SMT DEF RoomLeft
<1>4. ASSUME NEW r \in Readers, SetRoute(r) \/ handleExistingPeer(r) PROVE RoomLeft'
  <2>1. Listed' \subseteq Listed BY <1>4 DEF SetRoute, handleExistingPeer, Listed
  <2>2. \A q \in Readers : q # r => work'[q] = work[q]
    BY <1>0, <1>4 DEF SetRoute, handleExistingPeer, TypeOK
  <2>3. work'[r] = None \/ work'[r].pc = "route"
    <3>1. CASE work' = [work EXCEPT ![r] = None] BY <1>0, <3>1 DEF TypeOK
    <3>2. CASE work[r] # None /\ work' = [work EXCEPT ![r].pc = "route"]
      BY <1>0, <3>2, WorkMoves
    <3> QED BY <1>4, <3>1, <3>2 DEF SetRoute, handleExistingPeer
  <2>4. Adding' \subseteq Adding BY <2>2, <2>3 DEF Adding
  <2> QED BY <2>1, <2>4, FewerCount
<1>5. ASSUME UNCHANGED work, \A i \in Ids : table'[i] \in {table[i], None} PROVE RoomLeft'
  <2>1. Listed' \subseteq Listed /\ Adding' \subseteq Adding BY <1>5 DEF Listed, Adding
  <2> QED BY <2>1, FewerCount
<1>6. ASSUME NEW w \in Removals, RemoveClose(w) \/ RemoveRoutes(w) \/ Remove(w) PROVE RoomLeft'
  BY <1>0, <1>5, <1>6 DEF RemoveClose, RemoveRoutes, Remove, TypeOK
<1>7. ASSUME NEW w \in Removals, NEW i \in Ids, RemoveStart(w, i) PROVE RoomLeft'
  BY <1>5, <1>7 DEF RemoveStart
<1>8. ASSUME NEW l \in TcpLinks, EndTCP(l) PROVE RoomLeft'
  BY <1>5, <1>8 DEF EndTCP
<1>9. ASSUME NEW o \in Objects, UpgradePeer(o) PROVE RoomLeft'
  BY <1>5, <1>9 DEF UpgradePeer
<1>10. CASE cleanupStaleMappings \/ UNCHANGED vars
  BY <1>5, <1>10 DEF cleanupStaleMappings, vars
<1> QED BY StepCases, <1>1, <1>2, <1>3, <1>4, <1>6, <1>7, <1>8, <1>9, <1>10

\* The table holds at most MaxPeers, plus one for each reader but one: the
\* check of Config.MaxPeers and Peers.Add are not one step.
THEOREM CountHolds == Spec => []CountBound
<1>1. Init => RoomLeft
  <2> SUFFICES ASSUME Init PROVE RoomLeft OBVIOUS
  <2>1. Listed = {} /\ Adding = {} BY DEF Init, Listed, Adding
  <2>2. Count = 0 /\ Cardinality(Adding) = 0 BY <2>1, FS_EmptySet DEF Count
  <2> QED BY <2>2, ReadersFinite, PeerTableAssumption, SMT DEF RoomLeft
<1>2. Consistent /\ RoomLeft /\ [Next]_vars => RoomLeft' BY RoomStep
<1>3. RoomLeft => CountBound
  BY Counted, ReadersFinite, PeerTableAssumption, SMT DEF RoomLeft, CountBound
<1> QED BY <1>1, <1>2, <1>3, ConsistentHolds, PTL DEF Spec
=============================================================================
