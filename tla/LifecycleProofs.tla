-------------------------- MODULE LifecycleProofs --------------------------
(***************************************************************************)
(* Starting and stopping a node, for any peers and any number of sessions: *)
(* the inductive invariants behind PanicNeedsRace, SessionHasHandler and   *)
(* NothingLeftOpen of Lifecycle and Mux, and their proofs.                 *)
(***************************************************************************)
EXTENDS Lifecycle, TLAPS

Opening == {"startUDP", "startTCP", "start", "rollback", "rollbackWait"}
AfterMux == {"listener", "kcp", "kcpSessions", "kcpWait", "wait"}
Closing == {"mux", "muxWait"} \cup AfterMux

\* What is open at each position of a call ...
OpenAt ==
    /\ call \in {Idle, "stop", "goodbye"} \cup Opening \cup Closing
    /\ socket \in {"none", "open", "closed"}
    /\ kcpUp => started \/ closed
    /\ closing => closed
    /\ closed /\ call = Idle => closing
    /\ call \in {"stop", "goodbye"} => closed
    /\ call = "goodbye" => ~closing
    /\ call \in Closing => closing
    /\ call \in Opening => ~started /\ ~closed
    /\ call \in {Idle, "startUDP"} /\ ~started /\ ~closed => socket = "none"
    /\ socket = "none" => ~listening
    /\ call \in {"startTCP", "rollback", "rollbackWait"} => ~listening
    /\ call \in {"rollbackWait", "muxWait"} => muxClosed
    /\ call \in {"startTCP", "start", "rollback", "rollbackWait"} => socket = "open"
    /\ call = "muxWait" => socket = "closed"
    /\ call \in AfterMux => socket # "open"
    /\ call \in AfterMux \ {"listener"} => ~listening
    /\ call \in {Idle, "stop"} /\ closing => socket # "open" /\ ~listening

\* ... and which goroutines run.
RunAt ==
    /\ loops \subseteq {"mux", "kcp"} \cup Background
    /\ "kcp" \in loops => kcpUp
    /\ socket = "none" => loops = {}
    /\ call \in {"startTCP", "start", "rollback", "rollbackWait"} => loops \subseteq {"mux"}
    /\ call \in AfterMux => "mux" \notin loops
    /\ call = "wait" => "kcp" \notin loops
    /\ call \in {Idle, "stop"} /\ closing => loops = {}

Positions == OpenAt /\ RunAt

\* Numbers are given once, and a handler in the map is open and the map's own.
Handlers ==
    /\ used \in 0..MaxSessions
    /\ handlers \in [Peers -> 0..used] /\ shut \subseteq 1..used
    /\ hold \in {None, Packet, Base} \cup 1..used
    /\ \A p, q \in Peers : handlers[p] = handlers[q] /\ handlers[p] # None => p = q
    /\ baseShut => muxClosed /\ "mux" \notin loops
    /\ \A p \in Peers : handlers[p] \in shut => baseShut
    /\ hold # None => "mux" \in loops
    /\ hold \in shut => raced
    /\ panicked => raced

\* A dial that nothing crosses is the only one, and its handler stays.
DialAt(p) ==
    /\ \A i \in dialing[p] \ crossed :
          dialing[p] = {i} /\ handlers[p] = i /\ sessions[p] = None /\ removing[p] = 0
    /\ sessions[p] # None /\ sessions[p] \notin crossed =>
          dialing[p] = {} /\ handlers[p] = sessions[p] /\ removing[p] = 0

DialTypes ==
    /\ sessions \in [Peers -> 0..used] /\ dialing \in [Peers -> SUBSET (1..used)]
    /\ removing \in [Peers -> Nat] /\ crossed \subseteq 1..used

Quiet ==
    ~kcpUp => \A p \in Peers :
        handlers[p] = None /\ sessions[p] = None /\ dialing[p] = {} /\ removing[p] = 0

Dials == DialTypes /\ Quiet /\ \A p \in Peers : DialAt(p)

IInv == Positions /\ Handlers /\ Dials

----------------------------------------------------------------------------
(* The positions of a call.                                                *)

\* First-order reasoning suffices for most leaves; those that need records or
\* arithmetic cite SMT.
USE Zenon

\* A step of the mux or of KCP starts no goroutine that is waited for.
LEMMA MuxKeeps ==
    ASSUME MuxStep
    PROVE  loops' \subseteq loops /\ UNCHANGED <<muxClosed, baseShut, kcpUp>>
<1>1. CASE Receive \/ routePacket \/ enqueuePacket \/ readLoopEnds \/ acceptLoopEnds
  BY <1>1 DEF Receive, routePacket, enqueuePacket, readLoopEnds, acceptLoopEnds, muxVars, kcpVars
<1>2. ASSUME NEW p \in Peers, RegisterKCPHandler(p) \/ RemoveSession(p) \/ RemoveHandler(p)
      PROVE  loops' \subseteq loops /\ UNCHANGED <<muxClosed, baseShut, kcpUp>>
  BY <1>2 DEF RegisterKCPHandler, RemoveSession, RemoveHandler, muxVars
<1>3. ASSUME NEW p \in Peers, AcceptKCP(p) \/ Accept(p)
      PROVE  loops' \subseteq loops /\ UNCHANGED <<muxClosed, baseShut, kcpUp>>
  BY <1>3 DEF AcceptKCP, Accept, muxVars
<1>4. ASSUME NEW p \in Peers, NEW i \in dialing[p], UpgradePeer(p, i) \/ DialFails(p, i)
      PROVE  loops' \subseteq loops /\ UNCHANGED <<muxClosed, baseShut, kcpUp>>
  BY <1>4 DEF UpgradePeer, DialFails, muxVars
<1>5. ASSUME NEW i \in Numbers, handleSession(i)
      PROVE  loops' \subseteq loops /\ UNCHANGED <<muxClosed, baseShut, kcpUp>>
  BY <1>5 DEF handleSession, muxVars
<1> QED BY <1>1, <1>2, <1>3, <1>4, <1>5 DEF MuxStep

\* Every step leaves open what the position it leads to says.
LEMMA OpenStep ==
    ASSUME Positions, [Next]_vars
    PROVE  OpenAt'
<1> USE DEF OpenAt, Idle, Opening, AfterMux, Closing
<1>0. OpenAt BY DEF Positions
<1>1. CASE Start BY <1>0, <1>1 DEF Start, muxVars, kcpVars
<1>2. CASE Stop BY <1>0, <1>2 DEF Stop, muxVars, kcpVars
<1>3. CASE GracefulStop BY <1>0, <1>3 DEF GracefulStop, muxVars, kcpVars
<1>4. CASE startUDP BY <1>0, <1>4 DEF startUDP, muxVars, kcpVars
<1>5. CASE startTCP BY <1>0, <1>5 DEF startTCP, muxVars, kcpVars
<1>6. CASE closeOnStartFailure
  BY <1>0, <1>6, SMT DEF closeOnStartFailure, CloseSocket, CloseChannels, kcpVars
<1>7. CASE startLoops BY <1>0, <1>7 DEF startLoops, muxVars
<1>8. CASE TakePeers \/ CloseClosing
  <2>1. CASE TakePeers BY <1>0, <2>1 DEF TakePeers, muxVars, kcpVars
  <2>2. CASE CloseClosing BY <1>0, <2>2 DEF CloseClosing, muxVars, kcpVars
  <2> QED BY <1>8, <2>1, <2>2
<1>9. CASE CloseMux BY <1>0, <1>9, SMT DEF CloseMux, CloseSocket, CloseChannels, muxVars, kcpVars
<1>10. CASE CloseListener BY <1>0, <1>10 DEF CloseListener, muxVars, kcpVars
<1>11. CASE CloseKCP
  BY <1>0, <1>11, SMT DEF CloseKCP, CloseManager, CloseSessions, muxVars, kcpVars
<1>12. CASE Wait BY <1>0, <1>12 DEF Wait, muxVars, kcpVars
<1>13. CASE UNCHANGED <<muxClosed, kcpUp, nodeVars>> BY <1>0, <1>13 DEF nodeVars
<1>14. ASSUME NEW l \in Background, LoopEnds(l) PROVE OpenAt'
  BY <1>13, <1>14 DEF LoopEnds, muxVars, kcpVars
<1>15. CASE MuxStep /\ UNCHANGED nodeVars BY <1>13, <1>15, MuxKeeps
<1>16. CASE UNCHANGED vars BY <1>13, <1>16 DEF vars, muxVars, kcpVars
<1>17. ASSUME NEW p \in Peers, PeerStep(p) \/ Stall(p) \/ Unstall(p) PROVE OpenAt'
  <2>1. UNCHANGED <<muxClosed, kcpUp, started, closed, call, closing, socket, listening>>
    BY <1>17 DEF PeerStep, Goodbye, ClosePeer, Stall, Unstall, muxVars, kcpVars
  <2> QED BY <1>0, <2>1
<1> QED
  BY <1>1, <1>2, <1>3, <1>4, <1>5, <1>6, <1>7, <1>8, <1>9, <1>10, <1>11, <1>12, <1>14, <1>15,
     <1>16, <1>17 DEF Next, CallStep

\* Every step leaves running what the position it leads to says.
LEMMA RunStep ==
    ASSUME Positions, [Next]_vars
    PROVE  RunAt'
<1> USE DEF RunAt, OpenAt, Idle, Opening, AfterMux, Closing, Background
<1>0. OpenAt /\ RunAt BY DEF Positions
<1>1. CASE Start BY <1>0, <1>1 DEF Start, muxVars, kcpVars
<1>2. CASE Stop BY <1>0, <1>2 DEF Stop, muxVars, kcpVars
<1>3. CASE GracefulStop BY <1>0, <1>3 DEF GracefulStop, muxVars, kcpVars
<1>4. CASE startUDP BY <1>0, <1>4 DEF startUDP, muxVars, kcpVars
<1>5. CASE startTCP BY <1>0, <1>5 DEF startTCP, muxVars, kcpVars
<1>6. CASE closeOnStartFailure
  BY <1>0, <1>6 DEF closeOnStartFailure, CloseSocket, CloseChannels, kcpVars
<1>7. CASE startLoops BY <1>0, <1>7 DEF startLoops, muxVars
<1>8. CASE TakePeers \/ CloseClosing
  <2>1. CASE TakePeers BY <1>0, <2>1 DEF TakePeers, muxVars, kcpVars
  <2>2. CASE CloseClosing BY <1>0, <2>2 DEF CloseClosing, muxVars, kcpVars
  <2> QED BY <1>8, <2>1, <2>2
<1>9. CASE CloseMux BY <1>0, <1>9 DEF CloseMux, CloseSocket, CloseChannels, muxVars, kcpVars
<1>10. CASE CloseListener BY <1>0, <1>10 DEF CloseListener, muxVars, kcpVars
<1>11. CASE CloseKCP
  BY <1>0, <1>11 DEF CloseKCP, CloseManager, CloseSessions, muxVars, kcpVars
<1>12. CASE Wait BY <1>0, <1>12 DEF Wait, muxVars, kcpVars
<1>13. CASE loops' \subseteq loops /\ UNCHANGED <<kcpUp, nodeVars>> BY <1>0, <1>13 DEF nodeVars
<1>14. ASSUME NEW l \in Background, LoopEnds(l) PROVE RunAt'
  BY <1>13, <1>14 DEF LoopEnds, kcpVars
<1>15. CASE MuxStep /\ UNCHANGED nodeVars BY <1>13, <1>15, MuxKeeps
<1>16. CASE UNCHANGED vars BY <1>13, <1>16 DEF vars, kcpVars
<1>17. ASSUME NEW p \in Peers, PeerStep(p) \/ Stall(p) \/ Unstall(p) PROVE RunAt'
  <2>1. UNCHANGED <<loops, kcpUp, started, closed, call, closing, socket, listening>>
    BY <1>17 DEF PeerStep, Goodbye, ClosePeer, Stall, Unstall, kcpVars
  <2> QED BY <1>0, <2>1
<1> QED
  BY <1>1, <1>2, <1>3, <1>4, <1>5, <1>6, <1>7, <1>8, <1>9, <1>10, <1>11, <1>12, <1>14, <1>15,
     <1>16, <1>17 DEF Next, CallStep

\* A node begins with nothing open.
LEMMA PositionsInit ==
    ASSUME Init
    PROVE  Positions
BY DEF Init, MuxInit, Positions, OpenAt, RunAt, Idle, Opening, AfterMux, Closing, Background

----------------------------------------------------------------------------
(* Handlers.                                                               *)

\* Handlers are untouched by a step that leaves the mux alone.
LEMMA HandlersAlone ==
    ASSUME Handlers, UNCHANGED <<muxVars, raced, panicked>>,
           used' \in used..MaxSessions, "mux" \in loops' <=> "mux" \in loops
    PROVE  Handlers'
<1> USE MuxAssumption DEF Handlers, muxVars
<1>1. used' \in 0..MaxSessions BY SMT
<1>2. handlers' \in [Peers -> 0..used'] BY SMT
<1>3. shut' \subseteq 1..used' BY SMT
<1>4. hold' \in {None, Packet, Base} \cup 1..used' BY SMT
<1> QED BY <1>1, <1>2, <1>3, <1>4

\* UnregisterKCPHandler closes what it takes out of the map.
LEMMA HandlersUnregister ==
    ASSUME Handlers, NEW p \in Peers, UnregisterKCPHandler(p),
           UNCHANGED <<loops, muxClosed, baseShut, hold, used, panicked>>
    PROVE  Handlers'
<1>1. /\ used \in 0..MaxSessions /\ used' = used
      /\ handlers \in [Peers -> 0..used] /\ shut \subseteq 1..used
  BY DEF Handlers
<1>2. /\ handlers'[p] = None /\ \A q \in Peers : q # p => handlers'[q] = handlers[q]
      /\ handlers' \in [Peers -> 0..used]
  BY <1>1, MuxAssumption, SMT DEF UnregisterKCPHandler, None
<1>3. shut' = shut \cup ({handlers[p]} \ {None}) /\ shut' \subseteq 1..used
  <2>1. shut' = shut \cup ({handlers[p]} \ {None}) BY DEF UnregisterKCPHandler
  <2>2. handlers[p] # None => handlers[p] \in 1..used BY <1>1, MuxAssumption, SMT DEF None
  <2> QED BY <1>1, <2>1, <2>2
<1>4. \A q, r \in Peers : handlers'[q] = handlers'[r] /\ handlers'[q] # None => q = r
  BY <1>2 DEF Handlers
<1>5. ASSUME NEW q \in Peers, handlers'[q] \in shut' PROVE baseShut'
  <2>1. handlers'[q] # None BY <1>1, <1>3, <1>5, MuxAssumption, SMT DEF None
  <2>2. q # p /\ handlers'[q] = handlers[q] BY <1>2, <2>1
  <2>3. handlers[q] # handlers[p] BY <2>1, <2>2 DEF Handlers
  <2> QED BY <1>3, <1>5, <2>2, <2>3 DEF Handlers
<1>6. hold' \in shut' => raced' BY <1>3 DEF Handlers, UnregisterKCPHandler
<1>7. panicked' => raced' BY DEF Handlers, UnregisterKCPHandler
<1> QED BY <1>1, <1>2, <1>3, <1>4, <1>5, <1>6, <1>7 DEF Handlers

\* The read loop: no channel is closed while it runs but a handler that was
\* unregistered.
LEMMA HandlersRead ==
    ASSUME Handlers, Receive \/ routePacket \/ enqueuePacket \/ readLoopEnds
    PROVE  Handlers'
<1>1. /\ used \in 0..MaxSessions /\ UNCHANGED <<muxClosed, baseShut, handlers, shut, used, raced>>
      /\ handlers \in [Peers -> 0..used] /\ shut \subseteq 1..used
  BY DEF Handlers, Receive, routePacket, enqueuePacket, readLoopEnds, muxVars, kcpVars, history
<1>2. Packet \notin shut /\ None \notin shut BY <1>1, MuxAssumption, SMT DEF Packet, None
<1>3. Packet # None BY MuxAssumption, SMT DEF Packet, None
<1>4. CASE Receive
  <2>1. hold' = Packet /\ "mux" \in loops' /\ UNCHANGED panicked /\ ~baseShut
    BY <1>4 DEF Receive, history, Handlers
  <2> QED BY <1>1, <1>2, <2>1 DEF Handlers
<1>5. CASE routePacket
  <2>1. "mux" \in loops' /\ ~baseShut /\ UNCHANGED <<loops, panicked>>
    BY <1>3, <1>5 DEF routePacket, history, Handlers
  <2>2. CASE hold' = Base
    <3>1. Base \notin shut BY <1>1, MuxAssumption, SMT DEF Base
    <3> QED BY <1>1, <2>1, <2>2, <3>1 DEF Handlers
  <2>3. ASSUME NEW p \in Peers, hold' = handlers[p], handlers[p] # None PROVE Handlers'
    <3>1. hold' \in 1..used BY <1>1, <2>3, MuxAssumption, SMT DEF None
    <3>2. hold' \notin shut BY <2>1, <2>3 DEF Handlers
    <3> QED BY <1>1, <2>1, <3>1, <3>2 DEF Handlers
  <2> QED BY <1>5, <2>2, <2>3 DEF routePacket
<1>6. CASE enqueuePacket
  <2>1. hold # None /\ hold' = None /\ UNCHANGED loops BY <1>6 DEF enqueuePacket
  <2>2. ~baseShut BY <2>1 DEF Handlers
  <2>3. panicked' => hold \in shut BY <1>6, <2>2 DEF enqueuePacket
  <2>4. hold \in shut => raced BY DEF Handlers
  <2> QED BY <1>1, <1>2, <2>1, <2>3, <2>4 DEF Handlers
<1>7. CASE readLoopEnds
  <2>1. hold' = None /\ loops' = loops \ {"mux"} /\ UNCHANGED panicked
    BY <1>7 DEF readLoopEnds, muxVars, history
  <2> QED BY <1>1, <1>2, <2>1 DEF Handlers
<1> QED BY <1>4, <1>5, <1>6, <1>7

\* A dial gets a handler that no one had.
LEMMA HandlersRegister ==
    ASSUME Handlers, NEW p \in Peers, RegisterKCPHandler(p)
    PROVE  Handlers'
<1>1. /\ used \in 0..MaxSessions /\ used < MaxSessions /\ used' = used + 1
      /\ handlers \in [Peers -> 0..used] /\ shut \subseteq 1..used
      /\ UNCHANGED <<loops, muxClosed, baseShut, shut, hold, panicked, raced>>
  BY DEF Handlers, RegisterKCPHandler
<1>2. /\ handlers'[p] = used + 1 /\ \A q \in Peers : q # p => handlers'[q] = handlers[q]
      /\ handlers' \in [Peers -> 0..used']
  BY <1>1, MuxAssumption, SMT DEF RegisterKCPHandler
<1>3. used + 1 \notin shut /\ shut' \subseteq 1..used' /\ used' \in 0..MaxSessions
  BY <1>1, MuxAssumption, SMT
<1>4. \A q \in Peers : handlers[q] # used + 1 BY <1>1, MuxAssumption, SMT
<1>5. \A q, r \in Peers : handlers'[q] = handlers'[r] /\ handlers'[q] # None => q = r
  BY <1>2, <1>4 DEF Handlers
<1>6. \A q \in Peers : handlers'[q] \in shut' => baseShut' BY <1>1, <1>2, <1>3 DEF Handlers
<1>7. hold' \in {None, Packet, Base} \cup 1..used' BY <1>1, MuxAssumption, SMT DEF Handlers
<1> QED BY <1>1, <1>2, <1>3, <1>5, <1>6, <1>7 DEF Handlers

\* UDPMux.Close closes every channel once the read loop has ended.
LEMMA HandlersShut ==
    ASSUME Handlers, CloseChannels, muxClosed, UNCHANGED <<loops, used, panicked, raced>>
    PROVE  Handlers'
<1>1. /\ used \in 0..MaxSessions /\ handlers \in [Peers -> 0..used] /\ shut \subseteq 1..used
      /\ UNCHANGED <<loops, muxClosed, handlers, hold, used, panicked, raced>>
      /\ "mux" \notin loops /\ baseShut'
      /\ shut' = shut \cup ({handlers[p] : p \in Peers} \ {None})
  BY DEF Handlers, CloseChannels
<1>2. hold = None BY <1>1 DEF Handlers
<1>3. shut' \subseteq 1..used /\ None \notin shut'
  <2>1. \A p \in Peers : handlers[p] # None => handlers[p] \in 1..used
    BY <1>1, MuxAssumption, SMT DEF None
  <2>2. shut' \subseteq 1..used BY <1>1, <2>1
  <2>3. None \notin 1..used BY <1>1, MuxAssumption, SMT DEF None
  <2> QED BY <2>2, <2>3
<1> QED BY <1>1, <1>2, <1>3, SMT DEF Handlers

\* KCPTransport.Close takes the handlers of the sessions out of the map; the
\* read loop has ended.
LEMMA HandlersClose ==
    ASSUME Handlers, CloseSessions, "mux" \notin loops
    PROVE  Handlers'
<1> DEFINE gone == {p \in Peers : sessions[p] # None}
<1>1. /\ used \in 0..MaxSessions /\ handlers \in [Peers -> 0..used] /\ shut \subseteq 1..used
      /\ UNCHANGED <<loops, muxClosed, baseShut, hold, used, panicked, raced>>
      /\ handlers' = [p \in Peers |-> IF p \in gone THEN None ELSE handlers[p]]
      /\ shut' = shut \cup ({handlers[p] : p \in gone} \ {None})
  BY DEF Handlers, CloseSessions, history
<1> HIDE DEF gone
<1>2. hold = None BY <1>1 DEF Handlers
<1>3. \A p \in Peers : handlers'[p] = None \/ (handlers'[p] = handlers[p] /\ p \notin gone)
  BY <1>1
<1>4. gone \subseteq Peers BY DEF gone
<1>5. shut' \subseteq 1..used /\ None \notin shut'
  <2>1. \A p \in Peers : handlers[p] # None => handlers[p] \in 1..used
    BY <1>1, MuxAssumption, SMT DEF None
  <2>2. shut' \subseteq 1..used BY <1>1, <1>4, <2>1
  <2>3. None \notin 1..used BY <1>1, MuxAssumption, SMT DEF None
  <2> QED BY <2>2, <2>3
<1>6. handlers' \in [Peers -> 0..used] BY <1>1, MuxAssumption, SMT DEF None
<1>7. \A q, r \in Peers : handlers'[q] = handlers'[r] /\ handlers'[q] # None => q = r
  BY <1>3 DEF Handlers
<1>8. ASSUME NEW q \in Peers, handlers'[q] \in shut' PROVE baseShut'
  <2>1. handlers'[q] # None /\ handlers'[q] = handlers[q] /\ q \notin gone
    BY <1>3, <1>5, <1>8
  <2>2. \A r \in gone : handlers[r] # handlers[q] BY <1>4, <2>1 DEF Handlers
  <2>3. handlers[q] \in shut BY <1>1, <1>8, <2>1, <2>2
  <2> QED BY <1>1, <2>3 DEF Handlers
<1> QED BY <1>1, <1>2, <1>5, <1>6, <1>7, <1>8 DEF Handlers

\* The socket may be closed while the read loop runs.
LEMMA HandlersSocket ==
    ASSUME Handlers, CloseSocket, UNCHANGED <<loops, used, panicked, raced>>
    PROVE  Handlers'
BY DEF Handlers, CloseSocket

\* A new mux finds no handler: there is no KCP transport before Start is done.
LEMMA HandlersOpen ==
    ASSUME Positions, Handlers, Dials, startUDP
    PROVE  Handlers'
<1>1. UNCHANGED <<used, panicked, raced, handlers, shut, hold>> /\ call = "startUDP"
  BY DEF startUDP, kcpVars, history, muxVars
<1>2. CASE UNCHANGED <<loops, muxVars>> BY <1>1, <1>2 DEF Handlers, muxVars
<1>3. CASE loops' = loops \cup {"mux"} /\ ~baseShut'
  <2>1. ~kcpUp BY <1>1 DEF Positions, OpenAt, Opening
  <2>2. \A p \in Peers : handlers[p] = None BY <2>1 DEF Dials, Quiet
  <2>3. None \notin shut BY MuxAssumption, SMT DEF Handlers, None
  <2> QED BY <1>1, <1>3, <2>2, <2>3 DEF Handlers
<1> QED BY <1>2, <1>3 DEF startUDP

\* Every step keeps the handlers in order.
LEMMA HandlersStep ==
    ASSUME Positions, Handlers, Dials, [Next]_vars
    PROVE  Handlers'
<1>1. CASE UNCHANGED <<loops, muxVars, kcpVars, history>>
  <2>1. UNCHANGED <<loops, muxVars, raced, panicked, used>> BY <1>1 DEF kcpVars, history
  <2>2. used' \in used..MaxSessions BY <2>1, MuxAssumption, SMT DEF Handlers
  <2> QED BY <2>1, <2>2, HandlersAlone
<1>2. CASE Start \/ Stop \/ GracefulStop \/ startTCP \/ TakePeers \/ CloseClosing \/ CloseListener
          \/ Wait
  BY <1>1, <1>2 DEF Start, Stop, GracefulStop, startTCP, TakePeers, CloseClosing, CloseListener,
     Wait
<1>3. CASE startUDP BY <1>3, HandlersOpen
<1>4. CASE closeOnStartFailure
  <2>1. UNCHANGED <<loops, used, panicked, raced>>
    BY <1>4 DEF closeOnStartFailure, kcpVars, history
  <2>2. CASE call = "rollback" BY <1>4, <2>1, <2>2, HandlersSocket DEF closeOnStartFailure
  <2>3. CASE call = "rollbackWait"
    <3>1. muxClosed BY <2>3 DEF Positions, OpenAt
    <3>2. CloseChannels BY <1>4, <2>3 DEF closeOnStartFailure
    <3> QED BY <2>1, <3>1, <3>2, HandlersShut
  <2> QED BY <1>4, <2>2, <2>3 DEF closeOnStartFailure
<1>5. CASE startLoops
  <2>1. /\ UNCHANGED <<muxVars, raced, panicked, used>>
        /\ loops' = loops \cup Background \cup (IF kcpUp' THEN {"kcp"} ELSE {})
    BY <1>5 DEF startLoops, history
  <2>2. used' \in used..MaxSessions BY <2>1, MuxAssumption, SMT DEF Handlers
  <2>3. "mux" \in loops' <=> "mux" \in loops BY <2>1 DEF Background
  <2> QED BY <2>1, <2>2, <2>3, HandlersAlone
<1>6. CASE CloseMux
  <2>1. UNCHANGED <<loops, used, panicked, raced>> BY <1>6 DEF CloseMux, kcpVars, history
  <2>2. CASE call = "mux" /\ CloseSocket BY <2>1, <2>2, HandlersSocket
  <2>3. CASE call = "muxWait" /\ CloseChannels
    <3>1. muxClosed BY <2>3 DEF Positions, OpenAt
    <3> QED BY <2>1, <2>3, <3>1, HandlersShut
  <2> QED BY <1>1, <1>6, <2>2, <2>3 DEF CloseMux
<1>7. CASE CloseKCP
  <2>1. CASE CloseManager
    <3>1. UNCHANGED <<loops, muxVars, raced, panicked, used>> BY <2>1 DEF CloseManager, history
    <3>2. used' \in used..MaxSessions BY <3>1, MuxAssumption, SMT DEF Handlers
    <3> QED BY <3>1, <3>2, HandlersAlone
  <2>2. CASE call = "kcpSessions" /\ CloseSessions
    <3>1. "mux" \notin loops BY <2>2 DEF Positions, RunAt, AfterMux
    <3> QED BY <2>2, <3>1, HandlersClose
  <2> QED BY <1>1, <1>7, <2>1, <2>2 DEF CloseKCP
<1>8. ASSUME NEW l \in Background, LoopEnds(l) PROVE Handlers'
  <2>1. UNCHANGED <<muxVars, raced, panicked, used>> /\ loops' = loops \ {l} /\ l # "mux"
    BY <1>8 DEF LoopEnds, kcpVars, history, Background
  <2>2. used' \in used..MaxSessions BY <2>1, MuxAssumption, SMT DEF Handlers
  <2> QED BY <2>1, <2>2, HandlersAlone
<1>9. CASE Receive \/ routePacket \/ enqueuePacket \/ readLoopEnds BY <1>9, HandlersRead
<1>10. CASE acceptLoopEnds
  <2>1. UNCHANGED <<muxVars, raced, panicked, used>> /\ loops' = loops \ {"kcp"}
    BY <1>10 DEF acceptLoopEnds, kcpVars, history
  <2>2. used' \in used..MaxSessions BY <2>1, MuxAssumption, SMT DEF Handlers
  <2> QED BY <2>1, <2>2, HandlersAlone
<1>11. ASSUME NEW p \in Peers, RegisterKCPHandler(p) PROVE Handlers' BY <1>11, HandlersRegister
<1>12. ASSUME NEW p \in Peers, RemoveSession(p) \/ Accept(p) PROVE Handlers'
  <2>1. UNCHANGED <<loops, muxVars, raced, panicked, used>>
    BY <1>12 DEF RemoveSession, Accept, history
  <2>2. used' \in used..MaxSessions BY <2>1, MuxAssumption, SMT DEF Handlers
  <2> QED BY <2>1, <2>2, HandlersAlone
<1>13. ASSUME NEW p \in Peers, AcceptKCP(p) PROVE Handlers'
  <2>1. UNCHANGED <<loops, muxVars, raced, panicked>> /\ used < MaxSessions /\ used' = used + 1
    BY <1>13 DEF AcceptKCP, history
  <2>2. used' \in used..MaxSessions BY <2>1, MuxAssumption, SMT DEF Handlers
  <2> QED BY <2>1, <2>2, HandlersAlone
<1>14. ASSUME NEW p \in Peers, RemoveHandler(p) PROVE Handlers'
  BY <1>14, HandlersUnregister DEF RemoveHandler
<1>15. ASSUME NEW p \in Peers, NEW i \in dialing[p], DialFails(p, i) PROVE Handlers'
  BY <1>15, HandlersUnregister DEF DialFails
<1>16. ASSUME NEW p \in Peers, NEW i \in dialing[p], UpgradePeer(p, i) PROVE Handlers'
  <2>1. UNCHANGED <<loops, muxVars, raced, panicked, used>> BY <1>16 DEF UpgradePeer, history
  <2>2. used' \in used..MaxSessions BY <2>1, MuxAssumption, SMT DEF Handlers
  <2> QED BY <2>1, <2>2, HandlersAlone
<1>17. ASSUME NEW i \in Numbers, handleSession(i) PROVE Handlers'
  <2>1. UNCHANGED <<loops, muxVars, raced, panicked, used>> BY <1>17 DEF handleSession, history
  <2>2. used' \in used..MaxSessions BY <2>1, MuxAssumption, SMT DEF Handlers
  <2> QED BY <2>1, <2>2, HandlersAlone
<1>18. CASE UNCHANGED vars BY <1>1, <1>18 DEF vars
<1>19. ASSUME NEW p \in Peers, PeerStep(p) \/ Stall(p) \/ Unstall(p) PROVE Handlers'
  BY <1>1, <1>19 DEF PeerStep, Goodbye, ClosePeer, Stall, Unstall
<1> QED
  BY <1>2, <1>3, <1>4, <1>5, <1>6, <1>7, <1>8, <1>9, <1>10, <1>11, <1>12, <1>13, <1>14, <1>15,
     <1>16, <1>17, <1>18, <1>19 DEF Next, CallStep, MuxStep

----------------------------------------------------------------------------
(* Dials.                                                                  *)

\* A dial that has been crossed is excused, and stays so.
LEMMA DialElsewhere ==
    ASSUME NEW p \in Peers, DialAt(p), handlers'[p] = handlers[p], sessions'[p] = sessions[p],
           dialing'[p] = dialing[p], removing'[p] = removing[p], crossed \subseteq crossed'
    PROVE  DialAt(p)'
BY DEF DialAt

\* Dials are untouched by a step that changes neither map.
LEMMA DialsSame ==
    ASSUME Handlers, Dials, UNCHANGED <<handlers, sessions, dialing, removing, crossed>>,
           used' \in used..MaxSessions, kcpUp => kcpUp'
    PROVE  Dials'
<1>1. 0..used \subseteq 0..used' /\ 1..used \subseteq 1..used'
  BY MuxAssumption, SMT DEF Handlers
<1>2. DialTypes' BY <1>1 DEF Dials, DialTypes
<1>3. Quiet' BY DEF Dials, Quiet
<1>4. \A p \in Peers : DialAt(p)' BY DialElsewhere DEF Dials
<1> QED BY <1>2, <1>3, <1>4 DEF Dials

\* UpgradePeer registers a handler: the dials it overlaps are crossed, and so
\* is the new one then.
LEMMA DialsRegister ==
    ASSUME Handlers, Dials, NEW p \in Peers, RegisterKCPHandler(p)
    PROVE  Dials'
<1>1. /\ used \in 0..MaxSessions /\ used' = used + 1 /\ kcpUp' /\ sessions[p] = None
      /\ UNCHANGED <<sessions, removing>>
      /\ handlers \in [Peers -> 0..used] /\ sessions \in [Peers -> 0..used]
      /\ dialing \in [Peers -> SUBSET (1..used)] /\ removing \in [Peers -> Nat]
      /\ crossed \subseteq 1..used
  BY DEF Handlers, Dials, DialTypes, RegisterKCPHandler
<1>2. /\ crossed \subseteq crossed' /\ dialing[p] \subseteq crossed'
      /\ removing[p] > 0 \/ dialing[p] # {} => used + 1 \in crossed'
      /\ crossed' \subseteq crossed \cup dialing[p] \cup {used + 1}
  BY DEF RegisterKCPHandler
<1>3. /\ handlers'[p] = used + 1 /\ dialing'[p] = dialing[p] \cup {used + 1}
      /\ \A q \in Peers : q # p => handlers'[q] = handlers[q] /\ dialing'[q] = dialing[q]
  BY <1>1 DEF RegisterKCPHandler
<1>4. DialTypes'
  <2>1. dialing' \in [Peers -> SUBSET (1..used')]
    <3>1. 1..used \subseteq 1..used' /\ used + 1 \in 1..used' BY <1>1, MuxAssumption, SMT
    <3>2. dialing' = [dialing EXCEPT ![p] = dialing[p] \cup {used + 1}] BY DEF RegisterKCPHandler
    <3> QED BY <1>1, <3>1, <3>2
  <2>2. sessions' \in [Peers -> 0..used'] BY <1>1, MuxAssumption, SMT
  <2>3. crossed' \subseteq 1..used' BY <1>1, <1>2, MuxAssumption, SMT
  <2> QED BY <1>1, <2>1, <2>2, <2>3 DEF DialTypes
<1>5. Quiet' BY <1>1 DEF Quiet
<1>6. DialAt(p)'
  <2>1. ASSUME NEW i \in dialing'[p] \ crossed'
        PROVE  i = used + 1 /\ dialing[p] = {} /\ removing[p] = 0
    <3>1. i = used + 1 BY <1>2, <1>3
    <3>2. dialing[p] = {} /\ ~(removing[p] > 0) BY <1>2, <3>1
    <3> QED BY <1>1, <3>1, <3>2, SMT
  <2>2. ASSUME NEW i \in dialing'[p] \ crossed'
        PROVE  dialing'[p] = {i} /\ handlers'[p] = i /\ sessions'[p] = None /\ removing'[p] = 0
    BY <1>1, <1>3, <2>1
  <2> QED BY <1>1, <2>2 DEF DialAt
<1>7. \A q \in Peers : q # p => DialAt(q)' BY <1>1, <1>2, <1>3, DialElsewhere DEF Dials
<1> QED BY <1>4, <1>5, <1>6, <1>7 DEF Dials

\* The dial succeeds and its session is the one that is used.
LEMMA DialsUpgrade ==
    ASSUME Handlers, Dials, NEW p \in Peers, NEW i \in dialing[p], UpgradePeer(p, i)
    PROVE  Dials'
<1>1. /\ used \in 0..MaxSessions /\ UNCHANGED <<kcpUp, used, handlers, removing, crossed>>
      /\ sessions \in [Peers -> 0..used]
      /\ dialing \in [Peers -> SUBSET (1..used)] /\ removing \in [Peers -> Nat]
      /\ crossed \subseteq 1..used /\ i \in 1..used
  BY DEF Handlers, Dials, DialTypes, UpgradePeer, muxVars, history
<1>2. /\ sessions'[p] = i /\ dialing'[p] = dialing[p] \ {i}
      /\ \A q \in Peers : q # p => sessions'[q] = sessions[q] /\ dialing'[q] = dialing[q]
  BY <1>1 DEF UpgradePeer
<1>3. DialTypes'
  <2>1. sessions' \in [Peers -> 0..used] BY <1>1, MuxAssumption, SMT DEF UpgradePeer
  <2>2. dialing' \in [Peers -> SUBSET (1..used)] BY <1>1 DEF UpgradePeer
  <2> QED BY <1>1, <2>1, <2>2 DEF DialTypes
<1>4. Quiet' BY <1>1 DEF Dials, Quiet
<1>5. \A j \in dialing[p] \ crossed :
         dialing[p] = {j} /\ handlers[p] = j /\ sessions[p] = None /\ removing[p] = 0
  BY DEF Dials, DialAt
<1>6. DialAt(p)'
  <2>1. dialing'[p] \ crossed' = {} BY <1>1, <1>2, <1>5
  <2>2. i \notin crossed => dialing'[p] = {} /\ handlers'[p] = i /\ removing'[p] = 0
    BY <1>1, <1>2, <1>5
  <2> QED BY <1>1, <1>2, <2>1, <2>2 DEF DialAt
<1>7. \A q \in Peers : q # p => DialAt(q)' BY <1>1, <1>2, DialElsewhere DEF Dials
<1> QED BY <1>3, <1>4, <1>6, <1>7 DEF Dials

\* The dial fails and unregisters what is there.
LEMMA DialsFail ==
    ASSUME Handlers, Dials, NEW p \in Peers, NEW i \in dialing[p], DialFails(p, i)
    PROVE  Dials'
<1>1. /\ used \in 0..MaxSessions /\ UNCHANGED <<kcpUp, used, sessions, removing, crossed>>
      /\ handlers \in [Peers -> 0..used] /\ dialing \in [Peers -> SUBSET (1..used)]
  BY DEF Handlers, Dials, DialTypes, DialFails
<1>2. /\ dialing'[p] = dialing[p] \ {i}
      /\ \A q \in Peers : q # p => handlers'[q] = handlers[q] /\ dialing'[q] = dialing[q]
  BY <1>1 DEF DialFails, UnregisterKCPHandler
<1>3. DialTypes'
  <2>1. dialing' \in [Peers -> SUBSET (1..used)]
    <3>1. dialing' = [dialing EXCEPT ![p] = dialing[p] \ {i}] BY DEF DialFails
    <3>2. dialing[p] \ {i} \in SUBSET (1..used) BY <1>1
    <3> QED BY <1>1, <3>1, <3>2
  <2> QED BY <1>1, <2>1 DEF Dials, DialTypes
<1>4. Quiet' BY <1>1 DEF Dials, Quiet
<1>5. \A j \in dialing[p] \ crossed : dialing[p] = {j} BY DEF Dials, DialAt
<1>6. sessions[p] # None => sessions[p] \in crossed BY DEF Dials, DialAt
<1>7. DialAt(p)'
  <2>1. dialing'[p] \ crossed' = {} BY <1>1, <1>2, <1>5
  <2> QED BY <1>1, <1>6, <2>1 DEF DialAt
<1>8. \A q \in Peers : q # p => DialAt(q)' BY <1>1, <1>2, DialElsewhere DEF Dials
<1> QED BY <1>3, <1>4, <1>7, <1>8 DEF Dials

\* RemoveSession crosses the dials of its address, and its second half finds
\* no other session or dial that counts on its handler.
LEMMA DialsRemove ==
    ASSUME Handlers, Dials, NEW p \in Peers, RemoveSession(p) \/ RemoveHandler(p)
    PROVE  Dials'
<1>1. /\ used \in 0..MaxSessions /\ UNCHANGED <<kcpUp, used, dialing>>
      /\ handlers \in [Peers -> 0..used] /\ sessions \in [Peers -> 0..used]
      /\ dialing \in [Peers -> SUBSET (1..used)] /\ removing \in [Peers -> Nat]
      /\ crossed \subseteq 1..used
  BY DEF Handlers, Dials, DialTypes, RemoveSession, RemoveHandler
<1>2. CASE RemoveSession(p)
  <2>1. /\ UNCHANGED handlers /\ sessions'[p] = None /\ crossed' = crossed \cup dialing[p]
        /\ \A q \in Peers : q # p => sessions'[q] = sessions[q] /\ removing'[q] = removing[q]
    BY <1>1, <1>2 DEF RemoveSession, muxVars
  <2>2. DialTypes'
    <3>1. sessions' \in [Peers -> 0..used] BY <1>1, <1>2, MuxAssumption, SMT DEF RemoveSession, None
    <3>2. removing' \in [Peers -> Nat] BY <1>1, <1>2, SMT DEF RemoveSession
    <3>3. crossed' \subseteq 1..used BY <1>1, <2>1
    <3> QED BY <1>1, <3>1, <3>2, <3>3 DEF DialTypes
  <2>3. Quiet' BY <1>1, <1>2, SMT DEF Dials, Quiet, RemoveSession
  <2>4. DialAt(p)' BY <1>1, <2>1 DEF DialAt
  <2>5. \A q \in Peers : q # p => DialAt(q)' BY <1>1, <2>1, DialElsewhere DEF Dials
  <2> QED BY <2>2, <2>3, <2>4, <2>5 DEF Dials
<1>3. CASE RemoveHandler(p)
  <2>1. /\ UNCHANGED <<sessions, crossed>> /\ removing[p] > 0
        /\ \A q \in Peers : q # p => handlers'[q] = handlers[q] /\ removing'[q] = removing[q]
    BY <1>1, <1>3 DEF RemoveHandler, UnregisterKCPHandler
  <2>2. removing[p] # 0 BY <1>1, <2>1, SMT
  <2>3. DialTypes'
    <3>1. removing' \in [Peers -> Nat] BY <1>1, <1>3, SMT DEF RemoveHandler
    <3> QED BY <1>1, <2>1, <3>1 DEF DialTypes
  <2>4. Quiet' BY <1>1, <2>2 DEF Dials, Quiet
  <2>5. DialAt(p)' BY <1>1, <2>1, <2>2 DEF Dials, DialAt
  <2>6. \A q \in Peers : q # p => DialAt(q)' BY <1>1, <2>1, DialElsewhere DEF Dials
  <2> QED BY <2>3, <2>4, <2>5, <2>6 DEF Dials
<1> QED BY <1>2, <1>3

\* KCPTransport.Close leaves the handlers of dials alone.
LEMMA DialsClose ==
    ASSUME Handlers, Dials, CloseSessions
    PROVE  Dials'
<1>1. /\ used \in 0..MaxSessions /\ UNCHANGED <<kcpUp, used, dialing, removing, crossed>>
      /\ handlers \in [Peers -> 0..used]
      /\ sessions' = [p \in Peers |-> None]
      /\ \A p \in Peers : handlers'[p] = IF sessions[p] # None THEN None ELSE handlers[p]
  BY DEF Handlers, CloseSessions, history
<1>2. DialTypes' BY <1>1, MuxAssumption, SMT DEF Dials, DialTypes, None
<1>3. Quiet' BY <1>1 DEF Dials, Quiet
<1>4. ASSUME NEW p \in Peers PROVE DialAt(p)'
  <2>1. DialAt(p) BY DEF Dials
  <2> QED BY <1>1, <2>1 DEF DialAt
<1> QED BY <1>2, <1>3, <1>4 DEF Dials

\* Every step keeps the promise to dials that nothing crosses.
LEMMA DialsStep ==
    ASSUME Positions, Handlers, Dials, [Next]_vars
    PROVE  Dials'
<1>1. CASE UNCHANGED <<handlers, kcpVars, crossed>>
  <2>1. UNCHANGED <<handlers, sessions, dialing, removing, crossed, used, kcpUp>>
    BY <1>1 DEF kcpVars
  <2>2. used' \in used..MaxSessions BY <2>1, MuxAssumption, SMT DEF Handlers
  <2> QED BY <2>1, <2>2, DialsSame
<1>2. CASE Start \/ Stop \/ GracefulStop \/ startTCP \/ TakePeers \/ CloseClosing \/ CloseListener
          \/ Wait
  BY <1>1, <1>2 DEF Start, Stop, GracefulStop, startTCP, TakePeers, CloseClosing, CloseListener,
     Wait, muxVars, history
<1>3. CASE startUDP \/ closeOnStartFailure \/ CloseMux
  BY <1>1, <1>3 DEF startUDP, closeOnStartFailure, CloseMux, CloseSocket, CloseChannels,
     muxVars, history
<1>4. CASE startLoops
  <2>1. UNCHANGED <<handlers, sessions, dialing, removing, crossed, used>> /\ call = "start"
    BY <1>4 DEF startLoops, muxVars, history
  <2>2. ~kcpUp BY <2>1 DEF Positions, OpenAt, Opening
  <2>3. used' \in used..MaxSessions BY <2>1, MuxAssumption, SMT DEF Handlers
  <2> QED BY <2>1, <2>2, <2>3, DialsSame
<1>5. CASE CloseKCP
  <2>1. CASE CloseManager
    <3>1. UNCHANGED <<handlers, sessions, dialing, removing, crossed, used, kcpUp>>
      BY <2>1 DEF CloseManager, muxVars, history
    <3>2. used' \in used..MaxSessions BY <3>1, MuxAssumption, SMT DEF Handlers
    <3> QED BY <3>1, <3>2, DialsSame
  <2>2. CASE CloseSessions BY <2>2, DialsClose
  <2> QED BY <1>1, <1>5, <2>1, <2>2 DEF CloseKCP, muxVars, history
<1>6. ASSUME NEW l \in Background, LoopEnds(l) PROVE Dials'
  BY <1>1, <1>6 DEF LoopEnds, muxVars, history
<1>7. CASE Receive \/ routePacket \/ enqueuePacket \/ readLoopEnds \/ acceptLoopEnds
  BY <1>1, <1>7 DEF Receive, routePacket, enqueuePacket, readLoopEnds, acceptLoopEnds,
     muxVars, history
<1>8. ASSUME NEW p \in Peers, RegisterKCPHandler(p) PROVE Dials' BY <1>8, DialsRegister
<1>9. ASSUME NEW p \in Peers, RemoveSession(p) \/ RemoveHandler(p) PROVE Dials'
  BY <1>9, DialsRemove
<1>10. ASSUME NEW p \in Peers, AcceptKCP(p) \/ Accept(p) PROVE Dials'
  <2>1. /\ UNCHANGED <<handlers, sessions, dialing, removing, crossed, kcpUp>>
        /\ used' = used \/ (used < MaxSessions /\ used' = used + 1)
    BY <1>10 DEF AcceptKCP, Accept, muxVars, history
  <2>2. used' \in used..MaxSessions BY <2>1, MuxAssumption, SMT DEF Handlers
  <2> QED BY <2>1, <2>2, DialsSame
<1>11. ASSUME NEW p \in Peers, NEW i \in dialing[p], UpgradePeer(p, i) \/ DialFails(p, i)
       PROVE  Dials'
  BY <1>11, DialsUpgrade, DialsFail
<1>12. ASSUME NEW i \in Numbers, handleSession(i) PROVE Dials'
  <2>1. UNCHANGED <<handlers, sessions, dialing, removing, crossed, used, kcpUp>>
    BY <1>12 DEF handleSession, muxVars, history
  <2>2. used' \in used..MaxSessions BY <2>1, MuxAssumption, SMT DEF Handlers
  <2> QED BY <2>1, <2>2, DialsSame
<1>13. CASE UNCHANGED vars BY <1>1, <1>13 DEF vars, muxVars, history
<1>14. ASSUME NEW p \in Peers, PeerStep(p) \/ Stall(p) \/ Unstall(p) PROVE Dials'
  BY <1>1, <1>14 DEF PeerStep, Goodbye, ClosePeer, Stall, Unstall, muxVars, history
<1> QED
  BY <1>2, <1>3, <1>4, <1>5, <1>6, <1>7, <1>8, <1>9, <1>10, <1>11, <1>12, <1>13, <1>14
  DEF Next, CallStep, MuxStep

\* The three parts of the invariant hold together.
LEMMA InvHolds == Spec => []IInv
<1>1. Init => IInv
  <2> SUFFICES ASSUME Init PROVE IInv OBVIOUS
  <2>1. Positions BY PositionsInit
  <2>2. Handlers BY MuxAssumption, SMT DEF Init, MuxInit, Handlers, None
  <2>3. DialTypes BY SMT DEF Init, MuxInit, DialTypes, None
  <2>4. Quiet BY DEF Init, MuxInit, Quiet
  <2>5. \A p \in Peers : DialAt(p) BY DEF Init, MuxInit, DialAt
  <2> QED BY <2>1, <2>2, <2>3, <2>4, <2>5 DEF IInv, Dials
<1>2. IInv /\ [Next]_vars => IInv'
  BY OpenStep, RunStep, HandlersStep, DialsStep DEF IInv, Positions
<1> QED BY <1>1, <1>2, PTL DEF Spec

\* A send on a closed channel (enqueuePacket) needs a handler that was
\* unregistered while routePacket held it: closing the node never causes one.
THEOREM PanicHolds == Spec => []PanicNeedsRace
<1>1. IInv => PanicNeedsRace BY DEF IInv, Handlers, PanicNeedsRace
<1> QED BY <1>1, InvHolds, PTL

\* A session in the KCP transport's map has the handler of its own dial in the
\* mux's, and it is open, unless another dial or a removal of the address
\* overlapped the dial.
THEOREM SessionHolds == Spec => []SessionHasHandler
<1>1. IInv => SessionHasHandler
  BY DEF IInv, Handlers, Dials, DialAt, SessionHasHandler
<1> QED BY <1>1, InvHolds, PTL

\* Whenever no call is under way and the Tunnel is not running, the socket and
\* the listener are closed and no goroutine it waits for is left.
THEOREM NothingLeftHolds == Spec => []NothingLeftOpen
<1>1. IInv => NothingLeftOpen BY DEF IInv, Positions, OpenAt, RunAt, NothingLeftOpen, Idle
<1> QED BY <1>1, InvHolds, PTL
=============================================================================
