-------------------------------- MODULE Mux --------------------------------
(***************************************************************************)
(* The UDP socket shared by everything (transport/mux.go) and the KCP      *)
(* transport on top of it (node/kcp_transport.go, node/kcp.go).            *)
(*                                                                         *)
(* A dialled KCP session has a channel of its own in the mux, its handler; *)
(* accepted sessions share the base channels.  Dials and accepts are       *)
(* numbered: the number names the session and, of a dial, the handler.     *)
(* One address per peer.  Packets that find a channel full are dropped,    *)
(* so the channels' contents decide nothing here and are left out.         *)
(***************************************************************************)
EXTENDS Naturals

CONSTANTS
    Peers,
    MaxSessions  \* bounds the sessions dialled and accepted

ASSUME MuxAssumption == MaxSessions \in Nat

None == 0
Numbers == 1..MaxSessions

VARIABLES
    loops,      \* the goroutines a WaitGroup counts
    muxClosed,  \* UDPMux.closed is closed, and so is the socket
    baseShut,   \* kcpConn, punchConn and tentConn are closed
    handlers,   \* UDPMux.kcpHandlers
    shut,       \* the handlers that are closed
    hold,       \* what routePacket is about to send on
    kcpUp,      \* Node.kcpTransport is not nil
    kcpClosing, \* KCPTransport.closing is closed
    used,       \* how many sessions there were
    sessions,   \* KCPTransport.sessions
    managed,    \* KCPManager.sessions
    ended,      \* the sessions that are closed
    reading,    \* the sessions whose handleSession runs
    accepting,  \* the session between AcceptKCP and its entry in managed
    dialing,    \* UpgradePeer calls between RegisterKCPHandler and their entry
    removing,   \* RemoveSession calls between LoadAndDelete and Unregister
    panicked,   \* a send on a closed channel ended the process
    raced,      \* history: a handler was unregistered while routePacket held it
    crossed     \* history: dials that overlap a removal or a dial of their address

muxVars == <<muxClosed, baseShut, handlers, shut, hold>>
kcpVars == <<kcpUp, kcpClosing, used, sessions, managed, ended, reading,
             accepting, dialing, removing>>
history == <<panicked, raced, crossed>>

\* What routePacket may hold besides the number of a handler.
Packet == MaxSessions + 1
Base == MaxSessions + 2

MuxInit ==
    /\ muxClosed = FALSE /\ baseShut = FALSE
    /\ handlers = [p \in Peers |-> None] /\ shut = {} /\ hold = None
    /\ kcpUp = FALSE /\ kcpClosing = FALSE /\ used = 0
    /\ sessions = [p \in Peers |-> None] /\ managed = [p \in Peers |-> None]
    /\ ended = {} /\ reading = {} /\ accepting = [p \in Peers |-> None]
    /\ dialing = [p \in Peers |-> {}] /\ removing = [p \in Peers |-> 0]
    /\ panicked = FALSE /\ raced = FALSE /\ crossed = {}

----------------------------------------------------------------------------
\* readLoop: a packet was read before the socket was closed.
Receive ==
    /\ "mux" \in loops /\ ~muxClosed /\ hold = None
    /\ hold' = Packet
    /\ UNCHANGED <<loops, muxClosed, baseShut, handlers, shut, kcpVars, history>>

\* routePacket: the channel is looked up, and sent on later.
routePacket ==
    /\ hold = Packet
    /\ hold' \in {Base} \cup ({handlers[p] : p \in Peers} \ {None})
    /\ UNCHANGED <<loops, muxClosed, baseShut, handlers, shut, kcpVars, history>>

\* enqueuePacket: the default branch covers a full channel, not a closed one.
enqueuePacket ==
    /\ hold \notin {None, Packet}
    /\ hold' = None
    /\ panicked' = (hold \in shut \/ (hold = Base /\ baseShut))
    /\ UNCHANGED <<loops, muxClosed, baseShut, handlers, shut, kcpVars, raced, crossed>>

readLoopEnds ==
    /\ "mux" \in loops /\ muxClosed /\ hold = None
    /\ loops' = loops \ {"mux"}
    /\ UNCHANGED <<muxVars, kcpVars, history>>

UnregisterKCPHandler(p) ==
    /\ handlers' = [handlers EXCEPT ![p] = None]
    /\ shut' = shut \cup ({handlers[p]} \ {None})
    /\ raced' = (raced \/ (handlers[p] # None /\ hold = handlers[p]))

\* Not UDPMux.Close: the channels are closed without waiting for readLoop.
CloseChannelsAtOnce ==
    /\ baseShut' = TRUE
    /\ shut' = shut \cup ({handlers[p] : p \in Peers} \ {None})
    /\ UNCHANGED <<muxClosed, handlers, hold>>

\* Not UDPMux.Close: it waits for readLoop with the socket open.
CloseSocketLater == UNCHANGED <<muxClosed, baseShut, handlers, shut, hold>>

\* UDPMux.Close, up to wg.Wait and after it.
CloseSocket ==
    /\ muxClosed' = TRUE
    /\ UNCHANGED <<baseShut, handlers, shut, hold>>

CloseChannels ==
    /\ "mux" \notin loops
    /\ baseShut' = TRUE
    /\ shut' = shut \cup ({handlers[p] : p \in Peers} \ {None})
    /\ UNCHANGED <<muxClosed, handlers, hold>>

----------------------------------------------------------------------------
\* Not UpgradePeer: another handler whether or not there is a session.
RegisterAgain(p) ==
    /\ kcpUp /\ used < MaxSessions
    /\ used' = used + 1
    /\ handlers' = [handlers EXCEPT ![p] = used + 1]
    /\ dialing' = [dialing EXCEPT ![p] = @ \cup {used + 1}]
    /\ crossed' = crossed \cup dialing[p] \cup
          (IF removing[p] > 0 \/ dialing[p] # {} THEN {used + 1} ELSE {})
    /\ UNCHANGED <<loops, muxClosed, baseShut, shut, hold, kcpUp, kcpClosing, sessions,
                   managed, ended, reading, accepting, removing, panicked, raced>>

\* sendAppFrame finds no session, and UpgradePeer registers the address.  The
\* lock on sends belongs to the peer object: a peer that is removed and comes
\* back can be dialled again before the first dial has returned.
RegisterKCPHandler(p) ==
    /\ kcpUp /\ used < MaxSessions
    /\ sessions[p] = None
    /\ used' = used + 1
    /\ handlers' = [handlers EXCEPT ![p] = used + 1]
    /\ dialing' = [dialing EXCEPT ![p] = @ \cup {used + 1}]
    /\ crossed' = crossed \cup dialing[p] \cup
          (IF removing[p] > 0 \/ dialing[p] # {} THEN {used + 1} ELSE {})
    /\ UNCHANGED <<loops, muxClosed, baseShut, shut, hold, kcpUp, kcpClosing, sessions,
                   managed, ended, reading, accepting, removing, panicked, raced>>

\* UpgradePeer: DialWithConn succeeds.
UpgradePeer(p, i) ==
    /\ i \in dialing[p]
    /\ sessions' = [sessions EXCEPT ![p] = i]
    /\ managed' = [managed EXCEPT ![p] = i]
    /\ reading' = reading \cup {i}
    /\ dialing' = [dialing EXCEPT ![p] = @ \ {i}]
    /\ UNCHANGED <<loops, muxVars, kcpUp, kcpClosing, used, ended, accepting,
                   removing, history>>

\* UpgradePeer: DialWithConn fails.
DialFails(p, i) ==
    /\ i \in dialing[p]
    /\ UnregisterKCPHandler(p)
    /\ dialing' = [dialing EXCEPT ![p] = @ \ {i}]
    /\ UNCHANGED <<loops, muxClosed, baseShut, hold, kcpUp, kcpClosing, used, sessions,
                   managed, ended, reading, accepting, removing, panicked, crossed>>

\* RemoveSession, called by removePeer: the session goes first, ...
RemoveSession(p) ==
    /\ sessions[p] # None
    /\ sessions' = [sessions EXCEPT ![p] = None]
    /\ ended' = ended \cup {sessions[p]}
    /\ removing' = [removing EXCEPT ![p] = @ + 1]
    /\ crossed' = crossed \cup dialing[p]
    /\ UNCHANGED <<loops, muxVars, kcpUp, kcpClosing, used, managed, reading,
                   accepting, dialing, panicked, raced>>

\* ... then whatever handler is registered for its address.
RemoveHandler(p) ==
    /\ removing[p] > 0
    /\ UnregisterKCPHandler(p)
    /\ removing' = [removing EXCEPT ![p] = @ - 1]
    /\ UNCHANGED <<loops, muxClosed, baseShut, hold, kcpUp, kcpClosing, used, sessions,
                   managed, ended, reading, accepting, dialing, panicked, crossed>>

----------------------------------------------------------------------------
\* acceptLoop: AcceptKCP returns, then Accept enters the session.
AcceptKCP(p) ==
    /\ "kcp" \in loops /\ ~kcpClosing /\ used < MaxSessions
    /\ \A q \in Peers : accepting[q] = None
    /\ used' = used + 1
    /\ accepting' = [accepting EXCEPT ![p] = used + 1]
    /\ UNCHANGED <<loops, muxVars, kcpUp, kcpClosing, sessions, managed, ended,
                   reading, dialing, removing, history>>

Accept(p) ==
    /\ accepting[p] # None
    /\ managed' = [managed EXCEPT ![p] = accepting[p]]
    /\ reading' = reading \cup {accepting[p]}
    /\ accepting' = [accepting EXCEPT ![p] = None]
    /\ UNCHANGED <<loops, muxVars, kcpUp, kcpClosing, used, sessions, ended, dialing,
                   removing, history>>

acceptLoopEnds ==
    /\ "kcp" \in loops /\ kcpClosing
    /\ \A p \in Peers : accepting[p] = None
    /\ loops' = loops \ {"kcp"}
    /\ UNCHANGED <<muxVars, kcpVars, history>>

\* handleSession returns: on closing, on a closed session, or on a read error
\* such as a frame whose body takes more than five seconds.
handleSession(i) ==
    /\ i \in reading
    /\ reading' = reading \ {i}
    /\ ended' = ended \cup {i}
    /\ UNCHANGED <<loops, muxVars, kcpUp, kcpClosing, used, sessions, managed,
                   accepting, dialing, removing, history>>

\* KCPTransport.Close: the manager first, to end Accept, ...
CloseManager ==
    /\ kcpClosing' = TRUE
    /\ ended' = ended \cup ({managed[p] : p \in Peers} \ {None})
    /\ managed' = [p \in Peers |-> None]
    /\ UNCHANGED <<loops, muxVars, kcpUp, used, sessions, reading, accepting,
                   dialing, removing, history>>

\* ... then the sessions and their handlers.
CloseSessions ==
    LET gone == {p \in Peers : sessions[p] # None} IN
    /\ ended' = ended \cup {sessions[p] : p \in gone}
    /\ sessions' = [p \in Peers |-> None]
    /\ handlers' = [p \in Peers |-> IF p \in gone THEN None ELSE handlers[p]]
    /\ shut' = shut \cup ({handlers[p] : p \in gone} \ {None})
    /\ UNCHANGED <<loops, muxClosed, baseShut, hold, kcpUp, kcpClosing, used, managed,
                   reading, accepting, dialing, removing, history>>

MuxStep ==
    \/ Receive \/ routePacket \/ enqueuePacket \/ readLoopEnds \/ acceptLoopEnds
    \/ \E p \in Peers :
        \/ RegisterKCPHandler(p) \/ RemoveSession(p) \/ RemoveHandler(p)
        \/ AcceptKCP(p) \/ Accept(p)
        \/ \E i \in dialing[p] : UpgradePeer(p, i) \/ DialFails(p, i)
    \/ \E i \in Numbers : handleSession(i)

----------------------------------------------------------------------------
\* Closing never sends on a closed channel: the process panics in
\* enqueuePacket only when a session's handler was unregistered, by
\* RemoveSession or by a failed dial, while routePacket held it.  UDPMux.Close
\* waits for the read loop, and KCPTransport.Close comes after it.
PanicNeedsRace == panicked => raced

\* A session that sendAppFrame will use hears the answers of its peer: its
\* handler is the one registered, unless the dial overlapped another dial or a
\* removal, whose UnregisterKCPHandler goes by address, whatever is there.
SessionHasHandler ==
    \A p \in Peers :
        sessions[p] # None /\ sessions[p] \notin ended \cup crossed /\ ~muxClosed =>
            handlers[p] = sessions[p] /\ handlers[p] \notin shut
=============================================================================
