----------------------------- MODULE Lifecycle -----------------------------
(***************************************************************************)
(* Start and Stop of a node (node/node.go, node/startup.go) as the Tunnel  *)
(* calls them (api/tunnel.go), with the goroutines they start and wait     *)
(* for, composed with the mux and the KCP transport they open and close.   *)
(*                                                                         *)
(* The Tunnel's mutex is held for a whole call, so one call at a time has  *)
(* a position; a call that only returns an error changes nothing and has   *)
(* no action.  A peer here is its TCP connection, which may stop taking    *)
(* data: a write to it has no deadline, and the sender that waits in it    *)
(* may hold the peer's send lock.  ReconnectManager.Close is in Reconnect, *)
(* the table of peers in PeerTable.                                        *)
(***************************************************************************)
EXTENDS Mux

VARIABLES
    started,   \* Tunnel.started
    closed,    \* Tunnel.closed
    call,      \* where the call that holds the mutex is
    closing,   \* Node.closing is closed
    socket,    \* Node.mux: "none", "open" or "closed"
    listening, \* the TCP listener is open
    greet,     \* the peers that GracefulStop has still to say goodbye to
    toClose,   \* the peers that it has, and will close
    stalled    \* the peers a write to whose connection does not return

peerVars == <<greet, toClose, stalled>>
nodeVars == <<started, closed, call, closing, socket, listening, peerVars>>
vars == <<loops, muxVars, kcpVars, history, nodeVars>>

Idle == "idle"
Background == {"read", "accept", "heartbeat"}

Init ==
    /\ MuxInit /\ loops = {}
    /\ started = FALSE /\ closed = FALSE /\ call = Idle
    /\ closing = FALSE /\ socket = "none" /\ listening = FALSE
    /\ greet = {} /\ toClose = {} /\ stalled = {}

----------------------------------------------------------------------------
Start ==
    /\ call = Idle /\ ~closed /\ ~started
    /\ call' = "startUDP"
    /\ UNCHANGED <<loops, muxVars, kcpVars, history, started, closed, closing, socket, listening,
                   peerVars>>

\* The mux is a new one: its channels are open and nothing is registered.
startUDP ==
    /\ call = "startUDP"
    /\ \/ call' = Idle /\ UNCHANGED <<loops, muxVars, socket>>
       \/ /\ call' = "startTCP" /\ socket' = "open"
          /\ loops' = loops \cup {"mux"}
          /\ muxClosed' = FALSE /\ baseShut' = FALSE
          /\ UNCHANGED <<handlers, shut, hold>>
    /\ UNCHANGED <<kcpVars, history, started, closed, closing, listening, peerVars>>

\* Not startTCP: an error returns without closeOnStartFailure.
startTCPNoRollback ==
    /\ call = "startTCP"
    /\ \/ call' = "start" /\ listening' = TRUE
       \/ call' = Idle /\ listening' = FALSE
    /\ UNCHANGED <<loops, muxVars, kcpVars, history, started, closed, closing, socket, peerVars>>

startTCP ==
    /\ call = "startTCP"
    /\ \/ call' = "start" /\ listening' = TRUE
       \/ call' = "rollback" /\ listening' = FALSE
    /\ UNCHANGED <<loops, muxVars, kcpVars, history, started, closed, closing, socket, peerVars>>

closeOnStartFailure ==
    \/ /\ call = "rollback" /\ call' = "rollbackWait"
       /\ CloseSocket
       /\ UNCHANGED <<loops, kcpVars, history, started, closed, closing, socket, listening,
                      peerVars>>
    \/ /\ call = "rollbackWait" /\ call' = Idle
       /\ CloseChannels
       /\ socket' = "none"
       /\ UNCHANGED <<loops, kcpVars, history, started, closed, closing, listening, peerVars>>

\* startNATAndKCP, where a failure of KCP is survived, and startBackgroundLoops.
startLoops ==
    /\ call = "start" /\ call' = Idle
    /\ kcpUp' \in BOOLEAN
    /\ loops' = loops \cup Background \cup (IF kcpUp' THEN {"kcp"} ELSE {})
    /\ started' = TRUE
    /\ UNCHANGED <<muxVars, kcpClosing, used, sessions, managed, ended, reading, accepting,
                   dialing, removing, history, closed, closing, socket, listening, peerVars>>

----------------------------------------------------------------------------
Stop ==
    /\ call = Idle /\ started
    /\ started' = FALSE /\ closed' = TRUE /\ call' = "stop"
    /\ UNCHANGED <<loops, muxVars, kcpVars, history, closing, socket, listening, peerVars>>

\* Tunnel.GracefulStop checks nothing and leaves started as it is.
GracefulStop ==
    /\ call = Idle
    /\ closed' = TRUE /\ call' = "stop"
    /\ UNCHANGED <<loops, muxVars, kcpVars, history, started, closing, socket, listening, peerVars>>

\* Node.GracefulStop: a second one returns; the first takes the peers of that
\* moment.  One that is not in the table, then or later, is passed over in a
\* step that cannot block.
TakePeers ==
    /\ call = "stop"
    /\ IF closing THEN call' = Idle /\ UNCHANGED greet
                  ELSE /\ call' = "goodbye"
                       /\ greet' = IF socket = "none" THEN {} ELSE Peers
    /\ UNCHANGED <<loops, muxVars, kcpVars, history, started, closed, closing, socket, listening,
                   toClose, stalled>>

\* sendRaw of the goodbye returns.
Goodbye(p) ==
    /\ call = "goodbye" /\ p \in greet \ stalled
    /\ greet' = greet \ {p}
    /\ toClose' = toClose \cup {p}
    /\ UNCHANGED <<loops, muxVars, kcpVars, history, started, closed, call, closing, socket,
                   listening, stalled>>

\* Half a second after the last goodbye.
CloseClosing ==
    /\ call = "goodbye" /\ greet = {} /\ call' = "mux"
    /\ closing' = TRUE
    /\ UNCHANGED <<loops, muxVars, kcpVars, history, started, closed, socket, listening, peerVars>>

CloseMux ==
    \/ /\ call = "mux" /\ socket = "none" /\ call' = "listener"
       /\ UNCHANGED <<loops, muxVars, kcpVars, history, started, closed, closing, socket, listening,
                      peerVars>>
    \/ /\ call = "mux" /\ socket = "open" /\ call' = "muxWait"
       /\ CloseSocket
       /\ socket' = "closed"
       /\ UNCHANGED <<loops, kcpVars, history, started, closed, closing, listening, peerVars>>
    \/ /\ call = "muxWait" /\ call' = "listener"
       /\ CloseChannels
       /\ UNCHANGED <<loops, kcpVars, history, started, closed, closing, socket, listening,
                      peerVars>>

CloseListener ==
    /\ call = "listener" /\ call' = "kcp"
    /\ listening' = FALSE
    /\ UNCHANGED <<loops, muxVars, kcpVars, history, started, closed, closing, socket, peerVars>>

CloseKCP ==
    \/ /\ call = "kcp" /\ ~kcpUp /\ call' = "wait"
       /\ UNCHANGED <<loops, muxVars, kcpVars, history, started, closed, closing, socket, listening,
                      peerVars>>
    \/ /\ call = "kcp" /\ kcpUp /\ call' = "kcpSessions"
       /\ CloseManager
       /\ UNCHANGED <<started, closed, closing, socket, listening, peerVars>>
    \/ /\ call = "kcpSessions" /\ call' = "kcpWait"
       /\ CloseSessions
       /\ UNCHANGED <<started, closed, closing, socket, listening, peerVars>>
    \/ /\ call = "kcpWait" /\ "kcp" \notin loops /\ call' = "wait"
       /\ UNCHANGED <<loops, muxVars, kcpVars, history, started, closed, closing, socket, listening,
                      peerVars>>

\* Peer.Close, after the send lock: a write to the connection under way then
\* fails, if it was not the one that held the lock.
ClosePeer(p) ==
    /\ call = "wait" /\ p \in toClose
    /\ toClose' = toClose \ {p}
    /\ stalled' = stalled \ {p}
    /\ UNCHANGED <<loops, muxVars, kcpVars, history, started, closed, call, closing, socket,
                   listening, greet>>

\* n.wg.Wait
Wait ==
    /\ call = "wait" /\ toClose = {} /\ loops \cap Background = {} /\ call' = Idle
    /\ UNCHANGED <<loops, muxVars, kcpVars, history, started, closed, closing, socket, listening,
                   peerVars>>

\* A write finds the connection of p full; it takes data again, or the write
\* fails.  What stalls before the Tunnel is being closed delays no step here.
Stall(p) ==
    /\ closed /\ socket # "none" /\ p \notin stalled
    /\ stalled' = stalled \cup {p}
    /\ UNCHANGED <<loops, muxVars, kcpVars, history, started, closed, call, closing, socket,
                   listening, greet, toClose>>

Unstall(p) ==
    /\ p \in stalled
    /\ stalled' = stalled \ {p}
    /\ UNCHANGED <<loops, muxVars, kcpVars, history, started, closed, call, closing, socket,
                   listening, greet, toClose>>

\* handleRead, acceptTCP and heartbeatLoop return once closing is closed and
\* what they block on has returned.
LoopEnds(l) ==
    /\ l \in loops \cap Background /\ closing
    /\ loops' = loops \ {l}
    /\ UNCHANGED <<muxVars, kcpVars, history, nodeVars>>

\* What ends the blocking call of a loop for sure.  handleRead answers packets
\* and heartbeatLoop sends heartbeats and removes peers: either may be in a
\* write or waiting for a send lock.
Unblocked(l) ==
    \/ l = "read" /\ muxClosed /\ stalled = {}
    \/ l = "accept" /\ ~listening
    \/ l = "heartbeat" /\ stalled = {}

CallStep ==
    \/ startUDP \/ startTCP \/ closeOnStartFailure \/ startLoops
    \/ TakePeers \/ CloseClosing \/ CloseMux \/ CloseListener \/ CloseKCP \/ Wait

PeerStep(p) == Goodbye(p) \/ ClosePeer(p)

Next ==
    /\ ~panicked
    /\ \/ Start \/ Stop \/ GracefulStop \/ CallStep
       \/ \E p \in Peers : PeerStep(p) \/ Stall(p) \/ Unstall(p)
       \/ \E l \in Background : LoopEnds(l)
       \/ MuxStep /\ UNCHANGED nodeVars

\* A write that is not stalled returns, and the loop, the reader or the call
\* that was in it or that waited for its lock goes on.
Fairness ==
    /\ WF_vars(~panicked /\ CallStep)
    /\ \A p \in Peers : WF_vars(~panicked /\ stalled = {} /\ PeerStep(p))
    /\ \A l \in Background : WF_vars(~panicked /\ Unblocked(l) /\ LoopEnds(l))
    /\ WF_vars(~panicked /\ (routePacket \/ enqueuePacket \/ readLoopEnds) /\ UNCHANGED nodeVars)
    /\ WF_vars(~panicked /\ (acceptLoopEnds \/ \E p \in Peers : Accept(p)) /\ UNCHANGED nodeVars)
    /\ \A i \in Numbers :
        WF_vars(/\ ~panicked /\ stalled = {} /\ (kcpClosing \/ i \in ended)
                /\ handleSession(i) /\ UNCHANGED nodeVars)

Spec == Init /\ [][Next]_vars /\ Fairness

----------------------------------------------------------------------------
\* Whenever no call is under way and the Tunnel is not running, because it was
\* never started, its start failed half-way or it was stopped in any way, the
\* socket and the listener are closed and no goroutine it waits for is left.
NothingLeftOpen ==
    call = Idle /\ (closed \/ ~started) =>
        socket # "open" /\ ~listening /\ loops = {}

\* Start, Stop and GracefulStop return once no write to a TCP connection is
\* stalled any more.  Before that they need not: the goodbyes have no deadline,
\* closing a peer waits for its send lock, and so may the loops that are waited
\* for.  What GracefulStop closes before each wait is what the goroutines it
\* waits for block on.  The session readers, which it does not wait for, return
\* too, those no map holds any more included.
StopReturns ==
    /\ call # Idle ~> (call = Idle \/ panicked \/ stalled # {})
    /\ kcpClosing ~> (reading = {} \/ panicked \/ stalled # {})
=============================================================================
