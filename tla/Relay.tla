------------------------------- MODULE Relay -------------------------------
(***************************************************************************)
(* The fallback to a relay (node/relay_handler.go): two nodes that do not  *)
(* reach each other both know a third one, the relay.  connectViaRelay     *)
(* wraps the first message of a handshake for the relay; the relay notes   *)
(* the way back (relayForward), passes it on, and from then on forwards    *)
(* what comes from the target to the origin (node/udp_io.go).  All other   *)
(* messages of the handshake are sent to the address the last one came     *)
(* from (processHandshake, node/handshake.go).                             *)
(*                                                                         *)
(* An address is the node that has it.  Packets are not lost but arrive in *)
(* any order.  Tokens are valid and relaying is enabled everywhere; the    *)
(* link mode that peers are shown with is left out.                        *)
(***************************************************************************)
CONSTANTS Clients, Relay, None

Nodes == Clients \cup {Relay}

VARIABLES
    pending,  \* pendingHandshakes, by the other address
    route,    \* addrToPeer: the peer that is listed at an address
    listed,   \* PeerStore: the address of a peer
    forward,  \* relayForward of the relay
    net       \* packets on their way

vars == <<pending, route, listed, forward, net>>

\* Message n of handshake h, and the node that wrote it.
Msg(h, n, by) == [h |-> h, n |-> n, by |-> by]
Junk == "junk"

Raw(src, dst, msg) == [mode |-> "raw", src |-> src, dst |-> dst, target |-> None, msg |-> msg]
Forward(src, target, msg) ==
    [mode |-> "forward", src |-> src, dst |-> Relay, target |-> target, msg |-> msg]
Target(dst, msg) ==
    [mode |-> "target", src |-> Relay, dst |-> dst, target |-> dst, msg |-> msg]

\* The clients are connected to the relay, as its candidates are.
Init ==
    /\ pending = [n \in Nodes |-> [a \in Nodes |-> None]]
    /\ route = [n \in Nodes |-> [a \in Nodes |->
                  IF n # a /\ (n = Relay \/ a = Relay) THEN a ELSE None]]
    /\ listed = route
    /\ forward = [a \in Nodes |-> None]
    /\ net = {}

\* A handshake is named by the node that starts it; one at a time.
connectViaRelay(n, m) ==
    /\ listed[n][m] = None
    /\ pending[n][Relay] = None
    /\ pending' = [pending EXCEPT ![n][Relay] = [role |-> "init", h |-> n]]
    /\ net' = net \cup {Forward(n, m, Msg(n, 1, n))}
    /\ UNCHANGED <<route, listed, forward>>

\* A fresh responder takes whatever comes for the first message (it is a key
\* and nothing is encrypted yet) and answers it.
Respond(n, p) ==
    LET h == IF p.msg.n = 1 THEN p.msg.h ELSE Junk
    IN  /\ pending[n][p.src] = None
        /\ pending' = [pending EXCEPT ![n][p.src] = [role |-> "resp", h |-> h]]
        /\ net' = (net \ {p}) \cup {Raw(n, p.src, Msg(h, 2, n))}
        /\ UNCHANGED <<route, listed>>

Fits(hs, msg) == msg.h = hs.h /\ msg.h # Junk /\ msg.n = IF hs.role = "init" THEN 2 ELSE 3

\* The handshake is complete; an initiator sends the last message.  The
\* address of a peer that is listed already is not recorded.
Establish(n, p) ==
    LET hs == pending[n][p.src]
    IN  /\ hs # None
        /\ Fits(hs, p.msg)
        /\ pending' = [pending EXCEPT ![n][p.src] = None]
        /\ listed' = [listed EXCEPT ![n][p.msg.by] = p.src]
        /\ route' = IF listed[n][p.msg.by] # None THEN route
                    ELSE [route EXCEPT ![n][p.src] = p.msg.by]
        /\ net' = (net \ {p}) \cup
                    (IF hs.role = "init" THEN {Raw(n, p.src, Msg(hs.h, 3, n))} ELSE {})

\* A message that does not fit: the state is dropped unless connected.
Refuse(n, p) ==
    LET hs == pending[n][p.src]
    IN  /\ hs # None
        /\ ~Fits(hs, p.msg)
        /\ pending' = IF route[n][p.src] # None THEN pending
                      ELSE [pending EXCEPT ![n][p.src] = None]
        /\ net' = net \ {p}
        /\ UNCHANGED <<route, listed>>

processHandshake(n, p) == (Respond(n, p) \/ Establish(n, p) \/ Refuse(n, p)) /\ UNCHANGED forward

\* handleRelayPacket at the relay.
RelayForward(p) ==
    /\ p.mode = "forward"
    /\ forward' = [forward EXCEPT ![p.target] = p.src]
    /\ net' = (net \ {p}) \cup {Target(p.target, p.msg)}
    /\ UNCHANGED <<pending, route, listed>>

\* handleRead at the relay: packets of a target go to its origin.
ForwardBack(p) ==
    /\ p.mode = "raw" /\ p.dst = Relay /\ forward[p.src] # None
    /\ net' = (net \ {p}) \cup {Raw(Relay, forward[p.src], p.msg)}
    /\ UNCHANGED <<pending, route, listed, forward>>

handleRead(p) ==
    \/ RelayForward(p)
    \/ ForwardBack(p)
    \/ /\ p.mode = "target" \/ (p.mode = "raw" /\ (p.dst = Relay => forward[p.src] = None))
       /\ processHandshake(p.dst, p)

Next ==
    \/ \E n \in Clients : \E m \in Clients \ {n} : connectViaRelay(n, m)
    \/ \E p \in net : handleRead(p)

Spec == Init /\ [][Next]_vars
----------------------------------------------------------------------------
(***************************************************************************)
(* The fallback connects: when nothing is on its way any more, a peer that *)
(* is listed as reached through the relay lists this node too.             *)
(***************************************************************************)
RelayedPeersAgree ==
    net = {} => \A n, m \in Clients : listed[n][m] = Relay => listed[m][n] = Relay
=============================================================================
