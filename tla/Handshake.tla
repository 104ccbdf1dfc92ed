----------------------------- MODULE Handshake -----------------------------
(***************************************************************************)
(* Handshakes between two nodes over UDP (node/handshake.go), with what    *)
(* else touches pendingHandshakes: connects (node/connect_flow.go), fast   *)
(* re-handshakes and their expiry (node/rehandshake.go), and               *)
(* cleanupStaleMappings (node/heartbeat.go).                               *)
(*                                                                         *)
(* Noise XX is external: message 2 is accepted only by the initiator whose *)
(* message 1 it answers, message 3 only by the responder it answers, and   *)
(* message 1 carries nothing to verify, so that a fresh responder takes    *)
(* any packet for one.  A refused message leaves the handshake as it was.  *)
(*                                                                         *)
(* The network loses, duplicates, delays and reorders: a packet that was   *)
(* sent once may be delivered at any time, any number of times or never.   *)
(* That covers the resending of message 1 every 200 ms.  Timers are not    *)
(* timed: one that is set may fire at any moment.                          *)
(***************************************************************************)
EXTENDS Naturals

CONSTANTS
    Nodes,       \* the two nodes
    Handshakes,  \* HandshakeState objects: bounds how many are created
    None         \* no handshake, no session, no packet

ASSUME TwoNodes ==
    /\ \E a, b \in Nodes : a # b /\ Nodes = {a, b}
    /\ None \notin Handshakes /\ None \notin Nodes

VARIABLES
    role,       \* of a HandshakeState: unused, initiator or responder
    home,       \* the node that created it
    stage,      \* the message it waits for; "done" is the completed flag
    with,       \* the other side's HandshakeState, as far as the messages name it
    net,        \* every packet sent
    pending,    \* pendingHandshakes[stateKey of the other node]
    dialing,    \* a connect that sends message 1 and has not registered it yet
    reading,    \* the packet the UDP reader is processing, with the state it got
    ttl,        \* re-handshakes whose expiry goroutine is sleeping
    session,    \* the Session in the peer table; None when not connected
    past        \* history: the sessions a node once had and has given up

objects == <<role, home, stage, with>>
vars == <<objects, net, pending, dialing, reading, ttl, session, past>>

Other(n) == CHOOSE m \in Nodes : m # n

Message1(n, i) == [to |-> Other(n), kind |-> 1, init |-> i, resp |-> None]
Message2(n, i, r) == [to |-> Other(n), kind |-> 2, init |-> i, resp |-> r]
Message3(n, i, r) == [to |-> Other(n), kind |-> 3, init |-> i, resp |-> r]
Packets == [to : Nodes, kind : 1..3, init : Handshakes \cup {None},
            resp : Handshakes \cup {None}]
Sessions == [init : Handshakes, resp : Handshakes]
Readings == [hs : Handshakes, packet : Packets]

TypeOK ==
    /\ role \in [Handshakes -> {"unused", "initiator", "responder"}]
    /\ home \in [Handshakes -> Nodes \cup {None}]
    /\ stage \in [Handshakes -> {"wait1", "wait2", "wait3", "done"}]
    /\ with \in [Handshakes -> Handshakes \cup {None}]
    /\ net \in SUBSET Packets
    /\ pending \in [Nodes -> Handshakes \cup {None}]
    /\ dialing \in [Nodes -> Handshakes \cup {None}]
    /\ reading \in [Nodes -> Readings \cup {None}]
    /\ ttl \in [Nodes -> SUBSET Handshakes]
    /\ session \in [Nodes -> Sessions \cup {None}]
    /\ past \in [Nodes -> SUBSET Sessions]

Init ==
    /\ role = [h \in Handshakes |-> "unused"]
    /\ home = [h \in Handshakes |-> None]
    /\ stage = [h \in Handshakes |-> "wait1"]
    /\ with = [h \in Handshakes |-> None]
    /\ net = {}
    /\ pending = [n \in Nodes |-> None]
    /\ dialing = [n \in Nodes |-> None]
    /\ reading = [n \in Nodes |-> None]
    /\ ttl = [n \in Nodes |-> {}]
    /\ session = [n \in Nodes |-> None]
    /\ past = [n \in Nodes |-> {}]

Create(n, h, as, first) ==
    /\ role[h] = "unused"
    /\ role' = [role EXCEPT ![h] = as]
    /\ home' = [home EXCEPT ![h] = n]
    /\ stage' = [stage EXCEPT ![h] = first]
    /\ UNCHANGED with

Forget(n) == pending' = [pending EXCEPT ![n] = None]

----------------------------------------------------------------------------
(* Initiators.                                                             *)

\* buildInitiatorHandshakePackets and startPunchWorkers: packets leave ...
ConnectStart(n, h) ==
    /\ dialing[n] = None
    /\ Create(n, h, "initiator", "wait2")
    /\ net' = net \cup {Message1(n, h)}
    /\ dialing' = [dialing EXCEPT ![n] = h]
    /\ UNCHANGED <<pending, reading, ttl, session, past>>

\* ... before registerPendingHandshakes, which overwrites what is pending.
ConnectRegister(n) ==
    /\ dialing[n] # None
    /\ pending' = [pending EXCEPT ![n] = dialing[n]]
    /\ dialing' = [dialing EXCEPT ![n] = None]
    /\ UNCHANGED <<objects, net, reading, ttl, session, past>>

\* Sent and left pending, or, if the write fails, deleted again.  The peer was
\* in the table when its packet did not decrypt; it may be gone by now.
sendFastRehandshake(n, h) ==
    /\ session[n] # None \/ past[n] # {}
    /\ pending[n] = None
    /\ Create(n, h, "initiator", "wait2")
    /\ \/ /\ net' = net \cup {Message1(n, h)}
          /\ pending' = [pending EXCEPT ![n] = h]
          /\ ttl' = [ttl EXCEPT ![n] = @ \cup {h}]
       \/ UNCHANGED <<net, pending, ttl>>
    /\ UNCHANGED <<dialing, reading, session, past>>

----------------------------------------------------------------------------
(* processHandshake, run by the one goroutine that reads the socket.       *)

\* The pending handshake, or a new responder.
GetOrCreate(n, packet) ==
    /\ reading[n] = None
    /\ packet \in net /\ packet.to = n
    /\ \/ /\ pending[n] # None
          /\ reading' = [reading EXCEPT ![n] = [hs |-> pending[n], packet |-> packet]]
          /\ UNCHANGED <<objects, pending>>
       \/ /\ pending[n] = None
          /\ \E h \in Handshakes :
                /\ Create(n, h, "responder", "wait1")
                /\ pending' = [pending EXCEPT ![n] = h]
                /\ reading' = [reading EXCEPT ![n] = [hs |-> h, packet |-> packet]]
    /\ UNCHANGED <<net, dialing, ttl, session, past>>

\* Mutant: message 3 is not bound to the responder it answers.
AcceptsUnbound(h, packet) ==
    \/ stage[h] = "wait1"
    \/ stage[h] = "wait2" /\ packet.kind = 2 /\ packet.init = h
    \/ stage[h] = "wait3" /\ packet.kind = 3

Accepts(h, packet) ==
    \/ stage[h] = "wait1"
    \/ stage[h] = "wait2" /\ packet.kind = 2 /\ packet.init = h
    \/ stage[h] = "wait3" /\ packet.kind = 3 /\ packet.resp = h

\* Mutant: the completed handshake stays pending.
EstablishKeepsPending(n, s) ==
    /\ session' = [session EXCEPT ![n] = s]
    /\ past' = [past EXCEPT ![n] = @ \cup ({session[n]} \ {None})]
    /\ UNCHANGED pending

\* A session is established: the peer is refreshed, or added if it is new.
Establish(n, s) ==
    /\ session' = [session EXCEPT ![n] = s]
    /\ past' = [past EXCEPT ![n] = @ \cup ({session[n]} \ {None})]
    /\ Forget(n)

\* The initiator a packet taken for message 1 comes from, if it is one.
Caller(packet) == IF packet.kind = 1 THEN packet.init ELSE None

ReadMessage1(n, h, packet) ==
    /\ stage[h] = "wait1"
    /\ stage' = [stage EXCEPT ![h] = "wait3"]
    /\ with' = [with EXCEPT ![h] = Caller(packet)]
    /\ net' = net \cup {Message2(n, Caller(packet), h)}
    /\ UNCHANGED <<session, past, pending>>

ReadMessage2(n, h, packet) ==
    /\ stage[h] = "wait2" /\ Accepts(h, packet)
    /\ stage' = [stage EXCEPT ![h] = "done"]
    /\ with' = [with EXCEPT ![h] = packet.resp]
    /\ net' = net \cup {Message3(n, h, packet.resp)}
    /\ Establish(n, [init |-> h, resp |-> packet.resp])

\* Mutant: the responder is neither marked completed nor forgotten.
ReadMessage3Again(n, h, packet) ==
    /\ stage[h] = "wait3" /\ Accepts(h, packet)
    /\ session' = [session EXCEPT ![n] = [init |-> packet.init, resp |-> h]]
    /\ past' = [past EXCEPT ![n] = @ \cup ({session[n]} \ {None})]
    /\ UNCHANGED <<stage, with, net, pending>>

ReadMessage3(n, h, packet) ==
    /\ stage[h] = "wait3" /\ Accepts(h, packet)
    /\ stage' = [stage EXCEPT ![h] = "done"]
    /\ Establish(n, [init |-> packet.init, resp |-> h])
    /\ UNCHANGED <<with, net>>

\* Refused: a connected node ignores it, another one starts afresh.
Refuse(n, h, packet) ==
    /\ ~Accepts(h, packet)
    /\ IF session[n] # None THEN UNCHANGED pending ELSE Forget(n)
    /\ UNCHANGED <<stage, with, net, session, past>>

ProcessMessage(n) ==
    LET h == reading[n].hs
        packet == reading[n].packet
    IN  /\ reading[n] # None
        /\ \/ ReadMessage1(n, h, packet)
           \/ ReadMessage2(n, h, packet)
           \/ ReadMessage3(n, h, packet)
           \/ Refuse(n, h, packet)
        /\ reading' = [reading EXCEPT ![n] = None]
        /\ UNCHANGED <<role, home, dialing, ttl>>

----------------------------------------------------------------------------
(* The rest of the node.                                                   *)

\* time.Sleep(FastRehandshakePendingTTL), then whatever is pending goes.
PendingExpires(n, h) ==
    /\ h \in ttl[n]
    /\ ttl' = [ttl EXCEPT ![n] = @ \ {h}]
    /\ Forget(n)
    /\ UNCHANGED <<objects, net, dialing, reading, session, past>>

cleanupStaleMappings(n) ==
    /\ pending[n] # None
    /\ Forget(n)
    /\ UNCHANGED <<objects, net, dialing, reading, ttl, session, past>>

\* Mutant: the return for a peer that is not there is missing.
removePeerUnchecked(n) ==
    /\ session' = [session EXCEPT ![n] = None]
    /\ past' = [past EXCEPT ![n] = @ \cup {session[n]}]
    /\ UNCHANGED <<objects, net, pending, dialing, reading, ttl>>

\* Heartbeat timeout: removePeerWithReconnect.
removePeer(n) ==
    /\ session[n] # None
    /\ session' = [session EXCEPT ![n] = None]
    /\ past' = [past EXCEPT ![n] = @ \cup {session[n]}]
    /\ UNCHANGED <<objects, net, pending, dialing, reading, ttl>>

Next ==
    \E n \in Nodes :
        \/ \E h \in Handshakes :
              ConnectStart(n, h) \/ sendFastRehandshake(n, h) \/ PendingExpires(n, h)
        \/ ConnectRegister(n)
        \/ \E packet \in net : GetOrCreate(n, packet)
        \/ ProcessMessage(n)
        \/ cleanupStaleMappings(n) \/ removePeer(n)

Spec == Init /\ [][Next]_vars
----------------------------------------------------------------------------
(***************************************************************************)
(* A responder establishes a session only with an initiator that has       *)
(* established the same one: a session known to one side only is always on *)
(* the initiator's side (it sends the last message).                       *)
(***************************************************************************)
ResponderConfirmed ==
    \A n \in Nodes : \A s \in past[n] \cup {session[n]} :
        s # None /\ home[s.resp] = n =>
            home[s.init] = Other(n) /\ stage[s.init] = "done" /\ with[s.init] = s.resp

(***************************************************************************)
(* A session that was replaced or closed never comes back: no late or      *)
(* duplicated packet makes processHandshake install it again.              *)
(***************************************************************************)
NoSessionReturns == \A n \in Nodes : session[n] \notin past[n]

(***************************************************************************)
(* No completed handshake is left in pendingHandshakes once the packet     *)
(* that completed it is processed: it would refuse every later packet from *)
(* that address until the minute's cleanup.                                *)
(***************************************************************************)
NoCompletedPending ==
    \A n \in Nodes : pending[n] # None => stage[pending[n]] # "done"

(***************************************************************************)
(* "Redundant packet, safe to ignore": what a connected node ignores does  *)
(* not belong to a handshake that its initiator is still waiting for.      *)
(***************************************************************************)
IgnoredIsRedundant ==
    [][\A n \in Nodes :
          /\ ProcessMessage(n) /\ session[n] # None
          /\ ~Accepts(reading[n].hs, reading[n].packet)
          /\ reading[n].packet.kind = 1
          => LET i == reading[n].packet.init
             IN  pending[home[i]] # i]_vars
=============================================================================
