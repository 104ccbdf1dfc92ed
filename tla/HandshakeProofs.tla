-------------------------- MODULE HandshakeProofs --------------------------
(***************************************************************************)
(* Proofs about the handshake of two nodes, for any number of handshakes:  *)
(* type correctness, and that sessions are confirmed, never return and     *)
(* never leave a completed handshake pending.                              *)
(***************************************************************************)
EXTENDS Handshake, TLAPS

\* First-order reasoning suffices for most leaves; those that need records or
\* arithmetic cite SMT.
USE Zenon

\* The other node of two.
LEMMA OtherNode ==
  \A n \in Nodes : Other(n) \in Nodes /\ Other(n) # n /\ Other(Other(n)) = n
  BY TwoNodes DEF Other

(***************************************************************************)
(* A handshake is used: it was created, by node n.                         *)
(***************************************************************************)
Used(h, n) == h \in Handshakes /\ role[h] # "unused" /\ home[h] = n

\* What a packet says is true of the handshakes it names.
PacketOK(m) ==
    /\ m.kind = 1 => Used(m.init, Other(m.to))
    /\ m.kind = 2 => Used(m.resp, Other(m.to))
    /\ m.kind = 3 => /\ Used(m.init, Other(m.to))
                     /\ m.resp \in Handshakes
                     /\ stage[m.init] = "done"
                     /\ with[m.init] = m.resp

NetInv == \A m \in net : PacketOK(m)

\* What a node holds is its own; a packet being read was sent to it; a connect
\* that has not registered its handshake is the only one to know it.
PendingHeld == \A n \in Nodes : pending[n] # None => Used(pending[n], n)
ReadingHeld ==
    \A n \in Nodes : reading[n] # None => /\ Used(reading[n].hs, n)
                                          /\ reading[n].packet \in net
                                          /\ reading[n].packet.to = n
DialingHeld ==
    \A n \in Nodes : dialing[n] # None => /\ Used(dialing[n], n)
                                          /\ stage[dialing[n]] = "wait2"
                                          /\ pending[n] # dialing[n]
                                          /\ reading[n] # None => reading[n].hs # dialing[n]

HeldInv == PendingHeld /\ ReadingHeld /\ DialingHeld

\* The handshake by which a node got a session is completed.
SessionOK(n, s) ==
    /\ role[s.init] # "unused" /\ role[s.resp] # "unused"
    /\ home[s.init] = n => stage[s.init] = "done"
    /\ home[s.resp] = n => /\ stage[s.resp] = "done"
                           /\ home[s.init] = Other(n)
                           /\ stage[s.init] = "done"
                           /\ with[s.init] = s.resp

SessionInv ==
    \A n \in Nodes :
        /\ None \notin past[n]
        /\ \A s \in past[n] \cup {session[n]} : s # None => SessionOK(n, s)

IInv == NetInv /\ HeldInv /\ SessionInv /\ NoSessionReturns /\ NoCompletedPending

\* The part of TypeOK that the invariants are about.
HeldTypes ==
    /\ role \in [Handshakes -> {"unused", "initiator", "responder"}]
    /\ home \in [Handshakes -> Nodes \cup {None}]
    /\ stage \in [Handshakes -> {"wait1", "wait2", "wait3", "done"}]
    /\ pending \in [Nodes -> Handshakes \cup {None}]
    /\ dialing \in [Nodes -> Handshakes \cup {None}]
    /\ reading \in [Nodes -> Readings \cup {None}]

LEMMA HeldTyped == TypeOK => HeldTypes
  BY DEF TypeOK, HeldTypes

----------------------------------------------------------------------------
\* Creating a handshake keeps the types of the four fields.
LEMMA CreateType ==
  ASSUME TypeOK, NEW n \in Nodes, NEW h \in Handshakes,
         Create(n, h, "initiator", "wait2") \/ Create(n, h, "responder", "wait1")
  PROVE  /\ role' \in [Handshakes -> {"unused", "initiator", "responder"}]
         /\ home' \in [Handshakes -> Nodes \cup {None}]
         /\ stage' \in [Handshakes -> {"wait1", "wait2", "wait3", "done"}]
         /\ with' \in [Handshakes -> Handshakes \cup {None}]
  BY SMT DEF TypeOK, Create

\* The messages are packets.
LEMMA MessageType ==
  ASSUME NEW n \in Nodes, NEW i \in Handshakes \cup {None}, NEW r \in Handshakes \cup {None}
  PROVE  /\ Message1(n, i) \in Packets
         /\ Message2(n, i, r) \in Packets
         /\ Message3(n, i, r) \in Packets
  BY OtherNode, SMT DEF Packets, Message1, Message2, Message3

\* A packet of the network with a handshake is what a reader holds, and the converse.
LEMMA ReadingType ==
  ASSUME TypeOK
  PROVE  /\ \A h \in Handshakes, m \in net : [hs |-> h, packet |-> m] \in Readings
         /\ \A x \in Readings : x.hs \in Handshakes /\ x.packet \in Packets
  BY DEF TypeOK, Readings

\* Every step keeps the types.
LEMMA TypeStep == TypeOK /\ IInv /\ [Next]_vars => TypeOK'
  <1> SUFFICES ASSUME TypeOK, IInv, [Next]_vars PROVE TypeOK'
    OBVIOUS
  <1>1. ASSUME NEW n \in Nodes, NEW h \in Handshakes, ConnectStart(n, h) PROVE TypeOK'
    BY <1>1, CreateType, MessageType, SMT DEF TypeOK, ConnectStart
  <1>2. ASSUME NEW n \in Nodes, NEW h \in Handshakes, sendFastRehandshake(n, h) PROVE TypeOK'
    <2>1. /\ net' \in SUBSET Packets
          /\ pending' \in [Nodes -> Handshakes \cup {None}]
          /\ ttl' \in [Nodes -> SUBSET Handshakes]
      <3>1. Message1(n, h) \in Packets
        BY MessageType
      <3>2. CASE UNCHANGED <<net, pending, ttl>>
        BY <3>2 DEF TypeOK
      <3>3. CASE /\ net' = net \cup {Message1(n, h)}
                 /\ pending' = [pending EXCEPT ![n] = h]
                 /\ ttl' = [ttl EXCEPT ![n] = @ \cup {h}]
        BY <3>1, <3>3 DEF TypeOK
      <3>4. QED
        BY <1>2, <3>2, <3>3 DEF sendFastRehandshake
    <2>2. QED
      BY <1>2, <2>1, CreateType DEF TypeOK, sendFastRehandshake
  <1>3. ASSUME NEW n \in Nodes, ConnectRegister(n) PROVE TypeOK'
    BY <1>3 DEF TypeOK, ConnectRegister, objects
  <1>4. ASSUME NEW n \in Nodes, NEW m \in net, GetOrCreate(n, m) PROVE TypeOK'
    <2>1. CASE pending[n] # None
      <3>1. [hs |-> pending[n], packet |-> m] \in Readings
        BY <2>1, ReadingType DEF TypeOK
      <3>2. QED
        BY <1>4, <2>1, <3>1, SMT DEF TypeOK, GetOrCreate, objects
    <2>2. CASE pending[n] = None
      <3>1. PICK h \in Handshakes :
                /\ Create(n, h, "responder", "wait1")
                /\ pending' = [pending EXCEPT ![n] = h]
                /\ reading' = [reading EXCEPT ![n] = [hs |-> h, packet |-> m]]
        BY <1>4, <2>2 DEF GetOrCreate
      <3>2. [hs |-> h, packet |-> m] \in Readings
        BY ReadingType
      <3>3. QED
        BY <1>4, <3>1, <3>2, CreateType DEF TypeOK, GetOrCreate
    <2>3. QED
      BY <2>1, <2>2
  <1>5. ASSUME NEW n \in Nodes, ProcessMessage(n) PROVE TypeOK'
    <2> DEFINE h == reading[n].hs
               m == reading[n].packet
    <2>1. h \in Handshakes /\ m \in Packets /\ m \in net
      <3>1. reading[n] \in Readings /\ reading[n] # None
        BY <1>5 DEF ProcessMessage, TypeOK
      <3>2. QED
        BY <3>1, ReadingType DEF IInv, HeldInv, ReadingHeld
    <2>2. m.init \in Handshakes \cup {None} /\ m.resp \in Handshakes \cup {None}
      BY <2>1 DEF Packets
    <2>3. /\ UNCHANGED <<role, home, dialing, ttl>>
          /\ reading' = [reading EXCEPT ![n] = None]
      BY <1>5 DEF ProcessMessage
    <2>4. CASE ReadMessage1(n, h, m)
      <3>1. Caller(m) \in Handshakes \cup {None}
        BY <2>2 DEF Caller
      <3>2. Message2(n, Caller(m), h) \in Packets
        BY <2>1, <3>1, MessageType
      <3>3. QED
        BY <2>1, <2>3, <2>4, <3>1, <3>2 DEF ReadMessage1, TypeOK
    <2>5. CASE ReadMessage2(n, h, m)
      <3>1. m.resp \in Handshakes
        BY <2>1, <2>5 DEF ReadMessage2, Accepts, IInv, NetInv, PacketOK, Used
      <3>2. [init |-> h, resp |-> m.resp] \in Sessions
        BY <2>1, <3>1 DEF Sessions
      <3>3. net' \in SUBSET Packets
        <4>1. Message3(n, h, m.resp) \in Packets
          BY <2>1, <3>1, MessageType
        <4>2. QED
          BY <2>5, <4>1 DEF ReadMessage2, TypeOK
      <3>4. QED
        BY <2>1, <2>3, <2>5, <3>1, <3>2, <3>3, SMT DEF ReadMessage2, Establish, Forget, TypeOK
    <2>6. CASE ReadMessage3(n, h, m)
      <3>1. m.init \in Handshakes
        BY <2>1, <2>6 DEF ReadMessage3, Accepts, IInv, NetInv, PacketOK, Used
      <3>2. [init |-> m.init, resp |-> h] \in Sessions
        BY <2>1, <3>1 DEF Sessions
      <3>3. QED
        BY <2>1, <2>3, <2>6, <3>2, SMT DEF ReadMessage3, Establish, Forget, TypeOK
    <2>7. CASE Refuse(n, h, m)
      BY <2>3, <2>7 DEF Refuse, Forget, TypeOK
    <2>8. QED
      BY <1>5, <2>4, <2>5, <2>6, <2>7 DEF ProcessMessage
  <1>6. ASSUME NEW n \in Nodes, cleanupStaleMappings(n) \/ \E h \in Handshakes : PendingExpires(n, h)
        PROVE  TypeOK'
    BY <1>6, SMT DEF TypeOK, PendingExpires, cleanupStaleMappings, Forget, objects
  <1>7. ASSUME NEW n \in Nodes, removePeer(n) PROVE TypeOK'
    BY <1>7 DEF TypeOK, removePeer, objects
  <1>8. CASE UNCHANGED vars
    BY <1>8 DEF TypeOK, vars, objects
  <1>9. QED
    BY <1>1, <1>2, <1>3, <1>4, <1>5, <1>6, <1>7, <1>8 DEF Next

\* The initial state satisfies everything.
LEMMA InitOK == Init => TypeOK /\ IInv
  <1>1. Init => TypeOK
    BY SMT DEF Init, TypeOK
  <1>2. Init => IInv
    BY DEF Init, IInv, NetInv, HeldInv, PendingHeld, ReadingHeld, DialingHeld,
        SessionInv, NoSessionReturns, NoCompletedPending
  <1>3. QED
    BY <1>1, <1>2

----------------------------------------------------------------------------
(***************************************************************************)
(* What no step undoes: who created a handshake, that it is completed and  *)
(* with whom, and that a packet was sent.                                  *)
(***************************************************************************)
Lasting ==
    /\ \A h \in Handshakes : role[h] # "unused" =>
          /\ role'[h] # "unused" /\ home'[h] = home[h]
          /\ stage[h] = "done" => stage'[h] = "done" /\ with'[h] = with[h]
    /\ net \subseteq net'

\* Creating a handshake is lasting, whatever else the step does.
LEMMA CreateLasting ==
  ASSUME TypeOK, net \subseteq net', NEW n \in Nodes, NEW h \in Handshakes,
         Create(n, h, "initiator", "wait2") \/ Create(n, h, "responder", "wait1")
  PROVE  Lasting
  BY DEF TypeOK, Create, Lasting

\* So is every step.
LEMMA StepLasting == TypeOK /\ IInv /\ [Next]_vars => Lasting
  <1> SUFFICES ASSUME TypeOK, IInv, [Next]_vars PROVE Lasting
    OBVIOUS
  <1>1. ASSUME NEW n \in Nodes, NEW h \in Handshakes,
               ConnectStart(n, h) \/ sendFastRehandshake(n, h)
        PROVE  Lasting
    BY <1>1, CreateLasting DEF ConnectStart, sendFastRehandshake
  <1>2. ASSUME NEW n \in Nodes, NEW m \in net, GetOrCreate(n, m) PROVE Lasting
    <2>1. net' = net
      BY <1>2 DEF GetOrCreate
    <2>2. CASE UNCHANGED objects
      BY <2>1, <2>2 DEF Lasting, objects
    <2>3. CASE \E h \in Handshakes : Create(n, h, "responder", "wait1")
      BY <2>1, <2>3, CreateLasting
    <2>4. QED
      BY <1>2, <2>2, <2>3 DEF GetOrCreate
  <1>3. ASSUME NEW n \in Nodes, ProcessMessage(n) PROVE Lasting
    <2> DEFINE h == reading[n].hs
               m == reading[n].packet
    <2>1. h \in Handshakes
      BY <1>3 DEF ProcessMessage, IInv, HeldInv, ReadingHeld, Used
    <2>2. UNCHANGED <<role, home>>
      BY <1>3 DEF ProcessMessage
    <2>3. CASE ReadMessage1(n, h, m) \/ ReadMessage2(n, h, m) \/ ReadMessage3(n, h, m)
      <3>1. net \subseteq net' /\ stage[h] # "done"
        BY <2>3 DEF ReadMessage1, ReadMessage2, ReadMessage3
      <3>2. \A g \in Handshakes : g # h => stage'[g] = stage[g] /\ with'[g] = with[g]
        BY <2>1, <2>3 DEF ReadMessage1, ReadMessage2, ReadMessage3, TypeOK
      <3>3. QED
        BY <2>2, <3>1, <3>2 DEF Lasting
    <2>4. CASE Refuse(n, h, m)
      BY <2>2, <2>4 DEF Refuse, Lasting
    <2>5. QED
      BY <1>3, <2>3, <2>4 DEF ProcessMessage
  <1>4. CASE UNCHANGED <<objects, net>>
    BY <1>4 DEF Lasting, objects
  <1>5. QED
    BY <1>1, <1>2, <1>3, <1>4 DEF Next, ConnectRegister, PendingExpires, cleanupStaleMappings,
       removePeer, vars

\* Packets already sent keep saying the truth.
LEMMA PacketLasts ==
  ASSUME TypeOK, NetInv, Lasting
  PROVE  \A m \in net : PacketOK(m)'
  <1> SUFFICES ASSUME NEW m \in net PROVE PacketOK(m)'
    OBVIOUS
  <1>1. PacketOK(m)
    BY DEF NetInv
  <1>2. QED
    BY <1>1 DEF Lasting, PacketOK, Used

\* NetInv is kept: every new packet is true when it is sent.
LEMMA NetStep == TypeOK /\ IInv /\ [Next]_vars => NetInv'
  <1> SUFFICES ASSUME TypeOK, IInv, [Next]_vars PROVE NetInv'
    OBVIOUS
  <1>1. Lasting /\ \A m \in net : PacketOK(m)'
    BY StepLasting, PacketLasts DEF IInv
  <1>2. ASSUME NEW n \in Nodes, NEW h \in Handshakes,
               ConnectStart(n, h) \/ sendFastRehandshake(n, h)
        PROVE  NetInv'
    <2>1. Used(h, n)' /\ (net' = net \cup {Message1(n, h)} \/ net' = net)
      BY <1>2, HeldTyped DEF ConnectStart, sendFastRehandshake, Create, Used, HeldTypes
    <2>2. PacketOK(Message1(n, h))'
      BY <2>1, OtherNode, SMT DEF PacketOK, Message1
    <2>3. QED
      BY <1>1, <2>1, <2>2 DEF NetInv
  <1>3. ASSUME NEW n \in Nodes, ProcessMessage(n) PROVE NetInv'
    <2>0. PICK h, m : h = reading[n].hs /\ m = reading[n].packet
      OBVIOUS
    <2>1. Used(h, n) /\ m \in net
      BY <1>3, <2>0 DEF ProcessMessage, IInv, HeldInv, ReadingHeld
    <2>2. Used(h, n)'
      BY <1>1, <2>1 DEF Lasting, Used
    <2>3. CASE ReadMessage1(n, h, m)
      <3>1. PacketOK(Message2(n, Caller(m), h))'
        BY <2>2, OtherNode, SMT DEF PacketOK, Message2
      <3>2. net' = net \cup {Message2(n, Caller(m), h)}
        BY <2>3 DEF ReadMessage1
      <3>3. QED
        BY <1>1, <3>1, <3>2 DEF NetInv
    <2>4. CASE ReadMessage2(n, h, m)
      <3>1. m.resp \in Handshakes
        <4>1. PacketOK(m)
          BY <2>1 DEF IInv, NetInv
        <4>2. m.kind = 2
          BY <2>4 DEF ReadMessage2, Accepts
        <4>3. QED
          BY <4>1, <4>2 DEF PacketOK, Used
      <3>2. stage'[h] = "done" /\ with'[h] = m.resp
        BY <2>1, <2>4 DEF ReadMessage2, TypeOK, Used
      <3>3. PacketOK(Message3(n, h, m.resp))'
        <4>1. Message3(n, h, m.resp).to = Other(n) /\ Message3(n, h, m.resp).kind = 3
              /\ Message3(n, h, m.resp).init = h /\ Message3(n, h, m.resp).resp = m.resp
          BY DEF Message3
        <4>2. QED
          BY <2>2, <3>1, <3>2, <4>1, OtherNode, SMT DEF PacketOK
      <3>4. net' = net \cup {Message3(n, h, m.resp)}
        BY <2>4 DEF ReadMessage2
      <3>5. QED
        BY <1>1, <3>3, <3>4 DEF NetInv
    <2>5. CASE net' = net
      BY <1>1, <2>5 DEF NetInv
    <2>6. QED
      BY <1>3, <2>0, <2>3, <2>4, <2>5 DEF ProcessMessage, ReadMessage3, Refuse
  <1>4. CASE net' = net
    BY <1>1, <1>4 DEF NetInv
  <1>5. QED
    BY <1>2, <1>3, <1>4 DEF Next, ConnectRegister, GetOrCreate, PendingExpires,
       cleanupStaleMappings, removePeer, vars

----------------------------------------------------------------------------
\* Creating a handshake keeps what the nodes hold: none of it is the new one.
LEMMA CreateHeld ==
  ASSUME TypeOK, HeldInv, NEW n \in Nodes, NEW h \in Handshakes,
         Create(n, h, "initiator", "wait2") \/ Create(n, h, "responder", "wait1")
  PROVE  /\ Used(h, n)'
         /\ \A x \in Nodes : /\ pending[x] # h /\ dialing[x] # h
                             /\ reading[x] # None => reading[x].hs # h
         /\ \A g \in Handshakes : g # h => stage'[g] = stage[g]
         /\ stage'[h] \in {"wait1", "wait2"}
  <1>1. role[h] = "unused" /\ Used(h, n)' /\ stage'[h] \in {"wait1", "wait2"}
    BY HeldTyped DEF Create, Used, HeldTypes
  <1>2. QED
    BY <1>1, TwoNodes, HeldTyped, SMT DEF HeldInv, PendingHeld, ReadingHeld, DialingHeld, Used, Create, HeldTypes

\* HeldInv is kept.
LEMMA HeldStep == TypeOK /\ IInv /\ [Next]_vars => HeldInv'
  <1> SUFFICES ASSUME TypeOK, IInv, [Next]_vars PROVE HeldInv'
    OBVIOUS
  <1>0. HeldInv
    BY DEF IInv
  <1>1. /\ net \subseteq net'
        /\ \A g, x : Used(g, x) => Used(g, x)'
    BY StepLasting DEF Lasting, Used
  <1>2. PendingHeld /\ ReadingHeld /\ DialingHeld /\ HeldTypes
    BY HeldTyped DEF IInv, HeldInv
  <1>3. ASSUME \A n \in Nodes : pending'[n] = None \/ pending'[n] = pending[n] PROVE PendingHeld'
    BY <1>1, <1>2, <1>3 DEF PendingHeld
  <1>4. ASSUME \A n \in Nodes : reading'[n] = None \/ reading'[n] = reading[n] PROVE ReadingHeld'
    BY <1>1, <1>2, <1>4 DEF ReadingHeld
  <1>5. ASSUME NEW n \in Nodes, dialing'[n] = dialing[n], dialing[n] # None,
               pending'[n] # dialing[n],
               reading'[n] # None => reading'[n].hs # dialing[n],
               stage'[dialing[n]] = stage[dialing[n]]
        PROVE  /\ Used(dialing[n], n)' /\ stage'[dialing'[n]] = "wait2" /\ pending'[n] # dialing'[n]
               /\ reading'[n] # None => reading'[n].hs # dialing'[n]
    BY <1>1, <1>2, <1>5 DEF DialingHeld
  <1>6. CASE UNCHANGED <<pending, reading, dialing, stage>>
    <2>1. DialingHeld'
      BY <1>1, <1>2, <1>6 DEF DialingHeld
    <2>2. QED
      BY <1>3, <1>4, <1>6, <2>1 DEF HeldInv
  <1>7. ASSUME NEW n \in Nodes, NEW h \in Handshakes, ConnectStart(n, h) PROVE HeldInv'
    <2>1. Create(n, h, "initiator", "wait2") /\ UNCHANGED <<pending, reading>>
      BY <1>7 DEF ConnectStart
    <2>2. stage'[h] = "wait2"
      BY <1>2, <2>1 DEF Create, HeldTypes
    <2>3. /\ Used(h, n)'
          /\ \A x \in Nodes : /\ pending[x] # h /\ dialing[x] # h
                              /\ reading[x] # None => reading[x].hs # h
          /\ \A g \in Handshakes : g # h => stage'[g] = stage[g]
      BY <1>0, <2>1, CreateHeld, SMT
    <2>4. dialing'[n] = h /\ \A x \in Nodes : x # n => dialing'[x] = dialing[x]
      BY <1>2, <1>7 DEF ConnectStart, HeldTypes
    <2>5. DialingHeld'
      <3> SUFFICES ASSUME NEW x \in Nodes, dialing'[x] # None
                   PROVE  /\ Used(dialing[x], x)' /\ stage'[dialing'[x]] = "wait2"
                          /\ pending'[x] # dialing'[x]
                          /\ reading'[x] # None => reading'[x].hs # dialing'[x]
        BY DEF DialingHeld
      <3>1. CASE x = n
        BY <2>1, <2>2, <2>3, <2>4, <3>1 DEF Used
      <3>2. CASE x # n
        BY <1>1, <1>2, <2>1, <2>3, <2>4, <3>2, SMT DEF DialingHeld, Used, HeldTypes
      <3>3. QED
        BY <3>1, <3>2
    <2>6. QED
      BY <1>3, <1>4, <2>1, <2>5 DEF HeldInv
  <1>8. ASSUME NEW n \in Nodes, NEW h \in Handshakes, sendFastRehandshake(n, h) PROVE HeldInv'
    <2>1. Create(n, h, "initiator", "wait2") /\ UNCHANGED <<dialing, reading>>
      BY <1>8 DEF sendFastRehandshake
    <2>2. /\ Used(h, n)'
          /\ \A x \in Nodes : dialing[x] # h
          /\ \A g \in Handshakes : g # h => stage'[g] = stage[g]
      BY <1>0, <2>1, CreateHeld, SMT
    <2>3. \A x \in Nodes : pending'[x] = pending[x] \/ (x = n /\ pending'[x] = h)
      BY <1>2, <1>8 DEF sendFastRehandshake, HeldTypes
    <2>4. PendingHeld'
      BY <1>1, <1>2, <2>2, <2>3, SMT DEF PendingHeld, Used
    <2>5. DialingHeld'
      BY <1>1, <1>2, <2>1, <2>2, <2>3, SMT DEF DialingHeld, Used
    <2>6. QED
      BY <1>4, <2>1, <2>4, <2>5 DEF HeldInv
  <1>9. ASSUME NEW n \in Nodes, ConnectRegister(n) PROVE HeldInv'
    <2>1. UNCHANGED <<stage, reading>> /\ dialing[n] # None
      BY <1>9 DEF ConnectRegister, objects
    <2>2. \A x \in Nodes : /\ x # n => pending'[x] = pending[x] /\ dialing'[x] = dialing[x]
                           /\ x = n => pending'[x] = dialing[x] /\ dialing'[x] = None
      BY <1>2, <1>9 DEF ConnectRegister, HeldTypes
    <2>3. PendingHeld'
      BY <1>1, <1>2, <2>1, <2>2, SMT DEF PendingHeld, DialingHeld, Used
    <2>4. DialingHeld'
      BY <1>1, <1>2, <2>1, <2>2, SMT DEF DialingHeld, Used
    <2>5. QED
      BY <1>4, <2>1, <2>3, <2>4 DEF HeldInv
  <1>10. ASSUME NEW n \in Nodes, NEW m \in net, GetOrCreate(n, m) PROVE HeldInv'
    <2>1. UNCHANGED <<dialing, net>> /\ m.to = n
      BY <1>10 DEF GetOrCreate
    <2>2. CASE pending[n] # None
      <3>1. UNCHANGED <<stage, pending>>
        BY <1>10, <2>2 DEF GetOrCreate, objects
      <3>2. /\ reading'[n] = [hs |-> pending[n], packet |-> m]
            /\ \A x \in Nodes : x # n => reading'[x] = reading[x]
        BY <1>2, <1>10, <2>2 DEF GetOrCreate, HeldTypes
      <3>3. reading'[n].hs = pending[n] /\ reading'[n].packet = m
        BY <3>2, SMT
      <3>4. ReadingHeld'
        BY <1>1, <1>2, <2>1, <2>2, <3>2, <3>3, SMT DEF ReadingHeld, PendingHeld, Used
      <3>5. DialingHeld'
        BY <1>1, <1>2, <2>1, <3>1, <3>2, <3>3, SMT DEF DialingHeld, Used
      <3>6. QED
        BY <1>3, <3>1, <3>4, <3>5 DEF HeldInv
    <2>3. CASE pending[n] = None
      <3>1. PICK h \in Handshakes :
                /\ Create(n, h, "responder", "wait1")
                /\ pending' = [pending EXCEPT ![n] = h]
                /\ reading' = [reading EXCEPT ![n] = [hs |-> h, packet |-> m]]
        BY <1>10, <2>3 DEF GetOrCreate
      <3>2. /\ Used(h, n)'
            /\ \A x \in Nodes : dialing[x] # h
            /\ \A g \in Handshakes : g # h => stage'[g] = stage[g]
        BY <1>0, <3>1, CreateHeld, SMT
      <3>3. /\ reading'[n] = [hs |-> h, packet |-> m] /\ pending'[n] = h
            /\ \A x \in Nodes : x # n => reading'[x] = reading[x] /\ pending'[x] = pending[x]
        BY <1>2, <3>1 DEF HeldTypes
      <3>4. reading'[n].hs = h /\ reading'[n].packet = m
        BY <3>3, SMT
      <3>5. PendingHeld'
        BY <1>1, <1>2, <3>2, <3>3, SMT DEF PendingHeld, Used
      <3>6. ReadingHeld'
        BY <1>1, <1>2, <2>1, <3>2, <3>3, <3>4, SMT DEF ReadingHeld, Used
      <3>7. DialingHeld'
        BY <1>1, <1>2, <2>1, <3>2, <3>3, <3>4, SMT DEF DialingHeld, Used
      <3>8. QED
        BY <3>5, <3>6, <3>7 DEF HeldInv
    <2>4. QED
      BY <2>2, <2>3
  <1>11. ASSUME NEW n \in Nodes, ProcessMessage(n) PROVE HeldInv'
    <2>1. PICK h, m : h = reading[n].hs /\ m = reading[n].packet
      OBVIOUS
    <2>2. Used(h, n) /\ reading[n] # None
      BY <1>2, <1>11, <2>1 DEF ProcessMessage, ReadingHeld
    <2>3. /\ pending' = pending \/ pending' = [pending EXCEPT ![n] = None]
          /\ \A g \in Handshakes : g # h => stage'[g] = stage[g]
      BY <1>2, <1>11, <2>1, <2>2 DEF ProcessMessage, ReadMessage1, ReadMessage2, ReadMessage3,
         Refuse, Establish, Forget, HeldTypes, Used
    <2>4. \A x \in Nodes : pending'[x] = None \/ pending'[x] = pending[x]
      BY <1>2, <2>3 DEF HeldTypes
    <2>5. UNCHANGED dialing /\ \A x \in Nodes : reading'[x] = None \/ reading'[x] = reading[x]
      BY <1>2, <1>11 DEF ProcessMessage, HeldTypes
    <2>6. \A x \in Nodes : dialing[x] # None => dialing[x] # h
      BY <1>2, <2>1, <2>2, SMT DEF DialingHeld, Used
    <2>7. \A x \in Nodes : dialing[x] # None => dialing[x] \in Handshakes
      BY <1>2 DEF HeldTypes
    <2>8. DialingHeld'
      <3> SUFFICES ASSUME NEW x \in Nodes, dialing'[x] # None
                   PROVE  /\ Used(dialing[x], x)' /\ stage'[dialing'[x]] = "wait2"
                          /\ pending'[x] # dialing'[x]
                          /\ reading'[x] # None => reading'[x].hs # dialing'[x]
        BY DEF DialingHeld
      <3>1. dialing'[x] = dialing[x] /\ stage'[dialing[x]] = stage[dialing[x]]
        BY <2>3, <2>5, <2>6, <2>7
      <3>2. pending'[x] # dialing[x] /\ (reading'[x] # None => reading'[x].hs # dialing[x])
        BY <1>2, <2>4, <2>5, <3>1 DEF DialingHeld
      <3>3. QED
        BY <1>5, <3>1, <3>2
    <2>9. QED
      BY <1>3, <1>4, <2>4, <2>5, <2>8 DEF HeldInv
  <1>12. ASSUME NEW n \in Nodes, \/ cleanupStaleMappings(n)
                                 \/ \E h \in Handshakes : PendingExpires(n, h)
         PROVE  HeldInv'
    <2>1. UNCHANGED <<stage, dialing, reading>> /\ pending' = [pending EXCEPT ![n] = None]
      BY <1>12 DEF PendingExpires, cleanupStaleMappings, Forget, objects
    <2>2. \A x \in Nodes : pending'[x] = None \/ pending'[x] = pending[x]
      BY <1>2, <2>1 DEF HeldTypes
    <2>3. DialingHeld'
      BY <1>1, <1>2, <2>1, <2>2 DEF DialingHeld
    <2>4. QED
      BY <1>3, <1>4, <2>1, <2>2, <2>3 DEF HeldInv
  <1>13. ASSUME NEW n \in Nodes, removePeer(n) PROVE HeldInv'
    BY <1>6, <1>13 DEF removePeer, objects
  <1>14. CASE UNCHANGED vars
    BY <1>6, <1>14 DEF vars, objects
  <1>15. QED
    BY <1>7, <1>8, <1>9, <1>10, <1>11, <1>12, <1>13, <1>14 DEF Next

\* No step leaves a completed handshake pending.
LEMMA PendingStep == TypeOK /\ IInv /\ [Next]_vars => NoCompletedPending'
  <1> SUFFICES ASSUME TypeOK, IInv, [Next]_vars PROVE NoCompletedPending'
    OBVIOUS
  <1>1. HeldInv /\ NoCompletedPending
    BY DEF IInv
  <1>2. ASSUME NEW n \in Nodes, NEW h \in Handshakes,
               ConnectStart(n, h) \/ sendFastRehandshake(n, h)
        PROVE  NoCompletedPending'
    <2>1. /\ \A g \in Handshakes : g # h => stage'[g] = stage[g]
          /\ stage'[h] \in {"wait1", "wait2"}
      BY <1>1, <1>2, CreateHeld, SMT DEF ConnectStart, sendFastRehandshake
    <2>2. QED
      BY <1>1, <1>2, <2>1, HeldTyped, SMT DEF ConnectStart, sendFastRehandshake,
         NoCompletedPending, HeldTypes
  <1>3. ASSUME NEW n \in Nodes, NEW m \in net, GetOrCreate(n, m) PROVE NoCompletedPending'
    <2>1. CASE pending[n] # None
      BY <1>1, <1>3, <2>1 DEF GetOrCreate, NoCompletedPending, objects
    <2>2. CASE pending[n] = None
      <3>1. PICK h \in Handshakes : /\ Create(n, h, "responder", "wait1")
                                    /\ pending' = [pending EXCEPT ![n] = h]
        BY <1>3, <2>2 DEF GetOrCreate
      <3>2. /\ \A g \in Handshakes : g # h => stage'[g] = stage[g]
            /\ stage'[h] \in {"wait1", "wait2"}
        BY <1>1, <3>1, CreateHeld, SMT
      <3>3. QED
        BY <1>1, <3>1, <3>2, HeldTyped DEF NoCompletedPending, HeldTypes
    <2>3. QED
      BY <2>1, <2>2
  <1>4. ASSUME NEW n \in Nodes, ProcessMessage(n) PROVE NoCompletedPending'
    <2>1. PICK h, m : h = reading[n].hs /\ m = reading[n].packet
      OBVIOUS
    <2>2. Used(h, n)
      BY <1>1, <1>4, <2>1 DEF ProcessMessage, HeldInv, ReadingHeld
    <2>3. \A x \in Nodes : x # n /\ pending[x] # None => pending[x] # h
      BY <1>1, <2>2 DEF HeldInv, PendingHeld, Used
    <2>4. CASE ReadMessage1(n, h, m)
      BY <1>1, <2>2, <2>4, HeldTyped DEF ReadMessage1, NoCompletedPending, HeldTypes, Used
    <2>5. CASE ReadMessage2(n, h, m) \/ ReadMessage3(n, h, m)
      <3>1. /\ pending' = [pending EXCEPT ![n] = None]
            /\ \A g \in Handshakes : g # h => stage'[g] = stage[g]
        BY <2>5, HeldTyped DEF ReadMessage2, ReadMessage3, Establish, Forget, HeldTypes
      <3>2. QED
        BY <1>1, <2>3, <3>1, HeldTyped DEF NoCompletedPending, HeldTypes
    <2>6. CASE Refuse(n, h, m)
      BY <1>1, <2>6, HeldTyped DEF Refuse, Forget, NoCompletedPending, HeldTypes
    <2>7. QED
      BY <1>4, <2>1, <2>4, <2>5, <2>6 DEF ProcessMessage
  <1>5. ASSUME NEW n \in Nodes, ConnectRegister(n) PROVE NoCompletedPending'
    BY <1>1, <1>5, HeldTyped DEF ConnectRegister, HeldInv, DialingHeld, NoCompletedPending, HeldTypes, objects
  <1>6. ASSUME NEW n \in Nodes, \/ cleanupStaleMappings(n) \/ removePeer(n)
                              \/ \E h \in Handshakes : PendingExpires(n, h)
        PROVE  NoCompletedPending'
    BY <1>1, <1>6, HeldTyped DEF PendingExpires, cleanupStaleMappings, removePeer, Forget,
       NoCompletedPending, HeldTypes, objects
  <1>7. CASE UNCHANGED vars
    BY <1>1, <1>7 DEF NoCompletedPending, vars, objects
  <1>8. QED
    BY <1>2, <1>3, <1>4, <1>5, <1>6, <1>7 DEF Next

----------------------------------------------------------------------------
\* A session that was right stays right.
LEMMA SessionLasts ==
  ASSUME Lasting, NEW n \in Nodes, NEW s \in Sessions, SessionOK(n, s)
  PROVE  SessionOK(n, s)'
  <1>1. s.init \in Handshakes /\ s.resp \in Handshakes
    BY DEF Sessions
  <1>2. QED
    BY <1>1 DEF Lasting, SessionOK

\* The two steps that establish a session: it is right, and it is new.
LEMMA NewSession ==
  ASSUME TypeOK, IInv, Lasting, NEW n \in Nodes, ProcessMessage(n), NEW h, NEW m,
         h = reading[n].hs, m = reading[n].packet,
         NEW s, \/ ReadMessage2(n, h, m) /\ s = [init |-> h, resp |-> m.resp]
                \/ ReadMessage3(n, h, m) /\ s = [init |-> m.init, resp |-> h]
  PROVE  /\ SessionOK(n, s)'
         /\ Establish(n, s)
         /\ s # None => s \notin past[n] \cup {session[n]}
  <1>1. Used(h, n) /\ Used(h, n)' /\ m \in net /\ m.to = n
    BY DEF ProcessMessage, IInv, HeldInv, ReadingHeld, Lasting, Used
  <1>2. PacketOK(m) /\ Other(n) # n
    BY <1>1, OtherNode DEF IInv, NetInv
  <1>3. CASE ReadMessage2(n, h, m) /\ s = [init |-> h, resp |-> m.resp]
    <2>1. s.init = h /\ s.resp = m.resp
      BY <1>3
    <2>2. Used(s.resp, Other(n))
      BY <1>1, <1>2, <1>3, <2>1 DEF ReadMessage2, Accepts, PacketOK
    <2>3. Used(s.resp, Other(n))'
      BY <2>2 DEF Lasting, Used
    <2>4. stage[h] = "wait2" /\ stage'[h] = "done"
      BY <1>1, <1>3 DEF ReadMessage2, TypeOK, Used
    <2>5. SessionOK(n, s)'
      BY <1>1, <1>2, <2>1, <2>3, <2>4 DEF SessionOK, Used
    <2>6. ~SessionOK(n, s)
      BY <1>1, <2>1, <2>4 DEF SessionOK, Used
    <2>7. QED
      BY <1>3, <2>5, <2>6 DEF ReadMessage2, IInv, SessionInv
  <1>4. CASE ReadMessage3(n, h, m) /\ s = [init |-> m.init, resp |-> h]
    <2>1. s.init = m.init /\ s.resp = h
      BY <1>4
    <2>2. m.kind = 3 /\ m.resp = h /\ stage[h] = "wait3"
      BY <1>4 DEF ReadMessage3, Accepts
    <2>3. Used(s.init, Other(n)) /\ stage[s.init] = "done" /\ with[s.init] = h
      BY <1>1, <1>2, <2>1, <2>2 DEF PacketOK
    <2>4. Used(s.init, Other(n))' /\ stage'[s.init] = "done" /\ with'[s.init] = h
      BY <2>3 DEF Lasting, Used
    <2>5. stage'[h] = "done"
      BY <1>1, <1>4 DEF ReadMessage3, TypeOK, Used
    <2>6. SessionOK(n, s)'
      BY <1>1, <1>2, <2>1, <2>4, <2>5 DEF SessionOK, Used
    <2>7. ~SessionOK(n, s)
      BY <1>1, <2>1, <2>2 DEF SessionOK, Used
    <2>8. QED
      BY <1>4, <2>6, <2>7 DEF ReadMessage3, IInv, SessionInv
  <1>5. QED
    BY <1>3, <1>4

\* SessionInv and NoSessionReturns are kept.
LEMMA SessionStep == TypeOK /\ IInv /\ [Next]_vars => SessionInv' /\ NoSessionReturns'
  <1> SUFFICES ASSUME TypeOK, IInv, [Next]_vars PROVE SessionInv' /\ NoSessionReturns'
    OBVIOUS
  <1>1. Lasting
    BY StepLasting
  <1>2. SessionInv /\ NoSessionReturns
    BY DEF IInv
  <1>3. \A n \in Nodes : \A s \in past[n] \cup {session[n]} : s # None => SessionOK(n, s)'
    <2> SUFFICES ASSUME NEW n \in Nodes, NEW s \in past[n] \cup {session[n]}, s # None
                 PROVE  SessionOK(n, s)'
      OBVIOUS
    <2>1. s \in Sessions /\ SessionOK(n, s)
      BY <1>2 DEF SessionInv, TypeOK
    <2>2. QED
      BY <1>1, <2>1, SessionLasts
  <1>4. ASSUME NEW n \in Nodes, NEW s, Establish(n, s), SessionOK(n, s)',
               s # None => s \notin past[n] \cup {session[n]}
        PROVE  SessionInv' /\ NoSessionReturns'
    <2>1. \A x \in Nodes : /\ x # n => past'[x] = past[x] /\ session'[x] = session[x]
                           /\ x = n => /\ past'[x] = past[x] \cup ({session[x]} \ {None})
                                       /\ session'[x] = s
      BY <1>4 DEF Establish, TypeOK
    <2>2. SessionInv'
      BY <1>2, <1>3, <1>4, <2>1 DEF SessionInv
    <2>3. NoSessionReturns'
      <3>1. \A x \in Nodes : None \notin past[x]
        BY <1>2 DEF SessionInv
      <3>2. QED
        BY <1>2, <1>4, <2>1, <3>1, SMT DEF NoSessionReturns
    <2>4. QED
      BY <2>2, <2>3
  <1>5. ASSUME NEW n \in Nodes, removePeer(n) PROVE SessionInv' /\ NoSessionReturns'
    BY <1>2, <1>3, <1>5, SMT DEF removePeer, SessionInv, NoSessionReturns, TypeOK
  <1>6. CASE UNCHANGED <<session, past>>
    BY <1>2, <1>3, <1>6 DEF SessionInv, NoSessionReturns
  <1>7. ASSUME NEW n \in Nodes, ProcessMessage(n) PROVE SessionInv' /\ NoSessionReturns'
    <2>1. PICK h, m : h = reading[n].hs /\ m = reading[n].packet
      OBVIOUS
    <2>2. CASE ReadMessage2(n, h, m)
      <3>1. PICK s : s = [init |-> h, resp |-> m.resp]
        OBVIOUS
      <3>2. /\ Establish(n, s) /\ SessionOK(n, s)'
            /\ s # None => s \notin past[n] \cup {session[n]}
        BY <1>1, <1>7, <2>1, <2>2, <3>1, NewSession
      <3>3. QED
        BY <1>4, <3>2
    <2>3. CASE ReadMessage3(n, h, m)
      <3>1. PICK s : s = [init |-> m.init, resp |-> h]
        OBVIOUS
      <3>2. /\ Establish(n, s) /\ SessionOK(n, s)'
            /\ s # None => s \notin past[n] \cup {session[n]}
        BY <1>1, <1>7, <2>1, <2>3, <3>1, NewSession
      <3>3. QED
        BY <1>4, <3>2
    <2>4. CASE ReadMessage1(n, h, m) \/ Refuse(n, h, m)
      BY <1>6, <2>4 DEF ReadMessage1, Refuse
    <2>5. QED
      BY <1>7, <2>1, <2>2, <2>3, <2>4 DEF ProcessMessage
  <1>8. QED
    BY <1>5, <1>6, <1>7 DEF Next, ConnectStart, ConnectRegister, sendFastRehandshake, GetOrCreate,
       PendingExpires, cleanupStaleMappings, vars

----------------------------------------------------------------------------
\* The inductive invariant holds throughout.
THEOREM Invariance == Spec => [](TypeOK /\ IInv)
  <1>1. Init => TypeOK /\ IInv
    BY InitOK
  <1>2. TypeOK /\ IInv /\ [Next]_vars => TypeOK' /\ IInv'
    BY TypeStep, NetStep, HeldStep, SessionStep, PendingStep DEF IInv
  <1>3. QED
    BY <1>1, <1>2, PTL DEF Spec

(***************************************************************************)
(* Every variable keeps its type: in particular, whatever packet a reader  *)
(* takes for message 1, the session a node installs names two handshakes.  *)
(***************************************************************************)
THEOREM TypeCorrect == Spec => []TypeOK
  BY Invariance, PTL

(***************************************************************************)
(* A responder's session is one its initiator has established too: message *)
(* 3 is sent by the completed initiator only (processHandshake).           *)
(***************************************************************************)
THEOREM RespondersAreConfirmed == Spec => []ResponderConfirmed
  <1>1. TypeOK /\ IInv => ResponderConfirmed
    BY DEF IInv, SessionInv, SessionOK, ResponderConfirmed
  <1>2. QED
    BY <1>1, Invariance, PTL

(***************************************************************************)
(* No late or duplicated packet brings back a session that was replaced or *)
(* closed (processHandshake, handleExistingPeer).                          *)
(***************************************************************************)
THEOREM SessionsNeverReturn == Spec => []NoSessionReturns
  BY Invariance, PTL DEF IInv

(***************************************************************************)
(* A completed handshake never stays in pendingHandshakes.                 *)
(***************************************************************************)
THEOREM CompletedIsForgotten == Spec => []NoCompletedPending
  BY Invariance, PTL DEF IInv
=============================================================================
