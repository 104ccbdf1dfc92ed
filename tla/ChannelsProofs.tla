--------------------------- MODULE ChannelsProofs ---------------------------
(***************************************************************************)
(* Who is believed to be in a channel, for any nodes, channels and bounds: *)
(* the inductive invariants behind OnlyToMembers, EarlyChannelsKnown,      *)
(* SomeoneKnows and LeaversForgotten of Channels, and their proofs.        *)
(***************************************************************************)
EXTENDS Channels, TLAPS

\* Whatever is believed or said of a node was true of it at some time.
Founded ==
    /\ \A n, m \in Nodes : \A c \in remote[n][m] : WasMember(n, c) /\ WasMember(m, c)
    /\ \A u \in Notices : net[u] > 0 => WasMember(u.from, u.chan)
    /\ \A n \in Nodes : \A op \in Ops, c \in Channels : <<op, c>> \in telling[n] => WasMember(n, c)
    /\ OnlyToMembers

\* A node that has not left a channel has not said so.
NoLeaves ==
    \A n \in Nodes : \A c \in Channels : past[n][c] # "left" =>
        /\ <<"leave", c>> \notin telling[n]
        /\ \A m \in Nodes : net[Notice("leave", n, m, c)] = 0

\* What n is in from the start has reached m or is on its way there, once n
\* has sent its channels to m.
EarlyTold ==
    \A n \in Nodes : \A m \in Nodes \ {n} : \A c \in joined[n] \cap joined[m] :
        /\ m \in linked[n] /\ m \notin syncing[n]
        /\ past[n][c] = "steady" /\ past[m][c] = "steady"
        /\ <<n, m>> \notin lost /\ <<m, n>> \notin unlinked
        => \/ net[Notice("join", n, m, c)] > 0
           \/ n \in linked[m] /\ c \in remote[m][n]

\* m knows that n is in c, or n has still to say so, or it is on its way.
Told(n, m, c) ==
    \/ <<"join", c>> \in telling[n]
    \/ m \in syncing[n]
    \/ net[Notice("join", n, m, c)] > 0
    \/ c \in remote[m][n]

\* Of two peers in a channel, one knows or is being told of the other.
OneTold ==
    \A n \in Nodes : \A m \in Nodes \ {n} : \A c \in joined[n] \cap joined[m] :
        /\ m \in linked[n] /\ n \in linked[m]
        /\ past[n][c] # "left" /\ past[m][c] # "left"
        /\ <<n, m>> \notin lost /\ <<m, n>> \notin lost
        => Told(n, m, c) \/ Told(m, n, c)

\* A node has said nothing to one it has not had in its peer table yet.
Quiet ==
    \A n, m \in Nodes : m \notin linked[n] /\ <<n, m>> \notin unlinked =>
        /\ m \notin syncing[n] /\ remote[m][n] = {}
        /\ \A u \in Notices : u.from = n /\ u.to = m => ~(net[u] > 0)

\* A node that has to say that it joined is in the channel.
JoinsAreTrue ==
    \A n \in Nodes, c \in Channels : <<"join", c>> \in telling[n] => c \in joined[n]

\* A join and a leave on their way at once have been noted.
MixedNoted == Mixing(net) \subseteq mixed

\* While a node that is not in the channel is believed, or about to be
\* believed, to be in it, its leave is still to come.
LeaveTold ==
    \A n, m \in Nodes : \A c \in Channels \ joined[n] :
        /\ past[m][c] # "left"
        /\ <<n, m>> \notin lost \cup unlinked \cup mixed
        /\ c \in remote[m][n] \/ net[Notice("join", n, m, c)] > 0
        => <<"leave", c>> \in telling[n] \/ net[Notice("leave", n, m, c)] > 0

----------------------------------------------------------------------------
(* Announcements and steps.                                                *)

\* First-order reasoning suffices for most leaves; those that need records or
\* arithmetic cite SMT.
USE Zenon

\* An announcement is known by its four parts.
LEMMA NoticeParts ==
    /\ \A op \in Ops, n, m \in Nodes, c \in Channels :
          /\ Notice(op, n, m, c) \in Notices
          /\ Notice(op, n, m, c).op = op /\ Notice(op, n, m, c).chan = c
          /\ Notice(op, n, m, c).from = n /\ Notice(op, n, m, c).to = m
    /\ \A u \in Notices :
          /\ u.op \in Ops /\ u.from \in Nodes /\ u.to \in Nodes /\ u.chan \in Channels
          /\ u = Notice(u.op, u.from, u.to, u.chan)
BY SMT DEF Notice, Notices

\* The steps, one by one.
LEMMA StepCases ==
    ASSUME [Next]_vars, NEW P,
           \A n \in Nodes, c \in Channels :
              JoinChannel(n, c) \/ LeaveChannel(n, c) \/ Broadcast(n, c) => P,
           \A n \in Nodes, c \in Channels, op \in Ops : broadcastChannelUpdate(n, op, c) => P,
           \A n \in Nodes : \A m \in Nodes \ {n} :
              Link(n, m) \/ UpgradeToTCP(n, m) \/ removePeer(n, m) \/ syncChannelsWithPeer(n, m) => P,
           \A u \in Notices : processChannelUpdate(u) => P,
           \A d \in data : handleAppFrame(d) => P,
           UNCHANGED vars => P
    PROVE  P
BY DEF Next

\* What broadcastChannelUpdate puts on the way.
LEMMA Announced ==
    ASSUME TypeOK, NEW n \in Nodes, NEW c \in Channels, NEW op \in Ops,
           broadcastChannelUpdate(n, op, c)
    PROVE  \A u \in Notices : net'[u] > 0 <=>
              (net[u] > 0 \/ \E m \in linked[n] : u = Notice(op, n, m, c))
BY SMT DEF TypeOK, broadcastChannelUpdate

\* What syncChannelsWithPeer puts on the way.
LEMMA Synced ==
    ASSUME TypeOK, NEW n \in Nodes, NEW m \in Nodes, syncChannelsWithPeer(n, m)
    PROVE  \A u \in Notices : net'[u] > 0 <=>
              (net[u] > 0 \/ (m \in linked[n] /\ \E c \in joined[n] : u = Notice("join", n, m, c)))
BY SMT DEF TypeOK, syncChannelsWithPeer

\* What handling an announcement, or losing it, changes.
LEMMA Processed ==
    ASSUME TypeOK, NEW u \in Notices, processChannelUpdate(u)
    PROVE  /\ remote' \in [Nodes -> [Nodes -> SUBSET Channels]]
           /\ net[u] > 0 /\ \A v \in Notices : v # u => net'[v] = net[v]
           /\ \A n, m \in Nodes : n # u.to \/ m # u.from => remote'[n][m] = remote[n][m]
           /\ \A c \in remote'[u.to][u.from] :
                 c \in remote[u.to][u.from] \/ (c = u.chan /\ c \in joined[u.to] /\ u.op = "join")
           /\ \A c \in remote[u.to][u.from] :
                 c \in remote'[u.to][u.from] \/ (c = u.chan /\ u.op = "leave")
           /\ lost \subseteq lost'
           /\ \/ <<u.from, u.to>> \in lost'
              \/ /\ u.from \in linked[u.to]
                 /\ u.op = "join" /\ u.chan \in joined[u.to] => u.chan \in remote'[u.to][u.from]
                 /\ u.op = "leave" /\ u.chan \in joined[u.to] => u.chan \notin remote'[u.to][u.from]
<1> USE NoticeParts
<1> DEFINE new == IF u.chan \notin joined[u.to] THEN remote[u.to][u.from]
                  ELSE IF u.op = "join" THEN remote[u.to][u.from] \cup {u.chan}
                  ELSE remote[u.to][u.from] \ {u.chan}
<1>1. net[u] > 0 /\ \A v \in Notices : v # u => net'[v] = net[v]
  BY SMT DEF TypeOK, processChannelUpdate
<1>2. u.from \in Nodes /\ u.to \in Nodes /\ remote \in [Nodes -> [Nodes -> SUBSET Channels]]
  BY DEF TypeOK
<1>3. CASE u.from \in linked[u.to] /\ Applied(u) /\ UNCHANGED lost
  <2>1. new \in SUBSET Channels
    <3>1. remote[u.to][u.from] \in SUBSET Channels /\ u.chan \in Channels BY <1>2, SMT
    <3> QED BY <3>1
  <2>2. remote' = [remote EXCEPT ![u.to][u.from] = new] BY <1>3 DEF Applied
  <2> HIDE DEF new
  <2>3. /\ remote' \in [Nodes -> [Nodes -> SUBSET Channels]]
        /\ remote'[u.to][u.from] = new
        /\ \A n, m \in Nodes : n # u.to \/ m # u.from => remote'[n][m] = remote[n][m]
    BY <1>2, <2>1, <2>2, SMT
  <2>4. /\ \A c \in new : c \in remote[u.to][u.from] \/ (c = u.chan /\ c \in joined[u.to] /\ u.op = "join")
        /\ \A c \in remote[u.to][u.from] : c \in new \/ (c = u.chan /\ u.op = "leave")
        /\ u.op = "join" /\ u.chan \in joined[u.to] => u.chan \in new
        /\ u.op = "leave" /\ u.chan \in joined[u.to] => u.chan \notin new
    BY SMT DEF new, Ops
  <2> QED BY <1>1, <1>3, <2>3, <2>4
<1>4. CASE <<u.from, u.to>> \in lost' /\ lost \subseteq lost' /\ remote' = remote
  BY <1>1, <1>2, <1>4
<1> QED BY <1>3, <1>4 DEF processChannelUpdate

\* Every variable keeps its type in every step.
LEMMA TypeStep ==
    ASSUME TypeOK, [Next]_vars
    PROVE  TypeOK'
<1> USE NoticeParts DEF TypeOK
<1>1. ASSUME NEW n \in Nodes, NEW c \in Channels,
             JoinChannel(n, c) \/ LeaveChannel(n, c) \/ Broadcast(n, c)
      PROVE  TypeOK'
  <2>1. CASE JoinChannel(n, c)
    <3>1. <<"join", c>> \in Ops \X Channels BY DEF Ops
    <3> QED BY <2>1, <3>1, SMT DEF JoinChannel, links, flight
  <2>2. CASE LeaveChannel(n, c)
    <3>1. <<"leave", c>> \in Ops \X Channels BY DEF Ops
    <3> QED BY <2>2, <3>1, SMT DEF LeaveChannel, links, flight
  <2>3. CASE Broadcast(n, c)
    <3>1. data' \in SUBSET Messages BY <2>3, SMT DEF Broadcast, GetPeersInChannel, Messages
    <3> QED BY <2>3, <3>1 DEF Broadcast, links, flight
  <2> QED BY <1>1, <2>1, <2>2, <2>3
<1>2. ASSUME NEW n \in Nodes, NEW c \in Channels, NEW op \in Ops, broadcastChannelUpdate(n, op, c)
      PROVE  TypeOK'
  <2>1. net' \in [Notices -> Nat] BY <1>2, SMT DEF broadcastChannelUpdate
  <2>2. mixed' \in SUBSET (Nodes \X Nodes) BY <1>2 DEF broadcastChannelUpdate, Mixing
  <2> QED BY <1>2, <2>1, <2>2 DEF broadcastChannelUpdate, links
<1>3. ASSUME NEW n \in Nodes, NEW m \in Nodes \ {n},
             Link(n, m) \/ UpgradeToTCP(n, m) \/ removePeer(n, m) \/ syncChannelsWithPeer(n, m)
      PROVE  TypeOK'
  <2>1. CASE Link(n, m) BY <2>1, SMT DEF Link, flight
  <2>2. CASE UpgradeToTCP(n, m) BY <2>2, SMT DEF UpgradeToTCP, links, flight
  <2>3. CASE removePeer(n, m) BY <2>3, SMT DEF removePeer, flight
  <2>4. CASE syncChannelsWithPeer(n, m)
    <3>1. net' \in [Notices -> Nat] BY <2>4, SMT DEF syncChannelsWithPeer
    <3>2. mixed' \in SUBSET (Nodes \X Nodes) BY <2>4 DEF syncChannelsWithPeer, Mixing
    <3> QED BY <2>4, <3>1, <3>2 DEF syncChannelsWithPeer, links
  <2> QED BY <1>3, <2>1, <2>2, <2>3, <2>4
<1>4. ASSUME NEW u \in Notices, processChannelUpdate(u) PROVE TypeOK'
  <2>1. net' \in [Notices -> Nat] BY <1>4, SMT DEF processChannelUpdate
  <2>2. remote' \in [Nodes -> [Nodes -> SUBSET Channels]] BY <1>4, Processed
  <2>3. lost' \in SUBSET (Nodes \X Nodes) BY <1>4, SMT DEF processChannelUpdate
  <2> QED BY <1>4, <2>1, <2>2, <2>3 DEF processChannelUpdate, links
<1>5. ASSUME NEW d \in data, handleAppFrame(d) PROVE TypeOK'
  BY <1>5 DEF handleAppFrame, links, flight
<1>6. CASE UNCHANGED vars BY <1>6 DEF vars, links, flight
<1> QED BY <1>1, <1>2, <1>3, <1>4, <1>5, <1>6, StepCases

\* Every variable of the channels keeps its type, for any nodes and channels.
THEOREM TypeHolds == Spec => []TypeOK
<1>1. Init => TypeOK BY SMT DEF Init, TypeOK
<1> QED BY <1>1, TypeStep, PTL DEF Spec

----------------------------------------------------------------------------
(* Broadcasts.                                                             *)

\* A node that was in a channel stays one that was.
LEMMA MemberStays ==
    ASSUME TypeOK, [Next]_vars, NEW n \in Nodes, NEW c \in Channels, WasMember(n, c)
    PROVE  WasMember(n, c)'
<1> USE DEF WasMember
<1>1. ASSUME NEW k \in Nodes, NEW d \in Channels,
             JoinChannel(k, d) \/ LeaveChannel(k, d) \/ Broadcast(k, d)
      PROVE  WasMember(n, c)'
  <2>1. CASE JoinChannel(k, d) BY <2>1 DEF JoinChannel, TypeOK
  <2>2. CASE LeaveChannel(k, d) BY <2>2 DEF LeaveChannel, TypeOK
  <2>3. CASE Broadcast(k, d) BY <2>3 DEF Broadcast
  <2> QED BY <1>1, <2>1, <2>2, <2>3
<1>2. ASSUME UNCHANGED <<joined, past>> PROVE WasMember(n, c)' BY <1>2
<1>3. ASSUME NEW k \in Nodes, NEW d \in Channels, NEW op \in Ops, broadcastChannelUpdate(k, op, d)
      PROVE  WasMember(n, c)'
  BY <1>2, <1>3 DEF broadcastChannelUpdate
<1>4. ASSUME NEW k \in Nodes, NEW m \in Nodes \ {k},
             Link(k, m) \/ UpgradeToTCP(k, m) \/ removePeer(k, m) \/ syncChannelsWithPeer(k, m)
      PROVE  WasMember(n, c)'
  BY <1>2, <1>4 DEF Link, UpgradeToTCP, removePeer, syncChannelsWithPeer
<1>5. ASSUME NEW u \in Notices, processChannelUpdate(u) PROVE WasMember(n, c)'
  BY <1>2, <1>5 DEF processChannelUpdate
<1>6. ASSUME NEW d \in data, handleAppFrame(d) PROVE WasMember(n, c)'
  BY <1>2, <1>6 DEF handleAppFrame, flight
<1>7. CASE UNCHANGED vars BY <1>2, <1>7 DEF vars, flight
<1> QED BY <1>1, <1>3, <1>4, <1>5, <1>6, <1>7, StepCases

\* What is believed, said and sent stays founded in every step.
LEMMA FoundedStep ==
    ASSUME TypeOK, Founded, [Next]_vars
    PROVE  Founded'
<1> DEFINE Believed == \A n, m \in Nodes : \A c \in remote[n][m] : WasMember(n, c) /\ WasMember(m, c)
           OnWay == \A u \in Notices : net[u] > 0 => WasMember(u.from, u.chan)
           ToSay == \A n \in Nodes : \A op \in Ops, c \in Channels :
                       <<op, c>> \in telling[n] => WasMember(n, c)
<1>0. Believed /\ OnWay /\ ToSay /\ OnlyToMembers BY DEF Founded
<1>a. ASSUME UNCHANGED remote PROVE Believed'
  <2>1. \A n, m \in Nodes : remote[n][m] \subseteq Channels BY SMT DEF TypeOK
  <2> QED BY <1>0, <1>a, <2>1, MemberStays
<1>b. ASSUME UNCHANGED net PROVE OnWay' BY <1>0, <1>b, MemberStays, NoticeParts
<1>c. ASSUME \A n \in Nodes : telling'[n] \subseteq telling[n] PROVE ToSay'
  BY <1>0, <1>c, MemberStays
<1>d. ASSUME data' \subseteq data PROVE OnlyToMembers'
  <2>1. \A d \in data : d.to \in Nodes /\ d.from \in Nodes /\ d.chan \in Channels
    BY DEF TypeOK, Messages
  <2> QED BY <1>0, <1>d, <2>1, MemberStays DEF OnlyToMembers
<1>e. ASSUME Believed', OnWay', ToSay', OnlyToMembers' PROVE Founded' BY <1>e DEF Founded
<1> HIDE DEF Believed, OnWay, ToSay
<1>1. ASSUME NEW n \in Nodes, NEW c \in Channels,
             JoinChannel(n, c) \/ LeaveChannel(n, c) \/ Broadcast(n, c)
      PROVE  Founded'
  <2>1. CASE JoinChannel(n, c) \/ LeaveChannel(n, c)
    <3>1. UNCHANGED <<remote, net, data>> BY <2>1 DEF JoinChannel, LeaveChannel, flight
    <3>2. WasMember(n, c)' BY <2>1, SMT DEF JoinChannel, LeaveChannel, WasMember, TypeOK
    <3>3. \A op \in Ops, d \in Channels, k \in Nodes :
             <<op, d>> \in telling'[k] => <<op, d>> \in telling[k] \/ (k = n /\ d = c)
      BY <2>1, SMT DEF JoinChannel, LeaveChannel, TypeOK
    <3>4. ToSay' BY <1>0, <3>2, <3>3, MemberStays DEF ToSay
    <3> QED BY <1>a, <1>b, <1>d, <1>e, <3>1, <3>4
  <2>2. CASE Broadcast(n, c)
    <3>1. UNCHANGED <<remote, net, telling, joined, past>> BY <2>2 DEF Broadcast, flight
    <3>2. WasMember(n, c)' BY <2>2 DEF Broadcast, WasMember
    <3>3. \A m \in Nodes : c \in remote[n][m] => WasMember(m, c)' BY <1>0, MemberStays DEF Believed
    <3>4. \A d \in data' : d \in data \/ (d.from = n /\ d.chan = c /\ d.to \in Nodes /\ c \in remote[n][d.to])
      BY <2>2, SMT DEF Broadcast, GetPeersInChannel, TypeOK
    <3>5. \A d \in data : WasMember(d.to, d.chan)' /\ WasMember(d.from, d.chan)'
      <4>1. \A d \in data : d.to \in Nodes /\ d.from \in Nodes /\ d.chan \in Channels
        BY DEF TypeOK, Messages
      <4> QED BY <1>0, <4>1, MemberStays DEF OnlyToMembers
    <3>6. OnlyToMembers' BY <3>2, <3>3, <3>4, <3>5 DEF OnlyToMembers
    <3> QED BY <1>a, <1>b, <1>c, <1>e, <3>1, <3>6
  <2> QED BY <1>1, <2>1, <2>2
<1>2. ASSUME NEW n \in Nodes, NEW c \in Channels, NEW op \in Ops, broadcastChannelUpdate(n, op, c)
      PROVE  Founded'
  <2>1. UNCHANGED <<remote, data>> /\ <<op, c>> \in telling[n] BY <1>2 DEF broadcastChannelUpdate
  <2>2. \A k \in Nodes : telling'[k] \subseteq telling[k] BY <1>2 DEF broadcastChannelUpdate, TypeOK
  <2>3. WasMember(n, c)' BY <1>0, <2>1, MemberStays DEF ToSay
  <2>4. \A u \in Notices : net'[u] > 0 => net[u] > 0 \/ (u.from = n /\ u.chan = c)
    <3>1. linked[n] \subseteq Nodes BY DEF TypeOK
    <3> QED BY <1>2, <3>1, Announced, NoticeParts, SMT
  <2>5. OnWay' BY <1>0, <2>3, <2>4, MemberStays, NoticeParts DEF OnWay
  <2> QED BY <1>a, <1>c, <1>d, <1>e, <2>1, <2>2, <2>5
<1>3. ASSUME NEW n \in Nodes, NEW m \in Nodes \ {n},
             Link(n, m) \/ UpgradeToTCP(n, m) \/ removePeer(n, m) \/ syncChannelsWithPeer(n, m)
      PROVE  Founded'
  <2>1. CASE Link(n, m)
    <3>1. UNCHANGED <<net, telling, data>> BY <2>1 DEF Link, flight
    <3>2. \A k, q \in Nodes : remote'[k][q] \subseteq remote[k][q] BY <2>1 DEF Link, TypeOK
    <3>3. \A k, q \in Nodes : remote[k][q] \subseteq Channels BY SMT DEF TypeOK
    <3>4. Believed' BY <1>0, <3>2, <3>3, MemberStays DEF Believed
    <3> QED BY <1>b, <1>c, <1>d, <1>e, <3>1, <3>4
  <2>2. CASE UpgradeToTCP(n, m) \/ removePeer(n, m)
    <3>1. UNCHANGED <<remote, net, telling, data>> BY <2>2 DEF UpgradeToTCP, removePeer, flight
    <3> QED BY <1>a, <1>b, <1>c, <1>d, <1>e, <3>1
  <2>3. CASE syncChannelsWithPeer(n, m)
    <3>1. UNCHANGED <<remote, telling, data>> BY <2>3 DEF syncChannelsWithPeer
    <3>2. \A u \in Notices : net'[u] > 0 => net[u] > 0 \/ (u.from = n /\ u.chan \in joined[n])
      <4>1. joined[n] \subseteq Channels /\ "join" \in Ops BY DEF TypeOK, Ops
      <4> QED BY <2>3, <4>1, Synced, NoticeParts, SMT
    <3>3. OnWay' BY <1>0, <3>2, MemberStays, NoticeParts, SMT DEF OnWay, WasMember
    <3> QED BY <1>a, <1>c, <1>d, <1>e, <3>1, <3>3
  <2> QED BY <1>3, <2>1, <2>2, <2>3
<1>4. ASSUME NEW u \in Notices, processChannelUpdate(u) PROVE Founded'
  <2>1. UNCHANGED <<telling, data>> BY <1>4 DEF processChannelUpdate
  <2>2. \A v \in Notices : net'[v] > 0 => net[v] > 0 BY <1>4, Processed
  <2>3. OnWay' BY <1>0, <2>2, MemberStays, NoticeParts DEF OnWay
  <2>4. u.from \in Nodes /\ u.to \in Nodes /\ u.chan \in Channels BY NoticeParts
  <2>5. WasMember(u.from, u.chan)' BY <1>0, <1>4, <2>4, MemberStays, Processed DEF OnWay
  <2>6. u.chan \in joined[u.to] => WasMember(u.to, u.chan)'
    BY <2>4, MemberStays DEF WasMember
  <2>7. \A n, m \in Nodes : \A c \in remote'[n][m] :
           c \in remote[n][m] \/ (n = u.to /\ m = u.from /\ c = u.chan /\ c \in joined[u.to])
    <3>1. \A n, m \in Nodes : n # u.to \/ m # u.from => remote'[n][m] = remote[n][m]
      BY <1>4, Processed
    <3>2. \A c \in remote'[u.to][u.from] :
             c \in remote[u.to][u.from] \/ (c = u.chan /\ c \in joined[u.to])
      BY <1>4, Processed
    <3> QED BY <3>1, <3>2
  <2>8. \A n, m \in Nodes : remote[n][m] \subseteq Channels BY SMT DEF TypeOK
  <2>9. Believed' BY <1>0, <2>5, <2>6, <2>7, <2>8, MemberStays, SMT DEF Believed
  <2> QED BY <1>c, <1>d, <1>e, <2>1, <2>3, <2>9
<1>5. ASSUME NEW d \in data, handleAppFrame(d) PROVE Founded'
  <2>1. UNCHANGED <<remote, net, telling>> /\ data' \subseteq data BY <1>5 DEF handleAppFrame, flight
  <2> QED BY <1>a, <1>b, <1>c, <1>d, <1>e, <2>1
<1>6. CASE UNCHANGED vars
  <2>1. UNCHANGED <<remote, net, telling, data>> BY <1>6 DEF vars, flight
  <2> QED BY <1>a, <1>b, <1>c, <1>d, <1>e, <2>1
<1> QED BY <1>1, <1>2, <1>3, <1>4, <1>5, <1>6, StepCases

\* Broadcast sends nothing to a node that was never in the channel.
THEOREM OnlyMembersHold == Spec => []OnlyToMembers
<1>1. Init => Founded BY SMT DEF Init, Founded, OnlyToMembers
<1>2. TypeOK /\ Founded /\ [Next]_vars => Founded' BY FoundedStep
<1>3. Founded => OnlyToMembers BY DEF Founded
<1> QED BY <1>1, <1>2, <1>3, TypeHolds, PTL DEF Spec

----------------------------------------------------------------------------
(* Announcements.                                                          *)

\* Only a node that leaves says so, and it has left from then on.
LEMMA NoLeavesStep ==
    ASSUME TypeOK, NoLeaves, [Next]_vars
    PROVE  NoLeaves'
<1>0. "join" \in Ops /\ "leave" \in Ops BY DEF Ops
<1>a. ASSUME \A n \in Nodes, c \in Channels : past'[n][c] # "left" => past[n][c] # "left",
             \A n \in Nodes, c \in Channels : past'[n][c] # "left" /\ <<"leave", c>> \in telling'[n]
                => <<"leave", c>> \in telling[n],
             \A n, m \in Nodes, c \in Channels : past'[n][c] # "left"
                => (net'[Notice("leave", n, m, c)] > 0 => net[Notice("leave", n, m, c)] > 0)
      PROVE  NoLeaves'
  <2>1. \A n, m \in Nodes, c \in Channels :
           net[Notice("leave", n, m, c)] \in Nat /\ net'[Notice("leave", n, m, c)] \in Nat
    <3>1. TypeOK' BY TypeStep
    <3> QED BY <1>0, <3>1, NoticeParts, SMT DEF TypeOK
  <2> SUFFICES ASSUME NEW n \in Nodes, NEW c \in Channels, past'[n][c] # "left"
               PROVE  /\ <<"leave", c>> \notin telling'[n]
                      /\ \A m \in Nodes : net'[Notice("leave", n, m, c)] = 0
    BY DEF NoLeaves
  <2>2. /\ <<"leave", c>> \notin telling[n]
        /\ \A m \in Nodes : net[Notice("leave", n, m, c)] = 0
    BY <1>a DEF NoLeaves
  <2> QED BY <1>a, <2>1, <2>2, SMT
<1>1. ASSUME NEW n \in Nodes, NEW c \in Channels,
             JoinChannel(n, c) \/ LeaveChannel(n, c) \/ Broadcast(n, c)
      PROVE  NoLeaves'
  <2>1. UNCHANGED net BY <1>1 DEF JoinChannel, LeaveChannel, Broadcast, flight
  <2>2. \A k \in Nodes, d \in Channels : past'[k][d] # "left" => past[k][d] # "left"
    <3>1. CASE JoinChannel(n, c) BY <3>1 DEF JoinChannel, TypeOK
    <3>2. CASE LeaveChannel(n, c) BY <3>2 DEF LeaveChannel, TypeOK
    <3> QED BY <1>1, <3>1, <3>2 DEF Broadcast
  <2>3. \A k \in Nodes, d \in Channels : past'[k][d] # "left" /\ <<"leave", d>> \in telling'[k]
                => <<"leave", d>> \in telling[k]
    <3>1. CASE JoinChannel(n, c) BY <3>1 DEF JoinChannel, TypeOK
    <3>2. CASE LeaveChannel(n, c) BY <3>2 DEF LeaveChannel, TypeOK
    <3> QED BY <1>1, <3>1, <3>2 DEF Broadcast
  <2> QED BY <1>a, <2>1, <2>2, <2>3
<1>2. ASSUME NEW n \in Nodes, NEW c \in Channels, NEW op \in Ops, broadcastChannelUpdate(n, op, c)
      PROVE  NoLeaves'
  <2>1. UNCHANGED past /\ (\A k \in Nodes : telling'[k] \subseteq telling[k]) /\ <<op, c>> \in telling[n]
    BY <1>2 DEF broadcastChannelUpdate, TypeOK
  <2>2. \A u \in Notices : net'[u] > 0 => net[u] > 0 \/ (u.op = op /\ u.from = n /\ u.chan = c)
    <3>1. linked[n] \subseteq Nodes BY DEF TypeOK
    <3> QED BY <1>2, <3>1, Announced, NoticeParts, SMT
  <2>3. \A k, m \in Nodes, d \in Channels : past[k][d] # "left"
           => (net'[Notice("leave", k, m, d)] > 0 => net[Notice("leave", k, m, d)] > 0)
    <3> SUFFICES ASSUME NEW k \in Nodes, NEW m \in Nodes, NEW d \in Channels, past[k][d] # "left",
                        net'[Notice("leave", k, m, d)] > 0
                 PROVE  net[Notice("leave", k, m, d)] > 0
      OBVIOUS
    <3>1. <<"leave", d>> \notin telling[k] BY DEF NoLeaves
    <3> QED BY <1>0, <2>1, <2>2, <3>1, NoticeParts, SMT
  <2> QED BY <1>a, <2>1, <2>3
<1>3. ASSUME NEW n \in Nodes, NEW m \in Nodes \ {n},
             Link(n, m) \/ UpgradeToTCP(n, m) \/ removePeer(n, m) \/ syncChannelsWithPeer(n, m)
      PROVE  NoLeaves'
  <2>1. UNCHANGED <<past, telling>>
    BY <1>3 DEF Link, UpgradeToTCP, removePeer, syncChannelsWithPeer
  <2>2. \A u \in Notices : net'[u] > 0 => net[u] > 0 \/ u.op = "join"
    <3>1. CASE UNCHANGED net BY <3>1
    <3>2. CASE syncChannelsWithPeer(n, m)
      <4>1. \A c \in joined[n] : Notice("join", n, m, c).op = "join" BY DEF Notice
      <4> QED BY <3>2, <4>1, Synced, SMT
    <3> QED BY <1>3, <3>1, <3>2 DEF Link, UpgradeToTCP, removePeer, flight
  <2>3. \A k, q \in Nodes, d \in Channels :
           net'[Notice("leave", k, q, d)] > 0 => net[Notice("leave", k, q, d)] > 0
    <3> SUFFICES ASSUME NEW k \in Nodes, NEW q \in Nodes, NEW d \in Channels,
                        net'[Notice("leave", k, q, d)] > 0
                 PROVE  net[Notice("leave", k, q, d)] > 0
      OBVIOUS
    <3>1. Notice("leave", k, q, d) \in Notices /\ Notice("leave", k, q, d).op # "join"
      BY <1>0, NoticeParts
    <3> QED BY <2>2, <3>1
  <2> QED BY <1>a, <2>1, <2>3
<1>4. ASSUME NEW u \in Notices, processChannelUpdate(u) PROVE NoLeaves'
  <2>1. UNCHANGED <<past, telling>> BY <1>4 DEF processChannelUpdate
  <2>2. \A v \in Notices : net'[v] > 0 => net[v] > 0 BY <1>4, Processed
  <2>3. \A k, q \in Nodes, d \in Channels :
           net'[Notice("leave", k, q, d)] > 0 => net[Notice("leave", k, q, d)] > 0
    BY <1>0, <2>2, NoticeParts
  <2> QED BY <1>a, <2>1, <2>3
<1>5. ASSUME NEW d \in data, handleAppFrame(d) PROVE NoLeaves'
  BY <1>a, <1>5 DEF handleAppFrame, flight
<1>6. CASE UNCHANGED vars BY <1>a, <1>6 DEF vars, flight
<1> QED BY <1>1, <1>2, <1>3, <1>4, <1>5, <1>6, StepCases

\* Membership in one step: a channel is joined or left only with an
\* announcement to make, and only broadcastChannelUpdate makes it.
LEMMA MemberSteps ==
    ASSUME TypeOK, [Next]_vars, NEW n \in Nodes, NEW c \in Channels
    PROVE  /\ past'[n][c] = "steady" => past[n][c] = "steady" /\ (c \in joined'[n] => c \in joined[n])
           /\ past'[n][c] # "left" => past[n][c] # "left"
           /\ c \in joined'[n] => c \in joined[n] \/ <<"join", c>> \in telling'[n]
           /\ c \in joined[n] => c \in joined'[n] \/ <<"leave", c>> \in telling'[n]
           /\ \A op \in Ops : \/ <<op, c>> \in telling[n] => <<op, c>> \in telling'[n]
                            \/ broadcastChannelUpdate(n, op, c)
<1> DEFINE P == /\ past'[n][c] = "steady" => past[n][c] = "steady" /\ (c \in joined'[n] => c \in joined[n])
                /\ past'[n][c] # "left" => past[n][c] # "left"
                /\ c \in joined'[n] => c \in joined[n] \/ <<"join", c>> \in telling'[n]
                /\ c \in joined[n] => c \in joined'[n] \/ <<"leave", c>> \in telling'[n]
                /\ \A op \in Ops : \/ <<op, c>> \in telling[n] => <<op, c>> \in telling'[n]
                                 \/ broadcastChannelUpdate(n, op, c)
<1>a. ASSUME UNCHANGED <<joined, past, telling>> PROVE P BY <1>a
<1>1. ASSUME NEW k \in Nodes, NEW d \in Channels,
             JoinChannel(k, d) \/ LeaveChannel(k, d) \/ Broadcast(k, d)
      PROVE  P
  <2>1. CASE JoinChannel(k, d) BY <2>1 DEF JoinChannel, TypeOK
  <2>2. CASE LeaveChannel(k, d) BY <2>2 DEF LeaveChannel, TypeOK
  <2>3. CASE Broadcast(k, d) BY <1>a, <2>3 DEF Broadcast
  <2> QED BY <1>1, <2>1, <2>2, <2>3
<1>2. ASSUME NEW k \in Nodes, NEW d \in Channels, NEW op \in Ops, broadcastChannelUpdate(k, op, d)
      PROVE  P
  <2>1. UNCHANGED <<joined, past>> BY <1>2 DEF broadcastChannelUpdate
  <2>2. telling'[n] = telling[n] \/ (n = k /\ telling'[n] = telling[n] \ {<<op, d>>})
    BY <1>2 DEF broadcastChannelUpdate, TypeOK
  <2>3. \A o \in Ops : <<o, c>> = <<op, d>> /\ n = k => broadcastChannelUpdate(n, o, c)
    BY <1>2
  <2> QED BY <2>1, <2>2, <2>3
<1>3. ASSUME NEW k \in Nodes, NEW m \in Nodes \ {k},
             Link(k, m) \/ UpgradeToTCP(k, m) \/ removePeer(k, m) \/ syncChannelsWithPeer(k, m)
      PROVE  P
  BY <1>a, <1>3 DEF Link, UpgradeToTCP, removePeer, syncChannelsWithPeer
<1>4. ASSUME NEW u \in Notices, processChannelUpdate(u) PROVE P
  BY <1>a, <1>4 DEF processChannelUpdate
<1>5. ASSUME NEW d \in data, handleAppFrame(d) PROVE P BY <1>a, <1>5 DEF handleAppFrame, flight
<1>6. CASE UNCHANGED vars BY <1>a, <1>6 DEF vars, flight
<1> QED BY <1>1, <1>2, <1>3, <1>4, <1>5, <1>6 DEF Next

\* The peer table in one step: a peer that is added is sent the channels, and
\* only syncChannelsWithPeer sends them.
LEMMA PeerSteps ==
    ASSUME TypeOK, [Next]_vars, NEW n \in Nodes, NEW m \in Nodes
    PROVE  /\ lost \subseteq lost' /\ unlinked \subseteq unlinked'
           /\ m \in linked[n] => m \in linked'[n] \/ <<n, m>> \in unlinked'
           /\ m \in linked'[n] => m \in linked[n] \/ m \in syncing'[n]
           /\ m \in syncing[n] => m \in syncing'[n] \/ syncChannelsWithPeer(n, m)
           /\ m \in syncing'[n] => m \in syncing[n] \/ m \in linked'[n]
<1> DEFINE P == /\ lost \subseteq lost' /\ unlinked \subseteq unlinked'
                /\ m \in linked[n] => m \in linked'[n] \/ <<n, m>> \in unlinked'
                /\ m \in linked'[n] => m \in linked[n] \/ m \in syncing'[n]
                /\ m \in syncing[n] => m \in syncing'[n] \/ syncChannelsWithPeer(n, m)
                /\ m \in syncing'[n] => m \in syncing[n] \/ m \in linked'[n]
<1>a. ASSUME UNCHANGED <<linked, unlinked, syncing>>, lost \subseteq lost' PROVE P BY <1>a
<1>1. ASSUME NEW k \in Nodes, NEW d \in Channels,
             JoinChannel(k, d) \/ LeaveChannel(k, d) \/ Broadcast(k, d)
      PROVE  P
  BY <1>a, <1>1 DEF JoinChannel, LeaveChannel, Broadcast, links
<1>2. ASSUME NEW k \in Nodes, NEW d \in Channels, NEW op \in Ops, broadcastChannelUpdate(k, op, d)
      PROVE  P
  BY <1>a, <1>2 DEF broadcastChannelUpdate, links
<1>3. ASSUME NEW k \in Nodes, NEW q \in Nodes \ {k},
             Link(k, q) \/ UpgradeToTCP(k, q) \/ removePeer(k, q) \/ syncChannelsWithPeer(k, q)
      PROVE  P
  <2>1. CASE Link(k, q) BY <2>1 DEF Link, TypeOK
  <2>2. CASE UpgradeToTCP(k, q) BY <2>2 DEF UpgradeToTCP, TypeOK, links
  <2>3. CASE removePeer(k, q) BY <2>3 DEF removePeer, TypeOK
  <2>4. CASE syncChannelsWithPeer(k, q)
    <3>1. UNCHANGED <<linked, unlinked, lost>> /\ syncing' = [syncing EXCEPT ![k] = @ \ {q}]
      BY <2>4 DEF syncChannelsWithPeer, links
    <3> QED BY <2>4, <3>1 DEF TypeOK
  <2> QED BY <1>3, <2>1, <2>2, <2>3, <2>4
<1>4. ASSUME NEW u \in Notices, processChannelUpdate(u) PROVE P
  BY <1>a, <1>4 DEF processChannelUpdate, links
<1>5. ASSUME NEW d \in data, handleAppFrame(d) PROVE P BY <1>a, <1>5 DEF handleAppFrame, links, flight
<1>6. CASE UNCHANGED vars BY <1>a, <1>6 DEF vars, links, flight
<1> QED BY <1>1, <1>2, <1>3, <1>4, <1>5, <1>6 DEF Next

\* An announcement of a channel the receiver is in stays on its way until it
\* is believed or lost.
LEMMA NoticeKept ==
    ASSUME TypeOK, [Next]_vars, NEW n \in Nodes, NEW m \in Nodes, NEW c \in joined[m],
           net[Notice("join", n, m, c)] > 0, <<n, m>> \notin lost'
    PROVE  \/ net'[Notice("join", n, m, c)] > 0
           \/ n \in linked[m] /\ UNCHANGED linked /\ c \in remote'[m][n]
<1> DEFINE J == Notice("join", n, m, c)
           P == net'[J] > 0 \/ (n \in linked[m] /\ UNCHANGED linked /\ c \in remote'[m][n])
<1>0. c \in Channels /\ "join" \in Ops BY DEF TypeOK, Ops
<1>j. J \in Notices /\ J.op = "join" /\ J.from = n /\ J.to = m /\ J.chan = c /\ net[J] > 0
  BY <1>0, NoticeParts, SMT
<1> HIDE DEF J
<1>a. ASSUME UNCHANGED net PROVE P BY <1>a, <1>j
<1>1. ASSUME NEW k \in Nodes, NEW d \in Channels,
             JoinChannel(k, d) \/ LeaveChannel(k, d) \/ Broadcast(k, d)
      PROVE  P
  BY <1>a, <1>1 DEF JoinChannel, LeaveChannel, Broadcast, flight
<1>2. ASSUME NEW k \in Nodes, NEW d \in Channels, NEW op \in Ops, broadcastChannelUpdate(k, op, d)
      PROVE  P
  BY <1>2, <1>j, Announced
<1>3. ASSUME NEW k \in Nodes, NEW q \in Nodes \ {k},
             Link(k, q) \/ UpgradeToTCP(k, q) \/ removePeer(k, q) \/ syncChannelsWithPeer(k, q)
      PROVE  P
  <2>1. CASE syncChannelsWithPeer(k, q) BY <2>1, <1>j, Synced
  <2> QED BY <1>a, <1>3, <2>1 DEF Link, UpgradeToTCP, removePeer, flight
<1>4. ASSUME NEW u \in Notices, processChannelUpdate(u) PROVE P
  <2>1. CASE u # J
    <3>1. \A v \in Notices : v # u => net'[v] = net[v] BY <1>4, Processed
    <3> QED BY <1>j, <2>1, <3>1
  <2>2. CASE u = J
    <3>1. UNCHANGED linked BY <1>4 DEF processChannelUpdate, links
    <3> QED BY <1>4, <1>j, <2>2, <3>1, Processed
  <2> QED BY <2>1, <2>2
<1>5. ASSUME NEW d \in data, handleAppFrame(d) PROVE P BY <1>a, <1>5 DEF handleAppFrame, flight
<1>6. CASE UNCHANGED vars BY <1>a, <1>6 DEF vars, flight
<1> QED BY <1>1, <1>2, <1>3, <1>4, <1>5, <1>6 DEF Next, J

\* What m believes of n it goes on believing while n has not left, unless it
\* adds n anew.
LEMMA BeliefKept ==
    ASSUME TypeOK, NoLeaves, [Next]_vars, NEW n \in Nodes, NEW m \in Nodes, NEW c \in remote[m][n],
           past[n][c] # "left", n \in linked[m]
    PROVE  c \in remote'[m][n]
<1> DEFINE P == c \in remote'[m][n]
<1>0. c \in Channels /\ "leave" \in Ops BY SMT DEF TypeOK, Ops
<1>a. ASSUME UNCHANGED remote PROVE P BY <1>a
<1>1. ASSUME NEW k \in Nodes, NEW d \in Channels,
             JoinChannel(k, d) \/ LeaveChannel(k, d) \/ Broadcast(k, d)
      PROVE  P
  BY <1>a, <1>1 DEF JoinChannel, LeaveChannel, Broadcast, flight
<1>2. ASSUME NEW k \in Nodes, NEW d \in Channels, NEW op \in Ops, broadcastChannelUpdate(k, op, d)
      PROVE  P
  BY <1>a, <1>2 DEF broadcastChannelUpdate
<1>3. ASSUME NEW k \in Nodes, NEW q \in Nodes \ {k},
             Link(k, q) \/ UpgradeToTCP(k, q) \/ removePeer(k, q) \/ syncChannelsWithPeer(k, q)
      PROVE  P
  <2>1. CASE Link(k, q)
    <3>1. k # m \/ q # n BY <2>1 DEF Link, flight
    <3> QED BY <2>1, <3>1 DEF Link, TypeOK
  <2> QED BY <1>a, <1>3, <2>1 DEF UpgradeToTCP, removePeer, syncChannelsWithPeer
<1>4. ASSUME NEW u \in Notices, processChannelUpdate(u) PROVE P
  <2>1. CASE u.to # m \/ u.from # n BY <1>4, <2>1, Processed
  <2>2. CASE u.to = m /\ u.from = n
    <3>1. net[u] > 0 /\ (c \in remote'[m][n] \/ (c = u.chan /\ u.op = "leave"))
      BY <1>4, <2>2, Processed
    <3>2. net[Notice("leave", n, m, c)] = 0 BY <1>0 DEF NoLeaves
    <3>3. c = u.chan /\ u.op = "leave" => u = Notice("leave", n, m, c) BY <2>2, NoticeParts, SMT
    <3> QED BY <3>1, <3>2, <3>3, SMT
  <2> QED BY <2>1, <2>2
<1>5. ASSUME NEW d \in data, handleAppFrame(d) PROVE P BY <1>a, <1>5 DEF handleAppFrame, flight
<1>6. CASE UNCHANGED vars BY <1>a, <1>6 DEF vars, flight
<1> QED BY <1>1, <1>2, <1>3, <1>4, <1>5, <1>6 DEF Next

\* When the channels have been sent, all of them are on their way.
LEMMA SyncSends ==
    ASSUME TypeOK, NEW n \in Nodes, NEW m \in Nodes, NEW c \in joined[n],
           syncChannelsWithPeer(n, m), m \in linked[n]
    PROVE  net'[Notice("join", n, m, c)] > 0
<1>1. c \in Channels /\ "join" \in Ops BY DEF TypeOK, Ops
<1>2. Notice("join", n, m, c) \in Notices BY <1>1, NoticeParts
<1> QED BY <1>2, Synced

\* What a node is in from the start goes on being told in every step.
LEMMA EarlyStep ==
    ASSUME TypeOK, NoLeaves, EarlyTold, [Next]_vars
    PROVE  EarlyTold'
<1> SUFFICES ASSUME NEW n \in Nodes, NEW m \in Nodes \ {n}, NEW c \in joined'[n] \cap joined'[m],
                    m \in linked'[n], m \notin syncing'[n],
                    past'[n][c] = "steady", past'[m][c] = "steady",
                    <<n, m>> \notin lost', <<m, n>> \notin unlinked'
             PROVE  \/ net'[Notice("join", n, m, c)] > 0
                    \/ n \in linked'[m] /\ c \in remote'[m][n]
  BY DEF EarlyTold
<1>1. c \in Channels
  <2>1. TypeOK' BY TypeStep
  <2> QED BY <2>1 DEF TypeOK
<1>2. /\ c \in joined[n] /\ c \in joined[m]
      /\ past[n][c] = "steady" /\ past[m][c] = "steady"
  BY <1>1, MemberSteps
<1>3. /\ <<n, m>> \notin lost /\ <<m, n>> \notin unlinked /\ m \in linked[n]
      /\ m \in syncing[n] => syncChannelsWithPeer(n, m)
      /\ n \in linked[m] => n \in linked'[m]
  BY PeerSteps
<1>4. CASE m \in syncing[n] BY <1>2, <1>3, <1>4, SyncSends
<1>5. CASE net[Notice("join", n, m, c)] > 0 BY <1>2, <1>3, <1>5, NoticeKept
<1>6. CASE n \in linked[m] /\ c \in remote[m][n] BY <1>2, <1>3, <1>6, BeliefKept
<1> QED BY <1>2, <1>3, <1>4, <1>5, <1>6 DEF EarlyTold

\* Two peers that were in a channel from the start know of each other in the
\* end, unless one has left, removed the other or lost an announcement.
THEOREM EarlyHolds == Spec => []EarlyChannelsKnown
<1>1. Init => NoLeaves /\ EarlyTold BY NoticeParts, SMT DEF Init, NoLeaves, EarlyTold, Ops
<1>2. TypeOK /\ NoLeaves /\ EarlyTold /\ [Next]_vars => NoLeaves' /\ EarlyTold'
  BY NoLeavesStep, EarlyStep
<1>3. TypeOK /\ EarlyTold => EarlyChannelsKnown
  <2>1. "join" \in Ops BY DEF Ops
  <2>2. TypeOK => \A n \in Nodes : joined[n] \subseteq Channels BY DEF TypeOK
  <2> QED BY <2>1, <2>2, SMT DEF EarlyTold, EarlyChannelsKnown, Settled
<1> QED BY <1>1, <1>2, <1>3, TypeHolds, PTL DEF Spec

\* What is told of a node that stays goes on being told in every step.
LEMMA ToldStep ==
    ASSUME TypeOK, NoLeaves, [Next]_vars, NEW n \in Nodes, NEW m \in Nodes,
           NEW c \in joined[n] \cap joined[m], Told(n, m, c),
           m \in linked[n], n \in linked[m], past[n][c] # "left", <<n, m>> \notin lost'
    PROVE  Told(n, m, c)'
<1>0. c \in Channels /\ "join" \in Ops BY DEF TypeOK, Ops
<1>1. CASE <<"join", c>> \in telling[n]
  <2>1. CASE broadcastChannelUpdate(n, "join", c)
    <3>1. Notice("join", n, m, c) \in Notices BY <1>0, NoticeParts
    <3> QED BY <1>0, <2>1, <3>1, Announced DEF Told
  <2> QED BY <1>0, <1>1, <2>1, MemberSteps DEF Told
<1>2. CASE m \in syncing[n]
  <2>1. m \in syncing'[n] \/ syncChannelsWithPeer(n, m) BY <1>2, PeerSteps
  <2> QED BY <2>1, SyncSends DEF Told
<1>3. CASE net[Notice("join", n, m, c)] > 0 BY <1>3, NoticeKept DEF Told
<1>4. CASE c \in remote[m][n] BY <1>4, BeliefKept DEF Told
<1> QED BY <1>1, <1>2, <1>3, <1>4 DEF Told

\* Of two peers in a channel, one goes on being told of the other.
LEMMA OneStep ==
    ASSUME TypeOK, NoLeaves, OneTold, [Next]_vars
    PROVE  OneTold'
<1> SUFFICES ASSUME NEW n \in Nodes, NEW m \in Nodes \ {n}, NEW c \in joined'[n] \cap joined'[m],
                    m \in linked'[n], n \in linked'[m],
                    past'[n][c] # "left", past'[m][c] # "left",
                    <<n, m>> \notin lost', <<m, n>> \notin lost'
             PROVE  Told(n, m, c)' \/ Told(m, n, c)'
  BY DEF OneTold
<1>1. c \in Channels
  <2>1. TypeOK' BY TypeStep
  <2> QED BY <2>1 DEF TypeOK
<1>2. /\ past[n][c] # "left" /\ past[m][c] # "left"
      /\ <<n, m>> \notin lost /\ <<m, n>> \notin lost
  BY <1>1, MemberSteps, PeerSteps
<1>3. CASE c \notin joined[n] \/ c \notin joined[m] BY <1>1, <1>3, MemberSteps DEF Told
<1>4. CASE m \notin linked[n] \/ n \notin linked[m] BY <1>4, PeerSteps DEF Told
<1>5. CASE c \in joined[n] \cap joined[m] /\ m \in linked[n] /\ n \in linked[m]
  <2>1. Told(n, m, c) \/ Told(m, n, c) BY <1>2, <1>5 DEF OneTold
  <2> QED BY <1>2, <1>5, <2>1, ToldStep
<1> QED BY <1>3, <1>4, <1>5

\* Of two peers that have joined a channel at any time, one knows of the other
\* in the end, unless one has left or an announcement was lost.
THEOREM SomeoneHolds == Spec => []SomeoneKnows
<1>1. Init => NoLeaves /\ OneTold BY NoticeParts, SMT DEF Init, NoLeaves, OneTold, Ops
<1>2. TypeOK /\ NoLeaves /\ OneTold /\ [Next]_vars => NoLeaves' /\ OneTold'
  BY NoLeavesStep, OneStep
<1>3. TypeOK /\ OneTold => SomeoneKnows
  <2>1. "join" \in Ops BY DEF Ops
  <2>2. TypeOK => \A n \in Nodes : joined[n] \subseteq Channels BY DEF TypeOK
  <2> SUFFICES ASSUME TypeOK, OneTold,
                      NEW n \in Nodes, NEW m \in Nodes \ {n}, NEW c \in joined[n] \cap joined[m],
                      Settled(n, m), Settled(m, n), past[n][c] # "left", past[m][c] # "left",
                      <<n, m>> \notin lost, <<m, n>> \notin lost
               PROVE  c \in remote[m][n] \/ c \in remote[n][m]
    BY DEF SomeoneKnows
  <2>3. Told(n, m, c) \/ Told(m, n, c) BY DEF OneTold, Settled
  <2>4. Told(n, m, c) => c \in remote[m][n] BY <2>1, <2>2, SMT DEF Told, Settled
  <2>5. Told(m, n, c) => c \in remote[n][m] BY <2>1, <2>2, SMT DEF Told, Settled
  <2> QED BY <2>3, <2>4, <2>5
<1> QED BY <1>1, <1>2, <1>3, TypeHolds, PTL DEF Spec

----------------------------------------------------------------------------
(* Peers that have left.                                                   *)

\* An announcement is put on its way only to a peer in the table, by a node
\* that has it to say or is in the channel.
LEMMA NewNotice ==
    ASSUME TypeOK, [Next]_vars, NEW u \in Notices, net'[u] > 0, ~(net[u] > 0)
    PROVE  /\ u.to \in linked[u.from]
           /\ \/ <<u.op, u.chan>> \in telling[u.from]
              \/ u.op = "join" /\ u.chan \in joined[u.from]
<1> DEFINE P == /\ u.to \in linked[u.from]
                /\ \/ <<u.op, u.chan>> \in telling[u.from]
                   \/ u.op = "join" /\ u.chan \in joined[u.from]
<1>a. ASSUME UNCHANGED net PROVE P BY <1>a
<1>1. ASSUME NEW n \in Nodes, NEW c \in Channels,
             JoinChannel(n, c) \/ LeaveChannel(n, c) \/ Broadcast(n, c)
      PROVE  P
  BY <1>a, <1>1 DEF JoinChannel, LeaveChannel, Broadcast, flight
<1>2. ASSUME NEW n \in Nodes, NEW c \in Channels, NEW op \in Ops, broadcastChannelUpdate(n, op, c)
      PROVE  P
  <2>1. \E m \in linked[n] : u = Notice(op, n, m, c) BY <1>2, Announced
  <2> PICK m \in linked[n] : u = Notice(op, n, m, c) BY <2>1
  <2>2. m \in Nodes BY DEF TypeOK
  <2>3. u.op = op /\ u.from = n /\ u.to = m /\ u.chan = c BY <2>2, NoticeParts, SMT
  <2> QED BY <1>2, <2>3 DEF broadcastChannelUpdate
<1>3. ASSUME NEW n \in Nodes, NEW m \in Nodes \ {n},
             Link(n, m) \/ UpgradeToTCP(n, m) \/ removePeer(n, m) \/ syncChannelsWithPeer(n, m)
      PROVE  P
  <2>1. CASE syncChannelsWithPeer(n, m)
    <3>1. m \in linked[n] /\ \E c \in joined[n] : u = Notice("join", n, m, c) BY <2>1, Synced
    <3>2. PICK c \in joined[n] : u = Notice("join", n, m, c) BY <3>1
    <3>3. c \in Channels /\ "join" \in Ops BY DEF TypeOK, Ops
    <3>4. u.op = "join" /\ u.from = n /\ u.to = m /\ u.chan = c BY <3>2, <3>3, NoticeParts, SMT
    <3> QED BY <3>1, <3>4
  <2> QED BY <1>a, <1>3, <2>1 DEF Link, UpgradeToTCP, removePeer, flight
<1>4. ASSUME NEW v \in Notices, processChannelUpdate(v) PROVE P
  <2>1. net[v] > 0 /\ \A w \in Notices : w # v => net'[w] = net[w] BY <1>4, Processed
  <2> QED BY <2>1
<1>5. ASSUME NEW d \in data, handleAppFrame(d) PROVE P BY <1>a, <1>5 DEF handleAppFrame, flight
<1>6. CASE UNCHANGED vars BY <1>a, <1>6 DEF vars, flight
<1> QED BY <1>1, <1>2, <1>3, <1>4, <1>5, <1>6 DEF Next

\* Only processChannelUpdate takes an announcement off its way.
LEMMA NoticeTaken ==
    ASSUME TypeOK, [Next]_vars, NEW u \in Notices, net[u] > 0, ~(net'[u] > 0)
    PROVE  processChannelUpdate(u)
<1> DEFINE P == processChannelUpdate(u)
<1>a. ASSUME UNCHANGED net PROVE P BY <1>a
<1>1. ASSUME NEW n \in Nodes, NEW c \in Channels,
             JoinChannel(n, c) \/ LeaveChannel(n, c) \/ Broadcast(n, c)
      PROVE  P
  BY <1>a, <1>1 DEF JoinChannel, LeaveChannel, Broadcast, flight
<1>2. ASSUME NEW n \in Nodes, NEW c \in Channels, NEW op \in Ops, broadcastChannelUpdate(n, op, c)
      PROVE  P
  BY <1>2, Announced
<1>3. ASSUME NEW n \in Nodes, NEW m \in Nodes \ {n},
             Link(n, m) \/ UpgradeToTCP(n, m) \/ removePeer(n, m) \/ syncChannelsWithPeer(n, m)
      PROVE  P
  <2>1. CASE syncChannelsWithPeer(n, m) BY <2>1, Synced
  <2> QED BY <1>a, <1>3, <2>1 DEF Link, UpgradeToTCP, removePeer, flight
<1>4. ASSUME NEW v \in Notices, processChannelUpdate(v) PROVE P
  <2>1. \A w \in Notices : w # v => net'[w] = net[w] BY <1>4, Processed
  <2> QED BY <1>4, <2>1
<1>5. ASSUME NEW d \in data, handleAppFrame(d) PROVE P BY <1>a, <1>5 DEF handleAppFrame, flight
<1>6. CASE UNCHANGED vars BY <1>a, <1>6 DEF vars, flight
<1> QED BY <1>1, <1>2, <1>3, <1>4, <1>5, <1>6 DEF Next

\* A node comes to believe that another is in a channel only by a join.
LEMMA NewBelief ==
    ASSUME TypeOK, [Next]_vars, NEW n \in Nodes, NEW m \in Nodes, NEW c \in Channels,
           c \in remote'[m][n], c \notin remote[m][n]
    PROVE  net[Notice("join", n, m, c)] > 0
<1> DEFINE P == net[Notice("join", n, m, c)] > 0
<1>a. ASSUME UNCHANGED remote PROVE P BY <1>a
<1>1. ASSUME NEW k \in Nodes, NEW d \in Channels,
             JoinChannel(k, d) \/ LeaveChannel(k, d) \/ Broadcast(k, d)
      PROVE  P
  BY <1>a, <1>1 DEF JoinChannel, LeaveChannel, Broadcast
<1>2. ASSUME NEW k \in Nodes, NEW d \in Channels, NEW op \in Ops, broadcastChannelUpdate(k, op, d)
      PROVE  P
  BY <1>a, <1>2 DEF broadcastChannelUpdate
<1>3. ASSUME NEW k \in Nodes, NEW q \in Nodes \ {k},
             Link(k, q) \/ UpgradeToTCP(k, q) \/ removePeer(k, q) \/ syncChannelsWithPeer(k, q)
      PROVE  P
  <2>1. CASE Link(k, q) BY <2>1 DEF Link, TypeOK
  <2> QED BY <1>a, <1>3, <2>1 DEF UpgradeToTCP, removePeer, syncChannelsWithPeer
<1>4. ASSUME NEW u \in Notices, processChannelUpdate(u) PROVE P
  <2>1. \A k, q \in Nodes : k # u.to \/ q # u.from => remote'[k][q] = remote[k][q]
    BY <1>4, Processed
  <2>2. u.to = m /\ u.from = n BY <2>1
  <2>3. net[u] > 0 /\ c = u.chan /\ u.op = "join" BY <1>4, <2>2, Processed
  <2>4. u = Notice("join", n, m, c) BY <2>2, <2>3, NoticeParts
  <2> QED BY <2>3, <2>4
<1>5. ASSUME NEW d \in data, handleAppFrame(d) PROVE P BY <1>a, <1>5 DEF handleAppFrame
<1>6. CASE UNCHANGED vars BY <1>a, <1>6 DEF vars
<1> QED BY <1>1, <1>2, <1>3, <1>4, <1>5, <1>6 DEF Next

\* What was noted stays noted, and so is every pair that mixes anew.
LEMMA MixedStep ==
    ASSUME TypeOK, MixedNoted, [Next]_vars
    PROVE  mixed \subseteq mixed' /\ MixedNoted'
<1> DEFINE P == mixed \subseteq mixed' /\ Mixing(net') \subseteq mixed'
<1>a. ASSUME mixed' = mixed, \A u \in Notices : net'[u] > 0 => net[u] > 0 PROVE P
  <2>1. \A op \in Ops, c \in Channels, w \in Nodes \X Nodes : Notice(op, w[1], w[2], c) \in Notices
    BY NoticeParts, SMT
  <2>2. Mixing(net') \subseteq Mixing(net) BY <1>a, <2>1, SMT DEF Mixing
  <2> QED BY <1>a, <2>2 DEF MixedNoted
<1>b. ASSUME mixed' = mixed \cup Mixing(net') PROVE P BY <1>b
<1>1. ASSUME NEW n \in Nodes, NEW c \in Channels,
             JoinChannel(n, c) \/ LeaveChannel(n, c) \/ Broadcast(n, c)
      PROVE  P
  BY <1>a, <1>1 DEF JoinChannel, LeaveChannel, Broadcast, flight
<1>2. ASSUME NEW n \in Nodes, NEW c \in Channels, NEW op \in Ops, broadcastChannelUpdate(n, op, c)
      PROVE  P
  BY <1>b, <1>2 DEF broadcastChannelUpdate
<1>3. ASSUME NEW n \in Nodes, NEW m \in Nodes \ {n},
             Link(n, m) \/ UpgradeToTCP(n, m) \/ removePeer(n, m) \/ syncChannelsWithPeer(n, m)
      PROVE  P
  <2>1. CASE syncChannelsWithPeer(n, m) BY <1>b, <2>1 DEF syncChannelsWithPeer
  <2> QED BY <1>a, <1>3, <2>1 DEF Link, UpgradeToTCP, removePeer, flight
<1>4. ASSUME NEW u \in Notices, processChannelUpdate(u) PROVE P
  <2>1. \A v \in Notices : net'[v] > 0 => net[v] > 0 BY <1>4, Processed
  <2> QED BY <1>a, <1>4, <2>1 DEF processChannelUpdate
<1>5. ASSUME NEW d \in data, handleAppFrame(d) PROVE P BY <1>a, <1>5 DEF handleAppFrame, flight
<1>6. ASSUME UNCHANGED vars PROVE P
  <2>1. UNCHANGED <<net, mixed>> BY <1>6 DEF vars, flight
  <2> QED BY <1>a, <2>1
<1> HIDE DEF P
<1>7. P BY <1>1, <1>2, <1>3, <1>4, <1>5, <1>6, StepCases
<1> QED BY <1>7 DEF P, MixedNoted

\* A join still to be said stays true in every step.
LEMMA JoinsTrueStep ==
    ASSUME TypeOK, JoinsAreTrue, [Next]_vars
    PROVE  JoinsAreTrue'
<1> USE DEF JoinsAreTrue
<1>a. ASSUME UNCHANGED joined, \A n \in Nodes : telling'[n] \subseteq telling[n] PROVE JoinsAreTrue'
  BY <1>a
<1>1. ASSUME NEW n \in Nodes, NEW c \in Channels,
             JoinChannel(n, c) \/ LeaveChannel(n, c) \/ Broadcast(n, c)
      PROVE  JoinsAreTrue'
  <2>1. CASE JoinChannel(n, c)
    <3>1. /\ joined' = [joined EXCEPT ![n] = @ \cup {c}]
          /\ telling' = [telling EXCEPT ![n] = {<<"join", c>>}]
      BY <2>1 DEF JoinChannel
    <3> QED BY <3>1, SMT DEF TypeOK
  <2>2. CASE LeaveChannel(n, c)
    <3>1. /\ joined' = [joined EXCEPT ![n] = @ \ {c}]
          /\ telling' = [telling EXCEPT ![n] = {<<"leave", c>>}]
      BY <2>2 DEF LeaveChannel
    <3> QED BY <3>1, SMT DEF TypeOK
  <2>3. CASE Broadcast(n, c) BY <1>a, <2>3 DEF Broadcast
  <2> QED BY <1>1, <2>1, <2>2, <2>3
<1>2. ASSUME NEW n \in Nodes, NEW c \in Channels, NEW op \in Ops, broadcastChannelUpdate(n, op, c)
      PROVE  JoinsAreTrue'
  BY <1>a, <1>2 DEF broadcastChannelUpdate, TypeOK
<1>3. ASSUME NEW n \in Nodes, NEW m \in Nodes \ {n},
             Link(n, m) \/ UpgradeToTCP(n, m) \/ removePeer(n, m) \/ syncChannelsWithPeer(n, m)
      PROVE  JoinsAreTrue'
  BY <1>a, <1>3 DEF Link, UpgradeToTCP, removePeer, syncChannelsWithPeer
<1>4. ASSUME NEW u \in Notices, processChannelUpdate(u) PROVE JoinsAreTrue'
  BY <1>a, <1>4 DEF processChannelUpdate
<1>5. ASSUME NEW d \in data, handleAppFrame(d) PROVE JoinsAreTrue' BY <1>a, <1>5 DEF handleAppFrame
<1>6. CASE UNCHANGED vars BY <1>a, <1>6 DEF vars
<1> QED BY <1>1, <1>2, <1>3, <1>4, <1>5, <1>6, StepCases

\* A node goes on saying nothing until it has the other in its table.
LEMMA QuietStep ==
    ASSUME TypeOK, Quiet, [Next]_vars
    PROVE  Quiet'
<1> SUFFICES ASSUME NEW n \in Nodes, NEW m \in Nodes, m \notin linked'[n], <<n, m>> \notin unlinked'
             PROVE  /\ m \notin syncing'[n] /\ remote'[m][n] = {}
                    /\ \A u \in Notices : u.from = n /\ u.to = m => ~(net'[u] > 0)
  BY DEF Quiet
<1>1. m \notin linked[n] /\ <<n, m>> \notin unlinked BY PeerSteps
<1>2. /\ m \notin syncing[n] /\ remote[m][n] = {}
      /\ \A u \in Notices : u.from = n /\ u.to = m => ~(net[u] > 0)
  BY <1>1 DEF Quiet
<1>3. m \notin syncing'[n] BY <1>1, <1>2, PeerSteps
<1>4. \A u \in Notices : u.from = n /\ u.to = m => ~(net'[u] > 0) BY <1>1, <1>2, NewNotice
<1>5. remote'[m][n] = {}
  <2>1. \A c \in Channels : ~(net[Notice("join", n, m, c)] > 0)
    <3>1. "join" \in Ops BY DEF Ops
    <3>2. \A c \in Channels : /\ Notice("join", n, m, c) \in Notices
                            /\ Notice("join", n, m, c).from = n /\ Notice("join", n, m, c).to = m
      BY <3>1, NoticeParts, SMT
    <3> QED BY <1>2, <3>2
  <2>2. \A c \in Channels : c \notin remote'[m][n] BY <1>2, <2>1, NewBelief
  <2>3. remote'[m][n] \subseteq Channels
    <3>1. TypeOK' BY TypeStep
    <3> QED BY <3>1, SMT DEF TypeOK
  <2> QED BY <2>2, <2>3
<1> QED BY <1>3, <1>4, <1>5

\* While a peer that has left is believed to be there, its leave goes on
\* being told.
LEMMA LeaveStep ==
    ASSUME TypeOK, Founded, Quiet, JoinsAreTrue, MixedNoted, LeaveTold, [Next]_vars
    PROVE  LeaveTold'
<1> SUFFICES ASSUME NEW n \in Nodes, NEW m \in Nodes, NEW c \in Channels \ joined'[n],
                    past'[m][c] # "left",
                    <<n, m>> \notin lost', <<n, m>> \notin unlinked', <<n, m>> \notin mixed',
                    c \in remote'[m][n] \/ net'[Notice("join", n, m, c)] > 0
             PROVE  <<"leave", c>> \in telling'[n] \/ net'[Notice("leave", n, m, c)] > 0
  BY DEF LeaveTold
<1> DEFINE J == Notice("join", n, m, c)
           L == Notice("leave", n, m, c)
<1>0. "join" \in Ops /\ "leave" \in Ops /\ c \in Channels BY DEF Ops
<1>j. J \in Notices /\ J.op = "join" /\ J.from = n /\ J.to = m /\ J.chan = c BY <1>0, NoticeParts, SMT
<1>l. L \in Notices /\ L.op = "leave" /\ L.from = n /\ L.to = m /\ L.chan = c BY <1>0, NoticeParts, SMT
<1>m. ~(net[J] > 0 /\ net[L] > 0)
  <2>1. <<n, m>> \notin mixed BY MixedStep
  <2>2. <<n, m>> \notin Mixing(net) BY <2>1 DEF MixedNoted
  <2>3. <<n, m>> \in Nodes \X Nodes /\ <<n, m>>[1] = n /\ <<n, m>>[2] = m OBVIOUS
  <2>4. ~(\A op \in Ops : net[Notice(op, n, m, c)] > 0) BY <2>2, <2>3 DEF Mixing
  <2> QED BY <2>4 DEF Ops
<1> HIDE DEF J, L
<1>1. /\ past[m][c] # "left"
      /\ <<n, m>> \notin lost /\ <<n, m>> \notin unlinked /\ <<n, m>> \notin mixed
  BY MemberSteps, PeerSteps, MixedStep
<1>2. CASE c \in joined[n] BY <1>2, MemberSteps
<1>3. CASE c \notin joined[n]
  <2>1. c \in remote[m][n] \/ net[J] > 0
    <3>1. CASE c \in remote'[m][n] BY <3>1, NewBelief DEF J
    <3>2. CASE net'[J] > 0 BY <1>3, <1>j, <3>2, NewNotice DEF JoinsAreTrue
    <3> QED BY <3>1, <3>2 DEF J
  <2>2. <<"leave", c>> \in telling[n] \/ net[L] > 0 BY <1>1, <1>3, <2>1 DEF LeaveTold, J, L
  <2>3. CASE <<"leave", c>> \in telling[n]
    <3>1. CASE broadcastChannelUpdate(n, "leave", c)
      <4>1. m \in linked[n] BY <1>1, <1>j, <2>1 DEF Quiet
      <4> QED BY <1>0, <1>l, <3>1, <4>1, Announced DEF L
    <3> QED BY <1>0, <2>3, <3>1, MemberSteps
  <2>4. CASE net[L] > 0
    <3> SUFFICES ASSUME ~(net'[L] > 0) PROVE FALSE BY DEF L
    <3>1. processChannelUpdate(L) BY <1>l, <2>4, NoticeTaken
    <3>2. L # J BY <1>j, <1>l
    <3>3. ~(net'[J] > 0) BY <1>j, <1>l, <1>m, <2>4, <3>1, <3>2, Processed
    <3>4. c \in remote'[m][n] BY <3>3 DEF J
    <3>5. c \notin joined[m] BY <1>l, <3>1, <3>4, Processed
    <3>6. c \in remote[m][n] BY <1>l, <3>1, <3>4, Processed
    <3> QED BY <1>1, <3>5, <3>6 DEF Founded, WasMember
  <2> QED BY <2>2, <2>3, <2>4
<1> QED BY <1>2, <1>3

\* A peer that has left a channel is forgotten, unless an announcement was lost
\* or its leave overtaken, or one of the two removed the other or left as well.
THEOREM LeaversHold == Spec => []LeaversForgotten
<1> DEFINE IInv == Founded /\ Quiet /\ JoinsAreTrue /\ MixedNoted /\ LeaveTold
<1>1. Init => IInv
  <2>1. Init => Founded BY SMT DEF Init, Founded, OnlyToMembers
  <2>2. Init => Quiet BY SMT DEF Init, Quiet
  <2>3. Init => JoinsAreTrue BY DEF Init, JoinsAreTrue
  <2>4. Init => MixedNoted BY NoticeParts, SMT DEF Init, MixedNoted, Mixing, Ops
  <2>5. Init => LeaveTold BY NoticeParts, SMT DEF Init, LeaveTold, Ops
  <2> QED BY <2>1, <2>2, <2>3, <2>4, <2>5
<1>2. TypeOK /\ IInv /\ [Next]_vars => IInv'
  BY FoundedStep, QuietStep, JoinsTrueStep, MixedStep, LeaveStep
<1>3. TypeOK /\ IInv => LeaversForgotten
  <2>1. "leave" \in Ops BY DEF Ops
  <2> SUFFICES ASSUME TypeOK, LeaveTold,
                      NEW n \in Nodes, NEW m \in Nodes \ {n}, NEW c \in Channels \ joined[n],
                      Settled(n, m), past[m][c] # "left",
                      <<n, m>> \notin lost \cup unlinked \cup mixed, c \in remote[m][n]
               PROVE  FALSE
    BY DEF LeaversForgotten
  <2>2. <<"leave", c>> \in telling[n] \/ net[Notice("leave", n, m, c)] > 0 BY DEF LeaveTold
  <2>3. telling[n] = {} /\ net[Notice("leave", n, m, c)] = 0 BY <2>1 DEF Settled
  <2> QED BY <2>2, <2>3, SMT
<1> QED BY <1>1, <1>2, <1>3, TypeHolds, PTL DEF Spec
=============================================================================
