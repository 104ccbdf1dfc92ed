------------------------------ MODULE Channels ------------------------------
(***************************************************************************)
(* Which peers a node believes to be in a channel (node/node_channel.go):  *)
(* joins and leaves are announced to all peers, every announcement by a    *)
(* goroutine of its own, and a new or upgraded peer is sent all channels.  *)
(* Broadcast sends to the peers a node believes to be in the channel.      *)
(*                                                                         *)
(* An announcement or a message is a record in a bag: goroutines take the  *)
(* peer's send lock in any order.  It is lost when sending fails, when a   *)
(* frame does not decrypt, or when the receiver does not have the sender   *)
(* in its peer table.                                                      *)
(***************************************************************************)
EXTENDS Naturals, FiniteSets

CONSTANTS
    Nodes, Channels,
    MaxInFlight, \* bounds the copies of one announcement on their way
    MaxFaults    \* bounds the peers removed and the directions in which one is lost

ASSUME BoundsAssumption == MaxInFlight \in Nat \ {0} /\ MaxFaults \in Nat

VARIABLES
    joined,   \* localChannelSet
    linked,   \* the nodes in the peer table
    remote,   \* RemoteChannels of each peer
    telling,  \* announcements a node has still to give to its peers
    syncing,  \* peers for which syncChannelsWithPeer has not read the list yet
    net,      \* announcements on their way
    data,     \* broadcast messages on their way
    past,     \* history: has n joined or left c since it was started
    lost,     \* history: <<n, m>> when an announcement of n to m was lost
    unlinked, \* history: <<n, m>> when n has removed m
    mixed     \* history: <<n, m>> when a join and a leave of n for the same
              \* channel were on their way to m at once

links == <<linked, unlinked>>
flight == <<net, mixed>>
vars == <<joined, links, remote, telling, syncing, flight, data, past, lost>>

\* Number of the two kinds of trouble so far.
Faults == Cardinality(lost) + Cardinality(unlinked)

Ops == {"join", "leave"}
Notice(op, n, m, c) == [op |-> op, from |-> n, to |-> m, chan |-> c]
Notices == [op : Ops, from : Nodes, to : Nodes, chan : Channels]
Messages == [from : Nodes, to : Nodes, chan : Channels]

\* The pairs between which a join and a leave are on their way in nt.
Mixing(nt) ==
    {w \in Nodes \X Nodes : \E c \in Channels :
        \A op \in Ops : nt[Notice(op, w[1], w[2], c)] > 0}

Init ==
    /\ joined \in [Nodes -> SUBSET Channels]
    /\ linked = [n \in Nodes |-> {}]
    /\ remote = [n \in Nodes |-> [m \in Nodes |-> {}]]
    /\ telling = [n \in Nodes |-> {}]
    /\ syncing = [n \in Nodes |-> {}]
    /\ net = [u \in Notices |-> 0]
    /\ data = {}
    /\ past = [n \in Nodes |-> [c \in Channels |-> "steady"]]
    /\ lost = {} /\ unlinked = {} /\ mixed = {}

----------------------------------------------------------------------------
(* JoinChannel and LeaveChannel, by one goroutine of the application: the  *)
(* list changes under the lock ...                                         *)

JoinChannel(n, c) ==
    /\ c \notin joined[n]
    /\ joined' = [joined EXCEPT ![n] = @ \cup {c}]
    /\ telling[n] = {}
    /\ telling' = [telling EXCEPT ![n] = {<<"join", c>>}]
    /\ past' = [past EXCEPT ![n][c] = IF @ = "steady" THEN "joined" ELSE @]
    /\ UNCHANGED <<links, remote, syncing, flight, data, lost>>

LeaveChannel(n, c) ==
    /\ c \in joined[n]
    /\ joined' = [joined EXCEPT ![n] = @ \ {c}]
    /\ telling[n] = {}
    /\ telling' = [telling EXCEPT ![n] = {<<"leave", c>>}]
    /\ past' = [past EXCEPT ![n][c] = "left"]
    /\ UNCHANGED <<links, remote, syncing, flight, data, lost>>

\* Mutant: the announcement goes to the peers that are known to be members.
broadcastChannelUpdateToMembers(n, op, c) ==
    /\ <<op, c>> \in telling[n]
    /\ telling' = [telling EXCEPT ![n] = @ \ {<<op, c>>}]
    /\ net' = [u \in Notices |->
                 net[u] + IF \E m \in linked[n] : c \in remote[n][m] /\ u = Notice(op, n, m, c)
                          THEN 1 ELSE 0]
    /\ mixed' = mixed \cup Mixing(net')
    /\ UNCHANGED <<joined, links, remote, syncing, data, past, lost>>

\* ... and the peers are told afterwards.
broadcastChannelUpdate(n, op, c) ==
    /\ <<op, c>> \in telling[n]
    /\ \A m \in linked[n] : net[Notice(op, n, m, c)] < MaxInFlight
    /\ telling' = [telling EXCEPT ![n] = @ \ {<<op, c>>}]
    /\ net' = [u \in Notices |->
                 net[u] + IF \E m \in linked[n] : u = Notice(op, n, m, c) THEN 1 ELSE 0]
    /\ mixed' = mixed \cup Mixing(net')
    /\ UNCHANGED <<joined, links, remote, syncing, data, past, lost>>

----------------------------------------------------------------------------
(* The peer table.                                                         *)

\* Mutant: a new peer is not sent the channels.
LinkSilently(n, m) ==
    /\ m \notin linked[n]
    /\ linked' = [linked EXCEPT ![n] = @ \cup {m}]
    /\ remote' = [remote EXCEPT ![n][m] = {}]
    /\ UNCHANGED <<joined, unlinked, telling, syncing, flight, data, past, lost>>

\* processHandshake adds a peer and starts syncChannelsWithPeer.
Link(n, m) ==
    /\ m \notin linked[n]
    /\ linked' = [linked EXCEPT ![n] = @ \cup {m}]
    /\ remote' = [remote EXCEPT ![n][m] = {}]
    /\ syncing' = [syncing EXCEPT ![n] = @ \cup {m}]
    /\ UNCHANGED <<joined, unlinked, telling, flight, data, past, lost>>

\* handleExistingPeer: only an upgrade to TCP sends the channels again.
UpgradeToTCP(n, m) ==
    /\ m \in linked[n] \ syncing[n]
    /\ syncing' = [syncing EXCEPT ![n] = @ \cup {m}]
    /\ UNCHANGED <<joined, links, remote, telling, flight, data, past, lost>>

removePeer(n, m) ==
    /\ m \in linked[n]
    /\ Faults < MaxFaults \/ <<n, m>> \in unlinked
    /\ linked' = [linked EXCEPT ![n] = @ \ {m}]
    /\ unlinked' = unlinked \cup {<<n, m>>}
    /\ UNCHANGED <<joined, remote, telling, syncing, flight, data, past, lost>>

\* Joins for all channels there are now; without the peer, sending fails.
syncChannelsWithPeer(n, m) ==
    LET Sent == {Notice("join", n, m, c) : c \in IF m \in linked[n] THEN joined[n] ELSE {}}
    IN  /\ m \in syncing[n]
        /\ \A u \in Sent : net[u] < MaxInFlight
        /\ syncing' = [syncing EXCEPT ![n] = @ \ {m}]
        /\ net' = [u \in Notices |-> net[u] + IF u \in Sent THEN 1 ELSE 0]
        /\ mixed' = mixed \cup Mixing(net')
        /\ UNCHANGED <<joined, links, remote, telling, data, past, lost>>

----------------------------------------------------------------------------
(* processChannelUpdate.                                                   *)

\* Only for a channel the node is in itself.
Applied(u) ==
    remote' = [remote EXCEPT ![u.to][u.from] =
                 IF u.chan \notin joined[u.to] THEN @
                 ELSE IF u.op = "join" THEN @ \cup {u.chan} ELSE @ \ {u.chan}]

processChannelUpdate(u) ==
    /\ net[u] > 0
    /\ net' = [net EXCEPT ![u] = @ - 1]
    /\ \/ /\ u.from \in linked[u.to]
          /\ Applied(u)
          /\ UNCHANGED lost
       \/ /\ Faults < MaxFaults \/ <<u.from, u.to>> \in lost
          /\ lost' = lost \cup {<<u.from, u.to>>}
          /\ UNCHANGED remote
    /\ UNCHANGED <<joined, links, telling, syncing, data, past, mixed>>

----------------------------------------------------------------------------
(* Application messages.                                                   *)

GetPeersInChannel(n, c) == {m \in linked[n] : c \in remote[n][m]}

\* Mutant: to every peer.
BroadcastToAll(n, c) ==
    /\ c \in joined[n] /\ data = {}
    /\ data' = data \cup {[from |-> n, to |-> m, chan |-> c] : m \in linked[n]}
    /\ UNCHANGED <<joined, links, remote, telling, syncing, flight, past, lost>>

\* Send refuses a channel the node is not in.
Broadcast(n, c) ==
    /\ c \in joined[n] /\ data = {}
    /\ data' = data \cup {[from |-> n, to |-> m, chan |-> c] : m \in GetPeersInChannel(n, c)}
    /\ UNCHANGED <<joined, links, remote, telling, syncing, flight, past, lost>>

\* handleAppFrame: handed to the application if subscribed, else refused.
handleAppFrame(d) ==
    /\ d \in data
    /\ data' = data \ {d}
    /\ UNCHANGED <<joined, links, remote, telling, syncing, flight, past, lost>>

Next ==
    \/ \E n \in Nodes, c \in Channels :
          \/ JoinChannel(n, c) \/ LeaveChannel(n, c) \/ Broadcast(n, c)
          \/ \E op \in Ops : broadcastChannelUpdate(n, op, c)
    \/ \E n \in Nodes : \E m \in Nodes \ {n} :
          \/ Link(n, m) \/ UpgradeToTCP(n, m) \/ removePeer(n, m)
          \/ syncChannelsWithPeer(n, m)
    \/ \E u \in Notices : processChannelUpdate(u)
    \/ \E d \in data : handleAppFrame(d)

Spec == Init /\ [][Next]_vars
----------------------------------------------------------------------------
TypeOK ==
    /\ joined \in [Nodes -> SUBSET Channels] 
    /\ linked \in [Nodes -> SUBSET Nodes] /\ syncing \in [Nodes -> SUBSET Nodes]
    /\ remote \in [Nodes -> [Nodes -> SUBSET Channels]]
    /\ telling \in [Nodes -> SUBSET (Ops \X Channels)]
    /\ net \in [Notices -> Nat]
    /\ data \in SUBSET Messages
    /\ past \in [Nodes -> [Channels -> {"steady", "joined", "left"}]]
    /\ lost \in SUBSET (Nodes \X Nodes) /\ unlinked \in SUBSET (Nodes \X Nodes)
    /\ mixed \in SUBSET (Nodes \X Nodes)

WasMember(n, c) == c \in joined[n] \/ past[n][c] = "left"

\* Nothing that n has to say to m is on its way.
Settled(n, m) ==
    /\ m \in linked[n] /\ m \notin syncing[n]
    /\ telling[n] = {}
    /\ \A op \in Ops, c \in Channels : net[Notice(op, n, m, c)] = 0

(***************************************************************************)
(* Broadcast sends nothing to a node that was never in the channel: every  *)
(* copy on its way is for a member, or for one that has left and whose     *)
(* filter (handleAppFrame) refuses it.                                     *)
(***************************************************************************)
OnlyToMembers == \A d \in data : WasMember(d.to, d.chan) /\ WasMember(d.from, d.chan)

(***************************************************************************)
(* Two peers that were both started in a channel, have not left it and     *)
(* have kept each other in their peer tables know of each other in the     *)
(* end, unless an announcement was lost: when nothing is on its way any    *)
(* more, both would be sent the other's broadcasts.                        *)
(***************************************************************************)
EarlyChannelsKnown ==
    \A n \in Nodes : \A m \in Nodes \ {n} : \A c \in joined[n] \cap joined[m] :
        /\ n \in linked[m] /\ Settled(n, m)
        /\ past[n][c] = "steady" /\ past[m][c] = "steady"
        /\ <<n, m>> \notin lost /\ <<m, n>> \notin unlinked
        => c \in remote[m][n]

(***************************************************************************)
(* Two peers that join a channel at any time, before or after they find    *)
(* each other or one of them removes the other and finds it again: when    *)
(* nothing is on its way any more, at least one of them knows of the other *)
(* (the one that was there first; the other one dropped its announcement). *)
(***************************************************************************)
SomeoneKnows ==
    \A n \in Nodes : \A m \in Nodes \ {n} : \A c \in joined[n] \cap joined[m] :
        /\ Settled(n, m) /\ Settled(m, n)
        /\ past[n][c] # "left" /\ past[m][c] # "left"
        /\ <<n, m>> \notin lost /\ <<m, n>> \notin lost
        => c \in remote[m][n] \/ c \in remote[n][m]

(***************************************************************************)
(* A peer that has left a channel is forgotten: when nothing is on its way *)
(* any more, nobody would send it the broadcasts of the channel.  What can *)
(* leave it on the list is an announcement lost, a leave that overtook a   *)
(* join (every announcement has a goroutine of its own), a leave that the  *)
(* other node ignored while it had left the channel itself, or that was    *)
(* not sent because the leaving node had removed the other one.            *)
(***************************************************************************)
LeaversForgotten ==
    \A n \in Nodes : \A m \in Nodes \ {n} : \A c \in Channels \ joined[n] :
        /\ n \in linked[m] /\ Settled(n, m)
        /\ past[m][c] # "left"
        /\ <<n, m>> \notin lost \cup unlinked \cup mixed
        => c \notin remote[m][n]
=============================================================================
