# Verification of tenet

tenet is a Go library for peer-to-peer tunnels: nodes punch through NATs over
UDP and TCP, authenticate with Noise XX, keep links alive with heartbeats,
recover lost ones, and exchange application data on channels. This directory
holds TLA+ models of its concurrent core, TLC configurations, and TLAPS proofs.
Paths below are relative to the repository root.

## Parts

| Part | Modules | Correct when |
|---|---|---|
| Reconnect manager (`node/reconnect.go`) | Reconnect | one loop per peer, none lost, exact give-up count, Close returns |
| Re-handshake throttle (`node/rehandshake.go`, `peer/peer.go`) | Rehandshake | the mark never leaks, rate and backoff as configured |
| Handshake (`node/handshake.go`, `crypto/noise.go`) | Handshake | both sides agree on sessions, none returns |
| Peer table (`peer/peer.go`, `node/handshake.go`, `node/heartbeat.go`) | PeerTable | the limit holds, the indexes agree, nothing is left behind |
| Connect flow (`node/connect_flow.go`, `nat/tcp_punch.go`) | Connect | goroutines end, a connection is used once, a fallback that is due takes place |
| Discovery (`node/discovery.go`) | Discovery, composed with Connect | bounded map, balanced semaphore |
| Channels (`node/node_channel.go`) | Channels | broadcasts reach only members, peers learn of each other and forget who left |
| Application data (`node/node_channel.go`, `node/data_flow.go`, `peer/peer.go`) | Messaging implements MessageChannel | only whole messages, in order, once |
| Relay (`node/relay_handler.go`, `node/udp_io.go`) | Relay | both ends list each other |
| Multiplexer, KCP (`transport/mux.go`, `node/kcp*.go`) | Mux | no send on a closed channel, sessions hear their peer |
| Lifecycle (`node/node.go`, `node/startup.go`, `api/tunnel.go`) | Lifecycle, composed with Mux | stops completely, and returns |

`PROJECT.json` lists every part with its status, every hazard at its line, and
for every definition the lines it models.

The parts meet in these places. Completed handshakes add peers to the table or
refresh them (which resets the throttle, switches the session under running
sends, and sends the channels). Decrypt failures start re-handshakes, which use
the table of pending handshakes. Removal of a peer, by heartbeat timeout or by
the re-handshake threshold, closes its KCP session and schedules a
reconnection, which calls Connect, as discovery does. Stopping the node closes
the multiplexer first and waits for all of them.

## Modules

**Reconnect** - the manager, the goroutines in `removePeerWithReconnect`, and
`Close`. `pc` says where the loop of an entry stands; each action is a stretch
between two locks, selects or calls into the node. `ctxDone` is the set of
cancelled contexts. Handshakes that add a peer are the environment
(`PeerConnected`). Delays are timers that may fire at any time. `dials`,
`lateDials` and `owed` are history.

**Rehandshake** - one Peer object, the receivers that trigger re-handshakes, the
goroutines that carry them out, handshakes that refresh the peer, and removal.
Time is discrete: time left to wait and the age of the window. Each critical
section of `p.mu` is an action. `granted` and `cleared` are history.

**Handshake** - two nodes over UDP. Packets once sent stay in `net` and may be
delivered at any time, any number of times or never. Noise is external: message
2 is accepted only by the initiator it answers, message 3 only by the responder
it answers, and a fresh responder takes any packet for message 1. Timers may
fire at any moment. A re-handshake may be sent after its peer was removed,
since its goroutine holds the Peer object. The tail of `processHandshake` is one
action: other deletions of the pending entry in between have the effect of
`cleanupStaleMappings`, which may happen at any time. `past` is history.

`MCHandshake` adds the symmetry of nodes and handshakes, used for safety only.

**PeerTable** - PeerStore, `addrToPeer` and the Peer objects. The goroutine that
reads UDP, one per TCP connection, and the goroutines in `removePeerWithReconnect`
are actors; a step is what happens between two accesses to a shared table
(`Peers.Get`, the unlocked `Peers.Count`, `Peers.Add`, the route, `Close`, the
removal by ID). Objects are never reused, so a stale one is visible. A KCP dial
records the address again (`UpgradePeer`). `overlapped` and `moved` are history.
`MCPeerTable` gives one peer three links and adds symmetry.

**Connect** and **Discovery** - a call of `connectContext` with all goroutines it
starts: the TCP punch with a dialling and an accepting goroutine, the UDP worker,
the relay fallback, the wait for a late TCP connection, and the two contexts.
`Discovery` extends it with the throttle: the cooldown map under the lock, then
the semaphore without it, held until the call returns. Clocks are left open: a
timer may fire, and a cooldown end, at any time.

**Channels** - what nodes announce, what is on its way (a bag, as every
announcement has its own goroutine), and what each believes of its peers. Peers
are added, upgraded and removed on each side separately, and announcements get
lost. `past`, `lost`, `unlinked` and `mixed` (a join and a leave were on their way
at once) are history.

**MessageChannel** is what an application may rely on: messages are lost or
delivered whole, in the order of sending, once. **Messaging** is how it is done:
threads that send fragments under the peer's send lock, a TCP and a KCP path
with a reader each, Noise sessions that decrypt by nonce, handshakes that switch
the session at both ends at different times, paths that break, and the
reassembly buffer with its limit. A frame from an address that belongs to no
peer yet is dropped without a trace (`DropUnknown`, `node/data_flow.go:10`), one that
does not decrypt is counted (`Decrypt`). A reader may wait in the handling of
another packet or in the application (`stuck`). The refinement mapping turns lengths into
messages and takes `last` from the messages delivered. The promise is broken
only when the two readers hold a decrypted frame at the same time
(`node/data_flow.go:19`): without that exception TLC finds a run in which the
fragments of two messages are mixed.

**Relay** - two clients and a relay, with handshake messages wrapped or not.

**Mux** and **Lifecycle** - the read loop of the shared UDP socket between lookup
and send, the handlers of dialled KCP sessions, sessions accepted and dialled,
their readers and removal; on top of it `Tunnel` and `Node` starting, failing
half-way and stopping. `GracefulStop` says goodbye to the peers it found, closes
what the node has opened, closes those peers, and waits for the loops. A TCP
connection may stop taking data (`stalled`): a goodbye to it does not return, and
closing its peer or the end of a loop may have to wait. `raced` and `crossed` are
history.

## Runs

| Run | Result | Shows |
|---|---|---|
| `reconnect` | passes, 165,236 states | entries have loops, deduplication, give-up count, cancellation, quiescence, termination |
| `reconnect_lost` | violated | a reconnection can be lost |
| `rehandshake` | passes, 297,682 states | the mark never leaks, overlap, backoff, rate, threshold, the mark is cleared |
| `handshake` | passes, 163,347 states | responders are confirmed, sessions never return, nothing completed stays pending |
| `handshake_ignored` | violated | an ignored message 1 that is not redundant |
| `messaging` | passes, 157,026 states | the data plane implements MessageChannel; no silent loss |
| `channels` | passes, 970,772 states | broadcasts only to members; peers learn of each other and forget who left |
| `peertable` | passes, 737,686 states | peer limit, open and routed peers, no orphans |
| `peertable_limit` | violated | more than `MaxPeers` peers at once |
| `discovery` | passes, 116,857 states | bounded map, connects that end, connections used once, relay fallback |
| `lifecycle` | passes, 277,992 states | no panic without a race, handlers, nothing left open, Stop returns |
| `relay` | violated | a relayed handshake completes at one end only |

The violated runs state what the repository says and show where the code
differs; `findings` in `PROJECT.json` quotes the lines. One more finding needs no
run of its own: `TryBeginRehandshake` promises one attempt at a time, and
`OverlapBounded` says how many there can be.

What the passing runs say is as strong as the code allows; the exceptions in
the properties are behaviour of the code:

- *CountBound*: `MaxPeers` is checked without a lock (`node/handshake.go:99`), so
  each further reader can add one peer more. That the documented limit is exceeded
  is run `peertable_limit`.
- *OrphansNeedOverlap*, *ListedIsRouted*: a removal works on an object and an ID
  it read earlier, so a handshake at the same time can leave an open object that
  nobody lists. A peer refreshed from another address without a change of
  transport is not found by that address (`node/handshake.go:178`).
- *SomeoneKnows*: an announcement of a channel the receiver is not in is dropped
  (`node/node_channel.go:102`) and joining does not ask for it again. Of two peers
  that join one after the other, only the first learns of the second:
  `USER_GUIDE.md:85` says that only known subscribers are sent broadcasts. When
  only one end removes the other and connects again, it has forgotten the
  other's channels, and the other end, whose peer was there all the time, sends
  nothing again (`EarlyChannelsKnown` excepts this).
- *LeaversForgotten*: announcements overtake each other
  (`node/node_channel.go:78`), and one that finds the receiver outside the channel, or
  not among the peers of the sender, does nothing. In each of these cases a peer that
  has left can stay on the list.
- *NoSilentLoss*: the initiator of a handshake over UDP may send before the responder
  knows its address; `node/handshake.go:133` delays a callback for this reason, but
  not `Send`.
- *StopReturns*: a goodbye is written without a deadline and `Peer.Close` waits for
  the send lock (`node/node.go:196`, `node/node.go:230`), so a peer whose connection
  takes no more data holds up the stop.
- *PanicNeedsRace*, *SessionHasHandler*: `UnregisterKCPHandler` closes a channel the
  read loop may be about to send on, and goes by address, so it can take the
  handler of a newer session.
- *FallbackTried*: a reconnect cancels the context of its call when it returns
  (`node/reconnect.go:356`), and with it the relay fallback.

Bounds. *Reconnect*: two entries, the fewest for an old loop to meet a new one;
two removers, so that two schedulings race; limits 0 (none), 1 and 2; one peer
with an address and one without. *Rehandshake*: two attempts and one reset, the
fewest for an overlap; a maximum backoff of 3 with base 1 reaches the cap on
something that is not a power of two; window and count of 2. The run has one
receiver, which keeps its liveness properties affordable; the invariants are
proved for any number of receivers.
*Handshake*: five HandshakeState objects, enough for one session, a second one
that replaces it, and a stray responder. *Messaging*: two threads, two sessions
and two messages of one, two or four fragments with a buffer of two, so that a
message fits exactly, overflows in the middle, and is followed by another in
the old or the new session, on the same or the other path; with three sessions
WholeMessages passes as well, with 1,095,835 states. *Channels*: two nodes and one channel
(channels do not interact), two faults; with two copies in flight and one fault
it has 1,129,685 states and passes. *PeerTable*: a limit of one peer with two
readers and three peers, three objects, two removals, so that a removal meets a
peer that was removed and came back. *Discovery*: one call that is used again and
again, by the application and by discovery, two keys for a map of one; with
three keys and a map of two it passes in two and a half minutes. *Lifecycle*: one
peer and two sessions, the fewest for a dial to meet a removal or another dial.
Connections stall from the moment the Tunnel is being closed; before, it would
delay no step of the model.
*Relay*: two clients.

Deadlock is checked in `channels`, where something can always happen. Elsewhere
the bounds end each model (no entry, no handshake, no object left), and a node
that has stopped has nothing to do.

Fairness. Goroutines are scheduled, sleeps end, and ConnectContext returns
within its timeout, so loops, receivers and attempts are weakly fair, and so are
the steps of Close once it is called. A TCP write has no deadline
(`node/send_path.go:34`), so it gets no fairness in *Rehandshake* and
`MarkIsCleared` excepts it. For the same reason a reader in *Messaging* need not go
on reading: NoSilentLoss assumes that none waits for ever, and a reader and a write
to a working path are then strongly fair, since every wait has taken a packet out of
the way. In *Discovery* every wait of a call has a timer or ends with its context, so
some goroutine of a call moves while one can; what it writes is the first packet of a
new connection, which finds room. In *Lifecycle* the call that holds the mutex goes
on, and a loop ends once what it blocks on was closed (`Unblocked`): a closed socket, a
closed listener, or the closing channel. Goodbyes, the closing of peers, the loops that
write or take a send lock, and the session readers are fair only while no write is
stalled. Callbacks of the application are assumed to return there. Nothing is
assumed of the network.

## Proofs

Each holds for every value of the constants that satisfies the module's ASSUME.

**ReconnectProofs** assumes `ConstantsOK`. No invariant is inductive alone:
that an entry has a loop depends on which entries are allocated, on the owner
the map files an entry under, and on cancelled entries having left the map. The
strengthening is `MapInv`, with `CountInv` for the relation of `attempt` and
`dials` at each program point and `LateInv` for dials after cancellation.
Proved: TypeOK, EntryHasLoop, OneLoopUnlessCancelled, GaveUpAfterAllAttempts,
CancelStopsDialing, NeverOverwritten, QuietAfterClose.

**RehandshakeProofs** assumes `ConfigValid`: the settings `Config.Validate`
accepts, and finite, disjoint sets of goroutines. `MarkInv` bounds the number of
holders by `cleared`, plus one if the mark is set. For the rate, `Recent` is the set
of the attempts of the last `Window` time units and `WindowInv` divides it at the
age of the current window: the younger part is counted by `winCount`, and the older
part, the window before, has lost its first attempt by the time a new window
starts, hence 2 * MaxInWindow - 1. A tick ages a set without making it larger (an
injection), a reservation adds one element. The backoff needs that 2^(n+1) is
2 * 2^n, an induction over data which the provers cannot do; it is the hypothesis
`PowersDouble` of the theorem, a fact of arithmetic and not about the model.
Proved: TypeOK, MarkHasHolder, OverlapBounded, RateLimited, BackoffMatchesFailures.

**HandshakeProofs** assumes `TwoNodes`. `IInv` says where each packet in the
network came from, what a held handshake may be, and which sessions can exist;
`Lasting` is what no step undoes. Proved: TypeOK, ResponderConfirmed,
NoSessionReturns, NoCompletedPending.

**DiscoveryProofs** assumes `DiscoveryAssumption`. The semaphore equals the number
of calls in `holds` because a call is entered only when it is not there; the
bound on the map needs that `Trimmed` leaves at most `HardLimit - 1` entries. (The
run has one reader, too few for the semaphore to be at risk; SlotsBalanced is
only proved.) Two more results concern the goroutines of a call. `SendsNeverBlock`: whoever is about to send finds
room in the channel; `RoomToReport` and `RoomToOffer` count what is in a channel
together with those that have not sent yet. This is the safety half of
WorkersEnd. `SettledOnce`: a connection that was used or closed is neither used nor
closed again; `HandedOn` says that a connection in a channel is in one of the two,
once, that its goroutine has ended, and that nobody has used it yet.
Proved: TypeOK, SlotsBalanced, SeenBounded, SendsNeverBlock, SettledOnce.

**MessagingProofs** assumes `MessagingAssumption`: sizes are positive, and the
marker for nothing is neither a thread nor a frame. It proves that `Messaging`
implements `MessageChannel` (WholeMessages) step by step: `Begin` sends, `Apply` of
a last or only fragment delivers, and every other step stutters. The mapping alone
is not inductive; the argument is about nonces. `SenderInv` says that the frames of
a session carry the fragments of its messages in the order of their nonces, that
messages follow each other as their sessions do, and that a call under way holds
the lock and comes after every frame written. `ReceiverInv` says that the one frame
held is the last one decrypted, that the buffer holds all that precedes the next
fragment of a message or nothing, and that whatever can still be decrypted is newer
than what was delivered. A session decrypts a frame only as the next one, so neither
the order on a path nor that a message keeps to one path is needed. `ReceiverInv`
holds until the readers overlap, `SenderInv` always.

**PeerTableProofs** assumes `PeerTableAssumption`. `Consistent` relates the table,
the objects and what every goroutine has read: a listed object exists and has
the table's ID, a removal holds an object of its peer, and a closed object that
is listed has a removal that will take it out. `RoomLeft` counts readers between
check and add together with the listed peers, which is what bounds the count.
Proved: TypeOK, CountBound, ListedIsOpen, OrphansNeedOverlap, ListedIsRouted.

**ChannelsProofs** assumes nothing of nodes and channels. `Founded` says that all
that is believed, said or sent was true of its subject at some time; `NoLeaves`
that a node that has not left a channel never says so; `EarlyTold` and `OneTold`
follow an announcement from the node that owes it over the network into the
receiver's table. For LeaversForgotten `LeaveTold` says that while a node that is not
in a channel is believed to be, or a join of it is on its way, its leave is still to be
sent or on its way too; it needs that a node says nothing to one it has never had as
a peer (`Quiet`), that a join is owed only by a member (`JoinsAreTrue`), and that a join
and a leave on their way at once have been noted (`MixedNoted`). Proved: TypeOK,
OnlyToMembers, EarlyChannelsKnown, SomeoneKnows, LeaversForgotten.

**LifecycleProofs** assumes `MuxAssumption`. `Positions` says what is open and which
goroutines run at each position of a call; `Handlers` that a number names one
handler, that a handler in the map is open until the mux is closed, and that the
channels are closed only after the read loop; `Dials` that a dial nothing crosses
is the only one of its address and keeps its handler. They are proved together:
a closed mux has no handler in use because of the position of the call, and a new
mux finds none because there is no KCP transport yet. Proved: PanicNeedsRace,
SessionHasHandler, NothingLeftOpen.

Every invariant, action property and refinement of a passing run has a theorem.
Only model-checked are the liveness properties LoopsEnd, CloseReturns,
ThresholdRemovesPeer, MarkIsCleared, NoSilentLoss, WorkersEnd, FallbackTried and
StopReturns: they rest on fairness, and TLAPS has no proof rules for ENABLED. The
inductive invariants were checked with TLC before they were proved.

## Not modelled

- *Heartbeats and their clock*: a timeout may remove a peer at any time in every
  module, which covers whatever the exchange of heartbeats leads to. A goodbye
  packet is a heartbeat with a payload nobody reads (`node/node.go:239`), so it has
  no effect beyond one.
- *Contents of discovery requests and responses, packet formats, framing bytes*:
  layout, abstracted to model values. Answering a request changes no state.
- *Relay scores, probes and tokens* (`nat/relay.go`, `nat/relay_auth.go`): they choose
  among candidates or are cryptography. Data over a relay is not modelled, since
  the handshake through it does not complete (run `relay`).
- *NAT probing and port prediction* (`nat/probe.go`, `nat/holepunch.go`): the result
  is a hint of where to send; nothing above depends on its being right.
- *KCP and Noise*: libraries, modelled by how they are used.
- *GracefulStop closing the NAT prober*: it closes a channel under a lock of its own
  and waits for nothing (`nat/probe.go:136`).
- *Configuration, logging, metrics, buffer pool, socket options, commands*: no
  protocol state.
- *A composition of Rehandshake with Handshake*: the throttle takes a message that
  was written for a success (`node/rehandshake.go:97`) and learns nothing of an
  answer, so the composition would not restrict either.
