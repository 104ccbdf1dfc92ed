----------------------------- MODULE Messaging -----------------------------
(***************************************************************************)
(* Application data from one node to a peer: sendAppFrame                  *)
(* (node/node_channel.go) cuts a message into fragments under the peer's   *)
(* send lock, encrypts each and writes it to TCP or KCP; one goroutine per *)
(* path reads the frames (node/tcp_io.go, node/kcp_transport.go),          *)
(* processData (node/data_flow.go) decrypts them and peer/peer.go          *)
(* reassembles them.  Meanwhile handshakes give both ends new sessions, at *)
(* different times, over UDP or TCP (UpgradeTransport).                    *)
(*                                                                         *)
(* A session decrypts its frames in the order of their nonces and no       *)
(* other: Noise counts them on both sides and a frame that does not fit is *)
(* refused.  Both ends take up sessions in the same order: a handshake of  *)
(* one address leaves pendingHandshakes when another replaces it, and a    *)
(* UDP session never replaces a TCP one.  There is one TCP connection, and *)
(* the receiver keeps the peer.  Lengths are counted in fragments.         *)
(***************************************************************************)
EXTENDS Naturals, Sequences

CONSTANTS
    Threads,            \* goroutines that call Send
    Sizes,              \* the lengths of messages
    MaxReassemblySize,  \* the longest message that is reassembled
    MaxSends,           \* bounds the messages
    MaxSessions,        \* bounds the handshakes
    None                \* no thread, no call, no buffer, no frame

Paths == {"kcp", "tcp"}
Sessions == 1..MaxSessions

Frames ==
    [kind : {"single", "first", "middle", "last", "confirm"},
     session : Sessions, nonce : Nat, msg : Nat, part : Nat]

ASSUME MessagingAssumption ==
    /\ Sizes \subseteq Nat \ {0}
    /\ MaxReassemblySize \in Nat \ {0}
    /\ MaxSends \in Nat /\ MaxSessions \in Nat
    /\ None \notin Threads \cup Frames

VARIABLES
    via,        \* the transport each session is established over
    tx,         \* the sender's session with the peer; 0 before the first
    kcp,        \* HasSession: the sender dialled KCP
    sendMu,     \* the thread that holds the peer's send lock
    call,       \* what a thread in sendAppFrame is sending
    nonce,      \* frames the sender encrypted, per session
    sent,       \* lengths of the messages, in the order of the lock
    up,         \* a path works
    wire,       \* frames on their way, per path
    rx,         \* the receiver's session
    known,      \* addrToPeer: paths whose address the receiver can tell
    stuck,      \* paths whose reader waits elsewhere (see Block)
    expected,   \* frames the receiver decrypted, per session
    holding,    \* the frame a reader decrypted and has not applied
    buffer,     \* ReassemblyBuffer: the fragments collected, or None
    delivered,  \* history: the messages handed to the application
    overlapped, \* history: both readers held a frame at once
    unheard,    \* history: messages of which a frame came from an unknown address
    trouble     \* history: a path broke or a frame did not decrypt

sender == <<tx, kcp, sendMu, call, nonce, sent>>
session == <<rx, known>>
receiver == <<session, stuck, expected, holding, buffer, delivered, overlapped, unheard>>
vars == <<via, sender, up, wire, receiver, trouble>>

Fragment(i, k) == [msg |-> i, part |-> k]
Content(i, n) == [k \in 1..n |-> Fragment(i, k)]

\* FrameTypeSingle, First, Middle, Last.
Kind(k, n) ==
    CASE n = 1 -> "single" [] n > 1 /\ k = 1 -> "first"
      [] k > 1 /\ k = n -> "last" [] OTHER -> "middle"

Frame(c) ==
    [kind |-> Kind(c.part, sent[c.msg]), session |-> c.session,
     nonce |-> nonce[c.session], msg |-> c.msg, part |-> c.part]

\* The last message of a handshake, in the TCP stream it was made for.
Confirm(s) == [kind |-> "confirm", session |-> s, nonce |-> 0, msg |-> 0, part |-> 0]

Init ==
    /\ via \in [Sessions -> {"udp", "tcp"}]
    /\ tx = 0 /\ kcp = FALSE
    /\ sendMu = None
    /\ call = [t \in Threads |-> None]
    /\ nonce = [s \in Sessions |-> 0]
    /\ sent = <<>>
    /\ up = [p \in Paths |-> TRUE]
    /\ wire = [p \in Paths |-> <<>>]
    /\ rx = 0 /\ known = {}
    /\ stuck = {}
    /\ expected = [s \in Sessions |-> 0]
    /\ holding = [p \in Paths |-> None]
    /\ buffer = None
    /\ delivered = <<>>
    /\ overlapped = FALSE
    /\ unheard = {}
    /\ trouble = FALSE

----------------------------------------------------------------------------
(* UpgradeTransport at both ends.                                          *)

\* Data of a session over UDP goes by KCP.
Path(s) == IF via[s] = "tcp" THEN "tcp" ELSE "kcp"

\* Never from TCP back to UDP.
Accepts(old, s) == s > old /\ (old > 0 /\ via[old] = "tcp" => via[s] = "tcp")

\* Mutant: the switch does not wait for the send lock.
TxUpgradeUnlocked(s) ==
    /\ Accepts(tx, s)
    /\ tx' = s
    /\ call' = [t \in Threads |->
                  IF call[t] = None THEN None ELSE [call[t] EXCEPT !.session = s]]
    /\ wire' = IF via[s] = "tcp" /\ rx < s /\ up["tcp"]
               THEN [wire EXCEPT !["tcp"] = Append(@, Confirm(s))] ELSE wire
    /\ UNCHANGED <<via, kcp, sendMu, nonce, sent, up, receiver, trouble>>

\* Over TCP the initiator's last message precedes its data in the stream.
TxUpgrade(s) ==
    /\ sendMu = None
    /\ Accepts(tx, s)
    /\ tx' = s
    /\ wire' = IF via[s] = "tcp" /\ rx < s /\ up["tcp"]
               THEN [wire EXCEPT !["tcp"] = Append(@, Confirm(s))] ELSE wire
    /\ UNCHANGED <<via, kcp, sendMu, call, nonce, sent, up, receiver, trouble>>

\* processHandshake and handleExistingPeer: the session, then the address.
RxSwitch(s) ==
    \/ /\ Accepts(rx, s)
       /\ rx' = s
       /\ known' = known \cup {Path(s)}
    \/ ~Accepts(rx, s) /\ UNCHANGED session

\* The receiver initiated the handshake, or its last message came by UDP.
RxUpgrade(s) ==
    /\ Accepts(rx, s)
    /\ via[s] = "udp" \/ tx < s
    /\ RxSwitch(s)
    /\ UNCHANGED <<via, sender, up, wire, stuck, expected, holding, buffer, delivered,
                   overlapped, unheard, trouble>>

----------------------------------------------------------------------------
(* sendAppFrame.                                                           *)

\* Lock, session and path: TCP, the KCP session there is, or a new one.
Begin(t, n) ==
    /\ call[t] = None /\ sendMu = None
    /\ tx > 0
    /\ Len(sent) < MaxSends
    /\ sendMu' = t
    /\ sent' = Append(sent, n)
    /\ kcp' = (kcp \/ via[tx] # "tcp")
    /\ call' = [call EXCEPT ![t] =
                  [msg |-> Len(sent) + 1, part |-> 1, session |-> tx,
                   path |-> Path(tx)]]
    /\ UNCHANGED <<via, tx, nonce, up, wire, receiver, trouble>>

Return(t) ==
    /\ call' = [call EXCEPT ![t] = None]
    /\ sendMu' = None

\* sendFrame: the frame is encrypted, then written.  A broken path takes it
\* without an error or fails, and then the rest of the message is not sent.
SendFrame(t) ==
    LET c == call[t]
        More == [call EXCEPT ![t].part = @ + 1]
    IN  /\ c # None
        /\ nonce' = [nonce EXCEPT ![c.session] = @ + 1]
        /\ IF up[c.path] THEN wire' = [wire EXCEPT ![c.path] = Append(@, Frame(c))]
                         ELSE UNCHANGED wire
        /\ \/ /\ c.part = sent[c.msg]
              /\ Return(t)
           \/ /\ c.part < sent[c.msg]
              /\ call' = More
              /\ UNCHANGED sendMu
           \/ /\ ~up[c.path]
              /\ Return(t)
        /\ UNCHANGED <<via, tx, kcp, sent, up, receiver, trouble>>

\* A connection breaks, with what it carries.
Break(p) ==
    /\ up[p]
    /\ up' = [up EXCEPT ![p] = FALSE]
    /\ wire' = [wire EXCEPT ![p] = <<>>]
    /\ trouble' = TRUE
    /\ UNCHANGED <<via, sender, receiver>>

----------------------------------------------------------------------------
(* handleTCP and handleSession: one reader per path.                       *)

\* Handling another packet or in the application's callback, a reader can wait
\* without end: for a write to TCP, which has no deadline, for the peer's send
\* lock (UpgradeTransport) or for the application.
Block(p) ==
    /\ p \notin stuck
    /\ holding[p] = None /\ wire[p] # <<>>
    /\ stuck' = stuck \cup {p}
    /\ UNCHANGED <<via, sender, up, wire, session, expected, holding, buffer, delivered,
                   overlapped, unheard, trouble>>

Unblock(p) ==
    /\ p \in stuck
    /\ stuck' = stuck \ {p}
    /\ UNCHANGED <<via, sender, up, wire, session, expected, holding, buffer, delivered,
                   overlapped, unheard, trouble>>

\* The TCP reader meets the end of a handshake.
ReadConfirm(p) ==
    /\ holding[p] = None
    /\ wire[p] # <<>> /\ Head(wire[p]).kind = "confirm"
    /\ RxSwitch(Head(wire[p]).session)
    /\ wire' = [wire EXCEPT ![p] = Tail(@)]
    /\ UNCHANGED <<via, sender, up, stuck, expected, holding, buffer, delivered,
                   overlapped, unheard, trouble>>

Decrypts(f) == f.session = rx /\ f.nonce = expected[rx]

\* processData: a frame from an address that belongs to no peer yet is dropped
\* and neither counted nor logged.
DropUnknown(p) ==
    LET f == Head(wire[p])
    IN  /\ holding[p] = None
        /\ wire[p] # <<>> /\ f.kind # "confirm"
        /\ p \notin known
        /\ wire' = [wire EXCEPT ![p] = Tail(@)]
        /\ unheard' = unheard \cup {f.msg}
        /\ UNCHANGED <<via, sender, up, session, stuck, expected, holding, buffer, delivered,
                       overlapped, trouble>>

\* processData up to the frame type.  A frame that does not decrypt is counted
\* and dropped.
Decrypt(p) ==
    LET f == Head(wire[p])
    IN  /\ holding[p] = None
        /\ wire[p] # <<>> /\ f.kind # "confirm"
        /\ p \in known
        /\ wire' = [wire EXCEPT ![p] = Tail(@)]
        /\ \/ /\ Decrypts(f)
              /\ expected' = [expected EXCEPT ![rx] = f.nonce + 1]
              /\ holding' = [holding EXCEPT ![p] = f]
              /\ overlapped' = (overlapped \/ \E q \in Paths \ {p} : holding[q] # None)
              /\ UNCHANGED trouble
           \/ /\ ~Decrypts(f)
              /\ trouble' = TRUE
              /\ UNCHANGED <<expected, holding, overlapped>>
        /\ UNCHANGED <<via, sender, up, session, stuck, buffer, delivered, unheard>>

ResetReassembly == buffer' = None

StartReassembly(x) == buffer' = <<x>> /\ UNCHANGED delivered

\* Mutant: a message of the greatest length is too long.
FitsStrictly == buffer # None /\ Len(buffer) + 1 < MaxReassemblySize

Fits == buffer # None /\ Len(buffer) + 1 <= MaxReassemblySize

\* Dropped without a buffer; with a full one, so is what was collected.
AppendReassembly(x) ==
    /\ buffer' = IF Fits THEN Append(buffer, x) ELSE None
    /\ UNCHANGED delivered

FinishReassembly(x) ==
    /\ delivered' = IF Fits THEN Append(delivered, Append(buffer, x)) ELSE delivered
    /\ ResetReassembly

\* processData from the frame type on.
Apply(p) ==
    LET f == holding[p]
        x == Fragment(f.msg, f.part)
    IN  /\ f # None
        /\ \/ /\ f.kind = "single"
              /\ ResetReassembly
              /\ delivered' = Append(delivered, <<x>>)
           \/ f.kind = "first" /\ StartReassembly(x)
           \/ f.kind = "middle" /\ AppendReassembly(x)
           \/ f.kind = "last" /\ FinishReassembly(x)
        /\ holding' = [holding EXCEPT ![p] = None]
        /\ UNCHANGED <<via, sender, up, wire, session, stuck, expected, overlapped,
                       unheard, trouble>>

Reader(p) ==
    /\ p \notin stuck
    /\ ReadConfirm(p) \/ DropUnknown(p) \/ Decrypt(p) \/ Apply(p)

Next ==
    \/ \E s \in Sessions : TxUpgrade(s) \/ RxUpgrade(s)
    \/ \E t \in Threads : SendFrame(t) \/ \E n \in Sizes : Begin(t, n)
    \/ \E p \in Paths : Break(p) \/ Reader(p) \/ Block(p) \/ Unblock(p)

\* The write of a frame goes on while the other end reads.
Flows(t) == call[t] # None /\ call[t].path \notin stuck /\ SendFrame(t)

\* A reader gets to what has arrived when it does not wait for ever, however
\* often it waits: every wait has taken a packet out of the way.
Fairness ==
    /\ \A p \in Paths : SF_vars(Reader(p))
    /\ \A t \in Threads : SF_vars(Flows(t))

Spec == Init /\ [][Next]_vars /\ Fairness
----------------------------------------------------------------------------
\* The messages as the application knows them.
LastDelivered ==
    IF delivered = <<>> THEN 0 ELSE delivered[Len(delivered)][1].msg

Contents == {Content(i, n) : i \in 1..MaxSends, n \in Sizes}

Channel == INSTANCE MessageChannel WITH
    sent <- [i \in 1..Len(sent) |-> Content(i, sent[i])],
    last <- LastDelivered,
    broken <- overlapped

(***************************************************************************)
(* Sending, the two paths, the change of sessions under way and the        *)
(* reassembly implement a channel of whole messages: what processData      *)
(* hands to the application was sent, whole, in order and once, however    *)
(* sends, switches, breaks and the two readers interleave, as long as the  *)
(* readers do not overlap.                                                 *)
(***************************************************************************)
WholeMessages == Channel!Spec

(***************************************************************************)
(* No message is lost in silence, unless it comes too early: one that      *)
(* sendAppFrame has taken and that fits the buffer is delivered in the     *)
(* end, unless a path broke, a frame failed to decrypt (which the receiver *)
(* counts), the readers overlapped, or the receiver had not finished the   *)
(* handshake and did not know the address.  It is assumed that no reader   *)
(* waits for ever.                                                         *)
(***************************************************************************)
NoSilentLoss ==
    (\A p \in Paths : []<>(p \notin stuck)) =>
        \A i \in 1..MaxSends :
            (Len(sent) >= i /\ sent[i] <= MaxReassemblySize) ~>
                \/ trouble \/ overlapped \/ i \in unheard
                \/ \E k \in 1..Len(delivered) : delivered[k][1].msg = i
=============================================================================
