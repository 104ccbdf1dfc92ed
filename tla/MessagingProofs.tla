-------------------------- MODULE MessagingProofs --------------------------
(***************************************************************************)
(* The refinement of the channel of whole messages, for any number of      *)
(* threads, messages, sessions and any lengths.                            *)
(*                                                                         *)
(* The argument is about nonces.  A session is used by one call at a time, *)
(* so the frames of a session carry the fragments of its messages in the   *)
(* order of their nonces, and sessions follow each other as messages do.   *)
(* The receiver decrypts a frame only as the next one of its session.  The *)
(* buffer therefore holds all that precedes the next fragment, or that     *)
(* fragment starts a message and the buffer does not matter.  Neither the  *)
(* order on a path nor that a message keeps to one path is needed.         *)
(***************************************************************************)
EXTENDS Messaging, SequenceTheorems, TLAPS

CallRecords == [msg : Nat, part : Nat, session : Sessions, path : Paths]
Fragments == [msg : Nat, part : Nat]

TypeOK ==
    /\ tx \in 0..MaxSessions /\ rx \in 0..MaxSessions
    /\ call \in [Threads -> CallRecords \cup {None}]
    /\ nonce \in [Sessions -> Nat] /\ expected \in [Sessions -> Nat]
    /\ sent \in Seq(Sizes)
    /\ wire \in [Paths -> Seq(Frames)]
    /\ holding \in [Paths -> Frames \cup {None}]
    /\ buffer \in Seq(Fragments) \cup {None}
    /\ delivered \in Seq(Seq(Fragments))
    /\ overlapped \in BOOLEAN

\* Frames with data: on a path, or decrypted and not applied.
Carried == {f \in UNION {Range(wire[p]) : p \in Paths} : f.kind # "confirm"}
Held == {holding[p] : p \in Paths} \ {None}
Data == Carried \cup Held

----------------------------------------------------------------------------
(* The sender: nonces follow the fragments.                                *)

FrameOK(f) ==
    /\ f.session <= tx
    /\ f.nonce < nonce[f.session]
    /\ f.msg \in 1..Len(sent)
    /\ f.part \in 1..sent[f.msg]
    /\ f.kind = Kind(f.part, sent[f.msg])
    /\ f.nonce = 0 => f.part = 1

Before(f, g) == f.msg < g.msg \/ (f.msg = g.msg /\ f.part < g.part)

\* The next frame of a session goes on with the message or starts another.
InOrder(f, g) ==
    /\ f.session < g.session => f.msg < g.msg
    /\ f.session = g.session /\ f.nonce < g.nonce => Before(f, g)
    /\ f.session = g.session /\ g.nonce = f.nonce + 1 /\ g.part > 1
          => f.msg = g.msg /\ g.part = f.part + 1

FramesOK == (\A f \in Data : FrameOK(f)) /\ (\A f, g \in Data : InOrder(f, g))

\* What call c sends next comes after frame f.
Awaits(c, f) ==
    /\ f.msg < c.msg \/ (f.msg = c.msg /\ f.session = tx /\ f.part < c.part)
    /\ f.session = tx /\ f.nonce + 1 = nonce[tx] /\ c.part > 1
          => f.msg = c.msg /\ c.part = f.part + 1

CallOK(t, c) ==
    /\ sendMu = t
    /\ c.session = tx
    /\ c.msg = Len(sent) /\ c.msg > 0
    /\ c.part \in 1..sent[c.msg]
    /\ nonce[tx] = 0 => c.part = 1
    /\ \A f \in Data : Awaits(c, f)

CallsOK == \A t \in Threads : call[t] # None => CallOK(t, call[t])

----------------------------------------------------------------------------
(* The receiver, as long as the readers do not overlap.                    *)

ExpectedOK ==
    \A s \in Sessions : expected[s] <= nonce[s] /\ (s > rx => expected[s] = 0)

\* The frame held is the last one decrypted, and there is no other.
HeldLast ==
    /\ \A p, q \in Paths : p # q => holding[p] = None \/ holding[q] = None
    /\ \A f \in Held : \/ f.session = rx /\ expected[rx] = f.nonce + 1
                       \/ f.session < rx /\ expected[rx] = 0

\* The buffer holds what precedes x in its message.
Collected(x) == x.part > 1 /\ buffer # None => buffer = Content(x.msg, x.part - 1)

\* The next frame to apply finds what precedes it.
Assembled ==
    /\ \A f \in Held : Collected(f)
    /\ Held = {} =>
         /\ \A g \in Carried : g.session = rx /\ g.nonce = expected[rx] => Collected(g)
         /\ \A t \in Threads : call[t] # None /\ tx = rx /\ nonce[tx] = expected[tx]
                                  => Collected(call[t])

\* Frame g can still be decrypted.
Ahead(g) == g.session > rx \/ (g.session = rx /\ g.nonce >= expected[rx])

\* No message is behind the last one delivered.
NotYet ==
    /\ LastDelivered \in 0..Len(sent)
    /\ \A f \in Held : LastDelivered < f.msg
    /\ \A g \in Carried : Ahead(g) => LastDelivered < g.msg
    /\ \A t \in Threads : call[t] # None => LastDelivered < call[t].msg

SenderInv == TypeOK /\ FramesOK /\ CallsOK /\ ExpectedOK
ReceiverInv == ~overlapped => HeldLast /\ Assembled /\ NotYet

----------------------------------------------------------------------------
\* First-order reasoning suffices for most leaves; those that need records or
\* arithmetic cite SMT.
USE Zenon

\* A frame appended is the only new one on a path.
LEMMA RangeAppend ==
    ASSUME NEW S, NEW s \in Seq(S), NEW x \in S
    PROVE  Range(Append(s, x)) = Range(s) \cup {x}
<1> DEFINE a == Append(s, x)
<1>1. /\ a \in Seq(S) /\ Len(a) = Len(s) + 1 /\ Len(s) \in Nat /\ a[Len(s) + 1] = x
      /\ \A i \in 1..Len(s) : a[i] = s[i]
  BY SMT
<1> HIDE DEF a
<1>2. Range(a) = {a[i] : i \in 1..Len(a)} /\ Range(s) = {s[i] : i \in 1..Len(s)}
  BY <1>1, RangeEquality
<1>3. \A i \in 1..Len(a) : i \in 1..Len(s) \/ i = Len(s) + 1 BY <1>1, SMT
<1>4. Len(s) + 1 \in 1..Len(a) /\ \A i \in 1..Len(s) : i \in 1..Len(a) BY <1>1, SMT
<1>5. Range(a) \subseteq Range(s) \cup {x} BY <1>1, <1>2, <1>3
<1>6. Range(s) \subseteq Range(a) BY <1>1, <1>2, <1>4
<1>7. x \in Range(a) BY <1>1, <1>2, <1>4
<1> QED BY <1>5, <1>6, <1>7 DEF a

\* What is left of a path when its first frame is taken.
LEMMA RangeTail ==
    ASSUME NEW S, NEW s \in Seq(S), s # <<>>
    PROVE  Head(s) \in Range(s) /\ Range(Tail(s)) \subseteq Range(s)
<1>1. /\ Tail(s) \in Seq(S) /\ Len(Tail(s)) = Len(s) - 1 /\ Len(s) \in Nat \ {0}
      /\ \A i \in 1..Len(Tail(s)) : Tail(s)[i] = s[i + 1]
  BY HeadTailProperties, EmptySeq
<1>2. Range(Tail(s)) = {Tail(s)[i] : i \in 1..Len(Tail(s))} BY <1>1, RangeEquality
<1>3. Range(s) = {s[i] : i \in 1..Len(s)} BY RangeEquality
<1>4. Head(s) = s[1] /\ 1 \in 1..Len(s) BY <1>1, SMT
<1>5. \A i \in 1..Len(Tail(s)) : i + 1 \in 1..Len(s) BY <1>1, SMT
<1> QED BY <1>1, <1>2, <1>3, <1>4, <1>5

\* The frame types tell the first and the last fragment of a message.
LEMMA KindFacts ==
    ASSUME NEW n \in Nat \ {0}, NEW k \in 1..n
    PROVE  /\ Kind(k, n) \in {"single", "first", "middle", "last"}
           /\ Kind(k, n) = "single" => n = 1 /\ k = 1
           /\ Kind(k, n) = "first" => k = 1
           /\ Kind(k, n) \in {"middle", "last"} => k > 1
           /\ Kind(k, n) = "last" => k = n
<1>1. CASE n = 1 BY <1>1, SMT DEF Kind
<1>2. CASE n > 1 /\ k = 1 BY <1>2, SMT DEF Kind
<1>3. CASE k > 1 /\ k = n BY <1>3, SMT DEF Kind
<1>4. CASE k > 1 /\ k < n BY <1>4, SMT DEF Kind
<1> QED BY <1>1, <1>2, <1>3, <1>4, SMT

\* A function on 1..n is a sequence of length n.
LEMMA SequenceOf ==
    ASSUME NEW S, NEW n \in Nat, NEW a \in [1..n -> S]
    PROVE  a \in Seq(S) /\ Len(a) = n
<1>1. a \in Seq(S) BY SeqDef
<1>2. Len(a) \in Nat /\ 1..Len(a) = 1..n BY <1>1, LenProperties
<1> QED BY <1>1, <1>2, SMT

\* The fragments of a message, one by one.
LEMMA ContentFacts ==
    ASSUME NEW i, NEW n \in Nat
    PROVE  /\ Content(i, n) \in Seq({Fragment(i, k) : k \in 1..n}) /\ Len(Content(i, n)) = n
           /\ \A k \in 1..n : Content(i, n)[k] = Fragment(i, k)
<1>1. Content(i, n) \in [1..n -> {Fragment(i, k) : k \in 1..n}] BY DEF Content
<1> QED BY <1>1, SequenceOf DEF Content

\* Each fragment but the first extends what precedes it.
LEMMA ContentGrows ==
    ASSUME NEW i, NEW n \in Nat
    PROVE  /\ Append(Content(i, n), Fragment(i, n + 1)) = Content(i, n + 1)
           /\ Content(i, 1) = <<Fragment(i, 1)>>
<1>1. ASSUME NEW a, NEW m \in Nat, a \in Seq({Fragment(i, k) : k \in 1..m}), Len(a) = m,
             \A k \in 1..m : a[k] = Fragment(i, k)
      PROVE  a = Content(i, m)
  <2>1. /\ Content(i, m) \in Seq({Fragment(i, k) : k \in 1..m}) /\ Len(Content(i, m)) = m
        /\ \A k \in 1..m : Content(i, m)[k] = Fragment(i, k)
    BY ContentFacts
  <2>2. Len(a) = Len(Content(i, m)) /\ \A k \in 1..Len(a) : a[k] = Content(i, m)[k]
    BY <1>1, <2>1
  <2> QED BY <1>1, <2>1, <2>2, SeqEqual, SMT
<1> DEFINE a == Append(Content(i, n), Fragment(i, n + 1))
<1>2. /\ a \in Seq({Fragment(i, k) : k \in 1..(n + 1)}) /\ Len(a) = n + 1
      /\ \A k \in 1..(n + 1) : a[k] = Fragment(i, k)
  <2> DEFINE S == {Fragment(i, k) : k \in 1..n}
             T == {Fragment(i, k) : k \in 1..(n + 1)}
  <2>0. S \subseteq T /\ Fragment(i, n + 1) \in T
    <3>1. 1..n \subseteq 1..(n + 1) /\ n + 1 \in 1..(n + 1) BY SMT
    <3> QED BY <3>1
  <2>1. Content(i, n) \in Seq(S) BY ContentFacts
  <2> HIDE DEF S, T
  <2>2. Content(i, n) \in Seq(T) BY <2>0, <2>1, SeqMonotonic
  <2>3. /\ a \in Seq(T) /\ Len(a) = Len(Content(i, n)) + 1
        /\ \A k \in 1..(Len(Content(i, n)) + 1) :
              a[k] = IF k <= Len(Content(i, n)) THEN Content(i, n)[k] ELSE Fragment(i, n + 1)
    BY <2>0, <2>2, SMT
  <2>4. a \in Seq(T) /\ Len(a) = n + 1 BY <2>3, ContentFacts
  <2>5. ASSUME NEW k \in 1..(n + 1) PROVE a[k] = Fragment(i, k)
    <3>1. k \in 1..n \/ k = n + 1 BY SMT
    <3>2. a[k] = IF k <= n THEN Content(i, n)[k] ELSE Fragment(i, n + 1) BY <2>3, ContentFacts
    <3>3. CASE k = n + 1
      <4>1. ~(n + 1 <= n) BY SMT
      <4> QED BY <3>2, <3>3, <4>1
    <3>4. CASE k \in 1..n
      <4>1. k <= n BY <3>4, SMT
      <4>2. Content(i, n)[k] = Fragment(i, k) BY <3>4, ContentFacts
      <4> QED BY <3>2, <4>1, <4>2
    <3> QED BY <3>1, <3>3, <3>4
  <2> QED BY <2>4, <2>5 DEF T
<1>3. a = Content(i, n + 1)
  <2> HIDE DEF a
  <2>1. n + 1 \in Nat BY SMT
  <2> QED BY <1>1, <1>2, <2>1
<1>4. <<Fragment(i, 1)>> = Content(i, 1)
  <2>1. \A k \in 1..1 : k = 1 BY SMT
  <2>2. 1 \in 1..1 /\ 1 \in Nat BY SMT
  <2>3. <<Fragment(i, 1)>> \in Seq({Fragment(i, k) : k \in 1..1}) BY <2>2, SMT
  <2>4. Len(<<Fragment(i, 1)>>) = 1 /\ <<Fragment(i, 1)>>[1] = Fragment(i, 1) BY SMT
  <2> QED BY <1>1, <2>1, <2>2, <2>3, <2>4
<1> QED BY <1>3, <1>4

----------------------------------------------------------------------------
(* What a step does to the frames.                                         *)

\* Frames are records, and none of them is None.
LEMMA FrameTypes ==
    ASSUME TypeOK
    PROVE  /\ Carried \subseteq Frames /\ Held \subseteq Frames /\ Data \subseteq Frames
           /\ None \notin Frames
<1>1. ASSUME NEW p \in Paths PROVE Range(wire[p]) \subseteq Frames
  <2>1. wire[p] \in Seq(Frames) BY DEF TypeOK
  <2> QED BY <2>1, RangeOfSeq
<1>2. Carried \subseteq Frames BY <1>1 DEF Carried
<1>3. Held \subseteq Frames BY DEF Held, TypeOK
<1> QED BY <1>2, <1>3, MessagingAssumption DEF Data

\* A frame is written to a path.
LEMMA Written ==
    ASSUME TypeOK, NEW p \in Paths, NEW x \in Frames,
           wire' = [wire EXCEPT ![p] = Append(@, x)]
    PROVE  /\ wire' \in [Paths -> Seq(Frames)]
           /\ \A f \in Carried' : f \in Carried \/ (f = x /\ x.kind # "confirm")
<1>1. wire[p] \in Seq(Frames) /\ wire \in [Paths -> Seq(Frames)] BY DEF TypeOK
<1>2. Append(wire[p], x) \in Seq(Frames) BY <1>1, SMT
<1>3. Range(wire'[p]) = Range(wire[p]) \cup {x}
  <2>1. wire'[p] = Append(wire[p], x) BY <1>1
  <2>2. Range(Append(wire[p], x)) = Range(wire[p]) \cup {x} BY <1>1, RangeAppend, SMT
  <2> QED BY <2>1, <2>2
<1>4. \A q \in Paths : q # p => wire'[q] = wire[q] BY <1>1
<1>5. \A f \in Carried' : f \in Carried \/ (f = x /\ x.kind # "confirm")
  BY <1>3, <1>4 DEF Carried
<1> QED BY <1>1, <1>2, <1>5

\* A reader takes the first frame of a path.
LEMMA Taken ==
    ASSUME TypeOK, NEW p \in Paths, wire[p] # <<>>, wire' = [wire EXCEPT ![p] = Tail(@)]
    PROVE  /\ wire' \in [Paths -> Seq(Frames)]
           /\ Carried' \subseteq Carried
           /\ Head(wire[p]) \in Frames
           /\ Head(wire[p]).kind # "confirm" => Head(wire[p]) \in Carried
<1>1. wire[p] \in Seq(Frames) /\ wire \in [Paths -> Seq(Frames)] BY DEF TypeOK
<1>2. Tail(wire[p]) \in Seq(Frames) /\ Head(wire[p]) \in Frames BY <1>1, HeadTailProperties
<1>3. Head(wire[p]) \in Range(wire[p]) /\ Range(Tail(wire[p])) \subseteq Range(wire[p])
  BY <1>1, RangeTail
<1>4. wire'[p] = Tail(wire[p]) /\ \A q \in Paths : q # p => wire'[q] = wire[q] BY <1>1
<1>5. Carried' \subseteq Carried BY <1>3, <1>4 DEF Carried
<1> QED BY <1>1, <1>2, <1>3, <1>5 DEF Carried

\* Losing frames and applying them leaves the sender's order as it is.
LEMMA FewerFrames ==
    ASSUME FramesOK, CallsOK, Data' \subseteq Data, UNCHANGED <<tx, sendMu, call, nonce, sent>>
    PROVE  FramesOK' /\ CallsOK'
<1>1. FramesOK' BY DEF FramesOK, FrameOK
<1>2. CallsOK' BY DEF CallsOK, CallOK, Awaits
<1> QED BY <1>1, <1>2

\* With the send lock free no call is under way.
LEMMA NoCall ==
    ASSUME CallsOK, sendMu = None
    PROVE  \A t \in Threads : call[t] = None
  BY MessagingAssumption DEF CallsOK, CallOK

----------------------------------------------------------------------------
(* The sender.                                                             *)

\* UpgradeTransport of the sender waits for the send lock.
LEMMA TxUpgradeSender ==
    ASSUME SenderInv, NEW s \in Sessions, TxUpgrade(s)
    PROVE  SenderInv' /\ Carried' \subseteq Carried /\ Held' = Held
<1>0. TypeOK /\ FramesOK /\ CallsOK /\ ExpectedOK BY DEF SenderInv
<1>1. Confirm(s) \in Frames /\ Confirm(s).kind = "confirm"
  BY SMT DEF Confirm, Frames
<1>2. wire' = wire \/ wire' = [wire EXCEPT !["tcp"] = Append(@, Confirm(s))]
  BY DEF TxUpgrade
<1>3. wire' \in [Paths -> Seq(Frames)] /\ Carried' \subseteq Carried
  <2>1. CASE wire' = wire BY <1>0, <2>1 DEF TypeOK, Carried
  <2>2. CASE wire' = [wire EXCEPT !["tcp"] = Append(@, Confirm(s))]
    BY <1>0, <1>1, <2>2, Written DEF Paths
  <2> QED BY <1>2, <2>1, <2>2
<1>4. Held' = Held BY DEF TxUpgrade, receiver, session, Held
<1>5. tx' = s /\ s > tx /\ s \in 0..MaxSessions
  BY MessagingAssumption, SMT DEF TxUpgrade, Accepts, Sessions
<1>6. TypeOK' BY <1>0, <1>3, <1>5 DEF TypeOK, TxUpgrade, receiver, session
<1>7. FramesOK'
  <2>1. Data' \subseteq Data BY <1>3, <1>4 DEF Data
  <2>2. ASSUME NEW f \in Data PROVE f.session <= tx => f.session <= s
    <3>1. f.session \in Nat /\ s \in Nat /\ tx \in Nat
      <4>1. f \in Frames BY <1>0, FrameTypes
      <4>2. tx \in 0..MaxSessions BY <1>0 DEF TypeOK
      <4> QED BY <4>1, <4>2, MessagingAssumption, SMT DEF Frames, Sessions
    <3> QED BY <1>5, <3>1, SMT
  <2> QED BY <1>0, <1>5, <2>1, <2>2 DEF FramesOK, FrameOK, TxUpgrade
<1>8. CallsOK' BY <1>0, NoCall DEF TxUpgrade, CallsOK
<1>9. ExpectedOK' BY <1>0 DEF ExpectedOK, TxUpgrade, receiver, session
<1> QED BY <1>3, <1>4, <1>6, <1>7, <1>8, <1>9 DEF SenderInv

\* A call of Send gets the lock: its message is the last one.
LEMMA BeginSender ==
    ASSUME SenderInv, NEW t \in Threads, NEW n \in Sizes, Begin(t, n)
    PROVE  SenderInv' /\ Carried' = Carried /\ Held' = Held
<1>0. TypeOK /\ FramesOK /\ CallsOK /\ ExpectedOK BY DEF SenderInv
<1>1. /\ sent' \in Seq(Sizes) /\ Len(sent) \in Nat /\ Len(sent') = Len(sent) + 1
      /\ sent'[Len(sent) + 1] = n /\ \A i \in 1..Len(sent) : sent'[i] = sent[i]
  <2>1. sent \in Seq(Sizes) /\ sent' = Append(sent, n) BY <1>0 DEF TypeOK, Begin
  <2> QED BY <2>1, SMT
<1>2. PICK c \in CallRecords : /\ c.msg = Len(sent) + 1 /\ c.part = 1 /\ c.session = tx
                                /\ call' = [call EXCEPT ![t] = c]
  <2> DEFINE c == [msg |-> Len(sent) + 1, part |-> 1, session |-> tx,
                   path |-> Path(tx)]
  <2>1. tx \in Sessions BY <1>0, MessagingAssumption, SMT DEF Begin, TypeOK, Sessions
  <2>2. Len(sent) + 1 \in Nat /\ 1 \in Nat BY <1>1, SMT
  <2>3. c \in CallRecords /\ c.msg = Len(sent) + 1 /\ c.part = 1 /\ c.session = tx
    BY <2>1, <2>2, SMT DEF CallRecords, Paths, Path
  <2>4. call' = [call EXCEPT ![t] = c] BY DEF Begin
  <2> HIDE DEF c
  <2> QED BY <2>3, <2>4
<1>4. Carried' = Carried /\ Held' = Held /\ Data' = Data
  BY DEF Begin, receiver, session, Carried, Held, Data
<1>5. TypeOK'
  <2>1. UNCHANGED <<tx, nonce, wire, rx, expected, holding, buffer, delivered, overlapped>>
    BY DEF Begin, receiver, session
  <2>2. call' \in [Threads -> CallRecords \cup {None}] BY <1>0, <1>2 DEF TypeOK
  <2> QED BY <1>0, <1>1, <2>1, <2>2 DEF TypeOK
<1>6. FramesOK'
  <2>1. ASSUME NEW f \in Data, FrameOK(f) PROVE FrameOK(f)'
    <3>1. f.msg \in 1..Len(sent) /\ f.msg \in 1..Len(sent')
      BY <1>1, <2>1, SMT DEF FrameOK
    <3>2. UNCHANGED <<tx, nonce>> BY DEF Begin
    <3> QED BY <1>1, <2>1, <3>1, <3>2 DEF FrameOK
  <2> QED BY <1>0, <1>4, <2>1 DEF FramesOK
<1>7. CallsOK'
  <2>1. \A u \in Threads : u # t => call'[u] = None
    BY <1>0, <1>2, NoCall DEF Begin, TypeOK
  <2>2. call'[t] = c BY <1>0, <1>2 DEF TypeOK
  <2>3. CallOK(t, c)'
    <3>1. sendMu' = t /\ UNCHANGED <<tx, nonce>> BY DEF Begin
    <3>2. n \in Nat \ {0} BY MessagingAssumption
    <3>3. c.part \in 1..sent'[c.msg] BY <1>1, <1>2, <3>2, SMT
    <3>4. ASSUME NEW f \in Data PROVE Awaits(c, f)'
      <4>1. f.msg < c.msg BY <1>0, <1>1, <1>2, SMT DEF FramesOK, FrameOK
      <4>2. ~(c.part > 1) BY <1>2, SMT
      <4> QED BY <4>1, <4>2 DEF Awaits
    <3>5. c.msg > 0 BY <1>1, <1>2, SMT
    <3> QED BY <1>1, <1>2, <1>4, <3>1, <3>3, <3>4, <3>5 DEF CallOK
  <2> QED BY <2>1, <2>2, <2>3 DEF CallsOK
<1>8. ExpectedOK' BY <1>0 DEF ExpectedOK, Begin, receiver, session
<1> QED BY <1>4, <1>5, <1>6, <1>7, <1>8 DEF SenderInv

\* What sendFrame does for the call c of thread t: frame g.
Sends(t, c, g) ==
    /\ c \in CallRecords /\ c = call[t] /\ CallOK(t, c)
    /\ g \in Frames /\ g.session = tx /\ g.nonce = nonce[tx] /\ g.msg = c.msg /\ g.part = c.part
    /\ g.kind = Kind(c.part, sent[c.msg]) /\ g.kind # "confirm"
    /\ wire' \in [Paths -> Seq(Frames)] /\ Carried' \subseteq Carried \cup {g} /\ Held' = Held
    /\ nonce' \in [Sessions -> Nat]
    /\ tx \in Sessions /\ nonce'[tx] = nonce[tx] + 1 /\ \A s \in Sessions : s # tx => nonce'[s] = nonce[s]
    /\ \A u \in Threads : u # t => call'[u] = call[u]
    /\ UNCHANGED <<tx, sent, receiver>>

\* The call goes on as d, or returns.
GoesOn(t, c, d) ==
    /\ d \in CallRecords /\ d = call'[t] /\ c.part < sent[c.msg] /\ sendMu' = sendMu
    /\ d.msg = c.msg /\ d.session = c.session /\ d.part = c.part + 1

\* One call of sendFrame: the frame, and whether the call goes on.
LEMMA SendFrameFacts ==
    ASSUME SenderInv, NEW t \in Threads, SendFrame(t)
    PROVE  \E c, g : /\ Sends(t, c, g)
                     /\ call' \in [Threads -> CallRecords \cup {None}]
                     /\ call'[t] = None \/ \E d : GoesOn(t, c, d)
<1>0. TypeOK /\ FramesOK /\ CallsOK /\ ExpectedOK BY DEF SenderInv
<1>1. call[t] # None BY DEF SendFrame
<1>2. PICK c : c = call[t] OBVIOUS
<1>3. c \in CallRecords /\ CallOK(t, c) BY <1>0, <1>1, <1>2 DEF TypeOK, CallsOK
<1>4. /\ c.msg \in Nat /\ c.part \in Nat /\ c.session \in Sessions /\ c.path \in Paths
      /\ c.session = tx /\ tx \in Sessions /\ c.msg = Len(sent) /\ c.msg > 0
      /\ c.part \in 1..sent[c.msg]
  BY <1>3, SMT DEF CallRecords, CallOK
<1>5. sent[c.msg] \in Nat \ {0}
  <2>1. sent \in Seq(Sizes) /\ c.msg \in 1..Len(sent) BY <1>0, <1>4, SMT DEF TypeOK
  <2> QED BY <2>1, ElementOfSeq, MessagingAssumption
<1>6. Kind(c.part, sent[c.msg]) \in {"single", "first", "middle", "last"}
  BY <1>4, <1>5, KindFacts
<1>7. nonce[tx] \in Nat /\ nonce[tx] + 1 \in Nat BY <1>0, <1>4, SMT DEF TypeOK
<1>8. PICK g : g = Frame(c) OBVIOUS
<1>9. /\ g \in Frames /\ g.session = tx /\ g.nonce = nonce[tx] /\ g.msg = c.msg
      /\ g.part = c.part /\ g.kind = Kind(c.part, sent[c.msg]) /\ g.kind # "confirm"
  BY <1>4, <1>6, <1>7, <1>8, SMT DEF Frame, Frames
<1>10. wire' = wire \/ wire' = [wire EXCEPT ![c.path] = Append(@, g)]
  BY <1>2, <1>8 DEF SendFrame
<1>11. wire' \in [Paths -> Seq(Frames)] /\ Carried' \subseteq Carried \cup {g}
  <2>1. CASE wire' = wire BY <1>0, <2>1 DEF TypeOK, Carried
  <2>2. CASE wire' = [wire EXCEPT ![c.path] = Append(@, g)]
    BY <1>0, <1>4, <1>9, <2>2, Written
  <2> QED BY <1>10, <2>1, <2>2
<1>12. UNCHANGED <<tx, sent, receiver>> /\ Held' = Held BY DEF SendFrame, Held, receiver, session
<1>13. /\ nonce' \in [Sessions -> Nat] /\ nonce'[tx] = nonce[tx] + 1
       /\ \A s \in Sessions : s # tx => nonce'[s] = nonce[s]
  <2>1. nonce' = [nonce EXCEPT ![tx] = nonce[tx] + 1] BY <1>2, <1>4 DEF SendFrame
  <2> QED BY <1>0, <1>4, <1>7, <2>1 DEF TypeOK
<1> DEFINE d == [c EXCEPT !.part = c.part + 1]
<1>14. d \in CallRecords /\ d.msg = c.msg /\ d.session = c.session /\ d.part = c.part + 1
  BY <1>3, SMT DEF CallRecords
<1>15. \/ call' = [call EXCEPT ![t] = None]
       \/ call' = [call EXCEPT ![t] = d] /\ c.part < sent[c.msg] /\ sendMu' = sendMu
  BY <1>2 DEF SendFrame, Return
<1> HIDE DEF d
<1>16. /\ call' \in [Threads -> CallRecords \cup {None}]
       /\ \A u \in Threads : u # t => call'[u] = call[u]
       /\ call'[t] = None \/ GoesOn(t, c, d)
  <2>1. call \in [Threads -> CallRecords \cup {None}] BY <1>0 DEF TypeOK
  <2>2. CASE call' = [call EXCEPT ![t] = None] BY <2>1, <2>2
  <2>3. CASE call' = [call EXCEPT ![t] = d] /\ c.part < sent[c.msg] /\ sendMu' = sendMu
    BY <1>14, <2>1, <2>3 DEF GoesOn
  <2> QED BY <1>15, <2>2, <2>3
<1>17. Sends(t, c, g) BY <1>2, <1>3, <1>4, <1>9, <1>11, <1>12, <1>13, <1>16 DEF Sends
<1> QED BY <1>16, <1>17

\* The next frame of a call has the next nonce of its session and comes after
\* all frames there are.
LEMMA SendFrameSender ==
    ASSUME SenderInv, NEW t \in Threads, SendFrame(t)
    PROVE  SenderInv'
<1>0. TypeOK /\ FramesOK /\ CallsOK /\ ExpectedOK BY DEF SenderInv
<1>1. PICK c, g : /\ Sends(t, c, g)
                  /\ call' \in [Threads -> CallRecords \cup {None}]
                  /\ call'[t] = None \/ \E d : GoesOn(t, c, d)
  BY SendFrameFacts
<1>2. Data' \subseteq Data \cup {g} BY <1>1 DEF Sends, Data
<1>3. TypeOK' BY <1>0, <1>1 DEF Sends, TypeOK, receiver, session
<1>4. /\ g \in Frames /\ g.session = tx /\ g.nonce = nonce[tx] /\ g.msg = c.msg /\ g.part = c.part
      /\ g.kind = Kind(c.part, sent[c.msg]) /\ nonce'[tx] = nonce[tx] + 1 /\ tx \in Sessions
      /\ c \in CallRecords /\ CallOK(t, c) /\ UNCHANGED <<tx, sent>>
  BY <1>1 DEF Sends
<1>5. tx \in Nat /\ nonce[tx] \in Nat /\ c.part \in Nat /\ c.msg \in Nat
  BY <1>0, <1>4, MessagingAssumption, SMT DEF TypeOK, Sessions, CallRecords
<1>6. ASSUME NEW f \in Data
      PROVE  /\ f.session \in Sessions /\ f.session \in Nat /\ f.nonce \in Nat
             /\ f.msg \in Nat /\ f.part \in Nat
             /\ FrameOK(f) /\ Awaits(c, f)
  <2>1. f \in Frames BY <1>0, FrameTypes
  <2>2. f.session \in Sessions /\ f.session \in Nat /\ f.nonce \in Nat /\ f.msg \in Nat /\ f.part \in Nat
    BY <2>1, MessagingAssumption, SMT DEF Frames, Sessions
  <2> QED BY <1>0, <1>4, <2>2 DEF FramesOK, CallOK
<1>7. FramesOK'
  <2>1. FrameOK(g)'
    <3>1. g.nonce < nonce'[g.session] /\ g.session <= tx BY <1>4, <1>5, SMT
    <3>2. g.msg \in 1..Len(sent) BY <1>4, <1>5, SMT DEF CallOK
    <3> QED BY <1>4, <3>1, <3>2 DEF FrameOK, CallOK
  <2>2. ASSUME NEW f \in Data PROVE FrameOK(f)'
    <3>1. f.nonce < nonce'[f.session]
      <4>1. nonce'[f.session] = nonce[f.session] \/ (f.session = tx /\ nonce'[tx] = nonce[tx] + 1)
        BY <1>1, <1>6 DEF Sends
      <4> QED BY <1>5, <1>6, <4>1, SMT DEF FrameOK
    <3> QED BY <1>4, <1>6, <3>1 DEF FrameOK
  <2>3. ASSUME NEW f \in Data PROVE InOrder(f, g) /\ InOrder(g, f)
    <3>1. InOrder(f, g)
      <4>1. f.session < tx => f.msg < c.msg BY <1>5, <1>6, SMT DEF Awaits
      <4>2. Before(f, g) BY <1>4, <1>6 DEF Awaits, Before
      <4>3. f.session = tx /\ nonce[tx] = f.nonce + 1 /\ c.part > 1
               => f.msg = c.msg /\ c.part = f.part + 1
        BY <1>6 DEF Awaits
      <4> QED BY <1>4, <4>1, <4>2, <4>3 DEF InOrder
    <3>2. ~(tx < f.session) /\ ~(f.session = tx /\ nonce[tx] < f.nonce)
          /\ ~(f.session = tx /\ f.nonce = nonce[tx] + 1)
      BY <1>5, <1>6, SMT DEF FrameOK
    <3> QED BY <1>4, <3>1, <3>2 DEF InOrder
  <2>4. InOrder(g, g) BY <1>4, <1>5, SMT DEF InOrder
  <2> QED BY <1>0, <1>2, <2>1, <2>2, <2>3, <2>4 DEF FramesOK
<1>8. CallsOK'
  <2>1. \A u \in Threads : u # t => call'[u] = None
    BY <1>0, <1>1 DEF Sends, CallsOK, CallOK
  <2>2. ASSUME NEW d, GoesOn(t, c, d) PROVE CallOK(t, d)'
    <3>1. /\ sendMu' = t /\ d.session = tx /\ d.msg = c.msg /\ c.msg = Len(sent) /\ c.msg > 0
          /\ d.part = c.part + 1
      BY <1>4, <2>2 DEF GoesOn, CallOK
    <3>2. d.part \in 1..sent[c.msg]
      <4>1. c.part \in 1..sent[c.msg] /\ c.part < sent[c.msg] BY <1>4, <2>2 DEF CallOK, GoesOn
      <4>2. sent[c.msg] \in Nat
        <5>1. sent \in Seq(Sizes) /\ c.msg \in 1..Len(sent) BY <1>0, <1>5, <3>1, SMT DEF TypeOK
        <5> QED BY <5>1, ElementOfSeq, MessagingAssumption
      <4> QED BY <1>5, <3>1, <4>1, <4>2, SMT
    <3>3. ASSUME NEW f \in Data PROVE Awaits(d, f)'
      <4>1. f.msg < d.msg \/ (f.msg = d.msg /\ f.session = tx /\ f.part < d.part)
        BY <1>5, <1>6, <3>1, SMT DEF Awaits
      <4>2. ~(f.session = tx /\ f.nonce + 1 = nonce[tx] + 1)
        BY <1>5, <1>6, SMT DEF FrameOK
      <4> QED BY <1>4, <4>1, <4>2 DEF Awaits
    <3>4. Awaits(d, g)'
      <4>1. g.part < d.part BY <1>4, <1>5, <3>1, SMT
      <4> QED BY <1>4, <3>1, <4>1 DEF Awaits
    <3>5. nonce'[tx] # 0 BY <1>4, <1>5, SMT
    <3> QED BY <1>2, <1>4, <3>1, <3>2, <3>3, <3>4, <3>5 DEF CallOK
  <2>3. call'[t] # None => CallOK(t, call[t])' BY <1>1, <2>2 DEF GoesOn, CallOK, Awaits
  <2> QED BY <2>1, <2>3 DEF CallsOK
<1>9. ExpectedOK'
  <2>1. UNCHANGED <<rx, expected>> BY <1>1 DEF Sends, receiver, session
  <2>2. ASSUME NEW s \in Sessions PROVE expected[s] <= nonce'[s]
    <3>1. nonce'[s] = nonce[s] \/ nonce'[s] = nonce[s] + 1 BY <1>1 DEF Sends
    <3>2. expected[s] \in Nat /\ nonce[s] \in Nat /\ expected[s] <= nonce[s]
      BY <1>0 DEF TypeOK, ExpectedOK
    <3> QED BY <3>1, <3>2, SMT
  <2> QED BY <1>0, <2>1, <2>2 DEF ExpectedOK
<1> QED BY <1>3, <1>7, <1>8, <1>9 DEF SenderInv

----------------------------------------------------------------------------
(* Steps of the network and of the receiver, as the sender's order sees    *)
(* them.                                                                   *)

\* The receiver stays with its session or takes up a later one, unused.
RxMoves ==
    \/ rx' = rx
    \/ rx' > rx /\ rx' \in Sessions /\ expected[rx'] = 0

\* UpgradeTransport takes up no earlier session again.
LEMMA RxSwitchMoves ==
    ASSUME SenderInv, NEW s \in Sessions, RxSwitch(s), UNCHANGED <<nonce, expected>>
    PROVE  RxMoves /\ rx' \in 0..MaxSessions /\ ExpectedOK'
<1>0. TypeOK /\ ExpectedOK BY DEF SenderInv
<1>1. rx \in 0..MaxSessions BY <1>0 DEF TypeOK
<1>2. CASE rx' = rx BY <1>0, <1>1, <1>2 DEF RxMoves, ExpectedOK
<1>3. CASE rx' = s /\ s > rx
  <2>1. s \in 0..MaxSessions /\ s \in Nat /\ rx \in Nat BY <1>1, MessagingAssumption, SMT DEF Sessions
  <2>2. expected[s] = 0 BY <1>0, <1>3 DEF ExpectedOK
  <2>3. ASSUME NEW u \in Sessions PROVE u > s => u > rx
    BY <1>3, <2>1, MessagingAssumption, SMT DEF Sessions
  <2>4. ExpectedOK' BY <1>0, <1>3, <2>3 DEF ExpectedOK
  <2> QED BY <1>3, <2>1, <2>2, <2>4 DEF RxMoves
<1> QED BY <1>2, <1>3 DEF RxSwitch, Accepts, session

\* UpgradeTransport of the receiver.
LEMMA RxUpgradeSender ==
    ASSUME SenderInv, NEW s \in Sessions, RxUpgrade(s)
    PROVE  SenderInv' /\ RxMoves /\ Carried' \subseteq Carried
<1>0. TypeOK /\ FramesOK /\ CallsOK BY DEF SenderInv
<1>1. RxSwitch(s) /\ UNCHANGED <<sender, wire, expected, holding, buffer, delivered, overlapped>>
  BY DEF RxUpgrade
<1>2. UNCHANGED <<tx, sendMu, call, nonce, sent>> BY <1>1 DEF sender
<1>3. RxMoves /\ rx' \in 0..MaxSessions /\ ExpectedOK' BY <1>1, <1>2, RxSwitchMoves
<1>4. Data' = Data /\ Carried' = Carried BY <1>1 DEF Data, Carried, Held
<1>5. TypeOK' BY <1>0, <1>1, <1>2, <1>3 DEF TypeOK
<1>6. FramesOK' /\ CallsOK' BY <1>0, <1>2, <1>4, FewerFrames
<1> QED BY <1>3, <1>4, <1>5, <1>6 DEF SenderInv

\* The TCP reader meets the end of a handshake.
LEMMA ReadConfirmSender ==
    ASSUME SenderInv, NEW p \in Paths, ReadConfirm(p)
    PROVE  SenderInv' /\ RxMoves /\ Carried' \subseteq Carried
<1>0. TypeOK /\ FramesOK /\ CallsOK BY DEF SenderInv
<1>1. /\ wire[p] # <<>> /\ wire' = [wire EXCEPT ![p] = Tail(@)] /\ RxSwitch(Head(wire[p]).session)
      /\ UNCHANGED <<sender, expected, holding, buffer, delivered, overlapped>>
  BY DEF ReadConfirm
<1>2. UNCHANGED <<tx, sendMu, call, nonce, sent>> BY <1>1 DEF sender
<1>3. /\ wire' \in [Paths -> Seq(Frames)] /\ Carried' \subseteq Carried
      /\ Head(wire[p]) \in Frames
  BY <1>0, <1>1, Taken
<1>4. Head(wire[p]).session \in Sessions BY <1>3, SMT DEF Frames
<1>5. RxMoves /\ rx' \in 0..MaxSessions /\ ExpectedOK' BY <1>1, <1>2, <1>4, RxSwitchMoves
<1>6. Data' \subseteq Data BY <1>1, <1>3 DEF Data, Held
<1>7. TypeOK' BY <1>0, <1>1, <1>2, <1>3, <1>5 DEF TypeOK
<1>8. FramesOK' /\ CallsOK' BY <1>0, <1>2, <1>6, FewerFrames
<1> QED BY <1>3, <1>5, <1>7, <1>8 DEF SenderInv

\* A connection breaks.
LEMMA BreakSender ==
    ASSUME SenderInv, NEW p \in Paths, Break(p)
    PROVE  SenderInv' /\ Carried' \subseteq Carried
<1>0. TypeOK /\ FramesOK /\ CallsOK /\ ExpectedOK BY DEF SenderInv
<1>1. wire' = [wire EXCEPT ![p] = <<>>] /\ UNCHANGED <<sender, receiver>> BY DEF Break
<1>2. UNCHANGED <<tx, sendMu, call, nonce, sent>> BY <1>1 DEF sender
<1>3. wire \in [Paths -> Seq(Frames)] /\ <<>> \in Seq(Frames) BY <1>0, EmptySeq DEF TypeOK
<1>4. Range(<<>>) = {}
  <2>1. \A i : i \notin DOMAIN <<>> BY SMT
  <2> QED BY <2>1 DEF Range
<1>5. wire'[p] = <<>> /\ \A q \in Paths : q # p => wire'[q] = wire[q] BY <1>1, <1>3
<1>6. Carried' \subseteq Carried BY <1>4, <1>5 DEF Carried
<1>7. Data' \subseteq Data BY <1>1, <1>6 DEF Data, Held, receiver, session
<1>8. wire' \in [Paths -> Seq(Frames)] BY <1>1, <1>3
<1>9. TypeOK' BY <1>0, <1>1, <1>2, <1>8 DEF TypeOK, receiver, session
<1>10. FramesOK' /\ CallsOK' BY <1>0, <1>2, <1>7, FewerFrames
<1>11. ExpectedOK' BY <1>0, <1>1, <1>2 DEF ExpectedOK, receiver, session
<1> QED BY <1>6, <1>9, <1>10, <1>11 DEF SenderInv

\* A reader decrypts the next frame of the session, or drops one.
LEMMA DecryptSender ==
    ASSUME SenderInv, NEW p \in Paths, Decrypt(p)
    PROVE  /\ SenderInv'
           /\ Carried' \subseteq Carried
           /\ UNCHANGED <<sender, rx, buffer, delivered>>
           /\ \/ UNCHANGED <<holding, expected, overlapped>>
              \/ \E f \in Carried :
                    /\ f.session = rx /\ rx \in Sessions /\ f.nonce = expected[rx]
                    /\ expected'[rx] = f.nonce + 1
                    /\ \A s \in Sessions : s # rx => expected'[s] = expected[s]
                    /\ holding[p] = None /\ holding' = [holding EXCEPT ![p] = f]
                    /\ overlapped' = (overlapped \/ \E q \in Paths \ {p} : holding[q] # None)
<1>0. TypeOK /\ FramesOK /\ CallsOK /\ ExpectedOK BY DEF SenderInv
<1>1. /\ wire[p] # <<>> /\ wire' = [wire EXCEPT ![p] = Tail(@)]
      /\ Head(wire[p]).kind # "confirm" /\ holding[p] = None
      /\ UNCHANGED <<sender, rx, buffer, delivered>>
  BY DEF Decrypt, session
<1>2. UNCHANGED <<tx, sendMu, call, nonce, sent>> BY <1>1 DEF sender
<1>3. PICK f : f = Head(wire[p]) OBVIOUS
<1>4. wire' \in [Paths -> Seq(Frames)] /\ Carried' \subseteq Carried /\ f \in Carried
  BY <1>0, <1>1, <1>3, Taken
<1>5. CASE UNCHANGED <<holding, expected, overlapped>>
  <2>1. Data' \subseteq Data BY <1>4, <1>5 DEF Data, Held
  <2>2. TypeOK' BY <1>0, <1>1, <1>2, <1>4, <1>5 DEF TypeOK
  <2>3. FramesOK' /\ CallsOK' BY <1>0, <1>2, <2>1, FewerFrames
  <2>4. ExpectedOK' BY <1>0, <1>1, <1>2, <1>5 DEF ExpectedOK
  <2> QED BY <1>1, <1>4, <1>5, <2>2, <2>3, <2>4 DEF SenderInv
<1>6. CASE /\ Decrypts(f)
           /\ expected' = [expected EXCEPT ![rx] = f.nonce + 1]
           /\ holding' = [holding EXCEPT ![p] = f]
           /\ overlapped' = (overlapped \/ \E q \in Paths \ {p} : holding[q] # None)
  <2>1. f.session = rx /\ f.nonce = expected[rx] BY <1>6 DEF Decrypts
  <2>2. f \in Frames /\ FrameOK(f) BY <1>0, <1>4, FrameTypes DEF FramesOK, Data
  <2>3. f.session \in Sessions /\ f.nonce \in Nat /\ f.nonce + 1 \in Nat BY <2>2, SMT DEF Frames
  <2>4. rx \in Sessions BY <2>1, <2>3
  <2>5. expected'[rx] = f.nonce + 1 /\ \A s \in Sessions : s # rx => expected'[s] = expected[s]
    BY <1>0, <1>6, <2>4 DEF TypeOK
  <2>6. /\ expected' \in [Sessions -> Nat] /\ holding' \in [Paths -> Frames \cup {None}]
        /\ overlapped' \in BOOLEAN
    BY <1>0, <1>6, <2>2, <2>3 DEF TypeOK
  <2>7. TypeOK' BY <1>0, <1>1, <1>2, <1>4, <2>6 DEF TypeOK
  <2>8. Data' \subseteq Data BY <1>0, <1>4, <1>6 DEF Data, Held, TypeOK
  <2>9. FramesOK' /\ CallsOK' BY <1>0, <1>2, <2>8, FewerFrames
  <2>10. ExpectedOK'
    <3>1. f.nonce + 1 <= nonce[rx]
      <4>1. nonce[rx] \in Nat BY <1>0, <2>4 DEF TypeOK
      <4> QED BY <2>1, <2>2, <2>3, <4>1, SMT DEF FrameOK
    <3>2. ~(rx > rx) BY <1>0, SMT DEF TypeOK
    <3> QED BY <1>0, <1>1, <1>2, <2>5, <3>1, <3>2 DEF ExpectedOK
  <2> QED BY <1>1, <1>4, <1>6, <2>1, <2>4, <2>5, <2>7, <2>9, <2>10 DEF SenderInv
<1> QED BY <1>3, <1>5, <1>6 DEF Decrypt

\* A frame from an unknown address is dropped.
LEMMA DropSender ==
    ASSUME SenderInv, NEW p \in Paths, DropUnknown(p)
    PROVE  SenderInv' /\ Carried' \subseteq Carried
<1>0. TypeOK /\ FramesOK /\ CallsOK /\ ExpectedOK BY DEF SenderInv
<1>1. /\ wire[p] # <<>> /\ wire' = [wire EXCEPT ![p] = Tail(@)]
      /\ UNCHANGED <<sender, rx, expected, holding, buffer, delivered, overlapped>>
  BY DEF DropUnknown, session
<1>2. UNCHANGED <<tx, sendMu, call, nonce, sent>> BY <1>1 DEF sender
<1>3. wire' \in [Paths -> Seq(Frames)] /\ Carried' \subseteq Carried BY <1>0, <1>1, Taken
<1>4. Data' \subseteq Data BY <1>1, <1>3 DEF Data, Held
<1>5. TypeOK' BY <1>0, <1>1, <1>2, <1>3 DEF TypeOK
<1>6. FramesOK' /\ CallsOK' BY <1>0, <1>2, <1>4, FewerFrames
<1>7. ExpectedOK' BY <1>0, <1>1, <1>2 DEF ExpectedOK
<1> QED BY <1>3, <1>5, <1>6, <1>7 DEF SenderInv

\* Applying a frame is no concern of the sender.
LEMMA ApplySender ==
    ASSUME SenderInv, NEW p \in Paths, Apply(p)
    PROVE  SenderInv'
<1>0. TypeOK /\ FramesOK /\ CallsOK /\ ExpectedOK BY DEF SenderInv
<1>1. /\ holding[p] # None /\ holding' = [holding EXCEPT ![p] = None]
      /\ UNCHANGED <<sender, wire, rx, expected, overlapped>>
  BY DEF Apply, session
<1>2. UNCHANGED <<tx, sendMu, call, nonce, sent>> BY <1>1 DEF sender
<1>3. holding' \in [Paths -> Frames \cup {None}] BY <1>0, <1>1 DEF TypeOK
<1>4. buffer' \in Seq(Fragments) \cup {None} /\ delivered' \in Seq(Seq(Fragments))
  <2>1. PICK x : x = Fragment(holding[p].msg, holding[p].part) OBVIOUS
  <2>2. x \in Fragments
    <3>1. holding[p] \in Frames BY <1>0, <1>1 DEF TypeOK
    <3> QED BY <2>1, <3>1, SMT DEF Frames, Fragment, Fragments
  <2>3. <<x>> \in Seq(Fragments) BY <2>2, SMT
  <2>4. Fits => Append(buffer, x) \in Seq(Fragments) BY <1>0, <2>2, SMT DEF TypeOK, Fits
  <2>5. delivered \in Seq(Seq(Fragments)) BY <1>0 DEF TypeOK
  <2>6. \A m \in Seq(Fragments) : Append(delivered, m) \in Seq(Seq(Fragments)) BY <2>5, SMT
  <2>7. buffer' \in {buffer, None, <<x>>} \/ (Fits /\ buffer' = Append(buffer, x))
    BY <2>1 DEF Apply, ResetReassembly, StartReassembly, AppendReassembly, FinishReassembly
  <2>8. \/ delivered' = delivered \/ delivered' = Append(delivered, <<x>>)
        \/ Fits /\ delivered' = Append(delivered, Append(buffer, x))
    BY <2>1 DEF Apply, ResetReassembly, StartReassembly, AppendReassembly, FinishReassembly
  <2>9. buffer' \in Seq(Fragments) \cup {None} BY <1>0, <2>3, <2>4, <2>7 DEF TypeOK
  <2> QED BY <2>3, <2>4, <2>5, <2>6, <2>8, <2>9
<1>5. TypeOK' BY <1>0, <1>1, <1>2, <1>3, <1>4 DEF TypeOK
<1>6. Data' \subseteq Data BY <1>0, <1>1 DEF Data, Held, Carried, TypeOK
<1>7. FramesOK' /\ CallsOK' BY <1>0, <1>2, <1>6, FewerFrames
<1>8. ExpectedOK' BY <1>0, <1>1, <1>2 DEF ExpectedOK
<1> QED BY <1>5, <1>7, <1>8 DEF SenderInv

----------------------------------------------------------------------------
(* The receiver.                                                           *)

\* What the receiver's invariant reads, besides the frames on the paths.
view == <<tx, call, nonce, sent, expected, holding, buffer, delivered, overlapped>>

\* Frames lost and a change of session do no harm: a frame of a session that
\* has not been used is the first of a message.
LEMMA RxMovesReceiver ==
    ASSUME SenderInv, ReceiverInv, RxMoves, Carried' \subseteq Carried, UNCHANGED view
    PROVE  ReceiverInv'
<1>0. TypeOK /\ FramesOK /\ CallsOK BY DEF SenderInv
<1> SUFFICES ASSUME ~overlapped PROVE HeldLast' /\ Assembled' /\ NotYet'
  BY DEF ReceiverInv, view
<1>1. HeldLast /\ Assembled /\ NotYet BY DEF ReceiverInv
<1>2. Held' = Held /\ LastDelivered' = LastDelivered BY DEF view, Held, LastDelivered
<1>3. UNCHANGED <<tx, call, nonce, sent, expected, holding, buffer, delivered>> BY DEF view
<1>4. CASE rx' = rx
  <2>1. HeldLast' BY <1>1, <1>2, <1>3, <1>4 DEF HeldLast
  <2>2. Assembled' BY <1>1, <1>2, <1>3, <1>4 DEF Assembled, Collected
  <2>3. NotYet' BY <1>1, <1>2, <1>3, <1>4 DEF NotYet, Ahead
  <2> QED BY <2>1, <2>2, <2>3
<1>5. CASE rx' > rx /\ rx' \in Sessions /\ expected[rx'] = 0
  <2>0. rx \in Nat /\ rx' \in Nat
    BY <1>0, <1>5, MessagingAssumption, SMT DEF TypeOK, Sessions
  <2>1. HeldLast'
    <3>1. ASSUME NEW f \in Held PROVE f.session < rx'
      <4>1. f \in Frames BY <1>0, FrameTypes
      <4>2. f.session \in Nat BY <4>1, MessagingAssumption, SMT DEF Frames, Sessions
      <4>3. f.session = rx \/ f.session < rx BY <1>1 DEF HeldLast
      <4> QED BY <1>5, <2>0, <4>2, <4>3, SMT
    <3> QED BY <1>1, <1>2, <1>3, <1>5, <3>1 DEF HeldLast
  <2>2. Assembled'
    <3>1. ASSUME NEW g \in Carried, g.nonce = expected[rx'] PROVE ~(g.part > 1)
      <4>1. g.part = 1 BY <1>0, <1>5, <3>1 DEF FramesOK, FrameOK, Data
      <4> QED BY <4>1, SMT
    <3>2. ASSUME NEW t \in Threads, call[t] # None, tx = rx', nonce[tx] = expected[tx]
          PROVE  ~(call[t].part > 1)
      <4>1. call[t].part = 1 BY <1>0, <1>5, <3>2 DEF CallsOK, CallOK
      <4> QED BY <4>1, SMT
    <3> QED BY <1>1, <1>2, <1>3, <3>1, <3>2 DEF Assembled, Collected
  <2>3. NotYet'
    <3>1. ASSUME NEW g \in Carried, Ahead(g)' PROVE Ahead(g)
      <4>1. g \in Frames BY <1>0, FrameTypes
      <4>2. g.session \in Nat BY <4>1, MessagingAssumption, SMT DEF Frames, Sessions
      <4>3. g.session > rx' \/ g.session = rx' BY <3>1 DEF Ahead
      <4>4. g.session > rx BY <1>5, <2>0, <4>2, <4>3, SMT
      <4> QED BY <4>4 DEF Ahead
    <3> QED BY <1>1, <1>2, <1>3, <3>1 DEF NotYet
  <2> QED BY <2>1, <2>2, <2>3
<1> QED BY <1>4, <1>5 DEF RxMoves

\* The sender takes up another session while no call is under way.
LEMMA TxUpgradeReceiver ==
    ASSUME SenderInv, ReceiverInv, NEW s \in Sessions, TxUpgrade(s)
    PROVE  ReceiverInv'
<1>0. CallsOK /\ Carried' \subseteq Carried /\ Held' = Held BY TxUpgradeSender DEF SenderInv
<1>1. /\ UNCHANGED <<call, nonce, sent, rx, expected, holding, buffer, delivered, overlapped>>
      /\ LastDelivered' = LastDelivered
  BY DEF TxUpgrade, receiver, session, LastDelivered
<1>2. \A t \in Threads : call'[t] = None BY <1>0, <1>1, NoCall DEF TxUpgrade
<1> SUFFICES ASSUME ~overlapped PROVE HeldLast' /\ Assembled' /\ NotYet'
  BY <1>1 DEF ReceiverInv
<1>3. HeldLast /\ Assembled /\ NotYet BY DEF ReceiverInv
<1>4. HeldLast' BY <1>0, <1>1, <1>3 DEF HeldLast
<1>5. Assembled' BY <1>0, <1>1, <1>2, <1>3 DEF Assembled, Collected
<1>6. NotYet' BY <1>0, <1>1, <1>2, <1>3 DEF NotYet, Ahead
<1> QED BY <1>4, <1>5, <1>6

\* A new message comes after the last one delivered.
LEMMA BeginReceiver ==
    ASSUME SenderInv, ReceiverInv, NEW t \in Threads, NEW n \in Sizes, Begin(t, n)
    PROVE  ReceiverInv'
<1>0. TypeOK /\ CallsOK /\ CallsOK' /\ Carried' = Carried /\ Held' = Held
  BY BeginSender DEF SenderInv
<1>1. /\ UNCHANGED <<tx, nonce, rx, expected, holding, buffer, delivered, overlapped>>
      /\ LastDelivered' = LastDelivered
  BY DEF Begin, receiver, session, LastDelivered
<1>2. Len(sent) \in Nat /\ Len(sent') = Len(sent) + 1
  <2>1. sent \in Seq(Sizes) /\ sent' = Append(sent, n) BY <1>0 DEF TypeOK, Begin
  <2> QED BY <2>1, SMT
<1>3. \A u \in Threads : u # t => call'[u] = None BY <1>0, NoCall DEF Begin, TypeOK
<1>4. call'[t].part = 1 BY <1>0, SMT DEF Begin, TypeOK
<1>5. call'[t] # None => call'[t].msg = Len(sent) + 1 BY <1>0, <1>2 DEF CallsOK, CallOK
<1> SUFFICES ASSUME ~overlapped PROVE HeldLast' /\ Assembled' /\ NotYet'
  BY <1>1 DEF ReceiverInv
<1>6. HeldLast /\ Assembled /\ NotYet BY DEF ReceiverInv
<1>7. HeldLast' BY <1>0, <1>1, <1>6 DEF HeldLast
<1>8. Assembled'
  <2>1. ~(call'[t].part > 1) BY <1>4, SMT
  <2> QED BY <1>0, <1>1, <1>3, <1>6, <2>1 DEF Assembled, Collected
<1>9. NotYet'
  <2>1. LastDelivered \in 0..Len(sent') /\ LastDelivered < Len(sent) + 1
    BY <1>2, <1>6, SMT DEF NotYet
  <2> QED BY <1>0, <1>1, <1>3, <1>5, <1>6, <2>1 DEF NotYet, Ahead
<1> QED BY <1>7, <1>8, <1>9

\* The frame a call sends goes on where the receiver will be by then.
LEMMA SendFrameReceiver ==
    ASSUME SenderInv, ReceiverInv, NEW t \in Threads, SendFrame(t)
    PROVE  ReceiverInv'
<1>0. TypeOK /\ CallsOK /\ ExpectedOK BY DEF SenderInv
<1>1. PICK c, g : Sends(t, c, g) /\ (call'[t] = None \/ \E d : GoesOn(t, c, d))
  BY SendFrameFacts
<1>2. /\ Carried' \subseteq Carried \cup {g} /\ Held' = Held
      /\ c = call[t] /\ CallOK(t, c) /\ c \in CallRecords
      /\ g.session = tx /\ g.nonce = nonce[tx] /\ g.msg = c.msg /\ g.part = c.part
      /\ tx \in Sessions /\ nonce'[tx] = nonce[tx] + 1
      /\ UNCHANGED <<tx, sent, rx, expected, holding, buffer, delivered, overlapped>>
  BY <1>1 DEF Sends, receiver, session
<1>3. LastDelivered' = LastDelivered BY <1>2 DEF LastDelivered
<1>4. \A u \in Threads : u # t => call'[u] = None BY <1>0, <1>1 DEF Sends, CallsOK, CallOK
<1>5. call[t] # None BY DEF SendFrame
<1> SUFFICES ASSUME ~overlapped PROVE HeldLast' /\ Assembled' /\ NotYet'
  BY <1>2 DEF ReceiverInv
<1>6. HeldLast /\ Assembled /\ NotYet BY DEF ReceiverInv
<1>7. HeldLast' BY <1>2, <1>6 DEF HeldLast
<1>8. Assembled'
  <2>1. Held = {} /\ g.session = rx /\ g.nonce = expected[rx] => Collected(g)
    BY <1>2, <1>5, <1>6 DEF Assembled, Collected
  <2>2. nonce'[tx] # expected[tx]
    <3>1. expected[tx] \in Nat /\ nonce[tx] \in Nat /\ expected[tx] <= nonce[tx]
      BY <1>0, <1>2 DEF TypeOK, ExpectedOK
    <3> QED BY <1>2, <3>1, SMT
  <2> QED BY <1>2, <1>4, <1>6, <2>1, <2>2 DEF Assembled, Collected
<1>9. NotYet'
  <2>1. LastDelivered < c.msg BY <1>2, <1>5, <1>6 DEF NotYet
  <2>2. call'[t] # None => call'[t].msg = c.msg BY <1>1 DEF GoesOn
  <2> QED BY <1>2, <1>3, <1>4, <1>6, <2>1, <2>2 DEF NotYet, Ahead
<1> QED BY <1>7, <1>8, <1>9

\* The frame decrypted is the next of its session, so the buffer holds what
\* precedes it.
LEMMA DecryptReceiver ==
    ASSUME SenderInv, ReceiverInv, NEW p \in Paths, Decrypt(p)
    PROVE  ReceiverInv'
<1>0. TypeOK BY DEF SenderInv
<1>1. /\ Carried' \subseteq Carried
      /\ UNCHANGED <<tx, call, nonce, sent, rx, buffer, delivered>>
  BY DecryptSender DEF sender
<1>2. CASE UNCHANGED <<holding, expected, overlapped>>
  BY <1>1, <1>2, RxMovesReceiver DEF RxMoves, view
<1>3. ASSUME NEW f \in Carried, f.session = rx, rx \in Sessions, f.nonce = expected[rx],
             expected'[rx] = f.nonce + 1,
             holding[p] = None, holding' = [holding EXCEPT ![p] = f],
             overlapped' = (overlapped \/ \E q \in Paths \ {p} : holding[q] # None)
      PROVE  ReceiverInv'
  <2> SUFFICES ASSUME ~overlapped' PROVE HeldLast' /\ Assembled' /\ NotYet'
    BY DEF ReceiverInv
  <2>1. ~overlapped /\ \A q \in Paths : holding[q] = None BY <1>0, <1>3 DEF TypeOK
  <2>2. HeldLast /\ Assembled /\ NotYet BY <2>1 DEF ReceiverInv
  <2>3. Held = {} BY <2>1 DEF Held
  <2>4. holding'[p] = f /\ \A q \in Paths : q # p => holding'[q] = None
    BY <1>0, <1>3, <2>1 DEF TypeOK
  <2>5. Held' = {f}
    <3>1. f # None BY <1>0, FrameTypes
    <3> QED BY <2>4, <3>1 DEF Held
  <2>6. HeldLast' BY <1>1, <1>3, <2>4, <2>5 DEF HeldLast
  <2>7. Assembled'
    <3>1. Collected(f) BY <1>3, <2>2, <2>3 DEF Assembled
    <3> QED BY <1>1, <2>5, <3>1 DEF Assembled, Collected
  <2>8. NotYet'
    <3>0. expected[rx] \in Nat BY <1>0, <1>3 DEF TypeOK
    <3>1. Ahead(f)
      <4>1. f.nonce >= expected[rx] BY <1>3, <3>0, SMT
      <4> QED BY <1>3, <4>1 DEF Ahead
    <3>2. ASSUME NEW g \in Carried, Ahead(g)' PROVE Ahead(g)
      <4>1. g \in Frames BY <1>0, FrameTypes
      <4>2. g.nonce \in Nat BY <4>1, SMT DEF Frames
      <4>3. g.nonce >= expected'[rx] => g.nonce >= expected[rx] BY <1>3, <3>0, <4>2, SMT
      <4> QED BY <1>1, <3>2, <4>3 DEF Ahead
    <3>3. LastDelivered' = LastDelivered BY <1>1 DEF LastDelivered
    <3> QED BY <1>1, <1>3, <2>2, <2>5, <3>1, <3>2, <3>3 DEF NotYet
  <2> QED BY <2>6, <2>7, <2>8
<1> QED BY <1>2, <1>3, DecryptSender

\* processData from the frame type on: of the frame held, f, the buffer has all
\* that precedes it, so what is delivered is the whole message of f.
LEMMA ApplyFacts ==
    ASSUME SenderInv, HeldLast, Assembled, NEW p \in Paths, Apply(p)
    PROVE  \E f \in Held :
              /\ Held = {f} /\ Held' = {} /\ Carried' = Carried
              /\ UNCHANGED <<tx, call, nonce, sent, rx, expected, overlapped>>
              /\ f.part \in 1..sent[f.msg] /\ f.msg \in 1..Len(sent) /\ sent[f.msg] \in Nat \ {0}
              /\ buffer' # None => buffer' = Content(f.msg, f.part)
              /\ \/ UNCHANGED delivered
                 \/ /\ f.part = sent[f.msg]
                    /\ delivered' = Append(delivered, Content(f.msg, f.part))
<1>0. TypeOK /\ FramesOK BY DEF SenderInv
<1>1. PICK f : f = holding[p] OBVIOUS
<1>2. /\ f # None /\ holding' = [holding EXCEPT ![p] = None]
      /\ UNCHANGED <<sender, wire, rx, expected, overlapped>>
  BY <1>1 DEF Apply, session
<1>3. f \in Held BY <1>1, <1>2 DEF Held
<1>4. Held = {f} /\ Held' = {}
  <2>1. \A q \in Paths : q # p => holding[q] = None BY <1>1, <1>2 DEF HeldLast
  <2>2. \A q \in Paths : holding'[q] = None BY <1>0, <1>2, <2>1 DEF TypeOK
  <2> QED BY <1>1, <1>2, <2>1, <2>2 DEF Held
<1>6. Carried' = Carried BY <1>2 DEF Carried
<1>7. UNCHANGED <<tx, call, nonce, sent>> BY <1>2 DEF sender
<1>8. f \in Frames /\ FrameOK(f) BY <1>0, <1>3, FrameTypes DEF FramesOK, Data
<1>9. f.msg \in 1..Len(sent) /\ f.part \in 1..sent[f.msg] BY <1>8 DEF FrameOK
<1>10. sent[f.msg] \in Nat \ {0} /\ f.part \in Nat \ {0}
  <2>1. sent \in Seq(Sizes) BY <1>0 DEF TypeOK
  <2>2. sent[f.msg] \in Nat \ {0} BY <1>9, <2>1, ElementOfSeq, MessagingAssumption
  <2> QED BY <1>9, <2>2, SMT
<1>11. /\ f.kind = "single" => sent[f.msg] = 1 /\ f.part = 1
       /\ f.kind = "first" => f.part = 1
       /\ f.kind \in {"middle", "last"} => f.part > 1
       /\ f.kind = "last" => f.part = sent[f.msg]
  <2>1. f.kind = Kind(f.part, sent[f.msg]) BY <1>8 DEF FrameOK
  <2> DEFINE n == sent[f.msg]
             k == f.part
  <2>2. n \in Nat \ {0} /\ k \in 1..n BY <1>9, <1>10
  <2> HIDE DEF n, k
  <2>3. /\ Kind(k, n) = "single" => n = 1 /\ k = 1
        /\ Kind(k, n) = "first" => k = 1
        /\ Kind(k, n) \in {"middle", "last"} => k > 1
        /\ Kind(k, n) = "last" => k = n
    BY <2>2, KindFacts
  <2> QED BY <2>1, <2>3 DEF n, k
<1>12. Content(f.msg, 1) = <<Fragment(f.msg, 1)>>
  <2>1. 0 \in Nat BY SMT
  <2> QED BY <2>1, ContentGrows
<1>13. ASSUME f.part > 1, buffer # None
       PROVE  Append(buffer, Fragment(f.msg, f.part)) = Content(f.msg, f.part)
  <2>1. buffer = Content(f.msg, f.part - 1) BY <1>3, <1>13 DEF Assembled, Collected
  <2>2. f.part - 1 \in Nat /\ (f.part - 1) + 1 = f.part BY <1>10, SMT
  <2>3. Append(Content(f.msg, f.part - 1), Fragment(f.msg, (f.part - 1) + 1))
          = Content(f.msg, (f.part - 1) + 1)
    BY <2>2, ContentGrows
  <2> QED BY <2>1, <2>2, <2>3
<1>14. /\ buffer' # None => buffer' = Content(f.msg, f.part)
       /\ \/ UNCHANGED delivered
          \/ /\ f.part = sent[f.msg]
             /\ delivered' = Append(delivered, Content(f.msg, f.part))
  <2>1. CASE /\ f.kind = "single" /\ ResetReassembly
             /\ delivered' = Append(delivered, <<Fragment(f.msg, f.part)>>)
    BY <1>11, <1>12, <2>1 DEF ResetReassembly
  <2>2. CASE f.kind = "first" /\ StartReassembly(Fragment(f.msg, f.part))
    BY <1>11, <1>12, <2>2 DEF StartReassembly
  <2>3. CASE f.kind = "middle" /\ AppendReassembly(Fragment(f.msg, f.part))
    BY <1>11, <1>13, <2>3 DEF AppendReassembly, Fits
  <2>4. CASE f.kind = "last" /\ FinishReassembly(Fragment(f.msg, f.part))
    BY <1>11, <1>13, <2>4 DEF FinishReassembly, ResetReassembly, Fits
  <2> QED BY <1>1, <2>1, <2>2, <2>3, <2>4 DEF Apply
<1> QED BY <1>2, <1>3, <1>4, <1>6, <1>7, <1>9, <1>10, <1>14

\* The last message delivered is the one just appended.
LEMMA LastAppended ==
    ASSUME TypeOK, NEW i \in Nat, NEW n \in Nat \ {0}, delivered' = Append(delivered, Content(i, n))
    PROVE  LastDelivered' = i
<1>1. delivered \in Seq(Seq(Fragments)) BY DEF TypeOK
<1>2. Content(i, n) \in Seq(Fragments)
  <2>1. Content(i, n) \in Seq({Fragment(i, k) : k \in 1..n}) BY ContentFacts
  <2>2. ASSUME NEW k \in 1..n PROVE Fragment(i, k) \in Fragments BY SMT DEF Fragment, Fragments
  <2>3. {Fragment(i, k) : k \in 1..n} \subseteq Fragments BY <2>2
  <2> QED BY <2>1, <2>3, SeqMonotonic
<1>3. delivered' # <<>> /\ delivered'[Len(delivered')] = Content(i, n)
  <2>1. ASSUME NEW S, NEW s \in Seq(S), NEW e \in S
        PROVE  Append(s, e) # <<>> /\ Append(s, e)[Len(Append(s, e))] = e
    <3>1. Len(s) \in Nat /\ Len(Append(s, e)) = Len(s) + 1 /\ Append(s, e)[Len(s) + 1] = e BY SMT
    <3>2. Append(s, e) # <<>> BY <3>1, EmptySeq, SMT
    <3> QED BY <3>1, <3>2
  <2> QED BY <1>1, <1>2, <2>1
<1>4. Content(i, n)[1] = Fragment(i, 1)
  <2>1. 1 \in 1..n BY SMT
  <2> QED BY <2>1, ContentFacts
<1>5. Fragment(i, 1).msg = i BY SMT DEF Fragment
<1> QED BY <1>3, <1>4, <1>5 DEF LastDelivered

\* What can still be decrypted, or is yet to be sent, comes after the frame
\* applied.
LEMMA ApplyReceiver ==
    ASSUME SenderInv, ReceiverInv, NEW p \in Paths, Apply(p)
    PROVE  ReceiverInv'
<1>0. TypeOK /\ FramesOK /\ CallsOK BY DEF SenderInv
<1> SUFFICES ASSUME ~overlapped PROVE HeldLast' /\ Assembled' /\ NotYet'
  BY DEF ReceiverInv, Apply
<1>1. HeldLast /\ Assembled /\ NotYet BY DEF ReceiverInv
<1>2. PICK f \in Held :
              /\ Held = {f} /\ Held' = {} /\ Carried' = Carried
              /\ UNCHANGED <<tx, call, nonce, sent, rx, expected, overlapped>>
              /\ f.part \in 1..sent[f.msg] /\ f.msg \in 1..Len(sent) /\ sent[f.msg] \in Nat \ {0}
              /\ buffer' # None => buffer' = Content(f.msg, f.part)
              /\ \/ UNCHANGED delivered
                 \/ /\ f.part = sent[f.msg]
                    /\ delivered' = Append(delivered, Content(f.msg, f.part))
  BY <1>1, ApplyFacts
<1>3. ASSUME NEW g \in Data PROVE /\ g.session \in Nat /\ g.nonce \in Nat /\ g.msg \in Nat /\ g.part \in Nat
                                  /\ FrameOK(g) /\ InOrder(f, g)
  <2>1. g \in Frames /\ f \in Data BY <1>0, FrameTypes DEF Data
  <2>2. g.session \in Nat /\ g.nonce \in Nat /\ g.msg \in Nat /\ g.part \in Nat
    BY <2>1, MessagingAssumption, SMT DEF Frames, Sessions
  <2> QED BY <1>0, <2>1, <2>2 DEF FramesOK
<1>4. f \in Data /\ Carried \subseteq Data BY DEF Data
<1>5. \/ f.session = rx /\ expected[rx] = f.nonce + 1
      \/ f.session < rx /\ expected[rx] = 0
  BY <1>1 DEF HeldLast
<1>6. rx \in Nat BY <1>0, MessagingAssumption, SMT DEF TypeOK
<1>7. HeldLast'
  <2>1. \A q \in Paths : holding'[q] = None BY <1>2 DEF Held
  <2> QED BY <1>2, <2>1 DEF HeldLast
<1>8. Assembled'
  <2>1. ASSUME NEW m, NEW k, m = f.msg, k = f.part + 1, buffer' # None
        PROVE  buffer' = Content(m, k - 1)
    <3>1. k - 1 = f.part BY <1>3, <1>4, <2>1, SMT
    <3> QED BY <1>2, <2>1, <3>1
  <2>2. ASSUME NEW g \in Carried, g.session = rx, g.nonce = expected[rx], g.part > 1
        PROVE  g.msg = f.msg /\ g.part = f.part + 1
    <3>1. g.part # 1 BY <2>2, SMT
    <3>2. g.nonce # 0 BY <1>3, <1>4, <3>1 DEF FrameOK
    <3>3. f.session = rx /\ g.nonce = f.nonce + 1 BY <1>5, <2>2, <3>2
    <3> QED BY <1>3, <1>4, <2>2, <3>3 DEF InOrder
  <2>3. ASSUME NEW t \in Threads, call[t] # None, tx = rx, nonce[tx] = expected[tx],
               call[t].part > 1
        PROVE  call[t].msg = f.msg /\ call[t].part = f.part + 1
    <3>1. CallOK(t, call[t]) BY <1>0, <2>3 DEF CallsOK
    <3>2. call[t].part # 1 BY <2>3, SMT
    <3>3. f.session = tx /\ f.nonce + 1 = nonce[tx] BY <1>5, <2>3, <3>1, <3>2 DEF CallOK
    <3> QED BY <1>4, <2>3, <3>1, <3>3 DEF CallOK, Awaits
  <2> QED BY <1>2, <2>1, <2>2, <2>3 DEF Assembled, Collected
<1>9. NotYet'
  <2>1. CASE UNCHANGED delivered
    <3>1. LastDelivered' = LastDelivered BY <2>1 DEF LastDelivered
    <3> QED BY <1>1, <1>2, <3>1 DEF NotYet, Ahead
  <2>2. CASE f.part = sent[f.msg] /\ delivered' = Append(delivered, Content(f.msg, f.part))
    <3>1. LastDelivered' = f.msg BY <1>0, <1>2, <1>3, <1>4, <2>2, LastAppended
    <3>2. f.msg \in 0..Len(sent) BY <1>2, SMT
    <3>3. ASSUME NEW g \in Carried, Ahead(g) PROVE f.msg < g.msg
      <4>1. \/ f.session < g.session \/ (f.session = g.session /\ f.nonce < g.nonce)
        BY <1>3, <1>4, <1>5, <1>6, <3>3, SMT DEF Ahead
      <4>2. f.msg < g.msg \/ Before(f, g) BY <1>3, <1>4, <4>1 DEF InOrder
      <4>3. ~(f.msg = g.msg /\ f.part < g.part)
        <5>1. g.part \in 1..sent[g.msg] BY <1>3, <1>4 DEF FrameOK
        <5>2. SUFFICES ASSUME f.msg = g.msg PROVE ~(f.part < g.part) OBVIOUS
        <5>3. g.part \in 1..f.part /\ f.part \in Nat BY <1>3, <1>4, <2>2, <5>1, <5>2
        <5> QED BY <5>3, SMT
      <4> QED BY <4>2, <4>3 DEF Before
    <3>4. ASSUME NEW t \in Threads, call[t] # None PROVE f.msg < call[t].msg
      <4>1. CallOK(t, call[t]) BY <1>0, <3>4 DEF CallsOK
      <4>2. f.msg < call[t].msg \/ (f.msg = call[t].msg /\ f.part < call[t].part)
        BY <1>4, <4>1 DEF CallOK, Awaits
      <4>3. ~(f.msg = call[t].msg /\ f.part < call[t].part)
        <5>1. SUFFICES ASSUME f.msg = call[t].msg PROVE ~(f.part < call[t].part) OBVIOUS
        <5>2. call[t].part \in 1..f.part /\ f.part \in Nat BY <1>3, <1>4, <2>2, <4>1, <5>1 DEF CallOK
        <5> QED BY <5>2, SMT
      <4> QED BY <4>2, <4>3
    <3> QED BY <1>2, <3>1, <3>2, <3>3, <3>4 DEF NotYet, Ahead
  <2> QED BY <1>2, <2>1, <2>2
<1> QED BY <1>7, <1>8, <1>9

----------------------------------------------------------------------------
(* The invariant, and the channel.                                         *)

\* Nothing has been sent.
LEMMA InvInit == Init => SenderInv /\ ReceiverInv
<1> SUFFICES ASSUME Init PROVE SenderInv /\ ReceiverInv
  OBVIOUS
<1>1. \A S : <<>> \in Seq(S) BY EmptySeq
<1>2. 0 \in Nat /\ 0 \in 0..MaxSessions BY MessagingAssumption, SMT
<1>3. TypeOK BY <1>1, <1>2 DEF Init, TypeOK
<1>4. Carried = {}
  <2>1. \A i : i \notin DOMAIN <<>> BY SMT
  <2> QED BY <2>1 DEF Init, Carried, Range
<1>5. Held = {} BY DEF Init, Held
<1>6. FramesOK BY <1>4, <1>5 DEF FramesOK, Data
<1>7. CallsOK BY DEF Init, CallsOK
<1>8. ExpectedOK
  <2>1. 0 <= 0 BY SMT
  <2> QED BY <2>1 DEF Init, ExpectedOK
<1>9. HeldLast /\ Assembled BY <1>4, <1>5 DEF Init, HeldLast, Assembled
<1>10. NotYet
  <2>1. LastDelivered = 0 /\ Len(sent) = 0 BY EmptySeq DEF Init, LastDelivered
  <2>2. 0 \in 0..0 BY SMT
  <2> QED BY <1>4, <1>5, <2>1, <2>2 DEF Init, NotYet
<1> QED BY <1>3, <1>6, <1>7, <1>8, <1>9, <1>10 DEF SenderInv, ReceiverInv

\* A step that sends and reads nothing keeps the invariant.
LEMMA InvStays ==
    ASSUME SenderInv, ReceiverInv, UNCHANGED <<view, sender, wire, rx>>
    PROVE  SenderInv' /\ ReceiverInv'
<1>1. UNCHANGED <<tx, sendMu, call, nonce, sent, expected, holding, buffer, delivered, overlapped>>
  BY DEF view, sender
<1>2. TypeOK' BY <1>1 DEF SenderInv, TypeOK
<1>3. Data' = Data /\ Carried' = Carried BY <1>1 DEF Data, Carried, Held
<1>4. FramesOK' /\ CallsOK' BY <1>1, <1>3, FewerFrames DEF SenderInv
<1>5. ExpectedOK' BY <1>1 DEF SenderInv, ExpectedOK
<1>6. ReceiverInv' BY <1>3, RxMovesReceiver DEF RxMoves
<1> QED BY <1>2, <1>4, <1>5, <1>6 DEF SenderInv

\* Every step keeps the invariant.
LEMMA InvStep == SenderInv /\ ReceiverInv /\ [Next]_vars => SenderInv' /\ ReceiverInv'
<1> SUFFICES ASSUME SenderInv, ReceiverInv, [Next]_vars PROVE SenderInv' /\ ReceiverInv'
  OBVIOUS
<1>1. ASSUME NEW s \in Sessions, TxUpgrade(s) PROVE SenderInv' /\ ReceiverInv'
  BY <1>1, TxUpgradeSender, TxUpgradeReceiver
<1>2. ASSUME NEW s \in Sessions, RxUpgrade(s) PROVE SenderInv' /\ ReceiverInv'
  <2>1. UNCHANGED view BY <1>2 DEF RxUpgrade, sender, view
  <2> QED BY <1>2, <2>1, RxUpgradeSender, RxMovesReceiver
<1>3. ASSUME NEW t \in Threads, SendFrame(t) PROVE SenderInv' /\ ReceiverInv'
  BY <1>3, SendFrameSender, SendFrameReceiver
<1>4. ASSUME NEW t \in Threads, NEW n \in Sizes, Begin(t, n) PROVE SenderInv' /\ ReceiverInv'
  BY <1>4, BeginSender, BeginReceiver
<1>5. ASSUME NEW p \in Paths, Break(p) PROVE SenderInv' /\ ReceiverInv'
  <2>1. UNCHANGED view /\ RxMoves BY <1>5 DEF Break, sender, receiver, session, view, RxMoves
  <2> QED BY <1>5, <2>1, BreakSender, RxMovesReceiver
<1>6. ASSUME NEW p \in Paths, ReadConfirm(p) PROVE SenderInv' /\ ReceiverInv'
  <2>1. UNCHANGED view BY <1>6 DEF ReadConfirm, sender, view
  <2> QED BY <1>6, <2>1, ReadConfirmSender, RxMovesReceiver
<1>7. ASSUME NEW p \in Paths, Decrypt(p) PROVE SenderInv' /\ ReceiverInv'
  BY <1>7, DecryptSender, DecryptReceiver
<1>8. ASSUME NEW p \in Paths, Apply(p) PROVE SenderInv' /\ ReceiverInv'
  BY <1>8, ApplySender, ApplyReceiver
<1>9. ASSUME NEW p \in Paths, DropUnknown(p) PROVE SenderInv' /\ ReceiverInv'
  <2>1. UNCHANGED view /\ RxMoves BY <1>9 DEF DropUnknown, sender, session, view, RxMoves
  <2> QED BY <1>9, <2>1, DropSender, RxMovesReceiver
<1>10. ASSUME NEW p \in Paths, Block(p) \/ Unblock(p) PROVE SenderInv' /\ ReceiverInv'
  <2>1. UNCHANGED <<view, sender, wire, rx>> BY <1>10 DEF Block, Unblock, view, sender, session
  <2> QED BY <2>1, InvStays
<1>11. CASE UNCHANGED vars
  <2>1. UNCHANGED <<view, sender, wire, rx>> BY <1>11 DEF vars, view, sender, receiver, session
  <2> QED BY <2>1, InvStays
<1> QED
  BY <1>1, <1>2, <1>3, <1>4, <1>5, <1>6, <1>7, <1>8, <1>9, <1>10, <1>11 DEF Next, Reader

\* The sender's order and the receiver's place in it, in every reachable state.
LEMMA InvHolds == Spec => [](SenderInv /\ ReceiverInv)
  BY InvInit, InvStep, PTL DEF Spec

\* The messages sent, as the channel has them.
Messages == [i \in 1..Len(sent) |-> Content(i, sent[i])]

\* A step that changes no message and delivers none is no step of the channel.
LEMMA NoChannelStep ==
    ASSUME UNCHANGED <<sent, delivered, overlapped>>
    PROVE  UNCHANGED Channel!vars
  BY DEF Channel!vars, LastDelivered

\* Begin sends a message.
LEMMA BeginSends ==
    ASSUME SenderInv, ReceiverInv, ~overlapped, NEW t \in Threads, NEW n \in Sizes, Begin(t, n)
    PROVE  Channel!Next
<1>1. sent \in Seq(Sizes) /\ sent' = Append(sent, n) BY DEF SenderInv, TypeOK, Begin
<1>2. Len(sent) \in Nat /\ Len(sent) < MaxSends BY <1>1, LenProperties DEF Begin
<1>3. /\ Len(sent') = Len(sent) + 1 /\ sent'[Len(sent) + 1] = n
      /\ \A i \in 1..Len(sent) : sent'[i] = sent[i]
  BY <1>1, SMT
<1> DEFINE i0 == Len(sent) + 1
<1>4. i0 \in 1..MaxSends BY <1>2, MessagingAssumption, SMT
<1>5. Messages' = Append(Messages, Content(i0, n))
  <2> DEFINE C == {Messages[i] : i \in 1..Len(sent)}
             D == C \cup {Content(i0, n)}
  <2>1. Messages \in Seq(D) /\ Len(Messages) = Len(sent)
    <3>1. Messages \in [1..Len(sent) -> D] BY DEF Messages
    <3> QED BY <1>2, <3>1, SequenceOf
  <2>2. Messages' \in Seq(D) /\ Len(Messages') = Len(sent) + 1
        /\ \A i \in 1..(Len(sent) + 1) :
              Messages'[i] = IF i = i0 THEN Content(i0, n) ELSE Messages[i]
    <3>0. ASSUME NEW i \in 1..(Len(sent) + 1) PROVE i = i0 \/ (i # i0 /\ i \in 1..Len(sent))
      BY <1>2, SMT
    <3>1. ASSUME NEW i \in 1..(Len(sent) + 1)
          PROVE  Messages'[i] = IF i = i0 THEN Content(i0, n) ELSE Messages[i]
      <4>1. Messages'[i] = Content(i, sent'[i]) BY <1>3 DEF Messages
      <4>2. CASE i = i0 BY <1>3, <4>1, <4>2
      <4>3. CASE i # i0 /\ i \in 1..Len(sent) BY <1>3, <4>1, <4>3 DEF Messages
      <4> QED BY <3>0, <4>2, <4>3
    <3>2. Messages' = [i \in 1..(Len(sent) + 1) |-> Messages'[i]] BY <1>3 DEF Messages
    <3>3. \A i \in 1..(Len(sent) + 1) : Messages'[i] \in D BY <3>0, <3>1
    <3>4. Messages' \in [1..(Len(sent) + 1) -> D] BY <3>2, <3>3
    <3>5. Len(sent) + 1 \in Nat BY <1>2, SMT
    <3> QED BY <3>1, <3>4, <3>5, SequenceOf
  <2>3. Content(i0, n) \in D OBVIOUS
  <2> HIDE DEF D, i0
  <2>4. /\ Append(Messages, Content(i0, n)) \in Seq(D)
        /\ Len(Append(Messages, Content(i0, n))) = Len(sent) + 1
        /\ \A i \in 1..(Len(sent) + 1) : Append(Messages, Content(i0, n))[i] =
                IF i = Len(sent) + 1 THEN Content(i0, n) ELSE Messages[i]
    BY <2>1, <2>3, SMT
  <2>5. \A i \in 1..Len(Messages') : Messages'[i] = Append(Messages, Content(i0, n))[i]
    BY <2>2, <2>4 DEF i0
  <2> QED BY <2>2, <2>4, <2>5, SeqEqual
<1>6. Content(i0, n) \in Contents BY <1>4, SMT DEF Contents
<1>7. LastDelivered' = LastDelivered /\ UNCHANGED <<delivered, overlapped>>
  BY DEF Begin, receiver, session, LastDelivered
<1> HIDE DEF i0
<1> QED BY <1>5, <1>6, <1>7 DEF Channel!Next, Channel!Send, Messages

\* A frame applied delivers one message, whole and after the last one, or none.
LEMMA ApplyDelivers ==
    ASSUME SenderInv, ReceiverInv, ~overlapped, NEW p \in Paths, Apply(p)
    PROVE  Channel!Next \/ UNCHANGED Channel!vars
<1>0. TypeOK /\ HeldLast /\ Assembled /\ NotYet BY DEF SenderInv, ReceiverInv
<1>1. PICK f \in Held :
              /\ UNCHANGED <<sent, overlapped>>
              /\ f.part \in 1..sent[f.msg] /\ f.msg \in 1..Len(sent) /\ sent[f.msg] \in Nat \ {0}
              /\ \/ UNCHANGED delivered
                 \/ /\ f.part = sent[f.msg]
                    /\ delivered' = Append(delivered, Content(f.msg, f.part))
  BY <1>0, ApplyFacts
<1>2. CASE UNCHANGED delivered BY <1>1, <1>2, NoChannelStep
<1>3. CASE f.part = sent[f.msg] /\ delivered' = Append(delivered, Content(f.msg, f.part))
  <2>1. f.msg \in Nat /\ Len(sent) \in Nat
    BY <1>0, <1>1, LenProperties, SMT DEF TypeOK
  <2>2. LastDelivered' = f.msg BY <1>0, <1>1, <1>3, <2>1, LastAppended
  <2>3. f.msg \in (LastDelivered + 1)..Len(sent)
    BY <1>0, <1>1, <2>1, SMT DEF NotYet
  <2>4. delivered' = Append(delivered, Messages[f.msg]) BY <1>1, <1>3 DEF Messages
  <2>5. Messages' = Messages BY <1>1 DEF Messages
  <2>6. Len(Messages) = Len(sent)
    <3>1. Messages \in [1..Len(sent) -> {Messages[i] : i \in 1..Len(sent)}] BY DEF Messages
    <3> QED BY <2>1, <3>1, SequenceOf
  <2>7. Channel!Deliver
    BY <1>1, <2>2, <2>3, <2>4, <2>5, <2>6 DEF Channel!Deliver, Messages
  <2> QED BY <2>7 DEF Channel!Next
<1> QED BY <1>1, <1>2, <1>3

\* Every step of the model is a step of the channel, or none.
LEMMA ChannelStep ==
    ASSUME SenderInv, ReceiverInv, [Next]_vars
    PROVE  [Channel!Next]_(Channel!vars)
<1>1. CASE overlapped'
  BY <1>1 DEF Channel!Next
<1>2. CASE ~overlapped'
  <2>0. ASSUME NEW p \in Paths, Decrypt(p) PROVE UNCHANGED <<sent, delivered, overlapped>>
    <3>1. UNCHANGED <<sent, delivered>> BY <2>0 DEF Decrypt, sender
    <3>2. overlapped' = overlapped BY <1>2, <2>0 DEF Decrypt, SenderInv, TypeOK
    <3> QED BY <3>1, <3>2
  <2>1. ASSUME NEW t \in Threads, NEW n \in Sizes, Begin(t, n) PROVE Channel!Next
    <3>1. ~overlapped BY <1>2, <2>1 DEF Begin, receiver, session
    <3> QED BY <2>1, <3>1, BeginSends
  <2>2. ASSUME NEW p \in Paths, Apply(p) PROVE Channel!Next \/ UNCHANGED Channel!vars
    <3>1. ~overlapped BY <1>2, <2>2 DEF Apply
    <3> QED BY <2>2, <3>1, ApplyDelivers
  <2>3. ASSUME NEW s \in Sessions, TxUpgrade(s) \/ RxUpgrade(s)
        PROVE  UNCHANGED <<sent, delivered, overlapped>>
    BY <2>3 DEF TxUpgrade, RxUpgrade, sender, receiver, session
  <2>4. ASSUME NEW t \in Threads, SendFrame(t) PROVE UNCHANGED <<sent, delivered, overlapped>>
    BY <2>4 DEF SendFrame, receiver, session
  <2>5. ASSUME NEW p \in Paths, Break(p) \/ ReadConfirm(p)
        PROVE  UNCHANGED <<sent, delivered, overlapped>>
    BY <2>5 DEF Break, ReadConfirm, sender, receiver, session
  <2>6. CASE UNCHANGED vars
    BY <2>6, NoChannelStep DEF vars, sender, receiver, session
  <2>7. ASSUME NEW p \in Paths, DropUnknown(p) \/ Block(p) \/ Unblock(p)
        PROVE  UNCHANGED <<sent, delivered, overlapped>>
    BY <2>7 DEF DropUnknown, Block, Unblock, sender
  <2> QED BY <2>0, <2>1, <2>2, <2>3, <2>4, <2>5, <2>6, <2>7, NoChannelStep DEF Next, Reader
<1> QED BY <1>1, <1>2

(***************************************************************************)
(* sendAppFrame, the sessions, the two paths and the reassembly implement  *)
(* the channel of whole messages: what is handed to the application was    *)
(* sent, whole, in order and once, as long as the readers do not overlap.  *)
(***************************************************************************)
THEOREM RefinesChannel == Spec => WholeMessages
<1>1. Init => Channel!Init
  <2> SUFFICES ASSUME Init PROVE Channel!Init
    OBVIOUS
  <2>1. Len(sent) = 0 /\ 1..0 = {} BY EmptySeq, SMT DEF Init
  <2>2. [i \in 1..Len(sent) |-> Content(i, sent[i])] = <<>> BY <2>1, SMT
  <2> QED BY <2>2 DEF Init, Channel!Init, LastDelivered
<1>2. SenderInv /\ ReceiverInv /\ [Next]_vars => [Channel!Next]_(Channel!vars)
  BY ChannelStep
<1> QED BY <1>1, <1>2, InvHolds, PTL DEF Spec, WholeMessages, Channel!Spec
=============================================================================
