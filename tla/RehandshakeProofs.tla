------------------------- MODULE RehandshakeProofs -------------------------
(***************************************************************************)
(* Proofs about the fast re-handshake: type correctness, the in-flight     *)
(* mark, the rate limit and the backoff, for any number of receivers,      *)
(* goroutines and handshake handlers and any valid configuration.          *)
(***************************************************************************)
EXTENDS Rehandshake, FiniteSetTheorems, TLAPS

\* First-order reasoning suffices for most leaves; those that need records or
\* arithmetic cite SMT.
USE Zenon

\* The initial state is well typed.
LEMMA TypeInit == Init => TypeOK
  <1> SUFFICES ASSUME Init PROVE TypeOK
    OBVIOUS
  <1>1. NoneGranted \in [0..(Window - 1) -> Nat]
    BY DEF NoneGranted
  <1>2. /\ 0 \in 0..DecryptLimit /\ 0 \in 0..MaxBackoff
        /\ Window \in 0..Window /\ 0 \in 0..MaxInWindow
    BY ConfigValid, SMT
  <1>3. QED
    BY <1>1, <1>2 DEF Init, TypeOK, RxPoints, AtPoints

\* ResetThrottle leaves the throttle well typed.
LEMMA ResetType ==
  ASSUME TypeOK, ResetThrottle
  PROVE  /\ decryptFails' \in 0..DecryptLimit /\ fails' \in Nat /\ inFlight' \in BOOLEAN
         /\ backoff' \in 0..MaxBackoff /\ wait' \in 0..MaxBackoff
         /\ winAge' \in 0..Window /\ winCount' \in 0..MaxInWindow
         /\ granted' \in [0..(Window - 1) -> Nat] /\ cleared' \in Nat
  <1>1. NoneGranted \in [0..(Window - 1) -> Nat]
    BY DEF NoneGranted
  <1>2. /\ 0 \in 0..DecryptLimit /\ 0 \in 0..MaxBackoff
        /\ Window \in 0..Window /\ 0 \in 0..MaxInWindow
    BY ConfigValid, SMT
  <1>3. cleared' \in Nat
    BY SMT DEF TypeOK, ResetThrottle
  <1>4. QED
    BY <1>1, <1>2, <1>3 DEF ResetThrottle

\* UpgradeTransport and RemovePeer leave the peer well typed.
LEMMA PeerType ==
  ASSUME TypeOK, (\E t \in Transports : UpgradeTransport(t)) \/ RemovePeer
  PROVE  /\ transport' \in Transports /\ open' \in BOOLEAN
         /\ decryptFails' \in 0..DecryptLimit /\ fails' \in Nat /\ inFlight' \in BOOLEAN
         /\ backoff' \in 0..MaxBackoff /\ wait' \in 0..MaxBackoff
         /\ winAge' \in 0..Window /\ winCount' \in 0..MaxInWindow
         /\ granted' \in [0..(Window - 1) -> Nat] /\ cleared' \in Nat
  <1>1. CASE UNCHANGED peerVars
    BY <1>1 DEF TypeOK, peerVars, throttle
  <1>2. CASE ResetThrottle /\ transport' \in Transports /\ open' \in BOOLEAN
    BY <1>2, ResetType
  <1>3. QED
    BY <1>1, <1>2 DEF UpgradeTransport, RemovePeer, TypeOK

\* Every step keeps the types.
LEMMA TypeStep == TypeOK /\ [Next]_vars => TypeOK'
  <1> SUFFICES ASSUME TypeOK, [Next]_vars PROVE TypeOK'
    OBVIOUS
  <1>1. ASSUME NEW r \in Receivers, receive(r) PROVE TypeOK'
    <2>1. CASE GetPeer(r)
      BY <2>1 DEF TypeOK, GetPeer, RxGoto, RxPoints, peerVars, throttle
    <2>2. CASE Decrypt(r)
      BY <2>2, ConfigValid, SMT DEF TypeOK, Decrypt, RxGoto, RxPoints, Smaller
    <2>3. CASE TryBeginRehandshake(r)
      BY <2>3 DEF TypeOK, TryBeginRehandshake, RxGoto, RxPoints
    <2>4. CASE Reserve(r)
      <3>1. winAge' \in 0..Window /\ winCount' \in 0..MaxInWindow
        BY <2>4, ConfigValid, SMT DEF TypeOK, Reserve, ReserveRehandshakeAttempt, Allowed, WindowExpired
      <3>2. granted' \in [0..(Window - 1) -> Nat]
        BY <2>4, ConfigValid, SMT DEF TypeOK, Reserve, ReserveRehandshakeAttempt
      <3>3. rx' \in [Receivers -> RxPoints]
        BY <2>4 DEF TypeOK, Reserve, RxGoto, RxPoints
      <3>4. QED
        BY <2>4, <3>1, <3>2, <3>3 DEF TypeOK, Reserve, ReserveRehandshakeAttempt
    <2>5. CASE Refused(r)
      BY <2>5 DEF TypeOK, Refused, EndRehandshake, RxGoto, RxPoints
    <2>6. ASSUME NEW a \in Attempts, Launch(r, a) PROVE TypeOK'
      BY <2>6, ConfigValid, SMT DEF TypeOK, Launch, RxGoto, RxPoints, Goto, AtPoints
    <2>7. QED
      BY <1>1, <2>1, <2>2, <2>3, <2>4, <2>5, <2>6 DEF receive
  <1>2. ASSUME NEW a \in Attempts, attempt(a) \/ SendTCP(a) PROVE TypeOK'
    <2>1. at' \in [Attempts -> AtPoints]
      BY <1>2 DEF TypeOK, attempt, Start, SendUDP, SendTCP, Sent, Fail, Fallback, Success, End,
         Goto, AtPoints
    <2>2. CASE Start(a) \/ SendUDP(a) \/ SendTCP(a)
      BY <2>1, <2>2 DEF TypeOK, Start, SendUDP, SendTCP, Sent, peerVars, throttle
    <2>3. CASE Fail(a)
      <3>1. NextBackoff \in 0..MaxBackoff
        BY ConfigValid, SMT DEF TypeOK, NextBackoff, Smaller
      <3>2. QED
        BY <2>1, <2>3, <3>1, SMT DEF TypeOK, Fail, RecordRehandshakeFailure
    <2>4. CASE Fallback(a)
      BY <2>1, <2>4, PeerType DEF TypeOK, Fallback
    <2>5. CASE Success(a)
      BY <2>1, <2>5, ConfigValid, SMT DEF TypeOK, Success, RecordRehandshakeSuccess
    <2>6. CASE End(a)
      BY <2>1, <2>6 DEF TypeOK, End, EndRehandshake
    <2>7. QED
      BY <1>2, <2>2, <2>3, <2>4, <2>5, <2>6 DEF attempt
  <1>3. ASSUME NEW h \in Handlers, HandshakeSwitch(h) PROVE TypeOK'
    <2>1. hs[h] \in Transports
      BY <1>3 DEF HandshakeSwitch, TypeOK
    <2>2. QED
      BY <1>3, <2>1, PeerType DEF TypeOK, HandshakeSwitch
  <1>4. ASSUME NEW h \in Handlers, NEW t \in Transports, HandshakeDone(h, t) PROVE TypeOK'
    BY <1>4 DEF TypeOK, HandshakeDone, peerVars, throttle
  <1>5. CASE DropPeer
    BY <1>5, PeerType DEF TypeOK, DropPeer
  <1>6. CASE StopNode
    BY <1>6 DEF TypeOK, StopNode, peerVars, throttle
  <1>7. CASE Tick
    <2>1. wait' \in 0..MaxBackoff /\ winAge' \in 0..Window
      BY <1>7, ConfigValid, SMT DEF TypeOK, Tick, Less, Smaller
    <2>2. granted' \in [0..(Window - 1) -> Nat]
      BY <1>7, ConfigValid, SMT DEF TypeOK, Tick
    <2>3. QED
      BY <1>7, <2>1, <2>2 DEF TypeOK, Tick
  <1>8. CASE UNCHANGED vars
    BY <1>8 DEF TypeOK, vars, peerVars, throttle
  <1>9. QED
    BY <1>1, <1>2, <1>3, <1>4, <1>5, <1>6, <1>7, <1>8 DEF Next

(***************************************************************************)
(* The re-handshake's state, throttle included, keeps its types.           *)
(***************************************************************************)
THEOREM TypeCorrect == Spec => []TypeOK
  BY TypeInit, TypeStep, PTL DEF Spec

----------------------------------------------------------------------------
(***************************************************************************)
(* The strengthening of OverlapBounded: a set mark accounts for one of the *)
(* re-handshakes under way, every reset of a set mark for one more.        *)
(***************************************************************************)
MarkInv ==
    /\ MarkHasHolder
    /\ Cardinality(Holders) <= cleared + (IF inFlight THEN 1 ELSE 0)

\* There are finitely many re-handshakes under way.
LEMMA HoldersFinite ==
  /\ IsFiniteSet(Holders) /\ Cardinality(Holders) \in Nat
  /\ Cardinality(Holders) = 0 <=> Holders = {}
  <1>1. IsFiniteSet(Receivers \cup Attempts)
    BY ConfigValid, FS_Union
  <1>2. IsFiniteSet(Holders)
    BY <1>1, FS_Subset, SMT DEF Holders
  <1>3. QED
    BY <1>2, FS_CardinalityType, FS_EmptySet

\* Steps that leave the holders, the mark and the count of resets alone.
LEMMA MarkKept ==
  ASSUME MarkInv, Holders' = Holders, inFlight' = inFlight, cleared' = cleared
  PROVE  MarkInv'
  BY DEF MarkInv, MarkHasHolder

\* UpgradeTransport and Close clear the mark under whoever holds it.
LEMMA MarkReset ==
  ASSUME TypeOK, MarkInv, Holders' = Holders, inFlight' = FALSE,
         cleared' = IF inFlight THEN cleared + 1 ELSE cleared
  PROVE  MarkInv'
  BY HoldersFinite, SMT DEF MarkInv, MarkHasHolder, TypeOK

\* EndRehandshake, by a holder that leaves.
LEMMA MarkEnd ==
  ASSUME TypeOK, MarkInv, NEW x \in Holders, Holders' = Holders \ {x}, EndRehandshake
  PROVE  MarkInv'
  <1>1. Cardinality(Holders') = Cardinality(Holders) - 1
    BY HoldersFinite, FS_RemoveElement
  <1>2. QED
    BY <1>1, HoldersFinite, SMT DEF MarkInv, MarkHasHolder, TypeOK, EndRehandshake

\* A peer refreshed or removed, while nobody begins or ends.
LEMMA MarkPeer ==
  ASSUME TypeOK, MarkInv, Holders' = Holders,
         (\E t \in Transports : UpgradeTransport(t)) \/ RemovePeer
  PROVE  MarkInv'
  <1>1. CASE UNCHANGED peerVars
    BY <1>1, MarkKept DEF peerVars, throttle
  <1>2. CASE ResetThrottle
    BY <1>2, MarkReset DEF ResetThrottle
  <1>3. QED
    BY <1>1, <1>2 DEF UpgradeTransport, RemovePeer

\* Every step keeps MarkInv.
LEMMA MarkStep == TypeOK /\ MarkInv /\ [Next]_vars => MarkInv'
  <1> SUFFICES ASSUME TypeOK, MarkInv, [Next]_vars PROVE MarkInv'
    OBVIOUS
  <1>1. ASSUME NEW r \in Receivers, receive(r) PROVE MarkInv'
    <2>1. CASE GetPeer(r) \/ Decrypt(r)
      <3>1. Holders' = Holders
        BY <2>1 DEF GetPeer, Decrypt, RxGoto, Holders, TypeOK
      <3>2. QED
        BY <2>1, <3>1, MarkKept DEF GetPeer, Decrypt, peerVars, throttle
    <2>2. CASE TryBeginRehandshake(r) /\ inFlight
      <3>1. Holders' = Holders
        BY <2>2 DEF TryBeginRehandshake, RxGoto, Holders, TypeOK
      <3>2. inFlight' = inFlight
        BY <2>2 DEF TryBeginRehandshake, TypeOK
      <3>3. QED
        BY <2>2, <3>1, <3>2, MarkKept DEF TryBeginRehandshake
    <2>3. CASE TryBeginRehandshake(r) /\ ~inFlight
      <3>1. Holders' = Holders \cup {r}
        BY <2>3 DEF TryBeginRehandshake, RxGoto, Holders, TypeOK
      <3>2. Cardinality(Holders') <= Cardinality(Holders) + 1 /\ Cardinality(Holders') \in Nat
        <4>1. Cardinality(Holders') =
                 IF r \in Holders THEN Cardinality(Holders) ELSE Cardinality(Holders) + 1
          BY <3>1, HoldersFinite, FS_AddElement
        <4>2. QED
          BY <4>1, HoldersFinite, SMT
      <3>3. QED
        BY <2>3, <3>1, <3>2, HoldersFinite, SMT DEF MarkInv, MarkHasHolder, TryBeginRehandshake, TypeOK
    <2>4. CASE Reserve(r)
      <3>1. Holders' = Holders
        BY <2>4 DEF Reserve, RxGoto, Holders, TypeOK
      <3>2. QED
        BY <2>4, <3>1, MarkKept DEF Reserve, ReserveRehandshakeAttempt
    <2>5. CASE Refused(r)
      <3>1. r \in Holders /\ Holders' = Holders \ {r}
        BY <2>5, ConfigValid DEF Refused, RxGoto, Holders, TypeOK
      <3>2. QED
        BY <2>5, <3>1, MarkEnd DEF Refused
    <2>6. ASSUME NEW a \in Attempts, Launch(r, a) PROVE MarkInv'
      <3>1. /\ r \in Holders /\ a \notin Holders
            /\ Holders' = (Holders \ {r}) \cup {a}
        BY <2>6, ConfigValid DEF Launch, RxGoto, Goto, Holders, TypeOK
      <3>2. Cardinality(Holders') = Cardinality(Holders)
        <4>1. /\ IsFiniteSet(Holders \ {r})
              /\ Cardinality(Holders \ {r}) = Cardinality(Holders) - 1
          BY <3>1, HoldersFinite, FS_RemoveElement
        <4>2. Cardinality(Holders') = Cardinality(Holders \ {r}) + 1
          BY <3>1, <4>1, FS_AddElement
        <4>3. QED
          BY <4>1, <4>2, HoldersFinite, SMT
      <3>3. QED
        BY <2>6, <3>1, <3>2 DEF MarkInv, MarkHasHolder, Launch
    <2>7. QED
      BY <1>1, <2>1, <2>2, <2>3, <2>4, <2>5, <2>6 DEF receive
  <1>2. ASSUME NEW a \in Attempts, attempt(a) \/ SendTCP(a) PROVE MarkInv'
    <2>1. CASE ~End(a)
      <3>1. Holders' = Holders
        BY <1>2, <2>1 DEF attempt, Start, SendUDP, SendTCP, Sent, Fail, Fallback, Success, Goto,
           Holders, TypeOK
      <3>2. CASE Fallback(a)
        BY <3>1, <3>2, MarkPeer DEF Fallback
      <3>3. CASE ~Fallback(a)
        BY <1>2, <2>1, <3>1, <3>3, MarkKept DEF attempt, Start, SendUDP, SendTCP, Sent, Fail,
           Success, RecordRehandshakeFailure, RecordRehandshakeSuccess, peerVars, throttle
      <3>4. QED
        BY <3>2, <3>3
    <2>2. CASE End(a)
      <3>1. a \in Holders /\ Holders' = Holders \ {a}
        BY <2>2, ConfigValid DEF End, Goto, Holders, TypeOK
      <3>2. QED
        BY <2>2, <3>1, MarkEnd DEF End
    <2>3. QED
      BY <2>1, <2>2
  <1>3. ASSUME NEW h \in Handlers, HandshakeSwitch(h) PROVE MarkInv'
    <2>1. hs[h] \in Transports /\ Holders' = Holders
      BY <1>3 DEF HandshakeSwitch, Holders, TypeOK
    <2>2. QED
      BY <1>3, <2>1, MarkPeer DEF HandshakeSwitch
  <1>4. CASE DropPeer
    <2>1. Holders' = Holders
      BY <1>4 DEF DropPeer, Holders
    <2>2. QED
      BY <1>4, <2>1, MarkPeer DEF DropPeer
  <1>5. CASE UNCHANGED <<rx, at, inFlight, cleared>>
    BY <1>5, MarkKept DEF Holders
  <1>6. QED
    BY <1>1, <1>2, <1>3, <1>4, <1>5
       DEF Next, HandshakeDone, StopNode, Tick, vars, peerVars, throttle

\* Nothing is under way at the start.
LEMMA MarkStart == Init => MarkInv
  <1> SUFFICES ASSUME Init PROVE MarkInv
    OBVIOUS
  <1>1. Holders = {}
    BY DEF Init, Holders
  <1>2. QED
    BY <1>1, HoldersFinite, SMT DEF Init, MarkInv, MarkHasHolder

\* MarkInv holds in every reachable state.
LEMMA MarkInvariant == Spec => []MarkInv
  BY MarkStart, MarkStep, TypeCorrect, PTL DEF Spec

(***************************************************************************)
(* A set in-flight mark always has a re-handshake under way to clear it.   *)
(***************************************************************************)
THEOREM MarkNeverLeaks == Spec => []MarkHasHolder
  <1>1. MarkInv => MarkHasHolder
    BY DEF MarkInv
  <1>2. QED
    BY <1>1, MarkInvariant, PTL

(***************************************************************************)
(* TryBeginRehandshake lets one re-handshake through at a time, plus one   *)
(* for every time UpgradeTransport or Close cleared the mark under it.     *)
(***************************************************************************)
THEOREM OverlapIsBounded == Spec => []OverlapBounded
  <1>1. TypeOK /\ MarkInv => OverlapBounded
    BY HoldersFinite, SMT DEF MarkInv, OverlapBounded, TypeOK
  <1>2. QED
    BY <1>1, TypeCorrect, MarkInvariant, PTL

----------------------------------------------------------------------------
(* The rate limit.                                                         *)

\* Attempts younger than n time units.
Younger(n) == {e \in Recent : e[1] < n}

(***************************************************************************)
(* The strengthening of RateLimited.  The first attempt of a window is as  *)
(* old as the window; the attempts before it are those of the window       *)
(* before, whose first one is out of sight when the next window starts.    *)
(***************************************************************************)
WindowInv ==
    /\ IsFiniteSet(Recent)
    /\ winAge < Window =>
          /\ Cardinality(Younger(winAge + 1)) <= winCount
          /\ Cardinality(Younger(winAge)) <= winCount - 1
          /\ Cardinality(Recent \ Younger(winAge + 1)) <= MaxInWindow - 1
    /\ winAge = Window => Cardinality(Recent) <= MaxInWindow - 1 /\ granted[0] = 0

\* The pairs of an age and a number that a count by age stands for.
LEMMA PairsOf ==
  ASSUME NEW g \in [0..(Window - 1) -> Nat], NEW R,
         R = UNION {{i} \X (1..g[i]) : i \in 0..(Window - 1)}
  PROVE  /\ \A e \in R : /\ e[1] \in 0..(Window - 1) /\ e[2] \in 1..g[e[1]]
                         /\ e = <<e[1], e[2]>> /\ e \in Int \X Int
         /\ \A i \in 0..(Window - 1) : \A k \in 1..g[i] : <<i, k>> \in R
  <1>1. \A i \in 0..(Window - 1) : g[i] \in Nat
    OBVIOUS
  <1>2. ASSUME NEW e \in R
        PROVE  /\ e[1] \in 0..(Window - 1) /\ e[2] \in 1..g[e[1]]
               /\ e = <<e[1], e[2]>> /\ e \in Int \X Int
    <2>1. PICK i \in 0..(Window - 1) : e \in {i} \X (1..g[i])
      BY <1>2
    <2>2. e[1] = i /\ e[2] \in 1..g[i] /\ e = <<e[1], e[2]>>
      BY <2>1, SMT
    <2>3. i \in Int /\ e[2] \in Int
      BY <1>1, <2>2, SMT
    <2>4. QED
      BY <2>2, <2>3, SMT
  <1>3. ASSUME NEW i \in 0..(Window - 1), NEW k \in 1..g[i] PROVE <<i, k>> \in R
    <2>1. <<i, k>> \in {i} \X (1..g[i])
      BY SMT
    <2>2. QED
      BY <2>1
  <1>4. QED
    BY <1>2, <1>3

\* The attempts are pairs of an age and a number, before a step and after it.
LEMMA RecentPairs ==
  ASSUME TypeOK
  PROVE  /\ \A e \in Recent : /\ e[1] \in 0..(Window - 1) /\ e[2] \in 1..granted[e[1]]
                              /\ e = <<e[1], e[2]>> /\ e \in Int \X Int
         /\ \A i \in 0..(Window - 1) : \A k \in 1..granted[i] : <<i, k>> \in Recent
  BY PairsOf DEF TypeOK, Recent

LEMMA NextPairs ==
  ASSUME TypeOK'
  PROVE  /\ \A e \in Recent' : /\ e[1] \in 0..(Window - 1) /\ e[2] \in 1..granted'[e[1]]
                               /\ e = <<e[1], e[2]>> /\ e \in Int \X Int
         /\ \A i \in 0..(Window - 1) : \A k \in 1..granted'[i] : <<i, k>> \in Recent'
  BY PairsOf DEF TypeOK, Recent

\* Attempts that grow older are not more than they were.
LEMMA Aged ==
  ASSUME NEW S, NEW T, IsFiniteSet(T), S \subseteq Int \X Int,
         \A e \in S : <<e[1] - 1, e[2]>> \in T
  PROVE  IsFiniteSet(S) /\ Cardinality(S) <= Cardinality(T)
  <1> DEFINE f == [e \in S |-> <<e[1] - 1, e[2]>>]
  <1>1. f \in [S -> T]
    OBVIOUS
  <1>2. ASSUME NEW a \in S, NEW b \in S, f[a] = f[b] PROVE a = b
    <2>1. <<a[1] - 1, a[2]>> = <<b[1] - 1, b[2]>>
      BY <1>2
    <2>2. a \in Int \X Int /\ b \in Int \X Int
      OBVIOUS
    <2>3. QED
      BY <2>1, <2>2, SMT
  <1> HIDE DEF f
  <1>3. f \in Injection(S, T)
    <2>1. DOMAIN f = S
      BY <1>1
    <2>2. QED
      BY <1>1, <1>2, <2>1 DEF Injection, IsInjective
  <1>4. QED
    BY <1>3, FS_Injection

\* The attempts of any age are finite in number.
LEMMA YoungerFinite ==
  ASSUME WindowInv, NEW n
  PROVE  /\ IsFiniteSet(Younger(n)) /\ Cardinality(Younger(n)) \in Nat
         /\ IsFiniteSet(Recent \ Younger(n)) /\ Cardinality(Recent \ Younger(n)) \in Nat
         /\ Cardinality(Recent) \in Nat
         /\ Cardinality(Recent) = Cardinality(Younger(n)) + Cardinality(Recent \ Younger(n))
  <1>1. IsFiniteSet(Recent) /\ Younger(n) \subseteq Recent
    BY DEF WindowInv, Younger
  <1>2. IsFiniteSet(Younger(n)) /\ IsFiniteSet(Recent \ Younger(n))
    BY <1>1, FS_Subset
  <1>3. /\ Cardinality(Younger(n)) \in Nat /\ Cardinality(Recent \ Younger(n)) \in Nat
        /\ Cardinality(Recent) \in Nat
    BY <1>1, <1>2, FS_CardinalityType
  <1>4. Cardinality(Recent \ Younger(n)) = Cardinality(Recent) - Cardinality(Younger(n))
    <2>1. Recent \cap Younger(n) = Younger(n)
      BY <1>1
    <2>2. QED
      BY <1>1, <2>1, FS_Difference
  <1>5. QED
    BY <1>2, <1>3, <1>4, SMT

\* The two windows that a stretch of Window time units can meet.
LEMMA WindowLimits == TypeOK /\ WindowInv => RateLimited
  <1> SUFFICES ASSUME TypeOK, WindowInv PROVE RateLimited
    OBVIOUS
  <1>1. winAge \in 0..Window /\ winCount \in 0..MaxInWindow
    BY DEF TypeOK
  <1>2. CASE winAge < Window
    <2>1. /\ Cardinality(Younger(winAge + 1)) <= winCount
          /\ Cardinality(Recent \ Younger(winAge + 1)) <= MaxInWindow - 1
      BY <1>2 DEF WindowInv
    <2>2. QED
      BY <1>1, <2>1, YoungerFinite, ConfigValid, SMT DEF RateLimited
  <1>3. CASE winAge = Window
    <2>1. Cardinality(Recent) <= MaxInWindow - 1
      BY <1>3 DEF WindowInv
    <2>2. Cardinality(Recent) \in Nat
      BY YoungerFinite
    <2>3. QED
      BY <2>1, <2>2, ConfigValid, SMT DEF RateLimited
  <1>4. QED
    BY <1>1, <1>2, <1>3, ConfigValid, SMT

\* Steps that leave the window and the attempts alone.
LEMMA WindowKept ==
  ASSUME WindowInv, UNCHANGED <<winAge, winCount, granted>>
  PROVE  WindowInv'
  BY DEF WindowInv, Younger, Recent

\* An expired window and no attempt in sight: at the start and after a reset.
LEMMA WindowFresh ==
  /\ winAge = Window /\ granted = NoneGranted => WindowInv
  /\ winAge' = Window /\ granted' = NoneGranted => WindowInv'
  <1>1. /\ UNION {{i} \X (1..NoneGranted[i]) : i \in 0..(Window - 1)} = {}
        /\ NoneGranted[0] = 0 /\ ~(Window < Window)
    <2>1. \A i \in 0..(Window - 1) : NoneGranted[i] = 0
      BY DEF NoneGranted
    <2>2. 0 \in 0..(Window - 1) /\ ~(Window < Window) /\ 1..0 = {}
      BY ConfigValid, SMT
    <2>3. QED
      BY <2>1, <2>2
  <1>2. IsFiniteSet({}) /\ Cardinality({}) = 0
    BY FS_EmptySet
  <1>3. 0 <= MaxInWindow - 1
    BY ConfigValid, SMT
  <1>4. ASSUME winAge = Window, granted = NoneGranted PROVE WindowInv
    <2>1. Recent = {} /\ granted[0] = 0 /\ ~(winAge < Window)
      BY <1>1, <1>4 DEF Recent
    <2>2. QED
      BY <1>2, <1>3, <2>1 DEF WindowInv
  <1>5. ASSUME winAge' = Window, granted' = NoneGranted PROVE WindowInv'
    <2>1. Recent' = {} /\ granted'[0] = 0 /\ ~(winAge' < Window)
      BY <1>1, <1>5 DEF Recent
    <2>2. QED
      BY <1>2, <1>3, <2>1 DEF WindowInv
  <1>6. QED
    BY <1>4, <1>5

\* An attempt granted is one more of age 0.
LEMMA OneMore ==
  ASSUME TypeOK, TypeOK', granted' = [granted EXCEPT ![0] = @ + 1]
  PROVE  Recent' = Recent \cup {<<0, granted[0] + 1>>}
  <1>1. 0 \in 0..(Window - 1)
    BY ConfigValid, SMT
  <1>2. granted[0] \in Nat /\ granted'[0] = granted[0] + 1
    BY <1>1 DEF TypeOK
  <1>3. \A i \in 0..(Window - 1) : i # 0 => granted'[i] = granted[i]
    BY DEF TypeOK
  <1>4. ASSUME NEW e \in Recent' PROVE e \in Recent \/ e = <<0, granted[0] + 1>>
    <2>1. e[1] \in 0..(Window - 1) /\ e[2] \in 1..granted'[e[1]] /\ e = <<e[1], e[2]>>
      BY NextPairs
    <2>2. CASE e[1] = 0
      <3>1. e[2] \in 1..granted[0] \/ e[2] = granted[0] + 1
        BY <1>2, <2>1, <2>2, SMT
      <3>2. e = <<0, e[2]>>
        BY <2>1, <2>2
      <3>3. QED
        BY <1>1, <3>1, <3>2, RecentPairs
    <2>3. CASE e[1] # 0
      <3>1. e[2] \in 1..granted[e[1]]
        BY <1>3, <2>1, <2>3
      <3>2. QED
        BY <2>1, <3>1, RecentPairs
    <2>4. QED
      BY <2>2, <2>3
  <1>5. ASSUME NEW e \in Recent PROVE e \in Recent'
    <2>1. e[1] \in 0..(Window - 1) /\ e[2] \in 1..granted[e[1]] /\ e = <<e[1], e[2]>>
      BY RecentPairs
    <2>2. e[2] \in 1..granted'[e[1]]
      <3>1. CASE e[1] = 0
        BY <1>2, <2>1, <3>1, SMT
      <3>2. CASE e[1] # 0
        BY <1>3, <2>1, <3>2
      <3>3. QED
        BY <3>1, <3>2
    <2>3. QED
      BY <2>1, <2>2, NextPairs
  <1>6. <<0, granted[0] + 1>> \in Recent'
    <2>1. granted[0] + 1 \in 1..granted'[0]
      BY <1>2, SMT
    <2>2. QED
      BY <1>1, <2>1, NextPairs
  <1>7. QED
    BY <1>4, <1>5, <1>6

\* With one more element a set has at most one more.
LEMMA AtMostOneMore ==
  ASSUME NEW S, NEW T, NEW x, IsFiniteSet(T), S \subseteq T \cup {x}
  PROVE  IsFiniteSet(S) /\ Cardinality(S) \in Nat /\ Cardinality(S) <= Cardinality(T) + 1
  <1>1. /\ IsFiniteSet(T \cup {x})
        /\ Cardinality(T \cup {x}) = IF x \in T THEN Cardinality(T) ELSE Cardinality(T) + 1
    BY FS_AddElement
  <1>2. IsFiniteSet(S) /\ Cardinality(S) <= Cardinality(T \cup {x})
    BY <1>1, FS_Subset
  <1>3. Cardinality(S) \in Nat /\ Cardinality(T) \in Nat
    BY <1>2, FS_CardinalityType
  <1>4. QED
    BY <1>1, <1>2, <1>3, SMT

\* ReserveRehandshakeAttempt: an attempt of this window, or the first of a new one.
LEMMA WindowReserve ==
  ASSUME TypeOK, TypeOK', WindowInv, ReserveRehandshakeAttempt
  PROVE  WindowInv'
  <1>0. /\ winAge \in 0..Window /\ winCount \in 0..MaxInWindow /\ Window \in Nat \ {0}
        /\ MaxInWindow \in Nat \ {0}
    BY ConfigValid DEF TypeOK
  <1>1. CASE ~Allowed
    BY <1>1, WindowKept DEF ReserveRehandshakeAttempt, Allowed
  <1>2. CASE Allowed
    <2>1. granted' = [granted EXCEPT ![0] = @ + 1]
      BY <1>2 DEF ReserveRehandshakeAttempt
    <2>2. PICK x : x = <<0, granted[0] + 1>>
      OBVIOUS
    <2>3. Recent' = Recent \cup {x} /\ x[1] = 0
      <3>1. Recent' = Recent \cup {x}
        BY <2>1, <2>2, OneMore
      <3>2. QED
        BY <2>2, <3>1, SMT
    <2>4. IsFiniteSet(Recent) /\ IsFiniteSet(Recent')
      BY <2>3, FS_AddElement DEF WindowInv
    <2>5. CASE WindowExpired
      <3>1. winAge = Window /\ winAge' = 0 /\ winCount' = 1
        BY <1>0, <1>2, <2>5, SMT DEF ReserveRehandshakeAttempt, WindowExpired, Allowed
      <3>2. Cardinality(Recent) <= MaxInWindow - 1 /\ granted[0] = 0
        BY <3>1 DEF WindowInv
      <3>3. \A e \in Recent : ~(e[1] < 1)
        <4>1. SUFFICES ASSUME NEW e \in Recent, e[1] < 1 PROVE FALSE
          OBVIOUS
        <4>2. e[1] \in 0..(Window - 1) /\ e[2] \in 1..granted[e[1]]
          BY RecentPairs
        <4>3. e[1] = 0
          BY <4>1, <4>2, SMT
        <4>4. e[2] \in 1..0
          BY <3>2, <4>2, <4>3
        <4>5. QED
          BY <4>4, SMT
      <3>4. Younger(winAge + 1)' \subseteq {x}
        <4>1. winAge' + 1 = 1
          BY <3>1, SMT
        <4>2. QED
          BY <2>3, <3>3, <4>1 DEF Younger
      <3>5. Younger(winAge)' = {}
        <4>1. \A e \in Recent' : ~(e[1] < 0)
          <5>1. ~(0 < 0) /\ \A i \in 0..(Window - 1) : ~(i < 0)
            BY SMT
          <5>2. QED
            BY <2>3, <5>1, RecentPairs
        <4>2. QED
          BY <3>1, <4>1 DEF Younger
      <3>6. (Recent \ Younger(winAge + 1))' \subseteq Recent
        <4>1. x[1] < winAge' + 1
          BY <2>3, <3>1, SMT
        <4>2. QED
          BY <2>3, <4>1 DEF Younger
      <3>7. Cardinality({}) = 0 /\ IsFiniteSet({})
        BY FS_EmptySet
      <3>8. Cardinality(Younger(winAge + 1)') <= 1
        <4>1. Younger(winAge + 1)' \subseteq {} \cup {x}
          BY <3>4
        <4>2. /\ Cardinality(Younger(winAge + 1)') \in Nat
              /\ Cardinality(Younger(winAge + 1)') <= Cardinality({}) + 1
          BY <3>7, <4>1, AtMostOneMore
        <4>3. QED
          BY <3>7, <4>2, SMT
      <3>9. Cardinality((Recent \ Younger(winAge + 1))') <= MaxInWindow - 1
        <4>1. /\ Cardinality((Recent \ Younger(winAge + 1))') <= Cardinality(Recent)
              /\ Cardinality((Recent \ Younger(winAge + 1))') \in Nat /\ Cardinality(Recent) \in Nat
          BY <2>4, <3>6, FS_Subset, FS_CardinalityType
        <4>2. QED
          BY <1>0, <3>2, <4>1, SMT
      <3>10. 0 <= 1 - 1 /\ winAge' # Window
        BY <1>0, <3>1, SMT
      <3>11. QED
        BY <2>4, <3>1, <3>5, <3>7, <3>8, <3>9, <3>10 DEF WindowInv
    <2>6. CASE ~WindowExpired
      <3>1. winAge < Window /\ winAge' = winAge /\ winCount' = winCount + 1 /\ winAge' # Window
        BY <1>0, <1>2, <2>6, SMT DEF ReserveRehandshakeAttempt, WindowExpired
      <3>2. /\ Cardinality(Younger(winAge + 1)) <= winCount
            /\ Cardinality(Younger(winAge)) <= winCount - 1
            /\ Cardinality(Recent \ Younger(winAge + 1)) <= MaxInWindow - 1
        BY <3>1 DEF WindowInv
      <3>3. /\ Younger(winAge + 1)' \subseteq Younger(winAge + 1) \cup {x}
            /\ Younger(winAge)' \subseteq Younger(winAge) \cup {x}
        BY <2>3, <3>1 DEF Younger
      <3>4. (Recent \ Younger(winAge + 1))' \subseteq Recent \ Younger(winAge + 1)
        <4>1. x[1] < winAge + 1
          BY <1>0, <2>3, SMT
        <4>2. QED
          BY <2>3, <3>1, <4>1 DEF Younger
      <3>5. Cardinality(Younger(winAge + 1)') <= winCount'
        <4>1. IsFiniteSet(Younger(winAge + 1)) /\ Cardinality(Younger(winAge + 1)) \in Nat
          BY YoungerFinite
        <4>2. /\ Cardinality(Younger(winAge + 1)') <= Cardinality(Younger(winAge + 1)) + 1
              /\ Cardinality(Younger(winAge + 1)') \in Nat
          BY <3>3, <4>1, AtMostOneMore
        <4>3. QED
          BY <1>0, <3>1, <3>2, <4>1, <4>2, SMT
      <3>6. Cardinality(Younger(winAge)') <= winCount' - 1
        <4>1. IsFiniteSet(Younger(winAge)) /\ Cardinality(Younger(winAge)) \in Nat
          BY YoungerFinite
        <4>2. /\ Cardinality(Younger(winAge)') <= Cardinality(Younger(winAge)) + 1
              /\ Cardinality(Younger(winAge)') \in Nat
          BY <3>3, <4>1, AtMostOneMore
        <4>3. QED
          BY <1>0, <3>1, <3>2, <4>1, <4>2, SMT
      <3>7. Cardinality((Recent \ Younger(winAge + 1))') <= MaxInWindow - 1
        <4>1. /\ IsFiniteSet(Recent \ Younger(winAge + 1))
              /\ Cardinality(Recent \ Younger(winAge + 1)) \in Nat
          BY YoungerFinite
        <4>2. /\ Cardinality((Recent \ Younger(winAge + 1))')
                    <= Cardinality(Recent \ Younger(winAge + 1))
              /\ Cardinality((Recent \ Younger(winAge + 1))') \in Nat
          BY <3>4, <4>1, FS_Subset, FS_CardinalityType
        <4>3. QED
          BY <1>0, <3>2, <4>1, <4>2, SMT
      <3>8. QED
        BY <2>4, <3>1, <3>5, <3>6, <3>7 DEF WindowInv
    <2>7. QED
      BY <2>5, <2>6
  <1>3. QED
    BY <1>1, <1>2

\* Tick: every attempt is one unit older, and so is the window.
LEMMA WindowTick ==
  ASSUME TypeOK, TypeOK', WindowInv, Tick
  PROVE  WindowInv'
  <1>0. /\ winAge \in 0..Window /\ winCount \in 0..MaxInWindow /\ Window \in Nat \ {0}
        /\ MaxInWindow \in Nat \ {0}
    BY ConfigValid DEF TypeOK
  <1>1. winAge' = Smaller(winAge + 1, Window) /\ winCount' = winCount
    BY DEF Tick
  <1>2. granted'[0] = 0
    <2>1. 0 \in 0..(Window - 1)
      BY <1>0, SMT
    <2>2. QED
      BY <2>1 DEF Tick
  <1>3. ASSUME NEW e \in Recent'
        PROVE  e[1] \in 0..(Window - 1) /\ e[1] - 1 \in Int /\ <<e[1] - 1, e[2]>> \in Recent
    <2>1. e[1] \in 0..(Window - 1) /\ e[2] \in 1..granted'[e[1]]
      BY NextPairs
    <2>2. e[1] # 0
      <3>1. SUFFICES ASSUME e[1] = 0 PROVE FALSE
        OBVIOUS
      <3>2. e[2] \in 1..0
        BY <1>2, <2>1, <3>1
      <3>3. QED
        BY <3>2, SMT
    <2>3. e[1] - 1 \in 0..(Window - 1) /\ e[1] - 1 \in Int
      BY <1>0, <2>1, <2>2, SMT
    <2>4. e[2] \in 1..granted[e[1] - 1]
      BY <2>1, <2>2 DEF Tick
    <2>5. QED
      BY <2>1, <2>3, <2>4, RecentPairs
  <1>4. Recent' \subseteq Int \X Int
    BY NextPairs
  <1>5. IsFiniteSet(Recent) /\ IsFiniteSet(Recent') /\ Cardinality(Recent') <= Cardinality(Recent)
    <2>1. IsFiniteSet(Recent)
      BY DEF WindowInv
    <2>2. QED
      BY <1>3, <1>4, <2>1, Aged
  <1>6. /\ Cardinality(Recent) \in Nat /\ Cardinality(Recent') \in Nat
        /\ \A n : /\ IsFiniteSet(Younger(n)) /\ Cardinality(Younger(n)) \in Nat
                  /\ IsFiniteSet(Recent \ Younger(n)) /\ Cardinality(Recent \ Younger(n)) \in Nat
    BY <1>5, YoungerFinite, FS_CardinalityType
  \* Both sides of the border between two ages move with it.
  <1>7. ASSUME NEW n \in Int, NEW e \in Recent'
        PROVE  /\ e[1] < n + 1 => <<e[1] - 1, e[2]>> \in Younger(n)
               /\ ~(e[1] < n + 1) => <<e[1] - 1, e[2]>> \in Recent \ Younger(n)
    <2>1. e[1] \in 0..(Window - 1)
      BY <1>3
    <2>2. e[1] < n + 1 <=> e[1] - 1 < n
      BY <1>0, <2>1, SMT
    <2>3. QED
      BY <1>3, <2>2 DEF Younger
  <1>8. CASE winAge + 1 < Window
    <2>1. winAge < Window /\ winAge' = winAge + 1 /\ winAge \in Int /\ winAge' # Window
      BY <1>0, <1>1, <1>8, SMT DEF Smaller
    <2>2. /\ Cardinality(Younger(winAge + 1)) <= winCount
          /\ Cardinality(Younger(winAge)) <= winCount - 1
          /\ Cardinality(Recent \ Younger(winAge + 1)) <= MaxInWindow - 1
      BY <2>1 DEF WindowInv
    <2>3. PICK m \in Int : m = winAge + 1
      BY <2>1, SMT
    <2>4. winAge' = m
      BY <2>1, <2>3
    <2>5. Cardinality(Younger(winAge + 1)') <= Cardinality(Younger(m))
      <3>1. /\ Younger(winAge + 1)' \subseteq Int \X Int
            /\ \A e \in Younger(winAge + 1)' : <<e[1] - 1, e[2]>> \in Younger(m)
        BY <1>4, <1>7, <2>4 DEF Younger
      <3>2. QED
        BY <1>6, <3>1, Aged
    <2>6. Cardinality(Younger(winAge)') <= Cardinality(Younger(winAge))
      <3>1. /\ Younger(winAge)' \subseteq Int \X Int
            /\ \A e \in Younger(winAge)' : <<e[1] - 1, e[2]>> \in Younger(winAge)
        BY <1>4, <1>7, <2>1 DEF Younger
      <3>2. QED
        BY <1>6, <3>1, Aged
    <2>7. Cardinality((Recent \ Younger(winAge + 1))') <= Cardinality(Recent \ Younger(m))
      <3>1. /\ (Recent \ Younger(winAge + 1))' \subseteq Int \X Int
            /\ \A e \in (Recent \ Younger(winAge + 1))' :
                  <<e[1] - 1, e[2]>> \in Recent \ Younger(m)
        BY <1>4, <1>7, <2>4 DEF Younger
      <3>2. QED
        BY <1>6, <3>1, Aged
    <2>8. /\ Cardinality(Younger(winAge + 1)') \in Nat /\ Cardinality(Younger(winAge)') \in Nat
          /\ Cardinality((Recent \ Younger(winAge + 1))') \in Nat
      <3>1. /\ Younger(winAge + 1)' \subseteq Recent' /\ Younger(winAge)' \subseteq Recent'
            /\ (Recent \ Younger(winAge + 1))' \subseteq Recent'
        BY DEF Younger
      <3>2. QED
        BY <1>5, <3>1, FS_Subset, FS_CardinalityType
    <2>9. /\ Cardinality(Younger(winAge + 1)') <= winCount
          /\ Cardinality(Younger(winAge)') <= winCount - 1
          /\ Cardinality((Recent \ Younger(winAge + 1))') <= MaxInWindow - 1
      <3>1. /\ Cardinality(Younger(m)) <= winCount /\ Cardinality(Younger(m)) \in Nat
            /\ Cardinality(Younger(winAge)) \in Nat /\ Cardinality(Recent \ Younger(m)) \in Nat
            /\ Cardinality(Recent \ Younger(m)) <= MaxInWindow - 1
        BY <1>6, <2>2, <2>3
      <3>2. QED
        BY <1>0, <2>2, <2>5, <2>6, <2>7, <2>8, <3>1, SMT
    <2>10. QED
      BY <1>1, <1>5, <2>1, <2>9 DEF WindowInv
  <1>9. CASE winAge + 1 = Window
    <2>1. winAge < Window /\ winAge \in Int /\ winAge' = Window /\ ~(winAge' < Window)
      BY <1>0, <1>1, <1>9, SMT DEF Smaller
    <2>2. Cardinality(Younger(winAge)) <= winCount - 1
      BY <2>1 DEF WindowInv
    <2>3. \A e \in Recent' : <<e[1] - 1, e[2]>> \in Younger(winAge)
      <3>1. \A e \in Recent' : e[1] < winAge + 1
        <4>1. \A i \in 0..(Window - 1) : i < winAge + 1
          BY <1>0, <1>9, SMT
        <4>2. QED
          BY <1>3, <4>1
      <3>2. QED
        BY <1>7, <2>1, <3>1
    <2>4. Cardinality(Recent') <= Cardinality(Younger(winAge))
      BY <1>4, <1>6, <2>3, Aged
    <2>5. Cardinality(Younger(winAge)) \in Nat
      BY <1>6
    <2>6. Cardinality(Recent') <= MaxInWindow - 1
      BY <1>0, <1>6, <2>2, <2>4, <2>5, SMT
    <2>7. QED
      BY <1>2, <1>5, <2>1, <2>6 DEF WindowInv
  <1>10. CASE winAge = Window
    <2>1. winAge' = Window /\ ~(winAge' < Window)
      BY <1>0, <1>1, <1>10, SMT DEF Smaller
    <2>2. Cardinality(Recent) <= MaxInWindow - 1
      BY <1>10 DEF WindowInv
    <2>3. Cardinality(Recent') <= MaxInWindow - 1
      BY <1>0, <1>5, <1>6, <2>2, SMT
    <2>4. QED
      BY <1>2, <1>5, <2>1, <2>3 DEF WindowInv
  <1>11. QED
    BY <1>0, <1>8, <1>9, <1>10, SMT

\* A switch of the transport or a removal leaves the window, or starts it afresh.
LEMMA WindowPeer ==
  ASSUME WindowInv, RemovePeer \/ \E t \in Transports : UpgradeTransport(t)
  PROVE  WindowInv'
  <1>1. CASE UNCHANGED peerVars
    BY <1>1, WindowKept DEF peerVars, throttle
  <1>2. CASE ResetThrottle
    BY <1>2, WindowFresh DEF ResetThrottle
  <1>3. QED
    BY <1>1, <1>2 DEF RemovePeer, UpgradeTransport

LEMMA WindowStep == TypeOK /\ TypeOK' /\ WindowInv /\ [Next]_vars => WindowInv'
  <1> SUFFICES ASSUME TypeOK, TypeOK', WindowInv, [Next]_vars PROVE WindowInv'
    OBVIOUS
  <1>1. ASSUME NEW r \in Receivers, receive(r) PROVE WindowInv'
    <2>1. CASE Reserve(r)
      BY <2>1, WindowReserve DEF Reserve
    <2>2. CASE ~Reserve(r)
      <3>1. UNCHANGED <<winAge, winCount, granted>>
        BY <1>1, <2>2 DEF receive, GetPeer, Decrypt, TryBeginRehandshake, Refused, Launch,
           EndRehandshake, peerVars, throttle
      <3>2. QED
        BY <3>1, WindowKept
    <2>3. QED
      BY <2>1, <2>2
  <1>2. ASSUME NEW a \in Attempts, attempt(a) \/ SendTCP(a) PROVE WindowInv'
    <2>1. CASE Fallback(a)
      BY <2>1, WindowPeer DEF Fallback
    <2>2. CASE ~Fallback(a)
      <3>1. UNCHANGED <<winAge, winCount, granted>>
        BY <1>2, <2>2 DEF attempt, Start, SendUDP, SendTCP, Sent, Fail, Success, End,
           EndRehandshake, RecordRehandshakeFailure, RecordRehandshakeSuccess, peerVars, throttle
      <3>2. QED
        BY <3>1, WindowKept
    <2>3. QED
      BY <2>1, <2>2
  <1>3. ASSUME NEW h \in Handlers, HandshakeSwitch(h) PROVE WindowInv'
    <2>1. hs[h] \in Transports
      BY <1>3 DEF HandshakeSwitch, TypeOK
    <2>2. QED
      BY <1>3, <2>1, WindowPeer DEF HandshakeSwitch
  <1>4. CASE DropPeer
    BY <1>4, WindowPeer DEF DropPeer
  <1>5. CASE Tick
    BY <1>5, WindowTick
  <1>6. CASE UNCHANGED <<winAge, winCount, granted>>
    BY <1>6, WindowKept
  <1>7. QED
    BY <1>1, <1>2, <1>3, <1>4, <1>5, <1>6
       DEF Next, HandshakeDone, StopNode, vars, peerVars, throttle

(***************************************************************************)
(* Any stretch of Window time units sees at most 2 * MaxInWindow - 1       *)
(* attempts that ReserveRehandshakeAttempt granted since the last reset.   *)
(***************************************************************************)
THEOREM RateHolds == Spec => []RateLimited
  <1>1. Init => WindowInv
    BY WindowFresh DEF Init
  <1>2. QED
    BY <1>1, WindowStep, WindowLimits, TypeCorrect, PTL DEF Spec
----------------------------------------------------------------------------
(* The backoff.                                                            *)

(***************************************************************************)
(* A law of arithmetic that follows by induction on the exponent.  The     *)
(* backends know neither it nor that induction, so it is a hypothesis of   *)
(* the theorem below; it constrains no constant of the model.              *)
(***************************************************************************)
PowersDouble == \A n \in Nat : 2^n \in Nat \ {0} /\ 2^(n + 1) = 2 * 2^n

\* Doubling a capped number and capping it again.
LEMMA CappedDouble ==
  ASSUME NEW p \in Nat, NEW m \in Nat
  PROVE  Smaller(2 * Smaller(p, m), m) = Smaller(2 * p, m)
  BY SMT DEF Smaller

\* RecordRehandshakeFailure: the first failure starts from Base, another doubles.
LEMMA BackoffFails ==
  ASSUME PowersDouble, TypeOK, BackoffMatchesFailures, RecordRehandshakeFailure
  PROVE  BackoffMatchesFailures'
  <1>1. fails \in Nat /\ fails' = fails + 1 /\ Base \in Nat \ {0} /\ MaxBackoff \in Nat \ {0}
    <2>1. fails \in Nat /\ fails' = fails + 1
      BY DEF TypeOK, RecordRehandshakeFailure
    <2>2. Base \in Nat \ {0} /\ MaxBackoff \in Nat \ {0}
      BY ConfigValid, SMT
    <2>3. QED
      BY <2>1, <2>2
  <1>2. backoff' = Smaller(IF backoff = 0 THEN Base ELSE 2 * backoff, MaxBackoff)
    BY DEF RecordRehandshakeFailure, NextBackoff
  <1>3. fails' # 0 /\ fails' - 1 = fails
    BY <1>1, SMT
  <1>4. SUFFICES backoff' = Smaller(Base * 2^fails, MaxBackoff)
    BY <1>3 DEF BackoffMatchesFailures
  <1>5. CASE fails = 0
    <2>1. backoff = 0
      BY <1>5 DEF BackoffMatchesFailures
    <2>2. Base * 2^fails = Base
      BY <1>1, <1>5, SMT
    <2>3. QED
      BY <1>2, <2>1, <2>2
  <1>6. CASE fails # 0
    <2>1. PICK n \in Nat : n = fails - 1 /\ n + 1 = fails
      BY <1>1, <1>6, SMT
    <2>2. PICK q \in Nat : q = 2^n /\ 2^fails = 2 * q /\ q # 0
      BY <2>1 DEF PowersDouble
    <2>3. backoff = Smaller(Base * q, MaxBackoff)
      BY <1>6, <2>1, <2>2 DEF BackoffMatchesFailures
    <2>4. PICK p \in Nat : p = Base * q /\ Base * (2 * q) = 2 * p /\ p # 0
      BY <1>1, <2>2, SMT
    <2>5. backoff = Smaller(p, MaxBackoff) /\ backoff # 0
      <3>1. Smaller(p, MaxBackoff) # 0
        BY <1>1, <2>4 DEF Smaller
      <3>2. QED
        BY <2>3, <2>4, <3>1
    <2>6. Smaller(2 * Smaller(p, MaxBackoff), MaxBackoff) = Smaller(2 * p, MaxBackoff)
      BY <1>1, CappedDouble
    <2>7. QED
      BY <1>2, <2>2, <2>4, <2>5, <2>6
  <1>7. QED
    BY <1>5, <1>6

\* A switch of the transport or a removal resets both, or neither.
LEMMA BackoffPeer ==
  ASSUME BackoffMatchesFailures, RemovePeer \/ \E t \in Transports : UpgradeTransport(t)
  PROVE  BackoffMatchesFailures'
  <1>1. CASE UNCHANGED peerVars
    BY <1>1 DEF peerVars, throttle, BackoffMatchesFailures
  <1>2. CASE ResetThrottle
    BY <1>2 DEF ResetThrottle, BackoffMatchesFailures
  <1>3. QED
    BY <1>1, <1>2 DEF RemovePeer, UpgradeTransport

LEMMA BackoffStep ==
  ASSUME PowersDouble
  PROVE  TypeOK /\ BackoffMatchesFailures /\ [Next]_vars => BackoffMatchesFailures'
  <1> SUFFICES ASSUME TypeOK, BackoffMatchesFailures, [Next]_vars PROVE BackoffMatchesFailures'
    OBVIOUS
  <1>1. CASE UNCHANGED <<fails, backoff>>
    BY <1>1 DEF BackoffMatchesFailures
  <1>2. ASSUME NEW r \in Receivers, receive(r) PROVE UNCHANGED <<fails, backoff>>
    BY <1>2 DEF receive, GetPeer, Decrypt, TryBeginRehandshake, Reserve, Refused, Launch,
       ReserveRehandshakeAttempt, EndRehandshake, peerVars, throttle
  <1>3. ASSUME NEW a \in Attempts, attempt(a) \/ SendTCP(a) PROVE BackoffMatchesFailures'
    <2>1. CASE Fail(a)
      BY <2>1, BackoffFails DEF Fail
    <2>2. CASE Success(a)
      BY <2>2 DEF Success, RecordRehandshakeSuccess, BackoffMatchesFailures
    <2>3. CASE Fallback(a)
      BY <2>3, BackoffPeer DEF Fallback
    <2>4. CASE Start(a) \/ SendUDP(a) \/ SendTCP(a) \/ End(a)
      <3>1. UNCHANGED <<fails, backoff>>
        BY <2>4 DEF Start, SendUDP, SendTCP, Sent, End, EndRehandshake, peerVars, throttle
      <3>2. QED
        BY <1>1, <3>1
    <2>5. QED
      BY <1>3, <2>1, <2>2, <2>3, <2>4 DEF attempt
  <1>4. ASSUME NEW h \in Handlers, HandshakeSwitch(h) PROVE BackoffMatchesFailures'
    <2>1. hs[h] \in Transports
      BY <1>4 DEF HandshakeSwitch, TypeOK
    <2>2. QED
      BY <1>4, <2>1, BackoffPeer DEF HandshakeSwitch
  <1>5. CASE DropPeer
    BY <1>5, BackoffPeer DEF DropPeer
  <1>6. QED
    BY <1>1, <1>2, <1>3, <1>4, <1>5
       DEF Next, HandshakeDone, StopNode, Tick, vars, peerVars, throttle

(***************************************************************************)
(* The backoff is Base doubled for every failure after the first and       *)
(* capped at MaxBackoff: RecordRehandshakeFailure, RecordRehandshakeSuccess*)
(* and the resets keep it in step with the failure count.                  *)
(***************************************************************************)
THEOREM BackoffDoubles ==
  ASSUME PowersDouble
  PROVE  Spec => []BackoffMatchesFailures
  <1>1. Init => BackoffMatchesFailures
    BY DEF Init, BackoffMatchesFailures
  <1>2. QED
    BY <1>1, BackoffStep, TypeCorrect, PTL DEF Spec
=============================================================================
