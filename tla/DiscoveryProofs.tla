-------------------------- MODULE DiscoveryProofs --------------------------
(***************************************************************************)
(* Discovery's slots, the limit of discoveryConnectSeen, type correctness, *)
(* the channels that never hold a sender up, and connections that are      *)
(* settled once, for any number of calls, readers, keys and any limits.    *)
(***************************************************************************)
EXTENDS Discovery, FiniteSetTheorems, SequenceTheorems, TLAPS

\* The throttle: what SlotsBalanced and SeenBounded need to be inductive.
Throttle ==
    /\ seen \subseteq Keys
    /\ trying \in [Readers -> Keys \cup {None}]
    /\ holds \subseteq Calls
    /\ SlotsBalanced
    /\ SeenBounded

----------------------------------------------------------------------------
\* First-order reasoning suffices for most leaves; those that need records or
\* arithmetic cite SMT.
USE Zenon

\* trimDiscoveryConnectSeenLocked and the prune before it make room for one
\* entry, whatever the map holds.
LEMMA RoomLeavesOne ==
    ASSUME NEW s, s \subseteq Keys, NEW t \in Room(s)
    PROVE  t \subseteq s /\ IsFiniteSet(t) /\ Cardinality(t) <= HardLimit - 1
<1>1. IsFiniteSet(s) /\ Cardinality(s) \in Nat
  BY DiscoveryAssumption, FS_Subset, FS_CardinalityType
<1>2. CASE Cardinality(s) < HardLimit
  <2>1. t = s BY <1>2 DEF Room
  <2> QED BY <1>1, <1>2, <2>1, DiscoveryAssumption, SMT
<1>3. CASE ~(Cardinality(s) < HardLimit)
  <2>1. t \in Trimmed(Pruned(s), HardLimit - 1) BY <1>3 DEF Room
  <2>2. t \subseteq s BY <2>1 DEF Trimmed, Pruned
  <2>3. IsFiniteSet(Pruned(s)) /\ Cardinality(Pruned(s)) \in Nat
    BY <1>1, FS_Subset, FS_CardinalityType DEF Pruned
  <2>4. Cardinality(t) <= HardLimit - 1
    BY <2>1, <2>3, DiscoveryAssumption, SMT DEF Trimmed
  <2> QED BY <1>1, <2>2, <2>4, FS_Subset
<1> QED BY <1>2, <1>3

\* The part of tryBeginDiscoveryConnect under the lock keeps the limit.
LEMMA NoteKeepsLimit ==
    ASSUME Throttle, NEW r \in Readers, NEW key \in Keys, Note(r, key)
    PROVE  seen' \subseteq Keys /\ SeenBounded'
<1> DEFINE s == IF Cardinality(seen) > PruneThreshold THEN Pruned(seen) ELSE seen
<1>1. s \subseteq seen /\ s \subseteq Keys BY DEF Pruned, Throttle
<1>2. IsFiniteSet(seen) BY DiscoveryAssumption, FS_Subset DEF Throttle
<1>3. CASE seen' = s
  <2>1. Cardinality(s) <= Cardinality(seen) /\ Cardinality(s) \in Nat /\ Cardinality(seen) \in Nat
    BY <1>1, <1>2, FS_Subset, FS_CardinalityType
  <2>2. Cardinality(seen) <= HardLimit BY DEF Throttle, SeenBounded
  <2>3. Cardinality(seen') <= HardLimit BY <1>3, <2>1, <2>2, DiscoveryAssumption, SMT
  <2> QED BY <1>1, <1>3, <2>3 DEF SeenBounded
<1>4. CASE \E t \in Room(s) : seen' = t \cup {key}
  <2>1. PICK t \in Room(s) : seen' = t \cup {key} BY <1>4
  <2>2. t \subseteq s /\ IsFiniteSet(t) /\ Cardinality(t) <= HardLimit - 1
    BY <1>1, RoomLeavesOne
  <2>3. Cardinality(t \cup {key}) <= Cardinality(t) + 1 /\ Cardinality(t) \in Nat
        /\ Cardinality(t \cup {key}) \in Nat
    <3>1. Cardinality(t) \in Nat BY <2>2, FS_CardinalityType
    <3>2. Cardinality(t \cup {key}) = IF key \in t THEN Cardinality(t) ELSE Cardinality(t) + 1
      BY <2>2, FS_AddElement
    <3> QED BY <3>1, <3>2, SMT
  <2>4. Cardinality(seen') <= HardLimit BY <2>1, <2>2, <2>3, DiscoveryAssumption, SMT
  <2> QED BY <1>1, <2>1, <2>2, <2>4 DEF SeenBounded
<1> QED BY <1>3, <1>4 DEF Note

----------------------------------------------------------------------------
\* The slots and the map stay within their limits in every step.
LEMMA ThrottleStep == Throttle /\ [Next]_vars => Throttle'
<1> SUFFICES ASSUME Throttle, [Next]_vars PROVE Throttle'
  OBVIOUS
<1>1. ASSUME NEW r \in Readers, NoSlot(r) PROVE Throttle'
  <2>1. seen' \subseteq seen /\ UNCHANGED <<sem, holds>> BY <1>1 DEF NoSlot
  <2>2. SeenBounded'
    <3>1. IsFiniteSet(seen) BY DiscoveryAssumption, FS_Subset DEF Throttle
    <3>2. Cardinality(seen') <= Cardinality(seen) /\ Cardinality(seen') \in Nat
          /\ Cardinality(seen) \in Nat
      BY <2>1, <3>1, FS_Subset, FS_CardinalityType
    <3> QED BY <3>2, DiscoveryAssumption, SMT DEF Throttle, SeenBounded
  <2>3. trying' \in [Readers -> Keys \cup {None}] BY <1>1 DEF NoSlot, Throttle
  <2> QED BY <2>1, <2>2, <2>3 DEF Throttle, SlotsBalanced
<1>2. ASSUME NEW r \in Readers, NEW key \in Keys, Note(r, key) PROVE Throttle'
  <2>1. seen' \subseteq Keys /\ SeenBounded' BY <1>2, NoteKeepsLimit
  <2>2. UNCHANGED <<sem, holds>> BY <1>2 DEF Note
  <2>3. trying' \in [Readers -> Keys \cup {None}] BY <1>2 DEF Note, Throttle
  <2> QED BY <2>1, <2>2, <2>3 DEF Throttle, SlotsBalanced
<1>3. ASSUME NEW r \in Readers, NEW k \in Calls, TakeSlot(r, k) PROVE Throttle'
  <2>1. IsFiniteSet(holds) /\ Cardinality(holds) \in Nat
    BY DiscoveryAssumption, FS_Subset, FS_CardinalityType DEF Throttle
  <2>2. Cardinality(holds \cup {k}) = Cardinality(holds) + 1
    BY <1>3, <2>1, FS_AddElement DEF TakeSlot
  <2>3. SlotsBalanced'
    BY <1>3, <2>1, <2>2, DiscoveryAssumption, SMT DEF TakeSlot, Throttle, SlotsBalanced
  <2>4. trying' \in [Readers -> Keys \cup {None}] BY <1>3 DEF TakeSlot, Throttle
  <2>5. seen' = seen /\ holds' \subseteq Calls BY <1>3 DEF TakeSlot, Throttle
  <2> QED BY <2>3, <2>4, <2>5 DEF Throttle, SeenBounded
<1>4. ASSUME NEW k \in Calls, endDiscoveryConnect(k) PROVE Throttle'
  <2>1. IsFiniteSet(holds) /\ Cardinality(holds) \in Nat
    BY DiscoveryAssumption, FS_Subset, FS_CardinalityType DEF Throttle
  <2>2. Cardinality(holds \ {k}) = Cardinality(holds) - 1
    BY <1>4, <2>1, FS_RemoveElement DEF endDiscoveryConnect
  <2>3. IsFiniteSet(holds \ {k}) /\ Cardinality(holds \ {k}) \in Nat
    BY <2>1, FS_Subset, FS_CardinalityType
  <2>4. SlotsBalanced'
    BY <1>4, <2>1, <2>2, <2>3, DiscoveryAssumption, SMT
       DEF endDiscoveryConnect, Throttle, SlotsBalanced
  <2> QED BY <1>4, <2>4 DEF endDiscoveryConnect, Throttle, SeenBounded
<1>5. ASSUME NEW key \in Keys, Expire(key) PROVE Throttle'
  BY <1>5 DEF Expire, Throttle, SlotsBalanced, SeenBounded
<1>6. CASE UNCHANGED throttle
  BY <1>6 DEF throttle, Throttle, SlotsBalanced, SeenBounded
<1> QED BY <1>1, <1>2, <1>3, <1>4, <1>5, <1>6 DEF Next, vars, AppConnect

\* The throttle of discovery holds throughout.
LEMMA ThrottleHolds == Spec => []Throttle
<1>1. Init => Throttle
  <2> SUFFICES ASSUME Init PROVE Throttle OBVIOUS
  <2>1. Cardinality({}) = 0 BY FS_EmptySet
  <2> QED BY <2>1, DiscoveryAssumption, SMT DEF Init, Throttle, SlotsBalanced, SeenBounded
<1> QED BY <1>1, ThrottleStep, PTL DEF Spec

\* Every slot taken by tryBeginDiscoveryConnect belongs to a connect under way
\* that gives it back (endDiscoveryConnect), and at most ConnectLimit are.
THEOREM SlotsHold == Spec => []SlotsBalanced
<1>1. Throttle => SlotsBalanced BY DEF Throttle
<1> QED BY <1>1, ThrottleHolds, PTL

\* discoveryConnectSeen keeps its hard limit.
THEOREM SeenHolds == Spec => []SeenBounded
<1>1. Throttle => SeenBounded BY DEF Throttle
<1> QED BY <1>1, ThrottleHolds, PTL

----------------------------------------------------------------------------
(* Type correctness.                                                       *)

\* A channel's sequence after a receive and after a send.
LEMMA QueueTypes ==
    ASSUME NEW S, NEW s \in Seq(S)
    PROVE  /\ Len(s) \in Nat
           /\ \A e \in S : Append(s, e) \in Seq(S) /\ Len(Append(s, e)) = Len(s) + 1
           /\ s # <<>> => Head(s) \in S /\ Tail(s) \in Seq(S) /\ Len(Tail(s)) = Len(s) - 1
<1>1. Len(s) \in Nat BY LenProperties
<1>2. \A e \in S : Append(s, e) \in Seq(S) /\ Len(Append(s, e)) = Len(s) + 1
  BY AppendProperties
<1>3. s # <<>> => Head(s) \in S /\ Tail(s) \in Seq(S) /\ Len(Tail(s)) = Len(s) - 1
  BY HeadTailProperties
<1> QED BY <1>1, <1>2, <1>3

\* A step of a call is well typed: startPunchWorkers, the call, its workers
\* and what outlives it.
LEMMA CallTyped ==
    ASSUME ConnectTypeOK, NEW k \in Calls,
           ConnectStep(k) \/ \E o \in Owners : Begin(k, o)
    PROVE  ConnectTypeOK'
<1>1. offered[k] \in Seq(Ways) /\ results[k] \in Seq(Ways \cup {"err", "udp"})
  BY DEF ConnectTypeOK
<1>2. /\ \A w \in Ways : Append(offered[k], w) \in Seq(Ways)
      /\ offered[k] # <<>> => Head(offered[k]) \in Ways /\ Tail(offered[k]) \in Seq(Ways)
  BY <1>1, QueueTypes
<1>3. /\ \A r \in Ways \cup {"err", "udp"} :
            Append(results[k], r) \in Seq(Ways \cup {"err", "udp"})
      /\ results[k] # <<>> => Tail(results[k]) \in Seq(Ways \cup {"err", "udp"})
  BY <1>1, QueueTypes
<1>4. ASSUME NEW r \in Ways \cup {"err", "udp"}, Report(k, r)
      PROVE  results' \in [Calls -> Seq(Ways \cup {"err", "udp"})]
  BY <1>3, <1>4 DEF Report, ConnectTypeOK
<1>5. ASSUME results[k] # <<>>, results' = [results EXCEPT ![k] = Tail(@)]
      PROVE  results' \in [Calls -> Seq(Ways \cup {"err", "udp"})]
  BY <1>3, <1>5 DEF ConnectTypeOK
<1>6. /\ \A w \in Ways : \A v \in {"off", "run", "made", "end"} :
            [attempt EXCEPT ![k][w] = v] \in [Calls -> [Ways -> {"off", "run", "made", "end"}]]
      /\ \A w \in Ways : \A v \in {"none", "made", "used", "closed"} :
            [conn EXCEPT ![k][w] = v] \in [Calls -> [Ways -> {"none", "made", "used", "closed"}]]
  <2>1. /\ attempt \in [Calls -> [Ways -> {"off", "run", "made", "end"}]]
        /\ conn \in [Calls -> [Ways -> {"none", "made", "used", "closed"}]]
    BY DEF ConnectTypeOK
  <2> QED BY <2>1, SMT
<1>7. ASSUME NEW w \in Ways, UseConn(k, w)
      PROVE  conn' \in [Calls -> [Ways -> {"none", "made", "used", "closed"}]]
  <2>1. PICK s \in {"used", "closed"} : conn' = [conn EXCEPT ![k][w] = s] BY <1>7 DEF UseConn
  <2> QED BY <1>6, <2>1
<1>8. ASSUME NEW o \in Owners, Begin(k, o) PROVE ConnectTypeOK'
  <2>1. /\ <<>> \in Seq(Ways) /\ <<>> \in Seq(Ways \cup {"err", "udp"})
    BY SMT
  <2>2. /\ attempt' \in [Calls -> [Ways -> {"off", "run", "made", "end"}]]
        /\ conn' \in [Calls -> [Ways -> {"none", "made", "used", "closed"}]]
    BY <1>8 DEF Begin, ConnectTypeOK
  <2>3. /\ pc' \in [Calls -> {"idle", "start", "await", "returned"}]
        /\ owner' \in [Calls -> Owners]
        /\ ctxDone' \in [Calls -> BOOLEAN] /\ punchDone' \in [Calls -> BOOLEAN]
    BY <1>8 DEF Begin, ConnectTypeOK
  <2>4. /\ offered' \in [Calls -> Seq(Ways)]
        /\ results' \in [Calls -> Seq(Ways \cup {"err", "udp"})]
    BY <1>8, <2>1 DEF Begin, ConnectTypeOK
  <2>5. /\ punch' \in [Calls -> {"off", "wait", "end"}] /\ udp' \in [Calls -> {"off", "run", "end"}]
        /\ fallback' \in [Calls -> {"off", "wait", "relayed", "direct", "cancelled"}]
        /\ late' \in [Calls -> {"off", "wait", "end"}]
    BY <1>8 DEF Begin, ConnectTypeOK
  <2>6. closing' \in BOOLEAN
    BY <1>8 DEF Begin, ConnectTypeOK
  <2> QED BY <2>2, <2>3, <2>4, <2>5, <2>6 DEF ConnectTypeOK
<1>9. CASE registerPendingHandshakes(k) \/ Cancel(k) \/ CancelOnClosing(k)
  <2>1. CASE registerPendingHandshakes(k)
    BY <2>1 DEF registerPendingHandshakes, workers, ConnectTypeOK
  <2>2. CASE Cancel(k)
    BY <2>2 DEF Cancel, workers, ConnectTypeOK
  <2>3. CASE CancelOnClosing(k)
    BY <2>3 DEF CancelOnClosing, workers, ConnectTypeOK
  <2> QED BY <1>9, <2>1, <2>2, <2>3
<1>10. CASE awaitConnectResult(k)
  <2>1. UNCHANGED <<owner, ctxDone, attempt, offered, punch, udp, closing>>
    BY <1>10 DEF awaitConnectResult
  <2>2. /\ pc' \in [Calls -> {"idle", "start", "await", "returned"}]
        /\ punchDone' \in [Calls -> BOOLEAN]
    <3>1. Return(k) \/ UNCHANGED <<pc, punchDone>> BY <1>10 DEF awaitConnectResult
    <3> QED BY <3>1 DEF Return, ConnectTypeOK
  <2>3. results' \in [Calls -> Seq(Ways \cup {"err", "udp"})]
    <3>1. UNCHANGED results \/ (results[k] # <<>> /\ results' = [results EXCEPT ![k] = Tail(@)])
      BY <1>10 DEF awaitConnectResult
    <3> QED BY <1>5, <3>1 DEF ConnectTypeOK
  <2>4. conn' \in [Calls -> [Ways -> {"none", "made", "used", "closed"}]]
    <3>1. UNCHANGED conn \/ \E w \in Ways : UseConn(k, w) BY <1>10 DEF awaitConnectResult
    <3> QED BY <1>7, <3>1 DEF ConnectTypeOK
  <2>5. late' \in [Calls -> {"off", "wait", "end"}]
    <3>1. UNCHANGED late \/ UdpResult(k) BY <1>10 DEF awaitConnectResult
    <3> QED BY <3>1 DEF UdpResult, ConnectTypeOK
  <2>6. fallback' \in [Calls -> {"off", "wait", "relayed", "direct", "cancelled"}]
    <3>1. UNCHANGED fallback \/ UdpResult(k) \/ fallback' = [fallback EXCEPT ![k] = "relayed"]
      BY <1>10 DEF awaitConnectResult
    <3> QED BY <3>1 DEF UdpResult, ConnectTypeOK
  <2> QED BY <2>1, <2>2, <2>3, <2>4, <2>5, <2>6 DEF ConnectTypeOK
<1>11. ASSUME NEW w \in Ways, Connected(k, w) PROVE ConnectTypeOK'
  <2>1. /\ attempt' \in [Calls -> [Ways -> {"off", "run", "made", "end"}]]
        /\ conn' \in [Calls -> [Ways -> {"none", "made", "used", "closed"}]]
    BY <1>11, <1>6 DEF Connected, ConnectTypeOK
  <2> QED BY <1>11, <2>1 DEF Connected, ConnectTypeOK
<1>12. ASSUME NEW w \in Ways, EndAttempt(k, w) PROVE ConnectTypeOK'
  <2>1. attempt' \in [Calls -> [Ways -> {"off", "run", "made", "end"}]]
    BY <1>12, <1>6 DEF EndAttempt, ConnectTypeOK
  <2>2. conn' \in [Calls -> [Ways -> {"none", "made", "used", "closed"}]]
    <3>1. UNCHANGED conn \/ conn' = [conn EXCEPT ![k][w] = "closed"] BY <1>12 DEF EndAttempt
    <3>2. [conn EXCEPT ![k][w] = "closed"] \in [Calls -> [Ways -> {"none", "made", "used", "closed"}]]
      BY <1>6
    <3> QED BY <3>1, <3>2 DEF ConnectTypeOK
  <2>3. offered' \in [Calls -> Seq(Ways)]
    <3>1. UNCHANGED offered \/ offered' = [offered EXCEPT ![k] = Append(offered[k], w)]
      BY <1>12 DEF EndAttempt
    <3>2. offered \in [Calls -> Seq(Ways)] BY DEF ConnectTypeOK
    <3> QED BY <1>2, <3>1, <3>2
  <2> QED BY <1>12, <2>1, <2>2, <2>3 DEF EndAttempt, ConnectTypeOK
<1>13. CASE EndPunch(k)
  <2>1. /\ UNCHANGED offered \/ (offered[k] # <<>> /\ offered' = [offered EXCEPT ![k] = Tail(@)])
        /\ punch' = [punch EXCEPT ![k] = "end"]
    BY <1>13 DEF EndPunch
  <2>2. offered' \in [Calls -> Seq(Ways)]
    <3>1. offered \in [Calls -> Seq(Ways)] BY DEF ConnectTypeOK
    <3> QED BY <1>2, <2>1, <3>1
  <2>3. punch' \in [Calls -> {"off", "wait", "end"}]
    <3>1. punch \in [Calls -> {"off", "wait", "end"}] BY DEF ConnectTypeOK
    <3> QED BY <2>1, <3>1
  <2>4. \E r \in Ways \cup {"err", "udp"} : Report(k, r) BY <1>2, <1>13 DEF EndPunch
  <2>5. results' \in [Calls -> Seq(Ways \cup {"err", "udp"})] BY <1>4, <2>4
  <2> QED BY <1>13, <2>2, <2>3, <2>5 DEF EndPunch, ConnectTypeOK
<1>14. CASE EndUdp(k)
  <2>1. results' \in [Calls -> Seq(Ways \cup {"err", "udp"})]
    BY <1>4, <1>14 DEF EndUdp, ConnectTypeOK
  <2>2. udp' \in [Calls -> {"off", "run", "end"}]
    BY <1>14 DEF EndUdp, ConnectTypeOK
  <2> QED BY <1>14, <2>1, <2>2 DEF EndUdp, ConnectTypeOK
<1>15. CASE EndFallback(k)
  <2>1. fallback' \in [Calls -> {"off", "wait", "relayed", "direct", "cancelled"}]
    <3>1. fallback \in [Calls -> {"off", "wait", "relayed", "direct", "cancelled"}]
      BY DEF ConnectTypeOK
    <3>2. PICK f \in {"relayed", "direct", "cancelled"} : fallback' = [fallback EXCEPT ![k] = f]
      BY <1>15 DEF EndFallback
    <3> QED BY <3>1, <3>2
  <2> QED BY <1>15, <2>1 DEF EndFallback, ConnectTypeOK
<1>16. CASE awaitLateTCPUpgrade(k)
  <2>1. late' \in [Calls -> {"off", "wait", "end"}]
    BY <1>16 DEF awaitLateTCPUpgrade, ConnectTypeOK
  <2>2. results' \in [Calls -> Seq(Ways \cup {"err", "udp"})]
    BY <1>5, <1>16 DEF awaitLateTCPUpgrade, ConnectTypeOK
  <2>3. conn' \in [Calls -> [Ways -> {"none", "made", "used", "closed"}]]
    <3>1. UNCHANGED conn \/ \E w \in Ways : UseConn(k, w) BY <1>16 DEF awaitLateTCPUpgrade
    <3> QED BY <1>7, <3>1 DEF ConnectTypeOK
  <2> QED BY <1>16, <2>1, <2>2, <2>3 DEF awaitLateTCPUpgrade, ConnectTypeOK
<1> QED BY <1>8, <1>9, <1>10, <1>11, <1>12, <1>13, <1>14, <1>15, <1>16
        DEF ConnectStep, WorkerStep

\* The keys whose cooldown is over are keys of the map, whatever is pruned,
\* trimmed or taken back.
LEMMA ExpiredStep ==
    ASSUME Throttle, expired \subseteq seen, [Next]_vars
    PROVE  expired' \subseteq seen'
<1>1. ASSUME NEW r \in Readers, NEW key \in Keys, Note(r, key) PROVE expired' \subseteq seen'
  BY <1>1 DEF Note
<1>2. ASSUME NEW r \in Readers, NoSlot(r) PROVE expired' \subseteq seen'
  BY <1>2 DEF NoSlot
<1>3. ASSUME NEW key \in Keys, Expire(key) PROVE expired' \subseteq seen'
  BY <1>3 DEF Expire
<1>4. CASE UNCHANGED <<seen, expired>>
  BY <1>4
<1> QED BY <1>1, <1>2, <1>3, <1>4
        DEF Next, TakeSlot, AppConnect, endDiscoveryConnect, vars, throttle

\* ConnectTypeOK is preserved by every step.
LEMMA ConnectTypeStep == ConnectTypeOK /\ [Next]_vars => ConnectTypeOK'
<1> SUFFICES ASSUME ConnectTypeOK, [Next]_vars PROVE ConnectTypeOK'
  OBVIOUS
<1>1. CASE UNCHANGED connectVars
  BY <1>1 DEF connectVars, callState, workers, ConnectTypeOK
<1>2. CASE Close
  BY <1>2 DEF Close, callState, workers, ConnectTypeOK
<1>3. "app" \in Owners /\ "discovery" \in Owners
  BY DEF Owners
<1> QED BY <1>1, <1>2, <1>3, CallTyped
        DEF Next, Note, NoSlot, TakeSlot, AppConnect, endDiscoveryConnect, Expire, vars

\* The state of discovery and of the calls is well typed; an entry of
\* discoveryConnectSeen that goes takes the end of its cooldown with it.
THEOREM TypeHolds == Spec => []TypeOK
<1> DEFINE Inv == ConnectTypeOK /\ expired \subseteq seen
<1>1. Init => Inv
  <2> SUFFICES ASSUME Init PROVE Inv OBVIOUS
  <2>1. <<>> \in Seq(Ways) /\ <<>> \in Seq(Ways \cup {"err", "udp"}) BY SMT
  <2>2. "app" \in Owners BY DEF Owners
  <2> QED BY <2>1, <2>2 DEF Init, ConnectInit, ConnectTypeOK
<1>2. Throttle /\ Inv /\ [Next]_vars => Inv' BY ConnectTypeStep, ExpiredStep
<1>3. Throttle /\ Inv => TypeOK
  <2> SUFFICES ASSUME Throttle, Inv PROVE TypeOK OBVIOUS
  <2>1. sem \in Nat
    <3>1. IsFiniteSet(holds) BY DiscoveryAssumption, FS_Subset DEF Throttle
    <3> QED BY <3>1, FS_CardinalityType DEF Throttle, SlotsBalanced
  <2> QED BY <2>1 DEF Throttle, TypeOK
<1> HIDE DEF Inv
<1> QED BY <1>1, <1>2, <1>3, ThrottleHolds, PTL DEF Spec

----------------------------------------------------------------------------
(* The channels of a call have room for everyone who still sends to them.  *)

\* A goroutine of Punch that may still send.
Sends(k, w) == attempt[k][w] \in {"run", "made"}

\* What is in a channel leaves room for all who have not sent yet: resultCh of
\* Connect and resultChan of Punch.
RoomToReport(k) ==
    /\ Len(results[k]) <= ResultCap
    /\ punch[k] = "wait" \/ udp[k] = "run" => Len(results[k]) + 1 <= ResultCap
    /\ punch[k] = "wait" /\ udp[k] = "run" => Len(results[k]) + 2 <= ResultCap

RoomToOffer(k) ==
    /\ Len(offered[k]) <= PunchCap
    /\ Sends(k, "dial") \/ Sends(k, "listen") => Len(offered[k]) + 1 <= PunchCap
    /\ Sends(k, "dial") /\ Sends(k, "listen") => Len(offered[k]) + 2 <= PunchCap

\* startPunchWorkers: new channels, everyone runs, the other calls are left alone.
LEMMA BeginsFresh ==
    ASSUME ConnectTypeOK, NEW k \in Calls, NEW o, Begin(k, o)
    PROVE  /\ results'[k] = <<>> /\ offered'[k] = <<>>
           /\ \A w \in Ways : attempt'[k][w] = "run" /\ conn'[k][w] = "none"
           /\ \A j \in Calls \ {k} :
                 /\ results'[j] = results[j] /\ offered'[j] = offered[j] /\ punch'[j] = punch[j]
                 /\ udp'[j] = udp[j] /\ attempt'[j] = attempt[j] /\ conn'[j] = conn[j]
<1>1. /\ DOMAIN results = Calls /\ DOMAIN offered = Calls /\ DOMAIN punch = Calls
      /\ DOMAIN udp = Calls /\ DOMAIN attempt = Calls /\ DOMAIN conn = Calls
  BY DEF ConnectTypeOK
<1>2. results'[k] = <<>> /\ \A j \in Calls \ {k} : results'[j] = results[j]
  <2>1. results' = [results EXCEPT ![k] = <<>>] BY DEF Begin
  <2> QED BY <1>1, <2>1
<1>3. offered'[k] = <<>> /\ \A j \in Calls \ {k} : offered'[j] = offered[j]
  <2>1. offered' = [offered EXCEPT ![k] = <<>>] BY DEF Begin
  <2> QED BY <1>1, <2>1
<1>4. \A j \in Calls \ {k} : punch'[j] = punch[j] /\ udp'[j] = udp[j]
  <2>1. punch' = [punch EXCEPT ![k] = "wait"] /\ udp' = [udp EXCEPT ![k] = "run"] BY DEF Begin
  <2> QED BY <1>1, <2>1
<1>5. /\ \A w \in Ways : attempt'[k][w] = "run"
      /\ \A j \in Calls \ {k} : attempt'[j] = attempt[j]
  <2>1. attempt' = [attempt EXCEPT ![k] = [w \in Ways |-> "run"]] BY DEF Begin
  <2> QED BY <1>1, <2>1
<1>6. /\ \A w \in Ways : conn'[k][w] = "none"
      /\ \A j \in Calls \ {k} : conn'[j] = conn[j]
  <2>1. conn' = [conn EXCEPT ![k] = [w \in Ways |-> "none"]] BY DEF Begin
  <2> QED BY <1>1, <2>1
<1> QED BY <1>2, <1>3, <1>4, <1>5, <1>6

\* The calls other than the one that moves are left alone.
LEMMA OthersKept ==
    ASSUME ConnectTypeOK, NEW k \in Calls, ConnectStep(k) \/ \E o \in Owners : Begin(k, o),
           NEW j \in Calls, j # k
    PROVE  /\ results'[j] = results[j] /\ offered'[j] = offered[j] /\ punch'[j] = punch[j]
           /\ udp'[j] = udp[j] /\ attempt'[j] = attempt[j] /\ conn'[j] = conn[j]
<1>0. /\ DOMAIN results = Calls /\ DOMAIN offered = Calls /\ DOMAIN punch = Calls
      /\ DOMAIN udp = Calls /\ DOMAIN attempt = Calls /\ DOMAIN conn = Calls
  BY DEF ConnectTypeOK
<1>1. ASSUME NEW o \in Owners, Begin(k, o)
      PROVE  /\ results'[j] = results[j] /\ offered'[j] = offered[j] /\ punch'[j] = punch[j]
             /\ udp'[j] = udp[j] /\ attempt'[j] = attempt[j] /\ conn'[j] = conn[j]
  BY <1>1, BeginsFresh
<1>2. ASSUME NEW w \in Ways, UseConn(k, w) PROVE conn'[j] = conn[j]
  BY <1>0, <1>2, SMT DEF UseConn
<1>3. CASE awaitConnectResult(k) \/ awaitLateTCPUpgrade(k)
  <2>1. UNCHANGED <<attempt, offered, punch, udp>>
    BY <1>3 DEF awaitConnectResult, awaitLateTCPUpgrade
  <2>2. UNCHANGED results \/ results' = [results EXCEPT ![k] = Tail(@)]
    BY <1>3 DEF awaitConnectResult, awaitLateTCPUpgrade
  <2>3. UNCHANGED conn \/ \E w \in Ways : UseConn(k, w)
    BY <1>3 DEF awaitConnectResult, awaitLateTCPUpgrade
  <2> QED BY <1>0, <1>2, <2>1, <2>2, <2>3
<1>4. ASSUME NEW w \in Ways, Connected(k, w) \/ EndAttempt(k, w)
      PROVE  /\ results'[j] = results[j] /\ offered'[j] = offered[j] /\ punch'[j] = punch[j]
             /\ udp'[j] = udp[j] /\ attempt'[j] = attempt[j] /\ conn'[j] = conn[j]
  <2>1. /\ UNCHANGED offered \/ offered' = [offered EXCEPT ![k] = Append(@, w)]
        /\ UNCHANGED <<results, punch, udp>>
    BY <1>4 DEF Connected, EndAttempt
  <2>2. \E v : attempt' = [attempt EXCEPT ![k][w] = v]
    BY <1>4 DEF Connected, EndAttempt
  <2>3. UNCHANGED conn \/ \E v : conn' = [conn EXCEPT ![k][w] = v]
    BY <1>4 DEF Connected, EndAttempt
  <2>4. attempt'[j] = attempt[j]
    BY <1>0, <2>2, SMT
  <2>5. conn'[j] = conn[j]
    BY <1>0, <2>3, SMT
  <2> QED BY <1>0, <2>1, <2>4, <2>5
<1>5. CASE EndPunch(k) \/ EndUdp(k)
  <2>1. UNCHANGED results \/ \E r : Report(k, r) BY <1>5 DEF EndPunch, EndUdp
  <2>2. results'[j] = results[j] BY <1>0, <2>1 DEF Report
  <2> QED BY <1>0, <1>5, <2>2 DEF EndPunch, EndUdp
<1>6. CASE registerPendingHandshakes(k) \/ EndFallback(k) \/ Cancel(k) \/ CancelOnClosing(k)
  BY <1>6 DEF registerPendingHandshakes, EndFallback, Cancel, CancelOnClosing, workers
<1> QED BY <1>1, <1>3, <1>4, <1>5, <1>6 DEF ConnectStep, WorkerStep

\* Every step of a call leaves room in resultCh for the workers that still
\* report.
LEMMA ReportStep ==
    ASSUME ConnectTypeOK, NEW k \in Calls, RoomToReport(k),
           ConnectStep(k) \/ \E o \in Owners : Begin(k, o)
    PROVE  RoomToReport(k)'
<1>1. results[k] \in Seq(Ways \cup {"err", "udp"}) /\ offered[k] \in Seq(Ways)
  BY DEF ConnectTypeOK
<1>2. /\ Len(results[k]) \in Nat
      /\ results[k] # <<>> => Len(Tail(results[k])) = Len(results[k]) - 1
  BY <1>1, QueueTypes
<1>3. ASSUME NEW r \in Ways \cup {"err", "udp"}, Report(k, r)
      PROVE  Len(results'[k]) = Len(results[k]) + 1
  <2>1. results'[k] = Append(results[k], r) BY <1>3 DEF Report, ConnectTypeOK
  <2>2. Len(Append(results[k], r)) = Len(results[k]) + 1 BY <1>1, SMT
  <2> QED BY <2>1, <2>2
<1>4. /\ Len(results[k]) <= 2
      /\ punch[k] = "wait" \/ udp[k] = "run" => Len(results[k]) + 1 <= 2
      /\ punch[k] = "wait" /\ udp[k] = "run" => Len(results[k]) + 2 <= 2
  BY DEF RoomToReport, ResultCap
<1>5. SUFFICES /\ Len(results'[k]) <= 2
               /\ punch'[k] = "wait" \/ udp'[k] = "run" => Len(results'[k]) + 1 <= 2
               /\ punch'[k] = "wait" /\ udp'[k] = "run" => Len(results'[k]) + 2 <= 2
  BY DEF RoomToReport, ResultCap
<1>6. CASE UNCHANGED <<results, punch, udp>>
  BY <1>4, <1>6
<1>7. CASE awaitConnectResult(k) \/ awaitLateTCPUpgrade(k)
  <2>1. UNCHANGED <<punch, udp>>
    BY <1>7 DEF awaitConnectResult, awaitLateTCPUpgrade
  <2>2. UNCHANGED results \/ (results[k] # <<>> /\ results'[k] = Tail(results[k]))
    BY <1>7 DEF awaitConnectResult, awaitLateTCPUpgrade, ConnectTypeOK
  <2>3. CASE Len(results'[k]) = Len(results[k]) - 1
    BY <1>2, <1>4, <2>1, <2>3, SMT
  <2> QED BY <1>2, <1>6, <2>1, <2>2, <2>3
<1>8. ASSUME NEW o \in Owners, Begin(k, o)
      PROVE  Len(results'[k]) <= 2 /\ Len(results'[k]) + 1 <= 2 /\ Len(results'[k]) + 2 <= 2
  <2>1. results'[k] = <<>> BY <1>8, BeginsFresh
  <2>2. Len(<<>>) = 0 BY SMT
  <2> QED BY <2>1, <2>2, SMT
<1>9. CASE EndPunch(k)
  <2>1. \E r \in Ways \cup {"err", "udp"} : Report(k, r)
    <3>1. offered[k] # <<>> => Head(offered[k]) \in Ways BY <1>1, QueueTypes
    <3> QED BY <1>9, <3>1 DEF EndPunch
  <2>2. punch[k] = "wait" /\ punch'[k] = "end" /\ UNCHANGED udp
    BY <1>9 DEF EndPunch, ConnectTypeOK
  <2>3. Len(results'[k]) = Len(results[k]) + 1 BY <1>3, <2>1
  <2> QED BY <1>2, <1>4, <2>2, <2>3, SMT
<1>10. CASE EndUdp(k)
  <2>1. UNCHANGED results \/ Report(k, "udp") BY <1>10 DEF EndUdp
  <2>2. udp[k] = "run" /\ udp'[k] = "end" /\ UNCHANGED punch
    BY <1>10 DEF EndUdp, ConnectTypeOK
  <2>3. results'[k] = results[k] \/ Len(results'[k]) = Len(results[k]) + 1 BY <1>3, <2>1
  <2> QED BY <1>2, <1>4, <2>2, <2>3, SMT
<1>11. ASSUME NEW w \in Ways, Connected(k, w) \/ EndAttempt(k, w)
       PROVE  UNCHANGED <<results, punch, udp>>
  BY <1>11 DEF Connected, EndAttempt
<1>12. registerPendingHandshakes(k) \/ EndFallback(k) \/ Cancel(k) \/ CancelOnClosing(k)
          => UNCHANGED <<results, punch, udp>>
  BY DEF registerPendingHandshakes, EndFallback, Cancel, CancelOnClosing, workers
<1> QED BY <1>6, <1>7, <1>8, <1>9, <1>10, <1>11, <1>12 DEF ConnectStep, WorkerStep

\* A goroutine of Punch that moves on leaves the other one where it is.
LEMMA AttemptMoves ==
    ASSUME ConnectTypeOK, NEW k \in Calls, NEW w \in Ways, NEW v,
           attempt' = [attempt EXCEPT ![k][w] = v]
    PROVE  attempt'[k][w] = v /\ \A x \in Ways \ {w} : attempt'[k][x] = attempt[k][x]
<1>1. attempt \in [Calls -> [Ways -> {"off", "run", "made", "end"}]] BY DEF ConnectTypeOK
<1> QED BY <1>1, SMT

\* Every step of a call leaves room in resultChan for the goroutines of Punch
\* that still offer a connection.
LEMMA OfferStep ==
    ASSUME ConnectTypeOK, NEW k \in Calls, RoomToOffer(k),
           ConnectStep(k) \/ \E o \in Owners : Begin(k, o)
    PROVE  RoomToOffer(k)'
<1>1. offered[k] \in Seq(Ways)
  BY DEF ConnectTypeOK
<1>2. /\ Len(offered[k]) \in Nat
      /\ offered[k] # <<>> => Len(Tail(offered[k])) = Len(offered[k]) - 1
  BY <1>1, QueueTypes
<1>3. \A w \in Ways : Len(Append(offered[k], w)) = Len(offered[k]) + 1
  BY <1>1, QueueTypes
<1>4. /\ Len(offered[k]) <= 2
      /\ Sends(k, "dial") \/ Sends(k, "listen") => Len(offered[k]) + 1 <= 2
      /\ Sends(k, "dial") /\ Sends(k, "listen") => Len(offered[k]) + 2 <= 2
  BY DEF RoomToOffer, PunchCap
<1>5. SUFFICES /\ Len(offered'[k]) <= 2
               /\ Sends(k, "dial")' \/ Sends(k, "listen")' => Len(offered'[k]) + 1 <= 2
               /\ Sends(k, "dial")' /\ Sends(k, "listen")' => Len(offered'[k]) + 2 <= 2
  BY DEF RoomToOffer, PunchCap
<1>6. CASE UNCHANGED <<offered, attempt>>
  BY <1>4, <1>6 DEF Sends
<1>7. ASSUME NEW o \in Owners, Begin(k, o)
      PROVE  Len(offered'[k]) <= 2 /\ Len(offered'[k]) + 1 <= 2 /\ Len(offered'[k]) + 2 <= 2
  <2>1. offered'[k] = <<>> BY <1>7, BeginsFresh
  <2>2. Len(<<>>) = 0 BY SMT
  <2> QED BY <2>1, <2>2, SMT
<1>8. CASE EndPunch(k)
  <2>1. (Sends(k, "dial")' <=> Sends(k, "dial")) /\ (Sends(k, "listen")' <=> Sends(k, "listen"))
    BY <1>8 DEF EndPunch, Sends
  <2>2. offered'[k] = offered[k] \/ (offered[k] # <<>> /\ offered'[k] = Tail(offered[k]))
    BY <1>8 DEF EndPunch, ConnectTypeOK
  <2>3. offered'[k] = offered[k] \/ Len(offered'[k]) = Len(offered[k]) - 1
    BY <1>2, <2>2
  <2>4. CASE Len(offered'[k]) = Len(offered[k]) - 1
    <3>1. Len(offered[k]) \in Nat BY <1>2
    <3> QED BY <1>4, <2>1, <2>4, <3>1, SMT
  <2> QED BY <1>4, <2>1, <2>3, <2>4
<1>9. ASSUME NEW w \in Ways, Connected(k, w)
      PROVE  /\ UNCHANGED offered
             /\ (Sends(k, "dial")' <=> Sends(k, "dial")) /\ (Sends(k, "listen")' <=> Sends(k, "listen"))
  <2>1. attempt'[k][w] = "made" /\ \A x \in Ways \ {w} : attempt'[k][x] = attempt[k][x]
    BY <1>9, AttemptMoves DEF Connected
  <2>2. UNCHANGED offered /\ attempt[k][w] = "run"
    BY <1>9 DEF Connected
  <2> QED BY <2>1, <2>2 DEF Sends, Ways
<1>10. ASSUME NEW w \in Ways, EndAttempt(k, w)
       PROVE  /\ Len(offered'[k]) <= 2
              /\ Sends(k, "dial")' \/ Sends(k, "listen")' => Len(offered'[k]) + 1 <= 2
              /\ Sends(k, "dial")' /\ Sends(k, "listen")' => Len(offered'[k]) + 2 <= 2
  <2>1. attempt'[k][w] = "end" /\ \A x \in Ways \ {w} : attempt'[k][x] = attempt[k][x]
    BY <1>10, AttemptMoves DEF EndAttempt
  <2>2. Sends(k, w) /\ ~Sends(k, w)'
    BY <1>10, <2>1 DEF EndAttempt, Sends
  <2>3. \A x \in Ways \ {w} : Sends(k, x)' <=> Sends(k, x)
    BY <2>1 DEF Sends
  <2>4. offered'[k] = offered[k] \/ offered'[k] = Append(offered[k], w)
    BY <1>10 DEF EndAttempt, ConnectTypeOK
  <2>5. Len(offered'[k]) = Len(offered[k]) \/ Len(offered'[k]) = Len(offered[k]) + 1
    BY <1>3, <2>4
  <2>6. /\ Len(offered[k]) + 1 <= 2
        /\ ~(Sends(k, "dial")' /\ Sends(k, "listen")')
        /\ Sends(k, "dial")' \/ Sends(k, "listen")' => Len(offered[k]) + 2 <= 2
    BY <1>4, <2>2, <2>3 DEF Ways
  <2>7. Len(offered[k]) \in Nat BY <1>2
  <2> QED BY <2>5, <2>6, <2>7, SMT
<1>11. awaitConnectResult(k) \/ awaitLateTCPUpgrade(k) \/ EndUdp(k) => UNCHANGED <<offered, attempt>>
  BY DEF awaitConnectResult, awaitLateTCPUpgrade, EndUdp
<1>12. registerPendingHandshakes(k) \/ EndFallback(k) \/ Cancel(k) \/ CancelOnClosing(k)
          => UNCHANGED <<offered, attempt>>
  BY DEF registerPendingHandshakes, EndFallback, Cancel, CancelOnClosing, workers
<1> QED BY <1>4, <1>6, <1>7, <1>8, <1>9, <1>10, <1>11, <1>12 DEF ConnectStep, WorkerStep

\* No goroutine that reports to Connect or offers a connection to Punch finds
\* the channel full, whoever has stopped reading.
THEOREM ChannelsHaveRoom == Spec => []SendsNeverBlock
<1> DEFINE Inv == \A k \in Calls : RoomToReport(k) /\ RoomToOffer(k)
<1>1. Init => Inv
  <2> SUFFICES ASSUME Init, NEW k \in Calls PROVE RoomToReport(k) /\ RoomToOffer(k) OBVIOUS
  <2>1. results[k] = <<>> /\ offered[k] = <<>> BY DEF Init, ConnectInit
  <2>2. Len(<<>>) <= 2 /\ Len(<<>>) + 1 <= 2 /\ Len(<<>>) + 2 <= 2 BY SMT
  <2> QED BY <2>1, <2>2 DEF RoomToReport, RoomToOffer, ResultCap, PunchCap
<1>2. TypeOK /\ Inv /\ [Next]_vars => Inv'
  <2> SUFFICES ASSUME TypeOK, Inv, [Next]_vars, NEW j \in Calls
               PROVE  RoomToReport(j)' /\ RoomToOffer(j)'
    OBVIOUS
  <2>1. ConnectTypeOK BY DEF TypeOK
  <2>2. CASE UNCHANGED connectVars \/ Close
    BY <2>2 DEF Close, connectVars, callState, workers, RoomToReport, RoomToOffer, Sends
  <2>3. ASSUME NEW k \in Calls, ConnectStep(k) \/ \E o \in Owners : Begin(k, o)
        PROVE  RoomToReport(j)' /\ RoomToOffer(j)'
    <3>1. CASE j = k BY <2>1, <2>3, <3>1, ReportStep, OfferStep
    <3>2. CASE j # k
      <4>1. /\ results'[j] = results[j] /\ offered'[j] = offered[j] /\ punch'[j] = punch[j]
            /\ udp'[j] = udp[j] /\ attempt'[j] = attempt[j]
        BY <2>1, <2>3, <3>2, OthersKept
      <4> QED BY <4>1 DEF RoomToReport, RoomToOffer, Sends
    <3> QED BY <3>1, <3>2
  <2>4. "app" \in Owners /\ "discovery" \in Owners BY DEF Owners
  <2> QED BY <2>2, <2>3, <2>4
          DEF Next, Note, NoSlot, TakeSlot, AppConnect, endDiscoveryConnect, Expire, vars
<1>3. TypeOK /\ Inv => SendsNeverBlock
  <2> SUFFICES ASSUME TypeOK, Inv, NEW k \in Calls
               PROVE  /\ punch[k] = "wait" \/ udp[k] = "run" => Len(results[k]) < ResultCap
                      /\ \A w \in Ways : attempt[k][w] = "made" => Len(offered[k]) < PunchCap
    BY DEF SendsNeverBlock
  <2>1. Len(results[k]) \in Nat /\ Len(offered[k]) \in Nat
    BY QueueTypes DEF TypeOK, ConnectTypeOK
  <2>2. /\ Len(results[k]) + 1 <= 2 => Len(results[k]) < 2
        /\ Len(offered[k]) + 1 <= 2 => Len(offered[k]) < 2
    BY <2>1, SMT
  <2> QED BY <2>2 DEF RoomToReport, RoomToOffer, ResultCap, PunchCap, Sends, Ways
<1> HIDE DEF Inv
<1> QED BY <1>1, <1>2, <1>3, TypeHolds, PTL DEF Spec

----------------------------------------------------------------------------
(* A connection has one owner at a time.                                   *)

In(x, s) == \E i \in 1..Len(s) : s[i] = x
Once(x, s) == \A i, j \in 1..Len(s) : s[i] = x /\ s[j] = x => i = j

\* A connection that is in no channel yet is made by its goroutine; one in a
\* channel is in one place only and is neither used nor closed.
HandedOn(k, w) ==
    /\ attempt[k][w] \in {"off", "run"} => conn[k][w] = "none"
    /\ attempt[k][w] = "made" => conn[k][w] = "made"
    /\ In(w, offered[k]) \/ In(w, results[k]) => attempt[k][w] = "end" /\ conn[k][w] = "made"
    /\ ~(In(w, offered[k]) /\ In(w, results[k]))
    /\ Once(w, offered[k]) /\ Once(w, results[k])

\* After a send to a channel.
LEMMA InAppend ==
    ASSUME NEW S, NEW s \in Seq(S), NEW e \in S, NEW x
    PROVE  /\ In(x, Append(s, e)) <=> In(x, s) \/ x = e
           /\ Once(x, s) /\ (x = e => ~In(x, s)) => Once(x, Append(s, e))
<1>1. /\ Len(s) \in Nat /\ Len(Append(s, e)) = Len(s) + 1
      /\ \A i \in 1..Len(s) : Append(s, e)[i] = s[i]
      /\ Append(s, e)[Len(s) + 1] = e
  BY SMT
<1>2. PICK n \in Nat : n = Len(s)
  BY <1>1
<1>3. PICK t : t = Append(s, e)
  OBVIOUS
<1>4. /\ Len(t) = n + 1 /\ t[n + 1] = e /\ \A i \in 1..n : t[i] = s[i]
  BY <1>1, <1>2, <1>3
<1>5. /\ \A i : i \in 1..(n + 1) <=> i \in 1..n \/ i = n + 1
      /\ n + 1 \notin 1..n
  BY SMT
<1>6. In(x, t) <=> In(x, s) \/ x = e
  BY <1>2, <1>3, <1>4, <1>5 DEF In
<1>7. ASSUME Once(x, s), x = e => ~In(x, s) PROVE Once(x, t)
  <2> SUFFICES ASSUME NEW i \in 1..(n + 1), NEW j \in 1..(n + 1), t[i] = x, t[j] = x PROVE i = j
    BY <1>4 DEF Once
  <2>1. CASE i \in 1..n /\ j \in 1..n
    BY <1>2, <1>3, <1>4, <1>7, <2>1 DEF Once
  <2>2. CASE i = n + 1 \/ j = n + 1
    BY <1>2, <1>3, <1>4, <1>5, <1>7, <2>2 DEF In
  <2> QED BY <1>5, <2>1, <2>2
<1> QED BY <1>2, <1>3, <1>6, <1>7

\* After a receive from a channel.
LEMMA InTail ==
    ASSUME NEW S, NEW s \in Seq(S), s # <<>>, NEW x
    PROVE  /\ In(Head(s), s)
           /\ In(x, Tail(s)) => In(x, s)
           /\ Once(x, s) => Once(x, Tail(s)) /\ (x = Head(s) => ~In(x, Tail(s)))
<1>1. /\ Len(s) \in Nat /\ Len(s) # 0 /\ Len(Tail(s)) = Len(s) - 1 /\ Head(s) = s[1]
      /\ \A i \in 1..Len(Tail(s)) : Tail(s)[i] = s[i + 1]
  <2>1. Len(s) \in Nat /\ Len(s) # 0 BY EmptySeq, LenProperties
  <2> QED BY <2>1, HeadTailProperties, SMT
<1>2. PICK n \in Nat : n = Len(s) - 1
  <2>1. Len(s) \in Nat /\ Len(s) # 0 BY <1>1
  <2>2. Len(s) - 1 \in Nat BY <2>1, SMT
  <2> QED BY <2>2
<1>3. PICK t : t = Tail(s)
  OBVIOUS
<1>4. /\ Len(t) = n /\ Len(s) = n + 1 /\ Head(s) = s[1] /\ \A i \in 1..n : t[i] = s[i + 1]
  <2>1. Len(s) = n + 1 BY <1>1, <1>2, <1>3, SMT
  <2> QED BY <1>1, <1>2, <1>3, <2>1
<1>5. /\ 1 \in 1..(n + 1)
      /\ \A i \in 1..n : i + 1 \in 1..(n + 1) /\ i + 1 # 1
      /\ \A i, j \in 1..n : i + 1 = j + 1 => i = j
  BY SMT
<1>6. In(Head(s), s) /\ (In(x, t) => In(x, s))
  BY <1>4, <1>5 DEF In
<1>7. ASSUME Once(x, s) PROVE Once(x, t) /\ (x = Head(s) => ~In(x, t))
  <2>1. \A i, j \in 1..(n + 1) : s[i] = x /\ s[j] = x => i = j BY <1>4, <1>7 DEF Once
  <2>2. Once(x, t)
    <3> SUFFICES ASSUME NEW i \in 1..n, NEW j \in 1..n, t[i] = x, t[j] = x PROVE i = j
      BY <1>4 DEF Once
    <3>1. s[i + 1] = x /\ s[j + 1] = x BY <1>4
    <3> QED BY <1>5, <2>1, <3>1
  <2>3. x = Head(s) => ~In(x, t)
    <3> SUFFICES ASSUME x = Head(s), NEW i \in 1..n, t[i] = x PROVE FALSE
      BY <1>4 DEF In
    <3>1. s[1] = x /\ s[i + 1] = x BY <1>4
    <3> QED BY <1>5, <2>1, <3>1
  <2> QED BY <2>2, <2>3
<1> QED BY <1>2, <1>3, <1>6, <1>7

\* A worker reports something that is no connection.
LEMMA HandedReport ==
    ASSUME ConnectTypeOK, NEW k \in Calls, NEW w \in Ways, HandedOn(k, w),
           NEW r \in {"err", "udp"}, results'[k] = Append(results[k], r),
           UNCHANGED <<attempt, conn>>, offered'[k] = offered[k]
    PROVE  HandedOn(k, w)'
<1>1. results[k] \in Seq(Ways \cup {"err", "udp"}) /\ r \in Ways \cup {"err", "udp"} /\ w # r
  BY DEF ConnectTypeOK, Ways
<1>2. /\ In(w, Append(results[k], r)) <=> In(w, results[k]) \/ w = r
      /\ Once(w, results[k]) /\ (w = r => ~In(w, results[k])) => Once(w, Append(results[k], r))
  BY <1>1, InAppend
<1> QED BY <1>1, <1>2 DEF HandedOn

\* A connection taken from resultCh is used or closed, and is in no channel any
\* more.
LEMMA HandedTake ==
    ASSUME ConnectTypeOK, NEW k \in Calls, NEW w \in Ways, HandedOn(k, w),
           results[k] # <<>>, results'[k] = Tail(results[k]), UNCHANGED <<attempt, offered>>,
           \/ Head(results[k]) \in Ways /\ UseConn(k, Head(results[k]))
           \/ Head(results[k]) \notin Ways /\ UNCHANGED conn
    PROVE  HandedOn(k, w)'
<1>1. results[k] \in Seq(Ways \cup {"err", "udp"})
  BY DEF ConnectTypeOK
<1>2. /\ In(Head(results[k]), results[k])
      /\ In(w, Tail(results[k])) => In(w, results[k])
      /\ Once(w, results[k])
            => /\ Once(w, Tail(results[k]))
               /\ w = Head(results[k]) => ~In(w, Tail(results[k]))
  BY <1>1, InTail
<1>3. CASE w # Head(results[k])
  <2>1. conn'[k][w] = conn[k][w]
    <3>1. conn \in [Calls -> [Ways -> {"none", "made", "used", "closed"}]] BY DEF ConnectTypeOK
    <3> QED BY <1>3, <3>1, SMT DEF UseConn
  <2> QED BY <1>2, <2>1 DEF HandedOn
<1>4. CASE w = Head(results[k])
  <2>1. attempt[k][w] = "end" /\ ~In(w, offered[k])
    BY <1>2, <1>4 DEF HandedOn
  <2>2. ~In(w, results'[k])
    BY <1>2, <1>4 DEF HandedOn
  <2> QED BY <1>2, <2>1, <2>2 DEF HandedOn
<1> QED BY <1>3, <1>4

\* Every step of a call hands its connections on.
LEMMA HandedStep ==
    ASSUME ConnectTypeOK, NEW k \in Calls, NEW w \in Ways, HandedOn(k, w),
           ConnectStep(k) \/ \E o \in Owners : Begin(k, o)
    PROVE  HandedOn(k, w)'
<1>1. offered[k] \in Seq(Ways) /\ results[k] \in Seq(Ways \cup {"err", "udp"})
  BY DEF ConnectTypeOK
<1>2. CASE UNCHANGED <<attempt, conn, offered, results>>
  BY <1>2 DEF HandedOn
<1>3. ASSUME NEW o \in Owners, Begin(k, o) PROVE HandedOn(k, w)'
  <2>1. /\ attempt'[k][w] = "run" /\ conn'[k][w] = "none"
        /\ offered'[k] = <<>> /\ results'[k] = <<>>
    BY <1>3, BeginsFresh
  <2>2. ~In(w, <<>>) /\ Once(w, <<>>)
    <3>1. 1..Len(<<>>) = {} BY SMT
    <3> QED BY <3>1 DEF In, Once
  <2> QED BY <2>1, <2>2 DEF HandedOn
<1>4. CASE awaitConnectResult(k) \/ awaitLateTCPUpgrade(k)
  <2>1. UNCHANGED <<attempt, offered>>
    BY <1>4 DEF awaitConnectResult, awaitLateTCPUpgrade
  <2>2. \/ UNCHANGED <<results, conn>>
        \/ /\ results[k] # <<>> /\ results' = [results EXCEPT ![k] = Tail(@)]
           /\ \/ Head(results[k]) \in Ways /\ UseConn(k, Head(results[k]))
              \/ Head(results[k]) \notin Ways /\ UNCHANGED conn
    BY <1>4 DEF awaitConnectResult, awaitLateTCPUpgrade, Ways
  <2>3. CASE results' = [results EXCEPT ![k] = Tail(@)] /\ results[k] # <<>>
    <3>1. results'[k] = Tail(results[k]) BY <2>3 DEF ConnectTypeOK
    <3>2. CASE UNCHANGED <<results, conn>> BY <1>2, <2>1, <3>2
    <3> QED BY <2>1, <2>2, <2>3, <3>1, <3>2, HandedTake
  <2> QED BY <1>2, <2>1, <2>2, <2>3
<1>5. ASSUME NEW x \in Ways, Connected(k, x) PROVE HandedOn(k, w)'
  <2>1. attempt'[k][x] = "made" /\ \A y \in Ways \ {x} : attempt'[k][y] = attempt[k][y]
    BY <1>5, AttemptMoves DEF Connected
  <2>2. conn'[k][x] = "made" /\ \A y \in Ways \ {x} : conn'[k][y] = conn[k][y]
    <3>1. conn \in [Calls -> [Ways -> {"none", "made", "used", "closed"}]] BY DEF ConnectTypeOK
    <3>2. conn' = [conn EXCEPT ![k][x] = "made"] BY <1>5 DEF Connected
    <3> QED BY <3>1, <3>2, SMT
  <2>3. attempt[k][x] = "run" /\ UNCHANGED <<offered, results>> BY <1>5 DEF Connected
  <2>4. CASE w = x BY <2>1, <2>2, <2>3, <2>4 DEF HandedOn
  <2>5. CASE w # x BY <2>1, <2>2, <2>3, <2>5 DEF HandedOn
  <2> QED BY <2>4, <2>5
<1>6. ASSUME NEW x \in Ways, EndAttempt(k, x) PROVE HandedOn(k, w)'
  <2>1. attempt'[k][x] = "end" /\ \A y \in Ways \ {x} : attempt'[k][y] = attempt[k][y]
    BY <1>6, AttemptMoves DEF EndAttempt
  <2>2. attempt[k][x] # "end" /\ UNCHANGED results BY <1>6 DEF EndAttempt
  <2>3. CASE attempt[k][x] = "made" /\ offered' = [offered EXCEPT ![k] = Append(@, x)] /\ UNCHANGED conn
    <3>1. offered'[k] = Append(offered[k], x) BY <2>3 DEF ConnectTypeOK
    <3>2. /\ In(w, Append(offered[k], x)) <=> In(w, offered[k]) \/ w = x
          /\ Once(w, offered[k]) /\ (w = x => ~In(w, offered[k])) => Once(w, Append(offered[k], x))
      BY <1>1, InAppend
    <3>3. CASE w = x BY <2>1, <2>2, <2>3, <3>1, <3>2, <3>3 DEF HandedOn
    <3>4. CASE w # x BY <2>1, <2>2, <2>3, <3>1, <3>2, <3>4 DEF HandedOn
    <3> QED BY <3>3, <3>4
  <2>4. CASE UNCHANGED offered
    <3>1. UNCHANGED conn \/ conn' = [conn EXCEPT ![k][x] = "closed"]
      BY <1>6 DEF EndAttempt
    <3>2. \A y \in Ways \ {x} : conn'[k][y] = conn[k][y]
      <4>1. conn \in [Calls -> [Ways -> {"none", "made", "used", "closed"}]] BY DEF ConnectTypeOK
      <4> QED BY <3>1, <4>1, SMT
    <3>3. CASE w = x BY <2>1, <2>2, <2>4, <3>3 DEF HandedOn
    <3>4. CASE w # x BY <2>1, <2>2, <2>4, <3>2, <3>4 DEF HandedOn
    <3> QED BY <3>3, <3>4
  <2> QED BY <1>6, <2>3, <2>4 DEF EndAttempt
<1>7. CASE EndPunch(k)
  <2>1. UNCHANGED <<attempt, conn>> BY <1>7 DEF EndPunch
  <2>2. CASE Report(k, "err") /\ UNCHANGED offered
    <3>1. results'[k] = Append(results[k], "err") BY <2>2 DEF Report, ConnectTypeOK
    <3> QED BY <2>1, <2>2, <3>1, HandedReport
  <2>3. CASE /\ offered[k] # <<>> /\ Report(k, Head(offered[k]))
             /\ offered' = [offered EXCEPT ![k] = Tail(@)]
    <3>1. results'[k] = Append(results[k], Head(offered[k])) /\ offered'[k] = Tail(offered[k])
      BY <2>3 DEF Report, ConnectTypeOK
    <3>2. Head(offered[k]) \in Ways BY <1>1, <2>3, QueueTypes
    <3>3. /\ In(Head(offered[k]), offered[k])
          /\ In(w, Tail(offered[k])) => In(w, offered[k])
          /\ Once(w, offered[k])
                => /\ Once(w, Tail(offered[k]))
                   /\ w = Head(offered[k]) => ~In(w, Tail(offered[k]))
      BY <1>1, <2>3, InTail
    <3>4. PICK h \in Ways \cup {"err", "udp"} : h = Head(offered[k]) BY <3>2
    <3>5. /\ In(w, Append(results[k], h)) <=> In(w, results[k]) \/ w = h
          /\ Once(w, results[k]) /\ (w = h => ~In(w, results[k])) => Once(w, Append(results[k], h))
      BY <1>1, InAppend
    <3>6. CASE w = h BY <2>1, <3>1, <3>3, <3>4, <3>5, <3>6 DEF HandedOn
    <3>7. CASE w # h BY <2>1, <3>1, <3>3, <3>4, <3>5, <3>7 DEF HandedOn
    <3> QED BY <3>6, <3>7
  <2> QED BY <1>7, <2>2, <2>3 DEF EndPunch
<1>8. CASE EndUdp(k)
  <2>1. UNCHANGED <<attempt, conn, offered>> BY <1>8 DEF EndUdp
  <2>2. CASE Report(k, "udp")
    <3>1. results'[k] = Append(results[k], "udp") BY <2>2 DEF Report, ConnectTypeOK
    <3> QED BY <2>1, <3>1, HandedReport
  <2>3. CASE UNCHANGED results BY <1>2, <2>1, <2>3
  <2> QED BY <1>8, <2>2, <2>3 DEF EndUdp
<1>9. registerPendingHandshakes(k) \/ EndFallback(k) \/ Cancel(k) \/ CancelOnClosing(k)
         => UNCHANGED <<attempt, conn, offered, results>>
  BY DEF registerPendingHandshakes, EndFallback, Cancel, CancelOnClosing, workers
<1> QED BY <1>2, <1>3, <1>4, <1>5, <1>6, <1>7, <1>8, <1>9 DEF ConnectStep, WorkerStep

\* A step of a call and what it does to a connection that is settled.
LEMMA SettledStep ==
    ASSUME ConnectTypeOK, NEW k \in Calls, NEW w \in Ways, HandedOn(k, w),
           ConnectStep(k), conn[k][w] \in {"used", "closed"}
    PROVE  conn'[k][w] = conn[k][w]
<1>1. conn \in [Calls -> [Ways -> {"none", "made", "used", "closed"}]] BY DEF ConnectTypeOK
<1>2. attempt[k][w] = "off" \/ attempt[k][w] = "end"
      \/ attempt[k][w] = "run" \/ attempt[k][w] = "made"
  BY DEF ConnectTypeOK
<1>3. ASSUME results[k] # <<>>, UseConn(k, Head(results[k])), Head(results[k]) \in Ways
      PROVE  conn'[k][w] = conn[k][w]
  <2>1. results[k] \in Seq(Ways \cup {"err", "udp"}) BY DEF ConnectTypeOK
  <2>2. In(Head(results[k]), results[k]) BY <1>3, <2>1, InTail
  <2>3. w # Head(results[k]) BY <2>2 DEF HandedOn
  <2> QED BY <1>1, <1>3, <2>3, SMT DEF UseConn
<1>4. CASE awaitConnectResult(k) \/ awaitLateTCPUpgrade(k)
  BY <1>3, <1>4 DEF awaitConnectResult, awaitLateTCPUpgrade
<1>5. ASSUME NEW x \in Ways, Connected(k, x) \/ EndAttempt(k, x) PROVE conn'[k][w] = conn[k][w]
  <2>1. \/ UNCHANGED conn
        \/ (attempt[k][x] \in {"run", "made"} /\ \E v : conn' = [conn EXCEPT ![k][x] = v])
    BY <1>5 DEF Connected, EndAttempt
  <2>2. CASE attempt[k][x] \in {"run", "made"} /\ \E v : conn' = [conn EXCEPT ![k][x] = v]
    <3>1. w # x BY <2>2 DEF HandedOn
    <3> QED BY <1>1, <2>2, <3>1, SMT
  <2> QED BY <2>1, <2>2
<1>6. EndPunch(k) \/ EndUdp(k) \/ EndFallback(k) => UNCHANGED conn
  BY DEF EndPunch, EndUdp, EndFallback
<1>7. registerPendingHandshakes(k) \/ Cancel(k) \/ CancelOnClosing(k) => UNCHANGED conn
  BY DEF registerPendingHandshakes, Cancel, CancelOnClosing
<1> QED BY <1>4, <1>5, <1>6, <1>7 DEF ConnectStep, WorkerStep

\* The connections of a call are handed on from Punch over the channels to the
\* call or to awaitLateTCPUpgrade, each one once.
THEOREM ConnectionsSettleOnce == Spec => SettledOnce
<1> DEFINE Inv == \A k \in Calls : \A w \in Ways : HandedOn(k, w)
           Settled == \A k \in Calls : \A w \in Ways :
                         conn[k][w] \in {"used", "closed"}
                            => conn'[k][w] = conn[k][w] \/ (Ended(k) /\ pc'[k] = "start")
<1>1. Init => Inv
  <2> SUFFICES ASSUME Init, NEW k \in Calls, NEW w \in Ways PROVE HandedOn(k, w) OBVIOUS
  <2>1. results[k] = <<>> /\ offered[k] = <<>> BY DEF Init, ConnectInit
  <2>2. attempt[k][w] = "off" /\ conn[k][w] = "none" BY DEF Init, ConnectInit
  <2>3. ~In(w, <<>>) /\ Once(w, <<>>)
    <3>1. 1..Len(<<>>) = {} BY SMT
    <3> QED BY <3>1 DEF In, Once
  <2> QED BY <2>1, <2>2, <2>3 DEF HandedOn
<1>2. ASSUME TypeOK, Inv, [Next]_vars
      PROVE  \/ UNCHANGED <<attempt, offered, results, conn>>
             \/ \E k \in Calls : ConnectStep(k) \/ \E o \in Owners : Begin(k, o)
  <2>1. UNCHANGED connectVars \/ Close => UNCHANGED <<attempt, offered, results, conn>>
    BY DEF Close, connectVars, callState, workers
  <2>2. "app" \in Owners /\ "discovery" \in Owners BY DEF Owners
  <2> QED BY <1>2, <2>1, <2>2
          DEF Next, Note, NoSlot, TakeSlot, AppConnect, endDiscoveryConnect, Expire, vars
<1>3. TypeOK /\ Inv /\ [Next]_vars => Inv'
  <2> SUFFICES ASSUME TypeOK, Inv, [Next]_vars, NEW j \in Calls, NEW w \in Ways
               PROVE  HandedOn(j, w)'
    OBVIOUS
  <2>1. ConnectTypeOK BY DEF TypeOK
  <2>2. CASE UNCHANGED <<attempt, offered, results, conn>> BY <2>2 DEF HandedOn
  <2>3. ASSUME NEW k \in Calls, ConnectStep(k) \/ \E o \in Owners : Begin(k, o)
        PROVE  HandedOn(j, w)'
    <3>1. CASE j = k BY <2>1, <2>3, <3>1, HandedStep
    <3>2. CASE j # k
      <4>1. /\ results'[j] = results[j] /\ offered'[j] = offered[j]
            /\ attempt'[j] = attempt[j] /\ conn'[j] = conn[j]
        BY <2>1, <2>3, <3>2, OthersKept
      <4> QED BY <4>1 DEF HandedOn
    <3> QED BY <3>1, <3>2
  <2> QED BY <1>2, <2>2, <2>3
<1>4. TypeOK /\ Inv /\ [Next]_vars => [Settled]_vars
  <2> SUFFICES ASSUME TypeOK, Inv, [Next]_vars, NEW j \in Calls, NEW w \in Ways,
                      conn[j][w] \in {"used", "closed"}
               PROVE  conn'[j][w] = conn[j][w] \/ (Ended(j) /\ pc'[j] = "start")
    OBVIOUS
  <2>1. ConnectTypeOK BY DEF TypeOK
  <2>2. ASSUME NEW k \in Calls, ConnectStep(k) \/ \E o \in Owners : Begin(k, o), j # k
        PROVE  conn'[j][w] = conn[j][w]
    BY <2>1, <2>2, OthersKept
  <2>3. ASSUME ConnectStep(j) PROVE conn'[j][w] = conn[j][w]
    BY <2>1, <2>3, SettledStep
  <2>4. ASSUME NEW o \in Owners, Begin(j, o) PROVE Ended(j) /\ pc'[j] = "start"
    BY <2>1, <2>4 DEF Begin, ConnectTypeOK
  <2> QED BY <1>2, <2>2, <2>3, <2>4
<1> HIDE DEF Inv
<1>5. Spec => []Inv BY <1>1, <1>3, TypeHolds, PTL DEF Spec
<1>6. Spec => [][Settled]_vars
  <2> HIDE DEF Settled
  <2> QED BY <1>4, <1>5, TypeHolds, PTL DEF Spec
<1> QED BY <1>6 DEF SettledOnce
=============================================================================
