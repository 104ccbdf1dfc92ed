-------------------------- MODULE ReconnectProofs --------------------------
(***************************************************************************)
(* Proofs about Reconnect, for any peers, any number of entries and any    *)
(* retry limits.                                                           *)
(***************************************************************************)
EXTENDS Reconnect, TLAPS

(***************************************************************************)
(* Every variable keeps its type: in particular the counters of the model  *)
(* and the maps of the manager stay well formed under every interleaving.  *)
(***************************************************************************)
\* First-order reasoning suffices for most leaves; those that need records or
\* arithmetic cite SMT.
USE Zenon

LEMMA TypeInit == Init => TypeOK
  BY ConstantsOK, SMT DEF Init, TypeOK, States, Points, Phases, LoopPoints

LEMMA CancelType ==
  ASSUME TypeOK, NEW P \in SUBSET PeerIDs, Cancel(P)
  PROVE  /\ entries' \in [PeerIDs -> Entries \cup {NoEntry}]
         /\ ctxDone' \in SUBSET Entries
         /\ owed' \in SUBSET PeerIDs
  BY SMT DEF TypeOK, Cancel

LEMMA TypeStep == TypeOK /\ [Next]_vars => TypeOK'
  <1> SUFFICES ASSUME TypeOK, [Next]_vars PROVE TypeOK'
    OBVIOUS
  <1> USE DEF TypeOK, rmVars, ghosts
  <1>1. ASSUME NEW p \in PeerIDs, PeerConnected(p) PROVE TypeOK'
    BY <1>1 DEF PeerConnected
  <1>2. ASSUME NEW p \in PeerIDs, CancelReconnect(p) PROVE TypeOK'
    BY <1>2, CancelType, SMT DEF CancelReconnect, Cancel
  <1>3. ASSUME NEW r \in Removers, removePeerWithReconnect(r) PROVE TypeOK'
    <2>1. ASSUME NEW p \in PeerIDs, RemovePeerGet(r, p) PROVE TypeOK'
      BY <2>1 DEF RemovePeerGet
    <2>2. ASSUME RemovePeerDelete(r) PROVE TypeOK'
      BY <2>2 DEF RemovePeerDelete
    <2>3. ASSUME NEW e \in Entries, RemovePeerSchedule(r, e) PROVE TypeOK'
      <3> DEFINE p == remover[r].peer
      <3>1. /\ remover' = [remover EXCEPT ![r] = [at |-> "idle", peer |-> NoPeer]]
            /\ UNCHANGED <<maxRetries, connected, closer, ghosts>>
        BY <2>3 DEF RemovePeerSchedule
      <3>2. remover' \in [Removers -> [at : {"idle", "remove", "schedule"},
                                       peer : PeerIDs \cup {NoPeer}]]
        BY <3>1
      <3>3. CASE p \in Addressed /\ ScheduleReconnect(p, e)
        BY <2>3, <3>1, <3>2, <3>3, ConstantsOK, SMT
           DEF RemovePeerSchedule, ScheduleReconnect, Goto, States, Points
      <3>4. CASE p \notin Addressed
        BY <2>3, <3>1, <3>2, <3>4 DEF RemovePeerSchedule
      <3>5. QED
        BY <2>3, <3>3, <3>4 DEF RemovePeerSchedule
    <2>4. QED
      BY <1>3, <2>1, <2>2, <2>3 DEF removePeerWithReconnect
  <1>4. ASSUME CancelAll PROVE TypeOK'
    BY <1>4, CancelType DEF CancelAll, Cancel
  <1>5. ASSUME Close PROVE TypeOK'
    BY <1>5, CancelType
       DEF Close, CloseSignal, CloseCancelAll, CloseWait, Cancel, Phases
  <1>6. ASSUME NEW e \in Entries, reconnectLoop(e) PROVE TypeOK'
    <2> USE DEF Goto, Points, LoopPoints, States
    <2>1. CASE LoopSpawn(e) \/ LoopTop(e) \/ LoopCheck(e) \/ LoopWait(e)
               \/ LoopDialed(e) \/ LoopConfirm(e) \/ LoopVerify(e)
      BY <2>1 DEF LoopSpawn, LoopTop, LoopCheck, LoopWait, LoopDialed, LoopConfirm,
                  LoopVerify
    <2>2. CASE LoopCount(e)
      BY <2>2, ConstantsOK, SMT DEF LoopCount, Bump
    <2>3. CASE LoopRecheck(e)
      BY <2>3, ConstantsOK, SMT DEF LoopRecheck, Bump
    <2>4. CASE handleReconnectSuccess(e) \/ handleReconnectFailed(e)
      BY <2>4 DEF handleReconnectSuccess, handleReconnectFailed
    <2>5. QED
      BY <1>6, <2>1, <2>2, <2>3, <2>4 DEF reconnectLoop
  <1>7. CASE UNCHANGED vars
    BY <1>7 DEF vars
  <1>8. QED
    BY <1>1, <1>2, <1>3, <1>4, <1>5, <1>6, <1>7 DEF Next

THEOREM TypeCorrect == Spec => []TypeOK
  BY TypeInit, TypeStep, PTL DEF Spec

----------------------------------------------------------------------------
(***************************************************************************)
(* The map and the goroutines.  The properties EntryHasLoop and            *)
(* OneLoopUnlessCancelled are not inductive: what is missing is that an    *)
(* entry is allocated once (Allocated), that the map files it under its    *)
(* peer (Filed), that a goroutine's entry stays active until the critical  *)
(* section that also deletes it (LiveActive), and that only a cancellation *)
(* separates a running goroutine from its entry (Tracked).                 *)
(***************************************************************************)
Allocated ==
    /\ \A e \in Entries : pc[e] # "unused" => owner[e] \in PeerIDs
    /\ \A e \in ctxDone : pc[e] # "unused"

Filed ==
    \A p \in PeerIDs : entries[p] # NoEntry =>
        owner[entries[p]] = p /\ pc[entries[p]] # "unused"

LiveActive == \A e \in Entries : Live(e) => Active(e)

Tracked ==
    \A e \in Entries :
        /\ Live(e)
        /\ \A g \in ctxDone : owner[g] # owner[e]
        => entries[owner[e]] = e

Attended ==
    ~Closing => \A p \in PeerIDs : entries[p] # NoEntry =>
                    Live(entries[p]) /\ entries[p] \notin ctxDone

MapInv == Allocated /\ Filed /\ LiveActive /\ Tracked /\ Attended

(***************************************************************************)
(* The counters: where a goroutine stands tells how attempt and dials      *)
(* compare.                                                                *)
(***************************************************************************)
CountInv ==
    \A e \in Entries :
        /\ pc[e] \in {"unused", "spawn"} => attempt[e] = 0 /\ dials[e] = 0
        /\ (maxRetries > 0 /\ pc[e] \in {"top", "check", "count", "dial", "confirm", "verify"})
                => dials[e] = attempt[e] /\ attempt[e] <= maxRetries
        /\ (maxRetries > 0 /\ pc[e] \in {"wait", "recheck"})
                => attempt[e] = dials[e] + 1 /\ attempt[e] <= maxRetries
        /\ pc[e] = "fail"
                => maxRetries > 0 /\ dials[e] = maxRetries /\ attempt[e] = maxRetries + 1
        /\ state[e] = "Failed" =>
                /\ pc[e] = "done"
                /\ maxRetries > 0
                /\ dials[e] = maxRetries
                /\ attempt[e] = maxRetries + 1

(***************************************************************************)
(* After a dial made under a cancelled context, the goroutine is on its    *)
(* way out: the select at the top of the loop is the only way back.        *)
(***************************************************************************)
LateInv ==
    \A e \in Entries :
        /\ e \notin ctxDone => lateDials[e] = 0
        /\ lateDials[e] # 0 =>
             lateDials[e] = 1 /\ pc[e] \in {"dial", "confirm", "verify", "top", "succeed", "done"}

----------------------------------------------------------------------------
LEMMA MapInit == Init => MapInv
  BY ConstantsOK, SMT DEF Init, MapInv, Allocated, Filed, LiveActive, Tracked, Attended, Live,
     LoopPoints

\* A step that leaves the manager's state alone and moves no goroutine.
LEMMA MapKept ==
  ASSUME TypeOK, MapInv, UNCHANGED <<rmVars, pc>>, Closing => Closing'
  PROVE  MapInv'
  BY DEF MapInv, Allocated, Filed, LiveActive, Tracked, Attended, Live, Active, rmVars,
         TypeOK

LEMMA MapCancel ==
  ASSUME TypeOK, MapInv, NEW P \in SUBSET PeerIDs, Cancel(P), pc' = pc,
         Closing => Closing'
  PROVE  MapInv'
  <1> USE DEF TypeOK, MapInv, Cancel
  <1>1. Allocated'
    BY ConstantsOK, SMT DEF Allocated, Filed
  <1>2. Filed'
    BY DEF Filed
  <1>3. LiveActive'
    BY DEF LiveActive, Live, Active
  <1>4. Tracked'
    <2> SUFFICES ASSUME NEW e \in Entries, Live(e)', \A g \in ctxDone' : owner[g] # owner[e]
                 PROVE  entries'[owner[e]] = e
      BY DEF Tracked
    <2>1. entries[owner[e]] = e
      BY DEF Tracked, Live
    <2>2. owner[e] \in PeerIDs
      BY DEF Allocated, Live, LoopPoints
    <2>3. owner[e] \notin P
      BY <2>1, <2>2, ConstantsOK
    <2>4. QED
      BY <2>1, <2>2, <2>3
  <1>5. Attended'
    <2> SUFFICES ASSUME ~Closing, NEW p \in PeerIDs, entries'[p] # NoEntry
                 PROVE  Live(entries[p]) /\ entries[p] \notin ctxDone' /\ entries'[p] = entries[p]
      BY DEF Attended, Live
    <2>1. p \notin P /\ entries'[p] = entries[p]
      OBVIOUS
    <2>2. Live(entries[p]) /\ entries[p] \notin ctxDone
      BY <2>1 DEF Attended
    <2>3. ASSUME NEW q \in P, entries[q] = entries[p], entries[p] # NoEntry PROVE FALSE
      BY <2>1, <2>3 DEF Filed
    <2>4. QED
      BY <2>1, <2>2, <2>3
  <1>6. QED
    BY <1>1, <1>2, <1>3, <1>4, <1>5

LEMMA MapSchedule ==
  ASSUME TypeOK, MapInv, NEW p \in PeerIDs, NEW e \in Entries, ScheduleReconnect(p, e),
         closer' = closer
  PROVE  MapInv'
  <1>1. CASE AlreadyActive(p)
    BY <1>1, MapKept DEF ScheduleReconnect, Closing
  <1>2. CASE ~AlreadyActive(p)
    <2>1. /\ pc[e] = "unused"
          /\ entries' = [entries EXCEPT ![p] = e]
          /\ state' = [state EXCEPT ![e] = "Waiting"]
          /\ owner' = [owner EXCEPT ![e] = p]
          /\ pc' = [pc EXCEPT ![e] = "spawn"]
          /\ ctxDone' = ctxDone
      BY <1>2 DEF ScheduleReconnect, Goto
    <2>2. e \notin ctxDone /\ \A q \in PeerIDs : entries[q] # e
      BY <2>1, ConstantsOK, SMT DEF MapInv, Allocated, Filed, TypeOK
    <2> USE <2>1, <2>2 DEF TypeOK
    <2>3. Allocated'
      BY DEF MapInv, Allocated
    <2>4. Filed'
      BY SMT DEF MapInv, Filed
    <2>5. LiveActive'
      BY DEF MapInv, LiveActive, Live, Active
    <2>6. Tracked'
      <3> SUFFICES ASSUME NEW f \in Entries, Live(f)',
                          \A g \in ctxDone : owner'[g] # owner'[f]
                   PROVE  entries'[owner'[f]] = f
        BY DEF Tracked
      <3>1. CASE f = e
        BY <3>1
      <3>2. CASE f # e
        <4>1. Live(f) /\ owner'[f] = owner[f] /\ owner[f] \in PeerIDs
          BY <3>2 DEF Live, LoopPoints, MapInv, Allocated
        <4>2. \A g \in ctxDone : owner[g] # owner[f]
          BY <4>1
        <4>3. entries[owner[f]] = f
          BY <4>1, <4>2 DEF MapInv, Tracked
        <4>4. owner[f] # p
          BY <4>1, <4>3, <1>2, ConstantsOK, SMT DEF AlreadyActive, MapInv, LiveActive
        <4>5. QED
          BY <4>1, <4>3, <4>4
      <3>3. QED
        BY <3>1, <3>2
    <2>7. Attended'
      BY DEF MapInv, Attended, Live, Closing
    <2>8. QED
      BY <2>3, <2>4, <2>5, <2>6, <2>7 DEF MapInv
  <1>3. QED
    BY <1>1, <1>2

\* A goroutine moves within its loop.
LEMMA MapMove ==
  ASSUME TypeOK, MapInv, NEW e \in Entries, NEW point \in LoopPoints, Live(e),
         Goto(e, point), UNCHANGED <<entries, owner, ctxDone, closer>>,
         \/ state' = state
         \/ state' = [state EXCEPT ![e] = "Waiting"]
         \/ state' = [state EXCEPT ![e] = "Connecting"]
  PROVE  MapInv'
  <1>1. \A f \in Entries : Live(f)' <=> Live(f)
    BY DEF TypeOK, Goto, Live, LoopPoints
  <1>2. \A f \in Entries : pc'[f] = "unused" <=> pc[f] = "unused"
    BY DEF TypeOK, Goto, Live, LoopPoints
  <1>3. \A f \in Entries : Active(f) => Active(f)'
    BY DEF TypeOK, Active
  <1> USE <1>1, <1>2, <1>3 DEF TypeOK, MapInv
  <1>4. Allocated' /\ Filed'
    BY SMT DEF Allocated, Filed
  <1>5. LiveActive' /\ Tracked'
    BY DEF LiveActive, Tracked
  <1>6. Attended'
    BY DEF Attended, Closing
  <1>7. QED
    BY <1>4, <1>5, <1>6

\* A goroutine returns because it was told to stop: it leaves no entry behind
\* while the manager is open.
LEMMA MapStop ==
  ASSUME TypeOK, MapInv, NEW e \in Entries, Stopped(e), Live(e),
         Goto(e, "done"), UNCHANGED <<rmVars, closer>>
  PROVE  MapInv'
  <1>1. \A f \in Entries : Live(f)' <=> (Live(f) /\ f # e)
    BY DEF TypeOK, Goto, Live, LoopPoints
  <1> USE <1>1 DEF TypeOK, MapInv, Goto, rmVars
  <1>2. Allocated' /\ Filed'
    BY SMT DEF Allocated, Filed, Live, LoopPoints
  <1>3. LiveActive' /\ Tracked'
    BY DEF LiveActive, Tracked, Active
  <1>4. Attended'
    BY DEF Attended, Stopped, Closing
  <1>5. QED
    BY <1>2, <1>3, <1>4

\* A goroutine settles its peer and returns, deleting whatever the map holds.
LEMMA MapSettle ==
  ASSUME TypeOK, MapInv, NEW e \in Entries, NEW s \in {"Success", "Failed"}, Live(e),
         Goto(e, "done"), state' = [state EXCEPT ![e] = s],
         entries' = [entries EXCEPT ![owner[e]] = NoEntry],
         UNCHANGED <<owner, ctxDone, closer>>
  PROVE  MapInv'
  <1>1. owner[e] \in PeerIDs
    BY DEF MapInv, Allocated, Live, LoopPoints
  <1>2. \A f \in Entries : Live(f)' <=> (Live(f) /\ f # e)
    BY DEF TypeOK, Goto, Live, LoopPoints
  <1> USE <1>1, <1>2 DEF TypeOK, MapInv, Goto
  <1>3. Allocated' /\ Filed'
    BY SMT DEF Allocated, Filed
  <1>4. LiveActive'
    BY DEF LiveActive, Active
  <1>5. Tracked'
    <2> SUFFICES ASSUME NEW f \in Entries, Live(f), f # e,
                        \A g \in ctxDone : owner[g] # owner[f]
                 PROVE  entries'[owner[f]] = f
      BY DEF Tracked
    <2>1. entries[owner[f]] = f
      BY DEF Tracked
    <2>2. owner[f] # owner[e]
      BY <2>1 DEF Tracked
    <2>3. QED
      BY <2>1, <2>2, ConstantsOK DEF Allocated, Live, LoopPoints
  <1>6. Attended'
    <2> SUFFICES ASSUME ~Closing, NEW p \in PeerIDs, entries'[p] # NoEntry
                 PROVE  Live(entries[p]) /\ entries[p] # e /\ entries[p] \notin ctxDone
                        /\ entries'[p] = entries[p]
      BY DEF Attended, Closing
    <2>1. p # owner[e] /\ entries'[p] = entries[p]
      OBVIOUS
    <2>2. QED
      BY <2>1 DEF Attended, Filed
  <1>7. QED
    BY <1>3, <1>4, <1>5, <1>6

LEMMA MapStep == TypeOK /\ MapInv /\ [Next]_vars => MapInv'
  <1> SUFFICES ASSUME TypeOK, MapInv, [Next]_vars PROVE MapInv'
    OBVIOUS
  <1>1. ASSUME NEW p \in PeerIDs, PeerConnected(p) PROVE MapInv'
    BY <1>1, MapKept DEF PeerConnected, Closing
  <1>2. ASSUME NEW p \in PeerIDs, CancelReconnect(p) PROVE MapInv'
    BY <1>2, MapCancel DEF CancelReconnect, Closing
  <1>3. ASSUME NEW r \in Removers, removePeerWithReconnect(r) PROVE MapInv'
    <2>1. ASSUME NEW p \in PeerIDs, RemovePeerGet(r, p) PROVE MapInv'
      BY <2>1, MapKept DEF RemovePeerGet, Closing
    <2>2. ASSUME RemovePeerDelete(r) PROVE MapInv'
      BY <2>2, MapKept DEF RemovePeerDelete, Closing
    <2>3. ASSUME NEW e \in Entries, RemovePeerSchedule(r, e) PROVE MapInv'
      <3>1. CASE remover[r].peer \in Addressed
        BY <2>3, <3>1, MapSchedule, ConstantsOK DEF RemovePeerSchedule
      <3>2. CASE remover[r].peer \notin Addressed
        BY <2>3, <3>2, MapKept DEF RemovePeerSchedule, Closing
      <3>3. QED
        BY <3>1, <3>2
    <2>4. QED
      BY <1>3, <2>1, <2>2, <2>3 DEF removePeerWithReconnect
  <1>4. ASSUME CancelAll PROVE MapInv'
    BY <1>4, MapCancel DEF CancelAll, Closing
  <1>5. ASSUME Close PROVE MapInv'
    <2>1. CASE CloseSignal \/ CloseWait
      BY <2>1, MapKept DEF CloseSignal, CloseWait, Closing
    <2>2. CASE CloseCancelAll
      BY <2>2, MapCancel DEF CloseCancelAll, Closing
    <2>3. QED
      BY <1>5, <2>1, <2>2 DEF Close
  <1>6. ASSUME NEW e \in Entries, reconnectLoop(e) PROVE MapInv'
    <2> USE DEF LoopPoints, Live, rmVars
    <2>1. CASE LoopSpawn(e)
      BY <2>1, MapMove DEF LoopSpawn
    <2>2. CASE LoopTop(e)
      BY <2>2, MapMove, MapStop DEF LoopTop
    <2>3. CASE LoopCheck(e)
      BY <2>3, MapMove DEF LoopCheck
    <2>4. CASE LoopCount(e)
      BY <2>4, MapMove DEF LoopCount
    <2>5. CASE LoopWait(e)
      BY <2>5, MapMove, MapStop DEF LoopWait
    <2>6. CASE LoopRecheck(e)
      BY <2>6, MapMove DEF LoopRecheck
    <2>7. CASE LoopDialed(e)
      BY <2>7, MapMove DEF LoopDialed
    <2>8. CASE LoopConfirm(e)
      BY <2>8, MapMove, MapStop DEF LoopConfirm
    <2>9. CASE LoopVerify(e)
      BY <2>9, MapMove DEF LoopVerify
    <2>10. CASE handleReconnectSuccess(e) \/ handleReconnectFailed(e)
      BY <2>10, MapSettle DEF handleReconnectSuccess, handleReconnectFailed
    <2>11. QED
      BY <1>6, <2>1, <2>2, <2>3, <2>4, <2>5, <2>6, <2>7, <2>8, <2>9, <2>10
         DEF reconnectLoop
  <1>7. CASE UNCHANGED vars
    BY <1>7, MapKept DEF vars, Closing
  <1>8. QED
    BY <1>1, <1>2, <1>3, <1>4, <1>5, <1>6, <1>7 DEF Next

LEMMA CountInit == Init => CountInv
  BY DEF Init, CountInv

LEMMA CountStep == TypeOK /\ CountInv /\ [Next]_vars => CountInv'
  <1> SUFFICES ASSUME TypeOK, CountInv, [Next]_vars PROVE CountInv'
    OBVIOUS
  <1> USE DEF CountInv
  <1>1. CASE UNCHANGED <<maxRetries, pc, attempt, dials, state>>
    BY <1>1
  <1>2. ASSUME NEW r \in Removers, NEW e \in Entries, RemovePeerSchedule(r, e)
        PROVE  CountInv'
    <2>1. CASE UNCHANGED <<rmVars, pc>>
      BY <2>1, <1>2, <1>1 DEF RemovePeerSchedule, ghosts, rmVars
    <2>2. CASE ~UNCHANGED <<rmVars, pc>>
      <3>1. /\ pc[e] = "unused"
            /\ pc' = [pc EXCEPT ![e] = "spawn"]
            /\ state' = [state EXCEPT ![e] = "Waiting"]
            /\ attempt' = [attempt EXCEPT ![e] = 0]
            /\ dials' = dials /\ maxRetries' = maxRetries
        BY <1>2, <2>2 DEF RemovePeerSchedule, ScheduleReconnect, Goto, ghosts
      <3>2. QED
        BY <3>1 DEF TypeOK
    <2>3. QED
      BY <2>1, <2>2
  <1>3. ASSUME NEW e \in Entries, reconnectLoop(e) PROVE CountInv'
    <2> maxRetries \in Nat
      BY ConstantsOK DEF TypeOK
    <2> USE DEF TypeOK, Goto, rmVars, ghosts
    <2>1. CASE LoopSpawn(e) \/ LoopTop(e) \/ LoopCheck(e)
      BY <2>1, SMT DEF LoopSpawn, LoopTop, LoopCheck
    <2>2. CASE LoopWait(e) \/ LoopDialed(e) \/ LoopConfirm(e) \/ LoopVerify(e)
      BY <2>2, SMT DEF LoopWait, LoopDialed, LoopConfirm, LoopVerify
    <2>3. CASE LoopCount(e)
      BY <2>3, SMT DEF LoopCount, Bump
    <2>4. CASE LoopRecheck(e)
      BY <2>4, SMT DEF LoopRecheck, Bump
    <2>5. CASE handleReconnectSuccess(e) \/ handleReconnectFailed(e)
      BY <2>5, SMT DEF handleReconnectSuccess, handleReconnectFailed
    <2>6. QED
      BY <1>3, <2>1, <2>2, <2>3, <2>4, <2>5 DEF reconnectLoop
  <1>4. ASSUME NEW p \in PeerIDs, PeerConnected(p) \/ CancelReconnect(p) PROVE CountInv'
    BY <1>4, <1>1 DEF PeerConnected, CancelReconnect, Cancel, rmVars, ghosts
  <1>5. ASSUME NEW r \in Removers, removePeerWithReconnect(r) PROVE CountInv'
    BY <1>5, <1>1, <1>2 DEF removePeerWithReconnect, RemovePeerGet, RemovePeerDelete,
       rmVars, ghosts
  <1>6. CASE CancelAll \/ Close
    BY <1>6, <1>1 DEF CancelAll, Close, CloseSignal, CloseCancelAll, CloseWait, Cancel,
       rmVars, ghosts
  <1>7. CASE UNCHANGED vars
    BY <1>7, <1>1 DEF vars, rmVars, ghosts
  <1>8. QED
    BY <1>3, <1>4, <1>5, <1>6, <1>7 DEF Next

LEMMA LateInit == Init => LateInv
  BY DEF Init, LateInv

LEMMA LateStep == TypeOK /\ MapInv /\ LateInv /\ [Next]_vars => LateInv'
  <1> SUFFICES ASSUME TypeOK, MapInv, LateInv, [Next]_vars PROVE LateInv'
    OBVIOUS
  <1> USE DEF LateInv
  <1>1. CASE UNCHANGED <<pc, lateDials>> /\ ctxDone \subseteq ctxDone'
    BY <1>1
  <1>2. ASSUME NEW r \in Removers, NEW e \in Entries, RemovePeerSchedule(r, e)
        PROVE  LateInv'
    <2>1. UNCHANGED <<lateDials, ctxDone>>
      BY <1>2 DEF RemovePeerSchedule, ScheduleReconnect, ghosts, rmVars
    <2>2. pc' = pc \/ (pc[e] = "unused" /\ pc' = [pc EXCEPT ![e] = "spawn"])
      BY <1>2 DEF RemovePeerSchedule, ScheduleReconnect, Goto
    <2>3. QED
      BY <2>1, <2>2 DEF TypeOK
  <1>3. ASSUME NEW e \in Entries, reconnectLoop(e) PROVE LateInv'
    <2> USE DEF TypeOK, Goto, rmVars, ghosts
    <2>1. CASE LoopSpawn(e) \/ LoopTop(e) \/ LoopCheck(e) \/ LoopCount(e)
      BY <2>1 DEF LoopSpawn, LoopTop, LoopCheck, LoopCount, Stopped
    <2>2. CASE LoopWait(e) \/ LoopDialed(e) \/ LoopConfirm(e) \/ LoopVerify(e)
      BY <2>2 DEF LoopWait, LoopDialed, LoopConfirm, LoopVerify
    <2>3. CASE LoopRecheck(e)
      BY <2>3, SMT DEF LoopRecheck
    <2>4. CASE handleReconnectSuccess(e) \/ handleReconnectFailed(e)
      BY <2>4 DEF handleReconnectSuccess, handleReconnectFailed
    <2>5. QED
      BY <1>3, <2>1, <2>2, <2>3, <2>4 DEF reconnectLoop
  <1>4. ASSUME NEW p \in PeerIDs, PeerConnected(p) \/ CancelReconnect(p) PROVE LateInv'
    BY <1>4, <1>1 DEF PeerConnected, CancelReconnect, Cancel, rmVars, ghosts
  <1>5. ASSUME NEW r \in Removers, removePeerWithReconnect(r) PROVE LateInv'
    BY <1>5, <1>1, <1>2 DEF removePeerWithReconnect, RemovePeerGet, RemovePeerDelete,
       rmVars, ghosts
  <1>6. CASE CancelAll \/ Close
    BY <1>6, <1>1 DEF CancelAll, Close, CloseSignal, CloseCancelAll, CloseWait, Cancel,
       rmVars, ghosts
  <1>7. CASE UNCHANGED vars
    BY <1>7, <1>1 DEF vars, rmVars, ghosts
  <1>8. QED
    BY <1>3, <1>4, <1>5, <1>6, <1>7 DEF Next

----------------------------------------------------------------------------
(***************************************************************************)
(* The invariants together hold in every reachable state.                  *)
(***************************************************************************)
THEOREM Invariance == Spec => [](TypeOK /\ MapInv /\ CountInv /\ LateInv)
  <1>1. Init => TypeOK /\ MapInv /\ CountInv /\ LateInv
    BY TypeInit, MapInit, CountInit, LateInit
  <1>2. TypeOK /\ MapInv /\ CountInv /\ LateInv /\ [Next]_vars
            => (TypeOK /\ MapInv /\ CountInv /\ LateInv)'
    BY TypeStep, MapStep, CountStep, LateStep
  <1>3. QED
    BY <1>1, <1>2, PTL DEF Spec

(***************************************************************************)
(* While the manager is open, no entry is left in the map without a        *)
(* running, uncancelled goroutine, so that finding one is a reason for     *)
(* ScheduleReconnect to do nothing.                                        *)
(***************************************************************************)
THEOREM EntriesAreAttended == Spec => []EntryHasLoop
  <1>1. TypeOK /\ MapInv => EntryHasLoop
    BY DEF TypeOK, MapInv, Filed, Attended, LiveActive, EntryHasLoop
  <1>2. QED
    BY <1>1, Invariance, PTL

(***************************************************************************)
(* ScheduleReconnect starts no second goroutine for a peer unless one of   *)
(* that peer's reconnections was cancelled.                                *)
(***************************************************************************)
THEOREM Deduplication == Spec => []OneLoopUnlessCancelled
  <1>1. MapInv => OneLoopUnlessCancelled
    BY DEF MapInv, Tracked, OneLoopUnlessCancelled
  <1>2. QED
    BY <1>1, Invariance, PTL

(***************************************************************************)
(* handleReconnectFailed reports exactly MaxRetries attempts, all made.    *)
(***************************************************************************)
THEOREM GiveUpCount == Spec => []GaveUpAfterAllAttempts
  <1>1. TypeOK /\ CountInv => GaveUpAfterAllAttempts
    BY ConstantsOK, SMT DEF TypeOK, CountInv, GaveUpAfterAllAttempts
  <1>2. QED
    BY <1>1, Invariance, PTL

(***************************************************************************)
(* A cancelled goroutine makes at most one more call of ConnectContext.    *)
(***************************************************************************)
THEOREM CancelIsPrompt == Spec => []CancelStopsDialing
  <1>1. TypeOK /\ LateInv => CancelStopsDialing
    BY SMT DEF TypeOK, LateInv, CancelStopsDialing
  <1>2. QED
    BY <1>1, Invariance, PTL

(***************************************************************************)
(* The map slot of a peer is never overwritten while the manager is open.  *)
(***************************************************************************)
THEOREM SlotsNeverOverwritten == Spec => NeverOverwritten
  <1> DEFINE Kept == ~Closing => \A p \in PeerIDs :
                        entries[p] # NoEntry => entries'[p] \in {entries[p], NoEntry}
  <1>1. TypeOK /\ MapInv /\ [Next]_vars => [Kept]_vars
    <2> SUFFICES ASSUME TypeOK, MapInv, Next, ~Closing, NEW q \in PeerIDs, entries[q] # NoEntry
                 PROVE  entries'[q] \in {entries[q], NoEntry}
      BY DEF vars
    <2>1. CASE entries' = entries
      BY <2>1
    <2>2. ASSUME NEW P \in SUBSET PeerIDs, Cancel(P)
          PROVE  entries'[q] \in {entries[q], NoEntry}
      BY <2>2 DEF Cancel
    <2>3. ASSUME NEW r \in Removers, removePeerWithReconnect(r)
          PROVE  entries'[q] \in {entries[q], NoEntry}
      <3>1. ASSUME NEW p \in PeerIDs, NEW e \in Entries, ScheduleReconnect(p, e)
            PROVE  entries'[q] \in {entries[q], NoEntry}
        <4>1. entries' = entries \/ (~AlreadyActive(p) /\ entries' = [entries EXCEPT ![p] = e])
          BY <3>1 DEF ScheduleReconnect, rmVars
        <4>2. AlreadyActive(q)
          BY DEF AlreadyActive, TypeOK, MapInv, Attended, LiveActive
        <4>3. QED
          BY <4>1, <4>2 DEF TypeOK
      <3>2. QED
        BY <2>3, <3>1, <2>1, ConstantsOK
           DEF removePeerWithReconnect, RemovePeerGet, RemovePeerDelete, RemovePeerSchedule,
               rmVars
    <2>4. ASSUME NEW e \in Entries, reconnectLoop(e)
          PROVE  entries'[q] \in {entries[q], NoEntry}
      BY <2>4 DEF TypeOK, reconnectLoop, LoopSpawn, LoopTop, LoopCheck, LoopCount, LoopWait,
         LoopRecheck, LoopDialed, LoopConfirm, LoopVerify, handleReconnectSuccess,
         handleReconnectFailed, rmVars
    <2>5. QED
      BY <2>1, <2>2, <2>3, <2>4 DEF Next, PeerConnected, CancelReconnect, CancelAll, Close,
         CloseSignal, CloseCancelAll, CloseWait, rmVars
  <1>2. QED
    BY <1>1, Invariance, PTL DEF Spec, NeverOverwritten

(***************************************************************************)
(* Once Close has returned, the manager never calls into the node again.   *)
(***************************************************************************)
THEOREM CloseIsFinal == Spec => []QuietAfterClose
  <1>1. Init => QuietAfterClose
    BY DEF Init, QuietAfterClose
  <1>2. TypeOK /\ QuietAfterClose /\ [Next]_vars => QuietAfterClose'
    <2> SUFFICES ASSUME TypeOK, QuietAfterClose, [Next]_vars, closer' = "closed", NEW f \in Entries
                 PROVE  pc'[f] \in {"unused", "spawn", "top", "done"}
      BY DEF QuietAfterClose
    <2> USE DEF TypeOK
    <2>1. CASE CloseWait
      BY <2>1 DEF CloseWait, Points, LoopPoints
    <2>2. CASE ~CloseWait
      <3>1. closer = "closed" /\ pc[f] \in {"unused", "spawn", "top", "done"}
        BY <2>2 DEF QuietAfterClose, Next, vars, PeerConnected, CancelReconnect, CancelAll,
           Close, CloseSignal, CloseCancelAll, removePeerWithReconnect, RemovePeerGet,
           RemovePeerDelete, RemovePeerSchedule, reconnectLoop, LoopSpawn, LoopTop, LoopCheck,
           LoopCount, LoopWait, LoopRecheck, LoopDialed, LoopConfirm, LoopVerify,
           handleReconnectSuccess, handleReconnectFailed
      <3>2. ASSUME NEW e \in Entries, reconnectLoop(e)
            PROVE  pc'[f] \in {"unused", "spawn", "top", "done"}
        BY <3>1, <3>2 DEF QuietAfterClose, reconnectLoop, LoopSpawn, LoopTop, LoopCheck,
           LoopCount, LoopWait, LoopRecheck, LoopDialed, LoopConfirm, LoopVerify,
           handleReconnectSuccess, handleReconnectFailed, Goto, Stopped, Closing
      <3>3. ASSUME NEW r \in Removers, removePeerWithReconnect(r)
            PROVE  pc'[f] \in {"unused", "spawn", "top", "done"}
        BY <3>1, <3>3 DEF removePeerWithReconnect, RemovePeerGet, RemovePeerDelete,
           RemovePeerSchedule, ScheduleReconnect, Goto, rmVars
      <3>4. QED
        BY <2>2, <3>1, <3>2, <3>3 DEF Next, vars, PeerConnected, CancelReconnect, CancelAll,
           Close, CloseSignal, CloseCancelAll
    <2>3. QED
      BY <2>1, <2>2
  <1>3. QED
    BY <1>1, <1>2, TypeCorrect, PTL DEF Spec
=============================================================================
