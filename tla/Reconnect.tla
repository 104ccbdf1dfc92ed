----------------------------- MODULE Reconnect -----------------------------
(***************************************************************************)
(* The reconnect manager (node/reconnect.go) and the two callers that race *)
(* with it: removePeerWithReconnect (node/heartbeat.go), which drops a     *)
(* peer and schedules its reconnection, and GracefulStop (node/node.go),   *)
(* which closes the manager.                                               *)
(*                                                                         *)
(* Every ScheduleReconnect allocates an entry and starts one goroutine,    *)
(* reconnectLoop, that owns it.  An action is a stretch of a goroutine     *)
(* between two points where it may be overtaken: a lock, a select, a call  *)
(* into the node.  Peers enter Node.Peers by completed handshakes, which   *)
(* this module takes as an action of the environment.                      *)
(***************************************************************************)
EXTENDS Integers, FiniteSets

CONSTANTS
    PeerIDs,      \* peer identities
    Addressed,    \* peers whose original address is known; {} if reconnecting is disabled
    Entries,      \* reconnectEntry objects: bounds the number of schedulings
    Removers,     \* goroutines that call removePeerWithReconnect
    RetryLimits,  \* values of ReconnectConfig.MaxRetries; 0 is "no limit"
    NoEntry,      \* absence of a map entry
    NoPeer        \* peer of an unallocated entry or of an idle remover

ASSUME ConstantsOK ==
    /\ Addressed \subseteq PeerIDs
    /\ RetryLimits \subseteq Nat
    /\ NoEntry \notin Entries
    /\ NoPeer \notin PeerIDs

VARIABLES
    maxRetries,   \* rm.config.MaxRetries, fixed when the manager is created
    entries,      \* rm.entries : peerID -> entry
    state,        \* entry.state
    attempt,      \* entry.attempt
    owner,        \* entry.peerID
    ctxDone,      \* entries whose context has been cancelled
    pc,           \* where the goroutine of an entry stands
    connected,    \* the IDs of node.Peers
    remover,      \* where each removePeerWithReconnect stands, and for whom
    closer,       \* how far rm.Close() has got
    dials,        \* ConnectContext calls made for an entry
    lateDials,    \* those made after the entry was cancelled
    owed          \* peers dropped, whose reconnection was asked for and not settled

rmVars == <<entries, state, attempt, owner, ctxDone>>
ghosts == <<dials, lateDials>>
vars == <<maxRetries, rmVars, pc, connected, remover, closer, ghosts, owed>>

(***************************************************************************)
(* Program points.  "spawn" lies between the unlock in ScheduleReconnect   *)
(* and its go statement: the entry is published and nothing runs yet.      *)
(***************************************************************************)
LoopPoints == {"top", "check", "count", "wait", "recheck", "dial", "confirm",
               "verify", "succeed", "fail"}
Points == LoopPoints \cup {"unused", "spawn", "done"}
States == {"Idle", "Waiting", "Connecting", "Success", "Failed"}
Phases == {"open", "closing", "cancelled", "closed"}

Live(e) == pc[e] \in LoopPoints \cup {"spawn"}
Active(e) == state[e] \in {"Connecting", "Waiting"}
Closing == closer # "open"
\* Mutants: a select that lacks one of its two cases.
StoppedByClosing(e) == Closing
StoppedByContext(e) == e \in ctxDone

Stopped(e) == e \in ctxDone \/ Closing
Unused == {e \in Entries : pc[e] = "unused"}

\* Mutant: the attempt is not counted.
NoBump(n) == n

\* attempt and dials stop counting once they are past every comparison made.
Bump(n) == IF n <= maxRetries THEN n + 1 ELSE n

Goto(e, point) == pc' = [pc EXCEPT ![e] = point]

TypeOK ==
    /\ maxRetries \in RetryLimits
    /\ entries \in [PeerIDs -> Entries \cup {NoEntry}]
    /\ state \in [Entries -> States]
    /\ attempt \in [Entries -> Nat]
    /\ owner \in [Entries -> PeerIDs \cup {NoPeer}]
    /\ ctxDone \in SUBSET Entries
    /\ pc \in [Entries -> Points]
    /\ connected \in SUBSET PeerIDs
    /\ remover \in [Removers -> [at : {"idle", "remove", "schedule"},
                                 peer : PeerIDs \cup {NoPeer}]]
    /\ closer \in Phases
    /\ dials \in [Entries -> Nat]
    /\ lateDials \in [Entries -> Nat]
    /\ owed \in SUBSET PeerIDs

Init ==
    /\ maxRetries \in RetryLimits
    /\ entries = [p \in PeerIDs |-> NoEntry]
    /\ state = [e \in Entries |-> "Idle"]
    /\ attempt = [e \in Entries |-> 0]
    /\ owner = [e \in Entries |-> NoPeer]
    /\ ctxDone = {}
    /\ pc = [e \in Entries |-> "unused"]
    /\ connected = PeerIDs
    /\ remover = [r \in Removers |-> [at |-> "idle", peer |-> NoPeer]]
    /\ closer = "open"
    /\ dials = [e \in Entries |-> 0]
    /\ lateDials = [e \in Entries |-> 0]
    /\ owed = {}

----------------------------------------------------------------------------
(* The node: handshakes add peers, removePeerWithReconnect drops them.     *)

PeerConnected(p) ==
    /\ p \notin connected
    /\ connected' = connected \cup {p}
    /\ owed' = owed \ {p}
    /\ UNCHANGED <<maxRetries, rmVars, pc, remover, closer, ghosts>>

\* n.Peers.Get(peerID).  Bound: a remover starts only while an entry is left
\* for every remover that may still schedule one.
RemovePeerGet(r, p) ==
    /\ remover[r].at = "idle"
    /\ p \in connected
    /\ Cardinality(Unused) > Cardinality({q \in Removers : remover[q].at # "idle"})
    /\ remover' = [remover EXCEPT ![r] = [at |-> "remove", peer |-> p]]
    /\ UNCHANGED <<maxRetries, rmVars, pc, connected, closer, ghosts, owed>>

\* n.Peers.Remove(peerID): by ID, whoever holds it by now.
RemovePeerDelete(r) ==
    /\ remover[r].at = "remove"
    /\ connected' = connected \ {remover[r].peer}
    /\ remover' = [remover EXCEPT ![r].at = "schedule"]
    /\ UNCHANGED <<maxRetries, rmVars, pc, closer, ghosts, owed>>

\* Mutant: only a dial in progress counts as active.
AlreadyConnecting(p) == entries[p] # NoEntry /\ state[entries[p]] = "Connecting"

AlreadyActive(p) == entries[p] # NoEntry /\ Active(entries[p])

ScheduleReconnect(p, e) ==
    \/ /\ AlreadyActive(p)
       /\ UNCHANGED <<rmVars, pc>>
    \/ /\ ~AlreadyActive(p)
       /\ pc[e] = "unused"
       /\ entries' = [entries EXCEPT ![p] = e]
       /\ state' = [state EXCEPT ![e] = "Waiting"]
       /\ attempt' = [attempt EXCEPT ![e] = 0]
       /\ owner' = [owner EXCEPT ![e] = p]
       /\ Goto(e, "spawn")
       /\ UNCHANGED ctxDone

\* The tail of removePeerWithReconnect: the reconnection, unless the peer
\* has no original address.
RemovePeerSchedule(r, e) ==
    LET p == remover[r].peer IN
    /\ remover[r].at = "schedule"
    /\ remover' = [remover EXCEPT ![r] = [at |-> "idle", peer |-> NoPeer]]
    /\ \/ /\ p \in Addressed
          /\ ScheduleReconnect(p, e)
          /\ owed' = IF p \in connected \/ Closing THEN owed ELSE owed \cup {p}
       \/ /\ p \notin Addressed
          /\ UNCHANGED <<rmVars, pc, owed>>
    /\ UNCHANGED <<maxRetries, connected, closer, ghosts>>

----------------------------------------------------------------------------
(* CancelReconnect, CancelAll and Close.                                   *)

\* Mutant: the cancelFunc of an entry that is not there is called.
CancelMissing(P) ==
    /\ ctxDone' = ctxDone \cup {entries[p] : p \in P}
    /\ entries' = [p \in PeerIDs |-> IF p \in P THEN NoEntry ELSE entries[p]]
    /\ owed' = owed \ P
    /\ UNCHANGED <<state, attempt, owner>>

\* Mutant: the cancelled entry stays in the map.
CancelKeepsEntry(P) ==
    /\ ctxDone' = ctxDone \cup ({entries[p] : p \in P} \ {NoEntry})
    /\ owed' = owed \ P
    /\ UNCHANGED <<entries, state, attempt, owner>>

Cancel(P) ==
    /\ ctxDone' = ctxDone \cup ({entries[p] : p \in P} \ {NoEntry})
    /\ entries' = [p \in PeerIDs |-> IF p \in P THEN NoEntry ELSE entries[p]]
    /\ owed' = owed \ P
    /\ UNCHANGED <<state, attempt, owner>>

CancelReconnect(p) ==
    /\ entries[p] # NoEntry
    /\ Cancel({p})
    /\ UNCHANGED <<maxRetries, pc, connected, remover, closer, ghosts>>

CancelAll ==
    /\ Cancel(PeerIDs)
    /\ UNCHANGED <<maxRetries, pc, connected, remover, closer, ghosts>>

\* close(rm.closing)
CloseSignal ==
    /\ closer = "open"
    /\ closer' = "closing"
    /\ owed' = {}
    /\ UNCHANGED <<maxRetries, rmVars, pc, connected, remover, ghosts>>

CloseCancelAll ==
    /\ closer = "closing"
    /\ closer' = "cancelled"
    /\ Cancel(PeerIDs)
    /\ UNCHANGED <<maxRetries, pc, connected, remover, ghosts>>

\* rm.wg.Wait(): the goroutines started so far have all returned.
CloseWait ==
    /\ closer = "cancelled"
    /\ \A e \in Entries : pc[e] \notin LoopPoints
    /\ closer' = "closed"
    /\ UNCHANGED <<maxRetries, rmVars, pc, connected, remover, ghosts, owed>>

----------------------------------------------------------------------------
(* reconnectLoop.                                                          *)

\* rm.wg.Add(1); go rm.reconnectLoop(ctx, entry)
LoopSpawn(e) ==
    /\ pc[e] = "spawn"
    /\ Goto(e, "top")
    /\ UNCHANGED <<maxRetries, rmVars, connected, remover, closer, ghosts, owed>>

\* A select with a default: a signal that is there is always taken.
LoopTop(e) ==
    /\ pc[e] = "top"
    /\ Goto(e, IF Stopped(e) THEN "done" ELSE "check")
    /\ UNCHANGED <<maxRetries, rmVars, connected, remover, closer, ghosts, owed>>

LoopCheck(e) ==
    /\ pc[e] = "check"
    /\ Goto(e, IF owner[e] \in connected THEN "succeed" ELSE "count")
    /\ UNCHANGED <<maxRetries, rmVars, connected, remover, closer, ghosts, owed>>

\* Mutant: >= for > in the comparison with MaxRetries.
LoopCountEarly(e) ==
    /\ pc[e] = "count"
    /\ attempt' = [attempt EXCEPT ![e] = Bump(@)]
    /\ \/ /\ maxRetries > 0 /\ attempt'[e] >= maxRetries
          /\ Goto(e, "fail")
          /\ UNCHANGED state
       \/ /\ ~(maxRetries > 0 /\ attempt'[e] >= maxRetries)
          /\ state' = [state EXCEPT ![e] = "Waiting"]
          /\ Goto(e, "wait")
    /\ UNCHANGED <<maxRetries, entries, owner, ctxDone, connected, remover,
                   closer, ghosts, owed>>

\* The two critical sections of this stretch (the count, the return to
\* Waiting) are one action: the entry is active before, between and after.
LoopCount(e) ==
    /\ pc[e] = "count"
    /\ attempt' = [attempt EXCEPT ![e] = Bump(@)]
    /\ \/ /\ maxRetries > 0 /\ attempt'[e] > maxRetries
          /\ Goto(e, "fail")
          /\ UNCHANGED state
       \/ /\ ~(maxRetries > 0 /\ attempt'[e] > maxRetries)
          /\ state' = [state EXCEPT ![e] = "Waiting"]
          /\ Goto(e, "wait")
    /\ UNCHANGED <<maxRetries, entries, owner, ctxDone, connected, remover,
                   closer, ghosts, owed>>

\* A select among ctx, closing and a timer: any of those that are ready.
LoopWait(e) ==
    /\ pc[e] = "wait"
    /\ \/ Stopped(e) /\ Goto(e, "done")
       \/ Goto(e, "recheck")
    /\ UNCHANGED <<maxRetries, rmVars, connected, remover, closer, ghosts, owed>>

\* The second isPeerConnected and, if it fails, the call of ConnectContext.
LoopRecheck(e) ==
    /\ pc[e] = "recheck"
    /\ \/ /\ owner[e] \in connected
          /\ Goto(e, "succeed")
          /\ UNCHANGED <<state, ghosts>>
       \/ /\ owner[e] \notin connected
          /\ state' = [state EXCEPT ![e] = "Connecting"]
          /\ dials' = [dials EXCEPT ![e] = Bump(@)]
          /\ lateDials' = [lateDials EXCEPT ![e] = IF e \in ctxDone THEN @ + 1 ELSE @]
          /\ Goto(e, "dial")
    /\ UNCHANGED <<maxRetries, entries, attempt, owner, ctxDone, connected,
                   remover, closer, owed>>

\* ConnectContext returns, with an error or without.
LoopDialed(e) ==
    /\ pc[e] = "dial"
    /\ \/ Goto(e, "top")
       \/ Goto(e, "confirm")
    /\ UNCHANGED <<maxRetries, rmVars, connected, remover, closer, ghosts, owed>>

LoopConfirm(e) ==
    /\ pc[e] = "confirm"
    /\ \/ Stopped(e) /\ Goto(e, "done")
       \/ Goto(e, "verify")
    /\ UNCHANGED <<maxRetries, rmVars, connected, remover, closer, ghosts, owed>>

LoopVerify(e) ==
    /\ pc[e] = "verify"
    /\ Goto(e, IF owner[e] \in connected THEN "succeed" ELSE "top")
    /\ UNCHANGED <<maxRetries, rmVars, connected, remover, closer, ghosts, owed>>

\* delete(rm.entries, peerID): the entry that the map holds now, not e.
handleReconnectSuccess(e) ==
    /\ pc[e] = "succeed"
    /\ state' = [state EXCEPT ![e] = "Success"]
    /\ entries' = [entries EXCEPT ![owner[e]] = NoEntry]
    /\ Goto(e, "done")
    /\ UNCHANGED <<maxRetries, attempt, owner, ctxDone, connected, remover,
                   closer, ghosts, owed>>

handleReconnectFailed(e) ==
    /\ pc[e] = "fail"
    /\ state' = [state EXCEPT ![e] = "Failed"]
    /\ entries' = [entries EXCEPT ![owner[e]] = NoEntry]
    /\ owed' = owed \ {owner[e]}
    /\ Goto(e, "done")
    /\ UNCHANGED <<maxRetries, attempt, owner, ctxDone, connected, remover,
                   closer, ghosts>>

reconnectLoop(e) ==
    \/ LoopSpawn(e) \/ LoopTop(e) \/ LoopCheck(e) \/ LoopCount(e)
    \/ LoopWait(e) \/ LoopRecheck(e) \/ LoopDialed(e) \/ LoopConfirm(e)
    \/ LoopVerify(e) \/ handleReconnectSuccess(e) \/ handleReconnectFailed(e)

Close == CloseSignal \/ CloseCancelAll \/ CloseWait

removePeerWithReconnect(r) ==
    \/ \E p \in PeerIDs : RemovePeerGet(r, p)
    \/ RemovePeerDelete(r)
    \/ \E e \in Entries : RemovePeerSchedule(r, e)

Next ==
    \/ \E p \in PeerIDs : PeerConnected(p) \/ CancelReconnect(p)
    \/ \E r \in Removers : removePeerWithReconnect(r)
    \/ CancelAll
    \/ Close
    \/ \E e \in Entries : reconnectLoop(e)

(***************************************************************************)
(* Goroutines are scheduled, timers fire and ConnectContext returns within *)
(* ReconnectTimeout, so every loop keeps moving; Close, once called, keeps *)
(* moving as far as its Wait lets it.  Nothing is assumed of the network,  *)
(* of the application's calls or of when a peer drops.                     *)
(***************************************************************************)
Fairness ==
    /\ \A e \in Entries : WF_vars(reconnectLoop(e))
    /\ WF_vars(CloseCancelAll)
    /\ WF_vars(CloseWait)

Spec == Init /\ [][Next]_vars
FairSpec == Spec /\ Fairness
----------------------------------------------------------------------------
(***************************************************************************)
(* Until Close is called, whatever the map holds is being worked on: its   *)
(* goroutine has not returned and was not cancelled, and the entry is      *)
(* active.  ScheduleReconnect drops a request when it finds an entry, so   *)
(* an entry left behind by a goroutine that returned would block every     *)
(* later reconnection of that peer.                                        *)
(***************************************************************************)
EntryHasLoop ==
    ~Closing => \A p \in PeerIDs : entries[p] # NoEntry =>
                    /\ Live(entries[p])
                    /\ owner[entries[p]] = p
                    /\ entries[p] \notin ctxDone
                    /\ Active(entries[p])

(***************************************************************************)
(* A peer for which no reconnection was ever cancelled has at most one     *)
(* reconnectLoop: the deduplication of ScheduleReconnect.  (Once one was   *)
(* cancelled, handleReconnectSuccess and handleReconnectFailed of the old  *)
(* goroutine may delete the entry of the new one.)                         *)
(***************************************************************************)
OneLoopUnlessCancelled ==
    \A e, f \in Entries :
        /\ Live(e) /\ Live(f) /\ owner[e] = owner[f]
        /\ \A g \in ctxDone : owner[g] # owner[e]
        => e = f

(***************************************************************************)
(* onGaveUp tells the application the number of attempts made,             *)
(* entry.attempt - 1: exactly MaxRetries calls of ConnectContext, although *)
(* the counter has already been advanced for an attempt that never starts. *)
(***************************************************************************)
GaveUpAfterAllAttempts ==
    \A e \in Entries : state[e] = "Failed" =>
        /\ maxRetries > 0
        /\ dials[e] = maxRetries
        /\ attempt[e] - 1 = dials[e]

(***************************************************************************)
(* Once Close has returned, no goroutine of the manager calls into the     *)
(* node again, although ScheduleReconnect does not look at rm.closing and  *)
(* may start one after wg.Wait().                                          *)
(***************************************************************************)
QuietAfterClose ==
    closer = "closed" => \A e \in Entries : pc[e] \in {"unused", "spawn", "top", "done"}

(***************************************************************************)
(* A cancelled goroutine dials at most once more (it may have been past    *)
(* its select when the context was cancelled).                             *)
(***************************************************************************)
CancelStopsDialing == \A e \in Entries : lateDials[e] <= 1

(***************************************************************************)
(* ScheduleReconnect never replaces one entry by another: an entry leaves  *)
(* the map by cancellation, success or give-up, never by being overwritten *)
(* (the overwritten goroutine could no longer be cancelled).               *)
(***************************************************************************)
NeverOverwritten ==
    [][~Closing => \A p \in PeerIDs :
            entries[p] # NoEntry => entries'[p] \in {entries[p], NoEntry}]_vars

(***************************************************************************)
(* With a retry limit every reconnectLoop comes to an end: by success,     *)
(* give-up, cancellation or shutdown.                                      *)
(***************************************************************************)
LoopsEnd == \A e \in Entries : (maxRetries > 0 /\ Live(e)) ~> pc[e] = "done"

(***************************************************************************)
(* Close returns, with or without a retry limit: every goroutine it waits  *)
(* for sees rm.closing or its cancelled context.                           *)
(***************************************************************************)
CloseReturns == (closer = "closing") ~> (closer = "closed")

(***************************************************************************)
(* README: a dropped link is reconnected automatically.  As long as a      *)
(* reconnection is owed (not connected again, not cancelled, not given up, *)
(* manager open), some goroutine is working on it.                         *)
(***************************************************************************)
ReconnectNotLost ==
    \A p \in owed : \E e \in Entries : Live(e) /\ owner[e] = p /\ e \notin ctxDone
=============================================================================
