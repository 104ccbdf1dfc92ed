----------------------------- MODULE Discovery -----------------------------
(***************************************************************************)
(* Discovery (node/discovery.go) on top of Connect: a response names peers *)
(* and their addresses; for those that are new a connect is started, not   *)
(* again within a cooldown (discoveryConnectSeen) and only so many at once *)
(* (the semaphore discoveryConnectSem, held until Connect returns).        *)
(*                                                                         *)
(* A key is a peer with an address.  Who asks and who is known already are *)
(* left open: an entry that processDiscoveryResponse skips is no step.     *)
(***************************************************************************)
EXTENDS Connect, FiniteSets

CONSTANTS
    Keys,
    Readers,        \* goroutines that handle responses
    ConnectLimit,   \* discoveryConnectConcurrencyLimit
    PruneThreshold, \* discoveryConnectPruneThreshold
    HardLimit,      \* discoveryConnectSeenHardLimit
    None            \* no key

ASSUME DiscoveryAssumption ==
    /\ ConnectLimit \in Nat /\ PruneThreshold \in Nat /\ HardLimit \in Nat \ {0}
    /\ IsFiniteSet(Calls) /\ IsFiniteSet(Keys)
    /\ None \notin Keys

VARIABLES
    seen,     \* discoveryConnectSeen
    expired,  \* its keys whose cooldown is over
    trying,   \* the key for which a reader is about to take a slot
    sem,      \* slots taken of discoveryConnectSem
    holds     \* the calls that will give one back

throttle == <<seen, expired, trying, sem, holds>>
vars == <<connectVars, throttle>>

Init ==
    /\ ConnectInit
    /\ seen = {} /\ expired = {}
    /\ trying = [r \in Readers |-> None]
    /\ sem = 0 /\ holds = {}

----------------------------------------------------------------------------
Pruned(s) == s \ expired

\* What trimDiscoveryConnectSeenLocked may leave: the oldest entries go.
Trimmed(s, n) == {t \in SUBSET s : Cardinality(t) = IF Cardinality(s) <= n THEN Cardinality(s) ELSE n}

\* Mutant: the map is trimmed to its limit.
RoomMutant(s) ==
    IF Cardinality(s) < HardLimit THEN {s} ELSE Trimmed(Pruned(s), HardLimit)

\* The map before a new entry, at most one short of its limit.
Room(s) ==
    IF Cardinality(s) < HardLimit THEN {s} ELSE Trimmed(Pruned(s), HardLimit - 1)

\* tryBeginDiscoveryConnect, the part under the lock.
Note(r, key) ==
    LET s == IF Cardinality(seen) > PruneThreshold THEN Pruned(seen) ELSE seen
    IN  /\ trying[r] = None
        /\ \/ /\ key \in Pruned(s)
              /\ seen' = s
              /\ expired' = expired \cap s
              /\ UNCHANGED trying
           \/ /\ key \notin Pruned(s)
              /\ \E t \in Room(s) :
                    /\ seen' = t \cup {key}
                    /\ expired' = (expired \cap t) \ {key}
              /\ trying' = [trying EXCEPT ![r] = key]
        /\ UNCHANGED <<connectVars, sem, holds>>

\* The select: a slot and a goroutine that calls Connect, ...
TakeSlot(r, k) ==
    /\ trying[r] # None
    /\ sem < ConnectLimit
    /\ sem' = sem + 1
    /\ k \notin holds
    /\ holds' = holds \cup {k}
    /\ Begin(k, "discovery")
    /\ trying' = [trying EXCEPT ![r] = None]
    /\ UNCHANGED <<seen, expired>>

\* ... or the entry is taken back.
NoSlot(r) ==
    /\ trying[r] # None
    /\ sem >= ConnectLimit
    /\ seen' = seen \ {trying[r]}
    /\ expired' = expired \ {trying[r]}
    /\ trying' = [trying EXCEPT ![r] = None]
    /\ UNCHANGED <<connectVars, sem, holds>>

\* Deferred in the goroutine of the connect.
endDiscoveryConnect(k) ==
    /\ k \in holds /\ pc[k] = "returned"
    /\ holds' = holds \ {k}
    /\ sem' = IF sem > 0 THEN sem - 1 ELSE sem
    /\ UNCHANGED <<connectVars, seen, expired, trying>>

Expire(key) ==
    /\ key \in seen \ expired
    /\ expired' = expired \cup {key}
    /\ UNCHANGED <<connectVars, seen, trying, sem, holds>>

\* Connect called by the application or by a reconnect.
AppConnect(k) ==
    /\ k \notin holds
    /\ Begin(k, "app")
    /\ UNCHANGED throttle

Next ==
    \/ \E r \in Readers :
          \/ NoSlot(r)
          \/ \E key \in Keys : Note(r, key)
          \/ \E k \in Calls : TakeSlot(r, k)
    \/ \E key \in Keys : Expire(key)
    \/ \E k \in Calls : AppConnect(k) \/ endDiscoveryConnect(k)
    \/ \E k \in Calls : ConnectStep(k) /\ UNCHANGED throttle
    \/ Close /\ UNCHANGED throttle

\* Of the goroutines of a call some one moves on while one can: every wait
\* has a timer or ends with its context (a dial, an accept with a deadline),
\* and each goroutine takes a bounded number of steps.
Fairness ==
    \A k \in Calls : WF_vars(endDiscoveryConnect(k) \/ (WorkerStep(k) /\ UNCHANGED throttle))

Spec == Init /\ [][Next]_vars /\ Fairness
----------------------------------------------------------------------------
ConnectTypeOK ==
    /\ pc \in [Calls -> {"idle", "start", "await", "returned"}]
    /\ owner \in [Calls -> Owners]
    /\ ctxDone \in [Calls -> BOOLEAN] /\ punchDone \in [Calls -> BOOLEAN]
    /\ attempt \in [Calls -> [Ways -> {"off", "run", "made", "end"}]]
    /\ offered \in [Calls -> Seq(Ways)]
    /\ punch \in [Calls -> {"off", "wait", "end"}] /\ udp \in [Calls -> {"off", "run", "end"}]
    /\ results \in [Calls -> Seq(Ways \cup {"err", "udp"})]
    /\ fallback \in [Calls -> {"off", "wait", "relayed", "direct", "cancelled"}]
    /\ late \in [Calls -> {"off", "wait", "end"}]
    /\ conn \in [Calls -> [Ways -> {"none", "made", "used", "closed"}]]
    /\ closing \in BOOLEAN

TypeOK ==
    /\ ConnectTypeOK
    /\ seen \subseteq Keys /\ expired \subseteq seen
    /\ trying \in [Readers -> Keys \cup {None}]
    /\ sem \in Nat /\ holds \subseteq Calls

(***************************************************************************)
(* The slots taken are the connects under way, at most ConnectLimit: none  *)
(* is lost and none given back twice, however calls return and readers     *)
(* interleave, so the empty default of endDiscoveryConnect never runs.     *)
(***************************************************************************)
SlotsBalanced == sem = Cardinality(holds) /\ sem <= ConnectLimit

(***************************************************************************)
(* discoveryConnectSeen keeps its hard limit, whatever peers name.         *)
(***************************************************************************)
SeenBounded == Cardinality(seen) <= HardLimit

(***************************************************************************)
(* Whoever is about to send finds room in the channel, though the call may *)
(* have stopped reading it: the TCP and the UDP worker in resultCh, and    *)
(* both goroutines of Punch in resultChan, also an Accept that succeeds    *)
(* after the punch is over.                                                *)
(***************************************************************************)
SendsNeverBlock ==
    \A k \in Calls :
        /\ punch[k] = "wait" \/ udp[k] = "run" => Len(results[k]) < ResultCap
        /\ \A w \in Ways : attempt[k][w] = "made" => Len(offered[k]) < PunchCap

(***************************************************************************)
(* A connection has one owner: used or closed, it stays so until the place *)
(* of the call is taken by another one.  It is never used twice (the call  *)
(* and awaitLateTCPUpgrade read the same channel), nor closed by Punch     *)
(* under its user, nor used when Punch has closed it.                      *)
(***************************************************************************)
SettledOnce ==
    [][\A k \in Calls : \A w \in Ways :
          conn[k][w] \in {"used", "closed"}
             => conn'[k][w] = conn[k][w] \/ (Ended(k) /\ pc'[k] = "start")]_vars

(***************************************************************************)
(* A call returns, all goroutines it started end (no send to a channel     *)
(* blocks for good, whoever has stopped reading), and its slot is free.    *)
(***************************************************************************)
WorkersEnd == \A k \in Calls : pc[k] # "idle" ~> Ended(k) /\ k \notin holds

(***************************************************************************)
(* When UDP punching is over and the call returns, a relay is tried in the *)
(* end, unless the address is mapped by then, the caller cancels its       *)
(* context (as a reconnect does when its call returns) or the node closes. *)
(***************************************************************************)
FallbackTried ==
    \A k \in Calls : (late[k] = "wait" /\ EnableRelay)
                        ~> (fallback[k] \in {"relayed", "direct"} \/ ctxDone[k] \/ closing)
=============================================================================
