---------------------------- MODULE Rehandshake ----------------------------
(***************************************************************************)
(* Fast re-handshake of one peer whose session has lost step               *)
(* (node/rehandshake.go), with the throttle kept in the Peer object        *)
(* (peer/peer.go), the receive path that triggers it (node/data_flow.go),  *)
(* and what races with it: completed handshakes that refresh the peer      *)
(* (handleExistingPeer) and the removal of the peer.                       *)
(*                                                                         *)
(* Time is kept as what the code compares: time still to wait and age of   *)
(* the window.  Tick lets one unit pass.  An action is a critical section  *)
(* of p.mu, or a stretch without one.  Whether sendFastRehandshake finds a *)
(* pending handshake at the address is left open here.                     *)
(***************************************************************************)
EXTENDS Integers, FiniteSets

CONSTANTS
    Receivers,        \* goroutines in processData: UDP reader, TCP and KCP readers
    Attempts,         \* re-handshake goroutines that can be alive at once
    Handlers,         \* goroutines in processHandshake for this peer
    DecryptLimit,     \* Config.MaxConsecutiveDecryptFailures
    Base, MaxBackoff, \* Config.FastRehandshakeBaseBackoff, MaxBackoff
    Window,           \* Config.FastRehandshakeWindow
    MaxInWindow,      \* Config.FastRehandshakeMaxAttemptsWindow
    FailThreshold,    \* Config.FastRehandshakeFailThreshold
    MaxCleared        \* bound: in-flight marks cleared by UpgradeTransport

\* The settings Config.Validate accepts; the rest is about the model's own sets.
ASSUME ConfigValid ==
    /\ DecryptLimit \in Nat \ {0}
    /\ Base \in Nat \ {0} /\ MaxBackoff \in Nat /\ Base <= MaxBackoff
    /\ Window \in Nat \ {0} /\ MaxInWindow \in Nat \ {0}
    /\ FailThreshold \in Nat \ {0}
    /\ MaxCleared \in Nat
    /\ IsFiniteSet(Receivers) /\ IsFiniteSet(Attempts)
    /\ Receivers \cap Attempts = {}

VARIABLES
    rx,           \* where a receiver stands
    at,           \* where a re-handshake goroutine stands
    hs,           \* the transport a handshake handler is about to switch the peer to
    closing,      \* n.closing is closed
    \* the Peer object
    transport, open, decryptFails, fails, inFlight, backoff,
    wait,         \* time until rehandshakeNextAttempt; 0 if it is zero or past
    winAge,       \* time since rehandshakeWindowStart; Window if zero or expired
    winCount,
    \* history
    granted,      \* attempts reserved, by age, since the throttle was last reset
    cleared       \* how often a reset has cleared a set in-flight mark

throttle == <<decryptFails, fails, inFlight, backoff, wait, winAge, winCount, granted, cleared>>
peerVars == <<transport, open, throttle>>
vars == <<rx, at, hs, closing, peerVars>>

Transports == {"udp", "tcp"}
RxPoints == {"idle", "decrypt", "trigger", "reserve", "end", "launch"}
AtPoints == {"free", "start", "sendUDP", "sendTCP", "fail", "fallback", "success", "end"}

\* What TryBeginRehandshake has let through and EndRehandshake has not closed.
Holders == {r \in Receivers : rx[r] \in {"reserve", "end", "launch"}}
           \cup {a \in Attempts : at[a] # "free"}

RxGoto(r, point) == rx' = [rx EXCEPT ![r] = point]
Goto(a, point) == at' = [at EXCEPT ![a] = point]
Less(n) == IF n = 0 THEN 0 ELSE n - 1
Smaller(m, n) == IF m <= n THEN m ELSE n

TypeOK ==
    /\ rx \in [Receivers -> RxPoints]
    /\ at \in [Attempts -> AtPoints]
    /\ hs \in [Handlers -> Transports \cup {"idle"}]
    /\ closing \in BOOLEAN
    /\ transport \in Transports
    /\ open \in BOOLEAN
    /\ decryptFails \in 0..DecryptLimit
    /\ fails \in Nat
    /\ inFlight \in BOOLEAN
    /\ backoff \in 0..MaxBackoff
    /\ wait \in 0..MaxBackoff
    /\ winAge \in 0..Window
    /\ winCount \in 0..MaxInWindow
    /\ granted \in [0..(Window - 1) -> Nat]
    /\ cleared \in Nat

NoneGranted == [i \in 0..(Window - 1) |-> 0]

Init ==
    /\ rx = [r \in Receivers |-> "idle"]
    /\ at = [a \in Attempts |-> "free"]
    /\ hs = [h \in Handlers |-> "idle"]
    /\ closing = FALSE
    /\ transport \in Transports
    /\ open = TRUE
    /\ decryptFails = 0 /\ fails = 0 /\ inFlight = FALSE
    /\ backoff = 0 /\ wait = 0 /\ winAge = Window /\ winCount = 0
    /\ granted = NoneGranted
    /\ cleared = 0

----------------------------------------------------------------------------
(* The throttle of the Peer object; each of these runs under p.mu.         *)

\* Mutant: a path that returns without clearing the mark.
EndForgotten == UNCHANGED throttle

EndRehandshake ==
    /\ inFlight' = FALSE
    /\ UNCHANGED <<decryptFails, fails, backoff, wait, winAge, winCount, granted, cleared>>

WindowExpired == winAge >= Window

\* Mutant: > for >= in the comparison with maxInWindow.
AllowedOneMore == wait = 0 /\ (WindowExpired \/ winCount <= MaxInWindow)

Allowed == wait = 0 /\ (WindowExpired \/ winCount < MaxInWindow)

\* A window that has expired is restarted, with this attempt as its first.
ReserveRehandshakeAttempt ==
    /\ IF wait = 0 /\ WindowExpired
       THEN winAge' = 0 /\ winCount' = 1
       ELSE winAge' = winAge /\ winCount' = IF Allowed THEN winCount + 1 ELSE winCount
    /\ granted' = IF Allowed THEN [granted EXCEPT ![0] = @ + 1] ELSE granted
    /\ UNCHANGED <<decryptFails, fails, inFlight, backoff, wait, cleared>>

\* Mutant: the cap is forgotten.
NextBackoffUncapped == IF backoff = 0 THEN Base ELSE 2 * backoff

NextBackoff ==
    Smaller(IF backoff = 0 THEN Base ELSE 2 * backoff, MaxBackoff)

RecordRehandshakeFailure ==
    /\ fails' = fails + 1
    /\ backoff' = NextBackoff
    /\ wait' = backoff'
    /\ UNCHANGED <<decryptFails, inFlight, winAge, winCount, granted, cleared>>

\* Mutant: the failure count survives a success.
SuccessKeepsFailures ==
    /\ backoff' = 0
    /\ wait' = Base
    /\ UNCHANGED <<decryptFails, fails, inFlight, winAge, winCount, granted, cleared>>

RecordRehandshakeSuccess ==
    /\ fails' = 0
    /\ backoff' = 0
    /\ wait' = Base
    /\ UNCHANGED <<decryptFails, inFlight, winAge, winCount, granted, cleared>>

\* What UpgradeTransport and Close both do to the throttle.
ResetThrottle ==
    /\ decryptFails' = 0 /\ fails' = 0 /\ inFlight' = FALSE
    /\ backoff' = 0 /\ wait' = 0 /\ winAge' = Window /\ winCount' = 0
    /\ granted' = NoneGranted
    /\ cleared' = IF inFlight THEN cleared + 1 ELSE cleared

UpgradeTransport(t) ==
    \/ /\ transport = "tcp" /\ t # "tcp"
       /\ UNCHANGED peerVars
    \/ /\ ~(transport = "tcp" /\ t # "tcp")
       /\ inFlight => cleared < MaxCleared
       /\ transport' = t
       /\ ResetThrottle
       /\ UNCHANGED open

\* removePeerWithReconnect: nothing if the peer is gone already.  One that got
\* the peer before another removed it closes it a second time.
RemovePeer ==
    \/ /\ ~open
       /\ UNCHANGED peerVars
    \/ /\ open' = FALSE
       /\ ResetThrottle
       /\ UNCHANGED transport

----------------------------------------------------------------------------
(* processData and the synchronous part of triggerFastRehandshake.         *)

\* The peer is looked up; it may be closed before it is used.
GetPeer(r) ==
    /\ rx[r] = "idle"
    /\ open
    /\ RxGoto(r, "decrypt")
    /\ UNCHANGED <<at, hs, closing, peerVars>>

\* Whether the packet decrypts depends on the remote side and on the session.
Decrypt(r) ==
    /\ rx[r] = "decrypt"
    /\ \/ /\ decryptFails' = 0
          /\ RxGoto(r, "idle")
       \/ /\ decryptFails' = Smaller(decryptFails + 1, DecryptLimit)
          /\ RxGoto(r, IF decryptFails' >= DecryptLimit THEN "trigger" ELSE "idle")
    /\ UNCHANGED <<at, hs, closing, transport, open, fails, inFlight, backoff, wait, winAge,
                   winCount, granted, cleared>>

\* Mutant: the mark is set without being looked at.
BeginRehandshake(r) ==
    /\ rx[r] = "trigger"
    /\ RxGoto(r, "reserve")
    /\ inFlight' = TRUE
    /\ UNCHANGED <<at, hs, closing, transport, open, decryptFails, fails, backoff, wait, winAge,
                   winCount, granted, cleared>>

TryBeginRehandshake(r) ==
    /\ rx[r] = "trigger"
    /\ RxGoto(r, IF inFlight THEN "idle" ELSE "reserve")
    /\ inFlight' = TRUE
    /\ UNCHANGED <<at, hs, closing, transport, open, decryptFails, fails, backoff, wait, winAge,
                   winCount, granted, cleared>>

Reserve(r) ==
    /\ rx[r] = "reserve"
    /\ ReserveRehandshakeAttempt
    /\ RxGoto(r, IF Allowed THEN "launch" ELSE "end")
    /\ UNCHANGED <<at, hs, closing, transport, open>>

Refused(r) ==
    /\ rx[r] = "end"
    /\ EndRehandshake
    /\ RxGoto(r, "idle")
    /\ UNCHANGED <<at, hs, closing, transport, open>>

\* ResetDecryptFailures, and the goroutine is started.  The branch for a peer
\* without any address is not taken: processHandshake gives every peer both.
Launch(r, a) ==
    /\ rx[r] = "launch"
    /\ at[a] = "free"
    /\ decryptFails' = 0
    /\ RxGoto(r, "idle")
    /\ Goto(a, "start")
    /\ UNCHANGED <<hs, closing, transport, open, fails, inFlight, backoff, wait, winAge,
                   winCount, granted, cleared>>

----------------------------------------------------------------------------
(* The re-handshake goroutine: sendFastRehandshake and its bookkeeping.    *)

Start(a) ==
    /\ at[a] = "start"
    /\ Goto(a, IF closing THEN "end" ELSE IF transport = "tcp" THEN "sendTCP" ELSE "sendUDP")
    /\ UNCHANGED <<rx, hs, closing, peerVars>>

\* Busy (a handshake is pending at this address), failed, or written.
Sent(a) ==
    /\ Goto(a, "end") \/ Goto(a, "fail") \/ Goto(a, "success")
    /\ UNCHANGED <<rx, hs, closing, peerVars>>

SendUDP(a) == at[a] = "sendUDP" /\ Sent(a)
SendTCP(a) == at[a] = "sendTCP" /\ Sent(a)

\* Mutant: > for >= in the comparison with the threshold.
FailBeyondThreshold(a) ==
    /\ at[a] = "fail"
    /\ RecordRehandshakeFailure
    /\ Goto(a, IF fails' > FailThreshold THEN "fallback" ELSE "end")
    /\ UNCHANGED <<rx, hs, closing, transport, open>>

Fail(a) ==
    /\ at[a] = "fail"
    /\ RecordRehandshakeFailure
    /\ Goto(a, IF fails' >= FailThreshold THEN "fallback" ELSE "end")
    /\ UNCHANGED <<rx, hs, closing, transport, open>>

Fallback(a) ==
    /\ at[a] = "fallback"
    /\ RemovePeer
    /\ Goto(a, "end")
    /\ UNCHANGED <<rx, hs, closing>>

\* The message was written; nothing is known of an answer.
Success(a) ==
    /\ at[a] = "success"
    /\ RecordRehandshakeSuccess
    /\ Goto(a, "end")
    /\ UNCHANGED <<rx, hs, closing, transport, open>>

End(a) ==
    /\ at[a] = "end"
    /\ EndRehandshake
    /\ Goto(a, "free")
    /\ UNCHANGED <<rx, hs, closing, transport, open>>

attempt(a) ==
    \/ Start(a) \/ SendUDP(a) \/ Fail(a) \/ Fallback(a) \/ Success(a) \/ End(a)

receive(r) ==
    \/ GetPeer(r) \/ Decrypt(r) \/ TryBeginRehandshake(r) \/ Reserve(r) \/ Refused(r)
    \/ \E a \in Attempts : Launch(r, a)

----------------------------------------------------------------------------
(* The rest of the node.                                                   *)

\* handleExistingPeer has the peer in hand; it may be closed before the switch.
HandshakeDone(h, t) ==
    /\ hs[h] = "idle"
    /\ open
    /\ hs' = [hs EXCEPT ![h] = t]
    /\ UNCHANGED <<rx, at, closing, peerVars>>

HandshakeSwitch(h) ==
    /\ hs[h] # "idle"
    /\ UpgradeTransport(hs[h])
    /\ hs' = [hs EXCEPT ![h] = "idle"]
    /\ UNCHANGED <<rx, at, closing>>

\* Heartbeat timeout, shutdown: the peer goes for another reason.
DropPeer ==
    /\ open
    /\ RemovePeer
    /\ UNCHANGED <<rx, at, hs, closing>>

StopNode ==
    /\ ~closing
    /\ closing' = TRUE
    /\ UNCHANGED <<rx, at, hs, peerVars>>

Tick ==
    /\ wait' = Less(wait)
    /\ winAge' = Smaller(winAge + 1, Window)
    /\ granted' = [i \in 0..(Window - 1) |-> IF i = 0 THEN 0 ELSE granted[i - 1]]
    /\ UNCHANGED <<rx, at, hs, closing, transport, open, decryptFails, fails, inFlight, backoff,
                   winCount, cleared>>

Next ==
    \/ \E r \in Receivers : receive(r)
    \/ \E a \in Attempts : attempt(a) \/ SendTCP(a)
    \/ \E h \in Handlers : HandshakeSwitch(h) \/ \E t \in Transports : HandshakeDone(h, t)
    \/ DropPeer \/ StopNode \/ Tick

(***************************************************************************)
(* Goroutines are scheduled and sleeps end.  A write to a TCP connection   *)
(* has no deadline and may block for ever; a UDP write returns.  Nothing   *)
(* is assumed of what arrives.                                             *)
(***************************************************************************)
Fairness ==
    /\ \A r \in Receivers : WF_vars(rx[r] # "idle" /\ receive(r))
    /\ \A a \in Attempts : WF_vars(attempt(a))

Spec == Init /\ [][Next]_vars
FairSpec == Spec /\ Fairness
----------------------------------------------------------------------------
(***************************************************************************)
(* The in-flight mark is set only while some re-handshake is under way, so *)
(* that someone is left to clear it: TryBeginRehandshake never refuses for *)
(* ever on behalf of an attempt that is over.                              *)
(***************************************************************************)
MarkHasHolder == inFlight => Holders # {}

(***************************************************************************)
(* Overlap is limited: there is one re-handshake more than the times       *)
(* UpgradeTransport or Close cleared the mark under a running one.         *)
(* Without such a reset TryBeginRehandshake lets one through at a time.    *)
(***************************************************************************)
OverlapBounded == Cardinality(Holders) <= cleared + 1

(***************************************************************************)
(* The backoff is Base doubled for every failure after the first, capped;  *)
(* it and the failure count are reset together on every path, however the  *)
(* attempts of two sessions overlap.                                       *)
(***************************************************************************)
BackoffMatchesFailures ==
    backoff = IF fails = 0 THEN 0 ELSE Smaller(Base * 2^(fails - 1), MaxBackoff)

\* The attempts of the last Window time units: the k-th of those of age i.
Recent == UNION {{i} \X (1..granted[i]) : i \in 0..(Window - 1)}

(***************************************************************************)
(* The window restarts at the first attempt after it has expired, so any   *)
(* stretch of Window time units sees at most 2 * MaxInWindow - 1 attempts  *)
(* between two resets of the throttle.                                     *)
(***************************************************************************)
RateLimited == Cardinality(Recent) <= 2 * MaxInWindow - 1

(***************************************************************************)
(* After FailThreshold failed attempts in a row the peer is removed, and   *)
(* its reconnection scheduled, unless a completed handshake resets the     *)
(* count first.                                                            *)
(***************************************************************************)
ThresholdRemovesPeer == (open /\ fails >= FailThreshold) ~> (~open \/ fails < FailThreshold)

(***************************************************************************)
(* The in-flight mark is always cleared again, except while the write of a *)
(* handshake blocks on a TCP connection.                                   *)
(***************************************************************************)
Blocked == \E a \in Attempts : at[a] = "sendTCP"
MarkIsCleared == inFlight ~> (~inFlight \/ Blocked)
=============================================================================
