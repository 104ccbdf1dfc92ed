------------------------------ MODULE Connect ------------------------------
(***************************************************************************)
(* A call of Connect (node/connect_flow.go): a TCP punch (dial and accept  *)
(* at once, nat/tcp_punch.go) and a UDP worker report to a channel; the    *)
(* call takes the first connection, or after two seconds leaves the rest   *)
(* to goroutines that outlive it: a fallback to a relay and a wait for a   *)
(* late TCP connection.  Everything is tied to contexts: the caller's, and *)
(* the one of the punch, cancelled when the call returns.                  *)
(*                                                                         *)
(* Timers may fire at any time.  When several cases of a select are ready, *)
(* any of them is taken.  Packets are left out: connections and            *)
(* write errors come from the network when they come.                      *)
(***************************************************************************)
EXTENDS Naturals, Sequences

CONSTANTS
    Calls,       \* calls of Connect with goroutines at a time
    EnableRelay  \* the option; there is a relay manager in any case

Ways == {"dial", "listen"}
Owners == {"app", "discovery"}

\* Mutant: room for one result.
ResultCapOne == 1

\* Capacities of the channels resultCh and resultChan.
ResultCap == 2
PunchCap == 2

VARIABLES
    pc,        \* idle, start, await, returned
    owner,     \* who called: only an application's context can be cancelled
    ctxDone,   \* the caller's context is done
    punchDone, \* the context of the punch is done
    attempt,   \* the two goroutines of Punch: off, run, made, end
    offered,   \* connections in the channel of Punch
    punch,     \* the TCP worker, which is in Punch: off, wait, end
    udp,       \* the UDP worker: off, run, end
    results,   \* resultCh: connections (dial or listen), "err" and "udp"
    fallback,  \* scheduleRelayFallback: off, wait, then relayed, direct, cancelled
    late,      \* awaitLateTCPUpgrade: off, wait, end
    conn,      \* what became of the connections: none, made, used, closed
    closing    \* the node is closing

workers == <<attempt, offered, punch, udp, fallback, late>>
callState == <<pc, owner, ctxDone, punchDone, workers, results, conn>>
connectVars == <<callState, closing>>

Ended(k) ==
    /\ pc[k] \in {"idle", "returned"}
    /\ \A w \in Ways : attempt[k][w] \in {"off", "end"}
    /\ punch[k] # "wait" /\ udp[k] # "run" /\ fallback[k] # "wait" /\ late[k] # "wait"

ConnectInit ==
    /\ pc = [k \in Calls |-> "idle"]
    /\ owner = [k \in Calls |-> "app"]
    /\ ctxDone = [k \in Calls |-> FALSE] /\ punchDone = [k \in Calls |-> FALSE]
    /\ attempt = [k \in Calls |-> [w \in Ways |-> "off"]]
    /\ offered = [k \in Calls |-> <<>>]
    /\ punch = [k \in Calls |-> "off"] /\ udp = [k \in Calls |-> "off"]
    /\ results = [k \in Calls |-> <<>>]
    /\ fallback = [k \in Calls |-> "off"] /\ late = [k \in Calls |-> "off"]
    /\ conn = [k \in Calls |-> [w \in Ways |-> "none"]]
    /\ closing = FALSE

----------------------------------------------------------------------------
(* The call.                                                               *)

\* startPunchWorkers: the workers run before the handshakes are registered.
Begin(k, o) ==
    /\ Ended(k)
    /\ pc' = [pc EXCEPT ![k] = "start"]
    /\ owner' = [owner EXCEPT ![k] = o]
    /\ ctxDone' = [ctxDone EXCEPT ![k] = FALSE]
    /\ punchDone' = [punchDone EXCEPT ![k] = FALSE]
    /\ attempt' = [attempt EXCEPT ![k] = [w \in Ways |-> "run"]]
    /\ offered' = [offered EXCEPT ![k] = <<>>]
    /\ punch' = [punch EXCEPT ![k] = "wait"] /\ udp' = [udp EXCEPT ![k] = "run"]
    /\ results' = [results EXCEPT ![k] = <<>>]
    /\ fallback' = [fallback EXCEPT ![k] = "off"] /\ late' = [late EXCEPT ![k] = "off"]
    /\ conn' = [conn EXCEPT ![k] = [w \in Ways |-> "none"]]
    /\ UNCHANGED closing

registerPendingHandshakes(k) ==
    /\ pc[k] = "start"
    /\ pc' = [pc EXCEPT ![k] = "await"]
    /\ UNCHANGED <<owner, ctxDone, punchDone, workers, results, conn, closing>>

\* The deferred punchCancel.
Return(k) ==
    /\ pc' = [pc EXCEPT ![k] = "returned"]
    /\ punchDone' = [punchDone EXCEPT ![k] = TRUE]

\* The handshake is written to a connection: it works or it does not.
UseConn(k, w) ==
    \E s \in {"used", "closed"} : conn' = [conn EXCEPT ![k][w] = s]

\* Mutant: no fallback is scheduled.
UdpResultNoFallback(k) ==
    /\ late' = [late EXCEPT ![k] = "wait"]
    /\ fallback' = [fallback EXCEPT ![k] = "off"]

\* scheduleRelayFallback and awaitLateTCPUpgrade.
UdpResult(k) ==
    /\ late' = [late EXCEPT ![k] = "wait"]
    /\ fallback' = [fallback EXCEPT ![k] = IF EnableRelay THEN "wait" ELSE "off"]

\* awaitConnectResult, a case of the select per disjunct.
awaitConnectResult(k) ==
    /\ pc[k] = "await"
    /\ \/ /\ ctxDone[k] \/ closing
          /\ Return(k)
          /\ UNCHANGED <<results, conn, late, fallback>>
       \/ /\ results[k] # <<>>
          /\ results' = [results EXCEPT ![k] = Tail(@)]
          /\ \/ /\ Head(results[k]) \in Ways
                /\ UseConn(k, Head(results[k]))
                /\ Return(k)
                /\ UNCHANGED <<late, fallback>>
             \/ /\ Head(results[k]) = "err"
                /\ UNCHANGED <<pc, punchDone, conn, late, fallback>>
             \/ /\ Head(results[k]) = "udp"
                /\ UdpResult(k)
                /\ Return(k)
                /\ UNCHANGED conn
       \/ /\ fallback' = [fallback EXCEPT ![k] = "relayed"]
          /\ Return(k)
          /\ UNCHANGED <<results, conn, late>>
    /\ UNCHANGED <<owner, ctxDone, attempt, offered, punch, udp, closing>>

----------------------------------------------------------------------------
(* Punch: the context of its goroutines ends with the punch or its return. *)

PunchOver(k) == punchDone[k] \/ punch[k] = "end"

\* DialContext succeeds while its context lasts.  Accept does not know the
\* context, which is looked at before every call of 200 ms: the last call may
\* succeed after the punch is over.
Connected(k, w) ==
    /\ attempt[k][w] = "run"
    /\ w = "dial" => ~PunchOver(k)
    /\ attempt' = [attempt EXCEPT ![k][w] = "made"]
    /\ conn' = [conn EXCEPT ![k][w] = "made"]
    /\ UNCHANGED <<pc, owner, ctxDone, punchDone, offered, punch, udp, fallback, late,
                   results, closing>>

\* Mutant: the connection is closed when its goroutine ends, offered or not.
EndAttemptCloses(k, w) ==
    /\ \/ /\ attempt[k][w] = "made" /\ Len(offered[k]) < PunchCap
          /\ offered' = [offered EXCEPT ![k] = Append(@, w)]
          /\ conn' = [conn EXCEPT ![k][w] = "closed"]
       \/ /\ attempt[k][w] = "run" /\ (PunchOver(k) \/ w = "listen")
          /\ UNCHANGED <<conn, offered>>
    /\ attempt' = [attempt EXCEPT ![k][w] = "end"]
    /\ UNCHANGED <<pc, owner, ctxDone, punchDone, punch, udp, fallback, late,
                   results, closing>>

\* The goroutine offers its connection, or closes it; without one it ends, and
\* the one that accepts does so at once when the port cannot be listened on.
EndAttempt(k, w) ==
    /\ \/ /\ attempt[k][w] = "made" /\ Len(offered[k]) < PunchCap
          /\ offered' = [offered EXCEPT ![k] = Append(@, w)]
          /\ UNCHANGED conn
       \/ /\ attempt[k][w] = "made" /\ PunchOver(k)
          /\ conn' = [conn EXCEPT ![k][w] = "closed"]
          /\ UNCHANGED offered
       \/ /\ attempt[k][w] = "run" /\ (PunchOver(k) \/ w = "listen")
          /\ UNCHANGED <<conn, offered>>
    /\ attempt' = [attempt EXCEPT ![k][w] = "end"]
    /\ UNCHANGED <<pc, owner, ctxDone, punchDone, punch, udp, fallback, late,
                   results, closing>>

Report(k, r) ==
    /\ Len(results[k]) < ResultCap
    /\ results' = [results EXCEPT ![k] = Append(@, r)]

\* The first connection, or the end of the context or of ten seconds.
EndPunch(k) ==
    /\ punch[k] = "wait"
    /\ \/ /\ offered[k] # <<>>
          /\ Report(k, Head(offered[k]))
          /\ offered' = [offered EXCEPT ![k] = Tail(@)]
       \/ /\ Report(k, "err")
          /\ UNCHANGED offered
    /\ punch' = [punch EXCEPT ![k] = "end"]
    /\ UNCHANGED <<pc, owner, ctxDone, punchDone, attempt, udp, fallback, late,
                   conn, closing>>

\* After two seconds of sending, or cancelled.
EndUdp(k) ==
    /\ udp[k] = "run"
    /\ \/ Report(k, "udp")
       \/ punchDone[k] /\ UNCHANGED results
    /\ udp' = [udp EXCEPT ![k] = "end"]
    /\ UNCHANGED <<pc, owner, ctxDone, punchDone, attempt, offered, punch, fallback, late,
                   conn, closing>>

----------------------------------------------------------------------------
(* What outlives the call.                                                 *)

\* The relay is tried unless the address is in addrToPeer by then.
EndFallback(k) ==
    /\ fallback[k] = "wait"
    /\ \/ /\ ctxDone[k] \/ closing
          /\ fallback' = [fallback EXCEPT ![k] = "cancelled"]
       \/ \E f \in {"direct", "relayed"} : fallback' = [fallback EXCEPT ![k] = f]
    /\ UNCHANGED <<pc, owner, ctxDone, punchDone, attempt, offered, punch, udp, late,
                   results, conn, closing>>

\* A connection ends the wait, other results do not.
awaitLateTCPUpgrade(k) ==
    /\ late[k] = "wait"
    /\ \/ /\ late' = [late EXCEPT ![k] = "end"]
          /\ UNCHANGED <<results, conn>>
       \/ /\ results[k] # <<>>
          /\ results' = [results EXCEPT ![k] = Tail(@)]
          /\ \/ /\ Head(results[k]) \in Ways
                /\ UseConn(k, Head(results[k]))
                /\ late' = [late EXCEPT ![k] = "end"]
             \/ /\ Head(results[k]) \notin Ways
                /\ UNCHANGED <<conn, late>>
    /\ UNCHANGED <<pc, owner, ctxDone, punchDone, attempt, offered, punch, udp, fallback,
                   closing>>

\* The caller cancels its context, and with it the one of the punch.
Cancel(k) ==
    /\ pc[k] # "idle" /\ owner[k] = "app" /\ ~ctxDone[k]
    /\ ctxDone' = [ctxDone EXCEPT ![k] = TRUE]
    /\ punchDone' = [punchDone EXCEPT ![k] = TRUE]
    /\ UNCHANGED <<pc, owner, workers, results, conn, closing>>

\* The goroutine that waits for n.closing.
CancelOnClosing(k) ==
    /\ closing /\ pc[k] # "idle" /\ ~punchDone[k]
    /\ punchDone' = [punchDone EXCEPT ![k] = TRUE]
    /\ UNCHANGED <<pc, owner, ctxDone, workers, results, conn, closing>>

Close ==
    /\ ~closing
    /\ closing' = TRUE
    /\ UNCHANGED callState

\* The goroutines of a call.
WorkerStep(k) ==
    \/ registerPendingHandshakes(k) \/ awaitConnectResult(k)
    \/ EndPunch(k) \/ EndUdp(k) \/ EndFallback(k) \/ awaitLateTCPUpgrade(k)
    \/ CancelOnClosing(k)
    \/ \E w \in Ways : EndAttempt(k, w)

ConnectStep(k) == WorkerStep(k) \/ Cancel(k) \/ \E w \in Ways : Connected(k, w)
=============================================================================
