--------------------------- MODULE MessageChannel ---------------------------
(***************************************************************************)
(* What the data plane promises an application that sends to one peer      *)
(* (node/node_channel.go, node/data_flow.go): messages may be lost, but    *)
(* what arrives was sent, whole, in the order in which the sends got the   *)
(* peer's send lock, and at most once.                                     *)
(*                                                                         *)
(* The promise holds until the two goroutines that read for the peer       *)
(* overlap between decrypting a frame and reassembling it; from then on    *)
(* (broken) nothing is promised.                                           *)
(***************************************************************************)
EXTENDS Naturals, Sequences

CONSTANT Contents  \* what a message can be

VARIABLES
    sent,       \* the messages, in the order of sending
    delivered,  \* the messages handed to the application
    last,       \* the place in sent of the last one delivered
    broken      \* the promise no longer holds

vars == <<sent, delivered, last, broken>>

Init ==
    /\ sent = <<>>
    /\ delivered = <<>>
    /\ last = 0
    /\ broken = FALSE

Send ==
    /\ \E m \in Contents : sent' = Append(sent, m)
    /\ UNCHANGED <<delivered, last, broken>>

\* The messages between last and i are lost.
Deliver ==
    /\ \E i \in (last + 1)..Len(sent) :
          /\ delivered' = Append(delivered, sent[i])
          /\ last' = i
    /\ UNCHANGED <<sent, broken>>

Next ==
    \/ ~broken /\ (Send \/ Deliver)
    \/ broken' = TRUE

Spec == Init /\ [][Next]_vars
=============================================================================
