---- MODULE MCPeerTable ----
\* Peer p1 talks over UDP from two addresses and over a TCP connection,
\* p2 and p3 over UDP.
EXTENDS PeerTable, TLC

CONSTANTS p1, p2, p3, u1, v1, t1, u2, u3

MCOwner == (u1 :> p1) @@ (v1 :> p1) @@ (t1 :> p1) @@ (u2 :> p2) @@ (u3 :> p3)

\* The removals are alike, and so are p2 and p3 with their links.
MCSymmetry ==
    {r @@ p : r \in Permutations(Removals),
              p \in {[x \in {p2} |-> p2],
                     (p2 :> p3) @@ (p3 :> p2) @@ (u2 :> u3) @@ (u3 :> u2)}}
============================
