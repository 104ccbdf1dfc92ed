---------------------------- MODULE MCHandshake ----------------------------
(***************************************************************************)
(* Handshake for TLC: nodes and HandshakeState objects are interchangeable *)
(* and the properties checked here are all safety properties.              *)
(***************************************************************************)
EXTENDS Handshake, TLC

Symmetry == Permutations(Nodes) \cup Permutations(Handshakes)
=============================================================================
