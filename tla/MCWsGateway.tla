---------------------------- MODULE MCWsGateway ----------------------------
(* Instances of WsGateway for TLC. *)
EXTENDS WsGateway, TLC

CONSTANTS p1, p2

TwoPeers == {p1, p2}

\* Peers are interchangeable, and every property here is about states or steps.
PeerSymmetry == Permutations(TwoPeers)
=============================================================================
