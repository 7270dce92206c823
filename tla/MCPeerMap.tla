----------------------------- MODULE MCPeerMap -----------------------------
(* Two users with a session of their own each and one that both see, the   *)
(* way an unfiltered connection (no user) sees every session.              *)
EXTENDS PeerMap, TLC

CONSTANTS c1, c2, a, b, c

MCClient == {c1, c2}
MCSession == {a, b, c}
MCSees == c1 :> {a, b} @@ c2 :> {b, c}
=============================================================================
