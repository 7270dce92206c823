--------------------------- MODULE MCConnections ---------------------------
(* An instance of Connections for TLC: a tool, the client of one user, and *)
(* one that names no user; u2 is a scope that nobody claims.               *)
EXTENDS Connections, TLC

CONSTANTS c1, c2, c3, u1, u2

MCConn == {c1, c2, c3}
MCTool == {c1}
MCUser == {u1, u2}
MCClaims == c1 :> {NoUser} @@ c2 :> {u1} @@ c3 :> {NoUser}
=============================================================================
