--------------------------- MODULE MCConnectFlow ---------------------------
(* Two members of the household, for TLC. *)
EXTENDS ConnectFlow

CONSTANTS u1, u2

TwoUsers == {u1, u2}
=============================================================================
