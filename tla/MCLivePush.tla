----------------------------- MODULE MCLivePush -----------------------------
(* Instances of LivePush for TLC. *)
EXTENDS LivePush

CONSTANTS a, b  \* two sessions

OneSession == {a}
TwoSessions == {a, b}
=============================================================================
