-------------------------------- MODULE Feed --------------------------------
(***************************************************************************)
(* What the bridge promises the client of one connection, without saying   *)
(* how: of every session, the rows that the client has had, or was told to *)
(* fetch, or saw come to be in a turn of its own, are at any time the      *)
(* first so many.  They never become fewer, and there are none of a        *)
(* session that the client was not told of.  No poller, snapshot,          *)
(* watermark or map appears here; LivePush is shown to implement it.       *)
(***************************************************************************)
EXTENDS Naturals

CONSTANT Session

VARIABLES
    rows,   \* rows[s]: how many rows s has
    known,  \* the sessions the client was told of
    had     \* had[s]: the rows of s that it has had

vars == <<rows, known, had>>

Init ==
    /\ rows = [s \in Session |-> 0]
    /\ known \in SUBSET Session
    /\ had = [s \in Session |-> {}]

(* Somebody writes a row. *)
Grows(s) ==
    /\ rows' = [rows EXCEPT ![s] = @ + 1]
    /\ UNCHANGED <<known, had>>

Prefixes(s) == {1..n : n \in 0..rows[s]}

(* A listing or an announcement: the client knows L, and can fetch the rows *)
(* of each that are said to be there.                                      *)
Lists(L) ==
    \E fetched \in [L -> UNION {Prefixes(s) : s \in L}] :
        /\ \A s \in L : fetched[s] \in Prefixes(s)
        /\ known' = known \cup L
        /\ had' = [s \in Session |-> IF s \in L THEN had[s] \cup fetched[s] ELSE had[s]]
        /\ UNCHANGED rows

(* A row is pushed, or a turn is over. *)
Tells(s) ==
    /\ s \in known
    /\ \E rest \in Prefixes(s) : had' = [had EXCEPT ![s] = @ \cup rest]
    /\ UNCHANGED <<rows, known>>

Next ==
    \/ \E s \in Session : Grows(s) \/ Tells(s)
    \/ \E L \in SUBSET Session : Lists(L)

Spec == Init /\ [][Next]_vars
=============================================================================
