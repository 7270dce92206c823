------------------------------ MODULE PeerMap ------------------------------
(***************************************************************************)
(* HermesWsBridge._peer_to_session: one dictionary for all connections,    *)
(* cleared and refilled by every list_sessions (bridge/hermes_ws_bridge.py *)
(* 240-281) and read, unlocked, by every op that names a peer.             *)
(*                                                                         *)
(* list_sessions runs in two places: on the event loop's thread for the    *)
(* sessions.list op, which keeps every coroutine waiting, and on executor  *)
(* threads for the re-listing of each connection's poller.  Executor       *)
(* threads run between any two steps of the others.                        *)
(*                                                                         *)
(* Abstractions.  A peer id is the session it names (the 40-bit hash is    *)
(* taken to be injective).  What the query returns for a connection is a   *)
(* constant: LivePush has listings that change and that hit the limit.     *)
(* Names are apart from those of Connections, which this module is         *)
(* extended beside.                                                        *)
(***************************************************************************)
EXTENDS Naturals, FiniteSets

CONSTANTS
    Client,        \* authenticated connections
    Session,
    Sees,          \* Sees[c]: what list_sessions(current_user of c) returns
    Loop,          \* the sessions.list that runs on the event loop's thread
    None,
    MaxFailures    \* bound: reads of the store that raise

ASSUME PeersAssumption ==
    /\ Sees \in [Client -> SUBSET Session]
    /\ Loop \notin Client /\ None \notin Client \cup {Loop}
    /\ MaxFailures \in Nat

\* Calls of list_sessions: one per poller, and the event loop's own.
Job == Client \cup {Loop}

VARIABLES
    mapped,   \* the sessions in _peer_to_session
    at,       \* at[j]: "idle", or the step of list_sessions that j is before
    todo,     \* todo[j]: listed sessions that j has not mapped yet
    caller,   \* the connection whose sessions.list the loop is running, or None
    polling,  \* connections whose poller has been started
    known,    \* known[c]: the peers that the client of c has been told of
    refused,  \* history and message.send ops answered "session not found"
    failures, \* reads that raised so far
    \* History.
    cleared,  \* the last job to clear the map, or None
    latest    \* what that job has listed, once it has raised nothing

peersVars == <<mapped, at, todo, caller, polling, known, refused, cleared, latest, failures>>

LoopIsFree == at[Loop] = "idle"

PeersInit ==
    /\ mapped = {}
    /\ at = [j \in Job |-> "idle"]
    /\ todo = [j \in Job |-> {}]
    /\ caller = None
    /\ polling = {}
    /\ known = [c \in Client |-> {}]
    /\ refused = {}
    /\ cleared = None /\ latest = {}
    /\ failures = 0

-----------------------------------------------------------------------------
(* list_sessions.                                                          *)

(* The query, then .clear(). *)
Clears(j, listing) ==
    /\ mapped' = {}
    /\ at' = [at EXCEPT ![j] = "tops"]
    /\ todo' = [todo EXCEPT ![j] = listing]
    /\ cleared' = j
    /\ latest' = listing

(* The op sessions.list of connection c starts, on the event loop. *)
LoopLists(c) ==
    /\ LoopIsFree
    /\ caller' = c
    /\ Clears(Loop, Sees[c])
    /\ UNCHANGED <<polling, known, refused, failures>>

(* A tick of the poller of c comes to its re-listing and hands it over to  *)
(* an executor thread, which takes a turn of the event loop.               *)
PollerLists(c) ==
    /\ LoopIsFree
    /\ c \in polling
    /\ at[c] = "idle"
    /\ at' = [at EXCEPT ![c] = "handed"]
    /\ UNCHANGED <<mapped, todo, caller, polling, known, refused, cleared, latest, failures>>

(* The executor thread clears, whatever the event loop is doing. *)
PollerClears(c) ==
    /\ at[c] = "handed"
    /\ Clears(c, Sees[c])
    /\ UNCHANGED <<caller, polling, known, refused, failures>>

(* Its query raises before the clear: the tick is abandoned.  (On the loop *)
(* this leaves everything as it was.)                                      *)
QueryRaises(c) ==
    /\ at[c] = "handed"
    /\ failures < MaxFailures
    /\ failures' = failures + 1
    /\ at' = [at EXCEPT ![c] = "idle"]
    /\ UNCHANGED <<mapped, todo, caller, polling, known, refused, cleared, latest>>

(* _last_message_ids(...) of the listed sessions. *)
ReadsTops(j) ==
    /\ at[j] = "tops"
    /\ at' = [at EXCEPT ![j] = "fill"]
    /\ UNCHANGED <<mapped, todo, caller, polling, known, refused, cleared, latest, failures>>

(* ... raises: the sessions.list op answers "internal", a poller's tick is *)
(* abandoned; either way the map stays as the clear left it.               *)
TopsRaise(j) ==
    /\ at[j] = "tops"
    /\ failures < MaxFailures
    /\ failures' = failures + 1
    /\ at' = [at EXCEPT ![j] = "idle"]
    /\ todo' = [todo EXCEPT ![j] = {}]
    /\ caller' = IF j = Loop THEN None ELSE caller
    /\ latest' = IF j = cleared THEN {} ELSE latest
    /\ UNCHANGED <<mapped, polling, known, refused, cleared>>

\* Mutant: the loop assigns a fresh one-entry map.
MapsOnly(j, s) ==
    /\ at[j] = "fill"
    /\ s \in todo[j]
    /\ mapped' = {s}
    /\ todo' = [todo EXCEPT ![j] = @ \ {s}]
    /\ UNCHANGED <<at, caller, polling, known, refused, cleared, latest, failures>>

\* Mutant: only peers that the clients do not know yet are mapped.
MapsNew(j, s) ==
    /\ at[j] = "fill"
    /\ s \in todo[j]
    /\ mapped' = IF \E c \in Client : s \in known[c] THEN mapped ELSE mapped \cup {s}
    /\ todo' = [todo EXCEPT ![j] = @ \ {s}]
    /\ UNCHANGED <<at, caller, polling, known, refused, cleared, latest, failures>>

(* One turn of the loop that fills the map. *)
Maps(j, s) ==
    /\ at[j] = "fill"
    /\ s \in todo[j]
    /\ mapped' = mapped \cup {s}
    /\ todo' = [todo EXCEPT ![j] = @ \ {s}]
    /\ UNCHANGED <<at, caller, polling, known, refused, cleared, latest, failures>>

(* The listing is returned, and the client told: by the response, which    *)
(* also starts the poller, ...                                             *)
LoopReturns ==
    /\ at[Loop] = "fill"
    /\ todo[Loop] = {}
    /\ at' = [at EXCEPT ![Loop] = "idle"]
    /\ known' = [known EXCEPT ![caller] = @ \cup Sees[caller]]
    /\ polling' = polling \cup {caller}
    /\ caller' = None
    /\ UNCHANGED <<mapped, todo, refused, cleared, latest, failures>>

(* ... or by a dialog.new for each session without a watermark. *)
PollerReturns(c) ==
    /\ LoopIsFree
    /\ at[c] = "fill"
    /\ todo[c] = {}
    /\ at' = [at EXCEPT ![c] = "idle"]
    /\ known' = [known EXCEPT ![c] = @ \cup Sees[c]]
    /\ UNCHANGED <<mapped, todo, caller, polling, refused, cleared, latest, failures>>

-----------------------------------------------------------------------------
\* Mutant: the map is not asked.
LooksUpBlindly(c, s) ==
    /\ LoopIsFree
    /\ s \in known[c]
    /\ refused' = refused \cup {<<c, s>>}
    /\ UNCHANGED <<mapped, at, todo, caller, polling, known, cleared, latest, failures>>

(* history, message.send and peer.full: look the peer up and, when it is   *)
(* not there, answer with an error.                                        *)
LooksUp(c, s) ==
    /\ LoopIsFree
    /\ s \in known[c]
    /\ s \notin mapped
    /\ refused' = refused \cup {<<c, s>>}
    /\ UNCHANGED <<mapped, at, todo, caller, polling, known, cleared, latest, failures>>

-----------------------------------------------------------------------------
Lists ==
    \/ \E c \in Client : LoopLists(c) \/ PollerLists(c) \/ PollerClears(c) \/ PollerReturns(c)
    \/ \E j \in Job : ReadsTops(j) \/ (\E s \in Session : Maps(j, s))
    \/ LoopReturns

PeersNext ==
    \/ Lists
    \/ \E j \in Job : TopsRaise(j)
    \/ \E c \in Client : QueryRaises(c)
    \/ \E c \in Client, s \in Session : LooksUp(c, s)

PeersSpec == PeersInit /\ [][PeersNext]_peersVars

(* A call of list_sessions that is under way goes on; a poller that has    *)
(* been started comes to its re-listing again and again.                   *)
Progress(j) ==
    \/ ReadsTops(j)
    \/ \E s \in Session : Maps(j, s)
    \/ j = Loop /\ LoopReturns
    \/ j # Loop /\ (PollerLists(j) \/ PollerClears(j) \/ PollerReturns(j))

PeersFairSpec == PeersSpec /\ \A j \in Job : SF_peersVars(Progress(j))

-----------------------------------------------------------------------------
(* Properties.                                                             *)

\* Types; a listing in progress on the loop has a connection it is for.
PeersTypeOK ==
    /\ mapped \subseteq Session
    /\ at \in [Job -> {"idle", "handed", "tops", "fill"}]
    /\ todo \in [Job -> SUBSET Session]
    /\ caller \in Client \cup {None}
    /\ at[Loop] # "handed" /\ (~LoopIsFree => caller \in Client)
    /\ polling \subseteq Client
    /\ known \in [Client -> SUBSET Session]
    /\ refused \subseteq Client \X Session
    /\ cleared \in Job \cup {None}
    /\ failures \in 0..MaxFailures

\* Calls that overlap remove each other's entries, but they cannot leave the
\* map short between them: whatever their order, what the call that cleared
\* last has listed is in the map, or about to be put there by that call, and
\* stays in the map until another call clears it.
LastListingIsMapped ==
    cleared # None => latest \subseteq mapped \cup todo[cleared]

\* A session that a poller lists is served again and again, whatever the
\* other connections list.
ListedComesBack ==
    \A c \in Client : \A s \in Session :
        s \in Sees[c] => (c \in polling ~> s \in mapped)

\* "The bridge keeps the reverse map peerId -> session_id in memory, rebuilt
\* on every sessions.list": an op for a peer that its client knows is refused
\* only after a listing that raised or is of another user, who does not see the
\* session, or between the moments when the last listing clears the map and
\* adds it again.
RefusedOnlyMeanwhile ==
    [][\A r \in refused' \ refused :
          cleared # None /\ (r[2] \in latest => r[2] \in todo[cleared])]_peersVars
=============================================================================
