------------------------------ MODULE LivePush ------------------------------
(***************************************************************************)
(* The live push of one authenticated connection of the WebSocket bridge   *)
(* (bridge/hermes_ws_bridge.py).  Two coroutines share the dictionary      *)
(* `watermarks': the frame loop of ws_handler, which serves sessions.list  *)
(* and runs a whole turn inside message.send, and poll_new_messages.  Both *)
(* read the session store from executor threads, so the store and the      *)
(* bridge's peer map change between the moment a coroutine computes the    *)
(* arguments of a read and the moment it uses the answer.                  *)
(*                                                                         *)
(* Abstractions.  A peer id is the session it names.  The ids of the rows  *)
(* of one session are numbered 1, 2, ... in the order they are written:    *)
(* the code only ever compares ids of one session.  Rows that are neither  *)
(* user nor assistant text are left out.  Session is the set of sessions   *)
(* that the user of this connection may see.                               *)
(***************************************************************************)
EXTENDS Naturals, Sequences, FiniteSets

CONSTANTS
    Session,       \* sessions visible to the user of the connection
    None,          \* "no session", for the locals of an idle coroutine
    SessionLimit,  \* HermesWsBridge._session_limit
    RescanEvery,   \* rescan_every in poll_new_messages
    TurnRows,      \* rows the agent writes in a turn that succeeds
    MaxRows,       \* bound: rows per session
    MaxFailures    \* bound: reads of the store that raise

ASSUME ConstantsAssumption ==
    /\ None \notin Session
    /\ SessionLimit \in Nat
    /\ RescanEvery \in Nat \ {0}
    /\ TurnRows \in Nat
    /\ MaxRows \in Nat
    /\ MaxFailures \in Nat

VARIABLES
    \* The session store of the Hermes agent, and the bridge's peer map.
    born,      \* sessions that exist
    store,     \* store[s]: the origins of the rows of s; a row's id is its index
    mapped,    \* the sessions in bridge._peer_to_session
    failures,  \* reads that raised so far
    \* What ws_handler keeps for this connection.
    watched,   \* the keys of `watermarks'
    wm,        \* watermarks.get(s, 0)
    \* The locals of poll_new_messages.
    ppc,       \* where the coroutine is suspended
    todo,      \* keys of the snapshot of `watermarks' not polled yet
    snap,      \* the values of that snapshot
    peer,      \* the peer being polled, or announced
    next,      \* the first row of `fresh' not pushed yet
    last,      \* the last row of `fresh'
    listing,   \* the sessions of the listing not handled yet
    tops,      \* their topMessageId
    tick,      \* tick modulo rescan_every
    \* The locals of _handle_send.
    hpc,       \* where the turn is suspended
    hpeer,     \* the peer of the turn
    written,   \* rows the agent has written in this turn
    mark,      \* the watermark passed to messages_after at the end of the turn
    top,       \* max(m["id"] for m in persisted)
    \* What the client has been told: history, not read by any step's guard
    \* except `known', which says which peers the client can name.
    known,     \* peers the client has been told of
    base,      \* base[s]: the highest topMessageId announced for s
    pushed,    \* pushed[s]: rows sent as message.new by the poller
    jumped     \* jumped[s]: rows a turn has moved the watermark past

storeVars  == <<born, store, failures>>
pollVars   == <<ppc, todo, snap, peer, next, last, listing, tops, tick>>
sendVars   == <<hpc, hpeer, written, mark, top>>
clientVars == <<known, base, pushed, jumped>>
vars == <<storeVars, mapped, watched, wm, pollVars, sendVars, clientVars>>

Origin == {"turn", "elsewhere"}  \* this connection's agent; Telegram, cron, ...

Top(s) == Len(store[s])          \* _last_message_ids()[s]

Larger(m, n) == IF m < n THEN n ELSE m

(* What list_sessions may return: the SessionLimit sessions last active. *)
Listable ==
    {L \in SUBSET born :
        IF Cardinality(born) <= SessionLimit
           THEN L = born
           ELSE Cardinality(L) = SessionLimit}

NoOne == [s \in Session |-> 0]

Init ==
    /\ born \in SUBSET Session
    /\ store = [s \in Session |-> <<>>]
    /\ mapped \in SUBSET born        \* what earlier connections left there
    /\ failures = 0
    /\ watched = {} /\ wm = NoOne
    /\ ppc = "off" /\ todo = {} /\ snap = NoOne /\ peer = None
    /\ next = 0 /\ last = 0 /\ listing = {} /\ tops = NoOne /\ tick = 0
    /\ hpc = "idle" /\ hpeer = None /\ written = 0 /\ mark = 0 /\ top = 0
    /\ known \in {{}, born}          \* a first connection, or a reconnection
    /\ base = NoOne
    /\ pushed = [s \in Session |-> {}] /\ jumped = [s \in Session |-> {}]

-----------------------------------------------------------------------------
(* Locals go back to their initial values when the code leaves their scope. *)

(* The rest of the world: other writers of the store, other connections.   *)

NewSession(s) ==
    /\ s \notin born
    /\ born' = born \cup {s}
    /\ UNCHANGED <<store, failures, mapped, watched, wm, pollVars, sendVars, clientVars>>

(* A row that reaches the store by Telegram, cron or another client. *)
RowArrives(s) ==
    /\ s \in born
    /\ Len(store[s]) < MaxRows
    /\ store' = [store EXCEPT ![s] = Append(@, "elsewhere")]
    /\ UNCHANGED <<born, failures, mapped, watched, wm, pollVars, sendVars, clientVars>>

(* A step of another connection's list_sessions, for any user: the map it  *)
(* clears and refills entry by entry is the one this connection reads.     *)
OthersList(M) ==
    /\ M # mapped
    /\ mapped' = M
    /\ UNCHANGED <<storeVars, watched, wm, pollVars, sendVars, clientVars>>

-----------------------------------------------------------------------------
(* The frame loop of ws_handler.                                           *)

(* The sessions.list op: list_sessions runs on the event loop's own        *)
(* thread, so no coroutine of this connection runs in between.             *)
SessionsList(L) ==
    /\ hpc = "idle"
    /\ mapped' = L
    /\ wm' = [s \in Session |-> IF s \in L THEN Top(s) ELSE wm[s]]
    /\ watched' = watched \cup L
    /\ known' = known \cup L
    /\ base' = [s \in Session |-> IF s \in L THEN Top(s) ELSE base[s]]
    /\ ppc' = IF ppc = "off" THEN "sleep" ELSE ppc
    /\ UNCHANGED <<storeVars, todo, snap, peer, next, last, listing, tops, tick,
                   sendVars, pushed, jumped>>

(* The message.send op for a mapped peer, up to the point where _run is    *)
(* handed to the executor.  For an unmapped peer the op answers "session   *)
(* not found" and leaves everything as it was.                             *)
StartTurn(s) ==
    /\ hpc = "idle"
    /\ s \in known
    /\ s \in mapped
    /\ hpc' = "run"
    /\ hpeer' = s
    /\ UNCHANGED <<storeVars, mapped, watched, wm, pollVars, written, mark, top, clientVars>>

(* The coroutine of the turn returns, and its locals with it. *)
EndTurn ==
    /\ hpc' = "idle"
    /\ hpeer' = None
    /\ written' = 0 /\ mark' = 0 /\ top' = 0

(* The agent writes a row of the turn, on its own thread. *)
AgentPersists ==
    /\ hpc = "run"
    /\ written < TurnRows
    /\ Len(store[hpeer]) < MaxRows
    /\ store' = [store EXCEPT ![hpeer] = Append(@, "turn")]
    /\ written' = written + 1
    /\ UNCHANGED <<born, failures, mapped, watched, wm, pollVars,
                   hpc, hpeer, mark, top, clientVars>>

(* _run raises: the error bubble is sent and the watermark stays. *)
TurnFails ==
    /\ hpc = "run"
    /\ EndTurn
    /\ UNCHANGED <<storeVars, mapped, watched, wm, pollVars, clientVars>>

(* _run returns: the final bubble is sent, and the arguments of            *)
(* messages_after are computed before it is handed to the executor.        *)
FinishTurn ==
    /\ hpc = "run"
    /\ written = TurnRows
    /\ mark' = wm[hpeer]
    /\ hpc' = "read"
    /\ UNCHANGED <<storeVars, mapped, watched, wm, pollVars, hpeer, written, top, clientVars>>

(* messages_after(peer, mark) on an executor thread. *)
TurnReads ==
    /\ hpc = "read"
    /\ IF hpeer \in mapped /\ mark < Top(hpeer)
          THEN hpc' = "jump" /\ top' = Top(hpeer) /\ UNCHANGED <<hpeer, written, mark>>
          ELSE EndTurn
    /\ UNCHANGED <<storeVars, mapped, watched, wm, pollVars, clientVars>>

(* messages_after raises: logged, and the watermark stays. *)
TurnReadRaises ==
    /\ hpc = "read"
    /\ failures < MaxFailures
    /\ failures' = failures + 1
    /\ EndTurn
    /\ UNCHANGED <<born, store, mapped, watched, wm, pollVars, clientVars>>

(* watermarks[peer_id] = max(...), back on the event loop. *)
TurnJumps ==
    /\ hpc = "jump"
    /\ wm' = [wm EXCEPT ![hpeer] = top]
    /\ watched' = watched \cup {hpeer}
    /\ jumped' = [jumped EXCEPT ![hpeer] = @ \cup (mark + 1)..top]
    /\ EndTurn
    /\ UNCHANGED <<storeVars, mapped, pollVars, known, base, pushed>>

-----------------------------------------------------------------------------
(* poll_new_messages.                                                      *)

(* A tick begins: list(watermarks.items()). *)
Wake ==
    /\ ppc = "sleep"
    /\ ppc' = "scan"
    /\ todo' = watched
    /\ snap' = wm
    /\ UNCHANGED <<storeVars, mapped, watched, wm, peer, next, last, listing, tops, tick,
                   sendVars, clientVars>>

(* messages_after(peer_id, wm) for the next entry of the snapshot. *)
PollReads(s) ==
    /\ ppc = "scan"
    /\ s \in todo
    /\ todo' = todo \ {s}
    /\ snap' = [snap EXCEPT ![s] = 0]
    /\ IF s \in mapped /\ snap[s] < Top(s)
          THEN /\ ppc' = "push"
               /\ peer' = s
               /\ next' = snap[s] + 1
               /\ last' = Top(s)
          ELSE UNCHANGED <<ppc, peer, next, last>>
    /\ UNCHANGED <<storeVars, mapped, watched, wm, listing, tops, tick,
                   sendVars, clientVars>>

\* Mutant: messages_after does not sort its answer.
PushesUnsorted ==
    /\ ppc = "push"
    /\ \E i \in next..last : pushed' = [pushed EXCEPT ![peer] = @ \cup {i}]
    /\ ppc' = "advance"
    /\ UNCHANGED <<storeVars, mapped, watched, wm, todo, snap, peer, next, last, listing,
                   tops, tick, sendVars, known, base, jumped>>

(* await send(message.new) for the next message of `fresh'. *)
PollPushes ==
    /\ ppc = "push"
    /\ pushed' = [pushed EXCEPT ![peer] = @ \cup {next}]
    /\ ppc' = "advance"
    /\ UNCHANGED <<storeVars, mapped, watched, wm, todo, snap, peer, next, last, listing,
                   tops, tick, sendVars, known, base, jumped>>

\* Mutant: the watermark is moved to the end of the batch after its first send.
AdvancesToLast ==
    /\ ppc = "advance"
    /\ wm' = [wm EXCEPT ![peer] = Larger(@, last)]
    /\ watched' = watched \cup {peer}
    /\ IF next < last
          THEN ppc' = "push" /\ next' = next + 1 /\ UNCHANGED <<peer, last>>
          ELSE ppc' = "scan" /\ next' = 0 /\ peer' = None /\ last' = 0
    /\ UNCHANGED <<storeVars, mapped, todo, snap, listing, tops, tick, sendVars, clientVars>>

(* ... and, resumed, the watermark update that follows it. *)
PollAdvances ==
    /\ ppc = "advance"
    /\ wm' = [wm EXCEPT ![peer] = Larger(@, next)]
    /\ watched' = watched \cup {peer}
    /\ IF next < last
          THEN ppc' = "push" /\ next' = next + 1 /\ UNCHANGED <<peer, last>>
          ELSE ppc' = "scan" /\ next' = 0 /\ peer' = None /\ last' = 0
    /\ UNCHANGED <<storeVars, mapped, todo, snap, listing, tops, tick,
                   sendVars, clientVars>>

\* Mutants: the tick counter is never reduced; the re-listing never comes due.
CountsForever ==
    /\ ppc = "scan" /\ todo = {}
    /\ tick' = tick + 1
    /\ ppc' = IF tick' = RescanEvery THEN "list" ELSE "sleep"
    /\ UNCHANGED <<storeVars, mapped, watched, wm, todo, snap, peer, next, last, listing,
                   tops, sendVars, clientVars>>

NeverRescans ==
    /\ ppc = "scan" /\ todo = {}
    /\ ppc' = "sleep"
    /\ UNCHANGED <<storeVars, mapped, watched, wm, todo, snap, peer, next, last, listing,
                   tops, tick, sendVars, clientVars>>

(* Every entry of the snapshot is done: count the tick. *)
PollEndsScan ==
    /\ ppc = "scan"
    /\ todo = {}
    /\ tick' = (tick + 1) % RescanEvery
    /\ ppc' = IF tick' = 0 THEN "list" ELSE "sleep"
    /\ UNCHANGED <<storeVars, mapped, watched, wm, todo, snap, peer, next, last, listing,
                   tops, sendVars, clientVars>>

(* list_sessions on an executor thread: the query, and the maps cleared. *)
RescanClears(L) ==
    /\ ppc = "list"
    /\ mapped' = {}
    /\ listing' = L
    /\ ppc' = "fill"
    /\ UNCHANGED <<storeVars, watched, wm, todo, snap, peer, next, last, tops, tick,
                   sendVars, clientVars>>

\* Mutant: the listed sessions get their watermarks before they are announced.
FillsAndAdopts ==
    /\ ppc = "fill"
    /\ mapped' = mapped \cup listing
    /\ tops' = [s \in Session |-> IF s \in listing THEN Top(s) ELSE 0]
    /\ watched' = watched \cup listing
    /\ ppc' = "announce"
    /\ UNCHANGED <<storeVars, wm, todo, snap, peer, next, last, listing, tick,
                   sendVars, clientVars>>

(* ... _last_message_ids, and the loop that fills the maps. *)
RescanFills ==
    /\ ppc = "fill"
    /\ mapped' = mapped \cup listing
    /\ tops' = [s \in Session |-> IF s \in listing THEN Top(s) ELSE 0]
    /\ ppc' = "announce"
    /\ UNCHANGED <<storeVars, watched, wm, todo, snap, peer, next, last, listing, tick,
                   sendVars, clientVars>>

(* await send(dialog.new) for a listed session without a watermark. *)
Announce(s) ==
    /\ ppc = "announce"
    /\ s \in listing \ watched
    /\ known' = known \cup {s}
    /\ base' = [base EXCEPT ![s] = Larger(@, tops[s])]
    /\ peer' = s
    /\ listing' = listing \ {s}
    /\ ppc' = "adopt"
    /\ UNCHANGED <<storeVars, mapped, watched, wm, todo, snap, next, last, tops, tick,
                   sendVars, pushed, jumped>>

(* ... and, resumed, watermarks[pid] = topMessageId. *)
Adopt ==
    /\ ppc = "adopt"
    /\ wm' = [wm EXCEPT ![peer] = tops[peer]]
    /\ watched' = watched \cup {peer}
    /\ tops' = [tops EXCEPT ![peer] = 0]
    /\ peer' = None
    /\ ppc' = "announce"
    /\ UNCHANGED <<storeVars, mapped, todo, snap, next, last, listing, tick,
                   sendVars, clientVars>>

(* No session left to announce: sleep until the next tick. *)
RescanEnds ==
    /\ ppc = "announce"
    /\ listing \subseteq watched
    /\ listing' = {} /\ tops' = NoOne
    /\ ppc' = "sleep"
    /\ UNCHANGED <<storeVars, mapped, watched, wm, todo, snap, peer, next, last, tick,
                   sendVars, clientVars>>

\* Mutant: the try block is outside the loop, and an exception ends the poller.
PollerDies ==
    /\ ppc \in {"scan", "list", "fill"}
    /\ ppc = "scan" => todo # {}
    /\ failures < MaxFailures
    /\ failures' = failures + 1
    /\ ppc' = "off"
    /\ todo' = {} /\ snap' = NoOne /\ listing' = {}
    /\ UNCHANGED <<born, store, mapped, watched, wm, peer, next, last, tops, tick,
                   sendVars, clientVars>>

(* A read of the store raises: the rest of the tick is abandoned.  When it *)
(* is _last_message_ids that raises, the maps stay cleared.                *)
TickAborts ==
    /\ ppc \in {"scan", "list", "fill"}
    /\ ppc = "scan" => todo # {}
    /\ failures < MaxFailures
    /\ failures' = failures + 1
    /\ ppc' = "sleep"
    /\ todo' = {} /\ snap' = NoOne /\ listing' = {}
    /\ UNCHANGED <<born, store, mapped, watched, wm, peer, next, last, tops, tick,
                   sendVars, clientVars>>

-----------------------------------------------------------------------------
World ==
    \/ \E s \in Session : NewSession(s) \/ RowArrives(s)
    \/ \E M \in SUBSET born : OthersList(M)

FrameLoop ==
    \/ \E L \in Listable : SessionsList(L)
    \/ \E s \in Session : StartTurn(s)
    \/ TurnFails \/ FinishTurn \/ TurnReads \/ TurnReadRaises \/ TurnJumps

Poller ==
    \/ Wake
    \/ \E s \in Session : PollReads(s) \/ Announce(s)
    \/ PollPushes \/ PollAdvances \/ PollEndsScan
    \/ \E L \in Listable : RescanClears(L)
    \/ RescanFills \/ Adopt \/ RescanEnds

Next == World \/ FrameLoop \/ AgentPersists \/ Poller \/ TickAborts

Spec == Init /\ [][Next]_vars

(* The event loop keeps scheduling the poller while the socket is open;    *)
(* nothing is assumed of the client, the agent or the other connections.   *)
FairSpec == Spec /\ WF_vars(Poller)

-----------------------------------------------------------------------------
(* Properties.                                                             *)

StoreOK ==
    /\ born \subseteq Session /\ mapped \subseteq born
    /\ store \in [Session -> Seq(Origin)]
    /\ failures \in 0..MaxFailures

WatermarksOK == watched \subseteq Session /\ wm \in [Session -> Nat]

PollerOK ==
    /\ ppc \in {"off", "sleep", "scan", "push", "advance", "list", "fill", "announce", "adopt"}
    /\ todo \subseteq Session /\ snap \in [Session -> Nat]
    /\ peer \in Session \cup {None}
    /\ ppc \in {"push", "advance", "adopt"} => peer \in Session
    /\ next \in Nat /\ last \in Nat
    /\ listing \subseteq Session /\ tops \in [Session -> Nat]

TickOK == tick \in 0..(RescanEvery - 1)

TurnOK ==
    /\ hpc \in {"idle", "run", "read", "jump"}
    /\ hpeer \in Session \cup {None}
    /\ hpc # "idle" => hpeer \in Session
    /\ written \in 0..TurnRows /\ mark \in Nat /\ top \in Nat

ClientOK ==
    /\ known \subseteq Session /\ base \in [Session -> Nat]
    /\ pushed \in [Session -> SUBSET Nat] /\ jumped \in [Session -> SUBSET Nat]

\* Every variable keeps its type; a coroutine has a peer exactly while it
\* is suspended in a step about one; what is mapped or listed exists.
TypeOK ==
    /\ StoreOK /\ WatermarksOK /\ PollerOK /\ TickOK /\ TurnOK /\ ClientOK
    /\ listing \subseteq born

\* The client has had row i of s, or has been told to fetch it, or a turn of
\* its own has moved the watermark past it.
Covered(s, i) == i <= base[s] \/ i \in pushed[s] \/ i \in jumped[s]

\* The poller, its snapshots, its aborted ticks and its re-listings never
\* lose a row: everything at or below a watermark is covered, so whatever
\* the poller has not sent is still above the watermark.
NothingPassedOver ==
    \A s \in watched : \A i \in 1..wm[s] : Covered(s, i)

Had(s) == 1..base[s] \cup pushed[s] \cup jumped[s]

F == INSTANCE Feed WITH
        rows <- [s \in Session |-> Top(s)],
        had  <- [s \in Session |-> Had(s)]

\* The connection implements the abstract feed: coverage never has a gap and
\* never shrinks, and none of a session precedes its announcement, whatever
\* the poller, a turn, a listing and their stale locals do to one another.
ImplementsFeed == F!Spec

\* A session with a watermark is one the client knows.  poll_new_messages
\* skips the sessions with a watermark when it announces new ones, so a
\* session that got one unannounced would never surface.
WatchedIsKnown == watched \subseteq known

\* message.new frames of one session are first sent in the order of the rows,
\* however stale the snapshot that a tick works from: the client appends.  A
\* turn whose last row is older than the listing that announced its session
\* moves the watermark back: then rows may come late that the client was told
\* to fetch.
PushedInOrder ==
    [][\A s \in Session : \A i \in pushed'[s] \ pushed[s] :
          \A j \in pushed[s] : j < i \/ i <= base[s]]_vars

\* "replies that land via Telegram, cron, or any proactive path [...] so the
\* open client stays live": once the poller runs, a row of a watched session
\* is covered in the end, provided that in the end the peer map serves that
\* session whenever the poller reads.
RowsReachClient ==
    \A s \in Session :
        <>[](ppc = "scan" => s \in mapped) =>
            \A i \in 1..MaxRows :
                (ppc # "off" /\ s \in watched /\ i <= Top(s)) ~> Covered(s, i)

\* "a brand-new conversation surfaces live without a reconnect": once the
\* poller runs, a session that exists becomes known, unless there are more
\* sessions than a listing holds.
NewSessionSurfaces ==
    \A s \in Session :
        (ppc # "off" /\ s \in born /\ Cardinality(born) <= SessionLimit) ~>
            (s \in known \/ Cardinality(born) > SessionLimit)

\* "Push DB messages that appear after the watermark, any source": once the
\* poller runs, the only rows that a turn moves the watermark past, and that
\* the client has from nowhere else, are rows of turns.
OthersRowsArePushed ==
    ppc # "off" =>
        \A s \in Session : \A i \in jumped[s] :
            store[s][i] = "elsewhere" => i <= base[s] \/ i \in pushed[s]
=============================================================================
