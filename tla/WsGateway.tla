----------------------------- MODULE WsGateway ------------------------------
(***************************************************************************)
(* The client's gateway (openclaw/WsGateway.cpp) from its bootstrap on,    *)
(* with what the seeder makes of it (openclaw/MockSeeder.cpp): the caches  *)
(* of dialogs and histories, the answers and updates that fill them over   *)
(* connections that drop and come back, the nested event loop that waits   *)
(* for them, and the rows that the user interface is given.                *)
(*                                                                         *)
(* The gateway runs on the Qt main thread: one action per text frame,      *)
(* signal, timer or call.  The bridge is the one connection that LivePush  *)
(* models, reduced to what it promises: requests are served in order, the  *)
(* listing sets watermarks, rows above them are pushed in order.           *)
(*                                                                         *)
(* Abstractions.  A peer is the session it names, and its rows are         *)
(* numbered from 1.  A cached history is the set of its rows: the code     *)
(* keeps a vector that can hold a row twice, and every reader of it        *)
(* replaces by id.  Histories are shorter than the limit of 50.            *)
(***************************************************************************)
EXTENDS Naturals, Sequences, FiniteSets

CONSTANTS
    Peer,
    MaxRows,    \* rows of all sessions
    MaxConns,   \* connections
    MaxViews,   \* chats opened before their history is cached
    MaxErrors   \* history requests answered by an error

ASSUME ConstantsAssumption ==
    /\ IsFiniteSet(Peer)
    /\ {MaxRows, MaxConns, MaxViews, MaxErrors} \subseteq Nat

VARIABLES
    \* the store, and the bridge's end of the connection
    born,       \* the sessions of the user
    store,      \* [Peer -> Seq({"self", "peer"})]: who wrote each row
    errors,
    listening,  \* sessions.list was served: the poller runs
    watched, wm,  \* watermarks
    \* the connection
    link,       \* "down" | "up"
    conns,
    toBridge, toClient,
    \* WsGateway
    authState, authed, gotSessions,
    pending,    \* _pendingHistories
    requestId,
    dialogs,    \* _dialogs and _peers
    cached, history,  \* the keys and the values of _history
    callbacks,  \* _historyCallbacks
    \* the seeder
    phase,      \* "waiting" in bootstrapBlocking() | "seeded" | "failed"
    clock,      \* elapsed: 0 | 1, more than 1 s | 2, more than timeoutMs
    chats, shown, \* the chat list; the rows given to the user interface
    views,
    \* observed
    listed, landed, \* the dialogs last listed; those answered a history since
    late,       \* peers whose history was answered after seeding
    excused     \* rows up to here were announced, or answered by an error

storeVars == <<born, store, errors>>
bridgeVars == <<listening, watched, wm>>
linkVars == <<link, conns, toBridge, toClient>>
bootVars == <<authState, authed, gotSessions, pending>>
cacheVars == <<requestId, dialogs, cached, history, callbacks>>
uiVars == <<phase, clock, chats, shown, views>>
ghosts == <<listed, landed, late, excused>>
vars == <<storeVars, bridgeVars, linkVars, bootVars, cacheVars, uiVars, ghosts>>

Top(p) == Len(store[p])
Orders(S) == {f \in [1..Cardinality(S) -> S] : \A x \in S : \E i \in DOMAIN f : f[i] = x}
History(id, p) == [op |-> "history", id |-> id, peer |-> p]
Larger(i, j) == IF i < j THEN j ELSE i
None == [p \in Peer |-> {}]
Zero == [p \in Peer |-> 0]

Init ==
    /\ born \in SUBSET Peer /\ store = [p \in Peer |-> <<>>]
    /\ errors = 0
    /\ listening = FALSE /\ watched = {} /\ wm = Zero
    /\ link = "down" /\ conns = 0
    /\ toBridge = <<>> /\ toClient = <<>>
    /\ authState = "LoggedOut" /\ authed = FALSE /\ gotSessions = FALSE
    /\ pending = 0 /\ requestId = 0
    /\ dialogs = {} /\ cached = {} /\ history = None /\ callbacks = {}
    /\ phase = "waiting" /\ clock = 0
    /\ chats = {} /\ shown = None /\ views = 0
    /\ listed = {} /\ landed = {} /\ late = {} /\ excused = Zero

-----------------------------------------------------------------------------
(* The store and the bridge.                                               *)

NewSession(p) ==
    /\ p \notin born
    /\ born' = born \cup {p}
    /\ UNCHANGED <<store, errors, bridgeVars, linkVars, bootVars, cacheVars, uiVars, ghosts>>

RowArrives(p, author) ==
    /\ p \in born /\ Cardinality({e \in Peer \X (1..MaxRows) : e[2] <= Top(e[1])}) < MaxRows
    /\ store' = [store EXCEPT ![p] = Append(@, author)]
    /\ UNCHANGED <<born, errors, bridgeVars, linkVars, bootVars, cacheVars, uiVars, ghosts>>

(* The frame loop serves the next request.                                 *)
Served(request) ==
    /\ toBridge # <<>> /\ Head(toBridge) = request
    /\ toBridge' = Tail(toBridge)
    /\ UNCHANGED <<link, conns, bootVars, cacheVars, uiVars, ghosts>>

ServesAuth ==
    /\ \E id \in 1..requestId : Served([op |-> "auth", id |-> id])
    /\ toClient' = Append(toClient, [op |-> "self"])
    /\ UNCHANGED <<storeVars, bridgeVars>>

ServesSessions ==
    /\ \E id \in 1..requestId : Served([op |-> "sessions.list", id |-> id])
    /\ toClient' = Append(toClient, [op |-> "sessions", peers |-> born])
    /\ wm' = [p \in Peer |-> IF p \in born THEN Top(p) ELSE wm[p]]
    /\ watched' = watched \cup born
    /\ listening' = TRUE
    /\ UNCHANGED storeVars

(* history answers the rows there are, or that the peer is not mapped.     *)
ServesHistory(ok) ==
    /\ \E id \in 1..requestId, p \in Peer :
          /\ Served(History(id, p))
          /\ toClient' = Append(toClient,
                [op |-> "history", id |-> id, ok |-> ok, peer |-> p, top |-> Top(p)])
    /\ IF ok THEN UNCHANGED errors ELSE errors < MaxErrors /\ errors' = errors + 1
    /\ UNCHANGED <<born, store, bridgeVars>>

(* The poller pushes the next row above a watermark.                       *)
Pushes(p) ==
    /\ listening /\ p \in watched /\ wm[p] < Top(p)
    /\ wm' = [wm EXCEPT ![p] = @ + 1]
    /\ toClient' = Append(toClient, [op |-> "message.new", peer |-> p, row |-> wm'[p]])
    /\ UNCHANGED <<storeVars, listening, watched, link, conns, toBridge,
                   bootVars, cacheVars, uiVars, ghosts>>

(* It announces a session that has no watermark.                           *)
Announces(p) ==
    /\ listening /\ p \in born \ watched
    /\ watched' = watched \cup {p}
    /\ wm' = [wm EXCEPT ![p] = Top(p)]
    /\ toClient' = Append(toClient, [op |-> "dialog.new", peer |-> p, top |-> Top(p)])
    /\ UNCHANGED <<storeVars, listening, link, conns, toBridge,
                   bootVars, cacheVars, uiVars, ghosts>>

Bridge ==
    \/ ServesAuth \/ ServesSessions \/ \E ok \in BOOLEAN : ServesHistory(ok)
    \/ \E p \in Peer : Pushes(p) \/ Announces(p)

-----------------------------------------------------------------------------
(* The connection, as WsClient tells of it.                                *)

(* connected(): the auth frame is sent.                                    *)
Connected ==
    /\ phase # "failed"
    /\ link = "down" /\ conns < MaxConns
    /\ link' = "up" /\ conns' = conns + 1
    /\ requestId' = requestId + 1
    /\ toBridge' = <<[op |-> "auth", id |-> requestId']>>
    /\ UNCHANGED <<storeVars, bridgeVars, toClient, bootVars,
                   dialogs, cached, history, callbacks, uiVars, ghosts>>

(* What both ends had on the way is lost, and the bridge's handler ends.   *)
LinkEnds ==
    /\ link' = "down"
    /\ toBridge' = <<>> /\ toClient' = <<>>
    /\ listening' = FALSE /\ watched' = {} /\ wm' = Zero
    /\ UNCHANGED conns

\* Mutant: the counters of the bootstrap start anew.
DisconnectedResets ==
    /\ link = "up"
    /\ LinkEnds
    /\ authState' = "LoggedOut" /\ pending' = 0
    /\ UNCHANGED <<storeVars, authed, gotSessions, cacheVars, uiVars, ghosts>>

(* disconnected(): only _authState is reset.                               *)
Disconnected ==
    /\ link = "up"
    /\ LinkEnds
    /\ authState' = "LoggedOut"
    /\ UNCHANGED <<storeVars, authed, gotSessions, pending, cacheVars, uiVars, ghosts>>

-----------------------------------------------------------------------------
(* onTextMessage.                                                          *)

Takes(op) ==
    /\ phase # "failed"
    /\ toClient # <<>> /\ Head(toClient).op = op
    /\ toClient' = Tail(toClient)
    /\ UNCHANGED <<storeVars, bridgeVars, link, conns>>

(* handleResponse(), the answer to auth.                                   *)
TakesSelf ==
    /\ Takes("self")
    /\ authed' = TRUE /\ authState' = "Ready"
    /\ requestId' = requestId + 1
    /\ toBridge' = Append(toBridge, [op |-> "sessions.list", id |-> requestId'])
    /\ UNCHANGED <<gotSessions, pending, dialogs, cached, history, callbacks, uiVars, ghosts>>

\* Mutant: the histories to wait for are added to those of the last listing.
AwaitedInAll(L) == pending + Cardinality(L)

Awaited(L) == Cardinality(L)

(* The answer to sessions.list replaces the dialogs, and asks for the      *)
(* history of each.  Callbacks of an earlier connection stay.              *)
TakesSessions ==
    LET L == Head(toClient).peers IN
    /\ Takes("sessions")
    /\ dialogs' = L
    /\ gotSessions' = TRUE
    /\ pending' = Awaited(L)
    /\ requestId' = requestId + Cardinality(L)
    /\ \E order \in Orders(L) :
          /\ callbacks' = callbacks \cup
                {[id |-> requestId + i, peer |-> order[i]] : i \in DOMAIN order}
          /\ toBridge' = toBridge \o [i \in DOMAIN order |-> History(requestId + i, order[i])]
    /\ listed' = L /\ landed' = {}
    /\ UNCHANGED <<authState, authed, cached, history, uiVars, late, excused>>

\* Mutant: a history that is cached already is kept.
FirstAnswered(p, answer) ==
    IF p \in cached THEN history[p] ELSE IF answer.ok THEN 1..answer.top ELSE {}

Answered(p, answer) == IF answer.ok THEN 1..answer.top ELSE {}

(* The answer to history, or the error that came instead: either replaces  *)
(* what is cached.                                                         *)
TakesHistory ==
    LET answer == Head(toClient) IN
    /\ Takes("history")
    /\ \E cb \in callbacks :
          /\ cb.id = answer.id
          /\ callbacks' = callbacks \ {cb}
          /\ cached' = cached \cup {cb.peer}
          /\ history' = [history EXCEPT ![cb.peer] = Answered(cb.peer, answer)]
          /\ landed' = landed \cup {cb.peer}
          /\ late' = IF phase = "seeded" THEN late \cup {cb.peer} ELSE late
          /\ excused' = IF answer.ok THEN excused
                        ELSE [excused EXCEPT ![cb.peer] = Larger(@, answer.top)]
    /\ pending' = IF pending > 0 THEN pending - 1 ELSE 0
    /\ UNCHANGED <<toBridge, authState, authed, gotSessions, requestId, dialogs, uiVars, listed>>

(* The handlers that WireUpdateHandler() sets when the seeder has seeded:  *)
(* a new dialog becomes a chat without rows, and a row is added, or edited *)
(* in place, unless the user wrote it.                                     *)
ChatAppears(p) == chats' = IF phase = "seeded" THEN chats \cup {p} ELSE chats

RowAppears(p, row) ==
    IF phase = "seeded" /\ store[p][row] = "peer"
       THEN shown' = [shown EXCEPT ![p] = @ \cup {row}]
       ELSE UNCHANGED shown

(* handleUpdate(), dialog.new.                                             *)
TakesDialogNew ==
    LET p == Head(toClient).peer IN
    /\ Takes("dialog.new")
    /\ dialogs' = dialogs \cup {p}
    /\ ChatAppears(p)
    /\ excused' = [excused EXCEPT ![p] = Larger(@, Head(toClient).top)]
    /\ UNCHANGED <<toBridge, bootVars, requestId, cached, history, callbacks,
                   phase, clock, shown, views, listed, landed, late>>

(* handleUpdate(), message.new.                                            *)
TakesMessage ==
    LET p == Head(toClient).peer
        row == Head(toClient).row
    IN
    /\ Takes("message.new")
    /\ cached' = cached \cup {p}
    /\ history' = [history EXCEPT ![p] = @ \cup {row}]
    /\ RowAppears(p, row)
    /\ UNCHANGED <<toBridge, bootVars, requestId, dialogs, callbacks,
                   phase, clock, chats, views, ghosts>>

-----------------------------------------------------------------------------
(* bootstrapBlocking and the seeder.                                       *)

Landed == authed /\ gotSessions /\ pending = 0

(* One of the two thresholds of the clock passes.                          *)
TimePasses ==
    /\ phase = "waiting" /\ clock < 2
    /\ clock' = clock + 1
    /\ UNCHANGED <<storeVars, bridgeVars, linkVars, bootVars, cacheVars,
                   phase, chats, shown, views, ghosts>>

\* Mutant: only the last row of each dialog is injected with it.
SeedsTops ==
    /\ chats' = dialogs
    /\ shown' = [p \in Peer |-> {i \in history[p] : \A j \in history[p] : j <= i}]

(* SeedFromGateway(): every dialog and every cached row.                   *)
Seeds ==
    /\ chats' = dialogs
    /\ shown' = history

(* SeedWithConfig() after its bootstrap: seeded, with the handlers set, or *)
(* the gateway is destroyed, and its client aborts the connection.         *)
SeedWithConfig(ok) ==
    IF ok
       THEN /\ phase' = "seeded" /\ Seeds
            /\ UNCHANGED <<linkVars, bridgeVars>>
       ELSE /\ phase' = "failed" /\ UNCHANGED <<chats, shown>>
            /\ LinkEnds

(* The poll of 50 ms quits the loop, and the seeder goes on in the same    *)
(* turn of the main thread.                                                *)
BootstrapReturns ==
    /\ phase = "waiting"
    /\ Landed \/ clock = 2 \/ (authState = "LoggedOut" /\ clock = 1)
    /\ SeedWithConfig(authed /\ gotSessions)
    /\ UNCHANGED <<storeVars, bootVars, cacheVars, clock, views, ghosts>>

(* OfflineHistory(): a chat is opened.  What is cached is shown; what is   *)
(* not is asked for, and nobody waits for the answer.                      *)
OpensChat(p) ==
    /\ phase = "seeded" /\ p \in chats
    /\ IF p \in cached
          THEN /\ shown' = [shown EXCEPT ![p] = @ \cup history[p]]
               /\ UNCHANGED <<requestId, callbacks, toBridge, views>>
          ELSE /\ views < MaxViews /\ views' = views + 1
               /\ requestId' = requestId + 1
               /\ callbacks' = callbacks \cup {[id |-> requestId', peer |-> p]}
               /\ IF link = "up"
                     THEN toBridge' = Append(toBridge, History(requestId', p))
                     ELSE UNCHANGED toBridge
               /\ UNCHANGED shown
    /\ UNCHANGED <<storeVars, bridgeVars, link, conns, toClient, bootVars,
                   dialogs, cached, history, phase, clock, chats, ghosts>>

Client ==
    \/ TakesSelf \/ TakesSessions \/ TakesHistory \/ TakesDialogNew \/ TakesMessage
    \/ TimePasses \/ BootstrapReturns
    \/ \E p \in Peer : OpensChat(p)

Next ==
    \/ \E p \in Peer : NewSession(p) \/ \E author \in {"self", "peer"} : RowArrives(p, author)
    \/ Bridge
    \/ Connected \/ Disconnected
    \/ Client

Spec == Init /\ [][Next]_vars

-----------------------------------------------------------------------------
(* Properties.                                                             *)

RequestFrame ==
    [op : {"auth", "sessions.list"}, id : Nat] \cup [op : {"history"}, id : Nat, peer : Peer]
AnswerFrame ==
    [op : {"self"}] \cup [op : {"sessions"}, peers : SUBSET Peer]
    \cup [op : {"history"}, id : Nat, ok : BOOLEAN, peer : Peer, top : Nat]
UpdateFrame ==
    [op : {"message.new"}, peer : Peer, row : Nat] \cup [op : {"dialog.new"}, peer : Peer, top : Nat]

BridgeTypeOK ==
    /\ born \subseteq Peer /\ store \in [Peer -> Seq({"self", "peer"})] /\ errors \in 0..MaxErrors
    /\ listening \in BOOLEAN /\ watched \subseteq Peer /\ wm \in [Peer -> Nat]

LinkTypeOK ==
    /\ link \in {"up", "down"} /\ conns \in 0..MaxConns
    /\ toBridge \in Seq(RequestFrame) /\ toClient \in Seq(AnswerFrame \cup UpdateFrame)

GatewayTypeOK ==
    /\ authState \in {"LoggedOut", "Ready"} /\ authed \in BOOLEAN /\ gotSessions \in BOOLEAN
    /\ pending \in Nat /\ requestId \in Nat
    /\ dialogs \subseteq Peer /\ cached \subseteq Peer /\ history \in [Peer -> SUBSET Nat]
    /\ callbacks \subseteq [id : Nat, peer : Peer]

SeederTypeOK ==
    /\ phase \in {"waiting", "seeded", "failed"} /\ clock \in 0..2 /\ views \in 0..MaxViews
    /\ chats \subseteq Peer /\ shown \in [Peer -> SUBSET Nat]
    /\ listed \subseteq Peer /\ landed \subseteq Peer /\ late \subseteq Peer
    /\ excused \in [Peer -> Nat]

\* Every variable keeps its type, and _pendingHistories never exceeds what
\* one listing asks for, however often dialogs are listed.
TypeOK ==
    /\ BridgeTypeOK /\ LinkTypeOK /\ GatewayTypeOK /\ SeederTypeOK
    /\ pending <= Cardinality(Peer)

\* _pendingHistories never says that all is there while the history of a
\* listed dialog is missing, also when the connection was lost in between
\* and dialogs were listed again.
PendingCountsMissing ==
    phase = "waiting" /\ gotSessions /\ pending = 0 => listed \subseteq landed

OnItsWay(p, i) ==
    \/ \E k \in DOMAIN toBridge : toBridge[k].op = "history" /\ toBridge[k].peer = p
    \/ \E k \in DOMAIN toClient :
          LET frame == toClient[k] IN
          CASE frame.op = "message.new" -> frame.peer = p /\ frame.row = i
            [] frame.op \in {"history", "dialog.new"} -> frame.peer = p /\ i <= frame.top
            [] frame.op = "sessions" -> p \in frame.peers
            [] OTHER -> FALSE

\* The bridge's watermarks and the client's cache agree, however updates
\* and history answers overtake each other and connections are lost: a row
\* that the bridge will not push again is cached or on its way, unless the
\* client was only told that it exists, or was answered by an error.
CacheKeepsUp ==
    phase # "failed" =>
        \A p \in watched : \A i \in 1..wm[p] :
            i \in history[p] \/ i <= excused[p] \/ OnItsWay(p, i)

PeerRows(p) == {i \in DOMAIN store[p] : store[p][i] = "peer"}

\* Between the bootstrap's cache and the live updates no row falls through:
\* once seeded, what others wrote and is cached is shown, but for histories
\* that were answered after seeding.
CachedIsShown ==
    phase = "seeded" =>
        \A p \in Peer \ late : history[p] \cap PeerRows(p) \subseteq shown[p]
=============================================================================
