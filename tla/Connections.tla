---------------------------- MODULE Connections ----------------------------
(***************************************************************************)
(* The life of the bridge's connections: ws_handler from the upgrade to    *)
(* its cleanup, the global registry CONNECTIONS, and the browser op that   *)
(* fans a navigate command out to the registry while connections come and  *)
(* go (bridge/hermes_ws_bridge.py 351-381, 401-417, 462-543).              *)
(*                                                                         *)
(* Sending on a transport that is gone raises.  Inside the op's try block  *)
(* the handler of that exception sends again, which raises again, out of   *)
(* ws_handler: its cleanup lines are skipped.                              *)
(*                                                                         *)
(* Abstractions.  Ops that answer at once and touch neither the registry   *)
(* nor the poller (roster, history, peer.full, unknown ops, frames before  *)
(* auth) are the action Answers.  A turn of message.send is the span of    *)
(* time "turn": LivePush has its steps.                                    *)
(***************************************************************************)
EXTENDS Naturals, SequencesExt

CONSTANTS
    Conn,      \* sockets; each connects once
    Tool,      \* those of the control tools, which send browser ops
    User,      \* user ids that an auth frame or a browser op can carry
    NoUser,    \* None: no user given
    Claims,    \* Claims[c]: the users that c may give in its auth frame
    NoEntry,   \* None: conn_entry before auth
    MaxAuths   \* bound: auth frames accepted per connection

ASSUME ConstantsAssumption ==
    /\ Tool \subseteq Conn
    /\ NoUser \notin User
    /\ Claims \in [Conn -> SUBSET (User \cup {NoUser})]
    /\ MaxAuths \in Nat
    /\ NoEntry \notin [conn : Conn, user : User \cup {NoUser}, n : 1..MaxAuths]

VARIABLES
    sock,       \* "new", "open", "lost" (transport gone), "closed" (ws.closed)
    handler,    \* where ws_handler is: "none", "loop", "turn", "bcast", "done"
    auths,      \* auth frames accepted; `authed' is auths > 0
    conn_entry, \* the entry that the latest auth of the connection registered
    registry,   \* CONNECTIONS
    poller,     \* poller_task: "off", "on", "ended"
    snapshot,   \* list(CONNECTIONS) of the browser op under way
    pos,        \* the entry of the snapshot that it comes to next
    scope,      \* its user
    reached,    \* the connections that it was delivered to
    escaped     \* connections whose handler ended by an exception: history

browserVars == <<snapshot, pos, scope, reached>>
vars == <<sock, handler, auths, conn_entry, registry, poller, browserVars, escaped>>

(* An entry is the n-th of its connection.  Python compares entries without *)
(* n, except with `is'.                                                     *)
Entry == [conn : Conn, user : User \cup {NoUser}, n : 1..MaxAuths]
Equal(e, f) == e.conn = f.conn /\ e.user = f.user

Init ==
    /\ sock = [c \in Conn |-> "new"]
    /\ handler = [c \in Conn |-> "none"]
    /\ auths = [c \in Conn |-> 0]
    /\ conn_entry = [c \in Conn |-> NoEntry]
    /\ registry = <<>>
    /\ poller = [c \in Conn |-> "off"]
    /\ snapshot = [c \in Conn |-> <<>>]
    /\ pos = [c \in Conn |-> 1]
    /\ scope = [c \in Conn |-> NoUser]
    /\ reached = [c \in Conn |-> {}]
    /\ escaped = {}

-----------------------------------------------------------------------------
(* The socket.                                                             *)

Connects(c) ==
    /\ sock[c] = "new"
    /\ sock' = [sock EXCEPT ![c] = "open"]
    /\ handler' = [handler EXCEPT ![c] = "loop"]
    /\ UNCHANGED <<auths, conn_entry, registry, poller, browserVars, escaped>>

(* The client goes away: close frame, reset, or heartbeat without a pong. *)
Leaves(c) ==
    /\ sock[c] = "open"
    /\ sock' = [sock EXCEPT ![c] = "lost"]
    /\ UNCHANGED <<handler, auths, conn_entry, registry, poller, browserVars, escaped>>

(* aiohttp marks a socket whose transport is gone as closed. *)
HeartbeatCloses(c) ==
    /\ sock[c] = "lost"
    /\ sock' = [sock EXCEPT ![c] = "closed"]
    /\ UNCHANGED <<handler, auths, conn_entry, registry, poller, browserVars, escaped>>

-----------------------------------------------------------------------------
(* The frame loop.                                                         *)

Idle(c) == handler[c] = "loop"

(* The handler ends by an exception that nothing catches. *)
Escapes(c) ==
    /\ handler' = [handler EXCEPT ![c] = "done"]
    /\ escaped' = escaped \cup {c}

(* It answers, and is back in the loop; unless the transport is gone. *)
AnswersOrEscapes(c) ==
    \/ /\ sock[c] = "open"
       /\ handler' = [handler EXCEPT ![c] = "loop"]
       /\ UNCHANGED escaped
    \/ /\ sock[c] # "open"
       /\ Escapes(c)

\* Mutant: the entry is registered, and not remembered.
AuthenticatesUnremembered(c, u) ==
    /\ Idle(c) /\ sock[c] # "closed"
    /\ auths[c] < MaxAuths
    /\ auths' = [auths EXCEPT ![c] = @ + 1]
    /\ registry' = Append(registry, [conn |-> c, user |-> u, n |-> auths[c] + 1])
    /\ AnswersOrEscapes(c)
    /\ UNCHANGED <<sock, conn_entry, poller, browserVars>>

(* auth with the right token: registered before it is answered. *)
Authenticates(c, u) ==
    /\ Idle(c) /\ sock[c] # "closed"
    /\ auths[c] < MaxAuths
    /\ auths' = [auths EXCEPT ![c] = @ + 1]
    /\ LET entry == [conn |-> c, user |-> u, n |-> auths[c] + 1] IN
          /\ conn_entry' = [conn_entry EXCEPT ![c] = entry]
          /\ registry' = Append(registry, entry)
    /\ AnswersOrEscapes(c)
    /\ UNCHANGED <<sock, poller, browserVars>>

(* auth with a wrong token: answered, and the socket closed with 4001; the *)
(* handler goes on to read from it.                                        *)
AuthFails(c) ==
    /\ Idle(c) /\ sock[c] # "closed"
    /\ \/ /\ sock[c] = "open"
          /\ sock' = [sock EXCEPT ![c] = "closed"]
          /\ UNCHANGED <<handler, escaped>>
       \/ /\ sock[c] = "lost"
          /\ Escapes(c)
          /\ UNCHANGED sock
    /\ UNCHANGED <<auths, conn_entry, registry, poller, browserVars>>

(* An op that only answers. *)
Answers(c) ==
    /\ Idle(c) /\ sock[c] # "closed"
    /\ AnswersOrEscapes(c)
    /\ UNCHANGED <<sock, auths, conn_entry, registry, poller, browserVars>>

(* sessions.list: answered, then the poller is started, once. *)
SessionsList(c) ==
    /\ Idle(c) /\ sock[c] # "closed"
    /\ auths[c] > 0
    /\ AnswersOrEscapes(c)
    /\ poller' = IF sock[c] = "open" /\ poller[c] = "off"
                    THEN [poller EXCEPT ![c] = "on"] ELSE poller
    /\ UNCHANGED <<sock, auths, conn_entry, registry, browserVars>>

(* message.send: the handler is busy until the turn is over. *)
TurnStarts(c) ==
    /\ Idle(c) /\ sock[c] = "open"
    /\ auths[c] > 0
    /\ handler' = [handler EXCEPT ![c] = "turn"]
    /\ UNCHANGED <<sock, auths, conn_entry, registry, poller, browserVars, escaped>>

TurnEnds(c) ==
    /\ handler[c] = "turn"
    /\ AnswersOrEscapes(c)
    /\ UNCHANGED <<sock, auths, conn_entry, registry, poller, browserVars>>

\* Mutant: the cleanup stops the poller and forgets the registry.
CleansUpPoller(c) ==
    /\ Idle(c) /\ sock[c] \in {"lost", "closed"}
    /\ handler' = [handler EXCEPT ![c] = "done"]
    /\ sock' = [sock EXCEPT ![c] = "closed"]
    /\ poller' = [poller EXCEPT ![c] = IF @ = "on" THEN "ended" ELSE @]
    /\ UNCHANGED <<registry, auths, conn_entry, browserVars, escaped>>

(* CONNECTIONS.remove(entry), of an entry that is in CONNECTIONS.          *)
Removes(entry) ==
    \/ \E i \in 1..Len(registry) :
          /\ Equal(registry[i], entry) /\ \A j \in 1..(i - 1) : ~Equal(registry[j], entry)
          /\ registry' = RemoveAt(registry, i)
    \/ /\ \A i \in 1..Len(registry) : ~Equal(registry[i], entry)
       /\ UNCHANGED registry

(* The socket yields no more frames: the lines after the loop.             *)
CleansUp(c) ==
    /\ Idle(c) /\ sock[c] \in {"lost", "closed"}
    /\ handler' = [handler EXCEPT ![c] = "done"]
    /\ sock' = [sock EXCEPT ![c] = "closed"]
    /\ poller' = [poller EXCEPT ![c] = IF @ = "on" THEN "ended" ELSE @]
    /\ IF conn_entry[c] = NoEntry THEN UNCHANGED registry ELSE Removes(conn_entry[c])
    /\ UNCHANGED <<auths, conn_entry, browserVars, escaped>>

\* Mutant: `while True'.
PollerNeverEnds(c) ==
    /\ FALSE
    /\ UNCHANGED vars

(* while not ws.closed, in the poller. *)
PollerEnds(c) ==
    /\ poller[c] = "on"
    /\ sock[c] = "closed"
    /\ poller' = [poller EXCEPT ![c] = "ended"]
    /\ UNCHANGED <<sock, handler, auths, conn_entry, registry, browserVars, escaped>>

-----------------------------------------------------------------------------
(* The browser op and _broadcast_browser_navigate.                         *)

BroadcastStarts(c, u) ==
    /\ c \in Tool
    /\ Idle(c) /\ sock[c] # "closed"
    /\ auths[c] > 0
    /\ handler' = [handler EXCEPT ![c] = "bcast"]
    /\ snapshot' = [snapshot EXCEPT ![c] = registry]
    /\ pos' = [pos EXCEPT ![c] = 1]
    /\ scope' = [scope EXCEPT ![c] = u]
    /\ reached' = [reached EXCEPT ![c] = {}]
    /\ UNCHANGED <<sock, auths, conn_entry, registry, poller, escaped>>

(* Is the entry one that the command of c is for? *)
InScope(c, e) ==
    /\ e # conn_entry[c]
    /\ scope[c] = NoUser \/ e.user \in {NoUser, scope[c]}

\* Mutant: the loop is over CONNECTIONS itself, which shrinks under it.
IteratesLive(c) ==
    /\ handler[c] = "bcast"
    /\ pos[c] <= Len(snapshot[c])
    /\ IF pos[c] <= Len(registry)
          THEN LET e == registry[pos[c]] IN
                  reached' = IF InScope(c, e) /\ sock[e.conn] = "open"
                                THEN [reached EXCEPT ![c] = @ \cup {e.conn}] ELSE reached
          ELSE UNCHANGED reached
    /\ pos' = [pos EXCEPT ![c] = @ + 1]
    /\ UNCHANGED <<sock, handler, auths, conn_entry, registry, poller, snapshot, scope, escaped>>

(* One entry: skipped, delivered to, or raising, which is logged. *)
BroadcastSends(c) ==
    /\ handler[c] = "bcast"
    /\ pos[c] <= Len(snapshot[c])
    /\ LET e == snapshot[c][pos[c]] IN
          reached' = IF InScope(c, e) /\ sock[e.conn] = "open"
                        THEN [reached EXCEPT ![c] = @ \cup {e.conn}] ELSE reached
    /\ pos' = [pos EXCEPT ![c] = @ + 1]
    /\ UNCHANGED <<sock, handler, auths, conn_entry, registry, poller, snapshot, scope, escaped>>

(* All done: the number delivered is answered. *)
BroadcastEnds(c) ==
    /\ handler[c] = "bcast"
    /\ pos[c] > Len(snapshot[c])
    /\ AnswersOrEscapes(c)
    /\ snapshot' = [snapshot EXCEPT ![c] = <<>>]
    /\ pos' = [pos EXCEPT ![c] = 1]
    /\ scope' = [scope EXCEPT ![c] = NoUser]
    /\ reached' = [reached EXCEPT ![c] = {}]
    /\ UNCHANGED <<sock, auths, conn_entry, registry, poller>>

-----------------------------------------------------------------------------
Serves(c) == TurnEnds(c) \/ CleansUp(c) \/ BroadcastSends(c) \/ BroadcastEnds(c)

Next ==
    \E c \in Conn :
        \/ Connects(c) \/ Leaves(c) \/ HeartbeatCloses(c)
        \/ \E u \in Claims[c] : Authenticates(c, u)
        \/ \E u \in User \cup {NoUser} : BroadcastStarts(c, u)
        \/ AuthFails(c) \/ Answers(c) \/ SessionsList(c) \/ TurnStarts(c)
        \/ Serves(c) \/ PollerEnds(c)

Spec == Init /\ [][Next]_vars

(* The event loop runs what is ready, a turn comes to an end, and aiohttp  *)
(* notices in the end that a transport is gone.                            *)
FairSpec ==
    /\ Spec
    /\ \A c \in Conn : WF_vars(Serves(c)) /\ WF_vars(PollerEnds(c)) /\ WF_vars(HeartbeatCloses(c))

-----------------------------------------------------------------------------
(* Properties.                                                             *)

\* Types; a connection has an entry of its own exactly when it has been
\* authenticated, and is only ever served a turn, a poller or a broadcast then.
TypeOK ==
    /\ sock \in [Conn -> {"new", "open", "lost", "closed"}]
    /\ handler \in [Conn -> {"none", "loop", "turn", "bcast", "done"}]
    /\ auths \in [Conn -> 0..MaxAuths]
    /\ conn_entry \in [Conn -> Entry \cup {NoEntry}]
    /\ registry \in Seq(Entry)
    /\ poller \in [Conn -> {"off", "on", "ended"}]
    /\ snapshot \in [Conn -> Seq(Entry)]
    /\ pos \in [Conn -> Nat]
    /\ scope \in [Conn -> User \cup {NoUser}]
    /\ reached \in [Conn -> SUBSET Conn]
    /\ escaped \subseteq Conn
    /\ \A c \in Conn :
          /\ conn_entry[c] = NoEntry <=> auths[c] = 0
          /\ handler[c] \in {"turn", "bcast"} \/ poller[c] # "off" => auths[c] > 0

\* A navigate command reaches every client it is for: when the broadcast has
\* come to the end of its snapshot, every connection of it that is in scope
\* and still open has had the command, even when others left, or new ones
\* came, between two of its sends.
NavigateReachesAll ==
    \A c \in Conn :
        handler[c] = "bcast" /\ pos[c] > Len(snapshot[c]) =>
            \A i \in 1..Len(snapshot[c]) :
                LET e == snapshot[c][i] IN
                    InScope(c, e) /\ sock[e.conn] = "open" => e.conn \in reached[c]

\* A handler that comes to its cleanup leaves neither its entry in the
\* registry nor its poller behind, whatever it was doing when the client
\* left; only a handler that an exception ended can, or one that has
\* authenticated its client more than once.
CleanupIsWhole ==
    \A c \in Conn :
        handler[c] = "done" /\ c \notin escaped =>
            /\ auths[c] <= 1 => \A i \in 1..Len(registry) : registry[i].conn # c
            /\ poller[c] # "on"

\* A client that has left is let go of: its handler ends and its poller, even
\* one that no cleanup has cancelled, ends.
LeaversAreLetGo ==
    \A c \in Conn : sock[c] = "lost" ~> (handler[c] = "done" /\ poller[c] # "on")
=============================================================================
