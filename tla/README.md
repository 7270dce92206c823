# A verification project for ocdesktop

ocdesktop is Telegram Desktop with its network layer replaced by a gateway to
the Hermes agent.  Two programs are its own: the **bridge**
(`bridge/hermes_ws_bridge.py`), an asyncio WebSocket server in front of the
session store of the agent, and the **gateway code of the client**
(`Telegram/SourceFiles/openclaw/`), which seeds the chat list from the bridge
and shows what the bridge pushes.  Everything else in `Telegram/` is inherited.

This directory models the bridge (what one connection is pushed, how a reply is
streamed, the peer map that all connections share, the life of the
connections), the gateway code of the client (transport, caches, bootstrap, the
flow that connects and switches users, the embedded browser), and of the
inherited code what both rest on: how local storage puts a file on the disk.

## The system

| component | state | operations | what it interacts with |
|---|---|---|---|
| live push of a connection (`ws_handler`, `poll_new_messages`, `_handle_send`) | `watermarks` of the connection, locals of two coroutines | `sessions.list`, `message.send`, the poller's tick and its re-listing | reads the store on executor threads; shares the peer map with every connection |
| peer map (`HermesWsBridge.list_sessions`) | `_peer_to_session` | clear and refill; lookups by `history`, `message.send`, `peer.full` | called on the event loop and from executor threads |
| connections (`ws_handler`, `CONNECTIONS`) | `authed`, `conn_entry`, `poller_task`, the registry | `auth`, ops, `browser` broadcast, cleanup | transports go away at any point |
| reply stream (`on_delta`, `_next_synth_id`, `ApplyGatewayMessage`) | accumulated text, id counter, bubbles | start, delta, final | agent thread to event loop to client |
| `WsClient` | socket state, buffer, reconnect timer | open, read, fail, close, reconnect | the bridge; `WsGateway` |
| `WsGateway` | auth state, caches, pending callbacks | bootstrap, requests, answers, updates | `WsClient`; the seeder's handlers |
| connect flow (`MockSeeder`, `ConnectConfig`, boxes) | `LiveGateway`, account session, saved config | seed, reattach, switch user | nested event loops of `WsGateway`; `Main::Account`; local storage |
| browser sections | `LiveSections`, `LastUrls` | create, destroy, navigate | updates of the gateway; `MainWidget` |
| seams (`Main::Account`, `Core::Application`, `ApiWrap`, `MainWidget`) | offline flag, log-out, sections | where inherited code calls the above | |
| local storage of the inherited client (`WriteManager`, `ReadFile`) | queue of writes, three names of a file | write, write and wait, stop, read | a thread of its own; the disk |
| roster and formatting of the bridge, Sentry reporter, mock gateway, the rest of the inherited client, build | | | not modelled |

What makes it hard.  The bridge is single-threaded where it awaits nothing, and
concurrent everywhere else: every `await` and every `run_in_executor` is a
place where the other coroutine of the connection, another connection, an
executor thread, the agent's thread or another writer of the store goes on.
The code reads a value before such a place and uses it after, in the poller
(the snapshot of the watermarks, the listing), in the turn (the watermark given
to `messages_after`, the maximum of what it returned) and in the broadcast (the
copy of the registry).  Reads raise, and one `except` per tick or per op takes
what is left of it.  `PROJECT.json` lists the hazards line by line.

What makes each part correct:

* live push: no row of a session the client knows is lost, rows come in order,
  new sessions are announced;
* reply stream: a reply stays in one bubble, which grows and is finalised;
* peer map: a peer the client was given can be named by it, but for the time
  that a listing takes or that another user's listing lasts;
* connections: a broadcast reaches everyone it is for, and a connection that
  ends leaves nothing behind;
* transport: a failure leaves exactly one reconnect pending and a deliberate
  close none; what has arrived is served, however it was cut; auth goes first;
* gateway: a row that the bridge considers told is in the cache or on its way,
  and what is in the cache is on the screen;
* connect flow: however start, restart, log-out and switch fall together, an
  offline session has a gateway of its own user, or the user is asked;
* browser: what the bridge navigates to is shown by the open section;
* storage: what was written can be read, whatever failed and wherever the
  process was killed.

On the client everything runs on one thread, and what is hard is re-entrancy
and time: signals call back into the code that emits them, `bootstrapBlocking`
spins a nested event loop, sockets and timers of an earlier life are still
there in the next one, and the answers to requests made over one connection may
never come while the next one is already in use.

## The modules

| module | content |
|---|---|
| `LivePush` | one connection: frame loop and turn, poller, agent, other writers of the store, other connections as a map that changes |
| `Feed` | what the bridge promises of rows, without saying how; `LivePush` implements it |
| `LivePushProofs` | the theorems of `LivePush`, one of them that it implements `Feed` |
| `ReplyStream`, `ReplyStreamProofs` | a reply from the agent's thread to its bubble, over connections and restarts; its theorems |
| `PeerMap` | `list_sessions` step by step, for several connections and the event loop |
| `Connections` | connections from upgrade to cleanup, the registry, the broadcast |
| `ConnectionsProofs` | the theorems about what all connections share: those of `Connections` and of `PeerMap`, whose specification has names of its own (`PeersSpec`) so that both can be extended |
| `WsClient`, `WsClientProofs` | the client's transport over sockets that fail, with its reconnect timer and decoder; its theorems |
| `WsGateway`, `WsGatewayProofs` | the client's gateway and seeder, over the bridge as `LivePush` shows it; their theorems |
| `ConnectFlow`, `ConnectFlowProofs` | start, seed, reattach, log-out and switch of the user, with what is on the disk; its theorems |
| `BrowserSections`, `BrowserSectionsProofs` | the sections of the embedded browser and their registry; its theorems |
| `StorageFile`, `StorageFileProofs` | how a file of the local storage is written and read; its theorems |
| `MCLivePush`, `MCPeerMap`, `MCConnections`, `MCWsGateway`, `MCConnectFlow` | instances for TLC; the other modules take plain model values from their .cfg |

### LivePush

One action per stretch of code between two suspension points.  `ppc` says where
`poll_new_messages` is suspended and `hpc` where the frame loop is:

| actions | code |
|---|---|
| `SessionsList` | the `sessions.list` op: `list_sessions` on the loop's own thread, the watermarks, the answer, the poller's creation |
| `StartTurn`, `FinishTurn`, `TurnReads`, `TurnJumps` | `_handle_send`: up to handing `_run` over; after it, computing the arguments of `messages_after`; that call on its thread; the assignment of the maximum |
| `TurnFails`, `TurnReadRaises` | its two `except` blocks |
| `AgentPersists` | the agent writing a row of the turn, on its own thread |
| `Wake`, `PollReads`, `PollPushes`, `PollAdvances`, `PollEndsScan` | the tick: the snapshot; `messages_after` of one entry; one `await send`; the watermark update that follows it; the count |
| `RescanClears`, `RescanFills`, `Announce`, `Adopt`, `RescanEnds` | every fifth tick: `list_sessions` on a thread, cut where it clears and where it fills the maps; one `dialog.new`; the watermark set after it; the end |
| `TickAborts` | the `except` around a tick |
| `NewSession`, `RowArrives`, `OthersList` | the world |

Abstractions.  A peer id is the session it names.  Ids of rows are numbered per
session in the order they are written, since the code only compares ids of one
session.  Only `user` and `assistant` rows with text are rows: a row without
text moves `topMessageId` in the code, to a value between two rows, which
compares with every row as the row before it does.  `Session` holds the
sessions that the connection's user sees; `OthersList` lets any other
connection, or a `sessions.list` of this one that raises after the clear, leave
any part of them mapped.  Sending does not fail here: when the transport is
gone the connection is over, which is `Connections`.  `known`, `base`, `pushed`
and `jumped` are what the client has been told; only `StartTurn` reads them
(a client names peers it was told of).  A reconnecting client starts with
sessions known and no watermark.

### Feed

`Feed` has three variables: how many rows a session has, which sessions the
client was told of, and which rows of each it *has had*: was pushed, was told to
fetch by a listing or an announcement (`topMessageId`), or saw as the streamed
bubble of a turn of its own.  Somebody writes a row (`Grows`); a listing makes
sessions known, with a first stretch of rows each (`Lists`); a push or the end
of a turn adds what makes the rows had a longer stretch (`Tells`).  The
refinement of `LivePush` maps `had` to `1..base[s] \cup pushed[s] \cup jumped[s]`.
That coverage has no gap and never shrinks holds although it is assembled by two
coroutines from values read at different times.

### PeerMap

`at[j]` is the step of `list_sessions` that call `j` is before.  A call on the
event loop (`Loop`) keeps every coroutine waiting, hence the guard `LoopIsFree`
of the other loop-side steps: an op (`LoopLists`, `LooksUp`), a poller that hands
its re-listing over (`PollerLists`) and one that is resumed with the result
(`PollerReturns`).  What the executor thread does in between has no such guard:
`PollerClears` (the query and `.clear()`), `ReadsTops` and each turn of the filling
loop (`Maps`) also fall while the loop's own listing is between its clear and
its fill.  `QueryRaises` and `TopsRaise` are the two reads that may raise, before
and after the clear.  The two dictionaries are changed together and are one set
here.  What the query
returns is a constant per connection; listings that change are in `LivePush`.

### ReplyStream

| actions | code |
|---|---|
| `Sends`, `OthersTurn` | `_handle_send` up to `run_in_executor`, with the two ids it takes from the shared counter |
| `OnDelta`, `TimesOut`, `Returns` | the agent's thread: accumulate and hand over; `fut.result(timeout=5)`; the end of `_run` |
| `SendsDelta`, `SendsFinal` | the event loop, which runs what it was given in order |
| `Connects`, `Drops`, `BridgeRestarts` | the world |
| `TakesDelta`, `TakesFinal` | `handleUpdate` and `ApplyGatewayMessage` |

Abstractions.  One chat; a text is the number of its deltas, then final, empty or
an error.  Ids are counted from `_SYNTH_ID_BASE`.  `OthersTurn` is any turn of
another client, which only shares the counter.  A send is one step of the loop:
aiohttp's `send_str` suspends only when its buffer is full, and then in the
order of the sends.  That `message.new` of the same rows may come from the
poller too is `LivePush`.

### Connections

`handler[c]` is where `ws_handler` of `c` is.  Sending on a transport that is
gone raises (aiohttp's `send_str` on a closing transport; modelled from how the
code uses it): inside an op the `except` block sends again and raises again, so
the handler ends and its last lines are skipped (`Escapes`).  Frames that
arrived before the transport was lost are still served.  `Tool` names the
connections that send `browser` ops.  `_run` of a turn is one span of time.
A second `auth` frame registers the connection again and forgets the first
entry.  Entries are dicts: `in` and `remove` compare them by value (`Equal`), so
that the cleanup of a connection that authenticated twice as the same user
takes out one of two equal entries, the first (`Removes`), and the other stays;
`CleanupIsWhole` is about connections that authenticated once.

### WsClient

One action per slot, timer or call, with everything it emits and calls:

| actions | code |
|---|---|
| `Opens`, `TimerFires` | `open()`, called by the bootstrap or by the reconnect timer: the old socket is cut off and aborted, the buffer emptied |
| `Connects`, `ConnectFails`, `Drops` | `onConnected`; `errorOccurred` and `sslErrors`; `onDisconnected` |
| `Reads`, with `EndHandshake` and `ServeFrames` | `onReadyRead`: handshake, then all complete frames up to one that closes |
| `Fail`, `ScheduleReconnect` | of the same names, inside the actions that call them |
| `SendsText`, `Closes` | `sendText` and `close`, called by the gateway |
| `Replies`, `Sends`, `GoesSilent`, `StopsOrStarts` | the bridge and the network |

Abstractions.  What the bridge sends as a whole (the reply to the upgrade, a
frame) is an *item* of two bytes, so that a read can end in the middle of every
one of them; lengths and masks, which only say where an item ends, are left out,
as are delays but for their index in `caps[]`.  The decoder asks two things of a
frame: whether it is complete, and which of text, ping, close or none of these
it is.  The texts that a read emits are the positions of the text frames it
completes, gone through in order (`Texts`, `GoesThrough`); that there always is
such a sequence is a lemma of the proofs.  Two behaviours of Qt matter: a socket that is closed while it connects
finishes connecting, emits `connected`, and then closes; and a socket whose
peer vanished emits nothing.

### WsGateway

| actions | code |
|---|---|
| `Connected`, `Disconnected` | the slots on `WsClient`'s signals (auth is sent; only `_authState` is reset) |
| `TakesSelf`, `TakesSessions`, `TakesHistory` | `handleResponse` for the answers to `auth`, `sessions.list` and `history` |
| `TakesDialogNew`, `TakesMessage` | `handleUpdate`, with the handlers the seeder has set (`ChatAppears`, `RowAppears`) |
| `TimePasses`, `BootstrapReturns`, `Seeds` | the nested loop of `bootstrapBlocking`, its two thresholds, and `SeedWithConfig` and `SeedFromGateway` in the same turn of the main thread |
| `OpensChat` | `OfflineHistory` and `requestHistory` |
| `ServesAuth`, `ServesSessions`, `ServesHistory`, `Pushes`, `Announces` | the bridge, reduced to what `LivePush` shows it promises |
| `NewSession`, `RowArrives`, `LinkEnds` | the world |

Abstractions.  A cached history is the set of its rows: the code keeps a vector
in which a row can occur twice, and all its readers replace by id.  Histories
are shorter than the limit of 50 they are asked with.  The token is the right
one.  What a handler posts to the main thread happens with the update that
posted it: both are on the main thread, first in, first out.  Messages the user
wrote are shown by the sending code and not by the handler (`kSelfBareId`).
`listed`, `landed`, `late` and `excused` only observe.

### ConnectFlow

`main` is the straight-line code the main thread is in, `stack` the loops that
`bootstrapBlocking` and `fetchRosterBlocking` nest, `queue` what is posted with
`crl::on_main`: closures run in the innermost loop, so that everything the user
or the inherited client does can fall inside a bootstrap.

| actions | code |
|---|---|
| `StartConnectFlow`, `RunsFlow` | `StartConnectFlow`, from `startDomain` or posted by `SwitchUser` |
| `Reattaches`, `Seeds` | `ReattachWithConfig` and `SeedWithConfig` from the end of their bootstrap on |
| `Truncates`, `Writes`, `SaveFails`, `WritesNobody` | `SaveConnectConfig`: open with `Truncate`, write, or neither |
| `ShowsConnectBox`, `Submits`, `Dismisses`, `FetchesRoster`, `ShowsPicker`, `Clicks`, `Picks` | the two boxes |
| `SwitchUser`, `Forgets` | `SwitchUser`: the save, then gateway, session and the new flow |
| `GlobalFail`, `LogOut`, `LogOutDone` | the inherited client refused by its servers |
| `Persists`, `Stops`, `Launch`, `BridgeComesOrGoes` | local storage, the process, the bridge |

Abstractions.  A configuration is the user it names and a session the user its
chats were fetched for; address and token never change, and a wrong one is a
bootstrap that fails.  A bootstrap succeeds exactly when the bridge is there at
its end.  A closure that is posted for a session is not called when the session
is gone by then (`crl::on_main(session, ...)`): `LogOut` then does nothing.  `SwitchUser` needs a window of a session, which no start shows before
its reattach is over (`startDomain` precedes `firstShow`).  An ordinary log-in
through the intro inside a nested loop is left out.

### BrowserSections

A section has an address, which is free again when it is destroyed: an entry
that was left behind would not only dangle but point to somebody else's section.
`Shows` registers the new section before the one it replaces is destroyed, which
is what Qt's assignment of the new widget does.  `MainWidget` is reduced to any
order of showing, replacing, keeping and restoring in any column; `kept` is the
set of mementos on its stack.  A pushed navigation waits in `posted` while
history answers, which carry the last url too, are remembered at once.

### StorageFile

`Finishes` is the main thread handing a file over, with or without waiting;
`Writes`, `WritesScheduled`, `WritesSync`, `WritesAll`, `Continues` are what
`WriteManager` runs on its thread, and `Saves`, `Cleans`, `Opens`, `WritesPlain`,
`RemovesBackup`, `Renames`, `RemovesSafe` the steps of `writeNow` on the disk, each
of which can fail where the code looks (`MaxFaults`) and between any two of which the
process can be killed (`MaxCrashes`).  `Place` is the `ranges::find` by which `Coalesces` and
`Erases` look an entry up.  `ReadsFile` is `ReadFile`, for files
without a write under way (the program reads a file before it first writes it).
`QSaveFile` replaces a file as a whole or not at all.  A content is the number of the
write it is of, and whether its checksum would hold; files begin as absent, as
this program leaves them, or in any state that earlier versions, with their two
alternating names, have left.

## Properties and runs

Bounds are small on purpose; each is as large as the situations named need.

| run | instance | checks |
|---|---|---|
| `live_push_safety` | one session, up to 3 rows, turns of 2 rows, re-listing every 2nd tick, 1 read that raises | `TypeOK`, `NothingPassedOver`, `PushedInOrder`, `ImplementsFeed` |
| `live_push_liveness` | two sessions, 1 row each, turns of 1 row, 1 read that raises | `WatchedIsKnown`, `RowsReachClient`, `NewSessionSurfaces` |
| `live_push_others` | as `live_push_safety` | `OthersRowsArePushed`; violated |
| `peer_map` | two connections that see {a, b} and {b, c}, plus the event loop's calls, 1 read that raises | `LastListingIsMapped`, `RefusedOnlyMeanwhile`, `ListedComesBack` |
| `connections` | three connections: a tool, a user's client, one that names no user | `TypeOK`, `NavigateReachesAll`, `CleanupIsWhole`, `LeaversAreLetGo` |
| `reply_stream` | 2 turns of up to 2 deltas, 2 connections, 5 ids, one start over of the counter | `TypeOK`, `TextOnlyGrows`, `BubbleKeepsTurn`, `ReplyCompletes` |
| `ws_client` | 4 items per socket, 1 text by the gateway, all 6 delays | `TypeOK`, `RetryIsPending`, `AuthComesFirst`, `ArrivedIsServed`, `QuietAfterClose`, `ComesBack` |
| `ws_gateway` | two peers, 2 rows in all, 2 connections, 1 chat opened uncached, 1 history error | `TypeOK`, `PendingCountsMissing`, `CacheKeepsUp`, `CachedIsShown` |
| `connect_flow` | two users; the rest is finite | `TypeOK`, `LoopsDoNotNest`, `SendsAreRouted`, `ReattachedAsSeeded`, `SeededIsKept`, `FlowConnects` |
| `connect_flow_reattach` | same | `ExpectationsHold`; violated |
| `browser_sections` | two peers, two columns, three addresses, two urls, 1 navigation posted | `TypeOK`, `PushIsShown` |
| `storage_file` | two files, one of them old, 2 writes each, 3 faults, 1 crash | `TypeOK`, `ReadNeverGoesBack`, `SyncIsDurable`, `EventuallyWritten` |

Why the bounds are enough.  Three rows let a turn of two rows have a foreign row
before, between or after its own; the code treats sessions independently but
for the poller's `for` loop and the re-listing, which the two-session run has.
`RescanEvery` is 2 instead of 5: what matters is that scans without a re-listing
happen in between.  One exception is enough to abort a tick at each of its
reads, in every context; the liveness properties show that it is survived.
`MaxRows` and `MaxFailures` only bound what the environment does.  Two users
with overlapping listings cover the ways two listings can differ; the
second call of each kind is the same connection's next one.  Three connections
are needed for a broadcast with one recipient that leaves and one that stays.
`MaxAuths` is 1: the client authenticates once per connection.  Who claims which
user is fixed (`Claims`): the three connections are the three cases that the
broadcast's scope distinguishes, and a scope that nobody claims is among its
inputs.

Four items on a socket are the reply and three frames: one read can end a
handshake and serve frames, and a frame can follow one that closes.  The number
of sockets and of failures is not bounded in `WsClient`.  In `WsGateway` two
connections are one loss in every place and one recovery; two rows are one
below and one above a watermark, of one session or of two.  Its peers are
interchangeable (no constant or property names one), so `ws_gateway`, which has
no liveness property, uses their symmetry.

Two turns are the smallest number of which one can take the other's bubble or
bubble id; with five ids the counter wraps between turns and also between the
two ids of one.  Two deltas are one that has been overtaken by its successor's
time-out.  `ConnectFlow` has no bound but the number of users: starts, switches,
log-outs and failed saves repeat for ever.  Two columns are the main and the
third one, and one address more than columns lets a new section exist beside the
one it replaces.  In `StorageFile` three faults are every step of one `writeNow`
that can fail, failing (`commit`, the write of the plain file, the rename), or
some of them in two writes; two writes after what was there are needed for
coalescing and overtaking.

`CHECK_DEADLOCK FALSE` is in the configurations of `Connections`, `WsGateway`,
`ReplyStream` and `StorageFile`, whose connections, turns or writes are used up
(or whose process has stopped): the instance ends.

What the passing runs show.  However stale the snapshot a tick works from,
the first time each row is pushed is in order and everything at or below a
watermark is covered: pushed, contained in the listing the client was told of,
or jumped by a turn of its own.  An aborted tick loses nothing, and a session
appears even when the re-listing that would have announced it was aborted.
Overlapping listings cannot leave the map short between them, only another
listing replaces it.  A broadcast over a copy of the registry misses nobody
that is still there; and a poller ends even when its handler was thrown out
before it could cancel it, because the socket is closed.

On the client, whatever order sockets, timers and `close()` come in, a
reconnect is pending exactly when the client has failed and was not closed on
purpose.  A history answer that replaces what updates have put into the cache
loses nothing, since the bridge serves requests and pushes over one ordered
connection.  `_pendingHistories`, which is not reset when a connection is lost,
still never says too early that all is there.  And no row falls between the
seeding and the handlers that are set after it.  A reply's deltas cannot
overtake one another or its final message, although the thread that hands them
over stops waiting: the loop's ready queue and the one socket keep their order.
Nothing that runs inside a nested loop starts a second bootstrap; an offline
session always has a gateway that answers to it once the loops are left; and
whatever the process was killed in, a relaunch attaches the user that the
session was seeded for, unless a save had failed or was cut off.

What the excuses in the properties say is as much a result.  `ReadNeverGoesBack`
excepts two places of `writeNow`: a file that only exists under the old name
`'0'` is written in place when `QSaveFile` fails, and a plain file that came out
short has a good one make room for it: renamed over, or, when the rename fails
as well, removed.  This last case needs three faults in one write; it was met while
the proof was laid out, and the run now has three.  `ReattachedAsSeeded` excepts a save that failed or a kill
between the two clocks of a switch (the configuration is on the disk at once,
the session when the storage thread gets to it).  `BubbleKeepsTurn` excepts the
counter starting over: after a restart of the bridge the next reply edits the
bubble that the client still shows under the same id.  `PushIsShown` excepts peers of
which two columns have had a section: closing the newer one leaves the older
one open and unregistered.

### Fairness

* `LivePush`: weak fairness of the poller's coroutine alone.  The event loop
  resumes what is ready and the executor answers; nothing is assumed of the
  client, the agent, a turn or the other connections.  `RowsReachClient` has as
  premise that the map in the end serves the session whenever the poller reads
  (`PeerMap` says what of it can be relied on).
* `PeerMap`: strong fairness of the next step of the loop's own call and of each
  running poller.  The steps on executor threads are never disabled, so that
  weak fairness would do for them; handing over and being resumed are disabled
  again and again while the event loop serves a `sessions.list`, but the loop is
  free between two frames and its ready queue is first in, first out.
* `WsClient`: weak fairness of the timer, of a connection to a bridge that is up,
  of reading what has arrived and of the answer to an upgrade: Qt's event loop
  delivers what is due, and aiohttp answers.  `ComesBack` has as premise that
  the bridge is up and nothing fails any more.
* `WsGateway`: none; only safety is stated.
* `Connections`: weak fairness of handlers that have something to do, of the
  poller's loop test, and of aiohttp noticing (heartbeat of 30 s) that a
  transport is gone.  Turns are assumed to end.
* `ReplyStream`: weak fairness of the event loop, of the client's main thread,
  and of each agent, which is assumed to return.  Nothing is assumed of the
  time-out, of the connection or of other clients.
* `ConnectFlow`: weak fairness of the main thread, which runs what is posted;
  a nested loop quits by its own timer.  The user, the bridge, the disk and
  Telegram's servers may never act.
* `StorageFile`: weak fairness of the storage thread.
* `BrowserSections`: none; only safety is stated.

### Where code and comments disagree

The two violated runs are real interleavings of the code; `PROJECT.json` quotes the
line each contradicts.

1. `OthersRowsArePushed`: the jump at the end of a turn also passes rows of
   other writers.
2. `ExpectationsHold`: a restored session is logged out inside the nested loop
   of its reattach, since the account is marked offline only after it, and
   `account->session()` behind the loop asserts that there is one.

### Observed

Seen while modelling, without a run of their own:

* The end of a turn assigns the maximum of an older read and can move the
  watermark back (bridge, line 628; the poller compares at 441): rows are then
  pushed twice, against the comment at 408-410.  Rows persisted while a turn is
  running are pushed by the poller before the jump that is meant to prevent it
  (620-622).  The client edits by id and shows neither twice, but the turn's
  rows appear beside the streamed bubble, whose id is synthetic.
* With two sessions the same assignment can put rows out of order.  A turn in a
  session without a watermark reads its rows; the re-listing announces the
  session, adopts a later `topMessageId`, and a newer row is pushed; then the
  turn's maximum replaces the watermark, and rows that the announcement counted
  are pushed after the newer one.  The client was told to fetch these rows, and
  the history answer orders them, so `PushedInOrder` excepts exactly them
  (`i <= base[s]`).  The one-session run does not meet this; a step of the proof
  that failed led to it.
* `stream.delta` carries the whole text so far, which the client puts in place of
  what it showed (bridge, 570-577); `docs/HERMES_WS_PROTOCOL.md:85-86,95` has
  increments that are appended, and `bridge/test_ws_roundtrip.py:84-85,103` joins
  the deltas and compares the result with the final text.  `ReplyStream` follows
  the code; `TextOnlyGrows` would be the same with increments.
* A socket that connects after `close()` puts `_state` back to `Handshake`; when it
  is lost, `fail()` emits `disconnected` once more (`WsClient.cpp` 270-277).
  `QuietAfterClose` is about frames and reconnects and does not observe the signal.
* The `browser` op iterates over `_peer_to_session` on the loop (bridge, 514) while
  executor threads change it: Python may raise there, and the op then answers
  "internal".  It changes no state of the models.
* Another connection's re-listing takes a peer out of the shared map for as long
  as it is the last one (`RefusedOnlyMeanwhile` says how long a refusal can last).
* `bootstrapBlocking` returns true with histories missing when the connection
  drops after `sessions.list` was answered, or the timeout runs out, against
  `WsGateway.h:38-40`; that the cache catches up is `CacheKeepsUp`.
* An exception while answering a lost client skips the removal from
  `CONNECTIONS` (`escaped` in `Connections`): a dead entry stays in what the
  comment there calls the live connections registry.
* `stream.start` creates no bubble in the client, as the comment at bridge
  570-573 says it does: it only sets the typing indication.
* "Monotonic" synthetic ids start over with the bridge's process.
* `SaveConnectConfig` truncates the file it writes and its result is ignored;
  `SeedAndShow` only logs a failed seed, although the comment at
  `MockSeeder.cpp:468-471` has the caller fall back to the ConnectBox.
* A start that is locked by a passcode never calls `StartConnectFlow`, nor does
  unlocking: that session has no gateway until the next start.
* Widening to three columns shows the inherited info section instead of the browser
  (`mainwidget.cpp:2413-2423`), unlike the other places that fill that column.

## What is proved

Eight modules hold theorems.  In each, the constants are arbitrary but for the
module's `ConstantsAssumption` (`PeersAssumption` in `PeerMap`): limits are
naturals, a null value is none of the values it stands beside, sets that are
counted are finite.  The theorems follow from one inductive invariant, conjoined
of named parts, with a lemma per step or per part.

### LivePush

* `TypeCorrect`, from one lemma per step; the type invariant is the conjunction
  of parts (`StoreOK`, `PollerOK`, ...) so that a step is only asked about the
  parts it touches (`UntouchedStaysOK` gives the rest).
* `WatermarkWithinStoreHolds`.  The inductive invariant `Within` adds that what
  was announced to the client is within the store too: `Adopt` and
  `SessionsList` copy it into watermarks.  `GrowthKeepsWithin` handles the two
  steps that write a row.
* `NothingPassedOverHolds`.  The property is not inductive: a watermark comes
  from the message just pushed, whose predecessors are covered because the
  snapshot was; from the listing, because it was announced; or from a turn,
  because its mark was a watermark.  `CoverInv` says so of each of these values
  while it waits, and `CoveredStays` that what is covered stays covered.
* `WatchedIsKnownHolds`, with `KnownInv`: the coroutines' current peers are
  known or watched.
* `ImplementsFeedHolds`: `Spec => F!Spec`.  The initial states map to initial
  states; `SilentStep`, `WritingStep` and one lemma per way of telling the client
  something map every step to `Grows`, `Lists`, `Tells` or a stutter.  The
  invariants above say of each value that waits in a coroutine that everything
  below it is had, which is why a push or a jump extends a prefix; `Numbered` adds that
  a row about to be pushed has a number.
* `PushedInOrderHolds`.  A tick works from a snapshot that a turn, or the same
  poller's earlier tick, may have overtaken.  `OrderInv` says that
  between a watermark, or a value that waits in a coroutine to become one, and a
  row that was pushed, all rows were pushed or announced (`Settled`, `Heard`): a
  row that is pushed for the first time has no later one before it.

### PeerMap

In `ConnectionsProofs`, about `PeersSpec`, for all connections and listings:
`PeersTypeCorrect`;
`LastListingIsMappedHolds`, which is inductive together with the types; and
`RefusedOnlyMeanwhileHolds`, an action property that follows from it and from
`NothingUnlisted` (before the first listing nobody knows a peer, no poller runs
and no call is under way).

### Connections

For any connections, users, scopes and number of `auth` frames: `TypeCorrect`;
`NavigateReachesAllHolds`, by `BroadcastInv`: every connection of the snapshot
that the loop has passed was sent to, is out of scope, or is closed, and one
that is closed never opens again; and `CleanupIsWholeHolds`, by `RegistryInv`: every
entry of the registry is there once, and the latest of a connection is the
`conn_entry` that its handler removes.

### ReplyStream

For any turns, deltas, connections, bridge restarts and size of the id band.
`KnownInv` says that whatever waits anywhere is of a turn that has begun, with
no more deltas than were accumulated, and a final text only when the agent has
returned; `OrderInv` that for each turn the loop's queue, the wire and the bubble
hold its texts in order;
`IdsInv` that an id is given out once between two starts of the counter.
`TextOnlyGrowsHolds` rests on the second, `BubbleKeepsTurnHolds` on the third.

### WsClient

For any number of items, texts and delays:

* `RetryIsPendingHolds` and `QuietAfterCloseHolds`.  The invariant `Inv` adds
  `SocketFollows`, which ties the client to its socket: it is `Connecting`
  exactly while its socket is, and a client that was closed has no socket that
  is read from and is `Closed`, or in the `Handshake` of a socket that was closed
  while it connected.  Without it a step of that late handshake could reopen
  the client.
* `AuthComesFirstHolds`, with `OutOK`, which adds the types: the step that ends
  the handshake begins the output with auth, and all others append.
* `TypeCorrect` and `ArrivedIsServedHolds`.  `ArrivedInv` says that an open client
  has taken every item that is complete and served all of them (`Served`), that no
  more was read than was sent, and that a socket in its handshake has delivered
  nothing.  The step is `ServeFramesServes`: what a read adds is the texts
  and pings between two positions, and both go on where they ended
  (`GoesThroughBoth`, `PingsAddUp`).  `TextsAreThere`, that the text frames between
  two positions can be listed in order, is an induction over the second one; it
  is done by the least counterexample (`Least`), since induction
  theorems with an operator as parameter are out of the prover's reach.

### WsGateway

For any finite set of sessions, any rows, losses of the connection, chats opened
and errors, all four invariants of the run `ws_gateway`:

* `TypeCorrect`; that `pending` stays within one listing is the bound that the
  reset in `TakesSessions` keeps.
* `PendingCountsMissingHolds`.  The count is right because during a bootstrap
  requests and answers under way are about different peers, or are alone:
  `AskedInv` says so of both queues together, and that every history among them
  is still missing.  Hence each answer lowers `Cardinality(listed \ landed)` by
  exactly one, and `CountInv` keeps that at or below `pending`.  A lost answer
  leaves the count too high, never too low.
* `CacheKeepsUpHolds`.  A history answer *replaces* what is cached, and would lose
  what was pushed in the meantime if it were older: `OrderInv` says that an
  answer under way knows every row that is cached or announced by a frame before
  it.  `CallbackInv` says that an id is used once, so an answer is cached under
  the peer it is of, also when callbacks of an earlier connection are left.
* `CachedIsShownHolds`: with `StoredInv`, that nothing is cached that is not
  stored, a row that is written later is not shown as an earlier one was.

### ConnectFlow

For any users: `LoopsDoNotNestHolds`, `SendsAreRoutedHolds`,
`ReattachedAsSeededHolds` and `SeededIsKeptHolds`, the safety properties of the
run `connect_flow`, and `TypeCorrect`.  `QueueInv`, `StackInv`, `BoxInv` and `MainInv`
together say that at most one thing exists that can start a bootstrap: the
straight-line code, a posted flow, an open box, or the loop that is
nested.  `SessionInv` and `DiskInv` tie session, gateway and the two clocks of
the disk.  `SeedsIntoNoSession`, which no run states, is the other side of the
finding below: of the two assertions on the session that end the process, the
one in `createSession()` always holds.

### BrowserSections

For any peers, columns and addresses: `TypeCorrect` (the registry has for a peer
nothing or a section of that peer that exists) and `PushIsShownHolds`.  The
invariant adds `Single`, that a peer that was never crowded has one section at
most, and `Registered`, that this one is in the registry.

### StorageFile

For any files with any of `Left` on the disk, and any number of writes, faults and
kills of the process, all three safety properties of the run `storage_file`:

* `TypeCorrect`, with what the type invariant says of the queue: no file is
  scheduled twice, and while the main thread waits, what it waits for is posted
  or being written.
* `ReadNeverGoesBackHolds`.  `StageInv` says for each step of `writeNow` what is
  under the three names by then (until the backup is gone and the plain file is
  whole, or known not to be, nothing else is taken away), and `Newest` that
  nothing that waits to be written is older than what is on the disk.
  `WriteNowOutcome` is the case analysis over steps and names; `AfterReadReads`
  adds that reading a file removes nothing that would have been read.
* `SyncIsDurableHolds`.  `LatestInv` follows the last write of a file: it failed, is
  posted, scheduled, being written, or can be read.  `PostInv` and `ScheduledInv` keep the
  writes of a file in the order of their numbers in all three places, which is what
  the coalescing in `write` and the `erase` in `writeSync` are for; `WaitInv`
  says that the main thread waits for one task, after which it has posted no
  write, so that when it goes on only the last of the five cases is left.

### Left to TLC

`WatermarkWithinStore` and the types of `PeerMap` are proved and not checked by a
run any more: they are steps of these proofs, and what matters of them is part
of `NothingPassedOver` and `ImplementsFeed`.  The invariants that carry the
proofs were checked by TLC on the instances of the runs before they were proved.

Only the liveness properties are model-checked and not proved (`RowsReachClient`,
`NewSessionSurfaces`, `ListedComesBack`, `LeaversAreLetGo`, `ComesBack`,
`ReplyCompletes`, `FlowConnects`, `EventuallyWritten`): the prover does not handle
fairness.

## Not modelled

Wall-clock time (the 2 s tick, the 5 s wait and the 30 s heartbeat are just steps
that come); the content of messages, titles, URLs and the roster; the hash from
session to peer id; two auth frames on one connection in one run;
authentication itself beyond right and wrong token.  Of the gateway: the answer
to `message.send` and its callback, which the client calls without one, typing
frames, `logout`.  A webview that cannot be created; an ordinary log-in while a
bootstrap is nested; the start that a passcode locks.  Of local storage: what
the files hold, their encryption, the choice of a file's key and `ClearKey`, which does
not cancel a queued write of the file it removes.

The inherited client is some 950 000 lines, all but about 5 000 of them
unchanged Telegram Desktop: layout, painting, media, calls, payments, and a data
layer driven by servers that an offline session never hears from.  Its
lines are not this program's logic, and the models cover the small part that the
gateway code calls, is called by, or rests on; a share of the whole that could be
called coverage is out of reach, and is not aimed at.  The Sentry reporter is
network I/O around a ring of breadcrumbs; the mock gateway is an in-memory
double without concurrency; roster, history formatting and URL scan of the
bridge format one query's answer.

## Plan

Every safety invariant and action property that a passing run checks is proved.
What is left, if the project is continued:

1. The bridge that `WsGateway` assumes as what `Feed` promises over a
   connection that drops, so that the two can be composed.
2. The answer to `message.send` and its callback in `WsGateway`, and `ClearKey` in
   `StorageFile`.
