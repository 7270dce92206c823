------------------------------ MODULE WsClient ------------------------------
(***************************************************************************)
(* The client's WebSocket transport (openclaw/WsClient.cpp): a state       *)
(* machine over one QSslSocket at a time, the handshake, the decoder of    *)
(* frames, and the single-shot timer that reconnects after a failure.      *)
(*                                                                         *)
(* Everything runs on the Qt main thread: one action per slot, timer or    *)
(* call, with the signals it emits.  WsGateway answers connected() by      *)
(* sending the auth frame before the emitting call goes on.                *)
(*                                                                         *)
(* Abstractions.  An item is what the bridge sends as a whole: the reply   *)
(* to the upgrade request, then frames.  An item is two bytes long, so a   *)
(* read may end inside any of them.  `arrived' counts the bytes that       *)
(* onReadyRead has read of the present socket and `taken' the items that   *)
(* the decoder took out of _buffer, which holds the bytes between.         *)
(***************************************************************************)
EXTENDS Naturals, Sequences, FiniteSets

CONSTANTS
    MaxItems,   \* items the bridge sends on one socket
    MaxTexts,   \* frames the gateway sends on one socket, but for auth
    LastCap     \* index of the last entry of caps[], the reconnect delays

ASSUME ConstantsAssumption == MaxItems \in Nat /\ MaxTexts \in Nat /\ LastCap \in Nat

VARIABLES
    state,      \* _state
    deliberate, \* _deliberateClose
    timer,      \* _reconnectTimer is active
    attempts,   \* _reconnectAttempts, as far as the index into caps[] tells
    arrived,    \* bytes of `sent' that were read into _buffer
    taken,      \* items of `sent' that were taken out of _buffer
    sock,       \* the present QSslSocket
    up,         \* the bridge is running and reachable
    sent,       \* the items it has sent on the present socket
    received,   \* the textMessage() signals, as positions in `sent'
    out         \* the frames written to the present socket

vars == <<state, deliberate, timer, attempts, arrived, taken, sock, up, sent, received, out>>
stream == <<arrived, taken, sent, received, out>>

Reply == {"accept", "reject"}
Frame == {"text", "ping", "close", "other"}

Init ==
    /\ state = "Idle" /\ deliberate = FALSE
    /\ timer = FALSE /\ attempts = 0
    /\ arrived = 0 /\ taken = 0
    /\ sock = "none" /\ up = TRUE
    /\ sent = <<>> /\ received = <<>> /\ out = <<>>

-----------------------------------------------------------------------------
(* Failing and coming back.                                                *)

\* Mutants: a deliberate close is not looked at; the index is not kept
\* within caps[].
RetriesAlways(tries) ==
    /\ timer' = TRUE
    /\ attempts' = IF tries < LastCap THEN tries + 1 ELSE tries

RetriesPastCaps(tries) ==
    IF deliberate
       THEN attempts' = tries /\ UNCHANGED timer
       ELSE timer' = TRUE /\ attempts' = tries + 1

(* scheduleReconnect() after `tries' attempts; the URL is set by open().   *)
ScheduleReconnect(tries) ==
    IF deliberate
       THEN attempts' = tries /\ UNCHANGED timer
       ELSE /\ timer' = TRUE
            /\ attempts' = IF tries < LastCap THEN tries + 1 ELSE tries

(* fail(): the socket is left as it is. *)
Fail ==
    IF state = "Closed"
       THEN UNCHANGED <<state, timer, attempts>>
       ELSE state' = "Closed" /\ ScheduleReconnect(attempts)

(* open(): the old socket is cut off from the slots and aborted, and a new *)
(* one starts to connect, with an empty buffer.                            *)
OpenSocket ==
    /\ state' = "Connecting" /\ sock' = "connecting"
    /\ deliberate' = FALSE
    /\ arrived' = 0 /\ taken' = 0
    /\ sent' = <<>> /\ received' = <<>> /\ out' = <<>>
    /\ UNCHANGED <<attempts, up>>

(* A gateway opens its client once, to bootstrap. *)
Opens == state = "Idle" /\ OpenSocket /\ UNCHANGED timer

(* The single-shot timer fires. *)
TimerFires ==
    /\ timer
    /\ timer' = FALSE
    /\ IF deliberate
          THEN UNCHANGED <<state, deliberate, attempts, sock, up, stream>>
          ELSE OpenSocket

(* onConnected() writes the upgrade request.  It does not look at _state:  *)
(* a socket that is closed while it connects still emits connected, and    *)
(* closes after it.                                                        *)
Connects ==
    /\ sock \in {"connecting", "pendingClose"} /\ up
    /\ sock' = IF sock = "connecting" THEN "up" ELSE "closing"
    /\ state' = "Handshake"
    /\ UNCHANGED <<deliberate, timer, attempts, up, stream>>

(* errorOccurred or sslErrors, before the socket is connected. *)
ConnectFails ==
    /\ sock \in {"connecting", "pendingClose"}
    /\ sock' = "down"
    /\ Fail
    /\ UNCHANGED <<deliberate, up, stream>>

(* onDisconnected(), or errorOccurred of a connected socket. *)
Drops ==
    /\ sock \in {"up", "silent", "closing"}
    /\ sock' = "down"
    /\ Fail
    /\ UNCHANGED <<deliberate, up, stream>>

-----------------------------------------------------------------------------
(* Reading.                                                                *)

At(frame, a, b) == {i \in a..b : sent[i] = frame}

(* s goes through the members of S, one after the other. *)
GoesThrough(s, S) ==
    /\ {s[i] : i \in DOMAIN s} = S
    /\ \A i, j \in DOMAIN s : i < j => s[i] < s[j]

Texts(a, b) ==  \* the positions of text frames from a to b, in order
    LET S == At("text", a, b) IN CHOOSE s \in [1 .. Cardinality(S) -> S] : GoesThrough(s, S)
Pings(a, b) == Cardinality(At("ping", a, b))

Written(frame) == Cardinality({i \in DOMAIN out : out[i] = frame})

Complete(n) == n \div 2    \* the items that end within the first n bytes

(* processFrames() with `done' items out of the buffer: the complete ones  *)
(* after them, one by one, up to one that closes.  Frames that are neither *)
(* text, ping nor close (binary, continuation, pong) are taken and ignored.*)
ServeFrames(done, n, written, tries) ==
    \E b \in done .. Complete(n) :
        /\ \A i \in (done + 1) .. (b - 1) : sent[i] # "close"
        /\ taken' = b
        /\ received' = received \o Texts(done + 1, b)
        /\ out' = written \o [i \in 1..Pings(done + 1, b) |-> "pong"]
        /\ IF b > done /\ sent[b] = "close"
              THEN state' = "Closed" /\ ScheduleReconnect(tries)
              ELSE /\ b = Complete(n)
                   /\ state' = "Open" /\ attempts' = tries /\ UNCHANGED timer

\* Mutants: connected() is emitted before _state is Open, and sendText()
\* drops the auth frame; frames are not looked at in the handshake's read; a
\* reply that does not accept is waited over.
SignalsTooEarly(n) ==
    IF sent[1] = "accept"
       THEN ServeFrames(1, n, out, 0)
       ELSE taken' = 1 /\ Fail /\ UNCHANGED <<received, out>>

LeavesFrames(n) ==
    IF sent[1] = "accept"
       THEN /\ state' = "Open" /\ attempts' = 0 /\ taken' = 1
            /\ out' = <<"auth">>
            /\ UNCHANGED <<timer, received>>
       ELSE taken' = 1 /\ Fail /\ UNCHANGED <<received, out>>

IgnoresReject(n) ==
    IF sent[1] = "accept"
       THEN ServeFrames(1, n, <<"auth">>, 0)
       ELSE taken' = 1 /\ UNCHANGED <<state, timer, attempts, received, out>>

(* processHandshake() with the whole header in the buffer, and what        *)
(* onReadyRead() goes on with.                                             *)
EndHandshake(n) ==
    IF sent[1] = "accept"
       THEN ServeFrames(1, n, <<"auth">>, 0)
       ELSE taken' = 1 /\ Fail /\ UNCHANGED <<received, out>>

(* onReadyRead(): the first n bytes have arrived.  A client that failed    *)
(* reads on, but looks at nothing.                                         *)
Reads(n) ==
    /\ sock = "up"
    /\ n \in (arrived + 1) .. (2 * Len(sent))
    /\ arrived' = n
    /\ IF state = "Handshake" /\ n >= 2 THEN EndHandshake(n)
       ELSE IF state = "Open" THEN ServeFrames(taken, n, out, attempts)
       ELSE UNCHANGED <<state, timer, attempts, taken, received, out>>
    /\ UNCHANGED <<deliberate, sock, up, sent>>

-----------------------------------------------------------------------------
(* Calls.                                                                  *)

(* sendText(), from the gateway: dropped unless Open. *)
SendsText ==
    /\ state = "Open"
    /\ Written("text") < MaxTexts
    /\ out' = Append(out, "text")
    /\ UNCHANGED <<state, deliberate, timer, attempts, arrived, taken, sock, up, sent, received>>

\* Mutant: only an open socket is closed.
ClosesOpenOnly ==
    /\ ~deliberate
    /\ deliberate' = TRUE /\ timer' = FALSE
    /\ state' = "Closed"
    /\ IF state = "Open"
          THEN out' = Append(out, "close") /\ sock' = "closing"
          ELSE UNCHANGED <<out, sock>>
    /\ UNCHANGED <<attempts, arrived, taken, up, sent, received>>

(* close(): what the device still holds is not read any more. *)
Closes ==
    /\ ~deliberate
    /\ deliberate' = TRUE /\ timer' = FALSE
    /\ state' = "Closed"
    /\ out' = IF state = "Open" THEN Append(out, "close") ELSE out
    /\ sock' = CASE sock = "connecting" -> "pendingClose"
                  [] sock \in {"up", "silent"} -> "closing"
                  [] OTHER -> sock
    /\ UNCHANGED <<attempts, arrived, taken, up, sent, received>>

-----------------------------------------------------------------------------
(* The bridge and the network.                                             *)

Replies(reply) ==
    /\ sock = "up" /\ sent = <<>>
    /\ sent' = <<reply>>
    /\ UNCHANGED <<state, deliberate, timer, attempts, arrived, taken, sock, up, received, out>>

Sends(frame) ==
    /\ sock = "up" /\ sent # <<>> /\ Len(sent) < MaxItems
    /\ sent[Len(sent)] \notin {"reject", "close"}
    /\ sent' = Append(sent, frame)
    /\ UNCHANGED <<state, deliberate, timer, attempts, arrived, taken, sock, up, received, out>>

(* The peer vanishes without a word: no slot is called. *)
GoesSilent ==
    /\ sock = "up"
    /\ sock' = "silent"
    /\ UNCHANGED <<state, deliberate, timer, attempts, up, stream>>

StopsOrStarts ==
    /\ up' = ~up
    /\ UNCHANGED <<state, deliberate, timer, attempts, sock, stream>>

Bridge ==
    \/ \E reply \in Reply : Replies(reply)
    \/ \E frame \in Frame : Sends(frame)
    \/ GoesSilent \/ StopsOrStarts

ReadsSome == \E n \in 1 .. 2 * MaxItems : Reads(n)

Next ==
    \/ Opens \/ TimerFires \/ Connects \/ ConnectFails \/ Drops
    \/ ReadsSome
    \/ SendsText \/ Closes
    \/ Bridge

Spec == Init /\ [][Next]_vars

(* Qt's event loop delivers what is due; a bridge that is up completes a   *)
(* connection and answers the upgrade request.                             *)
FairSpec ==
    /\ Spec
    /\ WF_vars(TimerFires) /\ WF_vars(Connects) /\ WF_vars(ReadsSome)
    /\ WF_vars(\E reply \in Reply : Replies(reply))

-----------------------------------------------------------------------------
(* Properties.                                                             *)

\* Every variable keeps its type, and the index of the next delay is one of
\* caps[].
TypeOK ==
    /\ state \in {"Idle", "Connecting", "Handshake", "Open", "Closed"}
    /\ deliberate \in BOOLEAN /\ timer \in BOOLEAN /\ up \in BOOLEAN
    /\ attempts \in 0..LastCap
    /\ sock \in {"none", "connecting", "pendingClose", "up", "silent", "closing", "down"}
    /\ sent \in Seq(Reply \cup Frame)
    /\ received \in Seq(Nat) /\ out \in Seq({"auth", "text", "pong", "close"})
    /\ arrived \in Nat /\ taken \in Nat

\* A client that failed has a reconnect pending, and no other client has
\* one: a timer that ran out later would abort a connection that works, and
\* one that survived close() would undo it.
RetryIsPending == timer <=> (state = "Closed" /\ ~deliberate)

\* "First frame MUST be auth": whatever is written to a socket comes after
\* the auth frame, and an Open client has sent it.
AuthComesFirst ==
    /\ out # <<>> => out[1] = "auth"
    /\ state = "Open" => out # <<>>

\* However the bytes were cut into reads, an open client has emitted every
\* text frame that has arrived, in order, and answered every ping; none is
\* left in the buffer until something else arrives.
ArrivedIsServed ==
    state = "Open" =>
        /\ GoesThrough(received, At("text", 2, Complete(arrived)))
        /\ Written("pong") = Pings(2, Complete(arrived))

\* After close() the client says and hears nothing more and stays closed
\* on purpose, also when it was closed while it was connecting.
QuietAfterClose ==
    [][deliberate => deliberate' /\ received' = received /\ out' = out]_vars

\* Failures are survived: if the bridge stays up in the end and nothing
\* fails any more, the client is open in the end, unless it was closed,
\* never opened, or its peer vanished without a word.
Fault ==
    \/ ConnectFails \/ Drops \/ GoesSilent
    \/ Replies("reject") \/ Sends("close")

ComesBack ==
    (<>[]up /\ <>[][~Fault]_vars) =>
        <>[](state \in {"Open", "Idle"} \/ deliberate \/ sock = "silent")
=============================================================================
