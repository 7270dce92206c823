---------------------------- MODULE ReplyStream -----------------------------
(***************************************************************************)
(* How a reply gets into its bubble.  On the bridge (_handle_send of       *)
(* bridge/hermes_ws_bridge.py) the agent streams from a thread of its own, *)
(* handing each delta to the event loop and waiting at most five seconds   *)
(* for it to be sent; the final message is sent by the coroutine that      *)
(* awaits the thread.  In the client (openclaw/WsGateway.cpp and           *)
(* MockSeeder.cpp) every frame replaces the text of the bubble that has    *)
(* the reply's synthetic id.  Connections drop and come back under a turn, *)
(* and the bridge restarts.                                                *)
(*                                                                         *)
(* Abstractions.  One chat.  The text of a reply is how many of its deltas *)
(* it holds, then that it is final or an error.  Ids are counted from      *)
(* _SYNTH_ID_BASE.  The typing indication, which goes out by itself after  *)
(* six seconds, is left out, and with it stream.start, from which the      *)
(* client takes nothing else.                                              *)
(***************************************************************************)
EXTENDS Naturals, Sequences

CONSTANTS
    SynthIds,   \* how many ids there are from the base to _INT32_MAX
    MaxTurns,   \* turns of this client
    MaxDeltas,  \* deltas of a turn
    MaxConns,   \* connections of this client
    MaxEpochs   \* times that ids start over

ASSUME ConstantsAssumption ==
    /\ SynthIds \in Nat \ {0}
    /\ {MaxTurns, MaxDeltas, MaxConns, MaxEpochs} \subseteq Nat

VARIABLES
    \* the bridge
    counter,  \* _synth_counter
    epoch,    \* how often the counter has started over
    ready,    \* what the event loop will run: sends of deltas, coroutines to resume
    \* the turns of this client, in order
    stage,    \* "none" | "run", the agent's thread | "return", its result is out
              \* | a Result, when it is sent | "lost"
    conn,     \* the connection it was asked over
    reply,    \* reply_msg_id
    since,    \* the epoch of that id
    acc,      \* deltas accumulated
    waiting,  \* on_delta waits for its send
    \* the connection
    link, conns, wire,
    \* the client
    bubble    \* what the bubble with an id shows, if there is one

loopVars == <<counter, epoch, ready>>
turnVars == <<stage, conn, reply, since, acc, waiting>>
linkVars == <<link, conns>>
vars == <<loopVars, turnVars, linkVars, wire, bubble>>

Turn == 1..MaxTurns
Id == 1..SynthIds
NoBubble == [turn |-> 0, text |-> "none", upto |-> 0]
Shows(t, text, upto) == [turn |-> t, text |-> text, upto |-> upto]

Init ==
    /\ counter = 0 /\ epoch = 0 /\ ready = <<>>
    /\ stage = [t \in Turn |-> "none"] /\ conn = [t \in Turn |-> 0]
    /\ reply = [t \in Turn |-> 1] /\ since = [t \in Turn |-> 0]
    /\ acc = [t \in Turn |-> 0] /\ waiting = [t \in Turn |-> FALSE]
    /\ link = "down" /\ conns = 0 /\ wire = <<>>
    /\ bubble = [i \in Id |-> NoBubble]

-----------------------------------------------------------------------------
\* Mutant: _INT32_MAX itself is given out.
WrapsLate(n) == n > SynthIds

(* _next_synth_id: whether the counter starts over, and the id after n.    *)
Wraps(n) == n >= SynthIds

NextId(n) == IF Wraps(n) THEN 1 ELSE n + 1

(* The two ids of a turn, for the user's message and for the reply.        *)
Allocates ==
    LET user == NextId(counter) IN
    /\ counter' = NextId(user)
    /\ epoch' = IF Wraps(counter) \/ Wraps(user) THEN epoch + 1 ELSE epoch
    /\ epoch' <= MaxEpochs

(* A turn of another client: the counter is shared.                        *)
OthersTurn ==
    /\ Allocates
    /\ UNCHANGED <<ready, turnVars, linkVars, wire, bubble>>

(* What is sent for turn t reaches the wire, or the send raises.           *)
Open(t) == link = "up" /\ conn[t] = conns

(* message.send: _run on a thread.  The frame loop of a connection is in   *)
(* one turn at a time.                                                     *)
Sends(t) ==
    /\ link = "up"
    /\ stage[t] = "none" /\ (t > 1 => stage[t - 1] # "none")
    /\ \A u \in Turn : stage[u] \in {"run", "return"} => conn[u] # conns
    /\ Allocates
    /\ stage' = [stage EXCEPT ![t] = "run"]
    /\ conn' = [conn EXCEPT ![t] = conns]
    /\ reply' = [reply EXCEPT ![t] = counter']
    /\ since' = [since EXCEPT ![t] = epoch']
    /\ UNCHANGED <<ready, acc, waiting, linkVars, wire, bubble>>

(* on_delta, on the agent's thread: the send of the text so far is handed  *)
(* to the loop, and the thread waits for it.                               *)
OnDelta(t) ==
    /\ stage[t] = "run" /\ ~waiting[t] /\ acc[t] < MaxDeltas
    /\ acc' = [acc EXCEPT ![t] = @ + 1]
    /\ ready' = Append(ready, [turn |-> t, what |-> "delta", upto |-> acc'[t]])
    /\ waiting' = [waiting EXCEPT ![t] = TRUE]
    /\ UNCHANGED <<counter, epoch, stage, conn, reply, since, linkVars, wire, bubble>>

(* fut.result(timeout=5) raises, which is swallowed; the send stays queued. *)
TimesOut(t) ==
    /\ waiting[t]
    /\ waiting' = [waiting EXCEPT ![t] = FALSE]
    /\ UNCHANGED <<loopVars, stage, conn, reply, since, acc, linkVars, wire, bubble>>

Updates(t, text, upto) ==
    IF Open(t)
       THEN Append(wire, [kind |-> "message.new", id |-> reply[t], show |-> Shows(t, text, upto)])
       ELSE wire

\* Mutant: the thread sends the final message itself, past what is queued.
ReturnsAtOnce(t, how) ==
    /\ stage[t] = "run" /\ ~waiting[t]
    /\ stage' = [stage EXCEPT ![t] = how]
    /\ wire' = Updates(t, how, 0)
    /\ UNCHANGED <<loopVars, conn, reply, since, acc, waiting, linkVars, bubble>>

(* run_conversation returns a text or none, or raises: the coroutine is    *)
(* put behind what the loop was given before.                              *)
Returns(t, how) ==
    /\ stage[t] = "run" /\ ~waiting[t]
    /\ stage' = [stage EXCEPT ![t] = "return"]
    /\ ready' = Append(ready, [turn |-> t, what |-> how, upto |-> 0])
    /\ UNCHANGED <<counter, epoch, conn, reply, since, acc, waiting, linkVars, wire, bubble>>

Runs(what) ==
    /\ ready # <<>> /\ Head(ready).what = what
    /\ ready' = Tail(ready)
    /\ UNCHANGED <<counter, epoch, conn, reply, since, acc, linkVars, bubble>>

(* The loop sends a delta; the thread is still waiting only for its last.  *)
SendsDelta ==
    LET t == Head(ready).turn
        upto == Head(ready).upto
    IN
    /\ Runs("delta")
    /\ wire' = IF Open(t)
                  THEN Append(wire, [kind |-> "stream.delta", id |-> reply[t],
                                     show |-> Shows(t, "delta", upto)])
                  ELSE wire
    /\ waiting' = IF upto = acc[t] THEN [waiting EXCEPT ![t] = FALSE] ELSE waiting
    /\ UNCHANGED stage

\* Mutant: an agent that raises is only logged.
SendsNoError(how) ==
    LET t == Head(ready).turn IN
    /\ Runs(how)
    /\ wire' = IF how = "error" THEN wire ELSE Updates(t, how, 0)
    /\ stage' = [stage EXCEPT ![t] = how]
    /\ UNCHANGED waiting

(* The coroutine sends the final message, or the error; when the           *)
(* connection is gone it raises out of the handler.                        *)
SendsFinal(how) ==
    LET t == Head(ready).turn IN
    /\ Runs(how)
    /\ wire' = Updates(t, how, 0)
    /\ stage' = [stage EXCEPT ![t] = how]
    /\ UNCHANGED waiting

-----------------------------------------------------------------------------
(* The connection, and the bridge's process.                               *)

\* Mutant: every connection counts its own ids.
ConnectsAnew ==
    /\ link = "down" /\ conns < MaxConns
    /\ link' = "up" /\ conns' = conns + 1
    /\ counter' = 0
    /\ UNCHANGED <<epoch, ready, turnVars, wire, bubble>>

Connects ==
    /\ link = "down" /\ conns < MaxConns
    /\ link' = "up" /\ conns' = conns + 1
    /\ UNCHANGED <<loopVars, turnVars, wire, bubble>>

Drops ==
    /\ link = "up"
    /\ link' = "down" /\ wire' = <<>>
    /\ UNCHANGED <<loopVars, turnVars, conns, bubble>>

(* Threads and coroutines are gone, and the counter is at its base again.  *)
BridgeRestarts ==
    /\ epoch < MaxEpochs
    /\ epoch' = epoch + 1 /\ counter' = 0 /\ ready' = <<>>
    /\ stage' = [t \in Turn |-> IF stage[t] \in {"run", "return"} THEN "lost" ELSE stage[t]]
    /\ waiting' = [t \in Turn |-> FALSE]
    /\ link' = "down" /\ wire' = <<>>
    /\ UNCHANGED <<conn, reply, since, acc, conns, bubble>>

-----------------------------------------------------------------------------
(* The client: handleUpdate, and ApplyGatewayMessage.                      *)

Takes(kind) ==
    /\ wire # <<>> /\ Head(wire).kind = kind
    /\ wire' = Tail(wire)
    /\ UNCHANGED <<loopVars, turnVars, linkVars>>

(* The bubble with this id is edited in place, or one is added.            *)
Applies(frame) == bubble' = [bubble EXCEPT ![frame.id] = frame.show]

TakesDelta ==
    /\ Takes("stream.delta")
    /\ Applies(Head(wire))

(* A message without text is not shown.                                    *)
TakesFinal ==
    /\ Takes("message.new")
    /\ IF Head(wire).show.text = "empty" THEN UNCHANGED bubble ELSE Applies(Head(wire))

-----------------------------------------------------------------------------
Result == {"final", "empty", "error"}

Agent == \E t \in Turn : OnDelta(t) \/ \E how \in Result : Returns(t, how)
Loop == SendsDelta \/ \E how \in Result : SendsFinal(how)
Client == TakesDelta \/ TakesFinal

Next ==
    \/ OthersTurn \/ \E t \in Turn : Sends(t) \/ TimesOut(t)
    \/ Agent \/ Loop
    \/ Connects \/ Drops \/ BridgeRestarts
    \/ Client

Spec == Init /\ [][Next]_vars

(* The loop and the client's main thread go on, and every agent returns.   *)
FairSpec ==
    /\ Spec /\ WF_vars(Loop) /\ WF_vars(Client)
    /\ \A t \in Turn : WF_vars(OnDelta(t) \/ \E how \in Result : Returns(t, how))

-----------------------------------------------------------------------------
(* Properties.                                                             *)

Bubble == [turn : 0..MaxTurns, text : {"none", "delta"} \cup Result, upto : 0..MaxDeltas]
Frame ==
    [kind : {"stream.delta", "message.new"}, id : Id, show : Bubble]

\* Every variable keeps its type: ids stay within the band that the client's
\* 32 bit take, also when they wrap, and a thread waits only while it runs.
TypeOK ==
    /\ counter \in 0..SynthIds /\ epoch \in 0..MaxEpochs
    /\ ready \in Seq([turn : Turn, what : {"delta"} \cup Result, upto : 0..MaxDeltas])
    /\ stage \in [Turn -> {"none", "run", "return", "lost"} \cup Result]
    /\ conn \in [Turn -> 0..MaxConns] /\ reply \in [Turn -> Id]
    /\ since \in [Turn -> 0..MaxEpochs] /\ acc \in [Turn -> 0..MaxDeltas]
    /\ waiting \in [Turn -> BOOLEAN] /\ \A t \in Turn : waiting[t] => stage[t] = "run"
    /\ link \in {"up", "down"} /\ conns \in 0..MaxConns /\ wire \in Seq(Frame)
    /\ bubble \in [Id -> Bubble]

\* A bubble only grows, and its final text stays: no delta overtakes another
\* or arrives after the final message, although its sender may have stopped
\* waiting for it and gone on.
TextOnlyGrows ==
    [][\A i \in Id :
          bubble[i].turn # 0 /\ bubble'[i].turn = bubble[i].turn =>
             \/ bubble'[i] = bubble[i]
             \/ /\ bubble[i].text = "delta"
                /\ bubble'[i].text = "delta" => bubble[i].upto < bubble'[i].upto]_vars

\* A reply never goes into the bubble of another one, over whatever
\* connections and beside whatever turns of other clients the two were asked
\* for, unless the counter has started over in between.
BubbleKeepsTurn ==
    [][\A i \in Id :
          bubble[i].turn # 0 /\ bubble'[i].turn # bubble[i].turn =>
             since[bubble'[i].turn] # since[bubble[i].turn]]_vars

\* "message.new finalises it": when a turn has begun, its bubble comes to show
\* the final text or the error, whatever had been shown of it; unless it ends
\* without a text, or the connection it was asked over is lost.
ReplyCompletes ==
    \A t \in Turn :
        stage[t] = "run" ~> \/ bubble[reply[t]].turn = t /\ bubble[reply[t]].text \in Result
                           \/ stage[t] = "empty" \/ ~Open(t)
=============================================================================
