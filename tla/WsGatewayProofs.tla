--------------------------- MODULE WsGatewayProofs ---------------------------
(***************************************************************************)
(* Proofs about WsGateway, for any peers, rows, connections, chats opened  *)
(* and errors.                                                             *)
(***************************************************************************)
EXTENDS WsGateway, FiniteSetTheorems, SequenceTheorems, TLAPS

(* Nothing is under way, and the bridge serves nobody, while the link is   *)
(* down.                                                                   *)
LinkInv == link = "down" => ~listening /\ watched = {} /\ toBridge = <<>> /\ toClient = <<>>

(* The rows that a frame to the client is about, and those that it makes   *)
(* of what the gateway has cached, or will have when it takes the frame.   *)
Says(frame, p, i) ==
    /\ frame.op \in {"message.new", "history"} /\ frame.peer = p
    /\ i = IF frame.op = "history" THEN frame.top ELSE frame.row

(* What is cached, pushed or told of exists; and as frames arrive in order,*)
(* an answer to history knows all rows that the client has been told of    *)
(* when it takes it.                                                       *)
StoredInv == \A p \in Peer : wm[p] <= Top(p) /\ history[p] \subseteq 1..Top(p)

SaidInv ==
    \A k \in 1..Len(toClient) : \A p \in Peer : \A i \in Nat :
        Says(toClient[k], p, i) => i <= Top(p) /\ (toClient[k].op = "message.new" => i # 0)

OrderInv ==
    \A k \in 1..Len(toClient) : toClient[k].op = "history" =>
        /\ \A i \in history[toClient[k].peer] : i <= toClient[k].top
        /\ \A j \in 1..Len(toClient) : \A i \in Nat :
              j < k /\ Says(toClient[j], toClient[k].peer, i) => i <= toClient[k].top

RowsInv == StoredInv /\ SaidInv /\ OrderInv

(* A request is answered with its own peer: no id is used twice.           *)
Matches(frame) ==
    frame.op = "history" =>
        /\ frame.id <= requestId
        /\ \A cb \in callbacks : cb.id = frame.id => cb.peer = frame.peer

CallbackInv ==
    /\ \A cb \in callbacks : cb.id <= requestId
    /\ \A k \in 1..Len(toBridge) : Matches(toBridge[k])
    /\ \A k \in 1..Len(toClient) : Matches(toClient[k])

(* Of two requests or answers under way in a bootstrap, both are about     *)
(* histories, and of different peers: all else is asked one by one.        *)
Answers == {"self", "sessions", "history"}
Apart(f, g) == f.op = "history" /\ g.op = "history" /\ f.peer # g.peer
IsMissing(frame) == frame.op = "history" => frame.peer \in listed \ landed

AskedInv ==
    phase = "waiting" =>
        /\ \A j, k \in 1..Len(toBridge) : j # k => Apart(toBridge[j], toBridge[k])
        /\ \A j, k \in 1..Len(toClient) :
              j # k /\ toClient[j].op \in Answers /\ toClient[k].op \in Answers
                 => Apart(toClient[j], toClient[k])
        /\ \A j \in 1..Len(toBridge) : \A k \in 1..Len(toClient) :
              toClient[k].op \in Answers => Apart(toBridge[j], toClient[k])
        /\ \A k \in 1..Len(toBridge) : IsMissing(toBridge[k])
        /\ \A k \in 1..Len(toClient) : IsMissing(toClient[k])

(* Every history that is missing is still counted. *)
CountInv ==
    phase = "waiting" => IF gotSessions THEN Cardinality(listed \ landed) <= pending ELSE listed = {}

Inv ==
    /\ TypeOK /\ LinkInv /\ RowsInv /\ CallbackInv /\ AskedInv /\ CountInv
    /\ CacheKeepsUp /\ CachedIsShown

-----------------------------------------------------------------------------
(* Frames and queues.                                                      *)

ToClientFrame == AnswerFrame \cup UpdateFrame

LEMMA FrameFields ==
  /\ \A f \in RequestFrame : /\ f.op \in {"auth", "sessions.list", "history"} /\ f.id \in Nat
                             /\ f.op = "history" => f.peer \in Peer
  /\ \A f \in ToClientFrame :
        /\ f.op \in {"self", "sessions", "history", "message.new", "dialog.new"}
        /\ f.op = "sessions" => f.peers \subseteq Peer
        /\ f.op = "history" => f.id \in Nat /\ f.ok \in BOOLEAN /\ f.peer \in Peer /\ f.top \in Nat
        /\ f.op = "message.new" => f.peer \in Peer /\ f.row \in Nat
        /\ f.op = "dialog.new" => f.peer \in Peer /\ f.top \in Nat
<1>1. \A f \in RequestFrame : /\ f.op \in {"auth", "sessions.list", "history"} /\ f.id \in Nat
                              /\ f.op = "history" => f.peer \in Peer
  BY DEF RequestFrame
<1>2. ASSUME NEW f \in AnswerFrame
      PROVE  /\ f.op \in {"self", "sessions", "history"}
             /\ f.op = "sessions" => f.peers \subseteq Peer
             /\ f.op = "history" => f.id \in Nat /\ f.ok \in BOOLEAN /\ f.peer \in Peer /\ f.top \in Nat
  BY DEF AnswerFrame
<1>3. ASSUME NEW f \in UpdateFrame
      PROVE  /\ f.op \in {"message.new", "dialog.new"}
             /\ f.op = "message.new" => f.peer \in Peer /\ f.row \in Nat
             /\ f.op = "dialog.new" => f.peer \in Peer /\ f.top \in Nat
  BY DEF UpdateFrame
<1>4. QED
  BY <1>1, <1>2, <1>3 DEF ToClientFrame

LEMMA QueueTypes ==
  ASSUME TypeOK
  PROVE  /\ toBridge \in Seq(RequestFrame) /\ Len(toBridge) \in Nat /\ DOMAIN toBridge = 1..Len(toBridge)
         /\ toClient \in Seq(ToClientFrame) /\ Len(toClient) \in Nat /\ DOMAIN toClient = 1..Len(toClient)
         /\ \A k \in 1..Len(toBridge) : toBridge[k] \in RequestFrame
         /\ \A k \in 1..Len(toClient) : toClient[k] \in ToClientFrame
<1>1. toBridge \in Seq(RequestFrame) /\ toClient \in Seq(ToClientFrame)
  BY DEF TypeOK, LinkTypeOK, ToClientFrame
<1>2. QED
  BY <1>1, LenProperties, ElementOfSeq

LEMMA AppendAt ==
  ASSUME NEW S, NEW q \in Seq(S), NEW e \in S
  PROVE  /\ Append(q, e) \in Seq(S) /\ Len(q) \in Nat /\ Len(Append(q, e)) = Len(q) + 1
         /\ \A i \in 1..Len(Append(q, e)) :
               \/ i \in 1..Len(q) /\ Append(q, e)[i] = q[i]
               \/ i = Len(q) + 1 /\ Append(q, e)[i] = e
         /\ Len(q) + 1 \in 1..Len(Append(q, e)) /\ Append(q, e)[Len(q) + 1] = e
         /\ \A i \in 1..Len(q) : i \in 1..Len(Append(q, e)) /\ Append(q, e)[i] = q[i]
<1>1. /\ Append(q, e) \in Seq(S) /\ Len(Append(q, e)) = Len(q) + 1
      /\ \A i \in 1..Len(q) : Append(q, e)[i] = q[i]
      /\ Append(q, e)[Len(q) + 1] = e
  BY AppendProperties
<1>2. Len(q) \in Nat
  BY LenProperties
<1>3. \A i \in 1..(Len(q) + 1) : i \in 1..Len(q) \/ i = Len(q) + 1
  BY <1>2
<1>4. QED
  BY <1>1, <1>2, <1>3

LEMMA TailAt ==
  ASSUME NEW S, NEW q \in Seq(S), q # <<>>
  PROVE  /\ Tail(q) \in Seq(S) /\ Len(q) \in Nat \ {0} /\ Len(Tail(q)) = Len(q) - 1
         /\ Head(q) = q[1] /\ q[1] \in S /\ 1 \in 1..Len(q)
         /\ \A i \in 1..Len(Tail(q)) : i + 1 \in 2..Len(q) /\ i + 1 \in 1..Len(q) /\ Tail(q)[i] = q[i + 1]
         /\ \A i \in 1..Len(q) : i # 1 => i - 1 \in 1..Len(Tail(q)) /\ Tail(q)[i - 1] = q[i]
<1>1. /\ Head(q) \in S /\ Tail(q) \in Seq(S) /\ Len(Tail(q)) = Len(q) - 1
      /\ \A i \in 1..Len(Tail(q)) : Tail(q)[i] = q[i + 1]
  BY HeadTailProperties
<1>2. Len(q) \in Nat /\ Len(q) # 0
  BY LenProperties, EmptySeq, Zenon
<1>3. Head(q) = q[1]
  OBVIOUS
<1>4. \A n : n \in Nat /\ n # 0 =>
        /\ n \in Nat \ {0} /\ 1 \in 1..n
        /\ \A i \in 1..(n - 1) : i + 1 \in 2..n /\ i + 1 \in 1..n
        /\ \A i \in 1..n : i # 1 => i - 1 \in 1..(n - 1) /\ (i - 1) + 1 = i
  OBVIOUS
<1>5. QED
  BY <1>1, <1>2, <1>3, <1>4

(* The requests for the histories of L, in some order. *)
LEMMA OrdersEach ==
  ASSUME NEW L, IsFiniteSet(L), NEW order \in Orders(L)
  PROVE  /\ Cardinality(L) \in Nat /\ DOMAIN order = 1..Cardinality(L)
         /\ \A i \in 1..Cardinality(L) : order[i] \in L
         /\ \A p \in L : \E i \in 1..Cardinality(L) : order[i] = p
         /\ \A i, j \in 1..Cardinality(L) : order[i] = order[j] => i = j
<1>1. Cardinality(L) \in Nat
  BY FS_CardinalityType
<1>2. /\ order \in [1..Cardinality(L) -> L]
      /\ \A p \in L : \E i \in 1..Cardinality(L) : order[i] = p
  BY DEF Orders
<1>3. IsFiniteSet(1..Cardinality(L)) /\ Cardinality(1..Cardinality(L)) = Cardinality(L)
  BY <1>1, FS_Interval
<1>4. order \in Surjection(1..Cardinality(L), L)
  BY <1>2 DEF Surjection
<1>5. order \in Injection(1..Cardinality(L), L)
  BY <1>3, <1>4, FS_SurjSameCardinalityImpliesInj
<1>6. \A i, j \in 1..Cardinality(L) : order[i] = order[j] => i = j
  BY <1>5 DEF Injection, IsInjective
<1>7. QED
  BY <1>1, <1>2, <1>6

LEMMA ConcatAt ==
  ASSUME NEW S, NEW q \in Seq(S), NEW n \in Nat, NEW s \in [1..n -> S]
  PROVE  /\ q \o s \in Seq(S) /\ Len(q) \in Nat /\ Len(q \o s) = Len(q) + n
         /\ \A i \in 1..Len(q) : i \in 1..Len(q \o s) /\ (q \o s)[i] = q[i]
         /\ \A i \in 1..n : Len(q) + i \in 1..Len(q \o s) /\ (q \o s)[Len(q) + i] = s[i]
         /\ \A k \in 1..Len(q \o s) :
               \/ k \in 1..Len(q) /\ (q \o s)[k] = q[k]
               \/ \E i \in 1..n : k = Len(q) + i /\ (q \o s)[k] = s[i]
<1>1. s \in Seq(S) /\ Len(s) = n
  BY LenProperties
<1>2. /\ q \o s \in Seq(S) /\ Len(q \o s) = Len(q) + n
      /\ \A k \in 1..(Len(q) + n) : (q \o s)[k] = IF k <= Len(q) THEN q[k] ELSE s[k - Len(q)]
  BY <1>1, ConcatProperties
<1>3. Len(q) \in Nat
  BY LenProperties
<1>4. \A m \in Nat :
        /\ \A i \in 1..m : i \in 1..(m + n) /\ i <= m
        /\ \A i \in 1..n : m + i \in 1..(m + n) /\ ~(m + i <= m) /\ (m + i) - m = i
        /\ \A k \in 1..(m + n) :
              \/ k \in 1..m /\ k <= m
              \/ ~(k <= m) /\ k - m \in 1..n /\ k = m + (k - m)
  OBVIOUS
<1>5. QED
  BY <1>2, <1>3, <1>4

LEMMA ConcatToEmpty ==
  ASSUME NEW S, NEW q \in Seq(S), Len(q) = 0, NEW n \in Nat, NEW s \in [1..n -> S]
  PROVE  Len(q \o s) = n /\ \A k \in 1..n : (q \o s)[k] = s[k]
<1>1. q = <<>>
  BY EmptySeq
<1>2. s \in Seq(S) /\ Len(s) = n
  BY LenProperties
<1>3. q \o s = s
  BY <1>1, <1>2, ConcatEmptySeq
<1>4. QED
  BY <1>2, <1>3

-----------------------------------------------------------------------------
(* Types.                                                                  *)

(* The frame g answers the request at the head of the queue. *)
ServesAs(g) ==
    /\ toBridge # <<>> /\ toBridge' = Tail(toBridge)
    /\ toClient' = Append(toClient, g) /\ g \in AnswerFrame
    /\ (g.op = "history") <=> (Head(toBridge).op = "history")
    /\ g.op = "history" => /\ g.peer = Head(toBridge).peer /\ g.id = Head(toBridge).id
                           /\ g.top = Top(g.peer)
    /\ UNCHANGED <<born, store, link, conns, bootVars, cacheVars, uiVars, ghosts>>

Serves == ServesAuth \/ ServesSessions \/ \E ok \in BOOLEAN : ServesHistory(ok)

LEMMA TopIsNat ==
  ASSUME TypeOK, NEW p \in Peer
  PROVE  Top(p) \in Nat /\ store[p] \in Seq({"self", "peer"})
<1>1. store[p] \in Seq({"self", "peer"})
  BY DEF TypeOK, BridgeTypeOK
<1>2. QED
  BY <1>1, LenProperties DEF Top

LEMMA ServesAnswers ==
  ASSUME TypeOK, Serves
  PROVE  \E g \in AnswerFrame : ServesAs(g)
<1> USE DEF Served
<1>1. CASE ServesAuth
  <2>1. [op |-> "self"] \in AnswerFrame
    BY DEF AnswerFrame
  <2>2. ServesAs([op |-> "self"])
    BY <1>1, <2>1 DEF ServesAuth, ServesAs, storeVars
  <2>3. QED
    BY <2>1, <2>2
<1>2. CASE ServesSessions
  <2>1. [op |-> "sessions", peers |-> born] \in AnswerFrame
    BY DEF AnswerFrame, TypeOK, BridgeTypeOK
  <2>2. ServesAs([op |-> "sessions", peers |-> born])
    BY <1>2, <2>1 DEF ServesSessions, ServesAs, storeVars
  <2>3. QED
    BY <2>1, <2>2
<1>3. ASSUME NEW ok \in BOOLEAN, ServesHistory(ok)
      PROVE  \E g \in AnswerFrame : ServesAs(g)
  <2>1. PICK id \in 1..requestId, p \in Peer :
          /\ Served(History(id, p))
          /\ toClient' = Append(toClient,
                [op |-> "history", id |-> id, ok |-> ok, peer |-> p, top |-> Top(p)])
    BY <1>3 DEF ServesHistory
  <2>2. id \in Nat
    BY DEF TypeOK, GatewayTypeOK
  <2>3. [op |-> "history", id |-> id, ok |-> ok, peer |-> p, top |-> Top(p)] \in AnswerFrame
    BY <2>2, TopIsNat DEF AnswerFrame
  <2>4. ServesAs([op |-> "history", id |-> id, ok |-> ok, peer |-> p, top |-> Top(p)])
    BY <1>3, <2>1, <2>3 DEF ServesHistory, ServesAs, History
  <2>5. QED
    BY <2>3, <2>4
<1>4. QED
  BY <1>1, <1>2, <1>3 DEF Serves

(* What taking a frame does to the queue. *)
LEMMA TakesHead ==
  ASSUME TypeOK, NEW op, Takes(op)
  PROVE  /\ toClient # <<>> /\ toClient' = Tail(toClient) /\ toClient' \in Seq(ToClientFrame)
         /\ Len(toClient) \in Nat \ {0} /\ 1 \in 1..Len(toClient) /\ Len(toClient') = Len(toClient) - 1
         /\ Head(toClient) = toClient[1] /\ toClient[1] \in ToClientFrame /\ toClient[1].op = op
         /\ \A k \in 1..Len(toClient') : k + 1 \in 1..Len(toClient) /\ k + 1 # 1
                                         /\ toClient'[k] = toClient[k + 1]
         /\ \A k \in 1..Len(toClient) : k # 1 => k - 1 \in 1..Len(toClient')
                                                 /\ toClient'[k - 1] = toClient[k]
         /\ phase # "failed"
         /\ UNCHANGED <<storeVars, bridgeVars, link, conns>>
<1>1. /\ toClient # <<>> /\ toClient' = Tail(toClient) /\ Head(toClient).op = op /\ phase # "failed"
      /\ UNCHANGED <<storeVars, bridgeVars, link, conns>>
  BY DEF Takes
<1>2. toClient \in Seq(ToClientFrame)
  BY QueueTypes
<1>3. \A n \in Nat : n + 1 \in 2..Len(toClient) => n + 1 # 1
  OBVIOUS
<1>4. /\ Tail(toClient) \in Seq(ToClientFrame) /\ Len(toClient) \in Nat \ {0}
      /\ Len(Tail(toClient)) = Len(toClient) - 1
      /\ Head(toClient) = toClient[1] /\ toClient[1] \in ToClientFrame /\ 1 \in 1..Len(toClient)
      /\ \A i \in 1..Len(Tail(toClient)) :
            i + 1 \in 2..Len(toClient) /\ i + 1 \in 1..Len(toClient) /\ Tail(toClient)[i] = toClient[i + 1]
      /\ \A i \in 1..Len(toClient) :
            i # 1 => i - 1 \in 1..Len(Tail(toClient)) /\ Tail(toClient)[i - 1] = toClient[i]
  BY <1>1, <1>2, TailAt
<1>5. \A i \in 1..Len(Tail(toClient)) : i + 1 # 1
  BY <1>4
<1>6. QED
  BY <1>1, <1>4, <1>5

(* An error can only replace what is cached; an answer names its peer. *)
LEMMA TakesHistoryOf ==
  ASSUME TypeOK, CallbackInv, TakesHistory
  PROVE  LET answer == toClient[1]
             p == toClient[1].peer
         IN  /\ p \in Peer /\ answer.top \in Nat /\ answer.ok \in BOOLEAN /\ answer.op = "history"
             /\ cached' = cached \cup {p}
             /\ callbacks' \subseteq callbacks
             /\ history' = [history EXCEPT ![p] = IF answer.ok THEN 1..answer.top ELSE {}]
             /\ landed' = landed \cup {p}
             /\ late' = IF phase = "seeded" THEN late \cup {p} ELSE late
             /\ excused' = IF answer.ok THEN excused
                           ELSE [excused EXCEPT ![p] = Larger(@, answer.top)]
             /\ pending' = IF pending > 0 THEN pending - 1 ELSE 0
             /\ UNCHANGED <<toBridge, authState, authed, gotSessions, requestId, dialogs, uiVars, listed>>
<1>1. Takes("history")
  BY DEF TakesHistory
<1>2. Head(toClient) = toClient[1] /\ toClient[1] \in ToClientFrame /\ toClient[1].op = "history"
      /\ 1 \in 1..Len(toClient)
  BY <1>1, TakesHead
<1>3. toClient[1].ok \in BOOLEAN /\ toClient[1].peer \in Peer /\ toClient[1].top \in Nat
  BY <1>2, FrameFields
<1>4. PICK cb \in callbacks :
          /\ cb.id = toClient[1].id
          /\ callbacks' = callbacks \ {cb}
          /\ cached' = cached \cup {cb.peer}
          /\ history' = [history EXCEPT ![cb.peer] = Answered(cb.peer, toClient[1])]
          /\ landed' = landed \cup {cb.peer}
          /\ late' = IF phase = "seeded" THEN late \cup {cb.peer} ELSE late
          /\ excused' = IF toClient[1].ok THEN excused
                        ELSE [excused EXCEPT ![cb.peer] = Larger(@, toClient[1].top)]
  BY <1>2 DEF TakesHistory
<1>5. cb.peer = toClient[1].peer
  BY <1>2, <1>4 DEF CallbackInv, Matches
<1>6. /\ pending' = IF pending > 0 THEN pending - 1 ELSE 0
      /\ UNCHANGED <<toBridge, authState, authed, gotSessions, requestId, dialogs, uiVars, listed>>
  BY DEF TakesHistory
<1>7. callbacks' \subseteq callbacks
  BY <1>4
<1>8. Answered(cb.peer, toClient[1]) = IF toClient[1].ok THEN 1..toClient[1].top ELSE {}
  BY DEF Answered
<1>9. QED
  BY <1>2, <1>3, <1>4, <1>5, <1>6, <1>7, <1>8

(* The listing L of n sessions is taken, and their histories are asked, in *)
(* some order, by the requests of s.                                       *)
AsksFor(L, n, order, s) ==
    /\ L = toClient[1].peers /\ toClient[1].op = "sessions"
    /\ IsFiniteSet(L) /\ n = Cardinality(L) /\ n <= Cardinality(Peer)
    /\ \A p \in L : \E i \in 1..n : order[i] = p
    /\ \A i, j \in 1..n : order[i] = order[j] => i = j
    /\ \A i \in 1..n : s[i] = History(requestId + i, order[i])
    /\ toBridge' = toBridge \o s
    /\ callbacks' = callbacks \cup {[id |-> requestId + i, peer |-> order[i]] : i \in 1..n}
    /\ dialogs' = L /\ gotSessions' = TRUE /\ pending' = n
    /\ requestId' = requestId + n /\ listed' = L /\ landed' = {}
    /\ UNCHANGED <<authState, authed, cached, history, uiVars, late, excused>>

LEMMA TakesSessionsOf ==
  ASSUME TypeOK, TakesSessions
  PROVE  \E L \in SUBSET Peer, n \in Nat : \E order \in [1..n -> L], s \in [1..n -> RequestFrame] :
            AsksFor(L, n, order, s)
<1>1. Takes("sessions")
  BY DEF TakesSessions
<1>2. Head(toClient) = toClient[1] /\ toClient[1] \in ToClientFrame /\ toClient[1].op = "sessions"
  BY <1>1, TakesHead
<1>3. PICK L \in SUBSET Peer : L = toClient[1].peers
  BY <1>2, FrameFields
<1>4. IsFiniteSet(L) /\ Cardinality(L) <= Cardinality(Peer)
  BY ConstantsAssumption, FS_Subset
<1>5. PICK n \in Nat : n = Cardinality(L)
  BY <1>4, FS_CardinalityType
<1>6. PICK order \in Orders(L) :
          /\ callbacks' = callbacks \cup
                {[id |-> requestId + i, peer |-> order[i]] : i \in DOMAIN order}
          /\ toBridge' = toBridge \o [i \in DOMAIN order |-> History(requestId + i, order[i])]
  BY <1>2, <1>3 DEF TakesSessions
<1>7. /\ DOMAIN order = 1..n
      /\ \A p \in L : \E i \in 1..n : order[i] = p
      /\ \A i, j \in 1..n : order[i] = order[j] => i = j
  BY <1>4, <1>5, OrdersEach
<1>8. order \in [1..n -> L]
  BY <1>5 DEF Orders
<1>9. /\ dialogs' = L /\ gotSessions' = TRUE /\ pending' = n
      /\ requestId' = requestId + n /\ listed' = L /\ landed' = {}
      /\ UNCHANGED <<authState, authed, cached, history, uiVars, late, excused>>
  BY <1>2, <1>3, <1>5 DEF TakesSessions, Awaited
<1>10. PICK s : s = [i \in 1..n |-> History(requestId + i, order[i])]
  OBVIOUS
<1>11. toBridge' = toBridge \o s
  BY <1>6, <1>7, <1>10
<1>12. \A i \in 1..n : s[i] = History(requestId + i, order[i])
  BY <1>10
<1>13. s \in [1..n -> RequestFrame]
  <2>1. requestId \in Nat
    BY DEF TypeOK, GatewayTypeOK
  <2>2. \A i \in 1..n : History(requestId + i, order[i]) \in RequestFrame
    BY <1>8, <2>1 DEF History, RequestFrame
  <2>3. QED
    BY <1>10, <2>2
<1>14. callbacks' = callbacks \cup {[id |-> requestId + i, peer |-> order[i]] : i \in 1..n}
  BY <1>6, <1>7
<1>15. AsksFor(L, n, order, s)
  BY <1>2, <1>3, <1>4, <1>5, <1>7, <1>9, <1>11, <1>12, <1>14 DEF AsksFor
<1>16. QED
  BY <1>8, <1>13, <1>15

LEMMA InitInv == Init => Inv
<1> SUFFICES ASSUME Init PROVE Inv
  OBVIOUS
<1>1. TypeOK
  <2>1. Cardinality(Peer) \in Nat
    BY ConstantsAssumption, FS_CardinalityType
  <2>2. 0 \in 0..MaxErrors /\ 0 \in 0..MaxConns /\ 0 \in 0..MaxViews
    BY ConstantsAssumption
  <2>3. store \in [Peer -> Seq({"self", "peer"})] /\ wm \in [Peer -> Nat]
    BY DEF Init, Zero
  <2>4. BridgeTypeOK
    BY <2>2, <2>3 DEF Init, BridgeTypeOK
  <2>5. LinkTypeOK
    BY <2>2 DEF Init, LinkTypeOK
  <2>6. GatewayTypeOK
    BY DEF Init, GatewayTypeOK, None
  <2>7. SeederTypeOK
    BY <2>2 DEF Init, SeederTypeOK, None, Zero
  <2>8. pending <= Cardinality(Peer)
    BY <2>1 DEF Init
  <2>9. QED
    BY <2>4, <2>5, <2>6, <2>7, <2>8 DEF TypeOK
<1>2. \A p \in Peer : Top(p) = 0 /\ wm[p] = 0 /\ history[p] = {}
  BY DEF Init, Top, None, Zero
<1>3. toBridge = <<>> /\ toClient = <<>> /\ Len(toBridge) = 0 /\ Len(toClient) = 0
  BY DEF Init
<1>4. \A k : k \notin 1..0
  OBVIOUS
<1>5. LinkInv /\ RowsInv
  BY <1>2, <1>3, <1>4 DEF Init, LinkInv, RowsInv, StoredInv, SaidInv, OrderInv
<1>6. CallbackInv /\ AskedInv /\ CountInv /\ CacheKeepsUp /\ CachedIsShown
  BY <1>3, <1>4 DEF Init, CallbackInv, AskedInv, CountInv, CacheKeepsUp, CachedIsShown
<1>7. QED
  BY <1>1, <1>5, <1>6 DEF Inv

-----------------------------------------------------------------------------
(* Every step keeps the types, and the link empty while it is down.        *)

LEMMA StepType ==
  ASSUME TypeOK, CallbackInv, [Next]_vars
  PROVE  TypeOK'
<1> USE DEF storeVars, bridgeVars, linkVars, bootVars, cacheVars, uiVars, ghosts
<1>0. /\ toBridge \in Seq(RequestFrame) /\ toClient \in Seq(ToClientFrame) /\ Cardinality(Peer) \in Nat
      /\ \A p \in Peer : Top(p) \in Nat
  BY QueueTypes, TopIsNat, ConstantsAssumption, FS_CardinalityType
<1>a. TypeOK' <=> /\ BridgeTypeOK' /\ link' \in {"up", "down"} /\ conns' \in 0..MaxConns
                  /\ toBridge' \in Seq(RequestFrame) /\ toClient' \in Seq(ToClientFrame)
                  /\ GatewayTypeOK' /\ SeederTypeOK' /\ pending' <= Cardinality(Peer)
  BY DEF TypeOK, LinkTypeOK, ToClientFrame
<1>b. /\ BridgeTypeOK /\ link \in {"up", "down"} /\ conns \in 0..MaxConns
      /\ GatewayTypeOK /\ SeederTypeOK /\ pending <= Cardinality(Peer)
  BY DEF TypeOK, LinkTypeOK
<1>c. \A e \in RequestFrame : Append(toBridge, e) \in Seq(RequestFrame)
  BY <1>0, AppendProperties
<1>d. \A e \in ToClientFrame : Append(toClient, e) \in Seq(ToClientFrame)
  BY <1>0, AppendProperties
<1>e. requestId \in Nat /\ requestId + 1 \in Nat
  BY <1>b DEF GatewayTypeOK
<1>f. \A id \in Nat, p \in Peer : History(id, p) \in RequestFrame
  BY DEF History, RequestFrame
<1>g. ASSUME LinkEnds
      PROVE  /\ link' \in {"up", "down"} /\ conns' \in 0..MaxConns
             /\ toBridge' \in Seq(RequestFrame) /\ toClient' \in Seq(ToClientFrame)
             /\ listening' \in BOOLEAN /\ watched' \subseteq Peer /\ wm' \in [Peer -> Nat]
  <2>1. wm' \in [Peer -> Nat]
    BY <1>g DEF LinkEnds, Zero
  <2>2. toBridge' \in Seq(RequestFrame) /\ toClient' \in Seq(ToClientFrame)
    BY <1>g DEF LinkEnds
  <2>3. QED
    BY <1>b, <1>g, <2>1, <2>2 DEF LinkEnds
<1>1. CASE UNCHANGED vars
  BY <1>0, <1>1, <1>a, <1>b DEF vars, BridgeTypeOK, GatewayTypeOK, SeederTypeOK
<1>2. ASSUME NEW p \in Peer, NewSession(p) PROVE TypeOK'
  BY <1>0, <1>2, <1>a, <1>b DEF NewSession, BridgeTypeOK, GatewayTypeOK, SeederTypeOK
<1>3. ASSUME NEW p \in Peer, NEW author \in {"self", "peer"}, RowArrives(p, author) PROVE TypeOK'
  <2>1. Append(store[p], author) \in Seq({"self", "peer"})
    BY TopIsNat, AppendProperties
  <2>2. BridgeTypeOK'
    BY <1>3, <1>b, <2>1 DEF RowArrives, BridgeTypeOK
  <2>3. QED
    BY <1>0, <1>3, <1>a, <1>b, <2>2 DEF RowArrives, GatewayTypeOK, SeederTypeOK
<1>4. CASE Serves
  <2>1. PICK g \in AnswerFrame : ServesAs(g)
    BY <1>4, ServesAnswers
  <2>2. toClient' \in Seq(ToClientFrame)
    BY <1>d, <2>1 DEF ServesAs, ToClientFrame
  <2>3. toBridge' \in Seq(RequestFrame)
    BY <1>0, <2>1, HeadTailProperties DEF ServesAs
  <2>4. errors' \in 0..MaxErrors
    BY <1>4, <1>b, ConstantsAssumption
       DEF Serves, ServesAuth, ServesSessions, ServesHistory, BridgeTypeOK
  <2>5. listening' \in BOOLEAN /\ watched' \subseteq Peer /\ wm' \in [Peer -> Nat]
    BY <1>0, <1>4, <1>b DEF Serves, ServesAuth, ServesSessions, ServesHistory, BridgeTypeOK
  <2>6. QED
    BY <1>a, <1>b, <2>1, <2>2, <2>3, <2>4, <2>5
       DEF ServesAs, BridgeTypeOK, GatewayTypeOK, SeederTypeOK
<1>5. ASSUME NEW p \in Peer, Pushes(p) PROVE TypeOK'
  <2>1. wm[p] + 1 \in Nat /\ wm' \in [Peer -> Nat] /\ wm'[p] = wm[p] + 1
    BY <1>5, <1>b DEF Pushes, BridgeTypeOK
  <2>2. [op |-> "message.new", peer |-> p, row |-> wm'[p]] \in ToClientFrame
    BY <2>1 DEF ToClientFrame, UpdateFrame
  <2>3. toClient' \in Seq(ToClientFrame)
    BY <1>5, <1>d, <2>2 DEF Pushes
  <2>4. QED
    BY <1>0, <1>5, <1>a, <1>b, <2>1, <2>3 DEF Pushes, BridgeTypeOK, GatewayTypeOK, SeederTypeOK
<1>6. ASSUME NEW p \in Peer, Announces(p) PROVE TypeOK'
  <2>1. [op |-> "dialog.new", peer |-> p, top |-> Top(p)] \in ToClientFrame
    BY <1>0 DEF ToClientFrame, UpdateFrame
  <2>2. toClient' \in Seq(ToClientFrame) /\ wm' \in [Peer -> Nat]
    BY <1>0, <1>6, <1>b, <1>d, <2>1 DEF Announces, BridgeTypeOK
  <2>3. QED
    BY <1>0, <1>6, <1>a, <1>b, <2>2 DEF Announces, BridgeTypeOK, GatewayTypeOK, SeederTypeOK
<1>7. CASE Connected
  <2>1. [op |-> "auth", id |-> requestId + 1] \in RequestFrame
    BY <1>e DEF RequestFrame
  <2>2. toBridge' \in Seq(RequestFrame) /\ conns' \in 0..MaxConns
    BY <1>7, <1>b, <2>1, ConstantsAssumption DEF Connected
  <2>3. QED
    BY <1>0, <1>7, <1>a, <1>b, <1>e, <2>2 DEF Connected, BridgeTypeOK, GatewayTypeOK, SeederTypeOK
<1>8. CASE Disconnected
  BY <1>8, <1>a, <1>b, <1>g DEF Disconnected, BridgeTypeOK, GatewayTypeOK, SeederTypeOK
<1>9. CASE TakesSelf
  <2>1. Takes("self")
    BY <1>9 DEF TakesSelf
  <2>2. toClient' \in Seq(ToClientFrame) /\ UNCHANGED <<storeVars, bridgeVars, link, conns>>
    BY <2>1, TakesHead
  <2>3. [op |-> "sessions.list", id |-> requestId + 1] \in RequestFrame
    BY <1>e DEF RequestFrame
  <2>4. QED
    BY <1>9, <1>a, <1>b, <1>c, <1>e, <2>2, <2>3
       DEF TakesSelf, BridgeTypeOK, GatewayTypeOK, SeederTypeOK
<1>10. CASE TakesSessions
  <2>1. Takes("sessions")
    BY <1>10 DEF TakesSessions
  <2>2. toClient' \in Seq(ToClientFrame) /\ UNCHANGED <<storeVars, bridgeVars, link, conns>>
    BY <2>1, TakesHead
  <2>3. PICK L \in SUBSET Peer, n \in Nat :
          \E order \in [1..n -> L], s \in [1..n -> RequestFrame] : AsksFor(L, n, order, s)
    BY <1>10, TakesSessionsOf
  <2>4. PICK order \in [1..n -> L], s \in [1..n -> RequestFrame] : AsksFor(L, n, order, s)
    BY <2>3
  <2>5. toBridge' \in Seq(RequestFrame)
    BY <1>0, <2>4, ConcatAt DEF AsksFor
  <2>6. callbacks' \subseteq [id : Nat, peer : Peer]
    <3>1. /\ callbacks' = callbacks \cup {[id |-> requestId + i, peer |-> order[i]] : i \in 1..n}
          /\ callbacks \subseteq [id : Nat, peer : Peer]
      BY <1>b, <2>4 DEF AsksFor, GatewayTypeOK
    <3>2. \A i \in 1..n : requestId + i \in Nat /\ order[i] \in Peer
      BY <1>e
    <3>3. \A i \in 1..n : [id |-> requestId + i, peer |-> order[i]] \in [id : Nat, peer : Peer]
      BY <3>2
    <3>4. QED
      BY <3>1, <3>3, Zenon
  <2>7. requestId' \in Nat
    BY <1>e, <2>4 DEF AsksFor
  <2>8. QED
    BY <1>a, <1>b, <2>2, <2>4, <2>5, <2>6, <2>7 DEF AsksFor, BridgeTypeOK, GatewayTypeOK, SeederTypeOK
<1>11. CASE TakesHistory
  <2> DEFINE p == toClient[1].peer
  <2>1. Takes("history")
    BY <1>11 DEF TakesHistory
  <2>2. toClient' \in Seq(ToClientFrame) /\ UNCHANGED <<storeVars, bridgeVars, link, conns>>
    BY <2>1, TakesHead
  <2>3. /\ p \in Peer /\ toClient[1].top \in Nat /\ cached' = cached \cup {p}
        /\ callbacks' \subseteq callbacks
        /\ history' = [history EXCEPT ![p] = IF toClient[1].ok THEN 1..toClient[1].top ELSE {}]
        /\ landed' = landed \cup {p}
        /\ late' = IF phase = "seeded" THEN late \cup {p} ELSE late
        /\ excused' = IF toClient[1].ok THEN excused
                      ELSE [excused EXCEPT ![p] = Larger(@, toClient[1].top)]
        /\ pending' = IF pending > 0 THEN pending - 1 ELSE 0
        /\ UNCHANGED <<toBridge, authState, authed, gotSessions, requestId, dialogs, uiVars, listed>>
    BY <1>11, TakesHistoryOf
  <2> HIDE DEF p
  <2>4. history' \in [Peer -> SUBSET Nat]
    <3>1. (IF toClient[1].ok THEN 1..toClient[1].top ELSE {}) \in SUBSET Nat
      OBVIOUS
    <3>2. QED
      BY <1>b, <2>3, <3>1 DEF GatewayTypeOK
  <2>5. excused' \in [Peer -> Nat]
    BY <1>b, <2>3 DEF SeederTypeOK, Larger
  <2>6. pending' \in Nat /\ pending' <= Cardinality(Peer)
    BY <1>0, <1>b, <2>3 DEF GatewayTypeOK
  <2>7. QED
    BY <1>0, <1>a, <1>b, <2>2, <2>3, <2>4, <2>5, <2>6 DEF BridgeTypeOK, GatewayTypeOK, SeederTypeOK
<1>12. CASE TakesDialogNew
  <2>1. Takes("dialog.new")
    BY <1>12 DEF TakesDialogNew
  <2>2. /\ toClient' \in Seq(ToClientFrame) /\ UNCHANGED <<storeVars, bridgeVars, link, conns>>
        /\ Head(toClient) \in ToClientFrame /\ Head(toClient).op = "dialog.new"
    BY <2>1, TakesHead
  <2>3. Head(toClient).peer \in Peer /\ Head(toClient).top \in Nat
    BY <2>2, FrameFields
  <2>4. excused' \in [Peer -> Nat]
    BY <1>12, <1>b, <2>3 DEF TakesDialogNew, SeederTypeOK, Larger
  <2>5. QED
    BY <1>0, <1>12, <1>a, <1>b, <2>2, <2>3, <2>4
       DEF TakesDialogNew, ChatAppears, BridgeTypeOK, GatewayTypeOK, SeederTypeOK
<1>13. CASE TakesMessage
  <2>1. Takes("message.new")
    BY <1>13 DEF TakesMessage
  <2>2. /\ toClient' \in Seq(ToClientFrame) /\ UNCHANGED <<storeVars, bridgeVars, link, conns>>
        /\ Head(toClient) \in ToClientFrame /\ Head(toClient).op = "message.new"
    BY <2>1, TakesHead
  <2>3. Head(toClient).peer \in Peer /\ Head(toClient).row \in Nat
    BY <2>2, FrameFields
  <2>4. history' \in [Peer -> SUBSET Nat] /\ shown' \in [Peer -> SUBSET Nat]
    BY <1>13, <1>b, <2>3 DEF TakesMessage, RowAppears, GatewayTypeOK, SeederTypeOK
  <2>5. QED
    BY <1>0, <1>13, <1>a, <1>b, <2>2, <2>3, <2>4
       DEF TakesMessage, BridgeTypeOK, GatewayTypeOK, SeederTypeOK
<1>14. CASE TimePasses
  BY <1>0, <1>14, <1>a, <1>b, SMTT(30) DEF TimePasses, BridgeTypeOK, GatewayTypeOK, SeederTypeOK
<1>15. CASE BootstrapReturns
  <2>1. phase' \in {"seeded", "failed"} /\ chats' \subseteq Peer /\ shown' \in [Peer -> SUBSET Nat]
    BY <1>15, <1>b DEF BootstrapReturns, SeedWithConfig, Seeds, GatewayTypeOK, SeederTypeOK
  <2>2. LinkEnds \/ UNCHANGED <<linkVars, bridgeVars>>
    BY <1>15 DEF BootstrapReturns, SeedWithConfig
  <2>3. QED
    BY <1>0, <1>15, <1>a, <1>b, <1>g, <2>1, <2>2
       DEF BootstrapReturns, BridgeTypeOK, GatewayTypeOK, SeederTypeOK
<1>16. ASSUME NEW p \in Peer, OpensChat(p) PROVE TypeOK'
  <2>1. views' \in 0..MaxViews /\ requestId' \in Nat /\ callbacks' \subseteq [id : Nat, peer : Peer]
    BY <1>16, <1>b, <1>e, ConstantsAssumption DEF OpensChat, GatewayTypeOK, SeederTypeOK
  <2>2. toBridge' \in Seq(RequestFrame)
    BY <1>0, <1>16, <1>c, <1>e, <1>f DEF OpensChat
  <2>3. shown' \in [Peer -> SUBSET Nat]
    BY <1>16, <1>b DEF OpensChat, GatewayTypeOK, SeederTypeOK
  <2>4. QED
    BY <1>0, <1>16, <1>a, <1>b, <2>1, <2>2, <2>3
       DEF OpensChat, BridgeTypeOK, GatewayTypeOK, SeederTypeOK
<1>17. QED
  BY <1>1, <1>2, <1>3, <1>4, <1>5, <1>6, <1>7, <1>8, <1>9, <1>10, <1>11, <1>12, <1>13, <1>14,
     <1>15, <1>16 DEF Next, Bridge, Client, Serves

LEMMA StepLink ==
  ASSUME TypeOK, LinkInv, [Next]_vars
  PROVE  LinkInv'
<1> USE DEF storeVars, bridgeVars, linkVars, bootVars, cacheVars, uiVars, ghosts, LinkInv
<1>1. CASE UNCHANGED vars
  BY <1>1 DEF vars
<1>2. ASSUME NEW p \in Peer, NewSession(p) \/ \E author \in {"self", "peer"} : RowArrives(p, author)
      PROVE  LinkInv'
  BY <1>2 DEF NewSession, RowArrives
<1>3. CASE Serves
  <2>1. PICK g \in AnswerFrame : ServesAs(g)
    BY <1>3, ServesAnswers
  <2>2. QED
    BY <2>1 DEF ServesAs
<1>4. ASSUME NEW p \in Peer, Pushes(p) \/ Announces(p) PROVE LinkInv'
  BY <1>4 DEF Pushes, Announces
<1>5. CASE Connected \/ Disconnected
  BY <1>5 DEF Connected, Disconnected, LinkEnds
<1>6. CASE TakesSelf \/ TakesSessions \/ TakesHistory \/ TakesDialogNew \/ TakesMessage
  <2>1. toClient # <<>> /\ link' = link
    BY <1>6 DEF TakesSelf, TakesSessions, TakesHistory, TakesDialogNew, TakesMessage, Takes
  <2>2. QED
    BY <2>1
<1>7. CASE TimePasses \/ BootstrapReturns
  BY <1>7 DEF TimePasses, BootstrapReturns, SeedWithConfig, LinkEnds
<1>8. ASSUME NEW p \in Peer, OpensChat(p) PROVE LinkInv'
  BY <1>8 DEF OpensChat
<1>9. QED
  BY <1>1, <1>2, <1>3, <1>4, <1>5, <1>6, <1>7, <1>8 DEF Next, Bridge, Client, Serves

-----------------------------------------------------------------------------
(* The rows that frames tell of.                                           *)

(* A frame is appended, and no row is added or cached meanwhile. *)
LEMMA RowsAfterAppend ==
  ASSUME TypeOK, RowsInv, NEW g \in ToClientFrame, toClient' = Append(toClient, g),
         store' = store, history' = history,
         g.op = "history" => g.top = Top(g.peer),
         g.op = "message.new" => g.row <= Top(g.peer) /\ g.row # 0
  PROVE  SaidInv' /\ OrderInv'
<1>1. /\ toClient \in Seq(ToClientFrame) /\ Len(toClient) \in Nat
      /\ \A k \in 1..Len(toClient) : toClient[k] \in ToClientFrame
  BY QueueTypes
<1>2. /\ \A i \in 1..Len(toClient') :
            \/ i \in 1..Len(toClient) /\ toClient'[i] = toClient[i]
            \/ i = Len(toClient) + 1 /\ toClient'[i] = g
      /\ Len(toClient') = Len(toClient) + 1
  BY <1>1, AppendAt
<1>3. \A p \in Peer : Top(p)' = Top(p) /\ Top(p) \in Nat
  BY TopIsNat DEF Top
<1>4. \A p \in Peer : \A i \in Nat :
        Says(g, p, i) => i <= Top(p) /\ (g.op = "message.new" => i # 0)
  BY <1>3 DEF Says
<1>5. SaidInv'
  <2>1. SUFFICES ASSUME NEW k \in 1..Len(toClient'), NEW p \in Peer, NEW i \in Nat, Says(toClient'[k], p, i)
                 PROVE  i <= Top(p) /\ (toClient'[k].op = "message.new" => i # 0)
    BY <1>3 DEF SaidInv
  <2>2. CASE k \in 1..Len(toClient) /\ toClient'[k] = toClient[k]
    BY <2>1, <2>2 DEF RowsInv, SaidInv
  <2>3. CASE toClient'[k] = g
    BY <1>4, <2>1, <2>3
  <2>4. QED
    BY <1>2, <2>2, <2>3
<1>6. OrderInv'
  <2>1. SUFFICES ASSUME NEW k \in 1..Len(toClient'), toClient'[k].op = "history"
                 PROVE  /\ \A i \in history[toClient'[k].peer] : i <= toClient'[k].top
                        /\ \A j \in 1..Len(toClient') : \A i \in Nat :
                              j < k /\ Says(toClient'[j], toClient'[k].peer, i) => i <= toClient'[k].top
    BY DEF OrderInv
  <2>2. CASE k \in 1..Len(toClient) /\ toClient'[k] = toClient[k]
    <3>1. \A j \in 1..Len(toClient') : j < k => j \in 1..Len(toClient) /\ toClient'[j] = toClient[j]
      BY <1>1, <1>2, <2>2
    <3>2. QED
      BY <2>1, <2>2, <3>1 DEF RowsInv, OrderInv
  <2>3. CASE k = Len(toClient) + 1 /\ toClient'[k] = g
    <3>1. g.peer \in Peer /\ g.top = Top(g.peer) /\ g.top \in Nat
      BY <2>1, <2>3, FrameFields
    <3>2. \A i \in history[g.peer] : i <= g.top
      BY <3>1 DEF RowsInv, StoredInv
    <3>3. \A j \in 1..Len(toClient') : j < k => j \in 1..Len(toClient) /\ toClient'[j] = toClient[j]
      BY <1>1, <1>2, <2>3
    <3>4. \A j \in 1..Len(toClient) : \A i \in Nat : Says(toClient[j], g.peer, i) => i <= g.top
      BY <3>1 DEF RowsInv, SaidInv
    <3>5. QED
      BY <2>3, <3>2, <3>3, <3>4
  <2>4. QED
    BY <1>2, <2>2, <2>3
<1>7. QED
  BY <1>5, <1>6

(* A frame is taken, and what is cached afterwards is not above what the   *)
(* answers under way know.                                                 *)
LEMMA RowsAfterTake ==
  ASSUME TypeOK, RowsInv, NEW op, Takes(op),
         \A k \in 1..Len(toClient) : k # 1 /\ toClient[k].op = "history" =>
            \A i \in history'[toClient[k].peer] : i <= toClient[k].top
  PROVE  SaidInv' /\ OrderInv'
<1>1. /\ \A k \in 1..Len(toClient') : /\ k + 1 \in 1..Len(toClient) /\ k + 1 # 1
                                      /\ toClient'[k] = toClient[k + 1]
      /\ store' = store
  BY TakesHead DEF storeVars
<1>2. \A p \in Peer : Top(p)' = Top(p)
  BY <1>1 DEF Top
<1>3. SaidInv'
  BY <1>1, <1>2 DEF RowsInv, SaidInv
<1>4. OrderInv'
  <2>1. SUFFICES ASSUME NEW k \in 1..Len(toClient'), toClient'[k].op = "history"
                 PROVE  /\ \A i \in history'[toClient'[k].peer] : i <= toClient'[k].top
                        /\ \A j \in 1..Len(toClient') : \A i \in Nat :
                              j < k /\ Says(toClient'[j], toClient'[k].peer, i) => i <= toClient'[k].top
    BY DEF OrderInv
  <2>2. \A j \in 1..Len(toClient') : j < k => j + 1 < k + 1
    OBVIOUS
  <2>3. \A j \in 1..Len(toClient) : \A i \in Nat :
          j < k + 1 /\ Says(toClient[j], toClient[k + 1].peer, i) => i <= toClient[k + 1].top
    BY <1>1, <2>1 DEF RowsInv, OrderInv
  <2>4. QED
    BY <1>1, <2>1, <2>2, <2>3
<1>5. QED
  BY <1>3, <1>4

LEMMA StepRows ==
  ASSUME TypeOK, RowsInv, CallbackInv, [Next]_vars
  PROVE  RowsInv'
<1> USE DEF storeVars, bridgeVars, linkVars, bootVars, cacheVars, uiVars, ghosts
<1>0. /\ \A p \in Peer : Top(p) \in Nat /\ wm[p] \in Nat /\ wm[p] <= Top(p)
                         /\ history[p] \subseteq 1..Top(p) /\ store[p] \in Seq({"self", "peer"})
      /\ wm \in [Peer -> Nat] /\ history \in [Peer -> SUBSET Nat]
  BY TopIsNat DEF RowsInv, StoredInv, TypeOK, BridgeTypeOK, GatewayTypeOK
<1>a. ASSUME UNCHANGED <<store, wm, history, toClient>> PROVE RowsInv'
  BY <1>a DEF RowsInv, StoredInv, SaidInv, OrderInv, Top
<1>b. ASSUME LinkEnds, UNCHANGED <<store, history>> PROVE RowsInv'
  <2>1. \A p \in Peer : wm'[p] = 0 /\ Top(p)' = Top(p)
    BY <1>b DEF LinkEnds, Zero, Top
  <2>2. StoredInv'
    BY <1>0, <1>b, <2>1 DEF StoredInv
  <2>3. toClient' = <<>> /\ Len(toClient') = 0
    BY <1>b DEF LinkEnds
  <2>4. \A k : k \notin 1..0
    OBVIOUS
  <2>5. QED
    BY <2>2, <2>3, <2>4 DEF RowsInv, SaidInv, OrderInv
<1>c. ASSUME store' = store PROVE \A p \in Peer : Top(p)' = Top(p)
  BY <1>c DEF Top
<1>1. CASE UNCHANGED vars
  BY <1>1, <1>a DEF vars
<1>2. ASSUME NEW p \in Peer, NewSession(p) PROVE RowsInv'
  BY <1>2, <1>a DEF NewSession
<1>3. ASSUME NEW p \in Peer, NEW author \in {"self", "peer"}, RowArrives(p, author) PROVE RowsInv'
  <2>1. UNCHANGED <<wm, history, toClient>>
    BY <1>3 DEF RowArrives
  <2>2. \A q \in Peer : Top(q)' \in Nat /\ Top(q) <= Top(q)'
    <3>1. ASSUME NEW q \in Peer PROVE Top(q)' \in Nat /\ Top(q) <= Top(q)'
      <4>1. CASE q = p
        <5>1. store'[q] = Append(store[q], author)
          BY <1>3, <4>1 DEF RowArrives, TypeOK, BridgeTypeOK
        <5>2. Len(store'[q]) = Len(store[q]) + 1
          BY <1>0, <4>1, <5>1, AppendProperties
        <5>3. QED
          BY <1>0, <5>2 DEF Top
      <4>2. CASE q # p
        BY <1>0, <1>3, <4>2 DEF RowArrives, TypeOK, BridgeTypeOK, Top
      <4>3. QED
        BY <4>1, <4>2
    <3>2. QED
      BY <3>1
  <2>3. StoredInv'
    <3>1. \A q \in Peer : \A i \in 1..Top(q) : i \in 1..(Top(q)')
      BY <1>0, <2>2
    <3>2. \A q \in Peer : wm[q] <= Top(q)'
      BY <1>0, <2>2
    <3>3. QED
      BY <1>0, <2>1, <3>1, <3>2 DEF StoredInv
  <2>4. SaidInv'
    <3>1. \A q \in Peer : \A i \in Nat : i <= Top(q) => i <= Top(q)'
      BY <1>0, <2>2
    <3>2. QED
      BY <2>1, <3>1 DEF RowsInv, SaidInv
  <2>5. OrderInv'
    BY <2>1 DEF RowsInv, OrderInv
  <2>6. QED
    BY <2>3, <2>4, <2>5 DEF RowsInv
<1>4. CASE Serves
  <2>1. PICK g \in AnswerFrame : ServesAs(g)
    BY <1>4, ServesAnswers
  <2>2. g \in ToClientFrame /\ g.op # "message.new" /\ (g.op = "history" => g.top = Top(g.peer))
    BY <2>1 DEF ServesAs, ToClientFrame, AnswerFrame
  <2>3. toClient' = Append(toClient, g) /\ store' = store /\ history' = history
    BY <2>1 DEF ServesAs
  <2>4. SaidInv' /\ OrderInv'
    BY <2>2, <2>3, RowsAfterAppend
  <2>5. \A p \in Peer : wm'[p] <= Top(p)
    BY <1>0, <1>4 DEF Serves, ServesAuth, ServesSessions, ServesHistory
  <2>6. QED
    BY <1>0, <1>c, <2>3, <2>4, <2>5 DEF RowsInv, StoredInv
<1>5. ASSUME NEW p \in Peer, Pushes(p) PROVE RowsInv'
  <2> DEFINE g == [op |-> "message.new", peer |-> p, row |-> wm[p] + 1]
  <2>1. wm' = [wm EXCEPT ![p] = wm[p] + 1] /\ wm'[p] = wm[p] + 1 /\ wm[p] < Top(p)
    BY <1>0, <1>5 DEF Pushes
  <2>2. toClient' = Append(toClient, g) /\ store' = store /\ history' = history
    BY <1>5, <2>1 DEF Pushes
  <2>3. g \in ToClientFrame /\ g.op = "message.new" /\ g.row <= Top(g.peer) /\ g.row # 0
    BY <1>0, <2>1 DEF ToClientFrame, UpdateFrame
  <2> HIDE DEF g
  <2>4. SaidInv' /\ OrderInv'
    BY <2>2, <2>3, RowsAfterAppend
  <2>5. \A q \in Peer : wm'[q] <= Top(q)
    <3>1. wm'[p] <= Top(p)
      BY <1>0, <2>1
    <3>2. \A q \in Peer : q # p => wm'[q] = wm[q]
      BY <1>0, <2>1
    <3>3. QED
      BY <1>0, <3>1, <3>2
  <2>6. QED
    BY <1>0, <1>c, <2>2, <2>4, <2>5 DEF RowsInv, StoredInv
<1>6. ASSUME NEW p \in Peer, Announces(p) PROVE RowsInv'
  <2> DEFINE g == [op |-> "dialog.new", peer |-> p, top |-> Top(p)]
  <2>1. toClient' = Append(toClient, g) /\ store' = store /\ history' = history
    BY <1>6 DEF Announces
  <2>2. g \in ToClientFrame /\ g.op # "message.new" /\ g.op # "history"
    BY <1>0 DEF ToClientFrame, UpdateFrame
  <2> HIDE DEF g
  <2>3. SaidInv' /\ OrderInv'
    BY <2>1, <2>2, RowsAfterAppend
  <2>4. \A q \in Peer : wm'[q] <= Top(q)
    BY <1>0, <1>6 DEF Announces
  <2>5. QED
    BY <1>0, <1>c, <2>1, <2>3, <2>4 DEF RowsInv, StoredInv
<1>7. CASE Connected
  BY <1>7, <1>a DEF Connected
<1>8. CASE Disconnected
  BY <1>8, <1>b DEF Disconnected
<1>9. CASE TakesSelf \/ TakesSessions \/ TakesDialogNew
  <2>1. PICK op : Takes(op)
    BY <1>9 DEF TakesSelf, TakesSessions, TakesDialogNew
  <2>2. history' = history /\ store' = store /\ wm' = wm
    BY <1>9, <2>1 DEF TakesSelf, TakesSessions, TakesDialogNew, Takes
  <2>3. \A k \in 1..Len(toClient) : k # 1 /\ toClient[k].op = "history" =>
          \A i \in history'[toClient[k].peer] : i <= toClient[k].top
    BY <2>2 DEF RowsInv, OrderInv
  <2>4. SaidInv' /\ OrderInv'
    BY <2>1, <2>3, RowsAfterTake
  <2>5. QED
    BY <1>0, <1>c, <2>2, <2>4 DEF RowsInv, StoredInv
<1>10. CASE TakesHistory
  <2> DEFINE p == toClient[1].peer
             top == toClient[1].top
  <2>1. Takes("history")
    BY <1>10 DEF TakesHistory
  <2>2. store' = store /\ wm' = wm /\ 1 \in 1..Len(toClient) /\ Len(toClient) \in Nat
    BY <2>1, TakesHead
  <2>3. /\ p \in Peer /\ top \in Nat /\ toClient[1].op = "history"
        /\ history' = [history EXCEPT ![p] = IF toClient[1].ok THEN 1..top ELSE {}]
    BY <1>10, TakesHistoryOf
  <2>4. Says(toClient[1], p, top)
    BY <2>3 DEF Says
  <2>5. top <= Top(p)
    BY <2>2, <2>3, <2>4 DEF RowsInv, SaidInv
  <2>6. history'[p] \subseteq 1..top /\ \A q \in Peer : q # p => history'[q] = history[q]
    BY <1>0, <2>3
  <2>7. \A q \in Peer : history'[q] \subseteq 1..Top(q)
    BY <1>0, <2>3, <2>5, <2>6
  <2>8. ASSUME NEW k \in 1..Len(toClient), k # 1, toClient[k].op = "history",
               NEW i \in history'[toClient[k].peer]
        PROVE  i <= toClient[k].top
    <3>1. toClient[k].peer \in Peer /\ toClient[k].top \in Nat
      BY <2>8, QueueTypes, FrameFields
    <3>2. CASE toClient[k].peer = p
      <4>1. top <= toClient[k].top
        <5>1. 1 < k
          BY <2>2, <2>8
        <5>2. QED
          BY <2>2, <2>3, <2>4, <2>8, <3>2, <5>1 DEF RowsInv, OrderInv
      <4>2. i \in 1..top
        BY <2>6, <2>8, <3>2
      <4>3. QED
        BY <2>3, <3>1, <4>1, <4>2
    <3>3. CASE toClient[k].peer # p
      BY <2>6, <2>8, <3>1, <3>3 DEF RowsInv, OrderInv
    <3>4. QED
      BY <3>2, <3>3
  <2>9. SaidInv' /\ OrderInv'
    BY <2>1, <2>8, RowsAfterTake
  <2>10. QED
    BY <1>0, <1>c, <2>2, <2>7, <2>9 DEF RowsInv, StoredInv
<1>11. CASE TakesMessage
  <2> DEFINE p == toClient[1].peer
             row == toClient[1].row
  <2>1. Takes("message.new")
    BY <1>11 DEF TakesMessage
  <2>2. /\ store' = store /\ wm' = wm /\ 1 \in 1..Len(toClient) /\ Len(toClient) \in Nat
        /\ Head(toClient) = toClient[1] /\ toClient[1] \in ToClientFrame /\ toClient[1].op = "message.new"
    BY <2>1, TakesHead
  <2>3. /\ p \in Peer /\ row \in Nat
        /\ history' = [history EXCEPT ![p] = history[p] \cup {row}]
    BY <1>11, <2>2, FrameFields DEF TakesMessage
  <2>4. Says(toClient[1], p, row)
    BY <2>2, <2>3 DEF Says
  <2>5. row <= Top(p) /\ row # 0
    BY <2>2, <2>3, <2>4 DEF RowsInv, SaidInv
  <2>6. history'[p] = history[p] \cup {row} /\ \A q \in Peer : q # p => history'[q] = history[q]
    BY <1>0, <2>3
  <2>7. row \in 1..Top(p)
    BY <1>0, <2>3, <2>5
  <2>8. \A q \in Peer : history'[q] \subseteq 1..Top(q)
    BY <1>0, <2>6, <2>7
  <2>9. ASSUME NEW k \in 1..Len(toClient), k # 1, toClient[k].op = "history",
               NEW i \in history'[toClient[k].peer]
        PROVE  i <= toClient[k].top
    <3>1. toClient[k].peer \in Peer
      BY <2>9, QueueTypes, FrameFields
    <3>2. 1 < k
      BY <2>2, <2>9
    <3>3. CASE toClient[k].peer = p
      <4>1. row <= toClient[k].top
        BY <2>2, <2>3, <2>4, <2>9, <3>2, <3>3 DEF RowsInv, OrderInv
      <4>2. \A j \in history[p] : j <= toClient[k].top
        BY <2>9, <3>3 DEF RowsInv, OrderInv
      <4>3. QED
        BY <2>6, <2>9, <3>3, <4>1, <4>2
    <3>4. CASE toClient[k].peer # p
      BY <2>6, <2>9, <3>1, <3>4 DEF RowsInv, OrderInv
    <3>5. QED
      BY <3>3, <3>4
  <2>10. SaidInv' /\ OrderInv'
    BY <2>1, <2>9, RowsAfterTake
  <2>11. QED
    BY <1>0, <1>c, <2>2, <2>8, <2>10 DEF RowsInv, StoredInv
<1>12. CASE TimePasses
  BY <1>12, <1>a DEF TimePasses
<1>13. CASE BootstrapReturns
  BY <1>13, <1>a, <1>b DEF BootstrapReturns, SeedWithConfig
<1>14. ASSUME NEW p \in Peer, OpensChat(p) PROVE RowsInv'
  BY <1>14, <1>a DEF OpensChat
<1>15. QED
  BY <1>1, <1>2, <1>3, <1>4, <1>5, <1>6, <1>7, <1>8, <1>9, <1>10, <1>11, <1>12, <1>13, <1>14
     DEF Next, Bridge, Client, Serves

-----------------------------------------------------------------------------
(* Requests and the callbacks of their answers.                            *)

(* What matches before matches afterwards, if the ids only grow, and new   *)
(* callbacks have ids that were not given yet.                             *)
LEMMA StillMatches ==
  ASSUME NEW f, Matches(f), requestId \in Nat, requestId' \in Nat, requestId <= requestId',
         f.op = "history" => f.id \in Nat,
         \A cb \in callbacks' : cb \in callbacks \/ (cb.id \in Nat /\ requestId < cb.id)
  PROVE  f.op = "history" =>
           /\ f.id <= requestId'
           /\ \A cb \in callbacks' : cb.id = f.id => cb.peer = f.peer
BY DEF Matches

LEMMA StepCallback ==
  ASSUME TypeOK, CallbackInv, [Next]_vars
  PROVE  CallbackInv'
<1> USE DEF storeVars, bridgeVars, linkVars, bootVars, cacheVars, uiVars, ghosts
<1>0. /\ toBridge \in Seq(RequestFrame) /\ Len(toBridge) \in Nat
      /\ toClient \in Seq(ToClientFrame) /\ Len(toClient) \in Nat
      /\ \A k \in 1..Len(toBridge) : toBridge[k] \in RequestFrame
      /\ \A k \in 1..Len(toClient) : toClient[k] \in ToClientFrame
  BY QueueTypes
<1>a. requestId \in Nat /\ \A cb \in callbacks : cb.id \in Nat /\ cb.id <= requestId
  BY DEF TypeOK, GatewayTypeOK, CallbackInv
<1> DEFINE Fine(f) == f.op = "history" =>
              /\ f.id <= requestId'
              /\ \A cb \in callbacks' : cb.id = f.id => cb.peer = f.peer
<1>b. CallbackInv' <=> /\ \A cb \in callbacks' : cb.id <= requestId'
                       /\ \A k \in 1..Len(toBridge') : Fine(toBridge'[k])
                       /\ \A k \in 1..Len(toClient') : Fine(toClient'[k])
  BY DEF CallbackInv, Matches
<1>c. ASSUME requestId' \in Nat, requestId <= requestId',
             \A cb \in callbacks' : cb \in callbacks \/ (cb.id \in Nat /\ requestId < cb.id)
      PROVE  /\ \A k \in 1..Len(toBridge) : Fine(toBridge[k])
             /\ \A k \in 1..Len(toClient) : Fine(toClient[k])
  <2>1. ASSUME NEW k \in 1..Len(toBridge) PROVE Fine(toBridge[k])
    <3>1. Matches(toBridge[k]) /\ (toBridge[k].op = "history" => toBridge[k].id \in Nat)
      BY <1>0, FrameFields DEF CallbackInv
    <3>2. QED
      BY <1>a, <1>c, <3>1, StillMatches
  <2>2. ASSUME NEW k \in 1..Len(toClient) PROVE Fine(toClient[k])
    <3>1. Matches(toClient[k]) /\ (toClient[k].op = "history" => toClient[k].id \in Nat)
      BY <1>0, FrameFields DEF CallbackInv
    <3>2. QED
      BY <1>a, <1>c, <3>1, StillMatches
  <2>3. QED
    BY <2>1, <2>2
<1>d. ASSUME UNCHANGED <<requestId, callbacks>>
      PROVE  /\ \A cb \in callbacks' : cb.id <= requestId'
             /\ \A k \in 1..Len(toBridge) : Fine(toBridge[k])
             /\ \A k \in 1..Len(toClient) : Fine(toClient[k])
  BY <1>a, <1>c, <1>d
<1>e. ASSUME LinkEnds, UNCHANGED <<requestId, callbacks>> PROVE CallbackInv'
  <2>1. toBridge' = <<>> /\ toClient' = <<>> /\ Len(toBridge') = 0 /\ Len(toClient') = 0
    BY <1>e DEF LinkEnds
  <2>2. \A k : k \notin 1..0
    OBVIOUS
  <2>3. QED
    BY <1>b, <1>d, <1>e, <2>1, <2>2
<1>f. ASSUME UNCHANGED <<requestId, callbacks, toBridge, toClient>> PROVE CallbackInv'
  BY <1>f DEF CallbackInv, Matches
<1> HIDE DEF Fine
<1>1. CASE UNCHANGED vars
  BY <1>1, <1>f DEF vars
<1>2. ASSUME NEW p \in Peer, NewSession(p) \/ \E author \in {"self", "peer"} : RowArrives(p, author)
      PROVE  CallbackInv'
  BY <1>2, <1>f DEF NewSession, RowArrives
<1>3. CASE Serves
  <2>1. PICK g \in AnswerFrame : ServesAs(g)
    BY <1>3, ServesAnswers
  <2>2. UNCHANGED <<requestId, callbacks>> /\ toBridge # <<>> /\ toBridge' = Tail(toBridge)
        /\ toClient' = Append(toClient, g) /\ g \in ToClientFrame
    BY <2>1 DEF ServesAs, ToClientFrame
  <2>3. /\ Head(toBridge) = toBridge[1] /\ 1 \in 1..Len(toBridge)
        /\ \A k \in 1..Len(toBridge') : k + 1 \in 1..Len(toBridge) /\ toBridge'[k] = toBridge[k + 1]
    BY <1>0, <2>2, TailAt
  <2>4. Fine(g)
    <3>1. Fine(toBridge[1])
      BY <1>d, <2>2, <2>3
    <3>2. QED
      BY <2>1, <2>3, <3>1 DEF Fine, ServesAs
  <2>5. \A k \in 1..Len(toClient') :
           \/ k \in 1..Len(toClient) /\ toClient'[k] = toClient[k]
           \/ toClient'[k] = g
    BY <1>0, <2>2, AppendAt
  <2>6. QED
    BY <1>b, <1>d, <2>2, <2>3, <2>4, <2>5
<1>4. ASSUME NEW g \in ToClientFrame, g.op # "history", toClient' = Append(toClient, g),
             UNCHANGED <<toBridge, requestId, callbacks>>
      PROVE  CallbackInv'
  <2>1. \A k \in 1..Len(toClient') :
           \/ k \in 1..Len(toClient) /\ toClient'[k] = toClient[k]
           \/ toClient'[k] = g
    BY <1>0, <1>4, AppendAt
  <2>2. Fine(g)
    BY <1>4 DEF Fine
  <2>3. QED
    BY <1>b, <1>d, <1>4, <2>1, <2>2
<1>5. ASSUME NEW p \in Peer, Pushes(p) PROVE CallbackInv'
  <2>1. wm[p] + 1 \in Nat /\ wm'[p] = wm[p] + 1
    BY <1>5 DEF Pushes, TypeOK, BridgeTypeOK
  <2>2. [op |-> "message.new", peer |-> p, row |-> wm'[p]] \in ToClientFrame
    BY <2>1 DEF ToClientFrame, UpdateFrame
  <2>3. QED
    BY <1>4, <1>5, <2>2 DEF Pushes
<1>6. ASSUME NEW p \in Peer, Announces(p) PROVE CallbackInv'
  <2>1. [op |-> "dialog.new", peer |-> p, top |-> Top(p)] \in ToClientFrame
    BY TopIsNat DEF ToClientFrame, UpdateFrame
  <2>2. QED
    BY <1>4, <1>6, <2>1 DEF Announces
<1>7. CASE Connected
  <2>1. /\ toBridge' = <<[op |-> "auth", id |-> requestId + 1]>> /\ requestId' = requestId + 1
        /\ UNCHANGED <<toClient, callbacks>>
    BY <1>7 DEF Connected
  <2>2. /\ \A cb \in callbacks' : cb.id <= requestId'
        /\ \A k \in 1..Len(toClient) : Fine(toClient[k])
    BY <1>a, <1>c, <2>1
  <2>3. Len(toBridge') = 1 /\ toBridge'[1].op = "auth"
    BY <2>1
  <2>4. \A k \in 1..1 : k = 1
    OBVIOUS
  <2>5. QED
    BY <1>b, <2>1, <2>2, <2>3, <2>4 DEF Fine
<1>8. CASE Disconnected
  BY <1>8, <1>e DEF Disconnected
<1>9. ASSUME NEW op, Takes(op), requestId' \in Nat, requestId <= requestId',
             \A cb \in callbacks' : \/ cb \in callbacks
                                    \/ cb.id \in Nat /\ requestId < cb.id /\ cb.id <= requestId',
             \A k \in 1..Len(toBridge') : \/ k \in 1..Len(toBridge) /\ toBridge'[k] = toBridge[k]
                                          \/ Fine(toBridge'[k])
      PROVE  CallbackInv'
  <2>1. /\ \A k \in 1..Len(toBridge) : Fine(toBridge[k])
        /\ \A k \in 1..Len(toClient) : Fine(toClient[k])
    BY <1>9, <1>c
  <2>2. \A k \in 1..Len(toClient') : k + 1 \in 1..Len(toClient) /\ toClient'[k] = toClient[k + 1]
    BY <1>9, TakesHead
  <2>3. \A cb \in callbacks' : cb.id <= requestId'
    BY <1>9, <1>a
  <2>4. QED
    BY <1>9, <1>b, <2>1, <2>2, <2>3
<1>10. CASE TakesSelf
  <2> DEFINE e == [op |-> "sessions.list", id |-> requestId + 1]
  <2>1. /\ Takes("self") /\ callbacks' = callbacks /\ requestId' = requestId + 1
        /\ toBridge' = Append(toBridge, e)
    BY <1>10 DEF TakesSelf
  <2>2. e \in RequestFrame /\ e.op # "history"
    BY <1>a DEF RequestFrame
  <2> HIDE DEF e
  <2>3. \A k \in 1..Len(toBridge') :
           \/ k \in 1..Len(toBridge) /\ toBridge'[k] = toBridge[k]
           \/ toBridge'[k] = e
    BY <1>0, <2>1, <2>2, AppendAt
  <2>4. Fine(e)
    BY <2>2 DEF Fine
  <2>5. requestId' \in Nat /\ requestId <= requestId'
    BY <1>a, <2>1
  <2>6. QED
    BY <1>9, <2>1, <2>3, <2>4, <2>5
<1>11. CASE TakesSessions
  <2>1. Takes("sessions")
    BY <1>11 DEF TakesSessions
  <2>2. PICK L \in SUBSET Peer, n \in Nat :
          \E order \in [1..n -> L], s \in [1..n -> RequestFrame] : AsksFor(L, n, order, s)
    BY <1>11, TakesSessionsOf
  <2>3. PICK order \in [1..n -> L], s \in [1..n -> RequestFrame] : AsksFor(L, n, order, s)
    BY <2>2
  <2>4. /\ requestId' = requestId + n /\ toBridge' = toBridge \o s
        /\ callbacks' = callbacks \cup {[id |-> requestId + i, peer |-> order[i]] : i \in 1..n}
        /\ \A i \in 1..n : s[i] = History(requestId + i, order[i])
    BY <2>3 DEF AsksFor
  <2>5. /\ requestId' \in Nat /\ requestId <= requestId'
        /\ \A i \in 1..n : /\ requestId + i \in Nat /\ requestId < requestId + i
                           /\ requestId + i <= requestId'
        /\ \A i, j \in 1..n : requestId + i = requestId + j => i = j
    BY <1>a, <2>4
  <2>6. \A cb \in callbacks' : cb \in callbacks \/ (cb.id \in Nat /\ requestId < cb.id /\ cb.id <= requestId')
    BY <2>4, <2>5
  <2>7. ASSUME NEW i \in 1..n PROVE Fine(s[i])
    <3>1. s[i].id = requestId + i /\ s[i].peer = order[i]
      BY <2>4 DEF History
    <3>2. ASSUME NEW cb \in callbacks', cb.id = requestId + i PROVE cb.peer = order[i]
      <4>1. cb \notin callbacks
        BY <1>a, <2>5, <3>2
      <4>2. PICK j \in 1..n : cb = [id |-> requestId + j, peer |-> order[j]]
        BY <2>4, <4>1
      <4>3. i = j
        BY <2>5, <3>2, <4>2
      <4>4. QED
        BY <4>2, <4>3
    <3>3. QED
      BY <2>5, <3>1, <3>2 DEF Fine
  <2>8. \A k \in 1..Len(toBridge') :
           \/ k \in 1..Len(toBridge) /\ toBridge'[k] = toBridge[k]
           \/ \E i \in 1..n : toBridge'[k] = s[i]
    BY <1>0, <2>4, ConcatAt
  <2>9. QED
    BY <1>9, <2>1, <2>5, <2>6, <2>7, <2>8
<1>12. CASE TakesHistory
  <2>1. Takes("history") /\ callbacks' \subseteq callbacks /\ UNCHANGED <<toBridge, requestId>>
    BY <1>12, TakesHistoryOf DEF TakesHistory
  <2>2. QED
    BY <1>9, <1>a, <2>1
<1>13. CASE TakesDialogNew \/ TakesMessage
  <2>1. PICK op : Takes(op)
    BY <1>13 DEF TakesDialogNew, TakesMessage
  <2>2. UNCHANGED <<toBridge, requestId, callbacks>>
    BY <1>13 DEF TakesDialogNew, TakesMessage
  <2>3. QED
    BY <1>9, <1>a, <2>1, <2>2
<1>14. CASE TimePasses
  BY <1>14, <1>f DEF TimePasses
<1>15. CASE BootstrapReturns
  BY <1>15, <1>e, <1>f DEF BootstrapReturns, SeedWithConfig
<1>16. ASSUME NEW p \in Peer, OpensChat(p) PROVE CallbackInv'
  <2>1. toClient' = toClient
    BY <1>16 DEF OpensChat
  <2>2. CASE UNCHANGED <<requestId, callbacks, toBridge>>
    BY <1>f, <2>1, <2>2
  <2>3. CASE /\ requestId' = requestId + 1
             /\ callbacks' = callbacks \cup {[id |-> requestId + 1, peer |-> p]}
             /\ toBridge' = toBridge \/ toBridge' = Append(toBridge, History(requestId + 1, p))
    <3>1. requestId' \in Nat /\ requestId <= requestId' /\ requestId + 1 \in Nat /\ requestId < requestId + 1
      BY <1>a, <2>3
    <3>2. \A cb \in callbacks' :
            \/ cb \in callbacks
            \/ cb.id \in Nat /\ requestId < cb.id /\ cb.id <= requestId' /\ cb.peer = p
      BY <2>3, <3>1
    <3>3. /\ \A k \in 1..Len(toBridge) : Fine(toBridge[k])
          /\ \A k \in 1..Len(toClient) : Fine(toClient[k])
      BY <1>c, <3>1, <3>2
    <3>4. \A cb \in callbacks' : cb.id <= requestId'
      BY <1>a, <2>3, <3>1, <3>2
    <3>5. Fine(History(requestId + 1, p))
      BY <1>a, <2>3, <3>1, <3>2 DEF Fine, History
    <3>6. History(requestId + 1, p) \in RequestFrame
      BY <3>1 DEF History, RequestFrame
    <3>7. toBridge' = Append(toBridge, History(requestId + 1, p)) =>
            \A k \in 1..Len(toBridge') : \/ k \in 1..Len(toBridge) /\ toBridge'[k] = toBridge[k]
                                         \/ toBridge'[k] = History(requestId + 1, p)
      BY <1>0, <3>6, AppendAt
    <3>8. QED
      BY <1>b, <2>1, <2>3, <3>3, <3>4, <3>5, <3>7
  <2>4. QED
    BY <1>16, <2>2, <2>3 DEF OpensChat
<1>17. QED
  BY <1>1, <1>2, <1>3, <1>5, <1>6, <1>7, <1>8, <1>10, <1>11, <1>12, <1>13, <1>14, <1>15, <1>16
     DEF Next, Bridge, Client, Serves

-----------------------------------------------------------------------------
(* What is asked during a bootstrap, and how the missing are counted.      *)

AskedParts ==
  /\ \A j, k \in 1..Len(toBridge) : j # k => Apart(toBridge[j], toBridge[k])
  /\ \A j, k \in 1..Len(toClient) :
        j # k /\ toClient[j].op \in Answers /\ toClient[k].op \in Answers
           => Apart(toClient[j], toClient[k])
  /\ \A j \in 1..Len(toBridge) : \A k \in 1..Len(toClient) :
        toClient[k].op \in Answers => Apart(toBridge[j], toClient[k])
  /\ \A k \in 1..Len(toBridge) : IsMissing(toBridge[k])
  /\ \A k \in 1..Len(toClient) : IsMissing(toClient[k])

LEMMA AskedIs == AskedInv <=> (phase = "waiting" => AskedParts)
BY DEF AskedInv, AskedParts

(* An answer that is no history is the only thing under way.               *)
LEMMA AnswerIsAlone ==
  ASSUME TypeOK, AskedParts, toClient # <<>>, toClient[1].op \in {"self", "sessions"}
  PROVE  /\ Len(toBridge) = 0
         /\ \A k \in 1..Len(toClient) : k # 1 => toClient[k].op \notin Answers
<1>1. Len(toBridge) \in Nat /\ Len(toClient) \in Nat \ {0} /\ 1 \in 1..Len(toClient)
  BY QueueTypes, TailAt
<1>2. \A j \in 1..Len(toBridge) : FALSE
  BY <1>1 DEF AskedParts, Apart, Answers
<1>3. Len(toBridge) = 0
  <2>1. \A n \in Nat : n # 0 => 1 \in 1..n
    OBVIOUS
  <2>2. QED
    BY <1>1, <1>2, <2>1
<1>4. \A k \in 1..Len(toClient) : k # 1 => toClient[k].op \notin Answers
  BY <1>1 DEF AskedParts, Apart, Answers
<1>5. QED
  BY <1>3, <1>4

LEMMA StepAsked ==
  ASSUME TypeOK, LinkInv, CallbackInv, AskedInv, [Next]_vars
  PROVE  AskedInv'
<1> USE DEF storeVars, bridgeVars, linkVars, bootVars, cacheVars, uiVars, ghosts
<1>0. /\ toBridge \in Seq(RequestFrame) /\ Len(toBridge) \in Nat
      /\ toClient \in Seq(ToClientFrame) /\ Len(toClient) \in Nat
      /\ \A k \in 1..Len(toBridge) : toBridge[k] \in RequestFrame
      /\ \A k \in 1..Len(toClient) : toClient[k] \in ToClientFrame
  BY QueueTypes
<1>a. ASSUME phase = "waiting", AskedParts => AskedParts' PROVE AskedInv'
  BY <1>a, AskedIs DEF AskedInv, AskedParts
<1>b. ASSUME phase' # "waiting" PROVE AskedInv'
  BY <1>b DEF AskedInv
<1>c. ASSUME UNCHANGED <<phase, toBridge, toClient, listed, landed>> PROVE AskedInv'
  BY <1>c DEF AskedInv, IsMissing
<1>d. phase' = "waiting" => phase = "waiting"
  BY DEF Next, vars, NewSession, RowArrives, Bridge, ServesAuth, ServesSessions, ServesHistory, Served,
         Pushes, Announces, Connected, Disconnected, Client, TakesSelf, TakesSessions, TakesHistory,
         TakesDialogNew, TakesMessage, TimePasses, BootstrapReturns, SeedWithConfig, OpensChat
<1>1. CASE UNCHANGED vars
  BY <1>1, <1>c DEF vars
<1>2. ASSUME NEW p \in Peer, NewSession(p) \/ \E author \in {"self", "peer"} : RowArrives(p, author)
      PROVE  AskedInv'
  BY <1>2, <1>c DEF NewSession, RowArrives
<1>3. CASE Serves
  <2>1. SUFFICES ASSUME AskedParts, phase = "waiting" PROVE AskedParts'
    BY <1>a, <1>b, <1>d
  <2>2. PICK g \in AnswerFrame : ServesAs(g)
    BY <1>3, ServesAnswers
  <2>3. /\ UNCHANGED <<listed, landed>> /\ toBridge # <<>> /\ toBridge' = Tail(toBridge)
        /\ toClient' = Append(toClient, g) /\ g \in ToClientFrame
    BY <2>2 DEF ServesAs, ToClientFrame
  <2>4. /\ Head(toBridge) = toBridge[1] /\ 1 \in 1..Len(toBridge)
        /\ \A k \in 1..Len(toBridge') : /\ k + 1 \in 2..Len(toBridge) /\ k + 1 \in 1..Len(toBridge)
                                        /\ toBridge'[k] = toBridge[k + 1]
    BY <1>0, <2>3, TailAt
  <2>5. \A k \in 1..Len(toBridge') : k + 1 # 1
    OBVIOUS
  <2>6. \A k \in 1..Len(toClient') :
           \/ k \in 1..Len(toClient) /\ toClient'[k] = toClient[k]
           \/ k = Len(toClient) + 1 /\ toClient'[k] = g
    BY <1>0, <2>3, AppendAt
  <2>7. \A f : (Apart(toBridge[1], f) => Apart(g, f)) /\ (Apart(f, toBridge[1]) => Apart(f, g))
    BY <2>2, <2>4 DEF Apart, ServesAs
  <2>8. IsMissing(toBridge[1]) => IsMissing(g)
    BY <2>2, <2>4 DEF IsMissing, ServesAs
  <2>9. \A f : IsMissing(f) => (f.op = "history" => f.peer \in listed' \ landed')
    BY <2>3 DEF IsMissing
  <2>10. \A j, k \in 1..Len(toBridge') : j # k => Apart(toBridge'[j], toBridge'[k])
    <3>1. \A j, k \in 1..Len(toBridge') : j # k => j + 1 # k + 1
      OBVIOUS
    <3>2. QED
      BY <2>1, <2>4, <3>1 DEF AskedParts
  <2>11. \A k \in 1..Len(toClient) : toClient[k].op \in Answers =>
            Apart(toBridge[1], toClient[k]) /\ Apart(toClient[k], toBridge[1])
    BY <2>1, <2>4 DEF AskedParts, Apart
  <2>12. \A j, k \in 1..Len(toClient') :
            j # k /\ toClient'[j].op \in Answers /\ toClient'[k].op \in Answers
              => Apart(toClient'[j], toClient'[k])
    BY <2>1, <2>6, <2>7, <2>11 DEF AskedParts
  <2>13. ASSUME NEW j \in 1..Len(toBridge'), NEW k \in 1..Len(toClient'), toClient'[k].op \in Answers
         PROVE  Apart(toBridge'[j], toClient'[k])
    <3>1. CASE k \in 1..Len(toClient) /\ toClient'[k] = toClient[k]
      BY <2>1, <2>4, <2>13, <3>1 DEF AskedParts
    <3>2. CASE toClient'[k] = g
      <4>1. Apart(toBridge[j + 1], toBridge[1])
        BY <2>1, <2>4, <2>5, <2>13 DEF AskedParts
      <4>2. QED
        BY <2>4, <2>7, <2>13, <3>2, <4>1
    <3>3. QED
      BY <2>6, <2>13, <3>1, <3>2
  <2>14. \A k \in 1..Len(toBridge') : IsMissing(toBridge'[k])
    BY <2>1, <2>4 DEF AskedParts
  <2>15. \A k \in 1..Len(toClient') : IsMissing(toClient'[k])
    BY <2>1, <2>4, <2>6, <2>8 DEF AskedParts
  <2>16. QED
    BY <2>3, <2>10, <2>12, <2>13, <2>14, <2>15 DEF AskedParts, IsMissing
<1>4. ASSUME NEW g \in ToClientFrame, g.op \notin Answers, toClient' = Append(toClient, g),
             UNCHANGED <<phase, toBridge, listed, landed>>
      PROVE  AskedInv'
  <2>1. SUFFICES ASSUME AskedParts, phase = "waiting" PROVE AskedParts'
    BY <1>a, <1>b, <1>d
  <2>2. \A k \in 1..Len(toClient') :
           \/ k \in 1..Len(toClient) /\ toClient'[k] = toClient[k]
           \/ k = Len(toClient) + 1 /\ toClient'[k] = g
    BY <1>0, <1>4, AppendAt
  <2>3. IsMissing(g)
    BY <1>4 DEF IsMissing, Answers
  <2>4. QED
    BY <1>4, <2>1, <2>2, <2>3 DEF AskedParts, IsMissing
<1>5. ASSUME NEW p \in Peer, Pushes(p) PROVE AskedInv'
  <2>1. wm[p] + 1 \in Nat /\ wm'[p] = wm[p] + 1
    BY <1>5 DEF Pushes, TypeOK, BridgeTypeOK
  <2>2. [op |-> "message.new", peer |-> p, row |-> wm'[p]] \in ToClientFrame
    BY <2>1 DEF ToClientFrame, UpdateFrame
  <2>3. QED
    BY <1>4, <1>5, <2>2 DEF Pushes, Answers
<1>6. ASSUME NEW p \in Peer, Announces(p) PROVE AskedInv'
  <2>1. [op |-> "dialog.new", peer |-> p, top |-> Top(p)] \in ToClientFrame
    BY TopIsNat DEF ToClientFrame, UpdateFrame
  <2>2. QED
    BY <1>4, <1>6, <2>1 DEF Announces, Answers
<1>7. CASE Connected
  <2>1. /\ toBridge' = <<[op |-> "auth", id |-> requestId']>>
        /\ toClient' = <<>> /\ UNCHANGED <<listed, landed>>
    BY <1>7 DEF Connected, LinkInv
  <2>2. Len(toBridge') = 1 /\ toBridge'[1].op = "auth" /\ Len(toClient') = 0
    BY <2>1
  <2>3. (\A k \in 1..1 : k = 1) /\ (\A k : k \notin 1..0)
    OBVIOUS
  <2>4. AskedParts'
    BY <2>2, <2>3 DEF AskedParts, IsMissing
  <2>5. QED
    BY <2>4 DEF AskedInv, AskedParts
<1>8. ASSUME LinkEnds PROVE AskedInv'
  <2>1. toBridge' = <<>> /\ toClient' = <<>> /\ Len(toBridge') = 0 /\ Len(toClient') = 0
    BY <1>8 DEF LinkEnds
  <2>2. \A k : k \notin 1..0
    OBVIOUS
  <2>3. QED
    BY <2>1, <2>2 DEF AskedInv
<1>9. CASE Disconnected
  BY <1>8, <1>9 DEF Disconnected
<1>10. CASE TakesSelf
  <2> DEFINE e == [op |-> "sessions.list", id |-> requestId + 1]
  <2>1. SUFFICES ASSUME AskedParts, phase = "waiting" PROVE AskedParts'
    BY <1>a, <1>b, <1>d
  <2>2. /\ Takes("self") /\ toBridge' = Append(toBridge, e) /\ UNCHANGED <<listed, landed>>
    BY <1>10 DEF TakesSelf
  <2>3. e \in RequestFrame /\ e.op # "history"
    BY DEF RequestFrame, TypeOK, GatewayTypeOK
  <2> HIDE DEF e
  <2>4. /\ toClient # <<>> /\ toClient[1].op = "self"
        /\ \A k \in 1..Len(toClient') : k + 1 \in 1..Len(toClient) /\ k + 1 # 1
                                        /\ toClient'[k] = toClient[k + 1]
    BY <2>2, TakesHead
  <2>5. /\ Len(toBridge) = 0
        /\ \A k \in 1..Len(toClient) : k # 1 => toClient[k].op \notin Answers
    BY <2>1, <2>4, AnswerIsAlone
  <2>6. Len(toBridge') = 1 /\ toBridge'[1] = e
    <3>1. Len(toBridge') = Len(toBridge) + 1 /\ toBridge'[Len(toBridge) + 1] = e
      BY <1>0, <2>2, <2>3, AppendAt
    <3>2. QED
      BY <2>5, <3>1
  <2>7. \A k \in 1..1 : k = 1
    OBVIOUS
  <2>8. QED
    BY <2>3, <2>4, <2>5, <2>6, <2>7 DEF AskedParts, IsMissing, Answers
<1>11. CASE TakesSessions
  <2>1. SUFFICES ASSUME AskedParts, phase = "waiting" PROVE AskedParts'
    BY <1>a, <1>b, <1>d
  <2>2. Takes("sessions")
    BY <1>11 DEF TakesSessions
  <2>3. PICK L \in SUBSET Peer, n \in Nat :
          \E order \in [1..n -> L], s \in [1..n -> RequestFrame] : AsksFor(L, n, order, s)
    BY <1>11, TakesSessionsOf
  <2>4. PICK order \in [1..n -> L], s \in [1..n -> RequestFrame] : AsksFor(L, n, order, s)
    BY <2>3
  <2>5. /\ toClient # <<>> /\ toClient[1].op = "sessions"
        /\ \A k \in 1..Len(toClient') : k + 1 \in 1..Len(toClient) /\ k + 1 # 1
                                        /\ toClient'[k] = toClient[k + 1]
    BY <2>2, TakesHead
  <2>6. /\ Len(toBridge) = 0
        /\ \A k \in 1..Len(toClient) : k # 1 => toClient[k].op \notin Answers
    BY <2>1, <2>5, AnswerIsAlone
  <2>7. /\ toBridge' = toBridge \o s /\ listed' = L /\ landed' = {}
        /\ \A i \in 1..n : s[i] = History(requestId + i, order[i])
        /\ \A i, j \in 1..n : order[i] = order[j] => i = j
    BY <2>4 DEF AsksFor
  <2>8. \A k \in 1..Len(toBridge') : k \in 1..n /\ toBridge'[k] = s[k]
    <3>1. Len(toBridge \o s) = n /\ \A k \in 1..n : (toBridge \o s)[k] = s[k]
      BY <1>0, <2>6, ConcatToEmpty
    <3>2. QED
      BY <2>7, <3>1
  <2>9. \A k \in 1..Len(toBridge') : k \in 1..n /\ toBridge'[k].op = "history" /\ toBridge'[k].peer = order[k]
    <3>1. \A k \in 1..n : s[k].op = "history" /\ s[k].peer = order[k]
      BY <2>7 DEF History
    <3>2. QED
      BY <2>8, <3>1
  <2>10. \A j, k \in 1..Len(toBridge') : j # k => Apart(toBridge'[j], toBridge'[k])
    BY <2>7, <2>9, SMTT(30) DEF Apart
  <2>11. \A k \in 1..Len(toClient') : toClient'[k].op \notin Answers
    BY <2>5, <2>6
  <2>12. QED
    BY <2>7, <2>9, <2>10, <2>11 DEF AskedParts, IsMissing, Answers
<1>12. CASE TakesHistory
  <2> DEFINE p == toClient[1].peer
  <2>1. SUFFICES ASSUME AskedParts, phase = "waiting" PROVE AskedParts'
    BY <1>a, <1>b, <1>d
  <2>2. Takes("history") /\ landed' = landed \cup {p} /\ UNCHANGED <<toBridge, listed>>
    BY <1>12, TakesHistoryOf DEF TakesHistory
  <2>3. /\ 1 \in 1..Len(toClient) /\ toClient[1].op = "history"
        /\ \A k \in 1..Len(toClient') : k + 1 \in 1..Len(toClient) /\ k + 1 # 1
                                        /\ toClient'[k] = toClient[k + 1]
    BY <2>2, TakesHead
  <2>4. \A f : IsMissing(f) /\ Apart(f, toClient[1]) => (f.op = "history" => f.peer \in listed' \ landed')
    BY <2>2 DEF IsMissing, Apart
  <2>5. \A k \in 1..Len(toBridge) : IsMissing(toBridge[k]) /\ Apart(toBridge[k], toClient[1])
    BY <2>1, <2>3 DEF AskedParts, Answers
  <2>6. \A k \in 1..Len(toClient) : k # 1 /\ toClient[k].op = "history" =>
           IsMissing(toClient[k]) /\ Apart(toClient[k], toClient[1])
    BY <2>1, <2>3 DEF AskedParts, Answers
  <2>7. \A j, k \in 1..Len(toClient') : j # k => j + 1 # k + 1
    OBVIOUS
  <2>8. \A j, k \in 1..Len(toClient') :
            j # k /\ toClient'[j].op \in Answers /\ toClient'[k].op \in Answers
              => Apart(toClient'[j], toClient'[k])
    BY <2>1, <2>3, <2>7 DEF AskedParts
  <2>9. QED
    BY <2>1, <2>2, <2>3, <2>4, <2>5, <2>6, <2>8 DEF AskedParts, IsMissing
<1>13. CASE TakesDialogNew \/ TakesMessage
  <2>1. SUFFICES ASSUME AskedParts, phase = "waiting" PROVE AskedParts'
    BY <1>a, <1>b, <1>d
  <2>2. PICK op : Takes(op)
    BY <1>13 DEF TakesDialogNew, TakesMessage
  <2>3. UNCHANGED <<toBridge, listed, landed>>
    BY <1>13 DEF TakesDialogNew, TakesMessage
  <2>4. \A k \in 1..Len(toClient') : k + 1 \in 1..Len(toClient) /\ toClient'[k] = toClient[k + 1]
    BY <2>2, TakesHead
  <2>5. \A j, k \in 1..Len(toClient') : j # k => j + 1 # k + 1
    OBVIOUS
  <2>6. QED
    BY <2>1, <2>3, <2>4, <2>5 DEF AskedParts, IsMissing
<1>14. CASE TimePasses
  BY <1>14, <1>c DEF TimePasses
<1>15. CASE BootstrapReturns
  BY <1>15, <1>b DEF BootstrapReturns, SeedWithConfig
<1>16. ASSUME NEW p \in Peer, OpensChat(p) PROVE AskedInv'
  BY <1>16, <1>b DEF OpensChat
<1>17. QED
  BY <1>1, <1>2, <1>3, <1>5, <1>6, <1>7, <1>9, <1>10, <1>11, <1>12, <1>13, <1>14, <1>15, <1>16
     DEF Next, Bridge, Client, Serves

LEMMA StepCount ==
  ASSUME TypeOK, CallbackInv, AskedInv, CountInv, [Next]_vars
  PROVE  CountInv'
<1> USE DEF storeVars, bridgeVars, linkVars, bootVars, cacheVars, uiVars, ghosts
<1>a. ASSUME UNCHANGED <<phase, gotSessions, listed, landed, pending>> PROVE CountInv'
  BY <1>a DEF CountInv
<1>b. ASSUME phase' # "waiting" PROVE CountInv'
  BY <1>b DEF CountInv
<1>1. CASE UNCHANGED vars
  BY <1>1, <1>a DEF vars
<1>2. ASSUME NEW p \in Peer, NewSession(p) \/ \E author \in {"self", "peer"} : RowArrives(p, author)
      PROVE  CountInv'
  BY <1>2, <1>a DEF NewSession, RowArrives
<1>3. CASE Serves
  BY <1>3, <1>a DEF Serves, ServesAuth, ServesSessions, ServesHistory, Served
<1>4. ASSUME NEW p \in Peer, Pushes(p) \/ Announces(p) \/ OpensChat(p) PROVE CountInv'
  BY <1>4, <1>a DEF Pushes, Announces, OpensChat
<1>5. CASE Connected \/ Disconnected
  BY <1>5, <1>a DEF Connected, Disconnected
<1>6. CASE TakesSelf \/ TakesDialogNew \/ TakesMessage
  BY <1>6, <1>a DEF TakesSelf, TakesDialogNew, TakesMessage
<1>7. CASE TakesSessions
  <2>1. PICK L \in SUBSET Peer, n \in Nat :
          \E order \in [1..n -> L], s \in [1..n -> RequestFrame] : AsksFor(L, n, order, s)
    BY <1>7, TakesSessionsOf
  <2>2. listed' \ landed' = L /\ Cardinality(L) <= pending' /\ gotSessions' = TRUE
    BY <2>1 DEF AsksFor
  <2>3. QED
    BY <2>2 DEF CountInv
<1>8. CASE TakesHistory
  <2> DEFINE p == toClient[1].peer
  <2>1. CASE phase # "waiting"
    <3>1. phase' = phase
      BY <1>8, TakesHistoryOf
    <3>2. QED
      BY <1>b, <2>1, <3>1
  <2>2. CASE phase = "waiting"
    <3>1. /\ landed' = landed \cup {p} /\ pending' = IF pending > 0 THEN pending - 1 ELSE 0
          /\ UNCHANGED <<listed, gotSessions>> /\ toClient[1].op = "history"
      BY <1>8, TakesHistoryOf
    <3>2. 1 \in 1..Len(toClient)
      BY <1>8, TakesHead DEF TakesHistory
    <3>3. p \in listed \ landed
      BY <2>2, <3>1, <3>2 DEF AskedInv, IsMissing
    <3>4. gotSessions /\ Cardinality(listed \ landed) <= pending
      BY <2>2, <3>3 DEF CountInv
    <3>5. listed' \ landed' = (listed \ landed) \ {p}
      BY <3>1
    <3>6. IsFiniteSet(listed \ landed)
      BY ConstantsAssumption, FS_Subset DEF TypeOK, SeederTypeOK
    <3>7. /\ Cardinality(listed \ landed) \in Nat
          /\ Cardinality(listed' \ landed') = Cardinality(listed \ landed) - 1
      <4>1. \A S, x : IsFiniteSet(S) /\ x \in S => Cardinality(S \ {x}) = Cardinality(S) - 1
        BY FS_RemoveElement
      <4>2. Cardinality((listed \ landed) \ {p}) = Cardinality(listed \ landed) - 1
        BY <3>3, <3>6, <4>1
      <4>3. QED
        BY <3>5, <3>6, <4>2, FS_CardinalityType
    <3>8. Cardinality(listed \ landed) # 0
      BY <3>3, <3>6, FS_EmptySet
    <3>9. Cardinality(listed' \ landed') <= pending'
      BY <3>1, <3>4, <3>7, <3>8 DEF TypeOK, GatewayTypeOK
    <3>10. QED
      BY <3>1, <3>4, <3>9 DEF CountInv
  <2>3. QED
    BY <2>1, <2>2
<1>9. CASE TimePasses
  BY <1>9, <1>a DEF TimePasses
<1>10. CASE BootstrapReturns
  BY <1>10, <1>b DEF BootstrapReturns, SeedWithConfig
<1>11. QED
  BY <1>1, <1>2, <1>3, <1>4, <1>5, <1>6, <1>7, <1>8, <1>9, <1>10 DEF Next, Bridge, Client, Serves

-----------------------------------------------------------------------------
(* The cache and the watermarks.                                           *)

Asks(f, p) == f.op = "history" /\ f.peer = p

Brings(f, p, i) ==
    \/ f.op = "message.new" /\ f.peer = p /\ f.row = i
    \/ f.op \in {"history", "dialog.new"} /\ f.peer = p /\ i <= f.top
    \/ f.op = "sessions" /\ p \in f.peers

LEMMA BringsIs ==
  ASSUME NEW f \in ToClientFrame, NEW p, NEW i
  PROVE  Brings(f, p, i) <=>
           CASE f.op = "message.new" -> f.peer = p /\ f.row = i
             [] f.op \in {"history", "dialog.new"} -> f.peer = p /\ i <= f.top
             [] f.op = "sessions" -> p \in f.peers
             [] OTHER -> FALSE
<1>1. f.op \in {"self", "sessions", "history", "message.new", "dialog.new"}
  BY FrameFields
<1>2. CASE f.op = "message.new"
  BY <1>2 DEF Brings
<1>3. CASE f.op \in {"history", "dialog.new"}
  BY <1>3 DEF Brings
<1>4. CASE f.op = "sessions"
  BY <1>4 DEF Brings
<1>5. CASE f.op = "self"
  BY <1>5 DEF Brings
<1>6. QED
  BY <1>1, <1>2, <1>3, <1>4, <1>5

LEMMA OnItsWayIs ==
  ASSUME TypeOK, NEW p, NEW i
  PROVE  OnItsWay(p, i) <=> \/ \E k \in 1..Len(toBridge) : Asks(toBridge[k], p)
                            \/ \E k \in 1..Len(toClient) : Brings(toClient[k], p, i)
<1>1. /\ DOMAIN toBridge = 1..Len(toBridge) /\ DOMAIN toClient = 1..Len(toClient)
      /\ \A k \in 1..Len(toClient) : toClient[k] \in ToClientFrame
  BY QueueTypes
<1>2. QED
  BY <1>1, BringsIs DEF OnItsWay, Asks

LEMMA OnItsWayNext ==
  ASSUME TypeOK', NEW p, NEW i
  PROVE  OnItsWay(p, i)' <=> \/ \E k \in 1..Len(toBridge') : Asks(toBridge'[k], p)
                             \/ \E k \in 1..Len(toClient') : Brings(toClient'[k], p, i)
<1>1. toBridge' \in Seq(RequestFrame) /\ toClient' \in Seq(ToClientFrame)
  BY DEF TypeOK, LinkTypeOK, ToClientFrame
<1>2. /\ DOMAIN toBridge' = 1..Len(toBridge') /\ DOMAIN toClient' = 1..Len(toClient')
      /\ \A k \in 1..Len(toClient') : toClient'[k] \in ToClientFrame
  BY <1>1, LenProperties, ElementOfSeq
<1>3. QED
  BY <1>2, BringsIs DEF OnItsWay, Asks

LEMMA StepCache ==
  ASSUME TypeOK, TypeOK', LinkInv, RowsInv, CallbackInv, CacheKeepsUp, [Next]_vars
  PROVE  CacheKeepsUp'
<1> USE DEF storeVars, bridgeVars, linkVars, bootVars, cacheVars, uiVars, ghosts
<1>0. /\ toBridge \in Seq(RequestFrame) /\ Len(toBridge) \in Nat
      /\ toClient \in Seq(ToClientFrame) /\ Len(toClient) \in Nat
      /\ \A k \in 1..Len(toBridge) : toBridge[k] \in RequestFrame
      /\ \A k \in 1..Len(toClient) : toClient[k] \in ToClientFrame
  BY QueueTypes
<1>a. /\ phase' # "failed" => phase # "failed"
      /\ \A p \in Peer : Top(p) \in Nat /\ wm[p] \in Nat /\ wm'[p] \in Nat
                         /\ excused[p] \in Nat /\ excused'[p] \in Nat /\ wm[p] <= Top(p)
      /\ watched \subseteq Peer /\ watched' \subseteq Peer
  <2>1. phase' # "failed" => phase # "failed"
    BY DEF Next, vars, NewSession, RowArrives, Bridge, ServesAuth, ServesSessions, ServesHistory, Served,
           Pushes, Announces, Connected, Disconnected, Client, TakesSelf, TakesSessions, TakesHistory,
           TakesDialogNew, TakesMessage, TimePasses, BootstrapReturns, SeedWithConfig, OpensChat
  <2>2. QED
    BY <2>1, TopIsNat DEF TypeOK, BridgeTypeOK, SeederTypeOK, RowsInv, StoredInv
<1> DEFINE Way(p, i) == \/ \E k \in 1..Len(toBridge) : Asks(toBridge[k], p)
                        \/ \E k \in 1..Len(toClient) : Brings(toClient[k], p, i)
           Way1(p, i) == \/ \E k \in 1..Len(toBridge') : Asks(toBridge'[k], p)
                         \/ \E k \in 1..Len(toClient') : Brings(toClient'[k], p, i)
           Kept(p, i) == i \in history[p] \/ i <= excused[p] \/ Way(p, i)
           Kept1(p, i) == i \in history'[p] \/ i <= excused'[p] \/ Way1(p, i)
<1>b. CacheKeepsUp <=> (phase # "failed" => \A p \in watched : \A i \in 1..wm[p] : Kept(p, i))
  BY OnItsWayIs DEF CacheKeepsUp
<1>c. CacheKeepsUp' <=> (phase' # "failed" => \A p \in watched' : \A i \in 1..wm'[p] : Kept1(p, i))
  BY OnItsWayNext DEF CacheKeepsUp
<1>d. SUFFICES ASSUME phase' # "failed", NEW p \in watched', NEW i \in 1..wm'[p] PROVE Kept1(p, i)
  BY <1>c
<1>e. p \in watched /\ i \in 1..wm[p] => Kept(p, i)
  BY <1>a, <1>b, <1>d
<1>f. p \in Peer /\ i \in Nat /\ i >= 1 /\ i <= wm'[p]
  BY <1>a
<1>g. ASSUME UNCHANGED <<watched, wm, history, excused, toBridge, toClient>> PROVE Kept1(p, i)
  BY <1>e, <1>g
<1>h. ASSUME LinkEnds PROVE Kept1(p, i)
  BY <1>h DEF LinkEnds
<1>1. CASE UNCHANGED vars
  BY <1>1, <1>g DEF vars
<1>2. ASSUME NEW q \in Peer, NewSession(q) \/ \E author \in {"self", "peer"} : RowArrives(q, author)
      PROVE  Kept1(p, i)
  BY <1>2, <1>g DEF NewSession, RowArrives
<1>3. CASE Serves
  <2>1. PICK g \in AnswerFrame : ServesAs(g)
    BY <1>3, ServesAnswers
  <2>2. /\ UNCHANGED <<history, excused, store>> /\ toBridge # <<>> /\ toBridge' = Tail(toBridge)
        /\ toClient' = Append(toClient, g) /\ g \in ToClientFrame
    BY <2>1 DEF ServesAs, ToClientFrame
  <2>3. /\ Head(toBridge) = toBridge[1] /\ 1 \in 1..Len(toBridge)
        /\ \A k \in 1..Len(toBridge) : k # 1 => k - 1 \in 1..Len(toBridge') /\ toBridge'[k - 1] = toBridge[k]
    BY <1>0, <2>2, TailAt
  <2>4. /\ \A k \in 1..Len(toClient) : k \in 1..Len(toClient') /\ toClient'[k] = toClient[k]
        /\ Len(toClient) + 1 \in 1..Len(toClient') /\ toClient'[Len(toClient) + 1] = g
    BY <1>0, <2>2, AppendAt
  <2>5. ASSUME p \in watched, wm'[p] = wm[p] PROVE Kept1(p, i)
    <3>1. CASE i \in history[p] \/ i <= excused[p]
      BY <2>2, <3>1
    <3>2. CASE \E k \in 1..Len(toClient) : Brings(toClient[k], p, i)
      BY <2>4, <3>2
    <3>3. ASSUME NEW k \in 1..Len(toBridge), Asks(toBridge[k], p) PROVE Kept1(p, i)
      <4>1. CASE k = 1
        <5>1. g.op = "history" /\ g.peer = p /\ g.top = Top(p)
          BY <2>1, <2>3, <3>3, <4>1 DEF Asks, ServesAs
        <5>2. i <= Top(p)
          BY <1>a, <1>f, <2>5
        <5>3. Brings(g, p, i)
          BY <5>1, <5>2 DEF Brings
        <5>4. QED
          BY <2>4, <5>3
      <4>2. CASE k # 1
        BY <2>3, <3>3, <4>2
      <4>3. QED
        BY <4>1, <4>2
    <3>4. QED
      BY <1>e, <2>5, <3>1, <3>2, <3>3
  <2>6. CASE ServesAuth \/ \E ok \in BOOLEAN : ServesHistory(ok)
    BY <2>5, <2>6 DEF ServesAuth, ServesHistory
  <2>7. CASE ServesSessions
    <3>1. CASE p \in born
      <4>1. toClient'[Len(toClient) + 1] = [op |-> "sessions", peers |-> born]
        BY <1>0, <2>7, AppendProperties, <2>2 DEF ServesSessions
      <4>2. Brings(toClient'[Len(toClient) + 1], p, i)
        BY <3>1, <4>1 DEF Brings
      <4>3. QED
        BY <2>4, <4>2
    <3>2. CASE p \notin born
      <4>1. p \in watched /\ wm'[p] = wm[p]
        BY <1>f, <2>7, <3>2 DEF ServesSessions
      <4>2. QED
        BY <2>5, <4>1
    <3>3. QED
      BY <3>1, <3>2
  <2>8. QED
    BY <1>3, <2>6, <2>7 DEF Serves
<1>4. ASSUME NEW g \in ToClientFrame, toClient' = Append(toClient, g),
             UNCHANGED <<toBridge, history, excused>>,
             (p \in watched /\ i \in 1..wm[p]) \/ Brings(g, p, i)
      PROVE  Kept1(p, i)
  <2>1. /\ \A k \in 1..Len(toClient) : k \in 1..Len(toClient') /\ toClient'[k] = toClient[k]
        /\ Len(toClient) + 1 \in 1..Len(toClient') /\ toClient'[Len(toClient) + 1] = g
    BY <1>0, <1>4, AppendAt
  <2>2. CASE Brings(g, p, i)
    BY <2>1, <2>2
  <2>3. CASE p \in watched /\ i \in 1..wm[p]
    BY <1>4, <1>e, <2>1, <2>3
  <2>4. QED
    BY <1>4, <2>2, <2>3
<1>5. ASSUME NEW q \in Peer, Pushes(q) PROVE Kept1(p, i)
  <2> DEFINE g == [op |-> "message.new", peer |-> q, row |-> wm[q] + 1]
  <2>1. /\ wm' = [wm EXCEPT ![q] = wm[q] + 1] /\ wm'[q] = wm[q] + 1 /\ wm[q] \in Nat
        /\ watched' = watched
    BY <1>5, <1>a DEF Pushes, TypeOK, BridgeTypeOK
  <2>2. toClient' = Append(toClient, g) /\ UNCHANGED <<toBridge, history, excused>>
    BY <1>5, <2>1 DEF Pushes
  <2>3. g \in ToClientFrame
    BY <2>1 DEF ToClientFrame, UpdateFrame
  <2>4. i \in 1..wm[p] \/ (p = q /\ i = wm[q] + 1)
    <3>1. CASE p = q
      BY <1>f, <2>1, <3>1
    <3>2. CASE p # q
      BY <1>f, <2>1, <3>2 DEF TypeOK, BridgeTypeOK
    <3>3. QED
      BY <3>1, <3>2
  <2>5. p = q /\ i = wm[q] + 1 => Brings(g, p, i)
    BY DEF Brings
  <2> HIDE DEF g
  <2>6. (p \in watched /\ i \in 1..wm[p]) \/ Brings(g, p, i)
    BY <2>1, <2>4, <2>5
  <2>7. QED
    BY <1>4, <2>2, <2>3, <2>6
<1>6. ASSUME NEW q \in Peer, Announces(q) PROVE Kept1(p, i)
  <2> DEFINE g == [op |-> "dialog.new", peer |-> q, top |-> Top(q)]
  <2>1. toClient' = Append(toClient, g) /\ UNCHANGED <<toBridge, history, excused>>
    BY <1>6 DEF Announces
  <2>2. g \in ToClientFrame
    BY <1>a DEF ToClientFrame, UpdateFrame
  <2>3. CASE p = q
    <3>1. i <= Top(q)
      BY <1>6, <1>f, <2>3 DEF Announces, TypeOK, BridgeTypeOK
    <3>2. Brings(g, p, i)
      BY <2>3, <3>1 DEF Brings
    <3> HIDE DEF g
    <3>3. QED
      BY <1>4, <2>1, <2>2, <3>2
  <2>4. CASE p # q
    <3>1. p \in watched /\ wm'[p] = wm[p]
      BY <1>6, <1>f, <2>4 DEF Announces, TypeOK, BridgeTypeOK
    <3>2. i \in 1..wm[p]
      BY <3>1
    <3> HIDE DEF g
    <3>3. QED
      BY <1>4, <2>1, <2>2, <3>1, <3>2
  <2>5. QED
    BY <2>3, <2>4
<1>7. CASE Connected
  BY <1>7 DEF Connected, LinkInv
<1>8. CASE Disconnected
  BY <1>8, <1>h DEF Disconnected
<1>9. ASSUME NEW op, Takes(op),
             \A k \in 1..Len(toBridge) : k \in 1..Len(toBridge') /\ toBridge'[k] = toBridge[k],
             i \in history[p] => i \in history'[p] \/ i <= excused'[p],
             i <= excused[p] => i <= excused'[p],
             Brings(toClient[1], p, i) => Kept1(p, i)
      PROVE  Kept1(p, i)
  <2>1. UNCHANGED <<watched, wm>>
    BY <1>9, TakesHead
  <2>2. \A k \in 1..Len(toClient) : k # 1 => k - 1 \in 1..Len(toClient') /\ toClient'[k - 1] = toClient[k]
    BY <1>9, TakesHead
  <2>3. Kept(p, i)
    BY <1>e, <2>1
  <2>4. CASE i \in history[p] \/ i <= excused[p]
    BY <1>9, <2>4
  <2>5. CASE \E k \in 1..Len(toBridge) : Asks(toBridge[k], p)
    BY <1>9, <2>5
  <2>6. ASSUME NEW k \in 1..Len(toClient), Brings(toClient[k], p, i) PROVE Kept1(p, i)
    <3>1. CASE k = 1
      BY <1>9, <2>6, <3>1
    <3>2. CASE k # 1
      BY <2>2, <2>6, <3>2
    <3>3. QED
      BY <3>1, <3>2
  <2>7. QED
    BY <2>3, <2>4, <2>5, <2>6
<1>10. CASE TakesSelf
  <2> DEFINE e == [op |-> "sessions.list", id |-> requestId + 1]
  <2>1. Takes("self") /\ toBridge' = Append(toBridge, e) /\ UNCHANGED <<history, excused>>
    BY <1>10 DEF TakesSelf
  <2>2. e \in RequestFrame
    BY DEF RequestFrame, TypeOK, GatewayTypeOK
  <2> HIDE DEF e
  <2>3. \A k \in 1..Len(toBridge) : k \in 1..Len(toBridge') /\ toBridge'[k] = toBridge[k]
    BY <1>0, <2>1, <2>2, AppendAt
  <2>4. ~Brings(toClient[1], p, i)
    BY <2>1, TakesHead DEF Brings
  <2> HIDE DEF Kept1, Way1
  <2>5. QED
    BY <1>9, <2>1, <2>3, <2>4
<1>11. CASE TakesSessions
  <2>1. Takes("sessions")
    BY <1>11 DEF TakesSessions
  <2>2. PICK L \in SUBSET Peer, n \in Nat :
          \E order \in [1..n -> L], s \in [1..n -> RequestFrame] : AsksFor(L, n, order, s)
    BY <1>11, TakesSessionsOf
  <2>3. PICK order \in [1..n -> L], s \in [1..n -> RequestFrame] : AsksFor(L, n, order, s)
    BY <2>2
  <2>4. /\ toBridge' = toBridge \o s /\ L = toClient[1].peers /\ toClient[1].op = "sessions"
        /\ \A j \in 1..n : s[j] = History(requestId + j, order[j])
        /\ \A q \in L : \E j \in 1..n : order[j] = q
        /\ UNCHANGED <<history, excused>>
    BY <2>3 DEF AsksFor
  <2>5. /\ \A k \in 1..Len(toBridge) : k \in 1..Len(toBridge') /\ toBridge'[k] = toBridge[k]
        /\ \A j \in 1..n : Len(toBridge) + j \in 1..Len(toBridge') /\ toBridge'[Len(toBridge) + j] = s[j]
    BY <1>0, <2>4, ConcatAt
  <2>6. Brings(toClient[1], p, i) => Kept1(p, i)
    <3>1. SUFFICES ASSUME Brings(toClient[1], p, i) PROVE \E k \in 1..Len(toBridge') : Asks(toBridge'[k], p)
      OBVIOUS
    <3>2. PICK j \in 1..n : order[j] = p
      BY <2>4, <3>1 DEF Brings
    <3>3. Asks(toBridge'[Len(toBridge) + j], p)
      BY <2>4, <2>5, <3>2 DEF Asks, History
    <3>4. QED
      BY <2>5, <3>3
  <2> HIDE DEF Kept1, Way1
  <2>7. QED
    BY <1>9, <2>1, <2>4, <2>5, <2>6
<1>12. CASE TakesHistory
  <2> DEFINE q == toClient[1].peer
             top == toClient[1].top
  <2>1. Takes("history")
    BY <1>12 DEF TakesHistory
  <2>2. /\ q \in Peer /\ top \in Nat /\ toClient[1].op = "history" /\ toBridge' = toBridge
        /\ history' = [history EXCEPT ![q] = IF toClient[1].ok THEN 1..top ELSE {}]
        /\ excused' = IF toClient[1].ok THEN excused ELSE [excused EXCEPT ![q] = Larger(@, top)]
    BY <1>12, TakesHistoryOf
  <2>3. history \in [Peer -> SUBSET Nat] /\ excused \in [Peer -> Nat]
    BY DEF TypeOK, GatewayTypeOK, SeederTypeOK
  <2>4. p = q /\ i <= top => i \in history'[p] \/ i <= excused'[p]
    BY <1>f, <2>2, <2>3 DEF Larger
  <2>5. p # q => history'[p] = history[p] /\ excused'[p] = excused[p]
    BY <1>f, <2>2, <2>3
  <2>6. i <= excused[p] => i <= excused'[p]
    BY <1>f, <2>2, <2>3 DEF Larger
  <2>7. i \in history[p] => i \in history'[p] \/ i <= excused'[p]
    <3>1. 1 \in 1..Len(toClient)
      BY <2>1, TakesHead
    <3>2. p = q /\ i \in history[p] => i <= top
      BY <2>2, <3>1 DEF RowsInv, OrderInv
    <3>3. QED
      BY <2>4, <2>5, <3>2
  <2>8. Brings(toClient[1], p, i) => Kept1(p, i)
    BY <2>2, <2>4 DEF Brings
  <2> HIDE DEF Kept1, Way1
  <2>9. QED
    BY <1>9, <2>1, <2>2, <2>6, <2>7, <2>8
<1>13. CASE TakesDialogNew
  <2>1. Takes("dialog.new")
    BY <1>13 DEF TakesDialogNew
  <2>2. Head(toClient) = toClient[1] /\ toClient[1] \in ToClientFrame /\ toClient[1].op = "dialog.new"
    BY <2>1, TakesHead
  <2>3. /\ toClient[1].peer \in Peer /\ toClient[1].top \in Nat /\ UNCHANGED <<toBridge, history>>
        /\ excused' = [excused EXCEPT ![toClient[1].peer] = Larger(@, toClient[1].top)]
    BY <1>13, <2>2, FrameFields DEF TakesDialogNew
  <2>4. excused \in [Peer -> Nat]
    BY DEF TypeOK, SeederTypeOK
  <2>5. /\ i <= excused[p] => i <= excused'[p]
        /\ p = toClient[1].peer /\ i <= toClient[1].top => i <= excused'[p]
    BY <1>f, <2>3, <2>4 DEF Larger
  <2>6. Brings(toClient[1], p, i) => Kept1(p, i)
    BY <2>2, <2>5 DEF Brings
  <2> HIDE DEF Kept1, Way1
  <2>7. QED
    BY <1>9, <2>1, <2>3, <2>5, <2>6
<1>14. CASE TakesMessage
  <2>1. Takes("message.new")
    BY <1>14 DEF TakesMessage
  <2>2. Head(toClient) = toClient[1] /\ toClient[1] \in ToClientFrame /\ toClient[1].op = "message.new"
    BY <2>1, TakesHead
  <2>3. /\ toClient[1].peer \in Peer /\ UNCHANGED <<toBridge, excused>>
        /\ history' = [history EXCEPT ![toClient[1].peer] = @ \cup {toClient[1].row}]
    BY <1>14, <2>2, FrameFields DEF TakesMessage
  <2>4. history \in [Peer -> SUBSET Nat]
    BY DEF TypeOK, GatewayTypeOK
  <2>5. /\ i \in history[p] => i \in history'[p]
        /\ p = toClient[1].peer /\ i = toClient[1].row => i \in history'[p]
    BY <1>f, <2>3, <2>4
  <2>6. Brings(toClient[1], p, i) => Kept1(p, i)
    BY <2>2, <2>5 DEF Brings
  <2> HIDE DEF Kept1, Way1
  <2>7. QED
    BY <1>9, <2>1, <2>3, <2>5, <2>6
<1>15. CASE TimePasses
  BY <1>15, <1>g DEF TimePasses
<1>16. CASE BootstrapReturns
  BY <1>16, <1>d, <1>g DEF BootstrapReturns, SeedWithConfig
<1>17. ASSUME NEW q \in Peer, OpensChat(q) PROVE Kept1(p, i)
  <2>1. UNCHANGED <<watched, wm, history, excused, toClient>>
    BY <1>17 DEF OpensChat
  <2>2. \A k \in 1..Len(toBridge) : k \in 1..Len(toBridge') /\ toBridge'[k] = toBridge[k]
    <3>1. requestId + 1 \in Nat
      BY DEF TypeOK, GatewayTypeOK
    <3>2. History(requestId + 1, q) \in RequestFrame
      BY <3>1 DEF History, RequestFrame
    <3>3. toBridge' = toBridge \/ toBridge' = Append(toBridge, History(requestId + 1, q))
      BY <1>17 DEF OpensChat
    <3>4. QED
      BY <1>0, <3>2, <3>3, AppendAt
  <2>3. QED
    BY <1>e, <2>1, <2>2
<1>18. QED
  BY <1>1, <1>2, <1>3, <1>5, <1>6, <1>7, <1>8, <1>10, <1>11, <1>12, <1>13, <1>14, <1>15, <1>16, <1>17
     DEF Next, Bridge, Client, Serves

-----------------------------------------------------------------------------
(* What is cached is shown.                                                *)

LEMMA StepShown ==
  ASSUME TypeOK, TypeOK', RowsInv, RowsInv', CallbackInv, CachedIsShown, [Next]_vars
  PROVE  CachedIsShown'
<1> USE DEF storeVars, bridgeVars, linkVars, bootVars, cacheVars, uiVars, ghosts
<1>0. /\ history \in [Peer -> SUBSET Nat] /\ shown \in [Peer -> SUBSET Nat]
      /\ \A p \in Peer : store[p] \in Seq({"self", "peer"}) /\ history[p] \subseteq 1..Top(p)
                         /\ DOMAIN store[p] = 1..Top(p) /\ Top(p) \in Nat
  BY TopIsNat, LenProperties DEF TypeOK, GatewayTypeOK, SeederTypeOK, RowsInv, StoredInv, Top
<1>a. SUFFICES ASSUME phase' = "seeded", NEW p \in Peer \ late', NEW i \in history'[p] \cap PeerRows(p)'
               PROVE  i \in shown'[p]
  BY DEF CachedIsShown
<1>b. ASSUME phase = "seeded", p \notin late, i \in history[p], i \in PeerRows(p) PROVE i \in shown[p]
  BY <1>b DEF CachedIsShown
<1>c. ASSUME UNCHANGED <<phase, late, history, store, shown>> PROVE i \in shown'[p]
  BY <1>a, <1>b, <1>c DEF PeerRows
<1>1. CASE UNCHANGED vars
  BY <1>1, <1>c DEF vars
<1>2. ASSUME NEW q \in Peer, NewSession(q) PROVE i \in shown'[p]
  BY <1>2, <1>c DEF NewSession
<1>3. ASSUME NEW q \in Peer, NEW author \in {"self", "peer"}, RowArrives(q, author)
      PROVE  i \in shown'[p]
  <2>1. UNCHANGED <<phase, late, history, shown>>
    BY <1>3 DEF RowArrives
  <2>2. i \in 1..Top(p)
    BY <1>0, <2>1
  <2>3. store'[p][i] = store[p][i]
    <3>1. CASE p = q
      <4>1. store'[p] = Append(store[p], author)
        BY <1>3, <3>1 DEF RowArrives, TypeOK, BridgeTypeOK
      <4>2. QED
        BY <1>0, <2>2, <4>1, AppendProperties DEF Top
    <3>2. CASE p # q
      BY <1>3, <3>2 DEF RowArrives, TypeOK, BridgeTypeOK
    <3>3. QED
      BY <3>1, <3>2
  <2>4. i \in PeerRows(p)
    BY <1>0, <2>2, <2>3 DEF PeerRows
  <2>5. QED
    BY <1>a, <1>b, <2>1, <2>4
<1>4. CASE Serves
  <2>1. PICK g \in AnswerFrame : ServesAs(g)
    BY <1>4, ServesAnswers
  <2>2. QED
    BY <1>c, <2>1 DEF ServesAs
<1>5. ASSUME NEW q \in Peer, Pushes(q) \/ Announces(q) PROVE i \in shown'[p]
  BY <1>5, <1>c DEF Pushes, Announces
<1>6. CASE Connected \/ Disconnected
  BY <1>6, <1>c DEF Connected, Disconnected
<1>7. CASE TakesSelf \/ TakesDialogNew
  <2>1. PICK op : Takes(op)
    BY <1>7 DEF TakesSelf, TakesDialogNew
  <2>2. QED
    BY <1>7, <1>c, <2>1 DEF TakesSelf, TakesDialogNew, Takes
<1>8. CASE TakesSessions
  <2>1. store' = store
    BY <1>8, TakesHead DEF TakesSessions
  <2>2. PICK L \in SUBSET Peer, n \in Nat :
          \E order \in [1..n -> L], s \in [1..n -> RequestFrame] : AsksFor(L, n, order, s)
    BY <1>8, TakesSessionsOf
  <2>3. UNCHANGED <<phase, late, history, shown>>
    BY <2>2 DEF AsksFor
  <2>4. QED
    BY <1>c, <2>1, <2>3
<1>9. CASE TakesHistory
  <2> DEFINE q == toClient[1].peer
  <2>1. store' = store
    BY <1>9, TakesHead DEF TakesHistory
  <2>2. /\ q \in Peer /\ UNCHANGED <<phase, shown>>
        /\ history' = [history EXCEPT ![q] = IF toClient[1].ok THEN 1..toClient[1].top ELSE {}]
        /\ late' = IF phase = "seeded" THEN late \cup {q} ELSE late
    BY <1>9, TakesHistoryOf
  <2>3. p # q
    BY <1>a, <2>2
  <2>4. history'[p] = history[p] /\ p \notin late
    BY <1>0, <1>a, <2>2, <2>3
  <2>5. i \in PeerRows(p)
    BY <1>a, <2>1 DEF PeerRows
  <2>6. QED
    BY <1>a, <1>b, <2>2, <2>4, <2>5
<1>10. CASE TakesMessage
  <2> DEFINE q == toClient[1].peer
             row == toClient[1].row
  <2>1. /\ store' = store /\ Head(toClient) = toClient[1] /\ toClient[1] \in ToClientFrame
        /\ toClient[1].op = "message.new"
    BY <1>10, TakesHead DEF TakesMessage
  <2>2. /\ q \in Peer /\ UNCHANGED <<phase, late>> /\ RowAppears(q, row)
        /\ history' = [history EXCEPT ![q] = @ \cup {row}]
    BY <1>10, <2>1, FrameFields DEF TakesMessage
  <2>3. i \in PeerRows(p)
    BY <1>a, <2>1 DEF PeerRows
  <2>4. \A r \in Peer : shown[r] \subseteq shown'[r]
    BY <1>0, <2>2 DEF RowAppears
  <2>5. CASE p = q /\ i = row
    <3>1. store[q][row] = "peer"
      BY <2>3, <2>5 DEF PeerRows
    <3>2. shown' = [shown EXCEPT ![q] = @ \cup {row}]
      BY <1>a, <2>2, <3>1 DEF RowAppears
    <3>3. QED
      BY <1>0, <2>2, <2>5, <3>2
  <2>6. CASE ~(p = q /\ i = row)
    <3>1. i \in history[p]
      BY <1>0, <1>a, <2>2, <2>6
    <3>2. QED
      BY <1>a, <1>b, <2>2, <2>3, <2>4, <3>1
  <2>7. QED
    BY <2>5, <2>6
<1>11. CASE TimePasses
  BY <1>11, <1>c DEF TimePasses
<1>12. CASE BootstrapReturns
  BY <1>12, <1>a DEF BootstrapReturns, SeedWithConfig, Seeds
<1>13. ASSUME NEW q \in Peer, OpensChat(q) PROVE i \in shown'[p]
  <2>1. UNCHANGED <<phase, late, history, store>>
    BY <1>13 DEF OpensChat
  <2>2. shown[p] \subseteq shown'[p]
    BY <1>0, <1>13 DEF OpensChat
  <2>3. QED
    BY <1>a, <1>b, <2>1, <2>2 DEF PeerRows
<1>14. QED
  BY <1>1, <1>2, <1>3, <1>4, <1>5, <1>6, <1>7, <1>8, <1>9, <1>10, <1>11, <1>12, <1>13
     DEF Next, Bridge, Client, Serves

-----------------------------------------------------------------------------
(* The theorems.                                                           *)

LEMMA StepInv == Inv /\ [Next]_vars => Inv'
<1> SUFFICES ASSUME Inv, [Next]_vars PROVE Inv'
  OBVIOUS
<1>1. /\ TypeOK /\ LinkInv /\ RowsInv /\ CallbackInv /\ AskedInv /\ CountInv
      /\ CacheKeepsUp /\ CachedIsShown
  BY DEF Inv
<1>2. TypeOK'
  BY <1>1, StepType
<1>3. LinkInv' /\ RowsInv' /\ CallbackInv' /\ AskedInv' /\ CountInv'
  BY <1>1, StepLink, StepRows, StepCallback, StepAsked, StepCount
<1>4. CacheKeepsUp' /\ CachedIsShown'
  BY <1>1, <1>2, <1>3, StepCache, StepShown
<1>5. QED
  BY <1>2, <1>3, <1>4 DEF Inv

LEMMA InvHolds == Spec => []Inv
BY InitInv, StepInv, PTL DEF Spec

\* What is known of the connection, the caches, the requests and the chat
\* list of the gateway (WsGateway.cpp) and the seeder stays well formed for
\* any number of sessions, rows and connections, and _pendingHistories is
\* never more than one listing asks for.
THEOREM TypeCorrect == Spec => []TypeOK
<1>1. Inv => TypeOK
  BY DEF Inv
<1>2. QED
  BY <1>1, InvHolds, PTL

\* bootstrapBlocking() (WsGateway.cpp) cannot take _pendingHistories for
\* zero while the history of a listed dialog is missing, whatever was
\* listed, answered and lost with a connection before.
THEOREM PendingCountsMissingHolds == Spec => []PendingCountsMissing
<1>1. Inv => PendingCountsMissing
  <2> SUFFICES ASSUME Inv, phase = "waiting", gotSessions, pending = 0
               PROVE  listed \subseteq landed
    BY DEF PendingCountsMissing
  <2>1. IsFiniteSet(listed \ landed)
    BY ConstantsAssumption, FS_Subset DEF Inv, TypeOK, SeederTypeOK
  <2>2. Cardinality(listed \ landed) \in Nat /\ Cardinality(listed \ landed) <= 0
    BY <2>1, FS_CardinalityType DEF Inv, CountInv
  <2>3. Cardinality(listed \ landed) = 0
    BY <2>2
  <2>4. listed \ landed = {}
    BY <2>1, <2>3, FS_EmptySet
  <2>5. QED
    BY <2>4
<1>2. QED
  BY <1>1, InvHolds, PTL

\* A row that the bridge's watermark has passed is in _history or on its
\* way to it, or the client knows only that it exists, or was answered by
\* an error: pushes and answers that overtake each other (handleUpdate and
\* handleResponse of WsGateway.cpp) never leave a gap.
THEOREM CacheKeepsUpHolds == Spec => []CacheKeepsUp
<1>1. Inv => CacheKeepsUp
  BY DEF Inv
<1>2. QED
  BY <1>1, InvHolds, PTL

\* Once SeedWithConfig() (MockSeeder.cpp) has seeded, what others wrote and
\* _history holds is shown, unless it came with a history that was answered
\* after seeding.
THEOREM CachedIsShownHolds == Spec => []CachedIsShown
<1>1. Inv => CachedIsShown
  BY DEF Inv
<1>2. QED
  BY <1>1, InvHolds, PTL

=============================================================================
