------------------------- MODULE ReplyStreamProofs --------------------------
(***************************************************************************)
(* Proofs about ReplyStream, for any number of turns, deltas, connections  *)
(* and ids.                                                                *)
(***************************************************************************)
EXTENDS ReplyStream, SequenceTheorems, TLAPS

(* What an entry of the loop is going to show. *)
Item(r) == Shows(r.turn, r.what, r.upto)

(* What is shown of a turn is of one that has begun; a delta is one that   *)
(* the agent has given, and more than deltas there is only when it is done. *)
Known(s, at, given) ==
    /\ s.turn \in Turn /\ at[s.turn] # "none"
    /\ s.text = "delta" => s.upto <= given[s.turn]
    /\ s.text # "delta" => at[s.turn] # "run"

KnownInv ==
    /\ \A i \in 1..Len(ready) :
          /\ Known(Item(ready[i]), stage, acc)
          /\ stage[ready[i].turn] \in IF ready[i].what = "delta" THEN {"run", "return"} ELSE {"return"}
    /\ \A i \in 1..Len(wire) : Known(wire[i].show, stage, acc) /\ wire[i].id = reply[wire[i].show.turn]
    /\ \A b \in Id : bubble[b].turn # 0 => Known(bubble[b], stage, acc) /\ b = reply[bubble[b].turn]

(* Of one turn, r comes after s: s is a delta, and r is final or longer.   *)
Before(s, r) ==
    s.turn = r.turn => s.text = "delta" /\ (r.text = "delta" => s.upto < r.upto)

(* From the loop over the wire to the bubble, each turn is in its order.   *)
OrderInv ==
    /\ \A i, j \in 1..Len(ready) : i < j => Before(Item(ready[i]), Item(ready[j]))
    /\ \A i, j \in 1..Len(wire) : i < j => Before(wire[i].show, wire[j].show)
    /\ \A i \in 1..Len(wire) : \A j \in 1..Len(ready) : Before(wire[i].show, Item(ready[j]))
    /\ \A b \in Id : bubble[b].turn # 0 =>
          /\ \A j \in 1..Len(wire) : Before(bubble[b], wire[j].show)
          /\ \A j \in 1..Len(ready) : Before(bubble[b], Item(ready[j]))

(* An id is given once between two starts of the counter. *)
IdsInv ==
    /\ \A t \in Turn : stage[t] # "none" =>
          /\ since[t] <= epoch
          /\ since[t] = epoch => reply[t] <= counter
    /\ \A t, u \in Turn : stage[t] # "none" /\ stage[u] # "none" /\ t # u /\ reply[t] = reply[u] =>
          since[t] # since[u]

Inv == TypeOK /\ KnownInv /\ OrderInv /\ IdsInv

-----------------------------------------------------------------------------
(* Types of the parts.                                                     *)

Task == [turn : Turn, what : {"delta"} \cup Result, upto : 0..MaxDeltas]

LEMMA TypesOfParts ==
  ASSUME TypeOK
  PROVE  /\ ready \in Seq(Task) /\ Len(ready) \in Nat
         /\ \A i \in 1..Len(ready) : ready[i] \in Task /\ Item(ready[i]) \in Bubble
         /\ wire \in Seq(Frame) /\ Len(wire) \in Nat
         /\ \A i \in 1..Len(wire) : wire[i] \in Frame /\ wire[i].show \in Bubble /\ wire[i].id \in Id
<1>1. \A q \in Seq(Task) : Len(q) \in Nat /\ \A i \in 1..Len(q) : q[i] \in Task
  BY LenProperties, ElementOfSeq
<1>2. \A q \in Seq(Frame) : Len(q) \in Nat /\ \A i \in 1..Len(q) : q[i] \in Frame
  BY LenProperties, ElementOfSeq
<1>3. MaxTurns \in Nat /\ MaxDeltas \in Nat
  BY ConstantsAssumption
<1>4. \A r \in Task : Item(r) \in Bubble
  BY <1>3 DEF Task, Item, Shows, Bubble, Turn
<1>5. \A f \in Frame : f.show \in Bubble /\ f.id \in Id
  BY DEF Frame
<1>6. ready \in Seq(Task) /\ wire \in Seq(Frame)
  BY DEF TypeOK, Task
<1>7. QED
  BY <1>1, <1>2, <1>4, <1>5, <1>6

LEMMA ItemFields ==
  \A r : Item(r).turn = r.turn /\ Item(r).text = r.what /\ Item(r).upto = r.upto
BY DEF Item, Shows

(* What Append and Tail do to a queue, entry by entry. *)
LEMMA AppendAt ==
  ASSUME NEW S, NEW q \in Seq(S), NEW e \in S
  PROVE  /\ Append(q, e) \in Seq(S) /\ Len(q) \in Nat /\ Len(Append(q, e)) = Len(q) + 1
         /\ \A i \in 1..Len(Append(q, e)) :
               \/ i \in 1..Len(q) /\ Append(q, e)[i] = q[i]
               \/ i = Len(q) + 1 /\ Append(q, e)[i] = e
<1>1. /\ Append(q, e) \in Seq(S) /\ Len(Append(q, e)) = Len(q) + 1
      /\ \A i \in 1..Len(q) : Append(q, e)[i] = q[i]
      /\ Append(q, e)[Len(q) + 1] = e
  BY AppendProperties
<1>2. Len(q) \in Nat
  BY LenProperties
<1>3. \A i \in 1..(Len(q) + 1) : i \in 1..Len(q) \/ i = Len(q) + 1
  BY <1>2
<1>4. QED
  BY <1>1, <1>2, <1>3

LEMMA TailAt ==
  ASSUME NEW S, NEW q \in Seq(S), q # <<>>
  PROVE  /\ Tail(q) \in Seq(S) /\ Len(q) \in Nat \ {0} /\ Len(Tail(q)) = Len(q) - 1
         /\ Head(q) = q[1] /\ q[1] \in S /\ 1 \in 1..Len(q)
         /\ \A i \in 1..Len(Tail(q)) : i + 1 \in 2..Len(q) /\ i + 1 \in 1..Len(q) /\ Tail(q)[i] = q[i + 1]
<1>1. /\ Head(q) \in S /\ Tail(q) \in Seq(S) /\ Len(Tail(q)) = Len(q) - 1
      /\ \A i \in 1..Len(Tail(q)) : Tail(q)[i] = q[i + 1]
  BY HeadTailProperties
<1>2. Len(q) \in Nat /\ Len(q) # 0
  BY LenProperties, EmptySeq, Zenon
<1>3. Head(q) = q[1]
  OBVIOUS
<1>4. \A n : n \in Nat /\ n # 0 =>
        /\ n \in Nat \ {0} /\ 1 \in 1..n
        /\ \A i \in 1..(n - 1) : i + 1 \in 2..n /\ i + 1 \in 1..n
  OBVIOUS
<1>5. QED
  BY <1>1, <1>2, <1>3, <1>4

(* Two new ids: either the counter has gone on, or it has started over.    *)
LEMMA AllocatesIds ==
  ASSUME TypeOK, Allocates
  PROVE  /\ counter' \in Id /\ counter' \in 0..SynthIds /\ epoch' \in 0..MaxEpochs
         /\ \/ epoch' = epoch /\ counter' > counter
            \/ epoch' = epoch + 1
<1>1. SynthIds \in Nat \ {0} /\ MaxEpochs \in Nat
  BY ConstantsAssumption
<1>2. QED
  BY <1>1 DEF TypeOK, Allocates, NextId, Wraps, Id

-----------------------------------------------------------------------------
LEMMA InitInv ==
  ASSUME Init
  PROVE  Inv
<1>1. /\ SynthIds \in Nat \ {0} /\ MaxTurns \in Nat /\ MaxDeltas \in Nat
      /\ MaxConns \in Nat /\ MaxEpochs \in Nat
  BY ConstantsAssumption
<1>2. \A S : <<>> \in Seq(S)
  BY EmptySeq
<1>3. TypeOK
  <2>1. NoBubble \in Bubble
    BY <1>1 DEF NoBubble, Bubble
  <2>2. counter \in 0..SynthIds /\ epoch \in 0..MaxEpochs
    BY <1>1 DEF Init
  <2>3. /\ conn \in [Turn -> 0..MaxConns] /\ reply \in [Turn -> Id]
        /\ since \in [Turn -> 0..MaxEpochs] /\ acc \in [Turn -> 0..MaxDeltas]
    BY <1>1 DEF Init, Id
  <2>4. QED
    BY <1>1, <1>2, <2>1, <2>2, <2>3 DEF Init, TypeOK
<1>4. KnownInv /\ OrderInv
  <2>1. Len(ready) = 0 /\ Len(wire) = 0
    BY EmptySeq DEF Init
  <2>2. \A i : i \notin 1..0
    OBVIOUS
  <2>3. \A b \in Id : bubble[b].turn = 0
    BY DEF Init, NoBubble
  <2>4. QED
    BY <2>1, <2>2, <2>3 DEF KnownInv, OrderInv
<1>5. IdsInv
  BY DEF Init, IdsInv
<1>6. QED
  BY <1>3, <1>4, <1>5 DEF Inv

LEMMA OthersTurnInv ==
  ASSUME Inv, OthersTurn
  PROVE  Inv'
<1>1. /\ counter' \in 0..SynthIds /\ epoch' \in 0..MaxEpochs
      /\ \/ epoch' = epoch /\ counter' > counter
         \/ epoch' = epoch + 1
  BY AllocatesIds DEF Inv, OthersTurn
<1>2. UNCHANGED <<ready, stage, conn, reply, since, acc, waiting, link, conns, wire, bubble>>
  BY DEF OthersTurn, turnVars, linkVars
<1>3. TypeOK'
  BY <1>1, <1>2 DEF Inv, TypeOK
<1>4. KnownInv' /\ OrderInv'
  BY <1>2 DEF Inv, KnownInv, Known, OrderInv
<1>5. IdsInv'
  <2>1. \A t \in Turn : reply[t] \in Nat /\ since[t] \in Nat
    BY DEF Inv, TypeOK, Id
  <2>2. counter \in Nat /\ epoch \in Nat /\ counter' \in Nat /\ epoch' \in Nat
    BY <1>1 DEF Inv, TypeOK
  <2>3. QED
    BY <1>1, <1>2, <2>1, <2>2 DEF Inv, IdsInv
<1>6. QED
  BY <1>3, <1>4, <1>5 DEF Inv

LEMMA SendsInv ==
  ASSUME Inv, NEW t \in Turn, Sends(t)
  PROVE  Inv'
<1>1. /\ counter' \in Id /\ counter' \in 0..SynthIds /\ epoch' \in 0..MaxEpochs
      /\ \/ epoch' = epoch /\ counter' > counter
         \/ epoch' = epoch + 1
  BY AllocatesIds DEF Inv, Sends
<1>2. UNCHANGED <<ready, acc, waiting, link, conns, wire, bubble>>
  BY DEF Sends, linkVars
<1>3. /\ stage[t] = "none"
      /\ stage' = [stage EXCEPT ![t] = "run"] /\ conn' = [conn EXCEPT ![t] = conns]
      /\ reply' = [reply EXCEPT ![t] = counter'] /\ since' = [since EXCEPT ![t] = epoch']
  BY DEF Sends
<1>4. /\ stage'[t] = "run" /\ reply'[t] = counter' /\ since'[t] = epoch'
      /\ \A u \in Turn : u # t => stage'[u] = stage[u] /\ reply'[u] = reply[u] /\ since'[u] = since[u]
  BY <1>3 DEF Inv, TypeOK
<1>5. TypeOK'
  BY <1>1, <1>2, <1>3 DEF Inv, TypeOK
<1>6. KnownInv'
  <2>1. ASSUME NEW s, Known(s, stage, acc)
        PROVE  Known(s, stage', acc') /\ s.turn # t /\ s.turn \in Turn
    BY <1>2, <1>3, <1>4, <2>1 DEF Known
  <2>2. ASSUME NEW i \in 1..Len(ready)
        PROVE  /\ Known(Item(ready[i]), stage', acc') /\ ready[i].turn # t /\ ready[i].turn \in Turn
    BY <1>2, <2>1, ItemFields DEF Inv, KnownInv
  <2>3. QED
    BY <1>2, <1>4, <2>1, <2>2 DEF Inv, KnownInv
<1>7. OrderInv'
  BY <1>2 DEF Inv, OrderInv
<1>8. IdsInv'
  <2>1. \A u \in Turn : reply[u] \in Nat /\ since[u] \in Nat
    BY DEF Inv, TypeOK, Id
  <2>2. counter \in Nat /\ epoch \in Nat /\ counter' \in Nat /\ epoch' \in Nat
    BY <1>1 DEF Inv, TypeOK
  <2>3. \A u \in Turn : stage'[u] # "none" => since'[u] <= epoch' /\ (since'[u] = epoch' => reply'[u] <= counter')
    BY <1>1, <1>4, <2>1, <2>2 DEF Inv, IdsInv
  <2>4. \A u \in Turn : u # t /\ stage[u] # "none" /\ reply[u] = counter' => since[u] # epoch'
    BY <1>1, <2>1, <2>2 DEF Inv, IdsInv
  <2>5. \A u, v \in Turn :
          stage'[u] # "none" /\ stage'[v] # "none" /\ u # v /\ reply'[u] = reply'[v] => since'[u] # since'[v]
    BY <1>4, <2>4 DEF Inv, IdsInv
  <2>6. QED
    BY <2>3, <2>5 DEF IdsInv
<1>9. QED
  BY <1>5, <1>6, <1>7, <1>8 DEF Inv

-----------------------------------------------------------------------------
(* The agent: what it puts on the loop's queue comes after all of its turn. *)

LEMMA ReadyGrows ==
  ASSUME Inv, NEW r \in Task, ready' = Append(ready, r), UNCHANGED <<reply, wire, bubble>>,
         \A s \in Bubble : Known(s, stage, acc) => Known(s, stage', acc') /\ Before(s, Item(r)),
         \A i \in 1..Len(ready) :
            stage'[ready[i].turn] \in IF ready[i].what = "delta" THEN {"run", "return"} ELSE {"return"},
         Known(Item(r), stage', acc'),
         stage'[r.turn] \in IF r.what = "delta" THEN {"run", "return"} ELSE {"return"}
  PROVE  KnownInv' /\ OrderInv'
<1>1. ready \in Seq(Task) /\ Len(ready) \in Nat
  BY TypesOfParts DEF Inv
<1>2. /\ Len(ready') = Len(ready) + 1
      /\ \A i \in 1..Len(ready') :
            \/ i \in 1..Len(ready) /\ ready'[i] = ready[i]
            \/ i = Len(ready) + 1 /\ ready'[i] = r
  BY <1>1, AppendAt
<1>3. /\ \A i \in 1..Len(ready) : Item(ready[i]) \in Bubble /\ Known(Item(ready[i]), stage, acc)
      /\ \A i \in 1..Len(wire) :
            wire[i].show \in Bubble /\ Known(wire[i].show, stage, acc) /\ wire[i].id = reply[wire[i].show.turn]
      /\ \A b \in Id : bubble[b].turn # 0 =>
            bubble[b] \in Bubble /\ Known(bubble[b], stage, acc) /\ b = reply[bubble[b].turn]
  BY TypesOfParts DEF Inv, KnownInv, TypeOK
<1>4. KnownInv'
  <2>1. \A i \in 1..Len(ready') :
          /\ Known(Item(ready'[i]), stage', acc')
          /\ stage'[ready'[i].turn] \in IF ready'[i].what = "delta" THEN {"run", "return"} ELSE {"return"}
    BY <1>2, <1>3
  <2>2. QED
    BY <1>3, <2>1 DEF KnownInv
<1>5. OrderInv'
  <2>1. ASSUME NEW i \in 1..Len(ready'), NEW j \in 1..Len(ready'), i < j
        PROVE  Before(Item(ready'[i]), Item(ready'[j]))
    <3>1. i \in 1..Len(ready) /\ ready'[i] = ready[i]
      BY <1>1, <1>2, <2>1
    <3>2. CASE j \in 1..Len(ready) /\ ready'[j] = ready[j]
      BY <2>1, <3>1, <3>2 DEF Inv, OrderInv
    <3>3. CASE ready'[j] = r
      BY <1>3, <3>1, <3>3
    <3>4. QED
      BY <1>2, <3>2, <3>3
  <2>2. \A s \in Bubble : Known(s, stage, acc) /\ (\A j \in 1..Len(ready) : Before(s, Item(ready[j])))
          => \A j \in 1..Len(ready') : Before(s, Item(ready'[j]))
    BY <1>2
  <2>3. QED
    BY <1>3, <2>1, <2>2 DEF Inv, OrderInv
<1>6. QED
  BY <1>4, <1>5

LEMMA OnDeltaInv ==
  ASSUME Inv, NEW t \in Turn, OnDelta(t)
  PROVE  Inv'
<1> DEFINE r == [turn |-> t, what |-> "delta", upto |-> acc'[t]]
<1>1. /\ stage[t] = "run" /\ acc[t] < MaxDeltas
      /\ acc' = [acc EXCEPT ![t] = @ + 1] /\ ready' = Append(ready, r)
      /\ waiting' = [waiting EXCEPT ![t] = TRUE]
      /\ UNCHANGED <<counter, epoch, stage, conn, reply, since, link, conns, wire, bubble>>
  BY DEF OnDelta, linkVars
<1>2. /\ acc'[t] = acc[t] + 1 /\ acc[t] \in 0..MaxDeltas /\ acc'[t] \in 0..MaxDeltas /\ MaxDeltas \in Nat
      /\ \A u \in Turn : u # t => acc'[u] = acc[u]
  BY <1>1, ConstantsAssumption DEF Inv, TypeOK
<1>3. r \in Task
  BY <1>2 DEF Task
<1>4. TypeOK'
  <2>1. ready' \in Seq(Task)
    BY <1>1, <1>3, AppendAt, TypesOfParts DEF Inv
  <2>2. acc' \in [Turn -> 0..MaxDeltas]
    BY <1>1, <1>2 DEF Inv, TypeOK
  <2>3. waiting' \in [Turn -> BOOLEAN] /\ \A u \in Turn : waiting'[u] => stage'[u] = "run"
    BY <1>1 DEF Inv, TypeOK
  <2>4. QED
    BY <1>1, <2>1, <2>2, <2>3 DEF Inv, TypeOK, Task
<1>5. KnownInv' /\ OrderInv'
  <2>1. \A u \in Turn : acc[u] \in Nat
    BY DEF Inv, TypeOK
  <2>2. Item(r).turn = t /\ Item(r).text = "delta" /\ Item(r).upto = acc[t] + 1
    BY <1>2, ItemFields
  <2>3. ASSUME NEW s \in Bubble, Known(s, stage, acc)
        PROVE  Known(s, stage', acc') /\ Before(s, Item(r))
    <3>1. s.turn \in Turn /\ (s.turn = t => s.text = "delta")
      BY <1>1, <2>3 DEF Known
    <3>2. CASE s.text # "delta"
      BY <1>1, <2>2, <2>3, <3>1, <3>2 DEF Known, Before
    <3>3. CASE s.text = "delta"
      <4>1. s.upto <= acc[s.turn]
        BY <2>3, <3>3 DEF Known
      <4>2. s.upto \in Nat
        BY ConstantsAssumption DEF Bubble
      <4>3. s.upto <= acc'[s.turn] /\ (s.turn = t => s.upto < acc[t] + 1)
        BY <1>2, <2>1, <3>1, <4>1, <4>2
      <4>4. QED
        BY <1>1, <2>2, <2>3, <3>1, <3>3, <4>3 DEF Known, Before
    <3>4. QED
      BY <3>2, <3>3
  <2>4. \A i \in 1..Len(ready) :
          stage'[ready[i].turn] \in IF ready[i].what = "delta" THEN {"run", "return"} ELSE {"return"}
    BY <1>1 DEF Inv, KnownInv
  <2>5. Known(Item(r), stage', acc')
    BY <1>1, <1>2, <2>2 DEF Known
  <2>6. stage'[r.turn] \in IF r.what = "delta" THEN {"run", "return"} ELSE {"return"}
    BY <1>1
  <2>7. UNCHANGED <<reply, wire, bubble>> /\ ready' = Append(ready, r)
    BY <1>1
  <2> HIDE DEF r
  <2>8. QED
    BY <1>3, <2>3, <2>4, <2>5, <2>6, <2>7, ReadyGrows
<1>6. IdsInv'
  BY <1>1 DEF Inv, IdsInv
<1>7. QED
  BY <1>4, <1>5, <1>6 DEF Inv

LEMMA TimesOutInv ==
  ASSUME Inv, NEW t \in Turn, TimesOut(t)
  PROVE  Inv'
<1>1. /\ waiting' = [waiting EXCEPT ![t] = FALSE]
      /\ UNCHANGED <<counter, epoch, ready, stage, conn, reply, since, acc, link, conns, wire, bubble>>
  BY DEF TimesOut, loopVars, linkVars
<1>2. TypeOK'
  BY <1>1 DEF Inv, TypeOK
<1>3. KnownInv' /\ OrderInv' /\ IdsInv'
  BY <1>1 DEF Inv, KnownInv, OrderInv, IdsInv
<1>4. QED
  BY <1>2, <1>3 DEF Inv

LEMMA ReturnsInv ==
  ASSUME Inv, NEW t \in Turn, NEW how \in Result, Returns(t, how)
  PROVE  Inv'
<1> DEFINE r == [turn |-> t, what |-> how, upto |-> 0]
<1>1. /\ stage[t] = "run" /\ ~waiting[t]
      /\ stage' = [stage EXCEPT ![t] = "return"] /\ ready' = Append(ready, r)
      /\ UNCHANGED <<counter, epoch, conn, reply, since, acc, waiting, link, conns, wire, bubble>>
  BY DEF Returns, linkVars
<1>2. stage'[t] = "return" /\ \A u \in Turn : u # t => stage'[u] = stage[u]
  BY <1>1 DEF Inv, TypeOK
<1>3. r \in Task /\ how # "delta"
  BY ConstantsAssumption DEF Task, Result
<1>4. TypeOK'
  <2>1. ready' \in Seq(Task)
    BY <1>1, <1>3, AppendAt, TypesOfParts DEF Inv
  <2>2. stage' \in [Turn -> {"none", "run", "return", "lost"} \cup Result]
    BY <1>1 DEF Inv, TypeOK
  <2>3. waiting' \in [Turn -> BOOLEAN] /\ \A u \in Turn : waiting'[u] => stage'[u] = "run"
    BY <1>1, <1>2 DEF Inv, TypeOK
  <2>4. QED
    BY <1>1, <2>1, <2>2, <2>3 DEF Inv, TypeOK, Task
<1>5. KnownInv' /\ OrderInv'
  <2>1. Item(r).turn = t /\ Item(r).text = how
    BY ItemFields
  <2>2. ASSUME NEW s \in Bubble, Known(s, stage, acc)
        PROVE  Known(s, stage', acc') /\ Before(s, Item(r))
    BY <1>1, <1>2, <1>3, <2>1, <2>2 DEF Known, Before
  <2>3. \A i \in 1..Len(ready) :
          stage'[ready[i].turn] \in IF ready[i].what = "delta" THEN {"run", "return"} ELSE {"return"}
    <3>1. \A i \in 1..Len(ready) :
            /\ stage[ready[i].turn] \in IF ready[i].what = "delta" THEN {"run", "return"} ELSE {"return"}
            /\ ready[i].turn \in Turn
      BY ItemFields DEF Inv, KnownInv, Known
    <3>2. QED
      BY <1>1, <1>2, <3>1
  <2>4. Known(Item(r), stage', acc')
    BY <1>2, <1>3, <2>1 DEF Known
  <2>5. stage'[r.turn] \in IF r.what = "delta" THEN {"run", "return"} ELSE {"return"}
    BY <1>2, <1>3
  <2>6. UNCHANGED <<reply, wire, bubble>> /\ ready' = Append(ready, r)
    BY <1>1
  <2> HIDE DEF r
  <2>7. QED
    BY <1>3, <2>2, <2>3, <2>4, <2>5, <2>6, ReadyGrows
<1>6. IdsInv'
  BY <1>1, <1>2 DEF Inv, IdsInv
<1>7. QED
  BY <1>4, <1>5, <1>6 DEF Inv

-----------------------------------------------------------------------------
(* The loop: what heads its queue goes to the end of the wire, or is lost. *)

LEMMA HeadIsSent ==
  ASSUME Inv, ready # <<>>, ready' = Tail(ready), UNCHANGED <<acc, reply, bubble>>,
         NEW f \in Frame, wire' \in {wire, Append(wire, f)},
         f.id = reply[f.show.turn], f.show.turn = ready[1].turn, f.show.text = ready[1].what,
         f.show.text = "delta" => f.show.upto = ready[1].upto,
         \A s : Known(s, stage, acc) => Known(s, stage', acc),
         \A i \in 2..Len(ready) : stage'[ready[i].turn] = stage[ready[i].turn]
  PROVE  ready' \in Seq(Task) /\ wire' \in Seq(Frame) /\ KnownInv' /\ OrderInv'
<1>1. ready \in Seq(Task) /\ wire \in Seq(Frame) /\ Len(ready) \in Nat /\ Len(wire) \in Nat
  BY TypesOfParts DEF Inv
<1>2. /\ ready' \in Seq(Task) /\ 1 \in 1..Len(ready)
      /\ \A i \in 1..Len(ready') : i + 1 \in 2..Len(ready) /\ i + 1 \in 1..Len(ready) /\ ready'[i] = ready[i + 1]
  BY <1>1, TailAt
<1>3. /\ wire' \in Seq(Frame)
      /\ \A i \in 1..Len(wire') :
            \/ i \in 1..Len(wire) /\ wire'[i] = wire[i]
            \/ i = Len(wire) + 1 /\ wire'[i] = f
  <2>1. CASE wire' = wire
    BY <1>1, <2>1
  <2>2. CASE wire' = Append(wire, f)
    BY <1>1, <2>2, AppendAt
  <2>3. QED
    BY <2>1, <2>2
<1>4. /\ \A s : Before(s, Item(ready[1])) => Before(s, f.show)
      /\ \A r : Before(Item(ready[1]), r) => Before(f.show, r)
      /\ Known(f.show, stage, acc)
  <2>1. Known(Item(ready[1]), stage, acc)
    BY <1>2 DEF Inv, KnownInv
  <2>2. Item(ready[1]).turn = f.show.turn /\ Item(ready[1]).text = f.show.text
    BY ItemFields
  <2>3. f.show.text = "delta" => Item(ready[1]).upto = f.show.upto
    BY ItemFields
  <2>4. QED
    BY <2>1, <2>2, <2>3 DEF Before, Known
<1>5. KnownInv'
  <2>1. \A i \in 1..Len(ready') :
          /\ Known(Item(ready'[i]), stage', acc')
          /\ stage'[ready'[i].turn] \in IF ready'[i].what = "delta" THEN {"run", "return"} ELSE {"return"}
    BY <1>2 DEF Inv, KnownInv
  <2>2. \A i \in 1..Len(wire') : Known(wire'[i].show, stage', acc') /\ wire'[i].id = reply'[wire'[i].show.turn]
    BY <1>3, <1>4 DEF Inv, KnownInv
  <2>3. QED
    BY <2>1, <2>2 DEF Inv, KnownInv
<1>6. OrderInv'
  <2>1. ASSUME NEW i \in 1..Len(ready'), NEW j \in 1..Len(ready'), i < j
        PROVE  Before(Item(ready'[i]), Item(ready'[j]))
    <3>1. i + 1 \in 1..Len(ready) /\ j + 1 \in 1..Len(ready) /\ i + 1 < j + 1
      BY <1>2, <2>1
    <3>2. QED
      BY <1>2, <3>1 DEF Inv, OrderInv
  <2>2. ASSUME NEW j \in 1..Len(ready')
        PROVE  Before(f.show, Item(ready'[j]))
    <3>1. j + 1 \in 1..Len(ready) /\ 1 < j + 1
      BY <1>2
    <3>2. Before(Item(ready[1]), Item(ready[j + 1]))
      BY <1>2, <3>1 DEF Inv, OrderInv
    <3>3. QED
      BY <1>2, <1>4, <3>2
  <2>3. \A i \in 1..Len(wire') : \A j \in 1..Len(ready') : Before(wire'[i].show, Item(ready'[j]))
    BY <1>2, <1>3, <2>2 DEF Inv, OrderInv
  <2>4. \A i \in 1..Len(wire) : Before(wire[i].show, f.show)
    BY <1>2, <1>4 DEF Inv, OrderInv
  <2>5. ASSUME NEW i \in 1..Len(wire'), NEW j \in 1..Len(wire'), i < j
        PROVE  Before(wire'[i].show, wire'[j].show)
    <3>1. i \in 1..Len(wire) /\ wire'[i] = wire[i]
      BY <1>1, <1>3, <2>5
    <3>2. QED
      BY <1>3, <2>4, <2>5, <3>1 DEF Inv, OrderInv
  <2>6. \A b \in Id : bubble'[b].turn # 0 =>
          /\ \A j \in 1..Len(wire') : Before(bubble'[b], wire'[j].show)
          /\ \A j \in 1..Len(ready') : Before(bubble'[b], Item(ready'[j]))
    BY <1>2, <1>3, <1>4 DEF Inv, OrderInv
  <2>7. QED
    BY <2>1, <2>3, <2>5, <2>6 DEF OrderInv
<1>7. QED
  BY <1>2, <1>3, <1>5, <1>6

LEMMA SendsDeltaInv ==
  ASSUME Inv, SendsDelta
  PROVE  Inv'
<1> DEFINE t == Head(ready).turn
           f == [kind |-> "stream.delta", id |-> reply[t], show |-> Shows(t, "delta", Head(ready).upto)]
<1>1. /\ ready # <<>> /\ Head(ready).what = "delta" /\ ready' = Tail(ready)
      /\ wire' \in {wire, Append(wire, f)}
      /\ waiting' \in {waiting, [waiting EXCEPT ![t] = FALSE]}
      /\ UNCHANGED <<counter, epoch, stage, conn, reply, since, acc, link, conns, bubble>>
  BY DEF SendsDelta, Runs, linkVars
<1>2. /\ Head(ready) = ready[1] /\ ready[1] \in Task
      /\ ready' \in Seq(Task)
  BY <1>1, TypesOfParts, TailAt DEF Inv
<1>3. t \in Turn /\ Head(ready).upto \in 0..MaxDeltas
  BY <1>2 DEF Task
<1>4. f \in Frame
  <2>1. Shows(t, "delta", Head(ready).upto) \in Bubble
    BY <1>3, ConstantsAssumption DEF Shows, Bubble, Turn
  <2>2. reply[t] \in Id
    BY <1>3 DEF Inv, TypeOK
  <2>3. QED
    BY <2>1, <2>2 DEF Frame
<1>5. /\ f.show.turn = ready[1].turn /\ f.show.text = ready[1].what /\ f.show.upto = ready[1].upto
      /\ f.id = reply[f.show.turn]
  BY <1>1, <1>2 DEF Shows
<1>6. ready' \in Seq(Task) /\ wire' \in Seq(Frame) /\ KnownInv' /\ OrderInv'
  <2>1. /\ \A s : Known(s, stage, acc) => Known(s, stage', acc)
        /\ \A i \in 2..Len(ready) : stage'[ready[i].turn] = stage[ready[i].turn]
    BY <1>1
  <2>2. UNCHANGED <<acc, reply, bubble>> /\ ready # <<>> /\ ready' = Tail(ready)
        /\ wire' \in {wire, Append(wire, f)}
    BY <1>1
  <2> HIDE DEF f, t
  <2>3. QED
    BY <1>4, <1>5, <2>1, <2>2, HeadIsSent
<1>7. TypeOK'
  <2>1. waiting' \in [Turn -> BOOLEAN] /\ \A u \in Turn : waiting'[u] => waiting[u]
    BY <1>1, <1>3 DEF Inv, TypeOK
  <2>2. QED
    BY <1>1, <1>6, <2>1 DEF Inv, TypeOK, Task
<1>8. IdsInv'
  BY <1>1 DEF Inv, IdsInv
<1>9. QED
  BY <1>6, <1>7, <1>8 DEF Inv

LEMMA SendsFinalInv ==
  ASSUME Inv, NEW how \in Result, SendsFinal(how)
  PROVE  Inv'
<1> DEFINE t == Head(ready).turn
           f == [kind |-> "message.new", id |-> reply[t], show |-> Shows(t, how, 0)]
<1>1. /\ ready # <<>> /\ Head(ready).what = how /\ ready' = Tail(ready)
      /\ wire' \in {wire, Append(wire, f)}
      /\ stage' = [stage EXCEPT ![t] = how]
      /\ UNCHANGED <<counter, epoch, conn, reply, since, acc, waiting, link, conns, bubble>>
  BY DEF SendsFinal, Runs, Updates, linkVars
<1>2. /\ Head(ready) = ready[1] /\ ready[1] \in Task /\ 1 \in 1..Len(ready)
      /\ ready' \in Seq(Task) /\ Len(ready) \in Nat
  BY <1>1, TypesOfParts, TailAt DEF Inv
<1>3. t \in Turn /\ how # "delta" /\ how # "run" /\ how # "none"
  BY <1>2 DEF Task, Result
<1>4. f \in Frame
  <2>1. Shows(t, how, 0) \in Bubble
    BY <1>3, ConstantsAssumption DEF Shows, Bubble, Turn
  <2>2. reply[t] \in Id
    BY <1>3 DEF Inv, TypeOK
  <2>3. QED
    BY <2>1, <2>2 DEF Frame
<1>5. /\ f.show.turn = ready[1].turn /\ f.show.text = ready[1].what /\ f.show.text # "delta"
      /\ f.id = reply[f.show.turn]
  BY <1>1, <1>2, <1>3 DEF Shows
<1>6. stage[t] = "return" /\ stage'[t] = how /\ \A u \in Turn : u # t => stage'[u] = stage[u]
  BY <1>1, <1>2, <1>3, SMTT(30) DEF Inv, KnownInv, TypeOK
<1>7. ASSUME NEW i \in 2..Len(ready)
      PROVE  stage'[ready[i].turn] = stage[ready[i].turn]
  <2>1. i \in 1..Len(ready) /\ 1 < i
    BY <1>2
  <2>2. Before(Item(ready[1]), Item(ready[i])) /\ Known(Item(ready[i]), stage, acc)
    BY <1>2, <2>1 DEF Inv, OrderInv, KnownInv
  <2>3. ready[i].turn \in Turn /\ ready[i].turn # t
    BY <1>1, <1>2, <1>3, <2>2, ItemFields DEF Before, Known
  <2>4. QED
    BY <1>6, <2>3
<1>8. ready' \in Seq(Task) /\ wire' \in Seq(Frame) /\ KnownInv' /\ OrderInv'
  <2>1. \A s : Known(s, stage, acc) => Known(s, stage', acc)
    BY <1>3, <1>6 DEF Known
  <2>2. UNCHANGED <<acc, reply, bubble>> /\ ready # <<>> /\ ready' = Tail(ready)
        /\ wire' \in {wire, Append(wire, f)}
    BY <1>1
  <2> HIDE DEF f, t
  <2>3. QED
    BY <1>4, <1>5, <1>7, <2>1, <2>2, HeadIsSent
<1>9. TypeOK'
  <2>1. stage' \in [Turn -> {"none", "run", "return", "lost"} \cup Result]
    BY <1>1 DEF Inv, TypeOK
  <2>2. \A u \in Turn : waiting[u] => stage'[u] = "run"
    BY <1>6 DEF Inv, TypeOK
  <2>3. QED
    BY <1>1, <1>8, <2>1, <2>2 DEF Inv, TypeOK, Task
<1>10. IdsInv'
  BY <1>1, <1>6 DEF Inv, IdsInv
<1>11. QED
  BY <1>8, <1>9, <1>10 DEF Inv

-----------------------------------------------------------------------------
(* The connection, and the bridge's process.                               *)

LEMMA ConnectsInv ==
  ASSUME Inv, Connects
  PROVE  Inv'
<1>1. /\ link' = "up" /\ conns < MaxConns /\ conns' = conns + 1
      /\ UNCHANGED <<counter, epoch, ready, stage, conn, reply, since, acc, waiting, wire, bubble>>
  BY DEF Connects, loopVars, turnVars
<1>2. conns' \in 0..MaxConns
  BY <1>1, ConstantsAssumption DEF Inv, TypeOK
<1>3. TypeOK'
  BY <1>1, <1>2 DEF Inv, TypeOK
<1>4. KnownInv' /\ OrderInv' /\ IdsInv'
  BY <1>1 DEF Inv, KnownInv, OrderInv, IdsInv
<1>5. QED
  BY <1>3, <1>4 DEF Inv

LEMMA EmptyQueue ==
  \A S : <<>> \in Seq(S) /\ Len(<<>>) = 0 /\ \A i : i \notin 1..Len(<<>>)
<1>1. \A S : <<>> \in Seq(S) /\ Len(<<>>) = 0
  BY EmptySeq
<1>2. \A i : i \notin 1..0
  OBVIOUS
<1>3. QED
  BY <1>1, <1>2

LEMMA DropsInv ==
  ASSUME Inv, Drops
  PROVE  Inv'
<1>1. /\ link' = "down" /\ wire' = <<>>
      /\ UNCHANGED <<counter, epoch, ready, stage, conn, reply, since, acc, waiting, conns, bubble>>
  BY DEF Drops, loopVars, turnVars
<1>2. TypeOK'
  BY <1>1, EmptyQueue DEF Inv, TypeOK
<1>3. KnownInv' /\ OrderInv' /\ IdsInv'
  BY <1>1, EmptyQueue DEF Inv, KnownInv, OrderInv, IdsInv
<1>4. QED
  BY <1>2, <1>3 DEF Inv

LEMMA BridgeRestartsInv ==
  ASSUME Inv, BridgeRestarts
  PROVE  Inv'
<1>1. /\ epoch < MaxEpochs /\ epoch' = epoch + 1 /\ counter' = 0
      /\ ready' = <<>> /\ wire' = <<>> /\ link' = "down"
      /\ stage' = [t \in Turn |-> IF stage[t] \in {"run", "return"} THEN "lost" ELSE stage[t]]
      /\ waiting' = [t \in Turn |-> FALSE]
      /\ UNCHANGED <<conn, reply, since, acc, conns, bubble>>
  BY DEF BridgeRestarts
<1>2. \A t \in Turn : stage'[t] # "run" /\ (stage'[t] = "none" <=> stage[t] = "none")
  BY <1>1
<1>3. TypeOK'
  <2>1. epoch' \in 0..MaxEpochs /\ counter' \in 0..SynthIds
    BY <1>1, ConstantsAssumption DEF Inv, TypeOK
  <2>2. stage' \in [Turn -> {"none", "run", "return", "lost"} \cup Result]
    BY <1>1 DEF Inv, TypeOK
  <2>3. waiting' \in [Turn -> BOOLEAN] /\ \A t \in Turn : waiting'[t] => stage'[t] = "run"
    BY <1>1
  <2>4. QED
    BY <1>1, <2>1, <2>2, <2>3, EmptyQueue DEF Inv, TypeOK
<1>4. KnownInv'
  <2>1. \A s : Known(s, stage, acc) => Known(s, stage', acc)
    BY <1>2 DEF Known
  <2>2. QED
    BY <1>1, <2>1, EmptyQueue DEF Inv, KnownInv
<1>5. OrderInv'
  BY <1>1, EmptyQueue DEF Inv, OrderInv
<1>6. IdsInv'
  <2>1. \A t \in Turn : since[t] \in Nat /\ epoch \in Nat
    BY DEF Inv, TypeOK
  <2>2. \A t \in Turn : stage[t] # "none" => since[t] <= epoch' /\ since[t] # epoch'
    BY <1>1, <2>1 DEF Inv, IdsInv
  <2>3. QED
    BY <1>1, <1>2, <2>2 DEF Inv, IdsInv
<1>7. QED
  BY <1>3, <1>4, <1>5, <1>6 DEF Inv

-----------------------------------------------------------------------------
(* The client: what heads the wire goes into the bubble with its id, if it *)
(* is shown at all.                                                        *)

LEMMA TakesInv ==
  ASSUME Inv, NEW kind, Takes(kind), bubble' = bubble \/ Applies(Head(wire))
  PROVE  Inv'
<1>1. /\ wire # <<>> /\ wire' = Tail(wire)
      /\ UNCHANGED <<counter, epoch, ready, stage, conn, reply, since, acc, waiting, link, conns>>
  BY DEF Takes, loopVars, turnVars, linkVars
<1>2. /\ Head(wire) = wire[1] /\ wire[1] \in Frame /\ wire' \in Seq(Frame) /\ 1 \in 1..Len(wire)
      /\ Len(wire) \in Nat
      /\ \A i \in 1..Len(wire') : i + 1 \in 2..Len(wire) /\ i + 1 \in 1..Len(wire) /\ wire'[i] = wire[i + 1]
  BY <1>1, TypesOfParts, TailAt DEF Inv
<1>3. /\ wire[1].show \in Bubble /\ wire[1].id \in Id
      /\ Known(wire[1].show, stage, acc) /\ wire[1].id = reply[wire[1].show.turn]
  BY <1>2, TypesOfParts DEF Inv, KnownInv
<1>4. \A b \in Id : bubble'[b] = bubble[b] \/ (bubble'[b] = wire[1].show /\ b = wire[1].id)
  <2>1. bubble \in [Id -> Bubble]
    BY DEF Inv, TypeOK
  <2>2. bubble' = bubble \/ bubble' = [bubble EXCEPT ![wire[1].id] = wire[1].show]
    BY <1>2 DEF Applies
  <2>3. CASE bubble' = bubble
    BY <2>3
  <2>4. CASE bubble' = [bubble EXCEPT ![wire[1].id] = wire[1].show]
    BY <2>1, <2>4
  <2>5. QED
    BY <2>2, <2>3, <2>4
<1>5. TypeOK'
  <2>1. bubble' \in [Id -> Bubble]
    BY <1>2, <1>3 DEF Applies, Inv, TypeOK
  <2>2. QED
    BY <1>1, <1>2, <2>1 DEF Inv, TypeOK
<1>6. KnownInv'
  <2>1. \A i \in 1..Len(wire') : Known(wire'[i].show, stage, acc) /\ wire'[i].id = reply[wire'[i].show.turn]
    BY <1>2 DEF Inv, KnownInv
  <2>2. \A b \in Id : bubble'[b].turn # 0 => Known(bubble'[b], stage, acc) /\ b = reply[bubble'[b].turn]
    BY <1>3, <1>4 DEF Inv, KnownInv
  <2>3. QED
    BY <1>1, <2>1, <2>2 DEF Inv, KnownInv
<1>7. OrderInv'
  <2>1. ASSUME NEW i \in 1..Len(wire'), NEW j \in 1..Len(wire'), i < j
        PROVE  Before(wire'[i].show, wire'[j].show)
    <3>1. i + 1 \in 1..Len(wire) /\ j + 1 \in 1..Len(wire) /\ i + 1 < j + 1
      BY <1>2, <2>1
    <3>2. QED
      BY <1>2, <3>1 DEF Inv, OrderInv
  <2>2. \A i \in 1..Len(wire') : \A j \in 1..Len(ready) : Before(wire'[i].show, Item(ready[j]))
    BY <1>2 DEF Inv, OrderInv
  <2>3. ASSUME NEW j \in 1..Len(wire')
        PROVE  Before(wire[1].show, wire'[j].show)
    <3>1. j + 1 \in 1..Len(wire) /\ 1 < j + 1
      BY <1>2
    <3>2. QED
      BY <1>2, <3>1 DEF Inv, OrderInv
  <2>4. \A j \in 1..Len(ready) : Before(wire[1].show, Item(ready[j]))
    BY <1>2 DEF Inv, OrderInv
  <2>5. \A b \in Id : bubble'[b].turn # 0 =>
          /\ \A j \in 1..Len(wire') : Before(bubble'[b], wire'[j].show)
          /\ \A j \in 1..Len(ready) : Before(bubble'[b], Item(ready[j]))
    BY <1>2, <1>4, <2>3, <2>4 DEF Inv, OrderInv
  <2>6. QED
    BY <1>1, <2>1, <2>2, <2>5 DEF Inv, OrderInv
<1>8. IdsInv'
  BY <1>1 DEF Inv, IdsInv
<1>9. QED
  BY <1>5, <1>6, <1>7, <1>8 DEF Inv

LEMMA StepInv ==
  ASSUME Inv, [Next]_vars
  PROVE  Inv'
<1>1. CASE OthersTurn
  BY <1>1, OthersTurnInv
<1>2. CASE \E t \in Turn : Sends(t)
  BY <1>2, SendsInv
<1>3. CASE \E t \in Turn : TimesOut(t)
  BY <1>3, TimesOutInv
<1>4. CASE Agent
  BY <1>4, OnDeltaInv, ReturnsInv DEF Agent
<1>5. CASE Loop
  BY <1>5, SendsDeltaInv, SendsFinalInv DEF Loop
<1>6. CASE Connects
  BY <1>6, ConnectsInv
<1>7. CASE Drops
  BY <1>7, DropsInv
<1>8. CASE BridgeRestarts
  BY <1>8, BridgeRestartsInv
<1>9. CASE Client
  <2>1. CASE TakesDelta
    BY <2>1, TakesInv DEF TakesDelta
  <2>2. CASE TakesFinal
    BY <2>2, TakesInv DEF TakesFinal
  <2>3. QED
    BY <1>9, <2>1, <2>2 DEF Client
<1>10. CASE UNCHANGED vars
  BY <1>10 DEF vars, loopVars, turnVars, linkVars, Inv, TypeOK, KnownInv, OrderInv, IdsInv
<1>11. QED
  BY <1>1, <1>2, <1>3, <1>4, <1>5, <1>6, <1>7, <1>8, <1>9, <1>10 DEF Next

(* A bubble changes only when the client takes a frame: into the one with  *)
(* the frame's id goes what the frame shows, which is of another turn or   *)
(* comes after what the bubble has.                                        *)
LEMMA BubbleSteps ==
  ASSUME Inv, [Next]_vars, NEW b \in Id, bubble'[b] # bubble[b]
  PROVE  /\ since' = since
         /\ bubble'[b].turn \in Turn /\ stage[bubble'[b].turn] # "none" /\ b = reply[bubble'[b].turn]
         /\ bubble[b].turn # 0 => Before(bubble[b], bubble'[b])
<1>1. \E kind : Takes(kind) /\ Applies(Head(wire))
  <2>1. CASE TakesDelta
    BY <2>1 DEF TakesDelta
  <2>2. CASE TakesFinal
    BY <2>2 DEF TakesFinal
  <2>3. CASE ~Client
    <3>1. bubble' = bubble
      BY <2>3 DEF Next, vars, OthersTurn, Sends, TimesOut, Agent, OnDelta, Returns, Loop, SendsDelta,
           SendsFinal, Runs, Connects, Drops, BridgeRestarts
    <3>2. QED
      BY <3>1
  <2>4. QED
    BY <2>1, <2>2, <2>3 DEF Client
<1>2. wire # <<>> /\ since' = since
  BY <1>1 DEF Takes, turnVars
<1>3. Head(wire) = wire[1] /\ 1 \in 1..Len(wire)
  BY <1>2, TypesOfParts, TailAt DEF Inv
<1>4. b = wire[1].id /\ bubble'[b] = wire[1].show
  BY <1>1, <1>3 DEF Applies, Inv, TypeOK
<1>5. Known(wire[1].show, stage, acc) /\ wire[1].id = reply[wire[1].show.turn]
  BY <1>3 DEF Inv, KnownInv
<1>6. bubble[b].turn # 0 => Before(bubble[b], wire[1].show)
  BY <1>3 DEF Inv, OrderInv
<1>7. QED
  BY <1>2, <1>4, <1>5, <1>6 DEF Known

-----------------------------------------------------------------------------
(* Inv holds in every reachable state. *)
LEMMA Invariant == Spec => []Inv
<1>1. Init => Inv
  BY InitInv
<1>2. Inv /\ [Next]_vars => Inv'
  BY StepInv
<1>3. QED
  BY <1>1, <1>2, PTL DEF Spec

(* Ids stay within the band that the client's 32 bit take, whenever they   *)
(* wrap, and an agent's thread waits for a send only while it runs.        *)
THEOREM TypeCorrect == Spec => []TypeOK
<1>1. Inv => TypeOK
  BY DEF Inv
<1>2. QED
  BY <1>1, Invariant, PTL

(* A bubble only grows, and its final text stays, although on_delta stops  *)
(* waiting for a send after five seconds and goes on.                      *)
THEOREM TextOnlyGrowsHolds == Spec => TextOnlyGrows
<1>1. Inv /\ [Next]_vars =>
        [\A i \in Id :
            bubble[i].turn # 0 /\ bubble'[i].turn = bubble[i].turn =>
               \/ bubble'[i] = bubble[i]
               \/ /\ bubble[i].text = "delta"
                  /\ bubble'[i].text = "delta" => bubble[i].upto < bubble'[i].upto]_vars
  BY BubbleSteps DEF Before
<1>2. QED
  BY <1>1, Invariant, PTL DEF Spec, TextOnlyGrows

(* A reply never goes into the bubble of another one, unless the counter   *)
(* has started over in between: by a wrap, or by a restart of the bridge.  *)
THEOREM BubbleKeepsTurnHolds == Spec => BubbleKeepsTurn
<1>1. ASSUME Inv, [Next]_vars, NEW b \in Id, bubble[b].turn # 0, bubble'[b].turn # bubble[b].turn
      PROVE  since[bubble'[b].turn] # since[bubble[b].turn]
  <2>1. /\ bubble'[b].turn \in Turn /\ stage[bubble'[b].turn] # "none"
        /\ b = reply[bubble'[b].turn]
    BY <1>1, BubbleSteps
  <2>2. bubble[b].turn \in Turn /\ stage[bubble[b].turn] # "none" /\ b = reply[bubble[b].turn]
    BY <1>1 DEF Inv, KnownInv, Known
  <2>3. QED
    BY <1>1, <2>1, <2>2 DEF Inv, IdsInv
<1>2. Inv /\ [Next]_vars =>
        [\A i \in Id :
            bubble[i].turn # 0 /\ bubble'[i].turn # bubble[i].turn =>
               since[bubble'[i].turn] # since[bubble[i].turn]]_vars
  BY <1>1
<1>3. QED
  BY <1>2, Invariant, PTL DEF Spec, BubbleKeepsTurn

=============================================================================
