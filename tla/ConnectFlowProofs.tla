------------------------- MODULE ConnectFlowProofs --------------------------
(***************************************************************************)
(* Proofs about ConnectFlow, for any household.                            *)
(***************************************************************************)
EXTENDS ConnectFlow, SequenceTheorems, TLAPS

(* What the innermost loop is of, when there is one. *)
In(what) == stack # <<>> /\ stack[1].of = what

(* The main thread is free: the flow has ended, no loop is nested, there   *)
(* is no session and no box.                                               *)
Free == main = "loop" /\ stack = <<>> /\ session = None /\ box = "none"

(* What waits for the main thread: a log-out, which is first, of a session *)
(* that was restored or is destroyed since, and one step of the flow, which *)
(* waits only while the main thread is free.                               *)
QueueInv ==
    /\ Len(queue) <= 2
    /\ \A i \in 1..Len(queue) : queue[i] = "logOut" => i = 1 /\ ~loggingOut
    /\ \A i \in 1..Len(queue) : queue[i] # "logOut" => i = Len(queue) /\ Free
    /\ Len(queue) = 2 => queue[1] = "logOut"
    /\ Len(queue) = 1 /\ queue[1] = "logOut" => restored

(* A loop is nested by one step of the flow, of which nothing else waits:  *)
(* a session, when there is one, is the restored one that is reattached.   *)
StackInv ==
    /\ Len(stack) <= 1
    /\ stack # <<>> => main = "loop"
    /\ In("reattach") => ~offline
    /\ In("seed") \/ In("attempt") \/ In("roster") => session = None
    /\ stack # <<>> /\ ~In("roster") => gateway # None
    /\ In("reattach") /\ session # None /\ ~dirty => stack[1].user = session

(* A box waits for the user, or for the attempt it has submitted.          *)
BoxInv ==
    /\ attempting => box = "connect"
    /\ box # "none" =>
          \/ main = "loop" /\ session = None /\ stack = <<>> /\ ~attempting
          \/ main = "loop" /\ session = None /\ In("attempt") /\ attempting
          \/ main \in {"save", "cut"} /\ attempting

(* The straight-line code that the main thread is in.                      *)
MainInv ==
    /\ main = "flow" => queue = <<>> /\ (session # None => ~offline /\ persisted = session)
    /\ main \in {"save", "cut"} => session # None /\ offline /\ gateway # None /\ gateway.wired
    /\ main \in {"recut", "forget"} => session # None
    /\ ~running => Free /\ queue = <<>>

(* A session that is not offline is the restored one, and only this one is *)
(* logged out.                                                             *)
SessionInv ==
    /\ loggingOut => restored /\ queue = <<>>
    /\ session # None /\ ~offline => restored

(* The file names the user of the session that the next start restores.    *)
DiskInv ==
    ~dirty =>
        /\ session # None /\ main \in {"loop", "flow"} => file = session
        /\ persisted # None /\ (~running \/ In("reattach")) => file = persisted

Inv ==
    /\ TypeOK /\ SendsAreRouted
    /\ QueueInv /\ StackInv /\ BoxInv /\ MainInv /\ SessionInv /\ DiskInv

-----------------------------------------------------------------------------
(* The stack and the queue.                                                *)

Loops == [of : {"reattach", "seed", "attempt", "roster"}, user : Config]
Closures == {"flow", "box", "picker", "logOut"} \cup User

LEMMA TypeLemma ==
  ASSUME TypeOK
  PROVE  /\ file \in Config \cup {NoConfig} /\ env \in Config \cup {NoConfig}
         /\ persisted \in Config \cup {None} /\ session \in Config \cup {None}
         /\ stack \in Seq(Loops) /\ queue \in Seq(Closures)
         /\ gateway \in [user : Config, wired : BOOLEAN] \cup {None}
         /\ Config = User \cup {Nobody}
  BY DEF TypeOK, DiskOK, AccountOK, ThreadOK, Loops, Closures, Config

(* A loop is nested in none. *)
LEMMA PushesFirst ==
  ASSUME NEW f \in Loops, stack = <<>>, stack' = Append(stack, f)
  PROVE  stack' \in Seq(Loops) /\ Len(stack') = 1 /\ stack' # <<>> /\ stack'[1] = f
<1>1. stack \in Seq(Loops) /\ Len(stack) = 0
  OBVIOUS
<1>2. QED
  BY <1>1, AppendProperties

(* The only loop quits. *)
LEMMA PopsOnly ==
  ASSUME TypeOK, StackInv, stack # <<>>
  PROVE  /\ Frame = stack[1] /\ Frame \in Loops
         /\ Pops => stack' = <<>>
<1>1. stack \in Seq(Loops)
  BY TypeLemma
<1>2. Len(stack) = 1
  <2>1. Len(stack) \in Nat \ {0}
    BY <1>1, EmptySeq, Zenon
  <2>2. Len(stack) <= 1
    BY DEF StackInv
  <2>3. \A n \in Nat \ {0} : n <= 1 => n = 1
    OBVIOUS
  <2>4. QED
    BY <2>1, <2>2, <2>3, Zenon
<1>3. stack[1] \in Loops
  BY <1>1, <1>2, ElementOfSeq
<1>4. SubSeq(stack, 1, 0) = <<>>
  BY <1>1, SubSeqEmpty
<1>5. QED
  BY <1>2, <1>3, <1>4 DEF Frame, Pops

(* A closure that runs has left the queue. *)
LEMMA TakesFirst ==
  ASSUME TypeOK, NEW closure, Posted(closure)
  PROVE  /\ Len(queue) >= 1 /\ queue[1] = closure
         /\ queue' \in Seq(Closures) /\ Len(queue') = Len(queue) - 1
         /\ \A i \in 1..Len(queue') : queue'[i] = queue[i + 1]
<1>1. queue \in Seq(Closures) /\ queue # <<>> /\ queue' = Tail(queue) /\ Head(queue) = closure
  BY TypeLemma DEF Posted
<1>2. QED
  BY <1>1, HeadTailProperties

(* A closure is posted. *)
LEMMA PostsLast ==
  ASSUME TypeOK, NEW closure \in Closures, queue' = Append(queue, closure)
  PROVE  /\ queue' \in Seq(Closures) /\ Len(queue') = Len(queue) + 1
         /\ \A i \in 1..Len(queue) : queue'[i] = queue[i]
         /\ queue'[Len(queue')] = closure
<1>1. queue \in Seq(Closures)
  BY TypeLemma
<1>2. QED
  BY <1>1, AppendProperties

LEMMA EmptyQueue == \A q \in Seq(Closures) : Len(q) \in Nat /\ (Len(q) = 0 <=> q = <<>>)
  BY EmptySeq, LenProperties

-----------------------------------------------------------------------------
(* The steps.                                                              *)

LEMMA InitInv == Init => Inv
<1> SUFFICES ASSUME Init
             PROVE  Inv
  OBVIOUS
<1>1. stack = <<>> /\ queue = <<>> /\ <<>> \in Seq(Closures) /\ <<>> \in Seq(Loops) /\ Len(<<>>) = 0
  BY DEF Init
<1>2. TypeOK
  BY <1>1 DEF Init, TypeOK, DiskOK, AccountOK, ThreadOK, Loops, Closures, Config
<1>3. SendsAreRouted /\ BoxInv /\ MainInv /\ SessionInv /\ DiskInv
  BY DEF Init, SendsAreRouted, BoxInv, MainInv, SessionInv, DiskInv, In, Free
<1>4. QueueInv /\ StackInv
  BY <1>1 DEF QueueInv, StackInv, In
<1>5. QED
  BY <1>2, <1>3, <1>4 DEF Inv

(* The process ends: nothing of it is left. *)
LEMMA DiesKeepsInv ==
  ASSUME Inv, Dies, dirty' \in BOOLEAN, asserted' \in BOOLEAN,
         ~dirty' => ~dirty /\ (persisted # None => file = persisted)
  PROVE  Inv'
<1>1. stack' = <<>> /\ queue' = <<>> /\ <<>> \in Seq(Closures) /\ <<>> \in Seq(Loops) /\ Len(<<>>) = 0
  BY DEF Dies, Fresh
<1>2. TypeOK'
  BY <1>1 DEF Inv, Dies, Fresh, disk, TypeOK, DiskOK, AccountOK, ThreadOK, Loops, Closures, Config
<1>3. (SendsAreRouted /\ BoxInv /\ MainInv /\ SessionInv /\ DiskInv)'
  BY DEF Dies, Fresh, disk, SendsAreRouted, BoxInv, MainInv, SessionInv, DiskInv, In, Free
<1>4. (QueueInv /\ StackInv)'
  BY <1>1 DEF QueueInv, StackInv, In
<1>5. QED
  BY <1>2, <1>3, <1>4 DEF Inv

LEMMA StopsKeepsInv ==
  ASSUME Inv, Stops
  PROVE  Inv'
<1>1. Dies /\ asserted' = asserted
      /\ dirty' = (dirty \/ main \notin {"loop", "flow"} \/ persisted \notin {None, session})
  BY DEF Stops
<1>2. dirty' \in BOOLEAN /\ asserted' \in BOOLEAN
  BY <1>1 DEF Inv, TypeOK, ThreadOK
<1>3. ~dirty' => ~dirty /\ (persisted # None => file = persisted)
  BY <1>1 DEF Inv, DiskInv
<1>4. QED
  BY <1>1, <1>2, <1>3, DiesKeepsInv

LEMMA LaunchKeepsInv ==
  ASSUME Inv, Launch
  PROVE  Inv'
<1>1. stack' = <<>> /\ queue' = <<>> /\ <<>> \in Seq(Closures) /\ <<>> \in Seq(Loops) /\ Len(<<>>) = 0
  BY DEF Launch, Fresh
<1>2. TypeOK'
  BY <1>1 DEF Inv, Launch, Fresh, disk, TypeOK, DiskOK, AccountOK, ThreadOK, Loops, Closures, Config
<1>3. (SendsAreRouted /\ BoxInv /\ MainInv /\ SessionInv /\ DiskInv)'
  BY DEF Inv, Launch, Fresh, disk, SendsAreRouted, BoxInv, MainInv, SessionInv, DiskInv, In, Free
<1>4. (QueueInv /\ StackInv)'
  BY <1>1 DEF QueueInv, StackInv, In
<1>5. QED
  BY <1>2, <1>3, <1>4 DEF Inv

LEMMA WorldKeepsInv ==
  ASSUME Inv, Persists \/ BridgeComesOrGoes
  PROVE  Inv'
<1>1. /\ env' = env /\ file' = file /\ UNCHANGED <<account, thread, gateway, boxes, ghosts>>
      /\ persisted' \in {persisted, session}
      /\ persisted' # persisted => main = "loop" /\ running
      /\ bridge' \in BOOLEAN
  BY DEF Persists, BridgeComesOrGoes, disk, Inv, TypeOK, ThreadOK
<1>2. TypeOK'
  BY <1>1 DEF Inv, TypeOK, DiskOK, AccountOK, ThreadOK, account, thread, boxes, ghosts, Config
<1>3. (SendsAreRouted /\ BoxInv /\ MainInv /\ SessionInv)'
  BY <1>1 DEF Inv, account, thread, boxes, ghosts, SendsAreRouted, BoxInv, MainInv, SessionInv, In, Free
<1>4. (QueueInv /\ StackInv)'
  BY <1>1 DEF Inv, account, thread, boxes, ghosts, QueueInv, StackInv, In, Free
<1>5. DiskInv'
  BY <1>1 DEF Inv, account, thread, boxes, ghosts, DiskInv, In
<1>6. QED
  BY <1>2, <1>3, <1>4, <1>5 DEF Inv

LEMMA GlobalFailKeepsInv ==
  ASSUME Inv, GlobalFail
  PROVE  Inv'
<1>1. /\ main = "loop" /\ session # None /\ ~offline /\ ~loggingOut /\ queue' = Append(queue, "logOut")
      /\ UNCHANGED <<disk, account, running, main, stack, gateway, boxes, bridge, ghosts>>
  BY DEF GlobalFail
<1>2. queue = <<>>
  <2>1. queue \in Seq(Closures)
    BY TypeLemma DEF Inv
  <2>2. \A i \in 1..Len(queue) : queue[i] # "logOut"
    BY DEF GlobalFail, Contains
  <2>3. \A i \in 1..Len(queue) : FALSE
    BY <1>1, <2>2 DEF Inv, QueueInv, Free
  <2>4. QED
    BY <2>1, <2>3, EmptySeq
<1>3. restored /\ restored' = restored
  BY <1>1 DEF Inv, SessionInv, ghosts
<1>4. queue' \in Seq(Closures) /\ Len(queue') = 1 /\ queue'[1] = "logOut"
  <2>1. queue \in Seq(Closures) /\ Len(queue) = 0 /\ "logOut" \in Closures
    BY <1>2, EmptySeq DEF Closures
  <2>2. QED
    BY <1>1, <2>1, PostsLast DEF Inv
<1>5. TypeOK'
  BY <1>1, <1>4 DEF Inv, TypeOK, DiskOK, AccountOK, ThreadOK, disk, account, boxes, ghosts, Config, Closures
<1>6. (SendsAreRouted /\ BoxInv /\ MainInv /\ SessionInv)'
  BY <1>1 DEF Inv, disk, account, boxes, ghosts, SendsAreRouted, BoxInv, MainInv, SessionInv, In, Free
<1>7. QueueInv'
  BY <1>1, <1>3, <1>4 DEF account, QueueInv
<1>8. (StackInv /\ DiskInv)'
  BY <1>1 DEF Inv, disk, account, ghosts, StackInv, DiskInv, In
<1>9. QED
  BY <1>5, <1>6, <1>7, <1>8 DEF Inv

(* A step of the flow that runs was all that waited. *)
LEMMA RunsAlone ==
  ASSUME Inv, NEW closure, Posted(closure), closure # "logOut"
  PROVE  Free /\ queue' = <<>> /\ ~attempting /\ ~loggingOut
<1>1. queue \in Seq(Closures) /\ queue[1] = closure /\ Len(queue) >= 1
  BY TypeLemma, TakesFirst DEF Inv
<1>2. Len(queue) \in Nat /\ queue # <<>>
  BY <1>1, EmptyQueue DEF Posted
<1>3. 1 = Len(queue) /\ Free
  <2>1. 1 \in 1..Len(queue)
    BY <1>1, <1>2
  <2>2. QED
    BY <1>1, <2>1, Zenon DEF Inv, QueueInv
<1>4. queue' \in Seq(Closures) /\ Len(queue') = 0
  BY <1>3, TakesFirst DEF Inv
<1>5. QED
  BY <1>2, <1>3, <1>4, EmptyQueue DEF Inv, SessionInv, BoxInv, Free

(* While the main thread is not free, only a log-out may wait. *)
LEMMA OnlyLogOut ==
  ASSUME Inv, ~Free, ~restored
  PROVE  queue = <<>>
<1>1. queue \in Seq(Closures) /\ Len(queue) \in Nat
  BY TypeLemma, EmptyQueue DEF Inv
<1>2. \A i \in 1..Len(queue) : queue[i] = "logOut" /\ i = 1
  BY DEF Inv, QueueInv
<1>3. Len(queue) # 1
  BY <1>2 DEF Inv, QueueInv
<1>4. ~(Len(queue) >= 2)
  <2>1. Len(queue) >= 2 => 2 \in 1..Len(queue)
    BY <1>1
  <2>2. QED
    BY <1>2, <2>1
<1>5. \A n \in Nat : n # 1 /\ ~(n >= 2) => n = 0
  OBVIOUS
<1>6. QED
  BY <1>1, <1>3, <1>4, <1>5, EmptyQueue, Zenon

LEMMA LogOutKeepsInv ==
  ASSUME Inv, LogOut
  PROVE  Inv'
<1>1. /\ Posted("logOut") /\ main = "loop" /\ loggingOut' = (loggingOut \/ session # None)
      /\ UNCHANGED <<disk, session, offline, running, bridge, ghosts, main, stack, gateway, boxes>>
  BY DEF LogOut, Posted
<1>2. /\ Len(queue) \in Nat /\ Len(queue) >= 1 /\ queue[1] = "logOut"
      /\ queue' \in Seq(Closures) /\ Len(queue') = Len(queue) - 1
      /\ \A i \in 1..Len(queue') : queue'[i] = queue[i + 1]
  BY <1>1, TypeLemma, TakesFirst, EmptyQueue DEF Inv
<1>3. ~loggingOut
  BY <1>2 DEF Inv, QueueInv
<1>4. loggingOut' => restored /\ queue' = <<>>
  <2> SUFFICES ASSUME loggingOut'
               PROVE  restored /\ queue' = <<>>
    OBVIOUS
  <2>1. session # None
    BY <1>1, <1>3
  <2>2. Len(queue) = 1
    <3>1. \A i \in 1..Len(queue) : queue[i] = "logOut" /\ i = 1
      BY <2>1 DEF Inv, QueueInv, Free
    <3>2. Len(queue) >= 2 => 2 \in 1..Len(queue)
      BY <1>2
    <3>3. QED
      BY <1>2, <3>1, <3>2
  <2>3. restored
    BY <1>2, <2>2 DEF Inv, QueueInv
  <2>4. Len(queue') = 0
    BY <1>2, <2>2
  <2>5. QED
    BY <1>2, <2>3, <2>4, EmptyQueue
<1>5. QueueInv'
  <2>1. Len(queue') <= 1
    BY <1>2 DEF Inv, QueueInv
  <2>2. ASSUME NEW i \in 1..Len(queue')
        PROVE  queue'[i] # "logOut" /\ i = Len(queue') /\ Free
    <3>1. i = 1 /\ Len(queue) = 2 /\ queue'[i] = queue[2]
      BY <1>2, <2>1 DEF Inv, QueueInv
    <3>2. queue[2] # "logOut"
      BY <3>1 DEF Inv, QueueInv
    <3>3. QED
      BY <1>2, <3>1, <3>2 DEF Inv, QueueInv
  <2>3. Free' = Free
    BY <1>1 DEF Free, boxes
  <2>4. Len(queue') \in Nat
    BY <1>2, EmptyQueue
  <2>5. QED
    BY <2>1, <2>2, <2>3, <2>4 DEF QueueInv
<1>6. TypeOK'
  BY <1>1, <1>2, <1>4 DEF Inv, TypeOK, DiskOK, AccountOK, ThreadOK, disk, boxes, ghosts, Config, Closures
<1>7. (SendsAreRouted /\ BoxInv /\ StackInv /\ DiskInv)'
  BY <1>1 DEF Inv, disk, boxes, ghosts, SendsAreRouted, BoxInv, StackInv, DiskInv, In
<1>8. MainInv'
  BY <1>1, <1>2, EmptySeq DEF Inv, disk, boxes, ghosts, MainInv, Free
<1>9. SessionInv'
  BY <1>1, <1>4 DEF Inv, ghosts, SessionInv
<1>10. QED
  BY <1>5, <1>6, <1>7, <1>8, <1>9 DEF Inv

LEMMA LogOutDoneKeepsInv ==
  ASSUME Inv, LogOutDone
  PROVE  Inv'
<1>1. /\ main = "loop" /\ loggingOut
      /\ session' = None /\ loggingOut' = FALSE /\ restored' = FALSE
      /\ gateway' = IF gateway = None THEN None ELSE [gateway EXCEPT !.wired = FALSE]
      /\ UNCHANGED <<disk, offline, thread, boxes, bridge, dirty, asserted>>
  BY DEF LogOutDone, LoggedOut
<1>2. restored /\ session # None /\ queue = <<>> /\ queue' = <<>>
  BY <1>1 DEF Inv, SessionInv, TypeOK, AccountOK, thread
<1>3. /\ gateway' \in [user : Config, wired : BOOLEAN] \cup {None}
      /\ gateway' = None <=> gateway = None
  BY <1>1, TypeLemma, ConstantsAssumption DEF Inv, Config
<1>4. TypeOK'
  BY <1>1, <1>3 DEF Inv, TypeOK, DiskOK, AccountOK, ThreadOK, disk, thread, boxes, Config
<1>5. (SendsAreRouted /\ SessionInv /\ MainInv)'
  BY <1>1, <1>2 DEF Inv, thread, SendsAreRouted, SessionInv, MainInv, Free
<1>6. QueueInv'
  BY <1>2, EmptyQueue, EmptySeq DEF QueueInv
<1>7. StackInv'
  BY <1>1, <1>2, <1>3 DEF Inv, thread, StackInv, In
<1>8. BoxInv' /\ DiskInv'
  BY <1>1, <1>2 DEF Inv, disk, thread, boxes, BoxInv, DiskInv, In
<1>9. QED
  BY <1>4, <1>5, <1>6, <1>7, <1>8 DEF Inv

(* What the flow posts is one box, unless the household's member is known. *)
LEMMA OffersOne ==
  ASSUME Inv, queue = <<>>, queue' = queue \o Offers
  PROVE  /\ queue' \in Seq(Closures) /\ Len(queue') <= 1
         /\ \A i \in 1..Len(queue') : queue'[i] # "logOut" /\ i = Len(queue')
         /\ Resolved \in User => queue' = <<>>
<1>1. Resolved \in User \cup {Nobody, NoConfig}
  BY TypeLemma DEF Inv, Resolved
<1>2. Offers \in {<<>>, <<"box">>, <<"picker">>} /\ (Resolved \in User => Offers = <<>>)
  BY <1>1, ConstantsAssumption DEF Offers
<1>3. /\ Offers \in Seq(Closures) /\ Len(Offers) <= 1
      /\ \A i \in 1..Len(Offers) : Offers[i] # "logOut" /\ i = Len(Offers)
  <2>1. \A x \in Closures : <<x>> \in Seq(Closures) /\ Len(<<x>>) = 1 /\ <<x>>[1] = x
    OBVIOUS
  <2>2. "box" \in Closures /\ "picker" \in Closures
    BY DEF Closures
  <2>3. CASE Offers = <<>>
    BY <2>3, EmptySeq
  <2>4. CASE Offers = <<"box">>
    BY <2>1, <2>2, <2>4
  <2>5. CASE Offers = <<"picker">>
    BY <2>1, <2>2, <2>5
  <2>6. QED
    BY <1>2, <2>3, <2>4, <2>5
<1>4. <<>> \o Offers = Offers
  BY <1>3, ConcatEmptySeq
<1>5. QED
  BY <1>2, <1>3, <1>4

LEMMA StartConnectFlowKeepsInv ==
  ASSUME Inv, StartConnectFlow
  PROVE  Inv'
<1>1. /\ main = "flow" /\ main' = "loop"
      /\ queue' = IF session = None THEN queue \o Offers ELSE queue
      /\ UNCHANGED <<disk, account, running, boxes, bridge, ghosts>>
  BY DEF StartConnectFlow
<1>2. /\ stack = <<>> /\ queue = <<>> /\ box = "none" /\ ~attempting
      /\ session # None => ~offline /\ persisted = session
  BY <1>1 DEF Inv, StackInv, MainInv, BoxInv
<1>3. /\ queue' \in Seq(Closures) /\ Len(queue') <= 1
      /\ \A i \in 1..Len(queue') : queue'[i] # "logOut" /\ i = Len(queue')
      /\ session # None \/ Resolved \in User => queue' = <<>>
  BY <1>1, <1>2, OffersOne, EmptySeq
<1>4. CASE UNCHANGED <<gateway, stack>>
  <2>1. TypeOK'
    BY <1>1, <1>3, <1>4 DEF Inv, TypeOK, DiskOK, AccountOK, ThreadOK, disk, account, boxes, ghosts, Config, Closures
  <2>2. (BoxInv /\ MainInv /\ StackInv /\ DiskInv)'
    BY <1>1, <1>2, <1>4 DEF Inv, disk, account, boxes, ghosts, BoxInv, MainInv, StackInv, DiskInv, In, Free
  <2>3. (SendsAreRouted /\ SessionInv)'
    BY <1>1, <1>2, <1>3, <1>4 DEF Inv, TypeOK, AccountOK, account, ghosts, SendsAreRouted, SessionInv
  <2>4. QueueInv'
    <3>1. queue' # <<>> => session' = None
      BY <1>1, <1>3 DEF account
    <3>2. session' = None => Free'
      BY <1>1, <1>2, <1>4 DEF Free, boxes
    <3>3. Len(queue') \in Nat /\ (Len(queue') = 0 <=> queue' = <<>>)
      BY <1>3, EmptyQueue
    <3>4. \A i \in 1..Len(queue') : Free'
      BY <3>1, <3>2, <3>3
    <3>5. \A n \in Nat : n <= 1 => n <= 2 /\ n # 2
      OBVIOUS
    <3>6. Len(queue') = 1 => 1 \in 1..Len(queue')
      OBVIOUS
    <3>7. QED
      BY <1>3, <3>3, <3>4, <3>5, <3>6 DEF QueueInv
  <2>5. QED
    BY <2>1, <2>2, <2>3, <2>4 DEF Inv
<1>5. ASSUME NEW what \in {"reattach", "seed"}, Bootstraps(what, Resolved), Resolved \in Config,
             what = "reattach" => session # None,
             what = "seed" => session = None /\ Resolved \in User
      PROVE  Inv'
  <2>1. /\ gateway' = [user |-> Resolved, wired |-> FALSE] /\ gateway' # None
        /\ gateway' \in [user : Config, wired : BOOLEAN]
    <3>1. gateway' = [user |-> Resolved, wired |-> FALSE]
      BY <1>5 DEF Bootstraps
    <3>2. [user |-> Resolved, wired |-> FALSE] \in [user : Config, wired : BOOLEAN]
      BY <1>5
    <3>3. QED
      BY <3>1, <3>2, ConstantsAssumption, Zenon DEF Config
  <2>2. [of |-> what, user |-> Resolved] \in Loops
    BY <1>5 DEF Loops
  <2>3. /\ stack' \in Seq(Loops) /\ Len(stack') = 1 /\ stack' # <<>>
        /\ stack'[1].of = what /\ stack'[1].user = Resolved
    BY <1>2, <1>5, <2>2, PushesFirst DEF Bootstraps
  <2>4. queue' = <<>>
    BY <1>3, <1>5
  <2>5. TypeOK'
    BY <1>1, <1>3, <2>1, <2>3 DEF Inv, TypeOK, DiskOK, AccountOK, ThreadOK, disk, account, boxes, ghosts, Config, Closures, Loops
  <2>6. (SendsAreRouted /\ SessionInv /\ BoxInv /\ MainInv)'
    BY <1>1, <1>2, <2>3, <2>4 DEF Inv, account, boxes, ghosts, SendsAreRouted, SessionInv, BoxInv, MainInv, Free
  <2>7. QueueInv'
    BY <2>4, EmptySeq DEF QueueInv
  <2>8. session # None /\ ~dirty => file = session /\ Resolved = session
    BY <1>1, TypeLemma, ConstantsAssumption DEF Inv, DiskInv, Resolved, Config
  <2>9. StackInv'
    BY <1>1, <1>2, <1>5, <2>1, <2>3, <2>8 DEF account, ghosts, StackInv, In
  <2>10. DiskInv'
    BY <1>1, <1>2, <1>5, <2>3, <2>8 DEF Inv, DiskInv, disk, account, ghosts, In
  <2>11. QED
    BY <2>5, <2>6, <2>7, <2>9, <2>10 DEF Inv
<1>6. Resolved \in Config \cup {NoConfig} /\ User \subseteq Config
  BY TypeLemma DEF Inv, Resolved
<1>7. CASE session # None /\ Resolved # NoConfig /\ Bootstraps("reattach", Resolved)
  BY <1>5, <1>6, <1>7
<1>8. CASE session = None /\ Resolved \in User /\ Bootstraps("seed", Resolved)
  BY <1>5, <1>6, <1>8
<1>9. QED
  BY <1>4, <1>7, <1>8 DEF StartConnectFlow

LEMMA RunsFlowKeepsInv ==
  ASSUME Inv, RunsFlow
  PROVE  Inv'
<1>1. /\ Posted("flow") /\ main' = "flow" /\ running' = running
      /\ UNCHANGED <<disk, session, offline, bridge, ghosts, loggingOut, stack, gateway, boxes>>
  BY DEF RunsFlow, Posted
<1>2. Free /\ queue' = <<>> /\ ~attempting /\ running
  <2>1. queue # <<>>
    BY <1>1 DEF Posted
  <2>2. Free /\ queue' = <<>> /\ ~attempting
    BY <1>1, RunsAlone
  <2>3. QED
    BY <2>1, <2>2 DEF Inv, MainInv

<1>3. TypeOK'
  BY <1>1, <1>2, EmptySeq DEF Inv, TypeOK, DiskOK, AccountOK, ThreadOK, disk, boxes, ghosts, Config, Closures
<1>4. (SendsAreRouted /\ SessionInv /\ BoxInv /\ MainInv)'
  BY <1>1, <1>2 DEF Inv, disk, boxes, ghosts, SendsAreRouted, SessionInv, BoxInv, MainInv, Free
<1>5. QueueInv'
  BY <1>2, EmptySeq DEF QueueInv
<1>6. (StackInv /\ DiskInv)'
  BY <1>1, <1>2 DEF Inv, disk, ghosts, StackInv, DiskInv, Free, In
<1>7. QED
  BY <1>3, <1>4, <1>5, <1>6 DEF Inv

(* A loop that quits was the only one. *)
LEMMA EndsOnly ==
  ASSUME Inv, NEW what, NEW ok, Ended(what, ok)
  PROVE  /\ stack # <<>> /\ In(what) /\ main = "loop" /\ running /\ ~Free /\ ok = bridge
         /\ Frame = stack[1] /\ Frame.of = what /\ Frame.user \in Config
         /\ Pops => stack' = <<>>
<1>1. stack # <<>> /\ main = "loop" /\ Frame.of = what /\ ok = bridge
  BY DEF Ended
<1>2. Frame = stack[1] /\ Frame \in Loops /\ (Pops => stack' = <<>>)
  BY <1>1, PopsOnly DEF Inv
<1>3. running /\ ~Free
  BY <1>1 DEF Inv, MainInv, Free
<1>4. QED
  BY <1>1, <1>2, <1>3 DEF In, Loops

(* With a loop that has no session, nothing waits. *)
LEMMA NothingWaits ==
  ASSUME Inv, ~Free, session = None
  PROVE  queue = <<>>
  BY OnlyLogOut DEF Inv, TypeOK, AccountOK

LEMMA NothingWaitsQueueInv ==
  ASSUME queue' = <<>>
  PROVE  QueueInv'
  BY EmptySeq DEF QueueInv

LEMMA ReattachesKeepsInv ==
  ASSUME Inv, NEW ok \in BOOLEAN, Reattaches(ok)
  PROVE  Inv'
<1>1. /\ stack # <<>> /\ In("reattach") /\ main = "loop" /\ running /\ ~Free
      /\ (Pops => stack' = <<>>)
  BY EndsOnly DEF Reattaches
<1>2. CASE ok /\ session = None /\ Aborts
  <2>1. Dies /\ dirty' = dirty /\ asserted' = TRUE
    BY <1>2 DEF Aborts
  <2>2. dirty' \in BOOLEAN /\ asserted' \in BOOLEAN
    BY <2>1 DEF Inv, TypeOK, ThreadOK
  <2>3. ~dirty' => ~dirty /\ (persisted # None => file = persisted)
    BY <1>1, <2>1 DEF Inv, DiskInv
  <2>4. QED
    BY <2>1, <2>2, <2>3, DiesKeepsInv
<1>3. CASE /\ ~ok \/ session # None
           /\ Pops
           /\ offline' = (ok \/ offline)
           /\ gateway' = IF ok THEN [gateway EXCEPT !.wired = TRUE] ELSE None
           /\ UNCHANGED <<disk, session, loggingOut, running, main, queue, boxes, bridge, ghosts>>
  <2>1. gateway \in [user : Config, wired : BOOLEAN] /\ ~offline
    BY <1>1, TypeLemma DEF Inv, StackInv, In
  <2>2. /\ gateway' \in [user : Config, wired : BOOLEAN] \cup {None} /\ offline' = ok
        /\ ok => gateway' # None /\ gateway'.wired
        /\ ~ok => gateway' = None
    <3>1. CASE ok
      <4>1. gateway' \in [user : Config, wired : BOOLEAN] /\ gateway'.wired
        BY <1>3, <2>1, <3>1
      <4>2. gateway' # None
        BY <4>1, ConstantsAssumption, Zenon DEF Config
      <4>3. QED
        BY <1>3, <3>1, <4>1, <4>2
    <3>2. CASE ~ok
      BY <1>3, <2>1, <3>2
    <3>3. QED
      BY <3>1, <3>2
  <2>3. stack' = <<>> /\ <<>> \in Seq(Loops)
    BY <1>1, <1>3
  <2>4. box = "none" /\ ~attempting
    BY <1>1 DEF Inv, BoxInv, In
  <2>5. TypeOK'
    BY <1>3, <2>2, <2>3 DEF Inv, TypeOK, DiskOK, AccountOK, ThreadOK, disk, boxes, ghosts, Config, Loops
  <2>6. (SendsAreRouted /\ SessionInv /\ BoxInv /\ MainInv)'
    BY <1>1, <1>3, <2>1, <2>2, <2>3, <2>4
    DEF Inv, disk, boxes, ghosts, SendsAreRouted, SessionInv, BoxInv, MainInv, Free
  <2>7. QueueInv'
    <3>1. \A i \in 1..Len(queue) : queue[i] = "logOut"
      BY <1>1 DEF Inv, QueueInv
    <3>2. QED
      BY <1>3, <3>1 DEF Inv, QueueInv, ghosts
  <2>8. (StackInv /\ DiskInv)'
    BY <1>1, <1>3, <2>3, EmptySeq DEF Inv, disk, ghosts, StackInv, DiskInv, In
  <2>9. QED
    BY <2>5, <2>6, <2>7, <2>8 DEF Inv
<1>4. QED
  BY <1>2, <1>3 DEF Reattaches

LEMMA SeedsKeepsInv ==
  ASSUME Inv, NEW ok \in BOOLEAN, NEW what, Seeds(what, ok)
  PROVE  Inv'
<1>1. /\ stack # <<>> /\ In(what) /\ main = "loop" /\ running /\ ~Free
      /\ Frame.user \in Config /\ (Pops => stack' = <<>>)
  BY EndsOnly DEF Seeds
<1>2. what \in {"seed", "attempt"} /\ session = None /\ gateway \in [user : Config, wired : BOOLEAN]
  BY <1>1, TypeLemma DEF Seeds, Inv, StackInv, In
<1>3. queue = <<>> /\ ~restored /\ ~loggingOut
  BY <1>1, <1>2, NothingWaits DEF Inv, TypeOK, AccountOK, SessionInv
<1>4. CASE /\ ok /\ session = None
           /\ Pops
           /\ session' = Frame.user /\ offline' = TRUE
           /\ gateway' = [gateway EXCEPT !.wired = TRUE]
           /\ main' = "save"
           /\ UNCHANGED <<disk, loggingOut, running, queue, boxes, bridge, ghosts>>
  <2>1. /\ gateway' \in [user : Config, wired : BOOLEAN] /\ gateway'.wired
        /\ session' \in Config /\ session' # None
    BY <1>1, <1>2, <1>4, ConstantsAssumption DEF Config
  <2>2. gateway' # None
    BY <2>1, ConstantsAssumption, Zenon DEF Config
  <2>3. stack' = <<>> /\ <<>> \in Seq(Loops)
    BY <1>1, <1>4
  <2>4. TypeOK'
    BY <1>4, <2>1, <2>2, <2>3 DEF Inv, TypeOK, DiskOK, AccountOK, ThreadOK, disk, boxes, ghosts, Config, Loops
  <2>5. (SendsAreRouted /\ SessionInv /\ MainInv /\ DiskInv)'
    BY <1>1, <1>3, <1>4, <2>1, <2>2, <2>3
    DEF disk, ghosts, SendsAreRouted, SessionInv, MainInv, DiskInv, In
  <2>6. BoxInv'
    BY <1>1, <1>4 DEF Inv, BoxInv, boxes
  <2>7. QueueInv'
    BY <1>3, <1>4, NothingWaitsQueueInv
  <2>8. StackInv'
    BY <2>3, EmptySeq DEF StackInv, In
  <2>9. QED
    BY <2>4, <2>5, <2>6, <2>7, <2>8 DEF Inv
<1>5. CASE /\ ~ok
           /\ Pops
           /\ gateway' = None
           /\ attempting' = (attempting /\ what = "seed")
           /\ UNCHANGED <<disk, account, running, main, queue, box, bridge, ghosts>>
  <2>1. stack' = <<>> /\ <<>> \in Seq(Loops)
    BY <1>1, <1>5
  <2>2. attempting' = FALSE
    BY <1>1, <1>2, <1>5 DEF Inv, BoxInv, In, TypeOK
  <2>3. TypeOK'
    BY <1>5, <2>1, <2>2 DEF Inv, TypeOK, DiskOK, AccountOK, ThreadOK, disk, account, ghosts, Config, Loops
  <2>4. (SendsAreRouted /\ SessionInv /\ MainInv /\ DiskInv)'
    BY <1>1, <1>2, <1>3, <1>5, <2>1
    DEF Inv, disk, account, ghosts, SendsAreRouted, SessionInv, MainInv, DiskInv, In
  <2>5. BoxInv'
    BY <1>1, <1>2, <1>5, <2>1, <2>2 DEF BoxInv, account
  <2>6. QueueInv'
    BY <1>3, <1>5, NothingWaitsQueueInv
  <2>7. StackInv'
    BY <2>1, EmptySeq DEF StackInv, In
  <2>8. QED
    BY <2>3, <2>4, <2>5, <2>6, <2>7 DEF Inv
<1>6. QED
  BY <1>2, <1>4, <1>5 DEF Seeds

LEMMA ShowsPickerKeepsInv ==
  ASSUME Inv, NEW ok \in BOOLEAN, ShowsPicker(ok)
  PROVE  Inv'
<1>1. /\ stack # <<>> /\ In("roster") /\ main = "loop" /\ running /\ ~Free
      /\ Pops /\ stack' = <<>> /\ <<>> \in Seq(Loops) /\ box' = "picker"
      /\ UNCHANGED <<disk, account, running, main, queue, gateway, attempting, bridge, ghosts>>
  BY EndsOnly DEF ShowsPicker
<1>2. session = None /\ ~attempting
  BY <1>1 DEF Inv, StackInv, BoxInv, In
<1>3. queue = <<>>
  BY <1>1, <1>2, NothingWaits
<1>4. TypeOK'
  BY <1>1, <1>2 DEF Inv, TypeOK, DiskOK, AccountOK, ThreadOK, disk, account, ghosts, Config, Loops
<1>5. (SendsAreRouted /\ SessionInv /\ MainInv /\ DiskInv /\ BoxInv)'
  BY <1>1, <1>2, <1>3
  DEF Inv, disk, account, ghosts, SendsAreRouted, SessionInv, MainInv, DiskInv, BoxInv, In
<1>6. QueueInv'
  BY <1>1, <1>3, NothingWaitsQueueInv
<1>7. StackInv'
  BY <1>1, EmptySeq DEF StackInv, In
<1>8. QED
  BY <1>4, <1>5, <1>6, <1>7 DEF Inv

(* Straight-line code: the queue and the stack stay. *)
LEMMA StraightLine ==
  ASSUME Inv, queue' = queue, stack' = stack, stack = <<>>, ~Free,
         restored' = restored, loggingOut' = loggingOut
  PROVE  QueueInv' /\ StackInv'
<1>1. \A i \in 1..Len(queue) : queue[i] = "logOut"
  BY DEF Inv, QueueInv
<1>2. QueueInv'
  BY <1>1 DEF Inv, QueueInv
<1>3. StackInv'
  BY EmptySeq DEF StackInv, In
<1>4. QED
  BY <1>2, <1>3

LEMMA SaveKeepsInv ==
  ASSUME Inv, Truncates \/ Writes \/ SaveFails
  PROVE  Inv'
<1>1. /\ main \in {"save", "cut"} /\ main' \in {"cut", "loop"}
      /\ persisted' = persisted /\ env' = env
      /\ UNCHANGED <<account, running, stack, queue, gateway, bridge, restored, asserted>>
  BY DEF Truncates, Writes, SaveFails, Reports, disk, ghosts
<1>2. /\ session # None /\ offline /\ gateway # None /\ gateway.wired
      /\ stack = <<>> /\ ~Free /\ running /\ (box # "none" => attempting) /\ (attempting => box = "connect")
  BY <1>1 DEF Inv, StackInv, BoxInv, MainInv, Free
<1>3. /\ main' = "cut" => box' = box /\ attempting' = attempting
      /\ main' = "loop" => box' = "none" /\ ~attempting' /\ attempting' \in BOOLEAN
  BY <1>1, <1>2 DEF Truncates, Writes, SaveFails, Reports, boxes
<1>4. /\ file' \in {file, NoConfig, session} /\ dirty' \in BOOLEAN
      /\ main' = "loop" /\ ~dirty' => file' = session
  BY <1>1 DEF Truncates, Writes, SaveFails, Reports, ghosts, disk, Inv, TypeOK, ThreadOK
<1>5. TypeOK'
  BY <1>1, <1>2, <1>3, <1>4, ConstantsAssumption DEF Inv, TypeOK, DiskOK, AccountOK, ThreadOK, account, Config
<1>6. (SendsAreRouted /\ SessionInv /\ MainInv /\ BoxInv)'
  BY <1>1, <1>2, <1>3
  DEF Inv, account, SendsAreRouted, SessionInv, MainInv, BoxInv
<1>7. DiskInv'
  BY <1>1, <1>2, <1>4 DEF DiskInv, account, In
<1>8. QueueInv' /\ StackInv'
  BY <1>1, <1>2, StraightLine DEF account
<1>9. QED
  BY <1>5, <1>6, <1>7, <1>8 DEF Inv

LEMMA SwitchUserKeepsInv ==
  ASSUME Inv, SwitchUser \/ WritesNobody
  PROVE  Inv'
<1>1. /\ main \in {"loop", "recut"} /\ main' \in {"recut", "forget"}
      /\ session # None /\ stack = <<>>
      /\ file' \in {file, NoConfig, Nobody} /\ dirty' \in BOOLEAN
      /\ UNCHANGED <<env, persisted, account, running, stack, queue, gateway, boxes, bridge,
                     restored, asserted>>
  BY DEF SwitchUser, WritesNobody, Inv, MainInv, StackInv, TypeOK, ThreadOK
<1>2. box = "none" /\ ~attempting /\ ~Free /\ running
  BY <1>1 DEF Inv, BoxInv, MainInv, Free
<1>3. TypeOK'
  BY <1>1, ConstantsAssumption DEF Inv, TypeOK, DiskOK, AccountOK, ThreadOK, account, boxes, Config
<1>4. (SendsAreRouted /\ SessionInv /\ MainInv /\ BoxInv)'
  BY <1>1, <1>2
  DEF Inv, account, boxes, SendsAreRouted, SessionInv, MainInv, BoxInv
<1>5. DiskInv'
  BY <1>1, <1>2 DEF DiskInv, account, In
<1>6. QueueInv' /\ StackInv'
  BY <1>1, <1>2, StraightLine DEF account
<1>7. QED
  BY <1>3, <1>4, <1>5, <1>6 DEF Inv

LEMMA ForgetsKeepsInv ==
  ASSUME Inv, Forgets
  PROVE  Inv'
<1>1. /\ main = "forget" /\ main' = "loop" /\ gateway' = None
      /\ session' = None /\ loggingOut' = FALSE /\ restored' = FALSE
      /\ queue' = Append(queue, "flow")
      /\ UNCHANGED <<disk, offline, running, stack, boxes, bridge, dirty, asserted>>
  BY DEF Forgets, LoggedOut
<1>2. session # None /\ stack = <<>> /\ box = "none" /\ ~attempting /\ running /\ ~Free
  BY <1>1 DEF Inv, StackInv, BoxInv, MainInv, Free
<1>3. Free'
  BY <1>1, <1>2 DEF Free, boxes
<1>4. queue \in Seq(Closures) /\ Len(queue) \in Nat /\ "flow" \in Closures
  BY TypeLemma, EmptyQueue DEF Inv, Closures
<1>5. /\ queue' \in Seq(Closures) /\ Len(queue') = Len(queue) + 1
      /\ \A i \in 1..Len(queue) : queue'[i] = queue[i]
      /\ queue'[Len(queue')] = "flow"
  BY <1>1, <1>4, PostsLast DEF Inv
<1>6. \A i \in 1..Len(queue) : queue[i] = "logOut" /\ i = 1
  BY <1>2 DEF Inv, QueueInv
<1>7. Len(queue) <= 1
  <2>1. ~(Len(queue) >= 2)
    <3>1. Len(queue) >= 2 => 2 \in 1..Len(queue)
      BY <1>4
    <3>2. QED
      BY <1>6, <3>1
  <2>2. \A n \in Nat : ~(n >= 2) => n <= 1
    OBVIOUS
  <2>3. QED
    BY <1>4, <2>1, <2>2, Zenon
<1>8. QueueInv'
  <2>1. Len(queue') <= 2 /\ Len(queue') \in Nat /\ Len(queue') >= 1
    BY <1>4, <1>5, <1>7
  <2>2. ASSUME NEW i \in 1..Len(queue')
        PROVE  \/ i = 1 /\ i # Len(queue') /\ queue'[i] = "logOut"
               \/ i = Len(queue') /\ queue'[i] = "flow"
    <3>1. CASE i = Len(queue')
      BY <1>5, <3>1
    <3>2. CASE i # Len(queue')
      <4>1. i \in 1..Len(queue)
        BY <1>4, <1>5, <3>2
      <4>2. QED
        BY <1>5, <1>6, <3>2, <4>1
    <3>3. QED
      BY <3>1, <3>2
  <2>3. 1 \in 1..Len(queue')
    BY <2>1
  <2>4. Len(queue') = 2 => queue'[1] = "logOut"
    BY <2>2, <2>3
  <2>5. Len(queue') = 1 => queue'[1] = "flow"
    BY <1>5
  <2>6. QED
    BY <1>1, <1>3, <2>1, <2>2, <2>4, <2>5 DEF QueueInv
<1>9. TypeOK'
  BY <1>1, <1>2, <1>5 DEF Inv, TypeOK, DiskOK, AccountOK, ThreadOK, disk, boxes, Config, Closures
<1>10. (SendsAreRouted /\ SessionInv /\ MainInv /\ BoxInv /\ DiskInv)'
  BY <1>1, <1>2
  DEF boxes, SendsAreRouted, SessionInv, MainInv, BoxInv, DiskInv, In
<1>11. StackInv'
  BY <1>1, <1>2, EmptySeq DEF StackInv, In
<1>12. QED
  BY <1>8, <1>9, <1>10, <1>11 DEF Inv

(* A box is shown, or answered, or the picker's choice runs: nothing else  *)
(* waits, and one thing at most is nested or posted.                       *)
LEMMA BoxesKeepInv ==
  ASSUME Inv, ShowsConnectBox \/ Dismisses
  PROVE  Inv'
<1>1. /\ main = "loop" /\ attempting' = FALSE /\ gateway' = gateway
      /\ UNCHANGED <<disk, account, running, main, stack, bridge, ghosts>>
      /\ \/ box' = "connect" /\ queue' = <<>> /\ Free /\ running
         \/ box' = "none" /\ queue' = queue
  <2>1. CASE ShowsConnectBox
    <3>1. Posted("box") /\ queue # <<>>
      BY <2>1 DEF ShowsConnectBox, Posted
    <3>2. Free /\ queue' = <<>> /\ running
      BY <3>1, RunsAlone DEF Inv, MainInv
    <3>3. QED
      BY <2>1, <3>1, <3>2 DEF ShowsConnectBox, Posted, account
  <2>2. CASE Dismisses
    BY <2>2 DEF Dismisses, thread
  <2>3. QED
    BY <2>1, <2>2
<1>2. TypeOK'
  BY <1>1, EmptySeq DEF Inv, TypeOK, DiskOK, AccountOK, ThreadOK, disk, account, ghosts, Config, Closures
<1>3. (SendsAreRouted /\ SessionInv /\ MainInv /\ DiskInv /\ StackInv)'
  BY <1>1
  DEF Inv, disk, account, ghosts, SendsAreRouted, SessionInv, MainInv, DiskInv, StackInv, In, Free
<1>4. BoxInv'
  BY <1>1 DEF BoxInv, account, Free
<1>5. QueueInv'
  <2>1. CASE queue' = <<>>
    BY <2>1, NothingWaitsQueueInv
  <2>2. CASE box' = "none" /\ queue' = queue
    BY <1>1, <2>2 DEF Inv, QueueInv, Free, account, ghosts
  <2>3. QED
    BY <1>1, <2>1, <2>2
<1>6. QED
  BY <1>2, <1>3, <1>4, <1>5 DEF Inv

LEMMA ClicksKeepsInv ==
  ASSUME Inv, NEW u \in User, Clicks(u)
  PROVE  Inv'
<1>1. /\ main = "loop" /\ box = "picker" /\ box' = "none" /\ queue' = Append(queue, u)
      /\ UNCHANGED <<disk, account, running, main, stack, gateway, attempting, bridge, ghosts>>
  BY DEF Clicks
<1>2. session = None /\ stack = <<>> /\ ~attempting /\ running /\ ~Free
  BY <1>1 DEF Inv, BoxInv, MainInv, Free
<1>3. queue = <<>> /\ ~restored /\ ~loggingOut
  BY <1>1, <1>2, NothingWaits DEF Inv, TypeOK, AccountOK, SessionInv
<1>4. /\ queue' \in Seq(Closures) /\ Len(queue') = 1 /\ queue'[1] = u
      /\ u # "logOut"
  <2>1. u \in Closures /\ Len(queue) = 0 /\ u # "logOut"
    BY <1>3, EmptySeq, ConstantsAssumption DEF Closures
  <2>2. QED
    BY <1>1, <2>1, PostsLast DEF Inv
<1>5. Free'
  BY <1>1, <1>2 DEF Free, account
<1>6. TypeOK'
  BY <1>1, <1>4 DEF Inv, TypeOK, DiskOK, AccountOK, ThreadOK, disk, account, ghosts, Config, Closures
<1>7. (SendsAreRouted /\ SessionInv /\ MainInv /\ DiskInv /\ StackInv /\ BoxInv)'
  BY <1>1, <1>2, <1>3
  DEF Inv, disk, account, ghosts, SendsAreRouted, SessionInv, MainInv, DiskInv, StackInv, BoxInv, In
<1>8. QueueInv'
  BY <1>4, <1>5 DEF QueueInv
<1>9. QED
  BY <1>6, <1>7, <1>8 DEF Inv

(* A loop is nested from the free main thread, or from the box.            *)
LEMMA NestsKeepsInv ==
  ASSUME Inv, NEW what \in {"seed", "attempt", "roster"}, NEW u \in Config,
         main = "loop", stack = <<>>, session = None, running, main' = main,
         stack' = Append(stack, [of |-> what, user |-> u]),
         \/ gateway' = [user |-> u, wired |-> FALSE]
         \/ what = "roster" /\ gateway' = gateway,
         queue' = <<>>, box' = box, attempting' \in BOOLEAN,
         IF what = "attempt" THEN box = "connect" /\ attempting' ELSE box = "none" /\ ~attempting',
         UNCHANGED <<disk, account, running, bridge, ghosts>>
  PROVE  Inv'
<1>1. /\ gateway' \in [user : Config, wired : BOOLEAN] \cup {None}
      /\ what # "roster" => gateway' # None
  <2>1. [user |-> u, wired |-> FALSE] \in [user : Config, wired : BOOLEAN]
    OBVIOUS
  <2>2. [user |-> u, wired |-> FALSE] # None
    BY <2>1, ConstantsAssumption, Zenon DEF Config
  <2>3. QED
    BY <2>1, <2>2, TypeLemma DEF Inv
<1>2. [of |-> what, user |-> u] \in Loops
  BY DEF Loops
<1>3. /\ stack' \in Seq(Loops) /\ Len(stack') = 1 /\ stack' # <<>>
      /\ stack'[1].of = what
  BY <1>2, PushesFirst
<1>4. ~restored /\ ~loggingOut
  BY DEF Inv, TypeOK, AccountOK, SessionInv
<1>5. TypeOK'
  BY <1>1, <1>3, EmptySeq DEF Inv, TypeOK, DiskOK, AccountOK, ThreadOK, disk, account, ghosts, Config, Closures, Loops
<1>6. (SendsAreRouted /\ SessionInv /\ MainInv)'
  BY <1>3, <1>4 DEF Inv, account, ghosts, SendsAreRouted, SessionInv, MainInv
<1>7. BoxInv'
  BY <1>3 DEF BoxInv, In, account
<1>8. (DiskInv /\ StackInv)'
  BY <1>1, <1>3 DEF Inv, DiskInv, StackInv, In, disk, account, ghosts
<1>9. QED
  BY <1>5, <1>6, <1>7, <1>8, NothingWaitsQueueInv DEF Inv

LEMMA SubmitsKeepsInv ==
  ASSUME Inv, Submits
  PROVE  Inv'
<1>1. /\ main = "loop" /\ box = "connect" /\ ~attempting /\ session = None /\ attempting' = TRUE
      /\ gateway' = [user |-> Nobody, wired |-> FALSE]
      /\ stack' = Append(stack, [of |-> "attempt", user |-> Nobody])
      /\ UNCHANGED <<disk, account, running, main, queue, box, bridge, ghosts>>
  BY DEF Submits, Bootstraps
<1>2. stack = <<>> /\ running /\ ~Free
  BY <1>1 DEF Inv, BoxInv, MainInv, Free
<1>3. queue = <<>>
  BY <1>1, <1>2, NothingWaits
<1>4. QED
  BY <1>1, <1>2, <1>3, NestsKeepsInv DEF Config

LEMMA RosterKeepsInv ==
  ASSUME Inv, FetchesRoster
  PROVE  Inv'
<1>1. /\ Posted("picker") /\ queue # <<>>
      /\ stack' = Append(stack, [of |-> "roster", user |-> Nobody])
      /\ UNCHANGED <<disk, account, running, main, gateway, boxes, bridge, ghosts>>
  BY DEF FetchesRoster, Posted, account
<1>2. Free /\ queue' = <<>> /\ ~attempting /\ running
  BY <1>1, RunsAlone DEF Inv, MainInv
<1>3. /\ main = "loop" /\ stack = <<>> /\ session = None /\ main' = main /\ gateway' = gateway
      /\ box = "none" /\ box' = box /\ ~attempting' /\ attempting' \in BOOLEAN /\ Nobody \in Config
  BY <1>1, <1>2 DEF Config, Free, boxes, Inv, TypeOK
<1>4. QED
  BY <1>1, <1>2, <1>3, NestsKeepsInv

LEMMA PicksKeepsInv ==
  ASSUME Inv, NEW u \in User, Picks(u)
  PROVE  Inv'
<1>1. Posted(u) /\ queue # <<>> /\ u # "logOut"
  BY ConstantsAssumption DEF Picks, Posted
<1>2. Free /\ queue' = <<>> /\ ~attempting /\ running
  BY <1>1, RunsAlone DEF Inv, MainInv
<1>3. /\ gateway' = [user |-> u, wired |-> FALSE]
      /\ stack' = Append(stack, [of |-> "seed", user |-> u])
      /\ UNCHANGED <<disk, account, running, main, boxes, bridge, ghosts>>
  BY <1>1, <1>2 DEF Picks, Posted, Bootstraps, account, Free
<1>4. /\ main = "loop" /\ stack = <<>> /\ session = None /\ main' = main
      /\ box = "none" /\ box' = box /\ ~attempting' /\ attempting' \in BOOLEAN /\ u \in Config
  BY <1>2, <1>3 DEF Config, Free, boxes, Inv, TypeOK
<1>5. QED
  BY <1>2, <1>3, <1>4, NestsKeepsInv

LEMMA StepInv == Inv /\ [Next]_vars => Inv'
<1> SUFFICES ASSUME Inv, [Next]_vars
             PROVE  Inv'
  OBVIOUS
<1>1. CASE StartConnectFlow \/ RunsFlow \/ LogOut
  BY <1>1, StartConnectFlowKeepsInv, RunsFlowKeepsInv, LogOutKeepsInv
<1>2. ASSUME NEW ok \in BOOLEAN, Reattaches(ok) \/ ShowsPicker(ok)
      PROVE  Inv'
  BY <1>2, ReattachesKeepsInv, ShowsPickerKeepsInv
<1>3. ASSUME NEW ok \in BOOLEAN, NEW what, Seeds(what, ok)
      PROVE  Inv'
  BY <1>3, SeedsKeepsInv
<1>4. CASE Truncates \/ Writes \/ SaveFails
  BY <1>4, SaveKeepsInv
<1>5. CASE SwitchUser \/ WritesNobody
  BY <1>5, SwitchUserKeepsInv
<1>6. CASE Forgets
  BY <1>6, ForgetsKeepsInv
<1>7. CASE ShowsConnectBox \/ Dismisses
  BY <1>7, BoxesKeepInv
<1>8. CASE FetchesRoster \/ Submits
  BY <1>8, RosterKeepsInv, SubmitsKeepsInv
<1>9. ASSUME NEW u \in User, Picks(u) \/ Clicks(u)
      PROVE  Inv'
  BY <1>9, PicksKeepsInv, ClicksKeepsInv
<1>10. CASE Launch \/ Stops \/ Persists \/ BridgeComesOrGoes
  BY <1>10, LaunchKeepsInv, StopsKeepsInv, WorldKeepsInv
<1>11. CASE GlobalFail \/ LogOutDone
  BY <1>11, GlobalFailKeepsInv, LogOutDoneKeepsInv
<1>12. CASE UNCHANGED vars
  BY <1>12 DEF vars, disk, account, thread, boxes, ghosts, Inv, TypeOK, DiskOK, AccountOK, ThreadOK,
               SendsAreRouted, QueueInv, StackInv, BoxInv, MainInv, SessionInv, DiskInv, In, Free
<1>13. QED
  BY <1>1, <1>2, <1>3, <1>4, <1>5, <1>6, <1>7, <1>8, <1>9, <1>10, <1>11, <1>12 DEF Next, MainThread

\* Every start, answer, switch and kill leaves the types: a gateway that no
\* session answers to is of a bootstrap under way, or its session is gone.
THEOREM TypeCorrect == Spec => []TypeOK
<1>1. Inv => TypeOK
  BY DEF Inv
<1>2. QED
  BY <1>1, InitInv, StepInv, PTL DEF Spec

\* bootstrapBlocking() and fetchRosterBlocking(): their loops never nest, since
\* all that could start another one is a step of the flow, and one step of the
\* flow at most waits, for a free main thread.
THEOREM LoopsDoNotNestHolds == Spec => []LoopsDoNotNest
<1>1. ASSUME Inv
      PROVE  LoopsDoNotNest
  <2>1. Len(stack) <= 1
    BY <1>1 DEF Inv, StackInv
  <2>2. ASSUME attempting, main \notin {"save", "cut"}
        PROVE  \E i \in DOMAIN stack : stack[i].of = "attempt"
    <3>1. In("attempt")
      BY <1>1, <2>2 DEF Inv, BoxInv
    <3>2. stack \in Seq(Loops) /\ stack # <<>>
      BY <1>1, <3>1, TypeLemma DEF Inv, In
    <3>3. 1 \in DOMAIN stack
      <4>1. Len(stack) \in Nat \ {0} /\ DOMAIN stack = 1..Len(stack)
        BY <3>2, EmptySeq, LenProperties, Zenon
      <4>2. \A n \in Nat \ {0} : 1 \in 1..n
        OBVIOUS
      <4>3. QED
        BY <4>1, <4>2, Zenon
    <3>4. QED
      BY <3>1, <3>3 DEF In
  <2>3. QED
    BY <2>1, <2>2 DEF LoopsDoNotNest
<1>2. QED
  BY <1>1, InitInv, StepInv, PTL DEF Spec

\* SeedWithConfig() and ReattachWithConfig() after their bootstraps: an offline
\* session that the user can see has a gateway that answers to it.
THEOREM SendsAreRoutedHolds == Spec => []SendsAreRouted
<1>1. Inv => SendsAreRouted
  BY DEF Inv
<1>2. QED
  BY <1>1, InitInv, StepInv, PTL DEF Spec

\* SaveConnectConfig() of SeedWithConfig() and SwitchUser(), and the next
\* start: the user whose chats fill a restored session is the one it was
\* seeded for, if no save failed or was cut short.
THEOREM ReattachedAsSeededHolds == Spec => []ReattachedAsSeeded
<1>1. ASSUME Inv
      PROVE  ReattachedAsSeeded
  <2> SUFFICES ASSUME NEW i \in DOMAIN stack, stack[i].of = "reattach", session # None, ~dirty
               PROVE  stack[i].user = session
    BY DEF ReattachedAsSeeded
  <2>1. stack \in Seq(Loops) /\ Len(stack) <= 1
    BY <1>1, TypeLemma DEF Inv, StackInv
  <2>2. i = 1 /\ stack # <<>>
    BY <2>1
  <2>3. In("reattach")
    BY <2>2 DEF In
  <2>4. QED
    BY <1>1, <2>2, <2>3 DEF Inv, StackInv
<1>2. QED
  BY <1>1, InitInv, StepInv, PTL DEF Spec

-----------------------------------------------------------------------------
(* The session that was seeded.                                            *)

LEMMA StepKeepsSeeded ==
  ASSUME Inv, [Next]_vars, running, running', session # None, session' = None, main # "forget"
  PROVE  restored
<1>1. CASE LogOutDone
  BY <1>1 DEF LogOutDone, Inv, SessionInv
<1>2. ASSUME NEW ok \in BOOLEAN, NEW what, Reattaches(ok) \/ ShowsPicker(ok) \/ Seeds(what, ok)
      PROVE  FALSE
  <2>1. ~Dies
    BY DEF Dies
  <2>2. CASE Reattaches(ok)
    BY <2>1, <2>2 DEF Reattaches, Aborts
  <2>3. CASE ShowsPicker(ok)
    BY <2>3 DEF ShowsPicker, account
  <2>4. CASE Seeds(what, ok)
    BY <2>1, <2>4 DEF Seeds, Aborts, account
  <2>5. QED
    BY <1>2, <2>2, <2>3, <2>4
<1>3. CASE StartConnectFlow \/ RunsFlow \/ LogOut
  BY <1>3 DEF StartConnectFlow, RunsFlow, LogOut, Posted, account
<1>4. CASE Truncates \/ Writes \/ SaveFails \/ WritesNobody \/ SwitchUser
  BY <1>4 DEF Truncates, Writes, SaveFails, WritesNobody, SwitchUser, account
<1>5. CASE ShowsConnectBox \/ FetchesRoster \/ Submits \/ Dismisses
  BY <1>5 DEF ShowsConnectBox, FetchesRoster, Submits, Dismisses, Posted, account
<1>6. ASSUME NEW u \in User, Picks(u) \/ Clicks(u)
      PROVE  FALSE
  BY <1>6 DEF Picks, Clicks, Posted, account
<1>7. CASE Launch \/ Stops
  BY <1>7 DEF Launch, Stops, Dies
<1>8. CASE Persists \/ BridgeComesOrGoes \/ GlobalFail
  BY <1>8 DEF Persists, BridgeComesOrGoes, GlobalFail, account
<1>9. CASE Forgets
  BY <1>9 DEF Forgets
<1>10. CASE UNCHANGED vars
  BY <1>10 DEF vars, account
<1>11. QED
  BY <1>1, <1>2, <1>3, <1>4, <1>5, <1>6, <1>7, <1>8, <1>9, <1>10 DEF Next, MainThread

\* setGlobalFailHandler and logOut(): what the inherited client logs out is a
\* session that this start restored, never one that was seeded in this run.
THEOREM SeededIsKeptHolds == Spec => SeededIsKept
<1>1. Inv /\ [Next]_vars =>
        [running /\ running' /\ session # None /\ session' = None /\ main # "forget" => restored]_vars
  BY StepKeepsSeeded
<1>2. QED
  BY <1>1, InitInv, StepInv, PTL DEF Spec, SeededIsKept

\* createSession(): its Expects(_session == nullptr) holds whenever a bootstrap
\* that is to seed a session ends, so that the process does not end there; it
\* is the Expects() of session(), in a reattach, that ExpectationsHold refutes.
THEOREM SeedsIntoNoSession ==
  Spec => [][\A ok \in BOOLEAN : \A what \in {"seed", "attempt"} : Seeds(what, ok) => running']_vars
<1>1. ASSUME Inv, NEW ok \in BOOLEAN, NEW what \in {"seed", "attempt"}, Seeds(what, ok)
      PROVE  running'
  <2>1. running /\ session = None
    BY <1>1, EndsOnly DEF Seeds, Inv, StackInv
  <2>2. QED
    BY <1>1, <2>1 DEF Seeds
<1>2. Inv => [\A ok \in BOOLEAN : \A what \in {"seed", "attempt"} : Seeds(what, ok) => running']_vars
  BY <1>1
<1>3. QED
  BY <1>2, InitInv, StepInv, PTL DEF Spec
=============================================================================
