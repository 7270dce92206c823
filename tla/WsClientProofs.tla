-------------------------- MODULE WsClientProofs ---------------------------
(***************************************************************************)
(* Proofs about WsClient, for any bound on what is sent on a socket and    *)
(* any table of delays.                                                    *)
(***************************************************************************)
EXTENDS WsClient, FiniteSetTheorems, SequenceTheorems, WellFoundedInduction, TLAPS

(* The part of the types that the control of the client needs. *)
ControlOK ==
    /\ state \in {"Idle", "Connecting", "Handshake", "Open", "Closed"}
    /\ deliberate \in BOOLEAN /\ timer \in BOOLEAN
    /\ sock \in {"none", "connecting", "pendingClose", "up", "silent", "closing", "down"}

(* A client connects exactly while its socket does, and once it was closed *)
(* the socket is no longer read.                                           *)
SocketFollows ==
    /\ state = "Connecting" <=> sock = "connecting"
    /\ sock = "pendingClose" => deliberate
    /\ sock \in {"connecting", "up", "silent"} => ~deliberate
    /\ deliberate => state \in {"Closed", "Handshake"}

Inv == ControlOK /\ RetryIsPending /\ SocketFollows

(* fail() of a client that is not connecting any more. *)
LEMMA FailKeepsInv ==
  ASSUME ControlOK, RetryIsPending, Fail,
         deliberate' = deliberate,
         sock' \notin {"connecting", "pendingClose"},
         sock' \in {"up", "silent"} => ~deliberate,
         sock' \in {"none", "up", "silent", "closing", "down"}
  PROVE  Inv'
  BY DEF Fail, ScheduleReconnect, Inv, ControlOK, RetryIsPending, SocketFollows

(* What a read does to the control: nothing, a handshake that succeeds or  *)
(* frames that go on, or a failure.                                        *)
LEMMA ServeFramesOutcome ==
  ASSUME NEW done, NEW n, NEW written, NEW tries, ServeFrames(done, n, written, tries)
  PROVE  \/ state' = "Open" /\ timer' = timer
         \/ state' = "Closed" /\ (timer' = IF deliberate THEN timer ELSE TRUE)
  BY DEF ServeFrames, ScheduleReconnect

LEMMA InitInv == Init => Inv
  BY DEF Init, Inv, ControlOK, RetryIsPending, SocketFollows

LEMMA ReadsKeepsInv ==
  ASSUME Inv, NEW n, Reads(n)
  PROVE  Inv'
<1> USE DEF Inv, ControlOK, RetryIsPending, SocketFollows
<1>1. sock = "up" /\ sock' = "up" /\ ~deliberate /\ deliberate' = deliberate
  BY DEF Reads
<1>2. CASE state = "Handshake" /\ n >= 2
  <2>1. EndHandshake(n)
    BY <1>2 DEF Reads
  <2>2. CASE sent[1] = "accept"
    <3>1. ServeFrames(1, n, <<"auth">>, 0)
      BY <2>1, <2>2 DEF EndHandshake
    <3>2. QED
      BY <1>1, <1>2, <3>1, ServeFramesOutcome
  <2>3. CASE sent[1] # "accept"
    BY <1>1, <2>1, <2>3, FailKeepsInv DEF EndHandshake
  <2>4. QED
    BY <2>2, <2>3
<1>3. CASE ~(state = "Handshake" /\ n >= 2) /\ state = "Open"
  <2>1. ServeFrames(taken, n, out, attempts)
    BY <1>3 DEF Reads
  <2>2. QED
    BY <1>1, <1>3, <2>1, ServeFramesOutcome
<1>4. CASE ~(state = "Handshake" /\ n >= 2) /\ state # "Open"
  BY <1>1, <1>4 DEF Reads
<1>5. QED
  BY <1>2, <1>3, <1>4

LEMMA BridgeKeepsInv ==
  ASSUME Inv, Bridge
  PROVE  Inv'
  BY DEF Bridge, Replies, Sends, GoesSilent, StopsOrStarts, stream,
         Inv, ControlOK, RetryIsPending, SocketFollows

LEMMA StepInv == Inv /\ [Next]_vars => Inv'
<1> SUFFICES ASSUME Inv, [Next]_vars
             PROVE  Inv'
  OBVIOUS
<1> USE DEF Inv, ControlOK, RetryIsPending, SocketFollows
<1>1. CASE Opens
  BY <1>1 DEF Opens, OpenSocket
<1>2. CASE TimerFires
  BY <1>2 DEF TimerFires, OpenSocket
<1>3. CASE Connects
  BY <1>3 DEF Connects
<1>4. CASE ConnectFails
  BY <1>4, FailKeepsInv DEF ConnectFails
<1>5. CASE Drops
  BY <1>5, FailKeepsInv DEF Drops
<1>6. CASE ReadsSome
  BY <1>6, ReadsKeepsInv DEF ReadsSome
<1>7. CASE SendsText
  BY <1>7 DEF SendsText
<1>8. CASE Closes
  BY <1>8 DEF Closes
<1>9. CASE Bridge
  BY <1>9, BridgeKeepsInv
<1>10. CASE UNCHANGED vars
  BY <1>10 DEF vars
<1>11. QED
  BY <1>1, <1>2, <1>3, <1>4, <1>5, <1>6, <1>7, <1>8, <1>9, <1>10 DEF Next

\* scheduleReconnect() and close(): a reconnect is pending exactly when the
\* client has failed and was not closed.
THEOREM RetryIsPendingHolds == Spec => []RetryIsPending
<1>1. Inv => RetryIsPending
  BY DEF Inv
<1>2. QED
  BY <1>1, InitInv, StepInv, PTL DEF Spec

-----------------------------------------------------------------------------
(* After close().                                                          *)

LEMMA StepIsQuiet ==
  Inv /\ [Next]_vars /\ deliberate =>
      deliberate' /\ received' = received /\ out' = out
<1> SUFFICES ASSUME Inv, [Next]_vars, deliberate
             PROVE  deliberate' /\ received' = received /\ out' = out
  OBVIOUS
<1> USE DEF Inv, ControlOK, RetryIsPending, SocketFollows, stream
<1>1. CASE Opens
  BY <1>1 DEF Opens
<1>2. CASE TimerFires
  BY <1>2 DEF TimerFires
<1>3. CASE Connects
  BY <1>3 DEF Connects
<1>4. CASE ConnectFails
  BY <1>4 DEF ConnectFails
<1>5. CASE Drops
  BY <1>5 DEF Drops
<1>6. CASE ReadsSome
  BY <1>6 DEF ReadsSome, Reads
<1>7. CASE SendsText
  BY <1>7 DEF SendsText
<1>8. CASE Closes
  BY <1>8 DEF Closes
<1>9. CASE Bridge
  BY <1>9 DEF Bridge, Replies, Sends, GoesSilent, StopsOrStarts
<1>10. CASE UNCHANGED vars
  BY <1>10 DEF vars
<1>11. QED
  BY <1>1, <1>2, <1>3, <1>4, <1>5, <1>6, <1>7, <1>8, <1>9, <1>10 DEF Next

\* close(): nothing is emitted or written after it, whatever the socket
\* still does.
THEOREM QuietAfterCloseHolds == Spec => QuietAfterClose
<1>1. Inv /\ [Next]_vars =>
        [deliberate => deliberate' /\ received' = received /\ out' = out]_vars
  BY StepIsQuiet
<1>2. QED
  BY <1>1, InitInv, StepInv, PTL DEF Spec, QuietAfterClose

-----------------------------------------------------------------------------
(* The first frame.                                                        *)

OutOK ==
    /\ taken \in Nat
    /\ out \in Seq({"auth", "text", "pong", "close"})
    /\ AuthComesFirst

LEMMA AtIsFinite ==
  ASSUME NEW frame, NEW a \in Nat, NEW b \in Nat
  PROVE  IsFiniteSet(At(frame, a, b)) /\ Cardinality(At(frame, a, b)) \in Nat
<1>1. IsFiniteSet(a..b)
  BY FS_Interval
<1>2. At(frame, a, b) \in SUBSET (a..b)
  BY DEF At
<1>3. QED
  BY <1>1, <1>2, FS_Subset, FS_CardinalityType

LEMMA PingsAreCounted ==
  ASSUME NEW a \in Nat, NEW b \in Nat
  PROVE  Pings(a, b) \in Nat
  BY AtIsFinite DEF Pings

(* Pongs after an auth frame leave it first. *)
LEMMA ServeFramesKeepsAuth ==
  ASSUME NEW done \in Nat, NEW n \in Nat, NEW tries,
         NEW written \in Seq({"auth", "text", "pong", "close"}),
         written # <<>>, written[1] = "auth",
         ServeFrames(done, n, written, tries)
  PROVE  OutOK'
<1>1. PICK b \in done .. Complete(n) :
         /\ taken' = b
         /\ out' = written \o [i \in 1..Pings(done + 1, b) |-> "pong"]
  BY DEF ServeFrames
<1>2. b \in Nat
  BY <1>1 DEF Complete
<1>3. Pings(done + 1, b) \in Nat
  <2>1. done + 1 \in Nat
    OBVIOUS
  <2>2. QED
    BY <1>2, <2>1, PingsAreCounted
<1> DEFINE pongs == [i \in 1..Pings(done + 1, b) |-> "pong"]
<1>4. pongs \in Seq({"auth", "text", "pong", "close"})
  BY <1>3
<1>5. out' = written \o pongs /\ taken' \in Nat
  BY <1>1, <1>2
<1>6. /\ written \o pongs \in Seq({"auth", "text", "pong", "close"})
      /\ written \o pongs # <<>> /\ (written \o pongs)[1] = "auth"
  <2> HIDE DEF pongs
  <2> QED
    BY <1>4
<1>7. QED
  BY <1>5, <1>6 DEF OutOK, AuthComesFirst

LEMMA ReadsKeepsOut ==
  ASSUME OutOK, NEW n \in Nat, Reads(n)
  PROVE  OutOK'
<1>1. CASE state = "Handshake" /\ n >= 2
  <2>1. EndHandshake(n)
    BY <1>1 DEF Reads
  <2>2. CASE sent[1] = "accept"
    <3>1. ServeFrames(1, n, <<"auth">>, 0)
      BY <2>1, <2>2 DEF EndHandshake
    <3>2. /\ <<"auth">> \in Seq({"auth", "text", "pong", "close"})
          /\ <<"auth">> # <<>> /\ <<"auth">>[1] = "auth"
      OBVIOUS
    <3>3. QED
      BY <3>1, <3>2, ServeFramesKeepsAuth
  <2>3. CASE sent[1] # "accept"
    <3>1. taken' = 1 /\ out' = out /\ state' # "Open"
      BY <1>1, <2>1, <2>3, Zenon DEF EndHandshake, Fail
    <3>2. QED
      BY <3>1 DEF OutOK, AuthComesFirst
  <2>4. QED
    BY <2>2, <2>3
<1>2. CASE ~(state = "Handshake" /\ n >= 2) /\ state = "Open"
  <2>1. ServeFrames(taken, n, out, attempts)
    BY <1>2 DEF Reads
  <2>2. QED
    BY <1>2, <2>1, ServeFramesKeepsAuth DEF OutOK, AuthComesFirst
<1>3. CASE ~(state = "Handshake" /\ n >= 2) /\ state # "Open"
  BY <1>3 DEF Reads, OutOK, AuthComesFirst
<1>4. QED
  BY <1>1, <1>2, <1>3

LEMMA StepOut == OutOK /\ [Next]_vars => OutOK'
<1> SUFFICES ASSUME OutOK, [Next]_vars
             PROVE  OutOK'
  OBVIOUS
<1> USE DEF OutOK, AuthComesFirst, stream
<1>1. CASE Opens
  BY <1>1 DEF Opens, OpenSocket
<1>2. CASE TimerFires
  <2>1. CASE deliberate
    BY <1>2, <2>1 DEF TimerFires
  <2>2. CASE ~deliberate
    BY <1>2, <2>2 DEF TimerFires, OpenSocket
  <2>3. QED
    BY <2>1, <2>2
<1>3. CASE Connects
  BY <1>3 DEF Connects
<1>4. CASE ConnectFails
  BY <1>4 DEF ConnectFails, Fail
<1>5. CASE Drops
  BY <1>5 DEF Drops, Fail
<1>6. CASE ReadsSome
  BY <1>6, ReadsKeepsOut, ConstantsAssumption DEF ReadsSome
<1>7. CASE SendsText
  BY <1>7 DEF SendsText
<1>8. CASE Closes
  BY <1>8 DEF Closes
<1>9. CASE Bridge
  BY <1>9 DEF Bridge, Replies, Sends, GoesSilent, StopsOrStarts
<1>10. CASE UNCHANGED vars
  BY <1>10 DEF vars
<1>11. QED
  BY <1>1, <1>2, <1>3, <1>4, <1>5, <1>6, <1>7, <1>8, <1>9, <1>10 DEF Next

\* processHandshake() is Open before it emits connected(): the auth frame is
\* the first that is written to a socket, and written once it is open.
THEOREM AuthComesFirstHolds == Spec => []AuthComesFirst
<1>1. Init => OutOK
  BY DEF Init, OutOK, AuthComesFirst
<1>2. OutOK => AuthComesFirst
  BY DEF OutOK
<1>3. QED
  BY <1>1, <1>2, StepOut, PTL DEF Spec

-----------------------------------------------------------------------------
(* Sequences that go through sets.                                         *)

(* Induction on the naturals is by the least counterexample.               *)
LEMMA Least ==
  ASSUME NEW S \in SUBSET Nat, S # {}
  PROVE  \E x \in S : \A y \in S : x <= y
<1> DEFINE R == {p \in Nat \X Nat : p[1] < p[2]}
<1>1. IsWellFoundedOn(R, Nat)
  BY NatLessThanWellFounded DEF OpToRel
<1>2. \A x, y \in Nat : y < x => <<y, x>> \in R
  OBVIOUS
<1> HIDE DEF R
<1>3. PICK x \in S : \A y \in S : ~(<<y, x>> \in R)
  BY <1>1, WFMin
<1>4. \A y \in S : x <= y
  <2> SUFFICES ASSUME NEW y \in S PROVE x <= y
    OBVIOUS
  <2>1. x \in Nat /\ y \in Nat
    OBVIOUS
  <2>2. ~(y < x)
    BY <1>2, <1>3, <2>1
  <2>3. QED
    BY <2>1, <2>2
<1>5. QED
  BY <1>4

(* One more, greater than all before. *)
LEMMA GoesFurther ==
  ASSUME NEW S \in SUBSET Nat, IsFiniteSet(S), NEW c \in Nat, \A x \in S : x < c,
         NEW s \in [1 .. Cardinality(S) -> S], GoesThrough(s, S)
  PROVE  \E t \in [1 .. Cardinality(S \cup {c}) -> S \cup {c}] : GoesThrough(t, S \cup {c})
<1> DEFINE n == Cardinality(S)
           t == [i \in 1 .. (n + 1) |-> IF i = n + 1 THEN c ELSE s[i]]
<1>1. n \in Nat /\ c \notin S
  BY FS_CardinalityType
<1>2. Cardinality(S \cup {c}) = n + 1
  BY <1>1, FS_AddElement
<1> HIDE DEF n
<1>3. /\ DOMAIN s = 1..n /\ DOMAIN t = 1 .. (n + 1) /\ t[n + 1] = c
      /\ \A i \in 1..n : t[i] = s[i] /\ s[i] \in S /\ i # n + 1
      /\ \A i \in 1 .. (n + 1) : i = n + 1 \/ i \in 1..n
      /\ \A i \in 1..n : i \in 1 .. (n + 1)
      /\ n + 1 \in 1 .. (n + 1)
  BY <1>1 DEF n
<1>4. t \in [1 .. (n + 1) -> S \cup {c}]
  BY <1>3
<1> HIDE DEF t
<1>5. {t[i] : i \in DOMAIN t} = S \cup {c}
  <2>1. {s[i] : i \in 1..n} = S
    BY <1>3 DEF GoesThrough
  <2>2. \A x \in S : \E i \in 1..n : x = s[i]
    BY <2>1
  <2>3. \A x \in S : \E i \in DOMAIN t : x = t[i]
    BY <1>3, <2>2
  <2>4. \E i \in DOMAIN t : c = t[i]
    BY <1>3
  <2>5. \A i \in DOMAIN t : t[i] \in S \cup {c}
    BY <1>3, <1>4
  <2>6. QED
    BY <2>3, <2>4, <2>5
<1>6. ASSUME NEW i \in 1 .. (n + 1), NEW j \in 1 .. (n + 1), i < j
      PROVE  t[i] < t[j]
  <2>1. i \in 1..n
    BY <1>1, <1>6
  <2>2. CASE j \in 1..n
    BY <1>3, <1>6, <2>1, <2>2 DEF GoesThrough
  <2>3. CASE j = n + 1
    BY <1>3, <2>1, <2>3
  <2>4. QED
    BY <1>3, <2>2, <2>3
<1>7. GoesThrough(t, S \cup {c})
  BY <1>3, <1>5, <1>6 DEF GoesThrough
<1>8. QED
  BY <1>2, <1>4, <1>7

(* Texts is there to be chosen, however far the frames go. *)
LEMMA TextsAreThere ==
  ASSUME NEW a \in Nat, NEW b \in Nat
  PROVE  \E s \in [1 .. Cardinality(At("text", a, b)) -> At("text", a, b)] :
            GoesThrough(s, At("text", a, b))
<1> DEFINE Through(S) == \E s \in [1 .. Cardinality(S) -> S] : GoesThrough(s, S)
           Counter == {c \in Nat : ~Through(At("text", a, c))}
<1>1. Through({})
  <2> DEFINE s == [i \in {} |-> 0]
  <2>1. Cardinality({}) = 0 /\ 1..0 = {}
    BY FS_EmptySet
  <2>2. s \in [1..0 -> {}] /\ GoesThrough(s, {})
    BY <2>1 DEF GoesThrough
  <2>3. QED
    BY <2>1, <2>2
<1>2. ASSUME NEW S, NEW c \in Nat, S \in SUBSET Nat, IsFiniteSet(S), \A x \in S : x < c, Through(S)
      PROVE  Through(S \cup {c})
  BY <1>2, GoesFurther
<1> HIDE DEF Through
<1>3. CASE Counter # {}
  <2>1. PICK c \in Counter : \A d \in Counter : c <= d
    BY <1>3, Least
  <2> DEFINE S == IF c = 0 THEN {} ELSE At("text", a, c - 1)
  <2>2. c \in Nat /\ ~Through(At("text", a, c))
    OBVIOUS
  <2>3. S \in SUBSET Nat /\ IsFiniteSet(S) /\ (\A x \in S : x < c) /\ Through(S)
    <3>1. CASE c = 0
      BY <1>1, <3>1, FS_EmptySet
    <3>2. CASE c # 0
      <4>1. c - 1 \in Nat /\ c - 1 \notin Counter
        BY <2>1, <2>2, <3>2
      <4>2. Through(At("text", a, c - 1)) /\ IsFiniteSet(At("text", a, c - 1))
        BY <4>1, AtIsFinite
      <4>3. At("text", a, c - 1) \in SUBSET Nat /\ \A x \in At("text", a, c - 1) : x < c
        BY <2>2 DEF At
      <4>4. QED
        BY <3>2, <4>2, <4>3
    <3>3. QED
      BY <3>1, <3>2
  <2>4. At("text", a, c) = S \/ At("text", a, c) = S \cup {c}
    <3>1. CASE c = 0
      BY <3>1 DEF At
    <3>2. CASE c # 0
      BY <2>2, <3>2 DEF At
    <3>3. QED
      BY <3>1, <3>2
  <2> HIDE DEF S
  <2>5. QED
    BY <1>2, <2>2, <2>3, <2>4
<1>4. CASE Counter = {}
  BY <1>4 DEF Through
<1>5. QED
  BY <1>3, <1>4

(* What Texts chooses is what its name says. *)
LEMMA TextsGoThrough ==
  ASSUME NEW a \in Nat, NEW b \in Nat
  PROVE  Texts(a, b) \in Seq(Nat) /\ GoesThrough(Texts(a, b), At("text", a, b))
<1> DEFINE S == At("text", a, b)
           s == CHOOSE s \in [1 .. Cardinality(S) -> S] : GoesThrough(s, S)
<1>1. s \in [1 .. Cardinality(S) -> S] /\ GoesThrough(s, S)
  BY TextsAreThere
<1>2. Texts(a, b) = s
  BY DEF Texts
<1>3. Cardinality(S) \in Nat
  BY AtIsFinite
<1>4. S \in SUBSET Nat
  BY DEF At
<1> HIDE DEF s, S
<1>5. s \in [1 .. Cardinality(S) -> Nat]
  BY <1>1, <1>4
<1>6. s \in Seq(Nat)
  BY <1>3, <1>5
<1>7. QED
  BY <1>1, <1>2, <1>6 DEF S

LEMMA GoesThroughBoth ==
  ASSUME NEW s \in Seq(Nat), NEW t \in Seq(Nat), NEW S, NEW T,
         GoesThrough(s, S), GoesThrough(t, T), \A x \in S, y \in T : x < y
  PROVE  s \o t \in Seq(Nat) /\ GoesThrough(s \o t, S \cup T)
<1> DEFINE st == s \o t
           m == Len(s)
           n == Len(t)
<1>1. m \in Nat /\ n \in Nat /\ DOMAIN s = 1..m /\ DOMAIN t = 1..n
  OBVIOUS
<1>2. /\ st \in Seq(Nat) /\ Len(st) = m + n
      /\ \A i \in 1 .. (m + n) : st[i] = IF i <= m THEN s[i] ELSE t[i - m]
  BY ConcatProperties
<1> HIDE DEF st, m, n
<1>3. DOMAIN st = 1 .. (m + n)
  BY <1>2
<1>4. \A i \in 1..m : i \in DOMAIN st /\ st[i] = s[i] /\ s[i] \in S
  <2> SUFFICES ASSUME NEW i \in 1..m
               PROVE  i \in DOMAIN st /\ st[i] = s[i] /\ s[i] \in S
    OBVIOUS
  <2>1. i \in 1 .. (m + n) /\ i <= m
    BY <1>1
  <2>2. st[i] = s[i]
    BY <1>2, <2>1
  <2>3. i \in DOMAIN s
    BY <1>1
  <2>4. s[i] \in S
    BY <2>3 DEF GoesThrough
  <2>5. QED
    BY <1>3, <2>1, <2>2, <2>4
<1>5. \A i \in 1..n : i + m \in DOMAIN st /\ st[i + m] = t[i] /\ t[i] \in T
  <2> SUFFICES ASSUME NEW i \in 1..n
               PROVE  i + m \in DOMAIN st /\ st[i + m] = t[i] /\ t[i] \in T
    OBVIOUS
  <2>1. i + m \in 1 .. (m + n) /\ ~(i + m <= m) /\ (i + m) - m = i
    BY <1>1
  <2>2. st[i + m] = t[(i + m) - m]
    BY <1>2, <2>1
  <2>3. QED
    BY <1>1, <1>3, <2>1, <2>2 DEF GoesThrough
<1>6. \A i \in DOMAIN st : i \in 1..m \/ (i - m \in 1..n /\ i = (i - m) + m)
  BY <1>1, <1>3
<1>7. {st[i] : i \in DOMAIN st} = S \cup T
  <2>1. \A i \in DOMAIN st : st[i] \in S \cup T
    BY <1>4, <1>5, <1>6
  <2>2. \A x \in S : \E i \in DOMAIN st : st[i] = x
    <3>1. \A x \in S : \E i \in 1..m : s[i] = x
      BY <1>1 DEF GoesThrough
    <3>2. QED
      BY <1>4, <3>1
  <2>3. \A x \in T : \E i \in DOMAIN st : st[i] = x
    <3>1. \A x \in T : \E i \in 1..n : t[i] = x
      BY <1>1 DEF GoesThrough
    <3>2. QED
      BY <1>5, <3>1
  <2>4. QED
    BY <2>1, <2>2, <2>3
<1>8. ASSUME NEW i \in DOMAIN st, NEW j \in DOMAIN st, i < j
      PROVE  st[i] < st[j]
  <2>1. CASE i \in 1..m /\ j \in 1..m
    BY <1>1, <1>4, <1>8, <2>1 DEF GoesThrough
  <2>2. CASE i \in 1..m /\ j - m \in 1..n /\ j = (j - m) + m
    BY <1>4, <1>5, <2>2
  <2>3. CASE i - m \in 1..n /\ i = (i - m) + m /\ j - m \in 1..n /\ j = (j - m) + m
    <3>1. i - m < j - m
      BY <1>1, <1>3, <1>8
    <3>2. t[i - m] < t[j - m]
      BY <1>1, <2>3, <3>1 DEF GoesThrough
    <3>3. QED
      BY <1>5, <2>3, <3>2
  <2>4. CASE i \notin 1..m /\ j \in 1..m
    BY <1>1, <1>3, <1>8, <2>4
  <2>5. QED
    BY <1>6, <2>1, <2>2, <2>3, <2>4
<1>9. QED
  BY <1>2, <1>7, <1>8 DEF st, GoesThrough

LEMMA CardinalitiesAddUp ==
  ASSUME NEW S, NEW T, IsFiniteSet(S), IsFiniteSet(T), S \cap T = {}
  PROVE  Cardinality(S \cup T) = Cardinality(S) + Cardinality(T)
<1>1. Cardinality(S \cup T) = Cardinality(S) + Cardinality(T) - Cardinality(S \cap T)
  BY FS_Union
<1>2. Cardinality(S \cap T) = 0
  BY FS_EmptySet
<1>3. Cardinality(S) \in Nat /\ Cardinality(T) \in Nat
  BY FS_CardinalityType
<1>4. QED
  BY <1>1, <1>2, <1>3

(* Counting goes on where it has ended. *)
LEMMA PingsAddUp ==
  ASSUME NEW a \in Nat, NEW d \in Nat, NEW b \in Nat, a <= d + 1, d <= b
  PROVE  Pings(a, b) = Pings(a, d) + Pings(d + 1, b)
<1> DEFINE S == At("ping", a, d)
           T == At("ping", d + 1, b)
<1>1. IsFiniteSet(S) /\ IsFiniteSet(T)
  BY AtIsFinite
<1>2. At("ping", a, b) = S \cup T /\ S \cap T = {}
  BY DEF At
<1> HIDE DEF S, T
<1>3. Cardinality(S \cup T) = Cardinality(S) + Cardinality(T)
  BY <1>1, <1>2, CardinalitiesAddUp
<1>4. QED
  BY <1>2, <1>3 DEF Pings, S, T

(* How often a frame is in what was written. *)
Count(q, frame) == Cardinality({i \in DOMAIN q : q[i] = frame})

OutFrame == {"auth", "text", "pong", "close"}

LEMMA CountParts ==
  ASSUME NEW q \in Seq(OutFrame), NEW frame
  PROVE  IsFiniteSet({i \in DOMAIN q : q[i] = frame}) /\ Count(q, frame) \in Nat
<1>1. DOMAIN q = 1 .. Len(q) /\ Len(q) \in Nat
  OBVIOUS
<1>2. IsFiniteSet(1 .. Len(q))
  BY <1>1, FS_Interval
<1>3. {i \in DOMAIN q : q[i] = frame} \in SUBSET (1 .. Len(q))
  BY <1>1
<1>4. QED
  BY <1>2, <1>3, FS_Subset, FS_CardinalityType DEF Count

(* Pongs are added to those that were written. *)
LEMMA PongsAdded ==
  ASSUME NEW q \in Seq(OutFrame), NEW p \in Nat
  PROVE  /\ q \o [i \in 1..p |-> "pong"] \in Seq(OutFrame)
         /\ Count(q \o [i \in 1..p |-> "pong"], "pong") = Count(q, "pong") + p
<1> DEFINE pongs == [i \in 1..p |-> "pong"]
           qp == q \o pongs
           n == Len(q)
           S == {i \in DOMAIN q : q[i] = "pong"}
<1>1. pongs \in Seq(OutFrame) /\ Len(pongs) = p /\ \A i \in 1..p : pongs[i] = "pong"
  BY DEF OutFrame
<1>2. n \in Nat /\ DOMAIN q = 1..n
  OBVIOUS
<1>3. IsFiniteSet(S) /\ Count(q, "pong") = Cardinality(S) /\ Cardinality(S) \in Nat
  BY CountParts DEF Count
<1> HIDE DEF pongs
<1>4. /\ qp \in Seq(OutFrame) /\ Len(qp) = n + p
      /\ \A i \in 1 .. (n + p) : qp[i] = IF i <= n THEN q[i] ELSE pongs[i - n]
  BY <1>1, ConcatProperties
<1> HIDE DEF qp, n
<1>5. DOMAIN qp = 1 .. (n + p)
  BY <1>4
<1>6. \A i \in (n + 1) .. (n + p) : i \in 1 .. (n + p) /\ qp[i] = "pong"
  <2> SUFFICES ASSUME NEW i \in (n + 1) .. (n + p)
               PROVE  i \in 1 .. (n + p) /\ qp[i] = "pong"
    OBVIOUS
  <2>1. i \in 1 .. (n + p) /\ ~(i <= n) /\ i - n \in 1..p
    BY <1>2
  <2>2. QED
    BY <1>1, <1>4, <2>1
<1>7. \A i \in 1..n : i \in 1 .. (n + p) /\ qp[i] = q[i]
  BY <1>2, <1>4
<1>8. \A i \in 1 .. (n + p) : i \in 1..n \/ i \in (n + 1) .. (n + p)
  BY <1>2
<1>9. {i \in DOMAIN qp : qp[i] = "pong"} = S \cup ((n + 1) .. (n + p))
  BY <1>2, <1>5, <1>6, <1>7, <1>8
<1>10. S \cap ((n + 1) .. (n + p)) = {}
  BY <1>2
<1>11. IsFiniteSet((n + 1) .. (n + p)) /\ Cardinality((n + 1) .. (n + p)) = p
  <2>1. n + 1 \in Int /\ n + p \in Int
    BY <1>2
  <2>2. /\ IsFiniteSet((n + 1) .. (n + p))
        /\ Cardinality((n + 1) .. (n + p)) = IF n + 1 > n + p THEN 0 ELSE (n + p) - (n + 1) + 1
    BY <2>1, FS_Interval
  <2>3. (IF n + 1 > n + p THEN 0 ELSE (n + p) - (n + 1) + 1) = p
    BY <1>2
  <2> DEFINE I == (n + 1) .. (n + p)
             k == IF n + 1 > n + p THEN 0 ELSE (n + p) - (n + 1) + 1
  <2>4. IsFiniteSet(I) /\ Cardinality(I) = k /\ k = p
    BY <2>2, <2>3
  <2> HIDE DEF I, k
  <2>5. IsFiniteSet(I) /\ Cardinality(I) = p
    BY <2>4
  <2>6. QED
    BY <2>5 DEF I
<1> HIDE DEF S
<1>12. Cardinality(S \cup ((n + 1) .. (n + p))) = Cardinality(S) + p
  BY <1>3, <1>10, <1>11, CardinalitiesAddUp
<1>13. Count(qp, "pong") = Cardinality(S) + p
  BY <1>9, <1>12 DEF Count
<1>14. QED
  BY <1>3, <1>4, <1>13 DEF qp, pongs

(* Any other frame leaves their number.                                    *)
LEMMA OthersAreNoPongs ==
  ASSUME NEW q \in Seq(OutFrame), NEW frame \in OutFrame \ {"pong"}
  PROVE  Append(q, frame) \in Seq(OutFrame) /\ Count(Append(q, frame), "pong") = Count(q, "pong")
<1> DEFINE n == Len(q)
           longer == Append(q, frame)
<1>1. n \in Nat /\ DOMAIN q = 1..n
  OBVIOUS
<1>2. /\ longer \in Seq(OutFrame) /\ Len(longer) = n + 1
      /\ \A i \in 1..n : longer[i] = q[i]
      /\ longer[n + 1] = frame
  BY AppendProperties
<1> HIDE DEF n, longer
<1>3. DOMAIN longer = 1 .. (n + 1)
  BY <1>2
<1>4. {i \in DOMAIN longer : longer[i] = "pong"} = {i \in DOMAIN q : q[i] = "pong"}
  BY <1>1, <1>2, <1>3
<1>5. QED
  BY <1>2, <1>4 DEF Count, longer

-----------------------------------------------------------------------------
(* What has arrived is served.                                             *)

(* The first b items are served, of what the bridge has sent.              *)
Served(b) ==
    /\ GoesThrough(received, At("text", 2, b))
    /\ Count(out, "pong") = Pings(2, b)

(* No more was read than was sent; a socket on which the handshake is not  *)
(* over has delivered nothing; and an open client has served all that is   *)
(* complete.                                                               *)
ArrivedInv ==
    /\ TypeOK
    /\ arrived <= 2 * Len(sent)
    /\ sock = "connecting" \/ (sock = "up" /\ state = "Handshake") => received = <<>>
    /\ state = "Open" => taken = Complete(arrived) /\ 1 <= taken /\ Served(taken)

LEMMA ServedIs ==
  \A b : Served(b) <=>
     GoesThrough(received, At("text", 2, b)) /\ Written("pong") = Pings(2, b)
  BY DEF Served, Count, Written

LEMMA CompleteParts ==
  ASSUME NEW n \in Nat
  PROVE  /\ Complete(n) \in Nat /\ 2 * Complete(n) <= n /\ (n >= 2 => 1 <= Complete(n))
         /\ \A m \in Nat : n <= 2 * m => Complete(n) <= m
  BY DEF Complete

(* The frames that a read serves are added to those that were served.      *)
LEMMA ServeFramesServes ==
  ASSUME TypeOK, sent' = sent, arrived' \in Nat, UNCHANGED <<deliberate, sock, up>>,
         NEW done \in Nat, 1 <= done, NEW n \in Nat, NEW tries \in 0..LastCap,
         NEW written \in Seq(OutFrame), Count(written, "pong") = Pings(2, done),
         GoesThrough(received, At("text", 2, done)),
         ServeFrames(done, n, written, tries)
  PROVE  /\ TypeOK' /\ state' \in {"Open", "Closed"}
         /\ state' = "Open" => taken' = Complete(n) /\ 1 <= taken' /\ Served(taken)'
<1>1. PICK b \in done .. Complete(n) :
         /\ taken' = b
         /\ received' = received \o Texts(done + 1, b)
         /\ out' = written \o [i \in 1..Pings(done + 1, b) |-> "pong"]
         /\ IF b > done /\ sent[b] = "close"
               THEN state' = "Closed" /\ ScheduleReconnect(tries)
               ELSE /\ b = Complete(n)
                    /\ state' = "Open" /\ attempts' = tries /\ UNCHANGED timer
  BY DEF ServeFrames
<1>2. b \in Nat /\ done <= b /\ 2 \in Nat /\ done + 1 \in Nat /\ 2 <= done + 1
  BY CompleteParts
<1>3. /\ received \in Seq(Nat)
      /\ Texts(done + 1, b) \in Seq(Nat) /\ GoesThrough(Texts(done + 1, b), At("text", done + 1, b))
  BY <1>2, TextsGoThrough DEF TypeOK
<1>4. received' \in Seq(Nat) /\ GoesThrough(received', At("text", 2, b))
  <2>1. /\ At("text", 2, b) = At("text", 2, done) \cup At("text", done + 1, b)
        /\ \A x \in At("text", 2, done), y \in At("text", done + 1, b) : x < y
    BY <1>2 DEF At
  <2> DEFINE S == At("text", 2, done)
             T == At("text", done + 1, b)
             t == Texts(done + 1, b)
  <2>2. t \in Seq(Nat) /\ GoesThrough(t, T) /\ GoesThrough(received, S)
    BY <1>3
  <2>3. \A x \in S, y \in T : x < y
    BY <2>1
  <2> HIDE DEF S, T, t
  <2>4. received \o t \in Seq(Nat) /\ GoesThrough(received \o t, S \cup T)
    BY <1>3, <2>2, <2>3, GoesThroughBoth
  <2>5. QED
    BY <1>1, <2>1, <2>4 DEF S, T, t
<1>5. Pings(done + 1, b) \in Nat /\ Pings(2, b) = Pings(2, done) + Pings(done + 1, b)
  <2>1. Pings(done + 1, b) \in Nat
    BY <1>2, PingsAreCounted
  <2>2. 2 <= done + 1 /\ done <= b
    BY <1>2
  <2>3. Pings(2, b) = Pings(2, done) + Pings(done + 1, b)
    BY <1>2, <2>2, PingsAddUp
  <2>4. QED
    BY <2>1, <2>3
<1>6. out' \in Seq(OutFrame) /\ Count(out', "pong") = Pings(2, b)
  <2> DEFINE p == Pings(done + 1, b)
  <2>1. p \in Nat /\ out' = written \o [i \in 1..p |-> "pong"] /\ Pings(2, b) = Pings(2, done) + p
    BY <1>1, <1>5
  <2> HIDE DEF p
  <2>2. QED
    BY <2>1, PongsAdded
<1>7. /\ state' \in {"Open", "Closed"} /\ timer' \in BOOLEAN /\ attempts' \in 0..LastCap
      /\ state' = "Open" => b = Complete(n)
  <2>1. deliberate \in BOOLEAN /\ timer \in BOOLEAN /\ LastCap \in Nat
    BY ConstantsAssumption DEF TypeOK
  <2>2. CASE b > done /\ sent[b] = "close"
    <3>1. state' = "Closed" /\ ScheduleReconnect(tries)
      BY <1>1, <2>2
    <3>2. CASE deliberate
      BY <2>1, <3>1, <3>2 DEF ScheduleReconnect
    <3>3. CASE ~deliberate
      BY <2>1, <3>1, <3>3 DEF ScheduleReconnect
    <3>4. QED
      BY <2>1, <3>2, <3>3
  <2>3. CASE ~(b > done /\ sent[b] = "close")
    <3>1. b = Complete(n) /\ state' = "Open" /\ attempts' = tries /\ timer' = timer
      BY <1>1, <2>3
    <3>2. QED
      BY <2>1, <3>1
  <2>4. QED
    BY <2>2, <2>3
<1>8. TypeOK'
  BY <1>1, <1>2, <1>4, <1>6, <1>7 DEF TypeOK, OutFrame
<1>9. Served(b)'
  <2>1. At("text", 2, b)' = At("text", 2, b) /\ Pings(2, b)' = Pings(2, b)
    BY DEF At, Pings
  <2>2. QED
    BY <1>4, <1>6, <2>1 DEF Served, GoesThrough, Count
<1>10. QED
  BY <1>1, <1>2, <1>7, <1>8, <1>9

(* fail() leaves an index that is within caps[].                           *)
LEMMA FailKeepsType ==
  ASSUME TypeOK, Fail
  PROVE  /\ state' = "Closed" /\ timer' \in BOOLEAN /\ attempts' \in 0..LastCap
<1>1. /\ state \in {"Idle", "Connecting", "Handshake", "Open", "Closed"}
      /\ deliberate \in BOOLEAN /\ timer \in BOOLEAN /\ attempts \in 0..LastCap /\ LastCap \in Nat
  BY ConstantsAssumption DEF TypeOK
<1>2. CASE state = "Closed"
  BY <1>1, <1>2 DEF Fail
<1>3. CASE state # "Closed"
  <2>1. state' = "Closed" /\ ScheduleReconnect(attempts)
    BY <1>3 DEF Fail
  <2>2. CASE deliberate
    BY <1>1, <2>1, <2>2 DEF ScheduleReconnect
  <2>3. CASE ~deliberate
    BY <1>1, <2>1, <2>3 DEF ScheduleReconnect
  <2>4. QED
    BY <2>2, <2>3
<1>4. QED
  BY <1>2, <1>3

(* Failing serves nothing, and the client is not open after it.            *)
LEMMA FailKeepsArrived ==
  ASSUME ArrivedInv, Fail, UNCHANGED <<deliberate, up, stream>>, sock' = "down"
  PROVE  ArrivedInv'
<1>1. state' = "Closed" /\ timer' \in BOOLEAN /\ attempts' \in 0..LastCap
  BY FailKeepsType DEF ArrivedInv
<1>2. TypeOK'
  BY <1>1 DEF ArrivedInv, TypeOK, stream
<1>3. QED
  BY <1>1, <1>2 DEF ArrivedInv, stream

(* Nothing was served yet of what comes after the reply. *)
LEMMA NothingServed ==
  /\ GoesThrough(<<>>, At("text", 2, 1)) /\ Pings(2, 1) = 0
  /\ <<"auth">> \in Seq(OutFrame) /\ Count(<<"auth">>, "pong") = 0
<1>1. \A frame : At(frame, 2, 1) = {}
  BY DEF At
<1>2. GoesThrough(<<>>, {})
  BY DEF GoesThrough
<1>3. {i \in DOMAIN <<"auth">> : <<"auth">>[i] = "pong"} = {}
  OBVIOUS
<1>4. Cardinality({}) = 0
  BY FS_EmptySet
<1>5. <<"auth">> \in Seq(OutFrame)
  BY DEF OutFrame
<1>6. Count(<<"auth">>, "pong") = 0
  BY <1>3, <1>4 DEF Count
<1>7. Pings(2, 1) = 0
  BY <1>1, <1>4 DEF Pings
<1>8. GoesThrough(<<>>, At("text", 2, 1))
  BY <1>1, <1>2
<1>9. QED
  BY <1>5, <1>6, <1>7, <1>8

(* A read, whatever it finds, keeps the invariant. *)
LEMMA ReadsKeepsArrived ==
  ASSUME ArrivedInv, NEW n, Reads(n)
  PROVE  ArrivedInv'
<1>1. /\ sock = "up" /\ n \in (arrived + 1) .. (2 * Len(sent)) /\ arrived' = n
      /\ UNCHANGED <<deliberate, sock, up, sent>>
  BY DEF Reads
<1>2. TypeOK /\ arrived \in Nat /\ Len(sent) \in Nat /\ taken \in Nat /\ attempts \in 0..LastCap
  BY DEF ArrivedInv, TypeOK
<1>3. n \in Nat /\ n <= 2 * Len(sent) /\ arrived < n
  BY <1>1, <1>2
<1>4. arrived' \in Nat /\ arrived' <= 2 * Len(sent')
  BY <1>1, <1>3
<1>5. CASE state = "Handshake" /\ n >= 2
  <2>1. EndHandshake(n) /\ received = <<>>
    BY <1>1, <1>5 DEF Reads, ArrivedInv
  <2>2. CASE sent[1] = "accept"
    <3>1. ServeFrames(1, n, <<"auth">>, 0) /\ 0 \in 0..LastCap
      BY <2>1, <2>2, ConstantsAssumption DEF EndHandshake
    <3>2. /\ GoesThrough(received, At("text", 2, 1)) /\ <<"auth">> \in Seq(OutFrame)
          /\ Count(<<"auth">>, "pong") = Pings(2, 1)
      BY <2>1, NothingServed
    <3> 1 \in Nat /\ 1 <= 1
      OBVIOUS
    <3>3. /\ TypeOK' /\ state' \in {"Open", "Closed"}
          /\ state' = "Open" => taken' = Complete(n) /\ 1 <= taken' /\ Served(taken)'
      BY <1>1, <1>2, <1>3, <1>4, <3>1, <3>2, ServeFramesServes
    <3>4. QED
      BY <1>1, <1>4, <3>3 DEF ArrivedInv
  <2>3. CASE sent[1] # "accept"
    <3>1. taken' = 1 /\ Fail /\ UNCHANGED <<received, out>>
      BY <2>1, <2>3 DEF EndHandshake
    <3>2. state' = "Closed" /\ timer' \in BOOLEAN /\ attempts' \in 0..LastCap
      BY <1>2, <3>1, FailKeepsType
    <3>3. TypeOK'
      BY <1>1, <1>2, <1>4, <3>1, <3>2 DEF TypeOK
    <3>4. QED
      BY <1>1, <1>4, <3>2, <3>3 DEF ArrivedInv
  <2>4. QED
    BY <2>2, <2>3
<1>6. CASE state = "Open"
  <2>1. ServeFrames(taken, n, out, attempts)
    BY <1>6 DEF Reads
  <2>2. 1 <= taken /\ Served(taken)
    BY <1>6 DEF ArrivedInv
  <2>3. out \in Seq(OutFrame)
    BY <1>2 DEF TypeOK, OutFrame
  <2>4. GoesThrough(received, At("text", 2, taken)) /\ Count(out, "pong") = Pings(2, taken)
    BY <2>2 DEF Served
  <2>5. /\ TypeOK' /\ state' \in {"Open", "Closed"}
        /\ state' = "Open" => taken' = Complete(n) /\ 1 <= taken' /\ Served(taken)'
    BY <1>1, <1>2, <1>3, <1>4, <2>1, <2>2, <2>3, <2>4, ServeFramesServes
  <2>6. QED
    BY <1>1, <1>4, <2>5 DEF ArrivedInv
<1>7. CASE ~(state = "Handshake" /\ n >= 2) /\ state # "Open"
  <2>1. UNCHANGED <<state, timer, attempts, taken, received, out>>
    BY <1>7 DEF Reads
  <2>2. TypeOK'
    BY <1>1, <1>2, <1>4, <2>1 DEF TypeOK
  <2>3. QED
    BY <1>1, <1>4, <1>7, <2>1, <2>2 DEF ArrivedInv
<1>8. QED
  BY <1>5, <1>6, <1>7

(* What the bridge sends next leaves what has arrived as it is. *)
LEMMA BridgeKeepsArrived ==
  ASSUME ArrivedInv, Bridge
  PROVE  ArrivedInv'
<1> USE DEF ArrivedInv
<1>1. /\ TypeOK /\ arrived \in Nat /\ Len(sent) \in Nat /\ taken \in Nat
      /\ sent \in Seq(Reply \cup Frame)
  BY DEF TypeOK
<1>2. ASSUME NEW reply \in Reply, Replies(reply)
      PROVE  ArrivedInv'
  <2>1. /\ sent = <<>> /\ sent' = <<reply>>
        /\ UNCHANGED <<state, deliberate, timer, attempts, arrived, taken, sock, up, received, out>>
    BY <1>2 DEF Replies
  <2>2. sent' \in Seq(Reply \cup Frame) /\ Len(sent') = 1 /\ Len(sent) = 0
    BY <2>1
  <2>3. TypeOK'
    BY <1>1, <2>1, <2>2 DEF TypeOK
  <2>4. arrived' <= 2 * Len(sent')
    BY <1>1, <2>1, <2>2
  <2>5. state # "Open"
    BY <1>1, <2>2, CompleteParts
  <2>6. QED
    BY <2>1, <2>3, <2>4, <2>5
<1>3. ASSUME NEW frame \in Frame, Sends(frame)
      PROVE  ArrivedInv'
  <2>1. /\ sent' = Append(sent, frame)
        /\ UNCHANGED <<state, deliberate, timer, attempts, arrived, taken, sock, up, received, out>>
    BY <1>3 DEF Sends
  <2>2. /\ sent' \in Seq(Reply \cup Frame) /\ Len(sent') = Len(sent) + 1
        /\ \A i \in 1 .. Len(sent) : sent'[i] = sent[i]
    BY <1>1, <2>1
  <2>3. TypeOK'
    BY <1>1, <2>1, <2>2 DEF TypeOK
  <2>4. arrived' <= 2 * Len(sent')
    BY <1>1, <2>1, <2>2
  <2>5. ASSUME state = "Open"
        PROVE  Served(taken)'
    <3>1. taken = Complete(arrived) /\ taken <= Len(sent) /\ Served(taken)
      BY <1>1, <2>5, CompleteParts
    <3>2. \A i \in 2 .. taken : sent'[i] = sent[i]
      BY <1>1, <2>2, <3>1
    <3>3. \A f : At(f, 2, taken)' = At(f, 2, taken)
      BY <2>1, <3>2 DEF At
    <3>4. Pings(2, taken)' = Pings(2, taken)
      BY <3>3 DEF Pings
    <3>5. QED
      BY <2>1, <3>1, <3>3, <3>4 DEF Served, GoesThrough, Count
  <2>6. QED
    BY <2>1, <2>3, <2>4, <2>5 DEF Complete
<1>4. CASE GoesSilent
  <2>1. sock' = "silent" /\ UNCHANGED <<state, deliberate, timer, attempts, up, stream>>
    BY <1>4 DEF GoesSilent
  <2>2. TypeOK'
    BY <1>1, <2>1 DEF TypeOK, stream
  <2>3. Served(taken)' <=> Served(taken)
    BY <2>1 DEF Served, GoesThrough, Count, Pings, At, stream
  <2>4. QED
    BY <2>1, <2>2, <2>3 DEF stream
<1>5. CASE StopsOrStarts
  <2>1. up' = ~up /\ UNCHANGED <<state, deliberate, timer, attempts, sock, stream>>
    BY <1>5 DEF StopsOrStarts
  <2>2. TypeOK'
    BY <1>1, <2>1 DEF TypeOK, stream
  <2>3. Served(taken)' <=> Served(taken)
    BY <2>1 DEF Served, GoesThrough, Count, Pings, At, stream
  <2>4. QED
    BY <2>1, <2>2, <2>3 DEF stream
<1>6. QED
  BY <1>2, <1>3, <1>4, <1>5 DEF Bridge

LEMMA NothingIsTyped ==
  /\ <<>> \in Seq(Reply \cup Frame) /\ <<>> \in Seq(Nat)
  /\ <<>> \in Seq({"auth", "text", "pong", "close"})
<1>1. \A S : <<>> \in Seq(S)
  BY EmptySeq
<1>2. QED
  BY <1>1

LEMMA InitArrived == Init => ArrivedInv
<1> SUFFICES ASSUME Init PROVE ArrivedInv
  OBVIOUS
<1>1. TypeOK
  <2>1. 0 \in 0..LastCap
    BY ConstantsAssumption
  <2>2. /\ sent \in Seq(Reply \cup Frame) /\ received \in Seq(Nat)
        /\ out \in Seq({"auth", "text", "pong", "close"})
    BY NothingIsTyped DEF Init
  <2>3. QED
    BY <2>1, <2>2 DEF Init, TypeOK
<1>2. QED
  BY <1>1 DEF Init, ArrivedInv

(* A new socket starts from nothing. *)
LEMMA OpenSocketArrives ==
  ASSUME ArrivedInv, OpenSocket, timer' \in BOOLEAN
  PROVE  ArrivedInv'
<1>1. TypeOK'
  <2>1. /\ sent' \in Seq(Reply \cup Frame) /\ received' \in Seq(Nat)
        /\ out' \in Seq({"auth", "text", "pong", "close"})
    BY NothingIsTyped DEF OpenSocket
  <2>2. QED
    BY <2>1 DEF ArrivedInv, OpenSocket, TypeOK
<1>2. QED
  BY <1>1 DEF ArrivedInv, OpenSocket

LEMMA NextKeepsArrived ==
  ASSUME ArrivedInv, [Next]_vars
  PROVE  ArrivedInv'
<1>1. TypeOK
  BY DEF ArrivedInv
<1>2. CASE Opens
  BY <1>1, <1>2, OpenSocketArrives DEF Opens, TypeOK
<1>3. CASE TimerFires
  <2>1. timer' = FALSE
    BY <1>3 DEF TimerFires
  <2>2. CASE deliberate
    <3>1. UNCHANGED <<state, deliberate, attempts, sock, up, stream>>
      BY <1>3, <2>2 DEF TimerFires
    <3>2. TypeOK'
      BY <1>1, <2>1, <3>1 DEF TypeOK, stream
    <3>3. Served(taken)' <=> Served(taken)
      BY <3>1 DEF Served, GoesThrough, Count, Pings, At, stream
    <3>4. QED
      BY <3>1, <3>2, <3>3 DEF ArrivedInv, stream
  <2>3. CASE ~deliberate
    BY <1>3, <2>1, <2>3, OpenSocketArrives DEF TimerFires
  <2>4. QED
    BY <2>2, <2>3
<1>4. CASE Connects
  <2>1. /\ sock \in {"connecting", "pendingClose"} /\ state' = "Handshake"
        /\ sock' = IF sock = "connecting" THEN "up" ELSE "closing"
        /\ UNCHANGED <<deliberate, timer, attempts, up, stream>>
    BY <1>4 DEF Connects
  <2>2. TypeOK'
    BY <1>1, <2>1 DEF TypeOK, stream
  <2>3. QED
    BY <2>1, <2>2 DEF ArrivedInv, stream
<1>5. CASE ConnectFails
  BY <1>5, FailKeepsArrived DEF ConnectFails
<1>6. CASE Drops
  BY <1>6, FailKeepsArrived DEF Drops
<1>7. CASE ReadsSome
  BY <1>7, ReadsKeepsArrived DEF ReadsSome
<1>8. CASE SendsText
  <2>1. /\ out' = Append(out, "text")
        /\ UNCHANGED <<state, deliberate, timer, attempts, arrived, taken, sock, up, sent, received>>
    BY <1>8 DEF SendsText
  <2>2. out \in Seq(OutFrame) /\ "text" \in OutFrame \ {"pong"}
    BY <1>1 DEF TypeOK, OutFrame
  <2>3. out' \in Seq(OutFrame) /\ Count(out', "pong") = Count(out, "pong")
    BY <2>1, <2>2, OthersAreNoPongs
  <2>4. TypeOK'
    BY <1>1, <2>1, <2>3 DEF TypeOK, OutFrame
  <2>5. Served(taken)' <=> Served(taken)
    <3>1. \A f : At(f, 2, taken)' = At(f, 2, taken)
      BY <2>1 DEF At
    <3>2. Pings(2, taken)' = Pings(2, taken)
      BY <3>1 DEF Pings
    <3>3. Count(out, "pong")' = Count(out, "pong")
      BY <2>3 DEF Count
    <3>4. QED
      BY <2>1, <3>1, <3>2, <3>3 DEF Served, GoesThrough
  <2>6. QED
    BY <2>1, <2>4, <2>5 DEF ArrivedInv, Complete
<1>9. CASE Closes
  <2>1. /\ state' = "Closed" /\ deliberate' = TRUE /\ timer' = FALSE
        /\ out' = IF state = "Open" THEN Append(out, "close") ELSE out
        /\ UNCHANGED <<attempts, arrived, taken, up, sent, received>>
    BY <1>9 DEF Closes
  <2>2. sock' \in {"none", "connecting", "pendingClose", "up", "silent", "closing", "down"}
    BY <1>1, <1>9 DEF Closes, TypeOK
  <2>3. sock' # "connecting"
    BY <1>9 DEF Closes
  <2>4. out' \in Seq(OutFrame)
    BY <1>1, <2>1 DEF TypeOK, OutFrame
  <2>5. TypeOK'
    BY <1>1, <2>1, <2>2, <2>4 DEF TypeOK, OutFrame
  <2>6. QED
    BY <2>1, <2>3, <2>5 DEF ArrivedInv
<1>10. CASE Bridge
  BY <1>10, BridgeKeepsArrived
<1>11. CASE UNCHANGED vars
  <2>1. TypeOK'
    BY <1>1, <1>11 DEF TypeOK, vars
  <2>2. Served(taken)' <=> Served(taken)
    BY <1>11 DEF Served, GoesThrough, Count, Pings, At, vars
  <2>3. QED
    BY <1>11, <2>1, <2>2 DEF ArrivedInv, Complete, vars
<1>12. QED
  BY <1>2, <1>3, <1>4, <1>5, <1>6, <1>7, <1>8, <1>9, <1>10, <1>11 DEF Next

LEMMA ArrivedInvariance == Spec => []ArrivedInv
<1>1. ArrivedInv /\ [Next]_vars => ArrivedInv'
  BY NextKeepsArrived
<1>2. QED
  BY InitArrived, <1>1, PTL DEF Spec

(* Every variable keeps its type, and the delay that is looked up in       *)
(* caps[] exists, whatever the table's length.                             *)
THEOREM TypeCorrect == Spec => []TypeOK
<1>1. ArrivedInv => TypeOK
  BY DEF ArrivedInv
<1>2. QED
  BY ArrivedInvariance, <1>1, PTL

(* However onReadyRead() is cut into reads, and however many frames come,  *)
(* an open client has emitted every complete text frame, in the order of   *)
(* their arrival, and has answered every complete ping.                    *)
THEOREM ArrivedIsServedHolds == Spec => []ArrivedIsServed
<1>1. ArrivedInv => ArrivedIsServed
  BY ServedIs DEF ArrivedInv, ArrivedIsServed
<1>2. QED
  BY ArrivedInvariance, <1>1, PTL
=============================================================================
