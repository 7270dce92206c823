------------------------- MODULE ConnectionsProofs --------------------------
(***************************************************************************)
(* Proofs about Connections, for any sockets, tools and users, and any     *)
(* bound on the auth frames of a connection; and about the map of peers    *)
(* that the connections share, PeerMap.                                    *)
(***************************************************************************)
EXTENDS Connections, PeerMap, SequenceTheorems, TLAPS

(* A handler runs for a socket that has connected. *)
HandlerInv == \A c \in Conn : handler[c] # "none" => sock[c] # "new"

(* The registry has entries of sockets that have connected, each once, and *)
(* as the latest of a connection its conn_entry.                           *)
Listed(e) ==
    /\ sock[e.conn] # "new"
    /\ e.n <= auths[e.conn]
    /\ e.n = auths[e.conn] => e = conn_entry[e.conn]

RegistryInv ==
    /\ \A i \in 1..Len(registry) : Listed(registry[i])
    /\ \A i, j \in 1..Len(registry) :
          registry[i].conn = registry[j].conn /\ registry[i].n = registry[j].n => i = j

(* A broadcast has delivered to all that it has passed and that are open:  *)
(* a socket that is not open will not be.                                  *)
Passed(c) ==
    \A i \in 1..Len(snapshot[c]) :
        LET e == snapshot[c][i] IN
            i < pos[c] /\ InScope(c, e) /\ sock[e.conn] = "open" => e.conn \in reached[c]

BroadcastInv ==
    \A c \in Conn :
        /\ pos[c] >= 1
        /\ \A i \in 1..Len(snapshot[c]) : sock[snapshot[c][i].conn] # "new"
        /\ handler[c] = "bcast" => Passed(c)

Inv == TypeOK /\ HandlerInv /\ RegistryInv /\ BroadcastInv /\ CleanupIsWhole

-----------------------------------------------------------------------------
(* Entries.                                                                *)

LEMMA EntryParts ==
  \A e \in Entry : e.conn \in Conn /\ e.user \in User \cup {NoUser} /\ e.n \in 1..MaxAuths /\ e # NoEntry
  BY ConstantsAssumption DEF Entry

LEMMA TypesOfLists ==
  ASSUME TypeOK
  PROVE  /\ registry \in Seq(Entry) /\ Len(registry) \in Nat
         /\ \A i \in 1..Len(registry) : registry[i] \in Entry
         /\ \A c \in Conn : /\ snapshot[c] \in Seq(Entry) /\ Len(snapshot[c]) \in Nat
                            /\ \A i \in 1..Len(snapshot[c]) : snapshot[c][i] \in Entry
<1>1. \A q \in Seq(Entry) : Len(q) \in Nat /\ \A i \in 1..Len(q) : q[i] \in Entry
  BY LenProperties, ElementOfSeq
<1>2. QED
  BY <1>1 DEF TypeOK

(* What the handler of c does besides broadcasts, the registry and its     *)
(* cleanup.                                                                *)
LEMMA QuietKeepsInv ==
  ASSUME Inv, NEW c \in Conn,
         NEW s \in {"open", "lost", "closed"}, sock' = [sock EXCEPT ![c] = s],
         s = "open" => sock[c] \in {"new", "open"},
         NEW h \in {handler[c], "loop", "turn", "done"}, handler' = [handler EXCEPT ![c] = h],
         NEW p \in {"off", "on", "ended"}, poller' = [poller EXCEPT ![c] = p],
         h \in {handler[c], "loop", "done"} \/ auths[c] > 0,
         p = "off" \/ poller[c] # "off" \/ auths[c] > 0,
         p = "on" => poller[c] = "on" \/ h = "loop",
         escaped' \in {escaped, escaped \cup {c}},
         h = "done" => handler[c] = "done" \/ c \in escaped' ,
         h # handler[c] => handler[c] # "done",
         UNCHANGED <<auths, conn_entry, registry, browserVars>>
  PROVE  Inv'
<1>1. UNCHANGED <<auths, conn_entry, registry, snapshot, pos, scope, reached>>
  BY DEF browserVars
<1>2. /\ sock' \in [Conn -> {"new", "open", "lost", "closed"}]
      /\ sock'[c] = s /\ \A d \in Conn \ {c} : sock'[d] = sock[d]
      /\ handler' \in [Conn -> {"none", "loop", "turn", "bcast", "done"}]
      /\ handler'[c] = h /\ \A d \in Conn \ {c} : handler'[d] = handler[d]
      /\ poller' \in [Conn -> {"off", "on", "ended"}]
      /\ poller'[c] = p /\ \A d \in Conn \ {c} : poller'[d] = poller[d]
  BY DEF Inv, TypeOK
<1>3. TypeOK'
  BY <1>1, <1>2 DEF Inv, TypeOK
<1>4. HandlerInv'
  BY <1>2 DEF Inv, HandlerInv
<1>5. \A d \in Conn : /\ sock[d] # "new" => sock'[d] # "new"
                      /\ sock[d] # "new" /\ sock'[d] = "open" => sock[d] = "open"
  BY <1>2
<1>6. RegistryInv'
  BY <1>1, <1>5, TypesOfLists, EntryParts DEF Inv, RegistryInv, Listed
<1>7. BroadcastInv'
  <2> SUFFICES ASSUME NEW d \in Conn
               PROVE  /\ \A i \in 1..Len(snapshot[d]) : sock'[snapshot[d][i].conn] # "new"
                      /\ handler'[d] = "bcast" => Passed(d)'
    BY <1>1 DEF Inv, BroadcastInv
  <2>1. \A i \in 1..Len(snapshot[d]) : snapshot[d][i].conn \in Conn /\ sock[snapshot[d][i].conn] # "new"
    BY TypesOfLists, EntryParts DEF Inv, BroadcastInv
  <2>2. ASSUME handler'[d] = "bcast"
        PROVE  Passed(d)'
    <3>1. Passed(d)
      BY <1>2, <2>2 DEF Inv, BroadcastInv
    <3>2. QED
      BY <1>1, <1>5, <2>1, <3>1 DEF Passed, InScope
  <2>3. QED
    BY <1>5, <2>1, <2>2
<1>8. CleanupIsWhole'
  BY <1>1, <1>2 DEF Inv, CleanupIsWhole
<1>9. QED
  BY <1>3, <1>4, <1>6, <1>7, <1>8 DEF Inv

LEMMA AnswersOutcome ==
  ASSUME NEW c \in Conn, AnswersOrEscapes(c)
  PROVE  \/ /\ handler' = [handler EXCEPT ![c] = "loop"] /\ escaped' = escaped
            /\ sock[c] = "open"
         \/ /\ handler' = [handler EXCEPT ![c] = "done"] /\ escaped' = escaped \cup {c}
            /\ sock[c] # "open"
  BY DEF AnswersOrEscapes, Escapes

LEMMA QuietSteps ==
  ASSUME Inv, NEW c \in Conn,
         \/ Connects(c) \/ Leaves(c) \/ HeartbeatCloses(c) \/ AuthFails(c) \/ Answers(c)
         \/ SessionsList(c) \/ TurnStarts(c) \/ TurnEnds(c) \/ PollerEnds(c)
  PROVE  Inv'
<1>1. /\ sock = [sock EXCEPT ![c] = sock[c]] /\ handler = [handler EXCEPT ![c] = handler[c]]
      /\ poller = [poller EXCEPT ![c] = poller[c]]
      /\ sock[c] \in {"new", "open", "lost", "closed"} /\ poller[c] \in {"off", "on", "ended"}
      /\ handler[c] \in {"none", "loop", "turn", "bcast", "done"}
      /\ handler[c] # "none" => sock[c] # "new"
      /\ auths[c] \in Nat
  BY DEF Inv, TypeOK, HandlerInv
<1>2. CASE Connects(c)
  <2>1. handler[c] = "none"
    BY <1>1, <1>2 DEF Connects
  <2>2. QED
    BY <1>1, <1>2, <2>1, QuietKeepsInv DEF Connects
<1>3. CASE Leaves(c)
  BY <1>1, <1>3, QuietKeepsInv DEF Leaves
<1>4. CASE HeartbeatCloses(c)
  BY <1>1, <1>4, QuietKeepsInv DEF HeartbeatCloses
<1>5. CASE AuthFails(c)
  BY <1>1, <1>5, QuietKeepsInv DEF AuthFails, Idle, Escapes
<1>6. CASE Answers(c)
  BY <1>1, <1>6, QuietKeepsInv, AnswersOutcome DEF Answers, Idle
<1>7. CASE SessionsList(c)
  BY <1>1, <1>7, QuietKeepsInv, AnswersOutcome DEF SessionsList, Idle
<1>8. CASE TurnStarts(c)
  BY <1>1, <1>8, QuietKeepsInv DEF TurnStarts, Idle
<1>9. CASE TurnEnds(c)
  BY <1>1, <1>9, QuietKeepsInv, AnswersOutcome DEF TurnEnds
<1>10. CASE PollerEnds(c)
  BY <1>1, <1>10, QuietKeepsInv DEF PollerEnds
<1>11. QED
  BY <1>2, <1>3, <1>4, <1>5, <1>6, <1>7, <1>8, <1>9, <1>10

-----------------------------------------------------------------------------
(* The registry grows and shrinks.                                         *)

LEMMA AuthenticatesKeepsInv ==
  ASSUME Inv, NEW c \in Conn, NEW u \in Claims[c], Authenticates(c, u)
  PROVE  Inv'
<1> DEFINE entry == [conn |-> c, user |-> u, n |-> auths[c] + 1]
<1>1. /\ handler[c] = "loop" /\ auths[c] < MaxAuths
      /\ auths' = [auths EXCEPT ![c] = @ + 1]
      /\ conn_entry' = [conn_entry EXCEPT ![c] = entry]
      /\ registry' = Append(registry, entry)
      /\ UNCHANGED <<sock, poller, snapshot, pos, scope, reached>>
  BY DEF Authenticates, Idle, browserVars
<1>2. /\ auths[c] \in 0..MaxAuths /\ MaxAuths \in Nat /\ u \in User \cup {NoUser}
      /\ sock[c] # "new"
  BY <1>1, ConstantsAssumption DEF Inv, TypeOK, HandlerInv
<1>3. entry \in Entry /\ entry # NoEntry /\ entry.conn = c /\ entry.n = auths[c] + 1
  <2>1. auths[c] + 1 \in 1..MaxAuths
    BY <1>1, <1>2
  <2>2. entry \in Entry
    BY <1>2, <2>1 DEF Entry
  <2>3. QED
    BY <2>2, EntryParts
<1> HIDE DEF entry
<1>4. /\ auths' \in [Conn -> 0..MaxAuths] /\ auths'[c] = auths[c] + 1
      /\ conn_entry' \in [Conn -> Entry \cup {NoEntry}] /\ conn_entry'[c] = entry
      /\ \A d \in Conn \ {c} : auths'[d] = auths[d] /\ conn_entry'[d] = conn_entry[d]
  <2>1. auths \in [Conn -> 0..MaxAuths] /\ conn_entry \in [Conn -> Entry \cup {NoEntry}]
    BY DEF Inv, TypeOK
  <2>2. auths[c] + 1 \in 0..MaxAuths
    BY <1>1, <1>2
  <2>3. /\ auths' \in [Conn -> 0..MaxAuths] /\ auths'[c] = auths[c] + 1
        /\ \A d \in Conn \ {c} : auths'[d] = auths[d]
    BY <1>1, <2>1, <2>2
  <2>4. /\ conn_entry' \in [Conn -> Entry \cup {NoEntry}] /\ conn_entry'[c] = entry
        /\ \A d \in Conn \ {c} : conn_entry'[d] = conn_entry[d]
    BY <1>1, <1>3, <2>1
  <2>5. QED
    BY <2>3, <2>4
<1>5. /\ handler' \in [Conn -> {"none", "loop", "turn", "bcast", "done"}] /\ escaped' \subseteq Conn
      /\ handler'[c] \in {"loop", "done"} /\ (handler'[c] = "done" => c \in escaped')
      /\ \A d \in Conn \ {c} : handler'[d] = handler[d] /\ (d \in escaped' <=> d \in escaped)
  <2>1. handler \in [Conn -> {"none", "loop", "turn", "bcast", "done"}] /\ escaped \subseteq Conn
    BY DEF Inv, TypeOK
  <2>2. \/ handler' = [handler EXCEPT ![c] = "loop"] /\ escaped' = escaped
        \/ handler' = [handler EXCEPT ![c] = "done"] /\ escaped' = escaped \cup {c}
    BY AnswersOutcome DEF Authenticates
  <2>3. QED
    BY <2>1, <2>2
<1>6. /\ registry' \in Seq(Entry) /\ Len(registry') = Len(registry) + 1 /\ Len(registry) \in Nat
      /\ \A i \in 1..Len(registry) : registry'[i] = registry[i] /\ registry[i] \in Entry
      /\ registry'[Len(registry) + 1] = entry
  <2>1. registry \in Seq(Entry)
    BY DEF Inv, TypeOK
  <2>2. /\ registry' \in Seq(Entry) /\ Len(registry') = Len(registry) + 1
        /\ \A i \in 1..Len(registry) : registry'[i] = registry[i]
        /\ registry'[Len(registry) + 1] = entry
    BY <1>1, <1>3, <2>1, AppendProperties
  <2>3. QED
    BY <2>2, TypesOfLists DEF Inv
<1>7. \A i \in 1..Len(registry') : i \in 1..Len(registry) \/ i = Len(registry) + 1
  BY <1>6
<1>8. TypeOK'
  <2>1. \A d \in Conn : conn_entry'[d] = NoEntry <=> auths'[d] = 0
    BY <1>2, <1>3, <1>4, SMTT(30) DEF Inv, TypeOK
  <2>2. \A d \in Conn : handler'[d] \in {"turn", "bcast"} \/ poller'[d] # "off" => auths'[d] > 0
    BY <1>1, <1>2, <1>4, <1>5, SMTT(30) DEF Inv, TypeOK
  <2>3. QED
    BY <1>1, <1>4, <1>5, <1>6, <2>1, <2>2 DEF Inv, TypeOK
<1>9. HandlerInv'
  BY <1>1, <1>2, <1>5 DEF Inv, HandlerInv
<1>10. RegistryInv'
  <2>1. \A i \in 1..Len(registry) :
           /\ Listed(registry[i]) /\ registry[i].n \in Nat /\ registry[i].conn \in Conn
           /\ registry[i].conn = c => registry[i].n <= auths[c]
    BY <1>6, EntryParts, ConstantsAssumption DEF Inv, RegistryInv, Listed
  <2>2. ASSUME NEW i \in 1..Len(registry)
        PROVE  Listed(registry[i])'
    <3>1. CASE registry[i].conn = c
      BY <1>1, <1>2, <1>4, <1>6, <2>1, <3>1 DEF Listed
    <3>2. CASE registry[i].conn # c
      BY <1>1, <1>4, <1>6, <2>1, <3>2 DEF Listed
    <3>3. QED
      BY <3>1, <3>2
  <2>3. ASSUME NEW i, i = Len(registry) + 1
        PROVE  Listed(registry[i])'
    <3>1. registry'[i] = entry
      BY <1>6, <2>3
    <3>2. sock'[c] # "new" /\ entry.n <= auths'[c] /\ entry = conn_entry'[c]
      BY <1>1, <1>2, <1>3, <1>4
    <3>3. QED
      BY <1>3, <3>1, <3>2 DEF Listed
  <2>4. \A i \in 1..Len(registry') : Listed(registry[i])'
    BY <1>7, <2>2, <2>3
  <2>5. \A i \in 1..Len(registry) : ~(registry[i].conn = c /\ registry[i].n = auths[c] + 1)
    BY <1>2, <2>1
  <2>6. ASSUME NEW i \in 1..Len(registry'), NEW j \in 1..Len(registry'),
               registry'[i].conn = registry'[j].conn, registry'[i].n = registry'[j].n
        PROVE  i = j
    <3>1. CASE i \in 1..Len(registry) /\ j \in 1..Len(registry)
      BY <1>6, <2>6, <3>1 DEF Inv, RegistryInv
    <3>2. CASE i = Len(registry) + 1 /\ j \in 1..Len(registry)
      BY <1>3, <1>6, <2>5, <2>6, <3>2
    <3>3. CASE j = Len(registry) + 1 /\ i \in 1..Len(registry)
      BY <1>3, <1>6, <2>5, <2>6, <3>3
    <3>4. QED
      BY <1>7, <3>1, <3>2, <3>3
  <2>7. QED
    BY <2>4, <2>6 DEF RegistryInv
<1>11. BroadcastInv'
  BY <1>1, <1>4, <1>5 DEF Inv, BroadcastInv, Passed, InScope
<1>12. CleanupIsWhole'
  BY <1>1, <1>3, <1>4, <1>5, <1>6, <1>7 DEF Inv, CleanupIsWhole
<1>13. QED
  BY <1>8, <1>9, <1>10, <1>11, <1>12 DEF Inv

(* list.remove: what is left was there, in its order.                      *)
LEMMA RemovesOne ==
  ASSUME TypeOK, NEW entry, Removes(entry)
  PROVE  /\ registry' \in Seq(Entry)
         /\ \/ registry' = registry /\ \A i \in 1..Len(registry) : ~Equal(registry[i], entry)
            \/ \E k \in 1..Len(registry) :
                  /\ Equal(registry[k], entry)
                  /\ Len(registry') = Len(registry) - 1
                  /\ \A i \in 1..Len(registry') :
                        registry'[i] = registry[IF i < k THEN i ELSE i + 1]
<1>1. registry \in Seq(Entry) /\ Len(registry) \in Nat
  BY TypesOfLists
<1>2. ASSUME NEW k \in 1..Len(registry), registry' = RemoveAt(registry, k)
      PROVE  /\ registry' \in Seq(Entry)
             /\ Len(registry') = Len(registry) - 1
             /\ \A i \in 1..Len(registry') :
                   registry'[i] = registry[IF i < k THEN i ELSE i + 1]
  <2> DEFINE n == Len(registry)
             before == SubSeq(registry, 1, k - 1)
             after == SubSeq(registry, k + 1, n)
  <2>1. /\ before \in Seq(Entry) /\ Len(before) = k - 1
        /\ \A i \in 1..(k - 1) : before[i] = registry[i]
    BY <1>1
  <2>2. /\ after \in Seq(Entry) /\ Len(after) = n - k
        /\ \A i \in 1..(n - k) : after[i] = registry[i + k]
    BY <1>1
  <2>3. registry' = before \o after
    BY <1>2 DEF RemoveAt
  <2> HIDE DEF before, after
  <2>4. /\ registry' \in Seq(Entry) /\ Len(registry') = n - 1
        /\ \A i \in 1..(n - 1) : registry'[i] = IF i <= k - 1 THEN before[i] ELSE after[i - (k - 1)]
    <3>1. /\ before \o after \in Seq(Entry) /\ Len(before \o after) = Len(before) + Len(after)
          /\ \A i \in 1..(Len(before) + Len(after)) :
                (before \o after)[i] = IF i <= Len(before) THEN before[i] ELSE after[i - Len(before)]
      BY <2>1, <2>2, ConcatProperties
    <3>2. Len(before) + Len(after) = n - 1
      BY <1>1, <2>1, <2>2
    <3>3. QED
      BY <2>1, <2>3, <3>1, <3>2
  <2>5. \A i \in 1..(n - 1) : registry'[i] = registry[IF i < k THEN i ELSE i + 1]
    BY <1>1, <2>1, <2>2, <2>4
  <2>6. QED
    BY <2>4, <2>5
<1>3. QED
  BY <1>1, <1>2 DEF Removes

LEMMA CleansUpKeepsInv ==
  ASSUME Inv, NEW c \in Conn, CleansUp(c)
  PROVE  Inv'
<1>1. /\ handler[c] = "loop" /\ sock[c] \in {"lost", "closed"}
      /\ handler' = [handler EXCEPT ![c] = "done"] /\ sock' = [sock EXCEPT ![c] = "closed"]
      /\ poller' = [poller EXCEPT ![c] = IF @ = "on" THEN "ended" ELSE @]
      /\ IF conn_entry[c] = NoEntry THEN UNCHANGED registry ELSE Removes(conn_entry[c])
      /\ UNCHANGED <<auths, conn_entry, snapshot, pos, scope, reached, escaped>>
  BY DEF CleansUp, Idle, browserVars
<1>2. /\ handler' \in [Conn -> {"none", "loop", "turn", "bcast", "done"}] /\ handler'[c] = "done"
      /\ sock' \in [Conn -> {"new", "open", "lost", "closed"}] /\ sock'[c] = "closed"
      /\ poller' \in [Conn -> {"off", "on", "ended"}] /\ poller'[c] # "on"
      /\ poller'[c] # "off" => poller[c] # "off"
      /\ \A d \in Conn \ {c} : /\ handler'[d] = handler[d] /\ sock'[d] = sock[d]
                               /\ poller'[d] = poller[d]
  BY <1>1 DEF Inv, TypeOK
<1>3. /\ registry \in Seq(Entry) /\ Len(registry) \in Nat
      /\ \A i \in 1..Len(registry) : registry[i] \in Entry /\ registry[i].conn \in Conn
                                   /\ Listed(registry[i])
      /\ \A i, j \in 1..Len(registry) :
            registry[i].conn = registry[j].conn /\ registry[i].n = registry[j].n => i = j
  BY TypesOfLists, EntryParts DEF Inv, RegistryInv
<1>4. \/ /\ registry' = registry
         /\ conn_entry[c] # NoEntry => \A i \in 1..Len(registry) : ~Equal(registry[i], conn_entry[c])
      \/ /\ conn_entry[c] # NoEntry /\ registry' \in Seq(Entry)
         /\ \E k \in 1..Len(registry) :
               /\ Equal(registry[k], conn_entry[c])
               /\ Len(registry') = Len(registry) - 1
               /\ \A i \in 1..Len(registry') :
                     registry'[i] = registry[IF i < k THEN i ELSE i + 1]
  BY <1>1, RemovesOne DEF Inv
<1>5. TypeOK'
  <2>1. registry' \in Seq(Entry)
    BY <1>3, <1>4
  <2>2. QED
    BY <1>1, <1>2, <2>1 DEF Inv, TypeOK
<1>6. HandlerInv'
  BY <1>2 DEF Inv, HandlerInv
<1>7. ASSUME NEW e \in Entry, Listed(e)
      PROVE  Listed(e)'
  BY <1>1, <1>2, <1>7, EntryParts DEF Listed
<1>8. BroadcastInv'
  <2>1. \A d \in Conn : \A i \in 1..Len(snapshot[d]) : snapshot[d][i].conn \in Conn
    BY TypesOfLists, EntryParts DEF Inv
  <2>2. QED
    BY <1>1, <1>2, <2>1, SMTT(30) DEF Inv, BroadcastInv, Passed, InScope
(* Each entry that is left was there, at one place. *)
<1>9. CASE registry' = registry
  <2>1. RegistryInv'
    BY <1>3, <1>7, <1>9 DEF RegistryInv
  <2>2. ASSUME auths[c] <= 1, NEW i \in 1..Len(registry)
        PROVE  registry[i].conn # c
    <3>1. SUFFICES ASSUME registry[i].conn = c
                   PROVE  FALSE
      OBVIOUS
    <3>2. registry[i].n >= 1 /\ registry[i].n <= auths[c] /\ registry[i].n \in Nat /\ auths[c] \in Nat
      BY <1>3, <3>1, EntryParts, ConstantsAssumption DEF Listed, Inv, TypeOK
    <3>3. registry[i].n = auths[c]
      BY <2>2, <3>2
    <3>4. registry[i] = conn_entry[c]
      BY <1>3, <3>1, <3>3 DEF Listed
    <3>5. QED
      BY <1>3, <1>4, <1>9, <3>4, EntryParts DEF Equal
  <2>3. CleanupIsWhole'
    BY <1>1, <1>2, <1>9, <2>2 DEF Inv, CleanupIsWhole
  <2>4. QED
    BY <1>5, <1>6, <1>8, <2>1, <2>3 DEF Inv
<1>10. CASE registry' # registry
  <2>1. PICK k \in 1..Len(registry) :
           /\ Equal(registry[k], conn_entry[c])
           /\ Len(registry') = Len(registry) - 1
           /\ \A i \in 1..Len(registry') : registry'[i] = registry[IF i < k THEN i ELSE i + 1]
    BY <1>4, <1>10
  <2> DEFINE was(i) == IF i < k THEN i ELSE i + 1
  <2>2. \A i \in 1..Len(registry') :
           was(i) \in 1..Len(registry) /\ was(i) # k /\ registry'[i] = registry[was(i)]
    BY <1>3, <2>1
  <2>3. \A i, j \in 1..Len(registry') : was(i) = was(j) => i = j
    BY <1>3, <2>1
  <2> HIDE DEF was
  <2>4. RegistryInv'
    <3>1. \A i \in 1..Len(registry') : Listed(registry[i])'
      <4> SUFFICES ASSUME NEW i \in 1..Len(registry'), NEW e \in Entry, e = registry[was(i)]
                   PROVE  Listed(registry[i])'
        BY <1>3, <2>2
      <4>1. Listed(e)'
        BY <1>3, <1>7, <2>2
      <4>2. QED
        BY <2>2, <4>1 DEF Listed
    <3>2. \A i, j \in 1..Len(registry') :
             registry'[i].conn = registry'[j].conn /\ registry'[i].n = registry'[j].n => i = j
      BY <1>3, <2>2, <2>3, SMTT(30)
    <3>3. QED
      BY <3>1, <3>2 DEF RegistryInv
  <2>5. ASSUME auths[c] <= 1, NEW i \in 1..Len(registry')
        PROVE  registry'[i].conn # c
    <3>1. SUFFICES ASSUME registry'[i].conn = c
                   PROVE  FALSE
      OBVIOUS
    <3>2. ASSUME NEW j \in 1..Len(registry), registry[j].conn = c
          PROVE  registry[j].n = auths[c]
      <4>1. registry[j].n >= 1 /\ registry[j].n <= auths[c] /\ registry[j].n \in Nat /\ auths[c] \in Nat
        BY <1>3, <3>2, EntryParts, ConstantsAssumption DEF Listed, Inv, TypeOK
      <4>2. QED
        BY <2>5, <4>1
    <3>3. conn_entry[c] \in Entry /\ auths[c] # 0
      BY <1>4, <1>10 DEF Inv, TypeOK
    <3>4. registry[was(i)].n = auths[c] /\ registry[was(i)] = conn_entry[c]
      BY <1>3, <2>2, <3>1, <3>2 DEF Listed
    <3>5. registry[k].conn = c
      BY <2>1, <2>2, <3>1, <3>4 DEF Equal
    <3>6. was(i) = k
      BY <1>3, <2>1, <2>2, <3>1, <3>2, <3>4, <3>5
    <3>7. QED
      BY <2>2, <3>6
  <2>6. CleanupIsWhole'
    BY <1>1, <1>2, <2>2, <2>5, SMTT(30) DEF Inv, CleanupIsWhole
  <2>7. QED
    BY <1>5, <1>6, <1>8, <2>4, <2>6 DEF Inv
<1>11. QED
  BY <1>9, <1>10

-----------------------------------------------------------------------------
(* The browser op.                                                         *)

(* A step of the broadcast of c leaves the registry and the sockets.       *)
LEMMA BroadcastKeepsInv ==
  ASSUME Inv, NEW c \in Conn,
         UNCHANGED <<sock, auths, conn_entry, registry, poller>>,
         handler[c] # "done", handler[c] # "none", auths[c] > 0,
         NEW h \in {"loop", "bcast", "done"}, handler' = [handler EXCEPT ![c] = h],
         escaped' = IF h = "done" THEN escaped \cup {c} ELSE escaped,
         NEW list \in Seq(Entry), snapshot' = [snapshot EXCEPT ![c] = list],
         \A i \in 1..Len(list) : sock[list[i].conn] # "new",
         NEW k \in Nat \ {0}, pos' = [pos EXCEPT ![c] = k],
         NEW u \in User \cup {NoUser}, scope' = [scope EXCEPT ![c] = u],
         NEW r \in SUBSET Conn, reached' = [reached EXCEPT ![c] = r],
         h = "bcast" => Passed(c)'
  PROVE  Inv'
<1>1. /\ handler' \in [Conn -> {"none", "loop", "turn", "bcast", "done"}] /\ handler'[c] = h
      /\ snapshot' \in [Conn -> Seq(Entry)] /\ snapshot'[c] = list
      /\ pos' \in [Conn -> Nat] /\ scope' \in [Conn -> User \cup {NoUser}]
      /\ reached' \in [Conn -> SUBSET Conn]
      /\ \A d \in Conn \ {c} : /\ handler'[d] = handler[d] /\ snapshot'[d] = snapshot[d]
                               /\ pos'[d] = pos[d] /\ scope'[d] = scope[d]
                               /\ reached'[d] = reached[d]
  BY DEF Inv, TypeOK
<1>2. TypeOK'
  BY <1>1 DEF Inv, TypeOK
<1>3. HandlerInv'
  BY <1>1 DEF Inv, HandlerInv
<1>4. RegistryInv'
  BY DEF Inv, RegistryInv, Listed
<1>5. BroadcastInv'
  <2> SUFFICES ASSUME NEW d \in Conn
               PROVE  /\ pos'[d] >= 1
                      /\ \A i \in 1..Len(snapshot'[d]) : sock[snapshot'[d][i].conn] # "new"
                      /\ handler'[d] = "bcast" => Passed(d)'
    BY DEF BroadcastInv
  <2>1. CASE d = c
    BY <1>1, <2>1
  <2>2. CASE d # c
    BY <1>1, <2>2 DEF Inv, BroadcastInv, Passed, InScope
  <2>3. QED
    BY <2>1, <2>2
<1>6. CleanupIsWhole'
  BY <1>1 DEF Inv, CleanupIsWhole
<1>7. QED
  BY <1>2, <1>3, <1>4, <1>5, <1>6 DEF Inv

LEMMA BroadcastStartsKeepsInv ==
  ASSUME Inv, NEW c \in Conn, NEW u \in User \cup {NoUser}, BroadcastStarts(c, u)
  PROVE  Inv'
<1>1. /\ handler[c] = "loop" /\ auths[c] > 0
      /\ handler' = [handler EXCEPT ![c] = "bcast"]
      /\ snapshot' = [snapshot EXCEPT ![c] = registry] /\ pos' = [pos EXCEPT ![c] = 1]
      /\ scope' = [scope EXCEPT ![c] = u] /\ reached' = [reached EXCEPT ![c] = {}]
      /\ UNCHANGED <<sock, auths, conn_entry, registry, poller, escaped>>
  BY DEF BroadcastStarts, Idle
<1>2. registry \in Seq(Entry) /\ \A i \in 1..Len(registry) : sock[registry[i].conn] # "new"
  BY DEF Inv, TypeOK, RegistryInv, Listed
<1>3. Passed(c)'
  <2>1. pos'[c] = 1
    BY <1>1 DEF Inv, TypeOK
  <2>2. QED
    BY <2>1 DEF Passed
<1>4. 1 \in Nat \ {0} /\ {} \in SUBSET Conn
  OBVIOUS
<1>5. QED
  BY <1>1, <1>2, <1>3, <1>4, BroadcastKeepsInv

LEMMA BroadcastSendsKeepsInv ==
  ASSUME Inv, NEW c \in Conn, BroadcastSends(c)
  PROVE  Inv'
<1> DEFINE e == snapshot[c][pos[c]]
           r == IF InScope(c, e) /\ sock[e.conn] = "open" THEN reached[c] \cup {e.conn} ELSE reached[c]
<1>1. /\ handler[c] = "bcast" /\ pos[c] <= Len(snapshot[c])
      /\ reached' = IF InScope(c, e) /\ sock[e.conn] = "open"
                        THEN [reached EXCEPT ![c] = @ \cup {e.conn}] ELSE reached
      /\ pos' = [pos EXCEPT ![c] = @ + 1]
      /\ UNCHANGED <<sock, handler, auths, conn_entry, registry, poller, snapshot, scope, escaped>>
  BY DEF BroadcastSends
<1>2. /\ snapshot[c] \in Seq(Entry) /\ Len(snapshot[c]) \in Nat /\ pos[c] \in Nat
      /\ scope[c] \in User \cup {NoUser} /\ reached[c] \in SUBSET Conn
      /\ handler = [handler EXCEPT ![c] = "bcast"] /\ snapshot = [snapshot EXCEPT ![c] = snapshot[c]]
      /\ scope = [scope EXCEPT ![c] = scope[c]] /\ auths[c] > 0
      /\ reached = [reached EXCEPT ![c] = reached[c]]
  BY <1>1 DEF Inv, TypeOK
<1>3. \A i \in 1..Len(snapshot[c]) : snapshot[c][i].conn \in Conn /\ sock[snapshot[c][i].conn] # "new"
  BY TypesOfLists, EntryParts DEF Inv, BroadcastInv
<1>4. Passed(c)
  BY <1>1 DEF Inv, BroadcastInv
<1>5. reached' = [reached EXCEPT ![c] = r]
  BY <1>1, <1>2
<1>6. pos[c] \in 1..Len(snapshot[c]) /\ pos[c] + 1 \in Nat \ {0}
  BY <1>1, <1>2 DEF Inv, BroadcastInv
<1>7. e.conn \in Conn /\ r \in SUBSET Conn
  BY <1>2, <1>3, <1>6
<1>8. pos'[c] = pos[c] + 1 /\ reached'[c] = r /\ snapshot'[c] = snapshot[c] /\ scope'[c] = scope[c]
  BY <1>1, <1>5 DEF Inv, TypeOK
<1>9. Passed(c)'
  <2> SUFFICES ASSUME NEW i \in 1..Len(snapshot[c]), i < pos[c] + 1,
                      InScope(c, snapshot[c][i]), sock[snapshot[c][i].conn] = "open"
               PROVE  snapshot[c][i].conn \in r
    BY <1>1, <1>8, SMTT(30) DEF Passed, InScope
  <2>1. CASE i < pos[c]
    BY <1>4, <2>1 DEF Passed
  <2>2. CASE i = pos[c]
    BY <2>2
  <2>3. QED
    BY <1>2, <2>1, <2>2, SMTT(30)
<1> HIDE DEF r, e
<1>10. QED
  BY <1>1, <1>2, <1>3, <1>5, <1>6, <1>7, <1>9, BroadcastKeepsInv

LEMMA BroadcastEndsKeepsInv ==
  ASSUME Inv, NEW c \in Conn, BroadcastEnds(c)
  PROVE  Inv'
<1>1. /\ handler[c] = "bcast"
      /\ snapshot' = [snapshot EXCEPT ![c] = <<>>] /\ pos' = [pos EXCEPT ![c] = 1]
      /\ scope' = [scope EXCEPT ![c] = NoUser] /\ reached' = [reached EXCEPT ![c] = {}]
      /\ UNCHANGED <<sock, auths, conn_entry, registry, poller>>
  BY DEF BroadcastEnds
<1>2. PICK h \in {"loop", "done"} :
         /\ handler' = [handler EXCEPT ![c] = h]
         /\ escaped' = IF h = "done" THEN escaped \cup {c} ELSE escaped
  BY AnswersOutcome DEF BroadcastEnds
<1>3. <<>> \in Seq(Entry) /\ 1 \in Nat \ {0} /\ {} \in SUBSET Conn /\ auths[c] > 0
      /\ \A i \in 1..Len(<<>>) : FALSE
  BY <1>1 DEF Inv, TypeOK
<1>4. QED
  BY <1>1, <1>2, <1>3, BroadcastKeepsInv

-----------------------------------------------------------------------------
LEMMA InitInv == Init => Inv
<1> SUFFICES ASSUME Init
             PROVE  Inv
  OBVIOUS
<1>1. <<>> \in Seq(Entry) /\ \A i \in 1..Len(<<>>) : FALSE
  OBVIOUS
<1>2. TypeOK
  BY <1>1, ConstantsAssumption DEF Init, TypeOK
<1>3. HandlerInv /\ CleanupIsWhole
  BY DEF Init, HandlerInv, CleanupIsWhole
<1>4. RegistryInv /\ BroadcastInv
  BY <1>1 DEF Init, RegistryInv, BroadcastInv
<1>5. QED
  BY <1>2, <1>3, <1>4 DEF Inv

LEMMA StepInv == Inv /\ [Next]_vars => Inv'
<1> SUFFICES ASSUME Inv, [Next]_vars
             PROVE  Inv'
  OBVIOUS
<1>1. ASSUME NEW c \in Conn,
             \/ Connects(c) \/ Leaves(c) \/ HeartbeatCloses(c) \/ AuthFails(c) \/ Answers(c)
             \/ SessionsList(c) \/ TurnStarts(c) \/ TurnEnds(c) \/ PollerEnds(c)
      PROVE  Inv'
  BY <1>1, QuietSteps
<1>2. ASSUME NEW c \in Conn, NEW u \in Claims[c], Authenticates(c, u)
      PROVE  Inv'
  BY <1>2, AuthenticatesKeepsInv
<1>3. ASSUME NEW c \in Conn, NEW u \in User \cup {NoUser}, BroadcastStarts(c, u)
      PROVE  Inv'
  BY <1>3, BroadcastStartsKeepsInv
<1>4. ASSUME NEW c \in Conn, BroadcastSends(c) \/ BroadcastEnds(c)
      PROVE  Inv'
  BY <1>4, BroadcastSendsKeepsInv, BroadcastEndsKeepsInv
<1>5. ASSUME NEW c \in Conn, CleansUp(c)
      PROVE  Inv'
  BY <1>5, CleansUpKeepsInv
<1>6. CASE UNCHANGED vars
  BY <1>6 DEF vars, browserVars, Inv, TypeOK, HandlerInv, RegistryInv, Listed, BroadcastInv, Passed,
              InScope, CleanupIsWhole
<1>7. QED
  BY <1>1, <1>2, <1>3, <1>4, <1>5, <1>6 DEF Next, Serves

\* ws_handler: every variable keeps its type, and only a connection that was
\* authenticated has an entry, a turn, a poller or a broadcast.
THEOREM TypeCorrect == Spec => []TypeOK
<1>1. Inv => TypeOK
  BY DEF Inv
<1>2. QED
  BY <1>1, InitInv, StepInv, PTL DEF Spec

\* _broadcast_browser_navigate() over a copy of CONNECTIONS: while it waits for
\* each send, connections authenticate, leave and are removed, and still every
\* one that it started with, is for and that is open at its end had the command.
THEOREM NavigateReachesAllHolds == Spec => []NavigateReachesAll
<1>1. ASSUME Inv
      PROVE  NavigateReachesAll
  <2> SUFFICES ASSUME NEW c \in Conn, handler[c] = "bcast", pos[c] > Len(snapshot[c]),
                      NEW i \in 1..Len(snapshot[c]),
                      InScope(c, snapshot[c][i]), sock[snapshot[c][i].conn] = "open"
               PROVE  snapshot[c][i].conn \in reached[c]
    BY DEF NavigateReachesAll
  <2>1. Len(snapshot[c]) \in Nat /\ pos[c] \in Nat
    BY <1>1, TypesOfLists DEF Inv, TypeOK
  <2>2. i < pos[c]
    BY <2>1
  <2>3. QED
    BY <1>1, <2>2 DEF Inv, BroadcastInv, Passed
<1>2. QED
  BY <1>1, InitInv, StepInv, PTL DEF Spec

\* The lines after the frame loop: a handler that comes to them, of a client
\* that authenticated once, leaves no entry and no poller, for as long as the
\* bridge runs.
THEOREM CleanupIsWholeHolds == Spec => []CleanupIsWhole
<1>1. Inv => CleanupIsWhole
  BY DEF Inv
<1>2. QED
  BY <1>1, InitInv, StepInv, PTL DEF Spec

-----------------------------------------------------------------------------
(* The map from peers to sessions that all connections share: proofs about *)
(* PeerMap, whatever the connections list, and for any number of reads     *)
(* that raise.                                                             *)

LEMMA PeersInitTypeOK == PeersInit => PeersTypeOK
  BY PeersAssumption DEF PeersInit, PeersTypeOK, Job, LoopIsFree

LEMMA PeersStepTypeOK == PeersTypeOK /\ [PeersNext]_peersVars => PeersTypeOK'
<1> SUFFICES ASSUME PeersTypeOK, [PeersNext]_peersVars
             PROVE  PeersTypeOK'
  OBVIOUS
<1> USE PeersAssumption DEF PeersTypeOK, Job, LoopIsFree
<1>1. ASSUME NEW c \in Client, LoopLists(c)
      PROVE  PeersTypeOK'
  BY <1>1 DEF LoopLists, Clears
<1>2. ASSUME NEW c \in Client, PollerLists(c) \/ QueryRaises(c)
      PROVE  PeersTypeOK'
  BY <1>2 DEF PollerLists, QueryRaises
<1>3. ASSUME NEW c \in Client, PollerReturns(c)
      PROVE  PeersTypeOK'
  BY <1>3 DEF PollerReturns
<1>4. ASSUME NEW j \in Job, ReadsTops(j)
      PROVE  PeersTypeOK'
  BY <1>4 DEF ReadsTops
<1>5. ASSUME NEW j \in Job, NEW s \in Session, Maps(j, s)
      PROVE  PeersTypeOK'
  BY <1>5 DEF Maps
<1>6. CASE LoopReturns
  BY <1>6 DEF LoopReturns
<1>7. ASSUME NEW j \in Job, TopsRaise(j)
      PROVE  PeersTypeOK'
  BY <1>7 DEF TopsRaise
<1>8. ASSUME NEW c \in Client, NEW s \in Session, LooksUp(c, s)
      PROVE  PeersTypeOK'
  BY <1>8 DEF LooksUp
<1>9. ASSUME NEW c \in Client, PollerClears(c)
      PROVE  PeersTypeOK'
  BY <1>9 DEF PollerClears, Clears
<1>10. CASE UNCHANGED peersVars
  BY <1>10 DEF peersVars
<1>11. QED
  BY <1>1, <1>2, <1>3, <1>4, <1>5, <1>6, <1>7, <1>8, <1>9, <1>10 DEF PeersNext, Lists

\* Every variable keeps its type, and a listing that runs on the event loop
\* is for a connection.
THEOREM PeersTypeCorrect == PeersSpec => []PeersTypeOK
<1>1. PeersInit => PeersTypeOK
  BY PeersInitTypeOK
<1>2. PeersTypeOK /\ [PeersNext]_peersVars => PeersTypeOK'
  BY PeersStepTypeOK
<1>3. QED
  BY <1>1, <1>2, PTL DEF PeersSpec

-----------------------------------------------------------------------------

LEMMA StepLastListing ==
  PeersTypeOK /\ LastListingIsMapped /\ [PeersNext]_peersVars => LastListingIsMapped'
<1> SUFFICES ASSUME PeersTypeOK, LastListingIsMapped, [PeersNext]_peersVars, cleared' # None
             PROVE  latest' \subseteq mapped' \cup todo'[cleared']
  BY DEF LastListingIsMapped
(* A call that clears takes over: what it lists is what it has to map. *)
<1>1. ASSUME NEW j \in Job, NEW L, Clears(j, L)
      PROVE  latest' \subseteq mapped' \cup todo'[cleared']
  BY <1>1 DEF Clears, PeersTypeOK
<1>2. ASSUME NEW c \in Client, LoopLists(c) \/ PollerClears(c)
      PROVE  latest' \subseteq mapped' \cup todo'[cleared']
  BY <1>1, <1>2 DEF LoopLists, PollerClears, Job
(* Any call that maps a session only adds to the map. *)
<1>3. ASSUME NEW j \in Job, NEW s \in Session, Maps(j, s)
      PROVE  latest' \subseteq mapped' \cup todo'[cleared']
  <2>1. CASE cleared = j
    BY <1>3, <2>1 DEF Maps, LastListingIsMapped, PeersTypeOK
  <2>2. CASE cleared # j
    BY <1>3, <2>2 DEF Maps, LastListingIsMapped, PeersTypeOK
  <2>3. QED
    BY <2>1, <2>2
(* A call that raises withdraws its own listing, and nobody else's. *)
<1>4. ASSUME NEW j \in Job, TopsRaise(j)
      PROVE  latest' \subseteq mapped' \cup todo'[cleared']
  <2>1. CASE cleared = j
    BY <1>4, <2>1 DEF TopsRaise
  <2>2. CASE cleared # j
    BY <1>4, <2>2 DEF TopsRaise, LastListingIsMapped, PeersTypeOK
  <2>3. QED
    BY <2>1, <2>2
<1>5. CASE UNCHANGED <<mapped, todo, cleared, latest>>
  BY <1>5 DEF LastListingIsMapped
<1>6. QED
  BY <1>2, <1>3, <1>4, <1>5
     DEF PeersNext, Lists, PollerLists, QueryRaises, PollerReturns, LoopReturns, ReadsTops,
         LooksUp, peersVars

\* However calls of list_sessions overlap, the listing of the call that
\* cleared the map last is in the map, or in that call's hands.
THEOREM LastListingIsMappedHolds == PeersSpec => []LastListingIsMapped
<1>1. PeersInit => LastListingIsMapped
  BY DEF PeersInit, LastListingIsMapped
<1>2. PeersTypeOK /\ LastListingIsMapped /\ [PeersNext]_peersVars => LastListingIsMapped'
  BY StepLastListing
<1>3. QED
  BY <1>1, <1>2, PeersTypeCorrect, PTL DEF PeersSpec

-----------------------------------------------------------------------------

(* Nobody knows a peer, no poller runs and no call is under way before the *)
(* first listing, which a client asks for.                                 *)
NothingUnlisted ==
    cleared = None =>
        /\ \A c \in Client : known[c] = {}
        /\ polling = {}
        /\ \A j \in Job : at[j] = "idle"

LEMMA StepNothingUnlisted ==
  PeersTypeOK /\ NothingUnlisted /\ [PeersNext]_peersVars => NothingUnlisted'
<1> SUFFICES ASSUME PeersTypeOK, NothingUnlisted, [PeersNext]_peersVars, cleared' = None
             PROVE  /\ \A c \in Client : known'[c] = {}
                    /\ polling' = {}
                    /\ \A j \in Job : at'[j] = "idle"
  BY DEF NothingUnlisted
<1>1. cleared = None
  BY PeersAssumption DEF PeersNext, Lists, LoopLists, PollerLists, PollerClears, QueryRaises, Clears,
         PollerReturns, LoopReturns, ReadsTops, Maps, TopsRaise, LooksUp, Job, peersVars
<1>2. /\ \A c \in Client : known[c] = {}
      /\ polling = {}
      /\ \A j \in Job : at[j] = "idle"
  BY <1>1 DEF NothingUnlisted
<1>3. UNCHANGED <<known, polling, at>>
  BY <1>2, PeersAssumption DEF PeersNext, Lists, LoopLists, PollerLists, PollerClears, QueryRaises, Clears,
         PollerReturns, LoopReturns, ReadsTops, Maps, TopsRaise, LooksUp, Job, peersVars
<1>4. QED
  BY <1>2, <1>3

\* An op for a peer that its client knows is refused only after a listing that
\* raised or does not have the session, or before the last one has added it.
THEOREM RefusedOnlyMeanwhileHolds == PeersSpec => RefusedOnlyMeanwhile
<1>1. PeersInit => NothingUnlisted
  BY DEF PeersInit, NothingUnlisted
<1>2. PeersTypeOK /\ NothingUnlisted /\ [PeersNext]_peersVars => NothingUnlisted'
  BY StepNothingUnlisted
<1>3. ASSUME LastListingIsMapped, NothingUnlisted, [PeersNext]_peersVars,
             NEW r \in refused' \ refused
      PROVE  cleared # None /\ (r[2] \in latest => r[2] \in todo[cleared])
  <2>1. PICK c \in Client, s \in Session : LooksUp(c, s)
    BY <1>3 DEF PeersNext, Lists, LoopLists, PollerLists, PollerClears, QueryRaises, PollerReturns,
                LoopReturns, ReadsTops, Maps, TopsRaise, peersVars
  <2>2. r = <<c, s>> /\ s \in known[c] /\ s \notin mapped
    BY <1>3, <2>1 DEF LooksUp
  <2>3. cleared # None
    BY <1>3, <2>2 DEF NothingUnlisted
  <2>4. QED
    BY <1>3, <2>2, <2>3 DEF LastListingIsMapped
<1>4. LastListingIsMapped /\ NothingUnlisted /\ [PeersNext]_peersVars =>
        [\A r \in refused' \ refused :
            cleared # None /\ (r[2] \in latest => r[2] \in todo[cleared])]_peersVars
  BY <1>3
<1>5. QED
  BY <1>1, <1>2, <1>4, PeersTypeCorrect, LastListingIsMappedHolds, PTL
     DEF PeersSpec, RefusedOnlyMeanwhile
=============================================================================
