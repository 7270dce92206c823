--------------------------- MODULE LivePushProofs ---------------------------
(***************************************************************************)
(* Proofs about LivePush, for every set of sessions and every value of the *)
(* other constants.  TypeOK and WatermarkWithinStore come first, then the  *)
(* invariant that carries NothingPassedOver, then WatchedIsKnown; on these *)
(* rest the refinement of Feed and the order of the pushes.                *)
(***************************************************************************)
EXTENDS LivePush, TLAPS

-----------------------------------------------------------------------------
(* Type correctness.                                                       *)

LEMMA InitTypeOK == Init => TypeOK
<1> SUFFICES ASSUME Init
             PROVE  TypeOK
  OBVIOUS
<1>1. StoreOK /\ WatermarksOK /\ ClientOK
  BY ConstantsAssumption DEF Init, StoreOK, WatermarksOK, ClientOK, NoOne
<1>2. PollerOK /\ TurnOK
  BY ConstantsAssumption DEF Init, PollerOK, TurnOK, NoOne
<1>3. TickOK
  BY ConstantsAssumption DEF Init, TickOK
<1>4. QED
  BY <1>1, <1>2, <1>3 DEF TypeOK, Init

LEMMA ListableIsBorn == \A L \in Listable : L \subseteq born
  BY DEF Listable

LEMMA TopIsNat == TypeOK => \A s \in Session : Top(s) \in Nat
  BY DEF TypeOK, StoreOK, Top

LEMMA LargerIsNat ==
    \A m, n \in Nat : Larger(m, n) \in Nat /\ m <= Larger(m, n) /\ n <= Larger(m, n)
  BY DEF Larger

(* The store only grows: a written row stays, under the same id. *)
LEMMA AppendGrows ==
    ASSUME TypeOK, NEW s \in Session, NEW o \in Origin,
           store' = [store EXCEPT ![s] = Append(@, o)]
    PROVE  /\ store' \in [Session -> Seq(Origin)]
           /\ \A r \in Session : Top(r)' \in Nat /\ Top(r) <= Top(r)'
<1>1. store[s] \in Seq(Origin) /\ store \in [Session -> Seq(Origin)]
  BY DEF TypeOK, StoreOK
<1>2. Append(store[s], o) \in Seq(Origin) /\ Len(Append(store[s], o)) = Len(store[s]) + 1
  BY <1>1
<1>3. store' \in [Session -> Seq(Origin)]
  BY <1>1, <1>2
<1>4. \A r \in Session : Top(r)' \in Nat /\ Top(r) <= Top(r)'
  <2> SUFFICES ASSUME NEW r \in Session
               PROVE  Len(store'[r]) \in Nat /\ Len(store[r]) <= Len(store'[r])
    BY DEF Top
  <2>1. Len(store[r]) \in Nat /\ Len(store'[r]) \in Nat
    BY <1>1, <1>3
  <2>2. CASE r = s
    BY <1>1, <1>2, <2>1, <2>2
  <2>3. CASE r # s
    BY <1>1, <2>1, <2>3
  <2>4. QED
    BY <2>2, <2>3
<1>5. QED
  BY <1>3, <1>4

(* A part of the state that a step leaves alone keeps its type. *)
LEMMA UntouchedStaysOK ==
    /\ StoreOK /\ UNCHANGED <<storeVars, mapped>> => StoreOK'
    /\ WatermarksOK /\ UNCHANGED <<watched, wm>> => WatermarksOK'
    /\ PollerOK /\ UNCHANGED pollVars => PollerOK'
    /\ TickOK /\ UNCHANGED tick => TickOK'
    /\ TurnOK /\ UNCHANGED sendVars => TurnOK'
    /\ ClientOK /\ UNCHANGED clientVars => ClientOK'
<1>1. StoreOK /\ UNCHANGED <<storeVars, mapped>> => StoreOK'
  BY DEF StoreOK, storeVars
<1>2. WatermarksOK /\ UNCHANGED <<watched, wm>> => WatermarksOK'
  BY DEF WatermarksOK
<1>3. PollerOK /\ UNCHANGED pollVars => PollerOK'
  BY DEF PollerOK, pollVars
<1>4. TickOK /\ UNCHANGED tick => TickOK'
  BY DEF TickOK
<1>5. TurnOK /\ UNCHANGED sendVars => TurnOK'
  BY DEF TurnOK, sendVars
<1>6. ClientOK /\ UNCHANGED clientVars => ClientOK'
  BY DEF ClientOK, clientVars
<1>7. QED
  BY <1>1, <1>2, <1>3, <1>4, <1>5, <1>6

LEMMA StepTypeOK == TypeOK /\ [Next]_vars => TypeOK'
<1> SUFFICES ASSUME TypeOK, [Next]_vars
             PROVE  TypeOK'
  OBVIOUS
<1>1. ASSUME NEW s \in Session, NewSession(s)
      PROVE  TypeOK'
  <2>1. StoreOK'
    BY <1>1 DEF NewSession, TypeOK, StoreOK, storeVars
  <2>2. QED
    BY <1>1, <2>1, UntouchedStaysOK
       DEF NewSession, TypeOK, storeVars, pollVars, sendVars, clientVars
<1>2. ASSUME NEW s \in Session, RowArrives(s)
      PROVE  TypeOK'
  <2>1. StoreOK'
    BY <1>2, AppendGrows DEF RowArrives, TypeOK, StoreOK, storeVars, Origin
  <2>2. QED
    BY <1>2, <2>1, UntouchedStaysOK
       DEF RowArrives, TypeOK, storeVars, pollVars, sendVars, clientVars
<1>3. ASSUME NEW M \in SUBSET born, OthersList(M)
      PROVE  TypeOK'
  <2>1. StoreOK'
    BY <1>3 DEF OthersList, TypeOK, StoreOK, storeVars
  <2>2. QED
    BY <1>3, <2>1, UntouchedStaysOK
       DEF OthersList, TypeOK, storeVars, pollVars, sendVars, clientVars
<1>4. ASSUME NEW L \in Listable, SessionsList(L)
      PROVE  TypeOK'
  <2>1. StoreOK'
    BY <1>4, ListableIsBorn DEF SessionsList, TypeOK, StoreOK, storeVars
  <2>2. WatermarksOK' /\ ClientOK'
    BY <1>4, ListableIsBorn, TopIsNat DEF SessionsList, TypeOK, StoreOK, WatermarksOK, ClientOK
  <2>3. PollerOK'
    BY <1>4 DEF SessionsList, TypeOK, PollerOK
  <2>4. QED
    BY <1>4, <2>1, <2>2, <2>3, UntouchedStaysOK
       DEF SessionsList, TypeOK, storeVars, pollVars, sendVars, clientVars
<1>5. ASSUME NEW s \in Session, StartTurn(s)
      PROVE  TypeOK'
  <2>1. TurnOK'
    BY <1>5 DEF StartTurn, TypeOK, TurnOK
  <2>2. QED
    BY <1>5, <2>1, UntouchedStaysOK
       DEF StartTurn, TypeOK, storeVars, pollVars, sendVars, clientVars
<1>6. CASE AgentPersists
  <2>1. hpeer \in Session /\ "turn" \in Origin
    BY <1>6 DEF AgentPersists, TypeOK, TurnOK, Origin
  <2>2. StoreOK'
    BY <1>6, <2>1, AppendGrows DEF AgentPersists, TypeOK, StoreOK
  <2>3. TurnOK'
    BY <1>6, ConstantsAssumption DEF AgentPersists, TypeOK, TurnOK
  <2>4. QED
    BY <1>6, <2>1, <2>2, <2>3, UntouchedStaysOK
       DEF AgentPersists, TypeOK, storeVars, pollVars, sendVars, clientVars
<1>7. CASE TurnFails
  <2>1. TurnOK'
    BY <1>7, ConstantsAssumption DEF TurnFails, EndTurn, TurnOK
  <2>2. QED
    BY <1>7, <2>1, UntouchedStaysOK
       DEF TurnFails, TypeOK, storeVars, pollVars, sendVars, clientVars
<1>8. CASE FinishTurn
  <2>1. TurnOK'
    BY <1>8 DEF FinishTurn, TypeOK, TurnOK, WatermarksOK
  <2>2. QED
    BY <1>8, <2>1, UntouchedStaysOK
       DEF FinishTurn, TypeOK, storeVars, pollVars, sendVars, clientVars
<1>9. CASE TurnReads
  <2>1. TurnOK'
    BY <1>9, TopIsNat, ConstantsAssumption DEF TurnReads, EndTurn, TypeOK, TurnOK
  <2>2. QED
    BY <1>9, <2>1, UntouchedStaysOK
       DEF TurnReads, TypeOK, storeVars, pollVars, sendVars, clientVars
<1>10. CASE TurnReadRaises
  <2>1. TurnOK'
    BY <1>10, ConstantsAssumption DEF TurnReadRaises, EndTurn, TurnOK
  <2>2. StoreOK'
    BY <1>10, ConstantsAssumption DEF TurnReadRaises, TypeOK, StoreOK
  <2>3. QED
    BY <1>10, <2>1, <2>2, UntouchedStaysOK
       DEF TurnReadRaises, TypeOK, storeVars, pollVars, sendVars, clientVars
<1>11. CASE TurnJumps
  <2>1. TurnOK'
    BY <1>11, ConstantsAssumption DEF TurnJumps, EndTurn, TurnOK
  <2>2. WatermarksOK' /\ ClientOK'
    BY <1>11 DEF TurnJumps, TypeOK, TurnOK, WatermarksOK, ClientOK
  <2>3. QED
    BY <1>11, <2>1, <2>2, UntouchedStaysOK
       DEF TurnJumps, TypeOK, storeVars, pollVars, sendVars, clientVars
<1>12. CASE Wake
  <2>1. PollerOK'
    BY <1>12 DEF Wake, TypeOK, PollerOK, WatermarksOK
  <2>2. QED
    BY <1>12, <2>1, UntouchedStaysOK
       DEF Wake, TypeOK, storeVars, pollVars, sendVars, clientVars
<1>13. ASSUME NEW s \in Session, PollReads(s)
       PROVE  TypeOK'
  <2>1. PollerOK'
    <3>1. CASE s \in mapped /\ snap[s] < Top(s)
      <4>1. snap[s] + 1 \in Nat /\ Top(s) \in Nat /\ snap' \in [Session -> Nat]
        BY <1>13, TopIsNat DEF PollReads, TypeOK, PollerOK
      <4>2. QED
        BY <1>13, <3>1, <4>1 DEF PollReads, TypeOK, PollerOK
    <3>2. CASE ~(s \in mapped /\ snap[s] < Top(s))
      BY <1>13, <3>2 DEF PollReads, TypeOK, PollerOK
    <3>3. QED
      BY <3>1, <3>2
  <2>2. QED
    BY <1>13, <2>1, UntouchedStaysOK
       DEF PollReads, TypeOK, storeVars, pollVars, sendVars, clientVars
<1>14. CASE PollPushes
  <2>1. PollerOK'
    BY <1>14 DEF PollPushes, TypeOK, PollerOK
  <2>2. ClientOK'
    BY <1>14 DEF PollPushes, TypeOK, PollerOK, ClientOK
  <2>3. QED
    BY <1>14, <2>1, <2>2, UntouchedStaysOK
       DEF PollPushes, TypeOK, storeVars, pollVars, sendVars, clientVars
<1>15. CASE PollAdvances
  <2>1. PollerOK'
    <3>1. CASE next < last
      BY <1>15, <3>1 DEF PollAdvances, TypeOK, PollerOK
    <3>2. CASE ~(next < last)
      BY <1>15, <3>2 DEF PollAdvances, TypeOK, PollerOK
    <3>3. QED
      BY <3>1, <3>2
  <2>2. WatermarksOK'
    BY <1>15, LargerIsNat DEF PollAdvances, TypeOK, PollerOK, WatermarksOK
  <2>3. QED
    BY <1>15, <2>1, <2>2, UntouchedStaysOK
       DEF PollAdvances, TypeOK, storeVars, pollVars, sendVars, clientVars
<1>16. CASE PollEndsScan
  <2>1. PollerOK'
    BY <1>16 DEF PollEndsScan, TypeOK, PollerOK
  <2>2. (tick + 1) % RescanEvery \in 0..(RescanEvery - 1)
    BY ConstantsAssumption DEF TypeOK, TickOK
  <2>3. TickOK'
    BY <1>16, <2>2 DEF PollEndsScan, TickOK
  <2>4. QED
    BY <1>16, <2>1, <2>2, <2>3, UntouchedStaysOK
       DEF PollEndsScan, TypeOK, storeVars, pollVars, sendVars, clientVars
<1>17. ASSUME NEW L \in Listable, RescanClears(L)
       PROVE  TypeOK'
  <2>1. StoreOK' /\ listing' \subseteq born'
    BY <1>17, ListableIsBorn DEF RescanClears, TypeOK, StoreOK, storeVars
  <2>2. PollerOK'
    BY <1>17, ListableIsBorn DEF RescanClears, TypeOK, StoreOK, PollerOK
  <2>3. QED
    BY <1>17, <2>1, <2>2, UntouchedStaysOK
       DEF RescanClears, TypeOK, storeVars, pollVars, sendVars, clientVars
<1>18. CASE RescanFills
  <2>1. StoreOK'
    BY <1>18 DEF RescanFills, TypeOK, StoreOK, storeVars
  <2>2. PollerOK'
    BY <1>18, TopIsNat DEF RescanFills, TypeOK, PollerOK
  <2>3. QED
    BY <1>18, <2>1, <2>2, UntouchedStaysOK
       DEF RescanFills, TypeOK, storeVars, pollVars, sendVars, clientVars
<1>19. ASSUME NEW s \in Session, Announce(s)
       PROVE  TypeOK'
  <2>1. PollerOK'
    BY <1>19 DEF Announce, TypeOK, PollerOK
  <2>2. ClientOK'
    BY <1>19, LargerIsNat DEF Announce, TypeOK, PollerOK, ClientOK
  <2>3. QED
    BY <1>19, <2>1, <2>2, UntouchedStaysOK
       DEF Announce, TypeOK, storeVars, pollVars, sendVars, clientVars
<1>20. CASE Adopt
  <2>1. PollerOK'
    BY <1>20 DEF Adopt, TypeOK, PollerOK
  <2>2. WatermarksOK'
    BY <1>20 DEF Adopt, TypeOK, PollerOK, WatermarksOK
  <2>3. QED
    BY <1>20, <2>1, <2>2, UntouchedStaysOK
       DEF Adopt, TypeOK, storeVars, pollVars, sendVars, clientVars
<1>21. CASE RescanEnds
  <2>1. PollerOK'
    BY <1>21 DEF RescanEnds, TypeOK, PollerOK, NoOne
  <2>2. QED
    BY <1>21, <2>1, UntouchedStaysOK
       DEF RescanEnds, TypeOK, storeVars, pollVars, sendVars, clientVars
<1>22. CASE TickAborts
  <2>1. StoreOK'
    BY <1>22, ConstantsAssumption DEF TickAborts, TypeOK, StoreOK
  <2>2. PollerOK'
    BY <1>22 DEF TickAborts, TypeOK, PollerOK, NoOne
  <2>3. QED
    BY <1>22, <2>1, <2>2, UntouchedStaysOK
       DEF TickAborts, TypeOK, storeVars, pollVars, sendVars, clientVars
<1>23. CASE UNCHANGED vars
  BY <1>23, UntouchedStaysOK DEF vars, TypeOK, storeVars, pollVars
<1>24. QED
  BY <1>1, <1>2, <1>3, <1>4, <1>5, <1>6, <1>7, <1>8, <1>9, <1>10, <1>11, <1>12,
     <1>13, <1>14, <1>15, <1>16, <1>17, <1>18, <1>19, <1>20, <1>21, <1>22, <1>23
     DEF Next, World, FrameLoop, Poller

\* Every variable of the connection's two coroutines keeps its type.
THEOREM TypeCorrect == Spec => []TypeOK
<1>1. Init => TypeOK
  BY InitTypeOK
<1>2. TypeOK /\ [Next]_vars => TypeOK'
  BY StepTypeOK
<1>3. QED
  BY <1>1, <1>2, PTL DEF Spec

-----------------------------------------------------------------------------
(* No watermark runs ahead of the store.                                   *)

\* No watermark, and no value on its way to become one (the snapshot, the
\* message being pushed, the listing, the jump of a turn), is past the last
\* row of its session: a watermark that were would silence a later reply.
WatermarkWithinStore ==
    /\ \A s \in Session : wm[s] <= Top(s) /\ snap[s] <= Top(s) /\ tops[s] <= Top(s)
    /\ ppc \in {"push", "advance"} => next <= last /\ last <= Top(peer)
    /\ hpc = "read" => mark <= Top(hpeer)
    /\ hpc = "jump" => top <= Top(hpeer)

(* The strengthening adds the listings announced to the client: they are   *)
(* what SessionsList and Adopt copy into a watermark.                      *)
Within ==
    /\ WatermarkWithinStore
    /\ \A s \in Session : base[s] <= Top(s)

LEMMA InitWithin == Init => Within
  BY DEF Init, Within, WatermarkWithinStore, Top, NoOne

(* The two steps that write a row. *)
LEMMA GrowthKeepsWithin ==
    ASSUME TypeOK, Within,
           \A s \in Session : Top(s)' \in Nat /\ Top(s) <= Top(s)',
           UNCHANGED <<wm, snap, tops, base, ppc, next, last, peer, hpc, mark, top, hpeer>>
    PROVE  Within'
<1>0. \A s \in Session : Top(s) \in Nat
  BY TopIsNat
<1>1. ASSUME NEW s \in Session
      PROVE  /\ wm'[s] <= Top(s)' /\ snap'[s] <= Top(s)'
             /\ tops'[s] <= Top(s)' /\ base'[s] <= Top(s)'
  <2>1. /\ wm[s] \in Nat /\ snap[s] \in Nat /\ tops[s] \in Nat /\ base[s] \in Nat
        /\ Top(s) \in Nat /\ Top(s)' \in Nat /\ Top(s) <= Top(s)'
    BY <1>0 DEF TypeOK, WatermarksOK, PollerOK, TurnOK, ClientOK
  <2>2. wm[s] <= Top(s) /\ snap[s] <= Top(s) /\ tops[s] <= Top(s) /\ base[s] <= Top(s)
    BY DEF Within, WatermarkWithinStore
  <2>3. QED
    BY <2>1, <2>2
<1>2. ASSUME ppc \in {"push", "advance"}
      PROVE  next <= last /\ last <= Top(peer)'
  <2>1. peer \in Session /\ peer' = peer /\ last <= Top(peer) /\ next <= last
    BY <1>2 DEF TypeOK, WatermarksOK, PollerOK, TurnOK, ClientOK, Within, WatermarkWithinStore
  <2>2. Top(peer) \in Nat /\ last \in Nat /\ Top(peer)' \in Nat /\ Top(peer) <= Top(peer)'
    BY <2>1, <1>0 DEF Top, TypeOK, WatermarksOK, PollerOK, TurnOK, ClientOK
  <2>3. QED
    BY <2>1, <2>2
<1>3. ASSUME hpc \in {"read", "jump"}
      PROVE  Top(hpeer)' \in Nat /\ Top(hpeer) <= Top(hpeer)'
  <2>1. hpeer \in Session /\ hpeer' = hpeer
    BY <1>3 DEF TypeOK, WatermarksOK, PollerOK, TurnOK, ClientOK
  <2>2. QED
    BY <2>1 DEF Top
<1>4. /\ hpc = "read" => mark <= Top(hpeer)'
      /\ hpc = "jump" => top <= Top(hpeer)'
  <2>1. CASE hpc \in {"read", "jump"}
    <3>1. /\ mark \in Nat /\ top \in Nat /\ Top(hpeer) \in Nat
          /\ Top(hpeer)' \in Nat /\ Top(hpeer) <= Top(hpeer)'
      BY <1>0, <1>3, <2>1 DEF TypeOK, WatermarksOK, PollerOK, TurnOK, ClientOK
    <3>2. QED
      BY <3>1 DEF Within, WatermarkWithinStore
  <2>2. QED
    BY <2>1
<1>5. QED
  BY <1>1, <1>2, <1>3, <1>4 DEF Within, WatermarkWithinStore

LEMMA StepWithin == TypeOK /\ Within /\ [Next]_vars => Within'
<1> SUFFICES ASSUME TypeOK, Within, [Next]_vars
             PROVE  Within'
  OBVIOUS
<1> USE DEF storeVars, pollVars, sendVars, clientVars
<1> DEFINE Levels == \A s \in Session : /\ wm[s] <= Top(s) /\ snap[s] <= Top(s)
                                        /\ tops[s] <= Top(s) /\ base[s] <= Top(s)
           Batch  == ppc \in {"push", "advance"} => next <= last /\ last <= Top(peer)
           Turn   == /\ hpc = "read" => mark <= Top(hpeer)
                     /\ hpc = "jump" => top <= Top(hpeer)
<1>a. Levels /\ Batch /\ Turn
  BY DEF Within, WatermarkWithinStore
<1>b. Levels' /\ Batch' /\ Turn' => Within'
  BY DEF Within, WatermarkWithinStore
<1>c. ASSUME UNCHANGED <<store, wm, snap, tops, base>> PROVE Levels'
  BY <1>a, <1>c DEF Top
<1>d. ASSUME UNCHANGED <<store, ppc, peer, next, last>> PROVE Batch'
  BY <1>a, <1>d DEF Top
<1>e. ASSUME UNCHANGED <<store, hpc, hpeer, mark, top>> PROVE Turn'
  BY <1>a, <1>e DEF Top
<1>1. ASSUME NEW s \in Session, NewSession(s)
      PROVE  Within'
  BY <1>1, <1>b, <1>c, <1>d, <1>e DEF NewSession
<1>2. ASSUME NEW s \in Session, RowArrives(s)
      PROVE  Within'
  BY <1>2, AppendGrows, GrowthKeepsWithin DEF RowArrives, Origin
<1>3. ASSUME NEW M \in SUBSET born, OthersList(M)
      PROVE  Within'
  BY <1>3, <1>b, <1>c, <1>d, <1>e DEF OthersList
<1>4. ASSUME NEW L \in Listable, SessionsList(L)
      PROVE  Within'
  <2>1. Levels'
    BY <1>4, <1>a, TopIsNat DEF SessionsList, TypeOK, WatermarksOK, ClientOK, Top
  <2>2. Batch'
    BY <1>4, <1>a DEF SessionsList, Top
  <2>3. QED
    BY <1>4, <2>1, <2>2, <1>b, <1>e DEF SessionsList
<1>5. ASSUME NEW s \in Session, StartTurn(s)
      PROVE  Within'
  <2>1. Turn'
    BY <1>5 DEF StartTurn
  <2>2. QED
    BY <1>5, <2>1, <1>b, <1>c, <1>d DEF StartTurn
<1>6. CASE AgentPersists
  <2>1. hpeer \in Session /\ "turn" \in Origin
    BY <1>6 DEF AgentPersists, TypeOK, TurnOK, Origin
  <2>2. QED
    BY <1>6, <2>1, AppendGrows, GrowthKeepsWithin DEF AgentPersists
<1>7. CASE TurnFails
  <2>1. Turn'
    BY <1>7 DEF TurnFails, EndTurn
  <2>2. QED
    BY <1>7, <2>1, <1>b, <1>c, <1>d DEF TurnFails
<1>8. CASE FinishTurn
  <2>1. Turn'
    BY <1>8, <1>a DEF FinishTurn, TypeOK, TurnOK, Top
  <2>2. QED
    BY <1>8, <2>1, <1>b, <1>c, <1>d DEF FinishTurn
<1>9. CASE TurnReads
  <2>1. Turn'
    BY <1>9, TopIsNat DEF TurnReads, EndTurn, TypeOK, TurnOK, Top
  <2>2. QED
    BY <1>9, <2>1, <1>b, <1>c, <1>d DEF TurnReads
<1>10. CASE TurnReadRaises
  <2>1. Turn'
    BY <1>10 DEF TurnReadRaises, EndTurn
  <2>2. QED
    BY <1>10, <2>1, <1>b, <1>c, <1>d DEF TurnReadRaises
<1>11. CASE TurnJumps
  <2>1. Levels'
    BY <1>11, <1>a DEF TurnJumps, TypeOK, TurnOK, WatermarksOK, Top
  <2>2. Turn'
    BY <1>11 DEF TurnJumps, EndTurn
  <2>3. QED
    BY <1>11, <2>1, <2>2, <1>b, <1>d DEF TurnJumps
<1>12. CASE Wake
  <2>1. Levels'
    BY <1>12, <1>a DEF Wake, Top
  <2>2. Batch'
    BY <1>12 DEF Wake
  <2>3. QED
    BY <1>12, <2>1, <2>2, <1>b, <1>e DEF Wake
<1>13. ASSUME NEW s \in Session, PollReads(s)
       PROVE  Within'
  <2>1. Levels'
    BY <1>13, <1>a, TopIsNat DEF PollReads, TypeOK, PollerOK, Top
  <2>2. Batch'
    <3>1. CASE s \in mapped /\ snap[s] < Top(s)
      <4>1. snap[s] \in Nat /\ Top(s) \in Nat /\ snap[s] + 1 <= Top(s)
        BY <3>1, TopIsNat DEF TypeOK, PollerOK
      <4>2. QED
        BY <1>13, <3>1, <4>1 DEF PollReads, Top
    <3>2. CASE ~(s \in mapped /\ snap[s] < Top(s))
      BY <1>13, <3>2 DEF PollReads
    <3>3. QED
      BY <3>1, <3>2
  <2>3. QED
    BY <1>13, <2>1, <2>2, <1>b, <1>e DEF PollReads
<1>14. CASE PollPushes
  <2>1. Batch'
    BY <1>14, <1>a DEF PollPushes, Top
  <2>2. QED
    BY <1>14, <2>1, <1>b, <1>c, <1>e DEF PollPushes
<1>15. CASE PollAdvances
  <2>1. Levels'
    <3>1. peer \in Session /\ next <= Top(peer)
      BY <1>15, <1>a, TopIsNat DEF PollAdvances, TypeOK, PollerOK
    <3>2. Larger(wm[peer], next) <= Top(peer)
      BY <1>a, <3>1 DEF Larger
    <3>3. QED
      BY <1>15, <1>a, <3>2 DEF PollAdvances, TypeOK, WatermarksOK, Top
  <2>2. Batch'
    BY <1>15, <1>a DEF PollAdvances, TypeOK, PollerOK, Top
  <2>3. QED
    BY <1>15, <2>1, <2>2, <1>b, <1>e DEF PollAdvances
<1>16. CASE PollEndsScan
  <2>1. Batch'
    <3>1. ppc' \in {"list", "sleep"}
      BY <1>16 DEF PollEndsScan
    <3>2. QED
      BY <3>1
  <2>2. QED
    BY <1>16, <2>1, <1>b, <1>c, <1>e DEF PollEndsScan
<1>17. ASSUME NEW L \in Listable, RescanClears(L)
       PROVE  Within'
  <2>1. Batch'
    BY <1>17 DEF RescanClears
  <2>2. QED
    BY <1>17, <2>1, <1>b, <1>c, <1>e DEF RescanClears
<1>18. CASE RescanFills
  <2>1. Levels'
    BY <1>18, <1>a, TopIsNat DEF RescanFills, Top
  <2>2. Batch'
    BY <1>18 DEF RescanFills
  <2>3. QED
    BY <1>18, <2>1, <2>2, <1>b, <1>e DEF RescanFills
<1>19. ASSUME NEW s \in Session, Announce(s)
       PROVE  Within'
  <2>1. Levels'
    BY <1>19, <1>a DEF Announce, Larger, TypeOK, PollerOK, ClientOK, Top
  <2>2. Batch'
    BY <1>19 DEF Announce
  <2>3. QED
    BY <1>19, <2>1, <2>2, <1>b, <1>e DEF Announce
<1>20. CASE Adopt
  <2>1. Levels'
    BY <1>20, <1>a, TopIsNat DEF Adopt, TypeOK, PollerOK, WatermarksOK, Top
  <2>2. Batch'
    BY <1>20 DEF Adopt
  <2>3. QED
    BY <1>20, <2>1, <2>2, <1>b, <1>e DEF Adopt
<1>21. CASE RescanEnds
  <2>1. Levels'
    BY <1>21, <1>a, TopIsNat DEF RescanEnds, NoOne, Top
  <2>2. Batch'
    BY <1>21 DEF RescanEnds
  <2>3. QED
    BY <1>21, <2>1, <2>2, <1>b, <1>e DEF RescanEnds
<1>22. CASE TickAborts
  <2>1. Levels'
    BY <1>22, <1>a, TopIsNat DEF TickAborts, NoOne, Top
  <2>2. Batch'
    BY <1>22 DEF TickAborts
  <2>3. QED
    BY <1>22, <2>1, <2>2, <1>b, <1>e DEF TickAborts
<1>23. CASE UNCHANGED vars
  BY <1>23, <1>b, <1>c, <1>d, <1>e DEF vars
<1>24. QED
  BY <1>1, <1>2, <1>3, <1>4, <1>5, <1>6, <1>7, <1>8, <1>9, <1>10, <1>11,
     <1>12, <1>13, <1>14, <1>15, <1>16, <1>17, <1>18, <1>19, <1>20, <1>21,
     <1>22, <1>23
     DEF Next, World, FrameLoop, Poller

\* No watermark, and nothing about to become one, is past the last row of
\* its session, whatever the poller and the send path interleave.
THEOREM WatermarkWithinStoreHolds == Spec => []WatermarkWithinStore
<1>1. Init => Within
  BY InitWithin
<1>2. TypeOK /\ Within /\ [Next]_vars => Within'
  BY StepWithin
<1>3. Within => WatermarkWithinStore
  BY DEF Within
<1>4. QED
  BY <1>1, <1>2, <1>3, TypeCorrect, PTL DEF Spec

-----------------------------------------------------------------------------
(* The poller passes nothing over.                                         *)

Upto(s, n) == \A i \in 1..n : Covered(s, i)

(* NothingPassedOver is not inductive: a watermark also comes from the     *)
(* snapshot of a tick (by way of the rows pushed above it), from the       *)
(* listing that announced a session, and from the mark of a turn.  Each of *)
(* these carries the same promise while it waits.                          *)
CoverInv ==
    /\ \A s \in Session : Upto(s, wm[s]) /\ Upto(s, snap[s])
    /\ ppc = "push" => Upto(peer, next - 1)
    /\ ppc = "advance" => Upto(peer, next)
    /\ ppc = "adopt" => tops[peer] <= base[peer]
    /\ hpc \in {"read", "jump"} => Upto(hpeer, mark)

LEMMA InitCoverInv == Init => CoverInv
<1> SUFFICES ASSUME Init
             PROVE  CoverInv
  OBVIOUS
<1>1. \A s \in Session : wm[s] = 0 /\ snap[s] = 0
  BY DEF Init, NoOne
<1>2. QED
  BY <1>1 DEF Init, CoverInv, Upto

(* What the client has had, it keeps: no step lowers what was announced.   *)
LEMMA ClientKeeps ==
    TypeOK /\ Within /\ [Next]_vars =>
        \A s \in Session : /\ base[s] <= base'[s]
                           /\ pushed[s] \subseteq pushed'[s]
                           /\ jumped[s] \subseteq jumped'[s]
<1> SUFFICES ASSUME TypeOK, Within, [Next]_vars
             PROVE  \A s \in Session : /\ base[s] <= base'[s]
                                       /\ pushed[s] \subseteq pushed'[s]
                                       /\ jumped[s] \subseteq jumped'[s]
  OBVIOUS
<1> USE DEF storeVars, pollVars, sendVars, clientVars
<1> DEFINE Kept == \A s \in Session : /\ base[s] <= base'[s]
                                      /\ pushed[s] \subseteq pushed'[s]
                                      /\ jumped[s] \subseteq jumped'[s]
<1>1. ASSUME UNCHANGED <<base, pushed, jumped>>
      PROVE  Kept
  BY <1>1 DEF TypeOK, PollerOK, ClientOK
<1>2. ASSUME NEW L \in Listable, SessionsList(L)
      PROVE  Kept
  BY <1>2, TopIsNat DEF SessionsList, Within, TypeOK, PollerOK, ClientOK
<1>3. CASE TurnJumps
  BY <1>3 DEF TurnJumps, TypeOK, PollerOK, ClientOK
<1>4. CASE PollPushes
  BY <1>4 DEF PollPushes, TypeOK, PollerOK, ClientOK
<1>5. ASSUME NEW s \in Session, Announce(s)
      PROVE  Kept
  <2>1. /\ pushed' = pushed /\ jumped' = jumped
        /\ base' = [base EXCEPT ![s] = Larger(@, tops[s])]
    BY <1>5 DEF Announce
  <2>2. base[s] <= Larger(base[s], tops[s])
    BY LargerIsNat DEF TypeOK, PollerOK, ClientOK
  <2>3. \A r \in Session : base[r] <= base'[r]
    <3> TAKE r \in Session
    <3>1. base[r] \in Nat
      BY DEF TypeOK, PollerOK, ClientOK
    <3>2. CASE r = s
      BY <2>1, <2>2, <3>2 DEF TypeOK, PollerOK, ClientOK
    <3>3. CASE r # s
      BY <2>1, <3>1, <3>3 DEF TypeOK, PollerOK, ClientOK
    <3>4. QED
      BY <3>2, <3>3
  <2>4. QED
    BY <2>1, <2>3
<1>6. CASE UNCHANGED <<base, pushed, jumped>>
  BY <1>1, <1>6
<1>7. QED
  BY <1>2, <1>3, <1>4, <1>5, <1>6
     DEF Next, World, FrameLoop, Poller, NewSession, RowArrives, OthersList, StartTurn,
         AgentPersists, TurnFails, FinishTurn, TurnReads, TurnReadRaises, Wake, PollReads,
         PollAdvances, PollEndsScan, RescanClears, RescanFills, Adopt, RescanEnds,
         TickAborts, vars

LEMMA CoveredStays ==
    TypeOK /\ Within /\ [Next]_vars =>
        \A s \in Session : \A i \in Nat : Covered(s, i) => Covered(s, i)'
<1> SUFFICES ASSUME TypeOK, Within, [Next]_vars, NEW s \in Session, NEW i \in Nat
             PROVE  Covered(s, i) => Covered(s, i)'
  OBVIOUS
<1>1. base[s] \in Nat /\ base'[s] \in Nat
  BY StepTypeOK DEF TypeOK, PollerOK, ClientOK
<1>2. /\ base[s] <= base'[s]
      /\ pushed[s] \subseteq pushed'[s] /\ jumped[s] \subseteq jumped'[s]
  BY ClientKeeps
<1>3. QED
  BY <1>1, <1>2 DEF Covered

LEMMA StepCoverInv == TypeOK /\ Within /\ CoverInv /\ [Next]_vars => CoverInv'
<1> SUFFICES ASSUME TypeOK, Within, CoverInv, [Next]_vars
             PROVE  CoverInv'
  OBVIOUS
<1> USE DEF storeVars, pollVars, sendVars, clientVars
<1>a. \A s \in Session : \A i \in Nat : Covered(s, i) => Covered(s, i)'
  BY CoveredStays
<1> DEFINE Marks == \A s \in Session : Upto(s, wm[s])
           Snaps == \A s \in Session : Upto(s, snap[s])
           Batch == /\ ppc = "push" => Upto(peer, next - 1)
                    /\ ppc = "advance" => Upto(peer, next)
           News  == ppc = "adopt" => tops[peer] <= base[peer]
           Turn  == hpc \in {"read", "jump"} => Upto(hpeer, mark)
<1>c. ASSUME UNCHANGED wm PROVE Marks'
  BY <1>a, <1>c DEF CoverInv, Upto, TypeOK, WatermarksOK, PollerOK, TurnOK, ClientOK
<1>d. ASSUME UNCHANGED snap PROVE Snaps'
  BY <1>a, <1>d DEF CoverInv, Upto, TypeOK, WatermarksOK, PollerOK, TurnOK, ClientOK
<1>e. ASSUME UNCHANGED <<ppc, peer, next>> PROVE Batch'
  <2>1. ppc \in {"push", "advance"} => peer \in Session
    BY DEF TypeOK, WatermarksOK, PollerOK, TurnOK, ClientOK
  <2>2. (1..(next - 1)) \subseteq Nat /\ (1..next) \subseteq Nat
    BY DEF TypeOK, WatermarksOK, PollerOK, TurnOK, ClientOK
  <2>3. QED
    BY <1>a, <1>e, <2>1, <2>2 DEF CoverInv, Upto
<1>f. ASSUME UNCHANGED <<ppc, peer, tops>> PROVE News'
  <2>1. \A s \in Session : base[s] <= base'[s] /\ base[s] \in Nat /\ base'[s] \in Nat
    BY ClientKeeps, StepTypeOK DEF TypeOK, WatermarksOK, PollerOK, TurnOK, ClientOK
  <2>2. QED
    BY <1>f, <2>1 DEF CoverInv, TypeOK, WatermarksOK, PollerOK, TurnOK, ClientOK
<1>g. ASSUME UNCHANGED <<hpc, hpeer, mark>> PROVE Turn'
  <2>1. hpc \in {"read", "jump"} => hpeer \in Session /\ (1..mark) \subseteq Nat
    BY DEF TypeOK, WatermarksOK, PollerOK, TurnOK, ClientOK
  <2>2. QED
    BY <1>a, <1>g, <2>1 DEF CoverInv, Upto
<1>h. Marks' /\ Snaps' /\ Batch' /\ News' /\ Turn' => CoverInv'
  BY DEF CoverInv
<1>1. ASSUME NEW s \in Session, NewSession(s)
      PROVE  CoverInv'
  BY <1>1, <1>c, <1>d, <1>e, <1>f, <1>g, <1>h DEF NewSession
<1>2. ASSUME NEW s \in Session, RowArrives(s)
      PROVE  CoverInv'
  BY <1>2, <1>c, <1>d, <1>e, <1>f, <1>g, <1>h DEF RowArrives
<1>3. ASSUME NEW M \in SUBSET born, OthersList(M)
      PROVE  CoverInv'
  BY <1>3, <1>c, <1>d, <1>e, <1>f, <1>g, <1>h DEF OthersList
<1>4. ASSUME NEW L \in Listable, SessionsList(L)
      PROVE  CoverInv'
  <2>1. Snaps' /\ Turn'
    BY <1>4, <1>d, <1>g DEF SessionsList
  <2>2. Marks'
    <3> SUFFICES ASSUME NEW s \in Session, NEW i \in 1..wm'[s]
                 PROVE  Covered(s, i)'
      BY DEF Upto
    <3>1. CASE s \in L
      BY <1>4, <3>1 DEF SessionsList, Covered
    <3>2. CASE s \notin L
      BY <1>4, <1>a, <3>2 DEF SessionsList, CoverInv, Upto, TypeOK, WatermarksOK, PollerOK, TurnOK, ClientOK
    <3>3. QED
      BY <3>1, <3>2
  <2>3. Batch'
    BY <1>4, <1>a DEF SessionsList, CoverInv, Upto, TypeOK, WatermarksOK, PollerOK, TurnOK, ClientOK
  <2>4. News'
    <3>1. ASSUME ppc = "adopt"
          PROVE  tops[peer] <= base'[peer]
      <4>1. /\ peer \in Session /\ tops[peer] \in Nat /\ base[peer] \in Nat
            /\ base'[peer] \in Nat /\ tops[peer] <= base[peer]
        BY <3>1, StepTypeOK DEF CoverInv, TypeOK, WatermarksOK, PollerOK, TurnOK, ClientOK
      <4>2. base[peer] <= base'[peer]
        BY <4>1, ClientKeeps
      <4>3. QED
        BY <4>1, <4>2
    <3>2. QED
      BY <1>4, <3>1 DEF SessionsList
  <2>5. QED
    BY <2>1, <2>2, <2>3, <2>4, <1>h
<1>5. ASSUME NEW s \in Session, StartTurn(s)
      PROVE  CoverInv'
  <2>1. Marks' /\ Snaps' /\ Batch' /\ News'
    BY <1>5, <1>c, <1>d, <1>e, <1>f DEF StartTurn
  <2>2. Turn'
    BY <1>5, <1>a DEF StartTurn, CoverInv, Upto, TypeOK, WatermarksOK, PollerOK, TurnOK, ClientOK
  <2>3. QED
    BY <2>1, <2>2, <1>h
<1>6. CASE AgentPersists
  BY <1>6, <1>c, <1>d, <1>e, <1>f, <1>g, <1>h DEF AgentPersists
<1>7. CASE TurnFails
  <2>1. Marks' /\ Snaps' /\ Batch' /\ News'
    BY <1>7, <1>c, <1>d, <1>e, <1>f DEF TurnFails
  <2>2. Turn'
    BY <1>7, <1>a DEF TurnFails, EndTurn, CoverInv, Upto, TypeOK, WatermarksOK, PollerOK, TurnOK, ClientOK
  <2>3. QED
    BY <2>1, <2>2, <1>h
<1>8. CASE FinishTurn
  <2>1. Marks' /\ Snaps' /\ Batch' /\ News'
    BY <1>8, <1>c, <1>d, <1>e, <1>f DEF FinishTurn
  <2>2. Turn'
    BY <1>8, <1>a DEF FinishTurn, CoverInv, Upto, TypeOK, WatermarksOK, PollerOK, TurnOK, ClientOK
  <2>3. QED
    BY <2>1, <2>2, <1>h
<1>9. CASE TurnReads
  <2>1. Marks' /\ Snaps' /\ Batch' /\ News'
    BY <1>9, <1>c, <1>d, <1>e, <1>f DEF TurnReads
  <2>2. Turn'
    BY <1>9, <1>a DEF TurnReads, EndTurn, CoverInv, Upto, TypeOK, WatermarksOK, PollerOK, TurnOK, ClientOK
  <2>3. QED
    BY <2>1, <2>2, <1>h
<1>10. CASE TurnReadRaises
  <2>1. Marks' /\ Snaps' /\ Batch' /\ News'
    BY <1>10, <1>c, <1>d, <1>e, <1>f DEF TurnReadRaises
  <2>2. Turn'
    BY <1>10, <1>a DEF TurnReadRaises, EndTurn, CoverInv, Upto, TypeOK, WatermarksOK, PollerOK, TurnOK, ClientOK
  <2>3. QED
    BY <2>1, <2>2, <1>h
<1>11. CASE TurnJumps
  <2>1. Snaps' /\ Batch' /\ News'
    BY <1>11, <1>d, <1>e, <1>f DEF TurnJumps
  <2>2. Marks'
    <3> SUFFICES ASSUME NEW s \in Session, NEW i \in 1..wm'[s]
                 PROVE  Covered(s, i)'
      BY DEF Upto
    <3>1. CASE s = hpeer
      <4>1. wm'[s] = top /\ jumped'[s] = jumped[s] \cup (mark + 1)..top /\ Upto(s, mark)
        BY <1>11, <3>1 DEF TurnJumps, CoverInv, TypeOK, WatermarksOK, PollerOK, TurnOK, ClientOK
      <4>2. i \in Nat /\ (i \in 1..mark \/ i \in (mark + 1)..top)
        BY <4>1 DEF TypeOK, WatermarksOK, PollerOK, TurnOK, ClientOK
      <4>3. CASE i \in 1..mark
        BY <1>a, <4>1, <4>2, <4>3 DEF Upto
      <4>4. CASE i \in (mark + 1)..top
        BY <4>1, <4>4 DEF Covered
      <4>5. QED
        BY <4>2, <4>3, <4>4
    <3>2. CASE s # hpeer
      BY <1>11, <1>a, <3>2 DEF TurnJumps, CoverInv, Upto, TypeOK, WatermarksOK, PollerOK, TurnOK, ClientOK
    <3>3. QED
      BY <3>1, <3>2
  <2>3. Turn'
    BY <1>11, <1>a DEF TurnJumps, EndTurn, CoverInv, Upto, TypeOK, WatermarksOK, PollerOK, TurnOK, ClientOK
  <2>4. QED
    BY <2>1, <2>2, <2>3, <1>h
<1>12. CASE Wake
  <2>1. Marks' /\ Turn'
    BY <1>12, <1>c, <1>g DEF Wake
  <2>2. Snaps'
    BY <1>12, <1>a DEF Wake, CoverInv, Upto, TypeOK, WatermarksOK, PollerOK, TurnOK, ClientOK
  <2>3. Batch'
    BY <1>12, <1>a DEF Wake, CoverInv, Upto, TypeOK, WatermarksOK, PollerOK, TurnOK, ClientOK
  <2>4. News'
    BY <1>12, <1>a DEF Wake, CoverInv, Upto, TypeOK, WatermarksOK, PollerOK, TurnOK, ClientOK
  <2>5. QED
    BY <2>1, <2>2, <2>3, <2>4, <1>h
<1>13. ASSUME NEW s \in Session, PollReads(s)
       PROVE  CoverInv'
  <2>1. Marks' /\ Turn'
    BY <1>13, <1>c, <1>g DEF PollReads
  <2>2. Snaps'
    BY <1>13, <1>a DEF PollReads, CoverInv, Upto, TypeOK, WatermarksOK, PollerOK, TurnOK, ClientOK
  <2>3. Batch'
    BY <1>13, <1>a DEF PollReads, CoverInv, Upto, TypeOK, WatermarksOK, PollerOK, TurnOK, ClientOK
  <2>4. News'
    BY <1>13, <1>a DEF PollReads, CoverInv, Upto, TypeOK, WatermarksOK, PollerOK, TurnOK, ClientOK
  <2>5. QED
    BY <2>1, <2>2, <2>3, <2>4, <1>h
<1>14. CASE PollPushes
  <2>1. Marks' /\ Snaps' /\ Turn'
    BY <1>14, <1>c, <1>d, <1>g DEF PollPushes
  <2>2. Batch'
    <3>1. ppc' = "advance" /\ peer' = peer /\ next' = next /\ peer \in Session
      BY <1>14 DEF PollPushes, TypeOK, WatermarksOK, PollerOK, TurnOK, ClientOK
    <3>2. Upto(peer, next - 1) /\ next \in pushed'[peer]
      BY <1>14 DEF PollPushes, CoverInv, TypeOK, WatermarksOK, PollerOK, TurnOK, ClientOK
    <3> SUFFICES ASSUME NEW i \in 1..next
                 PROVE  Covered(peer, i)'
      BY <3>1 DEF Upto
    <3>3. CASE i = next
      BY <3>1, <3>2, <3>3 DEF Covered
    <3>4. CASE i # next
      <4>1. i \in 1..(next - 1) /\ i \in Nat
        BY <3>4 DEF TypeOK, WatermarksOK, PollerOK, TurnOK, ClientOK
      <4>2. Covered(peer, i)
        BY <3>2, <4>1 DEF Upto
      <4>3. QED
        BY <1>a, <3>1, <4>1, <4>2 DEF Covered
    <3>5. QED
      BY <3>3, <3>4
  <2>3. News'
    BY <1>14, <1>a DEF PollPushes, CoverInv, Upto, TypeOK, WatermarksOK, PollerOK, TurnOK, ClientOK
  <2>4. QED
    BY <2>1, <2>2, <2>3, <1>h
<1>15. CASE PollAdvances
  <2>1. Snaps' /\ Turn'
    BY <1>15, <1>d, <1>g DEF PollAdvances
  <2>2. Marks'
    <3> SUFFICES ASSUME NEW s \in Session, NEW i \in 1..wm'[s]
                 PROVE  Covered(s, i)'
      BY DEF Upto
    <3>1. CASE s = peer
      <4>1. wm'[s] = wm[s] \/ wm'[s] = next
        BY <1>15, <3>1 DEF PollAdvances, Larger, TypeOK, WatermarksOK, PollerOK, TurnOK, ClientOK
      <4>2. Upto(s, wm[s]) /\ Upto(s, next)
        BY <1>15, <3>1 DEF PollAdvances, CoverInv
      <4>3. Covered(s, i)
        BY <4>1, <4>2 DEF Upto
      <4>4. i \in Nat
        BY <4>1 DEF TypeOK, WatermarksOK, PollerOK, TurnOK, ClientOK
      <4>5. QED
        BY <1>a, <4>3, <4>4
    <3>2. CASE s # peer
      BY <1>15, <1>a, <3>2 DEF PollAdvances, CoverInv, Upto, TypeOK, WatermarksOK, PollerOK, TurnOK, ClientOK
    <3>3. QED
      BY <3>1, <3>2
  <2>3. Batch'
    BY <1>15, <1>a DEF PollAdvances, CoverInv, Upto, TypeOK, WatermarksOK, PollerOK, TurnOK, ClientOK
  <2>4. News'
    BY <1>15, <1>a DEF PollAdvances, CoverInv, Upto, TypeOK, WatermarksOK, PollerOK, TurnOK, ClientOK
  <2>5. QED
    BY <2>1, <2>2, <2>3, <2>4, <1>h
<1>16. CASE PollEndsScan
  <2>1. Marks' /\ Snaps' /\ Turn'
    BY <1>16, <1>c, <1>d, <1>g DEF PollEndsScan
  <2>2. Batch'
    BY <1>16, <1>a DEF PollEndsScan, CoverInv, Upto, TypeOK, WatermarksOK, PollerOK, TurnOK, ClientOK
  <2>3. News'
    BY <1>16, <1>a DEF PollEndsScan, CoverInv, Upto, TypeOK, WatermarksOK, PollerOK, TurnOK, ClientOK
  <2>4. QED
    BY <2>1, <2>2, <2>3, <1>h
<1>17. ASSUME NEW L \in Listable, RescanClears(L)
       PROVE  CoverInv'
  <2>1. Marks' /\ Snaps' /\ Turn'
    BY <1>17, <1>c, <1>d, <1>g DEF RescanClears
  <2>2. Batch'
    BY <1>17, <1>a DEF RescanClears, CoverInv, Upto, TypeOK, WatermarksOK, PollerOK, TurnOK, ClientOK
  <2>3. News'
    BY <1>17, <1>a DEF RescanClears, CoverInv, Upto, TypeOK, WatermarksOK, PollerOK, TurnOK, ClientOK
  <2>4. QED
    BY <2>1, <2>2, <2>3, <1>h
<1>18. CASE RescanFills
  <2>1. Marks' /\ Snaps' /\ Turn'
    BY <1>18, <1>c, <1>d, <1>g DEF RescanFills
  <2>2. Batch'
    BY <1>18, <1>a DEF RescanFills, CoverInv, Upto, TypeOK, WatermarksOK, PollerOK, TurnOK, ClientOK
  <2>3. News'
    BY <1>18, <1>a DEF RescanFills, CoverInv, Upto, TypeOK, WatermarksOK, PollerOK, TurnOK, ClientOK
  <2>4. QED
    BY <2>1, <2>2, <2>3, <1>h
<1>19. ASSUME NEW s \in Session, Announce(s)
       PROVE  CoverInv'
  <2>1. Marks' /\ Snaps' /\ Turn'
    BY <1>19, <1>c, <1>d, <1>g DEF Announce
  <2>2. Batch'
    BY <1>19, <1>a DEF Announce, CoverInv, Upto, TypeOK, WatermarksOK, PollerOK, TurnOK, ClientOK
  <2>3. News'
    <3>1. peer' = s /\ tops' = tops /\ base'[s] = Larger(base[s], tops[s])
      BY <1>19 DEF Announce, TypeOK, WatermarksOK, PollerOK, TurnOK, ClientOK
    <3>2. tops[s] <= Larger(base[s], tops[s])
      BY LargerIsNat DEF TypeOK, WatermarksOK, PollerOK, TurnOK, ClientOK
    <3>3. QED
      BY <3>1, <3>2
  <2>4. QED
    BY <2>1, <2>2, <2>3, <1>h
<1>20. CASE Adopt
  <2>1. Snaps' /\ Turn'
    BY <1>20, <1>d, <1>g DEF Adopt
  <2>2. Marks'
    <3> SUFFICES ASSUME NEW s \in Session, NEW i \in 1..wm'[s]
                 PROVE  Covered(s, i)'
      BY DEF Upto
    <3>1. CASE s = peer
      <4>1. wm'[s] = tops[peer] /\ tops[peer] <= base'[s] /\ base'[s] \in Nat /\ tops[peer] \in Nat
        BY <1>20, <3>1 DEF Adopt, CoverInv, TypeOK, WatermarksOK, PollerOK, TurnOK, ClientOK
      <4>2. i <= base'[s]
        BY <4>1
      <4>3. QED
        BY <4>2 DEF Covered
    <3>2. CASE s # peer
      BY <1>20, <1>a, <3>2 DEF Adopt, CoverInv, Upto, TypeOK, WatermarksOK, PollerOK, TurnOK, ClientOK
    <3>3. QED
      BY <3>1, <3>2
  <2>3. Batch'
    BY <1>20, <1>a DEF Adopt, CoverInv, Upto, TypeOK, WatermarksOK, PollerOK, TurnOK, ClientOK
  <2>4. News'
    BY <1>20, <1>a DEF Adopt, CoverInv, Upto, TypeOK, WatermarksOK, PollerOK, TurnOK, ClientOK
  <2>5. QED
    BY <2>1, <2>2, <2>3, <2>4, <1>h
<1>21. CASE RescanEnds
  <2>1. Marks' /\ Snaps' /\ Turn'
    BY <1>21, <1>c, <1>d, <1>g DEF RescanEnds
  <2>2. Batch'
    BY <1>21, <1>a DEF RescanEnds, CoverInv, Upto, TypeOK, WatermarksOK, PollerOK, TurnOK, ClientOK
  <2>3. News'
    BY <1>21, <1>a DEF RescanEnds, CoverInv, Upto, TypeOK, WatermarksOK, PollerOK, TurnOK, ClientOK
  <2>4. QED
    BY <2>1, <2>2, <2>3, <1>h
<1>22. CASE TickAborts
  <2>1. Marks' /\ Turn'
    BY <1>22, <1>c, <1>g DEF TickAborts
  <2>2. Snaps'
    <3>1. \A s \in Session : snap'[s] = 0
      BY <1>22 DEF TickAborts, NoOne
    <3>2. QED
      BY <3>1 DEF Upto
  <2>3. Batch'
    BY <1>22, <1>a DEF TickAborts, CoverInv, Upto, TypeOK, WatermarksOK, PollerOK, TurnOK, ClientOK
  <2>4. News'
    BY <1>22, <1>a DEF TickAborts, CoverInv, Upto, TypeOK, WatermarksOK, PollerOK, TurnOK, ClientOK
  <2>5. QED
    BY <2>1, <2>2, <2>3, <2>4, <1>h
<1>23. CASE UNCHANGED vars
  BY <1>23, <1>c, <1>d, <1>e, <1>f, <1>g, <1>h DEF vars
<1>24. QED
  BY <1>1, <1>2, <1>3, <1>4, <1>5, <1>6, <1>7, <1>8, <1>9, <1>10, <1>11,
     <1>12, <1>13, <1>14, <1>15, <1>16, <1>17, <1>18, <1>19, <1>20, <1>21,
     <1>22, <1>23
     DEF Next, World, FrameLoop, Poller

\* Every row at or below a watermark is one that the client has had, has been
\* told to fetch, or that one of its own turns jumped over.
THEOREM NothingPassedOverHolds == Spec => []NothingPassedOver
<1>1. Init => Within /\ CoverInv
  BY InitWithin, InitCoverInv
<1>2. TypeOK /\ Within /\ CoverInv /\ [Next]_vars => Within' /\ CoverInv'
  BY StepWithin, StepCoverInv
<1>3. TypeOK /\ CoverInv => NothingPassedOver
  BY DEF CoverInv, Upto, NothingPassedOver, TypeOK, WatermarksOK, PollerOK, TurnOK, ClientOK
<1>4. QED
  BY <1>1, <1>2, <1>3, TypeCorrect, PTL DEF Spec

-----------------------------------------------------------------------------
(* A session with a watermark is known to the client.                      *)

(* A session gets a watermark from a listing, from the batch of a session  *)
(* that had one, or from a turn: the coroutine's peer is known meanwhile.  *)
KnownInv ==
    /\ watched \subseteq known
    /\ todo \subseteq watched
    /\ ppc \in {"push", "advance"} => peer \in watched
    /\ ppc = "adopt" => peer \in known
    /\ hpc # "idle" => hpeer \in known

LEMMA StepKnownInv == KnownInv /\ [Next]_vars => KnownInv'
<1> SUFFICES ASSUME KnownInv, [Next]_vars
             PROVE  KnownInv'
  OBVIOUS
<1> USE DEF KnownInv, storeVars, pollVars, sendVars, clientVars
<1>1. CASE World
  BY <1>1 DEF World, NewSession, RowArrives, OthersList
<1>2. CASE \E L \in Listable : SessionsList(L)
  BY <1>2 DEF SessionsList
<1>3. CASE \/ \E s \in Session : StartTurn(s)
           \/ TurnFails \/ FinishTurn \/ TurnReads \/ TurnReadRaises \/ TurnJumps
  BY <1>3 DEF StartTurn, TurnFails, FinishTurn, TurnReads, TurnReadRaises, TurnJumps, EndTurn
<1>4. CASE AgentPersists
  BY <1>4 DEF AgentPersists
<1>5. CASE Wake \/ \E s \in Session : PollReads(s)
  BY <1>5 DEF Wake, PollReads
<1>6. CASE PollPushes \/ PollAdvances
  BY <1>6 DEF PollPushes, PollAdvances
<1>7. CASE PollEndsScan \/ RescanFills \/ RescanEnds \/ \E L \in Listable : RescanClears(L)
  BY <1>7 DEF PollEndsScan, RescanFills, RescanEnds, RescanClears
<1>8. CASE Adopt \/ \E s \in Session : Announce(s)
  BY <1>8 DEF Adopt, Announce
<1>9. CASE TickAborts
  BY <1>9 DEF TickAborts
<1>10. CASE UNCHANGED vars
  BY <1>10 DEF vars
<1>11. QED
  BY <1>1, <1>2, <1>3, <1>4, <1>5, <1>6, <1>7, <1>8, <1>9, <1>10
     DEF Next, FrameLoop, Poller

\* No session gets a watermark before the client has heard of it, so the
\* re-listing, which announces only sessions without one, misses none.
THEOREM WatchedIsKnownHolds == Spec => []WatchedIsKnown
<1>1. Init => KnownInv
  BY DEF Init, KnownInv
<1>2. KnownInv /\ [Next]_vars => KnownInv'
  BY StepKnownInv
<1>3. KnownInv => WatchedIsKnown
  BY DEF KnownInv, WatchedIsKnown
<1>4. QED
  BY <1>1, <1>2, <1>3, PTL DEF Spec

-----------------------------------------------------------------------------
(* LivePush implements the abstract Feed: the initial states map to its    *)
(* initial states, and every step to one of its steps or to none.  What    *)
(* the invariants above say about the values that wait in a coroutine is   *)
(* what makes each step extend a prefix.                                   *)

LEMMA InitFeed == Init => F!Init
  BY DEF Init, F!Init, Top, Had, NoOne

(* A row that is about to be pushed has a number. *)
Numbered == ppc \in {"push", "advance"} => next # 0

LEMMA StepNumbered == TypeOK /\ Numbered /\ [Next]_vars => Numbered'
<1> SUFFICES ASSUME TypeOK, Numbered, [Next]_vars
             PROVE  Numbered'
  OBVIOUS
<1> USE DEF Numbered, storeVars, pollVars, sendVars, clientVars
<1>1. next \in Nat /\ \A s \in Session : snap[s] \in Nat
  BY DEF TypeOK, PollerOK
<1>2. CASE World
  BY <1>2 DEF World, NewSession, RowArrives, OthersList
<1>3. CASE FrameLoop \/ AgentPersists
  BY <1>3 DEF FrameLoop, AgentPersists, SessionsList, StartTurn, TurnFails, FinishTurn,
     TurnReads, TurnReadRaises, TurnJumps, EndTurn
<1>4. CASE \E s \in Session : PollReads(s)
  BY <1>1, <1>4 DEF PollReads
<1>5. CASE PollPushes \/ PollAdvances
  BY <1>1, <1>5 DEF PollPushes, PollAdvances
<1>6. CASE Wake \/ PollEndsScan \/ RescanFills \/ Adopt \/ RescanEnds \/ TickAborts
  BY <1>6 DEF Wake, PollEndsScan, RescanFills, Adopt, RescanEnds, TickAborts
<1>7. CASE \/ \E s \in Session : Announce(s)
           \/ \E L \in Listable : RescanClears(L)
  BY <1>7 DEF Announce, RescanClears
<1>8. CASE UNCHANGED vars
  BY <1>8 DEF vars
<1>9. QED
  BY <1>2, <1>3, <1>4, <1>5, <1>6, <1>7, <1>8 DEF Next, Poller

(* A step that tells the client nothing and writes nothing. *)
LEMMA SilentStep ==
    UNCHANGED <<store, known, base, pushed, jumped>> => UNCHANGED F!vars
  BY DEF F!vars, Top, Had

LEMMA WritingStep ==
    ASSUME TypeOK, NEW s \in Session, NEW o \in Origin,
           store' = [store EXCEPT ![s] = Append(@, o)],
           UNCHANGED <<known, base, pushed, jumped>>
    PROVE  F!Grows(s)
<1>1. store \in [Session -> Seq(Origin)]
  BY DEF TypeOK, StoreOK
<1>2. \A r \in Session : Len(store'[r]) = IF r = s THEN Len(store[r]) + 1 ELSE Len(store[r])
  <2> TAKE r \in Session
  <2>1. store[r] \in Seq(Origin)
    BY <1>1
  <2>2. CASE r = s
    BY <1>1, <2>1, <2>2
  <2>3. CASE r # s
    BY <1>1, <2>3
  <2>4. QED
    BY <2>2, <2>3
<1>3. [r \in Session |-> Top(r)]' = [[r \in Session |-> Top(r)] EXCEPT ![s] = @ + 1]
  BY <1>2 DEF Top
<1>4. QED
  BY <1>3 DEF F!Grows, Had

(* sessions.list: every listed session is covered up to its last row. *)
LEMMA ListingStep ==
    ASSUME TypeOK, Within, NEW L \in Listable, SessionsList(L)
    PROVE  F!Lists(L)
<1> DEFINE fetched == [s \in L |-> 1..Top(s)]
<1>1. L \subseteq Session
  BY ListableIsBorn DEF TypeOK, StoreOK
<1>2. \A s \in L : Top(s) \in Nat /\ base[s] \in Nat /\ base[s] <= Top(s)
  BY <1>1, TopIsNat DEF Within, TypeOK, ClientOK
<1>3. \A s \in L : fetched[s] \in F!Prefixes(s)
  BY <1>1, <1>2 DEF F!Prefixes
<1>4. fetched \in [L -> UNION {F!Prefixes(s) : s \in L}]
  BY <1>3
<1>5. \A s \in Session : Had(s)' = IF s \in L THEN Had(s) \cup fetched[s] ELSE Had(s)
  <2> TAKE s \in Session
  <2>1. CASE s \in L
    <3>1. base'[s] = Top(s) /\ pushed' = pushed /\ jumped' = jumped
      BY <2>1 DEF SessionsList
    <3>2. 1..base[s] \subseteq 1..Top(s)
      BY <1>2, <2>1
    <3>3. QED
      BY <2>1, <3>1, <3>2 DEF Had
  <2>2. CASE s \notin L
    BY <2>2 DEF SessionsList, Had
  <2>3. QED
    BY <2>1, <2>2
<1>6. [s \in Session |-> Top(s)]' = [s \in Session |-> Top(s)] /\ known' = known \cup L
  BY DEF SessionsList, storeVars, Top
<1>7. QED
  BY <1>1, <1>3, <1>4, <1>5, <1>6 DEF F!Lists

(* dialog.new: the session, with the topMessageId of an earlier listing. *)
LEMMA AnnouncingStep ==
    ASSUME TypeOK, Within, NEW s \in Session, Announce(s)
    PROVE  F!Lists({s})
<1> DEFINE fetched == [r \in {s} |-> 1..tops[s]]
<1>1. /\ Top(s) \in Nat /\ base[s] \in Nat /\ tops[s] \in Nat /\ tops[s] <= Top(s)
  BY TopIsNat DEF Within, WatermarkWithinStore, TypeOK, ClientOK, PollerOK
<1>2. \A r \in {s} : fetched[r] \in F!Prefixes(r)
  BY <1>1 DEF F!Prefixes
<1>3. fetched \in [{s} -> UNION {F!Prefixes(r) : r \in {s}}]
  BY <1>2
<1>4. \A r \in Session : Had(r)' = IF r \in {s} THEN Had(r) \cup fetched[r] ELSE Had(r)
  <2> TAKE r \in Session
  <2>0. /\ base' = [base EXCEPT ![s] = Larger(@, tops[s])]
        /\ pushed' = pushed /\ jumped' = jumped /\ base \in [Session -> Nat]
    BY DEF Announce, TypeOK, ClientOK
  <2>1. CASE r = s
    <3>1. base'[s] = Larger(base[s], tops[s])
      BY <2>0
    <3>2. 1..base'[s] = 1..base[s] \cup 1..tops[s]
      BY <1>1, <3>1 DEF Larger
    <3>3. QED
      BY <2>0, <2>1, <3>2 DEF Had
  <2>2. CASE r # s
    BY <2>0, <2>2 DEF Had
  <2>3. QED
    BY <2>1, <2>2
<1>5. [r \in Session |-> Top(r)]' = [r \in Session |-> Top(r)] /\ known' = known \cup {s}
  BY DEF Announce, storeVars, Top
<1>6. QED
  BY <1>2, <1>3, <1>4, <1>5 DEF F!Lists

(* message.new: what precedes the row is covered, so the row extends it. *)
LEMMA PushingStep ==
    ASSUME TypeOK, Within, CoverInv, KnownInv, Numbered, PollPushes
    PROVE  F!Tells(peer)
<1>1. /\ peer \in Session /\ next \in Nat /\ last \in Nat /\ Top(peer) \in Nat
      /\ base[peer] \in Nat /\ peer \in known
  BY TopIsNat DEF PollPushes, KnownInv, TypeOK, PollerOK, ClientOK
<1>2. next <= Top(peer)
  BY <1>1 DEF PollPushes, Within, WatermarkWithinStore
<1>3. 1..next \in F!Prefixes(peer)
  BY <1>1, <1>2 DEF F!Prefixes
<1>4. 1..(next - 1) \subseteq Had(peer)
  BY <1>1 DEF PollPushes, CoverInv, Upto, Covered, Had
<1>5. /\ pushed' = [pushed EXCEPT ![peer] = @ \cup {next}]
      /\ base' = base /\ jumped' = jumped /\ known' = known /\ store' = store
      /\ pushed \in [Session -> SUBSET Nat]
  BY DEF PollPushes, storeVars, TypeOK, ClientOK
<1>6. \A s \in Session : Had(s)' = IF s = peer THEN Had(s) \cup {next} ELSE Had(s)
  BY <1>5 DEF Had
<1>7. Had(peer) \cup {next} = Had(peer) \cup 1..next
  <2>1. 1..next = 1..(next - 1) \cup {next}
    BY <1>1 DEF PollPushes, Numbered
  <2>2. QED
    BY <1>4, <2>1
<1>8. [s \in Session |-> Top(s)]' = [s \in Session |-> Top(s)]
  BY <1>5 DEF Top
<1>9. QED
  BY <1>1, <1>3, <1>5, <1>6, <1>7, <1>8 DEF F!Tells

(* The end of a turn: from its mark on, everything up to the last row read. *)
LEMMA JumpingStep ==
    ASSUME TypeOK, Within, CoverInv, KnownInv, TurnJumps
    PROVE  F!Tells(hpeer)
<1>1. /\ hpeer \in Session /\ mark \in Nat /\ top \in Nat /\ Top(hpeer) \in Nat
      /\ base[hpeer] \in Nat /\ hpeer \in known
  BY TopIsNat DEF TurnJumps, KnownInv, TypeOK, TurnOK, ClientOK
<1>2. top <= Top(hpeer)
  BY DEF TurnJumps, Within, WatermarkWithinStore
<1>3. 1..top \in F!Prefixes(hpeer)
  BY <1>1, <1>2 DEF F!Prefixes
<1>4. 1..mark \subseteq Had(hpeer)
  BY <1>1 DEF TurnJumps, CoverInv, Upto, Covered, Had
<1>5. /\ jumped' = [jumped EXCEPT ![hpeer] = @ \cup (mark + 1)..top]
      /\ base' = base /\ pushed' = pushed /\ known' = known /\ store' = store
      /\ jumped \in [Session -> SUBSET Nat]
  BY DEF TurnJumps, storeVars, TypeOK, ClientOK
<1>6. \A s \in Session : Had(s)' = IF s = hpeer THEN Had(s) \cup (mark + 1)..top ELSE Had(s)
  BY <1>5 DEF Had
<1>7. Had(hpeer) \cup (mark + 1)..top = Had(hpeer) \cup 1..top
  <2>1. 1..top \subseteq 1..mark \cup (mark + 1)..top
    BY <1>1
  <2>2. (mark + 1)..top \subseteq 1..top
    BY <1>1
  <2>3. QED
    BY <1>4, <2>1, <2>2
<1>8. [s \in Session |-> Top(s)]' = [s \in Session |-> Top(s)]
  BY <1>5 DEF Top
<1>9. QED
  BY <1>1, <1>3, <1>5, <1>6, <1>7, <1>8 DEF F!Tells

LEMMA StepFeed ==
    TypeOK /\ Within /\ CoverInv /\ KnownInv /\ Numbered /\ [Next]_vars
        => [F!Next]_F!vars
<1> SUFFICES ASSUME TypeOK, Within, CoverInv, KnownInv, Numbered, [Next]_vars
             PROVE  F!Next \/ UNCHANGED F!vars
  OBVIOUS
<1>1. ASSUME NEW s \in Session, RowArrives(s)
      PROVE  F!Next
  BY <1>1, WritingStep DEF RowArrives, clientVars, Origin, F!Next
<1>2. CASE AgentPersists
  <2>1. hpeer \in Session
    BY <1>2 DEF AgentPersists, TypeOK, TurnOK
  <2>2. QED
    BY <1>2, <2>1, WritingStep DEF AgentPersists, clientVars, Origin, F!Next
<1>3. ASSUME NEW L \in Listable, SessionsList(L)
      PROVE  F!Next
  <2>1. L \in SUBSET Session
    BY ListableIsBorn DEF TypeOK, StoreOK
  <2>2. QED
    BY <1>3, <2>1, ListingStep DEF F!Next
<1>4. ASSUME NEW s \in Session, Announce(s)
      PROVE  F!Next
  <2>1. F!Lists({s}) /\ {s} \in SUBSET Session
    BY <1>4, AnnouncingStep
  <2>2. QED
    BY <2>1 DEF F!Next
<1>5. CASE PollPushes
  <2>1. peer \in Session
    BY <1>5 DEF PollPushes, TypeOK, PollerOK
  <2>2. QED
    BY <1>5, <2>1, PushingStep DEF F!Next
<1>6. CASE TurnJumps
  <2>1. hpeer \in Session
    BY <1>6 DEF TurnJumps, TypeOK, TurnOK
  <2>2. QED
    BY <1>6, <2>1, JumpingStep DEF F!Next
<1>7. CASE \/ \E s \in Session : NewSession(s) \/ StartTurn(s) \/ PollReads(s)
           \/ \E M \in SUBSET born : OthersList(M)
           \/ TurnFails \/ FinishTurn \/ TurnReads \/ TurnReadRaises
  BY <1>7, SilentStep DEF NewSession, StartTurn, PollReads, OthersList, TurnFails, FinishTurn,
     TurnReads, TurnReadRaises, storeVars, clientVars
<1>8. CASE \/ Wake \/ PollAdvances \/ PollEndsScan \/ RescanFills \/ Adopt \/ RescanEnds
           \/ TickAborts \/ \E L \in Listable : RescanClears(L)
  BY <1>8, SilentStep DEF Wake, PollAdvances, PollEndsScan, RescanFills, Adopt, RescanEnds,
     TickAborts, RescanClears, storeVars, clientVars
<1>9. CASE UNCHANGED vars
  BY <1>9, SilentStep DEF vars, storeVars, clientVars
<1>10. QED
  BY <1>1, <1>2, <1>3, <1>4, <1>5, <1>6, <1>7, <1>8, <1>9
     DEF Next, World, FrameLoop, Poller

\* One connection of the bridge implements the abstract feed: what a client
\* has had of a session is a prefix of its rows that only grows, whatever the
\* frame loop, the poller and the rest of the world interleave.
THEOREM ImplementsFeedHolds == Spec => ImplementsFeed
<1>1. Init => TypeOK /\ Within /\ CoverInv /\ KnownInv /\ Numbered /\ F!Init
  BY InitTypeOK, InitWithin, InitCoverInv, InitFeed DEF Init, KnownInv, Numbered
<1>2. TypeOK /\ Within /\ CoverInv /\ KnownInv /\ Numbered /\ [Next]_vars
          => /\ TypeOK' /\ Within' /\ CoverInv' /\ KnownInv' /\ Numbered'
             /\ [F!Next]_F!vars
  BY StepTypeOK, StepWithin, StepCoverInv, StepKnownInv, StepNumbered, StepFeed
<1>3. QED
  BY <1>1, <1>2, PTL DEF Spec, ImplementsFeed, F!Spec
-----------------------------------------------------------------------------
(* Rows are first sent in order.                                           *)

(* The client was sent every row above m and up to n, or told to fetch it. *)
Heard(sent, told, m, n) == \A i \in (m + 1)..n : i <= told \/ i \in sent

(* Above m there is nothing to be sent before a row that was sent.         *)
Settled(sent, told, m) == \A j \in sent : Heard(sent, told, m, j)

(* What makes the order inductive: no row is missing between what was sent *)
(* and the watermark, nor any value that a row is sent after; the jump of  *)
(* a turn is such a value, to which the watermark may go back.             *)
OrderInv ==
    /\ \A s \in Session : \A i \in pushed[s] \cup jumped[s] : i <= Top(s)
    /\ \A s \in Session : Settled(pushed[s], base[s], wm[s])
    /\ \A s \in Session \ watched : pushed[s] = {}
    /\ \A s \in todo :
          /\ ppc \in {"scan", "push", "advance"}
          /\ Settled(pushed[s], base[s], snap[s])
          /\ Heard(pushed[s], base[s], wm[s], snap[s])
    /\ ppc \in {"push", "advance"} =>
          /\ peer \notin todo
          /\ Settled(pushed[peer], base[peer], next - 1)
          /\ Heard(pushed[peer], base[peer], wm[peer], next - 1)
    /\ ppc = "advance" => next \in pushed[peer]
    /\ ppc = "adopt" => pushed[peer] = {}
    /\ hpc = "jump" =>
          /\ Settled(pushed[hpeer], base[hpeer], top)
          /\ \A i \in jumped[hpeer] : i <= top

LEMMA HeardGrows ==
    ASSUME NEW sent \in SUBSET Nat, NEW more \in SUBSET Nat, sent \subseteq more,
           NEW told \in Nat, NEW later \in Nat, told <= later,
           NEW m \in Nat, NEW k \in Nat, m <= k, NEW n \in Nat, Heard(sent, told, m, n)
    PROVE  Heard(more, later, k, n)
  BY DEF Heard

LEMMA SettledGrows ==
    ASSUME NEW sent \in SUBSET Nat, NEW told \in Nat, NEW later \in Nat, told <= later,
           NEW m \in Nat, NEW k \in Nat, m <= k, Settled(sent, told, m)
    PROVE  Settled(sent, later, k)
  BY HeardGrows DEF Settled

LEMMA SettledAdds ==
    ASSUME NEW sent \in SUBSET Nat, NEW told \in Nat, NEW m \in Nat, NEW n \in Nat \ {0},
           Settled(sent, told, m), Heard(sent, told, m, n - 1)
    PROVE  Settled(sent \cup {n}, told, m)
<1> SUFFICES ASSUME NEW j \in sent \cup {n}
             PROVE  Heard(sent \cup {n}, told, m, j)
  BY DEF Settled
<1>1. CASE j \in sent
  BY <1>1 DEF Settled, Heard
<1>2. CASE j = n
  BY <1>2 DEF Heard
<1>3. QED
  BY <1>1, <1>2

(* The store only grows. *)
LEMMA TopGrows ==
    TypeOK /\ [Next]_vars => \A s \in Session : Top(s)' \in Nat /\ Top(s) <= Top(s)'
<1> SUFFICES ASSUME TypeOK, [Next]_vars
             PROVE  \A s \in Session : Top(s)' \in Nat /\ Top(s) <= Top(s)'
  OBVIOUS
<1>1. CASE store' = store
  BY <1>1, TopIsNat DEF Top
<1>2. CASE \E s \in Session : RowArrives(s)
  BY <1>2, AppendGrows DEF RowArrives, Origin
<1>3. CASE AgentPersists
  <2>1. hpeer \in Session
    BY <1>3 DEF AgentPersists, TypeOK, TurnOK
  <2>2. QED
    BY <1>3, <2>1, AppendGrows DEF AgentPersists, Origin
<1>4. QED
  BY <1>1, <1>2, <1>3
     DEF Next, World, FrameLoop, Poller, NewSession, OthersList, SessionsList, StartTurn,
         TurnFails, FinishTurn, TurnReads, TurnReadRaises, TurnJumps, Wake, PollReads, PollPushes,
         PollAdvances, PollEndsScan, RescanClears, RescanFills, Announce, Adopt, RescanEnds,
         TickAborts, vars, storeVars

LEMMA InitOrderInv == Init => OrderInv
  BY DEF Init, OrderInv, Settled

LEMMA StepOrderInv ==
    TypeOK /\ Within /\ CoverInv /\ KnownInv /\ Numbered /\ OrderInv /\ [Next]_vars => OrderInv'
<1> SUFFICES ASSUME TypeOK, Within, CoverInv, KnownInv, Numbered, OrderInv, [Next]_vars
             PROVE  OrderInv'
  OBVIOUS
<1> USE DEF storeVars, pollVars, sendVars, clientVars
<1>t. /\ \A s \in Session : /\ wm[s] \in Nat /\ snap[s] \in Nat /\ tops[s] \in Nat
                            /\ base[s] \in Nat /\ base'[s] \in Nat /\ wm'[s] \in Nat
                            /\ pushed[s] \in SUBSET Nat /\ jumped[s] \in SUBSET Nat
                            /\ pushed'[s] \in SUBSET Nat /\ Top(s) \in Nat
      /\ next \in Nat /\ top \in Nat /\ todo \subseteq Session
  BY StepTypeOK, TopIsNat DEF TypeOK, WatermarksOK, PollerOK, TurnOK, ClientOK
<1>k. \A s \in Session : base[s] <= base'[s] /\ Top(s)' \in Nat /\ Top(s) <= Top(s)'
  BY ClientKeeps, TopGrows
<1>p. /\ ppc \in {"push", "advance", "adopt"} => peer \in Session
      /\ hpc # "idle" => hpeer \in Session
  BY DEF TypeOK, PollerOK, TurnOK
<1> DEFINE Rows  == \A s \in Session : \A i \in pushed[s] \cup jumped[s] : i <= Top(s)
           Marks == \A s \in Session : Settled(pushed[s], base[s], wm[s])
           Fresh == \A s \in Session \ watched : pushed[s] = {}
           Snaps == \A s \in todo :
                       /\ ppc \in {"scan", "push", "advance"}
                       /\ Settled(pushed[s], base[s], snap[s])
                       /\ Heard(pushed[s], base[s], wm[s], snap[s])
           Batch == /\ ppc \in {"push", "advance"} =>
                          /\ peer \notin todo
                          /\ Settled(pushed[peer], base[peer], next - 1)
                          /\ Heard(pushed[peer], base[peer], wm[peer], next - 1)
                    /\ ppc = "advance" => next \in pushed[peer]
                    /\ ppc = "adopt" => pushed[peer] = {}
           Turn  == hpc = "jump" =>
                       /\ Settled(pushed[hpeer], base[hpeer], top)
                       /\ \A i \in jumped[hpeer] : i <= top
<1>i. Rows /\ Marks /\ Fresh /\ Snaps /\ Batch /\ Turn
  BY DEF OrderInv
<1>o. Rows' /\ Marks' /\ Fresh' /\ Snaps' /\ Batch' /\ Turn' => OrderInv'
  BY DEF OrderInv
<1>a. ASSUME UNCHANGED <<pushed, jumped>>
      PROVE  Rows'
  <2> SUFFICES ASSUME NEW s \in Session, NEW i \in pushed[s] \cup jumped[s]
               PROVE  i <= Top(s)'
    BY <1>a
  <2>1. i \in Nat /\ i <= Top(s)
    BY <1>i, <1>t
  <2>2. QED
    BY <1>k, <1>t, <2>1
<1>b. ASSUME UNCHANGED pushed, \A s \in Session : wm[s] <= wm'[s]
      PROVE  Marks'
  BY <1>b, <1>i, <1>k, <1>t, SettledGrows
<1>c. ASSUME UNCHANGED pushed, watched \subseteq watched'
      PROVE  Fresh'
  BY <1>c, <1>i
<1>d. ASSUME UNCHANGED <<pushed, todo, snap>>, \A s \in Session : wm[s] <= wm'[s],
             todo # {} => ppc' \in {"scan", "push", "advance"}
      PROVE  Snaps'
  BY <1>d, <1>i, <1>k, <1>t, SettledGrows, HeardGrows
<1>e. ASSUME UNCHANGED <<pushed, peer, next, todo, ppc>>, \A s \in Session : wm[s] <= wm'[s]
      PROVE  Batch'
  <2>1. CASE ppc \in {"push", "advance"}
    <3>1. next - 1 \in Nat
      BY <1>t, <2>1 DEF Numbered
    <3>2. QED
      BY <1>e, <1>i, <1>k, <1>t, <1>p, <2>1, <3>1, SettledGrows, HeardGrows
  <2>2. CASE ppc \notin {"push", "advance"}
    BY <1>e, <1>i, <2>2
  <2>3. QED
    BY <2>1, <2>2
<1>f. ASSUME UNCHANGED <<pushed, jumped, hpc, hpeer, top>>
      PROVE  Turn'
  BY <1>f, <1>i, <1>k, <1>t, <1>p, SettledGrows
<1>1. CASE World \/ AgentPersists
  <2>1. UNCHANGED <<pushed, jumped, base, wm, watched, todo, snap, ppc, peer, next, hpc, hpeer, top>>
    BY <1>1 DEF World, NewSession, RowArrives, OthersList, AgentPersists
  <2>2. \A s \in Session : wm[s] <= wm'[s]
    BY <1>t, <2>1
  <2>3. QED
    BY <1>a, <1>b, <1>c, <1>d, <1>e, <1>f, <1>i, <1>o, <2>1, <2>2
<1>2. ASSUME NEW L \in Listable, SessionsList(L)
      PROVE  OrderInv'
  <2>1. /\ UNCHANGED <<pushed, jumped, todo, snap, peer, next, hpc, hpeer, top>>
        /\ watched \subseteq watched' /\ ppc' = IF ppc = "off" THEN "sleep" ELSE ppc
        /\ wm' = [s \in Session |-> IF s \in L THEN Top(s) ELSE wm[s]]
    BY <1>2 DEF SessionsList
  <2>2. \A s \in Session : wm[s] <= wm'[s]
    BY <1>t, <2>1 DEF Within, WatermarkWithinStore
  <2>3. todo # {} => ppc' \in {"scan", "push", "advance"}
    BY <1>i, <2>1
  <2>4. Batch'
    <3>1. CASE ppc = "off"
      BY <2>1, <3>1
    <3>2. CASE ppc # "off"
      BY <1>e, <2>1, <2>2, <3>2
    <3>3. QED
      BY <3>1, <3>2
  <2>5. QED
    BY <1>a, <1>b, <1>c, <1>d, <1>f, <1>o, <2>1, <2>2, <2>3, <2>4
<1>3. CASE \/ \E s \in Session : StartTurn(s)
           \/ TurnFails \/ FinishTurn \/ TurnReads \/ TurnReadRaises
  <2>1. UNCHANGED <<store, pushed, jumped, base, wm, watched, todo, snap, ppc, peer, next>>
    BY <1>3 DEF StartTurn, TurnFails, FinishTurn, TurnReads, TurnReadRaises
  <2>2. \A s \in Session : wm[s] <= wm'[s]
    BY <1>t, <2>1
  <2>3. Turn'
    <3>1. CASE hpc' # "jump"
      BY <3>1
    <3>2. CASE hpc' = "jump"
      <4>1. hpc = "read" /\ hpeer' = hpeer /\ top' = Top(hpeer) /\ hpeer \in Session
        BY <1>3, <1>p, <3>2 DEF StartTurn, TurnFails, FinishTurn, TurnReads, TurnReadRaises, EndTurn
      <4>2. Settled(pushed[hpeer], base[hpeer], Top(hpeer))
        BY <1>i, <1>t, <4>1 DEF Settled, Heard
      <4>3. QED
        BY <1>i, <2>1, <4>1, <4>2
    <3>3. QED
      BY <3>1, <3>2
  <2>4. QED
    BY <1>a, <1>b, <1>c, <1>d, <1>e, <1>i, <1>o, <2>1, <2>2, <2>3
<1>4. CASE TurnJumps
  <2>1. /\ hpeer \in Session /\ hpc = "jump" /\ hpc' = "idle"
        /\ wm' = [wm EXCEPT ![hpeer] = top] /\ watched' = watched \cup {hpeer}
        /\ jumped' = [jumped EXCEPT ![hpeer] = @ \cup (mark + 1)..top]
        /\ UNCHANGED <<store, base, pushed, todo, snap, ppc, peer, next>>
    BY <1>4, <1>p DEF TurnJumps, EndTurn
  <2>2. wm'[hpeer] = top /\ \A s \in Session : s # hpeer => wm'[s] = wm[s]
    BY <2>1 DEF TypeOK, WatermarksOK
  <2>3. ASSUME NEW n \in Nat, \A i \in 1..n : Covered(hpeer, i)
        PROVE  Heard(pushed[hpeer], base[hpeer], top, n)
    <3>1. \A i \in jumped[hpeer] : i <= top
      BY <1>i, <2>1
    <3>2. QED
      BY <1>t, <2>1, <2>3, <3>1 DEF Heard, Covered
  <2>4. Rows'
    <3>1. top <= Top(hpeer)
      BY <2>1 DEF Within, WatermarkWithinStore
    <3>2. mark \in Nat /\ \A s \in Session : jumped'[s] \subseteq jumped[s] \cup {i \in Nat : i <= Top(s)}
      BY <1>t, <2>1, <3>1 DEF TypeOK, ClientOK, TurnOK
    <3>3. QED
      BY <1>i, <2>1, <3>2 DEF Top
  <2>5. Marks' /\ Fresh' /\ Turn'
    BY <1>i, <2>1, <2>2
  <2>6. Snaps'
    <3>1. \A s \in Session : \A i \in 1..snap[s] : Covered(s, i)
      BY DEF CoverInv, Upto
    <3>2. \A s \in todo : s = hpeer => Heard(pushed[s], base[s], top, snap[s])
      BY <1>t, <2>1, <2>3, <3>1
    <3>3. QED
      BY <1>i, <1>t, <2>1, <2>2, <3>2
  <2>7. Batch'
    <3>1. ASSUME ppc \in {"push", "advance"}
          PROVE  \A i \in 1..(next - 1) : Covered(peer, i)
      BY <1>t, <3>1 DEF CoverInv, Upto
    <3>2. ppc \in {"push", "advance"} /\ peer = hpeer => Heard(pushed[peer], base[peer], top, next - 1)
      BY <1>t, <2>3, <3>1 DEF Numbered
    <3>3. QED
      BY <1>i, <1>p, <2>1, <2>2, <3>2
  <2>8. QED
    BY <1>o, <2>4, <2>5, <2>6, <2>7
<1>5. CASE Wake
  <2>1. /\ ppc' = "scan" /\ todo' = watched /\ snap' = wm
        /\ UNCHANGED <<pushed, jumped, base, wm, watched, hpc, hpeer, top>>
    BY <1>5 DEF Wake
  <2>2. Snaps'
    <3>1. \A s \in Session : Heard(pushed[s], base[s], wm[s], wm[s])
      BY <1>t DEF Heard
    <3>2. QED
      BY <1>i, <2>1, <3>1 DEF TypeOK, WatermarksOK
  <2>3. Batch'
    BY <2>1
  <2>4. \A s \in Session : wm[s] <= wm'[s]
    BY <1>t, <2>1
  <2>5. QED
    BY <1>a, <1>b, <1>c, <1>f, <1>o, <2>1, <2>2, <2>3, <2>4
<1>6. ASSUME NEW s \in Session, PollReads(s)
      PROVE  OrderInv'
  <2>1. /\ ppc = "scan" /\ s \in todo /\ todo' = todo \ {s} /\ snap' = [snap EXCEPT ![s] = 0]
        /\ UNCHANGED <<pushed, jumped, base, wm, watched, hpc, hpeer, top>>
        /\ \/ ppc' = "push" /\ peer' = s /\ next' = snap[s] + 1
           \/ ppc' = "scan"
    BY <1>6 DEF PollReads
  <2>2. Snaps'
    <3>1. \A r \in Session : r # s => snap'[r] = snap[r]
      BY <2>1 DEF TypeOK, PollerOK
    <3>2. QED
      BY <1>i, <1>t, <2>1, <3>1
  <2>3. Batch'
    <3>1. CASE ppc' = "push" /\ peer' = s /\ next' = snap[s] + 1
      <4>1. next' - 1 = snap[s]
        BY <1>t, <3>1
      <4>2. QED
        BY <1>i, <2>1, <3>1, <4>1
    <3>2. CASE ppc' = "scan"
      BY <3>2
    <3>3. QED
      BY <2>1, <3>1, <3>2
  <2>4. \A r \in Session : wm[r] <= wm'[r]
    BY <1>t, <2>1
  <2>5. QED
    BY <1>a, <1>b, <1>c, <1>f, <1>o, <2>1, <2>2, <2>3, <2>4
<1>7. CASE PollPushes
  <2>1. /\ ppc = "push" /\ ppc' = "advance" /\ peer \in Session /\ peer \in watched
        /\ pushed' = [pushed EXCEPT ![peer] = @ \cup {next}]
        /\ UNCHANGED <<store, base, jumped, wm, watched, todo, snap, peer, next, hpc, hpeer, top>>
    BY <1>7, <1>p DEF PollPushes, KnownInv
  <2>2. /\ pushed'[peer] = pushed[peer] \cup {next}
        /\ \A s \in Session : s # peer => pushed'[s] = pushed[s]
    BY <2>1 DEF TypeOK, ClientOK
  <2>3. /\ peer \notin todo /\ Settled(pushed[peer], base[peer], next - 1)
        /\ Heard(pushed[peer], base[peer], wm[peer], next - 1)
        /\ next - 1 \in Nat /\ next \in Nat \ {0}
    BY <1>i, <1>t, <2>1 DEF Numbered
  <2>4. Rows'
    <3>1. next <= Top(peer)
      BY <1>t, <2>1, TopIsNat DEF Within, WatermarkWithinStore, TypeOK, PollerOK
    <3>2. QED
      BY <1>i, <2>1, <2>2, <3>1 DEF Top
  <2>5. Marks'
    BY <1>i, <1>t, <2>1, <2>2, <2>3, SettledAdds
  <2>6. Fresh' /\ Snaps'
    BY <1>i, <2>1, <2>2, <2>3
  <2>7. Batch'
    <3>1. Settled(pushed[peer] \cup {next}, base[peer], next - 1)
      <4>1. Heard(pushed[peer], base[peer], next - 1, next - 1)
        BY <2>3 DEF Heard
      <4>2. QED
        BY <1>t, <2>1, <2>3, <4>1, SettledAdds
    <3>2. Heard(pushed[peer] \cup {next}, base[peer], wm[peer], next - 1)
      BY <2>3 DEF Heard
    <3>3. QED
      BY <2>1, <2>2, <2>3, <3>1, <3>2
  <2>8. Turn'
    <3>1. CASE hpc = "jump" /\ hpeer = peer
      <4>1. \A i \in 1..(next - 1) : Covered(peer, i)
        BY <2>1 DEF CoverInv, Upto
      <4>2. Heard(pushed[peer], base[peer], top, next - 1)
        BY <1>i, <1>t, <2>1, <3>1, <4>1 DEF Heard, Covered
      <4>3. Settled(pushed[peer] \cup {next}, base[peer], top)
        BY <1>i, <1>t, <2>1, <2>3, <3>1, <4>2, SettledAdds
      <4>4. QED
        BY <1>i, <2>1, <2>2, <3>1, <4>3
    <3>2. CASE ~(hpc = "jump" /\ hpeer = peer)
      BY <1>i, <1>p, <2>1, <2>2, <3>2
    <3>3. QED
      BY <3>1, <3>2
  <2>9. QED
    BY <1>o, <2>4, <2>5, <2>6, <2>7, <2>8
<1>8. CASE PollAdvances
  <2>1. /\ ppc = "advance" /\ peer \in Session /\ watched \subseteq watched'
        /\ wm' = [wm EXCEPT ![peer] = Larger(@, next)]
        /\ \/ ppc' = "push" /\ peer' = peer /\ next' = next + 1
           \/ ppc' = "scan"
        /\ UNCHANGED <<pushed, jumped, base, todo, snap, hpc, hpeer, top>>
    BY <1>8, <1>p DEF PollAdvances
  <2>2. /\ wm'[peer] = Larger(wm[peer], next) /\ \A s \in Session : s # peer => wm'[s] = wm[s]
    BY <2>1 DEF TypeOK, WatermarksOK
  <2>3. (\A s \in Session : wm[s] <= wm'[s]) /\ next <= wm'[peer]
    <3>1. wm[peer] <= wm'[peer] /\ next <= wm'[peer]
      <4>1. wm[peer] \in Nat /\ next \in Nat
        BY <1>t, <2>1
      <4>2. QED
        BY <2>2, <4>1 DEF Larger
    <3>2. \A s \in Session : s # peer => wm[s] <= wm'[s]
      BY <1>t, <2>2
    <3>3. QED
      BY <3>1, <3>2
  <2>4. Batch'
    <3>1. CASE ppc' = "push" /\ peer' = peer /\ next' = next + 1
      <4>1. next' - 1 = next /\ next - 1 \in Nat /\ next - 1 <= next
        BY <1>t, <2>1, <3>1 DEF Numbered
      <4>2. Settled(pushed[peer], base[peer], next)
        BY <1>i, <1>t, <2>1, <4>1, SettledGrows
      <4>3. Heard(pushed[peer], base[peer], wm'[peer], next)
        BY <1>t, <2>1, <2>3 DEF Heard
      <4>4. QED
        BY <1>i, <2>1, <3>1, <4>1, <4>2, <4>3
    <3>2. CASE ppc' = "scan"
      BY <3>2
    <3>3. QED
      BY <2>1, <3>1, <3>2
  <2>5. QED
    BY <1>a, <1>b, <1>c, <1>d, <1>f, <1>o, <2>1, <2>3, <2>4
<1>9. CASE \/ PollEndsScan \/ RescanFills \/ RescanEnds \/ TickAborts
           \/ \E L \in Listable : RescanClears(L)
  <2>1. /\ todo' = {} /\ ppc' \in {"sleep", "list", "fill", "announce"}
        /\ UNCHANGED <<pushed, jumped, base, wm, watched, hpc, hpeer, top>>
    BY <1>9, <1>i DEF PollEndsScan, RescanFills, RescanEnds, TickAborts, RescanClears
  <2>2. \A s \in Session : wm[s] <= wm'[s]
    BY <1>t, <2>1
  <2>3. Snaps' /\ Batch'
    BY <2>1
  <2>4. QED
    BY <1>a, <1>b, <1>c, <1>f, <1>o, <2>1, <2>2, <2>3
<1>10. ASSUME NEW s \in Session, Announce(s)
       PROVE  OrderInv'
  <2>1. /\ todo' = todo /\ todo = {} /\ ppc' = "adopt" /\ peer' = s /\ s \notin watched
        /\ UNCHANGED <<pushed, jumped, wm, watched, hpc, hpeer, top>>
    BY <1>10, <1>i DEF Announce
  <2>2. \A r \in Session : wm[r] <= wm'[r]
    BY <1>t, <2>1
  <2>3. Snaps' /\ Batch'
    BY <1>i, <2>1
  <2>4. QED
    BY <1>a, <1>b, <1>c, <1>f, <1>o, <2>1, <2>2, <2>3
<1>11. CASE Adopt
  <2>1. /\ ppc = "adopt" /\ peer \in Session /\ ppc' = "announce" /\ todo' = todo /\ todo = {}
        /\ wm' = [wm EXCEPT ![peer] = tops[peer]] /\ watched \subseteq watched'
        /\ UNCHANGED <<pushed, jumped, base, hpc, hpeer, top>>
    BY <1>11, <1>i, <1>p DEF Adopt
  <2>2. Marks'
    <3>1. \A s \in Session : s # peer => wm'[s] = wm[s]
      BY <2>1 DEF TypeOK, WatermarksOK
    <3>2. pushed[peer] = {}
      BY <1>i, <2>1
    <3>3. Settled(pushed[peer], base[peer], wm'[peer])
      BY <3>2 DEF Settled
    <3>4. QED
      BY <1>i, <2>1, <3>1, <3>3
  <2>3. Snaps' /\ Batch'
    BY <2>1
  <2>4. QED
    BY <1>a, <1>c, <1>f, <1>o, <2>1, <2>2, <2>3
<1>12. CASE UNCHANGED vars
  <2>1. UNCHANGED <<pushed, jumped, base, wm, watched, todo, snap, ppc, peer, next, hpc, hpeer, top>>
    BY <1>12 DEF vars
  <2>2. \A s \in Session : wm[s] <= wm'[s]
    BY <1>t, <2>1
  <2>3. QED
    BY <1>a, <1>b, <1>c, <1>d, <1>e, <1>f, <1>i, <1>o, <2>1, <2>2
<1>13. QED
  BY <1>1, <1>2, <1>3, <1>4, <1>5, <1>6, <1>7, <1>8, <1>9, <1>10, <1>11, <1>12
     DEF Next, FrameLoop, Poller

(* Only PollPushes sends, and what it sends first is after all that was.   *)
LEMMA StepInOrder ==
    ASSUME TypeOK, KnownInv, OrderInv, [Next]_vars, NEW s \in Session,
           NEW i \in pushed'[s] \ pushed[s], NEW j \in pushed[s]
    PROVE  j < i \/ i <= base[s]
<1>1. PollPushes
  <2>1. CASE ~PollPushes
    <3>1. pushed' = pushed
      BY <2>1 DEF Next, World, FrameLoop, Poller, NewSession, RowArrives, OthersList, SessionsList,
         StartTurn, AgentPersists, TurnFails, FinishTurn, TurnReads, TurnReadRaises, TurnJumps, Wake,
         PollReads, PollAdvances, PollEndsScan, RescanClears, RescanFills, Announce, Adopt, RescanEnds,
         TickAborts, vars, clientVars
    <3>2. QED
      BY <3>1
  <2>2. QED
    BY <2>1
<1>2. /\ ppc = "push" /\ s = peer /\ i = next /\ i \in Nat /\ j \in Nat
  BY <1>1 DEF PollPushes, TypeOK, PollerOK, ClientOK
<1>3. Settled(pushed[s], base[s], i - 1)
  BY <1>2 DEF OrderInv
<1>4. i <= j => i <= base[s] \/ i \in pushed[s]
  BY <1>2, <1>3 DEF Settled, Heard
<1>5. QED
  BY <1>2, <1>4

\* poll_new_messages first sends the rows of a session in their order, but
\* for rows that the client was told to fetch: the client appends.
THEOREM PushedInOrderHolds == Spec => PushedInOrder
<1>1. Init => TypeOK /\ Within /\ CoverInv /\ KnownInv /\ Numbered /\ OrderInv
  BY InitTypeOK, InitWithin, InitCoverInv, InitOrderInv DEF Init, KnownInv, Numbered
<1>2. TypeOK /\ Within /\ CoverInv /\ KnownInv /\ Numbered /\ OrderInv /\ [Next]_vars
          => TypeOK' /\ Within' /\ CoverInv' /\ KnownInv' /\ Numbered' /\ OrderInv'
  BY StepTypeOK, StepWithin, StepCoverInv, StepKnownInv, StepNumbered, StepOrderInv
<1>3. TypeOK /\ Within /\ CoverInv /\ KnownInv /\ Numbered /\ OrderInv /\ [Next]_vars =>
        [\A s \in Session : \A i \in pushed'[s] \ pushed[s] :
            \A j \in pushed[s] : j < i \/ i <= base[s]]_vars
  BY StepInOrder
<1>4. QED
  BY <1>1, <1>2, <1>3, PTL DEF Spec, PushedInOrder
=============================================================================
