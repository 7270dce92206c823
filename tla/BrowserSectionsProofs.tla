----------------------- MODULE BrowserSectionsProofs ------------------------
(***************************************************************************)
(* Proofs about BrowserSections, for any columns, peers, urls and          *)
(* addresses, and any number of navigations on their way.                  *)
(***************************************************************************)
EXTENDS BrowserSections, SequenceTheorems, TLAPS

(* A peer that is not crowded has a section in one column at most, and     *)
(* this one is registered.                                                 *)
Single == \A p \in Peers \ crowded : \A c, d \in Of(p) : c = d
Registered == \A p \in Peers \ crowded : \A c \in Of(p) : section[c].at = live[p]

Inv == TypeOK /\ Single /\ Registered

-----------------------------------------------------------------------------
(* What the parts of a step do.                                            *)

(* What is remembered stays a url. *)
LEMMA RememberUrlType ==
  ASSUME last \in [Peers -> Urls \cup {NoUrl}],
         NEW p \in Peers, NEW url \in Urls \cup {NoUrl}, RememberUrl(p, url)
  PROVE  last' \in [Peers -> Urls \cup {NoUrl}]
  BY DEF RememberUrl

LEMMA KeepsType ==
  ASSUME TypeOK, NEW c \in Columns, Keeps(c, kept)
  PROVE  kept' \subseteq Memento
  BY DEF TypeOK, Keeps, Memento, Section, Gone

(* The map after the destructor: only the entry of the section that is     *)
(* destroyed is taken out.                                                 *)
LEMMA UnregistersOne ==
  ASSUME NEW map \in [Peers -> Addresses \cup {None}], NEW old \in Section \cup {Gone}
  PROVE  /\ Unregisters(map, old) \in [Peers -> Addresses \cup {None}]
         /\ \A p \in Peers :
               \/ Unregisters(map, old)[p] = map[p] /\ (old = Gone \/ old.peer # p \/ map[p] # old.at)
               \/ /\ Unregisters(map, old)[p] = None
                  /\ old # Gone /\ old.peer = p /\ map[p] = old.at
  BY DEF Unregisters, Section

-----------------------------------------------------------------------------
(* A section takes a column, or leaves it empty.                           *)

(* What the map has for a peer when a column gets the section s.           *)
Remapped(c, s, p) ==
    \/ s # Gone /\ s.peer = p /\ live'[p] = s.at
    \/ /\ s = Gone \/ s.peer # p
       /\ live'[p] = live[p]
       /\ section[c] = Gone \/ section[c].peer # p \/ live[p] # section[c].at
    \/ /\ s = Gone \/ s.peer # p
       /\ live'[p] = None
       /\ section[c] # Gone /\ section[c].peer = p /\ live[p] = section[c].at

LEMMA ColumnChanges ==
  ASSUME Inv, NEW c \in Columns, NEW s \in Section \cup {Gone},
         section' = [section EXCEPT ![c] = s],
         live' \in [Peers -> Addresses \cup {None}],
         \A p \in Peers : Remapped(c, s, p),
         Crowds
  PROVE  /\ Single' /\ Registered'
         /\ section' \in [Columns -> Section \cup {Gone}] /\ crowded' \subseteq Peers
         /\ \A p \in Peers : live'[p] # None =>
               \E d \in Columns : section'[d] # Gone /\ section'[d].peer = p /\ section'[d].at = live'[p]
<1>1. /\ section' \in [Columns -> Section \cup {Gone}]
      /\ section'[c] = s /\ \A d \in Columns \ {c} : section'[d] = section[d]
  BY DEF Inv, TypeOK
<1>2. /\ crowded' \subseteq Peers
      /\ \A p \in Peers \ crowded' :
            \A d, e \in Columns : 
               /\ section'[d] # Gone /\ section'[d].peer = p
               /\ section'[e] # Gone /\ section'[e].peer = p
               => d = e
      /\ \A p \in Peers \ crowded' : \A d \in Columns :
            section'[d] # Gone /\ section'[d].peer = p => p \notin crowded
  BY DEF Crowds
<1>3. Single'
  BY <1>2 DEF Single, Of
<1>4. Registered'
  <2> SUFFICES ASSUME NEW p \in Peers, p \notin crowded', NEW d \in Columns,
                      section'[d] # Gone, section'[d].peer = p
               PROVE  section'[d].at = live'[p]
    BY <1>1 DEF Registered, Of
  <2>1. p \notin crowded
    BY <1>2
  <2>2. CASE d = c
    BY <1>1, <2>2 DEF Remapped
  <2>3. CASE d # c
    <3>1. section[d] # Gone /\ section[d].peer = p /\ section[d].at = live[p]
      BY <1>1, <2>1, <2>3 DEF Inv, Registered, Of
    <3>2. ~(section[c] # Gone /\ section[c].peer = p)
      BY <2>1, <2>3, <3>1 DEF Inv, Single, Of
    <3>3. ~(s # Gone /\ s.peer = p)
      BY <1>1, <1>2, <2>3
    <3>4. live'[p] = live[p]
      BY <3>2, <3>3 DEF Remapped
    <3>5. QED
      BY <1>1, <2>3, <3>1, <3>4
  <2>4. QED
    BY <2>2, <2>3
<1>5. ASSUME NEW p \in Peers, live'[p] # None
      PROVE  \E d \in Columns : section'[d] # Gone /\ section'[d].peer = p /\ section'[d].at = live'[p]
  <2>1. CASE s # Gone /\ s.peer = p /\ live'[p] = s.at
    BY <1>1, <2>1
  <2>2. CASE /\ live'[p] = live[p]
             /\ section[c] = Gone \/ section[c].peer # p \/ live[p] # section[c].at
    <3>1. PICK d \in Columns : section[d] # Gone /\ section[d].peer = p /\ section[d].at = live[p]
      BY <1>5, <2>2 DEF Inv, TypeOK, Of
    <3>2. d # c
      BY <2>2, <3>1
    <3>3. QED
      BY <1>1, <2>2, <3>1, <3>2
  <2>3. QED
    BY <1>5, <2>1, <2>2 DEF Remapped
<1>6. QED
  BY <1>1, <1>2, <1>3, <1>4, <1>5

(* One of the two that show a section.                                     *)
LEMMA ShowsChanges ==
  ASSUME Inv, NEW c \in Columns, NEW p \in Peers, NEW url \in Urls \cup {NoUrl},
         Shows(c, p, url)
  PROVE  /\ Single' /\ Registered'
         /\ section' \in [Columns -> Section \cup {Gone}] /\ crowded' \subseteq Peers
         /\ live' \in [Peers -> Addresses \cup {None}] /\ last' \in [Peers -> Urls \cup {NoUrl}]
         /\ \A q \in Peers : live'[q] # None =>
               \E d \in Columns : section'[d] # Gone /\ section'[d].peer = q /\ section'[d].at = live'[q]
<1> DEFINE start == IF url # NoUrl THEN url ELSE IF last[p] # NoUrl THEN last[p] ELSE Default
<1>1. start \in Urls /\ last \in [Peers -> Urls \cup {NoUrl}]
  BY ConstantsAssumption DEF Inv, TypeOK
<1>2. PICK new \in Addresses :
         /\ \A d \in Columns : UsedBy(d) # new
         /\ section' = [section EXCEPT ![c] = [at |-> new, peer |-> p, url |-> start]]
         /\ live' = Unregisters([live EXCEPT ![p] = new], section[c])
  BY DEF Shows
<1>3. RememberUrl(p, start) /\ Crowds
  BY DEF Shows
<1> HIDE DEF start
<1>4. last' \in [Peers -> Urls \cup {NoUrl}]
  BY <1>1, <1>3, RememberUrlType
<1> DEFINE s == [at |-> new, peer |-> p, url |-> start]
           map == [live EXCEPT ![p] = new]
<1>5. s \in Section /\ s # Gone /\ s.peer = p /\ s.at = new
  BY <1>1, ConstantsAssumption DEF Section, Gone
<1>6. /\ map \in [Peers -> Addresses \cup {None}]
      /\ map[p] = new /\ \A q \in Peers \ {p} : map[q] = live[q]
      /\ section[c] \in Section \cup {Gone} /\ section[c].at # new
  BY <1>2 DEF Inv, TypeOK, UsedBy
<1>7. section' = [section EXCEPT ![c] = s] /\ live' = Unregisters(map, section[c])
  BY <1>2
<1> HIDE DEF s, map
<1>8. /\ live' \in [Peers -> Addresses \cup {None}]
      /\ \A q \in Peers : Remapped(c, s, q)
  BY <1>5, <1>6, <1>7, UnregistersOne DEF Remapped
<1>9. QED
  BY <1>3, <1>4, <1>5, <1>7, <1>8, ColumnChanges

-----------------------------------------------------------------------------
(* The steps.                                                              *)

LEMMA InitInv == Init => Inv
  BY DEF Init, Inv, TypeOK, Single, Registered, Of, Gone

LEMMA ShowsBrowserKeepsInv ==
  ASSUME Inv, NEW c \in Columns, NEW p \in Peers, ShowsBrowser(c, p)
  PROVE  Inv'
<1>1. Shows(c, p, last[p]) /\ last[p] \in Urls \cup {NoUrl}
  BY DEF ShowsBrowser, Inv, TypeOK
<1>2. kept' \subseteq Memento
  BY KeepsType DEF ShowsBrowser, Inv
<1>3. posted' = posted
  BY DEF ShowsBrowser
<1>4. QED
  BY <1>1, <1>2, <1>3, ShowsChanges DEF Inv, TypeOK, Of

LEMMA ShowsBackKeepsInv ==
  ASSUME Inv, NEW c \in Columns, ShowsBack(c)
  PROVE  Inv'
<1>1. PICK memento \in kept :
         Shows(c, memento.peer, memento.url) /\ kept' = kept \ {memento}
  BY DEF ShowsBack
<1>2. memento.peer \in Peers /\ memento.url \in Urls \cup {NoUrl} /\ kept' \subseteq Memento
  BY <1>1 DEF Inv, TypeOK, Memento
<1>3. posted' = posted
  BY DEF ShowsBack
<1>4. QED
  BY <1>1, <1>2, <1>3, ShowsChanges DEF Inv, TypeOK, Of

LEMMA ClosesKeepsInv ==
  ASSUME Inv, NEW c \in Columns, Closes(c)
  PROVE  Inv'
<1>1. section' = [section EXCEPT ![c] = Gone] /\ live' = Unregisters(live, section[c]) /\ Crowds
  BY DEF Closes
<1>2. section[c] \in Section \cup {Gone} /\ live \in [Peers -> Addresses \cup {None}]
  BY DEF Inv, TypeOK
<1>3. /\ live' \in [Peers -> Addresses \cup {None}]
      /\ \A q \in Peers : Remapped(c, Gone, q)
  BY <1>1, <1>2, UnregistersOne DEF Remapped
<1>4. kept' \subseteq Memento /\ last' = last /\ posted' = posted
  BY KeepsType DEF Closes, Inv
<1>5. QED
  BY <1>1, <1>3, <1>4, ColumnChanges DEF Inv, TypeOK, Of

(* navigateTo changes the url of a section and nothing else. *)
LEMMA NavigateToKeeps ==
  ASSUME Inv, NEW a, NEW url \in Urls \cup {NoUrl}, NavigateTo(a, url),
         a # None
  PROVE  /\ section' \in [Columns -> Section \cup {Gone}]
         /\ \A c \in Columns :
               /\ section'[c] = Gone <=> section[c] = Gone
               /\ section[c] # Gone => /\ section'[c].at = section[c].at
                                       /\ section'[c].peer = section[c].peer
               /\ section[c].at = a /\ url # NoUrl => section'[c].url = url
<1> SUFFICES ASSUME NEW c \in Columns
             PROVE  /\ section'[c] \in Section \cup {Gone}
                    /\ section'[c] = Gone <=> section[c] = Gone
                    /\ section[c] # Gone => /\ section'[c].at = section[c].at
                                            /\ section'[c].peer = section[c].peer
                    /\ section[c].at = a /\ url # NoUrl => section'[c].url = url
  BY DEF NavigateTo
<1>1. section'[c] = IF section[c].at = a /\ url # NoUrl THEN [section[c] EXCEPT !.url = url]
                                                         ELSE section[c]
  BY DEF NavigateTo, UsedBy
<1>2. section[c] \in Section \cup {Gone} /\ Gone.at = None
  BY DEF Inv, TypeOK, Gone
<1>3. CASE section[c].at = a /\ url # NoUrl
  <2>1. section[c] \in Section /\ section'[c] = [section[c] EXCEPT !.url = url]
    BY <1>1, <1>2, <1>3
  <2>2. /\ section'[c] \in Section /\ section'[c].at = section[c].at
        /\ section'[c].peer = section[c].peer /\ section'[c].url = url
    BY <1>3, <2>1 DEF Section
  <2>3. section[c].at # None /\ section'[c] # Gone /\ section[c] # Gone
    BY <1>2, <2>1, <2>2, ConstantsAssumption DEF Section
  <2>4. QED
    BY <1>3, <2>2, <2>3
<1>4. CASE ~(section[c].at = a /\ url # NoUrl)
  BY <1>1, <1>2, <1>4
<1>5. QED
  BY <1>3, <1>4

(* A step that leaves the places of the sections and the map.              *)
LEMMA SamePlaces ==
  ASSUME Inv, live' = live, crowded' = crowded,
         section' \in [Columns -> Section \cup {Gone}],
         \A c \in Columns :
               /\ section'[c] = Gone <=> section[c] = Gone
               /\ section[c] # Gone => /\ section'[c].at = section[c].at
                                       /\ section'[c].peer = section[c].peer,
         last' \in [Peers -> Urls \cup {NoUrl}], kept' = kept,
         posted' \in Seq([peer : Peers, url : Urls \cup {NoUrl}])
  PROVE  Inv'
<1>1. \A p \in Peers : \A c \in Columns : 
         (section'[c] # Gone /\ section'[c].peer = p) <=> (section[c] # Gone /\ section[c].peer = p)
  OBVIOUS
<1>2. Single' /\ Registered'
  BY <1>1 DEF Inv, Single, Registered, Of
<1>3. \A p \in Peers : live'[p] # None =>
         \E c \in Columns : section'[c] # Gone /\ section'[c].peer = p /\ section'[c].at = live'[p]
  BY <1>1 DEF Inv, TypeOK, Of
<1>4. QED
  BY <1>2, <1>3 DEF Inv, TypeOK, Of

LEMMA CommitsUrlKeepsInv ==
  ASSUME Inv, NEW c \in Columns, NEW url \in Urls, CommitsUrl(c, url)
  PROVE  Inv'
<1>1. section[c] \in Section
  BY DEF CommitsUrl, Inv, TypeOK
<1>2. /\ section[c].at # None /\ section[c].peer \in Peers
      /\ NavigateTo(section[c].at, url) /\ RememberUrl(section[c].peer, url)
  BY <1>1, ConstantsAssumption DEF CommitsUrl, Section
<1>3. last' \in [Peers -> Urls \cup {NoUrl}]
  BY <1>2, RememberUrlType DEF Inv, TypeOK
<1>4. live' = live /\ kept' = kept /\ crowded' = crowded /\ posted' = posted
  BY DEF CommitsUrl
<1>5. QED
  BY <1>2, <1>3, <1>4, NavigateToKeeps, SamePlaces DEF Inv, TypeOK

(* The first of what is posted. *)
LEMMA PostedParts ==
  ASSUME Inv, posted # <<>>
  PROVE  /\ Head(posted).peer \in Peers /\ Head(posted).url \in Urls \cup {NoUrl}
         /\ Tail(posted) \in Seq([peer : Peers, url : Urls \cup {NoUrl}])
         /\ Len(Tail(posted)) = Len(posted) - 1 /\ Len(posted) \in Nat
<1>1. posted \in Seq([peer : Peers, url : Urls \cup {NoUrl}])
  BY DEF Inv, TypeOK
<1>2. /\ Head(posted) \in [peer : Peers, url : Urls \cup {NoUrl}]
      /\ Tail(posted) \in Seq([peer : Peers, url : Urls \cup {NoUrl}])
      /\ Len(Tail(posted)) = Len(posted) - 1
  BY <1>1, HeadTailProperties
<1>3. QED
  BY <1>1, <1>2

LEMMA NavigatesPeerKeepsInv ==
  ASSUME Inv, NavigatesPeer
  PROVE  Inv'
<1> DEFINE p == Head(posted).peer
           url == Head(posted).url
<1>1. /\ posted # <<>> /\ posted' = Tail(posted) /\ RememberUrl(p, url)
      /\ IF live[p] = None THEN UNCHANGED section ELSE NavigateTo(live[p], url)
      /\ live' = live /\ kept' = kept /\ crowded' = crowded
  BY DEF NavigatesPeer
<1>2. /\ p \in Peers /\ url \in Urls \cup {NoUrl}
      /\ posted' \in Seq([peer : Peers, url : Urls \cup {NoUrl}])
  BY <1>1, PostedParts
<1> HIDE DEF p, url
<1>3. last' \in [Peers -> Urls \cup {NoUrl}]
  BY <1>1, <1>2, RememberUrlType DEF Inv, TypeOK
<1>4. CASE live[p] = None
  <2>1. section' = section /\ section \in [Columns -> Section \cup {Gone}]
    BY <1>1, <1>4 DEF Inv, TypeOK
  <2>2. QED
    BY <1>1, <1>2, <1>3, <2>1, SamePlaces
<1>5. CASE live[p] # None
  BY <1>1, <1>2, <1>3, <1>5, NavigateToKeeps, SamePlaces
<1>6. QED
  BY <1>4, <1>5

LEMMA PushedKeepsInv ==
  ASSUME Inv, NEW p \in Peers, NEW url \in Urls \cup {NoUrl}, Pushed(p, url)
  PROVE  Inv'
<1>1. posted' \in Seq([peer : Peers, url : Urls \cup {NoUrl}])
  BY DEF Pushed, Inv, TypeOK
<1>2. QED
  BY <1>1, SamePlaces DEF Pushed, Inv, TypeOK

LEMMA HistoryTellsKeepsInv ==
  ASSUME Inv, NEW p \in Peers, NEW url \in Urls \cup {NoUrl}, HistoryTells(p, url)
  PROVE  Inv'
<1>1. last' \in [Peers -> Urls \cup {NoUrl}]
  BY RememberUrlType DEF HistoryTells, Inv, TypeOK
<1>2. QED
  BY <1>1, SamePlaces DEF HistoryTells, Inv, TypeOK

LEMMA StepInv == Inv /\ [Next]_vars => Inv'
<1> SUFFICES ASSUME Inv, [Next]_vars
             PROVE  Inv'
  OBVIOUS
<1>1. ASSUME NEW c \in Columns, NEW p \in Peers, ShowsBrowser(c, p)
      PROVE  Inv'
  BY <1>1, ShowsBrowserKeepsInv
<1>2. ASSUME NEW c \in Columns, ShowsBack(c)
      PROVE  Inv'
  BY <1>2, ShowsBackKeepsInv
<1>3. ASSUME NEW c \in Columns, Closes(c)
      PROVE  Inv'
  BY <1>3, ClosesKeepsInv
<1>4. ASSUME NEW c \in Columns, NEW url \in Urls, CommitsUrl(c, url)
      PROVE  Inv'
  BY <1>4, CommitsUrlKeepsInv
<1>5. ASSUME NEW p \in Peers, NEW url \in Urls \cup {NoUrl}, Pushed(p, url)
      PROVE  Inv'
  BY <1>5, PushedKeepsInv
<1>6. ASSUME NEW p \in Peers, NEW url \in Urls \cup {NoUrl}, HistoryTells(p, url)
      PROVE  Inv'
  BY <1>6, HistoryTellsKeepsInv
<1>7. CASE NavigatesPeer
  BY <1>7, NavigatesPeerKeepsInv
<1>8. CASE UNCHANGED vars
  BY <1>8 DEF vars, Inv, TypeOK, Single, Registered, Of
<1>9. QED
  BY <1>1, <1>2, <1>3, <1>4, <1>5, <1>6, <1>7, <1>8 DEF Next

\* The constructor, the destructor and NavigatePeer: the map of sections has
\* for a peer nothing or a section of that peer that exists, although a new
\* section is registered before the one it replaces is destroyed, and may be
\* stored where a destroyed one was.
THEOREM TypeCorrect == Spec => []TypeOK
<1>1. Inv => TypeOK
  BY DEF Inv
<1>2. QED
  BY <1>1, InitInv, StepInv, PTL DEF Spec

-----------------------------------------------------------------------------
(* Navigations that are pushed.                                            *)

(* Only NavigatePeer takes one.                                            *)
LEMMA TakenByNavigatesPeer ==
  ASSUME Inv, [Next]_vars, posted # <<>>, posted' = Tail(posted)
  PROVE  NavigatesPeer
<1>1. Len(posted') = Len(posted) - 1 /\ Len(posted) \in Nat
  BY PostedParts
<1>2. ASSUME posted' = posted
      PROVE  FALSE
  <2>1. Len(posted') = Len(posted)
    BY <1>2
  <2>2. QED
    BY <1>1, <2>1
<1>3. ASSUME NEW p, NEW url, Pushed(p, url)
      PROVE  FALSE
  <2>1. Len(posted') = Len(posted) + 1
    BY <1>3 DEF Pushed, Inv, TypeOK
  <2>2. QED
    BY <1>1, <2>1
<1>4. QED
  BY <1>2, <1>3 DEF Next, vars, ShowsBrowser, ShowsBack, Closes, CommitsUrl, HistoryTells

LEMMA StepShowsPush ==
  ASSUME Inv, [Next]_vars, posted # <<>>, posted' = Tail(posted), Head(posted).url # NoUrl,
         NEW c \in Of(Head(posted).peer), Head(posted).peer \notin crowded
  PROVE  section'[c].url = Head(posted).url
<1> DEFINE p == Head(posted).peer
           url == Head(posted).url
<1>1. NavigatesPeer
  BY TakenByNavigatesPeer
<1>2. p \in Peers /\ url \in Urls \cup {NoUrl}
  BY PostedParts
<1>3. c \in Columns /\ section[c] # Gone /\ section[c].at = live[p]
  BY <1>2 DEF Inv, Registered, Of
<1>4. live[p] # None
  BY <1>3, ConstantsAssumption DEF Inv, TypeOK, Section
<1>5. NavigateTo(live[p], url)
  BY <1>1, <1>4 DEF NavigatesPeer
<1>6. QED
  BY <1>2, <1>3, <1>4, <1>5, NavigateToKeeps

\* NavigatePeer: a navigation that is pushed reaches the section of its peer,
\* unless two columns have had one.  The peer that is not crowded has one
\* section, and the destructor of another does not take its entry.
THEOREM PushIsShownHolds == Spec => PushIsShown
<1>1. Inv /\ [Next]_vars =>
        [posted # <<>> /\ posted' = Tail(posted) /\ Head(posted).url # NoUrl =>
            \A c \in Of(Head(posted).peer) :
               section'[c].url = Head(posted).url \/ Head(posted).peer \in crowded]_vars
  BY StepShowsPush
<1>2. QED
  BY <1>1, InitInv, StepInv, PTL DEF Spec, PushIsShown
=============================================================================
