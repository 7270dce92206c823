-------------------------- MODULE BrowserSections ---------------------------
(***************************************************************************)
(* The embedded browser of a chat (openclaw/BrowserSection.cpp): sections  *)
(* in the columns of the windows, the map from a peer to the section that  *)
(* navigations pushed by the bridge are given to, and the last url of each *)
(* peer, from which a section starts.  A section registers itself before   *)
(* the one it replaces is destroyed, and one peer may have a section in    *)
(* more than one column.                                                   *)
(*                                                                         *)
(* Abstractions.  MainWidget decides when a section is shown, replaced,    *)
(* kept as a memento and shown again: here it does so in any order, and of *)
(* its stack only the set of what is on it is kept.  Urls are taken after  *)
(* NormalizeUrl.  The webview can be created.                              *)
(***************************************************************************)
EXTENDS Naturals, Sequences

CONSTANTS
    Peers, Urls,
    NoUrl,      \* the empty url
    Default,    \* kDefaultUrl
    Columns,    \* places for a section
    Addresses,  \* of sections: one more than there are columns
    None,       \* no section
    MaxPushes   \* navigations that wait for the main thread

ASSUME ConstantsAssumption ==
    /\ Default \in Urls /\ NoUrl \notin Urls /\ None \notin Addresses
    /\ MaxPushes \in Nat

VARIABLES
    section,  \* the section of each column
    live,     \* LiveSections
    last,     \* LastUrls
    kept,     \* mementos on the stack
    posted,   \* calls of NavigatePeer that are posted to the main thread
    crowded   \* history: peers of which two columns have had a section,
              \* until the last of these sections is closed

vars == <<section, live, last, kept, posted, crowded>>

Gone == [at |-> None]
Of(p) == {c \in Columns : section[c] # Gone /\ section[c].peer = p}
UsedBy(c) == section[c].at

Init ==
    /\ section = [c \in Columns |-> Gone]
    /\ live = [p \in Peers |-> None] /\ last = [p \in Peers |-> NoUrl]
    /\ kept = {} /\ posted = <<>> /\ crowded = {}

-----------------------------------------------------------------------------
RememberUrl(p, url) == last' = IF url = NoUrl THEN last ELSE [last EXCEPT ![p] = url]

\* Mutant: the destructor leaves the entry.
LeavesEntry(map, old) == map

\* Mutant: the destructor does not ask whose entry it is.
UnregistersPeer(map, old) ==
    IF old = Gone THEN map ELSE [map EXCEPT ![old.peer] = None]

(* The destructor: what becomes of the map.                                *)
Unregisters(map, old) ==
    IF old # Gone /\ map[old.peer] = old.at THEN [map EXCEPT ![old.peer] = None] ELSE map

(* Peers of which one column after the step is not the only one.           *)
Crowds ==
    crowded' = {p \in Peers :
                   LET after == {c \in Columns : section'[c] # Gone /\ section'[c].peer = p}
                   IN  \/ p \in crowded /\ after # {}
                       \/ \E c, d \in after : c # d}

(* A section with this memento takes the column: its constructor and init  *)
(* run, the one that was there may be kept as a memento, and is destroyed. *)
Shows(c, p, url) ==
    LET start == IF url # NoUrl THEN url ELSE IF last[p] # NoUrl THEN last[p] ELSE Default IN
    /\ \E new \in Addresses :
          /\ \A d \in Columns : UsedBy(d) # new
          /\ section' = [section EXCEPT ![c] = [at |-> new, peer |-> p, url |-> start]]
          /\ live' = Unregisters([live EXCEPT ![p] = new], section[c])
    /\ RememberUrl(p, start)
    /\ Crowds

Keeps(c, rest) ==
    \/ kept' = rest
    \/ /\ section[c] # Gone
       /\ kept' = rest \cup {[peer |-> section[c].peer, url |-> section[c].url]}

(* The top bar's button, or the third column that follows the chat.        *)
ShowsBrowser(c, p) ==
    /\ Shows(c, p, last[p])
    /\ Keeps(c, kept)
    /\ UNCHANGED posted

(* Back: a memento is taken from the stack, with the url it was kept with. *)
ShowsBack(c) ==
    /\ \E memento \in kept :
          /\ Shows(c, memento.peer, memento.url)
          /\ kept' = kept \ {memento}
    /\ UNCHANGED posted

(* A column is closed, or another section takes it.                        *)
Closes(c) ==
    /\ section[c] # Gone
    /\ section' = [section EXCEPT ![c] = Gone]
    /\ live' = Unregisters(live, section[c])
    /\ Keeps(c, kept)
    /\ Crowds
    /\ UNCHANGED <<last, posted>>

-----------------------------------------------------------------------------
(* navigateTo of the section at this address.                              *)
NavigateTo(a, url) ==
    section' = [c \in Columns |->
                   IF UsedBy(c) = a /\ url # NoUrl THEN [section[c] EXCEPT !.url = url]
                                                   ELSE section[c]]

(* commitUrlFromBar.                                                       *)
CommitsUrl(c, url) ==
    /\ section[c] # Gone
    /\ NavigateTo(section[c].at, url)
    /\ RememberUrl(section[c].peer, url)
    /\ UNCHANGED <<live, kept, posted, crowded>>

(* handleUpdate: the navigation is posted.                                 *)
Pushed(p, url) ==
    /\ Len(posted) < MaxPushes
    /\ posted' = Append(posted, [peer |-> p, url |-> url])
    /\ UNCHANGED <<section, live, last, kept, crowded>>

(* NavigatePeer: the url is remembered, and the registered section, if     *)
(* there is one, goes there.                                               *)
NavigatesPeer ==
    /\ posted # <<>> /\ posted' = Tail(posted)
    /\ LET p == Head(posted).peer
           url == Head(posted).url
       IN /\ RememberUrl(p, url)
          /\ IF live[p] = None THEN UNCHANGED section ELSE NavigateTo(live[p], url)
    /\ UNCHANGED <<live, kept, crowded>>

(* A history answer has the last url of its peer: it is remembered at once, *)
(* and a section that is open stays where it is.                           *)
HistoryTells(p, url) ==
    /\ RememberUrl(p, url)
    /\ UNCHANGED <<section, live, kept, posted, crowded>>

-----------------------------------------------------------------------------
Next ==
    \/ \E c \in Columns :
          \/ \E p \in Peers : ShowsBrowser(c, p)
          \/ ShowsBack(c) \/ Closes(c)
          \/ \E url \in Urls : CommitsUrl(c, url)
    \/ \E p \in Peers : \E url \in Urls \cup {NoUrl} : Pushed(p, url) \/ HistoryTells(p, url)
    \/ NavigatesPeer

Spec == Init /\ [][Next]_vars

-----------------------------------------------------------------------------
(* Properties.                                                             *)

Section == [at : Addresses, peer : Peers, url : Urls]
Memento == [peer : Peers, url : Urls]

\* Every variable keeps its type, and the map of sections never dangles: what
\* it has for a peer is a section that exists and is of that peer, although
\* the storage of a destroyed one may have been given to a new one.
TypeOK ==
    /\ section \in [Columns -> Section \cup {Gone}]
    /\ live \in [Peers -> Addresses \cup {None}] /\ last \in [Peers -> Urls \cup {NoUrl}]
    /\ kept \subseteq Memento /\ crowded \subseteq Peers
    /\ posted \in Seq([peer : Peers, url : Urls \cup {NoUrl}])
    /\ \A p \in Peers : live[p] # None => \E c \in Of(p) : section[c].at = live[p]

\* "Returns true if a live BrowserSection for that peer handled it": a
\* navigation that is pushed is shown by the section of its peer, whatever
\* sections were shown, replaced, closed and restored before, and although a
\* section that replaces another is registered before that one is destroyed;
\* unless two columns have had a section of the peer.
PushIsShown ==
    [][posted # <<>> /\ posted' = Tail(posted) /\ Head(posted).url # NoUrl =>
          \A c \in Of(Head(posted).peer) :
              section'[c].url = Head(posted).url \/ Head(posted).peer \in crowded]_vars
=============================================================================
