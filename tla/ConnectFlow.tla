---------------------------- MODULE ConnectFlow -----------------------------
(***************************************************************************)
(* How the client gets from its start to a session that is attached to the *)
(* bridge, and from one user to the next (openclaw/MockSeeder.cpp,         *)
(* ConnectConfig.cpp and the two boxes): the saved configuration, the      *)
(* persisted session, LiveGateway, the closures posted with crl::on_main   *)
(* and the event loops that bootstrapBlocking and fetchRosterBlocking nest *)
(* on the one main thread.  Killing the process is possible at any point,  *)
(* also between truncating the configuration file and writing it.          *)
(*                                                                         *)
(* Abstractions.  A configuration is the user it names: the address and    *)
(* the token are always the same.  A session is the user that its chats    *)
(* were fetched for.  `bridge' says whether a bootstrap would succeed.     *)
(* What the gateway does while it is attached is WsGateway.                *)
(***************************************************************************)
EXTENDS Naturals, SequencesExt

CONSTANTS
    User,      \* the members of the household
    Nobody,    \* the empty user: every chat, and the picker when it is resolved
    NoConfig,  \* a configuration without an address, or no file
    None       \* no session, no gateway

ASSUME ConstantsAssumption ==
    /\ NoConfig \notin User \cup {Nobody, None}
    /\ None \notin User \cup {Nobody}
    /\ Nobody \notin User
    /\ {"flow", "box", "picker", "logOut"} \cap User = {}  \* closures, in the queue
    /\ None \notin [user : User \cup {Nobody}, wired : BOOLEAN]

VARIABLES
    \* what survives the process
    env,         \* FromEnvironment()
    file,        \* LoadConnectConfig()
    persisted,   \* the session that the next start restores
    \* Main::Account
    session, offline, loggingOut,
    \* the process and its main thread
    running,
    main,        \* "loop", or the straight-line code it is in
    stack,       \* the nested loops: what waits for which bootstrap
    queue,       \* crl::on_main
    \* MockSeeder and its boxes
    gateway,     \* LiveGateway: the user it is of, and whether its handlers'
                 \* session is the account's
    box, attempting,
    \* the world, and what is observed
    bridge,
    restored,    \* the session was restored by this start
    dirty,       \* a save failed, or the process died inside one or a switch
    asserted     \* an Expects() failed

disk == <<env, file, persisted>>
account == <<session, offline, loggingOut>>
thread == <<running, main, stack, queue>>
boxes == <<box, attempting>>
ghosts == <<restored, dirty, asserted>>
vars == <<disk, account, thread, gateway, boxes, bridge, ghosts>>

Config == User \cup {Nobody}

(* ResolveConnectConfig(). *)
Resolved == IF file # NoConfig THEN file ELSE env

(* What a process has when it starts; StartConnectFlow runs before the     *)
(* first window is shown.                                                  *)
Fresh ==
    /\ offline' = FALSE /\ loggingOut' = FALSE
    /\ stack' = <<>> /\ queue' = <<>>
    /\ gateway' = None /\ box' = "none" /\ attempting' = FALSE

Init ==
    /\ env \in Config \cup {NoConfig}
    /\ file = NoConfig /\ persisted = None
    /\ session = None /\ offline = FALSE /\ loggingOut = FALSE
    /\ running = TRUE /\ main = "flow" /\ stack = <<>> /\ queue = <<>>
    /\ gateway = None /\ box = "none" /\ attempting = FALSE
    /\ bridge \in BOOLEAN
    /\ restored = FALSE /\ dirty = FALSE /\ asserted = FALSE

-----------------------------------------------------------------------------
(* The process, its storage and the bridge.                                *)

Launch ==
    /\ ~running
    /\ running' = TRUE /\ main' = "flow"
    /\ session' = persisted /\ restored' = (persisted # None)
    /\ Fresh
    /\ UNCHANGED <<disk, bridge, dirty, asserted>>

Dies ==
    /\ running' = FALSE /\ main' = "loop"
    /\ session' = None /\ restored' = FALSE
    /\ Fresh
    /\ UNCHANGED <<disk, bridge>>

(* The process is killed. *)
Stops ==
    /\ running
    /\ Dies
    /\ dirty' = (dirty \/ main \notin {"loop", "flow"} \/ persisted \notin {None, session})
    /\ UNCHANGED asserted

(* What writeMtpData() queued, when keys changed or the session was reset,  *)
(* reaches the disk.                                                       *)
Persists ==
    /\ running /\ main = "loop"
    /\ persisted # session
    /\ persisted' = session
    /\ UNCHANGED <<env, file, account, thread, gateway, boxes, bridge, ghosts>>

BridgeComesOrGoes ==
    /\ bridge' = ~bridge
    /\ UNCHANGED <<disk, account, thread, gateway, boxes, ghosts>>

-----------------------------------------------------------------------------
(* Main::Account and its MTP instance.                                     *)

(* Authorization fails in the main dc: unless the session is offline,      *)
(* logOut() is posted, guarded by the session.                             *)
GlobalFail ==
    /\ main = "loop" /\ session # None /\ ~offline
    /\ ~loggingOut /\ ~Contains(queue, "logOut")
    /\ queue' = Append(queue, "logOut")
    /\ UNCHANGED <<disk, account, running, main, stack, gateway, boxes, bridge, ghosts>>

(* loggedOut(): the session is destroyed. *)
LoggedOut == session' = None /\ loggingOut' = FALSE /\ restored' = FALSE

(* The next posted closure runs, in the innermost loop. *)
Posted(closure) ==
    /\ main = "loop" /\ queue # <<>> /\ Head(queue) = closure
    /\ queue' = Tail(queue)
    /\ UNCHANGED <<disk, session, offline, running, bridge, ghosts>>

(* Of a session that is destroyed by then, the closure is not called.      *)
LogOut ==
    /\ Posted("logOut")
    /\ loggingOut' = (loggingOut \/ session # None)
    /\ UNCHANGED <<main, stack, gateway, boxes>>

(* The answer to auth.logOut. *)
LogOutDone ==
    /\ main = "loop" /\ loggingOut
    /\ LoggedOut
    /\ gateway' = IF gateway = None THEN None ELSE [gateway EXCEPT !.wired = FALSE]
    /\ UNCHANGED <<disk, offline, thread, boxes, bridge, dirty, asserted>>

-----------------------------------------------------------------------------
(* StartConnectFlow and the bootstraps.                                    *)

(* A gateway replaces LiveGateway and bootstrapBlocking nests a loop.      *)
Bootstraps(what, user) ==
    /\ gateway' = [user |-> user, wired |-> FALSE]
    /\ stack' = Append(stack, [of |-> what, user |-> user])

(* What is posted for the user to answer. *)
Offers ==
    CASE Resolved = NoConfig -> <<"box">>
      [] Resolved = Nobody   -> <<"picker">>
      [] OTHER               -> <<>>

StartConnectFlow ==
    /\ main = "flow" /\ main' = "loop"
    /\ queue' = IF session = None THEN queue \o Offers ELSE queue
    /\ \/ /\ session # None /\ Resolved # NoConfig
          /\ Bootstraps("reattach", Resolved)
       \/ /\ session = None /\ Resolved \in User
          /\ Bootstraps("seed", Resolved)
       \/ /\ Resolved = NoConfig \/ (session = None /\ Resolved = Nobody)
          /\ UNCHANGED <<gateway, stack>>
    /\ UNCHANGED <<disk, account, running, boxes, bridge, ghosts>>

RunsFlow ==
    /\ Posted("flow")
    /\ main' = "flow"
    /\ UNCHANGED <<loggingOut, stack, gateway, boxes>>

Frame == stack[Len(stack)]

(* The innermost loop is that of `what' and quits: with what the bridge    *)
(* gave, or because time is up.                                            *)
Ended(what, ok) ==
    /\ main = "loop" /\ stack # <<>> /\ Frame.of = what
    /\ ok = bridge

Pops == stack' = SubSeq(stack, 1, Len(stack) - 1)

(* An Expects() does not hold. *)
Aborts == Dies /\ asserted' = TRUE /\ UNCHANGED dirty

\* Mutant: the account is marked offline before the bridge has answered.
MarksOfflineFirst(ok) ==
    /\ Ended("reattach", ok)
    /\ Pops
    /\ offline' = TRUE
    /\ gateway' = IF ok THEN [gateway EXCEPT !.wired = TRUE] ELSE None
    /\ UNCHANGED <<disk, session, loggingOut, running, main, queue, boxes, bridge, ghosts>>

\* Mutant: the gateway stays when its bootstrap has failed.
KeepsGateway(ok) ==
    /\ Ended("reattach", ok)
    /\ Pops
    /\ offline' = (ok \/ offline)
    /\ gateway' = [gateway EXCEPT !.wired = ok]
    /\ UNCHANGED <<disk, session, loggingOut, running, main, queue, boxes, bridge, ghosts>>

(* ReattachWithConfig() after its bootstrap.                               *)
Reattaches(ok) ==
    /\ Ended("reattach", ok)
    /\ \/ ok /\ session = None /\ Aborts
       \/ /\ ~ok \/ session # None
          /\ Pops
          /\ offline' = (ok \/ offline)
          /\ gateway' = IF ok THEN [gateway EXCEPT !.wired = TRUE] ELSE None
          /\ UNCHANGED <<disk, session, loggingOut, running, main, queue, boxes, bridge, ghosts>>

\* Mutant: the session is created as an ordinary one.
SeedsOnline(what, ok) ==
    /\ Ended(what, ok) /\ what \in {"seed", "attempt"}
    /\ Pops
    /\ IF ok
          THEN /\ session' = Frame.user
               /\ gateway' = [gateway EXCEPT !.wired = TRUE]
               /\ main' = "save"
               /\ UNCHANGED attempting
          ELSE /\ gateway' = None /\ attempting' = FALSE
               /\ UNCHANGED <<session, main>>
    /\ UNCHANGED <<disk, loggingOut, offline, running, queue, box, bridge, ghosts>>

(* SeedWithConfig() after its bootstrap: the session is created, offline,  *)
(* and the configuration is to be saved; or a failure is reported to the   *)
(* ConnectBox, when it was an attempt, and else to nobody.                 *)
Seeds(what, ok) ==
    /\ Ended(what, ok) /\ what \in {"seed", "attempt"}
    /\ \/ ok /\ session # None /\ Aborts
       \/ /\ ok /\ session = None
          /\ Pops
          /\ session' = Frame.user /\ offline' = TRUE
          /\ gateway' = [gateway EXCEPT !.wired = TRUE]
          /\ main' = "save"
          /\ UNCHANGED <<disk, loggingOut, running, queue, boxes, bridge, ghosts>>
       \/ /\ ~ok
          /\ Pops
          /\ gateway' = None
          /\ attempting' = (attempting /\ what = "seed")
          /\ UNCHANGED <<disk, account, running, main, queue, box, bridge, ghosts>>

-----------------------------------------------------------------------------
(* SaveConnectConfig, after a seed.                                        *)

(* The ConnectBox is told of a success, and closes. *)
Reports ==
    /\ main' = "loop"
    /\ attempting' = FALSE
    /\ box' = IF attempting THEN "none" ELSE box

\* Mutant: what was seeded is not saved.
ReportsOnly ==
    /\ main = "save"
    /\ Reports
    /\ UNCHANGED <<disk, account, running, stack, queue, gateway, bridge, ghosts>>

Truncates ==
    /\ main = "save" /\ main' = "cut"
    /\ file' = NoConfig
    /\ UNCHANGED <<env, persisted, account, running, stack, queue, gateway, boxes, bridge, ghosts>>

Writes ==
    /\ main = "cut"
    /\ file' = session /\ dirty' = FALSE
    /\ Reports
    /\ UNCHANGED <<env, persisted, account, running, stack, queue, gateway, bridge, restored, asserted>>

(* The file cannot be opened; nobody looks at the result. *)
SaveFails ==
    /\ main = "save"
    /\ dirty' = TRUE
    /\ Reports
    /\ UNCHANGED <<disk, account, running, stack, queue, gateway, bridge, restored, asserted>>

-----------------------------------------------------------------------------
(* What the user does.                                                     *)

ShowsConnectBox ==
    /\ Posted("box")
    /\ box' = "connect" /\ attempting' = FALSE
    /\ UNCHANGED <<loggingOut, main, stack, gateway>>

\* Mutant: the button works during an attempt, too.
SubmitsAgain ==
    /\ main = "loop" /\ box = "connect" /\ session = None
    /\ attempting' = TRUE
    /\ Bootstraps("attempt", Nobody)
    /\ UNCHANGED <<disk, account, running, main, queue, box, bridge, ghosts>>

(* "Connect". *)
Submits ==
    /\ main = "loop" /\ box = "connect" /\ ~attempting /\ session = None
    /\ attempting' = TRUE
    /\ Bootstraps("attempt", Nobody)
    /\ UNCHANGED <<disk, account, running, main, queue, box, bridge, ghosts>>

(* A box is closed; an attempt under way goes on. *)
Dismisses ==
    /\ main = "loop" /\ box # "none"
    /\ box' = "none" /\ attempting' = FALSE
    /\ UNCHANGED <<disk, account, thread, gateway, bridge, ghosts>>

(* The picker asks the bridge for the members, with a gateway of its own. *)
FetchesRoster ==
    /\ Posted("picker")
    /\ stack' = Append(stack, [of |-> "roster", user |-> Nobody])
    /\ UNCHANGED <<loggingOut, main, gateway, boxes>>

(* With them, or with the static fallback, it is shown. *)
ShowsPicker(ok) ==
    /\ Ended("roster", ok)
    /\ Pops
    /\ box' = "picker"
    /\ UNCHANGED <<disk, account, running, main, queue, gateway, attempting, bridge, ghosts>>

(* A member is clicked: the box closes and the choice is posted. *)
Clicks(u) ==
    /\ main = "loop" /\ box = "picker"
    /\ box' = "none"
    /\ queue' = Append(queue, u)
    /\ UNCHANGED <<disk, account, running, main, stack, gateway, attempting, bridge, ghosts>>

Picks(u) ==
    /\ Posted(u)
    /\ IF session = None
          THEN Bootstraps("seed", u) ELSE UNCHANGED <<gateway, stack>>
    /\ UNCHANGED <<loggingOut, main, boxes>>

(* SwitchUser(), from the menu of a shown session: during a reattach no    *)
(* window is.  The configuration without its user is saved first.          *)
SwitchUser ==
    /\ main = "loop" /\ stack = <<>> /\ session # None
    /\ \/ /\ file' = NoConfig
          /\ main' = IF Resolved = NoConfig THEN "forget" ELSE "recut"
          /\ UNCHANGED dirty
       \/ /\ main' = "forget" /\ dirty' = TRUE  \* cannot be opened
          /\ UNCHANGED file
    /\ UNCHANGED <<env, persisted, account, running, stack, queue, gateway, boxes, bridge,
                   restored, asserted>>

WritesNobody ==
    /\ main = "recut" /\ main' = "forget"
    /\ file' = Nobody /\ dirty' = FALSE
    /\ UNCHANGED <<env, persisted, account, running, stack, queue, gateway, boxes, bridge,
                   restored, asserted>>

\* Mutant: the flow is not started again.
ForgetsOnly ==
    /\ main = "forget" /\ main' = "loop"
    /\ gateway' = None
    /\ LoggedOut
    /\ UNCHANGED <<disk, offline, running, stack, queue, boxes, bridge, dirty, asserted>>

(* ... then LiveGateway, the session with an MTP instance of its own, and  *)
(* the flow starts over, for whoever is picked.                            *)
Forgets ==
    /\ main = "forget" /\ main' = "loop"
    /\ gateway' = None
    /\ LoggedOut
    /\ queue' = Append(queue, "flow")
    /\ UNCHANGED <<disk, offline, running, stack, boxes, bridge, dirty, asserted>>

-----------------------------------------------------------------------------
MainThread ==
    \/ StartConnectFlow \/ RunsFlow \/ LogOut
    \/ \E ok \in BOOLEAN :
          \/ Reattaches(ok) \/ ShowsPicker(ok)
          \/ \E what \in {"seed", "attempt"} : Seeds(what, ok)
    \/ Truncates \/ Writes \/ SaveFails \/ WritesNobody \/ Forgets
    \/ ShowsConnectBox \/ FetchesRoster \/ \E u \in User : Picks(u)

Next ==
    \/ MainThread
    \/ Launch \/ Stops \/ Persists \/ BridgeComesOrGoes
    \/ GlobalFail \/ LogOutDone
    \/ Submits \/ Dismisses \/ SwitchUser \/ \E u \in User : Clicks(u)

Spec == Init /\ [][Next]_vars

(* The main thread goes on, and a nested loop quits, by its timeout if by  *)
(* nothing else.                                                           *)
FairSpec == Spec /\ WF_vars(MainThread)

-----------------------------------------------------------------------------
(* Properties.                                                             *)

DiskOK ==
    /\ {env, file} \subseteq Config \cup {NoConfig}
    /\ persisted \in Config \cup {None}

AccountOK ==
    /\ session \in Config \cup {None}
    /\ {offline, loggingOut} \subseteq BOOLEAN
    /\ restored => session # None

ThreadOK ==
    /\ main \in {"loop", "flow", "save", "cut", "recut", "forget"}
    /\ stack \in Seq([of : {"reattach", "seed", "attempt", "roster"}, user : Config])
    /\ queue \in Seq({"flow", "box", "picker", "logOut"} \cup User)
    /\ {running, bridge, dirty, asserted} \subseteq BOOLEAN

\* Every variable keeps its type; a gateway that is not wired to the session
\* is one whose bootstrap is under way, or whose session was logged out.
TypeOK ==
    /\ DiskOK /\ AccountOK /\ ThreadOK
    /\ gateway \in [user : Config, wired : BOOLEAN] \cup {None}
    /\ box \in {"none", "connect", "picker"} /\ attempting \in BOOLEAN
    /\ gateway # None /\ ~gateway.wired => stack # <<>> \/ session = None

\* bootstrapBlocking runs whatever the main thread is given, yet nothing of it
\* starts a second bootstrap: LiveGateway is never replaced, and so deleted,
\* under the nested loop that one of its functions is in.  And that loop is
\* the attempt's while the ConnectBox shows "Connecting..." and ignores its
\* button, so that the box always comes back from it.
LoopsDoNotNest ==
    /\ Len(stack) <= 1
    /\ attempting => main \in {"save", "cut"} \/ \E i \in DOMAIN stack : stack[i].of = "attempt"

\* ApiWrap::sendMessage gives what is sent in an offline session to the live
\* gateway, and drops it without a word when there is none: once the loops
\* are left, an offline session has a gateway, and one that answers to it.
SendsAreRouted ==
    main = "loop" /\ stack = <<>> /\ session # None /\ offline =>
        gateway # None /\ gateway.wired

\* The inherited client logs out when its own servers refuse it, which they
\* always do here.  That never ends a session that was seeded in this run,
\* whatever sessions, flags and switches came before it.
SeededIsKept ==
    [][running /\ running' /\ session # None /\ session' = None /\ main # "forget" => restored]_vars

\* A relaunch fills the session that it restores with the chats of the user
\* it was seeded for, also after switches, unless a save had failed or the
\* process died inside one or inside a switch.
ReattachedAsSeeded ==
    \A i \in DOMAIN stack :
        stack[i].of = "reattach" /\ session # None /\ ~dirty => stack[i].user = session

Attached == session # None /\ gateway # None /\ gateway.wired

\* A flow, at a start or after a switch, ends with a session attached to the
\* bridge or with a box that asks the user, unless the bridge or the process
\* goes away, the inherited client logs out, or there is a session and no
\* address to attach it to.
FlowConnects ==
    main \in {"flow", "forget"} ~>
        \/ Attached \/ box # "none"
        \/ ~bridge \/ ~running \/ loggingOut
        \/ session # None /\ Resolved = NoConfig

\* Expects(sessionExists()) in Main::Account::session(), and
\* Expects(_session == nullptr) in createSession(), hold when the flow calls
\* them after a bootstrap.
ExpectationsHold == ~asserted
=============================================================================
