---------------------------- MODULE StorageFile -----------------------------
(***************************************************************************)
(* How the client's local storage writes its files                         *)
(* (storage/details/storage_file_utilities.cpp): FileWriteDescriptor on    *)
(* the main thread gives a finished file to AsyncWriteManager, which posts *)
(* it to WriteManager on a thread of its own; there writes of one file are *)
(* coalesced, and writeNow puts the file on the disk, through QSaveFile or *)
(* else by hand.  Every step on the disk may fail, and the process may be  *)
(* killed between any two; ReadFile has to find the last whole file after  *)
(* that.                                                                   *)
(*                                                                         *)
(* Abstractions.  A content is the number of the write it is of, counted   *)
(* for each file, and whether all of it is there, as the checksum tells;   *)
(* the order of the numbers is that of the modification times.  What       *)
(* earlier versions of the program left, under the names '0' and '1', is   *)
(* numbered 1 and 2.                                                       *)
(***************************************************************************)
EXTENDS Naturals, Sequences, SequencesExt

CONSTANTS
    Files,       \* base paths
    Old,         \* those of them that were there before
    MaxWrites,   \* writes of a file
    MaxFaults,   \* steps on the disk that fail
    MaxCrashes   \* times the process is killed

VARIABLES
    main,     \* the main thread: "run" | in "sync", "all", "stop" | "stopped" | "down"
    sent,     \* the number of the last write of each file
    post,     \* what the manager's thread has to run
    scheduled,\* _scheduled
    job,      \* writeNow: of which file and number, for whom, and how far
    disk,     \* what is under each of the three names of a file
    failed,   \* history: the last write of each file that did not come out whole,
              \* or was of a run that is over
    faults, crashes

threads == <<main, sent, post, scheduled>>
vars == <<threads, job, disk, failed, faults, crashes>>

Name == {"s", "0", "1"}
Nothing == [v |-> 0, whole |-> FALSE]
Whole(v) == [v |-> v, whole |-> TRUE]
Torn(v) == [v |-> v, whole |-> FALSE]
Under(s, zero, one) == [n \in Name |-> IF n = "s" THEN s ELSE IF n = "0" THEN zero ELSE one]

Absent == Under(Nothing, Nothing, Nothing)
Left == \* by this program, by earlier versions, or by a crash of one of them
    { Absent, Under(Whole(2), Nothing, Nothing),
      Under(Nothing, Whole(2), Nothing), Under(Nothing, Whole(1), Whole(2)),
      Under(Nothing, Torn(2), Whole(1)), Under(Whole(2), Whole(1), Nothing) }

ASSUME ConstantsAssumption ==
    Files # {} /\ Old \subseteq Files /\ {MaxWrites, MaxFaults, MaxCrashes} \subseteq Nat

Idle == [at |-> "idle"]
Init ==
    /\ main = "run" /\ sent = [f \in Files |-> 2]
    /\ post = <<>> /\ scheduled = <<>> /\ job = Idle
    /\ disk \in {d \in [Files -> Left] : \A f \in Files \ Old : d[f] = Absent}
    /\ failed = sent
    /\ faults = 0 /\ crashes = 0

-----------------------------------------------------------------------------
(* ReadFile.                                                               *)

(* The names that are tried, in order: the modern one if it is there, or   *)
(* else the newer of the two others first.                                 *)
ToTry(d) ==
    IF d["s"].v # 0 THEN <<"s">>
    ELSE IF d["0"].v = 0 THEN <<"1">>
    ELSE IF d["1"].v = 0 THEN <<"0">>
    ELSE IF d["0"].v < d["1"].v THEN <<"1", "0">> ELSE <<"0", "1">>

(* The first of them that is whole is read; the last is tried in any case. *)
Chosen(d) == IF d[ToTry(d)[1]].whole THEN ToTry(d)[1] ELSE ToTry(d)[Len(ToTry(d))]
Read(d) == IF d[Chosen(d)].whole THEN d[Chosen(d)].v ELSE 0

(* What was tried beside the one that is read is removed.                  *)
AfterRead(d) ==
    [n \in Name |-> IF d[Chosen(d)].whole /\ n \in ToSet(ToTry(d)) \ {Chosen(d)}
                       THEN Nothing ELSE d[n]]

Pending(f) ==
    \/ job.at # "idle" /\ job.file = f
    \/ \E k \in DOMAIN scheduled : scheduled[k].file = f
    \/ \E k \in DOMAIN post : post[k].what \in {"write", "sync"} /\ post[k].file = f

ReadsFile(f) ==
    /\ main = "run" /\ ~Pending(f)
    /\ disk' = [disk EXCEPT ![f] = AfterRead(@)]
    /\ UNCHANGED <<threads, job, failed, faults, crashes>>

-----------------------------------------------------------------------------
(* The main thread: FileWriteDescriptor::finish, Sync, Finish.             *)

Posts(task) == post' = Append(post, task)

Finishes(f, what) ==
    /\ main = "run" /\ sent[f] < 2 + MaxWrites
    /\ sent' = [sent EXCEPT ![f] = @ + 1]
    /\ Posts([what |-> what, file |-> f, v |-> sent'[f]])
    /\ main' = IF what = "sync" THEN "sync" ELSE "run"
    /\ UNCHANGED <<scheduled, job, disk, failed, faults, crashes>>

\* Mutant: stop() leaves it to the manager to finish.
SyncsLoosely(how) ==
    /\ main = "run"
    /\ IF how = "stop" THEN main' = "stopped" /\ UNCHANGED post
                       ELSE main' = how /\ Posts([what |-> "all"])
    /\ UNCHANGED <<sent, scheduled, job, disk, failed, faults, crashes>>

(* sync(), and stop(), after which nothing may be written.                 *)
Syncs(how) ==
    /\ main = "run"
    /\ main' = how /\ Posts([what |-> "all"])
    /\ UNCHANGED <<sent, scheduled, job, disk, failed, faults, crashes>>

-----------------------------------------------------------------------------
(* The manager's thread: what is posted.                                   *)

Takes(what) ==
    /\ main \notin {"stopped", "down"} /\ job.at = "idle"
    /\ post # <<>> /\ Head(post).what = what
    /\ UNCHANGED <<main, sent, disk, failed, faults, crashes>>

Begins(entry, then) ==
    job' = [file |-> entry.file, v |-> entry.v, then |-> then, at |-> "save"]

Entry == [file : Files, v : 0..(2 + MaxWrites)]

(* ranges::find: where the first entry of a file is scheduled, if any is.  *)
Place(f) ==
    {k \in DOMAIN scheduled :
        scheduled[k].file = f /\ \A i \in 1 .. (k - 1) : scheduled[i].file # f}

(* An entry of the same file is replaced where it stands.                  *)
Coalesces(entry) ==
    \/ Place(entry.file) = {} /\ scheduled' = Append(scheduled, entry)
    \/ \E k \in Place(entry.file) : scheduled' = [scheduled EXCEPT ![k] = entry]

Erases(f) ==
    \/ Place(f) = {} /\ UNCHANGED scheduled
    \/ \E k \in Place(f) : scheduled' = RemoveAt(scheduled, k)

Given == [file |-> Head(post).file, v |-> Head(post).v]

\* Mutant: every entry is added.
WritesEach ==
    /\ Takes("write")
    /\ scheduled' = Append(scheduled, Given)
    /\ post' = Append(Tail(post), [what |-> "scheduled"])
    /\ UNCHANGED job

\* Mutant: the entry waits for the next sync.
WritesQuietly ==
    /\ Takes("write")
    /\ Coalesces(Given)
    /\ post' = Tail(post)
    /\ UNCHANGED job

(* write.                                                                  *)
Writes ==
    /\ Takes("write")
    /\ Coalesces(Given)
    /\ post' = Append(Tail(post), [what |-> "scheduled"])
    /\ UNCHANGED job

(* writeScheduled.                                                         *)
WritesScheduled ==
    /\ Takes("scheduled")
    /\ post' = Tail(post)
    /\ IF scheduled = <<>>
          THEN UNCHANGED <<scheduled, job>>
          ELSE /\ Begins(Head(scheduled), "scheduled")
               /\ scheduled' = Tail(scheduled)

\* Mutant: what is scheduled of the file is left.
WritesSyncOnly ==
    /\ Takes("sync")
    /\ post' = Tail(post)
    /\ Begins(Head(post), "sync")
    /\ UNCHANGED scheduled

(* writeSync: what is scheduled of the file is superseded.                 *)
WritesSync ==
    /\ Takes("sync")
    /\ post' = Tail(post)
    /\ Begins(Head(post), "sync")
    /\ Erases(Head(post).file)

(* writeSyncAll; Continues is its loop.                                    *)
WritesAll ==
    /\ Takes("all")
    /\ post' = Tail(post)
    /\ job' = [at |-> "done", then |-> "all", file |-> CHOOSE f \in Files : TRUE, v |-> 0]
    /\ UNCHANGED scheduled

(* writeNow is over: writeScheduled goes on with the next, writeSyncAll     *)
(* until nothing is left, and with_sync returns to the main thread.         *)
Continues ==
    /\ job.at = "done"
    /\ IF job.then = "all" /\ scheduled # <<>>
          THEN /\ Begins(Head(scheduled), "all")
               /\ scheduled' = Tail(scheduled) /\ UNCHANGED <<main, post>>
          ELSE /\ job' = Idle /\ UNCHANGED scheduled
               /\ IF job.then = "scheduled"
                     THEN /\ IF scheduled = <<>> THEN UNCHANGED post ELSE Posts([what |-> "scheduled"])
                          /\ UNCHANGED main
                     ELSE /\ main' = IF main = "stop" THEN "stopped" ELSE "run"
                          /\ UNCHANGED post
    /\ UNCHANGED <<sent, disk, failed, faults, crashes>>

-----------------------------------------------------------------------------
(* The manager's thread: writeNow.                                         *)

At(step) ==
    /\ main # "down" /\ job.at = step
    /\ UNCHANGED <<threads, crashes>>

(* The step leaves the file so, and the next one comes.                    *)
Leaves(d, next) ==
    /\ disk' = [disk EXCEPT ![job.file] = d]
    /\ job' = [job EXCEPT !.at = next]

Put(name, content) == [disk[job.file] EXCEPT ![name] = content]
OK == UNCHANGED <<failed, faults>>
Fault == faults < MaxFaults /\ faults' = faults + 1
Lost == failed' = [failed EXCEPT ![job.file] = job.v]

(* QSaveFile replaces the file under the modern name as a whole, or not.   *)
Saves ==
    /\ At("save")
    /\ \/ OK /\ Leaves(Put("s", Whole(job.v)), "clean0")
       \/ Fault /\ UNCHANGED failed /\ Leaves(disk[job.file], "plain")

Cleans ==
    \/ At("clean0") /\ OK /\ Leaves(Put("0", Nothing), "clean1")
    \/ At("clean1") /\ OK /\ Leaves(Put("1", Nothing), "done")

(* The plain file is opened, which empties it; nothing else is tried.      *)
Opens ==
    /\ At("plain")
    /\ \/ OK /\ Leaves(Put("0", Torn(job.v)), "write")
       \/ Fault /\ Lost /\ Leaves(disk[job.file], "done")

(* It is written and flushed; nobody looks whether all of it was.          *)
WritesPlain ==
    /\ At("write")
    /\ \/ OK /\ Leaves(Put("0", Whole(job.v)), "backup")
       \/ Fault /\ Lost /\ Leaves(disk[job.file], "backup")

RemovesBackup ==
    /\ At("backup") /\ OK
    /\ Leaves(Put("1", Nothing), "rename")

Renames ==
    /\ At("rename")
    /\ \/ OK /\ Leaves([Put("s", disk[job.file]["0"]) EXCEPT !["0"] = Nothing], "done")
       \/ Fault /\ UNCHANGED failed /\ Leaves(disk[job.file], "safe")

(* The modern file goes, so that the plain one is found.                   *)
RemovesSafe ==
    /\ At("safe") /\ OK
    /\ Leaves(Put("s", Nothing), "done")

WriteNow ==
    \/ Saves \/ Cleans \/ Opens \/ WritesPlain \/ RemovesBackup \/ Renames \/ RemovesSafe

-----------------------------------------------------------------------------
(* The process is killed, and starts again.                                *)
Killed ==
    /\ main \notin {"down", "stopped"} /\ crashes < MaxCrashes
    /\ crashes' = crashes + 1 /\ main' = "down"
    /\ post' = <<>> /\ scheduled' = <<>> /\ job' = Idle /\ failed' = sent
    /\ UNCHANGED <<sent, disk, faults>>

Starts ==
    /\ main = "down" /\ main' = "run"
    /\ UNCHANGED <<sent, post, scheduled, job, disk, failed, faults, crashes>>

Manager == Writes \/ WritesScheduled \/ WritesSync \/ WritesAll \/ Continues \/ WriteNow

Next ==
    \/ \E f \in Files : ReadsFile(f) \/ \E what \in {"write", "sync"} : Finishes(f, what)
    \/ \E how \in {"all", "stop"} : Syncs(how)
    \/ Manager
    \/ Killed \/ Starts

Spec == Init /\ [][Next]_vars

(* The manager's thread goes on.                                           *)
FairSpec == Spec /\ WF_vars(Manager)

-----------------------------------------------------------------------------
(* Properties.                                                             *)

Version == 0..(2 + MaxWrites)
Content == [v : Version, whole : BOOLEAN]
Task ==
    [what : {"write", "sync"}, file : Files, v : Version] \cup [what : {"scheduled", "all"}]
Job ==
    [file : Files, v : Version, then : {"scheduled", "sync", "all"},
     at : {"save", "clean0", "clean1", "plain", "write", "backup", "rename", "safe", "done"}]

\* Every variable keeps its type; no file is scheduled twice, and while the
\* main thread waits, what it waits for is posted or being written.
TypeOK ==
    /\ main \in {"run", "sync", "all", "stop", "stopped", "down"}
    /\ sent \in [Files -> Version] /\ failed \in [Files -> Version]
    /\ post \in Seq(Task) /\ job \in Job \cup {Idle}
    /\ scheduled \in Seq(Entry)
    /\ \A i, j \in DOMAIN scheduled : scheduled[i].file = scheduled[j].file => i = j
    /\ main \in {"sync", "all", "stop"} =>
          \/ job # Idle /\ job.then # "scheduled"
          \/ \E k \in DOMAIN post : post[k].what \in {"sync", "all"}
    /\ disk \in [Files -> [Name -> Content]]
    /\ faults \in 0..MaxFaults /\ crashes \in 0..MaxCrashes

\* What a reader would find of a file never goes back to an older content nor
\* away, whatever fails and wherever the process is killed: except when the
\* one good copy is the plain file, which is then written in place, and when
\* the plain file came out short and a good one makes room for it.
ReadNeverGoesBack ==
    [][\A f \in Files :
          \/ Read(disk'[f]) >= Read(disk[f])
          \/ job.at = "plain" /\ job.file = f /\ Chosen(disk[f]) = "0"
          \/ job.at \in {"backup", "rename", "safe"} /\ job.file = f /\ failed[f] = job.v]_vars

\* When writeSync, sync or stop return to the main thread, the last content of
\* the file, of every file, can be read: nothing older is written after it,
\* and nothing is left behind in the queue.
SyncIsDurable ==
    [][main # main' /\ main # "down" /\ main' \in {"run", "stopped"} =>
          \A f \in Files :
              \/ main = "sync" /\ job.file # f
              \/ Read(disk[f]) = sent[f]
              \/ failed[f] = sent[f]]_vars

\* What has been given to the manager is written in time, or a newer content
\* of the file is, if its writing does not fail and nothing kills the process.
EventuallyWritten ==
    \A f \in Files : \A v \in 3..(2 + MaxWrites) :
        sent[f] = v ~>
            Read(disk[f]) >= v \/ failed[f] >= v
=============================================================================
