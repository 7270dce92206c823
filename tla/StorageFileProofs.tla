------------------------- MODULE StorageFileProofs --------------------------
(***************************************************************************)
(* Proofs about StorageFile, for any files, with anything of Left on the   *)
(* disk, and any number of writes, faults and kills of the process.        *)
(***************************************************************************)
EXTENDS StorageFile, SequenceTheorems, TLAPS

(* Writing is under way; `all' of nothing, and a write that is over, are not. *)
Active == job.at \notin {"idle", "done"}

(* What waits to be written of f, of number v, is not older than what is   *)
(* on the disk or being written, nor than the last that failed.            *)
Newest(f, v) ==
    /\ 3 <= v /\ v <= sent[f] /\ failed[f] <= v
    /\ \A n \in Name : disk[f][n].v <= v
    /\ Active /\ job.file = f => job.v <= v

IsWrite(k) == post[k].what \in {"write", "sync"}

(* Writes are posted, and scheduled, in the order of their numbers.        *)
PostInv ==
    \A k \in DOMAIN post : IsWrite(k) =>
        /\ Newest(post[k].file, post[k].v)
        /\ \A i \in 1..k : IsWrite(i) /\ post[i].file = post[k].file => post[i].v <= post[k].v
        /\ \A i \in DOMAIN scheduled :
              scheduled[i].file = post[k].file => scheduled[i].v <= post[k].v

ScheduledInv ==
    /\ \A i \in DOMAIN scheduled : Newest(scheduled[i].file, scheduled[i].v)
    /\ \A i, j \in DOMAIN scheduled : scheduled[i].file = scheduled[j].file => i = j

(* Where writeNow has come to. *)
StageInv ==
    LET d == disk[job.file] IN
    /\ job.at \in {"clean0", "clean1"} => d["s"] = Whole(job.v)
    /\ job.at = "write" => d["0"] = Torn(job.v)
    /\ job.at \in {"backup", "rename", "safe"} =>
          d["0"] = Whole(job.v) \/ (d["0"] = Torn(job.v) /\ failed[job.file] = job.v)
    /\ job.at \in {"rename", "safe"} => d["1"] = Nothing

JobInv == Active => Newest(job.file, job.v) /\ StageInv

(* Nothing is newer on the disk, or as a failure, than what was sent.      *)
SentInv ==
    \A f \in Files :
        2 <= sent[f] /\ failed[f] <= sent[f] /\ \A n \in Name : disk[f][n].v <= sent[f]

(* The main thread waits for one task, after which it has posted nothing.  *)
Waits == main \in {"sync", "all", "stop"}
WaitInv ==
    /\ \A k \in DOMAIN post : post[k].what \in {"sync", "all"} =>
          /\ Waits /\ (post[k].what = "sync" <=> main = "sync")
          /\ job = Idle \/ job.then = "scheduled"
          /\ \A j \in (k + 1) .. Len(post) : post[j].what = "scheduled"
          /\ post[k].what = "sync" => post[k].v = sent[post[k].file]
    /\ job # Idle /\ job.then # "scheduled" =>
          /\ Waits /\ (job.then = "sync" <=> main = "sync")
          /\ \A k \in DOMAIN post : post[k].what = "scheduled"
          /\ job.then = "sync" =>
                /\ job.v = sent[job.file]
                /\ \A i \in DOMAIN scheduled : scheduled[i].file # job.file

(* The last write of a file is on the disk, failed, or on its way.         *)
LatestInv ==
    \A f \in Files :
        \/ failed[f] = sent[f]
        \/ \E k \in DOMAIN post : IsWrite(k) /\ post[k].file = f /\ post[k].v = sent[f]
        \/ \E i \in DOMAIN scheduled : scheduled[i].file = f /\ scheduled[i].v = sent[f]
        \/ Active /\ job.file = f /\ job.v = sent[f]
        \/ Read(disk[f]) = sent[f] /\ ~(Active /\ job.file = f)

Inv == TypeOK /\ PostInv /\ ScheduledInv /\ JobInv /\ SentInv /\ WaitInv /\ LatestInv

-----------------------------------------------------------------------------
(* Reading.                                                                *)

(* Which name is read, or would be. *)
LEMMA ChosenIs ==
  ASSUME NEW d \in [Name -> Content]
  PROVE  /\ Chosen(d) \in Name
         /\ d["s"].v # 0 => Chosen(d) = "s"
         /\ d["s"].v = 0 /\ d["0"].v = 0 => Chosen(d) = "1"
         /\ d["s"].v = 0 /\ d["0"].v # 0 /\ d["1"].v = 0 => Chosen(d) = "0"
         /\ d["s"].v = 0 /\ d["0"].v # 0 /\ d["1"].v # 0 /\ d["0"].v < d["1"].v =>
               Chosen(d) = IF d["1"].whole THEN "1" ELSE "0"
         /\ d["s"].v = 0 /\ d["0"].v # 0 /\ d["1"].v # 0 /\ ~(d["0"].v < d["1"].v) =>
               Chosen(d) = IF d["0"].whole THEN "0" ELSE "1"
<1>1. CASE d["s"].v # 0
  BY <1>1 DEF Chosen, ToTry, Name
<1>2. CASE d["s"].v = 0 /\ d["0"].v = 0
  BY <1>2 DEF Chosen, ToTry, Name
<1>3. CASE d["s"].v = 0 /\ d["0"].v # 0 /\ d["1"].v = 0
  BY <1>3 DEF Chosen, ToTry, Name
<1>4. CASE d["s"].v = 0 /\ d["0"].v # 0 /\ d["1"].v # 0 /\ d["0"].v < d["1"].v
  BY <1>4 DEF Chosen, ToTry, Name
<1>5. CASE d["s"].v = 0 /\ d["0"].v # 0 /\ d["1"].v # 0 /\ ~(d["0"].v < d["1"].v)
  BY <1>5 DEF Chosen, ToTry, Name
<1>6. QED
  BY <1>1, <1>2, <1>3, <1>4, <1>5

LEMMA ContentParts ==
  ASSUME NEW d \in [Name -> Content]
  PROVE  \A n \in Name : d[n].v \in Nat /\ d[n].whole \in BOOLEAN
  BY ConstantsAssumption DEF Content, Version

(* Nothing that is read is newer than all that is there.                   *)
LEMMA ReadIsThere ==
  ASSUME NEW d \in [Name -> Content], NEW m \in Nat, \A n \in Name : d[n].v <= m
  PROVE  Read(d) \in Nat /\ Read(d) <= m
<1>1. Chosen(d) \in Name
  BY ChosenIs
<1>2. d[Chosen(d)].v \in Nat /\ d[Chosen(d)].v <= m
  BY <1>1, ContentParts
<1>3. QED
  BY <1>2 DEF Read

(* The modern file is read if it is there.                                 *)
LEMMA ReadModern ==
  ASSUME NEW d \in [Name -> Content], d["s"].v # 0, d["s"].whole
  PROVE  Read(d) = d["s"].v
  BY ChosenIs DEF Read

(* A plain file that is whole, and not older than what is beside it, is    *)
(* read if the modern one is not there.                                    *)
LEMMA ReadPlain ==
  ASSUME NEW d \in [Name -> Content], d["s"].v = 0, d["0"].v # 0, d["0"].whole,
         d["1"].v <= d["0"].v
  PROVE  Read(d) = d["0"].v
<1>1. d["0"].v \in Nat /\ d["1"].v \in Nat
  BY ContentParts DEF Name
<1>2. Chosen(d) = "0"
  BY <1>1, ChosenIs
<1>3. QED
  BY <1>2 DEF Read

(* ReadFile removes nothing that it would have read.                       *)
LEMMA AfterReadReads ==
  ASSUME NEW d \in [Name -> Content]
  PROVE  /\ AfterRead(d) \in [Name -> Content]
         /\ Read(AfterRead(d)) = Read(d)
         /\ \A n \in Name : AfterRead(d)[n].v <= d[n].v
<1>1. Nothing \in Content
  BY ConstantsAssumption DEF Nothing, Content, Version
<1>2. AfterRead(d) \in [Name -> Content]
  BY <1>1 DEF AfterRead
<1>3. \A n \in Name : AfterRead(d)[n] = d[n] \/ AfterRead(d)[n] = Nothing
  BY DEF AfterRead
<1>4. \A n \in Name : AfterRead(d)[n].v <= d[n].v
  BY <1>3, ContentParts DEF Nothing
<1>5. CASE ~d[Chosen(d)].whole
  <2>1. AfterRead(d) = d
    BY <1>5 DEF AfterRead
  <2>2. QED
    BY <1>2, <1>4, <2>1
<1>6. CASE d[Chosen(d)].whole
  <2>1. AfterRead(d)[Chosen(d)] = d[Chosen(d)]
    BY ChosenIs DEF AfterRead
  <2>2. AfterRead(d)["s"] = d["s"]
    <3>1. Chosen(d) # "s" => \A i \in DOMAIN ToTry(d) : ToTry(d)[i] # "s"
      BY ChosenIs DEF ToTry
    <3>2. CASE Chosen(d) = "s"
      BY <2>1, <3>2
    <3>3. CASE Chosen(d) # "s"
      BY <3>1, <3>3 DEF AfterRead, ToSet, Name
    <3>4. QED
      BY <3>2, <3>3
  <2>3. Chosen(AfterRead(d)) = Chosen(d)
    BY <1>2, <1>3, <1>6, <2>1, <2>2, ChosenIs, ContentParts DEF Nothing, Name
  <2>4. QED
    BY <1>2, <1>4, <2>1, <2>3 DEF Read
<1>7. QED
  BY <1>5, <1>6

-----------------------------------------------------------------------------
(* What a step of writeNow does.                                           *)

LEMMA JobParts ==
  ASSUME TypeOK
  PROVE  /\ job.at = "idle" <=> job = Idle
         /\ job # Idle => job \in Job /\ job.file \in Files /\ job.v \in Version /\ job.v \in Nat
  BY ConstantsAssumption, SMTT(30) DEF TypeOK, Idle, Job, Version

LEMMA Contents ==
  ASSUME NEW v \in Version
  PROVE  Whole(v) \in Content /\ Torn(v) \in Content /\ Nothing \in Content
  BY ConstantsAssumption DEF Whole, Torn, Nothing, Content, Version

LEMMA PutPuts ==
  ASSUME TypeOK, job \in Job, NEW name \in Name, NEW c \in Content
  PROVE  /\ Put(name, c) \in [Name -> Content]
         /\ Put(name, c)[name] = c
         /\ \A n \in Name \ {name} : Put(name, c)[n] = disk[job.file][n]
<1>1. disk[job.file] \in [Name -> Content]
  BY DEF TypeOK, Job
<1>2. QED
  BY <1>1 DEF Put

LEMMA LeavesOne ==
  ASSUME TypeOK, job \in Job, NEW d \in [Name -> Content],
         NEW next \in {"clean0", "clean1", "plain", "write", "backup", "rename", "safe", "done"},
         Leaves(d, next)
  PROVE  /\ disk' \in [Files -> [Name -> Content]] /\ disk'[job.file] = d
         /\ \A f \in Files \ {job.file} : disk'[f] = disk[f]
         /\ job' \in Job /\ job'.at = next
         /\ job'.file = job.file /\ job'.v = job.v /\ job'.then = job.then
<1>1. job.file \in Files
  BY DEF Job
<1>2. disk \in [Files -> [Name -> Content]]
  BY DEF TypeOK
<1>3. /\ disk' \in [Files -> [Name -> Content]] /\ disk'[job.file] = d
      /\ \A f \in Files \ {job.file} : disk'[f] = disk[f]
  BY <1>1, <1>2 DEF Leaves
<1>4. /\ job' \in Job /\ job'.at = next
      /\ job'.file = job.file /\ job'.v = job.v /\ job'.then = job.then
  BY DEF Leaves, Job
<1>5. QED
  BY <1>3, <1>4

(* A fault counts, and a write that is lost is noted as such.              *)
LEMMA Outcomes ==
  ASSUME TypeOK, job \in Job
  PROVE  /\ OK => failed' = failed /\ faults' \in 0..MaxFaults
         /\ Fault => faults' \in 0..MaxFaults
         /\ Lost => /\ failed' \in [Files -> Version] /\ failed'[job.file] = job.v
                    /\ \A f \in Files \ {job.file} : failed'[f] = failed[f]
  BY ConstantsAssumption DEF TypeOK, OK, Fault, Lost, Job

(* The part of a step that is the same for all: only the file that is      *)
(* written changes, to what is not newer than the write.                   *)
OneFile ==
    /\ disk' \in [Files -> [Name -> Content]]
    /\ \A f \in Files \ {job.file} : disk'[f] = disk[f] /\ failed'[f] = failed[f]
    /\ \A n \in Name : disk'[job.file][n].v <= job.v
    /\ failed' \in [Files -> Version] /\ failed'[job.file] \in {failed[job.file], job.v}
    /\ faults' \in 0..MaxFaults

(* The write goes on, or is over and can be read, if it has not failed.    *)
GoesOn ==
    /\ job' \in Job /\ job'.file = job.file /\ job'.v = job.v /\ job'.then = job.then
    /\ job'.at # "done" => StageInv'
    /\ job'.at = "done" => Read(disk'[job.file]) = job.v \/ failed'[job.file] = job.v

(* A reader finds what it found before or something newer, but where       *)
(* ReadNeverGoesBack says otherwise.                                       *)
NoLoss ==
    \/ Read(disk'[job.file]) >= Read(disk[job.file])
    \/ job.at = "plain" /\ Chosen(disk[job.file]) = "0"
    \/ job.at \in {"backup", "rename", "safe"} /\ failed[job.file] = job.v

(* What can be read before the write is over is not newer than the write.  *)
LEMMA FinishedIsNoLoss ==
  ASSUME NEW v \in Nat, disk[job.file] \in [Name -> Content],
         \A n \in Name : disk[job.file][n].v <= v, Read(disk'[job.file]) = v
  PROVE  NoLoss
<1>1. Read(disk[job.file]) \in Nat /\ Read(disk[job.file]) <= v
  BY ReadIsThere
<1>2. QED
  BY <1>1 DEF NoLoss

LEMMA UnchangedIsNoLoss ==
  ASSUME disk[job.file] \in [Name -> Content], Read(disk'[job.file]) = Read(disk[job.file])
  PROVE  NoLoss
<1>1. \A n \in Name : disk[job.file][n].v <= 2 + MaxWrites
  BY ConstantsAssumption DEF Content, Version
<1>2. Read(disk[job.file]) \in Nat
  BY <1>1, ReadIsThere, ConstantsAssumption
<1>3. QED
  BY <1>2 DEF NoLoss

LEMMA LeavesOneFile ==
  ASSUME TypeOK, job \in Job, Newest(job.file, job.v),
         NEW d \in [Name -> Content],
         \A n \in Name : d[n].v <= job.v \/ d[n] = disk[job.file][n],
         NEW next \in {"clean0", "clean1", "plain", "write", "backup", "rename", "safe", "done"},
         Leaves(d, next),
         OK \/ (Fault /\ (UNCHANGED failed \/ Lost))
  PROVE  OneFile
<1>1. /\ disk' \in [Files -> [Name -> Content]] /\ disk'[job.file] = d
      /\ \A f \in Files \ {job.file} : disk'[f] = disk[f]
  BY LeavesOne
<1>2. \A n \in Name : disk'[job.file][n].v <= job.v
  <2>1. \A n \in Name : disk[job.file][n].v <= job.v
    BY DEF Newest
  <2>2. QED
    BY <1>1, <2>1
<1>3. /\ failed' \in [Files -> Version] /\ failed'[job.file] \in {failed[job.file], job.v}
      /\ \A f \in Files \ {job.file} : failed'[f] = failed[f]
  BY Outcomes DEF OK, TypeOK
<1>4. faults' \in 0..MaxFaults
  BY Outcomes
<1>5. QED
  BY <1>1, <1>2, <1>3, <1>4 DEF OneFile

(* Every step is one of a write, which is the newest of its file so far.   *)
LEMMA WriteNowIsActive ==
  ASSUME TypeOK, JobInv, WriteNow
  PROVE  /\ Active /\ job \in Job /\ job.v \in Version /\ job.v \in Nat
         /\ Newest(job.file, job.v) /\ StageInv
         /\ disk[job.file] \in [Name -> Content]
         /\ main # "down" /\ UNCHANGED <<threads, crashes>>
<1>1. /\ job.at \in {"save", "clean0", "clean1", "plain", "write", "backup", "rename", "safe"}
      /\ main # "down" /\ UNCHANGED <<threads, crashes>>
  BY DEF WriteNow, Saves, Cleans, Opens, WritesPlain, RemovesBackup, Renames, RemovesSafe, At
<1>2. Active /\ job # Idle
  BY <1>1 DEF Active, Idle
<1>3. job \in Job /\ job.v \in Version /\ job.v \in Nat /\ job.file \in Files
  BY <1>2, JobParts
<1>4. disk[job.file] \in [Name -> Content]
  BY <1>3 DEF TypeOK
<1>5. QED
  BY <1>1, <1>2, <1>3, <1>4 DEF JobInv

LEMMA SavesOutcome ==
  ASSUME TypeOK, JobInv, Saves
  PROVE  OneFile /\ GoesOn /\ NoLoss
<1>1. /\ job \in Job /\ job.v \in Version /\ job.v \in Nat /\ Newest(job.file, job.v)
      /\ disk[job.file] \in [Name -> Content]
  BY WriteNowIsActive DEF WriteNow
<1>2. CASE OK /\ Leaves(Put("s", Whole(job.v)), "clean0")
  <2> DEFINE d == Put("s", Whole(job.v))
  <2>1. d \in [Name -> Content] /\ d["s"] = Whole(job.v) /\ \A n \in Name \ {"s"} : d[n] = disk[job.file][n]
    BY <1>1, PutPuts, Contents DEF Name
  <2>2. Leaves(d, "clean0")
    BY <1>2
  <2> HIDE DEF d
  <2>3. OneFile
    BY <1>1, <1>2, <2>1, <2>2, LeavesOneFile DEF Whole
  <2>4. GoesOn /\ disk'[job.file] = d
    BY <1>1, <2>1, <2>2, LeavesOne DEF GoesOn, StageInv
  <2>5. Read(d) = job.v
    BY <1>1, <2>1, ReadModern DEF Whole, Newest
  <2>6. NoLoss
    BY <1>1, <2>4, <2>5, FinishedIsNoLoss DEF Newest
  <2>7. QED
    BY <2>3, <2>4, <2>6
<1>3. CASE Fault /\ UNCHANGED failed /\ Leaves(disk[job.file], "plain")
  <2>1. OneFile
    BY <1>1, <1>3, LeavesOneFile
  <2>2. GoesOn /\ disk'[job.file] = disk[job.file]
    BY <1>1, <1>3, LeavesOne DEF GoesOn, StageInv
  <2>3. QED
    BY <1>1, <2>1, <2>2, UnchangedIsNoLoss
<1>4. QED
  BY <1>2, <1>3 DEF Saves

LEMMA CleansOutcome ==
  ASSUME TypeOK, JobInv, Cleans
  PROVE  OneFile /\ GoesOn /\ NoLoss
<1>1. /\ job \in Job /\ job.v \in Version /\ job.v \in Nat /\ Newest(job.file, job.v)
      /\ StageInv /\ disk[job.file] \in [Name -> Content]
  BY WriteNowIsActive DEF WriteNow
<1>2. PICK name \in {"0", "1"} :
         /\ job.at = IF name = "0" THEN "clean0" ELSE "clean1"
         /\ OK /\ Leaves(Put(name, Nothing), IF name = "0" THEN "clean1" ELSE "done")
  BY DEF Cleans, At
<1> DEFINE d == Put(name, Nothing)
<1>3. d \in [Name -> Content] /\ d[name] = Nothing /\ \A n \in Name \ {name} : d[n] = disk[job.file][n]
  BY <1>1, PutPuts, Contents DEF Name
<1>4. d["s"] = Whole(job.v)
  BY <1>1, <1>2, <1>3 DEF StageInv, Name
<1>5. Leaves(d, IF name = "0" THEN "clean1" ELSE "done")
  BY <1>2
<1> HIDE DEF d
<1>6. OneFile
  BY <1>1, <1>2, <1>3, <1>5, LeavesOneFile DEF Nothing
<1>7. /\ job' \in Job /\ job'.file = job.file /\ job'.v = job.v /\ job'.then = job.then
      /\ disk'[job.file] = d /\ job'.at \in {"clean1", "done"}
  BY <1>1, <1>3, <1>5, LeavesOne
<1>8. Read(d) = job.v
  <2>1. d["s"].v = job.v /\ d["s"].whole /\ job.v # 0
    BY <1>1, <1>4 DEF Whole, Newest
  <2>2. QED
    BY <1>3, <2>1, ReadModern
<1>9. GoesOn
  BY <1>4, <1>7, <1>8 DEF GoesOn, StageInv
<1>10. NoLoss
  BY <1>1, <1>7, <1>8, FinishedIsNoLoss DEF Newest
<1>11. QED
  BY <1>6, <1>9, <1>10

(* Emptying the plain file loses nothing, if that is not the one to read.  *)
LEMMA OpensOutcome ==
  ASSUME TypeOK, JobInv, Opens
  PROVE  OneFile /\ GoesOn /\ NoLoss
<1>1. /\ job \in Job /\ job.v \in Version /\ job.v \in Nat /\ Newest(job.file, job.v)
      /\ disk[job.file] \in [Name -> Content] /\ job.at = "plain"
  BY WriteNowIsActive DEF WriteNow, Opens, At
<1>2. CASE OK /\ Leaves(Put("0", Torn(job.v)), "write")
  <2> DEFINE d == Put("0", Torn(job.v))
  <2>1. d \in [Name -> Content] /\ d["0"] = Torn(job.v) /\ d["s"] = disk[job.file]["s"] /\ d["1"] = disk[job.file]["1"]
    BY <1>1, PutPuts, Contents DEF Name
  <2>2. Leaves(d, "write")
    BY <1>2
  <2> HIDE DEF d
  <2>3. OneFile
    BY <1>1, <1>2, <2>1, <2>2, LeavesOneFile DEF Torn, Name
  <2>4. GoesOn /\ disk'[job.file] = d
    BY <1>1, <2>1, <2>2, LeavesOne DEF GoesOn, StageInv
  <2>5. CASE Chosen(disk[job.file]) # "0" /\ Read(disk[job.file]) # 0
    <3>1. Chosen(d) = Chosen(disk[job.file])
      <4>1. d["0"].v # 0 /\ ~d["0"].whole
        BY <1>1, <2>1 DEF Torn, Newest
      <4>2. \A n \in Name : d[n].v \in Nat /\ disk[job.file][n].v \in Nat
        BY <1>1, <2>1, ContentParts
      <4>3. CASE d["s"].v # 0
        BY <1>1, <2>1, <4>3, ChosenIs
      <4>4. CASE d["s"].v = 0
        <5>1. Chosen(disk[job.file]) = "1" /\ d["1"].whole
          BY <1>1, <2>1, <2>5, <4>4, ChosenIs DEF Name, Read
        <5>2. d["1"].v # 0
          BY <1>1, <2>1, <2>5, <5>1 DEF Read
        <5>3. Chosen(d) = "1"
          BY <2>1, <4>1, <4>2, <4>4, <5>1, <5>2, ChosenIs DEF Name
        <5>4. QED
          BY <5>1, <5>3
      <4>5. QED
        BY <4>3, <4>4
    <3>2. Chosen(disk[job.file]) \in {"s", "1"}
      BY <1>1, <2>5, ChosenIs DEF Name
    <3>3. Read(d) = Read(disk[job.file])
      BY <2>1, <3>1, <3>2 DEF Read
    <3>4. NoLoss
      BY <1>1, <2>4, <3>3, UnchangedIsNoLoss
    <3>5. QED
      BY <2>3, <2>4, <3>4
  <2>6. CASE Chosen(disk[job.file]) = "0"
    BY <1>1, <2>3, <2>4, <2>6 DEF NoLoss
  <2>7. CASE Read(disk[job.file]) = 0
    <3>1. \A n \in Name : d[n].v <= job.v
      BY <1>1, <2>1 DEF Newest, Torn, Name
    <3>2. Read(d) \in Nat
      BY <1>1, <2>1, <3>1, ReadIsThere
    <3>3. QED
      BY <2>3, <2>4, <2>7, <3>2 DEF NoLoss
  <2>8. QED
    BY <2>5, <2>6, <2>7
<1>3. CASE Fault /\ Lost /\ Leaves(disk[job.file], "done")
  <2>1. OneFile
    BY <1>1, <1>3, LeavesOneFile
  <2>2. GoesOn /\ disk'[job.file] = disk[job.file]
    BY <1>1, <1>3, LeavesOne, Outcomes DEF GoesOn
  <2>3. QED
    BY <1>1, <2>1, <2>2, UnchangedIsNoLoss
<1>4. QED
  BY <1>2, <1>3 DEF Opens

LEMMA WritesPlainOutcome ==
  ASSUME TypeOK, JobInv, WritesPlain
  PROVE  OneFile /\ GoesOn /\ NoLoss
<1>1. /\ job \in Job /\ job.v \in Version /\ job.v \in Nat /\ Newest(job.file, job.v)
      /\ disk[job.file] \in [Name -> Content] /\ disk[job.file]["0"] = Torn(job.v)
      /\ job.at = "write"
  BY WriteNowIsActive DEF WriteNow, WritesPlain, At, StageInv
<1>2. CASE OK /\ Leaves(Put("0", Whole(job.v)), "backup")
  <2> DEFINE d == Put("0", Whole(job.v))
  <2>1. d \in [Name -> Content] /\ d["0"] = Whole(job.v) /\ d["s"] = disk[job.file]["s"] /\ d["1"] = disk[job.file]["1"]
    BY <1>1, PutPuts, Contents DEF Name
  <2>2. Leaves(d, "backup")
    BY <1>2
  <2> HIDE DEF d
  <2>3. OneFile
    BY <1>1, <1>2, <2>1, <2>2, LeavesOneFile DEF Whole, Name
  <2>4. GoesOn /\ disk'[job.file] = d
    BY <1>1, <2>1, <2>2, LeavesOne DEF GoesOn, StageInv
  <2>5. CASE d["s"].v # 0
    <3>1. Chosen(d) = "s" /\ Chosen(disk[job.file]) = "s"
      BY <1>1, <2>1, <2>5, ChosenIs
    <3>2. Read(d) = Read(disk[job.file])
      BY <2>1, <3>1 DEF Read
    <3>3. QED
      BY <1>1, <2>3, <2>4, <3>2, UnchangedIsNoLoss
  <2>6. CASE d["s"].v = 0
    <3>1. Read(d) = job.v
      BY <1>1, <2>1, <2>6, ReadPlain DEF Whole, Newest, Name
    <3>2. QED
      BY <1>1, <2>3, <2>4, <3>1, FinishedIsNoLoss DEF Newest
  <2>7. QED
    BY <2>5, <2>6
<1>3. CASE Fault /\ Lost /\ Leaves(disk[job.file], "backup")
  <2>1. OneFile
    BY <1>1, <1>3, LeavesOneFile
  <2>2. GoesOn /\ disk'[job.file] = disk[job.file]
    BY <1>1, <1>3, LeavesOne, Outcomes DEF GoesOn, StageInv
  <2>3. QED
    BY <1>1, <2>1, <2>2, UnchangedIsNoLoss
<1>4. QED
  BY <1>2, <1>3 DEF WritesPlain

(* What the plain file is after it was written. *)
Written(d) == d["0"] = Whole(job.v) \/ (d["0"] = Torn(job.v) /\ failed[job.file] = job.v)

LEMMA RemovesBackupOutcome ==
  ASSUME TypeOK, JobInv, RemovesBackup
  PROVE  OneFile /\ GoesOn /\ NoLoss
<1>1. /\ job \in Job /\ job.v \in Version /\ job.v \in Nat /\ Newest(job.file, job.v)
      /\ disk[job.file] \in [Name -> Content] /\ Written(disk[job.file])
      /\ job.at = "backup" /\ OK
  BY WriteNowIsActive DEF WriteNow, RemovesBackup, At, StageInv, Written
<1> DEFINE d == Put("1", Nothing)
<1>2. d \in [Name -> Content] /\ d["1"] = Nothing /\ d["s"] = disk[job.file]["s"] /\ d["0"] = disk[job.file]["0"]
  BY <1>1, PutPuts, Contents DEF Name
<1>3. Leaves(d, "rename")
  BY DEF RemovesBackup
<1> HIDE DEF d
<1>4. OneFile
  BY <1>1, <1>2, <1>3, LeavesOneFile DEF Nothing, Name
<1>5. GoesOn /\ disk'[job.file] = d
  BY <1>1, <1>2, <1>3, LeavesOne DEF GoesOn, StageInv, Written, OK
<1>6. NoLoss
  <2>1. CASE failed[job.file] = job.v
    BY <1>1, <2>1 DEF NoLoss
  <2>2. CASE d["0"] = Whole(job.v) /\ d["s"].v # 0
    <3>1. Chosen(d) = "s" /\ Chosen(disk[job.file]) = "s"
      BY <1>1, <1>2, <2>2, ChosenIs
    <3>2. Read(d) = Read(disk[job.file])
      BY <1>2, <3>1 DEF Read
    <3>3. QED
      BY <1>1, <1>5, <3>2, UnchangedIsNoLoss
  <2>3. CASE d["0"] = Whole(job.v) /\ d["s"].v = 0
    <3>1. Read(d) = job.v
      BY <1>1, <1>2, <2>3, ReadPlain DEF Whole, Nothing, Newest
    <3>2. QED
      BY <1>1, <1>5, <3>1, FinishedIsNoLoss DEF Newest
  <2>4. QED
    BY <1>1, <1>2, <2>1, <2>2, <2>3 DEF Written
<1>7. QED
  BY <1>4, <1>5, <1>6

LEMMA RenamesOutcome ==
  ASSUME TypeOK, JobInv, Renames
  PROVE  OneFile /\ GoesOn /\ NoLoss
<1>1. /\ job \in Job /\ job.v \in Version /\ job.v \in Nat /\ Newest(job.file, job.v)
      /\ disk[job.file] \in [Name -> Content] /\ Written(disk[job.file])
      /\ disk[job.file]["1"] = Nothing /\ job.at = "rename"
  BY WriteNowIsActive DEF WriteNow, Renames, At, StageInv, Written
<1>2. CASE OK /\ Leaves([Put("s", disk[job.file]["0"]) EXCEPT !["0"] = Nothing], "done")
  <2> DEFINE d == [Put("s", disk[job.file]["0"]) EXCEPT !["0"] = Nothing]
  <2>1. d \in [Name -> Content] /\ d["s"] = disk[job.file]["0"] /\ d["0"] = Nothing /\ d["1"] = Nothing
    <3>1. disk[job.file]["0"] \in Content
      BY <1>1 DEF Name
    <3>2. /\ Put("s", disk[job.file]["0"]) \in [Name -> Content]
          /\ Put("s", disk[job.file]["0"])["s"] = disk[job.file]["0"]
          /\ Put("s", disk[job.file]["0"])["1"] = Nothing
      BY <1>1, <3>1, PutPuts DEF Name
    <3>3. QED
      BY <1>1, <3>2, Contents DEF Name
  <2>2. Leaves(d, "done")
    BY <1>2
  <2> HIDE DEF d
  <2>3. \A n \in Name : d[n].v <= job.v
    BY <1>1, <2>1 DEF Written, Whole, Torn, Nothing, Name
  <2>4. OneFile
    BY <1>1, <1>2, <2>1, <2>2, <2>3, LeavesOneFile
  <2>5. disk'[job.file] = d /\ failed' = failed
    BY <1>1, <1>2, <2>1, <2>2, LeavesOne DEF OK
  <2>6. d["s"] = Whole(job.v) => Read(d) = job.v
    BY <1>1, <2>1, ReadModern DEF Whole, Newest
  <2>7. GoesOn
    BY <1>1, <2>1, <2>2, <2>5, <2>6, LeavesOne DEF GoesOn, Written
  <2>8. NoLoss
    <3>1. CASE d["s"] = Whole(job.v)
      BY <1>1, <2>5, <2>6, <3>1, FinishedIsNoLoss DEF Newest
    <3>2. CASE failed[job.file] = job.v
      BY <1>1, <3>2 DEF NoLoss
    <3>3. QED
      BY <1>1, <2>1, <3>1, <3>2 DEF Written
  <2>9. QED
    BY <2>4, <2>7, <2>8
<1>3. CASE Fault /\ UNCHANGED failed /\ Leaves(disk[job.file], "safe")
  <2>1. OneFile
    BY <1>1, <1>3, LeavesOneFile
  <2>2. GoesOn /\ disk'[job.file] = disk[job.file]
    BY <1>1, <1>3, LeavesOne DEF GoesOn, StageInv, Written
  <2>3. QED
    BY <1>1, <2>1, <2>2, UnchangedIsNoLoss
<1>4. QED
  BY <1>2, <1>3 DEF Renames

LEMMA RemovesSafeOutcome ==
  ASSUME TypeOK, JobInv, RemovesSafe
  PROVE  OneFile /\ GoesOn /\ NoLoss
<1>1. /\ job \in Job /\ job.v \in Version /\ job.v \in Nat /\ Newest(job.file, job.v)
      /\ disk[job.file] \in [Name -> Content] /\ Written(disk[job.file])
      /\ disk[job.file]["1"] = Nothing /\ job.at = "safe" /\ OK
  BY WriteNowIsActive DEF WriteNow, RemovesSafe, At, StageInv, Written
<1> DEFINE d == Put("s", Nothing)
<1>2. d \in [Name -> Content] /\ d["s"] = Nothing /\ d["0"] = disk[job.file]["0"] /\ d["1"] = Nothing
  BY <1>1, PutPuts, Contents DEF Name
<1>3. Leaves(d, "done")
  BY DEF RemovesSafe
<1> HIDE DEF d
<1>4. OneFile
  BY <1>1, <1>2, <1>3, LeavesOneFile DEF Nothing, Name
<1>5. disk'[job.file] = d /\ failed' = failed
  BY <1>1, <1>2, <1>3, LeavesOne DEF OK
<1>6. d["0"] = Whole(job.v) => Read(d) = job.v
  BY <1>1, <1>2, ReadPlain DEF Whole, Nothing, Newest
<1>7. GoesOn
  BY <1>1, <1>2, <1>3, <1>5, <1>6, LeavesOne DEF GoesOn, Written
<1>8. NoLoss
  <2>1. CASE d["0"] = Whole(job.v)
    BY <1>1, <1>5, <1>6, <2>1, FinishedIsNoLoss DEF Newest
  <2>2. CASE failed[job.file] = job.v
    BY <1>1, <2>2 DEF NoLoss
  <2>3. QED
    BY <1>1, <1>2, <2>1, <2>2 DEF Written
<1>9. QED
  BY <1>4, <1>7, <1>8

LEMMA WriteNowOutcome ==
  ASSUME TypeOK, JobInv, WriteNow
  PROVE  OneFile /\ GoesOn /\ NoLoss
  BY SavesOutcome, CleansOutcome, OpensOutcome, WritesPlainOutcome, RemovesBackupOutcome,
     RenamesOutcome, RemovesSafeOutcome DEF WriteNow

-----------------------------------------------------------------------------
(* writeNow keeps the invariant.                                           *)

LEMMA Types ==
  ASSUME TypeOK
  PROVE  /\ \A f \in Files : /\ sent[f] \in Nat /\ failed[f] \in Nat
                             /\ disk[f] \in [Name -> Content]
                             /\ \A n \in Name : disk[f][n].v \in Nat
         /\ Len(post) \in Nat /\ DOMAIN post = 1..Len(post)
         /\ \A k \in DOMAIN post :
               /\ post[k] \in Task
               /\ IsWrite(k) => post[k].file \in Files /\ post[k].v \in Nat /\ post[k].v \in Version
         /\ Len(scheduled) \in Nat /\ DOMAIN scheduled = 1..Len(scheduled)
         /\ \A i \in DOMAIN scheduled :
               scheduled[i] \in Entry /\ scheduled[i].file \in Files /\ scheduled[i].v \in Nat
<1>1. \A f \in Files : sent[f] \in Nat /\ failed[f] \in Nat /\ disk[f] \in [Name -> Content]
  BY ConstantsAssumption DEF TypeOK, Version
<1>2. \A f \in Files : \A n \in Name : disk[f][n].v \in Nat
  BY <1>1, ContentParts
<1>3. post \in Seq(Task) /\ scheduled \in Seq(Entry)
  BY DEF TypeOK
<1>4. /\ Len(post) \in Nat /\ DOMAIN post = 1..Len(post) /\ \A k \in DOMAIN post : post[k] \in Task
      /\ Len(scheduled) \in Nat /\ DOMAIN scheduled = 1..Len(scheduled)
      /\ \A i \in DOMAIN scheduled : scheduled[i] \in Entry
  BY <1>3
<1>5. \A t \in Task : t.what \in {"write", "sync"} => t.file \in Files /\ t.v \in Nat /\ t.v \in Version
  BY ConstantsAssumption DEF Task, Version
<1>6. \A e \in Entry : e.file \in Files /\ e.v \in Nat
  BY ConstantsAssumption DEF Entry
<1>7. QED
  BY <1>1, <1>2, <1>4, <1>5, <1>6 DEF IsWrite

(* What waits stays newer than what was written before it.                 *)
LEMMA WriteNowKeepsNewest ==
  ASSUME TypeOK, JobInv, WriteNow, NEW f \in Files, NEW v \in Nat, Newest(f, v)
  PROVE  Newest(f, v)'
<1>1. /\ Active /\ job.v \in Nat /\ sent' = sent /\ OneFile /\ job'.file = job.file /\ job'.v = job.v
  BY WriteNowIsActive, WriteNowOutcome DEF GoesOn, threads
<1>2. 3 <= v /\ v <= sent'[f]
  BY <1>1 DEF Newest
<1>3. CASE job.file = f
  <2>1. job.v <= v
    BY <1>1, <1>3 DEF Newest
  <2>2. failed'[f] <= v
    BY <1>1, <1>3, <2>1 DEF Newest, OneFile
  <2>3. \A n \in Name : disk'[f][n].v <= v
    <3>1. \A n \in Name : disk'[f][n].v \in Nat /\ disk'[f][n].v <= job.v
      <4>1. disk'[f] \in [Name -> Content]
        BY <1>1 DEF OneFile
      <4>2. QED
        BY <1>1, <1>3, <4>1, ContentParts DEF OneFile
    <3>2. QED
      BY <1>1, <2>1, <3>1
  <2>4. QED
    BY <1>1, <1>2, <2>1, <2>2, <2>3 DEF Newest
<1>4. CASE job.file # f
  BY <1>1, <1>2, <1>4 DEF Newest, OneFile
<1>5. QED
  BY <1>3, <1>4

LEMMA WriteNowKeepsInv ==
  ASSUME Inv, WriteNow
  PROVE  Inv'
<1>1. /\ TypeOK /\ JobInv /\ OneFile /\ GoesOn
      /\ Active /\ job \in Job /\ job.v \in Nat /\ Newest(job.file, job.v) /\ job.file \in Files
      /\ UNCHANGED <<main, sent, post, scheduled, crashes>>
  BY WriteNowIsActive, WriteNowOutcome DEF Inv, threads, Job
<1>2. /\ job' \in Job /\ job'.file = job.file /\ job'.v = job.v /\ job'.then = job.then
      /\ job # Idle /\ job' # Idle /\ job'.at # "idle"
  BY <1>1 DEF GoesOn, Active, Idle, Job
<1>3. TypeOK'
  BY <1>1, <1>2 DEF TypeOK, OneFile
<1>4. PostInv'
  <2>1. \A k \in DOMAIN post : IsWrite(k) => Newest(post[k].file, post[k].v)'
    BY <1>1, Types, WriteNowKeepsNewest DEF Inv, PostInv
  <2>2. QED
    BY <1>1, <2>1 DEF Inv, PostInv, IsWrite, Newest, Active
<1>5. ScheduledInv'
  <2>1. \A i \in DOMAIN scheduled : Newest(scheduled[i].file, scheduled[i].v)'
    BY <1>1, Types, WriteNowKeepsNewest DEF Inv, ScheduledInv
  <2>2. QED
    BY <1>1, <2>1 DEF Inv, ScheduledInv, Newest, Active
<1>6. JobInv'
  <2>1. \A f \in Files, v \in Nat : Newest(f, v) => Newest(f, v)'
    BY <1>1, WriteNowKeepsNewest
  <2>2. /\ 3 <= job.v /\ job.v <= sent'[job.file] /\ failed'[job.file] <= job.v
        /\ \A n \in Name : disk'[job.file][n].v <= job.v
    BY <1>1, <2>1 DEF Newest
  <2>3. QED
    BY <1>1, <1>2, <2>2 DEF JobInv, Newest, GoesOn, Active
<1>7. SentInv'
  <2>1. /\ \A f \in Files : 2 <= sent'[f]
        /\ \A f \in Files \ {job.file} :
              failed'[f] <= sent'[f] /\ \A n \in Name : disk'[f][n].v <= sent'[f]
    BY <1>1 DEF Inv, SentInv, OneFile
  <2>2. /\ sent[job.file] \in Nat /\ disk'[job.file] \in [Name -> Content]
        /\ failed'[job.file] \in Nat
    BY <1>1, <1>3, Types DEF OneFile, TypeOK, Version
  <2>3. \A n \in Name : disk'[job.file][n].v \in Nat
    BY <2>2, ContentParts
  <2>4. failed'[job.file] <= job.v /\ job.v <= sent[job.file] /\ \A n \in Name : disk'[job.file][n].v <= job.v
    BY <1>1, <2>2, <2>3 DEF Newest, OneFile
  <2>5. failed'[job.file] <= sent'[job.file] /\ \A n \in Name : disk'[job.file][n].v <= sent'[job.file]
    BY <1>1, <2>2, <2>3, <2>4
  <2>6. QED
    BY <2>1, <2>5 DEF SentInv
<1>8. WaitInv'
  BY <1>1, <1>2 DEF Inv, WaitInv, Waits
<1>9. LatestInv'
  <2> SUFFICES ASSUME NEW f \in Files
               PROVE  \/ failed'[f] = sent[f]
                      \/ \E k \in DOMAIN post : IsWrite(k) /\ post[k].file = f /\ post[k].v = sent[f]
                      \/ \E i \in DOMAIN scheduled : scheduled[i].file = f /\ scheduled[i].v = sent[f]
                      \/ job'.at \notin {"idle", "done"} /\ job.file = f /\ job.v = sent[f]
                      \/ Read(disk'[f]) = sent[f] /\ ~(job'.at \notin {"idle", "done"} /\ job.file = f)
    BY <1>1, <1>2 DEF LatestInv, IsWrite, Active
  <2>1. CASE job.file # f
    BY <1>1, <1>2, <2>1 DEF Inv, LatestInv, OneFile
  <2>2. CASE job.file = f /\ job.v = sent[f]
    BY <1>1, <1>2, <2>2 DEF GoesOn
  <2>3. CASE job.file = f /\ job.v # sent[f]
    <3>1. failed[f] # sent[f]
      BY <1>1, <2>3, Types DEF Newest
    <3>2. QED
      BY <1>1, <2>3, <3>1 DEF Inv, LatestInv
  <2>4. QED
    BY <2>1, <2>2, <2>3
<1>10. QED
  BY <1>3, <1>4, <1>5, <1>6, <1>7, <1>8, <1>9 DEF Inv

-----------------------------------------------------------------------------
(* The main thread keeps the invariant.                                    *)

LEMMA ReadsFileKeepsInv ==
  ASSUME Inv, NEW f \in Files, ReadsFile(f)
  PROVE  Inv'
<1>1. /\ TypeOK /\ main = "run" /\ ~Pending(f)
      /\ UNCHANGED <<main, sent, post, scheduled, job, failed, faults, crashes>>
      /\ disk' = [disk EXCEPT ![f] = AfterRead(disk[f])]
  BY DEF ReadsFile, threads, Inv
<1>2. /\ disk' \in [Files -> [Name -> Content]]
      /\ \A g \in Files : Read(disk'[g]) = Read(disk[g])
      /\ \A g \in Files : \A n \in Name : disk'[g][n].v <= disk[g][n].v
      /\ \A g \in Files \ {f} : disk'[g] = disk[g]
  <2>1. disk \in [Files -> [Name -> Content]]
    BY <1>1 DEF TypeOK
  <2>2. \A n \in Name : \A g \in Files : disk[g][n].v <= disk[g][n].v
    BY <1>1, Types
  <2>3. /\ AfterRead(disk[f]) \in [Name -> Content]
        /\ Read(AfterRead(disk[f])) = Read(disk[f])
        /\ \A n \in Name : AfterRead(disk[f])[n].v <= disk[f][n].v
    BY <2>1, AfterReadReads
  <2>4. disk'[f] = AfterRead(disk[f]) /\ \A g \in Files \ {f} : disk'[g] = disk[g]
    BY <1>1, <2>1
  <2>5. disk' \in [Files -> [Name -> Content]]
    BY <1>1, <2>1, <2>3
  <2>6. QED
    BY <2>2, <2>3, <2>4, <2>5
<1>3. TypeOK'
  BY <1>1, <1>2 DEF TypeOK
<1>4. \A g \in Files : \A n \in Name : disk'[g][n].v \in Nat /\ disk[g][n].v \in Nat
  <2>1. \A g \in Files : disk'[g] \in [Name -> Content] /\ disk[g] \in [Name -> Content]
    BY <1>1, <1>2, Types
  <2>2. QED
    BY <2>1, ContentParts
<1>5. \A g \in Files, v \in Nat : Newest(g, v) => Newest(g, v)'
  <2> SUFFICES ASSUME NEW g \in Files, NEW v \in Nat, Newest(g, v)
               PROVE  Newest(g, v)'
    OBVIOUS
  <2>1. \A n \in Name : disk'[g][n].v <= v
    BY <1>2, <1>4 DEF Newest
  <2>2. QED
    BY <1>1, <2>1 DEF Newest, Active
<1>6. PostInv'
  <2>1. \A k \in DOMAIN post : IsWrite(k) => Newest(post[k].file, post[k].v)'
    BY <1>1, <1>5, Types DEF Inv, PostInv
  <2>2. QED
    BY <1>1, <2>1 DEF Inv, PostInv, IsWrite, Newest, Active
<1>7. ScheduledInv'
  <2>1. \A i \in DOMAIN scheduled : Newest(scheduled[i].file, scheduled[i].v)'
    BY <1>1, <1>5, Types DEF Inv, ScheduledInv
  <2>2. QED
    BY <1>1, <2>1 DEF Inv, ScheduledInv, Newest, Active
<1>8. JobInv'
  <2> SUFFICES ASSUME Active
               PROVE  Newest(job.file, job.v)' /\ StageInv'
    BY <1>1 DEF JobInv, Active
  <2>1. job.file \in Files /\ job.v \in Nat /\ job.file # f
    BY <1>1, JobParts DEF Active, Pending, Idle
  <2>2. Newest(job.file, job.v)'
    <3>1. Newest(job.file, job.v)
      BY DEF Inv, JobInv
    <3>2. \A n \in Name : disk'[job.file][n].v <= job.v
      BY <1>2, <1>4, <2>1, <3>1 DEF Newest
    <3>3. QED
      BY <1>1, <3>1, <3>2 DEF Newest, Active
  <2>3. StageInv'
    BY <1>1, <1>2, <2>1 DEF Inv, JobInv, StageInv
  <2>4. QED
    BY <2>2, <2>3
<1>9. SentInv'
  <2> SUFFICES ASSUME NEW g \in Files, NEW n \in Name
               PROVE  disk'[g][n].v <= sent'[g]
    BY <1>1 DEF Inv, SentInv
  <2>1. disk[g][n].v <= sent[g] /\ sent[g] \in Nat
    BY <1>1, Types DEF Inv, SentInv
  <2>2. QED
    BY <1>1, <1>2, <1>4, <2>1
<1>10. WaitInv'
  BY <1>1 DEF Inv, WaitInv, Waits
<1>11. LatestInv'
  BY <1>1, <1>2 DEF Inv, LatestInv, IsWrite, Active
<1>12. QED
  BY <1>3, <1>6, <1>7, <1>8, <1>9, <1>10, <1>11 DEF Inv

(* What waits is the newest after the step. *)
NewestAfter(f, v) ==
    /\ 3 <= v /\ v <= sent'[f] /\ failed'[f] <= v
    /\ \A n \in Name : disk'[f][n].v <= v
    /\ Active' /\ job'.file = f => job'.v <= v

(* A task is posted behind the others. *)
LEMMA PostsLast ==
  ASSUME TypeOK, NEW t \in Task, Posts(t)
  PROVE  /\ post' \in Seq(Task) /\ DOMAIN post' = 1 .. (Len(post) + 1)
         /\ DOMAIN post = 1 .. Len(post) /\ Len(post) \in Nat /\ Len(post') = Len(post) + 1
         /\ \A k \in DOMAIN post : post'[k] = post[k]
         /\ post'[Len(post) + 1] = t
<1>1. post \in Seq(Task)
  BY DEF TypeOK
<1>2. QED
  BY <1>1, AppendProperties DEF Posts

LEMMA FinishesKeepsInv ==
  ASSUME Inv, NEW f \in Files, NEW what \in {"write", "sync"}, Finishes(f, what)
  PROVE  Inv'
<1> DEFINE t == [what |-> what, file |-> f, v |-> sent[f] + 1]
<1>1. /\ TypeOK /\ main = "run" /\ sent[f] \in Nat /\ sent[f] + 1 \in Version
      /\ main' = IF what = "sync" THEN "sync" ELSE "run"
      /\ UNCHANGED <<scheduled, job, disk, failed, faults, crashes>>
  BY Types, ConstantsAssumption DEF Finishes, Inv, Version
<1>2. /\ sent' \in [Files -> Version] /\ sent'[f] = sent[f] + 1
      /\ \A g \in Files \ {f} : sent'[g] = sent[g]
      /\ \A g \in Files : sent[g] \in Nat /\ sent'[g] \in Nat /\ sent[g] <= sent'[g]
  <2>1. sent \in [Files -> Version] /\ sent' = [sent EXCEPT ![f] = sent[f] + 1]
    BY <1>1 DEF Finishes, TypeOK
  <2>2. \A g \in Files : sent[g] \in Nat
    BY <1>1, Types
  <2>3. QED
    BY <1>1, <2>1, <2>2
<1>3. t \in Task /\ Posts(t)
  BY <1>1, <1>2 DEF Finishes, Task
<1>4. /\ post' \in Seq(Task) /\ DOMAIN post' = 1 .. (Len(post) + 1)
      /\ DOMAIN post = 1 .. Len(post) /\ Len(post) \in Nat /\ Len(post') = Len(post) + 1
      /\ \A k \in DOMAIN post : post'[k] = post[k]
      /\ post'[Len(post) + 1] = t
  BY <1>1, <1>3, PostsLast
<1>5. \A g \in Files, v \in Nat : Newest(g, v) => NewestAfter(g, v)
  BY <1>1, <1>2 DEF Newest, NewestAfter, Active
<1>6. Active => job.v \in Nat /\ job.file \in Files /\ Newest(job.file, job.v) /\ StageInv
  BY <1>1, JobParts DEF Inv, JobInv, Active, Idle
<1>7. NewestAfter(f, sent[f] + 1)
  <2>1. 2 <= sent[f] /\ failed[f] <= sent[f] /\ \A n \in Name : disk[f][n].v <= sent[f]
    BY DEF Inv, SentInv
  <2>2. Active /\ job.file = f => job.v <= sent[f]
    BY <1>6 DEF Newest
  <2>3. failed[f] \in Nat /\ \A n \in Name : disk[f][n].v \in Nat
    BY <1>1, Types
  <2>4. failed[f] <= sent[f] + 1 /\ \A n \in Name : disk[f][n].v <= sent[f] + 1
    BY <1>1, <2>1, <2>3
  <2>5. QED
    BY <1>1, <1>2, <1>6, <2>1, <2>2, <2>4 DEF Newest, NewestAfter, Active
<1>8. \A k \in DOMAIN post : post[k].what \notin {"sync", "all"}
  BY <1>1 DEF Inv, WaitInv, Waits
<1>9. job = Idle \/ job.then = "scheduled"
  BY <1>1 DEF Inv, WaitInv, Waits
<1>10. TypeOK'
  <2>1. main' = "sync" => \E k \in DOMAIN post' : post'[k].what \in {"sync", "all"}
    BY <1>1, <1>4
  <2>2. QED
    BY <1>1, <1>2, <1>4, <2>1 DEF TypeOK
<1>11. \A k \in DOMAIN post : IsWrite(k) =>
          /\ post[k].file \in Files /\ post[k].v \in Nat
          /\ post[k].file = f => post[k].v <= sent[f] + 1
  BY <1>1, Types, SMTT(30) DEF Inv, PostInv, Newest
<1>12. PostInv'
  <2> SUFFICES ASSUME NEW k \in DOMAIN post', IsWrite(k)'
               PROVE  /\ NewestAfter(post'[k].file, post'[k].v)
                      /\ \A i \in 1..k : IsWrite(i)' /\ post'[i].file = post'[k].file => post'[i].v <= post'[k].v
                      /\ \A i \in DOMAIN scheduled :
                            scheduled[i].file = post'[k].file => scheduled[i].v <= post'[k].v
    BY <1>1 DEF PostInv, Newest, NewestAfter, Active
  <2>1. CASE k \in DOMAIN post
    <3>1. \A i \in 1..k : i \in DOMAIN post
      BY <1>4, <2>1
    <3>2. IsWrite(k) /\ \A i \in 1..k : IsWrite(i)' = IsWrite(i) /\ post'[i] = post[i]
      BY <1>4, <2>1, <3>1 DEF IsWrite
    <3>3. QED
      BY <1>4, <1>5, <1>11, <2>1, <3>2 DEF Inv, PostInv
  <2>2. CASE k = Len(post) + 1
    <3>1. post'[k] = t
      BY <1>4, <2>2
    <3>2. \A i \in 1..k : i = k \/ i \in DOMAIN post
      BY <1>4, <2>2
    <3>3. \A i \in 1..k : IsWrite(i)' /\ post'[i].file = f => post'[i].v <= sent[f] + 1
      BY <1>1, <1>4, <1>11, <3>1, <3>2, SMTT(30) DEF IsWrite
    <3>4. \A i \in DOMAIN scheduled : scheduled[i].file = f => scheduled[i].v <= sent[f] + 1
      BY <1>1, Types DEF Inv, ScheduledInv, Newest
    <3>5. QED
      BY <1>7, <3>1, <3>3, <3>4
  <2>3. QED
    BY <1>4, <2>1, <2>2
<1>13. ScheduledInv'
  <2>1. \A i \in DOMAIN scheduled : NewestAfter(scheduled[i].file, scheduled[i].v)
    BY <1>1, <1>5, Types DEF Inv, ScheduledInv
  <2>2. QED
    BY <1>1, <2>1 DEF Inv, ScheduledInv, Newest, NewestAfter, Active
<1>14. JobInv'
  <2>1. Active => NewestAfter(job.file, job.v)
    BY <1>5, <1>6
  <2>2. QED
    BY <1>1, <1>6, <2>1 DEF JobInv, StageInv, Active, Newest, NewestAfter
<1>15. SentInv'
  <2> SUFFICES ASSUME NEW g \in Files
               PROVE  /\ 2 <= sent'[g] /\ failed[g] <= sent'[g]
                      /\ \A n \in Name : disk[g][n].v <= sent'[g]
    BY <1>1 DEF SentInv
  <2>1. failed[g] \in Nat /\ \A n \in Name : disk[g][n].v \in Nat
    BY <1>1, Types
  <2>2. QED
    BY <1>2, <2>1 DEF Inv, SentInv
<1>16. WaitInv'
  <2>1. \A k \in DOMAIN post' : post'[k].what \in {"sync", "all"} =>
           k = Len(post) + 1 /\ what = "sync" /\ post'[k] = t
    BY <1>4, <1>8
  <2>2. \A j \in (Len(post) + 2) .. Len(post') : FALSE
    BY <1>4
  <2>3. QED
    BY <1>1, <1>2, <1>4, <1>9, <2>1, <2>2 DEF WaitInv, Waits
<1>17. LatestInv'
  <2> SUFFICES ASSUME NEW g \in Files
               PROVE  \/ failed[g] = sent'[g]
                      \/ \E k \in DOMAIN post' : IsWrite(k)' /\ post'[k].file = g /\ post'[k].v = sent'[g]
                      \/ \E i \in DOMAIN scheduled : scheduled[i].file = g /\ scheduled[i].v = sent'[g]
                      \/ Active /\ job.file = g /\ job.v = sent'[g]
                      \/ Read(disk[g]) = sent'[g] /\ ~(Active /\ job.file = g)
    BY <1>1 DEF LatestInv, Active
  <2>1. CASE g = f
    BY <1>2, <1>4, <2>1 DEF IsWrite
  <2>2. CASE g # f
    <3>1. sent'[g] = sent[g]
      BY <1>2, <2>2
    <3>2. \A k \in DOMAIN post : k \in DOMAIN post' /\ post'[k] = post[k] /\ (IsWrite(k) => IsWrite(k)')
      BY <1>4 DEF IsWrite
    <3>3. QED
      BY <3>1, <3>2 DEF Inv, LatestInv
  <2>3. QED
    BY <2>1, <2>2
<1>18. QED
  BY <1>10, <1>12, <1>13, <1>14, <1>15, <1>16, <1>17 DEF Inv

LEMMA SyncsKeepsInv ==
  ASSUME Inv, NEW how \in {"all", "stop"}, Syncs(how)
  PROVE  Inv'
<1> DEFINE t == [what |-> "all"]
<1>1. /\ TypeOK /\ main = "run" /\ main' = how /\ Posts(t) /\ t \in Task
      /\ UNCHANGED <<sent, scheduled, job, disk, failed, faults, crashes>>
  BY DEF Syncs, Inv, Task
<1>2. /\ post' \in Seq(Task) /\ DOMAIN post' = 1 .. (Len(post) + 1)
      /\ DOMAIN post = 1 .. Len(post) /\ Len(post) \in Nat /\ Len(post') = Len(post) + 1
      /\ \A k \in DOMAIN post : post'[k] = post[k]
      /\ post'[Len(post) + 1] = t
  BY <1>1, PostsLast
<1>3. TypeOK'
  <2>1. \E k \in DOMAIN post' : post'[k].what \in {"sync", "all"}
    BY <1>2
  <2>2. QED
    BY <1>1, <1>2, <2>1 DEF TypeOK
<1>4. PostInv'
  <2> SUFFICES ASSUME NEW k \in DOMAIN post', IsWrite(k)'
               PROVE  /\ NewestAfter(post'[k].file, post'[k].v)
                      /\ \A i \in 1..k : IsWrite(i)' /\ post'[i].file = post'[k].file => post'[i].v <= post'[k].v
                      /\ \A i \in DOMAIN scheduled :
                            scheduled[i].file = post'[k].file => scheduled[i].v <= post'[k].v
    BY <1>1 DEF PostInv, Newest, NewestAfter, Active
  <2>1. k \in DOMAIN post
    BY <1>2 DEF IsWrite
  <2>2. \A i \in 1..k : i \in DOMAIN post /\ post'[i] = post[i] /\ IsWrite(i)' = IsWrite(i)
    BY <1>2, <2>1 DEF IsWrite
  <2>3. post'[k] = post[k] /\ IsWrite(k)
    BY <1>2, <2>1 DEF IsWrite
  <2>4. NewestAfter(post[k].file, post[k].v)
    BY <1>1, <2>1, <2>3 DEF Inv, PostInv, Newest, NewestAfter, Active
  <2>5. QED
    BY <2>1, <2>2, <2>3, <2>4 DEF Inv, PostInv
<1>5. ScheduledInv' /\ JobInv' /\ SentInv'
  BY <1>1 DEF Inv, ScheduledInv, JobInv, SentInv, StageInv, Newest, NewestAfter, Active
<1>6. WaitInv'
  <2>1. \A k \in DOMAIN post : post[k].what \notin {"sync", "all"}
    BY <1>1 DEF Inv, WaitInv, Waits
  <2>2. \A k \in DOMAIN post' : post'[k].what \in {"sync", "all"} =>
           k = Len(post) + 1 /\ post'[k] = t
    BY <1>2, <2>1
  <2>3. \A j \in (Len(post) + 2) .. Len(post') : FALSE
    BY <1>2
  <2>4. job = Idle \/ job.then = "scheduled"
    BY <1>1 DEF Inv, WaitInv, Waits
  <2>5. QED
    BY <1>1, <1>2, <2>2, <2>3, <2>4 DEF WaitInv, Waits
<1>7. LatestInv'
  <2>1. \A k \in DOMAIN post : k \in DOMAIN post' /\ post'[k] = post[k] /\ (IsWrite(k) => IsWrite(k)')
    BY <1>2 DEF IsWrite
  <2>2. QED
    BY <1>1, <2>1 DEF Inv, LatestInv, Active
<1>8. QED
  BY <1>3, <1>4, <1>5, <1>6, <1>7 DEF Inv

-----------------------------------------------------------------------------
(* What the manager's thread does with its two lists.                      *)

(* The first task is done, and another look at what is scheduled may be    *)
(* posted for it.                                                          *)
Shifts ==
    /\ post' \in Seq(Task) /\ Len(post') \in Nat /\ DOMAIN post' = 1 .. Len(post')
    /\ \A k \in DOMAIN post' :
          \/ post'[k] = [what |-> "scheduled"]
          \/ k + 1 \in DOMAIN post /\ post'[k] = post[k + 1]
    /\ \A k \in DOMAIN post \ {1} : k - 1 \in DOMAIN post' /\ post'[k - 1] = post[k]

LEMMA TailShifts ==
  ASSUME post \in Seq(Task), post # <<>>,
         post' = Tail(post) \/ post' = Append(Tail(post), [what |-> "scheduled"])
  PROVE  Shifts
<1> DEFINE rest == Tail(post)
           look == [what |-> "scheduled"]
<1>1. Len(post) \in Nat /\ DOMAIN post = 1 .. Len(post)
  OBVIOUS
<1>2. /\ rest \in Seq(Task) /\ Len(rest) = Len(post) - 1
      /\ \A k \in 1 .. Len(rest) : rest[k] = post[k + 1]
  BY HeadTailProperties
<1>3. look \in Task
  BY DEF Task
<1> HIDE DEF rest, look
<1>4. Len(rest) \in Nat /\ DOMAIN rest = 1 .. Len(rest) /\ Len(post) = Len(rest) + 1
  BY <1>1, <1>2
<1>5. \A k \in DOMAIN post \ {1} : k - 1 \in DOMAIN rest /\ rest[k - 1] = post[k]
  BY <1>1, <1>2, <1>4
<1>6. \A k \in DOMAIN rest : k + 1 \in DOMAIN post /\ rest[k] = post[k + 1]
  BY <1>1, <1>2, <1>4
<1>7. CASE post' = rest
  BY <1>2, <1>4, <1>5, <1>6, <1>7 DEF Shifts
<1>8. CASE post' = Append(rest, look)
  <2> DEFINE more == Append(rest, look)
  <2>1. /\ more \in Seq(Task) /\ Len(more) = Len(rest) + 1
        /\ \A k \in 1 .. Len(rest) : more[k] = rest[k]
        /\ more[Len(rest) + 1] = look
    BY <1>2, <1>3, AppendProperties
  <2>2. post' = more
    BY <1>8
  <2> HIDE DEF more
  <2>3. Len(more) \in Nat /\ DOMAIN more = 1 .. (Len(rest) + 1)
    BY <2>1
  <2>4. \A k \in DOMAIN more : more[k] = look \/ (k + 1 \in DOMAIN post /\ more[k] = post[k + 1])
    BY <1>4, <1>6, <2>1, <2>3
  <2>5. \A k \in DOMAIN post \ {1} : k - 1 \in DOMAIN more /\ more[k - 1] = post[k]
    BY <1>4, <1>5, <2>1, <2>3
  <2>6. QED
    BY <2>1, <2>2, <2>3, <2>4, <2>5 DEF Shifts, look
<1>9. QED
  BY <1>7, <1>8 DEF rest, look

LEMMA TakesParts ==
  ASSUME TypeOK, NEW what, Takes(what)
  PROVE  /\ job = Idle /\ ~Active /\ main \notin {"stopped", "down"}
         /\ 1 \in DOMAIN post /\ Head(post) = post[1] /\ post[1].what = what /\ post[1] \in Task
         /\ UNCHANGED <<main, sent, disk, failed, faults, crashes>>
         /\ post' = Tail(post) \/ post' = Append(Tail(post), [what |-> "scheduled"]) => Shifts
<1>1. /\ job = Idle /\ ~Active /\ main \notin {"stopped", "down"}
      /\ UNCHANGED <<main, sent, disk, failed, faults, crashes>>
  BY JobParts DEF Takes, Active
<1>2. post \in Seq(Task) /\ post # <<>> /\ Len(post) \in Nat /\ DOMAIN post = 1 .. Len(post)
  BY DEF Takes, TypeOK
<1>3. 1 \in DOMAIN post /\ Head(post) = post[1] /\ post[1].what = what /\ post[1] \in Task
  BY <1>2 DEF Takes
<1>4. ASSUME post' = Tail(post) PROVE Shifts
  BY <1>2, <1>4, TailShifts
<1>5. ASSUME post' = Append(Tail(post), [what |-> "scheduled"]) PROVE Shifts
  BY <1>2, <1>5, TailShifts
<1>6. QED
  BY <1>1, <1>3, <1>4, <1>5

(* No file is scheduled twice: the first entry of it is the only one.      *)
LEMMA PlaceIsTheOnly ==
  ASSUME TypeOK, NEW f
  PROVE  Place(f) = {k \in DOMAIN scheduled : scheduled[k].file = f}
<1>1. DOMAIN scheduled = 1 .. Len(scheduled) /\ Len(scheduled) \in Nat
  BY Types
<1>2. \A i, j \in DOMAIN scheduled : scheduled[i].file = scheduled[j].file => i = j
  BY DEF TypeOK
<1>3. ASSUME NEW k \in DOMAIN scheduled, scheduled[k].file = f, NEW i \in 1 .. (k - 1)
      PROVE  scheduled[i].file # f
  <2>1. i \in DOMAIN scheduled /\ i # k
    BY <1>1
  <2>2. QED
    BY <1>2, <1>3, <2>1
<1>4. QED
  BY <1>3 DEF Place

LEMMA CoalescesParts ==
  ASSUME TypeOK, NEW e \in Entry, Coalesces(e)
  PROVE  /\ scheduled' \in Seq(Entry)
         /\ \A i \in DOMAIN scheduled' :
               \/ scheduled'[i] = e
               \/ i \in DOMAIN scheduled /\ scheduled'[i] = scheduled[i] /\ scheduled[i].file # e.file
         /\ \E i \in DOMAIN scheduled' : scheduled'[i] = e
         /\ \A i \in DOMAIN scheduled :
               scheduled[i].file # e.file => i \in DOMAIN scheduled' /\ scheduled'[i] = scheduled[i]
         /\ \A i, j \in DOMAIN scheduled' : scheduled'[i].file = scheduled'[j].file => i = j
<1>1. scheduled \in Seq(Entry) /\ Len(scheduled) \in Nat /\ DOMAIN scheduled = 1 .. Len(scheduled)
  BY Types DEF TypeOK
<1>2. \A i, j \in DOMAIN scheduled : scheduled[i].file = scheduled[j].file => i = j
  BY DEF TypeOK
<1>3. CASE Place(e.file) = {} /\ scheduled' = Append(scheduled, e)
  <2>1. \A i \in DOMAIN scheduled : scheduled[i].file # e.file
    BY <1>3, PlaceIsTheOnly
  <2>2. /\ scheduled' \in Seq(Entry) /\ DOMAIN scheduled' = 1 .. (Len(scheduled) + 1)
        /\ \A i \in DOMAIN scheduled : scheduled'[i] = scheduled[i]
        /\ scheduled'[Len(scheduled) + 1] = e
    BY <1>1, <1>3, AppendProperties
  <2>3. \A i \in DOMAIN scheduled' : i = Len(scheduled) + 1 \/ i \in DOMAIN scheduled
    BY <1>1, <2>2
  <2>4. Len(scheduled) + 1 \in DOMAIN scheduled' /\ \A i \in DOMAIN scheduled : i \in DOMAIN scheduled'
    BY <1>1, <2>2
  <2>5. QED
    BY <1>2, <2>1, <2>2, <2>3, <2>4
<1>4. CASE \E k \in Place(e.file) : scheduled' = [scheduled EXCEPT ![k] = e]
  <2>1. PICK k \in DOMAIN scheduled : scheduled[k].file = e.file /\ scheduled' = [scheduled EXCEPT ![k] = e]
    BY <1>4, PlaceIsTheOnly
  <2>2. /\ scheduled' \in Seq(Entry) /\ DOMAIN scheduled' = DOMAIN scheduled
        /\ scheduled'[k] = e /\ \A i \in DOMAIN scheduled \ {k} : scheduled'[i] = scheduled[i]
    BY <1>1, <2>1
  <2>3. \A i \in DOMAIN scheduled \ {k} : scheduled[i].file # e.file
    BY <1>2, <2>1
  <2>4. QED
    BY <1>2, <2>1, <2>2, <2>3
<1>5. QED
  BY <1>3, <1>4 DEF Coalesces

(* All that is scheduled but for f stays.                                  *)
Drops(f) ==
    /\ scheduled' \in Seq(Entry)
    /\ \A i \in DOMAIN scheduled' :
          scheduled'[i].file # f /\ \E j \in DOMAIN scheduled : scheduled'[i] = scheduled[j]
    /\ \A j \in DOMAIN scheduled :
          scheduled[j].file # f => \E i \in DOMAIN scheduled' : scheduled'[i] = scheduled[j]
    /\ \A i, j \in DOMAIN scheduled' : scheduled'[i].file = scheduled'[j].file => i = j

LEMMA RemoveAtDrops ==
  ASSUME TypeOK, NEW k \in DOMAIN scheduled, NEW s \in Seq(Entry), scheduled' = s,
         Len(s) = Len(scheduled) - 1,
         \A i \in 1 .. Len(s) : s[i] = scheduled[IF i < k THEN i ELSE i + 1]
  PROVE  Drops(scheduled[k].file)
<1>1. scheduled \in Seq(Entry) /\ Len(scheduled) \in Nat /\ DOMAIN scheduled = 1 .. Len(scheduled)
  BY Types DEF TypeOK
<1>2. \A i, j \in DOMAIN scheduled : scheduled[i].file = scheduled[j].file => i = j
  BY DEF TypeOK
<1>3. DOMAIN s = 1 .. (Len(scheduled) - 1)
  OBVIOUS
<1> DEFINE from(i) == IF i < k THEN i ELSE i + 1
<1>4. \A i \in DOMAIN s : from(i) \in DOMAIN scheduled \ {k} /\ s[i] = scheduled[from(i)]
  BY <1>1, <1>3, SMTT(30)
<1>5. \A i, j \in DOMAIN s : from(i) = from(j) => i = j
  BY <1>1, <1>3
<1>6. \A j \in DOMAIN scheduled \ {k} : \E i \in DOMAIN s : from(i) = j
  <2> SUFFICES ASSUME NEW j \in DOMAIN scheduled \ {k}
               PROVE  \E i \in DOMAIN s : from(i) = j
    OBVIOUS
  <2>1. CASE j < k
    BY <1>1, <1>3, <2>1
  <2>2. CASE j > k
    <3>1. j - 1 \in DOMAIN s /\ from(j - 1) = j
      BY <1>1, <1>3, <2>2
    <3>2. QED
      BY <3>1
  <2>3. QED
    BY <1>1, <2>1, <2>2
<1> HIDE DEF from
<1>7. QED
  BY <1>2, <1>4, <1>5, <1>6, SMTT(30) DEF Drops

LEMMA ErasesDrops ==
  ASSUME TypeOK, NEW f, Erases(f)
  PROVE  Drops(f)
<1>1. scheduled \in Seq(Entry) /\ Len(scheduled) \in Nat /\ DOMAIN scheduled = 1 .. Len(scheduled)
  BY Types DEF TypeOK
<1>2. CASE Place(f) = {} /\ UNCHANGED scheduled
  <2>1. \A i \in DOMAIN scheduled : scheduled[i].file # f
    BY <1>2, PlaceIsTheOnly
  <2>2. QED
    BY <1>1, <1>2, <2>1 DEF Drops, TypeOK
<1>3. CASE \E k \in Place(f) : scheduled' = RemoveAt(scheduled, k)
  <2>1. PICK k \in DOMAIN scheduled : scheduled[k].file = f /\ scheduled' = RemoveAt(scheduled, k)
    BY <1>3, PlaceIsTheOnly
  <2> DEFINE n == Len(scheduled)
             before == SubSeq(scheduled, 1, k - 1)
             after == SubSeq(scheduled, k + 1, n)
  <2>2. /\ before \in Seq(Entry) /\ Len(before) = k - 1
        /\ \A i \in 1 .. (k - 1) : before[i] = scheduled[i]
    BY <1>1
  <2>3. /\ after \in Seq(Entry) /\ Len(after) = n - k
        /\ \A i \in 1 .. (n - k) : after[i] = scheduled[i + k]
    BY <1>1, SMTT(30)
  <2>4. scheduled' = before \o after
    BY <2>1 DEF RemoveAt
  <2> HIDE DEF before, after
  <2>5. /\ scheduled' \in Seq(Entry) /\ Len(scheduled') = n - 1
        /\ \A i \in 1 .. (n - 1) :
              scheduled'[i] = IF i <= k - 1 THEN before[i] ELSE after[i - (k - 1)]
    <3>1. /\ before \o after \in Seq(Entry) /\ Len(before \o after) = Len(before) + Len(after)
          /\ \A i \in 1 .. (Len(before) + Len(after)) :
                (before \o after)[i] = IF i <= Len(before) THEN before[i] ELSE after[i - Len(before)]
      BY <2>2, <2>3, ConcatProperties
    <3>2. Len(before) + Len(after) = n - 1
      BY <1>1, <2>2, <2>3
    <3>3. QED
      BY <2>2, <2>4, <3>1, <3>2
  <2>6. \A i \in 1 .. (n - 1) : scheduled'[i] = scheduled[IF i < k THEN i ELSE i + 1]
    <3>1. k \in 1 .. n /\ n \in Nat
      BY <1>1, <2>1
    <3>2. \A i \in 1 .. (n - 1) : i < k => scheduled'[i] = scheduled[i]
      BY <2>2, <2>5, <3>1
    <3>3. \A i \in 1 .. (n - 1) : ~(i < k) => scheduled'[i] = scheduled[i + 1]
      <4> SUFFICES ASSUME NEW i \in 1 .. (n - 1), ~(i < k)
                   PROVE  scheduled'[i] = scheduled[i + 1]
        OBVIOUS
      <4>1. i - (k - 1) \in 1 .. (n - k) /\ (i - (k - 1)) + k = i + 1 /\ ~(i <= k - 1)
        BY <3>1
      <4>2. scheduled'[i] = after[i - (k - 1)]
        BY <2>5, <4>1
      <4>3. after[i - (k - 1)] = scheduled[(i - (k - 1)) + k]
        BY <2>3, <4>1, SMTT(30)
      <4>4. QED
        BY <4>1, <4>2, <4>3
    <3>4. QED
      BY <3>2, <3>3
  <2>7. QED
    BY <2>1, <2>5, <2>6, RemoveAtDrops
<1>4. QED
  BY <1>2, <1>3 DEF Erases

LEMMA TailDrops ==
  ASSUME TypeOK, scheduled # <<>>, scheduled' = Tail(scheduled)
  PROVE  /\ 1 \in DOMAIN scheduled /\ Head(scheduled) = scheduled[1] /\ scheduled[1] \in Entry
         /\ Drops(scheduled[1].file)
<1>1. scheduled \in Seq(Entry) /\ Len(scheduled) \in Nat /\ DOMAIN scheduled = 1 .. Len(scheduled)
  BY Types DEF TypeOK
<1>2. 1 \in DOMAIN scheduled /\ Head(scheduled) = scheduled[1] /\ scheduled[1] \in Entry
  BY <1>1
<1>3. /\ Tail(scheduled) \in Seq(Entry) /\ Len(Tail(scheduled)) = Len(scheduled) - 1
      /\ \A i \in 1 .. Len(Tail(scheduled)) : Tail(scheduled)[i] = scheduled[i + 1]
  BY <1>1, HeadTailProperties
<1> DEFINE s == Tail(scheduled)
<1>4. s \in Seq(Entry) /\ scheduled' = s /\ Len(s) = Len(scheduled) - 1
  BY <1>3
<1>5. \A i \in 1 .. Len(s) : s[i] = scheduled[IF i < 1 THEN i ELSE i + 1]
  BY <1>1, <1>3
<1> HIDE DEF s
<1>6. Drops(scheduled[1].file)
  BY <1>2, <1>4, <1>5, RemoveAtDrops
<1>7. QED
  BY <1>2, <1>6

(* What was posted behind the first task stays in order, after a step that *)
(* schedules nothing else than that task.                                  *)
LEMMA ShiftsKeepsPost ==
  ASSUME Inv, 1 \in DOMAIN post, Shifts,
         \A k \in DOMAIN post \ {1} : IsWrite(k) => NewestAfter(post[k].file, post[k].v),
         \A i \in DOMAIN scheduled' :
            \/ \E j \in DOMAIN scheduled : scheduled'[i] = scheduled[j]
            \/ IsWrite(1) /\ scheduled'[i].file = post[1].file /\ scheduled'[i].v = post[1].v
  PROVE  PostInv'
<1> SUFFICES ASSUME NEW k \in DOMAIN post', IsWrite(k)'
             PROVE  /\ NewestAfter(post'[k].file, post'[k].v)
                    /\ \A i \in 1..k : IsWrite(i)' /\ post'[i].file = post'[k].file => post'[i].v <= post'[k].v
                    /\ \A i \in DOMAIN scheduled' :
                          scheduled'[i].file = post'[k].file => scheduled'[i].v <= post'[k].v
  BY DEF PostInv, Newest, NewestAfter, Active
<1>1. DOMAIN post = 1 .. Len(post) /\ Len(post) \in Nat /\ DOMAIN post' = 1 .. Len(post') /\ Len(post') \in Nat
  BY Types DEF Inv, Shifts
<1>2. \A i \in DOMAIN post' : IsWrite(i)' => i + 1 \in DOMAIN post /\ IsWrite(i + 1) /\ post'[i] = post[i + 1]
  BY DEF Shifts, IsWrite
<1>3. /\ k + 1 \in DOMAIN post \ {1} /\ IsWrite(k + 1) /\ post'[k] = post[k + 1]
      /\ \A i \in 1..k : i \in DOMAIN post' /\ i + 1 \in 1 .. (k + 1)
      /\ 1 \in 1 .. (k + 1)
  BY <1>1, <1>2
<1>4. /\ \A i \in 1 .. (k + 1) : IsWrite(i) /\ post[i].file = post[k + 1].file => post[i].v <= post[k + 1].v
      /\ \A j \in DOMAIN scheduled : scheduled[j].file = post[k + 1].file => scheduled[j].v <= post[k + 1].v
  BY <1>3 DEF Inv, PostInv
<1>5. NewestAfter(post'[k].file, post'[k].v)
  BY <1>3
<1>6. \A i \in 1..k : IsWrite(i)' /\ post'[i].file = post'[k].file => post'[i].v <= post'[k].v
  BY <1>2, <1>3, <1>4
<1>7. \A i \in DOMAIN scheduled' : scheduled'[i].file = post'[k].file => scheduled'[i].v <= post'[k].v
  BY <1>3, <1>4
<1>8. QED
  BY <1>5, <1>6, <1>7

(* What the main thread waits for is in its place, too.                    *)
LEMMA ShiftsKeepsWait ==
  ASSUME Inv, Shifts, main' = main, sent' = sent
  PROVE  \A k \in DOMAIN post' : post'[k].what \in {"sync", "all"} =>
            /\ Waits' /\ (post'[k].what = "sync" <=> main' = "sync")
            /\ \A j \in (k + 1) .. Len(post') : post'[j].what = "scheduled"
            /\ post'[k].what = "sync" => post'[k].v = sent'[post'[k].file]
            /\ post[k + 1].what = post'[k].what /\ k + 1 \in DOMAIN post
<1> SUFFICES ASSUME NEW k \in DOMAIN post', post'[k].what \in {"sync", "all"}
             PROVE  /\ Waits' /\ (post'[k].what = "sync" <=> main' = "sync")
                    /\ \A j \in (k + 1) .. Len(post') : post'[j].what = "scheduled"
                    /\ post'[k].what = "sync" => post'[k].v = sent'[post'[k].file]
                    /\ post[k + 1].what = post'[k].what /\ k + 1 \in DOMAIN post
  OBVIOUS
<1>1. DOMAIN post = 1 .. Len(post) /\ Len(post) \in Nat /\ DOMAIN post' = 1 .. Len(post') /\ Len(post') \in Nat
  BY Types DEF Inv, Shifts
<1>2. k + 1 \in DOMAIN post /\ post'[k] = post[k + 1]
  BY DEF Shifts
<1>3. /\ Waits /\ (post[k + 1].what = "sync" <=> main = "sync")
      /\ \A j \in (k + 2) .. Len(post) : post[j].what = "scheduled"
      /\ post[k + 1].what = "sync" => post[k + 1].v = sent[post[k + 1].file]
  BY <1>1, <1>2 DEF Inv, WaitInv
<1>4. \A j \in (k + 1) .. Len(post') : post'[j].what = "scheduled"
  <2> SUFFICES ASSUME NEW j \in (k + 1) .. Len(post')
               PROVE  post'[j].what = "scheduled"
    OBVIOUS
  <2>1. j \in DOMAIN post' /\ j + 1 \in Nat
    BY <1>1
  <2>2. CASE j + 1 \in DOMAIN post /\ post'[j] = post[j + 1]
    BY <1>1, <1>3, <2>2
  <2>3. QED
    BY <2>1, <2>2 DEF Shifts
<1>5. QED
  BY <1>2, <1>3, <1>4 DEF Waits

LEMMA ShiftsCarries ==
  ASSUME Shifts, NEW f, NEW v, NEW k \in DOMAIN post \ {1},
         IsWrite(k), post[k].file = f, post[k].v = v
  PROVE  \E i \in DOMAIN post' : IsWrite(i)' /\ post'[i].file = f /\ post'[i].v = v
<1>1. k - 1 \in DOMAIN post' /\ post'[k - 1] = post[k]
  BY DEF Shifts
<1>2. QED
  BY <1>1 DEF IsWrite

(* Writing begins of the newest that was scheduled, or posted, of a file.  *)
Starting(e) ==
    /\ ~Active /\ e.file \in Files /\ e.v \in Version /\ Newest(e.file, e.v)
    /\ job' \in Job /\ job'.file = e.file /\ job'.v = e.v /\ job'.at = "save"
    /\ Drops(e.file)
    /\ UNCHANGED <<sent, disk, failed>>

LEMMA BeginsParts ==
  ASSUME NEW e, e.file \in Files, e.v \in Version,
         NEW then \in {"scheduled", "sync", "all"}, Begins(e, then)
  PROVE  /\ job' \in Job /\ job'.file = e.file /\ job'.v = e.v /\ job'.at = "save" /\ job'.then = then
         /\ job' # Idle
  BY DEF Begins, Job, Idle

LEMMA StartingKeeps ==
  ASSUME Inv, NEW e, Starting(e)
  PROVE  /\ \A g \in Files, v \in Nat : Newest(g, v) /\ (g = e.file => e.v <= v) => NewestAfter(g, v)
         /\ ScheduledInv' /\ JobInv' /\ SentInv'
<1>1. /\ e.file \in Files /\ e.v \in Nat /\ Newest(e.file, e.v) /\ ~Active
      /\ job' \in Job /\ job'.file = e.file /\ job'.v = e.v /\ job'.at = "save"
      /\ Drops(e.file) /\ UNCHANGED <<sent, disk, failed>>
  BY ConstantsAssumption DEF Starting, Version
<1>2. \A g \in Files, v \in Nat : Newest(g, v) /\ (g = e.file => e.v <= v) => NewestAfter(g, v)
  BY <1>1 DEF Newest, NewestAfter, Active
<1>3. ScheduledInv'
  <2>1. \A i \in DOMAIN scheduled' : NewestAfter(scheduled'[i].file, scheduled'[i].v)
    <3> SUFFICES ASSUME NEW i \in DOMAIN scheduled'
                 PROVE  NewestAfter(scheduled'[i].file, scheduled'[i].v)
      OBVIOUS
    <3>1. PICK j \in DOMAIN scheduled : scheduled'[i] = scheduled[j]
      BY <1>1 DEF Drops
    <3>2. scheduled[j].file \in Files /\ scheduled[j].v \in Nat
      BY Types DEF Inv
    <3>3. Newest(scheduled[j].file, scheduled[j].v) /\ scheduled[j].file # e.file
      BY <1>1, <3>1 DEF Inv, ScheduledInv, Drops
    <3>4. QED
      BY <1>2, <3>1, <3>2, <3>3
  <2>2. QED
    BY <1>1, <2>1 DEF ScheduledInv, Newest, NewestAfter, Active, Drops
<1>4. JobInv'
  <2>1. NewestAfter(e.file, e.v)
    BY <1>1, <1>2
  <2>2. QED
    BY <1>1, <2>1 DEF JobInv, StageInv, Newest, NewestAfter, Active
<1>5. SentInv'
  BY <1>1 DEF Inv, SentInv
<1>6. QED
  BY <1>2, <1>3, <1>4, <1>5

LEMMA StartingKeepsLatest ==
  ASSUME Inv, NEW e, Starting(e),
         \A k \in DOMAIN post : IsWrite(k) =>
            \/ post[k].file = e.file /\ post[k].v <= e.v
            \/ \E i \in DOMAIN post' : IsWrite(i)' /\ post'[i].file = post[k].file /\ post'[i].v = post[k].v,
         \A j \in DOMAIN scheduled : scheduled[j].file = e.file => scheduled[j].v <= e.v
  PROVE  LatestInv'
<1>1. /\ e.file \in Files /\ e.v \in Nat /\ Newest(e.file, e.v) /\ ~Active
      /\ job' \in Job /\ job'.file = e.file /\ job'.v = e.v /\ Active'
      /\ Drops(e.file) /\ UNCHANGED <<sent, disk, failed>>
  BY ConstantsAssumption DEF Starting, Version, Active
<1> SUFFICES ASSUME NEW f \in Files
             PROVE  \/ failed[f] = sent[f]
                    \/ \E k \in DOMAIN post' : IsWrite(k)' /\ post'[k].file = f /\ post'[k].v = sent[f]
                    \/ \E i \in DOMAIN scheduled' : scheduled'[i].file = f /\ scheduled'[i].v = sent[f]
                    \/ e.file = f /\ e.v = sent[f]
                    \/ Read(disk[f]) = sent[f] /\ e.file # f
  BY <1>1 DEF LatestInv
<1>2. sent[f] \in Nat /\ disk[f] \in [Name -> Content]
  BY Types DEF Inv
<1>3. e.file = f => e.v <= sent[f]
  BY <1>1 DEF Newest
<1>4. CASE failed[f] = sent[f]
  BY <1>4
<1>5. CASE \E k \in DOMAIN post : IsWrite(k) /\ post[k].file = f /\ post[k].v = sent[f]
  BY <1>1, <1>2, <1>3, <1>5
<1>6. CASE \E j \in DOMAIN scheduled : scheduled[j].file = f /\ scheduled[j].v = sent[f]
  <2>1. PICK j \in DOMAIN scheduled : scheduled[j].file = f /\ scheduled[j].v = sent[f]
    BY <1>6
  <2>2. CASE e.file = f
    BY <1>1, <1>2, <1>3, <2>1, <2>2
  <2>3. CASE e.file # f
    BY <1>1, <2>1, <2>3 DEF Drops
  <2>4. QED
    BY <2>2, <2>3
<1>7. CASE Read(disk[f]) = sent[f]
  <2>1. CASE e.file = f
    <3>1. \A n \in Name : disk[f][n].v <= e.v
      BY <1>1, <2>1 DEF Newest
    <3>2. Read(disk[f]) <= e.v
      BY <1>1, <1>2, <3>1, ReadIsThere
    <3>3. QED
      BY <1>1, <1>2, <1>3, <1>7, <2>1, <3>2
  <2>2. QED
    BY <1>7, <2>1
<1>8. QED
  BY <1>1, <1>4, <1>5, <1>6, <1>7 DEF Inv, LatestInv

-----------------------------------------------------------------------------
(* The manager's thread keeps the invariant.                               *)

LEMMA WritesKeepsInv ==
  ASSUME Inv, Writes
  PROVE  Inv'
<1> DEFINE e == [file |-> post[1].file, v |-> post[1].v]
<1>1. /\ TypeOK /\ job = Idle /\ ~Active /\ job' = job /\ Shifts
      /\ 1 \in DOMAIN post /\ IsWrite(1) /\ post[1].what = "write" /\ Coalesces(e)
      /\ UNCHANGED <<main, sent, disk, failed, faults, crashes>>
  BY TakesParts DEF Inv, Writes, Given, IsWrite
<1>2. e \in Entry /\ e.file \in Files /\ e.v \in Nat /\ Newest(e.file, e.v)
  <2>1. post[1].file \in Files /\ post[1].v \in Nat /\ post[1].v \in Version
    BY <1>1, Types
  <2>2. QED
    BY <1>1, <2>1 DEF Entry, Version, Inv, PostInv
<1>3. e.file = post[1].file /\ e.v = post[1].v
  OBVIOUS
<1> HIDE DEF e
<1>4. /\ scheduled' \in Seq(Entry)
      /\ \A i \in DOMAIN scheduled' :
            \/ scheduled'[i] = e
            \/ i \in DOMAIN scheduled /\ scheduled'[i] = scheduled[i] /\ scheduled[i].file # e.file
      /\ \E i \in DOMAIN scheduled' : scheduled'[i] = e
      /\ \A i \in DOMAIN scheduled :
            scheduled[i].file # e.file => i \in DOMAIN scheduled' /\ scheduled'[i] = scheduled[i]
      /\ \A i, j \in DOMAIN scheduled' : scheduled'[i].file = scheduled'[j].file => i = j
  BY <1>1, <1>2, CoalescesParts
<1>5. \A g, v : Newest(g, v) => NewestAfter(g, v)
  BY <1>1 DEF Newest, NewestAfter, Active
<1>6. TypeOK'
  <2>1. main \in {"sync", "all", "stop"} => \E k \in DOMAIN post' : post'[k].what \in {"sync", "all"}
    BY <1>1 DEF TypeOK, Shifts
  <2>2. QED
    BY <1>1, <1>4, <2>1 DEF TypeOK, Shifts
<1>7. PostInv'
  <2>1. \A k \in DOMAIN post \ {1} : IsWrite(k) => NewestAfter(post[k].file, post[k].v)
    BY <1>5 DEF Inv, PostInv
  <2>2. QED
    BY <1>1, <1>3, <1>4, <2>1, ShiftsKeepsPost
<1>8. ScheduledInv'
  <2>1. \A i \in DOMAIN scheduled' : NewestAfter(scheduled'[i].file, scheduled'[i].v)
    BY <1>2, <1>4, <1>5 DEF Inv, ScheduledInv
  <2>2. QED
    BY <1>1, <1>4, <2>1 DEF ScheduledInv, Newest, NewestAfter, Active
<1>9. JobInv' /\ SentInv'
  BY <1>1 DEF Inv, JobInv, SentInv, Active
<1>10. WaitInv'
  BY <1>1, ShiftsKeepsWait DEF WaitInv
<1>11. LatestInv'
  <2> SUFFICES ASSUME NEW f \in Files
               PROVE  \/ failed[f] = sent[f]
                      \/ \E k \in DOMAIN post' : IsWrite(k)' /\ post'[k].file = f /\ post'[k].v = sent[f]
                      \/ \E i \in DOMAIN scheduled' : scheduled'[i].file = f /\ scheduled'[i].v = sent[f]
                      \/ Read(disk[f]) = sent[f]
    BY <1>1 DEF LatestInv, Active
  <2>1. CASE \E k \in DOMAIN post : IsWrite(k) /\ post[k].file = f /\ post[k].v = sent[f]
    <3>1. PICK k \in DOMAIN post : IsWrite(k) /\ post[k].file = f /\ post[k].v = sent[f]
      BY <2>1
    <3>2. CASE k = 1
      BY <1>3, <1>4, <3>1, <3>2
    <3>3. CASE k # 1
      BY <1>1, <3>1, <3>3, ShiftsCarries
    <3>4. QED
      BY <3>2, <3>3
  <2>2. CASE \E i \in DOMAIN scheduled : scheduled[i].file = f /\ scheduled[i].v = sent[f]
    <3>1. PICK i \in DOMAIN scheduled : scheduled[i].file = f /\ scheduled[i].v = sent[f]
      BY <2>2
    <3>2. CASE f = e.file
      <4>1. e.v = sent[f]
        <5>1. scheduled[i].v <= post[1].v
          BY <1>1, <1>3, <3>1, <3>2 DEF Inv, PostInv
        <5>2. e.v <= sent[f] /\ sent[f] \in Nat
          BY <1>1, <1>2, <3>2, Types DEF Newest
        <5>3. QED
          BY <1>2, <1>3, <3>1, <5>1, <5>2
      <4>2. QED
        BY <1>4, <3>2, <4>1
    <3>3. CASE f # e.file
      BY <1>4, <3>1, <3>3
    <3>4. QED
      BY <3>2, <3>3
  <2>3. QED
    BY <1>1, <2>1, <2>2 DEF Inv, LatestInv
<1>12. QED
  BY <1>6, <1>7, <1>8, <1>9, <1>10, <1>11 DEF Inv

LEMMA WritesScheduledKeepsInv ==
  ASSUME Inv, WritesScheduled
  PROVE  Inv'
<1>1. /\ TypeOK /\ job = Idle /\ ~Active /\ Shifts
      /\ 1 \in DOMAIN post /\ ~IsWrite(1) /\ post[1].what = "scheduled"
      /\ UNCHANGED <<main, sent, disk, failed, faults, crashes>>
  BY TakesParts DEF Inv, WritesScheduled, IsWrite
<1>2. main \in {"sync", "all", "stop"} => \E k \in DOMAIN post' : post'[k].what \in {"sync", "all"}
  BY <1>1 DEF TypeOK, Shifts
<1>3. \A k \in DOMAIN post : IsWrite(k) =>
          \E i \in DOMAIN post' : IsWrite(i)' /\ post'[i].file = post[k].file /\ post'[i].v = post[k].v
  <2>1. \A k \in DOMAIN post : IsWrite(k) => k \in DOMAIN post \ {1}
    BY <1>1
  <2>2. QED
    BY <1>1, <2>1, ShiftsCarries
<1>4. CASE scheduled = <<>>
  <2>1. UNCHANGED <<scheduled, job>>
    BY <1>4 DEF WritesScheduled
  <2>2. TypeOK'
    BY <1>1, <1>2, <2>1 DEF TypeOK, Shifts
  <2>3. PostInv'
    <3>1. \A k \in DOMAIN post \ {1} : IsWrite(k) => NewestAfter(post[k].file, post[k].v)
      BY <1>1, <2>1 DEF Inv, PostInv, Newest, NewestAfter, Active
    <3>2. \A i \in DOMAIN scheduled' : \E j \in DOMAIN scheduled : scheduled'[i] = scheduled[j]
      BY <2>1
    <3>3. QED
      BY <1>1, <3>1, <3>2, ShiftsKeepsPost
  <2>4. ScheduledInv' /\ JobInv' /\ SentInv'
    BY <1>1, <2>1 DEF Inv, ScheduledInv, JobInv, SentInv, Newest, Active
  <2>5. WaitInv'
    BY <1>1, <2>1, ShiftsKeepsWait DEF WaitInv
  <2>6. LatestInv'
    BY <1>1, <1>3, <2>1 DEF Inv, LatestInv, Active
  <2>7. QED
    BY <2>2, <2>3, <2>4, <2>5, <2>6 DEF Inv
<1>5. CASE scheduled # <<>>
  <2> DEFINE e == scheduled[1]
  <2>1. /\ 1 \in DOMAIN scheduled /\ e \in Entry /\ Drops(e.file)
        /\ Begins(e, "scheduled")
    BY <1>1, <1>5, TailDrops DEF WritesScheduled
  <2>2. e.file \in Files /\ e.v \in Version /\ e.v \in Nat
    BY <1>1, <2>1, ConstantsAssumption DEF Entry, Version
  <2>3. /\ job' \in Job /\ job'.file = e.file /\ job'.v = e.v /\ job'.at = "save" /\ job'.then = "scheduled"
        /\ job' # Idle
    BY <2>1, <2>2, BeginsParts
  <2>4. Starting(e)
    BY <1>1, <2>1, <2>2, <2>3 DEF Starting, Inv, ScheduledInv
  <2>5. ScheduledInv' /\ JobInv' /\ SentInv'
    BY <2>4, StartingKeeps
  <2>6. TypeOK'
    BY <1>1, <1>2, <2>1, <2>3 DEF TypeOK, Shifts, Drops
  <2>7. PostInv'
    <3>1. \A k \in DOMAIN post \ {1} : IsWrite(k) => NewestAfter(post[k].file, post[k].v)
      <4> SUFFICES ASSUME NEW k \in DOMAIN post \ {1}, IsWrite(k)
                   PROVE  NewestAfter(post[k].file, post[k].v)
        OBVIOUS
      <4>1. Newest(post[k].file, post[k].v) /\ (post[k].file = e.file => e.v <= post[k].v)
        BY <2>1 DEF Inv, PostInv
      <4>2. post[k].file \in Files /\ post[k].v \in Nat
        BY <1>1, Types
      <4>3. QED
        BY <2>4, <4>1, <4>2, StartingKeeps
    <3>2. \A i \in DOMAIN scheduled' : \E j \in DOMAIN scheduled : scheduled'[i] = scheduled[j]
      BY <2>1 DEF Drops
    <3>3. QED
      BY <1>1, <3>1, <3>2, ShiftsKeepsPost
  <2>8. WaitInv'
    BY <1>1, <2>3, ShiftsKeepsWait DEF WaitInv
  <2>9. LatestInv'
    <3>1. \A j \in DOMAIN scheduled : scheduled[j].file = e.file => scheduled[j].v <= e.v
      BY <1>1, <2>1, <2>2 DEF TypeOK
    <3>2. QED
      BY <1>3, <2>4, <3>1, StartingKeepsLatest
  <2>10. QED
    BY <2>5, <2>6, <2>7, <2>8, <2>9 DEF Inv
<1>6. QED
  BY <1>4, <1>5

LEMMA WritesSyncKeepsInv ==
  ASSUME Inv, WritesSync
  PROVE  Inv'
<1> DEFINE e == post[1]
<1>1. /\ TypeOK /\ job = Idle /\ ~Active /\ Shifts
      /\ 1 \in DOMAIN post /\ IsWrite(1) /\ e.what = "sync"
      /\ Begins(e, "sync") /\ Erases(e.file)
      /\ UNCHANGED <<main, sent, disk, failed, faults, crashes>>
  BY TakesParts DEF Inv, WritesSync, IsWrite
<1>2. e.file \in Files /\ e.v \in Version /\ e.v \in Nat
  BY <1>1, Types
<1>3. Drops(e.file)
  BY <1>1, ErasesDrops
<1>4. /\ job' \in Job /\ job'.file = e.file /\ job'.v = e.v /\ job'.at = "save" /\ job'.then = "sync"
      /\ job' # Idle
  BY <1>1, <1>2, BeginsParts
<1>5. Starting(e)
  BY <1>1, <1>2, <1>3, <1>4 DEF Starting, Inv, PostInv
<1>6. ScheduledInv' /\ JobInv' /\ SentInv'
  BY <1>5, StartingKeeps
<1>7. TypeOK'
  BY <1>1, <1>3, <1>4 DEF TypeOK, Shifts, Drops
<1>8. DOMAIN post = 1 .. Len(post) /\ Len(post) \in Nat
  BY <1>1, Types
<1>9. /\ Waits /\ main = "sync" /\ e.v = sent[e.file]
      /\ \A j \in 2 .. Len(post) : post[j].what = "scheduled"
  BY <1>1 DEF Inv, WaitInv
<1>10. \A k \in DOMAIN post \ {1} : post[k].what = "scheduled"
  BY <1>8, <1>9
<1>11. \A k \in DOMAIN post' : post'[k].what = "scheduled"
  <2>1. DOMAIN post' = 1 .. Len(post') /\ Len(post') \in Nat
    BY <1>1 DEF Shifts
  <2>2. \A k \in DOMAIN post' : k + 1 # 1
    BY <2>1
  <2>3. QED
    BY <1>1, <1>10, <2>2 DEF Shifts
<1>12. PostInv'
  BY <1>11 DEF PostInv, IsWrite
<1>13. WaitInv'
  BY <1>1, <1>3, <1>4, <1>9, <1>11 DEF WaitInv, Waits, Drops
<1>14. LatestInv'
  <2>1. \A k \in DOMAIN post : IsWrite(k) => k = 1
    BY <1>10 DEF IsWrite
  <2>2. \A j \in DOMAIN scheduled : scheduled[j].file = e.file => scheduled[j].v <= e.v
    BY <1>1 DEF Inv, PostInv
  <2>3. e.v <= e.v
    BY <1>2
  <2>4. QED
    BY <1>5, <2>1, <2>2, <2>3, StartingKeepsLatest
<1>15. QED
  BY <1>6, <1>7, <1>12, <1>13, <1>14 DEF Inv

(* writeSyncAll begins with nothing to write, and goes on as after a write. *)
LEMMA WritesAllKeepsInv ==
  ASSUME Inv, WritesAll
  PROVE  Inv'
<1>1. /\ TypeOK /\ job = Idle /\ ~Active /\ Shifts
      /\ 1 \in DOMAIN post /\ post[1].what = "all"
      /\ job' = [at |-> "done", then |-> "all", file |-> CHOOSE f \in Files : TRUE, v |-> 0]
      /\ UNCHANGED <<main, sent, scheduled, disk, failed, faults, crashes>>
  BY TakesParts DEF Inv, WritesAll
<1>2. job' \in Job /\ job'.then = "all" /\ job'.at = "done" /\ job' # Idle
  <2>1. (CHOOSE f \in Files : TRUE) \in Files
    BY ConstantsAssumption
  <2>2. 0 \in Version
    BY ConstantsAssumption DEF Version
  <2>3. QED
    BY <1>1, <2>1, <2>2 DEF Job, Idle
<1>3. TypeOK'
  BY <1>1, <1>2 DEF TypeOK, Shifts
<1>4. DOMAIN post = 1 .. Len(post) /\ Len(post) \in Nat
  BY <1>1, Types
<1>5. Waits /\ main # "sync" /\ \A j \in 2 .. Len(post) : post[j].what = "scheduled"
  BY <1>1 DEF Inv, WaitInv
<1>6. \A k \in DOMAIN post \ {1} : post[k].what = "scheduled"
  BY <1>4, <1>5
<1>7. \A k \in DOMAIN post' : post'[k].what = "scheduled"
  <2>1. DOMAIN post' = 1 .. Len(post') /\ Len(post') \in Nat
    BY <1>1 DEF Shifts
  <2>2. \A k \in DOMAIN post' : k + 1 # 1
    BY <2>1
  <2>3. QED
    BY <1>1, <1>6, <2>2 DEF Shifts
<1>8. PostInv'
  BY <1>7 DEF PostInv, IsWrite
<1>9. ScheduledInv' /\ JobInv' /\ SentInv'
  BY <1>1, <1>2 DEF Inv, ScheduledInv, JobInv, SentInv, Newest, Active
<1>10. WaitInv'
  BY <1>1, <1>2, <1>5, <1>7 DEF WaitInv, Waits
<1>11. LatestInv'
  <2>1. \A k \in DOMAIN post : ~IsWrite(k)
    BY <1>1, <1>6 DEF IsWrite
  <2>2. QED
    BY <1>1, <1>2, <2>1 DEF Inv, LatestInv, Active
<1>12. QED
  BY <1>3, <1>8, <1>9, <1>10, <1>11 DEF Inv

LEMMA ContinuesKeepsInv ==
  ASSUME Inv, Continues
  PROVE  Inv'
<1>1. /\ TypeOK /\ job.at = "done" /\ ~Active /\ job # Idle /\ job \in Job
      /\ UNCHANGED <<sent, disk, failed, faults, crashes>>
  BY JobParts DEF Inv, Continues, Active, Idle
<1>2. CASE job.then = "all" /\ scheduled # <<>>
  <2> DEFINE e == scheduled[1]
  <2>1. /\ 1 \in DOMAIN scheduled /\ e \in Entry /\ Drops(e.file)
        /\ Begins(e, "all") /\ UNCHANGED <<main, post>>
    BY <1>1, <1>2, TailDrops DEF Continues
  <2>2. e.file \in Files /\ e.v \in Version /\ e.v \in Nat
    BY <1>1, <2>1, ConstantsAssumption DEF Entry, Version
  <2>3. /\ job' \in Job /\ job'.file = e.file /\ job'.v = e.v /\ job'.at = "save" /\ job'.then = "all"
        /\ job' # Idle
    BY <2>1, <2>2, BeginsParts
  <2>4. Starting(e)
    BY <1>1, <2>1, <2>2, <2>3 DEF Starting, Inv, ScheduledInv
  <2>5. ScheduledInv' /\ JobInv' /\ SentInv'
    BY <2>4, StartingKeeps
  <2>6. TypeOK'
    BY <1>1, <2>1, <2>3 DEF TypeOK, Drops
  <2>7. /\ Waits /\ main # "sync" /\ \A k \in DOMAIN post : post[k].what = "scheduled"
    BY <1>1, <1>2 DEF Inv, WaitInv
  <2>8. PostInv'
    BY <2>1, <2>7 DEF PostInv, IsWrite
  <2>9. WaitInv'
    BY <2>1, <2>3, <2>7 DEF WaitInv, Waits
  <2>10. LatestInv'
    <3>1. \A j \in DOMAIN scheduled : scheduled[j].file = e.file => scheduled[j].v <= e.v
      BY <1>1, <2>1, <2>2 DEF TypeOK
    <3>2. \A k \in DOMAIN post : ~IsWrite(k)
      BY <2>7 DEF IsWrite
    <3>3. QED
      BY <2>4, <3>1, <3>2, StartingKeepsLatest
  <2>11. QED
    BY <2>5, <2>6, <2>8, <2>9, <2>10 DEF Inv
<1>3. CASE ~(job.then = "all" /\ scheduled # <<>>) /\ job.then = "scheduled"
  <2>1. /\ job' = Idle /\ UNCHANGED <<main, scheduled>>
        /\ post' = IF scheduled = <<>> THEN post ELSE Append(post, [what |-> "scheduled"])
    BY <1>3 DEF Continues, Posts
  <2>2. /\ post' \in Seq(Task) /\ DOMAIN post' = 1 .. Len(post') /\ Len(post') \in Nat
        /\ \A k \in DOMAIN post : k \in DOMAIN post' /\ post'[k] = post[k]
        /\ \A k \in DOMAIN post' \ DOMAIN post : post'[k] = [what |-> "scheduled"]
        /\ DOMAIN post = 1 .. Len(post) /\ Len(post) \in Nat
    <3>1. CASE scheduled = <<>>
      BY <1>1, <2>1, <3>1, Types DEF TypeOK
    <3>2. CASE scheduled # <<>>
      <4> DEFINE t == [what |-> "scheduled"]
      <4>1. t \in Task /\ Posts(t)
        BY <2>1, <3>2 DEF Task, Posts
      <4> HIDE DEF t
      <4>2. /\ post' \in Seq(Task) /\ DOMAIN post' = 1 .. (Len(post) + 1)
            /\ DOMAIN post = 1 .. Len(post) /\ Len(post) \in Nat /\ Len(post') = Len(post) + 1
            /\ \A k \in DOMAIN post : post'[k] = post[k]
            /\ post'[Len(post) + 1] = t
        BY <1>1, <4>1, PostsLast
      <4>3. \A k \in DOMAIN post' \ DOMAIN post : k = Len(post) + 1
        BY <4>2
      <4>4. \A k \in DOMAIN post : k \in DOMAIN post'
        BY <4>2
      <4>5. QED
        BY <4>2, <4>3, <4>4 DEF t
    <3>3. QED
      BY <3>1, <3>2
  <2> HIDE <2>1
  <2>3. job' = Idle /\ UNCHANGED <<main, scheduled>> /\ ~Active'
    BY <2>1 DEF Idle, Active
  <2>4. TypeOK'
    <3>1. main \in {"sync", "all", "stop"} => \E k \in DOMAIN post' : post'[k].what \in {"sync", "all"}
      BY <1>1, <1>3, <2>2 DEF TypeOK
    <3>2. QED
      BY <1>1, <2>2, <2>3, <3>1 DEF TypeOK
  <2>5. \A g, v : Newest(g, v) => NewestAfter(g, v)
    BY <1>1, <2>3 DEF Newest, NewestAfter, Active
  <2>6. \A k \in DOMAIN post' : IsWrite(k)' => k \in DOMAIN post /\ IsWrite(k) /\ post'[k] = post[k]
    BY <2>2 DEF IsWrite
  <2>7. PostInv'
    <3> SUFFICES ASSUME NEW k \in DOMAIN post', IsWrite(k)'
                 PROVE  /\ NewestAfter(post'[k].file, post'[k].v)
                        /\ \A i \in 1..k : IsWrite(i)' /\ post'[i].file = post'[k].file => post'[i].v <= post'[k].v
                        /\ \A i \in DOMAIN scheduled :
                              scheduled[i].file = post'[k].file => scheduled[i].v <= post'[k].v
      BY <2>3 DEF PostInv, Newest, NewestAfter, Active
    <3>1. k \in DOMAIN post /\ IsWrite(k) /\ post'[k] = post[k]
      BY <2>6
    <3>2. \A i \in 1..k : i \in DOMAIN post' /\ (IsWrite(i)' => IsWrite(i) /\ post'[i] = post[i])
      BY <2>2, <2>6
    <3>3. QED
      BY <2>5, <3>1, <3>2 DEF Inv, PostInv
  <2>8. ScheduledInv'
    <3>1. \A i \in DOMAIN scheduled : NewestAfter(scheduled[i].file, scheduled[i].v)
      BY <2>5 DEF Inv, ScheduledInv
    <3>2. QED
      BY <2>3, <3>1 DEF Inv, ScheduledInv, Newest, NewestAfter, Active
  <2>9. JobInv' /\ SentInv'
    BY <1>1, <2>3 DEF Inv, JobInv, SentInv
  <2>10. WaitInv'
    <3> SUFFICES ASSUME NEW k \in DOMAIN post', post'[k].what \in {"sync", "all"}
                 PROVE  /\ Waits /\ (post'[k].what = "sync" <=> main = "sync")
                        /\ \A j \in (k + 1) .. Len(post') : post'[j].what = "scheduled"
                        /\ post'[k].what = "sync" => post'[k].v = sent[post'[k].file]
      BY <1>1, <2>3 DEF WaitInv, Waits
    <3>1. k \in DOMAIN post /\ post'[k] = post[k]
      BY <2>2
    <3>2. /\ Waits /\ (post[k].what = "sync" <=> main = "sync")
          /\ \A j \in (k + 1) .. Len(post) : post[j].what = "scheduled"
          /\ post[k].what = "sync" => post[k].v = sent[post[k].file]
      BY <3>1 DEF Inv, WaitInv
    <3>3. \A j \in (k + 1) .. Len(post') : j \in DOMAIN post' /\ (j \in DOMAIN post => j \in (k + 1) .. Len(post))
      BY <2>2
    <3>4. \A j \in (k + 1) .. Len(post') : post'[j].what = "scheduled"
      BY <2>2, <3>2, <3>3
    <3>5. QED
      BY <3>1, <3>2, <3>4
  <2>11. LatestInv'
    <3>1. \A k \in DOMAIN post : IsWrite(k) => IsWrite(k)' /\ k \in DOMAIN post' /\ post'[k] = post[k]
      BY <2>2 DEF IsWrite
    <3>2. QED
      BY <1>1, <2>3, <3>1 DEF Inv, LatestInv
  <2>12. QED
    BY <2>4, <2>7, <2>8, <2>9, <2>10, <2>11 DEF Inv
<1>4. CASE ~(job.then = "all" /\ scheduled # <<>>) /\ job.then # "scheduled"
  <2>1. /\ job' = Idle /\ ~Active' /\ UNCHANGED <<scheduled, post>>
        /\ main' = IF main = "stop" THEN "stopped" ELSE "run"
    BY <1>4 DEF Continues, Idle, Active
  <2>2. \A k \in DOMAIN post : post[k].what = "scheduled"
    BY <1>1, <1>4 DEF Inv, WaitInv
  <2>3. TypeOK'
    BY <1>1, <2>1 DEF TypeOK
  <2>4. PostInv' /\ WaitInv'
    BY <2>1, <2>2 DEF PostInv, WaitInv, IsWrite
  <2>5. ScheduledInv' /\ JobInv' /\ SentInv'
    BY <1>1, <2>1 DEF Inv, ScheduledInv, JobInv, SentInv, Newest, Active
  <2>6. LatestInv'
    BY <1>1, <2>1 DEF Inv, LatestInv, IsWrite
  <2>7. QED
    BY <2>3, <2>4, <2>5, <2>6 DEF Inv
<1>5. QED
  BY <1>2, <1>3, <1>4

-----------------------------------------------------------------------------
(* The process is killed and starts again.                                 *)

LEMMA KilledKeepsInv ==
  ASSUME Inv, Killed
  PROVE  Inv'
<1>1. /\ TypeOK /\ main' = "down" /\ crashes' \in 0..MaxCrashes
      /\ post' = <<>> /\ scheduled' = <<>> /\ job' = Idle /\ failed' = sent
      /\ UNCHANGED <<sent, disk, faults>>
  BY ConstantsAssumption DEF Killed, Inv, TypeOK
<1>2. ~Active' /\ job'.at = "idle"
  BY <1>1 DEF Active, Idle
<1>3. TypeOK'
  BY <1>1 DEF TypeOK
<1>4. PostInv' /\ ScheduledInv' /\ JobInv' /\ WaitInv'
  BY <1>1, <1>2 DEF PostInv, ScheduledInv, JobInv, WaitInv, IsWrite
<1>5. SentInv' /\ LatestInv'
  <2>1. \A f \in Files : sent[f] \in Nat
    BY <1>1, Types
  <2>2. QED
    BY <1>1, <2>1 DEF Inv, SentInv, LatestInv
<1>6. QED
  BY <1>3, <1>4, <1>5 DEF Inv

LEMMA StartsKeepsInv ==
  ASSUME Inv, Starts
  PROVE  Inv'
<1>1. /\ main = "down" /\ main' = "run"
      /\ UNCHANGED <<sent, post, scheduled, job, disk, failed, faults, crashes>>
  BY DEF Starts
<1>2. QED
  BY <1>1 DEF Inv, TypeOK, PostInv, ScheduledInv, JobInv, StageInv, SentInv, WaitInv, LatestInv,
              Newest, Active, IsWrite, Waits

-----------------------------------------------------------------------------
(* The theorems.                                                           *)

LEMMA InitInv == Init => Inv
<1> SUFFICES ASSUME Init PROVE Inv
  OBVIOUS
<1>1. /\ main = "run" /\ sent = [f \in Files |-> 2] /\ failed = sent
      /\ post = <<>> /\ scheduled = <<>> /\ job = Idle
      /\ faults = 0 /\ crashes = 0 /\ disk \in [Files -> Left]
  BY DEF Init
<1>2. 2 \in Version /\ 1 \in Version /\ 0 \in Version
  BY ConstantsAssumption DEF Version
<1>3. \A d \in Left : d \in [Name -> Content] /\ \A n \in Name : d[n].v <= 2
  <2>1. \A c \in {Nothing, Whole(1), Whole(2), Torn(2)} : c \in Content /\ c.v <= 2
    <3>1. Nothing \in Content /\ Whole(1) \in Content /\ Whole(2) \in Content /\ Torn(2) \in Content
      BY <1>2, Contents
    <3>2. Nothing.v <= 2 /\ Whole(1).v <= 2 /\ Whole(2).v <= 2 /\ Torn(2).v <= 2
      BY DEF Nothing, Whole, Torn
    <3>3. QED
      BY <3>1, <3>2
  <2>2. ASSUME NEW a, NEW b, NEW c, \A x \in {a, b, c} : x \in Content /\ x.v <= 2
        PROVE  Under(a, b, c) \in [Name -> Content] /\ \A n \in Name : Under(a, b, c)[n].v <= 2
    <3>1. \A n \in Name : Under(a, b, c)[n] \in {a, b, c}
      BY DEF Under
    <3>2. Under(a, b, c) = [n \in Name |-> Under(a, b, c)[n]]
      BY DEF Under
    <3>3. QED
      BY <2>2, <3>1, <3>2
  <2>3. QED
    BY <2>1, <2>2 DEF Left, Absent
<1>4. disk \in [Files -> [Name -> Content]] /\ \A f \in Files : \A n \in Name : disk[f][n].v <= 2
  BY <1>1, <1>3
<1>5. TypeOK
  BY <1>1, <1>2, <1>4, ConstantsAssumption DEF TypeOK
<1>6. ~Active /\ PostInv /\ ScheduledInv /\ JobInv /\ WaitInv
  BY <1>1 DEF Active, Idle, PostInv, ScheduledInv, JobInv, WaitInv, IsWrite
<1>7. SentInv /\ LatestInv
  BY <1>1, <1>4 DEF SentInv, LatestInv
<1>8. QED
  BY <1>5, <1>6, <1>7 DEF Inv

LEMMA StepInv == Inv /\ [Next]_vars => Inv'
<1> SUFFICES ASSUME Inv, [Next]_vars
             PROVE  Inv'
  OBVIOUS
<1>1. CASE \E f \in Files : ReadsFile(f)
  BY <1>1, ReadsFileKeepsInv
<1>2. CASE \E f \in Files, what \in {"write", "sync"} : Finishes(f, what)
  BY <1>2, FinishesKeepsInv
<1>3. CASE \E how \in {"all", "stop"} : Syncs(how)
  BY <1>3, SyncsKeepsInv
<1>4. CASE Manager
  BY <1>4, WritesKeepsInv, WritesScheduledKeepsInv, WritesSyncKeepsInv, WritesAllKeepsInv,
     ContinuesKeepsInv, WriteNowKeepsInv DEF Manager
<1>5. CASE Killed \/ Starts
  BY <1>5, KilledKeepsInv, StartsKeepsInv
<1>6. CASE UNCHANGED vars
  BY <1>6 DEF vars, threads, Inv, TypeOK, PostInv, ScheduledInv, JobInv, StageInv, SentInv, WaitInv,
              LatestInv, Newest, Active, IsWrite, Waits
<1>7. QED
  BY <1>1, <1>2, <1>3, <1>4, <1>5, <1>6 DEF Next

THEOREM Invariance == Spec => []Inv
<1>1. QED
  BY InitInv, StepInv, PTL DEF Spec

(* Every variable keeps its type, no file is scheduled twice, and what the *)
(* main thread waits for is on its way.                                    *)
THEOREM TypeCorrect == Spec => []TypeOK
<1>1. Inv => TypeOK
  BY DEF Inv
<1>2. QED
  BY <1>1, Invariance, PTL

(* What a reader of a file would find is older after a step only where the *)
(* plain file is written in place, or where it came out short and a good   *)
(* one makes room for it.                                                  *)
THEOREM ReadNeverGoesBackHolds == Spec => ReadNeverGoesBack
<1> DEFINE Stays(f) ==
              \/ Read(disk'[f]) >= Read(disk[f])
              \/ job.at = "plain" /\ job.file = f /\ Chosen(disk[f]) = "0"
              \/ job.at \in {"backup", "rename", "safe"} /\ job.file = f /\ failed[f] = job.v
<1>1. ASSUME Inv, [Next]_vars, NEW f \in Files
      PROVE  Stays(f)
  <2>1. TypeOK /\ disk[f] \in [Name -> Content] /\ Read(disk[f]) \in Nat
    <3>1. TypeOK /\ disk[f] \in [Name -> Content]
      BY <1>1, Types DEF Inv
    <3>2. 2 + MaxWrites \in Nat /\ \A n \in Name : disk[f][n].v <= 2 + MaxWrites
      BY <3>1, ConstantsAssumption DEF Content, Version
    <3>3. Read(disk[f]) \in Nat
      BY <3>1, <3>2, ReadIsThere
    <3>4. QED
      BY <3>1, <3>3
  <2>2. CASE disk'[f] = disk[f]
    BY <2>1, <2>2
  <2>3. CASE WriteNow
    <3>1. OneFile /\ NoLoss
      BY <1>1, <2>1, <2>3, WriteNowOutcome DEF Inv
    <3>2. CASE job.file = f
      BY <3>1, <3>2 DEF NoLoss
    <3>3. CASE job.file # f
      BY <2>2, <3>1, <3>3 DEF OneFile
    <3>4. QED
      BY <3>2, <3>3
  <2>4. CASE \E g \in Files : ReadsFile(g)
    <3>1. PICK g \in Files : disk' = [disk EXCEPT ![g] = AfterRead(disk[g])]
      BY <2>4 DEF ReadsFile
    <3>2. disk \in [Files -> [Name -> Content]]
      BY <2>1 DEF TypeOK
    <3>3. CASE g = f
      <4>1. disk'[f] = AfterRead(disk[f])
        BY <3>1, <3>2, <3>3
      <4>2. QED
        BY <2>1, <4>1, AfterReadReads
    <3>4. CASE g # f
      BY <2>2, <3>1, <3>2, <3>4
    <3>5. QED
      BY <3>3, <3>4
  <2>5. CASE ~WriteNow /\ ~\E g \in Files : ReadsFile(g)
    <3>1. CASE \E g \in Files, what \in {"write", "sync"} : Finishes(g, what)
      BY <2>2, <3>1 DEF Finishes
    <3>2. CASE \E how \in {"all", "stop"} : Syncs(how)
      BY <2>2, <3>2 DEF Syncs
    <3>3. CASE Writes \/ WritesScheduled \/ WritesSync \/ WritesAll \/ Continues
      BY <2>2, <3>3 DEF Writes, WritesScheduled, WritesSync, WritesAll, Takes, Continues
    <3>4. CASE Killed \/ Starts \/ UNCHANGED vars
      BY <2>2, <3>4 DEF Killed, Starts, vars
    <3>5. QED
      BY <1>1, <2>5, <3>1, <3>2, <3>3, <3>4 DEF Next, Manager
  <2>6. QED
    BY <2>3, <2>4, <2>5
<1>2. Inv /\ [Next]_vars => [\A f \in Files : Stays(f)]_vars
  BY <1>1
<1>3. QED
  BY <1>2, Invariance, PTL DEF Spec, ReadNeverGoesBack

(* When writeSync, sync or stop return to the main thread, the last        *)
(* content of the file, of every file, can be read, unless writing it      *)
(* failed.                                                                 *)
THEOREM SyncIsDurableHolds == Spec => SyncIsDurable
<1> DEFINE Durable ==
              main # main' /\ main # "down" /\ main' \in {"run", "stopped"} =>
                 \A f \in Files :
                    \/ main = "sync" /\ job.file # f
                    \/ Read(disk[f]) = sent[f]
                    \/ failed[f] = sent[f]
<1>1. ASSUME Inv, [Next]_vars
      PROVE  Durable
  <2> SUFFICES ASSUME main # main', main # "down", main' \in {"run", "stopped"}, NEW f \in Files
               PROVE  \/ main = "sync" /\ job.file # f
                      \/ Read(disk[f]) = sent[f]
                      \/ failed[f] = sent[f]
    OBVIOUS
  <2>1. TypeOK
    BY <1>1 DEF Inv
  <2>2. Continues
    <3>1. CASE WriteNow
      <4>1. main' = main
        BY <1>1, <2>1, <3>1, WriteNowIsActive DEF Inv, threads
      <4>2. QED
        BY <4>1
    <3>2. CASE ~WriteNow
      BY <1>1, <3>2 DEF Next, Manager, ReadsFile, Finishes, Syncs, Takes, Writes, WritesScheduled,
                        WritesSync, WritesAll, Killed, Starts, vars, threads
    <3>3. QED
      BY <3>1, <3>2
  <2>3. /\ job.at = "done" /\ job # Idle /\ ~Active /\ job.then # "scheduled"
        /\ job.then = "all" => scheduled = <<>>
        /\ job.then \in {"scheduled", "sync", "all"}
    <3>1. job.at = "done" /\ job # Idle /\ ~Active
      BY <2>2 DEF Continues, Active, Idle
    <3>2. job.then \in {"scheduled", "sync", "all"}
      BY <2>1, <3>1, JobParts DEF Job
    <3>3. QED
      BY <2>2, <3>1, <3>2 DEF Continues
  <2>4. /\ \A k \in DOMAIN post : post[k].what = "scheduled"
        /\ job.then = "sync" <=> main = "sync"
        /\ job.then = "sync" => \A i \in DOMAIN scheduled : scheduled[i].file # job.file
    BY <1>1, <2>3 DEF Inv, WaitInv
  <2>5. \A k \in DOMAIN post : ~IsWrite(k)
    BY <2>4 DEF IsWrite
  <2>6. CASE main = "sync" /\ job.file = f
    BY <1>1, <2>3, <2>4, <2>5, <2>6 DEF Inv, LatestInv
  <2>7. CASE main # "sync"
    <3>1. scheduled = <<>>
      BY <2>3, <2>4, <2>7
    <3>2. DOMAIN scheduled = {}
      BY <3>1
    <3>3. QED
      BY <1>1, <2>3, <2>5, <3>2 DEF Inv, LatestInv
  <2>8. QED
    BY <2>6, <2>7
<1>2. Inv /\ [Next]_vars => [Durable]_vars
  BY <1>1
<1>3. QED
  BY <1>2, Invariance, PTL DEF Spec, SyncIsDurable
=============================================================================
