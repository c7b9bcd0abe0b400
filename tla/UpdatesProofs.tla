---------------------------- MODULE UpdatesProofs ----------------------------
(***************************************************************************)
(* Proofs about Updates, for any number of overlapping UPDATE_WORKER       *)
(* intents, of sessions and of attempts before the rollback: a release     *)
(* that cannot work stays undoable, and never passes the canary.           *)
(***************************************************************************)
EXTENDS Updates, TLAPS

ProcType   == [run : Binaries \cup {"none"}, epoch : 0..MaxEpoch, link : BOOLEAN, exiting : BOOLEAN]
JobType    == [pc : Steps, epoch : 0..MaxEpoch, bin : Contents, at : Paths \cup {"none"},
               mixed : BOOLEAN]
DiskType   == [Paths -> Contents]
MarkerType == [age : {"none", "young", "aged"}, tries : 0..RollbackAttempts - 1]
FleetType  == [pc : {"idle", "sent", "wait", "released"}, i : Intents \cup {None}]

(* No session and no goroutine outlives the process, and the latest        *)
(* release has a session only if it works.                                 *)
ProcInv ==
  /\ proc.run = "none" => ~ proc.link /\ \A i \in Intents : job[i].pc = "free"
  /\ proc.link /\ proc.run = "new" => release = "good"

(* The master learns a version from a running session alone.               *)
RowInv == row = "new" => release = "good"

(* A download writes the staging or the release file and an installation   *)
(* the executable or the backup, unless the file was removed meanwhile.    *)
WriterInv == \A i \in Intents :
  /\ job[i].at \in {"stage", "rel"} => job[i].pc = "load"
  /\ job[i].at \in {"exec", "prev"} => job[i].pc = "copying"

Away == {"backed", "copying"}

(* Unless the safety net is lost: an update that marked itself has its     *)
(* marker still; at most one update has taken the executable away, it was  *)
(* the old binary, the marker is there, and what this update copies goes   *)
(* to the executable; a backup is of the old binary.                       *)
NetInv ==
  ~ waived =>
    /\ \A i \in Intents : job[i].pc \in {"marked", "promoted"} => marker.age # "none"
    /\ \A i \in Intents : job[i].pc \in Away => marker.age # "none" /\ disk["prev"] = "old"
    /\ \A i \in Intents : job[i].pc = "backed" => disk["exec"] = "none"
    /\ \A i \in Intents : job[i].pc = "copying" => disk["exec"] = "part" /\ job[i].at = "exec"
    /\ \A i, j \in Intents : job[i].pc \in Away /\ job[j].pc \in Away => i = j
    /\ disk["prev"] \in {"none", "old"}

Inv == TypeOK /\ ProcInv /\ RowInv /\ WriterInv /\ NetInv /\ Recoverable /\ CanaryGate

-----------------------------------------------------------------------------
(* What the helpers write.                                                 *)
LEMMA GoJob ==
  ASSUME job \in [Intents -> JobType], NEW i \in Intents, NEW pc \in Steps, Go(i, pc)
  PROVE  /\ job' \in [Intents -> JobType]
         /\ job'[i].pc = pc /\ job'[i].at = job[i].at
         /\ \A j \in Intents \ {i} : job'[j] = job[j]
  BY DEF Go, JobType

(* After a step the goroutine has nothing open.                            *)
LEMMA SteppedJob ==
  ASSUME NEW J \in [Intents -> JobType], job \in [Intents -> JobType], NEW i \in Intents,
         NEW pc \in Steps
  PROVE  /\ Stepped(J, i, pc) \in [Intents -> JobType]
         /\ Stepped(J, i, pc)[i].pc = pc /\ Stepped(J, i, pc)[i].at = "none"
         /\ \A j \in Intents \ {i} : Stepped(J, i, pc)[j] = J[j]
<1> DEFINE new == [NoJob EXCEPT !.pc = pc, !.epoch = job[i].epoch]
<1>1. new \in JobType /\ new.pc = pc /\ new.at = "none"
  BY DEF NoJob, JobType, Steps, Contents
<1>2. Stepped(J, i, pc) = [J EXCEPT ![i] = new]
  BY DEF Stepped
<1> HIDE DEF new
<1> QED
  BY <1>1, <1>2

(* A rename moves the writers of the file with it.                         *)
LEMMA MovedJob ==
  ASSUME job \in [Intents -> JobType], NEW from \in Paths, NEW to \in Paths \cup {"none"}
  PROVE  /\ Moved(from, to) \in [Intents -> JobType]
         /\ \A j \in Intents : /\ Moved(from, to)[j].pc = job[j].pc
                               /\ Moved(from, to)[j].at =
                                    IF job[j].at = from THEN to
                                    ELSE IF job[j].at = to THEN "none" ELSE job[j].at
  BY DEF Moved, JobType

(* An opened file has one writer more.                                     *)
LEMMA OpenedJob ==
  ASSUME job \in [Intents -> JobType], NEW i \in Intents, NEW pc \in Steps, NEW p \in Paths,
         NEW b \in Contents
  PROVE  /\ Opened(i, pc, p, b) \in [Intents -> JobType]
         /\ Opened(i, pc, p, b)[i].pc = pc /\ Opened(i, pc, p, b)[i].at = p
         /\ \A j \in Intents \ {i} : /\ Opened(i, pc, p, b)[j].pc = job[j].pc
                                     /\ Opened(i, pc, p, b)[j].at = job[j].at
  BY DEF Opened, JobType

(* What a goroutine writes changes the file it has open, and no other.     *)
LEMMA WriteDisk ==
  ASSUME disk \in DiskType, job \in [Intents -> JobType], NEW i \in Intents,
         \E c \in Written(i) : WriteTo(job[i].at, c)
  PROVE  disk' \in DiskType /\ \A p \in Paths : p # job[i].at => disk'[p] = disk[p]
<1>1. job[i].at \in Paths \cup {"none"} /\ job[i].bin \in Contents
  BY DEF JobType
<1>2. PICK c \in Contents : WriteTo(job[i].at, c)
  BY <1>1 DEF Written, Contents
<1> QED
  BY <1>1, <1>2 DEF WriteTo, DiskType

(* A step of one goroutine that leaves the executable, its backup and the  *)
(* marker alone, and neither marks nor takes the executable away.          *)
LEMMA QuietJob ==
  ASSUME Inv, NEW i \in Intents, job' \in [Intents -> JobType], disk' \in DiskType,
         job'[i].pc \notin {"marked", "promoted"} \cup Away, proc.run # "none",
         \A j \in Intents \ {i} :
           /\ job'[j].pc = job[j].pc
           /\ job[j].pc = "copying" => job'[j].at = job[j].at,
         WriterInv', disk'["exec"] = disk["exec"], disk'["prev"] = disk["prev"],
         UNCHANGED <<release, cache, proc, marker, row, waived>>,
         fleet' \in FleetType, fleet'.pc = "released" => fleet.pc = "released"
  PROVE  Inv'
<1>1. TypeOK'
  BY DEF Inv, TypeOK, JobType, DiskType, FleetType
<1>2. ProcInv' /\ RowInv' /\ Recoverable' /\ CanaryGate'
  BY DEF Inv, ProcInv, RowInv, Recoverable, Usable, CanaryGate
<1>3. NetInv'
  BY DEF Inv, NetInv, Away
<1> QED
  BY <1>1, <1>2, <1>3 DEF Inv

(* The rollout learns the answer, and is not released by it.               *)
LEMMA AnsweredType ==
  ASSUME TypeOK, NEW i \in Intents, NEW ok \in BOOLEAN
  PROVE  /\ Answered(i, ok) \in FleetType
         /\ Answered(i, ok).pc = "released" => fleet.pc = "released"
  BY DEF Answered, TypeOK, FleetType

-----------------------------------------------------------------------------
LEMMA InitInv == Init => Inv
<1> SUFFICES ASSUME Init PROVE Inv
  OBVIOUS
<1>1. 0 \in 0..MaxEpoch /\ 0 \in 0..RollbackAttempts - 1
  BY BoundsAssumption
<1>2. NoJob \in JobType /\ NoJob.pc = "free" /\ NoJob.at = "none"
  BY <1>1 DEF NoJob, JobType, Steps, Contents
<1>3. \A i \in Intents : job[i].pc = "free" /\ job[i].at = "none"
  BY <1>2 DEF Init
<1>4. disk \in DiskType /\ disk["exec"] = "old" /\ disk["prev"] = "none"
  BY DEF Init, DiskType, Paths, Contents, Binaries
<1>5. TypeOK
  BY <1>1, <1>2, <1>4 DEF Init, TypeOK, JobType, DiskType, NoMarker, Binaries
<1>6. ProcInv /\ RowInv /\ WriterInv /\ NetInv /\ Recoverable /\ CanaryGate
  BY <1>3, <1>4
     DEF Init, ProcInv, RowInv, WriterInv, NetInv, Away, Recoverable, Usable, CanaryGate
<1> QED
  BY <1>5, <1>6 DEF Inv

(* The session opens, reports and ends.                                    *)
LEMMA SessionInv == ASSUME Inv, Connect \/ SessionEnd \/ Heartbeat PROVE Inv'
<1>1. proc \in ProcType /\ marker \in MarkerType /\ waived \in BOOLEAN
  BY DEF Inv, TypeOK, ProcType, MarkerType
<1>2. CASE Connect
  <2>1. /\ proc.run \in Binaries /\ proc.epoch \in 0..MaxEpoch
        /\ proc.epoch < MaxEpoch /\ (proc.run = "new" => release = "good")
    BY <1>1, <1>2 DEF Connect, ProcType
  <2>2. proc' \in ProcType /\ proc'.run = proc.run
    <3>1. proc.epoch + 1 \in 0..MaxEpoch
      BY <2>1, BoundsAssumption
    <3> QED
      BY <1>1, <1>2, <3>1 DEF Connect, ProcType
  <2>3. marker' \in MarkerType
    BY <1>2, BoundsAssumption DEF Connect, NoMarker, MarkerType
  <2>4. /\ waived' \in BOOLEAN
        /\ ~ waived' => /\ ~ waived
                        /\ \/ marker.age = "none"
                           \/ /\ disk["exec"] = proc.run
                              /\ \A i \in Intents : job[i].pc \notin {"marked", "promoted"}
    BY <1>1, <1>2 DEF Connect
  <2>5. UNCHANGED <<release, cache, job, disk, row, fleet>>
    BY <1>2 DEF Connect
  <2>6. TypeOK'
    BY <2>2, <2>3, <2>4, <2>5 DEF Inv, TypeOK, ProcType, MarkerType
  <2>7. ProcInv' /\ RowInv' /\ WriterInv' /\ CanaryGate'
    BY <2>1, <2>2, <2>5 DEF Inv, ProcInv, RowInv, WriterInv, CanaryGate, Binaries
  <2>8. NetInv'
    BY <2>1, <2>4, <2>5 DEF Inv, NetInv, Away, Binaries
  <2>9. Recoverable'
    BY <2>1, <2>4, <2>5 DEF Inv, Recoverable, Usable, Binaries
  <2> QED
    BY <2>6, <2>7, <2>8, <2>9 DEF Inv
<1>3. CASE SessionEnd
  <2>1. proc' \in ProcType /\ proc'.run = proc.run /\ proc'.link = FALSE
    BY <1>1, <1>3 DEF SessionEnd, ProcType
  <2> QED
    BY <1>3, <2>1 DEF SessionEnd, ProcType, Inv, TypeOK, ProcInv, RowInv, WriterInv, NetInv,
                      Away, Recoverable, Usable, CanaryGate
<1>4. CASE Heartbeat
  <2>1. proc.run \in Binaries /\ row' = proc.run /\ (proc.run = "new" => release = "good")
    BY <1>1, <1>4 DEF Heartbeat, ProcType, Inv, ProcInv
  <2> QED
    BY <1>4, <2>1 DEF Heartbeat, Inv, TypeOK, ProcInv, RowInv, WriterInv, NetInv, Away,
                      Recoverable, Usable, CanaryGate
<1> QED
  BY <1>2, <1>3, <1>4

(* An intent is accepted, for an administrator or for the rollout.         *)
LEMMA AcceptInv ==
  ASSUME Inv, NEW i \in Intents, Receive(i) \/ StartRollout(i)
  PROVE  Inv'
<1>1. proc.epoch \in 0..MaxEpoch /\ proc.link /\ Accept(i) /\ ~ Live(i)
  BY DEF Inv, TypeOK, Receive, StartRollout
<1>2. proc.run # "none"
  BY <1>1 DEF Inv, ProcInv
<1> DEFINE new == [NoJob EXCEPT !.pc = "run", !.epoch = proc.epoch]
<1>3. new \in JobType /\ new.pc = "run" /\ new.at = "none"
  BY <1>1 DEF NoJob, JobType, Steps, Contents
<1>4. job' = [job EXCEPT ![i] = new] /\ job \in [Intents -> JobType]
  BY <1>1 DEF Accept, Inv, TypeOK, JobType
<1> HIDE DEF new
<1>5. /\ job' \in [Intents -> JobType] /\ job'[i].pc = "run"
      /\ \A j \in Intents \ {i} : job'[j] = job[j]
  BY <1>3, <1>4
<1>6. WriterInv'
  BY <1>3, <1>4, <1>5 DEF Inv, WriterInv
<1>7. disk' = disk /\ disk \in DiskType
  BY DEF Receive, StartRollout, Inv, TypeOK, DiskType
<1>8. /\ UNCHANGED <<release, cache, proc, marker, row, waived>>
      /\ fleet' \in FleetType /\ (fleet'.pc = "released" => fleet.pc = "released")
  BY DEF Receive, StartRollout, Inv, TypeOK, FleetType
<1> QED
  BY <1>2, <1>5, <1>6, <1>7, <1>8, QuietJob DEF Away

-----------------------------------------------------------------------------
(* The steps of UPDATE_WORKER.                                             *)

(* From the intent to the staged binary.                                   *)
LEMMA StagingInv ==
  ASSUME Inv, NEW i \in Intents,
         FetchRelease(i) \/ FetchFails(i) \/ StageRelease(i) \/ StagingFails(i)
  PROVE  Inv'
<1>1. /\ job \in [Intents -> JobType] /\ disk \in DiskType /\ fleet \in FleetType
      /\ job[i] \in JobType
  BY DEF Inv, TypeOK, JobType, DiskType, FleetType
<1>2. proc.run # "none" /\ UNCHANGED <<release, cache, proc, marker, row, fleet, waived>>
  BY DEF FetchRelease, FetchFails, StageRelease, StagingFails, At
<1>3. "load" \in Steps /\ "staged" \in Steps /\ "failed" \in Steps
  BY DEF Steps
<1>4. CASE FetchRelease(i)
  <2>1. ServedSum \in Contents
    BY DEF ServedSum, Served, Latest, Inv, TypeOK, Contents, Binaries
  <2>2. /\ job' \in [Intents -> JobType] /\ job'[i].pc = "load" /\ job'[i].at = "stage"
        /\ \A j \in Intents \ {i} : job'[j].pc = job[j].pc /\ job'[j].at = job[j].at
    BY <1>1, <1>3, <1>4, <2>1, OpenedJob DEF FetchRelease, Paths
  <2>3. disk' \in DiskType /\ disk'["exec"] = disk["exec"] /\ disk'["prev"] = disk["prev"]
    BY <1>1, <1>4 DEF FetchRelease, DiskType, Paths, Contents
  <2>4. WriterInv'
    BY <2>2 DEF Inv, WriterInv
  <2> QED
    BY <1>1, <1>2, <2>2, <2>3, <2>4, QuietJob DEF Away
<1>5. CASE FetchFails(i)
  <2>1. /\ job' \in [Intents -> JobType] /\ job'[i].pc = "failed" /\ job'[i].at = job[i].at
        /\ \A j \in Intents \ {i} : job'[j] = job[j]
    BY <1>1, <1>3, <1>5, GoJob DEF FetchFails
  <2>2. WriterInv'
    BY <1>5, <2>1 DEF FetchFails, At, Inv, WriterInv
  <2> QED
    BY <1>1, <1>2, <1>5, <2>1, <2>2, QuietJob DEF FetchFails, Away
<1>6. CASE StageRelease(i)
  <2>1. /\ job' \in [Intents -> JobType] /\ job'[i].pc = "staged" /\ job'[i].at = "none"
        /\ \A j \in Intents \ {i} : job'[j] = job[j]
    BY <1>1, <1>3, <1>6, SteppedJob DEF StageRelease
  <2>2. job[i].at \notin {"exec", "prev"}
    BY <1>6 DEF StageRelease, At, Inv, WriterInv
  <2>3. disk' \in DiskType /\ disk'["exec"] = disk["exec"] /\ disk'["prev"] = disk["prev"]
    BY <1>1, <1>6, <2>2, WriteDisk DEF StageRelease, Paths
  <2>4. WriterInv'
    BY <2>1 DEF Inv, WriterInv
  <2> QED
    BY <1>1, <1>2, <2>1, <2>3, <2>4, QuietJob DEF Away
<1>7. CASE StagingFails(i)
  <2> DEFINE J == Moved("stage", "none")
  <2>1. /\ J \in [Intents -> JobType]
        /\ \A j \in Intents : J[j].pc = job[j].pc /\ J[j].at \in {job[j].at, "none"}
                              /\ (job[j].at = "exec" => J[j].at = "exec")
                              /\ (job[j].at = "prev" => J[j].at = "prev")
    BY <1>1, MovedJob DEF Paths
  <2>2. job' = Stepped(J, i, "failed")
    BY <1>7 DEF StagingFails
  <2> HIDE DEF J
  <2>3. /\ job' \in [Intents -> JobType] /\ job'[i].pc = "failed" /\ job'[i].at = "none"
        /\ \A j \in Intents \ {i} : job'[j] = J[j]
    BY <1>1, <1>3, <2>1, <2>2, SteppedJob
  <2>4. disk' \in DiskType /\ disk'["exec"] = disk["exec"] /\ disk'["prev"] = disk["prev"]
    BY <1>1, <1>7 DEF StagingFails, DiskType, Paths, Contents
  <2>5. WriterInv'
    BY <2>1, <2>3 DEF Inv, WriterInv
  <2>6. \A j \in Intents \ {i} : job[j].pc = "copying" => job'[j].at = job[j].at
    <3> SUFFICES ASSUME NEW j \in Intents \ {i}, job[j].pc = "copying"
                 PROVE  job'[j].at = job[j].at
      OBVIOUS
    <3>1. job[j].at \in {"exec", "prev", "none"}
      BY <1>1 DEF Inv, WriterInv, JobType, Paths
    <3> QED
      BY <2>1, <2>3, <3>1
  <2> QED
    BY <1>1, <1>2, <2>1, <2>3, <2>4, <2>5, <2>6, QuietJob DEF Away
<1> QED
  BY <1>4, <1>5, <1>6, <1>7

(* The marker is written, or the safety net is lost.                       *)
LEMMA MarkInv == ASSUME Inv, NEW i \in Intents, MarkUpdatePending(i) PROVE Inv'
<1>1. /\ job \in [Intents -> JobType] /\ marker \in MarkerType /\ waived \in BOOLEAN
      /\ "marked" \in Steps
  BY DEF Inv, TypeOK, JobType, MarkerType, Steps
<1>2. /\ job' \in [Intents -> JobType] /\ job'[i].pc = "marked" /\ job'[i].at = job[i].at
      /\ \A j \in Intents \ {i} : job'[j] = job[j]
  BY <1>1, GoJob DEF MarkUpdatePending
<1>3. /\ marker' \in MarkerType
      /\ (marker'.age = "young" /\ waived' = waived) \/ waived' = TRUE
  BY <1>1, BoundsAssumption DEF MarkUpdatePending, MarkerType
<1>4. job[i].pc = "staged" /\ proc.run # "none" /\ UNCHANGED <<release, cache, proc, disk, row, fleet>>
  BY DEF MarkUpdatePending, At
<1>5. TypeOK'
  BY <1>1, <1>2, <1>3, <1>4 DEF Inv, TypeOK, JobType, MarkerType
<1>6. ProcInv' /\ RowInv' /\ CanaryGate'
  BY <1>4 DEF Inv, ProcInv, RowInv, CanaryGate
<1>7. WriterInv'
  BY <1>2, <1>4 DEF Inv, WriterInv
<1>8. NetInv'
  BY <1>2, <1>3, <1>4 DEF Inv, NetInv, Away
<1>9. Recoverable'
  BY <1>3, <1>4 DEF Inv, Recoverable, Usable
<1> QED
  BY <1>5, <1>6, <1>7, <1>8, <1>9 DEF Inv

(* The staged file becomes the release file.                               *)
LEMMA PromoteInv == ASSUME Inv, NEW i \in Intents, PromoteStagedRelease(i) PROVE Inv'
<1>1. /\ job \in [Intents -> JobType] /\ disk \in DiskType /\ fleet \in FleetType
      /\ "promoted" \in Steps /\ "failed" \in Steps
  BY DEF Inv, TypeOK, JobType, DiskType, FleetType, Steps
<1>2. /\ proc.run # "none" /\ job[i].pc = "marked"
      /\ UNCHANGED <<release, cache, proc, marker, row, fleet, waived>>
  BY DEF PromoteStagedRelease, At
<1>3. PICK from \in {"stage", "rel"}, to \in {"rel", "none"}, pc \in {"promoted", "failed"} :
        job' = Stepped(Moved(from, to), i, pc)
  BY DEF PromoteStagedRelease
<1> DEFINE J == Moved(from, to)
<1>4. /\ J \in [Intents -> JobType]
      /\ \A j \in Intents : /\ J[j].pc = job[j].pc
                            /\ J[j].at = IF job[j].at = from THEN to
                                         ELSE IF job[j].at = to THEN "none" ELSE job[j].at
  BY <1>1, MovedJob DEF Paths
<1>5. job' = Stepped(J, i, pc)
  BY <1>3
<1> HIDE DEF J
<1>6. /\ job' \in [Intents -> JobType] /\ job'[i].pc = pc /\ job'[i].at = "none"
      /\ \A j \in Intents \ {i} : job'[j] = J[j]
  BY <1>1, <1>4, <1>5, SteppedJob
<1>7. disk' \in DiskType /\ disk'["exec"] = disk["exec"] /\ disk'["prev"] = disk["prev"]
  BY <1>1 DEF PromoteStagedRelease, DiskType, Paths, Contents
<1>8. WriterInv'
  <2> SUFFICES ASSUME NEW j \in Intents
               PROVE  /\ job'[j].at \in {"stage", "rel"} => job'[j].pc = "load"
                      /\ job'[j].at \in {"exec", "prev"} => job'[j].pc = "copying"
    BY DEF WriterInv
  <2>1. /\ job[j].at \in {"stage", "rel"} => job[j].pc = "load"
        /\ job[j].at \in {"exec", "prev"} => job[j].pc = "copying"
    BY DEF Inv, WriterInv
  <2>2. CASE j = i
    BY <1>6, <2>2
  <2>3. CASE j # i
    BY <1>4, <1>6, <2>1, <2>3
  <2> QED
    BY <2>2, <2>3
<1>9. \A j \in Intents \ {i} : /\ job'[j].pc = job[j].pc
                               /\ job[j].pc = "copying" => job'[j].at = job[j].at
  <2> SUFFICES ASSUME NEW j \in Intents \ {i}
               PROVE  /\ job'[j].pc = job[j].pc
                      /\ job[j].pc = "copying" => job'[j].at = job[j].at
    OBVIOUS
  <2>1. job[j].pc = "copying" => job[j].at \in {"exec", "prev", "none"}
    BY <1>1 DEF Inv, WriterInv, JobType, Paths
  <2> QED
    BY <1>4, <1>6, <2>1
<1>10. TypeOK'
  BY <1>2, <1>6, <1>7 DEF Inv, TypeOK, JobType, DiskType
<1>11. ProcInv' /\ RowInv' /\ CanaryGate' /\ Recoverable'
  BY <1>2, <1>7 DEF Inv, ProcInv, RowInv, CanaryGate, Recoverable, Usable
<1>12. NetInv'
  BY <1>2, <1>6, <1>7, <1>9 DEF Inv, NetInv, Away
<1> QED
  BY <1>8, <1>10, <1>11, <1>12 DEF Inv

(* The executable is renamed to the backup.                                *)
LEMMA BackupInv == ASSUME Inv, NEW i \in Intents, Backup(i) PROVE Inv'
<1>1. /\ job \in [Intents -> JobType] /\ disk \in DiskType /\ waived \in BOOLEAN
      /\ "backed" \in Steps
  BY DEF Inv, TypeOK, JobType, DiskType, Steps
<1>2. /\ proc.run # "none" /\ job[i].pc = "promoted"
      /\ UNCHANGED <<release, cache, proc, marker, row, fleet>>
  BY DEF Backup, At
<1>3. PICK from \in {"exec", "prev"}, to \in {"prev", "none"} :
        job' = Stepped(Moved(from, to), i, "backed")
  BY DEF Backup
<1> DEFINE J == Moved(from, to)
<1>4. /\ J \in [Intents -> JobType]
      /\ \A j \in Intents : /\ J[j].pc = job[j].pc
                            /\ J[j].at = IF job[j].at = from THEN to
                                         ELSE IF job[j].at = to THEN "none" ELSE job[j].at
  BY <1>1, MovedJob DEF Paths
<1>5. job' = Stepped(J, i, "backed")
  BY <1>3
<1> HIDE DEF J
<1>6. /\ job' \in [Intents -> JobType] /\ job'[i].pc = "backed" /\ job'[i].at = "none"
      /\ \A j \in Intents \ {i} : job'[j] = J[j]
  BY <1>1, <1>4, <1>5, SteppedJob
<1>7. WriterInv'
  <2> SUFFICES ASSUME NEW j \in Intents
               PROVE  /\ job'[j].at \in {"stage", "rel"} => job'[j].pc = "load"
                      /\ job'[j].at \in {"exec", "prev"} => job'[j].pc = "copying"
    BY DEF WriterInv
  <2>1. /\ job[j].at \in {"stage", "rel"} => job[j].pc = "load"
        /\ job[j].at \in {"exec", "prev"} => job[j].pc = "copying"
    BY DEF Inv, WriterInv
  <2>2. CASE j = i
    BY <1>6, <2>2
  <2>3. CASE j # i
    BY <1>4, <1>6, <2>1, <2>3
  <2> QED
    BY <2>2, <2>3
<1>8. /\ disk' \in DiskType /\ waived' \in BOOLEAN
      /\ ~ waived' => /\ ~ waived /\ disk["exec"] = "old"
                      /\ disk'["exec"] = "none" /\ disk'["prev"] = "old"
  BY <1>1 DEF Backup, DiskType, Paths, Contents
<1>9. TypeOK'
  BY <1>2, <1>6, <1>8 DEF Inv, TypeOK, JobType, DiskType
<1>10. ProcInv' /\ RowInv' /\ CanaryGate'
  BY <1>2 DEF Inv, ProcInv, RowInv, CanaryGate
<1>11. NetInv' /\ Recoverable'
  <2> SUFFICES ASSUME ~ waived' PROVE NetInv' /\ Recoverable'
    BY DEF NetInv, Recoverable
  <2>1. marker.age # "none" /\ \A j \in Intents : job[j].pc \notin Away
    BY <1>2, <1>8 DEF Inv, NetInv, Away
  <2>2. \A j \in Intents \ {i} : job'[j].pc = job[j].pc
    BY <1>4, <1>6
  <2> QED
    BY <1>2, <1>6, <1>8, <2>1, <2>2 DEF NetInv, Recoverable, Away
<1> QED
  BY <1>7, <1>9, <1>10, <1>11 DEF Inv

(* The release is copied to the executable.                                *)
LEMMA CopyInv ==
  ASSUME Inv, NEW i \in Intents, OpenExecutable(i) \/ CopyRelease(i) \/ CopyFails(i)
  PROVE  Inv'
<1>1. /\ job \in [Intents -> JobType] /\ disk \in DiskType /\ proc \in ProcType
      /\ "copying" \in Steps /\ "ok" \in Steps /\ "failed" \in Steps
  BY DEF Inv, TypeOK, JobType, DiskType, ProcType, Steps
<1>2. /\ proc.run # "none" /\ job[i].pc \in Away
      /\ UNCHANGED <<release, cache, marker, row, fleet, waived>>
  BY DEF OpenExecutable, CopyRelease, CopyFails, At, Away
<1>3. RowInv' /\ CanaryGate'
  BY <1>2 DEF Inv, RowInv, CanaryGate
<1>4. ~ waived => /\ marker.age # "none" /\ disk["prev"] = "old"
                  /\ \A j \in Intents \ {i} : job[j].pc \notin Away
  BY <1>2 DEF Inv, NetInv
<1>5. CASE OpenExecutable(i)
  <2>1. disk["rel"] \in Contents
    BY <1>1 DEF DiskType, Paths
  <2>2. /\ job' \in [Intents -> JobType] /\ job'[i].pc = "copying" /\ job'[i].at = "exec"
        /\ \A j \in Intents \ {i} : job'[j].pc = job[j].pc /\ job'[j].at = job[j].at
    BY <1>1, <1>5, <2>1, OpenedJob DEF OpenExecutable, Paths
  <2>3. disk' \in DiskType /\ disk'["exec"] = "part" /\ disk'["prev"] = disk["prev"]
    BY <1>1, <1>5 DEF OpenExecutable, DiskType, Paths, Contents
  <2>4. proc' = proc
    BY <1>5 DEF OpenExecutable
  <2>5. TypeOK' /\ ProcInv'
    BY <1>2, <2>2, <2>3, <2>4 DEF Inv, TypeOK, JobType, DiskType, ProcInv
  <2>6. WriterInv'
    BY <2>2 DEF Inv, WriterInv
  <2>7. NetInv' /\ Recoverable'
    BY <1>2, <1>4, <2>2, <2>3 DEF Inv, NetInv, Away, Recoverable
  <2> QED
    BY <1>3, <2>5, <2>6, <2>7 DEF Inv
<1>6. CASE CopyRelease(i)
  <2>1. /\ job' \in [Intents -> JobType] /\ job'[i].pc = "ok" /\ job'[i].at = "none"
        /\ \A j \in Intents \ {i} : job'[j] = job[j]
    BY <1>1, <1>6, SteppedJob DEF CopyRelease
  <2>2. disk' \in DiskType /\ \A p \in Paths : p # job[i].at => disk'[p] = disk[p]
    BY <1>1, <1>6, WriteDisk DEF CopyRelease
  <2>3. ~ waived => job[i].at = "exec"
    BY <1>6 DEF CopyRelease, At, Inv, NetInv
  <2>4. proc' \in ProcType /\ proc'.run = proc.run /\ proc'.link = proc.link
    BY <1>1, <1>6 DEF CopyRelease, ProcType
  <2>5. TypeOK'
    BY <1>2, <2>1, <2>2, <2>4 DEF Inv, TypeOK, JobType, DiskType, ProcType
  <2>6. ProcInv' /\ WriterInv'
    BY <1>2, <2>1, <2>4 DEF Inv, ProcInv, WriterInv
  <2>7. ~ waived => disk'["prev"] = "old"
    BY <1>4, <2>2, <2>3 DEF Paths
  <2>8. NetInv' /\ Recoverable'
    BY <1>2, <1>4, <2>1, <2>7 DEF Inv, NetInv, Away, Recoverable
  <2> QED
    BY <1>3, <2>5, <2>6, <2>8 DEF Inv
<1>7. CASE CopyFails(i)
  <2>0. proc' = proc
    BY <1>7 DEF CopyFails
  <2>1. PICK J \in [Intents -> JobType] :
          /\ job' = Stepped(J, i, "failed")
          /\ \A j \in Intents : /\ J[j].pc = job[j].pc
                                /\ job[j].at \in {"stage", "rel", "none"} => J[j].at = job[j].at
                                /\ J[j].at \in {"stage", "rel"} => job[j].at = J[j].at
                                /\ J[j].at \in {"exec", "prev"} => job[j].at \in {"exec", "prev"}
    <3>1. CASE disk["prev"] = "none"
      BY <1>1, <1>7, <3>1 DEF CopyFails
    <3>2. CASE disk["prev"] # "none"
      <4>1. job' = Stepped(Moved("prev", "exec"), i, "failed")
        BY <1>7, <3>2 DEF CopyFails
      <4>2. /\ Moved("prev", "exec") \in [Intents -> JobType]
            /\ \A j \in Intents : /\ Moved("prev", "exec")[j].pc = job[j].pc
                                  /\ Moved("prev", "exec")[j].at =
                                       IF job[j].at = "prev" THEN "exec"
                                       ELSE IF job[j].at = "exec" THEN "none" ELSE job[j].at
        BY <1>1, MovedJob DEF Paths
      <4> QED
        BY <4>1, <4>2
    <3> QED
      BY <3>1, <3>2
  <2>2. /\ job' \in [Intents -> JobType] /\ job'[i].pc = "failed" /\ job'[i].at = "none"
        /\ \A j \in Intents \ {i} : job'[j] = J[j]
    BY <1>1, <2>1, SteppedJob
  <2>3. /\ disk' \in DiskType
        /\ ~ waived => disk'["exec"] = "old" /\ disk'["prev"] = "none"
    BY <1>1, <1>4, <1>7 DEF CopyFails, DiskType, Paths, Contents
  <2>4. TypeOK' /\ ProcInv'
    BY <1>2, <2>0, <2>2, <2>3 DEF Inv, TypeOK, JobType, DiskType, ProcInv
  <2>5. WriterInv'
    BY <2>1, <2>2 DEF Inv, WriterInv
  <2>6. NetInv' /\ Recoverable'
    BY <1>2, <1>4, <2>1, <2>2, <2>3 DEF Inv, NetInv, Away, Recoverable, Usable
  <2> QED
    BY <1>3, <2>4, <2>5, <2>6 DEF Inv
<1> QED
  BY <1>5, <1>6, <1>7

(* The answer is sent or dropped.                                          *)
LEMMA FinishInv == ASSUME Inv, NEW i \in Intents, Finish(i) PROVE Inv'
<1>1. job \in [Intents -> JobType] /\ disk \in DiskType /\ disk' = disk
  BY DEF Inv, TypeOK, JobType, DiskType, Finish
<1>2. NoJob \in JobType /\ NoJob.pc = "free" /\ NoJob.at = "none"
  BY BoundsAssumption DEF NoJob, JobType, Steps, Contents
<1>3. /\ job' \in [Intents -> JobType] /\ job'[i].pc = "free" /\ job'[i].at = "none"
      /\ \A j \in Intents \ {i} : job'[j] = job[j]
  BY <1>1, <1>2 DEF Finish
<1>4. proc.run # "none" /\ WriterInv'
  BY <1>3 DEF Finish, Inv, ProcInv, WriterInv
<1>5. fleet' \in FleetType /\ (fleet'.pc = "released" => fleet.pc = "released")
  BY AnsweredType DEF Finish, Inv, TypeOK, FleetType
<1> QED
  BY <1>1, <1>3, <1>4, <1>5, QuietJob DEF Finish, Away

LEMMA GoroutineInv == ASSUME Inv, NEW i \in Intents, Goroutine(i) PROVE Inv'
  BY StagingInv, MarkInv, PromoteInv, BackupInv, CopyInv, FinishInv DEF Goroutine

-----------------------------------------------------------------------------
(* The process ends, is started again, or rolls itself back.               *)
LEMMA ProcessInv ==
  ASSUME Inv, Exit \/ Crash \/ BadBinaryExits \/ MarkerAges \/ Supervisor
  PROVE  Inv'
<1>1. proc \in ProcType /\ disk \in DiskType /\ marker \in MarkerType /\ waived \in BOOLEAN
  BY DEF Inv, TypeOK, ProcType, DiskType, MarkerType
<1>2. 0 \in 0..MaxEpoch /\ NoMarker \in MarkerType
  BY BoundsAssumption DEF NoMarker, MarkerType
<1>3. CASE Exit \/ Crash \/ BadBinaryExits
  <2>1. Die /\ UNCHANGED <<release, cache, marker, row, fleet, waived>>
    BY <1>3 DEF Exit, Crash, BadBinaryExits
  <2>2. NoJob \in JobType /\ NoJob.pc = "free" /\ NoJob.at = "none"
    BY <1>2 DEF NoJob, JobType, Steps, Contents
  <2>3. job' \in [Intents -> JobType] /\ \A i \in Intents : job'[i].pc = "free" /\ job'[i].at = "none"
    BY <2>1, <2>2 DEF Die
  <2>4. proc' \in ProcType /\ proc'.run = "none" /\ proc'.link = FALSE
    BY <1>2, <2>1 DEF Die, ProcType
  <2>5. disk' \in DiskType /\ disk'["exec"] = disk["exec"] /\ disk'["prev"] = disk["prev"]
    BY <1>1, <2>1 DEF Die, DiskType, Paths, Contents
  <2>6. TypeOK'
    BY <2>1, <2>3, <2>4, <2>5 DEF Inv, TypeOK, JobType, ProcType, DiskType
  <2>7. ProcInv' /\ RowInv' /\ WriterInv' /\ CanaryGate'
    BY <2>1, <2>3, <2>4 DEF Inv, ProcInv, RowInv, WriterInv, CanaryGate
  <2>8. NetInv' /\ Recoverable'
    BY <2>1, <2>3, <2>5 DEF Inv, NetInv, Away, Recoverable, Usable
  <2> QED
    BY <2>6, <2>7, <2>8 DEF Inv
<1>4. CASE MarkerAges
  <2>1. marker' \in MarkerType /\ marker'.age = "aged" /\ marker.age # "none"
    BY <1>1, <1>4 DEF MarkerAges, MarkerType
  <2> QED
    BY <1>4, <2>1 DEF MarkerAges, MarkerType, Inv, TypeOK, ProcInv, RowInv, WriterInv, NetInv,
                      Away, Recoverable, Usable, CanaryGate
<1>5. CASE FirstStart
  <2>1. /\ release = "unknown" /\ release' \in Releases \cup {"unknown"} /\ proc.run = "none"
        /\ UNCHANGED <<cache, proc, job, disk, marker, row, fleet, waived>>
    BY <1>5 DEF FirstStart
  <2>2. TypeOK' /\ WriterInv' /\ NetInv'
    BY <2>1 DEF Inv, TypeOK, WriterInv, NetInv
  <2>3. ProcInv' /\ RowInv' /\ CanaryGate' /\ Recoverable'
    BY <2>1 DEF Inv, ProcInv, RowInv, CanaryGate, Recoverable, Usable
  <2> QED
    BY <2>2, <2>3 DEF Inv
<1>6. CASE Start
  <2>1. marker' \in MarkerType /\ marker'.age = marker.age
    <3>1. CASE marker.age = "none"
      BY <1>1, <1>6, <3>1 DEF Start
    <3>2. CASE marker.age # "none"
      <4>1. marker.tries \in 0..RollbackAttempts - 1 /\ ~ (marker.tries + 1 >= RollbackAttempts)
        BY <1>1, <1>6, <3>2 DEF Start, MustRollBack, MarkerType
      <4>2. marker.tries + 1 \in 0..RollbackAttempts - 1
        BY <4>1, BoundsAssumption
      <4>3. marker' = [marker EXCEPT !.tries = marker.tries + 1]
        BY <1>6, <3>2 DEF Start
      <4> QED
        BY <1>1, <4>2, <4>3 DEF MarkerType
    <3> QED
      BY <3>1, <3>2
  <2>2. proc.run = "none" /\ UNCHANGED <<release, cache, job, disk, row, fleet, waived>>
    BY <1>6 DEF Start, ReachesMain
  <2>3. proc' \in ProcType /\ proc'.run # "none" /\ proc'.link = proc.link
    BY <1>1, <1>6 DEF Start, ReachesMain, ProcType, Binaries
  <2>4. TypeOK'
    BY <2>1, <2>2, <2>3 DEF Inv, TypeOK, ProcType, MarkerType
  <2>5. ProcInv' /\ RowInv' /\ WriterInv' /\ CanaryGate'
    BY <2>2, <2>3 DEF Inv, ProcInv, RowInv, WriterInv, CanaryGate
  <2>6. NetInv' /\ Recoverable'
    BY <2>1, <2>2 DEF Inv, NetInv, Away, Recoverable, Usable
  <2> QED
    BY <2>4, <2>5, <2>6 DEF Inv
<1>7. CASE CheckAndRollback
  <2>1. proc.run = "none" /\ UNCHANGED <<release, cache, proc, job, row, fleet>>
    BY <1>7 DEF CheckAndRollback, ReachesMain
  <2>2. /\ disk' \in DiskType /\ marker' \in MarkerType /\ waived' \in BOOLEAN
        /\ ~ waived' => /\ ~ waived /\ disk["prev"] # "none"
                        /\ disk'["prev"] = disk["prev"] /\ disk'["exec"] = disk["prev"]
    <3>1. marker' \in MarkerType
      BY <1>7, BoundsAssumption DEF CheckAndRollback, NoMarker, MarkerType
    <3>2. CASE disk["prev"] # "none" /\ disk' = Restored /\ UNCHANGED waived
      <4>1. waived' \in BOOLEAN /\ (~ waived' => ~ waived)
        BY <3>2 DEF Inv, TypeOK
      <4>2. disk' \in DiskType /\ disk'["prev"] = disk["prev"] /\ disk'["exec"] = disk["prev"]
        <5>1. disk \in DiskType
          BY DEF Inv, TypeOK, DiskType
        <5>2. disk' = [disk EXCEPT !["exec"] = disk["prev"]]
          BY <3>2 DEF Restored
        <5> QED
          BY <5>1, <5>2 DEF DiskType, Paths
      <4> QED
        BY <3>1, <3>2, <4>1, <4>2
    <3>3. CASE waived' = TRUE /\ UNCHANGED disk
      <4>1. disk' \in DiskType
        BY <3>3 DEF Inv, TypeOK, DiskType
      <4> QED
        BY <3>1, <3>3, <4>1
    <3> QED
      BY <1>7, <3>2, <3>3 DEF CheckAndRollback
  <2>3. \A i \in Intents : job[i].pc = "free"
    BY <2>1 DEF Inv, ProcInv
  <2>4. TypeOK'
    BY <2>1, <2>2 DEF Inv, TypeOK, DiskType, MarkerType
  <2>5. ProcInv' /\ RowInv' /\ WriterInv' /\ CanaryGate'
    BY <2>1 DEF Inv, ProcInv, RowInv, WriterInv, CanaryGate
  <2>6. NetInv' /\ Recoverable'
    BY <2>1, <2>2, <2>3 DEF Inv, NetInv, Away, Recoverable, Usable
  <2> QED
    BY <2>4, <2>5, <2>6 DEF Inv
<1> QED
  BY <1>3, <1>4, <1>5, <1>6, <1>7 DEF Supervisor

(* The master's cache and the decisions of the rollout.                    *)
LEMMA MasterInv ==
  ASSUME Inv, FetchAndCache \/ AbortRollout \/ ReleaseFleet
  PROVE  Inv'
<1>1. UNCHANGED <<release, proc, job, disk, marker, row, waived>>
  BY DEF FetchAndCache, AbortRollout, ReleaseFleet
<1>2. ProcInv' /\ RowInv' /\ WriterInv' /\ NetInv' /\ Recoverable'
  BY <1>1 DEF Inv, ProcInv, RowInv, WriterInv, NetInv, Recoverable, Usable
<1>3. cache' \in {"none", "old"}
  BY DEF FetchAndCache, AbortRollout, ReleaseFleet, Inv, TypeOK
<1>4. fleet' \in FleetType /\ (fleet'.pc = "released" => fleet.pc = "released" \/ row = "new")
  BY DEF FetchAndCache, AbortRollout, ReleaseFleet, CanaryReports, Latest, Inv, TypeOK, FleetType
<1>5. TypeOK'
  BY <1>1, <1>3, <1>4 DEF Inv, TypeOK, FleetType
<1>6. CanaryGate'
  BY <1>1, <1>4 DEF Inv, CanaryGate, RowInv
<1> QED
  BY <1>2, <1>5, <1>6 DEF Inv

LEMMA NextInv == Inv /\ [Next]_vars => Inv'
<1> SUFFICES ASSUME Inv, [Next]_vars PROVE Inv'
  OBVIOUS
<1>1. CASE UNCHANGED vars
  BY <1>1 DEF vars, Inv, TypeOK, ProcInv, RowInv, WriterInv, NetInv, Away, Recoverable, Usable, CanaryGate
<1> QED
  BY <1>1, SessionInv, AcceptInv, GoroutineInv, ProcessInv, MasterInv DEF Next

-----------------------------------------------------------------------------
(* The invariant holds in every reachable state.                           *)
THEOREM Invariance == Spec => []Inv
<1> QED
  BY InitInv, NextInv, PTL DEF Spec

(* Every variable keeps its declared shape; in particular the attempts     *)
(* counted in the marker stay below the rollback's threshold.              *)
THEOREM TypeCorrect == Spec => []TypeOK
<1>1. Inv => TypeOK
  BY DEF Inv
<1> QED
  BY <1>1, Invariance, PTL

(* An executable that is missing, cut short or does not work has the       *)
(* marker and the backup beside it, whatever updates overlap on the files  *)
(* and wherever the process is killed.                                     *)
THEOREM AlwaysRecoverable == Spec => []Recoverable
<1>1. Inv => Recoverable
  BY DEF Inv
<1> QED
  BY <1>1, Invariance, PTL

(* _process_worker_updates goes on to the fleet only with a release that   *)
(* works on the canary.                                                    *)
THEOREM CanaryProtects == Spec => []CanaryGate
<1>1. Inv => CanaryGate
  BY DEF Inv
<1> QED
  BY <1>1, Invariance, PTL

=============================================================================
