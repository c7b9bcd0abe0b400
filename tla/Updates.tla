-------------------------------- MODULE Updates --------------------------------
(***************************************************************************)
(* The update of a worker: UPDATE_WORKER in the Go worker, its updater     *)
(* with the automatic rollback, the cache of the master the binary is      *)
(* served from, and the canary rollout of auto_update.py for which this    *)
(* node is the canary.                                                     *)
(*                                                                         *)
(* An INTENT travels over the live session and its goroutine is started    *)
(* in the same step.  "old" is the installed release, "new" the latest.    *)
(* Every update uses the same staging file, release file, executable and   *)
(* backup; a goroutine that has one of them open for writing goes on       *)
(* writing when the file is renamed, and into nothing when it is removed.  *)
(***************************************************************************)
EXTENDS Naturals, FiniteSets

CONSTANTS
  Intents,          \* slots for UPDATE_WORKER intents
  None,
  RollbackAttempts, \* starts of an unconfirmed release before the rollback
  MaxEpoch          \* bound on the sessions of one process

ASSUME BoundsAssumption ==
  RollbackAttempts \in Nat \ {0} /\ MaxEpoch \in Nat /\ None \notin Intents

VARIABLES
  release,  \* what the latest release is worth, once it has been started
  cache,    \* an old binary in the master's cache; a cached latest one is as none
  proc,     \* the worker process: binary, session, restart scheduled
  job,      \* the goroutine of each accepted intent; "at": the file it writes
  disk,     \* what the files hold
  marker,   \* update_pending.json: its age and the starts counted in it
  row,      \* nodes.worker_version
  fleet,    \* _process_worker_updates
  waived    \* history: the safety net of an update was lost

vars == <<release, cache, proc, job, disk, marker, row, fleet, waived>>

Binaries == {"old", "new"}
\* "part": cut short, or the bytes of two downloads
Contents == Binaries \cup {"none", "part"}
\* worker-latest.tmp, releases/worker-latest, the executable, its .previous
Paths    == {"stage", "rel", "exec", "prev"}
\* A crashing release starts and ends; a mute one starts and never connects,
\* its reconnect loop has no end; a broken one does not reach main.
Releases == {"good", "crashing", "mute", "broken"}
Steps == {"free", "run", "load", "staged", "marked", "promoted", "backed",
          "copying", "ok", "failed"}
NoJob    == [pc |-> "free", epoch |-> 0, bin |-> "none", at |-> "none", mixed |-> FALSE]
NoMarker == [age |-> "none", tries |-> 0]

(* Every variable has its declared shape. *)
TypeOK ==
  /\ release \in Releases \cup {"unknown"}
  /\ cache \in {"none", "old"}
  /\ proc \in [run : Binaries \cup {"none"}, epoch : 0..MaxEpoch, link : BOOLEAN, exiting : BOOLEAN]
  /\ job \in [Intents -> [pc : Steps, epoch : 0..MaxEpoch, bin : Contents,
                          at : Paths \cup {"none"}, mixed : BOOLEAN]]
  /\ disk \in [Paths -> Contents]
  /\ marker \in [age : {"none", "young", "aged"}, tries : 0..RollbackAttempts - 1]
  /\ row \in Binaries
  /\ fleet \in [pc : {"idle", "sent", "wait", "released"}, i : Intents \cup {None}]
  /\ waived \in BOOLEAN

Init ==
  /\ release = "unknown"
  /\ cache \in {"none", "old"}
  /\ proc = [run |-> "old", epoch |-> 0, link |-> FALSE, exiting |-> FALSE]
  /\ job = [i \in Intents |-> NoJob]
  /\ disk = [p \in Paths |-> IF p = "exec" THEN "old" ELSE "none"]
  /\ marker = NoMarker
  /\ row = "old"
  /\ fleet = [pc |-> "idle", i |-> None]
  /\ waived = FALSE

-----------------------------------------------------------------------------
Live(i)      == job[i].pc # "free"
\* opCtx of the session the intent came in is not cancelled
Current(i)   == proc.link /\ proc.epoch = job[i].epoch
\* The semaphores are made anew by each RunOperational.
\* Slots are alike: a new intent takes one of those neither at work nor awaited.
FreeSlot     == CHOOSE i \in Intents : ~ Live(i) /\ fleet.i # i
MutationSem  == {i \in Intents : Live(i) /\ job[i].epoch = proc.epoch}
At(i, pc)    == proc.run # "none" /\ job[i].pc = pc
Go(i, pc)    == job' = [job EXCEPT ![i].pc = pc]

\* The goroutines J after i took the step to pc, with nothing open.
Stepped(J, i, pc) == [J EXCEPT ![i] = [NoJob EXCEPT !.pc = pc, !.epoch = job[i].epoch]]
\* os.OpenFile(p) with O_TRUNC by i, for b: who has it open writes the same file
Opened(i, pc, p, b) ==
  [j \in Intents |->
     IF j = i THEN [job[i] EXCEPT !.pc = pc, !.at = p, !.bin = b,
                                  !.mixed = \E k \in Intents \ {i} : job[k].at = p]
     ELSE [job[j] EXCEPT !.mixed = @ \/ job[j].at = p]]
\* os.Rename(from, to) and os.Remove(from), the latter with to = "none"
Moved(from, to) ==
  [j \in Intents |-> [job[j] EXCEPT !.at = IF @ = from THEN to
                                           ELSE IF @ = to THEN "none" ELSE @]]
\* What i has written when it is done with b: two writers may leave a mixture.
Written(i) == IF job[i].mixed THEN {job[i].bin, "part"} ELSE {job[i].bin}
WriteTo(p, c) == disk' = IF p = "none" THEN disk ELSE [disk EXCEPT ![p] = c]

\* the whole process goes: no goroutine survives it.  The staging and release
\* files it leaves are forgotten: nothing reads them before it has cut them off.
Die == /\ proc' = [run |-> "none", epoch |-> 0, link |-> FALSE, exiting |-> FALSE]
       /\ job' = [i \in Intents |-> NoJob]
       /\ disk' = [disk EXCEPT !["stage"] = "none", !["rel"] = "none"]

\* dispatch_admin_action has the answer of the intent, if it is the rollout's
Answered(i, ok) ==
  IF fleet.i # i THEN fleet
  ELSE [pc |-> IF ok THEN "wait" ELSE "idle", i |-> None]

-----------------------------------------------------------------------------
(* The session *)
\* Connect succeeds: the epoch advances and ConfirmUpdate removes the marker,
\* whichever binary this process runs.
Connect ==
  /\ proc.run # "none" /\ ~ proc.link /\ proc.epoch < MaxEpoch
  /\ proc.run = "new" => release = "good"
  /\ proc' = [proc EXCEPT !.link = TRUE, !.epoch = @ + 1]
  /\ marker' = NoMarker
  /\ waived' = (waived \/ (marker.age # "none"
                            /\ (disk["exec"] # proc.run
                                  \/ \E i \in Intents : job[i].pc \in {"marked", "promoted"})))
  /\ UNCHANGED <<release, cache, job, disk, row, fleet>>

\* A read error or deadline, or a failed heartbeat; opCancel.
SessionEnd ==
  /\ proc.link
  /\ proc' = [proc EXCEPT !.link = FALSE]
  /\ UNCHANGED <<release, cache, job, disk, marker, row, fleet, waived>>

\* HEARTBEAT and STATUS_REPORT carry the version of the running binary.
Heartbeat ==
  /\ proc.link
  /\ row' = proc.run
  /\ UNCHANGED <<release, cache, proc, job, disk, marker, fleet, waived>>

\* An administrator's request (update_worker).  A mutation that finds its
\* pool taken is refused with WORKER_BUSY.
Accept(i) == job' = [job EXCEPT ![i] = [NoJob EXCEPT !.pc = "run", !.epoch = proc.epoch]]

Receive(i) ==
  /\ proc.link /\ ~ Live(i) /\ fleet.i # i /\ i = FreeSlot
  /\ MutationSem = {}
  /\ Accept(i)
  /\ UNCHANGED <<release, cache, proc, disk, marker, row, fleet, waived>>

\* The epoch is compared and sendJSON looks at opCtx; a result of an ended
\* session is dropped.  The deferred receives give the slots back.
Finish(i) ==
  /\ job[i].pc \in {"ok", "failed"}
  /\ job' = [job EXCEPT ![i] = NoJob]
  /\ fleet' = IF Current(i) THEN Answered(i, job[i].pc = "ok") ELSE fleet
  /\ UNCHANGED <<release, cache, proc, disk, marker, row, waived>>

-----------------------------------------------------------------------------
(* UPDATE_WORKER *)
\* _fetch_manifest: its cache, the network or a local file; without any of
\* them the cycle is skipped and a download fails
Latest == "new"

\* The master serves a cached binary younger than its TTL, or downloads and
\* verifies the latest; the manifest is not compared with what is cached.
Served == IF cache = "none" THEN Latest ELSE cache
\* get_worker_sha256: the sum beside the binary get_worker_binary would serve
ServedSum == Served

\* The cached binary passes its TTL; the next request caches the latest.
FetchAndCache ==
  /\ cache = "old" /\ cache' = "none"
  /\ UNCHANGED <<release, proc, job, disk, marker, row, fleet, waived>>

\* The checksum, then the answer to the download: the staging file is opened,
\* cut off for every other update.  A binary cached or dropped between the two
\* fails the comparison.
FetchRelease(i) ==
  /\ At(i, "run") /\ Current(i)
  /\ disk' = [disk EXCEPT !["stage"] = "part"]
  /\ job' = Opened(i, "load", "stage", ServedSum)
  /\ UNCHANGED <<release, cache, proc, marker, row, fleet, waived>>

\* Without a checksum nothing is staged.
FetchFails(i) ==
  /\ At(i, "run")
  /\ Go(i, "failed")
  /\ UNCHANGED <<release, cache, proc, disk, marker, row, fleet, waived>>

\* What was downloaded, not what the file holds, is hashed and compared.
StageRelease(i) ==
  /\ At(i, "load") /\ Current(i)
  /\ \E c \in Written(i) : WriteTo(job[i].at, c)
  /\ job' = Stepped(job, i, "staged")
  /\ UNCHANGED <<release, cache, proc, marker, row, fleet, waived>>

\* Any failure removes the staging file, whoever wrote it.
StagingFails(i) ==
  /\ At(i, "run") \/ At(i, "load")
  /\ disk' = [disk EXCEPT !["stage"] = "none"]
  /\ job' = Stepped(Moved("stage", "none"), i, "failed")
  /\ UNCHANGED <<release, cache, proc, marker, row, fleet, waived>>

\* A marker that cannot be written is only warned about.
MarkDropped(i) ==
  /\ At(i, "staged")
  /\ Go(i, "marked")
  /\ UNCHANGED <<release, cache, proc, disk, marker, row, fleet, waived>>
MarkUpdatePending(i) ==
  /\ At(i, "staged")
  /\ Go(i, "marked")
  /\ \/ marker' = [age |-> "young", tries |-> 0] /\ UNCHANGED waived
     \/ waived' = TRUE /\ UNCHANGED marker
  /\ UNCHANGED <<release, cache, proc, disk, row, fleet>>

\* The release file is removed, and the staging file renamed to it, or copied
\* from another file system and removed.  Without a staging file this fails.
PromoteStagedRelease(i) ==
  /\ At(i, "marked")
  /\ \/ /\ disk["stage"] # "none"
        /\ disk' = [disk EXCEPT !["rel"] = disk["stage"], !["stage"] = "none"]
        /\ job' = Stepped(Moved("stage", "rel"), i, "promoted")
     \/ /\ disk' = [disk EXCEPT !["rel"] = "none"]
        /\ job' = Stepped(Moved("rel", "none"), i, "failed")
  /\ UNCHANGED <<release, cache, proc, marker, row, fleet, waived>>

\* The old backup is removed and the executable renamed to it.
Backup(i) ==
  /\ At(i, "promoted")
  /\ \/ /\ disk["exec"] # "none"
        /\ disk' = [disk EXCEPT !["exec"] = "none", !["prev"] = disk["exec"]]
        /\ job' = Stepped(Moved("exec", "prev"), i, "backed")
        /\ waived' = (waived \/ disk["exec"] # "old")
     \/ /\ disk' = [disk EXCEPT !["prev"] = "none"]  \* a warning, and no backup
        /\ job' = Stepped(Moved("prev", "none"), i, "backed")
        /\ waived' = TRUE
  /\ UNCHANGED <<release, cache, proc, marker, row, fleet>>

\* CopyFile: the release is opened, and the executable created or cut off.
OpenExecutable(i) ==
  /\ At(i, "backed") /\ disk["rel"] # "none"
  /\ disk' = [disk EXCEPT !["exec"] = "part"]
  /\ job' = Opened(i, "copying", "exec", disk["rel"])
  /\ UNCHANGED <<release, cache, proc, marker, row, fleet, waived>>

\* The copy is complete; the restart is scheduled.
CopyRelease(i) ==
  /\ At(i, "copying")
  /\ \E c \in Written(i) : WriteTo(job[i].at, c)
  /\ job' = Stepped(job, i, "ok")
  /\ proc' = [proc EXCEPT !.exiting = TRUE]
  /\ UNCHANGED <<release, cache, marker, row, fleet, waived>>

\* CopyFile fails: the backup, if there is one, is renamed back.
CopyFails(i) ==
  /\ At(i, "backed") \/ At(i, "copying")
  /\ IF disk["prev"] = "none"
       THEN job' = Stepped(job, i, "failed") /\ UNCHANGED disk
       ELSE /\ disk' = [disk EXCEPT !["exec"] = disk["prev"], !["prev"] = "none"]
            /\ job' = Stepped(Moved("prev", "exec"), i, "failed")
  /\ UNCHANGED <<release, cache, proc, marker, row, fleet, waived>>

\* one second later
Exit ==
  /\ proc.exiting
  /\ Die
  /\ UNCHANGED <<release, cache, marker, row, fleet, waived>>

\* The process is killed or the machine reboots.
Crash ==
  /\ proc.run # "none"
  /\ Die
  /\ UNCHANGED <<release, cache, marker, row, fleet, waived>>

\* A crashing release ends by itself.
BadBinaryExits ==
  /\ proc.run = "new" /\ release = "crashing"
  /\ Die
  /\ UNCHANGED <<release, cache, marker, row, fleet, waived>>

MarkerAges ==
  /\ marker.age = "young"
  /\ marker' = [marker EXCEPT !.age = "aged"]
  /\ UNCHANGED <<release, cache, proc, job, disk, row, fleet, waived>>

-----------------------------------------------------------------------------
(* main: the service manager starts the executable, again and again if it  *)
(* is missing, cut short or broken, and the installed binary itself checks *)
(* the marker first.                                                       *)
FirstStart ==
  /\ proc.run = "none" /\ disk["exec"] = "new" /\ release = "unknown"
  /\ release' \in Releases
  /\ UNCHANGED <<cache, proc, job, disk, marker, row, fleet, waived>>

ReachesMain ==
  /\ proc.run = "none"
  /\ disk["exec"] = "old" \/ (disk["exec"] = "new" /\ release \notin {"unknown", "broken"})

MustRollBackAged == marker.age = "aged"
MustRollBack ==
  marker.age # "none" /\ (marker.tries + 1 >= RollbackAttempts \/ marker.age = "aged")

Start ==
  /\ ReachesMain
  /\ ~ MustRollBack
  /\ marker' = IF marker.age = "none" THEN marker ELSE [marker EXCEPT !.tries = @ + 1]
  /\ proc' = [proc EXCEPT !.run = disk["exec"]]
  /\ UNCHANGED <<release, cache, job, disk, row, fleet, waived>>

RestoredLink == disk
Restored == [disk EXCEPT !["exec"] = disk["prev"]]

\* The backup is copied and renamed over the executable, if it exists and the
\* copy succeeds; the marker goes in any case and the process exits.
CheckAndRollback ==
  /\ ReachesMain
  /\ MustRollBack
  /\ \/ /\ disk["prev"] # "none"
        /\ disk' = Restored
        /\ UNCHANGED waived
     \/ waived' = TRUE /\ UNCHANGED disk
  /\ marker' = NoMarker
  /\ UNCHANGED <<release, cache, proc, job, row, fleet>>

-----------------------------------------------------------------------------
(* _process_worker_updates with a canary: this node is the first of several *)
(* outdated ones.                                                           *)
\* is_newer_version of the manifest against the row
Outdated == row # Latest

StartRollout(i) ==
  /\ fleet.pc = "idle" /\ proc.link /\ Outdated
  /\ ~ Live(i) /\ i = FreeSlot /\ MutationSem = {}
  /\ fleet' = [pc |-> "sent", i |-> i]
  /\ Accept(i)
  /\ UNCHANGED <<release, cache, proc, disk, marker, row, waived>>

\* intent_timeout, or _wait_for_node_update gives up: the rollout is aborted
AbortRollout ==
  /\ fleet.pc \in {"sent", "wait"}
  /\ fleet' = [pc |-> "idle", i |-> None]
  /\ UNCHANGED <<release, cache, proc, job, disk, marker, row, waived>>

\* The canary is connected and its row has the expected version.
CanaryConnected == proc.link
CanaryReports == proc.link /\ row = Latest

ReleaseFleet ==
  /\ fleet.pc = "wait" /\ CanaryReports
  /\ fleet' = [fleet EXCEPT !.pc = "released"]
  /\ UNCHANGED <<release, cache, proc, job, disk, marker, row, waived>>

-----------------------------------------------------------------------------
Goroutine(i) ==
  \/ FetchRelease(i) \/ FetchFails(i) \/ StageRelease(i) \/ StagingFails(i)
  \/ MarkUpdatePending(i) \/ PromoteStagedRelease(i) \/ Backup(i)
  \/ OpenExecutable(i) \/ CopyRelease(i) \/ CopyFails(i) \/ Finish(i)

Supervisor == FirstStart \/ Start \/ CheckAndRollback

Next ==
  \/ Connect \/ SessionEnd \/ Heartbeat
  \/ \E i \in Intents : Receive(i) \/ Goroutine(i) \/ StartRollout(i)
  \/ FetchAndCache
  \/ Exit \/ Crash \/ BadBinaryExits \/ MarkerAges \/ Supervisor
  \/ AbortRollout \/ ReleaseFleet

\* The restart goroutine sleeps one second; systemd restarts the worker
\* (Restart=always); a crashing release keeps crashing.
Fairness == WF_vars(Exit) /\ WF_vars(Supervisor) /\ WF_vars(BadBinaryExits)

Spec == Init /\ [][Next]_vars /\ Fairness

-----------------------------------------------------------------------------
(* Whenever the executable is missing, cut short or a release that cannot   *)
(* work, the marker and a backup of the old binary are there to undo it,    *)
(* through the renames and the copy of an installation and a kill between   *)
(* any two of them.  The exceptions the code admits are recorded by waived: *)
(* the marker could not be written, a session opened by the old process     *)
(* removed it, or no backup of the old binary could be made.                *)
Usable == disk["exec"] = "old" \/ (disk["exec"] = "new" /\ release = "good")
Recoverable == ~ Usable /\ ~ waived => marker.age # "none" /\ disk["prev"] = "old"

(* The rest of the fleet is updated only with a release that some process  *)
(* of the canary has run and connected with: a reconnect of the old binary *)
(* or an answer that the update was accepted does not open the gate.       *)
CanaryGate == fleet.pc = "released" => release = "good"

(* An installed release that reaches main and keeps crashing is replaced   *)
(* by the backup, unless the safety net is lost on the way.  The check is  *)
(* the installed binary's: one that is cut short or does not start never   *)
(* makes it, and one that runs without a session makes it no second time.  *)
BadUndone ==
  (disk["exec"] = "new" /\ release = "crashing" /\ marker.age # "none" /\ disk["prev"] = "old")
    ~> (disk["exec"] # "new" \/ waived)

=============================================================================
