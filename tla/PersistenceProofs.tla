----------------------------- MODULE PersistenceProofs -----------------------------
(***************************************************************************)
(* Proofs about what is written down: Outbox, for every number of events,  *)
(* of overlapping sweeps, of crashes and of raising statements, and        *)
(* Database, for every number of coroutines, pooled connections and        *)
(* snapshots.  An outbox entry is in the hands of one sweep at a time, and *)
(* is put away only after its handlers returned or failed often enough; a  *)
(* coroutine that had its connection to itself gets what it expects, and   *)
(* the audit log breaks only after an entry that a rollback took away.     *)
(***************************************************************************)
EXTENDS Outbox, Database, FiniteSetTheorems, WellFoundedInduction, TLAPS

-----------------------------------------------------------------------------
(* THE OUTBOX *)

(* Between two runs of the master no sweep is under way.                   *)
DownAsleep == mode = "down" => \A s \in Sweeps : sweep[s] = Asleep

(* A row that can still be handed out has a retry left, and no row was     *)
(* failed more often than its handlers were run.                           *)
RetryLeft(e) == entry[e] \in {"none", "open", "claimed"} => retries[e] < MaxRetries
Counted(e)   == retries[e] <= attempts[e]
RetryInv     == \A e \in Events : RetryLeft(e) /\ Counted(e)

(* The result a sweep is about to mark is backed by what its handlers did. *)
MarkOK(s) ==
  sweep[s].pc = "mark" =>
    /\ sweep[s].ok  => /\ sweep[s].cur \in succeeded
                       /\ sweep[s].cur \in Handled => attempts[sweep[s].cur] > 0
    /\ ~sweep[s].ok => retries[sweep[s].cur] < attempts[sweep[s].cur]
MarkInv == \A s \in Sweeps : MarkOK(s)

OutboxInv == TypeOK /\ DownAsleep /\ RetryInv /\ MarkInv /\ SoleDispatcher /\ AtLeastOnce

-----------------------------------------------------------------------------
(* A sweep that sleeps has the type of a sweep and nothing in hand.        *)
LEMMA AsleepType == Asleep \in SweepType /\ Asleep.pc = "idle"
<1>1. 0 \in 0..MaxEvents
  BY SizesAssumption
<1> QED
  BY <1>1 DEF Asleep, SweepType

(* LIMIT takes rows of the query and no others.                            *)
LEMMA FirstSubset == ASSUME NEW n, NEW S PROVE First(n, S) \subseteq S
  BY DEF First

(* A step that leaves the entries and the histories alone, and of the      *)
(* sweeps only ends some or gives some a batch, keeps the invariant.       *)
LEMMA IdleSteps ==
  ASSUME OutboxInv,
         entry' = entry, retries' = retries, attempts' = attempts, succeeded' = succeeded,
         sweep' \in [Sweeps -> SweepType],
         \A s \in Sweeps : sweep'[s].pc \in {"handle", "mark"} => sweep'[s] = sweep[s],
         mode' \in {"down", "boot", "up"}, orphaned' \in SUBSET Events,
         crashes' \in Nat, raises' \in Nat,
         mode' = "down" => \A s \in Sweeps : sweep'[s] = Asleep
  PROVE  OutboxInv'
<1> USE DEF OutboxInv
<1>1. TypeOK'
  BY DEF TypeOK
<1>2. DownAsleep' /\ RetryInv'
  BY DEF DownAsleep, RetryInv, RetryLeft, Counted
<1>3. MarkInv'
  BY DEF MarkInv, MarkOK
<1>4. SoleDispatcher'
  BY DEF SoleDispatcher, InHand
<1>5. AtLeastOnce'
  BY DEF AtLeastOnce
<1> QED
  BY <1>1, <1>2, <1>3, <1>4, <1>5

LEMMA InitInv == Init => OutboxInv
<1> SUFFICES ASSUME Init PROVE OutboxInv
  OBVIOUS
<1> USE SizesAssumption, AsleepType DEF Init
<1>1. TypeOK
  BY DEF TypeOK, EntryType
<1>2. DownAsleep /\ RetryInv /\ AtLeastOnce
  BY DEF DownAsleep, RetryInv, RetryLeft, Counted, AtLeastOnce
<1>3. MarkInv /\ SoleDispatcher
  BY DEF MarkInv, MarkOK, SoleDispatcher, InHand
<1> QED
  BY <1>1, <1>2, <1>3 DEF OutboxInv

-----------------------------------------------------------------------------
(* One lemma per action that changes an entry or a history.                *)

LEMMA PublishInv == ASSUME OutboxInv, NEW e \in Events, _publish_outbox_event(e) PROVE OutboxInv'
<1> USE DEF OutboxInv, _publish_outbox_event, Publish, hist, faults
<1>1. TypeOK'
  BY DEF TypeOK, EntryType
<1>2. DownAsleep' /\ MarkInv'
  BY DEF DownAsleep, MarkInv, MarkOK
<1>3. RetryInv' /\ AtLeastOnce'
  BY DEF TypeOK, RetryInv, RetryLeft, Counted, AtLeastOnce
<1>4. SoleDispatcher'
  BY DEF TypeOK, SoleDispatcher, InHand
<1> QED
  BY <1>1, <1>2, <1>3, <1>4

LEMMA CleanupInv == ASSUME OutboxInv, NEW e \in Events, CleanupOld(e) PROVE OutboxInv'
<1> USE DEF OutboxInv, CleanupOld, hist, faults
<1>1. TypeOK'
  BY DEF TypeOK, EntryType
<1>2. DownAsleep' /\ MarkInv'
  BY DEF DownAsleep, MarkInv, MarkOK
<1>3. RetryInv' /\ AtLeastOnce'
  BY DEF TypeOK, RetryInv, RetryLeft, Counted, AtLeastOnce
<1>4. SoleDispatcher'
  BY DEF TypeOK, SoleDispatcher, InHand
<1> QED
  BY <1>1, <1>2, <1>3, <1>4

(* The claim: only an open row is taken, so nobody else has it.            *)
LEMMA ClaimInv == ASSUME OutboxInv, NEW s \in Sweeps, NEW e \in Events, Claim(s, e) PROVE OutboxInv'
<1> USE DEF OutboxInv
<1>0. sweep[s] \in SweepType /\ sweep[s].batch \ {e} \in SUBSET Events
  BY DEF TypeOK, SweepType
<1>a. e \in 0..MaxEvents
  BY SizesAssumption DEF Events
<1>1. CASE Claimable(e)
  <2> DEFINE q == [pc |-> "handle", batch |-> sweep[s].batch \ {e}, cur |-> e, ok |-> FALSE]
  <2>1. q \in SweepType
    BY <1>0, <1>a DEF SweepType
  <2>2. /\ sweep' = [sweep EXCEPT ![s] = q]
        /\ entry' = [entry EXCEPT ![e] = "claimed"]
        /\ UNCHANGED <<retries, mode, attempts, succeeded, orphaned, crashes, raises>>
    BY <1>1 DEF Claim, hist, faults
  <2>3. TypeOK'
    BY <2>1, <2>2 DEF TypeOK, EntryType
  <2>4. sweep'[s] = q /\ q.pc = "handle" /\ q.cur = e
    BY <2>2 DEF TypeOK
  <2>5. DownAsleep'
    BY <2>2, AsleepType DEF DownAsleep, Claim
  <2>6. RetryInv' /\ AtLeastOnce'
    BY <1>1, <2>2 DEF TypeOK, RetryInv, RetryLeft, Counted, AtLeastOnce, Claimable
  <2>7. MarkInv'
    BY <2>2, <2>4 DEF TypeOK, MarkInv, MarkOK
  <2>8. SoleDispatcher'
    BY <1>1, <2>2, <2>4 DEF TypeOK, SoleDispatcher, InHand, Claimable
  <2> QED
    BY <2>3, <2>5, <2>6, <2>7, <2>8
<1>2. CASE ~Claimable(e)
  <2>1. /\ sweep' = [sweep EXCEPT ![s].batch = sweep[s].batch \ {e}]
        /\ UNCHANGED <<entry, retries, mode, attempts, succeeded, orphaned, crashes, raises>>
    BY <1>2 DEF Claim, hist, faults
  <2>2. sweep' \in [Sweeps -> SweepType] /\ sweep'[s].pc = "loop"
        /\ \A r \in Sweeps \ {s} : sweep'[r] = sweep[r]
    BY <1>0, <2>1 DEF TypeOK, SweepType, Claim
  <2>3. mode # "down"
    BY AsleepType DEF DownAsleep, Claim
  <2> QED
    BY <2>1, <2>2, <2>3, IdleSteps DEF TypeOK
<1> QED
  BY <1>1, <1>2

(* The handlers of the entry in hand are run; nobody else has it in hand.  *)
LEMMA HandleInv == ASSUME OutboxInv, NEW s \in Sweeps, NEW ok \in BOOLEAN, Handle(s, ok) PROVE OutboxInv'
<1> USE DEF OutboxInv
<1> DEFINE e == sweep[s].cur
           q == [sweep[s] EXCEPT !.pc = "mark", !.ok = ok]
<1>0. sweep[s] \in SweepType /\ sweep[s].pc = "handle"
  BY DEF TypeOK, Handle
<1>1. q \in SweepType /\ q.pc = "mark" /\ q.cur = e /\ q.ok = ok
  BY <1>0 DEF SweepType
<1>2. e \in Events /\ entry[e] = "claimed" /\ \A r \in Sweeps \ {s} : InHand(r) => sweep[r].cur # e
  BY <1>0 DEF SoleDispatcher, InHand
<1>3. /\ sweep' = [sweep EXCEPT ![s] = q]
      /\ attempts' = [attempts EXCEPT ![e] = IF e \in Handled THEN attempts[e] + 1 ELSE attempts[e]]
      /\ succeeded' = IF ok THEN succeeded \cup {e} ELSE succeeded
      /\ e \notin Handled => ok
      /\ UNCHANGED <<entry, retries, mode, orphaned, crashes, raises>>
  BY DEF Handle, faults
<1>4. TypeOK'
  BY <1>1, <1>2, <1>3 DEF TypeOK
<1>5. /\ sweep'[s] = q /\ \A r \in Sweeps \ {s} : sweep'[r] = sweep[r]
      /\ attempts'[e] = IF e \in Handled THEN attempts[e] + 1 ELSE attempts[e]
      /\ \A d \in Events \ {e} : attempts'[d] = attempts[d]
  BY <1>2, <1>3 DEF TypeOK
<1>6. \A d \in Events : attempts'[d] >= attempts[d] /\ attempts[d] \in Nat /\ retries[d] \in Nat
                         /\ attempts'[d] \in Nat
  BY <1>4, <1>5, SizesAssumption DEF TypeOK
<1>7. DownAsleep'
  BY <1>0, <1>3, AsleepType DEF DownAsleep
<1>8. RetryInv'
  BY <1>3, <1>6 DEF RetryInv, RetryLeft, Counted
<1>9. AtLeastOnce'
  <2> SUFFICES ASSUME NEW d \in Events PROVE AtLeastOnce!(d)'
    BY DEF AtLeastOnce
  <2>1. CASE d # e
    BY <2>1, <1>3, <1>5 DEF AtLeastOnce
  <2>2. CASE d = e
    BY <2>2, <1>2, <1>3
  <2> QED
    BY <2>1, <2>2
<1>10. MarkInv'
  <2> SUFFICES ASSUME NEW r \in Sweeps PROVE MarkOK(r)'
    BY DEF MarkInv
  <2>1. CASE r = s
    <3>1. ok => e \in succeeded' /\ (e \in Handled => attempts'[e] > 0)
      BY <1>2, <1>3, <1>5, <1>6
    <3>2. ~ok => retries'[e] < attempts'[e]
      BY <1>2, <1>3, <1>5, <1>6 DEF RetryInv, Counted
    <3> QED
      BY <2>1, <3>1, <3>2, <1>1, <1>5 DEF MarkOK
  <2>2. CASE r # s
    BY <2>2, <1>2, <1>3, <1>5 DEF MarkInv, MarkOK, InHand, SoleDispatcher
  <2> QED
    BY <2>1, <2>2
<1>11. SoleDispatcher'
  BY <1>0, <1>1, <1>2, <1>3, <1>5 DEF SoleDispatcher, InHand
<1> QED
  BY <1>4, <1>7, <1>8, <1>9, <1>10, <1>11

(* The entry in hand is put away, or opened again for another try.         *)
LEMMA MarkKeeps == ASSUME OutboxInv, NEW s \in Sweeps, Mark(s) PROVE OutboxInv'
<1> USE DEF OutboxInv
<1> DEFINE e  == sweep[s].cur
           ok == sweep[s].ok
           q  == [pc |-> "loop", batch |-> sweep[s].batch, cur |-> 0, ok |-> FALSE]
<1>0. sweep[s] \in SweepType /\ sweep[s].pc = "mark" /\ ok \in BOOLEAN
  BY DEF TypeOK, Mark, SweepType
<1>1. q \in SweepType /\ q.pc = "loop"
  BY <1>0, SizesAssumption DEF SweepType
<1>2. e \in Events /\ entry[e] = "claimed" /\ \A r \in Sweeps \ {s} : InHand(r) => sweep[r].cur # e
  BY <1>0 DEF SoleDispatcher, InHand
<1>3. /\ sweep' = [sweep EXCEPT ![s] = q]
      /\ entry' = [entry EXCEPT ![e] = MarkedAs(e, ok)]
      /\ retries' = [retries EXCEPT ![e] = IF ok THEN retries[e] ELSE retries[e] + 1]
      /\ UNCHANGED <<mode, attempts, succeeded, orphaned, crashes, raises>>
  BY DEF Mark, hist, faults
<1>4. /\ retries[e] \in Nat /\ retries[e] < MaxRetries /\ MaxRetries \in Nat
      /\ attempts[e] \in Nat /\ (~ok => retries[e] < attempts[e])
      /\ (ok => e \in succeeded /\ (e \in Handled => attempts[e] > 0))
  BY <1>0, <1>2, SizesAssumption DEF TypeOK, RetryInv, RetryLeft, MarkInv, MarkOK
<1>5. MarkedAs(e, ok) \in {"done", "dead", "open"}
  BY DEF MarkedAs
<1>6. (IF ok THEN retries[e] ELSE retries[e] + 1) \in 0..MaxRetries
  BY <1>4
<1>7. TypeOK'
  BY <1>1, <1>2, <1>3, <1>5, <1>6 DEF TypeOK, EntryType
<1>8. /\ sweep'[s] = q /\ \A r \in Sweeps \ {s} : sweep'[r] = sweep[r]
      /\ entry'[e] = MarkedAs(e, ok) /\ \A d \in Events \ {e} : entry'[d] = entry[d]
      /\ retries'[e] = (IF ok THEN retries[e] ELSE retries[e] + 1)
      /\ \A d \in Events \ {e} : retries'[d] = retries[d]
  BY <1>2, <1>3 DEF TypeOK
<1>9. DownAsleep'
  BY <1>0, <1>3, AsleepType DEF DownAsleep
<1>10. RetryInv'
  <2> SUFFICES ASSUME NEW d \in Events PROVE (RetryLeft(d) /\ Counted(d))'
    BY DEF RetryInv
  <2>1. CASE d = e
    BY <2>1, <1>3, <1>4, <1>8 DEF RetryInv, RetryLeft, Counted, MarkedAs
  <2>2. CASE d # e
    BY <2>2, <1>3, <1>8 DEF RetryInv, RetryLeft, Counted
  <2> QED
    BY <2>1, <2>2
<1>11. AtLeastOnce'
  <2> SUFFICES ASSUME NEW d \in Events PROVE AtLeastOnce!(d)'
    BY DEF AtLeastOnce
  <2>1. CASE d = e
    BY <2>1, <1>3, <1>4, <1>8 DEF MarkedAs
  <2>2. CASE d # e
    BY <2>2, <1>3, <1>8 DEF AtLeastOnce
  <2> QED
    BY <2>1, <2>2
<1>12. MarkInv'
  BY <1>1, <1>2, <1>3, <1>8 DEF MarkInv, MarkOK, InHand, SoleDispatcher
<1>13. SoleDispatcher'
  BY <1>1, <1>2, <1>3, <1>8 DEF SoleDispatcher, InHand
<1> QED
  BY <1>7, <1>9, <1>10, <1>11, <1>12, <1>13

(* Start-up: no sweep is under way when every claim is released.           *)
LEMMA ReplayInv == ASSUME OutboxInv, NEW s \in Sweeps, Replay(s) PROVE OutboxInv'
<1> USE DEF OutboxInv
<1> DEFINE q == [Asleep EXCEPT !.pc = "loop",
                               !.batch = First(ReplaySize, {e \in Events : Reset(e) = "open"})]
<1>1. q \in SweepType /\ q.pc = "loop"
  BY FirstSubset, AsleepType DEF Asleep, SweepType
<1>2. /\ sweep' = [sweep EXCEPT ![s] = q] /\ entry' = [e \in Events |-> Reset(e)]
      /\ mode' = "boot" /\ orphaned' = {}
      /\ UNCHANGED <<retries, attempts, succeeded, crashes, raises>>
  BY DEF Replay, hist
<1>3. \A r \in Sweeps : sweep'[r].pc \notin {"handle", "mark"}
  BY <1>1, <1>2, AsleepType DEF TypeOK, DownAsleep, Replay
<1>4. \A e \in Events : Reset(e) \in EntryType /\ (Reset(e) = entry[e]
                          \/ (entry[e] = "claimed" /\ Reset(e) = "open"))
  BY DEF Reset, TypeOK, EntryType
<1>5. TypeOK'
  BY <1>1, <1>2, <1>4 DEF TypeOK
<1>6. DownAsleep' /\ MarkInv' /\ SoleDispatcher'
  BY <1>2, <1>3 DEF DownAsleep, MarkInv, MarkOK, SoleDispatcher, InHand
<1>7. RetryInv' /\ AtLeastOnce'
  BY <1>2, <1>4 DEF RetryInv, RetryLeft, Counted, AtLeastOnce
<1> QED
  BY <1>5, <1>6, <1>7

-----------------------------------------------------------------------------
LEMMA NextInv == OutboxInv /\ [Next]_vars => OutboxInv'
<1> SUFFICES ASSUME OutboxInv, [Next]_vars PROVE OutboxInv'
  OBVIOUS
<1> USE DEF OutboxInv
<1>1. ASSUME NEW s \in Sweeps, Select(s) PROVE OutboxInv'
  <2>1. [Asleep EXCEPT !.pc = "loop", !.batch = First(BatchSize, Pending)] \in SweepType
    BY FirstSubset, AsleepType DEF Asleep, SweepType, Pending
  <2>2. sweep' \in [Sweeps -> SweepType] /\ sweep'[s].pc = "loop"
        /\ \A r \in Sweeps \ {s} : sweep'[r] = sweep[r]
    BY <1>1, <2>1 DEF TypeOK, Select, Asleep
  <2> QED
    BY <1>1, <2>2, IdleSteps DEF TypeOK, Select, hist, faults
<1>2. ASSUME NEW s \in Sweeps, SweepEnds(s) \/ SweepRaises(s) PROVE OutboxInv'
  <2>1. sweep' = [sweep EXCEPT ![s] = Asleep]
    BY <1>2 DEF SweepEnds, SweepRaises
  <2>2. sweep' \in [Sweeps -> SweepType] /\ sweep'[s] = Asleep
        /\ \A r \in Sweeps \ {s} : sweep'[r] = sweep[r]
    BY <2>1, AsleepType DEF TypeOK
  <2>3. sweep[s].pc = "mark" => sweep[s].cur \in Events
    BY DEF SoleDispatcher, InHand
  <2>4. orphaned' \in SUBSET Events /\ raises' \in Nat /\ crashes' \in Nat
    BY <1>2, <2>3 DEF TypeOK, SweepEnds, SweepRaises, faults
  <2>5. UNCHANGED <<entry, retries, mode, attempts, succeeded>>
    BY <1>2 DEF SweepEnds, SweepRaises, hist
  <2> QED
    BY <2>2, <2>4, <2>5, IdleSteps, AsleepType DEF TypeOK, DownAsleep
<1>3. CASE Crash
  BY <1>3, IdleSteps, AsleepType DEF TypeOK, Crash, hist
<1>4. CASE Ready
  BY <1>4, IdleSteps DEF TypeOK, Ready, hist, faults
<1>5. CASE UNCHANGED vars
  BY <1>5, IdleSteps DEF TypeOK, DownAsleep, vars
<1> QED
  BY <1>1, <1>2, <1>3, <1>4, <1>5, PublishInv, CleanupInv, ClaimInv, HandleInv, MarkKeeps, ReplayInv
     DEF Next, SweepStep

(***************************************************************************)
(* The inductive invariant of the outbox holds in every reachable state,   *)
(* for any number of events, sweeps, crashes and raising statements.       *)
(***************************************************************************)
THEOREM OutboxInvariance == Spec => []OutboxInv
<1> QED
  BY InitInv, NextInv, PTL DEF Spec

(***************************************************************************)
(* The rows and the sweeps stay well-typed; retry_count never passes the   *)
(* dead-letter cap.                                                        *)
(***************************************************************************)
THEOREM OutboxTypeCorrect == Spec => []TypeOK
<1>1. OutboxInv => TypeOK
  BY DEF OutboxInv
<1> QED
  BY <1>1, OutboxInvariance, PTL

(***************************************************************************)
(* However many process_pending calls overlap, and wherever the master     *)
(* stops, the handlers of an entry run in one sweep at a time.             *)
(***************************************************************************)
THEOREM DispatchedAlone == Spec => []SoleDispatcher
<1>1. OutboxInv => SoleDispatcher
  BY DEF OutboxInv
<1> QED
  BY <1>1, OutboxInvariance, PTL

(***************************************************************************)
(* An entry is marked processed only after all its handlers returned, and  *)
(* dead-lettered only after they were run max_retries times.               *)
(***************************************************************************)
THEOREM DeliveredAtLeastOnce == Spec => []AtLeastOnce
<1>1. OutboxInv => AtLeastOnce
  BY DEF OutboxInv
<1> QED
  BY <1>1, OutboxInvariance, PTL

(***************************************************************************)
(* An entry that _mark_processed has put away stays away: no overlapping   *)
(* sweep that still has it in its batch, no late _mark_processed and no    *)
(* replay_unprocessed opens it or runs its handlers again.                 *)
(***************************************************************************)
PutAway(e) == entry[e] \in {"done", "dead", "gone"}
NeverAgain ==
  \A e \in Events : PutAway(e) => entry'[e] \in {entry[e], "gone"} /\ attempts'[e] = attempts[e]
THEOREM SettledForGood == Spec => [][NeverAgain]_vars
<1>1. ASSUME OutboxInv, [Next]_vars PROVE NeverAgain
  <2> SUFFICES ASSUME NEW e \in Events, PutAway(e)
               PROVE  entry'[e] \in {entry[e], "gone"} /\ attempts'[e] = attempts[e]
    BY DEF NeverAgain
  <2> DEFINE Stays == entry'[e] \in {entry[e], "gone"} /\ attempts'[e] = attempts[e]
  <2>0. /\ entry \in [Events -> EntryType] /\ attempts \in [Events -> Nat]
        /\ \A s \in Sweeps : InHand(s) => sweep[s].cur # e
    BY <1>1 DEF OutboxInv, TypeOK, SoleDispatcher, PutAway
  <2>1. ASSUME NEW d \in Events, _publish_outbox_event(d) \/ CleanupOld(d) PROVE Stays
    BY <2>0, <2>1 DEF _publish_outbox_event, Publish, CleanupOld, PutAway, hist
  <2>2. ASSUME NEW s \in Sweeps, NEW d \in Events, Claim(s, d) PROVE Stays
    BY <2>0, <2>2 DEF Claim, Claimable, PutAway, hist
  <2>3. ASSUME NEW s \in Sweeps, NEW ok \in BOOLEAN, Handle(s, ok) PROVE Stays
    BY <2>0, <2>3 DEF Handle, InHand
  <2>4. ASSUME NEW s \in Sweeps, Mark(s) PROVE Stays
    BY <2>0, <2>4 DEF Mark, InHand, hist
  <2>5. ASSUME NEW s \in Sweeps, Replay(s) PROVE Stays
    BY <2>0, <2>5 DEF Replay, Reset, PutAway, hist
  <2>6. ASSUME NEW s \in Sweeps, Select(s) \/ SweepEnds(s) \/ SweepRaises(s) PROVE Stays
    BY <2>6 DEF Select, SweepEnds, SweepRaises, hist
  <2>7. CASE Crash \/ Ready \/ UNCHANGED vars
    BY <2>7 DEF Crash, Ready, vars, hist
  <2> QED
    BY <1>1, <2>1, <2>2, <2>3, <2>4, <2>5, <2>6, <2>7 DEF Next, SweepStep
<1> QED
  BY <1>1, OutboxInvariance, PTL DEF Spec

-----------------------------------------------------------------------------
(* THE CONNECTIONS *)

(* The types of DbTypeOK, in two parts. *)
MetricsType == [buffer : Seq(Snapshots), received : 0..MaxReports,
                dropped : SUBSET Snapshots, undone : SUBSET Rows, unlogged : SUBSET Tasks]
ConnInv ==
  /\ tx \in [Conns -> BOOLEAN]
  /\ dirty \in [Conns -> SUBSET Rows]
  /\ dlog \in [Conns -> SUBSET Entry]
  /\ writer \in Conns \cup {Free}
  /\ rows \in SUBSET Rows
  /\ chain \in SUBSET Entry
  /\ \A c \in Conns : /\ writer = c => tx[c]
                      /\ writer # c => dirty[c] = {} /\ dlog[c] = {}
BufferInv == metrics \in MetricsType /\ Len(metrics.buffer) <= BufferCap

(* The code a coroutine runs, and the connection it runs it on. *)
LogPath == {"in_trans", "lock", "head", "insert", "log_commit"}
Path(kind) ==
  CASE kind = "none"  -> {"new"}
    [] kind = "tx"    -> {"enter", "begin", "write", "exit", "ok", "raised"} \cup LogPath
    [] kind = "stmt"  -> {"write", "commit", "ok", "raised"}
    [] kind = "log"   -> {"ok", "raised"} \cup LogPath
    [] kind = "flush" -> {"drain", "write", "commit", "ok", "raised"}
Placed(t) ==
  /\ task[t] \in TaskType
  /\ task[t].pc \in Path(task[t].kind)
  /\ task[t].own => task[t].kind = "tx"
  /\ task[t].kind = "flush" => t \in Flushers
  /\ t \in Streams => task[t].kind \in {"none", "stmt"}
  /\ IF t \in Requests \cup Streams /\ Active(t) THEN On(t) \in Pool ELSE On(t) = Primary

(* A request whose connection came clean has it to itself. *)
Untouched(t, c) == t \notin dirty[c] /\ \A e \in dlog[c] : e.id # t
Wrote(t, c)     == t \in dirty[c]
LoggedOn(t, c)  == \E e \in dlog[c] : e.id = t
CleanTx(t) ==
  LET c == On(t) IN
  task[t].kind = "tx" /\ task[t].clean =>
    /\ task[t].pc \in {"enter", "begin"} => ~task[t].own /\ ~tx[c]
    /\ Active(t) /\ task[t].pc \notin {"enter", "begin"} => task[t].own /\ tx[c] /\ writer = c
    /\ task[t].pc \in {"in_trans", "lock", "head", "insert", "exit"} => Wrote(t, c)
    /\ task[t].pc \in {"lock", "head", "insert"} => task[t].inTrans
    /\ task[t].pc # "log_commit"
    /\ task[t].pc = "exit" => LoggedOn(t, c)
CleanOther(t) ==
  LET c == On(t) IN
  task[t].clean =>
    /\ task[t].kind = "stmt" /\ task[t].pc = "commit" => Wrote(t, c)
    /\ task[t].kind = "log" =>
         /\ task[t].pc = "in_trans" => ~tx[c]
         /\ task[t].pc \in {"lock", "head", "insert"} => ~task[t].inTrans
         /\ task[t].pc = "log_commit" => LoggedOn(t, c)

(* What a request of that sort has left behind when it is over, and nobody *)
(* else has written in its name.                                           *)
Kept(t) ==
  task[t].clean /\ task[t].pc = "ok" =>
    /\ task[t].kind \in {"tx", "stmt"} => t \in rows
    /\ task[t].kind \in {"tx", "log"} => Logged(t)
Traceless(t) ==
  \/ task[t].pc = "new"
  \/ task[t].clean /\ task[t].kind = "tx" /\ task[t].pc # "ok"
Trace(t) ==
  Traceless(t) =>
    /\ t \notin rows /\ ~Logged(t)
    /\ \A c \in Conns : (Active(t) /\ c = On(t)) \/ Untouched(t, c)

RequestOK(t) == CleanTx(t) /\ CleanOther(t) /\ Kept(t) /\ Trace(t)

(* A row written on the shared connection is not forgotten.                *)
BackgroundOK(t) ==
  task[t].kind \in {"tx", "stmt"} /\ task[t].pc \in LogPath \cup {"exit", "commit", "ok"}
    => t \in Somewhere

(* Nor is a row that a stream has written.                                 *)
StreamOK(t) ==
  /\ task[t].pc = "commit" => t \in rows \cup dirty[On(t)] \cup metrics.undone
  /\ task[t].pc = "ok" => t \in rows \cup metrics.undone

(* No two requests share a connection, nor one that came clean and a       *)
(* stream.                                                                 *)
Apart ==
  /\ \A t, u \in Requests : t # u /\ Active(t) /\ Active(u) => On(t) # On(u)
  /\ \A t \in Requests, s \in Streams :
       Active(t) /\ task[t].clean /\ Active(s) => On(t) # On(s)

Safe == Somewhere \cup metrics.dropped \cup ToSet(metrics.buffer) \cup UNION {Held(t) : t \in Flushers}

TasksInv ==
  /\ task \in [Tasks -> TaskType] /\ alock \in Tasks \cup {Free}
  /\ \A t \in Tasks : Placed(t)
  /\ \A t \in Requests : RequestOK(t)
  /\ \A t \in Background : BackgroundOK(t)
  /\ \A t \in Streams : StreamOK(t)
  /\ Apart

DbInv == ConnInv /\ BufferInv /\ TasksInv /\ 1..metrics.received \subseteq Safe

-----------------------------------------------------------------------------
(* The storage *)

(* What a step of a coroutine on its connection does to the others and to  *)
(* what is committed.                                                      *)
Effect(t, c) ==
  /\ \A d \in Conns \ {c} : /\ tx'[d] = tx[d] /\ dirty'[d] = dirty[d] /\ dlog'[d] = dlog[d]
                            /\ writer = d => writer' = d
  /\ rows \subseteq rows' /\ rows' \subseteq rows \cup dirty[c]
  /\ chain \subseteq chain' /\ chain' \subseteq chain \cup dlog[c]
  /\ dirty'[c] \subseteq dirty[c] \cup Written(t)
  /\ \A e \in dlog'[c] : e \in dlog[c] \/ e.id = t
  /\ metrics.undone \subseteq metrics'.undone
  /\ \A d \in Conns : dirty[d] \subseteq dirty'[d] \cup rows' \cup metrics'.undone
  /\ Somewhere \subseteq Somewhere'

LEMMA PrimaryConn == Primary \in Conns /\ Pool \subseteq Conns /\ Primary \notin Pool
  BY DisjointAssumption DEF Conns

LEMMA SameEffect ==
  ASSUME ConnInv, UNCHANGED <<connVars, rows, chain>>, metrics'.undone = metrics.undone,
         NEW t, NEW c \in Conns
  PROVE  ConnInv' /\ Effect(t, c)
  BY DEF ConnInv, connVars, Effect, Somewhere

LEMMA CommitEffect ==
  ASSUME ConnInv, NEW t, NEW c \in Conns, Commit(c), metrics'.undone = metrics.undone
  PROVE  /\ ConnInv' /\ Effect(t, c)
         /\ rows' = rows \cup dirty[c] /\ chain' = chain \cup dlog[c]
         /\ dirty'[c] = {} /\ dlog'[c] = {}
<1>1. /\ rows' = rows \cup dirty[c] /\ chain' = chain \cup dlog[c]
      /\ tx' = [tx EXCEPT ![c] = FALSE]
      /\ dirty' = [dirty EXCEPT ![c] = {}] /\ dlog' = [dlog EXCEPT ![c] = {}]
      /\ writer' = IF writer = c THEN Free ELSE writer
  BY DEF Commit, CommitRows, CommitChain, Close
<1>2. ConnInv'
  BY <1>1, NamesAssumption DEF ConnInv
<1>3. Effect(t, c)
  BY <1>1, PrimaryConn DEF ConnInv, Effect, Somewhere
<1> QED
  BY <1>1, <1>2, <1>3 DEF ConnInv

LEMMA RollbackEffect ==
  ASSUME ConnInv, metrics \in MetricsType, NEW t, NEW c \in Conns, Rollback(c)
  PROVE  /\ ConnInv' /\ Effect(t, c)
         /\ rows' = rows /\ chain' = chain /\ dirty'[c] = {} /\ dlog'[c] = {} /\ ~tx'[c]
         /\ metrics' \in MetricsType /\ metrics'.buffer = metrics.buffer
         /\ metrics'.dropped = metrics.dropped /\ metrics'.received = metrics.received
<1>1. /\ rows' = rows /\ chain' = chain
      /\ tx' = [tx EXCEPT ![c] = FALSE]
      /\ dirty' = [dirty EXCEPT ![c] = {}] /\ dlog' = [dlog EXCEPT ![c] = {}]
      /\ writer' = IF writer = c THEN Free ELSE writer
      /\ metrics' = [metrics EXCEPT !.undone   = @ \cup dirty[c],
                                    !.unlogged = @ \cup {e.id : e \in dlog[c]}]
  BY DEF Rollback, Close
<1>2. ConnInv'
  BY <1>1, NamesAssumption DEF ConnInv
<1>3. /\ metrics' \in MetricsType /\ metrics'.buffer = metrics.buffer
      /\ metrics'.dropped = metrics.dropped /\ metrics'.received = metrics.received
      /\ metrics'.undone = metrics.undone \cup dirty[c]
  <2>1. metrics.undone \cup dirty[c] \in SUBSET Rows
    BY DEF ConnInv, MetricsType
  <2>2. metrics.unlogged \cup {e.id : e \in dlog[c]} \in SUBSET Tasks
    BY DEF ConnInv, MetricsType, Entry
  <2> QED
    BY <1>1, <2>1, <2>2 DEF MetricsType
<1>4. Effect(t, c)
  BY <1>1, <1>3, PrimaryConn DEF ConnInv, Effect, Somewhere
<1> QED
  BY <1>1, <1>2, <1>3, <1>4 DEF ConnInv

LEMMA WriteEffect ==
  ASSUME ConnInv, NEW t, NEW c \in Conns, CanWrite(c), Write(c),
         dirty' \in [Conns -> SUBSET Rows], dlog' \in [Conns -> SUBSET Entry],
         \A d \in Conns \ {c} : dirty'[d] = dirty[d] /\ dlog'[d] = dlog[d],
         dirty[c] \subseteq dirty'[c], dirty'[c] \subseteq dirty[c] \cup Written(t),
         \A e \in dlog'[c] : e \in dlog[c] \/ e.id = t,
         UNCHANGED <<rows, chain>>, metrics'.undone = metrics.undone
  PROVE  ConnInv' /\ Effect(t, c) /\ tx'[c] /\ writer' = c
<1>1. /\ tx' = [tx EXCEPT ![c] = TRUE] /\ writer' = c /\ writer \in {Free, c}
      /\ Free \notin Conns /\ rows' = rows /\ chain' = chain
  BY NamesAssumption DEF CanWrite, Write
<1>2. tx' \in [Conns -> BOOLEAN] /\ tx'[c]
  BY <1>1 DEF ConnInv
<1>3. \A d \in Conns \ {c} : dirty'[d] = {} /\ dlog'[d] = {} /\ tx'[d] = tx[d]
  BY <1>1 DEF ConnInv
<1>4. ConnInv'
  BY <1>1, <1>2, <1>3 DEF ConnInv
<1>5. Effect(t, c)
  BY <1>1, <1>3, PrimaryConn DEF ConnInv, Effect, Somewhere
<1> QED
  BY <1>1, <1>2, <1>4, <1>5

LEMMA BusyEffect ==
  ASSUME ConnInv, NEW t, NEW c \in Conns, writer # c, NEW b \in BOOLEAN,
         tx' = [tx EXCEPT ![c] = b], UNCHANGED <<dirty, dlog, writer, rows, chain>>,
         metrics'.undone = metrics.undone
  PROVE  ConnInv' /\ Effect(t, c)
<1>1. tx' \in [Conns -> BOOLEAN] /\ \A d \in Conns \ {c} : tx'[d] = tx[d]
  BY DEF ConnInv
<1>2. ConnInv'
  BY <1>1 DEF ConnInv
<1>3. Effect(t, c)
  BY <1>1 DEF ConnInv, Effect, Somewhere
<1> QED
  BY <1>2, <1>3

-----------------------------------------------------------------------------
(* The buffer *)

LEMMA AppendSet ==
  ASSUME NEW S, NEW q \in Seq(S), NEW e \in S PROVE ToSet(Append(q, e)) = ToSet(q) \cup {e}
<1>1. DOMAIN Append(q, e) = (1..Len(q)) \cup {Len(q) + 1} /\ DOMAIN q = 1..Len(q)
  OBVIOUS
<1>2. (\A i \in 1..Len(q) : Append(q, e)[i] = q[i]) /\ Append(q, e)[Len(q) + 1] = e
  OBVIOUS
<1> QED
  BY <1>1, <1>2, Zenon DEF ToSet

LEMMA TailSet ==
  ASSUME NEW S, NEW q \in Seq(S), q # <<>> PROVE ToSet(q) = {Head(q)} \cup ToSet(Tail(q))
<1>1. /\ DOMAIN q = 1..Len(q) /\ DOMAIN Tail(q) = 1..(Len(q) - 1) /\ Len(q) \in Nat /\ Len(q) >= 1
      /\ Head(q) = q[1] /\ \A i \in 1..(Len(q) - 1) : Tail(q)[i] = q[i + 1]
  OBVIOUS
<1>2. ASSUME NEW x \in ToSet(q) PROVE x \in {Head(q)} \cup ToSet(Tail(q))
  <2>1. PICK i \in 1..Len(q) : x = q[i]
    BY <1>1, <1>2 DEF ToSet
  <2>2. CASE i = 1
    BY <1>1, <2>1, <2>2
  <2>3. CASE i # 1
    <3>1. i - 1 \in 1..(Len(q) - 1) /\ Tail(q)[i - 1] = q[i]
      BY <1>1, <2>3
    <3> QED
      BY <1>1, <2>1, <3>1 DEF ToSet
  <2> QED
    BY <2>2, <2>3
<1>3. ASSUME NEW x \in {Head(q)} \cup ToSet(Tail(q)) PROVE x \in ToSet(q)
  <2>1. CASE x = Head(q)
    <3>1. 1 \in DOMAIN q
      BY <1>1
    <3> QED
      BY <1>1, <2>1, <3>1 DEF ToSet
  <2>2. CASE x \in ToSet(Tail(q))
    <3>1. PICK i \in 1..(Len(q) - 1) : x = q[i + 1]
      BY <1>1, <2>2 DEF ToSet
    <3>2. i + 1 \in DOMAIN q
      BY <1>1
    <3> QED
      BY <3>1, <3>2 DEF ToSet
  <2> QED
    BY <1>3, <2>1, <2>2
<1> QED
  BY <1>2, <1>3

LEMMA ConcatSet ==
  ASSUME NEW S, NEW p \in Seq(S), NEW q \in Seq(S)
  PROVE  /\ p \o q \in Seq(S) /\ Len(p \o q) \in Nat
         /\ ToSet(p) \cup ToSet(q) \subseteq ToSet(p \o q)
<1>1. /\ DOMAIN p = 1..Len(p) /\ DOMAIN q = 1..Len(q) /\ DOMAIN (p \o q) = 1..(Len(p) + Len(q))
      /\ Len(p) \in Nat /\ Len(q) \in Nat
      /\ \A i \in 1..Len(p) : (p \o q)[i] = p[i]
      /\ \A i \in 1..Len(q) : (p \o q)[Len(p) + i] = q[i]
      /\ p \o q \in Seq(S) /\ Len(p \o q) \in Nat
  OBVIOUS
<1>2. ASSUME NEW x \in ToSet(p) PROVE x \in ToSet(p \o q)
  <2>1. PICK i \in 1..Len(p) : x = p[i]
    BY <1>1, <1>2 DEF ToSet
  <2>2. i \in DOMAIN (p \o q) /\ x = (p \o q)[i]
    BY <1>1, <2>1
  <2> QED
    BY <2>2 DEF ToSet
<1>3. ASSUME NEW x \in ToSet(q) PROVE x \in ToSet(p \o q)
  <2>1. PICK i \in 1..Len(q) : x = q[i]
    BY <1>1, <1>3 DEF ToSet
  <2>2. Len(p) + i \in DOMAIN (p \o q) /\ x = (p \o q)[Len(p) + i]
    BY <1>1, <2>1
  <2> QED
    BY <2>2 DEF ToSet
<1> QED
  BY <1>1, <1>2, <1>3

LEMMA SplitSet ==
  ASSUME NEW S, NEW q \in Seq(S), NEW n \in 0..Len(q)
  PROVE  /\ SubSeq(q, 1, n) \in Seq(S) /\ Len(SubSeq(q, 1, n)) = n
         /\ ToSet(SubSeq(q, n + 1, Len(q))) \subseteq S
         /\ ToSet(q) \subseteq ToSet(SubSeq(q, 1, n)) \cup ToSet(SubSeq(q, n + 1, Len(q)))
<1> DEFINE p == SubSeq(q, 1, n)
           r == SubSeq(q, n + 1, Len(q))
<1>1. /\ Len(q) \in Nat /\ n \in Nat /\ n <= Len(q) /\ DOMAIN q = 1..Len(q)
      /\ \A i \in 1..Len(q) : q[i] \in S
  OBVIOUS
<1>2. p \in Seq(S) /\ Len(p) = n /\ DOMAIN p = 1..n /\ \A i \in 1..n : p[i] = q[i]
  BY <1>1
<1>3. DOMAIN r = 1..(Len(q) - n) /\ \A i \in 1..(Len(q) - n) : r[i] = q[i + n]
  BY <1>1
<1> HIDE DEF p, r
<1>4. ToSet(r) \subseteq S
  <2> SUFFICES ASSUME NEW x \in ToSet(r) PROVE x \in S
    OBVIOUS
  <2>1. PICK i \in 1..(Len(q) - n) : x = q[i + n]
    BY <1>3 DEF ToSet
  <2>2. i + n \in 1..Len(q)
    BY <1>1
  <2> QED
    BY <1>1, <2>1, <2>2
<1>5. ASSUME NEW x \in ToSet(q) PROVE x \in ToSet(p) \cup ToSet(r)
  <2>1. PICK i \in 1..Len(q) : x = q[i]
    BY <1>1, <1>5 DEF ToSet
  <2>2. CASE i <= n
    <3>1. i \in DOMAIN p /\ x = p[i]
      BY <1>1, <1>2, <2>1, <2>2
    <3> QED
      BY <3>1 DEF ToSet
  <2>3. CASE ~(i <= n)
    <3>1. i - n \in DOMAIN r /\ x = r[i - n]
      BY <1>1, <1>3, <2>1, <2>3
    <3> QED
      BY <3>1 DEF ToSet
  <2> QED
    BY <2>2, <2>3
<1> QED
  BY <1>2, <1>4, <1>5 DEF p, r

(* A full buffer drops what it drops into `dropped'. *)
LEMMA BufferedOK ==
  ASSUME NEW m \in MetricsType, Len(m.buffer) <= BufferCap, NEW s \in Snapshots
  PROVE  LET r == Buffered(m, s) IN
         /\ r \in MetricsType /\ Len(r.buffer) <= BufferCap
         /\ r.received = m.received /\ r.undone = m.undone /\ r.unlogged = m.unlogged
         /\ ToSet(m.buffer) \cup m.dropped \cup {s} \subseteq ToSet(r.buffer) \cup r.dropped
<1>1. /\ m.buffer \in Seq(Snapshots) /\ Len(m.buffer) \in Nat /\ BufferCap \in Nat /\ BufferCap > 0
      /\ m.dropped \subseteq Snapshots
  BY BoundAssumption DEF MetricsType
<1>2. CASE Len(m.buffer) < BufferCap
  <2>1. Append(m.buffer, s) \in Seq(Snapshots) /\ Len(Append(m.buffer, s)) = Len(m.buffer) + 1
    BY <1>1
  <2>2. ToSet(Append(m.buffer, s)) = ToSet(m.buffer) \cup {s}
    BY <1>1, AppendSet
  <2> DEFINE r == [m EXCEPT !.buffer = Append(@, s)]
  <2>3. r \in MetricsType /\ r.buffer = Append(m.buffer, s) /\ r.received = m.received
        /\ r.undone = m.undone /\ r.unlogged = m.unlogged /\ r.dropped = m.dropped
    BY <2>1 DEF MetricsType
  <2>4. Buffered(m, s) = r
    BY <1>2 DEF Buffered
  <2>5. Len(r.buffer) <= BufferCap
    BY <1>1, <1>2, <2>1, <2>3
  <2> HIDE DEF r
  <2> QED
    BY <2>2, <2>3, <2>4, <2>5
<1>3. CASE ~(Len(m.buffer) < BufferCap)
  <2> DEFINE q == Tail(m.buffer)
             h == Head(m.buffer)
             r == [m EXCEPT !.buffer = Append(Tail(@), s), !.dropped = @ \cup {Head(m.buffer)}]
  <2>1. m.buffer # <<>> /\ Len(m.buffer) = BufferCap
    BY <1>1, <1>3
  <2>2. q \in Seq(Snapshots) /\ Len(q) = BufferCap - 1 /\ h \in Snapshots
    BY <1>1, <2>1
  <2>3. ToSet(m.buffer) = {h} \cup ToSet(q)
    BY <1>1, <2>1, TailSet
  <2>4. r = [m EXCEPT !.buffer = Append(q, s), !.dropped = m.dropped \cup {h}]
    OBVIOUS
  <2>5. Buffered(m, s) = r
    BY <1>3 DEF Buffered
  <2> HIDE DEF q, h, r
  <2>6. Append(q, s) \in Seq(Snapshots) /\ Len(Append(q, s)) = BufferCap
    BY <1>1, <2>2
  <2>7. ToSet(Append(q, s)) = ToSet(q) \cup {s}
    BY <2>2, AppendSet
  <2>8. m.dropped \cup {h} \in SUBSET Snapshots
    BY <1>1, <2>2
  <2>9. r \in MetricsType /\ r.buffer = Append(q, s) /\ r.received = m.received
        /\ r.undone = m.undone /\ r.unlogged = m.unlogged /\ r.dropped = m.dropped \cup {h}
    BY <2>4, <2>6, <2>8 DEF MetricsType
  <2>10. Len(r.buffer) <= BufferCap
    BY <1>1, <2>6, <2>9
  <2>11. ToSet(m.buffer) \cup m.dropped \cup {s} \subseteq ToSet(r.buffer) \cup r.dropped
    BY <2>3, <2>7, <2>9
  <2> QED
    BY <2>5, <2>9, <2>10, <2>11
<1> QED
  BY <1>2, <1>3

LEMMA RebufferOK ==
  ASSUME metrics \in MetricsType, NEW t, Rebuffer(t), task[t].items \in Seq(Snapshots)
  PROVE  /\ metrics' \in MetricsType /\ Len(metrics'.buffer) <= BufferCap
         /\ metrics'.received = metrics.received /\ metrics'.undone = metrics.undone
         /\ metrics'.unlogged = metrics.unlogged
         /\ ToSet(task[t].items) \cup ToSet(metrics.buffer) \cup metrics.dropped
              \subseteq ToSet(metrics'.buffer) \cup metrics'.dropped
<1> DEFINE all == task[t].items \o metrics.buffer
           n   == IF Len(all) > BufferCap THEN BufferCap ELSE Len(all)
           p   == SubSeq(all, 1, n)
           q   == SubSeq(all, n + 1, Len(all))
<1>1. metrics.buffer \in Seq(Snapshots) /\ metrics.dropped \subseteq Snapshots /\ BufferCap \in Nat
  BY BoundAssumption DEF MetricsType
<1>2. /\ all \in Seq(Snapshots) /\ Len(all) \in Nat
      /\ ToSet(task[t].items) \cup ToSet(metrics.buffer) \subseteq ToSet(all)
  BY <1>1, ConcatSet
<1>4. metrics' = [metrics EXCEPT !.buffer = p, !.dropped = metrics.dropped \cup ToSet(q)]
  BY DEF Rebuffer
<1> HIDE DEF all
<1>5. n \in 0..Len(all) /\ n <= BufferCap
  BY <1>1, <1>2
<1> HIDE DEF n
<1>6. /\ p \in Seq(Snapshots) /\ Len(p) = n /\ ToSet(q) \subseteq Snapshots
      /\ ToSet(all) \subseteq ToSet(p) \cup ToSet(q)
  BY <1>2, <1>5, SplitSet
<1> HIDE DEF p, q
<1>7. metrics.dropped \cup ToSet(q) \in SUBSET Snapshots
  BY <1>1, <1>6
<1>8. /\ metrics' \in MetricsType /\ metrics'.buffer = p
      /\ metrics'.dropped = metrics.dropped \cup ToSet(q)
      /\ metrics'.received = metrics.received /\ metrics'.undone = metrics.undone
      /\ metrics'.unlogged = metrics.unlogged
  BY <1>4, <1>6, <1>7 DEF MetricsType
<1> QED
  BY <1>2, <1>5, <1>6, <1>8

-----------------------------------------------------------------------------
(* The coroutines *)

LEMMA TaskFacts ==
  ASSUME DbInv, NEW t \in Tasks
  PROVE  /\ ConnInv /\ metrics \in MetricsType
         /\ task[t] \in TaskType /\ Placed(t) /\ On(t) \in Conns
         /\ t \in Requests => RequestOK(t)
         /\ t \in Background => BackgroundOK(t)
         /\ t \in Streams => StreamOK(t)
  BY DEF DbInv, TasksInv, BufferInv, TaskType, On

(* No other coroutine works on the connection of a request, if that came   *)
(* clean.                                                                  *)
LEMMA Alone ==
  ASSUME DbInv, NEW u \in Requests, Active(u), task[u].clean, NEW t \in Tasks \ {u}
  PROVE  On(t) # On(u)
<1>1. On(u) \in Pool /\ (t \in Requests \cup Streams /\ Active(t) => On(t) # On(u)) /\ Placed(t)
  BY TaskFacts DEF DbInv, TasksInv, Placed, Apart, Tasks
<1> QED
  BY <1>1, PrimaryConn DEF Placed

LEMMA WrittenRows ==
  ASSUME DbInv, NEW t \in Tasks
  PROVE  Written(t) \subseteq Rows /\ \A u \in Tasks \ {t} : u \notin Written(t)
<1>1. task[t].items \in Seq(Snapshots)
  BY TaskFacts DEF TaskType
<1>2. ToSet(task[t].items) \subseteq Snapshots
  BY <1>1 DEF ToSet
<1> QED
  BY <1>2, NamesAssumption DEF Written, Rows

(* What a step of t on its connection leaves true of everybody else.       *)
LEMMA OthersOK ==
  ASSUME DbInv, NEW t \in Tasks, Effect(t, On(t)), NEW u \in Tasks \ {t}, task'[u] = task[u]
  PROVE  /\ Placed(u)'
         /\ u \in Requests => RequestOK(u)'
         /\ u \in Background => BackgroundOK(u)'
         /\ u \in Streams => StreamOK(u)'
<1>1. Placed(u)'
  BY TaskFacts DEF Placed, On, Active
<1>2. u \in Background => BackgroundOK(u)'
  BY TaskFacts DEF BackgroundOK, Effect
<1>3. ASSUME u \in Requests PROVE RequestOK(u)'
  <2> DEFINE c == On(u)
  <2>1. /\ RequestOK(u) /\ c \in Conns /\ On(t) \in Conns /\ On(u)' = c /\ (Active(u)' <=> Active(u))
        /\ Active(u) /\ task[u].clean => c # On(t)
    BY <1>3, TaskFacts, Alone DEF On, Active
  <2>2. /\ Active(u) /\ task[u].clean =>
             /\ tx'[c] = tx[c] /\ dirty'[c] = dirty[c] /\ dlog'[c] = dlog[c]
             /\ writer = c => writer' = c
        /\ rows \subseteq rows' /\ chain \subseteq chain'
    BY <2>1 DEF Effect
  <2>3. CleanTx(u)' /\ CleanOther(u)'
    <3>1. CASE Active(u) /\ task[u].clean
      <4>1. CleanTx(u)'
        BY <2>1, <2>2, <3>1 DEF RequestOK, CleanTx, Wrote, LoggedOn
      <4>2. CleanOther(u)'
        BY <2>1, <2>2, <3>1 DEF RequestOK, CleanOther, Wrote, LoggedOn
      <4> QED
        BY <4>1, <4>2
    <3>2. CASE ~Active(u)
      BY <2>1, <3>2 DEF CleanTx, CleanOther, Active
    <3>3. CASE ~task[u].clean
      BY <3>3 DEF CleanTx, CleanOther
    <3> QED
      BY <3>1, <3>2, <3>3
  <2>4. Kept(u)'
    BY <2>1, <2>2 DEF RequestOK, Kept, Logged
  <2>5. Trace(u)'
    <3> SUFFICES ASSUME Traceless(u)
                 PROVE  /\ u \notin rows' /\ ~Logged(u)'
                        /\ \A d \in Conns : (Active(u) /\ d = c) \/ Untouched(u, d)'
      BY <2>1 DEF Trace, Traceless
    <3>1. u \notin rows /\ ~Logged(u) /\ \A d \in Conns : (Active(u) /\ d = c) \/ Untouched(u, d)
      BY <2>1 DEF RequestOK, Trace
    <3>2. PICK b \in Conns : b = On(t)
      BY <2>1
    <3>3. Untouched(u, b)
      <4>1. Active(u) => task[u].clean
        BY DEF Traceless, Active
      <4> QED
        BY <2>1, <3>1, <3>2, <4>1
    <3>4. u \notin rows' /\ ~Logged(u)'
      BY <3>1, <3>2, <3>3 DEF Effect, Logged, Untouched
    <3>5. Untouched(u, b)'
      BY <3>2, <3>3, WrittenRows DEF Effect, Untouched
    <3>6. ASSUME NEW d \in Conns \ {b}, Untouched(u, d) PROVE Untouched(u, d)'
      BY <3>2, <3>6 DEF Effect, Untouched
    <3> QED
      BY <3>1, <3>4, <3>5, <3>6
  <2> QED
    BY <2>3, <2>4, <2>5 DEF RequestOK
<1>4. ASSUME u \in Streams PROVE StreamOK(u)'
  <2>1. StreamOK(u) /\ On(u) \in Conns /\ On(u)' = On(u)
    BY <1>4, TaskFacts DEF On
  <2> QED
    BY <2>1 DEF StreamOK, Effect
<1> QED
  BY <1>1, <1>2, <1>3, <1>4

LEMMA SafeGrows ==
  ASSUME DbInv, NEW t \in Tasks, \A u \in Tasks \ {t} : task'[u] = task[u],
         Somewhere \subseteq Somewhere',
         ToSet(metrics.buffer) \cup metrics.dropped \subseteq Safe',
         t \in Flushers => Held(t) \subseteq Safe'
  PROVE  1..metrics.received \subseteq Safe'
<1>1. \A u \in Flushers \ {t} : Held(u)' = Held(u)
  BY DisjointAssumption DEF Held, Tasks
<1>2. UNION {Held(u) : u \in Flushers} \subseteq Safe'
  BY <1>1 DEF Safe
<1> QED
  BY <1>2 DEF DbInv, Safe

(* A step of a coroutine that has its connection.                          *)
LEMMA StepSafe ==
  ASSUME DbInv, NEW t \in Tasks, Active(t), Effect(t, On(t)), ConnInv', BufferInv',
         task' \in [Tasks -> TaskType], \A u \in Tasks \ {t} : task'[u] = task[u],
         Active(t)' => On(t)' = On(t), task'[t].clean = task[t].clean, alock' \in Tasks \cup {Free},
         Placed(t)', t \in Requests => RequestOK(t)', t \in Background => BackgroundOK(t)',
         t \in Streams => StreamOK(t)',
         metrics'.received = metrics.received,
         ToSet(metrics.buffer) \cup metrics.dropped \subseteq Safe',
         t \in Flushers => Held(t) \subseteq Safe'
  PROVE  DbInv'
<1>1. \A u \in Tasks : Placed(u)' /\ (u \in Requests => RequestOK(u)')
                       /\ (u \in Background => BackgroundOK(u)') /\ (u \in Streams => StreamOK(u)')
  BY OthersOK
<1>2. Apart'
  <2>1. ASSUME NEW u \in Tasks, Active(u)'
        PROVE  Active(u) /\ On(u)' = On(u) /\ task'[u].clean = task[u].clean
    BY <2>1 DEF Active, On
  <2> QED
    BY <2>1 DEF DbInv, TasksInv, Apart, Tasks
<1>3. TasksInv'
  BY <1>1, <1>2 DEF TasksInv, Tasks
<1>4. 1..metrics'.received \subseteq Safe'
  BY SafeGrows DEF Effect
<1> QED
  BY <1>3, <1>4 DEF DbInv

(* ... and that leaves the buffer, or drops what it takes from it. *)
LEMMA StepOK ==
  ASSUME DbInv, NEW t \in Tasks, Active(t), Effect(t, On(t)), ConnInv', BufferInv',
         task' \in [Tasks -> TaskType], \A u \in Tasks \ {t} : task'[u] = task[u],
         Active(t)' => On(t)' = On(t), task'[t].clean = task[t].clean, alock' \in Tasks \cup {Free},
         Placed(t)', t \in Requests => RequestOK(t)', t \in Background => BackgroundOK(t)',
         t \in Streams => StreamOK(t)',
         metrics'.received = metrics.received,
         ToSet(metrics.buffer) \cup metrics.dropped \subseteq ToSet(metrics'.buffer) \cup metrics'.dropped,
         t \in Flushers => Held(t) \subseteq Safe'
  PROVE  DbInv'
<1>1. ToSet(metrics.buffer) \cup metrics.dropped \subseteq Safe'
  BY DEF Safe
<1> QED
  BY <1>1, StepSafe

LEMMA UnbornType == Unborn \in TaskType
<1>1. 0 \in Nat /\ <<>> \in Seq(Snapshots)
  OBVIOUS
<1> QED
  BY <1>1, PrimaryConn DEF Unborn, TaskType, Steps

(* Goto, field by field. *)
Final == {"ok", "raised"}
LEMMA GotoOK ==
  ASSUME DbInv, NEW t \in Tasks, NEW pc \in Steps, Goto(t, pc)
  PROVE  /\ task' \in [Tasks -> TaskType]
         /\ \A u \in Tasks \ {t} : task'[u] = task[u]
         /\ task'[t].kind = task[t].kind /\ task'[t].clean = task[t].clean /\ task'[t].pc = pc
         /\ pc \in Final => On(t)' = Primary /\ ~task'[t].own /\ ~Active(t)'
         /\ pc \notin Final => /\ On(t)' = On(t) /\ task'[t].own = task[t].own
                               /\ task'[t].inTrans = task[t].inTrans
                               /\ task'[t].seq = task[t].seq /\ task'[t].prev = task[t].prev
                               /\ task'[t].items = task[t].items
<1>1. task \in [Tasks -> TaskType] /\ task[t] \in TaskType
  BY TaskFacts DEF DbInv, TasksInv
<1>2. CASE pc \in Final
  <2> DEFINE r == [Unborn EXCEPT !.kind = task[t].kind, !.pc = pc, !.clean = task[t].clean]
  <2>1. task' = [task EXCEPT ![t] = r]
    BY <1>2 DEF Goto, Final
  <2>2. r \in TaskType /\ r.kind = task[t].kind /\ r.pc = pc /\ r.clean = task[t].clean
        /\ r.conn = Primary /\ r.own = FALSE
    <3>1. /\ task[t].kind \in {"none", "tx", "stmt", "log", "flush"} /\ task[t].clean \in BOOLEAN
          /\ Unborn.conn = Primary /\ Unborn.own = FALSE
      BY <1>1 DEF TaskType, Unborn
    <3> QED
      BY <3>1, UnbornType DEF TaskType
  <2> HIDE DEF r
  <2> QED
    BY <1>1, <1>2, <2>1, <2>2 DEF On, Active, Final
<1>3. CASE pc \notin Final
  <2> DEFINE r == [task[t] EXCEPT !.pc = pc]
  <2>1. task' = [task EXCEPT ![t] = r]
    BY <1>3 DEF Goto, Final
  <2>2. /\ r \in TaskType /\ r.kind = task[t].kind /\ r.pc = pc /\ r.clean = task[t].clean
        /\ r.conn = task[t].conn /\ r.own = task[t].own /\ r.inTrans = task[t].inTrans
        /\ r.seq = task[t].seq /\ r.prev = task[t].prev /\ r.items = task[t].items
    BY <1>1 DEF TaskType
  <2> HIDE DEF r
  <2> QED
    BY <1>1, <1>3, <2>1, <2>2 DEF On
<1> QED
  BY <1>2, <1>3

(* A row of the background that is written stays where it can be found.    *)
AfterWrite == LogPath \cup {"exit", "commit", "ok"}
LEMMA BackgroundGoes ==
  ASSUME DbInv, NEW t \in Tasks, Somewhere \subseteq Somewhere', task'[t].kind = task[t].kind,
         task'[t].kind \in {"tx", "stmt"} /\ task'[t].pc \in AfterWrite
           => task[t].pc \in AfterWrite \/ t \in Somewhere'
  PROVE  t \in Background => BackgroundOK(t)'
  BY TaskFacts DEF BackgroundOK, AfterWrite

(* A request that goes on and commits nothing has still left no trace.     *)
LEMMA TraceGoes ==
  ASSUME DbInv, NEW t \in Requests, Active(t), Effect(t, On(t)), Active(t)', On(t)' = On(t),
         task'[t].kind = task[t].kind, task'[t].clean = task[t].clean,
         UNCHANGED <<rows, chain>>
  PROVE  Trace(t)'
<1>1. PICK c \in Conns : c = On(t)
  BY TaskFacts DEF Tasks
<1>2. RequestOK(t) /\ t \in Tasks
  BY TaskFacts DEF Tasks
<1> SUFFICES ASSUME Traceless(t)'
             PROVE  /\ t \notin rows' /\ ~Logged(t)'
                    /\ \A d \in Conns : d = c \/ Untouched(t, d)'
  BY <1>1 DEF Trace
<1>3. Traceless(t)
  BY DEF Traceless, Active
<1>4. t \notin rows /\ ~Logged(t) /\ \A d \in Conns \ {c} : Untouched(t, d)
  BY <1>1, <1>2, <1>3 DEF RequestOK, Trace
<1>5. \A d \in Conns \ {c} : Untouched(t, d)'
  BY <1>1, <1>4 DEF Effect, Untouched
<1> QED
  BY <1>4, <1>5 DEF Logged

(* A step of the coroutine that leaves the storage and the buffer alone.   *)
LEMMA QuietStep ==
  ASSUME DbInv, NEW t \in Tasks, Active(t), UNCHANGED <<connVars, rows, chain, metrics>>,
         task' \in [Tasks -> TaskType], \A u \in Tasks \ {t} : task'[u] = task[u],
         Active(t)', On(t)' = On(t), alock' \in Tasks \cup {Free},
         task'[t].kind = task[t].kind, task'[t].clean = task[t].clean, task'[t].own = task[t].own,
         task'[t].pc \in Path(task[t].kind),
         task'[t].pc \in AfterWrite => task[t].pc \in AfterWrite,
         task[t].pc # "write", task'[t].pc # "commit", t \in Requests => CleanTx(t)' /\ CleanOther(t)'
  PROVE  DbInv'
<1>1. ConnInv' /\ Effect(t, On(t))
  BY TaskFacts, SameEffect
<1>2. Placed(t)'
  BY TaskFacts DEF Placed
<1>3. t \in Requests => RequestOK(t)'
  <2>1. Kept(t)'
    BY DEF Kept, Active
  <2> QED
    BY <1>1, <2>1, TraceGoes DEF RequestOK
<1>4. (t \in Background => BackgroundOK(t)') /\ StreamOK(t)'
  BY <1>1, BackgroundGoes DEF Effect, StreamOK, Active
<1>5. BufferInv' /\ Held(t) = {}
  BY DEF DbInv, BufferInv, Held
<1> QED
  BY <1>1, <1>2, <1>3, <1>4, <1>5, StepOK

(* The code a coroutine is in tells what it is there for. *)
LEMMA KindOf ==
  ASSUME DbInv, NEW t \in Tasks
  PROVE  /\ task[t].pc \in {"enter", "begin", "exit"} => task[t].kind = "tx"
         /\ task[t].pc \in LogPath => task[t].kind \in {"tx", "log"}
         /\ task[t].pc = "write" => task[t].kind \in {"tx", "stmt", "flush"}
         /\ task[t].pc = "commit" => task[t].kind \in {"stmt", "flush"}
         /\ task[t].pc = "drain" => task[t].kind = "flush"
         /\ task[t].kind = "none" => task[t].pc = "new"
<1>1. /\ task[t].kind \in {"none", "tx", "stmt", "log", "flush"}
      /\ task[t].pc \in Path(task[t].kind)
  BY TaskFacts DEF TaskType, Placed
<1>2. CASE task[t].kind = "none"
  BY <1>1, <1>2 DEF Path, LogPath
<1>3. CASE task[t].kind = "tx"
  BY <1>1, <1>3 DEF Path, LogPath
<1>4. CASE task[t].kind = "stmt"
  BY <1>1, <1>4 DEF Path, LogPath
<1>5. CASE task[t].kind = "log"
  BY <1>1, <1>5 DEF Path, LogPath
<1>6. CASE task[t].kind = "flush"
  BY <1>1, <1>6 DEF Path, LogPath
<1> QED
  BY <1>1, <1>2, <1>3, <1>4, <1>5, <1>6

LEMMA EnterStep == ASSUME DbInv, NEW t \in Tasks, Enter(t) PROVE DbInv'
<1>1. task[t].pc = "enter" /\ UNCHANGED <<connVars, rows, chain, alock, metrics>>
      /\ Goto(t, IF tx[On(t)] THEN "write" ELSE "begin")
  BY DEF Enter
<1>2. task[t].kind = "tx" /\ Active(t)
  BY <1>1, KindOf DEF Active
<1>3. PICK pc \in {"write", "begin"} : /\ pc = IF tx[On(t)] THEN "write" ELSE "begin"
                                       /\ Goto(t, pc)
  BY <1>1
<1>4. /\ task' \in [Tasks -> TaskType] /\ \A u \in Tasks \ {t} : task'[u] = task[u]
      /\ task'[t].kind = "tx" /\ task'[t].clean = task[t].clean /\ task'[t].pc = pc
      /\ On(t)' = On(t) /\ task'[t].own = task[t].own
  <2>1. pc \in Steps /\ pc \notin Final
    BY DEF Steps, Final
  <2> QED
    BY <1>2, <1>3, <2>1, GotoOK
<1>5. ASSUME t \in Requests PROVE CleanTx(t)' /\ CleanOther(t)'
  <2>1. CleanTx(t)
    BY <1>5, TaskFacts DEF RequestOK
  <2>2. task[t].clean => ~task[t].own /\ ~tx[On(t)]
    BY <1>1, <1>2, <2>1 DEF CleanTx
  <2>3. tx' = tx
    BY <1>1 DEF connVars
  <2> QED
    BY <1>3, <1>4, <2>2, <2>3 DEF CleanTx, CleanOther
<1>6. alock' \in Tasks \cup {Free}
  BY <1>1 DEF DbInv, TasksInv
<1> QED
  BY <1>1, <1>2, <1>4, <1>5, <1>6, QuietStep DEF Path, Active, AfterWrite, LogPath

LEMMA ReadInTransStep == ASSUME DbInv, NEW t \in Tasks, ReadInTrans(t) PROVE DbInv'
<1>1. task[t].pc = "in_trans" /\ UNCHANGED <<connVars, rows, chain, alock, metrics>>
      /\ task' = [task EXCEPT ![t] = [task[t] EXCEPT !.pc = "lock", !.inTrans = tx[On(t)]]]
  BY DEF ReadInTrans
<1>2. task[t].kind \in {"tx", "log"} /\ Active(t) /\ task[t] \in TaskType /\ tx[On(t)] \in BOOLEAN
  BY <1>1, KindOf, TaskFacts DEF LogPath, Active, ConnInv
<1> DEFINE r == [task[t] EXCEPT !.pc = "lock", !.inTrans = tx[On(t)]]
<1>3. /\ r \in TaskType /\ r.kind = task[t].kind /\ r.clean = task[t].clean /\ r.pc = "lock"
      /\ r.conn = task[t].conn /\ r.own = task[t].own /\ r.inTrans = tx[On(t)]
  BY <1>2 DEF TaskType, Steps
<1> HIDE DEF r
<1>4. /\ task' \in [Tasks -> TaskType] /\ task'[t] = r
      /\ \A u \in Tasks \ {t} : task'[u] = task[u]
  BY <1>1, <1>3 DEF DbInv, TasksInv, r
<1>5. On(t)' = On(t) /\ tx' = tx /\ dirty' = dirty /\ dlog' = dlog /\ writer' = writer
  BY <1>1, <1>3, <1>4 DEF On, connVars
<1>6. ASSUME t \in Requests PROVE CleanTx(t)' /\ CleanOther(t)'
  <2>1. CleanTx(t) /\ CleanOther(t)
    BY <1>6, TaskFacts DEF RequestOK
  <2>2. CleanTx(t)'
    BY <1>1, <1>2, <1>3, <1>4, <1>5, <2>1 DEF CleanTx, Active, Wrote
  <2>3. CleanOther(t)'
    BY <1>1, <1>2, <1>3, <1>4, <1>5, <2>1 DEF CleanOther
  <2> QED
    BY <2>2, <2>3
<1>7. alock' \in Tasks \cup {Free}
  BY <1>1 DEF DbInv, TasksInv
<1> QED
  BY <1>1, <1>2, <1>3, <1>4, <1>5, <1>6, <1>7, QuietStep DEF Path, Active, AfterWrite, LogPath

LEMMA AuditLockStep == ASSUME DbInv, NEW t \in Tasks, AuditLock(t) PROVE DbInv'
<1>1. task[t].pc = "lock" /\ UNCHANGED <<connVars, rows, chain, metrics>> /\ alock' = t /\ Goto(t, "head")
  BY DEF AuditLock
<1>2. task[t].kind \in {"tx", "log"} /\ Active(t)
  BY <1>1, KindOf DEF LogPath, Active
<1>3. /\ task' \in [Tasks -> TaskType] /\ \A u \in Tasks \ {t} : task'[u] = task[u]
      /\ task'[t].kind = task[t].kind /\ task'[t].clean = task[t].clean /\ task'[t].pc = "head"
      /\ On(t)' = On(t) /\ task'[t].own = task[t].own /\ task'[t].inTrans = task[t].inTrans
  <2>1. "head" \in Steps /\ "head" \notin Final
    BY DEF Steps, Final
  <2> QED
    BY <1>1, <2>1, GotoOK
<1>4. tx' = tx /\ dirty' = dirty /\ dlog' = dlog /\ writer' = writer
  BY <1>1 DEF connVars
<1>5. ASSUME t \in Requests PROVE CleanTx(t)' /\ CleanOther(t)'
  <2>1. CleanTx(t) /\ CleanOther(t)
    BY <1>5, TaskFacts DEF RequestOK
  <2>2. CleanTx(t)'
    BY <1>1, <1>2, <1>3, <1>4, <2>1 DEF CleanTx, Active, Wrote
  <2>3. CleanOther(t)'
    BY <1>1, <1>2, <1>3, <1>4, <2>1 DEF CleanOther
  <2> QED
    BY <2>2, <2>3
<1> QED
  BY <1>1, <1>2, <1>3, <1>5, QuietStep DEF Path, Active, AfterWrite, LogPath

LEMMA ReadHeadStep ==
  ASSUME DbInv, NEW t \in Tasks, ReadHead(t)
  PROVE  DbInv' /\ On(t)' = On(t) /\ \A u \in Tasks \ {t} : task'[u] = task[u]
<1>1. task[t].pc = "head" /\ UNCHANGED <<connVars, rows, chain, alock, metrics>>
  BY DEF ReadHead
<1>2. task[t].kind \in {"tx", "log"} /\ Active(t) /\ task[t] \in TaskType
  BY <1>1, KindOf, TaskFacts DEF LogPath, Active
<1>3. PICK n \in Nat, p \in Tasks \cup {Genesis} :
        task' = [task EXCEPT ![t] = [task[t] EXCEPT !.pc = "insert", !.seq = n, !.prev = p]]
  <2>1. CASE Visible(On(t)) = {} /\ task' = [task EXCEPT ![t] = [@ EXCEPT !.pc = "insert", !.seq = 1, !.prev = Genesis]]
    BY <2>1
  <2>2. ASSUME NEW e \in Visible(On(t)),
               task' = [task EXCEPT ![t] = [@ EXCEPT !.pc = "insert", !.seq = e.seq + 1, !.prev = e.id]]
        PROVE  \E n \in Nat, p \in Tasks \cup {Genesis} :
                 task' = [task EXCEPT ![t] = [task[t] EXCEPT !.pc = "insert", !.seq = n, !.prev = p]]
    <3>1. e \in Entry
      BY TaskFacts DEF Visible, ConnInv
    <3>2. e.seq + 1 \in Nat /\ e.id \in Tasks \cup {Genesis}
      BY <3>1 DEF Entry
    <3> QED
      BY <2>2, <3>2
  <2> QED
    BY <2>1, <2>2 DEF ReadHead
<1> DEFINE r == [task[t] EXCEPT !.pc = "insert", !.seq = n, !.prev = p]
<1>4. /\ r \in TaskType /\ r.kind = task[t].kind /\ r.clean = task[t].clean /\ r.pc = "insert"
      /\ r.conn = task[t].conn /\ r.own = task[t].own /\ r.inTrans = task[t].inTrans
  BY <1>2 DEF TaskType, Steps
<1> HIDE DEF r
<1>5. /\ task' \in [Tasks -> TaskType] /\ task'[t] = r
      /\ \A u \in Tasks \ {t} : task'[u] = task[u]
  BY <1>3, <1>4 DEF DbInv, TasksInv, r
<1>6. On(t)' = On(t) /\ tx' = tx /\ dirty' = dirty /\ dlog' = dlog /\ writer' = writer
  BY <1>1, <1>4, <1>5 DEF On, connVars
<1>7. ASSUME t \in Requests PROVE CleanTx(t)' /\ CleanOther(t)'
  <2>1. CleanTx(t) /\ CleanOther(t)
    BY <1>7, TaskFacts DEF RequestOK
  <2>2. CleanTx(t)'
    BY <1>1, <1>2, <1>4, <1>5, <1>6, <2>1 DEF CleanTx, Active, Wrote
  <2>3. CleanOther(t)'
    BY <1>1, <1>2, <1>4, <1>5, <1>6, <2>1 DEF CleanOther
  <2> QED
    BY <2>2, <2>3
<1>8. alock' \in Tasks \cup {Free}
  BY <1>1 DEF DbInv, TasksInv
<1> QED
  BY <1>1, <1>2, <1>4, <1>5, <1>6, <1>7, <1>8, QuietStep DEF Path, Active, AfterWrite, LogPath

LEMMA BeginStep == ASSUME DbInv, NEW t \in Tasks, Begin(t) PROVE DbInv'
<1> DEFINE r == [task[t] EXCEPT !.pc = "write", !.own = TRUE]
<1>1. /\ task[t].pc = "begin" /\ CanWrite(On(t)) /\ Write(On(t))
      /\ task' = [task EXCEPT ![t] = r]
      /\ UNCHANGED <<dirty, dlog, rows, chain, alock, metrics>>
  BY DEF Begin
<1>2. task[t].kind = "tx" /\ Active(t) /\ task[t] \in TaskType /\ On(t) \in Conns /\ ConnInv
  BY <1>1, KindOf, TaskFacts DEF Active
<1>3. /\ r \in TaskType /\ r.kind = "tx" /\ r.clean = task[t].clean /\ r.pc = "write"
      /\ r.conn = task[t].conn /\ r.own
  BY <1>2 DEF TaskType, Steps
<1> HIDE DEF r
<1>4. /\ task' \in [Tasks -> TaskType] /\ task'[t] = r
      /\ \A u \in Tasks \ {t} : task'[u] = task[u]
  BY <1>1, <1>3 DEF DbInv, TasksInv
<1>5. On(t)' = On(t)
  BY <1>3, <1>4 DEF On
<1>6. ConnInv' /\ Effect(t, On(t)) /\ tx'[On(t)] /\ writer' = On(t)
  BY <1>1, <1>2, WriteEffect DEF ConnInv
<1>7. ASSUME t \in Requests PROVE RequestOK(t)'
  <2>1. CleanTx(t)' /\ CleanOther(t)' /\ Kept(t)'
    BY <1>3, <1>4, <1>5, <1>6 DEF CleanTx, CleanOther, Kept
  <2>2. Trace(t)'
    BY <1>1, <1>2, <1>3, <1>4, <1>5, <1>6, <1>7, TraceGoes DEF Active
  <2> QED
    BY <2>1, <2>2 DEF RequestOK
<1>8. (t \in Background => BackgroundOK(t)') /\ StreamOK(t)'
  BY <1>2, <1>3, <1>4, <1>6, BackgroundGoes DEF Effect, AfterWrite, LogPath, StreamOK
<1>9. Placed(t)'
  BY <1>2, <1>3, <1>4, <1>5, TaskFacts DEF Placed, Path, Active
<1>10. BufferInv' /\ Held(t) = {} /\ alock' \in Tasks \cup {Free}
  BY <1>1 DEF DbInv, BufferInv, Held, TasksInv
<1> QED
  BY <1>1, <1>2, <1>3, <1>4, <1>5, <1>6, <1>7, <1>8, <1>9, <1>10, StepOK

LEMMA ExecuteStep == ASSUME DbInv, NEW t \in Tasks, Execute(t) PROVE DbInv'
<1>1. /\ task[t].pc = "write" /\ CanWrite(On(t)) /\ Write(On(t))
      /\ dirty' = [dirty EXCEPT ![On(t)] = @ \cup Written(t)]
      /\ Goto(t, IF task[t].kind = "tx" THEN "in_trans" ELSE "commit")
      /\ UNCHANGED <<dlog, rows, chain, alock, metrics>>
  BY DEF Execute
<1>2. task[t].kind \in {"tx", "stmt", "flush"} /\ Active(t) /\ On(t) \in Conns /\ ConnInv
  BY <1>1, KindOf, TaskFacts DEF Active
<1>3. PICK pc \in {"in_trans", "commit"} :
        pc = (IF task[t].kind = "tx" THEN "in_trans" ELSE "commit") /\ Goto(t, pc)
  BY <1>1
<1>4. /\ task' \in [Tasks -> TaskType] /\ \A u \in Tasks \ {t} : task'[u] = task[u]
      /\ task'[t].kind = task[t].kind /\ task'[t].clean = task[t].clean /\ task'[t].pc = pc
      /\ On(t)' = On(t) /\ task'[t].own = task[t].own
  <2>1. pc \in Steps /\ pc \notin Final
    BY DEF Steps, Final
  <2> QED
    BY <1>3, <2>1, GotoOK
<1>5. /\ dirty' \in [Conns -> SUBSET Rows] /\ dirty'[On(t)] = dirty[On(t)] \cup Written(t)
      /\ \A d \in Conns \ {On(t)} : dirty'[d] = dirty[d]
  BY <1>1, <1>2, WrittenRows DEF ConnInv
<1>6. ConnInv' /\ Effect(t, On(t)) /\ tx'[On(t)] /\ writer' = On(t)
  BY <1>1, <1>2, <1>5, WriteEffect DEF ConnInv
<1>7. task[t].kind # "flush" => t \in dirty'[On(t)]
  BY <1>5 DEF Written
<1>8. ASSUME t \in Requests PROVE RequestOK(t)'
  <2>1. CleanTx(t) /\ Active(t)'
    BY <1>3, <1>4, <1>8, TaskFacts DEF RequestOK, Active
  <2>2. task[t].kind # "flush"
    BY <1>8, TaskFacts, DisjointAssumption DEF Placed
  <2>3. CleanTx(t)'
    BY <1>1, <1>2, <1>3, <1>4, <1>6, <1>7, <2>1, <2>2 DEF CleanTx, Active, Wrote
  <2>4. CleanOther(t)' /\ Kept(t)'
    BY <1>2, <1>3, <1>4, <1>7, <2>2 DEF CleanOther, Kept, Wrote
  <2>5. Trace(t)'
    BY <1>1, <1>2, <1>4, <1>6, <1>8, <2>1, TraceGoes
  <2> QED
    BY <2>3, <2>4, <2>5 DEF RequestOK
<1>9. ASSUME t \in Background PROVE On(t) = Primary /\ dirty'[Primary] \subseteq Somewhere'
  BY <1>9, TaskFacts, DisjointAssumption DEF Placed, Somewhere
<1>10. t \in Background => BackgroundOK(t)'
  <2> SUFFICES ASSUME t \in Background, task[t].kind # "flush" PROVE t \in Somewhere'
    BY <1>4 DEF BackgroundOK
  <2> QED
    BY <1>7, <1>9
<1>11. t \in Flushers => Held(t) \subseteq Safe'
  <2> SUFFICES ASSUME t \in Flushers, task[t].kind = "flush" PROVE Held(t) \subseteq Safe'
    BY DEF Held
  <2>1. t \in Background
    BY DisjointAssumption
  <2>2. Held(t) = Written(t)
    BY <1>1 DEF Held, Written
  <2> QED
    BY <1>5, <1>9, <2>1, <2>2 DEF Safe
<1>14. t \in Streams => StreamOK(t)'
  <2> SUFFICES ASSUME t \in Streams PROVE t \in dirty'[On(t)]
    BY <1>3, <1>4 DEF StreamOK
  <2>1. task[t].kind # "flush"
    BY TaskFacts DEF Placed
  <2> QED
    BY <1>7, <2>1
<1>12. Placed(t)'
  <2>1. pc \in Path(task[t].kind)
    BY <1>2, <1>3 DEF Path, LogPath
  <2> QED
    BY <1>2, <1>3, <1>4, <2>1, TaskFacts DEF Placed, Active
<1>13. BufferInv' /\ alock' \in Tasks \cup {Free}
  BY <1>1 DEF DbInv, BufferInv, TasksInv
<1> QED
  BY <1>1, <1>2, <1>4, <1>6, <1>8, <1>10, <1>11, <1>12, <1>13, <1>14, StepOK

LEMMA InsertStep ==
  ASSUME DbInv, NEW t \in Tasks, Insert(t)
  PROVE  /\ DbInv' /\ \A u \in Tasks \ {t} : task'[u] = task[u]
         /\ task'[t].pc # "insert"
<1> DEFINE e == [seq |-> task[t].seq, id |-> t, prev |-> task[t].prev]
<1>1. /\ task[t].pc = "insert" /\ CanWrite(On(t)) /\ Write(On(t))
      /\ dlog' = [dlog EXCEPT ![On(t)] = @ \cup {e}]
      /\ Goto(t, IF CommitsSelf(t) THEN "log_commit" ELSE IF task[t].kind = "tx" THEN "exit" ELSE "ok")
      /\ alock' = IF CommitsSelf(t) THEN alock ELSE Free
      /\ UNCHANGED <<dirty, rows, chain, metrics>>
  BY DEF Insert
<1>2. /\ task[t].kind \in {"tx", "log"} /\ Active(t) /\ On(t) \in Conns /\ ConnInv
      /\ task[t] \in TaskType
  BY <1>1, KindOf, TaskFacts DEF LogPath, Active
<1>3. PICK pc \in {"log_commit", "exit", "ok"} :
        /\ pc = (IF CommitsSelf(t) THEN "log_commit" ELSE IF task[t].kind = "tx" THEN "exit" ELSE "ok")
        /\ Goto(t, pc)
  BY <1>1
<1>4. /\ task' \in [Tasks -> TaskType] /\ \A u \in Tasks \ {t} : task'[u] = task[u]
      /\ task'[t].kind = task[t].kind /\ task'[t].clean = task[t].clean /\ task'[t].pc = pc
      /\ pc # "ok" => On(t)' = On(t) /\ task'[t].own = task[t].own
      /\ pc = "ok" => ~Active(t)' /\ On(t)' = Primary /\ ~task'[t].own
  <2>1. pc \in Steps /\ (pc \in Final <=> pc = "ok")
    BY DEF Steps, Final
  <2> QED
    BY <1>3, <2>1, GotoOK
<1>5. e \in Entry /\ e.id = t
  BY <1>2 DEF Entry, TaskType
<1> HIDE DEF e
<1>6. /\ dlog' \in [Conns -> SUBSET Entry] /\ dlog'[On(t)] = dlog[On(t)] \cup {e}
      /\ \A d \in Conns \ {On(t)} : dlog'[d] = dlog[d]
  BY <1>1, <1>2, <1>5 DEF ConnInv
<1>7. ConnInv' /\ Effect(t, On(t)) /\ tx'[On(t)] /\ writer' = On(t)
  BY <1>1, <1>2, <1>5, <1>6, WriteEffect DEF ConnInv
<1>8. ASSUME t \in Requests PROVE RequestOK(t)'
  <2>1. CleanTx(t) /\ CleanOther(t)
    BY <1>8, TaskFacts DEF RequestOK
  <2>2. pc # "ok" => LoggedOn(t, On(t))'
    BY <1>4, <1>5, <1>6 DEF LoggedOn
  <2>3. CASE task[t].kind = "tx"
    <3>1. pc # "ok" /\ Active(t)'
      BY <1>3, <1>4, <2>3 DEF Active
    <3>2. CleanTx(t)'
      BY <1>1, <1>3, <1>4, <1>7, <2>1, <2>2, <2>3, <3>1 DEF CleanTx, Active, Wrote, CommitsSelf
    <3>3. CleanOther(t)' /\ Kept(t)'
      BY <1>4, <2>3, <3>1 DEF CleanOther, Kept
    <3>4. Trace(t)'
      BY <1>1, <1>2, <1>4, <1>7, <1>8, <3>1, TraceGoes
    <3> QED
      BY <3>2, <3>3, <3>4 DEF RequestOK
  <2>4. CASE task[t].kind = "log"
    <3>1. task[t].clean => pc = "log_commit"
      BY <1>1, <1>3, <2>1, <2>4 DEF CleanOther, CommitsSelf
    <3>2. CleanTx(t)' /\ CleanOther(t)' /\ Kept(t)' /\ Trace(t)'
      BY <1>4, <2>2, <2>4, <3>1 DEF CleanTx, CleanOther, Kept, Trace, Traceless
    <3> QED
      BY <3>2 DEF RequestOK
  <2> QED
    BY <1>2, <2>3, <2>4
<1>9. t \in Background => BackgroundOK(t)'
  BY <1>1, <1>4, <1>7, BackgroundGoes DEF Effect, AfterWrite, LogPath
<1>13. t \notin Streams
  BY <1>2, TaskFacts DEF Placed
<1>10. Placed(t)'
  <2>1. pc \in Path(task[t].kind)
    BY <1>2, <1>3 DEF Path, LogPath
  <2> QED
    BY <1>2, <1>4, <2>1, TaskFacts DEF Placed, Active
<1>11. BufferInv' /\ Held(t) = {} /\ alock' \in Tasks \cup {Free}
  BY <1>1 DEF DbInv, BufferInv, Held, TasksInv
<1>12. DbInv'
  BY <1>1, <1>2, <1>4, <1>7, <1>8, <1>9, <1>10, <1>11, <1>13, StepOK DEF Active
<1> QED
  BY <1>4, <1>12

LEMMA InsertRetryStep ==
  ASSUME DbInv, NEW t \in Tasks, InsertRetry(t)
  PROVE  /\ DbInv' /\ \A u \in Tasks \ {t} : task'[u] = task[u]
         /\ task'[t].pc # "insert"
<1>1. /\ task[t].pc = "insert" /\ CanWrite(On(t)) /\ Write(On(t)) /\ Goto(t, "head")
      /\ UNCHANGED <<dirty, dlog, rows, chain, alock, metrics>>
  BY DEF InsertRetry
<1>2. task[t].kind \in {"tx", "log"} /\ Active(t) /\ On(t) \in Conns /\ ConnInv
  BY <1>1, KindOf, TaskFacts DEF LogPath, Active
<1>3. /\ task' \in [Tasks -> TaskType] /\ \A u \in Tasks \ {t} : task'[u] = task[u]
      /\ task'[t].kind = task[t].kind /\ task'[t].clean = task[t].clean /\ task'[t].pc = "head"
      /\ On(t)' = On(t) /\ task'[t].own = task[t].own /\ task'[t].inTrans = task[t].inTrans
  <2>1. "head" \in Steps /\ "head" \notin Final
    BY DEF Steps, Final
  <2> QED
    BY <1>1, <2>1, GotoOK
<1>4. ConnInv' /\ Effect(t, On(t)) /\ tx'[On(t)] /\ writer' = On(t)
  BY <1>1, <1>2, WriteEffect DEF ConnInv
<1>5. ASSUME t \in Requests PROVE RequestOK(t)'
  <2>1. CleanTx(t) /\ CleanOther(t) /\ Active(t)'
    BY <1>3, <1>5, TaskFacts DEF RequestOK, Active
  <2>2. CleanTx(t)'
    BY <1>1, <1>2, <1>3, <1>4, <2>1 DEF CleanTx, Active, Wrote
  <2>3. CleanOther(t)' /\ Kept(t)'
    BY <1>1, <1>2, <1>3, <2>1 DEF CleanOther, Kept
  <2>4. Trace(t)'
    BY <1>1, <1>2, <1>3, <1>4, <1>5, <2>1, TraceGoes
  <2> QED
    BY <2>2, <2>3, <2>4 DEF RequestOK
<1>6. (t \in Background => BackgroundOK(t)') /\ StreamOK(t)'
  BY <1>1, <1>3, <1>4, BackgroundGoes DEF Effect, AfterWrite, LogPath, StreamOK
<1>7. Placed(t)'
  <2>1. "head" \in Path(task[t].kind)
    BY <1>2 DEF Path, LogPath
  <2> QED
    BY <1>2, <1>3, <2>1, TaskFacts DEF Placed, Active
<1>8. BufferInv' /\ Held(t) = {} /\ alock' \in Tasks \cup {Free}
  BY <1>1 DEF DbInv, BufferInv, Held, TasksInv
<1>9. DbInv'
  BY <1>1, <1>2, <1>3, <1>4, <1>5, <1>6, <1>7, <1>8, StepOK
<1> QED
  BY <1>3, <1>9

(* A request that commits what it had pending, or had committed it before. *)
LEMMA CommitStep ==
  ASSUME DbInv, NEW t \in Tasks, Active(t), task[t].pc # "write", NEW pc \in {"ok", "exit"},
         Goto(t, pc), alock' \in Tasks \cup {Free}, UNCHANGED metrics,
         Effect(t, On(t)), ConnInv', pc \in Path(task[t].kind), task[t].pc \in AfterWrite,
         pc = "exit" => ~(t \in Requests /\ task[t].clean),
         t \in Streams => t \in rows' \cup metrics.undone,
         t \in Requests /\ task[t].clean /\ pc = "ok" =>
           /\ task[t].kind \in {"tx", "stmt"} => t \in rows'
           /\ task[t].kind \in {"tx", "log"} => Logged(t)'
  PROVE  DbInv' /\ \A u \in Tasks \ {t} : task'[u] = task[u]
<1>1. /\ task' \in [Tasks -> TaskType] /\ \A u \in Tasks \ {t} : task'[u] = task[u]
      /\ task'[t].kind = task[t].kind /\ task'[t].clean = task[t].clean /\ task'[t].pc = pc
      /\ pc # "ok" => On(t)' = On(t) /\ task'[t].own = task[t].own
      /\ pc = "ok" => ~Active(t)' /\ On(t)' = Primary /\ ~task'[t].own
  <2>1. pc \in Steps /\ (pc \in Final <=> pc = "ok")
    BY DEF Steps, Final
  <2> QED
    BY <2>1, GotoOK
<1>2. ASSUME t \in Requests PROVE RequestOK(t)'
  <2>1. pc = "exit" => task[t].kind = "tx"
    <3>1. task[t].kind \in {"none", "tx", "stmt", "log", "flush"}
      BY TaskFacts DEF TaskType
    <3> QED
      BY <3>1 DEF Path, LogPath
  <2>2. CleanTx(t)' /\ CleanOther(t)' /\ Kept(t)' /\ Trace(t)'
    BY <1>1, <1>2, <2>1 DEF CleanTx, CleanOther, Kept, Trace, Traceless, Active
  <2> QED
    BY <2>2 DEF RequestOK
<1>3. (t \in Background => BackgroundOK(t)') /\ (t \in Streams => StreamOK(t)')
  BY <1>1, BackgroundGoes DEF Effect, StreamOK
<1>4. Placed(t)'
  BY <1>1, TaskFacts DEF Placed, Active
<1>5. BufferInv' /\ Held(t) = {}
  BY DEF DbInv, BufferInv, Held
<1>6. DbInv'
  BY <1>1, <1>2, <1>3, <1>4, <1>5, StepOK DEF Active
<1> QED
  BY <1>1, <1>6

LEMMA ExitStep ==
  ASSUME DbInv, NEW t \in Tasks, Exit(t)
  PROVE  DbInv' /\ \A u \in Tasks \ {t} : task'[u] = task[u]
<1>1. /\ task[t].pc = "exit" /\ Goto(t, "ok") /\ UNCHANGED <<alock, metrics>>
      /\ IF task[t].own THEN Commit(On(t)) ELSE UNCHANGED <<connVars, rows, chain>>
  BY DEF Exit
<1>2. /\ task[t].kind = "tx" /\ Active(t) /\ On(t) \in Conns /\ ConnInv
      /\ alock' \in Tasks \cup {Free}
  BY <1>1, KindOf, TaskFacts DEF Active, DbInv, TasksInv
<1>3. ConnInv' /\ Effect(t, On(t))
  <2>1. CASE task[t].own
    BY <1>1, <1>2, <2>1, CommitEffect
  <2>2. CASE ~task[t].own
    BY <1>1, <1>2, <2>2, SameEffect
  <2> QED
    BY <2>1, <2>2
<1>4. ASSUME t \in Requests, task[t].clean PROVE t \in rows' /\ Logged(t)'
  <2>1. task[t].own /\ Wrote(t, On(t)) /\ LoggedOn(t, On(t))
    BY <1>1, <1>2, <1>4, TaskFacts DEF RequestOK, CleanTx
  <2>2. rows' = rows \cup dirty[On(t)] /\ chain' = chain \cup dlog[On(t)]
    BY <1>1, <1>2, <2>1, CommitEffect
  <2> QED
    BY <2>1, <2>2 DEF Wrote, LoggedOn, Logged
<1>5. "ok" \in Path(task[t].kind) /\ task[t].pc \in AfterWrite /\ t \notin Streams
  BY <1>1, <1>2, TaskFacts DEF Path, AfterWrite, Placed
<1> QED
  BY <1>1, <1>2, <1>3, <1>4, <1>5, CommitStep

LEMMA PlainCommitStep ==
  ASSUME DbInv, NEW t \in Tasks, PlainCommit(t)
  PROVE  DbInv' /\ \A u \in Tasks \ {t} : task'[u] = task[u]
<1>1. task[t].pc = "commit" /\ Goto(t, "ok") /\ Commit(On(t)) /\ UNCHANGED <<alock, metrics>>
  BY DEF PlainCommit
<1>2. /\ task[t].kind \in {"stmt", "flush"} /\ Active(t) /\ On(t) \in Conns /\ ConnInv
      /\ alock' \in Tasks \cup {Free}
  BY <1>1, KindOf, TaskFacts DEF Active, DbInv, TasksInv
<1>3. ConnInv' /\ Effect(t, On(t)) /\ rows' = rows \cup dirty[On(t)]
  BY <1>1, <1>2, CommitEffect
<1>4. ASSUME t \in Requests, task[t].clean, task[t].kind = "stmt" PROVE t \in rows'
  BY <1>1, <1>3, <1>4, TaskFacts DEF RequestOK, CleanOther, Wrote
<1>5. "ok" \in Path(task[t].kind) /\ task[t].pc \in AfterWrite
  BY <1>1, <1>2 DEF Path, AfterWrite
<1>6. t \in Streams => t \in rows' \cup metrics.undone
  BY <1>1, <1>3, TaskFacts DEF StreamOK, Effect
<1> QED
  BY <1>1, <1>2, <1>3, <1>4, <1>5, <1>6, CommitStep

LEMMA LogCommitStep ==
  ASSUME DbInv, NEW t \in Tasks, LogCommit(t)
  PROVE  DbInv' /\ \A u \in Tasks \ {t} : task'[u] = task[u]
<1>1. /\ task[t].pc = "log_commit" /\ Commit(On(t)) /\ alock' = Free /\ UNCHANGED metrics
      /\ Goto(t, IF task[t].kind = "tx" THEN "exit" ELSE "ok")
  BY DEF LogCommit
<1>2. task[t].kind \in {"tx", "log"} /\ Active(t) /\ On(t) \in Conns /\ ConnInv
  BY <1>1, KindOf, TaskFacts DEF Active, LogPath
<1>3. PICK pc \in {"ok", "exit"} : pc = (IF task[t].kind = "tx" THEN "exit" ELSE "ok") /\ Goto(t, pc)
  BY <1>1
<1>4. ConnInv' /\ Effect(t, On(t)) /\ chain' = chain \cup dlog[On(t)]
  BY <1>1, <1>2, CommitEffect
<1>5. ASSUME t \in Requests, task[t].clean PROVE task[t].kind = "log" /\ Logged(t)'
  BY <1>1, <1>2, <1>4, <1>5, TaskFacts DEF RequestOK, CleanTx, CleanOther, LoggedOn, Logged
<1>6. pc \in Path(task[t].kind) /\ task[t].pc \in AfterWrite /\ t \notin Streams
  BY <1>1, <1>2, <1>3, TaskFacts DEF Path, LogPath, AfterWrite, Placed
<1>7. pc = "exit" => ~(t \in Requests /\ task[t].clean)
  BY <1>3, <1>5
<1> QED
  BY <1>1, <1>2, <1>3, <1>4, <1>5, <1>6, <1>7, CommitStep

(* A coroutine that raises: what a transaction() block of its own wrote is *)
(* on no connection any more.                                              *)
LEMMA RaisedStep ==
  ASSUME DbInv, NEW t \in Tasks, Active(t), Goto(t, "raised"), alock' \in Tasks \cup {Free},
         Effect(t, On(t)), ConnInv', BufferInv', metrics'.received = metrics.received,
         ToSet(metrics.buffer) \cup metrics.dropped \subseteq ToSet(metrics'.buffer) \cup metrics'.dropped,
         t \in Flushers => Held(t) \subseteq Safe',
         t \in Requests /\ task[t].kind = "tx" /\ task[t].clean =>
           UNCHANGED <<rows, chain>> /\ dirty'[On(t)] = {} /\ dlog'[On(t)] = {}
  PROVE  DbInv' /\ \A u \in Tasks \ {t} : task'[u] = task[u]
<1>1. /\ task' \in [Tasks -> TaskType] /\ \A u \in Tasks \ {t} : task'[u] = task[u]
      /\ task'[t].kind = task[t].kind /\ task'[t].clean = task[t].clean /\ task'[t].pc = "raised"
      /\ ~Active(t)' /\ On(t)' = Primary /\ ~task'[t].own
  <2>1. "raised" \in Steps /\ "raised" \in Final
    BY DEF Steps, Final
  <2> QED
    BY <2>1, GotoOK
<1>2. ASSUME t \in Requests PROVE RequestOK(t)'
  <2>1. CleanTx(t)' /\ CleanOther(t)' /\ Kept(t)'
    BY <1>1 DEF CleanTx, CleanOther, Kept
  <2>2. Trace(t)'
    <3> SUFFICES ASSUME task[t].clean, task[t].kind = "tx"
                 PROVE  /\ t \notin rows' /\ ~Logged(t)' /\ \A d \in Conns : Untouched(t, d)'
      BY <1>1 DEF Trace, Traceless
    <3>1. PICK c \in Conns : c = On(t)
      BY TaskFacts
    <3>2. t \notin rows /\ ~Logged(t) /\ \A d \in Conns \ {c} : Untouched(t, d)
      BY <1>2, <3>1, TaskFacts DEF RequestOK, Trace, Traceless, Active
    <3>3. \A d \in Conns \ {c} : Untouched(t, d)'
      BY <3>1, <3>2 DEF Effect, Untouched
    <3>4. Untouched(t, c)'
      BY <1>2, <3>1 DEF Untouched
    <3>5. t \notin rows' /\ ~Logged(t)'
      BY <1>2, <3>2 DEF Logged
    <3> QED
      BY <3>3, <3>4, <3>5
  <2> QED
    BY <2>1, <2>2 DEF RequestOK
<1>3. (t \in Background => BackgroundOK(t)') /\ StreamOK(t)'
  BY <1>1 DEF BackgroundOK, LogPath, StreamOK
<1>4. Placed(t)'
  <2>1. task[t].kind \in {"tx", "stmt", "log", "flush"}
    BY KindOf, TaskFacts DEF TaskType, Active
  <2>2. "raised" \in Path(task[t].kind)
    BY <2>1 DEF Path
  <2> QED
    BY <1>1, <2>2, TaskFacts DEF Placed
<1>5. DbInv'
  BY <1>1, <1>2, <1>3, <1>4, StepOK
<1> QED
  BY <1>1, <1>5

(* A transaction() block raises. *)
LEMMA FailsStep ==
  ASSUME DbInv, NEW t \in Tasks, Active(t), task[t].kind = "tx", Fails(t)
  PROVE  DbInv' /\ \A u \in Tasks \ {t} : task'[u] = task[u]
<1>1. Goto(t, "raised") /\ alock' = IF alock = t THEN Free ELSE alock
  BY DEF Fails
<1>2. /\ ConnInv /\ metrics \in MetricsType /\ On(t) \in Conns /\ alock' \in Tasks \cup {Free}
      /\ BufferInv /\ Held(t) = {}
  BY <1>1, TaskFacts DEF DbInv, TasksInv, Held
<1>3. CASE task[t].own /\ tx[On(t)]
  <2>1. Rollback(On(t))
    BY <1>3 DEF Fails
  <2>2. /\ ConnInv' /\ Effect(t, On(t)) /\ UNCHANGED <<rows, chain>>
        /\ dirty'[On(t)] = {} /\ dlog'[On(t)] = {}
        /\ metrics' \in MetricsType /\ metrics'.buffer = metrics.buffer
        /\ metrics'.dropped = metrics.dropped /\ metrics'.received = metrics.received
    BY <1>2, <2>1, RollbackEffect
  <2>3. BufferInv'
    BY <1>2, <2>2 DEF BufferInv
  <2> QED
    BY <1>1, <1>2, <2>2, <2>3, RaisedStep
<1>4. CASE ~(task[t].own /\ tx[On(t)])
  <2>1. UNCHANGED <<connVars, rows, chain, metrics>>
    BY <1>4 DEF Fails
  <2>2. ConnInv' /\ Effect(t, On(t)) /\ BufferInv'
    BY <1>2, <2>1, SameEffect DEF BufferInv
  <2>3. ASSUME t \in Requests, task[t].clean PROVE dirty'[On(t)] = {} /\ dlog'[On(t)] = {}
    <3>1. ~tx[On(t)]
      BY <1>4, <2>3, TaskFacts DEF RequestOK, CleanTx
    <3> QED
      BY <1>2, <2>1, <3>1 DEF ConnInv, connVars
  <2> QED
    BY <1>1, <1>2, <2>1, <2>2, <2>3, RaisedStep
<1> QED
  BY <1>3, <1>4

LEMMA BeginRaisesStep ==
  ASSUME DbInv, NEW t \in Tasks, BeginRaises(t)
  PROVE  DbInv' /\ \A u \in Tasks \ {t} : task'[u] = task[u]
  BY KindOf, FailsStep DEF BeginRaises, Active

LEMMA BlockRaisesStep ==
  ASSUME DbInv, NEW t \in Tasks, BlockRaises(t)
  PROVE  DbInv' /\ \A u \in Tasks \ {t} : task'[u] = task[u]
  BY FailsStep DEF BlockRaises, Active

(* "database is locked": not on the connection that has the lock.          *)
LEMMA BusyStep ==
  ASSUME DbInv, NEW t \in Tasks, BusyFails(t), writer # On(t), task[t].pc \in {"write", "insert"},
         BufferInv', metrics'.received = metrics.received, metrics'.undone = metrics.undone,
         ToSet(metrics.buffer) \cup metrics.dropped \subseteq ToSet(metrics'.buffer) \cup metrics'.dropped,
         t \in Flushers => Held(t) \subseteq Safe'
  PROVE  DbInv' /\ \A u \in Tasks \ {t} : task'[u] = task[u]
<1>1. /\ Goto(t, "raised") /\ alock' = IF alock = t THEN Free ELSE alock
      /\ tx' = [tx EXCEPT ![On(t)] = ~(task[t].kind = "tx" /\ task[t].own)]
      /\ UNCHANGED <<dirty, dlog, writer, rows, chain>>
  BY DEF BusyFails
<1>2. ConnInv /\ On(t) \in Conns /\ Active(t) /\ alock' \in Tasks \cup {Free}
  BY <1>1, TaskFacts DEF DbInv, TasksInv, Active
<1>3. ConnInv' /\ Effect(t, On(t))
  BY <1>1, <1>2, BusyEffect
<1>4. ~(t \in Requests /\ task[t].kind = "tx" /\ task[t].clean)
  BY <1>2, TaskFacts DEF RequestOK, CleanTx
<1> QED
  BY <1>1, <1>2, <1>3, <1>4, RaisedStep

LEMMA ExecuteBusyStep ==
  ASSUME DbInv, NEW t \in Tasks, ExecuteBusy(t)
  PROVE  DbInv' /\ \A u \in Tasks \ {t} : task'[u] = task[u]
<1>1. task[t].pc = "write" /\ writer # On(t) /\ BusyFails(t)
  BY DEF ExecuteBusy, CanWrite
<1>2. metrics \in MetricsType /\ BufferInv /\ task[t].items \in Seq(Snapshots)
  BY TaskFacts DEF DbInv, TaskType
<1>3. CASE task[t].kind = "flush"
  <2>1. Rebuffer(t)
    BY <1>3 DEF ExecuteBusy
  <2>2. /\ metrics' \in MetricsType /\ Len(metrics'.buffer) <= BufferCap
        /\ metrics'.received = metrics.received /\ metrics'.undone = metrics.undone
        /\ ToSet(task[t].items) \cup ToSet(metrics.buffer) \cup metrics.dropped
             \subseteq ToSet(metrics'.buffer) \cup metrics'.dropped
    BY <1>2, <2>1, RebufferOK
  <2>3. Held(t) \subseteq Safe' /\ BufferInv'
    BY <1>1, <2>2 DEF Held, Safe, BufferInv
  <2> QED
    BY <1>1, <2>2, <2>3, BusyStep
<1>4. CASE task[t].kind # "flush"
  <2>1. metrics' = metrics /\ BufferInv'
    BY <1>2, <1>4 DEF ExecuteBusy, BufferInv
  <2>2. Held(t) = {}
    BY <1>4 DEF Held
  <2> QED
    BY <1>1, <2>1, <2>2, BusyStep
<1> QED
  BY <1>3, <1>4

LEMMA InsertBusyStep ==
  ASSUME DbInv, NEW t \in Tasks, InsertBusy(t)
  PROVE  DbInv' /\ \A u \in Tasks \ {t} : task'[u] = task[u]
<1>1. task[t].pc = "insert" /\ writer # On(t) /\ BusyFails(t) /\ metrics' = metrics
  BY DEF InsertBusy, CanWrite
<1>2. BufferInv' /\ Held(t) = {}
  BY <1>1 DEF DbInv, BufferInv, Held
<1> QED
  BY <1>1, <1>2, BusyStep

(* A flush takes the buffer over, and holds it until it has written it.    *)
LEMMA DrainStep ==
  ASSUME DbInv, NEW t \in Tasks, Drain(t)
  PROVE  DbInv' /\ \A u \in Tasks \ {t} : task'[u] = task[u]
<1> DEFINE pc == IF metrics.buffer = <<>> THEN "ok" ELSE "write"
           r  == [task[t] EXCEPT !.items = metrics.buffer, !.pc = pc]
<1>1. /\ task[t].pc = "drain" /\ UNCHANGED <<connVars, rows, chain, alock>>
      /\ task' = [task EXCEPT ![t].items = metrics.buffer, ![t].pc = pc]
      /\ metrics' = [metrics EXCEPT !.buffer = <<>>]
  BY DEF Drain
<1>2. /\ task[t].kind = "flush" /\ t \in Flushers /\ t \notin Requests /\ t \notin Streams
      /\ Active(t) /\ task[t] \in TaskType /\ On(t) = Primary /\ metrics \in MetricsType
      /\ ConnInv /\ task \in [Tasks -> TaskType] /\ ~task[t].own
  BY <1>1, KindOf, TaskFacts, DisjointAssumption DEF Placed, Active, DbInv, TasksInv
<1>3. metrics.buffer \in Seq(Snapshots) /\ <<>> \in Seq(Snapshots) /\ Len(<<>>) = 0 /\ BufferCap \in Nat
  BY <1>2, BoundAssumption DEF MetricsType
<1>4. /\ metrics' \in MetricsType /\ metrics'.buffer = <<>> /\ metrics'.dropped = metrics.dropped
      /\ metrics'.received = metrics.received /\ metrics'.undone = metrics.undone
  BY <1>1, <1>2, <1>3 DEF MetricsType
<1>5. ConnInv' /\ Effect(t, On(t))
  BY <1>1, <1>2, <1>4, PrimaryConn, SameEffect
<1>6. pc \in {"ok", "write"} /\ (pc = "ok" => metrics.buffer = <<>>)
  OBVIOUS
<1>7. task' = [task EXCEPT ![t] = r]
  BY <1>1, <1>2
<1> HIDE DEF pc
<1>8. /\ r \in TaskType /\ r.kind = "flush" /\ r.conn = task[t].conn /\ r.own = task[t].own
      /\ r.pc = pc /\ r.items = metrics.buffer /\ r.clean = task[t].clean
  BY <1>2, <1>3, <1>6 DEF TaskType, Steps
<1> HIDE DEF r
<1>9. task' \in [Tasks -> TaskType] /\ task'[t] = r /\ \A u \in Tasks \ {t} : task'[u] = task[u]
  BY <1>2, <1>7, <1>8
<1>10. On(t)' = On(t)
  BY <1>8, <1>9 DEF On
<1>11. Placed(t)'
  BY <1>2, <1>6, <1>8, <1>9, <1>10 DEF Placed, Path
<1>12. ToSet(metrics.buffer) \subseteq Held(t)'
  <2>1. CASE pc = "write"
    BY <1>8, <1>9, <2>1 DEF Held
  <2>2. CASE pc = "ok"
    BY <1>6, <2>2 DEF ToSet
  <2> QED
    BY <1>6, <2>1, <2>2
<1>13. ToSet(metrics.buffer) \cup metrics.dropped \subseteq Safe'
  BY <1>2, <1>4, <1>12 DEF Safe
<1>14. BufferInv' /\ Held(t) = {} /\ alock' \in Tasks \cup {Free}
  BY <1>1, <1>3, <1>4 DEF BufferInv, Held, DbInv, TasksInv
<1>15. task'[t].clean = task[t].clean /\ BackgroundOK(t)'
  BY <1>8, <1>9 DEF BackgroundOK
<1>16. DbInv'
  BY <1>2, <1>4, <1>5, <1>9, <1>10, <1>11, <1>13, <1>14, <1>15, StepSafe
<1> QED
  BY <1>9, <1>16

(* A coroutine gets a connection: a request one that no other request has. *)
LEMMA BindStep ==
  ASSUME DbInv, NEW t \in Tasks, NEW c \in Conns, NEW kind \in {"tx", "stmt", "log", "flush"},
         Bind(t, c, kind), kind = "flush" => t \in Flushers, t \in Streams => kind = "stmt",
         IF t \in Requests \cup Streams THEN c \in Pool /\ InPool(c) ELSE c = Primary
  PROVE  /\ DbInv' /\ \A u \in Tasks \ {t} : task'[u] = task[u]
         /\ task'[t].pc # "insert" /\ UNCHANGED <<dlog, chain>>
<1> DEFINE clean == t \in Requests => ~tx[c] /\ ~Streaming(c)
           r == [task[t] EXCEPT !.kind = kind, !.pc = FirstStep(kind), !.conn = c, !.clean = clean]
<1>1. /\ task[t].pc = "new" /\ task' = [task EXCEPT ![t] = r]
      /\ UNCHANGED <<connVars, rows, chain, alock, metrics>>
  BY DEF Bind
<1>2. /\ task[t] \in TaskType /\ task \in [Tasks -> TaskType] /\ ConnInv /\ On(t) \in Conns
      /\ ~task[t].own /\ tx[c] \in BOOLEAN
  <2>1. task[t].kind # "tx"
    BY <1>1, TaskFacts DEF Placed, Path, LogPath
  <2> QED
    BY <2>1, TaskFacts DEF Placed, DbInv, TasksInv, ConnInv
<1>3. /\ kind = "tx" => FirstStep(kind) = "enter"
      /\ kind = "stmt" => FirstStep(kind) = "write"
      /\ kind = "log" => FirstStep(kind) = "in_trans"
      /\ kind = "flush" => FirstStep(kind) = "drain"
  BY DEF FirstStep
<1> DEFINE pc == FirstStep(kind)
<1>4. pc \in {"enter", "write", "in_trans", "drain"} /\ pc \in Path(kind)
  BY <1>3 DEF Path, LogPath
<1> HIDE DEF pc
<1>17. clean \in BOOLEAN
  OBVIOUS
<1> HIDE DEF clean
<1>5. /\ r \in TaskType /\ r.kind = kind /\ r.pc = pc /\ r.conn = c /\ r.clean = clean
      /\ r.own = task[t].own
  BY <1>2, <1>4, <1>17 DEF TaskType, Steps, pc
<1> HIDE DEF r
<1>6. task' \in [Tasks -> TaskType] /\ task'[t] = r /\ \A u \in Tasks \ {t} : task'[u] = task[u]
  BY <1>1, <1>2, <1>5
<1>7. /\ tx' = tx /\ dirty' = dirty /\ dlog' = dlog /\ writer' = writer
      /\ rows' = rows /\ chain' = chain /\ metrics' = metrics /\ On(t)' = c /\ Active(t)'
  BY <1>1, <1>4, <1>5, <1>6 DEF connVars, On, Active
<1>8. ConnInv' /\ Effect(t, On(t))
  BY <1>1, <1>2, SameEffect
<1>9. Placed(t)'
  BY <1>2, <1>4, <1>5, <1>6, <1>7 DEF Placed
<1>10. ASSUME t \in Requests PROVE RequestOK(t)'
  <2>1. CleanTx(t)' /\ CleanOther(t)'
    BY <1>2, <1>3, <1>4, <1>5, <1>6, <1>7, <1>10 DEF CleanTx, CleanOther, pc, clean
  <2>2. Kept(t)'
    BY <1>4, <1>5, <1>6 DEF Kept
  <2>3. Trace(t)'
    <3>1. t \notin rows /\ ~Logged(t) /\ \A d \in Conns : Untouched(t, d)
      BY <1>1, <1>10, TaskFacts DEF RequestOK, Trace, Traceless, Active
    <3>2. \A d \in Conns : Untouched(t, d)'
      BY <1>7, <3>1 DEF Untouched
    <3> QED
      BY <1>7, <3>1, <3>2 DEF Trace, Logged
  <2> QED
    BY <2>1, <2>2, <2>3 DEF RequestOK
<1>11. (t \in Background => BackgroundOK(t)') /\ StreamOK(t)'
  BY <1>3, <1>4, <1>5, <1>6 DEF BackgroundOK, pc, LogPath, StreamOK
<1>12. \A u \in Tasks : Placed(u)' /\ (u \in Requests => RequestOK(u)')
                        /\ (u \in Background => BackgroundOK(u)') /\ (u \in Streams => StreamOK(u)')
  BY <1>6, <1>8, <1>9, <1>10, <1>11, OthersOK
<1>13. Apart'
  <2>1. ASSUME NEW w \in Tasks \ {t}
        PROVE  On(w)' = On(w) /\ (Active(w)' <=> Active(w)) /\ task'[w].clean = task[w].clean
    BY <1>6 DEF On, Active
  <2>2. ASSUME NEW u \in Requests, NEW v \in Requests, u # v, Active(u)', Active(v)'
        PROVE  On(u)' # On(v)'
    <3>1. CASE u = t \/ v = t
      BY <1>7, <2>1, <2>2, <3>1 DEF InPool, Tasks
    <3>2. CASE u # t /\ v # t
      BY <2>1, <2>2, <3>2 DEF DbInv, TasksInv, Apart, Tasks
    <3> QED
      BY <3>1, <3>2
  <2>3. ASSUME NEW u \in Requests, NEW v \in Streams, Active(u)', task'[u].clean, Active(v)'
        PROVE  On(u)' # On(v)'
    <3>1. u # v
      BY DisjointAssumption
    <3>2. CASE u = t
      <4>1. ~Streaming(c) /\ v # t
        BY <1>5, <1>6, <2>3, <3>1, <3>2 DEF clean
      <4> QED
        BY <1>7, <2>1, <2>3, <3>2, <4>1 DEF Streaming, Tasks
    <3>3. CASE v = t
      BY <1>7, <2>1, <2>3, <3>1, <3>3 DEF InPool, Tasks
    <3>4. CASE u # t /\ v # t
      BY <2>1, <2>3, <3>4 DEF DbInv, TasksInv, Apart, Tasks
    <3> QED
      BY <3>2, <3>3, <3>4
  <2> QED
    BY <2>2, <2>3 DEF Apart
<1>14. TasksInv'
  BY <1>1, <1>6, <1>12, <1>13 DEF TasksInv, Tasks, DbInv
<1>15. 1..metrics'.received \subseteq Safe'
  <2>1. Held(t) = {}
    BY <1>1 DEF Held
  <2>2. ToSet(metrics.buffer) \cup metrics.dropped \subseteq Safe'
    BY <1>7 DEF Safe
  <2> QED
    BY <1>6, <1>7, <1>8, <2>1, <2>2, SafeGrows DEF Effect
<1>16. DbInv'
  BY <1>7, <1>8, <1>14, <1>15 DEF DbInv, BufferInv
<1> QED
  BY <1>4, <1>5, <1>6, <1>7, <1>16

LEMMA TaskStartStep ==
  ASSUME DbInv, NEW t \in Tasks, TaskStart(t)
  PROVE  /\ DbInv' /\ \A u \in Tasks \ {t} : task'[u] = task[u]
         /\ task'[t].pc # "insert" /\ UNCHANGED <<dlog, chain>>
<1>1. ASSUME NEW kind \in {"tx", "stmt", "log"}, NEW c \in Pool, Acquire(t, c, kind)
      PROVE  /\ DbInv' /\ \A u \in Tasks \ {t} : task'[u] = task[u]
             /\ task'[t].pc # "insert" /\ UNCHANGED <<dlog, chain>>
  <2>1. c \in Conns /\ t \in Requests /\ t \notin Streams
    BY <1>1, PrimaryConn, DisjointAssumption DEF Acquire
  <2> QED
    BY <1>1, <2>1, BindStep DEF Acquire
<1>2. ASSUME NEW kind \in {"tx", "stmt", "log"}, t \in Background, Ambient(t, kind)
      PROVE  /\ DbInv' /\ \A u \in Tasks \ {t} : task'[u] = task[u]
             /\ task'[t].pc # "insert" /\ UNCHANGED <<dlog, chain>>
  <2>1. Primary \in Conns /\ t \notin Requests /\ t \notin Streams
    BY <1>2, PrimaryConn, DisjointAssumption
  <2> QED
    BY <1>2, <2>1, BindStep DEF Ambient
<1>3. CASE t \in Flushers /\ get_metrics_history(t)
  <2>1. Primary \in Conns /\ t \notin Requests /\ t \notin Streams
    BY <1>3, PrimaryConn, DisjointAssumption
  <2> QED
    BY <1>3, <2>1, BindStep DEF get_metrics_history, Ambient
<1>4. ASSUME NEW c \in Pool, Stream(t, c)
      PROVE  /\ DbInv' /\ \A u \in Tasks \ {t} : task'[u] = task[u]
             /\ task'[t].pc # "insert" /\ UNCHANGED <<dlog, chain>>
  <2>1. c \in Conns /\ t \in Streams
    BY <1>4, PrimaryConn DEF Stream
  <2> QED
    BY <1>4, <2>1, BindStep DEF Stream
<1> QED
  BY <1>1, <1>2, <1>3, <1>4 DEF TaskStart

LEMMA StatusReportStep == ASSUME DbInv, StatusReport PROVE DbInv'
<1> DEFINE n == metrics.received + 1
           b == Buffered(metrics, n)
<1>1. /\ metrics.received < MaxReports /\ metrics' = [b EXCEPT !.received = @ + 1]
      /\ UNCHANGED <<connVars, rows, chain, alock, task>>
  BY DEF StatusReport
<1>2. metrics \in MetricsType /\ Len(metrics.buffer) <= BufferCap /\ metrics.received \in Nat
  BY DEF DbInv, BufferInv, MetricsType
<1>3. n \in Snapshots /\ n \in 0..MaxReports /\ 1..n = (1..metrics.received) \cup {n}
  BY <1>1, <1>2, BoundAssumption DEF Snapshots
<1> HIDE DEF n
<1>4. /\ b \in MetricsType /\ Len(b.buffer) <= BufferCap
      /\ b.received = metrics.received /\ b.undone = metrics.undone /\ b.unlogged = metrics.unlogged
      /\ ToSet(metrics.buffer) \cup metrics.dropped \cup {n} \subseteq ToSet(b.buffer) \cup b.dropped
  BY <1>2, <1>3, BufferedOK
<1> HIDE DEF b
<1>5. /\ metrics' \in MetricsType /\ metrics'.buffer = b.buffer /\ metrics'.dropped = b.dropped
      /\ metrics'.undone = b.undone /\ metrics'.received = n
  BY <1>1, <1>3, <1>4 DEF MetricsType, n
<1>6. BufferInv'
  BY <1>4, <1>5 DEF BufferInv
<1>7. ConnInv'
  BY <1>1 DEF DbInv, ConnInv, connVars
<1>8. Somewhere' = Somewhere /\ \A t \in Tasks : Held(t)' = Held(t)
  BY <1>1, <1>4, <1>5 DEF Somewhere, Held, connVars
<1>9. TasksInv'
  <2>1. /\ tx' = tx /\ dirty' = dirty /\ dlog' = dlog /\ writer' = writer
        /\ rows' = rows /\ chain' = chain /\ task' = task /\ alock' = alock
    BY <1>1 DEF connVars
  <2>2. TasksInv /\ (\A t \in Background : BackgroundOK(t)') /\ \A t \in Streams : StreamOK(t)'
    BY <1>4, <1>5, <1>8, <2>1 DEF DbInv, TasksInv, BackgroundOK, StreamOK, On
  <2>3. \A t \in Tasks : Placed(t)'
    BY <2>1, <2>2 DEF TasksInv, Placed, On, Active
  <2>4. \A t \in Requests : RequestOK(t)'
    BY <2>1, <2>2 DEF TasksInv, RequestOK, CleanTx, CleanOther, Kept, Trace, Traceless, Untouched,
                      Wrote, LoggedOn, Logged, On, Active
  <2>5. Apart'
    BY <2>1, <2>2 DEF TasksInv, Apart, On, Active
  <2> QED
    BY <2>1, <2>2, <2>3, <2>4, <2>5 DEF TasksInv
<1>10. 1..metrics'.received \subseteq Safe'
  <2>1. Safe \cup {n} \subseteq Safe'
    BY <1>4, <1>5, <1>8, DisjointAssumption DEF Safe, Tasks
  <2> QED
    BY <1>3, <1>5, <2>1 DEF DbInv
<1> QED
  BY <1>6, <1>7, <1>9, <1>10 DEF DbInv

-----------------------------------------------------------------------------
(* The database *)

LEMMA DbInitInv == ASSUME DbInit PROVE DbInv
<1>1. /\ 0 \in 0..MaxReports /\ <<>> \in Seq(Snapshots) /\ Len(<<>>) = 0 /\ BufferCap \in Nat
      /\ 1..0 = {}
  BY BoundAssumption
<1>2. ConnInv
  BY <1>1, NamesAssumption DEF DbInit, ConnInv
<1>3. BufferInv
  BY <1>1 DEF DbInit, BufferInv, MetricsType
<1>4. \A t \in Tasks : task[t] = Unborn
  BY DEF DbInit
<1>5. ASSUME NEW t \in Tasks PROVE Placed(t) /\ ~Active(t)
  <2>1. Unborn.kind = "none" /\ Unborn.pc = "new" /\ Unborn.conn = Primary /\ Unborn.own = FALSE
    BY DEF Unborn
  <2> QED
    BY <1>4, <2>1, UnbornType DEF Placed, Path, Active, On
<1>6. ASSUME NEW t \in Requests PROVE RequestOK(t)
  <2>1. task[t].kind = "none" /\ task[t].pc = "new" /\ ~Active(t)
    BY <1>4 DEF Unborn, Active, Tasks
  <2>2. rows = {} /\ chain = {} /\ \A c \in Conns : dirty[c] = {} /\ dlog[c] = {}
    BY DEF DbInit
  <2> QED
    BY <2>1, <2>2 DEF RequestOK, CleanTx, CleanOther, Kept, Trace, Logged, Untouched
<1>7. (\A t \in Background : BackgroundOK(t)) /\ \A t \in Streams : StreamOK(t)
  BY <1>4 DEF BackgroundOK, StreamOK, Unborn, Tasks
<1>8. TasksInv
  <2>1. task \in [Tasks -> TaskType]
    BY UnbornType DEF DbInit
  <2> QED
    BY <2>1, <1>5, <1>6, <1>7 DEF DbInit, TasksInv, Apart, Tasks
<1>9. metrics.received = 0
  BY DEF DbInit
<1> QED
  BY <1>1, <1>2, <1>3, <1>8, <1>9 DEF DbInv

LEMMA TaskStepInv == ASSUME DbInv, NEW t \in Tasks, TaskStep(t) PROVE DbInv'
  BY EnterStep, BeginStep, BeginRaisesStep, ExecuteStep, ExecuteBusyStep, BlockRaisesStep,
     ExitStep, PlainCommitStep, ReadInTransStep, AuditLockStep, ReadHeadStep, InsertStep,
     InsertRetryStep, InsertBusyStep, LogCommitStep, DrainStep
  DEF TaskStep

LEMMA DbStutters == ASSUME DbInv, UNCHANGED dbVars PROVE DbInv'
<1>1. /\ tx' = tx /\ dirty' = dirty /\ dlog' = dlog /\ writer' = writer /\ metrics' = metrics
      /\ rows' = rows /\ chain' = chain /\ task' = task /\ alock' = alock
  BY DEF dbVars
<1>2. ConnInv' /\ BufferInv'
  BY <1>1 DEF DbInv, ConnInv, BufferInv
<1>3. /\ \A t \in Tasks : Placed(t)'
      /\ (\A t \in Background : BackgroundOK(t)') /\ \A t \in Streams : StreamOK(t)'
  BY <1>1 DEF DbInv, TasksInv, Placed, BackgroundOK, StreamOK, Somewhere, On, Active
<1>4. \A t \in Requests : RequestOK(t)'
  BY <1>1 DEF DbInv, TasksInv, RequestOK, CleanTx, CleanOther, Kept, Trace, Traceless, Untouched,
              Wrote, LoggedOn, Logged, On, Active
<1>5. TasksInv'
  BY <1>1, <1>3, <1>4 DEF DbInv, TasksInv, Apart, On, Active
<1>6. 1..metrics'.received \subseteq Safe'
  BY <1>1 DEF DbInv, Safe, Somewhere, Held
<1> QED
  BY <1>2, <1>5, <1>6 DEF DbInv

LEMMA DbNextInv == ASSUME DbInv, [DbNext]_dbVars PROVE DbInv'
  BY TaskStepInv, TaskStartStep, StatusReportStep, DbStutters DEF DbNext

(***************************************************************************)
(* The inductive invariant of the connections holds in every reachable     *)
(* state, for any number of coroutines, connections and snapshots.         *)
(***************************************************************************)
THEOREM DbInvariance == DbSpec => []DbInv
  BY DbInitInv, DbNextInv, PTL DEF DbSpec

(***************************************************************************)
(* Connections, coroutines and buffer stay well-typed; a connection        *)
(* without SQLite's write lock has nothing uncommitted, and                *)
(* _metrics_buffer never passes its maxlen.                                *)
(***************************************************************************)
THEOREM DbTypeCorrect == DbSpec => []DbTypeOK
<1>1. DbInv => DbTypeOK
  BY DEF DbInv, ConnInv, BufferInv, MetricsType, TasksInv, DbTypeOK
<1> QED
  BY <1>1, DbInvariance, PTL

(***************************************************************************)
(* A request that database_session gave a connection without an open       *)
(* transaction, and that no chat stream writes on still, gets all of its   *)
(* row and audit entry committed or, when its transaction() block fails,   *)
(* nothing; what a stream writes on a pooled connection, or a coroutine on *)
(* the primary one, is undone only by another's rollback, and a snapshot   *)
(* is lost otherwise only by a full _metrics_buffer.                       *)
(***************************************************************************)
THEOREM WritesAreKept == DbSpec => []WritesKept
<1>1. DbInv => WritesKept
  <2> SUFFICES ASSUME DbInv PROVE WritesKept
    OBVIOUS
  <2>1. ASSUME NEW t \in Requests, task[t].clean
        PROVE  /\ task[t].pc = "ok" => /\ task[t].kind \in {"tx", "stmt"} => t \in rows
                                       /\ task[t].kind \in {"tx", "log"} => Logged(t)
               /\ task[t].pc = "raised" /\ task[t].kind = "tx" => t \notin rows /\ ~Logged(t)
    BY <2>1 DEF DbInv, TasksInv, RequestOK, Kept, Trace, Traceless
  <2>2. ASSUME NEW t \in Background, task[t].pc = "ok", task[t].kind \in {"tx", "stmt"}
        PROVE  t \in Somewhere
    BY <2>2 DEF DbInv, TasksInv, BackgroundOK
  <2>3. 1..metrics.received \subseteq Safe
    BY DEF DbInv
  <2>4. \A t \in Streams : task[t].pc = "ok" => t \in rows \cup metrics.undone
    BY DEF DbInv, TasksInv, StreamOK
  <2> QED
    BY <2>1, <2>2, <2>3, <2>4 DEF WritesKept, Safe
<1> QED
  BY <1>1, DbInvariance, PTL

-----------------------------------------------------------------------------
(* THE AUDIT LOG *)

(* An entry follows the one before it, unless that is one of the entries   *)
(* U that a rollback took away.  In a line every entry does, under a       *)
(* number of its own.                                                      *)
Linked(r, C) ==
  \/ r.seq = 1 /\ r.prev = Genesis
  \/ \E d \in C : d.seq + 1 = r.seq /\ d.id = r.prev
Follows(r, C, U) == r.seq >= 1 /\ (r.prev \in U \/ Linked(r, C))
Line(C, U) ==
  /\ C \subseteq Entry
  /\ \A d, e \in C : d.seq = e.seq => d = e
  /\ \A e \in C : Follows(e, C, U)
LinesInv == Line(chain, metrics.unlogged) /\ \A c \in Conns : Line(Visible(c), metrics.unlogged)

(* So does the entry a coroutine is about to insert after the head it read. *)
HeadsInv ==
  \A t \in Tasks : task[t].pc = "insert" => Follows(task[t], Visible(On(t)), metrics.unlogged)

ChainInv == LinesInv /\ HeadsInv

LEMMA LineMore ==
  ASSUME NEW C, NEW U, NEW V, U \subseteq V, Line(C, U) PROVE Line(C, V)
  BY DEF Line, Follows

LEMMA LineGrows ==
  ASSUME NEW C, NEW U, Line(C, U), NEW e \in Entry, \A d \in C : d.seq # e.seq, Follows(e, C, U)
  PROVE  Line(C \cup {e}, U)
<1>1. \A d \in C \cup {e} : Follows(d, C \cup {e}, U)
  BY DEF Line, Follows, Linked
<1> QED
  BY <1>1 DEF Line

LEMMA LineVerified == ASSUME Line(chain, metrics.unlogged) PROVE ChainIntact
<1>1. \A e \in chain : e.seq \in Nat /\ e.seq >= 1
  BY DEF Line, Entry, Follows
<1>2. ASSUME NEW e \in chain, e.prev \notin metrics.unlogged
      PROVE  /\ e.seq = 1 \/ \E d \in chain : d.seq + 1 = e.seq
             /\ \A n : ~Breaks(e, n)
  <2>1. Linked(e, chain)
    BY <1>2 DEF Line, Follows
  <2>2. e.seq = 1 => e.prev = Genesis
    BY <1>1, <2>1 DEF Linked
  <2>3. ASSUME NEW d \in chain, d.seq < e.seq, \A f \in chain : f.seq <= d.seq \/ f.seq >= e.seq
        PROVE  e.prev = d.id
    <3>1. PICK f \in chain : f.seq + 1 = e.seq /\ f.id = e.prev
      BY <1>1, <2>1, <2>3 DEF Linked
    <3>2. f.seq = d.seq
      BY <1>1, <2>3, <3>1
    <3> QED
      BY <3>1, <3>2 DEF Line
  <2>4. \A n : LastEntries(n) \subseteq chain
    BY DEF LastEntries
  <2> QED
    BY <2>1, <2>2, <2>3, <2>4 DEF Breaks, Linked
<1> QED
  BY <1>2 DEF ChainIntact, Line

-----------------------------------------------------------------------------
(* What a step does to the log *)

LEMMA OneMoves ==
  ASSUME DbInv, NEW t \in Tasks, TaskStep(t)
  PROVE  /\ \A u \in Tasks \ {t} : task'[u] = task[u]
         /\ Active(t)
         /\ task'[t].pc = "insert" => ReadHead(t)
<1> DEFINE Goes(pc) == /\ \A u \in Tasks \ {t} : task'[u] = task[u]
                       /\ task'[t].pc = pc
<1>1. ASSUME NEW pc \in Steps, Goto(t, pc) PROVE Goes(pc)
  BY <1>1, GotoOK
<1>2. CASE Enter(t)
  BY <1>1, <1>2 DEF Enter, Active, Steps
<1>3. CASE Begin(t)
  <2>1. task[t] \in TaskType /\ task \in [Tasks -> TaskType]
    BY TaskFacts DEF DbInv, TasksInv
  <2> QED
    BY <1>3, <2>1 DEF Begin, Active, TaskType
<1>4. CASE BeginRaises(t) \/ BlockRaises(t)
  BY <1>1, <1>4 DEF BeginRaises, BlockRaises, Fails, Active, Steps
<1>5. CASE Execute(t) \/ ExecuteBusy(t) \/ InsertBusy(t)
  BY <1>1, <1>5 DEF Execute, ExecuteBusy, InsertBusy, BusyFails, Active, Steps
<1>6. CASE Exit(t) \/ PlainCommit(t) \/ AuditLock(t)
  BY <1>1, <1>6 DEF Exit, PlainCommit, AuditLock, Active, Steps
<1>7. CASE ReadInTrans(t)
  <2>1. task[t] \in TaskType /\ task \in [Tasks -> TaskType]
    BY TaskFacts DEF DbInv, TasksInv
  <2> QED
    BY <1>7, <2>1 DEF ReadInTrans, Active, TaskType
<1>8. CASE ReadHead(t)
  BY <1>8, ReadHeadStep DEF ReadHead, Active
<1>9. CASE Insert(t)
  BY <1>9, InsertStep DEF Insert, Active
<1>10. CASE InsertRetry(t)
  BY <1>10, InsertRetryStep DEF InsertRetry, Active
<1>11. CASE LogCommit(t)
  BY <1>1, <1>11 DEF LogCommit, Active, Steps
<1>12. CASE Drain(t)
  <2>1. task[t] \in TaskType /\ task \in [Tasks -> TaskType]
    BY TaskFacts DEF DbInv, TasksInv
  <2> QED
    BY <1>12, <2>1, DrainStep DEF Drain, Active, TaskType
<1> QED
  BY <1>2, <1>3, <1>4, <1>5, <1>6, <1>7, <1>8, <1>9, <1>10, <1>11, <1>12 DEF TaskStep

LEMMA LogSteps ==
  ASSUME DbInv, NEW t \in Tasks, TaskStep(t)
  PROVE  \/ chain' = chain /\ dlog' = dlog
         \/ Insert(t)
         \/ Commit(On(t))
         \/ Rollback(On(t)) /\ task[t].kind = "tx"
<1>1. CASE BeginRaises(t) \/ BlockRaises(t)
  BY <1>1 DEF BeginRaises, BlockRaises, Fails, connVars
<1>2. CASE Exit(t) \/ PlainCommit(t) \/ LogCommit(t)
  BY <1>2 DEF Exit, PlainCommit, LogCommit, connVars
<1>3. CASE Enter(t) \/ Begin(t) \/ Execute(t) \/ ReadInTrans(t) \/ AuditLock(t) \/ ReadHead(t)
  BY <1>3 DEF Enter, Begin, Execute, ReadInTrans, AuditLock, ReadHead, connVars
<1>4. CASE ExecuteBusy(t) \/ InsertRetry(t) \/ InsertBusy(t) \/ Drain(t)
  BY <1>4 DEF ExecuteBusy, InsertRetry, InsertBusy, BusyFails, Drain, connVars
<1> QED
  BY <1>1, <1>2, <1>3, <1>4 DEF TaskStep

(* The entries that were taken away stay known.                            *)
LEMMA UnloggedGrows ==
  ASSUME DbInv, [DbNext]_dbVars PROVE metrics.unlogged \subseteq metrics'.unlogged
<1>1. metrics \in MetricsType /\ Len(metrics.buffer) <= BufferCap
  BY DEF DbInv, BufferInv
<1>2. ASSUME NEW c, Rollback(c) PROVE metrics.unlogged \subseteq metrics'.unlogged
  BY <1>1, <1>2 DEF Rollback, MetricsType
<1>3. ASSUME NEW t \in Tasks, TaskStep(t) PROVE metrics.unlogged \subseteq metrics'.unlogged
  <2>1. CASE BeginRaises(t) \/ BlockRaises(t)
    BY <1>2, <2>1 DEF BeginRaises, BlockRaises, Fails
  <2>2. CASE ExecuteBusy(t)
    <3>1. task[t].items \in Seq(Snapshots)
      BY TaskFacts DEF TaskType
    <3> QED
      BY <1>1, <2>2, <3>1, RebufferOK DEF ExecuteBusy
  <2>3. CASE Drain(t)
    BY <1>1, <2>3 DEF Drain, MetricsType
  <2>4. CASE \/ Enter(t) \/ Begin(t) \/ Execute(t) \/ Exit(t) \/ PlainCommit(t) \/ ReadInTrans(t)
             \/ AuditLock(t) \/ ReadHead(t) \/ Insert(t) \/ InsertRetry(t) \/ InsertBusy(t)
             \/ LogCommit(t)
    BY <2>4 DEF Enter, Begin, Execute, Exit, PlainCommit, ReadInTrans, AuditLock, ReadHead, Insert,
                InsertRetry, InsertBusy, LogCommit
  <2> QED
    BY <1>3, <2>1, <2>2, <2>3, <2>4 DEF TaskStep
<1>4. ASSUME NEW t \in Tasks, TaskStart(t) PROVE metrics' = metrics
  BY <1>4 DEF TaskStart, Acquire, Stream, get_metrics_history, Ambient, Bind
<1>5. CASE StatusReport
  <2> DEFINE n == metrics.received + 1
             b == Buffered(metrics, n)
  <2>1. n \in Snapshots /\ metrics' = [b EXCEPT !.received = @ + 1]
    BY <1>1, <1>5, BoundAssumption DEF StatusReport, Snapshots, MetricsType
  <2> HIDE DEF n
  <2>2. b \in MetricsType /\ b.unlogged = metrics.unlogged
    BY <1>1, <2>1, BufferedOK
  <2> HIDE DEF b
  <2> QED
    BY <2>1, <2>2 DEF MetricsType
<1> QED
  BY <1>3, <1>4, <1>5 DEF DbNext, dbVars

(* Only a rollback takes an entry out of sight.                            *)
LEMMA LogShows ==
  ASSUME DbInv, NEW t \in Tasks, TaskStep(t), NEW c \in Conns, NEW e \in Visible(c)
  PROVE  e \in Visible(c)' \/ e.id \in metrics'.unlogged
<1>1. dlog \in [Conns -> SUBSET Entry] /\ On(t) \in Conns /\ metrics \in MetricsType
  BY TaskFacts DEF ConnInv
<1>2. CASE chain' = chain /\ dlog' = dlog
  BY <1>2 DEF Visible
<1>3. CASE Insert(t)
  BY <1>1, <1>3 DEF Insert, Visible
<1>4. CASE Commit(On(t))
  BY <1>1, <1>4 DEF Commit, CommitChain, Close, Visible
<1>5. CASE Rollback(On(t))
  BY <1>1, <1>5 DEF Rollback, Close, Visible, MetricsType
<1> QED
  BY <1>2, <1>3, <1>4, <1>5, LogSteps

(* A commit publishes what its connection sees, if that has the write      *)
(* lock, and nothing otherwise.                                            *)
LEMMA CommitLines ==
  ASSUME DbInv, LinesInv, NEW c \in Conns, Commit(c), metrics.unlogged \subseteq metrics'.unlogged
  PROVE  LinesInv'
<1>1. chain' = Visible(c) /\ dlog' = [dlog EXCEPT ![c] = {}] /\ ConnInv
  BY DEF Commit, CommitChain, Close, Visible, DbInv
<1>2. CASE writer = c
  <2>1. \A d \in Conns : dlog'[d] = {} /\ (d # c => dlog[d] = {})
    BY <1>1, <1>2 DEF ConnInv
  <2>2. \A d \in Conns : Visible(d)' = Visible(c)
    BY <1>1, <2>1 DEF Visible
  <2> QED
    BY <1>1, <2>2, LineMore DEF LinesInv
<1>3. CASE writer # c
  <2>1. dlog[c] = {} /\ chain' = chain /\ \A d \in Conns : dlog'[d] = dlog[d]
    BY <1>1, <1>3 DEF ConnInv, Visible
  <2>2. \A d \in Conns : Visible(d)' = Visible(d)
    BY <2>1 DEF Visible
  <2> QED
    BY <2>1, <2>2, LineMore DEF LinesInv
<1> QED
  BY <1>2, <1>3

(* A rollback leaves its connection with what is committed.                *)
LEMMA RollbackLines ==
  ASSUME DbInv, LinesInv, NEW c \in Conns, Rollback(c), metrics.unlogged \subseteq metrics'.unlogged
  PROVE  LinesInv'
<1>1. chain' = chain /\ dlog' = [dlog EXCEPT ![c] = {}] /\ ConnInv
  BY DEF Rollback, Close, DbInv
<1>2. dlog'[c] = {} /\ \A d \in Conns \ {c} : dlog'[d] = dlog[d]
  BY <1>1 DEF ConnInv
<1>3. Visible(c)' = chain /\ \A d \in Conns \ {c} : Visible(d)' = Visible(d)
  BY <1>1, <1>2 DEF Visible
<1> QED
  BY <1>1, <1>3, LineMore DEF LinesInv

(* An entry is inserted after the head that was read, unless its number    *)
(* has been taken.                                                         *)
LEMMA InsertLines ==
  ASSUME DbInv, ChainInv, NEW t \in Tasks, Insert(t)
  PROVE  LinesInv'
<1> DEFINE e == [seq |-> task[t].seq, id |-> t, prev |-> task[t].prev]
<1>0. PICK c \in Conns : c = On(t)
  BY TaskFacts
<1>1. /\ task[t].pc = "insert" /\ \A d \in Visible(c) : d.seq # task[t].seq
      /\ chain' = chain /\ metrics' = metrics /\ dlog' = [dlog EXCEPT ![c] = @ \cup {e}]
  BY <1>0 DEF Insert, Taken
<1>2. task[t] \in TaskType /\ ConnInv
  BY TaskFacts
<1>3. e \in Entry /\ e.seq = task[t].seq /\ e.prev = task[t].prev
  BY <1>2 DEF Entry, TaskType
<1> HIDE DEF e
<1>4. Follows(e, Visible(c), metrics.unlogged)
  BY <1>0, <1>1, <1>3 DEF ChainInv, HeadsInv, Follows, Linked
<1>5. Line(Visible(c) \cup {e}, metrics.unlogged)
  BY <1>0, <1>1, <1>2, <1>3, <1>4, LineGrows DEF ChainInv, LinesInv
<1>6. Visible(c)' = Visible(c) \cup {e} /\ \A d \in Conns \ {c} : Visible(d)' = Visible(d)
  <2>1. dlog'[c] = dlog[c] \cup {e} /\ \A d \in Conns \ {c} : dlog'[d] = dlog[d]
    BY <1>1, <1>2 DEF ConnInv
  <2> QED
    BY <1>1, <2>1 DEF Visible
<1> QED
  BY <1>1, <1>5, <1>6 DEF ChainInv, LinesInv

(* A coroutine that reads the head remembers what comes after it.          *)
LEMMA ReadHeadLinks ==
  ASSUME DbInv, LinesInv, NEW t \in Tasks, ReadHead(t)
  PROVE  Follows(task'[t], Visible(On(t)), metrics.unlogged)
<1>1. task \in [Tasks -> TaskType] /\ task[t] \in TaskType
  BY TaskFacts DEF DbInv, TasksInv
<1>2. CASE task' = [task EXCEPT ![t] = [@ EXCEPT !.pc = "insert", !.seq = 1, !.prev = Genesis]]
  BY <1>1, <1>2 DEF Follows, Linked, TaskType
<1>3. ASSUME NEW e \in Visible(On(t)),
             task' = [task EXCEPT ![t] = [@ EXCEPT !.pc = "insert", !.seq = e.seq + 1, !.prev = e.id]]
      PROVE  Follows(task'[t], Visible(On(t)), metrics.unlogged)
  <2>1. e.seq \in Nat
    BY TaskFacts DEF Visible, ConnInv, Entry
  <2> QED
    BY <1>1, <1>3, <2>1 DEF Follows, Linked, TaskType
<1> QED
  BY <1>2, <1>3 DEF ReadHead

LEMMA ChainStep ==
  ASSUME DbInv, ChainInv, NEW t \in Tasks, TaskStep(t) PROVE ChainInv'
<1>1. /\ \A u \in Tasks \ {t} : task'[u] = task[u]
      /\ task'[t].pc = "insert" => ReadHead(t)
      /\ On(t) \in Conns
  BY OneMoves, TaskFacts
<1>2. metrics.unlogged \subseteq metrics'.unlogged
  BY UnloggedGrows DEF DbNext
<1>3. LinesInv'
  <2>1. CASE chain' = chain /\ dlog' = dlog
    <3>1. \A c \in Conns : Visible(c)' = Visible(c)
      BY <2>1 DEF Visible
    <3> QED
      BY <1>2, <2>1, <3>1, LineMore DEF ChainInv, LinesInv
  <2> QED
    BY <1>1, <1>2, <2>1, LogSteps, InsertLines, CommitLines, RollbackLines DEF ChainInv
<1>4. ASSUME NEW u \in Tasks, task'[u].pc = "insert"
      PROVE  Follows(task[u], Visible(On(u)), metrics.unlogged)'
  <2>1. CASE u = t
    <3>1. ReadHead(t) /\ Follows(task'[t], Visible(On(t)), metrics.unlogged)
      BY <1>1, <1>4, <2>1, ReadHeadLinks DEF ChainInv
    <3>2. Visible(On(t))' = Visible(On(t)) /\ metrics' = metrics
      BY <3>1, ReadHeadStep DEF ReadHead, connVars, Visible
    <3> QED
      BY <2>1, <3>1, <3>2 DEF Follows, Linked
  <2>2. CASE u # t
    <3>1. task'[u] = task[u] /\ On(u)' = On(u)
      BY <1>1, <2>2 DEF On
    <3>2. PICK c \in Conns : c = On(u)
      BY TaskFacts
    <3>3. Follows(task[u], Visible(c), metrics.unlogged)
      BY <1>4, <3>1, <3>2 DEF ChainInv, HeadsInv
    <3>4. \A d \in Visible(c) : d \in Visible(c)' \/ d.id \in metrics'.unlogged
      BY LogShows
    <3>5. Follows(task[u], Visible(c)', metrics'.unlogged)
      BY <1>2, <3>3, <3>4 DEF Follows, Linked
    <3> QED
      BY <3>1, <3>2, <3>5 DEF Follows, Linked
  <2> QED
    BY <2>1, <2>2
<1> QED
  BY <1>3, <1>4 DEF ChainInv, HeadsInv

LEMMA ChainKept ==
  ASSUME ChainInv, UNCHANGED <<chain, dlog>>, metrics.unlogged \subseteq metrics'.unlogged,
         \A t \in Tasks : task'[t] = task[t] \/ task'[t].pc # "insert"
  PROVE  ChainInv'
<1>1. \A c : Visible(c)' = Visible(c)
  BY DEF Visible
<1>2. LinesInv'
  BY <1>1, LineMore DEF ChainInv, LinesInv
<1>3. ASSUME NEW t \in Tasks, task'[t].pc = "insert"
      PROVE  Follows(task[t], Visible(On(t)), metrics.unlogged)'
  <2>1. task'[t] = task[t] /\ Visible(On(t))' = Visible(On(t))
    BY <1>3 DEF Visible, On
  <2>2. Follows(task[t], Visible(On(t)), metrics.unlogged)
    BY <1>3, <2>1 DEF ChainInv, HeadsInv
  <2> QED
    BY <2>1, <2>2 DEF Follows, Linked
<1> QED
  BY <1>2, <1>3 DEF ChainInv, HeadsInv

LEMMA ChainNext == ASSUME DbInv, ChainInv, [DbNext]_dbVars PROVE ChainInv'
<1>1. ASSUME NEW t \in Tasks, TaskStart(t) PROVE ChainInv'
  BY <1>1, UnloggedGrows, TaskStartStep, ChainKept DEF DbNext
<1>2. CASE StatusReport
  BY <1>2, UnloggedGrows, ChainKept DEF StatusReport, connVars, DbNext
<1>3. CASE UNCHANGED dbVars
  BY <1>3, ChainKept DEF dbVars
<1> QED
  BY <1>1, <1>2, <1>3, ChainStep DEF DbNext

LEMMA ChainInit == ASSUME DbInit PROVE ChainInv
<1>1. \A t \in Tasks : task[t].pc = "new"
  BY DEF DbInit, Unborn
<1>2. chain = {} /\ \A c \in Conns : Visible(c) = {}
  BY DEF DbInit, Visible
<1> QED
  BY <1>1, <1>2 DEF ChainInv, LinesInv, HeadsInv, Line

LEMMA ChainInvariance == DbSpec => []ChainInv
  BY ChainInit, ChainNext, DbInvariance, PTL DEF DbSpec

(***************************************************************************)
(* Whatever coroutines share the primary connection, and however their     *)
(* transaction() blocks commit and roll back each other's entries: the     *)
(* committed log has no two entries under one number, and the only entry   *)
(* that verify_chain can stop at, or that has no number before it, is one  *)
(* that log_action chained to an entry a rollback took away.  The audit    *)
(* lock is not needed for it: UNIQUE(sequence) of audit_log is enough.     *)
(***************************************************************************)
THEOREM ChainIsIntact == DbSpec => []ChainIntact
<1>1. ChainInv => ChainIntact
  BY LineVerified DEF ChainInv, LinesInv
<1> QED
  BY <1>1, ChainInvariance, PTL

-----------------------------------------------------------------------------
(* The log is written at its end *)

LEMMA ChainGrows == ASSUME DbInv, [DbNext]_dbVars PROVE chain \subseteq chain'
<1>1. ASSUME NEW t \in Tasks, TaskStep(t) PROVE chain \subseteq chain'
  BY <1>1, LogSteps DEF Insert, Commit, CommitChain, Rollback
<1>2. ASSUME NEW t \in Tasks, TaskStart(t) PROVE chain \subseteq chain'
  BY <1>2, TaskStartStep
<1>3. CASE StatusReport \/ UNCHANGED dbVars
  BY <1>3 DEF StatusReport, dbVars
<1> QED
  BY <1>1, <1>2, <1>3 DEF DbNext

LEMMA LeastNumber ==
  ASSUME NEW T \in SUBSET Nat, T # {} PROVE \E m \in T : \A k \in T : m <= k
<1> DEFINE R == OpToRel(<, Nat)
<1>1. \A x, y \in Nat : x < y => <<x, y>> \in R
  BY DEF OpToRel
<1>2. IsWellFoundedOn(R, Nat)
  BY NatLessThanWellFounded
<1> HIDE DEF R
<1>3. PICK m \in T : \A k \in T : <<k, m>> \notin R
  BY <1>2, WFMin, Zenon
<1>4. \A k \in T : ~(k < m)
  BY <1>1, <1>3, Zenon
<1>5. \A k \in T : m <= k
  BY <1>4
<1> QED
  BY <1>5

(* An entry that a longer line has below one of a shorter fills a gap: the *)
(* first entry of the shorter above it had lost the entry before it.       *)
LEMMA GapBefore ==
  ASSUME NEW C, NEW D, NEW U, NEW V, Line(C, U), Line(D, V), C \subseteq D,
         NEW e \in D \ C, NEW d \in C, ~(d.seq < e.seq)
  PROVE  \E f \in C : f.prev \in U /\ e.seq < f.seq /\ f.seq <= d.seq
<1> DEFINE T == {f.seq : f \in {g \in C : g.seq > e.seq}}
<1>1. e.seq \in Nat /\ e.seq >= 1 /\ \A f \in C : f.seq \in Nat /\ f.seq # e.seq
  BY DEF Line, Follows, Entry
<1>2. T \in SUBSET Nat /\ d.seq \in T
  BY <1>1
<1>3. PICK m \in T : \A k \in T : m <= k
  BY <1>2, LeastNumber
<1>4. PICK f \in C : f.seq > e.seq /\ f.seq = m
  BY <1>3
<1>5. \A g \in C : g.seq > e.seq => f.seq <= g.seq
  BY <1>3, <1>4
<1> HIDE DEF T
<1>6. f.prev \in U
  <2> SUFFICES ASSUME Linked(f, C) PROVE FALSE
    BY DEF Line, Follows
  <2>1. f.seq # 1
    BY <1>1, <1>4
  <2>2. PICK g \in C : g.seq + 1 = f.seq
    BY <2>1 DEF Linked
  <2> QED
    BY <1>1, <1>4, <1>5, <2>2
<1> QED
  BY <1>1, <1>4, <1>5, <1>6

(***************************************************************************)
(* An entry that log_action has numbered may be committed much later, by   *)
(* another coroutine of its connection, or never.  Still an auditor who    *)
(* has walked the committed log finds it unchanged, and with nothing       *)
(* slipped in before the place he got to but in a gap: between it and the  *)
(* place there was an entry chained to one that a rollback took away.      *)
(***************************************************************************)
OnlyExtended ==
  /\ chain \subseteq chain'
  /\ \A e \in chain' \ chain, d \in chain :
       \/ d.seq < e.seq
       \/ \E f \in chain : f.prev \in metrics.unlogged /\ e.seq < f.seq /\ f.seq <= d.seq
THEOREM LogIsExtended == DbSpec => [][OnlyExtended]_dbVars
<1>1. DbInv /\ ChainInv /\ ChainInv' /\ [DbNext]_dbVars => OnlyExtended
  <2> SUFFICES ASSUME DbInv, ChainInv, ChainInv', [DbNext]_dbVars PROVE OnlyExtended
    OBVIOUS
  <2>1. chain \subseteq chain'
    BY ChainGrows
  <2>2. Line(chain, metrics.unlogged) /\ Line(chain', metrics'.unlogged)
    BY DEF ChainInv, LinesInv
  <2> QED
    BY <2>1, <2>2, GapBefore DEF OnlyExtended
<1> QED
  BY <1>1, ChainInvariance, DbInvariance, PTL DEF DbSpec
=============================================================================
