-------------------------------- MODULE Outbox --------------------------------
(***************************************************************************)
(* The transactional outbox (core/outbox.py): events are inserted in their *)
(* publisher's transaction and handed to the registered handlers by sweeps *)
(* that claim one entry at a time.  lifespan.py replays the table at       *)
(* start-up and then runs one sweep every 15 seconds; the claim is written *)
(* for any number of sweeps.                                               *)
(*                                                                         *)
(* Events are numbered in the order of created_at.                         *)
(***************************************************************************)
EXTENDS Naturals, FiniteSets

CONSTANTS
  MaxEvents,    \* bound on the events published
  Handled,      \* the events whose type has a handler
  Sweeps,       \* concurrent process_pending calls
  BatchSize,    \* LIMIT of a sweep
  ReplaySize,   \* LIMIT of the start-up replay
  MaxRetries,   \* dead-letter cap
  MaxRaises,    \* bound on the sweeps that a failing statement ends
  MaxCrashes    \* bound on the crashes of the master

Events == 1..MaxEvents

ASSUME SizesAssumption ==
  /\ MaxEvents \in Nat /\ MaxCrashes \in Nat /\ MaxRaises \in Nat
  /\ BatchSize \in Nat \ {0} /\ ReplaySize \in Nat \ {0} /\ MaxRetries \in Nat \ {0}
ASSUME HandledAssumption == Handled \subseteq Events

VARIABLES
  entry,      \* outbox.processed: open (0), claimed (2), done or dead (1); none, gone
  retries,    \* outbox.retry_count
  sweep,      \* the sweeps: next step, rows still to visit, row in hand, its result
  mode,       \* the master process
  attempts,   \* history: how often the handlers of an event were run
  succeeded,  \* history: events all of whose handlers have returned
  orphaned,   \* history: events whose sweep raised since the last start-up
  crashes,
  raises

hist   == <<attempts, succeeded>>
faults == <<orphaned, crashes, raises>>
vars   == <<entry, retries, sweep, mode, attempts, succeeded, orphaned, crashes, raises>>

Asleep    == [pc |-> "idle", batch |-> {}, cur |-> 0, ok |-> FALSE]
EntryType == {"none", "open", "claimed", "done", "dead", "gone"}
SweepType == [pc : {"idle", "loop", "handle", "mark"}, batch : SUBSET Events,
              cur : 0..MaxEvents, ok : BOOLEAN]

(* Every variable has its declared shape; retry_count stays under the cap. *)
TypeOK ==
  /\ entry \in [Events -> EntryType]
  /\ retries \in [Events -> 0..MaxRetries]
  /\ sweep \in [Sweeps -> SweepType]
  /\ mode \in {"down", "boot", "up"}
  /\ attempts \in [Events -> Nat]
  /\ succeeded \in SUBSET Events /\ orphaned \in SUBSET Events
  /\ crashes \in Nat /\ raises \in Nat

Init ==
  /\ entry = [e \in Events |-> "none"]
  /\ retries = [e \in Events |-> 0]
  /\ sweep = [s \in Sweeps |-> Asleep]
  /\ mode = "down"
  /\ attempts = [e \in Events |-> 0]
  /\ succeeded = {} /\ orphaned = {}
  /\ crashes = 0 /\ raises = 0

-----------------------------------------------------------------------------
Pending    == {e \in Events : entry[e] = "open"}
\* ORDER BY created_at LIMIT n
First(n, S) == {e \in S : Cardinality({d \in S : d < e}) < n}
IsFirst(e, S) == e \in S /\ \A d \in S : e <= d

\* publish: the INSERT becomes visible when the publisher commits.
Publish(e) ==
  /\ entry[e] = "none" /\ \A d \in Events : d < e => entry[d] # "none"
  /\ entry' = [entry EXCEPT ![e] = "open"]
  /\ UNCHANGED <<retries, sweep, mode, hist, faults>>

\* The hook bus publishes once the subscribers of a critical hook are done; an
\* INSERT that fails is logged, and that event never becomes one.
_publish_outbox_event(e) == mode # "down" /\ Publish(e)

\* process_pending reads the batch once; an empty one ends the call at once.
Select(s) ==
  /\ mode = "up" /\ sweep[s].pc = "idle"
  /\ Pending # {}
  /\ sweep' = [sweep EXCEPT ![s] = [Asleep EXCEPT !.pc = "loop",
                                                  !.batch = First(BatchSize, Pending)]]
  /\ UNCHANGED <<entry, retries, mode, hist, faults>>

\* UPDATE outbox SET processed = 2 WHERE id = ? AND processed = 0
ClaimableAny(e) == entry[e] \in {"open", "claimed"}
Claimable(e)    == entry[e] = "open"

\* Claim the next row of the batch, or skip it.
Claim(s, e) ==
  /\ sweep[s].pc = "loop"
  /\ IsFirst(e, sweep[s].batch)
  /\ IF Claimable(e)
       THEN /\ entry' = [entry EXCEPT ![e] = "claimed"]
            /\ sweep' = [sweep EXCEPT ![s] = [pc |-> "handle", batch |-> @.batch \ {e},
                                              cur |-> e, ok |-> FALSE]]
       ELSE /\ sweep' = [sweep EXCEPT ![s].batch = @ \ {e}]
            /\ UNCHANGED entry
  /\ UNCHANGED <<retries, mode, hist, faults>>

\* Every handler runs, whatever the others do; one failure fails the entry.
\* Without a handler the entry counts as processed.
Handle(s, ok) ==
  /\ sweep[s].pc = "handle"
  /\ LET e == sweep[s].cur IN
       /\ e \notin Handled => ok
       /\ attempts' = [attempts EXCEPT ![e] = IF e \in Handled THEN @ + 1 ELSE @]
       /\ succeeded' = IF ok THEN succeeded \cup {e} ELSE succeeded
  /\ sweep' = [sweep EXCEPT ![s] = [@ EXCEPT !.pc = "mark", !.ok = ok]]
  /\ UNCHANGED <<entry, retries, mode, faults>>

\* _mark_processed: what the entry becomes.
MarkedAsOffByOne(e, ok) ==
  IF ok THEN "done" ELSE IF retries[e] >= MaxRetries THEN "dead" ELSE "open"
MarkedAsDone(e, ok) ==
  IF ok \/ retries[e] + 1 < MaxRetries THEN "done" ELSE "dead"
MarkedAs(e, ok) ==
  IF ok THEN "done" ELSE IF retries[e] + 1 >= MaxRetries THEN "dead" ELSE "open"

Mark(s) ==
  /\ sweep[s].pc = "mark"
  /\ LET e == sweep[s].cur IN
       /\ entry' = [entry EXCEPT ![e] = MarkedAs(e, sweep[s].ok)]
       /\ retries' = [retries EXCEPT ![e] = IF sweep[s].ok THEN @ ELSE @ + 1]
  /\ sweep' = [sweep EXCEPT ![s] = [pc |-> "loop", batch |-> @.batch, cur |-> 0, ok |-> FALSE]]
  /\ UNCHANGED <<mode, hist, faults>>

\* A statement raises: the loop logs it and the call is over.  The row in hand
\* keeps its claim.
SweepRaises(s) ==
  /\ raises < MaxRaises /\ raises' = raises + 1
  /\ sweep[s].pc \in {"loop", "mark"}
  /\ sweep' = [sweep EXCEPT ![s] = Asleep]
  /\ orphaned' = IF sweep[s].pc = "mark" THEN orphaned \cup {sweep[s].cur} ELSE orphaned
  /\ UNCHANGED <<entry, retries, mode, hist, crashes>>

SweepEnds(s) ==
  /\ sweep[s].pc = "loop" /\ sweep[s].batch = {}
  /\ sweep' = [sweep EXCEPT ![s] = Asleep]
  /\ UNCHANGED <<entry, retries, mode, hist, faults>>

\* cleanup_old: a row processed more than seven days ago.
CleanupOld(e) ==
  /\ mode = "up" /\ entry[e] \in {"done", "dead"}
  /\ entry' = [entry EXCEPT ![e] = "gone"]
  /\ UNCHANGED <<retries, sweep, mode, hist, faults>>

-----------------------------------------------------------------------------
\* A crash, or the cancellation of the sweep at shutdown.
Crash ==
  /\ mode # "down" /\ crashes < MaxCrashes
  /\ mode' = "down" /\ crashes' = crashes + 1
  /\ sweep' = [s \in Sweeps |-> Asleep]
  /\ UNCHANGED <<entry, retries, hist, orphaned, raises>>

\* UPDATE outbox SET processed = 0 WHERE processed = 2
ResetNothing(e) == entry[e]
Reset(e) == IF entry[e] = "claimed" THEN "open" ELSE entry[e]

\* replay_unprocessed at start-up, before the sweep loop exists.
Replay(s) ==
  /\ mode = "down"
  /\ mode' = "boot"
  /\ entry' = [e \in Events |-> Reset(e)]
  /\ sweep' = [sweep EXCEPT ![s] =
                 [Asleep EXCEPT !.pc = "loop",
                                !.batch = First(ReplaySize, {e \in Events : Reset(e) = "open"})]]
  /\ orphaned' = {}
  /\ UNCHANGED <<retries, hist, crashes, raises>>

Ready ==
  /\ mode = "boot" /\ \A s \in Sweeps : sweep[s].pc = "idle"
  /\ mode' = "up"
  /\ UNCHANGED <<entry, retries, sweep, hist, faults>>

SweepStep(s) ==
  \/ Select(s) \/ Mark(s) \/ SweepEnds(s)
  \/ \E e \in Events : Claim(s, e)
  \/ \E ok \in BOOLEAN : Handle(s, ok)

Next ==
  \/ \E s \in Sweeps : SweepStep(s) \/ SweepRaises(s) \/ Replay(s)
  \/ \E e \in Events : _publish_outbox_event(e) \/ CleanupOld(e)
  \/ Crash
  \/ Ready

(***************************************************************************)
(* The event loop runs the sweep that is due and every handler returns or  *)
(* raises; the service manager restarts the master.                        *)
(***************************************************************************)
Fairness ==
  /\ \A s \in Sweeps : WF_vars(SweepStep(s))
  /\ WF_vars(\E s \in Sweeps : Replay(s))
  /\ WF_vars(Ready)

Spec == Init /\ [][Next]_vars /\ Fairness

-----------------------------------------------------------------------------
(* Properties *)

(***************************************************************************)
(* An entry in the hands of a sweep is claimed, and by that sweep alone:   *)
(* two overlapping process_pending calls never run the handlers of the     *)
(* same entry side by side.                                                *)
(***************************************************************************)
InHand(s) == sweep[s].pc \in {"handle", "mark"}
SoleDispatcher ==
  \A s \in Sweeps : InHand(s) =>
    /\ sweep[s].cur \in Events /\ entry[sweep[s].cur] = "claimed"
    /\ \A r \in Sweeps \ {s} : ~(InHand(r) /\ sweep[r].cur = sweep[s].cur)

(***************************************************************************)
(* At-least-once: an entry is marked processed only after all its handlers *)
(* returned, or after they failed max_retries times.                       *)
(***************************************************************************)
AtLeastOnce ==
  \A e \in Events :
    /\ entry[e] = "done" => e \in succeeded /\ (e \in Handled => attempts[e] > 0)
    /\ entry[e] = "dead" => retries[e] = MaxRetries /\ attempts[e] >= MaxRetries

(***************************************************************************)
(* Every published event is processed or dead-lettered, across crashes in  *)
(* the middle of a dispatch and behind entries that keep failing.  The one *)
(* exception is the entry in hand when a statement of the sweep raised:    *)
(* nothing releases its claim while the master runs.                       *)
(***************************************************************************)
EventuallySettled ==
  \A e \in Events :
    (entry[e] = "open") ~> (entry[e] \in {"done", "dead", "gone"} \/ e \in orphaned)
===============================================================================
