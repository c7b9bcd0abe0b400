------------------------------- MODULE Alerts -------------------------------
(***************************************************************************)
(* The alert engine and the investigations it starts: evaluations that run *)
(* one at a time under the engine's lock, the alerts table and the memory  *)
(* that mirrors it, the hook timeout that cancels an evaluation between    *)
(* the two, the operator who closes a row behind the engine's back, the    *)
(* deletion of a node, restarts, and the slots the investigations share.   *)
(* An evaluation is what it will attempt for each alert, a resolution, a   *)
(* fire or one after the other: each reads and writes the entry of its own *)
(* alert, and nobody else touches the memory while the lock is held, so    *)
(* the plan is known when the lock is taken, and the order of the alerts   *)
(* in it is of no consequence.                                             *)
(***************************************************************************)
EXTENDS Integers, Sequences, FiniteSets

CONSTANTS
  Nodes,
  Thresholds,      \* names of BUILTIN_THRESHOLDS
  Threshold,       \* their definitions
  Values,          \* the values a metric takes
  None,
  MaxConcurrent,   \* InvestigationManager._max_concurrent
  MaxRows,         \* bound on the alerts ever inserted
  MaxCrashes       \* bound on the restarts

Events == {"node_reboot_detected", "node_state_lost", "node_state_stale",
           "node_connection_flap", "intent_failed_rate"}
Severities == {"warning", "critical"}
Working == {"inserting", "queued", "running"}   \* an investigation's stages that hold a slot
Stages  == Working \cup {"called", "done", "stuck"}

ASSUME BoundsAssumption ==
  /\ {MaxConcurrent, MaxRows, MaxCrashes} \subseteq Nat
  /\ Values \subseteq Int /\ None \notin Int
  /\ Threshold \in [Thresholds -> [warning_at : Int \cup {None}, critical_at : Int \cup {None},
                                   resolve_at : Int, operator : {"gt", "lt"}]]
ASSUME NamesAssumption == Thresholds \cap Events = {} /\ None \notin Severities \cup Stages

VARIABLES
  up,         \* the master runs, and how often it stopped
  live,       \* the rows of nodes
  rows,       \* the alerts ever inserted; "gone": no longer in the table
  mem,        \* _active_alerts: the row of the entry, 0 without one
  seen,       \* the nodes that have a _last_snapshot
  ev,         \* the evaluation that holds _lock
  inv,        \* the investigation of each alert
  reserved,   \* InvestigationManager._reserved
  orphan,     \* firing rows that lost their entry through a failure
  silent      \* entries whose row was closed by someone else

vars == <<up, live, rows, mem, seen, ev, inv, reserved, orphan, silent>>

Names  == Thresholds \cup Events
RowIds == 1..MaxRows
Nothing == [resolve |-> FALSE, fire |-> None]
NoEval  == [node |-> None, cancellable |-> FALSE, todo |-> [a \in Names |-> Nothing]]
NoAlert == [n \in Nodes |-> [a \in Names |-> 0]]

(* Every variable has its declared shape. *)
TypeOK ==
  /\ up \in [on : BOOLEAN, stops : 0..MaxCrashes]
  /\ live \subseteq Nodes
  /\ rows \in Seq([node : Nodes, name : Names, severity : Severities,
                   status : {"firing", "resolved", "gone"}])
  /\ Len(rows) <= MaxRows
  /\ mem \in [Nodes -> [Names -> 0..Len(rows)]]
  /\ seen \subseteq Nodes
  /\ ev \in [node : Nodes \cup {None}, cancellable : BOOLEAN,
             todo : [Names -> [resolve : BOOLEAN, fire : Severities \cup {None}]]]
  /\ inv \in [RowIds -> Stages \cup {None}]
  /\ reserved \in 0..MaxConcurrent
  /\ orphan \subseteq DOMAIN rows /\ silent \subseteq DOMAIN rows

Init ==
  /\ up = [on |-> FALSE, stops |-> 0]
  /\ live = Nodes
  /\ rows = <<>>
  /\ mem = NoAlert
  /\ seen = {}
  /\ ev = NoEval
  /\ inv = [r \in RowIds |-> None]
  /\ reserved = 0
  /\ orphan = {} /\ silent = {}

-----------------------------------------------------------------------------
(* What an evaluation decides to do *)

_cmp(t, v, at) == at # None /\ IF t.operator = "gt" THEN v > at ELSE v < at

check(t, v) ==
  CASE _cmp(t, v, t.critical_at) -> "critical"
    [] _cmp(t, v, t.warning_at)  -> "warning"
    [] OTHER                     -> None

is_resolved(t, v) == IF t.operator = "gt" THEN v <= t.resolve_at ELSE v >= t.resolve_at

Active(n, a) == mem[n][a] # 0
Entries == {mem[n][a] : n \in Nodes, a \in Names} \ {0}
Rank(severity) == IF severity = "critical" THEN 2 ELSE 1

(* One threshold: a higher severity resolves the alert and fires it again *)
OneThreshold(n, a, v) ==
  LET severity == check(Threshold[a], v)
      covered  == Active(n, a) /\ Rank(rows[mem[n][a]].severity) >= Rank(severity)
  IN CASE v = None -> Nothing
       [] v # None /\ severity # None ->
            IF covered THEN Nothing ELSE [resolve |-> Active(n, a), fire |-> severity]
       [] OTHER -> [resolve |-> Active(n, a) /\ is_resolved(Threshold[a], v), fire |-> None]

(* An alert of no severity but its own, which fires while something holds *)
While(holds, n, a, severity) ==
  [resolve |-> ~holds /\ Active(n, a), fire |-> IF holds /\ ~Active(n, a) THEN severity ELSE None]

(* A drop of the uptime since the previous report *)
_detect_reboot(n, a, dropped) == IF n \in seen THEN While(dropped, n, a, "warning") ELSE Nothing

_evaluate_builtin_thresholds(n, snapshot, dropped) ==
  [a \in Names |-> IF a \in Thresholds THEN OneThreshold(n, a, snapshot[a])
                   ELSE IF a = "node_reboot_detected" THEN _detect_reboot(n, a, dropped)
                   ELSE Nothing]

(* The alert a that a state concerns: loss and silence hold from then on, a
   new connection ends both and is one of too many, or not *)
OfState(n, a, state, flapping) ==
  CASE a = "node_state_lost" /\ state \in {"LOST", "CONNECTED"} ->
         While(state = "LOST", n, a, "critical")
    [] a = "node_state_stale" /\ state \in {"STALE", "CONNECTED"} ->
         While(state = "STALE", n, a, "critical")
    [] a = "node_connection_flap" /\ state = "CONNECTED" -> While(flapping, n, a, "warning")
    [] OTHER -> Nothing

-----------------------------------------------------------------------------
(* Taking the lock *)

Hold(n, cancellable, todo) ==
  /\ up.on
  /\ ev = NoEval
  /\ ev' = [node |-> n, cancellable |-> cancellable, todo |-> todo]

(* The hook on_status_report, which the hook bus cancels at its deadline *)
evaluate_metrics(n) ==
  \E snapshot \in [Thresholds -> Values \cup {None}], dropped \in BOOLEAN :
    /\ Hold(n, TRUE, _evaluate_builtin_thresholds(n, snapshot, dropped))
    /\ seen' = seen \cup {n}
    /\ UNCHANGED <<up, live, rows, mem, inv, reserved, orphan, silent>>

(* The callback of a state change, a task of its own *)
evaluate_node_state(n, state) ==
  \E flapping \in BOOLEAN :
    /\ Hold(n, FALSE, [a \in Names |-> OfState(n, a, state, flapping)])
    /\ UNCHANGED <<up, live, rows, mem, seen, inv, reserved, orphan, silent>>

(* The window of the node's last intents is over or under the failure rate *)
track_intent_result(n, over) ==
  /\ Hold(n, FALSE, [a \in Names |-> IF a = "intent_failed_rate"
                                     THEN While(over, n, a, "warning") ELSE Nothing])
  /\ UNCHANGED <<up, live, rows, mem, seen, inv, reserved, orphan, silent>>

-----------------------------------------------------------------------------
(* Carrying it out *)

Todo(a)     == ev.todo[a]
ToFire(a)   == up.on /\ ~Todo(a).resolve /\ Todo(a).fire # None
ToResolve(a) == up.on /\ Todo(a).resolve
Fired(a)    == ev' = [ev EXCEPT !.todo = [@ EXCEPT ![a] = Nothing]]
NowFire(a)  == ev' = [ev EXCEPT !.todo = [@ EXCEPT ![a] = [resolve |-> FALSE, fire |-> Todo(a).fire]]]

(* The row of an entry that a new alert replaces is out of reach if it fires *)
Replaced(r) == IF r # 0 /\ rows[r].status = "firing" THEN {r} ELSE {}

Inserted(n, a) ==
  /\ n \in live
  /\ Len(rows) < MaxRows
  /\ rows' = Append(rows, [node |-> n, name |-> a, severity |-> Todo(a).fire, status |-> "firing"])

_fire_alert(a) ==
  /\ ToFire(a)
  /\ Inserted(ev.node, a)
  /\ mem' = [mem EXCEPT ![ev.node] = [@ EXCEPT ![a] = Len(rows')]]
  /\ silent' = silent \ {mem[ev.node][a]}
  /\ orphan' = orphan \cup Replaced(mem[ev.node][a])
  /\ inv' = [inv EXCEPT ![Len(rows')] = "called"]
  /\ Fired(a)
  /\ UNCHANGED <<up, live, seen, reserved>>

(* The limiter, whose window only the clock empties, refuses, or the INSERT
   fails: nothing is remembered *)
NotFired(a) ==
  /\ ToFire(a)
  /\ Fired(a)
  /\ UNCHANGED <<up, live, rows, mem, seen, inv, reserved, orphan, silent>>

Resolved(r) ==
  IF rows[r].status = "firing" THEN [rows EXCEPT ![r] = [@ EXCEPT !.status = "resolved"]] ELSE rows

_resolve_alert(a) ==
  /\ ToResolve(a)
  /\ rows' = Resolved(mem[ev.node][a])
  /\ mem' = [mem EXCEPT ![ev.node] = [@ EXCEPT ![a] = 0]]
  /\ silent' = silent \ {mem[ev.node][a]}
  /\ NowFire(a)
  /\ UNCHANGED <<up, live, seen, inv, reserved, orphan>>

(* The UPDATE fails: the entry stays *)
NotResolved(a) ==
  /\ ToResolve(a)
  /\ NowFire(a)
  /\ UNCHANGED <<up, live, rows, mem, seen, inv, reserved, orphan, silent>>

(* The lock is released *)
Release ==
  /\ up.on
  /\ ev # NoEval
  /\ ev.todo = NoEval.todo
  /\ ev' = NoEval
  /\ UNCHANGED <<up, live, rows, mem, seen, inv, reserved, orphan, silent>>

(* The hook's deadline passes: the rest of the evaluation is dropped *)
Cancelled ==
  /\ up.on
  /\ ev.cancellable
  /\ ev' = NoEval
  /\ UNCHANGED <<up, live, rows, mem, seen, inv, reserved, orphan, silent>>

(* ... while the INSERT commits: the row fires and the memory has no entry *)
CancelledAfterInsert(a) ==
  /\ ev.cancellable
  /\ ToFire(a)
  /\ Inserted(ev.node, a)
  /\ orphan' = orphan \cup {Len(rows')}
  /\ ev' = NoEval
  /\ UNCHANGED <<up, live, mem, seen, inv, reserved, silent>>

(* ... while the UPDATE commits: the row is closed and the entry remains *)
CancelledAfterUpdate(a) ==
  /\ ev.cancellable
  /\ ToResolve(a)
  /\ rows' = Resolved(mem[ev.node][a])
  /\ silent' = silent \cup {mem[ev.node][a]}
  /\ ev' = NoEval
  /\ UNCHANGED <<up, live, mem, seen, inv, reserved, orphan>>

-----------------------------------------------------------------------------
(* The rest of the master *)

(* The endpoint closes the row; the engine is not told *)
acknowledge_alert(r) ==
  /\ up.on
  /\ r \in DOMAIN rows
  /\ rows[r].status = "firing"
  /\ rows' = Resolved(r)
  /\ silent' = silent \cup ({r} \cap Entries)
  /\ orphan' = orphan \ {r}
  /\ UNCHANGED <<up, live, mem, seen, ev, inv, reserved>>

cleanup_old_alerts ==
  /\ up.on
  /\ \E r \in DOMAIN rows : rows[r].status = "resolved"
  /\ rows' = [r \in DOMAIN rows |->
                IF rows[r].status = "resolved" THEN [rows[r] EXCEPT !.status = "gone"] ELSE rows[r]]
  /\ UNCHANGED <<up, live, mem, seen, ev, inv, reserved, orphan, silent>>

(* The foreign keys remove the node's alerts; the engine keeps its entries *)
delete_node(n) ==
  /\ up.on
  /\ n \in live
  /\ live' = live \ {n}
  /\ rows' = [r \in DOMAIN rows |->
                IF rows[r].node = n THEN [rows[r] EXCEPT !.status = "gone"] ELSE rows[r]]
  /\ silent' = silent \cup {r \in Entries : rows[r].node = n}
  /\ orphan' = {r \in orphan : rows[r].node # n}
  /\ UNCHANGED <<up, mem, seen, ev, inv, reserved>>

(* The process ends: memory and tasks are lost *)
Crash ==
  /\ up.on
  /\ up.stops < MaxCrashes
  /\ up' = [on |-> FALSE, stops |-> up.stops + 1]
  /\ mem' = NoAlert
  /\ seen' = {}
  /\ ev' = NoEval
  /\ inv' = [r \in RowIds |-> CASE inv[r] \in {"queued", "running"} -> "stuck"
                                [] inv[r] \in {"called", "inserting"} -> None
                                [] OTHER -> inv[r]]
  /\ reserved' = 0
  /\ UNCHANGED <<live, rows, orphan, silent>>

FiringRows(n, a) ==
  {r \in DOMAIN rows : rows[r].node = n /\ rows[r].name = a /\ rows[r].status = "firing"}

(* Mutant: the start forgets the table *)
RestoredNot == NoAlert

(* Every firing row becomes an entry; of two for one alert the last read stays *)
Restored ==
  [n \in Nodes |-> [a \in Names |->
     IF FiringRows(n, a) = {} THEN 0
     ELSE CHOOSE r \in FiringRows(n, a) : \A q \in FiringRows(n, a) : q <= r]]

Firing == {r \in DOMAIN rows : rows[r].status = "firing"}

initialize ==
  /\ ~up.on
  /\ up' = [up EXCEPT !.on = TRUE]
  /\ mem' = Restored
  /\ orphan' = {r \in Firing : \E q \in FiringRows(rows[r].node, rows[r].name) : q > r}
  /\ silent' = {}
  /\ UNCHANGED <<live, rows, seen, ev, inv, reserved>>

(* The SELECT fails: the engine starts without entries *)
InitializeFails ==
  /\ ~up.on
  /\ up' = [up EXCEPT !.on = TRUE]
  /\ orphan' = Firing
  /\ silent' = {}
  /\ UNCHANGED <<live, rows, mem, seen, ev, inv, reserved>>

-----------------------------------------------------------------------------
(* Investigations *)

Stage(r, from, to) == up.on /\ inv[r] = from /\ inv' = [inv EXCEPT ![r] = to]
Engine == <<up, live, rows, mem, seen, ev, orphan, silent>>

(* Mutant: the reservation follows a check made against the limit included *)
on_alert_fired_over(r) ==
  /\ IF reserved > MaxConcurrent
     THEN Stage(r, "called", "done") /\ reserved' = reserved
     ELSE Stage(r, "called", "inserting") /\ reserved' = reserved + 1
  /\ UNCHANGED Engine

(* The check and the reservation are one step; without a slot the row is
   written as dropped and that is all *)
on_alert_fired(r) ==
  /\ IF reserved >= MaxConcurrent
     THEN Stage(r, "called", "done") /\ reserved' = reserved
     ELSE Stage(r, "called", "inserting") /\ reserved' = reserved + 1
  /\ UNCHANGED Engine

Queued(r) ==
  /\ Stage(r, "inserting", "queued")
  /\ rows[r].node \in live
  /\ UNCHANGED <<Engine, reserved>>

(* Mutant: a failed INSERT keeps its slot *)
NotQueuedKeeps(r) ==
  /\ Stage(r, "inserting", None)
  /\ UNCHANGED <<Engine, reserved>>

NotQueued(r) ==
  /\ Stage(r, "inserting", None)
  /\ reserved' = reserved - 1
  /\ UNCHANGED Engine

Running == {r \in RowIds : inv[r] = "running"}

(* The semaphore, then a pooled connection and the mark in_progress *)
_run_investigation(r) ==
  /\ Stage(r, "queued", "running")
  /\ Cardinality(Running) < MaxConcurrent
  /\ UNCHANGED <<Engine, reserved>>

(* No connection comes free in time: the row stays queued *)
NoSession(r) ==
  /\ Stage(r, "queued", "stuck")
  /\ Cardinality(Running) < MaxConcurrent
  /\ reserved' = reserved - 1
  /\ UNCHANGED Engine

(* completed, skipped or failed; "stuck" if no result can be written *)
Concluded(r) ==
  /\ \E to \in {"done", "stuck"} : Stage(r, "running", to)
  /\ reserved' = reserved - 1
  /\ UNCHANGED Engine

-----------------------------------------------------------------------------
Evaluate ==
  \E n \in Nodes :
    \/ evaluate_metrics(n)
    \/ \E state \in {"LOST", "STALE", "CONNECTED", "DISABLED"} : evaluate_node_state(n, state)
    \/ \E over \in BOOLEAN : track_intent_result(n, over)

CarryOut(a) == _fire_alert(a) \/ NotFired(a) \/ _resolve_alert(a) \/ NotResolved(a)

Disturb ==
  \/ Cancelled \/ \E a \in Names : CancelledAfterInsert(a) \/ CancelledAfterUpdate(a)
  \/ cleanup_old_alerts \/ Crash \/ initialize \/ InitializeFails
  \/ \E r \in RowIds : acknowledge_alert(r)
  \/ \E n \in Nodes : delete_node(n)

Investigate(r) ==
  \/ on_alert_fired(r) \/ Queued(r) \/ NotQueued(r)
  \/ _run_investigation(r) \/ NoSession(r) \/ Concluded(r)

Next ==
  \/ Evaluate \/ Release \/ Disturb
  \/ \E a \in Names : CarryOut(a)
  \/ \E r \in RowIds : Investigate(r)

Spec == Init /\ [][Next]_vars

-----------------------------------------------------------------------------
(* The engine's memory and the table agree.  A firing row is within the
   engine's reach, where a report can resolve it and the next one does not
   fire it again, unless an evaluation was cancelled while its INSERT
   committed, a failed resolution was followed by the escalation, or the
   engine could not read the table at start (or read two such rows of one
   alert).  And an entry that silences its alert stands for a firing row,
   unless an operator, the node's deletion or a cancelled resolution closed
   that row: no other path mutes an alert nobody can see. *)
MemoryAgrees ==
  /\ up.on => \A r \in Firing : mem[rows[r].node][rows[r].name] = r \/ r \in orphan
  /\ \A n \in Nodes, a \in Names :
       mem[n][a] # 0 => rows[mem[n][a]].status = "firing" \/ mem[n][a] \in silent

(* The slots counted as reserved are those of the investigations under way:
   a failed INSERT, a missing connection or a failed analysis gives the slot
   back exactly once. *)
ReservedExact ==
  reserved = Cardinality({r \in RowIds : inv[r] \in Working})
=============================================================================
