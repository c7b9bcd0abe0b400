------------------------------ MODULE Proposals ------------------------------
(***************************************************************************)
(* The Human-in-the-Loop action proposal lifecycle of the Vigile master:   *)
(* creation, approval, rejection, auto-expiry, the dispatcher that sends   *)
(* the approved intent to the worker, the auto-approved admin and          *)
(* profiling paths, node deletion, and a crash of the master followed by   *)
(* the start-up reconciliation of lifespan.py.                             *)
(*                                                                         *)
(* Every HTTP request and background job is an asyncio task; it loses      *)
(* control at each await, so one action is the code between two awaits.    *)
(* A request has a pooled SQLite connection and a dispatcher object of its *)
(* own (deps.py), hence the dispatcher's lock excludes nobody and is       *)
(* absent: the guards of the SQL statements are the only synchronisation.  *)
(***************************************************************************)
EXTENDS Naturals, FiniteSets

CONSTANTS
  Props,        \* proposal ids (uuid4, never reused)
  Nodes,        \* worker nodes
  Tasks,        \* slots for concurrently running asyncio tasks
  NodeOf,       \* the target node of each proposal
  ShortMaxAge,  \* is the maximum age of an intent set below its timeout?
  MaxCrashes    \* bound on the crashes of the master

Roles       == {"operator", "admin"}
ActionClass == {"plain", "destructive", "protected", "restart_container"}

ASSUME NodeOfAssumption   == NodeOf \in [Props -> Nodes]
ASSUME MaxAgeAssumption   == ShortMaxAge \in BOOLEAN
ASSUME MaxCrashAssumption == MaxCrashes \in Nat

(***************************************************************************)
(* status "NONE": the row has not been inserted; "GONE": it was deleted.   *)
(* A deleted row keeps its other columns here as history only: no          *)
(* statement reads or writes a row that is GONE.                           *)
(***************************************************************************)
Statuses == {"PENDING", "APPROVED", "EXECUTED", "FAILED", "REJECTED"}
Origins  == {"none", "chat", "admin", "profile"}
Kinds    == {"idle", "approve", "reject", "expire", "admin", "profile", "reconcile"}
Steps    == {"idle", "normalize", "load", "claim", "send", "sending", "wait",
             "persist", "audit", "audit_approved", "reject", "audit_rejected", "loop"}
AuditActions == {"SECURITY_INCIDENT", "PROPOSAL_APPROVED", "PROPOSAL_REJECTED",
                 "INTENT_DISPATCH", "INTENT_RESULT", "AUTOMATION_TRIGGERED"}

VARIABLES
  row,      \* action_proposals: status, dispatch_id set?, approved_by, the class
            \* of action and the code path that inserted it
  audit,    \* the audit_log actions recorded for each proposal
  task,     \* the running tasks: kind, next step, proposal, user, result, rows left
  mode,     \* the master process: down, boot (lifespan start-up), up
  conn,     \* NodeManager._connections
  deleted,  \* nodes whose row was deleted
  reg,      \* NodeManager._pending_intents / _intent_nodes, by proposal
  fut,      \* the future of a proposal's intent
  wire,     \* INTENT messages sent and not yet seen by the worker
  worker,   \* what the worker did with the intent
  replies,  \* INTENT_RESULT messages in flight
  sent,     \* history: how often an INTENT was written to a socket
  refused,  \* history: the proposals whose claim a locked database has refused
            \* since the last start of the master
  crashes

dbVars   == <<row, audit, deleted>>
netVars  == <<wire, worker, replies>>
procVars == <<mode, refused, crashes>>
vars     == <<row, audit, task, mode, conn, deleted, reg, fut, wire, worker,
              replies, sent, refused, crashes>>

Idle == [kind |-> "idle", pc |-> "idle", prop |-> "none", user |-> "none",
         res |-> "none", todo |-> {}]

Users    == Roles \cup {"none", "system"}
Results  == {"none", "ok", "fail", "error"}
TaskType == [kind : Kinds, pc : Steps, prop : Props \cup {"none"}, user : Users,
             res : Results, todo : SUBSET Props]
RowType  == [status : Statuses \cup {"NONE", "GONE"}, claimed : BOOLEAN,
             approvedBy : Users, origin : Origins,
             action : ActionClass \cup {"none"}]

(* Every variable has its declared shape.                                  *)
TypeOK ==
  /\ row \in [Props -> RowType]
  /\ audit \in [Props -> SUBSET AuditActions]
  /\ task \in [Tasks -> TaskType]
  /\ mode \in {"down", "boot", "up"}
  /\ conn \in SUBSET Nodes
  /\ deleted \in SUBSET Nodes
  /\ reg \in SUBSET Props
  /\ fut \in [Props -> {"none", "pending", "ok", "fail", "cancelled"}]
  /\ wire \in SUBSET Props
  /\ worker \in [Props -> {"no", "ok", "fail"}]
  /\ replies \in SUBSET Props
  /\ sent \in [Props -> Nat]
  /\ refused \in SUBSET Props
  /\ crashes \in Nat

Init ==
  /\ row = [p \in Props |-> [status |-> "NONE", claimed |-> FALSE,
                             approvedBy |-> "none", origin |-> "none",
                             action |-> "none"]]
  /\ audit = [p \in Props |-> {}]
  /\ task = [t \in Tasks |-> Idle]
  /\ mode = "down"
  /\ conn = {} /\ deleted = {}
  /\ reg = {} /\ fut = [p \in Props |-> "none"]
  /\ wire = {} /\ worker = [p \in Props |-> "no"] /\ replies = {}
  /\ sent = [p \in Props |-> 0]
  /\ refused = {} /\ crashes = 0

-----------------------------------------------------------------------------
(* Helpers *)

Exists(p)     == row[p].status \in Statuses
Goto(t, pc)   == task' = [task EXCEPT ![t].pc = pc]
Log(p, a)     == audit' = [audit EXCEPT ![p] = @ \cup {a}]

\* The result of a sent intent, or the exception in its place.
Got(t, res)   == task' = [task EXCEPT ![t] = [@ EXCEPT !.pc = "persist", !.res = res]]
\* A loop over rows read earlier takes the next one.
Take(t, p, pc) ==
  task' = [task EXCEPT ![t] = [kind |-> @.kind, pc |-> pc, prop |-> p, user |-> @.user,
                               res |-> "none", todo |-> @.todo \ {p}]]

\* A coroutine that ends: a request is over, a loop goes on with its next row.
Finished(t) ==
  IF task[t].kind \in {"reconcile", "expire"}
    THEN [task[t] EXCEPT !.pc = "loop", !.prop = "none", !.res = "none"]
    ELSE Idle
Finish(t)     == task' = [task EXCEPT ![t] = Finished(t)]

\* UPDATE action_proposals SET status = s WHERE id = p: no condition on the
\* status the row has now; nothing happens when the row was deleted.
SetStatus(p, s) ==
  row' = IF Exists(p) THEN [row EXCEPT ![p].status = s] ELSE row

\* The same for an approval, which also writes approved_by.
SetApproval(p, s, u) ==
  row' = IF Exists(p) THEN [row EXCEPT ![p] = [@ EXCEPT !.status = s, !.approvedBy = u]]
                      ELSE row

\* Start a task in an idle slot.
Start(t, kind, pc, p, u) ==
  /\ mode = "up"
  /\ task[t].pc = "idle"
  /\ task' = [task EXCEPT ![t] = [kind |-> kind, pc |-> pc, prop |-> p, user |-> u,
                               res |-> "none", todo |-> {}]]

\* INSERT INTO action_proposals; the foreign key refuses a deleted node.
Insert(p, status, u, origin, a) ==
  /\ row[p].status = "NONE"
  /\ NodeOf[p] \notin deleted
  /\ row' = [row EXCEPT ![p] = [status |-> status, claimed |-> FALSE,
                                approvedBy |-> u, origin |-> origin, action |-> a]]

-----------------------------------------------------------------------------
(* Creation: an AI tool, the chat stream or a plugin proposes an action.   *)

Propose(p, a) ==
  /\ mode = "up"
  /\ Insert(p, "PENDING", "none", "chat", a)
  /\ UNCHANGED <<audit, task, deleted, conn, reg, fut, netVars, sent, procVars>>

-----------------------------------------------------------------------------
(* POST /proposals/{id}/approve *)

\* The role and protected-service checks: refused with an incident entry.
RefusedProtectedOnly(p, u) == row[p].action = "protected"
Refused(p, u) ==
  \/ row[p].action = "destructive" /\ u # "admin"
  \/ row[p].action = "protected"

ApproveRefused(p, u) ==
  /\ mode = "up"
  /\ row[p].status = "PENDING"
  /\ Refused(p, u)
  /\ Log(p, "SECURITY_INCIDENT")
  /\ UNCHANGED <<row, task, deleted, conn, reg, fut, netVars, sent, procVars>>

ApproveLoad(t, p, u) ==
  /\ row[p].status = "PENDING"
  /\ ~Refused(p, u)
  /\ Start(t, "approve", "normalize", p, u)
  /\ UNCHANGED <<dbVars, conn, reg, fut, netVars, sent, procVars>>

\* _normalize_action_proposal cannot resolve the container: FAILED at once.
ApproveInvalid(t) ==
  /\ task[t].pc = "normalize"
  /\ LET p == task[t].prop IN
       /\ row[p].action = "restart_container"
       /\ SetApproval(p, "FAILED", task[t].user)
  /\ Goto(t, "audit_approved")
  /\ UNCHANGED <<audit, deleted, conn, reg, fut, netVars, sent, procVars>>

\* Its live container query is cancelled by a disconnect: the request dies.
ApproveAborted(t) ==
  /\ task[t].pc = "normalize"
  /\ row[task[t].prop].action = "restart_container"
  /\ Finish(t)
  /\ UNCHANGED <<dbVars, conn, reg, fut, netVars, sent, procVars>>

ApproveWrite(t) ==
  /\ task[t].pc = "normalize"
  /\ SetApproval(task[t].prop, "APPROVED", task[t].user)
  /\ Goto(t, "load")
  /\ UNCHANGED <<audit, deleted, conn, reg, fut, netVars, sent, procVars>>

ApproveAudit(t) ==
  /\ task[t].pc = "audit_approved"
  /\ Log(task[t].prop, "PROPOSAL_APPROVED")
  /\ Finish(t)
  /\ UNCHANGED <<row, deleted, conn, reg, fut, netVars, sent, procVars>>

-----------------------------------------------------------------------------
(* POST /proposals/{id}/reject, and the auto-expiry loop                   *)

RejectLoad(t, p, u) ==
  /\ row[p].status = "PENDING"
  /\ Start(t, "reject", "reject", p, u)
  /\ UNCHANGED <<dbVars, conn, reg, fut, netVars, sent, procVars>>

\* A status the CHECK constraint of the table does not know.
RejectWriteCanceled(t) ==
  /\ task[t].pc = "reject"
  /\ SetStatus(task[t].prop, "CANCELED")
  /\ Goto(t, "audit_rejected")
  /\ UNCHANGED <<audit, deleted, conn, reg, fut, netVars, sent, procVars>>

\* _do_cancel and the reject endpoint issue the same UPDATE.
RejectWrite(t) ==
  /\ task[t].pc = "reject"
  /\ SetStatus(task[t].prop, "REJECTED")
  /\ Goto(t, "audit_rejected")
  /\ UNCHANGED <<audit, deleted, conn, reg, fut, netVars, sent, procVars>>

RejectAudit(t) ==
  /\ task[t].pc = "audit_rejected"
  /\ Log(task[t].prop, "PROPOSAL_REJECTED")
  /\ Finish(t)
  /\ UNCHANGED <<row, deleted, conn, reg, fut, netVars, sent, procVars>>

\* auto_expire_proposals reads all PENDING rows once; one loop runs at a time.
ExpireLoad(t) ==
  /\ mode = "up"
  /\ \A u \in Tasks : task[u].kind # "expire"
  /\ task[t].pc = "idle"
  /\ task' = [task EXCEPT ![t] =
                [Idle EXCEPT !.kind = "expire", !.pc = "loop", !.user = "system",
                             !.todo = {p \in Props : row[p].status = "PENDING"}]]
  /\ UNCHANGED <<dbVars, conn, reg, fut, netVars, sent, procVars>>

\* The row read earlier is past its TTL, or its metric has recovered.
ExpireCancel(t, p) ==
  /\ task[t].pc = "loop" /\ task[t].kind = "expire"
  /\ p \in task[t].todo
  /\ Take(t, p, "reject")
  /\ UNCHANGED <<dbVars, conn, reg, fut, netVars, sent, procVars>>

\* Neither holds: the proposal is left alone.
ExpireSkip(t, p) ==
  /\ task[t].pc = "loop" /\ task[t].kind = "expire"
  /\ p \in task[t].todo
  /\ task' = [task EXCEPT ![t].todo = @ \ {p}]
  /\ UNCHANGED <<dbVars, conn, reg, fut, netVars, sent, procVars>>

ExpireDone(t) ==
  /\ task[t].pc = "loop" /\ task[t].kind = "expire"
  /\ task[t].todo = {}
  /\ task' = [task EXCEPT ![t] = Idle]
  /\ UNCHANGED <<dbVars, conn, reg, fut, netVars, sent, procVars>>

-----------------------------------------------------------------------------
(* The auto-approved paths *)

\* The role checks of the routes that act directly on a service or container.
DirectAllowed(a, u) == a = "destructive" => u = "admin"

\* dispatch_admin_action: inserted as APPROVED, then dispatched.  The "system"
\* user is the auto-updater.
AdminInsert(t, p, a, u) ==
  /\ DirectAllowed(a, u)
  /\ Insert(p, "APPROVED", u, "admin", a)
  /\ Start(t, "admin", "load", p, u)
  /\ UNCHANGED <<audit, deleted, conn, reg, fut, netVars, sent, procVars>>

\* _auto_profiling_intent: inserted as APPROVED, then sent by the query port
\* without a dispatch_id.
ProfileInsert(t, p) ==
  /\ Insert(p, "APPROVED", "system", "profile", "plain")
  /\ Start(t, "profile", "send", p, "system")
  /\ UNCHANGED <<audit, deleted, conn, reg, fut, netVars, sent, procVars>>

-----------------------------------------------------------------------------
(* ApprovedProposalDispatcher._dispatch_approved_impl *)

\* Steps 1 and 2: load the row; anything but APPROVED raises.
DispatchLoad(t) ==
  /\ task[t].pc = "load"
  /\ IF row[task[t].prop].status = "APPROVED" THEN Goto(t, "claim") ELSE Finish(t)
  /\ UNCHANGED <<dbVars, conn, reg, fut, netVars, sent, procVars>>

\* Step 3: UPDATE ... WHERE id = ? AND dispatch_id IS NULL AND status = 'APPROVED'.
ClaimUnguarded(p) == row[p].status = "APPROVED"
CanClaim(p) == row[p].status = "APPROVED" /\ ~row[p].claimed

DispatchClaim(t) ==
  /\ task[t].pc = "claim"
  /\ LET p == task[t].prop IN
       IF CanClaim(p)
         THEN /\ row' = [row EXCEPT ![p].claimed = TRUE]
              /\ Goto(t, "send")
         ELSE /\ Finish(t)
              /\ UNCHANGED row
  /\ UNCHANGED <<audit, deleted, conn, reg, fut, netVars, sent, procVars>>

-----------------------------------------------------------------------------
(* NodeManager._send_intent *)

\* Under the registry lock: no connection raises, else a future is registered.
SendRegister(t) ==
  /\ task[t].pc = "send"
  /\ LET p == task[t].prop IN
       IF NodeOf[p] \in conn
         THEN /\ reg' = reg \cup {p}
              /\ fut' = [fut EXCEPT ![p] = "pending"]
              /\ Goto(t, "sending")
         ELSE /\ Got(t, "error")
              /\ UNCHANGED <<reg, fut>>
  /\ UNCHANGED <<dbVars, conn, netVars, sent, procVars>>

\* Outside the lock: websocket.send_json succeeds ...
SendWire(t) ==
  /\ task[t].pc = "sending"
  /\ LET p == task[t].prop IN
       /\ wire' = wire \cup {p}
       /\ sent' = [sent EXCEPT ![p] = @ + 1]
  /\ Goto(t, "wait")
  /\ UNCHANGED <<dbVars, conn, reg, fut, worker, replies, procVars>>

\* ... or raises, before the try: the registry entry stays behind.  A
\* RuntimeError is caught by the caller, a disconnect error is not.
SendRaises(t) ==
  /\ task[t].pc = "sending"
  /\ \/ Got(t, "error")
     \/ Finish(t)
  /\ UNCHANGED <<dbVars, conn, reg, fut, netVars, sent, procVars>>

Deregister(p) == reg' = reg \ {p} /\ fut' = [fut EXCEPT ![p] = "none"]

WaitResult(t) ==
  /\ task[t].pc = "wait"
  /\ LET p == task[t].prop IN
       /\ fut[p] \in {"ok", "fail"}
       /\ Got(t, fut[p])
       /\ Deregister(p)
  /\ UNCHANGED <<dbVars, conn, netVars, sent, procVars>>

\* Without a timeout: only a disconnect would end the wait.
WaitNoTimeout(t) == FALSE

WaitTimeout(t) ==
  /\ task[t].pc = "wait"
  /\ fut[task[t].prop] = "pending"
  /\ Got(t, "error")
  /\ Deregister(task[t].prop)
  /\ UNCHANGED <<dbVars, conn, netVars, sent, procVars>>

\* unregister_connection cancelled the future: CancelledError passes every
\* "except Exception" of the dispatcher, nothing is persisted or audited.
WaitCancelled(t) ==
  /\ task[t].pc = "wait"
  /\ fut[task[t].prop] = "cancelled"
  /\ Deregister(task[t].prop)
  /\ Finish(t)
  /\ UNCHANGED <<dbVars, conn, netVars, sent, procVars>>

-----------------------------------------------------------------------------
(* Steps 5 and 6: persist the outcome, then audit it *)

\* Any answer of the worker counted as success.
OutcomeAnyAnswer(t) == IF task[t].res = "error" THEN "FAILED" ELSE "EXECUTED"

\* A profiling intent is completed only when the query raised.
Outcome(t) ==
  CASE task[t].kind = "profile" -> IF task[t].res = "error" THEN "FAILED" ELSE "APPROVED"
    [] OTHER                    -> IF task[t].res = "ok" THEN "EXECUTED" ELSE "FAILED"

Persist(t) ==
  /\ task[t].pc = "persist"
  /\ SetStatus(task[t].prop, Outcome(t))
  /\ Goto(t, "audit")
  /\ UNCHANGED <<audit, deleted, conn, reg, fut, netVars, sent, procVars>>

DispatchAudit(t) ==
  /\ task[t].pc = "audit"
  /\ Log(task[t].prop, IF task[t].kind = "profile" THEN "AUTOMATION_TRIGGERED"
                                                   ELSE "INTENT_DISPATCH")
  /\ IF task[t].kind = "approve" THEN Goto(t, "audit_approved") ELSE Finish(t)
  /\ UNCHANGED <<row, deleted, conn, reg, fut, netVars, sent, procVars>>

\* "database is locked", from a BEGIN IMMEDIATE, a plain write or log_action.
\* Only the start-up goes on with its next row; a request is over, and so is the
\* whole pass of the expiry loop.
DatabaseLocked(t) ==
  /\ task[t].pc \in {"normalize", "claim", "persist", "audit", "audit_approved",
                     "reject", "audit_rejected"}
  /\ task' = [task EXCEPT ![t] = IF @.kind = "reconcile" THEN Finished(t) ELSE Idle]
  /\ refused' = IF task[t].pc = "claim" THEN refused \cup {task[t].prop} ELSE refused
  /\ UNCHANGED <<dbVars, conn, reg, fut, netVars, sent, mode, crashes>>

-----------------------------------------------------------------------------
(* The worker's side of the socket *)

\* register_connection, the last step of a handshake that began with a look at
\* the node's row: the row may have been deleted since.
Connect(n) ==
  /\ mode = "up" /\ n \notin conn
  /\ conn' = conn \cup {n}
  /\ UNCHANGED <<dbVars, task, reg, fut, netVars, sent, procVars>>

\* Cancel the futures registered for the proposals of S.
Cancel(S) ==
  /\ reg' = reg \ S
  /\ fut' = [p \in Props |-> IF p \in S \cap reg /\ fut[p] = "pending"
                               THEN "cancelled" ELSE fut[p]]

\* unregister_connection: from the handler's finally, or the heartbeat monitor.
Disconnect(n) ==
  /\ mode = "up" /\ n \in conn \cup deleted
  /\ conn' = conn \ {n}
  /\ Cancel({p \in Props : NodeOf[p] = n})
  /\ UNCHANGED <<dbVars, task, netVars, sent, procVars>>

\* _cleanup_stale_intents: an entry older than the configured maximum age.  At
\* the default of 300 s a caller has long given up; the setting allows less.
CleanupStaleIntent(p) ==
  /\ mode = "up" /\ p \in reg
  /\ ShortMaxAge \/ \A t \in Tasks : task[t].prop # p \/ task[t].pc \notin {"sending", "wait"}
  /\ Cancel({p})
  /\ UNCHANGED <<dbVars, task, conn, netVars, sent, procVars>>

\* The worker runs the intent and answers; it may do so after the socket died.
WorkerExecute(p) ==
  /\ p \in wire
  /\ wire' = wire \ {p}
  /\ \E o \in {"ok", "fail"} : worker' = [worker EXCEPT ![p] = o]
  /\ replies' = replies \cup {p}
  /\ UNCHANGED <<dbVars, task, conn, reg, fut, sent, procVars>>

\* A closing socket loses what is in flight; the worker drops the result of a
\* panicking intent and of one from an earlier session.
LoseMessage(p) ==
  /\ p \in wire \cup replies
  /\ wire' = wire \ {p} /\ replies' = replies \ {p}
  /\ UNCHANGED <<dbVars, task, conn, reg, fut, worker, sent, procVars>>

\* INTENT_RESULT: an unknown intent_id is dropped, else resolve_intent.  The
\* handler reads its socket even when the registry no longer lists it.
IntentResult(p) ==
  /\ mode = "up"
  /\ p \in replies
  /\ replies' = replies \ {p}
  /\ IF p \in reg
       THEN /\ reg' = reg \ {p}
            /\ fut' = [fut EXCEPT ![p] = IF @ = "pending" THEN worker[p] ELSE @]
            /\ Log(p, "INTENT_RESULT")
       ELSE UNCHANGED <<reg, fut, audit>>
  /\ UNCHANGED <<row, deleted, task, conn, wire, worker, sent, procVars>>

\* delete_node: ON DELETE CASCADE removes the node's proposals.
DeleteNode(n) ==
  /\ mode = "up" /\ n \notin deleted
  /\ deleted' = deleted \cup {n}
  /\ row' = [p \in Props |-> IF NodeOf[p] = n /\ Exists(p)
                               THEN [row[p] EXCEPT !.status = "GONE"] ELSE row[p]]
  /\ UNCHANGED <<audit, task, conn, reg, fut, netVars, sent, procVars>>

\* Its second half, after the commit: the connection is popped and closed.  The
\* handler's finally then unregisters what is left (Disconnect).
DropDeleted(n) ==
  /\ mode = "up" /\ n \in deleted \cap conn
  /\ conn' = conn \ {n}
  /\ UNCHANGED <<dbVars, task, reg, fut, netVars, sent, procVars>>

-----------------------------------------------------------------------------
(* Crash and restart *)

\* Everything in memory is lost, and every socket with it.
Crash ==
  /\ mode # "down" /\ crashes < MaxCrashes
  /\ mode' = "down" /\ crashes' = crashes + 1
  /\ task' = [t \in Tasks |-> Idle]
  /\ conn' = {} /\ reg' = {} /\ fut' = [p \in Props |-> "none"]
  /\ UNCHANGED <<dbVars, netVars, sent, refused>>

\* A start-up that forgets the approved proposals.
BootNoReconcile(t) ==
  /\ mode = "down"
  /\ mode' = "boot"
  /\ task' = [task EXCEPT ![t] = [Idle EXCEPT !.kind = "reconcile", !.pc = "loop"]]
  /\ refused' = {}
  /\ UNCHANGED <<dbVars, conn, reg, fut, netVars, sent, crashes>>

\* lifespan start-up (b): the APPROVED rows without a dispatch_id.
Boot(t) ==
  /\ mode = "down"
  /\ mode' = "boot"
  /\ task' = [task EXCEPT ![t] =
                [Idle EXCEPT !.kind = "reconcile", !.pc = "loop", !.user = "system",
                             !.todo = {p \in Props : CanClaim(p)}]]
  /\ refused' = {}
  /\ UNCHANGED <<dbVars, conn, reg, fut, netVars, sent, crashes>>

\* Its own BEGIN IMMEDIATE finds the database locked: no row is looked at.
BootLocked(t) ==
  /\ mode = "down"
  /\ mode' = "boot"
  /\ task' = [task EXCEPT ![t] = [Idle EXCEPT !.kind = "reconcile", !.pc = "loop",
                                               !.user = "system"]]
  /\ refused' = {p \in Props : CanClaim(p)}
  /\ UNCHANGED <<dbVars, conn, reg, fut, netVars, sent, crashes>>

ReconcileNext(t, p) ==
  /\ task[t].pc = "loop" /\ task[t].kind = "reconcile"
  /\ p \in task[t].todo
  /\ Take(t, p, "load")
  /\ UNCHANGED <<dbVars, conn, reg, fut, netVars, sent, procVars>>

\* The server accepts requests and workers only once start-up is over.
ReconcileDone(t) ==
  /\ task[t].pc = "loop" /\ task[t].kind = "reconcile"
  /\ task[t].todo = {}
  /\ mode' = "up"
  /\ task' = [task EXCEPT ![t] = Idle]
  /\ UNCHANGED <<dbVars, conn, reg, fut, netVars, sent, refused, crashes>>

-----------------------------------------------------------------------------
(* A step of a task that is already running. *)
TaskStep(t) ==
  \/ ApproveInvalid(t) \/ ApproveAborted(t) \/ ApproveWrite(t) \/ ApproveAudit(t)
  \/ RejectWrite(t) \/ RejectAudit(t) \/ ExpireDone(t)
  \/ DispatchLoad(t) \/ DispatchClaim(t)
  \/ SendRegister(t) \/ SendWire(t) \/ SendRaises(t)
  \/ WaitResult(t) \/ WaitTimeout(t) \/ WaitCancelled(t)
  \/ Persist(t) \/ DispatchAudit(t) \/ DatabaseLocked(t) \/ ReconcileDone(t)
  \/ \E p \in Props : ExpireCancel(t, p) \/ ExpireSkip(t, p) \/ ReconcileNext(t, p)

(* A new request or background pass. *)
TaskStart(t) ==
  \/ ExpireLoad(t)
  \/ \E p \in Props :
       \/ ProfileInsert(t, p)
       \/ \E u \in Roles : ApproveLoad(t, p, u) \/ RejectLoad(t, p, u)
       \/ \E a \in ActionClass, u \in Roles \cup {"system"} : AdminInsert(t, p, a, u)

Environment ==
  \/ \E p \in Props :
       \/ \E a \in ActionClass : Propose(p, a)
       \/ CleanupStaleIntent(p) \/ WorkerExecute(p)
       \/ LoseMessage(p) \/ IntentResult(p)
       \/ \E u \in Roles : ApproveRefused(p, u)
  \/ \E n \in Nodes : Connect(n) \/ Disconnect(n) \/ DeleteNode(n) \/ DropDeleted(n)

Next ==
  \/ \E t \in Tasks : TaskStep(t) \/ TaskStart(t) \/ Boot(t) \/ BootLocked(t)
  \/ Environment
  \/ Crash

(***************************************************************************)
(* The event loop runs every ready task, SQLite's busy timeout and the     *)
(* intent timeout bound every await, and the service manager restarts the  *)
(* master: weak fairness on these, none on users, workers or crashes.      *)
(***************************************************************************)
Fairness == /\ \A t \in Tasks : WF_vars(TaskStep(t))
            /\ WF_vars(\E t \in Tasks : Boot(t) \/ BootLocked(t))

Spec == Init /\ [][Next]_vars /\ Fairness

-----------------------------------------------------------------------------
(* Properties *)

(***************************************************************************)
(* No interleaving of approvals, direct actions, profiling, crashes and    *)
(* start-up reconciliation writes the INTENT of a proposal twice: the      *)
(* dispatch_id claim of _dispatch_approved_impl, and for the unclaimed     *)
(* profiling intents the fact that reconciliation runs before any worker   *)
(* can connect.                                                            *)
(***************************************************************************)
AtMostOnce == \A p \in Props : sent[p] <= 1

(***************************************************************************)
(* EXECUTED in the table means the worker ran the intent and said so: no   *)
(* timeout, disconnect, late answer or restart is recorded as success.     *)
(***************************************************************************)
ExecutedIsReal ==
  \A p \in Props : row[p].status = "EXECUTED" => worker[p] = "ok" /\ sent[p] = 1

(***************************************************************************)
(* The proposal machinery implements the human gate of HitlGate.           *)
(***************************************************************************)
Gate == INSTANCE HitlGate WITH
  Approvers <- Users \ {"none"},
  Actions   <- ActionClass,
  Entitled  <- {e \in ActionClass \X (Users \ {"none"}) : e[1] = "destructive" => e[2] = "admin"},
  asked     <- [p \in Props |-> row[p].action],
  approver  <- [p \in Props |-> row[p].approvedBy],
  delivered <- sent

GateHolds == Gate!GateSpec

(***************************************************************************)
(* An approved proposal is claimed by a dispatcher or leaves APPROVED,     *)
(* even when the master crashes between the approval and the dispatch:     *)
(* start-up reconciliation picks it up, also one whose claim had found the *)
(* database locked.  Until that start, and if the start finds it locked    *)
(* again, such a proposal is left APPROVED: nothing tries another time.    *)
(* Profiling rows are not dispatched while the master runs.                *)
(***************************************************************************)
ApprovedIsDispatched ==
  \A p \in Props :
    (CanClaim(p) /\ row[p].origin # "profile") ~> (~CanClaim(p) \/ p \in refused)

(***************************************************************************)
(* Every request and background pass comes to an end: no task waits for    *)
(* ever on a future that a dead socket will never resolve.                 *)
(***************************************************************************)
EveryTaskEnds == \A t \in Tasks : (task[t].pc # "idle") ~> (task[t].pc = "idle")

(***************************************************************************)
(* "PENDING -> APPROVED -> EXECUTED | FAILED, PENDING -> REJECTED": a      *)
(* proposal that was rejected, executed or has failed stays so.            *)
(***************************************************************************)
Decided == {"REJECTED", "EXECUTED", "FAILED"}
DecidedIsFinal ==
  [][\A p \in Props : row[p].status \in Decided
        => row'[p].status \in {row[p].status, "GONE"}]_vars
=============================================================================
