--------------------------- MODULE ProposalsProofs ---------------------------
(***************************************************************************)
(* Proofs about Proposals, for every set of proposals, nodes and tasks and *)
(* every number of crashes: the type invariant and at-most-once sending,   *)
(* and, on top of their invariant, that the machinery implements the human *)
(* gate of HitlGate and records EXECUTED only of what the worker did.      *)
(***************************************************************************)
EXTENDS Proposals, TLAPS

Working == Steps \ {"idle", "loop"}     \* steps at which a task holds a proposal
PreSend == {"send", "sending"}          \* claimed, INTENT not written yet
ProfileSteps == {"send", "sending", "wait", "persist", "audit"}

(* A task that holds a proposal holds one that was inserted; which path    *)
(* inserted it says which kinds of task can hold it.                       *)
TaskOK(t) ==
    /\ task[t].pc = "idle" <=> task[t].kind = "idle"
    /\ task[t].pc \in Working =>
         /\ task[t].prop \in Props
         /\ row[task[t].prop].status # "NONE"
         /\ task[t].kind \in {"approve", "reject", "expire"} => row[task[t].prop].origin = "chat"
         /\ task[t].kind = "admin" => row[task[t].prop].origin = "admin"
         /\ task[t].kind = "profile" => row[task[t].prop].origin = "profile"
    /\ task[t].kind = "expire" => \A p \in task[t].todo : row[p].origin = "chat" /\ row[p].status # "NONE"
    /\ task[t].kind = "reconcile" => \A p \in task[t].todo : row[p].status # "NONE"
    /\ task[t].pc = "sending" => task[t].kind # "reconcile"
    /\ task[t].kind = "profile" => task[t].pc \in ProfileSteps

TaskInv == \A t \in Tasks : TaskOK(t)

(* Start-up runs alone, and before any worker is connected.                *)
BootInv ==
  /\ mode = "down" => \A t \in Tasks : task[t].kind = "idle"
  /\ mode # "up" => conn = {}
  /\ mode = "up" => \A t \in Tasks : task[t].kind # "reconcile"
  /\ mode = "boot" => \A t, u \in Tasks :
        task[t].kind # "idle" /\ task[u].kind # "idle" => t = u

(* The row of a proposal that was never inserted is blank.                 *)
RowOK(p) ==
    /\ row[p].status = "NONE" => /\ sent[p] = 0
                                 /\ ~row[p].claimed
                                 /\ row[p].action = "none"
    /\ row[p].status = "PENDING" => row[p].origin = "chat"
    /\ sent[p] > 0 => row[p].claimed \/ row[p].origin = "profile"
    /\ sent[p] <= 1

RowInv == \A p \in Props : RowOK(p)

(* One task at most stands between the claim of a proposal and its INTENT, *)
(* and while it does nothing has been sent.                                *)
ClaimInv ==
  /\ \A t \in Tasks : task[t].pc \in PreSend =>
       /\ task[t].kind # "profile" => row[task[t].prop].claimed
       /\ task[t].kind # "reconcile" => sent[task[t].prop] = 0
  /\ \A t, u \in Tasks :
       task[t].pc \in PreSend /\ task[u].pc \in PreSend /\ task[t].prop = task[u].prop => t = u

(* A reply in flight follows an execution. *)
ReplyInv == \A p \in replies : worker[p] # "no"

Inv == TypeOK /\ TaskInv /\ BootInv /\ RowInv /\ ClaimInv /\ ReplyInv

-----------------------------------------------------------------------------
(* What the task helpers do to the task table. *)

(* Every other task, and the identity of this one, stay.                   *)
Others(t) == \A u \in Tasks \ {t} : task'[u] = task[u]
Same(t)   == task'[t].kind = task[t].kind /\ task'[t].prop = task[t].prop
               /\ task'[t].user = task[t].user /\ task'[t].todo = task[t].todo

(* Moving to another step changes the step only, and keeps the types.      *)
LEMMA GotoEffect ==
  ASSUME TypeOK, NEW t \in Tasks, NEW pc \in Steps, Goto(t, pc)
  PROVE  task' \in [Tasks -> TaskType] /\ Others(t) /\ Same(t) /\ task'[t].pc = pc
  BY DEF TypeOK, TaskType, Goto, Others, Same

(* Receiving a result moves the task to persist and records the result.    *)
LEMMA GotEffect ==
  ASSUME TypeOK, NEW t \in Tasks, NEW res \in Results, Got(t, res)
  PROVE  /\ task' \in [Tasks -> TaskType] /\ Others(t) /\ Same(t)
         /\ task'[t].pc = "persist" /\ task'[t].res = res
<1>1. \A r \in TaskType :
        LET q == [r EXCEPT !.pc = "persist", !.res = res]
        IN  /\ q \in TaskType /\ q.pc = "persist" /\ q.res = res
            /\ q.kind = r.kind /\ q.prop = r.prop /\ q.user = r.user /\ q.todo = r.todo
  BY DEF TaskType, Steps
<1> QED
  BY <1>1 DEF TypeOK, Got, Others, Same

(* Taking the next row of a loop.                                          *)
LEMMA TakeEffect ==
  ASSUME TypeOK, NEW t \in Tasks, NEW p \in Props, NEW pc \in Steps, Take(t, p, pc)
  PROVE  /\ task' \in [Tasks -> TaskType] /\ Others(t)
         /\ task'[t].kind = task[t].kind /\ task'[t].user = task[t].user
         /\ task'[t].pc = pc /\ task'[t].prop = p /\ task'[t].todo = task[t].todo \ {p}
<1>1. [kind |-> task[t].kind, pc |-> pc, prop |-> p, user |-> task[t].user,
       res |-> "none", todo |-> task[t].todo \ {p}] \in TaskType
  BY DEF TypeOK, TaskType, Results
<1> QED
  BY <1>1 DEF TypeOK, Take, Others

(* The idle task has the type of a task.                                   *)
LEMMA IdleType == Idle \in TaskType
  BY DEF Idle, TaskType, Kinds, Steps, Users, Results

(* Ending a coroutine leaves a request idle and a loop at its head.        *)
LEMMA FinishEffect ==
  ASSUME TypeOK, NEW t \in Tasks, Finish(t)
  PROVE  /\ task' \in [Tasks -> TaskType] /\ Others(t)
         /\ \/ task'[t].kind = "idle" /\ task'[t].pc = "idle"
            \/ /\ task'[t].kind = task[t].kind /\ task[t].kind # "idle"
               /\ task'[t].pc = "loop" /\ task'[t].todo = task[t].todo
<1>1. \A r \in TaskType :
        LET q == [r EXCEPT !.pc = "loop", !.prop = "none", !.res = "none"]
        IN  q \in TaskType /\ q.pc = "loop" /\ q.kind = r.kind /\ q.todo = r.todo
  BY DEF TaskType, Steps, Results
<1>2. task[t] \in TaskType
  BY DEF TypeOK
<1>3. CASE task[t].kind \in {"reconcile", "expire"}
  <2> DEFINE q == [task[t] EXCEPT !.pc = "loop", !.prop = "none", !.res = "none"]
  <2>1. task' = [task EXCEPT ![t] = q]
    BY <1>3 DEF Finish, Finished
  <2>2. q \in TaskType /\ q.pc = "loop" /\ q.kind = task[t].kind /\ q.todo = task[t].todo
    BY <1>1, <1>2
  <2> HIDE DEF q
  <2> QED
    BY <1>3, <2>1, <2>2 DEF TypeOK, Others
<1>4. CASE task[t].kind \notin {"reconcile", "expire"}
  BY <1>4, IdleType DEF Finish, Finished, TypeOK, Others, Idle
<1> QED
  BY <1>3, <1>4

(* Replacing one task.                                                     *)
LEMMA ReplaceEffect ==
  ASSUME TypeOK, NEW t \in Tasks, NEW r \in TaskType, task' = [task EXCEPT ![t] = r]
  PROVE  task' \in [Tasks -> TaskType] /\ task'[t] = r /\ Others(t)
  BY DEF TypeOK, Others

(* A locked database leaves the task record well-typed.                    *)
LEMMA LockedEffect ==
  ASSUME TypeOK, NEW t \in Tasks, DatabaseLocked(t)
  PROVE  task' \in [Tasks -> TaskType]
<1>1. CASE task[t].kind = "reconcile"
  <2>1. Finish(t)
    BY <1>1 DEF DatabaseLocked, Finish
  <2> QED
    BY <2>1, FinishEffect
<1>2. CASE task[t].kind # "reconcile"
  BY <1>2, IdleType, ReplaceEffect DEF DatabaseLocked
<1> QED
  BY <1>1, <1>2

(* Starting a task fills an idle slot.                                     *)
LEMMA StartEffect ==
  ASSUME TypeOK, NEW t \in Tasks, NEW k \in Kinds, NEW pc \in Steps, NEW p \in Props,
         NEW u \in Users, Start(t, k, pc, p, u)
  PROVE  /\ task' \in [Tasks -> TaskType]
         /\ task[t].pc = "idle"
         /\ task'[t].kind = k /\ task'[t].pc = pc /\ task'[t].prop = p
         /\ task'[t].user = u /\ task'[t].todo = {}
         /\ Others(t)
         /\ mode = "up"
<1>1. [kind |-> k, pc |-> pc, prop |-> p, user |-> u, res |-> "none", todo |-> {}] \in TaskType
  BY DEF TaskType, Results
<1> QED
  BY <1>1 DEF TypeOK, Start, Others

-----------------------------------------------------------------------------
(* What the SQL statements do to the table. *)

(* Every other row, and the fixed columns of this one, stay.               *)
OtherRows(p) == \A q \in Props \ {p} : row'[q] = row[q]
SameRow(p)   == row'[p].origin = row[p].origin /\ row'[p].action = row[p].action

(* Setting the status of a row changes nothing else.                       *)
LEMMA SetStatusEffect ==
  ASSUME TypeOK, NEW p \in Props, NEW s \in Statuses, SetStatus(p, s)
  PROVE  /\ row' \in [Props -> RowType] /\ OtherRows(p) /\ SameRow(p)
         /\ row'[p].claimed = row[p].claimed /\ row'[p].approvedBy = row[p].approvedBy
         /\ IF Exists(p) THEN row'[p].status = s ELSE row'[p] = row[p]
  BY DEF TypeOK, RowType, SetStatus, Exists, OtherRows, SameRow

(* Writing an approval changes the status and the approver.                *)
LEMMA SetApprovalEffect ==
  ASSUME TypeOK, NEW p \in Props, NEW s \in Statuses, NEW u \in Users, SetApproval(p, s, u)
  PROVE  /\ row' \in [Props -> RowType] /\ OtherRows(p) /\ SameRow(p)
         /\ row'[p].claimed = row[p].claimed
         /\ IF Exists(p) THEN row'[p].status = s /\ row'[p].approvedBy = u ELSE row'[p] = row[p]
<1>1. \A r \in RowType :
        LET q == [r EXCEPT !.status = s, !.approvedBy = u]
        IN  /\ q \in RowType /\ q.status = s /\ q.approvedBy = u
            /\ q.claimed = r.claimed /\ q.origin = r.origin /\ q.action = r.action
  BY DEF RowType
<1> QED
  BY <1>1 DEF TypeOK, SetApproval, Exists, OtherRows, SameRow

(* Inserting a row.                                                        *)
LEMMA InsertEffect ==
  ASSUME TypeOK, NEW p \in Props, NEW s \in Statuses, NEW u \in Users, NEW o \in Origins,
         NEW a \in ActionClass, Insert(p, s, u, o, a)
  PROVE  /\ row' \in [Props -> RowType]
         /\ row[p].status = "NONE"
         /\ OtherRows(p)
         /\ row'[p].status = s /\ ~row'[p].claimed /\ row'[p].approvedBy = u
         /\ row'[p].origin = o /\ row'[p].action = a
<1> DEFINE r == [status |-> s, claimed |-> FALSE, approvedBy |-> u, origin |-> o, action |-> a]
<1>1. r \in RowType /\ r.status = s /\ ~r.claimed /\ r.approvedBy = u /\ r.origin = o /\ r.action = a
  BY DEF RowType
<1>2. row' = [row EXCEPT ![p] = r] /\ row[p].status = "NONE"
  BY DEF Insert
<1> HIDE DEF r
<1> QED
  BY <1>1, <1>2 DEF TypeOK, OtherRows

(* Claiming a row sets dispatch_id and nothing else.                       *)
LEMMA ClaimEffect ==
  ASSUME TypeOK, NEW p \in Props, row' = [row EXCEPT ![p].claimed = TRUE]
  PROVE  /\ row' \in [Props -> RowType] /\ OtherRows(p) /\ SameRow(p)
         /\ row'[p].claimed /\ row'[p].approvedBy = row[p].approvedBy
         /\ row'[p].status = row[p].status
<1>1. \A r \in RowType :
        LET q == [r EXCEPT !.claimed = TRUE]
        IN  /\ q \in RowType /\ q.claimed /\ q.status = r.status
            /\ q.approvedBy = r.approvedBy /\ q.origin = r.origin /\ q.action = r.action
  BY DEF RowType
<1> QED
  BY <1>1 DEF TypeOK, OtherRows, SameRow

(* Adding an audit entry keeps the audit table typed.                      *)
LEMMA LogEffect ==
  ASSUME TypeOK, NEW p \in Props, NEW a \in AuditActions, Log(p, a)
  PROVE  audit' \in [Props -> SUBSET AuditActions]
  BY DEF TypeOK, Log

-----------------------------------------------------------------------------

(* A task that holds a proposal holds a real one. *)
HoldsProp == \A t \in Tasks : task[t].pc \in Working => task[t].prop \in Props

(* Every step keeps the types, one action at a time.                       *)
LEMMA TypeNext ==
  ASSUME TypeOK, HoldsProp, ReplyInv, [Next]_vars
  PROVE  TypeOK'
<1> USE DEF dbVars, netVars, procVars
<1>0. \A t \in Tasks : task[t].pc \in Working
                        => task[t].prop \in Props
  BY DEF HoldsProp
<1>1. ASSUME NEW t \in Tasks, ApproveInvalid(t) PROVE TypeOK'
  <2>1. task[t].prop \in Props
    BY <1>1, <1>0 DEF ApproveInvalid, Working, Steps
  <2>2. task' \in [Tasks -> TaskType]
    BY <1>1, GotoEffect DEF ApproveInvalid, Steps
  <2>3. task[t].user \in Users
    BY DEF TypeOK, TaskType
  <2>4. row' \in [Props -> RowType]
    BY <1>1, <2>1, <2>3, SetApprovalEffect DEF ApproveInvalid, Statuses
  <2> QED
    BY <1>1, <2>2, <2>4 DEF ApproveInvalid, TypeOK
<1>2. ASSUME NEW t \in Tasks, ApproveAborted(t) PROVE TypeOK'
  <2>1. task' \in [Tasks -> TaskType]
    BY <1>2, FinishEffect DEF ApproveAborted, Steps
  <2> QED
    BY <1>2, <2>1 DEF ApproveAborted, TypeOK
<1>3. ASSUME NEW t \in Tasks, ApproveWrite(t) PROVE TypeOK'
  <2>1. task[t].prop \in Props
    BY <1>3, <1>0 DEF ApproveWrite, Working, Steps
  <2>2. task' \in [Tasks -> TaskType]
    BY <1>3, GotoEffect DEF ApproveWrite, Steps
  <2>3. task[t].user \in Users
    BY DEF TypeOK, TaskType
  <2>4. row' \in [Props -> RowType]
    BY <1>3, <2>1, <2>3, SetApprovalEffect DEF ApproveWrite, Statuses
  <2> QED
    BY <1>3, <2>2, <2>4 DEF ApproveWrite, TypeOK
<1>4. ASSUME NEW t \in Tasks, ApproveAudit(t) PROVE TypeOK'
  <2>1. task[t].prop \in Props
    BY <1>4, <1>0 DEF ApproveAudit, Working, Steps
  <2>2. task' \in [Tasks -> TaskType]
    BY <1>4, FinishEffect DEF ApproveAudit, Steps
  <2>3. audit' \in [Props -> SUBSET AuditActions]
    BY <1>4, <2>1, LogEffect DEF ApproveAudit, AuditActions
  <2> QED
    BY <1>4, <2>1, <2>2, <2>3 DEF ApproveAudit, TypeOK
<1>5. ASSUME NEW t \in Tasks, RejectWrite(t) PROVE TypeOK'
  <2>1. task[t].prop \in Props
    BY <1>5, <1>0 DEF RejectWrite, Working, Steps
  <2>2. task' \in [Tasks -> TaskType]
    BY <1>5, GotoEffect DEF RejectWrite, Steps
  <2>3. row' \in [Props -> RowType]
    BY <1>5, <2>1, SetStatusEffect DEF RejectWrite, Statuses
  <2> QED
    BY <1>5, <2>1, <2>2, <2>3 DEF RejectWrite, TypeOK
<1>6. ASSUME NEW t \in Tasks, RejectAudit(t) PROVE TypeOK'
  <2>1. task[t].prop \in Props
    BY <1>6, <1>0 DEF RejectAudit, Working, Steps
  <2>2. task' \in [Tasks -> TaskType]
    BY <1>6, FinishEffect DEF RejectAudit, Steps
  <2>3. audit' \in [Props -> SUBSET AuditActions]
    BY <1>6, <2>1, LogEffect DEF RejectAudit, AuditActions
  <2> QED
    BY <1>6, <2>1, <2>2, <2>3 DEF RejectAudit, TypeOK
<1>7. ASSUME NEW t \in Tasks, ExpireDone(t) PROVE TypeOK'
  <2>1. task' \in [Tasks -> TaskType]
    BY <1>7, IdleType, ReplaceEffect DEF ExpireDone, Steps
  <2> QED
    BY <1>7, <2>1 DEF ExpireDone, TypeOK
<1>8. ASSUME NEW t \in Tasks, DispatchLoad(t) PROVE TypeOK'
  <2>1. task' \in [Tasks -> TaskType]
    BY <1>8, GotoEffect, FinishEffect DEF DispatchLoad, Steps
  <2> QED
    BY <1>8, <2>1 DEF DispatchLoad, TypeOK
<1>9. ASSUME NEW t \in Tasks, DispatchClaim(t) PROVE TypeOK'
  <2>1. task[t].prop \in Props
    BY <1>9, <1>0 DEF DispatchClaim, Working, Steps
  <2>2. task' \in [Tasks -> TaskType]
    BY <1>9, GotoEffect, FinishEffect DEF DispatchClaim, Steps
  <2>3. row' \in [Props -> RowType]
    BY <1>9, <2>1, ClaimEffect DEF DispatchClaim, TypeOK
  <2> QED
    BY <1>9, <2>2, <2>3 DEF DispatchClaim, TypeOK
<1>10. ASSUME NEW t \in Tasks, SendRegister(t) PROVE TypeOK'
  <2>1. task[t].prop \in Props
    BY <1>10, <1>0 DEF SendRegister, Working, Steps
  <2>2. task' \in [Tasks -> TaskType]
    BY <1>10, GotoEffect, GotEffect DEF SendRegister, Steps, Results
  <2> QED
    BY <1>10, <2>1, <2>2 DEF SendRegister, TypeOK
<1>11. ASSUME NEW t \in Tasks, SendWire(t) PROVE TypeOK'
  <2>1. task[t].prop \in Props
    BY <1>11, <1>0 DEF SendWire, Working, Steps
  <2>2. task' \in [Tasks -> TaskType]
    BY <1>11, GotoEffect DEF SendWire, Steps
  <2>3. sent' \in [Props -> Nat]
    BY <1>11, <2>1 DEF SendWire, TypeOK
  <2> QED
    BY <1>11, <2>1, <2>2, <2>3 DEF SendWire, TypeOK
<1>12. ASSUME NEW t \in Tasks, SendRaises(t) PROVE TypeOK'
  <2>1. task' \in [Tasks -> TaskType]
    BY <1>12, GotEffect, FinishEffect DEF SendRaises, Steps, Results
  <2> QED
    BY <1>12, <2>1 DEF SendRaises, TypeOK
<1>13. ASSUME NEW t \in Tasks, WaitResult(t) PROVE TypeOK'
  <2>1. task[t].prop \in Props
    BY <1>13, <1>0 DEF WaitResult, Working, Steps
  <2>2. task' \in [Tasks -> TaskType]
    BY <1>13, GotEffect DEF WaitResult, Steps, Results
  <2> QED
    BY <1>13, <2>1, <2>2 DEF WaitResult, Deregister, TypeOK
<1>14. ASSUME NEW t \in Tasks, WaitTimeout(t) PROVE TypeOK'
  <2>1. task[t].prop \in Props
    BY <1>14, <1>0 DEF WaitTimeout, Working, Steps
  <2>2. task' \in [Tasks -> TaskType]
    BY <1>14, GotEffect DEF WaitTimeout, Steps, Results
  <2> QED
    BY <1>14, <2>1, <2>2 DEF WaitTimeout, Deregister, TypeOK
<1>15. ASSUME NEW t \in Tasks, WaitCancelled(t) PROVE TypeOK'
  <2>1. task[t].prop \in Props
    BY <1>15, <1>0 DEF WaitCancelled, Working, Steps
  <2>2. task' \in [Tasks -> TaskType]
    BY <1>15, FinishEffect DEF WaitCancelled, Steps
  <2> QED
    BY <1>15, <2>1, <2>2 DEF WaitCancelled, Deregister, TypeOK
<1>16. ASSUME NEW t \in Tasks, Persist(t) PROVE TypeOK'
  <2>1. task[t].prop \in Props
    BY <1>16, <1>0 DEF Persist, Working, Steps
  <2>2. task' \in [Tasks -> TaskType]
    BY <1>16, GotoEffect DEF Persist, Steps, Outcome
  <2>3. row' \in [Props -> RowType]
    BY <1>16, <2>1, SetStatusEffect DEF Persist, Statuses, Outcome
  <2> QED
    BY <1>16, <2>1, <2>2, <2>3 DEF Persist, TypeOK
<1>17. ASSUME NEW t \in Tasks, DispatchAudit(t) PROVE TypeOK'
  <2>1. task[t].prop \in Props
    BY <1>17, <1>0 DEF DispatchAudit, Working, Steps
  <2>2. task' \in [Tasks -> TaskType]
    BY <1>17, GotoEffect, FinishEffect DEF DispatchAudit, Steps
  <2>3. audit' \in [Props -> SUBSET AuditActions]
    BY <1>17, <2>1, LogEffect DEF DispatchAudit, AuditActions
  <2> QED
    BY <1>17, <2>1, <2>2, <2>3 DEF DispatchAudit, TypeOK
<1>18. ASSUME NEW t \in Tasks, ReconcileDone(t) PROVE TypeOK'
  <2>1. task' \in [Tasks -> TaskType]
    BY <1>18, IdleType, ReplaceEffect DEF ReconcileDone, Steps
  <2> QED
    BY <1>18, <2>1 DEF ReconcileDone, TypeOK
<1>19. ASSUME NEW t \in Tasks, NEW p \in Props, ExpireCancel(t, p) PROVE TypeOK'
  BY <1>19, TakeEffect DEF ExpireCancel, Steps, TypeOK
<1>20. ASSUME NEW t \in Tasks, NEW p \in Props, ExpireSkip(t, p) PROVE TypeOK'
  <2>1. task' \in [Tasks -> TaskType]
    BY <1>20 DEF ExpireSkip, TypeOK, TaskType
  <2> QED
    BY <1>20, <2>1 DEF ExpireSkip, TypeOK
<1>21. ASSUME NEW t \in Tasks, NEW p \in Props, ReconcileNext(t, p) PROVE TypeOK'
  BY <1>21, TakeEffect DEF ReconcileNext, Steps, TypeOK
<1>22. ASSUME NEW t \in Tasks, ExpireLoad(t) PROVE TypeOK'
  <2>1. [Idle EXCEPT !.kind = "expire", !.pc = "loop", !.user = "system",
             !.todo = {p \in Props : row[p].status = "PENDING"}] \in TaskType
    BY DEF Idle, TaskType, Kinds, Steps, Users, Results
  <2>2. task' \in [Tasks -> TaskType]
    BY <1>22, <2>1, ReplaceEffect DEF ExpireLoad
  <2> QED
    BY <1>22, <2>2 DEF ExpireLoad, TypeOK
<1>23. ASSUME NEW t \in Tasks, NEW p \in Props, ProfileInsert(t, p) PROVE TypeOK'
  <2>1. task' \in [Tasks -> TaskType]
    BY <1>23, StartEffect DEF ProfileInsert, Kinds, Steps, Users, Roles
  <2>2. row' \in [Props -> RowType]
    BY <1>23, InsertEffect DEF ProfileInsert, Statuses, Users, Roles, Origins, ActionClass
  <2> QED
    BY <1>23, <2>1, <2>2 DEF ProfileInsert, TypeOK
<1>24. ASSUME NEW t \in Tasks, NEW p \in Props, NEW u \in Roles, ApproveLoad(t, p, u) PROVE TypeOK'
  <2>1. task' \in [Tasks -> TaskType]
    BY <1>24, StartEffect DEF ApproveLoad, Kinds, Steps, Users, Roles
  <2> QED
    BY <1>24, <2>1 DEF ApproveLoad, TypeOK
<1>25. ASSUME NEW t \in Tasks, NEW p \in Props, NEW u \in Roles, RejectLoad(t, p, u) PROVE TypeOK'
  <2>1. task' \in [Tasks -> TaskType]
    BY <1>25, StartEffect DEF RejectLoad, Kinds, Steps, Users, Roles
  <2> QED
    BY <1>25, <2>1 DEF RejectLoad, TypeOK
<1>26. ASSUME NEW t \in Tasks, NEW p \in Props,
             NEW a \in ActionClass, NEW u \in Roles \cup {"system"}, AdminInsert(t, p, a, u) PROVE TypeOK'
  <2>1. task' \in [Tasks -> TaskType]
    BY <1>26, StartEffect DEF AdminInsert, Kinds, Steps, Users, Roles
  <2>2. row' \in [Props -> RowType]
    BY <1>26, InsertEffect DEF AdminInsert, Statuses, Users, Roles, Origins, ActionClass
  <2> QED
    BY <1>26, <2>1, <2>2 DEF AdminInsert, TypeOK
<1>27. ASSUME NEW p \in Props, NEW a \in ActionClass, Propose(p, a) PROVE TypeOK'
  <2>1. row' \in [Props -> RowType]
    BY <1>27, InsertEffect DEF Propose, Statuses, Users, Origins
  <2> QED
    BY <1>27, <2>1 DEF Propose, TypeOK
<1>28. ASSUME NEW p \in Props, NEW u \in Roles, ApproveRefused(p, u) PROVE TypeOK'
  <2>1. audit' \in [Props -> SUBSET AuditActions]
    BY <1>28, LogEffect DEF ApproveRefused, AuditActions
  <2> QED
    BY <1>28, <2>1 DEF ApproveRefused, TypeOK
<1>29. ASSUME NEW p \in Props, CleanupStaleIntent(p) PROVE TypeOK'
  BY <1>29 DEF CleanupStaleIntent, Cancel, TypeOK
<1>30. ASSUME NEW p \in Props, WorkerExecute(p) PROVE TypeOK'
  BY <1>30 DEF WorkerExecute, TypeOK
<1>31. ASSUME NEW p \in Props, LoseMessage(p) PROVE TypeOK'
  BY <1>31 DEF LoseMessage, TypeOK
<1>32. ASSUME NEW p \in Props, IntentResult(p) PROVE TypeOK'
  <2>1. audit' \in [Props -> SUBSET AuditActions]
    BY <1>32, LogEffect DEF IntentResult, AuditActions, TypeOK
  <2>2. worker[p] \in {"ok", "fail"}
    BY <1>32 DEF IntentResult, TypeOK, ReplyInv
  <2> QED
    BY <1>32, <2>1, <2>2 DEF IntentResult, TypeOK
<1>33. ASSUME NEW n \in Nodes, Connect(n) PROVE TypeOK'
  BY <1>33 DEF Connect, TypeOK
<1>34. ASSUME NEW n \in Nodes, Disconnect(n) PROVE TypeOK'
  BY <1>34 DEF Disconnect, Cancel, TypeOK
<1>35. ASSUME NEW n \in Nodes, DeleteNode(n) PROVE TypeOK'
  <2>1. \A r \in RowType : [r EXCEPT !.status = "GONE"] \in RowType
    BY DEF RowType
  <2>2. row' \in [Props -> RowType]
    BY <1>35, <2>1 DEF DeleteNode, TypeOK
  <2> QED
    BY <1>35, <2>2 DEF DeleteNode, TypeOK
<1>36. ASSUME Crash PROVE TypeOK'
  BY <1>36, IdleType DEF Crash, TypeOK
<1>37. ASSUME NEW t \in Tasks, Boot(t) PROVE TypeOK'
  <2>1. [Idle EXCEPT !.kind = "reconcile", !.pc = "loop", !.user = "system",
             !.todo = {p \in Props : CanClaim(p)}] \in TaskType
    BY DEF Idle, TaskType, Kinds, Steps, Users, Results
  <2>2. task' \in [Tasks -> TaskType]
    BY <1>37, <2>1, ReplaceEffect DEF Boot
  <2> QED
    BY <1>37, <2>2 DEF Boot, TypeOK
<1>38. ASSUME UNCHANGED vars PROVE TypeOK'
  BY <1>38 DEF vars, TypeOK
<1>39. ASSUME NEW n \in Nodes, DropDeleted(n) PROVE TypeOK'
  BY <1>39 DEF DropDeleted, TypeOK
<1>40. ASSUME NEW t \in Tasks, DatabaseLocked(t) PROVE TypeOK'
  <2>1. task[t].prop \in Props
    BY <1>40, <1>0 DEF DatabaseLocked, Working, Steps
  <2>2. task' \in [Tasks -> TaskType]
    BY <1>40, LockedEffect
  <2>3. refused' \subseteq Props
    BY <1>40, <2>1 DEF DatabaseLocked, TypeOK
  <2> QED
    BY <1>40, <2>2, <2>3 DEF DatabaseLocked, TypeOK
<1>41. ASSUME NEW t \in Tasks, BootLocked(t) PROVE TypeOK'
  <2>1. [Idle EXCEPT !.kind = "reconcile", !.pc = "loop", !.user = "system"] \in TaskType
    BY DEF Idle, TaskType, Kinds, Steps, Users, Results
  <2>2. task' \in [Tasks -> TaskType]
    BY <1>41, <2>1, ReplaceEffect DEF BootLocked
  <2> QED
    BY <1>41, <2>2 DEF BootLocked, TypeOK
<1> QED
  BY <1>40, <1>41, <1>1, <1>2, <1>3, <1>4, <1>5, <1>6, <1>7, <1>8, <1>9, <1>10, <1>11, <1>12, <1>13, <1>14, <1>15, <1>16, <1>17, <1>18, <1>19, <1>20, <1>21, <1>22, <1>23, <1>24, <1>25, <1>26, <1>27, <1>28, <1>29, <1>30, <1>31, <1>32, <1>33, <1>34, <1>35, <1>36, <1>37, <1>38, <1>39
  DEF Next, TaskStep, TaskStart, Environment

-----------------------------------------------------------------------------
(* Steps that do not touch the claim. *)

(* The rows keep everything but their status, and nothing becomes PENDING. *)
RowsKept ==
  \A q \in Props :
    /\ row'[q].origin = row[q].origin
    /\ row'[q].claimed = row[q].claimed
    /\ row'[q].action = row[q].action
    /\ row'[q].status = "NONE" <=> row[q].status = "NONE"
    /\ row'[q].status = "PENDING" => row[q].status = "PENDING"

(* Only task t moves: it ends, or goes on outside PreSend with the         *)
(* proposal it has or with the next one of its loop.                       *)
Quiet(t) ==
  /\ \A u \in Tasks \ {t} : task'[u] = task[u]
  /\ \/ task'[t].kind = "idle" /\ task'[t].pc = "idle"
     \/ /\ task'[t].kind = task[t].kind /\ task'[t].kind # "idle"
        /\ task'[t].pc \notin PreSend \cup {"idle"}
        /\ task'[t].todo \subseteq task[t].todo
        /\ task'[t].kind = "profile" => task'[t].pc \in ProfileSteps
        /\ task'[t].pc \in Working =>
             \/ task[t].pc \in Working /\ task'[t].prop = task[t].prop
             \/ task[t].kind \in {"expire", "reconcile"} /\ task'[t].prop \in task[t].todo

(* Such a step preserves the invariant.                                    *)
LEMMA QuietStep ==
  ASSUME Inv, NEW t \in Tasks, TypeOK', Quiet(t), RowsKept,
         UNCHANGED <<mode, sent, worker, replies>>, mode # "up" => conn' = conn
  PROVE  Inv'
<1>1. TaskInv'
  <2> SUFFICES ASSUME NEW u \in Tasks PROVE TaskOK(u)'
    BY DEF TaskInv
  <2>0. TaskOK(u) /\ TaskOK(t) /\ task[u] \in TaskType /\ task[t] \in TaskType
    BY DEF Inv, TaskInv, TypeOK
  <2>1. CASE u # t
    <3>1. task'[u] = task[u]
      BY <2>1 DEF Quiet
    <3> QED
      BY <2>0, <3>1 DEF TaskType, TaskOK, RowsKept
  <2>2. CASE u = t
    <3>1. CASE task'[t].kind = "idle" /\ task'[t].pc = "idle"
      BY <2>2, <3>1 DEF TaskOK, Working
    <3>2. CASE ~(task'[t].kind = "idle" /\ task'[t].pc = "idle")
      BY <2>0, <2>2, <3>2 DEF TaskType, TaskOK, Quiet, RowsKept, PreSend, Working
    <3> QED
      BY <3>1, <3>2
  <2> QED
    BY <2>1, <2>2
<1>2. BootInv'
  BY DEF Inv, BootInv, Quiet, TaskInv, TaskOK, TypeOK
<1>3. RowInv'
  BY DEF Inv, RowInv, RowOK, RowsKept, TypeOK
<1>4. ClaimInv'
  BY DEF Inv, ClaimInv, Quiet, RowsKept, TaskInv, TaskOK, PreSend, Working, Steps
<1>5. ReplyInv'
  BY DEF Inv, ReplyInv
<1> QED
  BY <1>1, <1>2, <1>3, <1>4, <1>5 DEF Inv

(* A step that leaves the tasks alone preserves it too.                    *)
LEMMA StillStep ==
  ASSUME Inv, TypeOK', ReplyInv', task' = task, RowsKept,
         UNCHANGED <<mode, sent>>, mode # "up" => conn' = conn
  PROVE  Inv'
<1>1. TaskInv'
  <2> SUFFICES ASSUME NEW u \in Tasks PROVE TaskOK(u)'
    BY DEF TaskInv
  <2>1. TaskOK(u) /\ task[u] \in TaskType /\ task'[u] = task[u]
    BY DEF Inv, TaskInv, TypeOK
  <2> QED
    BY <2>1 DEF TaskType, TaskOK, RowsKept
<1>2. BootInv'
  BY DEF Inv, BootInv
<1>3. RowInv'
  BY DEF Inv, RowInv, RowOK, RowsKept, TypeOK
<1>4. ClaimInv'
  BY DEF Inv, ClaimInv, RowsKept, TaskInv, TaskOK, PreSend, Working, Steps
<1> QED
  BY <1>1, <1>2, <1>3, <1>4 DEF Inv

(* Moving on outside the claim window is quiet.                            *)
LEMMA QuietGoto ==
  ASSUME Inv, NEW t \in Tasks, NEW pc \in Working \ PreSend, task[t].pc \in Working, Goto(t, pc),
         task[t].kind = "profile" => pc \in ProfileSteps
  PROVE  Quiet(t)
<1>1. pc \in Steps /\ pc # "idle" /\ task[t].kind # "idle" /\ task[t] \in TaskType
  BY DEF Inv, TypeOK, TaskInv, TaskOK, Working
<1> QED
  BY <1>1, GotoEffect DEF Inv, Quiet, Others, Same

(* Receiving a result is quiet.                                            *)
LEMMA QuietGot ==
  ASSUME Inv, NEW t \in Tasks, NEW res \in Results, task[t].pc \in Working, Got(t, res)
  PROVE  Quiet(t)
<1>1. task[t].kind # "idle" /\ task[t] \in TaskType
  BY DEF Inv, TypeOK, TaskInv, TaskOK, Working
<1>2. "persist" \in Working \ PreSend /\ "persist" \in ProfileSteps
  BY DEF Working, PreSend, Steps, ProfileSteps
<1> QED
  BY <1>1, <1>2, GotEffect DEF Inv, Quiet, Others, Same

(* Ending a coroutine is quiet.                                            *)
LEMMA QuietFinish ==
  ASSUME Inv, NEW t \in Tasks, Finish(t)
  PROVE  Quiet(t)
<1>1. task[t] \in TaskType
  BY DEF Inv, TypeOK
<1>2. "loop" \notin Working \cup PreSend
  BY DEF Working, PreSend
<1>3. task[t].kind \in {"reconcile", "expire"} \/ task'[t].kind = "idle"
  BY DEF Finish, Finished, Inv, TypeOK, Idle
<1> QED
  BY <1>1, <1>2, <1>3, FinishEffect DEF Inv, Quiet, Others

(* A database that is locked ends the coroutine too.                       *)
LEMMA QuietLocked ==
  ASSUME Inv, NEW t \in Tasks, DatabaseLocked(t)
  PROVE  Quiet(t)
<1>1. CASE task[t].kind = "reconcile"
  <2>1. Finish(t)
    BY <1>1 DEF DatabaseLocked, Finish
  <2> QED
    BY <2>1, QuietFinish
<1>2. CASE task[t].kind # "reconcile"
  <2>1. task' = [task EXCEPT ![t] = Idle]
    BY <1>2 DEF DatabaseLocked
  <2>2. Others(t) /\ task'[t] = Idle
    BY <2>1, IdleType, ReplaceEffect DEF Inv
  <2> QED
    BY <2>2 DEF Quiet, Others, Idle
<1> QED
  BY <1>1, <1>2

(* Taking the next row of a loop is quiet.                                 *)
LEMMA QuietTake ==
  ASSUME Inv, NEW t \in Tasks, NEW p \in task[t].todo, NEW pc \in Working \ PreSend,
         task[t].kind \in {"expire", "reconcile"}, Take(t, p, pc)
  PROVE  Quiet(t)
<1>1. task[t] \in TaskType /\ p \in Props /\ pc \in Steps /\ pc # "idle"
  BY DEF Inv, TypeOK, TaskType, Working
<1> QED
  BY <1>1, TakeEffect DEF Inv, Quiet, Others

(* An unconditional status UPDATE keeps the claim and the insertion facts. *)
LEMMA KeptStatus ==
  ASSUME TypeOK, NEW p \in Props, NEW s \in Statuses \ {"PENDING"}, SetStatus(p, s)
  PROVE  RowsKept
<1>1. s # "NONE"
  BY DEF Statuses
<1> QED
  BY <1>1, SetStatusEffect DEF RowsKept, Exists, Statuses, OtherRows, SameRow

(* So does the UPDATE of an approval.                                      *)
LEMMA KeptApproval ==
  ASSUME TypeOK, NEW p \in Props, NEW s \in Statuses \ {"PENDING"}, NEW u \in Users,
         SetApproval(p, s, u)
  PROVE  RowsKept
<1>1. s # "NONE"
  BY DEF Statuses
<1> QED
  BY <1>1, SetApprovalEffect DEF RowsKept, Exists, Statuses, OtherRows, SameRow

-----------------------------------------------------------------------------
(* Every step preserves the invariant. *)

(* A started task holds its proposal outside the claim.                    *)
LEMMA StartStep ==
  ASSUME Inv, TypeOK', NEW t \in Tasks, NEW k \in Kinds, NEW pc \in Working \ PreSend,
         NEW p \in Props, NEW u \in Users, Start(t, k, pc, p, u),
         k \notin {"idle", "reconcile"}, RowsKept, row[p].status # "NONE",
         k \in {"approve", "reject", "expire"} => row[p].origin = "chat",
         k \notin {"admin", "profile"},
         UNCHANGED <<mode, sent, worker, replies, conn>>
  PROVE  Inv'
<1>0. pc \in Steps /\ pc # "idle" /\ pc # "loop" /\ pc \notin PreSend
  BY DEF Working
<1>1. Others(t) /\ mode = "up" /\ task'[t].kind = k /\ task'[t].pc = pc
        /\ task'[t].prop = p /\ task'[t].todo = {}
  BY <1>0, StartEffect DEF Inv
<1>2. TaskInv'
  <2> SUFFICES ASSUME NEW v \in Tasks PROVE TaskOK(v)'
    BY DEF TaskInv
  <2>1. TaskOK(v) /\ task[v] \in TaskType
    BY DEF Inv, TaskInv, TypeOK
  <2>2. CASE v # t
    BY <1>1, <2>1, <2>2 DEF TaskType, TaskOK, RowsKept, Others
  <2>3. CASE v = t
    BY <1>0, <1>1, <2>3 DEF TaskOK, RowsKept, Working, PreSend
  <2> QED
    BY <2>2, <2>3
<1>3. BootInv'
  BY <1>1 DEF Inv, BootInv, Others
<1>4. RowInv'
  BY DEF Inv, RowInv, RowOK, RowsKept, TypeOK
<1>5. ClaimInv'
  BY <1>0, <1>1 DEF Inv, ClaimInv, Others, RowsKept, TaskInv, TaskOK, PreSend, Working, Steps
<1>6. ReplyInv'
  BY DEF Inv, ReplyInv
<1> QED
  BY <1>2, <1>3, <1>4, <1>5, <1>6 DEF Inv

(* One step per action.                                                    *)
LEMMA InvNext ==
  ASSUME Inv, [Next]_vars
  PROVE  Inv'
<1> USE DEF dbVars, netVars, procVars
<1>0. TypeOK /\ TypeOK'
  BY TypeNext DEF Inv, TaskInv, TaskOK, HoldsProp
<1>w. /\ {"normalize", "load", "claim", "wait", "persist", "audit", "audit_approved",
          "reject", "audit_rejected"} \subseteq Working \ PreSend
      /\ PreSend \subseteq Working
      /\ {"idle", "loop"} \cap Working = {}
  BY DEF Working, PreSend, Steps
<1>p. \A t \in Tasks : task[t].pc \in Working => task[t].prop \in Props
  BY DEF Inv, TaskInv, TaskOK
<1>f. \A t \in Tasks : task[t].kind = "profile" => task[t].pc \in ProfileSteps
  BY DEF Inv, TaskInv, TaskOK
<1>k. (row' = row) => RowsKept
  BY DEF RowsKept
<1>1. ASSUME NEW t \in Tasks, ApproveInvalid(t) PROVE Inv'
  <2>1. task[t].pc \in Working /\ task[t].prop \in Props
    BY <1>1, <1>w, <1>p DEF ApproveInvalid
  <2>2. Quiet(t)
    BY <1>1, <1>w, <1>f, <2>1, QuietGoto DEF ApproveInvalid, ProfileSteps
  <2>3. RowsKept
    BY <1>1, <1>0, <2>1, KeptApproval DEF ApproveInvalid, Statuses, Outcome, TypeOK, TaskType
  <2> QED
    BY <1>1, <1>0, <2>2, <2>3, QuietStep DEF ApproveInvalid
<1>2. ASSUME NEW t \in Tasks, ApproveAborted(t) PROVE Inv'
  <2>1. task[t].pc \in Working /\ task[t].prop \in Props
    BY <1>2, <1>w, <1>p DEF ApproveAborted
  <2>2. Quiet(t)
    BY <1>2, <1>w, <1>f, <2>1, QuietFinish DEF ApproveAborted, ProfileSteps
  <2> QED
    BY <1>2, <1>0, <1>k, <2>2, QuietStep DEF ApproveAborted
<1>3. ASSUME NEW t \in Tasks, ApproveWrite(t) PROVE Inv'
  <2>1. task[t].pc \in Working /\ task[t].prop \in Props
    BY <1>3, <1>w, <1>p DEF ApproveWrite
  <2>2. Quiet(t)
    BY <1>3, <1>w, <1>f, <2>1, QuietGoto DEF ApproveWrite, ProfileSteps
  <2>3. RowsKept
    BY <1>3, <1>0, <2>1, KeptApproval DEF ApproveWrite, Statuses, Outcome, TypeOK, TaskType
  <2> QED
    BY <1>3, <1>0, <2>2, <2>3, QuietStep DEF ApproveWrite
<1>4. ASSUME NEW t \in Tasks, ApproveAudit(t) PROVE Inv'
  <2>1. task[t].pc \in Working /\ task[t].prop \in Props
    BY <1>4, <1>w, <1>p DEF ApproveAudit
  <2>2. Quiet(t)
    BY <1>4, <1>w, <1>f, <2>1, QuietFinish DEF ApproveAudit, ProfileSteps
  <2> QED
    BY <1>4, <1>0, <1>k, <2>2, QuietStep DEF ApproveAudit
<1>5. ASSUME NEW t \in Tasks, RejectWrite(t) PROVE Inv'
  <2>1. task[t].pc \in Working /\ task[t].prop \in Props
    BY <1>5, <1>w, <1>p DEF RejectWrite
  <2>2. Quiet(t)
    BY <1>5, <1>w, <1>f, <2>1, QuietGoto DEF RejectWrite, ProfileSteps
  <2>3. RowsKept
    BY <1>5, <1>0, <2>1, KeptStatus DEF RejectWrite, Statuses, Outcome, TypeOK, TaskType
  <2> QED
    BY <1>5, <1>0, <2>2, <2>3, QuietStep DEF RejectWrite
<1>6. ASSUME NEW t \in Tasks, RejectAudit(t) PROVE Inv'
  <2>1. task[t].pc \in Working /\ task[t].prop \in Props
    BY <1>6, <1>w, <1>p DEF RejectAudit
  <2>2. Quiet(t)
    BY <1>6, <1>w, <1>f, <2>1, QuietFinish DEF RejectAudit, ProfileSteps
  <2> QED
    BY <1>6, <1>0, <1>k, <2>2, QuietStep DEF RejectAudit
<1>7. ASSUME NEW t \in Tasks, ExpireDone(t) PROVE Inv'
  <2>1. Quiet(t)
    BY <1>7, <1>0, IdleType, ReplaceEffect DEF ExpireDone, Quiet, Others, Idle
  <2> QED
    BY <1>7, <1>0, <1>k, <2>1, QuietStep DEF ExpireDone
<1>8. ASSUME NEW t \in Tasks, DispatchLoad(t) PROVE Inv'
  <2>1. task[t].pc \in Working /\ task[t].prop \in Props
    BY <1>8, <1>w, <1>p DEF DispatchLoad
  <2>2. Quiet(t)
    BY <1>8, <1>w, <1>f, <2>1, QuietGoto, QuietFinish DEF DispatchLoad, ProfileSteps
  <2> QED
    BY <1>8, <1>0, <1>k, <2>2, QuietStep DEF DispatchLoad
<1>9. ASSUME NEW t \in Tasks, DispatchClaim(t) PROVE Inv'
  <2> DEFINE p == task[t].prop
  <2>1. task[t].pc = "claim" /\ p \in Props /\ TaskOK(t)
    BY <1>9, <1>w, <1>p DEF DispatchClaim, Inv, TaskInv
  <2>2. CASE ~CanClaim(p)
    <3>1. Quiet(t)
      BY <1>9, <2>2, QuietFinish DEF DispatchClaim
    <3> QED
      BY <1>9, <1>0, <1>k, <2>2, <3>1, QuietStep DEF DispatchClaim
  <2>3. CASE CanClaim(p)
    <3>1. /\ Others(t) /\ Same(t) /\ task'[t].pc = "send"
      BY <1>9, <1>0, <2>3, GotoEffect DEF DispatchClaim, Steps
    <3>2. /\ OtherRows(p) /\ SameRow(p) /\ row'[p].claimed /\ row'[p].status = row[p].status
      BY <1>9, <1>0, <2>1, <2>3, ClaimEffect DEF DispatchClaim
    <3>3. ~row[p].claimed /\ row[p].status = "APPROVED" /\ sent' = sent /\ mode' = mode /\ conn' = conn
      BY <1>9, <2>3 DEF DispatchClaim, CanClaim
    <3>4. TaskInv'
      <4> SUFFICES ASSUME NEW u \in Tasks PROVE TaskOK(u)'
        BY DEF TaskInv
      <4>1. TaskOK(u) /\ task[u] \in TaskType
        BY DEF Inv, TaskInv, TypeOK
      <4>2. CASE u # t
        BY <2>1, <3>1, <3>2, <3>3, <4>1, <4>2 DEF TaskType, TaskOK, Others, OtherRows, SameRow
      <4>3. CASE u = t
        <5>1. task[t].kind # "profile" /\ "send" \in Working
          BY <1>f, <1>w, <2>1 DEF ProfileSteps, PreSend
        <5>2. row'[p].origin = row[p].origin /\ row'[p].status = row[p].status
          BY <3>2 DEF SameRow
        <5>3. \A q \in Props : row'[q].origin = row[q].origin /\ row'[q].status = row[q].status
          BY <3>2, <5>2 DEF OtherRows
        <5> QED
          BY <1>w, <2>1, <3>1, <4>1, <4>3, <5>1, <5>3 DEF TaskType, TaskOK, Same
      <4> QED
        BY <4>2, <4>3
    <3>5. BootInv'
      BY <2>1, <3>1, <3>3 DEF Inv, BootInv, Others, Same, TaskOK
    <3>6. RowInv'
      BY <1>0, <2>1, <3>2, <3>3 DEF Inv, RowInv, RowOK, OtherRows, SameRow
    <3>7. \A u \in Tasks \ {t} : ~(task[u].pc \in PreSend /\ task[u].prop = p)
      <4> SUFFICES ASSUME NEW u \in Tasks \ {t}, task[u].pc \in PreSend, task[u].prop = p
                   PROVE  FALSE
        OBVIOUS
      <4>1. task[u].kind = "profile"
        BY <3>3 DEF Inv, ClaimInv
      <4>2. row[p].origin = "profile" /\ task[u].pc # "idle"
        BY <1>w, <4>1 DEF Inv, TaskInv, TaskOK
      <4>3. task[t].kind \in {"profile", "reconcile"}
        BY <1>w, <2>1, <4>2 DEF Inv, TaskOK, TypeOK, TaskType, Kinds
      <4>4. task[t].kind = "profile"
        BY <2>1, <4>1, <4>3 DEF Inv, BootInv, TypeOK
      <4> QED
        BY <1>f, <2>1, <4>4 DEF ProfileSteps
    <3>8. task[t].kind \notin {"reconcile"} => sent[p] = 0
      <4> SUFFICES ASSUME task[t].kind # "reconcile" PROVE sent[p] = 0
        OBVIOUS
      <4>1. task[t].kind # "profile"
        BY <1>f, <2>1 DEF ProfileSteps
      <4>2. row[p].origin # "profile"
        BY <1>w, <2>1, <4>1 DEF Inv, TaskOK, TypeOK, TaskType, Kinds
      <4> QED
        BY <1>0, <2>1, <3>3, <4>2 DEF Inv, RowInv, RowOK, TypeOK
    <3>9. ClaimInv'
      BY <2>1, <3>1, <3>2, <3>3, <3>7, <3>8
      DEF Inv, ClaimInv, Others, Same, OtherRows, PreSend, TaskInv, TaskOK, Working, Steps
    <3> QED
      BY <1>9, <1>0, <3>4, <3>5, <3>6, <3>9 DEF Inv, ReplyInv, DispatchClaim
  <2> QED
    BY <2>2, <2>3
<1>10. ASSUME NEW t \in Tasks, SendRegister(t) PROVE Inv'
  <2> DEFINE p == task[t].prop
  <2>1. task[t].pc = "send" /\ p \in Props /\ TaskOK(t) /\ RowsKept
    BY <1>10, <1>w, <1>p, <1>k DEF SendRegister, Inv, TaskInv, PreSend
  <2>2. CASE NodeOf[p] \notin conn
    <3>1. Quiet(t)
      BY <1>10, <1>w, <2>1, <2>2, QuietGot DEF SendRegister, Results, PreSend
    <3> QED
      BY <1>10, <1>0, <2>1, <3>1, QuietStep DEF SendRegister
  <2>3. CASE NodeOf[p] \in conn
    <3>1. Others(t) /\ Same(t) /\ task'[t].pc = "sending"
      BY <1>10, <1>0, <2>3, GotoEffect DEF SendRegister, Steps
    <3>2. task[t].kind # "reconcile"
      BY <2>1, <2>3 DEF Inv, BootInv
    <3>3. row' = row /\ sent' = sent /\ mode' = mode /\ conn' = conn
      BY <1>10 DEF SendRegister
    <3>4. TaskInv'
      <4> SUFFICES ASSUME NEW u \in Tasks PROVE TaskOK(u)'
        BY DEF TaskInv
      <4>1. TaskOK(u) /\ task[u] \in TaskType
        BY DEF Inv, TaskInv, TypeOK
      <4>2. CASE u # t
        BY <3>1, <3>3, <4>1, <4>2 DEF TaskOK, Others
      <4>3. CASE u = t
        BY <1>w, <2>1, <3>1, <3>2, <3>3, <4>3 DEF TaskOK, Same, PreSend, ProfileSteps
      <4> QED
        BY <4>2, <4>3
    <3>5. BootInv'
      BY <2>1, <3>1, <3>3 DEF Inv, BootInv, Others, Same
    <3>6. RowInv'
      BY <3>3 DEF Inv, RowInv, RowOK
    <3>7. ClaimInv'
      <4>1. \A u \in Tasks : /\ task'[u].pc \in PreSend => task[u].pc \in PreSend
                             /\ task'[u].kind = task[u].kind /\ task'[u].prop = task[u].prop
        BY <2>1, <3>1 DEF Others, Same, PreSend
      <4> QED
        BY <3>3, <4>1 DEF Inv, ClaimInv
    <3> QED
      BY <1>10, <1>0, <3>4, <3>5, <3>6, <3>7 DEF Inv, ReplyInv, SendRegister
  <2> QED
    BY <2>2, <2>3
<1>11. ASSUME NEW t \in Tasks, SendWire(t) PROVE Inv'
  <2> DEFINE p == task[t].prop
  <2>1. task[t].pc = "sending" /\ p \in Props /\ TaskOK(t)
    BY <1>11, <1>w, <1>p DEF SendWire, Inv, TaskInv, PreSend
  <2>2. Quiet(t)
    BY <1>11, <1>w, <1>f, <2>1, QuietGoto DEF SendWire, PreSend, ProfileSteps
  <2>3. row' = row /\ mode' = mode /\ conn' = conn /\ worker' = worker /\ replies' = replies
    BY <1>11 DEF SendWire
  <2>4. sent'[p] = sent[p] + 1 /\ \A q \in Props \ {p} : sent'[q] = sent[q]
    BY <1>11, <1>0, <2>1 DEF SendWire, TypeOK
  <2>5. sent[p] = 0 /\ (row[p].claimed \/ row[p].origin = "profile") /\ row[p].status # "NONE"
    BY <1>w, <2>1 DEF Inv, ClaimInv, TaskOK, PreSend
  <2>6. TaskInv' /\ BootInv'
    <3>1. Others(t) /\ Same(t) /\ task'[t].pc = "wait"
      BY <1>11, <1>0, GotoEffect DEF SendWire, Steps
    <3>2. TaskInv'
      <4> SUFFICES ASSUME NEW u \in Tasks PROVE TaskOK(u)'
        BY DEF TaskInv
      <4>1. TaskOK(u)
        BY DEF Inv, TaskInv
      <4>2. CASE u # t
        BY <2>3, <3>1, <4>1, <4>2 DEF TaskOK, Others
      <4>3. CASE u = t
        BY <1>w, <2>1, <2>3, <3>1, <4>3 DEF TaskOK, Same, PreSend, ProfileSteps
      <4> QED
        BY <4>2, <4>3
    <3>3. BootInv'
      BY <2>3, <3>1 DEF Inv, BootInv, Others, Same
    <3> QED
      BY <3>2, <3>3
  <2>7. RowInv'
    <3> SUFFICES ASSUME NEW q \in Props PROVE RowOK(q)'
      BY DEF RowInv
    <3>1. CASE q = p
      BY <2>3, <2>4, <2>5, <3>1 DEF Inv, RowInv, RowOK
    <3>2. CASE q # p
      BY <2>3, <2>4, <3>2 DEF Inv, RowInv, RowOK
    <3> QED
      BY <3>1, <3>2
  <2>8. ClaimInv'
    BY <1>w, <1>p, <2>1, <2>2, <2>3, <2>4 DEF Inv, ClaimInv, Quiet, PreSend
  <2> QED
    BY <1>0, <2>3, <2>6, <2>7, <2>8 DEF Inv, ReplyInv
<1>12. ASSUME NEW t \in Tasks, SendRaises(t) PROVE Inv'
  <2>1. task[t].pc \in Working /\ task[t].prop \in Props
    BY <1>12, <1>w, <1>p DEF SendRaises, PreSend
  <2>2. Quiet(t)
    BY <1>12, <1>w, <1>f, <2>1, QuietGot, QuietFinish DEF SendRaises, ProfileSteps, Results, PreSend
  <2> QED
    BY <1>12, <1>0, <1>k, <2>2, QuietStep DEF SendRaises
<1>13. ASSUME NEW t \in Tasks, WaitResult(t) PROVE Inv'
  <2>1. task[t].pc \in Working /\ task[t].prop \in Props
    BY <1>13, <1>w, <1>p DEF WaitResult
  <2>2. Quiet(t)
    BY <1>13, <1>w, <1>f, <2>1, QuietGot DEF WaitResult, ProfileSteps, Results
  <2> QED
    BY <1>13, <1>0, <1>k, <2>2, QuietStep DEF WaitResult
<1>14. ASSUME NEW t \in Tasks, WaitTimeout(t) PROVE Inv'
  <2>1. task[t].pc \in Working /\ task[t].prop \in Props
    BY <1>14, <1>w, <1>p DEF WaitTimeout
  <2>2. Quiet(t)
    BY <1>14, <1>w, <1>f, <2>1, QuietGot DEF WaitTimeout, ProfileSteps, Results
  <2> QED
    BY <1>14, <1>0, <1>k, <2>2, QuietStep DEF WaitTimeout
<1>15. ASSUME NEW t \in Tasks, WaitCancelled(t) PROVE Inv'
  <2>1. task[t].pc \in Working /\ task[t].prop \in Props
    BY <1>15, <1>w, <1>p DEF WaitCancelled
  <2>2. Quiet(t)
    BY <1>15, <1>w, <1>f, <2>1, QuietFinish DEF WaitCancelled, ProfileSteps
  <2> QED
    BY <1>15, <1>0, <1>k, <2>2, QuietStep DEF WaitCancelled
<1>16. ASSUME NEW t \in Tasks, Persist(t) PROVE Inv'
  <2>1. task[t].pc \in Working /\ task[t].prop \in Props
    BY <1>16, <1>w, <1>p DEF Persist
  <2>2. Quiet(t)
    BY <1>16, <1>w, <1>f, <2>1, QuietGoto DEF Persist, ProfileSteps
  <2>3. RowsKept
    BY <1>16, <1>0, <2>1, KeptStatus DEF Persist, Statuses, Outcome, TypeOK, TaskType
  <2> QED
    BY <1>16, <1>0, <2>2, <2>3, QuietStep DEF Persist
<1>17. ASSUME NEW t \in Tasks, DispatchAudit(t) PROVE Inv'
  <2>1. task[t].pc \in Working /\ task[t].prop \in Props
    BY <1>17, <1>w, <1>p DEF DispatchAudit
  <2>2. Quiet(t)
    BY <1>17, <1>w, <1>f, <2>1, QuietGoto, QuietFinish DEF DispatchAudit, ProfileSteps
  <2> QED
    BY <1>17, <1>0, <1>k, <2>2, QuietStep DEF DispatchAudit
<1>18. ASSUME NEW t \in Tasks, ReconcileDone(t) PROVE Inv'
  <2>1. Others(t) /\ task'[t].kind = "idle" /\ task'[t].pc = "idle"
    BY <1>18, <1>0, IdleType, ReplaceEffect DEF ReconcileDone, Idle
  <2>2. task[t].kind = "reconcile" /\ row' = row /\ sent' = sent /\ conn' = conn /\ mode' = "up"
    BY <1>18 DEF ReconcileDone
  <2>3. \A u \in Tasks \ {t} : task[u].kind = "idle"
    BY <1>0, <2>2 DEF Inv, BootInv, TypeOK
  <2>4. TaskInv'
    <3> SUFFICES ASSUME NEW u \in Tasks PROVE TaskOK(u)'
      BY DEF TaskInv
    <3>1. TaskOK(u)
      BY DEF Inv, TaskInv
    <3> QED
      BY <1>w, <2>1, <2>2, <3>1 DEF TaskOK, Others
  <2>5. BootInv'
    BY <2>1, <2>2, <2>3 DEF BootInv, Others
  <2>6. RowInv'
    BY <2>2 DEF Inv, RowInv, RowOK
  <2>7. ClaimInv'
    BY <2>1, <2>2 DEF Inv, ClaimInv, Others, PreSend
  <2> QED
    BY <1>18, <1>0, <2>4, <2>5, <2>6, <2>7 DEF Inv, ReplyInv, ReconcileDone
<1>19. ASSUME NEW t \in Tasks, NEW p \in Props, ExpireCancel(t, p) PROVE Inv'
  <2>1. Quiet(t)
    BY <1>19, <1>w, QuietTake DEF ExpireCancel
  <2> QED
    BY <1>19, <1>0, <1>k, <2>1, QuietStep DEF ExpireCancel
<1>20. ASSUME NEW t \in Tasks, NEW p \in Props, ReconcileNext(t, p) PROVE Inv'
  <2>1. Quiet(t)
    BY <1>20, <1>w, QuietTake DEF ReconcileNext
  <2> QED
    BY <1>20, <1>0, <1>k, <2>1, QuietStep DEF ReconcileNext
<1>21. ASSUME NEW t \in Tasks, NEW p \in Props, ExpireSkip(t, p) PROVE Inv'
  <2>1. /\ Others(t) /\ task'[t].kind = task[t].kind /\ task'[t].pc = task[t].pc
        /\ task'[t].todo = task[t].todo \ {p}
    BY <1>21, <1>0 DEF ExpireSkip, TypeOK, TaskType, Others
  <2>2. Quiet(t)
    BY <1>21, <1>w, <2>1 DEF ExpireSkip, Quiet, Others, PreSend
  <2> QED
    BY <1>21, <1>0, <1>k, <2>2, QuietStep DEF ExpireSkip
<1>22. ASSUME NEW t \in Tasks, ExpireLoad(t) PROVE Inv'
  <2> DEFINE r == [Idle EXCEPT !.kind = "expire", !.pc = "loop", !.user = "system",
                        !.todo = {p \in Props : row[p].status = "PENDING"}]
  <2>1. r \in TaskType /\ r.kind = "expire" /\ r.pc = "loop"
          /\ r.todo = {p \in Props : row[p].status = "PENDING"}
    BY DEF Idle, TaskType, Kinds, Steps, Users, Results
  <2>2. task' = [task EXCEPT ![t] = r]
    BY <1>22 DEF ExpireLoad
  <2> HIDE DEF r
  <2>3. Others(t) /\ task'[t] = r
    BY <1>0, <2>1, <2>2, ReplaceEffect
  <2>4. row' = row /\ sent' = sent /\ conn' = conn /\ mode' = "up" /\ mode = "up"
    BY <1>22 DEF ExpireLoad
  <2>5. TaskInv'
    <3> SUFFICES ASSUME NEW u \in Tasks PROVE TaskOK(u)'
      BY DEF TaskInv
    <3>1. TaskOK(u)
      BY DEF Inv, TaskInv
    <3>2. \A p \in Props : row[p].status = "PENDING" => row[p].origin = "chat"
      BY DEF Inv, RowInv, RowOK
    <3>3. CASE u # t
      BY <2>3, <2>4, <3>1, <3>3 DEF TaskOK, Others
    <3>4. CASE u = t
      BY <1>w, <2>1, <2>3, <2>4, <3>2, <3>4 DEF TaskOK
    <3> QED
      BY <3>3, <3>4
  <2>6. BootInv'
    BY <2>1, <2>3, <2>4 DEF Inv, BootInv, Others
  <2>7. RowInv'
    BY <2>4 DEF Inv, RowInv, RowOK
  <2>8. ClaimInv'
    BY <2>1, <2>3, <2>4 DEF Inv, ClaimInv, Others, PreSend
  <2> QED
    BY <1>22, <1>0, <2>5, <2>6, <2>7, <2>8 DEF Inv, ReplyInv, ExpireLoad
<1>23. ASSUME NEW t \in Tasks, NEW p \in Props, ProfileInsert(t, p) PROVE Inv'
  <2>1. /\ OtherRows(p) /\ row[p].status = "NONE" /\ row'[p].status = "APPROVED"
        /\ row'[p].origin = "profile" /\ ~row'[p].claimed
    BY <1>23, <1>0, InsertEffect DEF ProfileInsert, Statuses, Users, Roles, Origins, ActionClass
  <2>2. /\ Others(t) /\ task'[t].kind = "profile" /\ task'[t].pc = "send"
        /\ task'[t].prop = p /\ task'[t].todo = {} /\ mode = "up"
    BY <1>23, <1>0, StartEffect DEF ProfileInsert, Kinds, Steps, Users, Roles
  <2>3. sent' = sent /\ mode' = mode /\ conn' = conn /\ worker' = worker /\ replies' = replies
    BY <1>23 DEF ProfileInsert
  <2>4. \A u \in Tasks : task[u].pc \in Working => task[u].prop # p
    BY <2>1 DEF Inv, TaskInv, TaskOK
  <2>5. \A u \in Tasks : task[u].kind \in {"expire", "reconcile"} => p \notin task[u].todo
    BY <2>1 DEF Inv, TaskInv, TaskOK
  <2>6. TaskInv'
    <3> SUFFICES ASSUME NEW u \in Tasks PROVE TaskOK(u)'
      BY DEF TaskInv
    <3>1. TaskOK(u) /\ task[u] \in TaskType
      BY <1>0 DEF Inv, TaskInv, TypeOK
    <3>2. CASE u # t
      BY <2>1, <2>2, <2>4, <2>5, <3>1, <3>2 DEF TaskOK, TaskType, Others, OtherRows
    <3>3. CASE u = t
      BY <2>1, <2>2, <3>3 DEF TaskOK, ProfileSteps
    <3> QED
      BY <3>2, <3>3
  <2>7. BootInv'
    BY <2>2, <2>3 DEF Inv, BootInv, Others
  <2>8. RowInv'
    <3> SUFFICES ASSUME NEW q \in Props PROVE RowOK(q)'
      BY DEF RowInv
    <3>1. RowOK(q)
      BY DEF Inv, RowInv
    <3>2. CASE q = p
      BY <2>1, <2>3, <3>1, <3>2 DEF RowOK
    <3>3. CASE q # p
      BY <2>1, <2>3, <3>1, <3>3 DEF RowOK, OtherRows
    <3> QED
      BY <3>2, <3>3
  <2>9. ClaimInv'
    BY <1>w, <1>p, <2>1, <2>2, <2>3, <2>4 DEF Inv, ClaimInv, RowInv, RowOK, Others, OtherRows, PreSend
  <2> QED
    BY <1>0, <2>3, <2>6, <2>7, <2>8, <2>9 DEF Inv, ReplyInv
<1>24. ASSUME NEW t \in Tasks, NEW p \in Props,
             NEW a \in ActionClass, NEW u \in Roles \cup {"system"}, AdminInsert(t, p, a, u) PROVE Inv'
  <2>1. /\ OtherRows(p) /\ row[p].status = "NONE" /\ row'[p].status = "APPROVED"
        /\ row'[p].origin = "admin" /\ ~row'[p].claimed
    BY <1>24, <1>0, InsertEffect DEF AdminInsert, Statuses, Users, Roles, Origins, ActionClass
  <2>2. /\ Others(t) /\ task'[t].kind = "admin" /\ task'[t].pc = "load"
        /\ task'[t].prop = p /\ task'[t].todo = {} /\ mode = "up"
    BY <1>24, <1>0, StartEffect DEF AdminInsert, Kinds, Steps, Users, Roles
  <2>3. sent' = sent /\ mode' = mode /\ conn' = conn /\ worker' = worker /\ replies' = replies
    BY <1>24 DEF AdminInsert
  <2>4. \A x \in Tasks : task[x].pc \in Working => task[x].prop # p
    BY <2>1 DEF Inv, TaskInv, TaskOK
  <2>5. \A x \in Tasks : task[x].kind \in {"expire", "reconcile"} => p \notin task[x].todo
    BY <2>1 DEF Inv, TaskInv, TaskOK
  <2>6. TaskInv'
    <3> SUFFICES ASSUME NEW x \in Tasks PROVE TaskOK(x)'
      BY DEF TaskInv
    <3>1. TaskOK(x) /\ task[x] \in TaskType
      BY <1>0 DEF Inv, TaskInv, TypeOK
    <3>2. CASE x # t
      BY <2>1, <2>2, <2>4, <2>5, <3>1, <3>2 DEF TaskOK, TaskType, Others, OtherRows
    <3>3. CASE x = t
      BY <2>1, <2>2, <3>3 DEF TaskOK, ProfileSteps
    <3> QED
      BY <3>2, <3>3
  <2>7. BootInv'
    BY <2>2, <2>3 DEF Inv, BootInv, Others
  <2>8. RowInv'
    <3> SUFFICES ASSUME NEW q \in Props PROVE RowOK(q)'
      BY DEF RowInv
    <3>1. RowOK(q)
      BY DEF Inv, RowInv
    <3>2. CASE q = p
      BY <2>1, <2>3, <3>1, <3>2 DEF RowOK
    <3>3. CASE q # p
      BY <2>1, <2>3, <3>1, <3>3 DEF RowOK, OtherRows
    <3> QED
      BY <3>2, <3>3
  <2>9. ClaimInv'
    BY <1>w, <1>p, <2>1, <2>2, <2>3, <2>4 DEF Inv, ClaimInv, RowInv, RowOK, Others, OtherRows, PreSend
  <2> QED
    BY <1>0, <2>3, <2>6, <2>7, <2>8, <2>9 DEF Inv, ReplyInv
<1>25. ASSUME NEW t \in Tasks, NEW p \in Props, NEW u \in Roles, ApproveLoad(t, p, u) PROVE Inv'
  <2>1. row[p].status # "NONE" /\ row[p].origin = "chat"
    BY <1>25 DEF ApproveLoad, Inv, RowInv, RowOK
  <2> QED
    BY <1>25, <1>0, <1>w, <1>k, <2>1, StartStep DEF ApproveLoad, Kinds, Users
<1>26. ASSUME NEW t \in Tasks, NEW p \in Props, NEW u \in Roles, RejectLoad(t, p, u) PROVE Inv'
  <2>1. row[p].status # "NONE" /\ row[p].origin = "chat"
    BY <1>26 DEF RejectLoad, Inv, RowInv, RowOK
  <2> QED
    BY <1>26, <1>0, <1>w, <1>k, <2>1, StartStep DEF RejectLoad, Kinds, Users
<1>27. ASSUME NEW p \in Props, NEW a \in ActionClass, Propose(p, a) PROVE Inv'
  <2>1. /\ OtherRows(p) /\ row[p].status = "NONE" /\ row'[p].status = "PENDING"
        /\ row'[p].origin = "chat" /\ ~row'[p].claimed
    BY <1>27, <1>0, InsertEffect DEF Propose, Statuses, Users, Origins
  <2>2. /\ task' = task /\ sent' = sent /\ mode' = mode /\ conn' = conn
        /\ worker' = worker /\ replies' = replies
    BY <1>27 DEF Propose
  <2>3. \A u \in Tasks : task[u].pc \in Working => task[u].prop # p
    BY <2>1 DEF Inv, TaskInv, TaskOK
  <2>4. \A u \in Tasks : task[u].kind \in {"expire", "reconcile"} => p \notin task[u].todo
    BY <2>1 DEF Inv, TaskInv, TaskOK
  <2>5. TaskInv'
    <3> SUFFICES ASSUME NEW u \in Tasks PROVE TaskOK(u)'
      BY DEF TaskInv
    <3>1. TaskOK(u) /\ task[u] \in TaskType
      BY <1>0 DEF Inv, TaskInv, TypeOK
    <3> QED
      BY <2>1, <2>2, <2>3, <2>4, <3>1 DEF TaskOK, TaskType, OtherRows
  <2>6. BootInv'
    BY <2>2 DEF Inv, BootInv
  <2>7. RowInv'
    <3> SUFFICES ASSUME NEW q \in Props PROVE RowOK(q)'
      BY DEF RowInv
    <3>1. RowOK(q)
      BY DEF Inv, RowInv
    <3>2. CASE q = p
      BY <2>1, <2>2, <3>1, <3>2 DEF RowOK
    <3>3. CASE q # p
      BY <2>1, <2>2, <3>1, <3>3 DEF RowOK, OtherRows
    <3> QED
      BY <3>2, <3>3
  <2>8. ClaimInv'
    BY <1>w, <1>p, <2>1, <2>2, <2>3 DEF Inv, ClaimInv, OtherRows, PreSend
  <2> QED
    BY <1>0, <2>2, <2>5, <2>6, <2>7, <2>8 DEF Inv, ReplyInv
<1>28. ASSUME NEW p \in Props, NEW u \in Roles, ApproveRefused(p, u) PROVE Inv'
  BY <1>28, <1>0, <1>k, StillStep DEF ApproveRefused, Inv, ReplyInv
<1>29. ASSUME NEW p \in Props, CleanupStaleIntent(p) PROVE Inv'
  <2>1. ReplyInv'
    BY <1>29, <1>0 DEF CleanupStaleIntent, Inv, ReplyInv, TypeOK
  <2> QED
    BY <1>29, <1>0, <1>k, <2>1, StillStep DEF CleanupStaleIntent
<1>30. ASSUME NEW p \in Props, WorkerExecute(p) PROVE Inv'
  <2>1. ReplyInv'
    BY <1>30, <1>0 DEF WorkerExecute, Inv, ReplyInv, TypeOK
  <2> QED
    BY <1>30, <1>0, <1>k, <2>1, StillStep DEF WorkerExecute
<1>31. ASSUME NEW p \in Props, LoseMessage(p) PROVE Inv'
  <2>1. ReplyInv'
    BY <1>31, <1>0 DEF LoseMessage, Inv, ReplyInv, TypeOK
  <2> QED
    BY <1>31, <1>0, <1>k, <2>1, StillStep DEF LoseMessage
<1>32. ASSUME NEW p \in Props, IntentResult(p) PROVE Inv'
  <2>1. ReplyInv'
    BY <1>32, <1>0 DEF IntentResult, Inv, ReplyInv, TypeOK
  <2> QED
    BY <1>32, <1>0, <1>k, <2>1, StillStep DEF IntentResult
<1>33. ASSUME NEW n \in Nodes, Connect(n) PROVE Inv'
  BY <1>33, <1>0, <1>k, StillStep DEF Connect, Inv, ReplyInv
<1>34. ASSUME NEW n \in Nodes, Disconnect(n) PROVE Inv'
  BY <1>34, <1>0, <1>k, StillStep DEF Disconnect, Inv, ReplyInv
<1>35. ASSUME NEW n \in Nodes, DeleteNode(n) PROVE Inv'
  <2>1. RowsKept
    <3> SUFFICES ASSUME NEW q \in Props PROVE RowsKept!(q)
      BY DEF RowsKept
    <3>1. \A r \in RowType : LET x == [r EXCEPT !.status = "GONE"]
                             IN  x.status = "GONE" /\ x.origin = r.origin
                                 /\ x.claimed = r.claimed /\ x.action = r.action
      BY DEF RowType
    <3>2. row[q] \in RowType
      BY <1>0 DEF TypeOK
    <3>3. \/ row'[q] = row[q]
          \/ row[q].status \in Statuses /\ row'[q] = [row[q] EXCEPT !.status = "GONE"]
      BY <1>35 DEF DeleteNode, Exists
    <3> QED
      BY <3>1, <3>2, <3>3 DEF Statuses
  <2> QED
    BY <1>35, <1>0, <2>1, StillStep DEF DeleteNode, Inv, ReplyInv
<1>36. ASSUME Crash PROVE Inv'
  <2>1. \A t \in Tasks : task'[t].kind = "idle" /\ task'[t].pc = "idle"
    BY <1>36 DEF Crash, Idle
  <2>2. row' = row /\ sent' = sent /\ conn' = {} /\ mode' = "down" /\ worker' = worker /\ replies' = replies
    BY <1>36 DEF Crash
  <2>3. TaskInv' /\ BootInv'
    BY <1>w, <2>1, <2>2 DEF TaskInv, TaskOK, BootInv
  <2>4. RowInv'
    BY <2>2 DEF Inv, RowInv, RowOK
  <2>5. ClaimInv'
    BY <2>1 DEF ClaimInv, PreSend
  <2> QED
    BY <1>0, <2>2, <2>3, <2>4, <2>5 DEF Inv, ReplyInv
<1>37. ASSUME NEW t \in Tasks, Boot(t) PROVE Inv'
  <2> DEFINE r == [Idle EXCEPT !.kind = "reconcile", !.pc = "loop", !.user = "system",
                        !.todo = {p \in Props : CanClaim(p)}]
  <2>1. r \in TaskType /\ r.kind = "reconcile" /\ r.pc = "loop"
          /\ r.todo = {p \in Props : CanClaim(p)}
    BY DEF Idle, TaskType, Kinds, Steps, Users, Results
  <2>2. task' = [task EXCEPT ![t] = r]
    BY <1>37 DEF Boot
  <2> HIDE DEF r
  <2>3. Others(t) /\ task'[t] = r
    BY <1>0, <2>1, <2>2, ReplaceEffect
  <2>4. row' = row /\ sent' = sent /\ conn' = conn /\ mode' = "boot" /\ mode = "down"
    BY <1>37 DEF Boot
  <2>5. TaskInv'
    <3> SUFFICES ASSUME NEW u \in Tasks PROVE TaskOK(u)'
      BY DEF TaskInv
    <3>1. TaskOK(u)
      BY DEF Inv, TaskInv
    <3>2. CASE u # t
      BY <2>3, <2>4, <3>1, <3>2 DEF TaskOK, Others
    <3>3. CASE u = t
      BY <1>w, <2>1, <2>3, <2>4, <3>3 DEF TaskOK, CanClaim
    <3> QED
      BY <3>2, <3>3
  <2>6. BootInv'
    BY <2>1, <2>3, <2>4 DEF Inv, BootInv, Others
  <2>7. RowInv'
    BY <2>4 DEF Inv, RowInv, RowOK
  <2>8. ClaimInv'
    BY <2>1, <2>3, <2>4 DEF Inv, ClaimInv, Others, PreSend
  <2> QED
    BY <1>37, <1>0, <2>5, <2>6, <2>7, <2>8 DEF Inv, ReplyInv, Boot
<1>38. ASSUME UNCHANGED vars PROVE Inv'
  BY <1>38, <1>0, <1>k, StillStep DEF vars, Inv, ReplyInv
<1>39. ASSUME NEW n \in Nodes, DropDeleted(n) PROVE Inv'
  BY <1>39, <1>0, <1>k, StillStep DEF DropDeleted, Inv, ReplyInv
<1>40. ASSUME NEW t \in Tasks, DatabaseLocked(t) PROVE Inv'
  <2>1. Quiet(t)
    BY <1>40, QuietLocked
  <2> QED
    BY <1>40, <1>0, <1>k, <2>1, QuietStep DEF DatabaseLocked
<1>41. ASSUME NEW t \in Tasks, BootLocked(t) PROVE Inv'
  <2> DEFINE r == [Idle EXCEPT !.kind = "reconcile", !.pc = "loop", !.user = "system"]
  <2>1. r \in TaskType /\ r.kind = "reconcile" /\ r.pc = "loop" /\ r.todo = {}
    BY DEF Idle, TaskType, Kinds, Steps, Users, Results
  <2>2. task' = [task EXCEPT ![t] = r]
    BY <1>41 DEF BootLocked
  <2> HIDE DEF r
  <2>3. Others(t) /\ task'[t] = r
    BY <1>0, <2>1, <2>2, ReplaceEffect
  <2>4. row' = row /\ sent' = sent /\ conn' = conn /\ mode' = "boot" /\ mode = "down"
    BY <1>41 DEF BootLocked
  <2>5. TaskInv'
    <3> SUFFICES ASSUME NEW u \in Tasks PROVE TaskOK(u)'
      BY DEF TaskInv
    <3>1. TaskOK(u)
      BY DEF Inv, TaskInv
    <3>2. CASE u # t
      BY <2>3, <2>4, <3>1, <3>2 DEF TaskOK, Others
    <3>3. CASE u = t
      BY <1>w, <2>1, <2>3, <2>4, <3>3 DEF TaskOK
    <3> QED
      BY <3>2, <3>3
  <2>6. BootInv'
    BY <2>1, <2>3, <2>4 DEF Inv, BootInv, Others
  <2>7. RowInv'
    BY <2>4 DEF Inv, RowInv, RowOK
  <2>8. ClaimInv'
    BY <2>1, <2>3, <2>4 DEF Inv, ClaimInv, Others, PreSend
  <2> QED
    BY <1>41, <1>0, <2>5, <2>6, <2>7, <2>8 DEF Inv, ReplyInv, BootLocked
<1> QED
  BY <1>40, <1>41, <1>1, <1>2, <1>3, <1>4, <1>5, <1>6, <1>7, <1>8, <1>9, <1>10, <1>11, <1>12, <1>13, <1>14, <1>15, <1>16, <1>17, <1>18, <1>19, <1>20, <1>21, <1>22, <1>23, <1>24, <1>25, <1>26, <1>27, <1>28, <1>29, <1>30, <1>31, <1>32, <1>33, <1>34, <1>35, <1>36, <1>37, <1>38, <1>39
  DEF Next, TaskStep, TaskStart, Environment

(* The initial state satisfies the invariant.                              *)
LEMMA InvInit == Init => Inv
<1> SUFFICES ASSUME Init PROVE Inv
  OBVIOUS
<1>1. TypeOK
  <2>1. [status |-> "NONE", claimed |-> FALSE, approvedBy |-> "none", origin |-> "none",
         action |-> "none"] \in RowType
    BY DEF RowType, Users, Origins
  <2> QED
    BY <2>1, IdleType DEF Init, TypeOK
<1>2. \A t \in Tasks : task[t].kind = "idle" /\ task[t].pc = "idle"
  BY DEF Init, Idle
<1>3. TaskInv /\ BootInv /\ ClaimInv
  BY <1>2 DEF Init, TaskInv, TaskOK, BootInv, ClaimInv, Working, PreSend
<1>4. RowInv /\ ReplyInv
  BY DEF Init, RowInv, RowOK, ReplyInv
<1> QED
  BY <1>1, <1>3, <1>4 DEF Inv

(***************************************************************************)
(* Every reachable state of the proposal machinery, for any number of      *)
(* proposals, nodes, tasks and crashes, satisfies the invariant.           *)
(***************************************************************************)
THEOREM Invariance == Spec => []Inv
<1>1. Init => Inv
  BY InvInit
<1>2. Inv /\ [Next]_vars => Inv'
  BY InvNext
<1> QED
  BY <1>1, <1>2, PTL DEF Spec

(***************************************************************************)
(* The type invariant of the action_proposals table, the running tasks and *)
(* the intent registry.                                                    *)
(***************************************************************************)
THEOREM TypeCorrect == Spec => []TypeOK
<1>1. Inv => TypeOK
  BY DEF Inv
<1> QED
  BY <1>1, Invariance, PTL

(***************************************************************************)
(* The INTENT of a proposal is written to a worker's socket at most once,  *)
(* whatever approvals, direct actions, profiling passes, crashes and       *)
(* start-up reconciliations interleave.                                    *)
(***************************************************************************)
THEOREM SentAtMostOnce == Spec => []AtMostOnce
<1>1. Inv => AtMostOnce
  BY DEF Inv, RowInv, RowOK, AtMostOnce
<1> QED
  BY <1>1, Invariance, PTL

-----------------------------------------------------------------------------
(* The human gate *)

(* A request past the checks of the approve endpoint is by a user who may  *)
(* approve the action, which its row keeps until the write.                *)
ApproverOK(t) ==
  task[t].pc = "normalize" =>
    /\ task[t].user \in Roles
    /\ row[task[t].prop].action = "destructive" => task[t].user = "admin"

(* Whatever can be dispatched was approved by somebody; a row that does    *)
(* not exist has no approver, one that does asks for an action.            *)
ApprovalOK(p) ==
  /\ row[p].status # "NONE" => row[p].action \in ActionClass
  /\ row[p].status = "NONE" => row[p].approvedBy = "none"
  /\ row[p].status = "APPROVED" \/ row[p].claimed \/ row[p].origin \in {"admin", "profile"}
       => row[p].approvedBy # "none"

(* The worker runs what was sent, once; a resolved future holds its word,  *)
(* and so do a successful result on its way to the table and the table.    *)
DeliveryOK(p) ==
  /\ worker[p] # "no" \/ p \in wire => sent[p] # 0
  /\ p \in wire => worker[p] = "no"
  /\ fut[p] \in {"ok", "fail"} => worker[p] = fut[p]
  /\ row[p].status = "EXECUTED" => worker[p] = "ok"
ResultOK(t) == task[t].pc = "persist" /\ task[t].res = "ok" => worker[task[t].prop] = "ok"

GateInv ==
  /\ \A t \in Tasks : ApproverOK(t) /\ ResultOK(t)
  /\ \A p \in Props : ApprovalOK(p) /\ DeliveryOK(p)

(* A step of the gate, or one it does not see.                             *)
GateStep == Gate!GateNext \/ UNCHANGED Gate!gateVars

-----------------------------------------------------------------------------
(* What most steps do: rows keep all but their status, and none becomes    *)
(* approved or executed; no task gets past the checks or a good result.    *)
RowsSame ==
  \A q \in Props :
    /\ row'[q].action = row[q].action /\ row'[q].approvedBy = row[q].approvedBy
    /\ row'[q].origin = row[q].origin /\ row'[q].claimed = row[q].claimed
    /\ \/ row'[q].status = row[q].status
       \/ row'[q].status \notin {"NONE", "APPROVED", "EXECUTED"} /\ row[q].status # "NONE"
TaskSame(u) ==
  \/ task'[u] = task[u]
  \/ task'[u].pc \notin {"normalize", "persist"}
  \/ task'[u].pc = "persist" /\ task'[u].res # "ok"
TasksSame == \A u \in Tasks : TaskSame(u)
FuturesTold == \A p \in Props : fut'[p] \in {"ok", "fail"} => fut'[p] \in {fut[p], worker[p]}

(* The gate sees only the action, the approver and the deliveries.         *)
LEMMA Unseen ==
  ASSUME \A q \in Props : row'[q].action = row[q].action /\ row'[q].approvedBy = row[q].approvedBy,
         sent' = sent
  PROVE  GateStep
  BY DEF GateStep, Gate!gateVars

(* Its approvals are steps of it.                                          *)
LEMMA GateApprove ==
  \A p \in Props, u \in Users \ {"none"} : Gate!Approve(p, u) => GateStep
  BY DEF GateStep, Gate!GateNext

(* The steps that do no more than that.                                    *)
LEMMA SameStep ==
  ASSUME Inv, GateInv, RowsSame, TasksSame, FuturesTold, UNCHANGED <<worker, sent>>,
         wire' \subseteq wire
  PROVE  GateInv' /\ GateStep
<1>1. ASSUME NEW t \in Tasks PROVE (ApproverOK(t) /\ ResultOK(t))'
  <2>1. ApproverOK(t) /\ ResultOK(t) /\ TaskOK(t) /\ TaskSame(t)
    BY DEF GateInv, Inv, TaskInv, TasksSame
  <2>2. CASE task'[t] = task[t]
    <3>1. task[t].pc = "normalize" => row'[task[t].prop].action = row[task[t].prop].action
      BY <2>1 DEF TaskOK, Working, Steps, RowsSame
    <3> QED
      BY <2>1, <2>2, <3>1 DEF ApproverOK, ResultOK
  <2> QED
    BY <2>1, <2>2 DEF ApproverOK, ResultOK, TaskSame
<1>2. ASSUME NEW p \in Props PROVE (ApprovalOK(p) /\ DeliveryOK(p))'
  <2>1. ApprovalOK(p) /\ DeliveryOK(p)
    BY DEF GateInv
  <2>2. ApprovalOK(p)'
    BY <2>1 DEF ApprovalOK, RowsSame
  <2>3. DeliveryOK(p)'
    BY <2>1 DEF DeliveryOK, RowsSame, FuturesTold
  <2> QED
    BY <2>2, <2>3
<1>3. GateStep
  BY Unseen DEF RowsSame
<1> QED
  BY <1>1, <1>2, <1>3 DEF GateInv

(* Ending, moving on and receiving no success are such task steps.         *)
LEMMA FinishSame == ASSUME TypeOK, NEW t \in Tasks, Finish(t) PROVE TasksSame
  BY FinishEffect DEF TasksSame, TaskSame, Others

LEMMA GotoSame ==
  ASSUME TypeOK, NEW t \in Tasks, NEW pc \in Steps \ {"normalize", "persist"}, Goto(t, pc)
  PROVE  TasksSame
  BY GotoEffect DEF TasksSame, TaskSame, Others

LEMMA ErrorSame == ASSUME TypeOK, NEW t \in Tasks, Got(t, "error") PROVE TasksSame
  BY GotEffect DEF TasksSame, TaskSame, Others, Results

(* An UPDATE to a status other than APPROVED and EXECUTED.                 *)
LEMMA StatusSame ==
  ASSUME TypeOK, NEW p \in Props, NEW s \in {"REJECTED", "FAILED"}, SetStatus(p, s)
  PROVE  RowsSame
<1>1. s \in Statuses /\ "NONE" \notin Statuses
  BY DEF Statuses
<1>2. /\ OtherRows(p) /\ SameRow(p) /\ row'[p].claimed = row[p].claimed
      /\ row'[p].approvedBy = row[p].approvedBy
      /\ IF Exists(p) THEN row'[p].status = s ELSE row'[p] = row[p]
  BY <1>1, SetStatusEffect
<1>3. \/ row'[p].status = row[p].status
      \/ row'[p].status = s /\ row[p].status # "NONE"
  BY <1>1, <1>2 DEF Exists
<1> QED
  BY <1>2, <1>3 DEF RowsSame, OtherRows, SameRow

-----------------------------------------------------------------------------
(* An approval is written: by who may, for a row that exists.              *)
LEMMA ApprovalStep ==
  ASSUME Inv, GateInv, NEW t \in Tasks, task[t].pc = "normalize",
         NEW s \in {"APPROVED", "FAILED"}, SetApproval(task[t].prop, s, task[t].user),
         TasksSame, UNCHANGED <<fut, wire, worker, sent>>
  PROVE  GateInv' /\ GateStep
<1> DEFINE p == task[t].prop
           u == task[t].user
<1>1. TypeOK /\ TaskOK(t) /\ ApproverOK(t)
  BY DEF Inv, GateInv, TaskInv
<1>2. p \in Props /\ u \in Roles /\ (row[p].action = "destructive" => u = "admin")
      /\ row[p].status # "NONE"
  BY <1>1 DEF TaskOK, ApproverOK, Working, Steps
<1>3. u \in Users /\ u # "none" /\ s \in Statuses /\ "NONE" \notin Statuses
  BY <1>2 DEF Users, Roles, Statuses
<1>4. /\ OtherRows(p) /\ SameRow(p) /\ row'[p].claimed = row[p].claimed
      /\ IF Exists(p) THEN row'[p].status = s /\ row'[p].approvedBy = u ELSE row'[p] = row[p]
      /\ row' \in [Props -> RowType]
  BY <1>1, <1>2, <1>3, SetApprovalEffect
<1>5. ApprovalOK(p) /\ row[p].action \in ActionClass
  BY <1>2 DEF GateInv, ApprovalOK
<1> HIDE DEF p, u
<1>6. GateInv'
  <2>1. ASSUME NEW v \in Tasks PROVE (ApproverOK(v) /\ ResultOK(v))'
    <3>1. ApproverOK(v) /\ ResultOK(v) /\ TaskOK(v) /\ TaskSame(v)
      BY DEF GateInv, Inv, TaskInv, TasksSame
    <3>2. CASE task'[v] = task[v]
      <4>1. \A q \in Props : row'[q].action = row[q].action
        BY <1>4 DEF OtherRows, SameRow
      <4>2. task[v].pc = "normalize" => row'[task[v].prop].action = row[task[v].prop].action
        BY <3>1, <4>1 DEF TaskOK, Working, Steps
      <4> QED
        BY <3>1, <3>2, <4>2 DEF ApproverOK, ResultOK
    <3> QED
      BY <3>1, <3>2 DEF ApproverOK, ResultOK, TaskSame
  <2>2. ASSUME NEW q \in Props PROVE (ApprovalOK(q) /\ DeliveryOK(q))'
    <3>1. ApprovalOK(q) /\ DeliveryOK(q)
      BY DEF GateInv
    <3>2. CASE q # p
      BY <1>4, <3>1, <3>2 DEF ApprovalOK, DeliveryOK, OtherRows
    <3>3. CASE q = p /\ ~ Exists(p)
      BY <1>4, <3>1, <3>3 DEF ApprovalOK, DeliveryOK
    <3>4. CASE q = p /\ Exists(p)
      BY <1>3, <1>4, <1>5, <3>1, <3>4 DEF ApprovalOK, DeliveryOK, SameRow
    <3> QED
      BY <3>2, <3>3, <3>4
  <2> QED
    BY <2>1, <2>2 DEF GateInv
<1>7. GateStep
  <2>1. CASE ~ Exists(p)
    BY <1>4, <2>1, Unseen DEF OtherRows
  <2>2. CASE Exists(p)
    <3>1. /\ [q \in Props |-> row'[q].action] = [q \in Props |-> row[q].action]
          /\ [q \in Props |-> row'[q].approvedBy]
               = [[q \in Props |-> row[q].approvedBy] EXCEPT ![p] = u]
      BY <1>2, <1>4, <2>2 DEF OtherRows, SameRow
    <3>2. <<row[p].action, u>> \in
            {e \in ActionClass \X (Users \ {"none"}) : e[1] = "destructive" => e[2] = "admin"}
      BY <1>2, <1>3, <1>5
    <3>3. PICK q \in Props, w \in Users \ {"none"} : q = p /\ w = u
      BY <1>2, <1>3
    <3>4. Gate!Approve(q, w)
      BY <3>1, <3>2, <3>3 DEF Gate!Approve
    <3> QED
      BY <3>4, GateApprove
  <2> QED
    BY <2>1, <2>2
<1> QED
  BY <1>6, <1>7

(* A row is inserted, approved by u at once or, with u "none", pending.    *)
LEMMA InsertStep ==
  ASSUME Inv, GateInv, NEW p \in Props, NEW s \in {"PENDING", "APPROVED"},
         NEW u \in Users, NEW o \in Origins, NEW a \in ActionClass,
         Insert(p, s, u, o, a), s = "PENDING" <=> u = "none", s = "PENDING" => o = "chat",
         u # "none" => (a = "destructive" => u = "admin"),
         TasksSame, UNCHANGED <<fut, wire, worker, sent>>
  PROVE  GateInv' /\ GateStep
<1>1. TypeOK /\ s \in Statuses /\ RowOK(p)
  BY DEF Inv, RowInv, Statuses
<1>2. /\ row[p].status = "NONE" /\ OtherRows(p)
      /\ row'[p].status = s /\ ~row'[p].claimed /\ row'[p].approvedBy = u
      /\ row'[p].origin = o /\ row'[p].action = a
  BY <1>1, InsertEffect
<1>3. row[p].action = "none" /\ row[p].approvedBy = "none"
  BY <1>1, <1>2 DEF RowOK, GateInv, ApprovalOK
<1>4. GateInv'
  <2>1. ASSUME NEW v \in Tasks PROVE (ApproverOK(v) /\ ResultOK(v))'
    <3>1. ApproverOK(v) /\ ResultOK(v) /\ TaskOK(v) /\ TaskSame(v)
      BY DEF GateInv, Inv, TaskInv, TasksSame
    <3>2. CASE task'[v] = task[v]
      <4>1. task[v].pc = "normalize" => task[v].prop \in Props \ {p}
        BY <1>2, <3>1 DEF TaskOK, Working, Steps
      <4> QED
        BY <1>2, <3>1, <3>2, <4>1 DEF ApproverOK, ResultOK, OtherRows
    <3> QED
      BY <3>1, <3>2 DEF ApproverOK, ResultOK, TaskSame
  <2>2. ASSUME NEW q \in Props PROVE (ApprovalOK(q) /\ DeliveryOK(q))'
    <3>1. ApprovalOK(q) /\ DeliveryOK(q)
      BY DEF GateInv
    <3>2. CASE q # p
      BY <1>2, <3>1, <3>2 DEF ApprovalOK, DeliveryOK, OtherRows
    <3>3. CASE q = p
      BY <1>2, <3>1, <3>3 DEF ApprovalOK, DeliveryOK, Origins
    <3> QED
      BY <3>2, <3>3
  <2> QED
    BY <2>1, <2>2 DEF GateInv
<1>5. GateStep
  <2>1. [q \in Props |-> row'[q].action] = [[q \in Props |-> row[q].action] EXCEPT ![p] = a]
    BY <1>2 DEF OtherRows
  <2>2. CASE u = "none"
    <3>1. [q \in Props |-> row'[q].approvedBy] = [q \in Props |-> row[q].approvedBy]
      BY <1>2, <1>3, <2>2 DEF OtherRows
    <3>2. Gate!Ask(p, a)
      BY <1>3, <2>1, <3>1 DEF Gate!Ask
    <3> QED
      BY <3>2 DEF GateStep, Gate!GateNext
  <2>3. CASE u # "none"
    <3>1. [q \in Props |-> row'[q].approvedBy]
            = [[q \in Props |-> row[q].approvedBy] EXCEPT ![p] = u]
      BY <1>2 DEF OtherRows
    <3>2. <<a, u>> \in
            {e \in ActionClass \X (Users \ {"none"}) : e[1] = "destructive" => e[2] = "admin"}
      BY <2>3
    <3>3. Gate!AskApproved(p, a, u)
      BY <1>3, <2>1, <3>1, <3>2 DEF Gate!AskApproved
    <3> QED
      BY <2>3, <3>3 DEF GateStep, Gate!GateNext
  <2> QED
    BY <2>2, <2>3
<1> QED
  BY <1>4, <1>5

(* A started task is one that is not past the approve endpoint's checks.   *)
LEMMA StartSame ==
  ASSUME TypeOK, NEW t \in Tasks, NEW k \in Kinds, NEW pc \in Steps \ {"normalize", "persist"},
         NEW p \in Props, NEW u \in Users, Start(t, k, pc, p, u)
  PROVE  TasksSame
  BY StartEffect DEF TasksSame, TaskSame, Others

-----------------------------------------------------------------------------
(* The steps that are seen, or that bear a result.                         *)

(* The claim is of an approved row.                                        *)
LEMMA ClaimStep == ASSUME Inv, GateInv, NEW t \in Tasks, DispatchClaim(t) PROVE GateInv' /\ GateStep
<1> DEFINE p == task[t].prop
<1>1. TypeOK /\ TaskOK(t) /\ UNCHANGED <<fut, wire, worker, sent>>
  BY DEF Inv, TaskInv, DispatchClaim, netVars
<1>2. p \in Props
  BY <1>1 DEF TaskOK, DispatchClaim, Working, Steps
<1>3. CASE ~ CanClaim(p)
  <2>1. Finish(t) /\ row' = row
    BY <1>3 DEF DispatchClaim
  <2>2. RowsSame /\ TasksSame /\ FuturesTold
    BY <1>1, <2>1, FinishSame DEF RowsSame, FuturesTold
  <2> QED
    BY <1>1, <2>2, SameStep
<1>4. CASE CanClaim(p)
  <2>1. row' = [row EXCEPT ![p].claimed = TRUE] /\ Goto(t, "send")
    BY <1>4 DEF DispatchClaim
  <2>2. /\ OtherRows(p) /\ SameRow(p) /\ row'[p].approvedBy = row[p].approvedBy
        /\ row'[p].status = row[p].status
    BY <1>1, <1>2, <2>1, ClaimEffect
  <2>3. TasksSame
    BY <1>1, <2>1, GotoSame DEF Steps
  <2>4. row[p].status = "APPROVED"
    BY <1>4 DEF CanClaim
  <2> HIDE DEF p
  <2>5. GateInv'
    <3>1. ASSUME NEW v \in Tasks PROVE (ApproverOK(v) /\ ResultOK(v))'
      <4>1. ApproverOK(v) /\ ResultOK(v) /\ TaskOK(v) /\ TaskSame(v)
        BY <2>3 DEF GateInv, Inv, TaskInv, TasksSame
      <4>2. CASE task'[v] = task[v]
        <5>1. \A q \in Props : row'[q].action = row[q].action
          BY <2>2 DEF OtherRows, SameRow
        <5>2. task[v].pc = "normalize" => row'[task[v].prop].action = row[task[v].prop].action
          BY <4>1, <5>1 DEF TaskOK, Working, Steps
        <5> QED
          BY <1>1, <4>1, <4>2, <5>2 DEF ApproverOK, ResultOK
      <4> QED
        BY <4>1, <4>2 DEF ApproverOK, ResultOK, TaskSame
    <3>2. ASSUME NEW q \in Props PROVE (ApprovalOK(q) /\ DeliveryOK(q))'
      <4>1. ApprovalOK(q) /\ DeliveryOK(q)
        BY DEF GateInv
      <4>2. CASE q # p
        BY <1>1, <2>2, <4>1, <4>2 DEF ApprovalOK, DeliveryOK, OtherRows
      <4>3. CASE q = p
        BY <1>1, <2>2, <2>4, <4>1, <4>3 DEF ApprovalOK, DeliveryOK, SameRow
      <4> QED
        BY <4>2, <4>3
    <3> QED
      BY <3>1, <3>2 DEF GateInv
  <2>6. GateStep
    BY <1>1, <2>2, Unseen DEF OtherRows, SameRow
  <2> QED
    BY <2>5, <2>6
<1> QED
  BY <1>3, <1>4

(* The INTENT goes out: the gate's delivery.                               *)
LEMMA DeliverStep == ASSUME Inv, GateInv, NEW t \in Tasks, SendWire(t) PROVE GateInv' /\ GateStep
<1> DEFINE p == task[t].prop
<1>1. TypeOK /\ TaskOK(t) /\ task[t].pc = "sending"
      /\ row' = row /\ fut' = fut /\ worker' = worker
  BY DEF Inv, TaskInv, SendWire, dbVars
<1>2. p \in Props
  BY <1>1 DEF TaskOK, Working, Steps
<1>3. sent[p] = 0 /\ (row[p].claimed \/ row[p].origin = "profile")
  BY <1>1 DEF Inv, ClaimInv, PreSend, TaskOK, Working, Steps
<1>4. row[p].approvedBy # "none" /\ worker[p] = "no"
  BY <1>2, <1>3 DEF GateInv, ApprovalOK, DeliveryOK
<1>5. wire' = wire \cup {p} /\ sent' = [sent EXCEPT ![p] = 1]
  BY <1>3 DEF SendWire
<1>6. TasksSame
  BY <1>1, GotoSame DEF SendWire, Steps
<1> HIDE DEF p
<1>7. GateInv'
  <2>1. ASSUME NEW v \in Tasks PROVE (ApproverOK(v) /\ ResultOK(v))'
    <3>1. ApproverOK(v) /\ ResultOK(v) /\ TaskSame(v)
      BY <1>6 DEF GateInv, TasksSame
    <3> QED
      BY <1>1, <3>1 DEF ApproverOK, ResultOK, TaskSame
  <2>2. ASSUME NEW q \in Props PROVE (ApprovalOK(q) /\ DeliveryOK(q))'
    <3>1. ApprovalOK(q) /\ DeliveryOK(q)
      BY DEF GateInv
    <3>2. sent \in [Props -> Nat]
      BY <1>1 DEF TypeOK
    <3> QED
      BY <1>1, <1>4, <1>5, <3>1, <3>2 DEF ApprovalOK, DeliveryOK
  <2> QED
    BY <2>1, <2>2 DEF GateInv
<1>8. Gate!Deliver(p)
  BY <1>1, <1>2, <1>3, <1>4, <1>5 DEF Gate!Deliver
<1>9. \A q \in Props : Gate!Deliver(q) => GateStep
  BY DEF GateStep, Gate!GateNext
<1> QED
  BY <1>2, <1>7, <1>8, <1>9

(* A result is taken from the future, which has the worker's word.         *)
LEMMA ResultStep == ASSUME Inv, GateInv, NEW t \in Tasks, WaitResult(t) PROVE GateInv' /\ GateStep
<1> DEFINE p == task[t].prop
<1>1. /\ TypeOK /\ TaskOK(t) /\ task[t].pc = "wait"
      /\ row' = row /\ worker' = worker /\ sent' = sent /\ wire' = wire
  BY DEF Inv, TaskInv, WaitResult, dbVars, netVars
<1>2. p \in Props /\ fut[p] \in {"ok", "fail"} /\ Got(t, fut[p])
      /\ fut' = [fut EXCEPT ![p] = "none"]
  BY <1>1 DEF TaskOK, WaitResult, Deregister, Working, Steps
<1>3. Others(t) /\ task'[t].prop = p /\ task'[t].pc = "persist" /\ task'[t].res = fut[p]
  BY <1>1, <1>2, GotEffect DEF Results, Same
<1>4. worker[p] = fut[p]
  BY <1>2 DEF GateInv, DeliveryOK
<1> HIDE DEF p
<1>5. ASSUME NEW v \in Tasks PROVE (ApproverOK(v) /\ ResultOK(v))'
  <2>1. ApproverOK(v) /\ ResultOK(v)
    BY DEF GateInv
  <2>2. CASE v # t
    BY <1>1, <1>3, <2>1, <2>2 DEF ApproverOK, ResultOK, Others
  <2>3. CASE v = t
    BY <1>1, <1>3, <1>4, <2>3 DEF ApproverOK, ResultOK
  <2> QED
    BY <2>2, <2>3
<1>6. ASSUME NEW q \in Props PROVE (ApprovalOK(q) /\ DeliveryOK(q))'
  <2>1. ApprovalOK(q) /\ DeliveryOK(q) /\ fut \in [Props -> {"none", "pending", "ok", "fail", "cancelled"}]
    BY <1>1 DEF GateInv, TypeOK
  <2> QED
    BY <1>1, <1>2, <2>1 DEF ApprovalOK, DeliveryOK
<1>7. GateStep
  BY <1>1, Unseen
<1> QED
  BY <1>5, <1>6, <1>7 DEF GateInv

(* The outcome is written to the table.                                    *)
LEMMA PersistStep == ASSUME Inv, GateInv, NEW t \in Tasks, Persist(t) PROVE GateInv' /\ GateStep
<1> DEFINE p == task[t].prop
<1>1. /\ TypeOK /\ TaskOK(t) /\ task[t].pc = "persist" /\ Goto(t, "audit")
      /\ fut' = fut /\ worker' = worker /\ sent' = sent /\ wire' = wire
  BY DEF Inv, TaskInv, Persist, netVars
<1>2. p \in Props /\ SetStatus(p, Outcome(t)) /\ row[p].status # "NONE"
  BY <1>1 DEF TaskOK, Persist, Working, Steps
<1>3. Outcome(t) \in {"EXECUTED", "FAILED", "APPROVED"} /\ Outcome(t) \in Statuses
  BY DEF Outcome, Statuses
<1>4. /\ OtherRows(p) /\ SameRow(p) /\ row'[p].claimed = row[p].claimed
      /\ row'[p].approvedBy = row[p].approvedBy
      /\ IF Exists(p) THEN row'[p].status = Outcome(t) ELSE row'[p] = row[p]
  BY <1>1, <1>2, <1>3, SetStatusEffect
<1>5. Outcome(t) = "EXECUTED" => worker[p] = "ok"
  BY <1>1 DEF Outcome, GateInv, ResultOK
<1>6. Outcome(t) = "APPROVED" => row[p].origin = "profile"
  BY <1>1 DEF Outcome, TaskOK, Working, Steps
<1>7. TasksSame
  BY <1>1, GotoSame DEF Steps
<1> HIDE DEF p
<1>8. ASSUME NEW v \in Tasks PROVE (ApproverOK(v) /\ ResultOK(v))'
  <2>1. ApproverOK(v) /\ ResultOK(v) /\ TaskOK(v) /\ TaskSame(v)
    BY <1>7 DEF GateInv, Inv, TaskInv, TasksSame
  <2>2. \A q \in Props : row'[q].action = row[q].action
    BY <1>4 DEF OtherRows, SameRow
  <2>3. task[v].pc = "normalize" => row'[task[v].prop].action = row[task[v].prop].action
    BY <2>1, <2>2 DEF TaskOK, Working, Steps
  <2> QED
    BY <1>1, <2>1, <2>3 DEF ApproverOK, ResultOK, TaskSame
<1>9. ASSUME NEW q \in Props PROVE (ApprovalOK(q) /\ DeliveryOK(q))'
  <2>1. ApprovalOK(q) /\ DeliveryOK(q)
    BY DEF GateInv
  <2>2. CASE q # p
    BY <1>1, <1>4, <2>1, <2>2 DEF ApprovalOK, DeliveryOK, OtherRows
  <2>3. CASE q = p /\ ~ Exists(p)
    BY <1>1, <1>4, <2>1, <2>3 DEF ApprovalOK, DeliveryOK
  <2>4. CASE q = p /\ Exists(p)
    BY <1>1, <1>2, <1>3, <1>4, <1>5, <1>6, <2>1, <2>4 DEF ApprovalOK, DeliveryOK, SameRow
  <2> QED
    BY <2>2, <2>3, <2>4
<1>10. GateStep
  BY <1>1, <1>4, Unseen DEF OtherRows, SameRow
<1> QED
  BY <1>8, <1>9, <1>10 DEF GateInv

(* The worker runs an INTENT it has not run before.                        *)
LEMMA ExecuteStep == ASSUME Inv, GateInv, NEW p \in Props, WorkerExecute(p) PROVE GateInv' /\ GateStep
<1>1. TypeOK /\ row' = row /\ task' = task /\ fut' = fut /\ sent' = sent
  BY DEF Inv, WorkerExecute, dbVars
<1>2. PICK o \in {"ok", "fail"} : worker' = [worker EXCEPT ![p] = o]
  BY DEF WorkerExecute
<1>3. p \in wire /\ wire' = wire \ {p} /\ worker[p] = "no"
  BY DEF WorkerExecute, GateInv, DeliveryOK
<1>4. ASSUME NEW v \in Tasks PROVE (ApproverOK(v) /\ ResultOK(v))'
  <2>1. ApproverOK(v) /\ ResultOK(v) /\ TaskOK(v) /\ worker \in [Props -> {"no", "ok", "fail"}]
    BY <1>1 DEF GateInv, Inv, TaskInv, TypeOK
  <2>2. task[v].pc = "persist" => task[v].prop \in Props
    BY <2>1 DEF TaskOK, Working, Steps
  <2> QED
    BY <1>1, <1>2, <1>3, <2>1, <2>2 DEF ApproverOK, ResultOK
<1>5. ASSUME NEW q \in Props PROVE (ApprovalOK(q) /\ DeliveryOK(q))'
  <2>1. ApprovalOK(q) /\ DeliveryOK(q) /\ worker \in [Props -> {"no", "ok", "fail"}]
    BY <1>1 DEF GateInv, TypeOK
  <2> QED
    BY <1>1, <1>2, <1>3, <2>1 DEF ApprovalOK, DeliveryOK
<1>6. GateStep
  BY <1>1, Unseen
<1> QED
  BY <1>4, <1>5, <1>6 DEF GateInv

(* The request passes the checks of the approve endpoint.                  *)
LEMMA LoadStep ==
  ASSUME Inv, GateInv, NEW t \in Tasks, NEW p \in Props, NEW u \in Roles, ApproveLoad(t, p, u)
  PROVE  GateInv' /\ GateStep
<1>1. /\ TypeOK /\ ~ Refused(p, u) /\ Start(t, "approve", "normalize", p, u)
      /\ row' = row /\ fut' = fut /\ worker' = worker /\ sent' = sent /\ wire' = wire
  BY DEF Inv, ApproveLoad, dbVars, netVars
<1>2. Others(t) /\ task'[t].pc = "normalize" /\ task'[t].prop = p /\ task'[t].user = u
  BY <1>1, StartEffect DEF Kinds, Steps, Users
<1>3. row[p].action = "destructive" => u = "admin"
  BY <1>1 DEF Refused
<1>4. ASSUME NEW v \in Tasks PROVE (ApproverOK(v) /\ ResultOK(v))'
  BY <1>1, <1>2, <1>3 DEF GateInv, ApproverOK, ResultOK, Others
<1>5. ASSUME NEW q \in Props PROVE (ApprovalOK(q) /\ DeliveryOK(q))'
  BY <1>1 DEF GateInv, ApprovalOK, DeliveryOK
<1>6. GateStep
  BY <1>1, Unseen
<1> QED
  BY <1>4, <1>5, <1>6 DEF GateInv

-----------------------------------------------------------------------------
(* One step per action.                                                    *)
LEMMA GateNext == ASSUME Inv, GateInv, [Next]_vars PROVE GateInv' /\ GateStep
<1> USE DEF dbVars, netVars, procVars
<1>0. TypeOK
  BY DEF Inv
<1>p. \A t \in Tasks : task[t].pc \in Working => task[t].prop \in Props
  BY DEF Inv, TaskInv, TaskOK
<1>s. ASSUME row' = row, TasksSame, UNCHANGED <<fut, worker, sent>>, wire' \subseteq wire
      PROVE  GateInv' /\ GateStep
  <2>1. RowsSame /\ FuturesTold
    BY <1>s DEF RowsSame, FuturesTold
  <2> QED
    BY <1>s, <2>1, SameStep
<1>d. ASSUME NEW p \in Props, Deregister(p) PROVE FuturesTold
  BY <1>0, <1>d DEF Deregister, FuturesTold, TypeOK
<1>1. ASSUME NEW t \in Tasks, ApproveInvalid(t) \/ ApproveWrite(t) PROVE GateInv' /\ GateStep
  <2>1. TasksSame
    BY <1>0, <1>1, GotoSame DEF ApproveInvalid, ApproveWrite, Steps
  <2> QED
    BY <1>1, <2>1, ApprovalStep DEF ApproveInvalid, ApproveWrite
<1>2. ASSUME NEW t \in Tasks,
             \/ ApproveAborted(t) \/ ApproveAudit(t) \/ RejectAudit(t)
             \/ DispatchLoad(t) \/ DispatchAudit(t)
      PROVE  GateInv' /\ GateStep
  <2>1. TasksSame
    BY <1>0, <1>2, FinishSame, GotoSame
       DEF ApproveAborted, ApproveAudit, RejectAudit, DispatchLoad, DispatchAudit, Steps
  <2> QED
    BY <1>2, <1>s, <2>1 DEF ApproveAborted, ApproveAudit, RejectAudit, DispatchLoad, DispatchAudit
<1>3. ASSUME NEW t \in Tasks, RejectWrite(t) PROVE GateInv' /\ GateStep
  <2>1. TasksSame
    BY <1>0, <1>3, GotoSame DEF RejectWrite, Steps
  <2>2. task[t].prop \in Props
    BY <1>3, <1>p DEF RejectWrite, Working, Steps
  <2>3. RowsSame /\ FuturesTold
    BY <1>0, <1>3, <2>2, StatusSame DEF RejectWrite, FuturesTold
  <2> QED
    BY <1>3, <2>1, <2>3, SameStep DEF RejectWrite
<1>4. ASSUME NEW t \in Tasks, ExpireDone(t) \/ ReconcileDone(t) PROVE GateInv' /\ GateStep
  <2>1. TasksSame
    BY <1>0, <1>4, IdleType, ReplaceEffect
       DEF ExpireDone, ReconcileDone, TasksSame, TaskSame, Others, Idle
  <2> QED
    BY <1>4, <1>s, <2>1 DEF ExpireDone, ReconcileDone
<1>5. ASSUME NEW t \in Tasks, SendRegister(t) PROVE GateInv' /\ GateStep
  <2>1. TasksSame
    BY <1>0, <1>5, GotoSame, ErrorSame DEF SendRegister, Steps
  <2>2. RowsSame /\ FuturesTold
    BY <1>0, <1>5 DEF SendRegister, RowsSame, FuturesTold, TypeOK
  <2> QED
    BY <1>5, <2>1, <2>2, SameStep DEF SendRegister
<1>6. ASSUME NEW t \in Tasks, SendRaises(t) PROVE GateInv' /\ GateStep
  <2>1. TasksSame
    BY <1>0, <1>6, FinishSame, ErrorSame DEF SendRaises
  <2> QED
    BY <1>6, <1>s, <2>1 DEF SendRaises
<1>7. ASSUME NEW t \in Tasks, WaitTimeout(t) \/ WaitCancelled(t) PROVE GateInv' /\ GateStep
  <2>1. TasksSame
    BY <1>0, <1>7, FinishSame, ErrorSame DEF WaitTimeout, WaitCancelled
  <2>2. task[t].prop \in Props
    BY <1>7, <1>p DEF WaitTimeout, WaitCancelled, Working, Steps
  <2>3. RowsSame /\ FuturesTold
    BY <1>7, <1>d, <2>2 DEF WaitTimeout, WaitCancelled, RowsSame
  <2> QED
    BY <1>7, <2>1, <2>3, SameStep DEF WaitTimeout, WaitCancelled
<1>8. ASSUME NEW t \in Tasks, NEW p \in Props, ExpireCancel(t, p) \/ ReconcileNext(t, p)
      PROVE  GateInv' /\ GateStep
  <2>1. TasksSame
    BY <1>0, <1>8, TakeEffect DEF ExpireCancel, ReconcileNext, TasksSame, TaskSame, Others, Steps
  <2> QED
    BY <1>8, <1>s, <2>1 DEF ExpireCancel, ReconcileNext
<1>9. ASSUME NEW t \in Tasks, NEW p \in Props, ExpireSkip(t, p) PROVE GateInv' /\ GateStep
  <2>1. Others(t) /\ task'[t].pc = "loop"
    BY <1>0, <1>9 DEF ExpireSkip, TypeOK, TaskType, Others
  <2>2. TasksSame
    BY <2>1 DEF TasksSame, TaskSame, Others
  <2> QED
    BY <1>9, <1>s, <2>2 DEF ExpireSkip
<1>10. ASSUME NEW t \in Tasks, ExpireLoad(t) \/ Boot(t) PROVE GateInv' /\ GateStep
  <2>1. \A T \in SUBSET Props : \A k \in {"expire", "reconcile"} :
          [Idle EXCEPT !.kind = k, !.pc = "loop", !.user = "system", !.todo = T].pc = "loop"
    BY DEF Idle
  <2>2. PICK r : task' = [task EXCEPT ![t] = r] /\ r.pc = "loop"
    <3>1. PICK k \in {"expire", "reconcile"}, T \in SUBSET Props :
            task' = [task EXCEPT ![t] = [Idle EXCEPT !.kind = k, !.pc = "loop", !.user = "system",
                                                     !.todo = T]]
      BY <1>10 DEF ExpireLoad, Boot
    <3> QED
      BY <2>1, <3>1
  <2>3. TasksSame
    BY <1>0, <2>2 DEF TasksSame, TaskSame, TypeOK
  <2> QED
    BY <1>10, <1>s, <2>3 DEF ExpireLoad, Boot
<1>11. ASSUME NEW t \in Tasks, NEW p \in Props, ProfileInsert(t, p) PROVE GateInv' /\ GateStep
  <2>1. TasksSame
    BY <1>0, <1>11, StartSame DEF ProfileInsert, Kinds, Steps, Users, Roles
  <2>2. /\ Insert(p, "APPROVED", "system", "profile", "plain")
        /\ UNCHANGED <<fut, wire, worker, sent>>
    BY <1>11 DEF ProfileInsert
  <2> QED
    BY <2>1, <2>2, InsertStep DEF Users, Origins, ActionClass
<1>12. ASSUME NEW t \in Tasks, NEW p \in Props, NEW u \in Roles, RejectLoad(t, p, u)
       PROVE  GateInv' /\ GateStep
  <2>1. TasksSame
    BY <1>0, <1>12, StartSame DEF RejectLoad, Kinds, Steps, Users, Roles
  <2> QED
    BY <1>12, <1>s, <2>1 DEF RejectLoad
<1>13. ASSUME NEW t \in Tasks, NEW p \in Props, NEW a \in ActionClass,
              NEW u \in Roles \cup {"system"}, AdminInsert(t, p, a, u)
       PROVE  GateInv' /\ GateStep
  <2>1. u \in Users /\ u # "none"
    BY DEF Users, Roles
  <2>2. TasksSame
    BY <1>0, <1>13, <2>1, StartSame DEF AdminInsert, Kinds, Steps
  <2>3. Insert(p, "APPROVED", u, "admin", a) /\ UNCHANGED <<fut, wire, worker, sent>>
        /\ (a = "destructive" => u = "admin")
    BY <1>13 DEF AdminInsert, DirectAllowed
  <2> QED
    BY <2>1, <2>2, <2>3, InsertStep DEF Origins
<1>14. ASSUME NEW p \in Props, NEW a \in ActionClass, Propose(p, a) PROVE GateInv' /\ GateStep
  <2>1. Insert(p, "PENDING", "none", "chat", a) /\ UNCHANGED <<fut, wire, worker, sent>>
    BY <1>14 DEF Propose
  <2>2. TasksSame
    BY <1>14 DEF Propose, TasksSame, TaskSame
  <2> QED
    BY <2>1, <2>2, InsertStep DEF Users, Origins
<1>15. ASSUME UNCHANGED <<row, task, fut, worker, sent>>, wire' \subseteq wire
       PROVE  GateInv' /\ GateStep
  BY <1>15, <1>s DEF TasksSame, TaskSame
<1>16. ASSUME NEW p \in Props, NEW u \in Roles, ApproveRefused(p, u) PROVE GateInv' /\ GateStep
  BY <1>15, <1>16 DEF ApproveRefused
<1>17. ASSUME NEW S, Cancel(S), UNCHANGED <<row, task, worker, sent, wire>>
       PROVE  GateInv' /\ GateStep
  <2>1. RowsSame /\ TasksSame /\ FuturesTold
    BY <1>17 DEF Cancel, RowsSame, TasksSame, TaskSame, FuturesTold
  <2> QED
    BY <1>17, <2>1, SameStep
<1>18. ASSUME NEW p \in Props, CleanupStaleIntent(p) PROVE GateInv' /\ GateStep
  BY <1>17, <1>18 DEF CleanupStaleIntent
<1>19. ASSUME NEW n \in Nodes, Disconnect(n) PROVE GateInv' /\ GateStep
  BY <1>17, <1>19 DEF Disconnect
<1>20. ASSUME NEW p \in Props, LoseMessage(p) PROVE GateInv' /\ GateStep
  BY <1>15, <1>20 DEF LoseMessage
<1>21. ASSUME NEW p \in Props, IntentResult(p) PROVE GateInv' /\ GateStep
  <2>1. RowsSame /\ TasksSame /\ FuturesTold
    BY <1>0, <1>21 DEF IntentResult, RowsSame, TasksSame, TaskSame, FuturesTold, TypeOK
  <2> QED
    BY <1>21, <2>1, SameStep DEF IntentResult
<1>22. ASSUME NEW n \in Nodes, Connect(n) \/ DropDeleted(n) PROVE GateInv' /\ GateStep
  BY <1>15, <1>22 DEF Connect, DropDeleted
<1>23. ASSUME NEW n \in Nodes, DeleteNode(n) PROVE GateInv' /\ GateStep
  <2>1. \A r \in RowType : LET x == [r EXCEPT !.status = "GONE"]
                           IN  /\ x.status = "GONE" /\ x.origin = r.origin /\ x.action = r.action
                               /\ x.claimed = r.claimed /\ x.approvedBy = r.approvedBy
    BY DEF RowType
  <2>2. ASSUME NEW q \in Props PROVE RowsSame!(q)
    <3>1. row[q] \in RowType
      BY <1>0 DEF TypeOK
    <3>2. \/ row'[q] = row[q]
          \/ row[q].status \in Statuses /\ row'[q] = [row[q] EXCEPT !.status = "GONE"]
      BY <1>23 DEF DeleteNode, Exists
    <3> QED
      BY <2>1, <3>1, <3>2 DEF Statuses
  <2>3. RowsSame
    BY <2>2 DEF RowsSame
  <2>4. TasksSame /\ FuturesTold
    BY <1>23 DEF DeleteNode, TasksSame, TaskSame, FuturesTold
  <2> QED
    BY <1>23, <2>3, <2>4, SameStep DEF DeleteNode
<1>24. ASSUME Crash PROVE GateInv' /\ GateStep
  <2>1. RowsSame /\ TasksSame /\ FuturesTold
    BY <1>24 DEF Crash, RowsSame, TasksSame, TaskSame, FuturesTold, Idle
  <2> QED
    BY <1>24, <2>1, SameStep DEF Crash
<1>25. CASE UNCHANGED vars
  BY <1>15, <1>25 DEF vars
<1>26. ASSUME NEW t \in Tasks, DatabaseLocked(t) PROVE GateInv' /\ GateStep
  <2>1. CASE task[t].kind = "reconcile"
    <3>1. Finish(t)
      BY <1>26, <2>1 DEF DatabaseLocked, Finish
    <3>2. TasksSame
      BY <1>0, <3>1, FinishSame
    <3> QED
      BY <1>26, <1>s, <3>2 DEF DatabaseLocked
  <2>2. CASE task[t].kind # "reconcile"
    <3>1. task' = [task EXCEPT ![t] = Idle]
      BY <1>26, <2>2 DEF DatabaseLocked
    <3>2. TasksSame
      BY <1>0, <3>1, IdleType, ReplaceEffect DEF TasksSame, TaskSame, Others, Idle
    <3> QED
      BY <1>26, <1>s, <3>2 DEF DatabaseLocked
  <2> QED
    BY <2>1, <2>2
<1>27. ASSUME NEW t \in Tasks, BootLocked(t) PROVE GateInv' /\ GateStep
  <2>1. [Idle EXCEPT !.kind = "reconcile", !.pc = "loop", !.user = "system"].pc = "loop"
    BY DEF Idle
  <2>2. PICK r : task' = [task EXCEPT ![t] = r] /\ r.pc = "loop"
    BY <1>27, <2>1 DEF BootLocked
  <2>3. TasksSame
    BY <1>0, <2>2 DEF TasksSame, TaskSame, TypeOK
  <2> QED
    BY <1>27, <1>s, <2>3 DEF BootLocked
<1> QED
  BY <1>26, <1>27, <1>1, <1>2, <1>3, <1>4, <1>5, <1>6, <1>7, <1>8, <1>9, <1>10, <1>11, <1>12, <1>13, <1>14, <1>16,
     <1>18, <1>19, <1>20, <1>21, <1>22, <1>23, <1>24, <1>25,
     ClaimStep, DeliverStep, ResultStep, PersistStep, ExecuteStep, LoadStep
     DEF Next, TaskStep, TaskStart, Environment

(* The blank table satisfies the invariant, and is the closed gate.        *)
LEMMA GateInit == Init => GateInv /\ Gate!GateInit
<1> SUFFICES ASSUME Init PROVE GateInv /\ Gate!GateInit
  OBVIOUS
<1>1. \A t \in Tasks : task[t].pc = "idle"
  BY DEF Init, Idle
<1>2. \A t \in Tasks : ApproverOK(t) /\ ResultOK(t)
  BY <1>1 DEF ApproverOK, ResultOK
<1>3. \A p \in Props : ApprovalOK(p) /\ DeliveryOK(p)
  BY DEF Init, ApprovalOK, DeliveryOK
<1>4. Gate!GateInit
  BY DEF Init, Gate!GateInit
<1> QED
  BY <1>2, <1>3, <1>4 DEF GateInv

-----------------------------------------------------------------------------
(* The invariant of the gate holds in every reachable state.               *)
THEOREM GateInvariance == Spec => []GateInv
<1>1. Init => GateInv
  BY GateInit
<1>2. Inv /\ GateInv /\ [Next]_vars => GateInv'
  BY GateNext
<1> QED
  BY <1>1, <1>2, Invariance, PTL DEF Spec

(***************************************************************************)
(* The proposal machinery implements HitlGate: an INTENT is written only   *)
(* for an action somebody entitled to it approved, once, and the action is *)
(* the one that was asked for; approve, dispatch_admin_action, profiling   *)
(* and start-up reconciliation included.                                   *)
(***************************************************************************)
THEOREM Implements == Spec => GateHolds
<1>1. Init => Gate!GateInit
  BY GateInit
<1>2. Inv /\ GateInv /\ [Next]_vars => [Gate!GateNext]_(Gate!gateVars)
  BY GateNext DEF GateStep
<1> QED
  BY <1>1, <1>2, Invariance, GateInvariance, PTL DEF Spec, GateHolds, Gate!GateSpec

(***************************************************************************)
(* complete_intent writes EXECUTED only of an intent that was sent once    *)
(* and that the worker reported done.                                      *)
(***************************************************************************)
THEOREM OnlyRealExecutions == Spec => []ExecutedIsReal
<1>1. Inv /\ GateInv => ExecutedIsReal
  <2> SUFFICES ASSUME Inv, GateInv, NEW p \in Props, row[p].status = "EXECUTED"
               PROVE  worker[p] = "ok" /\ sent[p] = 1
    BY DEF ExecutedIsReal
  <2>1. worker[p] = "ok" /\ sent[p] # 0
    BY DEF GateInv, DeliveryOK
  <2>2. sent[p] \in Nat /\ sent[p] <= 1
    BY DEF Inv, TypeOK, RowInv, RowOK
  <2> QED
    BY <2>1, <2>2
<1> QED
  BY <1>1, Invariance, GateInvariance, PTL
=============================================================================
