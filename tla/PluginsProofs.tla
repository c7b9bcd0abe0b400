---------------------------- MODULE PluginsProofs ----------------------------
(***************************************************************************)
(* Proofs about Plugins, for any number of requests at the same time, of   *)
(* hook calls and of restarts: no load registers the hooks of the plugin   *)
(* beside those of another, but for the subscriptions that an unload or a  *)
(* failed start-up left without a state entry.                             *)
(***************************************************************************)
EXTENDS Plugins, TLAPS

(* A failed load is being unloaded, with the lock still held.              *)
FailedInv ==
  \A o \in Ops : op[o].failed => op[o].pc \in {"drain", "stop", "persist", "failed"}

(* A request between the second look of load_plugin and its end.           *)
Loading(o) == op[o].failed \/ op[o].pc \in {"prepare", "swap", "commit", "failed"}
LockInv == \A o \in Ops : Loading(o) => lock = o

(* Nobody makes the plugin active behind the back of the load under way.   *)
LookInv == \A o \in Ops : op[o].pc \in {"prepare", "swap"} => state # "active"

(* A subscription that is not left over is that of the active plugin, or   *)
(* of the load under way, or of one that failed and has yet to unregister. *)
Unsettled(o) == op[o].pc = "swap" \/ (op[o].failed /\ op[o].pc = "drain")
OwnerInv == reg.subs > reg.left => state = "active" \/ \E o \in Ops : Unsettled(o)

(* Registrations and requests end with the process.                        *)
OffInv == ~ up => reg = Nothing /\ \A o \in Ops : op[o] = Idle

Inv == TypeOK /\ FailedInv /\ LockInv /\ LookInv /\ OwnerInv /\ OffInv /\ NoDoubleLoad

Kinds   == {"upload", "on", "off", "disable", "enable", "delete", "batch", None}
Pcs     == {"idle", "load", "lock", "prepare", "swap", "commit",
            "drain", "stop", "persist", "failed", "loaded", "refused", "unloaded",
            "dispatch", "invoke"}
OpType  == [kind : Kinds, pc : Pcs, form : {"id", "stem"}, failed : BOOLEAN]
RegType == [subs : Nat, inst : BOOLEAN, sched : BOOLEAN, routes : BOOLEAN, left : Nat]

-----------------------------------------------------------------------------
(* What the model's operators write.                                       *)
LEMMA Types == TypeOK =>
  /\ op \in [Ops -> OpType] /\ reg \in RegType /\ Idle \in OpType /\ Nothing \in RegType
  /\ up \in BOOLEAN /\ \A o \in Ops : op[o] \in OpType
BY DEF TypeOK, OpType, RegType, Kinds, Pcs, Idle, Nothing, _plugin_id_forms

(* Of the requests only o changes, and it becomes r.                       *)
Becomes(o, r) == op' = [op EXCEPT ![o] = r]

LEMMA BecomesEffect ==
  ASSUME op \in [Ops -> OpType], NEW o \in Ops, NEW r \in OpType, Becomes(o, r)
  PROVE  op' \in [Ops -> OpType] /\ op'[o] = r /\ \A p \in Ops \ {o} : op'[p] = op[p]
BY DEF Becomes

LEMMA GotoEffect ==
  ASSUME op \in [Ops -> OpType], NEW o \in Ops, NEW pc \in Pcs, Goto(o, pc)
  PROVE  /\ op' \in [Ops -> OpType]
         /\ op'[o].pc = pc /\ op'[o].failed = op[o].failed /\ op'[o].kind = op[o].kind
         /\ \A p \in Ops \ {o} : op'[p] = op[p]
<1> DEFINE r == [op[o] EXCEPT !.pc = pc]
<1>1. op[o] \in OpType
  OBVIOUS
<1>2. r \in OpType /\ r.pc = pc /\ r.failed = op[o].failed /\ r.kind = op[o].kind
  BY <1>1 DEF OpType
<1>3. Becomes(o, r)
  BY DEF Goto, Becomes
<1> HIDE DEF r
<1> QED
  BY <1>2, <1>3, BecomesEffect

LEMMA DoneEffect ==
  ASSUME TypeOK, NEW o \in Ops, Done(o)
  PROVE  /\ op' \in [Ops -> OpType]
         /\ op'[o].pc = "idle" /\ op'[o].failed = FALSE
         /\ \A p \in Ops \ {o} : op'[p] = op[p]
BY Types DEF Done, Idle

LEMMA BeginEffect ==
  ASSUME TypeOK, NEW o \in Ops, NEW k \in Kinds, NEW pc \in Pcs,
         NEW f \in _plugin_id_forms, BeginAs(o, k, pc, f)
  PROVE  /\ op' \in [Ops -> OpType] /\ up /\ op[o].pc = "idle"
         /\ op'[o].pc = pc /\ op'[o].failed = FALSE
         /\ \A p \in Ops \ {o} : op'[p] = op[p]
<1> DEFINE r == [kind |-> k, pc |-> pc, form |-> f, failed |-> FALSE]
<1>1. r \in OpType /\ r.pc = pc /\ r.failed = FALSE
  BY DEF OpType, _plugin_id_forms
<1>2. Becomes(o, r)
  BY DEF BeginAs, Becomes
<1> HIDE DEF r
<1> QED
  BY <1>1, <1>2, BecomesEffect, Types DEF BeginAs, At

LEMMA FailEffect ==
  ASSUME TypeOK, NEW o \in Ops, Fail(o)
  PROVE  /\ op' \in [Ops -> OpType] /\ state' = "error"
         /\ op'[o].pc = "drain" /\ op'[o].failed = TRUE
         /\ \A p \in Ops \ {o} : op'[p] = op[p]
<1> DEFINE r == [op[o] EXCEPT !.pc = "drain", !.failed = TRUE]
<1>1. op[o] \in OpType
  BY Types
<1>2. r \in OpType /\ r.pc = "drain" /\ r.failed = TRUE
  BY <1>1 DEF OpType, Pcs
<1>3. Becomes(o, r)
  BY DEF Fail, Becomes
<1> HIDE DEF r
<1> QED
  BY <1>2, <1>3, BecomesEffect, Types DEF Fail

(* The registrations after the steps of a load and of an unload.           *)
LEMMA PieceEffect ==
  ASSUME NEW r \in RegType
  PROVE  /\ Subscribe(r) \in RegType /\ Subscribe(r).subs = r.subs + 1 /\ Subscribe(r).left = r.left
         /\ [r EXCEPT !.inst = TRUE] \in RegType
         /\ [r EXCEPT !.inst = TRUE].subs = r.subs /\ [r EXCEPT !.inst = TRUE].left = r.left
         /\ StartTasks(r) \in RegType /\ StartTasks(r).subs = r.subs /\ StartTasks(r).left = r.left
         /\ Mount(r) \in RegType /\ Mount(r).subs = r.subs /\ Mount(r).left = r.left
         /\ Rollback(r) \in RegType /\ Rollback(r).subs = r.subs /\ Rollback(r).left = r.left
         /\ Unmount(r) \in RegType /\ Unmount(r).subs = r.subs /\ Unmount(r).left = r.left
         /\ Unsubscribe(r) \in RegType /\ Unsubscribe(r).subs = 0 /\ Unsubscribe(r).left = 0
<1>1. /\ Subscribe(r) \in RegType /\ Subscribe(r).subs = r.subs + 1 /\ Subscribe(r).left = r.left
  BY DEF Subscribe, RegType
<1>2. /\ [r EXCEPT !.inst = TRUE] \in RegType
      /\ [r EXCEPT !.inst = TRUE].subs = r.subs /\ [r EXCEPT !.inst = TRUE].left = r.left
  BY DEF RegType
<1>3. /\ StartTasks(r) \in RegType /\ StartTasks(r).subs = r.subs /\ StartTasks(r).left = r.left
      /\ Mount(r) \in RegType /\ Mount(r).subs = r.subs /\ Mount(r).left = r.left
  BY DEF StartTasks, Mount, RegType
<1>4. /\ Rollback(r) \in RegType /\ Rollback(r).subs = r.subs /\ Rollback(r).left = r.left
      /\ Unmount(r) \in RegType /\ Unmount(r).subs = r.subs /\ Unmount(r).left = r.left
  BY DEF Rollback, Unmount, RegType
<1>5. /\ Unsubscribe(r) \in RegType /\ Unsubscribe(r).subs = 0 /\ Unsubscribe(r).left = 0
  BY DEF Unsubscribe, RegType
<1> QED
  BY <1>1, <1>2, <1>3, <1>4, <1>5

LEMMA LoadedEffect ==
  ASSUME TypeOK, reg \in RegType
  PROVE  /\ Loaded(reg) \in RegType /\ Loaded(reg).subs = reg.subs + 1 /\ Loaded(reg).left = reg.left
         /\ LoadPartly(reg) \in RegType /\ LoadPartly(reg).subs = reg.subs + 1
         /\ LoadPartly(reg).left = reg.left
<1> DEFINE s == Subscribe(reg)
           w == StartWrapper(reg)
           i == [s EXCEPT !.inst = TRUE]
<1>1. s \in RegType /\ s.subs = reg.subs + 1 /\ s.left = reg.left
  BY PieceEffect
<1>2. i \in RegType /\ i.subs = reg.subs + 1 /\ i.left = reg.left
  BY <1>1, PieceEffect
<1>3. w \in RegType /\ w.subs = reg.subs /\ w.left = reg.left
  BY PieceEffect DEF StartWrapper
<1>4. /\ StartTasks(i) \in RegType /\ StartTasks(i).subs = reg.subs + 1
      /\ StartTasks(i).left = reg.left
  BY <1>2, PieceEffect
<1>5. /\ Mount(StartTasks(i)) \in RegType /\ Mount(StartTasks(i)).subs = reg.subs + 1
      /\ Mount(StartTasks(i)).left = reg.left
  BY <1>4, PieceEffect
<1>6. /\ Subscribe(w) \in RegType /\ Subscribe(w).subs = reg.subs + 1
      /\ Subscribe(w).left = reg.left
  BY <1>3, PieceEffect
<1>7. /\ Mount(Subscribe(w)) \in RegType /\ Mount(Subscribe(w)).subs = reg.subs + 1
      /\ Mount(Subscribe(w)).left = reg.left
  BY <1>6, PieceEffect
<1>8. LoadPartly(reg) = s \/ LoadPartly(reg) = StartTasks(i)
  BY DEF LoadPartly, LoadLegacy
<1>9. Loaded(reg) = s \/ Loaded(reg) = Mount(StartTasks(i)) \/ Loaded(reg) = Mount(Subscribe(w))
  BY DEF TypeOK, resolve_loader, Loaded, LoadInprocess, LoadLegacy, LoadSandbox, load_and_register
<1> HIDE DEF s, w, i
<1> QED
  BY <1>1, <1>4, <1>5, <1>7, <1>8, <1>9

-----------------------------------------------------------------------------
LEMMA InitInv == Init => Inv
<1> SUFFICES ASSUME Init PROVE Inv
  OBVIOUS
<1>1. TypeOK
  <2>1. up \in BOOLEAN
    BY DEF Init
  <2>2. op \in [Ops -> OpType]
    <3>1. Idle \in OpType
      BY DEF Idle, OpType, Kinds, Pcs
    <3> QED
      BY <3>1 DEF Init
  <2>3. reg \in RegType
    BY DEF Init, Nothing, RegType
  <2> QED
    BY <2>1, <2>2, <2>3 DEF Init, TypeOK, OpType, Kinds, Pcs, RegType, _plugin_id_forms
<1>2. FailedInv /\ LockInv /\ LookInv /\ OwnerInv /\ OffInv /\ NoDoubleLoad
  BY DEF Init, FailedInv, LockInv, LookInv, OwnerInv, OffInv, NoDoubleLoad, Idle, Nothing, Loading
<1> QED
  BY <1>1, <1>2 DEF Inv

(* A step of one request that leaves the registrations, the state and the  *)
(* lock alone, and neither begins nor ends a load.                         *)
LEMMA QuietStep ==
  ASSUME Inv, NEW o \in Ops, op' \in [Ops -> OpType], up,
         \A p \in Ops \ {o} : op'[p] = op[p],
         UNCHANGED <<up, loader, reg, state, lock>>,
         op'[o].failed => op[o].failed,
         op'[o].failed => op'[o].pc \in {"drain", "stop", "persist", "failed"},
         op'[o].pc \in {"prepare", "swap", "commit"} => op'[o].pc = op[o].pc,
         op'[o].pc = "failed" => op[o].failed,
         Unsettled(o) => Unsettled(o)',
         file' \in {"present", "gone", "absent"}, row' \in {"on", "off", None},
         kill' \subseteq _plugin_id_forms, running' \subseteq Calls
  PROVE  Inv'
<1>1. TypeOK'
  BY DEF Inv, TypeOK, OpType, Kinds, Pcs, _plugin_id_forms
<1>2. FailedInv' /\ LookInv'
  BY DEF Inv, FailedInv, LookInv
<1>3. LockInv'
  BY DEF Inv, LockInv, Loading
<1>4. OwnerInv'
  BY DEF Inv, OwnerInv, Unsettled
<1>5. OffInv' /\ NoDoubleLoad'
  BY DEF Inv, OffInv, NoDoubleLoad
<1> QED
  BY <1>1, <1>2, <1>3, <1>4, <1>5 DEF Inv

(* A request that stands anywhere runs in a process.                       *)
LEMMA Running == ASSUME Inv, NEW o \in Ops, op[o].pc # "idle" PROVE up
BY Types DEF Inv, OffInv, Idle

LEMMA RowEffect == ASSUME TypeOK, NEW v \in {"on", "off"}
                   PROVE  /\ Update(v) \in {"on", "off", None} /\ Ensured \in {"on", "off", None}
                          /\ \A f : UpdateAs(f, v) \in {"on", "off", None}
BY DEF TypeOK, Update, UpdateAs, Ensured

-----------------------------------------------------------------------------
(* The requests begin.                                                     *)
LEMMA RequestInv == ASSUME Inv, NEW o \in Ops, Request(o) PROVE Inv'
<1> USE Types, RowEffect DEF Inv
<1>0. TypeOK /\ op[o].pc \in Pcs
  BY DEF OpType
<1>1. \E k \in Kinds, pc \in {"load", "drain", "dispatch"}, f \in _plugin_id_forms :
        BeginAs(o, k, pc, f)
  BY DEF Request, Upload, Install, Toggle, Disable, Enable, Delete, batch_execute, Begin, Kinds,
         _plugin_id_forms
<1>2. PICK k \in Kinds, pc \in {"load", "drain", "dispatch"}, f \in _plugin_id_forms :
        BeginAs(o, k, pc, f)
  BY <1>1
<1>3. pc \in Pcs
  BY DEF Pcs
<1>4. /\ op' \in [Ops -> OpType] /\ up /\ op[o].pc = "idle"
      /\ op'[o].pc = pc /\ op'[o].failed = FALSE
      /\ \A p \in Ops \ {o} : op'[p] = op[p]
  BY <1>0, <1>2, <1>3, BeginEffect
<1>5. ~ Unsettled(o)
  BY <1>4 DEF FailedInv, Unsettled
<1>6. /\ UNCHANGED <<up, loader, reg, state, lock>>
      /\ file' \in {"present", "gone", "absent"} /\ row' \in {"on", "off", None}
      /\ kill' \subseteq _plugin_id_forms /\ running' \subseteq Calls
  BY DEF Request, Upload, Install, Toggle, Disable, Enable, Delete, batch_execute, TypeOK, Ensured
<1> QED
  BY <1>4, <1>5, <1>6, QuietStep

-----------------------------------------------------------------------------
(* The steps of a request that neither load nor unload.                    *)
LEMMA GotoStep ==
  ASSUME Inv, NEW o \in Ops, op[o].pc # "idle", NEW pc \in Pcs, Goto(o, pc),
         UNCHANGED <<up, loader, reg, state, lock>>,
         op[o].failed => pc \in {"drain", "stop", "persist", "failed"},
         pc \notin {"prepare", "swap", "commit"}, pc = "failed" => op[o].failed,
         Unsettled(o) => op[o].failed /\ pc = "drain",
         file' \in {"present", "gone", "absent"}, row' \in {"on", "off", None},
         kill' \subseteq _plugin_id_forms, running' \subseteq Calls
  PROVE  Inv'
<1>1. /\ op' \in [Ops -> OpType] /\ op'[o].pc = pc /\ op'[o].failed = op[o].failed
      /\ \A p \in Ops \ {o} : op'[p] = op[p]
  BY GotoEffect, Types DEF Inv
<1>2. up
  BY Running
<1>3. Unsettled(o) => Unsettled(o)'
  BY <1>1 DEF Unsettled
<1> QED
  BY <1>1, <1>2, <1>3, QuietStep

LEMMA DoneStep ==
  ASSUME Inv, NEW o \in Ops, op[o].pc \notin {"idle", "swap", "drain"}, Done(o),
         UNCHANGED <<up, loader, reg, state, lock>>,
         file' \in {"present", "gone", "absent"}, row' \in {"on", "off", None},
         kill' \subseteq _plugin_id_forms, running' \subseteq Calls
  PROVE  Inv'
<1>1. /\ op' \in [Ops -> OpType] /\ op'[o].pc = "idle" /\ op'[o].failed = FALSE
      /\ \A p \in Ops \ {o} : op'[p] = op[p]
  BY DoneEffect DEF Inv
<1>2. up /\ ~ Unsettled(o)
  BY Running DEF Unsettled
<1> QED
  BY <1>1, <1>2, QuietStep

LEMMA PlainInv ==
  ASSUME Inv, NEW o \in Ops,
         LoadEnter(o) \/ Persist(o) \/ Finish(o)
           \/ _dispatch_one(o) \/ _invoke_plugin_handler(o)
  PROVE  Inv'
<1>0. /\ TypeOK /\ FailedInv /\ op[o] \in OpType
      /\ file \in {"present", "gone", "absent"} /\ row \in {"on", "off", None}
      /\ kill \subseteq _plugin_id_forms /\ running \subseteq Calls
  BY Types DEF Inv, TypeOK
<1>1. CASE LoadEnter(o)
  <2>1. PICK pc \in {"refused", "lock"} : Goto(o, pc)
    BY <1>1 DEF LoadEnter
  <2>2. op[o].pc = "load" /\ ~ op[o].failed /\ pc \in Pcs /\ ~ Unsettled(o)
    BY <1>0, <1>1 DEF LoadEnter, At, FailedInv, Pcs, Unsettled
  <2> QED
    BY <1>0, <1>1, <2>1, <2>2, GotoStep DEF LoadEnter
<1>2. CASE Persist(o)
  <2>1. PICK pc \in {"failed", "load", "unloaded"} :
          Goto(o, pc) /\ (pc = "failed" <=> op[o].failed)
    BY <1>0, <1>2 DEF Persist, OpType
  <2>2. op[o].pc = "persist" /\ pc \in Pcs /\ ~ Unsettled(o)
    BY <1>2 DEF Persist, At, Pcs, Unsettled
  <2>3. row' \in {"on", "off", None}
    BY <1>0, <1>2, RowEffect DEF Persist
  <2> QED
    BY <1>0, <1>2, <2>1, <2>2, <2>3, GotoStep DEF Persist
<1>3. CASE Finish(o)
  <2>1. op[o].pc \in {"loaded", "refused", "unloaded"} /\ Done(o)
    BY <1>3 DEF Finish
  <2>2. row' \in {"on", "off", None} /\ file' \in {"present", "gone", "absent"}
    BY <1>0, <1>3, RowEffect DEF Finish
  <2> QED
    BY <1>0, <1>3, <2>1, <2>2, DoneStep DEF Finish
<1>4. CASE _dispatch_one(o)
  <2>1. op[o].pc = "dispatch" /\ ~ op[o].failed /\ "invoke" \in Pcs /\ ~ Unsettled(o)
    BY <1>0, <1>4 DEF _dispatch_one, At, FailedInv, Pcs, Unsettled
  <2>2. Done(o) \/ Goto(o, "invoke")
    BY <1>4 DEF _dispatch_one, require_plugin_budget
  <2>3. CASE Done(o)
    BY <1>0, <1>4, <2>1, <2>3, DoneStep DEF _dispatch_one
  <2>4. CASE Goto(o, "invoke")
    BY <1>0, <1>4, <2>1, <2>4, GotoStep DEF _dispatch_one
  <2> QED
    BY <2>2, <2>3, <2>4
<1>5. CASE _invoke_plugin_handler(o)
  BY <1>0, <1>5, DoneStep DEF _invoke_plugin_handler, At
<1> QED
  BY <1>1, <1>2, <1>3, <1>4, <1>5

(* Steps that no request takes leave the loads alone.                      *)
LEMMA BusInv ==
  ASSUME Inv,
         SubprocessDies \/ Configure
           \/ \E c \in Calls : CallHook(c) \/ HookEnds(c) \/ handle_call_hook(c)
  PROVE  Inv'
<1>1. /\ UNCHANGED <<up, loader, file, reg, state, kill, lock, op>>
      /\ running' \subseteq Calls /\ row' \in {"on", "off", None}
  BY RowEffect DEF Inv, TypeOK, SubprocessDies, Configure, CallHook, HookEnds, handle_call_hook, Return
<1>2. TypeOK'
  BY <1>1 DEF Inv, TypeOK
<1> QED
  BY <1>1, <1>2 DEF Inv, FailedInv, LockInv, Loading, LookInv, OwnerInv, Unsettled, OffInv, NoDoubleLoad

-----------------------------------------------------------------------------
(* The steps under the lock: nobody else loads.                            *)
LEMMA Alone ==
  ASSUME Inv, NEW o \in Ops, Loading(o)
  PROVE  lock = o /\ \A p \in Ops \ {o} : ~ Loading(p)
BY DEF Inv, LockInv

LEMMA LoadLockedInv == ASSUME Inv, NEW o \in Ops, LoadLocked(o) PROVE Inv'
<1>0. /\ TypeOK /\ op[o].pc = "lock" /\ lock = None /\ None \notin Ops
  BY NamesAssumption DEF Inv, LoadLocked, At
<1>1. /\ \A p \in Ops : ~ Loading(p)
  BY <1>0 DEF Inv, LockInv
<1>2. ~ op[o].failed
  BY <1>1 DEF Loading
<1>3. CASE state = "active"
  <2>1. ~ Unsettled(o) /\ "refused" \in Pcs
    BY <1>2, <1>0 DEF Unsettled, Pcs
  <2> QED
    BY <1>0, <1>2, <1>3, <2>1, GotoStep DEF LoadLocked, TypeOK
<1>4. CASE state # "active"
  <2>1. Goto(o, "prepare") /\ lock' = o /\ UNCHANGED <<up, loader, file, row, reg, state, kill, running>>
    BY <1>4 DEF LoadLocked
  <2>2. /\ op' \in [Ops -> OpType] /\ op'[o].pc = "prepare" /\ ~ op'[o].failed
        /\ \A p \in Ops \ {o} : op'[p] = op[p]
    BY <1>0, <1>2, <2>1, GotoEffect, Types DEF Pcs
  <2>3. TypeOK'
    BY <1>0, <2>1, <2>2 DEF TypeOK, OpType, Kinds, Pcs, _plugin_id_forms
  <2>4. FailedInv' /\ LookInv'
    BY <1>4, <2>1, <2>2 DEF Inv, FailedInv, LookInv
  <2>5. LockInv'
    BY <1>1, <2>1, <2>2 DEF LockInv, Loading
  <2>6. OwnerInv'
    BY <1>1, <2>1, <2>2 DEF Inv, OwnerInv, Unsettled, Loading
  <2>7. OffInv' /\ NoDoubleLoad'
    BY <1>0, <2>1, Running DEF Inv, OffInv, NoDoubleLoad
  <2> QED
    BY <2>3, <2>4, <2>5, <2>6, <2>7 DEF Inv
<1> QED
  BY <1>3, <1>4

(* A load goes on or fails: what is needed of the registrations it leaves. *)
LEMMA LoadStep ==
  ASSUME Inv, NEW o \in Ops, Loading(o), op[o].pc # "idle",
         op' \in [Ops -> OpType], \A p \in Ops \ {o} : op'[p] = op[p],
         op'[o].failed => op'[o].pc \in {"drain", "stop", "persist", "failed"},
         reg' \in RegType, reg'.subs <= reg'.left + 1,
         reg'.subs > reg'.left => state' = "active" \/ Unsettled(o)',
         op'[o].pc \in {"prepare", "swap"} => state' # "active",
         lock' = o \/ (lock' = None /\ ~ Loading(o)'),
         state' \in {"active", "error", None}, row' \in {"on", "off", None},
         UNCHANGED <<up, loader, file, kill, running>>
  PROVE  Inv'
<1>1. lock = o /\ \A p \in Ops \ {o} : ~ Loading(p)
  BY Alone
<1>2. TypeOK'
  BY DEF Inv, TypeOK, OpType, RegType, Kinds, Pcs, _plugin_id_forms
<1>3. FailedInv' /\ LookInv'
  BY <1>1 DEF Inv, FailedInv, LookInv, Loading
<1>4. LockInv'
  BY <1>1 DEF LockInv, Loading
<1>5. OwnerInv' /\ NoDoubleLoad'
  BY DEF OwnerInv, NoDoubleLoad
<1>6. OffInv'
  BY Running DEF OffInv
<1> QED
  BY <1>2, <1>3, <1>4, <1>5, <1>6 DEF Inv

LEMMA PrepareInv == ASSUME Inv, NEW o \in Ops, Prepare(o) PROVE Inv'
<1>0. /\ TypeOK /\ reg \in RegType /\ op[o].pc = "prepare" /\ Loading(o) /\ lock = o
      /\ UNCHANGED <<up, loader, file, row, kill, lock, running>>
      /\ state \in {"active", "error", None} /\ row \in {"on", "off", None}
  BY Types, Alone DEF Inv, TypeOK, Prepare, At, Loading
<1>1. ~ op[o].failed /\ state # "active"
  BY <1>0 DEF Inv, FailedInv, LookInv
<1>2. reg.subs <= reg.left
  <2>1. \A p \in Ops : ~ Unsettled(p)
    BY <1>0, <1>1, Alone DEF Unsettled, Loading
  <2>2. ~ (reg.subs > reg.left)
    BY <1>1, <2>1 DEF Inv, OwnerInv
  <2> QED
    BY <1>0, <2>2 DEF RegType
<1>3. CASE reg' = Loaded(reg) /\ Goto(o, "swap") /\ UNCHANGED state
  <2>1. /\ op' \in [Ops -> OpType] /\ op'[o].pc = "swap" /\ ~ op'[o].failed
        /\ \A p \in Ops \ {o} : op'[p] = op[p]
    BY <1>0, <1>1, <1>3, GotoEffect, Types DEF Pcs
  <2>2. reg' \in RegType /\ reg'.subs <= reg'.left + 1
    BY <1>0, <1>2, <1>3, LoadedEffect DEF RegType
  <2>3. Unsettled(o)'
    BY <2>1 DEF Unsettled
  <2> QED
    BY <1>0, <1>1, <1>3, <2>1, <2>2, <2>3, LoadStep
<1>4. CASE Fail(o) /\ (reg' = reg \/ reg' = Rollback(reg) \/ reg' = LoadPartly(reg))
  <2>1. /\ op' \in [Ops -> OpType] /\ op'[o].pc = "drain" /\ op'[o].failed /\ state' = "error"
        /\ \A p \in Ops \ {o} : op'[p] = op[p]
    BY <1>0, <1>4, FailEffect
  <2>2. reg' \in RegType /\ reg'.subs <= reg'.left + 1
    <3>1. CASE reg' = reg
      BY <1>0, <1>2, <3>1 DEF RegType
    <3>2. CASE reg' = Rollback(reg)
      <4>1. Rollback(reg) \in RegType /\ Rollback(reg).subs = reg.subs /\ Rollback(reg).left = reg.left
        BY <1>0, PieceEffect
      <4> QED
        BY <1>0, <1>2, <3>2, <4>1 DEF RegType
    <3>3. CASE reg' = LoadPartly(reg)
      BY <1>0, <1>2, <3>3, LoadedEffect DEF RegType
    <3> QED
      BY <1>4, <3>1, <3>2, <3>3
  <2>3. Unsettled(o)'
    BY <2>1 DEF Unsettled
  <2> QED
    BY <1>0, <2>1, <2>2, <2>3, LoadStep
<1> QED
  BY <1>3, <1>4 DEF Prepare, sweep_namespace_violations

LEMMA SwapRegistryInv == ASSUME Inv, NEW o \in Ops, SwapRegistry(o) PROVE Inv'
<1>0. /\ TypeOK /\ reg \in RegType /\ reg.subs <= reg.left + 1
      /\ op[o].pc = "swap" /\ Loading(o) /\ lock = o /\ ~ op[o].failed
      /\ UNCHANGED <<up, loader, file, row, reg, kill, lock, running>>
      /\ row \in {"on", "off", None}
  BY Types, Alone DEF Inv, TypeOK, SwapRegistry, At, Loading, FailedInv, NoDoubleLoad
<1>1. CASE Goto(o, "commit") /\ state' = "active"
  <2>1. /\ op' \in [Ops -> OpType] /\ op'[o].pc = "commit" /\ ~ op'[o].failed
        /\ \A p \in Ops \ {o} : op'[p] = op[p]
    BY <1>0, <1>1, GotoEffect, Types DEF Pcs
  <2> QED
    BY <1>0, <1>1, <2>1, LoadStep
<1>2. CASE Fail(o)
  <2>1. /\ op' \in [Ops -> OpType] /\ op'[o].pc = "drain" /\ op'[o].failed /\ state' = "error"
        /\ \A p \in Ops \ {o} : op'[p] = op[p]
    BY <1>0, <1>2, FailEffect
  <2>2. Unsettled(o)'
    BY <2>1 DEF Unsettled
  <2> QED
    BY <1>0, <2>1, <2>2, LoadStep
<1> QED
  BY <1>1, <1>2 DEF SwapRegistry

(* Once the plugin was made active, only an unload takes that back, and    *)
(* with it the subscriptions or their account.                             *)
LEMMA CommitLoadInv == ASSUME Inv, NEW o \in Ops, CommitLoad(o) PROVE Inv'
<1>0. /\ TypeOK /\ reg \in RegType /\ reg.subs <= reg.left + 1
      /\ op[o].pc = "commit" /\ Loading(o) /\ lock = o /\ ~ op[o].failed
      /\ UNCHANGED <<up, loader, file, reg, kill, running>>
      /\ row \in {"on", "off", None} /\ state \in {"active", "error", None}
  BY Types, Alone DEF Inv, TypeOK, CommitLoad, At, Loading, FailedInv, NoDoubleLoad
<1>1. CASE row' = Update("on") /\ lock' = None /\ Goto(o, "loaded") /\ UNCHANGED state
  <2>1. /\ op' \in [Ops -> OpType] /\ op'[o].pc = "loaded" /\ ~ op'[o].failed
        /\ \A p \in Ops \ {o} : op'[p] = op[p]
    BY <1>0, <1>1, GotoEffect, Types DEF Pcs
  <2>2. reg.subs > reg.left => state = "active"
    <3>1. \A p \in Ops : ~ Unsettled(p)
      BY <1>0, Alone DEF Unsettled, Loading
    <3> QED
      BY <3>1 DEF Inv, OwnerInv
  <2>3. ~ Loading(o)'
    BY <2>1 DEF Loading
  <2>4. row' \in {"on", "off", None}
    BY <1>0, <1>1, RowEffect
  <2> QED
    BY <1>0, <1>1, <2>1, <2>2, <2>3, <2>4, LoadStep
<1>2. CASE Fail(o) /\ UNCHANGED <<row, lock>>
  <2>1. /\ op' \in [Ops -> OpType] /\ op'[o].pc = "drain" /\ op'[o].failed /\ state' = "error"
        /\ \A p \in Ops \ {o} : op'[p] = op[p]
    BY <1>0, <1>2, FailEffect
  <2>2. Unsettled(o)'
    BY <2>1 DEF Unsettled
  <2> QED
    BY <1>0, <1>2, <2>1, <2>2, LoadStep
<1> QED
  BY <1>1, <1>2 DEF CommitLoad

LEMMA FailLoadInv == ASSUME Inv, NEW o \in Ops, FailLoad(o) PROVE Inv'
<1> DEFINE r == [op[o] EXCEPT !.pc = "refused", !.failed = FALSE]
<1>0. /\ TypeOK /\ reg \in RegType /\ reg.subs <= reg.left + 1 /\ op[o] \in OpType
      /\ op[o].pc = "failed" /\ Loading(o) /\ lock = o
      /\ UNCHANGED <<up, loader, file, reg, state, kill, running>> /\ lock' = None
      /\ row' \in {"on", "off", None} /\ state \in {"active", "error", None}
  BY Types, Alone, RowEffect DEF Inv, TypeOK, FailLoad, At, Loading, NoDoubleLoad
<1>1. r \in OpType /\ r.pc = "refused" /\ ~ r.failed
  BY <1>0 DEF OpType, Pcs
<1>2. Becomes(o, r)
  BY DEF FailLoad, Becomes
<1> HIDE DEF r
<1>3. op' \in [Ops -> OpType] /\ op'[o] = r /\ \A p \in Ops \ {o} : op'[p] = op[p]
  BY <1>0, <1>1, <1>2, BecomesEffect, Types
<1>4. reg.subs > reg.left => state = "active"
  <2>1. \A p \in Ops : ~ Unsettled(p)
    BY <1>0, Alone DEF Unsettled, Loading
  <2> QED
    BY <2>1 DEF Inv, OwnerInv
<1>5. ~ Loading(o)'
  BY <1>1, <1>3 DEF Loading
<1> QED
  BY <1>0, <1>1, <1>3, <1>4, <1>5, LoadStep

-----------------------------------------------------------------------------
(* An unload takes no lock: what it leaves has no subscription that is not *)
(* accounted for as left over.                                             *)
LEMMA UnloadStep ==
  ASSUME Inv, NEW o \in Ops, op[o].pc \in {"drain", "stop"},
         NEW pc \in {"stop", "persist"}, Goto(o, pc),
         reg' \in RegType, reg'.subs <= reg'.left, state' \in {state, None},
         UNCHANGED <<up, loader, file, row, kill, lock, running>>
  PROVE  Inv'
<1>1. /\ op' \in [Ops -> OpType] /\ op'[o].pc = pc /\ op'[o].failed = op[o].failed
      /\ \A p \in Ops \ {o} : op'[p] = op[p]
  BY GotoEffect, Types DEF Inv, Pcs
<1>2. TypeOK'
  BY <1>1 DEF Inv, TypeOK, OpType, RegType, Kinds, Pcs, _plugin_id_forms
<1>3. FailedInv' /\ LockInv'
  BY <1>1 DEF Inv, FailedInv, LockInv, Loading
<1>4. LookInv'
  BY <1>1, NamesAssumption DEF Inv, LookInv
<1>5. OwnerInv' /\ NoDoubleLoad'
  BY DEF OwnerInv, NoDoubleLoad, RegType
<1>6. OffInv'
  BY Running DEF OffInv
<1> QED
  BY <1>2, <1>3, <1>4, <1>5, <1>6 DEF Inv

LEMMA ForgetEffect ==
  ASSUME NEW r \in RegType
  PROVE  Forget(r) \in RegType /\ Forget(r).subs = r.subs /\ Forget(r).left = r.subs
BY DEF Forget, RegType

(* Either the subscriptions go, or the state entry goes without them and   *)
(* they are accounted for as left.  Only a plugin that subscribes under    *)
(* its id has tasks or a subprocess to wait for.                           *)
LEMMA UnregisterInv == ASSUME Inv, NEW o \in Ops, Unregister(o) PROVE Inv'
<1> DEFINE r == IF Unloaded(o) = Subscriber THEN Unsubscribe(reg) ELSE reg
           q == [r EXCEPT !.sched = FALSE]
           f == Forget(IF Unloaded(o) = "id" THEN Unmount(r) ELSE r)
<1>0. reg \in RegType /\ op[o].pc = "drain"
  BY Types DEF Inv, Unregister, Drained, NoDeadline, DrainDeadline, At
<1>1. r \in RegType /\ (Unloaded(o) = Subscriber => r.subs = 0 /\ r.left = 0)
  BY <1>0, PieceEffect
<1>2. q \in RegType /\ q.subs = r.subs /\ q.left = r.left
  BY <1>1 DEF RegType
<1>3. Unmount(r) \in RegType /\ Unmount(r).subs = r.subs /\ Unmount(r).left = r.left
  BY <1>1, PieceEffect
<1>4. f \in RegType /\ f.subs = r.subs /\ f.left = r.subs
  BY <1>1, <1>3, ForgetEffect
<1>5. /\ \/ /\ Unloaded(o) = Subscriber
            /\ reg' = q \/ reg' = Unmount(r)
         \/ reg' = f
      /\ Goto(o, "stop") \/ Goto(o, "persist")
      /\ state' \in {state, None}
      /\ UNCHANGED <<up, loader, file, row, kill, lock, running>>
  BY DEF Unregister, Subscriber
<1> HIDE DEF r, q, f
<1>6. reg' \in RegType /\ reg'.subs <= reg'.left
  <2>1. r.subs \in Nat /\ r.left \in Nat
    BY <1>1 DEF RegType
  <2>2. CASE reg' = f
    BY <1>4, <2>1, <2>2
  <2>3. CASE Unloaded(o) = Subscriber /\ (reg' = q \/ reg' = Unmount(r))
    BY <1>1, <1>2, <1>3, <2>1, <2>3
  <2> QED
    BY <1>5, <2>2, <2>3
<1> QED
  BY <1>0, <1>5, <1>6, UnloadStep

LEMMA StoppedInv == ASSUME Inv, NEW o \in Ops, Stopped(o) PROVE Inv'
<1> DEFINE m == Unmount(reg)
<1>0. reg \in RegType /\ op[o].pc = "stop"
  BY Types DEF Inv, Stopped, At
<1>1. m \in RegType
  BY <1>0, PieceEffect
<1>2. Forget(m) \in RegType /\ Forget(m).subs = Forget(m).left
  BY <1>1, ForgetEffect
<1>3. /\ reg' = Forget(m) /\ state' = None /\ Goto(o, "persist")
      /\ UNCHANGED <<up, loader, file, row, kill, lock, running>>
  BY DEF Stopped
<1> HIDE DEF m
<1>4. reg'.subs <= reg'.left
  BY <1>2, <1>3 DEF RegType
<1> QED
  BY <1>0, <1>2, <1>3, <1>4, UnloadStep

-----------------------------------------------------------------------------
(* The process *)
LEMMA BootInv == ASSUME Inv, Boot PROVE Inv'
<1>0. /\ TypeOK /\ ~ up /\ reg = Nothing /\ reg \in RegType /\ \A o \in Ops : op[o] = Idle
      /\ UNCHANGED <<loader, kill, lock, op, running>>
  BY Types DEF Inv, OffInv, Boot
<1>1. up' = TRUE
  BY <1>0 DEF TypeOK, Boot
<1>2. file' \in {"present", "gone", "absent"} /\ row' \in {"on", "off", None}
  BY <1>0 DEF TypeOK, Boot, scan, _install_zip_plugin
<1> DEFINE s == Loaded(reg)
           q == [s EXCEPT !.left = 1]
<1>3. s \in RegType /\ s.subs = 1 /\ s.left = 0
  BY <1>0, LoadedEffect DEF Nothing
<1>4. q \in RegType /\ q.subs = 1 /\ q.left = 1
  BY <1>3 DEF RegType
<1>5. \/ reg' = s /\ state' = "active"
      \/ reg' = q /\ state' = "error"
      \/ reg' = reg /\ state' \in {state, "error"}
  BY DEF Boot
<1> HIDE DEF s, q
<1>6. /\ reg' \in RegType /\ reg'.subs <= reg'.left + 1
      /\ reg'.subs > reg'.left => state' = "active"
      /\ state' \in {"active", "error", None}
  <2>1. reg.subs = 0 /\ reg.left = 0 /\ state \in {"active", "error", None}
    BY <1>0 DEF TypeOK, Nothing
  <2>2. CASE reg' = s /\ state' = "active"
    BY <1>3, <2>2
  <2>3. CASE reg' = q /\ state' = "error"
    BY <1>4, <2>3
  <2>4. CASE reg' = reg /\ state' \in {state, "error"}
    BY <1>0, <2>1, <2>4
  <2> QED
    BY <1>5, <2>2, <2>3, <2>4
<1>7. TypeOK'
  BY <1>0, <1>1, <1>2, <1>6 DEF TypeOK, RegType
<1>8. FailedInv' /\ LockInv' /\ LookInv'
  BY <1>0 DEF FailedInv, LockInv, LookInv, Loading, Idle
<1>9. OwnerInv' /\ NoDoubleLoad' /\ OffInv'
  BY <1>1, <1>6 DEF OwnerInv, NoDoubleLoad, OffInv
<1> QED
  BY <1>7, <1>8, <1>9 DEF Inv

LEMMA StopInv == ASSUME Inv, Crash \/ Shutdown PROVE Inv'
<1>0. /\ Stop /\ UNCHANGED <<loader, file, row>> /\ TypeOK
  BY DEF Inv, Crash, Shutdown
<1>1. op' = [o \in Ops |-> Idle] /\ reg' = Nothing
  BY <1>0 DEF Stop
<1>2. TypeOK'
  <2>1. up' \in BOOLEAN
    BY <1>0 DEF Stop
  <2>2. op' \in [Ops -> OpType] /\ reg' \in RegType
    BY <1>0, <1>1, Types
  <2>3. loader' \in resolve_loader /\ file' \in {"present", "gone", "absent"} /\ row' \in {"on", "off", None}
    BY <1>0 DEF TypeOK
  <2> QED
    BY <1>0, <2>1, <2>2, <2>3 DEF Stop, TypeOK, OpType, RegType, Kinds, Pcs, _plugin_id_forms
<1>3. FailedInv' /\ LockInv' /\ LookInv'
  BY <1>1 DEF FailedInv, LockInv, LookInv, Loading, Idle
<1>4. OwnerInv' /\ NoDoubleLoad' /\ OffInv'
  BY <1>1 DEF OwnerInv, NoDoubleLoad, OffInv, Nothing
<1> QED
  BY <1>2, <1>3, <1>4 DEF Inv

-----------------------------------------------------------------------------
LEMMA InvNext == Inv /\ [Next]_vars => Inv'
<1> SUFFICES ASSUME Inv, [Next]_vars PROVE Inv'
  OBVIOUS
<1>1. CASE UNCHANGED vars
  <2>1. TypeOK'
    BY <1>1 DEF Inv, TypeOK, vars
  <2> QED
    BY <1>1, <2>1 DEF Inv, vars, FailedInv, LockInv, Loading, LookInv, OwnerInv, Unsettled, OffInv, NoDoubleLoad
<1>2. ASSUME NEW o \in Ops, Step(o) PROVE Inv'
  BY <1>2, PlainInv, LoadLockedInv, PrepareInv, SwapRegistryInv, CommitLoadInv, FailLoadInv,
     UnregisterInv, StoppedInv DEF Step
<1> QED
  BY <1>1, <1>2, RequestInv, BusInv, BootInv, StopInv DEF Next

(* The inductive invariant of the plugin engine.                           *)
THEOREM Invariance == Spec => []Inv
<1> QED
  BY InitInv, InvNext, PTL DEF Spec

(* Type correctness, for any number of requests, hook calls and restarts.  *)
THEOREM TypeCorrect == Spec => []TypeOK
<1>1. Inv => TypeOK
  BY DEF Inv
<1> QED
  BY <1>1, Invariance, PTL

(* The lock of load_plugin, the second look under it and the unload of a   *)
(* failed load keep two loads from both subscribing the plugin's hooks,    *)
(* whatever unloads, which take no lock, and failures come between and     *)
(* whichever id they are called with; what exceeds one load is what an     *)
(* unload or the start-up left without a state entry.                      *)
THEOREM SubscribedOnce == Spec => []NoDoubleLoad
<1>1. Inv => NoDoubleLoad
  BY DEF Inv
<1> QED
  BY <1>1, Invariance, PTL
=============================================================================
