------------------------------- MODULE Plugins -------------------------------
(***************************************************************************)
(* The plugin engine and one plugin: the requests of administrators that   *)
(* load, unload, disable, enable, replace and delete it and the batches of *)
(* read commands, each a coroutine that gives way at its awaits, the       *)
(* per-plugin lock that only loads take, the registrations in the hook     *)
(* bus, the scheduler and the route table, the calls of its hooks, and the *)
(* row of the plugins table.                                               *)
(*                                                                         *)
(* The plugin goes by two ids: that of its manifest, "id", and the stem of *)
(* its file, "stem".  The registrations, the row and the lock know the     *)
(* first alone, the forms of the stem include both.                        *)
(***************************************************************************)
EXTENDS Naturals, FiniteSets

CONSTANTS
  Ops,         \* the requests that run at the same time
  Calls,       \* the hook calls that run at the same time
  None,
  MaxSubs      \* bound on the subscriptions beside which a request may load

ASSUME BoundsAssumption == MaxSubs \in Nat
ASSUME NamesAssumption  == None \notin Ops /\ None # "active"

VARIABLES
  up,       \* the master runs
  loader,   \* resolve_loader of the manifest; a legacy plugin that
            \* subscribes under its id is as a class_based one
  file,     \* the plugin's file; "gone": removed, its manifest still cached
  row,      \* plugins.enabled, None without a row
  reg,      \* what is registered for the plugin; left: the subscriptions that
            \* _states does not account for
  state,    \* PluginEngine._states
  kill,     \* the ids of the plugin in PluginEngine._kill_switch
  lock,     \* PluginEngine._locks
  op,       \* the requests
  running   \* HookBus._inflight

vars == <<up, loader, file, row, reg, state, kill, lock, op, running>>

Idle    == [kind |-> None, pc |-> "idle", form |-> "id", failed |-> FALSE]
Nothing == [subs |-> 0, inst |-> FALSE, sched |-> FALSE, routes |-> FALSE, left |-> 0]

_plugin_id_forms == {"id", "stem"}

(* A trusted plugin runs in the process, like one whose manifest says so or
   that has none; any other is put in a subprocess.  The legacy one subscribes
   its hooks itself, under its stem, which the namespace sweep accepts *)
resolve_loader == {"class_based", "legacy", "sandbox"}
Subscriber     == IF loader = "legacy" THEN "stem" ELSE "id"

(* Every variable has its declared shape. *)
TypeOK ==
  /\ up \in BOOLEAN
  /\ loader \in resolve_loader
  /\ file \in {"present", "gone", "absent"}
  /\ row \in {"on", "off", None}
  /\ reg \in [subs : Nat, inst : BOOLEAN, sched : BOOLEAN, routes : BOOLEAN, left : Nat]
  /\ state \in {"active", "error", None}
  /\ kill \subseteq _plugin_id_forms
  /\ lock \in Ops \cup {None}
  /\ op \in [Ops -> [kind : {"upload", "on", "off", "disable", "enable", "delete", "batch", None},
                     pc : {"idle", "load", "lock", "prepare", "swap", "commit",
                           "drain", "stop", "persist", "failed", "loaded", "refused", "unloaded",
                           "dispatch", "invoke"},
                     form : _plugin_id_forms,
                     failed : BOOLEAN]]
  /\ running \subseteq Calls

Init ==
  /\ up = FALSE
  /\ loader \in resolve_loader
  /\ file = "present"
  /\ row = None
  /\ reg = Nothing
  /\ state = None
  /\ kill = {}
  /\ lock = None
  /\ op = [o \in Ops |-> Idle]
  /\ running = {}

At(o, pc)       == op[o].pc = pc
Goto(o, pc)     == op' = [op EXCEPT ![o].pc = pc]
Done(o)         == op' = [op EXCEPT ![o] = Idle]
BeginAs(o, k, pc, f) ==
  At(o, "idle") /\ up
  /\ op' = [op EXCEPT ![o] = [kind |-> k, pc |-> pc, form |-> f, failed |-> FALSE]]
Begin(o, k, pc) == BeginAs(o, k, pc, "id")
\* UPDATE plugins SET enabled = ... WHERE id = ?
Update(v)       == IF row = None THEN None ELSE v
UpdateAs(f, v)  == IF f = "id" THEN Update(v) ELSE row
\* the id unload_plugin is called with, after a failed load the manifest's
Unloaded(o)     == IF op[o].failed THEN "id" ELSE op[o].form
\* Only leftover subscriptions add up.
Room            == reg.subs <= MaxSubs

-----------------------------------------------------------------------------
(* The hook bus *)
\* register appends, unregister drops every subscription of the plugin
Subscribe(r)      == [r EXCEPT !.subs = @ + 1]
UnsubscribeOne(r) == [r EXCEPT !.subs = @ - 1, !.left = 0]
Unsubscribe(r)    == [r EXCEPT !.subs = 0, !.left = 0]

\* _run_async_hook: counted in flight from its start to its end, which the
\* timeout of async_call bounds; by the name it is subscribed under
InFlight(o) == IF Unloaded(o) = Subscriber THEN running ELSE {}

CallHook(c) ==
  /\ up /\ reg.subs > 0 /\ c \notin running
  /\ running' = running \cup {c}
  /\ UNCHANGED <<up, loader, file, row, reg, state, kill, lock, op>>

Return(cs) ==
  /\ cs # {} /\ cs \subseteq running
  /\ running' = running \ cs
  /\ UNCHANGED <<up, loader, file, row, reg, state, kill, lock, op>>

HookEnds(c) == loader # "sandbox" /\ Return({c})

\* the subprocess answers with the hook's result or its error, or does not in
\* time
handle_call_hook(c) == loader = "sandbox" /\ Return({c})

\* the subprocess ends: _read_stdout fails every call that waits for it
SubprocessDies == loader = "sandbox" /\ Return(running)

\* wait_for_drain: nothing in flight, or the deadline has passed; the hooks
\* are called meanwhile
NoDeadline(o) == At(o, "drain") /\ InFlight(o) = {}
DrainDeadline(o) == At(o, "drain") /\ InFlight(o) # {}
Drained(o) == NoDeadline(o) \/ DrainDeadline(o)

-----------------------------------------------------------------------------
(* The requests *)
\* INSERT OR IGNORE, or ON CONFLICT with the configuration alone
Ensured == IF row = None THEN "on" ELSE row

\* upload_plugin: the file is written over what was there
Upload(o) ==
  /\ Room
  /\ Begin(o, "upload", "load")
  /\ file' = "present"
  /\ row' = Ensured
  /\ UNCHANGED <<up, loader, reg, state, kill, lock, running>>

\* install_plugin: the same with a source the registry names
Install(o) == Upload(o)

\* configure_plugin: nothing is reloaded
Configure ==
  /\ up /\ file = "present"
  /\ row' = Ensured
  /\ UNCHANGED <<up, loader, file, reg, state, kill, lock, op, running>>

\* toggle_plugin: no row counts as enabled; a loaded plugin is reloaded; the
\* kill switch stays as it is
Toggle(o) ==
  /\ file = "present"
  /\ IF row = "off"
     THEN Room /\ Begin(o, "on", IF state = "active" THEN "drain" ELSE "load")
     ELSE Begin(o, "off", "drain")
  /\ UNCHANGED <<up, loader, file, row, reg, state, kill, lock, running>>

\* disable_plugin, soft or hard: both drain; the id is taken as it is given
Disable(o, f) ==
  /\ BeginAs(o, "disable", "drain", f)
  /\ kill' = kill \cup {f}
  /\ UNCHANGED <<up, loader, file, row, reg, state, lock, running>>

\* enable_plugin: the plugin is loaded under its canonical id
Enable(o, f) ==
  /\ f \in kill /\ Room
  /\ BeginAs(o, "enable", "load", f)
  /\ kill' = kill \ {f}
  /\ UNCHANGED <<up, loader, file, row, reg, state, lock, running>>

\* A batch of read commands: the handlers are those of the instances loaded
\* when the batch comes in
_build_dispatch_map == loader = "class_based" /\ reg.inst

batch_execute(o) ==
  /\ _build_dispatch_map
  /\ Begin(o, "batch", "dispatch")
  /\ UNCHANGED <<up, loader, file, row, reg, state, kill, lock, running>>

\* The reads the user made of the plugin within the window are too many
require_plugin_budget(o) == Done(o)

\* The kill switch is looked at before the awaits of the node's scope and of
\* the budget; mutation, role, permission or node may refuse it too
_dispatch_one(o) ==
  /\ At(o, "dispatch")
  /\ \/ Done(o)
     \/ "id" \notin kill /\ (require_plugin_budget(o) \/ Goto(o, "invoke"))
  /\ UNCHANGED <<up, loader, file, row, reg, state, kill, lock, running>>

\* The handler runs although its plugin may have been unloaded: no drain
\* waits for it
_invoke_plugin_handler(o) ==
  /\ At(o, "invoke")
  /\ Done(o)
  /\ UNCHANGED <<up, loader, file, row, reg, state, kill, lock, running>>

\* delete_plugin, uninstall
Delete(o) ==
  /\ file = "present"
  /\ Begin(o, "delete", "drain")
  /\ UNCHANGED <<up, loader, file, row, reg, state, kill, lock, running>>

-----------------------------------------------------------------------------
(* load_plugin *)
\* An active plugin, or one without a manifest, is refused.
LoadEnter(o) ==
  /\ At(o, "load")
  /\ Goto(o, IF state = "active" \/ file = "absent" THEN "refused" ELSE "lock")
  /\ UNCHANGED <<up, loader, file, row, reg, state, kill, lock, running>>

\* The lock, and the second look at the state
LoadLockedOnce(o) ==
  /\ At(o, "lock") /\ lock = None
  /\ lock' = o
  /\ Goto(o, "prepare")
  /\ UNCHANGED <<up, loader, file, row, reg, state, kill, running>>
LoadLocked(o) ==
  /\ At(o, "lock") /\ lock = None
  /\ IF state = "active"
     THEN Goto(o, "refused") /\ UNCHANGED lock
     ELSE Goto(o, "prepare") /\ lock' = o
  /\ UNCHANGED <<up, loader, file, row, reg, state, kill, running>>

\* except in load_plugin: the plugin is unloaded, the lock still held
Fail(o) ==
  /\ op' = [op EXCEPT ![o].pc = "drain", ![o].failed = TRUE]
  /\ state' = "error"

\* Scheduler.start replaces the tasks of an earlier load
StartTasks(r)    == [r EXCEPT !.sched = TRUE]
\* RouteRegistrar.mount leaves the routes of an earlier load alone
Mount(r)         == [r EXCEPT !.routes = TRUE]
\* PluginProcessWrapper.start: the subprocess has answered
StartWrapper(r)  == [r EXCEPT !.inst = TRUE]

\* _load_inprocess after the last await: hooks, schedules and routes in one go
LoadInprocess(r) == Mount(StartTasks([Subscribe(r) EXCEPT !.inst = TRUE]))
\* register(pm) of the plugin's module: its hooks are all it has
LoadLegacy(r)    == Subscribe(r)
\* an exception out of mount, or of register
LoadPartly(r)    == IF loader = "legacy" THEN LoadLegacy(r)
                    ELSE StartTasks([Subscribe(r) EXCEPT !.inst = TRUE])
\* the subprocess imports the plugin and announces the hooks it registered
load_and_register(r) == Subscribe(StartWrapper(r))
LoadSandbox(r)   == Mount(load_and_register(r))
\* _rollback_inprocess_load: the subscriptions of this load alone; tasks,
\* routes and instance whosever they are
Rollback(r)      == [r EXCEPT !.inst = FALSE, !.sched = FALSE, !.routes = FALSE]

Loaded(r) == CASE loader = "sandbox"     -> LoadSandbox(r)
               [] loader = "legacy"      -> LoadLegacy(r)
               [] loader = "class_based" -> LoadInprocess(r)

\* a class, a command or a hook of what was registered bears a foreign name:
\* all of it is taken back
sweep_namespace_violations(o) ==
  /\ file = "present" /\ loader # "sandbox"
  /\ reg' = Rollback(reg)
  /\ Fail(o)

\* _load up to the registrations.  Tables, import or subprocess may fail, or
\* the namespace sweep reject what was registered.
Prepare(o) ==
  /\ At(o, "prepare")
  /\ \/ /\ file = "present"
        /\ reg' = Loaded(reg)
        /\ Goto(o, "swap")
        /\ UNCHANGED state
     \/ Fail(o) /\ UNCHANGED reg
     \/ sweep_namespace_violations(o)
     \/ /\ file = "present" /\ loader # "sandbox"
        /\ reg' = LoadPartly(reg)
        /\ Fail(o)
  /\ UNCHANGED <<up, loader, file, row, kill, lock, running>>

\* Pages, then _swap_registry, which rebuilds the allowlist, counts a revision
\* and publishes it; then the plugin is active.
SwapRegistry(o) ==
  /\ At(o, "swap")
  /\ \/ Goto(o, "commit") /\ state' = "active"
     \/ Fail(o)
  /\ UNCHANGED <<up, loader, file, row, reg, kill, lock, running>>

CommitLoad(o) ==
  /\ At(o, "commit")
  /\ \/ /\ row' = Update("on")
        /\ lock' = None
        /\ Goto(o, "loaded")
        /\ UNCHANGED state
     \/ Fail(o) /\ UNCHANGED <<row, lock>>
  /\ UNCHANGED <<up, loader, file, reg, kill, running>>

\* after the unload of a failed load: status ERROR, enabled = 1
FailLoad(o) ==
  /\ At(o, "failed")
  /\ row' = Update("on")
  /\ lock' = None
  /\ op' = [op EXCEPT ![o].pc = "refused", ![o].failed = FALSE]
  /\ UNCHANGED <<up, loader, file, reg, state, kill, running>>

-----------------------------------------------------------------------------
(* unload_plugin, which takes no lock *)
\* unmount, page_registry.unregister, _instances or _wrappers without it
Unmount(r) == [r EXCEPT !.inst = FALSE, !.routes = FALSE]

\* What _states no longer accounts for, once its entry is deleted
Forget(r) == [r EXCEPT !.left = r.subs]

\* Once drained, the hooks subscribed under the very id given go; then
\* Scheduler.stop waits for the tasks of an instance, or wrapper.stop for the
\* subprocess, if there are any.  Tasks, routes, instance and subprocess are
\* found by the id of the manifest alone, the state by every form of the id.
Unregister(o) ==
  /\ Drained(o)
  /\ LET r == IF Unloaded(o) = Subscriber THEN Unsubscribe(reg) ELSE reg IN
       CASE Unloaded(o) = "id" /\ loader = "class_based" /\ r.sched ->
              reg' = [r EXCEPT !.sched = FALSE] /\ Goto(o, "stop") /\ UNCHANGED state
         [] Unloaded(o) = "id" /\ loader = "sandbox" /\ r.inst ->
              reg' = Unmount(r) /\ Goto(o, "stop") /\ UNCHANGED state
         [] OTHER ->
              /\ reg' = Forget(IF Unloaded(o) = "id" THEN Unmount(r) ELSE r)
              /\ Goto(o, "persist") /\ state' = None
  /\ UNCHANGED <<up, loader, file, row, kill, lock, running>>

Stopped(o) ==
  /\ At(o, "stop")
  /\ reg' = Forget(Unmount(reg))
  /\ state' = None
  /\ Goto(o, "persist")
  /\ UNCHANGED <<up, loader, file, row, kill, lock, running>>

\* _swap_registry(removed), then enabled = 0
Persist(o) ==
  /\ At(o, "persist")
  /\ row' = UpdateAs(Unloaded(o), "off")
  /\ Goto(o, IF op[o].failed THEN "failed"
             ELSE IF op[o].kind = "on" THEN "load" ELSE "unloaded")
  /\ UNCHANGED <<up, loader, file, reg, state, kill, lock, running>>

-----------------------------------------------------------------------------
(* The requests end *)
\* toggle_plugin upserts; a re-enabled plugin is marked whatever load_plugin
\* returned; an upload that was not loaded removes the file.
Finish(o) ==
  /\ op[o].pc \in {"loaded", "refused", "unloaded"}
  /\ LET k == op[o].kind IN
       /\ row' = CASE k = "on" /\ At(o, "loaded")   -> "on"
                   [] k = "enable"                  -> UpdateAs(op[o].form, "on")
                   [] k = "off"                     -> "off"
                   [] k = "disable"                 -> UpdateAs(op[o].form, "off")
                   [] k = "delete"                  -> None
                   [] OTHER                         -> row
       /\ file' = IF file = "present" /\ (k = "delete" \/ (k = "upload" /\ At(o, "refused")))
                  THEN "gone" ELSE file
  /\ Done(o)
  /\ UNCHANGED <<up, loader, reg, state, kill, lock, running>>

-----------------------------------------------------------------------------
(* The process *)
\* An archive in the plugins directory is extracted if its hash, its manifest
\* and its members are right and the plugin's directory is not there
_install_zip_plugin(f) == IF f = "present" THEN {} ELSE {"present"}

\* PluginRegistry.scan: a manifest for every plugin whose files are there
scan(f) == (IF f = "gone" THEN {"absent"} ELSE {f}) \cup _install_zip_plugin(f)

\* initialize: scan, one row for each new plugin, the enabled ones loaded.
\* A load that fails here is not unloaded.
Boot ==
  /\ ~ up
  /\ up' = TRUE
  /\ file' \in scan(file)
  /\ row' = IF file' = "present" /\ row = None THEN "on" ELSE row
  /\ IF file' = "present" /\ row # "off"
     THEN \/ reg' = Loaded(reg) /\ state' = "active"
          \/ reg' = [Loaded(reg) EXCEPT !.left = 1] /\ state' = "error"
          \/ reg' = reg /\ state' = "error"
     ELSE UNCHANGED <<reg, state>>
  /\ UNCHANGED <<loader, kill, lock, op, running>>

Stop ==
  /\ up
  /\ up' = FALSE
  /\ reg' = Nothing
  /\ state' = None
  /\ kill' = {}
  /\ lock' = None
  /\ op' = [o \in Ops |-> Idle]
  /\ running' = {}

Crash == Stop /\ UNCHANGED <<loader, file, row>>

\* shutdown, after the requests: unload_plugin with persist=False
Shutdown == (\A o \in Ops : At(o, "idle")) /\ Stop /\ UNCHANGED <<loader, file, row>>

-----------------------------------------------------------------------------
Request(o) ==
  \/ Upload(o) \/ Install(o) \/ Toggle(o) \/ Delete(o) \/ batch_execute(o)
  \/ \E f \in _plugin_id_forms : Disable(o, f) \/ Enable(o, f)

Step(o) ==
  \/ LoadEnter(o) \/ LoadLocked(o) \/ Prepare(o) \/ SwapRegistry(o) \/ CommitLoad(o) \/ FailLoad(o)
  \/ Unregister(o) \/ Stopped(o) \/ Persist(o)
  \/ Finish(o)
  \/ _dispatch_one(o) \/ _invoke_plugin_handler(o)

Next ==
  \/ \E o \in Ops : Request(o) \/ Step(o)
  \/ \E c \in Calls : CallHook(c) \/ HookEnds(c) \/ handle_call_hook(c)
  \/ SubprocessDies \/ Configure \/ Boot \/ Shutdown \/ Crash

\* The event loop resumes every coroutine, whose awaits have timeouts, and
\* asyncio.Lock serves its waiters in turn; nothing makes a hook be called.
Fairness == \A o \in Ops : WF_vars(Step(o)) /\ SF_vars(LoadLocked(o))

Spec == Init /\ [][Next]_vars /\ Fairness

-----------------------------------------------------------------------------
(* However loads, unloads and failures interleave, no load registers the   *)
(* plugin's hooks beside those of another: the lock and the second look    *)
(* under it keep two loads from both registering, and a failed one is      *)
(* unregistered before the next.  The exceptions are the subscriptions     *)
(* whose state entry was removed without them: what a failed load at       *)
(* start-up leaves behind, which initialize does not unload; loads that    *)
(* ran while an unload waited for the tasks to stop; and unloads under     *)
(* another id than the hooks are subscribed under.                         *)
NoDoubleLoad == reg.subs <= reg.left + 1

(* Every request ends although unloading waits for the plugin's hooks,     *)
(* which are called meanwhile, and although a failed load unloads while it *)
(* holds the lock other loads wait for.                                    *)
RequestsEnd == \A o \in Ops : []<>(op[o].pc = "idle")

=============================================================================
