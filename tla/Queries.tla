------------------------------- MODULE Queries -------------------------------
(***************************************************************************)
(* The requests of the master to one connected worker: the cached list of  *)
(* services behind two single flights and a collector, the background and  *)
(* the requested disk scans, the actions of an administrator, and on the   *)
(* other side the pools of the Go worker's operational phase with the      *)
(* handlers of the intents.                                                *)
(*                                                                         *)
(* A slot r is one call on the master (mpc) and the goroutine that serves  *)
(* its intent on the worker (wpc); the master may give up while the        *)
(* goroutine still runs.                                                   *)
(***************************************************************************)
EXTENDS Naturals, FiniteSets

CONSTANTS
  Slots,       \* slots for concurrent calls
  Kinds,       \* the calls that are made
  None,
  QueryCap,    \* capacity of the worker's querySem
  MaxEpoch     \* bound on the sessions

\* _services_single_flight, _systemd_single_flight
Flights == {"api", "systemd"}
Lists   == Flights \cup {"collect"}
Scans   == {"scan", "trigger"}
ServiceActions   == {"RESTART_SERVICE", "START_SERVICE", "STOP_SERVICE"}
ContainerActions == {"RESTART_CONTAINER", "START_CONTAINER", "STOP_CONTAINER", "DELETE_CONTAINER"}
Actions          == ServiceActions \cup ContainerActions
Reads == {"GET_STATS", "LIST_SERVICES", "STATUS_SERVICE", "LIST_CONTAINERS", "READ_LOGS", "READ_LOGS_SERVICE",
          "LIST_LOG_SOURCES", "LOG_HISTOGRAM", "LIST_LOG_FILES"}

ASSUME BoundsAssumption ==
  /\ QueryCap \in Nat \ {0} /\ MaxEpoch \in Nat
  /\ Kinds \subseteq Lists \cup Scans \cup Actions \cup {"read"}
  /\ None \notin Slots

VARIABLES
  sess,     \* the session: up, and its epoch
  slot,     \* the calls
  flight,   \* SingleFlight._in_flight of the node: the leader's call
  cache,    \* is_stale(cached_services_at)
  inflight, \* NodeManager._disk_scan_inflight has the node
  host      \* the unit and the container the actions are about

vars == <<sess, slot, flight, cache, inflight, host>>

Free == [kind |-> None, mpc |-> "free", wpc |-> "free", epoch |-> 0]

(* Every variable has its declared shape. *)
TypeOK ==
  /\ sess \in [up : BOOLEAN, epoch : 0..MaxEpoch]
  /\ slot \in [Slots -> [kind : Kinds \cup {None},
                         mpc : {"free", "follow", "wait", "got", "end", "pop"},
                         wpc : {"free", "slot", "run", "inspected"},
                         epoch : 0..MaxEpoch]]
  /\ flight \in [Flights -> Slots \cup {None}]
  /\ cache \in {"stale", "fresh"}
  /\ inflight \in BOOLEAN
  /\ host \in [svc : {"active", "inactive"}, ctr : {"running", "exited", "gone"}]

Init ==
  /\ sess = [up |-> FALSE, epoch |-> 0]
  /\ slot = [r \in Slots |-> Free]
  /\ flight = [f \in Flights |-> None]
  /\ cache = "stale"
  /\ inflight = FALSE
  /\ host \in [svc : {"active"}, ctr : {"running", "exited"}]

-----------------------------------------------------------------------------
Kind(r)       == slot[r].kind
Master(r, pc) == slot[r].mpc = pc
Worker(r, pc) == slot[r].wpc = pc
Live(r)       == slot[r].wpc # "free"
\* the call returns; its slot is free once the goroutine has ended too
Set(r, m, w)  == slot' = [slot EXCEPT ![r] =
                             [kind |-> IF m = "free" /\ w = "free" THEN None ELSE @.kind,
                              mpc |-> m, wpc |-> w,
                              epoch |-> IF w = "free" THEN 0 ELSE @.epoch]]

Connect ==
  /\ ~ sess.up /\ sess.epoch < MaxEpoch
  /\ sess' = [up |-> TRUE, epoch |-> sess.epoch + 1]
  /\ UNCHANGED <<slot, flight, cache, inflight, host>>

\* opCancel: the goroutines of the session are told to stop
Disconnect ==
  /\ sess.up
  /\ sess' = [sess EXCEPT !.up = FALSE]
  /\ UNCHANGED <<slot, flight, cache, inflight, host>>

-----------------------------------------------------------------------------
(* The worker's pools, made anew by each RunOperational *)
Mutation(k)   == k \in Actions
InPool(r, K)  == Live(r) /\ Kind(r) \in K /\ slot[r].epoch = sess.epoch
Busy(k)       ==
  \/ Mutation(k) /\ \E r \in Slots : InPool(r, Actions)
  \/ k \in Scans /\ \E r \in Slots : InPool(r, Scans)
Current(r)    == sess.up /\ sess.epoch = slot[r].epoch
QuerySem(e)   == {r \in Slots : Live(r) /\ slot[r].epoch = e
                                  /\ ~ Worker(r, "slot") /\ ~ Mutation(Kind(r))}

-----------------------------------------------------------------------------
(* The calls of the master *)
\* WorkerQueryPort.query, dispatch_admin_action: refused without a connection;
\* the worker answers WORKER_BUSY at once or starts a goroutine.
Query(r, k) ==
  /\ slot[r] = Free
  /\ slot' = [slot EXCEPT ![r] =
       IF sess.up /\ ~ Busy(k)
       THEN [kind |-> k, mpc |-> "wait", wpc |-> IF Mutation(k) THEN "run" ELSE "slot",
             epoch |-> sess.epoch]
       ELSE [kind |-> k, mpc |-> "end", wpc |-> "free", epoch |-> 0]]
  /\ UNCHANGED <<sess, cache, host>>

\* SingleFlight.run: a future that is done is replaced
Done(f) == flight[f] # None => slot[flight[f]].mpc = "pop"

\* A cached list, however old, is served without a query unless force_refresh.
ListServices(r, f) ==
  /\ \/ Done(f) /\ Query(r, f) /\ flight' = [flight EXCEPT ![f] = r]
     \/ /\ ~ Done(f) /\ slot[r] = Free
        /\ slot' = [slot EXCEPT ![r].kind = f, ![r].mpc = "follow"]
        /\ UNCHANGED <<sess, flight, cache, host>>
  /\ UNCHANGED inflight

\* The two pages share the cache and not the flight.
list_services(r)       == "api" \in Kinds /\ ListServices(r, "api")
list_services_route(r) == "systemd" \in Kinds /\ ListServices(r, "systemd")

\* _collect_one, whatever the cache holds
Collect(r) == sess.up /\ Query(r, "collect") /\ UNCHANGED <<flight, inflight>>

\* trigger_disk_scan: under the lock, one at a time; within the TTL it
\* returns without a query
TriggerDiskScan(r) ==
  /\ ~ inflight /\ sess.up
  /\ inflight' = TRUE
  /\ \/ Query(r, "trigger")
     \/ /\ slot[r] = Free
        /\ slot' = [slot EXCEPT ![r].kind = "trigger", ![r].mpc = "end"]
        /\ UNCHANGED <<sess, cache, host>>
  /\ UNCHANGED flight

\* get_disk_scan does not look at the marker.  What a scan stores only lets
\* later ones return early, which they may do in any case.
GetDiskScan(r) == Query(r, "scan") /\ UNCHANGED <<flight, inflight>>

\* The endpoints that ask and store nothing
Read(r)             == Query(r, "read") /\ UNCHANGED <<flight, inflight>>
GetDiskMounts(r)    == Read(r)   \* GET_STATS before a scan
GetServiceStatus(r) == Read(r)
ListContainers(r)   == Read(r)
ContainersPage(r)   == sess.up /\ Read(r)   \* of the connected nodes
GetNodeLogs(r)      == Read(r)
\* LIST_SERVICES, then LIST_CONTAINERS; the lists are stored and the age of the
\* cached one is not, so that it stays as fresh or stale as it was.  The disk
\* scan that follows is TriggerDiskScan.
update_all_nodes_cache(r) == sess.up /\ Read(r)
GetLogSources(r)    == Read(r)
GetLogHistogram(r)  == Read(r)

\* restart_service and restart_container; the pages of the systemd and docker
\* plugins, which refuse some roles and protected units; the proposals
Act(r, k)            == Query(r, k) /\ UNCHANGED <<flight, inflight>>
RestartService(r)    == Act(r, "RESTART_SERVICE")
RestartContainer(r)  == Act(r, "RESTART_CONTAINER")
ServiceAction(r)     == \E k \in ServiceActions \cap Kinds : Act(r, k)
ContainerAction(r)   == \E k \in ContainerActions \cap Kinds : Act(r, k)

-----------------------------------------------------------------------------
(* The goroutines of the worker *)
\* querySem, or opCtx.Done; a scan holds diskScanSem meanwhile
TakeSlot(r) ==
  /\ Worker(r, "slot")
  /\ \/ Cardinality(QuerySem(slot[r].epoch)) < QueryCap
        /\ slot' = [slot EXCEPT ![r].wpc = "run"]
     \/ ~ Current(r) /\ Set(r, slot[r].mpc, "free")
  /\ UNCHANGED <<sess, flight, cache, inflight, host>>

\* What a command does to the host when it takes effect
handleRestartService(h)   == [h EXCEPT !.svc = "active"]
handleStartService(h)     == [h EXCEPT !.svc = "active"]
handleStopService(h)      == [h EXCEPT !.svc = "inactive"]
StartsUnit(h)             == [h EXCEPT !.ctr = "active"]
handleRestartContainer(h) == IF h.ctr = "gone" THEN h ELSE [h EXCEPT !.ctr = "running"]
handleStartContainer(h)   == IF h.ctr = "gone" THEN h ELSE [h EXCEPT !.ctr = "running"]
handleStopContainer(h)    == IF h.ctr = "gone" THEN h ELSE [h EXCEPT !.ctr = "exited"]
\* Listings, walks and tails leave it alone.
handleListServices(h)     == h
handleStatusService(h)    == h
handleListContainers(h)   == h
handleDiskScan(h)         == h
handleReadLogs(h)         == h
handleReadLogsService(h)  == h
handleListLogSources(h)   == h
handleLogHistogram(h)     == h
handleListLogFiles(h)     == h
handleGetStats(h)         == h

\* dispatchIntent
Dispatch(a, h) ==
  CASE a = "RESTART_SERVICE"   -> handleRestartService(h)
    [] a = "START_SERVICE"     -> handleStartService(h)
    [] a = "STOP_SERVICE"      -> handleStopService(h)
    [] a = "RESTART_CONTAINER" -> handleRestartContainer(h)
    [] a = "START_CONTAINER"   -> handleStartContainer(h)
    [] a = "STOP_CONTAINER"    -> handleStopContainer(h)
    [] a = "LIST_SERVICES"     -> handleListServices(h)
    [] a = "STATUS_SERVICE"    -> handleStatusService(h)
    [] a = "LIST_CONTAINERS"   -> handleListContainers(h)
    [] a = "DISK_SCAN"         -> handleDiskScan(h)
    [] a = "READ_LOGS"         -> handleReadLogs(h)
    [] a = "READ_LOGS_SERVICE" -> handleReadLogsService(h)
    [] a = "LIST_LOG_SOURCES"  -> handleListLogSources(h)
    [] a = "LOG_HISTOGRAM"     -> handleLogHistogram(h)
    [] a = "LIST_LOG_FILES"    -> handleListLogFiles(h)
    [] a = "GET_STATS"         -> handleGetStats(h)

\* the intents a call sends
IntentsOf(k) ==
  CASE k \in Lists -> {"LIST_SERVICES"} [] k \in Scans -> {"DISK_SCAN"} [] k = "read" -> Reads
    [] OTHER -> {k}

Effects(k, h) == {Dispatch(a, h) : a \in IntentsOf(k)}

\* The result goes out if the session is still the one it came in, and finds
\* the call waiting or not; the slots are given back.
Finish(r, res) ==
  IF Current(r) /\ Master(r, "wait")
  THEN Set(r, IF res = "ok" /\ Kind(r) \in Lists \cup ServiceActions THEN "got" ELSE "end",
           "free")
  ELSE Set(r, slot[r].mpc, "free")

\* A command succeeds; fails, or its parameter is refused; or times out or is
\* killed with opCtx after it took effect.
Execute(r) ==
  /\ Worker(r, "run") /\ Kind(r) # "DELETE_CONTAINER"
  /\ \/ Finish(r, "ok") /\ host' \in Effects(Kind(r), host)
     \/ Finish(r, "failed") /\ host' \in {host} \cup Effects(Kind(r), host)
  /\ UNCHANGED <<sess, flight, cache, inflight>>

\* DELETE_CONTAINER inspects identity, name and state, then asks Docker,
\* which refuses a running container (force=false).
Inspect(r) ==
  /\ Worker(r, "run") /\ Kind(r) = "DELETE_CONTAINER"
  /\ IF host.ctr = "exited"
     THEN slot' = [slot EXCEPT ![r].wpc = "inspected"]
     ELSE Finish(r, "failed")
  /\ UNCHANGED <<sess, flight, cache, inflight, host>>

Delete(r) ==
  /\ Worker(r, "inspected")
  /\ \/ host.ctr = "exited" /\ Finish(r, "ok") /\ host' = [host EXCEPT !.ctr = "gone"]
     \/ Finish(r, "failed") /\ UNCHANGED host
  /\ UNCHANGED <<sess, flight, cache, inflight>>

-----------------------------------------------------------------------------
(* The calls go on *)
Timeout(r) ==
  /\ Master(r, "wait")
  /\ Set(r, "end", slot[r].wpc)
  /\ UNCHANGED <<sess, flight, cache, inflight, host>>

\* set_cached_services, only for a list that parses; an invalidation sets
\* cached_at to 0 and keeps the list.  A failed write is logged.
Store(r) ==
  /\ Master(r, "got")
  /\ cache' = IF Kind(r) \in Lists THEN "fresh" ELSE "stale"
  /\ Set(r, "end", slot[r].wpc)
  /\ UNCHANGED <<sess, flight, inflight, host>>

\* The leader's future gets its result or its exception, which resumes the
\* followers; the entry is popped afterwards.
ResumeNone(r) == slot
ResumeAll(r) ==
  [s \in Slots |-> IF s # r /\ Master(s, "follow") /\ Kind(s) = Kind(r)
                   THEN Free ELSE slot[s]]

Publish(r) ==
  /\ Kind(r) \in Flights /\ Master(r, "end")
  /\ slot' = [ResumeAll(r) EXCEPT ![r].mpc = "pop"]
  /\ UNCHANGED <<sess, flight, cache, inflight, host>>

\* The entry may be that of a later leader by then.
PopAny(r) ==
  /\ Master(r, "pop")
  /\ flight' = [flight EXCEPT ![Kind(r)] = None]
  /\ Set(r, "free", slot[r].wpc)
  /\ UNCHANGED <<sess, cache, inflight, host>>
Pop(r) ==
  /\ Master(r, "pop")
  /\ flight' = [flight EXCEPT ![Kind(r)] = IF @ = r THEN None ELSE @]
  /\ Set(r, "free", slot[r].wpc)
  /\ UNCHANGED <<sess, cache, inflight, host>>

\* The other calls return; trigger_disk_scan's finally releases the marker.
ReleasedOnSuccess(r) == IF Kind(r) = "trigger" /\ Live(r) THEN FALSE ELSE inflight
Released(r) == IF Kind(r) = "trigger" THEN FALSE ELSE inflight

Return(r) ==
  /\ Kind(r) \notin Flights /\ Master(r, "end")
  /\ inflight' = Released(r)
  /\ Set(r, "free", slot[r].wpc)
  /\ UNCHANGED <<sess, flight, cache, host>>

-----------------------------------------------------------------------------
Reading(r) ==
  GetDiskMounts(r) \/ GetServiceStatus(r) \/ ListContainers(r) \/ ContainersPage(r)
    \/ GetNodeLogs(r) \/ GetLogSources(r) \/ GetLogHistogram(r) \/ update_all_nodes_cache(r)

Begin(r) ==
  \/ list_services(r) \/ list_services_route(r)
  \/ "collect" \in Kinds /\ Collect(r)
  \/ "trigger" \in Kinds /\ TriggerDiskScan(r)
  \/ "scan" \in Kinds /\ GetDiskScan(r)
  \/ "read" \in Kinds /\ Reading(r)
  \/ "RESTART_SERVICE" \in Kinds /\ RestartService(r)
  \/ "RESTART_CONTAINER" \in Kinds /\ RestartContainer(r)
  \/ ServiceAction(r) \/ ContainerAction(r)

Call(r) ==
  Timeout(r) \/ Store(r) \/ Publish(r) \/ Pop(r) \/ Return(r)

Goroutine(r) == TakeSlot(r) \/ Execute(r) \/ Inspect(r) \/ Delete(r)

Next ==
  \/ Connect \/ Disconnect
  \/ \E r \in Slots : Begin(r) \/ Call(r) \/ Goroutine(r)

\* The event loop resumes every call, each wait of which has a timeout; the
\* goroutines run and every command has a deadline; a Go channel serves its
\* blocked senders in turn.
Fairness ==
  \A r \in Slots : WF_vars(Call(r)) /\ WF_vars(Goroutine(r)) /\ SF_vars(TakeSlot(r))

Spec == Init /\ [][Next]_vars /\ Fairness

-----------------------------------------------------------------------------
(* Every call on the master returns and every intent the worker accepted   *)
(* ends: a follower is resumed whether its leader succeeds, fails or times *)
(* out, and a scan that holds diskScanSem and queues for querySem does not *)
(* wait for ever, even when its session has ended.                         *)
Settles == \A r \in Slots : []<>(slot[r] = Free)

(* While the marker of a background scan is set its call is running: no    *)
(* refusal, timeout, early return or late answer leaves the node without   *)
(* scans.                                                                  *)
InflightHeld == inflight => \E r \in Slots : Kind(r) = "trigger" /\ slot[r].mpc # "free"

(* Each page has one query of a node's list under way, and whoever joined  *)
(* a flight waits on a leader that has yet to resume it, although a future *)
(* is done, and replaced by the next call, before its entry is popped.     *)
Asking(r, f) == Kind(r) = f /\ slot[r].mpc \in {"wait", "got", "end"}
OneQuery ==
  \A f \in Flights, r \in Slots :
    /\ Asking(r, f) => flight[f] = r
    /\ Kind(r) = f /\ Master(r, "follow") => flight[f] # None /\ Asking(flight[f], f)

=============================================================================
