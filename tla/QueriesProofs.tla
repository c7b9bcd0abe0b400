---------------------------- MODULE QueriesProofs ----------------------------
(***************************************************************************)
(* Proofs about Queries, for any calls at a time, any mix of them and any  *)
(* number of sessions: the marker of the background scan is held by        *)
(* exactly the call that set it, and a single flight has one leader, whom  *)
(* its followers can count on.                                             *)
(***************************************************************************)
EXTENDS Queries, TLAPS

(* A slot in use belongs to a call that is made, and only a leader of a    *)
(* single flight pops an entry.                                            *)
UsedOK(r) == slot[r].mpc # "free" \/ slot[r].wpc # "free" => slot[r].kind \in Kinds
PopOK(r)  == slot[r].mpc = "pop" => slot[r].kind \in Flights
SlotInv   == \A r \in Slots : UsedOK(r) /\ PopOK(r)

(* The calls of trigger_disk_scan that have not returned; the worker's     *)
(* goroutine may outlive its call, which then holds nothing.               *)
Scanning(r) == slot[r].kind = "trigger" /\ slot[r].mpc # "free"

(* The marker is set exactly while there is one of them, and there is      *)
(* never a second, whose return would release the first one's marker.      *)
MarkerInv ==
  /\ \A r \in Slots : Scanning(r) => inflight
  /\ \A r, s \in Slots : Scanning(r) /\ Scanning(s) => r = s
  /\ InflightHeld

Inv == TypeOK /\ SlotInv /\ MarkerInv

SlotType == [kind : Kinds \cup {None},
             mpc : {"free", "follow", "wait", "got", "end", "pop"},
             wpc : {"free", "slot", "run", "inspected"},
             epoch : 0..MaxEpoch]
HostType == [svc : {"active", "inactive"}, ctr : {"running", "exited", "gone"}]

-----------------------------------------------------------------------------
(* What Set writes: a slot of the right shape, the others as they were.    *)
LEMMA SetSlot ==
  ASSUME slot \in [Slots -> SlotType], NEW r \in Slots,
         NEW m \in {"free", "follow", "wait", "got", "end", "pop"},
         NEW w \in {"free", "slot", "run", "inspected"},
         Set(r, m, w)
  PROVE  /\ slot' \in [Slots -> SlotType]
         /\ \A s \in Slots \ {r} : slot'[s] = slot[s]
         /\ slot'[r].mpc = m /\ slot'[r].wpc = w
         /\ m # "free" \/ w # "free" => slot'[r].kind = slot[r].kind
<1>1. 0 \in 0..MaxEpoch
  BY BoundsAssumption
<1>2. slot[r] \in SlotType
  OBVIOUS
<1>3. slot' = [slot EXCEPT ![r] = [kind |-> IF m = "free" /\ w = "free" THEN None ELSE slot[r].kind,
                                   mpc |-> m, wpc |-> w,
                                   epoch |-> IF w = "free" THEN 0 ELSE slot[r].epoch]]
  BY <1>2 DEF Set, SlotType
<1> QED
  BY <1>1, <1>2, <1>3 DEF SlotType

(* A step of one slot that neither makes nor ends a call of                *)
(* trigger_disk_scan keeps what is known of the slots and the marker.      *)
LEMMA OneSlot ==
  ASSUME Inv, NEW r \in Slots,
         slot' \in [Slots -> SlotType], \A s \in Slots \ {r} : slot'[s] = slot[s],
         slot'[r].mpc # "free" \/ slot'[r].wpc # "free" => slot'[r].kind \in Kinds,
         slot'[r].mpc = "pop" => slot'[r].kind \in Flights,
         slot'[r].kind = "trigger" /\ slot'[r].mpc # "free"
           <=> slot[r].kind = "trigger" /\ slot[r].mpc # "free",
         inflight' = inflight
  PROVE  SlotInv' /\ MarkerInv'
<1>1. SlotInv'
  BY DEF Inv, SlotInv, UsedOK, PopOK
<1>2. \A s \in Slots : Scanning(s)' <=> Scanning(s)
  BY DEF Scanning
<1>3. MarkerInv'
  BY <1>2 DEF Inv, MarkerInv, InflightHeld, Scanning, Kind
<1> QED
  BY <1>1, <1>3

(* The slot that a query fills is a waiting one or one already refused.    *)
LEMMA QuerySlot ==
  ASSUME TypeOK, NEW r \in Slots, NEW k \in Kinds, Query(r, k)
  PROVE  /\ slot' \in [Slots -> SlotType]
         /\ \A s \in Slots \ {r} : slot'[s] = slot[s]
         /\ slot'[r].kind = k /\ slot'[r].mpc \in {"wait", "end"}
         /\ slot[r].mpc = "free"
<1>1. 0 \in 0..MaxEpoch /\ sess.epoch \in 0..MaxEpoch
  BY BoundsAssumption DEF TypeOK
<1>2. slot \in [Slots -> SlotType]
  BY DEF TypeOK, SlotType
<1>3. slot[r].mpc = "free"
  BY DEF Query, Free
<1> DEFINE started == [kind |-> k, mpc |-> "wait", wpc |-> IF Mutation(k) THEN "run" ELSE "slot",
                       epoch |-> sess.epoch]
           refused == [kind |-> k, mpc |-> "end", wpc |-> "free", epoch |-> 0]
<1>4. started \in SlotType /\ refused \in SlotType
  BY <1>1 DEF SlotType
<1>5. slot' = [slot EXCEPT ![r] = started] \/ slot' = [slot EXCEPT ![r] = refused]
  BY DEF Query, Free
<1>6. started.kind = k /\ started.mpc = "wait" /\ refused.kind = k /\ refused.mpc = "end"
  OBVIOUS
<1> HIDE DEF started, refused
<1> QED
  BY <1>2, <1>3, <1>4, <1>5, <1>6

(* A query of another kind than trigger_disk_scan's.                       *)
LEMMA OtherQuery ==
  ASSUME Inv, NEW r \in Slots, NEW k \in Kinds \ {"trigger"}, Query(r, k),
         flight' \in [Flights -> Slots \cup {None}], inflight' = inflight
  PROVE  Inv'
<1>1. TypeOK
  BY DEF Inv
<1>2. /\ slot' \in [Slots -> SlotType]
      /\ \A s \in Slots \ {r} : slot'[s] = slot[s]
      /\ slot'[r].kind = k /\ slot'[r].mpc \in {"wait", "end"}
      /\ slot[r].mpc = "free"
  BY <1>1, QuerySlot
<1>3. SlotInv' /\ MarkerInv'
  BY <1>2, OneSlot
<1>4. TypeOK'
  BY <1>1, <1>2 DEF TypeOK, SlotType, Query
<1> QED
  BY <1>3, <1>4 DEF Inv

-----------------------------------------------------------------------------
(* Each command leaves a host behind.                                      *)
LEMMA DispatchKeeps ==
  ASSUME NEW h \in HostType,
         NEW a \in (Actions \ {"DELETE_CONTAINER"}) \cup Reads \cup {"DISK_SCAN"}
  PROVE  Dispatch(a, h) \in HostType
<1> USE DEF HostType
<1>1. CASE a \in ServiceActions
  BY <1>1 DEF ServiceActions, Dispatch, handleRestartService, handleStartService, handleStopService
<1>2. CASE a \in ContainerActions \ {"DELETE_CONTAINER"}
  BY <1>2 DEF ContainerActions, Dispatch, handleRestartContainer, handleStartContainer,
              handleStopContainer
<1>3. CASE a \in Reads \cup {"DISK_SCAN"}
  <2>1. Dispatch(a, h) = h
    BY <1>3 DEF Reads, Dispatch, handleListServices, handleStatusService, handleListContainers,
                handleDiskScan, handleReadLogs, handleReadLogsService, handleListLogSources,
                handleLogHistogram, handleListLogFiles, handleGetStats
  <2> QED
    BY <2>1
<1> QED
  BY <1>1, <1>2, <1>3 DEF Actions

LEMMA EffectsKeep ==
  ASSUME NEW h \in HostType, NEW k \in Kinds \ {"DELETE_CONTAINER"}, NEW g \in Effects(k, h)
  PROVE  g \in HostType
<1>1. k \in Lists \cup Scans \cup Actions \cup {"read"}
  BY BoundsAssumption
<1>2. IntentsOf(k) \subseteq (Actions \ {"DELETE_CONTAINER"}) \cup Reads \cup {"DISK_SCAN"}
  <2>1. CASE k \in Lists
    BY <2>1 DEF IntentsOf, Reads
  <2>2. CASE k \in Scans
    BY <2>2 DEF IntentsOf, Scans, Lists, Flights
  <2>3. CASE k = "read"
    BY <2>3 DEF IntentsOf, Scans, Lists, Flights
  <2>4. CASE k \in Actions
    BY <2>4 DEF IntentsOf, Scans, Lists, Flights, Actions, ServiceActions, ContainerActions
  <2> QED
    BY <1>1, <2>1, <2>2, <2>3, <2>4
<1>3. PICK a \in IntentsOf(k) : g = Dispatch(a, h)
  BY DEF Effects
<1> QED
  BY <1>2, <1>3, DispatchKeeps

-----------------------------------------------------------------------------
LEMMA InitInv == Init => Inv
<1> SUFFICES ASSUME Init PROVE Inv
  OBVIOUS
<1>1. 0 \in 0..MaxEpoch
  BY BoundsAssumption
<1>2. \A r \in Slots : slot[r] = Free
  BY DEF Init
<1>3. Free \in SlotType /\ Free.mpc = "free" /\ Free.wpc = "free"
  BY <1>1 DEF Free, SlotType
<1>4. TypeOK
  BY <1>1, <1>3 DEF Init, TypeOK, SlotType
<1>5. SlotInv
  BY <1>2, <1>3 DEF SlotInv, UsedOK, PopOK
<1>6. MarkerInv
  BY <1>2, <1>3 DEF MarkerInv, InflightHeld, Scanning, Init
<1> QED
  BY <1>4, <1>5, <1>6 DEF Inv

(* The start of every kind of call.                                        *)
LEMMA BeginInv ==
  ASSUME Inv, NEW r \in Slots, Begin(r)
  PROVE  Inv'
<1>1. CASE list_services(r) \/ list_services_route(r)
  <2>1. PICK f \in Flights \cap Kinds : ListServices(r, f)
    BY <1>1 DEF list_services, list_services_route, Flights
  <2>2. f # "trigger"
    BY DEF Flights
  <2>3. CASE Query(r, f) /\ flight' = [flight EXCEPT ![f] = r]
    <3>1. flight' \in [Flights -> Slots \cup {None}]
      BY <2>3 DEF Inv, TypeOK
    <3> QED
      BY <2>1, <2>2, <2>3, <3>1, OtherQuery DEF ListServices
  <2>4. CASE ~ Done(f)
    <3>1. /\ slot[r] = Free /\ inflight' = inflight
          /\ slot' = [slot EXCEPT ![r].kind = f, ![r].mpc = "follow"]
          /\ UNCHANGED <<sess, flight, cache, host>>
      BY <2>1, <2>4 DEF ListServices
    <3>2. slot \in [Slots -> SlotType] /\ slot[r].mpc = "free"
      BY <3>1 DEF Inv, TypeOK, SlotType, Free
    <3>3. /\ slot' \in [Slots -> SlotType]
          /\ \A s \in Slots \ {r} : slot'[s] = slot[s]
          /\ slot'[r].kind = f /\ slot'[r].mpc = "follow"
      BY <3>1, <3>2 DEF SlotType
    <3>4. SlotInv' /\ MarkerInv'
      BY <2>2, <3>1, <3>2, <3>3, OneSlot
    <3> QED
      BY <3>1, <3>3, <3>4 DEF Inv, TypeOK, SlotType
  <2> QED
    BY <2>1, <2>3, <2>4 DEF ListServices
<1>2. CASE "trigger" \in Kinds /\ TriggerDiskScan(r)
  <2>1. /\ slot' \in [Slots -> SlotType]
        /\ \A s \in Slots \ {r} : slot'[s] = slot[s]
        /\ slot'[r].kind = "trigger" /\ slot'[r].mpc \in {"wait", "end"}
        /\ sess' = sess /\ cache' = cache /\ host' = host
    <3>1. CASE Query(r, "trigger")
      BY <1>2, <3>1, QuerySlot DEF Inv, Query
    <3>2. CASE slot' = [slot EXCEPT ![r].kind = "trigger", ![r].mpc = "end"]
      BY <1>2, <3>2 DEF Inv, TypeOK, SlotType, TriggerDiskScan, Query
    <3> QED
      BY <1>2, <3>1, <3>2 DEF TriggerDiskScan
  <2>2. ~ inflight /\ inflight' = TRUE /\ flight' = flight
    BY <1>2 DEF TriggerDiskScan
  <2>3. \A s \in Slots : ~ Scanning(s)
    BY <2>2 DEF Inv, MarkerInv
  <2>4. \A s \in Slots : Scanning(s)' <=> s = r
    BY <2>1, <2>3 DEF Scanning
  <2>5. MarkerInv'
    BY <2>2, <2>4 DEF MarkerInv, InflightHeld, Scanning, Kind
  <2>6. SlotInv'
    BY <1>2, <2>1 DEF Inv, SlotInv, UsedOK, PopOK
  <2>7. TypeOK'
    BY <2>1, <2>2 DEF Inv, TypeOK, SlotType
  <2> QED
    BY <2>5, <2>6, <2>7 DEF Inv
<1>3. ASSUME NEW k \in Kinds \ {"trigger"}, Query(r, k), UNCHANGED <<flight, inflight>>
      PROVE  Inv'
  BY <1>3, OtherQuery DEF Inv, TypeOK
<1>4. CASE "collect" \in Kinds /\ Collect(r)
  BY <1>3, <1>4 DEF Collect
<1>5. CASE "scan" \in Kinds /\ GetDiskScan(r)
  BY <1>3, <1>5 DEF GetDiskScan
<1>6. CASE "read" \in Kinds /\ Reading(r)
  <2>1. Read(r)
    BY <1>6 DEF Reading, GetDiskMounts, GetServiceStatus, ListContainers, ContainersPage,
                GetNodeLogs, GetLogSources, GetLogHistogram, update_all_nodes_cache
  <2> QED
    BY <1>3, <1>6, <2>1 DEF Read
<1>7. CASE \/ "RESTART_SERVICE" \in Kinds /\ RestartService(r)
           \/ "RESTART_CONTAINER" \in Kinds /\ RestartContainer(r)
           \/ ServiceAction(r) \/ ContainerAction(r)
  <2>1. PICK k \in Actions \cap Kinds : Act(r, k)
    BY <1>7 DEF RestartService, RestartContainer, ServiceAction, ContainerAction, Actions,
                ServiceActions, ContainerActions
  <2>2. k # "trigger"
    BY DEF Actions, ServiceActions, ContainerActions
  <2> QED
    BY <1>3, <2>1, <2>2 DEF Act
<1> QED
  BY <1>1, <1>2, <1>4, <1>5, <1>6, <1>7 DEF Begin

-----------------------------------------------------------------------------
(* A step that only moves a call and its goroutine on.                     *)
LEMMA SetInv ==
  ASSUME Inv, NEW r \in Slots,
         NEW m \in {"free", "follow", "wait", "got", "end", "pop"},
         NEW w \in {"free", "slot", "run", "inspected"},
         Set(r, m, w),
         slot[r].mpc # "free" \/ slot[r].wpc # "free",
         m = "free" <=> slot[r].mpc = "free",
         m = "pop" => slot[r].mpc = "pop",
         inflight' = inflight
  PROVE  slot' \in [Slots -> SlotType] /\ SlotInv' /\ MarkerInv'
<1>1. slot \in [Slots -> SlotType]
  BY DEF Inv, TypeOK, SlotType
<1>2. /\ slot' \in [Slots -> SlotType]
      /\ \A s \in Slots \ {r} : slot'[s] = slot[s]
      /\ slot'[r].mpc = m /\ slot'[r].wpc = w
      /\ m # "free" \/ w # "free" => slot'[r].kind = slot[r].kind
  BY <1>1, SetSlot
<1>3. UsedOK(r) /\ PopOK(r)
  BY DEF Inv, SlotInv
<1>4. SlotInv' /\ MarkerInv'
  BY <1>2, <1>3, OneSlot DEF UsedOK, PopOK
<1> QED
  BY <1>2, <1>4

(* The goroutine ends, whoever still waits for its result.                 *)
LEMMA FinishInv ==
  ASSUME Inv, NEW r \in Slots, NEW res, slot[r].wpc # "free", Finish(r, res),
         inflight' = inflight
  PROVE  slot' \in [Slots -> SlotType] /\ SlotInv' /\ MarkerInv'
<1>1. slot[r].mpc \in {"free", "follow", "wait", "got", "end", "pop"}
  BY DEF Inv, TypeOK
<1>2. CASE Current(r) /\ Master(r, "wait")
  <2>1. PICK m \in {"got", "end"} : Set(r, m, "free")
    BY <1>2 DEF Finish
  <2>2. slot[r].mpc = "wait"
    BY <1>2 DEF Master
  <2> QED
    BY <2>1, <2>2, SetInv
<1>3. CASE ~ (Current(r) /\ Master(r, "wait"))
  <2>1. Set(r, slot[r].mpc, "free")
    BY <1>3 DEF Finish
  <2> QED
    BY <1>1, <2>1, SetInv
<1> QED
  BY <1>2, <1>3

(* The steps of the goroutines, with what they do to the host.             *)
LEMMA GoroutineInv ==
  ASSUME Inv, NEW r \in Slots, Goroutine(r)
  PROVE  Inv'
<1>1. /\ slot[r].mpc \in {"free", "follow", "wait", "got", "end", "pop"}
      /\ slot \in [Slots -> SlotType] /\ host \in HostType
  BY DEF Inv, TypeOK, SlotType, HostType
<1>2. slot[r].wpc # "free"
  BY DEF Goroutine, TakeSlot, Execute, Inspect, Delete, Worker
<1>3. UNCHANGED <<sess, flight, cache, inflight>>
  BY DEF Goroutine, TakeSlot, Execute, Inspect, Delete
<1>4. ASSUME NEW w \in {"run", "inspected"}, slot' = [slot EXCEPT ![r].wpc = w]
      PROVE  slot' \in [Slots -> SlotType] /\ SlotInv' /\ MarkerInv'
  <2>1. /\ slot' \in [Slots -> SlotType]
        /\ \A s \in Slots \ {r} : slot'[s] = slot[s]
        /\ slot'[r].mpc = slot[r].mpc /\ slot'[r].kind = slot[r].kind
    BY <1>1, <1>4 DEF SlotType
  <2>2. UsedOK(r) /\ PopOK(r)
    BY DEF Inv, SlotInv
  <2>3. SlotInv' /\ MarkerInv'
    BY <1>2, <1>3, <2>1, <2>2, OneSlot DEF UsedOK, PopOK
  <2> QED
    BY <2>1, <2>3
<1>5. slot' \in [Slots -> SlotType] /\ SlotInv' /\ MarkerInv'
  <2>1. CASE TakeSlot(r)
    <3>1. CASE slot' = [slot EXCEPT ![r].wpc = "run"]
      BY <1>4, <3>1
    <3>2. CASE Set(r, slot[r].mpc, "free")
      BY <1>1, <1>2, <1>3, <3>2, SetInv
    <3> QED
      BY <2>1, <3>1, <3>2 DEF TakeSlot
  <2>2. CASE Execute(r)
    BY <1>2, <1>3, <2>2, FinishInv DEF Execute
  <2>3. CASE Inspect(r)
    BY <1>2, <1>3, <1>4, <2>3, FinishInv DEF Inspect
  <2>4. CASE Delete(r)
    BY <1>2, <1>3, <2>4, FinishInv DEF Delete
  <2> QED
    BY <2>1, <2>2, <2>3, <2>4 DEF Goroutine
<1>6. host' \in HostType
  <2>1. CASE Execute(r)
    <3>1. Kind(r) \in Kinds \ {"DELETE_CONTAINER"}
      BY <1>2, <2>1 DEF Inv, SlotInv, UsedOK, Execute, Kind
    <3>2. host' = host \/ host' \in Effects(Kind(r), host)
      BY <2>1 DEF Execute
    <3> QED
      BY <1>1, <3>1, <3>2, EffectsKeep
  <2>2. CASE Delete(r)
    BY <1>1, <2>2 DEF Delete, HostType
  <2>3. CASE TakeSlot(r) \/ Inspect(r)
    BY <1>1, <2>3 DEF TakeSlot, Inspect
  <2> QED
    BY <2>1, <2>2, <2>3 DEF Goroutine
<1>7. TypeOK'
  BY <1>3, <1>5, <1>6 DEF Inv, TypeOK, SlotType, HostType
<1> QED
  BY <1>5, <1>6, <1>7 DEF Inv

-----------------------------------------------------------------------------
(* The steps of a call that was made.                                      *)
LEMMA CallInv ==
  ASSUME Inv, NEW r \in Slots, Call(r)
  PROVE  Inv'
<1>1. /\ slot[r].wpc \in {"free", "slot", "run", "inspected"}
      /\ slot \in [Slots -> SlotType]
  BY DEF Inv, TypeOK, SlotType
<1>2. CASE Timeout(r)
  <2>1. slot' \in [Slots -> SlotType] /\ SlotInv' /\ MarkerInv'
    BY <1>1, <1>2, SetInv DEF Timeout, Master
  <2> QED
    BY <1>2, <2>1 DEF Timeout, Inv, TypeOK, SlotType
<1>3. CASE Store(r)
  <2>1. slot' \in [Slots -> SlotType] /\ SlotInv' /\ MarkerInv'
    BY <1>1, <1>3, SetInv DEF Store, Master
  <2> QED
    BY <1>3, <2>1 DEF Store, Inv, TypeOK, SlotType
<1>4. CASE Publish(r)
  <2>1. Free \in SlotType /\ Free.mpc = "free" /\ Free.wpc = "free"
    <3>1. 0 \in 0..MaxEpoch
      BY BoundsAssumption
    <3> QED
      BY <3>1 DEF Free, SlotType
  <2>2. /\ ResumeAll(r) \in [Slots -> SlotType]
        /\ \A s \in Slots : \/ ResumeAll(r)[s] = slot[s]
                            \/ ResumeAll(r)[s] = Free /\ slot[s].kind = slot[r].kind
        /\ ResumeAll(r)[r] = slot[r]
    BY <1>1, <2>1 DEF ResumeAll, Kind
  <2>3. slot[r].kind \in Flights /\ slot[r].mpc = "end" /\ slot[r].kind \in Kinds
    BY <1>4 DEF Publish, Kind, Master, Inv, SlotInv, UsedOK
  <2>4. /\ slot' \in [Slots -> SlotType]
        /\ \A s \in Slots \ {r} : slot'[s] = ResumeAll(r)[s]
        /\ slot'[r].kind = slot[r].kind
    <3> DEFINE q == ResumeAll(r)
    <3>1. slot' = [q EXCEPT ![r].mpc = "pop"]
      BY <1>4 DEF Publish
    <3>2. q \in [Slots -> SlotType] /\ q[r] = slot[r]
      BY <2>2
    <3> HIDE DEF q
    <3>3. /\ slot' \in [Slots -> SlotType]
          /\ \A s \in Slots \ {r} : slot'[s] = q[s]
          /\ slot'[r].kind = slot[r].kind
      BY <3>1, <3>2 DEF SlotType
    <3> QED
      BY <3>3 DEF q
  <2>5. SlotInv'
    BY <2>1, <2>2, <2>3, <2>4 DEF Inv, SlotInv, UsedOK, PopOK
  <2>6. \A s \in Slots : Scanning(s)' <=> Scanning(s)
    <3> "trigger" \notin Flights
      BY DEF Flights
    <3> QED
      BY <2>1, <2>2, <2>3, <2>4 DEF Scanning
  <2>7. MarkerInv'
    BY <1>4, <2>6 DEF Inv, MarkerInv, InflightHeld, Scanning, Kind, Publish
  <2> QED
    BY <1>4, <2>4, <2>5, <2>7 DEF Publish, Inv, TypeOK, SlotType
<1>5. ASSUME Set(r, "free", slot[r].wpc)
      PROVE  /\ slot' \in [Slots -> SlotType] /\ SlotInv'
             /\ \A s \in Slots : Scanning(s)' <=> s # r /\ Scanning(s)
  <2>1. /\ slot' \in [Slots -> SlotType]
        /\ \A s \in Slots \ {r} : slot'[s] = slot[s]
        /\ slot'[r].mpc = "free" /\ slot'[r].wpc = slot[r].wpc
        /\ slot[r].wpc # "free" => slot'[r].kind = slot[r].kind
    BY <1>1, <1>5, SetSlot
  <2>2. SlotInv'
    BY <2>1 DEF Inv, SlotInv, UsedOK, PopOK
  <2> QED
    BY <2>1, <2>2 DEF Scanning
<1>6. CASE Pop(r)
  <2>1. slot[r].kind \in Flights
    BY <1>6 DEF Inv, SlotInv, PopOK, Pop, Master
  <2>2. flight' \in [Flights -> Slots \cup {None}]
    BY <1>6, <2>1 DEF Pop, Kind, Inv, TypeOK
  <2>3. ~ Scanning(r)
    BY <2>1 DEF Scanning, Flights
  <2>4. MarkerInv'
    BY <1>5, <1>6, <2>3 DEF Inv, MarkerInv, InflightHeld, Scanning, Kind, Pop
  <2> QED
    BY <1>5, <1>6, <2>2, <2>4 DEF Pop, Inv, TypeOK, SlotType
<1>7. CASE Return(r)
  <2>1. inflight' \in BOOLEAN
    BY <1>7 DEF Return, Released, Inv, TypeOK
  <2>2. Scanning(r) <=> slot[r].kind = "trigger"
    BY <1>7 DEF Return, Scanning, Master
  <2>3. MarkerInv'
    <3>1. CASE Scanning(r)
      <4>1. inflight' = FALSE /\ \A s \in Slots : ~ Scanning(s)'
        BY <1>5, <1>7, <2>2, <3>1 DEF Return, Released, Kind, Inv, MarkerInv
      <4> QED
        BY <4>1 DEF MarkerInv, InflightHeld
    <3>2. CASE ~ Scanning(r)
      BY <1>5, <1>7, <2>2, <3>2 DEF Return, Released, Kind, Inv, MarkerInv, InflightHeld, Scanning
    <3> QED
      BY <3>1, <3>2
  <2> QED
    BY <1>5, <1>7, <2>1, <2>3 DEF Return, Inv, TypeOK, SlotType
<1> QED
  BY <1>2, <1>3, <1>4, <1>6, <1>7 DEF Call

LEMMA NextInv == Inv /\ [Next]_vars => Inv'
<1> SUFFICES ASSUME Inv, [Next]_vars PROVE Inv'
  OBVIOUS
<1>1. ASSUME slot' = slot, flight' = flight, cache' = cache, inflight' = inflight, host' = host,
             sess' \in [up : BOOLEAN, epoch : 0..MaxEpoch]
      PROVE  Inv'
  BY <1>1 DEF Inv, TypeOK, SlotInv, UsedOK, PopOK, MarkerInv, InflightHeld, Scanning, Kind
<1>2. CASE Connect
  BY <1>1, <1>2, BoundsAssumption DEF Connect, Inv, TypeOK
<1>3. CASE Disconnect
  BY <1>1, <1>3 DEF Disconnect, Inv, TypeOK
<1>4. CASE UNCHANGED vars
  BY <1>1, <1>4 DEF vars, Inv, TypeOK
<1> QED
  BY <1>2, <1>3, <1>4, BeginInv, CallInv, GoroutineInv DEF Next

-----------------------------------------------------------------------------
(* The flights.                                                            *)
Following(r, f) == Kind(r) = f /\ slot[r].mpc = "follow"
Popping(r, f)   == Kind(r) = f /\ slot[r].mpc = "pop"

(* An entry is that of a leader, which asks or is about to pop it.         *)
FlightInv == OneQuery /\ \A f \in Flights, r \in Slots :
                            flight[f] = r => Asking(r, f) \/ Popping(r, f)

(* What there is to show after a step, slot by slot.                       *)
LEMMA FlightGoal ==
  ASSUME \A f \in Flights, s \in Slots :
           /\ Asking(s, f)' => flight'[f] = s
           /\ Following(s, f)' => flight'[f] # None /\ Asking(flight[f], f)'
           /\ flight'[f] = s => Asking(s, f)' \/ Popping(s, f)'
  PROVE  FlightInv'
BY DEF FlightInv, OneQuery, Following, Master

LEMMA FlightKnown ==
  ASSUME Inv, FlightInv, NEW f \in Flights, NEW s \in Slots
  PROVE  /\ Asking(s, f) => flight[f] = s
         /\ Following(s, f) => flight[f] # None /\ Asking(flight[f], f)
         /\ flight[f] = s => Asking(s, f) \/ Popping(s, f)
         /\ flight[f] # None => flight[f] \in Slots
BY DEF FlightInv, OneQuery, Following, Master, Inv, TypeOK

(* What a step leaves alone.                                               *)
LEMMA SameSlot ==
  ASSUME NEW s \in Slots, slot'[s].kind = slot[s].kind, slot'[s].mpc = slot[s].mpc
  PROVE  \A f : (Asking(s, f)' <=> Asking(s, f)) /\ (Following(s, f)' <=> Following(s, f))
                /\ (Popping(s, f)' <=> Popping(s, f))
BY DEF Asking, Following, Popping, Kind

(* A step of one slot that neither begins nor ends a query of a flight,    *)
(* nor joins one, leaves them as they were.                                *)
LEMMA QuietFlight ==
  ASSUME Inv, FlightInv, NEW r \in Slots,
         \A s \in Slots \ {r} : slot'[s].kind = slot[s].kind /\ slot'[s].mpc = slot[s].mpc,
         \A f \in Flights : /\ Asking(r, f)' <=> Asking(r, f)
                            /\ Following(r, f)' => Following(r, f)
                            /\ Popping(r, f)' <=> Popping(r, f),
         flight' = flight
  PROVE  FlightInv'
<1>1. \A f \in Flights, s \in Slots :
        /\ Asking(s, f)' <=> Asking(s, f)
        /\ Following(s, f)' => Following(s, f)
        /\ Popping(s, f)' <=> Popping(s, f)
  BY SameSlot
<1>2. ASSUME NEW f \in Flights, NEW s \in Slots
      PROVE  /\ Asking(s, f)' => flight'[f] = s
             /\ Following(s, f)' => flight'[f] # None /\ Asking(flight[f], f)'
             /\ flight'[f] = s => Asking(s, f)' \/ Popping(s, f)'
  <2>1. ASSUME Following(s, f)' PROVE flight'[f] # None /\ Asking(flight[f], f)'
    <3>1. flight[f] # None /\ Asking(flight[f], f) /\ flight[f] \in Slots
      BY <1>1, <2>1, FlightKnown
    <3>2. Asking(flight[f], f)'
      <4> DEFINE l == flight[f]
      <4>1. l \in Slots /\ Asking(l, f) /\ flight'[f] = l
        BY <3>1
      <4> HIDE DEF l
      <4>2. \A s1 \in Slots : Asking(s1, f)' <=> Asking(s1, f)
        BY <1>1
      <4> QED
        BY <4>1, <4>2 DEF Asking, Kind
    <3> QED
      BY <3>1, <3>2
  <2> QED
    BY <1>1, <2>1, FlightKnown
<1> QED
  BY <1>2, FlightGoal

(* A call moves on without a change of its part in a flight.               *)
LEMMA SetFlight ==
  ASSUME Inv, FlightInv, NEW r \in Slots,
         NEW m \in {"free", "follow", "wait", "got", "end", "pop"},
         NEW w \in {"free", "slot", "run", "inspected"},
         Set(r, m, w), flight' = flight,
         m \in {"wait", "got", "end"} <=> slot[r].mpc \in {"wait", "got", "end"},
         m = "follow" <=> slot[r].mpc = "follow",
         m = "pop" <=> slot[r].mpc = "pop"
  PROVE  FlightInv'
<1>1. /\ \A s \in Slots \ {r} : slot'[s] = slot[s]
      /\ slot'[r].mpc = m
      /\ m # "free" => slot'[r].kind = slot[r].kind
  BY SetSlot DEF Inv, TypeOK, SlotType
<1>2. \A f \in Flights : /\ Asking(r, f)' <=> Asking(r, f)
                         /\ Following(r, f)' => Following(r, f)
                         /\ Popping(r, f)' <=> Popping(r, f)
  BY <1>1 DEF Asking, Following, Popping, Kind
<1> QED
  BY <1>1, <1>2, QuietFlight

(* A query of no flight.                                                   *)
LEMMA QueryFlight ==
  ASSUME Inv, FlightInv, NEW r \in Slots, NEW k \in Kinds \ Flights,
         slot[r].mpc = "free", \A s \in Slots \ {r} : slot'[s] = slot[s],
         slot'[r].kind = k, flight' = flight
  PROVE  FlightInv'
<1>1. \A f \in Flights : /\ ~ Asking(r, f) /\ ~ Asking(r, f)'
                         /\ ~ Following(r, f)'
                         /\ ~ Popping(r, f) /\ ~ Popping(r, f)'
  BY DEF Asking, Following, Popping, Kind
<1> QED
  BY <1>1, QuietFlight

(* A new leader: the future of the flight is done, so nobody asks for it   *)
(* or waits on it.                                                         *)
LEMMA LeadFlight ==
  ASSUME Inv, FlightInv, NEW r \in Slots, NEW f \in Flights \cap Kinds,
         Done(f), Query(r, f), flight' = [flight EXCEPT ![f] = r]
  PROVE  FlightInv'
<1>1. /\ \A s \in Slots \ {r} : slot'[s] = slot[s]
      /\ slot'[r].kind = f /\ slot'[r].mpc \in {"wait", "end"}
      /\ slot[r].mpc = "free"
  BY QuerySlot DEF Inv
<1>2. /\ flight'[f] = r
      /\ \A g \in Flights \ {f} : flight'[g] = flight[g]
  BY DEF Inv, TypeOK
<1>3. None \notin Slots
  BY BoundsAssumption
<1>4. \A s \in Slots : ~ Asking(s, f) /\ ~ Following(s, f)
  BY <1>3, FlightKnown DEF Done, Asking
<1>5. Asking(r, f)'
  BY <1>1 DEF Asking, Kind
<1>6. \A g \in Flights : /\ ~ Asking(r, g) /\ ~ Popping(r, g)
                         /\ ~ Following(r, g)' /\ (Asking(r, g)' => g = f)
  BY <1>1 DEF Asking, Following, Popping, Kind
<1>7. ASSUME NEW g \in Flights, NEW s \in Slots
      PROVE  /\ Asking(s, g)' => flight'[g] = s
             /\ Following(s, g)' => flight'[g] # None /\ Asking(flight[g], g)'
             /\ flight'[g] = s => Asking(s, g)' \/ Popping(s, g)'
  <2>1. CASE s = r /\ g = f
    BY <1>2, <1>5, <1>6, <2>1
  <2>2. CASE s = r /\ g # f
    <3>1. flight'[g] # s
      BY <1>2, <1>6, <2>2, FlightKnown
    <3> QED
      BY <1>6, <2>2, <3>1
  <2>3. CASE s # r /\ g = f
    <3>1. ~ Asking(s, g)' /\ ~ Following(s, g)' /\ flight'[g] # s
      BY <1>1, <1>2, <1>4, <2>3, SameSlot
    <3> QED
      BY <3>1
  <2>4. CASE s # r /\ g # f
    <3>1. /\ Asking(s, g)' <=> Asking(s, g)
          /\ Following(s, g)' <=> Following(s, g)
          /\ Popping(s, g)' <=> Popping(s, g)
      BY <1>1, <2>4, SameSlot
    <3>2. flight'[g] = flight[g]
      BY <1>2, <2>4
    <3>3. ASSUME Following(s, g)' PROVE flight'[g] # None /\ Asking(flight[g], g)'
      <4> DEFINE l == flight[g]
      <4>1. l # None /\ l \in Slots /\ Asking(l, g)
        BY <3>1, <3>3, FlightKnown
      <4>2. l # r /\ flight'[g] = l
        BY <1>6, <3>2, <4>1
      <4> HIDE DEF l
      <4>3. slot'[l] = slot[l]
        BY <1>1, <4>1, <4>2
      <4> QED
        BY <4>1, <4>2, <4>3 DEF Asking, Kind
    <3> QED
      BY <3>1, <3>2, <3>3, FlightKnown
  <2> QED
    BY <2>1, <2>2, <2>3, <2>4
<1> QED
  BY <1>7, FlightGoal

(* A follower joins a leader whose future is not done.                     *)
LEMMA JoinFlight ==
  ASSUME Inv, FlightInv, NEW r \in Slots, NEW f \in Flights \cap Kinds,
         ~ Done(f), slot[r] = Free, flight' = flight,
         slot' = [slot EXCEPT ![r].kind = f, ![r].mpc = "follow"]
  PROVE  FlightInv'
<1>1. /\ \A s \in Slots \ {r} : slot'[s] = slot[s]
      /\ slot'[r].kind = f /\ slot'[r].mpc = "follow"
      /\ slot[r].mpc = "free"
  BY DEF Inv, TypeOK, Free
<1>2. flight[f] # None /\ flight[f] \in Slots /\ slot[flight[f]].mpc # "pop"
  BY FlightKnown DEF Done
<1>3. Asking(flight[f], f)
  BY <1>2, FlightKnown DEF Popping
<1>4. \A g \in Flights : /\ ~ Asking(r, g) /\ ~ Popping(r, g)
                         /\ ~ Asking(r, g)' /\ (Following(r, g)' => g = f)
  BY <1>1 DEF Asking, Following, Popping, Kind
<1>5. ASSUME NEW g \in Flights, NEW s \in Slots
      PROVE  /\ Asking(s, g)' => flight'[g] = s
             /\ Following(s, g)' => flight'[g] # None /\ Asking(flight[g], g)'
             /\ flight'[g] = s => Asking(s, g)' \/ Popping(s, g)'
  <2>1. ASSUME s # r
        PROVE  /\ Asking(s, g)' <=> Asking(s, g)
               /\ Following(s, g)' <=> Following(s, g)
               /\ Popping(s, g)' <=> Popping(s, g)
    BY <1>1, <2>1, SameSlot
  <2>2. ASSUME Following(s, g)' PROVE flight'[g] # None /\ Asking(flight[g], g)'
    <3> DEFINE l == flight[g]
    <3>1. l # None /\ l \in Slots /\ Asking(l, g)
      BY <1>2, <1>3, <1>4, <2>1, <2>2, FlightKnown
    <3>2. l # r /\ flight'[g] = l
      BY <1>4, <3>1
    <3> HIDE DEF l
    <3>3. slot'[l] = slot[l]
      BY <1>1, <3>1, <3>2
    <3> QED
      BY <3>1, <3>2, <3>3 DEF Asking, Kind
  <2>3. flight'[g] = s => Asking(s, g)' \/ Popping(s, g)'
    BY <1>4, <2>1, FlightKnown
  <2>4. Asking(s, g)' => flight'[g] = s
    BY <1>4, <2>1, FlightKnown
  <2> QED
    BY <2>2, <2>3, <2>4
<1> QED
  BY <1>5, FlightGoal

(* The leader's future is done and its followers resume; the entry is      *)
(* still there.                                                            *)
LEMMA PublishFlight ==
  ASSUME Inv, FlightInv, NEW r \in Slots, Publish(r)
  PROVE  FlightInv'
<1>1. slot[r].kind \in Flights /\ slot[r].mpc = "end" /\ flight' = flight
  BY DEF Publish, Kind, Master
<1>2. \A s \in Slots \ {r} :
         slot'[s] = IF slot[s].mpc = "follow" /\ slot[s].kind = slot[r].kind THEN Free ELSE slot[s]
  BY DEF Publish, ResumeAll, Master, Kind
<1>3. slot'[r].mpc = "pop" /\ slot'[r].kind = slot[r].kind
  <2>1. ResumeAll(r)[r] = slot[r] /\ DOMAIN ResumeAll(r) = Slots
    BY DEF ResumeAll
  <2>2. slot' = [ResumeAll(r) EXCEPT ![r] = [ResumeAll(r)[r] EXCEPT !.mpc = "pop"]]
    BY DEF Publish
  <2>3. slot'[r] = [slot[r] EXCEPT !.mpc = "pop"]
    BY <2>1, <2>2
  <2>4. slot[r] \in SlotType
    BY DEF Inv, TypeOK, SlotType
  <2> QED
    BY <2>3, <2>4 DEF SlotType
<1>4. ASSUME NEW s \in Slots \ {r}, NEW f \in Flights
      PROVE  /\ Asking(s, f)' <=> Asking(s, f)
             /\ Following(s, f)' <=> Following(s, f) /\ f # slot[r].kind
             /\ Popping(s, f)' <=> Popping(s, f)
  <2>1. CASE slot[s].mpc = "follow" /\ slot[s].kind = slot[r].kind
    BY <1>2, <2>1 DEF Asking, Following, Popping, Kind, Free
  <2>2. CASE ~ (slot[s].mpc = "follow" /\ slot[s].kind = slot[r].kind)
    BY <1>2, <2>2 DEF Asking, Following, Popping, Kind
  <2> QED
    BY <2>1, <2>2
<1>5. \A f \in Flights : /\ ~ Asking(r, f)' /\ ~ Following(r, f)'
                         /\ Asking(r, f) => f = slot[r].kind
                         /\ ~ Popping(r, f)
                         /\ f = slot[r].kind => Popping(r, f)'
  BY <1>1, <1>3 DEF Asking, Following, Popping, Kind
<1>6. ASSUME NEW g \in Flights, NEW s \in Slots
      PROVE  /\ Asking(s, g)' => flight'[g] = s
             /\ Following(s, g)' => flight'[g] # None /\ Asking(flight[g], g)'
             /\ flight'[g] = s => Asking(s, g)' \/ Popping(s, g)'
  <2>1. Asking(s, g)' => flight'[g] = s
    BY <1>1, <1>4, <1>5, FlightKnown
  <2>2. ASSUME Following(s, g)' PROVE flight'[g] # None /\ Asking(flight[g], g)'
    <3>1. s # r /\ Following(s, g) /\ g # slot[r].kind
      BY <1>4, <1>5, <2>2
    <3>2. PICK l \in Slots : l = flight[g] /\ l # None /\ Asking(l, g)
      BY <3>1, FlightKnown
    <3>3. l # r /\ flight'[g] = l
      BY <1>1, <1>5, <3>1, <3>2
    <3>4. Asking(l, g)'
      BY <1>4, <3>2, <3>3
    <3> QED
      BY <3>2, <3>3, <3>4 DEF Asking, Kind
  <2>3. flight'[g] = s => Asking(s, g)' \/ Popping(s, g)'
    BY <1>1, <1>4, <1>5, FlightKnown
  <2> QED
    BY <2>1, <2>2, <2>3
<1> QED
  BY <1>6, FlightGoal

(* The entry is popped if it is still the caller's.                        *)
LEMMA PopFlight ==
  ASSUME Inv, FlightInv, NEW r \in Slots, Pop(r)
  PROVE  FlightInv'
<1>1. slot[r].mpc = "pop" /\ slot[r].kind \in Flights
  BY DEF Pop, Master, Inv, SlotInv, PopOK
<1>2. /\ \A s \in Slots \ {r} : slot'[s] = slot[s]
      /\ slot'[r].mpc = "free"
  <2>1. slot \in [Slots -> SlotType] /\ slot[r].wpc \in {"free", "slot", "run", "inspected"}
    BY DEF Inv, TypeOK, SlotType
  <2>2. Set(r, "free", slot[r].wpc)
    BY DEF Pop
  <2> QED
    BY <2>1, <2>2, SetSlot
<1>3. \A g \in Flights : flight'[g] = IF g = slot[r].kind /\ flight[g] = r THEN None ELSE flight[g]
  BY <1>1 DEF Pop, Kind, Inv, TypeOK
<1>4. None \notin Slots
  BY BoundsAssumption
<1>5. ASSUME NEW s \in Slots \ {r}, NEW g \in Flights
      PROVE  /\ Asking(s, g)' <=> Asking(s, g)
             /\ Following(s, g)' <=> Following(s, g)
             /\ Popping(s, g)' <=> Popping(s, g)
  BY <1>2, SameSlot
<1>6. \A g \in Flights : /\ ~ Asking(r, g) /\ ~ Asking(r, g)' /\ ~ Following(r, g)'
                         /\ Popping(r, g) => g = slot[r].kind
  BY <1>1, <1>2 DEF Asking, Following, Popping, Kind
<1>7. ASSUME NEW g \in Flights, NEW s \in Slots
      PROVE  /\ Asking(s, g)' => flight'[g] = s
             /\ Following(s, g)' => flight'[g] # None /\ Asking(flight[g], g)'
             /\ flight'[g] = s => Asking(s, g)' \/ Popping(s, g)'
  <2>1. Asking(s, g)' => flight'[g] = s
    BY <1>3, <1>5, <1>6, FlightKnown
  <2>2. ASSUME Following(s, g)' PROVE flight'[g] # None /\ Asking(flight[g], g)'
    <3>1. PICK l \in Slots : l = flight[g] /\ l # None /\ Asking(l, g)
      BY <1>5, <1>6, <2>2, FlightKnown
    <3>2. l # r /\ flight'[g] = l
      BY <1>3, <1>6, <3>1
    <3>3. Asking(l, g)'
      BY <1>5, <3>1, <3>2
    <3> QED
      BY <3>1, <3>2, <3>3 DEF Asking, Kind
  <2>3. ASSUME flight'[g] = s PROVE Asking(s, g)' \/ Popping(s, g)'
    <3>1. flight[g] = s /\ ~ (g = slot[r].kind /\ flight[g] = r)
      BY <1>3, <1>4, <2>3
    <3>2. Asking(s, g) \/ Popping(s, g)
      BY <3>1, FlightKnown
    <3>3. s # r
      BY <1>6, <3>1, <3>2
    <3> QED
      BY <1>5, <3>2, <3>3
  <2> QED
    BY <2>1, <2>2, <2>3
<1> QED
  BY <1>7, FlightGoal

-----------------------------------------------------------------------------
(* Calls begin.                                                            *)
LEMMA BeginFlight ==
  ASSUME Inv, FlightInv, NEW r \in Slots, Begin(r)
  PROVE  FlightInv'
<1>1. CASE list_services(r) \/ list_services_route(r)
  <2>1. PICK f \in Flights \cap Kinds : ListServices(r, f)
    BY <1>1 DEF list_services, list_services_route, Flights
  <2> QED
    BY <2>1, LeadFlight, JoinFlight DEF ListServices
<1>2. ASSUME NEW k \in Kinds \ Flights, Query(r, k), flight' = flight
      PROVE  FlightInv'
  <2>1. TypeOK
    BY DEF Inv
  <2>2. /\ \A s \in Slots \ {r} : slot'[s] = slot[s]
        /\ slot'[r].kind = k /\ slot[r].mpc = "free"
    BY <1>2, <2>1, QuerySlot
  <2> QED
    BY <1>2, <2>2, QueryFlight
<1>3. CASE "trigger" \in Kinds /\ TriggerDiskScan(r)
  <2>1. CASE Query(r, "trigger")
    BY <1>2, <1>3, <2>1 DEF TriggerDiskScan, Flights
  <2>2. CASE slot[r] = Free /\ slot' = [slot EXCEPT ![r].kind = "trigger", ![r].mpc = "end"]
    <3>1. /\ \A s \in Slots \ {r} : slot'[s] = slot[s]
          /\ slot'[r].kind = "trigger" /\ slot[r].mpc = "free"
      BY <2>2 DEF Inv, TypeOK, Free
    <3> QED
      BY <1>3, <3>1, QueryFlight DEF TriggerDiskScan, Flights
  <2> QED
    BY <1>3, <2>1, <2>2 DEF TriggerDiskScan
<1>4. CASE "collect" \in Kinds /\ Collect(r)
  BY <1>2, <1>4 DEF Collect, Flights
<1>5. CASE "scan" \in Kinds /\ GetDiskScan(r)
  BY <1>2, <1>5 DEF GetDiskScan, Flights
<1>6. CASE "read" \in Kinds /\ Reading(r)
  <2>1. Read(r)
    BY <1>6 DEF Reading, GetDiskMounts, GetServiceStatus, ListContainers, ContainersPage,
                GetNodeLogs, GetLogSources, GetLogHistogram, update_all_nodes_cache
  <2> QED
    BY <1>2, <1>6, <2>1 DEF Read, Flights
<1>7. CASE \/ "RESTART_SERVICE" \in Kinds /\ RestartService(r)
           \/ "RESTART_CONTAINER" \in Kinds /\ RestartContainer(r)
           \/ ServiceAction(r) \/ ContainerAction(r)
  <2>1. PICK k \in Actions \cap Kinds : Act(r, k)
    BY <1>7 DEF RestartService, RestartContainer, ServiceAction, ContainerAction, Actions,
                ServiceActions, ContainerActions
  <2>2. k \notin Flights
    BY DEF Flights, Actions, ServiceActions, ContainerActions
  <2> QED
    BY <1>2, <2>1, <2>2 DEF Act
<1> QED
  BY <1>1, <1>3, <1>4, <1>5, <1>6, <1>7 DEF Begin

(* A goroutine that ends answers its call or leaves it as it is.           *)
LEMMA FinishFlight ==
  ASSUME Inv, FlightInv, NEW r \in Slots, NEW res, Finish(r, res), flight' = flight
  PROVE  FlightInv'
<1>1. slot[r].mpc \in {"free", "follow", "wait", "got", "end", "pop"}
  BY DEF Inv, TypeOK
<1>2. CASE Current(r) /\ Master(r, "wait")
  <2>1. PICK m \in {"got", "end"} : Set(r, m, "free")
    BY <1>2 DEF Finish
  <2>2. slot[r].mpc = "wait"
    BY <1>2 DEF Master
  <2> QED
    BY <2>1, <2>2, SetFlight
<1>3. CASE ~ (Current(r) /\ Master(r, "wait"))
  <2>1. Set(r, slot[r].mpc, "free")
    BY <1>3 DEF Finish
  <2> QED
    BY <1>1, <2>1, SetFlight
<1> QED
  BY <1>2, <1>3

LEMMA GoroutineFlight ==
  ASSUME Inv, FlightInv, NEW r \in Slots, Goroutine(r)
  PROVE  FlightInv'
<1>1. flight' = flight
  BY DEF Goroutine, TakeSlot, Execute, Inspect, Delete
<1>2. slot[r].mpc \in {"free", "follow", "wait", "got", "end", "pop"}
  BY DEF Inv, TypeOK
<1>3. ASSUME NEW w, slot' = [slot EXCEPT ![r].wpc = w]
      PROVE  FlightInv'
  <2>1. /\ \A s \in Slots \ {r} : slot'[s] = slot[s]
        /\ slot'[r].kind = slot[r].kind /\ slot'[r].mpc = slot[r].mpc
    BY <1>3 DEF Inv, TypeOK
  <2>2. \A f \in Flights : /\ Asking(r, f)' <=> Asking(r, f)
                           /\ Following(r, f)' <=> Following(r, f)
                           /\ Popping(r, f)' <=> Popping(r, f)
    BY <2>1, SameSlot
  <2> QED
    BY <1>1, <2>1, <2>2, QuietFlight
<1>4. CASE TakeSlot(r)
  BY <1>1, <1>2, <1>3, <1>4, SetFlight DEF TakeSlot
<1>5. CASE Execute(r)
  BY <1>1, <1>5, FinishFlight DEF Execute
<1>6. CASE Inspect(r)
  BY <1>1, <1>3, <1>6, FinishFlight DEF Inspect
<1>7. CASE Delete(r)
  BY <1>1, <1>7, FinishFlight DEF Delete
<1> QED
  BY <1>4, <1>5, <1>6, <1>7 DEF Goroutine

LEMMA CallFlight ==
  ASSUME Inv, FlightInv, NEW r \in Slots, Call(r)
  PROVE  FlightInv'
<1>1. slot[r].wpc \in {"free", "slot", "run", "inspected"} /\ slot \in [Slots -> SlotType]
  BY DEF Inv, TypeOK, SlotType
<1>2. CASE Timeout(r)
  BY <1>1, <1>2, SetFlight DEF Timeout, Master
<1>3. CASE Store(r)
  BY <1>1, <1>3, SetFlight DEF Store, Master
<1>4. CASE Return(r)
  <2>1. Set(r, "free", slot[r].wpc) /\ flight' = flight /\ slot[r].mpc = "end"
    BY <1>4 DEF Return, Master
  <2>2. /\ \A s \in Slots \ {r} : slot'[s] = slot[s]
        /\ slot'[r].mpc = "free"
    BY <1>1, <2>1, SetSlot
  <2>3. \A f \in Flights : /\ ~ Asking(r, f) /\ ~ Asking(r, f)' /\ ~ Following(r, f)'
                           /\ ~ Popping(r, f) /\ ~ Popping(r, f)'
    BY <1>4, <2>1, <2>2 DEF Return, Asking, Following, Popping, Kind
  <2> QED
    BY <2>1, <2>2, <2>3, QuietFlight
<1> QED
  BY <1>2, <1>3, <1>4, PublishFlight, PopFlight DEF Call

LEMMA NextFlight == Inv /\ FlightInv /\ [Next]_vars => FlightInv'
<1> SUFFICES ASSUME Inv, FlightInv, [Next]_vars PROVE FlightInv'
  OBVIOUS
<1>1. CASE slot' = slot /\ flight' = flight
  BY <1>1 DEF FlightInv, OneQuery, Asking, Popping, Kind, Master
<1>2. CASE Connect \/ Disconnect \/ UNCHANGED vars
  BY <1>1, <1>2 DEF Connect, Disconnect, vars
<1> QED
  BY <1>2, BeginFlight, CallFlight, GoroutineFlight DEF Next

-----------------------------------------------------------------------------
(* The invariant holds in every reachable state.                           *)
THEOREM Invariance == Spec => []Inv
<1> QED
  BY InitInv, NextInv, PTL DEF Spec

(* Every variable keeps its declared shape.                                *)
THEOREM TypeCorrect == Spec => []TypeOK
<1>1. Inv => TypeOK
  BY DEF Inv
<1> QED
  BY <1>1, Invariance, PTL

(* While _disk_scan_inflight has the node, a call of trigger_disk_scan is  *)
(* running: the marker is never left behind.                               *)
THEOREM MarkerIsHeld == Spec => []InflightHeld
<1>1. Inv => InflightHeld
  BY DEF Inv, MarkerInv
<1> QED
  BY <1>1, Invariance, PTL

(* A page asks a worker for its list once at a time, and nobody waits on a *)
(* leader that is gone, whenever the entries of the flight are popped.     *)
THEOREM FlightHasOneQuery == Spec => []OneQuery
<1>1. Init => FlightInv
  BY BoundsAssumption DEF Init, FlightInv, OneQuery, Asking, Kind, Master, Free
<1>2. FlightInv => OneQuery
  BY DEF FlightInv
<1> QED
  BY <1>1, <1>2, Invariance, NextFlight, PTL DEF Spec
=============================================================================
