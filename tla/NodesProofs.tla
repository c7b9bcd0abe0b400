----------------------------- MODULE NodesProofs -----------------------------
(***************************************************************************)
(* Proofs about Nodes, for any number of workers, of sessions and of       *)
(* tokens: a JOIN_TOKEN enrols one machine, the registry names no handler  *)
(* that is past its cleanup, and the worker whose key the node row holds   *)
(* is locked out by a lost token alone.                                    *)
(***************************************************************************)
EXTENDS Nodes, TLAPS

WorkerType == [join : 0..MaxJoin, tok : 0..MaxTokens, sess : Sessions \cup {None}]
NodeType   == [state : States, disabled : BOOLEAN, key : Workers \cup {None}]

(* The first enrolment of a JOIN_TOKEN consumes it for good.               *)
JoinInv == \A j \in JoinTokens : enrolls[j] <= 1 /\ (enrolls[j] > 0 => jt[j] = "consumed")

(* Where a handler stands, or goes on from after transition_state.         *)
Bound(r) == IF r.pc \in {"read", "write"} THEN r.then ELSE r.pc

(* A handler that runs serves a worker, and has a fresh token in hand from *)
(* its commit to its delivery.                                             *)
Holding(r) == Bound(r) \in {"register", "success", "rotsend"}
Served(r) == (r.pc # "free" => r.w \in Workers) /\ (r.new # 0 <=> Holding(r))

(* A worker is connected to the handler that serves it.                    *)
SessInv ==
  /\ \A s \in Sessions : Served(task[s])
  /\ \A w \in Workers : wk[w].sess # None =>
       task[wk[w].sess].pc # "free" /\ task[wk[w].sess].w = w

(* The handler has yet to revoke the WORKER_TOKEN its worker presented.    *)
Presented(r) == Bound(r) \in {"rtoken", "rcommit"}

(* A WORKER_TOKEN is in one place: undelivered in one handler's hands, or  *)
(* with one worker, which alone presents it.                               *)
PlaceInv ==
  /\ \A t \in Tokens, s \in Sessions : task[s].new = t =>
       /\ wt[t] # "unissued"
       /\ \A w \in Workers : wk[w].tok # t
       /\ \A r \in Sessions : /\ task[r].new = t => r = s
                              /\ Presented(task[r]) => task[r].tok # t
  /\ \A t \in Tokens, w \in Workers : wk[w].tok = t =>
       /\ wt[t] # "unissued"
       /\ \A v \in Workers : wk[v].tok = t => v = w
       /\ \A s \in Sessions : Presented(task[s]) /\ task[s].tok = t => task[s].w = w
  /\ \A s \in Sessions :
       Presented(task[s]) /\ task[s].tok \in Tokens => wt[task[s].tok] # "unissued"

(* A token that a deletion revoked in a handler's hands does not replace a *)
(* valid one: the valid one is still on its way to the same worker.        *)
ReplacedInv ==
  ~ lost /\ node.key # None =>
    \A s \in Sessions :
      /\ Attached(s) /\ task[s].w = node.key
      /\ task[s].new \in Tokens \ Valid
      => \E r \in Sessions : task[r].w = node.key /\ task[r].new \in Valid

Inv == /\ TypeOK /\ JoinInv /\ RegistryAlive /\ SessInv /\ PlaceInv
       /\ ReplacedInv /\ LockoutOnlyByLoss

-----------------------------------------------------------------------------
(* What the model's operators write.                                       *)
LEMMA Names ==
  /\ None \notin Sessions /\ Dead \notin Sessions /\ None \notin Workers /\ None # Dead
  /\ "admin" \notin Sessions /\ "monitor" \notin Sessions
  /\ \A s \in Sessions : s \in Actors
  /\ 0 \notin Tokens /\ \A t \in Tokens : t \in 0..MaxTokens
BY NamesAssumption, BoundsAssumption DEF Actors, Tokens

LEMMA IdleType == Idle \in TaskType /\ Idle.pc = "free" /\ Idle.new = 0 /\ ~ Presented(Idle) /\ ~ Holding(Idle)
<1>1. 0 \in 0..MaxTokens + MaxJoin /\ 0 \in 0..MaxTokens
  BY BoundsAssumption
<1>2. "free" \in Steps /\ "NONE" \in States
  BY DEF Steps, States
<1> QED
  BY <1>1, <1>2 DEF Idle, TaskType, Presented, Holding, Bound

LEMMA GoEffect ==
  ASSUME task \in [Actors -> TaskType], NEW a \in Actors, NEW pc \in Steps
  PROVE  /\ Go(a, pc) \in [Actors -> TaskType]
         /\ \A b \in Actors \ {a} : Go(a, pc)[b] = task[b]
         /\ Go(a, pc)[a].pc = pc
         /\ Go(a, pc)[a].then = "free"
         /\ Go(a, pc)[a].w = task[a].w
         /\ Go(a, pc)[a].tok = task[a].tok
         /\ Go(a, pc)[a].new = task[a].new
<1>1. "free" \in Steps /\ "NONE" \in States
  BY DEF Steps, States
<1> DEFINE r == [task[a] EXCEPT !.pc = pc, !.to = "NONE", !.then = "free"]
<1>2. task[a] \in TaskType
  OBVIOUS
<1>3. /\ r \in TaskType /\ r.pc = pc /\ r.then = "free" /\ r.w = task[a].w
      /\ r.tok = task[a].tok /\ r.new = task[a].new
  BY <1>1, <1>2 DEF TaskType
<1>4. Go(a, pc) = [task EXCEPT ![a] = r]
  BY DEF Go
<1> HIDE DEF r
<1> QED
  BY <1>3, <1>4

LEMMA MoveEffect ==
  ASSUME task \in [Actors -> TaskType], NEW a \in Actors,
         NEW target \in States, NEW next \in Steps
  PROVE  /\ Move(a, target, next) \in [Actors -> TaskType]
         /\ \A b \in Actors \ {a} : Move(a, target, next)[b] = task[b]
         /\ Move(a, target, next)[a].pc = "read"
         /\ Move(a, target, next)[a].then = next
         /\ Move(a, target, next)[a].w = task[a].w
         /\ Move(a, target, next)[a].tok = task[a].tok
         /\ Move(a, target, next)[a].new = task[a].new
<1>1. "read" \in Steps
  BY DEF Steps
<1> DEFINE r == [task[a] EXCEPT !.pc = "read", !.to = target, !.then = next]
<1>2. task[a] \in TaskType
  OBVIOUS
<1>3. /\ r \in TaskType /\ r.pc = "read" /\ r.then = next /\ r.w = task[a].w
      /\ r.tok = task[a].tok /\ r.new = task[a].new
  BY <1>1, <1>2 DEF TaskType
<1>4. Move(a, target, next) = [task EXCEPT ![a] = r]
  BY DEF Move
<1> HIDE DEF r
<1> QED
  BY <1>3, <1>4

LEMMA GiveEffect ==
  ASSUME NEW next \in [Actors -> TaskType], NEW s \in Sessions, NEW t \in Tokens
  PROVE  /\ Give(next, s, t) \in [Actors -> TaskType]
         /\ \A b \in Actors \ {s} : Give(next, s, t)[b] = next[b]
         /\ Give(next, s, t)[s].pc = next[s].pc
         /\ Give(next, s, t)[s].then = next[s].then
         /\ Give(next, s, t)[s].w = next[s].w
         /\ Give(next, s, t)[s].new = t
<1>1. s \in Actors /\ t \in 0..MaxTokens
  BY Names
<1>2. 0 \in 0..MaxTokens + MaxJoin
  BY BoundsAssumption
<1> DEFINE r == [next[s] EXCEPT !.new = t, !.tok = 0, !.first = FALSE]
<1>3. next[s] \in TaskType
  BY <1>1
<1>4. /\ r \in TaskType /\ r.pc = next[s].pc /\ r.then = next[s].then /\ r.w = next[s].w
      /\ r.new = t
  BY <1>1, <1>2, <1>3 DEF TaskType
<1>5. Give(next, s, t) = [next EXCEPT ![s] = r]
  BY DEF Give
<1> HIDE DEF r
<1> QED
  BY <1>1, <1>4, <1>5

LEMMA HangUpEffect ==
  ASSUME wk \in [Workers -> WorkerType], NEW S
  PROVE  /\ HangUp(S) \in [Workers -> WorkerType]
         /\ \A w \in Workers :
              /\ HangUp(S)[w].tok = wk[w].tok /\ HangUp(S)[w].join = wk[w].join
              /\ HangUp(S)[w].sess \in {wk[w].sess, None}
              /\ HangUp(S)[w].sess \notin S \/ HangUp(S)[w].sess = None
<1> SUFFICES ASSUME NEW w \in Workers
             PROVE  /\ HangUp(S)[w] \in WorkerType
                    /\ HangUp(S)[w].tok = wk[w].tok /\ HangUp(S)[w].join = wk[w].join
                    /\ HangUp(S)[w].sess \in {wk[w].sess, None}
                    /\ HangUp(S)[w].sess \notin S \/ HangUp(S)[w].sess = None
  BY DEF HangUp
<1>1. HangUp(S)[w] = IF wk[w].sess \in S THEN [wk[w] EXCEPT !.sess = None] ELSE wk[w]
  BY DEF HangUp
<1>2. wk[w] \in WorkerType
  OBVIOUS
<1> QED
  BY <1>1, <1>2 DEF WorkerType

-----------------------------------------------------------------------------
(* What keeps the tokens where they are: a handler holds on to its token,  *)
(* or ends up without one, having had none or lost it.                     *)
Undisturbed(s) ==
  \/ /\ task'[s].w = task[s].w /\ task'[s].new = task[s].new
     /\ Presented(task'[s]) => Presented(task[s]) /\ task'[s].tok = task[s].tok
  \/ task'[s].new = 0 /\ ~ Presented(task'[s]) /\ (lost' \/ task[s].new = 0)

LEMMA TokensKept ==
  ASSUME Inv, TypeOK', SessInv', \A s \in Sessions : Undisturbed(s),
         \A w \in Workers : wk'[w].tok = wk[w].tok /\ wk'[w].sess \in {wk[w].sess, None},
         lost => lost',
         \A t \in Tokens : wt'[t] = "unissued" <=> wt[t] = "unissued",
         node'.key # None => node'.key = node.key /\ wt' = wt
  PROVE  PlaceInv' /\ ReplacedInv' /\ LockoutOnlyByLoss'
<1>1. \A s \in Sessions : /\ task'[s].new = task[s].new \/ task'[s].new = 0
                          /\ Presented(task'[s]) => Presented(task[s]) /\ task'[s].tok = task[s].tok
                                                       /\ task'[s].w = task[s].w
  BY IdleType DEF Undisturbed
<1>2. PlaceInv'
  <2>0. PlaceInv /\ \A w \in Workers : wk'[w].tok = wk[w].tok
    BY DEF Inv
  <2>1. ASSUME NEW t \in Tokens, NEW s \in Sessions, task'[s].new = t
        PROVE  /\ wt'[t] # "unissued"
               /\ \A w \in Workers : wk'[w].tok # t
               /\ \A r \in Sessions : /\ task'[r].new = t => r = s
                                      /\ Presented(task'[r]) => task'[r].tok # t
    <3>1. task[s].new = t /\ t # 0
      BY <1>1, <2>1, Names
    <3>2. wt[t] # "unissued" /\ \A w \in Workers : wk[w].tok # t
      BY <2>0, <3>1 DEF PlaceInv
    <3>3. \A r \in Sessions : /\ task[r].new = t => r = s
                              /\ Presented(task[r]) => task[r].tok # t
      BY <2>0, <3>1 DEF PlaceInv
    <3>4. \A w \in Workers : wk'[w].tok # t
      BY <2>0, <3>2
    <3>5. \A r \in Sessions : task'[r].new = t => r = s
      BY <1>1, <3>1, <3>3
    <3>6. \A r \in Sessions : Presented(task'[r]) => task'[r].tok # t
      BY <1>1, <3>3
    <3> QED
      BY <3>2, <3>4, <3>5, <3>6
  <2>2. ASSUME NEW t \in Tokens, NEW w \in Workers, wk'[w].tok = t
        PROVE  /\ wt'[t] # "unissued"
               /\ \A v \in Workers : wk'[v].tok = t => v = w
               /\ \A s \in Sessions : Presented(task'[s]) /\ task'[s].tok = t => task'[s].w = w
    <3>1. wk[w].tok = t
      BY <2>0, <2>2
    <3>2. wt[t] # "unissued" /\ \A v \in Workers : wk[v].tok = t => v = w
      BY <2>0, <3>1 DEF PlaceInv
    <3>3. \A s \in Sessions : Presented(task[s]) /\ task[s].tok = t => task[s].w = w
      BY <2>0, <3>1 DEF PlaceInv
    <3>4. \A s \in Sessions : Presented(task'[s]) /\ task'[s].tok = t => task'[s].w = w
      BY <1>1, <3>3
    <3> QED
      BY <2>0, <3>2, <3>4
  <2>3. ASSUME NEW s \in Sessions, Presented(task'[s]), task'[s].tok \in Tokens
        PROVE  wt'[task'[s].tok] # "unissued"
    <3>1. Presented(task[s]) /\ task'[s].tok = task[s].tok
      BY <1>1, <2>3
    <3>2. wt[task[s].tok] # "unissued"
      BY <2>0, <2>3, <3>1 DEF PlaceInv
    <3> QED
      BY <2>3, <3>1, <3>2
  <2> QED
    BY <2>1, <2>2, <2>3 DEF PlaceInv, Presented, Bound
<1>3. CASE lost' \/ node'.key = None
  BY <1>2, <1>3 DEF ReplacedInv, LockoutOnlyByLoss
<1>4. CASE ~ lost' /\ node'.key # None
  <2>1. ~ lost /\ node.key # None /\ node'.key = node.key /\ wt' = wt /\ Valid' = Valid
    BY <1>4 DEF Valid
  <2>2. ASSUME NEW r \in Sessions, task[r].w = node.key, task[r].new \in Valid
        PROVE  task'[r].w = node'.key /\ task'[r].new \in Valid'
    <3>1. task[r].new # 0
      BY <2>2, Names DEF Valid
    <3> QED
      BY <1>4, <2>1, <2>2, <3>1 DEF Undisturbed
  <2>3. ReplacedInv'
    <3>1. ASSUME NEW s \in Sessions, Attached(s)', task'[s].w = node'.key,
                 task'[s].new \in Tokens \ Valid'
          PROVE  \E r \in Sessions : task'[r].w = node'.key /\ task'[r].new \in Valid'
      <4>1. task'[s].new # 0
        BY <3>1, Names
      <4>2. task[s].new \in Tokens \ Valid /\ task[s].w = node.key
        BY <2>1, <3>1, <4>1 DEF Undisturbed
      <4>3. Attached(s)
        BY <3>1, Names DEF Attached
      <4> QED
        BY <2>1, <2>2, <4>2, <4>3 DEF Inv, ReplacedInv
    <3> QED
      BY <3>1 DEF ReplacedInv
  <2>4. node'.key \in Workers
    BY <1>4 DEF TypeOK
  <2>5. LockoutOnlyByLoss'
    <3>1. \/ wk[node.key].tok \in Valid
          \/ \E s \in Sessions : task[s].w = node.key /\ task[s].new \in Valid
      BY <2>1 DEF Inv, LockoutOnlyByLoss
    <3>2. wk'[node'.key].tok = wk[node.key].tok
      BY <2>1, <2>4
    <3> QED
      BY <2>1, <2>2, <3>1, <3>2 DEF LockoutOnlyByLoss
  <2> QED
    BY <1>2, <2>3, <2>5
<1> QED
  BY <1>3, <1>4

(* One task goes on from one step to another.                              *)
LEMMA TaskStep ==
  ASSUME Inv, NEW a \in Actors,
         task' \in [Actors -> TaskType], \A b \in Actors \ {a} : task'[b] = task[b],
         a \in Sessions => /\ task'[a].pc # "free" /\ Served(task'[a]) /\ Undisturbed(a)
                           /\ task[a].pc # "free" /\ task'[a].w = task[a].w
                           /\ conn' = a => task'[a].pc \in
                                {"success", "audit", "op", "rotate", "rotsend", "fin1"},
         node' \in NodeType, node'.key # None => node'.key = node.key /\ wt' = wt,
         wt' \in [Tokens -> {"unissued", "valid", "revoked", "gone"}],
         \A t \in Tokens : wt'[t] = "unissued" <=> wt[t] = "unissued",
         jt' \in [JoinTokens -> {"unissued", "open", "consumed"}], JoinInv',
         asked' \in 0..MaxAdmin, crashes' \in 0..MaxCrashes, conn' \in {conn, None},
         UNCHANGED <<wk, enrolls, lost>>, up' \in BOOLEAN
  PROVE  Inv'
<1>1. TypeOK'
  BY DEF Inv, TypeOK, NodeType
<1>2. \A s \in Sessions : s \in Actors
  BY Names
<1>3. \A s \in Sessions : s # a => task'[s] = task[s]
  BY <1>2
<1>4. \A s \in Sessions : Undisturbed(s) /\ Served(task'[s])
  <2> SUFFICES ASSUME NEW s \in Sessions, s # a PROVE Undisturbed(s) /\ Served(task'[s])
    OBVIOUS
  <2>1. task'[s] = task[s]
    BY <1>3
  <2> QED
    BY <2>1 DEF Undisturbed, Inv, SessInv
<1>5. SessInv'
  <2>1. \A s \in Sessions : task[s].pc # "free" => task'[s].pc # "free" /\ task'[s].w = task[s].w
    BY <1>3
  <2>2. ASSUME NEW w \in Workers, wk'[w].sess # None
        PROVE  task'[wk'[w].sess].pc # "free" /\ task'[wk'[w].sess].w = w
    <3>1. wk[w].sess \in Sessions /\ wk'[w] = wk[w]
      BY <2>2 DEF Inv, TypeOK
    <3> QED
      BY <2>1, <2>2, <3>1 DEF Inv, SessInv
  <2> QED
    BY <1>4, <2>2 DEF SessInv, Served, Holding, Bound
<1>6. RegistryAlive'
  <2>1. ASSUME conn' \in Sessions
        PROVE  /\ task'[conn'].pc \in {"success", "audit", "op", "rotate", "rotsend", "fin1"}
               /\ task'[conn'].w # None
    <3>1. conn' = conn
      BY <2>1, Names
    <3>2. task'[conn'].pc \in {"success", "audit", "op", "rotate", "rotsend", "fin1"}
      BY <1>3, <2>1, <3>1 DEF Inv, RegistryAlive
    <3> QED
      BY <1>4, <2>1, <3>2, Names DEF Served
  <2> QED
    BY <2>1 DEF RegistryAlive
<1>7. PlaceInv' /\ ReplacedInv' /\ LockoutOnlyByLoss'
  BY <1>1, <1>4, <1>5, TokensKept
<1> QED
  BY <1>1, <1>5, <1>6, <1>7 DEF Inv

(* A handler, the administrator's request or the monitor's step ends.      *)
LEMMA EndStep ==
  ASSUME Inv, NEW a \in Actors, End(a), node' \in NodeType, node'.key = node.key,
         UNCHANGED <<up, jt, wt, enrolls, count>>
  PROVE  Inv'
<1>1. /\ task' \in [Actors -> TaskType] /\ task'[a] = Idle
      /\ \A b \in Actors \ {a} : task'[b] = task[b]
  BY IdleType DEF End, Inv, TypeOK
<1>2. wk \in [Workers -> WorkerType]
  BY DEF Inv, TypeOK, WorkerType
<1>3. /\ wk' \in [Workers -> WorkerType]
      /\ \A w \in Workers : /\ wk'[w].tok = wk[w].tok
                            /\ wk'[w].sess \in {wk[w].sess, None}
                            /\ wk'[w].sess # a \/ wk'[w].sess = None
  BY <1>2, HangUpEffect DEF End
<1>4. (lost => lost') /\ (lost' \/ task[a].new = 0) /\ lost' \in BOOLEAN
  BY DEF End, Inv, TypeOK
<1>5. conn' \in Sessions \cup {None, Dead} /\ (conn' \in Sessions => conn' = conn /\ conn # a)
  BY Names DEF End, Inv, TypeOK
<1>6. TypeOK'
  <2>1. UNCHANGED <<asked, crashes>>
    BY DEF count
  <2> QED
    BY <1>1, <1>3, <1>4, <1>5, <2>1 DEF Inv, TypeOK, NodeType, WorkerType
<1>7. \A s \in Sessions : s # a => task'[s] = task[s]
  BY <1>1, Names
<1>8. \A s \in Sessions : Undisturbed(s) /\ Served(task'[s])
  <2> TAKE s \in Sessions
  <2>1. CASE s = a
    BY <1>1, <1>4, <2>1, IdleType DEF Undisturbed, Served
  <2>2. CASE s # a
    BY <1>7, <2>2 DEF Undisturbed, Inv, SessInv
  <2> QED
    BY <2>1, <2>2
<1>9. SessInv'
  <2>1. ASSUME NEW w \in Workers, wk'[w].sess # None
        PROVE  task'[wk'[w].sess].pc # "free" /\ task'[wk'[w].sess].w = w
    <3>1. wk'[w].sess = wk[w].sess /\ wk[w].sess # a /\ wk[w].sess \in Sessions
      BY <1>2, <1>3, <2>1 DEF WorkerType
    <3> QED
      BY <1>7, <2>1, <3>1 DEF Inv, SessInv
  <2> QED
    BY <1>8, <2>1 DEF SessInv, Served, Holding, Bound
<1>10. RegistryAlive'
  BY <1>5, <1>7 DEF Inv, RegistryAlive
<1>11. JoinInv'
  BY DEF Inv, JoinInv
<1>12. PlaceInv' /\ ReplacedInv' /\ LockoutOnlyByLoss'
  <2>1. \A w \in Workers : wk'[w].tok = wk[w].tok /\ wk'[w].sess \in {wk[w].sess, None}
    BY <1>3
  <2>2. wt' = wt /\ \A t \in Tokens : wt'[t] = "unissued" <=> wt[t] = "unissued"
    OBVIOUS
  <2> QED
    BY <1>4, <1>6, <1>8, <1>9, <2>1, <2>2, TokensKept
<1> QED
  BY <1>6, <1>9, <1>10, <1>11, <1>12 DEF Inv

(* A step that leaves every token, every row key and every link alone.     *)
LEMMA QuietStep ==
  ASSUME Inv, NEW a \in Actors,
         task' \in [Actors -> TaskType], \A b \in Actors \ {a} : task'[b] = task[b],
         a \in Sessions =>
           /\ task[a].pc # "free" /\ task'[a].pc # "free"
           /\ task'[a].w = task[a].w /\ task'[a].new = task[a].new
           /\ task[a].new # 0 <=> Holding(task'[a])
           /\ Presented(task'[a]) => Presented(task[a]) /\ task'[a].tok = task[a].tok
           /\ conn' = a => task'[a].pc \in
                {"success", "audit", "op", "rotate", "rotsend", "fin1"},
         node' \in NodeType, node'.key = node.key, conn' \in {conn, None},
         UNCHANGED <<up, jt, wt, wk, enrolls, lost>>, UNCHANGED crashes,
         asked' \in 0..MaxAdmin
  PROVE  Inv'
<1>1. a \in Sessions => Served(task'[a]) /\ Undisturbed(a)
  BY DEF Served, Undisturbed, Inv, SessInv
<1>2. JoinInv'
  BY DEF Inv, JoinInv
<1>3. /\ jt' \in [JoinTokens -> {"unissued", "open", "consumed"}]
      /\ wt' \in [Tokens -> {"unissued", "valid", "revoked", "gone"}]
      /\ crashes' \in 0..MaxCrashes /\ up' \in BOOLEAN
  BY DEF Inv, TypeOK
<1>4. /\ wt' = wt /\ \A t \in Tokens : wt'[t] = "unissued" <=> wt[t] = "unissued"
      /\ node'.key # None => node'.key = node.key /\ wt' = wt
  OBVIOUS
<1> QED
  BY <1>1, <1>2, <1>3, <1>4, TaskStep

LEMMA Shape ==
  ASSUME Inv
  PROVE  /\ task \in [Actors -> TaskType] /\ wk \in [Workers -> WorkerType]
         /\ node \in NodeType /\ conn \in Sessions \cup {None, Dead}
         /\ asked \in 0..MaxAdmin /\ crashes \in 0..MaxCrashes /\ lost \in BOOLEAN
         /\ wt \in [Tokens -> {"unissued", "valid", "revoked", "gone"}]
         /\ jt \in [JoinTokens -> {"unissued", "open", "consumed"}]
         /\ enrolls \in [JoinTokens -> Nat]
  BY DEF Inv, TypeOK, WorkerType, NodeType

-----------------------------------------------------------------------------
LEMMA InitInv == Init => Inv
<1> SUFFICES ASSUME Init PROVE Inv
  OBVIOUS
<1>1. /\ 0 \in 0..MaxJoin /\ 0 \in 0..MaxTokens /\ 0 \in 0..MaxAdmin /\ 0 \in 0..MaxCrashes
      /\ "NONE" \in States
  BY BoundsAssumption DEF States
<1>2. TypeOK
  BY <1>1, IdleType DEF Init, TypeOK
<1>3. \A s \in Sessions : task[s] = Idle
  BY Names DEF Init
<1>4. JoinInv /\ RegistryAlive
  BY Names DEF Init, JoinInv, RegistryAlive
<1>5. SessInv
  BY <1>3, IdleType DEF Init, SessInv, Served
<1>6. PlaceInv
  BY <1>3, IdleType, Names DEF Init, PlaceInv
<1>7. ReplacedInv /\ LockoutOnlyByLoss
  BY DEF Init, ReplacedInv, LockoutOnlyByLoss
<1> QED
  BY <1>2, <1>4, <1>5, <1>6, <1>7 DEF Inv

(* transition_state                                                        *)
LEMMA TransitionInv ==
  ASSUME Inv, NEW a \in Actors, TransitionRead(a) \/ TransitionWrite(a)
  PROVE  Inv'
<1> USE Shape
<1>1. ASSUME a \in Sessions, task[a].pc \in {"read", "write"} PROVE conn # a
  BY <1>1 DEF Inv, RegistryAlive
<1>2. a \in Sessions => (task[a].new # 0 <=> Holding(task[a]))
  BY DEF Inv, SessInv, Served
<1>3. CASE TransitionRead(a) /\ task' = [task EXCEPT ![a].pc = "write"] /\ UNCHANGED <<conn, lost, wk>>
  <2>1. task[a].pc = "read"
    BY <1>3 DEF TransitionRead, At
  <2>2. /\ task' \in [Actors -> TaskType] /\ \A b \in Actors \ {a} : task'[b] = task[b]
        /\ task'[a].pc = "write" /\ task'[a].w = task[a].w /\ task'[a].new = task[a].new
        /\ task'[a].tok = task[a].tok /\ task'[a].then = task[a].then
    BY <1>3 DEF TaskType, Steps
  <2>3. Bound(task'[a]) = Bound(task[a])
    BY <2>1, <2>2 DEF Bound
  <2>4. UNCHANGED <<up, node, jt, wt, conn, wk, enrolls, lost, asked, crashes>>
    BY <1>3 DEF TransitionRead, count
  <2>5. a \in Sessions => conn' # a
    BY <1>1, <2>1, <2>4
  <2> QED
    BY <1>2, <2>1, <2>2, <2>3, <2>4, <2>5, QuietStep DEF Holding, Presented
<1>4. CASE TransitionWrite(a) /\ task[a].then # "free" /\ task' = Go(a, task[a].then)
           /\ UNCHANGED <<conn, lost, wk>>
  <2>1. task[a].pc = "write" /\ task[a].then \in Steps
    BY <1>4 DEF TransitionWrite, At, TaskType
  <2>2. /\ task' \in [Actors -> TaskType] /\ \A b \in Actors \ {a} : task'[b] = task[b]
        /\ task'[a].pc = task[a].then /\ task'[a].w = task[a].w /\ task'[a].new = task[a].new
        /\ task'[a].tok = task[a].tok /\ task'[a].then = "free"
    BY <1>4, <2>1, GoEffect
  <2>3. Bound(task'[a]) \in {Bound(task[a]), "free"}
    BY <2>1, <2>2 DEF Bound
  <2>4. Bound(task'[a]) = Bound(task[a]) \/ Bound(task[a]) \in {"read", "write"}
    BY <2>1, <2>2 DEF Bound
  <2>5. UNCHANGED <<up, jt, wt, conn, wk, enrolls, lost, asked, crashes>>
    BY <1>4 DEF TransitionWrite, count
  <2>6. a \in Sessions => conn' # a
    BY <1>1, <2>1, <2>5
  <2>7. node' \in NodeType /\ node'.key = node.key
    <3>1. node' = (IF node.state = "NONE" THEN node ELSE [node EXCEPT !.state = task[a].to])
      BY <1>4 DEF TransitionWrite
    <3>2. task[a].to \in States
      BY DEF TaskType
    <3> QED
      BY <3>1, <3>2 DEF NodeType
  <2>8. a \in Sessions => (task[a].new # 0 <=> Holding(task'[a]))
    BY <1>2, <2>2, <2>3, <2>4 DEF Holding
  <2>9. Presented(task'[a]) => Presented(task[a])
    BY <2>3 DEF Presented
  <2> QED
    BY <1>4, <2>1, <2>2, <2>5, <2>6, <2>7, <2>8, <2>9, QuietStep
<1>5. CASE TransitionRead(a) /\ End(a)
  <2>1. node' \in NodeType /\ node'.key = node.key /\ UNCHANGED <<up, jt, wt, enrolls, count>>
    BY <1>5 DEF TransitionRead
  <2> QED
    BY <1>5, <2>1, EndStep
<1>6. CASE TransitionWrite(a) /\ End(a)
  <2>1. node' = (IF node.state = "NONE" THEN node ELSE [node EXCEPT !.state = task[a].to])
    BY <1>6 DEF TransitionWrite
  <2>2. task[a].to \in States
    BY DEF TaskType
  <2>3. node' \in NodeType /\ node'.key = node.key
    BY <2>1, <2>2 DEF NodeType
  <2>4. UNCHANGED <<up, jt, wt, enrolls, count>>
    BY <1>6 DEF TransitionWrite
  <2> QED
    BY <1>6, <2>3, <2>4, EndStep
<1> QED
  BY <1>3, <1>4, <1>5, <1>6 DEF TransitionRead, TransitionWrite

LEMMA EmptyHanded ==
  ASSUME Inv, NEW s \in Sessions,
         task[s].pc \notin {"read", "write", "register", "success", "rotsend"}
  PROVE  task[s].new = 0
BY DEF Inv, SessInv, Served, Holding, Bound

LEMMA Unregistered ==
  ASSUME Inv, NEW s \in Sessions,
         task[s].pc \notin {"success", "audit", "op", "rotate", "rotsend", "fin1"}
  PROVE  conn # s
BY DEF Inv, RegistryAlive

(* A handler without a token in hand goes on to pc, or through             *)
(* transition_state to next.                                               *)
LEMMA GoStep ==
  ASSUME Inv, NEW s \in Sessions, NEW pc \in Steps, task[s].new = 0, task[s].pc # "free",
         task' \in [Actors -> TaskType], \A b \in Actors \ {s} : task'[b] = task[b],
         task'[s].pc = pc, task'[s].w = task[s].w, task'[s].new = 0,
         pc \notin {"free", "read", "write", "rtoken", "rcommit", "register", "success", "rotsend"},
         conn' = s => pc \in {"success", "audit", "op", "rotate", "rotsend", "fin1"},
         conn' \in {conn, None}, UNCHANGED <<up, node, jt, wt, wk, enrolls, lost, count>>
  PROVE  Inv'
<1>1. ~ Presented(task'[s]) /\ ~ Holding(task'[s])
  BY DEF Presented, Holding, Bound
<1>2. node' \in NodeType /\ node'.key = node.key /\ asked' \in 0..MaxAdmin
      /\ UNCHANGED <<up, jt, wt, wk, enrolls, lost>> /\ UNCHANGED crashes
  BY Shape DEF count
<1>3. s \in Actors
  BY Names
<1> QED
  BY <1>1, <1>2, <1>3, QuietStep

LEMMA MoveStep ==
  ASSUME Inv, NEW s \in Sessions, NEW target \in States, NEW next \in Steps,
         task[s].new = 0, task[s].pc # "free", conn # s, task' = Move(s, target, next),
         next \in {"rtoken", "rcommit"} => Presented(task[s]),
         next \notin {"register", "success", "rotsend"},
         UNCHANGED <<up, node, jt, wt, conn, wk, enrolls, lost, count>>
  PROVE  Inv'
<1>1. s \in Actors
  BY Names
<1>2. /\ task' \in [Actors -> TaskType] /\ \A b \in Actors \ {s} : task'[b] = task[b]
      /\ task'[s].pc = "read" /\ task'[s].then = next /\ task'[s].w = task[s].w
      /\ task'[s].tok = task[s].tok /\ task'[s].new = task[s].new
  BY <1>1, Shape, MoveEffect
<1>3. (Presented(task'[s]) => Presented(task[s])) /\ ~ Holding(task'[s])
  BY <1>2 DEF Presented, Holding, Bound
<1>4. node' \in NodeType /\ node'.key = node.key /\ asked' \in 0..MaxAdmin
      /\ UNCHANGED <<up, jt, wt, conn, wk, enrolls, lost>> /\ UNCHANGED crashes
  BY Shape DEF count
<1>5. conn' \in {conn, None} /\ conn' # s
  BY <1>4
<1> QED
  BY <1>1, <1>2, <1>3, <1>4, <1>5, QuietStep

(* A step that ends the handler and leaves the row alone.                  *)
LEMMA Ends ==
  ASSUME Inv, NEW s \in Sessions, End(s), UNCHANGED <<up, node, jt, wt, enrolls, count>>
  PROVE  Inv'
<1>1. s \in Actors /\ node' \in NodeType /\ node'.key = node.key
  BY Names, Shape
<1> QED
  BY <1>1, EndStep

-----------------------------------------------------------------------------
(* The handshakes up to their commits.                                     *)
LEMMA CheckInv ==
  ASSUME Inv, NEW s \in Sessions, CheckJoin(s) \/ Challenge(s) \/ CheckReconnect(s)
  PROVE  Inv'
<1>1. task[s].pc \in {"jtoken", "challenge", "rtoken"}
  BY DEF CheckJoin, Challenge, CheckReconnect, At
<1>2. task[s].new = 0 /\ conn # s /\ s \in Actors
  BY <1>1, EmptyHanded, Unregistered, Names
<1>3. UNCHANGED <<up, node, jt, wt, enrolls, count>>
  BY DEF CheckJoin, Challenge, CheckReconnect
<1>4. "challenge" \in Steps /\ "jcommit" \in Steps /\ "rcommit" \in Steps /\ "ENROLLING" \in States
  BY DEF Steps, States
<1>5. CASE task' = [Go(s, "challenge") EXCEPT ![s].first = TRUE] /\ UNCHANGED <<conn, lost, wk>>
  <2> DEFINE g == Go(s, "challenge")
  <2>1. /\ g \in [Actors -> TaskType] /\ \A b \in Actors \ {s} : g[b] = task[b]
        /\ g[s].pc = "challenge" /\ g[s].w = task[s].w /\ g[s].new = task[s].new
    BY <1>2, <1>4, Shape, GoEffect
  <2>2. task' = [g EXCEPT ![s].first = TRUE]
    BY <1>5
  <2> HIDE DEF g
  <2>3. /\ task' \in [Actors -> TaskType] /\ \A b \in Actors \ {s} : task'[b] = task[b]
        /\ task'[s].pc = "challenge" /\ task'[s].w = task[s].w /\ task'[s].new = 0
    <3> DEFINE r == [g[s] EXCEPT !.first = TRUE]
    <3>1. r \in TaskType /\ r.pc = "challenge" /\ r.w = task[s].w /\ r.new = task[s].new
      BY <1>2, <2>1 DEF TaskType
    <3>2. task' = [g EXCEPT ![s] = r]
      BY <2>2
    <3> HIDE DEF r
    <3> QED
      BY <1>2, <2>1, <3>1, <3>2
  <2>4. conn' \in {conn, None} /\ conn' # s /\ UNCHANGED <<lost, wk>>
    BY <1>2, <1>5
  <2> QED
    BY <1>1, <1>2, <1>3, <1>4, <2>3, <2>4, GoStep
<1>6. CASE task' = Move(s, "ENROLLING", "challenge") /\ UNCHANGED <<conn, lost, wk>>
  BY <1>1, <1>2, <1>3, <1>4, <1>6, MoveStep
<1>7. CASE task' = Go(s, "jcommit") /\ UNCHANGED <<conn, lost, wk>>
  <2>1. /\ task' \in [Actors -> TaskType] /\ \A b \in Actors \ {s} : task'[b] = task[b]
        /\ task'[s].pc = "jcommit" /\ task'[s].w = task[s].w /\ task'[s].new = 0
    BY <1>2, <1>4, <1>7, Shape, GoEffect
  <2>2. conn' \in {conn, None} /\ conn' # s /\ UNCHANGED <<lost, wk>>
    BY <1>2, <1>7
  <2> QED
    BY <1>1, <1>2, <1>3, <1>4, <2>1, <2>2, GoStep
<1>8. CASE task[s].pc = "rtoken" /\ task' = Move(s, "ENROLLING", "rcommit")
           /\ UNCHANGED <<conn, lost, wk>>
  <2>1. Presented(task[s])
    BY <1>8 DEF Presented, Bound
  <2> QED
    BY <1>1, <1>2, <1>3, <1>4, <1>8, <2>1, MoveStep
<1>9. CASE End(s)
  BY <1>3, <1>9, Ends
<1> QED
  BY <1>5, <1>6, <1>7, <1>8, <1>9 DEF CheckJoin, Challenge, CheckReconnect, At

-----------------------------------------------------------------------------
(* The end of the handshakes, the loop and the clean-up.                   *)
LEMMA LoopInv ==
  ASSUME Inv, NEW s \in Sessions,
         Audit(s) \/ Heartbeat(s) \/ Disconnected(s) \/ Unregister(s) \/ FinalState(s)
  PROVE  Inv'
<1>1. task[s].pc \in {"audit", "op", "fin1", "fin2"}
  BY DEF Audit, Heartbeat, Disconnected, Unregister, FinalState, At
<1>2. task[s].new = 0 /\ s \in Actors
  BY <1>1, EmptyHanded, Names
<1>3. UNCHANGED <<up, node, jt, wt, enrolls, count>>
  BY DEF Audit, Heartbeat, Disconnected, Unregister, FinalState
<1>4. /\ "op" \in Steps /\ "fin1" \in Steps /\ "fin2" \in Steps /\ "rotate" \in Steps
      /\ "free" \in Steps /\ "RECONNECTING" \in States /\ "PENDING" \in States
  BY DEF Steps, States
<1>5. ASSUME NEW pc \in {"op", "fin1", "fin2"}, task' = Go(s, pc), UNCHANGED <<lost, wk>>,
             conn' \in {conn, None}, pc = "fin2" => conn' = None
      PROVE  Inv'
  <2>1. /\ task' \in [Actors -> TaskType] /\ \A b \in Actors \ {s} : task'[b] = task[b]
        /\ task'[s].pc = pc /\ task'[s].w = task[s].w /\ task'[s].new = 0
    BY <1>2, <1>4, <1>5, Shape, GoEffect
  <2>2. conn' = s => pc # "fin2"
    BY <1>5, Names
  <2> QED
    BY <1>1, <1>2, <1>3, <1>4, <1>5, <2>1, <2>2, GoStep
<1>6. CASE Audit(s) /\ ~ End(s)
  BY <1>5, <1>6 DEF Audit
<1>7. CASE Disconnected(s)
  BY <1>5, <1>7 DEF Disconnected
<1>8. CASE Unregister(s)
  BY <1>5, <1>8 DEF Unregister
<1>9. CASE Heartbeat(s)
  <2>1. PICK t \in Tokens : task' = [Go(s, "rotate") EXCEPT ![s].tok = t]
    BY <1>9 DEF Heartbeat
  <2> DEFINE g == Go(s, "rotate")
  <2>2. /\ g \in [Actors -> TaskType] /\ \A b \in Actors \ {s} : g[b] = task[b]
        /\ g[s].pc = "rotate" /\ g[s].w = task[s].w /\ g[s].new = task[s].new
    BY <1>2, <1>4, Shape, GoEffect
  <2> HIDE DEF g
  <2>3. /\ task' \in [Actors -> TaskType] /\ \A b \in Actors \ {s} : task'[b] = task[b]
        /\ task'[s].pc = "rotate" /\ task'[s].w = task[s].w /\ task'[s].new = 0
    <3> DEFINE r == [g[s] EXCEPT !.tok = t]
    <3>1. t \in 0..MaxTokens + MaxJoin
      BY BoundsAssumption DEF Tokens
    <3>2. r \in TaskType /\ r.pc = "rotate" /\ r.w = task[s].w /\ r.new = task[s].new
      BY <1>2, <2>2, <3>1 DEF TaskType
    <3>3. task' = [g EXCEPT ![s] = r]
      BY <2>1 DEF g
    <3> HIDE DEF r
    <3> QED
      BY <1>2, <2>2, <3>2, <3>3
  <2>4. conn' \in {conn, None} /\ UNCHANGED <<lost, wk>>
    BY <1>9 DEF Heartbeat
  <2> QED
    BY <1>1, <1>2, <1>3, <1>4, <2>3, <2>4, GoStep
<1>10. CASE FinalState(s) /\ ~ End(s)
  <2>1. conn # s /\ UNCHANGED <<conn, lost, wk>>
    BY <1>10, Unregistered DEF FinalState, At
  <2>2. task' = Move(s, "RECONNECTING", "free") \/ task' = Move(s, "PENDING", "free")
    BY <1>10 DEF FinalState
  <2> QED
    BY <1>1, <1>2, <1>3, <1>4, <2>1, <2>2, MoveStep
<1>11. CASE End(s)
  BY <1>3, <1>11, Ends
<1> QED
  BY <1>6, <1>7, <1>8, <1>9, <1>10, <1>11 DEF Audit

-----------------------------------------------------------------------------
(* A handler commits a fresh token in the place of old, which, unless a    *)
(* token is lost, no other worker holds and no handler is to deliver: the  *)
(* key of the row is the worker's, or of a worker the step leaves alone.   *)
LEMMA CommitStep ==
  ASSUME Inv, NEW s \in Sessions, NEW t \in Tokens, NEW old,
         wt[t] = "unissued", wt' = Reissue(old, t),
         task[s].pc # "free", task[s].new = 0,
         task' \in [Actors -> TaskType], \A b \in Actors \ {s} : task'[b] = task[b],
         task'[s].w = task[s].w, task'[s].new = t, Holding(task'[s]),
         conn = s => task'[s].pc = "rotsend",
         ~ lost' /\ old \in Tokens => /\ \A w \in Workers \ {task[s].w} : wk[w].tok # old
                                    /\ \A r \in Sessions : task[r].new # old,
         node' \in NodeType, node'.key \in {node.key, task[s].w},
         lost' \in BOOLEAN, lost => lost',
         jt' \in [JoinTokens -> {"unissued", "open", "consumed"}],
         enrolls' \in [JoinTokens -> Nat], JoinInv',
         UNCHANGED <<up, conn, wk, asked, crashes>>
  PROVE  Inv'
<1>1. /\ wt' \in [Tokens -> {"unissued", "valid", "revoked", "gone"}]
      /\ wt'[t] = "valid"
      /\ \A u \in Tokens : wt[u] # "unissued" => wt'[u] # "unissued"
      /\ \A u \in Tokens : u # old => wt'[u] = wt[u] \/ wt'[u] = "valid"
      /\ \A u \in Tokens : wt'[u] = "valid" => wt[u] = "valid" \/ u = t
  BY Shape DEF Reissue
<1>2. TypeOK'
  BY <1>1 DEF Inv, TypeOK, NodeType
<1>3. \A r \in Sessions : r # s => task'[r] = task[r]
  BY Names
<1>4. ~ Presented(task'[s]) /\ task'[s].pc # "free"
  BY DEF Holding, Presented, Bound
<1>5. SessInv'
  <2>1. \A r \in Sessions : task'[r].w = task[r].w /\ (task[r].pc # "free" => task'[r].pc # "free")
    BY <1>3, <1>4
  <2>2. \A r \in Sessions : Served(task'[r])
    BY <1>3, <2>1, Names DEF Served, Inv, SessInv
  <2>3. \A w \in Workers : wk[w].sess # None => wk[w].sess \in Sessions
    BY Shape DEF WorkerType
  <2> QED
    BY <2>1, <2>2, <2>3 DEF Inv, SessInv, Served, Holding, Bound
<1>6. RegistryAlive'
  <2>1. conn \in Sessions => task[conn].w # None
    BY DEF Inv, RegistryAlive
  <2> QED
    BY <1>3, <2>1 DEF Inv, RegistryAlive
<1>7. PlaceInv'
  <2>0. PlaceInv
    BY DEF Inv
  <2>1. /\ \A w \in Workers : wk[w].tok # t
        /\ \A r \in Sessions : task[r].new # t /\ (Presented(task[r]) => task[r].tok # t)
    BY <2>0 DEF PlaceInv
  <2>2. ASSUME NEW u \in Tokens, NEW q \in Sessions, task'[q].new = u
        PROVE  /\ wt'[u] # "unissued"
               /\ \A w \in Workers : wk[w].tok # u
               /\ \A r \in Sessions : /\ task'[r].new = u => r = q
                                      /\ Presented(task'[r]) => task'[r].tok # u
    <3>1. CASE q = s
      <4>1. u = t
        BY <2>2, <3>1
      <4>2. \A r \in Sessions : r # s => task'[r].new # t /\ (Presented(task'[r]) => task'[r].tok # t)
        BY <1>3, <2>1
      <4> QED
        BY <1>1, <1>4, <2>1, <3>1, <4>1, <4>2
    <3>2. CASE q # s
      <4>1. task[q].new = u /\ u # t
        BY <1>3, <2>1, <2>2, <3>2
      <4>2. /\ wt[u] # "unissued" /\ \A w \in Workers : wk[w].tok # u
            /\ \A r \in Sessions : task[r].new = u => r = q
            /\ \A r \in Sessions : Presented(task[r]) => task[r].tok # u
        BY <2>0, <4>1 DEF PlaceInv
      <4>3. \A r \in Sessions : task'[r].new = u => r = q
        BY <1>3, <4>1, <4>2
      <4>4. \A r \in Sessions : Presented(task'[r]) => task'[r].tok # u
        BY <1>3, <1>4, <4>2
      <4> QED
        BY <1>1, <4>2, <4>3, <4>4
    <3> QED
      BY <3>1, <3>2
  <2>3. ASSUME NEW u \in Tokens, NEW w \in Workers, wk[w].tok = u
        PROVE  /\ wt'[u] # "unissued"
               /\ \A v \in Workers : wk[v].tok = u => v = w
               /\ \A r \in Sessions : Presented(task'[r]) /\ task'[r].tok = u => task'[r].w = w
    <3>1. /\ wt[u] # "unissued" /\ \A v \in Workers : wk[v].tok = u => v = w
          /\ \A r \in Sessions : Presented(task[r]) /\ task[r].tok = u => task[r].w = w
      BY <2>0, <2>3 DEF PlaceInv
    <3> QED
      BY <1>1, <1>3, <1>4, <3>1
  <2>4. ASSUME NEW r \in Sessions, Presented(task'[r]), task'[r].tok \in Tokens
        PROVE  wt'[task'[r].tok] # "unissued"
    <3>1. task'[r] = task[r]
      BY <1>3, <1>4, <2>4
    <3> QED
      BY <1>1, <2>0, <2>4, <3>1 DEF PlaceInv
  <2> QED
    BY <2>2, <2>3, <2>4 DEF PlaceInv, Presented, Bound
<1>8. CASE lost' \/ node'.key = None
  BY <1>2, <1>5, <1>6, <1>7, <1>8 DEF Inv, ReplacedInv, LockoutOnlyByLoss
<1>9. CASE node'.key = task[s].w
  <2>1. t \in Valid' /\ task'[s].w = node'.key /\ task'[s].new \in Valid'
    BY <1>1, <1>9 DEF Valid
  <2> QED
    BY <1>2, <1>5, <1>6, <1>7, <2>1 DEF Inv, ReplacedInv, LockoutOnlyByLoss
<1>10. CASE ~ lost' /\ node'.key # None /\ node'.key = node.key /\ node.key # task[s].w
  <2>0. node.key \in Workers \ {task[s].w} /\ ~ lost
    BY <1>10, Shape DEF NodeType
  <2>1. ASSUME NEW u \in Valid, u # old PROVE u \in Valid'
    BY <1>1, <2>1 DEF Valid
  <2>2. ASSUME NEW r \in Sessions, task[r].w = node.key, task[r].new \in Valid
        PROVE  task'[r].w = node'.key /\ task'[r].new \in Valid'
    <3>1. r # s /\ task[r].new \in Tokens
      BY <1>10, <2>2 DEF Valid
    <3>2. task[r].new # old
      BY <1>10, <3>1
    <3> QED
      BY <1>3, <1>10, <2>1, <2>2, <3>1, <3>2
  <2>3. LockoutOnlyByLoss'
    <3>1. CASE wk[node.key].tok \in Valid
      <4>1. wk[node.key].tok # old
        BY <1>10, <2>0, <3>1 DEF Valid
      <4>2. wk'[node'.key].tok \in Valid'
        BY <1>10, <2>1, <3>1, <4>1
      <4> QED
        BY <4>2 DEF LockoutOnlyByLoss
    <3>2. CASE \E r \in Sessions : task[r].w = node.key /\ task[r].new \in Valid
      BY <2>2, <3>2 DEF LockoutOnlyByLoss
    <3> QED
      BY <1>10, <2>0, <3>1, <3>2 DEF Inv, LockoutOnlyByLoss
  <2>4. ASSUME NEW q \in Sessions, Attached(q)', task'[q].w = node'.key,
               task'[q].new \in Tokens \ Valid'
        PROVE  \E r \in Sessions : task'[r].w = node'.key /\ task'[r].new \in Valid'
    <3>1. task'[q] = task[q] /\ Attached(q)
      BY <1>3, <1>10, <2>4 DEF Attached
    <3>2. task[q].new # old
      BY <1>10, <2>4, <3>1
    <3>3. task[q].new \in Tokens \ Valid
      BY <2>1, <2>4, <3>1, <3>2
    <3>4. PICK r \in Sessions : task[r].w = node.key /\ task[r].new \in Valid
      BY <1>10, <2>0, <2>4, <3>1, <3>3 DEF Inv, ReplacedInv
    <3> QED
      BY <2>2, <3>4
  <2> QED
    BY <1>2, <1>5, <1>6, <1>7, <2>3, <2>4 DEF Inv, ReplacedInv
<1> QED
  BY <1>8, <1>9, <1>10

LEMMA EnrollInv == ASSUME Inv, NEW s \in Sessions, EnrollCommit(s) PROVE Inv'
<1> DEFINE j == task[s].tok
<1>1. task[s].pc = "jcommit" /\ UNCHANGED <<up, asked, crashes>>
  BY DEF EnrollCommit, At, count
<1>2. task[s].new = 0 /\ conn # s /\ s \in Actors /\ task[s].w \in Workers
  BY <1>1, EmptyHanded, Unregistered, Names DEF Inv, SessInv, Served
<1>3. CASE End(s) /\ UNCHANGED <<jt, wt, node, enrolls>>
  <2>1. UNCHANGED <<up, node, jt, wt, enrolls, count>>
    BY <1>3 DEF EnrollCommit
  <2> QED
    BY <1>3, <2>1, Ends
<1>4. CASE Unconsumed(j) /\ ~ (End(s) /\ UNCHANGED <<jt, wt, node, enrolls>>)
  <2>1. PICK t \in Tokens :
          /\ Fresh(t)
          /\ wt' = [wt EXCEPT ![t] = "valid"]
          /\ task' = Give(IF task[s].first THEN Go(s, "register")
                                           ELSE Move(s, "CONNECTED", "register"), s, t)
    BY <1>4 DEF EnrollCommit
  <2>2. /\ jt' = [jt EXCEPT ![j] = "consumed"]
        /\ enrolls' = [enrolls EXCEPT ![j] = @ + 1]
        /\ node' = IF task[s].first
                   THEN [state |-> "CONNECTED", disabled |-> FALSE, key |-> task[s].w]
                   ELSE [node EXCEPT !.key = task[s].w]
        /\ UNCHANGED <<conn, lost, wk>>
    BY <1>4 DEF EnrollCommit
  <2>3. wt[t] = "unissued" /\ wt' = Reissue(t, t)
    BY <2>1, Shape DEF Fresh, Unissued, Reissue
  <2>4. /\ jt' \in [JoinTokens -> {"unissued", "open", "consumed"}]
        /\ enrolls' \in [JoinTokens -> Nat] /\ JoinInv'
    <3>1. jt[j] = "open" /\ JoinInv
      BY <1>4 DEF Unconsumed, Inv
    <3>2. /\ jt' \in [JoinTokens -> {"unissued", "open", "consumed"}]
          /\ enrolls' \in [JoinTokens -> Nat]
      <4> HIDE DEF j
      <4>1. jt' \in [JoinTokens -> {"unissued", "open", "consumed"}]
        BY <2>2, Shape
      <4>2. enrolls \in [JoinTokens -> Nat] /\ enrolls' = [enrolls EXCEPT ![j] = enrolls[j] + 1]
        BY <2>2, Shape
      <4>3. j \in JoinTokens => enrolls[j] + 1 \in Nat
        BY <4>2
      <4>4. enrolls' \in [JoinTokens -> Nat]
        <5> DEFINE n == enrolls[j] + 1
        <5> HIDE DEF n
        <5>1. enrolls' = [enrolls EXCEPT ![j] = n] /\ (j \in JoinTokens => n \in Nat)
          BY <4>2, <4>3 DEF n
        <5> QED
          BY <4>2, <5>1
      <4> QED
        BY <4>1, <4>4
    <3>3. ASSUME NEW i \in JoinTokens
          PROVE  enrolls'[i] <= 1 /\ (enrolls'[i] > 0 => jt'[i] = "consumed")
      <4>1. CASE i = j
        BY <2>2, <3>1, <4>1, Shape DEF JoinInv
      <4>2. CASE i # j
        BY <2>2, <3>1, <4>2, Shape DEF JoinInv
      <4> QED
        BY <4>1, <4>2
    <3> QED
      BY <3>2, <3>3 DEF JoinInv
  <2>5. node' \in NodeType /\ node'.key \in {node.key, task[s].w}
    BY <1>2, <2>2, Shape DEF NodeType, States
  <2> DEFINE next == IF task[s].first THEN Go(s, "register") ELSE Move(s, "CONNECTED", "register")
  <2>6. /\ next \in [Actors -> TaskType] /\ \A b \in Actors \ {s} : next[b] = task[b]
        /\ Bound(next[s]) = "register" /\ next[s].w = task[s].w
    <3>1. "register" \in Steps /\ "CONNECTED" \in States
      BY DEF Steps, States
    <3>2. CASE task[s].first
      BY <1>2, <3>1, <3>2, Shape, GoEffect DEF Bound
    <3>3. CASE ~ task[s].first
      BY <1>2, <3>1, <3>3, Shape, MoveEffect DEF Bound
    <3> QED
      BY <3>2, <3>3
  <2>7. /\ task' \in [Actors -> TaskType] /\ \A b \in Actors \ {s} : task'[b] = task[b]
        /\ task'[s].w = task[s].w /\ task'[s].new = t /\ Holding(task'[s])
    <3>1. task' = Give(next, s, t)
      BY <2>1
    <3> HIDE DEF next
    <3> QED
      BY <1>2, <2>6, <3>1, GiveEffect DEF Holding, Bound
  <2>8. /\ \A w \in Workers : wk[w].tok # t
        /\ \A r \in Sessions : task[r].new # t
    BY <2>3 DEF Inv, PlaceInv
  <2>9. lost' \in BOOLEAN /\ (lost => lost') /\ UNCHANGED <<up, conn, wk, asked, crashes>>
    BY <1>1, <2>2, Shape
  <2> QED
    BY <1>1, <1>2, <2>3, <2>4, <2>5, <2>7, <2>8, <2>9, CommitStep
<1> QED
  BY <1>3, <1>4 DEF EnrollCommit

LEMMA ReconnectInv == ASSUME Inv, NEW s \in Sessions, ReconnectCommit(s) PROVE Inv'
<1> DEFINE old == task[s].tok
<1>1. task[s].pc = "rcommit" /\ UNCHANGED <<up, node, jt, enrolls, asked, crashes>>
  BY DEF ReconnectCommit, At, count
<1>2. /\ task[s].new = 0 /\ conn # s /\ s \in Actors
      /\ "register" \in Steps /\ "CONNECTED" \in States
  BY <1>1, EmptyHanded, Unregistered, Names DEF Steps, States
<1>3. CASE End(s) /\ UNCHANGED wt
  <2>1. UNCHANGED <<up, node, jt, wt, enrolls, count>>
    BY <1>3 DEF ReconnectCommit
  <2> QED
    BY <1>3, <2>1, Ends
<1>4. CASE ~ (End(s) /\ UNCHANGED wt)
  <2>1. PICK t \in Tokens : /\ Fresh(t) /\ wt' = Reissue(old, t)
                            /\ task' = Give(Move(s, "CONNECTED", "register"), s, t)
    BY <1>4 DEF ReconnectCommit
  <2>2. wt[t] = "unissued" /\ UNCHANGED <<conn, lost, wk>>
    BY <1>4, <2>1 DEF ReconnectCommit, Fresh, Unissued
  <2>3. /\ task' \in [Actors -> TaskType] /\ \A b \in Actors \ {s} : task'[b] = task[b]
        /\ task'[s].w = task[s].w /\ task'[s].new = t /\ Holding(task'[s])
    <3> DEFINE next == Move(s, "CONNECTED", "register")
    <3>1. /\ next \in [Actors -> TaskType] /\ \A b \in Actors \ {s} : next[b] = task[b]
          /\ Bound(next[s]) = "register" /\ next[s].w = task[s].w
      BY <1>2, Shape, MoveEffect DEF Bound
    <3>2. task' = Give(next, s, t)
      BY <2>1
    <3> HIDE DEF next
    <3> QED
      BY <3>1, <3>2, GiveEffect DEF Holding, Bound
  <2>4. old \in Tokens => /\ \A w \in Workers \ {task[s].w} : wk[w].tok # old
                         /\ \A r \in Sessions : task[r].new # old
    <3>1. Presented(task[s]) /\ PlaceInv
      BY <1>1 DEF Presented, Bound, Inv
    <3> QED
      BY <3>1 DEF PlaceInv
  <2>5. JoinInv' /\ jt' = jt /\ enrolls' = enrolls
    BY <1>1 DEF Inv, JoinInv
  <2>6. /\ node' \in NodeType /\ node'.key \in {node.key, task[s].w}
        /\ jt' \in [JoinTokens -> {"unissued", "open", "consumed"}]
        /\ enrolls' \in [JoinTokens -> Nat] /\ lost' \in BOOLEAN /\ (lost => lost')
    BY <1>1, <2>2, Shape
  <2> QED
    BY <1>1, <1>2, <2>1, <2>2, <2>3, <2>4, <2>5, <2>6, CommitStep
<1> QED
  BY <1>3, <1>4

LEMMA RotateInv == ASSUME Inv, NEW s \in Sessions, RotateCommit(s) PROVE Inv'
<1> DEFINE old == task[s].tok
<1>1. task[s].pc = "rotate" /\ UNCHANGED <<up, node, jt, conn, wk, enrolls, asked, crashes>>
  BY DEF RotateCommit, At, count
<1>2. task[s].new = 0 /\ s \in Actors /\ "rotsend" \in Steps /\ "op" \in Steps
  BY <1>1, EmptyHanded, Names DEF Steps
<1>3. CASE task' = [Go(s, "op") EXCEPT ![s].tok = 0] /\ UNCHANGED <<wt, lost>>
  <2> DEFINE g == Go(s, "op")
  <2>1. /\ g \in [Actors -> TaskType] /\ \A b \in Actors \ {s} : g[b] = task[b]
        /\ g[s].pc = "op" /\ g[s].w = task[s].w /\ g[s].new = task[s].new
    BY <1>2, Shape, GoEffect
  <2> HIDE DEF g
  <2>2. /\ task' \in [Actors -> TaskType] /\ \A b \in Actors \ {s} : task'[b] = task[b]
        /\ task'[s].pc = "op" /\ task'[s].w = task[s].w /\ task'[s].new = 0
    <3> DEFINE r == [g[s] EXCEPT !.tok = 0]
    <3>1. 0 \in 0..MaxTokens + MaxJoin
      BY BoundsAssumption
    <3>2. r \in TaskType /\ r.pc = "op" /\ r.w = task[s].w /\ r.new = task[s].new
      BY <1>2, <2>1, <3>1 DEF TaskType
    <3>3. task' = [g EXCEPT ![s] = r]
      BY <1>3 DEF g
    <3> HIDE DEF r
    <3> QED
      BY <1>2, <2>1, <3>2, <3>3
  <2>3. conn' \in {conn, None} /\ UNCHANGED <<up, node, jt, wt, wk, enrolls, lost, count>>
    BY <1>1, <1>3 DEF count
  <2> QED
    BY <1>1, <1>2, <2>2, <2>3, GoStep
<1>4. CASE ~ (task' = [Go(s, "op") EXCEPT ![s].tok = 0] /\ UNCHANGED <<wt, lost>>)
  <2>1. PICK t \in Tokens : Fresh(t) /\ wt' = Reissue(old, t) /\ task' = Give(Go(s, "rotsend"), s, t)
    BY <1>4 DEF RotateCommit
  <2>2. wt[t] = "unissued" /\ lost' = (lost \/ wk[task[s].w].tok # old)
    BY <1>4, <2>1 DEF RotateCommit, Fresh, Unissued
  <2>3. /\ task' \in [Actors -> TaskType] /\ \A b \in Actors \ {s} : task'[b] = task[b]
        /\ task'[s].w = task[s].w /\ task'[s].new = t /\ task'[s].pc = "rotsend"
    <3> DEFINE next == Go(s, "rotsend")
    <3>1. /\ next \in [Actors -> TaskType] /\ \A b \in Actors \ {s} : next[b] = task[b]
          /\ next[s].pc = "rotsend" /\ next[s].w = task[s].w
      BY <1>2, Shape, GoEffect
    <3>2. task' = Give(next, s, t)
      BY <2>1
    <3> HIDE DEF next
    <3> QED
      BY <3>1, <3>2, GiveEffect
  <2>4. ~ lost' /\ old \in Tokens => /\ \A w \in Workers \ {task[s].w} : wk[w].tok # old
                                    /\ \A r \in Sessions : task[r].new # old
    <3>1. task[s].w \in Workers /\ PlaceInv
      BY <1>1 DEF Inv, SessInv, Served
    <3>2. ~ lost' => wk[task[s].w].tok = old
      BY <2>2
    <3> QED
      BY <3>1, <3>2 DEF PlaceInv
  <2>5. JoinInv' /\ Holding(task'[s])
    BY <1>1, <2>3 DEF Inv, JoinInv, Holding, Bound
  <2>6. /\ node' \in NodeType /\ node'.key \in {node.key, task[s].w}
        /\ jt' \in [JoinTokens -> {"unissued", "open", "consumed"}]
        /\ enrolls' \in [JoinTokens -> Nat] /\ lost' \in BOOLEAN /\ (lost => lost')
    BY <1>1, <2>2, Shape
  <2> QED
    BY <1>1, <1>2, <2>1, <2>2, <2>3, <2>4, <2>5, <2>6, CommitStep
<1> QED
  BY <1>3, <1>4

-----------------------------------------------------------------------------
(* A fresh token reaches the worker that is connected, or is lost.         *)
LEMMA DeliverInv ==
  ASSUME Inv, NEW s \in Sessions, Success(s) \/ RotateSend(s)
  PROVE  Inv'
<1> DEFINE w == task[s].w
           t == task[s].new
<1>1. task[s].pc \in {"success", "rotsend"} /\ UNCHANGED <<up, node, jt, wt, enrolls, count>>
  BY DEF Success, RotateSend, At
<1>2. w \in Workers /\ t \in Tokens /\ s \in Actors /\ task[s] \in TaskType
  <2>1. w \in Workers /\ t # 0 /\ s \in Actors
    BY <1>1, Names DEF Inv, SessInv, Served, Holding, Bound
  <2>2. task[s] \in TaskType
    BY <2>1, Shape
  <2> QED
    BY <2>1, <2>2 DEF TaskType, Tokens
<1>3. CASE End(s)
  BY <1>1, <1>3, Ends
<1>4. ASSUME NEW next \in {"audit", "op"}, Deliver(s, next) PROVE Inv'
  <2>1. /\ task' \in [Actors -> TaskType] /\ \A b \in Actors \ {s} : task'[b] = task[b]
        /\ task'[s].pc = next /\ task'[s].w = w /\ task'[s].new = 0
    <3> DEFINE r == [task[s] EXCEPT !.pc = next, !.new = 0]
    <3>1. r \in TaskType /\ r.pc = next /\ r.w = w /\ r.new = 0
      <4>1. 0 \in 0..MaxTokens /\ next \in Steps
        BY BoundsAssumption DEF Steps
      <4> QED
        BY <1>2, <4>1 DEF TaskType
    <3>2. task' = [task EXCEPT ![s] = r]
      BY <1>4 DEF Deliver
    <3> HIDE DEF r
    <3> QED
      BY <1>2, <3>1, <3>2, Shape
  <2>2. ~ Presented(task'[s]) /\ Served(task'[s])
    BY <1>2, <2>1 DEF Presented, Served, Holding, Bound
  <2>3. \A r \in Sessions : r # s => task'[r] = task[r]
    BY <2>1, Names
  <2>4. JoinInv'
    BY <1>1 DEF Inv, JoinInv
  <2>5. conn' \in {conn, None} /\ lost' \in BOOLEAN /\ (lost => lost')
    <3>1. lost \in BOOLEAN
      BY Shape
    <3>2. CASE UNCHANGED <<conn, lost>>
      BY <3>1, <3>2
    <3>3. CASE lost' = TRUE /\ conn' \in {conn, None}
      BY <3>3
    <3> QED
      BY <1>4, <3>2, <3>3 DEF Deliver
  <2>6. /\ wk' \in [Workers -> WorkerType]
        /\ \A v \in Workers : wk'[v].sess = wk[v].sess
    <3>1. CASE wk' = wk
      BY <3>1, Shape
    <3>2. CASE wk' = [wk EXCEPT ![w].tok = t]
      <4>1. t \in 0..MaxTokens
        BY <1>2, Names
      <4> HIDE DEF w, t
      <4> QED
        BY <3>2, <4>1, Shape DEF WorkerType
    <3> QED
      BY <1>4, <3>1, <3>2 DEF Deliver
  <2>7. TypeOK'
    BY <1>1, <2>1, <2>5, <2>6 DEF Inv, TypeOK, WorkerType, count
  <2>8. SessInv'
    <3>1. \A r \in Sessions : Served(task'[r]) /\ task'[r].w = task[r].w
                             /\ (task[r].pc # "free" => task'[r].pc # "free")
      BY <2>1, <2>2, <2>3 DEF Inv, SessInv
    <3>2. \A v \in Workers : wk[v].sess # None => wk[v].sess \in Sessions
      BY Shape DEF WorkerType
    <3> QED
      BY <2>6, <3>1, <3>2 DEF Inv, SessInv, Served, Holding, Bound
  <2>9. RegistryAlive'
    <3>1. conn' \in Sessions => conn' = conn
      BY <2>5, Names
    <3> QED
      BY <1>2, <2>1, <2>3, <3>1, Names DEF Inv, RegistryAlive
  <2>10. CASE ~ Attached(s)
    <3>1. wk' = wk /\ lost'
      BY <1>4, <2>10 DEF Deliver
    <3>2. \A r \in Sessions : Undisturbed(r)
      BY <2>1, <2>2, <2>3, <3>1 DEF Undisturbed
    <3>3. wt' = wt /\ \A u \in Tokens : wt'[u] = "unissued" <=> wt[u] = "unissued"
      BY <1>1
    <3>4. node'.key # None => node'.key = node.key /\ wt' = wt
      BY <1>1
    <3> QED
      BY <2>4, <2>5, <2>7, <2>8, <2>9, <3>1, <3>2, <3>3, <3>4, TokensKept DEF Inv
  <2>11. CASE Attached(s)
    <3>1. wk' = [wk EXCEPT ![w].tok = t] /\ lost' = lost /\ Valid' = Valid
      BY <1>1, <1>4, <2>11 DEF Deliver, Valid
    <3>2. wk'[w].tok = t /\ \A v \in Workers : v # w => wk'[v].tok = wk[v].tok
      BY <1>2, <3>1, Shape DEF WorkerType
    <3>3. /\ wt[t] # "unissued" /\ \A v \in Workers : wk[v].tok # t
          /\ \A r \in Sessions : r # s => task[r].new # t
          /\ \A r \in Sessions : Presented(task[r]) => task[r].tok # t
      BY <1>2 DEF Inv, PlaceInv
    <3>4. PlaceInv'
      <4>0. PlaceInv /\ wt' = wt
        BY <1>1 DEF Inv
      <4>1. \A r \in Sessions : Presented(task'[r]) => task'[r] = task[r]
        BY <2>2, <2>3
      <4>2. ASSUME NEW u \in Tokens, NEW q \in Sessions, task'[q].new = u
            PROVE  /\ wt[u] # "unissued"
                   /\ \A v \in Workers : wk'[v].tok # u
                   /\ \A r \in Sessions : /\ task'[r].new = u => r = q
                                          /\ Presented(task'[r]) => task'[r].tok # u
        <5>1. q # s /\ task[q].new = u /\ u # t
          BY <2>1, <2>3, <3>3, <4>2, Names
        <5>2. /\ wt[u] # "unissued" /\ \A v \in Workers : wk[v].tok # u
              /\ \A r \in Sessions : task[r].new = u => r = q
              /\ \A r \in Sessions : Presented(task[r]) => task[r].tok # u
          BY <4>0, <5>1 DEF PlaceInv
        <5>3. \A v \in Workers : wk'[v].tok # u
          BY <3>2, <5>1, <5>2
        <5>4. \A r \in Sessions : task'[r].new = u => r = q
          BY <2>1, <2>3, <5>2, Names
        <5> QED
          BY <4>1, <5>2, <5>3, <5>4
      <4>3. ASSUME NEW u \in Tokens, NEW v \in Workers, wk'[v].tok = u
            PROVE  /\ wt[u] # "unissued"
                   /\ \A x \in Workers : wk'[x].tok = u => x = v
                   /\ \A r \in Sessions : Presented(task'[r]) /\ task'[r].tok = u => task'[r].w = v
        <5>1. CASE v = w
          BY <3>2, <3>3, <4>1, <4>3, <5>1
        <5>2. CASE v # w
          <6>1. wk[v].tok = u /\ u # t
            BY <3>2, <3>3, <4>3, <5>2
          <6>2. /\ wt[u] # "unissued" /\ \A x \in Workers : wk[x].tok = u => x = v
                /\ \A r \in Sessions : Presented(task[r]) /\ task[r].tok = u => task[r].w = v
            BY <4>0, <6>1 DEF PlaceInv
          <6> QED
            BY <3>2, <4>1, <6>1, <6>2
        <5> QED
          BY <5>1, <5>2
      <4>4. ASSUME NEW r \in Sessions, Presented(task'[r]), task'[r].tok \in Tokens
            PROVE  wt[task'[r].tok] # "unissued"
        BY <4>0, <4>1, <4>4 DEF PlaceInv
      <4> QED
        BY <4>0, <4>2, <4>3, <4>4 DEF PlaceInv, Presented, Bound
    <3>5. CASE lost' \/ node'.key = None
      BY <2>4, <2>7, <2>8, <2>9, <3>4, <3>5 DEF Inv, ReplacedInv, LockoutOnlyByLoss
    <3>6. CASE ~ lost' /\ node'.key # None
      <4>1. node' = node /\ ~ lost /\ node.key # None /\ node.key \in Workers
        BY <1>1, <3>1, <3>6, Shape DEF NodeType
      <4>2. ASSUME NEW r \in Sessions, r # s, task[r].w = node.key, task[r].new \in Valid
            PROVE  task'[r].w = node'.key /\ task'[r].new \in Valid'
        BY <2>3, <3>1, <4>1, <4>2
      <4>3. LockoutOnlyByLoss'
        <5>1. CASE node.key = w /\ t \in Valid
          BY <3>1, <3>2, <4>1, <5>1 DEF LockoutOnlyByLoss
        <5>2. CASE node.key = w /\ t \notin Valid
          <6>1. PICK r \in Sessions : task[r].w = node.key /\ task[r].new \in Valid
            BY <1>2, <2>11, <4>1, <5>2 DEF Inv, ReplacedInv
          <6> QED
            BY <4>2, <5>2, <6>1 DEF LockoutOnlyByLoss
        <5>3. CASE node.key # w
          BY <3>1, <3>2, <4>1, <4>2, <5>3 DEF Inv, LockoutOnlyByLoss
        <5> QED
          BY <5>1, <5>2, <5>3
      <4>4. ASSUME NEW q \in Sessions, Attached(q)', task'[q].w = node'.key,
                   task'[q].new \in Tokens \ Valid'
            PROVE  \E r \in Sessions : task'[r].w = node'.key /\ task'[r].new \in Valid'
        <5>1. q # s /\ task'[q] = task[q]
          BY <2>1, <2>3, <4>4, Names
        <5>2. Attached(q)
          BY <2>6, <4>4 DEF Attached
        <5>3. node.key # w
          <6>1. PICK v \in Workers : wk[v].sess = s
            BY <2>11 DEF Attached
          <6>2. PICK x \in Workers : wk[x].sess = q
            BY <5>2 DEF Attached
          <6>3. task[s].w = v /\ task[q].w = x
            BY <6>1, <6>2, Names DEF Inv, SessInv
          <6> QED
            BY <4>1, <4>4, <5>1, <6>1, <6>2, <6>3
        <5>4. PICK r \in Sessions : task[r].w = node.key /\ task[r].new \in Valid
          BY <3>1, <4>1, <4>4, <5>1, <5>2 DEF Inv, ReplacedInv
        <5> QED
          BY <4>2, <5>3, <5>4
      <4> QED
        BY <2>4, <2>7, <2>8, <2>9, <3>4, <4>3, <4>4 DEF Inv, ReplacedInv
    <3> QED
      BY <3>5, <3>6
  <2> QED
    BY <2>10, <2>11
<1> QED
  BY <1>3, <1>4 DEF Success, RotateSend

-----------------------------------------------------------------------------
(* A step that moves no token and no row, and at most breaks links.        *)
LEMMA LinkStep ==
  ASSUME Inv, TypeOK', RegistryAlive', UNCHANGED <<jt, wt, node, enrolls, lost>>,
         \A s \in Sessions : /\ task'[s].w = task[s].w /\ task'[s].new = task[s].new
                             /\ task'[s].tok = task[s].tok
                             /\ task'[s].pc = "free" <=> task[s].pc = "free"
                             /\ Holding(task'[s]) <=> Holding(task[s])
                             /\ Presented(task'[s]) => Presented(task[s]),
         \A w \in Workers : wk'[w].tok = wk[w].tok /\ wk'[w].sess \in {wk[w].sess, None}
  PROVE  Inv'
<1>1. \A s \in Sessions : Undisturbed(s) /\ Served(task'[s])
  BY DEF Undisturbed, Served, Inv, SessInv
<1>2. SessInv'
  <2>1. ASSUME NEW w \in Workers, wk'[w].sess # None
        PROVE  task'[wk'[w].sess].pc # "free" /\ task'[wk'[w].sess].w = w
    <3>1. wk'[w].sess = wk[w].sess /\ wk[w].sess \in Sessions
      BY <2>1, Shape DEF WorkerType
    <3> QED
      BY <2>1, <3>1 DEF Inv, SessInv
  <2> QED
    BY <1>1, <2>1 DEF SessInv, Served, Holding, Bound
<1>3. JoinInv'
  BY DEF Inv, JoinInv
<1>4. wt' = wt /\ (\A t \in Tokens : wt'[t] = "unissued" <=> wt[t] = "unissued")
      /\ (node'.key # None => node'.key = node.key /\ wt' = wt) /\ (lost => lost')
  OBVIOUS
<1> QED
  BY <1>1, <1>2, <1>3, <1>4, TokensKept DEF Inv

(* The registry takes the session over from another, or lets it go.        *)
LEMMA ShutEffect ==
  ASSUME NEW g \in [Actors -> TaskType], NEW c \in Sessions
  PROVE  LET f == [g EXCEPT ![c] = [@ EXCEPT !.shut = TRUE]]
         IN  /\ f \in [Actors -> TaskType]
             /\ \A b \in Actors : /\ f[b].pc = g[b].pc /\ f[b].then = g[b].then
                                 /\ f[b].w = g[b].w /\ f[b].tok = g[b].tok /\ f[b].new = g[b].new
<1> DEFINE r == [g[c] EXCEPT !.shut = TRUE]
<1>1. c \in Actors /\ g[c] \in TaskType
  BY Names
<1>2. /\ r \in TaskType /\ r.pc = g[c].pc /\ r.then = g[c].then
      /\ r.w = g[c].w /\ r.tok = g[c].tok /\ r.new = g[c].new
  BY <1>1 DEF TaskType
<1> HIDE DEF r
<1>3. LET f == [g EXCEPT ![c] = r]
      IN  /\ f \in [Actors -> TaskType]
          /\ \A b \in Actors : /\ f[b].pc = g[b].pc /\ f[b].then = g[b].then
                              /\ f[b].w = g[b].w /\ f[b].tok = g[b].tok /\ f[b].new = g[b].new
  BY <1>1, <1>2
<1> QED
  BY <1>3 DEF r

LEMMA RegisterInv == ASSUME Inv, NEW s \in Sessions, Register(s) PROVE Inv'
<1> DEFINE g == Go(s, "success")
<1>1. /\ task[s].pc = "register" /\ conn' = s /\ wk' = HangUp({conn})
      /\ UNCHANGED <<up, node, jt, wt, enrolls, lost, asked, crashes>>
      /\ s \in Actors /\ "success" \in Steps
  BY Names DEF Register, At, count, Steps
<1>2. /\ g \in [Actors -> TaskType] /\ \A b \in Actors \ {s} : g[b] = task[b]
      /\ g[s].pc = "success" /\ g[s].w = task[s].w /\ g[s].new = task[s].new
      /\ g[s].tok = task[s].tok
  BY <1>1, Shape, GoEffect
<1>3. task' = (IF conn \in Sessions THEN [g EXCEPT ![conn] = [@ EXCEPT !.shut = TRUE]] ELSE g)
  BY DEF Register
<1> HIDE DEF g
<1>4. /\ task' \in [Actors -> TaskType]
      /\ \A b \in Actors : /\ task'[b].pc = g[b].pc /\ task'[b].then = g[b].then
                          /\ task'[b].w = g[b].w /\ task'[b].tok = g[b].tok
                          /\ task'[b].new = g[b].new
  <2>1. CASE conn \in Sessions
    <3>1. PICK c \in Sessions : c = conn
      BY <2>1
    <3>2. task' = [g EXCEPT ![c] = [@ EXCEPT !.shut = TRUE]]
      BY <1>3, <3>1
    <3> QED
      BY <1>2, <3>2, ShutEffect
  <2>2. CASE conn \notin Sessions
    BY <1>2, <1>3, <2>2
  <2> QED
    BY <2>1, <2>2
<1>5. /\ wk' \in [Workers -> WorkerType]
      /\ \A w \in Workers : wk'[w].tok = wk[w].tok /\ wk'[w].sess \in {wk[w].sess, None}
  BY <1>1, Shape, HangUpEffect
<1>6. TypeOK'
  BY <1>1, <1>4, <1>5 DEF Inv, TypeOK, WorkerType
<1>7. \A r \in Sessions : /\ task'[r].w = task[r].w /\ task'[r].new = task[r].new
                          /\ task'[r].tok = task[r].tok
                          /\ task'[r].pc = "free" <=> task[r].pc = "free"
                          /\ Holding(task'[r]) <=> Holding(task[r])
                          /\ Presented(task'[r]) => Presented(task[r])
  <2> TAKE r \in Sessions
  <2>1. r \in Actors
    BY Names
  <2>2. CASE r = s
    BY <1>1, <1>2, <1>4, <2>1, <2>2 DEF Holding, Presented, Bound
  <2>3. CASE r # s
    BY <1>2, <1>4, <2>1, <2>3 DEF Holding, Presented, Bound
  <2> QED
    BY <2>2, <2>3
<1>8. RegistryAlive'
  <2>1. task[s].w \in Workers
    BY <1>1 DEF Inv, SessInv, Served
  <2> QED
    BY <1>1, <1>2, <1>4, <2>1, Names DEF RegistryAlive
<1> QED
  BY <1>1, <1>5, <1>6, <1>7, <1>8, LinkStep

LEMMA PopInv == ASSUME Inv, PopAndClose PROVE Inv'
<1> DEFINE g == [task EXCEPT !["admin"] = Idle]
<1>1. /\ conn' = None /\ wk' = HangUp({conn})
      /\ UNCHANGED <<up, node, jt, wt, enrolls, lost, asked, crashes>>
  BY DEF PopAndClose, count
<1>2. g \in [Actors -> TaskType] /\ \A s \in Sessions : s \in Actors /\ g[s] = task[s]
  BY Shape, IdleType, Names
<1>3. task' = (IF conn \in Sessions THEN [g EXCEPT ![conn] = [@ EXCEPT !.shut = TRUE]] ELSE g)
  BY Names DEF PopAndClose
<1> HIDE DEF g
<1>4. /\ task' \in [Actors -> TaskType]
      /\ \A b \in Actors : /\ task'[b].pc = g[b].pc /\ task'[b].then = g[b].then
                          /\ task'[b].w = g[b].w /\ task'[b].tok = g[b].tok
                          /\ task'[b].new = g[b].new
  <2>1. CASE conn \in Sessions
    <3>1. PICK c \in Sessions : c = conn
      BY <2>1
    <3>2. task' = [g EXCEPT ![c] = [@ EXCEPT !.shut = TRUE]]
      BY <1>3, <3>1
    <3> QED
      BY <1>2, <3>2, ShutEffect
  <2>2. CASE conn \notin Sessions
    BY <1>2, <1>3, <2>2
  <2> QED
    BY <2>1, <2>2
<1>5. /\ wk' \in [Workers -> WorkerType]
      /\ \A w \in Workers : wk'[w].tok = wk[w].tok /\ wk'[w].sess \in {wk[w].sess, None}
  BY <1>1, Shape, HangUpEffect
<1>6. TypeOK'
  BY <1>1, <1>4, <1>5 DEF Inv, TypeOK, WorkerType
<1>7. \A r \in Sessions : /\ task'[r].w = task[r].w /\ task'[r].new = task[r].new
                          /\ task'[r].tok = task[r].tok
                          /\ task'[r].pc = "free" <=> task[r].pc = "free"
                          /\ Holding(task'[r]) <=> Holding(task[r])
                          /\ Presented(task'[r]) => Presented(task[r])
  BY <1>2, <1>4 DEF Holding, Presented, Bound
<1>8. RegistryAlive'
  BY <1>1, Names DEF RegistryAlive
<1> QED
  BY <1>1, <1>5, <1>6, <1>7, <1>8, LinkStep

-----------------------------------------------------------------------------
(* The monitor and the administrator.                                      *)
LEMMA OtherActors ==
  /\ "admin" \in Actors /\ "monitor" \in Actors
  /\ "admin" \notin Sessions /\ "monitor" \notin Sessions
BY Names DEF Actors

LEMMA MonitorInv == ASSUME Inv, SeeLost \/ DropLost \/ MarkStale PROVE Inv'
<1>1. /\ UNCHANGED <<up, jt, wt, wk, enrolls, lost>> /\ UNCHANGED crashes /\ node' = node
      /\ asked' = asked /\ conn' \in {conn, None}
  BY DEF SeeLost, DropLost, MarkStale, count
<1>2. /\ "drop" \in Steps /\ "free" \in Steps /\ "LOST" \in States /\ "STALE" \in States
  BY DEF Steps, States
<1>3. \/ task' = Go("monitor", "drop") \/ task' = Move("monitor", "LOST", "free")
      \/ task' = Move("monitor", "STALE", "free")
  BY DEF SeeLost, DropLost, MarkStale
<1>4. /\ task' \in [Actors -> TaskType]
      /\ \A b \in Actors \ {"monitor"} : task'[b] = task[b]
  BY <1>2, <1>3, Shape, OtherActors, GoEffect, MoveEffect
<1>5. node' \in NodeType /\ node'.key = node.key /\ asked' \in 0..MaxAdmin
  BY <1>1, Shape
<1> QED
  BY <1>1, <1>4, <1>5, OtherActors, QuietStep

LEMMA FlagInv == ASSUME Inv, SetDisabled \/ SetFlag \/ Alive PROVE Inv'
<1>1. UNCHANGED <<up, jt, wt, wk, enrolls, lost>> /\ UNCHANGED crashes /\ conn' = conn
  BY DEF SetDisabled, SetFlag, Alive, count
<1>2. node' \in NodeType /\ node'.key = node.key
  <2>1. CASE node' = node
    BY <2>1, Shape
  <2>2. CASE node' = [node EXCEPT !.disabled = ~ task["admin"].first]
    BY <2>2, Shape DEF NodeType
  <2> QED
    BY <2>1, <2>2 DEF SetDisabled, SetFlag, Alive
<1>3. asked' \in 0..MaxAdmin
  <2>1. CASE asked' = asked
    BY <2>1, Shape
  <2>2. CASE asked < MaxAdmin /\ asked' = asked + 1
    BY <2>2, Shape, BoundsAssumption
  <2> QED
    BY <2>1, <2>2 DEF SetDisabled, SetFlag, Alive, Ask, count
<1>4. /\ "pop" \in Steps /\ "alive" \in Steps /\ "free" \in Steps /\ "flag" \in Steps
      /\ "LOST" \in States /\ "CONNECTED" \in States /\ "DISABLED" \in States
  BY DEF Steps, States
<1>5. /\ task' \in [Actors -> TaskType]
      /\ \A b \in Actors \ {"admin"} : task'[b] = task[b]
  <2>1. CASE SetDisabled
    <3> DEFINE r == [task["admin"] EXCEPT !.pc = "flag", !.to = node.state, !.first = node.disabled]
    <3>1. task["admin"] \in TaskType /\ node.state \in States /\ node.disabled \in BOOLEAN
      BY Shape, OtherActors DEF NodeType
    <3>2. r \in TaskType
      BY <1>4, <3>1 DEF TaskType
    <3>3. task' = [task EXCEPT !["admin"] = r]
      BY <2>1 DEF SetDisabled
    <3> HIDE DEF r
    <3> QED
      BY <3>2, <3>3, Shape
  <2>2. CASE SetFlag
    <3>1. \/ task' = Move("admin", "DISABLED", "pop") \/ task' = Go("admin", "pop")
          \/ task' = Go("admin", "alive") \/ task' = [task EXCEPT !["admin"] = Idle]
      BY <2>2, Zenon DEF SetFlag
    <3>2. CASE task' = [task EXCEPT !["admin"] = Idle]
      BY <3>2, Shape, IdleType
    <3> QED
      BY <1>4, <3>1, <3>2, Shape, OtherActors, GoEffect, MoveEffect
  <2>3. CASE Alive
    <3>1. task' = Move("admin", "CONNECTED", "free") \/ task' = Move("admin", "LOST", "free")
      BY <2>3 DEF Alive
    <3> QED
      BY <1>4, <3>1, Shape, OtherActors, MoveEffect
  <2> QED
    BY <2>1, <2>2, <2>3
<1>6. conn' \in {conn, None}
  BY <1>1
<1> QED
  BY <1>1, <1>2, <1>3, <1>5, <1>6, OtherActors, QuietStep

(* A new JOIN_TOKEN is one nobody has enrolled with.                       *)
LEMMA JoinInvKept ==
  ASSUME Inv, enrolls' = enrolls, NEW i,
         \/ jt' = invalidate_join_tokens
         \/ jt[i] = "unissued" /\ jt' = generate_join_token(i)
         \/ jt' = jt
  PROVE  JoinInv' /\ jt' \in [JoinTokens -> {"unissued", "open", "consumed"}]
<1>1. JoinInv
  BY DEF Inv
<1>2. CASE jt' = invalidate_join_tokens
  BY <1>1, <1>2, Shape DEF JoinInv, invalidate_join_tokens
<1>3. CASE jt[i] = "unissued" /\ jt' = generate_join_token(i)
  BY <1>1, <1>3, Shape DEF JoinInv, generate_join_token
<1>4. CASE jt' = jt
  BY <1>1, <1>4, Shape DEF JoinInv
<1> QED
  BY <1>2, <1>3, <1>4

LEMMA TokenAdminInv ==
  ASSUME Inv, GenerateJoin \/ Delete \/ Regenerate \/ IssueJoin \/ Boot
  PROVE  Inv'
<1>1. /\ UNCHANGED <<wk, enrolls, lost>> /\ conn' = conn /\ up' \in BOOLEAN
      /\ crashes' = crashes
  <2>1. up \in BOOLEAN
    BY DEF Inv, TypeOK
  <2> QED
    BY <2>1 DEF GenerateJoin, Delete, Regenerate, IssueJoin, Boot, count
<1>2. JoinInv' /\ jt' \in [JoinTokens -> {"unissued", "open", "consumed"}]
  <2>1. \/ jt' = invalidate_join_tokens \/ jt' = jt
        \/ \E i \in JoinTokens \cup {1} : jt[i] = "unissued" /\ jt' = generate_join_token(i)
    BY DEF GenerateJoin, Delete, Regenerate, IssueJoin, Boot
  <2> QED
    BY <1>1, <2>1, JoinInvKept
<1>3. asked' \in 0..MaxAdmin
  <2>1. CASE asked' = asked
    BY <2>1, Shape
  <2>2. CASE asked < MaxAdmin /\ asked' = asked + 1
    BY <2>2, Shape, BoundsAssumption
  <2> QED
    BY <2>1, <2>2 DEF GenerateJoin, Delete, Regenerate, IssueJoin, Boot, Ask, count
<1>4. /\ task' \in [Actors -> TaskType]
      /\ \A b \in Actors \ {"admin"} : task'[b] = task[b]
  <2>1. "pop" \in Steps /\ "issue" \in Steps
    BY DEF Steps
  <2>2. \/ task' = task \/ task' = Go("admin", "pop") \/ task' = Go("admin", "issue")
        \/ task' = [task EXCEPT !["admin"] = Idle]
    BY DEF GenerateJoin, Delete, Regenerate, IssueJoin, Boot
  <2>3. CASE task' = [task EXCEPT !["admin"] = Idle]
    BY <2>3, Shape, IdleType
  <2> QED
    BY <2>1, <2>2, <2>3, Shape, OtherActors, GoEffect
<1>5. /\ node' \in NodeType /\ (node'.key # None => node'.key = node.key /\ wt' = wt)
      /\ wt' \in [Tokens -> {"unissued", "valid", "revoked", "gone"}]
      /\ \A t \in Tokens : wt'[t] = "unissued" <=> wt[t] = "unissued"
  <2>1. CASE Delete
    <3>1. node' = [state |-> "NONE", disabled |-> FALSE, key |-> None]
      BY <2>1 DEF Delete
    <3>2. wt' = [t \in Tokens |-> IF wt[t] = "unissued" THEN "unissued" ELSE "gone"]
      BY <2>1 DEF Delete
    <3>3. node' \in NodeType /\ node'.key = None
      BY <3>1 DEF NodeType, States
    <3> QED
      BY <3>2, <3>3
  <2>2. CASE ~ Delete
    <3>1. wt' = wt
      BY <2>2 DEF GenerateJoin, Regenerate, IssueJoin, Boot
    <3>2. node' = node \/ node' = [node EXCEPT !.state = "LOST"]
      BY <2>2 DEF GenerateJoin, Regenerate, IssueJoin, Boot
    <3>3. node' \in NodeType /\ node'.key = node.key
      BY <3>2, Shape DEF NodeType, States
    <3> QED
      BY <3>1, <3>3, Shape
  <2> QED
    BY <2>1, <2>2
<1>6. conn' \in {conn, None} /\ crashes' \in 0..MaxCrashes
  BY <1>1, Shape
<1> QED
  BY <1>1, <1>2, <1>3, <1>4, <1>5, <1>6, OtherActors, TaskStep

-----------------------------------------------------------------------------
(* The workers and the process of the master.                              *)
LEMMA WorkerInv ==
  ASSUME Inv, NEW w \in Workers, LinkDown(w) \/ \E j \in JoinTokens : Install(w, j)
  PROVE  Inv'
<1>1. UNCHANGED <<up, node, jt, wt, conn, task, enrolls, lost, asked, crashes>>
  BY DEF LinkDown, Install, count
<1>2. /\ wk' \in [Workers -> WorkerType]
      /\ \A v \in Workers : wk'[v].tok = wk[v].tok /\ wk'[v].sess \in {wk[v].sess, None}
  <2>1. CASE LinkDown(w)
    BY <2>1, Shape, HangUpEffect DEF LinkDown
  <2>2. ASSUME NEW j \in JoinTokens, Install(w, j) PROVE <1>2!1 /\ <1>2!2
    <3> DEFINE r == [wk[w] EXCEPT !.join = j]
    <3>1. j \in 0..MaxJoin
      BY BoundsAssumption DEF JoinTokens
    <3>2. r \in WorkerType /\ r.tok = wk[w].tok /\ r.sess = wk[w].sess
      BY <3>1, Shape DEF WorkerType
    <3>3. wk' = [wk EXCEPT ![w] = r]
      BY <2>2 DEF Install
    <3> HIDE DEF r
    <3> QED
      BY <3>2, <3>3, Shape
  <2> QED
    BY <2>1, <2>2
<1>3. TypeOK'
  BY <1>1, <1>2 DEF Inv, TypeOK, WorkerType
<1>4. RegistryAlive'
  BY <1>1 DEF Inv, RegistryAlive
<1>5. UNCHANGED <<jt, wt, node, enrolls, lost>> /\ task' = task
  BY <1>1
<1> QED
  BY <1>2, <1>3, <1>4, <1>5, LinkStep

LEMMA CrashInv == ASSUME Inv, Crash PROVE Inv'
<1>1. /\ up' = FALSE /\ crashes < MaxCrashes /\ crashes' = crashes + 1 /\ conn' = None
      /\ UNCHANGED <<node, jt, wt, enrolls, asked>> /\ wk' = HangUp(Sessions)
  BY DEF Crash
<1>2. lost' \in BOOLEAN /\ (lost => lost') /\ \A s \in Sessions : lost' \/ task[s].new = 0
  BY Shape DEF Crash
<1>3. task' \in [Actors -> TaskType] /\ \A s \in Sessions : task'[s] = Idle
  BY IdleType, Names DEF Crash
<1>4. /\ wk' \in [Workers -> WorkerType]
      /\ \A w \in Workers : /\ wk'[w].tok = wk[w].tok
                            /\ wk'[w].sess \in {wk[w].sess, None}
                            /\ wk'[w].sess \notin Sessions \/ wk'[w].sess = None
  BY <1>1, Shape, HangUpEffect
<1>5. crashes' \in 0..MaxCrashes
  BY <1>1, Shape, BoundsAssumption
<1>6. TypeOK'
  BY <1>1, <1>2, <1>3, <1>4, <1>5 DEF Inv, TypeOK, WorkerType
<1>7. SessInv'
  <2>1. \A w \in Workers : wk'[w].sess = None
    BY <1>4, Shape DEF WorkerType
  <2> QED
    BY <1>3, <2>1, IdleType DEF SessInv, Served, Holding, Bound
<1>8. RegistryAlive' /\ JoinInv'
  BY <1>1, Names DEF Inv, RegistryAlive, JoinInv
<1>9. \A s \in Sessions : Undisturbed(s)
  BY <1>2, <1>3, IdleType DEF Undisturbed
<1>10. /\ \A t \in Tokens : wt'[t] = "unissued" <=> wt[t] = "unissued"
       /\ node'.key # None => node'.key = node.key /\ wt' = wt
  BY <1>1
<1> QED
  BY <1>2, <1>4, <1>6, <1>7, <1>8, <1>9, <1>10, TokensKept DEF Inv

(* A worker presents its WORKER_TOKEN, or a JOIN_TOKEN, to a free slot.    *)
LEMMA DialInv == ASSUME Inv, NEW w \in Workers, NEW s \in Sessions, Dial(w, s) PROVE Inv'
<1>1. /\ task[s].pc = "free" /\ wk[w].sess = None /\ s \in Actors
      /\ UNCHANGED <<up, node, jt, wt, conn, enrolls, lost, asked, crashes>>
  BY Names DEF Dial, At, CanDial, count
<1>2. task[s].new = 0 /\ conn # s
  BY <1>1, EmptyHanded, Unregistered
<1>3. PICK q \in {"rtoken", "jtoken"}, k \in 0..MaxTokens + MaxJoin :
        /\ task' = [task EXCEPT ![s] = [@ EXCEPT !.w = w, !.pc = q, !.tok = k]]
        /\ q = "rtoken" => k = wk[w].tok
  <2>1. wk[w].tok \in 0..MaxTokens /\ wk[w].join \in 0..MaxJoin
    BY Shape DEF WorkerType
  <2>2. wk[w].tok \in 0..MaxTokens + MaxJoin /\ wk[w].join \in 0..MaxTokens + MaxJoin
    BY <2>1, BoundsAssumption
  <2>3. CASE wk[w].tok # 0
    <3>1. Request(w)[1] = "rtoken" /\ Request(w)[2] = wk[w].tok
      BY <2>3 DEF Request
    <3> QED
      BY <2>2, <3>1 DEF Dial
  <2>4. CASE wk[w].tok = 0
    <3>1. Request(w)[1] = "jtoken" /\ Request(w)[2] = wk[w].join
      BY <2>4 DEF Request
    <3> QED
      BY <2>2, <3>1 DEF Dial
  <2> QED
    BY <2>3, <2>4
<1>4. /\ task' \in [Actors -> TaskType] /\ \A r \in Sessions : r # s => task'[r] = task[r]
      /\ task'[s].w = w /\ task'[s].pc = q /\ task'[s].tok = k /\ task'[s].new = 0
  <2> DEFINE r == [task[s] EXCEPT !.w = w, !.pc = q, !.tok = k]
  <2>1. q \in Steps /\ task[s] \in TaskType
    BY <1>1, Shape DEF Steps
  <2>2. r \in TaskType /\ r.w = w /\ r.pc = q /\ r.tok = k /\ r.new = task[s].new
    BY <2>1 DEF TaskType
  <2>3. task' = [task EXCEPT ![s] = r]
    BY <1>3
  <2> HIDE DEF r
  <2> QED
    BY <1>1, <1>2, <2>2, <2>3, Shape, Names
<1>5. /\ wk' \in [Workers -> WorkerType]
      /\ \A v \in Workers : /\ wk'[v].tok = wk[v].tok
                            /\ v # w => wk'[v].sess = wk[v].sess
      /\ wk'[w].sess = s
  <2> DEFINE r == [wk[w] EXCEPT !.sess = s]
  <2>1. r \in WorkerType /\ r.tok = wk[w].tok /\ r.sess = s
    BY Shape DEF WorkerType
  <2>2. wk' = [wk EXCEPT ![w] = r]
    BY DEF Dial
  <2> HIDE DEF r
  <2> QED
    BY <2>1, <2>2, Shape
<1>6. TypeOK'
  BY <1>1, <1>4, <1>5 DEF Inv, TypeOK, WorkerType
<1>7. JoinInv'
  BY <1>1 DEF Inv, JoinInv
<1>8. RegistryAlive'
  BY <1>1, <1>2, <1>4 DEF Inv, RegistryAlive
<1>9. SessInv'
  <2>1. Served(task'[s])
    BY <1>4 DEF Served, Holding, Bound
  <2>2. ASSUME NEW v \in Workers, wk'[v].sess # None
        PROVE  task'[wk'[v].sess].pc # "free" /\ task'[wk'[v].sess].w = v
    <3>1. CASE v = w
      BY <1>4, <1>5, <3>1
    <3>2. CASE v # w
      <4>1. wk'[v].sess = wk[v].sess /\ wk[v].sess \in Sessions
        BY <1>5, <2>2, <3>2, Shape DEF WorkerType
      <4>2. task[wk[v].sess].pc # "free" /\ task[wk[v].sess].w = v
        BY <2>2, <4>1 DEF Inv, SessInv
      <4> QED
        BY <1>1, <1>4, <4>1, <4>2
    <3> QED
      BY <3>1, <3>2
  <2> QED
    BY <1>4, <2>1, <2>2 DEF Inv, SessInv, Served, Holding, Bound
<1>10. PlaceInv'
  <2>0. PlaceInv /\ wt' = wt
    BY <1>1 DEF Inv
  <2>1. \A r \in Sessions : task'[r].new = task[r].new
    BY <1>2, <1>4
  <2>2. Presented(task'[s]) => task'[s].tok = wk[w].tok
    BY <1>3, <1>4 DEF Presented, Bound
  <2>3. ASSUME NEW u \in Tokens, NEW r \in Sessions, task'[r].new = u
        PROVE  /\ wt[u] # "unissued"
               /\ \A v \in Workers : wk'[v].tok # u
               /\ \A p \in Sessions : /\ task'[p].new = u => p = r
                                      /\ Presented(task'[p]) => task'[p].tok # u
    <3>1. /\ wt[u] # "unissued" /\ \A v \in Workers : wk[v].tok # u
          /\ \A p \in Sessions : task[p].new = u => p = r
          /\ \A p \in Sessions : Presented(task[p]) => task[p].tok # u
      BY <2>0, <2>1, <2>3 DEF PlaceInv
    <3>2. \A p \in Sessions : Presented(task'[p]) => task'[p].tok # u
      BY <1>4, <2>2, <3>1
    <3> QED
      BY <1>5, <2>1, <3>1, <3>2
  <2>4. ASSUME NEW u \in Tokens, NEW v \in Workers, wk'[v].tok = u
        PROVE  /\ wt[u] # "unissued"
               /\ \A x \in Workers : wk'[x].tok = u => x = v
               /\ \A p \in Sessions : Presented(task'[p]) /\ task'[p].tok = u => task'[p].w = v
    <3>1. /\ wt[u] # "unissued" /\ \A x \in Workers : wk[x].tok = u => x = v
          /\ \A p \in Sessions : Presented(task[p]) /\ task[p].tok = u => task[p].w = v
      BY <1>5, <2>0, <2>4 DEF PlaceInv
    <3>2. \A p \in Sessions : Presented(task'[p]) /\ task'[p].tok = u => task'[p].w = v
      BY <1>4, <2>2, <3>1
    <3> QED
      BY <1>5, <3>1, <3>2
  <2>5. ASSUME NEW r \in Sessions, Presented(task'[r]), task'[r].tok \in Tokens
        PROVE  wt[task'[r].tok] # "unissued"
    <3>1. CASE r = s
      BY <2>0, <2>2, <2>5, <3>1 DEF PlaceInv
    <3>2. CASE r # s
      BY <1>4, <2>0, <2>5, <3>2 DEF PlaceInv
    <3> QED
      BY <3>1, <3>2
  <2> QED
    BY <2>0, <2>3, <2>4, <2>5 DEF PlaceInv, Presented, Bound
<1>11. ASSUME NEW r \in Sessions, task[r].w = node.key, task[r].new \in Valid
       PROVE  task'[r].w = node'.key /\ task'[r].new \in Valid'
  <2>1. r # s /\ Valid' = Valid
    BY <1>1, <1>2, <1>11, Names DEF Valid
  <2> QED
    BY <1>1, <1>4, <1>11, <2>1
<1>12. LockoutOnlyByLoss'
  <2>1. Valid' = Valid /\ node' = node /\ lost' = lost
    BY <1>1 DEF Valid
  <2>2. node.key # None => wk'[node.key].tok = wk[node.key].tok
    BY <1>5, Shape DEF NodeType
  <2> QED
    BY <1>11, <2>1, <2>2 DEF Inv, LockoutOnlyByLoss
<1>13. ReplacedInv'
  <2>1. Valid' = Valid /\ node' = node /\ lost' = lost
    BY <1>1 DEF Valid
  <2>2. ASSUME ~ lost, node.key # None, NEW p \in Sessions, Attached(p)', task'[p].w = node.key,
               task'[p].new \in Tokens \ Valid
        PROVE  \E r \in Sessions : task'[r].w = node'.key /\ task'[r].new \in Valid'
    <3>1. p # s /\ task'[p] = task[p]
      BY <1>4, <2>2, Names
    <3>2. Attached(p)
      BY <1>5, <2>2, <3>1 DEF Attached
    <3>3. PICK r \in Sessions : task[r].w = node.key /\ task[r].new \in Valid
      BY <2>2, <3>1, <3>2 DEF Inv, ReplacedInv
    <3> QED
      BY <1>11, <3>3
  <2> QED
    BY <2>1, <2>2 DEF ReplacedInv
<1> QED
  BY <1>6, <1>7, <1>8, <1>9, <1>10, <1>12, <1>13 DEF Inv

-----------------------------------------------------------------------------
LEMMA HandlerInv == ASSUME Inv, NEW s \in Sessions, Handler(s) PROVE Inv'
<1>1. s \in Actors
  BY Names
<1>2. CASE CheckJoin(s) \/ Challenge(s) \/ CheckReconnect(s)
  BY <1>2, CheckInv
<1>3. CASE EnrollCommit(s)
  BY <1>3, EnrollInv
<1>4. CASE ReconnectCommit(s)
  BY <1>4, ReconnectInv
<1>5. CASE TransitionRead(s) \/ TransitionWrite(s)
  BY <1>1, <1>5, TransitionInv
<1>6. CASE Register(s)
  BY <1>6, RegisterInv
<1>7. CASE Success(s) \/ RotateSend(s)
  BY <1>7, DeliverInv
<1>8. CASE RotateCommit(s)
  BY <1>8, RotateInv
<1>9. CASE Audit(s) \/ Heartbeat(s) \/ Disconnected(s) \/ Unregister(s) \/ FinalState(s)
  BY <1>9, LoopInv
<1> QED
  BY <1>2, <1>3, <1>4, <1>5, <1>6, <1>7, <1>8, <1>9 DEF Handler

LEMMA NextInv == ASSUME Inv, [Next]_vars PROVE Inv'
<1>1. CASE \E s \in Sessions : Handler(s)
  BY <1>1, HandlerInv
<1>2. CASE MonitorStep
  BY <1>2, OtherActors, MonitorInv, TransitionInv DEF MonitorStep
<1>3. CASE AdminStep
  <2>1. CASE SetFlag \/ Alive
    BY <2>1, FlagInv
  <2>2. CASE PopAndClose
    BY <2>2, PopInv
  <2>3. CASE IssueJoin
    BY <2>3, TokenAdminInv
  <2>4. CASE TransitionRead("admin") \/ TransitionWrite("admin")
    BY <2>4, OtherActors, TransitionInv
  <2> QED
    BY <1>3, <2>1, <2>2, <2>3, <2>4 DEF AdminStep
<1>4. CASE GenerateJoin \/ Delete \/ Regenerate \/ Boot
  BY <1>4, TokenAdminInv
<1>5. CASE SetDisabled
  BY <1>5, FlagInv
<1>6. CASE \E w \in Workers : LinkDown(w) \/ \E j \in JoinTokens : Install(w, j)
  BY <1>6, WorkerInv
<1>7. CASE \E w \in Workers, s \in Sessions : Dial(w, s)
  BY <1>7, DialInv
<1>8. CASE Crash
  BY <1>8, CrashInv
<1>9. CASE UNCHANGED vars
  BY <1>9 DEF vars, Inv, TypeOK, JoinInv, RegistryAlive, SessInv, Served, Holding, PlaceInv,
              Presented, Bound, ReplacedInv, LockoutOnlyByLoss, Attached, Valid
<1> QED
  BY <1>1, <1>2, <1>3, <1>4, <1>5, <1>6, <1>7, <1>8, <1>9 DEF Next

(* The inductive invariant holds in every reachable state.                 *)
THEOREM Invariance == Spec => []Inv
<1>1. Inv /\ [Next]_vars => Inv'
  BY NextInv
<1> QED
  BY InitInv, <1>1, PTL DEF Spec

(* Every variable of the handlers, the registry and the workers has its    *)
(* declared shape.                                                         *)
THEOREM TypeCorrect == Spec => []TypeOK
<1>1. Inv => TypeOK
  BY DEF Inv
<1> QED
  BY Invariance, <1>1, PTL

(* The conditional UPDATE of _run_enrollment lets one machine in for each  *)
(* JOIN_TOKEN, however many handlers present it.                           *)
THEOREM EnrolledOnce == Spec => []JoinTokenOnce
<1>1. Inv => JoinTokenOnce
  BY DEF Inv, JoinInv, JoinTokenOnce
<1> QED
  BY Invariance, <1>1, PTL

(* No order of replacements, closes and failed sends leaves an entry of    *)
(* _connections with a handler that is past its cleanup or in a handshake. *)
THEOREM RegistryNamesTheLiving == Spec => []RegistryAlive
<1>1. Inv => RegistryAlive
  BY DEF Inv
<1> QED
  BY Invariance, <1>1, PTL

(* Every rotation, reconnection, deletion and re-enrolment leaves the      *)
(* worker of the node row a way back in, unless a token is lost.           *)
THEOREM LockedOutByLossAlone == Spec => []LockoutOnlyByLoss
<1>1. Inv => LockoutOnlyByLoss
  BY DEF Inv
<1> QED
  BY Invariance, <1>1, PTL
=============================================================================
