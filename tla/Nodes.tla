-------------------------------- MODULE Nodes --------------------------------
(***************************************************************************)
(* The life of one node: the handler of a worker's WebSocket session       *)
(* (ws/worker_handler.py), the state machine and the connection registry   *)
(* of core/node_manager.py, the heartbeat monitor, the administrator's     *)
(* endpoints of api/nodes.py, and the connection loop of the Go worker.    *)
(*                                                                         *)
(* Each await that lets another task in separates two actions.  A frame    *)
(* is delivered when it is sent over a live link and is lost otherwise: a  *)
(* link that breaks with the frame in flight is a link that broke before.  *)
(***************************************************************************)
EXTENDS Naturals, FiniteSets

CONSTANTS
  Workers,      \* installed worker processes, each with its own Ed25519 key
  Sessions,     \* slots for concurrent worker_join_handler calls
  None, Dead,   \* no connection; an entry whose handler has returned
  MaxJoin,      \* bound on the JOIN_TOKENs of the node
  MaxTokens,    \* bound on the WORKER_TOKENs issued
  MaxAdmin,     \* bound on the administrator's requests
  MaxCrashes    \* bound on the crashes of the master

JoinTokens == 1..MaxJoin
Tokens     == 1..MaxTokens
Actors     == Sessions \cup {"admin", "monitor"}

ASSUME BoundsAssumption ==
  MaxJoin \in Nat /\ MaxTokens \in Nat /\ MaxAdmin \in Nat /\ MaxCrashes \in Nat
ASSUME NamesAssumption ==
  /\ None # Dead /\ {None, Dead} \cap (Sessions \cup Workers) = {}
  /\ Sessions \cap {"admin", "monitor"} = {}

VARIABLES
  up,        \* the master process is running
  node,      \* the row of nodes: state (NONE: no row), disabled, public_key
  jt,        \* join_tokens
  wt,        \* worker_tokens
  conn,      \* NodeManager._connections of the node
  task,      \* the handlers, the administrator's request, the monitor
  wk,        \* the workers: JOIN_TOKEN, WORKER_TOKEN, session
  enrolls,   \* history: enrolments committed for each JOIN_TOKEN
  lost,      \* history: a fresh WORKER_TOKEN was never delivered, or replaced
             \* one that another worker holds
  asked,
  crashes

vars  == <<up, node, jt, wt, conn, task, wk, enrolls, lost, asked, crashes>>
count == <<asked, crashes>>

States == {"NONE", "PENDING", "ENROLLING", "CONNECTED", "RECONNECTING", "LOST",
           "STALE", "DISABLED"}

\* UNCONFIGURED and REVOKED are never written by the code in use.
ValidTransitions ==
  ({"PENDING", "LOST", "STALE", "RECONNECTING", "DISABLED"} \X {"ENROLLING"})
    \cup ({"ENROLLING", "RECONNECTING", "LOST", "STALE", "DISABLED"} \X {"CONNECTED"})
    \cup ({"CONNECTED", "RECONNECTING", "DISABLED"} \X {"LOST"})
    \cup {<<"ENROLLING", "PENDING">>, <<"CONNECTED", "RECONNECTING">>,
          <<"CONNECTED", "DISABLED">>, <<"LOST", "STALE">>}

Idle == [pc |-> "free", w |-> None, tok |-> 0, first |-> FALSE, new |-> 0,
         to |-> "NONE", then |-> "free", shut |-> FALSE]

Steps == {"free", "jtoken", "challenge", "jcommit", "rtoken", "rcommit",
          "read", "write", "register", "success", "audit", "op", "rotate", "rotsend",
          "fin1", "fin2", "flag", "alive", "pop", "issue", "drop"}

TaskType == [pc : Steps, w : Workers \cup {None}, tok : 0..MaxTokens + MaxJoin,
             first : BOOLEAN, new : 0..MaxTokens, to : States, then : Steps, shut : BOOLEAN]

(* Every variable has its declared shape. *)
TypeOK ==
  /\ up \in BOOLEAN /\ lost \in BOOLEAN
  /\ node \in [state : States, disabled : BOOLEAN, key : Workers \cup {None}]
  /\ jt \in [JoinTokens -> {"unissued", "open", "consumed"}]
  /\ wt \in [Tokens -> {"unissued", "valid", "revoked", "gone"}]
  /\ conn \in Sessions \cup {None, Dead}
  /\ task \in [Actors -> TaskType]
  /\ wk \in [Workers -> [join : 0..MaxJoin, tok : 0..MaxTokens, sess : Sessions \cup {None}]]
  /\ enrolls \in [JoinTokens -> Nat]
  /\ asked \in 0..MaxAdmin /\ crashes \in 0..MaxCrashes

Init ==
  /\ up = TRUE /\ lost = FALSE
  /\ node = [state |-> "NONE", disabled |-> FALSE, key |-> None]
  /\ jt = [j \in JoinTokens |-> "unissued"]
  /\ wt = [t \in Tokens |-> "unissued"]
  /\ conn = None
  /\ task = [a \in Actors |-> Idle]
  /\ wk = [w \in Workers |-> [join |-> 0, tok |-> 0, sess |-> None]]
  /\ enrolls = [j \in JoinTokens |-> 0]
  /\ asked = 0 /\ crashes = 0

-----------------------------------------------------------------------------
At(a, pc)     == up /\ task[a].pc = pc
Go(a, pc)     == [task EXCEPT ![a] = [@ EXCEPT !.pc = pc, !.to = "NONE", !.then = "free"]]
\* await transition_state(..., target), after which the caller goes on at next
Move(a, target, next) ==
  [task EXCEPT ![a] = [@ EXCEPT !.pc = "read", !.to = target, !.then = next]]
\* what s does next, t being the WORKER_TOKEN it has to deliver
Give(next, s, t) == [next EXCEPT ![s] = [@ EXCEPT !.new = t, !.tok = 0, !.first = FALSE]]
Attached(s)   == s \in Sessions /\ \E w \in Workers : wk[w].sess = s
HangUp(S)     == [w \in Workers |-> IF wk[w].sess \in S THEN [wk[w] EXCEPT !.sess = None]
                                                         ELSE wk[w]]
Valid         == {t \in Tokens : wt[t] = "valid"}
Unissued      == {t \in Tokens : wt[t] = "unissued"}
Fresh(t)      == t \in Unissued /\ \A u \in Unissued : t <= u
\* the bound: a handler starts towards a commit only if a token is left for it
TokenLeft     == Cardinality({s \in Sessions : task[s].new = 0 /\ task[s].tok # 0})
                   < Cardinality(Unissued)

\* The handler returns or raises: its socket is closed; an entry it leaves
\* in the registry stays there with nobody behind it.
End(a) ==
  /\ task' = [task EXCEPT ![a] = Idle]
  /\ conn' = IF conn = a THEN Dead ELSE conn
  /\ lost' = (lost \/ task[a].new # 0)
  /\ wk' = HangUp({a})

\* A fresh WORKER_TOKEN goes out.  _send swallows a WebSocketDisconnect and
\* drops whatever connection the node has.
DeliverUnsaved(s, next) ==
  /\ task' = [task EXCEPT ![s] = [@ EXCEPT !.pc = next, !.new = 0]]
  /\ lost' = (lost \/ ~ Attached(s))
  /\ UNCHANGED <<conn, wk>>
Deliver(s, next) ==
  /\ task' = [task EXCEPT ![s] = [@ EXCEPT !.pc = next, !.new = 0]]
  /\ \/ /\ Attached(s)
        /\ wk' = [wk EXCEPT ![task[s].w].tok = task[s].new]
        /\ UNCHANGED <<conn, lost>>
     \/ /\ ~ Attached(s)
        /\ lost' = TRUE
        /\ conn' \in {conn, None}
        /\ UNCHANGED wk

-----------------------------------------------------------------------------
(* transition_state: the state is read and checked, then written without a *)
(* condition.                                                              *)
TransitionRead(a) ==
  /\ At(a, "read")
  /\ \/ /\ <<node.state, task[a].to>> \in ValidTransitions
        /\ task' = [task EXCEPT ![a].pc = "write"]
        /\ UNCHANGED <<conn, lost, wk>>
     \/ /\ <<node.state, task[a].to>> \notin ValidTransitions
        /\ End(a)
  /\ UNCHANGED <<up, node, jt, wt, enrolls, count>>

TransitionWrite(a) ==
  /\ At(a, "write")
  /\ node' = IF node.state = "NONE" THEN node ELSE [node EXCEPT !.state = task[a].to]
  /\ \/ task[a].then = "free" /\ End(a)
     \/ task[a].then # "free" /\ task' = Go(a, task[a].then) /\ UNCHANGED <<conn, lost, wk>>
  /\ UNCHANGED <<up, jt, wt, enrolls, count>>

-----------------------------------------------------------------------------
(* Enrolment with a JOIN_TOKEN *)
\* The token is looked up, then the state of the node.  The lookup may be
\* modelled at the same instant as the second read: a token that passes late
\* would have passed earlier.  An expired token, a bad HMAC or a foreign
\* address is refused here only.
CheckJoin(s) ==
  /\ At(s, "jtoken")
  /\ \/ /\ jt[task[s].tok] = "open" /\ node.state = "NONE"
        /\ task' = [Go(s, "challenge") EXCEPT ![s].first = TRUE]
        /\ UNCHANGED <<conn, lost, wk>>
     \/ /\ jt[task[s].tok] = "open"
        /\ node.state \in {"PENDING", "LOST", "STALE", "RECONNECTING"}
        /\ task' = Move(s, "ENROLLING", "challenge")
        /\ UNCHANGED <<conn, lost, wk>>
     \/ End(s)
  /\ UNCHANGED <<up, node, jt, wt, enrolls, count>>

\* The next frame, of the type that is due: a worker that is gone sends none
\* within ENROLLMENT_STEP_TIMEOUT
_recv_typed(s) == Attached(s)

\* The worker signs the challenge with the key it announced
Challenge(s) ==
  /\ At(s, "challenge")
  /\ \/ _recv_typed(s) /\ task' = Go(s, "jcommit") /\ UNCHANGED <<conn, lost, wk>>
     \/ ~ _recv_typed(s) /\ End(s)
  /\ UNCHANGED <<up, node, jt, wt, enrolls, count>>

\* UPDATE join_tokens SET consumed = 1 WHERE token_hash = ? AND consumed = 0
UnconsumedDropped(j) == jt[j] # "unissued"
Unconsumed(j) == jt[j] = "open"
\* INSERT into nodes needs no row, INSERT into worker_tokens a row to refer to
Insertable(s) == task[s].first <=> node.state = "NONE"

EnrollCommit(s) ==
  LET j == task[s].tok IN
  /\ At(s, "jcommit")
  /\ \/ /\ Unconsumed(j) /\ Insertable(s)
        /\ \E t \in Tokens :
             /\ Fresh(t)
             /\ wt' = [wt EXCEPT ![t] = "valid"]
             /\ task' = Give(IF task[s].first THEN Go(s, "register")
                                              ELSE Move(s, "CONNECTED", "register"), s, t)
        /\ jt' = [jt EXCEPT ![j] = "consumed"]
        /\ node' = IF task[s].first
                   THEN [state |-> "CONNECTED", disabled |-> FALSE, key |-> task[s].w]
                   ELSE [node EXCEPT !.key = task[s].w]
        /\ enrolls' = [enrolls EXCEPT ![j] = @ + 1]
        /\ UNCHANGED <<conn, lost, wk>>
     \/ /\ ~ (Unconsumed(j) /\ Insertable(s))
        /\ End(s)
        /\ UNCHANGED <<jt, wt, node, enrolls>>
  /\ UNCHANGED <<up, count>>

-----------------------------------------------------------------------------
(* Reconnection with the persisted WORKER_TOKEN *)
\* verify_worker_token_async: the signature holds and the row is not revoked
TokenValid(t) == t \in Tokens /\ wt[t] = "valid"

Reconnectable(s) ==
  /\ TokenValid(task[s].tok)
  /\ node.key = task[s].w
  /\ node.state \in {"RECONNECTING", "LOST", "STALE", "DISABLED"}

\* verify_worker_token_async, then the row of the node: as above, a token
\* that is valid at the second read was valid at the first.
CheckReconnect(s) ==
  /\ At(s, "rtoken")
  /\ \/ /\ Reconnectable(s)
        /\ task' = Move(s, "ENROLLING", "rcommit")
        /\ UNCHANGED <<conn, lost, wk>>
     \/ ~ Reconnectable(s) /\ End(s)
  /\ UNCHANGED <<up, node, jt, wt, enrolls, count>>

\* The transaction that puts t in the place of old; without the node's row
\* the INSERT violates its foreign key and nothing is written.
Reissue(old, t) == [wt EXCEPT ![old] = "revoked", ![t] = "valid"]

ReconnectCommit(s) ==
  /\ At(s, "rcommit")
  /\ \/ /\ node.state # "NONE"
        /\ \E t \in Tokens :
             /\ Fresh(t)
             /\ wt' = Reissue(task[s].tok, t)
             /\ task' = Give(Move(s, "CONNECTED", "register"), s, t)
        /\ UNCHANGED <<conn, lost, wk>>
     \/ /\ node.state = "NONE"
        /\ End(s)
        /\ UNCHANGED wt
  /\ UNCHANGED <<up, node, jt, enrolls, count>>

-----------------------------------------------------------------------------
(* The end of both handshakes *)
Register(s) ==
  /\ At(s, "register")
  /\ conn' = s
  /\ task' = IF conn \in Sessions
             THEN [Go(s, "success") EXCEPT ![conn].shut = TRUE]
             ELSE Go(s, "success")
  /\ wk' = HangUp({conn})
  /\ UNCHANGED <<up, node, jt, wt, enrolls, lost, count>>

Success(s) ==
  /\ At(s, "success")
  /\ \/ ~ task[s].shut /\ Deliver(s, "audit")
     \/ task[s].shut /\ End(s)
  /\ UNCHANGED <<up, node, jt, wt, enrolls, count>>

\* log_action may raise (the shared connection may be inside a transaction)
Audit(s) ==
  /\ At(s, "audit")
  /\ \/ task' = Go(s, "op") /\ UNCHANGED <<conn, lost, wk>>
     \/ End(s)
  /\ UNCHANGED <<up, node, jt, wt, enrolls, count>>

-----------------------------------------------------------------------------
(* The operational loop *)
\* A heartbeat finds the node's newest WORKER_TOKEN, whoever holds it, due
\* for rotation.
Newest(t) == t \in Valid /\ \A u \in Valid : u <= t

Heartbeat(s) ==
  /\ At(s, "op") /\ Attached(s) /\ TokenLeft
  /\ \E t \in Tokens : Newest(t) /\ task' = [Go(s, "rotate") EXCEPT ![s].tok = t]
  /\ UNCHANGED <<up, node, jt, wt, conn, wk, enrolls, lost, count>>

\* An exception of the rotation is logged and the loop goes on.
RotateCommit(s) ==
  /\ At(s, "rotate")
  /\ \/ /\ node.state # "NONE"
        /\ \E t \in Tokens :
             /\ Fresh(t)
             /\ wt' = Reissue(task[s].tok, t)
             /\ task' = Give(Go(s, "rotsend"), s, t)
        /\ lost' = (lost \/ wk[task[s].w].tok # task[s].tok)
     \/ /\ node.state = "NONE"
        /\ task' = [Go(s, "op") EXCEPT ![s].tok = 0]
        /\ UNCHANGED <<wt, lost>>
  /\ UNCHANGED <<up, node, jt, conn, wk, enrolls, count>>

RotateSend(s) ==
  /\ At(s, "rotsend")
  /\ Deliver(s, "op")
  /\ UNCHANGED <<up, node, jt, wt, enrolls, count>>

\* receive_text raises, or says nothing for three heartbeats.
DisconnectedByFrame(s) ==
  /\ At(s, "op") /\ task[s].shut
  /\ task' = Go(s, "fin1")
  /\ UNCHANGED <<up, node, jt, wt, conn, wk, enrolls, lost, count>>
Disconnected(s) ==
  /\ At(s, "op") /\ ~ Attached(s)
  /\ task' = Go(s, "fin1")
  /\ UNCHANGED <<up, node, jt, wt, conn, wk, enrolls, lost, count>>

\* finally: the connection of the node is dropped, whoever registered it
UnregisterDropped(s) ==
  /\ At(s, "fin1")
  /\ task' = Go(s, "fin2")
  /\ UNCHANGED <<up, node, jt, wt, conn, wk, enrolls, lost, count>>
Unregister(s) ==
  /\ At(s, "fin1")
  /\ conn' = None
  /\ task' = Go(s, "fin2")
  /\ UNCHANGED <<up, node, jt, wt, wk, enrolls, lost, count>>

FinalState(s) ==
  /\ At(s, "fin2")
  /\ \/ /\ node.state = "CONNECTED" /\ task' = Move(s, "RECONNECTING", "free")
        /\ UNCHANGED <<conn, lost, wk>>
     \/ /\ node.state = "ENROLLING" /\ task' = Move(s, "PENDING", "free")
        /\ UNCHANGED <<conn, lost, wk>>
     \/ node.state \notin {"CONNECTED", "ENROLLING"} /\ End(s)
  /\ UNCHANGED <<up, node, jt, wt, enrolls, count>>

-----------------------------------------------------------------------------
(* _check_heartbeats *)
\* An entry whose last heartbeat is older than lost_threshold.
SeeLost ==
  /\ At("monitor", "free")
  /\ conn # None /\ ~ Attached(conn)
  /\ task' = Go("monitor", "drop")
  /\ UNCHANGED <<up, node, jt, wt, conn, wk, enrolls, lost, count>>

DropLost ==
  /\ At("monitor", "drop")
  /\ conn' = None
  /\ task' = Move("monitor", "LOST", "free")
  /\ UNCHANGED <<up, node, jt, wt, wk, enrolls, lost, count>>

MarkOffline ==
  /\ At("monitor", "free")
  /\ node.state = "LOST"
  /\ task' = Move("monitor", "OFFLINE", "free")
  /\ UNCHANGED <<up, node, jt, wt, conn, wk, enrolls, lost, count>>
MarkStale ==
  /\ At("monitor", "free")
  /\ node.state = "LOST"
  /\ task' = Move("monitor", "STALE", "free")
  /\ UNCHANGED <<up, node, jt, wt, conn, wk, enrolls, lost, count>>
-----------------------------------------------------------------------------
(* The administrator's requests, one at a time *)
Ask ==
  /\ At("admin", "free") /\ asked < MaxAdmin
  /\ asked' = asked + 1

\* SecurityManager.generate_join_token and the INSERT into join_tokens
generate_join_token(j) == [jt EXCEPT ![j] = "open"]

\* The route draws a new node id: the first token of the node
GenerateJoin ==
  /\ up /\ jt[1] = "unissued"
  /\ jt' = generate_join_token(1)
  /\ UNCHANGED <<up, node, wt, conn, task, wk, enrolls, lost, count>>

\* set_disabled: the row is read, then the flag is committed
SetDisabled ==
  /\ Ask
  /\ node.state # "NONE"
  /\ task' = [task EXCEPT !["admin"] = [@ EXCEPT !.pc = "flag", !.to = node.state,
                                                   !.first = node.disabled]]
  /\ UNCHANGED <<up, node, jt, wt, conn, wk, enrolls, lost, crashes>>

\* first: the node was disabled, so this request enables it; to: the state read
SetFlag ==
  LET a == task["admin"] IN
  /\ At("admin", "flag")
  /\ node' = IF node.state = "NONE" THEN node ELSE [node EXCEPT !.disabled = ~ a.first]
  /\ task' = CASE ~ a.first /\ a.to # "DISABLED" -> Move("admin", "DISABLED", "pop")
               [] ~ a.first /\ a.to = "DISABLED" -> Go("admin", "pop")
               [] a.first /\ a.to = "DISABLED"   -> Go("admin", "alive")
               [] OTHER                          -> [task EXCEPT !["admin"] = Idle]
  /\ UNCHANGED <<up, jt, wt, conn, wk, enrolls, lost, count>>

Alive ==
  /\ At("admin", "alive")
  /\ task' = Move("admin", IF conn # None THEN "CONNECTED" ELSE "LOST", "free")
  /\ UNCHANGED <<up, node, jt, wt, conn, wk, enrolls, lost, count>>

\* the end of set_disabled and of delete_node: pop the connection and close it
PopAndClose ==
  /\ At("admin", "pop")
  /\ conn' = None
  /\ wk' = HangUp({conn})
  /\ task' = IF conn \in Sessions
             THEN [task EXCEPT !["admin"] = Idle, ![conn].shut = TRUE]
             ELSE [task EXCEPT !["admin"] = Idle]
  /\ UNCHANGED <<up, node, jt, wt, enrolls, lost, count>>

\* The row and, by cascade, its worker tokens go; join_tokens has no foreign
\* key since migration 006.
Delete ==
  /\ Ask
  /\ node.state # "NONE"
  /\ node' = [state |-> "NONE", disabled |-> FALSE, key |-> None]
  /\ wt' = [t \in Tokens |-> IF wt[t] = "unissued" THEN "unissued" ELSE "gone"]
  /\ task' = Go("admin", "pop")
  /\ UNCHANGED <<up, jt, conn, wk, enrolls, lost, crashes>>

invalidate_join_tokens == [j \in JoinTokens |-> IF Unconsumed(j) THEN "consumed" ELSE jt[j]]

\* regenerate_join_token: the open tokens are consumed, then a new one inserted
Regenerate ==
  /\ Ask
  /\ node.state = "PENDING"
  /\ jt' = invalidate_join_tokens
  /\ task' = Go("admin", "issue")
  /\ UNCHANGED <<up, node, wt, conn, wk, enrolls, lost, crashes>>

IssueJoin ==
  /\ At("admin", "issue")
  /\ task' = [task EXCEPT !["admin"] = Idle]
  /\ IF \A j \in JoinTokens : jt[j] # "unissued"
     THEN UNCHANGED jt
     ELSE \E j \in JoinTokens :
            /\ jt[j] = "unissued" /\ \A i \in JoinTokens : jt[i] = "unissued" => j <= i
            /\ jt' = generate_join_token(j)
  /\ UNCHANGED <<up, node, wt, conn, wk, enrolls, lost, count>>

-----------------------------------------------------------------------------
(* The Go worker *)
\* The kickstart script is run with a JOIN_TOKEN; a persisted WORKER_TOKEN
\* takes precedence over it.
Install(w, j) ==
  /\ jt[j] # "unissued" /\ wk[w].join # j /\ wk[w].tok = 0 /\ wk[w].sess = None
  /\ wk' = [wk EXCEPT ![w].join = j]
  /\ UNCHANGED <<up, node, jt, wt, conn, task, enrolls, lost, count>>

\* RunWithBackoff: a worker that has a token of either kind retries for ever
CanDial(w) == wk[w].sess = None /\ (wk[w].tok # 0 \/ wk[w].join # 0)

\* buildEnrollmentRequest
Request(w) == IF wk[w].tok # 0 THEN <<"rtoken", wk[w].tok>> ELSE <<"jtoken", wk[w].join>>

\* Connect, first message included
Dial(w, s) ==
  /\ At(s, "free") /\ CanDial(w) /\ TokenLeft
  /\ wk' = [wk EXCEPT ![w].sess = s]
  /\ task' = [task EXCEPT ![s] = [@ EXCEPT !.w = w, !.pc = Request(w)[1], !.tok = Request(w)[2]]]
  /\ UNCHANGED <<up, node, jt, wt, conn, enrolls, lost, count>>

\* The link breaks, a read deadline passes or the process is restarted; it
\* has its tokens on disk.
LinkDown(w) ==
  /\ wk[w].sess # None
  /\ wk' = HangUp({wk[w].sess})
  /\ UNCHANGED <<up, node, jt, wt, conn, task, enrolls, lost, count>>

-----------------------------------------------------------------------------
Crash ==
  /\ up /\ crashes < MaxCrashes
  /\ up' = FALSE /\ crashes' = crashes + 1
  /\ task' = [a \in Actors |-> Idle]
  /\ conn' = None
  /\ wk' = HangUp(Sessions)
  /\ lost' = (lost \/ \E s \in Sessions : task[s].new # 0)
  /\ UNCHANGED <<node, jt, wt, enrolls, asked>>

\* lifespan: nobody is connected yet
Boot ==
  /\ ~ up
  /\ up' = TRUE
  /\ node' = IF node.state \in {"CONNECTED", "ENROLLING", "RECONNECTING"}
             THEN [node EXCEPT !.state = "LOST"] ELSE node
  /\ UNCHANGED <<jt, wt, conn, task, wk, enrolls, lost, count>>

Handler(s) ==
  \/ CheckJoin(s) \/ Challenge(s) \/ EnrollCommit(s)
  \/ CheckReconnect(s) \/ ReconnectCommit(s)
  \/ TransitionRead(s) \/ TransitionWrite(s)
  \/ Register(s) \/ Success(s) \/ Audit(s)
  \/ Heartbeat(s) \/ RotateCommit(s) \/ RotateSend(s)
  \/ Disconnected(s) \/ Unregister(s) \/ FinalState(s)

MonitorStep ==
  SeeLost \/ DropLost \/ MarkStale \/ TransitionRead("monitor") \/ TransitionWrite("monitor")

AdminStep ==
  SetFlag \/ Alive \/ PopAndClose \/ IssueJoin
    \/ TransitionRead("admin") \/ TransitionWrite("admin")

Next ==
  \/ \E s \in Sessions : Handler(s)
  \/ MonitorStep \/ AdminStep
  \/ GenerateJoin \/ SetDisabled \/ Delete \/ Regenerate
  \/ \E w \in Workers : LinkDown(w) \/ \E j \in JoinTokens : Install(w, j)
  \/ \E w \in Workers, s \in Sessions : Dial(w, s)
  \/ Crash \/ Boot

\* The event loop runs every coroutine that can go on; the process
\* supervisor restarts the master.
Fairness ==
  /\ \A s \in Sessions : WF_vars(Handler(s))
  /\ WF_vars(MonitorStep) /\ WF_vars(AdminStep) /\ WF_vars(Boot)

Spec == Init /\ [][Next]_vars /\ Fairness

-----------------------------------------------------------------------------
(* A JOIN_TOKEN enrols at most one machine, however many present it at     *)
(* once: the conditional UPDATE of _run_enrollment decides the race.       *)
JoinTokenOnce == \A j \in JoinTokens : enrolls[j] <= 1

(* An entry of NodeManager._connections has a handler that is running and  *)
(* has registered it, or is a dead one the monitor will find: no order of  *)
(* replacements, closes and failed sends leaves an entry pointing at a     *)
(* handler that is past its cleanup or at another session's handshake.     *)
RegistryAlive ==
  conn \in Sessions =>
    /\ task[conn].pc \in {"success", "audit", "op", "rotate", "rotsend", "fin1"}
    /\ task[conn].w # None

(* The worker whose key the node row holds can authenticate again, unless  *)
(* a fresh token was never delivered, or the heartbeat of a session that   *)
(* outlived its entry in _connections rotated away the token of another    *)
(* worker: its own token is valid, or the newer one is still in a          *)
(* handler's hands.                                                        *)
LockoutOnlyByLoss ==
  node.key # None /\ ~ lost =>
    \/ wk[node.key].tok \in Valid
    \/ \E s \in Sessions : task[s].w = node.key /\ task[s].new \in Valid

(* Nothing of a worker that has gone stays: the handler of its session     *)
(* returns, since each of its receives has a deadline, and an entry of     *)
(* _connections without a handler is found and dropped by the heartbeat    *)
(* monitor.                                                                *)
SessionsEnd ==
  /\ \A s \in Sessions : task[s].pc # "free" /\ ~ Attached(s) ~> task[s].pc = "free"
  /\ conn = Dead ~> conn # Dead

=============================================================================
