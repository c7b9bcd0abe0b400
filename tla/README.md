# Vigile: TLA+ specifications

Vigile is a master (Python, FastAPI, SQLite) that supervises worker nodes (Go)
over WebSockets. An AI assistant proposes actions on the nodes; a person
approves them; the master sends them to the worker as *intents* and records what
happened in a hash-chained audit log. This directory holds TLA+ models of the
parts where that promise can break: concurrency between asyncio tasks,
disconnects, crashes and the sharing of SQLite connections.

`PROJECT.json` lists components, runs, mutants, the map from definitions to
source lines, findings, hazards and theorems.

## Inventory

| Component | State | Operations | Interacts with |
|---|---|---|---|
| Action proposals (`api/chat_proposals.py`, `core/action_proposal.py`, `core/proposal_autoexpire.py`) | table `action_proposals` | create, approve, reject, auto-expire | dispatcher, audit log, node deletion (cascade) |
| Dispatcher (`core/proposal_dispatcher.py`) | `dispatch_id`, `intent_id` columns | `dispatch_approved`, `dispatch_admin_action` | intent registry, audit log |
| Intent registry (`core/node_manager.py`) | `_connections`, `_pending_intents`, `_intent_nodes` | `_send_intent`, `resolve_intent`, `unregister_connection`, `_cleanup_stale_intents` | worker sockets, dispatcher, query port |
| Node life cycle (`core/node_manager.py`, `ws/worker_handler.py`) | table `nodes`, tokens | enroll, reconnect, heartbeat, LOST/STALE, disable, delete | registry, audit log, alerts |
| Outbox (`core/outbox.py`) | table `outbox` | publish, sweep, replay, clean up | hook bus (publisher), handlers |
| Database (`db/database.py`) | connection pool, primary connection | acquire, release, `transaction()` | everyone |
| Audit log (`core/audit.py`) | table `audit_log`, `_audit_lock` | `log_action`, `verify_chain` | everyone |
| Start-up (`lifespan.py`) | | outbox replay, dispatch of approved rows, resets | proposals, outbox, nodes, plugins |
| Worker (`worker/`) | session epoch, semaphores, replay guard, policy, updater | run intents, reconnect, rotate token, update | master |
| Auth (`api/auth.py`, `core/security_manager.py`) | refresh tokens, users | login, refresh, revoke | every route |
| Plugins (`core/plugin_engine.py`, `core/plugin_lifecycle.py`) | three state axes, subprocesses | load, stop, install, upgrade | hook bus, routes, scheduler |
| Alerts, investigations, insights | `alerts`, `investigations`, caches | evaluate, fire, resolve, analyse | nodes, LLM |
| Small concurrency tools (`circuit_breaker`, `rate_limiter`, `single_flight`, `lock`) | counters, futures | | plugins, LLM client, caches |
| Metrics buffer (`plugins/metrics`) | `_metrics_buffer` | report, flush | worker sockets, primary connection |
| Collectors, scheduler, event bus, auto-update | tasks | collect, run | nodes, database |

What is hard here, and what makes each part correct:

* **Proposals.** Every request is a task that loses control at each `await`, on a
  connection of its own and with a dispatcher object of its own, so the only
  synchronisation is in the SQL statements, each of which may find the database
  locked. An intent must be sent at most once,
  only after an entitled person approved it; EXECUTED must mean that it ran; an
  approval must survive a crash; nothing may wait for ever.
* **Outbox.** Sweeps may overlap, handlers fail, the master dies in the middle of
  an entry. Every event must be delivered at least once or be dead-lettered,
  never by two sweeps at a time, never again afterwards.
* **Database and audit log.** A request has a pooled connection to itself until its
  dependencies are closed, which is before the body of a chat stream runs: the
  stream goes on with a connection that is back in the pool. Sockets and
  background loops share the primary one. `transaction()` joins a transaction
  that is already open, even another coroutine's. The chain must stay linear
  and must verify.
* **Node life cycle.** Sessions of the same node overlap, transitions check and
  then update, tokens are rotated before the worker knows. A join token must enrol
  one machine, a registered connection must have a handler behind it, and a
  worker must not be locked out unless a message was lost.
* **Updates.** An update replaces the executable of the process that runs it, through
  files it shares with every other update; the process, its sessions and the
  machine may stop at any point, and the rollback check is made by the installed
  binary itself. What undoes a bad release must be in place, and a bad release must
  not reach the fleet.
* **Live queries.** Lists are shared between callers, the worker refuses or queues
  by pools that start afresh with every session, and callers give up while the
  worker goes on. Every call must return, no marker may leak.
* **Plugins.** Loads take a lock, unloads do not; hooks are called meanwhile; a load
  may fail at every stage; a plugin goes by the id of its manifest and by the stem
  of its file. Nothing may be registered twice, nobody may wait for
  ever.
* **Alerts and investigations.** A table and its mirror in memory, a timeout that
  cancels between the two, operators who change the table alone, slots counted by
  hand.
* **Authentication.** Refresh tokens form families; a request reads a token and
  writes later, while another refreshes, logs out or changes the password.
* **Chat and analyses.** Streams that read a history at their start and overwrite it
  at their end, rounds of tools, retries inside attempts, and a circuit breaker all
  of them share.

The full list, at source lines, is under `hazards`.

## Modules

| Module | Models |
|---|---|
| `HitlGate` | the abstract specification: ask, approve, deliver at most once |
| `Proposals` | proposals, dispatcher, intent registry, the worker's answer, deletion, crash, start-up reconciliation |
| `Outbox` | the transactional outbox, its sweeps, replay and clean-up |
| `Database` | pooled and primary connections, `transaction()`, SQLite's writer lock, `log_action`, the metrics buffer |
| `Nodes` | one node: sessions, handshakes, tokens, registry, heartbeat monitor, administration, the worker's connection loop |
| `Updates` | `UPDATE_WORKER`, the updater and its rollback, the binary cache, the canary rollout |
| `Queries` | the master's calls to a worker, single flights, caches and scans, and the worker's pools and handlers |
| `Plugins` | the plugin engine and one plugin: registrations, lock, kill switch, table row, batches and archives, hook and subprocess calls |
| `Alerts` | the alert engine, its table and memory, the investigations |
| `Auth` | the refresh tokens of one user, login limit, access token, password change |
| `Chat` | streams of one chat session, diagnoses and profiles, the circuit breaker |
| `ProposalsProofs` | theorems about `Proposals`, and that it implements `HitlGate` |
| `PersistenceProofs` | theorems about `Outbox` and `Database` |
| `SessionProofs` | theorems about `Auth` and `Chat` |
| `NodesProofs`, `UpdatesProofs`, `QueriesProofs`, `PluginsProofs`, `AlertsProofs` | theorems about these modules |
| `MC*` | instances for TLC |

The modules meet where the code does: the registry entry that `Nodes` maintains is
the `conn` of `Proposals` and the session of `Queries`; `dispatch_admin_action` of
`Proposals` carries the actions of `Queries` and the update intents of `Updates`; the
hook deadline of `Plugins` is what cancels an evaluation in `Alerts`; a write tool of
`Chat` ends in the `Propose` of `Proposals`. Each module gives the others' steps all
the freedom they have (a session may end at any time, a hook may be called or
cancelled at any time), so that no property of one leans on an assumption about
another.

### Proposals

One action is the code between two awaits. `row` is the table (`claimed` stands
for a `dispatch_id`, `NONE` for a row not inserted, `GONE` for a deleted one),
`task` the running coroutines with their next step and the values they read
earlier, `conn`, `reg` and `fut` the registry of `NodeManager`, `wire` and
`replies` the messages in flight. `origin`, `sent` and the fields kept for a
deleted row are history.

* `ApproveLoad` / `ApproveWrite` are the two halves of `approve_proposal`: the
  status is checked in the first and written, without a condition, in the second.
* `RejectWrite` is the UPDATE of the reject endpoint and of `_do_cancel`.
* `DispatchLoad`, `DispatchClaim`, `SendRegister`, `SendWire`, `WaitResult`,
  `Persist`, `DispatchAudit` are the six steps of `_dispatch_approved_impl`, with
  `_send_intent` in the middle. The lock of the dispatcher is absent: `deps.py`
  builds a new dispatcher for each request.
* A disconnect cancels the registered futures; `WaitCancelled` ends the coroutine
  without persisting or auditing, because `CancelledError` is neither a
  `RuntimeError` nor a `TimeoutError`.
* `DatabaseLocked` is any of the statements of these coroutines that raises "database
  is locked" after `busy_timeout`: the claim's `BEGIN IMMEDIATE`, the approval, the
  rejection, the result, an audit entry. The coroutine ends there. `refused` is
  history: the proposals whose claim was refused.
* `Boot` reads the APPROVED rows without a `dispatch_id`; no worker can connect
  before start-up is over, so each of them is claimed and fails with "not
  connected". `BootLocked` is the same with that read refused: start-up goes on
  without it.
* `DeleteNode` and `DropDeleted` are the commit and the later removal of the
  connection in `delete_node`.

Actions have four classes: plain, destructive (admin only), protected (a
protected service), restart_container (its target must be resolved, which may
fail or be cancelled). The wording of errors, parameters and results, and the
demo branch, are left out. The audit entry of an INTENT_RESULT is written in the
same step as the resolution of the future; no property depends on the gap.

### Outbox

`entry` is `processed` (open 0, claimed 2, done or dead 1). A sweep reads its
batch once (`Select`), claims row by row (`Claim`), runs the handlers (`Handle`,
any outcome) and marks (`Mark`). `SweepRaises` is a statement that fails: the
loop in `lifespan.py` logs it and goes on 15 seconds later. `Replay` is
`replay_unprocessed`. Events enter through `_publish_outbox_event` of the hook
bus. No handler is registered in the repository today; the
model gives some event types one and leaves another without.

### Database

`tx`, `dirty` and `dlog` are what is open and uncommitted on a connection,
`writer` SQLite's write lock, `rows` and `chain` what is committed. A coroutine
runs a `transaction()` block with a row and an audit entry, an `execute` with a
`commit`, `log_action` alone, or `flush_metrics`. Waiting for the write lock is bounded by
`busy_timeout`: a write without the lock may wait or raise. SQLite itself is
external and modelled from its use: one writer, an implicit BEGIN before a write,
and a failed implicit write that leaves the transaction open. The pool gives
connections back without a rollback (`release`), so a request may receive one
with a transaction open. A member of `Streams` is the body of a chat stream:
`get_db` has given its connection back before it starts (`Stream`), so a request may
take that connection while the stream writes and commits on it. The field `clean`
remembers what a request was given: neither of the two.

`Background` coroutines share the primary connection and see each other's uncommitted
audit entries; those a rollback has taken away are in the history `unlogged`.

`metrics` is the buffer of the metrics plugin. `StatusReport` appends and pushes the
oldest snapshot out of a full buffer; one of the `Flushers`, which are background
coroutines, drains it (`Drain`), inserts, commits, and puts everything back in front
when the insert is refused (`Rebuffer`). `dropped`
and `undone` are history: snapshots a full buffer lost, rows a rollback took with it.

### Nodes

One action is again the code between two awaits that let others in. `node` is the
row (state `NONE` without one), `jt` and `wt` the token tables, `conn` the entry of
`_connections`: a session, nothing, or `Dead`, an entry whose handler has returned.
`task` holds the handlers (one per session), the administrator's request and the
monitor, each with its program counter and what it read earlier; `wk` the worker
processes with the tokens on their disks.

* `TransitionRead` and `TransitionWrite` are the two halves of `transition_state`,
  which every actor goes through.
* `CheckJoin`, `Challenge`, `EnrollCommit` are the first enrolment, `CheckReconnect`
  and `ReconnectCommit` the later ones; `Register`, `Success`, `Audit` end both.
* `Heartbeat`, `RotateCommit`, `RotateSend`, `Disconnected` are the operational loop,
  `Unregister` and `FinalState` the finally block.
* `SeeLost`, `DropLost`, `MarkStale` are a pass of the heartbeat monitor.
* `SetDisabled`, `SetFlag`, `Alive`, `PopAndClose`, `Delete`, `GenerateJoin`,
  `Regenerate`, `IssueJoin` are the endpoints; `Install`, `Dial`, `LinkDown` the worker.

A frame is delivered when it is sent over a live link and lost otherwise. `enrolls`
and `lost` are history; `lost` is set when a fresh token is not delivered, and when a
session rotates the node's newest token although another worker holds it.

### Updates

`disk` holds the four files every update uses: the staging file, the release file, the
executable and its backup; `marker` is `update_pending.json` with its age and count,
`proc` the process and its session, `job` the goroutines of accepted intents, which
outlive the session they came in. The pool of mutations is made anew by each session,
so two of them can run at a time.

* The staging file has one name for all (`worker-latest.tmp`). `FetchRelease` opens and
  truncates it, `StageRelease` writes it and compares the hash of what was
  *downloaded*, `StagingFails` removes it, whoever wrote it. `job.at` is the file a
  goroutine has open, which a rename moves and a removal detaches (`Moved`);
  `job.mixed` says that another wrote the same file meanwhile, and then what is left
  may be a truncated or mixed file (`Written`, `"part"`).
* `PromoteStagedRelease`, `Backup`, `OpenExecutable`, `CopyRelease`, `CopyFails` are the
  file operations of the promotion, with a kill possible between any two, and while
  the executable is being written.
* `Exit` and `Crash` end the process, the service manager starts the executable again.
  A `release` is good, crashing (starts and ends), mute (runs and never connects) or
  broken; `FirstStart` finds out which. The rollback check is the first thing in `main`,
  so `Start` and `CheckAndRollback` need `ReachesMain`: an executable that is missing,
  truncated or broken makes no check.
* `fleet` is the rollout for which this node is the canary.

`waived` records that the code itself gave up the safety net: the marker
could not be written, a session of the old process confirmed the update, or there
was no backup of the old binary.

### Queries

A slot is a call on the master (`mpc`) and the goroutine that serves it (`wpc`): the
one may end before the other. `flight` is `SingleFlight._in_flight`, `cache` whether
the stored list is fresh, `inflight` the marker of the background scan, `host` what
the actions are about. The semaphores belong to a session (`epoch`), so goroutines of
an old session do not count in the new one. The leader of a flight resumes its followers
(`Publish`) and pops its entry later, under the lock (`Pop`); a call that comes between
the two finds a done future and puts its own in its place. Listings and tails leave the
host alone; what they return is not modelled. Docker is external: it refuses to delete
a running container, because the worker asks with `force=false`.

### Plugins

`reg` is what is registered for the plugin (hook subscriptions, instance or
subprocess, scheduled tasks, routes), `state` the engine's entry, `row` the table,
`kill` the ids in the kill switch, `lock` the lock that only loads take. The plugin has
two ids: `id`, that of its manifest, and `stem`, that of its file. Registrations, row and
lock know one id, the engine's states every form; `disable_plugin` takes the id as the
route passes it, `enable_plugin` loads under the canonical one. A plugin is put in a
subprocess (`sandbox`), is `class_based`, or is a `legacy` module whose `register`
subscribes under the stem (`Subscriber`), which the namespace sweep accepts. A request is a
coroutine: `LoadEnter`, `LoadLocked`, `Prepare`, `SwapRegistry`, `CommitLoad` or
`FailLoad` for a load, the drain, `Unregister`, `Stopped`, `Persist` for an unload.
An upload may bring an archive, a batch applies one operation after the other and goes
on after an error, and a call to a sandboxed subprocess ends in an answer, an error or
a timeout.
`reg.left` counts the subscriptions that the engine's state does not account for
(`Forget`); the run bounds them with `MaxSubs`.

### Alerts

`rows` is the table in insertion order, `mem` the memory that mirrors it, `ev` the
evaluation that holds the engine's lock with the fires and resolutions it has left to
do: a function of the alerts, known when the lock is taken, because nobody else changes
the memory or the rows it reads while the lock is held and no alert reads another's
entry. The actions take the entries in any order, the code in the order of its rules. `Cancelled`, `CancelledAfterInsert` and `CancelledAfterUpdate` are the deadline of
the hook bus at the awaits of an evaluation; `acknowledge_alert`, `delete_node` and
`cleanup_old_alerts` change the table behind the engine. `orphan` and `silent` are
history: rows and entries that a failure separated. A metric takes the values below,
between and above the thresholds; names and comparison operators are the code's.

### Auth

`tokens` is the table in the order of issue; `gen` is the password that opened the
family. A request reads in one step and writes in another, as the code does without
a condition in between. `raced` marks what was written from outdated reads. A client
may present any token it was ever sent, at any time and in two tabs at once. `access`
is whether the access token is still good: logout and password change ask for it.

### Chat

`row` is the stored history as a sequence of exchanges, `view` what a tab shows and
sends along, `st` the streams (round, tool calls already made, the call asked for),
`an` the analyses (attempt and try; a diagnosis, or the profile of a node, whose age
and `_profiling_nodes` marker are in `profile`), `cb` the breaker. `behind` is what was stored
since a tab read the history. Several tool calls of one answer arrive as one, because
the accumulated calls carry no index (`chat_stream.py:315`): the model gives such an
answer a call that no tool has the name of.

## Runs

| Run | Bounds | Shows |
|---|---|---|
| `proposals` | 1 proposal, 1 node, 2 tasks, 1 crash | `TypeOK`, `AtMostOnce`, `ExecutedIsReal`, refinement of `HitlGate` (`GateHolds`), `ApprovedIsDispatched`, `EveryTaskEnds` |
| `decided` (violation) | the same | a rejected proposal is approved and sent: `DecidedIsFinal` fails |
| `outbox` | 3 events (1 without handler), 2 sweeps, batch 2, 2 retries, 1 failing statement, 1 crash | `SoleDispatcher`, `AtLeastOnce`, `EventuallySettled` |
| `database` | 1 request and 1 stream on 1 pooled connection, 2 background coroutines of which 1 may be a flush, 2 snapshots, buffer of 1 | `ChainIntact`, `WritesKept`, `EveryTaskEnds` |
| `nodes` | 2 workers, 2 sessions, 2 join tokens, 3 worker tokens, 1 administrator request, 1 crash | `JoinTokenOnce`, `RegistryAlive`, `LockoutOnlyByLoss` |
| `nodes_live` | 1 worker, 2 sessions, 1 join token, 2 worker tokens, 2 administrator requests (disable, then enable), no crash | `SessionsEnd` |
| `updates` | 2 intents, 2 starts before the rollback (5 in the code), 2 sessions per process | `Recoverable`, `CanaryGate`, `BadUndone` |
| `queries` | 2 calls at a time of 9 kinds, query pool of 1, 2 sessions | `InflightHeld`, `OneQuery`, `Settles` |
| `plugins` | 2 requests, 1 hook call, loads begun beside at most 1 subscription, any number of restarts | `NoDoubleLoad`, `RequestsEnd` |
| `alerts` | 1 node, 1 threshold with 4 values, all event alerts, 2 rows, 1 slot, 1 restart | `MemoryAgrees`, `ReservedExact` |
| `auth` | 2 requests, 4 tokens, 2 password changes, login limit 2 | `FamilyIsALine`, `CurrentPassword` |
| `chat` | 2 tabs, 1 analysis, 2 messages, history cap 1, 2 rounds, threshold, attempts and tries 2 | `StoredExchangeKept`, `ProbeFailureReopens`, `AllEnd` |

Every passing run also checks its module's type invariant (`TypeOK`, `DbTypeOK`,
`ChatTypeOK`; `nodes_live` leaves it to `nodes`). `Database` and `Chat` prefix the
names of their specification (`DbSpec`, `ChatSpec`), so that one module of proofs can
extend them beside `Outbox` and `Auth`.

What the properties say:

* `AtMostOnce`, `ExecutedIsReal`, `GateHolds`: an intent reaches a socket at most once,
  after an entitled approval, and EXECUTED means the worker ran it.
* `SoleDispatcher`, `AtLeastOnce`, `EventuallySettled`: overlapping sweeps never run an
  entry side by side; an entry is done only after its handlers returned or failed
  often enough; and it gets there.
* `ChainIntact`, `WritesKept`: a committed entry that is not chained to one a rollback
  took away has a number of its own, follows the one before, and passes
  `verify_chain`; a request that was given a clean connection leaves all of its writes
  or none; on a connection that is shared, by the background or by a stream, a row or
  a snapshot is lost only in the rollback of another coroutine, a snapshot otherwise
  only by a full buffer.
* `JoinTokenOnce`, `RegistryAlive`, `LockoutOnlyByLoss`, `SessionsEnd`: a join token enrols
  one machine, the registry names no handler that has returned, the worker whose key the
  row holds can authenticate unless a token was lost or taken by another session, and a
  session whose worker has gone ends.
* `Recoverable`, `BadUndone`, `CanaryGate`: whenever the executable is missing, truncated
  or a release that cannot work, marker and backup are there; a release that reaches
  `main` and crashes is replaced by the backup; the fleet follows only a canary that
  ran the new release.
* `Settles`, `InflightHeld`, `OneQuery`: calls, followers and goroutines end; the marker
  of a scan is set only while its call runs; a flight has one query under way, and
  whoever waits on it waits for a leader that has yet to resume it.
* `NoDoubleLoad`, `RequestsEnd`: one subscription per plugin beside those an unload or
  the start-up left behind, and requests end.
* `MemoryAgrees`, `ReservedExact`: no alert is invisible or mute by accident, and no
  slot of an investigation is lost.
* `FamilyIsALine`, `CurrentPassword`: one valid token per family and none of an old
  password, apart from requests that raced.
* `StoredExchangeKept`, `ProbeFailureReopens`, `AllEnd`: a stream never writes less
  than it could have read, a failed probe opens the circuit, everything ends.

Several of these name exceptions (`waived`, `orphan`, `silent`, `raced`, `behind`,
`cb.late`, `reg.left`, `lost`, `refused`, `unlogged`). Each is a flaw or a limit of the code, reachable in the
run, and the property says that it is the only one: widening the exception or
dropping the mechanism it qualifies is what the mutants do.

Why the bounds are enough. No statement of the dispatcher relates two proposals, so
one proposal carries all interference, and two tasks let an approval meet a
rejection, the expiry loop, another approval or the reconciliation;
`SentAtMostOnce` is proved for any number. In the outbox the batch is smaller than the
number of events, so a failing entry really stands in the way of others, and two
retries separate a retry from the cap. In the database run a stream and a request share
the pooled connection, one after the other or both at a time, and two background
coroutines meet on the primary one, where the rollback of one can take an entry the
other is about to chain to: the states `unlogged` is about are reached. Requests and
background coroutines run the same code, so a second request adds what the background
already does to the lock and the chain. A buffer of one and two snapshots make the
buffer overflow in both directions.
Two sessions and two workers are what a
replacement, a stolen join token and an old finally block need, and the third worker
token allows a rotation after a reconnection. Two update intents, of two
sessions of one process, overlap on the staging file, the executable and the backup;
two starts stand for the five of `rollback.go:84`, one that counts and one that rolls
back. A query pool of
one makes a scan queue behind a read. Two requests on a plugin let a load meet an
unload, and one hook call keeps a drain waiting. Two alert rows are what an
escalation or a lost entry needs, one slot is the limit of the investigations. Four
tokens are two families with a rotation each. Two failures open the breaker, which a
stream and an analysis reach together. With a cap of one exchange and two messages
the run overwrites histories, but never stores one that the cap has cut: what the cap
drops is covered by the theorem `StoredKept` alone, for any cap and any number of
messages.

Symmetry: workers and sessions in `nodes` and requests in `auth`, which are safety
runs and in which these sets are only compared. Deadlock is checked in
`proposals`, `plugins`, `alerts`, `auth` and `chat`. The other instances may stop: every
event settled, every coroutine over, tokens, sessions or epochs used up.

`MaxCrashes`, `MaxRaises`, `MaxEvents`, `MaxJoin`, `MaxTokens`, `MaxAdmin`, `MaxEpoch`,
`MaxRows`, `MaxReports`, `MaxChanges`, `MaxMessages` and `MaxSubs` bound the environment; `ShortMaxAge` allows an
administrator to set the maximum age of an intent below its timeout, which makes the
stale-intent clean-up race with a waiting caller.

Fairness. The event loop runs every ready coroutine; `asyncio.wait_for`,
`busy_timeout`, receive deadlines and batch limits bound every await; the service
manager restarts the master and systemd the worker (`Restart=always`): weak fairness
on the steps of running tasks, goroutines, sweeps and start-up. Strong fairness is
used twice, for `LoadLocked` (`asyncio.Lock` serves its waiters in order) and
`TakeSlot` (a Go channel serves its blocked senders in order). In `Updates` the
restart that is scheduled happens, the service manager starts what is there to start,
and a crashing release keeps crashing. Users, workers' answers,
messages and crashes have none, so no liveness property relies on a worker or a
model that answers. Three qualifications are part of the properties: profiling rows
keep APPROVED after a successful query, and rows whose claim a locked database refused
wait for the next start-up (`refused`), and both are excluded from
`ApprovedIsDispatched`; an entry whose sweep raised is excluded from
`EventuallySettled`.

## Findings

`decided`: `approve_proposal` writes APPROVED over a rejection that committed after
it read the row (and the reject and expiry paths overwrite APPROVED or EXECUTED),
against the transitions documented in `action_proposal.py`.

Other places where the code does less than it or its comments say. They are visible
in the models, as an exception of a property or as a reachable state:

* A disconnect during the wait skips the result and the INTENT_DISPATCH entry
  (`WaitCancelled`), against guarantee 3 of `proposal_dispatcher.py`.
* The claim of a dispatch opens a transaction (`proposal_dispatcher.py:162`) whose
  `BEGIN IMMEDIATE` (`database.py:232`) can raise "database is locked". The row stays
  APPROVED without a `dispatch_id` while the master is up, and only a restart
  dispatches it, unless the read of the start-up (`lifespan.py:190`) is refused too
  (`refused`).
* Retries break the order per aggregate that `process_pending` documents, and an
  exception in `_mark_processed` leaves the entry claimed until the next restart
  (`orphaned`).
* On the shared primary connection an audit entry can be chained to one that is
  rolled back: a `transaction()` block of one coroutine takes another's entry with it
  after a third has read it as the head. `verify_chain` then stops at an entry nobody
  has touched (`unlogged`).
* The chat endpoint returns a StreamingResponse whose body uses the connection of
  `get_db` (`chat_stream.py:465-466`, `521-548`). With the `fastapi==0.115.0` of
  `requirements.txt:1` the dependency (`api/deps.py:51`) is closed before the body runs,
  so the stream writes and commits on a connection that is back in the pool, possibly
  another request's: that request's rollback takes the stream's row, and the stream's
  commit publishes half of the request's transaction (`clean`).
* A session rotates the newest token of the node, not the one it was opened with
  (`worker_handler.py:664`): with two workers alive on one node, a heartbeat of the one
  revokes the token of the other and keeps the new one for itself (`lost`).
* A handshake that fails after ENROLLING leaves the node there; a disabled node can
  reconnect; `set_disabled` may leave flag and state in disagreement.
* A reconnect of the old worker process within the second before its restart
  confirms the update it has just installed (`waived`); overlapping updates replace
  the backup; `api/worker_binary.py:327` renames the binary before its checksum is
  written.
* Updates of two sessions share `worker-latest.tmp` (`staging.go:41`): the one truncates,
  mixes or removes what the other has staged, and since the hash is that of the bytes
  downloaded, not of the file, a truncated binary may be installed. The rollback check
  is made by the installed binary, in its `main` (`main.go:34`): a truncated binary, or
  one that does not start, never makes it, although marker and backup are there; one
  that starts and never connects makes it no second time before a restart, although
  `rollback.go:55` speaks of an update that "timed out without confirmation".
* A list of services read before an action may be stored after the invalidation
  that follows it, and counts as fresh.
* `disable_plugin(hard=True)` drains although its docstring says "no drain";
  `load_plugin` ignores the kill switch; uploading a plugin that is active deletes its
  file, because `load_plugin` refuses it; a failed load at start-up keeps its
  registrations, and an unload that waited for the tasks of one load removes the state
  entry of a later one but not its hooks, which then run twice or more (`reg.left`).
* `api/plugins.py:372` passes the id of the URL as it is. Disabling a plugin by the stem
  of its file removes its state, which goes by every form of the id
  (`plugin_engine.py:1289-1292`), but not its hooks, which go by the very id
  (1268-1269); enabling it again (1407) subscribes them twice, with no race
  (`reg.left`). The kill switch under the stem does not stop batch commands, which ask
  for the id. A legacy module that subscribes under its stem, as
  `test_s1_namespace_sweep.py:211` allows, keeps its hooks at every unload.
* An evaluation cancelled between commit and memory leaves a firing row nobody
  resolves (`orphan`); an acknowledgement is not told to the engine (`silent`); an
  investigation whose master stops stays `in_progress`.
* Two refreshes of one token both succeed, and a refresh that read its token before
  a password change or a logout survives it (`raced`).
* A success of an old call while the circuit is OPEN resets the count, after which
  one failed probe does not open it again (`cb.late`); two tabs overwrite each
  other's history (`behind`).
* Not modelled, found while reading: `core/node_manager.py:394` tests
  `cooldown_ok and not expired_time`, which is contradictory, so new containers are
  never detected; `core/insights.py:258` enters `database_session()` by hand and
  leaves the connection instead, which closes a pooled connection;
  `plugins/metrics/__init__.py:547` leaves a half-executed batch pending on the
  shared connection and puts all of its rows back, so that they fail on their own
  identifiers from then on; `api/chat_helpers.py:147-155` builds the fleet context with
  bare names (`row[cpu_percent]`, `n.get(name, ...)`), a `NameError` that leaves the
  request as soon as the fleet has a node.
* The plugin engine runs the metrics plugin from a second copy of its module, so the
  flush loop and the final flush of `lifespan.py` (346, 394) drain a buffer that stays
  empty. Snapshots reach the table only when somebody reads the history, against the
  "every 5s or upon 25 snapshots" of `plugins/metrics/__init__.py:501`; the model has
  the flush where it is called.

## Proofs

For every component a theorem `Invariance` (`Spec => []Inv`; `OutboxInvariance`,
`DbInvariance`, `AuthInvariance`, `ChatInvariance` where a module holds two) proves an
inductive invariant, from `Init => Inv` and `Inv /\ [Next]_vars => Inv'` with one lemma or
step per action, and the properties of the runs are derived from it. TLC checked each `Inv` on the run's
instance before it was proved. The theorems hold for every value of the constants that
satisfies the module's assumptions, which TLC evaluates in the runs; the constants that
bound the environment in the runs (`MaxCrashes`, `MaxTokens`, `MaxRows` ...) are any
natural numbers in the theorems.

| Module | Theorem | Property | Assumptions |
|---|---|---|---|
| `ProposalsProofs` | `TypeCorrect`, `SentAtMostOnce`, `Implements`, `OnlyRealExecutions` | `TypeOK`, `AtMostOnce`, `GateHolds`, `ExecutedIsReal` | each proposal has a node (`NodeOfAssumption`), `MaxAgeAssumption`, `MaxCrashAssumption` |
| `PersistenceProofs` (`Outbox`) | `OutboxTypeCorrect`, `DispatchedAlone`, `DeliveredAtLeastOnce`, `SettledForGood` | `TypeOK`, `SoleDispatcher`, `AtLeastOnce`, `NeverAgain` (theorem only) | positive sizes (`SizesAssumption`), `HandledAssumption` |
| `PersistenceProofs` (`Database`) | `DbTypeCorrect`, `WritesAreKept`, `ChainIsIntact`, `LogIsExtended` | `DbTypeOK`, `WritesKept`, `ChainIntact`, `OnlyExtended` (theorem only) | disjoint coroutines and connections (`DisjointAssumption`), distinct names (`NamesAssumption`), `BoundAssumption` |
| `NodesProofs` | `TypeCorrect`, `EnrolledOnce`, `RegistryNamesTheLiving`, `LockedOutByLossAlone` | `TypeOK`, `JoinTokenOnce`, `RegistryAlive`, `LockoutOnlyByLoss` | `BoundsAssumption`, distinct names (`NamesAssumption`) |
| `UpdatesProofs` | `TypeCorrect`, `AlwaysRecoverable`, `CanaryProtects` | `TypeOK`, `Recoverable`, `CanaryGate` | `BoundsAssumption` |
| `QueriesProofs` | `TypeCorrect`, `MarkerIsHeld`, `FlightHasOneQuery` | `TypeOK`, `InflightHeld`, `OneQuery` | `BoundsAssumption` |
| `PluginsProofs` | `TypeCorrect`, `SubscribedOnce` | `TypeOK`, `NoDoubleLoad` | `BoundsAssumption`, `NamesAssumption` |
| `AlertsProofs` | `TypeCorrect`, `MemoryMirrorsTheTable`, `SlotsAreCounted` | `TypeOK`, `MemoryAgrees`, `ReservedExact` | `BoundsAssumption`, distinct names (`NamesAssumption`) |
| `SessionProofs` (`Auth`) | `AuthTypeCorrect`, `FamiliesAreLines`, `OnlyTheCurrentPassword` | `TypeOK`, `FamilyIsALine`, `CurrentPassword` | `BoundsAssumption`, `NoneAssumption` |
| `SessionProofs` (`Chat`) | `ChatTypeCorrect`, `StoredKept`, `ProbeReopens` | `ChatTypeOK`, `StoredExchangeKept`, `ProbeFailureReopens` | positive bounds, disjoint tools (`ChatAssumption`) |

### The human gate

`AtMostOnce` is not inductive: after a claim, `sent` is still 0 and nothing in it says
that a second task may not send too. `Inv` adds:

* `ClaimInv`: at most one task stands between the claim of a proposal and its
  send; it holds a claimed row (or is the profiling task that inserted it), and
  nothing has been sent yet;
* `RowInv`: a row that was sent is claimed or is a profiling row;
* `TaskInv`: which kinds of task may hold a row of which origin. A profiling row is
  never claimed while the master runs, because approvals read PENDING rows only and
  those come from the chat;
* `BootInv`: start-up runs alone and before any worker is connected, so the
  reconciliation, the only path that dispatches a profiling row again, never
  reaches the socket;
* `ReplyInv`: a reply follows an execution.

Most actions leave the claim alone: `QuietStep` and `StillStep` prove the preservation
once for a step that moves one task outside that window and for one that moves none.

`Implements` is the refinement `Spec => Gate!GateSpec`: `Init` maps to `GateInit`, and
every step maps to an approval or a delivery of the gate, or to a stutter. The
mapping alone does not give that. `GateInv` adds that a request past the checks of the
approve endpoint belongs to a user who may approve the row's action (`ApproverOK`),
that whatever is approved, claimed or inserted by an administrator or by the profiling
code has an approver (`ApprovalOK`), and that the worker ran what a resolved future, a
result on its way to the table, or the table says it ran (`DeliveryOK`, `ResultOK`).
`OnlyRealExecutions` is its last conjunct.

### Outbox

An entry that can still be handed out has a retry left, and no row was failed more
often than its handlers ran (`RetryInv`); what a sweep is about to mark is backed by
what the handlers did (`MarkInv`); no sweep outlives the master (`DownAsleep`), so that
the replay, which opens claimed entries again, takes none out of a sweep's hands.
`SettledForGood` follows: `_mark_processed` updates its row without a condition, but the
row in a sweep's hands is claimed (`SoleDispatcher`), so an entry that was put away is
neither opened nor handled again, by overlapping sweeps or after a crash.

### Node life cycle

The lockout property needs to know where every WORKER_TOKEN is. `PlaceInv`: a token is
undelivered in one handler's hands or with one worker, and only that worker presents
it. `SessInv`: a worker is connected to a handler that serves it, and a handler has a
fresh token in hand exactly from its commit to its delivery. `ReplacedInv`: a token
revoked in a handler's hands by a deletion does not replace a valid one. The proof
attempt found the rotation by another worker's session listed under Findings: without
it in `lost`, `LockoutOnlyByLoss` has a counterexample with two workers. `JoinInv` is
the inductive form of `JoinTokenOnce`.

### Updates

`NetInv` follows the files through the installation, unless the safety net was given up:
a goroutine that marked itself has its marker still; at most one has moved the
executable away, it was the old binary, and marker and backup are there; what that one
copies goes to the executable. `WriterInv` is what makes the shared staging file
harmless for this: a download that goes on in a renamed or removed file writes
neither the executable nor the backup. `ProcInv` and `RowInv` say that neither sessions
nor goroutines outlive the process and that the master learns the new version only
from a session of a release that works, which is all `CanaryGate` needs.

### Queries

`MarkerInv`: the in-flight marker is set exactly while one call of `trigger_disk_scan`
runs, and never a second, whose return would release the first one's marker.
`FlightInv` is `OneQuery` and its converse: the entry of a flight names a leader that
asks, or that has resumed its followers and is about to pop it. So a call that replaces
the entry finds nobody waiting on the old leader, and the old leader's pop leaves the
new entry alone.

### Plugins

Loads take the lock, unloads do not. `LockInv`: a request between the second look of
`load_plugin` and its end, the unload of a failed load included, is the one that holds
the lock. `LookInv`: meanwhile nobody else makes the plugin active, so what the second
look saw still holds when the hooks are subscribed. `OwnerInv`: a subscription that is
not left over belongs to the active plugin, to the load under way, or to a failed load
that has yet to unregister. An unload under an id the
hooks are not subscribed under takes the state and leaves the hooks: `Forget` makes
them left over at that step, so the subscriptions with an owner are never more than
one. `reg.left` has to be a number: each round of disabling by the stem and enabling
again leaves one subscription more, so a fixed bound is no theorem.

### Alerts

`EvInv`: an evaluation plans to resolve active alerts only, and keeps them active while
it holds the lock. `PlaceInv`: the entry of an alert is a row of that alert, so two
alerts never share a row. `InvInv`: an investigation has a row. `OffInv`: memory and
evaluation end with the process. `MemoryAgrees` and `ReservedExact` are inductive next
to these four; the slots are counted with `FiniteSetTheorems`.

### Authentication

What a request has read was issued before (`RequestInv`), families are numbered by the
tokens that opened them (`TableInv`), and the tokens outside `raced` form one line per
family, none in a stolen family, all of the current password (`LineInv`). The lemmas
`RevokeFamilyMarks`, `RevokeUserMarks` and `RetireMarks` say what the three UPDATEs do
to a table of any length.

### Chat and circuit breaker

The exchange at position `i` of a history is message `i` or a later one (`History`), and
the base of a stream is a history of the messages before its own, so a stored history
never outgrows the messages there have been, though a stream stores what it started
from and not what is stored by then.
`KnowledgeInv` is what `StoredExchangeKept` needs: what is stored was stored behind a
tab's back (`behind`) or is in the tab's view, if that is not empty nor longer than the
cap, and in the base of its stream. `BreakerOK`: a breaker that is not
CLOSED has counted to its threshold, unless a success of an earlier call came in
late (`cb.late`). A failed probe then reopens it, whatever calls were admitted beside it.
The invariant is a conjunction of three parts on disjoint variables (`SessionInv`,
`AnalysisInv`, `BreakerOK`), each with its own step lemmas.

### Connections

`ConnInv`: what is uncommitted on a connection is there because the connection holds
SQLite's write lock. `Placed` says which code a coroutine runs and where: requests and
streams on pooled connections, the background on the primary one. `Apart`: no other
request, and no stream, is on the connection of a clean request. What a stream wrote is
pending on its connection, stored, or was undone (`StreamOK`).
`WritesKept` says something of a request only when it is over, so the invariant
follows it there: a clean request in a `transaction()` block owns the transaction and
the write lock from BEGIN on and finds `in_trans` true in `log_action` (`CleanTx`),
so that its audit entry is committed with the block and never before; what it has
written is pending on its connection until the commit (`CleanOther`), and nothing
carries its name elsewhere (`Trace`). `Effect` bounds what a step may do to the storage;
`OthersOK` proves once that such a step keeps every other coroutine's part. The
snapshots are followed from the buffer through a flush's hands to the table (`Safe`),
with lemmas on the elements of sequences (`AppendSet`, `TailSet`, `ConcatSet`,
`SplitSet`) for the full buffer and for the flush that puts its snapshots back.

### Audit log

`ChainInv`: the committed log, and what every connection sees of it, is a `Line` up to
the undone entries: no number twice, and every entry follows the one before it, or is
chained to an entry in `unlogged` (`LinesInv`); and so would what a coroutine is about
to insert (`HeadsInv`). An insert whose number is free prolongs the line, a commit
publishes the line its connection sees, and a rollback takes entries from a line and
puts their names in `unlogged`, which is what the entries after them and the heads
that were read of them need. The proof never uses `_audit_lock`: the
`UNIQUE(sequence)` of the table and SQLite's write lock keep the chain intact, and
the lock only spares retries.

`ChainIsIntact` has no hypothesis on who shares a connection: any number of background
coroutines, requests and streams. `LogIsExtended` adds that commits publish the entries
in the order of their numbers. The only exception is a number that an undone entry has
left free below an entry chained to it (`GapBefore`).

### Only model-checked

* Every liveness property (`ApprovedIsDispatched`, `EveryTaskEnds`,
  `EventuallySettled`, `SessionsEnd`, `BadUndone`, `Settles`, `RequestsEnd`, `AllEnd`):
  fairness and ENABLED are beyond the prover.

There is no other: every safety property of the passing runs, `GateHolds` and the action
properties included, is the property of a theorem, under the constants' assumptions
alone.

There is no RECURSIVE operator in any module.

## Plan

Done: inventory; all modules above; the safety properties of all of them as
theorems. What could come next:

1. the `plugin_lifecycle.py` and `PluginManager` of the repository, once the engine
   drives them;
2. the four hazards without a property (`PROJECT.json`), each an exception or a
   finding today;
3. the retention of metrics and the event bus, which no property needs so far.

## Not modelled

* Cryptography (hashes are unique, signatures are part of what an actor can
  present), the text of prompts and answers, the contents of listings and profiles,
  insight arithmetic, cron matching.
* The retention of metrics, the event bus, the policy engine, schema migrations.
* Code that nothing calls: `api/nodes_management.py` (not mounted),
  `plugin_lifecycle.py` and `PluginManager` (not driven by the engine),
  `core/chat_engine.py`, `PluginRateLimiter`, `NodeManager.lockdown`,
  `cleanup_orphaned_alerts`, and the worker's `policy`, `execution` and `capabilities`.
* Plugins whose manifest has an id that is not canonical, and the copy of the backup
  during a rollback, which goes to a file of its own before the rename.
* REST read endpoints, demo mode, plex, the frontend, TLS and deployment.
