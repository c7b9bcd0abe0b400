------------------------------- MODULE Database -------------------------------
(***************************************************************************)
(* SQLite connections as the master uses them (db/database.py) and the     *)
(* hash-chained audit log written through them (core/audit.py).            *)
(*                                                                         *)
(* A request takes a connection of the pool; the body of a chat stream     *)
(* goes on with one that the pool has taken back; the worker sockets and   *)
(* the background loops all use the primary connection.  A coroutine runs  *)
(* one of four pieces of code: a transaction() block that writes a row and *)
(* an audit entry, an execute() followed by commit(), log_action() alone,  *)
(* or flush_metrics(), which moves the buffered snapshots of the metrics   *)
(* plugin to their table.  SQLite has one writer at a time, and opens a    *)
(* transaction by itself before a write outside one.  An action is what    *)
(* happens between two awaits.                                             *)
(***************************************************************************)
EXTENDS Naturals, FiniteSets, SequencesExt

CONSTANTS
  Requests,    \* coroutines with a pooled connection
  Streams,     \* bodies of chat streams, which outlive the hold of their request
  Background,  \* coroutines on the primary connection
  Flushers,    \* the ones among them that may be a call of flush_metrics
  Pool,        \* pooled connections
  Primary,     \* the primary connection
  Genesis,     \* the hash before the first entry
  BufferCap,   \* maxlen of _metrics_buffer
  MaxReports,  \* bound on the status reports of the workers
  Free         \* a lock that nobody holds

Tasks == Requests \cup Streams \cup Background
Snapshots == 1..MaxReports
Rows  == Tasks \cup Snapshots   \* what is written: a task's row, or a snapshot's
Conns == Pool \cup {Primary}

ASSUME DisjointAssumption ==
  /\ Primary \notin Pool
  /\ Requests \cap Background = {} /\ Streams \cap (Requests \cup Background) = {}
  /\ Flushers \subseteq Background
ASSUME BoundAssumption == BufferCap \in Nat \ {0} /\ MaxReports \in Nat
ASSUME NamesAssumption ==
  Genesis \notin Tasks /\ Free \notin Tasks \cup Conns /\ Tasks \cap Snapshots = {}

VARIABLES
  tx,      \* is a transaction open on the connection (in_transaction)?
  dirty,   \* its uncommitted rows, by the task that wrote them
  dlog,    \* its uncommitted audit entries
  writer,  \* the connection that holds SQLite's write lock
  rows,    \* committed rows
  chain,   \* committed audit entries
  alock,   \* the holder of _audit_lock
  task,    \* code, next step, connection, owner of the transaction?, in_trans,
           \* the chain head read, whether the connection came clean, and the
           \* snapshots a flush has taken from the buffer
  metrics  \* _metrics_buffer, the snapshots received and the ones a full buffer
           \* has dropped; history: the rows and the audit entries (by the task
           \* that wrote them) that a rollback has undone

connVars == <<tx, dirty, dlog, writer>>
dbVars   == <<tx, dirty, dlog, writer, rows, chain, alock, task, metrics>>

\* An entry's hash covers its content, so it is as unique as the entry.
Entry == [seq : Nat, id : Tasks, prev : Tasks \cup {Genesis}]

Steps    == {"new", "enter", "begin", "write", "commit", "in_trans", "lock", "head",
             "insert", "log_commit", "exit", "drain", "ok", "raised"}
TaskType == [kind : {"none", "tx", "stmt", "log", "flush"}, pc : Steps, conn : Conns,
             own : BOOLEAN, inTrans : BOOLEAN, seq : Nat, prev : Tasks \cup {Genesis},
             clean : BOOLEAN, items : Seq(Snapshots)]

(* Every variable has its declared shape, and what is uncommitted is       *)
(* uncommitted on the connection that holds the write lock.                *)
DbTypeOK ==
  /\ tx \in [Conns -> BOOLEAN]
  /\ dirty \in [Conns -> SUBSET Rows]
  /\ dlog \in [Conns -> SUBSET Entry]
  /\ writer \in Conns \cup {Free}
  /\ rows \in SUBSET Rows
  /\ chain \in SUBSET Entry
  /\ alock \in Tasks \cup {Free}
  /\ task \in [Tasks -> TaskType]
  /\ metrics \in [buffer : Seq(Snapshots), received : 0..MaxReports,
                  dropped : SUBSET Snapshots, undone : SUBSET Rows,
                  unlogged : SUBSET Tasks]
  /\ Len(metrics.buffer) <= BufferCap
  /\ \A c \in Conns : /\ writer = c => tx[c]
                      /\ writer # c => dirty[c] = {} /\ dlog[c] = {}

Unborn == [kind |-> "none", pc |-> "new", conn |-> Primary, own |-> FALSE, inTrans |-> FALSE,
           seq |-> 0, prev |-> Genesis, clean |-> TRUE, items |-> <<>>]

DbInit ==
  /\ tx = [c \in Conns |-> FALSE]
  /\ dirty = [c \in Conns |-> {}] /\ dlog = [c \in Conns |-> {}]
  /\ writer = Free
  /\ rows = {} /\ chain = {}
  /\ alock = Free
  /\ task = [t \in Tasks |-> Unborn]
  /\ metrics = [buffer |-> <<>>, received |-> 0, dropped |-> {},
               undone |-> {}, unlogged |-> {}]

-----------------------------------------------------------------------------
(* SQLite *)

On(t)     == task[t].conn
\* A coroutine that has ended keeps its kind and its outcome alone.
Goto(t, pc) ==
  task' = [task EXCEPT ![t] =
             IF pc \in {"ok", "raised"} THEN [Unborn EXCEPT !.kind = task[t].kind, !.pc = pc, !.clean = task[t].clean]
                                        ELSE [@ EXCEPT !.pc = pc]]
Active(t) == task[t].pc \notin {"new", "ok", "raised"}

\* Everything pending on the connection is committed, whoever wrote it.
CommitRows(c)  == rows \cup dirty[c]
CommitChain(c) == chain \cup dlog[c]
CloseKeepsLock(c) ==
  /\ tx' = [tx EXCEPT ![c] = FALSE]
  /\ dirty' = [dirty EXCEPT ![c] = {}] /\ dlog' = [dlog EXCEPT ![c] = {}]
  /\ UNCHANGED writer
Close(c) ==
  /\ tx' = [tx EXCEPT ![c] = FALSE]
  /\ dirty' = [dirty EXCEPT ![c] = {}] /\ dlog' = [dlog EXCEPT ![c] = {}]
  /\ writer' = IF writer = c THEN Free ELSE writer
Commit(c)   == rows' = CommitRows(c) /\ chain' = CommitChain(c) /\ Close(c)
Rollback(c) == /\ UNCHANGED <<rows, chain>> /\ Close(c)
               /\ metrics' = [metrics EXCEPT !.undone   = @ \cup dirty[c],
                                          !.unlogged = @ \cup {e.id : e \in dlog[c]}]

\* The write lock: free, ours, or waited for up to busy_timeout.
CanWrite(c) == writer \in {Free, c}
\* The implicit BEGIN of a write.
Write(c) == tx' = [tx EXCEPT ![c] = TRUE] /\ writer' = c

FailsNoRollback(t) ==
  /\ Goto(t, "raised")
  /\ alock' = IF alock = t THEN Free ELSE alock
  /\ UNCHANGED <<connVars, rows, chain, metrics>>

\* An exception leaves a coroutine: transaction() rolls back the transaction it
\* opened, if one is open still; nothing else does, the pool included.
Fails(t) ==
  /\ Goto(t, "raised")
  /\ alock' = IF alock = t THEN Free ELSE alock
  /\ IF task[t].kind = "tx" /\ task[t].own /\ tx[On(t)]
       THEN Rollback(On(t))
       ELSE UNCHANGED <<connVars, rows, chain, metrics>>

\* A write that cannot have the lock: its implicit BEGIN stays open, unless a
\* transaction() block owns the transaction and rolls it back.  Nothing is
\* uncommitted on a connection without the lock.
BusyFails(t) ==
  /\ Goto(t, "raised")
  /\ alock' = IF alock = t THEN Free ELSE alock
  /\ tx' = [tx EXCEPT ![On(t)] = ~(task[t].kind = "tx" /\ task[t].own)]
  /\ UNCHANGED <<dirty, dlog, writer, rows, chain>>

-----------------------------------------------------------------------------
(* A coroutine gets its connection *)

FirstStep(kind) ==
  CASE kind = "tx" -> "enter" [] kind = "stmt" -> "write" [] kind = "log" -> "in_trans"
    [] kind = "flush" -> "drain"

\* A request's comes clean: no transaction is open on it, no stream uses it on.
Streaming(c) == \E s \in Streams : Active(s) /\ On(s) = c

Bind(t, c, kind) ==
  /\ task[t].pc = "new"
  /\ task' = [task EXCEPT ![t] = [@ EXCEPT !.kind = kind, !.pc = FirstStep(kind), !.conn = c,
                                           !.clean = t \in Requests => ~tx[c] /\ ~Streaming(c)]]
  /\ UNCHANGED <<connVars, rows, chain, alock, metrics>>

\* database_session: a pooled connection that no request holds.
InPool(c) == \A u \in Requests : Active(u) => On(u) # c
Acquire(t, c, kind) ==
  /\ t \in Requests /\ c \in Pool
  /\ InPool(c)
  /\ Bind(t, c, kind)

\* The chat endpoint returns its StreamingResponse: get_db is over and the
\* connection back in the pool before the body runs, which writes with it.
Stream(t, c) ==
  /\ t \in Streams /\ c \in Pool
  /\ InPool(c)
  /\ Bind(t, c, "stmt")

\* get_db_conn outside a request.
Ambient(t, kind) == Bind(t, Primary, kind)

-----------------------------------------------------------------------------
(* The buffer of the metrics plugin.  The flush loop and the shutdown drain  *)
(* the buffer of the module that lifespan imported; the plugin engine runs   *)
(* the plugin from a second copy of it, whose buffer only a query of the     *)
(* history drains.                                                           *)

\* appendleft, with the newest pushed out of a full deque
Rebuffer(t) ==
  LET all == task[t].items \o metrics.buffer
      n   == IF Len(all) > BufferCap THEN BufferCap ELSE Len(all)
  IN metrics' = [metrics EXCEPT !.buffer = SubSeq(all, 1, n),
                                !.dropped = @ \cup ToSet(SubSeq(all, n + 1, Len(all)))]

\* append, with the oldest pushed out of a full deque
Buffered(m, s) ==
  IF Len(m.buffer) < BufferCap THEN [m EXCEPT !.buffer = Append(@, s)]
  ELSE [m EXCEPT !.buffer = Append(Tail(@), s), !.dropped = @ \cup {Head(m.buffer)}]

\* A valid STATUS_REPORT; one that does not validate is rejected.
StatusReport ==
  /\ metrics.received < MaxReports
  /\ metrics' = [Buffered(metrics, metrics.received + 1) EXCEPT !.received = @ + 1]
  /\ UNCHANGED <<connVars, rows, chain, alock, task>>

\* get_metrics_history flushes before it reads.
get_metrics_history(t) == Ambient(t, "flush")

\* flush_metrics: the buffer is emptied under its lock.
Drain(t) ==
  /\ task[t].pc = "drain"
  /\ task' = [task EXCEPT ![t].items = metrics.buffer,
                          ![t].pc = IF metrics.buffer = <<>> THEN "ok" ELSE "write"]
  /\ metrics' = [metrics EXCEPT !.buffer = <<>>]
  /\ UNCHANGED <<connVars, rows, chain, alock>>

-----------------------------------------------------------------------------
(* transaction(db) *)

\* if db.in_transaction: yield
Enter(t) ==
  /\ task[t].pc = "enter"
  /\ Goto(t, IF tx[On(t)] THEN "write" ELSE "begin")
  /\ UNCHANGED <<connVars, rows, chain, alock, metrics>>

\* BEGIN IMMEDIATE
Begin(t) ==
  /\ task[t].pc = "begin"
  /\ ~tx[On(t)] /\ CanWrite(On(t))
  /\ task' = [task EXCEPT ![t] = [@ EXCEPT !.pc = "write", !.own = TRUE]]
  /\ Write(On(t))
  /\ UNCHANGED <<dirty, dlog, rows, chain, alock, metrics>>

\* ... while another coroutine has opened one here, or held the lock too long.
BeginRaises(t) ==
  /\ task[t].pc = "begin"
  /\ tx[On(t)] \/ ~CanWrite(On(t))
  /\ Fails(t)

\* executemany of a flush, or one row of the task's own
Written(t) == IF task[t].kind = "flush" THEN ToSet(task[t].items) ELSE {t}

\* A statement of the block, or the one before a plain commit().
Execute(t) ==
  /\ task[t].pc = "write" /\ CanWrite(On(t))
  /\ Write(On(t))
  /\ dirty' = [dirty EXCEPT ![On(t)] = @ \cup Written(t)]
  /\ Goto(t, IF task[t].kind = "tx" THEN "in_trans" ELSE "commit")
  /\ UNCHANGED <<dlog, rows, chain, alock, metrics>>

\* "database is locked" after busy_timeout.
ExecuteBusy(t) ==
  /\ task[t].pc = "write" /\ ~CanWrite(On(t))
  /\ BusyFails(t)
  /\ IF task[t].kind = "flush" THEN Rebuffer(t) ELSE UNCHANGED metrics

\* The code of the block raises (a refused token, a constraint).
BlockRaises(t) ==
  /\ task[t].kind = "tx" /\ task[t].pc \in {"write", "in_trans", "exit"}
  /\ Fails(t)

Exit(t) ==
  /\ task[t].pc = "exit"
  /\ Goto(t, "ok")
  /\ IF task[t].own THEN Commit(On(t)) ELSE UNCHANGED <<connVars, rows, chain>>
  /\ UNCHANGED <<alock, metrics>>

\* await db.commit()
PlainCommit(t) ==
  /\ task[t].pc = "commit"
  /\ Goto(t, "ok")
  /\ Commit(On(t))
  /\ UNCHANGED <<alock, metrics>>

-----------------------------------------------------------------------------
(* log_action *)

ReadInTrans(t) ==
  /\ task[t].pc = "in_trans"
  /\ task' = [task EXCEPT ![t] = [@ EXCEPT !.pc = "lock", !.inTrans = tx[On(t)]]]
  /\ UNCHANGED <<connVars, rows, chain, alock, metrics>>

AuditLock(t) ==
  /\ task[t].pc = "lock" /\ alock = Free
  /\ alock' = t
  /\ Goto(t, "head")
  /\ UNCHANGED <<connVars, rows, chain, metrics>>

\* What a connection sees: the committed entries and its own.
Visible(c)  == chain \cup dlog[c]
IsHead(e, c) == e \in Visible(c) /\ \A d \in Visible(c) : d.seq <= e.seq

ReadHead(t) ==
  /\ task[t].pc = "head"
  /\ \/ /\ Visible(On(t)) = {}
        /\ task' = [task EXCEPT ![t] = [@ EXCEPT !.pc = "insert", !.seq = 1, !.prev = Genesis]]
     \/ \E e \in Visible(On(t)) :
          /\ IsHead(e, On(t))
          /\ task' = [task EXCEPT ![t] = [@ EXCEPT !.pc = "insert", !.seq = e.seq + 1, !.prev = e.id]]
  /\ UNCHANGED <<connVars, rows, chain, alock, metrics>>

\* UNIQUE(sequence)
TakenNever(t) == FALSE
Taken(t) == \E e \in Visible(On(t)) : e.seq = task[t].seq

\* INSERT INTO audit_log, then the lock is left unless a commit follows.
CommitsSelf(t) == ~task[t].inTrans

Insert(t) ==
  /\ task[t].pc = "insert" /\ CanWrite(On(t)) /\ ~Taken(t)
  /\ Write(On(t))
  /\ dlog' = [dlog EXCEPT ![On(t)] =
                @ \cup {[seq |-> task[t].seq, id |-> t, prev |-> task[t].prev]}]
  /\ Goto(t, IF CommitsSelf(t) THEN "log_commit" ELSE IF task[t].kind = "tx" THEN "exit" ELSE "ok")
  /\ alock' = IF CommitsSelf(t) THEN alock ELSE Free
  /\ UNCHANGED <<dirty, rows, chain, metrics>>

\* The number was taken meanwhile: sleep and read the head again.  The implicit
\* BEGIN keeps the write lock, so one retry is enough.
InsertRetry(t) ==
  /\ task[t].pc = "insert" /\ CanWrite(On(t)) /\ Taken(t)
  /\ tx[On(t)] => writer = On(t)
  /\ Write(On(t))
  /\ Goto(t, "head")
  /\ UNCHANGED <<dirty, dlog, rows, chain, alock, metrics>>

\* "database is locked": another writer for too long, or, in a transaction left
\* open without the lock, a snapshot that is out of date.
InsertBusyEndless(t) == FALSE
InsertBusy(t) ==
  /\ task[t].pc = "insert"
  /\ \/ ~CanWrite(On(t))
     \/ tx[On(t)] /\ writer # On(t) /\ Taken(t)
  /\ BusyFails(t)
  /\ UNCHANGED metrics

LogCommit(t) ==
  /\ task[t].pc = "log_commit"
  /\ Commit(On(t))
  /\ alock' = Free
  /\ Goto(t, IF task[t].kind = "tx" THEN "exit" ELSE "ok")
  /\ UNCHANGED metrics

-----------------------------------------------------------------------------
TaskStep(t) ==
  \/ Enter(t) \/ Begin(t) \/ BeginRaises(t) \/ Execute(t) \/ ExecuteBusy(t)
  \/ BlockRaises(t) \/ Exit(t) \/ PlainCommit(t)
  \/ ReadInTrans(t) \/ AuditLock(t) \/ ReadHead(t)
  \/ Insert(t) \/ InsertRetry(t) \/ InsertBusy(t) \/ LogCommit(t) \/ Drain(t)

TaskStart(t) ==
  \/ \E kind \in {"tx", "stmt", "log"} :
       \/ \E c \in Pool : Acquire(t, c, kind)
       \/ t \in Background /\ Ambient(t, kind)
  \/ \E c \in Pool : Stream(t, c)
  \/ t \in Flushers /\ get_metrics_history(t)

DbNext ==
  \/ \E t \in Tasks : TaskStep(t) \/ TaskStart(t)
  \/ StatusReport

(***************************************************************************)
(* Every await ends: the event loop runs ready coroutines and busy_timeout *)
(* bounds the wait for the write lock.                                     *)
(***************************************************************************)
DbFairness == \A t \in Tasks : WF_dbVars(TaskStep(t))

DbSpec == DbInit /\ [][DbNext]_dbVars /\ DbFairness

-----------------------------------------------------------------------------
(* Properties *)

\* verify_chain over the last n entries: each carries the hash of the entry
\* before it in the log, and the first one, if it has number 1, the genesis.
LastEntries(n) == {e \in chain : Cardinality({d \in chain : d.seq > e.seq}) < n}
Breaks(e, n) ==
  \/ e.seq = 1 /\ e.prev # Genesis
  \/ \E d \in LastEntries(n) : /\ d.seq < e.seq /\ e.prev # d.id
                               /\ \A f \in chain : f.seq <= d.seq \/ f.seq >= e.seq

(***************************************************************************)
(* Coroutines on one connection see each other's uncommitted entries, so   *)
(* an entry may be chained to one that a rollback then takes away.  That   *)
(* is all that ever breaks the log: every other committed entry has a      *)
(* number of its own, follows the entry with the number before, and passes *)
(* verify_chain, however many entries it walks and whatever transactions   *)
(* overlap, commit or roll back.                                           *)
(***************************************************************************)
ChainIntact ==
  \A e \in chain :
    /\ \A d \in chain : d.seq = e.seq => d = e
    /\ e.prev \notin metrics.unlogged =>
         /\ e.seq = 1 \/ \E d \in chain : d.seq + 1 = e.seq
         /\ \A n \in 1..Cardinality(chain) : e \in LastEntries(n) => ~Breaks(e, n)

(***************************************************************************)
(* A coroutine gets what it expects.  A request that was given a           *)
(* connection without an open transaction, and that no stream uses on:     *)
(* success means its row and audit entry are committed, a failed           *)
(* transaction() block leaves nothing behind.  On a connection that is     *)
(* shared, by the background or by a stream, a row or snapshot that was    *)
(* written is lost only in the rollback of another coroutine, and a        *)
(* snapshot that was received otherwise only by a full buffer.             *)
(***************************************************************************)
Logged(t) == \E e \in chain : e.id = t
Held(t)   == IF task[t].kind = "flush" /\ task[t].pc = "write" THEN ToSet(task[t].items) ELSE {}
Somewhere == rows \cup dirty[Primary] \cup metrics.undone
WritesKept ==
  /\ \A t \in Requests : task[t].clean =>
       /\ task[t].pc = "ok" => /\ task[t].kind \in {"tx", "stmt"} => t \in rows
                               /\ task[t].kind \in {"tx", "log"} => Logged(t)
       /\ task[t].pc = "raised" /\ task[t].kind = "tx" => t \notin rows /\ ~Logged(t)
  /\ \A t \in Streams : task[t].pc = "ok" => t \in rows \cup metrics.undone
  /\ \A t \in Background :
       task[t].pc = "ok" /\ task[t].kind \in {"tx", "stmt"} => t \in Somewhere
  /\ 1..metrics.received \subseteq Somewhere \cup metrics.dropped \cup ToSet(metrics.buffer)
                                \cup UNION {Held(t) : t \in Flushers}

(***************************************************************************)
(* The audit lock and SQLite's write lock are taken in both orders, yet    *)
(* every coroutine ends: busy_timeout breaks the cycle.  Each runs once,   *)
(* so this is said of all of them together.                                *)
(***************************************************************************)
EveryTaskEnds == []<>(\A t \in Tasks : ~Active(t))
===============================================================================
