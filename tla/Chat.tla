-------------------------------- MODULE Chat --------------------------------
(***************************************************************************)
(* The assistant: the streams that answer the messages of one chat session *)
(* opened in several browser tabs, their rounds of model calls and tool    *)
(* calls, the circuit breaker the model client shares between them, and    *)
(* the history of the session, which every stream reads at its start and   *)
(* writes back as a whole at its end.  A tool either reads from the worker *)
(* or records a proposal that waits for an operator.  Profile generations  *)
(* and diagnoses of a node run beside the streams and call the same model  *)
(* through the same breaker, with retries, and do without it if they must; *)
(* the node keeps the profile that was stored last.                        *)
(***************************************************************************)
EXTENDS Naturals, Sequences, FiniteSets, SequencesExt

CONSTANTS
  Tabs,          \* the tabs, one stream each at a time
  ReadTools,     \* tool calls, by name and arguments, that query the worker,
                 \* or that no tool has the name of
  WriteTools,    \* tool calls that need an approval
  Analyses,      \* slots for the analyses of one node that run at a time
  Nothing,
  Rounds,        \* the rounds of one stream (range(5))
  Threshold,     \* failure_threshold of the breaker
  Attempts,      \* default_max_attempts of a structured answer
  Tries,         \* max_retries of one request
  HistoryCap,    \* MAX_HISTORY_SIZE, in exchanges
  MaxMessages    \* bound on the messages ever sent

ASSUME ChatAssumption ==
  /\ {Rounds, Threshold, Attempts, Tries, HistoryCap, MaxMessages} \subseteq Nat \ {0}
  /\ ReadTools \cap WriteTools = {}

VARIABLES
  row,     \* chat_sessions.history_json as exchanges, Nothing without a row
  view,    \* the history each tab shows, and sends along
  behind,  \* the exchanges stored since the tab read the history it sends
  st,      \* the streams
  an,      \* the analyses
  profile, \* whether nodes.insight_profile is there and recent, and whether
           \* _profiling_nodes has the node
  cb,      \* the breaker; late: a success came in while it was open
  sent     \* the messages sent so far

session  == <<row, view, behind, st, sent>>
node     == <<an, profile>>
chatVars == <<row, view, behind, st, an, profile, cb, sent>>

Tools == ReadTools \cup WriteTools
Resting  == [pc |-> "idle", kind |-> Nothing, attempt |-> 0, try |-> 0]
NoStream == [pc |-> "idle", msg |-> 0, base |-> <<>>, round |-> 0,
             seen |-> {}, call |-> Nothing, found |-> FALSE]
Stored   == IF row = Nothing THEN <<>> ELSE row

(* Every variable has its declared shape. *)
ChatTypeOK ==
  /\ row = Nothing \/ (Len(row) <= MaxMessages /\ ToSet(row) \subseteq 1..sent)
  /\ \A t \in Tabs :
       /\ ToSet(view[t]) \subseteq 1..sent
       /\ behind[t] \subseteq 1..sent
       /\ st[t].pc \in {"idle", "ask", "model", "tools", "save", "write"}
       /\ st[t].msg \in 0..sent
       /\ st[t].round \in 0..Rounds
       /\ st[t].seen \subseteq Tools
       /\ st[t].call \in Tools \cup {Nothing}
  /\ an \in [Analyses -> [pc : {"idle", "ask", "call", "store"}, attempt : 0..Attempts,
                          try : 0..Tries, kind : {Nothing, "profile", "forced", "diagnosis"}]]
  /\ profile \in [fresh : BOOLEAN, marked : BOOLEAN]
  /\ cb \in [state : {"CLOSED", "OPEN", "HALF_OPEN"}, failures : 0..Threshold,
             elapsed : BOOLEAN, late : BOOLEAN]
  /\ sent \in 0..MaxMessages

ChatInit ==
  /\ row = Nothing
  /\ view = [t \in Tabs |-> <<>>]
  /\ behind = [t \in Tabs |-> {}]
  /\ st = [t \in Tabs |-> NoStream]
  /\ an = [a \in Analyses |-> Resting]
  /\ profile = [fresh |-> FALSE, marked |-> FALSE]
  /\ cb = [state |-> "CLOSED", failures |-> 0, elapsed |-> FALSE, late |-> FALSE]
  /\ sent = 0

-----------------------------------------------------------------------------
(* CircuitBreaker *)

Refuses(b) == b.state = "OPEN" /\ ~b.elapsed

(* _check: the first caller after the timeout makes it HALF_OPEN, and every
   caller is let through then *)
Checked(b) ==
  IF b.state = "OPEN" THEN [b EXCEPT !.state = "HALF_OPEN", !.elapsed = FALSE] ELSE b

record_success(b) ==
  [b EXCEPT !.state = IF @ = "HALF_OPEN" THEN "CLOSED" ELSE @,
            !.failures = 0,
            !.late = b.state = "OPEN"]

(* _failure_count, which is only ever compared with the threshold *)
OneMore(failures) == Min({failures + 1, Threshold})

(* Mutant: the streak starts over at the probe *)
record_failure_restarts(b) ==
  LET failures == IF b.state = "HALF_OPEN" THEN 1 ELSE OneMore(b.failures)
      opens    == failures >= Threshold
  IN [state |-> IF opens THEN "OPEN" ELSE b.state, failures |-> failures,
      elapsed |-> FALSE, late |-> b.late /\ ~opens]

record_failure(b) ==
  LET opens == OneMore(b.failures) >= Threshold
  IN [state |-> IF opens THEN "OPEN" ELSE b.state, failures |-> OneMore(b.failures),
      elapsed |-> FALSE, late |-> b.late /\ ~opens]

TimeoutElapses ==
  /\ cb.state = "OPEN" /\ ~cb.elapsed
  /\ cb' = [cb EXCEPT !.elapsed = TRUE]
  /\ UNCHANGED <<session, node>>

-----------------------------------------------------------------------------
(* A stream *)

At(t, pc) == st[t].pc = pc
Goto(t, s) == st' = [st EXCEPT ![t] = s]
End(t) == Goto(t, NoStream)

_cap_history(h) == IF Len(h) > HistoryCap THEN SubSeq(h, Len(h) - HistoryCap + 1, Len(h)) ELSE h

(* Mutant: a tab without a history starts from nothing *)
LoadedHistoryNot(h) == h

(* A tab that sends no history gets the stored one *)
LoadedHistory(h) == IF h = <<>> THEN Stored ELSE h

(* The prompt's context: the line of a registered server cannot be written, so
   a message about a fleet that has one is an error before the stream starts *)
_build_chat_context(scope) == scope = "node"

chat(t) ==
  \E scope \in {"node", "fleet"} :
    /\ At(t, "idle")
    /\ sent < MaxMessages
    /\ _build_chat_context(scope)
    /\ sent' = sent + 1
    /\ Goto(t, [NoStream EXCEPT !.pc = "ask", !.msg = sent', !.base = LoadedHistory(_cap_history(view[t]))])
    /\ behind' = [behind EXCEPT ![t] = IF view[t] = <<>> THEN {} ELSE @]
    /\ UNCHANGED <<row, view, cb, node>>

(* Mutant: the stream waits for the circuit *)
RefusedWaits(t) == st' = st

(* An open circuit ends the stream with an error event *)
Refused(t) == End(t)

(* A round begins *)
Ask(t) ==
  /\ At(t, "ask")
  /\ IF Refuses(cb) THEN Refused(t) /\ cb' = cb
     ELSE Goto(t, [st[t] EXCEPT !.pc = "model", !.round = @ + 1]) /\ cb' = Checked(cb)
  /\ UNCHANGED <<row, view, behind, sent, node>>

(* The status line announces an error, or a timeout or a refused connection *)
ModelFails(t) ==
  /\ At(t, "model")
  /\ cb' = record_failure(cb)
  /\ End(t)
  /\ UNCHANGED <<row, view, behind, sent, node>>

(* What a stream still needs once its answer is complete *)
Answered(t) == [NoStream EXCEPT !.pc = "save", !.msg = st[t].msg, !.base = st[t].base]

(* Text and no tool call: the answer is complete *)
ModelAnswers(t) ==
  /\ At(t, "model")
  /\ cb' = record_success(cb)
  /\ Goto(t, Answered(t))
  /\ UNCHANGED <<row, view, behind, sent, node>>

(* Several calls of one answer are joined into one of a name no tool has: the
   client hands them on without their index *)
ModelCalls(t) ==
  \E call \in Tools :
    /\ At(t, "model")
    /\ cb' = record_success(cb)
    /\ Goto(t, [st[t] EXCEPT !.pc = "tools", !.call = call])
    /\ UNCHANGED <<row, view, behind, sent, node>>

(* The client leaves, or the connection to the model breaks in a way the
   client library does not count: the breaker hears of neither *)
Broken(t) ==
  /\ st[t] # NoStream
  /\ End(t)
  /\ UNCHANGED <<row, view, behind, cb, sent, node>>

(* Mutant: one round too many *)
NextRoundLast(round) == round <= Rounds

NextRound(round) == round < Rounds

(* A call already made in this stream is answered without being made again, an
   unknown tool with an error; a read queries the worker, and what it returns
   only feeds the next round *)
ToolAnswered(t) ==
  /\ At(t, "tools")
  /\ st[t].call \in ReadTools \cup st[t].seen
  /\ Goto(t, IF NextRound(st[t].round)
             THEN [st[t] EXCEPT !.seen = @ \cup {st[t].call}, !.call = Nothing, !.pc = "ask"]
             ELSE Answered(t))
  /\ UNCHANGED <<row, view, behind, cb, sent, node>>

(* The proposal is stored and the stream ends; its exchange is not stored, the
   tab alone remembers it.  (If it cannot be stored the stream ends: Broken.) *)
ToolProposes(t) ==
  /\ At(t, "tools")
  /\ st[t].call \in WriteTools \ st[t].seen
  /\ End(t)
  /\ view' = [view EXCEPT ![t] = Append(st[t].base, st[t].msg)]
  /\ UNCHANGED <<row, behind, cb, sent, node>>

SaveLookup(t) ==
  /\ At(t, "save")
  /\ Goto(t, [st[t] EXCEPT !.pc = "write", !.found = row # Nothing])
  /\ UNCHANGED <<row, view, behind, cb, sent, node>>

(* An UPDATE of a row that is gone stores nothing; an INSERT of one that has
   appeared fails and ends the stream with an error event *)
SaveWrite(t) ==
  LET history == Append(st[t].base, st[t].msg)
      stored  == st[t].found = (row # Nothing)
  IN /\ At(t, "write")
     /\ row' = IF stored THEN history ELSE row
     /\ view' = [view EXCEPT ![t] = history]
     /\ behind' = [u \in Tabs |-> CASE stored /\ u = t -> {}
                                    [] stored /\ u # t -> behind[u] \cup ToSet(history)
                                    [] OTHER -> behind[u]]
     /\ End(t)
     /\ UNCHANGED <<cb, sent, node>>

-----------------------------------------------------------------------------
(* The session's own endpoints *)

get_session(t) ==
  /\ At(t, "idle")
  /\ row # Nothing
  /\ view' = [view EXCEPT ![t] = row]
  /\ behind' = [behind EXCEPT ![t] = {}]
  /\ UNCHANGED <<row, st, cb, sent, node>>

(* A tab creates the session, or renames it and sends its history along *)
save_session(t) ==
  /\ At(t, "idle")
  /\ row' = view[t]
  /\ behind' = [u \in Tabs |-> IF u = t THEN {} ELSE behind[u] \cup ToSet(view[t])]
  /\ UNCHANGED <<view, st, cb, sent, node>>

delete_session ==
  /\ row # Nothing
  /\ row' = Nothing
  /\ UNCHANGED <<view, behind, st, cb, sent, node>>

-----------------------------------------------------------------------------
(* Profile generations and diagnoses: StructuredLLM.create over LLMClient.complete *)

Step(a, r) == an' = [an EXCEPT ![a] = r]

Begins(a, kind) ==
  /\ an[a] = Resting
  /\ Step(a, [Resting EXCEPT !.pc = "ask", !.kind = kind, !.attempt = 1])
  /\ UNCHANGED <<session, cb>>

(* The task of a profile is over: its done callback removes the mark *)
Ended(a) ==
  /\ Step(a, Resting)
  /\ profile' = [profile EXCEPT !.marked = @ /\ an[a].kind # "profile"]

(* The lists the node has no cached copy of are asked for first, which may
   fail; the services are classified with what there is *)
_generate_profile_impl(a, kind) == Begins(a, kind)

(* The request's connection is given back before the task is done, so it
   takes another from the pool *)
_generate_profile_with_own_connection(a) == _generate_profile_impl(a, "profile")

(* An online node without a profile or with an old one is profiled in the
   background; a second such task is not started beside it *)
get_insights(a) ==
  /\ ~profile.fresh /\ ~profile.marked
  /\ _generate_profile_with_own_connection(a)
  /\ profile' = [profile EXCEPT !.marked = TRUE]

(* An operator's request, the first report of a node or its return: nothing
   keeps this one from running beside another *)
regenerate_node_profile(a) == _generate_profile_impl(a, "forced") /\ UNCHANGED profile

(* An operator's request, or an alert under investigation *)
analyze_anomaly(a) == Begins(a, "diagnosis") /\ UNCHANGED profile

(* A profile goes on without the model, from the plugins' patterns *)
_classify_services_fallback(a) == Step(a, [Resting EXCEPT !.pc = "store", !.kind = an[a].kind])

(* With the model's answer or without: a diagnosis is returned *)
classify_node_services(a) ==
  /\ IF an[a].kind = "diagnosis" THEN Step(a, Resting) ELSE _classify_services_fallback(a)
  /\ UNCHANGED profile

(* UPDATE nodes SET insight_profile: whichever comes last *)
StoreProfile(a) ==
  /\ an[a].pc = "store"
  /\ Step(a, Resting)
  /\ profile' = [fresh |-> TRUE, marked |-> profile.marked /\ an[a].kind # "profile"]
  /\ UNCHANGED <<session, cb>>

ProfileAges ==
  /\ profile.fresh
  /\ profile' = [profile EXCEPT !.fresh = FALSE]
  /\ UNCHANGED <<session, cb, an>>

RequestStarts(a) ==
  /\ an[a].pc = "ask"
  /\ IF Refuses(cb) THEN classify_node_services(a) /\ cb' = cb
     ELSE Step(a, [an[a] EXCEPT !.pc = "call", !.try = 1]) /\ cb' = Checked(cb) /\ UNCHANGED profile
  /\ UNCHANGED session

with_retry(a) ==
  /\ an[a].try < Tries
  /\ Step(a, [an[a] EXCEPT !.try = @ + 1])
  /\ UNCHANGED <<cb, profile>>

(* A timeout, a refused connection, 429 or 5xx: only the last try counts *)
RequestFails(a) ==
  /\ an[a].pc = "call"
  /\ \/ with_retry(a)
     \/ an[a].try = Tries /\ classify_node_services(a) /\ cb' = record_failure(cb)
  /\ UNCHANGED session

(* Any other 4xx, or an error the client library does not name: the breaker
   does not hear of it *)
RequestRejected(a) ==
  /\ an[a].pc = "call"
  /\ classify_node_services(a)
  /\ UNCHANGED <<session, cb>>

(* The minute a profile has is over, or an await of its own fails: nothing is
   stored, nothing is recorded *)
generate_profile_cut(a) ==
  /\ an[a].kind \in {"profile", "forced"}
  /\ Ended(a)
  /\ UNCHANGED <<session, cb>>

(* An answer that does not fit the schema is asked for again *)
create_answered(a) ==
  /\ an[a].pc = "call"
  /\ cb' = record_success(cb)
  /\ \/ classify_node_services(a)
     \/ /\ an[a].attempt < Attempts
        /\ Step(a, [an[a] EXCEPT !.pc = "ask", !.attempt = @ + 1, !.try = 0])
        /\ UNCHANGED profile
  /\ UNCHANGED session

-----------------------------------------------------------------------------
Stream(t) ==
  \/ Ask(t) \/ ModelFails(t) \/ ModelAnswers(t) \/ ModelCalls(t)
  \/ ToolAnswered(t) \/ ToolProposes(t) \/ SaveLookup(t) \/ SaveWrite(t)

Analysis(a) ==
  \/ StoreProfile(a) \/ RequestStarts(a) \/ RequestFails(a) \/ create_answered(a)

ChatNext ==
  \/ TimeoutElapses \/ delete_session \/ ProfileAges
  \/ \E t \in Tabs :
       chat(t) \/ Stream(t) \/ Broken(t) \/ get_session(t) \/ save_session(t)
  \/ \E a \in Analyses :
       \/ get_insights(a) \/ regenerate_node_profile(a) \/ analyze_anomaly(a)
       \/ Analysis(a) \/ RequestRejected(a) \/ generate_profile_cut(a)

(* Model calls and worker queries have deadlines, and the event loop runs
   what is ready *)
Fairness ==
  /\ \A t \in Tabs : WF_chatVars(Stream(t))
  /\ \A a \in Analyses : WF_chatVars(Analysis(a))

ChatSpec == ChatInit /\ [][ChatNext]_chatVars /\ Fairness

-----------------------------------------------------------------------------
(* An exchange that was stored is lost only with its session, or when a tab
   writes a history it had read before that exchange was stored (or one that
   the cap shortened): a stream never starts from less than it could read. *)
StoredExchangeKept ==
  [][\A t \in Tabs :
       SaveWrite(t) /\ row' # Nothing =>
         \A e \in ToSet(Stored) \ ToSet(row') : e \in behind[t] \/ Len(view[t]) > HistoryCap]_chatVars

(* A probe that fails opens the circuit again, whichever calls of streams and
   analyses were admitted beside it, unless a success of an earlier call came
   in while it was open. *)
ProbeFailureReopens ==
  [][cb.state = "HALF_OPEN" /\ (\/ \E t \in Tabs : ModelFails(t)
                               \/ \E a \in Analyses : RequestFails(a) /\ an[a].try = Tries)
       => cb'.state = "OPEN" \/ cb.late]_chatVars

(* Every stream, every profile generation and every diagnosis ends, however
   often the model asks for tools, fails or answers with something else. *)
AllEnd ==
  /\ \A t \in Tabs : st[t] # NoStream ~> st[t] = NoStream
  /\ \A a \in Analyses : an[a] # Resting ~> an[a] = Resting
=============================================================================
