---------------------------- MODULE AlertsProofs ----------------------------
(***************************************************************************)
(* Proofs about Alerts, for any number of nodes, of alerts and of slots:   *)
(* the engine's memory and the alerts table agree but for the rows whose   *)
(* entry a failure lost and the entries somebody else closed, and the      *)
(* slots counted as reserved are those of the investigations under way.    *)
(***************************************************************************)
EXTENDS Alerts, SequenceTheorems, FiniteSetTheorems, WellFoundedInduction, TLAPS

Alert == [node : Nodes, name : Names, severity : Severities,
          status : {"firing", "resolved", "gone"}]
Plan  == [resolve : BOOLEAN, fire : Severities \cup {None}]

(* Memory and evaluation end with the process.                             *)
OffInv == ~ up.on => mem = NoAlert /\ ev = NoEval

(* An evaluation has work for a node only, and resolves what is active:    *)
(* while it holds the lock nobody else takes an entry out.                 *)
EvInv ==
  \A a \in Names :
    /\ Todo(a).resolve \/ Todo(a).fire # None => ev.node \in Nodes
    /\ Todo(a).resolve => Active(ev.node, a)

(* The entry of an alert is a row of that alert.                           *)
PlaceInv ==
  \A n \in Nodes, a \in Names :
    Active(n, a) => rows[mem[n][a]].node = n /\ rows[mem[n][a]].name = a

(* No investigation precedes its row.                                      *)
InvInv == \A r \in RowIds : r > Len(rows) => inv[r] = None

Inv == /\ TypeOK /\ OffInv /\ EvInv /\ PlaceInv /\ InvInv
       /\ MemoryAgrees /\ ReservedExact

-----------------------------------------------------------------------------
(* What the model's operators compute.                                     *)
LEMMA RowFacts ==
  ASSUME TypeOK
  PROVE  /\ Len(rows) \in Nat /\ MaxRows \in Nat /\ rows \in Seq(Alert)
         /\ DOMAIN rows = 1..Len(rows) /\ DOMAIN rows \subseteq RowIds
         /\ \A r \in DOMAIN rows : rows[r] \in Alert
         /\ \A n \in Nodes, a \in Names : Active(n, a) => mem[n][a] \in DOMAIN rows
         /\ Entries \subseteq DOMAIN rows
<1>1. rows \in Seq(Alert) /\ Len(rows) <= MaxRows /\ MaxRows \in Nat
  BY BoundsAssumption DEF TypeOK, Alert
<1>2. Len(rows) \in Nat /\ rows \in [1..Len(rows) -> Alert] /\ DOMAIN rows = 1..Len(rows)
  BY <1>1, LenProperties
<1>3. \A n \in Nodes, a \in Names : mem[n][a] \in 0..Len(rows)
  BY DEF TypeOK
<1>4. \A n \in Nodes, a \in Names : Active(n, a) => mem[n][a] \in DOMAIN rows
  BY <1>2, <1>3 DEF Active
<1>5. Entries \subseteq DOMAIN rows
  BY <1>2, <1>3 DEF Entries
<1> QED
  BY <1>1, <1>2, <1>4, <1>5 DEF RowIds

Evaluation == [node : Nodes \cup {None}, cancellable : BOOLEAN, todo : [Names -> Plan]]

LEMMA NoEvalType == NoEval \in Evaluation /\ NoEval.todo = [a \in Names |-> Nothing]
BY DEF NoEval, Nothing, Plan, Evaluation

(* What one threshold, and one alert of no severity but its own, plan.     *)
LEMMA ThresholdPlan ==
  ASSUME NEW n \in Nodes, NEW a \in Thresholds, NEW v \in Values \cup {None}
  PROVE  /\ OneThreshold(n, a, v) \in Plan
         /\ OneThreshold(n, a, v).resolve => Active(n, a)
<1> DEFINE severity == check(Threshold[a], v)
           p == OneThreshold(n, a, v)
<1>1. severity \in Severities \cup {None}
  <2>1. CASE _cmp(Threshold[a], v, Threshold[a].critical_at)
    BY <2>1 DEF check, Severities
  <2>2. CASE /\ ~ _cmp(Threshold[a], v, Threshold[a].critical_at)
             /\ _cmp(Threshold[a], v, Threshold[a].warning_at)
    BY <2>2 DEF check, Severities
  <2>3. CASE /\ ~ _cmp(Threshold[a], v, Threshold[a].critical_at)
             /\ ~ _cmp(Threshold[a], v, Threshold[a].warning_at)
    BY <2>3 DEF check
  <2> QED
    BY <2>1, <2>2, <2>3
<1> HIDE DEF severity
<1>2. \/ p = Nothing
      \/ p = [resolve |-> Active(n, a), fire |-> severity]
      \/ p = [resolve |-> Active(n, a) /\ is_resolved(Threshold[a], v), fire |-> None]
  BY DEF OneThreshold, severity
<1> HIDE DEF p
<1> DEFINE clears == Active(n, a) /\ is_resolved(Threshold[a], v)
           active == Active(n, a)
<1>3. active \in BOOLEAN /\ clears \in BOOLEAN /\ (clears => active)
  BY DEF Active
<1>4. \/ p = Nothing
      \/ p = [resolve |-> active, fire |-> severity]
      \/ p = [resolve |-> clears, fire |-> None]
  BY <1>2
<1> HIDE DEF active, clears
<1>5. PICK b \in BOOLEAN, f \in Severities \cup {None} :
        p = [resolve |-> b, fire |-> f] /\ (b => active)
  BY <1>1, <1>3, <1>4, Zenon DEF Nothing
<1>6. p \in Plan /\ (p.resolve => active)
  BY <1>5 DEF Plan
<1> QED
  BY <1>6 DEF p, active

LEMMA WhilePlan ==
  ASSUME NEW holds \in BOOLEAN, NEW n \in Nodes, NEW a \in Names, NEW severity \in Severities
  PROVE  /\ While(holds, n, a, severity) \in Plan
         /\ While(holds, n, a, severity).resolve => Active(n, a)
<1> DEFINE ends == ~ holds /\ Active(n, a)
           starts == IF holds /\ ~ Active(n, a) THEN severity ELSE None
<1>1. ends \in BOOLEAN /\ (ends => Active(n, a))
  OBVIOUS
<1>2. starts \in Severities \cup {None}
  OBVIOUS
<1>3. While(holds, n, a, severity) = [resolve |-> ends, fire |-> starts]
  BY DEF While
<1> HIDE DEF ends, starts
<1> QED
  BY <1>1, <1>2, <1>3 DEF Plan

LEMMA NothingPlan == Nothing \in Plan /\ ~ Nothing.resolve /\ Nothing.fire = None
BY DEF Nothing, Plan

(* A plan that an evaluation of n can take up.                             *)
Sound(n, todo) ==
  /\ todo \in [Names -> Plan]
  /\ \A a \in Names : todo[a].resolve => Active(n, a)

LEMMA MetricsPlan ==
  ASSUME NEW n \in Nodes, NEW snapshot \in [Thresholds -> Values \cup {None}],
         NEW dropped \in BOOLEAN
  PROVE  Sound(n, _evaluate_builtin_thresholds(n, snapshot, dropped))
<1> DEFINE todo == _evaluate_builtin_thresholds(n, snapshot, dropped)
<1>1. \A a \in Names : todo[a] \in Plan /\ (todo[a].resolve => Active(n, a))
  <2> TAKE a \in Names
  <2>1. CASE a \in Thresholds
    <3>1. todo[a] = OneThreshold(n, a, snapshot[a]) /\ snapshot[a] \in Values \cup {None}
      BY <2>1 DEF _evaluate_builtin_thresholds
    <3> QED
      BY <2>1, <3>1, ThresholdPlan
  <2>2. CASE a \notin Thresholds /\ a = "node_reboot_detected" /\ n \in seen
    <3>1. todo[a] = While(dropped, n, a, "warning") /\ "warning" \in Severities
      BY <2>2 DEF _evaluate_builtin_thresholds, _detect_reboot, Severities
    <3> QED
      BY <3>1, WhilePlan
  <2>3. CASE a \notin Thresholds /\ ~ (a = "node_reboot_detected" /\ n \in seen)
    <3>1. todo[a] = Nothing
      BY <2>3 DEF _evaluate_builtin_thresholds, _detect_reboot
    <3> QED
      BY <3>1, NothingPlan
  <2> QED
    BY <2>1, <2>2, <2>3
<1>2. todo = [a \in Names |-> todo[a]]
  BY DEF _evaluate_builtin_thresholds
<1> HIDE DEF todo
<1>3. todo \in [Names -> Plan]
  BY <1>1, <1>2
<1>4. Sound(n, todo)
  BY <1>1, <1>3 DEF Sound
<1> QED
  BY <1>4 DEF todo

LEMMA StatePlan ==
  ASSUME NEW n \in Nodes, NEW state, NEW flapping \in BOOLEAN
  PROVE  Sound(n, [a \in Names |-> OfState(n, a, state, flapping)])
<1>1. ASSUME NEW a \in Names
      PROVE  /\ OfState(n, a, state, flapping) \in Plan
             /\ OfState(n, a, state, flapping).resolve => Active(n, a)
  <2> DEFINE lost == a = "node_state_lost" /\ state \in {"LOST", "CONNECTED"}
             stale == a = "node_state_stale" /\ state \in {"STALE", "CONNECTED"}
             flap == a = "node_connection_flap" /\ state = "CONNECTED"
  <2>0. "warning" \in Severities /\ "critical" \in Severities
    BY DEF Severities
  <2>1. CASE lost
    <3>1. OfState(n, a, state, flapping) = While(state = "LOST", n, a, "critical")
      BY <2>1 DEF OfState
    <3> QED
      BY <2>0, <3>1, WhilePlan
  <2>2. CASE stale
    <3>1. OfState(n, a, state, flapping) = While(state = "STALE", n, a, "critical")
      BY <2>2 DEF OfState
    <3> QED
      BY <2>0, <3>1, WhilePlan
  <2>3. CASE flap
    <3>1. OfState(n, a, state, flapping) = While(flapping, n, a, "warning")
      BY <2>3 DEF OfState
    <3> QED
      BY <2>0, <3>1, WhilePlan
  <2>4. CASE ~ lost /\ ~ stale /\ ~ flap
    <3>1. OfState(n, a, state, flapping) = Nothing
      BY <2>4 DEF OfState
    <3> QED
      BY <3>1, NothingPlan
  <2> QED
    BY <2>1, <2>2, <2>3, <2>4
<1> QED
  BY <1>1 DEF Sound

LEMMA RatePlan ==
  ASSUME NEW n \in Nodes, NEW over \in BOOLEAN
  PROVE  Sound(n, [a \in Names |-> IF a = "intent_failed_rate"
                                   THEN While(over, n, a, "warning") ELSE Nothing])
<1>1. "warning" \in Severities
  BY DEF Severities
<1>2. \A a \in Names : /\ While(over, n, a, "warning") \in Plan
                       /\ While(over, n, a, "warning").resolve => Active(n, a)
  BY <1>1, WhilePlan
<1> QED
  BY <1>2, NothingPlan DEF Sound

(* Of the firing rows of one alert the start takes the last.               *)
LEMMA LastFiring ==
  ASSUME TypeOK, NEW n \in Nodes, NEW a \in Names, FiringRows(n, a) # {}
  PROVE  /\ Restored[n][a] \in FiringRows(n, a)
         /\ \A q \in FiringRows(n, a) : q <= Restored[n][a]
<1> DEFINE F == FiringRows(n, a)
           Below == {MaxRows - r : r \in F}
<1>1. F \subseteq RowIds /\ MaxRows \in Nat
  BY RowFacts DEF FiringRows
<1>2. Below \subseteq Nat /\ Below # {}
  BY <1>1 DEF RowIds
<1>3. PICK x \in Below : \A y \in Below : ~ (<<y, x>> \in OpToRel(<, Nat))
  BY <1>2, WFMin, NatLessThanWellFounded, Zenon
<1>4. \A y \in Below : ~ (y < x)
  BY <1>2, <1>3, Zenon DEF OpToRel
<1>5. PICK r \in F : x = MaxRows - r
  BY <1>3
<1>6. \A q \in F : q <= r
  <2> TAKE q \in F
  <2>1. MaxRows - q \in Below /\ q \in RowIds /\ r \in RowIds
    BY <1>1, <1>5
  <2>2. ~ (MaxRows - q < MaxRows - r)
    BY <1>4, <1>5, <2>1
  <2> QED
    BY <1>1, <2>1, <2>2 DEF RowIds
<1> DEFINE last == CHOOSE m \in F : \A q \in F : q <= m
<1>7. last \in F /\ \A q \in F : q <= last
  BY <1>5, <1>6, Zenon
<1>8. Restored[n][a] = last
  BY DEF Restored
<1> QED
  BY <1>7, <1>8

(* A write that touches no more than the status of rows, and fires none.   *)
Relabels(new) ==
  /\ new \in Seq(Alert) /\ Len(new) = Len(rows) /\ DOMAIN new = DOMAIN rows
  /\ \A r \in DOMAIN rows : /\ new[r].node = rows[r].node /\ new[r].name = rows[r].name
                            /\ new[r].status = "firing" => rows[r].status = "firing"

LEMMA ResolvedRelabels ==
  ASSUME TypeOK, NEW r \in DOMAIN rows
  PROVE  /\ Relabels(Resolved(r))
         /\ Resolved(r)[r].status # "firing"
         /\ \A q \in DOMAIN rows \ {r} : Resolved(r)[q] = rows[q]
<1>1. CASE rows[r].status # "firing"
  BY <1>1, RowFacts DEF Resolved, Relabels
<1>2. CASE rows[r].status = "firing"
  <2> DEFINE x == [rows[r] EXCEPT !.status = "resolved"]
  <2>1. rows[r] \in Alert
    BY RowFacts
  <2>2. x \in Alert /\ x.node = rows[r].node /\ x.name = rows[r].name /\ x.status # "firing"
    BY <2>1 DEF Alert
  <2>3. Resolved(r) = [rows EXCEPT ![r] = x]
    BY <1>2 DEF Resolved
  <2> HIDE DEF x
  <2>4. /\ Resolved(r) \in Seq(Alert) /\ Len(Resolved(r)) = Len(rows)
        /\ DOMAIN Resolved(r) = DOMAIN rows
        /\ \A q \in DOMAIN rows : Resolved(r)[q] = IF q = r THEN x ELSE rows[q]
    BY <2>2, <2>3, RowFacts, ExceptSeq
  <2> QED
    BY <2>2, <2>4 DEF Relabels
<1> QED
  BY <1>1, <1>2

LEMMA SweptRelabels ==
  ASSUME TypeOK, NEW swept \in SUBSET DOMAIN rows,
         NEW new, new = [r \in DOMAIN rows |-> IF r \in swept
                           THEN [rows[r] EXCEPT !.status = "gone"] ELSE rows[r]]
  PROVE  /\ Relabels(new)
         /\ \A r \in swept : new[r].status = "gone"
         /\ \A r \in DOMAIN rows \ swept : new[r] = rows[r]
<1>1. \A r \in DOMAIN rows : rows[r] \in Alert
  BY RowFacts
<1>2. \A r \in DOMAIN rows : /\ new[r] \in Alert
                             /\ new[r].node = rows[r].node /\ new[r].name = rows[r].name
                             /\ r \in swept => new[r].status = "gone"
                             /\ r \notin swept => new[r] = rows[r]
  BY <1>1 DEF Alert
<1>3. DOMAIN new = 1..Len(rows) /\ Len(rows) \in Nat /\ DOMAIN rows = 1..Len(rows)
  BY RowFacts
<1>4. new \in [1..Len(rows) -> Alert]
  BY <1>2, <1>3
<1>5. new \in Seq(Alert)
  BY <1>3, <1>4, SeqDef
<1>6. Len(new) = Len(rows)
  BY <1>3, <1>5, LenProperties
<1> QED
  BY <1>2, <1>3, <1>5, <1>6 DEF Relabels

(* The slots held before and after one investigation moves on.             *)
Holders == {r \in RowIds : inv[r] \in Working}

LEMMA HoldersMove ==
  ASSUME TypeOK, NEW r \in RowIds, NEW to, inv' = [inv EXCEPT ![r] = to]
  PROVE  /\ Cardinality(Holders) \in Nat
         /\ Cardinality(Holders') =
              IF inv[r] \in Working <=> to \in Working THEN Cardinality(Holders)
              ELSE IF to \in Working THEN Cardinality(Holders) + 1
              ELSE Cardinality(Holders) - 1
         /\ inv[r] \in Working => Cardinality(Holders) > 0
<1>0. 1 \in Int /\ MaxRows \in Int
  BY BoundsAssumption
<1>1. IsFiniteSet(RowIds)
  BY <1>0, FS_Interval DEF RowIds
<1>2. IsFiniteSet(Holders) /\ Cardinality(Holders) \in Nat
  BY <1>1, FS_Subset, FS_CardinalityType, Holders \in SUBSET RowIds, Zenon DEF Holders
<1>3. inv \in [RowIds -> Stages \cup {None}]
  BY DEF TypeOK
<1>4. Holders' = IF to \in Working THEN Holders \cup {r} ELSE Holders \ {r}
  BY <1>3 DEF Holders
<1>5. r \in Holders <=> inv[r] \in Working
  BY DEF Holders
<1>6. r \in Holders => Cardinality(Holders) # 0
  BY <1>2, FS_EmptySet
<1>7. Cardinality(Holders \cup {r}) = IF r \in Holders THEN Cardinality(Holders)
                                     ELSE Cardinality(Holders) + 1
  BY <1>2, FS_AddElement
<1>8. Cardinality(Holders \ {r}) = IF r \in Holders THEN Cardinality(Holders) - 1
                                   ELSE Cardinality(Holders)
  BY <1>2, FS_RemoveElement
<1>9. Cardinality(Holders') = IF to \in Working THEN Cardinality(Holders \cup {r})
                              ELSE Cardinality(Holders \ {r})
  BY <1>4
<1> QED
  BY <1>2, <1>5, <1>6, <1>7, <1>8, <1>9

-----------------------------------------------------------------------------
(* The invariant holds initially, and every step preserves it.             *)
LEMMA InitInv ==
  ASSUME Init
  PROVE  Inv
<1>1. NoEval \in Evaluation
  BY NoEvalType
<1>2. \A n \in Nodes, a \in Names : NoAlert[n][a] = 0
  BY DEF NoAlert
<1>3. rows = <<>> /\ rows \in Seq(Alert) /\ Len(rows) = 0 /\ DOMAIN rows = {}
  BY EmptySeq DEF Init
<1>4. TypeOK
  <2>1. NoAlert \in [Nodes -> [Names -> 0..0]]
    BY DEF NoAlert
  <2>2. {MaxRows, MaxCrashes, MaxConcurrent} \subseteq Nat
    BY BoundsAssumption
  <2> QED
    BY <1>1, <1>3, <2>1, <2>2 DEF Init, TypeOK, Evaluation, Plan, Alert
<1>5. OffInv /\ InvInv /\ PlaceInv
  BY <1>2 DEF Init, OffInv, InvInv, PlaceInv, Active
<1>6. EvInv
  BY DEF Init, EvInv, Todo, NoEval, Nothing
<1>7. MemoryAgrees
  BY <1>2 DEF Init, MemoryAgrees
<1>8. ReservedExact
  <2>1. {r \in RowIds : inv[r] \in Working} = {}
    BY NamesAssumption DEF Init, Stages
  <2> QED
    BY <2>1, FS_EmptySet DEF Init, ReservedExact
<1> QED
  BY <1>4, <1>5, <1>6, <1>7, <1>8 DEF Inv

(* A new evaluation.                                                       *)
LEMMA HoldStep ==
  ASSUME Inv, NEW n \in Nodes, NEW cancellable \in BOOLEAN, NEW todo, Sound(n, todo),
         Hold(n, cancellable, todo), seen' \subseteq Nodes,
         UNCHANGED <<up, live, rows, mem, inv, reserved, orphan, silent>>
  PROVE  Inv'
<1>1. ev' \in Evaluation /\ ev'.node = n /\ ev'.todo = todo
  BY DEF Hold, Sound, Evaluation
<1>2. TypeOK'
  BY <1>1 DEF Inv, TypeOK, Evaluation, Plan
<1>3. OffInv'
  BY DEF Hold, Inv, OffInv
<1>4. EvInv'
  BY <1>1 DEF EvInv, Todo, Sound, Active
<1>5. PlaceInv' /\ InvInv' /\ MemoryAgrees' /\ ReservedExact'
  BY DEF Inv, PlaceInv, Active, InvInv, MemoryAgrees, Firing, ReservedExact
<1> QED
  BY <1>2, <1>3, <1>4, <1>5 DEF Inv

LEMMA EvaluateStep ==
  ASSUME Inv, Evaluate
  PROVE  Inv'
<1>1. PICK n \in Nodes : \/ evaluate_metrics(n)
                         \/ \E state \in {"LOST", "STALE", "CONNECTED", "DISABLED"} :
                              evaluate_node_state(n, state)
                         \/ \E over \in BOOLEAN : track_intent_result(n, over)
  BY DEF Evaluate
<1>2. seen \subseteq Nodes
  BY DEF Inv, TypeOK
<1>3. CASE evaluate_metrics(n)
  <2>1. PICK snapshot \in [Thresholds -> Values \cup {None}], dropped \in BOOLEAN :
          /\ Hold(n, TRUE, _evaluate_builtin_thresholds(n, snapshot, dropped))
          /\ seen' = seen \cup {n}
          /\ UNCHANGED <<up, live, rows, mem, inv, reserved, orphan, silent>>
    BY <1>3, Zenon DEF evaluate_metrics
  <2>2. Sound(n, _evaluate_builtin_thresholds(n, snapshot, dropped))
    BY MetricsPlan
  <2>3. seen' \subseteq Nodes
    BY <1>2, <2>1
  <2> QED
    BY <2>1, <2>2, <2>3, HoldStep
<1>4. CASE \E state \in {"LOST", "STALE", "CONNECTED", "DISABLED"} : evaluate_node_state(n, state)
  <2>1. PICK state \in {"LOST", "STALE", "CONNECTED", "DISABLED"}, flapping \in BOOLEAN :
          /\ Hold(n, FALSE, [a \in Names |-> OfState(n, a, state, flapping)])
          /\ UNCHANGED <<up, live, rows, mem, seen, inv, reserved, orphan, silent>>
    BY <1>4, Zenon DEF evaluate_node_state
  <2>2. Sound(n, [a \in Names |-> OfState(n, a, state, flapping)])
    BY StatePlan
  <2> QED
    BY <1>2, <2>1, <2>2, HoldStep
<1>5. CASE \E over \in BOOLEAN : track_intent_result(n, over)
  <2> DEFINE todo(over) == [a \in Names |-> IF a = "intent_failed_rate"
                              THEN While(over, n, a, "warning") ELSE Nothing]
  <2>1. PICK over \in BOOLEAN :
          /\ Hold(n, FALSE, todo(over))
          /\ UNCHANGED <<up, live, rows, mem, seen, inv, reserved, orphan, silent>>
    BY <1>5, Zenon DEF track_intent_result
  <2>2. Sound(n, todo(over))
    BY RatePlan
  <2> HIDE DEF todo
  <2> QED
    BY <1>2, <2>1, <2>2, HoldStep
<1> QED
  BY <1>1, <1>3, <1>4, <1>5

(* What is left of a plan after one alert's fire, and after its resolution. *)
LEMMA PlanLeft ==
  ASSUME Inv, NEW a \in Names, NEW p \in Plan,
         ev' = [ev EXCEPT !.todo = [@ EXCEPT ![a] = p]]
  PROVE  /\ ev' \in Evaluation /\ ev'.node = ev.node
         /\ ev'.todo[a] = p
         /\ \A b \in Names \ {a} : ev'.todo[b] = ev.todo[b]
<1>1. ev \in Evaluation
  BY DEF Inv, TypeOK, Evaluation, Plan
<1>2. [ev.todo EXCEPT ![a] = p] \in [Names -> Plan]
  BY <1>1 DEF Evaluation
<1>3. ev' \in Evaluation /\ ev'.node = ev.node /\ ev'.todo = [ev.todo EXCEPT ![a] = p]
  BY <1>1, <1>2 DEF Evaluation
<1>4. ev.todo \in [Names -> Plan]
  BY <1>1 DEF Evaluation
<1> QED
  BY <1>3, <1>4

(* An evaluation goes on, with less to do, while the memory stays.         *)
LEMMA LessTodo ==
  ASSUME Inv, NEW a \in Names, NEW p \in Plan,
         ev' = [ev EXCEPT !.todo = [@ EXCEPT ![a] = p]],
         Todo(a).resolve \/ Todo(a).fire # None, ~ p.resolve
  PROVE  /\ ev' \in Evaluation
         /\ ev.node \in Nodes
         /\ \A b \in Names :
              /\ Todo(b)'.resolve \/ Todo(b)'.fire # None => ev'.node \in Nodes
              /\ Todo(b)'.resolve => b # a /\ Todo(b).resolve /\ ev'.node = ev.node
<1>1. /\ ev' \in Evaluation /\ ev'.node = ev.node /\ ev'.todo[a] = p
      /\ \A b \in Names \ {a} : ev'.todo[b] = ev.todo[b]
  BY PlanLeft
<1>2. ev.node \in Nodes
  BY DEF Inv, EvInv
<1> QED
  BY <1>1, <1>2 DEF Todo

LEMMA PlanRest ==
  ASSUME Inv, NEW a \in Names
  PROVE  /\ [resolve |-> FALSE, fire |-> Todo(a).fire] \in Plan
         /\ Nothing \in Plan
<1>1. ev.todo[a] \in Plan
  BY DEF Inv, TypeOK, Plan
<1> QED
  BY <1>1 DEF Todo, Plan, Nothing

(* The evaluation goes on or ends; nothing else changes.                   *)
LEMMA OnlyEvStep ==
  ASSUME Inv, up.on, UNCHANGED <<up, live, rows, mem, seen, inv, reserved, orphan, silent>>,
         \/ ev' = NoEval
         \/ \E a \in Names : \/ (ToFire(a) \/ ToResolve(a)) /\ NowFire(a)
                             \/ ToFire(a) /\ Fired(a)
  PROVE  Inv'
<1>1. /\ ev' \in Evaluation
      /\ \A b \in Names :
           /\ Todo(b)'.resolve \/ Todo(b)'.fire # None => ev'.node \in Nodes
           /\ Todo(b)'.resolve => Active(ev'.node, b)
  <2>1. CASE ev' = NoEval
    <3>1. \A b \in Names : Todo(b)' = Nothing
      BY <2>1, NoEvalType DEF Todo
    <3> QED
      BY <2>1, <3>1, NoEvalType, NothingPlan
  <2>2. CASE \E a \in Names : \/ (ToFire(a) \/ ToResolve(a)) /\ NowFire(a)
                              \/ ToFire(a) /\ Fired(a)
    <3>1. PICK a \in Names, p \in Plan :
            /\ ev' = [ev EXCEPT !.todo = [@ EXCEPT ![a] = p]]
            /\ Todo(a).resolve \/ Todo(a).fire # None
            /\ ~ p.resolve
      <4>1. PICK a \in Names : \/ (ToFire(a) \/ ToResolve(a)) /\ NowFire(a)
                               \/ ToFire(a) /\ Fired(a)
        BY <2>2
      <4>2. Todo(a).resolve \/ Todo(a).fire # None
        BY <4>1 DEF ToFire, ToResolve
      <4>3. CASE NowFire(a)
        <5> DEFINE p == [resolve |-> FALSE, fire |-> Todo(a).fire]
        <5>1. p \in Plan /\ ~ p.resolve
          BY PlanRest
        <5>2. ev' = [ev EXCEPT !.todo = [@ EXCEPT ![a] = p]]
          BY <4>3 DEF NowFire
        <5> HIDE DEF p
        <5> QED
          BY <4>2, <5>1, <5>2
      <4>4. CASE Fired(a)
        <5>1. ev' = [ev EXCEPT !.todo = [@ EXCEPT ![a] = Nothing]]
          BY <4>4 DEF Fired
        <5> QED
          BY <4>2, <5>1, NothingPlan
      <4> QED
        BY <4>1, <4>3, <4>4
    <3>2. /\ ev' \in Evaluation
          /\ \A b \in Names :
               /\ Todo(b)'.resolve \/ Todo(b)'.fire # None => ev'.node \in Nodes
               /\ Todo(b)'.resolve => Todo(b).resolve /\ ev'.node = ev.node
      BY <3>1, LessTodo
    <3> QED
      BY <3>2 DEF Inv, EvInv
  <2> QED
    BY <2>1, <2>2
<1>2. TypeOK'
  BY <1>1 DEF Inv, TypeOK, Evaluation, Plan
<1>3. OffInv' /\ PlaceInv' /\ InvInv' /\ MemoryAgrees' /\ ReservedExact'
  BY DEF Inv, OffInv, PlaceInv, Active, InvInv, MemoryAgrees, Firing, ReservedExact
<1>4. EvInv'
  BY <1>1 DEF EvInv, Todo, Active
<1> QED
  BY <1>2, <1>3, <1>4 DEF Inv

(* Rows change their status while every entry stays.                       *)
LEMMA RelabelStep ==
  ASSUME Inv, up.on, Relabels(rows'), UNCHANGED <<up, mem, seen, inv, reserved>>,
         live' \subseteq live, ev' = ev \/ ev' = NoEval,
         orphan' \subseteq DOMAIN rows, silent \subseteq silent', silent' \subseteq DOMAIN rows,
         \A r \in orphan : rows'[r].status = "firing" => r \in orphan',
         \A r \in Entries : rows[r].status = "firing" /\ rows'[r].status # "firing" => r \in silent'
  PROVE  Inv'
<1>1. /\ DOMAIN rows' = DOMAIN rows /\ Len(rows') = Len(rows) /\ rows' \in Seq(Alert)
      /\ \A r \in DOMAIN rows : /\ rows'[r].node = rows[r].node /\ rows'[r].name = rows[r].name
                                /\ rows'[r].status = "firing" => rows[r].status = "firing"
  BY DEF Relabels
<1>2. ev' \in Evaluation
  BY NoEvalType DEF Inv, TypeOK, Evaluation, Plan
<1>3. TypeOK'
  BY <1>1, <1>2 DEF Inv, TypeOK, Evaluation, Plan, Alert
<1>4. OffInv' /\ InvInv' /\ ReservedExact'
  BY <1>1 DEF Inv, OffInv, InvInv, ReservedExact
<1>5. EvInv'
  <2>1. CASE ev' = ev
    BY <2>1 DEF Inv, EvInv, Todo, Active
  <2>2. CASE ev' = NoEval
    BY <2>2, NoEvalType, NothingPlan DEF EvInv, Todo
  <2> QED
    BY <2>1, <2>2
<1>6. PlaceInv'
  BY <1>1, RowFacts DEF Inv, PlaceInv, Active
<1>7. MemoryAgrees'
  <2>1. \A r \in Firing' : mem'[rows'[r].node][rows'[r].name] = r \/ r \in orphan'
    <3> TAKE r \in Firing'
    <3>1. r \in Firing /\ rows'[r].status = "firing"
      BY <1>1 DEF Firing
    <3>2. mem[rows[r].node][rows[r].name] = r \/ r \in orphan
      BY <3>1 DEF Inv, MemoryAgrees
    <3> QED
      BY <1>1, <3>1, <3>2 DEF Firing
  <2>2. ASSUME NEW n \in Nodes, NEW a \in Names, mem'[n][a] # 0
        PROVE  rows'[mem'[n][a]].status = "firing" \/ mem'[n][a] \in silent'
    <3>1. mem[n][a] \in Entries
      BY <2>2 DEF Entries
    <3>2. rows[mem[n][a]].status = "firing" \/ mem[n][a] \in silent
      BY <2>2 DEF Inv, MemoryAgrees
    <3> QED
      BY <3>1, <3>2
  <2> QED
    BY <2>1, <2>2 DEF MemoryAgrees
<1> QED
  BY <1>3, <1>4, <1>5, <1>6, <1>7 DEF Inv

(* A new row: the id is fresh for the memory and for the investigations.   *)
LEMMA InsertedRow ==
  ASSUME Inv, NEW a \in Names, ToFire(a), Inserted(ev.node, a)
  PROVE  /\ ev.node \in Nodes
         /\ rows' \in Seq(Alert) /\ Len(rows') = Len(rows) + 1 /\ Len(rows') <= MaxRows
         /\ DOMAIN rows' = DOMAIN rows \cup {Len(rows')} /\ Len(rows') \notin DOMAIN rows
         /\ Len(rows') \in RowIds /\ Len(rows) \in Nat
         /\ \A r \in DOMAIN rows : rows'[r] = rows[r]
         /\ rows'[Len(rows')].node = ev.node /\ rows'[Len(rows')].name = a
         /\ rows'[Len(rows')].status = "firing"
         /\ Firing' = Firing \cup {Len(rows')}
         /\ inv[Len(rows')] = None
<1> DEFINE x == [node |-> ev.node, name |-> a, severity |-> Todo(a).fire, status |-> "firing"]
<1>1. ev.node \in Nodes /\ Todo(a).fire \in Severities
  <2>1. Todo(a) \in Plan /\ Todo(a).fire # None
    BY DEF Inv, TypeOK, Todo, Plan, ToFire
  <2> QED
    BY <2>1 DEF Inv, EvInv, Plan
<1>2. x \in Alert
  BY <1>1 DEF Alert
<1>3. /\ x.node = ev.node /\ x.name = a /\ x.status = "firing"
      /\ rows' = Append(rows, x)
  BY DEF Inserted
<1> HIDE DEF x
<1>4. rows \in Seq(Alert) /\ Len(rows) \in Nat /\ DOMAIN rows = 1..Len(rows)
      /\ Len(rows) < MaxRows /\ MaxRows \in Nat
  BY RowFacts DEF Inv, Inserted
<1>5. /\ rows' \in Seq(Alert) /\ Len(rows') = Len(rows) + 1
      /\ \A r \in 1..Len(rows) : rows'[r] = rows[r]
      /\ rows'[Len(rows) + 1] = x
  BY <1>2, <1>3, <1>4
<1>6. DOMAIN rows' = 1..Len(rows) + 1
  BY <1>5, LenProperties
<1>7. Len(rows') \in RowIds /\ Len(rows') \notin DOMAIN rows
  BY <1>4, <1>5 DEF RowIds
<1>8. DOMAIN rows' = DOMAIN rows \cup {Len(rows')}
  BY <1>4, <1>5, <1>6
<1>9. Firing' = Firing \cup {Len(rows')}
  BY <1>3, <1>4, <1>5, <1>8 DEF Firing
<1>10. inv[Len(rows')] = None
  BY <1>4, <1>5, <1>7 DEF Inv, InvInv
<1> QED
  BY <1>1, <1>3, <1>4, <1>5, <1>7, <1>8, <1>9, <1>10

LEMMA FireStep ==
  ASSUME Inv, NEW a \in Names, _fire_alert(a)
  PROVE  Inv'
<1> DEFINE n == ev.node
           new == Len(rows')
<1>1. /\ ToFire(a) /\ Inserted(n, a) /\ Fired(a)
      /\ mem' = [mem EXCEPT ![n] = [@ EXCEPT ![a] = new]]
      /\ silent' = silent \ {mem[n][a]}
      /\ orphan' = orphan \cup Replaced(mem[n][a])
      /\ inv' = [inv EXCEPT ![new] = "called"]
      /\ UNCHANGED <<up, live, seen, reserved>>
  BY DEF _fire_alert
<1>2. /\ n \in Nodes
      /\ rows' \in Seq(Alert) /\ new = Len(rows) + 1 /\ new <= MaxRows
      /\ DOMAIN rows' = DOMAIN rows \cup {new} /\ new \notin DOMAIN rows
      /\ new \in RowIds /\ Len(rows) \in Nat
      /\ \A r \in DOMAIN rows : rows'[r] = rows[r]
      /\ rows'[new].node = n /\ rows'[new].name = a /\ rows'[new].status = "firing"
      /\ Firing' = Firing \cup {new}
      /\ inv[new] = None
  BY <1>1, InsertedRow
<1> HIDE DEF n, new
<1>3. TypeOK
  BY DEF Inv
<1>4. /\ mem'[n][a] = new
      /\ \A m \in Nodes, b \in Names : m # n \/ b # a => mem'[m][b] = mem[m][b]
      /\ mem' \in [Nodes -> [Names -> 0..Len(rows) + 1]]
  BY <1>1, <1>2, <1>3 DEF TypeOK
<1>5. \A m \in Nodes, b \in Names : Active(m, b) => mem[m][b] \in DOMAIN rows
  BY <1>3, RowFacts
<1>6. ev' = [ev EXCEPT !.todo = [@ EXCEPT ![a] = Nothing]] /\ Todo(a).fire # None /\ up.on
  BY <1>1 DEF Fired, ToFire
<1>7. /\ ev' \in Evaluation
      /\ \A b \in Names :
           /\ Todo(b)'.resolve \/ Todo(b)'.fire # None => ev'.node \in Nodes
           /\ Todo(b)'.resolve => b # a /\ Todo(b).resolve /\ ev'.node = n
  BY <1>6, LessTodo, NothingPlan DEF n
<1>8. TypeOK'
  <2>1. orphan' \subseteq DOMAIN rows' /\ silent' \subseteq DOMAIN rows'
    <3>1. Replaced(mem[n][a]) \subseteq DOMAIN rows
      BY <1>2, <1>5 DEF Replaced, Active
    <3> QED
      BY <1>1, <1>2, <1>3, <3>1 DEF TypeOK
  <2>2. inv' \in [RowIds -> Stages \cup {None}]
    BY <1>1, <1>3 DEF TypeOK, Stages
  <2> QED
    BY <1>1, <1>2, <1>3, <1>4, <1>7, <2>1, <2>2 DEF TypeOK, Alert, Evaluation, Plan, new
<1>9. OffInv'
  BY <1>1, <1>6 DEF OffInv
<1>10. EvInv'
  <2>1. ASSUME NEW b \in Names, Todo(b)'.resolve
        PROVE  mem'[ev'.node][b] # 0
    <3>1. b # a /\ Todo(b).resolve /\ ev'.node = n
      BY <1>7, <2>1
    <3>2. mem[n][b] # 0
      BY <3>1 DEF Inv, EvInv, Active, n
    <3> QED
      BY <1>2, <1>4, <3>1, <3>2
  <2> QED
    BY <1>7, <2>1 DEF EvInv, Active
<1>11. PlaceInv'
  <2>1. ASSUME NEW m \in Nodes, NEW b \in Names, mem'[m][b] # 0
        PROVE  rows'[mem'[m][b]].node = m /\ rows'[mem'[m][b]].name = b
    <3>1. CASE m = n /\ b = a
      BY <1>2, <1>4, <3>1
    <3>2. CASE m # n \/ b # a
      <4>1. mem'[m][b] = mem[m][b] /\ Active(m, b)
        BY <1>4, <2>1, <3>2 DEF Active
      <4>2. /\ mem[m][b] \in DOMAIN rows
            /\ rows[mem[m][b]].node = m /\ rows[mem[m][b]].name = b
        BY <1>5, <4>1 DEF Inv, PlaceInv
      <4> QED
        BY <1>2, <4>1, <4>2
    <3> QED
      BY <3>1, <3>2
  <2> QED
    BY <2>1 DEF PlaceInv, Active
<1>12. InvInv'
  <2>1. \A r \in RowIds : r > Len(rows) => inv[r] = None
    BY DEF Inv, InvInv
  <2>2. \A r \in RowIds : r > new => r > Len(rows) /\ r # new
    BY <1>2 DEF RowIds
  <2>3. \A r \in RowIds : r # new => inv'[r] = inv[r]
    BY <1>1, <1>3 DEF TypeOK
  <2>4. \A r \in RowIds : r > new => inv'[r] = None
    BY <2>1, <2>2, <2>3
  <2> QED
    BY <2>4 DEF InvInv, new
<1>13. MemoryAgrees'
  <2>1. ASSUME NEW r \in Firing'
        PROVE  mem'[rows'[r].node][rows'[r].name] = r \/ r \in orphan'
    <3>1. CASE r = new
      BY <1>2, <1>4, <3>1
    <3>2. CASE r # new
      <4>1. r \in Firing /\ r \in DOMAIN rows /\ rows'[r] = rows[r] /\ rows[r].status = "firing"
        BY <1>2, <2>1, <3>2 DEF Firing
      <4>2. rows[r].node \in Nodes /\ rows[r].name \in Names
        BY <1>3, <4>1, RowFacts DEF Alert
      <4>3. mem[rows[r].node][rows[r].name] = r \/ r \in orphan
        BY <1>6, <4>1 DEF Inv, MemoryAgrees
      <4>4. CASE rows[r].node = n /\ rows[r].name = a /\ r \notin orphan
        <5>1. r = mem[n][a] /\ r # 0
          BY <1>3, <4>1, <4>3, <4>4, RowFacts
        <5>2. r \in Replaced(mem[n][a])
          BY <4>1, <5>1 DEF Replaced
        <5> QED
          BY <1>1, <5>2
      <4>5. CASE ~ (rows[r].node = n /\ rows[r].name = a) \/ r \in orphan
        BY <1>1, <1>4, <4>1, <4>2, <4>3, <4>5
      <4> QED
        BY <4>4, <4>5
    <3> QED
      BY <3>1, <3>2
  <2>2. ASSUME NEW m \in Nodes, NEW b \in Names, mem'[m][b] # 0
        PROVE  rows'[mem'[m][b]].status = "firing" \/ mem'[m][b] \in silent'
    <3>1. CASE m = n /\ b = a
      BY <1>2, <1>4, <3>1
    <3>2. CASE m # n \/ b # a
      <4>1. mem'[m][b] = mem[m][b] /\ Active(m, b) /\ mem[m][b] \in DOMAIN rows
        BY <1>4, <1>5, <2>2, <3>2 DEF Active
      <4>2. rows[mem[m][b]].status = "firing" \/ mem[m][b] \in silent
        BY <4>1 DEF Inv, MemoryAgrees, Active
      <4>3. mem[m][b] # mem[n][a]
        BY <1>2, <3>2, <4>1 DEF Inv, PlaceInv, Active
      <4> QED
        BY <1>1, <1>2, <4>1, <4>2, <4>3
    <3> QED
      BY <3>1, <3>2
  <2> QED
    BY <2>1, <2>2 DEF MemoryAgrees
<1>14. ReservedExact'
  <2>1. inv[new] \notin Working /\ "called" \notin Working
    BY <1>2, NamesAssumption DEF Stages, Working
  <2>2. Cardinality(Holders') = Cardinality(Holders)
    BY <1>1, <1>2, <1>3, <2>1, HoldersMove
  <2> QED
    BY <1>1, <2>2 DEF Inv, ReservedExact, Holders
<1> QED
  BY <1>8, <1>9, <1>10, <1>11, <1>12, <1>13, <1>14 DEF Inv

LEMMA ResolveStep ==
  ASSUME Inv, NEW a \in Names, _resolve_alert(a)
  PROVE  Inv'
<1> DEFINE n == ev.node
           old == mem[n][a]
           p == [resolve |-> FALSE, fire |-> Todo(a).fire]
<1>1. /\ up.on /\ Todo(a).resolve
      /\ rows' = Resolved(old)
      /\ mem' = [mem EXCEPT ![n] = [@ EXCEPT ![a] = 0]]
      /\ silent' = silent \ {old}
      /\ ev' = [ev EXCEPT !.todo = [@ EXCEPT ![a] = p]]
      /\ UNCHANGED <<up, live, seen, inv, reserved, orphan>>
  BY DEF _resolve_alert, ToResolve, NowFire
<1>2. p \in Plan /\ ~ p.resolve
  BY PlanRest
<1> HIDE DEF p
<1>3. /\ ev' \in Evaluation /\ n \in Nodes
      /\ \A b \in Names :
           /\ Todo(b)'.resolve \/ Todo(b)'.fire # None => ev'.node \in Nodes
           /\ Todo(b)'.resolve => b # a /\ Todo(b).resolve /\ ev'.node = n
  BY <1>1, <1>2, LessTodo
<1>4. TypeOK /\ old \in DOMAIN rows
  BY <1>1, <1>3, RowFacts DEF Inv, EvInv
<1>5. /\ rows' \in Seq(Alert) /\ Len(rows') = Len(rows) /\ DOMAIN rows' = DOMAIN rows
      /\ \A r \in DOMAIN rows : /\ rows'[r].node = rows[r].node /\ rows'[r].name = rows[r].name
                                /\ rows'[r].status = "firing" => rows[r].status = "firing"
                                /\ r # old => rows'[r] = rows[r]
      /\ rows'[old].status # "firing"
  BY <1>1, <1>4, ResolvedRelabels DEF Relabels
<1>6. /\ mem'[n][a] = 0
      /\ \A m \in Nodes, b \in Names : m # n \/ b # a => mem'[m][b] = mem[m][b]
      /\ mem' \in [Nodes -> [Names -> 0..Len(rows)]]
  <2>0. Len(rows) \in Nat
    BY <1>4, RowFacts
  <2>1. mem \in [Nodes -> [Names -> 0..Len(rows)]] /\ 0 \in 0..Len(rows) /\ n \in Nodes
    BY <1>3, <1>4, <2>0 DEF TypeOK
  <2>2. mem' = [mem EXCEPT ![n] = [@ EXCEPT ![a] = 0]]
    BY <1>1
  <2> HIDE DEF n
  <2> QED
    BY <2>1, <2>2
<1>7. rows[old].node = n /\ rows[old].name = a
  BY <1>1, <1>3 DEF Inv, EvInv, PlaceInv
<1> HIDE DEF n, old
<1>8. \A m \in Nodes, b \in Names : mem'[m][b] # 0 =>
         /\ mem'[m][b] = mem[m][b] /\ mem[m][b] \in DOMAIN rows /\ mem[m][b] # old
         /\ rows[mem[m][b]].node = m /\ rows[mem[m][b]].name = b
         /\ rows'[mem[m][b]] = rows[mem[m][b]]
  <2> SUFFICES ASSUME NEW m \in Nodes, NEW b \in Names, mem'[m][b] # 0
               PROVE  /\ mem'[m][b] = mem[m][b] /\ mem[m][b] \in DOMAIN rows /\ mem[m][b] # old
                      /\ rows[mem[m][b]].node = m /\ rows[mem[m][b]].name = b
                      /\ rows'[mem[m][b]] = rows[mem[m][b]]
    OBVIOUS
  <2>1. (m # n \/ b # a) /\ mem'[m][b] = mem[m][b]
    BY <1>6
  <2>2. Active(m, b)
    BY <2>1 DEF Active
  <2>3. mem[m][b] \in DOMAIN rows /\ rows[mem[m][b]].node = m /\ rows[mem[m][b]].name = b
    BY <1>4, <2>2, RowFacts DEF Inv, PlaceInv
  <2> QED
    BY <1>5, <1>7, <2>1, <2>3
<1>9. TypeOK'
  BY <1>1, <1>3, <1>4, <1>5, <1>6 DEF TypeOK, Alert, Evaluation, Plan
<1>10. OffInv' /\ InvInv' /\ ReservedExact'
  BY <1>1, <1>5 DEF Inv, OffInv, InvInv, ReservedExact
<1>11. EvInv'
  <2>1. ASSUME NEW b \in Names, Todo(b)'.resolve
        PROVE  mem'[ev'.node][b] # 0
    <3>1. b # a /\ Todo(b).resolve /\ ev'.node = n
      BY <1>3, <2>1
    <3>2. mem[n][b] # 0
      BY <3>1 DEF Inv, EvInv, Active, n
    <3> QED
      BY <1>3, <1>6, <3>1, <3>2
  <2> QED
    BY <1>3, <2>1 DEF EvInv, Active
<1>12. PlaceInv'
  BY <1>5, <1>8 DEF PlaceInv, Active
<1>13. MemoryAgrees'
  <2>1. ASSUME NEW r \in Firing'
        PROVE  mem'[rows'[r].node][rows'[r].name] = r \/ r \in orphan'
    <3>1. r \in DOMAIN rows /\ rows'[r].status = "firing" /\ r # old
      BY <1>5, <2>1 DEF Firing
    <3>2. r \in Firing /\ rows'[r] = rows[r]
      BY <1>5, <3>1 DEF Firing
    <3>3. mem[rows[r].node][rows[r].name] = r \/ r \in orphan
      BY <1>1, <3>2 DEF Inv, MemoryAgrees
    <3>4. rows[r].node \in Nodes /\ rows[r].name \in Names
      BY <1>4, <3>1, RowFacts DEF Alert
    <3> QED
      BY <1>1, <1>6, <3>1, <3>2, <3>3, <3>4 DEF old
  <2>2. ASSUME NEW m \in Nodes, NEW b \in Names, mem'[m][b] # 0
        PROVE  rows'[mem'[m][b]].status = "firing" \/ mem'[m][b] \in silent'
    <3>1. /\ mem'[m][b] = mem[m][b] /\ mem[m][b] # old
          /\ rows'[mem[m][b]] = rows[mem[m][b]]
      BY <1>8, <2>2
    <3>2. rows[mem[m][b]].status = "firing" \/ mem[m][b] \in silent
      BY <2>2, <3>1 DEF Inv, MemoryAgrees
    <3> QED
      BY <1>1, <3>1, <3>2
  <2> QED
    BY <2>1, <2>2 DEF MemoryAgrees
<1> QED
  BY <1>9, <1>10, <1>11, <1>12, <1>13 DEF Inv

LEMMA CarryOutStep ==
  ASSUME Inv, NEW a \in Names, CarryOut(a)
  PROVE  Inv'
<1>1. CASE _fire_alert(a)
  BY <1>1, FireStep
<1>2. CASE NotFired(a)
  <2>1. /\ up.on /\ ToFire(a) /\ Fired(a)
        /\ UNCHANGED <<up, live, rows, mem, seen, inv, reserved, orphan, silent>>
    BY <1>2 DEF NotFired, ToFire
  <2> QED
    BY <2>1, OnlyEvStep
<1>3. CASE _resolve_alert(a)
  BY <1>3, ResolveStep
<1>4. CASE NotResolved(a)
  <2>1. /\ up.on /\ ToResolve(a) /\ NowFire(a)
        /\ UNCHANGED <<up, live, rows, mem, seen, inv, reserved, orphan, silent>>
    BY <1>4 DEF NotResolved, ToResolve
  <2> QED
    BY <2>1, OnlyEvStep
<1> QED
  BY <1>1, <1>2, <1>3, <1>4 DEF CarryOut

LEMMA ReleaseStep ==
  ASSUME Inv, Release \/ Cancelled
  PROVE  Inv'
<1>1. /\ up.on /\ ev' = NoEval
      /\ UNCHANGED <<up, live, rows, mem, seen, inv, reserved, orphan, silent>>
  BY DEF Release, Cancelled
<1> QED
  BY <1>1, OnlyEvStep

LEMMA CancelledAfterInsertStep ==
  ASSUME Inv, NEW a \in Names, CancelledAfterInsert(a)
  PROVE  Inv'
<1> DEFINE new == Len(rows')
<1>1. /\ ToFire(a) /\ Inserted(ev.node, a) /\ ev' = NoEval /\ up.on
      /\ orphan' = orphan \cup {new}
      /\ UNCHANGED <<up, live, mem, seen, inv, reserved, silent>>
  BY DEF CancelledAfterInsert, ToFire
<1>2. /\ rows' \in Seq(Alert) /\ new = Len(rows) + 1 /\ new <= MaxRows
      /\ DOMAIN rows' = DOMAIN rows \cup {new} /\ Len(rows) \in Nat
      /\ \A r \in DOMAIN rows : rows'[r] = rows[r]
      /\ Firing' = Firing \cup {new}
  BY <1>1, InsertedRow
<1>3. \A m \in Nodes, b \in Names : Active(m, b) =>
        mem[m][b] \in DOMAIN rows /\ rows'[mem[m][b]] = rows[mem[m][b]]
  BY <1>2, RowFacts DEF Inv
<1> HIDE DEF new
<1>4. TypeOK'
  <2>1. mem' \in [Nodes -> [Names -> 0..Len(rows')]]
    <3>1. mem \in [Nodes -> [Names -> 0..Len(rows)]] /\ mem' = mem
      BY <1>1 DEF Inv, TypeOK
    <3>2. 0..Len(rows) \subseteq 0..Len(rows')
      BY <1>2 DEF new
    <3> QED
      BY <3>1, <3>2
  <2>2. orphan' \subseteq DOMAIN rows' /\ silent' \subseteq DOMAIN rows'
    BY <1>1, <1>2 DEF Inv, TypeOK
  <2>3. ev' \in Evaluation
    BY <1>1, NoEvalType
  <2> QED
    BY <1>1, <1>2, <2>1, <2>2, <2>3 DEF Inv, TypeOK, Alert, Evaluation, Plan, new
<1>5. OffInv' /\ ReservedExact'
  BY <1>1 DEF Inv, OffInv, ReservedExact
<1>6. InvInv'
  <2>1. \A r \in RowIds : r > new => r > Len(rows)
    BY <1>2 DEF RowIds
  <2> QED
    BY <1>1, <2>1 DEF Inv, InvInv, new
<1>7. EvInv'
  BY <1>1, NoEvalType, NothingPlan DEF EvInv, Todo
<1>8. PlaceInv'
  BY <1>1, <1>3 DEF Inv, PlaceInv, Active
<1>9. MemoryAgrees'
  <2>1. ASSUME NEW r \in Firing'
        PROVE  mem'[rows'[r].node][rows'[r].name] = r \/ r \in orphan'
    <3>1. CASE r = new
      BY <1>1, <3>1
    <3>2. CASE r # new
      <4>1. r \in Firing /\ rows'[r] = rows[r]
        BY <1>2, <2>1, <3>2 DEF Firing
      <4> QED
        BY <1>1, <4>1 DEF Inv, MemoryAgrees
    <3> QED
      BY <3>1, <3>2
  <2>2. ASSUME NEW m \in Nodes, NEW b \in Names, mem'[m][b] # 0
        PROVE  rows'[mem'[m][b]].status = "firing" \/ mem'[m][b] \in silent'
    BY <1>1, <1>3, <2>2 DEF Inv, MemoryAgrees, Active
  <2> QED
    BY <2>1, <2>2 DEF MemoryAgrees
<1> QED
  BY <1>4, <1>5, <1>6, <1>7, <1>8, <1>9 DEF Inv

LEMMA CancelledAfterUpdateStep ==
  ASSUME Inv, NEW a \in Names, CancelledAfterUpdate(a)
  PROVE  Inv'
<1> DEFINE old == mem[ev.node][a]
<1>1. /\ up.on /\ Todo(a).resolve /\ rows' = Resolved(old)
      /\ silent' = silent \cup {old} /\ ev' = NoEval
      /\ UNCHANGED <<up, live, mem, seen, inv, reserved, orphan>>
  BY DEF CancelledAfterUpdate, ToResolve
<1>2. TypeOK /\ old \in DOMAIN rows
  BY <1>1, RowFacts DEF Inv, EvInv
<1> HIDE DEF old
<1>3. Relabels(rows') /\ \A r \in DOMAIN rows \ {old} : rows'[r] = rows[r]
  BY <1>1, <1>2, ResolvedRelabels
<1>4. \A r \in Entries : rows[r].status = "firing" /\ rows'[r].status # "firing" => r \in silent'
  BY <1>1, <1>2, <1>3, RowFacts
<1>5. orphan' \subseteq DOMAIN rows /\ silent' \subseteq DOMAIN rows
  BY <1>1, <1>2 DEF TypeOK
<1> QED
  BY <1>1, <1>3, <1>4, <1>5, RelabelStep

LEMMA AcknowledgeStep ==
  ASSUME Inv, NEW r \in RowIds, acknowledge_alert(r)
  PROVE  Inv'
<1>1. /\ up.on /\ r \in DOMAIN rows /\ rows' = Resolved(r)
      /\ silent' = silent \cup ({r} \cap Entries) /\ orphan' = orphan \ {r}
      /\ UNCHANGED <<up, live, mem, seen, ev, inv, reserved>>
  BY DEF acknowledge_alert
<1>2. TypeOK
  BY DEF Inv
<1>3. /\ Relabels(rows') /\ rows'[r].status # "firing"
      /\ \A q \in DOMAIN rows \ {r} : rows'[q] = rows[q]
  BY <1>1, <1>2, ResolvedRelabels
<1>4. \A q \in Entries : rows[q].status = "firing" /\ rows'[q].status # "firing" => q \in silent'
  BY <1>1, <1>2, <1>3, RowFacts
<1>5. orphan' \subseteq DOMAIN rows /\ silent' \subseteq DOMAIN rows
  BY <1>1, <1>2, RowFacts DEF TypeOK
<1>6. \A q \in orphan : rows'[q].status = "firing" => q \in orphan'
  BY <1>1, <1>3
<1> QED
  BY <1>1, <1>3, <1>4, <1>5, <1>6, RelabelStep

LEMMA CleanupStep ==
  ASSUME Inv, cleanup_old_alerts
  PROVE  Inv'
<1> DEFINE old == {r \in DOMAIN rows : rows[r].status = "resolved"}
<1>1. /\ up.on
      /\ rows' = [r \in DOMAIN rows |-> IF r \in old
                    THEN [rows[r] EXCEPT !.status = "gone"] ELSE rows[r]]
      /\ UNCHANGED <<up, live, mem, seen, ev, inv, reserved, orphan, silent>>
  BY DEF cleanup_old_alerts
<1>2. TypeOK /\ old \in SUBSET DOMAIN rows
  BY DEF Inv
<1>3. \A r \in old : rows[r].status # "firing"
  OBVIOUS
<1> HIDE DEF old
<1>4. Relabels(rows') /\ \A r \in DOMAIN rows \ old : rows'[r] = rows[r]
  BY <1>1, <1>2, SweptRelabels
<1>5. \A r \in Entries : rows[r].status = "firing" /\ rows'[r].status # "firing" => r \in silent'
  BY <1>2, <1>3, <1>4, RowFacts
<1>6. orphan' \subseteq DOMAIN rows /\ silent' \subseteq DOMAIN rows
  BY <1>1, <1>2 DEF TypeOK
<1> QED
  BY <1>1, <1>4, <1>5, <1>6, RelabelStep

LEMMA DeleteStep ==
  ASSUME Inv, NEW n \in Nodes, delete_node(n)
  PROVE  Inv'
<1> DEFINE its == {r \in DOMAIN rows : rows[r].node = n}
<1>1. /\ up.on /\ live' = live \ {n}
      /\ rows' = [r \in DOMAIN rows |-> IF r \in its
                    THEN [rows[r] EXCEPT !.status = "gone"] ELSE rows[r]]
      /\ silent' = silent \cup {r \in Entries : rows[r].node = n}
      /\ orphan' = {r \in orphan : rows[r].node # n}
      /\ UNCHANGED <<up, mem, seen, ev, inv, reserved>>
  BY DEF delete_node
<1>2. TypeOK /\ its \in SUBSET DOMAIN rows
  BY DEF Inv
<1>3. \A r \in DOMAIN rows : r \in its <=> rows[r].node = n
  OBVIOUS
<1> HIDE DEF its
<1>4. /\ Relabels(rows') /\ \A r \in DOMAIN rows \ its : rows'[r] = rows[r]
      /\ \A r \in its : rows'[r].status = "gone"
  BY <1>1, <1>2, SweptRelabels
<1>5. \A r \in Entries : rows[r].status = "firing" /\ rows'[r].status # "firing" => r \in silent'
  BY <1>1, <1>2, <1>3, <1>4, RowFacts
<1>6. orphan' \subseteq DOMAIN rows /\ silent' \subseteq DOMAIN rows
  BY <1>1, <1>2, RowFacts DEF TypeOK
<1>7. \A r \in orphan : rows'[r].status = "firing" => r \in orphan'
  BY <1>1, <1>2, <1>3, <1>4 DEF TypeOK
<1> QED
  BY <1>1, <1>4, <1>5, <1>6, <1>7, RelabelStep

LEMMA CrashStep ==
  ASSUME Inv, Crash
  PROVE  Inv'
<1>1. /\ ~ up'.on /\ up' \in [on : BOOLEAN, stops : 0..MaxCrashes]
      /\ mem' = NoAlert /\ seen' = {} /\ ev' = NoEval /\ reserved' = 0
      /\ UNCHANGED <<live, rows, orphan, silent>>
  BY BoundsAssumption DEF Crash, Inv, TypeOK
<1>2. \A r \in RowIds : inv'[r] = IF inv[r] \in {"queued", "running"} THEN "stuck"
                                  ELSE IF inv[r] \in {"called", "inserting"} THEN None
                                  ELSE inv[r]
  <2> SUFFICES ASSUME NEW r \in RowIds
               PROVE  inv'[r] = IF inv[r] \in {"queued", "running"} THEN "stuck"
                                ELSE IF inv[r] \in {"called", "inserting"} THEN None
                                ELSE inv[r]
    OBVIOUS
  <2>1. inv'[r] = CASE inv[r] \in {"queued", "running"} -> "stuck"
                    [] inv[r] \in {"called", "inserting"} -> None
                    [] OTHER -> inv[r]
    BY DEF Crash
  <2>2. CASE inv[r] \in {"queued", "running"}
    BY <2>1, <2>2
  <2>3. CASE inv[r] \in {"called", "inserting"}
    BY <2>1, <2>3
  <2>4. CASE inv[r] \notin {"queued", "running"} /\ inv[r] \notin {"called", "inserting"}
    BY <2>1, <2>4
  <2> QED
    BY <2>2, <2>3, <2>4
<1>3. \A r \in RowIds : inv'[r] \in {None, "called", "done", "stuck"} /\ inv'[r] \notin Working
  BY <1>2, NamesAssumption DEF Inv, TypeOK, Stages, Working
<1>4. inv' = [r \in RowIds |-> inv'[r]]
  BY DEF Crash
<1>5. \A m \in Nodes, b \in Names : mem'[m][b] = 0
  BY <1>1 DEF NoAlert
<1>6. TypeOK'
  <2>1. mem' \in [Nodes -> [Names -> 0..Len(rows')]]
    <3>1. NoAlert \in [Nodes -> [Names -> {0}]]
      BY DEF NoAlert
    <3>2. 0 \in 0..Len(rows') /\ rows' = rows
      BY <1>1, RowFacts DEF Inv
    <3> QED
      BY <1>1, <3>1, <3>2
  <2>2. inv' \in [RowIds -> Stages \cup {None}]
    BY <1>3, <1>4 DEF Stages
  <2>3. ev' \in Evaluation /\ reserved' \in 0..MaxConcurrent
    BY <1>1, NoEvalType, BoundsAssumption
  <2> QED
    BY <1>1, <2>1, <2>2, <2>3 DEF Inv, TypeOK, Evaluation, Plan
<1>7. OffInv' /\ EvInv'
  BY <1>1, NoEvalType, NothingPlan DEF OffInv, EvInv, Todo
<1>8. PlaceInv' /\ MemoryAgrees'
  BY <1>1, <1>5 DEF PlaceInv, Active, MemoryAgrees
<1>9. InvInv'
  <2>1. \A r \in RowIds : inv[r] = None => inv'[r] = None
    BY <1>2, NamesAssumption DEF Stages, Working
  <2> QED
    BY <1>1, <2>1 DEF Inv, InvInv
<1>10. ReservedExact'
  <2>1. {r \in RowIds : inv'[r] \in Working} = {}
    BY <1>3
  <2> QED
    BY <1>1, <2>1, FS_EmptySet DEF ReservedExact
<1> QED
  BY <1>6, <1>7, <1>8, <1>9, <1>10 DEF Inv

LEMMA InitializeStep ==
  ASSUME Inv, initialize \/ InitializeFails
  PROVE  Inv'
<1>1. /\ ~ up.on /\ up' = [up EXCEPT !.on = TRUE] /\ silent' = {}
      /\ UNCHANGED <<live, rows, seen, ev, inv, reserved>>
  BY DEF initialize, InitializeFails
<1>2. TypeOK /\ mem = NoAlert /\ ev = NoEval
  BY <1>1 DEF Inv, OffInv
<1>3. Firing \subseteq DOMAIN rows
  BY DEF Firing
<1>4. /\ mem' \in [Nodes -> [Names -> 0..Len(rows)]]
      /\ orphan' \subseteq DOMAIN rows
      /\ \A n \in Nodes, a \in Names : mem'[n][a] # 0 => mem'[n][a] \in FiringRows(n, a)
      /\ \A r \in Firing : mem'[rows[r].node][rows[r].name] = r \/ r \in orphan'
  <2>1. CASE InitializeFails
    <3>1. mem' = mem /\ orphan' = Firing
      BY <2>1 DEF InitializeFails
    <3>2. \A n \in Nodes, a \in Names : mem'[n][a] = 0
      BY <1>2, <3>1 DEF NoAlert
    <3>3. mem' \in [Nodes -> [Names -> 0..Len(rows)]]
      BY <1>2, <3>1 DEF TypeOK
    <3> QED
      BY <1>3, <3>1, <3>2, <3>3
  <2>2. CASE initialize
    <3>1. /\ mem' = Restored
          /\ orphan' = {r \in Firing : \E q \in FiringRows(rows[r].node, rows[r].name) : q > r}
      BY <2>2 DEF initialize
    <3>2. \A n \in Nodes, a \in Names :
            \/ FiringRows(n, a) = {} /\ Restored[n][a] = 0
            \/ /\ Restored[n][a] \in FiringRows(n, a)
               /\ \A q \in FiringRows(n, a) : q <= Restored[n][a]
      <4> TAKE n \in Nodes, a \in Names
      <4>1. CASE FiringRows(n, a) = {}
        BY <4>1 DEF Restored
      <4>2. CASE FiringRows(n, a) # {}
        BY <1>2, <4>2, LastFiring
      <4> QED
        BY <4>1, <4>2
    <3>3. \A n \in Nodes, a \in Names : FiringRows(n, a) \subseteq 1..Len(rows)
      BY <1>2, RowFacts DEF FiringRows
    <3>4. Restored \in [Nodes -> [Names -> 0..Len(rows)]]
      <4>1. \A n \in Nodes, a \in Names : Restored[n][a] \in 0..Len(rows)
        BY <1>2, <3>2, <3>3, RowFacts
      <4>2. \A n \in Nodes : Restored[n] = [a \in Names |-> Restored[n][a]]
        BY DEF Restored
      <4>3. Restored = [n \in Nodes |-> Restored[n]]
        BY DEF Restored
      <4> QED
        BY <4>1, <4>2, <4>3, Zenon
    <3>5. ASSUME NEW r \in Firing, r \notin orphan'
          PROVE  mem'[rows[r].node][rows[r].name] = r
      <4>1. r \in DOMAIN rows /\ rows[r].node \in Nodes /\ rows[r].name \in Names
        BY <1>2, <1>3, RowFacts DEF Alert
      <4>2. r \in FiringRows(rows[r].node, rows[r].name)
        BY <4>1 DEF Firing, FiringRows
      <4>3. \A q \in FiringRows(rows[r].node, rows[r].name) : ~ (q > r)
        BY <3>1, <3>5
      <4>4. \A q \in FiringRows(rows[r].node, rows[r].name) : q \in Nat
        BY <3>3, <4>1
      <4> QED
        BY <3>1, <3>2, <4>1, <4>2, <4>3, <4>4
    <3> QED
      BY <1>3, <3>1, <3>2, <3>4, <3>5
  <2> QED
    BY <2>1, <2>2
<1>5. TypeOK'
  BY <1>1, <1>2, <1>4 DEF TypeOK
<1>6. OffInv' /\ InvInv' /\ ReservedExact'
  BY <1>1, <1>2 DEF Inv, OffInv, InvInv, ReservedExact, TypeOK
<1>7. EvInv'
  BY <1>1, <1>2, NoEvalType, NothingPlan DEF EvInv, Todo
<1>8. PlaceInv' /\ MemoryAgrees'
  BY <1>1, <1>4 DEF PlaceInv, MemoryAgrees, Active, FiringRows, Firing
<1> QED
  BY <1>5, <1>6, <1>7, <1>8 DEF Inv

(* An investigation moves on, and the count of slots with it.              *)
LEMMA StageStep ==
  ASSUME Inv, NEW r \in RowIds, NEW from \in Working \cup {"called"},
         NEW to \in Working \cup {None, "done", "stuck"},
         Stage(r, from, to), UNCHANGED Engine,
         reserved' = reserved + (IF to \in Working THEN 1 ELSE 0)
                              - (IF from \in Working THEN 1 ELSE 0),
         from \notin Working /\ to \in Working => reserved < MaxConcurrent
  PROVE  Inv'
<1>1. up.on /\ inv[r] = from /\ inv' = [inv EXCEPT ![r] = to]
  BY DEF Stage
<1>2. UNCHANGED <<up, live, rows, mem, seen, ev, orphan, silent>>
  BY DEF Engine
<1>3. TypeOK /\ ReservedExact /\ MaxConcurrent \in Nat /\ reserved \in 0..MaxConcurrent
  BY BoundsAssumption DEF Inv, TypeOK
<1>4. /\ Cardinality(Holders) \in Nat
      /\ Cardinality(Holders') = IF from \in Working <=> to \in Working THEN Cardinality(Holders)
                                 ELSE IF to \in Working THEN Cardinality(Holders) + 1
                                 ELSE Cardinality(Holders) - 1
      /\ from \in Working => Cardinality(Holders) > 0
  BY <1>1, <1>3, HoldersMove
<1>5. reserved = Cardinality(Holders)
  BY <1>3 DEF ReservedExact, Holders
<1>6. reserved' = Cardinality(Holders') /\ reserved' \in 0..MaxConcurrent
  BY <1>3, <1>4, <1>5
<1>7. inv' \in [RowIds -> Stages \cup {None}]
  BY <1>1, <1>3 DEF TypeOK, Stages
<1>8. TypeOK'
  BY <1>2, <1>3, <1>6, <1>7 DEF TypeOK
<1>9. InvInv'
  <2>1. from # None
    BY NamesAssumption DEF Stages
  <2>2. ~ (r > Len(rows))
    BY <1>1, <2>1 DEF Inv, InvInv
  <2> QED
    BY <1>1, <1>2, <1>3, <2>2 DEF Inv, InvInv, TypeOK
<1>10. ReservedExact'
  BY <1>6 DEF ReservedExact, Holders
<1>11. OffInv' /\ EvInv' /\ PlaceInv' /\ MemoryAgrees'
  BY <1>2 DEF Inv, OffInv, EvInv, Todo, PlaceInv, Active, MemoryAgrees, Firing
<1> QED
  BY <1>8, <1>9, <1>10, <1>11 DEF Inv

LEMMA InvestigateStep ==
  ASSUME Inv, NEW r \in RowIds, Investigate(r)
  PROVE  Inv'
<1>0. /\ reserved \in Nat /\ MaxConcurrent \in Nat
      /\ \A to \in {None, "called", "done", "stuck"} : to \notin Working
      /\ {"inserting", "queued", "running"} = Working
  BY BoundsAssumption, NamesAssumption DEF Inv, TypeOK, Stages, Working
<1>1. CASE on_alert_fired(r)
  <2>1. CASE reserved >= MaxConcurrent
    <3>1. Stage(r, "called", "done") /\ reserved' = reserved /\ UNCHANGED Engine
      BY <1>1, <2>1 DEF on_alert_fired
    <3> QED
      BY <1>0, <3>1, StageStep
  <2>2. CASE ~ (reserved >= MaxConcurrent)
    <3>1. Stage(r, "called", "inserting") /\ reserved' = reserved + 1 /\ UNCHANGED Engine
      BY <1>1, <2>2 DEF on_alert_fired
    <3>2. reserved < MaxConcurrent
      BY <1>0, <2>2
    <3> QED
      BY <1>0, <3>1, <3>2, StageStep
  <2> QED
    BY <2>1, <2>2
<1>2. CASE Queued(r)
  <2>1. Stage(r, "inserting", "queued") /\ reserved' = reserved /\ UNCHANGED Engine
    BY <1>2 DEF Queued
  <2> QED
    BY <1>0, <2>1, StageStep
<1>3. CASE NotQueued(r)
  <2>1. Stage(r, "inserting", None) /\ reserved' = reserved - 1 /\ UNCHANGED Engine
    BY <1>3 DEF NotQueued
  <2> QED
    BY <1>0, <2>1, StageStep
<1>4. CASE _run_investigation(r)
  <2>1. Stage(r, "queued", "running") /\ reserved' = reserved /\ UNCHANGED Engine
    BY <1>4 DEF _run_investigation
  <2> QED
    BY <1>0, <2>1, StageStep
<1>5. CASE NoSession(r)
  <2>1. Stage(r, "queued", "stuck") /\ reserved' = reserved - 1 /\ UNCHANGED Engine
    BY <1>5 DEF NoSession
  <2> QED
    BY <1>0, <2>1, StageStep
<1>6. CASE Concluded(r)
  <2>1. PICK to \in {"done", "stuck"} : Stage(r, "running", to)
    BY <1>6 DEF Concluded
  <2>2. reserved' = reserved - 1 /\ UNCHANGED Engine
    BY <1>6 DEF Concluded
  <2> QED
    BY <1>0, <2>1, <2>2, StageStep
<1> QED
  BY <1>1, <1>2, <1>3, <1>4, <1>5, <1>6 DEF Investigate

LEMMA DisturbStep ==
  ASSUME Inv, Disturb
  PROVE  Inv'
<1>1. CASE Cancelled
  BY <1>1, ReleaseStep
<1>2. CASE \E a \in Names : CancelledAfterInsert(a) \/ CancelledAfterUpdate(a)
  BY <1>2, CancelledAfterInsertStep, CancelledAfterUpdateStep
<1>3. CASE cleanup_old_alerts
  BY <1>3, CleanupStep
<1>4. CASE Crash
  BY <1>4, CrashStep
<1>5. CASE initialize \/ InitializeFails
  BY <1>5, InitializeStep
<1>6. CASE \E r \in RowIds : acknowledge_alert(r)
  BY <1>6, AcknowledgeStep
<1>7. CASE \E n \in Nodes : delete_node(n)
  BY <1>7, DeleteStep
<1> QED
  BY <1>1, <1>2, <1>3, <1>4, <1>5, <1>6, <1>7 DEF Disturb

LEMMA NextInv ==
  ASSUME Inv, [Next]_vars
  PROVE  Inv'
<1>1. CASE Evaluate
  BY <1>1, EvaluateStep
<1>2. CASE Release
  BY <1>2, ReleaseStep
<1>3. CASE Disturb
  BY <1>3, DisturbStep
<1>4. CASE \E a \in Names : CarryOut(a)
  BY <1>4, CarryOutStep
<1>5. CASE \E r \in RowIds : Investigate(r)
  BY <1>5, InvestigateStep
<1>6. CASE UNCHANGED vars
  BY <1>6 DEF vars, Inv, TypeOK, OffInv, EvInv, Todo, PlaceInv, Active, InvInv, MemoryAgrees,
              Firing, ReservedExact
<1> QED
  BY <1>1, <1>2, <1>3, <1>4, <1>5, <1>6 DEF Next

-----------------------------------------------------------------------------
(* The inductive invariant: what an evaluation plans is about entries that *)
(* are there, an entry is a row of its alert, an investigation follows its *)
(* row, and nothing survives the process.                                  *)
THEOREM Invariance == Spec => []Inv
<1>1. Init => Inv
  BY InitInv
<1>2. Inv /\ [Next]_vars => Inv'
  BY NextInv
<1> QED
  BY <1>1, <1>2, PTL DEF Spec

(* The variables of the alert engine and of the investigations keep their  *)
(* shapes; the reserved slots stay within _max_concurrent.                 *)
THEOREM TypeCorrect == Spec => []TypeOK
<1>1. Inv => TypeOK
  BY DEF Inv
<1> QED
  BY <1>1, Invariance, PTL

(* _active_alerts and the alerts table agree, but for the rows a cancelled *)
(* or failed evaluation or a failed start left behind, and for the entries *)
(* of rows that acknowledge_alert, delete_node or a cancellation closed.   *)
THEOREM MemoryMirrorsTheTable == Spec => []MemoryAgrees
<1>1. Inv => MemoryAgrees
  BY DEF Inv
<1> QED
  BY <1>1, Invariance, PTL

(* InvestigationManager._reserved is the number of investigations under    *)
(* way, through every failure: no slot leaks, none is given back twice.    *)
THEOREM SlotsAreCounted == Spec => []ReservedExact
<1>1. Inv => ReservedExact
  BY DEF Inv
<1> QED
  BY <1>1, Invariance, PTL
=============================================================================
