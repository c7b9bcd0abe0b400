------------------------------- MODULE MCAlerts -------------------------------
(* One threshold: 0 resolves, 1 does nothing, 2 warns, 3 is critical. *)
EXTENDS Alerts
Builtin ==
  [t \in Thresholds |-> [warning_at |-> 1, critical_at |-> 2, resolve_at |-> 0, operator |-> "gt"]]
=============================================================================
