------------------------------- MODULE HitlGate -------------------------------
(***************************************************************************)
(* What the proposal machinery promises, without its tasks, tables and     *)
(* sockets: an action reaches a worker only after someone entitled to it   *)
(* approved it, at most once, and it is the action that was asked for.     *)
(***************************************************************************)
EXTENDS Naturals

CONSTANTS
  Props,      \* proposals
  Actions,    \* what a proposal can ask for
  Approvers,  \* who may approve
  Entitled    \* the pairs <<a, u>> where u may approve the action a

VARIABLES
  asked,      \* the action the proposal asks for, "none" before it exists
  approver,   \* who approved the proposal last, "none" for nobody
  delivered   \* how often its intent was handed to the worker

gateVars == <<asked, approver, delivered>>

GateInit ==
  /\ asked = [p \in Props |-> "none"]
  /\ approver = [p \in Props |-> "none"]
  /\ delivered = [p \in Props |-> 0]

Ask(p, a) ==
  /\ asked[p] = "none"
  /\ asked' = [asked EXCEPT ![p] = a]
  /\ UNCHANGED <<approver, delivered>>

Approve(p, u) ==
  /\ <<asked[p], u>> \in Entitled
  /\ approver' = [approver EXCEPT ![p] = u]
  /\ UNCHANGED <<asked, delivered>>

\* An operator acts directly: the request is its own approval.
AskApproved(p, a, u) ==
  /\ asked[p] = "none"
  /\ <<a, u>> \in Entitled
  /\ asked' = [asked EXCEPT ![p] = a]
  /\ approver' = [approver EXCEPT ![p] = u]
  /\ UNCHANGED delivered

Deliver(p) ==
  /\ approver[p] # "none"
  /\ delivered[p] = 0
  /\ delivered' = [delivered EXCEPT ![p] = 1]
  /\ UNCHANGED <<asked, approver>>

GateNext ==
  \E p \in Props :
    \/ Deliver(p)
    \/ \E a \in Actions : Ask(p, a)
    \/ \E u \in Approvers : Approve(p, u)
    \/ \E a \in Actions, u \in Approvers : AskApproved(p, a, u)

GateSpec == GateInit /\ [][GateNext]_gateVars
=============================================================================
