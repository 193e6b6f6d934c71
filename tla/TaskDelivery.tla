----------------------------- MODULE TaskDelivery -----------------------------
(***************************************************************************)
(* What the outbox promises about a deferred task, without tables, clocks, *)
(* claims or drainers (the header comment of runtime/outbox.ts): a task    *)
(* that was accepted is owed until its handler has succeeded or has failed *)
(* Attempts times; success may be repeated while the task is owed          *)
(* (at-least-once), never afterwards.                                      *)
(***************************************************************************)
EXTENDS Naturals

CONSTANTS
  Task,       \* task ids
  Attempts    \* runs before a task is dead-lettered

VARIABLES
  state,      \* where a task is in its life
  failures,   \* failed runs that were recorded
  effects     \* times the handler took effect

vars == <<state, failures, effects>>

Init ==
  /\ state = [t \in Task |-> "none"]
  /\ failures = [t \in Task |-> 0]
  /\ effects = [t \in Task |-> 0]

Accept(t) ==
  /\ state[t] = "none"
  /\ state' = [state EXCEPT ![t] = "owed"]
  /\ UNCHANGED <<failures, effects>>

(* A keyed request for a dead task: the dead one is dropped, a new one owed. *)
AcceptInPlaceOf(old, t) ==
  /\ state[t] = "none"
  /\ state[old] = "dead"
  /\ state' = [state EXCEPT ![old] = "gone", ![t] = "owed"]
  /\ failures' = [failures EXCEPT ![old] = 0]
  /\ UNCHANGED effects

TakeEffect(t) ==
  /\ state[t] = "owed"
  /\ effects' = [effects EXCEPT ![t] = @ + 1]
  /\ UNCHANGED <<state, failures>>

Deliver(t) ==
  /\ state[t] = "owed"
  /\ effects[t] > 0
  /\ state' = [state EXCEPT ![t] = "delivered"]
  /\ UNCHANGED <<failures, effects>>

Fail(t) ==
  /\ state[t] = "owed"
  /\ failures[t] < Attempts
  /\ failures' = [failures EXCEPT ![t] = @ + 1]
  /\ state' = [state EXCEPT ![t] = IF failures[t] + 1 = Attempts THEN "dead" ELSE "owed"]
  /\ UNCHANGED effects

Forget(S) ==
  /\ \A t \in S : state[t] = "delivered"
  /\ state' = [t \in Task |-> IF t \in S THEN "gone" ELSE state[t]]
  /\ failures' = [t \in Task |-> IF t \in S THEN 0 ELSE failures[t]]
  /\ UNCHANGED effects

Next ==
  \/ \E t \in Task : Accept(t) \/ TakeEffect(t) \/ Deliver(t) \/ Fail(t)
  \/ \E old, t \in Task : AcceptInPlaceOf(old, t)
  \/ \E S \in SUBSET Task : Forget(S)

Spec == Init /\ [][Next]_vars
=============================================================================
