----------------------------- MODULE ApiProcess -----------------------------
(* What the services in the API process share: the models they name, and the *)
(* budget of events that bounds a behaviour.                                 *)
EXTENDS Naturals

CONSTANTS
  Models, NoModel,
  MaxEvents   \* bound: requests, changes of tests and failures, together

ASSUME ApiProcessAssumption == NoModel \notin Models /\ MaxEvents \in Nat

VARIABLES
  spent,   \* events so far
  faulty   \* history: a Redis call failed, or the process restarted

budget == <<spent, faulty>>

Spend(n) == spent + n <= MaxEvents /\ spent' = spent + n /\ UNCHANGED faulty

Spare == Spend(0)
=============================================================================
