------------------------------ MODULE MCServing ------------------------------
(* The serving side for TLC: two tests over the same models, swapped.  A run *)
(* starts from a fresh process, or, so that loads can overlap within the     *)
(* bound, from a state it reaches: one test runs, the other is a draft, and  *)
(* the champion has been loaded with all its parts; or, for a batch beside   *)
(* loads, from such a state without tests.                                   *)
EXTENDS Serving, TLC

CONSTANTS t1, t2, m1, m2, c1, SpentBefore

MCChampion == (t1 :> m1) @@ (t2 :> m2)
MCChallenger == (t1 :> m2) @@ (t2 :> m1)

\* The batch of these starts is over.
FreshLocal ==
  /\ ABInit /\ InfInit /\ ~azure /\ ~stage2
  /\ req = [c \in Callers |-> NoRequest] /\ batch = Over

Served ==
  /\ issued = Tests /\ faulty = FALSE
  /\ azure \in BOOLEAN /\ stage2 = azure
  /\ svc = [loaded |-> m1, onnx |-> TRUE,
            part |-> [p \in Parts |-> IF p = "pipeline" THEN NoModel ELSE m1],
            stage2 |-> [by |-> NoCaller, ready |-> FALSE]]
  /\ spent = SpentBefore /\ turn = NoCaller /\ tainted = FALSE

Serves ==
  LET running == [Empty EXCEPT !.active = t1,
                    !.tests = (t1 :> [Draft EXCEPT !.status = "RUNNING"]) @@ (t2 :> Draft)]
  IN
  /\ ab = [mem |-> running, store |-> running, stored |-> TRUE, updates |-> NoUpdates]
  /\ Served /\ batch = Over
  /\ load = [c \in Callers |-> Resting] /\ req = [c \in Callers |-> NoRequest]

\* Both tests have been deleted, and c1 is about to load the challenger.
Batched ==
  /\ ab = [mem |-> Empty, store |-> Empty, stored |-> TRUE, updates |-> NoUpdates]
  /\ Served /\ batch = NoBatch
  /\ load = [c \in Callers |->
               IF c = c1 THEN [at |-> "select", model |-> m2, clean |-> TRUE] ELSE Resting]
  /\ req = [c \in Callers |-> [NoRequest EXCEPT !.at = IF c = c1 THEN "load" ELSE @]]

MCSpec == (FreshLocal \/ Serves \/ Batched) /\ [][Next]_vars /\ Fairness
=============================================================================
