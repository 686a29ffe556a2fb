------------------------------ MODULE Baselines ------------------------------
(***************************************************************************)
(* The performance baselines of one model: requests that replace them, the *)
(* predictions logged and the labels that come back for them, and the      *)
(* check that compares the two (BaselineService, check_performance_        *)
(* baselines).  Ratios are pairs, compared by products.                    *)
(***************************************************************************)
EXTENDS Integers, FiniteSets

CONSTANTS
  Setters,      \* requests that set the baselines, one replacement each
  Measures,     \* bound: the metrics a request names
  MaxLogged     \* bound: predictions in the window of seven days

ASSUME BaselineAssumption ==
  /\ Measures \subseteq {"precision", "recall", "f1", "auc", "fpr"} /\ MaxLogged \in Nat

VARIABLES
  baselines,    \* the rows of the model
  setting,      \* each request: its next step and the rows its DELETE sees
  logged,       \* the predictions in the window, by prediction and label
  trained,      \* what the model's metrics of the training hold
  checking      \* the check: its next step, the values it read, its violations

baselineVars == <<baselines, setting, logged, trained, checking>>

-----------------------------------------------------------------------------
NoLabel == 2
Cells == {0, 1} \X {0, 1, NoLabel}
LoggedTotal == logged[<<0, 0>>] + logged[<<0, 1>>] + logged[<<1, 0>>] + logged[<<1, 1>>]
               + logged[<<0, NoLabel>>] + logged[<<1, NoLabel>>]

\* DEFAULT_BASELINES, in hundredths; a request may set other limits.
DefaultLimit ==
  [precision |-> 85, recall |-> 80, f1 |-> 82, auc |-> 90, fpr |-> 10]
Operator(m) == IF m = "fpr" THEN "lte" ELSE "gte"

\* The AUC of a test set of one class is None.
NoValue == <<>>
Trained == {[auc |-> <<95, 100>>], [auc |-> NoValue]}
Untrained == [auc |-> <<>>, set |-> FALSE]

SetterIdle == [pc |-> "idle", target |-> {}, dropped |-> {}]
CheckIdle == [pc |-> "idle", values |-> <<>>, violated |-> {}]

BaselinesInit ==
  /\ baselines = {}
  /\ setting = [s \in Setters |-> SetterIdle]
  /\ logged = [c \in Cells |-> 0]
  /\ trained = Untrained
  /\ checking = CheckIdle

-----------------------------------------------------------------------------
(* set_baselines: DELETE, then INSERT and COMMIT.  The DELETE sees the rows *)
(* committed when it starts and waits for those another one has deleted;   *)
(* when that one has committed it leaves them out, and the rows inserted   *)
(* meanwhile too.                                                          *)

BeginSetting(s) ==
  /\ setting[s].pc = "idle"
  /\ setting' = [setting EXCEPT ![s] = [pc |-> "delete", target |-> baselines, dropped |-> {}]]
  /\ UNCHANGED <<baselines, logged, trained, checking>>

DeleteBaselines(s) ==
  /\ setting[s].pc = "delete"
  /\ \A other \in Setters \ {s} :
       setting[other].pc = "insert" => setting[other].dropped \cap setting[s].target = {}
  /\ setting' = [setting EXCEPT ![s] = [@ EXCEPT !.pc = "insert", !.dropped = setting[s].target \cap baselines]]
  /\ UNCHANGED <<baselines, logged, trained, checking>>

\* over: history, the rows there were when the DELETE began.
NewBaselines(s) ==
  {[metric |-> m, by |-> s, over |-> {b.by : b \in setting[s].target}] : m \in Measures}

\* Mutant: the rows of the model are not deleted but added to.
AddedBaselines(s) == baselines \cup NewBaselines(s)

ReplacedBaselines(s) == (baselines \ setting[s].dropped) \cup NewBaselines(s)

CommitBaselines(s) ==
  /\ setting[s].pc = "insert"
  /\ baselines' = ReplacedBaselines(s)
  /\ setting' = [setting EXCEPT ![s].pc = "over"]
  /\ UNCHANGED <<logged, trained, checking>>

SetterFails(s) ==
  /\ setting[s].pc \in {"delete", "insert"}
  /\ setting' = [setting EXCEPT ![s].pc = "over"]
  /\ UNCHANGED <<baselines, logged, trained, checking>>

-----------------------------------------------------------------------------
LogPrediction(p) ==
  /\ LoggedTotal < MaxLogged
  /\ logged' = [logged EXCEPT ![<<p, NoLabel>>] = @ + 1]
  /\ UNCHANGED <<baselines, setting, trained, checking>>

\* A label may be given again, and be another one.
GiveFeedback(p, old, new) ==
  /\ logged[<<p, old>>] > 0 /\ old # new
  /\ logged' = [logged EXCEPT ![<<p, old>>] = @ - 1, ![<<p, new>>] = @ + 1]
  /\ UNCHANGED <<baselines, setting, trained, checking>>

\* The window of seven days moves on.
LeaveWindow(c) ==
  /\ logged[c] > 0 /\ logged' = [logged EXCEPT ![c] = @ - 1]
  /\ UNCHANGED <<baselines, setting, trained, checking>>

-----------------------------------------------------------------------------
(* The check.                                                              *)

Ratio(part, whole) == IF whole > 0 THEN <<part, whole>> ELSE <<0, 1>>

\* 2pr / (p + r) of p = tp / (tp + fp) and r = tp / (tp + fn).
Measured(l) ==
  LET tp == l[<<1, 1>>]   fp == l[<<1, 0>>]   fn == l[<<0, 1>>]   tn == l[<<0, 0>>]
  IN [precision |-> Ratio(tp, tp + fp), recall |-> Ratio(tp, tp + fn),
      f1 |-> Ratio(IF tp > 0 THEN 2 * tp ELSE 0, 2 * tp + fp + fn), fpr |-> Ratio(fp, fp + tn)]

HasFeedback(l) == \E c \in {0, 1} \X {0, 1} : l[c] > 0

\* Without labels the training's own metrics are checked, which have no fpr.
Values(l) ==
  LET own == [precision |-> <<9, 10>>, recall |-> <<9, 10>>, f1 |-> <<9, 10>>, auc |-> trained.auc]
  IN IF HasFeedback(l) THEN [m \in DOMAIN Measured(l) \cup {"auc"} |->
                               IF m = "auc" THEN trained.auc ELSE Measured(l)[m]]
     ELSE own

\* Mutant: every operator is taken for gte.
PassesAbove(m, v) == v[1] * 100 >= DefaultLimit[m] * v[2]

Passes(m, v) ==
  IF Operator(m) = "gte" THEN v[1] * 100 >= DefaultLimit[m] * v[2]
  ELSE v[1] * 100 <= DefaultLimit[m] * v[2]

\* A metric there is no value of is violated.
Violated(values, metrics) ==
  {m \in metrics : m \notin DOMAIN values \/ ~Passes(m, values[m])}

TrainMeasured ==
  /\ trained = Untrained /\ trained' \in Trained
  /\ UNCHANGED <<baselines, setting, logged, checking>>

ReadMetrics ==
  /\ checking.pc = "idle" /\ trained # Untrained
  /\ checking' = [pc |-> "compare", values |-> Values(logged), violated |-> {}]
  /\ UNCHANGED <<baselines, setting, logged, trained>>

\* None cannot be compared: the check raises.  create_performance_alert is
\* called with an argument it does not have, and the TypeError is logged: no
\* violation reaches the alert table.
CompareBaselines ==
  LET metrics == {b.metric : b \in baselines} IN
  /\ checking.pc = "compare"
  /\ checking' =
       IF "auc" \in metrics /\ checking.values.auc = NoValue THEN [CheckIdle EXCEPT !.pc = "raised"]
       ELSE IF metrics = {} THEN [CheckIdle EXCEPT !.pc = "skipped"]
       ELSE [pc |-> "reported", values |-> <<>>, violated |-> Violated(checking.values, metrics)]
  /\ UNCHANGED <<baselines, setting, logged, trained>>

BaselinesNext ==
  \/ \E s \in Setters :
       BeginSetting(s) \/ DeleteBaselines(s) \/ CommitBaselines(s) \/ SetterFails(s)
  \/ \E p \in {0, 1} :
       LogPrediction(p) \/ \E old \in {0, 1, NoLabel}, new \in {0, 1} : GiveFeedback(p, old, new)
  \/ \E c \in Cells : LeaveWindow(c)
  \/ TrainMeasured \/ ReadMetrics \/ CompareBaselines

BaselinesTypeOK ==
  /\ \A b \in baselines : b.metric \in Measures /\ b.by \in Setters /\ b.over \subseteq Setters
  /\ \A s \in Setters : setting[s].pc \in {"idle", "delete", "insert", "over"}
  /\ \A c \in Cells : logged[c] \in 0..MaxLogged
  /\ trained \in Trained \cup {Untrained}
  /\ checking.pc \in {"idle", "compare", "raised", "skipped", "reported"}

-----------------------------------------------------------------------------
(* Properties.                                                             *)

\* A model has two baselines of one metric only when two requests to set them
\* overlapped: neither DELETE saw the other's rows.  From then on the metric is
\* checked and reported twice, against both limits.
BaselinesOnlyByRace ==
  \A a, b \in baselines : a # b /\ a.metric = b.metric => a.by \notin b.over /\ b.by \notin a.over

\* A right prediction that a corrected label makes wrong ends no violation,
\* also where a ratio has nothing to divide by.
WorseFeedbackShows ==
  [][\A p \in {0, 1} :
       (logged[<<p, p>>] > logged'[<<p, p>>] /\ logged'[<<p, 1 - p>>] > logged[<<p, 1 - p>>]) =>
         LET all == DOMAIN Measured(logged)
         IN Violated(Measured(logged), all) \subseteq Violated(Measured(logged'), all)]_logged
=============================================================================
