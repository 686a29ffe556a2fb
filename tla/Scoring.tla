------------------------------- MODULE Scoring -------------------------------
(***************************************************************************)
(* How a loaded model answers a row, alone (predict_single) or in a batch  *)
(* (predict_batch), and which model of the second stage types what the     *)
(* first flags.  A score is the probability of an anomaly in tenths; the   *)
(* engine and the pickled pipeline give the same scores.                   *)
(***************************************************************************)
EXTENDS Integers, Sequences

CONSTANTS
  Sampled,      \* bound: the scores that rows get
  Thresholds,   \* the decision thresholds that trainings choose
  NotANumber    \* nan or infinite

TopScore == 10

ASSUME ScoringAssumption ==
  Sampled \subseteq 0..TopScore /\ Thresholds \subseteq 1..TopScore /\ NotANumber \notin 0..TopScore

VARIABLE scored  \* what is loaded, the rows of a batch, its answers, and the
                 \* answers to the same rows alone

scoringVars == <<scored>>

-----------------------------------------------------------------------------
\* A row has its columns under the names of the training frame or in another
\* case: then a name that is not matched is a column that is missing.
ScoredRows == [score : Sampled \cup {NotANumber}, exact : BOOLEAN]
MissingScore == 0

\* The models of the registry that a second stage is looked for among.
Ranks == [PRODUCTION |-> 0, STAGING |-> 1, TRAINED |-> 2]
TypeCandidates == [status : DOMAIN Ranks, created : 1..2, typed : BOOLEAN, multiclass : BOOLEAN]

\* The best status; among those the newest.
SelectStage2(candidates) ==
  LET fit == {c \in candidates : c.typed /\ c.multiclass}
      best == {c \in fit : \A d \in fit : Ranks[c.status] <= Ranks[d.status]}
  IN {c \in best : \A d \in best : c.created >= d.created}

\* stage: what the model was trained for; probable: it gives probabilities;
\* squash: Platt's map pulls a score by that much towards certainty; second:
\* the second stage, whose own load may have failed.
Services ==
  {s \in [stage : {"binary", "anomaly_type"}, probable : BOOLEAN, calibrated : BOOLEAN,
          squash : {0, TopScore}, threshold : Thresholds, second : {"none", "ready", "unloaded"}] :
     /\ ~s.calibrated => s.squash = 0
     /\ s.stage = "anomaly_type" => s.second = "none"}

NothingLoaded == [loaded |-> FALSE, rows |-> <<>>, batch |-> <<>>, alone |-> <<>>]

-----------------------------------------------------------------------------
SafeFloat(x) == IF x = NotANumber THEN 0 ELSE x

\* Without probabilities the score is the predicted class.
RawScore(s, row, renamed) ==
  LET own == IF row.exact \/ renamed THEN row.score ELSE MissingScore
  IN SafeFloat(IF s.probable \/ own = NotANumber THEN own ELSE IF 2 * own > TopScore THEN TopScore ELSE 0)

Platt(s, x) == (x + s.squash) \div 2

CalibrateOne(s, x) == IF s.calibrated THEN Platt(s, x) ELSE x

CalibrateBatch(s, xs) == IF s.calibrated THEN [i \in DOMAIN xs |-> Platt(s, xs[i])] ELSE xs

RiskLevel(x) == CASE x > 9 -> "CRITICAL" [] x > 7 -> "HIGH" [] x > 4 -> "MEDIUM" [] OTHER -> "LOW"

Flag(s, x) == IF x >= s.threshold THEN 1 ELSE 0

Answer(s, x) ==
  [prediction |-> Flag(s, x), score |-> x, risk |-> RiskLevel(x), typed |-> FALSE, raised |-> FALSE]

Raised == [raised |-> TRUE]

\* The class with the greatest probability, and that probability, which is
\* one if the model gives none.
DirectAnswers(s, row) ==
  LET own == RawScore(s, row, FALSE) IN
  {[prediction |-> class, score |-> IF s.probable THEN own ELSE TopScore,
    risk |-> RiskLevel(IF s.probable THEN own ELSE TopScore), typed |-> TRUE, raised |-> FALSE] :
      class \in {0, 2}}

\* A flagged row is typed by the second stage, if there is one.
PredictSingle(s, row) ==
  LET first == Answer(s, SafeFloat(CalibrateOne(s, RawScore(s, row, FALSE)))) IN
  IF s.stage = "anomaly_type" THEN DirectAnswers(s, row)
  ELSE IF first.prediction = 0 \/ s.second = "none" THEN {first}
  ELSE IF s.second = "ready" THEN {[first EXCEPT !.typed = TRUE]}
  ELSE {Raised}

\* Columns are renamed to the case of the training frame; neither the stage of
\* the model nor its second stage matters.
PredictBatch(s, rows) ==
  LET scores == CalibrateBatch(s, [i \in DOMAIN rows |-> RawScore(s, rows[i], TRUE)])
  IN [i \in DOMAIN rows |-> Answer(s, SafeFloat(scores[i]))]

-----------------------------------------------------------------------------
ScoringInit == scored = NothingLoaded

\* A model is loaded with the second stage that the registry has for it.
LoadForScoring ==
  /\ ~scored.loaded
  /\ \E s \in Services, c, d \in TypeCandidates :
       /\ s.stage = "binary" => (SelectStage2({c, d}) = {} <=> s.second = "none")
       /\ scored' = [loaded |-> TRUE, service |-> s, rows |-> <<>>, batch |-> <<>>, alone |-> <<>>]

AnswerBatch ==
  /\ scored.loaded /\ scored.rows = <<>>
  /\ \E rows \in UNION {[1..n -> ScoredRows] : n \in 1..2} :
       scored' = [scored EXCEPT !.rows = rows, !.batch = PredictBatch(scored.service, rows)]

AnswerAlone ==
  /\ Len(scored.alone) < Len(scored.rows)
  /\ \E answer \in PredictSingle(scored.service, scored.rows[Len(scored.alone) + 1]) :
       scored' = [scored EXCEPT !.alone = Append(@, answer)]

ScoringNext == LoadForScoring \/ AnswerBatch \/ AnswerAlone

ScoringTypeOK ==
  /\ scored.loaded => scored.service \in Services
  /\ scored.rows \in UNION {[1..n -> ScoredRows] : n \in 0..2}
  /\ Len(scored.alone) <= Len(scored.rows)

-----------------------------------------------------------------------------
\* A model of the first stage flags, scores and rates a row alone as it does in
\* a batch, unless its column names differ in case; it types flagged rows only,
\* and only alone.
ScoredAlike ==
  scored.loaded /\ scored.service.stage = "binary" =>
    \A i \in DOMAIN scored.alone :
      LET one == scored.alone[i]   many == scored.batch[i] IN
      /\ ~many.typed
      /\ ~one.raised =>
           /\ one.typed => one.prediction = 1 /\ scored.service.second = "ready"
           /\ scored.rows[i].exact => [one EXCEPT !.typed = FALSE] = many
=============================================================================
