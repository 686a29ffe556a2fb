-------------------------- MODULE FeatureAnalysis ---------------------------
(***************************************************************************)
(* What an analysis of a feature set reports: the target it finds for the  *)
(* features that were computed (analyze_features), and the features that   *)
(* FeatureSelector drops and ranks against it.  FeatureSets has the task's *)
(* deaths and retries; here an analysis is one step.                       *)
(***************************************************************************)
EXTENDS Integers, FiniteSets, FiniteSetsExt

CONSTANTS
  MaxStudied,  \* bound: the features of a set, in the order of its columns
  Gains,       \* bound: mutual information with the target
  Importances,     \* bound: importances in the boosted trees
  MaxReports   \* bound: analyses of a set

ASSUME AnalysisAssumption ==
  /\ MaxStudied \in Nat \ {0} /\ MaxReports \in Nat
  /\ Gains \subseteq Nat /\ IsFiniteSet(Gains) /\ Importances \subseteq Nat /\ IsFiniteSet(Importances)
  /\ 0 \in Gains \cap Importances

VARIABLE studied  \* the feature set: its source, its data, status and report

analysisVars == <<studied>>

-----------------------------------------------------------------------------
Studies == 1..MaxStudied
Own == MaxStudied + 1   \* the target's column, attached after the features
Nowhere == 0            \* no column

\* The target's name: one of TARGET_NAMES, one the pattern of a binary column
\* finds, or neither.  lookalike: the first feature has two values and a name
\* of that pattern, and its values are codes or rates.
Sources ==
  [local : BOOLEAN, named : {"listed", "suggestive", "opaque"}, mapped : BOOLEAN,
   lookalike : {"none", "codes", "rates"}]

\* flat: constant columns; linked: pairs correlated above the threshold.
Contents ==
  {d \in [flat : SUBSET Studies, linked : SUBSET {p \in Studies \X Studies : p[1] < p[2]},
          gain : [Studies -> Gains], weight : [Studies -> Importances]] :
     /\ \A p \in d.linked : {p[1], p[2]} \cap d.flat = {}
     /\ \A f \in d.flat : d.gain[f] = 0 /\ d.weight[f] = 0}

NotComputed == [kind |-> "none"]
NoSet == [report |-> NotComputed, analyses |-> 0]

-----------------------------------------------------------------------------
(* The target *)

SourceTarget(s) == IF s.mapped \/ s.named # "opaque" THEN Own ELSE Nowhere

\* compute_features attaches the target it detects to the features.
StoredColumns(s) == Studies \cup ({SourceTarget(s)} \ {Nowhere})

\* The role detector on the stored features, which has no mapping then.
Guessed(s) ==
  IF s.named = "listed" /\ Own \in StoredColumns(s) THEN Own
  ELSE IF s.lookalike # "none" THEN 1
  ELSE IF s.named = "suggestive" /\ Own \in StoredColumns(s) THEN Own ELSE Nowhere

\* The target in the report of the computation, if it is still there, else the
\* guess, else (copied) that of the source.
Remembered(s, report) == IF report.kind = "computed" THEN report.target ELSE Nowhere
TargetFound(s, report) ==
  IF Remembered(s, report) # Nowhere
  THEN [target |-> Remembered(s, report), copied |-> FALSE]
  ELSE IF Guessed(s) # Nowhere THEN [target |-> Guessed(s), copied |-> FALSE]
  ELSE [target |-> SourceTarget(s), copied |-> TRUE]

-----------------------------------------------------------------------------
(* FeatureSelector *)

Greatest(values) == LET m == Max(values) IN IF m > 0 THEN m ELSE 1

\* Both measures, normalised over the features left, count alike.
Combined(d, left, f) ==
  d.gain[f] * Greatest({d.weight[g] : g \in left}) + d.weight[f] * Greatest({d.gain[g] : g \in left})

\* Scaled to unit variance first, so only constant columns are below the bound.
Constant(d, columns) == d.flat \cap columns

\* Mutant: a feature is redundant if any other is like it, not an earlier one.
RedundantBothWays(d, f) == \E g \in DOMAIN d.gain : <<g, f>> \in d.linked \/ <<f, g>> \in d.linked

\* The upper triangle of the correlation matrix.
Redundant(d, f) == \E g \in DOMAIN d.gain : <<g, f>> \in d.linked

\* Features of equal score rank in any order; max_features leaves none out.
Selections(d, columns) ==
  LET seen == [flat |-> Constant(d, columns), gain |-> [f \in columns |-> d.gain[f]],
               linked |-> d.linked \cap (columns \X columns), weight |-> d.weight]
      redundant == {f \in columns : Redundant(seen, f)}
      left == columns \ (seen.flat \cup redundant)
  IN {[flat |-> seen.flat, redundant |-> redundant, rank |-> rank] :
        rank \in {r \in [left -> 1..Cardinality(left)] : \A f, g \in left :
                    /\ f # g => r[f] # r[g]
                    /\ Combined(seen, left, f) > Combined(seen, left, g) => r[f] < r[g]}}

\* The target's own column tells more of it than any feature.
WithOwn(d) ==
  [flat |-> d.flat, linked |-> d.linked,
   gain |-> [f \in Studies \cup {Own} |-> IF f = Own THEN Max(Gains) ELSE d.gain[f]],
   weight |-> [f \in Studies \cup {Own} |-> IF f = Own THEN Max(Importances) ELSE d.weight[f]]]

Selected(r) == DOMAIN r.rank

\* How the page shows a feature of the set, by the report and by the role that
\* the source's columns give it.
TrainingStatus(f) ==
  LET r == studied.report IN
  CASE f = SourceTarget(studied.source) -> "target"
    [] OTHER -> IF r.kind # "ranked" THEN "available"
                ELSE IF f \in r.flat THEN "removed_variance"
                ELSE IF f \in r.redundant THEN "removed_correlation"
                ELSE IF f \in Selected(r) THEN "selected" ELSE "available"

-----------------------------------------------------------------------------
AnalysisInit == studied = NoSet

\* The set is COMPLETED, with the roles that were detected in its report.
ComputeSet ==
  /\ studied = NoSet
  /\ \E s \in Sources, d \in Contents :
       /\ s.lookalike # "none" => 1 \notin d.flat
       /\ studied' = [source |-> s, data |-> d, status |-> "COMPLETED", analyses |-> 0, again |-> "no",
                      report |-> [kind |-> "computed", target |-> SourceTarget(s)]]

Reported(report) ==
  studied' = [studied EXCEPT !.report = report, !.analyses = @ + 1,
                             !.again = IF studied.report.kind = "computed" THEN @ ELSE "yes"]

CanAnalyse ==
  /\ studied # NoSet /\ studied.analyses < MaxReports

\* The status is written as it was read.  The features are the columns that are
\* numbers: an attached target that is text is none, whatever the target is.
RankFeatures ==
  /\ CanAnalyse
  /\ LET s == studied.source
         found == TargetFound(s, studied.report)
     IN /\ found.target # Nowhere /\ ~(found.copied /\ s.local)
        /\ ~(found.target = 1 /\ s.lookalike = "rates")
        /\ \E numeric \in BOOLEAN :
             LET own == IF numeric /\ (found.copied \/ found.target # Own) THEN StoredColumns(s) \ Studies ELSE {}
                 columns == (Studies \cup own) \ (IF found.copied THEN {} ELSE {found.target})
             IN \E chosen \in Selections(WithOwn(studied.data), columns) :
                  Reported([kind |-> "ranked", target |-> found.target, flat |-> chosen.flat,
                            redundant |-> chosen.redundant, rank |-> chosen.rank])

\* Without a target the analysis ends early: the roles stay in the report.
ReportNoTarget ==
  /\ CanAnalyse
  /\ TargetFound(studied.source, studied.report).target = Nowhere /\ ~studied.source.local
  /\ Reported(IF studied.report.kind = "computed" THEN studied.report
              ELSE [kind |-> "error"])

\* Rates are no classes; and for a set that is stored locally the source is
\* looked for in a store that was never opened.
AnalysisFails ==
  /\ CanAnalyse
  /\ LET found == TargetFound(studied.source, studied.report) IN
       \/ found.copied /\ studied.source.local
       \/ found.target = 1 /\ studied.source.lookalike = "rates"
  /\ studied' = [studied EXCEPT !.report = [kind |-> "error"], !.status = "FAILED", !.analyses = @ + 1,
                                !.again = IF studied.report.kind = "computed" THEN @ ELSE "yes"]

AnalysisNext == ComputeSet \/ RankFeatures \/ ReportNoTarget \/ AnalysisFails

AnalysisTypeOK ==
  studied = NoSet \/
    /\ studied.source \in Sources /\ studied.data \in Contents
    /\ studied.status \in {"COMPLETED", "FAILED"} /\ studied.analyses \in 0..MaxReports
    /\ studied.report.kind \in {"computed", "ranked", "error"}
    /\ studied.report.kind = "ranked" =>
         \A f \in StoredColumns(studied.source) : TrainingStatus(f) = "available" => f = studied.report.target

-----------------------------------------------------------------------------
\* Of the features that are not constant, those that are alike, directly or
\* through others, keep one, no two that are kept are alike, and of two that
\* are kept the better by both measures ranks first.
SelectionSound(r, d) ==
  LET scored == Selected(r) \cup r.redundant IN
  /\ \A p \in d.linked : ~({p[1], p[2]} \subseteq Selected(r))
  /\ Selected(r) \cap d.flat = {}
  /\ \A group \in (SUBSET (scored \cap Studies)) \ {{}} :
       (\A p \in d.linked : {p[1], p[2]} \subseteq scored => (p[1] \in group <=> p[2] \in group))
         => group \cap Selected(r) # {}
  /\ \A f, g \in Selected(r) \cap Studies :
       d.gain[f] >= d.gain[g] /\ d.weight[f] >= d.weight[g] /\ r.rank[g] < r.rank[f]
         => d.gain[f] = d.gain[g] /\ d.weight[f] = d.weight[g]

\* A report ranks the features against the target they were computed for and
\* never ranks that target among them, and an analysis does not fail the set,
\* unless no target was known when they were computed or an analysis has
\* already overwritten the report that named it; a listed name is always found.
AnalysedSoundly ==
  studied # NoSet =>
    LET s == studied.source   r == studied.report
        sure == SourceTarget(s) = Own /\ (studied.again = "no" \/ s.named = "listed")
    IN /\ r.kind = "ranked" => SelectionSound(r, studied.data)
       /\ sure => studied.status = "COMPLETED" /\ r.kind # "error"
       /\ sure /\ r.kind = "ranked" => r.target = Own /\ Own \notin Selected(r) \cup r.redundant
=============================================================================
