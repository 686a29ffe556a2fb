------------------------ MODULE Computations_proofs ------------------------
(***************************************************************************)
(* Theorems about what components of BackOffice compute, for every value   *)
(* of their constants: the features of a row and the answer it is given,   *)
(* what a trained model decides with, a plan and its audit trail, the      *)
(* metrics after a correction, what a form and a search ask for, what an   *)
(* analysis selects, and the paths under which artifacts are kept.         *)
(***************************************************************************)
EXTENDS BackOffice, TLAPS, FiniteSetTheorems, WellFoundedInduction

\* A step of the back office is, for each component, one of its own or none.
LEMMA ComputationStep ==
  ASSUME [Next]_vars
  PROVE /\ [EngineerNext]_engineerVars /\ [ScoringNext]_scoringVars
        /\ [FittingNext]_fittingVars /\ [PlanNext]_planVars
        /\ [BaselinesNext]_baselineVars /\ [AnalysisNext]_analysisVars
        /\ [TuningNext]_tuningVars /\ [FormNext]_formVars
        /\ [BlobNext]_blobVars
<1>1. CASE UNCHANGED vars
  BY <1>1 DEF vars, engineerVars, scoringVars, fittingVars, planVars, baselineVars,
              analysisVars, tuningVars, formVars, blobVars
<1>2. CASE Next
  BY <1>2 DEF Next, In, Alerting, Engineering, Planning, Storing, Administering, Scheduling,
              Transforming, Filling, Searching, Fitting, Measuring, Watching, Answering,
              Analysing, Keeping, Choosing, Showing
<1> QED
  BY <1>1, <1>2

(***************************************************************************)
(* Features: a row that is served alone is the first row of its frame, and *)
(* every feature but the skewed ones is computed from it as in a batch.    *)
(***************************************************************************)
\* The sum over one row is the row's amount: the fold's defining equation, twice.
LEMMA SumOfOneRow ==
  ASSUME NEW e, NEW f, NEW i, SameUser(e, f, i) = {i}
  PROVE FoldSet(LAMBDA j, sum : f.rows[j][e.roles.amount] + sum, 0, SameUser(e, f, i))
          = f.rows[i][e.roles.amount] + 0
<1> DEFINE S == SameUser(e, f, i)
           step(it) == [s \in SUBSET S |->
             IF s = {} THEN 0
             ELSE f.rows[CHOOSE x \in s : TRUE][e.roles.amount] + it[s \ {CHOOSE x \in s : TRUE}]]
           w == [s \in SUBSET S |-> IF s = {} THEN 0 ELSE f.rows[i][e.roles.amount] + 0]
           iter == CHOOSE g : g = step(g)
<1>1. w = step(w)
  <2>1. \A s \in SUBSET S : s # {} =>
          s = S /\ (CHOOSE x \in s : TRUE) = i /\ s \ {CHOOSE x \in s : TRUE} = {}
    <3> HIDE DEF S
    <3> QED
      BY DEF S
  <2> QED
    BY <2>1
<1>2. iter = step(iter)
  <2> HIDE DEF step, w
  <2> QED
    BY <1>1
<1>3. iter[S] = f.rows[i][e.roles.amount] + iter[{}] /\ iter[{}] = 0
  <2>1. /\ S # {} /\ S \in SUBSET S /\ {} \in SUBSET S
        /\ (CHOOSE x \in S : TRUE) = i /\ S \ {CHOOSE x \in S : TRUE} = {}
    OBVIOUS
  <2> HIDE DEF iter
  <2> QED
    BY <1>2, <2>1
<1>4. FoldSet(LAMBDA j, sum : f.rows[j][e.roles.amount] + sum, 0, SameUser(e, f, i)) = iter[S]
  BY DEF FoldSet, MapThenFoldSet
<1> QED
  BY <1>3, <1>4

\* What a frame of table is like that lacks no cell.
LEMMA CellsAreIntegers ==
  ASSUME NEW table \in Frames
  PROVE /\ DOMAIN table \subseteq Nat /\ table \in [DOMAIN table -> CellRows]
        /\ \A i \in DOMAIN table, c \in Columns : table[i][c] \in Int
<1>1. PICK n \in 1..MaxRows : table \in [1..n -> CellRows]
  BY FeatureAssumption DEF Frames
<1>2. ASSUME NEW row \in CellRows, NEW c \in Columns
      PROVE row[c] \in Int
  <2>1. CellValues \subseteq Nat /\ TimeValues \subseteq Nat /\ OtherValue \in Nat
    BY FeatureAssumption
  <2>2. \E d : \E v \in Nat : row = Row(d, v)
    BY <2>1, <1>2 DEF CellRows
  <2>3. PICK d : \E v \in Nat : row = Row(d, v)
    BY <2>2
  <2>4. PICK v \in Nat : row = Row(d, v)
    BY <2>3
  <2> QED
    BY <2>1, <2>4, <1>2 DEF Row
<1>3. DOMAIN table = 1..n /\ \A i \in 1..n : table[i] \in CellRows
  BY <1>1
<1>4. table \in [DOMAIN table -> CellRows] /\ DOMAIN table \subseteq Nat
  BY <1>1, <1>3
<1> QED
  BY <1>2, <1>3, <1>4

\* Row i of frame f, and the same row alone.
Like(f, i, g) ==
  /\ g.has = f.has /\ DOMAIN g.rows = {1} /\ g.rows[1] = f.rows[i]
  /\ i \in DOMAIN f.rows /\ DOMAIN f.rows \subseteq Nat /\ f.has \subseteq Columns
  /\ \A j \in DOMAIN f.rows, c \in Columns : f.rows[j][c] \in Int

\* Only whether a log is added depends on the table.
LEMMA LogAdded ==
  ASSUME NEW e, NEW f, NEW name, name[1] = "log"
  PROVE name \in Added(e, f) <=>
          \E c \in e.roles.nums \cap f.has : name = <<"log", c>> /\ \A i \in DOMAIN f.rows : f.rows[i][c] >= 0
BY DEF Added

LEMMA OthersAdded ==
  ASSUME NEW e, NEW f, NEW g, f.has = g.has, NEW name, name[1] # "log"
  PROVE name \in Added(e, f) <=> name \in Added(e, g)
BY DEF Added

LEMMA AddedAlike ==
  ASSUME NEW e, NEW f, NEW g, NEW i, Like(f, i, g), NEW name, ~Skewed(e, f, i, name)
  PROVE name \in Added(e, f) <=> name \in Added(e, g)
<1>1. CASE name[1] # "log"
  BY <1>1, OthersAdded DEF Like
<1>2. CASE name[1] = "log"
  <2>1. \A j \in DOMAIN f.rows \ {i} : ~(f.rows[j][name[2]] < 0)
    BY <1>2 DEF Skewed
  <2>2. ASSUME NEW c \in e.roles.nums \cap f.has, name = <<"log", c>>
        PROVE (\A j \in DOMAIN f.rows : f.rows[j][c] >= 0) <=> (\A j \in DOMAIN g.rows : g.rows[j][c] >= 0)
    <3>1. name[2] = c /\ c \in Columns
      BY <2>2 DEF Like
    <3> QED
      BY <2>1, <3>1 DEF Like
  <2>3. f.has = g.has
    BY DEF Like
  <2> QED
    BY <1>2, <2>2, <2>3, LogAdded
<1> QED
  BY <1>1, <1>2

LEMMA SinceLastHasTime ==
  ASSUME NEW e, NEW f, NEW name \in Added(e, f), name[1] = "since_last"
  PROVE e.roles.time \in f.has
BY DEF Added

LEMMA TemporalIsOfTime ==
  ASSUME NEW e, NEW f, NEW name \in Added(e, f), name[1] = "temporal"
  PROVE name[2] = e.roles.time
BY DEF Added

\* A time that is read is a number.
LEMMA StampIsTime ==
  ASSUME NEW e, NEW f, NEW i, f.rows[i][e.roles.time] \in Int, Stamp(e, f, i) # NaN
  PROVE Stamp(e, f, i)[1] \in Int
<1>1. OtherDay(f.rows[i][e.roles.time]) \in Int
  BY DEF OtherDay, Day
<1>2. Stamp(e, f, i) \in {<<f.rows[i][e.roles.time]>>, <<OtherDay(f.rows[i][e.roles.time])>>}
  BY Zenon DEF Stamp
<1> QED
  BY <1>1, <1>2

\* A time written like that of the first row is read as it is alone.
LEMMA StampAlike ==
  ASSUME NEW e, NEW f, NEW g, NEW i, Like(f, i, g), WrittenAlike(f, i, e.roles.time)
  PROVE Stamp(e, f, i) = Stamp(e, g, 1)
<1>1. g.rows[1] = f.rows[i]
  BY DEF Like
<1> QED
  BY <1>1 DEF Stamp, WrittenAlike

\* A user's only row has no earlier one.
LEMMA AloneIsFirst ==
  ASSUME NEW e, NEW f, NEW g, NEW i, Like(f, i, g), e.roles.time \in Columns,
         SameUser(e, f, i) = {i}
  PROVE Earlier(e, f, i) = {} /\ Earlier(e, g, 1) = {}
<1>1. f.rows[i][e.roles.time] \in Int /\ g.rows[1][e.roles.time] \in Int /\ i \in Nat
  BY DEF Like
<1>2. ASSUME NEW h, NEW k \in Nat, SameUser(e, h, k) = {k}, h.rows[k][e.roles.time] \in Int
      PROVE Earlier(e, h, k) = {}
  <2>1. Stamp(e, h, k) # NaN => ~(Stamp(e, h, k)[1] < Stamp(e, h, k)[1])
    BY <1>2, StampIsTime
  <2>2. ~(k < k)
    OBVIOUS
  <2> QED
    BY <1>2, <2>1, <2>2 DEF Earlier
<1>3. Earlier(e, f, i) = {}
  BY <1>1, <1>2
<1>4. SameUser(e, g, 1) = {1}
  BY DEF SameUser, Like
<1>5. Earlier(e, g, 1) = {}
  BY <1>1, <1>2, <1>4
<1> QED
  BY <1>3, <1>5

LEMMA RoleValueAlike ==
  ASSUME NEW e, NEW f, NEW g, NEW i, Like(f, i, g), NEW name \in Added(e, f),
         name[1] \in RoleGroups, ~Skewed(e, f, i, name)
  PROVE RoleValue(e, f, i, name) = RoleValue(e, g, 1, name)
<1>0. g.rows[1] = f.rows[i]
  BY DEF Like
<1>1. CASE name[1] = "since_last"
  <2>1. Earlier(e, f, i) = {} /\ Earlier(e, g, 1) = {}
    <3>1. e.roles.time \in Columns
      BY <1>1, SinceLastHasTime DEF Like
    <3> QED
      BY <1>1, <3>1, AloneIsFirst DEF Skewed
  <2> QED
    BY <1>0, <1>1, <2>1 DEF RoleValue
<1>2. CASE name[1] = "aggregation"
  <2>1. Known(e, g.rows[1]) = Known(e, f.rows[i])
    BY <1>0 DEF Known
  <2>2. CASE Known(e, f.rows[i])
    BY <1>0, <1>2, <2>1, <2>2 DEF RoleValue, Activity
  <2>3. CASE ~Known(e, f.rows[i])
    <3>1. SameUser(e, f, i) = {i} /\ SameUser(e, g, 1) = {1}
      BY <1>2, <2>3 DEF Skewed, SameUser, Like
    <3>2. Cardinality(SameUser(e, f, i)) = 1 /\ Cardinality(SameUser(e, g, 1)) = 1
      BY <3>1, FS_Singleton
    <3>3. Activity(e, f, i) = <<1, f.rows[i][e.roles.amount] + 0>>
      BY <2>3, <3>1, <3>2, SumOfOneRow DEF Activity
    <3>4. Activity(e, g, 1) = <<1, g.rows[1][e.roles.amount] + 0>>
      BY <2>1, <2>3, <3>1, <3>2, SumOfOneRow DEF Activity
    <3> QED
      BY <1>0, <1>2, <3>3, <3>4 DEF RoleValue
  <2> QED
    BY <2>2, <2>3
<1>3. CASE name[1] \in {"transaction", "behavioral"}
  BY <1>0, <1>3 DEF RoleValue, Known
<1>4. CASE name[1] = "temporal"
  <2>1. Stamp(e, f, i) = Stamp(e, g, 1)
    BY <1>4, TemporalIsOfTime, StampAlike DEF Skewed
  <2> QED
    BY <1>4, <2>1 DEF RoleValue
<1> QED
  BY <1>1, <1>2, <1>3, <1>4 DEF RoleGroups

\* Whatever is not skewed, a row has in a frame as it has alone.
LEMMA RowAlike ==
  ASSUME NEW e, NEW f, NEW g, NEW i, Like(f, i, g), NEW name \in e.names
  PROVE Transformed(e, f)[i][name] = Transformed(e, g)[1][name] \/ Skewed(e, f, i, name)
<1> SUFFICES ASSUME ~Skewed(e, f, i, name)
             PROVE Transformed(e, f)[i][name] = Transformed(e, g)[1][name]
  OBVIOUS
<1>1. /\ Transformed(e, f)[i][name] = IF name \in Added(e, f) THEN Value(e, f, i, name) ELSE NaN
      /\ Transformed(e, g)[1][name] = IF name \in Added(e, g) THEN Value(e, g, 1, name) ELSE NaN
  BY DEF Transformed, Like
<1>2. name \in Added(e, f) <=> name \in Added(e, g)
  BY AddedAlike
<1>3. ASSUME name \in Added(e, f)
      PROVE Value(e, f, i, name) = Value(e, g, 1, name)
  <2>4. g.rows[1] = f.rows[i]
    BY DEF Like
  <2>2. CASE name[1] \in RoleGroups
    <3>1. Value(e, f, i, name) = RoleValue(e, f, i, name) /\ Value(e, g, 1, name) = RoleValue(e, g, 1, name)
      BY <2>2, Zenon DEF Value
    <3>2. RoleValue(e, f, i, name) = RoleValue(e, g, 1, name)
      BY <1>3, <2>2, RoleValueAlike
    <3> QED
      BY <3>1, <3>2, Zenon
  <2>3. CASE name[1] \notin RoleGroups
    <3>1. Value(e, f, i, name) = ColumnValue(e, f.rows[i], name)
      BY <2>3, Zenon DEF Value
    <3>2. Value(e, g, 1, name) = ColumnValue(e, g.rows[1], name)
      BY <2>3, Zenon DEF Value
    <3> QED
      BY <2>4, <3>1, <3>2, Zenon
  <2> QED
    BY <2>2, <2>3
<1> QED
  BY <1>1, <1>2, <1>3

\* What is fitted was fitted on the training frame; a frame has cells of its columns.
EngineerInv ==
  /\ engineer.fitted => training \in Frames
  /\ frame = [rows |-> frame.rows, has |-> frame.has] /\ frame.has \subseteq Columns
  /\ frame.rows \in Frames \/ frame.rows = <<>>

LEMMA EngineerInvInit == EngineerInit => EngineerInv
BY DEF EngineerInit, EngineerInv, NoFrame, Unfitted

LEMMA EngineerInvStep == EngineerInv /\ [EngineerNext]_engineerVars => EngineerInv'
<1> SUFFICES ASSUME EngineerInv, [EngineerNext]_engineerVars PROVE EngineerInv'
  OBVIOUS
<1>1. CASE UNCHANGED engineerVars
  BY <1>1 DEF engineerVars, EngineerInv
<1>2. CASE FitEngineer
  <2>1. training' \in Frames /\ frame' = frame
    BY <1>2 DEF FitEngineer
  <2> QED
    BY <2>1 DEF EngineerInv
<1>3. CASE TransformFrame
  <2>1. PICK table \in Frames, lost \in SUBSET Absent : frame' = [rows |-> table, has |-> Columns \ lost]
    BY <1>3 DEF TransformFrame
  <2>2. frame'.rows = table /\ frame'.has = Columns \ lost
    BY <2>1
  <2>3. frame'.has \subseteq Columns /\ frame' = [rows |-> frame'.rows, has |-> frame'.has]
    BY <2>1, <2>2
  <2>4. engineer' = engineer /\ training' = training
    BY <1>3 DEF TransformFrame
  <2> QED
    BY <2>2, <2>3, <2>4 DEF EngineerInv
<1> QED
  BY <1>1, <1>2, <1>3 DEF EngineerNext

LEMMA EngineerInvAlike == EngineerInv => FeaturesAlike
<1> SUFFICES ASSUME EngineerInv, engineer.fitted, NEW i \in DOMAIN frame.rows, NEW name \in engineer.names
             PROVE LET alone == Transformed(engineer, [frame EXCEPT !.rows = <<frame.rows[i]>>])[1]
                       all == [rows |-> training, has |-> Columns] IN
                   /\ Transformed(engineer, frame)[i][name] = alone[name] \/ Skewed(engineer, frame, i, name)
                   /\ frame.has = Columns =>
                        \A k \in DOMAIN training :
                          training[k] = frame.rows[i] =>
                            \/ Transformed(engineer, all)[k][name] = alone[name]
                            \/ Skewed(engineer, all, k, name)
  BY DEF FeaturesAlike
<1>1. frame.rows \in Frames /\ training \in Frames /\ frame.has \subseteq Columns
  BY DEF EngineerInv
<1>2. PICK g : g = [frame EXCEPT !.rows = <<frame.rows[i]>>]
  OBVIOUS
<1>3. g.has = frame.has /\ g.rows = <<frame.rows[i]>>
  BY <1>2 DEF EngineerInv
<1>4. DOMAIN g.rows = {1} /\ g.rows[1] = frame.rows[i]
  BY <1>3
<1>5. Like(frame, i, g)
  BY <1>1, <1>3, <1>4, CellsAreIntegers DEF Like
<1>6. PICK all : all = [rows |-> training, has |-> Columns]
  OBVIOUS
<1>7. all.rows = training /\ all.has = Columns
  BY <1>6
<1>8. ASSUME frame.has = Columns, NEW k \in DOMAIN training, training[k] = frame.rows[i]
      PROVE Like(all, k, g)
  BY <1>1, <1>3, <1>4, <1>7, <1>8, CellsAreIntegers DEF Like
<1>9. Transformed(engineer, frame)[i][name] = Transformed(engineer, g)[1][name] \/ Skewed(engineer, frame, i, name)
  BY <1>5, RowAlike
<1>10. ASSUME frame.has = Columns, NEW k \in DOMAIN training, training[k] = frame.rows[i]
       PROVE Transformed(engineer, all)[k][name] = Transformed(engineer, g)[1][name] \/ Skewed(engineer, all, k, name)
  BY <1>8, <1>10, RowAlike
<1> QED
  BY <1>2, <1>6, <1>9, <1>10

(***************************************************************************)
(* Answers: the same row is scored alone as in a batch, and the answers    *)
(* differ in the anomaly type only.                                        *)
(***************************************************************************)
Answers == UNION {PredictSingle(s, row) : s \in Services, row \in ScoredRows}

ScoredInv ==
  /\ ~scored.loaded => scored = NothingLoaded
  /\ scored.loaded =>
       /\ DOMAIN scored = {"loaded", "rows", "batch", "alone", "service"}
       /\ scored.service \in Services /\ scored.rows \in Seq(ScoredRows)
       /\ scored.alone \in Seq(Answers) /\ Len(scored.alone) <= Len(scored.rows)
       /\ scored.rows # <<>> => scored.batch = PredictBatch(scored.service, scored.rows)
       /\ \A i \in 1..Len(scored.alone) : scored.alone[i] \in PredictSingle(scored.service, scored.rows[i])

LEMMA ScoredInvInit == ScoringInit => ScoredInv
BY DEF ScoringInit, ScoredInv, NothingLoaded

LEMMA ScoredInvStep == ScoredInv /\ [ScoringNext]_scoringVars => ScoredInv'
<1> SUFFICES ASSUME ScoredInv, [ScoringNext]_scoringVars PROVE ScoredInv'
  OBVIOUS
<1>1. CASE UNCHANGED scored
  BY <1>1 DEF ScoredInv
<1>2. CASE LoadForScoring
  <2>1. PICK s \in Services : scored' = [loaded |-> TRUE, service |-> s, rows |-> <<>>, batch |-> <<>>, alone |-> <<>>]
    BY <1>2 DEF LoadForScoring
  <2>2. /\ DOMAIN scored' = {"loaded", "rows", "batch", "alone", "service"}
        /\ scored'.loaded = TRUE /\ scored'.rows = <<>> /\ scored'.alone = <<>> /\ scored'.service = s
    BY <2>1
  <2>3. scored'.rows \in Seq(ScoredRows) /\ scored'.alone \in Seq(Answers)
        /\ Len(scored'.alone) = 0 /\ Len(scored'.rows) = 0
    BY <2>2
  <2> QED
    BY <2>2, <2>3 DEF ScoredInv
<1>3. CASE AnswerBatch
  <2>1. PICK table \in UNION {[1..n -> ScoredRows] : n \in 1..2} :
          scored' = [scored EXCEPT !.rows = table, !.batch = PredictBatch(scored.service, table)]
    BY <1>3 DEF AnswerBatch
  <2>2. scored.loaded /\ scored.rows = <<>>
    BY <1>3 DEF AnswerBatch
  <2>3. /\ DOMAIN scored' = DOMAIN scored /\ scored'.loaded = scored.loaded /\ scored'.alone = scored.alone
        /\ scored'.service = scored.service /\ scored'.rows = table
        /\ scored'.batch = PredictBatch(scored.service, table)
    BY <2>1, <2>2 DEF ScoredInv
  <2>4. table \in Seq(ScoredRows) /\ Len(table) \in Nat
    <3>1. PICK n \in 1..2 : table \in [1..n -> ScoredRows]
      BY <2>1
    <3> QED
      BY <3>1
  <2>5. Len(scored.alone) = 0
    BY <2>2 DEF ScoredInv
  <2> QED
    BY <2>2, <2>3, <2>4, <2>5 DEF ScoredInv
<1>4. CASE AnswerAlone
  <2>1. PICK answer \in PredictSingle(scored.service, scored.rows[Len(scored.alone) + 1]) :
          scored' = [scored EXCEPT !.alone = Append(@, answer)]
    BY <1>4 DEF AnswerAlone
  <2>2. Len(scored.alone) < Len(scored.rows)
    BY <1>4 DEF AnswerAlone
  <2>3. scored.loaded
    BY <2>2 DEF ScoredInv, NothingLoaded
  <2>4. /\ DOMAIN scored' = DOMAIN scored /\ scored'.loaded = scored.loaded /\ scored'.rows = scored.rows
        /\ scored'.service = scored.service /\ scored'.batch = scored.batch
        /\ scored'.alone = Append(scored.alone, answer)
    BY <2>1, <2>3 DEF ScoredInv
  <2>5. scored.rows[Len(scored.alone) + 1] \in ScoredRows /\ scored.service \in Services
    BY <2>2, <2>3 DEF ScoredInv
  <2>6. answer \in Answers
    BY <2>1, <2>5 DEF Answers
  <2>7. scored'.alone \in Seq(Answers) /\ Len(scored'.alone) = Len(scored.alone) + 1
    BY <2>3, <2>4, <2>6 DEF ScoredInv
  <2>8. \A i \in 1..Len(scored'.alone) :
          scored'.alone[i] = IF i = Len(scored.alone) + 1 THEN answer ELSE scored.alone[i]
    BY <2>3, <2>4, <2>6 DEF ScoredInv
  <2> QED
    BY <2>1, <2>2, <2>3, <2>4, <2>7, <2>8 DEF ScoredInv
<1> QED
  BY <1>1, <1>2, <1>3, <1>4 DEF ScoringNext, scoringVars

\* What one row gets in a batch.
LEMMA BatchAnswer ==
  ASSUME NEW s \in Services, NEW table \in Seq(ScoredRows), NEW i \in 1..Len(table)
  PROVE PredictBatch(s, table)[i] = Answer(s, SafeFloat(CalibrateOne(s, RawScore(s, table[i], TRUE))))
<1> DEFINE raw == [k \in DOMAIN table |-> RawScore(s, table[k], TRUE)]
<1>1. i \in DOMAIN table /\ i \in DOMAIN raw /\ raw[i] = RawScore(s, table[i], TRUE)
  <2>1. DOMAIN table = 1..Len(table)
    OBVIOUS
  <2> QED
    BY <2>1
<1> HIDE DEF raw
<1>2. CalibrateBatch(s, raw)[i] = CalibrateOne(s, raw[i])
  BY <1>1 DEF CalibrateBatch, CalibrateOne
<1>3. PredictBatch(s, table)[i] = Answer(s, SafeFloat(CalibrateBatch(s, raw)[i]))
  BY <1>1 DEF PredictBatch, raw
<1> QED
  BY <1>1, <1>2, <1>3

\* A row alone is raised, or answered as in a batch but for its type.
LEMMA AloneAnswer ==
  ASSUME NEW s \in Services, s.stage = "binary", NEW row \in ScoredRows,
         NEW one \in PredictSingle(s, row), NEW x,
         x = SafeFloat(CalibrateOne(s, RawScore(s, row, FALSE)))
  PROVE \/ one = Raised
        \/ one = Answer(s, x)
        \/ /\ one = [prediction |-> Flag(s, x), score |-> x, risk |-> RiskLevel(x), typed |-> TRUE, raised |-> FALSE]
           /\ Flag(s, x) = 1 /\ s.second = "ready"
<1>1. Flag(s, x) \in {0, 1}
  BY DEF Flag
<1> QED
  BY <1>1 DEF PredictSingle, Answer

LEMMA TypedAnew ==
  ASSUME NEW p, NEW q, NEW r, NEW d, NEW e, NEW w
  PROVE [[prediction |-> p, score |-> q, risk |-> r, typed |-> d, raised |-> w] EXCEPT !.typed = e]
          = [prediction |-> p, score |-> q, risk |-> r, typed |-> e, raised |-> w]
OBVIOUS

LEMMA AnswerUntyped ==
  ASSUME NEW p, NEW q, NEW r
  PROVE /\ [[prediction |-> p, score |-> q, risk |-> r, typed |-> TRUE, raised |-> FALSE] EXCEPT !.typed = FALSE]
             = [prediction |-> p, score |-> q, risk |-> r, typed |-> FALSE, raised |-> FALSE]
        /\ [[prediction |-> p, score |-> q, risk |-> r, typed |-> FALSE, raised |-> FALSE] EXCEPT !.typed = FALSE]
             = [prediction |-> p, score |-> q, risk |-> r, typed |-> FALSE, raised |-> FALSE]
<1>1. ASSUME NEW d, NEW e, NEW w, d \in BOOLEAN, e = FALSE, w = FALSE
      PROVE [[prediction |-> p, score |-> q, risk |-> r, typed |-> d, raised |-> w] EXCEPT !.typed = e]
              = [prediction |-> p, score |-> q, risk |-> r, typed |-> e, raised |-> w]
  BY TypedAnew
<1>2. [[prediction |-> p, score |-> q, risk |-> r, typed |-> TRUE, raised |-> FALSE] EXCEPT !.typed = FALSE]
        = [prediction |-> p, score |-> q, risk |-> r, typed |-> FALSE, raised |-> FALSE]
  BY <1>1, Zenon
<1>3. [[prediction |-> p, score |-> q, risk |-> r, typed |-> FALSE, raised |-> FALSE] EXCEPT !.typed = FALSE]
        = [prediction |-> p, score |-> q, risk |-> r, typed |-> FALSE, raised |-> FALSE]
  BY <1>1, Zenon
<1> QED
  BY <1>2, <1>3

LEMMA ScoredInvAlike == ScoredInv => ScoredAlike
<1> SUFFICES ASSUME ScoredInv, scored.loaded, scored.service.stage = "binary",
                    NEW i \in DOMAIN scored.alone
             PROVE LET one == scored.alone[i]   many == scored.batch[i] IN
                   /\ ~many.typed
                   /\ ~one.raised =>
                        /\ one.typed => one.prediction = 1 /\ scored.service.second = "ready"
                        /\ scored.rows[i].exact => [one EXCEPT !.typed = FALSE] = many
  BY DEF ScoredAlike
<1>0. PICK s, row, one, many, x :
         /\ s = scored.service /\ row = scored.rows[i] /\ one = scored.alone[i] /\ many = scored.batch[i]
         /\ x = SafeFloat(CalibrateOne(s, RawScore(s, row, FALSE)))
  OBVIOUS
<1>1. /\ i \in 1..Len(scored.alone) /\ i \in 1..Len(scored.rows) /\ s \in Services /\ row \in ScoredRows
      /\ scored.rows \in Seq(ScoredRows)
  BY <1>0 DEF ScoredInv
<1>2. many = Answer(s, SafeFloat(CalibrateOne(s, RawScore(s, row, TRUE))))
  <2>1. scored.rows # <<>>
    BY <1>1
  <2>2. scored.batch = PredictBatch(s, scored.rows)
    BY <1>0, <2>1 DEF ScoredInv
  <2> QED
    BY <1>1, <1>0, <2>2, BatchAnswer
<1>3. ~many.typed
  BY <1>2 DEF Answer
<1>4. \/ one = Raised
      \/ one = Answer(s, x)
      \/ /\ one = [prediction |-> Flag(s, x), score |-> x, risk |-> RiskLevel(x), typed |-> TRUE, raised |-> FALSE]
         /\ Flag(s, x) = 1 /\ s.second = "ready"
  <2>1. one \in PredictSingle(s, row) /\ s.stage = "binary"
    BY <1>1, <1>0 DEF ScoredInv
  <2>2. s \in Services /\ row \in ScoredRows /\ x = SafeFloat(CalibrateOne(s, RawScore(s, row, FALSE)))
    BY <1>0, <1>1
  <2> QED
    BY <2>1, <2>2, AloneAnswer
<1>5. row.exact => Answer(s, x) = many
  BY <1>2, <1>0 DEF RawScore
<1>6. CASE one = Raised
  BY <1>0, <1>3, <1>6 DEF Raised
<1>10. Answer(s, x) = [prediction |-> Flag(s, x), score |-> x, risk |-> RiskLevel(x), typed |-> FALSE, raised |-> FALSE]
  BY DEF Answer
<1>11. [[prediction |-> Flag(s, x), score |-> x, risk |-> RiskLevel(x), typed |-> FALSE, raised |-> FALSE] EXCEPT !.typed = FALSE] = [prediction |-> Flag(s, x), score |-> x, risk |-> RiskLevel(x), typed |-> FALSE, raised |-> FALSE]
  BY AnswerUntyped
<1>12. [[prediction |-> Flag(s, x), score |-> x, risk |-> RiskLevel(x), typed |-> TRUE, raised |-> FALSE] EXCEPT !.typed = FALSE] = [prediction |-> Flag(s, x), score |-> x, risk |-> RiskLevel(x), typed |-> FALSE, raised |-> FALSE]
  BY AnswerUntyped
<1>7. CASE one = Answer(s, x)
  <2>2. [one EXCEPT !.typed = FALSE] = Answer(s, x)
    BY <1>7, <1>10, <1>11
  <2>3. ~one.typed
    BY <1>7 DEF Answer
  <2> QED
    BY <1>0, <1>3, <1>5, <2>2, <2>3
<1>8. CASE /\ one = [prediction |-> Flag(s, x), score |-> x, risk |-> RiskLevel(x), typed |-> TRUE, raised |-> FALSE]
           /\ Flag(s, x) = 1 /\ s.second = "ready"
  <2>2. [one EXCEPT !.typed = FALSE] = Answer(s, x)
    BY <1>8, <1>10, <1>12
  <2>3. one.prediction = 1
    BY <1>8
  <2> QED
    BY <1>0, <1>3, <1>5, <1>8, <2>2, <2>3
<1> QED
  BY <1>4, <1>6, <1>7, <1>8

\* A row has alone the features that it has in a batch or in training, but for
\* the skewed ones; and from its raw score it is answered alone as in a batch,
\* but for the anomaly type and what a single answer may raise.
THEOREM RowsAreServedAlike == Spec => []ServedAlike
<1>1. Init => EngineerInv /\ ScoredInv
  BY EngineerInvInit, ScoredInvInit DEF Init
<1>2. (EngineerInv /\ ScoredInv) /\ [Next]_vars => (EngineerInv /\ ScoredInv)'
  BY ComputationStep, EngineerInvStep, ScoredInvStep
<1>3. EngineerInv /\ ScoredInv => ServedAlike
  BY EngineerInvAlike, ScoredInvAlike DEF ServedAlike
<1> QED
  BY <1>1, <1>2, <1>3, PTL DEF Spec

(***************************************************************************)
(* Model fitting: what one step of training hands to the next.             *)
(***************************************************************************)
FitBegun == {"split", "balance", "build", "calibrate", "test", "done"}
FitSplit == FitBegun \ {"split"}
FitBuilt == FitSplit \ {"balance"}
FitModelled == FitBuilt \ {"build"}
FitScored == FitModelled \ {"calibrate"}

CodedOK ==
  /\ coded.stage \in Stages /\ IsFiniteSet(DOMAIN coded.train)
  /\ coded.stage = "binary" => DOMAIN coded.train \subseteq {0, 1}

FitOK ==
  /\ fit = [strategy |-> fit.strategy, classes |-> fit.classes, validation |-> fit.validation, even |-> fit.even]
  /\ fit.validation \subseteq Classes /\ fit.even \in BOOLEAN
  /\ fit.classes = IF fit.even THEN {0, 1} ELSE Classes

ScoringOK ==
  /\ scoring = [calibrator |-> scoring.calibrator, threshold |-> scoring.threshold, predicted |-> scoring.predicted]
  /\ TwoClasses => scoring.calibrator = Calibrator /\ scoring.threshold = Threshold(Calibrator)

FittingInv ==
  /\ at \in FitBegun \cup {"labels", "raised"}
  /\ at \in FitBegun => CodedOK
  /\ at \in FitSplit => FitOK
  /\ at = "balance" => ~fit.even
  /\ at \in FitBuilt => fit.strategy \in Strategies /\ (fit.even <=> fit.strategy = "undersample")
  /\ at \in FitModelled => /\ model.estimator \in Estimators /\ model.given \in WeightGiven
                        /\ model.weights = Weights(model.estimator, model.given)
                        /\ Fittable(model.estimator)
  /\ at \in FitScored => ScoringOK
  /\ at = "done" => /\ TwoClasses => scoring.calibrator.fitted
                    /\ scoring.predicted \subseteq Predictable

LEMMA FittingInvInit == FittingInit => FittingInv
BY DEF FittingInit, FittingInv, FitBegun, FitSplit, FitBuilt, FitModelled, FitScored

LEMMA CodingOK ==
  ASSUME NEW stage \in Stages, NEW train \in [Labels -> FewRows], NEW test \in SUBSET Labels,
         coded' = Coding(stage, train, test)
  PROVE CodedOK'
<1> DEFINE present == {l \in AnomalyTypes : train[l] > 0} \cup (test \ {Normal})
           code == [l \in Labels |-> IF stage = "binary" THEN (IF l = Normal THEN 0 ELSE 1) ELSE NumberedIn(present, l)]
           used == IF stage = "binary" THEN Labels ELSE present
<1>1. coded'.stage = stage /\ DOMAIN coded'.train = {code[l] : l \in used}
  BY DEF Coding, Labels
<1>2. used \subseteq Labels /\ IsFiniteSet(Labels)
  <2>1. IsFiniteSet(Labels)
    BY FS_Singleton, FS_Union, FittingAssumption DEF Labels
  <2> QED
    BY <2>1 DEF Labels
<1>3. IsFiniteSet({code[l] : l \in used})
  <2> HIDE DEF code, used
  <2>1. IsFiniteSet(used)
    BY <1>2, FS_Subset
  <2>2. [l \in used |-> code[l]] \in Surjection(used, {code[l] : l \in used})
    BY DEF Surjection
  <2> QED
    BY <2>1, <2>2, FS_Surjection
<1>4. stage = "binary" => {code[l] : l \in used} \subseteq {0, 1}
  OBVIOUS
<1> QED
  BY <1>1, <1>3, <1>4 DEF CodedOK

LEMMA FittingInvStep == FittingInv /\ [FittingNext]_fittingVars => FittingInv'
<1> SUFFICES ASSUME FittingInv, [FittingNext]_fittingVars PROVE FittingInv'
  OBVIOUS
<1> USE DEF FitBegun, FitSplit, FitBuilt, FitModelled, FitScored
<1>1. CASE UNCHANGED fittingVars
  BY <1>1 DEF fittingVars, FittingInv, CodedOK, FitOK, ScoringOK, Classes, TwoClasses, Calibrator,
              Threshold, Weights, StrategyWeighs, Fittable, Predictable
<1>2. CASE CodeLabels
  <2>1. CodedOK'
    BY <1>2, CodingOK DEF CodeLabels
  <2> QED
    BY <1>2, <2>1 DEF CodeLabels, FittingInv
<1>3. CASE SplitTrain
  <2>1. at = "split" /\ coded' = coded
    BY <1>3 DEF SplitTrain
  <2>2. CodedOK'
    BY <2>1 DEF FittingInv, CodedOK
  <2>3. ASSUME NEW seen \in (SUBSET Classes) \ {{}}, at' = "balance",
               fit' = [strategy |-> "none", classes |-> Classes, validation |-> seen, even |-> FALSE]
        PROVE FitOK' /\ ~fit'.even
    BY <2>1, <2>3 DEF FitOK, Classes
  <2> QED
    BY <1>3, <2>2, <2>3 DEF SplitTrain, FittingInv
<1>4. CASE BalanceFit
  <2>1. at = "balance" /\ coded' = coded /\ CodedOK' /\ FitOK /\ ~fit.even
    BY <1>4 DEF BalanceFit, FittingInv, CodedOK
  <2>2. ASSUME NEW strategy \in Strategies, fit' = Balanced(strategy)
        PROVE FitOK' /\ fit'.strategy \in Strategies /\ (fit'.even <=> fit'.strategy = "undersample")
    <3>1. CASE strategy = "undersample"
      BY <2>1, <2>2, <3>1 DEF Balanced, FitOK, Classes
    <3>2. CASE strategy # "undersample"
      BY <2>1, <2>2, <3>2 DEF Balanced, FitOK, Classes
    <3> QED
      BY <3>1, <3>2
  <2> QED
    BY <1>4, <2>1, <2>2 DEF BalanceFit, FittingInv
<1>5. CASE FitModel
  <2>1. at = "build" /\ coded' = coded /\ fit' = fit
    BY <1>5 DEF FitModel
  <2>2. CodedOK' /\ FitOK' /\ fit'.strategy \in Strategies /\ (fit'.even <=> fit'.strategy = "undersample")
    BY <2>1 DEF FittingInv, CodedOK, FitOK, Classes
  <2>3. ASSUME NEW estimator \in Estimators, NEW given \in WeightGiven, Fittable(estimator),
               model' = [estimator |-> estimator, given |-> given, weights |-> Weights(estimator, given)]
        PROVE /\ model'.estimator \in Estimators /\ model'.given \in WeightGiven
              /\ model'.weights = Weights(model.estimator, model.given)' /\ Fittable(model.estimator)'
    BY <2>1, <2>3 DEF Weights, StrategyWeighs, TwoClasses, Fittable
  <2> QED
    BY <1>5, <2>2, <2>3 DEF FitModel, FittingInv
<1>6. CASE Calibrate
  <2>1. at = "calibrate" /\ at' = "test" /\ coded' = coded /\ fit' = fit /\ model' = model
    BY <1>6 DEF Calibrate
  <2>2. ScoringOK'
    BY <1>6, <2>1 DEF Calibrate, ScoringOK, TwoClasses, Calibrator, Threshold
  <2> QED
    BY <2>1, <2>2 DEF FittingInv, CodedOK, FitOK, Classes, TwoClasses, Weights, StrategyWeighs, Fittable
<1>7. CASE TestModel
  <2>1. at = "test" /\ coded' = coded /\ fit' = fit /\ model' = model
    BY <1>7 DEF TestModel
  <2>2. at' \in {"done", "raised"}
    BY <1>7 DEF TestModel
  <2>3. CASE at' = "done"
    <3>1. PICK predicted \in SUBSET Predictable : scoring' = [scoring EXCEPT !.predicted = predicted]
      BY <1>7, <2>3 DEF TestModel
    <3>2. TwoClasses => scoring.calibrator.fitted
      BY <1>7, <2>3 DEF TestModel
    <3>3. ScoringOK
      BY <2>1 DEF FittingInv
    <3>4. /\ scoring' = [calibrator |-> scoring'.calibrator, threshold |-> scoring'.threshold,
                         predicted |-> scoring'.predicted]
          /\ scoring'.calibrator = scoring.calibrator /\ scoring'.threshold = scoring.threshold
          /\ scoring'.predicted = predicted
      BY <3>1, <3>3 DEF ScoringOK
    <3>5. ScoringOK' /\ scoring'.predicted \subseteq Predictable' /\ (TwoClasses' => scoring'.calibrator.fitted)
      BY <2>1, <3>2, <3>3, <3>4 DEF ScoringOK, TwoClasses, Calibrator, Threshold, Predictable
    <3> QED
      BY <2>1, <2>3, <3>5 DEF FittingInv, CodedOK, FitOK, Classes, TwoClasses, Weights, StrategyWeighs, Fittable
  <2> QED
    BY <2>2, <2>3 DEF FittingInv
<1> QED
  BY <1>1, <1>2, <1>3, <1>4, <1>5, <1>6, <1>7 DEF FittingNext

-----------------------------------------------------------------------------
\* Two classes were validated: a calibrator was fitted.
LEMMA TwoOfThem ==
  ASSUME NEW S \in SUBSET {0, 1}, ~(Cardinality(S) < 2)
  PROVE S = {0, 1}
<1>1. S = {} \/ S = {0} \/ S = {1} \/ S = {0, 1}
  OBVIOUS
<1>2. Cardinality({}) = 0 /\ Cardinality({0}) = 1 /\ Cardinality({1}) = 1
  BY FS_EmptySet, FS_Singleton
<1>3. S # {} /\ S # {0} /\ S # {1}
  BY <1>2
<1> QED
  BY <1>1, <1>3

LEMMA CalibratedOnTwo ==
  ASSUME Calibrator.fitted
  PROVE ~(Cardinality(fit.validation) < 2)
BY DEF Calibrator, Uncalibrated

LEMMA FittingInvThreshold == FittingInv => ThresholdFits
<1> SUFFICES ASSUME FittingInv, at = "done", TwoClasses
             PROVE \/ scoring.threshold = "calibrated" /\ scoring.calibrator.positive = 1
                   \/ /\ coded.stage = "anomaly_type" /\ scoring.threshold = "half"
                      /\ ~(fit.validation \subseteq {0, 1})
  BY DEF ThresholdFits
<1>1. /\ scoring.calibrator = Calibrator /\ scoring.threshold = Threshold(Calibrator) /\ Calibrator.fitted
      /\ CodedOK /\ FitOK
  BY DEF FittingInv, ScoringOK, FitBegun, FitSplit, FitBuilt, FitModelled, FitScored
<1>2. CASE fit.validation \subseteq {0, 1}
  <2>1. fit.validation = {0, 1}
    BY <1>1, <1>2, CalibratedOnTwo, TwoOfThem
  <2>2. Smallest({0, 1}) = 0 /\ Smallest({1}) = 1
    BY DEF Smallest
  <2>3. Calibrator.positive = Smallest(fit.validation \ {Smallest(fit.validation)})
    BY <1>1, CalibratedOnTwo DEF Calibrator
  <2>4. {0, 1} \ {0} = {1}
    OBVIOUS
  <2>5. Calibrator.positive = 1
    BY <2>1, <2>2, <2>3, <2>4
  <2> QED
    BY <1>1, <1>2, <2>5 DEF Threshold
<1>3. CASE ~(fit.validation \subseteq {0, 1})
  <2>1. coded.stage = "anomaly_type"
    BY <1>1, <1>3 DEF CodedOK, FitOK, Classes, Stages
  <2> QED
    BY <1>1, <1>3, <2>1 DEF Threshold
<1> QED
  BY <1>2, <1>3

LEMMA FittingInvPredicts == FittingInv => PredictsTrained
<1> SUFFICES ASSUME FittingInv, at = "done", ~(scoring.predicted \subseteq fit.classes)
             PROVE /\ coded.stage = "anomaly_type" /\ model.estimator = "lightgbm"
                   /\ Cardinality(fit.classes) <= 2 /\ fit.classes # {0, 1}
  BY DEF PredictsTrained
<1> USE DEF FitBegun, FitSplit, FitBuilt, FitModelled, FitScored
<1>1. TwoClasses /\ fit.classes # {0, 1}
  BY DEF FittingInv, Predictable
<1>2. Calibrator.fitted /\ CodedOK /\ FitOK /\ Fittable(model.estimator)
  BY <1>1 DEF FittingInv, ScoringOK
<1>3. fit.classes = Classes /\ fit.validation \subseteq fit.classes
  BY <1>1, <1>2 DEF FitOK
<1>4. ~(fit.classes \subseteq {0, 1})
  <2>1. SUFFICES ASSUME fit.classes \subseteq {0, 1} PROVE FALSE
    OBVIOUS
  <2>2. fit.validation = {0, 1}
    BY <1>2, <1>3, <2>1, CalibratedOnTwo, TwoOfThem
  <2> QED
    BY <1>1, <1>3, <2>1, <2>2
<1>5. coded.stage = "anomaly_type" /\ model.estimator \in Tolerant
  BY <1>2, <1>3, <1>4 DEF CodedOK, Classes, Stages, Fittable
<1>6. model.estimator # "xgboost"
  <2>1. SUFFICES ASSUME model.estimator = "xgboost" PROVE FALSE
    OBVIOUS
  <2>2. IsFiniteSet(fit.classes)
    <3>1. Classes \subseteq DOMAIN coded.train
      BY DEF Classes
    <3> QED
      BY <1>2, <1>3, <3>1, FS_Subset DEF CodedOK
  <2>3. Cardinality(fit.classes) \in 0..2
    BY <1>1, <2>2, FS_CardinalityType DEF TwoClasses
  <2>4. fit.classes = 0..(Cardinality(fit.classes) - 1)
    BY <1>2, <2>1 DEF Fittable
  <2> QED
    BY <1>4, <2>3, <2>4
<1> QED
  BY <1>1, <1>5, <1>6 DEF TwoClasses, Tolerant

LEMMA FittingInvEvened == FittingInv => EvenedOnce
<1> SUFFICES ASSUME FittingInv, at = "done" PROVE EvenedOnce
  BY DEF EvenedOnce
<1>1. /\ fit.strategy \in Strategies /\ (fit.even <=> fit.strategy = "undersample")
      /\ model.estimator \in Estimators /\ model.given \in WeightGiven
      /\ model.weights = Weights(model.estimator, model.given)
  BY DEF FittingInv, FitBegun, FitSplit, FitBuilt, FitModelled, FitScored
<1>2. model.weights = CASE model.given = "absent" \/ model.estimator = "knn" -> IF StrategyWeighs(model.estimator) THEN 1 ELSE 0
                       [] model.estimator = "lightgbm" -> (IF StrategyWeighs(model.estimator) THEN 1 ELSE 0) + (IF model.given = "weighs" THEN 1 ELSE 0)
                       [] OTHER -> IF model.given = "weighs" THEN 1 ELSE 0
  BY <1>1 DEF Weights
<1> QED
  BY <1>1, <1>2 DEF EvenedOnce, Strategies, Estimators, WeightGiven, StrategyWeighs

\* A training that completes decides with what it was fitted for: it predicts
\* classes the model was fitted on, at a threshold on the scale it is applied on,
\* and the classes were made even once, but for the cases that are named.
THEOREM ModelsDecideSoundly == Spec => []DecidesSoundly
<1>1. Init => FittingInv
  BY FittingInvInit DEF Init
<1>2. FittingInv /\ [Next]_vars => FittingInv'
  BY ComputationStep, FittingInvStep
<1>3. FittingInv => DecidesSoundly
  BY FittingInvThreshold, FittingInvPredicts, FittingInvEvened DEF DecidesSoundly
<1> QED
  BY <1>1, <1>2, <1>3, PTL DEF Spec

(***************************************************************************)
(* Preprocessing: whatever two editors write over each other, a plan       *)
(* stands with the trail that explains it.                                 *)
(***************************************************************************)
AuditEntries == {CommitEntry} \cup {DecisionEntry(f, s) : f \in Features, s \in DecisionStatuses}

\* A row of the table: decisions are there once the recommendations are.
PlanRow(p) ==
  /\ p = [generated |-> p.generated, decisions |-> p.decisions, version |-> p.version,
          audit |-> p.audit, snapshot |-> p.snapshot]
  /\ p.generated \in BOOLEAN /\ p.audit \in Seq(AuditEntries)
  /\ IF p.generated THEN p.decisions \in [Features -> DecisionStatuses] ELSE p.decisions = Undecided

AboutFeature(audit, f) == {i \in DOMAIN audit : IsDecision(audit[i]) /\ audit[i].feature = f}

\* The last decision on f in the trail is s; none is the default.
LastSaid(audit, f, s) ==
  \/ AboutFeature(audit, f) = {} /\ s = "pending"
  \/ \E i \in AboutFeature(audit, f) : s = audit[i].status /\ \A j \in AboutFeature(audit, f) : j <= i

Explained(p) == p.generated => \A f \in Features : LastSaid(p.audit, f, p.decisions[f])

DraftOK(d) ==
  \/ d = IdleEditor
  \/ /\ d = [pc |-> d.pc, op |-> d.op, row |-> d.row] /\ d.pc \in {"generate", "write"} /\ PlanRow(d.row)
     /\ d.pc = "write" => d.row.generated /\ plan.generated
     /\ d.pc = "generate" => ~d.row.generated

\* Until columns of two writers were paired, the row and every copy of it in a
\* session are explained by their own trails.
PlanInv ==
  /\ PlanRow(plan) /\ crossed \in BOOLEAN
  /\ DOMAIN draft = Editors /\ \A u \in Editors : DraftOK(draft[u])
  /\ ~crossed => /\ Explained(plan)
                 /\ \A u \in Editors : draft[u].pc # "idle" => Explained(draft[u].row)

LEMMA PlanInvInit == PlanInit => PlanInv
<1> SUFFICES ASSUME PlanInit PROVE PlanInv
  OBVIOUS
<1>1. /\ plan.generated = FALSE /\ plan.decisions = Undecided /\ plan.audit = <<>>
      /\ plan = [generated |-> plan.generated, decisions |-> plan.decisions, version |-> plan.version,
                 audit |-> plan.audit, snapshot |-> plan.snapshot]
  BY DEF PlanInit
<1>2. PlanRow(plan) /\ Explained(plan)
  <2>1. plan.audit \in Seq(AuditEntries)
    BY <1>1
  <2>2. plan.generated \in BOOLEAN /\ ~plan.generated
    BY <1>1, Zenon
  <2> QED
    BY <1>1, <2>1, <2>2 DEF PlanRow, Explained
<1>3. DOMAIN draft = Editors /\ \A u \in Editors : DraftOK(draft[u]) /\ draft[u].pc = "idle"
  BY DEF PlanInit, DraftOK, IdleEditor
<1> QED
  BY <1>2, <1>3 DEF PlanInit, PlanInv

\* A decision added to a trail is the last on its feature, and no other's.
LEMMA DecisionSaid ==
  ASSUME NEW audit \in Seq(AuditEntries), NEW f \in Features, NEW s \in DecisionStatuses,
         NEW g \in Features, NEW t, LastSaid(audit, g, t)
  PROVE LastSaid(Append(audit, DecisionEntry(f, s)), g, IF g = f THEN s ELSE t)
<1> DEFINE n == Len(audit) + 1   longer == Append(audit, DecisionEntry(f, s))
<1>1. /\ n \in Nat /\ n > 0 /\ DOMAIN audit = 1..(n - 1) /\ DOMAIN longer = 1..n
      /\ longer[n] = DecisionEntry(f, s)
      /\ \A i \in DOMAIN audit : longer[i] = audit[i]
  <2>1. DecisionEntry(f, s) \in AuditEntries
    BY DEF AuditEntries
  <2> QED
    BY <2>1
<1> HIDE DEF n, longer
<1>2. IsDecision(longer[n]) /\ longer[n].feature = f /\ longer[n].status = s
  BY <1>1 DEF IsDecision, DecisionEntry
<1>3. AboutFeature(longer, g) = AboutFeature(audit, g) \cup (IF g = f THEN {n} ELSE {})
  <2>1. DOMAIN longer = DOMAIN audit \cup {n} /\ n \notin DOMAIN audit
    BY <1>1
  <2>2. ASSUME NEW i PROVE i \in AboutFeature(longer, g) <=> i \in AboutFeature(audit, g) \/ (i = n /\ g = f)
    <3>1. CASE i = n
      BY <1>1, <1>2, <3>1 DEF AboutFeature
    <3>2. CASE i # n
      BY <1>1, <2>1, <3>2 DEF AboutFeature
    <3> QED
      BY <3>1, <3>2
  <2> QED
    BY <2>2
<1>4. \A j \in AboutFeature(audit, g) : j <= n /\ longer[j] = audit[j]
  BY <1>1 DEF AboutFeature
<1>5. n <= n
  BY <1>1
<1>6. LastSaid(longer, g, IF g = f THEN s ELSE t)
  BY <1>2, <1>3, <1>4, <1>5 DEF LastSaid
<1> QED
  BY <1>6 DEF longer

\* A commit says nothing of a feature.
LEMMA CommitSaid ==
  ASSUME NEW audit \in Seq(AuditEntries), NEW g \in Features, NEW t, LastSaid(audit, g, t)
  PROVE LastSaid(Append(audit, CommitEntry), g, t)
<1> DEFINE n == Len(audit) + 1   longer == Append(audit, CommitEntry)
<1>1. /\ n \in Nat /\ DOMAIN audit = 1..(n - 1) /\ DOMAIN longer = 1..n /\ longer[n] = CommitEntry
      /\ \A i \in DOMAIN audit : longer[i] = audit[i]
  OBVIOUS
<1> HIDE DEF n, longer
<1>2. ~IsDecision(longer[n])
  BY <1>1 DEF IsDecision, CommitEntry
<1>3. AboutFeature(longer, g) = AboutFeature(audit, g)
  BY <1>1, <1>2 DEF AboutFeature
<1>4. \A j \in AboutFeature(audit, g) : longer[j] = audit[j]
  BY <1>1 DEF AboutFeature
<1>5. LastSaid(longer, g, t)
  BY <1>3, <1>4 DEF LastSaid
<1> QED
  BY <1>5 DEF longer

\* Two trails of the same decisions say the same of every feature.
LEMMA SameSaid ==
  ASSUME NEW a \in Seq(AuditEntries), NEW b \in Seq(AuditEntries), SameDecisions(a, b),
         NEW f, NEW s, LastSaid(b, f, s)
  PROVE LastSaid(a, f, s)
<1> DEFINE Deciders(audit) == {i \in DOMAIN audit : IsDecision(audit[i])}
<1>1. PICK m \in [Deciders(a) -> Deciders(b)] :
        /\ \A j \in Deciders(b) : \E i \in Deciders(a) : m[i] = j
        /\ \A i \in Deciders(a) : a[i] = b[m[i]] /\ \A k \in Deciders(a) : i < k => m[i] < m[k]
  BY DEF SameDecisions
<1>2. \A i \in Deciders(a) : i \in AboutFeature(a, f) <=> m[i] \in AboutFeature(b, f)
  BY <1>1 DEF AboutFeature
<1>3. AboutFeature(a, f) \subseteq Deciders(a) /\ AboutFeature(b, f) \subseteq Deciders(b)
  BY DEF AboutFeature
<1>4. Deciders(a) \subseteq Nat /\ Deciders(b) \subseteq Nat
  OBVIOUS
<1>5. CASE AboutFeature(b, f) = {} /\ s = "pending"
  BY <1>2, <1>3, <1>5 DEF LastSaid
<1>6. ASSUME NEW j \in AboutFeature(b, f), s = b[j].status, \A l \in AboutFeature(b, f) : l <= j
      PROVE LastSaid(a, f, s)
  <2>1. PICK i \in Deciders(a) : m[i] = j
    BY <1>1, <1>3, <1>6
  <2>2. i \in AboutFeature(a, f) /\ s = a[i].status
    BY <1>1, <1>2, <1>6, <2>1
  <2> HIDE DEF Deciders
  <2>3. ASSUME NEW k \in AboutFeature(a, f) PROVE k <= i
    <3>1. m[k] <= m[i] /\ k \in Deciders(a) /\ k \in Nat /\ i \in Nat /\ m[k] \in Nat /\ m[i] \in Nat
      BY <1>1, <1>2, <1>3, <1>4, <1>6, <2>1
    <3>2. ~(i < k)
      BY <1>1, <2>1, <3>1
    <3> QED
      BY <3>1, <3>2
  <2> QED
    BY <2>2, <2>3 DEF LastSaid
<1> QED
  BY <1>5, <1>6 DEF LastSaid

\* The request u is over, and the others have what they had.
Closed(u) == draft' = [draft EXCEPT ![u] = IdleEditor]

LEMMA OthersKept ==
  ASSUME PlanInv, NEW u \in Editors, Closed(u), PlanRow(plan'), plan.generated => plan'.generated,
         crossed' \in BOOLEAN, crossed => crossed', ~crossed' => Explained(plan')
  PROVE PlanInv'
<1>1. \A v \in Editors : DraftOK(draft[v])'
  BY DEF PlanInv, Closed, DraftOK
<1>2. \A v \in Editors : draft'[v].pc # "idle" => draft'[v] = draft[v]
  BY DEF PlanInv, Closed, IdleEditor
<1>3. DOMAIN draft' = Editors
  BY DEF PlanInv, Closed
<1>4. Explained(plan)' = Explained(plan')
  BY DEF Explained
<1> QED
  BY <1>1, <1>2, <1>3 DEF PlanInv, PlanRow, Explained

LEMMA OpenKeeps ==
  ASSUME PlanInv, NEW u \in Editors, NEW op \in {"get", "update", "commit"}, Open(u, op)
  PROVE PlanInv'
<1>1. /\ plan' = plan /\ crossed' = crossed /\ DOMAIN draft' = Editors
      /\ draft'[u] = [pc |-> IF plan.generated THEN "write" ELSE "generate", op |-> op, row |-> plan]
      /\ \A v \in Editors \ {u} : draft'[v] = draft[v]
  BY DEF Open, PlanInv
<1>2. DraftOK(draft[u])'
  BY <1>1 DEF DraftOK, PlanInv
<1>3. draft'[u].row = plan
  BY <1>1
<1> QED
  BY <1>1, <1>2, <1>3 DEF PlanInv, PlanRow, Explained, DraftOK

LEMMA GenerateKeeps ==
  ASSUME PlanInv, NEW u \in Editors, Generate(u)
  PROVE PlanInv'
<1> DEFINE read == draft[u].row
<1>1. /\ draft[u] = [pc |-> draft[u].pc, op |-> draft[u].op, row |-> draft[u].row]
      /\ read.decisions = Undecided /\ draft[u].pc = "generate"
  <2>1. draft[u].pc = "generate" /\ DraftOK(draft[u]) /\ draft[u] # IdleEditor
    BY DEF Generate, PlanInv, IdleEditor
  <2> QED
    BY <2>1 DEF DraftOK, PlanRow
<1>2. plan' = [plan EXCEPT !.generated = TRUE, !.decisions = Defaults]
  BY <1>1 DEF Generate, WithPlan
<1>3. /\ plan'.generated = TRUE /\ plan'.decisions = Defaults /\ plan'.audit = plan.audit
      /\ plan' = [generated |-> plan'.generated, decisions |-> plan'.decisions, version |-> plan'.version,
                  audit |-> plan'.audit, snapshot |-> plan'.snapshot]
  BY <1>2 DEF PlanInv, PlanRow
<1>4. PlanRow(plan')
  BY <1>3 DEF PlanInv, PlanRow, Defaults, DecisionStatuses
<1>5. crossed' \in BOOLEAN /\ (crossed => crossed')
  BY DEF Generate, PlanInv
<1>6. ASSUME ~crossed' PROVE Explained(plan')
  <2>1. plan.audit = <<>> \/ plan.decisions = Defaults
    BY <1>3, <1>6 DEF Generate
  <2>2. SUFFICES ASSUME NEW f \in Features PROVE LastSaid(plan.audit, f, "pending")
    BY <1>3 DEF Explained, Defaults
  <2>3. CASE plan.audit = <<>>
    BY <2>3 DEF LastSaid, AboutFeature
  <2>4. CASE plan.decisions = Defaults
    <3>1. plan.generated
      BY <2>4 DEF PlanInv, PlanRow, Defaults, Undecided
    <3>2. Explained(plan)
      BY <1>5, <1>6 DEF PlanInv
    <3> QED
      BY <2>4, <3>1, <3>2 DEF Explained, Defaults
  <2> QED
    BY <2>1, <2>3, <2>4
<1>7. CASE Closed(u)
  BY <1>3, <1>4, <1>5, <1>6, <1>7, OthersKept
<1>8. CASE draft' = [draft EXCEPT ![u] = [@ EXCEPT !.pc = "write", !.row = plan']]
  <2>1. DOMAIN draft' = Editors /\ \A v \in Editors \ {u} : draft'[v] = draft[v]
    BY <1>8 DEF PlanInv
  <2>2. draft'[u] = [draft[u] EXCEPT !.pc = "write", !.row = plan']
    BY <1>8 DEF PlanInv
  <2>3. /\ draft'[u].pc = "write" /\ draft'[u].row = plan'
        /\ draft'[u] = [pc |-> draft'[u].pc, op |-> draft'[u].op, row |-> draft'[u].row]
    BY <1>1, <2>2
  <2>4. DraftOK(draft[u])'
    BY <1>3, <1>4, <2>3 DEF DraftOK, PlanRow
  <2>5. \A v \in Editors \ {u} : DraftOK(draft[v])'
    BY <1>3, <2>1 DEF DraftOK, PlanInv
  <2> QED
    BY <1>4, <1>5, <1>6, <2>1, <2>3, <2>4, <2>5 DEF PlanInv, PlanRow, Explained
<1> QED
  BY <1>7, <1>8 DEF Generate, Closed

\* A request that writes has a row with its recommendations, like the table.
LEMMA WriterReady ==
  ASSUME PlanInv, NEW u \in Editors, draft[u].pc = "write"
  PROVE /\ PlanRow(draft[u].row) /\ draft[u].row.generated /\ plan.generated
        /\ ~crossed => Explained(draft[u].row)
BY DEF PlanInv, DraftOK, IdleEditor

LEMMA DecideKeeps ==
  ASSUME PlanInv, NEW u \in Editors, NEW f \in Features, NEW s \in DecisionStatuses, Decide(u, f, s)
  PROVE PlanInv'
<1> DEFINE read == draft[u].row
<1>1. PlanRow(read) /\ read.generated /\ plan.generated /\ (~crossed => Explained(read))
  BY WriterReady DEF Decide
<1>2. plan' = [plan EXCEPT !.decisions = [read.decisions EXCEPT ![f] = s],
                           !.audit = Append(read.audit, DecisionEntry(f, s))]
  BY DEF Decide, Updated
<1>3. /\ plan'.generated = plan.generated /\ plan'.decisions = [read.decisions EXCEPT ![f] = s]
      /\ plan'.audit = Append(read.audit, DecisionEntry(f, s))
      /\ plan' = [generated |-> plan'.generated, decisions |-> plan'.decisions, version |-> plan'.version,
                  audit |-> plan'.audit, snapshot |-> plan'.snapshot]
  BY <1>2 DEF PlanInv, PlanRow
<1>4. read.audit \in Seq(AuditEntries) /\ read.decisions \in [Features -> DecisionStatuses]
  BY <1>1 DEF PlanRow
<1>5. plan'.audit \in Seq(AuditEntries)
  BY <1>3, <1>4 DEF AuditEntries
<1>6. PlanRow(plan')
  BY <1>1, <1>3, <1>4, <1>5 DEF PlanInv, PlanRow
<1>7. ASSUME ~crossed PROVE Explained(plan')
  <2>1. \A g \in Features : LastSaid(read.audit, g, read.decisions[g])
    BY <1>1, <1>7 DEF Explained
  <2>2. \A g \in Features : plan'.decisions[g] = IF g = f THEN s ELSE read.decisions[g]
    BY <1>3, <1>4
  <2>3. \A g \in Features : LastSaid(plan'.audit, g, plan'.decisions[g])
    BY <1>3, <1>4, <2>1, <2>2, DecisionSaid
  <2> QED
    BY <2>3 DEF Explained
<1>8. crossed' = crossed /\ Closed(u) /\ crossed \in BOOLEAN
  BY DEF Decide, Closed, PlanInv
<1> QED
  BY <1>1, <1>3, <1>6, <1>7, <1>8, OthersKept

LEMMA CommitKeeps ==
  ASSUME PlanInv, NEW u \in Editors, CommitPlan(u)
  PROVE PlanInv'
<1> DEFINE read == draft[u].row
<1>1. PlanRow(read) /\ plan.generated
  BY WriterReady DEF CommitPlan
<1>2. plan' = [plan EXCEPT !.version = read.version + 1, !.snapshot = read.decisions,
                           !.audit = Append(read.audit, CommitEntry)]
  BY DEF CommitPlan
<1>3. /\ plan'.generated = plan.generated /\ plan'.decisions = plan.decisions
      /\ plan'.audit = Append(read.audit, CommitEntry)
      /\ plan' = [generated |-> plan'.generated, decisions |-> plan'.decisions, version |-> plan'.version,
                  audit |-> plan'.audit, snapshot |-> plan'.snapshot]
  BY <1>2 DEF PlanInv, PlanRow
<1>4. read.audit \in Seq(AuditEntries) /\ plan.audit \in Seq(AuditEntries)
  BY <1>1 DEF PlanRow, PlanInv
<1>5. plan'.audit \in Seq(AuditEntries)
  BY <1>3, <1>4 DEF AuditEntries
<1>6. PlanRow(plan')
  BY <1>1, <1>3, <1>5 DEF PlanInv, PlanRow
<1>7. crossed' \in BOOLEAN /\ (crossed => crossed') /\ Closed(u)
  BY DEF CommitPlan, Closed, PlanInv
<1>8. ASSUME ~crossed' PROVE Explained(plan')
  <2>1. SameDecisions(read.audit, plan.audit) /\ ~crossed
    BY <1>8 DEF CommitPlan
  <2>2. \A g \in Features : LastSaid(plan.audit, g, plan.decisions[g])
    BY <1>1, <2>1 DEF PlanInv, Explained
  <2>3. \A g \in Features : LastSaid(read.audit, g, plan.decisions[g])
    BY <1>4, <2>1, <2>2, SameSaid
  <2>4. \A g \in Features : LastSaid(plan'.audit, g, plan'.decisions[g])
    BY <1>3, <1>4, <2>3, CommitSaid
  <2> QED
    BY <2>4 DEF Explained
<1> QED
  BY <1>1, <1>3, <1>6, <1>7, <1>8, OthersKept

LEMMA PlanInvStep == PlanInv /\ [PlanNext]_planVars => PlanInv'
<1> SUFFICES ASSUME PlanInv, [PlanNext]_planVars PROVE PlanInv'
  OBVIOUS
<1>1. CASE UNCHANGED planVars
  BY <1>1 DEF planVars, PlanInv, PlanRow, DraftOK, Explained
<1>2. ASSUME NEW u \in Editors, Drop(u)
      PROVE PlanInv'
  BY <1>2, OthersKept DEF Drop, Closed, PlanInv
<1> QED
  BY <1>1, <1>2, OpenKeeps, GenerateKeeps, DecideKeeps, CommitKeeps DEF PlanNext

LEMMA PlanInvMatches == PlanInv => AuditMatches
<1> SUFFICES ASSUME PlanInv, ~crossed, plan.decisions # Undecided, NEW f \in Features
             PROVE plan.decisions[f] = Audited(f)
  BY DEF AuditMatches
<1> DEFINE I == {i \in 1..Len(plan.audit) : IsDecision(plan.audit[i]) /\ plan.audit[i].feature = f}
<1>1. LastSaid(plan.audit, f, plan.decisions[f]) /\ plan.audit \in Seq(AuditEntries)
  BY DEF PlanInv, PlanRow, Explained
<1>2. I = AboutFeature(plan.audit, f) /\ I \subseteq Nat
  BY <1>1 DEF AboutFeature
<1>3. /\ I = {} => Audited(f) = "pending"
      /\ I # {} /\ Max(I) # 0 => Audited(f) = plan.audit[Max(I)].status
  BY DEF Audited, SelectLastInSeq
<1>4. 0 \notin I
  OBVIOUS
<1> HIDE DEF I
<1>5. ASSUME NEW i \in I, \A j \in I : j <= i
      PROVE Max(I) = i
  BY <1>2, <1>5 DEF Max
<1> QED
  BY <1>1, <1>2, <1>3, <1>4, <1>5 DEF LastSaid

\* The last decision on a feature that the trail of a plan records is the one
\* the plan holds, however updates overlapped, unless a commit or a generation
\* paired one writer's decisions with another's trail.
THEOREM TrailExplainsPlan == Spec => []AuditMatches
<1>1. Init => PlanInv
  BY PlanInvInit DEF Init
<1>2. PlanInv /\ [Next]_vars => PlanInv'
  BY ComputationStep, PlanInvStep
<1>3. PlanInv => AuditMatches
  BY PlanInvMatches
<1> QED
  BY <1>1, <1>2, <1>3, PTL DEF Spec

(***************************************************************************)
(* Baselines: every metric the monitor compares is a quotient of counts    *)
(* that a correction moves one way.                                        *)
(***************************************************************************)
LoggedCounts == logged \in [Cells -> Nat]

LEMMA LoggedCountsInit == BaselinesInit => LoggedCounts
BY DEF BaselinesInit, LoggedCounts, Cells, NoLabel

LEMMA LoggedCountsStep == LoggedCounts /\ [BaselinesNext]_baselineVars => LoggedCounts'
<1> SUFFICES ASSUME LoggedCounts, [BaselinesNext]_baselineVars PROVE LoggedCounts'
  OBVIOUS
<1>1. CASE UNCHANGED logged
  BY <1>1 DEF LoggedCounts
<1>2. ASSUME NEW p \in {0, 1}, LogPrediction(p)
      PROVE LoggedCounts'
  BY <1>2 DEF LogPrediction, LoggedCounts, Cells, NoLabel
<1>3. ASSUME NEW p \in {0, 1}, NEW old \in {0, 1, NoLabel}, NEW new \in {0, 1}, GiveFeedback(p, old, new)
      PROVE LoggedCounts'
  BY <1>3 DEF GiveFeedback, LoggedCounts, Cells, NoLabel
<1>4. ASSUME NEW c \in Cells, LeaveWindow(c)
      PROVE LoggedCounts'
  BY <1>4 DEF LeaveWindow, LoggedCounts, Cells, NoLabel
<1> QED
  BY <1>1, <1>2, <1>3, <1>4
    DEF BaselinesNext, baselineVars, BeginSetting, DeleteBaselines, CommitBaselines, SetterFails,
        TrainMeasured, ReadMetrics, CompareBaselines

\* A ratio passes when the product does; one of nothing counts as zero.
LEMMA RatioPasses ==
  ASSUME NEW x \in Nat, NEW y \in Nat
  PROVE /\ Passes("precision", Ratio(x, y)) <=> y > 0 /\ 100 * x >= 85 * y
        /\ Passes("recall", Ratio(x, y)) <=> y > 0 /\ 100 * x >= 80 * y
        /\ Passes("f1", Ratio(x, y)) <=> y > 0 /\ 100 * x >= 82 * y
        /\ Passes("fpr", Ratio(x, y)) <=> (y > 0 => 100 * x <= 10 * y)
<1>1. PICK v : v = Ratio(x, y)
  OBVIOUS
<1>2. /\ v[1] = IF y > 0 THEN x ELSE 0
      /\ v[2] = IF y > 0 THEN y ELSE 1
  BY <1>1 DEF Ratio
<1>3. /\ Passes("precision", v) <=> v[1] * 100 >= 85 * v[2]
      /\ Passes("recall", v) <=> v[1] * 100 >= 80 * v[2]
      /\ Passes("f1", v) <=> v[1] * 100 >= 82 * v[2]
      /\ Passes("fpr", v) <=> v[1] * 100 <= 10 * v[2]
  BY DEF Passes, Operator, DefaultLimit
<1>4. CASE y > 0
  BY <1>1, <1>2, <1>3, <1>4
<1>5. CASE y = 0
  <2>1. v[1] = 0 /\ v[2] = 1
    BY <1>2, <1>5
  <2>2. ~(v[1] * 100 >= 85 * v[2]) /\ ~(v[1] * 100 >= 80 * v[2]) /\ ~(v[1] * 100 >= 82 * v[2])
        /\ v[1] * 100 <= 10 * v[2]
    BY <2>1
  <2> QED
    BY <1>1, <1>3, <1>5, <2>2
<1> QED
  BY <1>4, <1>5

\* Which metrics are violated, with the quotients cleared.
LEMMA ViolatedCounts ==
  ASSUME NEW l \in [Cells -> Nat], NEW tp, NEW fp, NEW fn, NEW tn,
         tp = l[<<1, 1>>], fp = l[<<1, 0>>], fn = l[<<0, 1>>], tn = l[<<0, 0>>],
         NEW m \in {"precision", "recall", "f1", "fpr"}
  PROVE m \in Violated(Measured(l), {"precision", "recall", "f1", "fpr"}) <=>
          \/ m = "precision" /\ (tp + fp = 0 \/ 100 * tp < 85 * (tp + fp))
          \/ m = "recall" /\ (tp + fn = 0 \/ 100 * tp < 80 * (tp + fn))
          \/ m = "f1" /\ (tp = 0 \/ 200 * tp < 82 * (2 * tp + fp + fn))
          \/ m = "fpr" /\ fp + tn > 0 /\ 100 * fp > 10 * (fp + tn)
<1> DEFINE x == IF m = "precision" \/ m = "recall" THEN tp
                ELSE IF m = "f1" THEN (IF tp > 0 THEN 2 * tp ELSE 0) ELSE fp
           y == IF m = "precision" THEN tp + fp ELSE IF m = "recall" THEN tp + fn
                ELSE IF m = "f1" THEN 2 * tp + fp + fn ELSE fp + tn
<1>1. tp \in Nat /\ fp \in Nat /\ fn \in Nat /\ tn \in Nat
  BY DEF Cells, NoLabel
<1>2. x \in Nat /\ y \in Nat
  BY <1>1
<1>3. m \in Violated(Measured(l), {"precision", "recall", "f1", "fpr"}) <=> ~Passes(m, Ratio(x, y))
  <2>1. Measured(l)[m] = Ratio(x, y) /\ m \in DOMAIN Measured(l)
    BY DEF Measured
  <2> QED
    BY <2>1 DEF Violated
<1>4. /\ m = "precision" => (Passes(m, Ratio(x, y)) <=> y > 0 /\ 100 * x >= 85 * y)
      /\ m = "recall" => (Passes(m, Ratio(x, y)) <=> y > 0 /\ 100 * x >= 80 * y)
      /\ m = "f1" => (Passes(m, Ratio(x, y)) <=> y > 0 /\ 100 * x >= 82 * y)
      /\ m = "fpr" => (Passes(m, Ratio(x, y)) <=> (y > 0 => 100 * x <= 10 * y))
  <2> HIDE DEF x, y
  <2> QED
    BY <1>2, RatioPasses
<1>5. CASE m = "precision"
  BY <1>1, <1>3, <1>4, <1>5
<1>6. CASE m = "recall"
  BY <1>1, <1>3, <1>4, <1>6
<1>7. CASE m = "f1"
  BY <1>1, <1>3, <1>4, <1>7
<1>8. CASE m = "fpr"
  BY <1>1, <1>3, <1>4, <1>8
<1> QED
  BY <1>5, <1>6, <1>7, <1>8

\* A step that lowers the right predictions of p and raises the wrong ones is the
\* correction of one label.
LEMMA CorrectionIsFeedback ==
  ASSUME LoggedCounts, [BaselinesNext]_baselineVars, NEW p \in {0, 1},
         logged[<<p, p>>] > logged'[<<p, p>>], logged'[<<p, 1 - p>>] > logged[<<p, 1 - p>>]
  PROVE /\ logged' = [logged EXCEPT ![<<p, p>>] = @ - 1, ![<<p, 1 - p>>] = @ + 1]
        /\ logged[<<p, p>>] > 0
<1>1. logged' # logged
  BY DEF LoggedCounts, Cells, NoLabel
<1>5. 1 - p \in {0, 1} /\ 1 - p # p
  OBVIOUS
<1>2. ASSUME NEW q \in {0, 1}, LogPrediction(q)
      PROVE FALSE
  BY <1>2 DEF LogPrediction, LoggedCounts, Cells, NoLabel
<1>3. ASSUME NEW c \in Cells, LeaveWindow(c)
      PROVE FALSE
  BY <1>3 DEF LeaveWindow, LoggedCounts, Cells, NoLabel
<1>4. ASSUME NEW q \in {0, 1}, NEW old \in {0, 1, NoLabel}, NEW new \in {0, 1}, GiveFeedback(q, old, new)
      PROVE q = p /\ old = p /\ new = 1 - p /\ logged[<<p, p>>] > 0
  BY <1>4 DEF GiveFeedback, LoggedCounts, Cells, NoLabel
<1>6. \E q \in {0, 1}, old \in {0, 1, NoLabel}, new \in {0, 1} : GiveFeedback(q, old, new)
  BY <1>1, <1>2, <1>3
    DEF BaselinesNext, baselineVars, BeginSetting, DeleteBaselines, CommitBaselines, SetterFails,
        TrainMeasured, ReadMetrics, CompareBaselines
<1>7. GiveFeedback(p, p, 1 - p) /\ logged[<<p, p>>] > 0
  BY <1>4, <1>6
<1> QED
  BY <1>7 DEF GiveFeedback

WorseShown ==
  \A p \in {0, 1} :
    (logged[<<p, p>>] > logged'[<<p, p>>] /\ logged'[<<p, 1 - p>>] > logged[<<p, 1 - p>>]) =>
      LET all == DOMAIN Measured(logged)
      IN Violated(Measured(logged), all) \subseteq Violated(Measured(logged'), all)

LEMMA WorseShownStep == LoggedCounts /\ [BaselinesNext]_baselineVars => WorseShown
<1> SUFFICES ASSUME LoggedCounts, [BaselinesNext]_baselineVars, NEW p \in {0, 1},
                    logged[<<p, p>>] > logged'[<<p, p>>], logged'[<<p, 1 - p>>] > logged[<<p, 1 - p>>],
                    NEW m \in Violated(Measured(logged), DOMAIN Measured(logged))
             PROVE m \in Violated(Measured(logged'), DOMAIN Measured(logged))
  BY DEF WorseShown
<1>1. DOMAIN Measured(logged) = {"precision", "recall", "f1", "fpr"}
  BY DEF Measured
<1>2. m \in {"precision", "recall", "f1", "fpr"}
  BY <1>1 DEF Violated
<1>3. PICK tp, fp, fn, tn :
        tp = logged[<<1, 1>>] /\ fp = logged[<<1, 0>>] /\ fn = logged[<<0, 1>>] /\ tn = logged[<<0, 0>>]
  OBVIOUS
<1>4. PICK tp1, fp1, fn1, tn1 :
        tp1 = logged'[<<1, 1>>] /\ fp1 = logged'[<<1, 0>>] /\ fn1 = logged'[<<0, 1>>] /\ tn1 = logged'[<<0, 0>>]
  OBVIOUS
<1>5. logged \in [Cells -> Nat] /\ logged' \in [Cells -> Nat]
  BY LoggedCountsStep DEF LoggedCounts
<1>6. /\ logged' = [logged EXCEPT ![<<p, p>>] = @ - 1, ![<<p, 1 - p>>] = @ + 1]
      /\ logged[<<p, p>>] > 0
  BY CorrectionIsFeedback
<1>7. /\ tp \in Nat /\ fp \in Nat /\ fn \in Nat /\ tn \in Nat
      /\ tp1 \in Nat /\ fp1 \in Nat /\ fn1 \in Nat /\ tn1 \in Nat
      /\ tp1 = tp - p /\ fp1 = fp + p /\ tn1 = tn - (1 - p) /\ fn1 = fn + (1 - p)
  BY <1>3, <1>4, <1>5, <1>6 DEF Cells, NoLabel
<1>8. m \in Violated(Measured(logged), {"precision", "recall", "f1", "fpr"}) <=>
          \/ m = "precision" /\ (tp + fp = 0 \/ 100 * tp < 85 * (tp + fp))
          \/ m = "recall" /\ (tp + fn = 0 \/ 100 * tp < 80 * (tp + fn))
          \/ m = "f1" /\ (tp = 0 \/ 200 * tp < 82 * (2 * tp + fp + fn))
          \/ m = "fpr" /\ fp + tn > 0 /\ 100 * fp > 10 * (fp + tn)
  BY <1>2, <1>3, <1>5, ViolatedCounts
<1>9. m \in Violated(Measured(logged'), {"precision", "recall", "f1", "fpr"}) <=>
          \/ m = "precision" /\ (tp1 + fp1 = 0 \/ 100 * tp1 < 85 * (tp1 + fp1))
          \/ m = "recall" /\ (tp1 + fn1 = 0 \/ 100 * tp1 < 80 * (tp1 + fn1))
          \/ m = "f1" /\ (tp1 = 0 \/ 200 * tp1 < 82 * (2 * tp1 + fp1 + fn1))
          \/ m = "fpr" /\ fp1 + tn1 > 0 /\ 100 * fp1 > 10 * (fp1 + tn1)
  BY <1>2, <1>4, <1>5, ViolatedCounts
<1> QED
  BY <1>1, <1>2, <1>7, <1>8, <1>9

\* Feedback that turns a right prediction into a wrong one lifts no violation.
THEOREM WorseIsShown == Spec => WorseFeedbackShows
<1>1. Init => LoggedCounts
  BY LoggedCountsInit DEF Init
<1>2. LoggedCounts /\ [Next]_vars => LoggedCounts'
  BY ComputationStep, LoggedCountsStep
<1>3. LoggedCounts /\ [Next]_vars => [WorseShown]_logged
  BY ComputationStep, WorseShownStep
<1>4. [][WorseShown]_logged => WorseFeedbackShows
  BY PTL DEF WorseFeedbackShows, WorseShown
<1> QED
  BY <1>1, <1>2, <1>3, <1>4, PTL DEF Spec

(***************************************************************************)
(* Training forms: what the API refuses, against what cannot be trained    *)
(* and what the catalogue offers.                                          *)
(***************************************************************************)
\* A form that a client has filled in with what is offered.
FormShape(f) ==
  /\ f = [algorithm |-> f.algorithm, method |-> f.method, full |-> f.full, changed |-> f.changed]
  /\ f.algorithm \in Tried /\ f.method \in Methods
  /\ DOMAIN f.changed \subseteq Names(f.algorithm) /\ IsFiniteSet(DOMAIN f.changed)
  /\ \A name \in DOMAIN f.changed : f.changed[name] \in Entries(f, name)

\* What the API queued it had not refused, and so on.
FormInv ==
  /\ form = NoForm => verdict = "none"
  /\ form # NoForm =>
       /\ FormShape(form)
       /\ verdict \in {"queued", "raised"} => ~Refused(form) /\ ~CheckFails(form)
       /\ verdict = "raised" => Untrainable(form)
       /\ verdict = "refused" => Refused(form) /\ ~CheckFails(form)

LEMMA FormInvInit == FormInit => FormInv
BY DEF FormInit, FormInv

LEMMA FormInvStep == FormInv /\ [FormNext]_formVars => FormInv'
<1> SUFFICES ASSUME FormInv, [FormNext]_formVars PROVE FormInv'
  OBVIOUS
<1>1. CASE UNCHANGED formVars
  BY <1>1 DEF formVars, FormInv
<1>2. CASE OpenForm
  <2>1. PICK a \in Tried, method \in Methods, full \in BOOLEAN :
          form' = [algorithm |-> a, method |-> method, full |-> full,
                   changed |-> [x \in {} |-> Entry("absent", {})]]
    BY <1>2 DEF OpenForm
  <2>2. form'.algorithm = a /\ form'.method = method /\ DOMAIN form'.changed = {}
    BY <2>1
  <2>3. verdict' = "none"
    BY <1>2 DEF OpenForm, FormInv
  <2>4. form' = [algorithm |-> form'.algorithm, method |-> form'.method, full |-> form'.full, changed |-> form'.changed]
    BY <2>1
  <2>5. FormShape(form')
    BY <2>2, <2>4, FS_EmptySet DEF FormShape
  <2> QED
    BY <2>3, <2>5 DEF FormInv
<1>3. CASE ChangeValue
  <2>1. PICK name \in Names(form.algorithm) \ DOMAIN form.changed : \E e \in Entries(form, name) :
          form' = [form EXCEPT !.changed = [n \in DOMAIN @ \cup {name} |-> IF n = name THEN e ELSE @[n]]]
    BY <1>3 DEF ChangeValue
  <2>2. PICK e, c :
          /\ e \in Entries(form, name)
          /\ c = [n \in DOMAIN form.changed \cup {name} |-> IF n = name THEN e ELSE form.changed[n]]
          /\ form' = [form EXCEPT !.changed = c]
    BY <2>1
  <2>3. FormShape(form) /\ verdict = "none" /\ verdict' = "none"
    BY <1>3 DEF ChangeValue, FormInv
  <2>4. /\ form' = [algorithm |-> form'.algorithm, method |-> form'.method, full |-> form'.full, changed |-> form'.changed]
        /\ form'.algorithm = form.algorithm /\ form'.method = form.method /\ form'.changed = c
    BY <2>2, <2>3 DEF FormShape
  <2>5. \A n : Entries(form', n) = Entries(form, n)
    BY <2>4 DEF Entries
  <2>6. FormShape(form')
    BY <2>2, <2>3, <2>4, <2>5, FS_AddElement DEF FormShape
  <2> QED
    BY <2>3, <2>6 DEF FormInv
<1>4. CASE SubmitForm
  <2>1. PICK f : /\ f = [form EXCEPT !.full = @ \/ form.changed = [x \in {} |-> Entry("absent", {})]]
                 /\ form' = f
                 /\ verdict' = IF CheckFails(f) THEN "error" ELSE IF Checked(f) THEN "refused" ELSE "queued"
    BY <1>4 DEF SubmitForm
  <2>2. FormShape(form) /\ verdict = "none"
    BY <1>4 DEF SubmitForm, FormInv
  <2>3. /\ f = [algorithm |-> f.algorithm, method |-> f.method, full |-> f.full, changed |-> f.changed]
        /\ f.algorithm = form.algorithm /\ f.method = form.method /\ f.changed = form.changed
    BY <2>1, <2>2 DEF FormShape
  <2>4. \A n : Entries(f, n) = Entries(form, n)
    BY <2>3 DEF Entries
  <2>5. FormShape(f)
    BY <2>2, <2>3, <2>4 DEF FormShape
  <2>6. FormShape(form') /\ form' = f
    BY <2>1, <2>5
  <2>7. form' # NoForm
    BY <2>6, HyperparameterAssumption DEF FormShape, NoForm, Algorithms
  <2>8. /\ verdict' \notin {"none", "raised"}
        /\ verdict' = "queued" => ~Refused(f) /\ ~CheckFails(f)
        /\ verdict' = "refused" => Refused(f) /\ ~CheckFails(f)
    BY <2>1 DEF Checked
  <2> QED
    BY <2>6, <2>7, <2>8 DEF FormInv
<1>5. CASE BuildModel
  BY <1>5 DEF BuildModel, FormInv
<1> QED
  BY <1>1, <1>2, <1>3, <1>4, <1>5 DEF FormNext

\* What is given for a name: nothing, one value or, in a search, a list of what
\* is offered, or of a number a range.
LEMMA GivenShape ==
  ASSUME NEW f, FormShape(f), NEW name \in Names(f.algorithm), NEW g, g = Given(f, name)
  PROVE \/ g.kind = "absent" /\ name \notin DOMAIN f.changed
        \/ g.kind = "one" /\ \E v \in Offered(f.algorithm, name) : g.vals = {v}
        \/ g.kind = "list" /\ f.method # "manual" /\ g.vals \subseteq Offered(f.algorithm, name)
        \/ g.kind = "range" /\ IsNumber(f.algorithm, name) /\ g.vals = {"low", "high"}
<1>1. CASE name \in DOMAIN f.changed
  <2>1. g = f.changed[name] /\ g \in Entries(f, name)
    BY <1>1 DEF Given, FormShape
  <2> QED
    BY <2>1 DEF Entries, Entry
<1>2. CASE name \notin DOMAIN f.changed
  <2>1. Default(f.algorithm, name) \in Offered(f.algorithm, name)
    BY DEF Default, Offered, OfferedNumbers, OfferedChoices
  <2> QED
    BY <1>2, <2>1 DEF Given, Entry
<1> QED
  BY <1>1, <1>2

\* What is not changed has its default, or is absent.
LEMMA GivenDefault ==
  ASSUME NEW f, NEW name, name \notin DOMAIN f.changed
  PROVE /\ f.full => Given(f, name).kind = "one" /\ Given(f, name).vals = {Default(f.algorithm, name)}
        /\ ~f.full => Given(f, name).kind = "absent"
BY DEF Given, Entry

LEMMA ForestTrains ==
  ASSUME NEW f, FormShape(f), f.algorithm = "random_forest", ~Refused(f), Untrainable(f)
  PROVE Given(f, "max_samples").kind = "absent"
<1> SUFFICES ASSUME Given(f, "max_samples").kind # "absent" PROVE FALSE
  OBVIOUS
<1>1. ~ForestConflict(f) /\ ForestUntrainable(f)
  BY DEF Refused, Conflict, Untrainable
<1>2. "bootstrap" \in Names("random_forest")
  BY DEF Names, ChoicesOf, ForestChoices, Algorithms
<1>3. "False" \notin Vals(f, "bootstrap") /\ Vals(f, "bootstrap") = Given(f, "bootstrap").vals
  BY <1>1, <1>2 DEF ForestConflict, Vals
<1>4. "False" \in Takes(f, "bootstrap")
  BY <1>1 DEF ForestUntrainable
<1>5. CreatorDefault("bootstrap") = "True"
  BY DEF CreatorDefault
<1> QED
  BY <1>3, <1>4, <1>5 DEF Takes

LEMMA LogisticTrains ==
  ASSUME NEW f, FormShape(f), f.algorithm = "logistic_regression", ~Refused(f), Untrainable(f)
  PROVE \/ "True" \in Takes(f, "dual")
        \/ f.method # "manual" /\ "elasticnet" \in Takes(f, "penalty") /\ Given(f, "l1_ratio").kind = "absent"
<1>1. ~LogisticConflict(f) /\ LogisticUntrainable(f)
  BY DEF Refused, Conflict, Untrainable
<1>2. /\ {"solver", "penalty"} \subseteq Names("logistic_regression")
      /\ ~IsNumber("logistic_regression", "solver") /\ ~IsNumber("logistic_regression", "penalty")
  BY DEF Names, IsNumber, Numbers, LogisticNumbers, ChoicesOf, LogisticChoices, Algorithms
<1>3. CreatorDefault("solver") = "lbfgs" /\ CreatorDefault("penalty") = "l2"
  BY DEF CreatorDefault
<1>4. Takes(f, "solver") = ValsOr(f, "solver", "lbfgs") /\ Takes(f, "penalty") = ValsOr(f, "penalty", "l2")
  <2>1. Given(f, "solver").kind # "range" /\ Given(f, "penalty").kind # "range"
    BY <1>2, GivenShape
  <2> QED
    BY <1>3, <2>1 DEF Takes, Skipped, ValsOr
<1> QED
  BY <1>1, <1>4 DEF LogisticConflict, LogisticUntrainable

LEMMA LightgbmTrains ==
  ASSUME NEW f, FormShape(f), f.algorithm = "lightgbm", ~Refused(f), Untrainable(f)
  PROVE \/ f.method = "grid" /\ Given(f, "early_stopping_rounds").kind # "absent"
        \/ f.method # "manual" /\ Given(f, "is_unbalance").kind = "list"
<1>1. ~LightgbmConflict(f) /\ LightgbmUntrainable(f)
  BY DEF Refused, Conflict, Untrainable
<1>2. "is_unbalance" \in Names("lightgbm") /\ ~IsNumber("lightgbm", "is_unbalance")
  BY DEF Names, IsNumber, Numbers, LightgbmNumbers, ChoicesOf, LightgbmChoices, Algorithms
<1>3. /\ CreatorDefault("early_stopping_rounds") = "unset" /\ CreatorDefault("is_unbalance") = "False"
      /\ CreatorDefault("scale_pos_weight") = "default"
  BY DEF CreatorDefault
<1>4. CASE Rounds(f) # {}
  BY <1>1, <1>3, <1>4 DEF Rounds, Takes, Skipped, LightgbmUntrainable, FormShape, Methods
<1>5. CASE Rounds(f) = {}
  <2>1. PICK v \in Takes(f, "scale_pos_weight") :
          "True" \in Takes(f, "is_unbalance") /\ Hundredths("lightgbm", "scale_pos_weight", v) # 100
    BY <1>1, <1>5 DEF LightgbmUntrainable
  <2>2. Given(f, "is_unbalance").kind \in {"one", "list"} /\ "True" \in Given(f, "is_unbalance").vals
    BY <1>2, <1>3, <2>1, GivenShape DEF Takes
  <2>3. CASE Given(f, "is_unbalance").kind = "one"
    <3>1. Given(f, "scale_pos_weight").kind = "absent"
      BY <1>1, <2>2, <2>3 DEF LightgbmConflict, Lone
    <3>2. v = "default"
      BY <1>3, <2>1, <3>1 DEF Takes
    <3>3. Hundredths("lightgbm", "scale_pos_weight", "default") = 100
      BY DEF Hundredths, Numbers, LightgbmNumbers
    <3> QED
      BY <2>1, <3>2, <3>3
  <2> QED
    BY <1>1, <2>2, <2>3 DEF LightgbmUntrainable
<1> QED
  BY <1>4, <1>5

LEMMA XgboostTrains ==
  ASSUME NEW f, FormShape(f), f.algorithm = "xgboost", ~Refused(f), ~CheckFails(f), Untrainable(f)
  PROVE \/ f.method = "grid" /\ Given(f, "early_stopping_rounds").kind \in {"list", "range"}
        \/ f.method # "manual" /\ \E v \in Multiclass : Lone(f, "objective", v)
<1>1. ~XgboostConflict(f) /\ XgboostUntrainable(f) /\ Given(f, "objective").kind # "list"
  BY DEF Refused, Conflict, Untrainable, CheckFails
<1>2. /\ {"early_stopping_rounds", "objective"} \subseteq Names("xgboost") /\ ~IsNumber("xgboost", "objective")
      /\ IsNumber("xgboost", "early_stopping_rounds")
  BY DEF Names, IsNumber, Numbers, XgboostNumbers, ChoicesOf, XgboostChoices, Algorithms
<1>3. CreatorDefault("early_stopping_rounds") = "unset" /\ CreatorDefault("objective") = "binary:logistic"
  BY DEF CreatorDefault
<1>4. CASE \E v \in Multiclass : v \in Takes(f, "objective")
  <2>1. PICK v \in Multiclass : v \in Takes(f, "objective")
    BY <1>4
  <2>2. v # "binary:logistic"
    BY DEF Multiclass
  <2>3. Given(f, "objective").kind = "one" /\ v \in Given(f, "objective").vals
    BY <1>1, <1>2, <1>3, <2>1, <2>2, GivenShape DEF Takes
  <2> QED
    BY <1>1, <2>3 DEF Lone, XgboostUntrainable
<1>5. CASE Rounds(f) # {}
  <2>1. PICK v \in Takes(f, "early_stopping_rounds") :
          v # "unset" /\ Hundredths("xgboost", "early_stopping_rounds", v) > 0
    BY <1>5 DEF Rounds
  <2>2. /\ f.method = "grid" /\ Given(f, "early_stopping_rounds").kind # "absent"
        /\ v \in Given(f, "early_stopping_rounds").vals
    BY <1>1, <1>3, <2>1 DEF Takes, Skipped, XgboostUntrainable, FormShape, Methods
  <2>3. Given(f, "early_stopping_rounds").kind # "one"
    <3> SUFFICES ASSUME Given(f, "early_stopping_rounds").kind = "one" PROVE FALSE
      OBVIOUS
    <3>1. v \in Offered("xgboost", "early_stopping_rounds")
      BY <1>2, <2>2, GivenShape
    <3>2. v \in {"default", "low", "high", "zero"}
      BY <1>2, <3>1 DEF Offered, OfferedNumbers
    <3>3. Hundredths("xgboost", "early_stopping_rounds", "zero") = 0
      BY DEF Hundredths
    <3>4. v \in {"low", "high", "default"}
      BY <2>1, <3>2, <3>3
    <3> QED
      BY <1>1, <2>1, <2>2, <3>4 DEF XgboostConflict, Lone
  <2> QED
    BY <1>2, <2>2, <2>3, GivenShape
<1> QED
  BY <1>1, <1>4, <1>5 DEF XgboostUntrainable

LEMMA FormInvTrains == FormInv => QueuedTrains
<1> SUFFICES ASSUME FormInv, verdict = "raised" PROVE QueuedTrains
  BY DEF QueuedTrains
<1>1. FormShape(form) /\ ~Refused(form) /\ ~CheckFails(form) /\ Untrainable(form)
  BY DEF FormInv
<1>2. form.algorithm \in {"random_forest", "logistic_regression", "lightgbm", "xgboost"}
  BY <1>1 DEF Untrainable
<1> QED
  BY <1>1, <1>2, ForestTrains, LogisticTrains, LightgbmTrains, XgboostTrains DEF QueuedTrains

LEMMA LimitsAreOfNumbers ==
  ASSUME NEW a \in Algorithms, NEW name \in DOMAIN Limits[a]
  PROVE IsNumber(a, name)
<1>1. CASE a = "xgboost"
  BY <1>1 DEF Limits, Numbers, IsNumber, XgboostLimits, XgboostNumbers
<1>2. CASE a = "lightgbm"
  BY <1>2 DEF Limits, Numbers, IsNumber, LightgbmNumbers
<1>3. CASE a = "random_forest"
  BY <1>3 DEF Limits, Numbers, IsNumber, ForestLimits, ForestNumbers
<1>4. CASE a = "logistic_regression"
  BY <1>4 DEF Limits, Numbers, IsNumber, LogisticLimits, LogisticNumbers
<1>5. CASE a = "decision_tree"
  BY <1>5 DEF Limits, Numbers, IsNumber, TreeLimits, TreeNumbers
<1>6. CASE a = "svm"
  BY <1>6 DEF Limits, Numbers, IsNumber, SvmLimits, SvmNumbers
<1>7. CASE a = "knn"
  BY <1>7 DEF Limits, Numbers, IsNumber, NeighborsLimits, NeighborsNumbers
<1>8. CASE a = "naive_bayes"
  BY <1>8 DEF Limits, Numbers, IsNumber, BayesLimits, BayesNumbers
<1>9. CASE a = "neural_network"
  BY <1>9 DEF Limits, Numbers, IsNumber, NetworkLimits, NetworkNumbers
<1> QED
  BY <1>1, <1>2, <1>3, <1>4, <1>5, <1>6, <1>7, <1>8, <1>9 DEF Algorithms

\* Every value offered for a limited number passes, but for the ends of five
\* ranges of XGBoost and two zeros.
LEMMA LimitsOffered ==
  ASSUME NEW a \in Algorithms, NEW name \in DOMAIN Limits[a], NEW v \in Offered(a, name),
         ~Within(Limits[a][name], Hundredths(a, name, v))
  PROVE /\ v # "default"
        /\ \/ a = "xgboost" /\ name \in {"max_depth", "subsample", "colsample_bytree",
                                         "colsample_bylevel", "colsample_bynode"} /\ v \in {"low", "zero"}
           \/ <<a, name>> \in {<<"svm", "max_iter">>, <<"knn", "n_jobs">>} /\ v = "zero"
<1>0. IsNumber(a, name) /\ v \in OfferedNumbers(a, name)
  BY LimitsAreOfNumbers DEF Offered
<1>1. v \in {"default", "low", "high", "zero"}
  BY <1>0 DEF OfferedNumbers
<1>2. /\ Hundredths(a, name, "default") = Numbers[a][name][1]
      /\ Hundredths(a, name, "low") = Numbers[a][name][2]
      /\ Hundredths(a, name, "high") = Numbers[a][name][3]
      /\ Hundredths(a, name, "zero") = 0
  BY DEF Hundredths
<1>3. v = "zero" => Numbers[a][name][2] <= 0 /\ Numbers[a][name][3] >= 0
  BY <1>0 DEF OfferedNumbers
<1>x. CASE a = "xgboost"
  BY <1>x, <1>1, <1>2, <1>3 DEF Limits, Numbers, XgboostLimits, XgboostNumbers, Within, Fraction, AtLeastOne, OrAll, Unit, Top
<1>l. CASE a = "lightgbm"
  BY <1>l DEF Limits
<1>f. CASE a = "random_forest"
  BY <1>f, <1>1, <1>2, <1>3 DEF Limits, Numbers, ForestLimits, ForestNumbers, Within, NotNegative, AtLeastOne, OrAll, Top
<1>g. CASE a = "logistic_regression"
  BY <1>g, <1>1, <1>2, <1>3 DEF Limits, Numbers, LogisticLimits, LogisticNumbers, Within, Positive, AtLeastOne, OrAll, Top
<1>t. CASE a = "decision_tree"
  BY <1>t, <1>1, <1>2, <1>3 DEF Limits, Numbers, TreeLimits, TreeNumbers, Within, Positive, NotNegative, AtLeastOne, OrAll, Top
<1>s. CASE a = "svm"
  BY <1>s, <1>1, <1>2, <1>3 DEF Limits, Numbers, SvmLimits, SvmNumbers, Within, Positive, NotNegative, AtLeastOne, OrAll, Top
<1>k. CASE a = "knn"
  BY <1>k, <1>1, <1>2, <1>3 DEF Limits, Numbers, NeighborsLimits, NeighborsNumbers, Within, AtLeastOne, OrAll, Top
<1>b. CASE a = "naive_bayes"
  BY <1>b, <1>1, <1>2, <1>3 DEF Limits, Numbers, BayesLimits, BayesNumbers, Within, Positive, OrAll, Top
<1>n. CASE a = "neural_network"
  BY <1>n, <1>1, <1>2, <1>3 DEF Limits, Numbers, NetworkLimits, NetworkNumbers, Within, Positive, NotNegative, AtLeastOne, OrAll, Top
<1> QED
  BY <1>x, <1>l, <1>f, <1>g, <1>t, <1>s, <1>k, <1>b, <1>n DEF Algorithms

LEMMA EntryNotEmpty ==
  ASSUME NEW f, NEW n, NEW e \in Entries(f, n)
  PROVE e.vals # {}
BY FS_EmptySet DEF Entries, Entry

\* Of a conflict two names are to blame, so of one change only these.
LEMMA ConflictOffered ==
  ASSUME NEW f, FormShape(f), f.full, NEW n, DOMAIN f.changed = {n}, Conflict(f)
  PROVE \E v \in f.changed[n].vals :
          \/ f.algorithm = "xgboost" /\ n = "early_stopping_rounds" /\ v = "high"
          \/ f.algorithm = "xgboost" /\ n = "objective" /\ v \in Regressions
          \/ <<f.algorithm, n>> \in {<<"random_forest", "bootstrap">>, <<"lightgbm", "is_unbalance">>,
                                     <<"logistic_regression", "solver">>, <<"logistic_regression", "penalty">>}
<1>1. f.algorithm \in {"xgboost", "lightgbm", "random_forest", "logistic_regression"}
  BY DEF Conflict
<1>2. n \in Names(f.algorithm)
  BY DEF FormShape
<1>3. \A m \in Names(f.algorithm) \ {n} :
        Given(f, m).kind = "one" /\ Given(f, m).vals = {Default(f.algorithm, m)}
  BY GivenDefault
<1>4. Given(f, n) = f.changed[n]
  BY DEF Given
<1>5. CASE f.algorithm = "xgboost"
  <2>1. XgboostConflict(f)
    BY <1>5 DEF Conflict
  <2>2. /\ {"early_stopping_rounds", "objective"} \subseteq Names("xgboost")
        /\ Default("xgboost", "early_stopping_rounds") = "default"
        /\ Default("xgboost", "objective") = "binary:logistic"
    BY DEF Names, IsNumber, Numbers, XgboostNumbers, ChoicesOf, XgboostChoices, Algorithms, Default
  <2>3. /\ Hundredths("xgboost", "early_stopping_rounds", "default") = 0
        /\ Hundredths("xgboost", "early_stopping_rounds", "low") = 0
    BY DEF Hundredths, Numbers, XgboostNumbers
  <2>4. CASE \E v \in {"low", "high", "default"} :
          Lone(f, "early_stopping_rounds", v) /\ Hundredths("xgboost", "early_stopping_rounds", v) > 0
    <3>1. Lone(f, "early_stopping_rounds", "high")
      BY <2>3, <2>4
    <3>2. n = "early_stopping_rounds" /\ "high" \in f.changed[n].vals
      BY <1>3, <1>4, <1>5, <2>2, <3>1 DEF Lone
    <3> QED
      BY <1>5, <3>2
  <2>5. CASE \E v \in Regressions : Lone(f, "objective", v)
    <3>1. PICK v \in Regressions : Lone(f, "objective", v)
      BY <2>5
    <3>2. n = "objective" /\ v \in f.changed[n].vals
      BY <1>3, <1>4, <1>5, <2>2, <3>1 DEF Lone, Regressions
    <3> QED
      BY <1>5, <3>1, <3>2
  <2> QED
    BY <2>1, <2>4, <2>5 DEF XgboostConflict
<1>6. CASE f.algorithm = "lightgbm"
  <2>1. Lone(f, "is_unbalance", "True")
    BY <1>6 DEF Conflict, LightgbmConflict
  <2>2. "is_unbalance" \in Names("lightgbm") /\ Default("lightgbm", "is_unbalance") = "False"
    BY DEF Names, IsNumber, Numbers, LightgbmNumbers, ChoicesOf, LightgbmChoices, Algorithms, Default
  <2>3. n = "is_unbalance" /\ "True" \in f.changed[n].vals
    BY <1>3, <1>4, <1>6, <2>1, <2>2 DEF Lone
  <2> QED
    BY <1>6, <2>3
<1>7. CASE f.algorithm = "random_forest"
  <2>1. "False" \in Given(f, "bootstrap").vals
    BY <1>7 DEF Conflict, ForestConflict, Vals
  <2>2. "bootstrap" \in Names("random_forest") /\ Default("random_forest", "bootstrap") = "True"
    BY DEF Names, IsNumber, Numbers, ForestNumbers, ChoicesOf, ForestChoices, Algorithms, Default
  <2>3. n = "bootstrap" /\ "False" \in f.changed[n].vals
    BY <1>3, <1>4, <1>7, <2>1, <2>2
  <2> QED
    BY <1>7, <2>3
<1>8. CASE f.algorithm = "logistic_regression"
  <2>1. /\ {"solver", "penalty"} \subseteq Names("logistic_regression") /\ "l1_ratio" \in Names("logistic_regression")
        /\ Default("logistic_regression", "solver") = "lbfgs" /\ Default("logistic_regression", "penalty") = "l2"
    BY DEF Names, IsNumber, Numbers, LogisticNumbers, ChoicesOf, LogisticChoices, Algorithms, Default
  <2>2. LogisticConflict(f)
    BY <1>8 DEF Conflict
  <2>3. /\ n # "solver" => ValsOr(f, "solver", "lbfgs") = {"lbfgs"}
        /\ n # "penalty" => ValsOr(f, "penalty", "l2") = {"l2"}
    BY <1>3, <1>8, <2>1 DEF ValsOr
  <2>4. "l2" \in SolverPenalties["lbfgs"]
    BY DEF SolverPenalties, OfferedChoices, ChoicesOf, LogisticChoices, Algorithms
  <2>5. n \in {"solver", "penalty"}
    BY <2>2, <2>3, <2>4 DEF LogisticConflict
  <2>6. f.changed[n].vals # {}
    BY <1>2, EntryNotEmpty DEF FormShape
  <2> QED
    BY <1>8, <2>5, <2>6
<1> QED
  BY <1>1, <1>5, <1>6, <1>7, <1>8

LEMMA FormInvOffered == FormInv => OfferedIsQueued
<1> SUFFICES ASSUME FormInv, verdict = "refused", form.full, Cardinality(DOMAIN form.changed) = 1
             PROVE OfferedIsQueued
  BY DEF OfferedIsQueued
<1>1. FormShape(form) /\ Refused(form)
  BY DEF FormInv
<1>2. PICK n : DOMAIN form.changed = {n}
  BY <1>1, FS_Singleton DEF FormShape
<1>3. form.changed[n] \in Entries(form, n) /\ n \in Names(form.algorithm) /\ form.algorithm \in Algorithms
  BY <1>1, <1>2, HyperparameterAssumption DEF FormShape
<1>4. form.changed[n].vals # {} /\ Given(form, n) = form.changed[n]
  BY <1>2, <1>3, EntryNotEmpty DEF Given
<1>5. CASE RangeRefused(form)
  BY <1>2, <1>4, <1>5 DEF RangeRefused, OfferedIsQueued
<1>6. CASE Conflict(form)
  BY <1>1, <1>2, <1>6, ConflictOffered DEF OfferedIsQueued
<1>7. CASE OutOfLimits(form)
  <2>1. PICK name, v :
          /\ name \in DOMAIN Limits[form.algorithm] /\ v \in Vals(form, name)
          /\ ~Within(Limits[form.algorithm][name], Hundredths(form.algorithm, name, v))
    BY <1>7 DEF OutOfLimits
  <2>2. name \in Names(form.algorithm) /\ v \in Given(form, name).vals
    BY <2>1 DEF Vals
  <2>3. name \notin DOMAIN form.changed =>
          Given(form, name).vals = {Default(form.algorithm, name)}
    BY GivenDefault
  <2>4. v \in Offered(form.algorithm, name) /\ IsNumber(form.algorithm, name)
    <3>1. IsNumber(form.algorithm, name)
      BY <1>3, <2>1, LimitsAreOfNumbers
    <3>2. {"default", "low", "high"} \subseteq Offered(form.algorithm, name)
      BY <3>1 DEF Offered, OfferedNumbers
    <3> QED
      BY <1>1, <2>2, <3>1, <3>2, GivenShape, GivenDefault
  <2>5. /\ v # "default"
        /\ \/ form.algorithm = "xgboost"
              /\ name \in {"max_depth", "subsample", "colsample_bytree",
                           "colsample_bylevel", "colsample_bynode"} /\ v \in {"low", "zero"}
           \/ <<form.algorithm, name>> \in {<<"svm", "max_iter">>, <<"knn", "n_jobs">>} /\ v = "zero"
    BY <1>3, <2>1, <2>4, LimitsOffered
  <2>6. name = n
    BY <1>2, <2>2, <2>3, <2>4, <2>5 DEF Default
  <2>7. v \in form.changed[n].vals /\ n \in DOMAIN form.changed
    BY <1>2, <1>4, <2>2, <2>6
  <2> QED
    BY <2>5, <2>6, <2>7 DEF OfferedIsQueued
<1> QED
  BY <1>1, <1>5, <1>6, <1>7 DEF Refused

\* What the API queues is not refused by the trainer for a reason that the source
\* knows of, and what the catalogue offers is not refused by the API, but for the
\* cases that are named, for every algorithm and any number of changes.
THEOREM ChecksAndModelsAgree == Spec => []ChecksAgree
<1>1. Init => FormInv
  BY FormInvInit DEF Init
<1>2. FormInv /\ [Next]_vars => FormInv'
  BY ComputationStep, FormInvStep
<1>3. FormInv => ChecksAgree
  BY FormInvTrains, FormInvOffered DEF ChecksAgree
<1> QED
  BY <1>1, <1>2, <1>3, PTL DEF Spec

(***************************************************************************)
(* Searches: from the setting of a parameter to the candidates that are    *)
(* tried and the one that is fitted.                                       *)
(***************************************************************************)
\* What was asked of a parameter, and by which tuner.
AskedOK ==
  /\ search = [at |-> search.at, tuner |-> search.tuner, param |-> search.param, setting |-> search.setting,
               rows |-> search.rows, others |-> search.others, space |-> search.space,
               tried |-> search.tried, best |-> search.best, seen |-> search.seen]
  /\ search.tuner \in Tuners /\ search.param \in Parameters /\ search.setting \in Settings
  /\ Contracted(search.tuner, search.setting)
  /\ search.param \in {"rounds", "config"} => search.setting.kind = "one"

\* The candidates are the search's own.
SpaceOK ==
  /\ search.tuner \in Searches
  /\ Space(search.tuner, search.param, search.setting) = Candidates(search.space)

\* What was compared is of the candidates, and could be fitted.
DrawnOK ==
  /\ search.tried \subseteq search.space /\ \A v \in search.tried : Usable(v)
  /\ Exhaustive => search.tried = search.space
  /\ search.tuner # "grid" => Cardinality(search.tried) <= Draws

TuningInv ==
  search # Idle =>
    /\ AskedOK
    /\ search.at \in {"asked", "compare", "fit", "done", "raised"}
    /\ search.at = "asked" => search.best = DefaultValue
    /\ search.at \in {"compare", "fit"} => SpaceOK
    /\ search.at = "compare" => search.space # {}
    /\ search.at = "fit" => \/ search.best = DefaultValue /\ search.space = {}
                            \/ search.best \in search.tried /\ DrawnOK
    /\ SearchedAsAsked

LEMMA TuningInvInit == TuningInit => TuningInv
BY DEF TuningInit, TuningInv

\* The shapes of what a client gives.
LEMMA SettingShape ==
  ASSUME NEW s \in Settings
  PROVE \/ s.kind = "one" /\ \E v \in Amounts : s.values = <<v>>
        \/ s.kind = "list" /\ s.values \in Increasing
        \/ s.kind = "null" /\ s.values = <<>>
        \/ s.kind = "range" /\ \E low, high \in Amounts : s.values = <<low, high>> /\ s.step \in {0, 1, 2, 4}
BY DEF Settings, Single, Listed, Ranged, Null, NoStep

\* A list in order is one of numbers, the later the greater.
LEMMA ListShape ==
  ASSUME NEW q \in Increasing
  PROVE /\ q \in Seq(Amounts) /\ Len(q) \in Nat /\ DOMAIN q = 1..Len(q)
        /\ \A i, j \in 1..Len(q) : i < j => q[i] < q[j]
<1>1. PICK n \in 0..MostHalves + 1 : q \in [1..n -> Amounts]
  BY DEF Increasing
<1>2. n \in Nat
  BY <1>1, TuningAssumption
<1>3. q \in Seq(Amounts) /\ Len(q) = n /\ DOMAIN q = 1..n
  BY <1>1, <1>2
<1> QED
  BY <1>2, <1>3 DEF Increasing

\* Every candidate was given or lies in the range, every number that was given
\* or lies in it is a candidate or left out, and none is left of what is a
\* parameter of the model.
Offers(tuner, param, s, tried) ==
  /\ tried = {} => \/ param \in {"config", "rounds"} \/ s.kind = "null"
                   \/ tuner = "bayesian" /\ s.values = <<>>
  /\ tried # {} =>
       /\ s.kind = "range" =>
            /\ tried \subseteq Low(s)..High(s)
            /\ \A v \in Low(s)..High(s) : v \in tried \/ (tuner = "random" /\ s.step # NoStep)
                                          \/ (IsWhole(Low(s)) /\ IsWhole(High(s)) /\ ~IsWhole(v))
       /\ s.kind # "range" =>
            /\ tried \subseteq ToSet(s.values)
            /\ \A v \in ToSet(s.values) :
                 v \in tried \/ (tuner = "grid" /\ s.kind = "list" /\ Len(s.values) > GridCap /\ v > s.values[GridCap])

LEMMA CandidatesDiffer ==
  /\ \A x, y : Candidates(x) = Candidates(y) => x = y
  /\ \A x : Raises # Candidates(x)
BY DEF Candidates, Raises

LEMMA GridOffers ==
  ASSUME NEW s \in Settings, NEW param \in Parameters, NEW tried, GridList(s) = Candidates(tried),
         Contracted("grid", s)
  PROVE Offers("grid", param, s, tried)
<1>1. s.kind # "range"
  BY DEF Contracted
<1>2. CASE s.kind = "one"
  <2>1. PICK v \in Amounts : s.values = <<v>>
    BY <1>2, SettingShape
  <2>2. tried = {v} /\ ToSet(s.values) = {v}
    BY <1>2, <2>1 DEF GridList, Candidates, ToSet
  <2> QED
    BY <1>1, <2>2 DEF Offers
<1>3. CASE s.kind = "list" /\ s.values # <<>>
  <2>1. PICK q \in Increasing, n \in Nat : q = s.values /\ n = Len(q)
    BY <1>3, SettingShape, ListShape
  <2>2. /\ q \in Seq(Amounts) /\ DOMAIN q = 1..n /\ n > 0
        /\ \A i, j \in 1..n : i < j => q[i] < q[j]
    BY <1>3, <2>1, ListShape
  <2>3. PICK m : m = (IF n < GridCap THEN n ELSE GridCap)
    OBVIOUS
  <2>4. m \in 1..n /\ (m = n \/ (m = GridCap /\ n > GridCap))
    BY <2>2, <2>3 DEF GridCap
  <2>5. tried = ToSet(SubSeq(q, 1, m))
    <3>1. GridList(s) = Candidates(ToSet(SubSeq(s.values, 1, IF Len(s.values) < GridCap THEN Len(s.values) ELSE GridCap)))
      BY <1>3 DEF GridList
    <3> QED
      BY <2>1, <2>3, <3>1, CandidatesDiffer
  <2>6. tried = {q[i] : i \in 1..m}
    <3>1. m \in Nat /\ 1..m \subseteq 1..n
      BY <2>2, <2>4
    <3>2. SubSeq(q, 1, m) = [k \in 1..m |-> q[k]]
      <4>1. SubSeq(q, 1, m) = [k \in 1..(m - 1 + 1) |-> q[k + 1 - 1]]
        BY <2>2, <3>1
      <4> QED
        BY <2>2, <3>1
    <3> QED
      BY <2>5, <3>2 DEF ToSet
  <2>7. ToSet(q) = {q[i] : i \in 1..n}
    BY <2>2 DEF ToSet
  <2>8. tried # {} /\ tried \subseteq ToSet(q)
    BY <2>4, <2>6, <2>7
  <2>9. ASSUME NEW v \in ToSet(q), v \notin tried
        PROVE n > GridCap /\ v > q[GridCap]
    <3>1. PICK i \in 1..n : v = q[i]
      BY <2>7
    <3>2. m < i /\ m = GridCap /\ n > GridCap
      BY <2>4, <2>6, <2>9, <3>1
    <3>3. q[m] < q[i] /\ q[m] \in Amounts /\ q[i] \in Amounts
      BY <2>2, <2>4, <3>1, <3>2
    <3> QED
      BY <3>1, <3>2, <3>3 DEF Amounts
  <2> QED
    BY <1>1, <1>3, <2>1, <2>8, <2>9 DEF Offers
<1> QED
  BY <1>2, <1>3 DEF GridList, Raises, Candidates

\* The numbers of a range, of two ends in order.
LEMMA RangeShape ==
  ASSUME NEW s \in Settings, s.kind = "range", Low(s) <= High(s)
  PROVE /\ Low(s) \in Nat /\ High(s) \in Nat /\ s.step \in {0, 1, 2, 4}
        /\ Low(s) \in Low(s)..High(s)
<1>1. PICK low, high \in Amounts : s.values = <<low, high>> /\ s.step \in {0, 1, 2, 4}
  BY SettingShape
<1> QED
  BY <1>1 DEF Low, High, Amounts

LEMMA RandomOffers ==
  ASSUME NEW s \in Settings, NEW param \in Parameters, NEW tried, RandomDistribution(s) = Candidates(tried),
         Contracted("random", s)
  PROVE Offers("random", param, s, tried)
<1>1. CASE s.kind = "range"
  <2>1. PICK low, high : low = Low(s) /\ high = High(s)
    OBVIOUS
  <2>2. low \in Nat /\ high \in Nat /\ low <= high /\ s.step \in {0, 1, 2, 4} /\ low \in low..high
    BY <1>1, <2>1, RangeShape DEF Contracted
  <2>3. Distribution(low, high, s.step) = Candidates(tried)
    <3>1. RandomDistribution(s) = Distribution(Low(s), High(s), s.step)
      BY <1>1 DEF RandomDistribution
    <3> QED
      BY <2>1, <3>1
  <2>4. CASE low = high
    BY <1>1, <2>1, <2>2, <2>3, <2>4 DEF Distribution, Candidates, Offers
  <2>5. CASE low # high /\ ~(IsWhole(low) /\ IsWhole(high))
    BY <1>1, <2>1, <2>2, <2>3, <2>5 DEF Distribution, Candidates, Offers, Between
  <2>6. CASE low # high /\ IsWhole(low) /\ IsWhole(high) /\ s.step = NoStep
    BY <1>1, <2>1, <2>2, <2>3, <2>6 DEF Distribution, Candidates, Offers, WholesBetween
  <2>7. CASE low # high /\ IsWhole(low) /\ IsWhole(high) /\ s.step # NoStep /\ InUnits(s.step) # 0
    <3>1. tried = {v \in WholesBetween(low, high) : InUnits(v - low) % InUnits(s.step) = 0}
      BY <2>3, <2>7 DEF Distribution, Candidates
    <3>2. InUnits(low - low) % InUnits(s.step) = 0
      BY <2>2, <2>7 DEF InUnits
    <3>3. low \in tried /\ tried \subseteq low..high
      BY <2>2, <2>7, <3>1, <3>2 DEF WholesBetween
    <3> QED
      BY <1>1, <2>1, <2>7, <3>3 DEF Offers
  <2>8. CASE low # high /\ IsWhole(low) /\ IsWhole(high) /\ s.step # NoStep /\ InUnits(s.step) = 0
    BY <2>3, <2>8 DEF Distribution, Candidates, Raises
  <2> QED
    BY <2>4, <2>5, <2>6, <2>7, <2>8
<1>2. CASE s.kind # "range" /\ s.kind # "null" /\ s.values # <<>>
  <2>1. tried = ToSet(s.values)
    BY <1>2 DEF RandomDistribution, Candidates
  <2> QED
    <3>1. tried # {}
      <4>1. CASE s.kind = "one"
        BY <2>1, <4>1, SettingShape DEF ToSet
      <4>2. CASE s.kind = "list"
        <5>1. s.values \in Increasing
          BY <4>2, SettingShape
        <5>2. 1 \in DOMAIN s.values
          BY <1>2, <5>1, ListShape
        <5> QED
          BY <2>1, <5>2 DEF ToSet
      <4> QED
        BY <1>2, <4>1, <4>2, SettingShape
    <3> QED
      BY <1>2, <2>1, <3>1 DEF Offers
<1>3. CASE s.kind # "range" /\ (s.kind = "null" \/ s.values = <<>>)
  BY <1>3 DEF RandomDistribution, Candidates, Raises
<1> QED
  BY <1>1, <1>2, <1>3

LEMMA DimensionOffers ==
  ASSUME NEW s \in Settings, NEW param \in Parameters, NEW tried, Dimension(s) = Candidates(tried),
         Contracted("bayesian", s)
  PROVE Offers("bayesian", param, s, tried)
<1>1. CASE s.kind = "range"
  <2>1. PICK low, high : low = Low(s) /\ high = High(s)
    OBVIOUS
  <2>2. low \in Nat /\ high \in Nat /\ low <= high /\ low \in low..high
    BY <1>1, <2>1, RangeShape DEF Contracted
  <2>3. tried = IF IsWhole(low) /\ IsWhole(high) THEN WholesBetween(low, high) ELSE Between(low, high)
    BY <1>1, <2>1 DEF Dimension, Candidates
  <2> QED
    BY <1>1, <2>1, <2>2, <2>3 DEF Offers, WholesBetween, Between
<1>2. CASE s.kind # "range"
  <2>1. tried = ToSet(s.values)
    BY <1>2 DEF Dimension, Candidates
  <2>2. tried = {} => s.values = <<>>
    <3>1. CASE s.kind = "list"
      <4>1. PICK q \in Increasing : q = s.values
        BY <3>1, SettingShape
      <4>2. q # <<>> => 1 \in DOMAIN q
        BY ListShape
      <4> QED
        BY <2>1, <4>1, <4>2 DEF ToSet
    <3>2. CASE s.kind = "one"
      BY <2>1, <3>2, SettingShape DEF ToSet
    <3> QED
      BY <1>2, <3>1, <3>2, SettingShape
  <2> QED
    BY <1>2, <2>1, <2>2 DEF Offers
<1> QED
  BY <1>1, <1>2

\* A space that does not raise is one of candidates.
LEMMA SpaceIsCandidates ==
  ASSUME NEW tuner, NEW param, NEW s, ~Space(tuner, param, s).raises
  PROVE Space(tuner, param, s) = Candidates(Space(tuner, param, s).values)
<1>2. PICK x : x = Space(tuner, param, s)
  OBVIOUS
<1>3. x = Raises \/ \E y : x = Candidates(y)
  BY <1>2 DEF Space, GridList, RandomDistribution, Distribution, Dimension
<1>4. x # Raises
  BY <1>2 DEF Raises
<1>5. \A y : Candidates(y).values = y
  BY DEF Candidates
<1> QED
  BY <1>2, <1>3, <1>4, <1>5

LEMMA SpaceOffers ==
  ASSUME AskedOK, search.tuner \in Searches, NEW space,
         Space(search.tuner, search.param, search.setting) = Candidates(space)
  PROVE Offers(search.tuner, search.param, search.setting, space)
<1>1. /\ search.setting \in Settings /\ search.param \in Parameters /\ search.tuner \in {"grid", "random", "bayesian"}
      /\ Contracted(search.tuner, search.setting)
  BY DEF AskedOK, Searches
<1>2. CASE search.param \in NonModel(search.tuner)
  <2>1. space = {}
    BY <1>2, CandidatesDiffer DEF Space
  <2>2. search.param \in {"config", "rounds"}
    BY <1>2 DEF NonModel
  <2> QED
    BY <2>1, <2>2 DEF Offers
<1>3. CASE search.param \notin NonModel(search.tuner)
  <2>1. CASE search.tuner = "grid"
    <3>1. GridList(search.setting) = Candidates(space)
      BY <1>3, <2>1 DEF Space
    <3> QED
      BY <1>1, <2>1, <3>1, GridOffers
  <2>2. CASE search.tuner = "random"
    <3>1. RandomDistribution(search.setting) = Candidates(space)
      BY <1>3, <2>2 DEF Space
    <3> QED
      BY <1>1, <2>2, <3>1, RandomOffers
  <2>3. CASE search.tuner = "bayesian"
    <3>1. Dimension(search.setting) = Candidates(space)
      BY <1>3, <2>3 DEF Space
    <3> QED
      BY <1>1, <2>3, <3>1, DimensionOffers
  <2> QED
    BY <1>1, <2>1, <2>2, <2>3
<1> QED
  BY <1>2, <1>3

\* What may be tried is asked for, and no default.
LEMMA SpaceIsAmounts ==
  ASSUME AskedOK, search.tuner \in Searches, NEW space,
         Space(search.tuner, search.param, search.setting) = Candidates(space)
  PROVE space \subseteq Amounts /\ DefaultValue \notin space
<1>1. Offers(search.tuner, search.param, search.setting, space) /\ search.setting \in Settings
      /\ Contracted(search.tuner, search.setting)
  BY SpaceOffers DEF AskedOK
<1>2. CASE search.setting.kind = "range"
  <2>1. PICK low, high \in Amounts : search.setting.values = <<low, high>>
    BY <1>1, <1>2, SettingShape
  <2>2. Low(search.setting)..High(search.setting) \subseteq Amounts
    BY <2>1, TuningAssumption DEF Low, High, Amounts
  <2>3. space \subseteq Amounts
    BY <1>1, <1>2, <2>2 DEF Offers
  <2> QED
    BY <2>3 DEF Amounts, DefaultValue
<1>3. CASE search.setting.kind # "range"
  <2>1. ToSet(search.setting.values) \subseteq Amounts
    <3>1. CASE search.setting.kind = "list"
      <4>1. PICK q \in Increasing : q = search.setting.values
        BY <1>1, <3>1, SettingShape
      <4>2. q \in Seq(Amounts)
        BY ListShape
      <4>3. \A i \in DOMAIN q : q[i] \in Amounts
        BY <4>2
      <4> QED
        BY <4>1, <4>3 DEF ToSet
    <3>2. CASE search.setting.kind = "one"
      BY <1>1, <3>2, SettingShape DEF ToSet
    <3>3. CASE search.setting.kind = "null"
      BY <1>1, <3>3, SettingShape DEF ToSet
    <3> QED
      BY <1>1, <1>3, <3>1, <3>2, <3>3, SettingShape
  <2>2. space \subseteq Amounts
    BY <1>1, <1>3, <2>1 DEF Offers
  <2> QED
    BY <2>2 DEF Amounts, DefaultValue
<1> QED
  BY <1>2, <1>3

\* A search after a step, which leaves what was asked.
SearchMoved(place, space, tried, best, seen) ==
  [at |-> place, tuner |-> search.tuner, param |-> search.param, setting |-> search.setting, rows |-> search.rows,
   others |-> search.others, space |-> space, tried |-> tried, best |-> best, seen |-> seen]

LEMMA StillAsked ==
  ASSUME AskedOK, NEW place, NEW space, NEW tried, NEW best, NEW seen,
         search' = SearchMoved(place, space, tried, best, seen)
  PROVE /\ AskedOK' /\ search' # Idle
        /\ search'.at = place /\ search'.space = space /\ search'.tried = tried
        /\ search'.best = best /\ search'.seen = seen /\ search'.others = search.others
        /\ search'.tuner = search.tuner /\ search'.param = search.param /\ search'.setting = search.setting
<1>1. /\ search'.tuner = search.tuner /\ search'.param = search.param /\ search'.setting = search.setting
      /\ search'.at = place /\ search'.space = space /\ search'.tried = tried
      /\ search'.best = best /\ search'.seen = seen /\ search'.others = search.others
  BY DEF SearchMoved
<1>2. search' # Idle
  BY DEF SearchMoved, Idle
<1>3. search' = [at |-> search'.at, tuner |-> search'.tuner, param |-> search'.param, setting |-> search'.setting,
                 rows |-> search'.rows, others |-> search'.others, space |-> search'.space,
                 tried |-> search'.tried, best |-> search'.best, seen |-> search'.seen]
  BY DEF SearchMoved
<1> QED
  BY <1>1, <1>2, <1>3 DEF AskedOK

LEMMA EditsMove ==
  ASSUME AskedOK
  PROVE /\ search' = [search EXCEPT !.at = "raised"]
             => search' = SearchMoved("raised", search.space, search.tried, search.best, search.seen)
        /\ \A place, space : search' = [search EXCEPT !.at = place, !.space = space]
             => search' = SearchMoved(place, space, search.tried, search.best, search.seen)
        /\ \A tried : search' = [search EXCEPT !.at = "raised", !.tried = tried]
             => search' = SearchMoved("raised", search.space, tried, search.best, search.seen)
        /\ \A best : search' = [search EXCEPT !.at = "done", !.best = best, !.seen = @ \cup {"all"}]
             => search' = SearchMoved("done", search.space, search.tried, best, search.seen \cup {"all"})
<1>1. search = [at |-> search.at, tuner |-> search.tuner, param |-> search.param, setting |-> search.setting,
                rows |-> search.rows, others |-> search.others, space |-> search.space,
                tried |-> search.tried, best |-> search.best, seen |-> search.seen]
  BY DEF AskedOK
<1>2. search' = [search EXCEPT !.at = "raised"]
       => search' = SearchMoved("raised", search.space, search.tried, search.best, search.seen)
  BY <1>1 DEF SearchMoved
<1>3. ASSUME NEW place, NEW space, search' = [search EXCEPT !.at = place, !.space = space]
      PROVE search' = SearchMoved(place, space, search.tried, search.best, search.seen)
  BY <1>1, <1>3 DEF SearchMoved
<1>4. ASSUME NEW tried, search' = [search EXCEPT !.at = "raised", !.tried = tried]
      PROVE search' = SearchMoved("raised", search.space, tried, search.best, search.seen)
  BY <1>1, <1>4 DEF SearchMoved
<1>5. ASSUME NEW best, search' = [search EXCEPT !.at = "done", !.best = best, !.seen = @ \cup {"all"}]
      PROVE search' = SearchMoved("done", search.space, search.tried, best, search.seen \cup {"all"})
  BY <1>1, <1>5 DEF SearchMoved
<1> QED
  BY <1>2, <1>3, <1>4, <1>5

LEMMA CompareMoves ==
  ASSUME AskedOK, NEW tried, NEW best, NEW seen,
         search' = [search EXCEPT !.at = "fit", !.tried = tried, !.best = best, !.seen = seen]
  PROVE search' = SearchMoved("fit", search.space, tried, best, seen)
<1>1. search = [at |-> search.at, tuner |-> search.tuner, param |-> search.param, setting |-> search.setting,
                rows |-> search.rows, others |-> search.others, space |-> search.space,
                tried |-> search.tried, best |-> search.best, seen |-> search.seen]
  BY DEF AskedOK
<1> QED
  BY <1>1 DEF SearchMoved

\* A model that is fitted with the best of what a search compared, or with the
\* constructor's value because it had nothing to try.
LEMMA FitIsAsAsked ==
  ASSUME AskedOK, SpaceOK, AskedOK', search'.at = "done", "all" \in search'.seen,
         search'.tuner = search.tuner, search'.param = search.param, search'.setting = search.setting,
         search'.others = search.others, search'.space = search.space,
         search'.tried = search.tried, search'.best = search.best,
         \/ search.best = DefaultValue /\ search.space = {}
         \/ search.best \in search.tried /\ DrawnOK
  PROVE SearchedAsAsked'
<1>1. Offers(search.tuner, search.param, search.setting, search.space) /\ search.tuner # "manual"
  BY SpaceOffers DEF SpaceOK, Searches
<1>2. DefaultValue \notin search.space /\ search.space \subseteq Amounts
  BY SpaceIsAmounts DEF SpaceOK
<1>3. CASE search.best = DefaultValue
  <2>1. search.space = {}
    BY <1>2, <1>3 DEF DrawnOK
  <2> QED
    BY <1>1, <1>3, <2>1 DEF SearchedAsAsked, Offers
<1>4. CASE search.best # DefaultValue
  <2>1. search.best \in search.tried /\ search.tried \subseteq search.space /\ search.space # {}
    BY <1>4 DEF DrawnOK
  <2>2. \A v \in search.tried : v # DefaultValue /\ (search.param \in Wholes => IsWhole(v))
    BY <1>2, <1>4, <2>1 DEF DrawnOK, Usable
  <2>3. /\ search.tried \subseteq Asked
        /\ \A v \in Asked : v \in search.space \/ LeavesOut(v)
    <3>1. CASE search.setting.kind = "range"
      BY <1>1, <2>1, <2>2, <3>1 DEF Offers, Asked, LeavesOut, Between
    <3>2. CASE search.setting.kind # "range"
      BY <1>1, <2>1, <3>2 DEF Offers, Asked, LeavesOut
    <3> QED
      BY <3>1, <3>2
  <2>4. /\ Exhaustive => \A v \in Asked : v \in search.tried \/ LeavesOut(v)
        /\ search.tuner # "grid" => Cardinality(search.tried) <= Draws
    BY <1>4, <2>3 DEF DrawnOK
  <2>5. Asked' = Asked /\ Exhaustive' = Exhaustive /\ \A v : LeavesOut(v)' = LeavesOut(v)
    BY DEF Asked, Exhaustive, LeavesOut
  <2> QED
    BY <1>1, <1>4, <2>1, <2>3, <2>4, <2>5, Zenon DEF SearchedAsAsked
<1> QED
  BY <1>3, <1>4

\* What a search draws is of its space; an exhaustive one draws all of it.
LEMMA DrawsAreOfSpace ==
  ASSUME AskedOK, SpaceOK, search.space # {},
         NEW tried, \/ search.tuner = "grid" /\ tried = search.space
                    \/ search.tuner = "bayesian" /\ tried \in Drawn(search.space)
                    \/ /\ search.tuner = "random"
                       /\ tried \in IF search.others \/ IsDistribution(search.setting) THEN Drawn(search.space)
                                    ELSE Sample(search.space)
  PROVE /\ tried \subseteq search.space
        /\ Exhaustive => tried = search.space
        /\ search.tuner # "grid" => Cardinality(tried) <= Draws
<1>1. CASE search.tuner \in {"grid", "bayesian"}
  BY <1>1 DEF Drawn, Exhaustive
<1>2. CASE search.tuner = "random"
  <2>1. tried \in Drawn(search.space) \/ tried \in Sample(search.space)
    BY <1>2
  <2>2. tried \subseteq search.space /\ Cardinality(tried) <= Draws
    BY <2>1, TuningAssumption DEF Drawn, Sample
  <2>3. ASSUME Exhaustive
        PROVE tried = search.space
    <3>1. ~search.others /\ search.setting.kind # "range" /\ Cardinality(ToSet(search.setting.values)) <= Draws
      BY <1>2, <2>3 DEF Exhaustive
    <3>2. tried \in Sample(search.space)
      BY <1>2, <3>1 DEF IsDistribution
    <3>3. search.space = ToSet(search.setting.values)
      <4>1. Candidates(search.space) = RandomDistribution(search.setting)
        BY <1>2, CandidatesDiffer DEF SpaceOK, Space
      <4> QED
        BY <3>1, <4>1, CandidatesDiffer DEF RandomDistribution
    <3> QED
      BY <3>1, <3>2, <3>3 DEF Sample
  <2> QED
    BY <2>2, <2>3
<1> QED
  BY <1>1, <1>2 DEF SpaceOK, Searches

LEMMA TuningInvStep == TuningInv /\ [TuningNext]_tuningVars => TuningInv'
<1> SUFFICES ASSUME TuningInv, [TuningNext]_tuningVars PROVE TuningInv'
  OBVIOUS
<1>1. CASE UNCHANGED search
  BY <1>1 DEF TuningInv, AskedOK, SpaceOK, DrawnOK, SearchedAsAsked, Asked, LeavesOut, Exhaustive, Usable
<1>2. CASE AskTuning
  <2>1. PICK tuner \in Tuners, param \in Parameters, given \in Settings, size \in Sizes, more \in BOOLEAN :
          /\ Contracted(tuner, given) /\ (param \in {"rounds", "config"} => given.kind = "one")
          /\ search' = [at |-> "asked", tuner |-> tuner, param |-> param, setting |-> given,
                        rows |-> size, others |-> more, space |-> {}, tried |-> {},
                        best |-> DefaultValue, seen |-> {}]
    BY <1>2 DEF AskTuning
  <2>2. AskedOK'
    BY <2>1 DEF AskedOK
  <2>3. search'.at = "asked" /\ search'.best = DefaultValue
    BY <2>1
  <2> QED
    BY <2>2, <2>3 DEF TuningInv, SearchedAsAsked
\* A search that goes on, or raises.
<1>3. ASSUME search # Idle, NEW place, NEW space, NEW tried, NEW best, NEW seen,
             search' = SearchMoved(place, space, tried, best, seen),
             \/ place = "raised"
             \/ /\ place = "compare" \/ place = "fit"
                /\ search.tuner \in Searches
                /\ Space(search.tuner, search.param, search.setting) = Candidates(space)
                /\ place = "compare" => space # {}
                /\ place = "fit" => \/ best = DefaultValue /\ space = {}
                                    \/ /\ best \in tried /\ tried \subseteq space
                                       /\ \A v \in tried : Usable(v)
                                       /\ Exhaustive => tried = space
                                       /\ search.tuner # "grid" => Cardinality(tried) <= Draws
      PROVE TuningInv'
  <2>1. AskedOK
    BY <1>3 DEF TuningInv
  <2>2. /\ AskedOK' /\ search' # Idle
        /\ search'.at = place /\ search'.space = space /\ search'.tried = tried
        /\ search'.best = best /\ search'.seen = seen /\ search'.others = search.others
        /\ search'.tuner = search.tuner /\ search'.param = search.param /\ search'.setting = search.setting
    BY <1>3, <2>1, StillAsked
  <2>3. Exhaustive' = Exhaustive /\ \A v : Usable(v)' = Usable(v)
    BY <2>2 DEF Usable, Exhaustive
  <2>4. place = "compare" \/ place = "fit" => SpaceOK'
    BY <1>3, <2>2 DEF SpaceOK
  <2>5. place = "fit" => \/ search'.best = DefaultValue /\ search'.space = {}
                         \/ search'.best \in search'.tried /\ DrawnOK'
    BY <1>3, <2>2, <2>3 DEF DrawnOK
  <2>6. place \in {"raised", "compare", "fit"} /\ (place = "compare" => search'.space # {})
    BY <1>3, <2>2
  <2> QED
    BY <2>2, <2>4, <2>5, <2>6 DEF TuningInv, SearchedAsAsked
<1>4. CASE PrepareSpace
  <2>1. /\ search # Idle /\ AskedOK /\ search.best = DefaultValue /\ search.tuner \in Searches
    BY <1>4 DEF PrepareSpace, TuningInv, Idle
  <2>2. PICK space : space = Space(search.tuner, search.param, search.setting)
    OBVIOUS
  <2>3. CASE space.raises
    <3>1. search' = [search EXCEPT !.at = "raised"]
      BY <1>4, <2>2, <2>3 DEF PrepareSpace
    <3>2. search' = SearchMoved("raised", search.space, search.tried, search.best, search.seen)
      BY <2>1, <3>1, EditsMove, Zenon
    <3> QED
      BY <1>3, <2>1, <3>2
  <2>4. CASE ~space.raises
    <3>1. PICK place : place = (IF space.values = {} THEN "fit" ELSE "compare")
      OBVIOUS
    <3>2. search' = [search EXCEPT !.at = place, !.space = space.values]
      BY <1>4, <2>2, <2>4, <3>1 DEF PrepareSpace
    <3>3. search' = SearchMoved(place, space.values, search.tried, search.best, search.seen)
      BY <2>1, <3>2, EditsMove, Zenon
    <3>4. space = Candidates(space.values)
      BY <2>1, <2>2, <2>4, SpaceIsCandidates
    <3> QED
      BY <1>3, <2>1, <2>2, <3>1, <3>3, <3>4
  <2> QED
    BY <2>3, <2>4
<1>5. ASSUME NEW tuner, NEW tried, NEW size, Comparing(tuner), Compare(tried, size),
             \/ tuner = "grid" /\ tried = search.space
             \/ tuner = "bayesian" /\ tried \in Drawn(search.space)
             \/ /\ tuner = "random"
                /\ tried \in IF search.others \/ IsDistribution(search.setting) THEN Drawn(search.space)
                             ELSE Sample(search.space)
      PROVE TuningInv'
  <2>1. search # Idle /\ AskedOK /\ SpaceOK /\ search.space # {} /\ search.tuner = tuner
    BY <1>5 DEF Comparing, TuningInv, Idle
  <2>2. /\ tried \subseteq search.space
        /\ Exhaustive => tried = search.space
        /\ search.tuner # "grid" => Cardinality(tried) <= Draws
    BY <1>5, <2>1, DrawsAreOfSpace
  <2>3. CASE search' = [search EXCEPT !.at = "raised", !.tried = tried]
    <3>1. search' = SearchMoved("raised", search.space, tried, search.best, search.seen)
      BY <2>1, <2>3, EditsMove, Zenon
    <3> QED
      BY <1>3, <2>1, <3>1
  <2>4. ASSUME NEW best \in tried, \A v \in tried : Usable(v),
               search' = [search EXCEPT !.at = "fit", !.tried = tried, !.best = best, !.seen = {size}]
        PROVE TuningInv'
    <3>1. search' = SearchMoved("fit", search.space, tried, best, {size})
      BY <2>1, <2>4, CompareMoves
    <3>2. search.tuner \in Searches /\ Space(search.tuner, search.param, search.setting) = Candidates(search.space)
      BY <2>1 DEF SpaceOK
    <3>3. best \in tried /\ tried \subseteq search.space /\ \A v \in tried : Usable(v)
      BY <2>2, <2>4
    <3> QED
      BY <1>3, <2>1, <2>2, <3>1, <3>2, <3>3
  <2> QED
    BY <1>5, <2>3, <2>4 DEF Compare
<1>6. CASE FitBest
  <2>1. /\ search # Idle /\ AskedOK /\ SpaceOK
        /\ \/ search.best = DefaultValue /\ search.space = {}
           \/ search.best \in search.tried /\ DrawnOK
    BY <1>6 DEF FitBest, TuningInv, Idle
  <2>2. Usable(search.best)
    BY <2>1 DEF Usable, DrawnOK
  <2>3. search' = SearchMoved("done", search.space, search.tried, search.best, search.seen \cup {"all"})
    BY <1>6, <2>1, <2>2, EditsMove DEF FitBest, Fitted
  <2>4. /\ AskedOK' /\ search' # Idle /\ search'.at = "done" /\ search'.tried = search.tried
        /\ search'.space = search.space /\ search'.others = search.others
        /\ search'.best = search.best /\ search'.seen = search.seen \cup {"all"}
        /\ search'.tuner = search.tuner /\ search'.param = search.param /\ search'.setting = search.setting
    BY <2>1, <2>3, StillAsked
  <2>5. SearchedAsAsked'
    BY <2>1, <2>4, FitIsAsAsked
  <2> QED
    BY <2>4, <2>5 DEF TuningInv
<1>7. CASE FitManually
  <2>1. search # Idle /\ AskedOK /\ search.tuner = "manual" /\ search.setting \in Settings
    BY <1>7 DEF FitManually, TuningInv, Idle, AskedOK
  <2>2. PICK p, s, space : p = search.param /\ s = search.setting /\ space = Constructed(p, s)
    OBVIOUS
  <2>3. CASE search' = [search EXCEPT !.at = "raised"]
    <3>1. search' = SearchMoved("raised", search.space, search.tried, search.best, search.seen)
      BY <2>1, <2>3, EditsMove, Zenon
    <3> QED
      BY <1>3, <2>1, <3>1
  <2>4. PICK given : given = (IF p = "cut" THEN Truncated(Low(s)) ELSE Low(s))
    OBVIOUS
  <2>5. PICK v : v = (IF space.values = {} THEN DefaultValue ELSE given)
    OBVIOUS
  <2>6. CASE ~space.raises /\ Usable(v) /\ search' = Fitted(v)
    <3>1. search' = SearchMoved("done", search.space, search.tried, v, search.seen \cup {"all"})
      BY <2>1, <2>6, EditsMove DEF Fitted
    <3>2. /\ AskedOK' /\ search' # Idle /\ search'.at = "done"
          /\ search'.best = v /\ search'.seen = search.seen \cup {"all"}
          /\ search'.tuner = "manual" /\ search'.param = p /\ search'.setting = s
      BY <2>1, <2>2, <3>1, StillAsked
    <3>3. CASE p \in {"config", "rounds"} \/ s.kind \in {"range", "null"}
      <4>1. v = DefaultValue
        BY <2>2, <2>5, <3>3 DEF Constructed, Candidates
      <4> QED
        BY <3>2, <3>3, <4>1 DEF TuningInv, SearchedAsAsked
    <3>4. CASE p \notin {"config", "rounds"} /\ s.kind = "one"
      <4>1. PICK x \in Amounts : s.values = <<x>>
        BY <2>1, <2>2, <3>4, SettingShape
      <4>2. ToSet(s.values) = {x} /\ Low(s) = x /\ x \in Nat
        BY <4>1 DEF ToSet, Low, Amounts
      <4>3. space.values = {x}
        BY <2>2, <3>4, <4>2 DEF Constructed, Candidates
      <4>4. v = given /\ v # DefaultValue
        BY <2>4, <2>5, <4>2, <4>3 DEF Truncated, DefaultValue
      <4>5. x \in Asked'
        BY <3>2, <3>4, <4>2 DEF Asked
      <4>6. v \in Asked' \/ (search'.param = "cut" /\ \E y \in Asked' : v = Truncated(y))
        BY <2>4, <3>2, <4>2, <4>4, <4>5
      <4> QED
        BY <3>2, <4>4, <4>6 DEF TuningInv, SearchedAsAsked
    <3>5. CASE p \notin {"config", "rounds"} /\ s.kind = "list"
      BY <2>2, <2>6, <3>5 DEF Constructed, Raises
    <3> QED
      BY <2>1, <2>2, <3>3, <3>4, <3>5, SettingShape
  <2>7. \/ search' = [search EXCEPT !.at = "raised"]
        \/ ~space.raises /\ search' = Fitted(v)
    BY <1>7, <2>2, <2>4, <2>5, Zenon DEF FitManually
  <2> QED
    BY <2>3, <2>6, <2>7 DEF Fitted
<1>8. CASE GridSearch
  BY <1>5, <1>8 DEF GridSearch
<1>9. CASE RandomSearch
  BY <1>5, <1>9 DEF RandomSearch
<1>10. CASE BayesianSearch
  BY <1>5, <1>10 DEF BayesianSearch
<1> QED
  BY <1>1, <1>2, <1>4, <1>6, <1>7, <1>8, <1>9, <1>10 DEF TuningNext, tuningVars

LEMMA TuningInvSearched == TuningInv => SearchedAsAsked
BY DEF TuningInv, SearchedAsAsked, Idle

\* What is fitted was asked for, and compared if it was searched; what a search
\* could come to is all that was asked for but what is named, and a search that
\* is exhaustive comes to all of it: for lists and ranges of any length and any
\* number of draws.
THEOREM SearchesTryWhatIsAsked == Spec => []SearchedAsAsked
<1>1. Init => TuningInv
  BY TuningInvInit DEF Init
<1>2. TuningInv /\ [Next]_vars => TuningInv'
  BY ComputationStep, TuningInvStep
<1>3. TuningInv => SearchedAsAsked
  BY TuningInvSearched
<1> QED
  BY <1>1, <1>2, <1>3, PTL DEF Spec

(***************************************************************************)
(* Feature analysis: the report, the features selected by two scores and   *)
(* the redundant ones among them.                                          *)
(***************************************************************************)
\* A set of numbers has a least one.
LEMMA LeastOf ==
  ASSUME NEW T, T \subseteq Nat, T # {}
  PROVE \E x \in T : \A y \in T : x <= y
<1>1. PICK R : IsWellFoundedOn(R, Nat) /\ \A x, y \in Nat : y < x => <<y, x>> \in R
  <2>1. IsWellFoundedOn(OpToRel(<, Nat), Nat)
    BY NatLessThanWellFounded
  <2>2. \A x, y \in Nat : y < x => <<y, x>> \in OpToRel(<, Nat)
    BY DEF OpToRel
  <2> QED
    BY <2>1, <2>2
<1>2. IsWellFoundedOn(R, T)
  BY <1>1, IsWellFoundedOnSubset
<1>3. PICK x \in T : \A y \in T : ~(<<y, x>> \in R)
  BY <1>2, WFMin, Zenon
<1>4. ASSUME NEW y \in T PROVE x <= y
  <2>1. x \in Nat /\ y \in Nat
    OBVIOUS
  <2>2. ~(y < x)
    BY <1>1, <1>3, <2>1, Zenon
  <2> QED
    BY <2>1, <2>2
<1> QED
  BY <1>4

\* A finite set of numbers has a greatest one: of a smallest one that had none,
\* take an element away.
LEMMA GreatestOf ==
  ASSUME NEW S, IsFiniteSet(S), S \subseteq Nat, S # {}
  PROVE \E x \in S : \A y \in S : x >= y
<1> DEFINE HasMost(V) == \E x \in V : \A y \in V : x >= y
           Bad == {V \in SUBSET S : V # {} /\ ~HasMost(V)}
           T == {Cardinality(V) : V \in Bad}
<1> SUFFICES ASSUME Bad # {} PROVE FALSE
  OBVIOUS
<1>1. \A V \in Bad : IsFiniteSet(V) /\ Cardinality(V) \in Nat
  BY FS_Subset, FS_CardinalityType
<1>2. T \subseteq Nat /\ T # {}
  BY <1>1
<1>3. PICK k \in T : \A l \in T : k <= l
  <2> HIDE DEF T
  <2> QED
    BY <1>2, LeastOf
<1>4. PICK V \in Bad : k = Cardinality(V)
  BY <1>3
<1>5. PICK a \in V : TRUE
  BY <1>4
<1>6. IsFiniteSet(V \ {a}) /\ Cardinality(V \ {a}) = Cardinality(V) - 1
  BY <1>1, <1>4, <1>5, FS_RemoveElement
<1>7. ~(Cardinality(V \ {a}) \in T)
  <2>1. Cardinality(V) \in Nat
    BY <1>1, <1>4
  <2> HIDE DEF T
  <2> QED
    BY <1>3, <1>4, <1>6, <2>1
<1>8. V \ {a} \notin Bad
  BY <1>7
<1>9. CASE V \ {a} = {}
  BY <1>4, <1>5, <1>9
<1>10. CASE HasMost(V \ {a})
  <2>1. PICK b \in V \ {a} : \A y \in V \ {a} : b >= y
    BY <1>10
  <2>2. CASE a >= b
    <3>1. \A y \in V : a >= y
      BY <2>1, <2>2, <1>4, <1>5
    <3> QED
      BY <3>1, <1>4, <1>5
  <2>3. CASE ~(a >= b)
    <3>1. \A y \in V : b >= y
      BY <2>1, <2>3, <1>4, <1>5
    <3> QED
      BY <3>1, <2>1, <1>4
  <2> QED
    BY <2>2, <2>3
<1> QED
  BY <1>4, <1>8, <1>9, <1>10

LEMMA MaxIsThere ==
  ASSUME NEW S, IsFiniteSet(S), S \subseteq Nat, S # {}
  PROVE Max(S) \in S /\ \A y \in S : Max(S) >= y
BY GreatestOf DEF Max

\* What the pages of a feature set are drawn from.
StudyOK ==
  /\ studied = [source |-> studied.source, data |-> studied.data, status |-> studied.status,
                analyses |-> studied.analyses, again |-> studied.again, report |-> studied.report]
  /\ studied.source \in Sources /\ studied.data \in Contents
  /\ studied.status \in {"COMPLETED", "FAILED"} /\ studied.again \in {"no", "yes"}
  /\ studied.report.kind \in {"computed", "ranked", "error"}

\* Nothing has taken the target that was known from the report.
StillSure ==
  SourceTarget(studied.source) = Own /\ (studied.again = "no" \/ studied.source.named = "listed")

AnalysisInv ==
  studied # NoSet =>
    /\ StudyOK
    /\ studied.report.kind = "computed" => studied.report.target = SourceTarget(studied.source)
    /\ studied.report.kind = "ranked" => SelectionSound(studied.report, studied.data)
    /\ StillSure =>
         /\ studied.status = "COMPLETED" /\ studied.report.kind # "error"
         /\ studied.report.kind = "ranked" =>
              studied.report.target = Own /\ Own \notin Selected(studied.report) \cup studied.report.redundant

LEMMA AnalysisInvSound == AnalysisInv => AnalysedSoundly
BY DEF AnalysisInv, AnalysedSoundly, StillSure

LEMMA AnalysisInvInit == AnalysisInit => AnalysisInv
BY DEF AnalysisInit, AnalysisInv

\* The greatest of the values of the features that are left, or one.
LEMMA GreatestIsPositive ==
  ASSUME NEW left, IsFiniteSet(left), left # {}, NEW v \in [left -> Nat]
  PROVE Greatest({v[g] : g \in left}) \in Nat \ {0}
<1> DEFINE S == {v[g] : g \in left}
<1>1. IsFiniteSet(S)
  <2>1. v \in Surjection(left, S)
    BY DEF Surjection
  <2> QED
    BY <2>1, FS_Surjection
<1>2. S \subseteq Nat /\ S # {}
  OBVIOUS
<1>3. Max(S) \in Nat
  BY <1>1, <1>2, MaxIsThere
<1> QED
  BY <1>3 DEF Greatest

\* Who is not worse by either measure and not better by both together is equal.
LEMMA EqualScores ==
  ASSUME NEW a \in Nat, NEW b \in Nat, NEW c \in Nat, NEW d \in Nat,
         NEW x \in Nat \ {0}, NEW y \in Nat \ {0},
         a >= b, c >= d, ~(a * x + c * y > b * x + d * y)
  PROVE a = b /\ c = d
<1>1. PICK m \in Nat, n \in Nat : a = b + m /\ c = d + n
  <2>1. a - b \in Nat /\ c - d \in Nat /\ a = b + (a - b) /\ c = d + (c - d)
    OBVIOUS
  <2> QED
    BY <2>1
<1>2. a * x + c * y = b * x + d * y + m * x + n * y
  BY <1>1
<1>3. m * x \in Nat /\ n * y \in Nat /\ (m > 0 => m * x > 0) /\ (n > 0 => n * y > 0)
  OBVIOUS
<1>4. b * x \in Nat /\ d * y \in Nat
  OBVIOUS
<1>5. m = 0 /\ n = 0
  BY <1>2, <1>3, <1>4
<1> QED
  BY <1>1, <1>5

\* The measures of a set's features with the target's own column among them.
LEMMA OwnMeasures ==
  ASSUME NEW d \in Contents
  PROVE /\ WithOwn(d).flat = d.flat /\ WithOwn(d).linked = d.linked
        /\ WithOwn(d).gain \in [Studies \cup {Own} -> Nat] /\ WithOwn(d).weight \in [Studies \cup {Own} -> Nat]
        /\ \A f \in Studies : WithOwn(d).gain[f] = d.gain[f] /\ WithOwn(d).weight[f] = d.weight[f]
<1>1. Max(Gains) \in Nat /\ Max(Importances) \in Nat
  BY AnalysisAssumption, MaxIsThere
<1>2. d.gain \in [Studies -> Gains] /\ d.weight \in [Studies -> Importances]
  BY DEF Contents
<1>3. Own \notin Studies
  BY AnalysisAssumption DEF Own, Studies
<1>4. Gains \subseteq Nat /\ Importances \subseteq Nat
  BY AnalysisAssumption
<1> QED
  BY <1>1, <1>2, <1>3, <1>4 DEF WithOwn

\* What FeatureSelector chooses of columns that are all features, or the
\* target's own too, is sound.
LEMMA ChosenIsSound ==
  ASSUME NEW d \in Contents, NEW columns \in SUBSET (Studies \cup {Own}),
         NEW chosen \in Selections(WithOwn(d), columns),
         NEW r, r.flat = chosen.flat, r.redundant = chosen.redundant, r.rank = chosen.rank
  PROVE SelectionSound(r, d) /\ Selected(r) \cup r.redundant \subseteq columns
<1> DEFINE seen == [flat |-> Constant(WithOwn(d), columns), gain |-> [f \in columns |-> WithOwn(d).gain[f]],
                   linked |-> WithOwn(d).linked \cap (columns \X columns), weight |-> WithOwn(d).weight]
           redundant == {f \in columns : Redundant(seen, f)}
           left == columns \ (seen.flat \cup redundant)
<1>1. /\ seen = [flat |-> Constant(WithOwn(d), columns), gain |-> [f \in columns |-> WithOwn(d).gain[f]],
                   linked |-> WithOwn(d).linked \cap (columns \X columns), weight |-> WithOwn(d).weight]
      /\ redundant = {f \in columns : Redundant(seen, f)}
      /\ left = columns \ (seen.flat \cup redundant)
  OBVIOUS
<1>2. PICK rank \in [left -> 1..Cardinality(left)] :
        /\ chosen = [flat |-> seen.flat, redundant |-> redundant, rank |-> rank]
        /\ \A f, g \in left : /\ f # g => rank[f] # rank[g]
                              /\ Combined(seen, left, f) > Combined(seen, left, g) => rank[f] < rank[g]
  BY Zenon DEF Selections
<1> HIDE DEF seen, redundant, left
<1>3. /\ seen.flat = d.flat \cap columns /\ seen.linked = d.linked \cap (columns \X columns)
      /\ seen.gain \in [columns -> Nat] /\ seen.weight \in [Studies \cup {Own} -> Nat]
      /\ \A f \in columns \cap Studies : seen.gain[f] = d.gain[f] /\ seen.weight[f] = d.weight[f]
  BY <1>1, OwnMeasures DEF Constant
<1>4. redundant = {f \in columns : \E g \in columns : <<g, f>> \in d.linked}
  <2>1. DOMAIN seen.gain = columns
    BY <1>3
  <2> QED
    BY <1>1, <1>3, <2>1 DEF Redundant
<1>5. Selected(r) = left /\ r.redundant = redundant /\ left = columns \ (d.flat \cup redundant)
  BY <1>1, <1>2, <1>3 DEF Selected
<1>6. /\ d.linked \subseteq {p \in Studies \X Studies : p[1] < p[2]}
      /\ \A p \in d.linked : {p[1], p[2]} \cap d.flat = {}
  BY DEF Contents
<1>7. \A p \in d.linked : ~({p[1], p[2]} \subseteq Selected(r))
  <2> SUFFICES ASSUME NEW p \in d.linked, p[1] \in left, p[2] \in left PROVE FALSE
    BY <1>5
  <2>1. p = <<p[1], p[2]>>
    BY <1>6
  <2>2. p[2] \in redundant
    BY <1>4, <1>5, <2>1
  <2> QED
    BY <1>5, <2>2
<1>8. Selected(r) \cap d.flat = {}
  BY <1>5
<1>9. ASSUME NEW group \in (SUBSET ((left \cup redundant) \cap Studies)) \ {{}},
             \A p \in d.linked : {p[1], p[2]} \subseteq left \cup redundant => (p[1] \in group <=> p[2] \in group)
      PROVE group \cap left # {}
  <2>1. PICK m \in group : \A f \in group : m <= f
    BY LeastOf DEF Studies
  <2>2. CASE m \in redundant
    <3>1. PICK g \in columns : <<g, m>> \in d.linked
      BY <1>4, <2>2
    <3>2. g \notin d.flat /\ g < m /\ g \in Studies /\ m \in Studies
      BY <1>6, <3>1
    <3>3. g \in left \cup redundant
      BY <1>5, <3>2
    <3>4. g \in group
      BY <1>9, <3>1, <3>3
    <3> QED
      BY <2>1, <3>2, <3>4 DEF Studies
  <2> QED
    BY <2>1, <2>2
<1>10. ASSUME NEW f \in left \cap Studies, NEW g \in left \cap Studies,
              d.gain[f] >= d.gain[g], d.weight[f] >= d.weight[g], rank[g] < rank[f]
       PROVE d.gain[f] = d.gain[g] /\ d.weight[f] = d.weight[g]
  <2>1. PICK x, y : x = Greatest({seen.weight[h] : h \in left}) /\ y = Greatest({seen.gain[h] : h \in left})
    OBVIOUS
  <2>2. left \subseteq columns /\ left \subseteq Studies \cup {Own} /\ left # {} /\ IsFiniteSet(left)
    <3>1. IsFiniteSet(Studies)
      <4>1. 1 \in Int /\ MaxStudied \in Int
        BY AnalysisAssumption
      <4> QED
        BY <4>1, FS_Interval DEF Studies
    <3>2. IsFiniteSet(Studies \cup {Own})
      BY <3>1, FS_AddElement
    <3>3. left \subseteq columns /\ left \subseteq Studies \cup {Own} /\ left # {}
      BY <1>5
    <3> QED
      BY <3>2, <3>3, FS_Subset
  <2>3. x \in Nat \ {0} /\ y \in Nat \ {0}
    <3>1. PICK w \in [left -> Nat], v \in [left -> Nat] : \A h \in left : w[h] = seen.weight[h] /\ v[h] = seen.gain[h]
      <4>1. [h \in left |-> seen.weight[h]] \in [left -> Nat] /\ [h \in left |-> seen.gain[h]] \in [left -> Nat]
        BY <1>3, <2>2
      <4> QED
        BY <4>1
    <3>2. {seen.weight[h] : h \in left} = {w[h] : h \in left} /\ {seen.gain[h] : h \in left} = {v[h] : h \in left}
      BY <3>1
    <3>3. Greatest({w[h] : h \in left}) \in Nat \ {0} /\ Greatest({v[h] : h \in left}) \in Nat \ {0}
      BY <2>2, GreatestIsPositive
    <3> QED
      BY <2>1, <3>2, <3>3
  <2>4. /\ Combined(seen, left, f) = d.gain[f] * x + d.weight[f] * y
        /\ Combined(seen, left, g) = d.gain[g] * x + d.weight[g] * y
    BY <1>3, <2>1, <2>2 DEF Combined
  <2>5. ~(Combined(seen, left, f) > Combined(seen, left, g))
    <3>1. rank[f] \in Nat /\ rank[g] \in Nat
      <4>1. Cardinality(left) \in Nat
        BY <2>2, FS_CardinalityType
      <4> QED
        BY <4>1
    <3> QED
      BY <1>2, <1>10, <3>1
  <2>6. d.gain[f] \in Nat /\ d.gain[g] \in Nat /\ d.weight[f] \in Nat /\ d.weight[g] \in Nat
    BY AnalysisAssumption DEF Contents
  <2>7. PICK a \in Nat, b \in Nat, c \in Nat, e \in Nat :
          a = d.gain[f] /\ b = d.gain[g] /\ c = d.weight[f] /\ e = d.weight[g]
    BY <2>6
  <2>8. a >= b /\ c >= e /\ ~(a * x + c * y > b * x + e * y)
    BY <1>10, <2>4, <2>5, <2>7
  <2>9. a = b /\ c = e
    BY <2>3, <2>8, EqualScores
  <2> QED
    BY <2>7, <2>9
<1>11. SelectionSound(r, d)
  <2>1. r.rank = rank
    BY <1>2
  <2> QED
    BY <1>5, <1>7, <1>8, <1>9, <1>10, <2>1 DEF SelectionSound
<1> QED
  BY <1>4, <1>5, <1>11

\* A set after one more analysis.
Rewritten(rep, status) ==
  [source |-> studied.source, data |-> studied.data, status |-> status, analyses |-> studied.analyses + 1,
   again |-> IF studied.report.kind = "computed" THEN studied.again ELSE "yes", report |-> rep]

\* What every analysis leaves of a set: all but report, status and history.
LEMMA ReportWritten ==
  ASSUME StudyOK, NEW rep, rep.kind \in {"computed", "ranked", "error"}, NEW status \in {"COMPLETED", "FAILED"},
         studied' = Rewritten(rep, status)
  PROVE /\ StudyOK' /\ studied' # NoSet
        /\ studied'.source = studied.source /\ studied'.data = studied.data
        /\ studied'.report = rep /\ studied'.status = status
        /\ studied'.again = "no" => studied.again = "no" /\ studied.report.kind = "computed"
<1>1. studied' # NoSet
  BY DEF NoSet, Rewritten
<1>2. /\ studied'.source = studied.source /\ studied'.data = studied.data /\ studied'.report = rep
      /\ studied'.status = status
      /\ studied'.again = (IF studied.report.kind = "computed" THEN studied.again ELSE "yes")
      /\ studied'.analyses = studied.analyses + 1
  BY DEF Rewritten
<1>3. studied' = [source |-> studied'.source, data |-> studied'.data, status |-> studied'.status,
                  analyses |-> studied'.analyses, again |-> studied'.again, report |-> studied'.report]
  BY DEF Rewritten
<1> QED
  BY <1>1, <1>2, <1>3 DEF StudyOK

LEMMA ReportedIsWritten ==
  ASSUME StudyOK, NEW rep, Reported(rep)
  PROVE studied' = Rewritten(rep, studied.status)
<1>1. PICK so, da, st, an, ag, re :
        /\ studied = [source |-> so, data |-> da, status |-> st, analyses |-> an, again |-> ag, report |-> re]
  BY DEF StudyOK
<1> QED
  BY <1>1 DEF Reported, Rewritten

\* A target that is still known is found, and not in a copy.
LEMMA SureTarget ==
  ASSUME AnalysisInv, studied # NoSet, SourceTarget(studied.source) = Own,
         studied.report.kind = "computed" \/ studied.source.named = "listed"
  PROVE TargetFound(studied.source, studied.report) = [target |-> Own, copied |-> FALSE]
<1>1. Own # Nowhere /\ Own # 1 /\ Own \in StoredColumns(studied.source)
  BY AnalysisAssumption DEF Own, Nowhere, StoredColumns
<1>2. CASE studied.report.kind = "computed"
  BY <1>1, <1>2 DEF AnalysisInv, TargetFound, Remembered
<1>3. CASE studied.report.kind # "computed"
  BY <1>1, <1>3 DEF TargetFound, Remembered, Guessed
<1> QED
  BY <1>2, <1>3

LEMMA AnalysisInvStep == AnalysisInv /\ [AnalysisNext]_analysisVars => AnalysisInv'
<1> SUFFICES ASSUME AnalysisInv, [AnalysisNext]_analysisVars PROVE AnalysisInv'
  OBVIOUS
<1>1. CASE UNCHANGED studied
  BY <1>1 DEF AnalysisInv, StudyOK, StillSure, SelectionSound, Selected
<1>2. CASE ComputeSet
  <2>1. PICK s \in Sources, d \in Contents :
          studied' = [source |-> s, data |-> d, status |-> "COMPLETED", analyses |-> 0, again |-> "no",
                      report |-> [kind |-> "computed", target |-> SourceTarget(s)]]
    BY <1>2 DEF ComputeSet
  <2>2. StudyOK' /\ studied'.report = [kind |-> "computed", target |-> SourceTarget(s)]
        /\ studied'.status = "COMPLETED" /\ studied'.source = s
    BY <2>1 DEF StudyOK
  <2>3. studied'.report.kind = "computed" /\ studied'.report.target = SourceTarget(s)
    BY <2>2
  <2> QED
    BY <2>2, <2>3 DEF AnalysisInv
<1>3. ASSUME studied # NoSet, NEW rep, rep.kind \in {"computed", "ranked", "error"},
             NEW status \in {"COMPLETED", "FAILED"},
             studied' = Rewritten(rep, status),
             rep.kind = "computed" => rep = studied.report,
             rep.kind = "ranked" => SelectionSound(rep, studied.data),
             SourceTarget(studied.source) = Own
               /\ (studied.report.kind = "computed" \/ studied.source.named = "listed")
               => /\ rep.kind = "error" => FALSE
                  /\ status = studied.status
                  /\ rep.kind = "ranked" => rep.target = Own /\ Own \notin Selected(rep) \cup rep.redundant
      PROVE AnalysisInv'
  <2>1. StudyOK
    BY <1>3 DEF AnalysisInv
  <2>2. /\ StudyOK' /\ studied' # NoSet
        /\ studied'.source = studied.source /\ studied'.data = studied.data
        /\ studied'.report = rep /\ studied'.status = status
        /\ studied'.again = "no" => studied.again = "no" /\ studied.report.kind = "computed"
    BY <1>3, <2>1, ReportWritten
  <2>3. rep.kind = "computed" => rep.target = SourceTarget(studied.source)
    BY <1>3 DEF AnalysisInv
  <2>4. StillSure' => StillSure /\ (studied.report.kind = "computed" \/ studied.source.named = "listed")
    BY <2>2 DEF StillSure
  <2>5. StillSure => studied.status = "COMPLETED" /\ SourceTarget(studied.source) = Own
    BY <1>3 DEF AnalysisInv, StillSure
  <2>6. (SelectionSound(rep, studied.data) => SelectionSound(studied.report, studied.data)') /\ Own' = Own
    BY <2>2 DEF SelectionSound, Selected, Own
  <2>7. (studied'.report.kind = "ranked" => SelectionSound(studied.report, studied.data)')
        /\ (studied'.report.kind = "computed" => studied'.report.target = SourceTarget(studied.source)')
    BY <1>3, <2>2, <2>3, <2>6 DEF SourceTarget
  <2>8. StillSure' => /\ studied'.status = "COMPLETED" /\ studied'.report.kind # "error"
                      /\ studied'.report.kind = "ranked" =>
                           studied'.report.target = Own /\ Own \notin Selected(studied'.report) \cup studied'.report.redundant
    BY <1>3, <2>2, <2>4, <2>5
  <2> QED
    BY <2>2, <2>6, <2>7, <2>8 DEF AnalysisInv, Selected
<1>7. ASSUME SourceTarget(studied.source) = Own, studied # NoSet,
             studied.report.kind = "computed" \/ studied.source.named = "listed"
      PROVE TargetFound(studied.source, studied.report) = [target |-> Own, copied |-> FALSE]
            /\ Own # Nowhere /\ Own # 1
  BY <1>7, SureTarget, AnalysisAssumption DEF Own, Nowhere
<1>4. CASE RankFeatures
  <2> DEFINE s == studied.source
             found == TargetFound(s, studied.report)
             d == studied.data
             own(n) == IF n /\ (found.copied \/ found.target # Own) THEN StoredColumns(s) \ Studies ELSE {}
             columnsOf(n) == (Studies \cup own(n)) \ (IF found.copied THEN {} ELSE {found.target})
  <2>1. PICK numeric \in BOOLEAN : \E chosen \in Selections(WithOwn(d), columnsOf(numeric)) :
               Reported([kind |-> "ranked", target |-> found.target, flat |-> chosen.flat,
                         redundant |-> chosen.redundant, rank |-> chosen.rank])
    BY <1>4, Zenon DEF RankFeatures
  <2>2. PICK columns :
          /\ columns = columnsOf(numeric)
          /\ \E chosen \in Selections(WithOwn(d), columns) :
               Reported([kind |-> "ranked", target |-> found.target, flat |-> chosen.flat,
                         redundant |-> chosen.redundant, rank |-> chosen.rank])
    BY <2>1
  <2>3. PICK chosen, rep :
          /\ chosen \in Selections(WithOwn(d), columns)
          /\ rep = [kind |-> "ranked", target |-> found.target, flat |-> chosen.flat,
                    redundant |-> chosen.redundant, rank |-> chosen.rank]
          /\ Reported(rep)
    BY <2>2
  <2>4. /\ rep.kind = "ranked" /\ rep.target = found.target /\ rep.flat = chosen.flat
        /\ rep.redundant = chosen.redundant /\ rep.rank = chosen.rank
    BY <2>3
  <2>5. studied # NoSet /\ d \in Contents /\ StudyOK
    BY <1>4, <2>1 DEF RankFeatures, CanAnalyse, AnalysisInv, StudyOK
  <2>6. columns \in SUBSET (Studies \cup {Own})
    BY <2>2 DEF StoredColumns, SourceTarget
  <2>7. SelectionSound(rep, d) /\ Selected(rep) \cup rep.redundant \subseteq columns
    BY <2>3, <2>4, <2>5, <2>6, ChosenIsSound
  <2>8. found = [target |-> Own, copied |-> FALSE] => Own \notin columns /\ rep.target = Own
    <3>1. Own \notin Studies
      BY AnalysisAssumption DEF Own, Studies
    <3> QED
      BY <2>2, <2>4, <3>1
  <2>9. studied' = Rewritten(rep, studied.status)
    BY <2>3, <2>5, ReportedIsWritten
  <2>10. studied.status \in {"COMPLETED", "FAILED"}
    BY <2>5 DEF StudyOK
  <2> QED
    BY <1>3, <1>7, <2>1, <2>4, <2>5, <2>7, <2>8, <2>9, <2>10
<1>5. CASE ReportNoTarget
  <2>1. studied # NoSet /\ StudyOK /\ studied.status \in {"COMPLETED", "FAILED"}
    BY <1>5 DEF ReportNoTarget, CanAnalyse, AnalysisInv, StudyOK
  <2>2. PICK rep : /\ rep = IF studied.report.kind = "computed" THEN studied.report ELSE [kind |-> "error"]
                   /\ Reported(rep)
    BY <1>5 DEF ReportNoTarget
  <2>3. rep.kind \in {"computed", "error"} /\ (rep.kind = "computed" => rep = studied.report)
    BY <2>2
  <2>4. TargetFound(studied.source, studied.report).target = Nowhere
    BY <1>5 DEF ReportNoTarget
  <2>5. studied' = Rewritten(rep, studied.status)
    BY <2>1, <2>2, ReportedIsWritten
  <2>6. ~(SourceTarget(studied.source) = Own
          /\ (studied.report.kind = "computed" \/ studied.source.named = "listed"))
    BY <1>7, <2>1, <2>4
  <2> QED
    BY <1>3, <2>1, <2>3, <2>5, <2>6
<1>6. CASE AnalysisFails
  <2>1. studied # NoSet /\ StudyOK
    BY <1>6 DEF AnalysisFails, CanAnalyse, AnalysisInv, StudyOK
  <2>2. PICK rep : rep = [kind |-> "error"]
    OBVIOUS
  <2>3. rep.kind = "error"
    BY <2>2
  <2>4. studied' = Rewritten(rep, "FAILED")
    <3>1. PICK so, da, st, an, ag, re :
            studied = [source |-> so, data |-> da, status |-> st, analyses |-> an, again |-> ag, report |-> re]
      BY <2>1 DEF StudyOK
    <3> QED
      BY <1>6, <2>2, <3>1 DEF AnalysisFails, Rewritten
  <2>5. ~(SourceTarget(studied.source) = Own
          /\ (studied.report.kind = "computed" \/ studied.source.named = "listed"))
    BY <1>6, <1>7, <2>1 DEF AnalysisFails
  <2> QED
    BY <1>3, <2>1, <2>3, <2>4, <2>5
<1> QED
  BY <1>1, <1>2, <1>4, <1>5, <1>6 DEF AnalysisNext, analysisVars

\* The target of a feature set is known by its columns as long as it has to be,
\* is never selected, and a selection takes no feature over a better one, for
\* any scores.
THEOREM AnalysesAreSound == Spec => []AnalysedSoundly
<1>1. Init => AnalysisInv
  BY AnalysisInvInit DEF Init
<1>2. AnalysisInv /\ [Next]_vars => AnalysisInv'
  BY ComputationStep, AnalysisInvStep
<1>3. AnalysisInv => AnalysedSoundly
  BY AnalysisInvSound
<1> QED
  BY <1>1, <1>2, <1>3, PTL DEF Spec

(***************************************************************************)
(* Paths: in the cloud and on the disk every artifact lies at a place of   *)
(* its own, where its row says.                                            *)
(***************************************************************************)
FeatureKinds == {"raw"} \cup SplitHalves
FeatureFolders == {"raw", "merged", "split"}
CloudParts == {"features", "transformer"}
PartNames == {"model", "onnx", "preprocessor", "calibrator", "manifest"}

\* What lies at the place of a store's first segment.
StoresOK(k) ==
  /\ \A p \in DOMAIN k.disk : p[1] = "storage"
  /\ \A p \in DOMAIN k.blobs : p[1] \in {"datasets", "features", "models"}

\* A row of a dataset or a feature set names a place of its own, and its file
\* lies there.
NamedAt(k, n) ==
  IF n \in StoredDatasets
  THEN \/ /\ k.named[n] = LocalPath(n) /\ LocalPath(n) \in DOMAIN k.disk
          /\ k.disk[LocalPath(n)] = <<n, "data">>
       \/ /\ k.named[n] = CloudPath(n) /\ CloudPath(n) \in DOMAIN k.blobs
          /\ k.blobs[CloudPath(n)] = <<n, "data">>
  ELSE \E f \in FeatureIds :
         /\ n = <<f>>
         /\ \/ \E dir \in FeatureFolders :
                 LET path == <<"storage", "features", dir, f, "features">> IN
                 k.named[n] = path /\ path \in DOMAIN k.disk /\ k.disk[path] = <<n, "features">>
            \/ \E kind \in FeatureKinds :
                 LET path == <<"features", "features", kind, f, "features">> IN
                 /\ k.named[n] = <<"features", kind, f, "features">>
                 /\ path \in DOMAIN k.blobs /\ k.blobs[path] = <<n, "features">>

\* A file of a dataset lies where its row says, unless the row was removed
\* while the cloud was out of reach.
DatasetFiles(k) ==
  \A d \in StoredDatasets :
    /\ \A p \in DOMAIN k.blobs : k.blobs[p][1] = d =>
         /\ p \in DOMAIN CloudFiles(d)
         /\ d \in k.stranded \/ (d \in DOMAIN k.named /\ k.named[d] = CloudPath(d))
    /\ \A p \in DOMAIN k.disk : k.disk[p][1] = d =>
         p = LocalPath(d) /\ d \in DOMAIN k.named /\ k.named[d] = LocalPath(d)

FeatureFiles(k) ==
  \A dir \in FeatureFolders \cup FeatureKinds, f \in FeatureIds :
    LET path == <<"storage", "features", dir, f, "features">> IN
    path \in DOMAIN k.disk => k.disk[path] = <<<<f>>, "features">>

StoreOf(k, cloud) == IF cloud THEN k.blobs ELSE k.disk

\* In the folder of a job lie parts that its tries stored.
ModelFiles(k) ==
  \A j \in ModelJobs, cloud \in BOOLEAN, part \in PartNames :
    LET path == ModelPath(j, cloud, part) IN
    path \in DOMAIN StoreOf(k, cloud) =>
      /\ StoreOf(k, cloud)[path] = <<<<j>>, part, StoreOf(k, cloud)[path][3]>>
      /\ StoreOf(k, cloud)[path][3] \in 1..k.tries[j]

\* A row of the registry finds its parts, or newer ones, unless one of its job
\* was removed.
RowAt(k, row) ==
  /\ row.job \in ModelJobs /\ row.try \in 1..k.tries[row.job] /\ row.cloud \in BOOLEAN
  /\ row.parts \subseteq PartNames /\ row.path = ModelPath(row.job, row.cloud, "model")
  /\ \A part \in row.parts :
       LET path == ModelPath(row.job, row.cloud, part) IN
       IF path \in DOMAIN StoreOf(k, row.cloud)
       THEN StoreOf(k, row.cloud)[path][3] >= row.try ELSE <<row.job>> \in k.gone

KeptShape(k) ==
  /\ k = [cloud |-> k.cloud, blobs |-> k.blobs, disk |-> k.disk, named |-> k.named, models |-> k.models,
          tries |-> k.tries, gone |-> k.gone, stranded |-> k.stranded, saves |-> k.saves, switches |-> k.switches]
  /\ k.cloud \in BOOLEAN /\ k.tries \in [ModelJobs -> Nat] /\ k.saves \in Nat
  /\ \E some : k.models \in Seq(some)
  /\ DOMAIN k.named \subseteq StoredDatasets \cup {<<f>> : f \in FeatureIds}
  /\ k.gone \subseteq StoredDatasets \cup {<<j>> : j \in ModelJobs}

KeptInv(k) ==
  /\ KeptShape(k) /\ StoresOK(k)
  /\ \A n \in DOMAIN k.named : NamedAt(k, n)
  /\ k.gone \cap DOMAIN k.named \cap StoredDatasets = {}
  /\ DatasetFiles(k) /\ FeatureFiles(k) /\ ModelFiles(k)
  /\ \A n \in DOMAIN k.models : RowAt(k, k.models[n])

\* A dataset has an id of its stage and, of a split, a half.
LEMMA DatasetShape ==
  ASSUME NEW d \in StoredDatasets
  PROVE \/ d[1] \in RawIds \cup MergeIds /\ d = <<d[1]>> /\ d[1] \notin SplitIds
        \/ d[1] \in SplitIds /\ d[2] \in SplitHalves /\ d = <<d[1], d[2]>> /\ d[1] \notin RawIds \cup MergeIds
<1>1. CASE \E i \in RawIds \cup MergeIds : d = <<i>>
  BY <1>1, BlobAssumption
<1>2. CASE d \in SplitIds \X SplitHalves
  BY <1>2, BlobAssumption
<1> QED
  BY <1>1, <1>2 DEF StoredDatasets

LEMMA LocalPlace ==
  ASSUME NEW d \in StoredDatasets
  PROVE /\ d[1] \in SplitIds => LocalPath(d) = <<"storage", "datasets", d[1], d[2], "data">>
        /\ d[1] \notin SplitIds => LocalPath(d) = <<"storage", "datasets", d[1], "data">>
        /\ LocalPath(d)[1] = "storage" /\ LocalPath(d)[2] = "datasets" /\ LocalPath(d)[3] = d[1]
BY DEF LocalPath

LEMMA CloudPlace ==
  ASSUME NEW d \in StoredDatasets
  PROVE /\ d[1] \in RawIds => CloudPath(d) = <<"datasets", "raw", d[1], "data">>
        /\ d[1] \in MergeIds => CloudPath(d) = <<"datasets", "merged", d[1], "v1.0", "data">>
        /\ d[1] \in SplitIds => CloudPath(d) = <<"datasets", "processed", d[1], d[2], "data">>
        /\ CloudPath(d)[1] = "datasets" /\ CloudPath(d)[3] = d[1]
        /\ d[1] \in SplitIds => CloudPath(d)[4] = d[2]
<1>1. d[1] \in RawIds => CloudPath(d) = <<"datasets", "raw", d[1], "data">>
  BY DEF CloudPath
<1>2. d[1] \in MergeIds => CloudPath(d) = <<"datasets", "merged", d[1], "v1.0", "data">>
  BY BlobAssumption DEF CloudPath
<1>3. d[1] \in SplitIds => CloudPath(d) = <<"datasets", "processed", d[1], d[2], "data">>
  BY BlobAssumption DEF CloudPath
<1> QED
  BY <1>1, <1>2, <1>3, DatasetShape

LEMMA CloudPlaces ==
  ASSUME NEW d \in StoredDatasets
  PROVE /\ CloudPath(d) \in DOMAIN CloudFiles(d) /\ CloudFiles(d)[CloudPath(d)] = <<d, "data">>
        /\ \A p \in DOMAIN CloudFiles(d) :
             /\ CloudFiles(d)[p][1] = d
             /\ p[1] = "datasets" /\ p[3] = d[1] /\ (d[1] \in SplitIds => p[4] = d[2])
             /\ d[1] \notin MergeIds => p = CloudPath(d)
             /\ d[1] \in MergeIds => p = <<"datasets", "merged", d[1], "v1.0", p[5]>>
<1> DEFINE more == IF d[1] \notin MergeIds THEN {}
                    ELSE {<<"datasets", "merged", d[1], "v1.0", n>> : n \in {"lineage", "merge_config"}}
<1>1. CloudFiles(d) = [p \in {CloudPath(d)} \cup more |-> <<d, Last(p)>>]
  BY DEF CloudFiles
<1>2. DOMAIN CloudFiles(d) = {CloudPath(d)} \cup more
  BY <1>1
<1>3. Last(CloudPath(d)) = "data"
  BY CloudPlace, DatasetShape, SMTT(20) DEF Last
<1>4. CloudFiles(d)[CloudPath(d)] = <<d, "data">>
  BY <1>1, <1>3
<1>5. ASSUME NEW p \in DOMAIN CloudFiles(d)
      PROVE /\ CloudFiles(d)[p][1] = d
            /\ p[1] = "datasets" /\ p[3] = d[1] /\ (d[1] \in SplitIds => p[4] = d[2])
            /\ d[1] \notin MergeIds => p = CloudPath(d)
            /\ d[1] \in MergeIds => p = <<"datasets", "merged", d[1], "v1.0", p[5]>>
  <2>1. CloudFiles(d)[p][1] = d
    BY <1>1, <1>5
  <2>2. CASE p = CloudPath(d)
    BY <2>1, <2>2, CloudPlace, DatasetShape
  <2>3. CASE p \in more
    BY <2>1, <2>3, BlobAssumption
  <2> QED
    BY <1>2, <1>5, <2>2, <2>3
<1> QED
  BY <1>2, <1>4, <1>5

\* Different datasets lie apart.
LEMMA DatasetsApart ==
  ASSUME NEW d \in StoredDatasets, NEW e \in StoredDatasets, d # e
  PROVE LocalPath(d) # LocalPath(e) /\ DOMAIN CloudFiles(d) \cap DOMAIN CloudFiles(e) = {}
<1>1. d[1] = e[1] => d[1] \in SplitIds /\ e[1] \in SplitIds /\ d[2] # e[2]
  BY DatasetShape
<1>2. LocalPath(d) # LocalPath(e)
  BY <1>1, LocalPlace
<1> QED
  BY <1>1, <1>2, CloudPlaces

\* A store after files were put there, the new ones in the places of the old.
Grown(old, new, laid) ==
  /\ DOMAIN new = DOMAIN old \cup DOMAIN laid
  /\ \A p \in DOMAIN laid : new[p] = laid[p]
  /\ \A p \in DOMAIN old \ DOMAIN laid : new[p] = old[p]

NoFiles == [x \in {} |-> Missing]

LEMMA PutGrows ==
  ASSUME NEW old, NEW laid
  PROVE Grown(old, Put(old, laid), laid) /\ Grown(old, old, NoFiles)
BY DEF Put, Grown, NoFiles

LEMMA FileLies ==
  ASSUME NEW path, NEW content
  PROVE DOMAIN File(path, content) = {path} /\ File(path, content)[path] = content
BY DEF File

LEMMA ModelPlace ==
  ASSUME NEW j, NEW cloud \in BOOLEAN, NEW part
  PROVE /\ cloud => ModelPath(j, cloud, part) = <<"models", j, part>>
        /\ ~cloud => ModelPath(j, cloud, part) = <<"storage", "models", j, part>>
        /\ cloud => ModelPath(j, cloud, part)[1] = "models"
        /\ ~cloud => ModelPath(j, cloud, part)[1] = "storage" /\ ModelPath(j, cloud, part)[2] = "models"
BY DEF ModelPath

\* The models of a store are untouched when the changed paths are no models'.
LEMMA ModelsUntouched ==
  ASSUME NEW k, NEW l, ModelFiles(k), \A n \in DOMAIN k.models : RowAt(k, k.models[n]),
         l.tries = k.tries, l.models = k.models, k.gone \subseteq l.gone,
         \A j \in ModelJobs, cloud \in BOOLEAN, part \in PartNames :
           LET p == ModelPath(j, cloud, part) IN
           /\ (p \in DOMAIN StoreOf(l, cloud)) <=> (p \in DOMAIN StoreOf(k, cloud))
           /\ p \in DOMAIN StoreOf(k, cloud) => StoreOf(l, cloud)[p] = StoreOf(k, cloud)[p]
  PROVE ModelFiles(l) /\ \A n \in DOMAIN l.models : RowAt(l, l.models[n])
<1>1. ModelFiles(l)
  BY ZenonT(30) DEF ModelFiles
<1>2. ASSUME NEW row, RowAt(k, row) PROVE RowAt(l, row)
  <2>1. row.job \in ModelJobs /\ row.cloud \in BOOLEAN /\ row.parts \subseteq PartNames
    BY <1>2 DEF RowAt
  <2>2. \A part \in row.parts :
          LET p == ModelPath(row.job, row.cloud, part) IN
          /\ (p \in DOMAIN StoreOf(l, row.cloud)) <=> (p \in DOMAIN StoreOf(k, row.cloud))
          /\ p \in DOMAIN StoreOf(k, row.cloud) => StoreOf(l, row.cloud)[p] = StoreOf(k, row.cloud)[p]
    BY <2>1, Zenon
  <2> QED
    BY <1>2, <2>2 DEF RowAt
<1> QED
  BY <1>1, <1>2

LEMMA DatasetSaved ==
  ASSUME NEW k, KeptInv(k), NEW l, KeptShape(l), NEW d \in StoredDatasets, NEW laid, NEW more, NEW target,
         d \notin DOMAIN k.named, d \notin k.gone,
         Grown(k.blobs, l.blobs, laid), Grown(k.disk, l.disk, more), Grown(k.named, l.named, File(d, target)),
         \A p \in DOMAIN laid : p \in DOMAIN CloudFiles(d) /\ laid[p][1] = d,
         \A p \in DOMAIN more : p = LocalPath(d) /\ more[p] = <<d, "data">>,
         \/ target = CloudPath(d) /\ target \in DOMAIN laid /\ laid[target] = <<d, "data">> /\ more = NoFiles
         \/ target = LocalPath(d) /\ target \in DOMAIN more /\ laid = NoFiles,
         l.models = k.models, l.tries = k.tries, l.gone = k.gone, l.stranded = k.stranded
  PROVE KeptInv(l)
<1>1. \A p \in DOMAIN laid : p[1] = "datasets" /\ laid[p][1] = d /\ p \in DOMAIN CloudFiles(d)
  BY CloudPlaces
<1>2. \A p \in DOMAIN more : p[1] = "storage" /\ p[2] = "datasets" /\ p = LocalPath(d) /\ more[p] = <<d, "data">>
  BY LocalPlace
<1>3. /\ \A p : p \in DOMAIN l.blobs <=> p \in DOMAIN k.blobs \/ p \in DOMAIN laid
      /\ \A p : p \in DOMAIN l.disk <=> p \in DOMAIN k.disk \/ p \in DOMAIN more
  BY DEF Grown
<1>4. /\ \A p : p \in DOMAIN laid => l.blobs[p] = laid[p]
      /\ \A p : p \in DOMAIN k.blobs /\ p \notin DOMAIN laid => l.blobs[p] = k.blobs[p]
      /\ \A p : p \in DOMAIN more => l.disk[p] = more[p]
      /\ \A p : p \in DOMAIN k.disk /\ p \notin DOMAIN more => l.disk[p] = k.disk[p]
  BY DEF Grown
<1>m. DOMAIN File(d, target) = {d} /\ File(d, target)[d] = target
  BY FileLies
<1>5. /\ DOMAIN l.named = DOMAIN k.named \cup {d}
      /\ l.named[d] = target
      /\ \A n \in DOMAIN k.named : l.named[n] = k.named[n]
  BY <1>m DEF Grown
<1>n. DOMAIN NoFiles = {}
  BY DEF NoFiles
<1>6. StoresOK(l)
  BY <1>1, <1>2, <1>3 DEF StoresOK, KeptInv
<1>7. ASSUME NEW n \in DOMAIN l.named PROVE NamedAt(l, n)
  <2>1. CASE n = d
    BY <1>2, <1>3, <1>4, <1>5, <1>n, <2>1 DEF NamedAt
  <2>2. CASE n # d
    <3>1. n \in DOMAIN k.named /\ NamedAt(k, n) /\ l.named[n] = k.named[n]
      BY <1>5, <1>7, <2>2 DEF KeptInv
    <3>2. CASE n \in StoredDatasets
      <4>1. LocalPath(n) # LocalPath(d) /\ CloudPath(n) \notin DOMAIN CloudFiles(d)
        BY <2>2, <3>2, DatasetsApart, CloudPlaces
      <4> QED
        BY <1>1, <1>2, <1>3, <1>4, <3>1, <3>2, <4>1 DEF NamedAt
    <3>3. CASE n \notin StoredDatasets
      <4>1. PICK f \in FeatureIds :
         /\ n = <<f>>
         /\ \/ \E dir \in FeatureFolders :
                 LET path == <<"storage", "features", dir, f, "features">> IN
                 k.named[n] = path /\ path \in DOMAIN k.disk /\ k.disk[path] = <<n, "features">>
            \/ \E kind \in FeatureKinds :
                 LET path == <<"features", "features", kind, f, "features">> IN
                 /\ k.named[n] = <<"features", kind, f, "features">>
                 /\ path \in DOMAIN k.blobs /\ k.blobs[path] = <<n, "features">>
        BY <3>1, <3>3 DEF NamedAt
      <4>2. CASE \E dir \in FeatureFolders :
                 LET path == <<"storage", "features", dir, f, "features">> IN
                 k.named[n] = path /\ path \in DOMAIN k.disk /\ k.disk[path] = <<n, "features">>
        <5>1. PICK dir \in FeatureFolders :
                 LET path == <<"storage", "features", dir, f, "features">> IN
                 k.named[n] = path /\ path \in DOMAIN k.disk /\ k.disk[path] = <<n, "features">>
          BY <4>2
        <5>2. <<"storage", "features", dir, f, "features">> # LocalPath(d)
          BY LocalPlace
        <5> QED
          BY <1>2, <1>3, <1>4, <3>1, <3>3, <4>1, <5>1, <5>2 DEF NamedAt
      <4>3. CASE \E kind \in FeatureKinds :
                 LET path == <<"features", "features", kind, f, "features">> IN
                 /\ k.named[n] = <<"features", kind, f, "features">>
                 /\ path \in DOMAIN k.blobs /\ k.blobs[path] = <<n, "features">>
        <5>1. PICK kind \in FeatureKinds :
                 LET path == <<"features", "features", kind, f, "features">> IN
                 /\ k.named[n] = <<"features", kind, f, "features">>
                 /\ path \in DOMAIN k.blobs /\ k.blobs[path] = <<n, "features">>
          BY <4>3
        <5>2. <<"features", "features", kind, f, "features">> \notin DOMAIN laid
          BY <1>1
        <5> QED
          BY <1>3, <1>4, <3>1, <3>3, <4>1, <5>1, <5>2 DEF NamedAt
      <4> QED
        BY <4>1, <4>2, <4>3
    <3> QED
      BY <3>2, <3>3
  <2> QED
    BY <2>1, <2>2
<1>8. DatasetFiles(l)
  <2> SUFFICES ASSUME NEW e \in StoredDatasets
               PROVE /\ \A p \in DOMAIN l.blobs : l.blobs[p][1] = e =>
                          /\ p \in DOMAIN CloudFiles(e)
                          /\ e \in l.stranded \/ (e \in DOMAIN l.named /\ l.named[e] = CloudPath(e))
                     /\ \A p \in DOMAIN l.disk : l.disk[p][1] = e =>
                          p = LocalPath(e) /\ e \in DOMAIN l.named /\ l.named[e] = LocalPath(e)
    BY DEF DatasetFiles
  <2>0. /\ \A p \in DOMAIN k.blobs : k.blobs[p][1] = e =>
             /\ p \in DOMAIN CloudFiles(e)
             /\ e \in k.stranded \/ (e \in DOMAIN k.named /\ k.named[e] = CloudPath(e))
        /\ \A p \in DOMAIN k.disk : k.disk[p][1] = e =>
             p = LocalPath(e) /\ e \in DOMAIN k.named /\ k.named[e] = LocalPath(e)
    BY DEF DatasetFiles, KeptInv
  <2>1. ASSUME NEW p \in DOMAIN l.blobs, l.blobs[p][1] = e
        PROVE /\ p \in DOMAIN CloudFiles(e)
              /\ e \in l.stranded \/ (e \in DOMAIN l.named /\ l.named[e] = CloudPath(e))
    <3>1. CASE p \in DOMAIN laid
      BY <1>1, <1>4, <1>5, <1>n, <2>1, <3>1
    <3>2. CASE p \notin DOMAIN laid
      <4>1. p \in DOMAIN k.blobs /\ k.blobs[p][1] = e
        BY <1>3, <1>4, <2>1, <3>2
      <4> QED
        BY <1>5, <2>0, <4>1
    <3> QED
      BY <3>1, <3>2
  <2>2. ASSUME NEW p \in DOMAIN l.disk, l.disk[p][1] = e
        PROVE p = LocalPath(e) /\ e \in DOMAIN l.named /\ l.named[e] = LocalPath(e)
    <3>1. CASE p \in DOMAIN more
      BY <1>2, <1>4, <1>5, <1>n, <2>2, <3>1
    <3>2. CASE p \notin DOMAIN more
      <4>1. p \in DOMAIN k.disk /\ k.disk[p][1] = e
        BY <1>3, <1>4, <2>2, <3>2
      <4> QED
        BY <1>5, <2>0, <4>1
    <3> QED
      BY <3>1, <3>2
  <2> QED
    BY <2>1, <2>2
<1>9. FeatureFiles(l)
  <2>1. \A dir, f : <<"storage", "features", dir, f, "features">> \notin DOMAIN more
    BY <1>2
  <2> QED
    BY <1>3, <1>4, <2>1 DEF FeatureFiles, KeptInv
<1>10. ModelFiles(l) /\ \A n \in DOMAIN l.models : RowAt(l, l.models[n])
  <2>1. ASSUME NEW j \in ModelJobs, NEW c \in BOOLEAN, NEW part \in PartNames
        PROVE /\ (ModelPath(j, c, part) \in DOMAIN StoreOf(l, c)) <=> (ModelPath(j, c, part) \in DOMAIN StoreOf(k, c))
              /\ ModelPath(j, c, part) \in DOMAIN StoreOf(k, c) =>
                   StoreOf(l, c)[ModelPath(j, c, part)] = StoreOf(k, c)[ModelPath(j, c, part)]
    BY <1>1, <1>2, <1>3, <1>4, ModelPlace DEF StoreOf
  <2> QED
    BY <2>1, ModelsUntouched DEF KeptInv
<1> QED
  BY <1>5, <1>6, <1>7, <1>8, <1>9, <1>10 DEF KeptInv

LEMMA FeaturesSaved ==
  ASSUME NEW k, KeptInv(k), NEW l, KeptShape(l), NEW f \in FeatureIds, NEW laid, NEW more, NEW target,
         <<f>> \notin DOMAIN k.named,
         Grown(k.blobs, l.blobs, laid), Grown(k.disk, l.disk, more), Grown(k.named, l.named, File(<<f>>, target)),
         \A p \in DOMAIN laid : \E kind \in FeatureKinds, part \in CloudParts :
           p = <<"features", "features", kind, f, part>> /\ laid[p] = <<<<f>>, part>>,
         \A p \in DOMAIN more : \E dir \in FeatureFolders, part \in CloudParts :
           p = <<"storage", "features", dir, f, part>> /\ more[p] = <<<<f>>, part>>,
         \/ \E dir \in FeatureFolders :
              /\ target = <<"storage", "features", dir, f, "features">>
              /\ target \in DOMAIN more /\ laid = NoFiles
         \/ \E kind \in FeatureKinds :
              /\ target = <<"features", kind, f, "features">>
              /\ <<"features", "features", kind, f, "features">> \in DOMAIN laid /\ more = NoFiles,
         l.models = k.models, l.tries = k.tries, l.gone = k.gone, l.stranded = k.stranded
  PROVE KeptInv(l)
<1>1. \A p \in DOMAIN laid : p[1] = "features" /\ p[4] = f /\ laid[p][1] = <<f>>
  OBVIOUS
<1>2. \A p \in DOMAIN more : p[1] = "storage" /\ p[2] = "features" /\ p[4] = f /\ more[p][1] = <<f>>
  OBVIOUS
<1>3. /\ \A p : p \in DOMAIN l.blobs <=> p \in DOMAIN k.blobs \/ p \in DOMAIN laid
      /\ \A p : p \in DOMAIN l.disk <=> p \in DOMAIN k.disk \/ p \in DOMAIN more
  BY DEF Grown
<1>4. /\ \A p : p \in DOMAIN laid => l.blobs[p] = laid[p]
      /\ \A p : p \in DOMAIN k.blobs /\ p \notin DOMAIN laid => l.blobs[p] = k.blobs[p]
      /\ \A p : p \in DOMAIN more => l.disk[p] = more[p]
      /\ \A p : p \in DOMAIN k.disk /\ p \notin DOMAIN more => l.disk[p] = k.disk[p]
  BY DEF Grown
<1>m. DOMAIN File(<<f>>, target) = {<<f>>} /\ File(<<f>>, target)[<<f>>] = target
  BY FileLies
<1>5. /\ DOMAIN l.named = DOMAIN k.named \cup {<<f>>}
      /\ l.named[<<f>>] = target
      /\ \A n \in DOMAIN k.named : l.named[n] = k.named[n]
  BY <1>m DEF Grown
<1>6. <<f>> \notin StoredDatasets
  BY BlobAssumption DEF StoredDatasets
<1>7. \A kind, dir :
        /\ <<"storage", "features", dir, f, "features">> \in DOMAIN more
             => more[<<"storage", "features", dir, f, "features">>] = <<<<f>>, "features">>
        /\ <<"features", "features", kind, f, "features">> \in DOMAIN laid
             => laid[<<"features", "features", kind, f, "features">>] = <<<<f>>, "features">>
  OBVIOUS
<1>8. StoresOK(l)
  BY <1>1, <1>2, <1>3 DEF StoresOK, KeptInv
<1>9. ASSUME NEW n \in DOMAIN l.named PROVE NamedAt(l, n)
  <2>1. CASE n = <<f>>
    <3>1. CASE \E dir \in FeatureFolders :
              /\ target = <<"storage", "features", dir, f, "features">>
              /\ target \in DOMAIN more /\ laid = NoFiles
      BY <1>3, <1>4, <1>5, <1>6, <1>7, <2>1, <3>1 DEF NamedAt
    <3>2. CASE \E kind \in FeatureKinds :
              /\ target = <<"features", kind, f, "features">>
              /\ <<"features", "features", kind, f, "features">> \in DOMAIN laid /\ more = NoFiles
      BY <1>3, <1>4, <1>5, <1>6, <1>7, <2>1, <3>2, SMTT(20) DEF NamedAt
    <3> QED
      BY <3>1, <3>2
  <2>2. CASE n # <<f>>
    <3>1. n \in DOMAIN k.named /\ NamedAt(k, n) /\ l.named[n] = k.named[n]
      BY <1>5, <1>9, <2>2 DEF KeptInv
    <3>2. CASE n \in StoredDatasets
      <4>1. LocalPath(n) \notin DOMAIN more /\ CloudPath(n) \notin DOMAIN laid
        BY <1>1, <1>2, <3>2, LocalPlace, CloudPlace
      <4> QED
        BY <1>3, <1>4, <3>1, <3>2, <4>1 DEF NamedAt
    <3>3. CASE n \notin StoredDatasets
      <4>1. PICK g \in FeatureIds :
         /\ n = <<g>>
         /\ \/ \E dir \in FeatureFolders :
                 LET path == <<"storage", "features", dir, g, "features">> IN
                 k.named[n] = path /\ path \in DOMAIN k.disk /\ k.disk[path] = <<n, "features">>
            \/ \E kind \in FeatureKinds :
                 LET path == <<"features", "features", kind, g, "features">> IN
                 /\ k.named[n] = <<"features", kind, g, "features">>
                 /\ path \in DOMAIN k.blobs /\ k.blobs[path] = <<n, "features">>
        BY <3>1, <3>3 DEF NamedAt
      <4>2. g # f
        BY <2>2, <4>1
      <4>3. CASE \E dir \in FeatureFolders :
                 LET path == <<"storage", "features", dir, g, "features">> IN
                 k.named[n] = path /\ path \in DOMAIN k.disk /\ k.disk[path] = <<n, "features">>
        <5>1. PICK dir \in FeatureFolders :
                 LET path == <<"storage", "features", dir, g, "features">> IN
                 k.named[n] = path /\ path \in DOMAIN k.disk /\ k.disk[path] = <<n, "features">>
          BY <4>3
        <5>2. <<"storage", "features", dir, g, "features">> \notin DOMAIN more
          BY <1>2, <4>2
        <5> QED
          BY <1>3, <1>4, <3>1, <3>3, <4>1, <5>1, <5>2, SMTT(20) DEF NamedAt
      <4>4. CASE \E kind \in FeatureKinds :
                 LET path == <<"features", "features", kind, g, "features">> IN
                 /\ k.named[n] = <<"features", kind, g, "features">>
                 /\ path \in DOMAIN k.blobs /\ k.blobs[path] = <<n, "features">>
        <5>1. PICK kind \in FeatureKinds :
                 LET path == <<"features", "features", kind, g, "features">> IN
                 /\ k.named[n] = <<"features", kind, g, "features">>
                 /\ path \in DOMAIN k.blobs /\ k.blobs[path] = <<n, "features">>
          BY <4>4
        <5>2. <<"features", "features", kind, g, "features">> \notin DOMAIN laid
          BY <1>1, <4>2
        <5> QED
          BY <1>3, <1>4, <3>1, <3>3, <4>1, <5>1, <5>2, SMTT(20) DEF NamedAt
      <4> QED
        BY <4>1, <4>3, <4>4
    <3> QED
      BY <3>2, <3>3
  <2> QED
    BY <2>1, <2>2
<1>10. DatasetFiles(l)
  <2> SUFFICES ASSUME NEW e \in StoredDatasets
               PROVE /\ \A p \in DOMAIN l.blobs : l.blobs[p][1] = e =>
                          /\ p \in DOMAIN CloudFiles(e)
                          /\ e \in l.stranded \/ (e \in DOMAIN l.named /\ l.named[e] = CloudPath(e))
                     /\ \A p \in DOMAIN l.disk : l.disk[p][1] = e =>
                          p = LocalPath(e) /\ e \in DOMAIN l.named /\ l.named[e] = LocalPath(e)
    BY DEF DatasetFiles
  <2>0. /\ \A p \in DOMAIN k.blobs : k.blobs[p][1] = e =>
             /\ p \in DOMAIN CloudFiles(e)
             /\ e \in k.stranded \/ (e \in DOMAIN k.named /\ k.named[e] = CloudPath(e))
        /\ \A p \in DOMAIN k.disk : k.disk[p][1] = e =>
             p = LocalPath(e) /\ e \in DOMAIN k.named /\ k.named[e] = LocalPath(e)
    BY DEF DatasetFiles, KeptInv
  <2>1. e # <<f>>
    BY <1>6
  <2>2. /\ \A p \in DOMAIN l.blobs : l.blobs[p][1] = e => p \in DOMAIN k.blobs /\ k.blobs[p][1] = e
        /\ \A p \in DOMAIN l.disk : l.disk[p][1] = e => p \in DOMAIN k.disk /\ k.disk[p][1] = e
    BY <1>1, <1>2, <1>3, <1>4, <2>1
  <2> QED
    BY <1>5, <2>0, <2>2
<1>11. FeatureFiles(l)
  <2> SUFFICES ASSUME NEW dir \in FeatureFolders \cup FeatureKinds, NEW g \in FeatureIds,
                      <<"storage", "features", dir, g, "features">> \in DOMAIN l.disk
               PROVE l.disk[<<"storage", "features", dir, g, "features">>] = <<<<g>>, "features">>
    BY DEF FeatureFiles
  <2>1. CASE <<"storage", "features", dir, g, "features">> \in DOMAIN more
    <3>1. g = f
      BY <1>2, <2>1
    <3> QED
      BY <1>4, <1>7, <2>1, <3>1
  <2>2. CASE <<"storage", "features", dir, g, "features">> \notin DOMAIN more
    BY <1>3, <1>4, <2>2 DEF FeatureFiles, KeptInv
  <2> QED
    BY <2>1, <2>2
<1>12. ModelFiles(l) /\ \A n \in DOMAIN l.models : RowAt(l, l.models[n])
  <2>1. ASSUME NEW j \in ModelJobs, NEW c \in BOOLEAN, NEW part \in PartNames
        PROVE /\ (ModelPath(j, c, part) \in DOMAIN StoreOf(l, c)) <=> (ModelPath(j, c, part) \in DOMAIN StoreOf(k, c))
              /\ ModelPath(j, c, part) \in DOMAIN StoreOf(k, c) =>
                   StoreOf(l, c)[ModelPath(j, c, part)] = StoreOf(k, c)[ModelPath(j, c, part)]
    BY <1>1, <1>2, <1>3, <1>4, ModelPlace DEF StoreOf
  <2> QED
    BY <2>1, ModelsUntouched DEF KeptInv
<1>13. l.gone \cap DOMAIN l.named \cap StoredDatasets = {}
  BY <1>5, <1>6 DEF KeptInv
<1> QED
  BY <1>8, <1>9, <1>10, <1>11, <1>12, <1>13 DEF KeptInv

\* What is no model's is untouched when the changed files are models'.
LEMMA OthersUntouched ==
  ASSUME NEW k, KeptInv(k), NEW l, l.named = k.named, l.stranded = k.stranded,
         \A p : p[1] # "models" =>
           /\ p \in DOMAIN l.blobs <=> p \in DOMAIN k.blobs
           /\ p \in DOMAIN k.blobs => l.blobs[p] = k.blobs[p],
         \A p : p[2] # "models" =>
           /\ p \in DOMAIN l.disk <=> p \in DOMAIN k.disk
           /\ p \in DOMAIN k.disk => l.disk[p] = k.disk[p],
         \A p \in DOMAIN l.blobs : l.blobs[p][1] \in StoredDatasets =>
           p \in DOMAIN k.blobs /\ l.blobs[p] = k.blobs[p],
         \A p \in DOMAIN l.disk : l.disk[p][1] \in StoredDatasets =>
           p \in DOMAIN k.disk /\ l.disk[p] = k.disk[p]
  PROVE (\A n \in DOMAIN l.named : NamedAt(l, n)) /\ DatasetFiles(l) /\ FeatureFiles(l)
<1>1. ASSUME NEW n \in DOMAIN l.named PROVE NamedAt(l, n)
  <2>1. NamedAt(k, n)
    BY <1>1 DEF KeptInv
  <2>2. CASE n \in StoredDatasets
    <3>1. LocalPath(n)[2] # "models" /\ CloudPath(n)[1] # "models"
      BY <2>2, LocalPlace, CloudPlace
    <3> QED
      BY <2>1, <2>2, <3>1 DEF NamedAt
  <2>3. CASE n \notin StoredDatasets
    <3>1. PICK f \in FeatureIds :
            /\ n = <<f>>
            /\ \/ \E dir \in FeatureFolders :
                    LET path == <<"storage", "features", dir, f, "features">> IN
                    k.named[n] = path /\ path \in DOMAIN k.disk /\ k.disk[path] = <<n, "features">>
               \/ \E kind \in FeatureKinds :
                    LET path == <<"features", "features", kind, f, "features">> IN
                    /\ k.named[n] = <<"features", kind, f, "features">>
                    /\ path \in DOMAIN k.blobs /\ k.blobs[path] = <<n, "features">>
      BY <2>1, <2>3 DEF NamedAt
    <3>2. \A dir : LET path == <<"storage", "features", dir, f, "features">> IN
                   path \in DOMAIN k.disk => path \in DOMAIN l.disk /\ l.disk[path] = k.disk[path]
      <4>1. \A dir : <<"storage", "features", dir, f, "features">>[2] # "models"
        OBVIOUS
      <4> QED
        BY <4>1
    <3>3. \A kind : LET path == <<"features", "features", kind, f, "features">> IN
                    path \in DOMAIN k.blobs => path \in DOMAIN l.blobs /\ l.blobs[path] = k.blobs[path]
      <4>1. \A kind : <<"features", "features", kind, f, "features">>[1] # "models"
        OBVIOUS
      <4> QED
        BY <4>1
    <3> QED
      BY <2>3, <3>1, <3>2, <3>3, ZenonT(40) DEF NamedAt
  <2> QED
    BY <2>2, <2>3
<1>2. DatasetFiles(l)
  BY DEF DatasetFiles, KeptInv
<1>3. FeatureFiles(l)
  <2>1. \A dir, f : <<"storage", "features", dir, f, "features">>[2] # "models"
    OBVIOUS
  <2> QED
    BY <2>1 DEF FeatureFiles, KeptInv
<1> QED
  BY <1>1, <1>2, <1>3

\* The files of a try in either store, and the row it registers.
BlobsOfTry(laid, j, parts, try) ==
  \A p \in DOMAIN laid : \E part \in parts : p = <<"models", j, part>> /\ laid[p] = <<<<j>>, part, try>>
DiskOfTry(laid, j, parts, try) ==
  \A p \in DOMAIN laid : \E part \in parts :
    p = <<"storage", "models", j, part>> /\ laid[p] = <<<<j>>, part, try>>
RowOfTry(row, j, parts, try, laid, more) ==
  /\ row.job = j /\ row.try = try /\ row.cloud \in BOOLEAN /\ row.parts = parts
  /\ row.path = ModelPath(j, row.cloud, "model")
  /\ \A part \in parts :
       /\ row.cloud => ModelPath(j, row.cloud, part) \in DOMAIN laid
       /\ ~row.cloud => ModelPath(j, row.cloud, part) \in DOMAIN more

\* A try stores parts of its model, and a row if it stored them all.
LEMMA ModelSaved ==
  ASSUME NEW k, KeptInv(k), NEW l, KeptShape(l), NEW j \in ModelJobs, NEW parts \in SUBSET PartNames,
         NEW laid, NEW more, NEW row,
         Grown(k.blobs, l.blobs, laid), Grown(k.disk, l.disk, more),
         BlobsOfTry(laid, j, parts, k.tries[j] + 1), DiskOfTry(more, j, parts, k.tries[j] + 1),
         l.tries = [k.tries EXCEPT ![j] = k.tries[j] + 1],
         \/ l.models = k.models
         \/ l.models = Append(k.models, row) /\ RowOfTry(row, j, parts, k.tries[j] + 1, laid, more),
         l.named = k.named, l.gone = k.gone, l.stranded = k.stranded
  PROVE KeptInv(l)
<1>a. /\ \A p \in DOMAIN laid : \E part \in parts :
           p = <<"models", j, part>> /\ laid[p] = <<<<j>>, part, k.tries[j] + 1>>
      /\ \A p \in DOMAIN more : \E part \in parts :
           p = <<"storage", "models", j, part>> /\ more[p] = <<<<j>>, part, k.tries[j] + 1>>
  BY DEF BlobsOfTry, DiskOfTry
<1>b. /\ \A p \in DOMAIN laid : laid[p][3] = k.tries[j] + 1
      /\ \A p \in DOMAIN more : more[p][3] = k.tries[j] + 1
  BY <1>a
<1>1. \A p \in DOMAIN laid : p[1] = "models" /\ laid[p][1] = <<j>>
  BY <1>a
<1>2. \A p \in DOMAIN more : p[1] = "storage" /\ p[2] = "models" /\ more[p][1] = <<j>>
  BY <1>a
<1>3. /\ \A p : p \in DOMAIN l.blobs <=> p \in DOMAIN k.blobs \/ p \in DOMAIN laid
      /\ \A p : p \in DOMAIN l.disk <=> p \in DOMAIN k.disk \/ p \in DOMAIN more
  BY DEF Grown
<1>4. /\ \A p : p \in DOMAIN laid => l.blobs[p] = laid[p]
      /\ \A p : p \in DOMAIN k.blobs /\ p \notin DOMAIN laid => l.blobs[p] = k.blobs[p]
      /\ \A p : p \in DOMAIN more => l.disk[p] = more[p]
      /\ \A p : p \in DOMAIN k.disk /\ p \notin DOMAIN more => l.disk[p] = k.disk[p]
  BY DEF Grown
<1>5. <<j>> \notin StoredDatasets
  BY BlobAssumption DEF StoredDatasets
<1>6. (\A n \in DOMAIN l.named : NamedAt(l, n)) /\ DatasetFiles(l) /\ FeatureFiles(l)
  <2>1. /\ \A p \in DOMAIN l.blobs : l.blobs[p][1] \in StoredDatasets =>
             p \in DOMAIN k.blobs /\ l.blobs[p] = k.blobs[p]
        /\ \A p \in DOMAIN l.disk : l.disk[p][1] \in StoredDatasets =>
             p \in DOMAIN k.disk /\ l.disk[p] = k.disk[p]
    BY <1>1, <1>2, <1>3, <1>4, <1>5
  <2>2. /\ \A p : p[1] # "models" =>
             /\ p \in DOMAIN l.blobs <=> p \in DOMAIN k.blobs
             /\ p \in DOMAIN k.blobs => l.blobs[p] = k.blobs[p]
        /\ \A p : p[2] # "models" =>
             /\ p \in DOMAIN l.disk <=> p \in DOMAIN k.disk
             /\ p \in DOMAIN k.disk => l.disk[p] = k.disk[p]
    BY <1>1, <1>2, <1>3, <1>4
  <2> QED
    BY <2>1, <2>2, OthersUntouched
<1>7. StoresOK(l)
  BY <1>1, <1>2, <1>3 DEF StoresOK, KeptInv
<1>8. /\ k.tries \in [ModelJobs -> Nat] /\ l.tries[j] = k.tries[j] + 1
      /\ \A i \in ModelJobs : l.tries[i] >= k.tries[i] /\ (i # j => l.tries[i] = k.tries[i])
  BY DEF KeptInv, KeptShape
\* What the files of a job are after the try.
<1>9. ASSUME NEW i \in ModelJobs, NEW c \in BOOLEAN, NEW part \in PartNames,
             ModelPath(i, c, part) \in DOMAIN StoreOf(l, c)
      PROVE \/ /\ ModelPath(i, c, part) \in DOMAIN StoreOf(k, c)
               /\ StoreOf(l, c)[ModelPath(i, c, part)] = StoreOf(k, c)[ModelPath(i, c, part)]
            \/ i = j /\ StoreOf(l, c)[ModelPath(i, c, part)] = <<<<j>>, part, k.tries[j] + 1>>
  <2> DEFINE p == ModelPath(i, c, part)
  <2>1. CASE c
    <3>0. p = <<"models", i, part>>
      BY <2>1 DEF ModelPath
    <3>1. p = <<"models", i, part>> /\ StoreOf(l, c) = l.blobs /\ StoreOf(k, c) = k.blobs
      BY <2>1, <3>0, Zenon DEF StoreOf
    <3>2. CASE p \in DOMAIN laid
      <4>1. PICK q \in parts : p = <<"models", j, q>> /\ laid[p] = <<<<j>>, q, k.tries[j] + 1>>
        BY <1>a, <3>2
      <4>2. i = j /\ q = part
        BY <3>1, <4>1
      <4>3. StoreOf(l, c)[p] = laid[p]
        BY <1>4, <3>1, <3>2
      <4> QED
        BY <4>1, <4>2, <4>3
    <3>3. CASE p \notin DOMAIN laid
      BY <1>3, <1>4, <1>9, <3>1, <3>3
    <3> QED
      BY <3>2, <3>3
  <2>2. CASE ~c
    <3>1. p = <<"storage", "models", i, part>> /\ StoreOf(l, c) = l.disk /\ StoreOf(k, c) = k.disk
      BY <2>2, ModelPlace DEF StoreOf
    <3>2. CASE p \in DOMAIN more
      <4>1. PICK q \in parts : p = <<"storage", "models", j, q>> /\ more[p] = <<<<j>>, q, k.tries[j] + 1>>
        BY <1>a, <3>2
      <4>2. i = j /\ q = part
        BY <3>1, <4>1
      <4>3. StoreOf(l, c)[p] = more[p]
        BY <1>4, <3>1, <3>2
      <4> QED
        BY <4>1, <4>2, <4>3
    <3>3. CASE p \notin DOMAIN more
      BY <1>3, <1>4, <1>9, <3>1, <3>3
    <3> QED
      BY <3>2, <3>3
  <2> QED
    BY <2>1, <2>2
<1>10. ModelFiles(l)
  <2> SUFFICES ASSUME NEW i \in ModelJobs, NEW c \in BOOLEAN, NEW part \in PartNames,
                      ModelPath(i, c, part) \in DOMAIN StoreOf(l, c)
               PROVE /\ StoreOf(l, c)[ModelPath(i, c, part)]
                          = <<<<i>>, part, StoreOf(l, c)[ModelPath(i, c, part)][3]>>
                     /\ StoreOf(l, c)[ModelPath(i, c, part)][3] \in 1..l.tries[i]
    BY DEF ModelFiles
  <2>1. CASE /\ ModelPath(i, c, part) \in DOMAIN StoreOf(k, c)
             /\ StoreOf(l, c)[ModelPath(i, c, part)] = StoreOf(k, c)[ModelPath(i, c, part)]
    <3>1. /\ StoreOf(k, c)[ModelPath(i, c, part)]
               = <<<<i>>, part, StoreOf(k, c)[ModelPath(i, c, part)][3]>>
          /\ StoreOf(k, c)[ModelPath(i, c, part)][3] \in 1..k.tries[i]
      BY <2>1 DEF KeptInv, ModelFiles
    <3>2. k.tries[i] \in Nat /\ l.tries[i] \in Nat
      BY DEF KeptInv, KeptShape
    <3> QED
      BY <1>8, <2>1, <3>1, <3>2
  <2>2. CASE i = j /\ StoreOf(l, c)[ModelPath(i, c, part)] = <<<<j>>, part, k.tries[j] + 1>>
    <3>1. k.tries[j] \in Nat
      BY <1>8
    <3> QED
      BY <1>8, <2>2, <3>1
  <2> QED
    BY <1>9, <2>1, <2>2
\* A file only gets newer.
<1>11. ASSUME NEW i \in ModelJobs, NEW c \in BOOLEAN, NEW part \in PartNames,
              ModelPath(i, c, part) \in DOMAIN StoreOf(k, c)
       PROVE /\ ModelPath(i, c, part) \in DOMAIN StoreOf(l, c)
             /\ StoreOf(l, c)[ModelPath(i, c, part)][3] >= StoreOf(k, c)[ModelPath(i, c, part)][3]
  <2>1. ModelPath(i, c, part) \in DOMAIN StoreOf(l, c)
    BY <1>3, <1>11 DEF StoreOf
  <2>2. StoreOf(k, c)[ModelPath(i, c, part)][3] \in 1..k.tries[i] /\ k.tries[i] \in Nat
    BY <1>8, <1>11 DEF KeptInv, ModelFiles
  <2> QED
    BY <1>9, <2>1, <2>2
<1>12. ASSUME NEW r, RowAt(k, r) PROVE RowAt(l, r)
  <2>1. /\ r.job \in ModelJobs /\ r.try \in 1..k.tries[r.job] /\ r.cloud \in BOOLEAN
        /\ r.parts \subseteq PartNames /\ r.path = ModelPath(r.job, r.cloud, "model")
    BY <1>12 DEF RowAt
  <2>2. r.try \in 1..l.tries[r.job]
    <3>1. k.tries[r.job] \in Nat /\ l.tries[r.job] \in Nat
      BY <2>1 DEF KeptInv, KeptShape
    <3> QED
      BY <1>8, <2>1, <3>1
  <2>3. ASSUME NEW part \in r.parts
        PROVE IF ModelPath(r.job, r.cloud, part) \in DOMAIN StoreOf(l, r.cloud)
              THEN StoreOf(l, r.cloud)[ModelPath(r.job, r.cloud, part)][3] >= r.try ELSE <<r.job>> \in l.gone
    <3>1. part \in PartNames
      BY <2>1
    <3>2. CASE ModelPath(r.job, r.cloud, part) \in DOMAIN StoreOf(k, r.cloud)
      <4>1. /\ ModelPath(r.job, r.cloud, part) \in DOMAIN StoreOf(l, r.cloud)
            /\ StoreOf(l, r.cloud)[ModelPath(r.job, r.cloud, part)][3]
                 >= StoreOf(k, r.cloud)[ModelPath(r.job, r.cloud, part)][3]
        BY <1>11, <2>1, <3>1, <3>2
      <4>2. /\ StoreOf(k, r.cloud)[ModelPath(r.job, r.cloud, part)][3] >= r.try
            /\ StoreOf(k, r.cloud)[ModelPath(r.job, r.cloud, part)][3] \in 1..k.tries[r.job]
            /\ StoreOf(l, r.cloud)[ModelPath(r.job, r.cloud, part)][3] \in 1..l.tries[r.job]
        BY <1>10, <1>12, <2>1, <3>1, <3>2, <4>1 DEF RowAt, KeptInv, ModelFiles
      <4> QED
        BY <2>1, <4>1, <4>2
    <3>3. CASE ModelPath(r.job, r.cloud, part) \notin DOMAIN StoreOf(k, r.cloud)
      <4>1. <<r.job>> \in l.gone
        BY <1>12, <3>3 DEF RowAt
      <4>2. ASSUME ModelPath(r.job, r.cloud, part) \in DOMAIN StoreOf(l, r.cloud)
            PROVE StoreOf(l, r.cloud)[ModelPath(r.job, r.cloud, part)][3] >= r.try
        <5>1. r.job = j /\ StoreOf(l, r.cloud)[ModelPath(r.job, r.cloud, part)] = <<<<j>>, part, k.tries[j] + 1>>
          BY <1>9, <2>1, <3>1, <3>3, <4>2
        <5> QED
          BY <1>8, <2>1, <5>1
      <4> QED
        BY <4>1, <4>2
    <3> QED
      BY <3>2, <3>3
  <2> QED
    BY <2>1, <2>2, <2>3 DEF RowAt
<1>13. ASSUME NEW n \in DOMAIN l.models PROVE RowAt(l, l.models[n])
  <2>1. PICK some : k.models \in Seq(some)
    BY DEF KeptInv, KeptShape
  <2>2. CASE n \in DOMAIN k.models /\ l.models[n] = k.models[n]
    BY <1>12, <2>2 DEF KeptInv
  <2>3. CASE l.models[n] = row /\ l.models # k.models
    <3>1. /\ row.job = j /\ row.try = k.tries[j] + 1 /\ row.cloud \in BOOLEAN /\ row.parts = parts
          /\ row.path = ModelPath(j, row.cloud, "model")
      BY <2>3 DEF RowOfTry
    <3>2. ASSUME NEW part \in parts
          PROVE /\ ModelPath(j, row.cloud, part) \in DOMAIN StoreOf(l, row.cloud)
                /\ StoreOf(l, row.cloud)[ModelPath(j, row.cloud, part)][3] = k.tries[j] + 1
      <4>1. /\ row.cloud => ModelPath(j, row.cloud, part) \in DOMAIN laid
            /\ ~row.cloud => ModelPath(j, row.cloud, part) \in DOMAIN more
        BY <2>3 DEF RowOfTry
      <4>2. CASE row.cloud
        <5>1. StoreOf(l, row.cloud) = l.blobs /\ ModelPath(j, row.cloud, part) \in DOMAIN laid
          BY <4>1, <4>2 DEF StoreOf
        <5> QED
          BY <1>b, <1>3, <1>4, <5>1
      <4>3. CASE ~row.cloud
        <5>1. StoreOf(l, row.cloud) = l.disk /\ ModelPath(j, row.cloud, part) \in DOMAIN more
          BY <4>1, <4>3 DEF StoreOf
        <5> QED
          BY <1>b, <1>3, <1>4, <5>1
      <4> QED
        BY <3>1, <4>2, <4>3
    <3>3. k.tries[j] + 1 \in 1..l.tries[j] /\ k.tries[j] \in Nat
      BY <1>8
    <3> QED
      BY <2>3, <3>1, <3>2, <3>3 DEF RowAt
  <2>4. \/ n \in DOMAIN k.models /\ l.models[n] = k.models[n]
        \/ l.models[n] = row /\ l.models # k.models
    <3>1. CASE l.models = k.models
      BY <1>13, <3>1
    <3>2. CASE l.models = Append(k.models, row)
      <4>1. /\ DOMAIN l.models = 1..(Len(k.models) + 1) /\ DOMAIN k.models = 1..Len(k.models)
            /\ l.models[Len(k.models) + 1] = row
            /\ \A m \in 1..Len(k.models) : l.models[m] = k.models[m]
            /\ l.models # k.models /\ Len(k.models) \in Nat
        BY <2>1, <3>2
      <4> QED
        BY <1>13, <4>1
    <3> QED
      BY <3>1, <3>2
  <2> QED
    BY <2>2, <2>3, <2>4
<1> QED
  BY <1>6, <1>7, <1>10, <1>13 DEF KeptInv

\* A store that lost files.
Shrunk(old, new, lost) ==
  /\ DOMAIN new = DOMAIN old \ lost
  /\ \A p \in DOMAIN new : new[p] = old[p]

\* What lies in the folders of a dataset, and what its removal takes.
BlobsOf(d, lost) == \A p \in lost : p[1] = "datasets" /\ p[3] = d[1] /\ (d[1] \in SplitIds => p[4] = d[2])
DiskOf(d, loose) ==
  \A p \in loose : p[1] = "storage" /\ p[2] = "datasets" /\ p[3] = d[1] /\ (d[1] \in SplitIds => p[4] = d[2])
Taken(k, d, lost, loose, stranded) ==
  \/ k.named[d] = LocalPath(d) /\ LocalPath(d) \in loose
  \/ k.named[d] = CloudPath(d) /\ \A p \in DOMAIN CloudFiles(d) : p \in DOMAIN k.blobs => p \in lost
  \/ k.named[d] = CloudPath(d) /\ d \in stranded

LEMMA DatasetRemoved ==
  ASSUME NEW k, KeptInv(k), NEW l, KeptShape(l), NEW d \in StoredDatasets, d \in DOMAIN k.named,
         NEW lost, NEW loose,
         Shrunk(k.blobs, l.blobs, lost), Shrunk(k.disk, l.disk, loose), Shrunk(k.named, l.named, {d}),
         BlobsOf(d, lost), DiskOf(d, loose), Taken(k, d, lost, loose, l.stranded),
         l.models = k.models, l.tries = k.tries, l.gone = k.gone \cup {d}, k.stranded \subseteq l.stranded
  PROVE KeptInv(l)
<1>a. /\ \A p \in lost : p[1] = "datasets" /\ p[3] = d[1] /\ (d[1] \in SplitIds => p[4] = d[2])
      /\ \A p \in loose :
           p[1] = "storage" /\ p[2] = "datasets" /\ p[3] = d[1] /\ (d[1] \in SplitIds => p[4] = d[2])
  BY DEF BlobsOf, DiskOf
<1>b. \/ k.named[d] = LocalPath(d) /\ LocalPath(d) \in loose
      \/ /\ k.named[d] = CloudPath(d)
         /\ \A p \in DOMAIN CloudFiles(d) : p \in DOMAIN k.blobs => p \in lost
      \/ k.named[d] = CloudPath(d) /\ d \in l.stranded
  BY DEF Taken
<1>1. /\ \A p : p \in DOMAIN l.blobs <=> p \in DOMAIN k.blobs /\ p \notin lost
      /\ \A p : p \in DOMAIN l.disk <=> p \in DOMAIN k.disk /\ p \notin loose
      /\ \A n : n \in DOMAIN l.named <=> n \in DOMAIN k.named /\ n # d
  BY DEF Shrunk
<1>2. /\ \A p \in DOMAIN l.blobs : l.blobs[p] = k.blobs[p]
      /\ \A p \in DOMAIN l.disk : l.disk[p] = k.disk[p]
      /\ \A n \in DOMAIN l.named : l.named[n] = k.named[n]
  BY DEF Shrunk
<1>3. StoresOK(l)
  BY <1>1 DEF StoresOK, KeptInv
<1>4. ASSUME NEW n \in DOMAIN l.named PROVE NamedAt(l, n)
  <2>1. n \in DOMAIN k.named /\ n # d /\ NamedAt(k, n) /\ l.named[n] = k.named[n]
    BY <1>1, <1>2 DEF KeptInv
  <2>2. CASE n \in StoredDatasets
    <3>1. n[1] = d[1] => n[1] \in SplitIds /\ d[1] \in SplitIds /\ n[2] # d[2]
      BY <2>1, <2>2, DatasetShape
    <3>2. LocalPath(n) \notin loose /\ CloudPath(n) \notin lost
      BY <1>a, <2>2, <3>1, LocalPlace, CloudPlace
    <3> QED
      BY <1>1, <1>2, <2>1, <2>2, <3>2 DEF NamedAt
  <2>3. CASE n \notin StoredDatasets
    <3>1. PICK f \in FeatureIds :
            /\ n = <<f>>
            /\ \/ \E dir \in FeatureFolders :
                    LET path == <<"storage", "features", dir, f, "features">> IN
                    k.named[n] = path /\ path \in DOMAIN k.disk /\ k.disk[path] = <<n, "features">>
               \/ \E kind \in FeatureKinds :
                    LET path == <<"features", "features", kind, f, "features">> IN
                    /\ k.named[n] = <<"features", kind, f, "features">>
                    /\ path \in DOMAIN k.blobs /\ k.blobs[path] = <<n, "features">>
      BY <2>1, <2>3 DEF NamedAt
    <3>2. \A dir : LET path == <<"storage", "features", dir, f, "features">> IN
                   path \in DOMAIN k.disk => path \in DOMAIN l.disk /\ l.disk[path] = k.disk[path]
      <4>1. \A dir : <<"storage", "features", dir, f, "features">> \notin loose
        BY <1>a
      <4> QED
        BY <1>1, <1>2, <4>1
    <3>3. \A kind : LET path == <<"features", "features", kind, f, "features">> IN
                    path \in DOMAIN k.blobs => path \in DOMAIN l.blobs /\ l.blobs[path] = k.blobs[path]
      <4>1. \A kind : <<"features", "features", kind, f, "features">> \notin lost
        BY <1>a
      <4> QED
        BY <1>1, <1>2, <4>1
    <3>5. CASE \E dir \in FeatureFolders :
                 LET path == <<"storage", "features", dir, f, "features">> IN
                 k.named[n] = path /\ path \in DOMAIN k.disk /\ k.disk[path] = <<n, "features">>
      <4>1. PICK dir \in FeatureFolders :
                 LET path == <<"storage", "features", dir, f, "features">> IN
                 k.named[n] = path /\ path \in DOMAIN k.disk /\ k.disk[path] = <<n, "features">>
        BY <3>5
      <4> QED
        BY <2>1, <2>3, <3>1, <3>2, <4>1 DEF NamedAt
    <3>6. CASE \E kind \in FeatureKinds :
                 LET path == <<"features", "features", kind, f, "features">> IN
                 /\ k.named[n] = <<"features", kind, f, "features">>
                 /\ path \in DOMAIN k.blobs /\ k.blobs[path] = <<n, "features">>
      <4>1. PICK kind \in FeatureKinds :
                 LET path == <<"features", "features", kind, f, "features">> IN
                 /\ k.named[n] = <<"features", kind, f, "features">>
                 /\ path \in DOMAIN k.blobs /\ k.blobs[path] = <<n, "features">>
        BY <3>6
      <4> QED
        BY <2>1, <2>3, <3>1, <3>3, <4>1 DEF NamedAt
    <3> QED
      BY <3>1, <3>5, <3>6
  <2> QED
    BY <2>2, <2>3
<1>5. DatasetFiles(l)
  <2> SUFFICES ASSUME NEW e \in StoredDatasets
               PROVE /\ \A p \in DOMAIN l.blobs : l.blobs[p][1] = e =>
                          /\ p \in DOMAIN CloudFiles(e)
                          /\ e \in l.stranded \/ (e \in DOMAIN l.named /\ l.named[e] = CloudPath(e))
                     /\ \A p \in DOMAIN l.disk : l.disk[p][1] = e =>
                          p = LocalPath(e) /\ e \in DOMAIN l.named /\ l.named[e] = LocalPath(e)
    BY DEF DatasetFiles
  <2>0. /\ \A p \in DOMAIN k.blobs : k.blobs[p][1] = e =>
             /\ p \in DOMAIN CloudFiles(e)
             /\ e \in k.stranded \/ (e \in DOMAIN k.named /\ k.named[e] = CloudPath(e))
        /\ \A p \in DOMAIN k.disk : k.disk[p][1] = e =>
             p = LocalPath(e) /\ e \in DOMAIN k.named /\ k.named[e] = LocalPath(e)
    BY DEF DatasetFiles, KeptInv
  <2>1. LocalPath(d) # CloudPath(d)
    BY LocalPlace, CloudPlace
  <2>2. ASSUME NEW p \in DOMAIN l.blobs, l.blobs[p][1] = e
        PROVE /\ p \in DOMAIN CloudFiles(e)
              /\ e \in l.stranded \/ (e \in DOMAIN l.named /\ l.named[e] = CloudPath(e))
    <3>1. p \in DOMAIN k.blobs /\ k.blobs[p][1] = e /\ p \notin lost
      BY <1>1, <1>2, <2>2
    <3>2. CASE e = d
      BY <1>b, <2>0, <2>1, <3>1, <3>2
    <3>3. CASE e # d
      BY <1>1, <1>2, <2>0, <3>1, <3>3
    <3> QED
      BY <3>2, <3>3
  <2>3. ASSUME NEW p \in DOMAIN l.disk, l.disk[p][1] = e
        PROVE p = LocalPath(e) /\ e \in DOMAIN l.named /\ l.named[e] = LocalPath(e)
    <3>1. p \in DOMAIN k.disk /\ k.disk[p][1] = e /\ p \notin loose
      BY <1>1, <1>2, <2>3
    <3>2. e # d
      BY <1>b, <2>0, <2>1, <3>1
    <3> QED
      BY <1>1, <1>2, <2>0, <3>1, <3>2
  <2> QED
    BY <2>2, <2>3
<1>6. FeatureFiles(l)
  BY <1>a, <1>1, <1>2 DEF FeatureFiles, KeptInv
<1>7. ModelFiles(l) /\ \A n \in DOMAIN l.models : RowAt(l, l.models[n])
  <2>1. ASSUME NEW j \in ModelJobs, NEW c \in BOOLEAN, NEW part \in PartNames
        PROVE /\ (ModelPath(j, c, part) \in DOMAIN StoreOf(l, c)) <=> (ModelPath(j, c, part) \in DOMAIN StoreOf(k, c))
              /\ ModelPath(j, c, part) \in DOMAIN StoreOf(k, c) =>
                   StoreOf(l, c)[ModelPath(j, c, part)] = StoreOf(k, c)[ModelPath(j, c, part)]
    BY <1>a, <1>1, <1>2, ModelPlace DEF StoreOf
  <2> QED
    BY <2>1, ModelsUntouched DEF KeptInv
<1>8. l.gone \cap DOMAIN l.named \cap StoredDatasets = {}
  BY <1>1 DEF KeptInv
<1> QED
  BY <1>3, <1>4, <1>5, <1>6, <1>7, <1>8 DEF KeptInv

\* Deleting a row of the registry takes files of its job's folder in the cloud.
LEMMA ModelRemoved ==
  ASSUME NEW k, KeptInv(k), NEW l, KeptShape(l), NEW j \in ModelJobs, NEW lost,
         Shrunk(k.blobs, l.blobs, lost), l.disk = k.disk,
         \A p \in lost : \E part \in PartNames : p = <<"models", j, part>>,
         \A n \in DOMAIN l.models : \E m \in DOMAIN k.models : l.models[n] = k.models[m],
         l.named = k.named, l.tries = k.tries, l.gone = k.gone \cup {<<j>>}, l.stranded = k.stranded
  PROVE KeptInv(l)
<1>1. /\ \A p : p \in DOMAIN l.blobs <=> p \in DOMAIN k.blobs /\ p \notin lost
      /\ \A p \in DOMAIN l.blobs : l.blobs[p] = k.blobs[p]
  BY DEF Shrunk
<1>2. \A p \in lost : p[1] = "models"
  OBVIOUS
<1>3. (\A n \in DOMAIN l.named : NamedAt(l, n)) /\ DatasetFiles(l) /\ FeatureFiles(l)
  BY <1>1, <1>2, OthersUntouched
<1>4. StoresOK(l)
  BY <1>1 DEF StoresOK, KeptInv
<1>5. <<j>> \notin StoredDatasets
  BY BlobAssumption DEF StoredDatasets
<1>6. l.gone \cap DOMAIN l.named \cap StoredDatasets = {}
  BY <1>5 DEF KeptInv
<1>7. ASSUME NEW i \in ModelJobs, NEW c \in BOOLEAN, NEW part \in PartNames
      PROVE /\ ModelPath(i, c, part) \in DOMAIN StoreOf(l, c) =>
                 /\ ModelPath(i, c, part) \in DOMAIN StoreOf(k, c)
                 /\ StoreOf(l, c)[ModelPath(i, c, part)] = StoreOf(k, c)[ModelPath(i, c, part)]
            /\ ModelPath(i, c, part) \in DOMAIN StoreOf(k, c) /\ ModelPath(i, c, part) \notin DOMAIN StoreOf(l, c)
                 => i = j
  <2>1. CASE c
    <3>1. ModelPath(i, c, part) = <<"models", i, part>>
      BY <2>1 DEF ModelPath
    <3>2. StoreOf(l, c) = l.blobs /\ StoreOf(k, c) = k.blobs
      BY <2>1 DEF StoreOf
    <3> QED
      BY <1>1, <3>1, <3>2
  <2>2. CASE ~c
    <3>1. StoreOf(l, c) = StoreOf(k, c)
      BY <2>2 DEF StoreOf
    <3> QED
      BY <3>1
  <2> QED
    BY <2>1, <2>2
<1>8. ModelFiles(l)
  <2> SUFFICES ASSUME NEW i \in ModelJobs, NEW c \in BOOLEAN, NEW part \in PartNames,
                      ModelPath(i, c, part) \in DOMAIN StoreOf(l, c)
               PROVE /\ StoreOf(l, c)[ModelPath(i, c, part)]
                          = <<<<i>>, part, StoreOf(l, c)[ModelPath(i, c, part)][3]>>
                     /\ StoreOf(l, c)[ModelPath(i, c, part)][3] \in 1..l.tries[i]
    BY DEF ModelFiles
  <2>1. /\ ModelPath(i, c, part) \in DOMAIN StoreOf(k, c)
        /\ StoreOf(l, c)[ModelPath(i, c, part)] = StoreOf(k, c)[ModelPath(i, c, part)]
    BY <1>7
  <2> QED
    BY <2>1 DEF KeptInv, ModelFiles
<1>9. ASSUME NEW r, RowAt(k, r) PROVE RowAt(l, r)
  <2>1. /\ r.job \in ModelJobs /\ r.try \in 1..k.tries[r.job] /\ r.cloud \in BOOLEAN
        /\ r.parts \subseteq PartNames /\ r.path = ModelPath(r.job, r.cloud, "model")
    BY <1>9 DEF RowAt
  <2>2. ASSUME NEW part \in r.parts
        PROVE IF ModelPath(r.job, r.cloud, part) \in DOMAIN StoreOf(l, r.cloud)
              THEN StoreOf(l, r.cloud)[ModelPath(r.job, r.cloud, part)][3] >= r.try ELSE <<r.job>> \in l.gone
    <3>1. part \in PartNames
      BY <2>1
    <3>2. IF ModelPath(r.job, r.cloud, part) \in DOMAIN StoreOf(k, r.cloud)
          THEN StoreOf(k, r.cloud)[ModelPath(r.job, r.cloud, part)][3] >= r.try ELSE <<r.job>> \in k.gone
      BY <1>9 DEF RowAt
    <3> QED
      BY <1>7, <2>1, <3>1, <3>2
  <2> QED
    BY <2>1, <2>2 DEF RowAt
<1> QED
  BY <1>3, <1>4, <1>6, <1>8, <1>9 DEF KeptInv

\* A store without files has lost them.
LEMMA WithoutShrinks ==
  ASSUME NEW old, NEW lost
  PROVE Shrunk(old, Without(old, lost), lost) /\ Shrunk(old, old, {})
BY DEF Without, Restrict, Shrunk

\* A folder of three or four segments, and what lies in it.
LEMMA Folder3 ==
  ASSUME NEW a, NEW b, NEW c
  PROVE /\ Len(<<a, b, c>>) = 3 /\ SubSeq(<<a, b, c>>, 1, 3) = <<a, b, c>>
        /\ \A p : SubSeq(p, 1, 3) = <<a, b, c>> => p[1] = a /\ p[2] = b /\ p[3] = c
<1>1. SubSeq(<<a, b, c>>, 1, 3) = <<a, b, c>>
  <2>1. SubSeq(<<a, b, c>>, 1, 3) = [i \in 1..3 |-> <<a, b, c>>[i]]
    OBVIOUS
  <2>2. [i \in 1..3 |-> <<a, b, c>>[i]] = <<a, b, c>>
    OBVIOUS
  <2> QED
    BY <2>1, <2>2
<1>2. ASSUME NEW p, SubSeq(p, 1, 3) = <<a, b, c>> PROVE p[1] = a /\ p[2] = b /\ p[3] = c
  <2> DEFINE s == <<a, b, c>>
             g == [i \in 1..3 |-> p[i]]
  <2>1. SubSeq(p, 1, 3) = g
    OBVIOUS
  <2>2. g = s
    BY <1>2, <2>1
  <2>3. g[1] = p[1] /\ g[2] = p[2] /\ g[3] = p[3]
    OBVIOUS
  <2>4. s[1] = a /\ s[2] = b /\ s[3] = c
    OBVIOUS
  <2> QED
    <3> HIDE DEF g, s
    <3> QED
      BY <2>2, <2>3, <2>4
<1>3. Len(<<a, b, c>>) = 3
  OBVIOUS
<1> QED
  BY <1>1, <1>2, <1>3

LEMMA Front3 ==
  ASSUME NEW a, NEW b, NEW c, NEW z
  PROVE /\ Len(<<a, b, c, z>>) = 4 /\ SubSeq(<<a, b, c, z>>, 1, 3) = <<a, b, c>>
        /\ Front(<<a, b, c, z>>) = <<a, b, c>> /\ Last(<<a, b, c, z>>) = z
<1>1. SubSeq(<<a, b, c, z>>, 1, 3) = <<a, b, c>>
  <2>1. SubSeq(<<a, b, c, z>>, 1, 3) = [i \in 1..3 |-> <<a, b, c, z>>[i]]
    OBVIOUS
  <2>2. [i \in 1..3 |-> <<a, b, c, z>>[i]] = <<a, b, c>>
    OBVIOUS
  <2> QED
    BY <2>1, <2>2
<1>2. Front(<<a, b, c, z>>) = SubSeq(<<a, b, c, z>>, 1, 3)
  BY DEF Front
<1>3. Len(<<a, b, c, z>>) = 4 /\ Last(<<a, b, c, z>>) = z
  BY DEF Last
<1> QED
  BY <1>1, <1>2, <1>3

LEMMA Folder4 ==
  ASSUME NEW a, NEW b, NEW c, NEW e
  PROVE /\ Len(<<a, b, c, e>>) = 4 /\ SubSeq(<<a, b, c, e>>, 1, 4) = <<a, b, c, e>>
        /\ \A p : SubSeq(p, 1, 4) = <<a, b, c, e>> => p[1] = a /\ p[2] = b /\ p[3] = c /\ p[4] = e
<1>1. SubSeq(<<a, b, c, e>>, 1, 4) = <<a, b, c, e>>
  <2>1. SubSeq(<<a, b, c, e>>, 1, 4) = [i \in 1..4 |-> <<a, b, c, e>>[i]]
    OBVIOUS
  <2>2. [i \in 1..4 |-> <<a, b, c, e>>[i]] = <<a, b, c, e>>
    OBVIOUS
  <2> QED
    BY <2>1, <2>2
<1>2. ASSUME NEW p, SubSeq(p, 1, 4) = <<a, b, c, e>> PROVE p[1] = a /\ p[2] = b /\ p[3] = c /\ p[4] = e
  <2> DEFINE s == <<a, b, c, e>>
             g == [i \in 1..4 |-> p[i]]
  <2>1. SubSeq(p, 1, 4) = g
    OBVIOUS
  <2>2. g = s
    BY <1>2, <2>1
  <2>3. g[1] = p[1] /\ g[2] = p[2] /\ g[3] = p[3] /\ g[4] = p[4]
    OBVIOUS
  <2>4. s[1] = a /\ s[2] = b /\ s[3] = c /\ s[4] = e
    OBVIOUS
  <2> QED
    <3> HIDE DEF g, s
    <3> QED
      BY <2>2, <2>3, <2>4
<1>3. Len(<<a, b, c, e>>) = 4
  OBVIOUS
<1> QED
  BY <1>1, <1>2, <1>3

LEMMA Front4 ==
  ASSUME NEW a, NEW b, NEW c, NEW e, NEW z
  PROVE /\ Len(<<a, b, c, e, z>>) = 5 /\ SubSeq(<<a, b, c, e, z>>, 1, 4) = <<a, b, c, e>>
        /\ Front(<<a, b, c, e, z>>) = <<a, b, c, e>> /\ Last(<<a, b, c, e, z>>) = z
<1>1. SubSeq(<<a, b, c, e, z>>, 1, 4) = <<a, b, c, e>>
  <2>1. SubSeq(<<a, b, c, e, z>>, 1, 4) = [i \in 1..4 |-> <<a, b, c, e, z>>[i]]
    OBVIOUS
  <2>2. [i \in 1..4 |-> <<a, b, c, e, z>>[i]] = <<a, b, c, e>>
    OBVIOUS
  <2> QED
    BY <2>1, <2>2
<1>2. Front(<<a, b, c, e, z>>) = SubSeq(<<a, b, c, e, z>>, 1, 4)
  BY DEF Front
<1>3. Len(<<a, b, c, e, z>>) = 5 /\ Last(<<a, b, c, e, z>>) = z
  BY DEF Last
<1> QED
  BY <1>1, <1>2, <1>3

\* The folder of a local dataset holds files of this dataset alone.
LEMMA LocalFolder ==
  ASSUME NEW d \in StoredDatasets, NEW store
  PROVE /\ LocalPath(d) \in DOMAIN store => LocalPath(d) \in Under(store, Front(LocalPath(d)))
        /\ \A p \in Under(store, Front(LocalPath(d))) :
             p[1] = "storage" /\ p[2] = "datasets" /\ p[3] = d[1] /\ (d[1] \in SplitIds => p[4] = d[2])
<1>1. CASE d[1] \in SplitIds
  <2> DEFINE folder == <<"storage", "datasets", d[1], d[2]>>
  <2>1. LocalPath(d) = <<"storage", "datasets", d[1], d[2], "data">>
    BY <1>1, LocalPlace
  <2>2. Front(LocalPath(d)) = folder
    BY <2>1, Front4
  <2>3. SubSeq(LocalPath(d), 1, 4) = folder /\ SubSeq(folder, 1, 4) = folder
    BY <2>1, Folder4, Front4
  <2>4. LocalPath(d) \in DOMAIN store => LocalPath(d) \in Under(store, folder)
    BY <2>1, <2>3, Folder4 DEF Under, IsPrefix
  <2>5. ASSUME NEW p \in Under(store, folder)
        PROVE p[1] = "storage" /\ p[2] = "datasets" /\ p[3] = d[1] /\ p[4] = d[2]
    <3>1. SubSeq(p, 1, 4) = folder
      BY <2>3, Folder4 DEF Under, IsPrefix
    <3> QED
      BY <3>1, Folder4
  <2> QED
    BY <2>2, <2>4, <2>5
<1>2. CASE d[1] \notin SplitIds
  <2> DEFINE folder == <<"storage", "datasets", d[1]>>
  <2>1. LocalPath(d) = <<"storage", "datasets", d[1], "data">>
    BY <1>2, LocalPlace
  <2>2. Front(LocalPath(d)) = folder
    BY <2>1, Front3
  <2>3. SubSeq(LocalPath(d), 1, 3) = folder /\ SubSeq(folder, 1, 3) = folder
    BY <2>1, Folder3, Front3
  <2>4. LocalPath(d) \in DOMAIN store => LocalPath(d) \in Under(store, folder)
    BY <2>1, <2>3, Folder3 DEF Under, IsPrefix
  <2>5. ASSUME NEW p \in Under(store, folder)
        PROVE p[1] = "storage" /\ p[2] = "datasets" /\ p[3] = d[1]
    <3>1. SubSeq(p, 1, 3) = folder
      BY <2>3, Folder3 DEF Under, IsPrefix
    <3> QED
      BY <3>1, Folder3
  <2> QED
    BY <1>2, <2>2, <2>4, <2>5
<1> QED
  BY <1>1, <1>2

\* What a delete removes in the cloud: the dataset's files and no other's.
Doomed(store, path) == IF path[2] = "merged" THEN Under(store, SubSeq(path, 1, 4)) ELSE {path}

LEMMA CloudFolder ==
  ASSUME NEW d \in StoredDatasets, NEW store
  PROVE /\ \A p \in DOMAIN CloudFiles(d) : p \in DOMAIN store => p \in Doomed(store, CloudPath(d))
        /\ \A p \in Doomed(store, CloudPath(d)) :
             p[1] = "datasets" /\ p[3] = d[1] /\ (d[1] \in SplitIds => p[4] = d[2])
<1>1. CASE d[1] \in MergeIds
  <2> DEFINE folder == <<"datasets", "merged", d[1], "v1.0">>
  <2>1. CloudPath(d) = <<"datasets", "merged", d[1], "v1.0", "data">>
    BY <1>1, CloudPlace
  <2>2. SubSeq(CloudPath(d), 1, 4) = folder /\ SubSeq(folder, 1, 4) = folder
    BY <2>1, Folder4, Front4
  <2>3. Doomed(store, CloudPath(d)) = Under(store, folder)
    <3>1. CloudPath(d)[2] = "merged"
      BY <2>1
    <3> QED
      BY <2>2, <3>1 DEF Doomed
  <2>4. ASSUME NEW p \in DOMAIN CloudFiles(d), p \in DOMAIN store PROVE p \in Under(store, folder)
    <3>1. PICK x : p = <<"datasets", "merged", d[1], "v1.0", x>>
      BY <1>1, CloudPlaces
    <3>2. SubSeq(p, 1, 4) = folder /\ Len(p) = 5
      BY <3>1, Front4
    <3> QED
      BY <2>2, <2>4, <3>2, Folder4 DEF Under, IsPrefix
  <2>5. ASSUME NEW p \in Under(store, folder)
        PROVE p[1] = "datasets" /\ p[3] = d[1]
    <3>1. SubSeq(p, 1, 4) = folder
      BY <2>2, Folder4 DEF Under, IsPrefix
    <3> QED
      BY <3>1, Folder4
  <2> QED
    BY <1>1, <2>3, <2>4, <2>5, BlobAssumption
<1>2. CASE d[1] \notin MergeIds
  <2>1. CloudPath(d)[2] # "merged"
    BY <1>2, CloudPlace, DatasetShape
  <2>2. Doomed(store, CloudPath(d)) = {CloudPath(d)}
    BY <2>1 DEF Doomed
  <2> QED
    BY <1>2, <2>2, CloudPlace, CloudPlaces
<1> QED
  BY <1>1, <1>2

\* The record of the stores, by its fields.
LEMMA KeptFields ==
  ASSUME NEW l, NEW c, NEW b, NEW dk, NEW nm, NEW md, NEW t, NEW g, NEW sd, NEW sv, NEW sw,
         l = [cloud |-> c, blobs |-> b, disk |-> dk, named |-> nm, models |-> md, tries |-> t,
              gone |-> g, stranded |-> sd, saves |-> sv, switches |-> sw]
  PROVE /\ l.cloud = c /\ l.blobs = b /\ l.disk = dk /\ l.named = nm /\ l.models = md /\ l.tries = t
        /\ l.gone = g /\ l.stranded = sd /\ l.saves = sv /\ l.switches = sw
        /\ l = [cloud |-> l.cloud, blobs |-> l.blobs, disk |-> l.disk, named |-> l.named, models |-> l.models,
                tries |-> l.tries, gone |-> l.gone, stranded |-> l.stranded, saves |-> l.saves,
                switches |-> l.switches]
OBVIOUS

LEMMA DatasetKept ==
  ASSUME KeptInv(kept), NEW id \in RawIds \cup MergeIds, SaveDataset(id)
  PROVE KeptInv(kept')
<1> DEFINE d == <<id>>
<1>1. KeptShape(kept)
  BY DEF KeptInv
<1>2. d \in StoredDatasets /\ d \notin DOMAIN kept.named /\ d \notin kept.gone
  BY DEF StoredDatasets, SaveDataset, Fresh
<1>3. PICK cloud \in BOOLEAN : kept' = KeepDataset(d, cloud)
  BY DEF SaveDataset
<1>4. CASE cloud
  <2>1. kept' = [kept EXCEPT !.blobs = Put(@, CloudFiles(d)), !.named = Put(@, File(d, CloudPath(d))), !.saves = @ + 1]
    BY <1>3, <1>4, Zenon DEF KeepDataset
  <2>2. kept' = [cloud |-> kept.cloud, blobs |-> Put(kept.blobs, CloudFiles(d)), disk |-> kept.disk,
                 named |-> Put(kept.named, File(d, CloudPath(d))), models |-> kept.models, tries |-> kept.tries,
                 gone |-> kept.gone, stranded |-> kept.stranded, saves |-> kept.saves + 1, switches |-> kept.switches]
    BY <1>1, <2>1, Zenon DEF KeptShape
  <2>3. /\ kept'.cloud = kept.cloud /\ kept'.blobs = Put(kept.blobs, CloudFiles(d)) /\ kept'.disk = kept.disk
        /\ kept'.named = Put(kept.named, File(d, CloudPath(d))) /\ kept'.models = kept.models
        /\ kept'.tries = kept.tries /\ kept'.gone = kept.gone /\ kept'.stranded = kept.stranded
        /\ kept'.saves = kept.saves + 1
        /\ kept' = [cloud |-> kept'.cloud, blobs |-> kept'.blobs, disk |-> kept'.disk, named |-> kept'.named,
                    models |-> kept'.models, tries |-> kept'.tries, gone |-> kept'.gone,
                    stranded |-> kept'.stranded, saves |-> kept'.saves, switches |-> kept'.switches]
    BY <2>2, KeptFields
  <2>4. /\ Grown(kept.blobs, kept'.blobs, CloudFiles(d)) /\ Grown(kept.disk, kept'.disk, NoFiles)
        /\ Grown(kept.named, kept'.named, File(d, CloudPath(d)))
    BY <2>3, PutGrows
  <2>5. KeptShape(kept')
    <3>1. DOMAIN kept'.named = DOMAIN kept.named \cup {d}
      BY <2>4, FileLies DEF Grown
    <3> QED
      BY <1>1, <1>2, <2>3, <3>1 DEF KeptShape
  <2>6. \A p \in DOMAIN NoFiles : FALSE
    BY DEF NoFiles
  <2> QED
    BY <1>2, <2>3, <2>4, <2>5, <2>6, CloudPlaces, DatasetSaved
<1>5. CASE ~cloud
  <2> DEFINE more == File(LocalPath(d), <<d, "data">>)
  <2>1. kept' = [kept EXCEPT !.disk = Put(@, more), !.named = Put(@, File(d, LocalPath(d))), !.saves = @ + 1]
    BY <1>3, <1>5, Zenon DEF KeepDataset
  <2>2. kept' = [cloud |-> kept.cloud, blobs |-> kept.blobs, disk |-> Put(kept.disk, more),
                 named |-> Put(kept.named, File(d, LocalPath(d))), models |-> kept.models, tries |-> kept.tries,
                 gone |-> kept.gone, stranded |-> kept.stranded, saves |-> kept.saves + 1, switches |-> kept.switches]
    BY <1>1, <2>1, Zenon DEF KeptShape
  <2>3. /\ kept'.cloud = kept.cloud /\ kept'.blobs = kept.blobs /\ kept'.disk = Put(kept.disk, more)
        /\ kept'.named = Put(kept.named, File(d, LocalPath(d))) /\ kept'.models = kept.models
        /\ kept'.tries = kept.tries /\ kept'.gone = kept.gone /\ kept'.stranded = kept.stranded
        /\ kept'.saves = kept.saves + 1
        /\ kept' = [cloud |-> kept'.cloud, blobs |-> kept'.blobs, disk |-> kept'.disk, named |-> kept'.named,
                    models |-> kept'.models, tries |-> kept'.tries, gone |-> kept'.gone,
                    stranded |-> kept'.stranded, saves |-> kept'.saves, switches |-> kept'.switches]
    BY <2>2, KeptFields
  <2>4. /\ Grown(kept.blobs, kept'.blobs, NoFiles) /\ Grown(kept.disk, kept'.disk, more)
        /\ Grown(kept.named, kept'.named, File(d, LocalPath(d)))
    BY <2>3, PutGrows
  <2>5. KeptShape(kept')
    <3>1. DOMAIN kept'.named = DOMAIN kept.named \cup {d}
      BY <2>4, FileLies DEF Grown
    <3> QED
      BY <1>1, <1>2, <2>3, <3>1 DEF KeptShape
  <2>6. \A p \in DOMAIN NoFiles : FALSE
    BY DEF NoFiles
  <2>7. DOMAIN more = {LocalPath(d)} /\ more[LocalPath(d)] = <<d, "data">>
    BY FileLies
  <2> QED
    BY <1>2, <2>3, <2>4, <2>5, <2>6, <2>7, DatasetSaved
<1> QED
  BY <1>4, <1>5

\* A half of a split is saved as any dataset.
LEMMA HalfKept ==
  ASSUME NEW k, KeptInv(k), NEW d \in StoredDatasets, d \notin DOMAIN k.named, d \notin k.gone,
         NEW cloud \in BOOLEAN, NEW target, NEW blobs, NEW disk, NEW l, NEW saves \in Nat,
         target = IF cloud THEN CloudPath(d) ELSE LocalPath(d),
         cloud => blobs = Put(k.blobs, File(target, <<d, "data">>)) /\ disk = k.disk,
         ~cloud => blobs = k.blobs /\ disk = Put(k.disk, File(target, <<d, "data">>)),
         l = [cloud |-> k.cloud, blobs |-> blobs, disk |-> disk, named |-> Put(k.named, File(d, target)),
              models |-> k.models, tries |-> k.tries, gone |-> k.gone, stranded |-> k.stranded,
              saves |-> saves, switches |-> k.switches]
  PROVE KeptInv(l) /\ DOMAIN l.named = DOMAIN k.named \cup {d}
<1> DEFINE file == File(target, <<d, "data">>)
<1>1. KeptShape(k)
  BY DEF KeptInv
<1>2. /\ l.cloud = k.cloud /\ l.blobs = blobs /\ l.disk = disk /\ l.named = Put(k.named, File(d, target))
      /\ l.models = k.models /\ l.tries = k.tries /\ l.gone = k.gone /\ l.stranded = k.stranded
      /\ l.saves = saves
      /\ l = [cloud |-> l.cloud, blobs |-> l.blobs, disk |-> l.disk, named |-> l.named, models |-> l.models,
              tries |-> l.tries, gone |-> l.gone, stranded |-> l.stranded, saves |-> l.saves,
              switches |-> l.switches]
  BY KeptFields
<1>3. Grown(k.named, l.named, File(d, target))
  BY <1>2, PutGrows
<1>4. DOMAIN l.named = DOMAIN k.named \cup {d}
  BY <1>3, FileLies DEF Grown
<1>5. KeptShape(l)
  BY <1>1, <1>2, <1>4 DEF KeptShape
<1>6. \A p \in DOMAIN NoFiles : FALSE
  BY DEF NoFiles
<1>7. DOMAIN file = {target} /\ file[target] = <<d, "data">>
  BY FileLies
<1>8. CASE cloud
  <2>1. Grown(k.blobs, l.blobs, file) /\ Grown(k.disk, l.disk, NoFiles) /\ target = CloudPath(d)
    BY <1>2, <1>8, PutGrows
  <2>2. \A p \in DOMAIN file : p \in DOMAIN CloudFiles(d) /\ file[p][1] = d
    BY <1>7, <2>1, CloudPlaces
  <2> QED
    BY <1>2, <1>3, <1>4, <1>5, <1>6, <1>7, <2>1, <2>2, DatasetSaved
<1>9. CASE ~cloud
  <2>1. Grown(k.blobs, l.blobs, NoFiles) /\ Grown(k.disk, l.disk, file) /\ target = LocalPath(d)
    BY <1>2, <1>9, PutGrows
  <2> QED
    BY <1>2, <1>3, <1>4, <1>5, <1>6, <1>7, <2>1, DatasetSaved
<1> QED
  BY <1>4, <1>8, <1>9

LEMMA SplitKept ==
  ASSUME KeptInv(kept), NEW s \in SplitIds, SaveSplit(s)
  PROVE KeptInv(kept')
<1> DEFINE d == <<s, "train">>
           e == <<s, "test">>
           path(n) == IF kept.cloud THEN CloudPath(n) ELSE LocalPath(n)
           file(n) == File(path(n), <<n, "data">>)
           both(store) == Put(Put(store, file(d)), file(e))
           half == [cloud |-> kept.cloud,
                    blobs |-> IF kept.cloud THEN Put(kept.blobs, file(d)) ELSE kept.blobs,
                    disk |-> IF kept.cloud THEN kept.disk ELSE Put(kept.disk, file(d)),
                    named |-> Put(kept.named, File(d, path(d))), models |-> kept.models, tries |-> kept.tries,
                    gone |-> kept.gone, stranded |-> kept.stranded, saves |-> kept.saves,
                    switches |-> kept.switches]
<1>1. KeptShape(kept)
  BY DEF KeptInv
<1>2. kept.cloud \in BOOLEAN /\ kept.saves \in Nat /\ kept.saves + 1 \in Nat
  BY <1>1 DEF KeptShape
<1>3. /\ d \in StoredDatasets /\ e \in StoredDatasets /\ d # e
      /\ d \notin DOMAIN kept.named /\ e \notin DOMAIN kept.named /\ d \notin kept.gone /\ e \notin kept.gone
  BY DEF StoredDatasets, SplitHalves, SaveSplit, Fresh
<1>4. kept' = [kept EXCEPT
          !.blobs = IF kept.cloud THEN both(@) ELSE @,
          !.disk = IF kept.cloud THEN @ ELSE both(@),
          !.named = Put(Put(@, File(d, path(d))), File(e, path(e))),
          !.saves = @ + 1]
  BY Zenon DEF SaveSplit
<1>5. kept' = [cloud |-> kept.cloud,
               blobs |-> IF kept.cloud THEN both(kept.blobs) ELSE kept.blobs,
               disk |-> IF kept.cloud THEN kept.disk ELSE both(kept.disk),
               named |-> Put(Put(kept.named, File(d, path(d))), File(e, path(e))),
               models |-> kept.models, tries |-> kept.tries, gone |-> kept.gone,
               stranded |-> kept.stranded, saves |-> kept.saves + 1, switches |-> kept.switches]
  BY <1>1, <1>4, Zenon DEF KeptShape
<1>6. /\ half.cloud = kept.cloud /\ half.named = Put(kept.named, File(d, path(d)))
      /\ half.blobs = IF kept.cloud THEN Put(kept.blobs, file(d)) ELSE kept.blobs
      /\ half.disk = IF kept.cloud THEN kept.disk ELSE Put(kept.disk, file(d))
      /\ half.models = kept.models /\ half.tries = kept.tries /\ half.gone = kept.gone
      /\ half.stranded = kept.stranded /\ half.switches = kept.switches
  BY Zenon
<1>7. KeptInv(half) /\ DOMAIN half.named = DOMAIN kept.named \cup {d}
  <2> DEFINE blobs == IF kept.cloud THEN Put(kept.blobs, file(d)) ELSE kept.blobs
             disk == IF kept.cloud THEN kept.disk ELSE Put(kept.disk, file(d))
  <2>1. /\ path(d) = IF kept.cloud THEN CloudPath(d) ELSE LocalPath(d)
        /\ kept.cloud => blobs = Put(kept.blobs, File(path(d), <<d, "data">>)) /\ disk = kept.disk
        /\ ~kept.cloud => blobs = kept.blobs /\ disk = Put(kept.disk, File(path(d), <<d, "data">>))
        /\ half = [cloud |-> kept.cloud, blobs |-> blobs, disk |-> disk,
                   named |-> Put(kept.named, File(d, path(d))), models |-> kept.models, tries |-> kept.tries,
                   gone |-> kept.gone, stranded |-> kept.stranded, saves |-> kept.saves,
                   switches |-> kept.switches]
    BY Zenon
  <2> HIDE DEF d, e, path, file, half, blobs, disk
  <2> QED
    BY <1>2, <1>3, <2>1, HalfKept
<1>8. KeptInv(kept')
  <2> DEFINE blobs == IF kept.cloud THEN both(kept.blobs) ELSE kept.blobs
             disk == IF kept.cloud THEN kept.disk ELSE both(kept.disk)
  <2>1. /\ path(e) = IF kept.cloud THEN CloudPath(e) ELSE LocalPath(e)
        /\ kept.cloud => blobs = Put(half.blobs, File(path(e), <<e, "data">>)) /\ disk = half.disk
        /\ ~kept.cloud => blobs = half.blobs /\ disk = Put(half.disk, File(path(e), <<e, "data">>))
    BY <1>6, Zenon
  <2>2. kept' = [cloud |-> half.cloud, blobs |-> blobs, disk |-> disk,
                 named |-> Put(half.named, File(e, path(e))), models |-> half.models, tries |-> half.tries,
                 gone |-> half.gone, stranded |-> half.stranded, saves |-> kept.saves + 1,
                 switches |-> half.switches]
    BY <1>5, <1>6, Zenon
  <2>3. e \notin DOMAIN half.named /\ e \notin half.gone
    BY <1>3, <1>6, <1>7, Zenon
  <2> HIDE DEF d, e, path, file, half, blobs, disk, both
  <2> QED
    BY <1>2, <1>3, <1>7, <2>1, <2>2, <2>3, HalfKept
<1> QED
  BY <1>8

\* The two files of a feature set.
FeaturePair(p, f) == [q \in {p, Front(p) \o <<"transformer">>} |-> <<<<f>>, Last(q)>>]

LEMMA FeaturePlaces ==
  ASSUME NEW store, NEW kind, NEW f
  PROVE /\ <<store, "features", kind, f, "features">> \in DOMAIN FeaturePair(<<store, "features", kind, f, "features">>, f)
        /\ \A p \in DOMAIN FeaturePair(<<store, "features", kind, f, "features">>, f) : \E part \in CloudParts :
             /\ p = <<store, "features", kind, f, part>>
             /\ FeaturePair(<<store, "features", kind, f, "features">>, f)[p] = <<<<f>>, part>>
<1> DEFINE laid == FeaturePair(<<store, "features", kind, f, "features">>, f)
<1>0. laid = [q \in {<<store, "features", kind, f, "features">>,
                      Front(<<store, "features", kind, f, "features">>) \o <<"transformer">>} |-> <<<<f>>, Last(q)>>]
  BY Zenon DEF FeaturePair
<1> HIDE DEF laid
<1>1. Front(<<store, "features", kind, f, "features">>) \o <<"transformer">> = <<store, "features", kind, f, "transformer">>
  <2>1. Front(<<store, "features", kind, f, "features">>) = <<store, "features", kind, f>>
    BY Front4
  <2>2. <<store, "features", kind, f>> \o <<"transformer">> = <<store, "features", kind, f, "transformer">>
    <3> DEFINE s == <<store, "features", kind, f>>
               t == <<"transformer">>
    <3>1. s \o t = [i \in 1..5 |-> IF i <= 4 THEN s[i] ELSE t[i - 4]]
      OBVIOUS
    <3>2. [i \in 1..5 |-> IF i <= 4 THEN s[i] ELSE t[i - 4]] = <<store, "features", kind, f, "transformer">>
      OBVIOUS
    <3> QED
      BY <3>1, <3>2
  <2> QED
    BY <2>1, <2>2
<1>2. /\ Last(<<store, "features", kind, f, "features">>) = "features"
      /\ Last(<<store, "features", kind, f, "transformer">>) = "transformer"
  BY Front4
<1>3. DOMAIN laid = {<<store, "features", kind, f, "features">>, <<store, "features", kind, f, "transformer">>}
  BY <1>0, <1>1
<1>4. laid[<<store, "features", kind, f, "features">>] = <<<<f>>, "features">>
  BY <1>0, <1>2
<1>5. laid[<<store, "features", kind, f, "transformer">>] = <<<<f>>, "transformer">>
  BY <1>0, <1>1, <1>2
<1>6. \A p \in DOMAIN laid : \E part \in CloudParts :
         p = <<store, "features", kind, f, part>> /\ laid[p] = <<<<f>>, part>>
  BY <1>3, <1>4, <1>5 DEF CloudParts
<1> QED
  BY <1>3, <1>6 DEF laid

LEMMA FeaturesKept ==
  ASSUME KeptInv(kept), NEW f \in FeatureIds, NEW d \in StoredDatasets, SaveFeatures(f, d)
  PROVE KeptInv(kept')
<1> DEFINE local == kept.named[d] \in DOMAIN kept.disk
           path == IF local THEN FeatureLocalPath(f, d) ELSE FeatureCloudPath(f, d)
           laid(p) == [q \in {p, Front(p) \o <<"transformer">>} |-> <<<<f>>, Last(q)>>]
<1>1. KeptShape(kept)
  BY DEF KeptInv
<1>2. kept.saves \in Nat /\ <<f>> \notin DOMAIN kept.named
  BY <1>1 DEF KeptShape, SaveFeatures, Fresh
<1>3. kept' = [kept EXCEPT
             !.disk = IF local THEN Put(@, laid(path)) ELSE @,
             !.blobs = IF local THEN @ ELSE Put(@, laid(FeatureContainer(path))),
             !.named = Put(@, File(<<f>>, path)), !.saves = @ + 1]
  BY Zenon DEF SaveFeatures
<1>4. kept' = [cloud |-> kept.cloud,
               blobs |-> IF local THEN kept.blobs ELSE Put(kept.blobs, laid(FeatureContainer(path))),
               disk |-> IF local THEN Put(kept.disk, laid(path)) ELSE kept.disk,
               named |-> Put(kept.named, File(<<f>>, path)),
               models |-> kept.models, tries |-> kept.tries, gone |-> kept.gone,
               stranded |-> kept.stranded, saves |-> kept.saves + 1, switches |-> kept.switches]
  BY <1>1, <1>3, Zenon DEF KeptShape
<1>5. /\ kept'.cloud = kept.cloud /\ kept'.named = Put(kept.named, File(<<f>>, path))
      /\ kept'.blobs = IF local THEN kept.blobs ELSE Put(kept.blobs, laid(FeatureContainer(path)))
      /\ kept'.disk = IF local THEN Put(kept.disk, laid(path)) ELSE kept.disk
      /\ kept'.models = kept.models
      /\ kept'.tries = kept.tries /\ kept'.gone = kept.gone /\ kept'.stranded = kept.stranded
      /\ kept'.saves = kept.saves + 1
      /\ kept' = [cloud |-> kept'.cloud, blobs |-> kept'.blobs, disk |-> kept'.disk, named |-> kept'.named,
                  models |-> kept'.models, tries |-> kept'.tries, gone |-> kept'.gone,
                  stranded |-> kept'.stranded, saves |-> kept'.saves, switches |-> kept'.switches]
  <2> HIDE DEF local, path, laid
  <2> QED
    BY <1>4, KeptFields
<1>6. Grown(kept.named, kept'.named, File(<<f>>, path))
  <2> HIDE DEF path
  <2> QED
    BY <1>5, PutGrows
<1>7. KeptShape(kept')
  <2>1. DOMAIN kept'.named = DOMAIN kept.named \cup {<<f>>}
    BY <1>6, FileLies DEF Grown
  <2>2. /\ kept'.cloud = kept.cloud /\ kept'.tries = kept.tries /\ kept'.models = kept.models
        /\ kept'.gone = kept.gone /\ kept'.saves = kept.saves + 1
        /\ kept' = [cloud |-> kept'.cloud, blobs |-> kept'.blobs, disk |-> kept'.disk, named |-> kept'.named,
                  models |-> kept'.models, tries |-> kept'.tries, gone |-> kept'.gone,
                  stranded |-> kept'.stranded, saves |-> kept'.saves, switches |-> kept'.switches]
    BY <1>5
  <2> HIDE DEF local, path, laid
  <2> QED
    BY <1>1, <2>1, <2>2 DEF KeptShape
<1>11. kept'.models = kept.models /\ kept'.tries = kept.tries /\ kept'.gone = kept.gone /\ kept'.stranded = kept.stranded
  BY <1>5
<1>8. \A p \in DOMAIN NoFiles : FALSE
  BY DEF NoFiles
<1>9. CASE local
  <2>1. PICK dir \in FeatureFolders : path = <<"storage", "features", dir, f, "features">>
    BY <1>9 DEF FeatureLocalPath, FeatureFolders
  <2> DEFINE more == laid(path)
  <2>2. /\ path \in DOMAIN more
        /\ \A p \in DOMAIN more : \E part \in CloudParts :
             p = <<"storage", "features", dir, f, part>> /\ more[p] = <<<<f>>, part>>
    <3>1. more = FeaturePair(<<"storage", "features", dir, f, "features">>, f)
      BY <2>1, Zenon DEF FeaturePair
    <3> HIDE DEF more, laid, path, local
    <3> QED
      BY <2>1, <3>1, FeaturePlaces
  <2>3. Grown(kept.blobs, kept'.blobs, NoFiles) /\ Grown(kept.disk, kept'.disk, more)
    <3>1. kept'.blobs = kept.blobs /\ kept'.disk = Put(kept.disk, more)
      BY <1>5, <1>9, Zenon
    <3> HIDE DEF more
    <3> QED
      BY <3>1, PutGrows
  <2> HIDE DEF more, laid, path, local
  <2>4. \E at1 \in FeatureFolders :
              /\ path = <<"storage", "features", at1, f, "features">>
              /\ path \in DOMAIN more /\ NoFiles = NoFiles
    BY <2>1, <2>2
  <2>5. \A p \in DOMAIN more : \E at1 \in FeatureFolders, part \in CloudParts :
           p = <<"storage", "features", at1, f, part>> /\ more[p] = <<<<f>>, part>>
    BY <2>2
  <2> QED
    BY <1>2, <1>6, <1>7, <1>8, <1>11, <2>3, <2>4, <2>5, FeaturesSaved
<1>10. CASE ~local
  <2>1. PICK kind \in FeatureKinds : path = <<"features", kind, f, "features">>
    <3>1. FeatureKind(d) \in FeatureKinds
      BY DatasetShape DEF FeatureKind, FeatureKinds
    <3> QED
      BY <1>10, <3>1 DEF FeatureCloudPath
  <2>2. FeatureContainer(path) = <<"features", "features", kind, f, "features">>
    <3> DEFINE s == <<"features">>
               t == <<"features", kind, f, "features">>
    <3>1. s \o t = [i \in 1..5 |-> IF i <= 1 THEN s[i] ELSE t[i - 1]]
      OBVIOUS
    <3>2. [i \in 1..5 |-> IF i <= 1 THEN s[i] ELSE t[i - 1]] = <<"features", "features", kind, f, "features">>
      OBVIOUS
    <3>3. FeatureContainer(path) = s \o t
      BY <2>1, Zenon DEF FeatureContainer
    <3> QED
      BY <3>1, <3>2, <3>3
  <2> DEFINE more == laid(FeatureContainer(path))
  <2>3. /\ <<"features", "features", kind, f, "features">> \in DOMAIN more
        /\ \A p \in DOMAIN more : \E part \in CloudParts :
             p = <<"features", "features", kind, f, part>> /\ more[p] = <<<<f>>, part>>
    <3>1. more = FeaturePair(<<"features", "features", kind, f, "features">>, f)
      BY <2>2, Zenon DEF FeaturePair
    <3> HIDE DEF more, laid, path, local
    <3> QED
      BY <3>1, FeaturePlaces
  <2>4. Grown(kept.blobs, kept'.blobs, more) /\ Grown(kept.disk, kept'.disk, NoFiles)
    <3>1. kept'.disk = kept.disk /\ kept'.blobs = Put(kept.blobs, more)
      BY <1>5, <1>10, Zenon
    <3> HIDE DEF more
    <3> QED
      BY <3>1, PutGrows
  <2> HIDE DEF more, laid, path, local
  <2>5. \E at1 \in FeatureKinds :
              /\ path = <<"features", at1, f, "features">>
              /\ <<"features", "features", at1, f, "features">> \in DOMAIN more /\ NoFiles = NoFiles
    BY <2>1, <2>3
  <2>6. \A p \in DOMAIN more : \E at1 \in FeatureKinds, part \in CloudParts :
           p = <<"features", "features", at1, f, part>> /\ more[p] = <<<<f>>, part>>
    BY <2>3
  <2> QED
    BY <1>2, <1>6, <1>7, <1>8, <1>11, <2>4, <2>5, <2>6, FeaturesSaved
<1> QED
  BY <1>9, <1>10

LEMMA PartsNamed ==
  ASSUME NEW upto \in 0..Len(ModelParts), NEW left
  PROVE ToSet(SubSeq(ModelParts, 1, upto)) \ left \in SUBSET PartNames
<1>1. SubSeq(ModelParts, 1, upto) = [i \in 1..upto |-> ModelParts[i]]
  BY DEF ModelParts
<1>2. \A i \in 1..5 : ModelParts[i] \in PartNames
  BY DEF ModelParts, PartNames
<1>3. upto \in 0..5
  BY DEF ModelParts
<1> QED
  BY <1>1, <1>2, <1>3 DEF ToSet

\* The files of a try.
PartFiles(j, cloud, parts, try) ==
  [p \in {ModelPath(j, cloud, n) : n \in parts} |-> <<<<j>>, Last(p), try>>]

LEMMA PartPlaces ==
  ASSUME NEW j, NEW cloud, NEW parts, NEW try
  PROVE /\ \A p : p \in DOMAIN PartFiles(j, cloud, parts, try) <=> \E n \in parts : p = ModelPath(j, cloud, n)
        /\ \A n \in parts : PartFiles(j, cloud, parts, try)[ModelPath(j, cloud, n)] = <<<<j>>, n, try>>
<1> DEFINE laid == PartFiles(j, cloud, parts, try)
<1>0. laid = [p \in {ModelPath(j, cloud, n) : n \in parts} |-> <<<<j>>, Last(p), try>>]
  BY Zenon DEF PartFiles
<1> HIDE DEF laid
<1>1. DOMAIN laid = {ModelPath(j, cloud, n) : n \in parts}
  BY <1>0
<1>2. ASSUME NEW n \in parts PROVE laid[ModelPath(j, cloud, n)] = <<<<j>>, Last(ModelPath(j, cloud, n)), try>>
  <2>1. ModelPath(j, cloud, n) \in {ModelPath(j, cloud, m) : m \in parts}
    OBVIOUS
  <2> QED
    BY <1>0, <2>1
<1>3. ASSUME NEW n PROVE /\ Last(<<"models", j, n>>) = n
                         /\ Last(<<"storage", "models", j, n>>) = n
  BY DEF Last
<1>4. ASSUME cloud, NEW n \in parts
      PROVE ModelPath(j, cloud, n) = <<"models", j, n>> /\ laid[ModelPath(j, cloud, n)] = <<<<j>>, n, try>>
  <2>1. ModelPath(j, cloud, n) = <<"models", j, n>>
    BY <1>4 DEF ModelPath
  <2> QED
    BY <1>2, <1>3, <2>1
<1>5. ASSUME ~cloud, NEW n \in parts
      PROVE ModelPath(j, cloud, n) = <<"storage", "models", j, n>> /\ laid[ModelPath(j, cloud, n)] = <<<<j>>, n, try>>
  <2>1. ModelPath(j, cloud, n) = <<"storage", "models", j, n>>
    BY <1>5 DEF ModelPath
  <2> QED
    BY <1>2, <1>3, <2>1
<1> QED
  BY <1>1, <1>4, <1>5 DEF laid

LEMMA ModelKept ==
  ASSUME KeptInv(kept), NEW j \in ModelJobs, SaveModel(j)
  PROVE KeptInv(kept')
<1>1. KeptShape(kept)
  BY DEF KeptInv
<1>2. kept.cloud \in BOOLEAN /\ kept.saves \in Nat /\ kept.tries \in [ModelJobs -> Nat]
  BY <1>1 DEF KeptShape
<1>3. PICK left \in SUBSET {"onnx", "calibrator"}, upto \in 0..Len(ModelParts) :
       LET parts == ToSet(SubSeq(ModelParts, 1, upto)) \ left
           try == kept.tries[j] + 1
           laid == [p \in {ModelPath(j, kept.cloud, n) : n \in parts} |-> <<<<j>>, Last(p), try>>]
           row == [job |-> j, try |-> try, cloud |-> kept.cloud, parts |-> parts,
                   path |-> ModelPath(j, kept.cloud, "model")]
       IN kept' = [kept EXCEPT
            !.blobs = IF kept.cloud THEN Put(@, laid) ELSE @,
            !.disk = IF kept.cloud THEN @ ELSE Put(@, laid),
            !.models = IF upto = Len(ModelParts) THEN Append(@, row) ELSE @,
            !.tries[j] = try, !.saves = @ + 1]
  BY Zenon DEF SaveModel
<1> DEFINE parts == ToSet(SubSeq(ModelParts, 1, upto)) \ left
           try == kept.tries[j] + 1
           laid == [p \in {ModelPath(j, kept.cloud, n) : n \in parts} |-> <<<<j>>, Last(p), try>>]
           row == [job |-> j, try |-> try, cloud |-> kept.cloud, parts |-> parts,
                   path |-> ModelPath(j, kept.cloud, "model")]
           blobs == IF kept.cloud THEN Put(kept.blobs, laid) ELSE kept.blobs
           disk == IF kept.cloud THEN kept.disk ELSE Put(kept.disk, laid)
           models == IF upto = Len(ModelParts) THEN Append(kept.models, row) ELSE kept.models
           tries == [kept.tries EXCEPT ![j] = kept.tries[j] + 1]
<1>4. kept' = [cloud |-> kept.cloud, blobs |-> blobs, disk |-> disk, named |-> kept.named, models |-> models,
               tries |-> tries, gone |-> kept.gone, stranded |-> kept.stranded, saves |-> kept.saves + 1,
               switches |-> kept.switches]
  BY <1>1, <1>3, Zenon DEF KeptShape
<1>5. parts \in SUBSET PartNames
  BY PartsNamed
<1>6. row.job = j /\ row.try = try /\ row.cloud = kept.cloud /\ row.parts = parts
      /\ row.path = ModelPath(j, kept.cloud, "model")
  BY Zenon
<1>7. (models = kept.models) \/ (models = Append(kept.models, row))
  BY Zenon
<1>8. /\ kept.cloud => blobs = Put(kept.blobs, laid) /\ disk = kept.disk
      /\ ~kept.cloud => blobs = kept.blobs /\ disk = Put(kept.disk, laid)
  BY Zenon
<1>9. /\ \A p : p \in DOMAIN laid <=> \E n \in parts : p = ModelPath(j, kept.cloud, n)
      /\ \A n \in parts : laid[ModelPath(j, kept.cloud, n)] = <<<<j>>, n, try>>
  <2>1. laid = PartFiles(j, kept.cloud, parts, try)
    BY Zenon DEF PartFiles
  <2> HIDE DEF parts, try, laid, row, blobs, disk, models, tries
  <2> QED
    BY <2>1, PartPlaces
<1>10. try = kept.tries[j] + 1 /\ tries = [kept.tries EXCEPT ![j] = kept.tries[j] + 1]
  BY Zenon
<1> HIDE DEF parts, try, laid, row, blobs, disk, models, tries
<1>11. /\ kept'.cloud = kept.cloud /\ kept'.blobs = blobs /\ kept'.disk = disk /\ kept'.named = kept.named
       /\ kept'.models = models /\ kept'.tries = tries /\ kept'.gone = kept.gone
       /\ kept'.stranded = kept.stranded /\ kept'.saves = kept.saves + 1
       /\ kept' = [cloud |-> kept'.cloud, blobs |-> kept'.blobs, disk |-> kept'.disk, named |-> kept'.named,
                   models |-> kept'.models, tries |-> kept'.tries, gone |-> kept'.gone,
                   stranded |-> kept'.stranded, saves |-> kept'.saves, switches |-> kept'.switches]
  BY <1>4, KeptFields
<1>12. KeptShape(kept')
  <2>1. tries \in [ModelJobs -> Nat]
    BY <1>2, <1>10
  <2>2. \E some : models \in Seq(some)
    <3>1. PICK some : kept.models \in Seq(some)
      BY <1>1 DEF KeptShape
    <3>2. kept.models \in Seq(some \cup {row}) /\ Append(kept.models, row) \in Seq(some \cup {row})
      BY <3>1
    <3> QED
      BY <1>7, <3>2
  <2> QED
    BY <1>1, <1>11, <2>1, <2>2 DEF KeptShape
<1>13. row.job = j /\ row.try = kept.tries[j] + 1 /\ row.cloud = kept.cloud /\ row.cloud \in BOOLEAN
       /\ row.parts = parts /\ row.path = ModelPath(j, row.cloud, "model")
  BY <1>2, <1>6, <1>10
<1>14. \A p \in DOMAIN NoFiles : FALSE
  BY DEF NoFiles
<1>15. \A part \in parts : ModelPath(j, row.cloud, part) \in DOMAIN laid
  BY <1>6, <1>9
<1>16. kept'.tries = [kept.tries EXCEPT ![j] = kept.tries[j] + 1]
       /\ kept'.named = kept.named /\ kept'.gone = kept.gone /\ kept'.stranded = kept.stranded
  BY <1>10, <1>11
<1>17. \E target, more : /\ Grown(kept.blobs, kept'.blobs, target) /\ Grown(kept.disk, kept'.disk, more)
                       /\ BlobsOfTry(target, j, parts, kept.tries[j] + 1)
                       /\ DiskOfTry(more, j, parts, kept.tries[j] + 1)
                       /\ RowOfTry(row, j, parts, kept.tries[j] + 1, target, more)
  <2>1. CASE kept.cloud
    <3>1. Grown(kept.blobs, kept'.blobs, laid) /\ Grown(kept.disk, kept'.disk, NoFiles)
      BY <1>8, <1>11, <2>1, PutGrows
    <3>2. RowOfTry(row, j, parts, kept.tries[j] + 1, laid, NoFiles)
      BY <1>13, <1>15, <2>1 DEF RowOfTry
    <3>3. BlobsOfTry(laid, j, parts, kept.tries[j] + 1)
      <4>1. \A n : ModelPath(j, kept.cloud, n) = <<"models", j, n>>
        BY <2>1 DEF ModelPath
      <4> SUFFICES ASSUME NEW p \in DOMAIN laid
                   PROVE \E part \in parts :
                           p = <<"models", j, part>> /\ laid[p] = <<<<j>>, part, kept.tries[j] + 1>>
        BY DEF BlobsOfTry
      <4>2. PICK n \in parts : p = ModelPath(j, kept.cloud, n)
        BY <1>9
      <4>3. laid[p] = <<<<j>>, n, kept.tries[j] + 1>>
        BY <1>9, <1>10, <4>2
      <4> QED
        BY <4>1, <4>2, <4>3
    <3>4. DiskOfTry(NoFiles, j, parts, kept.tries[j] + 1)
      BY <1>14 DEF DiskOfTry
    <3> QED
      BY <3>1, <3>2, <3>3, <3>4
  <2>2. CASE ~kept.cloud
    <3>1. Grown(kept.blobs, kept'.blobs, NoFiles) /\ Grown(kept.disk, kept'.disk, laid)
      BY <1>8, <1>11, <2>2, PutGrows
    <3>2. RowOfTry(row, j, parts, kept.tries[j] + 1, NoFiles, laid)
      BY <1>13, <1>15, <2>2 DEF RowOfTry
    <3>3. DiskOfTry(laid, j, parts, kept.tries[j] + 1)
      <4>1. \A n : ModelPath(j, kept.cloud, n) = <<"storage", "models", j, n>>
        BY <2>2 DEF ModelPath
      <4> SUFFICES ASSUME NEW p \in DOMAIN laid
                   PROVE \E part \in parts :
                           p = <<"storage", "models", j, part>> /\ laid[p] = <<<<j>>, part, kept.tries[j] + 1>>
        BY DEF DiskOfTry
      <4>2. PICK n \in parts : p = ModelPath(j, kept.cloud, n)
        BY <1>9
      <4>3. laid[p] = <<<<j>>, n, kept.tries[j] + 1>>
        BY <1>9, <1>10, <4>2
      <4> QED
        BY <4>1, <4>2, <4>3
    <3>4. BlobsOfTry(NoFiles, j, parts, kept.tries[j] + 1)
      BY <1>14 DEF BlobsOfTry
    <3> QED
      BY <3>1, <3>2, <3>3, <3>4
  <2> QED
    BY <1>2, <2>1, <2>2
<1>18. \/ kept'.models = kept.models
       \/ kept'.models = Append(kept.models, row)
  BY <1>7, <1>11
<1> QED
  BY <1>5, <1>12, <1>16, <1>17, <1>18, ModelSaved

LEMMA DatasetGone ==
  ASSUME KeptInv(kept), NEW d \in StoredDatasets, RemoveDataset(d)
  PROVE KeptInv(kept')
<1>1. KeptShape(kept) /\ d \in DOMAIN kept.named /\ kept.cloud \in BOOLEAN
  BY DEF KeptInv, KeptShape, RemoveDataset
<1> DEFINE path == kept.named[d]
           local == path[1] = "storage"
           fated == Doomed(kept.blobs, path)
           disk == IF local /\ path \in DOMAIN kept.disk THEN Without(kept.disk, Under(kept.disk, Front(path)))
                   ELSE kept.disk
           blobs == IF local \/ ~kept.cloud THEN kept.blobs ELSE Without(kept.blobs, fated)
           named == Without(kept.named, {d})
           stranded == IF local \/ kept.cloud THEN kept.stranded ELSE kept.stranded \cup {d}
<1>2. kept' = [kept EXCEPT
          !.disk = IF local /\ path \in DOMAIN @ THEN Without(@, Under(@, Front(path))) ELSE @,
          !.blobs = IF local \/ ~kept.cloud THEN @ ELSE Without(@, fated),
          !.named = Without(@, {d}), !.gone = @ \cup {d},
          !.stranded = IF local \/ kept.cloud THEN @ ELSE @ \cup {d}]
  BY Zenon DEF RemoveDataset, Doomed
<1>3. kept' = [cloud |-> kept.cloud, blobs |-> blobs, disk |-> disk, named |-> named, models |-> kept.models,
               tries |-> kept.tries, gone |-> kept.gone \cup {d}, stranded |-> stranded, saves |-> kept.saves,
               switches |-> kept.switches]
  BY <1>1, <1>2, Zenon DEF KeptShape
<1>4. \/ path = LocalPath(d) /\ LocalPath(d) \in DOMAIN kept.disk
      \/ path = CloudPath(d)
  BY <1>1 DEF KeptInv, NamedAt
<1>5. /\ local /\ path \in DOMAIN kept.disk => disk = Without(kept.disk, Under(kept.disk, Front(path)))
      /\ ~local => disk = kept.disk
      /\ local => blobs = kept.blobs
      /\ ~kept.cloud => blobs = kept.blobs
      /\ ~local /\ kept.cloud => blobs = Without(kept.blobs, fated)
      /\ ~local /\ ~kept.cloud => stranded = kept.stranded \cup {d}
      /\ kept.stranded \subseteq stranded
  OBVIOUS
<1>6. named = Without(kept.named, {d}) /\ fated = Doomed(kept.blobs, path) /\ path = kept.named[d]
      /\ (local <=> path[1] = "storage")
  BY Zenon
<1> HIDE DEF path, local, fated, disk, blobs, named, stranded
<1>7. /\ kept'.cloud = kept.cloud /\ kept'.blobs = blobs /\ kept'.disk = disk /\ kept'.named = named
      /\ kept'.models = kept.models /\ kept'.tries = kept.tries /\ kept'.gone = kept.gone \cup {d}
      /\ kept'.stranded = stranded /\ kept'.saves = kept.saves
      /\ kept' = [cloud |-> kept'.cloud, blobs |-> kept'.blobs, disk |-> kept'.disk, named |-> kept'.named,
                   models |-> kept'.models, tries |-> kept'.tries, gone |-> kept'.gone,
                   stranded |-> kept'.stranded, saves |-> kept'.saves, switches |-> kept'.switches]
  BY <1>3, KeptFields
<1>8. Shrunk(kept.named, kept'.named, {d})
  BY <1>6, <1>7, WithoutShrinks
<1>9. KeptShape(kept')
  BY <1>1, <1>7, <1>8 DEF KeptShape, Shrunk
<1>12. /\ kept'.models = kept.models /\ kept'.tries = kept.tries /\ kept'.gone = kept.gone \cup {d}
       /\ kept.stranded \subseteq kept'.stranded
  BY <1>5, <1>7
<1>10. CASE path = LocalPath(d) /\ LocalPath(d) \in DOMAIN kept.disk
  <2> DEFINE loose == Under(kept.disk, Front(LocalPath(d)))
  <2>1. local
    BY <1>6, <1>10, LocalPlace
  <2>2. Shrunk(kept.disk, kept'.disk, loose) /\ Shrunk(kept.blobs, kept'.blobs, {})
    BY <1>5, <1>7, <1>10, <2>1, WithoutShrinks
  <2>3. LocalPath(d) \in loose /\ DiskOf(d, loose)
    BY <1>10, LocalFolder DEF DiskOf
  <2> HIDE DEF loose
  <2>4. Taken(kept, d, {}, loose, kept'.stranded) /\ BlobsOf(d, {})
    BY <1>6, <1>10, <2>3 DEF Taken, BlobsOf
  <2> QED
    BY <1>1, <1>8, <1>9, <1>12, <2>2, <2>3, <2>4, DatasetRemoved
<1>11. CASE path = CloudPath(d)
  <2>1. ~local
    BY <1>6, <1>11, CloudPlace
  <2>2. Shrunk(kept.disk, kept'.disk, {})
    BY <1>5, <1>7, <2>1, WithoutShrinks
  <2>3. CASE kept.cloud
    <3>1. Shrunk(kept.blobs, kept'.blobs, fated)
      BY <1>5, <1>7, <2>1, <2>3, WithoutShrinks
    <3>2. /\ \A p \in DOMAIN CloudFiles(d) : p \in DOMAIN kept.blobs => p \in fated
          /\ BlobsOf(d, fated)
      BY <1>6, <1>11, CloudFolder DEF BlobsOf
    <3>3. Taken(kept, d, fated, {}, kept'.stranded) /\ DiskOf(d, {})
      BY <1>6, <1>11, <3>2 DEF Taken, DiskOf
    <3> QED
      BY <1>1, <1>8, <1>9, <1>12, <2>2, <3>1, <3>2, <3>3, DatasetRemoved
  <2>4. CASE ~kept.cloud
    <3>1. Shrunk(kept.blobs, kept'.blobs, {}) /\ d \in kept'.stranded
      BY <1>5, <1>7, <2>1, <2>4, WithoutShrinks
    <3>2. Taken(kept, d, {}, {}, kept'.stranded) /\ DiskOf(d, {}) /\ BlobsOf(d, {})
      BY <1>6, <1>11, <3>1 DEF Taken, DiskOf, BlobsOf
    <3> QED
      BY <1>1, <1>8, <1>9, <1>12, <2>2, <3>1, <3>2, DatasetRemoved
  <2> QED
    BY <1>1, <2>3, <2>4
<1> QED
  BY <1>4, <1>10, <1>11

LEMMA Front2 ==
  ASSUME NEW a, NEW b, NEW z
  PROVE Front(<<a, b, z>>) = <<a, b>>
<1>1. SubSeq(<<a, b, z>>, 1, 2) = [i \in 1..2 |-> <<a, b, z>>[i]]
  OBVIOUS
<1>2. [i \in 1..2 |-> <<a, b, z>>[i]] = <<a, b>>
  OBVIOUS
<1>3. Front(<<a, b, z>>) = SubSeq(<<a, b, z>>, 1, 2)
  BY DEF Front
<1> QED
  BY <1>1, <1>2, <1>3

LEMMA Join2 ==
  ASSUME NEW a, NEW b, NEW z
  PROVE <<a, b>> \o <<z>> = <<a, b, z>>
<1> DEFINE s == <<a, b>>
           t == <<z>>
<1>1. s \o t = [i \in 1..3 |-> IF i <= 2 THEN s[i] ELSE t[i - 2]]
  OBVIOUS
<1>2. [i \in 1..3 |-> IF i <= 2 THEN s[i] ELSE t[i - 2]] = <<a, b, z>>
  OBVIOUS
<1> QED
  BY <1>1, <1>2

LEMMA Join3 ==
  ASSUME NEW a, NEW b, NEW c, NEW z
  PROVE <<a, b, c>> \o <<z>> = <<a, b, c, z>>
<1> DEFINE s == <<a, b, c>>
           t == <<z>>
<1>1. s \o t = [i \in 1..4 |-> IF i <= 3 THEN s[i] ELSE t[i - 3]]
  OBVIOUS
<1>2. [i \in 1..4 |-> IF i <= 3 THEN s[i] ELSE t[i - 3]] = <<a, b, c, z>>
  OBVIOUS
<1> QED
  BY <1>1, <1>2

LEMMA RemovedRows ==
  ASSUME NEW some, NEW s \in Seq(some), NEW n \in DOMAIN s
  PROVE /\ RemoveAt(s, n) \in Seq(some) /\ Len(RemoveAt(s, n)) = Len(s) - 1
        /\ \A m \in DOMAIN RemoveAt(s, n) : \E i \in DOMAIN s : RemoveAt(s, n)[m] = s[i]
<1>1. n \in 1..Len(s) /\ Len(s) \in Nat
  OBVIOUS
<1>2. /\ SubSeq(s, 1, n - 1) \in Seq(some) /\ Len(SubSeq(s, 1, n - 1)) = n - 1
      /\ \A i \in 1..(n - 1) : SubSeq(s, 1, n - 1)[i] = s[i]
  BY <1>1
<1>3. /\ SubSeq(s, n + 1, Len(s)) \in Seq(some) /\ Len(SubSeq(s, n + 1, Len(s))) = Len(s) - n
      /\ \A i \in 1..(Len(s) - n) : SubSeq(s, n + 1, Len(s))[i] = s[n + i]
  BY <1>1
<1> DEFINE a == SubSeq(s, 1, n - 1)
           b == SubSeq(s, n + 1, Len(s))
<1>4. RemoveAt(s, n) = a \o b
  BY DEF RemoveAt
<1>5. a \o b \in Seq(some) /\ DOMAIN (a \o b) = 1..(Len(s) - 1) /\ Len(a \o b) = Len(s) - 1
      /\ \A m \in 1..(Len(s) - 1) : (a \o b)[m] = IF m <= n - 1 THEN a[m] ELSE b[m - (n - 1)]
  <2> HIDE DEF a, b
  <2>1. a \in Seq(some) /\ b \in Seq(some) /\ Len(a) = n - 1 /\ Len(b) = Len(s) - n
    BY <1>2, <1>3 DEF a, b
  <2>2. Len(a) + Len(b) = Len(s) - 1 /\ Len(s) - 1 \in Nat
    BY <1>1, <2>1
  <2>3. a \o b \in Seq(some)
    BY <2>1
  <2>4. DOMAIN (a \o b) = 1..(Len(a) + Len(b)) /\ Len(a \o b) = Len(a) + Len(b)
        /\ \A m \in 1..(Len(a) + Len(b)) : (a \o b)[m] = IF m <= Len(a) THEN a[m] ELSE b[m - Len(a)]
    BY <2>1
  <2> QED
    BY <2>1, <2>2, <2>3, <2>4
<1>6. ASSUME NEW m \in 1..(Len(s) - 1) PROVE \E i \in DOMAIN s : (a \o b)[m] = s[i]
  <2>1. CASE m <= n - 1
    <3>1. a[m] = s[m] /\ m \in DOMAIN s
      BY <1>1, <1>2, <2>1
    <3> QED
      BY <1>5, <2>1, <3>1
  <2>2. CASE ~(m <= n - 1)
    <3>1. m - (n - 1) \in 1..(Len(s) - n)
      BY <1>1, <2>2
    <3>2. b[m - (n - 1)] = s[n + (m - (n - 1))]
      <4> HIDE DEF b
      <4>1. \A i \in 1..(Len(s) - n) : b[i] = s[n + i]
        BY <1>3 DEF b
      <4> QED
        BY <3>1, <4>1
    <3>3. n + (m - (n - 1)) \in DOMAIN s
      BY <1>1, <3>1
    <3> QED
      BY <1>5, <2>2, <3>2, <3>3
  <2> QED
    BY <2>1, <2>2
<1> QED
  BY <1>4, <1>5, <1>6

LEMMA ModelGone ==
  ASSUME KeptInv(kept), NEW n, RemoveModel(n)
  PROVE KeptInv(kept')
<1> DEFINE row == kept.models[n]
           lost == {Front(row.path) \o <<p>> : p \in row.parts \cap {"model", "onnx"}}
           blobs == IF kept.cloud THEN Without(kept.blobs, lost) ELSE kept.blobs
           models == RemoveAt(kept.models, n)
<1>1. KeptShape(kept) /\ kept.cloud \in BOOLEAN /\ n \in DOMAIN kept.models
  BY DEF KeptInv, KeptShape, RemoveModel
<1>2. RowAt(kept, row)
  BY <1>1 DEF KeptInv
<1>3. kept' = [kept EXCEPT !.blobs = IF kept.cloud THEN Without(@, lost) ELSE @,
                           !.models = RemoveAt(@, n), !.gone = @ \cup {<<row.job>>}]
  BY Zenon DEF RemoveModel
<1>4. kept' = [cloud |-> kept.cloud, blobs |-> blobs, disk |-> kept.disk, named |-> kept.named, models |-> models,
               tries |-> kept.tries, gone |-> kept.gone \cup {<<row.job>>}, stranded |-> kept.stranded,
               saves |-> kept.saves, switches |-> kept.switches]
  BY <1>1, <1>3, Zenon DEF KeptShape
<1>5. PICK j \in ModelJobs : j = row.job
  BY <1>2 DEF RowAt
\* What the models' two files are called when the model lies in the cloud; a
\* local model's path leads to no blob.
<1>6. \E gap : /\ Shrunk(kept.blobs, blobs, gap)
               /\ \A p \in gap : \E part \in PartNames : p = <<"models", j, part>>
  <2>1. CASE row.cloud
    <3>1. row.path = <<"models", j, "model">>
      BY <1>2, <1>5, <2>1 DEF RowAt, ModelPath
    <3>2. Front(row.path) = <<"models", j>>
      BY <3>1, Front2
    <3>3. \A p \in lost : \E part \in PartNames : p = <<"models", j, part>>
      BY <3>2, Join2 DEF PartNames
    <3> HIDE DEF lost, row
    <3>4. CASE kept.cloud
      <4>1. blobs = Without(kept.blobs, lost)
        BY <3>4
      <4>2. Shrunk(kept.blobs, blobs, lost)
        BY <4>1, WithoutShrinks
      <4> QED
        BY <3>3, <4>2
    <3>5. CASE ~kept.cloud
      <4>1. blobs = kept.blobs
        BY <3>5
      <4>2. Shrunk(kept.blobs, blobs, {})
        BY <4>1, WithoutShrinks
      <4> QED
        BY <4>2
    <3> QED
      BY <1>1, <3>4, <3>5
  <2>2. CASE ~row.cloud
    <3>1. row.path = <<"storage", "models", j, "model">>
      BY <1>2, <1>5, <2>2 DEF RowAt, ModelPath
    <3>2. Front(row.path) = <<"storage", "models", j>>
      BY <3>1, Front3
    <3>3. ASSUME NEW p \in lost PROVE p[1] = "storage"
      <4>1. PICK part : p = Front(row.path) \o <<part>>
        OBVIOUS
      <4>2. p = <<"storage", "models", j, part>>
        BY <3>2, <4>1, Join3
      <4> QED
        BY <4>2
    <3>4. \A p \in lost : p \notin DOMAIN kept.blobs
      BY <3>3 DEF KeptInv, StoresOK
    <3> HIDE DEF lost, row
    <3>6. Shrunk(kept.blobs, Without(kept.blobs, lost), {})
      BY <3>4, WithoutShrinks DEF Shrunk
    <3>7. blobs = Without(kept.blobs, lost) \/ blobs = kept.blobs
      OBVIOUS
    <3> HIDE DEF blobs
    <3>5. Shrunk(kept.blobs, blobs, {})
      BY <3>6, <3>7, WithoutShrinks
    <3> QED
      BY <3>5
  <2> QED
    BY <1>2, <2>1, <2>2 DEF RowAt
<1>7. \A m \in DOMAIN models : \E i \in DOMAIN kept.models : models[m] = kept.models[i]
  BY <1>1, RemovedRows DEF KeptShape
<1>8. \E some : models \in Seq(some)
  BY <1>1, RemovedRows DEF KeptShape
<1> HIDE DEF blobs, models, lost
<1>9. /\ kept'.cloud = kept.cloud /\ kept'.blobs = blobs /\ kept'.disk = kept.disk /\ kept'.named = kept.named
      /\ kept'.models = models /\ kept'.tries = kept.tries /\ kept'.gone = kept.gone \cup {<<j>>}
      /\ kept'.stranded = kept.stranded /\ kept'.saves = kept.saves
      /\ kept' = [cloud |-> kept'.cloud, blobs |-> kept'.blobs, disk |-> kept'.disk, named |-> kept'.named,
                   models |-> kept'.models, tries |-> kept'.tries, gone |-> kept'.gone,
                   stranded |-> kept'.stranded, saves |-> kept'.saves, switches |-> kept'.switches]
  BY <1>4, <1>5, KeptFields
<1>10. KeptShape(kept')
  BY <1>1, <1>8, <1>9 DEF KeptShape
<1> QED
  BY <1>6, <1>7, <1>9, <1>10, ModelRemoved

LEMMA Reconfigured ==
  ASSUME KeptInv(kept), Reconfigure
  PROVE KeptInv(kept')
<1>1. KeptShape(kept)
  BY DEF KeptInv
<1>2. kept' = [kept EXCEPT !.cloud = ~@, !.switches = @ + 1]
  BY DEF Reconfigure
<1>3. kept' = [cloud |-> ~kept.cloud, blobs |-> kept.blobs, disk |-> kept.disk, named |-> kept.named,
               models |-> kept.models, tries |-> kept.tries, gone |-> kept.gone, stranded |-> kept.stranded,
               saves |-> kept.saves, switches |-> kept.switches + 1]
  BY <1>1, <1>2, Zenon DEF KeptShape
<1>4. PICK c \in BOOLEAN : kept' = [cloud |-> c, blobs |-> kept.blobs, disk |-> kept.disk, named |-> kept.named,
               models |-> kept.models, tries |-> kept.tries, gone |-> kept.gone, stranded |-> kept.stranded,
               saves |-> kept.saves, switches |-> kept.switches + 1]
  BY <1>3
<1>5. /\ kept'.cloud = c /\ kept'.blobs = kept.blobs /\ kept'.disk = kept.disk /\ kept'.named = kept.named
      /\ kept'.models = kept.models /\ kept'.tries = kept.tries /\ kept'.gone = kept.gone
      /\ kept'.stranded = kept.stranded /\ kept'.saves = kept.saves
      /\ kept' = [cloud |-> kept'.cloud, blobs |-> kept'.blobs, disk |-> kept'.disk, named |-> kept'.named,
                   models |-> kept'.models, tries |-> kept'.tries, gone |-> kept'.gone,
                   stranded |-> kept'.stranded, saves |-> kept'.saves, switches |-> kept'.switches]
  BY <1>4, KeptFields
<1>6. KeptShape(kept') /\ StoresOK(kept')
  BY <1>1, <1>5 DEF KeptShape, KeptInv, StoresOK
<1>7. (\A n \in DOMAIN kept'.named : NamedAt(kept', n)) /\ DatasetFiles(kept') /\ FeatureFiles(kept')
  BY <1>5, OthersUntouched
<1>8. ModelFiles(kept') /\ \A n \in DOMAIN kept'.models : RowAt(kept', kept'.models[n])
  <2>1. \A cloud : StoreOf(kept', cloud) = StoreOf(kept, cloud)
    BY <1>5 DEF StoreOf
  <2> QED
    BY <1>5, <2>1, ModelsUntouched DEF KeptInv
<1> QED
  BY <1>5, <1>6, <1>7, <1>8 DEF KeptInv

LEMMA KeptInvInit == BlobInit => KeptInv(kept)
<1> SUFFICES ASSUME BlobInit PROVE KeptInv(kept)
  OBVIOUS
<1>1. kept = [cloud |-> TRUE, blobs |-> <<>>, disk |-> <<>>, named |-> <<>>, models |-> <<>>,
              tries |-> [j \in ModelJobs |-> 0], gone |-> {}, stranded |-> {}, saves |-> 0, switches |-> 0]
  BY DEF BlobInit, EmptyStores
<1>2. /\ kept.cloud = TRUE /\ kept.blobs = <<>> /\ kept.disk = <<>> /\ kept.named = <<>> /\ kept.models = <<>>
      /\ kept.tries = [j \in ModelJobs |-> 0] /\ kept.gone = {} /\ kept.saves = 0
      /\ kept = [cloud |-> kept.cloud, blobs |-> kept.blobs, disk |-> kept.disk, named |-> kept.named,
                 models |-> kept.models, tries |-> kept.tries, gone |-> kept.gone,
                 stranded |-> kept.stranded, saves |-> kept.saves, switches |-> kept.switches]
  BY <1>1, KeptFields
<1>3. DOMAIN kept.blobs = {} /\ DOMAIN kept.disk = {} /\ DOMAIN kept.named = {} /\ DOMAIN kept.models = {}
  BY <1>2
<1>4. KeptShape(kept)
  <2>1. kept.models \in Seq({})
    BY <1>2
  <2> QED
    <3>1. \E some : kept.models \in Seq(some)
      BY <2>1
    <3>2. kept.cloud \in BOOLEAN /\ kept.tries \in [ModelJobs -> Nat] /\ kept.saves \in Nat
      <4>1. [j \in ModelJobs |-> 0] \in [ModelJobs -> Nat]
        OBVIOUS
      <4>2. kept.cloud = TRUE /\ kept.tries = [j \in ModelJobs |-> 0] /\ kept.saves = 0
        BY <1>2
      <4>3. 0 \in Nat
        OBVIOUS
      <4>4. kept.cloud \in BOOLEAN
        BY <4>2, Zenon
      <4>5. kept.tries \in [ModelJobs -> Nat]
        BY <4>1, <4>2, Zenon
      <4>6. kept.saves \in Nat
        BY <4>2, <4>3, Zenon
      <4> QED
        BY <4>4, <4>5, <4>6
    <3> QED
      BY <1>2, <1>3, <3>1, <3>2, Zenon DEF KeptShape
<1>5. \A cloud : DOMAIN StoreOf(kept, cloud) = {}
  BY <1>3 DEF StoreOf
<1>6. StoresOK(kept) /\ DatasetFiles(kept) /\ FeatureFiles(kept) /\ ModelFiles(kept)
  BY <1>3, <1>5 DEF StoresOK, DatasetFiles, FeatureFiles, ModelFiles
<1> QED
  BY <1>3, <1>4, <1>6 DEF KeptInv

LEMMA KeptInvStep == KeptInv(kept) /\ [BlobNext]_blobVars => KeptInv(kept)'
<1> SUFFICES ASSUME KeptInv(kept), [BlobNext]_blobVars PROVE KeptInv(kept')
  OBVIOUS
<1>1. CASE UNCHANGED blobVars
  BY <1>1, Zenon DEF blobVars
<1>2. CASE BlobNext
  BY <1>2, DatasetKept, SplitKept, FeaturesKept, ModelKept, DatasetGone, ModelGone, Reconfigured DEF BlobNext
<1> QED
  BY <1>1, <1>2

LEMMA DatasetsRead ==
  ASSUME KeptInv(kept), NEW n \in DOMAIN kept.named, n \in StoredDatasets, Reachable(kept.named[n])
  PROVE /\ ReadDataset(kept, kept.named[n]) = <<n, "data">> /\ ReadForPreview(kept, kept.named[n]) = <<n, "data">>
        /\ ReadForPlan(kept, kept.named[n]) = IF IsLocal(kept, kept.named[n]) THEN Missing ELSE <<n, "data">>
        /\ UrlStore(kept, kept.named[n])[kept.named[n]] = <<n, "data">>
<1>1. StoresOK(kept) /\ NamedAt(kept, n)
  BY DEF KeptInv
<1>2. CASE /\ kept.named[n] = LocalPath(n) /\ LocalPath(n) \in DOMAIN kept.disk
           /\ kept.disk[LocalPath(n)] = <<n, "data">>
  <2>1. LocalPath(n) \notin DOMAIN kept.blobs
    BY <1>1, LocalPlace DEF StoresOK
  <2> QED
    BY <1>2, <2>1 DEF ReadDataset, ReadForPreview, ReadForPlan, UrlStore, IsLocal, BlobAt
<1>3. CASE /\ kept.named[n] = CloudPath(n) /\ CloudPath(n) \in DOMAIN kept.blobs
           /\ kept.blobs[CloudPath(n)] = <<n, "data">>
  <2>1. CloudPath(n) \notin DOMAIN kept.disk /\ CloudPath(n)[1] # "storage"
    BY <1>1, CloudPlace DEF StoresOK
  <2>2. kept.cloud
    BY <1>3, <2>1 DEF Reachable
  <2> QED
    BY <1>3, <2>1, <2>2 DEF ReadDataset, ReadForPreview, ReadForPlan, UrlStore, IsLocal, BlobAt
<1> QED
  BY <1>1, <1>2, <1>3 DEF NamedAt

LEMMA ContainerPath ==
  ASSUME NEW kind, NEW f
  PROVE /\ FeatureContainer(<<"features", kind, f, "features">>) = <<"features", "features", kind, f, "features">>
        /\ <<"storage">> \o <<"features", kind, f, "features">> = <<"storage", "features", kind, f, "features">>
<1> DEFINE t == <<"features", kind, f, "features">>
<1>1. ASSUME NEW a PROVE <<a>> \o t = <<a, "features", kind, f, "features">>
  <2> DEFINE s == <<a>>
  <2>1. s \o t = [i \in 1..5 |-> IF i <= 1 THEN s[i] ELSE t[i - 1]]
    OBVIOUS
  <2>2. [i \in 1..5 |-> IF i <= 1 THEN s[i] ELSE t[i - 1]] = <<a, "features", kind, f, "features">>
    OBVIOUS
  <2> QED
    BY <2>1, <2>2
<1> QED
  BY <1>1, Zenon DEF FeatureContainer

LEMMA FeaturesRead ==
  ASSUME KeptInv(kept), NEW n \in DOMAIN kept.named, n \notin StoredDatasets, Reachable(kept.named[n])
  PROVE ReadForAnalysis(kept, kept.named[n]) = <<n, "features">>
<1>1. StoresOK(kept) /\ NamedAt(kept, n)
  BY DEF KeptInv
<1>2. PICK f \in FeatureIds :
         /\ n = <<f>>
         /\ \/ \E dir \in FeatureFolders :
                 LET path == <<"storage", "features", dir, f, "features">> IN
                 kept.named[n] = path /\ path \in DOMAIN kept.disk /\ kept.disk[path] = <<n, "features">>
            \/ \E kind \in FeatureKinds :
                 LET path == <<"features", "features", kind, f, "features">> IN
                 /\ kept.named[n] = <<"features", kind, f, "features">>
                 /\ path \in DOMAIN kept.blobs /\ kept.blobs[path] = <<n, "features">>
  BY <1>1 DEF NamedAt
<1>3. CASE kept.named[n] \in DOMAIN kept.disk /\ kept.disk[kept.named[n]] = <<n, "features">>
  BY <1>3 DEF ReadForAnalysis
<1>4. CASE \E kind \in FeatureKinds :
             LET path == <<"features", "features", kind, f, "features">> IN
             /\ kept.named[n] = <<"features", kind, f, "features">>
             /\ path \in DOMAIN kept.blobs /\ kept.blobs[path] = <<n, "features">>
  <2>1. PICK kind \in FeatureKinds :
             LET path == <<"features", "features", kind, f, "features">> IN
             /\ kept.named[n] = <<"features", kind, f, "features">>
             /\ path \in DOMAIN kept.blobs /\ kept.blobs[path] = <<n, "features">>
    BY <1>4
  <2> DEFINE path == <<"features", kind, f, "features">>
             lies == <<"features", "features", kind, f, "features">>
  <2>2. path[1] = "features" /\ path \notin DOMAIN kept.disk
    BY <1>1 DEF StoresOK
  <2>3. kept.cloud
    BY <2>1, <2>2 DEF Reachable
  <2>4. FeatureContainer(path) = lies
    BY ContainerPath
  <2>5. BlobAt(kept, lies) = <<n, "features">> /\ BlobAt(kept, lies) # Missing
    BY <2>1, <2>3 DEF BlobAt, Missing
  <2>6. ReadForAnalysis(kept, path) = <<n, "features">>
    <3> HIDE DEF path, lies
    <3> QED
      BY <2>2, <2>4, <2>5 DEF ReadForAnalysis
  <2> QED
    BY <2>1, <2>6
<1> QED
  BY <1>2, <1>3, <1>4

LEMMA ModelsRead ==
  ASSUME KeptInv(kept), NEW row, RowAt(kept, row), row.cloud = kept.cloud, NEW part \in row.parts
  PROVE LET file == ReadModel(kept, row.path, part) IN
        IF file = Missing THEN <<row.job>> \in kept.gone
        ELSE file[1] = <<row.job>> /\ file[2] = part /\ file[3] \in row.try..kept.tries[row.job]
<1> DEFINE j == row.job
           lies == ModelPath(j, kept.cloud, part)
           store == StoreOf(kept, kept.cloud)
<1>1. /\ j \in ModelJobs /\ row.try \in 1..kept.tries[j] /\ kept.cloud \in BOOLEAN /\ part \in PartNames
      /\ row.path = ModelPath(j, kept.cloud, "model") /\ kept.tries[j] \in Nat
      /\ IF lies \in DOMAIN store THEN store[lies][3] >= row.try ELSE <<row.job>> \in kept.gone
  BY DEF RowAt, KeptInv, KeptShape
<1>2. ReadModel(kept, row.path, part) = IF lies \in DOMAIN store THEN store[lies] ELSE Missing
  <2>1. CASE kept.cloud
    <3>1. row.path = <<"models", j, "model">> /\ lies = <<"models", j, part>> /\ store = kept.blobs
      BY <1>1, <2>1 DEF ModelPath, StoreOf
    <3>2. Front(row.path) = <<"models", j>>
      BY <3>1, Front2
    <3>3. Front(row.path) \o <<part>> = lies
      BY <3>1, <3>2, Join2
    <3> HIDE DEF lies, store, j
    <3> QED
      BY <2>1, <3>1, <3>3 DEF ReadModel, BlobAt
  <2>2. CASE ~kept.cloud
    <3>1. row.path = <<"storage", "models", j, "model">> /\ lies = <<"storage", "models", j, part>>
          /\ store = kept.disk
      BY <1>1, <2>2 DEF ModelPath, StoreOf
    <3>2. Front(row.path) = <<"storage", "models", j>>
      BY <3>1, Front3
    <3>3. Front(row.path) \o <<part>> = lies
      BY <3>1, <3>2, Join3
    <3>4. row.path[1] # "models"
      BY <3>1
    <3> HIDE DEF lies, store, j
    <3> QED
      BY <2>2, <3>1, <3>3, <3>4 DEF ReadModel
  <2> QED
    BY <1>1, <2>1, <2>2
<1>3. lies \in DOMAIN store => /\ store[lies] = <<<<j>>, part, store[lies][3]>>
                               /\ store[lies][3] \in 1..kept.tries[j]
  BY <1>1 DEF KeptInv, ModelFiles
<1>4. <<<<j>>, part, store[lies][3]>> # Missing
  BY DEF Missing
<1> HIDE DEF lies, store
<1>5. CASE lies \in DOMAIN store
  <2>1. store[lies] # Missing /\ store[lies][1] = <<j>> /\ store[lies][2] = part
    BY <1>3, <1>4, <1>5
  <2>2. store[lies][3] \in row.try..kept.tries[j]
    BY <1>1, <1>3, <1>5
  <2> QED
    BY <1>2, <1>5, <2>1, <2>2
<1>6. CASE lies \notin DOMAIN store
  BY <1>1, <1>2, <1>6
<1> QED
  BY <1>5, <1>6

LEMMA KeptInvStands == KeptInv(kept) => BlobsStand
<1> SUFFICES ASSUME KeptInv(kept) PROVE BlobsStand
  OBVIOUS
<1>1. ReadersFindTheirs
  BY DatasetsRead, FeaturesRead DEF ReadersFindTheirs
<1>2. ModelsAreWhole
  BY ModelsRead DEF ModelsAreWhole, KeptInv
<1>3. RemovalsAreWhole
  <2> SUFFICES ASSUME NEW d \in (kept.gone \ kept.stranded) \cap StoredDatasets
               PROVE /\ \A p \in DOMAIN kept.blobs : kept.blobs[p][1] # d
                     /\ \A p \in DOMAIN kept.disk : kept.disk[p][1] # d
    BY DEF RemovalsAreWhole
  <2> QED
    BY DEF KeptInv, DatasetFiles
<1> QED
  BY <1>1, <1>2, <1>3 DEF BlobsStand

\* The workers, the planner and the pages of datasets find under the path of a row
\* what the row stands for, a model is read whole, and a removed dataset leaves
\* nothing behind, but for the cases that are named, for any number of artifacts,
\* removals and reconfigurations.  The pages of feature sets find nothing.
THEOREM PathsKeepApart == Spec => []BlobsStand
<1>1. Init => KeptInv(kept)
  BY KeptInvInit DEF Init
<1>2. KeptInv(kept) /\ [Next]_vars => KeptInv(kept)'
  BY ComputationStep, KeptInvStep
<1>3. KeptInv(kept) => BlobsStand
  BY KeptInvStands
<1> QED
  BY <1>1, <1>2, <1>3, PTL DEF Spec
=============================================================================
