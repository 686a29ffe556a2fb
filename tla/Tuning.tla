------------------------------- MODULE Tuning --------------------------------
(***************************************************************************)
(* The tuner of a training job: how what the client gave for one           *)
(* parameter, a value, a list, a range or null, becomes the candidates a   *)
(* search tries, and what the model is fitted with in the end.  The three  *)
(* searches and the API's check of their input were written apart.         *)
(***************************************************************************)
EXTENDS Integers, Sequences, FiniteSets, SequencesExt

CONSTANTS
  MostHalves,   \* bound: the largest number given
  Draws         \* n_iter: how often a random or bayesian search draws
ASSUME TuningAssumption == MostHalves \in Nat /\ Draws \in Nat \ {0}

VARIABLE search   \* the parameter, what was given, what may be and what was
                  \* compared, the outcome

tuningVars == <<search>>

-----------------------------------------------------------------------------
(* Numbers are in halves: a client's JSON writes 1.0 as 1, so that Python   *)
(* reads an int where the number is even and a float where it is odd.       *)

Amounts == 0..MostHalves
IsWhole(v) == v % 2 = 0
InUnits(v) == v \div 2
NoStep == 0
Truncated(v) == v - (v % 2)
DefaultValue == -1   \* the one of the constructor or, for None, of the library

Single(v) == [kind |-> "one", values |-> <<v>>, step |-> NoStep]
Listed(q) == [kind |-> "list", values |-> q, step |-> NoStep]
Ranged(low, high, step) == [kind |-> "range", values |-> <<low, high>>, step |-> step]
Null == [kind |-> "null", values |-> <<>>, step |-> NoStep]

\* Bound: the lists are in order.
Increasing ==
  {q \in UNION {[1..n -> Amounts] : n \in 0..MostHalves + 1} :
     \A i, j \in DOMAIN q : i < j => q[i] < q[j]}

Settings ==
  {Single(v) : v \in Amounts} \cup {Listed(q) : q \in Increasing} \cup {Null}
  \cup {Ranged(low, high, step) : low, high \in Amounts, step \in {NoStep, 1, 2, 4}}

Searches == {"grid", "random", "bayesian"}
Tuners == {"manual"} \cup Searches

\* A parameter of the model is a real number or a whole one, which some
\* constructors cut to its int; rounds are those of early stopping; config is
\* not of the model (test_size, ...).  Any whole number will do.
Wholes == {"whole", "cut"}
Parameters == Wholes \cup {"real", "rounds", "config"}

Low(setting) == setting.values[1]
High(setting) == setting.values[2]

\* The API's own check: a range has two ends in order, which a bayesian search
\* wants distinct, and a grid takes lists only.
Contracted(tuner, setting) ==
  setting.kind = "range" =>
    /\ tuner # "grid" /\ Low(setting) <= High(setting)
    /\ tuner = "bayesian" => Low(setting) < High(setting)

-----------------------------------------------------------------------------
(* From what is given to candidates: a set of values; "raise" for what the  *)
(* tuner or sklearn refuses; nothing for a name that is left out.           *)

Candidates(values) == [raises |-> FALSE, values |-> values]
Raises == [raises |-> TRUE, values |-> {}]

GridCap == 5

\* A list is cut to its first five; a grid wants a list that is not empty.
GridList(setting) ==
  IF setting.kind = "one" THEN Candidates(ToSet(setting.values))
  ELSE IF setting.kind = "list" /\ setting.values # <<>>
  THEN Candidates(ToSet(SubSeq(setting.values, 1, IF Len(setting.values) < GridCap THEN Len(setting.values) ELSE GridCap)))
  ELSE Raises

Between(low, high) == low..high
WholesBetween(low, high) == {v \in low..high : IsWhole(v)}

\* Mutant: randint's own upper end, which is exclusive.
ExclusiveDistribution(low, high, step) ==
  Candidates(IF IsWhole(low) /\ IsWhole(high)
             THEN {v \in WholesBetween(low, high) : v < high \/ v = low} ELSE Between(low, high))

BetweenFloats(setting) ==
  setting.kind = "range" /\ ~(IsWhole(Low(setting)) /\ IsWhole(High(setting)))

\* uniform if an end is a float, else arange with a step, else randint whose
\* upper end is made inclusive.  A step below one has no int.
Distribution(low, high, step) ==
  IF low = high THEN Candidates({low})
  ELSE IF ~IsWhole(low) \/ ~IsWhole(high) THEN Candidates(Between(low, high))
  ELSE IF step = NoStep THEN Candidates(WholesBetween(low, high))
  ELSE IF InUnits(step) = 0 THEN Raises
  ELSE Candidates({v \in WholesBetween(low, high) : InUnits(v - low) % InUnits(step) = 0})

RandomDistribution(setting) ==
  IF setting.kind = "range" THEN Distribution(Low(setting), High(setting), setting.step)
  ELSE IF setting.kind = "null" \/ setting.values = <<>> THEN Raises
  ELSE Candidates(ToSet(setting.values))

\* Real, Integer or Categorical; what is no dimension is left out.
Dimension(setting) ==
  IF setting.kind # "range" THEN Candidates(ToSet(setting.values))
  ELSE LET low == Low(setting) high == High(setting) IN
       Candidates(IF IsWhole(low) /\ IsWhole(high) THEN WholesBetween(low, high) ELSE Between(low, high))

\* The keys that are not the model's, each tuner with a list of its own.
NonModel(tuner) == {"config"} \cup (IF tuner \in {"random", "bayesian"} THEN {"rounds"} ELSE {})

Space(tuner, param, setting) ==
  IF param \in NonModel(tuner) THEN Candidates({})
  ELSE IF tuner = "grid" THEN GridList(setting)
  ELSE IF tuner = "random" THEN RandomDistribution(setting)
  ELSE Dimension(setting)

\* Manual: the constructor takes values and None, drops ranges and rounds, and
\* refuses a list.
Constructed(param, setting) ==
  IF param \in {"config", "rounds"} \/ setting.kind \in {"range", "null"} THEN Candidates({})
  ELSE IF setting.kind = "list" THEN Raises
  ELSE Candidates(ToSet(setting.values))

-----------------------------------------------------------------------------
Sizes == {"few", "many"}
Idle == [at |-> "idle"]
TuningInit == search = Idle

\* others: more parameters are searched with this one, so that a random search
\* draws combinations and not its values.
AskTuning ==
  /\ search = Idle
  /\ \E tuner \in Tuners, param \in Parameters, setting \in Settings, rows \in Sizes :
       /\ Contracted(tuner, setting)
       /\ param \in {"rounds", "config"} => setting.kind = "one"
       /\ \E others \in BOOLEAN :
            /\ others => tuner = "random"
            /\ search' = [at |-> "asked", tuner |-> tuner, param |-> param, setting |-> setting,
                          rows |-> rows, others |-> others, space |-> {}, tried |-> {},
                          best |-> DefaultValue, seen |-> {}]

\* Without candidates the pipeline is fitted as it was constructed.
PrepareSpace ==
  /\ search.at = "asked" /\ search.tuner \in Searches
  /\ LET space == Space(search.tuner, search.param, search.setting)
     IN search' = IF space.raises THEN [search EXCEPT !.at = "raised"]
                  ELSE [search EXCEPT !.at = IF space.values = {} THEN "fit" ELSE "compare",
                                      !.space = space.values]

\* A whole parameter takes no fraction, nor what is drawn between two floats;
\* a pipeline takes no early stopping.
Usable(v) ==
  \/ v = DefaultValue
  \/ /\ search.param \in Wholes => IsWhole(v) /\ ~BetweenFloats(search.setting)
     /\ search.param = "rounds" => v = 0

\* What was drawn is compared on some rows, and the best is kept.  A fit that
\* fails fails the search.
Compare(tried, rows) ==
  \/ /\ \A v \in tried : Usable(v)
     /\ \E best \in tried :
          search' = [search EXCEPT !.at = "fit", !.tried = tried, !.best = best, !.seen = {rows}]
  \/ /\ \E v \in tried : ~Usable(v)
     /\ search' = [search EXCEPT !.at = "raised", !.tried = tried]

Comparing(tuner) == search.at = "compare" /\ search.tuner = tuner

\* A sample is drawn of many rows.
ComparedOn(rows) == IF rows = "many" THEN "sample" ELSE "all"

GridSearch == Comparing("grid") /\ Compare(search.space, ComparedOn(search.rows))

\* Of lists alone combinations are drawn without repetition, all if there are
\* no more than the draws.
Sample(space) ==
  IF Cardinality(space) <= Draws THEN {space}
  ELSE {tried \in SUBSET space : Cardinality(tried) = Draws}

Drawn(space) == {tried \in SUBSET space : tried # {} /\ Cardinality(tried) <= Draws}

IsDistribution(setting) ==
  /\ setting.kind = "range" /\ Low(setting) # High(setting)
  /\ BetweenFloats(setting) \/ setting.step = NoStep

RandomSearch ==
  /\ Comparing("random")
  /\ \E tried \in IF search.others \/ IsDistribution(search.setting) THEN Drawn(search.space)
                  ELSE Sample(search.space) : Compare(tried, "all")

\* The optimizer may ask for what it has asked for before.
BayesianSearch == Comparing("bayesian") /\ \E tried \in Drawn(search.space) : Compare(tried, "all")

Fitted(v) ==
  IF Usable(v) THEN [search EXCEPT !.at = "done", !.best = v, !.seen = @ \cup {"all"}]
  ELSE [search EXCEPT !.at = "raised"]

\* With all rows: the grid's own last step, the searches' of the libraries.
FitBest == search.at = "fit" /\ search' = Fitted(search.best)

\* Manual: the model is constructed with the value, if there is one, and fitted;
\* None, which takes the place of the trainer's default, not every library takes.
FitManually ==
  /\ search.at = "asked" /\ search.tuner = "manual"
  /\ LET space == Constructed(search.param, search.setting)
         given == IF search.param = "cut" THEN Truncated(Low(search.setting)) ELSE Low(search.setting)
     IN \/ search' = IF space.raises THEN [search EXCEPT !.at = "raised"]
                     ELSE Fitted(IF space.values = {} THEN DefaultValue ELSE given)
        \/ /\ search.param \in Wholes \cup {"real"} /\ search.setting.kind = "null"
           /\ search' = [search EXCEPT !.at = "raised"]

TuningNext ==
  \/ AskTuning \/ PrepareSpace \/ GridSearch \/ RandomSearch \/ BayesianSearch
  \/ FitBest \/ FitManually

TuningTypeOK ==
  search # Idle =>
    /\ search.at \in {"asked", "compare", "fit", "done", "raised"}
    /\ search.tuner \in Tuners /\ search.param \in Parameters /\ search.setting \in Settings
    /\ search.others \in BOOLEAN /\ search.space \subseteq Amounts
    /\ search.tried \subseteq search.space /\ search.best \in Amounts \cup {DefaultValue}
    /\ search.seen \subseteq {"all", "sample"}

-----------------------------------------------------------------------------
(* Properties.                                                             *)

\* The values that were asked for.
Asked ==
  LET s == search.setting IN
  IF s.kind = "range"
  THEN {v \in Between(Low(s), High(s)) : search.param \in Wholes => IsWhole(v)}
  ELSE ToSet(s.values)

\* What a search can never try of what was asked: the end of a long list in a
\* grid, what a step jumps over, and all fractions between two whole ends, by
\* which a range from 0 to 1 has two candidates.
LeavesOut(v) ==
  LET s == search.setting IN
  \/ search.tuner = "grid" /\ s.kind = "list" /\ Len(s.values) > GridCap /\ v > s.values[GridCap]
  \/ search.tuner = "random" /\ s.kind = "range" /\ s.step # NoStep
  \/ s.kind = "range" /\ IsWhole(Low(s)) /\ IsWhole(High(s)) /\ ~IsWhole(v)

\* The searches that are sure to compare all they can try: a grid, and a random
\* search of one parameter with no more values than draws.  The others compare
\* as many as they draw.
Exhaustive ==
  LET s == search.setting IN
  \/ search.tuner = "grid"
  \/ search.tuner = "random" /\ ~search.others /\ s.kind # "range"
     /\ Cardinality(ToSet(s.values)) <= Draws

\* A model that was fitted was fitted with all rows and has a value that was
\* asked for, or, trained manually, the int of one in a parameter that the
\* constructor cuts.  A search could have come to every value that was asked
\* for, an exhaustive one has compared it, and none has compared anything
\* else, nor more values than it may draw.  The value is the constructor's
\* where none was asked for, and for a range of manual training, and rounds or
\* an empty list that the tuner leaves out.
SearchedAsAsked ==
  search.at = "done" =>
    /\ "all" \in search.seen
    /\ IF search.best = DefaultValue
       THEN \/ search.setting.kind = "null" \/ search.param \in {"config", "rounds"}
            \/ search.tuner = "manual" /\ search.setting.kind = "range"
            \/ search.tuner = "bayesian" /\ search.setting.values = <<>>
       ELSE IF search.tuner = "manual"
       THEN \/ search.best \in Asked
            \/ search.param = "cut" /\ \E v \in Asked : search.best = Truncated(v)
       ELSE /\ search.best \in search.tried /\ search.tried \subseteq Asked
            /\ \A v \in Asked : v \in search.space \/ LeavesOut(v)
            /\ Exhaustive => \A v \in Asked : v \in search.tried \/ LeavesOut(v)
            /\ search.tuner # "grid" => Cardinality(search.tried) <= Draws
=============================================================================
