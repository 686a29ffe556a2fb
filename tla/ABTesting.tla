------------------------------ MODULE ABTesting ------------------------------
(***************************************************************************)
(* The A/B testing service: one object of the API process, whose memory is *)
(* written to one Redis key as a whole (_persist_state) and read back as a *)
(* whole (_load_state) at the start of most operations.  What is counted   *)
(* between two persists is in memory only.  The routed-traffic counters    *)
(* (champion_samples, challenger_samples) are displayed and decide nothing *)
(* (evaluate_test replaces them): only their persist is here.              *)
(***************************************************************************)
EXTENDS FiniteSets, ApiProcess

CONSTANTS
  Tests, NoTest,
  Champion, Challenger,   \* the arms of each test: functions to Models
  MinSamples,             \* min_samples of every test's configuration
  PersistEvery            \* buffered updates that force a persist (25 and 50)

ASSUME ABTestingAssumption ==
  /\ NoTest \notin Tests
  /\ Champion \in [Tests -> Models] /\ Challenger \in [Tests -> Models]
  /\ MinSamples \in Nat /\ PersistEvery \in Nat \ {0}

VARIABLES
  ab,      \* the service: its memory, the Redis key, the buffered updates
  issued   \* history: the ids given to tests so far

abVars == <<ab, issued>>

-----------------------------------------------------------------------------
Ended == {"COMPLETED", "ABORTED"}
Statuses == {"DRAFT", "RUNNING", "PAUSED"} \cup Ended
Arms == {"champion", "challenger"}
Arm(t, a) == IF a = "champion" THEN Champion[t] ELSE Challenger[t]

\* What an arm's metrics rest on: labelled rows, no labelled row, or (the
\* default evaluate_test fills in) the recorded traffic, labelled or not.
Metrics == {"none", "labelled", "unlabelled", "traffic"}

Draft == [status |-> "DRAFT", metrics |-> [a \in Arms |-> "none"], analysed |-> FALSE]

NoCounts == [m \in Models |-> 0]

Progress == {"IDLE", "INITIALIZING", "RUNNING", "COMPLETED", "FAILED"}

Empty == [tests |-> [t \in {} |-> Draft], active |-> NoTest,
          counts |-> [t \in Tests |-> NoCounts], progress |-> [t \in Tests |-> "IDLE"]]

NoUpdates == [route |-> 0, prediction |-> 0]

Known(s) == DOMAIN s.mem.tests
Status(s, t) == s.mem.tests[t].status

Records ==
  [status : Statuses, metrics : [Arms -> Metrics], analysed : BOOLEAN]

IsState(m) ==
  /\ DOMAIN m.tests \subseteq Tests
  /\ \A t \in DOMAIN m.tests : m.tests[t] \in Records
  /\ m.active \in Tests \cup {NoTest}
  /\ m.counts \in [Tests -> [Models -> Nat]]
  /\ m.progress \in [Tests -> Progress]

ABTypeOK ==
  /\ IsState(ab.mem) /\ IsState(ab.store)
  /\ ab.stored \in BOOLEAN
  /\ ab.updates \in [route : 0..PersistEvery, prediction : 0..PersistEvery]
  /\ issued \subseteq Tests
  /\ spent \in 0..MaxEvents /\ faulty \in BOOLEAN

ABInit ==
  /\ ab = [mem |-> Empty, store |-> Empty, stored |-> FALSE, updates |-> NoUpdates]
  /\ issued = {} /\ spent = 0 /\ faulty = FALSE

-----------------------------------------------------------------------------
(* Memory and snapshot: ok says that Redis answered. *)

\* The counters of buffered updates are reset only by a write.
Persist(s, ok) ==
  IF ok THEN [s EXCEPT !.store = s.mem, !.stored = TRUE, !.updates = NoUpdates] ELSE s

\* A missing key leaves the memory; updates buffered since the last persist
\* are lost, their number stays.
Load(s, ok) == IF ok /\ s.stored THEN [s EXCEPT !.mem = s.store] ELSE s

\* An operation that costs n events, and its Redis calls: each that fails is an
\* event too.
Calls(n, r, w) ==
  LET cost == n + (IF r THEN 0 ELSE 1) + (IF w THEN 0 ELSE 1) IN
  /\ spent + cost <= MaxEvents /\ spent' = spent + cost
  /\ faulty' = (faulty \/ ~r \/ ~w)

-----------------------------------------------------------------------------
(* Operations on tests *)

\* create_test does not load first.
CreateTest(t) ==
  \E w \in BOOLEAN :
    /\ t \notin issued /\ issued' = issued \cup {t}
    /\ ab' = Persist([ab EXCEPT !.mem.tests =
                        [u \in Known(ab) \cup {t} |-> IF u = t THEN Draft ELSE @[u]]], w)
    /\ Calls(1, TRUE, w)

\* The active pointer, unless the test it names is gone or not RUNNING.
HealedPointer(s) ==
  IF s.mem.active \in Known(s) /\ Status(s, s.mem.active) = "RUNNING"
  THEN s.mem.active ELSE NoTest

\* PAUSED is accepted, and nothing ever sets it.
Startable == {"DRAFT", "PAUSED"}

StartTest(t) ==
  \E r, w \in BOOLEAN :
    LET s == Load(ab, r) IN
    /\ t \in Known(s)
    /\ HealedPointer(s) \in {NoTest, t}
    /\ Status(s, t) \in Startable
    /\ ab' = Persist([s EXCEPT !.mem.tests[t].status = "RUNNING", !.mem.active = t], w)
    /\ Calls(1, r, w)
    /\ UNCHANGED issued

\* Mutant: ending any test clears the pointer.
EndAndClear(s, t, status) ==
  [s EXCEPT !.mem.tests[t].status = status, !.mem.active = NoTest]

\* s with test t ended as status says; the pointer goes only if it names t.
End(s, t, status) ==
  [s EXCEPT !.mem.tests[t].status = status,
            !.mem.active = IF @ = t THEN NoTest ELSE @]

\* conclude_test and abort_test accept a test of any status.
EndTest(t) ==
  \E r, w \in BOOLEAN, status \in Ended :
    LET s == Load(ab, r) IN
    /\ t \in Known(s)
    /\ ab' = Persist(End(s, t, status), w)
    /\ Calls(1, r, w)
    /\ UNCHANGED issued

\* The simulation's progress of a deleted test stays.
Without(s, t) ==
  [s EXCEPT !.mem.tests = [u \in Known(s) \ {t} |-> @[u]],
            !.mem.active = IF @ = t THEN NoTest ELSE @,
            !.mem.counts[t] = NoCounts]

DeleteTest(t) ==
  \E r, w \in BOOLEAN :
    LET s == Load(ab, r) IN
    /\ t \in Known(s)
    /\ ab' = Persist(Without(s, t), w)
    /\ Calls(1, r, w)
    /\ UNCHANGED issued

\* The predictions of test t that evaluate_test counts.
Collected(m, t) == m.counts[t][Champion[t]] + m.counts[t][Challenger[t]]

\* Metrics that are missing are filled in with the number of predictions.
Filled(s, t) ==
  [a \in Arms |->
    IF s.mem.tests[t].metrics[a] # "none" THEN s.mem.tests[t].metrics[a]
    ELSE IF s.mem.counts[t][Arm(t, a)] > 0 THEN "traffic" ELSE "unlabelled"]

\* Only an evaluation that ends in an analysis is persisted.
EvaluateTest(t) ==
  \E r, w \in BOOLEAN :
    LET s == Load(ab, r)
        filled == [s EXCEPT !.mem.tests[t].metrics = Filled(s, t)]
        ready == \A a \in Arms : Filled(s, t)[a] # "unlabelled"
    IN
    /\ t \in Known(s)
    /\ \/ Collected(s.mem, t) < MinSamples /\ ab' = s /\ w
       \/ Collected(s.mem, t) >= MinSamples /\ ~ready /\ ab' = filled /\ w
       \/ /\ Collected(s.mem, t) >= MinSamples /\ ready
          /\ ab' = Persist([filled EXCEPT !.mem.tests[t].analysed = TRUE], w)
    /\ Calls(0, r, w)
    /\ UNCHANGED issued

\* get_test, list_tests, get_simulation_progress: they read, after a load.
ReadTests ==
  \E r \in BOOLEAN : ab' = Load(ab, r) /\ Calls(0, r, TRUE) /\ UNCHANGED issued

-----------------------------------------------------------------------------
(* Steps of a prediction and of a simulation, as functions on the service  *)

\* route_request counts the request for the chosen arm of test t.
Routed(s, ok) ==
  LET n == [s EXCEPT !.updates.route = IF @ < PersistEvery THEN @ + 1 ELSE @]
  IN IF n.updates.route >= PersistEvery THEN Persist(n, ok) ELSE n

\* record_prediction; a test that is gone records nothing.
Recorded(s, t, m, ok) ==
  LET n == [s EXCEPT !.mem.counts[t][m] = @ + 1,
                     !.updates.prediction = IF @ < PersistEvery THEN @ + 1 ELSE @]
  IN IF t \notin Known(s) THEN s
     ELSE IF n.updates.prediction >= PersistEvery THEN Persist(n, ok) ELSE n

\* mark_simulation_initializing, _init_simulation_progress and
\* _finalize_simulation_progress, each with its persist.
Progressed(s, t, p, ok) == Persist([s EXCEPT !.mem.progress[t] = p], ok)

\* Mutant: the analysis of the samples that are thrown away stays.
ResetCountsOnly(s, t) ==
  [s EXCEPT !.mem.tests[t].metrics = [a \in Arms |-> "none"], !.mem.counts[t] = NoCounts]

\* A simulation with reset_existing forgets the evaluation so far.
Reset(s, t) ==
  [s EXCEPT !.mem.tests[t].metrics = [a \in Arms |-> "none"],
            !.mem.tests[t].analysed = FALSE, !.mem.counts[t] = NoCounts]

\* The metrics of a finished simulation go to the test of that id in memory now.
Measured(s, t, labelled) ==
  IF t \notin Known(s) THEN s
  ELSE [s EXCEPT !.mem.tests[t].metrics =
          [a \in Arms |-> IF a \in labelled THEN "labelled" ELSE "unlabelled"]]

-----------------------------------------------------------------------------
(* Properties *)

Images == {ab.mem, ab.store}

\* At most one test is RUNNING, and the active pointer, which routes the live
\* traffic, names exactly that one: in memory and in the snapshot, whatever
\* Redis calls failed and whatever restarts came between.
OneRunning ==
  \A m \in Images :
    {t \in DOMAIN m.tests : m.tests[t].status = "RUNNING"} = {m.active} \ {NoTest}

\* A test that carries a statistical analysis has collected the samples its
\* configuration asks for, also when a simulation began again since, a load
\* discarded what was counted, or a persist failed.
AnalysisEarned ==
  \A m \in Images : \A t \in DOMAIN m.tests :
    m.tests[t].analysed => Collected(m, t) >= MinSamples

=============================================================================
