--------------------------- MODULE Serving_proofs ---------------------------
(***************************************************************************)
(* Theorems about Serving, for any models, tests, callers and bounds: the  *)
(* A/B tests, in memory and in the snapshot, and the model that answers.   *)
(*                                                                         *)
(* The tests need no more than what one image of them always is (ImageOK), *)
(* kept by every operation.  For the answers, each step of Serving is      *)
(* shown to be one of a few kinds (Shape), and each step of load_model one *)
(* of six (Kind); the invariants about the fields, the calls and the batch *)
(* are then proved of the kinds.                                           *)
(***************************************************************************)
EXTENDS Serving, TLAPS

(***************************************************************************)
(* The A/B testing service: what one image of it, the memory's or the      *)
(* key's, always is.                                                       *)
(***************************************************************************)
Tables == UNION {[D -> Records] : D \in SUBSET Tests}
Counts == [Tests -> [Models -> Nat]]
States == [tests : Tables, active : Tests \cup {NoTest}, counts : Counts,
           progress : [Tests -> Progress]]
Updates == [route : 0..PersistEvery, prediction : 0..PersistEvery]
Services == [mem : States, store : States, stored : BOOLEAN, updates : Updates]

RunningOf(m) == {t \in DOMAIN m.tests : m.tests[t].status = "RUNNING"}

\* Besides what the two properties say of an image: a test in it was issued an
\* id, which is not given to another.
ImageOK(m, ids) ==
  /\ DOMAIN m.tests \subseteq ids
  /\ RunningOf(m) = {m.active} \ {NoTest}
  /\ \A t \in DOMAIN m.tests : m.tests[t].analysed => Collected(m, t) >= MinSamples

ServiceOK(s, ids) == s \in Services /\ ImageOK(s.mem, ids) /\ ImageOK(s.store, ids)

TestsInv == issued \subseteq Tests /\ ServiceOK(ab, issued)

\* A table of tests is a function from some of the tests to records.
LEMMA TableParts ==
  \A f : f \in Tables <=> DOMAIN f \subseteq Tests /\ f \in [DOMAIN f -> Records]
BY DEF Tables

LEMMA StateParts ==
  ASSUME NEW m \in States
  PROVE /\ DOMAIN m.tests \subseteq Tests /\ m.tests \in [DOMAIN m.tests -> Records]
        /\ m.active \in Tests \cup {NoTest} /\ m.counts \in Counts
        /\ m.progress \in [Tests -> Progress]
<1>1. m.tests \in Tables
  BY DEF States
<1> QED
  BY <1>1, TableParts DEF States

LEMMA ServiceParts ==
  ASSUME NEW s \in Services
  PROVE /\ s.mem \in States /\ s.store \in States /\ s.stored \in BOOLEAN
        /\ s.updates \in Updates
BY DEF Services

\* The draft of create_test; the arms are models.
LEMMA DraftIsRecord == Draft \in Records /\ ~Draft.analysed /\ Draft.status = "DRAFT"
BY DEF Draft, Records, Statuses, Ended, Metrics, Arms

LEMMA ArmIsModel == ASSUME NEW t \in Tests, NEW a PROVE Arm(t, a) \in Models
BY ABTestingAssumption DEF Arm

LEMMA CollectedIsNat ==
  ASSUME NEW m \in States, NEW t \in Tests PROVE Collected(m, t) \in Nat
<1>1. m.counts \in Counts
  BY StateParts
<1> QED
  BY <1>1, ABTestingAssumption DEF Collected, Counts

\* An empty memory has no test.
LEMMA EmptyOK == Empty \in States /\ \A ids : ImageOK(Empty, ids)
<1>1. Empty.tests \in Tables
  <2>1. DOMAIN Empty.tests = {} /\ Empty.tests = [t \in {} |-> Draft]
    BY DEF Empty
  <2> QED
    BY <2>1, TableParts
<1>2. Empty.counts \in Counts /\ Empty.progress \in [Tests -> Progress]
  BY DEF Empty, Counts, NoCounts, Progress
<1>3. Empty \in States
  BY <1>1, <1>2 DEF Empty, States
<1>4. DOMAIN Empty.tests = {} /\ Empty.active = NoTest
  BY DEF Empty
<1> QED
  BY <1>3, <1>4 DEF ImageOK, RunningOf

\* The Redis calls: what is written is the memory, what is read the key.
LEMMA PersistOK ==
  ASSUME NEW ids, NEW s, ServiceOK(s, ids), NEW ok \in BOOLEAN
  PROVE ServiceOK(Persist(s, ok), ids)
<1>1. NoUpdates \in Updates
  BY ABTestingAssumption DEF NoUpdates, Updates
<1>2. s \in Services
  BY DEF ServiceOK
<1>3. CASE ok
  <2> DEFINE n == [s EXCEPT !.store = s.mem, !.stored = TRUE, !.updates = NoUpdates]
  <2>1. n \in Services /\ n.mem = s.mem /\ n.store = s.mem
    BY <1>1, <1>2 DEF Services
  <2>2. Persist(s, ok) = n
    BY <1>3 DEF Persist
  <2> QED
    BY <2>1, <2>2 DEF ServiceOK
<1>4. CASE ~ok
  BY <1>4 DEF Persist
<1> QED
  BY <1>3, <1>4

LEMMA LoadOK ==
  ASSUME NEW ids, NEW s, ServiceOK(s, ids), NEW ok \in BOOLEAN
  PROVE ServiceOK(Load(s, ok), ids)
<1>2. s \in Services
  BY DEF ServiceOK
<1>3. CASE ok /\ s.stored
  <2> DEFINE n == [s EXCEPT !.mem = s.store]
  <2>1. n \in Services /\ n.mem = s.store /\ n.store = s.store
    BY <1>2 DEF Services
  <2>2. Load(s, ok) = n
    BY <1>3 DEF Load
  <2> QED
    BY <2>1, <2>2 DEF ServiceOK
<1>4. CASE ~(ok /\ s.stored)
  BY <1>4 DEF Load
<1> QED
  BY <1>3, <1>4

\* A step that gives the memory another good image.
LEMMA MemoryOK ==
  ASSUME NEW ids, NEW s, ServiceOK(s, ids), NEW n, n \in Services, n.store = s.store,
         ImageOK(n.mem, ids)
  PROVE ServiceOK(n, ids)
BY DEF ServiceOK

(***************************************************************************)
(* The operations on tests                                                 *)
(***************************************************************************)

\* A table in which the record of one test is replaced.
LEMMA RecordReplaced ==
  ASSUME NEW T \in Tables, NEW t \in DOMAIN T, NEW r \in Records
  PROVE [T EXCEPT ![t] = r] \in Tables
<1>1. DOMAIN T \subseteq Tests /\ T \in [DOMAIN T -> Records]
  BY TableParts
<1>2. [T EXCEPT ![t] = r] \in [DOMAIN T -> Records] /\ DOMAIN [T EXCEPT ![t] = r] = DOMAIN T
  BY <1>1
<1> QED
  BY <1>1, <1>2, TableParts

\* A new id gets a draft, which neither runs nor is analysed.
LEMMA CreateOK ==
  ASSUME TestsInv, NEW t \in Tests, CreateTest(t)
  PROVE TestsInv'
<1>1. PICK w \in BOOLEAN :
        /\ t \notin issued /\ issued' = issued \cup {t}
        /\ ab' = Persist([ab EXCEPT !.mem.tests =
                            [u \in Known(ab) \cup {t} |-> IF u = t THEN Draft ELSE @[u]]], w)
  BY Zenon DEF CreateTest
<1> DEFINE T == [u \in Known(ab) \cup {t} |-> IF u = t THEN Draft ELSE ab.mem.tests[u]]
           n == [ab EXCEPT !.mem.tests = T]
<1>2. ab \in Services /\ ab.mem \in States /\ ImageOK(ab.mem, issued) /\ ImageOK(ab.store, issued)
  BY ServiceParts DEF TestsInv, ServiceOK
<1>3. Known(ab) \subseteq Tests /\ ab.mem.tests \in [Known(ab) -> Records] /\ t \notin Known(ab)
  BY <1>1, <1>2, StateParts DEF Known, ImageOK
<1>4. T \in Tables
  <2>1. DOMAIN T = Known(ab) \cup {t} /\ T \in [Known(ab) \cup {t} -> Records]
    BY <1>3, DraftIsRecord
  <2> HIDE DEF T
  <2> QED
    BY <1>3, <2>1, TableParts
<1> HIDE DEF T
<1>5. /\ n \in Services /\ n.store = ab.store
      /\ n.mem.tests = T /\ n.mem.active = ab.mem.active /\ n.mem.counts = ab.mem.counts
  BY <1>2, <1>4 DEF Services, States
<1>6. /\ DOMAIN T = Known(ab) \cup {t} /\ T[t] = Draft
      /\ \A u \in Known(ab) : T[u] = ab.mem.tests[u]
  BY <1>3 DEF T
<1> HIDE DEF n
<1>7. ImageOK(n.mem, issued \cup {t})
  <2>1. RunningOf(n.mem) = RunningOf(ab.mem)
    BY <1>3, <1>5, <1>6, DraftIsRecord DEF RunningOf, Known
  <2>2. \A u \in DOMAIN T : Collected(n.mem, u) = Collected(ab.mem, u)
    BY <1>5 DEF Collected
  <2> QED
    BY <1>2, <1>5, <1>6, <2>1, <2>2, DraftIsRecord DEF ImageOK, Known
<1>8. ImageOK(n.store, issued \cup {t})
  BY <1>2, <1>5 DEF ImageOK
<1>9. ab' = Persist(n, w)
  BY <1>1 DEF n, T
<1>10. ServiceOK(Persist(n, w), issued \cup {t})
  <2>1. ServiceOK(n, issued \cup {t})
    BY <1>5, <1>7, <1>8 DEF ServiceOK
  <2> QED
    BY <2>1, PersistOK
<1> QED
  BY <1>1, <1>9, <1>10 DEF TestsInv

\* A test is started only where none runs: where the pointer is healed, it names
\* none that runs, and no test runs that it does not name.
LEMMA StartOK ==
  ASSUME TestsInv, NEW t \in Tests, StartTest(t) PROVE TestsInv'
<1>1. PICK r \in BOOLEAN, w \in BOOLEAN :
        /\ t \in Known(Load(ab, r))
        /\ HealedPointer(Load(ab, r)) \in {NoTest, t}
        /\ Status(Load(ab, r), t) \in Startable
        /\ ab' = Persist([Load(ab, r) EXCEPT !.mem.tests[t].status = "RUNNING",
                                             !.mem.active = t], w)
        /\ UNCHANGED issued
  BY Zenon DEF StartTest
<1> DEFINE s == Load(ab, r)
<1>2. ServiceOK(s, issued)
  BY LoadOK DEF TestsInv
<1> HIDE DEF s
<1> DEFINE T == [s.mem.tests EXCEPT ![t].status = "RUNNING"]
           n == [s EXCEPT !.mem.tests[t].status = "RUNNING", !.mem.active = t]
<1>3. /\ s \in Services /\ s.mem \in States /\ ImageOK(s.mem, issued)
      /\ s.mem.tests \in Tables /\ s.mem.tests \in [Known(s) -> Records]
      /\ t \in Known(s) /\ Known(s) = DOMAIN s.mem.tests /\ Known(s) \subseteq Tests
  BY <1>1, <1>2, ServiceParts, StateParts, TableParts DEF ServiceOK, Known, s
<1>4. T \in Tables
  <2>1. [s.mem.tests[t] EXCEPT !.status = "RUNNING"] \in Records
    BY <1>3 DEF Records, Statuses
  <2> QED
    BY <1>3, <2>1, RecordReplaced
<1>5. /\ n \in Services /\ n.store = s.store
      /\ n.mem.tests = T /\ n.mem.active = t /\ n.mem.counts = s.mem.counts
  BY <1>3, <1>4 DEF Services, States
<1>6. /\ DOMAIN T = Known(s) /\ T[t].status = "RUNNING" /\ T[t].analysed = s.mem.tests[t].analysed
      /\ \A u \in Known(s) \ {t} : T[u] = s.mem.tests[u]
  BY <1>3 DEF Records
<1> HIDE DEF T, n
<1>7. RunningOf(s.mem) = {}
  <2>1. Status(s, t) # "RUNNING" /\ HealedPointer(s) \in {NoTest, t}
    BY <1>1 DEF Startable, s
  <2>2. t \notin RunningOf(s.mem)
    BY <2>1 DEF RunningOf, Status
  <2>3. \A u \in RunningOf(s.mem) : u = s.mem.active /\ u # NoTest /\ u \in Known(s)
    BY <1>3 DEF ImageOK, RunningOf
  <2> QED
    BY <2>1, <2>2, <2>3 DEF HealedPointer, Status, RunningOf
<1>8. ImageOK(n.mem, issued)
  <2>1. RunningOf(n.mem) = {t}
    BY <1>3, <1>5, <1>6, <1>7 DEF RunningOf
  <2>2. \A u \in DOMAIN T : Collected(n.mem, u) = Collected(s.mem, u)
    BY <1>5 DEF Collected
  <2>3. t # NoTest
    BY ABTestingAssumption
  <2> QED
    BY <1>3, <1>5, <1>6, <2>1, <2>2, <2>3 DEF ImageOK
<1>9. ServiceOK(Persist(n, w), issued)
  BY <1>2, <1>5, <1>8, PersistOK, MemoryOK
<1> QED
  BY <1>1, <1>9 DEF TestsInv, n, s

\* A test that ends takes the pointer with it only if it is the one that ran.
LEMMA EndOK ==
  ASSUME NEW ids, NEW s, ServiceOK(s, ids), NEW t \in Known(s), NEW status \in Ended
  PROVE ServiceOK(End(s, t, status), ids)
<1> DEFINE T == [s.mem.tests EXCEPT ![t].status = status]
           n == End(s, t, status)
<1>1. /\ s \in Services /\ s.mem \in States /\ ImageOK(s.mem, ids)
      /\ s.mem.tests \in Tables /\ s.mem.tests \in [Known(s) -> Records]
      /\ Known(s) = DOMAIN s.mem.tests /\ Known(s) \subseteq Tests
      /\ s.mem.active \in Tests \cup {NoTest}
  BY ServiceParts, StateParts, TableParts DEF ServiceOK, Known, States
<1>2. T \in Tables
  <2>1. [s.mem.tests[t] EXCEPT !.status = status] \in Records
    BY <1>1 DEF Records, Statuses
  <2> QED
    BY <1>1, <2>1, RecordReplaced
<1>3. /\ n \in Services /\ n.store = s.store /\ n.mem.tests = T
      /\ n.mem.active = IF s.mem.active = t THEN NoTest ELSE s.mem.active
      /\ n.mem.counts = s.mem.counts
  BY <1>1, <1>2 DEF Services, States, End
<1>4. /\ DOMAIN T = Known(s) /\ T[t].status = status /\ T[t].analysed = s.mem.tests[t].analysed
      /\ \A u \in Known(s) \ {t} : T[u] = s.mem.tests[u]
  BY <1>1 DEF Records
<1> HIDE DEF T, n
<1>5. ImageOK(n.mem, ids)
  <2>1. RunningOf(n.mem) = RunningOf(s.mem) \ {t}
    BY <1>1, <1>3, <1>4 DEF RunningOf, Ended
  <2>2. \A u \in DOMAIN T : Collected(n.mem, u) = Collected(s.mem, u)
    BY <1>3 DEF Collected
  <2> QED
    BY <1>1, <1>3, <1>4, <2>1, <2>2 DEF ImageOK
<1> QED
  BY <1>1, <1>3, <1>5, MemoryOK DEF n

\* So does a test that is deleted; its counters go.
LEMMA WithoutOK ==
  ASSUME NEW ids, NEW s, ServiceOK(s, ids), NEW t \in Known(s)
  PROVE ServiceOK(Without(s, t), ids)
<1> DEFINE T == [u \in Known(s) \ {t} |-> s.mem.tests[u]]
           C == [s.mem.counts EXCEPT ![t] = NoCounts]
           n == Without(s, t)
<1>1. /\ s \in Services /\ s.mem \in States /\ ImageOK(s.mem, ids)
      /\ s.mem.tests \in Tables /\ s.mem.tests \in [Known(s) -> Records]
      /\ Known(s) = DOMAIN s.mem.tests /\ Known(s) \subseteq Tests
      /\ s.mem.active \in Tests \cup {NoTest} /\ s.mem.counts \in Counts
  BY ServiceParts, StateParts, TableParts DEF ServiceOK, Known, States
<1>2. T \in Tables /\ C \in Counts
  <2>1. DOMAIN T \subseteq Tests /\ T \in [DOMAIN T -> Records]
    BY <1>1
  <2>2. C \in Counts
    BY <1>1 DEF Counts, NoCounts
  <2> HIDE DEF T
  <2> QED
    BY <2>1, <2>2, TableParts
<1>3. /\ DOMAIN T = Known(s) \ {t} /\ \A u \in Known(s) \ {t} : T[u] = s.mem.tests[u]
      /\ \A u \in Known(s) \ {t} : C[u] = s.mem.counts[u]
  BY <1>1 DEF Counts
<1> HIDE DEF T, C
<1>4. /\ n \in Services /\ n.store = s.store /\ n.mem.tests = T
      /\ n.mem.active = (IF s.mem.active = t THEN NoTest ELSE s.mem.active)
      /\ n.mem.counts = C
  <2>1. n = [s EXCEPT !.mem.tests = T, !.mem.active = IF @ = t THEN NoTest ELSE @,
                      !.mem.counts[t] = NoCounts]
    BY DEF Without, T
  <2> HIDE DEF n
  <2> QED
    BY <1>1, <1>2, <2>1 DEF Services, States, C
<1> HIDE DEF n
<1>5. ImageOK(n.mem, ids)
  <2>1. RunningOf(n.mem) = RunningOf(s.mem) \ {t}
    BY <1>1, <1>3, <1>4 DEF RunningOf
  <2>2. \A u \in DOMAIN T : Collected(n.mem, u) = Collected(s.mem, u)
    BY <1>3, <1>4 DEF Collected
  <2> QED
    BY <1>1, <1>3, <1>4, <2>1, <2>2 DEF ImageOK
<1> QED
  BY <1>1, <1>4, <1>5, MemoryOK DEF n

\* Metrics that are filled in, measured or forgotten leave what runs; with the
\* counters that are kept, an analysis is still earned.
LEMMA MetricsOK ==
  ASSUME NEW ids, NEW s, ServiceOK(s, ids), NEW t \in Known(s), NEW M \in [Arms -> Metrics]
  PROVE /\ ServiceOK([s EXCEPT !.mem.tests[t].metrics = M], ids)
        /\ [s EXCEPT !.mem.tests[t].metrics = M].mem.counts = s.mem.counts
        /\ Known([s EXCEPT !.mem.tests[t].metrics = M]) = Known(s)
<1> DEFINE T == [s.mem.tests EXCEPT ![t].metrics = M]
           n == [s EXCEPT !.mem.tests[t].metrics = M]
<1>1. /\ s \in Services /\ s.mem \in States /\ ImageOK(s.mem, ids)
      /\ s.mem.tests \in Tables /\ s.mem.tests \in [Known(s) -> Records]
      /\ Known(s) = DOMAIN s.mem.tests /\ Known(s) \subseteq Tests
  BY ServiceParts, StateParts, TableParts DEF ServiceOK, Known, States
<1>2. T \in Tables
  <2>1. [s.mem.tests[t] EXCEPT !.metrics = M] \in Records
    BY <1>1 DEF Records
  <2> QED
    BY <1>1, <2>1, RecordReplaced
<1>3. /\ n \in Services /\ n.store = s.store /\ n.mem.tests = T
      /\ n.mem.active = s.mem.active /\ n.mem.counts = s.mem.counts
  BY <1>1, <1>2 DEF Services, States
<1>4. /\ DOMAIN T = Known(s) /\ T[t].status = s.mem.tests[t].status
      /\ T[t].analysed = s.mem.tests[t].analysed
      /\ \A u \in Known(s) \ {t} : T[u] = s.mem.tests[u]
  BY <1>1 DEF Records
<1> HIDE DEF T, n
<1>5. ImageOK(n.mem, ids)
  <2>1. RunningOf(n.mem) = RunningOf(s.mem)
    BY <1>1, <1>3, <1>4 DEF RunningOf
  <2>2. \A u \in DOMAIN T : Collected(n.mem, u) = Collected(s.mem, u)
    BY <1>3 DEF Collected
  <2> QED
    BY <1>1, <1>3, <1>4, <2>1, <2>2 DEF ImageOK
<1> QED
  BY <1>1, <1>3, <1>4, <1>5, MemoryOK DEF n, Known

\* An analysis is set only on enough predictions.
LEMMA AnalysedOK ==
  ASSUME NEW ids, NEW s, ServiceOK(s, ids), NEW t \in Known(s),
         Collected(s.mem, t) >= MinSamples
  PROVE ServiceOK([s EXCEPT !.mem.tests[t].analysed = TRUE], ids)
<1> DEFINE T == [s.mem.tests EXCEPT ![t].analysed = TRUE]
           n == [s EXCEPT !.mem.tests[t].analysed = TRUE]
<1>1. /\ s \in Services /\ s.mem \in States /\ ImageOK(s.mem, ids)
      /\ s.mem.tests \in Tables /\ s.mem.tests \in [Known(s) -> Records]
      /\ Known(s) = DOMAIN s.mem.tests /\ Known(s) \subseteq Tests
  BY ServiceParts, StateParts, TableParts DEF ServiceOK, Known, States
<1>2. T \in Tables
  <2>1. [s.mem.tests[t] EXCEPT !.analysed = TRUE] \in Records
    BY <1>1 DEF Records
  <2> QED
    BY <1>1, <2>1, RecordReplaced
<1>3. /\ n \in Services /\ n.store = s.store /\ n.mem.tests = T
      /\ n.mem.active = s.mem.active /\ n.mem.counts = s.mem.counts
  BY <1>1, <1>2 DEF Services, States
<1>4. /\ DOMAIN T = Known(s) /\ T[t].status = s.mem.tests[t].status
      /\ \A u \in Known(s) \ {t} : T[u] = s.mem.tests[u]
  BY <1>1 DEF Records
<1> HIDE DEF T, n
<1>5. ImageOK(n.mem, ids)
  <2>1. RunningOf(n.mem) = RunningOf(s.mem)
    BY <1>1, <1>3, <1>4 DEF RunningOf
  <2>2. \A u \in DOMAIN T : Collected(n.mem, u) = Collected(s.mem, u)
    BY <1>3 DEF Collected
  <2> QED
    BY <1>1, <1>3, <1>4, <2>1, <2>2 DEF ImageOK
<1> QED
  BY <1>1, <1>3, <1>5, MemoryOK DEF n

\* A simulation that starts over forgets the counters and the analysis on them.
LEMMA ResetOK ==
  ASSUME NEW ids, NEW s, ServiceOK(s, ids), NEW t \in Known(s)
  PROVE ServiceOK(Reset(s, t), ids)
<1> DEFINE T == [s.mem.tests EXCEPT ![t].metrics = [a \in Arms |-> "none"], ![t].analysed = FALSE]
           C == [s.mem.counts EXCEPT ![t] = NoCounts]
           n == Reset(s, t)
<1>1. /\ s \in Services /\ s.mem \in States /\ ImageOK(s.mem, ids)
      /\ s.mem.tests \in Tables /\ s.mem.tests \in [Known(s) -> Records]
      /\ Known(s) = DOMAIN s.mem.tests /\ Known(s) \subseteq Tests
      /\ s.mem.counts \in Counts
  BY ServiceParts, StateParts, TableParts DEF ServiceOK, Known, States
<1>2. T \in Tables /\ C \in Counts
  <2> DEFINE r == [s.mem.tests[t] EXCEPT !.metrics = [a \in Arms |-> "none"], !.analysed = FALSE]
  <2>1. r \in Records
    BY <1>1 DEF Records, Metrics
  <2>2. T = [s.mem.tests EXCEPT ![t] = r]
    BY <1>1
  <2>3. C \in Counts
    BY <1>1 DEF Counts, NoCounts
  <2> HIDE DEF r, T
  <2> QED
    BY <1>1, <2>1, <2>2, <2>3, RecordReplaced
<1>3. /\ DOMAIN T = Known(s) /\ T[t].status = s.mem.tests[t].status /\ ~T[t].analysed
      /\ \A u \in Known(s) \ {t} : T[u] = s.mem.tests[u]
      /\ \A u \in Known(s) \ {t} : C[u] = s.mem.counts[u]
  BY <1>1 DEF Records, Counts
<1>4. /\ n \in Services /\ n.store = s.store /\ n.mem.tests = T
      /\ n.mem.active = s.mem.active /\ n.mem.counts = C
  BY <1>1, <1>2 DEF Services, States, Reset
<1> HIDE DEF T, C, n
<1>5. ImageOK(n.mem, ids)
  <2>1. RunningOf(n.mem) = RunningOf(s.mem)
    BY <1>1, <1>3, <1>4 DEF RunningOf
  <2>2. \A u \in DOMAIN T \ {t} : Collected(n.mem, u) = Collected(s.mem, u)
    BY <1>3, <1>4 DEF Collected
  <2> QED
    BY <1>1, <1>3, <1>4, <2>1, <2>2 DEF ImageOK
<1> QED
  BY <1>1, <1>4, <1>5, MemoryOK DEF n

\* evaluate_test analyses only a test with enough predictions.
LEMMA EvaluateOK ==
  ASSUME TestsInv, NEW t \in Tests, EvaluateTest(t) PROVE TestsInv'
<1>1. PICK r \in BOOLEAN, w \in BOOLEAN :
        LET s == Load(ab, r)
            filled == [s EXCEPT !.mem.tests[t].metrics = Filled(s, t)]
            ready == \A a \in Arms : Filled(s, t)[a] # "unlabelled"
        IN
        /\ t \in Known(s)
        /\ \/ Collected(s.mem, t) < MinSamples /\ ab' = s /\ w
           \/ Collected(s.mem, t) >= MinSamples /\ ~ready /\ ab' = filled /\ w
           \/ /\ Collected(s.mem, t) >= MinSamples /\ ready
              /\ ab' = Persist([filled EXCEPT !.mem.tests[t].analysed = TRUE], w)
        /\ UNCHANGED issued
  BY Zenon DEF EvaluateTest
<1> DEFINE s == Load(ab, r)
           M == Filled(s, t)
           filled == [s EXCEPT !.mem.tests[t].metrics = M]
<1>2. ServiceOK(s, issued) /\ t \in Known(s)
  BY <1>1, LoadOK DEF TestsInv
<1>3. \/ ab' = s
      \/ ab' = filled
      \/ /\ Collected(s.mem, t) >= MinSamples
         /\ ab' = Persist([filled EXCEPT !.mem.tests[t].analysed = TRUE], w)
  BY <1>1, Zenon
<1> HIDE DEF s
<1>4. M \in [Arms -> Metrics]
  <2>1. s.mem.tests \in [Known(s) -> Records]
    BY <1>2, ServiceParts, StateParts DEF ServiceOK, Known
  <2>2. \A a \in Arms : s.mem.tests[t].metrics[a] \in Metrics
    BY <1>2, <2>1 DEF Records
  <2> QED
    BY <2>2 DEF Filled, Metrics
<1> HIDE DEF M
<1>5. /\ ServiceOK(filled, issued) /\ filled.mem.counts = s.mem.counts /\ t \in Known(filled)
  BY <1>2, <1>4, MetricsOK
<1> HIDE DEF filled
<1>6. ASSUME Collected(s.mem, t) >= MinSamples
      PROVE ServiceOK(Persist([filled EXCEPT !.mem.tests[t].analysed = TRUE], w), issued)
  <2>1. Collected(filled.mem, t) = Collected(s.mem, t)
    BY <1>5 DEF Collected
  <2>2. ServiceOK([filled EXCEPT !.mem.tests[t].analysed = TRUE], issued)
    BY <1>5, <1>6, <2>1, AnalysedOK
  <2> QED
    BY <2>2, PersistOK
<1>7. ServiceOK(ab', issued)
  BY <1>2, <1>3, <1>5, <1>6
<1> QED
  BY <1>1, <1>7 DEF TestsInv

\* The request that changes tests, or reads them.
LEMMA OperationOK ==
  ASSUME TestsInv,
         \/ ReadTests
         \/ \E t \in Tests : CreateTest(t) \/ StartTest(t) \/ EndTest(t) \/ DeleteTest(t)
                            \/ EvaluateTest(t)
  PROVE TestsInv'
<1>1. CASE ReadTests
  BY <1>1, LoadOK DEF ReadTests, TestsInv
<1>2. ASSUME NEW t \in Tests, EndTest(t) PROVE TestsInv'
  <2>1. PICK r \in BOOLEAN, w \in BOOLEAN, status \in Ended :
          /\ t \in Known(Load(ab, r)) /\ ab' = Persist(End(Load(ab, r), t, status), w)
          /\ UNCHANGED issued
    BY <1>2, Zenon DEF EndTest
  <2>2. ServiceOK(End(Load(ab, r), t, status), issued)
    BY <2>1, LoadOK, EndOK DEF TestsInv
  <2> QED
    BY <2>1, <2>2, PersistOK DEF TestsInv
<1>3. ASSUME NEW t \in Tests, DeleteTest(t) PROVE TestsInv'
  <2>1. PICK r \in BOOLEAN, w \in BOOLEAN :
          /\ t \in Known(Load(ab, r)) /\ ab' = Persist(Without(Load(ab, r), t), w)
          /\ UNCHANGED issued
    BY <1>3, Zenon DEF DeleteTest
  <2>2. ServiceOK(Without(Load(ab, r), t), issued)
    BY <2>1, LoadOK, WithoutOK DEF TestsInv
  <2> QED
    BY <2>1, <2>2, PersistOK DEF TestsInv
<1> QED
  BY <1>1, <1>2, <1>3, CreateOK, StartOK, EvaluateOK

(***************************************************************************)
(* What predictions and simulations do to the service                      *)
(***************************************************************************)

\* Only the buffered updates change.
LEMMA BufferOK ==
  ASSUME NEW ids, NEW s, ServiceOK(s, ids)
  PROVE /\ ServiceOK([s EXCEPT !.updates.route = IF @ < PersistEvery THEN @ + 1 ELSE @], ids)
        /\ ServiceOK([s EXCEPT !.updates.prediction = IF @ < PersistEvery THEN @ + 1 ELSE @], ids)
<1> DEFINE n == [s EXCEPT !.updates.route = IF @ < PersistEvery THEN @ + 1 ELSE @]
           k == [s EXCEPT !.updates.prediction = IF @ < PersistEvery THEN @ + 1 ELSE @]
<1>1. s \in Services /\ s.updates \in Updates
  BY ServiceParts DEF ServiceOK
<1>2. /\ [s.updates EXCEPT !.route = IF @ < PersistEvery THEN @ + 1 ELSE @] \in Updates
      /\ [s.updates EXCEPT !.prediction = IF @ < PersistEvery THEN @ + 1 ELSE @] \in Updates
  BY <1>1, ABTestingAssumption DEF Updates
<1>3. n \in Services /\ n.mem = s.mem /\ n.store = s.store
  BY <1>1, <1>2 DEF Services
<1>4. k \in Services /\ k.mem = s.mem /\ k.store = s.store
  BY <1>1, <1>2 DEF Services
<1> QED
  BY <1>3, <1>4 DEF ServiceOK

LEMMA RoutedOK ==
  ASSUME NEW ids, NEW s, ServiceOK(s, ids), NEW ok \in BOOLEAN
  PROVE ServiceOK(Routed(s, ok), ids)
<1> DEFINE n == [s EXCEPT !.updates.route = IF @ < PersistEvery THEN @ + 1 ELSE @]
<1>1. ServiceOK(n, ids)
  BY BufferOK
<1>2. Routed(s, ok) = IF n.updates.route >= PersistEvery THEN Persist(n, ok) ELSE n
  BY DEF Routed
<1> HIDE DEF n
<1> QED
  BY <1>1, <1>2, PersistOK

\* A prediction more does not undo an analysis.
LEMMA RecordedOK ==
  ASSUME NEW ids, NEW s, ServiceOK(s, ids), NEW t \in Tests, NEW m \in Models, NEW ok \in BOOLEAN
  PROVE ServiceOK(Recorded(s, t, m, ok), ids)
<1> DEFINE C == [s.mem.counts EXCEPT ![t][m] = @ + 1]
           b == [s EXCEPT !.updates.prediction = IF @ < PersistEvery THEN @ + 1 ELSE @]
           n == [s EXCEPT !.mem.counts[t][m] = @ + 1,
                          !.updates.prediction = IF @ < PersistEvery THEN @ + 1 ELSE @]
<1>1. /\ s \in Services /\ s.mem \in States /\ ImageOK(s.mem, ids)
      /\ s.mem.tests \in Tables /\ DOMAIN s.mem.tests \subseteq Tests
      /\ s.mem.counts \in Counts /\ s.updates \in Updates
  BY ServiceParts, StateParts, TableParts DEF ServiceOK, States
<1>2. C \in Counts /\ \A u \in Tests, k \in Models : C[u][k] >= s.mem.counts[u][k]
  BY <1>1 DEF Counts
<1>3. [s.updates EXCEPT !.prediction = IF @ < PersistEvery THEN @ + 1 ELSE @] \in Updates
  BY <1>1, ABTestingAssumption DEF Updates
<1>4. /\ n \in Services /\ n.store = s.store /\ n.mem.tests = s.mem.tests
      /\ n.mem.active = s.mem.active /\ n.mem.counts = C
  BY <1>1, <1>2, <1>3 DEF Services, States
<1> HIDE DEF C
<1>5. \A u \in Tests : Collected(n.mem, u) >= Collected(s.mem, u)
  BY <1>1, <1>2, <1>4, ABTestingAssumption DEF Collected, Counts
<1>6. Recorded(s, t, m, ok) = IF t \notin Known(s) THEN s
                              ELSE IF n.updates.prediction >= PersistEvery THEN Persist(n, ok) ELSE n
  BY DEF Recorded
<1> HIDE DEF n
<1>7. ImageOK(n.mem, ids)
  <2>1. \A u \in DOMAIN n.mem.tests : n.mem.tests[u].analysed => Collected(n.mem, u) >= MinSamples
    <3>1. ASSUME NEW u \in DOMAIN s.mem.tests, s.mem.tests[u].analysed
          PROVE Collected(n.mem, u) >= MinSamples
      <4>1. /\ Collected(s.mem, u) >= MinSamples /\ Collected(n.mem, u) >= Collected(s.mem, u)
            /\ Collected(s.mem, u) \in Nat
        BY <1>1, <1>5, <3>1, CollectedIsNat DEF ImageOK
      <4>2. Collected(n.mem, u) \in Nat
        BY <1>1, <1>4, CollectedIsNat, ServiceParts
      <4> QED
        BY <4>1, <4>2, ABTestingAssumption
    <3> QED
      BY <1>4, <3>1
  <2> QED
    BY <1>1, <1>4, <2>1 DEF ImageOK, RunningOf
<1>8. ServiceOK(n, ids)
  BY <1>1, <1>4, <1>7, MemoryOK
<1> QED
  BY <1>6, <1>8, PersistOK

\* The progress of a simulation is beside the tests.
LEMMA ProgressOK ==
  ASSUME NEW ids, NEW s, ServiceOK(s, ids), NEW t \in Tests, NEW p \in Progress
  PROVE ServiceOK([s EXCEPT !.mem.progress[t] = p], ids)
<1> DEFINE n == [s EXCEPT !.mem.progress[t] = p]
<1>1. /\ s \in Services /\ s.mem \in States /\ ImageOK(s.mem, ids)
      /\ s.mem.progress \in [Tests -> Progress]
  BY ServiceParts, StateParts DEF ServiceOK
<1>2. /\ n \in Services /\ n.store = s.store /\ n.mem.tests = s.mem.tests
      /\ n.mem.active = s.mem.active /\ n.mem.counts = s.mem.counts
  BY <1>1 DEF Services, States
<1> HIDE DEF n
<1>3. ImageOK(n.mem, ids)
  BY <1>1, <1>2 DEF ImageOK, RunningOf, Collected
<1> QED
  BY <1>2, <1>3, MemoryOK DEF n

LEMMA ProgressedOK ==
  ASSUME NEW ids, NEW s, ServiceOK(s, ids), NEW t \in Tests, NEW p \in Progress, NEW ok \in BOOLEAN
  PROVE /\ ServiceOK(Progressed(s, t, p, ok), ids) /\ ServiceOK(Updated(s, t, ok), ids)
        /\ ServiceOK(Finalized(s, t, p, ok), ids)
BY PersistOK, ProgressOK DEF Progressed, Updated, Finalized

LEMMA MeasuredOK ==
  ASSUME NEW ids, NEW s, ServiceOK(s, ids), NEW t \in Tests, NEW labelled
  PROVE ServiceOK(Measured(s, t, labelled), ids)
<1>1. [a \in Arms |-> IF a \in labelled THEN "labelled" ELSE "unlabelled"] \in [Arms -> Metrics]
  BY DEF Metrics
<1> QED
  BY <1>1, MetricsOK DEF Measured

(***************************************************************************)
(* Types of the rest: the inference service, the calls and the budget      *)
(***************************************************************************)
BudgetOK == spent \in 0..MaxEvents /\ faulty \in BOOLEAN

LEMMA BudgetStep ==
  ASSUME BudgetOK, NEW n \in Nat,
         \/ Spend(n)
         \/ \E r \in BOOLEAN, w \in BOOLEAN : Calls(n, r, w)
  PROVE BudgetOK'
<1>1. CASE Spend(n)
  <2>1. spent' \in 0..MaxEvents
    BY <1>1, ApiProcessAssumption DEF BudgetOK, Spend
  <2> QED
    BY <1>1, <2>1, Zenon DEF BudgetOK, Spend
<1>2. ASSUME NEW r \in BOOLEAN, NEW w \in BOOLEAN, Calls(n, r, w) PROVE BudgetOK'
  <2>1. spent' \in 0..MaxEvents
    BY <1>2, ApiProcessAssumption DEF BudgetOK, Calls
  <2>2. faulty' \in BOOLEAN
    BY <1>2, Zenon DEF Calls
  <2> QED
    BY <2>1, <2>2, Zenon DEF BudgetOK
<1> QED
  BY <1>1, <1>2

\* A call that is not resting is for a model.
Loads == [at : Stages, model : Models \cup {NoModel}, clean : BOOLEAN]
InfOK ==
  /\ InfTypeOK
  /\ \A c \in Callers : load[c].at # "idle" => load[c].model \in Models

\* One call moves; flags of the others may fall.
LEMMA LoadMoved ==
  ASSUME InfOK, NEW c \in Callers, NEW new \in Loads, new.at # "idle" => new.model \in Models,
         load' = [load EXCEPT ![c] = new]
  PROVE /\ load' \in [Callers -> Loads]
        /\ \A d \in Callers : load'[d].at # "idle" => load'[d].model \in Models
BY DEF InfOK, InfTypeOK, Loads

\* What Disturbed makes of the calls, and the step after it.
LEMMA LoadDisturbed ==
  ASSUME InfOK, NEW c \in Callers, load[c].at # "idle", NEW at \in Stages,
         load' = [Disturbed(c) EXCEPT ![c].at = at]
  PROVE /\ load' \in [Callers -> Loads]
        /\ \A d \in Callers : load'[d].at # "idle" => load'[d].model \in Models
        /\ load'[c].at = at /\ load'[c].model = load[c].model /\ load'[c].clean = Alone(c)
        /\ \A d \in Callers \ {c} :
              /\ load'[d].at = load[d].at /\ load'[d].model = load[d].model
              /\ load'[d].clean <=> load[d].clean /\ load[d].at = "idle"
<1> DEFINE mine == [load[c] EXCEPT !.clean = Alone(c)]
           theirs(d) == [load[d] EXCEPT !.clean = @ /\ load[d].at = "idle"]
<1>1. load \in [Callers -> Loads] /\ load[c].model \in Models
  BY DEF InfOK, InfTypeOK, Loads
<1>2. Disturbed(c) = [d \in Callers |-> IF d = c THEN mine ELSE theirs(d)]
  BY DEF Disturbed
<1> DEFINE b == Alone(c)
<1>0. b \in BOOLEAN
  BY DEF Alone
<1> HIDE DEF b
<1>3. mine \in Loads /\ mine.model = load[c].model /\ mine.clean = b
  BY <1>1, <1>0 DEF Loads, mine, b
<1>4. ASSUME NEW d \in Callers
      PROVE /\ theirs(d) \in Loads /\ theirs(d).at = load[d].at /\ theirs(d).model = load[d].model
            /\ theirs(d).clean <=> load[d].clean /\ load[d].at = "idle"
  BY <1>1 DEF Loads
<1> HIDE DEF mine, theirs
<1>5. load' = [[d \in Callers |-> IF d = c THEN mine ELSE theirs(d)] EXCEPT ![c] = [mine EXCEPT !.at = at]]
  BY <1>2
<1>6. [mine EXCEPT !.at = at] \in Loads /\ [mine EXCEPT !.at = at].model = load[c].model
  BY <1>3 DEF Loads
<1>7. load'[c] = [mine EXCEPT !.at = at] /\ \A d \in Callers \ {c} : load'[d] = theirs(d)
  BY <1>5
<1>8. [mine EXCEPT !.at = at].at = at /\ [mine EXCEPT !.at = at].clean = b
  BY <1>3 DEF Loads
<1>9. load' \in [Callers -> Loads]
  BY <1>3, <1>4, <1>5, <1>6
<1>10. load'[c].clean = Alone(c)
  BY <1>7, <1>8 DEF b
<1>11. ASSUME NEW d \in Callers \ {c}
       PROVE /\ load'[d].at = load[d].at /\ load'[d].model = load[d].model
             /\ load'[d].clean <=> load[d].clean /\ load[d].at = "idle"
  BY <1>4, <1>7
<1>12. \A d \in Callers : load'[d].at # "idle" => load'[d].model \in Models
  BY <1>1, <1>6, <1>7, <1>11 DEF InfOK
<1> QED
  BY <1>6, <1>7, <1>8, <1>9, <1>10, <1>11, <1>12

(***************************************************************************)
(* The steps of load_model, by what they do to the fields: each step of    *)
(* Inference is one of six kinds.                                          *)
(***************************************************************************)

\* s is the fields with some parts of c's model, an engine with its flag.
Adds(c, s) ==
  /\ s \in Fields
  /\ \A p \in Parts : s.part[p] \in {svc.part[p], load[c].model}
  /\ \/ s.onnx = svc.onnx /\ s.part["engine"] = svc.part["engine"]
     \/ s.onnx = TRUE /\ s.part["engine"] = load[c].model

\* Nothing of it makes a model ready.
Grows(c, s) ==
  /\ Adds(c, s) /\ s.loaded = svc.loaded /\ s.onnx = svc.onnx
  /\ \A p \in {"engine", "pipeline"} : s.part[p] = svc.part[p]

\* c's call moves on to await, or to return.
MovesTo(c, at) ==
  /\ load' = [load EXCEPT ![c].at = at]
  /\ turn' = IF at \in {"done", "half done", "failed"} THEN c ELSE NoCaller

\* Only a simulation is given up after the id is set.
GivesUp(c) ==
  /\ load[c].at = "select" \/ Resetting(c) \/ (Loading(c) /\ req[c].at = "loading")
  /\ MovesTo(c, "failed") /\ UNCHANGED <<svc, tainted>>

Resets(c) ==
  /\ azure /\ load[c].at = "select"
  /\ svc' = Cleared(svc)
  /\ \E at \in {"onnx", "pickle"} : load' = [Disturbed(c) EXCEPT ![c].at = at]
  /\ turn' = NoCaller /\ UNCHANGED tainted

GoesOn(c) ==
  /\ Resetting(c) /\ \E at \in Downloads : MovesTo(c, at)
  /\ Grows(c, svc')
  /\ UNCHANGED tainted

Completes(c) ==
  /\ Resetting(c) /\ \E at \in {"done", "find stage2"} : MovesTo(c, at)
  /\ Adds(c, svc') /\ svc'.loaded = load[c].model
  /\ svc'.onnx \/ svc'.part["pipeline"] = load[c].model
  /\ tainted' = ~load'[c].clean

LoadsHere(c) ==
  /\ ~azure /\ load[c].at = "select" /\ svc' \in Fields
  /\ \A p \in Parts : svc'.part[p] \in {NoModel, load[c].model}
  /\ svc'.onnx <=> svc'.part["engine"] # NoModel
  /\ \E at \in {"done", "find stage2", "failed"} :
       /\ load' = [Disturbed(c) EXCEPT ![c].at = at]
       /\ turn' = IF at = "find stage2" THEN NoCaller ELSE c
       /\ at # "failed" => /\ svc'.loaded = load[c].model /\ tainted' = ~load'[c].clean
                           /\ \E p \in {"engine", "pipeline"} : svc'.part[p] = load[c].model
       /\ at = "failed" => /\ svc'.loaded = svc.loaded /\ UNCHANGED tainted
                           /\ \A p \in {"engine", "pipeline"} : svc'.part[p] = NoModel

SecondStage(c) ==
  /\ load[c].at \in {"find stage2", "load stage2"}
  /\ \E at \in {"done", "half done", "load stage2"} : MovesTo(c, at)
  /\ svc' \in Fields /\ svc'.part = svc.part /\ svc'.onnx = svc.onnx /\ svc'.loaded = svc.loaded
  /\ UNCHANGED tainted

Kind(c) ==
  \/ GivesUp(c) \/ Resets(c) \/ GoesOn(c) \/ Completes(c) \/ LoadsHere(c) \/ SecondStage(c)

\* Has, the reset and the end of a load, on the fields.
LEMMA HasAdds ==
  ASSUME NEW c, load[c].model \in Models, NEW s, Adds(c, s), NEW p \in Parts
  PROVE /\ Has(c, s, p) \in Fields
        /\ Has(c, s, p).loaded = s.loaded /\ Has(c, s, p).onnx = s.onnx
        /\ Has(c, s, p).part[p] = load[c].model
        /\ \A q \in Parts \ {p} : Has(c, s, p).part[q] = s.part[q]
        /\ p # "engine" => Adds(c, Has(c, s, p))
        /\ p = "engine" => Adds(c, [Has(c, s, p) EXCEPT !.onnx = TRUE])
<1> DEFINE m == load[c].model
           n == [s EXCEPT !.part[p] = m]
           k == [n EXCEPT !.onnx = TRUE]
<1>1. s \in Fields /\ m \in Models
  BY DEF Adds
<1> HIDE DEF m
<1>2. /\ n \in Fields /\ n.loaded = s.loaded /\ n.onnx = s.onnx /\ n.part[p] = m
      /\ \A q \in Parts \ {p} : n.part[q] = s.part[q]
  BY <1>1 DEF Fields
<1>3. Has(c, s, p) = n
  BY DEF Has, m
<1> HIDE DEF n
<1>4. k \in Fields /\ k.onnx = TRUE /\ k.part = n.part
  BY <1>2 DEF Fields
<1> HIDE DEF k
<1>5. p # "engine" => Adds(c, n)
  BY <1>2 DEF Adds, m, Parts
<1>6. p = "engine" => Adds(c, k)
  BY <1>2, <1>4 DEF Adds, m, Parts
<1> QED
  BY <1>2, <1>3, <1>5, <1>6 DEF m, k

LEMMA ClearedFields ==
  ASSUME NEW s \in Fields
  PROVE /\ Cleared(s) \in Fields /\ Cleared(s).part = Blank /\ Cleared(s).onnx = FALSE
        /\ Cleared(s).loaded = s.loaded
BY DEF Cleared, Fields, Blank

LEMMA LoadedFields ==
  ASSUME NEW c, load[c].model \in Models, NEW s \in Fields, Loaded(c, s)
  PROVE /\ svc' \in Fields /\ svc'.loaded = load[c].model /\ svc'.onnx = s.onnx
        /\ \A p \in Parts \ {"threshold"} : svc'.part[p] = s.part[p]
        /\ svc'.part["threshold"] \in {s.part["threshold"], load[c].model}
        /\ tainted' = ~load'[c].clean /\ UNCHANGED settings
<1> DEFINE m == load[c].model
           n == [s EXCEPT !.loaded = m, !.part["threshold"] = IF @ = NoModel THEN m ELSE @]
<1>1. m \in Models
  OBVIOUS
<1> HIDE DEF m
<1>2. /\ n \in Fields /\ n.loaded = m /\ n.onnx = s.onnx
      /\ \A q \in Parts \ {"threshold"} : n.part[q] = s.part[q]
      /\ n.part["threshold"] \in {s.part["threshold"], m}
  BY <1>1 DEF Fields, Parts
<1>3. svc' = n /\ tainted' = ~load'[c].clean /\ UNCHANGED settings
  BY Zenon DEF Loaded, m
<1> HIDE DEF n
<1> QED
  BY <1>2, <1>3 DEF m

LEMMA LoadedAdds ==
  ASSUME NEW c, load[c].model \in Models, NEW s, Adds(c, s), Loaded(c, s)
  PROVE /\ Adds(c, svc') /\ svc'.loaded = load[c].model /\ svc'.onnx = s.onnx
        /\ svc'.part["pipeline"] = s.part["pipeline"] /\ tainted' = ~load'[c].clean
        /\ UNCHANGED settings
<1>1. s \in Fields
  BY DEF Adds
<1>2. Adds(c, svc')
  BY <1>1, LoadedFields DEF Adds, Parts
<1> QED
  BY <1>1, <1>2, LoadedFields DEF Parts

LEMMA HasGrows ==
  ASSUME NEW c, load[c].model \in Models, NEW s, Grows(c, s),
         NEW p \in {"preprocessor", "threshold", "calibrator"}
  PROVE Grows(c, Has(c, s, p))
<1> DEFINE m == load[c].model
           n == [s EXCEPT !.part[p] = m]
<1>1. s \in Fields /\ m \in Models /\ p \in Parts
  BY DEF Grows, Adds, Parts
<1> HIDE DEF m
<1>2. /\ n \in Fields /\ n.loaded = s.loaded /\ n.onnx = s.onnx /\ n.part[p] = m
      /\ \A q \in Parts \ {p} : n.part[q] = s.part[q]
  BY <1>1 DEF Fields
<1>3. Has(c, s, p) = n
  BY DEF Has, m
<1> HIDE DEF n
<1>4. n.part["engine"] = s.part["engine"] /\ n.part["pipeline"] = s.part["pipeline"]
  BY <1>2 DEF Parts
<1>5. Grows(c, n)
  BY <1>2, <1>4 DEF Grows, Adds, m
<1> QED
  BY <1>3, <1>5

\* How a call ends or goes on.
LEMMA Moved ==
  ASSUME NEW c, NEW at
  PROVE /\ Awaits(c, at) /\ at \notin {"done", "half done", "failed"} => MovesTo(c, at)
        /\ Returns(c, at) /\ at \in {"done", "half done", "failed"} => MovesTo(c, at)
BY DEF Awaits, Returns, MovesTo

LEMMA ContinuesMoves ==
  ASSUME NEW c, Continues(c)
  PROVE \E at \in {"done", "find stage2"} : MovesTo(c, at)
BY Moved DEF Continues

LEMMA FallsBackKinds ==
  ASSUME NEW c, load[c].model \in Models, Resetting(c), NEW s, Grows(c, s), FallsBack(c, s)
  PROVE (GoesOn(c) \/ Completes(c)) /\ UNCHANGED settings
<1>1. CASE s.onnx
  <2>1. Continues(c) /\ Loaded(c, s)
    BY <1>1 DEF FallsBack
  <2>2. Adds(c, s)
    BY DEF Grows
  <2>3. Completes(c) /\ UNCHANGED settings
    BY <1>1, <2>1, <2>2, LoadedAdds, ContinuesMoves, Zenon DEF Completes
  <2> QED
    BY <2>3
<1>2. CASE ~s.onnx
  <2>1. Awaits(c, "pickle") /\ Holds(s)
    BY <1>2 DEF FallsBack
  <2>2. svc' = s /\ UNCHANGED settings /\ UNCHANGED tainted
    BY <2>1, Zenon DEF Holds
  <2>3. \E at \in Downloads : MovesTo(c, at)
    BY <2>1, Moved DEF Downloads
  <2> QED
    BY <2>2, <2>3, Zenon DEF GoesOn
<1> QED
  BY <1>1, <1>2

LEMMA BuildsKinds ==
  ASSUME NEW c, load[c].model \in Models, Resetting(c), NEW s, Grows(c, s), NEW n \in Nat,
         Builds(c, s, n)
  PROVE (GoesOn(c) \/ Completes(c)) /\ UNCHANGED settings /\ \E k \in Nat : Spend(k)
<1> DEFINE e == [Has(c, s, "engine") EXCEPT !.onnx = TRUE]
<1>1. Adds(c, s)
  BY DEF Grows
<1>2. Adds(c, e) /\ e.onnx = TRUE
  <2>1. Adds(c, e) /\ Has(c, s, "engine") \in Fields
    BY <1>1, HasAdds DEF Parts
  <2> QED
    BY <2>1 DEF Fields
<1> HIDE DEF e
<1>3. CASE FallsBack(c, s) /\ Spend(n + 1)
  BY <1>3, FallsBackKinds
<1>4. CASE Continues(c) /\ Loaded(c, e) /\ Spend(n)
  <2>1. Completes(c) /\ UNCHANGED settings
    BY <1>2, <1>4, LoadedAdds, ContinuesMoves, Zenon DEF Completes
  <2> QED
    BY <1>4, <2>1
<1> QED
  BY <1>3, <1>4 DEF Builds, e

\* From the local disk, the fields are those of the model, or without an engine
\* and a pipeline.
LEMMA LocalKinds ==
  ASSUME InfOK, NEW c \in Callers, LoadLocally(c)
  PROVE LoadsHere(c) /\ UNCHANGED settings /\ \E n \in Nat : Spend(n)
<1> DEFINE m == load[c].model
           parts == {p \in {"preprocessor", "threshold", "calibrator"} :
                       m \in OnnxModels /\ (p = "calibrator" => m \in Calibrated)}
           With(extra) == [Cleared(svc) EXCEPT
                             !.onnx = "engine" \in extra,
                             !.part = [p \in Parts |-> IF p \in parts \cup extra THEN m ELSE @[p]]]
           Resumes(at) == load' = [Disturbed(c) EXCEPT ![c].at = at]
                          /\ turn' = IF at = "find stage2" THEN NoCaller ELSE c
           next == IF m \in TypeModels THEN "done" ELSE "find stage2"
<1>1. /\ ~azure /\ load[c].at = "select"
      /\ \/ m \in OnnxModels /\ Resumes(next) /\ Loaded(c, With({"engine"})) /\ Spare
         \/ /\ Resumes(next) /\ Loaded(c, With({"pipeline"}))
            /\ IF m \in OnnxModels THEN Spend(1) ELSE Spare
         \/ Resumes("failed") /\ Holds(With({})) /\ Spend(1)
  BY Zenon DEF LoadLocally, ResumesAt
<1>2. m \in Models /\ svc \in Fields
  BY <1>1 DEF InfOK, InfTypeOK
<1>3. parts \in SUBSET {"preprocessor", "threshold", "calibrator"}
  OBVIOUS
<1>4. next \in {"done", "find stage2"}
  OBVIOUS
<1> HIDE DEF parts, next
<1>5. ASSUME NEW extra \in SUBSET {"engine", "pipeline"}
      PROVE /\ With(extra) \in Fields /\ With(extra).loaded = svc.loaded
            /\ (With(extra).onnx <=> "engine" \in extra)
            /\ \A p \in Parts : With(extra).part[p] = IF p \in parts \cup extra THEN m ELSE NoModel
  <2> DEFINE P == [p \in Parts |-> IF p \in parts \cup extra THEN m ELSE Cleared(svc).part[p]]
             b == "engine" \in extra
             n == With(extra)
  <2>1. /\ Cleared(svc) \in Fields /\ Cleared(svc).loaded = svc.loaded
        /\ \A p \in Parts : Cleared(svc).part[p] = NoModel
    <3>1. \A p \in Parts : Blank[p] = NoModel
      BY DEF Blank
    <3> QED
      BY <1>2, <3>1, ClearedFields
  <2>2. P \in [Parts -> Models \cup {NoModel}] /\ b \in BOOLEAN
    BY <1>2, <2>1
  <2>3. n = [Cleared(svc) EXCEPT !.onnx = b, !.part = P]
    BY DEF P, b, With
  <2>4. \A p \in Parts : P[p] = IF p \in parts \cup extra THEN m ELSE NoModel
    BY <2>1
  <2> HIDE DEF P, b, n
  <2>5. n \in Fields /\ n.loaded = svc.loaded /\ n.onnx = b /\ n.part = P
    BY <2>1, <2>2, <2>3 DEF Fields
  <2> QED
    BY <2>4, <2>5 DEF b, n
<1> HIDE DEF With
<1>6. \E n \in Nat : Spend(n)
  BY <1>1, Zenon DEF Spare
<1>7. ASSUME NEW e \in {"engine", "pipeline"}, Resumes(next), Loaded(c, With({e}))
      PROVE LoadsHere(c) /\ UNCHANGED settings
  <2>1. {e} \in SUBSET {"engine", "pipeline"} /\ e \in Parts /\ e # "threshold"
    BY <1>7 DEF Parts
  <2>2. /\ With({e}) \in Fields /\ (With({e}).onnx <=> e = "engine")
        /\ \A p \in Parts : With({e}).part[p] \in {m, NoModel}
        /\ With({e}).part[e] = m
        /\ (With({e}).part["engine"] # NoModel <=> e = "engine")
    BY <1>2, <1>3, <1>5, <2>1, ApiProcessAssumption DEF Parts
  <2> DEFINE s == With({e})
  <2> HIDE DEF s
  <2>3. s \in Fields /\ Loaded(c, s)
    BY <1>7, <2>2 DEF s
  <2>4. /\ svc' \in Fields /\ svc'.loaded = m /\ svc'.onnx = s.onnx
        /\ \A p \in Parts \ {"threshold"} : svc'.part[p] = s.part[p]
        /\ svc'.part["threshold"] \in {s.part["threshold"], m}
        /\ tainted' = ~load'[c].clean /\ UNCHANGED settings
    BY <1>2, <2>3, LoadedFields
  <2>5. /\ \A p \in Parts : svc'.part[p] \in {NoModel, m}
        /\ svc'.part[e] = m
        /\ svc'.onnx <=> svc'.part["engine"] # NoModel
    BY <2>1, <2>2, <2>4 DEF s, Parts
  <2> QED
    BY <1>1, <1>4, <1>7, <2>4, <2>5, Zenon DEF LoadsHere
<1>8. ASSUME Resumes("failed"), Holds(With({}))
      PROVE LoadsHere(c) /\ UNCHANGED settings
  <2>1. svc' = With({}) /\ UNCHANGED settings /\ UNCHANGED tainted
    BY <1>8, Zenon DEF Holds
  <2>2. /\ svc' \in Fields /\ svc'.loaded = svc.loaded /\ ~svc'.onnx
        /\ \A p \in Parts : svc'.part[p] \in {m, NoModel}
        /\ svc'.part["engine"] = NoModel /\ svc'.part["pipeline"] = NoModel
    BY <1>3, <1>5, <2>1 DEF Parts
  <2> QED
    BY <1>1, <1>8, <2>1, <2>2 DEF LoadsHere
<1> QED
  BY <1>1, <1>6, <1>7, <1>8, Zenon

\* Each step of a call is of one kind, leaves the settings, and costs a few events.
LEMMA LoadStepKinds ==
  ASSUME InfOK, NEW c \in Callers, LoadStep(c) \/ (CancelLoad(c) /\ req[c].at = "loading")
  PROVE Kind(c) /\ UNCHANGED settings /\ \E n \in Nat : Spend(n)
<1> DEFINE Goal == Kind(c) /\ UNCHANGED settings /\ \E n \in Nat : Spend(n)
<1> SUFFICES Goal
  OBVIOUS
<1>0. /\ 0 \in Nat /\ 1 \in Nat /\ (Spare <=> Spend(0))
      /\ svc \in Fields /\ (load[c].at # "idle" => load[c].model \in Models)
  BY DEF Spare, InfOK, InfTypeOK
<1>1. Grows(c, svc)
  BY <1>0 DEF Grows, Adds
<1>2. CASE CancelLoad(c) /\ req[c].at = "loading"
  <2>1. Loading(c) /\ req[c].at = "loading" /\ MovesTo(c, "failed")
    BY <1>2, Moved DEF CancelLoad
  <2> QED
    BY <1>0, <1>2, <2>1, Zenon DEF CancelLoad, Kind, GivesUp
<1>3. CASE NotFound(c)
  <2>1. load[c].at = "select" /\ MovesTo(c, "failed")
    BY <1>3, Moved DEF NotFound, ResumesAt
  <2> QED
    BY <1>0, <1>3, <2>1, Zenon DEF NotFound, Kind, GivesUp
<1>4. CASE ResetFields(c)
  <2>1. \E at \in {"onnx", "pickle"} : load' = [Disturbed(c) EXCEPT ![c].at = at]
    BY <1>4 DEF ResetFields
  <2> QED
    BY <1>0, <1>4, <2>1, Zenon DEF ResetFields, ResumesAt, Kind, Resets
<1>5. CASE LoadLocally(c)
  BY <1>5, LocalKinds DEF Kind
<1>6. ASSUME Resetting(c), NEW s, Grows(c, s), NEW n \in Nat, Builds(c, s, n) PROVE Goal
  <2>1. load[c].model \in Models
    BY <1>0, <1>6 DEF Resetting, Downloads
  <2> QED
    BY <1>6, <2>1, BuildsKinds DEF Kind
<1>7. ASSUME Resetting(c), NEW at \in Downloads, Awaits(c, at), NEW s, Grows(c, s), Holds(s),
             NEW n \in Nat, Spend(n)
      PROVE Goal
  <2>1. svc' = s /\ UNCHANGED settings /\ UNCHANGED tainted
    BY <1>7, Zenon DEF Holds
  <2>2. MovesTo(c, at)
    BY <1>7, Moved DEF Downloads
  <2> QED
    BY <1>7, <2>1, <2>2, Zenon DEF Kind, GoesOn
<1>8. ASSUME Resetting(c), NEW p \in {"preprocessor", "threshold", "calibrator"}
      PROVE Grows(c, Has(c, svc, p))
  BY <1>0, <1>1, <1>8, HasGrows DEF Resetting, Downloads
<1>9. CASE DownloadOnnx(c)
  <2>1. Resetting(c)
    BY <1>9 DEF DownloadOnnx, ResumesAt, Resetting, Downloads
  <2>2. ASSUME FallsBack(c, svc), Spend(1) PROVE Goal
    <3>1. load[c].model \in Models
      BY <1>0, <2>1 DEF Resetting, Downloads
    <3> QED
      BY <1>0, <1>1, <2>1, <2>2, <3>1, FallsBackKinds DEF Kind
  <2> QED
    BY <1>0, <1>1, <1>7, <1>9, <2>1, <2>2 DEF DownloadOnnx, Downloads
<1>10. CASE DownloadPreprocessor(c)
  <2>1. Resetting(c)
    BY <1>10 DEF DownloadPreprocessor, ResumesAt, Resetting, Downloads
  <2> QED
    BY <1>0, <1>1, <1>7, <1>8, <1>10, <2>1 DEF DownloadPreprocessor, Downloads
<1>11. CASE DownloadManifest(c)
  <2>1. Resetting(c)
    BY <1>11 DEF DownloadManifest, ResumesAt, Resetting, Downloads
  <2> QED
    BY <1>0, <1>1, <1>6, <1>7, <1>8, <1>11, <2>1 DEF DownloadManifest, Downloads
<1>12. CASE DownloadCalibrator(c)
  <2>1. Resetting(c)
    BY <1>12 DEF DownloadCalibrator, ResumesAt, Resetting, Downloads
  <2> QED
    BY <1>0, <1>1, <1>6, <1>8, <1>12, <2>1 DEF DownloadCalibrator
<1>13. CASE DownloadPickle(c)
  <2>1. Resetting(c) /\ Loading(c) /\ load[c].model \in Models
    BY <1>0, <1>13 DEF DownloadPickle, ResumesAt, Resetting, Downloads, Loading
  <2>2. ASSUME Continues(c), Loaded(c, Has(c, svc, "pipeline")), Spend(0) PROVE Goal
    <3> DEFINE s == Has(c, svc, "pipeline")
    <3>1. Adds(c, s) /\ s.part["pipeline"] = load[c].model
      BY <1>1, <2>1, HasAdds DEF Grows, Parts
    <3> HIDE DEF s
    <3>2. Completes(c) /\ UNCHANGED settings
      <4>1. Loaded(c, s)
        BY <2>2 DEF s
      <4> QED
        BY <2>1, <2>2, <3>1, <4>1, LoadedAdds, ContinuesMoves, Zenon DEF Completes
    <3> QED
      BY <1>0, <2>2, <3>2 DEF Kind
  <2>3. ASSUME Returns(c, "failed"), Holds(svc), Spend(1) PROVE Goal
    <3>1. MovesTo(c, "failed")
      BY <2>3, Moved
    <3> QED
      BY <1>0, <2>1, <2>3, <3>1, Zenon DEF Holds, Kind, GivesUp
  <2> QED
    BY <1>0, <1>13, <2>2, <2>3 DEF DownloadPickle
<1>14. ASSUME NEW at \in {"done", "half done", "load stage2"}, MovesTo(c, at),
              load[c].at \in {"find stage2", "load stage2"}, UNCHANGED <<settings, tainted>>,
              NEW n \in Nat, Spend(n),
              \/ UNCHANGED svc
              \/ \E r \in [by : Callers \cup {NoCaller}, ready : BOOLEAN] :
                    svc' = [svc EXCEPT !.stage2 = r]
       PROVE Goal
  <2>1. /\ svc' \in Fields /\ svc'.part = svc.part /\ svc'.onnx = svc.onnx
        /\ svc'.loaded = svc.loaded
    BY <1>0, <1>14 DEF Fields
  <2> QED
    BY <1>14, <2>1, Zenon DEF Kind, SecondStage
<1>15. CASE FindStage2(c)
  <2>1. \E at \in {"done", "load stage2"} : MovesTo(c, at)
    BY <1>15, Moved DEF FindStage2
  <2>2. \/ UNCHANGED svc
        \/ \E r \in [by : Callers \cup {NoCaller}, ready : BOOLEAN] :
              svc' = [svc EXCEPT !.stage2 = r]
    <3>1. [by |-> c, ready |-> FALSE] \in [by : Callers \cup {NoCaller}, ready : BOOLEAN]
      OBVIOUS
    <3> QED
      BY <1>15, <3>1, Zenon DEF FindStage2
  <2>3. load[c].at = "find stage2" /\ UNCHANGED <<settings, tainted>> /\ Spend(0)
    BY <1>0, <1>15, Zenon DEF FindStage2, ResumesAt
  <2> QED
    BY <1>0, <1>14, <2>1, <2>2, <2>3
<1>16. CASE LoadStage2(c)
  <2>1. \E at \in {"done", "half done"} : MovesTo(c, at)
    BY <1>16, Moved DEF LoadStage2
  <2>2. \/ UNCHANGED svc
        \/ \E r \in [by : Callers \cup {NoCaller}, ready : BOOLEAN] :
              svc' = [svc EXCEPT !.stage2 = r]
    <3> DEFINE r == [svc.stage2 EXCEPT !.ready = TRUE]
    <3>1. r \in [by : Callers \cup {NoCaller}, ready : BOOLEAN]
      BY <1>0 DEF Fields
    <3>2. UNCHANGED svc \/ svc' = [svc EXCEPT !.stage2 = r]
      BY <1>16 DEF LoadStage2
    <3> QED
      BY <3>1, <3>2
  <2>3. /\ load[c].at = "load stage2" /\ UNCHANGED <<settings, tainted>>
        /\ Spend(0) \/ Spend(1)
    BY <1>0, <1>16, Zenon DEF LoadStage2, ResumesAt
  <2> QED
    BY <1>0, <1>14, <2>1, <2>2, <2>3
<1> QED
  BY <1>2, <1>3, <1>4, <1>5, <1>9, <1>10, <1>11, <1>12, <1>13, <1>15, <1>16 DEF LoadStep

(***************************************************************************)
(* The steps of Serving, by what they do to the callers: a request asks    *)
(* for a model, goes on without one, moves in load_model, or ends.         *)
(***************************************************************************)
Requests == [at : {"idle", "load", "predict", "preview", "arm", "loading", "batch"},
             test : Tests \cup {NoTest}, prior : Models \cup {NoModel},
             arm : Arms, left : [Arms -> 0..Batches], rows : SUBSET Arms]

\* A simulation is of a test, and loads for an arm that has rows; a routed
\* prediction knows which model was loaded.
RequestOK(r) ==
  /\ r \in Requests
  /\ r.at \in {"preview", "arm", "loading", "batch"} => r.test \in Tests
  /\ r.at \in {"loading", "batch"} => r.left[r.arm] > 0
  /\ r.at = "predict" => r.prior \in Models

CallsOK ==
  /\ req \in [Callers -> Requests]
  /\ \A c \in Callers : RequestOK(req[c])

TypeInv == BudgetOK /\ TestsInv /\ InfOK /\ BatchTypeOK /\ CallsOK

Asks(c) ==
  /\ Runs(c)
  /\ \E m \in Models : CallLoad(c, m)
  /\ \E r \in Requests :
       /\ RequestOK(r) /\ r.at \in {"load", "predict", "loading"}
       /\ r.at = "predict" => r.prior = svc.loaded
       /\ req' = [req EXCEPT ![c] = r]

Ends(c) == Runs(c) /\ Finishes(c) /\ UNCHANGED <<svc, tainted>>

Proceeds(c) ==
  /\ Runs(c) /\ UNCHANGED <<svc, load, tainted>>
  /\ \E r \in Requests :
       /\ RequestOK(r) /\ req' = [req EXCEPT ![c] = r]
       /\ \/ req[c].at = "idle" /\ r.at = "preview" /\ turn' = NoCaller
          \/ /\ r.at \in {"arm", "batch"} /\ turn' \in {c, NoCaller}
             /\ req[c].at \in {"preview", "batch"} \/ load[c].at = "done"

InLoad(c) == turn = NoCaller /\ Kind(c) /\ UNCHANGED req

Restarts ==
  /\ svc' = Fresh /\ load' = [c \in Callers |-> Resting]
  /\ req' = [c \in Callers |-> NoRequest]
  /\ turn' = NoCaller /\ tainted' = FALSE /\ batch' = NoBatch

Shape ==
  \/ \E c \in Callers : (Asks(c) \/ Ends(c) \/ Proceeds(c) \/ InLoad(c)) /\ BatchSees
  \/ UNCHANGED <<svc, load, turn, tainted, req, batch>>
  \/ Free /\ BatchStep /\ UNCHANGED <<svc, load, turn, tainted, req>>
  \/ Restarts

\* What a step of Serving is.
StepOK == TestsInv' /\ BudgetOK' /\ UNCHANGED settings /\ Shape

LEMMA SameTests == ASSUME TestsInv, UNCHANGED abVars PROVE TestsInv'
BY DEF TestsInv, ServiceOK, abVars

\* A batch does not see what leaves the fields alone.
LEMMA BatchUnmoved ==
  ASSUME BatchTypeOK, UNCHANGED <<svc, batch>> PROVE BatchSees
<1>1. [batch EXCEPT !.clean = @ /\ (svc' = svc \/ batch.at \notin Reads)] = batch
  BY DEF BatchTypeOK
<1> QED
  BY <1>1 DEF BatchSees

LEMMA BeginStep ==
  ASSUME TypeInv, NEW c \in Callers, Begin(c) PROVE StepOK
<1>1. req[c] \in Requests /\ CallsOK /\ TestsInv /\ BudgetOK /\ BatchTypeOK
  BY DEF TypeInv, CallsOK
<1>2. UNCHANGED batch
  BY DEF Begin
<1>3. CASE PostLoad(c)
  <2>1. PICK m \in Models : /\ Begins(c) /\ req' = [req EXCEPT ![c].at = "load"]
                            /\ CallLoad(c, m) /\ Spend(1) /\ UNCHANGED abVars
    BY <1>3, Zenon DEF PostLoad
  <2> DEFINE r == [req[c] EXCEPT !.at = "load"]
  <2>2. r \in Requests /\ RequestOK(r) /\ r.at = "load"
    BY <1>1 DEF Requests, RequestOK
  <2>3. req' = [req EXCEPT ![c] = r]
    BY <2>1
  <2> HIDE DEF r
  <2>4. Asks(c)
    BY <2>1, <2>2, <2>3 DEF Asks, Runs, Begins, Free
  <2>5. UNCHANGED settings /\ UNCHANGED svc
    BY <2>1, Zenon DEF CallLoad
  <2> QED
    BY <1>1, <1>2, <2>1, <2>4, <2>5, BudgetStep, SameTests, BatchUnmoved DEF StepOK, Shape
<1>4. CASE PredictRouted(c)
  <2>1. PICK a \in Arms, w \in BOOLEAN :
          /\ ab' = Routed(ab, w) /\ Calls(1, TRUE, w) /\ CallLoad(c, Arm(ab.mem.active, a))
          /\ Begins(c) /\ svc.loaded # NoModel /\ Routing
          /\ req' = [req EXCEPT ![c].at = "predict", ![c].prior = svc.loaded]
          /\ UNCHANGED issued
    BY <1>4, Zenon DEF PredictRouted
  <2> DEFINE r == [req[c] EXCEPT !.at = "predict", !.prior = svc.loaded]
  <2>2. svc.loaded \in Models
    BY <2>1 DEF TypeInv, InfOK, InfTypeOK, Fields
  <2>3. r \in Requests /\ RequestOK(r) /\ r.at = "predict" /\ r.prior = svc.loaded
    BY <1>1, <2>2 DEF Requests, RequestOK
  <2>4. req' = [req EXCEPT ![c] = r]
    BY <2>1
  <2> HIDE DEF r
  <2>5. Arm(ab.mem.active, a) \in Models
    <3>1. Known(ab) \subseteq Tests
      BY <1>1, ServiceParts, StateParts DEF TestsInv, ServiceOK, Known
    <3> QED
      BY <2>1, <3>1, ArmIsModel DEF Routing
  <2>6. Asks(c)
    BY <2>1, <2>3, <2>4, <2>5 DEF Asks, Runs, Begins, Free
  <2>7. UNCHANGED settings /\ UNCHANGED svc
    BY <2>1, Zenon DEF CallLoad
  <2>8. TestsInv'
    BY <1>1, <2>1, RoutedOK DEF TestsInv
  <2> QED
    BY <1>1, <1>2, <2>1, <2>6, <2>7, <2>8, BudgetStep, BatchUnmoved DEF StepOK, Shape
<1>5. CASE PostSimulation(c)
  <2>1. PICK t \in Tests, r \in BOOLEAN, w \in BOOLEAN :
          /\ Begins(c) /\ t \in Known(Load(ab, r))
          /\ ab' = Load(Progressed(Load(ab, r), t, "INITIALIZING", w), r) /\ Calls(1, r, w)
          /\ req' = [req EXCEPT ![c].at = "preview", ![c].test = t]
          /\ UNCHANGED <<infVars, issued>>
    BY <1>5, Zenon DEF PostSimulation
  <2> DEFINE q == [req[c] EXCEPT !.at = "preview", !.test = t]
  <2>2. q \in Requests /\ RequestOK(q) /\ q.at = "preview"
    BY <1>1 DEF Requests, RequestOK
  <2>3. req' = [req EXCEPT ![c] = q]
    BY <2>1
  <2> HIDE DEF q
  <2>4. Proceeds(c)
    BY <2>1, <2>2, <2>3 DEF Proceeds, Runs, Begins, Free, infVars
  <2>5. UNCHANGED settings /\ UNCHANGED svc
    BY <2>1 DEF infVars, settings
  <2>6. TestsInv'
    <3>1. "INITIALIZING" \in Progress
      BY DEF Progress
    <3> QED
      BY <1>1, <2>1, <3>1, LoadOK, ProgressedOK DEF TestsInv
  <2> QED
    BY <1>1, <1>2, <2>1, <2>4, <2>5, <2>6, BudgetStep, BatchUnmoved DEF StepOK, Shape
<1> QED
  BY <1>3, <1>4, <1>5 DEF Begin

\* A simulation that ends writes its progress, and what s says, to its test.
LEMMA SimulationEnds ==
  ASSUME TypeInv, NEW c \in Callers, Runs(c), req[c].test \in Tests, NEW p \in Progress,
         NEW s, ServiceOK(s, issued), SimulationEndsWith(c, s, p)
  PROVE TestsInv' /\ BudgetOK' /\ UNCHANGED settings /\ Ends(c)
<1>1. PICK w \in BOOLEAN : /\ ab' = Finalized(Persist(s, w), req[c].test, p, w)
                           /\ Calls(0, TRUE, w)
  BY Zenon DEF SimulationEndsWith
<1>2. Finishes(c) /\ UNCHANGED <<issued, settings, svc, tainted>>
  BY Zenon DEF SimulationEndsWith
<1>3. TestsInv /\ BudgetOK
  BY DEF TypeInv
<1>4. TestsInv'
  BY <1>1, <1>2, <1>3, PersistOK, ProgressedOK DEF TestsInv
<1>5. BudgetOK'
  BY <1>1, <1>3, BudgetStep
<1> QED
  BY <1>2, <1>4, <1>5 DEF Ends

LEMMA MoveStep ==
  ASSUME TypeInv, NEW c \in Callers, Moves(c) PROVE StepOK
<1> DEFINE Goal == TestsInv' /\ BudgetOK' /\ UNCHANGED settings
                   /\ (Asks(c) \/ Ends(c) \/ Proceeds(c) \/ InLoad(c))
<1> SUFFICES Goal
  BY DEF Moves, StepOK, Shape
<1>1. /\ TestsInv /\ BudgetOK /\ InfOK /\ CallsOK
      /\ req[c] \in Requests /\ RequestOK(req[c])
  BY DEF TypeInv, CallsOK
<1>2. ASSUME LoadStep(c) \/ (CancelLoad(c) /\ req[c].at = "loading"), UNCHANGED <<abVars, req>>
      PROVE Goal
  <2>1. Kind(c) /\ UNCHANGED settings /\ \E n \in Nat : Spend(n)
    BY <1>1, <1>2, LoadStepKinds
  <2>2. turn = NoCaller
    BY <1>2 DEF LoadStep, CancelLoad, NotFound, ResetFields, LoadLocally, DownloadOnnx,
                DownloadPreprocessor, DownloadManifest, DownloadCalibrator, DownloadPickle,
                FindStage2, LoadStage2, ResumesAt
  <2> QED
    BY <1>1, <1>2, <2>1, <2>2, BudgetStep, SameTests DEF InLoad
<1>3. CASE LoadAnswers(c)
  BY <1>1, <1>3, SameTests DEF LoadAnswers, Ends, Runs, BudgetOK, budget
<1>4. CASE PredictAnswers(c)
  <2>1. turn = c /\ req[c].at = "predict" /\ Predicts(AnswersFor(c)) /\ Finishes(c)
        /\ UNCHANGED <<settings, svc, tainted>>
    BY <1>4, Zenon DEF PredictAnswers
  <2>2. AnswersFor(c) \in Models
    BY <1>1, <2>1 DEF AnswersFor, RequestOK, InfOK
  <2>3. TestsInv' /\ BudgetOK'
    <3> DEFINE m == AnswersFor(c)
    <3> HIDE DEF m
    <3>1. \/ UNCHANGED <<abVars, budget>>
          \/ \E w \in BOOLEAN :
               /\ ab' = IF ab.mem.active = NoTest THEN ab
                        ELSE Recorded(ab, ab.mem.active, m, w)
               /\ Calls(0, TRUE, w) /\ UNCHANGED issued
      BY <2>1, Zenon DEF Predicts, m
    <3>2. ASSUME NEW w \in BOOLEAN,
                 ab' = IF ab.mem.active = NoTest THEN ab ELSE Recorded(ab, ab.mem.active, m, w),
                 Calls(0, TRUE, w), UNCHANGED issued
          PROVE TestsInv' /\ BudgetOK'
      <4>1. ab.mem.active \in Tests \cup {NoTest}
        BY <1>1, ServiceParts, StateParts DEF TestsInv, ServiceOK
      <4>2. ServiceOK(ab', issued)
        BY <1>1, <2>2, <3>2, <4>1, RecordedOK DEF TestsInv, m
      <4> QED
        BY <1>1, <3>2, <4>2, BudgetStep DEF TestsInv
    <3>3. CASE UNCHANGED <<abVars, budget>>
      BY <1>1, <3>3, SameTests DEF BudgetOK, budget
    <3> QED
      BY <3>1, <3>2, <3>3
  <2> QED
    BY <2>1, <2>3 DEF Ends, Runs
<1>5. CASE SimulationDies(c)
  BY <1>1, <1>5, SameTests DEF SimulationDies, Free, Ends, Runs, BudgetOK, budget
<1>6. ASSUME Runs(c), req[c].test \in Tests, NEW p \in {"FAILED", "COMPLETED"}, NEW s,
             ServiceOK(s, issued), SimulationEndsWith(c, s, p)
      PROVE Goal
  <2>1. p \in Progress
    BY <1>6 DEF Progress
  <2> QED
    BY <1>6, <2>1, SimulationEnds
<1>7. CASE NoLabels(c)
  <2>1. Runs(c) /\ req[c].test \in Tests /\ SimulationEndsWith(c, ab, "FAILED")
    BY <1>1, <1>7 DEF NoLabels, Free, Runs, RequestOK
  <2> QED
    BY <1>1, <1>6, <2>1 DEF TestsInv
<1>8. CASE SimulationBegins(c)
  <2>1. PICK r \in BOOLEAN, w \in BOOLEAN, keeps \in BOOLEAN, left \in [Arms -> 0..Batches] :
          LET t == req[c].test
              s == Load(ab, r)
              rows == {a \in Arms : left[a] > 0}
          IN
          /\ t \in Known(s) /\ rows # {}
          /\ ab' = Progressed(IF keeps THEN s ELSE Reset(s, t), t, "RUNNING", w)
          /\ Calls(0, r, w)
          /\ req' = [req EXCEPT ![c].at = "arm", ![c].left = left, ![c].rows = rows]
    BY <1>8, Zenon DEF SimulationBegins
  <2>2. /\ Free /\ req[c].at = "preview" /\ turn' = c
        /\ UNCHANGED <<issued, settings, svc, load, tainted>>
    BY <1>8, Zenon DEF SimulationBegins
  <2>3. req[c].test \in Tests
    BY <1>1, <2>2 DEF RequestOK
  <2> DEFINE rows == {a \in Arms : left[a] > 0}
             q == [req[c] EXCEPT !.at = "arm", !.left = left, !.rows = rows]
  <2>4. q \in Requests /\ RequestOK(q) /\ q.at = "arm"
    BY <1>1, <2>3 DEF Requests, RequestOK
  <2>5. req' = [req EXCEPT ![c] = q]
    BY <2>1
  <2> HIDE DEF q
  <2>6. Proceeds(c)
    BY <2>2, <2>4, <2>5 DEF Proceeds, Runs, Free
  <2>7. TestsInv'
    <3> DEFINE s == Load(ab, r)
               n == IF keeps THEN s ELSE Reset(s, req[c].test)
    <3>1. ServiceOK(s, issued) /\ req[c].test \in Known(s)
      BY <1>1, <2>1, LoadOK DEF TestsInv
    <3> HIDE DEF s
    <3>2. ServiceOK(n, issued)
      BY <3>1, ResetOK
    <3>3. ab' = Progressed(n, req[c].test, "RUNNING", w) /\ "RUNNING" \in Progress
      BY <2>1 DEF s, Progress
    <3> HIDE DEF n
    <3> QED
      BY <1>1, <2>2, <2>3, <3>2, <3>3, ProgressedOK DEF TestsInv
  <2>8. BudgetOK'
    BY <1>1, <2>1, BudgetStep
  <2> QED
    BY <2>2, <2>6, <2>7, <2>8
<1>9. CASE SimulationLoads(c)
  <2>1. PICK a \in NextArms(c), w \in BOOLEAN :
          /\ ab' = Updated(ab, req[c].test, w) /\ Calls(0, TRUE, w)
          /\ req' = [req EXCEPT ![c].at = "loading", ![c].arm = a]
          /\ CallLoad(c, Arm(req[c].test, a))
          /\ Runs(c) /\ req[c].at = "arm" /\ UNCHANGED issued
    BY <1>9, Zenon DEF SimulationLoads
  <2>2. a \in Arms /\ req[c].left[a] > 0 /\ req[c].test \in Tests
    BY <1>1, <2>1 DEF NextArms, Arms, RequestOK
  <2> DEFINE q == [req[c] EXCEPT !.at = "loading", !.arm = a]
  <2>3. q \in Requests /\ RequestOK(q) /\ q.at = "loading"
    BY <1>1, <2>2 DEF Requests, RequestOK
  <2>4. req' = [req EXCEPT ![c] = q]
    BY <2>1
  <2> HIDE DEF q
  <2>5. Asks(c)
    BY <2>1, <2>2, <2>3, <2>4, ArmIsModel DEF Asks
  <2>6. TestsInv'
    BY <1>1, <2>1, <2>2, ProgressedOK DEF TestsInv, Progress
  <2>7. UNCHANGED settings
    BY <2>1, Zenon DEF CallLoad
  <2> QED
    BY <1>1, <2>1, <2>5, <2>6, <2>7, BudgetStep
<1>10. CASE SimulationLoaded(c)
  <2>1. /\ turn = c /\ req[c].at = "loading" /\ load[c].at = "done"
        /\ req' = [req EXCEPT ![c].at = "batch"]
        /\ UNCHANGED <<abVars, infVars, budget>>
    BY <1>10, Zenon DEF SimulationLoaded
  <2> DEFINE q == [req[c] EXCEPT !.at = "batch"]
  <2>2. q \in Requests /\ RequestOK(q) /\ q.at = "batch"
    BY <1>1, <2>1 DEF Requests, RequestOK
  <2>3. req' = [req EXCEPT ![c] = q]
    BY <2>1
  <2> HIDE DEF q
  <2>4. Proceeds(c) /\ UNCHANGED settings
    BY <2>1, <2>2, <2>3 DEF Proceeds, Runs, infVars, settings
  <2> QED
    BY <1>1, <2>1, <2>4, SameTests DEF BudgetOK, budget
<1>11. CASE SimulationPredicts(c)
  <2> DEFINE t == req[c].test
             a == req[c].arm
             q == [req[c] EXCEPT !.left[a] = @ - 1,
                                 !.at = IF req[c].left[a] = 1 THEN "arm" ELSE "batch"]
  <2>1. PICK w \in BOOLEAN : /\ ab' = Updated(Recorded(ab, t, Arm(t, a), w), t, w)
                             /\ Calls(0, TRUE, w)
    BY <1>11, Zenon DEF SimulationPredicts
  <2>2. /\ Runs(c) /\ req[c].at = "batch" /\ turn' = NoCaller
        /\ UNCHANGED <<issued, settings, svc, load, tainted>>
        /\ req' = [req EXCEPT ![c].left[a] = @ - 1,
                              ![c].at = IF req[c].left[a] = 1 THEN "arm" ELSE "batch"]
    BY <1>11, Zenon DEF SimulationPredicts
  <2>3. t \in Tests /\ a \in Arms /\ req[c].left[a] > 0 /\ req[c].left[a] \in 0..Batches
    BY <1>1, <2>2 DEF RequestOK, Requests
  <2>4. q \in Requests /\ RequestOK(q) /\ q.at \in {"arm", "batch"}
    <3> DEFINE l == [req[c].left EXCEPT ![a] = @ - 1]
    <3>1. l \in [Arms -> 0..Batches] /\ l[a] = req[c].left[a] - 1
      BY <1>1, <2>3, ServingAssumption DEF Requests
    <3>2. q = [req[c] EXCEPT !.left = l, !.at = IF req[c].left[a] = 1 THEN "arm" ELSE "batch"]
      BY <1>1 DEF Requests
    <3> HIDE DEF l, q
    <3>3. /\ q \in Requests /\ q.left = l /\ q.arm = a /\ q.test = t
          /\ q.at = IF req[c].left[a] = 1 THEN "arm" ELSE "batch"
      BY <1>1, <3>1, <3>2 DEF Requests
    <3> QED
      BY <2>3, <3>1, <3>3 DEF RequestOK
  <2>5. req' = [req EXCEPT ![c] = q]
    BY <2>2
  <2> HIDE DEF q
  <2>6. Proceeds(c)
    BY <2>2, <2>4, <2>5 DEF Proceeds
  <2>7. TestsInv'
    BY <1>1, <2>1, <2>2, <2>3, ArmIsModel, RecordedOK, ProgressedOK DEF TestsInv, Progress
  <2> QED
    BY <1>1, <2>1, <2>2, <2>6, <2>7, BudgetStep
<1>12. CASE SimulationFails(c)
  <2>1. Runs(c) /\ req[c].test \in Tests /\ SimulationEndsWith(c, ab, "FAILED")
    BY <1>1, <1>12 DEF SimulationFails, Runs, RequestOK
  <2> QED
    BY <1>1, <1>6, <2>1 DEF TestsInv
<1>13. CASE SimulationCompletes(c)
  <2>1. PICK labelled \in SUBSET req[c].rows \ {{}} :
          /\ SimulationEndsWith(c, Measured(ab, req[c].test, labelled), "COMPLETED")
          /\ Runs(c) /\ req[c].at = "arm"
    BY <1>13, Zenon DEF SimulationCompletes
  <2>2. req[c].test \in Tests
    BY <1>1, <2>1 DEF RequestOK
  <2>3. ServiceOK(Measured(ab, req[c].test, labelled), issued)
    BY <1>1, <2>2, MeasuredOK DEF TestsInv
  <2> QED
    BY <1>6, <2>1, <2>2, <2>3
<1>14. CASE SimulationTimesOut(c)
  BY <1>2, <1>14 DEF SimulationTimesOut
<1>15. CASE LoadMoves(c)
  BY <1>2, <1>15 DEF LoadMoves
<1> QED
  BY <1>3, <1>4, <1>5, <1>7, <1>8, <1>9, <1>10, <1>11, <1>12, <1>13, <1>14, <1>15 DEF Moves

LEMMA NextStep == ASSUME TypeInv, [Next]_vars PROVE StepOK
<1>1. TestsInv /\ BudgetOK
  BY DEF TypeInv
<1>2. CASE UNCHANGED vars
  BY <1>1, <1>2, SameTests DEF vars, infVars, budget, settings, BudgetOK, StepOK, Shape
<1>3. ASSUME NEW c \in Callers, Begin(c) \/ Moves(c) PROVE StepOK
  BY <1>3, BeginStep, MoveStep
<1>4. CASE Operation
  <2>1. UNCHANGED settings /\ UNCHANGED <<svc, load, turn, tainted, req, batch>>
    BY <1>4 DEF Operation, infVars, settings
  <2>2. TestsInv'
    BY <1>1, <1>4, OperationOK, Zenon DEF Operation
  <2>3. ASSUME NEW t \in Tests, CreateTest(t) \/ StartTest(t) \/ EndTest(t) \/ DeleteTest(t)
        PROVE \E r \in BOOLEAN, w \in BOOLEAN : Calls(1, r, w)
    <3>1. CASE CreateTest(t)
      BY <3>1, Zenon DEF CreateTest
    <3>2. CASE StartTest(t)
      BY <3>2, Zenon DEF StartTest
    <3>3. CASE EndTest(t)
      BY <3>3, Zenon DEF EndTest
    <3>4. CASE DeleteTest(t)
      BY <3>4, Zenon DEF DeleteTest
    <3> QED
      BY <2>3, <3>1, <3>2, <3>3, <3>4
  <2>4. ASSUME NEW t \in Tests, EvaluateTest(t)
        PROVE \E r \in BOOLEAN, w \in BOOLEAN : Calls(0, r, w)
    BY <2>4, Zenon DEF EvaluateTest
  <2>5. ASSUME ReadTests PROVE \E r \in BOOLEAN, w \in BOOLEAN : Calls(0, r, w)
    BY <2>5, Zenon DEF ReadTests
  <2>6. BudgetOK'
    BY <1>1, <1>4, <2>3, <2>4, <2>5, BudgetStep DEF Operation
  <2> QED
    BY <2>1, <2>2, <2>6 DEF StepOK, Shape
<1>5. CASE Restart
  <2>1. PICK r \in BOOLEAN :
          /\ ab' = [ab EXCEPT !.mem = IF r THEN ab.store ELSE Empty, !.updates = NoUpdates]
          /\ Calls(0, r, FALSE)
    BY <1>5, Zenon DEF Restart
  <2>2. Restarts /\ UNCHANGED <<issued, settings>>
    BY <1>5, Zenon DEF Restart, Restarts
  <2>3. TestsInv'
    <3> DEFINE m == IF r THEN ab.store ELSE Empty
    <3>1. m \in States /\ ImageOK(m, issued)
      BY <1>1, EmptyOK, ServiceParts DEF TestsInv, ServiceOK
    <3> HIDE DEF m
    <3>2. ab' = [ab EXCEPT !.mem = m, !.updates = NoUpdates]
      BY <2>1 DEF m
    <3>3. NoUpdates \in Updates
      BY ABTestingAssumption DEF NoUpdates, Updates
    <3>4. ab' \in Services /\ ab'.mem = m /\ ab'.store = ab.store
      BY <1>1, <3>1, <3>2, <3>3 DEF TestsInv, ServiceOK, Services
    <3> QED
      BY <1>1, <2>2, <3>1, <3>4 DEF TestsInv, ServiceOK
  <2> QED
    BY <1>1, <2>1, <2>2, <2>3, BudgetStep DEF StepOK, Shape
<1>6. CASE Batching
  <2>1. UNCHANGED settings /\ UNCHANGED <<svc, load, turn, tainted, req>>
    BY <1>6 DEF Batching, infVars, settings
  <2>2. TestsInv'
    BY <1>1, <1>6, SameTests DEF Batching
  <2>3. \E n \in Nat : Spend(n)
    BY <1>6, Zenon DEF Batching, BatchStep, PostBatch, BatchRaises, ReadsColumns, ChoosesPath,
                 Transforms, ScoresRows, CalibratesRows, DecidesRow, NamesModel, LogsRows,
                 Reading, Spare
  <2> QED
    BY <1>1, <1>6, <2>1, <2>2, <2>3, BudgetStep DEF Batching, StepOK, Shape
<1> QED
  BY <1>2, <1>3, <1>4, <1>5, <1>6 DEF Next

(***************************************************************************)
(* Type correctness, and with it the two properties of the tests           *)
(***************************************************************************)

LEMMA ReturnedTypes ==
  ASSUME InfOK, NEW c \in Callers
  PROVE /\ \A m \in Models : CallLoad(c, m) => InfOK'
        /\ Ends(c) /\ UNCHANGED settings => InfOK'
<1>0. /\ load \in [Callers -> Loads]
      /\ \A d \in Callers : load[d].at # "idle" => load[d].model \in Models
  BY DEF InfOK, InfTypeOK, Loads
<1>1. ASSUME NEW m \in Models, CallLoad(c, m) PROVE InfOK'
  <2> DEFINE b == ~tainted /\ Alone(c)
             new == [at |-> IF svc.loaded = m /\ Ready THEN "done" ELSE "select",
                     model |-> m, clean |-> b]
  <2>1. load' = [load EXCEPT ![c] = new]
    BY <1>1, Zenon DEF CallLoad
  <2>2. turn' \in Callers \cup {NoCaller} /\ UNCHANGED <<settings, svc, tainted>>
    BY <1>1, Zenon DEF CallLoad
  <2>3. b \in BOOLEAN
    BY DEF Alone
  <2> HIDE DEF b
  <2>4. new \in Loads /\ new.model \in Models
    BY <2>3 DEF Loads, Stages
  <2> HIDE DEF new
  <2>5. /\ load' \in [Callers -> Loads]
        /\ \A d \in Callers : load'[d].at # "idle" => load'[d].model \in Models
    BY <2>1, <2>4, LoadMoved
  <2> QED
    BY <2>2, <2>5, Zenon DEF InfOK, InfTypeOK, settings, Loads
<1>2. ASSUME Ends(c), UNCHANGED settings PROVE InfOK'
  <2>1. load' = [load EXCEPT ![c] = Resting] /\ turn' = NoCaller /\ UNCHANGED <<svc, tainted>>
    BY <1>2, Zenon DEF Ends, Finishes
  <2>2. Resting \in Loads /\ Resting.at = "idle"
    BY DEF Resting, Loads, Stages
  <2>3. /\ load' \in [Callers -> Loads]
        /\ \A d \in Callers : load'[d].at # "idle" => load'[d].model \in Models
    BY <2>1, <2>2, LoadMoved
  <2> QED
    BY <1>2, <2>1, <2>3, Zenon DEF InfOK, InfTypeOK, settings, Loads
<1> QED
  BY <1>1, <1>2, Zenon

\* The parts that a batch may read are models or missing.
LEMMA BatchTypes ==
  ASSUME BatchTypeOK, svc \in Fields, BatchStep PROVE BatchTypeOK'
<1>1. /\ batch.at \in Reads \cup {"idle", "answered", "over"} /\ batch.used \in SUBSET Models
      /\ batch.onnx \in BOOLEAN /\ batch.model \in Models \cup {NoModel} /\ batch.clean \in BOOLEAN
      /\ svc.onnx \in BOOLEAN /\ svc.loaded \in Models \cup {NoModel}
      /\ \A p \in Parts : svc.part[p] \in Models \cup {NoModel}
  BY DEF BatchTypeOK, Fields
<1>2. ASSUME NEW at \in Reads, NEW used \in SUBSET (Models \cup {NoModel}), Goes(at, used)
      PROVE BatchTypeOK'
  <2>1. batch' = [batch EXCEPT !.at = at,
                               !.used = IF batch.clean THEN batch.used \cup (used \ {NoModel}) ELSE {}]
    BY <1>2 DEF Goes
  <2>2. (IF batch.clean THEN batch.used \cup (used \ {NoModel}) ELSE {}) \in SUBSET Models
    BY <1>1
  <2> QED
    BY <2>1, <2>2 DEF BatchTypeOK
<1>3. {"ready", "path", "transform", "score", "calibrate", "decide", "name"} \subseteq Reads
  BY DEF Reads
<1>4. CASE PostBatch
  <2> DEFINE b == ~tainted /\ \A c \in Callers : ~Resetting(c)
  <2>1. b \in BOOLEAN /\ batch' = [batch EXCEPT !.at = "ready", !.clean = b]
    BY <1>4 DEF PostBatch
  <2> HIDE DEF b
  <2> QED
    BY <1>3, <2>1 DEF BatchTypeOK
<1>5. CASE BatchRaises \/ LogsRows
  BY <1>5 DEF BatchRaises, LogsRows, Over, NoBatch, BatchTypeOK
<1>6. CASE ReadsColumns
  BY <1>1, <1>2, <1>3, <1>6 DEF ReadsColumns, Reading
<1>7. CASE ChoosesPath
  BY <1>1, <1>3, <1>7 DEF ChoosesPath, BatchTypeOK
<1>8. CASE Transforms \/ ScoresRows \/ CalibratesRows \/ DecidesRow
  <2>1. /\ "preprocessor" \in Parts /\ "engine" \in Parts /\ "pipeline" \in Parts
        /\ "calibrator" \in Parts /\ "threshold" \in Parts
    BY DEF Parts
  <2> QED
    BY <1>1, <1>2, <1>3, <1>8, <2>1 DEF Transforms, ScoresRows, CalibratesRows, DecidesRow, Reading
<1>9. CASE NamesModel
  BY <1>1, <1>9 DEF NamesModel, BatchTypeOK
<1> QED
  BY <1>4, <1>5, <1>6, <1>7, <1>8, <1>9 DEF BatchStep

\* A call that moves leaves the others.
LEMMA MovedTo ==
  ASSUME InfOK, NEW c \in Callers, NEW at \in Stages, load[c].at # "idle", MovesTo(c, at)
  PROVE /\ load' \in [Callers -> Loads]
        /\ \A d \in Callers : load'[d].at # "idle" => load'[d].model \in Models
        /\ load'[c].at = at /\ load'[c].model = load[c].model /\ load'[c].clean = load[c].clean
        /\ \A d \in Callers \ {c} : load'[d] = load[d]
<1> DEFINE new == [load[c] EXCEPT !.at = at]
<1>1. load \in [Callers -> Loads] /\ load[c].model \in Models
  BY DEF InfOK, InfTypeOK, Loads
<1>2. new \in Loads /\ new.at = at /\ new.model = load[c].model /\ new.clean = load[c].clean
  BY <1>1 DEF Loads
<1>3. load' = [load EXCEPT ![c] = new]
  BY DEF MovesTo
<1> HIDE DEF new
<1>4. /\ load' \in [Callers -> Loads]
      /\ \A d \in Callers : load'[d].at # "idle" => load'[d].model \in Models
  BY <1>1, <1>2, <1>3, LoadMoved
<1>5. load'[c] = new /\ \A d \in Callers \ {c} : load'[d] = load[d]
  BY <1>1, <1>3
<1> QED
  BY <1>2, <1>4, <1>5

LEMMA KindTypes ==
  ASSUME InfOK, NEW c \in Callers, Kind(c), UNCHANGED settings
  PROVE InfOK'
<1>1. /\ svc \in Fields /\ turn \in Callers \cup {NoCaller} /\ tainted \in BOOLEAN
      /\ azure \in BOOLEAN /\ stage2 \in BOOLEAN
  BY Zenon DEF InfOK, InfTypeOK
<1>2. UNCHANGED <<azure, stage2>>
  BY DEF settings
<1>3. \/ \E at \in Stages : MovesTo(c, at)
      \/ \E at \in Stages : load' = [Disturbed(c) EXCEPT ![c].at = at]
  <2>1. /\ {"onnx", "pickle", "done", "half done", "failed", "find stage2", "load stage2"} \subseteq Stages
        /\ Downloads \subseteq Stages
    BY DEF Stages, Downloads
  <2> QED
    BY <2>1 DEF Kind, GivesUp, Resets, GoesOn, Completes, LoadsHere, SecondStage
<1>4. load[c].at # "idle"
  BY DEF Kind, GivesUp, Resets, GoesOn, Completes, LoadsHere, SecondStage, Loading, Resetting,
         Downloads
<1>5. /\ load' \in [Callers -> Loads]
      /\ \A d \in Callers : load'[d].at # "idle" => load'[d].model \in Models
  BY <1>3, <1>4, MovedTo, LoadDisturbed
<1>6. turn' \in Callers \cup {NoCaller}
  BY DEF Kind, GivesUp, Resets, GoesOn, Completes, LoadsHere, SecondStage, MovesTo
<1>7. svc' \in Fields
  <2>1. CASE Resets(c)
    BY <1>1, <2>1, ClearedFields DEF Resets
  <2> QED
    BY <1>1, <2>1 DEF Kind, GivesUp, GoesOn, Grows, Completes, LoadsHere, SecondStage, Adds
<1>8. tainted' \in BOOLEAN
  BY <1>1, Zenon DEF Kind, GivesUp, Resets, GoesOn, Completes, LoadsHere, SecondStage
<1> QED
  BY <1>1, <1>2, <1>5, <1>6, <1>7, <1>8, Zenon DEF InfOK, InfTypeOK, Loads

LEMMA TypesKept == ASSUME TypeInv, [Next]_vars PROVE TypeInv'
<1>1. StepOK
  BY NextStep
<1>2. TestsInv' /\ BudgetOK' /\ UNCHANGED settings
  BY <1>1 DEF StepOK
<1>3. InfOK /\ BatchTypeOK /\ CallsOK
  BY DEF TypeInv
<1>4. NoRequest \in Requests /\ RequestOK(NoRequest)
  BY ServingAssumption DEF NoRequest, Requests, RequestOK, Arms
<1>5. InfOK'
  <2>1. ASSUME NEW c \in Callers, Asks(c) PROVE InfOK'
    BY <1>3, <2>1, ReturnedTypes DEF Asks
  <2>2. ASSUME NEW c \in Callers, Ends(c) PROVE InfOK'
    BY <1>2, <1>3, <2>2, ReturnedTypes
  <2>3. ASSUME NEW c \in Callers, InLoad(c) PROVE InfOK'
    BY <1>2, <1>3, <2>3, KindTypes DEF InLoad
  <2>4. ASSUME UNCHANGED <<svc, load, tainted>>, turn' \in Callers \cup {NoCaller} PROVE InfOK'
    BY <1>2, <1>3, <2>4, Zenon DEF InfOK, InfTypeOK, settings
  <2>5. ASSUME NEW c \in Callers, Proceeds(c) PROVE InfOK'
    BY <2>4, <2>5 DEF Proceeds
  <2>6. CASE UNCHANGED <<svc, load, turn, tainted>>
    BY <1>3, <2>4, <2>6 DEF InfOK, InfTypeOK
  <2>7. CASE Restarts
    <3>1. Fresh \in Fields
      BY DEF Fresh, Fields, Blank
    <3>2. [c \in Callers |-> Resting] \in [Callers -> Loads] /\ Resting.at = "idle"
      BY DEF Resting, Loads, Stages
    <3>3. svc' \in Fields /\ load' \in [Callers -> Loads] /\ turn' = NoCaller /\ tainted' = FALSE
      BY <2>7, <3>1, <3>2 DEF Restarts
    <3>4. \A c \in Callers : load'[c].at = "idle"
      BY <2>7, <3>2 DEF Restarts
    <3> QED
      BY <1>2, <1>3, <3>3, <3>4, Zenon DEF InfOK, InfTypeOK, settings, Loads
  <2> QED
    BY <1>1, <2>1, <2>2, <2>3, <2>5, <2>6, <2>7 DEF StepOK, Shape
<1>6. CallsOK'
  <2>1. \/ UNCHANGED req
        \/ \E c \in Callers, r \in Requests : RequestOK(r) /\ req' = [req EXCEPT ![c] = r]
        \/ req' = [c \in Callers |-> NoRequest]
    BY <1>1, <1>4 DEF StepOK, Shape, Asks, Ends, Finishes, Proceeds, InLoad, Restarts
  <2>2. CASE UNCHANGED req
    BY <1>3, <2>2 DEF CallsOK, RequestOK
  <2>3. ASSUME NEW c \in Callers, NEW r \in Requests, RequestOK(r), req' = [req EXCEPT ![c] = r]
        PROVE CallsOK'
    BY <1>3, <2>3 DEF CallsOK, RequestOK
  <2>4. CASE req' = [c \in Callers |-> NoRequest]
    BY <1>4, <2>4 DEF CallsOK, RequestOK
  <2> QED
    BY <2>1, <2>2, <2>3, <2>4
<1>7. BatchTypeOK'
  <2> DEFINE Seen == svc' = svc \/ batch.at \notin Reads
  <2>1. CASE BatchSees
    <3>1. Seen \in BOOLEAN /\ batch' = [batch EXCEPT !.clean = @ /\ Seen]
      BY <2>1 DEF BatchSees
    <3> HIDE DEF Seen
    <3> QED
      BY <1>3, <3>1 DEF BatchTypeOK
  <2>2. CASE UNCHANGED batch
    BY <1>3, <2>2 DEF BatchTypeOK
  <2>3. CASE Restarts
    BY <2>3 DEF Restarts, NoBatch, BatchTypeOK
  <2>4. CASE BatchStep
    BY <1>3, <2>4, BatchTypes DEF InfOK, InfTypeOK
  <2> QED
    BY <1>1, <2>1, <2>2, <2>3, <2>4 DEF StepOK, Shape
<1> QED
  BY <1>2, <1>5, <1>6, <1>7 DEF TypeInv

LEMMA TypesInitially == Init => TypeInv
<1> SUFFICES ASSUME Init PROVE TypeInv
  OBVIOUS
<1>1. BudgetOK
  <2>1. spent = 0 /\ faulty = FALSE
    BY DEF Init, ABInit
  <2>2. spent \in 0..MaxEvents
    BY <2>1, ApiProcessAssumption
  <2> QED
    BY <2>1, <2>2 DEF BudgetOK
<1>2. TestsInv
  <2>1. NoUpdates \in Updates
    BY ABTestingAssumption DEF NoUpdates, Updates
  <2>2. issued = {} /\ ab = [mem |-> Empty, store |-> Empty, stored |-> FALSE, updates |-> NoUpdates]
    BY DEF Init, ABInit
  <2>3. ab \in Services /\ ab.mem = Empty /\ ab.store = Empty
    BY <2>1, <2>2, EmptyOK DEF Services
  <2> QED
    BY <2>2, <2>3, EmptyOK DEF TestsInv, ServiceOK
<1>3. InfOK
  <2>1. Fresh \in Fields
    BY DEF Fresh, Fields, Blank
  <2>2. Resting \in Loads /\ Resting.at = "idle"
    BY DEF Resting, Loads, Stages
  <2>3. load \in [Callers -> Loads] /\ \A c \in Callers : load[c].at = "idle"
    BY <2>2 DEF Init, InfInit
  <2> QED
    BY <2>1, <2>3, Zenon DEF Init, InfInit, InfOK, InfTypeOK, Loads
<1>4. BatchTypeOK
  BY DEF Init, BatchInit, NoBatch, BatchTypeOK
<1>5. CallsOK
  <2>1. NoRequest \in Requests /\ RequestOK(NoRequest)
    BY ServingAssumption DEF NoRequest, Requests, RequestOK, Arms
  <2> QED
    BY <2>1 DEF Init, CallsOK
<1> QED
  BY <1>1, <1>2, <1>3, <1>4, <1>5 DEF TypeInv

LEMMA TypesTell == TypeInv => TypeOK /\ OneRunning /\ AnalysisEarned
<1> SUFFICES ASSUME TypeInv PROVE TypeOK /\ OneRunning /\ AnalysisEarned
  OBVIOUS
<1>1. /\ ab \in Services /\ ab.mem \in States /\ ab.store \in States
      /\ ImageOK(ab.mem, issued) /\ ImageOK(ab.store, issued) /\ issued \subseteq Tests
  BY ServiceParts DEF TypeInv, TestsInv, ServiceOK
<1>2. ABTypeOK
  <2>1. \A m \in States : IsState(m)
    BY StateParts DEF IsState, Counts
  <2>2. ab.stored \in BOOLEAN /\ ab.updates \in Updates
    BY <1>1, ServiceParts
  <2> QED
    BY <1>1, <2>1, <2>2 DEF ABTypeOK, Updates, TypeInv, BudgetOK
<1>3. TypeOK
  BY <1>2 DEF TypeInv, TypeOK, InfOK, CallsOK, Requests
<1>4. OneRunning
  BY <1>1 DEF OneRunning, Images, ImageOK, RunningOf
<1>5. AnalysisEarned
  BY <1>1 DEF AnalysisEarned, Images, ImageOK
<1> QED
  BY <1>3, <1>4, <1>5

LEMMA TypesAlways == Spec => []TypeInv
<1>1. TypeInv /\ [Next]_vars => TypeInv'
  BY TypesKept
<1> QED
  BY <1>1, TypesInitially, PTL DEF Spec

\* Type correctness.
THEOREM TypeCorrect == FairSpec => []TypeOK
<1>1. TypeInv => TypeOK
  BY TypesTell
<1> QED
  BY <1>1, TypesAlways, PTL DEF FairSpec

\* start_test, end_test, delete_test and the persists and loads between them:
\* at most one test runs, and the active pointer names exactly that one, in
\* memory and in the snapshot, whatever Redis calls fail.
THEOREM OneTestRuns == FairSpec => []OneRunning
<1>1. TypeInv => OneRunning
  BY TypesTell
<1> QED
  BY <1>1, TypesAlways, PTL DEF FairSpec

\* evaluate_test and what may follow it: a test that carries an analysis has
\* the predictions its configuration asks for.
THEOREM AnalysesAreEarned == FairSpec => []AnalysisEarned
<1>1. TypeInv => AnalysisEarned
  BY TypesTell
<1> QED
  BY <1>1, TypesAlways, PTL DEF FairSpec

(***************************************************************************)
(* Which model answers: what the fields, the calls and the batch say of    *)
(* each other.  The fields are undisturbed when a model is ready and no    *)
(* two loads overlapped on the way to it.                                  *)
(***************************************************************************)
Undisturbed == ~tainted /\ Ready

Returned == {"done", "half done", "failed"}

\* Undisturbed fields are of one model, and nobody is setting them.
FieldsInv ==
  /\ svc.onnx <=> svc.part["engine"] # NoModel
  /\ Undisturbed => /\ \A c \in Callers : ~Resetting(c)
                    /\ svc.loaded \in Models /\ Used \subseteq {svc.loaded}

\* A call that has reset the fields alone has put only its own parts there.
ResetInv ==
  \A c \in Callers : Resetting(c) =>
    /\ azure
    /\ load[c].clean => /\ Alone(c) /\ ~Ready
                        /\ \A p \in Parts : svc.part[p] \in {NoModel, load[c].model}

LoadedInv ==
  \A c \in Callers :
    load[c].at \in {"find stage2", "load stage2", "done", "half done"} /\ load[c].clean
    => Undisturbed /\ svc.loaded = load[c].model

\* Until a call resets the fields they are as they were when it was made.
SelectInv ==
  \A c \in Callers :
    load[c].at = "select" /\ load[c].clean =>
      /\ ~tainted /\ Alone(c)
      /\ req[c].at = "predict" => svc.loaded = req[c].prior

FailInv ==
  \A c \in Callers :
    load[c].at = "failed" /\ load[c].clean /\ req[c].at = "predict" =>
      /\ turn = c
      /\ Ready => ~tainted /\ svc.loaded = req[c].prior

\* Only a request that asked for a model has a call, which has returned when
\* the request runs.
TurnInv ==
  \A c \in Callers :
    /\ turn = c => req[c].at # "idle"
    /\ turn = c /\ req[c].at \in {"load", "predict", "loading"} => load[c].at \in Returned
    /\ req[c].at \in {"idle", "preview"} => load[c].at = "idle"
    /\ req[c].at \in {"arm", "batch"} => load[c].at \in {"idle", "done"}

ServedInv == FieldsInv /\ ResetInv /\ LoadedInv /\ SelectInv /\ FailInv /\ TurnInv

\* What a batch that saw no change has read is of the model loaded now.
BatchInv ==
  /\ batch.at \in {"idle", "ready"} => batch.used = {}
  /\ batch.at = "transform" => batch.onnx
  /\ batch.clean /\ batch.at \in Reads =>
       /\ Ready => ~tainted
       /\ batch.at # "ready" => Ready /\ batch.used = {svc.loaded}
       /\ batch.at \in {"transform", "score"} => (batch.onnx <=> svc.onnx)
  /\ BatchIsOfOneModel

LEMMA SameFields ==
  ASSUME svc'.part = svc.part, svc'.onnx <=> svc.onnx
  PROVE (Ready' <=> Ready) /\ Used' = Used
BY DEF Ready, Used

\* The request asks for a model: nothing to do for the one that is loaded.
LEMMA AsksServed ==
  ASSUME TypeInv, ServedInv, NEW c \in Callers, Asks(c)
  PROVE ServedInv' /\ UNCHANGED <<svc, tainted>>
<1>1. PICK m \in Models : CallLoad(c, m)
  BY DEF Asks
<1>2. PICK r \in Requests :
        /\ r.at \in {"load", "predict", "loading"}
        /\ r.at = "predict" => r.prior = svc.loaded
        /\ req' = [req EXCEPT ![c] = r]
  BY DEF Asks
<1>3. Runs(c) /\ NoCaller \notin Callers
  BY InferenceAssumption DEF Asks
<1> DEFINE skips == svc.loaded = m /\ Ready
           b == ~tainted /\ Alone(c)
           new == [at |-> IF skips THEN "done" ELSE "select", model |-> m, clean |-> b]
<1>4. UNCHANGED <<settings, svc, tainted>>
  BY <1>1, Zenon DEF CallLoad
<1>5. load' = [load EXCEPT ![c] = new] /\ turn' = IF skips THEN c ELSE NoCaller
  BY <1>1, Zenon DEF CallLoad
<1> HIDE DEF b
<1>6. /\ load'[c].at = (IF skips THEN "done" ELSE "select") /\ load'[c].model = m
      /\ load'[c].clean = b
      /\ \A d \in Callers \ {c} : load'[d] = load[d]
  BY <1>5 DEF TypeInv, InfOK, InfTypeOK
<1>7. req'[c] = r /\ \A d \in Callers \ {c} : req'[d] = req[d]
  BY <1>2 DEF TypeInv, CallsOK
<1>8. (Ready' <=> Ready) /\ Used' = Used /\ svc' = svc /\ (Undisturbed' <=> Undisturbed)
  BY <1>4, SameFields DEF Undisturbed
<1>9. \A d \in Callers : Resetting(d)' => d # c /\ Resetting(d)
  BY <1>6 DEF Resetting, Downloads
<1>10. /\ \A d \in Callers : Alone(d) => Alone(d)'
       /\ load'[c].clean => ~tainted /\ Alone(c)
  BY <1>6, <1>9 DEF Alone, b
<1> HIDE DEF new, skips
<1>11. FieldsInv'
  BY <1>8, <1>9 DEF ServedInv, FieldsInv
<1>12. ResetInv'
  <2>1. UNCHANGED azure
    BY <1>4 DEF settings
  <2> QED
    BY <2>1, <1>6, <1>8, <1>9, <1>10 DEF ServedInv, ResetInv
<1>13. LoadedInv'
  BY <1>4, <1>6, <1>8, <1>10 DEF ServedInv, LoadedInv, Undisturbed, skips
<1>14. SelectInv'
  BY <1>2, <1>4, <1>6, <1>7, <1>8, <1>10 DEF ServedInv, SelectInv
<1>15. FailInv'
  <2>1. \A d \in Callers \ {c} : turn # d
    BY <1>3 DEF Runs
  <2> QED
    BY <1>6, <1>7, <2>1 DEF ServedInv, FailInv
<1>16. TurnInv'
  BY <1>2, <1>3, <1>5, <1>6, <1>7 DEF ServedInv, TurnInv, Returned
<1> QED
  BY <1>4, <1>11, <1>12, <1>13, <1>14, <1>15, <1>16 DEF ServedInv

\* A request that ends forgets its call; one that goes on has none, or one that
\* returned.
LEMMA EndsServed ==
  ASSUME TypeInv, ServedInv, NEW c \in Callers, Ends(c), UNCHANGED settings
  PROVE ServedInv' /\ UNCHANGED <<svc, tainted>>
<1>1. /\ req' = [req EXCEPT ![c] = NoRequest] /\ load' = [load EXCEPT ![c] = Resting]
      /\ turn' = NoCaller /\ UNCHANGED <<svc, tainted>> /\ Runs(c)
  BY Zenon DEF Ends, Finishes
<1>2. load'[c] = Resting /\ \A d \in Callers \ {c} : load'[d] = load[d]
  BY <1>1 DEF TypeInv, InfOK, InfTypeOK
<1>3. req'[c] = NoRequest /\ \A d \in Callers \ {c} : req'[d] = req[d]
  BY <1>1 DEF TypeInv, CallsOK
<1>4. Resting.at = "idle" /\ NoRequest.at = "idle"
  BY DEF Resting, NoRequest
<1>5. (Ready' <=> Ready) /\ Used' = Used /\ svc' = svc /\ (Undisturbed' <=> Undisturbed)
  BY <1>1, SameFields DEF Undisturbed
<1>6. \A d \in Callers : Resetting(d)' => d # c /\ Resetting(d)
  BY <1>2, <1>4 DEF Resetting, Downloads
<1>7. \A d \in Callers : Alone(d) => Alone(d)'
  BY <1>6 DEF Alone
<1>8. \A d \in Callers \ {c} : turn # d
  BY <1>1, InferenceAssumption DEF Runs
<1>9. FieldsInv'
  BY <1>5, <1>6 DEF ServedInv, FieldsInv
<1>10. ResetInv'
  <2>1. UNCHANGED azure
    BY DEF settings
  <2> QED
    BY <1>2, <1>5, <1>6, <1>7, <2>1 DEF ServedInv, ResetInv
<1>11. LoadedInv'
  BY <1>2, <1>4, <1>5 DEF ServedInv, LoadedInv
<1>12. SelectInv'
  BY <1>1, <1>2, <1>3, <1>4, <1>7 DEF ServedInv, SelectInv
<1>13. FailInv'
  BY <1>2, <1>3, <1>4, <1>8 DEF ServedInv, FailInv
<1>14. TurnInv'
  BY <1>1, <1>2, <1>3, <1>4, InferenceAssumption DEF ServedInv, TurnInv
<1> QED
  BY <1>1, <1>9, <1>10, <1>11, <1>12, <1>13, <1>14 DEF ServedInv

LEMMA ProceedsServed ==
  ASSUME TypeInv, ServedInv, NEW c \in Callers, Proceeds(c), UNCHANGED settings
  PROVE ServedInv' /\ UNCHANGED <<svc, tainted>>
<1>1. PICK r \in Requests :
        /\ req' = [req EXCEPT ![c] = r]
        /\ \/ req[c].at = "idle" /\ r.at = "preview" /\ turn' = NoCaller
           \/ /\ r.at \in {"arm", "batch"} /\ turn' \in {c, NoCaller}
              /\ req[c].at \in {"preview", "batch"} \/ load[c].at = "done"
  BY DEF Proceeds
<1>2. UNCHANGED <<svc, load, tainted>> /\ Runs(c)
  BY DEF Proceeds
<1>3. req'[c] = r /\ \A d \in Callers \ {c} : req'[d] = req[d]
  BY <1>1 DEF TypeInv, CallsOK
<1>4. (Ready' <=> Ready) /\ Used' = Used /\ svc' = svc /\ (Undisturbed' <=> Undisturbed)
  BY <1>2, SameFields DEF Undisturbed
<1>5. \A d \in Callers : (Resetting(d)' <=> Resetting(d)) /\ (Alone(d)' <=> Alone(d))
  BY <1>2 DEF Resetting, Alone
<1>6. \A d \in Callers \ {c} : turn # d
  BY <1>2, InferenceAssumption DEF Runs
<1>7. FieldsInv' /\ LoadedInv'
  BY <1>2, <1>4, <1>5 DEF ServedInv, FieldsInv, LoadedInv
<1>8. ResetInv'
  <2>1. UNCHANGED azure
    BY DEF settings
  <2> QED
    BY <1>2, <1>4, <1>5, <2>1 DEF ServedInv, ResetInv
<1>9. SelectInv'
  BY <1>1, <1>2, <1>3, <1>5 DEF ServedInv, SelectInv
<1>10. FailInv'
  BY <1>1, <1>2, <1>3, <1>6 DEF ServedInv, FailInv
<1>11. TurnInv'
  BY <1>1, <1>2, <1>3, InferenceAssumption DEF ServedInv, TurnInv
<1> QED
  BY <1>2, <1>7, <1>8, <1>9, <1>10, <1>11 DEF ServedInv

(***************************************************************************)
(* The steps of load_model                                                 *)
(***************************************************************************)

\* A call that moves is that of a request that waits for it, and no request
\* whose load failed is about to answer.
LEMMA CallAwaited ==
  ASSUME TypeInv, ServedInv, NEW c \in Callers, InLoad(c)
  PROVE /\ load[c].at \in {"select", "find stage2", "load stage2"} \cup Downloads
        /\ req[c].at \in {"load", "predict", "loading"}
        /\ \A d \in Callers : ~(load[d].at = "failed" /\ load[d].clean /\ req[d].at = "predict")
<1>1. load[c].at \in {"select", "find stage2", "load stage2"} \cup Downloads
  <2>1. load[c].at \in Stages
    BY DEF TypeInv, InfOK, InfTypeOK
  <2> QED
    BY <2>1 DEF InLoad, Kind, GivesUp, Resets, GoesOn, Completes, LoadsHere, SecondStage, Loading,
                Resetting, Stages, Downloads
<1>2. req[c].at \in {"load", "predict", "loading"}
  <2>1. req[c].at \in {"idle", "load", "predict", "preview", "arm", "loading", "batch"}
    BY DEF TypeInv, CallsOK, Requests
  <2> QED
    BY <1>1, <2>1 DEF ServedInv, TurnInv, Downloads
<1>3. \A d \in Callers : turn # d
  BY InferenceAssumption DEF InLoad
<1> QED
  BY <1>1, <1>2, <1>3 DEF ServedInv, FailInv

\* Who holds the loop after a step of a call.
LEMMA TurnKept ==
  ASSUME TypeInv, ServedInv, NEW c \in Callers, InLoad(c),
         \A d \in Callers \ {c} : load'[d].at = load[d].at,
         turn' = NoCaller \/ (turn' = c /\ load'[c].at \in Returned)
  PROVE TurnInv'
<1>1. req[c].at \in {"load", "predict", "loading"} /\ UNCHANGED req
  BY CallAwaited DEF InLoad
<1> QED
  BY <1>1, InferenceAssumption DEF ServedInv, TurnInv

LEMMA GivesUpServed ==
  ASSUME TypeInv, ServedInv, NEW c \in Callers, InLoad(c), GivesUp(c), UNCHANGED settings
  PROVE ServedInv'
<1>1. /\ MovesTo(c, "failed") /\ UNCHANGED <<svc, tainted, req>>
      /\ load[c].at = "select" \/ Resetting(c) \/ (Loading(c) /\ req[c].at = "loading")
  BY DEF GivesUp, InLoad
<1>2. load[c].at # "idle" /\ "failed" \in Stages /\ InfOK
  BY <1>1 DEF Resetting, Loading, Downloads, Stages, TypeInv
<1>3. /\ load'[c].at = "failed" /\ load'[c].model = load[c].model
      /\ load'[c].clean = load[c].clean
      /\ \A d \in Callers \ {c} : load'[d] = load[d]
  BY <1>1, <1>2, MovedTo
<1>4. turn' = c
  BY <1>1 DEF MovesTo
<1>5. (Ready' <=> Ready) /\ Used' = Used /\ svc' = svc /\ (Undisturbed' <=> Undisturbed)
  BY <1>1, SameFields DEF Undisturbed
<1>6. \A d \in Callers : Resetting(d)' => d # c /\ Resetting(d)
  BY <1>3 DEF Resetting, Downloads
<1>7. \A d \in Callers : Alone(d) => Alone(d)'
  BY <1>6 DEF Alone
<1>8. FieldsInv' /\ LoadedInv'
  BY <1>3, <1>5, <1>6 DEF ServedInv, FieldsInv, LoadedInv
<1>9. ResetInv'
  <2>1. UNCHANGED azure
    BY DEF settings
  <2> QED
    BY <1>3, <1>5, <1>6, <1>7, <2>1 DEF ServedInv, ResetInv
<1>10. SelectInv'
  BY <1>1, <1>3, <1>7 DEF ServedInv, SelectInv
<1>11. FailInv'
  <2>1. ASSUME load[c].clean, req[c].at = "predict", Ready
        PROVE ~tainted /\ svc.loaded = req[c].prior
    BY <1>1, <2>1 DEF ServedInv, SelectInv, ResetInv
  <2> QED
    BY <1>1, <1>3, <1>4, <1>5, <2>1, CallAwaited DEF ServedInv, FailInv
<1>12. TurnInv'
  BY <1>3, <1>4, TurnKept DEF Returned
<1> QED
  BY <1>8, <1>9, <1>10, <1>11, <1>12 DEF ServedInv

\* The reset: nobody else's call is clean any more.
LEMMA ResetsServed ==
  ASSUME TypeInv, ServedInv, NEW c \in Callers, InLoad(c), Resets(c), UNCHANGED settings
  PROVE ServedInv'
<1>1. /\ azure /\ load[c].at = "select" /\ svc' = Cleared(svc) /\ turn' = NoCaller
      /\ UNCHANGED <<tainted, req>>
  BY DEF Resets, InLoad
<1>2. PICK at \in {"onnx", "pickle"} : load' = [Disturbed(c) EXCEPT ![c].at = at]
  BY DEF Resets
<1>3. at \in Stages /\ at \in Downloads /\ InfOK /\ svc \in Fields
  BY DEF Stages, Downloads, TypeInv, InfOK, InfTypeOK
<1>4. /\ load'[c].at = at /\ load'[c].model = load[c].model /\ load'[c].clean = Alone(c)
      /\ \A d \in Callers \ {c} :
            /\ load'[d].at = load[d].at /\ load'[d].model = load[d].model
            /\ load'[d].clean <=> load[d].clean /\ load[d].at = "idle"
  BY <1>1, <1>2, <1>3, LoadDisturbed
<1>5. svc'.part = Blank /\ ~svc'.onnx
  BY <1>1, <1>3, ClearedFields
<1>6. ~Ready' /\ ~Undisturbed' /\ \A p \in Parts : svc'.part[p] = NoModel
  BY <1>5 DEF Ready, Undisturbed, Blank, Parts
<1>7. \A d \in Callers \ {c} : load'[d].at # "idle" => ~load'[d].clean
  BY <1>4
<1>8. load'[c].clean => Alone(c)'
  BY <1>4 DEF Alone, Resetting
<1>9. FieldsInv'
  BY <1>5, <1>6 DEF FieldsInv, Parts
<1>10. ResetInv'
  <2>1. azure'
    BY <1>1 DEF settings
  <2> QED
    BY <1>6, <1>7, <1>8, <2>1 DEF ResetInv, Resetting, Downloads
<1>11. LoadedInv' /\ SelectInv' /\ FailInv'
  BY <1>3, <1>4, <1>7 DEF LoadedInv, SelectInv, FailInv, Downloads
<1>12. TurnInv'
  BY <1>1, <1>4, TurnKept
<1> QED
  BY <1>9, <1>10, <1>11, <1>12 DEF ServedInv

\* Between the reset and the end, nobody's call but this one's is clean once it
\* is under way.
LEMMA OthersUnclean ==
  ASSUME TypeInv, ServedInv, NEW c \in Callers, Resetting(c)
  PROVE /\ ~Undisturbed
        /\ \A d \in Callers \ {c} :
             load[d].clean => load[d].at \notin {"select", "find stage2", "load stage2", "done", "half done"}
                              /\ ~Resetting(d)
        /\ azure
BY DEF ServedInv, FieldsInv, ResetInv, LoadedInv, SelectInv, Alone

LEMMA GoesOnServed ==
  ASSUME TypeInv, ServedInv, NEW c \in Callers, InLoad(c), GoesOn(c), UNCHANGED settings
  PROVE ServedInv'
<1>1. Resetting(c) /\ Grows(c, svc') /\ UNCHANGED <<tainted, req>>
  BY DEF GoesOn, InLoad
<1>2. PICK at \in Downloads : MovesTo(c, at)
  BY DEF GoesOn
<1>3. load[c].at # "idle" /\ at \in Stages /\ InfOK
  BY <1>1 DEF Resetting, Downloads, Stages, TypeInv
<1>4. /\ load'[c].at = at /\ load'[c].model = load[c].model /\ load'[c].clean = load[c].clean
      /\ \A d \in Callers \ {c} : load'[d] = load[d]
  BY <1>2, <1>3, MovedTo
<1>5. turn' = NoCaller
  BY <1>2 DEF MovesTo, Downloads
<1>6. (Ready' <=> Ready) /\ (Undisturbed' <=> Undisturbed)
  BY <1>1 DEF Grows, Ready, Undisturbed
<1>7. \A d \in Callers : (Resetting(d)' <=> Resetting(d)) /\ (Alone(d)' <=> Alone(d))
  BY <1>1, <1>4 DEF Resetting, Alone
<1>8. FieldsInv'
  BY <1>1, <1>6, OthersUnclean DEF ServedInv, FieldsInv, Grows
<1>9. ResetInv'
  <2>1. UNCHANGED azure
    BY DEF settings
  <2>2. ASSUME load'[c].clean
        PROVE /\ Alone(c)' /\ ~Ready'
              /\ \A p \in Parts : svc'.part[p] \in {NoModel, load'[c].model}
    <3>1. Alone(c) /\ ~Ready /\ \A p \in Parts : svc.part[p] \in {NoModel, load[c].model}
      BY <1>1, <1>4, <2>2 DEF ServedInv, ResetInv
    <3> QED
      BY <1>1, <1>4, <1>6, <1>7, <3>1 DEF Grows, Adds
  <2> QED
    BY <1>1, <1>4, <1>7, <2>1, <2>2, OthersUnclean DEF ResetInv
<1>10. LoadedInv' /\ SelectInv'
  BY <1>1, <1>4, OthersUnclean DEF LoadedInv, SelectInv, Downloads
<1>11. FailInv'
  BY <1>1, <1>4, CallAwaited DEF FailInv, Downloads
<1>12. TurnInv'
  BY <1>4, <1>5, TurnKept
<1> QED
  BY <1>8, <1>9, <1>10, <1>11, <1>12 DEF ServedInv

\* The last artifact: the fields are whole, and known to be of this model if
\* the call was alone since its reset.
LEMMA CompletesServed ==
  ASSUME TypeInv, ServedInv, NEW c \in Callers, InLoad(c), Completes(c), UNCHANGED settings
  PROVE ServedInv' /\ ~Undisturbed /\ svc'.loaded = load[c].model /\ Ready'
<1>1. /\ Resetting(c) /\ Adds(c, svc') /\ svc'.loaded = load[c].model
      /\ svc'.onnx \/ svc'.part["pipeline"] = load[c].model
      /\ UNCHANGED req
  BY DEF Completes, InLoad
<1>2. PICK at \in {"done", "find stage2"} : MovesTo(c, at)
  BY DEF Completes
<1>3. load[c].at # "idle" /\ at \in Stages /\ InfOK /\ svc \in Fields
  BY <1>1 DEF Resetting, Downloads, Stages, TypeInv, InfOK, InfTypeOK
<1>4. /\ load'[c].at = at /\ load'[c].model = load[c].model /\ load'[c].clean = load[c].clean
      /\ \A d \in Callers \ {c} : load'[d] = load[d]
  BY <1>2, <1>3, MovedTo
<1>5. turn' = NoCaller \/ (turn' = c /\ load'[c].at \in Returned)
  BY <1>2, <1>4 DEF MovesTo, Returned
<1>6. load[c].model \in Models /\ load[c].model # NoModel
  BY <1>3, ApiProcessAssumption DEF InfOK
<1>7. svc'.onnx <=> svc'.part["engine"] # NoModel
  BY <1>1, <1>6 DEF ServedInv, FieldsInv, Adds
<1>8. Ready'
  BY <1>1, <1>6, <1>7 DEF Ready
<1>9. tainted' <=> ~load[c].clean
  BY <1>4, Zenon DEF Completes
<1>10. \A d \in Callers : Resetting(d)' => d # c /\ Resetting(d)
  BY <1>4 DEF Resetting, Downloads
<1>11. ASSUME ~tainted'
       PROVE /\ \A d \in Callers : ~Resetting(d)'
             /\ Used' \subseteq {svc'.loaded}
  <2>1. Alone(c) /\ \A p \in Parts : svc.part[p] \in {NoModel, load[c].model}
    BY <1>1, <1>9, <1>11 DEF ServedInv, ResetInv
  <2>2. \A p \in Parts : svc'.part[p] \in {NoModel, load[c].model}
    BY <1>1, <2>1 DEF Adds
  <2>3. Used' \subseteq {svc'.loaded}
    BY <1>1, <2>2 DEF Used, Parts
  <2> QED
    BY <1>10, <2>1, <2>3 DEF Alone
<1>12. FieldsInv'
  BY <1>1, <1>6, <1>7, <1>11 DEF FieldsInv, Undisturbed
<1>13. ResetInv'
  <2>1. UNCHANGED azure
    BY DEF settings
  <2> QED
    BY <1>1, <1>4, <1>10, <2>1, OthersUnclean DEF ResetInv
<1>14. LoadedInv'
  <2>1. load'[c].clean => Undisturbed' /\ svc'.loaded = load'[c].model
    BY <1>1, <1>4, <1>8, <1>9 DEF Undisturbed
  <2> QED
    BY <1>1, <1>4, <2>1, OthersUnclean DEF LoadedInv
<1>15. SelectInv'
  BY <1>1, <1>4, OthersUnclean DEF SelectInv
<1>16. FailInv'
  BY <1>1, <1>4, CallAwaited DEF FailInv
<1>17. TurnInv'
  BY <1>4, <1>5, TurnKept
<1> QED
  BY <1>1, <1>8, <1>12, <1>13, <1>14, <1>15, <1>16, <1>17, OthersUnclean DEF ServedInv

\* On a local disk no call is ever between a reset and its end.
LEMMA LoadsHereServed ==
  ASSUME TypeInv, ServedInv, NEW c \in Callers, InLoad(c), LoadsHere(c), UNCHANGED settings
  PROVE ServedInv' /\ (~tainted /\ Ready => ~tainted')
<1>1. /\ ~azure /\ load[c].at = "select"
      /\ \A p \in Parts : svc'.part[p] \in {NoModel, load[c].model}
      /\ svc'.onnx <=> svc'.part["engine"] # NoModel
      /\ UNCHANGED req
  BY DEF LoadsHere, InLoad
<1>2. PICK at \in {"done", "find stage2", "failed"} :
        /\ load' = [Disturbed(c) EXCEPT ![c].at = at]
        /\ turn' = IF at = "find stage2" THEN NoCaller ELSE c
        /\ at # "failed" => /\ svc'.loaded = load[c].model /\ tainted' = ~load'[c].clean
                            /\ \E p \in {"engine", "pipeline"} : svc'.part[p] = load[c].model
        /\ at = "failed" => /\ svc'.loaded = svc.loaded /\ UNCHANGED tainted
                            /\ \A p \in {"engine", "pipeline"} : svc'.part[p] = NoModel
  BY Zenon DEF LoadsHere
<1>3. load[c].at # "idle" /\ at \in Stages /\ InfOK
  BY <1>1 DEF Stages, TypeInv
<1>4. /\ load'[c].at = at /\ load'[c].model = load[c].model /\ load'[c].clean = Alone(c)
      /\ \A d \in Callers \ {c} :
            /\ load'[d].at = load[d].at /\ load'[d].model = load[d].model
            /\ load'[d].clean <=> load[d].clean /\ load[d].at = "idle"
  BY <1>2, <1>3, LoadDisturbed
<1>5. load[c].model \in Models /\ load[c].model # NoModel
  BY <1>3, ApiProcessAssumption DEF InfOK
<1>6. \A d \in Callers : ~Resetting(d) /\ ~Resetting(d)'
  <2>1. \A d \in Callers : ~Resetting(d)
    BY <1>1 DEF ServedInv, ResetInv
  <2> QED
    BY <1>4, <2>1 DEF Resetting, Downloads
<1>7. Alone(c)
  BY <1>6 DEF Alone
<1>8. at # "failed" => ~tainted'
  <2>1. ASSUME at # "failed" PROVE ~tainted'
    <3>1. tainted' <=> ~load'[c].clean
      BY <1>2, <2>1, Zenon
    <3> QED
      BY <1>4, <1>7, <3>1
  <2> QED
    BY <2>1
<1>9. /\ at # "failed" => Ready' /\ svc'.loaded = load[c].model
      /\ at = "failed" => ~Ready'
  BY <1>2, <1>5 DEF Ready
<1>10. \A d \in Callers \ {c} : load'[d].at # "idle" => ~load'[d].clean
  BY <1>4
<1>11. FieldsInv'
  <2>1. ASSUME Ready' PROVE svc'.loaded \in Models /\ Used' \subseteq {svc'.loaded}
    <3>1. svc'.loaded = load[c].model
      BY <1>2, <1>9, <2>1
    <3>2. Used' \subseteq {svc'.loaded}
      BY <1>1, <3>1 DEF Used, Parts
    <3> QED
      BY <1>5, <3>1, <3>2
  <2> QED
    BY <1>1, <1>6, <2>1 DEF FieldsInv, Undisturbed
<1>12. ResetInv'
  BY <1>6 DEF ResetInv
<1>13. LoadedInv'
  BY <1>4, <1>8, <1>9, <1>10 DEF LoadedInv, Undisturbed
<1>14. SelectInv'
  BY <1>2, <1>4, <1>10 DEF SelectInv
<1>15. FailInv'
  BY <1>2, <1>4, <1>9, <1>10 DEF FailInv
<1>16. TurnInv'
  <2>1. turn' = NoCaller \/ (turn' = c /\ load'[c].at \in Returned)
    BY <1>2, <1>4 DEF Returned
  <2> QED
    BY <1>4, <2>1, TurnKept
<1>17. ~tainted /\ Ready => ~tainted'
  BY <1>2, <1>8
<1> QED
  BY <1>11, <1>12, <1>13, <1>14, <1>15, <1>16, <1>17 DEF ServedInv

\* The second stage is beside the fields that a prediction of this model uses.
LEMMA SecondStageServed ==
  ASSUME TypeInv, ServedInv, NEW c \in Callers, InLoad(c), SecondStage(c), UNCHANGED settings
  PROVE ServedInv'
<1>1. /\ load[c].at \in {"find stage2", "load stage2"}
      /\ svc'.part = svc.part /\ svc'.onnx = svc.onnx /\ svc'.loaded = svc.loaded
      /\ UNCHANGED <<tainted, req>>
  BY DEF SecondStage, InLoad
<1>2. PICK at \in {"done", "half done", "load stage2"} : MovesTo(c, at)
  BY DEF SecondStage
<1>3. load[c].at # "idle" /\ at \in Stages /\ InfOK
  BY <1>1 DEF Stages, TypeInv
<1>4. /\ load'[c].at = at /\ load'[c].model = load[c].model /\ load'[c].clean = load[c].clean
      /\ \A d \in Callers \ {c} : load'[d] = load[d]
  BY <1>2, <1>3, MovedTo
<1>5. (Ready' <=> Ready) /\ Used' = Used /\ (Undisturbed' <=> Undisturbed)
  BY <1>1, SameFields DEF Undisturbed
<1>6. \A d \in Callers : (Resetting(d)' <=> Resetting(d)) /\ (Alone(d)' <=> Alone(d))
  BY <1>1, <1>4 DEF Resetting, Alone, Downloads
<1>7. FieldsInv'
  BY <1>1, <1>5, <1>6 DEF ServedInv, FieldsInv
<1>8. ResetInv'
  <2>1. UNCHANGED azure
    BY DEF settings
  <2> QED
    BY <1>1, <1>2, <1>4, <1>5, <1>6, <2>1 DEF ServedInv, ResetInv, Resetting, Downloads
<1>9. LoadedInv'
  BY <1>1, <1>4, <1>5 DEF ServedInv, LoadedInv
<1>10. SelectInv'
  BY <1>1, <1>4, <1>6 DEF ServedInv, SelectInv
<1>11. FailInv'
  BY <1>1, <1>4, CallAwaited DEF FailInv
<1>12. TurnInv'
  <2>1. turn' = NoCaller \/ (turn' = c /\ load'[c].at \in Returned)
    BY <1>2, <1>4 DEF MovesTo, Returned
  <2> QED
    BY <1>4, <2>1, TurnKept
<1> QED
  BY <1>7, <1>8, <1>9, <1>10, <1>11, <1>12 DEF ServedInv

\* Fields that are undisturbed and do not change stay known to be so.
LEMMA InLoadServed ==
  ASSUME TypeInv, ServedInv, NEW c \in Callers, InLoad(c), UNCHANGED settings
  PROVE ServedInv' /\ (svc' = svc /\ Undisturbed => ~tainted')
<1>1. CASE GivesUp(c)
  BY <1>1, GivesUpServed DEF GivesUp, Undisturbed
<1>2. CASE Resets(c)
  BY <1>2, ResetsServed DEF Resets, Undisturbed
<1>3. CASE GoesOn(c)
  BY <1>3, GoesOnServed DEF GoesOn, Undisturbed
<1>4. CASE Completes(c)
  BY <1>4, CompletesServed
<1>5. CASE LoadsHere(c)
  BY <1>5, LoadsHereServed DEF Undisturbed
<1>6. CASE SecondStage(c)
  BY <1>6, SecondStageServed DEF SecondStage, Undisturbed
<1> QED
  BY <1>1, <1>2, <1>3, <1>4, <1>5, <1>6 DEF InLoad, Kind

(***************************************************************************)
(* The batch beside them                                                   *)
(***************************************************************************)

LEMMA BatchKept ==
  ASSUME TypeInv, BatchInv, BatchSees, svc' = svc /\ Undisturbed => ~tainted'
  PROVE BatchInv'
<1> DEFINE Seen == svc' = svc \/ batch.at \notin Reads
<1>1. Seen \in BOOLEAN /\ batch' = [batch EXCEPT !.clean = @ /\ Seen] /\ BatchTypeOK
  BY DEF BatchSees, TypeInv
<1> HIDE DEF Seen
<1>2. /\ batch'.at = batch.at /\ batch'.used = batch.used /\ batch'.onnx = batch.onnx
      /\ batch'.model = batch.model /\ (batch'.clean <=> batch.clean /\ Seen)
  BY <1>1 DEF BatchTypeOK
<1>3. BatchIsOfOneModel'
  BY <1>2 DEF BatchInv, BatchIsOfOneModel
<1>4. ASSUME batch'.clean, batch.at \in Reads
      PROVE svc' = svc /\ (Ready' <=> Ready)
  <2>1. svc' = svc
    BY <1>2, <1>4 DEF Seen
  <2> QED
    BY <2>1 DEF Ready
<1> QED
  BY <1>2, <1>3, <1>4 DEF BatchInv, Undisturbed

\* The thread itself: what it reads while nothing changes is of the loaded model.
LEMMA BatchStepKept ==
  ASSUME TypeInv, ServedInv, BatchInv, BatchStep, UNCHANGED <<svc, tainted, load>>
  PROVE BatchInv'
<1>1. BatchTypeOK /\ svc' = svc /\ (Ready' <=> Ready) /\ tainted' = tainted
  BY DEF TypeInv, Ready
<1>2. ASSUME batch.clean, batch.at \in Reads, Ready
      PROVE /\ svc.loaded \in Models /\ svc.loaded # NoModel
            /\ \A p \in {"calibrator", "threshold"} : svc.part[p] \in {NoModel, svc.loaded}
            /\ \A p \in {"engine", "preprocessor"} :
                  svc.onnx => svc.part[p] \in {NoModel, svc.loaded}
            /\ ~svc.onnx => svc.part["pipeline"] \in {NoModel, svc.loaded}
  <2>1. svc.loaded \in Models /\ Used \subseteq {svc.loaded}
    BY <1>2 DEF BatchInv, ServedInv, FieldsInv, Undisturbed
  <2> QED
    BY <2>1, ApiProcessAssumption DEF Used
<1>3. CASE PostBatch
  <2>1. /\ batch.at = "idle" /\ batch'.at = "ready" /\ batch'.used = batch.used
        /\ batch'.clean => ~tainted
    BY <1>1, <1>3 DEF PostBatch, BatchTypeOK
  <2> QED
    BY <1>1, <2>1 DEF BatchInv, BatchIsOfOneModel
<1>4. CASE BatchRaises \/ LogsRows
  <2>1. batch' = Over
    BY <1>4 DEF BatchRaises, LogsRows
  <2> QED
    BY <2>1 DEF Over, NoBatch, BatchInv, BatchIsOfOneModel, Reads
<1>5. ASSUME NEW from \in Reads, NEW to \in Reads \ {"ready", "transform"},
             NEW used, Reading(from, to, used),
             batch.clean => Ready /\ used \subseteq {NoModel, svc.loaded},
             batch.clean /\ from = "ready" => used = {svc.loaded},
             to = "score" => from = "transform"
      PROVE BatchInv'
  <2>1. /\ batch.at = from
        /\ batch' = [batch EXCEPT !.at = to,
                       !.used = IF batch.clean THEN batch.used \cup (used \ {NoModel}) ELSE {}]
    BY <1>5 DEF Reading, Goes
  <2>2. /\ batch'.at = to /\ batch'.onnx = batch.onnx /\ batch'.clean = batch.clean
        /\ batch.clean => batch'.used = batch.used \cup (used \ {NoModel})
    BY <1>1, <2>1 DEF BatchTypeOK
  <2>3. batch.clean => batch'.used = {svc.loaded}
    BY <1>2, <1>5, <2>1, <2>2 DEF BatchInv
  <2>4. to # "idle" /\ to # "answered"
    BY DEF Reads
  <2> QED
    BY <1>1, <1>5, <2>1, <2>2, <2>3, <2>4 DEF BatchInv, BatchIsOfOneModel
<1>6. {"ready", "path", "transform", "score", "calibrate", "decide", "name"} \subseteq Reads
  BY DEF Reads
<1>7. batch.clean /\ batch.at \in Reads \ {"ready"} => Ready
  BY DEF BatchInv
<1>8. CASE ReadsColumns
  <2>1. Ready /\ Reading("ready", "path", {svc.loaded})
    BY <1>8 DEF ReadsColumns
  <2> QED
    BY <1>5, <1>6, <2>1
<1>9. CASE ChoosesPath
  <2>1. /\ batch.at = "path" /\ batch'.at = (IF svc.onnx THEN "transform" ELSE "score")
        /\ batch'.onnx = svc.onnx /\ batch'.clean = batch.clean /\ batch'.used = batch.used
    BY <1>1, <1>9 DEF ChoosesPath, BatchTypeOK
  <2> QED
    BY <1>1, <1>6, <2>1 DEF BatchInv, BatchIsOfOneModel
<1>10. CASE Transforms
  <2>1. Reading("transform", "score", {svc.part["preprocessor"]}) /\ batch.at = "transform"
    BY <1>10 DEF Transforms, Reading
  <2>2. batch.clean => Ready /\ {svc.part["preprocessor"]} \subseteq {NoModel, svc.loaded}
    BY <1>2, <1>6, <1>7, <2>1 DEF BatchInv
  <2> QED
    BY <1>5, <1>6, <2>1, <2>2
<1>11. CASE ScoresRows
  <2> DEFINE by == svc.part[IF batch.onnx THEN "engine" ELSE "pipeline"]
  <2>1. Reading("score", "calibrate", {by}) /\ batch.at = "score"
    BY <1>11 DEF ScoresRows, Reading
  <2>2. batch.clean => Ready /\ {by} \subseteq {NoModel, svc.loaded}
    BY <1>2, <1>6, <1>7, <2>1 DEF BatchInv
  <2> HIDE DEF by
  <2> QED
    BY <1>5, <1>6, <2>1, <2>2
<1>12. CASE CalibratesRows
  <2>1. Reading("calibrate", "decide", {svc.part["calibrator"]}) /\ batch.at = "calibrate"
    BY <1>12 DEF CalibratesRows, Reading
  <2>2. batch.clean => Ready /\ {svc.part["calibrator"]} \subseteq {NoModel, svc.loaded}
    BY <1>2, <1>6, <1>7, <2>1
  <2> QED
    BY <1>5, <1>6, <2>1, <2>2
<1>13. CASE DecidesRow
  <2>1. PICK next \in {"decide", "name"} : Reading("decide", next, {svc.part["threshold"]})
    BY <1>13 DEF DecidesRow
  <2>2. batch.at = "decide"
    BY <2>1 DEF Reading
  <2>3. batch.clean => Ready /\ {svc.part["threshold"]} \subseteq {NoModel, svc.loaded}
    BY <1>2, <1>6, <1>7, <2>2
  <2> QED
    BY <1>5, <1>6, <2>1, <2>3
<1>14. CASE NamesModel
  <2>1. /\ batch.at = "name" /\ batch'.at = "answered" /\ batch'.model = svc.loaded
        /\ batch'.clean = batch.clean /\ batch'.used = batch.used
    BY <1>1, <1>14 DEF NamesModel, BatchTypeOK
  <2> QED
    BY <1>6, <2>1 DEF BatchInv, BatchIsOfOneModel, Reads
<1> QED
  BY <1>3, <1>4, <1>8, <1>9, <1>10, <1>11, <1>12, <1>13, <1>14 DEF BatchStep

\* A process that starts has no model, no call and no batch.
LEMMA FreshServed ==
  /\ /\ svc = Fresh /\ load = [c \in Callers |-> Resting] /\ turn = NoCaller
     /\ req = [c \in Callers |-> NoRequest] /\ batch = NoBatch
     => ServedInv /\ BatchInv
  /\ /\ svc' = Fresh /\ load' = [c \in Callers |-> Resting] /\ turn' = NoCaller
     /\ req' = [c \in Callers |-> NoRequest] /\ batch' = NoBatch
     => ServedInv' /\ BatchInv'
<1>1. /\ ~Fresh.onnx /\ Fresh.part["engine"] = NoModel /\ Fresh.part["pipeline"] = NoModel
      /\ Resting.at = "idle" /\ NoRequest.at = "idle"
      /\ NoBatch.at = "idle" /\ NoBatch.used = {}
  BY DEF Fresh, Blank, Parts, Resting, NoRequest, NoBatch
<1>2. ASSUME svc = Fresh, load = [c \in Callers |-> Resting], turn = NoCaller,
             req = [c \in Callers |-> NoRequest], batch = NoBatch
      PROVE ServedInv /\ BatchInv
  <2>1. \A c \in Callers : load[c].at = "idle" /\ req[c].at = "idle" /\ turn # c
    BY <1>1, <1>2, InferenceAssumption
  <2>2. ~Ready
    BY <1>1, <1>2 DEF Ready
  <2>3. ServedInv
    BY <1>1, <1>2, <2>1, <2>2 DEF ServedInv, FieldsInv, ResetInv, LoadedInv, SelectInv, FailInv,
                                  TurnInv, Undisturbed, Resetting, Downloads
  <2>4. BatchInv
    BY <1>1, <1>2 DEF BatchInv, BatchIsOfOneModel, Reads
  <2> QED
    BY <2>3, <2>4
<1>3. ASSUME svc' = Fresh, load' = [c \in Callers |-> Resting], turn' = NoCaller,
             req' = [c \in Callers |-> NoRequest], batch' = NoBatch
      PROVE ServedInv' /\ BatchInv'
  <2>1. \A c \in Callers : load'[c].at = "idle" /\ req'[c].at = "idle" /\ turn' # c
    BY <1>1, <1>3, InferenceAssumption
  <2>2. ~Ready'
    BY <1>1, <1>3 DEF Ready
  <2>3. ServedInv'
    BY <1>1, <1>3, <2>1, <2>2 DEF ServedInv, FieldsInv, ResetInv, LoadedInv, SelectInv, FailInv,
                                  TurnInv, Undisturbed, Resetting, Downloads
  <2>4. BatchInv'
    BY <1>1, <1>3 DEF BatchInv, BatchIsOfOneModel, Reads
  <2> QED
    BY <2>3, <2>4
<1> QED
  BY <1>2, <1>3

(***************************************************************************)
(* Whole loads and attributed answers                                      *)
(***************************************************************************)
AnswersInv == TypeInv /\ ServedInv /\ BatchInv

LEMMA AnswersInitially == Init => AnswersInv
<1> SUFFICES ASSUME Init PROVE AnswersInv
  OBVIOUS
<1>1. /\ svc = Fresh /\ load = [c \in Callers |-> Resting] /\ turn = NoCaller
      /\ req = [c \in Callers |-> NoRequest] /\ batch = NoBatch
  BY DEF Init, InfInit, BatchInit
<1>2. ServedInv /\ BatchInv
  BY <1>1, FreshServed
<1> QED
  BY <1>2, TypesInitially DEF AnswersInv

LEMMA AnswersKept == ASSUME AnswersInv, [Next]_vars PROVE AnswersInv'
<1>1. TypeInv /\ ServedInv /\ BatchInv /\ TypeInv' /\ UNCHANGED settings /\ Shape
  BY NextStep, TypesKept DEF AnswersInv, StepOK
<1> SUFFICES ServedInv' /\ BatchInv'
  BY <1>1 DEF AnswersInv
<1>2. ASSUME NEW c \in Callers, Asks(c) \/ Ends(c) \/ Proceeds(c) \/ InLoad(c), BatchSees
      PROVE ServedInv' /\ BatchInv'
  <2>1. ServedInv' /\ (svc' = svc /\ Undisturbed => ~tainted')
    <3>1. CASE Asks(c)
      BY <1>1, <3>1, AsksServed DEF Undisturbed
    <3>2. CASE Ends(c)
      BY <1>1, <3>2, EndsServed DEF Undisturbed
    <3>3. CASE Proceeds(c)
      BY <1>1, <3>3, ProceedsServed DEF Undisturbed
    <3>4. CASE InLoad(c)
      BY <1>1, <3>4, InLoadServed
    <3> QED
      BY <1>2, <3>1, <3>2, <3>3, <3>4
  <2> QED
    BY <1>1, <1>2, <2>1, BatchKept
<1>3. ASSUME UNCHANGED <<svc, load, turn, tainted, req>> PROVE ServedInv'
  <2>1. /\ (Ready' <=> Ready) /\ Used' = Used /\ (Undisturbed' <=> Undisturbed)
        /\ \A d \in Callers : (Resetting(d)' <=> Resetting(d)) /\ (Alone(d)' <=> Alone(d))
    BY <1>3, SameFields DEF Undisturbed, Resetting, Alone
  <2>2. UNCHANGED azure
    BY <1>1 DEF settings
  <2>3. FieldsInv' /\ LoadedInv' /\ SelectInv' /\ FailInv' /\ TurnInv'
    BY <1>1, <1>3, <2>1 DEF ServedInv, FieldsInv, LoadedInv, SelectInv, FailInv, TurnInv
  <2>4. ResetInv'
    BY <1>1, <1>3, <2>1, <2>2 DEF ServedInv, ResetInv
  <2> QED
    BY <2>3, <2>4 DEF ServedInv
<1>4. CASE UNCHANGED <<svc, load, turn, tainted, req, batch>>
  <2>1. BatchInv'
    BY <1>1, <1>4 DEF BatchInv, BatchIsOfOneModel, Ready
  <2> QED
    BY <1>3, <1>4, <2>1
<1>5. CASE Free /\ BatchStep /\ UNCHANGED <<svc, load, turn, tainted, req>>
  BY <1>1, <1>3, <1>5, BatchStepKept
<1>6. CASE Restarts
  BY <1>6, FreshServed DEF Restarts
<1> QED
  BY <1>1, <1>2, <1>4, <1>5, <1>6 DEF Shape

LEMMA AnswersTell == AnswersInv => LoadIsWhole /\ AnswersAttributed
<1> SUFFICES ASSUME AnswersInv PROVE LoadIsWhole /\ AnswersAttributed
  OBVIOUS
<1>1. TypeInv /\ ServedInv /\ BatchInv
  BY DEF AnswersInv
<1>2. LoadIsWhole
  <2>1. ASSUME NEW c \in Callers, load[c].at = "done", load[c].clean
        PROVE Used \cup {svc.loaded} = {load[c].model}
    <3>1. Undisturbed /\ svc.loaded = load[c].model
      BY <1>1, <2>1 DEF ServedInv, LoadedInv
    <3> QED
      BY <1>1, <3>1 DEF ServedInv, FieldsInv
  <2> QED
    BY <2>1 DEF LoadIsWhole
<1>3. CountedForItsModel
  <2>1. ASSUME NEW c \in Callers, turn = c, req[c].at = "predict", Ready, load[c].clean,
               load[c].at # "half done"
        PROVE Used \subseteq {AnswersFor(c)}
    <3>1. load[c].at \in {"done", "failed"}
      BY <1>1, <2>1 DEF ServedInv, TurnInv, Returned
    <3>2. Undisturbed /\ svc.loaded = AnswersFor(c)
      BY <1>1, <2>1, <3>1 DEF ServedInv, LoadedInv, FailInv, Undisturbed, AnswersFor
    <3> QED
      BY <1>1, <3>2 DEF ServedInv, FieldsInv
  <2> QED
    BY <2>1 DEF CountedForItsModel
<1> QED
  BY <1>1, <1>2, <1>3 DEF AnswersAttributed, BatchInv

LEMMA AnswersAlways == Spec => []AnswersInv
<1>1. AnswersInv /\ [Next]_vars => AnswersInv'
  BY AnswersKept
<1> QED
  BY <1>1, AnswersInitially, PTL DEF Spec

\* load_model: a load that no other overlapped leaves parts of its own model
\* only, whatever failed or was given up before it.
THEOREM LoadsAreWhole == FairSpec => []LoadIsWhole
<1>1. AnswersInv => LoadIsWhole
  BY AnswersTell
<1> QED
  BY <1>1, AnswersAlways, PTL DEF FairSpec

\* record_prediction and the inference log: a routed prediction is counted, and
\* the rows of a batch are logged, for the model whose parts computed them.
THEOREM AnswersAreAttributed == FairSpec => []AnswersAttributed
<1>1. AnswersInv => AnswersAttributed
  BY AnswersTell
<1> QED
  BY <1>1, AnswersAlways, PTL DEF FairSpec
=============================================================================
