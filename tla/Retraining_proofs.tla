------------------------- MODULE Retraining_proofs -------------------------
(***************************************************************************)
(* Three theorems about Retraining.  Whatever the API, the worker's        *)
(* threads and the faults write over each other: every copy holds whole    *)
(* records of jobs, and a pipeline that runs has one; a job shown as       *)
(* decided was decided on a completed training job.  And as long as nobody *)
(* disturbed it, the snapshot is what clients were told and what the       *)
(* pipelines hold.                                                         *)
(***************************************************************************)
EXTENDS Retraining, TLAPS

Processes == {"api", "worker"}

\* What the shared steps leave: every copy is a snapshot.
CopiesOK ==
  /\ redis \in Snapshots /\ stored \in BOOLEAN
  /\ memory \in [{"api", "worker"} -> Snapshots]
  /\ behind \subseteq {"api", "worker", "raw"}
  /\ clean \in BOOLEAN
  /\ faults \in Nat

\* A run that was begun has an attempt to publish left: RunLoad looks at the
\* bound, Publish no more.
MayPublish == api.pc \in {"run", "publish"} => published < MaxPublishes

TypeInv == TypeOK /\ MayPublish

RequestsOK ==
  /\ built \in BOOLEAN
  /\ api \in [pc : {"idle", "run", "publish", "delete", "filter"},
              job : Jobs \cup {NoJob}, raw : Snapshots]
  /\ api.pc # "idle" => api.job \in Jobs
  /\ life \in [Jobs -> {"new", "live", "deleted"}]
  /\ published \in 0..MaxPublishes
  /\ MayPublish

WorkersOK ==
  /\ thread \in [Jobs -> [pc : Steps \cup {"free"}, object : Records \cup {Absent},
                          held : BOOLEAN]]
  /\ \A j \in Jobs : Running(j) => thread[j].object \in Records
  /\ trained \subseteq Jobs /\ finished \subseteq Jobs
  /\ runs \in [Jobs -> Nat]

QueueOK == queue \in [Jobs -> Nat]

LEMMA TypeParts ==
  /\ TypeInv => CopiesOK /\ RequestsOK /\ WorkersOK /\ QueueOK
  /\ CopiesOK' /\ RequestsOK' /\ WorkersOK' /\ QueueOK' => TypeInv'
BY DEF TypeInv, TypeOK, CopiesOK, RequestsOK, WorkersOK, QueueOK

\* A job that is not in a snapshot is no record.
LEMMA AbsentIsNoRecord == Absent \notin Records /\ Initializing \in Records
BY DEF Absent, Initializing, Records, Active, Terminal

\* Snapshots of no job, and with one record replaced.
LEMMA NothingIsSnapshot == Nothing \in Snapshots
BY DEF Nothing, Snapshots

LEMMA SnapshotReplaced ==
  ASSUME NEW s \in Snapshots, NEW j \in Jobs, NEW r \in Records \cup {Absent}
  PROVE [s EXCEPT ![j] = r] \in Snapshots
BY DEF Snapshots

\* A field set in a record, or in the mark of a missing job, that it may have.
LEMMA NoLongerQueued ==
  ASSUME NEW r \in Records \cup {Absent}
  PROVE [r EXCEPT !.queued = FALSE] \in Records \cup {Absent}
BY DEF Records, Absent, Initializing

\* _load_state leaves snapshots in every copy.
LEMMA LoadKeepsCopies ==
  ASSUME CopiesOK, NEW p \in Processes, NEW alone \in BOOLEAN, Load(p, alone)
  PROVE CopiesOK'
<1>1. CASE MoreEvents /\ faults' = faults + 1 /\ clean' = FALSE
           /\ UNCHANGED <<redis, stored, memory, behind>>
  <2>1. faults' \in Nat
    BY <1>1 DEF CopiesOK
  <2> QED
    BY <1>1, <2>1, Zenon DEF CopiesOK
<1>2. CASE /\ memory' = IF stored THEN [memory EXCEPT ![p] = redis] ELSE memory
           /\ behind' = behind \ {p}
           /\ clean' = (clean /\ alone)
           /\ UNCHANGED <<redis, stored, faults>>
  <2>1. memory' \in [{"api", "worker"} -> Snapshots]
    BY <1>2 DEF CopiesOK, Processes
  <2>2. clean' \in BOOLEAN /\ redis' \in Snapshots /\ stored' \in BOOLEAN /\ faults' \in Nat
    BY <1>2, Zenon DEF CopiesOK
  <2>3. behind' \subseteq {"api", "worker", "raw"}
    BY <1>2, Zenon DEF CopiesOK
  <2> QED
    BY <2>1, <2>2, <2>3, Zenon DEF CopiesOK
<1> QED
  BY <1>1, <1>2 DEF Load

\* _persist_state of a snapshot does too, once the memory has its own.
LEMMA PersistKeepsCopies ==
  ASSUME CopiesOK, NEW p, NEW copy, NEW snapshot \in Snapshots, Persist(p, copy, snapshot),
         memory' \in [{"api", "worker"} -> Snapshots]
  PROVE CopiesOK'
<1>1. CASE MoreEvents /\ faults' = faults + 1 /\ clean' = FALSE
           /\ UNCHANGED <<redis, stored, behind>>
  <2>1. faults' \in Nat
    BY <1>1 DEF CopiesOK
  <2> QED
    BY <1>1, <2>1, Zenon DEF CopiesOK
<1>2. CASE /\ redis' = snapshot /\ stored' = TRUE
           /\ behind' = behind \cup (IF p = "api" THEN {"worker"} ELSE {"api", "raw"})
           /\ clean' = (clean /\ copy \notin behind)
           /\ UNCHANGED faults
  <2>1. clean' \in BOOLEAN /\ redis' \in Snapshots /\ stored' \in BOOLEAN /\ faults' \in Nat
    BY <1>2, Zenon DEF CopiesOK
  <2>2. behind' \subseteq {"api", "worker", "raw"}
    BY <1>2 DEF CopiesOK
  <2> QED
    BY <2>1, <2>2, Zenon DEF CopiesOK
<1> QED
  BY <1>1, <1>2 DEF Persist

(***************************************************************************)
(* The API's handlers                                                      *)
(***************************************************************************)

\* A handler of the API leaves the worker's threads, and each copy, whole.
LEMMA ApiTypeStep ==
  ASSUME TypeInv,
         \/ Construct \/ Refresh \/ Respond \/ RestartApi
         \/ \E j \in Jobs : Trigger(j) \/ RunLoad(j) \/ DeleteLoad(j)
  PROVE TypeInv'
<1> USE RetrainingAssumption
<1>0. CopiesOK /\ RequestsOK /\ WorkersOK /\ QueueOK /\ TRUE \in BOOLEAN /\ "api" \in Processes
  BY TypeParts DEF Processes
<1>1. ASSUME UNCHANGED workers PROVE WorkersOK'
  BY <1>0, <1>1 DEF WorkersOK, workers, Running
<1>2. ASSUME UNCHANGED queue PROVE QueueOK'
  BY <1>0, <1>2 DEF QueueOK
<1>3. CASE Construct
  <2>1. RequestsOK'
    BY <1>0, <1>3 DEF RequestsOK, MayPublish, Construct
  <2>2. CopiesOK'
    BY <1>0, <1>3, LoadKeepsCopies DEF Construct
  <2> QED
    BY <1>1, <1>2, <1>3, <2>1, <2>2, TypeParts DEF Construct
<1>4. CASE Refresh
  <2>1. RequestsOK'
    BY <1>0, <1>4 DEF RequestsOK, MayPublish, Refresh, requests
  <2>2. CopiesOK'
    BY <1>0, <1>4, LoadKeepsCopies DEF Refresh
  <2> QED
    BY <1>1, <1>2, <1>4, <2>1, <2>2, TypeParts DEF Refresh
<1>5. ASSUME NEW j \in Jobs, Trigger(j) PROVE TypeInv'
  <2>1. RequestsOK'
    BY <1>0, <1>5 DEF RequestsOK, MayPublish, Trigger
  <2>2. memory' \in [{"api", "worker"} -> Snapshots]
    BY <1>0, <1>5, AbsentIsNoRecord DEF CopiesOK, Trigger, Snapshots
  <2>3. CopiesOK'
    BY <1>0, <1>5, <2>2, PersistKeepsCopies DEF Trigger
  <2> QED
    BY <1>1, <1>2, <1>5, <2>1, <2>3, TypeParts DEF Trigger
<1>6. ASSUME NEW j \in Jobs, RunLoad(j) PROVE TypeInv'
  <2>1. RequestsOK'
    BY <1>0, <1>6, NothingIsSnapshot DEF RequestsOK, MayPublish, RunLoad, NoRequest
  <2>2. CopiesOK'
    BY <1>0, <1>6, LoadKeepsCopies DEF RunLoad
  <2> QED
    BY <1>1, <1>2, <1>6, <2>1, <2>2, TypeParts DEF RunLoad
<1>7. ASSUME NEW j \in Jobs, DeleteLoad(j) PROVE TypeInv'
  <2>1. RequestsOK'
    BY <1>0, <1>7, NothingIsSnapshot DEF RequestsOK, MayPublish, DeleteLoad, NoRequest
  <2>2. CopiesOK'
    BY <1>0, <1>7, LoadKeepsCopies DEF DeleteLoad
  <2> QED
    BY <1>1, <1>2, <1>7, <2>1, <2>2, TypeParts DEF DeleteLoad
<1>8. CASE RunQueue
  <2>1. RequestsOK'
    BY <1>0, <1>8, NothingIsSnapshot DEF RequestsOK, MayPublish, RunQueue, NoRequest
  <2>2. CopiesOK'
    <3>1. CASE Runnable(memory["api"][api.job])
      <4>1. api.job \in Jobs /\ memory["api"][api.job] \in Records \cup {Absent}
        BY <1>0, <1>8 DEF RunQueue, RequestsOK, CopiesOK, Snapshots
      <4>2. [memory["api"][api.job] EXCEPT !.queued = TRUE] \in Records
        BY <4>1, <3>1 DEF Runnable, Records, Absent, Initializing
      <4>3. memory' \in [{"api", "worker"} -> Snapshots]
        BY <1>0, <1>8, <3>1, <4>1, <4>2 DEF RunQueue, CopiesOK, Snapshots
      <4> QED
        BY <1>0, <1>8, <3>1, <4>3, PersistKeepsCopies DEF RunQueue
    <3>2. CASE ~Runnable(memory["api"][api.job])
      <4>1. UNCHANGED <<redis, stored, memory, behind, clean, faults>>
        BY <1>8, <3>2 DEF RunQueue
      <4> QED
        BY <1>0, <4>1, Zenon DEF CopiesOK
    <3> QED
      BY <3>1, <3>2
  <2> QED
    BY <1>1, <1>2, <1>8, <2>1, <2>2, TypeParts DEF RunQueue
<1>9. CASE Publish
  <2>1. RequestsOK'
    BY <1>0, <1>9, NothingIsSnapshot DEF RequestsOK, MayPublish, Publish, NoRequest
  <2>2. CopiesOK'
    BY <1>0, <1>9, Zenon DEF CopiesOK, Publish
  <2>3. QueueOK'
    BY <1>0, <1>9 DEF QueueOK, RequestsOK, Publish
  <2> QED
    BY <1>1, <1>9, <2>1, <2>2, <2>3, TypeParts DEF Publish
<1>10. CASE PublishFails
  <2>1. RequestsOK'
    BY <1>0, <1>10, NothingIsSnapshot DEF RequestsOK, MayPublish, PublishFails, NoRequest
  <2>2. api.job \in Jobs /\ memory["api"][api.job] \in Records \cup {Absent}
    BY <1>0, <1>10 DEF PublishFails, RequestsOK, CopiesOK, Snapshots
  <2>3. [memory["api"][api.job] EXCEPT !.queued = FALSE] \in Records \cup {Absent}
    BY <2>2, NoLongerQueued
  <2>4. memory' \in [{"api", "worker"} -> Snapshots]
    BY <1>0, <1>10, <2>2, <2>3 DEF PublishFails, CopiesOK, Snapshots
  <2>5. CopiesOK'
    BY <1>0, <1>10, <2>4, PersistKeepsCopies DEF PublishFails
  <2> QED
    BY <1>1, <1>2, <1>10, <2>1, <2>5, TypeParts DEF PublishFails
<1>11. CASE DeleteRead
  <2>1. RequestsOK'
    <3>1. CASE memory["api"][api.job].status \in Terminal
      <4>1. redis \in Snapshots
        BY <1>0 DEF CopiesOK
      <4> QED
        BY <1>0, <1>11, <3>1, <4>1 DEF RequestsOK, MayPublish, DeleteRead
    <3>2. CASE memory["api"][api.job].status \notin Terminal
      BY <1>0, <1>11, <3>2, NothingIsSnapshot DEF RequestsOK, MayPublish, DeleteRead, NoRequest
    <3> QED
      BY <3>1, <3>2
  <2>2. memory' \in [{"api", "worker"} -> Snapshots]
    BY <1>0, <1>11 DEF RequestsOK, MayPublish, CopiesOK, DeleteRead, Snapshots
  <2>3. behind' \subseteq {"api", "worker", "raw"}
    BY <1>0, <1>11 DEF CopiesOK, DeleteRead
  <2>4. CopiesOK'
    BY <1>0, <1>11, <2>2, <2>3, Zenon DEF CopiesOK, DeleteRead
  <2> QED
    BY <1>1, <1>2, <1>11, <2>1, <2>4, TypeParts DEF DeleteRead
<1>12. CASE DeleteWrite
  <2>1. RequestsOK'
    BY <1>0, <1>12, NothingIsSnapshot DEF RequestsOK, MayPublish, DeleteWrite, NoRequest
  <2>2. [api.raw EXCEPT ![api.job] = Absent] \in Snapshots
    BY <1>0, <1>12, SnapshotReplaced DEF RequestsOK, MayPublish, DeleteWrite
  <2>3. CopiesOK'
    BY <1>0, <1>12, <2>2, PersistKeepsCopies DEF CopiesOK, DeleteWrite
  <2> QED
    BY <1>1, <1>2, <1>12, <2>1, <2>3, TypeParts DEF DeleteWrite
<1>13. CASE DeleteFallsBack
  <2>1. RequestsOK'
    BY <1>0, <1>13, NothingIsSnapshot DEF RequestsOK, MayPublish, DeleteFallsBack, NoRequest
  <2>2. redis' \in Snapshots /\ faults' \in Nat /\ behind' \subseteq {"api", "worker", "raw"}
    BY <1>0, <1>13 DEF CopiesOK, DeleteFallsBack
  <2>3. CopiesOK'
    BY <1>0, <1>13, <2>2, Zenon DEF CopiesOK, DeleteFallsBack
  <2> QED
    BY <1>1, <1>2, <1>13, <2>1, <2>3, TypeParts DEF DeleteFallsBack
<1>14. CASE RestartApi
  <2>1. RequestsOK'
    BY <1>0, <1>14, NothingIsSnapshot DEF RequestsOK, MayPublish, RestartApi, NoRequest
  <2>2. memory' \in [{"api", "worker"} -> Snapshots] /\ faults' \in Nat
    BY <1>0, <1>14, NothingIsSnapshot DEF CopiesOK, RestartApi
  <2>3. clean' \in BOOLEAN
    BY <1>14, Zenon DEF RestartApi
  <2>4. CopiesOK'
    BY <1>0, <1>14, <2>2, <2>3, Zenon DEF CopiesOK, RestartApi
  <2> QED
    BY <1>1, <1>2, <1>14, <2>1, <2>4, TypeParts DEF RestartApi
<1> QED
  BY <1>3, <1>4, <1>5, <1>6, <1>7, <1>8, <1>9, <1>10, <1>11, <1>12, <1>13, <1>14 DEF Respond

(***************************************************************************)
(* The worker's threads                                                    *)
(***************************************************************************)

\* Save leaves every copy whole, when what the thread assigned is a record.
LEMMA SaveTypeStep ==
  ASSUME TypeInv, NEW j \in Jobs, NEW record \in Records, NEW next \in Steps \cup {"free"},
         Save(j, record, next), trained' \subseteq Jobs, finished' \subseteq Jobs
  PROVE TypeInv'
<1>0. CopiesOK /\ RequestsOK /\ WorkersOK /\ QueueOK
  BY TypeParts
<1>1. memory' \in [{"api", "worker"} -> Snapshots]
  BY <1>0 DEF CopiesOK, Save, Snapshots
<1>2. CopiesOK'
  BY <1>0, <1>1, PersistKeepsCopies DEF Save
<1>3. RequestsOK'
  BY <1>0 DEF RequestsOK, MayPublish, Save, requests
<1>4. WorkersOK'
  BY <1>0 DEF WorkersOK, Save, Running, Steps, Free
<1>5. QueueOK'
  BY <1>0 DEF QueueOK, Save
<1> QED
  BY <1>2, <1>3, <1>4, <1>5, TypeParts

\* The object of a pipeline that runs is a record, and stays one whatever field
\* is assigned.
LEMMA ObjectAssigned ==
  ASSUME TypeInv, NEW j \in Jobs, Running(j),
         NEW status \in {"PENDING"} \cup Active \cup Terminal, NEW better \in {"yes", "no"}
  PROVE /\ [thread[j].object EXCEPT !.status = status, !.queued = FALSE] \in Records
        /\ [thread[j].object EXCEPT !.status = status] \in Records
        /\ [thread[j].object EXCEPT !.dispatched = TRUE] \in Records
        /\ [thread[j].object EXCEPT !.metrics = TRUE] \in Records
        /\ [thread[j].object EXCEPT !.better = better] \in Records
<1>1. thread[j].object \in Records
  BY DEF TypeInv, TypeOK
<1> QED
  BY <1>1 DEF Records

\* A thread, a message and the training job move; every copy stays whole.
LEMMA PipelineTypeStep ==
  ASSUME TypeInv, NEW j \in Jobs, Pipeline(j) PROVE TypeInv'
<1>0. /\ CopiesOK /\ RequestsOK /\ WorkersOK /\ QueueOK
      /\ trained \subseteq Jobs /\ finished \subseteq Jobs
  BY TypeParts DEF WorkersOK
<1>1. ASSUME NEW pc \in Steps \ {"load"}, NEW status \in Active,
             NEW next \in Steps, Enter(j, pc, status, next)
      PROVE TypeInv'
  <2>1. [thread[j].object EXCEPT !.status = status, !.queued = FALSE] \in Records
    BY <1>1, ObjectAssigned DEF Enter, Running
  <2>2. trained' \subseteq Jobs /\ finished' \subseteq Jobs
    BY <1>0, <1>1 DEF Enter
  <2> QED
    BY <1>1, <2>1, <2>2, SaveTypeStep DEF Enter
<1>2. CASE Prepare(j)
  BY <1>1, <1>2 DEF Prepare, Steps, Active
<1>3. CASE Train(j)
  BY <1>1, <1>3 DEF Train, Steps, Active
<1>4. CASE Validate(j)
  BY <1>1, <1>4 DEF Validate, Steps, Active
<1>5. CASE Compare(j)
  BY <1>1, <1>5 DEF Compare, Steps, Active
<1>6. CASE Dispatch(j)
  <2>1. CopiesOK'
    BY <1>0, <1>6, Zenon DEF Dispatch, CopiesOK
  <2>2. RequestsOK' /\ QueueOK'
    BY <1>0, <1>6 DEF Dispatch, RequestsOK, MayPublish, QueueOK, requests
  <2>3. WorkersOK'
    BY <1>0, <1>6 DEF Dispatch, WorkersOK, Running, Steps
  <2> QED
    BY <2>1, <2>2, <2>3, TypeParts
<1>7. CASE RecordTraining(j)
  <2>1. [thread[j].object EXCEPT !.dispatched = TRUE] \in Records
    BY <1>7, ObjectAssigned DEF RecordTraining, Running, Steps
  <2> QED
    BY <1>0, <1>7, <2>1, SaveTypeStep DEF RecordTraining, Steps
<1>8. CASE Check(j)
  <2>1. [thread[j].object EXCEPT !.metrics = TRUE] \in Records
    BY <1>8, ObjectAssigned DEF Check, Running, Steps
  <2> QED
    BY <1>0, <1>8, <2>1, SaveTypeStep DEF Check, Steps
<1>9. CASE Result(j)
  <2>1. PICK better \in {"yes", "no"} : Save(j, [thread[j].object EXCEPT !.better = better], "decide")
    BY <1>9 DEF Result
  <2>2. [thread[j].object EXCEPT !.better = better] \in Records
    BY <1>9, ObjectAssigned DEF Result, Running, Steps
  <2> QED
    BY <1>0, <1>9, <2>1, <2>2, SaveTypeStep DEF Result, Steps
<1>10. ASSUME NEW status \in Terminal, Running(j),
              Save(j, [thread[j].object EXCEPT !.status = status], "free"),
              UNCHANGED <<trained, finished>>
       PROVE TypeInv'
  <2>1. [thread[j].object EXCEPT !.status = status] \in Records
    BY <1>10, ObjectAssigned
  <2> QED
    BY <1>0, <1>10, <2>1, SaveTypeStep
<1>11. CASE Decide(j)
  BY <1>10, <1>11 DEF Decide, Running, Steps, Terminal
<1>12. CASE Raise(j)
  BY <1>10, <1>12 DEF Raise, Running, Steps, Terminal
<1>13. CASE Begin(j)
  <2>1. CopiesOK'
    <3>1. (\A k \in Jobs : ~Running(k)) \in BOOLEAN /\ "worker" \in Processes
      BY DEF Processes
    <3> QED
      BY <1>0, <1>13, <3>1, LoadKeepsCopies DEF Begin
  <2>2. RequestsOK' /\ QueueOK'
    BY <1>0, <1>13 DEF Begin, RequestsOK, MayPublish, QueueOK, requests
  <2>3. memory'["worker"][j] \in Records \cup {Absent}
    BY <2>1 DEF CopiesOK, Snapshots
  <2>4. WorkersOK'
    <3> DEFINE loaded == stored /\ faults' = faults
               others == [k \in Jobs |-> [thread[k] EXCEPT !.held = @ /\ ~loaded]]
    <3>1. \A k \in Jobs : (thread[k].held /\ ~loaded) \in BOOLEAN
      BY Zenon
    <3>2. /\ others \in [Jobs -> [pc : Steps \cup {"free"}, object : Records \cup {Absent},
                                  held : BOOLEAN]]
          /\ \A k \in Jobs : others[k].pc = thread[k].pc /\ others[k].object = thread[k].object
      <4> HIDE DEF loaded
      <4> QED
        BY <1>0, <3>1 DEF WorkersOK
    <3>3. \/ memory'["worker"][j] = Absent /\ thread' = [others EXCEPT ![j] = Free] /\ runs' = runs
          \/ /\ memory'["worker"][j] # Absent
             /\ thread' = [others EXCEPT ![j] = [pc |-> "prepare", object |-> memory'["worker"][j],
                                                 held |-> TRUE]]
             /\ runs' = [runs EXCEPT ![j] = @ + 1]
      BY <1>13, Zenon DEF Begin
    <3>4. UNCHANGED <<trained, finished>>
      BY <1>13 DEF Begin
    <3> HIDE DEF others, loaded
    <3>5. /\ thread' \in [Jobs -> [pc : Steps \cup {"free"}, object : Records \cup {Absent},
                                   held : BOOLEAN]]
          /\ runs' \in [Jobs -> Nat]
      <4>1. /\ Free \in [pc : Steps \cup {"free"}, object : Records \cup {Absent}, held : BOOLEAN]
            /\ [pc |-> "prepare", object |-> memory'["worker"][j], held |-> TRUE]
                 \in [pc : Steps \cup {"free"}, object : Records \cup {Absent}, held : BOOLEAN]
        BY <2>3 DEF Free, Steps
      <4>2. thread' \in [Jobs -> [pc : Steps \cup {"free"}, object : Records \cup {Absent},
                                 held : BOOLEAN]]
        BY <3>2, <3>3, <4>1, Zenon
      <4>3. runs' \in [Jobs -> Nat]
        BY <1>0, <3>3 DEF WorkersOK
      <4> QED
        BY <4>2, <4>3
    <3>6. ASSUME NEW k \in Jobs, Running(k)' PROVE thread'[k].object \in Records
      BY <1>0, <2>3, <3>2, <3>3, <3>6 DEF WorkersOK, Running, Steps, Free
    <3> QED
      BY <1>0, <3>4, <3>5, <3>6 DEF WorkersOK
  <2> QED
    BY <2>1, <2>2, <2>4, TypeParts
<1> QED
  BY <1>2, <1>3, <1>4, <1>5, <1>6, <1>7, <1>8, <1>9, <1>11, <1>12, <1>13 DEF Pipeline

\* Messages and restarts of the worker, and what the training jobs do meanwhile.
LEMMA WorkerTypeStep ==
  ASSUME TypeInv, RestartWorker \/ \E j \in Jobs : Launch(j) \/ TrainingMoves(j)
  PROVE TypeInv'
<1>0. CopiesOK /\ RequestsOK /\ WorkersOK /\ QueueOK
  BY TypeParts
<1>1. ASSUME NEW j \in Jobs, Launch(j) PROVE TypeInv'
  <2>1. CopiesOK'
    BY <1>0, <1>1, Zenon DEF Launch, CopiesOK
  <2>2. RequestsOK' /\ QueueOK'
    BY <1>0, <1>1 DEF Launch, RequestsOK, MayPublish, QueueOK, requests
  <2>3. WorkersOK'
    BY <1>0, <1>1 DEF Launch, WorkersOK, Running, Steps, Free
  <2> QED
    BY <2>1, <2>2, <2>3, TypeParts
<1>2. ASSUME NEW j \in Jobs, TrainingMoves(j) PROVE TypeInv'
  <2>1. CopiesOK'
    BY <1>0, <1>2, Zenon DEF TrainingMoves, CopiesOK
  <2>2. RequestsOK' /\ QueueOK'
    BY <1>0, <1>2 DEF TrainingMoves, RequestsOK, MayPublish, QueueOK, requests
  <2>3. WorkersOK'
    BY <1>0, <1>2 DEF TrainingMoves, WorkersOK, Running
  <2> QED
    BY <2>1, <2>2, <2>3, TypeParts
<1>3. CASE RestartWorker
  <2>1. memory' \in [{"api", "worker"} -> Snapshots] /\ faults' \in Nat
    BY <1>0, <1>3, NothingIsSnapshot DEF RestartWorker, CopiesOK
  <2>2. clean' \in BOOLEAN
    BY <1>3, Zenon DEF RestartWorker
  <2>3. CopiesOK'
    BY <1>0, <1>3, <2>1, <2>2, Zenon DEF RestartWorker, CopiesOK
  <2>4. RequestsOK' /\ QueueOK'
    BY <1>0, <1>3 DEF RestartWorker, RequestsOK, MayPublish, QueueOK, requests
  <2>5. WorkersOK'
    BY <1>0, <1>3 DEF RestartWorker, WorkersOK, Running, Steps, Free
  <2> QED
    BY <2>3, <2>4, <2>5, TypeParts
<1> QED
  BY <1>1, <1>2, <1>3

\* Every step keeps the copies, the request in progress and the threads well
\* typed.
LEMMA TypeStep == TypeInv /\ [Next]_vars => TypeInv'
<1>1. ASSUME TypeInv, UNCHANGED vars PROVE TypeInv'
  BY <1>1, Zenon DEF TypeInv, TypeOK, MayPublish, Running, vars, requests, workers
<1>2. ASSUME TypeInv, Next PROVE TypeInv'
  BY <1>2, ApiTypeStep, PipelineTypeStep, WorkerTypeStep DEF Next, Worker
<1> QED
  BY <1>1, <1>2

LEMMA TypeInit == Init => TypeInv
<1> SUFFICES ASSUME Init PROVE TypeInv
  OBVIOUS
<1>1. \A j \in Jobs : ~Running(j)
  BY DEF Init, Running, Free, Steps
<1>2. CopiesOK
  BY NothingIsSnapshot, Zenon DEF Init, CopiesOK
<1>3. RequestsOK /\ QueueOK
  <2>1. api \in [pc : {"idle", "run", "publish", "delete", "filter"},
                job : Jobs \cup {NoJob}, raw : Snapshots] /\ api.pc = "idle"
    BY NothingIsSnapshot DEF Init, NoRequest
  <2>2. published \in 0..MaxPublishes
    BY RetrainingAssumption DEF Init
  <2>3. life \in [Jobs -> {"new", "live", "deleted"}] /\ built \in BOOLEAN
    BY DEF Init
  <2>4. QueueOK
    BY DEF Init, QueueOK
  <2> QED
    BY <2>1, <2>2, <2>3, <2>4, Zenon DEF RequestsOK, MayPublish
<1>4. WorkersOK
  BY <1>1 DEF Init, WorkersOK, Free
<1> QED
  BY <1>2, <1>3, <1>4 DEF TypeInv, TypeOK, CopiesOK, RequestsOK, WorkersOK, QueueOK

\* Whatever the API, the worker's threads, restarts and Redis errors do to each
\* other's snapshots, every copy maps jobs to whole records, the API's request
\* names a job, a pipeline that runs holds a record (never the None of a job
\* that was not found), and no attempt to publish goes beyond the bound.
THEOREM TypeCorrect == FairSpec => []TypeInv
<1>1. Init => TypeInv
  BY TypeInit
<1>2. TypeInv /\ [Next]_vars => TypeInv'
  BY TypeStep
<1> QED
  BY <1>1, <1>2, PTL DEF FairSpec, Spec

(***************************************************************************)
(* Decisions                                                               *)
(***************************************************************************)

\* Metrics are recorded only of a training job that completed; a decision only
\* with metrics and a comparison.
RecordBacked(j, record) ==
  /\ record.metrics => j \in finished
  /\ record.status \in {"COMPLETED", "REJECTED"} => record.metrics /\ record.better # "unknown"

Backed(snapshot) == \A j \in Jobs : RecordBacked(j, snapshot[j])

CopiesBacked ==
  Backed(redis) /\ Backed(memory["api"]) /\ Backed(memory["worker"]) /\ Backed(api.raw)

\* The object of a pipeline is backed too, though no copy may hold it any more;
\* it has metrics from the comparison on, and the comparison at the decision.
ThreadBacked(j) ==
  /\ RecordBacked(j, thread[j].object)
  /\ thread[j].pc \in {"compare", "result", "decide"} => thread[j].object.metrics
  /\ thread[j].pc = "decide" => thread[j].object.better # "unknown"

DecisionInv ==
  /\ trained \subseteq finished
  /\ CopiesBacked
  /\ \A j \in Jobs : ThreadBacked(j)

LEMMA AbsentBacked == \A j : RecordBacked(j, Absent) /\ RecordBacked(j, Initializing)
BY DEF RecordBacked, Absent, Initializing

LEMMA NothingBacked == Backed(Nothing)
BY AbsentBacked DEF Backed, Nothing

\* _load_state replaces backed copies by backed copies.
LEMMA LoadKeepsBacked ==
  ASSUME TypeInv, CopiesBacked, NEW p \in Processes, NEW alone, Load(p, alone),
         UNCHANGED finished
  PROVE Backed(redis)' /\ Backed(memory["api"])' /\ Backed(memory["worker"])'
<1>1. /\ redis' = redis
      /\ memory'["api"] \in {redis, memory["api"]}
      /\ memory'["worker"] \in {redis, memory["worker"]}
  BY DEF TypeInv, TypeOK, Load, Processes
<1> QED
  BY <1>1 DEF CopiesBacked, Backed, RecordBacked

\* _persist_state of a backed snapshot leaves the key backed.
LEMMA PersistKeepsBacked ==
  ASSUME TypeInv, CopiesBacked, NEW p, NEW copy, NEW snapshot, Persist(p, copy, snapshot),
         UNCHANGED finished, Backed(snapshot)
  PROVE Backed(redis)'
<1>1. redis' \in {redis, snapshot}
  BY DEF Persist
<1> QED
  BY <1>1 DEF CopiesBacked, Backed, RecordBacked

\* One record of a memory replaced by a backed one.
LEMMA MemoryKeepsBacked ==
  ASSUME TypeInv, CopiesBacked, NEW p \in Processes, NEW k \in Jobs, NEW record,
         RecordBacked(k, record), memory' = [memory EXCEPT ![p][k] = record],
         UNCHANGED finished
  PROVE /\ Backed(memory["api"])' /\ Backed(memory["worker"])'
        /\ Backed(memory'[p])
BY DEF TypeInv, TypeOK, Snapshots, Processes, CopiesBacked, Backed, RecordBacked

\* queued says nothing of a decision.
LEMMA QueuedKeepsBacked ==
  ASSUME NEW record \in Records \cup {Absent}, NEW j, RecordBacked(j, record), NEW b
  PROVE RecordBacked(j, [record EXCEPT !.queued = b])
BY DEF RecordBacked, Records, Absent, Initializing

\* What concerns the copies stays backed while the threads rest, and conversely.
LEMMA ApiDecisionStep ==
  ASSUME TypeInv, DecisionInv,
         \/ Construct \/ Refresh \/ Respond \/ RestartApi
         \/ \E j \in Jobs : Trigger(j) \/ RunLoad(j) \/ DeleteLoad(j)
  PROVE DecisionInv'
<1> USE DEF Processes
<1>0. CopiesBacked /\ trained \subseteq finished /\ \A j \in Jobs : ThreadBacked(j)
  BY DEF DecisionInv
<1>1. ASSUME UNCHANGED workers, CopiesBacked' PROVE DecisionInv'
  BY <1>0, <1>1 DEF DecisionInv, workers, ThreadBacked, RecordBacked
<1>2. ASSUME UNCHANGED finished, api' = NoRequest PROVE Backed(api.raw)'
  BY <1>2, NothingBacked DEF NoRequest, Backed, RecordBacked
<1>3. ASSUME UNCHANGED finished, api'.raw = api.raw PROVE Backed(api.raw)'
  BY <1>0, <1>3 DEF CopiesBacked, Backed, RecordBacked
<1>4. CASE Construct
  BY <1>0, <1>1, <1>3, <1>4, LoadKeepsBacked DEF Construct, CopiesBacked, workers
<1>5. CASE Refresh
  BY <1>0, <1>1, <1>3, <1>5, LoadKeepsBacked DEF Refresh, CopiesBacked, workers, requests
<1>6. ASSUME NEW j \in Jobs, RunLoad(j) \/ DeleteLoad(j) PROVE DecisionInv'
  <2>1. Backed(redis)' /\ Backed(memory["api"])' /\ Backed(memory["worker"])'
    BY <1>0, <1>6, LoadKeepsBacked DEF RunLoad, DeleteLoad, workers
  <2>2. Backed(api.raw)'
    BY <1>6, NothingBacked DEF RunLoad, DeleteLoad, NoRequest, Backed, RecordBacked, workers
  <2> QED
    BY <1>1, <1>6, <2>1, <2>2 DEF RunLoad, DeleteLoad, CopiesBacked
<1>7. ASSUME NEW j \in Jobs, Trigger(j) PROVE DecisionInv'
  <2>1. Backed(memory["api"])' /\ Backed(memory["worker"])' /\ Backed(memory'["api"])
    BY <1>0, <1>7, AbsentBacked, MemoryKeepsBacked DEF Trigger, workers
  <2>2. Backed(redis)'
    BY <1>0, <1>7, <2>1, PersistKeepsBacked DEF Trigger, workers
  <2> QED
    BY <1>1, <1>3, <1>7, <2>1, <2>2 DEF Trigger, CopiesBacked, workers
<1>8. ASSUME NEW b, api.job \in Jobs, UNCHANGED workers,
             memory' = [memory EXCEPT !["api"][api.job].queued = b],
             Persist("api", "api", memory'["api"])
      PROVE Backed(redis)' /\ Backed(memory["api"])' /\ Backed(memory["worker"])'
  <2>1. /\ memory["api"][api.job] \in Records \cup {Absent}
        /\ RecordBacked(api.job, memory["api"][api.job])
    BY <1>0, <1>8 DEF TypeInv, TypeOK, Snapshots, CopiesBacked, Backed
  <2>2. Backed(memory["api"])' /\ Backed(memory["worker"])' /\ Backed(memory'["api"])
    BY <1>0, <1>8, <2>1, QueuedKeepsBacked, MemoryKeepsBacked DEF workers
  <2> QED
    BY <1>0, <1>8, <2>2, PersistKeepsBacked DEF workers
<1>9. ASSUME UNCHANGED <<redis, memory, finished>>
      PROVE Backed(redis)' /\ Backed(memory["api"])' /\ Backed(memory["worker"])'
  BY <1>0, <1>9 DEF CopiesBacked, Backed, RecordBacked
<1>10. CASE RunQueue
  <2>1. CASE Runnable(memory["api"][api.job])
    <3>1. api.job \in Jobs /\ api'.raw = api.raw
      BY <1>10, <2>1 DEF RunQueue, TypeInv, TypeOK
    <3> QED
      BY <1>1, <1>3, <1>8, <1>10, <2>1, <3>1 DEF RunQueue, CopiesBacked, workers
  <2>2. CASE ~Runnable(memory["api"][api.job])
    BY <1>1, <1>2, <1>9, <1>10, <2>2 DEF RunQueue, CopiesBacked, workers
  <2> QED
    BY <2>1, <2>2
<1>11. CASE Publish
  BY <1>1, <1>2, <1>9, <1>11 DEF Publish, CopiesBacked, workers
<1>12. CASE PublishFails
  <2>1. api.job \in Jobs
    BY <1>12 DEF PublishFails, TypeInv, TypeOK
  <2> QED
    BY <1>1, <1>2, <1>8, <1>12, <2>1 DEF PublishFails, CopiesBacked, workers
<1>13. CASE DeleteRead
  <2>1. CASE memory["api"][api.job].status \in Terminal
    <3>1. api.job \in Jobs /\ api'.raw = redis /\ UNCHANGED finished /\ redis' = redis
      BY <1>13, <2>1 DEF DeleteRead, TypeInv, TypeOK, workers
    <3>2. Backed(memory["api"])' /\ Backed(memory["worker"])'
      BY <1>0, <1>13, <2>1, <3>1, AbsentBacked, MemoryKeepsBacked DEF DeleteRead
    <3>3. Backed(redis)' /\ Backed(api.raw)'
      BY <1>0, <3>1 DEF CopiesBacked, Backed, RecordBacked
    <3> QED
      BY <1>1, <1>13, <3>2, <3>3 DEF DeleteRead, CopiesBacked
  <2>2. CASE memory["api"][api.job].status \notin Terminal
    BY <1>1, <1>2, <1>9, <1>13, <2>2 DEF DeleteRead, CopiesBacked, workers
  <2> QED
    BY <2>1, <2>2
<1>14. CASE DeleteWrite
  <2>1. Backed([api.raw EXCEPT ![api.job] = Absent])
    BY <1>0, <1>14, AbsentBacked DEF CopiesBacked, Backed, TypeInv, TypeOK, Snapshots
  <2>2. Backed(redis)'
    BY <1>0, <1>14, <2>1, PersistKeepsBacked DEF DeleteWrite, workers
  <2>3. Backed(memory["api"])' /\ Backed(memory["worker"])'
    BY <1>0, <1>14 DEF DeleteWrite, workers, CopiesBacked, Backed, RecordBacked
  <2> QED
    BY <1>1, <1>2, <1>14, <2>2, <2>3 DEF DeleteWrite, CopiesBacked, workers
<1>15. CASE DeleteFallsBack
  <2>1. Backed(redis)' /\ Backed(memory["api"])' /\ Backed(memory["worker"])'
    BY <1>0, <1>15 DEF DeleteFallsBack, workers, CopiesBacked, Backed, RecordBacked
  <2> QED
    BY <1>1, <1>2, <1>15, <2>1 DEF DeleteFallsBack, CopiesBacked, workers
<1>16. CASE RestartApi
  <2>1. memory'["api"] = Nothing /\ memory'["worker"] = memory["worker"]
    BY <1>16 DEF RestartApi, TypeInv, TypeOK
  <2>2. Backed(redis)' /\ Backed(memory["api"])' /\ Backed(memory["worker"])'
    BY <1>0, <1>16, <2>1, NothingBacked DEF RestartApi, workers, CopiesBacked, Backed, RecordBacked
  <2> QED
    BY <1>1, <1>2, <1>16, <2>2 DEF RestartApi, CopiesBacked, workers
<1> QED
  BY <1>4, <1>5, <1>6, <1>7, <1>10, <1>11, <1>12, <1>13, <1>14, <1>15, <1>16 DEF Respond

\* Save leaves everything backed, when what the thread assigned is, and the
\* thread is where it may go with it.
LEMMA SaveDecisionStep ==
  ASSUME TypeInv, DecisionInv, NEW j \in Jobs, NEW record \in Records,
         NEW next \in Steps \cup {"free"}, Save(j, record, next),
         UNCHANGED <<trained, finished>>, RecordBacked(j, record),
         next \in {"compare", "result", "decide"} => record.metrics,
         next = "decide" => record.better # "unknown"
  PROVE DecisionInv'
<1>0. CopiesBacked /\ trained \subseteq finished /\ \A k \in Jobs : ThreadBacked(k)
  BY DEF DecisionInv
<1>1. /\ Backed(memory["api"])' /\ Backed(memory["worker"])'
      /\ Backed(memory'["worker"])
  <2>1. CASE thread[j].held
    BY <1>0, <2>1, MemoryKeepsBacked DEF Save, Processes
  <2>2. CASE ~thread[j].held
    BY <1>0, <2>2 DEF Save, CopiesBacked, Backed, RecordBacked
  <2> QED
    BY <2>1, <2>2
<1>2. Backed(redis)'
  BY <1>0, <1>1, PersistKeepsBacked DEF Save
<1>3. Backed(api.raw)'
  BY <1>0 DEF Save, requests, CopiesBacked, Backed, RecordBacked
<1>4. ASSUME NEW k \in Jobs PROVE ThreadBacked(k)'
  <2>1. CASE k # j
    BY <1>0, <2>1 DEF TypeInv, TypeOK, Save, ThreadBacked, RecordBacked
  <2>2. CASE k = j /\ next = "free"
    <3>1. thread'[k] = Free
      BY <2>2 DEF TypeInv, TypeOK, Save
    <3> QED
      BY <3>1, AbsentBacked DEF ThreadBacked, RecordBacked, Free
  <2>3. CASE k = j /\ next # "free"
    <3>1. thread'[k].object = record /\ thread'[k].pc = next
      BY <2>3 DEF TypeInv, TypeOK, Save
    <3> QED
      BY <2>3, <3>1 DEF ThreadBacked, RecordBacked
  <2> QED
    BY <2>1, <2>2, <2>3
<1> QED
  BY <1>0, <1>1, <1>2, <1>3, <1>4 DEF DecisionInv, CopiesBacked

LEMMA PipelineDecisionStep ==
  ASSUME TypeInv, DecisionInv, NEW j \in Jobs, Pipeline(j) PROVE DecisionInv'
<1>0. /\ CopiesBacked /\ trained \subseteq finished /\ \A k \in Jobs : ThreadBacked(k)
      /\ thread[j].object \in Records \cup {Absent}
  BY DEF DecisionInv, TypeInv, TypeOK
<1>1. ASSUME NEW pc \in Steps \ {"load"}, NEW status \in Active, NEW next \in Steps,
             Enter(j, pc, status, next), next \notin {"compare", "decide"},
             next = "result" => thread[j].object.metrics
      PROVE DecisionInv'
  <2> DEFINE record == [thread[j].object EXCEPT !.status = status, !.queued = FALSE]
  <2>1. record \in Records /\ thread[j].object \in Records
    BY <1>1, ObjectAssigned DEF Enter, Running, TypeInv, TypeOK
  <2>2. record.status = status /\ record.metrics = thread[j].object.metrics
    BY <2>1 DEF Records
  <2>3. RecordBacked(j, record)
    BY <1>0, <2>2 DEF ThreadBacked, RecordBacked, Active
  <2> HIDE DEF record
  <2>4. Save(j, record, next)
    BY <1>1 DEF Enter, record
  <2> QED
    BY <1>1, <2>1, <2>2, <2>3, <2>4, SaveDecisionStep DEF Enter
<1>2. CASE Prepare(j)
  BY <1>1, <1>2 DEF Prepare, Steps, Active
<1>3. CASE Train(j)
  BY <1>1, <1>3 DEF Train, Steps, Active
<1>4. CASE Validate(j)
  BY <1>1, <1>4 DEF Validate, Steps, Active
<1>5. CASE Compare(j)
  BY <1>1, <1>5 DEF Compare, Steps, Active
<1>6. CASE Dispatch(j)
  <2>1. CopiesBacked'
    BY <1>0, <1>6 DEF Dispatch, requests, CopiesBacked, Backed, RecordBacked
  <2>2. \A k \in Jobs : ThreadBacked(k)'
    BY <1>0, <1>6 DEF Dispatch, ThreadBacked, RecordBacked, TypeInv, TypeOK
  <2> QED
    BY <1>0, <1>6, <2>1, <2>2 DEF Dispatch, DecisionInv
<1>7. CASE RecordTraining(j)
  <2> DEFINE record == [thread[j].object EXCEPT !.dispatched = TRUE]
  <2>1. record \in Records /\ thread[j].object \in Records
    BY <1>7, ObjectAssigned DEF RecordTraining, Running, Steps, TypeInv, TypeOK
  <2>2. RecordBacked(j, record)
    BY <1>0, <2>1 DEF ThreadBacked, RecordBacked, Records
  <2> QED
    BY <1>7, <2>1, <2>2, SaveDecisionStep DEF RecordTraining, Steps
<1>8. CASE Check(j)
  <2> DEFINE record == [thread[j].object EXCEPT !.metrics = TRUE]
  <2>1. record \in Records /\ thread[j].object \in Records
    BY <1>8, ObjectAssigned DEF Check, Running, Steps, TypeInv, TypeOK
  <2>2. record.metrics /\ RecordBacked(j, record)
    BY <1>0, <1>8, <2>1 DEF Check, ThreadBacked, RecordBacked, Records
  <2> QED
    BY <1>8, <2>1, <2>2, SaveDecisionStep DEF Check, Steps
<1>9. CASE Result(j)
  <2>1. PICK better \in {"yes", "no"} : Save(j, [thread[j].object EXCEPT !.better = better], "decide")
    BY <1>9 DEF Result
  <2> DEFINE record == [thread[j].object EXCEPT !.better = better]
  <2>2. record \in Records /\ thread[j].object \in Records
    BY <1>9, ObjectAssigned DEF Result, Running, Steps, TypeInv, TypeOK
  <2>3. record.metrics /\ record.better # "unknown" /\ RecordBacked(j, record)
    BY <1>0, <1>9, <2>2 DEF Result, ThreadBacked, RecordBacked, Records
  <2> QED
    BY <1>9, <2>1, <2>2, <2>3, SaveDecisionStep DEF Result, Steps
<1>10. ASSUME NEW status \in Terminal, Running(j),
              Save(j, [thread[j].object EXCEPT !.status = status], "free"),
              status # "FAILED" => thread[j].pc = "decide",
              UNCHANGED <<trained, finished>>
       PROVE DecisionInv'
  <2> DEFINE record == [thread[j].object EXCEPT !.status = status]
  <2>1. record \in Records /\ thread[j].object \in Records
    BY <1>10, ObjectAssigned DEF TypeInv, TypeOK
  <2>2. RecordBacked(j, record)
    BY <1>0, <1>10, <2>1 DEF ThreadBacked, RecordBacked, Records, Terminal
  <2> QED
    BY <1>10, <2>1, <2>2, SaveDecisionStep
<1>11. CASE Decide(j)
  BY <1>10, <1>11 DEF Decide, Running, Steps, Terminal
<1>12. CASE Raise(j)
  BY <1>10, <1>12 DEF Raise, Running, Steps, Terminal
<1>13. CASE Begin(j)
  <2>1. /\ Backed(redis)' /\ Backed(memory["api"])' /\ Backed(memory["worker"])'
        /\ UNCHANGED <<trained, finished, requests>>
    BY <1>0, <1>13, LoadKeepsBacked DEF Begin, Processes
  <2>2. Backed(api.raw)'
    BY <1>0, <2>1 DEF requests, CopiesBacked, Backed, RecordBacked
  <2>3. /\ \/ thread'[j] = Free
           \/ thread'[j].pc = "prepare" /\ thread'[j].object = memory'["worker"][j]
        /\ \A k \in Jobs \ {j} : thread'[k].pc = thread[k].pc /\ thread'[k].object = thread[k].object
    <3> DEFINE loaded == stored /\ faults' = faults
               others == [k \in Jobs |-> [thread[k] EXCEPT !.held = @ /\ ~loaded]]
    <3>1. \/ thread' = [others EXCEPT ![j] = Free]
          \/ thread' = [others EXCEPT ![j] = [pc |-> "prepare", object |-> memory'["worker"][j],
                                             held |-> TRUE]]
      BY <1>13, Zenon DEF Begin
    <3>2. \A k \in Jobs : others[k].pc = thread[k].pc /\ others[k].object = thread[k].object
      <4> HIDE DEF loaded
      <4> QED
        BY DEF TypeInv, TypeOK
    <3>3. DOMAIN others = Jobs
      OBVIOUS
    <3> HIDE DEF others
    <3> QED
      BY <3>1, <3>2, <3>3
  <2>4. ASSUME NEW k \in Jobs PROVE ThreadBacked(k)'
    BY <1>0, <2>1, <2>3, AbsentBacked DEF ThreadBacked, RecordBacked, Backed, Free
  <2> QED
    BY <1>0, <2>1, <2>2, <2>4 DEF DecisionInv, CopiesBacked
<1> QED
  BY <1>2, <1>3, <1>4, <1>5, <1>6, <1>7, <1>8, <1>9, <1>11, <1>12, <1>13 DEF Pipeline

LEMMA WorkerDecisionStep ==
  ASSUME TypeInv, DecisionInv, RestartWorker \/ \E j \in Jobs : Launch(j) \/ TrainingMoves(j)
  PROVE DecisionInv'
<1>0. CopiesBacked /\ trained \subseteq finished /\ \A k \in Jobs : ThreadBacked(k)
  BY DEF DecisionInv
<1>1. ASSUME NEW j \in Jobs, Launch(j) PROVE DecisionInv'
  <2>1. CopiesBacked'
    BY <1>0, <1>1 DEF Launch, requests, CopiesBacked, Backed, RecordBacked
  <2>2. \A k \in Jobs : ThreadBacked(k)'
    BY <1>0, <1>1 DEF Launch, ThreadBacked, RecordBacked, TypeInv, TypeOK
  <2> QED
    BY <1>0, <1>1, <2>1, <2>2 DEF Launch, DecisionInv
<1>2. ASSUME NEW j \in Jobs, TrainingMoves(j) PROVE DecisionInv'
  <2>1. finished \subseteq finished' /\ trained' \subseteq finished'
    BY <1>0, <1>2 DEF TrainingMoves
  <2>2. CopiesBacked'
    BY <1>0, <1>2, <2>1 DEF TrainingMoves, requests, CopiesBacked, Backed, RecordBacked
  <2>3. \A k \in Jobs : ThreadBacked(k)'
    BY <1>0, <1>2, <2>1 DEF TrainingMoves, ThreadBacked, RecordBacked
  <2> QED
    BY <2>1, <2>2, <2>3 DEF DecisionInv
<1>3. CASE RestartWorker
  <2>1. memory'["worker"] = Nothing /\ memory'["api"] = memory["api"]
    BY <1>3 DEF RestartWorker, TypeInv, TypeOK
  <2>2. CopiesBacked'
    BY <1>0, <1>3, <2>1, NothingBacked
    DEF RestartWorker, requests, CopiesBacked, Backed, RecordBacked
  <2>3. \A k \in Jobs : ThreadBacked(k)'
    BY <1>3, AbsentBacked DEF RestartWorker, ThreadBacked, RecordBacked, Free
  <2> QED
    BY <1>0, <1>3, <2>2, <2>3 DEF RestartWorker, DecisionInv
<1> QED
  BY <1>1, <1>2, <1>3

\* A job that any copy shows as decided was decided on the metrics of a training
\* job that had completed, whatever copies overwrote each other.
THEOREM DecisionsAreBacked == FairSpec => []DecisionBacked
<1>1. Init => DecisionInv
  BY NothingBacked, AbsentBacked
  DEF Init, DecisionInv, CopiesBacked, ThreadBacked, NoRequest, Free
<1>2. TypeInv /\ DecisionInv /\ [Next]_vars => DecisionInv'
  <2>1. ASSUME DecisionInv, UNCHANGED vars PROVE DecisionInv'
    BY <2>1 DEF DecisionInv, CopiesBacked, Backed, ThreadBacked, RecordBacked, vars,
                requests, workers
  <2>2. ASSUME TypeInv, DecisionInv, Next PROVE DecisionInv'
    BY <2>2, ApiDecisionStep, PipelineDecisionStep, WorkerDecisionStep DEF Next, Worker
  <2> QED
    BY <2>1, <2>2
<1>3. DecisionInv => DecisionBacked
  BY DEF DecisionInv, CopiesBacked, Backed, RecordBacked, DecisionBacked, Showing
<1> QED
  BY <1>1, <1>2, <1>3, TypeCorrect, PTL DEF FairSpec, Spec

(***************************************************************************)
(* The snapshot is true while nobody disturbed it.  A job goes through     *)
(* four phases; in each, its record in the snapshot, its messages, its     *)
(* thread and what clients were told agree.                                *)
(***************************************************************************)
Publishing(j) == api.pc = "publish" /\ api.job = j

Unknown(j) ==
  /\ life[j] = "new" /\ redis[j] = Absent /\ runs[j] = 0
  /\ queue[j] = 0 /\ thread[j] = Free /\ ~Publishing(j)

\* Triggered; once it is queued, one message or a thread that starts is its.
Waiting(j) ==
  /\ life[j] = "live" /\ redis[j].status = "PENDING" /\ runs[j] = 0
  /\ \/ redis[j].queued /\ Publishing(j) /\ queue[j] = 0 /\ thread[j] = Free
     \/ redis[j].queued /\ ~Publishing(j) /\ queue[j] = 1 /\ thread[j] = Free
     \/ redis[j].queued /\ ~Publishing(j) /\ queue[j] = 0
          /\ thread[j] = [Free EXCEPT !.pc = "load"]
     \/ ~redis[j].queued /\ ~Publishing(j) /\ queue[j] = 0 /\ thread[j] = Free

\* Its pipeline runs, and holds the object the worker's memory has.
InHand(j) ==
  /\ life[j] = "live" /\ redis[j] = thread[j].object /\ runs[j] = 1
  /\ queue[j] = 0 /\ Running(j) /\ thread[j].held /\ ~Publishing(j)
  /\ \/ thread[j].pc = "prepare" /\ redis[j].status = "PENDING" /\ redis[j].queued
     \/ thread[j].pc # "prepare" /\ redis[j].status \in Active /\ ~redis[j].queued

Over(j) ==
  /\ runs[j] = 1 /\ queue[j] = 0 /\ thread[j] = Free /\ ~Publishing(j)
  /\ \/ life[j] = "live" /\ redis[j].status \in Terminal /\ ~redis[j].queued
     \/ life[j] = "deleted" /\ redis[j] = Absent

\* What holds with faults too: of a key never written, and of an API that has
\* not constructed its singleton.
KeyInv == ~stored => redis = Nothing /\ behind = {}
SingletonInv == ~built => memory["api"] = Nothing /\ api = NoRequest

\* A copy nobody wrote over since it was read is the snapshot, but for the job
\* a deletion has taken from the memory and not yet from the snapshot.
ApiCurrent ==
  built /\ "api" \notin behind =>
    memory["api"] = IF api.pc = "filter" THEN [redis EXCEPT ![api.job] = Absent] ELSE redis
RawCurrent == api.pc = "filter" /\ "raw" \notin behind => api.raw = redis
WorkerCurrent == \A j \in Jobs : Running(j) /\ "worker" \notin behind => memory["worker"] = redis

Phases == \A j \in Jobs : Unknown(j) \/ Waiting(j) \/ InHand(j) \/ Over(j)

\* A job the API knows to be over is.
OverKnown ==
  /\ api.pc = "filter" => Over(api.job)
  /\ \A j \in Jobs : memory["api"][j].status \in Terminal => Over(j)

CleanInv == ApiCurrent /\ RawCurrent /\ WorkerCurrent /\ Phases /\ OverKnown

TrueInv == KeyInv /\ SingletonInv /\ (clean => CleanInv)

\* A phase is about one job's state and the request in progress.
LEMMA PhaseKept ==
  ASSUME NEW j \in Jobs, life'[j] = life[j], redis'[j] = redis[j], runs'[j] = runs[j],
         queue'[j] = queue[j], thread'[j] = thread[j], Publishing(j)' <=> Publishing(j)
  PROVE /\ Unknown(j) => Unknown(j)'
        /\ Waiting(j) => Waiting(j)'
        /\ InHand(j) => InHand(j)'
        /\ Over(j) => Over(j)'
<1>1. Unknown(j) => Unknown(j)'
  BY DEF Unknown
<1>2. Waiting(j) => Waiting(j)'
  BY DEF Waiting
<1>3. InHand(j) => InHand(j)'
  BY DEF InHand, Running
<1>4. Over(j) => Over(j)'
  BY DEF Over
<1> QED
  BY <1>1, <1>2, <1>3, <1>4

\* The marks a record of each phase has.
LEMMA PhaseMarks ==
  ASSUME NEW j \in Jobs, Unknown(j) \/ Waiting(j) \/ InHand(j) \/ Over(j)
  PROVE /\ life[j] = "new" => Unknown(j)
        /\ redis[j].status \in Terminal => Over(j)
        /\ Publishing(j) => Waiting(j) /\ queue[j] = 0 /\ thread[j] = Free /\ redis[j].queued
        /\ Running(j) => InHand(j)
        /\ thread[j].pc = "load" => Waiting(j) /\ thread[j] = [Free EXCEPT !.pc = "load"]
        /\ queue[j] > 0 => Waiting(j) /\ queue[j] = 1
        /\ thread[j] = Free \/ thread[j] = [Free EXCEPT !.pc = "load"] \/ Running(j)
BY DEF Unknown, Waiting, InHand, Over, Absent, Initializing, Terminal, Active, Running, Free, Steps

\* A load, or a persist, that leaves the run clean did what it should.
LEMMA LoadClean ==
  ASSUME NEW p, NEW alone, Load(p, alone), clean'
  PROVE /\ clean /\ alone
        /\ memory' = IF stored THEN [memory EXCEPT ![p] = redis] ELSE memory
        /\ behind' = behind \ {p} /\ UNCHANGED <<redis, stored, faults>>
BY Zenon DEF Load

LEMMA PersistClean ==
  ASSUME NEW p, NEW copy, NEW snapshot, Persist(p, copy, snapshot), clean'
  PROVE /\ clean /\ copy \notin behind
        /\ redis' = snapshot /\ stored' = TRUE
        /\ behind' = behind \cup (IF p = "api" THEN {"worker"} ELSE {"api", "raw"})
BY Zenon DEF Persist

\* The key is known to be unwritten or not, with faults too.
LEMMA LoadKeepsKey ==
  ASSUME KeyInv, NEW p, NEW alone, Load(p, alone) PROVE KeyInv'
BY Zenon DEF KeyInv, Load

LEMMA PersistKeepsKey ==
  ASSUME KeyInv, NEW p, NEW copy, NEW snapshot, Persist(p, copy, snapshot) PROVE KeyInv'
BY Zenon DEF KeyInv, Persist

LEMMA KeyStep == ASSUME TypeInv, KeyInv, Next PROVE KeyInv'
<1>1. ASSUME NEW j \in Jobs, NEW record, NEW next, Save(j, record, next) PROVE KeyInv'
  BY <1>1, PersistKeepsKey, Zenon DEF Save
<1>2. ASSUME NEW j \in Jobs, Pipeline(j) PROVE KeyInv'
  <2>1. CASE Begin(j)
    BY <2>1, LoadKeepsKey, Zenon DEF Begin
  <2>2. CASE Dispatch(j)
    BY <2>2, Zenon DEF Dispatch, KeyInv
  <2> QED
    BY <1>1, <1>2, <2>1, <2>2, Zenon
    DEF Pipeline, Enter, Prepare, Train, RecordTraining, Validate, Check, Compare, Result,
        Decide, Raise
<1>3. CASE Respond
  <2>1. CASE RunQueue
    BY <2>1, PersistKeepsKey, Zenon DEF RunQueue, KeyInv
  <2>2. CASE Publish
    BY <2>2, Zenon DEF Publish, KeyInv
  <2>3. CASE PublishFails
    BY <2>3, PersistKeepsKey, Zenon DEF PublishFails
  <2>4. CASE DeleteRead
    <3>1. behind' \subseteq behind /\ UNCHANGED <<redis, stored>>
      BY <2>4 DEF DeleteRead
    <3> QED
      BY <3>1 DEF KeyInv
  <2>5. CASE DeleteWrite
    BY <2>5, PersistKeepsKey, Zenon DEF DeleteWrite
  <2>6. CASE DeleteFallsBack
    BY <2>6, Zenon DEF DeleteFallsBack, KeyInv
  <2> QED
    BY <1>3, <2>1, <2>2, <2>3, <2>4, <2>5, <2>6 DEF Respond
<1>4. ASSUME NEW j \in Jobs, Trigger(j) \/ RunLoad(j) \/ DeleteLoad(j) PROVE KeyInv'
  BY <1>4, LoadKeepsKey, PersistKeepsKey, Zenon DEF Trigger, RunLoad, DeleteLoad
<1>5. ASSUME NEW j \in Jobs, TrainingMoves(j) \/ Launch(j) PROVE KeyInv'
  BY <1>5, Zenon DEF TrainingMoves, Launch, KeyInv
<1>6. CASE RestartApi \/ RestartWorker
  BY <1>6, Zenon DEF RestartApi, RestartWorker, KeyInv
<1>7. CASE Construct \/ Refresh
  BY <1>7, LoadKeepsKey, Zenon DEF Construct, Refresh
<1> QED
  BY <1>2, <1>3, <1>4, <1>5, <1>6, <1>7 DEF Next, Worker

LEMMA SingletonStep == ASSUME TypeInv, SingletonInv, Next PROVE SingletonInv'
<1>2. ASSUME memory'["api"] = memory["api"], UNCHANGED requests PROVE SingletonInv'
  BY <1>2 DEF SingletonInv, requests
<1>3. ASSUME NEW j \in Jobs, NEW record, NEW next, Save(j, record, next) PROVE SingletonInv'
  <2>1. memory'["api"] = memory["api"]
    BY <1>3 DEF Save, TypeInv, TypeOK
  <2> QED
    BY <1>2, <1>3, <2>1, Zenon DEF Save
<1>4. ASSUME NEW j \in Jobs, Pipeline(j) PROVE SingletonInv'
  <2>1. CASE Begin(j)
    <3>1. memory'["api"] = memory["api"]
      BY <2>1 DEF Begin, Load, TypeInv, TypeOK
    <3> QED
      BY <1>2, <2>1, <3>1, Zenon DEF Begin
  <2>2. CASE Dispatch(j)
    BY <1>2, <2>2, Zenon DEF Dispatch
  <2> QED
    BY <1>3, <1>4, <2>1, <2>2, Zenon
    DEF Pipeline, Enter, Prepare, Train, RecordTraining, Validate, Check, Compare, Result,
        Decide, Raise
<1>5. ASSUME NEW j \in Jobs, TrainingMoves(j) \/ Launch(j) PROVE SingletonInv'
  BY <1>2, <1>5, Zenon DEF TrainingMoves, Launch
<1>6. CASE RestartWorker
  BY <1>2, <1>6 DEF RestartWorker, TypeInv, TypeOK
<1>7. CASE RestartApi
  BY <1>7 DEF RestartApi, TypeInv, TypeOK, SingletonInv
<1>8. CASE Construct \/ Refresh
  <2>1. CASE Construct
    BY <2>1, Zenon DEF Construct, SingletonInv
  <2>2. CASE Refresh
    <3>1. built' = built /\ built
      BY <2>2 DEF Refresh, requests
    <3> QED
      BY <3>1, Zenon DEF SingletonInv
  <2> QED
    BY <1>8, <2>1, <2>2
<1>9. CASE Respond
  BY <1>9 DEF Respond, RunQueue, Publish, PublishFails, DeleteRead, DeleteWrite,
     DeleteFallsBack, SingletonInv, NoRequest
<1>10. ASSUME NEW j \in Jobs, Trigger(j) \/ RunLoad(j) \/ DeleteLoad(j) PROVE SingletonInv'
  <2>1. built' = built /\ built
    BY <1>10 DEF Trigger, RunLoad, DeleteLoad
  <2> QED
    BY <2>1, Zenon DEF SingletonInv
<1> QED
  BY <1>4, <1>5, <1>6, <1>7, <1>8, <1>9, <1>10 DEF Next, Worker

\* A load of the API makes its memory the snapshot, an unwritten key being an
\* empty one.
LEMMA LoadedByApi ==
  ASSUME TypeInv, TrueInv, clean', Load("api", TRUE), api = NoRequest,
         api'.pc \in {"idle", "run", "delete"}, UNCHANGED <<life, queue, workers>>
  PROVE CleanInv'
<1>1. /\ clean /\ memory' = IF stored THEN [memory EXCEPT !["api"] = redis] ELSE memory
      /\ behind' = behind \ {"api"} /\ UNCHANGED <<redis, stored, faults>>
  BY LoadClean, Zenon
<1>2. CleanInv /\ KeyInv /\ SingletonInv
  BY <1>1, Zenon DEF TrueInv
<1>3. memory'["api"] = redis /\ memory'["worker"] = memory["worker"]
  <2>1. CASE stored
    BY <1>1, <2>1 DEF TypeInv, TypeOK
  <2>2. CASE ~stored
    <3>1. redis = Nothing /\ "api" \notin behind /\ memory' = memory
      BY <1>1, <1>2, <2>2, Zenon DEF KeyInv
    <3>2. CASE built
      BY <1>2, <3>1, <3>2 DEF CleanInv, ApiCurrent, NoRequest
    <3>3. CASE ~built
      BY <1>2, <3>1, <3>3 DEF SingletonInv
    <3> QED
      BY <3>1, <3>2, <3>3
  <2> QED
    BY <2>1, <2>2
<1>4. ASSUME NEW j \in Jobs
      PROVE /\ Unknown(j)' \/ Waiting(j)' \/ InHand(j)' \/ Over(j)'
            /\ Over(j) => Over(j)'
  <2>1. Publishing(j)' <=> Publishing(j)
    BY DEF Publishing, NoRequest
  <2> QED
    BY <1>1, <1>2, <2>1, PhaseKept DEF CleanInv, Phases, workers
<1>5. \A j \in Jobs : redis[j].status \in Terminal => Over(j)'
  BY <1>2, <1>4, PhaseMarks DEF CleanInv, Phases
<1>6. ApiCurrent' /\ RawCurrent'
  BY <1>1, <1>3 DEF ApiCurrent, RawCurrent
<1>7. WorkerCurrent'
  BY <1>1, <1>2, <1>3 DEF CleanInv, WorkerCurrent, Running, workers
<1>8. Phases' /\ OverKnown'
  BY <1>3, <1>4, <1>5 DEF Phases, OverKnown
<1> QED
  BY <1>6, <1>7, <1>8 DEF CleanInv

\* A request that is made, published, or only ends, leaves the current copies.
LEMMA TriggerTrue ==
  ASSUME TypeInv, TrueInv, clean', NEW j \in Jobs, Trigger(j) PROVE CleanInv'
<1>1. /\ clean /\ "api" \notin behind /\ redis' = memory'["api"]
      /\ behind' = behind \cup {"worker"}
  BY PersistClean DEF Trigger
<1>2. CleanInv /\ redis \in Snapshots /\ memory \in [{"api", "worker"} -> Snapshots]
  BY <1>1 DEF TrueInv, TypeInv, TypeOK
<1>3. memory["api"] = redis
  BY <1>1, <1>2 DEF CleanInv, ApiCurrent, Trigger, NoRequest
<1>4. /\ redis'[j] = Initializing /\ \A k \in Jobs \ {j} : redis'[k] = redis[k]
      /\ memory'["api"] = redis'
  BY <1>1, <1>2, <1>3 DEF Trigger, Snapshots
<1>5. life'[j] = "live" /\ \A k \in Jobs \ {j} : life'[k] = life[k]
  BY DEF Trigger, TypeInv, TypeOK
<1>6. \A k \in Jobs : ~Publishing(k) /\ ~Publishing(k)'
  BY DEF Trigger, Publishing, NoRequest
<1>7. Waiting(j)'
  <2>1. Unknown(j)
    BY <1>2, PhaseMarks DEF Trigger, CleanInv, Phases
  <2> QED
    BY <1>4, <1>5, <1>6, <2>1 DEF Trigger, workers, Waiting, Unknown, Initializing
<1>8. ASSUME NEW k \in Jobs \ {j}
      PROVE /\ Unknown(k)' \/ Waiting(k)' \/ InHand(k)' \/ Over(k)'
            /\ Over(k) => Over(k)'
  <2>1. Publishing(k)' <=> Publishing(k)
    BY <1>6
  <2> QED
    BY <1>2, <1>4, <1>5, <2>1, PhaseKept DEF Trigger, CleanInv, Phases, workers
<1>9. Phases'
  BY <1>7, <1>8 DEF Phases
<1>10. OverKnown'
  <2>1. redis'[j].status \notin Terminal /\ api'.pc # "filter"
    BY <1>4 DEF Initializing, Terminal, Trigger, NoRequest
  <2> QED
    BY <1>2, <1>3, <1>4, <1>8, <2>1 DEF CleanInv, OverKnown
<1>11. ApiCurrent' /\ RawCurrent' /\ WorkerCurrent'
  BY <1>1, <1>4 DEF ApiCurrent, RawCurrent, WorkerCurrent, Trigger, NoRequest
<1> QED
  BY <1>9, <1>10, <1>11 DEF CleanInv

\* The API marks its current copy and persists it, about one job.
LEMMA MarkTrue ==
  ASSUME TypeInv, TrueInv, clean', NEW j \in Jobs, NEW b \in BOOLEAN, j = api.job,
         memory' = [memory EXCEPT !["api"][j].queued = b],
         Persist("api", "api", memory'["api"]), api.pc \in {"run", "publish"}, built,
         UNCHANGED <<life, queue, workers>>
  PROVE /\ clean /\ CleanInv /\ memory["api"] = redis
        /\ redis'[j] = [redis[j] EXCEPT !.queued = b]
        /\ api'.pc \in {"idle", "publish"} /\ api'.job \in {j, NoJob} /\ Waiting(j)' => CleanInv'
<1>1. /\ clean /\ "api" \notin behind /\ redis' = memory'["api"]
      /\ behind' = behind \cup {"worker"}
  BY PersistClean
<1>2. CleanInv /\ redis \in Snapshots /\ memory \in [{"api", "worker"} -> Snapshots]
  BY <1>1 DEF TrueInv, TypeInv, TypeOK
<1>3. memory["api"] = redis
  BY <1>1, <1>2 DEF CleanInv, ApiCurrent
<1>4. /\ redis'[j] = [redis[j] EXCEPT !.queued = b]
      /\ \A k \in Jobs \ {j} : redis'[k] = redis[k]
      /\ memory'["api"] = redis'
  BY <1>1, <1>2, <1>3 DEF Snapshots
<1> SUFFICES ASSUME api'.pc \in {"idle", "publish"}, api'.job \in {j, NoJob}, Waiting(j)'
             PROVE CleanInv'
  BY <1>1, <1>2, <1>3, <1>4
<1>5. ASSUME NEW k \in Jobs \ {j}
      PROVE /\ Unknown(k)' \/ Waiting(k)' \/ InHand(k)' \/ Over(k)'
            /\ Over(k) => Over(k)'
  <2>1. Publishing(k)' <=> Publishing(k)
    BY RetrainingAssumption DEF Publishing
  <2> QED
    BY <1>2, <1>4, <2>1, PhaseKept DEF CleanInv, Phases, workers
<1>6. Phases'
  BY <1>5 DEF Phases
<1>7. redis'[j].status \notin Terminal
  BY DEF Waiting, Terminal
<1>8. OverKnown'
  BY <1>2, <1>3, <1>4, <1>5, <1>7 DEF CleanInv, OverKnown
<1>9. ApiCurrent' /\ RawCurrent' /\ WorkerCurrent'
  BY <1>1, <1>4 DEF ApiCurrent, RawCurrent, WorkerCurrent
<1> QED
  BY <1>6, <1>8, <1>9 DEF CleanInv

LEMMA RunQueueTrue == ASSUME TypeInv, TrueInv, clean', RunQueue PROVE CleanInv'
<1>0. api # NoRequest /\ api.job \in Jobs
  BY DEF RunQueue, NoRequest, TypeInv, TypeOK
<1>1. built
  BY <1>0, Zenon DEF TrueInv, SingletonInv
<1> PICK j \in Jobs : j = api.job
  BY <1>0
<1>2. CASE Runnable(memory["api"][j])
  <2>1. /\ memory' = [memory EXCEPT !["api"][j].queued = TRUE]
        /\ Persist("api", "api", memory'["api"]) /\ api.pc = "run"
        /\ UNCHANGED <<life, queue, workers>>
    BY <1>2, Zenon DEF RunQueue
  <2>2. /\ clean /\ CleanInv /\ memory["api"] = redis
        /\ redis'[j] = [redis[j] EXCEPT !.queued = TRUE]
        /\ api'.pc \in {"idle", "publish"} /\ api'.job \in {j, NoJob} /\ Waiting(j)'
             => CleanInv'
    BY <1>1, <2>1, MarkTrue, TRUE \in BOOLEAN
  <2>3. /\ Unknown(j) \/ Waiting(j) \/ InHand(j) \/ Over(j)
        /\ redis[j].status = "PENDING" /\ ~redis[j].queued
        /\ redis[j] \in Records \cup {Absent}
    BY <1>1, <1>2, <2>2 DEF Runnable, CleanInv, Phases, TypeInv, TypeOK, Snapshots
  <2>4. Waiting(j)
    BY <2>3 DEF Unknown, Waiting, InHand, Over, Absent, Initializing, Terminal, Active
  <2>5. redis'[j].status = "PENDING" /\ redis'[j].queued
    BY <2>2, <2>3 DEF Records, Absent, Initializing
  <2>6. api' = [api EXCEPT !.pc = "publish"] /\ UNCHANGED <<life, queue, workers>>
    BY <1>2 DEF RunQueue
  <2>7. api'.pc = "publish" /\ api'.job = j
    BY <2>6 DEF TypeInv, TypeOK
  <2>8. Waiting(j)'
    BY <2>3, <2>4, <2>5, <2>6, <2>7 DEF Waiting, Publishing, workers
  <2> QED
    BY <2>2, <2>7, <2>8
<1>3. CASE ~Runnable(memory["api"][api.job])
  <2>1. /\ UNCHANGED <<redis, memory, behind, clean, built, life, queue, workers>>
        /\ api' = NoRequest /\ api.pc = "run"
    BY <1>3 DEF RunQueue
  <2>2. CleanInv
    BY <2>1, Zenon DEF TrueInv
  <2>3. ASSUME NEW k \in Jobs
        PROVE /\ Unknown(k)' \/ Waiting(k)' \/ InHand(k)' \/ Over(k)'
              /\ Over(k) => Over(k)'
    <3>1. Publishing(k)' <=> Publishing(k)
      BY <2>1 DEF Publishing, NoRequest
    <3> QED
      BY <2>1, <2>2, <3>1, PhaseKept DEF CleanInv, Phases, workers
  <2>4. ApiCurrent' /\ RawCurrent' /\ WorkerCurrent'
    BY <2>1, <2>2 DEF CleanInv, ApiCurrent, RawCurrent, WorkerCurrent, Running, workers, NoRequest
  <2>5. Phases' /\ OverKnown'
    BY <2>1, <2>2, <2>3 DEF Phases, CleanInv, OverKnown, NoRequest
  <2> QED
    BY <2>4, <2>5 DEF CleanInv
<1> QED
  BY <1>2, <1>3

\* The message goes out, or the mark is taken back.
LEMMA PublishTrue == ASSUME TypeInv, TrueInv, clean', Publish PROVE CleanInv'
<1>1. CleanInv /\ api.job \in Jobs
  BY Zenon DEF Publish, TrueInv, TypeInv, TypeOK
<1>2. Waiting(api.job) /\ queue[api.job] = 0 /\ thread[api.job] = Free /\ redis[api.job].queued
  BY <1>1, PhaseMarks DEF Publish, CleanInv, Phases, Publishing
<1>3. ASSUME NEW k \in Jobs
      PROVE /\ Unknown(k)' \/ Waiting(k)' \/ InHand(k)' \/ Over(k)'
            /\ Over(k) => Over(k)'
  <2>1. CASE k = api.job
    <3>1. Waiting(k)'
      BY <1>1, <1>2, <2>1
      DEF Publish, Waiting, Publishing, NoRequest, workers, TypeInv, TypeOK
    <3>2. ~Over(k)
      BY <1>2, <2>1 DEF Over, Waiting
    <3> QED
      BY <3>1, <3>2
  <2>2. CASE k # api.job
    <3>1. (Publishing(k)' <=> Publishing(k)) /\ queue'[k] = queue[k]
      BY <2>2 DEF Publish, Publishing, NoRequest, TypeInv, TypeOK
    <3> QED
      BY <1>1, <3>1, PhaseKept DEF Publish, CleanInv, Phases, workers
  <2> QED
    BY <2>1, <2>2
<1>4. ApiCurrent' /\ RawCurrent' /\ WorkerCurrent'
  BY <1>1 DEF Publish, CleanInv, ApiCurrent, RawCurrent, WorkerCurrent, Running, workers, NoRequest
<1>5. Phases' /\ OverKnown'
  BY <1>1, <1>3 DEF Publish, Phases, CleanInv, OverKnown, NoRequest
<1> QED
  BY <1>4, <1>5 DEF CleanInv

LEMMA PublishFailsTrue == ASSUME TypeInv, TrueInv, clean', PublishFails PROVE CleanInv'
<1>0. api # NoRequest /\ api.job \in Jobs
  BY DEF PublishFails, NoRequest, TypeInv, TypeOK
<1>1. built
  BY <1>0, Zenon DEF TrueInv, SingletonInv
<1> PICK j \in Jobs : j = api.job
  BY <1>0
<1>2. /\ memory' = [memory EXCEPT !["api"][j].queued = FALSE]
      /\ Persist("api", "api", memory'["api"]) /\ api.pc = "publish"
      /\ UNCHANGED <<life, queue, workers>> /\ api' = NoRequest
  BY Zenon DEF PublishFails
<1>3. /\ clean /\ CleanInv /\ memory["api"] = redis
      /\ redis'[j] = [redis[j] EXCEPT !.queued = FALSE]
      /\ api'.pc \in {"idle", "publish"} /\ api'.job \in {j, NoJob} /\ Waiting(j)'
           => CleanInv'
  BY <1>1, <1>2, MarkTrue, TRUE \in BOOLEAN, FALSE \in BOOLEAN
<1>4. /\ Waiting(j) /\ queue[j] = 0 /\ thread[j] = Free
      /\ redis[j] \in Records \cup {Absent}
  BY <1>1, <1>3, PhaseMarks
  DEF PublishFails, CleanInv, Phases, Publishing, TypeInv, TypeOK, Snapshots
<1>5. redis'[j].status = "PENDING" /\ ~redis'[j].queued
  BY <1>3, <1>4 DEF Records, Absent, Initializing, Waiting
<1>6. Waiting(j)'
  BY <1>4, <1>5, <1>2 DEF Waiting, Publishing, NoRequest, workers
<1> QED
  BY <1>3, <1>6, <1>2 DEF NoRequest

\* Deleting: the two steps between which another process may write.
LEMMA DeleteReadTrue == ASSUME TypeInv, TrueInv, clean', DeleteRead PROVE CleanInv'
<1>0. api # NoRequest /\ api.job \in Jobs
  BY DEF DeleteRead, NoRequest, TypeInv, TypeOK
<1> PICK j \in Jobs : j = api.job
  BY <1>0
<1>1. UNCHANGED <<redis, life, queue, workers, built, clean>>
  BY Zenon DEF DeleteRead
<1>2. CleanInv
  BY <1>1, Zenon DEF TrueInv
<1>3. api.pc = "delete" /\ api'.pc \in {"idle", "filter"}
  <2>1. api' = NoRequest \/ api' = [api EXCEPT !.pc = "filter", !.raw = redis]
    BY Zenon DEF DeleteRead
  <2>2. api.pc = "delete"
    BY Zenon DEF DeleteRead
  <2>3. api \in [pc : {"idle", "run", "publish", "delete", "filter"},
                 job : Jobs \cup {NoJob}, raw : Snapshots]
    BY DEF TypeInv, TypeOK
  <2>4. NoRequest.pc = "idle" /\ [api EXCEPT !.pc = "filter", !.raw = redis].pc = "filter"
    BY <2>3 DEF NoRequest
  <2> QED
    BY <2>1, <2>2, <2>4
<1>4. ASSUME NEW k \in Jobs
      PROVE /\ Unknown(k)' \/ Waiting(k)' \/ InHand(k)' \/ Over(k)'
            /\ Over(k) => Over(k)'
  <2>1. Publishing(k)' <=> Publishing(k)
    BY <1>3 DEF Publishing
  <2> QED
    BY <1>1, <1>2, <2>1, PhaseKept DEF CleanInv, Phases, workers
<1>5. CASE memory["api"][j].status \in Terminal
  <2>1. /\ api' = [api EXCEPT !.pc = "filter", !.raw = redis] /\ behind' = behind \ {"raw"}
        /\ memory' = [memory EXCEPT !["api"][j] = Absent]
    BY <1>5 DEF DeleteRead
  <2>2. /\ api'.pc = "filter" /\ api'.job = j /\ api'.raw = redis
        /\ memory'["worker"] = memory["worker"]
        /\ memory'["api"] = [memory["api"] EXCEPT ![j] = Absent]
    BY <2>1 DEF TypeInv, TypeOK
  <2>3. ApiCurrent' /\ RawCurrent' /\ WorkerCurrent'
    BY <1>1, <1>2, <1>3, <2>1, <2>2
    DEF CleanInv, ApiCurrent, RawCurrent, WorkerCurrent, Running, workers
  <2>4. \A k \in Jobs : memory'["api"][k].status \in Terminal => memory["api"][k].status \in Terminal
    BY <2>2 DEF TypeInv, TypeOK, Snapshots, Absent, Initializing, Terminal
  <2>5. Over(j)'
    BY <1>2, <1>4, <1>5 DEF CleanInv, OverKnown
  <2>6. OverKnown'
    BY <1>2, <1>4, <2>2, <2>4, <2>5 DEF CleanInv, OverKnown
  <2> QED
    BY <1>4, <2>3, <2>6 DEF CleanInv, Phases
<1>6. CASE memory["api"][j].status \notin Terminal
  <2>1. api' = NoRequest /\ UNCHANGED <<memory, behind>>
    BY <1>6 DEF DeleteRead
  <2>2. ApiCurrent' /\ RawCurrent' /\ WorkerCurrent'
    BY <1>1, <1>2, <1>3, <2>1
    DEF CleanInv, ApiCurrent, RawCurrent, WorkerCurrent, Running, workers, NoRequest
  <2>3. OverKnown'
    BY <1>2, <1>4, <2>1 DEF CleanInv, OverKnown, NoRequest
  <2> QED
    BY <1>4, <2>2, <2>3 DEF CleanInv, Phases
<1> QED
  BY <1>5, <1>6

LEMMA DeleteWriteTrue == ASSUME TypeInv, TrueInv, clean', DeleteWrite PROVE CleanInv'
<1>0. api.job \in Jobs
  BY DEF DeleteWrite, TypeInv, TypeOK
<1> PICK j \in Jobs : j = api.job
  BY <1>0
<1>1. /\ clean /\ "raw" \notin behind /\ redis' = [api.raw EXCEPT ![j] = Absent]
      /\ behind' = behind \cup {"worker"}
  BY PersistClean DEF DeleteWrite
<1>2. /\ CleanInv /\ redis \in Snapshots /\ api.pc = "filter" /\ api' = NoRequest
      /\ UNCHANGED <<memory, built, queue, workers>>
      /\ life' = [life EXCEPT ![j] = "deleted"]
  BY <1>1 DEF TrueInv, TypeInv, TypeOK, DeleteWrite
<1>3. redis' = [redis EXCEPT ![j] = Absent] /\ Over(j)
  BY <1>1, <1>2 DEF CleanInv, RawCurrent, OverKnown
<1>4. /\ redis'[j] = Absent /\ \A k \in Jobs \ {j} : redis'[k] = redis[k]
      /\ life'[j] = "deleted" /\ \A k \in Jobs \ {j} : life'[k] = life[k]
  BY <1>2, <1>3 DEF Snapshots, TypeInv, TypeOK
<1>5. \A k \in Jobs : ~Publishing(k) /\ ~Publishing(k)'
  BY <1>2 DEF Publishing, NoRequest
<1>6. Over(j)'
  BY <1>2, <1>3, <1>4, <1>5 DEF Over, workers
<1>7. ASSUME NEW k \in Jobs \ {j}
      PROVE /\ Unknown(k)' \/ Waiting(k)' \/ InHand(k)' \/ Over(k)'
            /\ Over(k) => Over(k)'
  <2>1. Publishing(k)' <=> Publishing(k)
    BY <1>5
  <2> QED
    BY <1>2, <1>4, <2>1, PhaseKept DEF CleanInv, Phases, workers
<1>8. Phases' /\ OverKnown'
  BY <1>2, <1>6, <1>7 DEF Phases, CleanInv, OverKnown, NoRequest
<1>9. ApiCurrent' /\ RawCurrent' /\ WorkerCurrent'
  BY <1>1, <1>2, <1>3 DEF CleanInv, ApiCurrent, RawCurrent, WorkerCurrent, NoRequest
<1> QED
  BY <1>8, <1>9 DEF CleanInv

\* A restart loses no request that was about to publish, or is not clean.
LEMMA RestartApiTrue == ASSUME TypeInv, TrueInv, clean', RestartApi PROVE CleanInv'
<1>1. /\ CleanInv /\ api.pc # "publish" /\ api' = NoRequest /\ ~built'
      /\ UNCHANGED <<redis, life, queue, workers, behind>>
  BY Zenon DEF RestartApi, TrueInv
<1>2. memory'["api"] = Nothing /\ memory'["worker"] = memory["worker"]
  BY DEF RestartApi, TypeInv, TypeOK
<1>3. ASSUME NEW k \in Jobs PROVE Unknown(k)' \/ Waiting(k)' \/ InHand(k)' \/ Over(k)'
  <2>1. Publishing(k)' <=> Publishing(k)
    BY <1>1 DEF Publishing, NoRequest
  <2> QED
    BY <1>1, <2>1, PhaseKept DEF CleanInv, Phases, workers
<1>4. ApiCurrent' /\ RawCurrent' /\ WorkerCurrent'
  BY <1>1, <1>2 DEF CleanInv, ApiCurrent, RawCurrent, WorkerCurrent, Running, workers, NoRequest
<1>5. Phases' /\ OverKnown'
  BY <1>1, <1>2, <1>3
  DEF Phases, OverKnown, NoRequest, Nothing, Absent, Initializing, Terminal
<1> QED
  BY <1>4, <1>5 DEF CleanInv

(***************************************************************************)
(* The worker's steps                                                      *)
(***************************************************************************)
LEMMA LaunchTrue ==
  ASSUME TypeInv, TrueInv, clean', NEW j \in Jobs, Launch(j) PROVE CleanInv'
<1>1. CleanInv /\ UNCHANGED <<redis, memory, requests, runs, behind>>
  BY Zenon DEF Launch, TrueInv
<1>2. Waiting(j) /\ queue[j] = 1
  BY <1>1, PhaseMarks DEF Launch, CleanInv, Phases, TypeInv, TypeOK
<1>3. ~Publishing(j) /\ thread[j] = Free /\ redis[j].queued
  BY <1>2 DEF Waiting
<1>4. /\ queue'[j] = 0 /\ thread'[j] = [Free EXCEPT !.pc = "load"]
      /\ \A k \in Jobs \ {j} : queue'[k] = queue[k] /\ thread'[k] = thread[k]
  BY <1>2, <1>3 DEF Launch, TypeInv, TypeOK
<1>5. \A k \in Jobs : Publishing(k)' <=> Publishing(k)
  BY <1>1 DEF Publishing, requests
<1>6. Waiting(j)' /\ ~Over(j)
  BY <1>1, <1>2, <1>3, <1>4, <1>5 DEF Waiting, Over, requests
<1>7. ASSUME NEW k \in Jobs \ {j}
      PROVE /\ Unknown(k)' \/ Waiting(k)' \/ InHand(k)' \/ Over(k)'
            /\ Over(k) => Over(k)'
  BY <1>1, <1>4, <1>5, PhaseKept DEF CleanInv, Phases, requests
<1>8. Phases' /\ OverKnown'
  <2>1. api.pc = "filter" => api.job \in Jobs
    BY DEF TypeInv, TypeOK
  <2> QED
    BY <1>1, <1>6, <1>7, <2>1 DEF Phases, CleanInv, OverKnown, requests
<1>9. \A k \in Jobs : Running(k)' => Running(k)
  BY <1>4 DEF Running, Free
<1>10. ApiCurrent' /\ RawCurrent' /\ WorkerCurrent'
  BY <1>1, <1>9 DEF CleanInv, ApiCurrent, RawCurrent, WorkerCurrent, requests
<1> QED
  BY <1>8, <1>10 DEF CleanInv

\* A pipeline begins where none runs: the load replaces nobody's object.
LEMMA BeginTrue ==
  ASSUME TypeInv, TrueInv, clean', NEW j \in Jobs, Begin(j) PROVE CleanInv'
<1>1. /\ clean /\ \A k \in Jobs : ~Running(k)
      /\ memory' = IF stored THEN [memory EXCEPT !["worker"] = redis] ELSE memory
      /\ behind' = behind \ {"worker"} /\ UNCHANGED <<redis, stored, faults>>
      /\ UNCHANGED <<requests, queue>>
  BY LoadClean, Zenon DEF Begin
<1>2. CleanInv /\ KeyInv /\ thread[j].pc = "load"
  BY <1>1, Zenon DEF TrueInv, Begin
<1>3. /\ Waiting(j) /\ thread[j] = [Free EXCEPT !.pc = "load"] /\ queue[j] = 0
      /\ redis[j].queued /\ ~Publishing(j)
  <2>1. Waiting(j) /\ thread[j] = [Free EXCEPT !.pc = "load"]
    BY <1>2, PhaseMarks DEF CleanInv, Phases
  <2> QED
    BY <2>1 DEF Waiting, Free
<1>4. redis[j] # Absent /\ redis[j] \in Records
  <2>1. redis[j] # Absent
    BY <1>3 DEF Waiting, Absent, Initializing
  <2> QED
    BY <2>1 DEF TypeInv, TypeOK, Snapshots
<1>5. stored
  <2> SUFFICES ASSUME ~stored PROVE FALSE
    OBVIOUS
  <2>1. redis = Nothing
    BY <1>2, Zenon DEF KeyInv
  <2> QED
    BY <1>4, <2>1 DEF Nothing
<1>6. memory'["worker"] = redis /\ memory'["api"] = memory["api"]
  BY <1>1, <1>5 DEF TypeInv, TypeOK
<1>7. /\ thread'[j] = [pc |-> "prepare", object |-> redis[j], held |-> TRUE]
      /\ \A k \in Jobs \ {j} : thread'[k] = [thread[k] EXCEPT !.held = FALSE]
      /\ runs' = [runs EXCEPT ![j] = @ + 1]
  <2> DEFINE loaded == stored /\ faults' = faults
             others == [k \in Jobs |-> [thread[k] EXCEPT !.held = @ /\ ~loaded]]
  <2>1. /\ thread' = [others EXCEPT ![j] = [pc |-> "prepare", object |-> memory'["worker"][j],
                                            held |-> TRUE]]
        /\ runs' = [runs EXCEPT ![j] = @ + 1]
    <3>1. memory'["worker"][j] # Absent
      BY <1>4, <1>6
    <3> QED
      BY <3>1, Zenon DEF Begin
  <2>2. loaded
    BY <1>1, <1>5
  <2>3. \A k \in Jobs : others[k] = [thread[k] EXCEPT !.held = FALSE]
    BY <2>2 DEF TypeInv, TypeOK
  <2> HIDE DEF others
  <2>4. DOMAIN others = Jobs
    BY DEF others
  <2> QED
    BY <1>6, <2>1, <2>3, <2>4
<1>8. ASSUME NEW k \in Jobs \ {j} PROVE thread'[k] = thread[k] /\ runs'[k] = runs[k]
  <2>1. thread[k] = Free \/ thread[k] = [Free EXCEPT !.pc = "load"]
    BY <1>1, <1>2, PhaseMarks DEF CleanInv, Phases
  <2>2. /\ ~thread[k].held
        /\ thread[k] \in [pc : Steps \cup {"free"}, object : Records \cup {Absent}, held : BOOLEAN]
    BY <2>1 DEF Free, TypeInv, TypeOK
  <2>3. [thread[k] EXCEPT !.held = FALSE] = thread[k]
    BY <2>2
  <2> QED
    BY <1>7, <2>3 DEF TypeInv, TypeOK
<1>9. \A k \in Jobs : Publishing(k)' <=> Publishing(k)
  BY <1>1 DEF Publishing, requests
<1>10. InHand(j)' /\ ~Over(j)
  <2>1. ~Over(j)
    BY <1>3 DEF Over, Free
  <2>2. life[j] = "live" /\ redis[j].status = "PENDING" /\ runs[j] = 0
    BY <1>3 DEF Waiting
  <2>3. runs'[j] = 1
    BY <1>7, <2>2 DEF TypeInv, TypeOK
  <2> QED
    BY <1>1, <1>3, <1>7, <1>9, <2>1, <2>2, <2>3 DEF InHand, Running, Steps, requests
<1>11. ASSUME NEW k \in Jobs \ {j}
      PROVE /\ Unknown(k)' \/ Waiting(k)' \/ InHand(k)' \/ Over(k)'
            /\ Over(k) => Over(k)'
  BY <1>1, <1>2, <1>8, <1>9, PhaseKept DEF CleanInv, Phases, requests
<1>12. Phases' /\ OverKnown'
  <2>1. api.pc = "filter" => api.job \in Jobs
    BY DEF TypeInv, TypeOK
  <2> QED
    BY <1>1, <1>2, <1>6, <1>10, <1>11, <2>1 DEF Phases, CleanInv, OverKnown, requests
<1>13. ApiCurrent' /\ RawCurrent' /\ WorkerCurrent'
  BY <1>1, <1>2, <1>6 DEF CleanInv, ApiCurrent, RawCurrent, WorkerCurrent, requests
<1> QED
  BY <1>12, <1>13 DEF CleanInv

\* A pipeline saves what it assigned to the object that the memory still has.
LEMMA SaveTrue ==
  ASSUME TypeInv, TrueInv, clean', NEW j \in Jobs, Running(j),
         NEW record \in Records, NEW next \in (Steps \ {"load", "prepare"}) \cup {"free"},
         Save(j, record, next),
         next = "free" => record.status \in Terminal, next # "free" => record.status \in Active,
         ~record.queued
  PROVE CleanInv'
<1>1. /\ clean /\ "worker" \notin behind /\ redis' = memory'["worker"]
      /\ behind' = behind \cup {"api", "raw"}
      /\ UNCHANGED <<requests, queue, runs>>
  BY PersistClean DEF Save
<1>2. CleanInv /\ redis \in Snapshots
  BY <1>1 DEF TrueInv, TypeInv, TypeOK
<1>3. InHand(j) /\ memory["worker"] = redis
  BY <1>1, <1>2, PhaseMarks DEF CleanInv, Phases, WorkerCurrent
<1>4. /\ memory'["worker"] = [redis EXCEPT ![j] = record]
      /\ memory'["api"] = memory["api"]
  BY <1>3 DEF InHand, Save, TypeInv, TypeOK
<1>5. redis'[j] = record /\ \A k \in Jobs \ {j} : redis'[k] = redis[k]
  BY <1>1, <1>2, <1>4 DEF Snapshots
<1>6. /\ next = "free" => thread'[j] = Free
      /\ next # "free" => /\ thread'[j].pc = next /\ thread'[j].object = record
                         /\ thread'[j].held = thread[j].held
      /\ \A k \in Jobs \ {j} : thread'[k] = thread[k]
  BY DEF Save, TypeInv, TypeOK
<1>7. \A k \in Jobs : Publishing(k)' <=> Publishing(k)
  BY <1>1 DEF Publishing, requests
<1>8. InHand(j)' \/ Over(j)'
  <2>1. CASE next = "free"
    <3>1. Over(j)'
      BY <1>1, <1>3, <1>5, <1>6, <1>7, <2>1 DEF InHand, Over, requests
    <3> QED
      BY <3>1
  <2>2. CASE next # "free"
    <3>1. InHand(j)'
      BY <1>1, <1>3, <1>5, <1>6, <1>7, <2>2 DEF InHand, Running, requests
    <3> QED
      BY <3>1
  <2> QED
    BY <2>1, <2>2
<1>9. ~Over(j)
  BY <1>3 DEF InHand, Over, Running, Free, Steps
<1>10. ASSUME NEW k \in Jobs \ {j}
      PROVE /\ Unknown(k)' \/ Waiting(k)' \/ InHand(k)' \/ Over(k)'
            /\ Over(k) => Over(k)'
  BY <1>1, <1>2, <1>5, <1>6, <1>7, PhaseKept DEF CleanInv, Phases, requests
<1>11. Phases' /\ OverKnown'
  <2>1. api.pc = "filter" => api.job \in Jobs
    BY DEF TypeInv, TypeOK
  <2> QED
    BY <1>1, <1>2, <1>4, <1>8, <1>9, <1>10, <2>1 DEF Phases, CleanInv, OverKnown, requests
<1>12. ApiCurrent' /\ RawCurrent' /\ WorkerCurrent'
  BY <1>1 DEF ApiCurrent, RawCurrent, WorkerCurrent
<1> QED
  BY <1>11, <1>12 DEF CleanInv

\* A pipeline's next step, a training job that moves, a restart of a worker
\* with nothing in hand.
LEMMA PipelineTrue ==
  ASSUME TypeInv, TrueInv, clean', NEW j \in Jobs, Pipeline(j) PROVE CleanInv'
<1>1. ASSUME NEW record, NEW next, Save(j, record, next), Running(j)
      PROVE CleanInv /\ InHand(j) /\ thread[j].object \in Records
  <2>1. clean
    BY <1>1, PersistClean, Zenon DEF Save
  <2>2. CleanInv
    BY <2>1, Zenon DEF TrueInv
  <2> QED
    BY <1>1, <2>2, PhaseMarks DEF CleanInv, Phases, TypeInv, TypeOK
<1>2. ASSUME NEW pc \in Steps \ {"load"}, NEW status \in Active,
             NEW next \in Steps \ {"load", "prepare"}, Enter(j, pc, status, next)
      PROVE CleanInv'
  <2> DEFINE record == [thread[j].object EXCEPT !.status = status, !.queued = FALSE]
  <2>1. record \in Records /\ Running(j)
    BY <1>2, ObjectAssigned DEF Enter, Running
  <2>2. thread[j].object \in Records
    BY <2>1 DEF TypeInv, TypeOK
  <2>3. record.status = status /\ ~record.queued
    BY <2>2 DEF Records
  <2> HIDE DEF record
  <2>4. Save(j, record, next)
    BY <1>2 DEF Enter, record
  <2> QED
    BY <1>2, <2>1, <2>3, <2>4, SaveTrue DEF Steps
<1>3. ASSUME NEW record \in Records, NEW next \in Steps \ {"load", "prepare"},
             Save(j, record, next), Running(j), thread[j].pc # "prepare",
             record.status = thread[j].object.status, record.queued = thread[j].object.queued
      PROVE CleanInv'
  <2>1. InHand(j)
    BY <1>1, <1>3
  <2>2. record.status \in Active /\ ~record.queued
    BY <1>3, <2>1 DEF InHand
  <2> QED
    BY <1>3, <2>2, SaveTrue DEF Steps
<1>4. ASSUME NEW status \in Terminal, Running(j), thread[j].pc # "prepare",
             Save(j, [thread[j].object EXCEPT !.status = status], "free")
      PROVE CleanInv'
  <2> DEFINE record == [thread[j].object EXCEPT !.status = status]
  <2>1. InHand(j) /\ thread[j].object \in Records
    BY <1>1, <1>4
  <2>2. record \in Records /\ record.status = status /\ ~record.queued
    BY <1>4, <2>1 DEF InHand, Records
  <2> HIDE DEF record
  <2>3. Save(j, record, "free")
    BY <1>4 DEF record
  <2> QED
    BY <1>4, <2>2, <2>3, SaveTrue DEF Steps
<1>5. CASE Prepare(j)
  BY <1>2, <1>5 DEF Prepare, Steps, Active
<1>6. CASE Train(j)
  BY <1>2, <1>6 DEF Train, Steps, Active
<1>7. CASE Validate(j)
  BY <1>2, <1>7 DEF Validate, Steps, Active
<1>8. CASE Compare(j)
  BY <1>2, <1>8 DEF Compare, Steps, Active
<1>9. CASE RecordTraining(j)
  <2> DEFINE record == [thread[j].object EXCEPT !.dispatched = TRUE]
  <2>1. record \in Records /\ thread[j].object \in Records
    BY <1>9, ObjectAssigned DEF RecordTraining, Running, Steps, TypeInv, TypeOK
  <2>2. record.status = thread[j].object.status /\ record.queued = thread[j].object.queued
    BY <2>1 DEF Records
  <2> HIDE DEF record
  <2>3. Save(j, record, "validate") /\ thread[j].pc = "record"
    BY <1>9 DEF RecordTraining, record
  <2> QED
    BY <1>3, <2>1, <2>2, <2>3 DEF Running, Steps
<1>10. CASE Check(j)
  <2> DEFINE record == [thread[j].object EXCEPT !.metrics = TRUE]
  <2>1. record \in Records /\ thread[j].object \in Records
    BY <1>10, ObjectAssigned DEF Check, Running, Steps, TypeInv, TypeOK
  <2>2. record.status = thread[j].object.status /\ record.queued = thread[j].object.queued
    BY <2>1 DEF Records
  <2> HIDE DEF record
  <2>3. Save(j, record, "compare") /\ thread[j].pc = "check"
    BY <1>10 DEF Check, record
  <2> QED
    BY <1>3, <2>1, <2>2, <2>3 DEF Running, Steps
<1>11. CASE Result(j)
  <2>1. PICK better \in {"yes", "no"} : Save(j, [thread[j].object EXCEPT !.better = better], "decide")
    BY <1>11 DEF Result
  <2> DEFINE record == [thread[j].object EXCEPT !.better = better]
  <2>2. record \in Records /\ thread[j].object \in Records
    BY <1>11, ObjectAssigned DEF Result, Running, Steps, TypeInv, TypeOK
  <2>3. record.status = thread[j].object.status /\ record.queued = thread[j].object.queued
    BY <2>2 DEF Records
  <2> HIDE DEF record
  <2>4. Save(j, record, "decide") /\ thread[j].pc = "result"
    BY <1>11, <2>1 DEF Result, record
  <2> QED
    BY <1>3, <2>2, <2>3, <2>4 DEF Running, Steps
<1>12. CASE Decide(j)
  BY <1>4, <1>12 DEF Decide, Running, Steps, Terminal
<1>13. CASE Raise(j)
  BY <1>4, <1>13 DEF Raise, Running, Steps, Terminal
<1>14. CASE Begin(j)
  BY <1>14, BeginTrue
<1>15. CASE Dispatch(j)
  <2>1. CleanInv /\ UNCHANGED <<redis, memory, queue, requests, runs, behind>>
    BY <1>15, Zenon DEF Dispatch, TrueInv
  <2>2. /\ thread'[j] = [thread[j] EXCEPT !.pc = "record"] /\ thread[j].pc = "dispatch"
        /\ \A k \in Jobs \ {j} : thread'[k] = thread[k]
    BY <1>15 DEF Dispatch, TypeInv, TypeOK
  <2>3. /\ thread'[j].pc = "record" /\ thread'[j].object = thread[j].object
        /\ thread'[j].held = thread[j].held
    BY <2>2 DEF TypeInv, TypeOK
  <2>4. \A k \in Jobs : Publishing(k)' <=> Publishing(k)
    BY <2>1 DEF Publishing, requests
  <2>5. InHand(j)
    BY <2>1, <2>2, PhaseMarks DEF CleanInv, Phases, Running, Steps
  <2>6. InHand(j)' /\ ~Over(j)
    BY <2>1, <2>2, <2>3, <2>4, <2>5 DEF InHand, Over, Running, Steps, Free, requests
  <2>7. ASSUME NEW k \in Jobs \ {j}
        PROVE /\ Unknown(k)' \/ Waiting(k)' \/ InHand(k)' \/ Over(k)'
              /\ Over(k) => Over(k)'
    BY <2>1, <2>2, <2>4, PhaseKept DEF CleanInv, Phases, requests
  <2>8. Phases' /\ OverKnown'
    <3>1. api.pc = "filter" => api.job \in Jobs
      BY DEF TypeInv, TypeOK
    <3> QED
      BY <2>1, <2>6, <2>7, <3>1 DEF Phases, CleanInv, OverKnown, requests
  <2>9. \A k \in Jobs : Running(k)' => Running(k)
    BY <2>2, <2>3 DEF Running, Steps
  <2>10. ApiCurrent' /\ RawCurrent' /\ WorkerCurrent'
    BY <2>1, <2>9 DEF CleanInv, ApiCurrent, RawCurrent, WorkerCurrent, requests
  <2> QED
    BY <2>8, <2>10 DEF CleanInv
<1> QED
  BY <1>5, <1>6, <1>7, <1>8, <1>9, <1>10, <1>11, <1>12, <1>13, <1>14, <1>15 DEF Pipeline

LEMMA TrainingMovesTrue ==
  ASSUME TypeInv, TrueInv, clean', NEW j \in Jobs, TrainingMoves(j) PROVE CleanInv'
<1>1. CleanInv /\ UNCHANGED <<redis, memory, queue, requests, thread, runs, behind>>
  BY Zenon DEF TrainingMoves, TrueInv
<1>2. ASSUME NEW k \in Jobs
      PROVE /\ Unknown(k)' \/ Waiting(k)' \/ InHand(k)' \/ Over(k)'
            /\ Over(k) => Over(k)'
  <2>1. Publishing(k)' <=> Publishing(k)
    BY <1>1 DEF Publishing, requests
  <2> QED
    BY <1>1, <2>1, PhaseKept DEF CleanInv, Phases, requests
<1>3. Phases' /\ OverKnown'
  <2>1. api.pc = "filter" => api.job \in Jobs
    BY DEF TypeInv, TypeOK
  <2> QED
    BY <1>1, <1>2, <2>1 DEF Phases, CleanInv, OverKnown, requests
<1>4. ApiCurrent' /\ RawCurrent' /\ WorkerCurrent'
  BY <1>1 DEF CleanInv, ApiCurrent, RawCurrent, WorkerCurrent, Running, requests
<1> QED
  BY <1>3, <1>4 DEF CleanInv

LEMMA RestartWorkerTrue ==
  ASSUME TypeInv, TrueInv, clean', RestartWorker PROVE CleanInv'
<1>1. /\ CleanInv /\ \A j \in Jobs : thread[j] = Free
      /\ UNCHANGED <<redis, requests, runs, behind>>
  BY Zenon DEF RestartWorker, TrueInv
<1>2. /\ memory'["api"] = memory["api"]
      /\ \A j \in Jobs : thread'[j] = thread[j]
  BY <1>1 DEF RestartWorker, TypeInv, TypeOK
<1>3. \A j \in Jobs : queue'[j] = queue[j]
  <2>1. PICK again \in {NoJob} \cup {j \in Jobs : thread[j].pc = "load"} :
          queue' = [j \in Jobs |-> queue[j] + IF j = again THEN 1 ELSE 0]
    BY Zenon DEF RestartWorker
  <2>2. again = NoJob
    BY <1>1 DEF Free
  <2> QED
    BY <2>1, <2>2, RetrainingAssumption DEF TypeInv, TypeOK
<1>4. ASSUME NEW k \in Jobs
      PROVE /\ Unknown(k)' \/ Waiting(k)' \/ InHand(k)' \/ Over(k)'
            /\ Over(k) => Over(k)'
  <2>1. Publishing(k)' <=> Publishing(k)
    BY <1>1 DEF Publishing, requests
  <2> QED
    BY <1>1, <1>2, <1>3, <2>1, PhaseKept DEF CleanInv, Phases, requests
<1>5. Phases' /\ OverKnown'
  <2>1. api.pc = "filter" => api.job \in Jobs
    BY DEF TypeInv, TypeOK
  <2> QED
    BY <1>1, <1>2, <1>4, <2>1 DEF Phases, CleanInv, OverKnown, requests
<1>6. ApiCurrent' /\ RawCurrent' /\ WorkerCurrent'
  BY <1>1, <1>2 DEF CleanInv, ApiCurrent, RawCurrent, WorkerCurrent, Running, Free, Steps, requests
<1> QED
  BY <1>5, <1>6 DEF CleanInv

\* Every step, as long as it leaves the run clean.
LEMMA TrueStep == ASSUME TypeInv, TrueInv, Next PROVE TrueInv'
<1>1. KeyInv' /\ SingletonInv'
  BY KeyStep, SingletonStep, Zenon DEF TrueInv
<1>2. ASSUME clean' PROVE CleanInv'
  <2>1. CASE Construct
    BY <1>2, <2>1, LoadedByApi DEF Construct, NoRequest
  <2>2. CASE Refresh
    BY <1>2, <2>2, LoadedByApi DEF Refresh, NoRequest, requests
  <2>3. ASSUME NEW j \in Jobs, RunLoad(j) PROVE CleanInv'
    BY <1>2, <2>3, LoadedByApi DEF RunLoad, NoRequest
  <2>4. ASSUME NEW j \in Jobs, DeleteLoad(j) PROVE CleanInv'
    BY <1>2, <2>4, LoadedByApi DEF DeleteLoad, NoRequest
  <2>5. CASE DeleteFallsBack
    BY <1>2, <2>5, Zenon DEF DeleteFallsBack
  <2> QED
    BY <1>2, <2>1, <2>2, <2>3, <2>4, <2>5, TriggerTrue, RunQueueTrue, PublishTrue,
       PublishFailsTrue, DeleteReadTrue, DeleteWriteTrue, RestartApiTrue, LaunchTrue,
       PipelineTrue, TrainingMovesTrue, RestartWorkerTrue, Zenon DEF Next, Respond, Worker
<1> QED
  BY <1>1, <1>2, Zenon DEF TrueInv

\* While nobody persisted a stale copy, no object was replaced under a pipeline
\* and nothing failed, the snapshot tells what clients were told and what the
\* pipelines hold, and no job is executed twice.
THEOREM SnapshotTells == FairSpec => []SnapshotIsTrue
<1>1. Init => TrueInv
  <2> SUFFICES ASSUME Init PROVE TrueInv
    OBVIOUS
  <2>1. KeyInv /\ SingletonInv
    BY DEF Init, KeyInv, SingletonInv
  <2>2. Phases
    BY DEF Init, Phases, Unknown, Nothing, Publishing, NoRequest
  <2>3. ApiCurrent /\ RawCurrent /\ WorkerCurrent /\ OverKnown
    BY DEF Init, ApiCurrent, RawCurrent, WorkerCurrent, OverKnown, Running, Free, Steps,
           NoRequest, Nothing, Absent, Initializing, Terminal
  <2> QED
    BY <2>1, <2>2, <2>3, Zenon DEF TrueInv, CleanInv
<1>2. TypeInv /\ TrueInv /\ [Next]_vars => TrueInv'
  <2>1. ASSUME TypeInv, TrueInv, UNCHANGED vars PROVE TrueInv'
    <3>1. /\ UNCHANGED <<redis, stored, memory, queue, thread, runs, behind, clean>>
          /\ UNCHANGED <<built, api, life>>
      BY <2>1 DEF vars, requests, workers
    <3>2. KeyInv' /\ SingletonInv'
      BY <2>1, <3>1, Zenon DEF TrueInv, KeyInv, SingletonInv
    <3>3. ASSUME NEW j \in Jobs
          PROVE /\ Unknown(j)' \/ Waiting(j)' \/ InHand(j)' \/ Over(j)'
                   <=> Unknown(j) \/ Waiting(j) \/ InHand(j) \/ Over(j)
                /\ Over(j)' <=> Over(j)
      BY <3>1 DEF Unknown, Waiting, InHand, Over, Running, Publishing
    <3>4. CleanInv => Phases' /\ ApiCurrent' /\ RawCurrent' /\ WorkerCurrent'
      BY <3>1, <3>3 DEF CleanInv, Phases, ApiCurrent, RawCurrent, WorkerCurrent, Running
    <3>5. TypeInv /\ CleanInv => OverKnown'
      <4>1. TypeInv => (api.pc = "filter" => api.job \in Jobs)
        BY DEF TypeInv, TypeOK
      <4> QED
        BY <3>1, <3>3, <4>1 DEF CleanInv, OverKnown
    <3> QED
      BY <2>1, <3>1, <3>2, <3>4, <3>5, Zenon DEF TrueInv, CleanInv
  <2> QED
    BY <2>1, TrueStep
<1>3. TypeInv /\ TrueInv => SnapshotIsTrue
  <2> SUFFICES ASSUME TypeInv, TrueInv, clean, NEW j \in Jobs
      PROVE /\ (redis[j] # Absent) = (life[j] = "live")
            /\ Running(j) => redis[j] = thread[j].object
            /\ redis[j].status \in Active => Running(j)
            /\ redis[j].queued =>
                 \/ queue[j] > 0 \/ thread[j] # Free
                 \/ api.pc = "publish" /\ api.job = j
            /\ runs[j] <= 1
    BY Zenon DEF SnapshotIsTrue
  <2>1. Unknown(j) \/ Waiting(j) \/ InHand(j) \/ Over(j)
    BY Zenon DEF TrueInv, CleanInv, Phases
  <2>2. CASE Unknown(j)
    BY <2>2 DEF Unknown, Absent, Initializing, Active, Running, Free, Steps
  <2>3. CASE Waiting(j)
    BY <2>3 DEF Waiting, Absent, Initializing, Active, Running, Free, Steps, Publishing
  <2>4. CASE InHand(j)
    BY <2>4 DEF InHand, Absent, Initializing, Active, Running, Free, Steps
  <2>5. CASE Over(j)
    BY <2>5 DEF Over, Absent, Initializing, Active, Terminal, Running, Free, Steps
  <2> QED
    BY <2>1, <2>2, <2>3, <2>4, <2>5
<1> QED
  BY <1>1, <1>2, <1>3, TypeCorrect, PTL DEF FairSpec, Spec
=============================================================================
