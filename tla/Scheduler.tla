----------------------------- MODULE Scheduler ------------------------------
(***************************************************************************)
(* The job scheduler of the API process: jobs and runs in memory, written  *)
(* as a whole to one Redis key after every change and read back once, when *)
(* the object is made.  Its handlers hold the event loop (Celery's delay   *)
(* does not await), so a run is interrupted only by the end of the process.*)
(* A schedule is never acted on and enabled is never consulted: a job runs *)
(* when it is asked to.                                                    *)
(***************************************************************************)
EXTENDS Naturals, Sequences

CONSTANTS
  Jobs,
  Handled,     \* the jobs whose type has a handler and what it needs
  NoJob,
  MaxRuns,     \* bound: runs begun
  MaxRestarts  \* bound: ends of the process

ASSUME SchedulerAssumption == Handled \subseteq Jobs /\ NoJob \notin Jobs /\ MaxRuns \in Nat /\ MaxRestarts \in Nat

VARIABLES
  memory,    \* jobs and runs of the process
  snapshot,  \* the Redis key; NoSnapshot before it is first written
  running,   \* the job whose run holds the event loop
  restarts,
  wanted,    \* history: the jobs as the calls answered so far left them
  behind,    \* history: the last persist was lost
  blind      \* history: a process began without all that had been answered

schedulerVars == <<memory, snapshot, running, restarts, wanted, behind, blind>>

-----------------------------------------------------------------------------
JobStatuses == {"PENDING", "RUNNING", "COMPLETED", "FAILED"}
NewJob == [status |-> "PENDING", enabled |-> TRUE]
NoJobs == [jobs |-> [j \in {} |-> NewJob], runs |-> <<>>]
NoSnapshot == [none |-> TRUE]
KnownJobs == DOMAIN memory.jobs

SchedulerTypeOK ==
  /\ KnownJobs \subseteq Jobs
  /\ \A j \in KnownJobs : memory.jobs[j] \in [status : JobStatuses, enabled : BOOLEAN]
  /\ \A i \in DOMAIN memory.runs : memory.runs[i] \in [of : Jobs, status : JobStatuses]
  /\ running \in Jobs \cup {NoJob} /\ restarts \in 0..MaxRestarts
  /\ DOMAIN wanted \subseteq Jobs /\ behind \in BOOLEAN /\ blind \in BOOLEAN

SchedulerInit ==
  /\ memory = NoJobs /\ snapshot = NoSnapshot /\ running = NoJob /\ restarts = 0
  /\ wanted = [j \in {} |-> TRUE] /\ behind = FALSE /\ blind = FALSE

-----------------------------------------------------------------------------
With(f, k, v) == [x \in DOMAIN f \cup {k} |-> IF x = k THEN v ELSE f[x]]
Minus(f, k) == [x \in DOMAIN f \ {k} |-> f[x]]

\* Mutant: only a change that adds no job is persisted.
PersistedUnlessNew(m) == IF DOMAIN m.jobs = KnownJobs THEN m ELSE snapshot

Persisted(m) == m

\* The memory changes and is written; if Redis does not answer, only a warning.
Change(m) ==
  /\ memory' = m
  /\ \E ok \in BOOLEAN :
       /\ snapshot' = IF ok THEN Persisted(m) ELSE snapshot
       /\ behind' = ~ok
  /\ UNCHANGED <<restarts, blind>>

CreateJob(j) ==
  /\ running = NoJob /\ j \notin KnownJobs \cup DOMAIN wanted
  /\ Change([memory EXCEPT !.jobs = With(@, j, NewJob)])
  /\ wanted' = With(wanted, j, TRUE) /\ UNCHANGED running

SetEnabled(j, enabled) ==
  /\ running = NoJob /\ j \in KnownJobs
  /\ Change([memory EXCEPT !.jobs[j].enabled = enabled])
  /\ wanted' = With(wanted, j, enabled) /\ UNCHANGED running

DeleteJob(j) ==
  /\ running = NoJob /\ j \in KnownJobs
  /\ Change([memory EXCEPT !.jobs = Minus(@, j)])
  /\ wanted' = Minus(wanted, j) /\ UNCHANGED running

\* run_job up to the handler.
BeginRun(j) ==
  /\ running = NoJob /\ j \in KnownJobs /\ Len(memory.runs) < MaxRuns
  /\ Change([memory EXCEPT !.jobs[j].status = "RUNNING",
                           !.runs = Append(@, [of |-> j, status |-> "RUNNING"])])
  /\ running' = j /\ UNCHANGED wanted

\* The handler dispatches its task or raises, as it does when there is none.
EndRun ==
  \E s \in {"COMPLETED", "FAILED"} :
    /\ running # NoJob /\ (s = "COMPLETED" => running \in Handled)
    /\ Change([memory EXCEPT !.jobs[running].status = s, !.runs[Len(memory.runs)].status = s])
    /\ running' = NoJob /\ UNCHANGED wanted

Loaded(ok) == IF ok /\ snapshot # NoSnapshot THEN snapshot ELSE NoJobs

\* The process dies, in a run or not, and its successor loads what it can.
Restart ==
  /\ restarts < MaxRestarts /\ restarts' = restarts + 1
  /\ \E ok \in BOOLEAN :
       /\ memory' = Loaded(ok)
       /\ blind' = (blind \/ behind \/ ~ok)
  /\ running' = NoJob /\ behind' = FALSE
  /\ UNCHANGED <<snapshot, wanted>>

SchedulerNext ==
  \/ \E j \in Jobs :
       \/ CreateJob(j) \/ DeleteJob(j) \/ BeginRun(j)
       \/ \E enabled \in BOOLEAN : SetEnabled(j, enabled)
  \/ EndRun \/ Restart

-----------------------------------------------------------------------------
(* Properties *)

\* Across restarts the scheduler has the jobs, each enabled or not, as the calls
\* it answered left them, except in a process that began without Redis, or right
\* after a persist that was lost, and its successors (_persist_state, _load_state).
JobsKept ==
  ~blind => /\ KnownJobs = DOMAIN wanted
            /\ \A j \in KnownJobs : memory.jobs[j].enabled = wanted[j]
=============================================================================
