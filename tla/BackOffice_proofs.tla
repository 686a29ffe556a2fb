------------------------- MODULE BackOffice_proofs -------------------------
(***************************************************************************)
(* Theorems about components of BackOffice, for every value of their       *)
(* constants.  No component reads what another owns, so each theorem rests *)
(* on an invariant of its component's own steps.                           *)
(***************************************************************************)
EXTENDS Computations_proofs, SequenceTheorems

\* A step of the back office is, for each component, one of its own or none.
LEMMA ComponentStep ==
  ASSUME [Next]_vars
  PROVE /\ [AccountsNext]_accountVars /\ [SchedulerNext]_schedulerVars
        /\ [PageNext]_pageVars /\ [CardNext]_cardVars
        /\ [AlertsNext]_alertVars /\ [BaselinesNext]_baselineVars
        /\ [FeaturesNext]_featureVars /\ [DataNext]_dataVars
<1>1. CASE UNCHANGED vars
  BY <1>1 DEF vars, accountVars, schedulerVars, pageVars, cardVars, alertVars, baselineVars,
              featureVars, dataVars
<1>2. CASE Next
  BY <1>2 DEF Next, In, Alerting, Engineering, Planning, Storing, Administering, Scheduling,
              Transforming, Filling, Searching, Fitting, Measuring, Watching, Answering,
              Analysing, Keeping, Choosing, Showing
<1> QED
  BY <1>1, <1>2

(***************************************************************************)
(* Accounts: a decision is made on a request that is pending, or was       *)
(* decided by another administrator who had it open too.                   *)
(***************************************************************************)
AskedRequests == [status : RequestStatuses, of : People, role : Roles]
Decisions == [op : {"approve", "reject"}, on : RoleRequests]
RowEdits == [op : {"role", "toggle", "delete"}, on : People, role : Roles,
             read : [exists : BOOLEAN, role : Roles, active : BOOLEAN]]

DesksOK ==
  /\ request \in [RoleRequests -> {NoRoleRequest} \cup AskedRequests]
  /\ desk \in [Admins -> {DeskEmpty} \cup Decisions \cup RowEdits]
  /\ account \in [People -> [exists : BOOLEAN, role : Roles, active : BOOLEAN]]
  /\ granted \subseteq RoleRequests /\ overlapped \subseteq RoleRequests

\* What was granted stays decided; what is open is pending, unless two had it.
DecidedOnce ==
  /\ \A q \in granted : \/ request[q].status = "APPROVED"
                        \/ request[q].status = "REJECTED" /\ q \in overlapped
  /\ \A a \in Admins : Deciding(a) =>
       /\ request[desk[a].on] \in AskedRequests
       /\ request[desk[a].on].status = "PENDING" \/ desk[a].on \in overlapped

AccountsInv == DesksOK /\ DecidedOnce

LEMMA AccountsInvInit == AccountsInit => AccountsInv
BY AccountsAssumption
  DEF AccountsInit, AccountsInv, DesksOK, DecidedOnce, Deciding, DeskEmpty, NoAccount

LEMMA OpenDecision ==
  ASSUME AccountsInv, NEW a \in Admins, Deciding(a)
  PROVE desk[a] \in Decisions /\ desk[a].on \in RoleRequests
BY DEF AccountsInv, DesksOK, Deciding, DeskEmpty, Decisions, RowEdits

\* A desk that is opened or cleared leaves the other desks.
LEMMA RequestRead ==
  ASSUME AccountsInv, NEW a \in Admins, NEW op \in {"approve", "reject"}, NEW q \in RoleRequests,
         ReadRequest(a, op, q)
  PROVE AccountsInv'
<1>1. request[q] \in AskedRequests /\ request[q].status = "PENDING"
  BY DEF ReadRequest, Decidable, AccountsInv, DesksOK, NoRoleRequest
<1>2. DesksOK'
  BY DEF AccountsInv, DesksOK, ReadRequest, Decisions
<1>3. ASSUME NEW b \in Admins, Deciding(b)'
      PROVE /\ request[desk'[b].on] \in AskedRequests
            /\ request[desk'[b].on].status = "PENDING" \/ desk'[b].on \in overlapped
  BY <1>1, <1>3 DEF AccountsInv, DesksOK, DecidedOnce, Deciding, ReadRequest
<1> QED
  BY <1>2, <1>3 DEF AccountsInv, DecidedOnce, ReadRequest

LEMMA DecisionMade ==
  ASSUME AccountsInv, NEW a \in Admins, Decision(a)
  PROVE AccountsInv'
<1> DEFINE q == desk[a].on
<1>1. /\ Deciding(a) /\ q \in RoleRequests /\ request[q] \in AskedRequests
      /\ request[q].status = "PENDING" \/ q \in overlapped
  BY OpenDecision DEF Decision, AccountsInv, DecidedOnce
<1>2. /\ \/ request' = [request EXCEPT ![q].status = "APPROVED"] /\ granted' = granted \cup {q}
         \/ request' = [request EXCEPT ![q].status = "REJECTED"] /\ granted' = granted
      /\ desk' = [desk EXCEPT ![a] = DeskEmpty]
      /\ overlapped' = IF Overlaps(a) THEN overlapped \cup {q} ELSE overlapped
  BY DEF Decision
<1>3. DesksOK'
  <2>1. account' \in [People -> [exists : BOOLEAN, role : Roles, active : BOOLEAN]]
    BY <1>1 DEF Decision, AccountsInv, DesksOK, AskedRequests
  <2>2. request' \in [RoleRequests -> {NoRoleRequest} \cup AskedRequests]
    BY <1>1, <1>2 DEF AccountsInv, DesksOK, AskedRequests, RequestStatuses
  <2> QED
    BY <1>1, <1>2, <2>1, <2>2 DEF AccountsInv, DesksOK
<1>4. /\ request'[q] \in AskedRequests
      /\ \A r \in RoleRequests \ {q} : request'[r] = request[r]
  BY <1>1, <1>2 DEF AccountsInv, DesksOK, AskedRequests, RequestStatuses
<1>5. ASSUME NEW r \in granted'
      PROVE \/ request'[r].status = "APPROVED"
            \/ request'[r].status = "REJECTED" /\ r \in overlapped'
  <2>1. CASE r # q
    BY <1>2, <1>4, <1>5, <2>1 DEF AccountsInv, DesksOK, DecidedOnce
  <2>2. CASE r = q /\ q \notin granted
    BY <1>1, <1>2, <1>5, <2>2 DEF AccountsInv, DesksOK, AskedRequests
  <2>3. CASE r = q /\ q \in granted
    BY <1>1, <1>2, <2>3 DEF AccountsInv, DesksOK, DecidedOnce, AskedRequests
  <2> QED
    BY <2>1, <2>2, <2>3
<1>6. ASSUME NEW b \in Admins, Deciding(b)'
      PROVE /\ request'[desk'[b].on] \in AskedRequests
            /\ request'[desk'[b].on].status = "PENDING" \/ desk'[b].on \in overlapped'
  <2>1. b # a /\ desk'[b] = desk[b] /\ Deciding(b)
    BY <1>2, <1>6 DEF Deciding, DeskEmpty, AccountsInv, DesksOK
  <2>2. CASE desk[b].on = q
    BY <1>2, <1>4, <2>1, <2>2 DEF Overlaps
  <2>3. CASE desk[b].on # q
    BY <1>2, <1>4, <2>1, <2>3, OpenDecision DEF AccountsInv, DecidedOnce
  <2> QED
    BY <2>2, <2>3
<1> QED
  BY <1>3, <1>5, <1>6 DEF AccountsInv, DecidedOnce

LEMMA UserWritten ==
  ASSUME AccountsInv, NEW a \in Admins, WriteUser(a)
  PROVE AccountsInv'
<1>1. desk[a] \in RowEdits
  BY DEF WriteUser, AccountsInv, DesksOK, DeskEmpty, Decisions
<1>2. account' \in [People -> [exists : BOOLEAN, role : Roles, active : BOOLEAN]]
  <2> DEFINE d == desk[a]
  <2>1. account[d.on] \in [exists : BOOLEAN, role : Roles, active : BOOLEAN] /\ d.on \in People
    BY <1>1 DEF RowEdits, AccountsInv, DesksOK
  <2>2. NoAccount \in [exists : BOOLEAN, role : Roles, active : BOOLEAN]
    BY AccountsAssumption DEF NoAccount
  <2>3. CASE d.op = "role"
    BY <1>1, <2>1, <2>3 DEF WriteUser, RowEdits, AccountsInv, DesksOK
  <2>4. CASE d.op = "toggle"
    BY <1>1, <2>1, <2>4 DEF WriteUser, RowEdits, AccountsInv, DesksOK
  <2>5. CASE d.op = "delete"
    BY <1>1, <2>1, <2>2, <2>5 DEF WriteUser, RowEdits, AccountsInv, DesksOK
  <2> QED
    BY <1>1, <2>3, <2>4, <2>5 DEF RowEdits
<1> QED
  BY <1>2 DEF WriteUser, AccountsInv, DesksOK, DecidedOnce, Deciding, DeskEmpty

LEMMA AccountsInvStep == AccountsInv /\ [AccountsNext]_accountVars => AccountsInv'
<1> SUFFICES ASSUME AccountsInv, [AccountsNext]_accountVars PROVE AccountsInv'
  OBVIOUS
<1>1. CASE UNCHANGED accountVars
  BY <1>1 DEF accountVars, AccountsInv, DesksOK, DecidedOnce, Deciding
<1>2. ASSUME NEW p \in People, NEW role \in Roles, CreateUser(p, role) PROVE AccountsInv'
  BY <1>2 DEF CreateUser, AccountsInv, DesksOK, DecidedOnce, Deciding
<1>3. ASSUME NEW p \in People, NEW role \in Roles, NEW q \in RoleRequests, CreateRequest(p, q, role)
      PROVE AccountsInv'
  <2>1. q \notin granted /\ \A a \in Admins : Deciding(a) => desk[a].on # q
    BY <1>3 DEF CreateRequest, AccountsInv, DesksOK, DecidedOnce, NoRoleRequest, AskedRequests,
                RequestStatuses
  <2>2. DesksOK'
    BY <1>3 DEF CreateRequest, AccountsInv, DesksOK, AskedRequests, RequestStatuses
  <2>3. \A r \in RoleRequests \ {q} : request'[r] = request[r]
    BY <1>3 DEF CreateRequest, AccountsInv, DesksOK
  <2>4. \A a \in Admins : Deciding(a)' => Deciding(a) /\ desk'[a] = desk[a] /\ desk[a].on \in RoleRequests
    BY <1>3, OpenDecision DEF CreateRequest, Deciding
  <2> QED
    BY <1>3, <2>1, <2>2, <2>3, <2>4 DEF CreateRequest, AccountsInv, DesksOK, DecidedOnce
<1>4. ASSUME NEW a \in Admins, NEW op \in {"role", "toggle", "delete"}, NEW p \in People,
             NEW role \in Roles, ReadUser(a, op, p, role)
      PROVE AccountsInv'
  BY <1>4 DEF ReadUser, AccountsInv, DesksOK, DecidedOnce, Deciding, RowEdits
<1> QED
  BY <1>1, <1>2, <1>3, <1>4, RequestRead, DecisionMade, UserWritten DEF AccountsNext

\* A rejected request gave no role, unless two decisions on it overlapped.
THEOREM RejectionsStand == Spec => []RejectedNotGranted
<1>1. Init => AccountsInv
  BY AccountsInvInit DEF Init
<1>2. AccountsInv /\ [Next]_vars => AccountsInv'
  BY ComponentStep, AccountsInvStep
<1>3. AccountsInv => RejectedNotGranted
  BY DEF AccountsInv, DecidedOnce, RejectedNotGranted
<1> QED
  BY <1>1, <1>2, <1>3, PTL DEF Spec

(***************************************************************************)
(* The scheduler: unless the last persist was lost, a successor that reads *)
(* the snapshot has the memory that is lost with the process.              *)
(***************************************************************************)
JobTables == UNION {[D -> [status : JobStatuses, enabled : BOOLEAN]] : D \in SUBSET Jobs}
Memory(m) == DOMAIN m = {"jobs", "runs"} /\ m.jobs \in JobTables

SchedulerInv ==
  /\ Memory(memory) /\ (Memory(snapshot) \/ snapshot = NoSnapshot)
  /\ wanted \in [DOMAIN wanted -> BOOLEAN] /\ behind \in BOOLEAN /\ blind \in BOOLEAN
  /\ ~blind /\ ~behind => memory = Loaded(TRUE)
  /\ JobsKept

LEMMA JobTableParts ==
  \A f : f \in JobTables <=>
    DOMAIN f \subseteq Jobs /\ f \in [DOMAIN f -> [status : JobStatuses, enabled : BOOLEAN]]
BY DEF JobTables

LEMMA NoSnapshotIsNoMemory == ~Memory(NoSnapshot)
BY DEF NoSnapshot, Memory

LEMMA NoJobsIsMemory == Memory(NoJobs) /\ DOMAIN NoJobs.jobs = {}
<1>1. NoJobs.jobs \in JobTables
  BY JobTableParts DEF NoJobs
<1> QED
  BY <1>1 DEF NoJobs, Memory

LEMMA SchedulerInvInit == SchedulerInit => SchedulerInv
BY NoJobsIsMemory DEF SchedulerInit, SchedulerInv, Loaded, JobsKept, KnownJobs

\* A change of the memory that keeps its jobs as they were asked for.
LEMMA ChangeKept ==
  ASSUME SchedulerInv, NEW m, Memory(m), Change(m),
         wanted' \in [DOMAIN wanted' -> BOOLEAN],
         ~blind => /\ DOMAIN m.jobs = DOMAIN wanted'
                   /\ \A j \in DOMAIN m.jobs : m.jobs[j].enabled = wanted'[j]
  PROVE SchedulerInv'
<1>1. snapshot' = m \/ (snapshot' = snapshot /\ behind')
  BY DEF Change, Persisted
<1>2. /\ memory' = m /\ blind' = blind /\ behind' \in BOOLEAN
      /\ Memory(snapshot') \/ snapshot' = NoSnapshot
  BY DEF Change, Persisted, SchedulerInv
<1>3. ~behind' => memory' = Loaded(TRUE)'
  BY <1>1, <1>2, NoSnapshotIsNoMemory DEF Loaded
<1> QED
  BY <1>2, <1>3 DEF SchedulerInv, JobsKept, KnownJobs

LEMMA MemoryParts ==
  ASSUME SchedulerInv
  PROVE /\ DOMAIN memory = {"jobs", "runs"} /\ memory.jobs \in JobTables
        /\ KnownJobs \subseteq Jobs
        /\ memory.jobs \in [KnownJobs -> [status : JobStatuses, enabled : BOOLEAN]]
BY JobTableParts DEF SchedulerInv, Memory, KnownJobs

LEMMA SchedulerInvStep == SchedulerInv /\ [SchedulerNext]_schedulerVars => SchedulerInv'
<1> SUFFICES ASSUME SchedulerInv, [SchedulerNext]_schedulerVars PROVE SchedulerInv'
  OBVIOUS
<1> USE MemoryParts
<1> DEFINE Marks == [status : JobStatuses, enabled : BOOLEAN]
<1>1. CASE UNCHANGED schedulerVars
  BY <1>1 DEF schedulerVars, SchedulerInv, Loaded, JobsKept, KnownJobs
<1>2. ASSUME NEW j \in Jobs, CreateJob(j) PROVE SchedulerInv'
  <2> DEFINE m == [memory EXCEPT !.jobs = With(@, j, NewJob)]
  <2>1. m.jobs = With(memory.jobs, j, NewJob) /\ DOMAIN m = {"jobs", "runs"}
    OBVIOUS
  <2> HIDE DEF m
  <2>2. /\ DOMAIN m.jobs = KnownJobs \cup {j} /\ m.jobs[j] = NewJob
        /\ \A i \in KnownJobs \ {j} : m.jobs[i] = memory.jobs[i]
    BY <2>1 DEF With, KnownJobs
  <2>3. m.jobs \in JobTables
    <3>1. NewJob \in Marks
      BY DEF NewJob, JobStatuses
    <3>2. With(memory.jobs, j, NewJob) \in [KnownJobs \cup {j} -> Marks]
      BY <3>1 DEF With, KnownJobs
    <3> QED
      BY <2>1, <3>2 DEF JobTables
  <2>4. Memory(m)
    BY <2>1, <2>3 DEF Memory
  <2>5. /\ DOMAIN wanted' = DOMAIN wanted \cup {j} /\ wanted'[j] = TRUE
        /\ \A i \in DOMAIN wanted \ {j} : wanted'[i] = wanted[i]
        /\ wanted' \in [DOMAIN wanted' -> BOOLEAN]
    BY <1>2 DEF CreateJob, With, SchedulerInv
  <2>6. ~blind => /\ DOMAIN m.jobs = DOMAIN wanted'
                  /\ \A i \in DOMAIN m.jobs : m.jobs[i].enabled = wanted'[i]
    <3>1. NewJob.enabled = TRUE
      BY DEF NewJob
    <3> QED
      BY <2>2, <2>5, <3>1 DEF SchedulerInv, JobsKept
  <2> QED
    BY <1>2, <2>4, <2>5, <2>6, ChangeKept DEF CreateJob, m
<1>3. ASSUME NEW j \in Jobs, NEW enabled \in BOOLEAN, SetEnabled(j, enabled) PROVE SchedulerInv'
  <2> DEFINE m == [memory EXCEPT !.jobs[j].enabled = enabled]
  <2>1. /\ m.jobs = [memory.jobs EXCEPT ![j].enabled = enabled]
        /\ DOMAIN m = {"jobs", "runs"} /\ j \in KnownJobs
    BY <1>3 DEF SetEnabled
  <2> HIDE DEF m
  <2>2. /\ DOMAIN m.jobs = KnownJobs /\ m.jobs[j].enabled = enabled
        /\ \A i \in KnownJobs \ {j} : m.jobs[i] = memory.jobs[i]
        /\ m.jobs \in [KnownJobs -> Marks]
    BY <2>1 DEF KnownJobs
  <2>3. Memory(m)
    BY <2>1, <2>2, JobTableParts DEF Memory
  <2>5. /\ DOMAIN wanted' = DOMAIN wanted \cup {j} /\ wanted'[j] = enabled
        /\ \A i \in DOMAIN wanted \ {j} : wanted'[i] = wanted[i]
        /\ wanted' \in [DOMAIN wanted' -> BOOLEAN]
    BY <1>3 DEF SetEnabled, With, SchedulerInv
  <2>6. ~blind => /\ DOMAIN m.jobs = DOMAIN wanted'
                  /\ \A i \in DOMAIN m.jobs : m.jobs[i].enabled = wanted'[i]
    BY <2>1, <2>2, <2>5 DEF SchedulerInv, JobsKept, KnownJobs
  <2> QED
    BY <1>3, <2>3, <2>5, <2>6, ChangeKept DEF SetEnabled, m
<1>4. ASSUME NEW j \in Jobs, DeleteJob(j) PROVE SchedulerInv'
  <2> DEFINE m == [memory EXCEPT !.jobs = Minus(@, j)]
  <2>1. m.jobs = Minus(memory.jobs, j) /\ DOMAIN m = {"jobs", "runs"}
    OBVIOUS
  <2> HIDE DEF m
  <2>2. /\ DOMAIN m.jobs = KnownJobs \ {j}
        /\ \A i \in KnownJobs \ {j} : m.jobs[i] = memory.jobs[i]
        /\ m.jobs \in [KnownJobs \ {j} -> Marks]
    BY <2>1 DEF Minus, KnownJobs
  <2>3. Memory(m)
    BY <2>1, <2>2, JobTableParts DEF Memory
  <2>5. /\ DOMAIN wanted' = DOMAIN wanted \ {j}
        /\ \A i \in DOMAIN wanted \ {j} : wanted'[i] = wanted[i]
        /\ wanted' \in [DOMAIN wanted' -> BOOLEAN]
    BY <1>4 DEF DeleteJob, Minus, SchedulerInv
  <2>6. ~blind => /\ DOMAIN m.jobs = DOMAIN wanted'
                  /\ \A i \in DOMAIN m.jobs : m.jobs[i].enabled = wanted'[i]
    BY <2>2, <2>5 DEF SchedulerInv, JobsKept, KnownJobs
  <2> QED
    BY <1>4, <2>3, <2>5, <2>6, ChangeKept DEF DeleteJob, m
<1>5. ASSUME NEW j \in Jobs, BeginRun(j) PROVE SchedulerInv'
  <2> DEFINE m == [memory EXCEPT !.jobs[j].status = "RUNNING",
                                 !.runs = Append(@, [of |-> j, status |-> "RUNNING"])]
  <2>1. m.jobs = [memory.jobs EXCEPT ![j].status = "RUNNING"] /\ DOMAIN m = {"jobs", "runs"}
    OBVIOUS
  <2> HIDE DEF m
  <2>2. /\ DOMAIN m.jobs = KnownJobs /\ m.jobs \in [KnownJobs -> Marks]
        /\ \A i \in KnownJobs : m.jobs[i].enabled = memory.jobs[i].enabled
    <3>1. "RUNNING" \in JobStatuses /\ memory.jobs \in [KnownJobs -> Marks]
      BY DEF JobStatuses
    <3>2. DOMAIN m.jobs = KnownJobs
      BY <2>1 DEF KnownJobs
    <3>3. ASSUME NEW i \in KnownJobs
          PROVE m.jobs[i] \in Marks /\ m.jobs[i].enabled = memory.jobs[i].enabled
      BY <2>1, <3>1
    <3>4. m.jobs = [i \in DOMAIN m.jobs |-> m.jobs[i]]
      BY <2>1
    <3> QED
      BY <3>2, <3>3, <3>4
  <2>4. Memory(m)
    BY <2>1, <2>2, JobTableParts DEF Memory
  <2> QED
    BY <1>5, <2>2, <2>4, ChangeKept, ZenonT(40) DEF BeginRun, SchedulerInv, JobsKept, KnownJobs, m
<1>6. ASSUME EndRun PROVE SchedulerInv'
  <2>1. PICK s \in {"COMPLETED", "FAILED"} :
          Change([memory EXCEPT !.jobs[running].status = s, !.runs[Len(memory.runs)].status = s])
          /\ UNCHANGED wanted
    BY <1>6 DEF EndRun
  <2> DEFINE m == [memory EXCEPT !.jobs[running].status = s, !.runs[Len(memory.runs)].status = s]
  <2>2. m.jobs = [memory.jobs EXCEPT ![running].status = s] /\ DOMAIN m = {"jobs", "runs"}
    OBVIOUS
  <2> HIDE DEF m
  <2>3. /\ DOMAIN m.jobs = KnownJobs /\ m.jobs \in [KnownJobs -> Marks]
        /\ \A i \in KnownJobs : m.jobs[i].enabled = memory.jobs[i].enabled
    <3>1. s \in JobStatuses /\ memory.jobs \in [KnownJobs -> Marks]
      BY DEF JobStatuses
    <3>2. DOMAIN m.jobs = KnownJobs
      BY <2>2 DEF KnownJobs
    <3>3. ASSUME NEW i \in KnownJobs
          PROVE m.jobs[i] \in Marks /\ m.jobs[i].enabled = memory.jobs[i].enabled
      BY <2>2, <3>1
    <3>4. m.jobs = [i \in DOMAIN m.jobs |-> m.jobs[i]]
      BY <2>2
    <3> QED
      BY <3>2, <3>3, <3>4
  <2>5. Memory(m)
    BY <2>2, <2>3, JobTableParts DEF Memory
  <2> QED
    BY <2>1, <2>3, <2>5, ChangeKept, ZenonT(40) DEF SchedulerInv, JobsKept, KnownJobs, m
<1>7. ASSUME Restart PROVE SchedulerInv'
  <2>1. PICK ok \in BOOLEAN : memory' = Loaded(ok) /\ blind' = (blind \/ behind \/ ~ok)
    BY <1>7 DEF Restart
  <2>2. behind' = FALSE /\ snapshot' = snapshot /\ wanted' = wanted
    BY <1>7 DEF Restart
  <2>3. Memory(memory')
    BY <2>1, NoJobsIsMemory DEF Loaded, SchedulerInv
  <2>4. ~blind' => memory' = memory /\ memory' = Loaded(TRUE)'
    BY <2>1, <2>2 DEF SchedulerInv, Loaded
  <2> QED
    BY <2>1, <2>2, <2>3, <2>4 DEF SchedulerInv, JobsKept, KnownJobs
<1> QED
  BY <1>1, <1>2, <1>3, <1>4, <1>5, <1>6, <1>7 DEF SchedulerNext

\* A successor has the jobs as the calls left them, unless it, or one before it,
\* began without Redis or after a persist that was lost.
THEOREM JobsAreKept == Spec => []JobsKept
<1>1. Init => SchedulerInv
  BY SchedulerInvInit DEF Init
<1>2. SchedulerInv /\ [Next]_vars => SchedulerInv'
  BY ComponentStep, SchedulerInvStep
<1>3. SchedulerInv => JobsKept
  BY DEF SchedulerInv
<1> QED
  BY <1>1, <1>2, <1>3, PTL DEF Spec

(***************************************************************************)
(* The training page and its card.                                         *)
(***************************************************************************)
PageFields ==
  ui = [step |-> ui.step, dataset |-> ui.dataset, split |-> ui.split, set |-> ui.set,
        visit |-> ui.visit, listed |-> ui.listed, create |-> ui.create,
        generate |-> ui.generate, under |-> ui.under, moved |-> ui.moved]

PageInv == PageFields /\ FeaturesFollowSplit

LEMMA PageInvInit == PageInit => PageInv
BY DEF PageInit, Opened, PageInv, PageFields, FeaturesFollowSplit

LEMMA PageInvStep == PageInv /\ [PageNext]_pageVars => PageInv'
<1> SUFFICES ASSUME PageInv, [PageNext]_pageVars PROVE PageInv'
  OBVIOUS
<1> USE DEF PageInv, PageFields, FeaturesFollowSplit
<1>1. CASE UNCHANGED pageVars
  BY <1>1 DEF pageVars
<1>2. CASE GoToStep \/ JobsFetched \/ PickDataset \/ RequestSplit \/ RequestRefused \/ StartTraining
  BY <1>2 DEF GoToStep, JobsFetched, PickDataset, RequestSplit, RequestRefused, StartTraining
<1>3. CASE PickSplit
  BY <1>3 DEF PickSplit, Picked
<1>4. CASE SplitAnswered \/ DeleteSplit
  BY <1>4 DEF SplitAnswered, DeleteSplit, Moved
<1>5. CASE RequestFeatures \/ FeaturesAccepted \/ SetComputed
  BY <1>5 DEF RequestFeatures, FeaturesAccepted, SetComputed
<1>6. CASE FeaturesAnswered
  BY <1>6 DEF FeaturesAnswered
<1>7. CASE PickSet \/ DeleteSet
  BY <1>7, ZenonT(40) DEF PickSet, DeleteSet
<1>8. CASE TrainingAccepted
  BY <1>8 DEF TrainingAccepted, Opened
<1>9. CASE ReloadPage
  <2>1. ui' = [step |-> ui.step, dataset |-> ui.dataset, split |-> ui.split, set |-> ui.set,
               visit |-> ui.visit + 1, listed |-> {}, create |-> NothingSent,
               generate |-> NothingSent, under |-> ui.under, moved |-> ui.moved]
    BY <1>9 DEF ReloadPage, Opened
  <2> QED
    BY <2>1
<1> QED
  BY <1>1, <1>2, <1>3, <1>4, <1>5, <1>6, <1>7, <1>8, <1>9 DEF PageNext

\* Each trigger but the one that is set was given back by a refusal.
CardTyped ==
  card \in [shown : CardSets \cup {NoCardSet}, triggered : BOOLEAN, pending : BOOLEAN, tab : BOOLEAN,
            own : Nat, refused : 0..MaxRefusals]

TriggerKept == card.own <= IF card.triggered THEN card.refused + 1 ELSE card.refused

CardInv == CardTyped /\ TriggerKept

LEMMA CardInvInit == CardInit => CardInv
BY CardAssumption DEF CardInit, Mounted, CardInv, CardTyped, TriggerKept

LEMMA CardInvStep == CardInv /\ [CardNext]_cardVars => CardInv'
<1> SUFFICES ASSUME CardInv, [CardNext]_cardVars PROVE CardInv'
  OBVIOUS
<1> USE CardAssumption DEF CardInv, CardTyped, TriggerKept
<1>1. CASE UNCHANGED cardVars \/ Poll \/ SetEnds
  BY <1>1 DEF cardVars, Poll, SetEnds
<1>2. CASE ShowSet
  <2>1. PICK set \in CardSets \cup {NoCardSet} :
          card' = Mounted(set) \/ card' = [card EXCEPT !.shown = set]
    BY <1>2 DEF ShowSet
  <2>2. CASE card' = Mounted(set)
    BY <2>2 DEF Mounted
  <2>3. CASE card' = [card EXCEPT !.shown = set]
    BY <2>3
  <2> QED
    BY <2>1, <2>2, <2>3
<1>3. CASE TriggerAnalysis
  <2>1. /\ ~card.triggered /\ card.shown \in CardSets
        /\ card' = [card EXCEPT !.triggered = TRUE, !.pending = TRUE, !.own = @ + 1]
    BY <1>3 DEF TriggerAnalysis, MayTrigger
  <2>2. card.own + 1 \in Nat
    OBVIOUS
  <2>3. CardTyped'
    BY <2>1, <2>2
  <2> QED
    BY <2>1, <2>3
<1>4. CASE RetryAnalysis
  BY <1>4 DEF RetryAnalysis
<1>5. CASE AnalysisAnswered
  <2>1. CASE card' = [card EXCEPT !.pending = FALSE]
    BY <2>1
  <2>2. CASE /\ card.refused < MaxRefusals
             /\ card' = [card EXCEPT !.pending = FALSE, !.triggered = FALSE, !.refused = @ + 1]
    <3>1. card.refused + 1 \in 0..MaxRefusals
      BY <2>2
    <3>2. CardTyped'
      BY <2>2, <3>1
    <3>3. /\ card'.own = card.own /\ card'.refused = card.refused + 1 /\ ~card'.triggered
          /\ card.own <= card.refused + 1
      BY <2>2
    <3> QED
      BY <3>2, <3>3
  <2> QED
    BY <1>5, <2>1, <2>2 DEF AnalysisAnswered
<1>6. CASE ToggleTab
  BY <1>6 DEF ToggleTab
<1> QED
  BY <1>1, <1>2, <1>3, <1>4, <1>5, <1>6 DEF CardNext

\* The selected features follow the split but for a late answer, and a card asks
\* by itself for one analysis and one more after each request that was refused.
THEOREM PageFollows == Spec => []PageFollowsUser
<1>1. Init => PageInv /\ CardInv
  BY PageInvInit, CardInvInit DEF Init
<1>2. (PageInv /\ CardInv) /\ [Next]_vars => (PageInv /\ CardInv)'
  BY ComponentStep, PageInvStep, CardInvStep
<1>3. PageInv /\ CardInv => PageFollowsUser
  BY DEF PageInv, CardInv, CardTyped, TriggerKept, PageFollowsUser, AnalysedOnce
<1> QED
  BY <1>1, <1>2, <1>3, PTL DEF Spec

(***************************************************************************)
(* Alerts: no row gets ACTIVE again, and none comes back into the window,  *)
(* so what a search did not find never is a twin of what it inserts.       *)
(***************************************************************************)
AlertRows == [key : Keys, status : {"ACTIVE", "ACKNOWLEDGED", "RESOLVED"},
              dated : BOOLEAN, known : SUBSET Nat]

AlertTable ==
  /\ alerts \in Seq(AlertRows) /\ DOMAIN raise = Raisers /\ DOMAIN edit = Users
  /\ recent \subseteq Rows

\* What a raiser about to insert knew holds nothing it would duplicate.
SearchedInVain ==
  \A r \in Raisers : raise[r].pc = "insert" =>
    /\ raise[r].key \in Keys /\ raise[r].known \subseteq Rows
    /\ \A a \in raise[r].known \cap recent :
         alerts[a].key = raise[r].key => alerts[a].status # "ACTIVE"

AlertsInv == AlertTable /\ SearchedInVain /\ DuplicatesOnlyByRace

\* What every step but an insertion does to the rows there are.
RowsKept ==
  /\ alerts' \in Seq(AlertRows) /\ Rows' = Rows
  /\ \A a \in Rows :
       /\ alerts'[a].key = alerts[a].key /\ alerts'[a].known = alerts[a].known
       /\ alerts'[a].status = "ACTIVE" => alerts[a].status = "ACTIVE"

LEMMA KeptTwins ==
  ASSUME AlertsInv, RowsKept, recent' \subseteq recent, DOMAIN edit' = Users, DOMAIN raise' = Raisers,
         \A r \in Raisers : raise'[r].pc = "insert" =>
           \/ raise'[r] = raise[r]
           \/ /\ raise'[r].known = Rows
              /\ raise'[r].key \in Keys
              /\ \A a \in recent : alerts[a].key = raise'[r].key => alerts[a].status # "ACTIVE"
  PROVE AlertsInv'
<1>1. AlertTable'
  BY DEF AlertsInv, AlertTable, RowsKept
<1>2. SearchedInVain'
  BY DEF AlertsInv, AlertTable, SearchedInVain, RowsKept
<1>3. DuplicatesOnlyByRace'
  BY DEF AlertsInv, AlertTable, DuplicatesOnlyByRace, RowsKept
<1> QED
  BY <1>1, <1>2, <1>3 DEF AlertsInv

LEMMA RowsOfTable ==
  ASSUME AlertTable
  PROVE /\ Rows = 1..Len(alerts) /\ Len(alerts) \in Nat
        /\ \A a \in Rows : alerts[a] \in AlertRows
BY DEF AlertTable, Rows

LEMMA SequenceOfRows ==
  ASSUME NEW f, NEW n \in Nat, f = [a \in 1..n |-> f[a]], \A a \in 1..n : f[a] \in AlertRows
  PROVE f \in Seq(AlertRows)
OBVIOUS

LEMMA OneRowChanged ==
  ASSUME AlertTable, NEW i, NEW x,
         i \in Rows => /\ x \in AlertRows /\ x.key = alerts[i].key /\ x.known = alerts[i].known
                       /\ x.status = "ACTIVE" => alerts[i].status = "ACTIVE",
         alerts' = [alerts EXCEPT ![i] = x]
  PROVE RowsKept
<1>1. Rows' = Rows /\ \A a \in Rows : alerts'[a] = IF a = i THEN x ELSE alerts[a]
  BY DEF Rows
<1>2. alerts' \in Seq(AlertRows)
  <2>1. alerts' = [a \in 1..Len(alerts) |-> alerts'[a]]
    BY RowsOfTable DEF Rows
  <2>2. \A a \in 1..Len(alerts) : alerts'[a] \in AlertRows
    BY <1>1, RowsOfTable
  <2> QED
    BY <2>1, <2>2, RowsOfTable, SequenceOfRows
<1> QED
  BY <1>1, <1>2 DEF RowsKept, AlertTable

LEMMA AlertInserted ==
  ASSUME AlertsInv, NEW r \in Raisers, InsertAlert(r)
  PROVE AlertsInv'
<1> DEFINE n == Len(alerts) + 1
           x == [key |-> raise[r].key, status |-> "ACTIVE", dated |-> FALSE, known |-> raise[r].known]
<1>1. Len(alerts) \in Nat /\ Rows = 1..Len(alerts)
  BY DEF AlertsInv, AlertTable, Rows
<1>2. /\ Rows' = 1..n /\ alerts'[n] = x /\ \A a \in Rows : alerts'[a] = alerts[a]
      /\ Len(alerts') = n
  BY <1>1 DEF InsertAlert, AlertsInv, AlertTable, Rows
<1>3. recent' = recent \cup {n} /\ raise[r].pc = "insert" /\ DOMAIN edit' = Users
  BY DEF InsertAlert, AlertsInv, AlertTable
<1>4. /\ DOMAIN raise' = Raisers /\ raise'[r].pc # "insert"
      /\ \A q \in Raisers \ {r} : raise'[q] = raise[q]
  BY DEF InsertAlert, Continue, IdleRaiser, AlertsInv, AlertTable
<1>5. AlertTable'
  <2>1. raise[r].known \subseteq Nat
    BY <1>1, <1>3 DEF AlertsInv, SearchedInVain
  <2>2. x \in AlertRows
    BY <1>3, <2>1 DEF AlertRows, AlertsInv, SearchedInVain
  <2>3. alerts' \in Seq(AlertRows)
    <3>1. alerts' = Append(alerts, x)
      BY DEF InsertAlert
    <3> HIDE DEF x
    <3> QED
      BY <2>2, <3>1 DEF AlertsInv, AlertTable
  <2>4. recent' \subseteq Rows'
    <3>1. recent \subseteq Rows
      BY DEF AlertsInv, AlertTable
    <3>2. Rows \subseteq 1..n /\ n \in 1..n
      BY <1>1
    <3> QED
      BY <1>2, <1>3, <3>1, <3>2
  <2> QED
    BY <1>3, <1>4, <2>3, <2>4 DEF AlertTable
<1>6. SearchedInVain'
  <2> SUFFICES ASSUME NEW q \in Raisers, raise'[q].pc = "insert"
               PROVE /\ raise'[q].key \in Keys /\ raise'[q].known \subseteq Rows'
                     /\ \A a \in raise'[q].known \cap recent' :
                          alerts'[a].key = raise'[q].key => alerts'[a].status # "ACTIVE"
    BY DEF SearchedInVain
  <2>1. raise'[q] = raise[q] /\ raise[q].pc = "insert"
    BY <1>4
  <2>2. raise[q].key \in Keys /\ raise[q].known \subseteq Rows /\ n \notin Rows
    BY <1>1, <2>1 DEF AlertsInv, SearchedInVain
  <2> QED
    BY <1>1, <1>2, <1>3, <2>1, <2>2 DEF AlertsInv, SearchedInVain
<1>7. DuplicatesOnlyByRace'
  <2> SUFFICES ASSUME NEW a \in recent', NEW b \in recent', a < b, alerts'[a].key = alerts'[b].key,
                      alerts'[a].status = "ACTIVE", alerts'[b].status = "ACTIVE"
               PROVE a \notin alerts'[b].known
    BY DEF DuplicatesOnlyByRace
  <2>0. recent \subseteq 1..Len(alerts)
    BY <1>1 DEF AlertsInv, AlertTable
  <2>1. a \in recent /\ a \in Rows /\ alerts'[a] = alerts[a]
    BY <1>1, <1>2, <1>3, <2>0
  <2>2. CASE b = n
    <3> HIDE DEF n
    <3>1. alerts[a].key = raise[r].key /\ alerts'[b].known = raise[r].known
      BY <1>2, <2>1, <2>2
    <3> QED
      BY <1>3, <2>1, <3>1 DEF AlertsInv, SearchedInVain
  <2>3. CASE b \in recent
    BY <1>2, <2>1, <2>3 DEF AlertsInv, AlertTable, DuplicatesOnlyByRace
  <2> QED
    BY <1>3, <2>2, <2>3
<1> QED
  BY <1>5, <1>6, <1>7 DEF AlertsInv

LEMMA AlertsInvInit == AlertsInit => AlertsInv
BY DEF AlertsInit, AlertsInv, AlertTable, SearchedInVain, DuplicatesOnlyByRace, IdleRaiser, Rows

LEMMA AlertsInvStep == AlertsInv /\ [AlertsNext]_alertVars => AlertsInv'
<1> SUFFICES ASSUME AlertsInv, [AlertsNext]_alertVars PROVE AlertsInv'
  OBVIOUS
<1>0. ASSUME UNCHANGED alerts PROVE RowsKept
  BY <1>0 DEF RowsKept, AlertsInv, AlertTable, Rows
<1>1. CASE UNCHANGED alertVars
  BY <1>0, <1>1, KeptTwins DEF alertVars, AlertsInv, AlertTable
<1>2. ASSUME NEW r \in Raisers, NEW k \in Keys, FindDuplicate(r, k) PROVE AlertsInv'
  <2>1. DOMAIN raise' = Raisers /\ \A q \in Raisers \ {r} : raise'[q] = raise[q]
    BY <1>2 DEF FindDuplicate, Continue, AlertsInv, AlertTable
  <2>2. raise'[r].pc = "insert" =>
          /\ raise'[r].known = Rows /\ raise'[r].key \in Keys
          /\ \A a \in recent : alerts[a].key = raise'[r].key => alerts[a].status # "ACTIVE"
    BY <1>2 DEF FindDuplicate, Continue, IdleRaiser, Duplicates, AlertsInv, AlertTable
  <2> QED
    BY <1>0, <1>2, <2>1, <2>2, KeptTwins DEF FindDuplicate, AlertsInv, AlertTable
<1>3. ASSUME NEW r \in Raisers, CloseTraining(r) PROVE AlertsInv'
  <2> DEFINE i == raise[r].row
  <2>1. RowsKept
    <3>1. alerts' = [alerts EXCEPT ![i] = Resolved(alerts[i])]
      BY <1>3 DEF CloseTraining
    <3>2. i \in Rows => /\ Resolved(alerts[i]) \in AlertRows /\ Resolved(alerts[i]).key = alerts[i].key
                        /\ Resolved(alerts[i]).known = alerts[i].known
                        /\ Resolved(alerts[i]).status # "ACTIVE"
      BY RowsOfTable, ZenonT(40) DEF Resolved, AlertRows, AlertsInv
    <3> QED
      BY <3>1, <3>2, OneRowChanged DEF AlertsInv
  <2> QED
    BY <1>3, <2>1, KeptTwins DEF CloseTraining, IdleRaiser, AlertsInv, AlertTable
<1>4. ASSUME NEW r \in Raisers, RaiserDies(r) PROVE AlertsInv'
  BY <1>0, <1>4, KeptTwins DEF RaiserDies, IdleRaiser, AlertsInv, AlertTable
<1>5. ASSUME NEW u \in Users, NEW op \in {"acknowledge", "resolve"}, NEW a \in Rows, GetAlert(u, op, a)
      PROVE AlertsInv'
  BY <1>0, <1>5, KeptTwins DEF GetAlert, AlertsInv, AlertTable
<1>6. ASSUME NEW u \in Users, CommitEdit(u) PROVE AlertsInv'
  <2> DEFINE i == edit[u].row
             x == IF edit[u].pc = "acknowledge" THEN Acknowledged(alerts[i], edit[u].read)
                  ELSE ResolvedByUser(alerts[i], edit[u].read)
             SameAlert(y) == /\ y \in AlertRows /\ y.key = alerts[i].key /\ y.known = alerts[i].known
                             /\ y.status = "ACTIVE" => alerts[i].status = "ACTIVE"
  <2>1. alerts' = [alerts EXCEPT ![i] = x]
    BY <1>6 DEF CommitEdit
  <2>2. ASSUME i \in Rows PROVE SameAlert(x)
    <3>1. \A s \in {"RESOLVED", "ACKNOWLEDGED"} : SameAlert(WriteStatus(alerts[i], edit[u].read, s))
      BY <2>2, RowsOfTable DEF WriteStatus, AlertRows, AlertsInv
    <3>2. ASSUME NEW y, SameAlert(y), NEW z \in BOOLEAN PROVE SameAlert([y EXCEPT !.dated = z])
      BY <3>2 DEF AlertRows
    <3>3. SameAlert(Acknowledged(alerts[i], edit[u].read))
      BY <3>1, <3>2 DEF Acknowledged
    <3>4. SameAlert(ResolvedByUser(alerts[i], edit[u].read))
      BY <3>1, <3>2 DEF ResolvedByUser
    <3> QED
      BY <3>3, <3>4
  <2>3. RowsKept
    <3> HIDE DEF x
    <3> QED
      BY <2>1, <2>2, OneRowChanged DEF AlertsInv
  <2> QED
    BY <1>6, <2>3, KeptTwins DEF CommitEdit, AlertsInv, AlertTable
<1>7. CASE AutoResolve
  <2>1. RowsKept
    <3>1. Rows' = Rows /\ \A a \in Rows : alerts'[a] \in {Resolved(alerts[a]), alerts[a]}
      BY <1>7 DEF AutoResolve, Rows
    <3>2. \A a \in Rows :
            /\ Resolved(alerts[a]) \in AlertRows /\ Resolved(alerts[a]).key = alerts[a].key
            /\ Resolved(alerts[a]).known = alerts[a].known
            /\ Resolved(alerts[a]).status # "ACTIVE"
      BY RowsOfTable DEF Resolved, AlertRows, AlertsInv
    <3>3. alerts' \in Seq(AlertRows)
      <4>1. Rows = 1..Len(alerts) /\ Len(alerts) \in Nat
        BY DEF Rows, AlertsInv, AlertTable
      <4>2. alerts' = [a \in 1..Len(alerts) |-> alerts'[a]]
        BY <1>7, <4>1 DEF AutoResolve
      <4>3. \A a \in 1..Len(alerts) : alerts'[a] \in AlertRows
        BY <3>1, <3>2, <4>1, RowsOfTable DEF AlertsInv
      <4> QED
        BY <4>1, <4>2, <4>3, SequenceOfRows
    <3> QED
      BY <3>1, <3>2, <3>3 DEF RowsKept, AlertsInv, AlertTable
  <2> QED
    BY <1>7, <2>1, KeptTwins DEF AutoResolve, AlertsInv, AlertTable
<1>8. CASE WindowMoves
  BY <1>0, <1>8, KeptTwins DEF WindowMoves, AlertsInv, AlertTable
<1> QED
  BY <1>1, <1>2, <1>3, <1>4, <1>5, <1>6, <1>7, <1>8, AlertInserted DEF AlertsNext

(***************************************************************************)
(* Baselines: the rows of one request come and go together, so a DELETE    *)
(* that saw one of them removes all that are left of them.                 *)
(***************************************************************************)
Whole(some) == \A b \in some : b \in NewBaselines(b.by) /\ NewBaselines(b.by) \subseteq some

\* Rows that were committed when somebody read them.
Committed(some) == \A b \in some : b.by \in Setters /\ setting[b.by].pc = "over"

BaselineRecords == [metric : Measures, by : Setters, over : SUBSET Setters]
SetterStates == [pc : {"idle", "delete", "insert", "over"},
                 target : SUBSET BaselineRecords, dropped : SUBSET BaselineRecords]

\* What the DELETE of a request has seen, and what it removes.
SetterOK(x) ==
  /\ x.dropped \subseteq x.target
  /\ Whole(x.target) /\ Committed(x.target) /\ Whole(x.dropped)
  /\ x.pc = "insert" => x.target \cap baselines \subseteq x.dropped

BaselinesInv ==
  /\ setting \in [Setters -> SetterStates] /\ baselines \subseteq BaselineRecords
  /\ Whole(baselines) /\ Committed(baselines)
  /\ \A s \in Setters : SetterOK(setting[s])
  /\ \A a, b \in baselines : a.by \notin b.over

LEMMA NewRecords ==
  ASSUME BaselinesInv, NEW s \in Setters
  PROVE /\ NewBaselines(s) \subseteq BaselineRecords
        /\ \A b \in NewBaselines(s) : b.by = s /\ b.over = {c.by : c \in setting[s].target}
<1>1. {c.by : c \in setting[s].target} \subseteq Setters
  BY DEF BaselinesInv, SetterStates, BaselineRecords
<1> QED
  BY <1>1 DEF NewBaselines, BaselineRecords

\* What is over stays, so what is whole and committed stays so.
LEMMA WholeKept ==
  ASSUME \A t \in Setters : setting[t].pc = "over" => setting'[t] = setting[t],
         NEW some, Whole(some), Committed(some)
  PROVE /\ \A b \in some : b \in NewBaselines(b.by)' /\ NewBaselines(b.by)' \subseteq some
        /\ \A b \in some : b.by \in Setters /\ setting'[b.by].pc = "over"
<1> SUFFICES ASSUME NEW b \in some
             PROVE /\ b \in NewBaselines(b.by)' /\ NewBaselines(b.by)' \subseteq some
                   /\ b.by \in Setters /\ setting'[b.by].pc = "over"
  OBVIOUS
<1>1. b.by \in Setters /\ setting'[b.by] = setting[b.by] /\ setting'[b.by].pc = "over"
  BY DEF Committed
<1>2. NewBaselines(b.by)' = NewBaselines(b.by)
  BY <1>1 DEF NewBaselines
<1> QED
  BY <1>1, <1>2 DEF Whole

LEMMA SetterMoves ==
  ASSUME BaselinesInv, NEW s \in Setters, NEW x \in SetterStates, setting[s].pc # "over",
         setting' = [setting EXCEPT ![s] = x], SetterOK(x), baselines' = baselines
  PROVE BaselinesInv'
<1>1. \A t \in Setters : setting[t].pc = "over" => setting'[t] = setting[t]
  BY DEF BaselinesInv
<1>2. Whole(baselines)' /\ Committed(baselines)'
  BY <1>1, WholeKept DEF BaselinesInv, Whole, Committed
<1>3. ASSUME NEW t \in Setters PROVE SetterOK(setting[t])'
  <2> DEFINE y == setting'[t]
  <2>1. SetterOK(y)
    BY DEF BaselinesInv
  <2>2. Committed(y.dropped)
    BY <2>1 DEF SetterOK, Committed
  <2>3. /\ \A b \in y.target : b \in NewBaselines(b.by)' /\ NewBaselines(b.by)' \subseteq y.target
        /\ \A b \in y.target : b.by \in Setters /\ setting'[b.by].pc = "over"
    BY <1>1, <2>1, WholeKept DEF SetterOK
  <2>4. \A b \in y.dropped : b \in NewBaselines(b.by)' /\ NewBaselines(b.by)' \subseteq y.dropped
    BY <1>1, <2>1, <2>2, WholeKept DEF SetterOK
  <2> QED
    BY <2>1, <2>3, <2>4 DEF SetterOK, Whole, Committed
<1> QED
  BY <1>2, <1>3 DEF BaselinesInv

LEMMA BaselinesCommitted ==
  ASSUME BaselinesInv, NEW s \in Setters, CommitBaselines(s)
  PROVE BaselinesInv'
<1> DEFINE new == NewBaselines(s)
           dropped == setting[s].dropped
           target == setting[s].target
<1>1. /\ setting[s].pc = "insert" /\ baselines' = (baselines \ dropped) \cup new
      /\ setting' = [setting EXCEPT ![s].pc = "over"]
  BY DEF CommitBaselines, ReplacedBaselines
<1>2. /\ SetterOK(setting[s]) /\ target \cap baselines \subseteq dropped
      /\ setting' \in [Setters -> SetterStates]
      /\ \A t \in Setters : setting'[t].target = setting[t].target /\ setting'[t].dropped = setting[t].dropped
      /\ \A t \in Setters : setting[t].pc = "over" => setting'[t] = setting[t]
      /\ \A t \in Setters \ {s} : setting'[t] = setting[t]
      /\ setting'[s].pc = "over"
  BY <1>1 DEF BaselinesInv, SetterOK, SetterStates
<1>3. \A t \in Setters : NewBaselines(t)' = NewBaselines(t)
  BY <1>2 DEF NewBaselines
<1>4. /\ new \subseteq BaselineRecords
      /\ \A b \in new : b.by = s /\ b.over = {c.by : c \in target}
  BY NewRecords
<1>5. \A t \in Setters : t \in {c.by : c \in target} => setting[t].pc = "over"
  BY <1>2 DEF SetterOK, Committed
<1>6. Whole(baselines)'
  <2>1. ASSUME NEW b \in baselines \ dropped
        PROVE b \in NewBaselines(b.by) /\ NewBaselines(b.by) \subseteq baselines \ dropped
    <3>1. b.by \in Setters /\ b \in NewBaselines(b.by) /\ NewBaselines(b.by) \subseteq baselines
      BY DEF BaselinesInv, Whole, Committed
    <3>2. ASSUME NEW c \in NewBaselines(b.by), c \in dropped PROVE FALSE
      <4>1. c.by = b.by
        BY <3>1, NewRecords
      <4>2. NewBaselines(b.by) \subseteq dropped
        BY <1>2, <3>2, <4>1 DEF SetterOK, Whole
      <4> QED
        BY <3>1, <4>2
    <3> QED
      BY <3>1, <3>2
  <2>2. \A b \in baselines : b.by \in Setters
    BY DEF BaselinesInv, Committed
  <2> QED
    BY <1>1, <1>3, <1>4, <2>1, <2>2 DEF Whole
<1>7. Committed(baselines)'
  BY <1>1, <1>2, <1>4 DEF BaselinesInv, Committed
<1>8. ASSUME NEW t \in Setters PROVE SetterOK(setting[t])'
  <2>1. SetterOK(setting[t])
    BY DEF BaselinesInv
  <2>2. Whole(setting[t].target)' /\ Whole(setting[t].dropped)' /\ Committed(setting[t].target)'
    BY <1>2, <1>3, <2>1 DEF SetterOK, Whole, Committed
  <2>3. ASSUME setting'[t].pc = "insert" PROVE (setting[t].target \cap baselines \subseteq setting[t].dropped)'
    <3>1. t # s /\ setting'[t] = setting[t]
      BY <1>2, <2>3
    <3>2. setting[t].target \cap new = {}
      BY <1>1, <1>4, <2>1 DEF SetterOK, Committed
    <3> QED
      BY <1>1, <2>1, <2>3, <3>1, <3>2 DEF SetterOK
  <2> QED
    BY <1>2, <2>1, <2>2, <2>3 DEF SetterOK
<1>9. ASSUME NEW a \in baselines', NEW b \in baselines' PROVE a.by \notin b.over
  <2>1. CASE b \in new
    <3>1. CASE a \in new
      BY <1>1, <1>4, <1>5, <2>1, <3>1
    <3>2. CASE a \in baselines \ dropped
      <4> SUFFICES ASSUME a.by \in b.over PROVE FALSE
        OBVIOUS
      <4>1. PICK c \in target : c.by = a.by
        BY <1>4, <2>1
      <4>2. a \in NewBaselines(a.by) /\ NewBaselines(c.by) \subseteq target
        BY <1>2, <3>2 DEF BaselinesInv, Whole, SetterOK
      <4> QED
        BY <1>2, <3>2, <4>1, <4>2
    <3> QED
      BY <1>1, <3>1, <3>2
  <2>2. CASE b \in baselines \ dropped
    <3>1. CASE a \in baselines
      BY <2>2, <3>1 DEF BaselinesInv
    <3>2. CASE a \in new
      <4>1. b.by \in Setters /\ b \in NewBaselines(b.by)
        BY <2>2 DEF BaselinesInv, Whole, Committed
      <4>2. b.over = {c.by : c \in setting[b.by].target}
        BY <4>1, NewRecords
      <4>3. \A c \in setting[b.by].target : setting[c.by].pc = "over"
        BY <4>1 DEF BaselinesInv, SetterOK, Committed
      <4> QED
        BY <1>1, <1>4, <3>2, <4>2, <4>3
    <3> QED
      BY <1>1, <3>1, <3>2
  <2> QED
    BY <1>1, <2>1, <2>2
<1> QED
  BY <1>1, <1>2, <1>4, <1>6, <1>7, <1>8, <1>9 DEF BaselinesInv

LEMMA BaselinesInvInit == BaselinesInit => BaselinesInv
<1> SUFFICES ASSUME BaselinesInit PROVE BaselinesInv
  OBVIOUS
<1>1. SetterIdle \in SetterStates /\ SetterIdle.target = {} /\ SetterIdle.dropped = {}
  BY DEF SetterIdle, SetterStates
<1>2. SetterOK(SetterIdle)
  BY <1>1 DEF SetterOK, Whole, Committed
<1> QED
  BY <1>1, <1>2 DEF BaselinesInit, BaselinesInv, Whole, Committed

LEMMA BaselinesInvStep == BaselinesInv /\ [BaselinesNext]_baselineVars => BaselinesInv'
<1> SUFFICES ASSUME BaselinesInv, [BaselinesNext]_baselineVars PROVE BaselinesInv'
  OBVIOUS
<1>1. CASE UNCHANGED <<baselines, setting>>
  BY <1>1 DEF BaselinesInv, SetterOK, Whole, Committed, NewBaselines
<1>2. ASSUME NEW s \in Setters, BeginSetting(s) PROVE BaselinesInv'
  <2> DEFINE x == [pc |-> "delete", target |-> baselines, dropped |-> {}]
  <2>1. x \in SetterStates /\ x.target = baselines /\ x.dropped = {} /\ x.pc = "delete"
    BY DEF SetterStates, BaselinesInv
  <2>2. SetterOK(x)
    BY <2>1 DEF SetterOK, BaselinesInv, Whole
  <2> HIDE DEF x
  <2> QED
    BY <1>2, <2>1, <2>2, SetterMoves DEF BeginSetting, x
<1>3. ASSUME NEW s \in Setters, DeleteBaselines(s) PROVE BaselinesInv'
  <2> DEFINE x == [setting[s] EXCEPT !.pc = "insert", !.dropped = setting[s].target \cap baselines]
  <2>1. /\ x \in SetterStates /\ x.target = setting[s].target /\ x.pc = "insert"
        /\ x.dropped = setting[s].target \cap baselines
    BY DEF SetterStates, BaselinesInv
  <2>2. SetterOK(setting[s])
    BY DEF BaselinesInv
  <2>3. SetterOK(x)
    <3> HIDE DEF x
    <3>1. Whole(x.dropped)
      BY <2>1, <2>2 DEF SetterOK, BaselinesInv, Whole
    <3> QED
      BY <2>1, <2>2, <3>1 DEF SetterOK
  <2>4. setting' = [setting EXCEPT ![s] = x]
    BY <1>3 DEF DeleteBaselines
  <2> HIDE DEF x
  <2> QED
    BY <1>3, <2>1, <2>3, <2>4, SetterMoves DEF DeleteBaselines
<1>4. ASSUME NEW s \in Setters, SetterFails(s) PROVE BaselinesInv'
  <2> DEFINE x == [setting[s] EXCEPT !.pc = "over"]
  <2>1. /\ x \in SetterStates /\ x.target = setting[s].target /\ x.pc = "over"
        /\ x.dropped = setting[s].dropped
    BY DEF SetterStates, BaselinesInv
  <2>2. SetterOK(x)
    <3> HIDE DEF x
    <3> QED
      BY <2>1 DEF SetterOK, BaselinesInv
  <2>3. setting' = [setting EXCEPT ![s] = x]
    BY <1>4 DEF SetterFails
  <2> HIDE DEF x
  <2> QED
    BY <1>4, <2>1, <2>2, <2>3, SetterMoves DEF SetterFails
<1> QED
  BY <1>1, <1>2, <1>3, <1>4, BaselinesCommitted
  DEF BaselinesNext, baselineVars, LogPrediction, GiveFeedback, LeaveWindow, TrainMeasured,
      ReadMetrics, CompareBaselines

\* Two ACTIVE alerts of one model, type and title in the window, and two
\* baselines of one metric, come only of checks and requests that overlapped.
THEOREM TwinsNeedRace == Spec => []TwinsOnlyByRace
<1>1. Init => AlertsInv /\ BaselinesInv
  BY AlertsInvInit, BaselinesInvInit DEF Init
<1>2. (AlertsInv /\ BaselinesInv) /\ [Next]_vars => (AlertsInv /\ BaselinesInv)'
  BY ComponentStep, AlertsInvStep, BaselinesInvStep
<1>3. AlertsInv /\ BaselinesInv => TwinsOnlyByRace
  BY DEF AlertsInv, BaselinesInv, TwinsOnlyByRace, BaselinesOnlyByRace
<1> QED
  BY <1>1, <1>2, <1>3, PTL DEF Spec

(***************************************************************************)
(* Feature sets: a computation has stored what its steps so far store, and *)
(* no step removes a blob.                                                 *)
(***************************************************************************)
Tasks == [pc : {"begin", "features", "transformer", "commit", "status"}, msg : Messages]

StoredSoFar ==
  /\ task.pc \in {"features", "transformer"} => task.msg.kind = "compute"
  /\ task.pc = "transformer" => <<task.msg.set, "features">> \in artifacts
  /\ task.pc = "commit" /\ task.msg.kind = "compute" =>
       \A kind \in Artifacts : <<task.msg.set, kind>> \in artifacts

FeaturesInv ==
  /\ sets \in Seq(SetRecord) /\ task \in {WorkerIdle} \cup Tasks
  /\ \A q \in Requests : asks[q].pc = "insert" => asks[q].config \in Configs
  /\ DOMAIN asks = Requests
  /\ StoredSoFar /\ CompletedIsStored

LEMMA RowsOfSets ==
  ASSUME sets \in Seq(SetRecord)
  PROVE /\ Sets = 1..Len(sets) /\ Len(sets) \in Nat
        /\ \A f \in Sets : sets[f] \in SetRecord
BY DEF Sets

LEMMA TuplesAreSequences ==
  ASSUME NEW S, NEW n \in Nat, NEW s \in [1..n -> S]
  PROVE s \in Seq(S)
OBVIOUS

\* A step that changes at most one row, and no task.
LEMMA SetChanged ==
  ASSUME FeaturesInv, NEW i, NEW x,
         i \in Sets => x \in SetRecord,
         i \in Sets /\ x.status = "COMPLETED" =>
           x.path /\ \A kind \in Artifacts : <<i, kind>> \in artifacts,
         sets' = [sets EXCEPT ![i] = x], artifacts' = artifacts
  PROVE sets' \in Seq(SetRecord) /\ CompletedIsStored'
<1>1. Sets' = Sets /\ \A f \in Sets : sets'[f] = IF f = i THEN x ELSE sets[f]
  BY DEF Sets
<1>2. sets' \in Seq(SetRecord)
  <2>1. sets' = [f \in 1..Len(sets) |-> sets'[f]]
    BY RowsOfSets DEF FeaturesInv, Sets
  <2>2. \A f \in 1..Len(sets) : sets'[f] \in SetRecord
    BY <1>1, RowsOfSets DEF FeaturesInv
  <2>3. Len(sets) \in Nat
    BY DEF FeaturesInv
  <2>4. sets' \in [1..Len(sets) -> SetRecord]
    BY <2>1, <2>2
  <2> QED
    BY <2>3, <2>4, TuplesAreSequences
<1>3. CompletedIsStored'
  BY <1>1 DEF FeaturesInv, CompletedIsStored
<1> QED
  BY <1>2, <1>3

LEMMA MarkedSet ==
  ASSUME FeaturesInv, NEW f \in Sets
  PROVE /\ [sets[f] EXCEPT !.sent = TRUE] \in SetRecord
        /\ [sets[f] EXCEPT !.deleted = TRUE] \in SetRecord
        /\ [sets[f] EXCEPT !.gone = TRUE] \in SetRecord
        /\ [sets[f] EXCEPT !.status = "FAILED"] \in SetRecord
        /\ [sets[f] EXCEPT !.status = "COMPLETED", !.path = TRUE] \in SetRecord
        /\ [sets[f] EXCEPT !.status = "COMPLETED", !.path = TRUE].path
        /\ [sets[f] EXCEPT !.status = "FAILED"].status = "FAILED"
<1>1. sets[f] \in SetRecord
  BY RowsOfSets DEF FeaturesInv
<1> QED
  BY <1>1 DEF SetRecord, SetStatuses

LEMMA MarksKeep ==
  ASSUME FeaturesInv, NEW f \in Sets,
         NEW x \in {[sets[f] EXCEPT !.sent = TRUE], [sets[f] EXCEPT !.deleted = TRUE],
                    [sets[f] EXCEPT !.gone = TRUE], [sets[f] EXCEPT !.status = "FAILED"]}
  PROVE x.status = "COMPLETED" => x.path /\ \A kind \in Artifacts : <<f, kind>> \in artifacts
<1>1. sets[f] \in SetRecord
  BY RowsOfSets DEF FeaturesInv
<1>2. x.status = "COMPLETED" => sets[f].status = "COMPLETED" /\ x.path = sets[f].path
  BY <1>1 DEF SetRecord
<1> QED
  BY <1>2 DEF FeaturesInv, CompletedIsStored

LEMMA SetFails ==
  ASSUME FeaturesInv, NEW written \in BOOLEAN, FailTask(written), task.pc # "idle"
  PROVE FeaturesInv'
<1> DEFINE i == task.msg.set
           x == [sets[i] EXCEPT !.status = "FAILED"]
<1>1. /\ task' = WorkerIdle /\ asks' = asks /\ artifacts' = artifacts
      /\ sets' = sets \/ sets' = [sets EXCEPT ![i] = x]
  BY DEF FailTask
<1>2. sets' \in Seq(SetRecord) /\ CompletedIsStored'
  <2>1. CASE sets' = sets
    BY <1>1, <2>1 DEF FeaturesInv, CompletedIsStored, Sets
  <2>2. CASE sets' = [sets EXCEPT ![i] = x]
    <3>1. i \in Sets => /\ x \in SetRecord
                        /\ x.status = "COMPLETED" => x.path /\ \A kind \in Artifacts : <<i, kind>> \in artifacts
      BY MarkedSet, MarksKeep
    <3> HIDE DEF x, i
    <3> QED
      BY <1>1, <2>2, <3>1, SetChanged
  <2> QED
    BY <1>1, <2>1, <2>2
<1> QED
  BY <1>1, <1>2 DEF FeaturesInv, StoredSoFar, WorkerIdle

LEMMA FeaturesInvInit == FeaturesInit => FeaturesInv
BY DEF FeaturesInit, FeaturesInv, StoredSoFar, CompletedIsStored, Sets, WorkerIdle, IdleAsk

LEMMA FeaturesInvStep == FeaturesInv /\ [FeaturesNext]_featureVars => FeaturesInv'
<1> SUFFICES ASSUME FeaturesInv, [FeaturesNext]_featureVars PROVE FeaturesInv'
  OBVIOUS
<1> DEFINE Same == UNCHANGED <<sets, artifacts>>
<1>0. ASSUME Same PROVE sets' \in Seq(SetRecord) /\ CompletedIsStored'
  BY <1>0 DEF FeaturesInv, CompletedIsStored, Sets
<1>1. CASE UNCHANGED featureVars
  BY <1>0, <1>1 DEF featureVars, FeaturesInv, StoredSoFar
<1>2. ASSUME NEW q \in Requests, NEW c \in Configs, FindReusable(q, c) PROVE FeaturesInv'
  BY <1>0, <1>2 DEF FindReusable, FeaturesInv, StoredSoFar
<1>3. ASSUME NEW q \in Requests, InsertSet(q) PROVE FeaturesInv'
  <2> DEFINE x == [config |-> asks[q].config, status |-> "QUEUED", deleted |-> FALSE,
                   gone |-> FALSE, path |-> FALSE, sent |-> FALSE]
  <2>1. x \in SetRecord /\ x.status = "QUEUED"
    BY <1>3 DEF InsertSet, FeaturesInv, SetRecord, SetStatuses
  <2>2. sets' = Append(sets, x) /\ artifacts' = artifacts /\ task' = task
    BY <1>3 DEF InsertSet
  <2> HIDE DEF x
  <2>3. sets' \in Seq(SetRecord)
    BY <2>1, <2>2 DEF FeaturesInv
  <2>4. CompletedIsStored'
    <3>1. Sets' = 1..(Len(sets) + 1) /\ \A f \in Sets : sets'[f] = sets[f]
      BY <2>1, <2>2, RowsOfSets DEF FeaturesInv, Sets
    <3>2. sets'[Len(sets) + 1] = x
      BY <2>1, <2>2 DEF FeaturesInv
    <3>3. \A f \in Sets' : f \in Sets \/ f = Len(sets) + 1
      BY <3>1, RowsOfSets DEF FeaturesInv
    <3> QED
      BY <2>1, <2>2, <3>1, <3>2, <3>3 DEF FeaturesInv, CompletedIsStored
  <2>5. StoredSoFar'
    BY <2>2 DEF FeaturesInv, StoredSoFar
  <2>6. DOMAIN asks' = Requests /\ \A p \in Requests : asks'[p].pc = "insert" => asks'[p].config \in Configs
    BY <1>3 DEF InsertSet, FeaturesInv
  <2> QED
    BY <2>2, <2>3, <2>4, <2>5, <2>6 DEF FeaturesInv
<1>4. ASSUME NEW q \in Requests, Delay(q) PROVE FeaturesInv'
  <2> DEFINE i == asks[q].set
             x == [sets[i] EXCEPT !.sent = TRUE]
  <2>1. /\ sets' = [sets EXCEPT ![i] = x] /\ artifacts' = artifacts /\ task' = task
        /\ asks' = [asks EXCEPT ![q] = IdleAsk]
    BY <1>4 DEF Delay
  <2>2. i \in Sets => /\ x \in SetRecord
                      /\ x.status = "COMPLETED" => x.path /\ \A kind \in Artifacts : <<i, kind>> \in artifacts
    BY MarkedSet, MarksKeep
  <2>3. sets' \in Seq(SetRecord) /\ CompletedIsStored'
    <3> HIDE DEF x, i
    <3> QED
      BY <2>1, <2>2, SetChanged
  <2> QED
    BY <2>1, <2>3 DEF FeaturesInv, StoredSoFar, IdleAsk
<1>5. ASSUME NEW q \in Requests, AskDies(q) PROVE FeaturesInv'
  BY <1>0, <1>5 DEF AskDies, FeaturesInv, StoredSoFar, IdleAsk
<1>6. ASSUME NEW f \in Sets, SoftDelete(f) \/ DropByDataset(f) PROVE FeaturesInv'
  <2>1. PICK x \in {[sets[f] EXCEPT !.deleted = TRUE], [sets[f] EXCEPT !.gone = TRUE]} :
          sets' = [sets EXCEPT ![f] = x]
    BY <1>6 DEF SoftDelete, DropByDataset
  <2>2. x \in SetRecord
        /\ (x.status = "COMPLETED" => x.path /\ \A kind \in Artifacts : <<f, kind>> \in artifacts)
    BY MarkedSet, MarksKeep
  <2>3. artifacts' = artifacts /\ task' = task /\ asks' = asks
    BY <1>6 DEF SoftDelete, DropByDataset
  <2>4. sets' \in Seq(SetRecord) /\ CompletedIsStored'
    BY <2>1, <2>2, <2>3, SetChanged
  <2> QED
    BY <2>3, <2>4 DEF FeaturesInv, StoredSoFar
<1>7. ASSUME NEW f \in Sets, AnalyzeSet(f) PROVE FeaturesInv'
  BY <1>0, <1>7 DEF AnalyzeSet, FeaturesInv, StoredSoFar
<1>8. ASSUME NEW g \in Messages, Receive(g) PROVE FeaturesInv'
  BY <1>0, <1>8 DEF Receive, FeaturesInv, StoredSoFar, Tasks
<1>9. ASSUME task \in Tasks PROVE task.msg \in Messages /\ \A pc : [task EXCEPT !.pc = pc].msg = task.msg
  BY <1>9 DEF Tasks
<1>10. task.pc # "idle" => task \in Tasks
  BY DEF FeaturesInv, WorkerIdle
<1>11. CASE BeginCompute
  <2>1. task \in Tasks /\ task' = [task EXCEPT !.pc = "features"] /\ task.msg.kind = "compute"
    BY <1>10, <1>11 DEF BeginCompute, Step
  <2>2. task' \in Tasks /\ task'.pc = "features" /\ task'.msg = task.msg
    BY <2>1 DEF Tasks
  <2> QED
    BY <1>0, <1>11, <2>1, <2>2 DEF BeginCompute, FeaturesInv, StoredSoFar
<1>12. CASE BeginAnalyze
  <2>1. task \in Tasks /\ task' = [task EXCEPT !.pc = "commit"] /\ task.msg.kind = "analyze"
    BY <1>10, <1>12 DEF BeginAnalyze, Step
  <2>2. task' \in Tasks /\ task'.pc = "commit" /\ task'.msg = task.msg
    BY <2>1 DEF Tasks
  <2> QED
    BY <1>0, <1>12, <2>1, <2>2 DEF BeginAnalyze, FeaturesInv, StoredSoFar
<1>13. ASSUME NEW kind \in Artifacts, Upload(kind) PROVE FeaturesInv'
  <2>1. /\ task \in Tasks /\ task.pc = kind /\ task' = [task EXCEPT !.pc = NextAfter(kind)]
        /\ artifacts' = artifacts \cup {<<task.msg.set, kind>>} /\ sets' = sets /\ asks' = asks
    BY <1>10, <1>13 DEF Upload, Step, Artifacts
  <2>2. task' \in Tasks /\ task'.pc = NextAfter(kind) /\ task'.msg = task.msg
    BY <2>1 DEF Tasks, NextAfter
  <2>3. task.msg.kind = "compute" /\ (kind = "transformer" => <<task.msg.set, "features">> \in artifacts)
    BY <2>1 DEF FeaturesInv, StoredSoFar, Artifacts
  <2>4. StoredSoFar'
    BY <2>1, <2>2, <2>3 DEF StoredSoFar, NextAfter, Artifacts
  <2>5. CompletedIsStored'
    BY <2>1 DEF FeaturesInv, CompletedIsStored, Sets
  <2> QED
    BY <2>1, <2>2, <2>4, <2>5 DEF FeaturesInv
<1>14. CASE CommitTask
  <2> DEFINE i == task.msg.set
             x == [sets[i] EXCEPT !.status = "COMPLETED", !.path = TRUE]
  <2>1. /\ task \in Tasks /\ task.pc = "commit" /\ task' = [task EXCEPT !.pc = "status"]
        /\ artifacts' = artifacts /\ asks' = asks
    BY <1>10, <1>14 DEF CommitTask, Step
  <2>2. task' \in Tasks /\ task'.pc = "status"
    BY <2>1 DEF Tasks
  <2>3. sets' \in Seq(SetRecord) /\ CompletedIsStored'
    <3>1. CASE task.msg.kind # "compute"
      BY <1>0, <1>14, <3>1 DEF CommitTask
    <3>2. CASE task.msg.kind = "compute"
      <4>1. sets' = [sets EXCEPT ![i] = x]
        <5>1. sets' = [[sets EXCEPT ![i].status = "COMPLETED"] EXCEPT ![i].path = TRUE]
          BY <1>14, <3>2 DEF CommitTask
        <5> QED
          BY <5>1 DEF FeaturesInv
      <4>2. i \in Sets => x \in SetRecord /\ x.path
        BY MarkedSet
      <4>3. \A kind \in Artifacts : <<i, kind>> \in artifacts
        BY <2>1, <3>2 DEF FeaturesInv, StoredSoFar
      <4> HIDE DEF x, i
      <4> QED
        BY <2>1, <4>1, <4>2, <4>3, SetChanged
    <3> QED
      BY <3>1, <3>2
  <2> QED
    BY <2>1, <2>2, <2>3 DEF FeaturesInv, StoredSoFar
<1>15. CASE EndTask \/ EndAnalysisEarly
  BY <1>0, <1>15 DEF EndTask, EndAnalysisEarly, FeaturesInv, StoredSoFar, WorkerIdle
<1>16. CASE TaskImpossible
  BY <1>16, SetFails DEF TaskImpossible
<1>17. CASE TaskRaises
  BY <1>17, SetFails DEF TaskRaises
<1>18. CASE WorkerDies
  BY <1>0, <1>18 DEF WorkerDies, FeaturesInv, StoredSoFar, WorkerIdle
<1> QED
  BY <1>1, <1>2, <1>3, <1>4, <1>5, <1>6, <1>7, <1>8, <1>11, <1>12, <1>13, <1>14, <1>15, <1>16,
     <1>17, <1>18
  DEF FeaturesNext, WorkerStep

\* A set offered for training has both artifacts, however its computation was
\* repeated, retried or cut.
THEOREM SetsAreStored == Spec => []CompletedIsStored
<1>1. Init => FeaturesInv
  BY FeaturesInvInit DEF Init
<1>2. FeaturesInv /\ [Next]_vars => FeaturesInv'
  BY ComponentStep, FeaturesInvStep
<1>3. FeaturesInv => CompletedIsStored
  BY DEF FeaturesInv
<1> QED
  BY <1>1, <1>2, <1>3, PTL DEF Spec

(***************************************************************************)
(* Datasets: a request that commits a row has stored its file before, and  *)
(* only a delete that was begun takes a file, a row or lineage away.       *)
(***************************************************************************)
MakeSteps == {"new", "upload", "second", "rows", "lineage", "over"}
Makes == [pc : MakeSteps, from : SUBSET DatasetIds]
OpenDeletes == [pc : {"idle", "file", "rows"}, of : DatasetIds \cup {NoDataset}, at : Places]

DataTypes ==
  /\ rows \in [DatasetIds -> {"none", "PROCESSING", "ACTIVE", "removed"}]
  /\ where \in [DatasetIds -> Places]
  /\ makes \in [Makers -> Makes] /\ deleting \in [Deletes -> OpenDeletes]

DeletesDoom == \A r \in Deletes : deleting[r].pc # "idle" => deleting[r].of \in doomed

StoredOrDoomed(d, place) == <<d, place>> \in files \/ d \in doomed

StoredBeforeRows ==
  /\ \A j \in Splits :
       /\ At(j, "second") => StoredOrDoomed(Half(j, "train"), SplitPlace)
       /\ At(j, "rows") => \A h \in Halves : StoredOrDoomed(Half(j, h), SplitPlace)
  /\ \A m \in Merges : At(m, "rows") => StoredOrDoomed(m, where[m])

NotYetActive ==
  /\ \A d \in Uploads : At(d, "new") => rows[d] # "ACTIVE"
  /\ \A m \in Merges : makes[m].pc \notin {"lineage", "over"} => rows[m] # "ACTIVE"

SourcesStand == \A m \in Merges : \A d \in makes[m].from : rows[d] = "ACTIVE" \/ d \in doomed

DataInv ==
  /\ DataTypes /\ DeletesDoom /\ StoredBeforeRows /\ NotYetActive
  /\ SourcesStand /\ DatasetsStand

LEMMA DataInvInit == DataInit => DataInv
<1> SUFFICES ASSUME DataInit PROVE DataInv
  OBVIOUS
<1>1. DataTypes
  BY DEF DataInit, DataTypes, Makes, MakeSteps, NotMade, OpenDeletes, NoDelete, Places
<1>2. DeletesDoom /\ StoredBeforeRows /\ NotYetActive /\ SourcesStand
  BY DEF DataInit, DeletesDoom, StoredBeforeRows, NotYetActive, SourcesStand, At, NotMade, NoDelete,
         Makers, DatasetIds
<1>3. DatasetsStand
  BY DEF DataInit, DatasetsStand, ActiveIsStored, LineageOrGone, Active, At, NotMade, Makers
<1> QED
  BY <1>1, <1>2, <1>3 DEF DataInv

\* A request goes to its next step; the other requests stay.
LEMMA RequestGoes ==
  ASSUME DataTypes, NEW j \in Makers, NEW pc \in MakeSteps, GoTo(j, pc)
  PROVE /\ makes' \in [Makers -> Makes] /\ makes'[j].pc = pc
        /\ \A k \in Makers : /\ makes'[k].from = makes[k].from
                             /\ k # j => makes'[k].pc = makes[k].pc
BY DEF DataTypes, GoTo, Makes

\* Who a name belongs to.
LEMMA NamesApart ==
  /\ \A d \in Uploads : d \in Makers /\ d \in DatasetIds /\ d \notin Merges /\ d \notin Splits
  /\ \A m \in Merges : m \in Makers /\ m \in DatasetIds /\ m \notin Uploads /\ m \notin Splits
  /\ \A j \in Splits : j \in Makers /\ j \notin Uploads /\ j \notin Merges
  /\ \A j \in Splits, h \in Halves :
       /\ Half(j, h) \in DatasetIds /\ Half(j, h) \notin Uploads /\ Half(j, h) \notin Merges
BY DatasetsAssumption DEF Makers, DatasetIds, Half

LEMMA UploadKeeps ==
  ASSUME DataInv, NEW d \in Uploads, InsertUpload(d) \/ StoreUpload(d) \/ LoseUpload(d)
  PROVE DataInv'
<1>0. InsertUpload(d) \/ StoreUpload(d) \/ LoseUpload(d)
  OBVIOUS
<1>1. PICK pc \in {"upload", "over"} : GoTo(d, pc) /\ (pc = "over" => ~At(d, "new"))
  BY DEF InsertUpload, StoreUpload, LoseUpload, At
<1>2. /\ makes' \in [Makers -> Makes] /\ makes'[d].pc = pc
      /\ \A k \in Makers : makes'[k].from = makes[k].from /\ (k # d => makes'[k].pc = makes[k].pc)
  BY <1>1, RequestGoes, NamesApart DEF DataInv, MakeSteps
<1>3. /\ UNCHANGED <<lineage, deleting, doomed, cut>> /\ files \subseteq files'
      /\ \A k \in DatasetIds \ {d} : rows'[k] = rows[k] /\ where'[k] = where[k]
      /\ At(d, "new") \/ At(d, "upload")
  BY NamesApart DEF InsertUpload, StoreUpload, LoseUpload, SetRow, DataInv, DataTypes
<1>4. /\ rows' \in [DatasetIds -> {"none", "PROCESSING", "ACTIVE", "removed"}]
      /\ where' \in [DatasetIds -> Places]
  BY NamesApart DEF InsertUpload, StoreUpload, LoseUpload, SetRow, DataInv, DataTypes, Places, Inserted
<1>5. rows[d] = "ACTIVE" => rows'[d] = "ACTIVE" /\ where'[d] = where[d]
  <2>1. InsertUpload(d) => rows[d] # "ACTIVE"
    BY DEF InsertUpload, DataInv, NotYetActive
  <2>2. StoreUpload(d) => rows[d] # "ACTIVE"
    BY DEF StoreUpload
  <2>3. LoseUpload(d) => rows' = rows /\ where' = where
    BY DEF LoseUpload
  <2> QED
    BY <1>0, <2>1, <2>2, <2>3
<1>6. rows'[d] = "ACTIVE" => <<d, where'[d]>> \in files' \/ d \in doomed
  <2>1. InsertUpload(d) => rows'[d] # "ACTIVE"
    BY NamesApart DEF InsertUpload, Inserted, DataInv, DataTypes
  <2>2. ASSUME StoreUpload(d), rows[d] = "PROCESSING" PROVE <<d, where'[d]>> \in files'
    <3>1. PICK places \in (SUBSET {"cloud", "local"}) \ {{}} :
            /\ files' = files \cup ({d} \X places)
            /\ where' = [where EXCEPT ![d] = IF "local" \in places THEN "local" ELSE "cloud"]
      BY <2>2 DEF StoreUpload, SetRow
    <3>2. where'[d] = IF "local" \in places THEN "local" ELSE "cloud"
      BY <3>1, NamesApart DEF DataInv, DataTypes
    <3>3. \E place \in places : place \in {"cloud", "local"}
      BY <3>1
    <3> QED
      BY <3>1, <3>2, <3>3
  <2>3. StoreUpload(d) => rows[d] = "PROCESSING" \/ (rows[d] = "removed" /\ rows' = rows)
    BY DEF StoreUpload
  <2>4. ASSUME LoseUpload(d), rows[d] = "ACTIVE" PROVE <<d, where'[d]>> \in files' \/ d \in doomed
    BY <1>3, <2>4, NamesApart
    DEF LoseUpload, DataInv, DatasetsStand, ActiveIsStored, Active, Stored
  <2>5. LoseUpload(d) => rows' = rows
    BY DEF LoseUpload
  <2> QED
    BY <1>0, <2>1, <2>2, <2>3, <2>4, <2>5
<1>7. DataTypes'
  BY <1>2, <1>3, <1>4 DEF DataInv, DataTypes
<1>8. DeletesDoom' /\ SourcesStand'
  BY <1>2, <1>3, <1>5, NamesApart DEF DataInv, DataTypes, DeletesDoom, SourcesStand, Makes
<1>9. StoredBeforeRows' /\ NotYetActive'
  BY <1>1, <1>2, <1>3, NamesApart DEF DataInv, StoredBeforeRows, NotYetActive, At, StoredOrDoomed
<1>10. DatasetsStand'
  <2>1. ActiveIsStored'
    BY <1>3, <1>6 DEF DataInv, DatasetsStand, ActiveIsStored, Active, Stored
  <2>2. LineageOrGone'
    BY <1>2, <1>3, NamesApart DEF DataInv, DatasetsStand, LineageOrGone, At
  <2> QED
    BY <2>1, <2>2 DEF DatasetsStand
<1> QED
  BY <1>7, <1>8, <1>9, <1>10 DEF DataInv

\* A split or a merge reads datasets that are ACTIVE as it starts.
LEMMA SourcesTaken ==
  ASSUME DataInv, NEW j \in Splits \cup Merges, NEW from \in SUBSET Active, At(j, "new"),
         makes' = [makes EXCEPT ![j] = [pc |-> "upload", from |-> from]],
         UNCHANGED <<rows, files, where, lineage, deleting, doomed, cut>>
  PROVE DataInv'
<1>1. /\ j \in Makers /\ j \notin Uploads /\ from \subseteq DatasetIds
      /\ \A d \in from : rows[d] = "ACTIVE"
  BY NamesApart DEF Active
<1>2. makes' \in [Makers -> Makes]
  BY <1>1 DEF DataInv, DataTypes, Makes, MakeSteps
<1>3. \A k \in Makers : makes'[k] = IF k = j THEN [pc |-> "upload", from |-> from] ELSE makes[k]
  BY <1>1 DEF DataInv, DataTypes
<1>4. DataTypes' /\ DeletesDoom'
  BY <1>2 DEF DataInv, DataTypes, DeletesDoom
<1>5. SourcesStand'
  BY <1>1, <1>3, NamesApart DEF DataInv, SourcesStand
<1>6. StoredBeforeRows' /\ NotYetActive'
  BY <1>1, <1>3, NamesApart DEF DataInv, StoredBeforeRows, NotYetActive, At, StoredOrDoomed
<1>7. DatasetsStand'
  BY <1>3, NamesApart DEF DataInv, DatasetsStand, ActiveIsStored, LineageOrGone, Active, Stored, At
<1> QED
  BY <1>4, <1>5, <1>6, <1>7 DEF DataInv

LEMMA HalfIsStored ==
  ASSUME DataInv, NEW j \in Splits, StoreHalf(j)
  PROVE DataInv'
<1>1. PICK h \in Halves :
        /\ At(j, IF h = "train" THEN "upload" ELSE "second")
        /\ files' = files \cup {<<Half(j, h), SplitPlace>>}
        /\ GoTo(j, IF h = "train" THEN "second" ELSE "rows")
        /\ UNCHANGED <<rows, where, lineage, deleting, doomed, cut>>
  BY DEF StoreHalf
<1> DEFINE pc == IF h = "train" THEN "second" ELSE "rows"
<1>2. /\ makes' \in [Makers -> Makes] /\ makes'[j].pc = pc
      /\ \A k \in Makers : makes'[k].from = makes[k].from /\ (k # j => makes'[k].pc = makes[k].pc)
  BY <1>1, RequestGoes, NamesApart DEF DataInv, MakeSteps
<1>3. DataTypes' /\ DeletesDoom' /\ SourcesStand' /\ NotYetActive'
  BY <1>1, <1>2, NamesApart DEF DataInv, DataTypes, DeletesDoom, SourcesStand, NotYetActive, At
<1>4. StoredBeforeRows'
  <2>1. ASSUME NEW k \in Splits
        PROVE /\ At(k, "second")' => StoredOrDoomed(Half(k, "train"), SplitPlace)'
              /\ At(k, "rows")' => \A i \in Halves : StoredOrDoomed(Half(k, i), SplitPlace)'
    BY <1>1, <1>2, NamesApart DEF DataInv, StoredBeforeRows, At, StoredOrDoomed, Halves
  <2>2. \A m \in Merges : At(m, "rows")' => StoredOrDoomed(m, where[m])'
    BY <1>1, <1>2, NamesApart DEF DataInv, StoredBeforeRows, At, StoredOrDoomed
  <2> QED
    BY <1>1, <2>1, <2>2 DEF StoredBeforeRows, StoredOrDoomed, Half
<1>5. DatasetsStand'
  BY <1>1, <1>2, NamesApart DEF DataInv, DatasetsStand, ActiveIsStored, LineageOrGone, Active, Stored, At
<1> QED
  BY <1>3, <1>4, <1>5 DEF DataInv

LEMMA SplitCommits ==
  ASSUME DataInv, NEW j \in Splits, CommitSplit(j)
  PROVE DataInv'
<1> DEFINE made == {Half(j, h) : h \in Halves}
<1>1. /\ At(j, "rows") /\ UNCHANGED <<files, lineage, deleting, doomed, cut>>
      /\ rows' = [d \in DatasetIds |-> IF d \in made THEN "ACTIVE" ELSE rows[d]]
      /\ where' = [d \in DatasetIds |-> IF d \in made THEN SplitPlace ELSE where[d]]
      /\ GoTo(j, "over")
  BY DEF CommitSplit
<1>2. /\ makes' \in [Makers -> Makes] /\ makes'[j].pc = "over"
      /\ \A k \in Makers : makes'[k].from = makes[k].from /\ (k # j => makes'[k].pc = makes[k].pc)
  BY <1>1, RequestGoes, NamesApart DEF DataInv, MakeSteps
<1>3. \A d \in made : d \in DatasetIds /\ d \notin Uploads /\ d \notin Merges /\ StoredOrDoomed(d, SplitPlace)
  BY <1>1, NamesApart DEF DataInv, StoredBeforeRows
<1> HIDE DEF made
<1>4. DataTypes'
  BY <1>1, <1>2, DatasetsAssumption DEF DataInv, DataTypes, Places
<1>5. DeletesDoom' /\ NotYetActive'
  BY <1>1, <1>2, <1>3, NamesApart DEF DataInv, DeletesDoom, NotYetActive, At
<1>6. SourcesStand'
  BY <1>1, <1>2, NamesApart DEF DataInv, DataTypes, Makes, SourcesStand
<1>7. StoredBeforeRows'
  BY <1>1, <1>2, <1>3, NamesApart DEF DataInv, StoredBeforeRows, At, StoredOrDoomed
<1>8. ActiveIsStored'
  BY <1>1, <1>3 DEF DataInv, DatasetsStand, ActiveIsStored, Active, Stored, StoredOrDoomed
<1>9. LineageOrGone'
  BY <1>1, <1>2, <1>3, NamesApart DEF DataInv, DatasetsStand, LineageOrGone, At
<1> QED
  BY <1>4, <1>5, <1>6, <1>7, <1>8, <1>9 DEF DataInv, DatasetsStand

LEMMA MergeSteps ==
  ASSUME DataInv, NEW m \in Merges,
         (\E place \in {"cloud", "local"} : StoreMerged(m, place)) \/ CommitMerged(m) \/ CommitLineage(m)
  PROVE DataInv'
<1>1. PICK pc \in {"rows", "lineage", "over"} :
        /\ GoTo(m, pc) /\ UNCHANGED <<deleting, doomed, cut>>
        /\ At(m, IF pc = "rows" THEN "upload" ELSE IF pc = "lineage" THEN "rows" ELSE "lineage")
        /\ IF pc = "rows"
           THEN \E place \in {"cloud", "local"} : /\ files' = files \cup {<<m, place>>}
                                                  /\ where' = [where EXCEPT ![m] = place]
           ELSE files' = files /\ where' = where
        /\ rows' = IF pc = "lineage" THEN [rows EXCEPT ![m] = "ACTIVE"] ELSE rows
        /\ IF pc = "over"
           THEN lineage' = IF \A d \in Recorded(m) \cup {m} : rows[d] = "ACTIVE"
                           THEN lineage \cup ({m} \X Recorded(m)) ELSE lineage
           ELSE lineage' = lineage
  BY DEF StoreMerged, CommitMerged, CommitLineage
<1>2. /\ makes' \in [Makers -> Makes] /\ makes'[m].pc = pc
      /\ \A k \in Makers : makes'[k].from = makes[k].from /\ (k # m => makes'[k].pc = makes[k].pc)
  BY <1>1, RequestGoes, NamesApart DEF DataInv, MakeSteps
<1>3. /\ \A d \in DatasetIds \ {m} : rows'[d] = rows[d] /\ where'[d] = where[d]
      /\ files \subseteq files' /\ lineage \subseteq lineage'
  BY <1>1, NamesApart DEF DataInv, DataTypes
<1>4. DataTypes'
  BY <1>1, <1>2, NamesApart DEF DataInv, DataTypes, Places
<1>5. DeletesDoom'
  BY <1>1 DEF DataInv, DeletesDoom
<1>6. rows[m] = "ACTIVE" => rows'[m] = "ACTIVE" /\ where'[m] = where[m]
  BY <1>1, NamesApart DEF DataInv, DataTypes, NotYetActive, At
<1>7. SourcesStand'
  BY <1>1, <1>2, <1>3, <1>6, NamesApart DEF DataInv, DataTypes, Makes, SourcesStand
<1>8. NotYetActive'
  BY <1>1, <1>2, <1>3, NamesApart DEF DataInv, NotYetActive, At
<1>9. pc = "rows" => <<m, where'[m]>> \in files'
  BY <1>1, NamesApart DEF DataInv, DataTypes
<1>10. StoredBeforeRows'
  <2>1. \A j \in Splits :
          /\ At(j, "second")' => StoredOrDoomed(Half(j, "train"), SplitPlace)'
          /\ At(j, "rows")' => \A h \in Halves : StoredOrDoomed(Half(j, h), SplitPlace)'
    BY <1>1, <1>2, <1>3, NamesApart DEF DataInv, StoredBeforeRows, At, StoredOrDoomed
  <2>2. \A k \in Merges : At(k, "rows")' => StoredOrDoomed(k, where[k])'
    BY <1>1, <1>2, <1>3, <1>9, NamesApart DEF DataInv, StoredBeforeRows, At, StoredOrDoomed
  <2> QED
    BY <1>1, <2>1, <2>2 DEF StoredBeforeRows, StoredOrDoomed, Half
<1>11. rows'[m] = "ACTIVE" => <<m, where'[m]>> \in files' \/ m \in doomed
  BY <1>1, NamesApart DEF DataInv, DataTypes, StoredBeforeRows, StoredOrDoomed, NotYetActive, At,
     DatasetsStand, ActiveIsStored, Active, Stored
<1>12. ActiveIsStored'
  BY <1>1, <1>3, <1>11 DEF DataInv, DatasetsStand, ActiveIsStored, Active, Stored
<1>13. LineageOrGone'
  <2> SUFFICES ASSUME NEW k \in Merges, makes'[k].pc = "over", rows'[k] = "ACTIVE", k \notin cut
               PROVE {k} \X makes[k].from \subseteq lineage' \/ makes[k].from \cap doomed # {}
    BY <1>1, <1>2, NamesApart DEF LineageOrGone, At
  <2>1. CASE k # m
    BY <1>2, <1>3, <2>1, NamesApart DEF DataInv, DatasetsStand, LineageOrGone, At
  <2>2. CASE k = m
    <3>1. pc = "over" /\ rows[m] = "ACTIVE"
      BY <1>1, <1>2, <2>2, NamesApart
    <3>2. CASE \A d \in makes[m].from \cup {m} : rows[d] = "ACTIVE"
      BY <1>1, <2>2, <3>1, <3>2 DEF Recorded
    <3>3. CASE \E d \in makes[m].from : rows[d] # "ACTIVE"
      BY <2>2, <3>3 DEF DataInv, SourcesStand
    <3> QED
      BY <3>1, <3>2, <3>3
  <2> QED
    BY <2>1, <2>2
<1> QED
  BY <1>4, <1>5, <1>7, <1>8, <1>10, <1>12, <1>13 DEF DataInv, DatasetsStand

LEMMA MakingStops ==
  ASSUME DataInv, NEW j \in Splits \cup Merges, StopMaking(j)
  PROVE DataInv'
<1>1. /\ GoTo(j, "over") /\ ~At(j, "new") /\ ~At(j, "over")
      /\ cut' = IF At(j, "lineage") THEN cut \cup {j} ELSE cut
      /\ UNCHANGED <<rows, files, where, lineage, deleting, doomed>>
  BY DEF StopMaking
<1>2. /\ makes' \in [Makers -> Makes] /\ makes'[j].pc = "over" /\ j \in Makers
      /\ \A k \in Makers : makes'[k].from = makes[k].from /\ (k # j => makes'[k].pc = makes[k].pc)
  BY <1>1, RequestGoes, NamesApart DEF DataInv, MakeSteps
<1>3. DataTypes' /\ DeletesDoom' /\ SourcesStand' /\ NotYetActive'
  BY <1>1, <1>2, NamesApart DEF DataInv, DataTypes, DeletesDoom, SourcesStand, NotYetActive, At
<1>4. StoredBeforeRows'
  BY <1>1, <1>2, NamesApart DEF DataInv, StoredBeforeRows, At, StoredOrDoomed
<1>5. ActiveIsStored'
  BY <1>1 DEF DataInv, DatasetsStand, ActiveIsStored, Active, Stored
<1>6. LineageOrGone'
  <2> SUFFICES ASSUME NEW k \in Merges, makes'[k].pc = "over", rows[k] = "ACTIVE", k \notin cut'
               PROVE {k} \X makes[k].from \subseteq lineage \/ makes[k].from \cap doomed # {}
    BY <1>1, <1>2, NamesApart DEF LineageOrGone, At
  <2>1. CASE k # j
    BY <1>1, <1>2, <2>1, NamesApart DEF DataInv, DatasetsStand, LineageOrGone, At
  <2>2. CASE k = j
    BY <1>1, <2>2 DEF DataInv, NotYetActive, At
  <2> QED
    BY <2>1, <2>2
<1> QED
  BY <1>3, <1>4, <1>5, <1>6 DEF DataInv, DatasetsStand

LEMMA DeleteSteps ==
  ASSUME DataInv, NEW r \in Deletes,
         \/ \E d \in DatasetIds : StartDelete(r, d)
         \/ DeleteFile(r) \/ DeleteRows(r) \/ StopDelete(r)
  PROVE DataInv'
<1>1. /\ deleting' \in [Deletes -> OpenDeletes] /\ makes' = makes /\ where' = where /\ cut' = cut
      /\ doomed \subseteq doomed' /\ lineage' \subseteq lineage
  BY DatasetsAssumption
  DEF DataInv, DataTypes, OpenDeletes, StartDelete, DeleteFile, DeleteRows, StopDelete, NoDelete,
      Places
<1>2. DeletesDoom'
  BY DEF DataInv, DataTypes, OpenDeletes, DeletesDoom, StartDelete, DeleteFile, DeleteRows, StopDelete,
         NoDelete
<1>3. \A p \in files : p \in files' \/ p[1] \in doomed'
  BY DEF DataInv, DeletesDoom, StartDelete, DeleteFile, DeleteRows, StopDelete
<1>4. /\ \A d \in DatasetIds : rows'[d] = rows[d] \/ (rows'[d] = "removed" /\ d \in doomed')
      /\ rows' \in [DatasetIds -> {"none", "PROCESSING", "ACTIVE", "removed"}]
  <2>1. CASE rows' = rows
    BY <2>1 DEF DataInv, DataTypes
  <2>2. CASE DeleteRows(r)
    <3>1. rows' = [rows EXCEPT ![deleting[r].of] = "removed"] /\ deleting[r].of \in doomed'
      BY <2>2 DEF DeleteRows, DataInv, DeletesDoom
    <3> QED
      BY <3>1 DEF DataInv, DataTypes
  <2> QED
    BY <2>1, <2>2 DEF StartDelete, DeleteFile, StopDelete
<1>5. \A m \in DatasetIds, d \in DatasetIds :
        <<m, d>> \in lineage => <<m, d>> \in lineage' \/ rows'[m] # "ACTIVE" \/ d \in doomed'
  <2>1. CASE lineage' = lineage
    BY <2>1
  <2>2. CASE DeleteRows(r)
    <3>1. /\ deleting[r].of \in doomed' /\ rows' = [rows EXCEPT ![deleting[r].of] = "removed"]
          /\ lineage' = {l \in lineage : deleting[r].of # l[1] /\ deleting[r].of # l[2]}
      BY <2>2 DEF DeleteRows, DataInv, DeletesDoom
    <3> QED
      BY <3>1 DEF DataInv, DataTypes
  <2> QED
    BY <2>1, <2>2 DEF StartDelete, DeleteFile, StopDelete
<1>6. DataTypes'
  BY <1>1, <1>4 DEF DataInv, DataTypes
<1>7. NotYetActive' /\ SourcesStand'
  BY <1>1, <1>4, NamesApart DEF DataInv, DataTypes, Makes, NotYetActive, SourcesStand, At
<1>8. StoredBeforeRows'
  BY <1>1, <1>3 DEF DataInv, StoredBeforeRows, At, StoredOrDoomed
<1>9. ActiveIsStored'
  BY <1>1, <1>3, <1>4 DEF DataInv, DatasetsStand, ActiveIsStored, Active, Stored
<1>10. LineageOrGone'
  <2> SUFFICES ASSUME NEW m \in Merges, At(m, "over"), rows'[m] = "ACTIVE", m \notin cut,
                      makes[m].from \cap doomed' = {}, NEW d \in makes[m].from
               PROVE <<m, d>> \in lineage'
    BY <1>1 DEF LineageOrGone, At
  <2>1. rows[m] = "ACTIVE" /\ makes[m].from \cap doomed = {}
    BY <1>1, <1>4, NamesApart
  <2>2. <<m, d>> \in lineage
    BY <2>1 DEF DataInv, DatasetsStand, LineageOrGone
  <2>3. m \in DatasetIds /\ d \in DatasetIds
    BY NamesApart DEF DataInv, DataTypes, Makes
  <2> QED
    BY <1>5, <2>2, <2>3
<1> QED
  BY <1>2, <1>6, <1>7, <1>8, <1>9, <1>10 DEF DataInv, DatasetsStand

LEMMA DataInvStep == DataInv /\ [DataNext]_dataVars => DataInv'
<1> SUFFICES ASSUME DataInv, [DataNext]_dataVars PROVE DataInv'
  OBVIOUS
<1>1. CASE UNCHANGED dataVars
  BY <1>1 DEF dataVars, DataInv, DataTypes, DeletesDoom, StoredBeforeRows, StoredOrDoomed, NotYetActive,
              SourcesStand, DatasetsStand, ActiveIsStored, Active, Stored, LineageOrGone, At
<1>2. ASSUME NEW j \in Splits, NEW d \in DatasetIds, StartSplit(j, d) PROVE DataInv'
  <2>1. {d} \in SUBSET Active /\ j \in Splits \cup Merges
    BY <1>2 DEF StartSplit
  <2> QED
    BY <1>2, <2>1, SourcesTaken DEF StartSplit
<1>3. ASSUME NEW m \in Merges, NEW from \in SUBSET Active, StartMerge(m, from) PROVE DataInv'
  <2>1. m \in Splits \cup Merges
    OBVIOUS
  <2> QED
    BY <1>3, <2>1, SourcesTaken DEF StartMerge
<1> QED
  BY <1>1, <1>2, <1>3, UploadKeeps, HalfIsStored, SplitCommits, MergeSteps, MakingStops, DeleteSteps
  DEF DataNext

\* What is offered has its file, and what was merged its sources, unless a
\* delete was begun, for any number of requests.
THEOREM DatasetsKeep == Spec => []DatasetsStand
<1>1. Init => DataInv
  BY DataInvInit DEF Init
<1>2. DataInv /\ [Next]_vars => DataInv'
  BY ComponentStep, DataInvStep
<1>3. DataInv => DatasetsStand
  BY DEF DataInv
<1> QED
  BY <1>1, <1>2, <1>3, PTL DEF Spec

-----------------------------------------------------------------------------
\* Monitoring.

\* K has the empty set, and each other of the subsets of S if it has one that
\* lacks an element of it.
Inherits(S, K) ==
  {} \in K /\ \A s \in (SUBSET S) \ {{}} : \E x \in s : s \ {x} \in K => s \in K

\* A set of subsets that Inherits holds every subset of a finite set.
LEMMA SubsetInduction ==
  ASSUME NEW S, IsFiniteSet(S), NEW K, Inherits(S, K)
  PROVE SUBSET S \subseteq K
<1> DEFINE Bad == {V \in SUBSET S : V \notin K}
           T == {Cardinality(V) : V \in Bad}
<1> SUFFICES ASSUME Bad # {} PROVE FALSE
  OBVIOUS
<1>1. \A V \in Bad : IsFiniteSet(V) /\ Cardinality(V) \in Nat
  BY FS_Subset, FS_CardinalityType
<1>2. T \subseteq Nat /\ T # {}
  BY <1>1
<1>3. PICK k \in T : \A l \in T : k <= l
  <2> HIDE DEF T
  <2> QED
    BY <1>2, LeastOf
<1>4. PICK V \in Bad : k = Cardinality(V)
  BY <1>3
<1>5. PICK x \in V : V \ {x} \in K => V \in K
  BY <1>4 DEF Inherits
<1>6. IsFiniteSet(V \ {x}) /\ Cardinality(V \ {x}) = Cardinality(V) - 1
  BY <1>1, <1>4, <1>5, FS_RemoveElement
<1>7. ~(Cardinality(V \ {x}) \in T)
  <2>1. Cardinality(V) \in Nat
    BY <1>1, <1>4
  <2> HIDE DEF T
  <2> QED
    BY <1>3, <1>4, <1>6, <2>1
<1>8. V \ {x} \notin Bad
  BY <1>7
<1> QED
  BY <1>4, <1>5, <1>8

\* A fold over S takes one element after the other and stays among the values V.
Foldable(S, V, base, ch, next) ==
  /\ base \in V /\ \A s \in (SUBSET S) \ {{}} : ch[s] \in s
  /\ \A s \in (SUBSET S) \ {{}}, v \in V : next[<<s, v>>] \in V

Folding(h, S, base, ch, next) ==
  \A s \in SUBSET S : h[s] = IF s = {} THEN base ELSE next[<<s, h[s \ {ch[s]}]>>]

\* The function a fold of the community modules chooses exists.
LEMMA FoldExists ==
  ASSUME NEW S, IsFiniteSet(S), NEW V, NEW base, NEW ch, NEW next, Foldable(S, V, base, ch, next)
  PROVE \E h \in [SUBSET S -> V] : Folding(h, S, base, ch, next)
<1> DEFINE Upto(n) == {s \in SUBSET S : Cardinality(s) <= n}
           Folds(h, n) == \A s \in Upto(n) : h[s] = IF s = {} THEN base ELSE next[<<s, h[s \ {ch[s]}]>>]
           Bad == {n \in Nat : ~\E h \in [Upto(n) -> V] : Folds(h, n)}
<1>0. /\ base \in V /\ \A s \in (SUBSET S) \ {{}} : ch[s] \in s
      /\ \A s \in (SUBSET S) \ {{}}, v \in V : next[<<s, v>>] \in V
  BY DEF Foldable
<1>1. \A s \in SUBSET S : IsFiniteSet(s) /\ Cardinality(s) \in Nat
  BY FS_Subset, FS_CardinalityType
<1>2. \A s \in (SUBSET S) \ {{}} : Cardinality(s \ {ch[s]}) = Cardinality(s) - 1 /\ Cardinality(s) # 0
  BY <1>0, <1>1, FS_RemoveElement, FS_EmptySet
<1>3. Bad = {}
  <2> SUFFICES ASSUME Bad # {} PROVE FALSE
    OBVIOUS
  <2>1. PICK n \in Bad : \A l \in Bad : n <= l
    <3>1. Bad \subseteq Nat
      OBVIOUS
    <3> HIDE DEF Bad
    <3> QED
      BY <3>1, LeastOf
  <2>2. n \in Nat
    BY <2>1
  <2>3. CASE n = 0
    <3> DEFINE h == [s \in Upto(0) |-> base]
    <3>1. ASSUME NEW s \in Upto(0) PROVE s = {}
      <4>1. Cardinality(s) = 0 /\ IsFiniteSet(s)
        BY <1>1
      <4> QED
        BY <4>1, FS_EmptySet
    <3>2. h \in [Upto(0) -> V] /\ Folds(h, 0)
      BY <1>0, <3>1
    <3> QED
      BY <2>1, <2>3, <3>2
  <2>4. CASE n # 0
    <3>1. n - 1 \in Nat /\ n - 1 \notin Bad
      <4> HIDE DEF Bad
      <4> QED
        BY <2>1, <2>2, <2>4
    <3>2. PICK g \in [Upto(n - 1) -> V] : Folds(g, n - 1)
      BY <3>1
    <3> DEFINE h == [s \in Upto(n) |-> IF s = {} THEN base ELSE next[<<s, g[s \ {ch[s]}]>>]]
    <3>3. \A s \in Upto(n) : s # {} => s \ {ch[s]} \in Upto(n - 1)
      BY <1>1, <1>2, <2>2
    <3>4. h \in [Upto(n) -> V]
      <4>1. ASSUME NEW s \in Upto(n) PROVE (IF s = {} THEN base ELSE next[<<s, g[s \ {ch[s]}]>>]) \in V
        BY <1>0, <3>2, <3>3
      <4> QED
        BY <4>1
    <3>5. \A s \in Upto(n - 1) : s \in Upto(n) /\ h[s] = g[s]
      BY <1>1, <2>2, <3>2
    <3>6. Folds(h, n)
      BY <3>3, <3>5
    <3> QED
      BY <2>1, <3>4, <3>6
  <2> QED
    BY <2>3, <2>4
<1>4. Cardinality(S) \in Nat /\ Upto(Cardinality(S)) = SUBSET S
  BY FS_Subset, FS_CardinalityType
<1>5. \E h \in [Upto(Cardinality(S)) -> V] : Folds(h, Cardinality(S))
  BY <1>3, <1>4
<1> QED
  BY <1>4, <1>5 DEF Folding

\* SetToSeq lists a finite set.
LEMMA SeqOfSet ==
  ASSUME NEW S, IsFiniteSet(S)
  PROVE SetToSeq(S) \in [1..Cardinality(S) -> S] /\ Cardinality(S) \in Nat
<1>1. Cardinality(S) \in Nat /\ ExistsBijection(1..Cardinality(S), S)
  BY FS_CardinalityType
<1>2. \E f \in [1..Cardinality(S) -> S] : IsInjective(f)
  BY <1>1 DEF ExistsBijection, Bijection, Injection
<1> QED
  BY <1>1, <1>2 DEF SetToSeq

LEMMA SeqCovers ==
  ASSUME NEW S, IsFiniteSet(S)
  PROVE \A x \in S : \E i \in 1..Cardinality(S) : SetToSeq(S)[i] = x
<1>1. Cardinality(S) \in Nat /\ ExistsBijection(1..Cardinality(S), S)
  BY FS_CardinalityType
<1>2. \E f \in [1..Cardinality(S) -> S] : IsInjective(f)
  BY <1>1 DEF ExistsBijection, Bijection, Injection
<1>3. SetToSeq(S) \in [1..Cardinality(S) -> S] /\ IsInjective(SetToSeq(S))
  BY <1>1, <1>2 DEF SetToSeq
<1>4. SetToSeq(S) \in Injection(1..Cardinality(S), S)
  BY <1>3 DEF Injection
<1>5. IsFiniteSet(1..Cardinality(S)) /\ Cardinality(1..Cardinality(S)) = Cardinality(S)
  BY <1>1, FS_Interval
<1>6. SetToSeq(S) \in Surjection(1..Cardinality(S), S)
  BY <1>4, <1>5, FS_Injection
<1> QED
  BY <1>6 DEF Surjection

\* The latest of a day is shown, whatever the order of the list.
LEMMA DayRowIsLatest ==
  ASSUME NEW n \in Nat, DOMAIN snapshots = 1..n,
         \A i \in DOMAIN snapshots : snapshots[i].time \in Nat, NEW d
  PROVE /\ \A i \in DOMAIN snapshots : snapshots[i].day = d => snapshots[i].time <= DayRow(d).time
        /\ DayRow(d) = NoData \/ \E i \in DOMAIN snapshots : DayRow(d) = snapshots[i]
<1> DEFINE D == DOMAIN snapshots
           V == {NoData} \cup {snapshots[i] : i \in D}
           picked(i, best) == IF snapshots[i].day = d /\ snapshots[i].time > best.time
                              THEN snapshots[i] ELSE best
           step(it) == [s \in SUBSET D |-> IF s = {} THEN NoData
                                           ELSE picked(Max(s), it[s \ {Max(s)}])]
           iter == CHOOSE g : g = step(g)
           ch == [s \in SUBSET D |-> Max(s)]
           next == [p \in (SUBSET D) \X V |-> picked(Max(p[1]), p[2])]
           K == {s \in SUBSET D : /\ iter[s] \in V
                                  /\ \A i \in s : snapshots[i].day = d => snapshots[i].time <= iter[s].time}
<1>1. IsFiniteSet(D) /\ \A s \in (SUBSET D) \ {{}} : Max(s) \in s
  <2>1. IsFiniteSet(D) /\ D \subseteq Nat
    BY FS_Interval
  <2>2. ASSUME NEW s \in (SUBSET D) \ {{}} PROVE Max(s) \in s
    BY <2>1, FS_Subset, MaxIsThere
  <2> QED
    BY <2>1, <2>2
<1>2. \A v \in V : v.time \in Nat
  BY DEF NoData
<1>3. ASSUME NEW s \in (SUBSET D) \ {{}}, NEW v \in V
      PROVE next[<<s, v>>] = picked(Max(s), v) /\ picked(Max(s), v) \in V
  <2>1. picked(Max(s), v) \in V
    BY <1>1
  <2>2. <<s, v>> \in (SUBSET D) \X V
    OBVIOUS
  <2> QED
    BY <2>1, <2>2
<1>4. \E h : h = step(h)
  <2>1. \A s \in (SUBSET D) \ {{}} : ch[s] \in s
    BY <1>1
  <2>2. \A s \in (SUBSET D) \ {{}}, v \in V : next[<<s, v>>] \in V
    BY <1>3
  <2>3. NoData \in V
    OBVIOUS
  <2>4. PICK h \in [SUBSET D -> V] : Folding(h, D, NoData, ch, next)
    <3> HIDE DEF D, V, ch, next
    <3>1. Foldable(D, V, NoData, ch, next)
      BY <2>1, <2>2, <2>3 DEF Foldable
    <3> QED
      BY <1>1, <3>1, FoldExists
  <2>5. ASSUME NEW s \in SUBSET D, s # {} PROVE h[s] = picked(Max(s), h[s \ {Max(s)}])
    <3>1. ch[s] = Max(s) /\ h[s \ {Max(s)}] \in V
      BY <2>4
    <3> HIDE DEF ch, next, V, D, picked
    <3> QED
      BY <1>3, <2>4, <2>5, <3>1 DEF Folding
  <2>6. h = step(h)
    <3> HIDE DEF picked, D, V
    <3> QED
      BY <2>4, <2>5 DEF Folding
  <2> QED
    BY <2>6
<1>5. iter = step(iter)
  <2> HIDE DEF step
  <2> QED
    BY <1>4
<1>6. SUBSET D \subseteq K
  <2>1. /\ iter[{}] = NoData
        /\ \A s \in (SUBSET D) \ {{}} : iter[s] = picked(Max(s), iter[s \ {Max(s)}])
    <3> HIDE DEF iter, picked, D
    <3> QED
      BY <1>5
  <2> HIDE DEF iter
  <2>2. {} \in K
    BY <2>1
  <2>3. ASSUME NEW s \in (SUBSET D) \ {{}}, s \ {Max(s)} \in K PROVE s \in K
    <3> DEFINE i == Max(s)
               best == iter[s \ {Max(s)}]
    <3>1. i \in s /\ i \in D /\ snapshots[i].time \in Nat /\ best \in V /\ best.time \in Nat
      BY <1>1, <1>2, <2>3
    <3>2. iter[s] = picked(i, best) /\ iter[s] \in V
      BY <1>3, <2>1, <3>1
    <3>3. ASSUME NEW j \in s, snapshots[j].day = d PROVE snapshots[j].time <= iter[s].time
      <4>1. CASE j = i
        BY <3>1, <3>2, <3>3, <4>1
      <4>2. CASE j # i
        <5>1. snapshots[j].time <= best.time /\ snapshots[j].time \in Nat
          BY <2>3, <3>3, <4>2
        <5> QED
          BY <3>1, <3>2, <5>1
      <4> QED
        BY <4>1, <4>2
    <3> QED
      BY <3>2, <3>3
  <2> HIDE DEF K, D
  <2>4. Inherits(D, K)
    BY <1>1, <2>2, <2>3 DEF Inherits
  <2> QED
    BY <1>1, <2>4, SubsetInduction
<1>7. DayRow(d) = iter[D]
  BY DEF DayRow, FoldLeft, MapThenFoldSet
<1>8. D \in K
  <2> HIDE DEF K
  <2> QED
    BY <1>6
<1> QED
  <2> HIDE DEF iter
  <2> QED
    BY <1>7, <1>8

Noticed == [title : Watched \cup Protected, severity : Levels]

RatesOf(p, a) == p.rates[a] \cup (IF a \in p.lacking THEN {0} ELSE {})

\* What an alert says is so.
NoticeTrue(p, n) ==
  /\ n.severity # "OK"
  /\ n.title \in Watched =>
       \/ p.psi[n.title] # "OK" /\ n.severity = p.psi[n.title]
       \/ p.shift[n.title] # "none" /\ n.severity = ShiftLevel(p.shift[n.title])
  /\ n.title \in Protected =>
       /\ n.severity = BiasLevel(RatesOf(p, n.title))
       /\ n.title \in p.lacking \/ Cardinality(p.rates[n.title]) > 1

TrueNotices(p) == {n \in Noticed : NoticeTrue(p, n)}

\* The first of those about a feature whose PSI drifted says so, if it is not of F.
Leads(p, q, F) ==
  \A i \in DOMAIN q :
    q[i].title \in Watched /\ p.psi[q[i].title] # "OK" =>
      q[i].title \in F \/ \E k \in 1..i : q[k].title = q[i].title /\ q[k].severity = p.psi[q[i].title]

SplitsOK(p) ==
  /\ p.set = TRUE /\ p.psi \in [Watched -> Levels] /\ p.shift \in [Watched -> Shifts]
  /\ p.rates \in [Protected -> (SUBSET Rates) \ {{}}] /\ p.lacking \subseteq Protected

\* One more notice has the level of its PSI or is not the first.
MayFollow(p, q, F, n) ==
  n.title \in Watched /\ p.psi[n.title] # "OK" =>
    \/ n.title \in F \/ n.severity = p.psi[n.title]
    \/ \E j \in DOMAIN q : q[j].title = n.title

LEMMA LeadsLonger ==
  ASSUME NEW p, NEW N, NEW q \in Seq(N), NEW F, NEW n \in N, Leads(p, q, F), MayFollow(p, q, F, n)
  PROVE Leads(p, Append(q, n), F) /\ Titles(Append(q, n)) = Titles(q) \cup {n.title}
<1> DEFINE m == Append(q, n)
<1>1. /\ Len(q) \in Nat /\ DOMAIN q = 1..Len(q) /\ DOMAIN m = 1..Len(q) + 1
      /\ m[Len(q) + 1] = n /\ \A i \in 1..Len(q) : m[i] = q[i]
  OBVIOUS
<1> HIDE DEF m
<1>2. ASSUME NEW i \in DOMAIN m, m[i].title \in Watched, p.psi[m[i].title] # "OK", m[i].title \notin F
      PROVE \E k \in 1..i : m[k].title = m[i].title /\ m[k].severity = p.psi[m[i].title]
  <2>1. ASSUME NEW j \in DOMAIN q, q[j].title = m[i].title, j <= i
        PROVE \E k \in 1..i : m[k].title = m[i].title /\ m[k].severity = p.psi[m[i].title]
    <3>1. PICK k \in 1..j : q[k].title = q[j].title /\ q[k].severity = p.psi[q[j].title]
      BY <1>2, <2>1 DEF Leads
    <3>2. k \in 1..i /\ m[k] = q[k]
      BY <1>1, <1>2, <2>1, <3>1
    <3> QED
      BY <2>1, <3>1, <3>2
  <2>2. CASE i \in DOMAIN q
    BY <1>1, <2>1, <2>2
  <2>3. CASE i = Len(q) + 1
    <3>1. CASE n.severity = p.psi[n.title]
      BY <1>1, <2>3, <3>1
    <3>2. CASE \E j \in DOMAIN q : q[j].title = n.title
      BY <1>1, <2>1, <2>3, <3>2
    <3> QED
      BY <1>1, <1>2, <2>3, <3>1, <3>2 DEF MayFollow
  <2> QED
    BY <1>1, <2>2, <2>3
<1>3. Titles(m) = Titles(q) \cup {n.title}
  BY <1>1 DEF Titles
<1> QED
  BY <1>2, <1>3 DEF Leads, m

\* A drift check notices only what drifted, at the level it drifted to, all
\* that drifted, and the PSI before the shift.
LEMMA DriftNoticesTrue ==
  ASSUME SplitsOK(splits)
  PROVE /\ DriftNotices \in Seq(TrueNotices(splits)) /\ Leads(splits, DriftNotices, {})
        /\ Drifted(Watched) \subseteq Titles(DriftNotices)
<1> DEFINE psi(f) == [title |-> f, severity |-> splits.psi[f]]
           ks(f) == [title |-> f, severity |-> ShiftLevel(splits.shift[f])]
           q == SetToSeq(Watched)
           D == DOMAIN q
           N == TrueNotices(splits)
           V == {s \in Seq(N) : Leads(splits, s, {})}
           noted(s, f) == s \o (IF f \in Drifted(Watched) THEN <<psi(f)>> ELSE <<>>)
                           \o (IF f \in Shifted(Watched) THEN <<ks(f)>> ELSE <<>>)
           step(it) == [s \in SUBSET D |-> IF s = {} THEN <<>> ELSE noted(it[s \ {Max(s)}], q[Max(s)])]
           iter == CHOOSE g : g = step(g)
           ch == [s \in SUBSET D |-> Max(s)]
           next == [p \in (SUBSET D) \X V |-> noted(p[2], q[Max(p[1])])]
           K == {s \in SUBSET D : /\ iter[s] \in V
                                  /\ \A d \in s : q[d] \in Drifted(Watched) => q[d] \in Titles(iter[s])}
<1>1. IsFiniteSet(D) /\ \A s \in (SUBSET D) \ {{}} : Max(s) \in s
  <2>1. IsFiniteSet(D) /\ D \subseteq Nat
    <3>1. D = 1..Cardinality(Watched) /\ Cardinality(Watched) \in Nat
      BY SeqOfSet, MonitoringAssumption
    <3> HIDE DEF D
    <3> QED
      BY <3>1, FS_Interval
  <2>2. ASSUME NEW s \in (SUBSET D) \ {{}} PROVE Max(s) \in s
    <3> HIDE DEF D
    <3> QED
      BY <2>1, FS_Subset, MaxIsThere
  <2> QED
    BY <2>1, <2>2
<1>2. ASSUME NEW s \in V, NEW f
      PROVE /\ noted(s, f) \in V /\ Titles(s) \subseteq Titles(noted(s, f))
            /\ f \in Drifted(Watched) => f \in Titles(noted(s, f))
  <2>1. f \in Drifted(Watched) => psi(f) \in N /\ psi(f).title = f /\ psi(f).severity = splits.psi[f]
    BY MonitoringAssumption DEF Drifted, Noticed, NoticeTrue, TrueNotices, SplitsOK
  <2>2. f \in Shifted(Watched) => ks(f) \in N /\ ks(f).title = f
    BY MonitoringAssumption DEF Shifted, Noticed, NoticeTrue, TrueNotices, SplitsOK, Levels, ShiftLevel
  <2>3. f \in Drifted(Watched) <=> f \in Watched /\ splits.psi[f] # "OK"
    BY DEF Drifted
  <2> DEFINE x == psi(f)
             y == ks(f)
             r == IF f \in Drifted(Watched) THEN Append(s, x) ELSE s
             e == IF f \in Shifted(Watched) THEN Append(r, y) ELSE r
  <2>4. noted(s, f) = e
    <3>1. \A M : \A a \in Seq(M), b \in M : a \o <<>> = a /\ a \o <<b>> = Append(a, b) /\ Append(a, b) \in Seq(M)
      BY ConcatEmptySeq, AppendIsConcat
    <3>2. s \in Seq(N)
      OBVIOUS
    <3> HIDE DEF N, psi, ks
    <3>3. r \in Seq(N) /\ r = s \o (IF f \in Drifted(Watched) THEN <<x>> ELSE <<>>)
      BY <2>1, <3>1, <3>2
    <3> HIDE DEF r
    <3>4. CASE f \in Shifted(Watched)
      <4>1. y \in N
        BY <2>2, <3>4
      <4>2. r \o <<y>> = Append(r, y)
        BY <3>1, <3>3, <4>1
      <4> QED
        BY <3>3, <3>4, <4>2
    <3>5. CASE f \notin Shifted(Watched)
      <4>1. r \o <<>> = r
        BY <3>1, <3>3
      <4> QED
        BY <3>3, <3>5, <4>1
    <3> QED
      BY <3>4, <3>5
  <2>5. s \in Seq(N) /\ Leads(splits, s, {})
    OBVIOUS
  <2> HIDE DEF x, y, N
  <2>6. /\ r \in Seq(N) /\ Leads(splits, r, {}) /\ Titles(s) \subseteq Titles(r)
        /\ f \in Drifted(Watched) => f \in Titles(r)
    <3>1. CASE f \in Drifted(Watched)
      <4>1. x \in N /\ x.title = f /\ x.severity = splits.psi[f]
        BY <2>1, <3>1 DEF x
      <4>2. MayFollow(splits, s, {}, x)
        BY <4>1 DEF MayFollow
      <4>3. Leads(splits, Append(s, x), {}) /\ Titles(Append(s, x)) = Titles(s) \cup {x.title}
        BY <2>5, <4>1, <4>2, LeadsLonger
      <4> QED
        BY <2>5, <3>1, <4>1, <4>3
    <3>2. CASE f \notin Drifted(Watched)
      BY <2>5, <3>2
    <3> QED
      BY <3>1, <3>2
  <2> HIDE DEF r
  <2>7. e \in Seq(N) /\ Leads(splits, e, {}) /\ Titles(r) \subseteq Titles(e)
    <3>1. CASE f \in Shifted(Watched)
      <4>1. y \in N /\ y.title = f
        BY <2>2, <3>1 DEF y
      <4>2. f \in Drifted(Watched) => \E j \in DOMAIN r : r[j].title = f
        BY <2>6 DEF Titles
      <4>3. Leads(splits, Append(r, y), {}) /\ Titles(Append(r, y)) = Titles(r) \cup {y.title}
        <5>1. MayFollow(splits, r, {}, y)
          BY <2>3, <4>1, <4>2 DEF MayFollow
        <5> QED
          BY <2>6, <4>1, <5>1, LeadsLonger
      <4> QED
        BY <2>6, <3>1, <4>1, <4>3
    <3>2. CASE f \notin Shifted(Watched)
      BY <2>6, <3>2
    <3> QED
      BY <3>1, <3>2
  <2> HIDE DEF e, noted
  <2> QED
    BY <2>4, <2>6, <2>7
<1> HIDE DEF noted, V
<1>3. <<>> \in V
  BY DEF V, Leads
<1>4. ASSUME NEW s \in (SUBSET D) \ {{}}, NEW v \in V
      PROVE next[<<s, v>>] = noted(v, q[Max(s)]) /\ next[<<s, v>>] \in V
  <2>1. <<s, v>> \in (SUBSET D) \X V
    OBVIOUS
  <2>2. noted(v, q[Max(s)]) \in V
    BY <1>2
  <2> QED
    BY <2>1, <2>2
<1>5. \E h : h = step(h)
  <2>1. \A s \in (SUBSET D) \ {{}} : ch[s] \in s
    BY <1>1
  <2>2. \A s \in (SUBSET D) \ {{}}, v \in V : next[<<s, v>>] \in V
    BY <1>4
  <2> DEFINE none == <<>>
  <2>4. PICK h \in [SUBSET D -> V] : Folding(h, D, none, ch, next)
    <3>0. none \in V
      BY <1>3
    <3> HIDE DEF D, ch, next, none
    <3>1. Foldable(D, V, none, ch, next)
      BY <3>0, <2>1, <2>2 DEF Foldable
    <3>2. IsFiniteSet(D)
      BY <1>1
    <3> HIDE DEF q
    <3> QED
      BY <3>1, <3>2, FoldExists, Zenon
  <2>5. ASSUME NEW s \in SUBSET D, s # {} PROVE h[s] = noted(h[s \ {Max(s)}], q[Max(s)])
    <3>1. ch[s] = Max(s) /\ h[s \ {Max(s)}] \in V
      BY <2>4
    <3> HIDE DEF ch, next, D, q
    <3>2. h[s] = next[<<s, h[s \ {ch[s]}]>>] /\ s \in (SUBSET D) \ {{}}
      BY <2>4, <2>5 DEF Folding
    <3>3. next[<<s, h[s \ {Max(s)}]>>] = noted(h[s \ {Max(s)}], q[Max(s)])
      BY <1>4, <3>1, <3>2
    <3> QED
      BY <3>1, <3>2, <3>3
  <2>6. h = step(h)
    <3> HIDE DEF D, q
    <3> QED
      BY <2>4, <2>5 DEF Folding
  <2> QED
    BY <2>6
<1>6. iter = step(iter)
  <2> HIDE DEF step
  <2> QED
    BY <1>5
<1>7. SUBSET D \subseteq K
  <2>1. /\ iter[{}] = <<>>
        /\ \A s \in (SUBSET D) \ {{}} : iter[s] = noted(iter[s \ {Max(s)}], q[Max(s)])
    <3> HIDE DEF iter, D, q
    <3> QED
      BY <1>6
  <2> HIDE DEF iter
  <2>2. {} \in K
    BY <1>3, <2>1
  <2>3. ASSUME NEW s \in (SUBSET D) \ {{}}, s \ {Max(s)} \in K PROVE s \in K
    <3> DEFINE b == iter[s \ {Max(s)}]
               f == q[Max(s)]
    <3>1. iter[s] = noted(b, f) /\ b \in V
      BY <2>1, <2>3
    <3>2. /\ noted(b, f) \in V /\ Titles(b) \subseteq Titles(noted(b, f))
          /\ f \in Drifted(Watched) => f \in Titles(noted(b, f))
      <4> HIDE DEF b, f
      <4> QED
        BY <1>2, <3>1
    <3>3. ASSUME NEW d \in s, q[d] \in Drifted(Watched) PROVE q[d] \in Titles(iter[s])
      <4>1. CASE d = Max(s)
        BY <3>1, <3>2, <3>3, <4>1
      <4>2. CASE d # Max(s)
        <5>1. q[d] \in Titles(b)
          BY <2>3, <3>3, <4>2
        <5> QED
          BY <3>1, <3>2, <5>1
      <4> QED
        BY <4>1, <4>2
    <3> QED
      BY <3>1, <3>2, <3>3
  <2> HIDE DEF K, D
  <2>4. Inherits(D, K)
    BY <1>1, <2>2, <2>3 DEF Inherits
  <2> QED
    BY <1>1, <2>4, SubsetInduction
<1>8. DriftNotices = iter[D]
  BY DEF DriftNotices, FoldLeft, MapThenFoldSet, noted
<1>9. ASSUME NEW f \in Watched PROVE \E d \in D : q[d] = f
  <2>1. q \in [1..Cardinality(Watched) -> Watched]
    BY SeqOfSet, MonitoringAssumption
  <2> QED
    BY <2>1, SeqCovers, MonitoringAssumption
<1>10. iter[D] \in V /\ \A d \in D : q[d] \in Drifted(Watched) => q[d] \in Titles(iter[D])
  <2> HIDE DEF iter, q
  <2> QED
    BY <1>7
<1>11. Drifted(Watched) \subseteq Watched
  BY DEF Drifted
<1> QED
  <2> HIDE DEF iter, q, D, N
  <2>1. Drifted(Watched) \subseteq Titles(iter[D])
    BY <1>9, <1>10, <1>11
  <2>2. iter[D] \in Seq(N) /\ Leads(splits, iter[D], {})
    BY <1>10 DEF V
  <2> QED
    BY <1>8, <2>1, <2>2 DEF N

\* An attribute whose groups all have one rate is not reported as biased.
LEMMA FairBiasLevel ==
  ASSUME SplitsOK(splits), NEW a \in Protected, BiasLevel(GroupRates(a)) # "OK"
  PROVE a \in splits.lacking \/ Cardinality(splits.rates[a]) > 1
<1> SUFFICES ASSUME a \notin splits.lacking, ~(Cardinality(splits.rates[a]) > 1) PROVE FALSE
  OBVIOUS
<1> DEFINE R == splits.rates[a]
<1>1. R # {} /\ R \subseteq 0..100 /\ IsFiniteSet(R)
  <2>1. R \in (SUBSET Rates) \ {{}}
    BY DEF SplitsOK
  <2> QED
    BY <2>1, FS_Subset, MonitoringAssumption
<1>2. Cardinality(R) = 1
  <2>1. Cardinality(R) \in Nat /\ Cardinality(R) # 0
    BY <1>1, FS_CardinalityType, FS_EmptySet
  <2> QED
    BY <2>1
<1>3. PICK r : R = {r}
  BY <1>1, <1>2, FS_Singleton
<1>4. GroupRates(a) = {r} /\ r \in 0..100
  BY <1>1, <1>3 DEF GroupRates
<1> DEFINE top == CHOOSE x \in GroupRates(a) : \A y \in GroupRates(a) : y <= x
           low == CHOOSE x \in GroupRates(a) : \A y \in GroupRates(a) : x <= y
<1>5. top = r /\ low = r
  BY <1>4
<1>6. BiasLevel(GroupRates(a)) = "OK"
  <2> HIDE DEF top, low
  <2>1. ~(top - low > 20) /\ ~(low * 10 < top * 7) /\ ~(top - low > 10) /\ ~(low * 10 < top * 8)
    BY <1>4, <1>5
  <2> QED
    BY <2>1 DEF BiasLevel, top, low
<1> QED
  BY <1>6

\* A bias check notices only attributes it could not see or whose rates differ.
LEMMA BiasNoticesTrue ==
  ASSUME SplitsOK(splits)
  PROVE BiasNotices \in Seq(TrueNotices(splits)) /\ Leads(splits, BiasNotices, {})
<1> DEFINE flagged == {a \in Protected : BiasLevel(GroupRates(a)) # "OK"}
           notice(a) == [title |-> a, severity |-> BiasLevel(GroupRates(a))]
           B == {notice(a) : a \in flagged}
           N == TrueNotices(splits)
<1>1. IsFiniteSet(flagged)
  BY FS_Subset, MonitoringAssumption
<1>2. IsFiniteSet(B)
  <2> DEFINE g == [a \in flagged |-> notice(a)]
  <2>1. g \in Surjection(flagged, B)
    BY DEF Surjection
  <2> HIDE DEF g, B, flagged
  <2> QED
    BY <1>1, <2>1, FS_Surjection
<1>3. ASSUME NEW a \in flagged PROVE notice(a) \in N
  <2>1. BiasLevel(GroupRates(a)) \in Levels
    BY DEF BiasLevel, Levels
  <2>2. a \in splits.lacking \/ Cardinality(splits.rates[a]) > 1
    BY <1>3, FairBiasLevel
  <2> QED
    BY <1>3, <2>1, <2>2, MonitoringAssumption DEF Noticed, TrueNotices, NoticeTrue, RatesOf, GroupRates
<1>4. B \subseteq N
  BY <1>3
<1>5. SetToSeq(B) \in [1..Cardinality(B) -> B] /\ Cardinality(B) \in Nat
  <2> HIDE DEF B
  <2> QED
    BY <1>2, SeqOfSet
<1>6. BiasNotices = SetToSeq(B)
  BY DEF BiasNotices
<1>7. \A n \in B : n.title \notin Watched
  BY MonitoringAssumption
<1> QED
  <2> HIDE DEF B, N
  <2>1. SetToSeq(B) \in [1..Cardinality(B) -> N]
    BY <1>4, <1>5
  <2>2. SetToSeq(B) \in Seq(N)
    BY <1>5, <2>1
  <2>3. Leads(splits, SetToSeq(B), {})
    BY <1>5, <1>7 DEF Leads
  <2> QED
    BY <1>6, <2>2, <2>3 DEF N

Verdicts == [status : Levels, volume : Nat, drifted : SUBSET Watched]
SnapshotRecord == [status : Levels, volume : Nat, drifted : SUBSET Watched, day : Nat, time : Nat]

\* An OK is of splits that do not drift, or of a check that read nothing.
SnapshotTrue(p, s) ==
  s.status = "OK" => s.volume = 0 \/ \A f \in Watched : p.psi[f] = "OK" /\ p.shift[f] = "none"

TrueVerdicts(p) == {s \in Verdicts : SnapshotTrue(p, s)}
TrueSnapshots(p) == {s \in SnapshotRecord : SnapshotTrue(p, s)}

\* The verdict a check computes is so of the splits it read.
LEMMA SnapshotIsSound ==
  ASSUME SplitsOK(splits), NEW features \in {{}, Watched}
  PROVE Snapshot(features) \in TrueVerdicts(splits)
<1> DEFINE S == {splits.psi[f] : f \in features} \cup {"WARNING" : f \in Shifted(features)}
<1>1. Cardinality(features) \in Nat /\ (features = {} => Cardinality(features) = 0)
  BY FS_EmptySet, FS_CardinalityType, MonitoringAssumption
<1>2. Worst(S) \in Levels
  BY DEF Worst, Levels
<1>3. Drifted(features) \subseteq Watched
  BY DEF Drifted
<1>4. ASSUME Worst(S) = "OK", features = Watched
      PROVE \A f \in Watched : splits.psi[f] = "OK" /\ splits.shift[f] = "none"
  <2>1. "CRITICAL" \notin S /\ "WARNING" \notin S
    BY <1>4 DEF Worst
  <2>2. ASSUME NEW f \in Watched PROVE splits.psi[f] = "OK" /\ splits.shift[f] = "none"
    <3>1. splits.psi[f] \in S /\ splits.psi[f] \in Levels
      BY <1>4 DEF SplitsOK
    <3>2. f \notin Shifted(features)
      BY <2>1
    <3> QED
      BY <1>4, <2>1, <3>1, <3>2 DEF Levels, Shifted
  <2> QED
    BY <2>2
<1>5. Snapshot(features) = [status |-> Worst(S), volume |-> Cardinality(features),
                            drifted |-> Drifted(features)]
  BY DEF Snapshot
<1> HIDE DEF S
<1> QED
  BY <1>1, <1>2, <1>3, <1>4, <1>5 DEF Verdicts, TrueVerdicts, SnapshotTrue

\* What a checker computed is so.
WatchOK(p, w) ==
  /\ w = [pc |-> w.pc, snapshot |-> w.snapshot, notices |-> w.notices]
  /\ w.pc \in {"idle", "stamp", "push", "raise"}
  /\ w.pc = "stamp" => w.snapshot \in TrueVerdicts(p)
  /\ w.pc = "push" => w.snapshot \in TrueSnapshots(p)
  /\ w.notices \in Seq(TrueNotices(p))

RaisedNotices(p) ==
  {n \in [title : Watched \cup Protected, severity : Levels, active : BOOLEAN] : NoticeTrue(p, n)}

MonitorInv ==
  /\ splits = Unmonitored \/ SplitsOK(splits)
  /\ splits = Unmonitored =>
       watch = [c \in Checkers |-> Resting] /\ snapshots = <<>> /\ notices = <<>>
  /\ DOMAIN watch = Checkers /\ \A c \in Checkers : WatchOK(splits, watch[c])
  /\ snapshots \in Seq(TrueSnapshots(splits))
  /\ notices \in Seq(RaisedNotices(splits)) /\ missed \subseteq Watched \cup Protected
  /\ now \in Nat /\ day \in Nat

\* A checker at rest has nothing to answer for.
LEMMA RestingOK == \A p : WatchOK(p, Resting)
BY DEF WatchOK, Resting

\* The invariant holds of an unmonitored service.
LEMMA MonitorInvInit == MonitoringInit => MonitorInv
BY RestingOK DEF MonitoringInit, MonitorInv

\* A checker took a step, and nothing else of the invariant changed.
LEMMA CheckerMoves ==
  ASSUME MonitorInv, SplitsOK(splits), splits' = splits, now' \in Nat, day' = day,
         NEW c \in Checkers, NEW w, WatchOK(splits, w), watch' = [watch EXCEPT ![c] = w],
         snapshots' \in Seq(TrueSnapshots(splits)),
         notices' \in Seq(RaisedNotices(splits)), missed' \subseteq Watched \cup Protected
  PROVE MonitorInv'
<1>1. DOMAIN watch' = Checkers /\ \A k \in Checkers : WatchOK(splits', watch'[k])
  BY DEF MonitorInv
<1>2. splits' # Unmonitored
  BY DEF SplitsOK, Unmonitored
<1> QED
  BY <1>1, <1>2 DEF MonitorInv

\* A step of the back office moves monitoring or leaves its state alone.
LEMMA WatchStep == [Next]_vars => [MonitoringNext]_monitoringVars
BY DEF Next, In, Alerting, Engineering, Planning, Storing, Administering, Scheduling,
              Transforming, Filling, Searching, Fitting, Measuring, Watching, Answering,
              Analysing, Keeping, Choosing, Showing, vars, monitoringVars

\* Each action of monitoring keeps the invariant.
LEMMA MonitorInvStep == MonitorInv /\ [MonitoringNext]_monitoringVars => MonitorInv'
<1> SUFFICES ASSUME MonitorInv, [MonitoringNext]_monitoringVars PROVE MonitorInv'
  OBVIOUS
<1> USE DEF monitoringVars
<1> DEFINE SS == TrueSnapshots(splits)
           NN == TrueNotices(splits)
<1>0. /\ splits = Unmonitored \/ SplitsOK(splits)
      /\ splits = Unmonitored =>
           watch = [c \in Checkers |-> Resting] /\ snapshots = <<>> /\ notices = <<>>
      /\ DOMAIN watch = Checkers /\ \A c \in Checkers : WatchOK(splits, watch[c])
      /\ snapshots \in Seq(SS) /\ notices \in Seq(RaisedNotices(splits)) /\ missed \subseteq Watched \cup Protected
      /\ now \in Nat /\ day \in Nat
  BY DEF MonitorInv
<1>b. \A c \in Checkers : watch[c].pc # "idle" => SplitsOK(splits)
  BY <1>0 DEF Resting
<1>1. CASE UNCHANGED monitoringVars
  <2>1. splits' = splits
    BY <1>1
  <2>2. \A c \in Checkers : WatchOK(splits', watch'[c])
    BY <1>0, <1>1
  <2> QED
    BY <1>0, <1>1, <2>1, <2>2, Zenon DEF MonitorInv
<1>2. CASE TrainMonitored
  <2>1. /\ splits = Unmonitored /\ UNCHANGED <<watch, snapshots, notices, missed, now, day>>
        /\ watch = [c \in Checkers |-> Resting] /\ snapshots = <<>> /\ notices = <<>>
    BY <1>0, <1>2 DEF TrainMonitored
  <2>2. SplitsOK(splits')
    <3>1. PICK psi \in [Watched -> Levels], shift \in [Watched -> Shifts],
               rates \in [Protected -> (SUBSET Rates) \ {{}}], lacking \in SUBSET Protected :
            splits' = [set |-> TRUE, psi |-> psi, shift |-> shift, rates |-> rates, lacking |-> lacking]
      BY <1>2, Zenon DEF TrainMonitored
    <3> QED
      BY <3>1 DEF SplitsOK
  <2>3. splits' # Unmonitored
    BY <2>2 DEF SplitsOK, Unmonitored
  <2>4. \A c \in Checkers : WatchOK(splits', watch'[c])
    BY <2>1, RestingOK
  <2>5. (snapshots \in Seq(TrueSnapshots(splits)) /\ notices \in Seq(RaisedNotices(splits)))'
    BY <2>1
  <2> QED
    BY <1>0, <2>1, <2>2, <2>3, <2>4, <2>5, Zenon DEF MonitorInv
<1>3. ASSUME NEW c \in Checkers, BeginDriftCheck(c) PROVE MonitorInv'
  <2>1. SplitsOK(splits) /\ splits' = splits /\ UNCHANGED <<snapshots, notices, missed, now, day>>
    BY <1>0, <1>3 DEF BeginDriftCheck, Unmonitored
  <2>2. PICK read \in BOOLEAN :
          watch' = [watch EXCEPT ![c] =
            [pc |-> "stamp", snapshot |-> Snapshot(IF read THEN Watched ELSE {}),
             notices |-> IF read THEN DriftNotices ELSE <<>>]]
    BY <1>3 DEF BeginDriftCheck
  <2> DEFINE s == Snapshot(IF read THEN Watched ELSE {})
             n == IF read THEN DriftNotices ELSE <<>>
             w == [pc |-> "stamp", snapshot |-> s, notices |-> n]
  <2>3. s \in TrueVerdicts(splits)
    <3>1. (IF read THEN Watched ELSE {}) \in {{}, Watched}
      OBVIOUS
    <3> QED
      BY <2>1, <3>1, SnapshotIsSound
  <2>4. n \in Seq(NN)
    BY <2>1, DriftNoticesTrue
  <2>5. WatchOK(splits, w)
    <3> HIDE DEF s, n
    <3> QED
      BY <2>3, <2>4 DEF WatchOK
  <2>6. watch' = [watch EXCEPT ![c] = w]
    BY <2>2
  <2> HIDE DEF w
  <2> QED
    BY <1>0, <2>1, <2>5, <2>6, CheckerMoves
<1>4. ASSUME NEW c \in Checkers, BeginBiasCheck(c) PROVE MonitorInv'
  <2>1. SplitsOK(splits) /\ splits' = splits /\ UNCHANGED <<snapshots, notices, missed, now, day>>
    BY <1>0, <1>4 DEF BeginBiasCheck, Unmonitored
  <2>2. PICK read \in BOOLEAN :
          watch' = [watch EXCEPT ![c] = [pc |-> "raise", snapshot |-> <<>>,
                                         notices |-> IF read THEN BiasNotices ELSE <<>>]]
    BY <1>4 DEF BeginBiasCheck
  <2> DEFINE n == IF read THEN BiasNotices ELSE <<>>
             w == [pc |-> "raise", snapshot |-> <<>>, notices |-> n]
  <2>4. n \in Seq(NN)
    BY <2>1, BiasNoticesTrue
  <2>5. WatchOK(splits, w)
    <3> HIDE DEF n
    <3> QED
      BY <2>4 DEF WatchOK
  <2>6. watch' = [watch EXCEPT ![c] = w]
    BY <2>2
  <2> HIDE DEF w
  <2> QED
    BY <1>0, <2>1, <2>5, <2>6, CheckerMoves
<1>5. ASSUME NEW c \in Checkers, StampSnapshot(c) PROVE MonitorInv'
  <2>1. SplitsOK(splits) /\ splits' = splits /\ UNCHANGED <<snapshots, notices, missed, day>> /\ now' = now + 1 /\ now' \in Nat
    BY <1>0, <1>b, <1>5 DEF StampSnapshot
  <2> DEFINE o == watch[c]
             s == [status |-> o.snapshot.status, volume |-> o.snapshot.volume, drifted |-> o.snapshot.drifted,
                   day |-> day, time |-> now + 1]
             w == [pc |-> "push", snapshot |-> s, notices |-> o.notices]
  <2>2. /\ o = [pc |-> o.pc, snapshot |-> o.snapshot, notices |-> o.notices] /\ o.notices \in Seq(NN)
        /\ o.snapshot \in TrueVerdicts(splits)
    <3>1. WatchOK(splits, o) /\ o.pc = "stamp"
      BY <1>0, <1>5 DEF StampSnapshot
    <3> HIDE DEF o
    <3> QED
      BY <3>1 DEF WatchOK
  <2>3. s \in TrueSnapshots(splits)
    <3> HIDE DEF o
    <3> QED
      BY <1>0, <2>2, SMTT(20) DEF TrueSnapshots, TrueVerdicts, Verdicts, SnapshotRecord, SnapshotTrue
  <2>5. WatchOK(splits, w)
    <3> HIDE DEF s, o
    <3> QED
      BY <2>2, <2>3 DEF WatchOK
  <2>6. watch' = [watch EXCEPT ![c] = w]
    BY <1>5 DEF StampSnapshot, Stamped
  <2> HIDE DEF w
  <2> QED
    BY <1>0, <2>1, <2>5, <2>6, CheckerMoves
<1>6. ASSUME NEW c \in Checkers, PushSnapshot(c) PROVE MonitorInv'
  <2>1. SplitsOK(splits) /\ splits' = splits /\ UNCHANGED <<notices, missed, now, day>>
    BY <1>0, <1>b, <1>6 DEF PushSnapshot
  <2> DEFINE o == watch[c]
             w == [pc |-> "raise", snapshot |-> o.snapshot, notices |-> o.notices]
  <2>2. /\ o = [pc |-> o.pc, snapshot |-> o.snapshot, notices |-> o.notices] /\ o.notices \in Seq(NN)
        /\ o.snapshot \in SS
    <3>1. WatchOK(splits, o) /\ o.pc = "push"
      BY <1>0, <1>6 DEF PushSnapshot
    <3> HIDE DEF o
    <3> QED
      BY <3>1 DEF WatchOK
  <2>3. snapshots' \in Seq(SS)
    <3>1. snapshots' \in {snapshots, <<o.snapshot>> \o snapshots}
      BY <1>6 DEF PushSnapshot
    <3>2. <<o.snapshot>> \in Seq(SS)
      <4> HIDE DEF SS, o
      <4> QED
        BY <2>2
    <3>3. \A a, b \in Seq(SS) : a \o b \in Seq(SS)
      <4> HIDE DEF SS
      <4> QED
        OBVIOUS
    <3> HIDE DEF SS, o
    <3> QED
      BY <1>0, <3>1, <3>2, <3>3
  <2>5. WatchOK(splits, w)
    <3> HIDE DEF o
    <3> QED
      BY <2>2 DEF WatchOK
  <2>6. watch' = [watch EXCEPT ![c] = w]
    <3>1. watch' = [watch EXCEPT ![c].pc = "raise"]
      BY <1>6 DEF PushSnapshot
    <3>2. [o EXCEPT !.pc = "raise"] = w
      <4> HIDE DEF o
      <4> QED
        BY <2>2
    <3> HIDE DEF w
    <3> QED
      BY <3>1, <3>2
  <2> HIDE DEF w
  <2> QED
    BY <1>0, <2>1, <2>3, <2>5, <2>6, CheckerMoves
<1>7. ASSUME NEW c \in Checkers, RaiseNotice(c) PROVE MonitorInv'
  <2>1. SplitsOK(splits) /\ splits' = splits /\ UNCHANGED <<snapshots, missed, now, day>>
    BY <1>0, <1>b, <1>7 DEF RaiseNotice
  <2> DEFINE o == watch[c]
             w == [pc |-> "raise", snapshot |-> o.snapshot, notices |-> Tail(o.notices)]
             n == Head(o.notices)
  <2>2. /\ o = [pc |-> o.pc, snapshot |-> o.snapshot, notices |-> o.notices]
        /\ o.notices \in Seq(NN) /\ o.notices # <<>> /\ o.pc = "raise"
    <3>1. WatchOK(splits, o) /\ o.pc = "raise" /\ o.notices # <<>>
      BY <1>0, <1>7 DEF RaiseNotice
    <3> HIDE DEF o
    <3> QED
      BY <3>1 DEF WatchOK
  <2>3. n \in NN /\ Tail(o.notices) \in Seq(NN)
    <3> HIDE DEF NN, o
    <3> QED
      BY <2>2
  <2>4. notices' \in Seq(RaisedNotices(splits))
    <3>1. notices' = notices \/ notices' = Append(notices, [title |-> n.title, severity |-> n.severity, active |-> TRUE])
      BY <1>7 DEF RaiseNotice
    <3> DEFINE r == [title |-> n.title, severity |-> n.severity, active |-> TRUE]
    <3>2. r \in RaisedNotices(splits)
      <4> HIDE DEF n
      <4> QED
        BY <2>3 DEF RaisedNotices, TrueNotices, Noticed, NoticeTrue
    <3> DEFINE N == RaisedNotices(splits)
    <3>3. r \in N /\ notices \in Seq(N) /\ (notices' = notices \/ notices' = Append(notices, r))
      BY <1>0, <3>1, <3>2
    <3> HIDE DEF n, r, N
    <3>4. notices' \in Seq(N)
      BY <3>3
    <3> QED
      BY <3>4 DEF N
  <2>5. WatchOK(splits, w)
    <3> HIDE DEF o
    <3> QED
      BY <2>3 DEF WatchOK
  <2>6. watch' = [watch EXCEPT ![c] = w]
    <3>1. watch' = [watch EXCEPT ![c].notices = Tail(@)]
      BY <1>7 DEF RaiseNotice
    <3>2. [o EXCEPT !.notices = Tail(@)] = w
      <4> HIDE DEF o
      <4> QED
        BY <2>2
    <3> HIDE DEF w
    <3> QED
      BY <3>1, <3>2
  <2> HIDE DEF w
  <2> QED
    BY <1>0, <2>1, <2>4, <2>5, <2>6, CheckerMoves
<1>8. ASSUME NEW c \in Checkers, EndCheck(c) PROVE MonitorInv'
  <2>1. /\ SplitsOK(splits) /\ splits' = splits /\ UNCHANGED <<snapshots, notices, missed, now, day>>
        /\ watch' = [watch EXCEPT ![c] = Resting]
    BY <1>0, <1>b, <1>8 DEF EndCheck
  <2> QED
    BY <1>0, <2>1, RestingOK, CheckerMoves
<1>9. CASE AcknowledgeNotice
  <2>1. splits' = splits /\ UNCHANGED <<watch, snapshots, missed, now, day>>
    BY <1>9 DEF AcknowledgeNotice
  <2>2. notices' \in Seq(RaisedNotices(splits))
    <3>1. PICK i \in DOMAIN notices : notices' = [notices EXCEPT ![i].active = FALSE]
      BY <1>9 DEF AcknowledgeNotice
    <3>2. notices[i] \in RaisedNotices(splits)
      BY <1>0
    <3>3. [notices[i] EXCEPT !.active = FALSE] \in RaisedNotices(splits)
      <4> DEFINE n == notices[i]
      <4>1. n \in [title : Watched \cup Protected, severity : Levels, active : BOOLEAN] /\ NoticeTrue(splits, n)
        BY <3>2 DEF RaisedNotices
      <4> HIDE DEF n
      <4>2. /\ [n EXCEPT !.active = FALSE] \in [title : Watched \cup Protected, severity : Levels, active : BOOLEAN]
            /\ [n EXCEPT !.active = FALSE].title = n.title /\ [n EXCEPT !.active = FALSE].severity = n.severity
        BY <4>1
      <4> QED
        BY <4>1, <4>2 DEF RaisedNotices, NoticeTrue, n
    <3>4. notices' = [notices EXCEPT ![i] = [notices[i] EXCEPT !.active = FALSE]]
      BY <3>1
    <3> DEFINE m == [notices[i] EXCEPT !.active = FALSE]
    <3>5. m \in RaisedNotices(splits) /\ notices' = [notices EXCEPT ![i] = m]
      BY <3>3, <3>4
    <3> HIDE DEF m
    <3> QED
      BY <1>0, <3>5
  <2>3. \A c \in Checkers : WatchOK(splits', watch'[c])
    BY <1>0, <2>1
  <2>4. splits = Unmonitored => notices' = <<>>
    BY <1>0, <1>9 DEF AcknowledgeNotice
  <2> QED
    BY <1>0, <2>1, <2>2, <2>3, <2>4, Zenon DEF MonitorInv
<1>10. CASE NextDay
  <2>1. splits' = splits /\ UNCHANGED <<watch, snapshots, notices, missed, now>> /\ day' \in Nat
    BY <1>0, <1>10 DEF NextDay
  <2>3. \A c \in Checkers : WatchOK(splits', watch'[c])
    BY <1>0, <2>1
  <2> QED
    BY <1>0, <2>1, <2>3, Zenon DEF MonitorInv
<1>11. ASSUME NEW c \in Checkers, NoticeFails(c) PROVE MonitorInv'
  <2>1. SplitsOK(splits) /\ splits' = splits /\ UNCHANGED <<snapshots, notices, now, day>>
    BY <1>0, <1>b, <1>11 DEF NoticeFails
  <2> DEFINE o == watch[c]
             w == [pc |-> "raise", snapshot |-> o.snapshot, notices |-> Tail(o.notices)]
  <2>2. /\ o = [pc |-> o.pc, snapshot |-> o.snapshot, notices |-> o.notices]
        /\ o.notices \in Seq(NN) /\ o.notices # <<>> /\ o.pc = "raise"
    <3>1. WatchOK(splits, o) /\ o.pc = "raise" /\ o.notices # <<>>
      BY <1>0, <1>11 DEF NoticeFails
    <3> HIDE DEF o
    <3> QED
      BY <3>1 DEF WatchOK
  <2>3. Head(o.notices) \in NN /\ Tail(o.notices) \in Seq(NN)
    <3> HIDE DEF NN, o
    <3> QED
      BY <2>2
  <2>4. missed' \subseteq Watched \cup Protected
    <3>1. missed' = missed \cup {Head(o.notices).title}
      BY <1>11 DEF NoticeFails
    <3> QED
      BY <1>0, <2>3, <3>1 DEF TrueNotices, Noticed
  <2>5. WatchOK(splits, w)
    <3> HIDE DEF o
    <3> QED
      BY <2>3 DEF WatchOK
  <2>6. watch' = [watch EXCEPT ![c] = w]
    <3>1. watch' = [watch EXCEPT ![c].notices = Tail(@)]
      BY <1>11 DEF NoticeFails
    <3>2. [o EXCEPT !.notices = Tail(@)] = w
      <4> HIDE DEF o
      <4> QED
        BY <2>2
    <3> HIDE DEF w
    <3> QED
      BY <3>1, <3>2
  <2> HIDE DEF w
  <2> QED
    BY <1>0, <2>1, <2>4, <2>5, <2>6, CheckerMoves
<1>12. ASSUME NEW c \in Checkers, CheckDies(c) PROVE MonitorInv'
  <2>1. /\ SplitsOK(splits) /\ splits' = splits /\ UNCHANGED <<snapshots, notices, now, day>>
        /\ watch' = [watch EXCEPT ![c] = Resting] /\ missed' = missed \cup Titles(watch[c].notices)
    BY <1>0, <1>b, <1>12 DEF CheckDies
  <2>2. Titles(watch[c].notices) \subseteq Watched \cup Protected
    <3>1. watch[c].notices \in Seq(NN)
      BY <1>0 DEF WatchOK
    <3>2. \A i \in DOMAIN watch[c].notices : watch[c].notices[i] \in NN
      <4> DEFINE q == watch[c].notices
      <4> HIDE DEF NN, q
      <4>1. q \in Seq(NN)
        BY <3>1 DEF q
      <4>2. \A i \in DOMAIN q : q[i] \in NN
        BY <4>1
      <4> QED
        BY <4>2 DEF q
    <3> QED
      BY <3>2 DEF Titles, TrueNotices, Noticed
  <2>3. missed' \subseteq Watched \cup Protected
    BY <1>0, <2>1, <2>2
  <2> QED
    BY <1>0, <2>1, <2>3, RestingOK, CheckerMoves
<1> QED
  BY <1>1, <1>2, <1>3, <1>4, <1>5, <1>6, <1>7, <1>8, <1>9, <1>10, <1>11, <1>12 DEF MonitoringNext

\* Of every step: what is pending was not raised yet, what is stored or about to
\* be was noticed.
Answered == Titles(notices) \cup missed

ToldInv ==
  /\ \A c \in Checkers :
       /\ Leads(splits, watch[c].notices, Answered)
       /\ watch[c].pc = "idle" => watch[c].notices = <<>>
       /\ watch[c].pc \in {"stamp", "push"} => watch[c].snapshot.drifted \subseteq Titles(watch[c].notices)
  /\ Leads(splits, notices, missed)
  /\ \A i \in DOMAIN snapshots : snapshots[i].drifted \subseteq Answered \cup Pending

LEMMA ToldInvInit == MonitoringInit => ToldInv
BY DEF MonitoringInit, ToldInv, Leads, Titles, Resting

LEMMA LeadsMore ==
  ASSUME NEW p, NEW q, NEW F, NEW G, Leads(p, q, F), F \subseteq G
  PROVE Leads(p, q, G)
BY DEF Leads

\* A checker took a step, and answered for what it has not to raise any more.
LEMMA CheckerTells ==
  ASSUME MonitorInv, ToldInv, splits' = splits, NEW c \in Checkers, NEW w, watch' = [watch EXCEPT ![c] = w],
         Titles(notices) \subseteq Titles(notices'), missed \subseteq missed',
         Titles(watch[c].notices) \subseteq Titles(w.notices) \cup Titles(notices') \cup missed',
         Leads(splits, w.notices, Titles(notices') \cup missed'), Leads(splits, notices', missed'),
         w.pc = "idle" => w.notices = <<>>,
         w.pc \in {"stamp", "push"} => w.snapshot.drifted \subseteq Titles(w.notices),
         \A i \in DOMAIN snapshots' :
           \/ snapshots'[i].drifted \subseteq Titles(w.notices)
           \/ \E j \in DOMAIN snapshots : snapshots'[i] = snapshots[j]
  PROVE ToldInv'
<1>1. Answered' = Titles(notices') \cup missed' /\ Answered \subseteq Answered'
  BY DEF Answered, Titles
<1>2. DOMAIN watch = Checkers /\ watch'[c] = w /\ \A k \in Checkers : k # c => watch'[k] = watch[k]
  BY DEF MonitorInv
<1>3. ASSUME NEW k \in Checkers
      PROVE /\ Leads(splits, watch'[k].notices, Answered')
            /\ watch'[k].pc = "idle" => watch'[k].notices = <<>>
            /\ watch'[k].pc \in {"stamp", "push"} => watch'[k].snapshot.drifted \subseteq Titles(watch'[k].notices)
  <2>1. CASE k = c
    BY <1>1, <1>2, <2>1
  <2>2. CASE k # c
    <3>1. Leads(splits, watch[k].notices, Answered)
      BY DEF ToldInv
    <3>2. Leads(splits, watch[k].notices, Answered')
      BY <1>1, <3>1, LeadsMore
    <3> QED
      BY <1>2, <2>2, <3>2 DEF ToldInv
  <2> QED
    BY <2>1, <2>2
<1>4. Pending \subseteq Answered' \cup Pending' /\ Titles(w.notices) \subseteq Pending'
  <2>1. Pending = UNION {Titles(watch[k].notices) : k \in Checkers}
        /\ Pending' = UNION {Titles(watch'[k].notices) : k \in Checkers}
    BY DEF Pending, Titles
  <2> QED
    BY <1>1, <1>2, <2>1
<1>5. ASSUME NEW i \in DOMAIN snapshots' PROVE snapshots'[i].drifted \subseteq Answered' \cup Pending'
  <2>1. ASSUME NEW j \in DOMAIN snapshots, snapshots'[i] = snapshots[j]
        PROVE snapshots'[i].drifted \subseteq Answered' \cup Pending'
    BY <1>1, <1>4, <2>1 DEF ToldInv
  <2> QED
    BY <1>4, <2>1
<1>6. Leads(splits', notices', missed') /\ \A k \in Checkers : Leads(splits', watch'[k].notices, Answered')
  BY <1>3
<1> QED
  BY <1>3, <1>5, <1>6 DEF ToldInv

\* The head of what is pending is answered for, and the rest follows.
LEMMA LeadsOn ==
  ASSUME NEW p, NEW N, NEW q \in Seq(N), q # <<>>, NEW F, NEW G, Leads(p, q, F),
         F \subseteq G, Head(q).title \in G
  PROVE Leads(p, Tail(q), G) /\ Titles(q) = Titles(Tail(q)) \cup {Head(q).title}
<1> DEFINE m == Tail(q)
<1>1. /\ m \in Seq(N) /\ Len(m) \in Nat /\ Len(m) = Len(q) - 1 /\ DOMAIN q = 1..Len(q) /\ DOMAIN m = 1..Len(m)
      /\ \A i \in DOMAIN m : m[i] = q[i + 1]
  BY HeadTailProperties
<1>2. Head(q) = q[1] /\ 1 \in DOMAIN q
  BY <1>1
<1> HIDE DEF m
<1>3. ASSUME NEW i \in DOMAIN m, m[i].title \in Watched, p.psi[m[i].title] # "OK", m[i].title \notin G
      PROVE \E k \in 1..i : m[k].title = m[i].title /\ m[k].severity = p.psi[m[i].title]
  <2>1. i + 1 \in DOMAIN q /\ m[i] = q[i + 1]
    BY <1>1
  <2>2. PICK k \in 1..(i + 1) : q[k].title = m[i].title /\ q[k].severity = p.psi[m[i].title]
    BY <1>3, <2>1 DEF Leads
  <2>3. k # 1
    BY <1>2, <1>3, <2>2
  <2>4. k - 1 \in 1..i /\ k - 1 \in DOMAIN m /\ m[k - 1] = q[k]
    BY <1>1, <2>1, <2>2, <2>3
  <2> QED
    BY <2>2, <2>4
<1>4. ASSUME NEW i \in DOMAIN q PROVE q[i].title \in Titles(m) \cup {Head(q).title}
  <2>1. CASE i = 1
    BY <1>2, <2>1
  <2>2. CASE i # 1
    <3>1. i - 1 \in DOMAIN m /\ m[i - 1] = q[i]
      BY <1>1, <2>2
    <3> QED
      BY <3>1 DEF Titles
  <2> QED
    BY <2>1, <2>2
<1>5. ASSUME NEW i \in DOMAIN m PROVE m[i].title \in Titles(q)
  <2>1. i + 1 \in DOMAIN q /\ m[i] = q[i + 1]
    BY <1>1
  <2> QED
    BY <2>1 DEF Titles
<1>6. Head(q).title \in Titles(q)
  BY <1>2 DEF Titles
<1>7. Titles(q) = Titles(m) \cup {Head(q).title}
  BY <1>4, <1>5, <1>6 DEF Titles
<1> QED
  BY <1>3, <1>7 DEF Leads, m

\* Each action of monitoring answers for what it noticed.
LEMMA ToldInvStep == MonitorInv /\ ToldInv /\ [MonitoringNext]_monitoringVars => ToldInv'
<1> SUFFICES ASSUME MonitorInv, ToldInv, [MonitoringNext]_monitoringVars PROVE ToldInv'
  OBVIOUS
<1> DEFINE NN == TrueNotices(splits)
           RN == RaisedNotices(splits)
<1>0. /\ DOMAIN watch = Checkers /\ notices \in Seq(RN)
      /\ \A c \in Checkers : watch[c].notices \in Seq(NN)
      /\ splits = Unmonitored \/ SplitsOK(splits)
      /\ splits = Unmonitored => watch = [c \in Checkers |-> Resting] /\ snapshots = <<>> /\ notices = <<>>
  BY DEF MonitorInv, WatchOK
<1>a. /\ Leads(splits, notices, missed)
      /\ \A c \in Checkers :
           /\ Leads(splits, watch[c].notices, Answered)
           /\ watch[c].pc = "idle" => watch[c].notices = <<>>
           /\ watch[c].pc \in {"stamp", "push"} => watch[c].snapshot.drifted \subseteq Titles(watch[c].notices)
  BY DEF ToldInv
<1>b. \A q : Titles(q) = {q[i].title : i \in DOMAIN q}
  BY DEF Titles
<1>c. /\ Titles(<<>>) = {} /\ (\A p, F : Leads(p, <<>>, F))
      /\ Resting.notices = <<>> /\ Resting.pc = "idle"
  BY DEF Titles, Leads, Resting
<1> HIDE DEF NN, RN
<1>1. CASE UNCHANGED monitoringVars
  <2>1. UNCHANGED <<splits, watch, snapshots, notices, missed>>
    BY <1>1 DEF monitoringVars
  <2>2. Answered' = Answered /\ Pending' = Pending
    BY <2>1 DEF Answered, Pending, Titles
  <2> QED
    BY <2>1, <2>2 DEF ToldInv
<1>2. CASE TrainMonitored
  <2>1. /\ watch' = watch /\ snapshots' = <<>> /\ notices' = <<>> /\ \A c \in Checkers : watch[c] = Resting
    BY <1>0, <1>2 DEF TrainMonitored
  <2>2. \A c \in Checkers : watch'[c].notices = <<>> /\ watch'[c].pc = "idle"
    BY <1>c, <2>1
  <2> QED
    BY <1>c, <2>1, <2>2 DEF ToldInv
<1>3. ASSUME NEW c \in Checkers, BeginDriftCheck(c) PROVE ToldInv'
  <2>1. SplitsOK(splits) /\ splits' = splits /\ UNCHANGED <<snapshots, notices, missed>> /\ watch[c].notices = <<>>
    BY <1>0, <1>a, <1>3 DEF BeginDriftCheck, Unmonitored
  <2>2. PICK read \in BOOLEAN :
          watch' = [watch EXCEPT ![c] =
            [pc |-> "stamp", snapshot |-> Snapshot(IF read THEN Watched ELSE {}),
             notices |-> IF read THEN DriftNotices ELSE <<>>]]
    BY <1>3 DEF BeginDriftCheck
  <2> DEFINE s == Snapshot(IF read THEN Watched ELSE {})
             n == IF read THEN DriftNotices ELSE <<>>
             w == [pc |-> "stamp", snapshot |-> s, notices |-> n]
  <2>3. Leads(splits, n, Titles(notices') \cup missed')
    <3>1. Leads(splits, n, {})
      BY <1>c, <2>1, DriftNoticesTrue
    <3> QED
      BY <3>1, LeadsMore
  <2>4. s.drifted \subseteq Titles(n)
    <3>1. s.drifted = Drifted(IF read THEN Watched ELSE {})
      BY DEF Snapshot
    <3>2. Drifted({}) = {}
      BY DEF Drifted
    <3> QED
      BY <2>1, <3>1, <3>2, DriftNoticesTrue
  <2>5. w.pc = "stamp" /\ w.snapshot = s /\ w.notices = n /\ watch' = [watch EXCEPT ![c] = w]
    BY <2>2
  <2>6. \A i \in DOMAIN snapshots' : snapshots'[i] = snapshots[i] /\ i \in DOMAIN snapshots
    BY <2>1
  <2> HIDE DEF w, s, n
  <2> QED
    BY <1>a, <1>c, <2>1, <2>3, <2>4, <2>5, <2>6, CheckerTells
<1>4. ASSUME NEW c \in Checkers, BeginBiasCheck(c) PROVE ToldInv'
  <2>1. SplitsOK(splits) /\ splits' = splits /\ UNCHANGED <<snapshots, notices, missed>> /\ watch[c].notices = <<>>
    BY <1>0, <1>a, <1>4 DEF BeginBiasCheck, Unmonitored
  <2>2. PICK read \in BOOLEAN :
          watch' = [watch EXCEPT ![c] = [pc |-> "raise", snapshot |-> <<>>,
                                         notices |-> IF read THEN BiasNotices ELSE <<>>]]
    BY <1>4 DEF BeginBiasCheck
  <2> DEFINE n == IF read THEN BiasNotices ELSE <<>>
             w == [pc |-> "raise", snapshot |-> <<>>, notices |-> n]
  <2>3. Leads(splits, n, Titles(notices') \cup missed')
    <3>1. Leads(splits, n, {})
      BY <1>c, <2>1, BiasNoticesTrue
    <3> QED
      BY <3>1, LeadsMore
  <2>5. w.pc = "raise" /\ w.notices = n /\ watch' = [watch EXCEPT ![c] = w]
    BY <2>2
  <2>6. \A i \in DOMAIN snapshots' : snapshots'[i] = snapshots[i] /\ i \in DOMAIN snapshots
    BY <2>1
  <2> HIDE DEF w, n
  <2> QED
    BY <1>a, <1>c, <2>1, <2>3, <2>5, <2>6, CheckerTells
<1>5. ASSUME NEW c \in Checkers, StampSnapshot(c) PROVE ToldInv'
  <2> DEFINE w == [pc |-> "push", snapshot |-> Stamped(watch[c].snapshot), notices |-> watch[c].notices]
  <2>1. splits' = splits /\ UNCHANGED <<snapshots, notices, missed>> /\ watch[c].pc = "stamp"
        /\ watch' = [watch EXCEPT ![c] = w]
    BY <1>5 DEF StampSnapshot
  <2>2. w.pc = "push" /\ w.notices = watch[c].notices /\ w.snapshot.drifted = watch[c].snapshot.drifted
    BY DEF Stamped
  <2>3. \A i \in DOMAIN snapshots' : snapshots'[i] = snapshots[i] /\ i \in DOMAIN snapshots
    BY <2>1
  <2>4. Leads(splits, w.notices, Titles(notices') \cup missed')
    BY <1>a, <2>1, <2>2 DEF Answered
  <2> HIDE DEF w
  <2> QED
    BY <1>a, <2>1, <2>2, <2>3, <2>4, CheckerTells
<1>6. ASSUME NEW c \in Checkers, PushSnapshot(c) PROVE ToldInv'
  <2> DEFINE w == [watch[c] EXCEPT !.pc = "raise"]
  <2>1. /\ splits' = splits /\ UNCHANGED <<notices, missed>> /\ watch[c].pc = "push"
        /\ watch' = [watch EXCEPT ![c] = w] /\ snapshots' \in {snapshots, <<watch[c].snapshot>> \o snapshots}
    BY <1>6 DEF PushSnapshot
  <2>2. w.pc = "raise" /\ w.notices = watch[c].notices
    <3>1. watch[c] = [pc |-> watch[c].pc, snapshot |-> watch[c].snapshot, notices |-> watch[c].notices]
      BY DEF MonitorInv, WatchOK
    <3> QED
      BY <3>1
  <2>3. ASSUME NEW i \in DOMAIN snapshots'
        PROVE \/ snapshots'[i].drifted \subseteq Titles(w.notices)
              \/ \E j \in DOMAIN snapshots : snapshots'[i] = snapshots[j]
    <3>1. snapshots \in Seq(TrueSnapshots(splits)) /\ Len(snapshots) \in Nat
      BY DEF MonitorInv
    <3> DEFINE x == watch[c].snapshot
               m == <<x>> \o snapshots
    <3>2. DOMAIN m = 1..(Len(snapshots) + 1) /\ m[1] = x /\ \A k \in 2..(Len(snapshots) + 1) : m[k] = snapshots[k - 1]
      <4> HIDE DEF x
      <4> QED
        BY <3>1
    <3>3. CASE snapshots' = snapshots
      BY <3>3
    <3>4. CASE snapshots' = m
      <4>1. CASE i = 1
        BY <1>a, <2>1, <2>2, <3>2, <3>4, <4>1
      <4>2. CASE i # 1
        <5>1. i - 1 \in DOMAIN snapshots /\ snapshots'[i] = snapshots[i - 1]
          <6> HIDE DEF m
          <6> QED
            BY <3>1, <3>2, <3>4, <4>2
        <5> QED
          BY <5>1
      <4> QED
        BY <4>1, <4>2
    <3> QED
      BY <2>1, <3>3, <3>4
  <2>4. Leads(splits, w.notices, Titles(notices') \cup missed')
    BY <1>a, <2>1, <2>2 DEF Answered
  <2> HIDE DEF w
  <2> QED
    BY <1>a, <2>1, <2>2, <2>3, <2>4, CheckerTells
<1>7. ASSUME NEW c \in Checkers, watch[c].pc = "raise", watch[c].notices # <<>>,
             splits' = splits, snapshots' = snapshots, watch' = [watch EXCEPT ![c].notices = Tail(@)],
             Titles(notices) \subseteq Titles(notices'), missed \subseteq missed',
             Head(watch[c].notices).title \in Titles(notices') \cup missed', Leads(splits, notices', missed')
      PROVE ToldInv'
  <2> DEFINE w == [watch[c] EXCEPT !.notices = Tail(@)]
             q == watch[c].notices
             G == Titles(notices') \cup missed'
  <2>1. w.pc = "raise" /\ w.notices = Tail(q)
    <3>1. watch[c] = [pc |-> watch[c].pc, snapshot |-> watch[c].snapshot, notices |-> watch[c].notices]
      BY DEF MonitorInv, WatchOK
    <3> QED
      BY <1>7, <3>1
  <2>2. Leads(splits, Tail(q), G) /\ Titles(q) = Titles(Tail(q)) \cup {Head(q).title}
    <3>1. q \in Seq(NN) /\ q # <<>> /\ Leads(splits, q, Answered) /\ Answered \subseteq G /\ Head(q).title \in G
      BY <1>0, <1>7, <1>a DEF Answered
    <3> HIDE DEF q, G
    <3> QED
      BY <3>1, LeadsOn
  <2>3. \A i \in DOMAIN snapshots' : snapshots'[i] = snapshots[i] /\ i \in DOMAIN snapshots
    BY <1>7
  <2>4. watch' = [watch EXCEPT ![c] = w]
    BY <1>7
  <2> HIDE DEF w
  <2> QED
    BY <1>7, <2>1, <2>2, <2>3, <2>4, CheckerTells
<1>8. ASSUME NEW c \in Checkers, RaiseNotice(c) PROVE ToldInv'
  <2> DEFINE h == Head(watch[c].notices)
             x == [title |-> h.title, severity |-> h.severity, active |-> TRUE]
  <2>1. /\ watch[c].pc = "raise" /\ watch[c].notices # <<>> /\ splits' = splits /\ snapshots' = snapshots
        /\ missed' = missed /\ watch' = [watch EXCEPT ![c].notices = Tail(@)]
        /\ \/ h.title \in ActiveTitles /\ notices' = notices
           \/ notices' = Append(notices, x)
    BY <1>8 DEF RaiseNotice
  <2>2. CASE h.title \in ActiveTitles /\ notices' = notices
    <3>1. h.title \in Titles(notices)
      BY <2>2 DEF ActiveTitles, Titles
    <3> QED
      BY <1>7, <1>a, <2>1, <2>2, <3>1
  <2>3. CASE notices' = Append(notices, x)
    <3>1. h \in NN
      <4> DEFINE q == watch[c].notices
      <4>1. q \in Seq(NN) /\ q # <<>>
        BY <1>0, <2>1
      <4> HIDE DEF q
      <4>2. Head(q) \in NN
        BY <4>1
      <4> QED
        BY <4>2 DEF q
    <3>2. x \in RN
      <4> HIDE DEF h
      <4> QED
        BY <3>1 DEF NN, RN, RaisedNotices, TrueNotices, Noticed, NoticeTrue
    <3>3. MayFollow(splits, notices, missed, x)
      <4>1. Leads(splits, watch[c].notices, Answered)
        BY <1>a
      <4> DEFINE q == watch[c].notices
      <4>2. h = q[1] /\ 1 \in DOMAIN q
        <5>1. q \in Seq(NN) /\ q # <<>>
          BY <1>0, <2>1
        <5> HIDE DEF q
        <5>2. Head(q) = q[1] /\ 1 \in DOMAIN q
          BY <5>1
        <5> QED
          BY <5>2 DEF q
      <4>3. h.title \in Watched /\ splits.psi[h.title] # "OK" =>
              h.title \in Answered \/ h.severity = splits.psi[h.title]
        <5> HIDE DEF h, q
        <5>1. \A k \in 1..1 : k = 1
          OBVIOUS
        <5> QED
          BY <4>1, <4>2, <5>1 DEF Leads, q
      <4>4. h.title \in Titles(notices) => \E j \in DOMAIN notices : notices[j].title = h.title
        BY DEF Titles
      <4>5. x.title = h.title /\ x.severity = h.severity
        OBVIOUS
      <4> HIDE DEF h, x
      <4> QED
        BY <4>3, <4>4, <4>5 DEF MayFollow, Answered
    <3>4. Leads(splits, notices', missed) /\ Titles(notices') = Titles(notices) \cup {x.title}
      <4> HIDE DEF x
      <4> QED
        BY <1>0, <1>a, <2>3, <3>2, <3>3, LeadsLonger
    <3>5. h.title \in Titles(notices')
      BY <3>4
    <3> QED
      BY <1>7, <2>1, <3>4, <3>5
  <2> QED
    BY <2>1, <2>2, <2>3
<1>9. ASSUME NEW c \in Checkers, NoticeFails(c) PROVE ToldInv'
  <2>1. /\ watch[c].pc = "raise" /\ watch[c].notices # <<>> /\ splits' = splits /\ snapshots' = snapshots
        /\ notices' = notices /\ watch' = [watch EXCEPT ![c].notices = Tail(@)]
        /\ missed' = missed \cup {Head(watch[c].notices).title}
    BY <1>9 DEF NoticeFails
  <2>2. Leads(splits, notices', missed')
    BY <1>a, <2>1, LeadsMore
  <2> QED
    BY <1>7, <2>1, <2>2
<1>10. ASSUME NEW c \in Checkers, splits' = splits, snapshots' = snapshots, notices' = notices,
              missed' = missed \cup Titles(watch[c].notices), watch' = [watch EXCEPT ![c] = Resting]
       PROVE ToldInv'
  <2>1. Leads(splits, notices', missed')
    BY <1>10, <1>a, LeadsMore
  <2>2. \A i \in DOMAIN snapshots' : \E j \in DOMAIN snapshots : snapshots'[i] = snapshots[j]
    BY <1>10
  <2>3. Titles(notices') = Titles(notices)
    BY <1>10
  <2>4. Leads(splits, Resting.notices, Titles(notices') \cup missed')
    BY <1>c
  <2> QED
    BY <1>10, <1>c, <2>1, <2>2, <2>3, <2>4, CheckerTells
<1>11. ASSUME NEW c \in Checkers, CheckDies(c) PROVE ToldInv'
  BY <1>10, <1>11 DEF CheckDies
<1>12. ASSUME NEW c \in Checkers, EndCheck(c) PROVE ToldInv'
  <2>1. missed' = missed \cup Titles(watch[c].notices)
    BY <1>12, <1>c DEF EndCheck
  <2> QED
    BY <1>10, <1>12, <2>1 DEF EndCheck
<1>13. CASE AcknowledgeNotice
  <2>1. splits' = splits /\ UNCHANGED <<watch, snapshots, missed>>
    BY <1>13 DEF AcknowledgeNotice
  <2>2. PICK i \in DOMAIN notices : notices' = [notices EXCEPT ![i].active = FALSE]
    BY <1>13 DEF AcknowledgeNotice
  <2>3. DOMAIN notices' = DOMAIN notices
        /\ \A k \in DOMAIN notices : notices'[k].title = notices[k].title /\ notices'[k].severity = notices[k].severity
    <3>1. notices[i] \in [title : Watched \cup Protected, severity : Levels, active : BOOLEAN]
      BY <1>0 DEF RN, RaisedNotices
    <3>2. notices \in Seq(RN)
      BY <1>0
    <3> QED
      BY <2>2, <3>1, <3>2
  <2>4. Titles(notices') = Titles(notices)
    BY <2>3 DEF Titles
  <2>5. Leads(splits, notices', missed)
    <3>1. \A k \in DOMAIN notices : 1..k \subseteq DOMAIN notices
      BY <1>0
    <3> QED
      BY <1>a, <2>3, <3>1 DEF Leads
  <2>6. Answered' = Answered
    BY <2>1, <2>4 DEF Answered
  <2>7. Pending' = Pending
    BY <2>1 DEF Pending, Titles
  <2> QED
    BY <2>1, <2>5, <2>6, <2>7 DEF ToldInv
<1>14. CASE NextDay
  BY <1>14 DEF NextDay, ToldInv, Answered, Pending, Titles
<1> QED
  BY <1>1, <1>2, <1>3, <1>4, <1>5, <1>6, <1>8, <1>9, <1>11, <1>12, <1>13, <1>14 DEF MonitoringNext

\* The invariants entail what the monitoring pages must tell.
LEMMA MonitorInvTells == MonitorInv /\ ToldInv => MonitoringTells
<1> SUFFICES ASSUME MonitorInv, ToldInv PROVE MonitoringTells
  OBVIOUS
<1>1. snapshots \in Seq(TrueSnapshots(splits)) /\ notices \in Seq(RaisedNotices(splits))
  BY DEF MonitorInv
<1>2. \A i \in DOMAIN snapshots : snapshots[i] \in SnapshotRecord /\ SnapshotTrue(splits, snapshots[i])
  BY <1>1 DEF TrueSnapshots
<1>3. Len(snapshots) \in Nat /\ DOMAIN snapshots = 1..Len(snapshots)
      /\ \A i \in DOMAIN snapshots : snapshots[i].time \in Nat
  BY <1>1, <1>2 DEF SnapshotRecord
<1>4. ASSUME NEW d \in 1..MaxDays
      PROVE /\ \A i \in DOMAIN snapshots : snapshots[i].day = d => snapshots[i].time <= DayRow(d).time
            /\ DayRow(d).status = "OK" =>
                 DayRow(d).volume = 0 \/ \A f \in Watched : splits.psi[f] = "OK" /\ splits.shift[f] = "none"
  <2>1. /\ \A i \in DOMAIN snapshots : snapshots[i].day = d => snapshots[i].time <= DayRow(d).time
        /\ DayRow(d) = NoData \/ \E i \in DOMAIN snapshots : DayRow(d) = snapshots[i]
    BY <1>3, DayRowIsLatest
  <2> QED
    BY <1>2, <2>1 DEF NoData, SnapshotTrue
<1>5. \A i \in DOMAIN snapshots : snapshots[i].drifted \subseteq Titles(notices) \cup missed \cup Pending
  BY DEF ToldInv, Answered
<1>6. ASSUME NEW i \in DOMAIN notices, NEW t, t = notices[i].title
      PROVE /\ t \in Watched =>
                 /\ \/ t \in Drifted(Watched) /\ notices[i].severity = splits.psi[t]
                    \/ t \in Shifted(Watched) /\ notices[i].severity = ShiftLevel(splits.shift[t])
                 /\ t \in Drifted(Watched) \ missed =>
                      \E k \in 1..i : notices[k].title = t /\ notices[k].severity = splits.psi[t]
            /\ t \in Protected =>
                 /\ notices[i].severity = BiasLevel(GroupRates(t)) /\ BiasLevel(GroupRates(t)) # "OK"
                 /\ t \in splits.lacking \/ Cardinality(splits.rates[t]) > 1
  <2>1. NoticeTrue(splits, notices[i])
    <3>1. notices[i] \in RaisedNotices(splits)
      BY <1>1
    <3> QED
      BY <3>1 DEF RaisedNotices
  <2>2. t \in Watched => (t \in Drifted(Watched) <=> splits.psi[t] # "OK")
                         /\ (t \in Shifted(Watched) <=> splits.shift[t] # "none")
    BY DEF Drifted, Shifted
  <2>3. t \in Drifted(Watched) \ missed =>
          \E k \in 1..i : notices[k].title = t /\ notices[k].severity = splits.psi[t]
    BY <1>6, <2>2 DEF ToldInv, Leads, Drifted
  <2>4. RatesOf(splits, t) = GroupRates(t)
    BY DEF RatesOf, GroupRates
  <2> QED
    BY <1>6, <2>1, <2>2, <2>3, <2>4 DEF NoticeTrue
<1> QED
  BY <1>4, <1>5, <1>6, Zenon DEF MonitoringTells

\* A day shows its latest check in whatever order checks were stored, and an OK
\* is one of splits that do not drift or of a check that read nothing; what the
\* list shows as drifted was alerted or will be, unless that failed; an alert
\* has the level of its PSI, its shift or its groups, and the first of a feature
\* that of its PSI.  For any features, attributes, checkers and number of checks.
THEOREM MonitoringIsTold == Spec => []MonitoringTells
<1>1. Init => MonitorInv /\ ToldInv
  BY MonitorInvInit, ToldInvInit DEF Init
<1>2. MonitorInv /\ ToldInv /\ [Next]_vars => (MonitorInv /\ ToldInv)'
  BY WatchStep, MonitorInvStep, ToldInvStep
<1>3. MonitorInv /\ ToldInv => MonitoringTells
  BY MonitorInvTells
<1> QED
  BY <1>1, <1>2, <1>3, PTL DEF Spec

(***************************************************************************)
(* The type invariants of the components.                                  *)
(***************************************************************************)
LEMMA AccountsTyped == AccountsInv => AccountsTypeOK
BY DEF AccountsInv, DesksOK, AccountsTypeOK, AskedRequests, DeskEmpty, Decisions, RowEdits

\* A step of the card keeps its copies; its own fields are CardTyped.
LEMMA CardTypeStep == CardInv /\ CardTypeOK /\ CardInv' /\ [CardNext]_cardVars => CardTypeOK'
<1> SUFFICES ASSUME CardInv, CardTypeOK, CardInv', [CardNext]_cardVars PROVE CardTypeOK'
  OBVIOUS
<1>1. /\ card'.shown \in CardSets \cup {NoCardSet}
      /\ card'.own \in 0..MaxRefusals + 1 /\ card'.refused \in 0..MaxRefusals
  BY CardAssumption DEF CardInv, CardTyped, TriggerKept
<1>2. copies' \in [CardSets -> Statuses] /\ results' \in [CardSets -> Statuses]
  BY DEF CardTypeOK, CardNext, cardVars, ShowSet, Poll, TriggerAnalysis, RetryAnalysis, AnalysisAnswered,
         ToggleTab, SetEnds, Statuses
<1> QED
  BY <1>1, <1>2 DEF CardTypeOK

\* Only merges record lineage, so only they are cut between their commits.
DataTyped == DataTypeOK /\ \A j \in Splits : ~At(j, "lineage")

LEMMA DataTypeStep == DataInv /\ DataTyped /\ DataInv' /\ [DataNext]_dataVars => DataTyped'
<1> SUFFICES ASSUME DataInv, DataTyped, DataInv', [DataNext]_dataVars PROVE DataTyped'
  OBVIOUS
<1> DEFINE Files == DatasetIds \X {"cloud", "local"}
           Lines == Merges \X DatasetIds
           Typed == files' \subseteq Files /\ lineage' \subseteq Lines
                    /\ doomed' \subseteq DatasetIds /\ cut' \subseteq Merges
           Split == \A j \in Splits : ~At(j, "lineage")'
<1>0. /\ files \subseteq Files /\ lineage \subseteq Lines
      /\ doomed \subseteq DatasetIds /\ cut \subseteq Merges
      /\ makes \in [Makers -> Makes] /\ \A j \in Splits : makes[j].pc # "lineage"
  <2>1. makes \in [Makers -> Makes]
    BY DEF DataInv, DataTypes
  <2>2. files \subseteq Files /\ lineage \subseteq Lines /\ doomed \subseteq DatasetIds /\ cut \subseteq Merges
    BY DEF DataTyped, DataTypeOK
  <2>3. \A j \in Splits : makes[j].pc # "lineage"
    BY DEF DataTyped, At
  <2> QED
    BY <2>1, <2>2, <2>3
<1>s. \A j \in Splits : j \in Makers /\ j \notin Uploads \cup Merges
  BY DatasetsAssumption DEF Makers
<1> USE <1>0
<1>1. ASSUME UNCHANGED dataVars PROVE Typed /\ Split
  BY <1>1 DEF dataVars, At
<1>2. ASSUME NEW d \in Uploads, InsertUpload(d) \/ StoreUpload(d) \/ LoseUpload(d) PROVE Typed /\ Split
  <2>1. files' \subseteq Files
    <3>1. files' = files \/ \E places \in SUBSET {"cloud", "local"} : files' = files \cup ({d} \X places)
      BY <1>2 DEF InsertUpload, StoreUpload, LoseUpload
    <3> QED
      BY <3>1 DEF DatasetIds
  <2> QED
    BY <1>2, <1>s, <2>1 DEF InsertUpload, StoreUpload, LoseUpload, GoTo, At, Makes
<1>3. ASSUME NEW j \in Splits, StoreHalf(j) \/ CommitSplit(j) \/ \E d \in DatasetIds : StartSplit(j, d)
      PROVE Typed /\ Split
  <2>1. files' = files \/ \E h \in Halves : files' = files \cup {<<Half(j, h), SplitPlace>>}
    BY <1>3 DEF StoreHalf, CommitSplit, StartSplit
  <2>2. files' \subseteq Files
    BY <2>1, DatasetsAssumption DEF Half, DatasetIds
  <2>3. UNCHANGED <<lineage, doomed, cut>>
    BY <1>3 DEF StoreHalf, CommitSplit, StartSplit
  <2>4. Split
    BY <1>3, <1>s DEF StoreHalf, CommitSplit, StartSplit, GoTo, At, Makes
  <2> QED
    BY <2>2, <2>3, <2>4
<1>4. ASSUME NEW m \in Merges,
             \/ \E from \in SUBSET Active : StartMerge(m, from)
             \/ \E place \in {"cloud", "local"} : StoreMerged(m, place)
             \/ CommitMerged(m) \/ CommitLineage(m)
      PROVE Typed /\ Split
  <2>1. files' \subseteq Files
    <3>1. files' = files \/ \E place \in {"cloud", "local"} : files' = files \cup {<<m, place>>}
      BY <1>4 DEF StartMerge, StoreMerged, CommitMerged, CommitLineage
    <3> QED
      BY <3>1 DEF DatasetIds
  <2>2. lineage' \subseteq Lines
    <3>1. lineage' = lineage \/ lineage' = lineage \cup ({m} \X makes[m].from)
      BY <1>4 DEF StartMerge, StoreMerged, CommitMerged, CommitLineage, Recorded
    <3>2. makes[m].from \subseteq DatasetIds
      BY DEF Makers, Makes
    <3> QED
      BY <3>1, <3>2
  <2>3. UNCHANGED <<doomed, cut>> /\ \A j \in Splits : makes'[j] = makes[j]
    BY <1>4, <1>s DEF StartMerge, StoreMerged, CommitMerged, CommitLineage, GoTo
  <2> QED
    BY <2>1, <2>2, <2>3 DEF At
<1>5. ASSUME NEW j \in Splits \cup Merges, StopMaking(j) PROVE Typed /\ Split
  <2>1. cut' \subseteq Merges
    BY <1>5, <1>s DEF StopMaking, At
  <2> QED
    BY <1>5, <1>s, <2>1 DEF StopMaking, GoTo, At, Makes
<1>6. ASSUME NEW r \in Deletes,
             \/ \E d \in DatasetIds : StartDelete(r, d)
             \/ DeleteFile(r) \/ DeleteRows(r) \/ StopDelete(r)
      PROVE Typed /\ Split
  BY <1>6 DEF StartDelete, DeleteFile, DeleteRows, StopDelete, At
<1>7. Typed /\ Split
  BY <1>1, <1>2, <1>3, <1>4, <1>5, <1>6 DEF DataNext, dataVars, At
<1> QED
  BY <1>7 DEF DataTyped, DataTypeOK, DataInv, DataTypes, Makes, MakeSteps, OpenDeletes

-----------------------------------------------------------------------------
(* The scheduler.                                                          *)
\* A sequence with one place overwritten.
LEMMA PlaceWritten ==
  ASSUME NEW S, NEW r \in Seq(S), NEW n, NEW x, n \in DOMAIN r => x \in S
  PROVE [r EXCEPT ![n] = x] \in Seq(S) /\ Len([r EXCEPT ![n] = x]) = Len(r)
<1>1. Len(r) \in Nat /\ DOMAIN r = 1..Len(r) /\ \A i \in 1..Len(r) : r[i] \in S
  OBVIOUS
<1> DEFINE w == [r EXCEPT ![n] = x]
<1>2. w = [i \in 1..Len(r) |-> IF i = n THEN x ELSE r[i]]
  BY <1>1
<1>3. w \in [1..Len(r) -> S]
  BY <1>1, <1>2
<1> HIDE DEF w
<1>4. w \in Seq(S) /\ Len(w) = Len(r)
  BY <1>1, <1>3
<1> QED
  BY <1>4 DEF w

\* The runs of the memory and of the snapshot are of jobs.
RunRecord == [of : Jobs, status : JobStatuses]
RunsTyped ==
  /\ memory.runs \in Seq(RunRecord)
  /\ snapshot # NoSnapshot => snapshot.runs \in Seq(RunRecord)

SchedulerTyped ==
  /\ RunsTyped /\ running \in Jobs \cup {NoJob} /\ restarts \in 0..MaxRestarts
  /\ DOMAIN wanted \subseteq Jobs

LEMMA SchedulerTypedInit == SchedulerInit => SchedulerTyped
<1> SUFFICES ASSUME SchedulerInit PROVE SchedulerTyped
  OBVIOUS
<1>1. memory.runs = <<>> /\ snapshot = NoSnapshot /\ DOMAIN wanted = {}
  BY DEF SchedulerInit, NoJobs
<1> QED
  BY <1>1, SchedulerAssumption DEF SchedulerInit, SchedulerTyped, RunsTyped

LEMMA SchedulerTypes == SchedulerInv /\ SchedulerTyped => SchedulerTypeOK
<1> SUFFICES ASSUME SchedulerInv, SchedulerTyped PROVE SchedulerTypeOK
  OBVIOUS
<1>1. KnownJobs \subseteq Jobs /\ memory.jobs \in [KnownJobs -> [status : JobStatuses, enabled : BOOLEAN]]
  BY MemoryParts
<1>2. \A i \in DOMAIN memory.runs : memory.runs[i] \in RunRecord
  BY DEF SchedulerTyped, RunsTyped
<1>3. \A j \in KnownJobs : memory.jobs[j] \in [status : JobStatuses, enabled : BOOLEAN]
  BY <1>1
<1>4. behind \in BOOLEAN /\ blind \in BOOLEAN
  BY DEF SchedulerInv
<1> QED
  BY <1>1, <1>2, <1>3, <1>4, Zenon DEF SchedulerTyped, SchedulerTypeOK, RunRecord

LEMMA SchedulerTypeStep ==
  SchedulerInv /\ SchedulerTyped /\ [SchedulerNext]_schedulerVars => SchedulerTyped'
<1> SUFFICES ASSUME SchedulerInv, SchedulerTyped, [SchedulerNext]_schedulerVars
             PROVE SchedulerTyped'
  OBVIOUS
<1> DEFINE R == Seq(RunRecord)
           Rest == /\ running' \in Jobs \cup {NoJob} /\ restarts' \in 0..MaxRestarts
                   /\ DOMAIN wanted' \subseteq Jobs
<1>0. /\ memory.runs \in R /\ (snapshot # NoSnapshot => snapshot.runs \in R)
      /\ running \in Jobs \cup {NoJob} /\ restarts \in 0..MaxRestarts /\ DOMAIN wanted \subseteq Jobs
      /\ DOMAIN memory = {"jobs", "runs"} /\ KnownJobs \subseteq Jobs
  BY MemoryParts DEF SchedulerTyped, RunsTyped
<1>a. ASSUME Rest, RunsTyped' PROVE SchedulerTyped'
  BY <1>a DEF SchedulerTyped
<1>b. ASSUME NEW m, m.runs \in R, Change(m) PROVE RunsTyped' /\ restarts' = restarts
  BY <1>0, <1>b DEF Change, Persisted, RunsTyped
<1>1. CASE UNCHANGED schedulerVars
  <2>1. RunsTyped'
    BY <1>0, <1>1 DEF schedulerVars, RunsTyped
  <2> QED
    BY <1>0, <1>1, <1>a, <2>1 DEF schedulerVars
<1>2. ASSUME NEW j \in Jobs, CreateJob(j) PROVE SchedulerTyped'
  <2> DEFINE m == [memory EXCEPT !.jobs = With(@, j, NewJob)]
  <2>1. m.runs \in R
    BY <1>0
  <2> HIDE DEF m
  <2>2. Rest /\ RunsTyped'
    BY <1>0, <1>2, <1>b, <2>1 DEF CreateJob, With, m
  <2> QED
    BY <1>a, <2>2
<1>3. ASSUME NEW j \in Jobs, NEW enabled \in BOOLEAN, SetEnabled(j, enabled) PROVE SchedulerTyped'
  <2> DEFINE m == [memory EXCEPT !.jobs[j].enabled = enabled]
  <2>1. m.runs \in R
    BY <1>0
  <2> HIDE DEF m
  <2>2. Rest /\ RunsTyped'
    BY <1>0, <1>3, <1>b, <2>1 DEF SetEnabled, With, m
  <2> QED
    BY <1>a, <2>2
<1>4. ASSUME NEW j \in Jobs, DeleteJob(j) PROVE SchedulerTyped'
  <2> DEFINE m == [memory EXCEPT !.jobs = Minus(@, j)]
  <2>1. m.runs \in R
    BY <1>0
  <2> HIDE DEF m
  <2>2. Rest /\ RunsTyped'
    BY <1>0, <1>4, <1>b, <2>1 DEF DeleteJob, Minus, m
  <2> QED
    BY <1>a, <2>2
<1>5. ASSUME NEW j \in Jobs, BeginRun(j) PROVE SchedulerTyped'
  <2> DEFINE m == [memory EXCEPT !.jobs[j].status = "RUNNING",
                                 !.runs = Append(@, [of |-> j, status |-> "RUNNING"])]
  <2>1. m.runs \in R
    <3>1. [of |-> j, status |-> "RUNNING"] \in RunRecord
      BY DEF RunRecord, JobStatuses
    <3>2. m.runs = Append(memory.runs, [of |-> j, status |-> "RUNNING"])
      BY <1>0
    <3> QED
      BY <1>0, <3>1, <3>2
  <2> HIDE DEF m
  <2>2. Rest /\ RunsTyped'
    BY <1>0, <1>5, <1>b, <2>1 DEF BeginRun, m
  <2> QED
    BY <1>a, <2>2
<1>6. CASE EndRun
  <2>1. PICK s \in {"COMPLETED", "FAILED"} :
          Change([memory EXCEPT !.jobs[running].status = s, !.runs[Len(memory.runs)].status = s])
    BY <1>6 DEF EndRun
  <2> DEFINE n == Len(memory.runs)
             m == [memory EXCEPT !.jobs[running].status = s, !.runs[n].status = s]
  <2>2. m.runs \in R
    <3>1. m.runs = [memory.runs EXCEPT ![n].status = s]
      BY <1>0
    <3>2. ASSUME NEW i \in DOMAIN memory.runs PROVE [memory.runs[i] EXCEPT !.status = s] \in RunRecord
      <4> DEFINE r == memory.runs[i]
      <4>1. r \in RunRecord
        BY <1>0
      <4> HIDE DEF r
      <4>2. [r EXCEPT !.status = s] \in RunRecord
        BY <2>1, <4>1 DEF RunRecord, JobStatuses
      <4> QED
        BY <4>2 DEF r
    <3> HIDE DEF n, m
    <3>3. m.runs = [memory.runs EXCEPT ![n] = [memory.runs[n] EXCEPT !.status = s]]
      BY <3>1
    <3> QED
      BY <1>0, <3>2, <3>3, PlaceWritten
  <2> HIDE DEF m
  <2>3. Rest /\ RunsTyped'
    BY <1>0, <1>6, <1>b, <2>1, <2>2 DEF EndRun, m
  <2> QED
    BY <1>a, <2>3
<1>7. CASE Restart
  <2>1. memory'.runs \in R /\ snapshot' = snapshot
    BY <1>0, <1>7 DEF Restart, Loaded, NoJobs
  <2>2. Rest
    BY <1>0, <1>7, SchedulerAssumption DEF Restart
  <2> QED
    BY <1>0, <1>a, <2>1, <2>2 DEF RunsTyped
<1> QED
  BY <1>1, <1>2, <1>3, <1>4, <1>5, <1>6, <1>7 DEF SchedulerNext

-----------------------------------------------------------------------------
(* Alerts and baselines.                                                   *)
\* The rows that raisers and users go on with are rows of the table, which
\* keeps its bound.
RaiserOK(x, n) == x.pc \in {"idle", "insert", "close"} /\ x.row \in 0..n
EditorOK(x, n) == x.pc \in {"idle", "acknowledge", "resolve"} /\ x.row \in 0..n

AlertsTyped ==
  /\ Len(alerts) <= MaxAlerts /\ \A a \in Rows : alerts[a].known \subseteq 1..MaxAlerts
  /\ \A r \in Raisers : RaiserOK(raise[r], Len(alerts))
  /\ \A u \in Users : EditorOK(edit[u], Len(alerts))

LEMMA AlertsTypes == AlertsInv /\ AlertsTyped => AlertsTypeOK
<1> SUFFICES ASSUME AlertsInv, AlertsTyped PROVE AlertsTypeOK
  OBVIOUS
<1>1. AlertTable /\ recent \subseteq Rows
  BY DEF AlertsInv, AlertTable
<1>2. ASSUME NEW a \in Rows PROVE alerts[a] \in AlertRecord
  BY <1>1, RowsOfTable DEF AlertRows, AlertRecord, AlertsTyped
<1> QED
  BY <1>1, <1>2 DEF AlertsTyped, AlertsTypeOK, RaiserOK, EditorOK

\* The table is as long as it was, and its rows know what they knew.
TableKept ==
  Len(alerts') = Len(alerts) /\ Rows' = Rows /\ \A a \in Rows : alerts'[a].known = alerts[a].known

LEMMA RowRewritten ==
  ASSUME AlertsInv, NEW i, NEW x, i \in Rows => x.known = alerts[i].known,
         alerts' = [alerts EXCEPT ![i] = x]
  PROVE TableKept
<1>1. AlertTable
  BY DEF AlertsInv
<1>2. Rows = 1..Len(alerts) /\ Len(alerts) \in Nat
  BY <1>1, RowsOfTable
<1>3. Rows' = Rows /\ \A a \in Rows : alerts'[a] = IF a = i THEN x ELSE alerts[a]
  BY DEF Rows
<1>4. Len(alerts') = Len(alerts)
  <2>1. alerts' = [a \in 1..Len(alerts) |-> alerts'[a]]
    BY <1>2 DEF Rows
  <2> QED
    BY <1>2, <2>1
<1> QED
  BY <1>2, <1>3, <1>4 DEF TableKept

LEMMA AlertsTypeStep == AlertsInv /\ AlertsTyped /\ [AlertsNext]_alertVars => AlertsTyped'
<1> SUFFICES ASSUME AlertsInv, AlertsTyped, [AlertsNext]_alertVars PROVE AlertsTyped'
  OBVIOUS
<1> DEFINE n == Len(alerts)
<1>0. /\ Rows = 1..n /\ n \in Nat /\ n <= MaxAlerts /\ MaxAlerts \in Nat /\ AlertTable
      /\ \A a \in Rows : alerts[a].known \subseteq 1..MaxAlerts /\ alerts[a] \in AlertRows
      /\ \A r \in Raisers : RaiserOK(raise[r], n)
      /\ \A u \in Users : EditorOK(edit[u], n)
      /\ DOMAIN raise = Raisers /\ DOMAIN edit = Users /\ recent \subseteq Rows
  BY RowsOfTable, AlertsAssumption DEF AlertsInv, AlertTable, AlertsTyped
<1>a. ASSUME TableKept, \A r \in Raisers : RaiserOK(raise'[r], n), \A u \in Users : EditorOK(edit'[u], n)
      PROVE AlertsTyped'
  BY <1>0, <1>a DEF TableKept, AlertsTyped
<1>b. alerts' = alerts => TableKept
  BY DEF TableKept, Rows
<1>c. RaiserOK(IdleRaiser, n) /\ EditorOK(IdleUser, n)
  BY <1>0 DEF RaiserOK, EditorOK, IdleRaiser, IdleUser
<1> HIDE DEF n
<1>1. CASE UNCHANGED alertVars
  BY <1>0, <1>1, <1>a, <1>b DEF alertVars
<1>2. ASSUME NEW r \in Raisers, NEW k \in Keys, FindDuplicate(r, k) PROVE AlertsTyped'
  <2>1. TableKept /\ edit' = edit
    BY <1>2, <1>b DEF FindDuplicate
  <2>2. \A q \in Raisers : RaiserOK(raise'[q], n)
    <3>1. CASE raise' = [raise EXCEPT ![r] = [pc |-> "insert", row |-> 0, key |-> k, known |-> Rows]]
      <4>1. RaiserOK([pc |-> "insert", row |-> 0, key |-> k, known |-> Rows], n)
        BY <1>0 DEF RaiserOK
      <4> QED
        BY <1>0, <3>1, <4>1
    <3>2. ASSUME NEW a \in Duplicates(k), Continue(r, k, a) PROVE \A q \in Raisers : RaiserOK(raise'[q], n)
      <4>1. a \in 1..n
        BY <1>0 DEF Duplicates
      <4>2. RaiserOK([pc |-> "close", row |-> a], n)
        BY <1>0, <4>1 DEF RaiserOK
      <4> QED
        BY <1>0, <1>c, <3>2, <4>2 DEF Continue
    <3> QED
      BY <1>2, <3>1, <3>2 DEF FindDuplicate
  <2> QED
    BY <1>0, <1>a, <2>1, <2>2
<1>3. ASSUME NEW r \in Raisers, InsertAlert(r) PROVE AlertsTyped'
  <2> DEFINE x == [key |-> raise[r].key, status |-> "ACTIVE", dated |-> FALSE, known |-> raise[r].known]
  <2>1. /\ alerts' = Append(alerts, x) /\ n + 1 <= MaxAlerts /\ edit' = edit
        /\ raise[r].pc = "insert" /\ Continue(r, raise[r].key, n + 1)
    BY <1>3 DEF InsertAlert, n
  <2>2. /\ Len(alerts') = n + 1 /\ Rows' = 1..(n + 1)
        /\ alerts'[n + 1] = x /\ \A a \in Rows : alerts'[a] = alerts[a]
    BY <1>0, <2>1 DEF Rows, n, AlertTable
  <2>3. x.known \subseteq 1..MaxAlerts
    BY <1>0, <2>1 DEF AlertsInv, SearchedInVain
  <2>4. \A a \in Rows' : alerts'[a].known \subseteq 1..MaxAlerts
    BY <1>0, <2>2, <2>3
  <2>5. \A y : RaiserOK(y, n) => RaiserOK(y, n + 1)
    BY <1>0 DEF RaiserOK
  <2>6. \A y : EditorOK(y, n) => EditorOK(y, n + 1)
    BY <1>0 DEF EditorOK
  <2>7. \A q \in Raisers : RaiserOK(raise'[q], n + 1)
    <3>1. RaiserOK([pc |-> "close", row |-> n + 1], n + 1)
      BY <1>0 DEF RaiserOK
    <3> QED
      BY <1>0, <1>c, <2>1, <2>5, <3>1 DEF Continue
  <2> QED
    BY <1>0, <2>1, <2>2, <2>4, <2>6, <2>7 DEF AlertsTyped
<1>4. ASSUME NEW r \in Raisers, CloseTraining(r) PROVE AlertsTyped'
  <2> DEFINE i == raise[r].row
  <2>1. alerts' = [alerts EXCEPT ![i] = Resolved(alerts[i])] /\ raise' = [raise EXCEPT ![r] = IdleRaiser]
        /\ edit' = edit
    BY <1>4 DEF CloseTraining
  <2>2. i \in Rows => Resolved(alerts[i]).known = alerts[i].known
    BY <1>0 DEF Resolved, AlertRows
  <2>3. TableKept
    <3> HIDE DEF i
    <3> QED
      BY <2>1, <2>2, RowRewritten
  <2> QED
    BY <1>0, <1>a, <1>c, <2>1, <2>3
<1>5. ASSUME NEW r \in Raisers, RaiserDies(r) PROVE AlertsTyped'
  BY <1>0, <1>5, <1>a, <1>b, <1>c DEF RaiserDies
<1>6. ASSUME NEW u \in Users, NEW op \in {"acknowledge", "resolve"}, NEW a \in Rows, GetAlert(u, op, a)
      PROVE AlertsTyped'
  <2>1. EditorOK([pc |-> op, row |-> a, read |-> alerts[a]], n)
    BY <1>0 DEF EditorOK
  <2> QED
    BY <1>0, <1>6, <1>a, <1>b, <2>1 DEF GetAlert
<1>7. ASSUME NEW u \in Users, CommitEdit(u) PROVE AlertsTyped'
  <2> DEFINE i == edit[u].row
             x == IF edit[u].pc = "acknowledge" THEN Acknowledged(alerts[i], edit[u].read)
                  ELSE ResolvedByUser(alerts[i], edit[u].read)
  <2>1. alerts' = [alerts EXCEPT ![i] = x] /\ edit' = [edit EXCEPT ![u] = IdleUser] /\ raise' = raise
    BY <1>7 DEF CommitEdit
  <2>2. ASSUME i \in Rows PROVE x.known = alerts[i].known
    <3> DEFINE Same(y) == y \in AlertRows /\ y.known = alerts[i].known
    <3>1. Same(alerts[i]) /\ \A y, s : Same(y) /\ s \in {"RESOLVED", "ACKNOWLEDGED"} => Same([y EXCEPT !.status = s])
      BY <1>0, <2>2 DEF AlertRows
    <3>2. ASSUME NEW y, Same(y), NEW z PROVE [y EXCEPT !.dated = z].known = alerts[i].known
      BY <3>2 DEF AlertRows
    <3>3. \A s \in {"RESOLVED", "ACKNOWLEDGED"} : Same(WriteStatus(alerts[i], edit[u].read, s))
      BY <3>1 DEF WriteStatus
    <3> QED
      BY <3>2, <3>3 DEF Acknowledged, ResolvedByUser
  <2>3. TableKept
    <3> HIDE DEF i, x
    <3> QED
      BY <2>1, <2>2, RowRewritten
  <2> QED
    BY <1>0, <1>a, <1>c, <2>1, <2>3
<1>8. CASE AutoResolve
  <2>1. alerts' = [a \in Rows |-> IF Training(a) /\ alerts[a].status # "RESOLVED"
                                  THEN Resolved(alerts[a]) ELSE alerts[a]]
        /\ UNCHANGED <<raise, edit>>
    BY <1>8 DEF AutoResolve
  <2>2. \A a \in Rows : Resolved(alerts[a]).known = alerts[a].known
    BY <1>0 DEF Resolved, AlertRows
  <2>3. TableKept
    BY <1>0, <2>1, <2>2 DEF TableKept, Rows, n
  <2> QED
    BY <1>0, <1>a, <2>1, <2>3
<1>9. CASE WindowMoves
  BY <1>0, <1>9, <1>a, <1>b DEF WindowMoves
<1> QED
  BY <1>1, <1>2, <1>3, <1>4, <1>5, <1>6, <1>7, <1>8, <1>9 DEF AlertsNext

LEMMA AlertsTypedInit == AlertsInit => AlertsTyped
BY AlertsAssumption DEF AlertsInit, AlertsTyped, Rows, RaiserOK, EditorOK, IdleRaiser, IdleUser

-----------------------------------------------------------------------------
\* What the baselines and the check of them add.
BaselineTyped ==
  /\ trained \in Trained \cup {Untrained} /\ checking.pc \in {"idle", "compare", "raised", "skipped", "reported"}
  /\ logged \in [Cells -> Nat] /\ LoggedTotal <= MaxLogged

LEMMA BaselinesTypes == BaselinesInv /\ BaselineTyped => BaselinesTypeOK
<1> SUFFICES ASSUME BaselinesInv, BaselineTyped PROVE BaselinesTypeOK
  OBVIOUS
<1>1. ASSUME NEW c \in Cells PROVE logged[c] \in 0..MaxLogged
  BY BaselineAssumption DEF BaselineTyped, LoggedTotal, Cells, NoLabel
<1> QED
  BY <1>1 DEF BaselinesInv, BaselineTyped, BaselinesTypeOK, BaselineRecords, SetterStates

LEMMA BaselineTypeStep == BaselineTyped /\ [BaselinesNext]_baselineVars => BaselineTyped'
<1> SUFFICES ASSUME BaselineTyped, [BaselinesNext]_baselineVars PROVE BaselineTyped'
  OBVIOUS
<1>1. logged' \in [Cells -> Nat]
  BY LoggedCountsStep DEF BaselineTyped, LoggedCounts
<1>2. LoggedTotal' <= MaxLogged
  <2>0. logged \in [Cells -> Nat] /\ LoggedTotal <= MaxLogged /\ MaxLogged \in Nat
    BY BaselineAssumption DEF BaselineTyped
  <2>1. CASE logged' = logged
    BY <2>0, <2>1 DEF LoggedTotal
  <2>2. ASSUME NEW p \in {0, 1}, LogPrediction(p) PROVE LoggedTotal' <= MaxLogged
    BY <2>0, <2>2 DEF LogPrediction, LoggedTotal, Cells, NoLabel
  <2>3. ASSUME NEW p \in {0, 1}, NEW old \in {0, 1, NoLabel}, NEW new \in {0, 1}, GiveFeedback(p, old, new)
        PROVE LoggedTotal' <= MaxLogged
    <3> DEFINE a == <<p, old>>
               b == <<p, new>>
    <3>1. logged' = [logged EXCEPT ![a] = @ - 1, ![b] = @ + 1] /\ a # b /\ a \in Cells /\ b \in Cells
      BY <2>3 DEF GiveFeedback, Cells, NoLabel
    <3>2. /\ logged'[a] = logged[a] - 1 /\ logged'[b] = logged[b] + 1
          /\ \A c \in Cells \ {a, b} : logged'[c] = logged[c]
      BY <2>0, <3>1
    <3>3. \A x \in {0, 1}, y \in {0, 1, NoLabel} : <<x, y>> \in Cells /\ logged[<<x, y>>] \in Nat
      BY <2>0 DEF Cells
    <3>4. LoggedTotal' = LoggedTotal
      <4>1. \A x \in {0, 1}, y \in {0, 1, NoLabel} :
              logged'[<<x, y>>] = logged[<<x, y>>] - (IF x = p /\ y = old THEN 1 ELSE 0)
                                                   + (IF x = p /\ y = new THEN 1 ELSE 0)
        <5> SUFFICES ASSUME NEW x \in {0, 1}, NEW y \in {0, 1, NoLabel}
                     PROVE logged'[<<x, y>>] = logged[<<x, y>>] - (IF x = p /\ y = old THEN 1 ELSE 0)
                                                                + (IF x = p /\ y = new THEN 1 ELSE 0)
          OBVIOUS
        <5>1. old # new
          BY <2>3 DEF GiveFeedback
        <5>2. CASE <<x, y>> = a
          BY <3>2, <3>3, <5>1, <5>2
        <5>3. CASE <<x, y>> = b
          BY <3>2, <3>3, <5>1, <5>3
        <5>4. CASE <<x, y>> \notin {a, b}
          BY <3>2, <3>3, <5>4
        <5> QED
          BY <5>2, <5>3, <5>4
      <4> DEFINE was(x, y) == logged[<<x, y>>]
                 is(x, y) == logged'[<<x, y>>]
      <4>2. \A x \in {0, 1}, y \in {0, 1, NoLabel} :
              /\ was(x, y) \in Nat
              /\ is(x, y) = was(x, y) - (IF x = p /\ y = old THEN 1 ELSE 0) + (IF x = p /\ y = new THEN 1 ELSE 0)
        BY <3>3, <4>1
      <4>3. /\ LoggedTotal = was(0, 0) + was(0, 1) + was(1, 0) + was(1, 1) + was(0, NoLabel) + was(1, NoLabel)
            /\ LoggedTotal' = is(0, 0) + is(0, 1) + is(1, 0) + is(1, 1) + is(0, NoLabel) + is(1, NoLabel)
        BY DEF LoggedTotal
      <4> HIDE DEF was, is
      <4> QED
        BY <4>2, <4>3 DEF NoLabel
    <3> QED
      BY <2>0, <3>4
  <2>4. ASSUME NEW c \in Cells, LeaveWindow(c) PROVE LoggedTotal' <= MaxLogged
    BY <2>0, <2>4 DEF LeaveWindow, LoggedTotal, Cells, NoLabel
  <2> QED
    BY <2>1, <2>2, <2>3, <2>4
    DEF BaselinesNext, baselineVars, BeginSetting, DeleteBaselines, CommitBaselines, SetterFails,
        TrainMeasured, ReadMetrics, CompareBaselines
<1>3. trained' \in Trained \cup {Untrained}
  BY DEF BaselineTyped, BaselinesNext, baselineVars, BeginSetting, DeleteBaselines, CommitBaselines, SetterFails,
         LogPrediction, GiveFeedback, LeaveWindow, TrainMeasured, ReadMetrics, CompareBaselines
<1>4. checking'.pc \in {"idle", "compare", "raised", "skipped", "reported"}
  <2>1. CASE CompareBaselines
    <3> DEFINE raised == [CheckIdle EXCEPT !.pc = "raised"]
               skipped == [CheckIdle EXCEPT !.pc = "skipped"]
    <3>1. raised.pc = "raised" /\ skipped.pc = "skipped"
      BY DEF CheckIdle
    <3>2. checking' \in {raised, skipped} \/ checking'.pc = "reported"
      BY <2>1 DEF CompareBaselines
    <3> HIDE DEF raised, skipped
    <3> QED
      BY <3>1, <3>2
  <2>2. CASE checking' = checking \/ ReadMetrics
    BY <2>2 DEF BaselineTyped, ReadMetrics
  <2> QED
    BY <2>1, <2>2
    DEF BaselinesNext, baselineVars, BeginSetting, DeleteBaselines, CommitBaselines, SetterFails,
        LogPrediction, GiveFeedback, LeaveWindow, TrainMeasured
<1> QED
  BY <1>1, <1>2, <1>3, <1>4 DEF BaselineTyped

LEMMA BaselineTypedInit == BaselinesInit => BaselineTyped
<1> SUFFICES ASSUME BaselinesInit PROVE BaselineTyped
  OBVIOUS
<1>1. logged \in [Cells -> Nat] /\ LoggedTotal = 0 /\ 0 <= MaxLogged
  BY BaselineAssumption DEF BaselinesInit, LoggedTotal, Cells, NoLabel
<1> QED
  BY <1>1 DEF BaselinesInit, BaselineTyped, CheckIdle

-----------------------------------------------------------------------------
(* Plans.                                                                  *)
\* What the row and every copy of it count is within the writes there were.
Counts(p, n) == p.version \in 0..n /\ Len(p.audit) <= n

PlanTyped ==
  /\ writes \in 0..MaxWrites /\ Counts(plan, writes)
  /\ \A u \in Editors : draft[u] # IdleEditor => Counts(draft[u].row, writes)

LEMMA PlanTypedInit == PlanInit => PlanTyped
BY PreprocessingAssumption DEF PlanInit, PlanTyped, Counts

LEMMA PlanTypes == PlanInv /\ PlanTyped => PlanTypeOK
<1> SUFFICES ASSUME PlanInv, PlanTyped PROVE PlanTypeOK
  OBVIOUS
<1>1. PlanRow(plan) /\ crossed \in BOOLEAN
  BY DEF PlanInv
<1>2. plan.generated \in BOOLEAN
      /\ (plan.decisions = Undecided \/ plan.decisions \in [Features -> DecisionStatuses])
  BY <1>1 DEF PlanRow
<1>3. writes \in 0..MaxWrites /\ plan.version \in 0..MaxWrites /\ Len(plan.audit) <= MaxWrites
  <2>1. Len(plan.audit) \in Nat
    BY <1>1 DEF PlanRow
  <2> QED
    BY <2>1, PreprocessingAssumption DEF PlanTyped, Counts
<1>4. \A u \in Editors : draft[u].pc \in {"idle", "generate", "write"}
  BY DEF PlanInv, DraftOK, IdleEditor
<1> QED
  BY <1>1, <1>2, <1>3, <1>4, Zenon DEF PlanTypeOK

LEMMA PlanTypeStep == PlanInv /\ PlanTyped /\ [PlanNext]_planVars => PlanTyped'
<1> SUFFICES ASSUME PlanInv, PlanTyped, [PlanNext]_planVars PROVE PlanTyped'
  OBVIOUS
<1>0. /\ writes \in 0..MaxWrites /\ Counts(plan, writes) /\ PlanRow(plan) /\ DOMAIN draft = Editors
      /\ \A u \in Editors : draft[u] # IdleEditor => Counts(draft[u].row, writes)
      /\ MaxWrites \in Nat /\ \A u \in Editors : DraftOK(draft[u])
  BY PreprocessingAssumption DEF PlanTyped, PlanInv
<1>1. CASE UNCHANGED planVars
  <2>1. plan' = plan /\ draft' = draft /\ writes' = writes
    BY <1>1 DEF planVars
  <2> QED
    BY <1>0, <2>1 DEF PlanTyped
<1>2. ASSUME NEW u \in Editors, NEW op, Open(u, op) PROVE PlanTyped'
  <2>1. plan' = plan /\ writes' = writes
    BY <1>2 DEF Open
  <2>2. \A e \in Editors : draft'[e] # IdleEditor => Counts(draft'[e].row, writes)
    BY <1>0, <1>2 DEF Open
  <2> QED
    BY <1>0, <2>1, <2>2 DEF PlanTyped
<1>3. ASSUME NEW u \in Editors, Generate(u) PROVE PlanTyped'
  <2>1. writes' = writes /\ plan' = WithPlan(plan, draft[u].row)
    BY <1>3 DEF Generate
  <2>2. Counts(plan', writes)
    <3> DEFINE p == plan
    <3>1. p = [generated |-> p.generated, decisions |-> p.decisions, version |-> p.version,
               audit |-> p.audit, snapshot |-> p.snapshot]
      BY <1>0 DEF PlanRow
    <3>2. plan'.version = plan.version /\ plan'.audit = plan.audit
      BY <2>1, <3>1 DEF WithPlan
    <3> QED
      BY <1>0, <3>2 DEF Counts
  <2>3. \A e \in Editors : draft'[e] # IdleEditor => Counts(draft'[e].row, writes)
    <3> DEFINE d == draft[u]
               w == [d EXCEPT !.pc = "write", !.row = plan']
    <3>1. draft' = [draft EXCEPT ![u] = IF d.op = "get" THEN IdleEditor ELSE w]
      BY <1>3 DEF Generate
    <3>2. w.row = plan'
      <4>1. d = [pc |-> d.pc, op |-> d.op, row |-> d.row]
        BY <1>0, <1>3 DEF Generate, DraftOK, IdleEditor
      <4> HIDE DEF d
      <4> QED
        BY <4>1
    <3> HIDE DEF w
    <3> QED
      BY <1>0, <2>2, <3>1, <3>2
  <2> QED
    BY <1>0, <2>1, <2>2, <2>3 DEF PlanTyped
<1>4. ASSUME NEW u \in Editors, CommitPlan(u) \/ \E f \in Features, s \in DecisionStatuses : Decide(u, f, s)
      PROVE PlanTyped'
  <2> DEFINE read == draft[u].row
             p == plan
  <2>1. writes' = writes + 1 /\ writes' \in 0..MaxWrites /\ draft' = [draft EXCEPT ![u] = IdleEditor]
    BY <1>0, <1>4 DEF CommitPlan, Decide
  <2>2. Counts(read, writes) /\ PlanRow(read)
    BY <1>0, <1>4 DEF CommitPlan, Decide, IdleEditor, DraftOK
  <2>3. /\ plan'.version \in {p.version, read.version + 1}
        /\ \E e : plan'.audit = Append(read.audit, e)
    <3>1. p = [generated |-> p.generated, decisions |-> p.decisions, version |-> p.version,
               audit |-> p.audit, snapshot |-> p.snapshot]
      BY <1>0 DEF PlanRow
    <3>2. CASE CommitPlan(u)
      BY <3>1, <3>2 DEF CommitPlan
    <3>3. ASSUME NEW f \in Features, NEW s \in DecisionStatuses, Decide(u, f, s)
          PROVE plan'.version = p.version /\ plan'.audit = Append(read.audit, DecisionEntry(f, s))
      BY <3>1, <3>3 DEF Decide, Updated
    <3> QED
      BY <1>4, <3>2, <3>3
  <2>4. Counts(plan', writes + 1)
    <3>1. read.audit \in Seq(AuditEntries)
      BY <2>2 DEF PlanRow
    <3>2. Len(read.audit) \in Nat /\ Len(plan'.audit) = Len(read.audit) + 1
      BY <2>3, <3>1
    <3> HIDE DEF read
    <3> QED
      BY <1>0, <2>2, <2>3, <3>2 DEF Counts
  <2>5. \A q : PlanRow(q) /\ Counts(q, writes) => Counts(q, writes + 1)
    BY <1>0 DEF PlanRow, Counts
  <2>6. \A e \in Editors : draft'[e] # IdleEditor => draft'[e] = draft[e]
    BY <1>0, <2>1
  <2>7. \A e \in Editors : draft[e] # IdleEditor => PlanRow(draft[e].row)
    BY <1>0 DEF DraftOK
  <2> QED
    BY <1>0, <2>1, <2>4, <2>5, <2>6, <2>7 DEF PlanTyped
<1>5. ASSUME NEW u \in Editors, Drop(u) PROVE PlanTyped'
  <2>1. plan' = plan /\ writes' = writes /\ draft' = [draft EXCEPT ![u] = IdleEditor]
    BY <1>5 DEF Drop
  <2> QED
    BY <1>0, <2>1 DEF PlanTyped
<1> QED
  BY <1>1, <1>2, <1>3, <1>4, <1>5 DEF PlanNext

-----------------------------------------------------------------------------
(* Monitoring.                                                             *)
\* n are done and those of S not yet, of m that there are.
DoneOf(n, S, m) == n \in Nat /\ m \in Nat /\ IsFiniteSet(S) /\ n + Cardinality(S) <= m

LEMMA DoneOfBounds == \A n, S, m : DoneOf(n, S, m) => n \in 0..m
<1> SUFFICES ASSUME NEW n, NEW S, NEW m, DoneOf(n, S, m) PROVE n \in 0..m
  OBVIOUS
<1>1. Cardinality(S) \in Nat
  BY FS_CardinalityType DEF DoneOf
<1> QED
  BY <1>1 DEF DoneOf

\* One more is begun.
LEMMA DoneOfBegun == \A n, S, m, c : DoneOf(n, S, m) => DoneOf(n, S \cup {c}, m + 1)
<1> SUFFICES ASSUME NEW n, NEW S, NEW m, NEW c, DoneOf(n, S, m) PROVE DoneOf(n, S \cup {c}, m + 1)
  OBVIOUS
<1>1. Cardinality(S) \in Nat /\ IsFiniteSet(S \cup {c}) /\ Cardinality(S \cup {c}) \in Nat
      /\ Cardinality(S \cup {c}) <= Cardinality(S) + 1
  <2>1. IsFiniteSet(S) /\ Cardinality(S) \in Nat
    BY FS_CardinalityType DEF DoneOf
  <2>2. IsFiniteSet(S \cup {c}) /\ Cardinality(S \cup {c}) = IF c \in S THEN Cardinality(S) ELSE Cardinality(S) + 1
    BY <2>1, FS_AddElement
  <2> QED
    BY <2>1, <2>2
<1> QED
  BY <1>1 DEF DoneOf

\* One is done with, and counted or not.
LEMMA DoneOfDone ==
  \A n, S, m : \A c \in S : DoneOf(n, S, m) => DoneOf(n, S \ {c}, m) /\ DoneOf(n + 1, S \ {c}, m)
<1> SUFFICES ASSUME NEW n, NEW S, NEW m, NEW c \in S, DoneOf(n, S, m)
             PROVE DoneOf(n, S \ {c}, m) /\ DoneOf(n + 1, S \ {c}, m)
  OBVIOUS
<1>1. Cardinality(S) \in Nat /\ IsFiniteSet(S \ {c}) /\ Cardinality(S \ {c}) = Cardinality(S) - 1
  BY FS_CardinalityType, FS_RemoveElement DEF DoneOf
<1> QED
  BY <1>1 DEF DoneOf

\* Of the checks begun, some have yet to take their time, some to be stored.
Unstamped == {c \in Checkers : watch[c].pc = "stamp"}
Unstored == {c \in Checkers : watch[c].pc \in {"stamp", "push"}}

MonitorTyped ==
  /\ day \in 1..MaxDays /\ checksBegun \in 0..MaxChecks /\ Len(notices) <= MaxNotices
  /\ DoneOf(now, Unstamped, checksBegun) /\ DoneOf(Len(snapshots), Unstored, checksBegun)

LEMMA MonitorTypedInit == MonitoringInit => MonitorTyped
<1> SUFFICES ASSUME MonitoringInit PROVE MonitorTyped
  OBVIOUS
<1>1. Unstamped = {} /\ Unstored = {} /\ now = 0 /\ checksBegun = 0 /\ Len(snapshots) = 0
  BY DEF MonitoringInit, Unstamped, Unstored, Resting
<1>2. DoneOf(0, {}, 0)
  BY FS_EmptySet DEF DoneOf
<1> QED
  BY <1>1, <1>2, MonitoringAssumption DEF MonitoringInit, MonitorTyped

LEMMA MonitorTypes == MonitorInv /\ MonitorTyped => MonitoringTypeOK
<1> SUFFICES ASSUME MonitorInv, MonitorTyped PROVE MonitoringTypeOK
  OBVIOUS
<1>1. splits.set => splits.psi \in [Watched -> Levels] /\ splits.lacking \subseteq Protected
  BY DEF MonitorInv, SplitsOK, Unmonitored
<1>2. \A c \in Checkers : watch[c].pc \in {"idle", "stamp", "push", "raise"}
  BY DEF MonitorInv, WatchOK
<1>3. now \in 0..MaxChecks /\ Len(snapshots) <= MaxChecks
  <2>1. now \in 0..checksBegun /\ Len(snapshots) \in 0..checksBegun
    BY DoneOfBounds DEF MonitorTyped
  <2> QED
    BY <2>1, MonitoringAssumption DEF MonitorTyped
<1>4. \A i \in DOMAIN notices : notices[i].title \in Watched \cup Protected /\ notices[i].severity \in Levels
  <2>1. ASSUME NEW i \in DOMAIN notices PROVE notices[i] \in RaisedNotices(splits)
    BY DEF MonitorInv
  <2> QED
    BY <2>1 DEF RaisedNotices
<1>5. missed \subseteq Watched \cup Protected
  BY DEF MonitorInv
<1> QED
  BY <1>1, <1>2, <1>3, <1>4, <1>5, Zenon DEF MonitorTyped, MonitoringTypeOK

LEMMA DoneOfLess == \A n, S, m, T : DoneOf(n, S, m) /\ T \subseteq S => DoneOf(n, T, m)
<1> SUFFICES ASSUME NEW n, NEW S, NEW m, NEW T, DoneOf(n, S, m), T \subseteq S PROVE DoneOf(n, T, m)
  OBVIOUS
<1>1. IsFiniteSet(T) /\ Cardinality(T) <= Cardinality(S) /\ Cardinality(T) \in Nat /\ Cardinality(S) \in Nat
  BY FS_Subset, FS_CardinalityType DEF DoneOf
<1> QED
  BY <1>1 DEF DoneOf

LEMMA MonitorTypeStep == MonitorInv /\ MonitorTyped /\ [MonitoringNext]_monitoringVars => MonitorTyped'
<1> SUFFICES ASSUME MonitorInv, MonitorTyped, [MonitoringNext]_monitoringVars PROVE MonitorTyped'
  OBVIOUS
<1>0. /\ day \in 1..MaxDays /\ checksBegun \in 0..MaxChecks /\ Len(notices) <= MaxNotices
      /\ DoneOf(now, Unstamped, checksBegun) /\ DoneOf(Len(snapshots), Unstored, checksBegun)
      /\ DOMAIN watch = Checkers /\ MaxChecks \in Nat /\ MaxDays \in Nat \ {0}
      /\ snapshots \in Seq(TrueSnapshots(splits)) /\ notices \in Seq(RaisedNotices(splits))
  BY MonitoringAssumption DEF MonitorTyped, MonitorInv
<1>w. \A c \in Checkers : WatchOK(splits, watch[c])
  BY DEF MonitorInv
<1>a. ASSUME watch' = watch PROVE Unstamped' = Unstamped /\ Unstored' = Unstored
  BY <1>a DEF Unstamped, Unstored
<1>b. ASSUME NEW c \in Checkers, NEW w, watch' = [watch EXCEPT ![c] = w]
      PROVE /\ Unstamped' = IF w.pc = "stamp" THEN Unstamped \cup {c} ELSE Unstamped \ {c}
            /\ Unstored' = IF w.pc \in {"stamp", "push"} THEN Unstored \cup {c} ELSE Unstored \ {c}
            /\ w.pc # "stamp" /\ c \notin Unstamped => Unstamped' = Unstamped
            /\ w.pc \notin {"stamp", "push"} /\ c \notin Unstored => Unstored' = Unstored
  BY <1>0, <1>b DEF Unstamped, Unstored
<1>1. CASE UNCHANGED monitoringVars
  BY <1>0, <1>1, <1>a DEF monitoringVars, MonitorTyped
<1>2. CASE TrainMonitored \/ NextDay
  <2>1. UNCHANGED <<watch, snapshots, notices, now, checksBegun>> /\ day' \in 1..MaxDays
    BY <1>0, <1>2 DEF TrainMonitored, NextDay
  <2> QED
    BY <1>0, <1>a, <2>1 DEF MonitorTyped
<1>3. CASE AcknowledgeNotice
  <2>1. UNCHANGED <<watch, snapshots, now, checksBegun, day>>
    BY <1>3 DEF AcknowledgeNotice
  <2>2. Len(notices') = Len(notices)
    BY <1>0, <1>3 DEF AcknowledgeNotice
  <2> QED
    BY <1>0, <1>a, <2>1, <2>2 DEF MonitorTyped
<1>4. ASSUME NEW c \in Checkers, BeginDriftCheck(c) PROVE MonitorTyped'
  <2>1. /\ UNCHANGED <<snapshots, notices, now, day>> /\ checksBegun' = checksBegun + 1
        /\ checksBegun' \in 0..MaxChecks
    BY <1>0, <1>4 DEF BeginDriftCheck
  <2>2. PICK w : w.pc = "stamp" /\ watch' = [watch EXCEPT ![c] = w]
    BY <1>4 DEF BeginDriftCheck
  <2>3. Unstamped' = Unstamped \cup {c} /\ Unstored' = Unstored \cup {c}
    BY <1>b, <2>2
  <2> QED
    BY <1>0, <2>1, <2>3, DoneOfBegun DEF MonitorTyped
<1>5. ASSUME NEW c \in Checkers, BeginBiasCheck(c) PROVE MonitorTyped'
  <2>1. /\ UNCHANGED <<snapshots, notices, now, day>> /\ checksBegun' = checksBegun + 1
        /\ checksBegun' \in 0..MaxChecks
    BY <1>0, <1>5 DEF BeginBiasCheck
  <2>2. PICK w : w.pc = "raise" /\ watch' = [watch EXCEPT ![c] = w]
    BY <1>5 DEF BeginBiasCheck
  <2>3. Unstamped' = Unstamped /\ Unstored' = Unstored
    <3>1. c \notin Unstamped /\ c \notin Unstored
      BY <1>5 DEF BeginBiasCheck, Unstamped, Unstored
    <3> QED
      BY <1>b, <2>2, <3>1
  <2>4. \A n, S, m : DoneOf(n, S, m) => DoneOf(n, S, m + 1)
    BY FS_CardinalityType DEF DoneOf
  <2> QED
    BY <1>0, <2>1, <2>3, <2>4 DEF MonitorTyped
<1>6. ASSUME NEW c \in Checkers, StampSnapshot(c) PROVE MonitorTyped'
  <2>1. UNCHANGED <<snapshots, notices, day, checksBegun>> /\ now' = now + 1 /\ watch[c].pc = "stamp"
    BY <1>6 DEF StampSnapshot
  <2>2. PICK w : w.pc = "push" /\ watch' = [watch EXCEPT ![c] = w]
    BY <1>6 DEF StampSnapshot
  <2>3. Unstamped' = Unstamped \ {c} /\ c \in Unstamped /\ Unstored' = Unstored
    BY <1>b, <2>1, <2>2 DEF Unstamped, Unstored
  <2> QED
    BY <1>0, <2>1, <2>3, DoneOfDone DEF MonitorTyped
<1>7. ASSUME NEW c \in Checkers, PushSnapshot(c) PROVE MonitorTyped'
  <2>1. UNCHANGED <<now, notices, day, checksBegun>> /\ watch[c].pc = "push"
    BY <1>7 DEF PushSnapshot
  <2>2. PICK w : w.pc = "raise" /\ watch' = [watch EXCEPT ![c] = w]
    <3> DEFINE o == watch[c]
               w == [o EXCEPT !.pc = "raise"]
    <3>1. w.pc = "raise"
      <4>1. o = [pc |-> o.pc, snapshot |-> o.snapshot, notices |-> o.notices]
        BY <1>w DEF WatchOK
      <4> HIDE DEF o
      <4> QED
        BY <4>1
    <3>2. watch' = [watch EXCEPT ![c] = w]
      BY <1>7 DEF PushSnapshot
    <3> HIDE DEF w
    <3> QED
      BY <3>1, <3>2
  <2>3. Unstamped' = Unstamped /\ Unstored' = Unstored \ {c} /\ c \in Unstored
    <3>1. c \notin Unstamped /\ c \in Unstored
      BY <2>1 DEF Unstamped, Unstored
    <3> QED
      BY <1>b, <2>2, <3>1
  <2>4. Len(snapshots') \in {Len(snapshots), Len(snapshots) + 1}
    <3>1. Len(snapshots) \in Nat /\ snapshots' \in {snapshots, <<watch[c].snapshot>> \o snapshots}
      BY <1>0, <1>7 DEF PushSnapshot
    <3>2. \A S : \A s \in Seq(S) : \A x : Len(<<x>> \o s) = Len(s) + 1
      OBVIOUS
    <3> QED
      BY <1>0, <3>1, <3>2
  <2> QED
    <3>1. DoneOf(Len(snapshots'), Unstored', checksBegun)
      <4> DEFINE n == Len(snapshots)
      <4>1. DoneOf(n, Unstored, checksBegun) /\ c \in Unstored
        BY <1>0, <2>3
      <4>2. DoneOf(n, Unstored \ {c}, checksBegun) /\ DoneOf(n + 1, Unstored \ {c}, checksBegun)
        <5> HIDE DEF n
        <5> QED
          BY <4>1, DoneOfDone
      <4> QED
        BY <2>3, <2>4, <4>2
    <3> QED
      BY <1>0, <2>1, <2>3, <3>1 DEF MonitorTyped
<1>r. ASSUME NEW c \in Checkers, watch[c].pc = "raise", watch' = [watch EXCEPT ![c].notices = Tail(@)]
      PROVE Unstamped' = Unstamped /\ Unstored' = Unstored
  <2>1. PICK w : w.pc = "raise" /\ watch' = [watch EXCEPT ![c] = w]
    <3> DEFINE o == watch[c]
               w == [o EXCEPT !.notices = Tail(@)]
    <3>1. w.pc = "raise"
      <4>1. o = [pc |-> o.pc, snapshot |-> o.snapshot, notices |-> o.notices] /\ o.pc = "raise"
        BY <1>w, <1>r DEF WatchOK
      <4> HIDE DEF o
      <4> QED
        BY <4>1
    <3>2. watch' = [watch EXCEPT ![c] = w]
      BY <1>r
    <3> HIDE DEF w
    <3> QED
      BY <3>1, <3>2
  <2>2. c \notin Unstamped /\ c \notin Unstored
    BY <1>r DEF Unstamped, Unstored
  <2> QED
    BY <1>b, <2>1, <2>2
<1>8. ASSUME NEW c \in Checkers, RaiseNotice(c) PROVE MonitorTyped'
  <2>1. UNCHANGED <<snapshots, now, day, checksBegun>> /\ watch[c].pc = "raise"
    BY <1>8 DEF RaiseNotice
  <2>2. watch' = [watch EXCEPT ![c].notices = Tail(@)]
    BY <1>8 DEF RaiseNotice
  <2>3. Unstamped' = Unstamped /\ Unstored' = Unstored
    BY <1>r, <2>1, <2>2
  <2>4. Len(notices') <= MaxNotices
    <3>1. \/ notices' = notices
          \/ Len(notices) < MaxNotices /\ \E x : notices' = Append(notices, x)
      <4> DEFINE h == Head(watch[c].notices)
                 x == [title |-> h.title, severity |-> h.severity, active |-> TRUE]
      <4>1. \/ notices' = notices
            \/ Len(notices) < MaxNotices /\ notices' = Append(notices, x)
        <5>1. CASE h.title \in ActiveTitles
          BY <1>8, <5>1 DEF RaiseNotice
        <5>2. CASE h.title \notin ActiveTitles
          <6>1. notices' = Append(notices, x)
            BY <1>8, <5>2 DEF RaiseNotice
          <6>2. Len(notices) < MaxNotices
            BY <1>8, <5>2 DEF RaiseNotice
          <6> QED
            BY <6>1, <6>2
        <5> QED
          BY <5>1, <5>2
      <4> HIDE DEF x
      <4> QED
        BY <4>1
    <3>2. Len(notices) \in Nat /\ \A x : Len(Append(notices, x)) = Len(notices) + 1
      BY <1>0
    <3> QED
      BY <1>0, <3>1, <3>2, MonitoringAssumption
  <2> QED
    BY <1>0, <2>1, <2>3, <2>4 DEF MonitorTyped
<1>9. ASSUME NEW c \in Checkers, EndCheck(c) PROVE MonitorTyped'
  <2>1. /\ UNCHANGED <<snapshots, notices, now, day, checksBegun>> /\ watch[c].pc = "raise"
        /\ watch' = [watch EXCEPT ![c] = Resting]
    BY <1>9 DEF EndCheck
  <2>2. Unstamped' = Unstamped /\ Unstored' = Unstored
    <3>1. c \notin Unstamped /\ c \notin Unstored
      BY <2>1 DEF Unstamped, Unstored
    <3> QED
      BY <1>b, <2>1, <3>1 DEF Resting
  <2> QED
    BY <1>0, <2>1, <2>2 DEF MonitorTyped
<1>10. ASSUME NEW c \in Checkers, NoticeFails(c) PROVE MonitorTyped'
  <2>1. /\ UNCHANGED <<snapshots, notices, now, day, checksBegun>> /\ watch[c].pc = "raise"
        /\ watch' = [watch EXCEPT ![c].notices = Tail(@)]
    BY <1>10 DEF NoticeFails
  <2>2. Unstamped' = Unstamped /\ Unstored' = Unstored
    BY <1>r, <2>1
  <2> QED
    BY <1>0, <2>1, <2>2 DEF MonitorTyped
<1>11. ASSUME NEW c \in Checkers, CheckDies(c) PROVE MonitorTyped'
  <2>1. /\ UNCHANGED <<snapshots, notices, now, day, checksBegun>>
        /\ watch' = [watch EXCEPT ![c] = Resting]
    BY <1>11 DEF CheckDies
  <2>2. Unstamped' \subseteq Unstamped /\ Unstored' \subseteq Unstored
    <3>1. Resting.pc = "idle"
      BY DEF Resting
    <3>2. Unstamped' = Unstamped \ {c} /\ Unstored' = Unstored \ {c}
      BY <1>b, <2>1, <3>1
    <3> QED
      BY <3>2
  <2>3. DoneOf(now, Unstamped', checksBegun) /\ DoneOf(Len(snapshots), Unstored', checksBegun)
    BY <1>0, <2>2, DoneOfLess
  <2> QED
    BY <1>0, <2>1, <2>3 DEF MonitorTyped
<1> QED
  BY <1>1, <1>2, <1>3, <1>4, <1>5, <1>6, <1>7, <1>8, <1>9, <1>10, <1>11 DEF MonitoringNext

-----------------------------------------------------------------------------
(* The feature worker: messages are counted with the copies that a task holds.*)
\* One is put in the place of another.
LEMMA DoneOfExchanged ==
  \A n, S, m, d : \A c \in S : DoneOf(n, S, m) => DoneOf(n, (S \ {c}) \cup {d}, m)
<1> SUFFICES ASSUME NEW n, NEW S, NEW m, NEW d, NEW c \in S, DoneOf(n, S, m)
             PROVE DoneOf(n, (S \ {c}) \cup {d}, m)
  OBVIOUS
<1> DEFINE R == S \ {c}
<1>1. Cardinality(S) \in Nat /\ IsFiniteSet(R) /\ Cardinality(R) = Cardinality(S) - 1 /\ Cardinality(R) \in Nat
  BY FS_CardinalityType, FS_RemoveElement DEF DoneOf
<1> HIDE DEF R
<1>2. IsFiniteSet(R \cup {d}) /\ Cardinality(R \cup {d}) = IF d \in R THEN Cardinality(R) ELSE Cardinality(R) + 1
  BY <1>1, FS_AddElement
<1>3. DoneOf(n, R \cup {d}, m)
  BY <1>1, <1>2 DEF DoneOf
<1> QED
  BY <1>3 DEF R

(***************************************************************************)
(* What stands for a computation or an analysis on its way: each copy of a *)
(* message that the broker holds, and the one whose task runs.             *)
(***************************************************************************)
Copies(D, held, busy) ==
  {x \in D \X Nat : \/ 1 <= x[2] /\ x[2] <= held[x[1]]
                    \/ x[2] = 0 /\ busy # WorkerIdle /\ busy.msg = x[1]}

Copied(D, held, busy, U, n) ==
  /\ D \subseteq Messages /\ held \in [Messages -> Nat]
  /\ U \cap (Messages \X Nat) = {} /\ DoneOf(0, Copies(D, held, busy) \cup U, n)

LEMMA HeldWithin ==
  \A D, held, busy, U, n : \A g \in D : Copied(D, held, busy, U, n) => held[g] <= n
<1> SUFFICES ASSUME NEW D, NEW held, NEW busy, NEW U, NEW n, NEW g \in D, Copied(D, held, busy, U, n)
             PROVE held[g] <= n
  OBVIOUS
<1> DEFINE T == {g} \X (1..held[g])
           S == Copies(D, held, busy) \cup U
<1>1. held[g] \in Nat
  BY DEF Copied
<1>2. IsFiniteSet(T) /\ Cardinality(T) = held[g]
  <2>1. IsFiniteSet({g}) /\ Cardinality({g}) = 1
    BY FS_Singleton
  <2>2. IsFiniteSet(1..held[g]) /\ Cardinality(1..held[g]) = held[g]
    BY <1>1, FS_Interval, SMTT(20)
  <2>3. IsFiniteSet(T) /\ Cardinality(T) = Cardinality({g}) * Cardinality(1..held[g])
    BY <2>1, <2>2, FS_Product
  <2>4. 1 * held[g] = held[g]
    BY <1>1
  <2> QED
    BY <2>1, <2>2, <2>3, <2>4
<1>3. T \subseteq S
  BY <1>1 DEF Copies
<1>4. DoneOf(0, S, n)
  BY DEF Copied
<1> HIDE DEF S, T
<1>5. DoneOf(0, T, n)
  BY <1>3, <1>4, DoneOfLess
<1> QED
  BY <1>1, <1>2, <1>5 DEF DoneOf

\* The worker takes a message.
LEMMA CopyTaken ==
  \A D, held, U, n, t : \A g \in Messages :
    /\ Copied(D, held, WorkerIdle, U, n) /\ held[g] > 0
    /\ t # WorkerIdle /\ t.msg = g
    => Copied(D, [held EXCEPT ![g] = @ - 1], t, U, n)
<1> SUFFICES ASSUME NEW D, NEW held, NEW U, NEW n, NEW t, NEW g \in Messages,
                    Copied(D, held, WorkerIdle, U, n), held[g] > 0,
                    t # WorkerIdle, t.msg = g
             PROVE Copied(D, [held EXCEPT ![g] = @ - 1], t, U, n)
  OBVIOUS
<1> DEFINE fewer == [held EXCEPT ![g] = @ - 1]
           S == Copies(D, held, WorkerIdle) \cup U
           T == Copies(D, fewer, t) \cup U
<1>1. fewer \in [Messages -> Nat] /\ D \subseteq Messages /\ held \in [Messages -> Nat]
      /\ U \cap (Messages \X Nat) = {} /\ DoneOf(0, S, n)
  BY DEF Copied
<1>2. DoneOf(0, T, n)
  <2>1. ASSUME g \notin D PROVE T = S
    BY <1>1, <2>1 DEF Copies
  <2>2. ASSUME g \in D PROVE T \subseteq (S \ {<<g, held[g]>>}) \cup {<<g, 0>>} /\ <<g, held[g]>> \in S
    <3>1. <<g, held[g]>> \in S
      BY <1>1, <2>2 DEF Copies
    <3>2. ASSUME NEW x \in T, x # <<g, 0>> PROVE x \in S /\ x # <<g, held[g]>>
      <4>1. CASE x \in U
        BY <1>1, <4>1
      <4>2. CASE x \in Copies(D, fewer, t)
        <5>1. x \in D \X Nat /\ x = <<x[1], x[2]>>
          BY <4>2 DEF Copies
        <5>2. 1 <= x[2] /\ x[2] <= fewer[x[1]]
          BY <3>2, <4>2, <5>1 DEF Copies
        <5> QED
          BY <1>1, <5>1, <5>2 DEF Copies
      <4> QED
        BY <3>2, <4>1, <4>2
    <3> QED
      BY <3>1, <3>2
  <2> HIDE DEF S, T
  <2> QED
    BY <1>1, <2>1, <2>2, DoneOfExchanged, DoneOfLess
<1> QED
  BY <1>1, <1>2 DEF Copied

\* A message goes to the broker; it may be one more, or another of the same.
LEMMA CopySent ==
  \A D, held, busy, U, n, V : \A h \in Messages :
    /\ Copied(D, held, busy, U, n)
    /\ V \cap (Messages \X Nat) = {}
    /\ \/ V = U /\ h \notin D
       \/ \E c \in U : V = U \ {c}
    => Copied(D, [held EXCEPT ![h] = @ + 1], busy, V, n)
<1> TAKE D, held, busy, U, n, V
<1> TAKE h \in Messages
<1> HAVE /\ Copied(D, held, busy, U, n)
         /\ V \cap (Messages \X Nat) = {}
         /\ \/ V = U /\ h \notin D
            \/ \E c \in U : V = U \ {c}
<1> DEFINE more == [held EXCEPT ![h] = @ + 1]
           S == Copies(D, held, busy) \cup U
           T == Copies(D, more, busy) \cup V
<1>1. more \in [Messages -> Nat] /\ D \subseteq Messages /\ held \in [Messages -> Nat]
      /\ U \cap (Messages \X Nat) = {} /\ DoneOf(0, S, n)
  BY DEF Copied
<1>3. ASSUME NEW x \in Copies(D, more, busy), x # <<h, held[h] + 1>> PROVE x \in Copies(D, held, busy)
  <2>1. x \in D \X Nat /\ x = <<x[1], x[2]>>
    BY <1>3 DEF Copies
  <2> QED
    BY <1>1, <1>3, <2>1 DEF Copies
<1>2. DoneOf(0, T, n)
  <2>1. ASSUME V = U, h \notin D PROVE T = S
    BY <1>1, <2>1 DEF Copies
  <2>2. ASSUME NEW c \in U, V = U \ {c} PROVE T \subseteq (S \ {c}) \cup {<<h, held[h] + 1>>} /\ c \in S
    <3>1. c \notin Copies(D, held, busy)
      BY <1>1 DEF Copies
    <3> QED
      BY <1>3, <2>2, <3>1
  <2> HIDE DEF S, T
  <2>3. ASSUME NEW c \in U, V = U \ {c} PROVE DoneOf(0, T, n)
    <3>1. DoneOf(0, (S \ {c}) \cup {<<h, held[h] + 1>>}, n)
      BY <1>1, <2>2, <2>3, DoneOfExchanged
    <3> QED
      BY <2>2, <2>3, <3>1, DoneOfLess
  <2> QED
    BY <1>1, <2>1, <2>3
<1> QED
  BY <1>1, <1>2 DEF Copied

\* One more is asked for.
LEMMA CopyAsked ==
  \A D, held, busy, U, n : \A h \in Messages :
    Copied(D, held, busy, U, n) => Copied(D, [held EXCEPT ![h] = @ + 1], busy, U, n + 1)
<1> SUFFICES ASSUME NEW D, NEW held, NEW busy, NEW U, NEW n, NEW h \in Messages, Copied(D, held, busy, U, n)
             PROVE Copied(D, [held EXCEPT ![h] = @ + 1], busy, U, n + 1)
  OBVIOUS
<1> DEFINE more == [held EXCEPT ![h] = @ + 1]
           S == Copies(D, held, busy) \cup U
           T == Copies(D, more, busy) \cup U
<1>1. more \in [Messages -> Nat] /\ D \subseteq Messages /\ held \in [Messages -> Nat]
      /\ U \cap (Messages \X Nat) = {} /\ DoneOf(0, S, n)
  BY DEF Copied
<1>3. ASSUME NEW x \in Copies(D, more, busy), x # <<h, held[h] + 1>> PROVE x \in Copies(D, held, busy)
  <2>1. x \in D \X Nat /\ x = <<x[1], x[2]>>
    BY <1>3 DEF Copies
  <2> QED
    BY <1>1, <1>3, <2>1 DEF Copies
<1>2. T \subseteq S \cup {<<h, held[h] + 1>>}
  BY <1>3
<1> HIDE DEF S, T
<1>4. DoneOf(0, T, n + 1)
  BY <1>1, <1>2, DoneOfBegun, DoneOfLess
<1> QED
  BY <1>1, <1>4 DEF Copied, T

\* The task ends, and its message is done with, or goes back as it was or as
\* another of its kind.
LEMMA CopyReturned ==
  \A D, held, U, n, t : \A h \in Messages :
    Copied(D, held, t, U, n) /\ t # WorkerIdle /\ (h \in D => t.msg \in D)
    => Copied(D, [held EXCEPT ![h] = @ + 1], WorkerIdle, U, n)
<1> SUFFICES ASSUME NEW D, NEW held, NEW U, NEW n, NEW t, NEW h \in Messages,
                    Copied(D, held, t, U, n), t # WorkerIdle, h \in D => t.msg \in D
             PROVE Copied(D, [held EXCEPT ![h] = @ + 1], WorkerIdle, U, n)
  OBVIOUS
<1> DEFINE more == [held EXCEPT ![h] = @ + 1]
           S == Copies(D, held, t) \cup U
           T == Copies(D, more, WorkerIdle) \cup U
           c == <<t.msg, 0>>
<1>1. more \in [Messages -> Nat] /\ D \subseteq Messages /\ held \in [Messages -> Nat]
      /\ U \cap (Messages \X Nat) = {} /\ DoneOf(0, S, n)
  BY DEF Copied
<1>3. ASSUME NEW x \in Copies(D, more, WorkerIdle)
      PROVE /\ \/ x = <<h, held[h] + 1>> /\ h \in D
               \/ x \in Copies(D, held, t)
            /\ x # c
  <2>1. x \in D \X Nat /\ x = <<x[1], x[2]>> /\ 1 <= x[2] /\ x[2] <= more[x[1]]
    BY <1>3 DEF Copies
  <2>2. x # c
    BY <2>1
  <2>3. CASE x[1] = h /\ x[2] = held[h] + 1
    BY <2>1, <2>2, <2>3
  <2>4. CASE ~(x[1] = h /\ x[2] = held[h] + 1)
    <3>1. x[2] <= held[x[1]]
      BY <1>1, <2>1, <2>4
    <3> QED
      BY <2>1, <2>2, <3>1 DEF Copies
  <2> QED
    BY <2>3, <2>4
<1>2. DoneOf(0, T, n)
  <2>1. ASSUME h \notin D PROVE T \subseteq S
    BY <1>3, <2>1
  <2>2. ASSUME h \in D PROVE T \subseteq (S \ {c}) \cup {<<h, held[h] + 1>>} /\ c \in S
    <3>1. c \in Copies(D, held, t)
      BY <2>2 DEF Copies
    <3>2. c \notin U
      BY <1>1, <3>1 DEF Copies
    <3> QED
      BY <1>3, <3>1, <3>2
  <2> HIDE DEF S, T, c
  <2> QED
    BY <1>1, <2>1, <2>2, DoneOfExchanged, DoneOfLess
<1> QED
  BY <1>1, <1>2 DEF Copied

LEMMA CopySpent ==
  \A D, held, U, n, t : Copied(D, held, t, U, n) => Copied(D, held, WorkerIdle, U, n)
<1> SUFFICES ASSUME NEW D, NEW held, NEW U, NEW n, NEW t, Copied(D, held, t, U, n)
             PROVE Copied(D, held, WorkerIdle, U, n)
  OBVIOUS
<1>1. Copies(D, held, WorkerIdle) \cup U \subseteq Copies(D, held, t) \cup U
  BY DEF Copies
<1> QED
  BY <1>1, DoneOfLess DEF Copied

\* Only the message of a task is told apart.
LEMMA CopyKept ==
  \A D, held, U, n, t, s :
    Copied(D, held, t, U, n) /\ t # WorkerIdle /\ s # WorkerIdle /\ s.msg = t.msg
    => Copied(D, held, s, U, n)
<1> SUFFICES ASSUME NEW D, NEW held, NEW U, NEW n, NEW t, NEW s,
                    Copied(D, held, t, U, n), t # WorkerIdle, s # WorkerIdle, s.msg = t.msg
             PROVE Copied(D, held, s, U, n)
  OBVIOUS
<1>1. Copies(D, held, s) = Copies(D, held, t)
  BY DEF Copies
<1> QED
  BY <1>1 DEF Copied

-----------------------------------------------------------------------------
(* Feature sets.                                                           *)
Computing(f) == {g \in Messages : g.kind = "compute" /\ g.set = f}
Reporting == {g \in Messages : g.kind = "analyze"}
Asking(a, f) == {x \in Requests \X {-1} : a[x[1]].pc = "delay" /\ a[x[1]].set = f}

AskTyped(x) ==
  /\ x.pc \in {"idle", "insert", "delay"}
  /\ x.pc = "delay" => x.set \in SetIds

\* A set is computed by one message at a time, sent by the request that made
\* it, and there are as many messages that analyze as analyses asked for.
FeaturesTyped ==
  /\ Len(sets) <= MaxSets /\ \A q \in Requests : AskTyped(asks[q])
  /\ Copied(Reporting, messages, task, {}, analyses)
  /\ \A f \in SetIds :
       Copied(Computing(f), messages, task, Asking(asks, f), IF f \in Sets THEN 1 ELSE 0)
  /\ artifacts \subseteq SetIds \X Artifacts
  /\ told \in [SetIds -> {"none", "COMPLETED", "FAILED"}]
  /\ analyses \in 0..MaxAnalyses /\ faults \in 0..MaxFaults

LEMMA NoCopies ==
  ASSUME NEW D \in SUBSET Messages, NEW U, U = {}
  PROVE Copied(D, [g \in Messages |-> 0], WorkerIdle, U, 0)
<1>1. Copies(D, [g \in Messages |-> 0], WorkerIdle) \cup U = {}
  BY DEF Copies
<1>2. DoneOf(0, {}, 0)
  BY FS_EmptySet DEF DoneOf
<1> QED
  BY <1>1, <1>2 DEF Copied

LEMMA FeaturesTypedInit == FeaturesInit => FeaturesTyped
<1> SUFFICES ASSUME FeaturesInit PROVE FeaturesTyped
  OBVIOUS
<1>1. \A f \in SetIds : Asking(asks, f) = {} /\ f \notin Sets
  BY DEF FeaturesInit, Asking, IdleAsk, Sets
<1>2. Copied(Reporting, messages, task, {}, analyses)
  BY NoCopies DEF FeaturesInit, Reporting
<1>3. \A f \in SetIds : Copied(Computing(f), messages, task, Asking(asks, f), 0)
  BY <1>1, NoCopies DEF FeaturesInit, Computing
<1>4. Len(sets) <= MaxSets /\ \A q \in Requests : AskTyped(asks[q])
  BY FeatureSetsAssumption DEF FeaturesInit, AskTyped, IdleAsk
<1> QED
  BY <1>1, <1>2, <1>3, <1>4, FeatureSetsAssumption DEF FeaturesInit, FeaturesTyped

LEMMA FeaturesTypes == FeaturesInv /\ FeaturesTyped => FeaturesTypeOK
<1> SUFFICES ASSUME FeaturesInv, FeaturesTyped PROVE FeaturesTypeOK
  OBVIOUS
<1>1. messages \in [Messages -> 0..MaxAnalyses + 1]
  <2>1. messages \in [Messages -> Nat]
    BY DEF FeaturesTyped, Copied
  <2>2. ASSUME NEW g \in Messages PROVE messages[g] <= MaxAnalyses + 1
    <3>1. CASE g.kind = "analyze"
      <4>1. g \in Reporting
        BY <3>1 DEF Reporting
      <4>2. messages[g] <= analyses
        BY <4>1, HeldWithin DEF FeaturesTyped
      <4> QED
        BY <2>1, <4>2, FeatureSetsAssumption DEF FeaturesTyped
    <3>2. CASE g.kind = "compute"
      <4>1. g.set \in SetIds /\ g \in Computing(g.set)
        BY <3>2 DEF Computing, Messages
      <4>2. messages[g] <= IF g.set \in Sets THEN 1 ELSE 0
        BY <4>1, HeldWithin DEF FeaturesTyped
      <4> QED
        BY <2>1, <4>2, FeatureSetsAssumption
    <3> QED
      BY <3>1, <3>2 DEF Messages, Kinds
  <2> QED
    BY <2>1, <2>2, FeatureSetsAssumption
<1>2. /\ task.pc \in {"idle", "begin", "features", "transformer", "commit", "status"}
      /\ task.pc # "idle" => task.msg \in Messages
  BY DEF FeaturesInv, WorkerIdle, Tasks
<1>3. \A f \in Sets : sets[f] \in SetRecord
  BY RowsOfSets DEF FeaturesInv
<1>4. \A q \in Requests : asks[q].pc \in {"idle", "insert", "delay"}
  BY DEF FeaturesTyped, AskTyped
<1> QED
  BY <1>1, <1>2, <1>3, <1>4 DEF FeaturesTyped, FeaturesTypeOK

LEMMA FeaturesTypeStep == FeaturesInv /\ FeaturesTyped /\ [FeaturesNext]_featureVars => FeaturesTyped'
<1> SUFFICES ASSUME FeaturesInv, FeaturesTyped, [FeaturesNext]_featureVars PROVE FeaturesTyped'
  OBVIOUS
<1> DEFINE Has(s, f) == IF f \in DOMAIN s THEN 1 ELSE 0
           Sent(m, t, a, n, s) ==
             /\ Copied(Reporting, m, t, {}, n)
             /\ \A f \in SetIds : Copied(Computing(f), m, t, Asking(a, f), Has(s, f))
           Rest == /\ Len(sets') <= MaxSets /\ \A q \in Requests : AskTyped(asks'[q])
                   /\ artifacts' \subseteq SetIds \X Artifacts
                   /\ told' \in [SetIds -> {"none", "COMPLETED", "FAILED"}]
                   /\ analyses' \in 0..MaxAnalyses /\ faults' \in 0..MaxFaults
<1>a. /\ Len(sets) <= MaxSets /\ \A q \in Requests : AskTyped(asks[q])
      /\ artifacts \subseteq SetIds \X Artifacts
      /\ told \in [SetIds -> {"none", "COMPLETED", "FAILED"}]
      /\ analyses \in 0..MaxAnalyses /\ faults \in 0..MaxFaults
      /\ sets \in Seq(SetRecord) /\ task \in {WorkerIdle} \cup Tasks /\ DOMAIN asks = Requests
      /\ DOMAIN sets = 1..Len(sets) /\ Len(sets) \in Nat
  BY RowsOfSets DEF FeaturesTyped, FeaturesInv, Sets
<1>b. Sent(messages, task, asks, analyses, sets)
  BY DEF FeaturesTyped, Sets
<1>c. Rest /\ Sent(messages', task', asks', analyses', sets') => FeaturesTyped'
  BY DEF FeaturesTyped, Sets
<1>d. WorkerIdle.pc = "idle" /\ (task # WorkerIdle <=> task.pc # "idle")
      /\ (task # WorkerIdle => task.msg \in Messages /\ task.msg.set \in SetIds)
      /\ (task # WorkerIdle => task = [pc |-> task.pc, msg |-> task.msg])
  BY <1>a DEF WorkerIdle, Tasks, Messages
\* Only the row of a set changes.
<1>e. ASSUME DOMAIN sets' = DOMAIN sets, NEW m, NEW t, NEW a, NEW n
      PROVE Sent(m, t, a, n, sets) => Sent(m, t, a, n, sets')
  BY <1>e
<1>f. ASSUME NEW i, NEW x, sets' = [sets EXCEPT ![i] = x]
      PROVE DOMAIN sets' = DOMAIN sets /\ Len(sets') = Len(sets)
  <2>1. DOMAIN sets' = DOMAIN sets
    BY <1>f
  <2>2. sets' \in [1..Len(sets) -> {sets'[f] : f \in 1..Len(sets)}]
    BY <1>a, <1>f
  <2> QED
    BY <1>a, <2>1, <2>2
<1> HIDE DEF Sent
<1>1. CASE UNCHANGED featureVars
  BY <1>a, <1>b, <1>c, <1>1 DEF featureVars
<1>2. ASSUME NEW q \in Requests, NEW c \in Configs, FindReusable(q, c) PROVE FeaturesTyped'
  <2>1. \A f : Asking(asks', f) = Asking(asks, f)
    BY <1>a, <1>2 DEF FindReusable, Asking
  <2>2. Sent(messages', task', asks', analyses', sets')
    BY <1>b, <1>2, <2>1 DEF FindReusable, Sent
  <2> QED
    BY <1>a, <1>c, <1>2, <2>2 DEF FindReusable, AskTyped
<1>3. ASSUME NEW q \in Requests, InsertSet(q) PROVE FeaturesTyped'
  <2> DEFINE new == Len(sets) + 1
  <2>1. DOMAIN sets' = DOMAIN sets \cup {new} /\ Len(sets') = new /\ new \notin DOMAIN sets /\ new \in SetIds
    <3>1. \E x : sets' = Append(sets, x)
      BY <1>3 DEF InsertSet
    <3> QED
      BY <1>a, <1>3, <3>1, FeatureSetsAssumption DEF InsertSet, SetIds
  <2>2. Asking(asks', new) = Asking(asks, new) \cup {<<q, -1>>}
        /\ \A f : f # new => Asking(asks', f) = Asking(asks, f)
    BY <1>a, <1>3 DEF InsertSet, Asking
  <2>3. Copied(Computing(new), messages, task, Asking(asks', new), 1)
    <3> DEFINE S == Copies(Computing(new), messages, task) \cup Asking(asks, new)
    <3>1. Copied(Computing(new), messages, task, Asking(asks, new), 0)
      BY <1>b, <2>1 DEF Sent
    <3>2. DoneOf(0, S \cup {<<q, -1>>}, 1)
      <4>1. DoneOf(0, S, 0)
        BY <3>1 DEF Copied
      <4> HIDE DEF S
      <4>2. DoneOf(0, S \cup {<<q, -1>>}, 0 + 1)
        BY <4>1, DoneOfBegun
      <4>3. 0 + 1 = 1
        OBVIOUS
      <4> QED
        BY <4>2, <4>3, Zenon
    <3>3. Copies(Computing(new), messages, task) \cup Asking(asks', new) = S \cup {<<q, -1>>}
      BY <2>2
    <3>4. Asking(asks', new) \cap (Messages \X Nat) = {}
      BY DEF Asking
    <3> HIDE DEF S
    <3> QED
      BY <3>1, <3>2, <3>3, <3>4 DEF Copied
  <2>4. Sent(messages', task', asks', analyses', sets')
    BY <1>b, <1>3, <2>1, <2>2, <2>3 DEF InsertSet, Sent
  <2> QED
    BY <1>a, <1>c, <1>3, <2>1, <2>4, FeatureSetsAssumption DEF InsertSet, AskTyped, SetIds
<1>4. ASSUME NEW q \in Requests, Delay(q) PROVE FeaturesTyped'
  <2> DEFINE i == asks[q].set
             h == Compute(i)
             more == [messages EXCEPT ![h] = @ + 1]
  <2>1. i \in SetIds /\ h \in Messages /\ h \notin Reporting /\ \A f : h \in Computing(f) <=> f = i
    BY <1>a, <1>4, FeatureSetsAssumption DEF Delay, AskTyped, Compute, Messages, Kinds, Reporting, Computing
  <2>2. <<q, -1>> \in Asking(asks, i) /\ Asking(asks', i) = Asking(asks, i) \ {<<q, -1>>}
        /\ \A f : f # i => Asking(asks', f) = Asking(asks, f)
    BY <1>a, <1>4 DEF Delay, Asking, IdleAsk
  <2>3. messages' = more /\ task' = task /\ analyses' = analyses
    BY <1>4 DEF Delay
  <2>4. DOMAIN sets' = DOMAIN sets /\ Len(sets') = Len(sets)
    BY <1>4, <1>f DEF Delay
  <2>6. \A f : Asking(asks', f) \cap (Messages \X Nat) = {}
    BY DEF Asking
  <2> HIDE DEF i, h
  <2>5. Sent(more, task, asks', analyses, sets)
    <3>1. Copied(Reporting, more, task, {}, analyses)
      BY <1>b, <2>1, CopySent DEF Sent
    <3>2. ASSUME NEW f \in SetIds PROVE Copied(Computing(f), more, task, Asking(asks', f), Has(sets, f))
      <4>1. Copied(Computing(f), messages, task, Asking(asks, f), Has(sets, f))
        BY <1>b DEF Sent
      <4>2. \/ Asking(asks', f) = Asking(asks, f) /\ h \notin Computing(f)
            \/ \E c \in Asking(asks, f) : Asking(asks', f) = Asking(asks, f) \ {c}
        BY <2>1, <2>2
      <4> HIDE DEF Has
      <4> QED
        BY <2>1, <2>6, <4>1, <4>2, CopySent
    <3> QED
      BY <3>1, <3>2 DEF Sent
  <2> QED
    BY <1>a, <1>c, <1>e, <1>4, <2>3, <2>4, <2>5 DEF Delay, AskTyped, IdleAsk
<1>5. ASSUME NEW q \in Requests, AskDies(q) PROVE FeaturesTyped'
  <2>1. \A f : Asking(asks', f) \subseteq Asking(asks, f)
    BY <1>a, <1>5 DEF AskDies, Asking, IdleAsk
  <2>2. ASSUME NEW D, NEW U, NEW V, NEW n, Copied(D, messages, task, U, n), V \subseteq U
        PROVE Copied(D, messages, task, V, n)
    <3>1. Copies(D, messages, task) \cup V \subseteq Copies(D, messages, task) \cup U
      BY <2>2
    <3> QED
      BY <2>2, <3>1, DoneOfLess DEF Copied
  <2>3. UNCHANGED <<sets, messages, task, artifacts, told, analyses>>
    BY <1>5 DEF AskDies
  <2>4. Sent(messages, task, asks', analyses, sets)
    BY <1>b, <2>1, <2>2 DEF Sent
  <2>5. faults' \in 0..MaxFaults
    BY <1>a, <1>5, FeatureSetsAssumption DEF AskDies, Fault
  <2>6. \A r \in Requests : AskTyped(asks'[r])
    BY <1>a, <1>5 DEF AskDies, AskTyped, IdleAsk
  <2> QED
    BY <1>a, <1>c, <2>3, <2>4, <2>5, <2>6
<1>6. ASSUME NEW f \in Sets, SoftDelete(f) \/ DropByDataset(f) PROVE FeaturesTyped'
  <2>1. DOMAIN sets' = DOMAIN sets /\ Len(sets') = Len(sets)
    BY <1>6, <1>f DEF SoftDelete, DropByDataset
  <2>2. UNCHANGED <<asks, messages, task, artifacts, told, analyses, faults>>
    BY <1>6 DEF SoftDelete, DropByDataset
  <2> QED
    BY <1>a, <1>b, <1>c, <1>e, <2>1, <2>2
<1>7. ASSUME NEW f \in Sets, AnalyzeSet(f) PROVE FeaturesTyped'
  <2> DEFINE h == [kind |-> "analyze", set |-> f, tries |-> 0]
             more == [messages EXCEPT ![h] = @ + 1]
  <2>1. h \in Messages /\ \A i : h \notin Computing(i)
    BY <1>a, FeatureSetsAssumption DEF Messages, Kinds, Computing, Sets, SetIds
  <2>2. messages' = more /\ analyses' = analyses + 1
        /\ UNCHANGED <<sets, asks, task, artifacts, told, faults>>
    BY <1>7 DEF AnalyzeSet
  <2>3. analyses' \in 0..MaxAnalyses
    BY <1>a, <1>7, FeatureSetsAssumption DEF AnalyzeSet
  <2> HIDE DEF h
  <2>4. Copied(Reporting, more, task, {}, analyses + 1)
    BY <1>b, <2>1, CopyAsked DEF Sent
  <2>5. ASSUME NEW i \in SetIds PROVE Copied(Computing(i), more, task, Asking(asks, i), Has(sets, i))
    <3>1. Copied(Computing(i), messages, task, Asking(asks, i), Has(sets, i))
      BY <1>b DEF Sent
    <3>2. Asking(asks, i) \cap (Messages \X Nat) = {}
      BY DEF Asking
    <3> HIDE DEF Has
    <3> QED
      BY <2>1, <3>1, <3>2, CopySent
  <2>6. Sent(messages', task', asks', analyses', sets')
    BY <2>2, <2>4, <2>5 DEF Sent
  <2> QED
    BY <1>a, <1>c, <2>2, <2>3, <2>6
<1>8. ASSUME NEW g \in Messages, Receive(g) PROVE FeaturesTyped'
  <2> DEFINE t == [pc |-> "begin", msg |-> g]
             less == [messages EXCEPT ![g] = @ - 1]
  <2>1. task = WorkerIdle /\ messages[g] > 0 /\ messages' = less /\ task' = t
        /\ UNCHANGED <<sets, asks, artifacts, told, analyses, faults>>
    BY <1>d, <1>8 DEF Receive
  <2>2. t # WorkerIdle /\ t.msg = g
    BY <1>d
  <2> HIDE DEF t
  <2>3. Sent(less, t, asks, analyses, sets)
    <3> HIDE DEF Has
    <3> QED
      BY <1>b, <2>1, <2>2, CopyTaken DEF Sent
  <2> QED
    BY <1>a, <1>c, <2>1, <2>3
<1>9. ASSUME NEW pc, pc # "idle", task.pc # "idle", Step(pc), DOMAIN sets' = DOMAIN sets,
             UNCHANGED <<asks, messages, analyses>>
      PROVE Sent(messages', task', asks', analyses', sets')
  <2>1. task # WorkerIdle /\ task' # WorkerIdle /\ task'.msg = task.msg
    BY <1>d, <1>9 DEF Step
  <2>2. Sent(messages, task', asks, analyses, sets)
    <3> HIDE DEF Has
    <3> QED
      BY <1>b, <2>1, CopyKept DEF Sent
  <2> QED
    BY <1>e, <1>9, <2>2
<1>10. ASSUME BeginCompute \/ BeginAnalyze \/ CommitTask PROVE FeaturesTyped'
  <2>1. DOMAIN sets' = DOMAIN sets /\ Len(sets') = Len(sets)
    BY <1>10 DEF BeginCompute, BeginAnalyze, CommitTask
  <2>2. UNCHANGED <<asks, messages, artifacts, told, analyses, faults>>
    BY <1>10 DEF BeginCompute, BeginAnalyze, CommitTask
  <2>3. Sent(messages', task', asks', analyses', sets')
    BY <1>9, <1>10, <2>1, <2>2 DEF BeginCompute, BeginAnalyze, CommitTask
  <2> QED
    BY <1>a, <1>c, <2>1, <2>2, <2>3
<1>11. ASSUME NEW kind \in Artifacts, Upload(kind) PROVE FeaturesTyped'
  <2>1. task.pc # "idle" /\ NextAfter(kind) # "idle"
    BY <1>11 DEF Upload, Artifacts, NextAfter
  <2>2. artifacts' \subseteq SetIds \X Artifacts
    BY <1>a, <1>d, <1>11, <2>1 DEF Upload
  <2>3. UNCHANGED <<sets, asks, messages, told, analyses, faults>> /\ Step(NextAfter(kind))
    BY <1>11 DEF Upload
  <2>4. Sent(messages', task', asks', analyses', sets')
    BY <1>9, <2>1, <2>3
  <2> QED
    BY <1>a, <1>c, <2>2, <2>3, <2>4
<1>12. Sent(messages, WorkerIdle, asks, analyses, sets)
  <2> HIDE DEF Has
  <2> QED
    BY <1>b, CopySpent DEF Sent
<1>13. ASSUME EndTask \/ EndAnalysisEarly PROVE FeaturesTyped'
  <2>1. task' = WorkerIdle /\ UNCHANGED <<sets, asks, messages, artifacts, analyses, faults>>
    BY <1>13 DEF EndTask, EndAnalysisEarly
  <2>2. told' \in [SetIds -> {"none", "COMPLETED", "FAILED"}]
    BY <1>a, <1>13 DEF EndTask, EndAnalysisEarly
  <2> QED
    BY <1>a, <1>c, <1>12, <2>1, <2>2
\* The message goes back, as it was or with one more try.
<1>14. ASSUME task # WorkerIdle, NEW h \in Messages, h.kind = task.msg.kind, h.set = task.msg.set
       PROVE Sent([messages EXCEPT ![h] = @ + 1], WorkerIdle, asks, analyses, sets)
  <2>1. (h \in Reporting => task.msg \in Reporting) /\ \A f : (h \in Computing(f) => task.msg \in Computing(f))
    BY <1>d, <1>14 DEF Reporting, Computing
  <2> HIDE DEF Has
  <2> QED
    BY <1>b, <1>14, <2>1, CopyReturned DEF Sent
<1>15. ASSUME NEW written \in BOOLEAN, FailTask(written), task # WorkerIdle, faults' \in 0..MaxFaults
       PROVE FeaturesTyped'
  <2> DEFINE g == task.msg
  <2>0. g \in Messages
    BY <1>d, <1>15
  <2>1. DOMAIN sets' = DOMAIN sets /\ Len(sets') = Len(sets)
    BY <1>15 DEF FailTask
  <2>2. task' = WorkerIdle /\ UNCHANGED <<asks, artifacts, analyses>>
    BY <1>15 DEF FailTask
  <2>3. told' \in [SetIds -> {"none", "COMPLETED", "FAILED"}]
    BY <1>a, <1>15 DEF FailTask
  <2>4. Sent(messages', WorkerIdle, asks, analyses, sets)
    <3>1. CASE g.tries < MaxRetries
      <4> DEFINE h == Retried(g)
      <4>1. messages' = [messages EXCEPT ![h] = @ + 1]
        BY <1>15, <3>1 DEF FailTask
      <4>2. h \in Messages /\ h.kind = g.kind /\ h.set = g.set
        BY <2>0, <3>1, FeatureSetsAssumption DEF Retried, Messages
      <4> HIDE DEF h
      <4> QED
        BY <1>14, <1>15, <4>1, <4>2
    <3>2. CASE ~(g.tries < MaxRetries)
      <4>1. messages' = messages
        BY <1>15, <3>2 DEF FailTask
      <4> QED
        BY <1>12, <4>1
    <3> QED
      BY <3>1, <3>2
  <2> QED
    BY <1>a, <1>c, <1>e, <1>15, <2>1, <2>2, <2>3, <2>4
<1>16. CASE TaskImpossible
  BY <1>a, <1>d, <1>15, <1>16 DEF TaskImpossible
<1>17. CASE TaskRaises
  BY <1>a, <1>d, <1>15, <1>17, FeatureSetsAssumption DEF TaskRaises, Fault
<1>18. CASE WorkerDies
  <2>1. task # WorkerIdle /\ task.msg \in Messages
    BY <1>d, <1>18 DEF WorkerDies
  <2>2. messages' = [messages EXCEPT ![task.msg] = @ + 1] /\ task' = WorkerIdle
        /\ UNCHANGED <<sets, asks, artifacts, told, analyses>>
    BY <1>18 DEF WorkerDies, ReturnedMessages
  <2>3. Sent(messages', task', asks', analyses', sets')
    BY <1>14, <2>1, <2>2
  <2>4. faults' \in 0..MaxFaults
    BY <1>a, <1>18, FeatureSetsAssumption DEF WorkerDies, Fault
  <2> QED
    BY <1>a, <1>c, <2>2, <2>3, <2>4
<1> QED
  BY <1>1, <1>2, <1>3, <1>4, <1>5, <1>6, <1>7, <1>8, <1>10, <1>11, <1>13, <1>16, <1>17, <1>18
     DEF FeaturesNext, WorkerStep

-----------------------------------------------------------------------------
(* The training page.                                                      *)
SplitRows == [raw : RawData, there : BOOLEAN]
SetRows == [of : Tables, status : {"computing", "completed", "failed"}, there : BOOLEAN]

StoredTyped ==
  /\ stored = [splits |-> stored.splits, sets |-> stored.sets]
  /\ stored.splits \in Seq(SplitRows) /\ Len(stored.splits) <= MaxSplitJobs
  /\ stored.sets \in Seq(SetRows)

\* What is in flight will find room for its row, or finds the row it made.
InFlight ==
  /\ ui.create.kind = "split" => ui.create.raw \in RawData /\ Len(stored.splits) < MaxSplitJobs
  /\ ui.generate.kind = "sent" => ui.generate.of \in Tables
  /\ ui.generate.kind = "done" => ui.generate.id \in 1..Len(stored.sets)

OnPage ==
  /\ ui.step \in Steps /\ ui.dataset \in RawData \cup {NoRaw} /\ ui.visit \in 1..MaxVisits
  /\ ui.split \in 0..Len(stored.splits) /\ ui.set \in 0..Len(stored.sets)
  /\ ui.listed \subseteq 1..Len(stored.splits)

PageTyped == StoredTyped /\ InFlight /\ OnPage

LEMMA PageTypedInit == PageInit => PageTyped
<1> SUFFICES ASSUME PageInit PROVE PageTyped
  OBVIOUS
<1>1. /\ ui.step = 1 /\ ui.dataset = NoRaw /\ ui.visit = 1 /\ ui.split = 0 /\ ui.set = 0 /\ ui.listed = {}
      /\ ui.create.kind = "idle" /\ ui.generate.kind = "idle"
  BY DEF PageInit, Opened, NoJobRow, NoSetRow, NothingSent
<1> DEFINE none == <<>>
<1>2. stored = [splits |-> none, sets |-> none]
  BY DEF PageInit
<1>3. none \in Seq(SplitRows) /\ none \in Seq(SetRows) /\ Len(none) = 0
  OBVIOUS
<1> HIDE DEF none
<1>4. stored.splits = none /\ stored.sets = none
  BY <1>2
<1> QED
  BY <1>1, <1>2, <1>3, <1>4, PageAssumption DEF PageTyped, StoredTyped, InFlight, OnPage, Steps

LEMMA PageTypes == PageTyped => PageTypeOK
<1> SUFFICES ASSUME PageTyped PROVE PageTypeOK
  OBVIOUS
<1>1. ASSUME NEW i \in PageSets PROVE stored.sets[i].of \in Tables
  <2>1. stored.sets[i] \in SetRows
    BY DEF PageTyped, StoredTyped, PageSets
  <2> QED
    BY <2>1 DEF SetRows
<1> QED
  BY <1>1 DEF PageTyped, OnPage, PageTypeOK, SplitJobs

LEMMA TargetIsTable == PageTyped => TargetDataset \in Tables
<1> SUFFICES ASSUME PageTyped PROVE TargetDataset \in Tables
  OBVIOUS
<1>1. CASE FoundSplit # NoJobRow
  <2>1. FoundSplit = ui.split /\ ui.split \in 1..Len(stored.splits)
    BY <1>1 DEF FoundSplit, PageTyped, OnPage
  <2>2. stored.splits[ui.split].raw \in RawData /\ ui.split \in 0..MaxSplitJobs
    <3>1. stored.splits[ui.split] \in SplitRows /\ Len(stored.splits) \in Nat
      BY <2>1 DEF PageTyped, StoredTyped
    <3> QED
      BY <2>1, <3>1, PageAssumption DEF PageTyped, StoredTyped, SplitRows
  <2> QED
    BY <1>1, <2>1, <2>2 DEF TargetDataset, Table, Tables
<1>2. CASE FoundSplit = NoJobRow
  BY <1>2, PageAssumption DEF TargetDataset, Table, Tables, NoTable, NoJobRow, PageTyped, OnPage
<1> QED
  BY <1>1, <1>2

LEMMA PageTypeStep == PageInv /\ PageTyped /\ [PageNext]_pageVars => PageTyped'
<1> SUFFICES ASSUME PageInv, PageTyped, [PageNext]_pageVars PROVE PageTyped'
  OBVIOUS
<1>0. /\ ui = [step |-> ui.step, dataset |-> ui.dataset, split |-> ui.split, set |-> ui.set,
               visit |-> ui.visit, listed |-> ui.listed, create |-> ui.create,
               generate |-> ui.generate, under |-> ui.under, moved |-> ui.moved]
      /\ stored = [splits |-> stored.splits, sets |-> stored.sets]
      /\ stored.splits \in Seq(SplitRows) /\ Len(stored.splits) <= MaxSplitJobs
      /\ stored.sets \in Seq(SetRows) /\ Len(stored.splits) \in Nat /\ Len(stored.sets) \in Nat
      /\ StoredTyped /\ InFlight /\ OnPage /\ MaxSplitJobs \in Nat /\ MaxVisits \in Nat \ {0}
  BY PageAssumption DEF PageInv, PageFields, PageTyped, StoredTyped
<1>1. CASE UNCHANGED pageVars
  BY <1>0, <1>1 DEF pageVars, PageTyped, StoredTyped, InFlight, OnPage
<1>2. CASE GoToStep \/ JobsFetched \/ PickDataset \/ PickSplit
  <2>1. stored' = stored /\ ui'.create = ui.create /\ ui'.generate = ui.generate
    BY <1>0, <1>2 DEF GoToStep, JobsFetched, PickDataset, PickSplit, Picked
  <2>2. OnPage'
    <3>1. CASE GoToStep
      BY <1>0, <2>1, <3>1 DEF GoToStep, OnPage
    <3>2. CASE JobsFetched
      BY <1>0, <2>1, <3>2 DEF JobsFetched, OnPage, SplitJobs
    <3>3. CASE PickDataset
      BY <1>0, <2>1, <3>3 DEF PickDataset, OnPage
    <3>4. CASE PickSplit
      BY <1>0, <2>1, <3>4 DEF PickSplit, Picked, OnPage, NoSetRow
    <3> QED
      BY <1>2, <3>1, <3>2, <3>3, <3>4
  <2> QED
    BY <1>0, <2>1, <2>2 DEF PageTyped, StoredTyped, InFlight
<1>3. CASE RequestSplit \/ RequestRefused \/ RequestFeatures \/ StartTraining
  <2>1. stored' = stored /\ OnPage'
    <3>1. stored' = stored
      BY <1>3 DEF RequestSplit, RequestRefused, RequestFeatures, StartTraining
    <3>2. /\ ui'.step = ui.step /\ ui'.dataset = ui.dataset /\ ui'.visit = ui.visit
          /\ ui'.split = ui.split /\ ui'.set = ui.set /\ ui'.listed = ui.listed
      BY <1>0, <1>3 DEF RequestSplit, RequestRefused, RequestFeatures, StartTraining
    <3> QED
      BY <1>0, <3>1, <3>2 DEF OnPage
  <2>2. InFlight'
    <3>1. CASE RequestSplit
      BY <1>0, <2>1, <3>1 DEF RequestSplit, InFlight, OnPage
    <3>2. CASE RequestRefused
      BY <1>0, <2>1, <3>2 DEF RequestRefused, InFlight, NothingSent
    <3>3. CASE RequestFeatures
      <4>1. TargetDataset \in Tables
        BY TargetIsTable
      <4> DEFINE g == [kind |-> "sent", of |-> TargetDataset, under |-> ui.split]
      <4>2. g.kind = "sent" /\ g.of \in Tables
        BY <4>1
      <4>3. ui' = [ui EXCEPT !.generate = g]
        BY <3>3 DEF RequestFeatures
      <4> HIDE DEF g
      <4> QED
        BY <1>0, <2>1, <4>2, <4>3 DEF InFlight
    <3>4. CASE StartTraining
      <4> DEFINE c == [kind |-> "train", of |-> ResolvedDataset, set |-> ui.set]
      <4>1. c.kind = "train" /\ ui' = [ui EXCEPT !.create = c]
        BY <3>4 DEF StartTraining
      <4> HIDE DEF c
      <4> QED
        BY <1>0, <2>1, <4>1 DEF InFlight
    <3> QED
      BY <1>3, <3>1, <3>2, <3>3, <3>4
  <2> QED
    BY <1>0, <2>1, <2>2 DEF PageTyped, StoredTyped
<1>4. CASE SplitAnswered
  <2> DEFINE x == [raw |-> ui.create.raw, there |-> TRUE]
             n == Len(stored.splits) + 1
             w == Append(stored.splits, x)
  <2>1. x \in SplitRows /\ n <= MaxSplitJobs
    BY <1>0, <1>4 DEF SplitAnswered, InFlight, SplitRows
  <2>2. w \in Seq(SplitRows) /\ Len(w) = n
    BY <1>0, <2>1
  <2>3. stored' = [stored EXCEPT !.splits = w] /\ ui' = [ui EXCEPT !.create = NothingSent, !.split = n, !.moved = Moved]
    BY <1>4 DEF SplitAnswered
  <2> HIDE DEF w
  <2>4. stored' = [splits |-> w, sets |-> stored.sets]
    BY <1>0, <2>3
  <2>5. stored'.splits = w /\ stored'.sets = stored.sets
    BY <2>4
  <2>6. /\ ui'.step = ui.step /\ ui'.dataset = ui.dataset /\ ui'.visit = ui.visit
        /\ ui'.split = n /\ ui'.set = ui.set /\ ui'.listed = ui.listed
        /\ ui'.create.kind = "idle" /\ ui'.generate = ui.generate
    BY <1>0, <2>3 DEF NothingSent
  <2> QED
    BY <1>0, <2>1, <2>2, <2>4, <2>5, <2>6 DEF PageTyped, StoredTyped, InFlight, OnPage
<1>5. ASSUME NEW s \in ui.listed, stored' = [stored EXCEPT !.splits[s].there = FALSE],
             ui' = ui \/ ui' = [ui EXCEPT !.split = NoJobRow, !.moved = Moved]
      PROVE PageTyped'
  <2> DEFINE x == [stored.splits[s] EXCEPT !.there = FALSE]
             w == [stored.splits EXCEPT ![s] = x]
  <2>1. x \in SplitRows
    <3>1. stored.splits[s] \in SplitRows
      BY <1>0 DEF OnPage
    <3> QED
      BY <3>1 DEF SplitRows
  <2>2. stored' = [stored EXCEPT !.splits = w]
    BY <1>5
  <2> HIDE DEF x
  <2>3. w \in Seq(SplitRows) /\ Len(w) = Len(stored.splits)
    BY <1>0, <2>1, PlaceWritten
  <2> HIDE DEF w
  <2>4. stored' = [splits |-> w, sets |-> stored.sets]
    BY <1>0, <2>2
  <2>5. stored'.splits = w /\ stored'.sets = stored.sets
    BY <2>4
  <2>6. /\ ui'.step = ui.step /\ ui'.dataset = ui.dataset /\ ui'.visit = ui.visit
        /\ ui'.split \in {ui.split, 0} /\ ui'.set = ui.set /\ ui'.listed = ui.listed
        /\ ui'.create = ui.create /\ ui'.generate = ui.generate
    BY <1>0, <1>5 DEF NoJobRow
  <2> QED
    BY <1>0, <2>3, <2>4, <2>5, <2>6 DEF PageTyped, StoredTyped, InFlight, OnPage
<1>6. ASSUME NEW i \in PageSets, NEW x, stored.sets[i] \in SetRows => x \in SetRows,
             stored' = [stored EXCEPT !.sets = [stored.sets EXCEPT ![i] = x]],
             ui' = ui \/ ui' = [ui EXCEPT !.set = NoSetRow]
      PROVE PageTyped'
  <2> DEFINE w == [stored.sets EXCEPT ![i] = x]
  <2>1. x \in SetRows
    BY <1>0, <1>6 DEF PageSets
  <2>3. w \in Seq(SetRows) /\ Len(w) = Len(stored.sets)
    BY <1>0, <2>1, PlaceWritten
  <2>2. stored' = [stored EXCEPT !.sets = w]
    BY <1>6
  <2> HIDE DEF w
  <2>4. stored' = [splits |-> stored.splits, sets |-> w]
    BY <1>0, <2>2
  <2>5. stored'.splits = stored.splits /\ stored'.sets = w
    BY <2>4
  <2>6. /\ ui'.step = ui.step /\ ui'.dataset = ui.dataset /\ ui'.visit = ui.visit
        /\ ui'.split = ui.split /\ ui'.set \in {ui.set, 0} /\ ui'.listed = ui.listed
        /\ ui'.create = ui.create /\ ui'.generate = ui.generate
    BY <1>0, <1>6 DEF NoSetRow
  <2> QED
    BY <1>0, <2>3, <2>4, <2>5, <2>6 DEF PageTyped, StoredTyped, InFlight, OnPage
<1>7. CASE DeleteSplit
  BY <1>5, <1>7 DEF DeleteSplit
<1>8. CASE DeleteSet
  <2>1. PICK i \in PageSets, u \in {ui, [ui EXCEPT !.set = NoSetRow]} :
          stored' = [stored EXCEPT !.sets[i].there = FALSE] /\ ui' = u
    BY <1>8 DEF DeleteSet
  <2> DEFINE x == [stored.sets[i] EXCEPT !.there = FALSE]
  <2>2. stored' = [stored EXCEPT !.sets = [stored.sets EXCEPT ![i] = x]]
    BY <2>1
  <2>3. stored.sets[i] \in SetRows => x \in SetRows
    BY DEF SetRows
  <2> HIDE DEF x
  <2> QED
    BY <1>6, <2>1, <2>2, <2>3
<1>9. CASE SetComputed
  <2>1. PICK i \in PageSets, s \in {"completed", "failed"} :
          stored' = [stored EXCEPT !.sets[i].status = s] /\ ui' = ui
    BY <1>9 DEF SetComputed
  <2> DEFINE x == [stored.sets[i] EXCEPT !.status = s]
  <2>2. stored' = [stored EXCEPT !.sets = [stored.sets EXCEPT ![i] = x]]
    BY <2>1
  <2>3. stored.sets[i] \in SetRows => x \in SetRows
    BY <2>1 DEF SetRows
  <2> HIDE DEF x
  <2> QED
    BY <1>6, <2>1, <2>2, <2>3
<1>10. ASSUME NEW i, ui' = [ui EXCEPT !.generate = [kind |-> "done", id |-> i, under |-> @.under]]
       PROVE /\ ui'.step = ui.step /\ ui'.dataset = ui.dataset /\ ui'.visit = ui.visit
             /\ ui'.split = ui.split /\ ui'.set = ui.set /\ ui'.listed = ui.listed
             /\ ui'.create = ui.create /\ ui'.generate.kind = "done" /\ ui'.generate.id = i
  <2> DEFINE g == [kind |-> "done", id |-> i, under |-> ui.generate.under]
  <2>1. g.kind = "done" /\ g.id = i /\ ui' = [ui EXCEPT !.generate = g]
    BY <1>10
  <2> HIDE DEF g
  <2> QED
    BY <1>0, <2>1
<1>11. CASE FeaturesAccepted
  <2>1. CASE \E i \in PageSets :
               ui' = [ui EXCEPT !.generate = [kind |-> "done", id |-> i, under |-> @.under]] /\ stored' = stored
    BY <1>0, <1>10, <2>1 DEF PageTyped, StoredTyped, InFlight, OnPage, PageSets
  <2>2. CASE \E new : /\ new = [of |-> ui.generate.of, status |-> "computing", there |-> TRUE]
                      /\ stored' = [stored EXCEPT !.sets = Append(@, new)]
                      /\ ui' = [ui EXCEPT !.generate = [kind |-> "done", id |-> Len(stored.sets) + 1,
                                                        under |-> @.under]]
    <3>1. PICK new : /\ new = [of |-> ui.generate.of, status |-> "computing", there |-> TRUE]
                     /\ stored' = [stored EXCEPT !.sets = Append(@, new)]
                     /\ ui' = [ui EXCEPT !.generate = [kind |-> "done", id |-> Len(stored.sets) + 1,
                                                       under |-> @.under]]
      BY <2>2
    <3> DEFINE w == Append(stored.sets, new)
    <3>2. new \in SetRows
      BY <1>0, <1>11, <3>1 DEF FeaturesAccepted, InFlight, SetRows
    <3>3. w \in Seq(SetRows) /\ Len(w) = Len(stored.sets) + 1
      BY <1>0, <3>2
    <3>4. stored' = [stored EXCEPT !.sets = w]
      BY <3>1
    <3> HIDE DEF w
    <3>5. stored' = [splits |-> stored.splits, sets |-> w]
      BY <1>0, <3>4
    <3>6. stored'.splits = stored.splits /\ stored'.sets = w
      BY <3>5
    <3>7. /\ ui'.step = ui.step /\ ui'.dataset = ui.dataset /\ ui'.visit = ui.visit
          /\ ui'.split = ui.split /\ ui'.set = ui.set /\ ui'.listed = ui.listed
          /\ ui'.create = ui.create /\ ui'.generate.kind = "done" /\ ui'.generate.id = Len(stored.sets) + 1
      BY <1>10, <3>1
    <3> QED
      BY <1>0, <3>3, <3>5, <3>6, <3>7 DEF PageTyped, StoredTyped, InFlight, OnPage
  <2> QED
    BY <1>11, <2>1, <2>2 DEF FeaturesAccepted
<1>12. CASE FeaturesAnswered
  <2>1. ui.generate.id \in 1..Len(stored.sets)
    BY <1>0, <1>12 DEF FeaturesAnswered, InFlight
  <2> DEFINE m == IF ui.generate.under = ui.split THEN "none" ELSE "late"
  <2>2. ui' = [ui EXCEPT !.generate = NothingSent, !.set = ui.generate.id, !.under = ui.generate.under, !.moved = m]
        /\ stored' = stored
    BY <1>12 DEF FeaturesAnswered
  <2> HIDE DEF m
  <2>3. /\ ui'.step = ui.step /\ ui'.dataset = ui.dataset /\ ui'.visit = ui.visit
        /\ ui'.split = ui.split /\ ui'.set = ui.generate.id /\ ui'.listed = ui.listed
        /\ ui'.create = ui.create /\ ui'.generate.kind = "idle"
    BY <1>0, <2>2 DEF NothingSent
  <2> QED
    BY <1>0, <2>1, <2>2, <2>3 DEF PageTyped, StoredTyped, InFlight, OnPage
<1>13. CASE PickSet
  <2>1. PICK i \in PageSets : ui' = [ui EXCEPT !.set = i, !.under = ui.split, !.moved = "none"] /\ stored' = stored
    BY <1>13 DEF PickSet
  <2>2. /\ ui'.step = ui.step /\ ui'.dataset = ui.dataset /\ ui'.visit = ui.visit
        /\ ui'.split = ui.split /\ ui'.set = i /\ ui'.listed = ui.listed
        /\ ui'.create = ui.create /\ ui'.generate = ui.generate
    BY <1>0, <2>1
  <2>3. i \in 1..Len(stored.sets)
    BY DEF PageSets
  <2> QED
    BY <1>0, <2>1, <2>2, <2>3 DEF PageTyped, StoredTyped, InFlight, OnPage
<1>14. CASE TrainingAccepted \/ ReloadPage
  <2>1. /\ stored' = stored /\ ui'.step \in {1, ui.step} /\ ui'.dataset \in {NoRaw, ui.dataset}
        /\ ui'.visit = ui.visit + 1 /\ ui.visit < MaxVisits
        /\ ui'.split \in {0, ui.split} /\ ui'.set \in {0, ui.set} /\ ui'.listed = {}
        /\ ui'.create.kind = "idle" /\ ui'.generate.kind = "idle"
    <3>1. CASE TrainingAccepted
      BY <3>1 DEF TrainingAccepted, Opened, NothingSent, NoSetRow, NoJobRow
    <3>2. CASE ReloadPage
      <4>1. ui' = [step |-> ui.step, dataset |-> ui.dataset, split |-> ui.split, set |-> ui.set,
                   visit |-> ui.visit + 1, listed |-> {}, create |-> NothingSent,
                   generate |-> NothingSent, under |-> ui.under, moved |-> ui.moved]
        BY <3>2 DEF ReloadPage, Opened
      <4>2. /\ ui'.step = ui.step /\ ui'.dataset = ui.dataset /\ ui'.visit = ui.visit + 1
            /\ ui'.split = ui.split /\ ui'.set = ui.set /\ ui'.listed = {}
            /\ ui'.create.kind = "idle" /\ ui'.generate.kind = "idle"
        BY <4>1 DEF NothingSent
      <4>3. stored' = stored /\ ui.visit < MaxVisits
        BY <3>2 DEF ReloadPage
      <4> QED
        BY <4>2, <4>3
    <3> QED
      BY <1>14, <3>1, <3>2
  <2> QED
    BY <1>0, <2>1 DEF PageTyped, StoredTyped, InFlight, OnPage, Steps
<1> QED
  BY <1>1, <1>2, <1>3, <1>4, <1>7, <1>8, <1>9, <1>11, <1>12, <1>13, <1>14 DEF PageNext

-----------------------------------------------------------------------------
(* Blobs.                                                                  *)
\* The rows of the registry are among the saves there were.
BlobTyped == kept.saves \in 0..MaxSaves /\ kept.switches \in 0..MaxSwitches /\ Len(kept.models) <= kept.saves

LEMMA BlobTypedInit == BlobInit => BlobTyped
<1> SUFFICES ASSUME BlobInit PROVE BlobTyped
  OBVIOUS
<1>1. kept.saves = 0 /\ kept.switches = 0 /\ kept.models = <<>>
  BY Zenon DEF BlobInit, EmptyStores
<1> QED
  BY <1>1, BlobAssumption DEF BlobTyped

LEMMA BlobTypes == KeptInv(kept) /\ BlobTyped => BlobTypeOK
BY DEF KeptInv, KeptShape, BlobTyped, BlobTypeOK

LEMMA BlobTypeStep == KeptInv(kept) /\ BlobTyped /\ [BlobNext]_blobVars => BlobTyped'
<1> SUFFICES ASSUME KeptInv(kept), BlobTyped, [BlobNext]_blobVars PROVE BlobTyped'
  OBVIOUS
<1>0. /\ KeptShape(kept) /\ kept.saves \in 0..MaxSaves /\ kept.switches \in 0..MaxSwitches
      /\ Len(kept.models) <= kept.saves /\ Len(kept.models) \in Nat /\ MaxSaves \in Nat /\ MaxSwitches \in Nat
  BY BlobAssumption DEF KeptInv, KeptShape, BlobTyped
<1>1. CASE UNCHANGED blobVars
  <2>1. kept' = kept
    BY <1>1 DEF blobVars
  <2> QED
    BY <2>1 DEF BlobTyped
\* One thing is saved, and at most one row with it.
<1> DEFINE Saved == \E b, dk, nm, md, t :
              /\ md = kept.models \/ \E row : md = Append(kept.models, row)
              /\ kept' = [cloud |-> kept.cloud, blobs |-> b, disk |-> dk, named |-> nm, models |-> md, tries |-> t,
                          gone |-> kept.gone, stranded |-> kept.stranded, saves |-> kept.saves + 1,
                          switches |-> kept.switches]
<1>2. ASSUME MaySave, Saved PROVE BlobTyped'
  <2>1. PICK b, dk, nm, md, t :
              /\ md = kept.models \/ \E row : md = Append(kept.models, row)
              /\ kept' = [cloud |-> kept.cloud, blobs |-> b, disk |-> dk, named |-> nm, models |-> md, tries |-> t,
                          gone |-> kept.gone, stranded |-> kept.stranded, saves |-> kept.saves + 1,
                          switches |-> kept.switches]
    BY <1>2, Zenon
  <2>2. kept'.models = md /\ kept'.saves = kept.saves + 1 /\ kept'.switches = kept.switches
    BY <2>1, KeptFields
  <2>3. Len(md) <= Len(kept.models) + 1
    <3>1. \E some : kept.models \in Seq(some)
      BY <1>0 DEF KeptShape
    <3> QED
      BY <2>1, <3>1, <1>0
  <2>4. Len(md) \in Nat
    <3>1. \E some : kept.models \in Seq(some)
      BY <1>0 DEF KeptShape
    <3> QED
      BY <2>1, <3>1, <1>0
  <2> QED
    BY <1>0, <1>2, <2>2, <2>3, <2>4 DEF BlobTyped, MaySave
<1>3. ASSUME NEW id \in RawIds \cup MergeIds, SaveDataset(id) PROVE BlobTyped'
  <2> DEFINE d == <<id>>
  <2>1. PICK cloud \in BOOLEAN : kept' = KeepDataset(d, cloud)
    BY <1>3 DEF SaveDataset
  <2>2. CASE cloud
    <3>1. kept' = [kept EXCEPT !.blobs = Put(@, CloudFiles(d)), !.named = Put(@, File(d, CloudPath(d))), !.saves = @ + 1]
      BY <2>1, <2>2, Zenon DEF KeepDataset
    <3>2. kept' = [cloud |-> kept.cloud, blobs |-> Put(kept.blobs, CloudFiles(d)), disk |-> kept.disk,
                 named |-> Put(kept.named, File(d, CloudPath(d))), models |-> kept.models, tries |-> kept.tries,
                 gone |-> kept.gone, stranded |-> kept.stranded, saves |-> kept.saves + 1, switches |-> kept.switches]
      BY <1>0, <3>1, Zenon DEF KeptShape
    <3>3. Saved
      BY <3>2, Zenon
    <3> QED
      BY <1>2, <1>3, <3>3 DEF SaveDataset
  <2>3. CASE ~cloud
    <3> DEFINE more == File(LocalPath(d), <<d, "data">>)
    <3>1. kept' = [kept EXCEPT !.disk = Put(@, more), !.named = Put(@, File(d, LocalPath(d))), !.saves = @ + 1]
      BY <2>1, <2>3, Zenon DEF KeepDataset
    <3>2. kept' = [cloud |-> kept.cloud, blobs |-> kept.blobs, disk |-> Put(kept.disk, more),
                 named |-> Put(kept.named, File(d, LocalPath(d))), models |-> kept.models, tries |-> kept.tries,
                 gone |-> kept.gone, stranded |-> kept.stranded, saves |-> kept.saves + 1, switches |-> kept.switches]
      BY <1>0, <3>1, Zenon DEF KeptShape
    <3>3. Saved
      BY <3>2, Zenon
    <3> QED
      BY <1>2, <1>3, <3>3 DEF SaveDataset
  <2> QED
    BY <2>2, <2>3
<1>4. ASSUME NEW s \in SplitIds, SaveSplit(s) PROVE BlobTyped'
  <2> DEFINE path(h) == IF kept.cloud THEN CloudPath(<<s, h>>) ELSE LocalPath(<<s, h>>)
             laid(h) == File(path(h), <<<<s, h>>, "data">>)
             both(store) == Put(Put(store, laid("train")), laid("test"))
  <2>1. kept' = [kept EXCEPT
          !.blobs = IF kept.cloud THEN both(@) ELSE @,
          !.disk = IF kept.cloud THEN @ ELSE both(@),
          !.named = Put(Put(@, File(<<s, "train">>, path("train"))), File(<<s, "test">>, path("test"))),
          !.saves = @ + 1]
    BY <1>4, Zenon DEF SaveSplit
  <2>2. kept' = [cloud |-> kept.cloud,
               blobs |-> IF kept.cloud THEN both(kept.blobs) ELSE kept.blobs,
               disk |-> IF kept.cloud THEN kept.disk ELSE both(kept.disk),
               named |-> Put(Put(kept.named, File(<<s, "train">>, path("train"))), File(<<s, "test">>, path("test"))),
               models |-> kept.models, tries |-> kept.tries, gone |-> kept.gone,
               stranded |-> kept.stranded, saves |-> kept.saves + 1, switches |-> kept.switches]
    BY <1>0, <2>1, Zenon DEF KeptShape
  <2> HIDE DEF path, laid, both
  <2>3. Saved
    BY <2>2, Zenon
  <2> QED
    BY <1>2, <1>4, <2>3 DEF SaveSplit
<1>5. ASSUME NEW f \in FeatureIds, NEW d \in StoredDatasets, SaveFeatures(f, d) PROVE BlobTyped'
  <2> DEFINE local == kept.named[d] \in DOMAIN kept.disk
             path == IF local THEN FeatureLocalPath(f, d) ELSE FeatureCloudPath(f, d)
             laid(p) == [q \in {p, Front(p) \o <<"transformer">>} |-> <<<<f>>, Last(q)>>]
  <2>1. kept' = [kept EXCEPT
             !.disk = IF local THEN Put(@, laid(path)) ELSE @,
             !.blobs = IF local THEN @ ELSE Put(@, laid(FeatureContainer(path))),
             !.named = Put(@, File(<<f>>, path)), !.saves = @ + 1]
    BY <1>5, Zenon DEF SaveFeatures
  <2>2. kept' = [cloud |-> kept.cloud,
               blobs |-> IF local THEN kept.blobs ELSE Put(kept.blobs, laid(FeatureContainer(path))),
               disk |-> IF local THEN Put(kept.disk, laid(path)) ELSE kept.disk,
               named |-> Put(kept.named, File(<<f>>, path)),
               models |-> kept.models, tries |-> kept.tries, gone |-> kept.gone,
               stranded |-> kept.stranded, saves |-> kept.saves + 1, switches |-> kept.switches]
    BY <1>0, <2>1, Zenon DEF KeptShape
  <2> HIDE DEF path, laid, local
  <2>3. Saved
    BY <2>2, Zenon
  <2> QED
    BY <1>2, <1>5, <2>3 DEF SaveFeatures
<1>6. ASSUME NEW j \in ModelJobs, SaveModel(j) PROVE BlobTyped'
  <2>1. PICK left \in SUBSET {"onnx", "calibrator"}, upto \in 0..Len(ModelParts) :
         LET parts == ToSet(SubSeq(ModelParts, 1, upto)) \ left
             try == kept.tries[j] + 1
             laid == [p \in {ModelPath(j, kept.cloud, n) : n \in parts} |-> <<<<j>>, Last(p), try>>]
             row == [job |-> j, try |-> try, cloud |-> kept.cloud, parts |-> parts,
                     path |-> ModelPath(j, kept.cloud, "model")]
         IN kept' = [kept EXCEPT
              !.blobs = IF kept.cloud THEN Put(@, laid) ELSE @,
              !.disk = IF kept.cloud THEN @ ELSE Put(@, laid),
              !.models = IF upto = Len(ModelParts) THEN Append(@, row) ELSE @,
              !.tries[j] = try, !.saves = @ + 1]
    BY <1>6, Zenon DEF SaveModel
  <2> DEFINE parts == ToSet(SubSeq(ModelParts, 1, upto)) \ left
             try == kept.tries[j] + 1
             laid == [p \in {ModelPath(j, kept.cloud, n) : n \in parts} |-> <<<<j>>, Last(p), try>>]
             row == [job |-> j, try |-> try, cloud |-> kept.cloud, parts |-> parts,
                     path |-> ModelPath(j, kept.cloud, "model")]
             blobs == IF kept.cloud THEN Put(kept.blobs, laid) ELSE kept.blobs
             disk == IF kept.cloud THEN kept.disk ELSE Put(kept.disk, laid)
             models == IF upto = Len(ModelParts) THEN Append(kept.models, row) ELSE kept.models
             tries == [kept.tries EXCEPT ![j] = kept.tries[j] + 1]
  <2>2. kept' = [cloud |-> kept.cloud, blobs |-> blobs, disk |-> disk, named |-> kept.named, models |-> models,
                 tries |-> tries, gone |-> kept.gone, stranded |-> kept.stranded, saves |-> kept.saves + 1,
                 switches |-> kept.switches]
    BY <1>0, <2>1, Zenon DEF KeptShape
  <2>3. models = kept.models \/ models = Append(kept.models, row)
    BY Zenon
  <2> HIDE DEF parts, try, laid, row, blobs, disk, models, tries
  <2>4. Saved
    BY <2>2, <2>3, Zenon
  <2> QED
    BY <1>2, <1>6, <2>4 DEF SaveModel
<1>7. ASSUME NEW d \in StoredDatasets, RemoveDataset(d) PROVE BlobTyped'
  <2> DEFINE path == kept.named[d]
             local == path[1] = "storage"
             fated == Doomed(kept.blobs, path)
             disk == IF local /\ path \in DOMAIN kept.disk THEN Without(kept.disk, Under(kept.disk, Front(path)))
                     ELSE kept.disk
             blobs == IF local \/ ~kept.cloud THEN kept.blobs ELSE Without(kept.blobs, fated)
             named == Without(kept.named, {d})
             left == IF local \/ kept.cloud THEN kept.stranded ELSE kept.stranded \cup {d}
  <2>1. kept' = [kept EXCEPT
            !.disk = IF local /\ path \in DOMAIN @ THEN Without(@, Under(@, Front(path))) ELSE @,
            !.blobs = IF local \/ ~kept.cloud THEN @ ELSE Without(@, fated),
            !.named = Without(@, {d}), !.gone = @ \cup {d},
            !.stranded = IF local \/ kept.cloud THEN @ ELSE @ \cup {d}]
    BY <1>7, Zenon DEF RemoveDataset, Doomed
  <2>2. kept' = [cloud |-> kept.cloud, blobs |-> blobs, disk |-> disk, named |-> named, models |-> kept.models,
                 tries |-> kept.tries, gone |-> kept.gone \cup {d}, stranded |-> left, saves |-> kept.saves,
                 switches |-> kept.switches]
    BY <1>0, <2>1, Zenon DEF KeptShape
  <2> HIDE DEF path, local, fated, disk, blobs, named, left
  <2>3. kept'.models = kept.models /\ kept'.saves = kept.saves /\ kept'.switches = kept.switches
    BY <2>2, KeptFields
  <2> QED
    BY <1>0, <2>3 DEF BlobTyped
<1>8. ASSUME NEW n \in 1..MaxSaves, RemoveModel(n) PROVE BlobTyped'
  <2> DEFINE row == kept.models[n]
             lost == {Front(row.path) \o <<p>> : p \in row.parts \cap {"model", "onnx"}}
             blobs == IF kept.cloud THEN Without(kept.blobs, lost) ELSE kept.blobs
             models == RemoveAt(kept.models, n)
  <2>1. kept' = [kept EXCEPT !.blobs = IF kept.cloud THEN Without(@, lost) ELSE @,
                             !.models = RemoveAt(@, n), !.gone = @ \cup {<<row.job>>}]
    BY <1>8, Zenon DEF RemoveModel
  <2>2. kept' = [cloud |-> kept.cloud, blobs |-> blobs, disk |-> kept.disk, named |-> kept.named, models |-> models,
                 tries |-> kept.tries, gone |-> kept.gone \cup {<<row.job>>}, stranded |-> kept.stranded,
                 saves |-> kept.saves, switches |-> kept.switches]
    BY <1>0, <2>1, Zenon DEF KeptShape
  <2>3. models = RemoveAt(kept.models, n)
    OBVIOUS
  <2> HIDE DEF row, lost, blobs, models
  <2>4. kept'.models = models /\ kept'.saves = kept.saves /\ kept'.switches = kept.switches
    BY <2>2, KeptFields
  <2>5. Len(models) = Len(kept.models) - 1
    <3>1. PICK some : kept.models \in Seq(some)
      BY <1>0 DEF KeptShape
    <3>2. n \in DOMAIN kept.models
      BY <1>8 DEF RemoveModel
    <3> QED
      BY <2>3, <3>1, <3>2, RemovedRows
  <2>6. Len(models) \in Nat
    <3>1. PICK some : kept.models \in Seq(some)
      BY <1>0 DEF KeptShape
    <3>2. n \in DOMAIN kept.models
      BY <1>8 DEF RemoveModel
    <3>3. models \in Seq(some)
      BY <2>3, <3>1, <3>2, RemovedRows
    <3> QED
      BY <3>3
  <2> QED
    BY <1>0, <2>4, <2>5, <2>6 DEF BlobTyped
<1>9. CASE Reconfigure
  <2>1. kept' = [kept EXCEPT !.cloud = ~@, !.switches = @ + 1] /\ kept.switches < MaxSwitches
    BY <1>9 DEF Reconfigure
  <2>2. kept'.models = kept.models /\ kept'.saves = kept.saves /\ kept'.switches = kept.switches + 1
    BY <1>0, <2>1 DEF KeptShape
  <2> QED
    BY <1>0, <2>1, <2>2 DEF BlobTyped
<1> QED
  BY <1>1, <1>3, <1>4, <1>5, <1>6, <1>7, <1>8, <1>9, Zenon DEF BlobNext

-----------------------------------------------------------------------------
(* Feature engineering: no two roles of a table are one column.            *)
\* Who may hold a role: one mapped to it, or, if nobody is, a candidate not taken.
LEMMA HolderParts ==
  ASSUME NEW mapping \in Mappings, NEW role, NEW taken, NEW first \in SUBSET Columns, NEW second \in SUBSET Columns,
         NEW c \in Holders(mapping, role, taken, first, second)
  PROVE \/ c \in DOMAIN mapping /\ mapping[c] = role
        \/ (c = NoColumn \/ c \in Columns \ taken) /\ \A d \in DOMAIN mapping : mapping[d] # role
BY DEF Holders, MappedTo

LEMMA MappingParts ==
  ASSUME NEW mapping \in Mappings
  PROVE DOMAIN mapping \subseteq Columns /\ \A c \in DOMAIN mapping : mapping[c] \in MappedRoles
<1>1. PICK S \in SUBSET Mappable : mapping \in [S -> MappedRoles]
  BY DEF Mappings
<1> QED
  BY <1>1, FeatureAssumption

\* What the roles of a table are.
RoleHolders(mapping, t, s, a, u) ==
  /\ t \in Holders(mapping, "target", DOMAIN mapping, TargetNamed, TargetLike)
  /\ s \in Holders(mapping, "timestamp", DOMAIN mapping \cup {t}, Dated, TimeNamed)
  /\ a \in Holders(mapping, "amount", DOMAIN mapping \cup {t, s}, AmountNamed \cap Numeric, {})
  /\ u \in Holders(mapping, "user_id", DOMAIN mapping \cup {t, s, a}, UserNamed, {})

LEMMA DetectedParts ==
  ASSUME NEW mapping, NEW roles \in Detected(mapping)
  PROVE \E t, s, a, u : /\ RoleHolders(mapping, t, s, a, u)
                        /\ roles = RolesOf(t, s, a, u, Columns \ (DOMAIN mapping \cup {t, s, a, u}))
<1> DEFINE mapped == DOMAIN mapping
           H1 == Holders(mapping, "target", mapped, TargetNamed, TargetLike)
           H2(t) == Holders(mapping, "timestamp", mapped \cup {t}, Dated, TimeNamed)
           H3(t, s) == Holders(mapping, "amount", mapped \cup {t, s}, AmountNamed \cap Numeric, {})
           H4(t, s, a) == Holders(mapping, "user_id", mapped \cup {t, s, a}, UserNamed, {})
           R(t, s, a, u) == RolesOf(t, s, a, u, Columns \ (mapped \cup {t, s, a, u}))
<1>1. roles \in UNION {UNION {UNION {{R(t, s, a, u) : u \in H4(t, s, a)} : a \in H3(t, s)} : s \in H2(t)} : t \in H1}
  BY Zenon DEF Detected
<1> HIDE DEF H1, H2, H3, H4, R
<1>2. PICK t \in H1 : roles \in UNION {UNION {{R(t, s, a, u) : u \in H4(t, s, a)} : a \in H3(t, s)} : s \in H2(t)}
  BY <1>1
<1>3. PICK s \in H2(t) : roles \in UNION {{R(t, s, a, u) : u \in H4(t, s, a)} : a \in H3(t, s)}
  BY <1>2
<1>4. PICK a \in H3(t, s) : roles \in {R(t, s, a, u) : u \in H4(t, s, a)}
  BY <1>3
<1>5. PICK u \in H4(t, s, a) : roles = R(t, s, a, u)
  BY <1>4
<1>6. RoleHolders(mapping, t, s, a, u)
  BY <1>2, <1>3, <1>4, <1>5, Zenon DEF RoleHolders, H1, H2, H3, H4
<1> QED
  BY <1>5, <1>6, Zenon DEF R

\* No two of the four roles have one column.
LEMMA HoldersApart ==
  ASSUME NEW mapping \in Mappings, NEW t, NEW s, NEW a, NEW u, RoleHolders(mapping, t, s, a, u)
  PROVE /\ {t, s, a, u} \subseteq Columns \cup {NoColumn}
        /\ \A c \in Columns :
             /\ t = c => s # c /\ a # c /\ u # c
             /\ s = c => a # c /\ u # c
             /\ a = c => u # c
        /\ \A c \in DOMAIN mapping : mapping[c] \in MappedRoles =>
             \E d \in {t, s, a, u} : d \in DOMAIN mapping /\ mapping[d] = mapping[c]
<1>0. /\ TargetNamed \in SUBSET Columns /\ TargetLike \in SUBSET Columns /\ Dated \in SUBSET Columns
      /\ TimeNamed \in SUBSET Columns /\ UserNamed \in SUBSET Columns /\ {} \in SUBSET Columns
      /\ AmountNamed \cap Numeric \in SUBSET Columns
  BY FeatureAssumption
<1> DEFINE Held(c, role, taken) ==
             \/ c \in DOMAIN mapping /\ mapping[c] = role
             \/ (c = NoColumn \/ c \in Columns \ taken) /\ \A d \in DOMAIN mapping : mapping[d] # role
<1>1. Held(t, "target", DOMAIN mapping)
  BY <1>0, HolderParts DEF RoleHolders
<1>2. Held(s, "timestamp", DOMAIN mapping \cup {t})
  BY <1>0, HolderParts DEF RoleHolders
<1>3. Held(a, "amount", DOMAIN mapping \cup {t, s})
  BY <1>0, HolderParts DEF RoleHolders
<1>4. Held(u, "user_id", DOMAIN mapping \cup {t, s, a})
  BY <1>0, HolderParts DEF RoleHolders
<1>5. DOMAIN mapping \subseteq Columns /\ NoColumn \notin Columns
  BY MappingParts, FeatureAssumption
<1>6. {t, s, a, u} \subseteq Columns \cup {NoColumn}
  BY <1>1, <1>2, <1>3, <1>4, <1>5
<1>7. ASSUME NEW c \in Columns
      PROVE /\ t = c => s # c /\ a # c /\ u # c
            /\ s = c => a # c /\ u # c
            /\ a = c => u # c
  BY <1>1, <1>2, <1>3, <1>4, <1>5
<1>8. ASSUME NEW c \in DOMAIN mapping, mapping[c] \in MappedRoles
      PROVE \E d \in {t, s, a, u} : d \in DOMAIN mapping /\ mapping[d] = mapping[c]
  <2>1. mapping[c] \in {"target", "timestamp", "amount", "user_id"}
    BY <1>8 DEF MappedRoles
  <2> QED
    BY <1>1, <1>2, <1>3, <1>4, <1>8, <2>1
<1> QED
  BY <1>6, <1>7, <1>8

\* Of the others, each plays one of three roles.
LEMMA RestPlaced ==
  ASSUME NEW t, NEW s, NEW a, NEW u, NEW rest, NEW r, r = RolesOf(t, s, a, u, rest)
  PROVE /\ r.target = t /\ r.time = s /\ r.amount = a /\ r.user = u
        /\ r.ids \cup r.cats \cup r.nums = rest
        /\ r.ids \cap r.cats = {} /\ r.ids \cap r.nums = {} /\ r.cats \cap r.nums = {}
BY DEF RolesOf

\* Among four columns of which at most one is c ...
LEMMA OneOfFour ==
  ASSUME NEW t, NEW s, NEW a, NEW u, NEW c,
         t = c => s # c /\ a # c /\ u # c, s = c => a # c /\ u # c, a = c => u # c
  PROVE Cardinality({k \in 1..4 : <<t, s, a, u>>[k] = c}) = IF c \in {t, s, a, u} THEN 1 ELSE 0
<1> DEFINE K == {k \in 1..4 : <<t, s, a, u>>[k] = c}
<1>1. 1..4 = {1, 2, 3, 4}
  OBVIOUS
<1>2. \A k : k \in K <=> \/ k = 1 /\ t = c
                         \/ k = 2 /\ s = c
                         \/ k = 3 /\ a = c
                         \/ k = 4 /\ u = c
  BY <1>1
<1>3. CASE c \in {t, s, a, u}
  <2>1. \E k : K = {k}
    <3> HIDE DEF K
    <3>1. CASE t = c
      <4>1. K = {1}
        BY <1>2, <3>1
      <4> QED
        BY <4>1
    <3>2. CASE s = c
      <4>1. K = {2}
        BY <1>2, <3>2
      <4> QED
        BY <4>1
    <3>3. CASE a = c
      <4>1. K = {3}
        BY <1>2, <3>3
      <4> QED
        BY <4>1
    <3>4. CASE u = c
      <4>1. K = {4}
        BY <1>2, <3>4
      <4> QED
        BY <4>1
    <3> QED
      BY <1>3, <3>1, <3>2, <3>3, <3>4
  <2> HIDE DEF K
  <2>2. Cardinality(K) = 1
    BY <2>1, FS_Singleton
  <2> QED
    BY <1>3, <2>2 DEF K
<1>4. CASE c \notin {t, s, a, u}
  <2>1. K = {}
    BY <1>2, <1>4
  <2> HIDE DEF K
  <2>2. Cardinality(K) = 0
    BY <2>1, FS_EmptySet
  <2> QED
    BY <1>4, <2>2 DEF K
<1> QED
  BY <1>3, <1>4

\* ... and among three sets that are apart.
LEMMA OneOfThree ==
  ASSUME NEW ids, NEW cats, NEW nums, NEW c,
         ids \cap cats = {}, ids \cap nums = {}, cats \cap nums = {}
  PROVE Cardinality({s \in {<<1, ids>>, <<2, cats>>, <<3, nums>>} : c \in s[2]})
          = IF c \in ids \cup cats \cup nums THEN 1 ELSE 0
<1> DEFINE K == {s \in {<<1, ids>>, <<2, cats>>, <<3, nums>>} : c \in s[2]}
<1>2. \A s : s \in K <=> \/ s = <<1, ids>> /\ c \in ids
                         \/ s = <<2, cats>> /\ c \in cats
                         \/ s = <<3, nums>> /\ c \in nums
  OBVIOUS
<1>3. CASE c \in ids \cup cats \cup nums
  <2>1. \E s : K = {s}
    <3> HIDE DEF K
    <3>1. CASE c \in ids
      <4>1. K = {<<1, ids>>}
        BY <1>2, <3>1
      <4> QED
        BY <4>1
    <3>2. CASE c \in cats
      <4>1. K = {<<2, cats>>}
        BY <1>2, <3>2
      <4> QED
        BY <4>1
    <3>3. CASE c \in nums
      <4>1. K = {<<3, nums>>}
        BY <1>2, <3>3
      <4> QED
        BY <4>1
    <3> QED
      BY <1>3, <3>1, <3>2, <3>3
  <2> HIDE DEF K
  <2>2. Cardinality(K) = 1
    BY <2>1, FS_Singleton
  <2> QED
    BY <1>3, <2>2 DEF K
<1>4. CASE c \notin ids \cup cats \cup nums
  <2>1. K = {}
    BY <1>2, <1>4
  <2> HIDE DEF K
  <2>2. Cardinality(K) = 0
    BY <2>1, FS_EmptySet
  <2> QED
    BY <1>4, <2>2 DEF K
<1> QED
  BY <1>3, <1>4

EngineerTyped ==
  /\ engineer.fitted \in BOOLEAN /\ (~engineer.fitted => training = <<>>)
  /\ engineer.fitted =>
       engineer.mapping \in Mappings /\ engineer.off \subseteq Switchable
       /\ engineer.roles \in Detected(engineer.mapping)

LEMMA EngineerTypedInit == EngineerInit => EngineerTyped
BY DEF EngineerInit, EngineerTyped, Unfitted

LEMMA EngineerTypes == EngineerInv /\ EngineerTyped => EngineerTypeOK
<1> SUFFICES ASSUME EngineerInv, EngineerTyped PROVE EngineerTypeOK
  OBVIOUS
<1>1. training \in Frames \cup {<<>>} /\ frame.rows \in Frames \cup {<<>>} /\ frame.has \subseteq Columns
  BY DEF EngineerInv, EngineerTyped
<1>2. ASSUME engineer.fitted
      PROVE /\ {engineer.roles.target, engineer.roles.time, engineer.roles.amount, engineer.roles.user}
                  \subseteq Columns \cup {NoColumn}
            /\ engineer.roles.ids \cup engineer.roles.cats \cup engineer.roles.nums \subseteq Columns
            /\ RolesPlaced
  <2> DEFINE mapping == engineer.mapping
             r == engineer.roles
  <2>1. mapping \in Mappings /\ r \in Detected(mapping)
    BY <1>2 DEF EngineerTyped
  <2> HIDE DEF mapping, r
  <2>2. PICK t, s, a, u : /\ RoleHolders(mapping, t, s, a, u)
                          /\ r = RolesOf(t, s, a, u, Columns \ (DOMAIN mapping \cup {t, s, a, u}))
    BY <2>1, DetectedParts
  <2>3. /\ {t, s, a, u} \subseteq Columns \cup {NoColumn}
        /\ \A c \in Columns :
             /\ t = c => s # c /\ a # c /\ u # c
             /\ s = c => a # c /\ u # c
             /\ a = c => u # c
        /\ \A c \in DOMAIN mapping : mapping[c] \in MappedRoles =>
             \E d \in {t, s, a, u} : d \in DOMAIN mapping /\ mapping[d] = mapping[c]
    BY <2>1, <2>2, HoldersApart
  <2> DEFINE rest == Columns \ (DOMAIN mapping \cup {t, s, a, u})
  <2>4. /\ r.target = t /\ r.time = s /\ r.amount = a /\ r.user = u
        /\ r.ids \cup r.cats \cup r.nums = rest
        /\ r.ids \cap r.cats = {} /\ r.ids \cap r.nums = {} /\ r.cats \cap r.nums = {}
    <3> HIDE DEF rest
    <3> QED
      BY <2>2, RestPlaced DEF rest
  <2>5. ASSUME NEW c \in Columns
        PROVE LET single == <<r.target, r.time, r.amount, r.user>>
                  count == Cardinality({k \in 1..4 : single[k] = c})
                           + Cardinality({x \in {<<1, r.ids>>, <<2, r.cats>>, <<3, r.nums>>} : c \in x[2]})
              IN \/ count = 1
                 \/ count = 0 /\ c \in DOMAIN mapping
                    /\ \E d \in DOMAIN mapping \ {c} : mapping[d] = mapping[c]
    <3> DEFINE four == Cardinality({k \in 1..4 : <<r.target, r.time, r.amount, r.user>>[k] = c})
               three == Cardinality({x \in {<<1, r.ids>>, <<2, r.cats>>, <<3, r.nums>>} : c \in x[2]})
    <3>1. four = IF c \in {t, s, a, u} THEN 1 ELSE 0
      <4>1. four = Cardinality({k \in 1..4 : <<t, s, a, u>>[k] = c})
        BY <2>4
      <4> HIDE DEF four
      <4> QED
        BY <2>3, <4>1, OneOfFour
    <3>2. three = IF c \in rest THEN 1 ELSE 0
      BY <2>4, OneOfThree, SMTT(20)
    <3> HIDE DEF four, three
    <3>3. CASE c \in {t, s, a, u}
      <4>1. four + three = 1
        BY <3>1, <3>2, <3>3
      <4> QED
        BY <4>1, Zenon DEF four, three
    <3>4. CASE c \in rest
      <4>1. four + three = 1
        BY <3>1, <3>2, <3>4
      <4> QED
        BY <4>1, Zenon DEF four, three
    <3>5. CASE c \notin {t, s, a, u} /\ c \notin rest
      <4>1. four + three = 0 /\ c \in DOMAIN mapping
        BY <3>1, <3>2, <3>5
      <4>2. \E d \in DOMAIN mapping \ {c} : mapping[d] = mapping[c]
        BY <2>1, <2>3, <3>5, <4>1, MappingParts
      <4> QED
        BY <4>1, <4>2, Zenon DEF four, three
    <3> QED
      BY <3>3, <3>4, <3>5
  <2>6. RolesPlaced
    BY <2>5, Zenon DEF RolesPlaced, mapping, r
  <2> QED
    BY <2>3, <2>4, <2>6 DEF r
<1>3. ~engineer.fitted => RolesPlaced
  BY Zenon DEF RolesPlaced
<1>4. engineer.fitted => engineer.mapping \in Mappings /\ engineer.off \subseteq Switchable
  BY DEF EngineerTyped
<1>5. engineer.fitted \in BOOLEAN
  BY DEF EngineerTyped
<1> QED
  BY <1>1, <1>2, <1>3, <1>4, <1>5, Zenon DEF EngineerTypeOK

LEMMA EngineerTypeStep == EngineerInv /\ EngineerTyped /\ [EngineerNext]_engineerVars => EngineerTyped'
<1> SUFFICES ASSUME EngineerTyped, [EngineerNext]_engineerVars PROVE EngineerTyped'
  OBVIOUS
<1>1. CASE UNCHANGED engineerVars
  BY <1>1 DEF engineerVars, EngineerTyped
<1>2. CASE TransformFrame
  BY <1>2 DEF TransformFrame, EngineerTyped
<1>3. CASE FitEngineer
  <2>1. PICK table \in Frames, mapping \in Mappings, off \in SUBSET Switchable :
          \E roles \in Detected(mapping), rated \in BOOLEAN :
           /\ rated => roles.target # NoColumn /\ roles.cats # {}
           /\ LET e == [fitted |-> TRUE, mapping |-> mapping, off |-> off, roles |-> roles,
                        learned |-> Learned(table, roles, rated), names |-> {}]
                  all == [rows |-> table, has |-> Columns]
              IN /\ engineer' = [e EXCEPT !.names = Added(e, all)]
                 /\ training' = table
    BY <1>3, Zenon DEF FitEngineer
  <2>2. PICK roles \in Detected(mapping), rated \in BOOLEAN :
           /\ rated => roles.target # NoColumn /\ roles.cats # {}
           /\ LET e == [fitted |-> TRUE, mapping |-> mapping, off |-> off, roles |-> roles,
                        learned |-> Learned(table, roles, rated), names |-> {}]
                  all == [rows |-> table, has |-> Columns]
              IN /\ engineer' = [e EXCEPT !.names = Added(e, all)]
                 /\ training' = table
    BY <2>1, Zenon
  <2> DEFINE l == Learned(table, roles, rated)
             e == [fitted |-> TRUE, mapping |-> mapping, off |-> off, roles |-> roles,
                   learned |-> l, names |-> {}]
             names == Added(e, [rows |-> table, has |-> Columns])
  <2>4. engineer' = [e EXCEPT !.names = names]
    BY <2>2, Zenon
  <2>5. e = [fitted |-> TRUE, mapping |-> mapping, off |-> off, roles |-> roles,
             learned |-> l, names |-> {}]
    OBVIOUS
  <2> HIDE DEF l, names, e
  <2>3. engineer'.fitted = TRUE /\ engineer'.mapping = mapping /\ engineer'.off = off /\ engineer'.roles = roles
    BY <2>4, <2>5
  <2> QED
    BY <2>3 DEF EngineerTyped
<1> QED
  BY <1>1, <1>2, <1>3 DEF EngineerNext

-----------------------------------------------------------------------------
(* Forms.                                                                  *)
\* What every form has besides what it is filled in with.
FormTyped ==
  /\ verdict \in {"none", "error", "refused", "queued", "raised", "trained"}
  /\ form # NoForm => form.full \in BOOLEAN

LEMMA FormTypedInit == FormInit => FormTyped
BY DEF FormInit, FormTyped

LEMMA FormTypes == FormInv /\ FormTyped => FormTypeOK
<1> SUFFICES ASSUME FormInv, FormTyped, form # NoForm, NEW name \in DOMAIN form.changed
             PROVE form.changed[name].vals \subseteq Offered(form.algorithm, name)
  BY DEF FormTypeOK, FormTyped, FormInv, FormShape
<1>1. form.changed[name] \in Entries(form, name)
  BY DEF FormInv, FormShape
<1>2. PICK S : S = Offered(form.algorithm, name)
  OBVIOUS
<1>3. CASE form.changed[name] \in {Entry("one", {v}) : v \in S}
  BY <1>2, <1>3 DEF Entry
<1>4. CASE form.changed[name] \in {Entry("list", s) : s \in {s \in SUBSET S : Cardinality(s) = 2}}
  BY <1>2, <1>4 DEF Entry
<1>5. CASE IsNumber(form.algorithm, name) /\ form.changed[name] = Entry("range", {"low", "high"})
  <2>1. {"low", "high"} \subseteq Offered(form.algorithm, name)
    BY <1>5 DEF Offered, OfferedNumbers
  <2> QED
    BY <1>5, <2>1 DEF Entry
<1> QED
  BY <1>1, <1>2, <1>3, <1>4, <1>5 DEF Entries

LEMMA FormTypeStep == FormInv /\ FormTyped /\ [FormNext]_formVars => FormTyped'
<1> SUFFICES ASSUME FormInv, FormTyped, [FormNext]_formVars PROVE FormTyped'
  OBVIOUS
<1>1. CASE UNCHANGED formVars
  BY <1>1 DEF formVars, FormTyped
<1>2. CASE OpenForm
  <2>1. PICK a \in Tried, method \in Methods, full \in BOOLEAN :
          form' = [algorithm |-> a, method |-> method, full |-> full,
                   changed |-> [x \in {} |-> Entry("absent", {})]]
    BY <1>2 DEF OpenForm
  <2>2. form'.full = full
    BY <2>1
  <2> QED
    BY <1>2, <2>2 DEF OpenForm, FormTyped
<1>3. CASE ChangeValue
  <2>1. PICK c : form' = [form EXCEPT !.changed = c]
    BY <1>3 DEF ChangeValue
  <2>2. form = [algorithm |-> form.algorithm, method |-> form.method, full |-> form.full, changed |-> form.changed]
    BY <1>3 DEF ChangeValue, FormInv, FormShape
  <2>3. form'.full = form.full
    BY <2>1, <2>2
  <2> QED
    BY <1>3, <2>3 DEF ChangeValue, FormTyped
<1>4. CASE SubmitForm
  <2>1. PICK f : /\ f = [form EXCEPT !.full = @ \/ form.changed = [x \in {} |-> Entry("absent", {})]]
                 /\ form' = f
                 /\ verdict' = IF CheckFails(f) THEN "error" ELSE IF Checked(f) THEN "refused" ELSE "queued"
    BY <1>4 DEF SubmitForm
  <2>2. form = [algorithm |-> form.algorithm, method |-> form.method, full |-> form.full, changed |-> form.changed]
    BY <1>4 DEF SubmitForm, FormInv, FormShape
  <2>3. f.full = (form.full \/ form.changed = [x \in {} |-> Entry("absent", {})])
    BY <2>1, <2>2
  <2>4. form'.full \in BOOLEAN
    BY <2>1, <2>3
  <2>5. verdict' \in {"error", "refused", "queued"}
    BY <2>1
  <2> QED
    BY <2>4, <2>5 DEF FormTyped
<1>5. CASE BuildModel
  BY <1>5 DEF BuildModel, FormTyped
<1> QED
  BY <1>1, <1>2, <1>3, <1>4, <1>5 DEF FormNext

-----------------------------------------------------------------------------
(* Searches.                                                               *)
\* What a search has besides what it was asked: values, numbers and rows.
TuningTyped ==
  search # Idle =>
    /\ search.others \in BOOLEAN /\ (search.at = "asked" => search.tried = {})
    /\ search.space \subseteq Amounts /\ search.tried \subseteq search.space
    /\ search.best \in Amounts \cup {DefaultValue} /\ search.seen \subseteq {"all", "sample"}

LEMMA TuningTypedInit == TuningInit => TuningTyped
BY DEF TuningInit, TuningTyped

LEMMA TuningTypes == TuningInv /\ TuningTyped => TuningTypeOK
BY DEF TuningInv, TuningTyped, TuningTypeOK, AskedOK

LEMMA TuningTypeStep == TuningInv /\ TuningTyped /\ [TuningNext]_tuningVars => TuningTyped'
<1> SUFFICES ASSUME TuningInv, TuningTyped, [TuningNext]_tuningVars PROVE TuningTyped'
  OBVIOUS
<1>1. CASE UNCHANGED search
  BY <1>1 DEF TuningTyped
<1>2. CASE AskTuning
  <2>1. PICK tuner, param, given, size : \E others \in BOOLEAN :
          search' = [at |-> "asked", tuner |-> tuner, param |-> param, setting |-> given,
                     rows |-> size, others |-> others, space |-> {}, tried |-> {},
                     best |-> DefaultValue, seen |-> {}]
    BY <1>2, Zenon DEF AskTuning
  <2>2. PICK others \in BOOLEAN :
          search' = [at |-> "asked", tuner |-> tuner, param |-> param, setting |-> given,
                     rows |-> size, others |-> others, space |-> {}, tried |-> {},
                     best |-> DefaultValue, seen |-> {}]
    BY <2>1
  <2>3. /\ search'.others \in BOOLEAN /\ search'.space = {} /\ search'.tried = {}
        /\ search'.best = DefaultValue /\ search'.seen = {}
    BY <2>2
  <2> QED
    BY <2>3 DEF TuningTyped
<1>3. search # Idle =>
        /\ AskedOK /\ search.others \in BOOLEAN /\ search.space \subseteq Amounts /\ search.tried \subseteq search.space
        /\ search.best \in Amounts \cup {DefaultValue} /\ search.seen \subseteq {"all", "sample"}
  BY DEF TuningInv, TuningTyped
<1>4. ASSUME search # Idle, NEW place, NEW space, NEW tried, NEW best, NEW seen,
             search' = SearchMoved(place, space, tried, best, seen),
             space \subseteq Amounts, tried \subseteq space,
             best \in Amounts \cup {DefaultValue}, seen \subseteq {"all", "sample"}, place # "asked"
      PROVE TuningTyped'
  <2>1. /\ search'.at = place /\ search'.space = space /\ search'.tried = tried /\ search'.best = best /\ search'.seen = seen
        /\ search'.others = search.others
    BY <1>4 DEF SearchMoved
  <2> QED
    BY <1>3, <1>4, <2>1 DEF TuningTyped
<1>5. ASSUME search # Idle, search' = [search EXCEPT !.at = "raised"]
      PROVE TuningTyped'
  <2>1. search' = SearchMoved("raised", search.space, search.tried, search.best, search.seen)
    BY <1>3, <1>5, EditsMove, Zenon
  <2> QED
    BY <1>3, <1>4, <1>5, <2>1
<1>6. ASSUME NEW v \in Amounts \cup {DefaultValue}, search # Idle, search' = Fitted(v)
      PROVE TuningTyped'
  <2>1. CASE search' = [search EXCEPT !.at = "raised"]
    BY <1>5, <1>6, <2>1
  <2>2. CASE Usable(v)
    <3>1. search' = SearchMoved("done", search.space, search.tried, v, search.seen \cup {"all"})
      BY <1>3, <1>6, <2>2, EditsMove DEF Fitted
    <3> QED
      BY <1>3, <1>4, <1>6, <3>1
  <2> QED
    BY <1>6, <2>1, <2>2 DEF Fitted
<1>7. CASE PrepareSpace
  <2>1. search # Idle /\ search.at = "asked" /\ search.tuner \in Searches
    BY <1>7 DEF PrepareSpace, Idle
  <2>2. PICK space : space = Space(search.tuner, search.param, search.setting)
    OBVIOUS
  <2>3. CASE space.raises
    BY <1>5, <1>7, <2>1, <2>2, <2>3 DEF PrepareSpace
  <2>4. CASE ~space.raises
    <3>1. PICK place : place = (IF space.values = {} THEN "fit" ELSE "compare")
      OBVIOUS
    <3>2. search' = [search EXCEPT !.at = place, !.space = space.values]
      BY <1>7, <2>2, <2>4, <3>1 DEF PrepareSpace
    <3>3. search' = SearchMoved(place, space.values, search.tried, search.best, search.seen)
      BY <1>3, <2>1, <3>2, EditsMove, Zenon
    <3>4. space.values \subseteq Amounts
      <4>1. space = Candidates(space.values)
        BY <2>2, <2>4, SpaceIsCandidates
      <4> QED
        BY <1>3, <2>1, <2>2, <4>1, SpaceIsAmounts
    <3>5. search.tried = {} /\ place # "asked"
      BY <2>1, <3>1 DEF TuningTyped
    <3> QED
      BY <1>3, <1>4, <2>1, <3>3, <3>4, <3>5
  <2> QED
    BY <2>3, <2>4
<1>8. ASSUME NEW tuner, NEW tried \in SUBSET search.space, NEW size \in {"all", "sample"},
             Comparing(tuner), Compare(tried, size)
      PROVE TuningTyped'
  <2>1. search # Idle
    BY <1>8 DEF Comparing, Idle
  <2>2. ASSUME NEW best \in tried,
               search' = [search EXCEPT !.at = "fit", !.tried = tried, !.best = best, !.seen = {size}]
        PROVE TuningTyped'
    <3>1. search' = SearchMoved("fit", search.space, tried, best, {size})
      BY <1>3, <2>1, <2>2, CompareMoves
    <3>2. best \in Amounts \cup {DefaultValue} /\ {size} \subseteq {"all", "sample"}
      BY <1>3, <1>8, <2>1, <2>2
    <3> QED
      BY <1>3, <1>4, <1>8, <2>1, <3>1, <3>2
  <2>3. CASE search' = [search EXCEPT !.at = "raised", !.tried = tried]
    <3>1. search' = SearchMoved("raised", search.space, tried, search.best, search.seen)
      BY <1>3, <2>1, <2>3, EditsMove, Zenon
    <3> QED
      BY <1>3, <1>4, <1>8, <2>1, <3>1
  <2> QED
    BY <1>8, <2>2, <2>3 DEF Compare
<1>9. CASE FitBest
  BY <1>3, <1>6, <1>9 DEF FitBest, Idle
<1>10. CASE FitManually
  <2>1. search # Idle /\ search.setting \in Settings
    BY <1>3, <1>10 DEF FitManually, Idle, AskedOK
  <2>2. PICK p, s, space : p = search.param /\ s = search.setting /\ space = Constructed(p, s)
    OBVIOUS
  <2>3. CASE search' = [search EXCEPT !.at = "raised"]
    BY <1>5, <2>1, <2>3
  <2>4. PICK given : given = (IF p = "cut" THEN Truncated(Low(s)) ELSE Low(s))
    OBVIOUS
  <2>5. PICK v : v = (IF space.values = {} THEN DefaultValue ELSE given)
    OBVIOUS
  <2>6. CASE ~space.raises /\ search' = Fitted(v)
    <3>1. CASE s.kind = "one"
      <4>1. Low(s) \in Amounts
        BY <2>1, <2>2, <3>1, SettingShape DEF Low
      <4>2. Truncated(Low(s)) \in Amounts
        BY <4>1, TuningAssumption DEF Truncated, Amounts
      <4>3. v \in Amounts \cup {DefaultValue}
        BY <2>4, <2>5, <4>1, <4>2
      <4> QED
        BY <1>6, <2>1, <2>6, <4>3
    <3>2. CASE s.kind # "one"
      <4>1. space.values = {}
        BY <2>1, <2>2, <2>6, <3>2, SettingShape DEF Constructed, Candidates, Raises
      <4>2. v \in Amounts \cup {DefaultValue}
        BY <2>5, <4>1
      <4> QED
        BY <1>6, <2>1, <2>6, <4>2
    <3> QED
      BY <3>1, <3>2
  <2>7. \/ search' = [search EXCEPT !.at = "raised"]
        \/ ~space.raises /\ search' = Fitted(v)
    BY <1>10, <2>2, <2>4, <2>5, Zenon DEF FitManually
  <2> QED
    BY <2>3, <2>6, <2>7
<1>11. CASE GridSearch
  <2>1. ComparedOn(search.rows) \in {"all", "sample"}
    BY DEF ComparedOn
  <2> QED
    BY <1>8, <1>11, <2>1 DEF GridSearch
<1>12. CASE RandomSearch
  <2>1. PICK tried \in SUBSET search.space : Comparing("random") /\ Compare(tried, "all")
    BY <1>12 DEF RandomSearch, Drawn, Sample
  <2> QED
    BY <1>8, <2>1
<1>13. CASE BayesianSearch
  <2>1. PICK tried \in SUBSET search.space : Comparing("bayesian") /\ Compare(tried, "all")
    BY <1>13 DEF BayesianSearch, Drawn
  <2> QED
    BY <1>8, <2>1
<1> QED
  BY <1>1, <1>2, <1>7, <1>9, <1>10, <1>11, <1>12, <1>13 DEF TuningNext, tuningVars

-----------------------------------------------------------------------------
(* Model fitting.                                                          *)
\* What each step of a training leaves behind, whether it raised later or not.
FittingTyped ==
  /\ at = "labels" => fit = Nothing
  /\ coded # Nothing =>
       /\ coded.stage \in Stages /\ coded.test \subseteq DOMAIN coded.train
       /\ \A c \in DOMAIN coded.train : coded.train[c] \in FewRows
  /\ fit # Nothing => fit.validation \subseteq Classes /\ fit.classes \subseteq Classes
  /\ model # Nothing => model.weights \in 0..2
  /\ scoring # Nothing => scoring.threshold \in {"calibrated", "raw", "half", "none"}

LEMMA FittingTypedInit == FittingInit => FittingTyped
BY DEF FittingInit, FittingTyped

LEMMA FittingTypes == FittingInv /\ FittingTyped => FittingTypeOK
<1> SUFFICES ASSUME FittingInv, FittingTyped PROVE FittingTypeOK
  OBVIOUS
<1>1. at \in {"labels", "split", "balance", "build", "calibrate", "test"} \cup Ends
  BY DEF FittingInv, FitBegun, Ends
<1> QED
  BY <1>1 DEF FittingTyped, FittingTypeOK

\* A coding counts each class as none, one or more, and knows the test's codes.
LEMMA CodingTyped ==
  ASSUME NEW stage \in Stages, NEW train \in [Labels -> FewRows], NEW test \in SUBSET Labels,
         NEW c, c = Coding(stage, train, test)
  PROVE /\ c.stage \in Stages /\ c.test \subseteq DOMAIN c.train
        /\ \A k \in DOMAIN c.train : c.train[k] \in FewRows
<1> DEFINE present == {l \in AnomalyTypes : train[l] > 0} \cup (test \ {Normal})
           code(l) == IF stage = "binary" THEN (IF l = Normal THEN 0 ELSE 1) ELSE NumberedIn(present, l)
           used == IF stage = "binary" THEN Labels ELSE present
           total(k) == {row \in used \X (1..2) : code(row[1]) = k /\ row[2] <= train[row[1]]}
           counts == [k \in {code(l) : l \in used} |-> IF Cardinality(total(k)) > 1 THEN 2 ELSE Cardinality(total(k))]
<1>1. c = [stage |-> stage, train |-> counts, test |-> {code(l) : l \in test \cap used}]
  BY Zenon DEF Coding
<1>2. IsFiniteSet(used)
  <2>1. IsFiniteSet(Labels)
    BY FS_Singleton, FS_Union, FittingAssumption DEF Labels
  <2>2. used \subseteq Labels
    BY DEF Labels
  <2> HIDE DEF used
  <2> QED
    BY <2>1, <2>2, FS_Subset
<1>3. ASSUME NEW k PROVE Cardinality(total(k)) \in Nat
  <2>1. IsFiniteSet(1..2)
    <3>1. 1 \in Int /\ 2 \in Int
      OBVIOUS
    <3> QED
      BY <3>1, FS_Interval
  <2>2. IsFiniteSet(used \X (1..2))
    BY <1>2, <2>1, FS_Product
  <2>3. total(k) \subseteq used \X (1..2)
    OBVIOUS
  <2> QED
    BY <2>2, <2>3, FS_Subset, FS_CardinalityType
<1>4. DOMAIN counts = {code(l) : l \in used} /\ {code(l) : l \in test \cap used} \subseteq {code(l) : l \in used}
  OBVIOUS
<1> HIDE DEF code, used, total
<1>5. \A k \in DOMAIN counts : counts[k] \in FewRows
  BY <1>3, <1>4 DEF FewRows
<1> HIDE DEF counts
<1> QED
  BY <1>1, <1>4, <1>5

LEMMA FittingTypeStep == FittingInv /\ FittingTyped /\ [FittingNext]_fittingVars => FittingTyped'
<1> SUFFICES ASSUME FittingInv, FittingTyped, [FittingNext]_fittingVars PROVE FittingTyped'
  OBVIOUS
<1>1. CASE UNCHANGED fittingVars
  BY <1>1 DEF fittingVars, FittingTyped, Classes
<1>2. CASE CodeLabels
  <2>1. PICK stage \in Stages, train \in [Labels -> FewRows], test \in SUBSET Labels :
          coded' = Coding(stage, train, test)
    BY <1>2 DEF CodeLabels
  <2>2. /\ coded'.stage \in Stages /\ coded'.test \subseteq DOMAIN coded'.train
        /\ \A k \in DOMAIN coded'.train : coded'.train[k] \in FewRows
    BY <2>1, CodingTyped
  <2> QED
    BY <1>2, <2>2 DEF CodeLabels, FittingTyped
<1>3. CASE SplitTrain
  <2>1. at = "split" /\ at' \in {"balance", "raised"} /\ UNCHANGED <<coded, model, scoring>>
    BY <1>3 DEF SplitTrain
  <2>2. Classes' = Classes
    BY <2>1 DEF Classes
  <2>3. fit' # Nothing => fit'.validation \subseteq Classes /\ fit'.classes \subseteq Classes
    BY <1>3 DEF SplitTrain, FittingTyped
  <2> QED
    BY <2>1, <2>2, <2>3 DEF FittingTyped
<1>4. CASE BalanceFit
  <2>1. at = "balance" /\ at' \in {"build", "raised"} /\ UNCHANGED <<coded, model, scoring>>
    BY <1>4 DEF BalanceFit
  <2>2. Classes' = Classes /\ FitOK
    BY <2>1 DEF Classes, FittingInv, FitSplit, FitBegun
  <2>3. fit.validation \subseteq Classes /\ fit.classes \subseteq Classes
    <3>1. fit # Nothing
      BY <2>2 DEF FitOK, Nothing
    <3> QED
      BY <3>1 DEF FittingTyped
  <2>4. ASSUME NEW strategy, strategy = "undersample" => {0, 1} \subseteq fit.classes, fit' = Balanced(strategy)
        PROVE fit'.validation \subseteq Classes /\ fit'.classes \subseteq Classes
    BY <2>2, <2>3, <2>4 DEF Balanced, FitOK
  <2>5. fit' # Nothing => fit'.validation \subseteq Classes /\ fit'.classes \subseteq Classes
    BY <1>4, <2>3, <2>4 DEF BalanceFit
  <2> QED
    BY <2>1, <2>2, <2>5 DEF FittingTyped
<1>5. CASE FitModel
  <2>1. at = "build" /\ at' \in {"calibrate", "raised"} /\ UNCHANGED <<coded, fit, scoring>>
    BY <1>5 DEF FitModel
  <2>2. \A estimator, given : Weights(estimator, given) \in 0..2
    BY DEF Weights
  <2>3. model' # Nothing => model'.weights \in 0..2
    BY <1>5, <2>2 DEF FitModel, FittingTyped
  <2> QED
    BY <2>1, <2>3 DEF FittingTyped, Classes
<1>6. CASE Calibrate
  <2>1. at' = "test" /\ UNCHANGED <<coded, fit, model>>
    BY <1>6 DEF Calibrate
  <2>2. scoring'.threshold \in {"calibrated", "raw", "half", "none"}
    BY <1>6 DEF Calibrate, Threshold
  <2> QED
    BY <2>1, <2>2 DEF FittingTyped, Classes
<1>7. CASE TestModel
  <2>1. at = "test" /\ at' \in {"done", "raised"} /\ UNCHANGED <<coded, fit, model>>
    BY <1>7 DEF TestModel
  <2>2. ScoringOK /\ scoring.threshold \in {"calibrated", "raw", "half", "none"}
    <3>1. ScoringOK
      BY <2>1 DEF FittingInv, FitScored, FitModelled, FitBuilt, FitSplit, FitBegun
    <3>2. scoring # Nothing
      BY <3>1 DEF ScoringOK, Nothing
    <3> QED
      BY <3>1, <3>2 DEF FittingTyped
  <2>3. PICK predicted : scoring' = [scoring EXCEPT !.predicted = predicted] \/ scoring' = scoring
    BY <1>7 DEF TestModel
  <2>4. scoring'.threshold = scoring.threshold
    BY <2>2, <2>3 DEF ScoringOK
  <2> QED
    BY <2>1, <2>2, <2>4 DEF FittingTyped, Classes
<1> QED
  BY <1>1, <1>2, <1>3, <1>4, <1>5, <1>6, <1>7 DEF FittingNext

-----------------------------------------------------------------------------
(* Scoring.                                                                *)
\* A batch of the model has at most two rows.
ScoringTyped == Len(scored.rows) \in 0..2

LEMMA ScoringTypedInit == ScoringInit => ScoringTyped
BY DEF ScoringInit, NothingLoaded, ScoringTyped

LEMMA ScoringTypes == ScoredInv /\ ScoringTyped => ScoringTypeOK
<1> SUFFICES ASSUME ScoredInv, ScoringTyped PROVE ScoringTypeOK
  OBVIOUS
<1>1. scored.rows \in Seq(ScoredRows) /\ Len(scored.alone) <= Len(scored.rows)
  <2>1. CASE scored.loaded
    BY <2>1 DEF ScoredInv
  <2>2. CASE ~scored.loaded
    <3>1. scored.rows = <<>> /\ scored.alone = <<>>
      BY <2>2 DEF ScoredInv, NothingLoaded
    <3> QED
      BY <3>1
  <2> QED
    BY <2>1, <2>2
<1>2. scored.rows \in [1..Len(scored.rows) -> ScoredRows]
  BY <1>1
<1>3. scored.rows \in UNION {[1..n -> ScoredRows] : n \in 0..2}
  <2>1. PICK m \in 0..2 : m = Len(scored.rows)
    BY DEF ScoringTyped
  <2> QED
    BY <1>2, <2>1
<1> QED
  BY <1>1, <1>3 DEF ScoringTypeOK, ScoredInv

LEMMA ScoringTypeStep == ScoredInv /\ ScoringTyped /\ [ScoringNext]_scoringVars => ScoringTyped'
<1> SUFFICES ASSUME ScoredInv, ScoringTyped, [ScoringNext]_scoringVars PROVE ScoringTyped'
  OBVIOUS
<1>1. CASE UNCHANGED scored
  BY <1>1 DEF ScoringTyped
<1>2. CASE LoadForScoring
  <2>1. scored'.rows = <<>>
    BY <1>2 DEF LoadForScoring
  <2> QED
    BY <2>1 DEF ScoringTyped
<1>3. CASE AnswerBatch
  <2>1. PICK table \in UNION {[1..n -> ScoredRows] : n \in 1..2} :
          scored' = [scored EXCEPT !.rows = table, !.batch = PredictBatch(scored.service, table)]
    BY <1>3 DEF AnswerBatch
  <2>2. scored.loaded
    BY <1>3 DEF AnswerBatch
  <2>3. scored'.rows = table
    BY <2>1, <2>2 DEF ScoredInv
  <2>4. Len(table) \in 1..2
    <3>1. PICK n \in 1..2 : table \in [1..n -> ScoredRows]
      BY <2>1
    <3> QED
      BY <3>1
  <2> QED
    BY <2>3, <2>4 DEF ScoringTyped
<1>4. CASE AnswerAlone
  <2>1. PICK answer : scored' = [scored EXCEPT !.alone = Append(@, answer)]
    BY <1>4 DEF AnswerAlone
  <2>2. scored.loaded
    BY <1>4 DEF AnswerAlone, ScoredInv, NothingLoaded
  <2>3. scored'.rows = scored.rows
    BY <2>1, <2>2 DEF ScoredInv
  <2> QED
    BY <2>3 DEF ScoringTyped
<1> QED
  BY <1>1, <1>2, <1>3, <1>4 DEF ScoringNext, scoringVars

-----------------------------------------------------------------------------
(* Analyses.                                                               *)
\* A selection drops or ranks every feature but the target.
RanksAll(r) == Studies \subseteq r.flat \cup r.redundant \cup Selected(r) \cup {r.target}

AnalysisTyped ==
  studied # NoSet =>
    /\ studied.analyses \in 0..MaxReports
    /\ studied.report.kind = "ranked" => RanksAll(studied.report)

LEMMA AnalysisTypedInit == AnalysisInit => AnalysisTyped
BY DEF AnalysisInit, AnalysisTyped

LEMMA AnalysisTypes == AnalysisInv /\ AnalysisTyped => AnalysisTypeOK
<1> SUFFICES ASSUME AnalysisInv, AnalysisTyped, studied # NoSet, studied.report.kind = "ranked",
                    NEW f \in StoredColumns(studied.source), TrainingStatus(f) = "available"
             PROVE f = studied.report.target
  BY DEF AnalysisTypeOK, AnalysisInv, AnalysisTyped, StudyOK
<1>1. f # SourceTarget(studied.source)
  BY DEF TrainingStatus
<1>2. f \in Studies
  BY <1>1 DEF StoredColumns
<1>3. ~(f \in studied.report.flat \cup studied.report.redundant \cup Selected(studied.report))
  BY <1>1 DEF TrainingStatus
<1> QED
  BY <1>2, <1>3 DEF AnalysisTyped, RanksAll

LEMMA ChosenCovers ==
  ASSUME NEW d, NEW columns, NEW chosen \in Selections(d, columns)
  PROVE columns \subseteq chosen.flat \cup chosen.redundant \cup DOMAIN chosen.rank
<1> DEFINE seen == [flat |-> Constant(d, columns), gain |-> [f \in columns |-> d.gain[f]],
                   linked |-> d.linked \cap (columns \X columns), weight |-> d.weight]
           redundant == {f \in columns : Redundant(seen, f)}
           left == columns \ (seen.flat \cup redundant)
<1>1. PICK rank \in [left -> 1..Cardinality(left)] :
        chosen = [flat |-> seen.flat, redundant |-> redundant, rank |-> rank]
  BY Zenon DEF Selections
<1>2. columns \subseteq seen.flat \cup redundant \cup left
  OBVIOUS
<1> HIDE DEF seen, redundant, left
<1>3. chosen.flat = seen.flat /\ chosen.redundant = redundant /\ DOMAIN chosen.rank = left
  BY <1>1
<1> QED
  BY <1>2, <1>3

LEMMA AnalysisTypeStep == AnalysisInv /\ AnalysisTyped /\ [AnalysisNext]_analysisVars => AnalysisTyped'
<1> SUFFICES ASSUME AnalysisInv, AnalysisTyped, [AnalysisNext]_analysisVars PROVE AnalysisTyped'
  OBVIOUS
<1>1. CASE UNCHANGED studied
  BY <1>1 DEF AnalysisTyped, RanksAll, Selected
<1>2. CASE ComputeSet
  <2>1. PICK s, d : studied' = [source |-> s, data |-> d, status |-> "COMPLETED", analyses |-> 0, again |-> "no",
                                report |-> [kind |-> "computed", target |-> SourceTarget(s)]]
    BY <1>2 DEF ComputeSet
  <2>2. studied'.analyses = 0 /\ studied'.report = [kind |-> "computed", target |-> SourceTarget(s)]
    BY <2>1
  <2>3. studied'.report.kind = "computed"
    BY <2>2
  <2> QED
    BY <2>2, <2>3, AnalysisAssumption DEF AnalysisTyped
<1>3. ASSUME CanAnalyse, NEW rep, NEW status, studied' = Rewritten(rep, status), rep.kind = "ranked" => RanksAll(rep)
      PROVE AnalysisTyped'
  <2>1. studied'.analyses = studied.analyses + 1 /\ studied'.report = rep
    BY <1>3 DEF Rewritten
  <2>2. studied.analyses + 1 \in 0..MaxReports
    BY <1>3, AnalysisAssumption DEF CanAnalyse, AnalysisTyped
  <2>3. RanksAll(rep) => RanksAll(studied.report)'
    BY <2>1 DEF RanksAll, Selected
  <2> QED
    BY <1>3, <2>1, <2>2, <2>3 DEF AnalysisTyped
<1>4. CanAnalyse => StudyOK /\ studied # NoSet
  BY DEF CanAnalyse, AnalysisInv
<1>5. CASE RankFeatures
  <2> DEFINE s == studied.source
             found == TargetFound(s, studied.report)
             d == studied.data
             own(n) == IF n /\ (found.copied \/ found.target # Own) THEN StoredColumns(s) \ Studies ELSE {}
             columnsOf(n) == (Studies \cup own(n)) \ (IF found.copied THEN {} ELSE {found.target})
  <2>1. PICK numeric \in BOOLEAN : \E chosen \in Selections(WithOwn(d), columnsOf(numeric)) :
               Reported([kind |-> "ranked", target |-> found.target, flat |-> chosen.flat,
                         redundant |-> chosen.redundant, rank |-> chosen.rank])
    BY <1>5, Zenon DEF RankFeatures
  <2>2. PICK columns :
          /\ columns = columnsOf(numeric)
          /\ \E chosen \in Selections(WithOwn(d), columns) :
               Reported([kind |-> "ranked", target |-> found.target, flat |-> chosen.flat,
                         redundant |-> chosen.redundant, rank |-> chosen.rank])
    BY <2>1
  <2>3. PICK chosen, rep :
          /\ chosen \in Selections(WithOwn(d), columns)
          /\ rep = [kind |-> "ranked", target |-> found.target, flat |-> chosen.flat,
                    redundant |-> chosen.redundant, rank |-> chosen.rank]
          /\ Reported(rep)
    BY <2>2
  <2>4. /\ rep.kind = "ranked" /\ rep.target = found.target /\ rep.flat = chosen.flat
        /\ rep.redundant = chosen.redundant /\ rep.rank = chosen.rank
    BY <2>3
  <2>5. Studies \ {found.target} \subseteq columns
    BY <2>2
  <2>6. columns \subseteq chosen.flat \cup chosen.redundant \cup DOMAIN chosen.rank
    BY <2>3, ChosenCovers
  <2>7. RanksAll(rep)
    BY <2>4, <2>5, <2>6 DEF RanksAll, Selected
  <2>8. CanAnalyse
    BY <1>5 DEF RankFeatures
  <2>9. studied' = Rewritten(rep, studied.status)
    BY <1>4, <2>3, <2>8, ReportedIsWritten
  <2> QED
    BY <1>3, <2>7, <2>8, <2>9
<1>6. CASE ReportNoTarget
  <2>1. CanAnalyse
    BY <1>6 DEF ReportNoTarget
  <2>2. PICK rep : /\ rep = IF studied.report.kind = "computed" THEN studied.report ELSE [kind |-> "error"]
                   /\ Reported(rep)
    BY <1>6 DEF ReportNoTarget
  <2>3. rep.kind # "ranked"
    BY <2>2
  <2>4. studied' = Rewritten(rep, studied.status)
    BY <1>4, <2>1, <2>2, ReportedIsWritten
  <2> QED
    BY <1>3, <2>1, <2>3, <2>4
<1>7. CASE AnalysisFails
  <2>1. CanAnalyse /\ StudyOK
    BY <1>4, <1>7 DEF AnalysisFails
  <2>2. PICK rep : rep = [kind |-> "error"]
    OBVIOUS
  <2>3. rep.kind # "ranked"
    BY <2>2
  <2>4. studied' = Rewritten(rep, "FAILED")
    <3>1. PICK so, da, st, an, ag, re :
            studied = [source |-> so, data |-> da, status |-> st, analyses |-> an, again |-> ag, report |-> re]
      BY <2>1 DEF StudyOK
    <3> QED
      BY <1>7, <2>2, <3>1 DEF AnalysisFails, Rewritten
  <2> QED
    BY <1>3, <2>1, <2>3, <2>4
<1> QED
  BY <1>1, <1>2, <1>5, <1>6, <1>7 DEF AnalysisNext, analysisVars

-----------------------------------------------------------------------------
(* All of them.                                                            *)
LEMMA CardTypeInit == CardInit => CardTypeOK
BY CardAssumption DEF CardInit, CardTypeOK, Mounted, Statuses

LEMMA DataTypedInit == DataInit => DataTyped
<1> SUFFICES ASSUME DataInit PROVE DataTyped
  OBVIOUS
<1>1. \A j \in Makers : makes[j].pc = "new"
  BY DEF DataInit, NotMade
<1>2. Splits \subseteq Makers
  BY DEF Makers
<1>3. deleting \in [Deletes -> [pc : {"idle", "file", "rows"}, of : DatasetIds \cup {NoDataset}, at : Places]]
  BY DEF DataInit, NoDelete, Places
<1> QED
  BY <1>1, <1>2, <1>3 DEF DataInit, DataTyped, DataTypeOK, Places, At

\* What the components' own invariants say of their types, and what is added.
InvOfAll ==
  /\ AlertsInv /\ FeaturesInv /\ PlanInv /\ DataInv /\ AccountsInv /\ SchedulerInv
  /\ EngineerInv /\ FormInv /\ TuningInv /\ FittingInv /\ BaselinesInv /\ MonitorInv
  /\ ScoredInv /\ AnalysisInv /\ KeptInv(kept) /\ PageInv /\ CardInv

TypedAll ==
  /\ scene \in Scenes
  /\ AlertsTyped /\ FeaturesTyped /\ PlanTyped /\ DataTyped /\ SchedulerTyped
  /\ EngineerTyped /\ FormTyped /\ TuningTyped /\ FittingTyped /\ BaselineTyped /\ MonitorTyped
  /\ ScoringTyped /\ AnalysisTyped /\ BlobTyped /\ PageTyped /\ CardTypeOK

LEMMA InvOfAllStep == InvOfAll /\ [Next]_vars => InvOfAll'
<1> SUFFICES ASSUME InvOfAll, [Next]_vars PROVE InvOfAll'
  OBVIOUS
<1>1. /\ AccountsInv' /\ SchedulerInv' /\ PageInv' /\ CardInv' /\ AlertsInv' /\ BaselinesInv'
      /\ FeaturesInv' /\ DataInv'
  BY ComponentStep, AccountsInvStep, SchedulerInvStep, PageInvStep, CardInvStep, AlertsInvStep,
     BaselinesInvStep, FeaturesInvStep, DataInvStep DEF InvOfAll
<1>2. /\ EngineerInv' /\ ScoredInv' /\ FittingInv' /\ PlanInv' /\ AnalysisInv' /\ TuningInv' /\ FormInv'
      /\ KeptInv(kept)'
  BY ComputationStep, EngineerInvStep, ScoredInvStep, FittingInvStep, PlanInvStep, AnalysisInvStep,
     TuningInvStep, FormInvStep, KeptInvStep DEF InvOfAll
<1>3. MonitorInv'
  BY WatchStep, MonitorInvStep DEF InvOfAll
<1> QED
  BY <1>1, <1>2, <1>3 DEF InvOfAll

LEMMA TypedAllStep == InvOfAll /\ TypedAll /\ [Next]_vars => TypedAll'
<1> SUFFICES ASSUME InvOfAll, TypedAll, [Next]_vars PROVE TypedAll'
  OBVIOUS
<1>1. InvOfAll'
  BY InvOfAllStep
<1>2. /\ SchedulerTyped' /\ PageTyped' /\ AlertsTyped' /\ BaselineTyped' /\ FeaturesTyped'
  BY ComponentStep, SchedulerTypeStep, PageTypeStep, AlertsTypeStep, BaselineTypeStep, FeaturesTypeStep
    DEF InvOfAll, TypedAll
<1>3. DataTyped' /\ CardTypeOK'
  BY <1>1, ComponentStep, DataTypeStep, CardTypeStep DEF InvOfAll, TypedAll
<1>4. /\ EngineerTyped' /\ ScoringTyped' /\ FittingTyped' /\ PlanTyped' /\ AnalysisTyped' /\ TuningTyped'
      /\ FormTyped' /\ BlobTyped'
  BY ComputationStep, EngineerTypeStep, ScoringTypeStep, FittingTypeStep, PlanTypeStep, AnalysisTypeStep,
     TuningTypeStep, FormTypeStep, BlobTypeStep DEF InvOfAll, TypedAll
<1>5. MonitorTyped'
  BY WatchStep, MonitorTypeStep DEF InvOfAll, TypedAll
<1>6. scene' = scene
  BY DEF Next, In, Alerting, Engineering, Planning, Storing, Administering, Scheduling,
         Transforming, Filling, Searching, Fitting, Measuring, Watching, Answering,
         Analysing, Keeping, Choosing, Showing, vars
<1>7. scene' \in Scenes
  BY <1>6 DEF TypedAll, Scenes
<1> QED
  BY <1>2, <1>3, <1>4, <1>5, <1>7 DEF TypedAll

\* Every variable of the back office stays in its type, for every value of the
\* constants: no counter passes its bound, no reference leaves what it is to,
\* and the roles of a fitted table are columns of it that differ.
THEOREM TypesHold == Spec => []TypeOK
<1>1. Init => InvOfAll
  BY AlertsInvInit, FeaturesInvInit, PlanInvInit, DataInvInit, AccountsInvInit, SchedulerInvInit,
     EngineerInvInit, FormInvInit, TuningInvInit, FittingInvInit, BaselinesInvInit, MonitorInvInit,
     ScoredInvInit, AnalysisInvInit, KeptInvInit, PageInvInit, CardInvInit DEF Init, InvOfAll
<1>2. Init => TypedAll
  BY AlertsTypedInit, FeaturesTypedInit, PlanTypedInit, DataTypedInit, SchedulerTypedInit,
     EngineerTypedInit, FormTypedInit, TuningTypedInit, FittingTypedInit, BaselineTypedInit, MonitorTypedInit,
     ScoringTypedInit, AnalysisTypedInit, BlobTypedInit, PageTypedInit, CardTypeInit DEF Init, TypedAll
<1>3. InvOfAll /\ TypedAll /\ [Next]_vars => (InvOfAll /\ TypedAll)'
  BY InvOfAllStep, TypedAllStep
<1>4. InvOfAll /\ TypedAll => TypeOK
  BY AlertsTypes, FeaturesTypes, PlanTypes, AccountsTyped, SchedulerTypes, EngineerTypes, FormTypes,
     TuningTypes, FittingTypes, BaselinesTypes, MonitorTypes, ScoringTypes, AnalysisTypes, BlobTypes, PageTypes
    DEF InvOfAll, TypedAll, TypeOK, DataTyped
<1> QED
  BY <1>1, <1>2, <1>3, <1>4, PTL DEF Spec
=============================================================================
