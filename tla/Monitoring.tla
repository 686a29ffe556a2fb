----------------------------- MODULE Monitoring -----------------------------
(***************************************************************************)
(* The drift and bias checks of one model, run by the worker on its        *)
(* schedule and by whoever opens a monitoring page: what they compute from *)
(* the two splits the model was trained with, the snapshots in Redis that  *)
(* the trend is read from, and the alerts.  One alert is raised in one     *)
(* step here; module Alerts has its two.                                   *)
(***************************************************************************)
EXTENDS Integers, Sequences, FiniteSets, SequencesExt

CONSTANTS
  Checkers,
  Watched,        \* numeric features of both splits
  Protected,      \* columns matching PROTECTED_ATTR_PATTERNS
  Rates,          \* bound: the positive rates of their groups, in hundredths
  MaxChecks, MaxDays, MaxNotices  \* bounds

ASSUME MonitoringAssumption ==
  /\ Watched \cap Protected = {} /\ IsFiniteSet(Watched) /\ IsFiniteSet(Protected)
  /\ Rates \subseteq 0..100 /\ IsFiniteSet(Rates)
  /\ MaxChecks \in Nat /\ MaxDays \in Nat \ {0} /\ MaxNotices \in Nat

VARIABLES
  splits,     \* what the two splits show
  watch,      \* each checker: its next step and what it computed
  snapshots,  \* the Redis list of the model, newest push first
  notices,    \* the drift and bias alerts of the model
  missed,     \* history: what an alert should have been raised for and was not
  now, day, checksBegun

monitoringVars == <<splits, watch, snapshots, notices, missed, now, day, checksBegun>>

-----------------------------------------------------------------------------
(* What a check computes.                                                  *)

Levels == {"OK", "WARNING", "CRITICAL"}
Worst(levels) ==
  IF "CRITICAL" \in levels THEN "CRITICAL" ELSE IF "WARNING" \in levels THEN "WARNING" ELSE "OK"

\* Of the KS statistic, where its p-value is below KS_ALPHA: above 0.1, 0.25.
Shifts == {"none", "some", "much"}

\* A row without the attribute makes a group of its own, which holds no row:
\* its rate is 0.
GroupRates(a) == splits.rates[a] \cup (IF a \in splits.lacking THEN {0} ELSE {})

BiasLevel(rates) ==
  LET top == CHOOSE r \in rates : \A s \in rates : s <= r
      low == CHOOSE r \in rates : \A s \in rates : r <= s
  IN IF top - low > 20 \/ low * 10 < top * 7 THEN "CRITICAL"
     ELSE IF top - low > 10 \/ low * 10 < top * 8 THEN "WARNING" ELSE "OK"

Drifted(features) == {f \in features : splits.psi[f] # "OK"}
Shifted(features) == {f \in features : splits.shift[f] # "none"}

\* The status counts a shift of the distribution as a warning, however large.
Snapshot(features) ==
  [status |-> Worst({splits.psi[f] : f \in features} \cup {"WARNING" : f \in Shifted(features)}),
   volume |-> Cardinality(features), drifted |-> Drifted(features)]

\* The alerts of a check, one title each feature.  A statistic of the KS test
\* is passed for the PSI, so it is the statistic that decides the severity.
ShiftLevel(shift) == IF shift = "much" THEN "CRITICAL" ELSE "WARNING"

DriftNotices ==
  LET psi(f) == [title |-> f, severity |-> splits.psi[f]]
      ks(f) == [title |-> f, severity |-> ShiftLevel(splits.shift[f])]
  IN FoldLeft(LAMBDA s, f : s \o (IF f \in Drifted(Watched) THEN <<psi(f)>> ELSE <<>>)
                              \o (IF f \in Shifted(Watched) THEN <<ks(f)>> ELSE <<>>),
              <<>>, SetToSeq(Watched))

BiasNotices ==
  LET flagged == {a \in Protected : BiasLevel(GroupRates(a)) # "OK"}
  IN SetToSeq({[title |-> a, severity |-> BiasLevel(GroupRates(a))] : a \in flagged})

Resting == [pc |-> "idle", snapshot |-> <<>>, notices |-> <<>>]

Unmonitored == [set |-> FALSE]

MonitoringInit ==
  /\ splits = Unmonitored
  /\ watch = [c \in Checkers |-> Resting]
  /\ snapshots = <<>> /\ notices = <<>> /\ missed = {}
  /\ now = 0 /\ day = 1 /\ checksBegun = 0

-----------------------------------------------------------------------------
\* A training completes: the model has a job, and the job its two splits.  As a
\* bound they drift or are unfair, not both: the two share no title.
TrainMonitored ==
  /\ splits = Unmonitored
  /\ \E psi \in [Watched -> Levels], shift \in [Watched -> Shifts],
        rates \in [Protected -> (SUBSET Rates) \ {{}}], lacking \in SUBSET Protected :
       /\ \/ psi = [f \in Watched |-> "OK"] /\ shift = [f \in Watched |-> "none"]
          \/ \A a \in Protected : Cardinality(rates[a]) = 1 /\ a \notin lacking
       /\ splits' = [set |-> TRUE, psi |-> psi, shift |-> shift, rates |-> rates, lacking |-> lacking]
  /\ UNCHANGED <<watch, snapshots, notices, missed, now, day, checksBegun>>

\* Whatever fails while the job, the datasets and their files are read, either
\* check goes on without a metric, and its status is OK.
BeginDriftCheck(c) ==
  /\ splits.set /\ watch[c].pc = "idle" /\ checksBegun < MaxChecks
  /\ \E read \in BOOLEAN :
       watch' = [watch EXCEPT ![c] =
         [pc |-> "stamp", snapshot |-> Snapshot(IF read THEN Watched ELSE {}),
          notices |-> IF read THEN DriftNotices ELSE <<>>]]
  /\ checksBegun' = checksBegun + 1
  /\ UNCHANGED <<splits, snapshots, notices, missed, now, day>>

BeginBiasCheck(c) ==
  /\ splits.set /\ watch[c].pc = "idle" /\ checksBegun < MaxChecks
  /\ \E read \in BOOLEAN :
       watch' = [watch EXCEPT ![c] = [pc |-> "raise", snapshot |-> <<>>,
                                      notices |-> IF read THEN BiasNotices ELSE <<>>]]
  /\ checksBegun' = checksBegun + 1
  /\ UNCHANGED <<splits, snapshots, notices, missed, now, day>>

\* The time of a snapshot is taken before it is sent.
Stamped(s) ==
  [status |-> s.status, volume |-> s.volume, drifted |-> s.drifted, day |-> day, time |-> now + 1]

StampSnapshot(c) ==
  /\ watch[c].pc = "stamp"
  /\ now' = now + 1
  /\ watch' = [watch EXCEPT ![c] = [pc |-> "push", snapshot |-> Stamped(@.snapshot), notices |-> @.notices]]
  /\ UNCHANGED <<splits, snapshots, notices, missed, day, checksBegun>>

\* Redis takes it, or fails and it is lost.  The 500 snapshots it keeps are far
\* more than a day makes.
PushSnapshot(c) ==
  /\ watch[c].pc = "push"
  /\ snapshots' \in {snapshots, <<watch[c].snapshot>> \o snapshots}
  /\ watch' = [watch EXCEPT ![c].pc = "raise"]
  /\ UNCHANGED <<splits, notices, missed, now, day, checksBegun>>

Titles(q) == {q[i].title : i \in DOMAIN q}
ActiveTitles == {notices[i].title : i \in {i \in DOMAIN notices : notices[i].active}}

\* An alert of the same title that is ACTIVE stands for the new one.
RaiseNotice(c) ==
  /\ watch[c].pc = "raise" /\ watch[c].notices # <<>>
  /\ LET n == Head(watch[c].notices) IN
     IF n.title \in ActiveTitles THEN UNCHANGED notices
     ELSE /\ Len(notices) < MaxNotices
          /\ notices' = Append(notices, [title |-> n.title, severity |-> n.severity, active |-> TRUE])
  /\ watch' = [watch EXCEPT ![c].notices = Tail(@)]
  /\ UNCHANGED <<splits, snapshots, missed, now, day, checksBegun>>

\* The database refuses the alert, and the check goes on to the next.
NoticeFails(c) ==
  /\ watch[c].pc = "raise" /\ watch[c].notices # <<>>
  /\ missed' = missed \cup {Head(watch[c].notices).title}
  /\ watch' = [watch EXCEPT ![c].notices = Tail(@)]
  /\ UNCHANGED <<splits, snapshots, notices, now, day, checksBegun>>

\* The worker is killed, or the request is cancelled.
CheckDies(c) ==
  /\ watch[c].pc # "idle"
  /\ missed' = missed \cup Titles(watch[c].notices)
  /\ watch' = [watch EXCEPT ![c] = Resting]
  /\ UNCHANGED <<splits, snapshots, notices, now, day, checksBegun>>

EndCheck(c) ==
  /\ watch[c].pc = "raise" /\ watch[c].notices = <<>>
  /\ watch' = [watch EXCEPT ![c] = Resting]
  /\ UNCHANGED <<splits, snapshots, notices, missed, now, day, checksBegun>>

\* Acknowledged or resolved by a user, or older than the hours that the search
\* for a duplicate looks back: not found by it any more.
AcknowledgeNotice ==
  /\ \E i \in DOMAIN notices : notices[i].active /\ notices' = [notices EXCEPT ![i].active = FALSE]
  /\ UNCHANGED <<splits, watch, snapshots, missed, now, day, checksBegun>>

NextDay ==
  /\ day < MaxDays /\ day' = day + 1
  /\ UNCHANGED <<splits, watch, snapshots, notices, missed, now, checksBegun>>

MonitoringNext ==
  \/ \E c \in Checkers :
       \/ BeginDriftCheck(c) \/ BeginBiasCheck(c) \/ StampSnapshot(c) \/ PushSnapshot(c)
       \/ RaiseNotice(c) \/ NoticeFails(c) \/ CheckDies(c) \/ EndCheck(c)
  \/ TrainMonitored \/ AcknowledgeNotice \/ NextDay

MonitoringTypeOK ==
  /\ splits.set => splits.psi \in [Watched -> Levels] /\ splits.lacking \subseteq Protected
  /\ \A c \in Checkers : watch[c].pc \in {"idle", "stamp", "push", "raise"}
  /\ Len(snapshots) <= MaxChecks /\ Len(notices) <= MaxNotices
  /\ \A i \in DOMAIN notices : notices[i].title \in Watched \cup Protected /\ notices[i].severity \in Levels
  /\ missed \subseteq Watched \cup Protected
  /\ now \in 0..MaxChecks /\ day \in 1..MaxDays /\ checksBegun \in 0..MaxChecks

-----------------------------------------------------------------------------
(* The trend of a day: get_drift_history goes through the list and keeps,  *)
(* of the day, the latest.                                                 *)

NoData == [status |-> "NO_DATA", volume |-> 0, drifted |-> {}, time |-> 0]

\* Mutant: the first of the list, which is the last that was pushed.
LastPushed(d) ==
  LET ofDay == SelectSeq(snapshots, LAMBDA s : s.day = d) IN IF ofDay = <<>> THEN NoData ELSE Head(ofDay)

DayRow(d) ==
  FoldLeft(LAMBDA best, s : IF s.day = d /\ s.time > best.time THEN s ELSE best, NoData, snapshots)

(* Properties.                                                             *)

\* About to be raised by a check that has not come to it.
Pending == UNION {Titles(watch[c].notices) : c \in Checkers}

\* A day shows its latest check, in whatever order two checks were stored, and
\* an OK is one of splits that do not drift, or of a check that read nothing.
\* What the list shows as drifted has an alert, of whatever status, or is about
\* to, unless it was missed: no duplicate that stands for it leaves it without.
\* An alert of a feature has the severity of its PSI or that of its shift, and
\* the first of a feature whose PSI drifted has that of the PSI; a worse shift
\* may stay hidden behind it.  One of an attribute has the level of its groups,
\* and a fair attribute has none unless a row lacks it.
MonitoringTells ==
  /\ \A d \in 1..MaxDays :
       LET row == DayRow(d) IN
       /\ \A i \in DOMAIN snapshots : snapshots[i].day = d => snapshots[i].time <= row.time
       /\ row.status = "OK" => row.volume = 0 \/ \A f \in Watched : splits.psi[f] = "OK" /\ splits.shift[f] = "none"
  /\ \A i \in DOMAIN snapshots : snapshots[i].drifted \subseteq Titles(notices) \cup missed \cup Pending
  /\ \A i \in DOMAIN notices :
       LET t == notices[i].title IN
       /\ t \in Watched =>
            /\ \/ t \in Drifted(Watched) /\ notices[i].severity = splits.psi[t]
               \/ t \in Shifted(Watched) /\ notices[i].severity = ShiftLevel(splits.shift[t])
            /\ t \in Drifted(Watched) \ missed =>
                 \E k \in 1..i : notices[k].title = t /\ notices[k].severity = splits.psi[t]
       /\ t \in Protected =>
            /\ notices[i].severity = BiasLevel(GroupRates(t)) /\ BiasLevel(GroupRates(t)) # "OK"
            /\ t \in splits.lacking \/ Cardinality(splits.rates[t]) > 1
=============================================================================
