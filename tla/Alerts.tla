------------------------------- MODULE Alerts -------------------------------
(***************************************************************************)
(* The alert table and its writers.  Raisers (the worker's monitoring and  *)
(* training tasks, a check requested through the API) look for a duplicate *)
(* and insert in two steps; users read a row and write it back; listing    *)
(* alerts closes the training notifications on the way.  The Slack call    *)
(* after an insert changes no state.                                       *)
(***************************************************************************)
EXTENDS Integers, Sequences, FiniteSets

CONSTANTS
  Raisers, Users,
  DriftKeys, TrainingKeys,   \* what deduplication compares: model, type, title
  MaxAlerts                  \* bound: rows inserted

ASSUME AlertsAssumption ==
  DriftKeys \cap TrainingKeys = {} /\ MaxAlerts \in Nat

VARIABLES
  alerts,   \* the table, in the order of created_at
  recent,   \* the rows inside the deduplication window
  raise,    \* each raiser: its next step, the key, the row it continues with
  edit      \* each user's open request on a row, and the row as it was read

alertVars == <<alerts, recent, raise, edit>>

-----------------------------------------------------------------------------
Keys == DriftKeys \cup TrainingKeys
Rows == DOMAIN alerts
Training(a) == alerts[a].key \in TrainingKeys

\* known: history, the rows there were when this one's duplicates were sought.
AlertRecord == [key : Keys, status : {"ACTIVE", "ACKNOWLEDGED", "RESOLVED"},
                dated : BOOLEAN, known : SUBSET (1..MaxAlerts)]

IdleRaiser == [pc |-> "idle", row |-> 0]
IdleUser == [pc |-> "idle", row |-> 0]

AlertsTypeOK ==
  /\ Len(alerts) <= MaxAlerts /\ \A a \in Rows : alerts[a] \in AlertRecord
  /\ recent \subseteq Rows
  /\ \A r \in Raisers : raise[r].pc \in {"idle", "insert", "close"} /\ raise[r].row \in 0..Len(alerts)
  /\ \A u \in Users : edit[u].pc \in {"idle", "acknowledge", "resolve"} /\ edit[u].row \in 0..Len(alerts)

AlertsInit ==
  /\ alerts = <<>> /\ recent = {}
  /\ raise = [r \in Raisers |-> IdleRaiser] /\ edit = [u \in Users |-> IdleUser]

-----------------------------------------------------------------------------
(* Raising an alert *)

Duplicates(k) == {a \in recent : alerts[a].key = k /\ alerts[a].status = "ACTIVE"}

\* After create_alert: a training notification is closed in a second commit.
Continue(r, k, a) ==
  raise' = [raise EXCEPT ![r] =
              IF k \in TrainingKeys THEN [pc |-> "close", row |-> a] ELSE IdleRaiser]

FindDuplicate(r, k) ==
  /\ raise[r].pc = "idle" /\ Len(alerts) < MaxAlerts
  /\ \/ /\ Duplicates(k) = {}
        /\ raise' = [raise EXCEPT ![r] = [pc |-> "insert", row |-> 0, key |-> k, known |-> Rows]]
     \/ \E a \in Duplicates(k) : Continue(r, k, a)
  /\ UNCHANGED <<alerts, recent, edit>>

InsertAlert(r) ==
  LET k == raise[r].key
      a == Len(alerts) + 1
  IN
  /\ raise[r].pc = "insert" /\ a <= MaxAlerts
  /\ alerts' = Append(alerts, [key |-> k, status |-> "ACTIVE", dated |-> FALSE,
                               known |-> raise[r].known])
  /\ recent' = recent \cup {a}
  /\ Continue(r, k, a)
  /\ UNCHANGED edit

Resolved(a) == [a EXCEPT !.status = "RESOLVED", !.dated = TRUE]

\* The session's copy is ACTIVE, so both columns are written whatever happened
\* to the row since.
CloseTraining(r) ==
  /\ raise[r].pc = "close"
  /\ alerts' = [alerts EXCEPT ![raise[r].row] = Resolved(@)]
  /\ raise' = [raise EXCEPT ![r] = IdleRaiser]
  /\ UNCHANGED <<recent, edit>>

\* The worker dies or the request is cut between two of its steps.
RaiserDies(r) ==
  /\ raise[r].pc # "idle"
  /\ raise' = [raise EXCEPT ![r] = IdleRaiser]
  /\ UNCHANGED <<alerts, recent, edit>>

-----------------------------------------------------------------------------
(* Users: a request reads the row, then commits its changes. *)

GetAlert(u, op, a) ==
  /\ edit[u].pc = "idle"
  /\ edit' = [edit EXCEPT ![u] = [pc |-> op, row |-> a, read |-> alerts[a]]]
  /\ UNCHANGED <<alerts, recent, raise>>

\* A column set to the value the session read is not written.
WriteStatus(row, read, s) == IF read.status = s THEN row ELSE [row EXCEPT !.status = s]

Acknowledged(row, read) ==
  IF row.key \in TrainingKeys
  THEN [WriteStatus(row, read, "RESOLVED") EXCEPT !.dated = @ \/ ~read.dated]
  ELSE WriteStatus(row, read, "ACKNOWLEDGED")

ResolvedByUser(row, read) == [WriteStatus(row, read, "RESOLVED") EXCEPT !.dated = TRUE]

CommitEdit(u) ==
  LET e == edit[u] IN
  /\ e.pc # "idle"
  /\ alerts' = [alerts EXCEPT ![e.row] =
                  IF e.pc = "acknowledge" THEN Acknowledged(@, e.read) ELSE ResolvedByUser(@, e.read)]
  /\ edit' = [edit EXCEPT ![u] = IdleUser]
  /\ UNCHANGED <<recent, raise>>

\* list_alerts and get_alert_summary begin with this UPDATE.
AutoResolve ==
  /\ \E a \in Rows : Training(a) /\ alerts[a].status # "RESOLVED"
  /\ alerts' = [a \in Rows |-> IF Training(a) /\ alerts[a].status # "RESOLVED"
                               THEN Resolved(alerts[a]) ELSE alerts[a]]
  /\ UNCHANGED <<recent, raise, edit>>

\* The oldest recent alert leaves the window of DEDUP_WINDOW_HOURS.
WindowMoves ==
  /\ \E a \in recent : recent' = recent \ {a} /\ \A b \in recent : a <= b
  /\ UNCHANGED <<alerts, raise, edit>>

AlertsNext ==
  \/ \E r \in Raisers :
       \/ \E k \in Keys : FindDuplicate(r, k)
       \/ InsertAlert(r) \/ CloseTraining(r) \/ RaiserDies(r)
  \/ \E u \in Users :
       \/ \E op \in {"acknowledge", "resolve"}, a \in Rows : GetAlert(u, op, a)
       \/ CommitEdit(u)
  \/ AutoResolve \/ WindowMoves

-----------------------------------------------------------------------------
(* Properties *)

\* Two ACTIVE alerts of one model, type and title inside the window come only
\* from checks that ran at the same time: the later row's search was over before
\* the earlier row was there.  No acknowledgement, resolution, listing or crash
\* makes a twin (create_alert, _find_duplicate).
DuplicatesOnlyByRace ==
  \A a, b \in recent :
    a < b /\ alerts[a].key = alerts[b].key /\ alerts[a].status = "ACTIVE" /\ alerts[b].status = "ACTIVE"
      => a \notin alerts[b].known
=============================================================================
