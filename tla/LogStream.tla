----------------------------- MODULE LogStream -----------------------------
(***************************************************************************)
(* The log of one training job: the list and the status key in Redis, the  *)
(* executions of the job that push lines, and the connections that follow  *)
(* the log as Server-Sent Events (get_training_logs with stream=true).     *)
(*                                                                         *)
(* Each round of a connection is two Redis commands, LRANGE and then GET,  *)
(* with an await between them.                                             *)
(***************************************************************************)
EXTENDS Naturals, SequencesExt

CONSTANTS
  Connections,
  MaxLines,           \* bound: lines pushed
  MaxRuns,            \* bound: executions of the job
  MaxExpiries         \* bound: times the keys reach their time to live

ASSUME LogStreamAssumption == MaxLines \in Nat /\ MaxRuns \in Nat /\ MaxExpiries \in Nat

VARIABLES
  log,                \* training:logs:{job_id}; a line is its number
  status,             \* training:status:{job_id}
  phase, runs,        \* the execution under way, the executions so far
  pushed, expiries,   \* lines pushed and expiries so far
  pc, cursor, got,    \* each connection: next command, cursor, lines sent
  expired,            \* history: the list expired since it was opened
  before              \* history: lines pushed before the status was written

job == <<log, status, phase, runs, pushed, before>>
connection == <<pc, cursor, got, expired>>
vars == <<job, expiries, connection>>

-----------------------------------------------------------------------------
Terminal == {"COMPLETED", "FAILED"}      \* the third of the code is never written
Lines == 1..MaxLines
Open == {"fetch", "check"}

TypeOK ==
  /\ log \in Seq(Lines)
  /\ status \in {"none"} \cup Terminal
  /\ phase \in {"idle", "running", "reported"}
  /\ runs \in 0..MaxRuns /\ expiries \in 0..MaxExpiries
  /\ pushed \in 0..MaxLines /\ before \in 0..pushed
  /\ pc \in [Connections -> {"closed", "done"} \cup Open]
  /\ cursor \in [Connections -> Nat]
  /\ got \in [Connections -> Seq(Lines)]
  /\ expired \in [Connections -> BOOLEAN]

Init ==
  /\ log = <<>> /\ status = "none" /\ phase = "idle"
  /\ runs = 0 /\ pushed = 0 /\ expiries = 0 /\ before = 0
  /\ pc = [c \in Connections |-> "closed"]
  /\ cursor = [c \in Connections |-> 0]
  /\ got = [c \in Connections |-> <<>>]
  /\ expired = [c \in Connections |-> FALSE]

-----------------------------------------------------------------------------
(* The worker *)

\* attach_job_logger: the first execution, a retry or a redelivery.  The
\* lines and the status of an earlier one stay.
Attach ==
  /\ phase = "idle" /\ runs < MaxRuns
  /\ phase' = "running" /\ runs' = runs + 1
  /\ UNCHANGED <<log, status, pushed, before, expiries, connection>>

\* JobLogHandler.emit; STEP 9 logs after the status was written.
Emit ==
  /\ phase # "idle" /\ pushed < MaxLines
  /\ pushed' = pushed + 1
  /\ log' = Append(log, pushed')
  /\ UNCHANGED <<status, phase, runs, before, expiries, connection>>

\* _set_redis_status, unless Redis fails.
Report ==
  /\ phase = "running"
  /\ phase' = "reported"
  /\ \/ status' \in Terminal /\ before' = pushed
     \/ UNCHANGED <<status, before>>
  /\ UNCHANGED <<log, runs, pushed, expiries, connection>>

\* detach_job_logger, or the child dies; before a retry nothing is reported.
Detach ==
  /\ phase # "idle"
  /\ phase' = "idle"
  /\ UNCHANGED <<log, status, runs, pushed, before, expiries, connection>>

\* A day after the first line of the last execution Redis drops the list, ...
ExpireLog ==
  /\ phase = "idle" /\ log # <<>> /\ expiries < MaxExpiries
  /\ log' = <<>> /\ expiries' = expiries + 1
  /\ expired' = [c \in Connections |-> TRUE]
  /\ UNCHANGED <<status, phase, runs, pushed, before, pc, cursor, got>>

\* ... and a day after it was written the status.
ExpireStatus ==
  /\ status # "none" /\ expiries < MaxExpiries
  /\ status' = "none" /\ expiries' = expiries + 1
  /\ UNCHANGED <<log, phase, runs, pushed, before, connection>>

-----------------------------------------------------------------------------
(* A connection *)

\* Mutant of Connect: only what comes is sent, as by tail -f.
ConnectAtEnd(c) ==
  /\ pc[c] = "closed"
  /\ pc' = [pc EXCEPT ![c] = "fetch"]
  /\ cursor' = [cursor EXCEPT ![c] = Len(log)]
  /\ got' = [got EXCEPT ![c] = <<>>]
  /\ expired' = [expired EXCEPT ![c] = FALSE]
  /\ UNCHANGED <<job, expiries>>

\* A new connection, or a reconnection: it starts at the first line again.
Connect(c) ==
  /\ pc[c] = "closed"
  /\ pc' = [pc EXCEPT ![c] = "fetch"]
  /\ cursor' = [cursor EXCEPT ![c] = 0]
  /\ got' = [got EXCEPT ![c] = <<>>]
  /\ expired' = [expired EXCEPT ![c] = FALSE]
  /\ UNCHANGED <<job, expiries>>

\* Mutant of Fetch: the cursor is not used.
FetchWhole(c) ==
  /\ pc[c] = "fetch"
  /\ pc' = [pc EXCEPT ![c] = "check"]
  /\ got' = [got EXCEPT ![c] = @ \o log]
  /\ cursor' = [cursor EXCEPT ![c] = @ + Len(log)]
  /\ UNCHANGED <<job, expiries, expired>>

\* Mutant of Fetch: waits for new lines.
FetchSome(c) ==
  /\ pc[c] = "fetch" /\ Len(log) > cursor[c]
  /\ pc' = [pc EXCEPT ![c] = "check"]
  /\ got' = [got EXCEPT ![c] = @ \o SubSeq(log, cursor[c] + 1, Len(log))]
  /\ cursor' = [cursor EXCEPT ![c] = Len(log)]
  /\ UNCHANGED <<job, expiries, expired>>

\* LRANGE cursor -1, and the lines are sent.
Fetch(c) ==
  /\ pc[c] = "fetch"
  /\ pc' = [pc EXCEPT ![c] = "check"]
  /\ LET lines == SubSeq(log, cursor[c] + 1, Len(log))
     IN /\ got' = [got EXCEPT ![c] = @ \o lines]
        /\ cursor' = [cursor EXCEPT ![c] = @ + Len(lines)]
  /\ UNCHANGED <<job, expiries, expired>>

\* GET of the status; without a terminal one the loop sleeps and goes round.
Check(c) ==
  /\ pc[c] = "check"
  /\ pc' = [pc EXCEPT ![c] = IF status \in Terminal THEN "done" ELSE "fetch"]
  /\ UNCHANGED <<job, expiries, cursor, got, expired>>

\* The client goes away, or Redis fails and the generator raises; a
\* finished stream may be opened again.
Drop(c) ==
  /\ pc[c] # "closed"
  /\ pc' = [pc EXCEPT ![c] = "closed"]
  /\ UNCHANGED <<job, expiries, cursor, got, expired>>

-----------------------------------------------------------------------------
Next ==
  \/ Attach \/ Emit \/ Report \/ Detach \/ ExpireLog \/ ExpireStatus
  \/ \E c \in Connections : Connect(c) \/ Fetch(c) \/ Check(c) \/ Drop(c)

Spec == Init /\ [][Next]_vars

\* The event loop resumes each generator; nothing else must happen.
FairSpec == Spec /\ \A c \in Connections : WF_vars(Fetch(c)) /\ WF_vars(Check(c))
-----------------------------------------------------------------------------
\* A connection sends each line once and in order, from the first one to the
\* cursor, whatever is pushed between its commands and however many
\* executions push; only an expiry under an open connection leaves a gap.
SendsPrefix ==
  \A c \in Connections :
    /\ pc[c] \in Open /\ ~expired[c] =>
         cursor[c] <= Len(log) /\ got[c] = SubSeq(log, 1, cursor[c])
    /\ \A i, k \in DOMAIN got[c] : i < k => got[c][i] < got[c][k]

\* A line in the list reaches each open connection that stays open and is
\* not told that the job is over.
LinesArrive ==
  \A c \in Connections, line \in Lines :
    pc[c] \in Open /\ line \in ToSet(log) ~>
      pc[c] \notin Open \/ expired[c] \/ line \in ToSet(got[c])

\* Once a terminal status is in Redis an open connection ends, unless the
\* status expires first.
StreamEnds ==
  \A c \in Connections :
    pc[c] \in Open /\ status \in Terminal ~> pc[c] \notin Open \/ status = "none"

-----------------------------------------------------------------------------
(* What the code says of itself and does not do *)

\* "pushes new lines in real-time until the job reaches a terminal state": a
\* stream that says done has sent what was logged before that state.
DoneIsComplete ==
  [][\A c \in Connections :
       pc[c] = "check" /\ pc'[c] = "done" /\ ~expired[c] =>
         \A line \in ToSet(log) : line <= before => line \in ToSet(got[c])]_vars
=============================================================================
