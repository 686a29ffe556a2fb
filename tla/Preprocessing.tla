--------------------------- MODULE Preprocessing ----------------------------
(***************************************************************************)
(* The preprocessing plan of one feature set: recommendations, decisions,  *)
(* an audit trail and a version, all in one row.  A request reads the row, *)
(* may generate the recommendations (a long await on the source data), and *)
(* writes whole columns back: nothing orders two requests on the row.  The *)
(* check of expected_plan_version is against the row the request has just  *)
(* read, so it refuses old drafts and orders nothing either.               *)
(***************************************************************************)
EXTENDS Integers, Sequences, SequencesExt

CONSTANTS
  Features,     \* the keys of the recommendations
  Editors,      \* requests that can be open at a time
  MaxWrites     \* bound: decisions and plan commits

ASSUME PreprocessingAssumption == MaxWrites \in Nat

VARIABLES
  plan,       \* the row
  draft,      \* each request: its next step and the row as its session has it
  writes,
  crossed     \* history: columns of one writer were paired with older ones

planVars == <<plan, draft, writes, crossed>>

-----------------------------------------------------------------------------
DecisionStatuses == {"pending", "accepted", "locked"}

\* The statuses that matter: open, decided, locked.  generated says that the
\* recommendations exist; decisions are NULL until then.
Undecided == [f \in {} |-> "pending"]
Defaults == [f \in Features |-> "pending"]

CommitEntry == [action |-> "commit"]
DecisionEntry(f, s) == [action |-> "decision", feature |-> f, status |-> s]

IdleEditor == [pc |-> "idle"]

PlanTypeOK ==
  /\ plan.generated \in BOOLEAN
  /\ plan.decisions = Undecided \/ plan.decisions \in [Features -> DecisionStatuses]
  /\ plan.version \in 0..MaxWrites /\ Len(plan.audit) <= MaxWrites
  /\ \A u \in Editors : draft[u].pc \in {"idle", "generate", "write"}
  /\ writes \in 0..MaxWrites /\ crossed \in BOOLEAN

PlanInit ==
  /\ plan = [generated |-> FALSE, decisions |-> Undecided, version |-> 0,
             audit |-> <<>>, snapshot |-> Undecided]
  /\ draft = [u \in Editors |-> IdleEditor]
  /\ writes = 0 /\ crossed = FALSE

-----------------------------------------------------------------------------
(* get_preprocessing_plan, update_preprocessing_decisions,
   commit_preprocessing_plan *)

Open(u, op) ==
  /\ draft[u].pc = "idle" /\ op = "get" => ~plan.generated
  /\ draft' = [draft EXCEPT ![u] = [pc |-> IF plan.generated THEN "write" ELSE "generate",
                                    op |-> op, row |-> plan]]
  /\ UNCHANGED <<plan, writes, crossed>>

\* Defaults go in if the session's copy, read before the await, had none.
WithPlan(p, read) ==
  [p EXCEPT !.generated = TRUE,
            !.decisions = IF read.decisions = Undecided THEN Defaults ELSE @]

\* The row is refreshed before the request goes on.
Generate(u) ==
  /\ draft[u].pc = "generate"
  /\ plan' = WithPlan(plan, draft[u].row)
  /\ crossed' = (crossed \/ (plan.audit # <<>> /\ plan'.decisions # plan.decisions))
  /\ draft' = [draft EXCEPT ![u] = IF @.op = "get" THEN IdleEditor
                                   ELSE [@ EXCEPT !.pc = "write", !.row = plan']]
  /\ UNCHANGED writes

Allowed(read, f, s) == read.decisions[f] = "locked" => s = "locked"

\* Mutant: the audit entry is dropped.
UpdatedUnaudited(p, read, f, s) ==
  [p EXCEPT !.decisions = [read.decisions EXCEPT ![f] = s], !.audit = read.audit]

\* Both columns are replaced by the session's, with the change.
Updated(p, read, f, s) ==
  [p EXCEPT !.decisions = [read.decisions EXCEPT ![f] = s],
            !.audit = Append(read.audit, DecisionEntry(f, s))]

Decide(u, f, s) ==
  LET read == draft[u].row IN
  /\ draft[u].pc = "write" /\ draft[u].op = "update" /\ writes < MaxWrites
  /\ Allowed(read, f, s)
  /\ plan' = Updated(plan, read, f, s)
  /\ writes' = writes + 1 /\ draft' = [draft EXCEPT ![u] = IdleEditor]
  /\ UNCHANGED crossed

IsDecision(e) == e.action = "decision"

\* The same decisions in the same order, whatever commits lie between them.
SameDecisions(a, b) ==
  LET At(audit) == {i \in DOMAIN audit : IsDecision(audit[i])} IN
  \E m \in [At(a) -> At(b)] :
    /\ \A j \in At(b) : \E i \in At(a) : m[i] = j
    /\ \A i \in At(a) : a[i] = b[m[i]] /\ \A k \in At(a) : i < k => m[i] < m[k]

\* Version, snapshot and audit come from the session's copy; the decisions
\* column is left as it is.
CommitPlan(u) ==
  LET read == draft[u].row IN
  /\ draft[u].pc = "write" /\ draft[u].op = "commit" /\ writes < MaxWrites
  /\ plan' = [plan EXCEPT !.version = read.version + 1, !.snapshot = read.decisions,
                          !.audit = Append(read.audit, CommitEntry)]
  /\ crossed' = (crossed \/ ~SameDecisions(read.audit, plan.audit))
  /\ writes' = writes + 1 /\ draft' = [draft EXCEPT ![u] = IdleEditor]

\* The source data cannot be read, an update is refused, the client leaves.
Drop(u) ==
  /\ draft[u].pc # "idle" /\ draft' = [draft EXCEPT ![u] = IdleEditor]
  /\ UNCHANGED <<plan, writes, crossed>>

PlanNext ==
  \E u \in Editors :
    \/ \E op \in {"get", "update", "commit"} : Open(u, op)
    \/ Generate(u) \/ CommitPlan(u) \/ Drop(u)
    \/ \E f \in Features, s \in DecisionStatuses : Decide(u, f, s)

-----------------------------------------------------------------------------
(* Properties *)

Audited(f) ==
  LET About(e) == IsDecision(e) /\ e.feature = f
      last == SelectLastInSeq(plan.audit, About)
  IN IF last = 0 THEN "pending" ELSE plan.audit[last].status

\* The trail explains every decision, whichever updates overlapped, because an
\* update replaces decisions and audit together; only a plan commit or a
\* generation that overlapped an update can pair one writer's decisions with
\* another's trail (update_preprocessing_decisions).
AuditMatches ==
  ~crossed /\ plan.decisions # Undecided
    => \A f \in Features : plan.decisions[f] = Audited(f)

=============================================================================
