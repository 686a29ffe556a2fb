------------------------------ MODULE Accounts ------------------------------
(***************************************************************************)
(* Accounts and role requests.  Every request of an administrator reads a  *)
(* row, checks it, and commits later: two administrators can decide the    *)
(* same role request, and a column set to the value that was read is not   *)
(* written at all.                                                         *)
(***************************************************************************)
EXTENDS FiniteSets

CONSTANTS
  People, Roles, Viewer,
  RoleRequests,
  Admins            \* administrators' requests open at a time

ASSUME AccountsAssumption == Viewer \in Roles

VARIABLES
  account,     \* each person: no account, or its role and whether it is active
  request,     \* each role request: whose, for which role, its status
  desk,        \* each administrator's open request and the row it read
  granted,     \* history: requests whose role was given
  overlapped   \* history: requests decided while another decision was open

accountVars == <<account, request, desk, granted, overlapped>>

-----------------------------------------------------------------------------
NoAccount == [exists |-> FALSE, role |-> Viewer, active |-> FALSE]
NoRoleRequest == [status |-> "none"]
DeskEmpty == [op |-> "none"]

RequestStatuses == {"PENDING", "APPROVED", "REJECTED"}

AccountsTypeOK ==
  /\ account \in [People -> [exists : BOOLEAN, role : Roles, active : BOOLEAN]]
  /\ \A q \in RoleRequests :
       request[q] = NoRoleRequest
       \/ request[q] \in [status : RequestStatuses, of : People, role : Roles]
  /\ \A a \in Admins : desk[a].op \in {"none", "approve", "reject", "role", "toggle", "delete"}
  /\ granted \subseteq RoleRequests /\ overlapped \subseteq RoleRequests

AccountsInit ==
  /\ account = [p \in People |-> NoAccount]
  /\ request = [q \in RoleRequests |-> NoRoleRequest]
  /\ desk = [a \in Admins |-> DeskEmpty] /\ granted = {} /\ overlapped = {}

-----------------------------------------------------------------------------
(* Sign-up, creation by an administrator, role requests *)

CreateUser(p, role) ==
  /\ ~account[p].exists
  /\ account' = [account EXCEPT ![p] = [exists |-> TRUE, role |-> role, active |-> TRUE]]
  /\ UNCHANGED <<request, desk, granted, overlapped>>

\* get_current_user accepts active accounts only.
CreateRequest(p, q, role) ==
  /\ account[p].exists /\ account[p].active /\ request[q] = NoRoleRequest
  /\ request' = [request EXCEPT ![q] = [status |-> "PENDING", of |-> p, role |-> role]]
  /\ UNCHANGED <<account, desk, granted, overlapped>>

-----------------------------------------------------------------------------
(* approve_request and reject_request *)

\* Mutant: a decision does not look at the status.
DecidableAlways == RequestStatuses

Decidable == {"PENDING"}

ReadRequest(a, op, q) ==
  /\ desk[a] = DeskEmpty /\ request[q].status \in Decidable
  /\ desk' = [desk EXCEPT ![a] = [op |-> op, on |-> q]]
  /\ UNCHANGED <<account, request, granted, overlapped>>

Deciding(a) == desk[a].op \in {"approve", "reject"}

Overlaps(a) == \E b \in Admins \ {a} : Deciding(b) /\ desk[b].on = desk[a].on

\* The account's UPDATE and the request's are one transaction.
Decision(a) ==
  LET q == desk[a].on IN
  /\ Deciding(a)
  /\ overlapped' = IF Overlaps(a) THEN overlapped \cup {q} ELSE overlapped
  /\ desk' = [desk EXCEPT ![a] = DeskEmpty]
  /\ \/ /\ desk[a].op = "approve"
        /\ request' = [request EXCEPT ![q].status = "APPROVED"]
        /\ account' = [account EXCEPT ![request[q].of].role = request[q].role]
        /\ granted' = granted \cup {q}
     \/ /\ desk[a].op = "reject"
        /\ request' = [request EXCEPT ![q].status = "REJECTED"]
        /\ UNCHANGED <<account, granted>>

-----------------------------------------------------------------------------
(* update_user_role, toggle_user_status, delete_user *)

ReadUser(a, op, p, role) ==
  /\ desk[a] = DeskEmpty /\ account[p].exists
  /\ desk' = [desk EXCEPT ![a] = [op |-> op, on |-> p, role |-> role, read |-> account[p]]]
  /\ UNCHANGED <<account, request, granted, overlapped>>

\* A row with role requests cannot be deleted (foreign key), a row that is gone
\* cannot be written.
WriteUser(a) ==
  LET d == desk[a] IN
  /\ d.op \in {"role", "toggle", "delete"}
  /\ desk' = [desk EXCEPT ![a] = DeskEmpty]
  /\ account' =
       IF ~account[d.on].exists THEN account
       ELSE [account EXCEPT ![d.on] =
               CASE d.op = "role" -> IF d.role = d.read.role THEN @ ELSE [@ EXCEPT !.role = d.role]
                 [] d.op = "toggle" -> [@ EXCEPT !.active = ~d.read.active]
                 [] d.op = "delete" ->
                      IF \E q \in RoleRequests : request[q] # NoRoleRequest /\ request[q].of = d.on
                      THEN @ ELSE NoAccount]
  /\ UNCHANGED <<request, granted, overlapped>>

AccountsNext ==
  \/ \E p \in People, role \in Roles :
       \/ CreateUser(p, role)
       \/ \E q \in RoleRequests : CreateRequest(p, q, role)
       \/ \E a \in Admins, op \in {"role", "toggle", "delete"} :
            (op # "role" => role = Viewer) /\ ReadUser(a, op, p, role)
  \/ \E a \in Admins :
       \/ \E op \in {"approve", "reject"}, q \in RoleRequests : ReadRequest(a, op, q)
       \/ Decision(a) \/ WriteUser(a)

-----------------------------------------------------------------------------
(* Properties *)

\* A request that stands rejected gave no role, unless two administrators had it
\* open at the same time (the PENDING check of approve_request, reject_request).
RejectedNotGranted ==
  \A q \in granted : request[q].status = "REJECTED" => q \in overlapped
=============================================================================
