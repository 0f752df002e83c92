-------------------------------- MODULE Roster --------------------------------
(***************************************************************************)
(* What the enrolment endpoints promise, with no request in sight: the     *)
(* roster of every class, the requests waiting for a decision, and the     *)
(* audit trail change together, in single steps, and only on behalf of     *)
(* somebody who may make the change.  Module Enrollment implements it.     *)
(***************************************************************************)
EXTENDS Naturals, Sequences

CONSTANTS
  Users,      \* the accounts (User.userId)
  Students,   \* the accounts whose memberships are followed
  Classes,    \* the ids class rows will ever have (Class.classId, a uuid)
  Role,       \* Role[u] is "STUDENT", "PROFESSOR" or "ADMIN"
  Owner       \* Owner[c] is the professorId the row of c is created with

Roles == {"STUDENT", "PROFESSOR", "ADMIN"}

ASSUME StudentsAssumption == Students \subseteq Users
ASSUME RoleAssumption  == Role \in [Users -> Roles]
ASSUME OwnerAssumption == Owner \in [Classes -> Users]

VARIABLES
  status,     \* status[c]: the row of c is not there yet, there, or deleted
  members,    \* the rows <<class, student>> of ClassStudent
  pending,    \* the rows <<class, student>> of StudentClassPermissionRequest
  audit       \* audit[p]: the events recorded for the membership p, in order

vars == <<status, members, pending, audit>>

Pairs   == Classes \X Students
Changes == {"added", "removed"}
Events  == [actor : Users, change : Changes]

\* The professor of the class or an ADMIN, whoever they are.
Managers(c) == {u \in Users : u = Owner[c] \/ Role[u] = "ADMIN"}

Live(c) == status[c] = "live"

\* classStudent.added / classStudent.removed, in the transaction of the change.
Log(p, actor, change) ==
  audit' = [audit EXCEPT ![p] = Append(@, [actor |-> actor, change |-> change])]

-------------------------------------------------------------------------------
Init ==
  /\ status = [c \in Classes |-> "unborn"]
  /\ members = {}
  /\ pending = {}
  /\ audit = [p \in Pairs |-> <<>>]

Open(c) ==
  /\ status[c] = "unborn"
  /\ status' = [status EXCEPT ![c] = "live"]
  /\ UNCHANGED <<members, pending, audit>>

\* A manager enrols s; approving also consumes the student's request.
Join(c, s, manager) ==
  /\ Live(c)
  /\ <<c, s>> \notin members
  /\ members' = members \cup {<<c, s>>}
  /\ \/ UNCHANGED pending
     \/ <<c, s>> \in pending /\ pending' = pending \ {<<c, s>>}
  /\ Log(<<c, s>>, manager, "added")
  /\ UNCHANGED status

\* The student or a manager ends the membership; a pending request is untouched.
Leave(c, s, actor) ==
  /\ <<c, s>> \in members
  /\ members' = members \ {<<c, s>>}
  /\ Log(<<c, s>>, actor, "removed")
  /\ UNCHANGED <<status, pending>>

Ask(c, s) ==
  /\ Live(c)
  /\ <<c, s>> \notin pending
  /\ pending' = pending \cup {<<c, s>>}
  /\ UNCHANGED <<status, members, audit>>

\* Rejected by a manager or cancelled by the student.
Withdraw(c, s) ==
  /\ <<c, s>> \in pending
  /\ pending' = pending \ {<<c, s>>}
  /\ UNCHANGED <<status, members, audit>>

\* Deleting the class deletes its memberships and requests; no event is recorded.
Close(c) ==
  /\ Live(c)
  /\ status' = [status EXCEPT ![c] = "deleted"]
  /\ members' = {p \in members : p[1] # c}
  /\ pending' = {p \in pending : p[1] # c}
  /\ UNCHANGED audit

Next ==
  \E c \in Classes :
    \/ Open(c)
    \/ Close(c)
    \/ \E s \in Students :
         \/ Ask(c, s)
         \/ Withdraw(c, s)
         \/ \E a \in Managers(c) : Join(c, s, a)
         \/ \E a \in Managers(c) \cup {s} : Leave(c, s, a)

Spec == Init /\ [][Next]_vars

-------------------------------------------------------------------------------
RosterTypeOK ==
  /\ status \in [Classes -> {"unborn", "live", "deleted"}]
  /\ members \subseteq Pairs
  /\ pending \subseteq Pairs
  /\ audit \in [Pairs -> Seq(Events)]

\* ClassStudent and request rows exist only while their class does.
RowsBelongToLiveClasses ==
  \A p \in members \cup pending : Live(p[1])

\* The trail of every membership alternates, starting with "added".
TrailAlternates ==
  \A p \in Pairs : \A i \in 1..Len(audit[p]) :
    audit[p][i].change = IF i % 2 = 1 THEN "added" ELSE "removed"

\* Until a class is deleted, its roster is what the trail replays to.
TrailReplaysToRoster ==
  \A p \in Pairs :
    status[p[1]] # "deleted" => (p \in members <=> Len(audit[p]) % 2 = 1)

\* Nobody enrols a student but a manager; nobody removes one but the student
\* or a manager.
TrailActorsAllowed ==
  \A p \in Pairs : \A i \in 1..Len(audit[p]) :
    \/ audit[p][i].actor \in Managers(p[1])
    \/ audit[p][i].change = "removed" /\ audit[p][i].actor = p[2]
===============================================================================
