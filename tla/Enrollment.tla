------------------------------ MODULE Enrollment ------------------------------
(***************************************************************************)
(* Classes, memberships and membership requests as the HTTP handlers of    *)
(* class.service.ts, class-student.service.ts and                          *)
(* student-class-permission-request.service.ts run them.  A slot serves    *)
(* one call at a time; between two awaits of a handler every other slot    *)
(* may run.  A single statement or an audit.transaction is one step: under *)
(* READ COMMITTED the unique keys and foreign keys it meets decide whether *)
(* it commits, and it changes nothing when it does not.                    *)
(***************************************************************************)
EXTENDS Roster

CONSTANTS
  Slots,      \* the calls the server can be serving at the same time
  NoCall,     \* the content of an idle slot
  MaxTrail    \* bound: no enrolment or removal starts on a trail this long

VARIABLE
  call        \* call[k]: the call slot k is serving and the step it is at

rowVars == <<status, members, pending, audit>>
evars   == <<status, members, pending, audit, call>>

Ops == {"open", "close", "enrol", "remove", "ask", "approve", "reject", "cancel"}

\* The steps a call goes through: reading the class, isStudentInClass, getByIds
\* of the request, and the statement or transaction that writes.
Steps == {"class", "member", "request", "write"}

Calls ==
  [op : Ops, actor : Users, class : Classes, student : Students, at : Steps]

ASSUME NoCallAssumption == NoCall \notin Calls
ASSUME MaxTrailAssumption == MaxTrail \in Nat

pair(k) == <<call[k].class, call[k].student>>

Serving(k, op, at) == call[k] # NoCall /\ call[k].op = op /\ call[k].at = at

Answer(k) == call' = [call EXCEPT ![k] = NoCall]

Refuse(k) == Answer(k) /\ UNCHANGED rowVars

Advance(k, at) ==
  /\ call' = [call EXCEPT ![k].at = at]
  /\ UNCHANGED <<status, members, pending, audit>>

-------------------------------------------------------------------------------
EInit ==
  /\ Init
  /\ call = [k \in Slots |-> NoCall]

\* @Roles of the controllers; every route takes an authenticated user.
RolesFor(op) ==
  IF op \in {"open", "close", "enrol", "approve", "reject"}
  THEN {"PROFESSOR", "ADMIN"} ELSE Roles

\* A new class row gets a fresh uuid: no two calls create the same one.
Opening(c) ==
  \E k \in Slots : call[k] # NoCall /\ call[k].op = "open" /\ call[k].class = c

\* A student asks for himself; creating a class and cancelling read nothing first.
Begin(k, op, u, c, s) ==
  /\ call[k] = NoCall
  /\ Role[u] \in RolesFor(op)
  /\ op = "open" => u = Owner[c] /\ status[c] = "unborn" /\ ~Opening(c)
  /\ op = "ask" => s = u
  /\ op \in {"enrol", "remove", "approve"} => Len(audit[<<c, s>>]) < MaxTrail
  /\ call' = [call EXCEPT ![k] =
       [op |-> op, actor |-> u, class |-> c, student |-> s,
        at |-> IF op \in {"open", "cancel"} THEN "write" ELSE "class"]]
  /\ UNCHANGED rowVars

\* Mutant: the owner is not compared, every PROFESSOR manages every class.
MayProceedAnyProfessor(q) == Role[q.actor] # "STUDENT" \/ q.op = "ask" \/ q.student = q.actor

\* Whose call passes the check made on the class just read.
MayProceed(q) ==
  \/ q.op = "ask"
  \/ q.actor \in Managers(q.class)
  \/ q.op = "remove" /\ q.student = q.actor

StepAfterClass(op) ==
  CASE op = "ask"                      -> "member"
    [] op \in {"approve", "reject"}    -> "request"
    [] OTHER                           -> "write"

\* getById of the class (404), then the authorization helper (403).
LoadClass(k) ==
  /\ call[k] # NoCall /\ call[k].at = "class"
  /\ IF Live(call[k].class) /\ MayProceed(call[k])
     THEN Advance(k, StepAfterClass(call[k].op))
     ELSE Refuse(k)

\* ask: 409 when the student is already a member.
CheckMember(k) ==
  /\ Serving(k, "ask", "member")
  /\ IF pair(k) \in members THEN Refuse(k) ELSE Advance(k, "request")

\* ask: 409 when a request exists.  approve, reject: 404 when none does.
CheckRequest(k) ==
  /\ call[k] # NoCall /\ call[k].at = "request"
  /\ IF (pair(k) \in pending) = (call[k].op \in {"approve", "reject"})
     THEN Advance(k, "write")
     ELSE Refuse(k)

-------------------------------------------------------------------------------
(* The writes that commit. *)

WriteOpen(k) ==
  /\ Serving(k, "open", "write")
  /\ status' = [status EXCEPT ![call[k].class] = "live"]
  /\ UNCHANGED <<members, pending, audit>>
  /\ Answer(k)

\* Mutant: the foreign key of the requests does not cascade.
WriteCloseKeepingRequests(k) ==
  /\ Serving(k, "close", "write")
  /\ Live(call[k].class)
  /\ status' = [status EXCEPT ![call[k].class] = "deleted"]
  /\ members' = {p \in members : p[1] # call[k].class}
  /\ UNCHANGED <<pending, audit>>
  /\ Answer(k)

\* The foreign keys delete the memberships and the requests with the row.
WriteClose(k) ==
  /\ Serving(k, "close", "write")
  /\ Live(call[k].class)
  /\ status' = [status EXCEPT ![call[k].class] = "deleted"]
  /\ members' = {p \in members : p[1] # call[k].class}
  /\ pending' = {p \in pending : p[1] # call[k].class}
  /\ UNCHANGED audit
  /\ Answer(k)

WriteEnrol(k) ==
  /\ Serving(k, "enrol", "write")
  /\ Live(call[k].class)
  /\ pair(k) \notin members
  /\ members' = members \cup {pair(k)}
  /\ Log(pair(k), call[k].actor, "added")
  /\ UNCHANGED <<status, pending>>
  /\ Answer(k)

WriteRemove(k) ==
  /\ Serving(k, "remove", "write")
  /\ pair(k) \in members
  /\ members' = members \ {pair(k)}
  /\ Log(pair(k), call[k].actor, "removed")
  /\ UNCHANGED <<status, pending>>
  /\ Answer(k)

WriteAsk(k) ==
  /\ Serving(k, "ask", "write")
  /\ Live(call[k].class)
  /\ pair(k) \notin pending
  /\ pending' = pending \cup {pair(k)}
  /\ UNCHANGED <<status, members, audit>>
  /\ Answer(k)

\* Mutant: approving records no event.
WriteApproveUnrecorded(k) ==
  /\ Serving(k, "approve", "write")
  /\ Live(call[k].class) /\ pair(k) \notin members /\ pair(k) \in pending
  /\ members' = members \cup {pair(k)}
  /\ pending' = pending \ {pair(k)}
  /\ UNCHANGED <<status, audit>>
  /\ Answer(k)

\* Mutant: approving records an action of its own instead of the enrolment.
WriteApproveRenamed(k) ==
  /\ Serving(k, "approve", "write")
  /\ Live(call[k].class) /\ pair(k) \notin members /\ pair(k) \in pending
  /\ members' = members \cup {pair(k)}
  /\ pending' = pending \ {pair(k)}
  /\ Log(pair(k), call[k].actor, "approved")
  /\ UNCHANGED status
  /\ Answer(k)

\* One transaction: insert the membership, delete the request, record the event.
WriteApprove(k) ==
  /\ Serving(k, "approve", "write")
  /\ Live(call[k].class)
  /\ pair(k) \notin members
  /\ pair(k) \in pending
  /\ members' = members \cup {pair(k)}
  /\ pending' = pending \ {pair(k)}
  /\ Log(pair(k), call[k].actor, "added")
  /\ UNCHANGED status
  /\ Answer(k)

\* Mutant: cancel does not compare the student of the path with the caller.
WriteWithdrawByAnybody(k) ==
  /\ Serving(k, "reject", "write") \/ Serving(k, "cancel", "write")
  /\ pair(k) \in pending
  /\ pending' = pending \ {pair(k)}
  /\ UNCHANGED <<status, members, audit>>
  /\ Answer(k)

\* reject and cancel end in the same delete; only the author may cancel.
WriteWithdraw(k) ==
  /\ \/ Serving(k, "reject", "write")
     \/ Serving(k, "cancel", "write") /\ call[k].student = call[k].actor
  /\ pair(k) \in pending
  /\ pending' = pending \ {pair(k)}
  /\ UNCHANGED <<status, members, audit>>
  /\ Answer(k)

Write(k) ==
  \/ WriteOpen(k) \/ WriteClose(k) \/ WriteEnrol(k) \/ WriteRemove(k)
  \/ WriteAsk(k) \/ WriteApprove(k) \/ WriteWithdraw(k)

\* What the database or the last check of the handler turns down.  A class is
\* also turned down when another took its code since generateUniqueCode read.
Unwritable(q) ==
  LET p == <<q.class, q.student>> IN
  CASE q.op = "open"    -> TRUE
    [] q.op = "close"   -> ~Live(q.class)
    [] q.op = "enrol"   -> ~Live(q.class) \/ p \in members
    [] q.op = "remove"  -> p \notin members
    [] q.op = "ask"     -> ~Live(q.class) \/ p \in pending
    [] q.op = "approve" -> ~Live(q.class) \/ p \in members \/ p \notin pending
    [] q.op = "reject"  -> p \notin pending
    [] q.op = "cancel"  -> p \notin pending \/ q.student # q.actor

RefuseWrite(k) ==
  /\ call[k] # NoCall /\ call[k].at = "write"
  /\ Unwritable(call[k])
  /\ Refuse(k)

\* The process or a connection dies between two steps: a 500, or no answer.
Fail(k) == call[k] # NoCall /\ Refuse(k)

Step(k) ==
  \/ LoadClass(k) \/ CheckMember(k) \/ CheckRequest(k)
  \/ Write(k) \/ RefuseWrite(k) \/ Fail(k)

ENext ==
  \E k \in Slots :
    \/ Step(k)
    \/ \E op \in Ops, u \in Users, c \in Classes, s \in Students :
         Begin(k, op, u, c, s)

ESpec == EInit /\ [][ENext]_evars

-------------------------------------------------------------------------------
\* Type invariant: the rows and the trail are those of Roster, and every slot
\* is idle or holds a call with one of the steps of its handler.
TypeOK ==
  /\ RosterTypeOK
  /\ call \in [Slots -> Calls \cup {NoCall}]

\* A request goes away only when a manager decides it, its author cancels it, or
\* a manager deletes the class: approve, reject and cancel end in the same
\* delete of the row, and only the calls before it tell who may reach it.
WithdrawalAuthorised ==
  \A p \in pending \ pending' :
    \E k \in Slots :
      /\ call[k] # NoCall /\ call'[k] = NoCall /\ call[k].class = p[1]
      /\ \/ call[k].actor \in Managers(p[1])
         \/ call[k].op = "cancel" /\ call[k].actor = p[2]

WithdrawalsAuthorised == [][WithdrawalAuthorised]_evars
===============================================================================
