--------------------------- MODULE AuditedUpdates ---------------------------
(***************************************************************************)
(* The updates that leave a { before, after } in the business trail        *)
(* (schema.prisma: AuditEvent; audit-diff.ts: changedFields), and the      *)
(* accounts most of them are about: user.service.ts, auth.service.ts,      *)
(* professor-permission.service.ts, the feedback of submission.service.ts  *)
(* and the flags of a task.  The row is read in one await and written,     *)
(* with its event, in a transaction of a later one; only respond reads in  *)
(* its transaction too.                                                    *)
(***************************************************************************)
EXTENDS Naturals, Sequences, FiniteSets

CONSTANTS
  Users,        \* accounts, those not yet signed up included
  Role0,        \* Role0[u]: the role u has at the start
  Emails,       \* the addresses, and Email0[u]: that of u at the start,
  Email0,       \*   None before the signup
  Requests,     \* the ProfessorPermissionRequest rows there may be
  PersonalEmail,\* PersonalEmail[r]
  Subs,         \* submissions, and Teacher[s]: the professor of the class
  Teacher,
  Tasks,        \* tasks, and Creator[t]: their author
  Creator,
  Comments,     \* the feedback texts
  Ops,          \* bound: the operations the clients of an instance call
  Racing,       \* bound: those of Ops that overlap
  Slots,        \* the calls being served at the same time
  MaxEvents,    \* bound: no call begins when the trail has so many events
  None

Roles == {"STUDENT", "PROFESSOR", "ADMIN"}

ASSUME AccountsAssumption ==
  /\ Role0 \in [Users -> Roles] /\ Email0 \in [Users -> Emails \cup {None}]
  /\ \A u, v \in Users : Email0[u] = Email0[v] /\ Email0[u] # None => u = v
  /\ None \notin Emails \cup Comments \cup {"PENDING", "APPROVED", "REJECTED"}

\* The audited columns: <<column, row>>.
Fields ==
  ({"email", "role", "desativado"} \X Users) \cup ({"requestStatus"} \X Requests)
  \cup ({"professorComments"} \X Subs) \cup ({"isVisible", "isPublic"} \X Tasks)

Domain(f) ==
  CASE f[1] = "email" -> Emails \cup {None}
    [] f[1] = "role" -> Roles
    [] f[1] \in {"desativado", "isVisible", "isPublic"} -> BOOLEAN
    [] f[1] = "requestStatus" -> {None, "PENDING", "APPROVED", "REJECTED"}
    [] f[1] = "professorComments" -> Comments \cup {None}

VARIABLES
  value,      \* value[f]: the column f as stored; None before the row exists
  trail,      \* trail[f]: the changes of f in the AuditEvent rows, in order
  links,      \* <<u, e>>: u was sent a link that changes his email to e
  call        \* call[k]: the call slot k is serving

vars == <<value, trail, links, call>>

\* next is what a call will write and before what it has read of the columns
\* its event is about: two functions on columns.  role is the role the guard
\* read.  missed: history, the columns it has read that have changed since.
Serving == {k \in Slots : call[k] # None}

One(f, v)  == [x \in {f} |-> v]
Over(m, n) == [f \in DOMAIN m \cup DOMAIN n |-> IF f \in DOMAIN m THEN m[f] ELSE n[f]]

Init ==
  /\ value = [f \in Fields |->
       CASE f[1] = "email" -> Email0[f[2]]
         [] f[1] = "role" -> Role0[f[2]]
         [] f[1] \in {"desativado", "isPublic"} -> FALSE
         [] f[1] = "isVisible" -> TRUE
         [] OTHER -> None]
  /\ trail = [f \in Fields |-> <<>>]
  /\ links = {}
  /\ call = [k \in Slots |-> None]

-------------------------------------------------------------------------------
(* The course of a call. *)

At(k, op, at) == call[k] # None /\ call[k].op = op /\ call[k].at = at

Events == UNION {{f} \X DOMAIN trail[f] : f \in Fields}

Start(k, op, at, u, next) ==
  /\ call[k] = None /\ op \in Ops
  /\ \A j \in Serving : {op, call[j].op} \subseteq Racing
  /\ Cardinality(Events) < MaxEvents
  /\ call' = [call EXCEPT ![k] =
       [op |-> op, at |-> at, actor |-> u, role |-> None,
        next |-> next, before |-> <<>>, missed |-> {}]]
  /\ UNCHANGED <<value, trail, links>>

GoTo(k, at) == call' = [call EXCEPT ![k].at = at]
Finish(k)   == call' = [call EXCEPT ![k] = None]

\* @Roles of the routes.
RolesFor(op) ==
  CASE op \in {"status", "respond"} -> {"ADMIN"}
    [] op \in {"feedback", "visibility"} -> {"PROFESSOR", "ADMIN"}
    [] OTHER -> Roles

\* JwtStrategy.validate and RolesGuard: the user as the database has him now.
Guard(k) ==
  /\ call[k] # None /\ call[k].at = "guard"
  /\ LET u == call[k].actor  r == value[<<"role", u>>] IN
     IF ~value[<<"desativado", u>>] /\ r \in RolesFor(call[k].op)
     THEN call' = [call EXCEPT ![k].role = r,
                     ![k].at = IF call[k].op = "email" THEN "find" ELSE "read"]
     ELSE Finish(k)
  /\ UNCHANGED <<value, trail, links>>

-------------------------------------------------------------------------------
(* POST /auth/signup, PATCH /user/me and GET /user/verify-email-link/:token *)

Taken(e) == \E u \in Users : value[<<"email", u>>] = e

BeginSignup(k, u, e) ==
  /\ value[<<"email", u>>] = None
  /\ \A j \in Serving : ~(call[j].op = "signup" /\ call[j].actor = u)
  /\ Start(k, "signup", "find", u, One(<<"email", u>>, e))

BeginChangeEmail(k, u, e) ==
  /\ value[<<"email", u>>] # None
  /\ Start(k, "email", "guard", u, One(<<"email", u>>, e))

\* 409 when the address is taken.
FindEmail(k) ==
  /\ At(k, "signup", "find") \/ At(k, "email", "find")
  /\ LET u == call[k].actor  e == call[k].next[<<"email", u>>] IN
     IF Taken(e) THEN Finish(k) /\ UNCHANGED links
     ELSE IF call[k].op = "signup" THEN GoTo(k, "write") /\ UNCHANGED links
     ELSE Finish(k) /\ links' = links \cup {<<u, e>>}
  /\ UNCHANGED <<value, trail>>

\* The link is followed, within its 30 minutes and as often as one likes.
BeginVerify(k, u, e) ==
  /\ <<u, e>> \in links
  /\ Start(k, "verify", "read", u, One(<<"email", u>>, e))

-------------------------------------------------------------------------------
(* The other updates. *)

BeginStatus(k, a, u, d) ==
  /\ ~(d /\ a = u)      \* 403: an administrator does not deactivate himself
  /\ value[<<"email", a>>] # None /\ value[<<"email", u>>] # None
  /\ Start(k, "status", "guard", a, One(<<"desativado", u>>, d))

BeginDeactivate(k, u) ==
  /\ value[<<"email", u>>] # None
  /\ Start(k, "deactivate", "guard", u, One(<<"desativado", u>>, TRUE))

\* POST /professor-permission: one insert, personalEmail is unique.
AskPermission(r) ==
  /\ "respond" \in Ops /\ value[<<"requestStatus", r>>] = None
  /\ \A q \in Requests : PersonalEmail[q] = PersonalEmail[r]
                          => value[<<"requestStatus", q>>] = None
  /\ value' = [value EXCEPT ![<<"requestStatus", r>>] = "PENDING"]
  /\ UNCHANGED <<trail, links, call>>

BeginRespond(k, a, r, s) ==
  /\ value[<<"email", a>>] # None
  /\ Start(k, "respond", "guard", a, One(<<"requestStatus", r>>, s))

BeginFeedback(k, a, s, c) ==
  /\ value[<<"email", a>>] # None
  /\ Start(k, "feedback", "guard", a, One(<<"professorComments", s>>, c))

Flags(t) == {<<"isVisible", t>>, <<"isPublic", t>>}

\* The body has one flag, the other, or both.
BeginVisibility(k, a, next) ==
  /\ value[<<"email", a>>] # None
  /\ Start(k, "visibility", "guard", a, next)

\* The columns the event of the call is about.
Audited(c) ==
  IF c.op = "visibility" THEN UNION {Flags(f[2]) : f \in DOMAIN c.next} ELSE DOMAIN c.next

\* ensureClassWriteAccess, ensureResourceOwnership; a request must exist.
MayWrite(c) ==
  \A f \in DOMAIN c.next :
    CASE f[1] = "professorComments" -> c.role = "ADMIN" \/ c.actor = Teacher[f[2]]
      [] f[1] \in {"isVisible", "isPublic"} -> c.role = "ADMIN" \/ c.actor = Creator[f[2]]
      [] f[1] = "requestStatus" -> value[f] # None
      [] OTHER -> TRUE

\* The read of the row: what it has now is the before of the event.
Read(k) ==
  /\ call[k] # None /\ call[k].at = "read"
  /\ IF MayWrite(call[k])
     THEN call' = [call EXCEPT ![k].before = [f \in Audited(call[k]) |-> value[f]],
                               ![k].at = "write"]
     ELSE Finish(k)
  /\ UNCHANGED <<value, trail, links>>

-------------------------------------------------------------------------------
(* The transaction: the update and the events. *)

\* respond updates the request, which locks its row until the commit, and then
\* finds who has the address: he becomes a professor, an administrator too.
Promoted(c) ==
  {u \in Users : \E f \in DOMAIN c.next :
    /\ f[1] = "requestStatus" /\ c.next[f] = "APPROVED"
    /\ value[<<"email", u>>] = PersonalEmail[f[2]]}

\* Mutant: the request is updated after the user, so its row is not locked yet.
RowFreeAlways(k) == TRUE

\* No other transaction has the row of the request locked.
RowFree(k) ==
  \A j \in Serving : call[j].at = "commit" => DOMAIN call[k].next \cap DOMAIN call[j].next = {}

FindPromoted(k) ==
  /\ At(k, "respond", "write") /\ RowFree(k)
  /\ LET roles == {"role"} \X Promoted(call[k]) IN
     call' = [call EXCEPT ![k].at = "commit",
                          ![k].next = Over(@, [f \in roles |-> "PROFESSOR"]),
                          ![k].before = Over(@, [f \in roles |-> value[f]])]
  /\ UNCHANGED <<value, trail, links>>

\* Mutant: a flag the body leaves out counts as undefined.
AftersGiven(c) ==
  [f \in DOMAIN c.before |-> IF f \in DOMAIN c.next THEN c.next[f] ELSE None]

\* A flag the body leaves out counts as what was read.
Afters(c) == Over(c.next, c.before)

\* Mutant: what did not change is recorded too.
ChangedAll(before, after) == DOMAIN before

\* changedFields
Changed(before, after) == {f \in DOMAIN before : before[f] # after[f]}

\* Mutant: the database does not keep addresses apart.
WritableAny(c) == TRUE

\* User.email is unique: the transaction of a second user fails.
Writable(c) ==
  \A f \in DOMAIN c.next : f[1] = "email" =>
    ~\E u \in Users : <<"email", u>> # f /\ value[<<"email", u>>] = c.next[f]

\* What call j has read and this step changes.
Missed(j) == {f \in DOMAIN call[j].before : value'[f] # value[f]}

Write(k) ==
  /\ call[k] # None
  /\ call[k].at = IF call[k].op = "respond" THEN "commit" ELSE "write"
  /\ LET c == call[k]  after == Afters(c) IN
     IF Writable(c)
     THEN /\ value' = Over(c.next, value)
          /\ trail' = [f \in Fields |->
               IF f \in Changed(c.before, after)
               THEN Append(trail[f], [before |-> c.before[f], after |-> after[f]])
               ELSE trail[f]]
     ELSE UNCHANGED <<value, trail>>
  /\ call' = [j \in Slots |->
       IF j = k \/ call[j] = None THEN None
       ELSE [call[j] EXCEPT !.missed = @ \cup Missed(j)]]
  /\ UNCHANGED links

Fail(k) == call[k] # None /\ Finish(k) /\ UNCHANGED <<value, trail, links>>

Begin(k) ==
  \/ \E u \in Users, e \in Emails :
       BeginSignup(k, u, e) \/ BeginChangeEmail(k, u, e) \/ BeginVerify(k, u, e)
  \/ \E a, u \in Users, d \in BOOLEAN : BeginStatus(k, a, u, d)
  \/ \E u \in Users : BeginDeactivate(k, u)
  \/ \E a \in Users, r \in Requests, s \in {"APPROVED", "REJECTED"} : BeginRespond(k, a, r, s)
  \/ \E a \in Users, s \in Subs, c \in Comments : BeginFeedback(k, a, s, c)
  \/ \E a \in Users, t \in Tasks, F \in SUBSET {"isVisible", "isPublic"}, b \in BOOLEAN :
       F # {} /\ BeginVisibility(k, a, [f \in F \X {t} |-> b])

Next ==
  \/ \E k \in Slots : Begin(k) \/ Guard(k) \/ FindEmail(k)
       \/ Read(k) \/ FindPromoted(k) \/ Write(k) \/ Fail(k)
  \/ \E r \in Requests : AskPermission(r)

Spec == Init /\ [][Next]_vars

-------------------------------------------------------------------------------
(* Properties. *)

\* Columns and events hold values of their columns: a field that the body
\* leaves out never reaches the trail as undefined.
TypeOK ==
  \A f \in Fields :
    /\ value[f] \in Domain(f)
    /\ \A i \in DOMAIN trail[f] :
         trail[f][i].before \in Domain(f) /\ trail[f][i].after \in Domain(f)

\* An address belongs to one account, although signup, the change of email and
\* its confirmation look for it in one await and store it in a later one.
EmailsUnique ==
  \A u, v \in Users :
    value[<<"email", u>>] = value[<<"email", v>>] /\ value[<<"email", u>>] # None => u = v

\* The step that changes a column records the change as it happened, and a
\* step that changes nothing records nothing.  The rows of a signup and of a
\* request are created without an event.
DiffIsTheChange(f) ==
  IF value'[f] # value[f] /\ ~(value[f] = None /\ f[1] \in {"email", "requestStatus"})
  THEN trail'[f] = Append(trail[f], [before |-> value[f], after |-> value'[f]])
  ELSE trail'[f] = trail[f]

\* Two administrators who approve a request at the same time record one
\* promotion, and addresses that change hands meanwhile do not matter: the role
\* is read in the transaction, after the update of the request has locked its
\* row.  (For one request: two can find the same user, by one address each.)
RoleTrailExact == [][\A u \in Users : DiffIsTheChange(<<"role", u>>)]_vars

\* The call that ends in this step read f before another call changed it.
Outrun(f) ==
  \E k \in Serving : call'[k] = None /\ f \in call[k].missed

\* Every column's trail tells its changes as they happened, an update of one
\* flag, a rejected address and an answer that is given again included: only
\* the end of a call that was outrun may record a change that did not happen.
TrailExact == [][\A f \in Fields : Outrun(f) \/ DiffIsTheChange(f)]_vars
===============================================================================
