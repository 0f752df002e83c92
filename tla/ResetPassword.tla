---------------------------- MODULE ResetPassword ----------------------------
(***************************************************************************)
(* Passwords: the orders of reset-password.service.ts and changePassword   *)
(* of user.service.ts.  A confirmation reads the order, sets the password  *)
(* and deletes the order, in three statements without a transaction; a     *)
(* call may end, and others may run, between two of them.                  *)
(***************************************************************************)
EXTENDS Naturals, FiniteSets

CONSTANTS
  Users,
  Orders,       \* bound: the orders there are in a behaviour, one uuid each
  Passwords,
  MaxSets,      \* bound: no confirmation of an order begins after so many sets
  Handlers,     \* the calls being served at the same time
  Nil           \* an idle handler, an order not yet created, a field not used

ASSUME NilAssumption == Nil \notin Users \cup Orders \cup Passwords
ASSUME BoundAssumption == MaxSets \in Nat

VARIABLES
  password,   \* password[u]: the password User.password is a hash of
  owner,      \* owner[o]: the user of order o, Nil before its creation
  orders,     \* the ResetPasswordOrder rows
  mailed,     \* the orders whose link was sent
  known,      \* the orders a frontend holds the id of, from a verified link
  sets,       \* history: sets[o], how often order o has set a password
  spent,      \* history: the orders whose confirmation was answered with 200
  call        \* call[k]: the call handler k serves

tables == <<password, owner, orders>>
resetVars == <<tables, mailed, known, sets, spent, call>>

\* began is a history variable: "late" when the order was spent already.
Calls ==
  [op : {"request", "confirm", "change"}, at : {"user", "order", "mail", "find", "set", "drop"},
   user : Users \cup {Nil}, order : Orders \cup {Nil}, new : Passwords \cup {Nil},
   current : Passwords \cup {Nil}, began : {"early", "late"}]

ResetInit ==
  /\ password \in [Users -> Passwords]
  /\ owner = [o \in Orders |-> Nil]
  /\ orders = {} /\ mailed = {} /\ known = {} /\ spent = {}
  /\ sets = [o \in Orders |-> 0]
  /\ call = [k \in Handlers |-> Nil]

-------------------------------------------------------------------------------
At(k, op, at) == call[k] # Nil /\ call[k].op = op /\ call[k].at = at

Start(k, c) == call[k] = Nil /\ call' = [call EXCEPT ![k] = c]
GoTo(k, at) == call' = [call EXCEPT ![k].at = at]
Finish(k)   == call' = [call EXCEPT ![k] = Nil]

Blank == [op |-> "request", at |-> "user", user |-> Nil, order |-> Nil,
          new |-> Nil, current |-> Nil, began |-> "early"]

\* POST /reset-password for the email of u, or for one nobody has (Nil).
BeginRequest(k, u) ==
  /\ Start(k, [Blank EXCEPT !.user = u])
  /\ UNCHANGED <<tables, mailed, known, sets, spent>>

\* Mutant: no return for an email nobody has.
FindUserAlways(k) ==
  /\ At(k, "request", "user")
  /\ GoTo(k, "order")
  /\ UNCHANGED <<tables, mailed, known, sets, spent>>

\* An email nobody has gets the same answer, and nothing is done.
FindUser(k) ==
  /\ At(k, "request", "user")
  /\ IF call[k].user # Nil THEN GoTo(k, "order") ELSE Finish(k)
  /\ UNCHANGED <<tables, mailed, known, sets, spent>>

CreateOrder(k, o) ==
  /\ At(k, "request", "order")
  /\ owner[o] = Nil
  /\ owner' = [owner EXCEPT ![o] = call[k].user]
  /\ orders' = orders \cup {o}
  /\ call' = [call EXCEPT ![k].at = "mail", ![k].order = o]
  /\ UNCHANGED <<password, mailed, known, sets, spent>>

\* When the mail cannot be sent the order stays: see Fail.
Mail(k) ==
  /\ At(k, "request", "mail")
  /\ mailed' = mailed \cup {call[k].order}
  /\ Finish(k)
  /\ UNCHANGED <<tables, known, sets, spent>>

\* GET /reset-password/verify/:token, one read.  The 30 minutes of the token are
\* left out: a link that may be used for ever allows every use of one that expires.
VerifyLink(o) ==
  /\ o \in mailed \cap orders
  /\ known' = known \cup {o}
  /\ UNCHANGED <<tables, mailed, sets, spent, call>>

\* POST /reset-password/confirm.
BeginConfirm(k, o, p) ==
  /\ o \in known /\ sets[o] < MaxSets
  /\ Start(k, [Blank EXCEPT !.op = "confirm", !.at = "find", !.order = o, !.new = p,
                            !.began = IF o \in spent THEN "late" ELSE "early"])
  /\ UNCHANGED <<tables, mailed, known, sets, spent>>

\* Mutant: the order is taken as found.
FindOrderAlways(k) ==
  /\ At(k, "confirm", "find")
  /\ GoTo(k, "set")
  /\ UNCHANGED <<tables, mailed, known, sets, spent>>

\* 404 without the order.
FindOrder(k) ==
  /\ At(k, "confirm", "find")
  /\ IF call[k].order \in orders THEN GoTo(k, "set") ELSE Finish(k)
  /\ UNCHANGED <<tables, mailed, known, sets, spent>>

\* Mutant: the order is deleted first.
SetByOrderAfterDrop(k) ==
  /\ At(k, "confirm", "set")
  /\ call[k].order \in orders
  /\ orders' = orders \ {call[k].order}
  /\ GoTo(k, "drop")
  /\ UNCHANGED <<password, owner, mailed, known, sets, spent>>

SetByOrder(k) ==
  /\ At(k, "confirm", "set")
  /\ password' = [password EXCEPT ![owner[call[k].order]] = call[k].new]
  /\ sets' = [sets EXCEPT ![call[k].order] = @ + 1]
  /\ GoTo(k, "drop")
  /\ UNCHANGED <<owner, orders, mailed, known, spent>>

\* The delete fails when the order is gone: the call ends with an error,
\* although it has set the password.
DropOrder(k) ==
  /\ At(k, "confirm", "drop")
  /\ orders' = orders \ {call[k].order}
  /\ spent' = IF call[k].order \in orders THEN spent \cup {call[k].order} ELSE spent
  /\ Finish(k)
  /\ UNCHANGED <<password, owner, mailed, known, sets>>

\* PATCH /user/change-password.
BeginChange(k, u, cur, p) ==
  /\ Start(k, [Blank EXCEPT !.op = "change", !.at = "find", !.user = u, !.current = cur,
                            !.new = p])
  /\ UNCHANGED <<tables, mailed, known, sets, spent>>

\* 403 unless the current password is right.
Compare(k) ==
  /\ At(k, "change", "find")
  /\ IF password[call[k].user] = call[k].current THEN GoTo(k, "set") ELSE Finish(k)
  /\ UNCHANGED <<tables, mailed, known, sets, spent>>

SetByUser(k) ==
  /\ At(k, "change", "set")
  /\ password' = [password EXCEPT ![call[k].user] = call[k].new]
  /\ Finish(k)
  /\ UNCHANGED <<owner, orders, mailed, known, sets, spent>>

\* The process, the connection or the mail server gives up on a call.
Fail(k) ==
  /\ call[k] # Nil
  /\ Finish(k)
  /\ UNCHANGED <<tables, mailed, known, sets, spent>>

Begin(k) ==
  \/ \E u \in Users \cup {Nil} : BeginRequest(k, u)
  \/ \E o \in Orders, p \in Passwords : BeginConfirm(k, o, p)
  \/ \E u \in Users, cur, p \in Passwords : BeginChange(k, u, cur, p)

Step(k) ==
  \/ \E o \in Orders : CreateOrder(k, o)
  \/ FindUser(k) \/ Mail(k) \/ FindOrder(k) \/ SetByOrder(k) \/ DropOrder(k)
  \/ Compare(k) \/ SetByUser(k) \/ Fail(k)

ResetNext ==
  \/ \E k \in Handlers : Begin(k) \/ Step(k)
  \/ \E o \in Orders : VerifyLink(o)

ResetSpec == ResetInit /\ [][ResetNext]_resetVars

-------------------------------------------------------------------------------
(* Properties. *)

\* Every stored, mailed or verified order is one that a request created for a
\* user, and every password is one that somebody chose.
ResetTypeOK ==
  /\ password \in [Users -> Passwords]
  /\ owner \in [Orders -> Users \cup {Nil}]
  /\ orders \cup mailed \cup known \cup spent \subseteq {o \in Orders : owner[o] # Nil}
  /\ sets \in [Orders -> Nat]
  /\ call \in [Handlers -> Calls \cup {Nil}]

\* A confirmation that begins after one of the same order was answered with
\* 200 sets no password, however the link was kept and whatever else runs.
SpentOrdersStaySpent ==
  \A k \in Handlers :
    call[k] # Nil /\ call[k].op = "confirm" /\ call[k].began = "late"
      => call[k].at = "find"

\* An order is deleted only when it has set a password: a confirmation that
\* breaks off leaves the user a link that works.
OrdersLeaveAfterUse == [][\A o \in orders \ orders' : sets[o] > 0]_resetVars

\* Refuted: an order sets a password once.
OrdersSetOnce == \A o \in Orders : sets[o] <= 1
===============================================================================
