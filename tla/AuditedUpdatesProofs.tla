------------------------ MODULE AuditedUpdatesProofs ------------------------
(***************************************************************************)
(* For any accounts, requests and number of calls at once: an address is   *)
(* one account's, and the trail of a column errs only where a call was     *)
(* outrun.  What carries both is what a call knows of its columns between  *)
(* its read and its transaction.                                           *)
(***************************************************************************)
EXTENDS AuditedUpdates, TLAPS

Maps == UNION {[D -> UNION {Domain(f) : f \in Fields}] : D \in SUBSET Fields}

Typed(m) == \A f \in DOMAIN m : f \in Fields /\ m[f] \in Domain(f)

Calls ==
  [op : Ops, at : {"guard", "find", "read", "write", "commit"}, actor : Users,
   role : Roles \cup {None}, next : Maps, before : Maps, missed : SUBSET Fields]

AddressOps == {"signup", "email", "verify"}

Email(u) == <<"email", u>>

\* What a call is to write.
NextFits(c) ==
  /\ Typed(c.next)
  /\ c.op \in AddressOps => DOMAIN c.next = {Email(c.actor)} /\ c.next[Email(c.actor)] # None
  /\ c.op \notin AddressOps => \A f \in DOMAIN c.next : f[1] # "email"
  /\ c.op # "respond" => \A f \in DOMAIN c.next : f[1] \notin {"role", "requestStatus"}
  /\ c.op = "respond" => \E r \in Requests : <<"requestStatus", r>> \in DOMAIN c.next
  /\ c.op = "respond" /\ c.at # "commit" => \A f \in DOMAIN c.next : f[1] = "requestStatus"
  /\ c.op = "visibility" => \A f \in DOMAIN c.next : \E t \in Tasks : f \in Flags(t)
  /\ \A f \in DOMAIN c.next : f[1] \in {"email", "requestStatus"} => c.next[f] # None

\* What a call has read.
BeforeFits(c) ==
  /\ Typed(c.before)
  /\ c.op = "signup" => DOMAIN c.before = {}
  /\ c.op # "signup" /\ c.at \in {"write", "commit"} => DOMAIN c.next \subseteq DOMAIN c.before
  /\ \A f \in DOMAIN c.before : f[1] = "role" => c.at = "commit"

\* What a call knows of the stored columns.
ValueFits(c) ==
  /\ c.op = "signup" => value[Email(c.actor)] = None
  /\ c.op \in {"email", "verify"} => value[Email(c.actor)] # None
  /\ \A f \in DOMAIN c.before : f \in c.missed \/ c.before[f] = value[f]
  /\ \A f \in DOMAIN c.before : f[1] \in {"email", "requestStatus"} => value[f] # None

CallFits(c) ==
  /\ c \in Calls /\ NextFits(c) /\ BeforeFits(c) /\ ValueFits(c)
  /\ c.at = "commit" => c.op = "respond"
  /\ c.op = "signup" => c.at \in {"find", "write"}

CallsFit == \A k \in Serving : CallFits(call[k])

SignupsApart ==
  \A j, k \in Serving :
    call[j].op = "signup" /\ call[k].op = "signup" /\ call[j].actor = call[k].actor => j = k

Event(f) == [before : Domain(f), after : Domain(f)]

TablesFit ==
  /\ DOMAIN value = Fields /\ value = [f \in Fields |-> value[f]]
  /\ DOMAIN trail = Fields /\ \A f \in Fields : trail[f] \in Seq(Event(f))
  /\ \A f \in Fields : value[f] \in Domain(f)
  /\ DOMAIN call = Slots /\ call = [k \in Slots |-> call[k]]

LinksFit ==
  \A l \in links : \E u \in Users, e \in Emails : l = <<u, e>> /\ value[Email(u)] # None

IInv == TablesFit /\ LinksFit /\ CallsFit /\ SignupsApart /\ EmailsUnique

-------------------------------------------------------------------------------
(* Columns *)

LEMMA Columns ==
  /\ \A u \in Users : /\ Email(u) \in Fields /\ Domain(Email(u)) = Emails \cup {None}
                      /\ <<"role", u>> \in Fields /\ Domain(<<"role", u>>) = Roles
                      /\ <<"desativado", u>> \in Fields
                      /\ Domain(<<"desativado", u>>) = BOOLEAN
  /\ \A r \in Requests :
       /\ <<"requestStatus", r>> \in Fields
       /\ Domain(<<"requestStatus", r>>) = {None, "PENDING", "APPROVED", "REJECTED"}
  /\ \A s \in Subs :
       /\ <<"professorComments", s>> \in Fields
       /\ Domain(<<"professorComments", s>>) = Comments \cup {None}
  /\ \A t \in Tasks, n \in {"isVisible", "isPublic"} :
       <<n, t>> \in Fields /\ Domain(<<n, t>>) = BOOLEAN
  <1>1. \A u \in Users : /\ Email(u) \in Fields /\ Domain(Email(u)) = Emails \cup {None}
                         /\ <<"role", u>> \in Fields /\ Domain(<<"role", u>>) = Roles
    BY DEF Fields, Domain, Email
  <1>2. \A u \in Users : <<"desativado", u>> \in Fields /\ Domain(<<"desativado", u>>) = BOOLEAN
    BY DEF Fields, Domain
  <1>3. \A r \in Requests :
          /\ <<"requestStatus", r>> \in Fields
          /\ Domain(<<"requestStatus", r>>) = {None, "PENDING", "APPROVED", "REJECTED"}
    BY DEF Fields, Domain
  <1>4. \A s \in Subs :
          /\ <<"professorComments", s>> \in Fields
          /\ Domain(<<"professorComments", s>>) = Comments \cup {None}
    BY DEF Fields, Domain
  <1>5. \A t \in Tasks, n \in {"isVisible", "isPublic"} :
          <<n, t>> \in Fields /\ Domain(<<n, t>>) = BOOLEAN
    BY DEF Fields, Domain
  <1> QED BY <1>1, <1>2, <1>3, <1>4, <1>5

LEMMA OverTyped ==
  ASSUME NEW m, NEW n, Typed(m), Typed(n)
  PROVE  /\ Over(m, n) \in Maps /\ Typed(Over(m, n))
         /\ DOMAIN Over(m, n) = DOMAIN m \cup DOMAIN n
         /\ \A f \in DOMAIN m : Over(m, n)[f] = m[f]
         /\ \A f \in DOMAIN n : f \notin DOMAIN m => Over(m, n)[f] = n[f]
  BY DEF Over, Maps, Typed

LEMMA OneTyped ==
  ASSUME NEW f \in Fields, NEW v \in Domain(f)
  PROVE  /\ One(f, v) \in Maps /\ Typed(One(f, v))
         /\ DOMAIN One(f, v) = {f} /\ One(f, v)[f] = v
  <1>1. DOMAIN One(f, v) = {f} /\ One(f, v)[f] = v
    BY DEF One
  <1>2. One(f, v) \in [{f} -> UNION {Domain(g) : g \in Fields}]
    BY DEF One
  <1> QED BY <1>1, <1>2 DEF Maps, Typed

LEMMA NothingTyped == <<>> \in Maps /\ Typed(<<>>) /\ DOMAIN <<>> = {}
  <1>1. <<>> \in [{} -> UNION {Domain(f) : f \in Fields}] /\ DOMAIN <<>> = {}
    OBVIOUS
  <1> QED BY <1>1 DEF Maps, Typed

LEMMA InitHolds == Init => IInv
  <1> SUFFICES ASSUME Init PROVE IInv
    OBVIOUS
  <1>1. \A u \in Users : value[Email(u)] = Email0[u]
    BY Columns DEF Init, Email
  <1>2. \A f \in Fields : value[f] \in Domain(f)
    <2>1. \A u \in Users : value[Email(u)] \in Domain(Email(u))
      BY <1>1, Columns, AccountsAssumption
    <2>2. \A u \in Users : value[<<"role", u>>] \in Domain(<<"role", u>>)
      BY Columns, AccountsAssumption DEF Init
    <2>3. \A u \in Users : value[<<"desativado", u>>] \in Domain(<<"desativado", u>>)
      BY Columns DEF Init
    <2>4. \A r \in Requests : value[<<"requestStatus", r>>] \in Domain(<<"requestStatus", r>>)
      BY Columns DEF Init
    <2>5. \A x \in Subs : value[<<"professorComments", x>>] \in Domain(<<"professorComments", x>>)
      BY Columns DEF Init
    <2>6. \A t \in Tasks, n \in {"isVisible", "isPublic"} : value[<<n, t>>] \in Domain(<<n, t>>)
      BY Columns DEF Init
    <2>7. ASSUME NEW f \in Fields
          PROVE  \/ \E u \in Users : f \in {Email(u), <<"role", u>>, <<"desativado", u>>}
                 \/ \E r \in Requests : f = <<"requestStatus", r>>
                 \/ \E x \in Subs : f = <<"professorComments", x>>
                 \/ \E t \in Tasks, n \in {"isVisible", "isPublic"} : f = <<n, t>>
      BY DEF Fields, Email
    <2> QED BY <2>1, <2>2, <2>3, <2>4, <2>5, <2>6, <2>7
  <1>3. TablesFit
    <2>1. DOMAIN value = Fields /\ value = [f \in Fields |-> value[f]]
      BY DEF Init
    <2>2. DOMAIN trail = Fields /\ \A f \in Fields : trail[f] = <<>>
      BY DEF Init
    <2>3. ASSUME NEW f \in Fields PROVE trail[f] \in Seq(Event(f))
      <3>1. trail[f] = <<>>
        BY <2>2
      <3> QED BY <3>1
    <2>4. DOMAIN call = Slots /\ call = [k \in Slots |-> call[k]]
      BY DEF Init
    <2> QED BY <1>2, <2>1, <2>2, <2>3, <2>4 DEF TablesFit
  <1>4. Serving = {} /\ links = {}
    BY DEF Init, Serving
  <1>5. EmailsUnique
    BY <1>1, AccountsAssumption DEF EmailsUnique, Email
  <1> QED BY <1>3, <1>4, <1>5 DEF IInv, LinksFit, CallsFit, SignupsApart

-------------------------------------------------------------------------------
(* Steps that write nothing *)

\* A call begins, goes on with what it knows, or ends.
LEMMA CallStep ==
  ASSUME IInv, NEW k \in Slots, NEW c, call' = [call EXCEPT ![k] = c],
         UNCHANGED <<value, trail>>, LinksFit',
         c # None => CallFits(c),
         c # None /\ c.op = "signup" =>
           \A j \in Serving : j # k => ~(call[j].op = "signup" /\ call[j].actor = c.actor)
  PROVE  IInv'
  <1> USE DEF IInv
  <1>1. TablesFit'
    BY DEF TablesFit
  <1>2. /\ \A j \in Serving' : j # k => j \in Serving /\ call'[j] = call[j]
        /\ call'[k] = c /\ (k \in Serving' => c # None)
    BY DEF Serving, TablesFit
  <1>3. CallsFit'
    <2>1. ASSUME NEW d, CallFits(d) PROVE CallFits(d)'
      BY <2>1 DEF CallFits, NextFits, BeforeFits, ValueFits
    <2> QED BY <1>2, <2>1 DEF CallsFit
  <1>4. SignupsApart'
    BY <1>2 DEF SignupsApart
  <1>5. EmailsUnique'
    BY DEF EmailsUnique
  <1> QED BY <1>1, <1>3, <1>4, <1>5

LEMMA LinksKept == IInv /\ UNCHANGED <<value, links>> => LinksFit'
  BY DEF IInv, LinksFit

LEMMA EndStep ==
  ASSUME IInv, NEW k \in Slots, Finish(k), UNCHANGED <<value, trail, links>>
  PROVE  IInv'
  BY CallStep, LinksKept DEF Finish

LEMMA GuardStep ==
  ASSUME IInv, NEW k \in Slots, Guard(k)
  PROVE  IInv'
  <1> USE DEF IInv
  <1>1. k \in Serving /\ CallFits(call[k]) /\ call[k].at = "guard" /\ UNCHANGED <<value, trail, links>>
    BY DEF Guard, Serving, CallsFit
  <1>2. CASE Finish(k)
    BY <1>1, <1>2, EndStep
  <1>3. CASE ~Finish(k)
    <2> DEFINE r == value[<<"role", call[k].actor>>]
               a == IF call[k].op = "email" THEN "find" ELSE "read"
    <2>1. call' = [call EXCEPT ![k].role = r, ![k].at = a]
      BY <1>3 DEF Guard
    <2>2. r \in Roles
      <3>1. call[k].actor \in Users
        BY <1>1 DEF CallFits, Calls
      <3>2. value[<<"role", call[k].actor>>] \in Domain(<<"role", call[k].actor>>)
        BY <3>1, Columns DEF TablesFit
      <3> QED BY <3>1, <3>2, Columns
    <2>3. a \in {"find", "read"}
      OBVIOUS
    <2> HIDE DEF r, a
    <2>4. PICK c \in Calls : c = [call[k] EXCEPT !.role = r, !.at = a]
      BY <1>1, <2>2, <2>3 DEF CallFits, Calls
    <2>5. /\ c.op = call[k].op /\ c.actor = call[k].actor /\ c.next = call[k].next
          /\ c.before = call[k].before /\ c.missed = call[k].missed /\ c.at \in {"find", "read"}
      BY <1>1, <2>3, <2>4 DEF CallFits, Calls
    <2>6. CallFits(c)
      BY <1>1, <2>5 DEF CallFits, NextFits, BeforeFits, ValueFits
    <2>7. call' = [call EXCEPT ![k] = c]
      BY <2>1, <2>4
    <2>8. \A j \in Serving : j # k /\ c.op = "signup" =>
            ~(call[j].op = "signup" /\ call[j].actor = c.actor)
      BY <1>1, <2>5 DEF SignupsApart
    <2> QED BY <1>1, <2>6, <2>7, <2>8, CallStep, LinksKept
  <1> QED BY <1>2, <1>3

LEMMA FindEmailStep ==
  ASSUME IInv, NEW k \in Slots, FindEmail(k)
  PROVE  IInv'
  <1> USE DEF IInv
  <1>1. k \in Serving /\ CallFits(call[k]) /\ call[k].at = "find" /\ UNCHANGED <<value, trail>>
        /\ call[k].op \in {"signup", "email"}
    BY DEF FindEmail, At, Serving, CallsFit
  <1> DEFINE u == call[k].actor
             e == call[k].next[Email(u)]
  <1>2. u \in Users /\ e \in Emails
    BY <1>1, Columns DEF CallFits, Calls, NextFits, Typed, AddressOps
  <1>3. CASE Finish(k) /\ UNCHANGED links
    BY <1>1, <1>3, EndStep
  <1>4. CASE call[k].op = "signup" /\ GoTo(k, "write") /\ UNCHANGED links
    <2>1. PICK c \in Calls : c = [call[k] EXCEPT !.at = "write"]
      BY <1>1 DEF CallFits, Calls
    <2>2. /\ c.op = call[k].op /\ c.actor = call[k].actor /\ c.next = call[k].next
          /\ c.before = call[k].before /\ c.missed = call[k].missed /\ c.at = "write"
      BY <1>1, <2>1 DEF CallFits, Calls
    <2>3. CallFits(c)
      BY <1>1, <1>4, <2>2 DEF CallFits, NextFits, BeforeFits, ValueFits
    <2>4. call' = [call EXCEPT ![k] = c]
      BY <1>4, <2>1 DEF GoTo
    <2>5. \A j \in Serving : j # k => ~(call[j].op = "signup" /\ call[j].actor = c.actor)
      BY <1>1, <1>4, <2>2 DEF SignupsApart
    <2> QED BY <1>1, <1>4, <2>3, <2>4, <2>5, CallStep, LinksKept
  <1>5. CASE /\ call[k].op = "email" /\ ~Taken(e) /\ Finish(k)
             /\ links' = links \cup {<<u, e>>}
    <2>1. value[Email(u)] # None
      BY <1>1, <1>5 DEF CallFits, ValueFits
    <2>2. LinksFit'
      BY <1>1, <1>2, <1>5, <2>1 DEF LinksFit
    <2> QED BY <1>1, <1>5, <2>2, CallStep DEF Finish
  <1> QED BY <1>1, <1>3, <1>4, <1>5 DEF FindEmail, Email

LEMMA ReadStep ==
  ASSUME IInv, NEW k \in Slots, Read(k)
  PROVE  IInv'
  <1> USE DEF IInv
  <1>1. k \in Serving /\ CallFits(call[k]) /\ call[k].at = "read" /\ UNCHANGED <<value, trail, links>>
    BY DEF Read, Serving, CallsFit
  <1>2. CASE Finish(k)
    BY <1>1, <1>2, EndStep
  <1>3. CASE ~Finish(k)
    <2> DEFINE D == Audited(call[k])
               b == [f \in D |-> value[f]]
    <2>1. MayWrite(call[k]) /\ call' = [call EXCEPT ![k].before = b, ![k].at = "write"]
      BY <1>3 DEF Read
    <2>2. DOMAIN call[k].next \subseteq D /\ D \subseteq Fields
      <3>1. CASE call[k].op # "visibility"
        BY <1>1, <3>1 DEF Audited, CallFits, NextFits, Typed
      <3>2. CASE call[k].op = "visibility"
        <4>1. ASSUME NEW f \in DOMAIN call[k].next
              PROVE  f \in Flags(f[2]) /\ Flags(f[2]) \subseteq Fields
          <5>1. PICK t \in Tasks : f \in Flags(t)
            BY <1>1, <3>2 DEF CallFits, NextFits
          <5>2. f[2] = t
            BY <5>1 DEF Flags
          <5> QED BY <5>1, <5>2, Columns DEF Flags
        <4> QED BY <3>2, <4>1 DEF Audited
      <3> QED BY <3>1, <3>2
    <2>3. \A f \in D : f[1] # "role" /\ (f[1] \in {"email", "requestStatus"} => value[f] # None)
      <3>1. CASE call[k].op = "visibility"
        BY <3>1 DEF Audited, Flags
      <3>2. CASE call[k].op = "respond"
        <4>1. \A f \in D : f[1] = "requestStatus" /\ f \in DOMAIN call[k].next
          BY <1>1, <3>2 DEF Audited, CallFits, NextFits
        <4> QED BY <2>1, <4>1 DEF MayWrite
      <3>3. CASE call[k].op \in AddressOps
        <4>1. D = {Email(call[k].actor)}
          BY <1>1, <3>3 DEF Audited, CallFits, NextFits, AddressOps
        <4>2. call[k].op \in {"email", "verify"}
          BY <1>1, <3>3 DEF CallFits, AddressOps
        <4>3. value[Email(call[k].actor)] # None
          BY <1>1, <4>2 DEF CallFits, ValueFits
        <4> QED BY <4>1, <4>3 DEF Email
      <3>4. CASE call[k].op \notin AddressOps \cup {"respond", "visibility"}
        BY <1>1, <3>4 DEF Audited, CallFits, NextFits
      <3> QED BY <3>1, <3>2, <3>3, <3>4
    <2>4. call[k].op # "signup"
      BY <1>1 DEF CallFits
    <2>5. b \in Maps /\ Typed(b) /\ DOMAIN b = D /\ \A f \in D : b[f] = value[f]
      BY <2>2 DEF TablesFit, Maps, Typed
    <2> HIDE DEF D, b
    <2>6. PICK c \in Calls : c = [call[k] EXCEPT !.before = b, !.at = "write"]
      BY <1>1, <2>5 DEF CallFits, Calls
    <2>7. /\ c.op = call[k].op /\ c.actor = call[k].actor /\ c.next = call[k].next
          /\ c.before = b /\ c.at = "write"
      BY <1>1, <2>6 DEF CallFits, Calls
    <2>8. NextFits(c) /\ BeforeFits(c)
      BY <1>1, <2>2, <2>3, <2>4, <2>5, <2>7 DEF CallFits, NextFits, BeforeFits
    <2>9. CallFits(c)
      BY <1>1, <2>3, <2>4, <2>5, <2>7, <2>8 DEF CallFits, ValueFits
    <2>10. call' = [call EXCEPT ![k] = c]
      BY <2>1, <2>6
    <2> QED BY <1>1, <2>4, <2>7, <2>9, <2>10, CallStep, LinksKept
  <1> QED BY <1>2, <1>3

LEMMA FindPromotedStep ==
  ASSUME IInv, NEW k \in Slots, FindPromoted(k)
  PROVE  IInv'
  <1> USE DEF IInv
  <1>1. /\ k \in Serving /\ CallFits(call[k]) /\ call[k].at = "write" /\ call[k].op = "respond"
        /\ UNCHANGED <<value, trail, links>>
    BY DEF FindPromoted, At, Serving, CallsFit
  <1> DEFINE R == {"role"} \X Promoted(call[k])
             p == [f \in R |-> "PROFESSOR"]
             q == [f \in R |-> value[f]]
             n == Over(call[k].next, p)
             b == Over(call[k].before, q)
  <1>2. \A f \in R : f \in Fields /\ f[1] = "role" /\ Domain(f) = Roles
    <2>1. ASSUME NEW f \in R
          PROVE  f \in Fields /\ f[1] = "role" /\ Domain(f) = Roles
      <3>1. PICK u \in Users : f = <<"role", u>>
        BY DEF Promoted
      <3> QED BY <3>1, Columns
    <2> QED BY <2>1
  <1>3. Typed(p) /\ DOMAIN p = R /\ Typed(q) /\ DOMAIN q = R /\ \A f \in R : q[f] = value[f]
    BY <1>2 DEF Typed, Roles, TablesFit
  <1>4. Typed(call[k].next) /\ Typed(call[k].before)
    BY <1>1 DEF CallFits, NextFits, BeforeFits
  <1> HIDE DEF R, p, q
  <1>5. /\ n \in Maps /\ Typed(n) /\ DOMAIN n = DOMAIN call[k].next \cup R
        /\ \A f \in DOMAIN call[k].next : n[f] = call[k].next[f]
        /\ b \in Maps /\ Typed(b) /\ DOMAIN b = DOMAIN call[k].before \cup R
        /\ \A f \in DOMAIN call[k].before : b[f] = call[k].before[f]
        /\ \A f \in R : f \notin DOMAIN call[k].before => b[f] = value[f]
    <2>1. /\ n \in Maps /\ Typed(n) /\ DOMAIN n = DOMAIN call[k].next \cup DOMAIN p
          /\ \A f \in DOMAIN call[k].next : n[f] = call[k].next[f]
      BY <1>3, <1>4, OverTyped
    <2>2. /\ b \in Maps /\ Typed(b) /\ DOMAIN b = DOMAIN call[k].before \cup DOMAIN q
          /\ \A f \in DOMAIN call[k].before : b[f] = call[k].before[f]
          /\ \A f \in DOMAIN q : f \notin DOMAIN call[k].before => b[f] = q[f]
      BY <1>3, <1>4, OverTyped
    <2> HIDE DEF n, b
    <2> QED BY <1>3, <2>1, <2>2
  <1>6. call' = [call EXCEPT ![k].at = "commit", ![k].next = n, ![k].before = b]
    BY DEF FindPromoted, R, p, q
  <1> HIDE DEF n, b
  <1>7. PICK c \in Calls : c = [call[k] EXCEPT !.at = "commit", !.next = n, !.before = b]
    BY <1>1, <1>5 DEF CallFits, Calls
  <1>8. /\ c.op = "respond" /\ c.actor = call[k].actor /\ c.next = n /\ c.before = b
        /\ c.missed = call[k].missed /\ c.at = "commit"
    BY <1>1, <1>7 DEF CallFits, Calls
  <1>9. NextFits(c)
    BY <1>1, <1>2, <1>5, <1>8 DEF CallFits, NextFits, AddressOps
  <1>10. BeforeFits(c)
    BY <1>1, <1>2, <1>5, <1>8 DEF CallFits, BeforeFits
  <1>11. ValueFits(c)
    <2>1. \A f \in DOMAIN c.before : f \in c.missed \/ c.before[f] = value[f]
      BY <1>1, <1>5, <1>8 DEF CallFits, ValueFits
    <2>2. \A f \in DOMAIN c.before : f[1] \in {"email", "requestStatus"} => value[f] # None
      BY <1>1, <1>2, <1>5, <1>8 DEF CallFits, ValueFits
    <2> QED BY <1>8, <2>1, <2>2 DEF ValueFits
  <1>12. CallFits(c)
    BY <1>8, <1>9, <1>10, <1>11 DEF CallFits
  <1>13. call' = [call EXCEPT ![k] = c]
    BY <1>6, <1>7
  <1> QED BY <1>1, <1>8, <1>12, <1>13, CallStep, LinksKept

-------------------------------------------------------------------------------
(* Calls that begin *)

\* A call begins with a value for each column it is to write.
LEMMA StartStep ==
  ASSUME IInv, NEW k \in Slots, NEW op, NEW at \in {"guard", "find", "read"}, NEW u \in Users,
         NEW next \in Maps, Start(k, op, at, u, next),
         Typed(next),
         op \in AddressOps => DOMAIN next = {Email(u)} /\ next[Email(u)] # None,
         op \notin AddressOps => \A f \in DOMAIN next : f[1] # "email",
         op # "respond" => \A f \in DOMAIN next : f[1] \notin {"role", "requestStatus"},
         op = "respond" => \E r \in Requests : <<"requestStatus", r>> \in DOMAIN next,
         op = "respond" => \A f \in DOMAIN next : f[1] = "requestStatus",
         op = "visibility" => \A f \in DOMAIN next : \E t \in Tasks : f \in Flags(t),
         \A f \in DOMAIN next : f[1] \in {"email", "requestStatus"} => next[f] # None,
         op = "signup" => /\ at = "find" /\ value[Email(u)] = None
                          /\ \A j \in Serving : ~(call[j].op = "signup" /\ call[j].actor = u),
         op \in {"email", "verify"} => value[Email(u)] # None
  PROVE  IInv'
  <1> DEFINE new == [op |-> op, at |-> at, actor |-> u, role |-> None,
                     next |-> next, before |-> <<>>, missed |-> {}]
  <1>1. call' = [call EXCEPT ![k] = new] /\ UNCHANGED <<value, trail, links>> /\ op \in Ops
    BY DEF Start
  <1>2. new \in Calls
    BY <1>1, NothingTyped DEF Calls
  <1>3. PICK c \in Calls : c = new
    BY <1>2
  <1>4. /\ c.op = op /\ c.actor = u /\ c.next = next /\ c.at = at
        /\ c.before = <<>> /\ c.missed = {}
    BY <1>3
  <1> HIDE DEF new
  <1>5. NextFits(c)
    BY <1>4 DEF NextFits
  <1>6. BeforeFits(c)
    BY <1>4, NothingTyped DEF BeforeFits
  <1>7. ValueFits(c)
    BY <1>4, NothingTyped DEF ValueFits
  <1>8. CallFits(c)
    BY <1>4, <1>5, <1>6, <1>7 DEF CallFits
  <1> QED BY <1>1, <1>3, <1>4, <1>8, CallStep, LinksKept

LEMMA BeginStep ==
  ASSUME IInv, NEW k \in Slots, Begin(k)
  PROVE  IInv'
  <1> USE DEF IInv
  <1>1. ASSUME NEW u \in Users, NEW e \in Emails,
               BeginSignup(k, u, e) \/ BeginChangeEmail(k, u, e) \/ BeginVerify(k, u, e)
        PROVE  IInv'
    <2> DEFINE m == One(Email(u), e)
    <2>1. /\ m \in Maps /\ Typed(m) /\ DOMAIN m = {Email(u)} /\ m[Email(u)] = e /\ e # None
          /\ \A f \in DOMAIN m : f[1] = "email"
      <3>1. Email(u) \in Fields /\ e \in Domain(Email(u)) /\ e # None
        BY Columns, AccountsAssumption
      <3>2. Email(u)[1] = "email"
        BY DEF Email
      <3> QED BY <3>1, <3>2, OneTyped
    <2>2. CASE BeginSignup(k, u, e)
      <3>1. Start(k, "signup", "find", u, m) /\ value[Email(u)] = None
            /\ \A j \in Serving : ~(call[j].op = "signup" /\ call[j].actor = u)
        BY <2>2 DEF BeginSignup, Email
      <3> HIDE DEF m
      <3> QED BY <2>1, <3>1, StartStep DEF AddressOps
    <2>3. CASE BeginChangeEmail(k, u, e)
      <3>1. Start(k, "email", "guard", u, m) /\ value[Email(u)] # None
        BY <2>3 DEF BeginChangeEmail, Email
      <3> HIDE DEF m
      <3> QED BY <2>1, <3>1, StartStep DEF AddressOps
    <2>4. CASE BeginVerify(k, u, e)
      <3>1. Start(k, "verify", "read", u, m)
        BY <2>4 DEF BeginVerify, Email
      <3>2. value[Email(u)] # None
        BY <2>4 DEF BeginVerify, LinksFit
      <3> HIDE DEF m
      <3> QED BY <2>1, <3>1, <3>2, StartStep DEF AddressOps
    <2> QED BY <1>1, <2>2, <2>3, <2>4
  <1>2. ASSUME NEW a \in Users, NEW u \in Users, NEW d, d \in Domain(<<"desativado", u>>),
               \/ Start(k, "status", "guard", a, One(<<"desativado", u>>, d))
               \/ Start(k, "deactivate", "guard", a, One(<<"desativado", u>>, d))
        PROVE  IInv'
    <2> DEFINE m == One(<<"desativado", u>>, d)
    <2>1. /\ m \in Maps /\ Typed(m) /\ DOMAIN m = {<<"desativado", u>>}
          /\ \A f \in DOMAIN m : f[1] = "desativado"
      <3>1. <<"desativado", u>> \in Fields
        BY Columns
      <3> QED BY <1>2, <3>1, OneTyped
    <2>2. Start(k, "status", "guard", a, m) \/ Start(k, "deactivate", "guard", a, m)
      BY <1>2
    <2> HIDE DEF m
    <2> QED BY <2>1, <2>2, StartStep DEF AddressOps
  <1>3. ASSUME NEW a \in Users, NEW r \in Requests, NEW s \in {"APPROVED", "REJECTED"},
               BeginRespond(k, a, r, s)
        PROVE  IInv'
    <2> DEFINE m == One(<<"requestStatus", r>>, s)
    <2>1. /\ m \in Maps /\ Typed(m) /\ DOMAIN m = {<<"requestStatus", r>>}
          /\ m[<<"requestStatus", r>>] = s /\ s # None
          /\ \A f \in DOMAIN m : f[1] = "requestStatus"
      <3>1. /\ <<"requestStatus", r>> \in Fields /\ s # None
            /\ s \in Domain(<<"requestStatus", r>>)
        BY Columns, AccountsAssumption
      <3>2. /\ m \in Maps /\ Typed(m) /\ DOMAIN m = {<<"requestStatus", r>>}
            /\ m[<<"requestStatus", r>>] = s
        BY <3>1, OneTyped
      <3> HIDE DEF m
      <3> QED BY <3>1, <3>2
    <2>2. Start(k, "respond", "guard", a, m)
      BY <1>3 DEF BeginRespond
    <2> HIDE DEF m
    <2> QED BY <2>1, <2>2, StartStep DEF AddressOps
  <1>4. ASSUME NEW a \in Users, NEW s \in Subs, NEW c \in Comments, BeginFeedback(k, a, s, c)
        PROVE  IInv'
    <2> DEFINE m == One(<<"professorComments", s>>, c)
    <2>1. /\ m \in Maps /\ Typed(m) /\ DOMAIN m = {<<"professorComments", s>>}
          /\ \A f \in DOMAIN m : f[1] = "professorComments"
      BY Columns, OneTyped
    <2>2. Start(k, "feedback", "guard", a, m)
      BY <1>4 DEF BeginFeedback
    <2> HIDE DEF m
    <2> QED BY <2>1, <2>2, StartStep DEF AddressOps
  <1>5. ASSUME NEW a \in Users, NEW t \in Tasks, NEW F \in SUBSET {"isVisible", "isPublic"},
               NEW b \in BOOLEAN, NEW m, m = [f \in F \X {t} |-> b], BeginVisibility(k, a, m)
        PROVE  IInv'
    <2>1. DOMAIN m = F \X {t} /\ \A f \in DOMAIN m : m[f] = b
      BY <1>5
    <2>2. \A f \in F \X {t} : /\ f \in Fields /\ Domain(f) = BOOLEAN /\ f \in Flags(t)
                              /\ f[1] \in {"isVisible", "isPublic"}
      <3>1. ASSUME NEW f \in F \X {t}
            PROVE  /\ f \in Fields /\ Domain(f) = BOOLEAN /\ f \in Flags(t)
                   /\ f[1] \in {"isVisible", "isPublic"}
        <4>1. PICK n \in {"isVisible", "isPublic"} : f = <<n, t>>
          <5>1. f = <<f[1], f[2]>> /\ f[1] \in F /\ f[2] = t
            OBVIOUS
          <5> QED BY <5>1
        <4>2. f \in Flags(t) /\ f[1] \in {"isVisible", "isPublic"}
          BY <4>1 DEF Flags
        <4> QED BY <4>1, <4>2, Columns
      <3> QED BY <3>1
    <2>3. m \in Maps /\ Typed(m)
      <3>1. m \in [F \X {t} -> BOOLEAN]
        BY <1>5
      <3>2. Typed(m)
        BY <2>1, <2>2 DEF Typed
      <3>3. m \in Maps
        BY <2>1, <2>2, <3>1 DEF Maps
      <3> QED BY <3>2, <3>3
    <2>4. Start(k, "visibility", "guard", a, m)
      BY <1>5 DEF BeginVisibility
    <2> QED BY <2>1, <2>2, <2>3, <2>4, StartStep DEF AddressOps
  <1>6. ASSUME NEW a \in Users, NEW u \in Users, NEW d \in BOOLEAN, BeginStatus(k, a, u, d)
        PROVE  IInv'
    BY <1>2, <1>6, Columns DEF BeginStatus
  <1>7. ASSUME NEW u \in Users, BeginDeactivate(k, u)
        PROVE  IInv'
    <2>1. TRUE \in Domain(<<"desativado", u>>)
      BY Columns
    <2> QED BY <1>2, <1>7, <2>1 DEF BeginDeactivate
  <1>81. CASE \E u \in Users, e \in Emails :
                BeginSignup(k, u, e) \/ BeginChangeEmail(k, u, e) \/ BeginVerify(k, u, e)
    BY <1>1, <1>81
  <1>82. CASE \/ \E a, u \in Users, d \in BOOLEAN : BeginStatus(k, a, u, d)
              \/ \E u \in Users : BeginDeactivate(k, u)
    BY <1>6, <1>7, <1>82
  <1>83. CASE \E a \in Users, t \in Tasks, F \in SUBSET {"isVisible", "isPublic"}, b \in BOOLEAN :
                F # {} /\ BeginVisibility(k, a, [f \in F \X {t} |-> b])
    <2>1. PICK a \in Users, t \in Tasks, F \in SUBSET {"isVisible", "isPublic"}, b \in BOOLEAN :
            F # {} /\ BeginVisibility(k, a, [f \in F \X {t} |-> b])
      BY <1>83
    <2>2. PICK m : m = [f \in F \X {t} |-> b] /\ BeginVisibility(k, a, m)
      BY <2>1
    <2> QED BY <1>5, <2>2
  <1>9. CASE \E a \in Users, r \in Requests, s \in {"APPROVED", "REJECTED"} :
               BeginRespond(k, a, r, s)
    BY <1>3, <1>9
  <1>10. CASE \E a \in Users, s \in Subs, c \in Comments : BeginFeedback(k, a, s, c)
    BY <1>4, <1>10
  <1> QED BY <1>81, <1>82, <1>83, <1>9, <1>10 DEF Begin

-------------------------------------------------------------------------------
(* Steps that write *)

\* What a call knows stays true when others write, as far as it is not told
\* that its columns were missed.
LEMMA CallKept ==
  ASSUME IInv, NEW c, CallFits(c), NEW d \in Calls,
         d.op = c.op, d.at = c.at, d.actor = c.actor, d.next = c.next, d.before = c.before,
         c.missed \subseteq d.missed,
         \A f \in DOMAIN c.before : value'[f] # value[f] => f \in d.missed,
         \A f \in DOMAIN c.before : f[1] \in {"email", "requestStatus"} => value'[f] # None,
         c.op = "signup" => value'[Email(c.actor)] = None,
         c.op \in {"email", "verify"} => value'[Email(c.actor)] # None
  PROVE  CallFits(d)'
  <1>1. NextFits(d) /\ BeforeFits(d)
    BY DEF CallFits, NextFits, BeforeFits
  <1>2. NextFits(d)' /\ BeforeFits(d)'
    BY <1>1 DEF NextFits, BeforeFits
  <1>3. ValueFits(d)'
    BY DEF CallFits, ValueFits
  <1> QED BY <1>2, <1>3 DEF CallFits

LEMMA AskStep ==
  ASSUME IInv, NEW r \in Requests, AskPermission(r)
  PROVE  IInv'
  <1> USE DEF IInv
  <1> DEFINE g == <<"requestStatus", r>>
  <1>1. /\ value' = [value EXCEPT ![g] = "PENDING"] /\ value[g] = None
        /\ UNCHANGED <<trail, links, call>> /\ g \in Fields /\ g[1] = "requestStatus"
        /\ "PENDING" \in Domain(g) /\ "PENDING" # None
    BY Columns, AccountsAssumption DEF AskPermission
  <1>2. /\ \A f \in Fields : f # g => value'[f] = value[f]
        /\ value'[g] = "PENDING" /\ DOMAIN value' = Fields
        /\ value' = [f \in Fields |-> value'[f]]
    BY <1>1 DEF TablesFit
  <1>3. \A u \in Users : value'[Email(u)] = value[Email(u)]
    BY <1>1, <1>2, Columns DEF Email
  <1> HIDE DEF g
  <1>4. TablesFit'
    BY <1>1, <1>2 DEF TablesFit
  <1>5. LinksFit' /\ EmailsUnique'
    <2>1. LinksFit'
      BY <1>1, <1>3 DEF LinksFit
    <2>2. EmailsUnique'
      BY <1>3 DEF EmailsUnique, Email
    <2> QED BY <2>1, <2>2
  <1>6. CallsFit'
    <2>1. Serving' = Serving /\ call' = call
      BY <1>1 DEF Serving
    <2>2. ASSUME NEW j \in Serving PROVE CallFits(call[j])'
      <3>1. CallFits(call[j]) /\ call[j] \in Calls /\ call[j].actor \in Users
        BY DEF CallsFit, CallFits, Calls
      <3>2. \A f \in DOMAIN call[j].before : f # g /\ f \in Fields
        BY <1>1, <3>1 DEF CallFits, ValueFits, BeforeFits, Typed
      <3>3. PICK c \in Calls : c = call[j]
        BY <3>1
      <3>4. CallFits(c)'
        BY <1>2, <1>3, <3>1, <3>2, <3>3, CallKept DEF CallFits, ValueFits
      <3> QED BY <2>1, <3>3, <3>4
    <2> QED BY <2>1, <2>2 DEF CallsFit
  <1>7. SignupsApart'
    BY <1>1 DEF SignupsApart, Serving
  <1> QED BY <1>4, <1>5, <1>6, <1>7

\* What the transaction of a call does to the columns.
LEMMA Written ==
  ASSUME IInv, NEW k \in Slots, Write(k)
  PROVE  /\ k \in Serving /\ CallFits(call[k]) /\ call[k].at \in {"write", "commit"}
         /\ DOMAIN value' = Fields /\ value' = [f \in Fields |-> value'[f]]
         /\ \A f \in Fields :
              value'[f] = value[f] \/ (f \in DOMAIN call[k].next /\ value'[f] = call[k].next[f])
         /\ \A f \in Fields : value'[f] \in Domain(f)
         /\ value' # value =>
              Writable(call[k]) /\ \A f \in DOMAIN call[k].next : value'[f] = call[k].next[f]
         /\ links' = links
         /\ \A j \in Slots : j # k /\ call[j] # None =>
              call'[j] = [call[j] EXCEPT !.missed = @ \cup Missed(j)]
  <1> USE DEF IInv
  <1>1. k \in Serving /\ CallFits(call[k]) /\ call[k].at \in {"write", "commit"}
    BY DEF Write, Serving, CallsFit
  <1>2. links' = links /\ \A j \in Slots : j # k /\ call[j] # None =>
          call'[j] = [call[j] EXCEPT !.missed = @ \cup Missed(j)]
    BY DEF Write
  <1>3. Typed(call[k].next) /\ Typed(value)
    BY <1>1 DEF CallFits, NextFits, TablesFit, Typed
  <1>4. /\ DOMAIN value' = Fields /\ value' = [f \in Fields |-> value'[f]]
        /\ \A f \in Fields :
              value'[f] = value[f] \/ (f \in DOMAIN call[k].next /\ value'[f] = call[k].next[f])
        /\ \A f \in Fields : value'[f] \in Domain(f)
        /\ value' # value => \A f \in DOMAIN call[k].next : value'[f] = call[k].next[f]
    <2>1. CASE value' = value
      <3>1. DOMAIN value' = Fields /\ value' = [f \in Fields |-> value'[f]]
        BY <2>1 DEF TablesFit
      <3>2. \A f \in Fields : value'[f] = value[f] /\ value'[f] \in Domain(f)
        BY <2>1 DEF TablesFit
      <3> QED BY <2>1, <3>1, <3>2
    <2>2. CASE Writable(call[k]) /\ value' = Over(call[k].next, value)
      <3>1. /\ Typed(value') /\ DOMAIN value' = DOMAIN call[k].next \cup DOMAIN value
            /\ \A f \in DOMAIN call[k].next : value'[f] = call[k].next[f]
            /\ \A f \in DOMAIN value : f \notin DOMAIN call[k].next => value'[f] = value[f]
        <4> DEFINE o == Over(call[k].next, value)
        <4>1. /\ Typed(o) /\ DOMAIN o = DOMAIN call[k].next \cup DOMAIN value
              /\ \A f \in DOMAIN call[k].next : o[f] = call[k].next[f]
              /\ \A f \in DOMAIN value : f \notin DOMAIN call[k].next => o[f] = value[f]
          BY <1>3, OverTyped
        <4> HIDE DEF o
        <4>2. value' = o
          BY <2>2 DEF o
        <4> QED BY <4>1, <4>2 DEF Typed
      <3>2. DOMAIN value = Fields /\ DOMAIN call[k].next \subseteq Fields
        BY <1>3 DEF TablesFit, Typed
      <3>3. value' = [f \in Fields |-> value'[f]]
        BY <2>2, <3>1, <3>2 DEF Over
      <3>4. \A f \in Fields : value'[f] \in Domain(f)
        BY <3>1, <3>2 DEF Typed
      <3>5. \A f \in Fields : f \in DOMAIN call[k].next \/ value'[f] = value[f]
        BY <3>1, <3>2
      <3>6. \A f \in DOMAIN call[k].next : value'[f] = call[k].next[f]
        BY <3>1
      <3> QED BY <3>1, <3>2, <3>3, <3>4, <3>5, <3>6
    <2> QED BY <2>1, <2>2 DEF Write
  <1>5. value' # value => Writable(call[k])
    BY DEF Write
  <1> QED BY <1>1, <1>2, <1>4, <1>5

LEMMA WriteStep ==
  ASSUME IInv, NEW k \in Slots, Write(k)
  PROVE  IInv'
  <1> USE DEF IInv
  <1> DEFINE c == call[k]
  <1>1. /\ k \in Serving /\ CallFits(c) /\ c.at \in {"write", "commit"} /\ links' = links
        /\ DOMAIN value' = Fields /\ value' = [f \in Fields |-> value'[f]]
        /\ \A f \in Fields : value'[f] = value[f] \/ (f \in DOMAIN c.next /\ value'[f] = c.next[f])
        /\ \A f \in Fields : value'[f] \in Domain(f)
        /\ value' # value => Writable(c) /\ \A f \in DOMAIN c.next : value'[f] = c.next[f]
        /\ \A j \in Slots : j # k /\ call[j] # None =>
             call'[j] = [call[j] EXCEPT !.missed = @ \cup Missed(j)]
    BY Written
  <1>2. NextFits(c) /\ c.actor \in Users
    BY <1>1 DEF CallFits, Calls
  <1>3. \A f \in Fields : f[1] \in {"email", "requestStatus"} /\ value[f] # None => value'[f] # None
    BY <1>1, <1>2 DEF NextFits
  <1>4. \A u \in Users : value'[Email(u)] # value[Email(u)] =>
          /\ u = c.actor /\ c.op \in AddressOps /\ DOMAIN c.next = {Email(u)}
          /\ value'[Email(u)] = c.next[Email(u)] /\ Writable(c)
    <2> SUFFICES ASSUME NEW u \in Users, value'[Email(u)] # value[Email(u)]
                 PROVE  /\ u = c.actor /\ c.op \in AddressOps /\ DOMAIN c.next = {Email(u)}
                        /\ value'[Email(u)] = c.next[Email(u)] /\ Writable(c)
      OBVIOUS
    <2>1. Email(u) \in Fields /\ Email(u)[1] = "email"
      BY Columns DEF Email
    <2>2. Email(u) \in DOMAIN c.next /\ value'[Email(u)] = c.next[Email(u)] /\ Writable(c)
      BY <1>1, <2>1
    <2>3. c.op \in AddressOps
      BY <1>2, <2>1, <2>2 DEF NextFits
    <2>4. Email(u) = Email(c.actor) /\ DOMAIN c.next = {Email(u)}
      BY <1>2, <2>2, <2>3 DEF NextFits
    <2>5. u = c.actor
      BY <2>4 DEF Email
    <2> QED BY <2>2, <2>3, <2>4, <2>5
  <1> HIDE DEF c
  <1>5. EmailsUnique'
    <2> SUFFICES ASSUME NEW u \in Users, NEW v \in Users, value'[Email(u)] = value'[Email(v)],
                        value'[Email(u)] # None, u # v
                 PROVE  FALSE
      BY DEF EmailsUnique, Email
    <2>1. value[Email(u)] # value'[Email(u)] \/ value[Email(v)] # value'[Email(v)]
      BY DEF EmailsUnique, Email
    <2>2. ASSUME NEW w \in Users, NEW x \in Users, w # x, value'[Email(w)] # value[Email(w)],
                 value'[Email(w)] = value'[Email(x)]
          PROVE  FALSE
      <3>1. value'[Email(x)] = value[Email(x)]
        BY <1>4, <2>2
      <3>2. Email(w) \in DOMAIN c.next /\ Email(w)[1] = "email" /\ Writable(c)
            /\ value[Email(x)] = c.next[Email(w)] /\ Email(x) # Email(w)
        BY <1>4, <2>2, <3>1 DEF Email
      <3> QED BY <3>2 DEF Writable, Email
    <2> QED BY <2>1, <2>2
  <1>6. LinksFit'
    <2> SUFFICES ASSUME NEW l \in links
                 PROVE  \E u \in Users, e \in Emails : l = <<u, e>> /\ value'[Email(u)] # None
      BY <1>1 DEF LinksFit
    <2>1. PICK u \in Users, e \in Emails : l = <<u, e>> /\ value[Email(u)] # None
      BY DEF LinksFit
    <2>2. Email(u) \in Fields /\ Email(u)[1] = "email"
      BY Columns DEF Email
    <2> QED BY <1>3, <2>1, <2>2
  <1>7. /\ DOMAIN call' = Slots /\ call' = [j \in Slots |-> call'[j]]
        /\ call'[k] = None /\ \A j \in Slots : call[j] = None => call'[j] = None
    BY DEF Write
  <1>8. TablesFit'
    <2>1. DOMAIN trail' = Fields /\ \A f \in Fields : trail'[f] \in Seq(Event(f))
      <3>1. CASE trail' = trail
        BY <3>1 DEF TablesFit
      <3>2. CASE trail' # trail
        <4> DEFINE after == Afters(c)
        <4>1. trail' = [f \in Fields |->
                IF f \in Changed(c.before, after)
                THEN Append(trail[f], [before |-> c.before[f], after |-> after[f]])
                ELSE trail[f]]
          BY <3>2 DEF Write, c
        <4>2. Typed(after) /\ DOMAIN c.before \subseteq DOMAIN after /\ Typed(c.before)
          <5>1. Typed(c.next) /\ Typed(c.before)
            BY <1>1 DEF CallFits, NextFits, BeforeFits
          <5>2. Typed(after) /\ DOMAIN after = DOMAIN c.next \cup DOMAIN c.before
            BY <5>1, OverTyped DEF Afters
          <5> QED BY <5>1, <5>2
        <4> HIDE DEF after
        <4>3. ASSUME NEW f \in Fields PROVE trail'[f] \in Seq(Event(f))
          <5>1. trail[f] \in Seq(Event(f))
            BY DEF TablesFit
          <5>2. CASE f \in Changed(c.before, after)
            <6>1. [before |-> c.before[f], after |-> after[f]] \in Event(f)
              BY <4>2, <5>2 DEF Changed, Typed, Event
            <6>2. trail'[f] = Append(trail[f], [before |-> c.before[f], after |-> after[f]])
              BY <4>1, <5>2
            <6> QED BY <5>1, <6>1, <6>2
          <5>3. CASE f \notin Changed(c.before, after)
            BY <4>1, <5>1, <5>3
          <5> QED BY <5>2, <5>3
        <4> QED BY <4>1, <4>3
      <3> QED BY <3>1, <3>2
    <2> QED BY <1>1, <1>7, <2>1 DEF TablesFit
  <1>9. \A j \in Serving' : j \in Serving /\ j # k /\ j \in Slots
    BY <1>7 DEF Serving
  <1>10. ASSUME NEW j \in Serving, j # k
         PROVE  \E d \in Calls : /\ d = call'[j] /\ CallFits(d)'
                                 /\ d.op = call[j].op /\ d.actor = call[j].actor
    <2>1. CallFits(call[j]) /\ call[j] \in Calls /\ call[j].actor \in Users
      BY DEF CallsFit, CallFits, Calls
    <2>2. Missed(j) \subseteq Fields
          /\ \A f \in DOMAIN call[j].before : f \in Fields /\ (value'[f] # value[f] => f \in Missed(j))
      BY <2>1 DEF Missed, CallFits, BeforeFits, Typed
    <2>3. call'[j] = [call[j] EXCEPT !.missed = @ \cup Missed(j)]
      BY <1>1, <1>10 DEF Serving
    <2> DEFINE M == Missed(j)
    <2> HIDE DEF M
    <2>4. PICK d \in Calls : d = [call[j] EXCEPT !.missed = @ \cup M]
      BY <2>1, <2>2 DEF Calls, M
    <2>5. /\ d.op = call[j].op /\ d.at = call[j].at /\ d.actor = call[j].actor
          /\ d.next = call[j].next /\ d.before = call[j].before
          /\ d.missed = call[j].missed \cup M
      BY <2>1, <2>4 DEF Calls
    <2>6. \A f \in DOMAIN call[j].before : f[1] \in {"email", "requestStatus"} => value'[f] # None
      BY <1>3, <2>1, <2>2 DEF CallFits, ValueFits
    <2>7. call[j].op = "signup" => value'[Email(call[j].actor)] = None
      <3> SUFFICES ASSUME call[j].op = "signup", value'[Email(call[j].actor)] # None PROVE FALSE
        OBVIOUS
      <3>1. value[Email(call[j].actor)] = None
        BY <2>1 DEF CallFits, ValueFits
      <3>2. c.actor = call[j].actor /\ c.op \in AddressOps
        BY <1>4, <2>1, <3>1
      <3>3. c.op = "signup"
        BY <1>1, <3>1, <3>2 DEF CallFits, ValueFits, AddressOps
      <3> QED BY <1>1, <1>10, <3>2, <3>3 DEF SignupsApart, c
    <2>8. call[j].op \in {"email", "verify"} => value'[Email(call[j].actor)] # None
      <3>1. Email(call[j].actor) \in Fields /\ Email(call[j].actor)[1] = "email"
        BY <2>1, Columns DEF Email
      <3> QED BY <1>3, <2>1, <3>1 DEF CallFits, ValueFits
    <2>9. CallFits(d)'
      BY <2>1, <2>2, <2>5, <2>6, <2>7, <2>8, CallKept DEF M
    <2> QED BY <2>3, <2>4, <2>5, <2>9 DEF M
  <1>11. CallsFit'
    BY <1>9, <1>10 DEF CallsFit
  <1>12. SignupsApart'
    BY <1>9, <1>10 DEF SignupsApart
  <1> QED BY <1>5, <1>6, <1>8, <1>11, <1>12

LEMMA NextStep == IInv /\ [Next]_vars => IInv'
  <1> SUFFICES ASSUME IInv, [Next]_vars PROVE IInv'
    OBVIOUS
  <1>1. ASSUME NEW k \in Slots,
               \/ Begin(k) \/ Guard(k) \/ FindEmail(k)
               \/ Read(k) \/ FindPromoted(k) \/ Write(k) \/ Fail(k)
        PROVE  IInv'
    BY <1>1, BeginStep, GuardStep, FindEmailStep, ReadStep, FindPromotedStep, WriteStep, EndStep
       DEF Fail
  <1>2. ASSUME NEW r \in Requests, AskPermission(r) PROVE IInv'
    BY <1>2, AskStep
  <1>3. CASE UNCHANGED vars
    <2>1. UNCHANGED <<value, trail, links, call>>
      BY <1>3 DEF vars
    <2>2. TablesFit' /\ LinksFit' /\ EmailsUnique'
      BY <2>1 DEF IInv, TablesFit, LinksFit, EmailsUnique
    <2>3. Serving' = Serving /\ SignupsApart'
      BY <2>1 DEF IInv, SignupsApart, Serving
    <2>4. ASSUME NEW c, CallFits(c) PROVE CallFits(c)'
      BY <2>1, <2>4 DEF CallFits, NextFits, BeforeFits, ValueFits
    <2>5. CallsFit'
      BY <2>1, <2>3, <2>4 DEF IInv, CallsFit
    <2> QED BY <2>2, <2>3, <2>5 DEF IInv
  <1> QED BY <1>1, <1>2, <1>3 DEF Next

\* What the calls know of the columns is kept by every step.
THEOREM Inductive == Spec => []IInv
  BY InitHolds, NextStep, PTL DEF Spec

\* Columns and events hold values of their columns.
THEOREM AuditedTypeCorrect == Spec => []TypeOK
  <1>1. IInv => TypeOK
    <2> SUFFICES ASSUME IInv, NEW f \in Fields
                 PROVE  /\ value[f] \in Domain(f)
                        /\ \A i \in DOMAIN trail[f] :
                             trail[f][i].before \in Domain(f) /\ trail[f][i].after \in Domain(f)
      BY DEF TypeOK
    <2>1. value[f] \in Domain(f) /\ trail[f] \in Seq(Event(f))
      BY DEF IInv, TablesFit
    <2>2. ASSUME NEW i \in DOMAIN trail[f]
          PROVE  trail[f][i].before \in Domain(f) /\ trail[f][i].after \in Domain(f)
      <3>1. trail[f][i] \in Event(f)
        BY <2>1
      <3> QED BY <3>1 DEF Event
    <2> QED BY <2>1, <2>2
  <1> QED BY <1>1, Inductive, PTL

\* An address is one account's: the signup's insert and the confirmation's
\* update fail where the other was first.
THEOREM AddressesApart == Spec => []EmailsUnique
  <1>1. IInv => EmailsUnique
    BY DEF IInv
  <1> QED BY <1>1, Inductive, PTL

-------------------------------------------------------------------------------
(* The trail *)

\* A call that was not outrun on a column records what it does to it.
LEMMA WriteDiff ==
  ASSUME IInv, NEW k \in Slots, Write(k), NEW f \in Fields, f \notin call[k].missed
  PROVE  DiffIsTheChange(f)
  <1> DEFINE c == call[k]
             after == Afters(c)
  <1>1. /\ CallFits(c) /\ c.at \in {"write", "commit"}
        /\ value'[f] = value[f] \/ (f \in DOMAIN c.next /\ value'[f] = c.next[f])
        /\ value' # value => \A g \in DOMAIN c.next : value'[g] = c.next[g]
    BY Written
  <1>2. Typed(c.next) /\ Typed(c.before)
    BY <1>1 DEF CallFits, NextFits, BeforeFits
  <1>3. /\ DOMAIN after = DOMAIN c.next \cup DOMAIN c.before
        /\ \A g \in DOMAIN c.next : after[g] = c.next[g]
        /\ \A g \in DOMAIN c.before : g \notin DOMAIN c.next => after[g] = c.before[g]
    BY <1>2, OverTyped DEF Afters
  <1>4. f \in DOMAIN c.before => c.before[f] = value[f]
    BY <1>1 DEF CallFits, ValueFits
  <1>5. f \in DOMAIN c.before /\ f[1] \in {"email", "requestStatus"} => value[f] # None
    BY <1>1 DEF CallFits, ValueFits
  <1>6. f \in DOMAIN c.next /\ f \notin DOMAIN c.before =>
          c.op = "signup" /\ f = Email(c.actor) /\ value[f] = None /\ f[1] = "email"
    <2> SUFFICES ASSUME f \in DOMAIN c.next, f \notin DOMAIN c.before
                 PROVE  c.op = "signup" /\ f = Email(c.actor) /\ value[f] = None /\ f[1] = "email"
      OBVIOUS
    <2>1. c.op = "signup"
      BY <1>1 DEF CallFits, BeforeFits
    <2>2. f = Email(c.actor)
      BY <1>1, <2>1 DEF CallFits, NextFits, AddressOps
    <2>3. value[f] = None
      BY <1>1, <2>1, <2>2 DEF CallFits, ValueFits
    <2> QED BY <2>1, <2>2, <2>3 DEF Email
  <1>7. CASE value' = value /\ trail' = trail
    BY <1>7 DEF DiffIsTheChange
  <1>8. CASE /\ value' = Over(c.next, value)
             /\ trail' = [g \in Fields |->
                  IF g \in Changed(c.before, after)
                  THEN Append(trail[g], [before |-> c.before[g], after |-> after[g]])
                  ELSE trail[g]]
    <2>1. \A g \in DOMAIN c.next : value'[g] = c.next[g]
      BY <1>8 DEF Over
    <2> HIDE DEF c, after
    <2>2. CASE f \in DOMAIN c.before
      <3>1. value'[f] = after[f]
        BY <1>1, <1>3, <1>4, <2>1, <2>2
      <3>2. f \in Changed(c.before, after) <=> value'[f] # value[f]
        BY <1>4, <2>2, <3>1 DEF Changed
      <3>3. CASE value'[f] # value[f]
        <4>1. trail'[f] = Append(trail[f], [before |-> value[f], after |-> value'[f]])
          BY <1>4, <1>8, <2>2, <3>1, <3>2, <3>3
        <4> QED BY <1>5, <2>2, <3>3, <4>1 DEF DiffIsTheChange
      <3>4. CASE value'[f] = value[f]
        <4>1. trail'[f] = trail[f]
          BY <1>8, <3>2, <3>4
        <4> QED BY <3>4, <4>1 DEF DiffIsTheChange
      <3> QED BY <3>3, <3>4
    <2>3. CASE f \notin DOMAIN c.before
      <3>1. trail'[f] = trail[f]
        BY <1>8, <2>3 DEF Changed
      <3>2. value'[f] = value[f] \/ (value[f] = None /\ f[1] \in {"email", "requestStatus"})
        BY <1>1, <1>6, <2>3
      <3> QED BY <3>1, <3>2 DEF DiffIsTheChange
    <2> QED BY <2>2, <2>3
  <1> QED BY <1>7, <1>8 DEF Write

\* A step that is no transaction leaves the columns and the trail alone, but
\* for the insert of a request.
LEMMA OtherDiff ==
  ASSUME IInv, [Next]_vars, \A k \in Slots : ~Write(k), NEW f \in Fields
  PROVE  DiffIsTheChange(f)
  <1>1. ASSUME NEW r \in Requests, AskPermission(r) PROVE DiffIsTheChange(f)
    <2> DEFINE g == <<"requestStatus", r>>
    <2>1. value' = [value EXCEPT ![g] = "PENDING"] /\ value[g] = None /\ trail' = trail
      BY <1>1 DEF AskPermission
    <2>2. g[1] = "requestStatus" /\ DOMAIN value = Fields
      BY DEF IInv, TablesFit
    <2> HIDE DEF g
    <2>3. f # g => value'[f] = value[f]
      BY <2>1, <2>2
    <2> QED BY <2>1, <2>2, <2>3 DEF DiffIsTheChange
  <1>2. CASE UNCHANGED <<value, trail>>
    BY <1>2 DEF DiffIsTheChange
  <1>3. ASSUME NEW k \in Slots,
               Begin(k) \/ Guard(k) \/ FindEmail(k) \/ Read(k) \/ FindPromoted(k) \/ Fail(k)
        PROVE  UNCHANGED <<value, trail>>
    <2>1. Begin(k) => UNCHANGED <<value, trail>>
      BY DEF Begin, BeginSignup, BeginChangeEmail, BeginVerify, BeginStatus, BeginDeactivate,
             BeginRespond, BeginFeedback, BeginVisibility, Start
    <2> QED BY <1>3, <2>1 DEF Guard, FindEmail, Read, FindPromoted, Fail
  <1>4. UNCHANGED vars => UNCHANGED <<value, trail>>
    BY DEF vars
  <1> QED BY <1>1, <1>2, <1>3, <1>4 DEF Next

\* Only the end of a call that was outrun may record a change that did not
\* happen, whatever calls there are at once.
THEOREM TrailErrsOutrun == Spec => TrailExact
  <1>1. IInv /\ [Next]_vars => \A f \in Fields : Outrun(f) \/ DiffIsTheChange(f)
    <2> SUFFICES ASSUME IInv, [Next]_vars, NEW f \in Fields, ~Outrun(f)
                 PROVE  DiffIsTheChange(f)
      OBVIOUS
    <2>1. ASSUME NEW k \in Slots, Write(k) PROVE DiffIsTheChange(f)
      <3>1. k \in Serving /\ call'[k] = None
        BY <2>1 DEF Write, Serving
      <3>2. f \notin call[k].missed
        BY <3>1 DEF Outrun
      <3> QED BY <2>1, <3>2, WriteDiff
    <2> QED BY <2>1, OtherDiff
  <1>2. (\A f \in Fields : Outrun(f) \/ DiffIsTheChange(f))
          => [\A f \in Fields : Outrun(f) \/ DiffIsTheChange(f)]_vars
    OBVIOUS
  <1> QED BY <1>1, <1>2, Inductive, PTL DEF Spec, TrailExact

-------------------------------------------------------------------------------
(* The trail of roles, for one request *)

OneCommit ==
  \A j, k \in Serving : call[j].at = "commit" /\ call[k].at = "commit" => j = k

RolesCurrent == \A k \in Serving, u \in Users : <<"role", u>> \notin call[k].missed

RInv == IInv /\ OneCommit /\ RolesCurrent

OneRequest == \A q, r \in Requests : q = r

\* What a step that writes nothing does to the calls.
Keeps(j) ==
  \/ call'[j] = None
  \/ call'[j].at # "commit" /\ call'[j].missed = {}
  \/ /\ call[j] # None /\ call'[j].missed = call[j].missed
     /\ call'[j].at = "commit" => call[j].at = "commit"

LEMMA QuietKeeps ==
  ASSUME IInv, NEW k \in Slots,
         Begin(k) \/ Guard(k) \/ FindEmail(k) \/ Read(k) \/ Fail(k)
  PROVE  \A j \in Slots : Keeps(j)
  <1>1. DOMAIN call = Slots
    BY DEF IInv, TablesFit
  <1>2. ASSUME NEW c, call' = [call EXCEPT ![k] = c],
               \/ c = None
               \/ c.at # "commit" /\ c.missed = {}
               \/ call[k] # None /\ c.at # "commit" /\ c.missed = call[k].missed
        PROVE  \A j \in Slots : Keeps(j)
    <2>1. call'[k] = c /\ \A j \in Slots : j # k => call'[j] = call[j]
      BY <1>1, <1>2
    <2> QED BY <1>2, <2>1 DEF Keeps
  <1>3. CASE Finish(k)
    BY <1>2, <1>3 DEF Finish
  <1>4. CASE Begin(k)
    <2>1. ASSUME NEW op, NEW at, NEW u, NEW next, Start(k, op, at, u, next), at # "commit"
          PROVE  \A j \in Slots : Keeps(j)
      BY <1>2, <2>1 DEF Start
    <2> QED BY <1>4, <2>1
            DEF Begin, BeginSignup, BeginChangeEmail, BeginVerify, BeginStatus, BeginDeactivate,
                BeginRespond, BeginFeedback, BeginVisibility
  <1>5. CASE ~Finish(k) /\ ~Begin(k)
    <2>1. k \in Serving /\ call[k] \in Calls
      BY <1>5 DEF Guard, FindEmail, At, Read, Fail, Serving, IInv, CallsFit, CallFits
    <2>2. CASE Guard(k)
      <3> DEFINE r == value[<<"role", call[k].actor>>]
                 a == IF call[k].op = "email" THEN "find" ELSE "read"
                 c == [call[k] EXCEPT !.role = r, !.at = a]
      <3>1. call' = [call EXCEPT ![k] = c]
        BY <1>5, <2>2 DEF Guard
      <3>2. c.at # "commit" /\ c.missed = call[k].missed
        BY <2>1 DEF Calls
      <3> QED BY <1>2, <2>1, <3>1, <3>2 DEF Serving
    <2>3. CASE FindEmail(k)
      <3> DEFINE c == [call[k] EXCEPT !.at = "write"]
      <3>1. call' = [call EXCEPT ![k] = c]
        BY <1>5, <2>3 DEF FindEmail, GoTo
      <3>2. c.at # "commit" /\ c.missed = call[k].missed
        BY <2>1 DEF Calls
      <3> QED BY <1>2, <2>1, <3>1, <3>2 DEF Serving
    <2>4. CASE Read(k)
      <3> DEFINE b == [f \in Audited(call[k]) |-> value[f]]
      <3>1. call' = [call EXCEPT ![k].before = b, ![k].at = "write"]
        BY <1>5, <2>4 DEF Read
      <3> HIDE DEF b
      <3> DEFINE c == [call[k] EXCEPT !.before = b, !.at = "write"]
      <3>2. call' = [call EXCEPT ![k] = c]
        BY <3>1
      <3>3. c.at # "commit" /\ c.missed = call[k].missed
        BY <2>1 DEF Calls
      <3> QED BY <1>2, <2>1, <3>2, <3>3 DEF Serving
    <2> QED BY <1>5, <2>2, <2>3, <2>4 DEF Fail
  <1> QED BY <1>3, <1>4, <1>5

LEMMA KeepsKeep ==
  ASSUME RInv, \A j \in Slots : Keeps(j)
  PROVE  OneCommit' /\ RolesCurrent'
  <1>1. \A j \in Serving' : \/ call'[j].at # "commit" /\ call'[j].missed = {}
                            \/ /\ j \in Serving /\ call'[j].missed = call[j].missed
                               /\ call'[j].at = "commit" => call[j].at = "commit"
    BY DEF Keeps, Serving
  <1>2. OneCommit'
    BY <1>1 DEF RInv, OneCommit
  <1>3. RolesCurrent'
    BY <1>1 DEF RInv, RolesCurrent
  <1> QED BY <1>2, <1>3

\* Its lock keeps the transactions on a request apart.
LEMMA PromotedKeeps ==
  ASSUME RInv, OneRequest, NEW k \in Slots, FindPromoted(k)
  PROVE  OneCommit' /\ RolesCurrent'
  <1>1. /\ k \in Serving /\ CallFits(call[k]) /\ call[k].op = "respond"
        /\ RowFree(k) /\ DOMAIN call = Slots
    BY DEF FindPromoted, At, Serving, RInv, IInv, CallsFit, TablesFit
  <1>2. \A j \in Serving : call[j].at # "commit"
    <2> SUFFICES ASSUME NEW j \in Serving, call[j].at = "commit" PROVE FALSE
      OBVIOUS
    <2>1. CallFits(call[j]) /\ call[j].op = "respond"
      BY DEF RInv, IInv, CallsFit, CallFits
    <2>2. PICK q \in Requests : <<"requestStatus", q>> \in DOMAIN call[j].next
      BY <2>1 DEF CallFits, NextFits
    <2>3. PICK r \in Requests : <<"requestStatus", r>> \in DOMAIN call[k].next
      BY <1>1 DEF CallFits, NextFits
    <2>4. q = r
      BY DEF OneRequest
    <2> QED BY <1>1, <2>2, <2>3, <2>4 DEF RowFree
  <1>3. /\ \A j \in Slots : j # k => call'[j] = call[j]
        /\ call'[k].missed = call[k].missed
    <2> DEFINE R == {"role"} \X Promoted(call[k])
               n == Over(call[k].next, [f \in R |-> "PROFESSOR"])
               b == Over(call[k].before, [f \in R |-> value[f]])
    <2>1. call' = [call EXCEPT ![k].at = "commit", ![k].next = n, ![k].before = b]
      BY DEF FindPromoted
    <2> HIDE DEF n, b
    <2>2. call[k] \in Calls
      BY <1>1 DEF CallFits
    <2> QED BY <1>1, <2>1, <2>2 DEF Calls
  <1>4. \A j \in Serving' : j \in Serving /\ (j # k => call'[j] = call[j])
    BY <1>1, <1>3 DEF Serving
  <1>5. OneCommit'
    BY <1>2, <1>4 DEF OneCommit
  <1>6. RolesCurrent'
    BY <1>3, <1>4 DEF RInv, RolesCurrent
  <1> QED BY <1>5, <1>6

LEMMA WriteKeeps ==
  ASSUME RInv, NEW k \in Slots, Write(k)
  PROVE  OneCommit' /\ RolesCurrent'
  <1>1. /\ k \in Serving /\ CallFits(call[k])
        /\ \A f \in Fields : value'[f] = value[f] \/ (f \in DOMAIN call[k].next /\ value'[f] = call[k].next[f])
        /\ \A j \in Slots : j # k /\ call[j] # None =>
             call'[j] = [call[j] EXCEPT !.missed = @ \cup Missed(j)]
    BY Written DEF RInv
  <1>2. \A j \in Serving' : j \in Serving /\ j # k /\ j \in Slots
    BY DEF Serving, Write, RInv, IInv, TablesFit
  <1>3. ASSUME NEW j \in Serving, j # k
        PROVE  /\ call'[j].at = call[j].at
               /\ call'[j].missed = call[j].missed \cup Missed(j)
    <2> DEFINE M == Missed(j)
    <2>1. call'[j] = [call[j] EXCEPT !.missed = @ \cup M] /\ call[j] \in Calls
      BY <1>1, <1>3 DEF Serving, RInv, IInv, CallsFit, CallFits
    <2> HIDE DEF M
    <2>2. call'[j].at = call[j].at /\ call'[j].missed = call[j].missed \cup M
      BY <2>1 DEF Calls
    <2> QED BY <2>2 DEF M
  <1>4. OneCommit'
    BY <1>2, <1>3 DEF RInv, OneCommit
  <1>5. ASSUME NEW j \in Serving, j # k, NEW u \in Users, <<"role", u>> \in Missed(j)
        PROVE  FALSE
    <2> DEFINE g == <<"role", u>>
    <2>1. g \in DOMAIN call[j].before /\ value'[g] # value[g] /\ g[1] = "role" /\ g \in Fields
      BY <1>5, Columns DEF Missed
    <2> HIDE DEF g
    <2>2. CallFits(call[j]) /\ call[j].at = "commit"
      BY <2>1 DEF RInv, IInv, CallsFit, CallFits, BeforeFits
    <2>3. g \in DOMAIN call[k].next
      BY <1>1, <2>1
    <2>4. call[k].op = "respond"
      BY <1>1, <2>1, <2>3 DEF CallFits, NextFits
    <2>5. call[k].at = "commit"
      BY <2>4 DEF Write
    <2> QED BY <1>1, <1>5, <2>2, <2>5 DEF RInv, OneCommit
  <1>6. RolesCurrent'
    BY <1>2, <1>3, <1>5 DEF RInv, RolesCurrent
  <1> QED BY <1>4, <1>6

LEMMA RolesStep == OneRequest /\ RInv /\ [Next]_vars => RInv'
  <1> SUFFICES ASSUME OneRequest, RInv, [Next]_vars PROVE OneCommit' /\ RolesCurrent'
    BY NextStep DEF RInv
  <1>1. ASSUME call' = call PROVE OneCommit' /\ RolesCurrent'
    BY <1>1 DEF RInv, OneCommit, RolesCurrent, Serving
  <1>2. ASSUME NEW k \in Slots,
               Begin(k) \/ Guard(k) \/ FindEmail(k) \/ Read(k) \/ Fail(k)
        PROVE  OneCommit' /\ RolesCurrent'
    BY <1>2, QuietKeeps, KeepsKeep DEF RInv
  <1>3. ASSUME NEW k \in Slots, FindPromoted(k) \/ Write(k)
        PROVE  OneCommit' /\ RolesCurrent'
    BY <1>3, PromotedKeeps, WriteKeeps
  <1>4. UNCHANGED vars => call' = call
    BY DEF vars
  <1>5. \A r \in Requests : AskPermission(r) => call' = call
    BY DEF AskPermission
  <1> QED BY <1>1, <1>2, <1>3, <1>4, <1>5 DEF Next

\* However many administrators answer a request at once, and wherever its
\* address goes meanwhile, the trail of every role is exact.
THEOREM RolesRecordedOnce == OneRequest => (Spec => RoleTrailExact)
  <1> SUFFICES ASSUME OneRequest PROVE Spec => RoleTrailExact
    OBVIOUS
  <1>1. Init => RInv
    BY InitHolds DEF Init, RInv, OneCommit, RolesCurrent, Serving
  <1>2. RInv /\ [Next]_vars => \A u \in Users : DiffIsTheChange(<<"role", u>>)
    <2> SUFFICES ASSUME RInv, [Next]_vars, NEW u \in Users
                 PROVE  DiffIsTheChange(<<"role", u>>)
      OBVIOUS
    <2>1. <<"role", u>> \in Fields
      BY Columns
    <2>2. ASSUME NEW k \in Slots, Write(k) PROVE DiffIsTheChange(<<"role", u>>)
      <3>1. k \in Serving
        BY <2>2 DEF Write, Serving
      <3>2. <<"role", u>> \notin call[k].missed
        BY <3>1 DEF RInv, RolesCurrent
      <3> QED BY <2>1, <2>2, <3>2, WriteDiff DEF RInv
    <2> QED BY <2>1, <2>2, OtherDiff DEF RInv
  <1>3. RInv /\ [Next]_vars => RInv'
    BY RolesStep
  <1>4. (\A u \in Users : DiffIsTheChange(<<"role", u>>))
          => [\A u \in Users : DiffIsTheChange(<<"role", u>>)]_vars
    OBVIOUS
  <1> QED BY <1>1, <1>2, <1>3, <1>4, PTL DEF Spec, RoleTrailExact
===============================================================================
