--------------------------- MODULE DashboardsProofs ---------------------------
(***************************************************************************)
(* The figures of both dashboards, for any class, list, weights and other  *)
(* requests.  The argument: no step follows the last read, so an answer is *)
(* what the repositories compute from the rows that are there (Answered);  *)
(* the properties of its figures are facts about that computation.         *)
(***************************************************************************)
EXTENDS Dashboards, FiniteSetTheorems, SequenceTheorems, NaturalsInduction,
  WellFoundedInduction, TLAPS

\* While the call goes on, and until its answer: what was there all along is still
\* there, with its submissions, and what is there has been seen.
Remembered ==
  /\ past.always \subseteq Here /\ Here \subseteq past.ever
  /\ \A t \in Times :
       past.subs[t] # None /\ past.subs[t].to \in past.always /\ past.subs[t].to # None
         => /\ subs[t] # None
            /\ subs[t].student = past.subs[t].student /\ subs[t].to = past.subs[t].to

\* What the call has read was there, and it has read all that stays.
ReadsFit ==
  /\ call.at \in {"members", "submissions", "shown"} =>
       /\ Shows \subseteq past.ever
       /\ call.op = "list" => past.always \cap Entries \subseteq Shows
       /\ call.op = "task" => Len(call.order) = 1
  /\ call.at \in {"submissions", "shown"} =>
       call.students \subseteq past.ever /\ past.always \cap Students \subseteq call.students

\* What the repositories compute from the submissions in the order of q.
Computed(q) ==
  LET found == [p \in DOMAIN q |-> subs[q[p]]] IN
  IF call.op = "list" THEN ListDashboard(call.order, call.students, found)
  ELSE TaskDashboard(call.order[1], call.students, found)

\* The answer is computed from the rows that are there.
Answered ==
  call.at = "shown" =>
    \E q \in Bijection(1..Cardinality(Found), Found) : NewestFirst(q) /\ answer = Computed(q)

IInv == TypeOK /\ Remembered /\ ReadsFit /\ Answered

-------------------------------------------------------------------------------
(* Types. *)

\* An enumeration of a finite set is a sequence that shows each element once.
LEMMA Enumerates ==
  ASSUME NEW S, IsFiniteSet(S), NEW q \in Bijection(1..Cardinality(S), S)
  PROVE  /\ Cardinality(S) \in Nat
         /\ q \in Seq(S) /\ DOMAIN q = 1..Cardinality(S) /\ Len(q) = Cardinality(S)
         /\ \A p \in DOMAIN q : q[p] \in S
         /\ \A p, r \in DOMAIN q : q[p] = q[r] => p = r
         /\ \A s \in S : \E p \in DOMAIN q : q[p] = s
  <1>1. Cardinality(S) \in Nat
    BY FS_CardinalityType
  <1>2. q \in [1..Cardinality(S) -> S] /\ IsInjective(q)
        /\ \A s \in S : \E p \in 1..Cardinality(S) : q[p] = s
    BY DEF Bijection, Injection, Surjection
  <1>3. q \in Seq(S) /\ Len(q) = Cardinality(S)
    BY <1>1, <1>2
  <1> QED BY <1>1, <1>2, <1>3 DEF IsInjective

\* Before the first await nothing has been read and everything is there.
LEMMA InitHolds == Init => IInv
  <1> SUFFICES ASSUME Init PROVE IInv
    OBVIOUS
  <1>1. /\ rows \subseteq Links \cup Entries /\ Links \subseteq rows
        /\ subs \in [Times -> Submission \cup {None}]
        /\ \A t \in Stored : subs[t].to \in rows
        /\ past = [subs |-> subs, always |-> Here, ever |-> Here]
        /\ Here \subseteq Students \cup Links \cup Entries
    BY DEF Init, Stored, Here
  <1>2. /\ call \in Call /\ call.at = "load" /\ call.order = <<>>
        /\ call.order \in Seq(Columns(call.op))
    BY DEF Init, Call, Columns
  <1>3. past \in [subs : [Times -> Submission \cup {None}],
                always : SUBSET past.ever, ever : SUBSET (Students \cup Links \cup Entries)]
    BY <1>1
  <1>4. TypeOK
    BY <1>1, <1>2, <1>3, RowsAssumption DEF Init, TypeOK
  <1>5. Remembered
    BY <1>1 DEF Remembered
  <1>6. ReadsFit /\ Answered
    BY <1>2 DEF ReadsFit, Answered
  <1> QED BY <1>4, <1>5, <1>6 DEF IInv

-------------------------------------------------------------------------------
(* The other requests. *)

\* What another request may do to the rows: keep them fit for their types, and the
\* submissions to a column that stays as they were, but for comments.
Changes ==
  /\ open' \in BOOLEAN /\ members' \subseteq Students /\ rows' \subseteq Links \cup Entries
  /\ subs' \in [Times -> Submission \cup {None}]
  /\ \A e \in rows' \cap Entries : LinkOf[e] \in rows'
  /\ \A t \in Times : subs'[t] # None => subs'[t].to \in rows' \cup {None}
  /\ \A t \in Times : subs[t] # None /\ subs[t].to \in rows' =>
       /\ subs'[t] # None
       /\ subs'[t].student = subs[t].student /\ subs'[t].to = subs[t].to

\* Other requests keep what was there all along and what the call has read.
LEMMA ChangesKeep ==
  ASSUME IInv, Elsewhere, Changes, Remember
  PROVE  IInv'
  <1> USE DEF IInv
  <1>1. /\ call' = call /\ answer' = answer /\ moves' = moves - 1 /\ moves \in 1..MaxMoves
        /\ call.at \in {"columns", "members", "submissions"}
    BY RowsAssumption DEF Elsewhere, TypeOK
  <1>2. past' = [past EXCEPT !.always = @ \cap Here', !.ever = @ \cup Here']
    BY DEF Remember
  <1>3. Here' = members' \cup rows'
    BY DEF Here
  <1>4. /\ past'.subs = past.subs /\ past'.always = past.always \cap Here'
        /\ past'.ever = past.ever \cup Here'
        /\ past' \in [subs : [Times -> Submission \cup {None}], always : SUBSET past'.ever,
                      ever : SUBSET (Students \cup Links \cup Entries)]
    BY <1>2, <1>3 DEF TypeOK, Changes
  <1>5. TypeOK'
    <2>1. \A t \in Stored' : subs'[t].to \in rows' \cup {None}
      BY DEF Changes, Stored
    <2>2. moves' \in 0..MaxMoves
      BY <1>1, RowsAssumption
    <2>3. Columns(call.op)' = Columns(call'.op)
      BY DEF Columns
    <2> QED BY <1>1, <1>4, <2>1, <2>2, <2>3 DEF Changes, TypeOK, Columns
  <1>6. Remembered'
    <2> SUFFICES ASSUME NEW t \in Times, past.subs[t] # None, past.subs[t].to # None,
                        past.subs[t].to \in past.always, past.subs[t].to \in Here'
                 PROVE  /\ subs'[t] # None /\ subs'[t].student = past.subs[t].student
                        /\ subs'[t].to = past.subs[t].to
      BY <1>4 DEF Remembered
    <2>1. past.subs[t] \in Submission
      BY DEF TypeOK
    <2>2. past.subs[t].to \in Links \cup Entries
      BY <2>1 DEF Submission
    <2>3. past.subs[t].to \in rows'
      BY <1>3, <2>2, RowsAssumption DEF Changes
    <2> QED BY <2>3 DEF Changes, Remembered
  <1>7. ReadsFit'
    <2>1. Shows' = Shows
      BY <1>1 DEF Shows
    <2> QED BY <1>1, <1>4, <2>1 DEF ReadsFit
  <1>8. Answered'
    BY <1>1 DEF Answered
  <1> QED BY <1>5, <1>6, <1>7, <1>8

\* A cascade takes the entries of a link with it, and leaves other references alone.
LEMMA DropChanges ==
  ASSUME TypeOK, NEW gone \in SUBSET (Links \cup Entries), Drop(gone),
         \A e \in Entries : LinkOf[e] \in gone => e \in gone,
         open' \in BOOLEAN, members' \subseteq Students
  PROVE  Changes
  <1>1. /\ rows' = rows \ gone
        /\ \A t \in Times : subs'[t] = IF t \in Stored /\ subs[t].to \in gone
                                       THEN [subs[t] EXCEPT !.to = None] ELSE subs[t]
    BY DEF Drop
  <1>2. ASSUME NEW t \in Times PROVE subs'[t] \in Submission \cup {None}
    <2>1. CASE t \in Stored /\ subs[t].to \in gone
      <3>1. subs[t] \in Submission
        BY <2>1 DEF TypeOK, Stored
      <3> QED BY <1>1, <2>1, <3>1 DEF Submission
    <2>2. CASE ~(t \in Stored /\ subs[t].to \in gone)
      BY <1>1, <2>2 DEF TypeOK
    <2> QED BY <2>1, <2>2
  <1>3. subs' \in [Times -> Submission \cup {None}]
    BY <1>2 DEF Drop
  <1>4. \A e \in rows' \cap Entries : LinkOf[e] \in rows'
    BY <1>1 DEF TypeOK
  <1>5. ASSUME NEW t \in Times, subs'[t] # None PROVE subs'[t].to \in rows' \cup {None}
    <2>1. CASE t \in Stored /\ subs[t].to \in gone
      <3>1. subs[t] \in Submission
        BY <2>1 DEF TypeOK, Stored
      <3> QED BY <1>1, <2>1, <3>1 DEF Submission
    <2>2. CASE ~(t \in Stored /\ subs[t].to \in gone)
      BY <1>1, <1>5, <2>2 DEF TypeOK, Stored
    <2> QED BY <2>1, <2>2
  <1>6. ASSUME NEW t \in Times, subs[t] # None, subs[t].to \in rows'
        PROVE  subs'[t] = subs[t]
    BY <1>1, <1>6
  <1>7. rows' \subseteq Links \cup Entries
    BY <1>1 DEF TypeOK
  <1> QED BY <1>3, <1>4, <1>5, <1>6, <1>7 DEF Changes

\* Each of the other requests is such a change.
LEMMA OthersKeep ==
  ASSUME IInv,
         \/ \E u \in Students : Enrol(u) \/ Leave(u)
         \/ \E e \in Entries : AddEntry(e) \/ RemoveEntry(e)
         \/ \E l \in Links : RemoveLink(l)
         \/ DeleteClass
         \/ \E u \in Students, x \in Links \cup Entries, t \in Times, correct \in BOOLEAN :
              Submit(u, x, t, correct)
         \/ \E t \in Times : SendFeedback(t)
  PROVE  IInv'
  <1> USE DEF IInv
  <1>1. ASSUME NEW u \in Students, Enrol(u) \/ Leave(u) PROVE IInv'
    <2>1. Changes
      BY <1>1 DEF Enrol, Leave, Changes, TypeOK, Stored
    <2> QED BY <1>1, <2>1, ChangesKeep DEF Enrol, Leave
  <1>2. ASSUME NEW e \in Entries, AddEntry(e) PROVE IInv'
    <2>1. Changes
      BY <1>2 DEF AddEntry, Changes, TypeOK, Stored
    <2> QED BY <1>2, <2>1, ChangesKeep DEF AddEntry
  <1>3. ASSUME NEW e \in Entries, RemoveEntry(e) PROVE IInv'
    <2>1. \A f \in Entries : LinkOf[f] \in {e} => f \in {e}
      BY RowsAssumption
    <2>2. Changes
      BY <1>3, <2>1, DropChanges DEF RemoveEntry, TypeOK
    <2> QED BY <1>3, <2>2, ChangesKeep DEF RemoveEntry
  <1>4. ASSUME NEW l \in Links, RemoveLink(l) PROVE IInv'
    <2> DEFINE gone == {l} \cup {e \in Entries : LinkOf[e] = l}
    <2>1. gone \in SUBSET (Links \cup Entries)
      OBVIOUS
    <2>2. \A e \in Entries : LinkOf[e] \in gone => e \in gone
      BY RowsAssumption
    <2>3. Drop(gone) /\ open' \in BOOLEAN /\ members' \subseteq Students
      BY <1>4 DEF RemoveLink, TypeOK
    <2>4. Changes
      <3> HIDE DEF gone
      <3> QED BY <2>1, <2>2, <2>3, DropChanges
    <2> QED BY <1>4, <2>4, ChangesKeep DEF RemoveLink
  <1>5. ASSUME DeleteClass PROVE IInv'
    <2>1. Changes
      BY <1>5, RowsAssumption, DropChanges DEF DeleteClass
    <2> QED BY <1>5, <2>1, ChangesKeep DEF DeleteClass
  <1>6. ASSUME NEW u \in Students, NEW x \in Links \cup Entries, NEW t \in Times,
               NEW correct \in BOOLEAN, Submit(u, x, t, correct)
        PROVE  IInv'
    <2> DEFINE new == [student |-> u, to |-> x, isCorrect |-> correct, commented |-> FALSE]
    <2>0. new \in Submission /\ new.to = x
      BY DEF Submission
    <2>1. new \in Submission /\ new # None /\ new.to = x
      <3> HIDE DEF new
      <3> QED BY <2>0, NoneAssumption
    <2>2. subs' = [subs EXCEPT ![t] = new] /\ x \in rows /\ subs[t] = None
      BY <1>6 DEF Submit, Stored
    <2>3. open' = open /\ members' = members /\ rows' = rows
      BY <1>6 DEF Submit
    <2>4. Changes
      <3> HIDE DEF new
      <3> QED BY <2>1, <2>2, <2>3 DEF Changes, TypeOK, Stored
    <2> QED BY <1>6, <2>4, ChangesKeep DEF Submit
  <1>7. ASSUME NEW t \in Times, SendFeedback(t) PROVE IInv'
    <2> DEFINE new == [subs[t] EXCEPT !.commented = TRUE]
    <2>1. subs[t] \in Submission
      BY <1>7 DEF SendFeedback, Stored, TypeOK
    <2>2. /\ new \in Submission /\ new # None
          /\ new.to = subs[t].to /\ new.student = subs[t].student
      BY <2>1, NoneAssumption DEF Submission
    <2>3. /\ open' = open /\ members' = members /\ rows' = rows
          /\ subs' = [subs EXCEPT ![t] = new] /\ t \in Stored
      BY <1>7 DEF SendFeedback
    <2>4. Changes
      <3> HIDE DEF new
      <3> QED BY <2>2, <2>3 DEF Changes, TypeOK, Stored
    <2> QED BY <1>7, <2>4, ChangesKeep DEF SendFeedback
  <1> QED BY <1>1, <1>2, <1>3, <1>4, <1>5, <1>6, <1>7
-------------------------------------------------------------------------------
(* The steps of the call. *)

\* An answer is a record, so it is not <<>>.
LEMMA AnswersShow ==
  /\ \A order, students, found : ListDashboard(order, students, found) # <<>>
  /\ \A link, students, found : TaskDashboard(link, students, found) # <<>>
  <1>1. DOMAIN <<>> = {}
    OBVIOUS
  <1>2. ASSUME NEW order, NEW students, NEW found
        PROVE  "columns" \in DOMAIN ListDashboard(order, students, found)
    BY Zenon DEF ListDashboard
  <1>3. ASSUME NEW link, NEW students, NEW found
        PROVE  "status" \in DOMAIN TaskDashboard(link, students, found)
    BY Zenon DEF TaskDashboard
  <1> QED BY <1>1, <1>2, <1>3

\* A step of the call touches no row and no memory of them.
LEMMA HandlingKeeps ==
  ASSUME IInv, NEW at, Handling(at), call' \in Call, call'.op = call.op,
         call'.order \in Seq(Columns(call.op)),
         call'.at = "shown" <=> answer' # <<>>, ReadsFit', Answered'
  PROVE  IInv'
  <1> USE DEF IInv
  <1>1. /\ open' = open /\ members' = members /\ rows' = rows /\ subs' = subs
        /\ moves' = moves /\ past' = past
    BY DEF Handling
  <1>2. Stored' = Stored /\ Columns(call.op)' = Columns(call.op) /\ Here' = Here
    BY <1>1 DEF Stored, Columns, Here
  <1>3. TypeOK'
    BY <1>1, <1>2 DEF TypeOK, Columns
  <1>4. Remembered'
    BY <1>1, <1>2 DEF Remembered
  <1> QED BY <1>3, <1>4

\* The steps of the call itself.
LEMMA CallKeeps ==
  ASSUME IInv, Load \/ ReadColumns \/ FindLink \/ ReadMembers \/ ReadSubmissions
  PROVE  IInv'
  <1> USE DEF IInv
  <1>0. /\ call \in Call /\ call.order \in Seq(Columns(call.op)) /\ call.op \in {"list", "task"}
        /\ Columns(call.op) \subseteq Links \cup Entries
    BY DEF TypeOK, Columns, Call
  <1>1. ASSUME NEW a \in {"columns", "refused"}, NEW b \in {"load", "columns"},
               Handling(b), Continue(a)
        PROVE  IInv'
    <2>1. call' = [call EXCEPT !.at = a] /\ answer' = answer /\ call.at = b
      BY <1>1 DEF Continue, Handling
    <2>2. /\ call' \in Call /\ call'.op = call.op /\ call'.order = call.order
          /\ call'.at = a
      BY <1>0, <2>1 DEF Call
    <2>3. ReadsFit' /\ Answered'
      BY <2>2 DEF ReadsFit, Answered
    <2>4. call'.at = "shown" <=> answer' # <<>>
      BY <2>1, <2>2 DEF TypeOK
    <2> QED BY <1>0, <1>1, <2>2, <2>3, <2>4, HandlingKeeps
  <1>2. ASSUME NEW order \in Seq(Columns(call.op)), Handling("columns"), UNCHANGED answer,
               call' = [call EXCEPT !.at = "members", !.order = order],
               {order[i] : i \in 1..Len(order)} \subseteq rows,
               call.op = "list" => rows \cap Entries \subseteq {order[i] : i \in 1..Len(order)},
               call.op = "task" => Len(order) = 1
        PROVE  IInv'
    <2>1. order \in Seq(Links \cup Entries)
      BY <1>0, SeqMonotonic
    <2>2. /\ call' \in Call /\ call'.op = call.op /\ call'.order = order
          /\ call'.at = "members"
      BY <1>0, <1>2, <2>1 DEF Call
    <2>3. Shows' = {order[i] : i \in 1..Len(order)}
      BY <2>2 DEF Shows
    <2>4. past' = past /\ past.always \subseteq Here /\ Here \subseteq past.ever
      BY <1>2 DEF Handling, Remembered
    <2>5. past.always \cap Entries \subseteq rows /\ rows \subseteq past.ever
      BY <2>4, RowsAssumption DEF Here, TypeOK
    <2>6. ReadsFit'
      BY <1>2, <2>2, <2>3, <2>4, <2>5 DEF ReadsFit
    <2>7. Answered' /\ (call'.at = "shown" <=> answer' # <<>>)
      BY <1>2, <2>2 DEF Answered, TypeOK, Handling
    <2> QED BY <1>2, <2>2, <2>6, <2>7, HandlingKeeps
  <1>3. CASE Load
    BY <1>1, <1>3 DEF Load
  <1>4. CASE ReadColumns
    <2> DEFINE E == rows \cap Entries
    <2>1. PICK q \in Bijection(1..Cardinality(E), E) :
            call' = [call EXCEPT !.at = "members", !.order = q]
      BY <1>4 DEF ReadColumns
    <2>2. IsFiniteSet(E)
      BY FinitenessAssumption, FS_Subset
    <2>3. /\ q \in Seq(E) /\ DOMAIN q = 1..Len(q)
          /\ \A p \in DOMAIN q : q[p] \in E
          /\ \A e \in E : \E p \in DOMAIN q : q[p] = e
      <3> HIDE DEF E
      <3> QED BY <2>1, <2>2, Enumerates
    <2>4. call.op = "list" /\ Handling("columns") /\ UNCHANGED answer
      BY <1>4 DEF ReadColumns
    <2>5. q \in Seq(Columns(call.op))
      BY <2>3, <2>4, SeqMonotonic DEF Columns
    <2>6. {q[i] : i \in 1..Len(q)} = E
      BY <2>3
    <2> QED BY <1>2, <2>1, <2>4, <2>5, <2>6
  <1>5. CASE FindLink
    <2>1. CASE Continue("refused")
      BY <1>1, <1>5, <2>1 DEF FindLink
    <2>2. ASSUME NEW l \in rows \cap Links, UNCHANGED answer,
                 call' = [call EXCEPT !.at = "members", !.order = <<l>>]
          PROVE  IInv'
      <3>1. call.op = "task" /\ Handling("columns")
        BY <1>5 DEF FindLink
      <3>2. /\ <<l>> \in Seq(Columns(call.op)) /\ Len(<<l>>) = 1
            /\ {<<l>>[i] : i \in 1..Len(<<l>>)} = {l}
        BY <2>2, <3>1 DEF Columns
      <3> QED BY <1>2, <2>2, <3>1, <3>2
    <2> QED BY <1>5, <2>1, <2>2 DEF FindLink
  <1>6. CASE ReadMembers
    <2>1. /\ Handling("members") /\ answer' = answer /\ call.at = "members" /\ past' = past
          /\ call' = [call EXCEPT !.at = "submissions", !.students = members]
      BY <1>6 DEF ReadMembers, Handling
    <2>2. /\ call' \in Call /\ call'.op = call.op /\ call'.order = call.order
          /\ call'.at = "submissions" /\ call'.students = members
      BY <1>0, <2>1 DEF Call, TypeOK
    <2>3. Shows' = Shows
      BY <2>2 DEF Shows
    <2>4. members \subseteq past.ever /\ past.always \cap Students \subseteq members
      BY RowsAssumption DEF Remembered, Here, TypeOK
    <2>5. ReadsFit'
      BY <2>1, <2>2, <2>3, <2>4 DEF ReadsFit
    <2>6. Answered' /\ (call'.at = "shown" <=> answer' # <<>>)
      BY <2>1, <2>2 DEF Answered, TypeOK
    <2> QED BY <1>0, <2>1, <2>2, <2>5, <2>6, HandlingKeeps
  <1>7. CASE ReadSubmissions
    <2>1. /\ Handling("submissions") /\ call.at = "submissions" /\ past' = past /\ subs' = subs
          /\ call' = [call EXCEPT !.at = "shown"]
      BY <1>7 DEF ReadSubmissions, Handling
    <2>2. /\ call' \in Call /\ call'.op = call.op /\ call'.order = call.order
          /\ call'.at = "shown" /\ call'.students = call.students
      BY <1>0, <2>1 DEF Call
    <2>3. Shows' = Shows /\ Found' = Found
      BY <2>1, <2>2 DEF Shows, Found, Stored
    <2>4. ReadsFit'
      BY <2>1, <2>2, <2>3 DEF ReadsFit
    <2>5. PICK q \in Bijection(1..Cardinality(Found), Found) :
            NewestFirst(q) /\ answer' = Computed(q)
      BY <1>7 DEF ReadSubmissions, Computed
    <2>6. Computed(q)' = Computed(q) /\ NewestFirst(q)' = NewestFirst(q)
      BY <2>1, <2>2 DEF Computed, NewestFirst
    <2>7. Answered'
      BY <2>3, <2>5, <2>6 DEF Answered
    <2>8. answer' # <<>>
      BY <2>5, AnswersShow DEF Computed
    <2> QED BY <1>0, <2>1, <2>2, <2>4, <2>7, <2>8, HandlingKeeps
  <1> QED BY <1>3, <1>4, <1>5, <1>6, <1>7

\* Every step keeps the invariant.
LEMMA NextKeeps == IInv /\ [Next]_vars => IInv'
  <1> SUFFICES ASSUME IInv, [Next]_vars PROVE IInv'
    OBVIOUS
  <1>1. CASE Next
    BY <1>1, CallKeeps, OthersKeep DEF Next
  <1>2. CASE UNCHANGED vars
    <2>1. /\ open' = open /\ members' = members /\ rows' = rows /\ subs' = subs
          /\ moves' = moves /\ call' = call /\ answer' = answer /\ past' = past
      BY <1>2 DEF vars
    <2>2. TypeOK' /\ Remembered'
      BY <2>1 DEF IInv, TypeOK, Stored, Columns, Remembered, Here
    <2>3. Shows' = Shows /\ Found' = Found
      BY <2>1 DEF Shows, Found, Stored
    <2>4. ASSUME NEW q PROVE Computed(q)' = Computed(q) /\ NewestFirst(q)' = NewestFirst(q)
      BY <2>1 DEF Computed, NewestFirst
    <2>5. ReadsFit'
      BY <2>1, <2>3 DEF IInv, ReadsFit
    <2>6. Answered'
      BY <2>1, <2>3, <2>4 DEF IInv, Answered
    <2> QED BY <2>2, <2>5, <2>6 DEF IInv
  <1> QED BY <1>1, <1>2

\* The rows, the call and the memory keep their types, and an answer is what the
\* repositories compute from the rows that are there.
THEOREM DashboardsInductive == Spec => []IInv
  BY InitHolds, NextKeeps, PTL DEF Spec

\* Types, and the foreign keys of entries and submissions, whatever is deleted.
THEOREM DashboardsTypeCorrect == Spec => []TypeOK
  <1>1. IInv => TypeOK
    BY DEF IInv
  <1> QED BY <1>1, DashboardsInductive, PTL
-------------------------------------------------------------------------------
(* The cells. *)

\* Min finds the least of some numbers.
LEMMA Least ==
  ASSUME NEW S, S \subseteq Nat, S # {}
  PROVE  Min(S) \in S /\ \A n \in S : Min(S) <= n
  <1>1. IsWellFoundedOn(OpToRel(<, Nat), Nat)
    BY NatLessThanWellFounded
  <1>2. PICK m \in S : \A n \in S : ~(<<n, m>> \in OpToRel(<, Nat))
    BY <1>1, WFMin, Zenon
  <1>3. ASSUME NEW n \in S PROVE m <= n
    <2>1. ~(n < m)
      BY <1>2 DEF OpToRel
    <2> QED BY <2>1
  <1> QED BY <1>2, <1>3 DEF Min

\* The group of a cell holds the places of the submissions to it, and its first
\* place that of the newest.
LEMMA GroupFits ==
  ASSUME TypeOK, NEW q \in Bijection(1..Cardinality(Found), Found), NewestFirst(q),
         NEW x \in Shows, NEW u \in call.students,
         NEW found, found = [p \in DOMAIN q |-> subs[q[p]]]
  PROVE  LET group == Group(found, x, u)
             mine  == SubmittedBy(subs, x, u)
         IN  /\ group = {} <=> mine = {}
             /\ group # {} => /\ q[Min(group)] \in mine
                              /\ found[Min(group)] = subs[q[Min(group)]]
                              /\ \A t \in mine : t <= q[Min(group)]
             /\ IsFiniteSet(mine) /\ Cardinality(group) = Cardinality(mine)
  <1> DEFINE group == Group(found, x, u)
             mine  == SubmittedBy(subs, x, u)
  <1>1. Found \subseteq Times /\ IsFiniteSet(Found)
    <2>1. Found \subseteq Times
      BY DEF Found, Stored
    <2> QED BY <2>1, FinitenessAssumption, FS_Subset
  <1>2. /\ Cardinality(Found) \in Nat /\ DOMAIN q = 1..Cardinality(Found)
        /\ \A p \in DOMAIN q : q[p] \in Found
        /\ \A p, r \in DOMAIN q : q[p] = q[r] => p = r
        /\ \A s \in Found : \E p \in DOMAIN q : q[p] = s
    BY <1>1, Enumerates
  <1>3. group = {p \in DOMAIN q : q[p] \in mine}
    BY <1>1, <1>2 DEF Group, SubmittedBy, Found, Stored
  <1>4. mine \subseteq Found /\ IsFiniteSet(mine)
    <2>1. mine \subseteq Found
      BY DEF SubmittedBy, Found, Stored
    <2> QED BY <1>1, <2>1, FS_Subset
  <1>5. \A t \in mine : \E p \in group : q[p] = t
    BY <1>2, <1>3, <1>4
  <1> HIDE DEF group, mine
  <1>6. group = {} <=> mine = {}
    BY <1>3, <1>5
  <1>7. group \subseteq Nat /\ IsFiniteSet(group)
    <2>1. group \subseteq 1..Cardinality(Found)
      BY <1>2, <1>3
    <2>2. IsFiniteSet(1..Cardinality(Found))
      BY <1>2, FS_Interval
    <2>3. IsFiniteSet(group)
      BY <2>1, <2>2, FS_Subset
    <2>4. group \subseteq Nat
      BY <1>2, <2>1
    <2> QED BY <2>3, <2>4
  <1>8. ASSUME group # {}
        PROVE  /\ q[Min(group)] \in mine /\ found[Min(group)] = subs[q[Min(group)]]
               /\ \A t \in mine : t <= q[Min(group)]
    <2>1. Min(group) \in group /\ \A p \in group : Min(group) <= p
      BY <1>7, <1>8, Least
    <2>2. q[Min(group)] \in mine /\ found[Min(group)] = subs[q[Min(group)]]
      BY <1>3, <2>1
    <2>3. ASSUME NEW t \in mine PROVE t <= q[Min(group)]
      <3>1. PICK p \in group : q[p] = t
        BY <1>5
      <3>2. p \in DOMAIN q /\ Min(group) \in DOMAIN q /\ Min(group) <= p
            /\ p \in Nat /\ Min(group) \in Nat
        BY <1>3, <1>7, <2>1
      <3>3. q[p] \in Nat /\ q[Min(group)] \in Nat
        BY <1>1, <1>2, <3>2, RowsAssumption
      <3>4. CASE Min(group) = p
        BY <3>1, <3>3, <3>4
      <3>5. CASE Min(group) < p
        BY <3>1, <3>2, <3>3, <3>5 DEF NewestFirst
      <3> QED BY <3>2, <3>4, <3>5
    <2> QED BY <2>2, <2>3
  <1>9. Cardinality(group) = Cardinality(mine)
    <2> DEFINE h == [p \in group |-> q[p]]
    <2>1. h \in [group -> mine] /\ \A t \in mine : \E p \in group : h[p] = t
      BY <1>3, <1>5
    <2>2. \A p, r \in group : h[p] = h[r] => p = r
      BY <1>2, <1>3
    <2>3. h \in Bijection(group, mine)
      BY <2>1, <2>2 DEF Bijection, Injection, Surjection, IsInjective
    <2> QED BY <1>7, <2>3, FS_Bijection DEF ExistsBijection
  <1> QED BY <1>4, <1>6, <1>8, <1>9 DEF group, mine

\* What CellsShowLatest asks of a cell.
Verdict(x, u) ==
  LET mine == SubmittedBy(subs, x, u) IN
  IF mine = {} THEN "NOT_SUBMITTED"
  ELSE IF \E t \in mine : subs[t].isCorrect /\ \A o \in mine : o <= t
  THEN "CORRECT" ELSE "INCORRECT"

\* The status the repositories give a group is that verdict.
LEMMA StatusIsVerdict ==
  ASSUME TypeOK, NEW q \in Bijection(1..Cardinality(Found), Found), NewestFirst(q),
         NEW x \in Shows, NEW u \in call.students,
         NEW found, found = [p \in DOMAIN q |-> subs[q[p]]]
  PROVE  Status(found, Group(found, x, u)) = Verdict(x, u)
  <1> DEFINE group == Group(found, x, u)
             mine  == SubmittedBy(subs, x, u)
             t     == q[Min(group)]
  <1>1. /\ group = {} <=> mine = {}
        /\ group # {} => /\ t \in mine /\ found[Min(group)] = subs[t]
                         /\ \A o \in mine : o <= t
    BY GroupFits
  <1>2. mine \subseteq Nat
    BY RowsAssumption DEF SubmittedBy
  <1> HIDE DEF group, mine, t
  <1>3. ASSUME group # {}, NEW o \in mine, \A s \in mine : s <= o PROVE o = t
    <2>1. t \in mine /\ o <= t
      BY <1>1, <1>3
    <2>2. t <= o /\ o \in Nat /\ t \in Nat
      BY <1>2, <1>3, <2>1
    <2> QED BY <2>1, <2>2
  <1>4. Status(found, group) = IF mine = {} THEN "NOT_SUBMITTED"
          ELSE IF \E o \in mine : subs[o].isCorrect /\ \A s \in mine : s <= o
          THEN "CORRECT" ELSE "INCORRECT"
    <2>1. CASE group = {}
      BY <1>1, <2>1 DEF Status
    <2>2. CASE group # {}
      <3>1. subs[t].isCorrect <=> \E o \in mine : subs[o].isCorrect /\ \A s \in mine : s <= o
        BY <1>1, <1>3, <2>2
      <3>2. mine # {} /\ found[Min(group)].isCorrect = subs[t].isCorrect
        BY <1>1, <2>2
      <3> QED BY <2>2, <3>1, <3>2 DEF Status
    <2> QED BY <2>1, <2>2
  <1> QED BY <1>4 DEF Verdict, group, mine

\* Who has tried column x, and who has it right.
Tried(found, x, students) ==
  {u \in students : Status(found, Group(found, x, u)) # "NOT_SUBMITTED"}
Right(found, x, students) ==
  {u \in students : Status(found, Group(found, x, u)) = "CORRECT"}

\* The columns as ListColumns returns them.
LEMMA ColumnsShape ==
  ASSUME NEW S, NEW order \in Seq(S), NEW students, NEW found,
         NEW columns, columns = ListColumns(order, students, found)
  PROVE  /\ DOMAIN columns = 1..Len(order) /\ Len(columns) = Len(order)
         /\ \A i \in 1..Len(order) :
              /\ columns[i].entry = order[i] /\ columns[i].weight = Weight[order[i]]
              /\ columns[i].submittedCount = Cardinality(Tried(found, order[i], students))
              /\ columns[i].correctCount = Cardinality(Right(found, order[i], students))
              /\ columns[i].accuracyRate = Rate(Cardinality(Right(found, order[i], students)),
                                                Cardinality(Tried(found, order[i], students)))
  <1>1. Len(order) \in Nat
    BY LenProperties
  <1>2. /\ DOMAIN columns = 1..Len(order)
        /\ columns = [i \in 1..Len(order) |-> columns[i]]
    BY DEF ListColumns
  <1>3. Len(columns) = Len(order)
    BY <1>1, <1>2
  <1>4. ASSUME NEW i \in 1..Len(order)
        PROVE  /\ columns[i].entry = order[i] /\ columns[i].weight = Weight[order[i]]
               /\ columns[i].submittedCount = Cardinality(Tried(found, order[i], students))
               /\ columns[i].correctCount = Cardinality(Right(found, order[i], students))
               /\ columns[i].accuracyRate = Rate(Cardinality(Right(found, order[i], students)),
                                                 Cardinality(Tried(found, order[i], students)))
    BY Zenon DEF ListColumns, Tried, Right
  <1> QED BY <1>2, <1>3, <1>4

\* The cells of a list are the statuses of the groups.
LEMMA ListCell ==
  ASSUME NEW S, NEW order \in Seq(S), NEW students, NEW found,
         NEW i \in 1..Len(order), NEW u \in students
  PROVE  ListDashboard(order, students, found).row[u].cells[i]
           = Status(found, Group(found, order[i], u))
  <1> DEFINE columns == ListColumns(order, students, found)
  <1>1. Len(columns) = Len(order) /\ columns[i].entry = order[i]
    BY ColumnsShape
  <1>2. ListDashboard(order, students, found).row[u] = ListRow(columns, found, u)
    BY DEF ListDashboard
  <1> HIDE DEF columns
  <1>3. ListRow(columns, found, u).cells[i] = Status(found, Group(found, columns[i].entry, u))
    BY <1>1 DEF ListRow
  <1> QED BY <1>1, <1>2, <1>3

\* Every cell of an answer is the verdict of the newest submission.
LEMMA CellIsVerdict ==
  ASSUME IInv, call.at = "shown", NEW i \in 1..Len(call.order), NEW u \in call.students
  PROVE  Cell(i, u) = Verdict(call.order[i], u)
  <1>1. PICK q \in Bijection(1..Cardinality(Found), Found) :
          NewestFirst(q) /\ answer = Computed(q)
    BY DEF IInv, Answered
  <1> DEFINE found == [p \in DOMAIN q |-> subs[q[p]]]
  <1>2. call.order \in Seq(Columns(call.op)) /\ call.op \in {"list", "task"} /\ TypeOK
    BY DEF IInv, TypeOK, Call
  <1>3. call.order[i] \in Shows
    BY DEF Shows
  <1>4. Status(found, Group(found, call.order[i], u)) = Verdict(call.order[i], u)
    BY <1>1, <1>2, <1>3, StatusIsVerdict
  <1>5. CASE call.op = "list"
    <2>1. answer = ListDashboard(call.order, call.students, found)
      BY <1>1, <1>5 DEF Computed
    <2>2. Cell(i, u) = answer.row[u].cells[i]
      BY <1>5 DEF Cell
    <2> HIDE DEF found
    <2> QED BY <1>2, <1>4, <2>1, <2>2, ListCell
  <1>6. CASE call.op = "task"
    <2>1. answer = TaskDashboard(call.order[1], call.students, found)
      BY <1>1, <1>6 DEF Computed
    <2>2. Len(call.order) = 1
      BY <1>6 DEF IInv, ReadsFit
    <2>3. i = 1
      BY <2>2
    <2> HIDE DEF found
    <2>4. answer.status[u] = Status(found, Group(found, call.order[1], u))
      BY <2>1 DEF TaskDashboard
    <2> QED BY <1>4, <1>6, <2>3, <2>4 DEF Cell
  <1> QED BY <1>2, <1>5, <1>6

\* A cell shows the verdict of the newest submission to it, for any submissions,
\* columns and students.
THEOREM CellsAreLatest == Spec => []CellsShowLatest
  <1>1. IInv => CellsShowLatest
    BY CellIsVerdict DEF CellsShowLatest, Verdict
  <1> QED BY <1>1, DashboardsInductive, PTL

\* The answer stays within what was there during its call, for any other requests.
THEOREM AnswersStayWithinCall == Spec => []ShownWithinCall
  <1>1. ASSUME IInv PROVE ShownWithinCall
    <2> USE <1>1 DEF IInv
    <2> SUFFICES ASSUME call.at = "shown" PROVE ShownWithinCall
      BY DEF ShownWithinCall
    <2>1. /\ call.students \cup Shows \subseteq past.ever
          /\ past.always \cap Students \subseteq call.students
          /\ call.op = "list" => past.always \cap Entries \subseteq Shows
      BY DEF ReadsFit
    <2>2. ASSUME NEW i \in 1..Len(call.order), NEW u \in call.students
          PROVE  Cell(i, u) # "NOT_SUBMITTED" <=> SubmittedBy(subs, call.order[i], u) # {}
      BY <2>2, CellIsVerdict DEF Verdict
    <2>3. ASSUME NEW i \in 1..Len(call.order), NEW u \in call.students,
                 call.order[i] \in past.always,
                 SubmittedBy(past.subs, call.order[i], u) # {}
          PROVE  SubmittedBy(subs, call.order[i], u) # {}
      <3>1. call.order[i] # None
        <4>1. call.order \in Seq(Links \cup Entries)
          BY DEF TypeOK, Call
        <4> QED BY <4>1, ElementOfSeq, NoneAssumption
      <3> QED BY <2>3, <3>1 DEF SubmittedBy, Remembered
    <2> QED BY <2>1, <2>2, <2>3 DEF ShownWithinCall
  <1> QED BY <1>1, DashboardsInductive, PTL
-------------------------------------------------------------------------------
(* The figures of a task. *)

\* The rate of a part is at most one.
LEMMA RateAtMostOne ==
  ASSUME NEW n \in Nat, NEW d \in Nat, n <= d
  PROVE  Rate(n, d)[1] <= Rate(n, d)[2]
  BY DEF Rate

\* The figures of a task agree with its rows, for any submissions and students.
THEOREM TaskFiguresAreRight == Spec => []TaskFiguresAgree
  <1>1. ASSUME IInv, Shown("task") PROVE TaskFiguresAgree
    <2> DEFINE x == call.order[1]
               U == call.students
               mine(u) == SubmittedBy(subs, x, u)
               newest(t, u) == t \in mine(u) /\ \A o \in mine(u) : o <= t
    <2>1. /\ call.op = "task" /\ call.at = "shown" /\ Len(call.order) = 1 /\ TypeOK
          /\ call.order \in Seq(Links \cup Entries) /\ U \subseteq Students
      BY <1>1 DEF Shown, IInv, ReadsFit, TypeOK, Call
    <2>2. x \in Shows
      BY <2>1 DEF Shows
    <2>3. PICK q \in Bijection(1..Cardinality(Found), Found) :
            NewestFirst(q) /\ answer = Computed(q)
      BY <1>1, <2>1 DEF IInv, Answered
    <2> DEFINE found == [p \in DOMAIN q |-> subs[q[p]]]
               group(u) == Group(found, x, u)
               submitted == {u \in U : group(u) # {}}
               correct == Right(found, x, U)
               pending == {u \in U : Pending(found, group(u))}
    <2>4. answer = TaskDashboard(x, U, found)
      BY <2>1, <2>3 DEF Computed
    <2>5. /\ answer.status = [u \in U |-> Status(found, group(u))]
          /\ answer.submissionsCount = [u \in U |-> Cardinality(group(u))]
          /\ answer.studentsWithSubmission = Cardinality(submitted)
          /\ answer.studentsWithoutSubmission = Cardinality(U) - Cardinality(submitted)
          /\ answer.studentsCorrect = Cardinality(correct)
          /\ answer.deliveryRate = Rate(Cardinality(submitted), Cardinality(U))
          /\ answer.accuracyRate = Rate(Cardinality(correct), Cardinality(submitted))
          /\ answer.pendingFeedbackCount = Cardinality(pending)
      BY <2>4, Zenon DEF TaskDashboard, Right
    <2>6. ASSUME NEW u \in U
          PROVE  /\ group(u) = {} <=> mine(u) = {}
                 /\ group(u) # {} => /\ newest(q[Min(group(u))], u)
                                     /\ found[Min(group(u))] = subs[q[Min(group(u))]]
                 /\ Cardinality(group(u)) = Cardinality(mine(u))
      BY <2>1, <2>2, <2>3, GroupFits
    <2>7. ASSUME NEW u \in U
          PROVE  Pending(found, group(u)) <=> \E t \in mine(u) :
                   ~subs[t].commented /\ \A o \in mine(u) : o <= t
      <3> DEFINE m == q[Min(group(u))]
      <3>1. ASSUME NEW t \in mine(u), \A o \in mine(u) : o <= t, group(u) # {} PROVE t = m
        <4>1. newest(m, u)
          BY <2>6, <3>1
        <4>2. mine(u) \subseteq Nat
          BY RowsAssumption DEF SubmittedBy
        <4> HIDE DEF mine, m
        <4>3. t \in Nat /\ m \in Nat /\ t <= m /\ m <= t
          BY <3>1, <4>1, <4>2
        <4> QED BY <4>3
      <3>2. CASE group(u) = {}
        BY <2>6, <3>2 DEF Pending
      <3>3. CASE group(u) # {}
        <4>1. newest(m, u) /\ found[Min(group(u))] = subs[m]
          BY <2>6, <3>3
        <4>2. Pending(found, group(u)) <=> ~subs[m].commented
          BY <3>3, <4>1 DEF Pending
        <4> HIDE DEF m, mine, group, found
        <4> QED BY <3>1, <3>3, <4>1, <4>2
      <3> QED BY <3>2, <3>3
    <2> DEFINE ever == {u \in U : mine(u) # {}}
               waiting == {u \in U : \E t \in mine(u) :
                             ~subs[t].commented /\ \A o \in mine(u) : o <= t}
    <2>8. submitted = ever /\ pending = waiting /\ correct \subseteq submitted
      <3>1. submitted = ever
        BY <2>6
      <3>2. pending = waiting
        BY <2>7
      <3>3. correct \subseteq submitted
        BY DEF Right, Status
      <3> QED BY <3>1, <3>2, <3>3
    <2>9. /\ Cardinality(U) \in Nat /\ Cardinality(submitted) \in Nat /\ Cardinality(correct) \in Nat
          /\ Cardinality(submitted) <= Cardinality(U)
          /\ Cardinality(correct) <= Cardinality(submitted)
      <3>1. IsFiniteSet(U)
        BY <2>1, FinitenessAssumption, FS_Subset
      <3>2. submitted \subseteq U /\ correct \subseteq submitted
        BY <2>8
      <3> HIDE DEF submitted, correct, U
      <3>3. IsFiniteSet(submitted) /\ IsFiniteSet(correct)
        BY <3>1, <3>2, FS_Subset
      <3> QED BY <3>1, <3>2, <3>3, FS_Subset, FS_CardinalityType
    <2>10. Cardinality(Cells("CORRECT")) = Cardinality(correct)
      <3> DEFINE h == [u \in correct |-> <<1, u>>]
      <3>1. \A u \in U : u \in correct <=> <<1, u>> \in Cells("CORRECT")
        BY <2>1, <2>5 DEF Cells, Cell, Right
      <3>2. Cells("CORRECT") \subseteq {1} \X U
        BY <2>1 DEF Cells
      <3>3. correct \subseteq U /\ IsFiniteSet(correct)
        <4>1. correct \subseteq U
          BY DEF Right
        <4> QED BY <2>1, <4>1, FinitenessAssumption, FS_Subset
      <3> HIDE DEF correct, U
      <3>4. h \in [correct -> Cells("CORRECT")]
        BY <3>1, <3>3
      <3>5. \A u, v \in correct : h[u] = h[v] => u = v
        OBVIOUS
      <3>6. ASSUME NEW c \in Cells("CORRECT") PROVE \E u \in correct : h[u] = c
        <4>1. c = <<1, c[2]>> /\ c[2] \in U
          BY <3>2
        <4>2. c[2] \in correct
          BY <3>1, <4>1
        <4> QED BY <4>1, <4>2
      <3>7. h \in Bijection(correct, Cells("CORRECT"))
        BY <3>4, <3>5, <3>6 DEF Bijection, Injection, Surjection, IsInjective
      <3> QED BY <3>3, <3>7, FS_Bijection DEF ExistsBijection
    <2>11. /\ answer.deliveryRate[1] <= answer.deliveryRate[2]
           /\ answer.accuracyRate[1] <= answer.accuracyRate[2]
      BY <2>5, <2>9, RateAtMostOne
    <2>12. answer.studentsWithSubmission + answer.studentsWithoutSubmission = Cardinality(U)
      BY <2>5, <2>9
    <2>13. /\ answer.studentsWithSubmission = Cardinality(ever)
           /\ answer.pendingFeedbackCount = Cardinality(waiting)
           /\ answer.studentsCorrect = Cardinality(Cells("CORRECT"))
      <3> HIDE DEF submitted, ever, pending, waiting, correct
      <3> QED BY <2>5, <2>8, <2>10, Zenon
    <2>14. \A u \in U : answer.submissionsCount[u] = Cardinality(mine(u))
      BY <2>5, <2>6
    <2> QED BY <2>11, <2>12, <2>13, <2>14 DEF TaskFiguresAgree
  <1>2. IInv => TaskFiguresAgree
    BY <1>1 DEF TaskFiguresAgree
  <1> QED BY <1>2, DashboardsInductive, PTL
-------------------------------------------------------------------------------
(* Sums.  Each fact is proved for a smallest subset that contradicts it. *)

\* The element the fold takes out of s.
Pick(s) == CHOOSE x \in s : TRUE

\* g is the table of the sums of f over the subsets of S, as the fold fills it.
Tabulates(g, f, S) ==
  g = [s \in SUBSET S |-> IF s = {} THEN 0 ELSE f[Pick(s)] + g[s \ {Pick(s)}]]

\* SumFunctionOnSet, without its parameters.
LEMMA SumDef ==
  ASSUME NEW f, NEW S
  PROVE  SumFunctionOnSet(f, S) = (CHOOSE g : Tabulates(g, f, S))[S]
  BY DEF SumFunctionOnSet, FoldFunctionOnSet, MapThenFoldSet, Tabulates, Pick

\* Of some subsets of a finite set one has no other of them within it.
LEMMA Smallest ==
  ASSUME NEW S, IsFiniteSet(S), NEW B, B \subseteq SUBSET S, B # {}
  PROVE  \E T \in B : \A U \in B : ~(U \subseteq T /\ U # T)
  <1>1. FiniteSubsetsOf(S) = SUBSET S
    BY FS_Subset DEF FiniteSubsetsOf
  <1>2. IsWellFoundedOn(StrictSubsetOrdering(S), SUBSET S)
    BY <1>1, FS_StrictSubsetOrderingWellFounded
  <1>3. PICK T \in B : \A U \in B : ~(<<U, T>> \in StrictSubsetOrdering(S))
    BY <1>2, WFMin, Zenon
  <1>4. \A U \in B : ~(U \subseteq T /\ U # T)
    BY <1>3 DEF StrictSubsetOrdering
  <1> QED BY <1>4

\* It is one of them.
LEMMA PickIn == ASSUME NEW S, S # {} PROVE Pick(S) \in S
  BY DEF Pick

\* Two tables agree where both are defined.
LEMMA TablesAgree ==
  ASSUME NEW f, NEW S, NEW T, IsFiniteSet(S), NEW g, NEW h,
         Tabulates(g, f, S), Tabulates(h, f, T),
         NEW s \in SUBSET S, s \subseteq T
  PROVE  g[s] = h[s]
  <1> DEFINE Bad == {u \in SUBSET S : u \subseteq T /\ g[u] # h[u]}
  <1> SUFFICES ASSUME s \in Bad PROVE FALSE
    OBVIOUS
  <1>0. Bad \subseteq SUBSET S /\ Bad # {}
    OBVIOUS
  <1> HIDE DEF Bad
  <1>1. PICK u \in Bad : \A v \in Bad : ~(v \subseteq u /\ v # u)
    BY <1>0, Smallest
  <1> USE DEF Bad
  <1>2. u \in SUBSET S /\ u \in SUBSET T
    OBVIOUS
  <1>3. CASE u = {}
    <2>1. g[u] = 0 /\ h[u] = 0
      BY <1>2, <1>3 DEF Tabulates
    <2> QED BY <2>1
  <1>4. CASE u # {}
    <2> DEFINE v == u \ {Pick(u)}
    <2>1. v \subseteq u /\ v # u
      BY <1>4, PickIn
    <2>2. g[v] = h[v]
      BY <1>1, <1>2, <2>1
    <2>3. g[u] = f[Pick(u)] + g[v] /\ h[u] = f[Pick(u)] + h[v]
      BY <1>2, <1>4 DEF Tabulates
    <2> QED BY <2>2, <2>3
  <1> QED BY <1>3, <1>4

\* There is a table for every finite set, so that the fold is what it looks like.
LEMMA TableExists ==
  ASSUME NEW f, NEW S, IsFiniteSet(S)
  PROVE  \E g : Tabulates(g, f, S)
  <1> DEFINE Bad == {T \in SUBSET S : ~\E g : Tabulates(g, f, T)}
  <1> SUFFICES ASSUME Bad # {} PROVE FALSE
    OBVIOUS
  <1>0. Bad \subseteq SUBSET S /\ Bad # {}
    OBVIOUS
  <1> HIDE DEF Bad
  <1>1. PICK T \in Bad : \A U \in Bad : ~(U \subseteq T /\ U # T)
    BY <1>0, Smallest
  <1> USE DEF Bad
  <1> DEFINE Table(U) == CHOOSE g : Tabulates(g, f, U)
             G == [s \in SUBSET T |-> IF s = {} THEN 0
                     ELSE f[Pick(s)] + Table(s \ {Pick(s)})[s \ {Pick(s)}]]
  <1>2. ASSUME NEW U, U \subseteq T, U # T PROVE Tabulates(Table(U), f, U)
    <2>1. U \in SUBSET S /\ U \notin Bad
      BY <1>1, <1>2
    <2>2. \E g : Tabulates(g, f, U)
      BY <2>1
    <2> QED BY <2>2
  <1>3. ASSUME NEW s \in SUBSET T, s # {}
        PROVE  Table(s \ {Pick(s)})[s \ {Pick(s)}] = G[s \ {Pick(s)}]
    <2> DEFINE u == s \ {Pick(s)}
    <2> HIDE DEF Table
    <2>1. u \subseteq T /\ u # T /\ u \in SUBSET T
      BY <1>3, PickIn
    <2>2. Tabulates(Table(u), f, u)
      BY <1>2, <2>1
    <2>3. CASE u = {}
      <3>1. Table(u)[u] = 0
        BY <2>2, <2>3 DEF Tabulates
      <3>2. G[u] = 0
        BY <2>1, <2>3
      <3> QED BY <3>1, <3>2
    <2>4. CASE u # {}
      <3> DEFINE v == u \ {Pick(u)}
      <3>1. Table(u)[u] = f[Pick(u)] + Table(u)[v]
        BY <2>2, <2>4 DEF Tabulates
      <3>2. G[u] = f[Pick(u)] + Table(v)[v]
        BY <2>1, <2>4
      <3>3. v \subseteq T /\ v # T /\ v \subseteq u
        BY <2>1, <2>4, PickIn
      <3>4. Tabulates(Table(v), f, v)
        BY <1>2, <3>3
      <3>5. IsFiniteSet(u)
        BY <1>1, <2>1, FS_Subset
      <3>6. Table(u)[v] = Table(v)[v]
        BY <2>2, <3>3, <3>4, <3>5, TablesAgree
      <3> QED BY <3>1, <3>2, <3>6
    <2> QED BY <2>3, <2>4
  <1>4. Tabulates(G, f, T)
    <2>1. ASSUME NEW s \in SUBSET T
          PROVE  G[s] = IF s = {} THEN 0 ELSE f[Pick(s)] + G[s \ {Pick(s)}]
      <3>1. G[s] = IF s = {} THEN 0 ELSE f[Pick(s)] + Table(s \ {Pick(s)})[s \ {Pick(s)}]
        OBVIOUS
      <3>2. s # {} => Table(s \ {Pick(s)})[s \ {Pick(s)}] = G[s \ {Pick(s)}]
        BY <1>3
      <3> HIDE DEF G, Table
      <3> QED BY <3>1, <3>2
    <2>2. G = [s \in SUBSET T |-> G[s]]
      OBVIOUS
    <2> HIDE DEF G
    <2> QED BY <2>1, <2>2 DEF Tabulates
  <1> QED BY <1>1, <1>4

\* The sum of nothing.
LEMMA SumEmpty == ASSUME NEW f PROVE SumFunctionOnSet(f, {}) = 0
  <1> DEFINE g == CHOOSE h : Tabulates(h, f, {})
  <1>1. Tabulates(g, f, {})
    BY TableExists, FS_EmptySet
  <1>2. g[{}] = 0
    BY <1>1 DEF Tabulates
  <1> QED BY <1>2, SumDef

\* The sum takes out the element it picks.
LEMMA SumPick ==
  ASSUME NEW f, NEW S, IsFiniteSet(S), S # {}
  PROVE  SumFunctionOnSet(f, S) = f[Pick(S)] + SumFunctionOnSet(f, S \ {Pick(S)})
  <1> DEFINE T == S \ {Pick(S)}
             g == CHOOSE x : Tabulates(x, f, S)
             h == CHOOSE x : Tabulates(x, f, T)
  <1>1. Tabulates(g, f, S)
    BY TableExists
  <1>2. IsFiniteSet(T)
    BY FS_Subset
  <1>3. Tabulates(h, f, T)
    BY <1>2, TableExists
  <1> HIDE DEF g, h
  <1>4. g[S] = f[Pick(S)] + g[T]
    BY <1>1 DEF Tabulates
  <1>5. g[T] = h[T]
    BY <1>1, <1>2, <1>3, TablesAgree
  <1>6. SumFunctionOnSet(f, S) = g[S] /\ SumFunctionOnSet(f, T) = h[T]
    BY SumDef DEF g, h
  <1> QED BY <1>4, <1>5, <1>6

\* A sum of integers is one.
LEMMA SumInt ==
  ASSUME NEW f, NEW S, IsFiniteSet(S), \A x \in S : f[x] \in Int
  PROVE  SumFunctionOnSet(f, S) \in Int
  <1> DEFINE Bad == {T \in SUBSET S : SumFunctionOnSet(f, T) \notin Int}
  <1> SUFFICES ASSUME Bad # {} PROVE FALSE
    OBVIOUS
  <1>0. Bad \subseteq SUBSET S /\ Bad # {}
    OBVIOUS
  <1> HIDE DEF Bad
  <1>1. PICK T \in Bad : \A U \in Bad : ~(U \subseteq T /\ U # T)
    BY <1>0, Smallest
  <1> USE DEF Bad
  <1>2. T # {}
    BY SumEmpty
  <1>3. Pick(T) \in T /\ IsFiniteSet(T)
    BY <1>2, PickIn, FS_Subset
  <1>4. SumFunctionOnSet(f, T \ {Pick(T)}) \in Int
    BY <1>1, <1>3
  <1> QED BY <1>2, <1>3, <1>4, SumPick

\* It may take out any other first.
LEMMA SumRemove ==
  ASSUME NEW f, NEW S, IsFiniteSet(S), \A x \in S : f[x] \in Int, NEW a \in S
  PROVE  SumFunctionOnSet(f, S) = f[a] + SumFunctionOnSet(f, S \ {a})
  <1> DEFINE Bad == {T \in SUBSET S : \E x \in T :
                       SumFunctionOnSet(f, T) # f[x] + SumFunctionOnSet(f, T \ {x})}
  <1> SUFFICES ASSUME Bad # {} PROVE FALSE
    OBVIOUS
  <1>0. Bad \subseteq SUBSET S /\ Bad # {}
    OBVIOUS
  <1> HIDE DEF Bad
  <1>1. PICK T \in Bad : \A U \in Bad : ~(U \subseteq T /\ U # T)
    BY <1>0, Smallest
  <1> USE DEF Bad
  <1>2. PICK x \in T : SumFunctionOnSet(f, T) # f[x] + SumFunctionOnSet(f, T \ {x})
    OBVIOUS
  <1> DEFINE p == Pick(T)
             A == T \ {p}
             B == T \ {x}
             C == T \ {x, p}
  <1>3. p \in T
    BY <1>2, PickIn
  <1>4. IsFiniteSet(T) /\ IsFiniteSet(A) /\ IsFiniteSet(B) /\ IsFiniteSet(C)
    BY FS_Subset
  <1>5. SumFunctionOnSet(f, T) = f[p] + SumFunctionOnSet(f, A)
    BY <1>2, <1>4, SumPick
  <1>6. p # x
    BY <1>2, <1>5
  <1>7. A \notin Bad /\ B \notin Bad /\ A \subseteq S /\ B \subseteq S
    BY <1>1, <1>2, <1>3
  <1>8. x \in A /\ p \in B /\ A \ {x} = C /\ B \ {p} = C
    BY <1>2, <1>3, <1>6
  <1>9. SumFunctionOnSet(f, A) = f[x] + SumFunctionOnSet(f, C)
    BY <1>7, <1>8
  <1>10. SumFunctionOnSet(f, B) = f[p] + SumFunctionOnSet(f, C)
    BY <1>7, <1>8
  <1>11. SumFunctionOnSet(f, C) \in Int /\ f[x] \in Int /\ f[p] \in Int
    BY <1>2, <1>3, <1>4, SumInt
  <1> QED BY <1>2, <1>5, <1>9, <1>10, <1>11

\* The sum depends on the terms alone.
LEMMA SumAgrees ==
  ASSUME NEW f, NEW g, NEW S, IsFiniteSet(S), \A x \in S : f[x] \in Int /\ f[x] = g[x]
  PROVE  SumFunctionOnSet(f, S) = SumFunctionOnSet(g, S)
  <1> DEFINE Bad == {T \in SUBSET S : SumFunctionOnSet(f, T) # SumFunctionOnSet(g, T)}
  <1> SUFFICES ASSUME Bad # {} PROVE FALSE
    OBVIOUS
  <1>0. Bad \subseteq SUBSET S /\ Bad # {}
    OBVIOUS
  <1> HIDE DEF Bad
  <1>1. PICK T \in Bad : \A U \in Bad : ~(U \subseteq T /\ U # T)
    BY <1>0, Smallest
  <1> USE DEF Bad
  <1>2. T # {}
    BY SumEmpty
  <1>3. Pick(T) \in T /\ IsFiniteSet(T)
    BY <1>2, PickIn, FS_Subset
  <1>4. SumFunctionOnSet(f, T \ {Pick(T)}) = SumFunctionOnSet(g, T \ {Pick(T)})
    BY <1>1, <1>3
  <1>5. SumFunctionOnSet(f, T) = SumFunctionOnSet(g, T)
    BY <1>2, <1>3, <1>4, SumPick
  <1> QED BY <1>5

\* A sum of terms of at least c.
LEMMA SumAtLeast ==
  ASSUME NEW f, NEW S, IsFiniteSet(S), NEW c \in Int,
         \A x \in S : f[x] \in Int /\ c <= f[x]
  PROVE  c * Cardinality(S) <= SumFunctionOnSet(f, S)
  <1> DEFINE Bad == {T \in SUBSET S : ~(c * Cardinality(T) <= SumFunctionOnSet(f, T))}
  <1> SUFFICES ASSUME Bad # {} PROVE FALSE
    OBVIOUS
  <1>0. Bad \subseteq SUBSET S /\ Bad # {}
    OBVIOUS
  <1> HIDE DEF Bad
  <1>1. PICK T \in Bad : \A U \in Bad : ~(U \subseteq T /\ U # T)
    BY <1>0, Smallest
  <1> USE DEF Bad
  <1>2. T # {}
    <2> SUFFICES ASSUME T = {} PROVE FALSE
      OBVIOUS
    <2>1. SumFunctionOnSet(f, T) = 0 /\ Cardinality(T) = 0
      BY SumEmpty, FS_EmptySet, Zenon
    <2>2. c * 0 = 0
      OBVIOUS
    <2> QED BY <2>1, <2>2
  <1> DEFINE U == T \ {Pick(T)}
  <1>3. Pick(T) \in T /\ IsFiniteSet(T) /\ IsFiniteSet(U)
    BY <1>2, PickIn, FS_Subset
  <1>4. /\ Cardinality(U) = Cardinality(T) - 1
        /\ Cardinality(U) \in Nat /\ Cardinality(T) \in Nat
    BY <1>3, FS_RemoveElement, FS_CardinalityType
  <1>5. c * Cardinality(U) <= SumFunctionOnSet(f, U)
    BY <1>1, <1>3
  <1>6. SumFunctionOnSet(f, T) = f[Pick(T)] + SumFunctionOnSet(f, U)
    BY <1>2, <1>3, SumPick
  <1>7. SumFunctionOnSet(f, U) \in Int /\ f[Pick(T)] \in Int /\ c <= f[Pick(T)]
    BY <1>3, SumInt
  <1>8. c * Cardinality(T) = c * Cardinality(U) + c /\ c * Cardinality(U) \in Int
    <2> HIDE DEF U
    <2> QED BY <1>4
  <1>9. c * Cardinality(T) <= SumFunctionOnSet(f, T)
    <2> HIDE DEF U
    <2> QED BY <1>5, <1>6, <1>7, <1>8
  <1> QED BY <1>9

\* The same from above.
LEMMA SumAtMost ==
  ASSUME NEW f, NEW S, IsFiniteSet(S), NEW c \in Int,
         \A x \in S : f[x] \in Int /\ f[x] <= c
  PROVE  SumFunctionOnSet(f, S) <= c * Cardinality(S)
  <1> DEFINE Bad == {T \in SUBSET S : ~(SumFunctionOnSet(f, T) <= c * Cardinality(T))}
  <1> SUFFICES ASSUME Bad # {} PROVE FALSE
    OBVIOUS
  <1>0. Bad \subseteq SUBSET S /\ Bad # {}
    OBVIOUS
  <1> HIDE DEF Bad
  <1>1. PICK T \in Bad : \A U \in Bad : ~(U \subseteq T /\ U # T)
    BY <1>0, Smallest
  <1> USE DEF Bad
  <1>2. T # {}
    <2> SUFFICES ASSUME T = {} PROVE FALSE
      OBVIOUS
    <2>1. SumFunctionOnSet(f, T) = 0 /\ Cardinality(T) = 0
      BY SumEmpty, FS_EmptySet, Zenon
    <2>2. c * 0 = 0
      OBVIOUS
    <2> QED BY <2>1, <2>2
  <1> DEFINE U == T \ {Pick(T)}
  <1>3. Pick(T) \in T /\ IsFiniteSet(T) /\ IsFiniteSet(U)
    BY <1>2, PickIn, FS_Subset
  <1>4. /\ Cardinality(U) = Cardinality(T) - 1
        /\ Cardinality(U) \in Nat /\ Cardinality(T) \in Nat
    BY <1>3, FS_RemoveElement, FS_CardinalityType
  <1>5. SumFunctionOnSet(f, U) <= c * Cardinality(U)
    BY <1>1, <1>3
  <1>6. SumFunctionOnSet(f, T) = f[Pick(T)] + SumFunctionOnSet(f, U)
    BY <1>2, <1>3, SumPick
  <1>7. SumFunctionOnSet(f, U) \in Int /\ f[Pick(T)] \in Int /\ f[Pick(T)] <= c
    BY <1>3, SumInt
  <1>8. c * Cardinality(T) = c * Cardinality(U) + c /\ c * Cardinality(U) \in Int
    <2> HIDE DEF U
    <2> QED BY <1>4
  <1>9. SumFunctionOnSet(f, T) <= c * Cardinality(T)
    <2> HIDE DEF U
    <2> QED BY <1>5, <1>6, <1>7, <1>8
  <1> QED BY <1>9

\* The sum over a part and the sum over the rest.
LEMMA SumSplits ==
  ASSUME NEW f, NEW S, IsFiniteSet(S), \A x \in S : f[x] \in Int, NEW A \in SUBSET S
  PROVE  SumFunctionOnSet(f, S) = SumFunctionOnSet(f, A) + SumFunctionOnSet(f, S \ A)
  <1> DEFINE Bad == {T \in SUBSET S : SumFunctionOnSet(f, T) #
                       SumFunctionOnSet(f, T \cap A) + SumFunctionOnSet(f, T \ A)}
  <1> SUFFICES ASSUME Bad # {} PROVE FALSE
    <2>1. S \cap A = A
      OBVIOUS
    <2> QED BY <2>1
  <1>0. Bad \subseteq SUBSET S /\ Bad # {}
    OBVIOUS
  <1> HIDE DEF Bad
  <1>1. PICK T \in Bad : \A U \in Bad : ~(U \subseteq T /\ U # T)
    BY <1>0, Smallest
  <1> USE DEF Bad
  <1>2. T # {}
    <2>1. {} \cap A = {} /\ {} \ A = {} /\ SumFunctionOnSet(f, {}) = 0
      BY SumEmpty
    <2> QED BY <2>1
  <1> DEFINE p == Pick(T)
             U == T \ {p}
  <1>3. p \in T /\ p \in S
    BY <1>2, PickIn
  <1>4. /\ IsFiniteSet(T) /\ IsFiniteSet(U) /\ IsFiniteSet(T \cap A) /\ IsFiniteSet(T \ A)
        /\ IsFiniteSet(U \cap A) /\ IsFiniteSet(U \ A)
    BY FS_Subset
  <1>5. SumFunctionOnSet(f, U) = SumFunctionOnSet(f, U \cap A) + SumFunctionOnSet(f, U \ A)
    BY <1>1, <1>3
  <1>6. SumFunctionOnSet(f, T) = f[p] + SumFunctionOnSet(f, U)
    BY <1>3, <1>4, SumRemove
  <1>7. /\ SumFunctionOnSet(f, U \cap A) \in Int /\ SumFunctionOnSet(f, U \ A) \in Int
        /\ f[p] \in Int
    BY <1>3, <1>4, SumInt
  <1>8. CASE p \in A
    <2>1. T \ A = U \ A /\ (T \cap A) \ {p} = U \cap A /\ p \in T \cap A
      BY <1>3, <1>8
    <2>2. SumFunctionOnSet(f, T \cap A) = f[p] + SumFunctionOnSet(f, (T \cap A) \ {p})
      BY <1>4, <2>1, SumRemove
    <2>4. /\ SumFunctionOnSet(f, (T \cap A) \ {p}) = SumFunctionOnSet(f, U \cap A)
          /\ SumFunctionOnSet(f, T \ A) = SumFunctionOnSet(f, U \ A)
      BY <2>1, Zenon
    <2>3. SumFunctionOnSet(f, T) = SumFunctionOnSet(f, T \cap A) + SumFunctionOnSet(f, T \ A)
      <3> HIDE DEF U, p, Bad
      <3> QED BY <1>5, <1>6, <1>7, <2>2, <2>4
    <2> QED BY <2>3
  <1>9. CASE p \notin A
    <2>1. T \cap A = U \cap A /\ (T \ A) \ {p} = U \ A /\ p \in T \ A
      BY <1>3, <1>9
    <2>2. SumFunctionOnSet(f, T \ A) = f[p] + SumFunctionOnSet(f, (T \ A) \ {p})
      BY <1>4, <2>1, SumRemove
    <2>4. /\ SumFunctionOnSet(f, (T \ A) \ {p}) = SumFunctionOnSet(f, U \ A)
          /\ SumFunctionOnSet(f, T \cap A) = SumFunctionOnSet(f, U \cap A)
      BY <2>1, Zenon
    <2>3. SumFunctionOnSet(f, T) = SumFunctionOnSet(f, T \cap A) + SumFunctionOnSet(f, T \ A)
      <3> HIDE DEF U, p, Bad
      <3> QED BY <1>5, <1>6, <1>7, <2>2, <2>4
    <2> QED BY <2>3
  <1> QED BY <1>8, <1>9

\* The elements of a relation, counted row by row.
LEMMA CountedByRows ==
  ASSUME NEW I, IsFiniteSet(I), NEW U, IsFiniteSet(U), NEW R \in SUBSET (I \X U),
         NEW row, \A i \in I, u \in U : u \in row[i] <=> <<i, u>> \in R,
         NEW f, \A i \in I : row[i] \subseteq U /\ f[i] = Cardinality(row[i])
  PROVE  SumFunctionOnSet(f, I) = Cardinality(R)
  <1> DEFINE Part(J) == {c \in R : c[1] \in J}
             Bad == {J \in SUBSET I : SumFunctionOnSet(f, J) # Cardinality(Part(J))}
  <1> SUFFICES ASSUME Bad # {} PROVE FALSE
    <2>1. Part(I) = R
      OBVIOUS
    <2> QED BY <2>1
  <1>0. Bad \subseteq SUBSET I /\ Bad # {}
    OBVIOUS
  <1> HIDE DEF Bad
  <1>1. PICK T \in Bad : \A V \in Bad : ~(V \subseteq T /\ V # T)
    BY <1>0, Smallest
  <1> USE DEF Bad
  <1>2. T # {}
    <2>1. Part({}) = {}
      OBVIOUS
    <2>2. SumFunctionOnSet(f, {}) = 0 /\ Cardinality({}) = 0
      BY SumEmpty, FS_EmptySet
    <2> QED BY <2>1, <2>2
  <1> DEFINE p == Pick(T)
             V == T \ {p}
             mine == {u \in U : <<p, u>> \in R}
  <1>3. p \in T /\ p \in I
    BY <1>2, PickIn
  <1>4. IsFiniteSet(T) /\ IsFiniteSet(mine)
    BY FS_Subset
  <1>5. IsFiniteSet(R)
    BY FS_Product, FS_Subset
  <1>6. IsFiniteSet(Part(V)) /\ IsFiniteSet(Part({p}))
    BY <1>5, FS_Subset
  <1>7. Cardinality(Part({p})) = Cardinality(mine)
    <2> DEFINE h == [u \in mine |-> <<p, u>>]
    <2>1. h \in Bijection(mine, Part({p}))
      <3>1. h \in [mine -> Part({p})]
        OBVIOUS
      <3>2. \A a, b \in mine : h[a] = h[b] => a = b
        OBVIOUS
      <3>3. \A c \in Part({p}) : \E u \in mine : h[u] = c
        <4> SUFFICES ASSUME NEW c \in Part({p}) PROVE \E u \in mine : h[u] = c
          OBVIOUS
        <4>1. c = <<p, c[2]>> /\ c[2] \in mine
          OBVIOUS
        <4> QED BY <4>1
      <3> QED BY <3>1, <3>2, <3>3 DEF Bijection, Injection, Surjection, IsInjective
    <2> QED BY <1>4, <2>1, FS_Bijection DEF ExistsBijection
  <1>8. Cardinality(Part(T)) = Cardinality(Part(V)) + Cardinality(Part({p}))
    <2>1. Part(T) = Part(V) \cup Part({p}) /\ Part(V) \cap Part({p}) = {}
      BY <1>3
    <2>2. /\ Cardinality(Part(V)) \in Nat /\ Cardinality(Part({p})) \in Nat
          /\ Cardinality({}) = 0
      BY <1>6, FS_CardinalityType, FS_EmptySet
    <2>3. Cardinality(Part(V) \cup Part({p})) = Cardinality(Part(V))
            + Cardinality(Part({p})) - Cardinality(Part(V) \cap Part({p}))
      <3> HIDE DEF Part
      <3> QED BY <1>6, FS_Union
    <2>4. /\ Cardinality(Part(T)) = Cardinality(Part(V) \cup Part({p}))
          /\ Cardinality(Part(V) \cap Part({p})) = 0
      <3> HIDE DEF Part, V
      <3> QED BY <2>1, <2>2, Zenon
    <2> HIDE DEF Part, V
    <2> QED BY <2>2, <2>3, <2>4
  <1>9. SumFunctionOnSet(f, V) = Cardinality(Part(V))
    BY <1>1, <1>3
  <1>10. SumFunctionOnSet(f, T) = f[p] + SumFunctionOnSet(f, V)
    BY <1>2, <1>4, SumPick
  <1>11. f[p] = Cardinality(mine) /\ Cardinality(mine) \in Nat /\ Cardinality(Part(V)) \in Nat
    <2>1. row[p] = mine /\ f[p] = Cardinality(row[p])
      BY <1>3
    <2> HIDE DEF mine
    <2>2. f[p] = Cardinality(mine)
      BY <2>1, Zenon
    <2> QED BY <1>4, <1>6, <2>2, FS_CardinalityType
  <1>12. SumFunctionOnSet(f, T) = Cardinality(Part(T))
    <2> HIDE DEF Part, V, p, mine, Bad
    <2> QED BY <1>7, <1>8, <1>9, <1>10, <1>11
  <1> QED BY <1>12
-------------------------------------------------------------------------------
(* The figures of a list, in terms of its cells. *)

Places == 1..Len(call.order)
Weights == [i \in Places |-> Weight[call.order[i]]]

\* Who has tried the i-th task, who has it right, and what u has right.
TriedBy(i) == {u \in call.students : Cell(i, u) # "NOT_SUBMITTED"}
RightBy(i) == {u \in call.students : Cell(i, u) = "CORRECT"}
RightOf(u) == {i \in Places : Cell(i, u) = "CORRECT"}

\* A score, for the weight of what is right and of all.
Share(right, total) == Rounded(10000 * right, total)

\* The scores of the rows, the rows with every task, and those with no submission.
Scores == [u \in call.students |-> answer.row[u].score]
Full == {u \in call.students : /\ Len(call.order) > 0
                               /\ answer.row[u].submittedTasks = Len(call.order)}
Blank == {u \in call.students : answer.row[u].submissionsCount = 0}

\* What the call has read, and the verdicts of the cells.
LEMMA ListRead ==
  ASSUME IInv, Shown("list")
  PROVE  /\ call.order \in Seq(Entries) /\ Len(call.order) \in Nat
         /\ \A i \in Places : call.order[i] \in Entries
         /\ IsFiniteSet(call.students) /\ IsFiniteSet(Places)
         /\ \A i \in Places, u \in call.students :
              Cell(i, u) \in {"NOT_SUBMITTED", "CORRECT", "INCORRECT"}
  <1>1. call.at = "shown" /\ call.order \in Seq(Entries) /\ call.students \subseteq Students
    BY DEF Shown, IInv, TypeOK, Call, Columns
  <1>2. Len(call.order) \in Nat /\ \A i \in Places : call.order[i] \in Entries
    BY <1>1 DEF Places
  <1>3. IsFiniteSet(call.students) /\ IsFiniteSet(Places)
    <2>1. IsFiniteSet(call.students)
      BY <1>1, FinitenessAssumption, FS_Subset
    <2>2. IsFiniteSet(1..Len(call.order))
      BY <1>2, FS_Interval
    <2> QED BY <2>1, <2>2 DEF Places
  <1> QED BY <1>1, <1>2, <1>3, CellIsVerdict DEF Places, Verdict

\* The rows the answer was computed from.
LEMMA ListAnswer ==
  ASSUME IInv, Shown("list")
  PROVE  \E found :
           /\ answer = ListDashboard(call.order, call.students, found)
           /\ \A i \in Places, u \in call.students :
                LET group == Group(found, call.order[i], u) IN
                /\ Cell(i, u) = Status(found, group)
                /\ IsFiniteSet(group)
  <1>1. call.at = "shown" /\ call.op = "list" /\ TypeOK /\ call.order \in Seq(Entries)
    BY ListRead DEF Shown, IInv
  <1>2. PICK q \in Bijection(1..Cardinality(Found), Found) :
          NewestFirst(q) /\ answer = Computed(q)
    BY <1>1 DEF IInv, Answered
  <1> DEFINE found == [p \in DOMAIN q |-> subs[q[p]]]
  <1>3. answer = ListDashboard(call.order, call.students, found)
    BY <1>1, <1>2 DEF Computed
  <1>4. IsFiniteSet(DOMAIN found)
    <2>1. Found \subseteq Times
      BY DEF Found, Stored
    <2>2. IsFiniteSet(Found)
      BY <2>1, FinitenessAssumption, FS_Subset
    <2>3. Cardinality(Found) \in Nat /\ DOMAIN q = 1..Cardinality(Found)
      BY <1>2, <2>2, Enumerates
    <2> QED BY <2>3, FS_Interval
  <1>5. ASSUME NEW i \in Places, NEW u \in call.students
        PROVE  /\ Cell(i, u) = Status(found, Group(found, call.order[i], u))
               /\ IsFiniteSet(Group(found, call.order[i], u))
    <2> HIDE DEF found
    <2>1. ListDashboard(call.order, call.students, found).row[u].cells[i]
            = Status(found, Group(found, call.order[i], u))
      BY <1>1, <1>5, ListCell DEF Places
    <2>2. IsFiniteSet(Group(found, call.order[i], u))
      BY <1>4, FS_Subset DEF Group
    <2> QED BY <1>1, <1>3, <2>1, <2>2 DEF Cell
  <1> HIDE DEF found
  <1> QED BY <1>3, <1>5

\* A column counts the cells below it.
LEMMA ColumnFigures ==
  ASSUME IInv, Shown("list")
  PROVE  /\ DOMAIN answer.columns = Places /\ Len(answer.columns) = Len(call.order)
         /\ \A i \in Places :
              LET column == answer.columns[i] IN
              /\ column.submittedCount = Cardinality(TriedBy(i))
              /\ column.correctCount = Cardinality(RightBy(i))
              /\ column.accuracyRate = Rate(Cardinality(RightBy(i)), Cardinality(TriedBy(i)))
  <1>1. PICK found :
           /\ answer = ListDashboard(call.order, call.students, found)
           /\ \A i \in Places, u \in call.students :
                Cell(i, u) = Status(found, Group(found, call.order[i], u))
    BY ListAnswer
  <1> DEFINE columns == ListColumns(call.order, call.students, found)
  <1>0. columns = ListColumns(call.order, call.students, found)
    OBVIOUS
  <1> HIDE DEF columns
  <1>2. answer.columns = columns
    BY <1>0, <1>1, Zenon DEF ListDashboard
  <1>3. call.order \in Seq(Entries)
    BY ListRead
  <1>4. ASSUME NEW i \in Places
        PROVE  /\ Tried(found, call.order[i], call.students) = TriedBy(i)
               /\ Right(found, call.order[i], call.students) = RightBy(i)
    BY <1>1, <1>4 DEF Tried, Right, TriedBy, RightBy
  <1>5. /\ DOMAIN columns = Places /\ Len(columns) = Len(call.order)
        /\ \A i \in Places :
             LET tried == Tried(found, call.order[i], call.students)
                 right == Right(found, call.order[i], call.students)
             IN  /\ columns[i].submittedCount = Cardinality(tried)
                 /\ columns[i].correctCount = Cardinality(right)
                 /\ columns[i].accuracyRate = Rate(Cardinality(right), Cardinality(tried))
    BY <1>0, <1>3, ColumnsShape DEF Places
  <1> QED BY <1>2, <1>4, <1>5, Zenon

\* A row weighs its cells that are right, and counts those that were tried.
LEMMA RowFigures ==
  ASSUME IInv, Shown("list"), NEW u \in call.students
  PROVE  /\ SumFunctionOnSet(Weights, Places) = 0 => answer.row[u].score = 0
         /\ SumFunctionOnSet(Weights, Places) # 0 =>
              answer.row[u].score = Share(SumFunctionOnSet(Weights, RightOf(u)),
                                          SumFunctionOnSet(Weights, Places))
         /\ answer.row[u].submittedTasks =
              Cardinality({i \in Places : Cell(i, u) # "NOT_SUBMITTED"})
  <1>1. PICK found :
           /\ answer = ListDashboard(call.order, call.students, found)
           /\ \A i \in Places, v \in call.students :
                LET group == Group(found, call.order[i], v) IN
                Cell(i, v) = Status(found, group) /\ IsFiniteSet(group)
    BY ListAnswer
  <1> DEFINE columns == ListColumns(call.order, call.students, found)
             row == answer.row[u]
             tried == {i \in Places : Cell(i, u) # "NOT_SUBMITTED"}
  <1>0. columns = ListColumns(call.order, call.students, found)
    OBVIOUS
  <1> HIDE DEF columns
  <1>2. answer.row = [v \in call.students |-> ListRow(columns, found, v)]
    BY <1>0, <1>1, Zenon DEF ListDashboard
  <1>3. row = ListRow(columns, found, u)
    BY <1>2
  <1>4. call.order \in Seq(Entries) /\ IsFiniteSet(Places)
    BY ListRead
  <1>5. /\ Len(columns) = Len(call.order)
        /\ \A i \in Places : /\ columns[i].entry = call.order[i]
                             /\ columns[i].weight = Weight[call.order[i]]
    BY <1>0, <1>4, ColumnsShape DEF Places
  <1>6. \A i \in Places : Cell(i, u) = row.cells[i]
    BY DEF Cell, Shown
  <1>7. /\ Places = 1..Len(columns)
        /\ Weights = [i \in Places |-> columns[i].weight]
        /\ RightOf(u) = {i \in Places : row.cells[i] = "CORRECT"}
        /\ tried = {i \in Places : row.cells[i] # "NOT_SUBMITTED"}
    BY <1>5, <1>6 DEF Places, Weights, RightOf
  <1> HIDE DEF row
  <1> DEFINE cells == [i \in 1..Len(columns) |->
                         Status(found, Group(found, columns[i].entry, u))]
             weight == [i \in 1..Len(columns) |-> columns[i].weight]
             good == {i \in 1..Len(columns) : cells[i] = "CORRECT"}
  <1>8. /\ SumFunctionOnSet(Weights, Places) = 0 => row.score = 0
        /\ SumFunctionOnSet(Weights, Places) # 0 =>
             row.score = Share(SumFunctionOnSet(Weights, RightOf(u)),
                               SumFunctionOnSet(Weights, Places))
    <2> DEFINE total == SumFunction(weight)
               score == IF total = 0 THEN 0
                        ELSE Share(SumFunctionOnSet(weight, good), total)
    <2>1. row.score = score
      BY <1>3 DEF ListRow, Share
    <2>2. row.cells = cells
      BY <1>3, Zenon DEF ListRow
    <2>3. weight = Weights /\ good = RightOf(u) /\ DOMAIN weight = Places
      BY <1>7, <2>2
    <2> HIDE DEF good, weight
    <2>4. /\ SumFunction(weight) = SumFunctionOnSet(Weights, Places)
          /\ SumFunctionOnSet(weight, good) = SumFunctionOnSet(Weights, RightOf(u))
      BY <2>3, Zenon DEF SumFunction
    <2> QED BY <2>1, <2>4
  <1>9. row.submittedTasks = Cardinality({i \in Places : row.cells[i] # "NOT_SUBMITTED"})
    <2>1. row.cells = cells
      BY <1>3, Zenon DEF ListRow
    <2>2. row.submittedTasks = Cardinality({i \in 1..Len(columns) : cells[i] # "NOT_SUBMITTED"})
      BY <1>3 DEF ListRow
    <2> HIDE DEF cells
    <2> QED BY <1>7, <2>1, <2>2, Zenon
  <1>10. row.submittedTasks = Cardinality(tried)
    <2> HIDE DEF tried
    <2> QED BY <1>7, <1>9, Zenon
  <1> QED BY <1>8, <1>10 DEF row

\* Who has no submission has tried nothing.
LEMMA BlankRow ==
  ASSUME IInv, Shown("list"), NEW u \in call.students, answer.row[u].submissionsCount = 0,
         NEW i \in Places
  PROVE  Cell(i, u) = "NOT_SUBMITTED"
  <1>1. PICK found :
           /\ answer = ListDashboard(call.order, call.students, found)
           /\ \A j \in Places, v \in call.students :
                LET group == Group(found, call.order[j], v) IN
                Cell(j, v) = Status(found, group) /\ IsFiniteSet(group)
    BY ListAnswer
  <1> DEFINE columns == ListColumns(call.order, call.students, found)
             size == [j \in Places |-> Cardinality(Group(found, columns[j].entry, u))]
             rest == Places \ {i}
             group(j) == Group(found, call.order[j], u)
  <1>2. call.order \in Seq(Entries) /\ IsFiniteSet(Places) /\ IsFiniteSet(rest)
    BY ListRead, FS_Subset
  <1>3. columns = ListColumns(call.order, call.students, found)
    OBVIOUS
  <1> HIDE DEF columns
  <1>4. answer.row[u] = ListRow(columns, found, u)
    <2>1. answer.row = [v \in call.students |-> ListRow(columns, found, v)]
      BY <1>1, <1>3 DEF ListDashboard
    <2> QED BY <2>1
  <1>5. /\ Len(columns) = Len(call.order)
        /\ \A j \in Places : columns[j].entry = call.order[j]
    BY <1>2, <1>3, ColumnsShape DEF Places
  <1>6. SumFunction(size) = 0
    <2>1. answer.row[u].submissionsCount = SumFunction([j \in 1..Len(columns) |->
                                             Cardinality(Group(found, columns[j].entry, u))])
      BY <1>4 DEF ListRow
    <2>2. Places = 1..Len(columns)
      BY <1>5 DEF Places
    <2> QED BY <2>1, <2>2, Zenon
  <1>7. \A j \in Places : size[j] \in Int /\ 0 <= size[j] /\ size[j] = Cardinality(group(j))
    BY <1>1, <1>5, FS_CardinalityType
  <1>8. DOMAIN size = Places
    OBVIOUS
  <1> HIDE DEF size
  <1>9. SumFunctionOnSet(size, Places) = 0
    BY <1>6, <1>8, Zenon DEF SumFunction
  <1>10. SumFunctionOnSet(size, Places) = size[i] + SumFunctionOnSet(size, rest)
    BY <1>2, <1>7, SumRemove
  <1>11. 0 <= SumFunctionOnSet(size, rest) /\ SumFunctionOnSet(size, rest) \in Int
    <2>1. 0 * Cardinality(rest) <= SumFunctionOnSet(size, rest)
      BY <1>2, <1>7, SumAtLeast
    <2>2. SumFunctionOnSet(size, rest) \in Int /\ Cardinality(rest) \in Nat
      BY <1>2, <1>7, SumInt, FS_CardinalityType
    <2> HIDE DEF rest
    <2> QED BY <2>1, <2>2
  <1>12. size[i] = 0
    <2> HIDE DEF rest
    <2> QED BY <1>7, <1>9, <1>10, <1>11
  <1>13. group(i) = {}
    BY <1>1, <1>7, <1>12, FS_EmptySet
  <1> QED BY <1>1, <1>13 DEF Status

\* The figures of the whole list, from its rows and columns.
LEMMA WholeFigures ==
  ASSUME IInv, Shown("list")
  PROVE  /\ call.students # {} => answer.averageScore =
              Rounded(SumFunctionOnSet(Scores, call.students), Cardinality(call.students))
         /\ answer.completionRate = Rate(Cardinality(Full), Cardinality(call.students))
         /\ answer.studentsWithoutSubmission = Cardinality(Blank)
         /\ answer.hardestTask = Hardest(answer.columns)
  <1> DEFINE U == call.students
             row == answer.row
  <1>1. PICK found : answer = ListDashboard(call.order, U, found)
    BY ListAnswer
  <1> DEFINE columns == ListColumns(call.order, U, found)
  <1>2. /\ answer.columns = columns /\ row = [u \in U |-> ListRow(columns, found, u)]
        /\ answer.hardestTask = Hardest(columns)
    BY <1>1, Zenon DEF ListDashboard
  <1>3. /\ answer.completionRate = Rate(Cardinality(Completed(columns, row, U)), Cardinality(U))
        /\ answer.studentsWithoutSubmission = Cardinality(Blank)
    BY <1>1, <1>2, Zenon DEF ListDashboard, Blank
  <1> DEFINE sum == SumFunction(Scores)
  <1>4. answer.averageScore = IF Cardinality(U) = 0 THEN 0 ELSE Rounded(sum, Cardinality(U))
    BY <1>1, <1>2 DEF ListDashboard, Scores
  <1> HIDE DEF columns
  <1>5. Len(columns) = Len(call.order)
    BY <1>2, ColumnFigures
  <1>6. Completed(columns, row, U) = Full
    BY <1>5 DEF Completed, Full
  <1>7. answer.completionRate = Rate(Cardinality(Full), Cardinality(U))
    BY <1>3, <1>6, Zenon
  <1>8. U # {} => Cardinality(U) # 0
    BY ListRead, FS_EmptySet
  <1>9. sum = SumFunctionOnSet(Scores, U)
    BY Zenon DEF SumFunction, Scores
  <1>10. U # {} => answer.averageScore = Rounded(SumFunctionOnSet(Scores, U), Cardinality(U))
    <2> HIDE DEF sum
    <2> QED BY <1>4, <1>8, <1>9
  <1> QED BY <1>2, <1>3, <1>7, <1>10, Zenon

\* Both loops of the list count the same cells.
LEMMA CountedAlike == ASSUME IInv, Shown("list") PROVE CellsCountedAlike
  <1> DEFINE U == call.students
             columns == answer.columns
             right == Cells("CORRECT")
             tried == Cells("CORRECT") \cup Cells("INCORRECT")
             correct == [i \in DOMAIN columns |-> columns[i].correctCount]
             submitted == [i \in DOMAIN columns |-> columns[i].submittedCount]
  <1>1. IsFiniteSet(U) /\ IsFiniteSet(Places)
    BY ListRead
  <1>2. right \subseteq Places \X U /\ tried \subseteq Places \X U
    BY DEF Cells, Places
  <1> DEFINE rightRow == [i \in Places |-> RightBy(i)]
             triedRow == [i \in Places |-> TriedBy(i)]
  <1>3. ASSUME NEW i \in Places, NEW u \in U
        PROVE  /\ u \in RightBy(i) <=> <<i, u>> \in right
               /\ u \in TriedBy(i) <=> <<i, u>> \in tried
    <2>1. Cell(i, u) \in {"NOT_SUBMITTED", "CORRECT", "INCORRECT"}
      BY ListRead
    <2>2. \A v \in {"CORRECT", "INCORRECT"} : <<i, u>> \in Cells(v) <=> Cell(i, u) = v
      BY DEF Cells, Places
    <2> QED BY <2>1, <2>2 DEF RightBy, TriedBy
  <1>4. DOMAIN columns = Places
    BY ColumnFigures
  <1>5. \A i \in Places :
          /\ RightBy(i) \subseteq U /\ correct[i] = Cardinality(RightBy(i))
          /\ TriedBy(i) \subseteq U /\ submitted[i] = Cardinality(TriedBy(i))
    BY <1>4, ColumnFigures DEF RightBy, TriedBy
  <1>6. DOMAIN correct = Places /\ DOMAIN submitted = Places
    BY <1>4
  <1> HIDE DEF U, right, tried, correct, submitted
  <1>7. /\ \A i \in Places, u \in U : u \in rightRow[i] <=> <<i, u>> \in right
        /\ \A i \in Places : rightRow[i] \subseteq U /\ correct[i] = Cardinality(rightRow[i])
    BY <1>3, <1>5
  <1>8. /\ \A i \in Places, u \in U : u \in triedRow[i] <=> <<i, u>> \in tried
        /\ \A i \in Places : triedRow[i] \subseteq U /\ submitted[i] = Cardinality(triedRow[i])
    BY <1>3, <1>5
  <1> HIDE DEF rightRow, triedRow
  <1>9. /\ SumFunctionOnSet(correct, Places) = Cardinality(right)
        /\ SumFunctionOnSet(submitted, Places) = Cardinality(tried)
    <2>1. SumFunctionOnSet(correct, Places) = Cardinality(right)
      BY <1>1, <1>2, <1>7, CountedByRows
    <2>2. SumFunctionOnSet(submitted, Places) = Cardinality(tried)
      BY <1>1, <1>2, <1>8, CountedByRows
    <2> QED BY <2>1, <2>2
  <1>10. SumFunction(correct) = Cardinality(right) /\ SumFunction(submitted) = Cardinality(tried)
    BY <1>6, <1>9, Zenon DEF SumFunction
  <1> QED BY <1>10, Zenon DEF CellsCountedAlike, right, tried, correct, submitted

\* Who has completed the list has tried all of it, and is not without submissions.
LEMMA CompletedTried == ASSUME IInv, Shown("list") PROVE CompletedTriedAll
  <1> DEFINE U == call.students
             row == answer.row
             mine(u) == {i \in Places : Cell(i, u) # "NOT_SUBMITTED"}
             all == {u \in U : call.order # <<>> /\
                       \A i \in 1..Len(call.order) : Cell(i, u) # "NOT_SUBMITTED"}
  <1>1. /\ call.order \in Seq(Entries) /\ Len(call.order) \in Nat
        /\ IsFiniteSet(U) /\ IsFiniteSet(Places)
    BY ListRead
  <1>2. Cardinality(Places) = Len(call.order)
    BY <1>1, FS_Interval DEF Places
  <1>3. ASSUME NEW u \in U
        PROVE  row[u].submittedTasks = Len(call.order) <=> \A i \in Places : Cell(i, u) # "NOT_SUBMITTED"
    <2>1. row[u].submittedTasks = Cardinality(mine(u))
      BY RowFigures
    <2>2. mine(u) \subseteq Places
      OBVIOUS
    <2>3. Cardinality(mine(u)) = Cardinality(Places) <=> mine(u) = Places
      <3> HIDE DEF mine
      <3> QED BY <1>1, <2>2, FS_Subset
    <2>4. mine(u) = Places <=> \A i \in Places : Cell(i, u) # "NOT_SUBMITTED"
      OBVIOUS
    <2> HIDE DEF mine
    <2> QED BY <1>2, <2>1, <2>3, <2>4
  <1>4. call.order # <<>> <=> Len(call.order) > 0
    BY <1>1, EmptySeq
  <1>5. Full = all
    BY <1>3, <1>4 DEF Places, Full
  <1>6. Full \cap Blank = {} /\ Full \subseteq U /\ Blank \subseteq U
    <2> SUFFICES ASSUME NEW u \in Full, u \in Blank PROVE FALSE
      BY DEF Full, Blank
    <2>0. u \in call.students /\ answer.row[u].submissionsCount = 0
      BY DEF Blank
    <2>1. \A i \in Places : Cell(i, u) = "NOT_SUBMITTED"
      BY <2>0, BlankRow
    <2>2. 1 \in Places /\ \A i \in Places : Cell(i, u) # "NOT_SUBMITTED"
      BY <1>1, <1>3 DEF Places, Full
    <2> QED BY <2>1, <2>2
  <1>7. /\ answer.completionRate = Rate(Cardinality(Full), Cardinality(U))
        /\ answer.studentsWithoutSubmission = Cardinality(Blank)
    BY WholeFigures
  <1> HIDE DEF all, U
  <1>8. /\ Cardinality(U) \in Nat /\ Cardinality(Full) \in Nat /\ Cardinality(Blank) \in Nat
        /\ Cardinality(Full) + Cardinality(Blank) <= Cardinality(U)
    <2>1. IsFiniteSet(Full) /\ IsFiniteSet(Blank) /\ Full \cup Blank \subseteq U
      BY <1>1, <1>6, FS_Subset
    <2>2. Cardinality(Full \cup Blank)
            = Cardinality(Full) + Cardinality(Blank) - Cardinality(Full \cap Blank)
      BY <2>1, FS_Union
    <2>3. Cardinality(Full \cap Blank) = 0
      BY <1>6, FS_EmptySet, Zenon
    <2>4. Cardinality(Full \cup Blank) <= Cardinality(U)
      BY <1>1, <2>1, FS_Subset
    <2> QED BY <1>1, <2>1, <2>2, <2>3, <2>4, FS_CardinalityType
  <1>9. U # {} => answer.completionRate[1] = Cardinality(all)
    <2> SUFFICES ASSUME U # {} PROVE answer.completionRate[1] = Cardinality(all)
      OBVIOUS
    <2>1. Cardinality(U) # 0
      BY <1>1, FS_EmptySet
    <2>2. Cardinality(Full) = Cardinality(all)
      BY <1>5, Zenon
    <2> QED BY <1>7, <2>1, <2>2 DEF Rate
  <1>10. answer.studentsWithoutSubmission + answer.completionRate[1] <= Cardinality(U)
    BY <1>7, <1>8 DEF Rate
  <1> QED BY <1>9, <1>10, Zenon DEF CompletedTriedAll, U, all

\* What the reduce of Hardest asks of column i, and its table of the first k columns.
Improves(columns, i, b) ==
  /\ columns[i].submittedCount > 0
  /\ b # 0 => Lower(columns[i].accuracyRate, columns[b].accuracyRate)
Reduces(f, columns, k) ==
  f = [i \in 0..k |-> IF i = 0 THEN 0
                      ELSE IF Improves(columns, i, f[i - 1]) THEN i ELSE f[i - 1]]

\* The recursive function of Hardest is such a table.
LEMMA HardestDef ==
  ASSUME NEW columns
  PROVE  Hardest(columns)
           = (CHOOSE f : Reduces(f, columns, Len(columns)))[Len(columns)]
  BY DEF Hardest, Reduces, Improves

\* A set of numbers that has no first one is empty.
LEMMA NoFirst ==
  ASSUME NEW B \in SUBSET Nat, \A n \in B : \E m \in B : m < n
  PROVE  B = {}
  <1> SUFFICES ASSUME B # {} PROVE FALSE
    OBVIOUS
  <1>1. Min(B) \in B /\ \A n \in B : Min(B) <= n
    BY Least
  <1>2. PICK m \in B : m < Min(B)
    BY <1>1
  <1>3. m \in Nat /\ Min(B) \in Nat /\ Min(B) <= m
    BY <1>1
  <1> QED BY <1>2, <1>3

\* The reduce goes through any number of columns.
LEMMA ReducesExists ==
  ASSUME NEW columns, NEW n \in Nat
  PROVE  \E f : Reduces(f, columns, n)
  <1> DEFINE Bad == {k \in Nat : ~\E f : Reduces(f, columns, k)}
  <1>1. ASSUME NEW k \in Bad PROVE \E m \in Bad : m < k
    <2>1. k # 0
      <3> DEFINE f == [i \in 0..0 |-> 0]
      <3>1. Reduces(f, columns, 0)
        BY DEF Reduces
      <3> QED BY <3>1
    <2>2. k - 1 \in Nat
      BY <2>1
    <2> SUFFICES ASSUME k - 1 \notin Bad PROVE FALSE
      BY <2>2
    <2>3. PICK f : Reduces(f, columns, k - 1)
      BY <2>2
    <2> DEFINE next(i, b) == IF i = 0 THEN 0 ELSE IF Improves(columns, i, b) THEN i ELSE b
               g == [i \in 0..k |-> IF i < k THEN f[i] ELSE next(k, f[k - 1])]
    <2>4. ASSUME NEW i \in 0..k PROVE g[i] = next(i, g[i - 1])
      <3>1. CASE i = k
        <4>1. g[i] = next(k, f[k - 1]) /\ g[i - 1] = f[k - 1]
          BY <2>2, <3>1
        <4> QED BY <3>1, <4>1
      <3>2. CASE i < k
        <4>1. f[i] = next(i, f[i - 1])
          BY <2>3, <3>2 DEF Reduces
        <4>2. g[i] = f[i] /\ (i # 0 => g[i - 1] = f[i - 1])
          BY <3>2
        <4> HIDE DEF g
        <4> QED BY <4>1, <4>2
      <3> QED BY <3>1, <3>2
    <2>5. Reduces(g, columns, k)
      <3>1. g = [i \in 0..k |-> g[i]]
        OBVIOUS
      <3> HIDE DEF g
      <3> QED BY <2>4, <3>1 DEF Reduces
    <2> QED BY <2>5
  <1> HIDE DEF Bad
  <1>2. Bad = {}
    BY <1>1, NoFirst DEF Bad
  <1> QED BY <1>2 DEF Bad

\* Fractions are ordered: who is lower than q is lower than what is not.
LEMMA LowerThan ==
  ASSUME NEW p \in Nat \X (Nat \ {0}), NEW q \in Nat \X (Nat \ {0}),
         NEW r \in Nat \X (Nat \ {0}), Lower(p, q), ~Lower(r, q)
  PROVE  Lower(p, r) /\ ~Lower(r, p)
  <1> DEFINE a == p[1]
             b == p[2]
             c == q[1]
             d == q[2]
             e == r[1]
             f == r[2]
  <1>1. a \in Nat /\ b \in Nat /\ b > 0 /\ c \in Nat /\ d \in Nat /\ d > 0
        /\ e \in Nat /\ f \in Nat /\ f > 0
    OBVIOUS
  <1>2. a * d < c * b /\ ~(e * d < c * f)
    BY DEF Lower
  <1> HIDE DEF a, b, c, d, e, f
  <1>3. (a * d) * f < (c * b) * f
    BY <1>1, <1>2
  <1>4. (c * f) * b <= (e * d) * b
    BY <1>1, <1>2
  <1>5. (a * f) * d < (e * b) * d
    BY <1>1, <1>3, <1>4
  <1>6. a * f < e * b
    BY <1>1, <1>5
  <1> QED BY <1>1, <1>6 DEF Lower, a, b, e, f

\* The reduce keeps the first of the lowest.
LEMMA ReducesToFirstLowest ==
  ASSUME NEW columns, NEW n \in Nat, NEW f, Reduces(f, columns, n),
         \A i \in 1..n : /\ columns[i].submittedCount \in Nat
                         /\ columns[i].accuracyRate \in Nat \X (Nat \ {0})
  PROVE  LET tried   == {i \in 1..n : columns[i].submittedCount > 0}
             rate(i) == columns[i].accuracyRate
         IN  /\ f[n] \in IF tried = {} THEN {0} ELSE tried
             /\ \A i \in tried : /\ ~Lower(rate(i), rate(f[n]))
                                 /\ i < f[n] => Lower(rate(f[n]), rate(i))
  <1> DEFINE tried(k) == {i \in 1..k : columns[i].submittedCount > 0}
             rate(i) == columns[i].accuracyRate
             Good(k) ==
               /\ f[k] = 0 => tried(k) = {}
               /\ f[k] # 0 => f[k] \in tried(k)
               /\ \A i \in tried(k) : /\ ~Lower(rate(i), rate(f[k]))
                                      /\ i < f[k] => Lower(rate(f[k]), rate(i))
             Bad == {k \in 0..n : ~Good(k)}
  <1>1. ASSUME NEW k \in Bad PROVE \E m \in Bad : m < k
    <2> USE <1>1
    <2>1. k # 0
      <3>1. f[0] = 0
        BY DEF Reduces
      <3>2. tried(0) = {}
        OBVIOUS
      <3> QED BY <3>1, <3>2
    <2> DEFINE b == f[k - 1]
    <2>2. k - 1 \in 0..n /\ k \in 1..n
      BY <2>1
    <2> SUFFICES ASSUME Good(k - 1) PROVE Good(k)
      BY <2>2
    <2>3. f[k] = IF Improves(columns, k, b) THEN k ELSE b
      BY <2>2 DEF Reduces
    <2>4. /\ tried(k - 1) \subseteq tried(k)
          /\ columns[k].submittedCount > 0 => k \in tried(k)
          /\ \A i \in tried(k) : i \in tried(k - 1) \/ (i = k /\ columns[k].submittedCount > 0)
      <3>1. tried(k - 1) \subseteq tried(k)
        BY <2>2
      <3>2. columns[k].submittedCount > 0 => k \in tried(k)
        BY <2>2
      <3>3. ASSUME NEW i \in tried(k)
            PROVE  i \in tried(k - 1) \/ (i = k /\ columns[k].submittedCount > 0)
        <4>1. i \in 1..k /\ columns[i].submittedCount > 0
          BY <3>3
        <4>2. CASE i = k
          BY <4>1, <4>2
        <4>3. CASE i # k
          <5>1. i \in 1..(k - 1)
            BY <2>2, <4>1, <4>3
          <5> QED BY <4>1, <5>1
        <4> QED BY <4>2, <4>3
      <3> QED BY <3>1, <3>2, <3>3
    <2>5. \A i \in tried(k) : rate(i) \in Nat \X (Nat \ {0}) /\ i \in 1..k
      BY <2>2
    <2>6. /\ b = 0 => tried(k - 1) = {}
          /\ b # 0 => b \in tried(k - 1)
          /\ \A i \in tried(k - 1) : /\ ~Lower(rate(i), rate(b))
                                     /\ i < b => Lower(rate(b), rate(i))
      OBVIOUS
    <2>7. \A i \in tried(k - 1) : i < k /\ i # 0
      BY <2>2
    <2>8. k \in Nat /\ k # 0
      BY <2>2
    <2>9. columns[k].submittedCount > 0 => ~Lower(rate(k), rate(k))
      BY <2>4, <2>5 DEF Lower
    <2>10. Improves(columns, k, b) <=> /\ columns[k].submittedCount > 0
                                       /\ b # 0 => Lower(rate(k), rate(b))
      BY DEF Improves
    <2>11. CASE Improves(columns, k, b)
      <3>1. f[k] = k /\ k \in tried(k)
        BY <2>3, <2>4, <2>10, <2>11
      <3>2. ASSUME NEW i \in tried(k - 1)
            PROVE  ~Lower(rate(i), rate(k)) /\ Lower(rate(k), rate(i))
        <4>1. b # 0 /\ b \in tried(k - 1)
          BY <2>6, <3>2
        <4>2. i \in tried(k) /\ b \in tried(k)
          BY <2>4, <3>2, <4>1
        <4> HIDE DEF tried, b
        <4>3. Lower(rate(k), rate(b)) /\ ~Lower(rate(i), rate(b))
          BY <2>6, <2>10, <2>11, <3>2, <4>1
        <4> HIDE DEF rate
        <4> QED BY <2>5, <3>1, <4>2, <4>3, LowerThan
      <3> HIDE DEF tried, rate, b
      <3>3. \A i \in tried(k) : /\ ~Lower(rate(i), rate(k))
                                /\ i < k => Lower(rate(k), rate(i))
        BY <2>4, <2>8, <2>9, <3>2
      <3> QED BY <2>8, <3>1, <3>3
    <2>12. CASE ~Improves(columns, k, b)
      <3>1. f[k] = b
        BY <2>3, <2>12
      <3> HIDE DEF tried, rate, b
      <3>2. b = 0 => tried(k) = {}
        BY <2>4, <2>6, <2>10, <2>12
      <3>3. b # 0 => b \in tried(k)
        BY <2>4, <2>6
      <3>4. ASSUME NEW i \in tried(k)
            PROVE  ~Lower(rate(i), rate(b)) /\ (i < b => Lower(rate(b), rate(i)))
        <4>1. b # 0
          BY <3>2, <3>4
        <4>2. CASE i \in tried(k - 1)
          BY <2>6, <4>2
        <4>3. CASE i = k /\ columns[k].submittedCount > 0
          <5>1. ~Lower(rate(k), rate(b))
            BY <2>10, <2>12, <4>1, <4>3
          <5>2. ~(k < b)
            <6>1. b \in tried(k)
              BY <3>3, <4>1
            <6>2. b \in 1..k
              BY <2>5, <6>1
            <6> QED BY <2>8, <6>2
          <5> QED BY <4>3, <5>1, <5>2
        <4> QED BY <2>4, <3>4, <4>2, <4>3
      <3> QED BY <3>1, <3>2, <3>3, <3>4
    <2> QED BY <2>11, <2>12
  <1> HIDE DEF Bad
  <1>2. Bad = {}
    <2>1. Bad \in SUBSET Nat
      BY DEF Bad
    <2> QED BY <1>1, <2>1, NoFirst
  <1>3. Good(n)
    <2>1. n \in 0..n
      OBVIOUS
    <2> HIDE DEF Good
    <2> QED BY <1>2, <2>1 DEF Bad
  <1>4. f[n] \in IF tried(n) = {} THEN {0} ELSE tried(n)
    <2> HIDE DEF tried
    <2> QED BY <1>3
  <1> QED BY <1>3, <1>4

\* The hardest task of an answer.
LEMMA HardestFirstLowest == ASSUME IInv, Shown("list") PROVE HardestIsFirstLowest
  <1> DEFINE columns == answer.columns
             n == Len(call.order)
  <1>1. n \in Nat /\ Places = 1..n /\ IsFiniteSet(call.students)
    BY ListRead DEF Places
  <1>2. DOMAIN columns = 1..n /\ Len(columns) = n
    BY <1>1, ColumnFigures
  <1>3. ASSUME NEW i \in 1..n
        PROVE  /\ columns[i].submittedCount \in Nat
               /\ columns[i].accuracyRate \in Nat \X (Nat \ {0})
    <2>1. TriedBy(i) \subseteq call.students /\ RightBy(i) \subseteq call.students
      BY DEF TriedBy, RightBy
    <2>2. Cardinality(TriedBy(i)) \in Nat /\ Cardinality(RightBy(i)) \in Nat
      BY <1>1, <2>1, FS_Subset, FS_CardinalityType
    <2>3. /\ columns[i].submittedCount = Cardinality(TriedBy(i))
          /\ columns[i].accuracyRate = Rate(Cardinality(RightBy(i)), Cardinality(TriedBy(i)))
      BY <1>1, ColumnFigures
    <2> HIDE DEF columns
    <2> QED BY <2>2, <2>3 DEF Rate
  <1>4. answer.hardestTask = Hardest(columns)
    BY WholeFigures
  <1> HIDE DEF columns, n
  <1> DEFINE f == CHOOSE g : Reduces(g, columns, n)
  <1>5. Reduces(f, columns, n)
    BY <1>1, ReducesExists
  <1>6. Hardest(columns) = f[n]
    BY <1>2, HardestDef, Zenon
  <1> HIDE DEF f
  <1> DEFINE tried == {i \in 1..n : columns[i].submittedCount > 0}
             rate(i) == columns[i].accuracyRate
  <1>7. /\ f[n] \in IF tried = {} THEN {0} ELSE tried
        /\ \A i \in tried : /\ ~Lower(rate(i), rate(f[n]))
                            /\ i < f[n] => Lower(rate(f[n]), rate(i))
    BY <1>1, <1>3, <1>5, ReducesToFirstLowest
  <1> QED BY <1>2, <1>4, <1>6, <1>7 DEF HardestIsFirstLowest, columns

\* What a quotient reaches.
LEMMA QuotientReaches ==
  ASSUME NEW a \in Int, NEW b \in Int, b > 0, NEW c \in Int
  PROVE  a \div b \in Int /\ (a \div b >= c <=> a >= b * c)
  <1> DEFINE q == a \div b
  <1>1. q \in Int /\ b * q <= a /\ a < b * q + b
    OBVIOUS
  <1> HIDE DEF q
  <1>2. CASE q >= c
    <2>1. b * q >= b * c
      BY <1>1, <1>2
    <2> QED BY <1>1, <1>2, <2>1
  <1>3. CASE ~(q >= c)
    <2>1. q + 1 <= c
      BY <1>1, <1>3
    <2>2. b * (q + 1) <= b * c
      BY <1>1, <2>1
    <2>3. b * (q + 1) = b * q + b
      BY <1>1
    <2>4. ~(a >= b * c)
      BY <1>1, <2>2, <2>3
    <2> QED BY <1>1, <1>3, <2>4
  <1> QED BY <1>2, <1>3 DEF q

\* A score is a share of the weights, but for what two decimals cannot tell.
LEMMA ShareReaches ==
  ASSUME NEW right \in Nat, NEW wrong \in Nat, right + wrong > 0
  PROVE  LET score == Share(right, right + wrong) IN
         /\ score \in Int /\ score >= 0 /\ ~(score >= 10001)
         /\ score >= 10000 <=> 20000 * wrong <= right + wrong
         /\ score >= 1 <=> ~(20000 * right < right + wrong)
  <1> DEFINE t == right + wrong
             a == 2 * (10000 * right) + t
             b == 2 * t
             score == a \div b
  <1>1. Share(right, right + wrong) = score
    BY DEF Share, Rounded
  <1>2. a \in Int /\ b \in Int /\ b > 0
    OBVIOUS
  <1>3. /\ score \in Int
        /\ score >= 0 <=> a >= b * 0
        /\ score >= 1 <=> a >= b * 1
        /\ score >= 10000 <=> a >= b * 10000
        /\ score >= 10001 <=> a >= b * 10001
    <2> HIDE DEF a, b
    <2> QED BY <1>2, QuotientReaches
  <1> HIDE DEF score
  <1>4. /\ score \in Int /\ score >= 0 /\ ~(score >= 10001)
        /\ score >= 10000 <=> 20000 * wrong <= right + wrong
        /\ score >= 1 <=> ~(20000 * right < right + wrong)
    BY <1>3
  <1> HIDE DEF a, b, t
  <1> QED BY <1>1, <1>4

\* What it reaches fixes whether a score is full or zero.
LEMMA ScoreBounds ==
  ASSUME NEW right \in Int, NEW wrong \in Int,
         NEW score \in Int, score >= 0, ~(score >= 10001),
         score >= 10000 <=> 20000 * wrong <= right + wrong,
         score >= 1 <=> ~(20000 * right < right + wrong)
  PROVE  /\ score \in 0..10000
         /\ score = 10000 <=> 20000 * wrong <= right + wrong
         /\ score = 0 <=> 20000 * right < right + wrong
  OBVIOUS

\* The score of a row is the share of what is right in it.
LEMMA ScoresShare ==
  ASSUME IInv, Shown("list"), NEW u \in call.students
  PROVE  IsShare(answer.row[u].score, SumFunctionOnSet(Weights, RightOf(u)),
                 SumFunctionOnSet(Weights, Places \ RightOf(u)))
  <1> DEFINE total == SumFunctionOnSet(Weights, Places)
             right == SumFunctionOnSet(Weights, RightOf(u))
             wrong == SumFunctionOnSet(Weights, Places \ RightOf(u))
             score == answer.row[u].score
  <1>1. /\ IsFiniteSet(Places) /\ RightOf(u) \subseteq Places
        /\ \A i \in Places : Weights[i] \in Int /\ 1 <= Weights[i] /\ 0 <= Weights[i]
    <2>1. \A i \in Places : Weight[call.order[i]] \in Nat \ {0}
      BY ListRead, WeightAssumption
    <2> QED BY <2>1, ListRead DEF Weights, RightOf
  <1>2. IsFiniteSet(RightOf(u)) /\ IsFiniteSet(Places \ RightOf(u))
    BY <1>1, FS_Subset
  <1>3. total = right + wrong
    BY <1>1, SumSplits
  <1>4. right \in Int /\ wrong \in Int /\ total \in Int
    BY <1>1, <1>2, SumInt
  <1>5. 0 <= right /\ 0 <= wrong
    <2>1. 0 * Cardinality(RightOf(u)) <= right
      BY <1>1, <1>2, SumAtLeast
    <2>2. 0 * Cardinality(Places \ RightOf(u)) <= wrong
      BY <1>1, <1>2, SumAtLeast
    <2> HIDE DEF right, wrong
    <2>3. Cardinality(RightOf(u)) \in Nat /\ Cardinality(Places \ RightOf(u)) \in Nat
      BY <1>2, FS_CardinalityType
    <2> QED BY <1>4, <2>1, <2>2, <2>3
  <1>6. call.order # <<>> <=> total > 0
    <2>0. call.order = <<>> <=> Places = {}
      <3>1. call.order \in Seq(Entries) /\ Len(call.order) \in Nat
        BY ListRead
      <3>2. call.order = <<>> <=> Len(call.order) = 0
        BY <3>1, EmptySeq
      <3>3. Len(call.order) = 0 => Places = {}
        BY DEF Places
      <3>4. Len(call.order) # 0 => 1 \in Places
        BY <3>1 DEF Places
      <3> QED BY <3>2, <3>3, <3>4
    <2>1. CASE Places = {}
      <3>1. total = 0
        BY <2>1, SumEmpty, Zenon
      <3> QED BY <2>0, <2>1, <3>1
    <2>2. CASE Places # {}
      <3>1. 1 * Cardinality(Places) <= total
        BY <1>1, SumAtLeast
      <3>2. Cardinality(Places) \in Nat /\ Cardinality(Places) # 0
        BY <1>1, <2>2, FS_CardinalityType, FS_EmptySet
      <3> HIDE DEF total
      <3> QED BY <1>4, <2>0, <2>2, <3>1, <3>2
    <2> QED BY <2>1, <2>2
  <1>7. /\ total = 0 => score = 0
        /\ total # 0 => score = Share(right, total)
    BY RowFigures, Zenon
  <1> HIDE DEF total, right, wrong, score
  <1>8. IsShare(score, right, wrong)
    <2>1. CASE call.order = <<>>
      <3>1. total = 0
        BY <1>3, <1>4, <1>5, <1>6, <2>1
      <3>2. score = 0
        BY <1>7, <3>1, Zenon
      <3> QED BY <2>1, <3>2 DEF IsShare
    <2>2. CASE call.order # <<>>
      <3>1. right \in Nat /\ wrong \in Nat /\ right + wrong > 0 /\ total # 0
        BY <1>3, <1>4, <1>5, <1>6, <2>2
      <3>2. score = Share(right, right + wrong)
        BY <1>3, <1>7, <3>1
      <3>3. /\ score \in Int /\ score >= 0 /\ ~(score >= 10001)
            /\ score >= 10000 <=> 20000 * wrong <= right + wrong
            /\ score >= 1 <=> ~(20000 * right < right + wrong)
        BY <3>1, <3>2, ShareReaches
      <3>4. /\ score \in 0..10000
            /\ score = 10000 <=> 20000 * wrong <= right + wrong
            /\ score = 0 <=> 20000 * right < right + wrong
        BY <3>1, <3>3, ScoreBounds
      <3> QED BY <2>2, <3>4 DEF IsShare
    <2> QED BY <2>1, <2>2
  <1> QED BY <1>8 DEF score, right, wrong

\* The rounded average of whole numbers is never beyond all of them.
LEMMA AverageBetween == ASSUME IInv, Shown("list") PROVE AverageIsBetween
  <1> DEFINE U == call.students
             n == Cardinality(U)
             sum == SumFunctionOnSet(Scores, U)
             a == 2 * sum + n
             b == 2 * n
             average == a \div b
  <1> SUFFICES ASSUME U # {}
      PROVE  /\ \E u \in U : Scores[u] <= answer.averageScore
             /\ \E u \in U : Scores[u] >= answer.averageScore
    BY DEF AverageIsBetween, Scores
  <1>1. IsFiniteSet(U) /\ n \in Nat /\ n > 0
    BY ListRead, FS_CardinalityType, FS_EmptySet
  <1>2. ASSUME NEW u \in U PROVE Scores[u] \in Int
    <2> DEFINE score == answer.row[u].score
    <2>1. IsShare(score, SumFunctionOnSet(Weights, RightOf(u)),
                  SumFunctionOnSet(Weights, Places \ RightOf(u)))
      BY <1>2, ScoresShare
    <2>2. Scores[u] = score
      BY <1>2 DEF Scores
    <2> HIDE DEF score
    <2>3. score \in 0..10000
      BY <2>1 DEF IsShare
    <2>4. score \in Int
      BY <2>3
    <2> QED BY <2>2, <2>4
  <1>3. sum \in Int
    BY <1>1, <1>2, SumInt
  <1>4. answer.averageScore = average
    BY WholeFigures DEF Rounded
  <1> HIDE DEF U, sum, n, average
  <1>5. /\ average \in Int
        /\ average >= average
        /\ average >= average + 1 <=> a >= b * (average + 1)
        /\ average >= average <=> a >= b * average
    <2>1. a \in Int /\ b \in Int /\ b > 0
      BY <1>1, <1>3
    <2> HIDE DEF a, b
    <2> QED BY <2>1, QuotientReaches DEF average
  <1>6. \E u \in U : Scores[u] <= average
    <2> SUFFICES ASSUME \A u \in U : ~(Scores[u] <= average) PROVE FALSE
      OBVIOUS
    <2>1. \A u \in U : Scores[u] \in Int /\ average + 1 <= Scores[u]
      BY <1>2, <1>5
    <2>2. (average + 1) * n <= sum
      BY <1>1, <1>5, <2>1, SumAtLeast DEF sum, n
    <2>3. a >= b * (average + 1)
      BY <1>1, <1>3, <1>5, <2>2
    <2> QED BY <1>5, <2>3
  <1>7. \E u \in U : Scores[u] >= average
    <2> SUFFICES ASSUME \A u \in U : ~(Scores[u] >= average) PROVE FALSE
      OBVIOUS
    <2>1. \A u \in U : Scores[u] \in Int /\ Scores[u] <= average - 1
      BY <1>2, <1>5
    <2>2. sum <= (average - 1) * n
      BY <1>1, <1>5, <2>1, SumAtMost DEF sum, n
    <2>3. ~(a >= b * average)
      BY <1>1, <1>3, <1>5, <2>2
    <2> QED BY <1>5, <2>3
  <1> QED BY <1>4, <1>6, <1>7

\* The figures of a list agree with its cells and with each other, for any columns,
\* weights, students and submissions.
THEOREM ListFiguresAreRight == Spec => []ListFiguresAgree
  <1>1. ASSUME IInv, Shown("list") PROVE ListFiguresAgree
    <2>1. ScoresAreShares
      BY <1>1, ScoresShare, Zenon DEF ScoresAreShares, Weights, RightOf, Places
    <2> QED BY <1>1, <2>1, CountedAlike, CompletedTried, HardestFirstLowest, AverageBetween
            DEF ListFiguresAgree
  <1>2. IInv => ListFiguresAgree
    BY <1>1 DEF ListFiguresAgree
  <1> QED BY <1>2, DashboardsInductive, PTL

===============================================================================
