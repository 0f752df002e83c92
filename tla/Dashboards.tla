------------------------------ MODULE Dashboards ------------------------------
(***************************************************************************)
(* The dashboards of a list and of a task in a class: getDashboardData of  *)
(* class-task-list.service.ts and class-task.service.ts and of their       *)
(* repositories.  One call is followed from its arrival to its answer; it  *)
(* reads its rows in several awaits, without a transaction, while other    *)
(* requests change them.  Nothing is awaited after the last read, so the   *)
(* figures are computed in the step of that read.                          *)
(*                                                                         *)
(* Scores are in hundredths of a point, exact where the code has floats,   *)
(* and weights in tenths.  Submissions are kept by submittedAt, which      *)
(* their clients choose: no two carry the same.                            *)
(***************************************************************************)
EXTENDS Integers, Sequences, FiniteSets, Functions, FiniteSetsExt

CONSTANTS
  Students,
  Links,       \* the ClassTask rows of the class
  Entries,     \* the ClassTaskList rows the list may have
  LinkOf,      \* LinkOf[e]: the link of entry e
  Weight,      \* Weight[e]: the weight of entry e, in tenths
  Batch,       \* Batch[e]: its createdAt, one value for the rows of a createMany
  Times,       \* bound: the instants submissions may carry
  MaxSubs,     \* bound: how many submissions there are before the call
  MaxMoves,    \* bound: how many other requests are served during the call
  None         \* no submission, a reference set to null

ASSUME RowsAssumption ==
  /\ LinkOf \in [Entries -> Links] /\ Batch \in [Entries -> Nat]
  /\ Links \cap Entries = {} /\ Students \cap (Links \cup Entries) = {}
  /\ Times \subseteq Nat /\ MaxSubs \in Nat /\ MaxMoves \in Nat
ASSUME FinitenessAssumption ==
  IsFiniteSet(Students) /\ IsFiniteSet(Entries) /\ IsFiniteSet(Times)
\* min(0.1) of create-class-task-list.dto.ts and create-list.dto.ts
ASSUME WeightAssumption == Weight \in [Entries -> Nat \ {0}]

VARIABLES
  open,        \* the class and its list are there
  members,     \* the ClassStudent rows of the class
  rows,        \* the links and entries that are there
  subs,        \* subs[t]: the submission with submittedAt = t, or None
  moves,       \* bound: how many other requests may still be served
  call,        \* the call: the await it is at and what it has read
  answer,      \* what it was answered with, <<>> before that
  past         \* history: what the call could have seen, see Remember

vars == <<open, members, rows, subs, moves, call, answer, past>>

Submission ==
  [student : Students, to : Links \cup Entries \cup {None},
   isCorrect : BOOLEAN, commented : BOOLEAN]

ASSUME NoneAssumption == None \notin Links \cup Entries \cup Submission

Stored == {t \in Times : subs[t] # None}

\* What the dashboard called op is about.
Columns(op) == IF op = "list" THEN Entries ELSE Links

-------------------------------------------------------------------------------
(* What both repositories compute from the rows they have read.  found is  *)
(* the findMany of the submissions, the newest first; a group is the set   *)
(* of the places in found of its rows, which are in the order of found.    *)

\* Mutant: the key of submissionsByCell is the student alone.
GroupByStudent(found, x, u) == {p \in DOMAIN found : found[p].student = u}

\* submissionsByCell, submissionsByStudent: the group of column x and student u.
Group(found, x, u) ==
  {p \in DOMAIN found : found[p].to = x /\ found[p].student = u}

Status(found, group) ==
  IF group = {} THEN "NOT_SUBMITTED"
  ELSE IF found[Min(group)].isCorrect THEN "CORRECT" ELSE "INCORRECT"

\* A rate is a fraction, 0 when there is nothing to divide by.
Rate(n, d) == IF d = 0 THEN <<0, 1>> ELSE <<n, d>>

Lower(p, q) == p[1] * q[2] < q[1] * p[2]

\* Math.round(n / d) of what is not negative: halves go up.
Rounded(n, d) == (2 * n + d) \div (2 * d)

\* The columns of the list, in the order they were read.
ListColumns(order, students, found) ==
  [i \in 1..Len(order) |->
     LET status(u) == Status(found, Group(found, order[i], u))
         submitted == {u \in students : status(u) # "NOT_SUBMITTED"}
         correct   == {u \in students : status(u) = "CORRECT"}
     IN  [entry |-> order[i], weight |-> Weight[order[i]],
          submittedCount |-> Cardinality(submitted),
          correctCount   |-> Cardinality(correct),
          accuracyRate   |-> Rate(Cardinality(correct), Cardinality(submitted))]]

\* The row of student u, given the columns as ListColumns returns them.
ListRow(columns, found, u) ==
  LET group(i) == Group(found, columns[i].entry, u)
      cells    == [i \in 1..Len(columns) |-> Status(found, group(i))]
      weight   == [i \in 1..Len(columns) |-> columns[i].weight]
      total    == SumFunction(weight)
      earned   == SumFunctionOnSet(weight,
                    {i \in 1..Len(columns) : cells[i] = "CORRECT"})
  IN  [cells |-> cells,
       score |-> IF total = 0 THEN 0 ELSE Rounded(10000 * earned, total),
       submittedTasks |->
         Cardinality({i \in 1..Len(columns) : cells[i] # "NOT_SUBMITTED"}),
       submissionsCount |->
         SumFunction([i \in 1..Len(columns) |-> Cardinality(group(i))])]

\* reduce: the first of the columns with the lowest rate, 0 without submissions.
Hardest(columns) ==
  LET Better(i, best) ==
        /\ columns[i].submittedCount > 0
        /\ best # 0 => Lower(columns[i].accuracyRate, columns[best].accuracyRate)
      best[i \in 0..Len(columns)] ==
        IF i = 0 THEN 0 ELSE IF Better(i, best[i - 1]) THEN i ELSE best[i - 1]
  IN  best[Len(columns)]

\* Mutant: students count as complete by their submissions, not their tasks.
CompletedByCount(columns, row, students) ==
  {u \in students : Len(columns) > 0 /\ row[u].submissionsCount >= Len(columns)}

Completed(columns, row, students) ==
  {u \in students : Len(columns) > 0 /\ row[u].submittedTasks = Len(columns)}

ListDashboard(order, students, found) ==
  LET columns == ListColumns(order, students, found)
      row     == [u \in students |-> ListRow(columns, found, u)]
      n       == Cardinality(students)
  IN  [columns |-> columns, row |-> row,
       averageScore |->
         IF n = 0 THEN 0
         ELSE Rounded(SumFunction([u \in students |-> row[u].score]), n),
       completionRate |-> Rate(Cardinality(Completed(columns, row, students)), n),
       studentsWithoutSubmission |->
         Cardinality({u \in students : row[u].submissionsCount = 0}),
       hardestTask |-> Hardest(columns)]

\* Mutant: feedback is pending while any submission of the student has none.
PendingAny(found, group) == \E p \in group : ~found[p].commented

\* hasPendingFeedback: the last submission has no comments.
Pending(found, group) == group # {} /\ ~found[Min(group)].commented

TaskDashboard(link, students, found) ==
  LET group(u)  == Group(found, link, u)
      submitted == {u \in students : group(u) # {}}
      correct   == {u \in students : Status(found, group(u)) = "CORRECT"}
      n         == Cardinality(students)
  IN  [status |-> [u \in students |-> Status(found, group(u))],
       submissionsCount |-> [u \in students |-> Cardinality(group(u))],
       hasPendingFeedback |-> [u \in students |-> Pending(found, group(u))],
       studentsWithSubmission |-> Cardinality(submitted),
       studentsWithoutSubmission |-> n - Cardinality(submitted),
       studentsCorrect |-> Cardinality(correct),
       deliveryRate |-> Rate(Cardinality(submitted), n),
       accuracyRate |-> Rate(Cardinality(correct), Cardinality(submitted)),
       pendingFeedbackCount |->
         Cardinality({u \in students : Pending(found, group(u))})]

-------------------------------------------------------------------------------
(* GET of a dashboard *)

Here == members \cup rows

\* History: the submissions at the start, what was there all along, and ever.
Remember ==
  past' = [past EXCEPT !.always = @ \cap Here', !.ever = @ \cup Here']

Call ==
  [op : {"list", "task"},
   at : {"load", "columns", "members", "submissions", "shown", "refused"},
   order : Seq(Links \cup Entries), students : SUBSET Students]

\* Types, and the foreign keys of entries and submissions.
TypeOK ==
  /\ open \in BOOLEAN /\ members \subseteq Students /\ rows \subseteq Links \cup Entries
  /\ subs \in [Times -> Submission \cup {None}]
  /\ \A e \in rows \cap Entries : LinkOf[e] \in rows
  /\ \A t \in Stored : subs[t].to \in rows \cup {None}
  /\ moves \in 0..MaxMoves
  /\ call \in Call /\ call.order \in Seq(Columns(call.op))
  /\ call.at = "shown" <=> answer # <<>>
  /\ past \in [subs : [Times -> Submission \cup {None}],
               always : SUBSET past.ever, ever : SUBSET (Students \cup Links \cup Entries)]

\* Anybody with an account may have submitted; feedback shows on a link only.
Init ==
  /\ open = TRUE
  /\ members \in SUBSET Students
  /\ \E es \in SUBSET Entries : rows = Links \cup es
  /\ \E op \in {"list", "task"} :
       call = [op |-> op, at |-> "load", order |-> <<>>, students |-> {}]
  /\ answer = <<>>
  /\ subs \in [Times -> {None} \cup
                 {s \in Submission : /\ s.to \in rows \cap Columns(call.op)
                                     /\ s.commented => s.to \in Links}]
  /\ Cardinality(Stored) <= MaxSubs
  /\ moves = MaxMoves
  /\ past = [subs |-> subs, always |-> Here, ever |-> Here]

Handling(at) == call.at = at /\ UNCHANGED <<open, members, rows, subs, moves, past>>

Continue(at) == call' = [call EXCEPT !.at = at] /\ UNCHANGED answer

\* 404 without the class or the list, 403 for who neither owns it nor is ADMIN.
Load ==
  /\ Handling("load")
  /\ \/ open /\ Continue("columns")
     \/ Continue("refused")

\* The entries by createdAt; PostgreSQL orders those of one batch as it likes.
ReadColumns ==
  /\ Handling("columns") /\ call.op = "list"
  /\ \E order \in Bijection(1..Cardinality(rows \cap Entries), rows \cap Entries) :
       /\ \A i, j \in DOMAIN order : i < j => Batch[order[i]] <= Batch[order[j]]
       /\ call' = [call EXCEPT !.at = "members", !.order = order]
  /\ UNCHANGED answer

\* getByIds: findFirst of the links of the task, 404 without one.
FindLink ==
  /\ Handling("columns") /\ call.op = "task"
  /\ \/ rows \cap Links = {} /\ Continue("refused")
     \/ \E l \in rows \cap Links :
          /\ call' = [call EXCEPT !.at = "members", !.order = <<l>>]
          /\ UNCHANGED answer

ReadMembers ==
  /\ Handling("members")
  /\ call' = [call EXCEPT !.at = "submissions", !.students = members]
  /\ UNCHANGED answer

\* The columns the call has read.
Shows == {call.order[i] : i \in 1..Len(call.order)}

\* where: the submissions to the columns by the students that were read.
Found == {t \in Stored : subs[t].to \in Shows /\ subs[t].student \in call.students}

\* Mutant: orderBy submittedAt ascending.
NewestLast(order) == \A p, q \in DOMAIN order : p < q => order[p] < order[q]

\* orderBy submittedAt, descending.
NewestFirst(order) == \A p, q \in DOMAIN order : p < q => order[p] > order[q]

\* The last await, findMany; the figures are computed and returned without another.
ReadSubmissions ==
  /\ Handling("submissions")
  /\ call' = [call EXCEPT !.at = "shown"]
  /\ \E order \in Bijection(1..Cardinality(Found), Found) :
       LET found == [p \in DOMAIN order |-> subs[order[p]]] IN
       /\ NewestFirst(order)
       /\ answer' = IF call.op = "list"
                    THEN ListDashboard(call.order, call.students, found)
                    ELSE TaskDashboard(call.order[1], call.students, found)

-------------------------------------------------------------------------------
(* The other requests, as far as the dashboards see them. *)

\* What they change before the call has begun makes another initial state.
Elsewhere ==
  /\ call.at \in {"columns", "members", "submissions"} /\ moves > 0
  /\ moves' = moves - 1
  /\ UNCHANGED <<call, answer>>

\* Deletion with its cascade: onDelete: SetNull in the submissions.
Drop(gone) ==
  /\ rows' = rows \ gone
  /\ subs' = [t \in Times |-> IF t \in Stored /\ subs[t].to \in gone
                              THEN [subs[t] EXCEPT !.to = None] ELSE subs[t]]

Enrol(u) ==
  /\ Elsewhere /\ open
  /\ members' = members \cup {u}
  /\ UNCHANGED <<open, rows, subs>> /\ Remember

Leave(u) ==
  /\ Elsewhere
  /\ members' = members \ {u}
  /\ UNCHANGED <<open, rows, subs>> /\ Remember

AddEntry(e) ==
  /\ Elsewhere /\ open /\ LinkOf[e] \in rows
  /\ rows' = rows \cup {e}
  /\ UNCHANGED <<open, members, subs>> /\ Remember

RemoveEntry(e) ==
  /\ Elsewhere
  /\ Drop({e})
  /\ UNCHANGED <<open, members>> /\ Remember

\* Mutant: the entries of the link stay in the list.
RemoveLinkShallow(l) ==
  /\ Elsewhere
  /\ Drop({l})
  /\ UNCHANGED <<open, members>> /\ Remember

RemoveLink(l) ==
  /\ Elsewhere
  /\ Drop({l} \cup {e \in Entries : LinkOf[e] = l})
  /\ UNCHANGED <<open, members>> /\ Remember

DeleteClass ==
  /\ Elsewhere
  /\ open' = FALSE /\ members' = {}
  /\ Drop(Links \cup Entries) /\ Remember

\* POST /submission asks for no membership and takes submittedAt from the client.
Submit(u, x, t, correct) ==
  /\ Elsewhere /\ t \notin Stored /\ x \in rows \cap Columns(call.op)
  /\ subs' = [subs EXCEPT ![t] =
       [student |-> u, to |-> x, isCorrect |-> correct, commented |-> FALSE]]
  /\ UNCHANGED <<open, members, rows>> /\ Remember

SendFeedback(t) ==
  /\ Elsewhere /\ t \in Stored /\ subs[t].to \in Links
  /\ subs' = [subs EXCEPT ![t].commented = TRUE]
  /\ UNCHANGED <<open, members, rows>> /\ Remember

Next ==
  \/ Load \/ ReadColumns \/ FindLink \/ ReadMembers \/ ReadSubmissions
  \/ \E u \in Students : Enrol(u) \/ Leave(u)
  \/ \E e \in Entries : AddEntry(e) \/ RemoveEntry(e)
  \/ \E l \in Links : RemoveLink(l)
  \/ DeleteClass
  \/ \E u \in Students, x \in Links \cup Entries, t \in Times, correct \in BOOLEAN :
       Submit(u, x, t, correct)
  \/ \E t \in Times : SendFeedback(t)

Spec == Init /\ [][Next]_vars

-------------------------------------------------------------------------------
(* Properties of the answer *)

Shown(op) == call.op = op /\ call.at = "shown"

\* The verdict the answer shows for student u in the i-th column.
Cell(i, u) == IF call.op = "list" THEN answer.row[u].cells[i] ELSE answer.status[u]

\* The submissions of u to x among those of f, by their instants.
SubmittedBy(f, x, u) == {t \in Times : f[t] # None /\ f[t].student = u /\ f[t].to = x}

\* A cell of either dashboard shows the verdict of the newest submission there is
\* for it at the last read, by submittedAt and not by arrival, and nothing when
\* there is none: rows of other students, of other columns and of students who are
\* not in the class leave no mark (orderBy, the two where clauses, the groups).
CellsShowLatest ==
  call.at = "shown" =>
    \A i \in 1..Len(call.order), u \in call.students :
      LET mine == SubmittedBy(subs, call.order[i], u) IN
      Cell(i, u) = IF mine = {} THEN "NOT_SUBMITTED"
                   ELSE IF \E t \in mine : subs[t].isCorrect /\ \A o \in mine : o <= t
                   THEN "CORRECT" ELSE "INCORRECT"

Cells(status) ==
  {c \in (1..Len(call.order)) \X call.students : Cell(c[1], c[2]) = status}

\* Both loops of the list count the same cells, one by column, one by student.
CellsCountedAlike ==
  LET columns == answer.columns IN
  /\ SumFunction([i \in DOMAIN columns |-> columns[i].correctCount])
       = Cardinality(Cells("CORRECT"))
  /\ SumFunction([i \in DOMAIN columns |-> columns[i].submittedCount])
       = Cardinality(Cells("CORRECT") \cup Cells("INCORRECT"))

\* Who has completed the list has submitted to each of its tasks.
CompletedTriedAll ==
  /\ call.students # {} =>
       answer.completionRate[1] =
         Cardinality({u \in call.students : call.order # <<>> /\
           \A i \in 1..Len(call.order) : Cell(i, u) # "NOT_SUBMITTED"})
  /\ answer.studentsWithoutSubmission + answer.completionRate[1]
       <= Cardinality(call.students)

\* The hardest task is the first of those with the lowest rate, if any was tried.
HardestIsFirstLowest ==
  LET columns == answer.columns
      tried   == {i \in DOMAIN columns : columns[i].submittedCount > 0}
      rate(i) == columns[i].accuracyRate
      hardest == answer.hardestTask
  IN
  /\ hardest \in IF tried = {} THEN {0} ELSE tried
  /\ \A i \in tried : /\ ~Lower(rate(i), rate(hardest))
                      /\ i < hardest => Lower(rate(hardest), rate(i))

\* A score is full or zero only for who has all or nothing right, by weight, but
\* for what two decimals cannot tell.
IsShare(score, right, wrong) ==
  /\ score \in 0..10000
  /\ score = 10000 <=> call.order # <<>> /\ 20000 * wrong <= right + wrong
  /\ score = 0 <=> call.order = <<>> \/ 20000 * right < right + wrong

ScoresAreShares ==
  \A u \in call.students :
    LET I      == 1..Len(call.order)
        weight == [i \in I |-> Weight[call.order[i]]]
        right  == {i \in I : Cell(i, u) = "CORRECT"}
    IN  IsShare(answer.row[u].score,
                SumFunctionOnSet(weight, right), SumFunctionOnSet(weight, I \ right))

AverageIsBetween ==
  call.students # {} =>
    /\ \E u \in call.students : answer.row[u].score <= answer.averageScore
    /\ \E u \in call.students : answer.row[u].score >= answer.averageScore

\* The figures of the list, computed by column and by student in two loops, agree
\* with its cells and with each other, and the average lies between the scores.
ListFiguresAgree ==
  Shown("list") =>
    /\ CellsCountedAlike /\ CompletedTriedAll
    /\ HardestIsFirstLowest
    /\ ScoresAreShares /\ AverageIsBetween

\* The figures of a task agree with its rows: every student is with or without a
\* submission; who still waits for feedback is who has no comment on the newest of
\* his submissions, however many older ones lack it; and no rate exceeds one.
TaskFiguresAgree ==
  Shown("task") =>
    LET mine(u) == SubmittedBy(subs, call.order[1], u)
        waiting == {u \in call.students :
                      \E t \in mine(u) : ~subs[t].commented /\ \A o \in mine(u) : o <= t}
    IN
    /\ answer.studentsWithSubmission = Cardinality({u \in call.students : mine(u) # {}})
    /\ answer.studentsWithSubmission + answer.studentsWithoutSubmission
         = Cardinality(call.students)
    /\ answer.pendingFeedbackCount = Cardinality(waiting)
    /\ \A u \in call.students : answer.submissionsCount[u] = Cardinality(mine(u))
    /\ answer.studentsCorrect = Cardinality(Cells("CORRECT"))
    /\ answer.deliveryRate[1] <= answer.deliveryRate[2]
    /\ answer.accuracyRate[1] <= answer.accuracyRate[2]

\* The reads are not one snapshot, but the answer stays within its call: it shows
\* every student and column that was there all along, and none that never was; and
\* a student who was there all along, and had submitted to a column that was, is
\* not shown as one who has not (a removed column loses its submissions before its
\* own row is read again, a student who leaves keeps his).
ShownWithinCall ==
  call.at = "shown" =>
    /\ call.students \cup Shows \subseteq past.ever
    /\ past.always \cap Students \subseteq call.students
    /\ call.op = "list" => past.always \cap Entries \subseteq Shows
    /\ \A i \in 1..Len(call.order), u \in call.students :
         /\ u \in past.always /\ call.order[i] \in past.always
              /\ SubmittedBy(past.subs, call.order[i], u) # {}
            => Cell(i, u) # "NOT_SUBMITTED"
         /\ Cell(i, u) # "NOT_SUBMITTED"
            => SubmittedBy(subs, call.order[i], u) # {}
===============================================================================
