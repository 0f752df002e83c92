----------------------------- MODULE Submissions -----------------------------
(***************************************************************************)
(* Submissions, the limit of a list, and the deletions that run against    *)
(* them: submission.service.ts, task.service.ts (delete) and the foreign   *)
(* keys of schema.prisma.  A submission is answered in up to three awaits  *)
(* (read the entry, count, insert), the deletion of a task in three (read  *)
(* the task, count, transaction); any other call may run between two of    *)
(* them.  The rows are those that exist when the observation starts: ids   *)
(* are fresh uuids, so a row created later meets none of these calls.      *)
(***************************************************************************)
EXTENDS Naturals, Sequences, FiniteSets

CONSTANTS
  Students,
  Tasks,
  Links,        \* the ClassTask rows
  Lists,        \* the List rows
  Entries,      \* the ClassTaskList rows
  TaskOf,       \* TaskOf[l]: the task of link l
  LinkOf,       \* LinkOf[e]: the link of entry e
  ListOf,       \* ListOf[e]: the list of entry e
  LegacyLists,  \* lists of before the default: their submissionLimit is null
  MaxLimit,     \* bound: the largest submissionLimit anybody sets
  NoLimit,      \* the null submissionLimit
  Slots,        \* the submissions being served at the same time
  Deleters,     \* the task deletions being served at the same time
  None,         \* an idle slot, and a reference set to null
  MaxSubs       \* bound: no submission starts when this many are stored

Limits  == 1..MaxLimit
Targets == Tasks \cup Links \cup Entries

ASSUME RowsAssumption ==
  /\ TaskOf \in [Links -> Tasks] /\ LinkOf \in [Entries -> Links]
  /\ ListOf \in [Entries -> Lists] /\ LegacyLists \subseteq Lists
  /\ None \notin Targets
ASSUME DisjointAssumption ==
  /\ Tasks \cap Links = {} /\ Tasks \cap Entries = {} /\ Links \cap Entries = {}
  /\ Lists \cap (Tasks \cup Links \cup Entries) = {}
ASSUME BoundsAssumption ==
  MaxLimit \in Nat \ {0} /\ MaxSubs \in Nat /\ NoLimit \notin Limits
ASSUME SlotsAssumption == IsFiniteSet(Slots)

VARIABLES
  task,       \* task[t]: "live", "soft" (deletedAt is set) or "gone" (no row)
  rows,       \* the ClassTask, List and ClassTaskList rows that are there
  limit,      \* limit[ls]: List.submissionLimit
  subs,       \* the Submission rows, in the order they were inserted
  trail,      \* trail[t]: the task.deleted events, "soft" or "removed"
  submit,     \* submit[k]: the submission slot k is serving
  deletion    \* deletion[d]: the deletion slot d is serving

vars == <<task, rows, limit, subs, trail, submit, deletion>>

\* One of taskId, classTaskId and classTaskListId is filled: the target.
Submission == [student : Students, to : Targets \cup {None}]

SubmitCalls ==
  [student : Students, to : Targets, at : {"entry", "count", "insert"},
   limit : Limits \cup {NoLimit}]

\* seen is a history variable: how many submissions there were at the count.
DeleteCalls ==
  [task : Tasks, at : {"task", "count", "write"}, soft : BOOLEAN, seen : Nat]

Present(x) == IF x \in Tasks THEN task[x] # "gone" ELSE x \in rows

\* The submissions of s to x, by their places in subs.
Stored(s, x) == {i \in 1..Len(subs) : subs[i].student = s /\ subs[i].to = x}

Count(s, x) == Cardinality(Stored(s, x))

\* Mutant: deleting a link leaves the entries of its lists.
CascadeShallow(x) == {x} \cup {l \in Links : x \in Tasks /\ TaskOf[l] = x}

\* What onDelete: Cascade deletes along with the row x.
Cascade(x) ==
  LET ls == {l \in Links : l = x \/ TaskOf[l] = x}
  IN  {x} \cup ls \cup {e \in Entries : LinkOf[e] \in ls \/ ListOf[e] = x}

\* The delete of x: cascade, and onDelete: SetNull in the submissions.
Drop(x) ==
  /\ rows' = rows \ Cascade(x)
  /\ subs' = [i \in 1..Len(subs) |->
                IF subs[i].to \in Cascade(x) THEN [subs[i] EXCEPT !.to = None]
                                             ELSE subs[i]]

Init ==
  /\ task = [t \in Tasks |-> "live"]
  /\ rows = Links \cup Lists \cup Entries
  /\ limit \in [Lists -> Limits \cup {NoLimit}]
  /\ \A ls \in Lists : limit[ls] = NoLimit <=> ls \in LegacyLists
  /\ subs = <<>>
  /\ trail = [t \in Tasks |-> <<>>]
  /\ submit = [k \in Slots |-> None]
  /\ deletion = [d \in Deleters |-> None]

-------------------------------------------------------------------------------
(* POST /submission *)

Submitting(k, at) == submit[k] # None /\ submit[k].at = at

EndSubmit(k) == submit' = [submit EXCEPT ![k] = None]

BeginSubmit(k, s, x) ==
  /\ submit[k] = None
  /\ Len(subs) + Cardinality({j \in Slots : submit[j] # None}) < MaxSubs
  /\ submit' = [submit EXCEPT ![k] =
       [student |-> s, to |-> x, limit |-> NoLimit,
        at |-> IF x \in Entries THEN "entry" ELSE "insert"]]
  /\ UNCHANGED <<task, rows, limit, subs, trail, deletion>>

\* ensureListSubmissionAllowed: 404 without the entry, no count without a limit.
ReadEntry(k) ==
  /\ Submitting(k, "entry")
  /\ LET lim == limit[ListOf[submit[k].to]] IN
     IF submit[k].to \notin rows
     THEN EndSubmit(k)
     ELSE submit' = [submit EXCEPT ![k].limit = lim,
            ![k].at = IF lim = NoLimit THEN "insert" ELSE "count"]
  /\ UNCHANGED <<task, rows, limit, subs, trail, deletion>>

\* Mutant: the count is compared with > instead of >=.
CountSubmissionsOffByOne(k) ==
  /\ Submitting(k, "count")
  /\ IF Count(submit[k].student, submit[k].to) > submit[k].limit
     THEN EndSubmit(k)
     ELSE submit' = [submit EXCEPT ![k].at = "insert"]
  /\ UNCHANGED <<task, rows, limit, subs, trail, deletion>>

\* 400 when the student has reached the limit that was read with the entry.
CountSubmissions(k) ==
  /\ Submitting(k, "count")
  /\ IF Count(submit[k].student, submit[k].to) >= submit[k].limit
     THEN EndSubmit(k)
     ELSE submit' = [submit EXCEPT ![k].at = "insert"]
  /\ UNCHANGED <<task, rows, limit, subs, trail, deletion>>

\* The foreign key refuses a target whose row is gone; deletedAt is not read.
Insert(k) ==
  /\ Submitting(k, "insert")
  /\ subs' = IF Present(submit[k].to)
             THEN Append(subs, [student |-> submit[k].student, to |-> submit[k].to])
             ELSE subs
  /\ EndSubmit(k)
  /\ UNCHANGED <<task, rows, limit, trail, deletion>>

\* The call ends early: the process or the connection dies.
FailSubmit(k) ==
  /\ submit[k] # None
  /\ EndSubmit(k)
  /\ UNCHANGED <<task, rows, limit, subs, trail, deletion>>

-------------------------------------------------------------------------------
(* DELETE /task/:id, called by the creator or an ADMIN *)

Deleting(d, at) == deletion[d] # None /\ deletion[d].at = at

EndDelete(d) == deletion' = [deletion EXCEPT ![d] = None]

BeginDelete(d, t) ==
  /\ deletion[d] = None
  /\ deletion' = [deletion EXCEPT ![d] =
       [task |-> t, at |-> "task", soft |-> FALSE, seen |-> 0]]
  /\ UNCHANGED <<task, rows, limit, subs, trail, submit>>

\* taskRepository.getById finds no deleted task: 404.
ReadTask(d) ==
  /\ Deleting(d, "task")
  /\ IF task[deletion[d].task] = "live"
     THEN deletion' = [deletion EXCEPT ![d].at = "count"]
     ELSE EndDelete(d)
  /\ UNCHANGED <<task, rows, limit, subs, trail, submit>>

\* Mutant: a task with a single submission is deleted for good.
CountTaskSubmissionsOffByOne(d) ==
  /\ Deleting(d, "count")
  /\ deletion' = [deletion EXCEPT ![d].at = "write", ![d].seen = Len(subs),
       ![d].soft = Cardinality({i \in 1..Len(subs) : subs[i].to = deletion[d].task}) > 1]
  /\ UNCHANGED <<task, rows, limit, subs, trail, submit>>

\* getSubmissionCount counts the submissions that name the task itself.
CountTaskSubmissions(d) ==
  /\ Deleting(d, "count")
  /\ deletion' = [deletion EXCEPT ![d].at = "write", ![d].seen = Len(subs),
       ![d].soft = \E i \in 1..Len(subs) : subs[i].to = deletion[d].task]
  /\ UNCHANGED <<task, rows, limit, subs, trail, submit>>

Record(t, event) == trail' = [trail EXCEPT ![t] = Append(@, event)]

\* The transaction that sets deletedAt and records the event.
SoftDelete(d) ==
  LET t == deletion[d].task IN
  /\ Deleting(d, "write") /\ deletion[d].soft
  /\ task[t] # "gone"
  /\ task' = [task EXCEPT ![t] = "soft"]
  /\ Record(t, "soft")
  /\ EndDelete(d)
  /\ UNCHANGED <<rows, limit, subs, submit>>

\* Mutant: the event is recorded outside the transaction of the delete.
HardDeleteRecordedFirst(d) ==
  LET t == deletion[d].task IN
  /\ Deleting(d, "write") /\ ~deletion[d].soft
  /\ Record(t, "removed")
  /\ task' = [task EXCEPT ![t] = "gone"]
  /\ Drop(t)
  /\ EndDelete(d)
  /\ UNCHANGED <<limit, submit>>

\* The transaction that records the event and deletes the row.
HardDelete(d) ==
  LET t == deletion[d].task IN
  /\ Deleting(d, "write") /\ ~deletion[d].soft
  /\ task[t] # "gone"
  /\ task' = [task EXCEPT ![t] = "gone"]
  /\ Drop(t)
  /\ Record(t, "removed")
  /\ EndDelete(d)
  /\ UNCHANGED <<limit, submit>>

\* The row is gone by then (P2025, the transaction rolls back), or the call dies.
FailDelete(d) ==
  /\ deletion[d] # None
  /\ EndDelete(d)
  /\ UNCHANGED <<task, rows, limit, subs, trail, submit>>

-------------------------------------------------------------------------------
(* Calls that reach these rows with one statement, after their own checks. *)

\* Deleting a link, a list or an entry.
RemoveRow(x) ==
  /\ x \in rows
  /\ Drop(x)
  /\ UNCHANGED <<task, limit, trail, submit, deletion>>

\* Mutant: the DTO lets a limit of zero through.
SetLimitUnvalidated(ls, n) ==
  /\ ls \in rows
  /\ limit' = [limit EXCEPT ![ls] = n - 1]
  /\ UNCHANGED <<task, rows, subs, trail, submit, deletion>>

\* PUT /list/:id with a submissionLimit, at least 1 (zod); null is not accepted.
SetLimit(ls, n) ==
  /\ ls \in rows
  /\ limit' = [limit EXCEPT ![ls] = n]
  /\ UNCHANGED <<task, rows, subs, trail, submit, deletion>>

-------------------------------------------------------------------------------
SubmitStep(k) ==
  \/ \E s \in Students, x \in Targets : BeginSubmit(k, s, x)
  \/ ReadEntry(k) \/ CountSubmissions(k) \/ Insert(k) \/ FailSubmit(k)

DeleteStep(d) ==
  \/ \E t \in Tasks : BeginDelete(d, t)
  \/ ReadTask(d) \/ CountTaskSubmissions(d)
  \/ SoftDelete(d) \/ HardDelete(d) \/ FailDelete(d)

Next ==
  \/ \E k \in Slots : SubmitStep(k)
  \/ \E d \in Deleters : DeleteStep(d)
  \/ \E x \in Links \cup Lists \cup Entries : RemoveRow(x)
  \/ \E ls \in Lists, n \in Limits : SetLimit(ls, n)

Spec == Init /\ [][Next]_vars

-------------------------------------------------------------------------------
\* Type invariant.
TypeOK ==
  /\ task \in [Tasks -> {"live", "soft", "gone"}]
  /\ rows \subseteq Links \cup Lists \cup Entries
  /\ limit \in [Lists -> Limits \cup {NoLimit}]
  /\ subs \in Seq(Submission)
  /\ trail \in [Tasks -> Seq({"soft", "removed"})]
  /\ submit \in [Slots -> SubmitCalls \cup {None}]
  /\ deletion \in [Deleters -> DeleteCalls \cup {None}]

\* No row points at a row that is gone: neither a submission that was being
\* inserted while its target was deleted, nor an entry or a link left behind.
RefsExist ==
  /\ \A i \in 1..Len(subs) : subs[i].to # None => Present(subs[i].to)
  /\ \A e \in Entries \cap rows : LinkOf[e] \in rows /\ ListOf[e] \in rows
  /\ \A l \in Links \cap rows : task[TaskOf[l]] # "gone"

\* The submissions of s to the entry e that have passed the check.
Admitted(s, e) ==
  {k \in Slots : Submitting(k, "insert") /\ submit[k].student = s /\ submit[k].to = e}

\* The count is checked one await before the insert, and nothing locks: the
\* calls in flight may take a student over the limit, by fewer than there are
\* slots, and by nothing when one call is served at a time.
OvershootBounded ==
  \A s \in Students, e \in Entries :
    ListOf[e] \notin LegacyLists =>
      Count(s, e) + Cardinality(Admitted(s, e)) + 1 <= MaxLimit + Cardinality(Slots)

\* A task deleted for good takes the context of a submission to the task itself
\* only when that submission was stored after the deletion counted.
TakesLateOnly ==
  \A d \in Deleters : HardDelete(d) =>
    \A i \in 1..Len(subs) : subs[i].to = deletion[d].task => i > deletion[d].seen

LateSubmissionsOnly == [][TakesLateOnly]_vars

\* The trail tells what became of the task: no event while it is live, a last
\* event "removed" exactly when its row is gone, and nothing after that.
DeletionTrail ==
  \A t \in Tasks :
    LET n == Len(trail[t]) IN
    /\ task[t] = "live" <=> n = 0
    /\ task[t] = "gone" <=> n > 0 /\ trail[t][n] = "removed"
    /\ \A i \in 1..n : trail[t][i] = "removed" => i = n

\* "Se já há submissões, fazemos soft delete para não quebrar o histórico": a
\* submission stored before the deletion counted keeps what it was sent to.
HistoryKept ==
  [][\A d \in Deleters : HardDelete(d) =>
       \A i \in 1..deletion[d].seen : subs'[i].to = subs[i].to]_vars
===============================================================================
