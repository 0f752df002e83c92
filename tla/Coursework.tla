------------------------------ MODULE Coursework ------------------------------
(***************************************************************************)
(* Tasks, the classes they are linked to (ClassTask) and the lists of a    *)
(* class they are put in (List, ClassTaskList): task.service.ts,           *)
(* class-task.service.ts, list.service.ts, class-task-list.service.ts.  A  *)
(* call awaits several statements, and any other call may run between two  *)
(* of them.  Deleting a class or a task is one step here: Enrollment and   *)
(* Submissions have the awaits of these two.                               *)
(***************************************************************************)
EXTENDS Naturals, FiniteSets

CONSTANTS
  Users,        \* the professors and administrators
  Admins,       \* Users of role ADMIN
  Classes,
  Owner,        \* Owner[c]: Class.professorId, never updated
  Tasks,
  Creator,      \* Creator[t]: Task.creatorId, never updated
  LinkIds,      \* bound: the ClassTask rows there are at most
  ListIds,      \* bound: the List rows there are at most
  EntryIds,     \* bound: the ClassTaskList rows there are at most
  Slots,        \* the calls being served at the same time
  Ops,          \* bound: the operations the clients of an instance call
  Patches,      \* bound: the flags the clients of an instance set
  None          \* an idle slot, and a field a call does not use

Flags == {"isVisible", "isPublic"}

ASSUME RowsAssumption ==
  /\ Admins \subseteq Users
  /\ Owner \in [Classes -> Users] /\ Creator \in [Tasks -> Users]
  /\ Patches \subseteq [given : SUBSET Flags, on : SUBSET Flags]
  /\ Classes \cap Tasks = {}
  /\ IsFiniteSet(Tasks) /\ IsFiniteSet(LinkIds) /\ IsFiniteSet(EntryIds)
  /\ None \notin Classes \cup Tasks \cup LinkIds \cup ListIds \cup EntryIds

VARIABLES
  open,       \* the Class rows
  task,       \* task[t]: "unborn", "live", "soft" (deletedAt set) or "gone"
  flags,      \* flags[t]: which of isVisible and isPublic are set
  published,  \* history: the tasks that have been public and visible
  links,      \* the ClassTask rows
  lists,      \* the List rows
  entries,    \* the ClassTaskList rows
  call        \* call[k]: the call slot k is serving

tables == <<open, task, flags, published, links, lists, entries>>
vars == <<tables, call>>

Link  == [id : LinkIds, class : Classes, task : Tasks]
List  == [id : ListIds, class : Classes]
Entry == [id : EntryIds, link : LinkIds, list : ListIds]

Steps == {"insert", "task", "links", "unlink", "classes", "add", "class", "find",
          "delete", "tasks", "list", "inclass", "linkmany", "resolve", "entries",
          "rows", "entry", "write"}

\* want: the classIds or taskIds of the request; todo: those the present step
\* has to do; later: the classes syncTaskClasses adds after its removals;
\* ok: no insert has failed so far (of linkTask, see BeginLinkTask).
Calls ==
  [op : Ops, at : Steps, user : Users, class : Classes \cup {None},
   task : Tasks \cup {None}, sync : BOOLEAN, patch : [given : SUBSET Flags, on : SUBSET Flags],
   want : (SUBSET Classes) \cup (SUBSET Tasks), todo : (SUBSET Classes) \cup (SUBSET Tasks),
   later : SUBSET Classes, ok : BOOLEAN, link : LinkIds \cup {None}, list : ListIds \cup {None},
   entry : EntryIds \cup {None}, picked : SUBSET LinkIds]

Managers(c) == Admins \cup {Owner[c]}

Shared(fs) == fs = Flags

\* canUseTask: a professor uses public and visible tasks and his own.
MayUse(u, t) == u \in Admins \/ Creator[t] = u \/ Shared(flags[t])

LinksOf(c) == {l \in links : l.class = c}
Present(t) == task[t] \in {"live", "soft"}

\* ids are uuids: one that a row or a pending call names is not drawn again.
Serving == {k \in Slots : call[k] # None}
FreeLinks == LinkIds \ ({l.id : l \in links} \cup {call[k].link : k \in Serving}
                        \cup UNION {call[k].picked : k \in Serving})
FreeLists == ListIds \ ({ls.id : ls \in lists} \cup {call[k].list : k \in Serving})
FreeEntries == EntryIds \ ({e.id : e \in entries} \cup {call[k].entry : k \in Serving})

\* Which free id a row gets does not matter: one injection of S into the ids.
Draw(S, ids) ==
  CHOOSE f \in [S -> ids] : \A x, y \in S : f[x] = f[y] => x = y

Init ==
  /\ open = Classes
  /\ task = [t \in Tasks |-> "unborn"]
  /\ flags = [t \in Tasks |-> {}]
  /\ published = {}
  /\ links = {} /\ lists = {} /\ entries = {}
  /\ call = [k \in Slots |-> None]

-------------------------------------------------------------------------------
(* The course of a call. *)

At(k, op, at) == call[k] # None /\ call[k].op = op /\ call[k].at = at

Blank(op, at, u) ==
  [op |-> op, at |-> at, user |-> u, class |-> None, task |-> None,
   sync |-> FALSE, patch |-> [given |-> {}, on |-> {}], want |-> {}, todo |-> {}, later |-> {}, ok |-> TRUE,
   link |-> None, list |-> None, entry |-> None, picked |-> {}]

Start(k, c) ==
  /\ call[k] = None /\ c.op \in Ops
  /\ call' = [call EXCEPT ![k] = c]
  /\ UNCHANGED tables

Finish(k) == call' = [call EXCEPT ![k] = None]
GoTo(k, at) == call' = [call EXCEPT ![k].at = at]
GoWith(k, at, S) == call' = [call EXCEPT ![k].at = at, ![k].todo = S]

\* A check of the handler: on to the next await, or an exception and the end.
Proceed(k, cond, at) == IF cond THEN GoTo(k, at) ELSE Finish(k)

Fail(k) == call[k] # None /\ Finish(k) /\ UNCHANGED tables

-------------------------------------------------------------------------------
(* POST /task *)

BeginCreateTask(k, t, p, want) ==
  /\ p.given = Flags
  /\ \A j \in Serving : ~(call[j].op = "createTask" /\ call[j].task = t)
  /\ task[t] = "unborn"
  /\ Start(k, [Blank("createTask", "insert", Creator[t])
                EXCEPT !.task = t, !.patch = p, !.want = want])

\* A field the body leaves out keeps the value of the row.
SetFlags(t, p) ==
  /\ flags' = [flags EXCEPT ![t] = (@ \ p.given) \cup (p.on \cap p.given)]
  /\ published' = IF Shared(flags'[t]) THEN published \cup {t} ELSE published

InsertTask(k) ==
  /\ At(k, "createTask", "insert")
  /\ task' = [task EXCEPT ![call[k].task] = "live"]
  /\ SetFlags(call[k].task, call[k].patch)
  /\ Proceed(k, call[k].want # {}, "classes")
  /\ UNCHANGED <<open, links, lists, entries>>

\* Of the classes that exist, the ones the user may write to.
Writable(u, cs) == {c \in cs \cap open : u \in Managers(c)}

\* Mutant: the classIds of the body are taken as they are.
OwnClassesAny(k) ==
  /\ At(k, "createTask", "classes")
  /\ IF call[k].want \cap open = {} THEN Finish(k)
                                   ELSE GoWith(k, "add", call[k].want \cap open)
  /\ UNCHANGED tables

\* Classes of others are left out without an error.
OwnClasses(k) ==
  /\ At(k, "createTask", "classes")
  /\ LET cs == Writable(call[k].user, call[k].want)
     IN  IF cs = {} THEN Finish(k) ELSE GoWith(k, "add", cs)
  /\ UNCHANGED tables

\* One insert of Promise.all: when one fails the others are not called off,
\* but what follows the Promise.all does not run.
AddLink(k, c) ==
  /\ call[k] # None /\ call[k].at = "add" /\ c \in call[k].todo
  /\ LET fits == c \in open /\ Present(call[k].task)
         ok   == call[k].ok /\ fits
         rest == call[k].todo \ {c}
     IN  /\ fits => FreeLinks # {}
         /\ links' = IF fits
                     THEN links \cup {[id |-> CHOOSE i \in FreeLinks : TRUE,
                                       class |-> c, task |-> call[k].task]}
                     ELSE links
         /\ CASE rest # {} ->
                   call' = [call EXCEPT ![k].todo = rest, ![k].ok = ok]
              [] rest = {} /\ ok /\ call[k].op = "updateTask" -> GoWith(k, "write", {})
              [] OTHER -> Finish(k)
  /\ UNCHANGED <<open, task, flags, published, lists, entries>>

-------------------------------------------------------------------------------
(* PUT /task/:id *)

BeginUpdateTask(k, u, t, p, sync, want) ==
  /\ task[t] # "unborn" /\ (~sync => want = {})
  /\ Start(k, [Blank("updateTask", "task", u)
                EXCEPT !.task = t, !.patch = p, !.sync = sync, !.want = want])

\* Mutant: the task of somebody else will do.
ReadTaskAny(k) ==
  /\ At(k, "updateTask", "task")
  /\ LET c == call[k]
     IN  Proceed(k, task[c.task] = "live", IF c.sync THEN "links" ELSE "write")
  /\ UNCHANGED tables

\* 404 when the task is deleted, 403 when it is somebody else's.
ReadTask(k) ==
  /\ At(k, "updateTask", "task")
  /\ LET c == call[k]
     IN  Proceed(k, task[c.task] = "live" /\ c.user \in Admins \cup {Creator[c.task]},
                 IF c.sync THEN "links" ELSE "write")
  /\ UNCHANGED tables

\* syncTaskClasses: what is linked and not wanted is removed first, then what
\* was wanted and not linked is added.
ReadLinks(k) ==
  /\ At(k, "updateTask", "links")
  /\ LET have == {l.class : l \in {m \in links : m.task = call[k].task}}
         drop == have \ call[k].want
         add  == call[k].want \ have
     IN  call' = [call EXCEPT ![k].todo = drop, ![k].later = add,
           ![k].at = CASE drop # {} -> "unlink"
                       [] drop = {} /\ add # {} -> "classes"
                       [] OTHER -> "write"]
  /\ UNCHANGED tables

\* The rows gone from links take the entries of their lists with them.
Remove(gone) ==
  /\ links' = links \ gone
  /\ entries' = {e \in entries : ~\E l \in gone : l.id = e.link}

\* Mutant: one row is deleted, as when (classId, taskId) was the primary key.
UnlinkOne(k, c) ==
  /\ At(k, "updateTask", "unlink") /\ c \in call[k].todo
  /\ \E l \in links \cup {None} :
       /\ IF \E m \in links : m.class = c /\ m.task = call[k].task
          THEN l # None /\ l.class = c /\ l.task = call[k].task
          ELSE l = None
       /\ Remove({l} \ {None})
  /\ IF call[k].todo # {c} THEN GoWith(k, "unlink", call[k].todo \ {c})
     ELSE GoWith(k, IF call[k].later = {} THEN "write" ELSE "classes", {})
  /\ UNCHANGED <<open, task, flags, published, lists>>

\* One deleteMany of Promise.all, before any class has been looked at.
Unlink(k, c) ==
  /\ At(k, "updateTask", "unlink") /\ c \in call[k].todo
  /\ Remove({l \in links : l.class = c /\ l.task = call[k].task})
  /\ IF call[k].todo # {c} THEN GoWith(k, "unlink", call[k].todo \ {c})
     ELSE GoWith(k, IF call[k].later = {} THEN "write" ELSE "classes", {})
  /\ UNCHANGED <<open, task, flags, published, lists>>

\* 403 as soon as one class is missing or somebody else's.
AllClasses(k) ==
  /\ At(k, "updateTask", "classes")
  /\ IF call[k].later = Writable(call[k].user, call[k].later)
     THEN GoWith(k, "add", call[k].later) ELSE Finish(k)
  /\ UNCHANGED tables

\* The update is by taskId alone: it also reaches a task deleted meanwhile.
UpdateTask(k) ==
  /\ At(k, "updateTask", "write")
  /\ IF Present(call[k].task) THEN SetFlags(call[k].task, call[k].patch)
     ELSE UNCHANGED <<flags, published>>
  /\ Finish(k)
  /\ UNCHANGED <<open, task, links, lists, entries>>

-------------------------------------------------------------------------------
(* POST /class-task and DELETE /class-task/:classId/:taskId *)

\* Mutant: what is linked already is offered again.
OfferedAnyway(u, c) == {t \in Tasks : task[t] = "live" /\ (Creator[t] = u \/ Shared(flags[t]))}

\* GET /task/linkable-to-class: what the user may choose from for class c.
Offered(u, c) ==
  {t \in Tasks : /\ task[t] = "live" /\ (Creator[t] = u \/ Shared(flags[t]))
                 /\ ~\E l \in LinksOf(c) : l.task = t}

\* Any task may be named; ok tells, as history, whether it had been offered.
BeginLinkTask(k, u, c, t) ==
  /\ task[t] # "unborn"
  /\ Start(k, [Blank("linkTask", "class", u)
                EXCEPT !.class = c, !.task = t, !.ok = t \in Offered(u, c)])

BeginUnlinkTask(k, u, c, t) ==
  /\ task[t] # "unborn"
  /\ Start(k, [Blank("unlinkTask", "class", u) EXCEPT !.class = c, !.task = t])

\* 404 without the class, 403 unless the user manages it: every call on a class.
ReadClass(k) ==
  /\ call[k] # None /\ call[k].at = "class"
  /\ LET c == call[k]
     IN  Proceed(k, c.class \in open /\ c.user \in Managers(c.class),
           CASE c.op = "linkTask" -> "task"
             [] c.op = "unlinkTask" -> "find"
             [] c.op = "createList" -> IF c.want = {} THEN "list" ELSE "tasks")
  /\ UNCHANGED tables

\* Mutant: any visible task will do.
UsableTaskAny(k) ==
  /\ At(k, "linkTask", "task")
  /\ LET t == call[k].task
     IN  Proceed(k, task[t] = "live" /\ "isVisible" \in flags[t], "insert")
  /\ UNCHANGED tables

UsableTask(k) ==
  /\ At(k, "linkTask", "task")
  /\ LET t == call[k].task
     IN  Proceed(k, /\ task[t] = "live" /\ "isVisible" \in flags[t]
                    /\ MayUse(call[k].user, t), "insert")
  /\ UNCHANGED tables

\* No unique key on (classId, taskId): only the foreign keys refuse the row.
InsertLink(k) ==
  /\ At(k, "linkTask", "insert")
  /\ LET c == call[k].class  t == call[k].task IN
     IF c \in open /\ Present(t)
     THEN FreeLinks # {} /\ links' = links \cup
            {[id |-> CHOOSE i \in FreeLinks : TRUE, class |-> c, task |-> t]}
     ELSE UNCHANGED links
  /\ Finish(k)
  /\ UNCHANGED <<open, task, flags, published, lists, entries>>

FindLink(k) ==
  /\ At(k, "unlinkTask", "find")
  /\ Proceed(k, \E l \in LinksOf(call[k].class) : l.task = call[k].task, "delete")
  /\ UNCHANGED tables

DeleteLinks(k) ==
  /\ At(k, "unlinkTask", "delete")
  /\ Remove({l \in LinksOf(call[k].class) : l.task = call[k].task})
  /\ Finish(k)
  /\ UNCHANGED <<open, task, flags, published, lists>>

-------------------------------------------------------------------------------
(* POST /list and DELETE /list/:listId *)

BeginCreateList(k, u, c, want) ==
  /\ \A t \in want : task[t] # "unborn"
  /\ Start(k, [Blank("createList", "class", u) EXCEPT !.class = c, !.want = want])

\* validateTasks: 404, 400 or 400 for a task that is deleted, hidden or not
\* the user's to use.
ValidateTasks(k) ==
  /\ At(k, "createList", "tasks")
  /\ Proceed(k, \A t \in call[k].want : /\ task[t] = "live"
                                       /\ "isVisible" \in flags[t]
                                       /\ MayUse(call[k].user, t), "list")
  /\ UNCHANGED tables

InsertList(k) ==
  /\ At(k, "createList", "list")
  /\ IF call[k].class \in open
     THEN /\ FreeLists # {}
          /\ LET i == CHOOSE i \in FreeLists : TRUE
             IN  /\ lists' = lists \cup {[id |-> i, class |-> call[k].class]}
                 /\ IF call[k].want = {} THEN Finish(k)
                    ELSE call' = [call EXCEPT ![k].list = i, ![k].at = "inclass"]
     ELSE Finish(k) /\ UNCHANGED lists
  /\ UNCHANGED <<open, task, flags, published, links, entries>>

\* Mutant: every task of the list is linked anew.
TasksInClassAll(k) ==
  /\ At(k, "createList", "inclass")
  /\ GoWith(k, "linkmany", call[k].want)
  /\ UNCHANGED tables

\* Mutant: the links the tasks lack are not created.
TasksInClassNone(k) ==
  /\ At(k, "createList", "inclass")
  /\ GoWith(k, "resolve", {})
  /\ UNCHANGED tables

\* getTasksInClass: todo becomes the tasks without a link.
TasksInClass(k) ==
  /\ At(k, "createList", "inclass")
  /\ LET new == call[k].want \ {l.task : l \in LinksOf(call[k].class)}
     IN  GoWith(k, IF new = {} THEN "resolve" ELSE "linkmany", new)
  /\ UNCHANGED tables

\* createMany is one statement: the foreign keys refuse it as a whole.
LinkMany(k) ==
  /\ At(k, "createList", "linkmany")
  /\ LET new == call[k].todo  c == call[k].class IN
     IF c \in open /\ \A t \in new : Present(t)
     THEN /\ Cardinality(FreeLinks) >= Cardinality(new)
          /\ LET id == Draw(new, FreeLinks)
             IN  links' = links \cup {[id |-> id[t], class |-> c, task |-> t] : t \in new}
          /\ GoWith(k, "resolve", {})
     ELSE Finish(k) /\ UNCHANGED links
  /\ UNCHANGED <<open, task, flags, published, lists, entries>>

\* The links of the wanted tasks, one per task: which one of several is up to
\* the database.  A task that has none any more is dropped.
ResolveLinks(k, picked) ==
  /\ At(k, "createList", "resolve")
  /\ LET found == {l \in LinksOf(call[k].class) : l.task \in call[k].want}
     IN  /\ picked \subseteq found
         /\ \A t \in {l.task : l \in found} : \E l \in picked : l.task = t
         /\ \A l, m \in picked : l.task = m.task => l = m
  /\ call' = [call EXCEPT ![k].picked = {l.id : l \in picked}, ![k].at = "entries"]
  /\ UNCHANGED tables

InsertEntries(k) ==
  /\ At(k, "createList", "entries")
  /\ LET ids == call[k].picked  i == call[k].list IN
     IF /\ i \in {ls.id : ls \in lists} /\ ids \subseteq {l.id : l \in links}
     THEN /\ Cardinality(FreeEntries) >= Cardinality(ids)
          /\ LET id == Draw(ids, FreeEntries)
             IN  entries' = entries \cup {[id |-> id[l], link |-> l, list |-> i] : l \in ids}
     ELSE UNCHANGED entries
  /\ Finish(k)
  /\ UNCHANGED <<open, task, flags, published, links, lists>>

BeginDeleteList(k, u, ls) ==
  Start(k, [Blank("deleteList", "list", u) EXCEPT !.list = ls.id, !.class = ls.class])

\* 404 without the list, 403 unless the user manages its class.
ReadList(k) ==
  /\ At(k, "deleteList", "list") \/ At(k, "removeEntry", "list")
  /\ LET c == call[k]
     IN  Proceed(k, c.list \in {ls.id : ls \in lists} /\ c.user \in Managers(c.class), "delete")
  /\ UNCHANGED tables

\* A list that somebody deleted since is a 400; its entries go with it.
DeleteList(k) ==
  /\ At(k, "deleteList", "delete")
  /\ lists' = {ls \in lists : ls.id # call[k].list}
  /\ entries' = {e \in entries : e.list # call[k].list}
  /\ Finish(k)
  /\ UNCHANGED <<open, task, flags, published, links>>

-------------------------------------------------------------------------------
(* POST /class-task-list and DELETE /class-task-list/:classTaskListId *)

BeginAddEntry(k, u, l, ls) ==
  Start(k, [Blank("addEntry", "rows", u) EXCEPT !.link = l.id, !.list = ls.id])

\* Mutant: the classes of the two rows are not compared.
ReadRowsAnyClass(k) ==
  /\ At(k, "addEntry", "rows")
  /\ LET ls == {m \in links : m.id = call[k].link}
         is == {i \in lists : i.id = call[k].list}
     IN  Proceed(k, \E l \in ls, i \in is :
                        /\ call[k].user \in Managers(i.class)
                        /\ "isVisible" \in flags[l.task], "insert")
  /\ UNCHANGED tables

\* The two reads of Promise.all.  Their order does not matter: the classes of
\* the rows never change, and the insert below needs both rows again.
ReadRows(k) ==
  /\ At(k, "addEntry", "rows")
  /\ LET ls == {m \in links : m.id = call[k].link}
         is == {i \in lists : i.id = call[k].list}
     IN  Proceed(k, \E l \in ls, i \in is :
                        /\ l.class = i.class
                        /\ call[k].user \in Managers(i.class)
                        /\ "isVisible" \in flags[l.task], "insert")
  /\ UNCHANGED tables

\* No unique key on (classTaskId, listId) either.
InsertEntry(k) ==
  /\ At(k, "addEntry", "insert")
  /\ LET l == call[k].link  i == call[k].list IN
     IF l \in {m.id : m \in links} /\ i \in {ls.id : ls \in lists}
     THEN FreeEntries # {} /\ entries' = entries \cup
            {[id |-> CHOOSE e \in FreeEntries : TRUE, link |-> l, list |-> i]}
     ELSE UNCHANGED entries
  /\ Finish(k)
  /\ UNCHANGED <<open, task, flags, published, links, lists>>

BeginRemoveEntry(k, u, e) ==
  Start(k, [Blank("removeEntry", "entry", u) EXCEPT !.entry = e.id])

ReadEntry(k) ==
  /\ At(k, "removeEntry", "entry")
  /\ LET found == {e \in entries : e.id = call[k].entry} IN
     IF found = {} THEN Finish(k)
     ELSE \E e \in found, ls \in lists :
            /\ ls.id = e.list
            /\ call' = [call EXCEPT ![k].list = ls.id, ![k].class = ls.class, ![k].at = "list"]
  /\ UNCHANGED tables

DeleteEntry(k) ==
  /\ At(k, "removeEntry", "delete")
  /\ entries' = {e \in entries : e.id # call[k].entry}
  /\ Finish(k)
  /\ UNCHANGED <<open, task, flags, published, links, lists>>

-------------------------------------------------------------------------------
(* What other parts of the program delete under these calls. *)

\* Mutant: ClassTask is not deleted along with its class.
DeleteClassOnly(c) ==
  /\ "deleteClass" \in Ops /\ c \in open
  /\ open' = open \ {c}
  /\ Remove({})
  /\ lists' = {ls \in lists : ls.class # c}
  /\ UNCHANGED <<task, flags, published, call>>

\* DELETE /class/:classId (Enrollment has its awaits).
DeleteClass(c) ==
  /\ "deleteClass" \in Ops /\ c \in open
  /\ open' = open \ {c}
  /\ Remove(LinksOf(c))
  /\ lists' = {ls \in lists : ls.class # c}
  /\ UNCHANGED <<task, flags, published, call>>

\* DELETE /task/:taskId (Submissions has its awaits): soft, or with the links.
DeleteTask(t, soft) ==
  /\ "deleteTask" \in Ops /\ Present(t)
  /\ task' = [task EXCEPT ![t] = IF soft THEN "soft" ELSE "gone"]
  /\ Remove(IF soft THEN {} ELSE {l \in links : l.task = t})
  /\ UNCHANGED <<open, flags, published, lists, call>>

-------------------------------------------------------------------------------
Begin(k) ==
  \/ \E t \in Tasks, p \in Patches, want \in SUBSET Classes : BeginCreateTask(k, t, p, want)
  \/ \E u \in Users, t \in Tasks, p \in Patches, sync \in BOOLEAN, want \in SUBSET Classes :
       BeginUpdateTask(k, u, t, p, sync, want)
  \/ \E u \in Users, c \in Classes, t \in Tasks :
       BeginLinkTask(k, u, c, t) \/ BeginUnlinkTask(k, u, c, t)
  \/ \E u \in Users, c \in Classes, want \in SUBSET Tasks : BeginCreateList(k, u, c, want)
  \/ \E u \in Users, ls \in lists : BeginDeleteList(k, u, ls)
  \/ \E u \in Users, l \in links, ls \in lists : BeginAddEntry(k, u, l, ls)
  \/ \E u \in Users, e \in entries : BeginRemoveEntry(k, u, e)

Step(k) ==
  \/ InsertTask(k) \/ OwnClasses(k) \/ \E c \in Classes : AddLink(k, c)
  \/ ReadTask(k) \/ ReadLinks(k) \/ \E c \in Classes : Unlink(k, c)
  \/ AllClasses(k) \/ UpdateTask(k)
  \/ ReadClass(k) \/ UsableTask(k) \/ InsertLink(k) \/ FindLink(k) \/ DeleteLinks(k)
  \/ ValidateTasks(k) \/ InsertList(k) \/ TasksInClass(k) \/ LinkMany(k)
  \/ \E picked \in SUBSET links : ResolveLinks(k, picked)
  \/ InsertEntries(k)
  \/ ReadList(k) \/ DeleteList(k)
  \/ ReadRows(k) \/ InsertEntry(k) \/ ReadEntry(k) \/ DeleteEntry(k)
  \/ Fail(k)

Next ==
  \/ \E k \in Slots : Begin(k) \/ Step(k)
  \/ \E c \in Classes : DeleteClass(c)
  \/ \E t \in Tasks, soft \in BOOLEAN : DeleteTask(t, soft)

Spec == Init /\ [][Next]_vars

-------------------------------------------------------------------------------
(* Properties. *)

\* Types, the primary keys, and the foreign keys of ClassTask and List.
TypeOK ==
  /\ open \subseteq Classes
  /\ task \in [Tasks -> {"unborn", "live", "soft", "gone"}]
  /\ flags \in [Tasks -> SUBSET Flags] /\ published \subseteq Tasks
  /\ links \subseteq Link /\ lists \subseteq List /\ entries \subseteq Entry
  /\ \A k \in Slots : call[k] = None \/ call[k] \in Calls
  /\ \A l, m \in links : l.id = m.id => l = m
  /\ \A l \in links : l.class \in open /\ Present(l.task)
  /\ \A ls \in lists : ls.class \in open

\* An entry ties a link and a list that both exist and belong to one class
\* (class-task-list.service.ts compares the classes before the insert,
\* list.service.ts creates both in the class), whatever is deleted meanwhile.
EntriesWithinClass ==
  \A e \in entries : \E l \in links, ls \in lists :
    l.id = e.link /\ ls.id = e.list /\ l.class = ls.class

Acting(k) == call[k] # None /\ call'[k] # call[k]

\* A task comes into a class only through a call of the professor of the class
\* or of an administrator, although the rights are read several awaits before
\* (ensureClassWriteAccess, and the filters of task.service.ts).
LinkedByManager(l) == \E k \in Slots : Acting(k) /\ call[k].user \in Managers(l.class)
LinksByManagers == [][\A l \in links' \ links : LinkedByManager(l)]_vars

\* A task that was never public and visible comes into a class only through its
\* creator or an administrator (canUseTask, validateTasks): a professor cannot
\* take over a private task of a colleague by any of the four ways to link one.
LinkedRightfully(l) ==
  \E k \in Slots : /\ Acting(k)
                    /\ \/ call[k].user \in Admins \cup {Creator[l.task]}
                       \/ l.task \in published
PrivateTasksStayPrivate == [][\A l \in links' \ links : LinkedRightfully(l)]_vars

\* With no other update of links under way, syncTaskClasses leaves the task in
\* the wanted classes that still exist and in no other: its removals and
\* additions, awaited one by one, amount to the set of the body, even from
\* duplicate links.  (Of one slot.)
Reconciled(k) ==
  At(k, "updateTask", "write") /\ call[k].sync /\ Present(call[k].task)
    => {l.class : l \in {m \in links : m.task = call[k].task}} = call[k].want \cap open
UpdateReconciles == \A k \in Slots : Reconciled(k)

\* tasksAdded of POST /list is the number of tasks that are in the new list:
\* each wanted task that still exists has one entry when the entries have been
\* inserted, whichever of its duplicate links is taken.  (Of one slot: an unlink
\* between two of the statements drops a task.)
InList(t, i) ==
  {e \in entries : e.list = i /\ \E l \in links : l.id = e.link /\ l.task = t}
ListComplete(k) ==
  At(k, "createList", "entries") /\ Acting(k) /\ entries' # entries
    => \A i \in {call[k].list}, t \in call[k].want :
         Present(t) => Cardinality(InList(t, i)') = 1
ListsComplete == \A k \in Slots : ListComplete(k)
TasksAddedAreInTheList == [][ListsComplete]_vars

\* Served one after the other, the four ways to link a task keep each class's
\* tasks apart, for want of a unique key: what is linked is subtracted by
\* syncTaskClasses and by POST /list, and by the catalogue POST /class-task
\* chooses from.  Only a task it did not offer is ever linked twice.
LinkedTwice(l) == \E m \in links' : m # l /\ m.class = l.class /\ m.task = l.task
Unoffered(l) ==
  \E k \in Slots : Acting(k) /\ call[k].op = "linkTask" /\ ~call[k].ok
DuplicatesAreUnoffered == [][\A l \in links' \ links : LinkedTwice(l) => Unoffered(l)]_vars

\* A task leaves a class only with the class or the task, or through a call of a
\* manager of the class or of the author of the task: syncTaskClasses unlinks
\* before it has looked at any class, and only the check of the task, three
\* awaits before, keeps others from it.
RemovedByRight(l) ==
  \/ l.class \notin open' \/ task'[l.task] = "gone"
  \/ \E k \in Slots : /\ Acting(k)
                     /\ call[k].user \in Managers(l.class) \cup {Creator[l.task]}
LinksRemovedByRight == [][\A l \in links \ links' : RemovedByRight(l)]_vars
===============================================================================
