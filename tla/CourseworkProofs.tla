--------------------------- MODULE CourseworkProofs ---------------------------
(***************************************************************************)
(* For any users, classes, tasks and number of calls at once: keys and     *)
(* classes of the rows stay right, and links come and go by right, though  *)
(* rights and rows are read several awaits before they are used.  What     *)
(* carries it is what a call has seen to at each of its awaits, and that   *)
(* an id a call has in hand is never drawn again.                          *)
(***************************************************************************)
EXTENDS Coursework, FiniteSetTheorems, FunctionTheorems, TLAPS

MayLink(u, t) == u \in Admins \cup {Creator[t]} \/ t \in published

\* What a request names.
Named == (SUBSET Classes) \cup (SUBSET Tasks)

\* Whoever writes a task.
TaskFits(c) ==
  /\ c.op \in {"createTask", "updateTask"} =>
       c.task \in Tasks /\ c.want \subseteq Classes /\ c.todo \subseteq Classes
  /\ c.op = "createTask" => c.user = Creator[c.task]
  /\ c.op = "updateTask" /\ c.at # "task" => c.user \in Admins \cup {Creator[c.task]}
  /\ c.at = "add" => c.op \in {"createTask", "updateTask"}
                     /\ \A x \in c.todo : c.user \in Managers(x)

\* Whoever names a class.
ClassFits(c) ==
  /\ c.at = "class" => c.op \in {"linkTask", "unlinkTask", "createList"}
  /\ c.op \in {"linkTask", "unlinkTask", "createList"} =>
       c.class \in Classes /\ (c.at # "class" => c.user \in Managers(c.class))
  /\ c.op \in {"linkTask", "unlinkTask"} => c.task \in Tasks
  /\ c.op = "linkTask" /\ c.at = "insert" => MayLink(c.user, c.task)
  /\ c.op = "createList" => c.want \subseteq Tasks /\ c.todo \subseteq c.want
  /\ c.op = "createList" /\ c.at \notin {"class", "tasks"} => \A t \in c.want : MayLink(c.user, t)

\* Whoever has ids of rows in hand.
RowsFit(c) ==
  /\ c.op = "createList" /\ c.at \in {"inclass", "linkmany", "resolve", "entries"} =>
       c.list \in ListIds /\ \A ls \in lists : ls.id = c.list => ls.class = c.class
  /\ c.op = "createList" /\ c.at = "entries" =>
       \A l \in links : l.id \in c.picked => l.class = c.class
  /\ c.op = "addEntry" => c.link \in LinkIds /\ c.list \in ListIds
  /\ c.op = "addEntry" /\ c.at = "insert" =>
       \A l \in links, ls \in lists : l.id = c.link /\ ls.id = c.list => l.class = ls.class

CallFits(c) == c \in Calls /\ TaskFits(c) /\ ClassFits(c) /\ RowsFit(c)

CallsFit == \A k \in Serving : CallFits(call[k])

\* Columns, keys and foreign keys.
TablesFit ==
  /\ open \subseteq Classes
  /\ task \in [Tasks -> {"unborn", "live", "soft", "gone"}]
  /\ flags \in [Tasks -> SUBSET Flags] /\ published \subseteq Tasks
  /\ links \subseteq Link /\ lists \subseteq List /\ entries \subseteq Entry
  /\ \A l, m \in links : l.id = m.id => l = m
  /\ \A ls, m \in lists : ls.id = m.id => ls = m
  /\ \A l \in links : l.class \in open /\ Present(l.task)
  /\ \A ls \in lists : ls.class \in open
  /\ DOMAIN call = Slots

PublishedFits == \A t \in Tasks : Shared(flags[t]) => t \in published

IInv == TablesFit /\ PublishedFits /\ EntriesWithinClass /\ CallsFit

\* What a step does to the links it does by right.
ByRight ==
  /\ \A l \in links' \ links : LinkedByManager(l) /\ LinkedRightfully(l)
  /\ \A l \in links \ links' : RemovedByRight(l)

-------------------------------------------------------------------------------
(* The draw of ids *)

LEMMA DrawsApart ==
  ASSUME NEW S, NEW ids, IsFiniteSet(S), IsFiniteSet(ids), Cardinality(ids) >= Cardinality(S)
  PROVE  /\ Draw(S, ids) \in [S -> ids]
         /\ \A x, y \in S : Draw(S, ids)[x] = Draw(S, ids)[y] => x = y
  <1> DEFINE m == Cardinality(S)
             n == Cardinality(ids)
  <1>1. m \in Nat /\ n \in Nat
    BY FS_CardinalityType
  <1>2. PICK f : f \in Bijection(S, 1..m)
    <2>1. ExistsBijection(1..m, S)
      BY FS_CardinalityType
    <2> QED BY <2>1, Fun_ExistsBijSymmetric DEF ExistsBijection
  <1>3. PICK g : g \in Bijection(1..n, ids)
    BY FS_CardinalityType DEF ExistsBijection
  <1>4. 1..m \subseteq 1..n
    BY <1>1
  <1> DEFINE h == [x \in S |-> g[f[x]]]
  <1>5. /\ f \in [S -> 1..m] /\ \A x, y \in S : f[x] = f[y] => x = y
        /\ g \in [1..n -> ids] /\ \A i, j \in 1..n : g[i] = g[j] => i = j
    BY <1>2, <1>3 DEF Bijection, Injection, Surjection, IsInjective
  <1>6. h \in [S -> ids]
    BY <1>4, <1>5
  <1>7. \A x, y \in S : h[x] = h[y] => x = y
    BY <1>4, <1>5
  <1> HIDE DEF h
  <1> QED BY <1>6, <1>7 DEF Draw

-------------------------------------------------------------------------------
(* Steps that leave the rows alone *)

\* c is call d at another await.
Same(c, d) ==
  /\ c \in Calls /\ c.op = d.op /\ c.user = d.user /\ c.class = d.class /\ c.task = d.task
  /\ c.want = d.want /\ c.link = d.link

LEMMA Moved ==
  ASSUME NEW d \in Calls, NEW a \in Steps, NEW c, c = [d EXCEPT !.at = a]
  PROVE  /\ Same(c, d) /\ c.at = a
         /\ c.todo = d.todo /\ c.list = d.list /\ c.picked = d.picked
  <1>1. c \in Calls
    BY DEF Calls
  <1> QED BY <1>1 DEF Calls, Same

Gone(d, a, S) == [d EXCEPT !.at = a, !.todo = S]

LEMMA MovedWith ==
  ASSUME NEW d \in Calls, NEW a \in Steps, NEW S \in Named
  PROVE  /\ Same(Gone(d, a, S), d) /\ Gone(d, a, S).at = a /\ Gone(d, a, S).todo = S
         /\ Gone(d, a, S).list = d.list /\ Gone(d, a, S).picked = d.picked
  <1>1. PICK c : c = [d EXCEPT !.at = a, !.todo = S]
    OBVIOUS
  <1>2. c \in Calls
    BY <1>1 DEF Calls, Named
  <1> QED BY <1>1, <1>2 DEF Calls, Same, Gone

\* Calls go on with what they know while rows with fresh ids are stored.
LEMMA CallsKept ==
  ASSUME IInv, DOMAIN call' = Slots,
         \A j \in Slots : \/ call'[j] = None
                          \/ call'[j] = call[j]
                          \/ \E c : c = call'[j] /\ CallFits(c)',
         published \subseteq published',
         \A l \in links' : l \in links \/ l.id \in FreeLinks,
         \A ls \in lists' : ls \in lists \/ ls.id \in FreeLists
  PROVE  CallsFit'
  <1> SUFFICES ASSUME NEW j \in Slots, call'[j] # None
               PROVE  \E c : c = call'[j] /\ CallFits(c)'
    BY DEF CallsFit, Serving
  <1> SUFFICES ASSUME call'[j] = call[j]
               PROVE  \E c : c = call'[j] /\ CallFits(c)'
    OBVIOUS
  <1>1. PICK c : c = call[j] /\ CallFits(c) /\ j \in Serving
    BY DEF IInv, CallsFit, Serving
  <1>2. /\ \A l \in links' : l \in links \/ (l.id # c.link /\ l.id \notin c.picked)
        /\ \A ls \in lists' : ls \in lists \/ ls.id # c.list
    BY <1>1 DEF FreeLinks, FreeLists
  <1>3. \A u, t : MayLink(u, t) => MayLink(u, t)'
    BY DEF MayLink
  <1>4. TaskFits(c)'
    BY <1>1 DEF CallFits, TaskFits
  <1>5. ClassFits(c)'
    BY <1>1, <1>3 DEF CallFits, ClassFits
  <1>6. RowsFit(c)'
    BY <1>1, <1>2 DEF CallFits, RowsFit
  <1>7. CallFits(c)'
    BY <1>1, <1>4, <1>5, <1>6 DEF CallFits
  <1> QED BY <1>1, <1>7

LEMMA CallStep ==
  ASSUME IInv, NEW k \in Slots, NEW c, call' = [call EXCEPT ![k] = c], UNCHANGED tables,
         c = None \/ CallFits(c)
  PROVE  IInv' /\ ByRight
  <1>1. /\ UNCHANGED <<open, task, flags, published, links, lists, entries>>
        /\ DOMAIN call' = Slots /\ call'[k] = c
        /\ \A j \in Slots : j # k => call'[j] = call[j]
    BY DEF tables, IInv, TablesFit
  <1>2. CallFits(c) => CallFits(c)'
    BY <1>1 DEF CallFits, TaskFits, ClassFits, RowsFit, MayLink
  <1>3. CallsFit'
    BY <1>1, <1>2, CallsKept
  <1>4. TablesFit' /\ PublishedFits' /\ EntriesWithinClass'
    BY <1>1 DEF IInv, TablesFit, PublishedFits, EntriesWithinClass, Present
  <1>5. ByRight
    BY <1>1 DEF ByRight
  <1> QED BY <1>3, <1>4, <1>5 DEF IInv

LEMMA EndStep ==
  ASSUME IInv, NEW k \in Slots, Finish(k), UNCHANGED tables
  PROVE  IInv' /\ ByRight
  BY CallStep DEF Finish

LEMMA GoToStep ==
  ASSUME IInv, NEW k \in Serving, NEW a \in Steps, GoTo(k, a), UNCHANGED tables,
         \A c : /\ Same(c, call[k]) /\ c.at = a /\ c.todo = call[k].todo
                /\ c.list = call[k].list /\ c.picked = call[k].picked
                => TaskFits(c) /\ ClassFits(c) /\ RowsFit(c)
  PROVE  IInv' /\ ByRight
  <1>1. k \in Slots /\ call[k] \in Calls
    BY DEF Serving, IInv, CallsFit, CallFits
  <1>2. PICK c : c = [call[k] EXCEPT !.at = a]
    OBVIOUS
  <1>5. /\ Same(c, call[k]) /\ c.at = a
        /\ c.todo = call[k].todo /\ c.list = call[k].list /\ c.picked = call[k].picked
    BY <1>1, <1>2, Moved
  <1>3. CallFits(c)
    BY <1>5 DEF CallFits, Same
  <1>4. call' = [call EXCEPT ![k] = c]
    BY <1>2 DEF GoTo
  <1> QED BY <1>1, <1>3, <1>4, CallStep

LEMMA GoWithStep ==
  ASSUME IInv, NEW k \in Serving, NEW a \in Steps, NEW S \in Named,
         GoWith(k, a, S), UNCHANGED tables,
         \A c : /\ Same(c, call[k]) /\ c.at = a /\ c.todo = S
                /\ c.list = call[k].list /\ c.picked = call[k].picked
                => TaskFits(c) /\ ClassFits(c) /\ RowsFit(c)
  PROVE  IInv' /\ ByRight
  <1>1. k \in Slots /\ call[k] \in Calls
    BY DEF Serving, IInv, CallsFit, CallFits
  <1>2. PICK c : c = Gone(call[k], a, S)
    OBVIOUS
  <1>5. /\ Same(c, call[k]) /\ c.at = a /\ c.todo = S
        /\ c.list = call[k].list /\ c.picked = call[k].picked
    BY <1>1, <1>2, MovedWith
  <1>3. CallFits(c)
    BY <1>5 DEF CallFits, Same
  <1>4. call' = [call EXCEPT ![k] = c]
    BY <1>2 DEF GoWith, Gone
  <1> QED BY <1>1, <1>3, <1>4, CallStep

\* A check of the handler that changes no more than the await.
LEMMA ProceedStep ==
  ASSUME IInv, NEW k \in Serving, NEW cond, NEW a \in Steps, Proceed(k, cond, a),
         UNCHANGED tables, NEW d, d = call[k],
         cond => \A c : /\ Same(c, d) /\ c.at = a /\ c.todo = d.todo
                        /\ c.list = d.list /\ c.picked = d.picked
                        => TaskFits(c) /\ ClassFits(c) /\ RowsFit(c)
  PROVE  IInv' /\ ByRight
  <1>1. k \in Slots
    BY DEF Serving
  <1>2. CASE cond
    BY <1>2, GoToStep DEF Proceed
  <1>3. CASE ~cond
    BY <1>1, <1>3, EndStep DEF Proceed
  <1> QED BY <1>2, <1>3

LEMMA StartStep ==
  ASSUME IInv, NEW k \in Slots, NEW c, Start(k, c),
         c \in Calls, TaskFits(c), ClassFits(c), RowsFit(c)
  PROVE  IInv' /\ ByRight
  BY CallStep DEF Start, CallFits

LEMMA InCall ==
  ASSUME IInv, NEW k \in Slots, call[k] # None
  PROVE  k \in Serving /\ CallFits(call[k])
  BY DEF IInv, CallsFit, Serving

-------------------------------------------------------------------------------
(* Calls begin *)

LEMMA Told ==
  ASSUME NEW S, NEW t
  PROVE  \E b \in BOOLEAN : b = (t \in S)
  <1>1. CASE t \in S
    <2> WITNESS TRUE \in BOOLEAN
    <2> QED BY <1>1
  <1>2. CASE ~(t \in S)
    <2>1. (t \in S) = FALSE
      BY <1>2, SMT
    <2> WITNESS FALSE \in BOOLEAN
    <2> QED BY <2>1
  <1> QED BY <1>1, <1>2

LEMMA BeginKeeps ==
  ASSUME IInv, NEW k \in Slots, Begin(k)
  PROVE  IInv' /\ ByRight
  <1> USE DEF Blank, Steps
  <1>0. /\ links \subseteq Link /\ lists \subseteq List /\ entries \subseteq Entry
        /\ Creator \in [Tasks -> Users]
        /\ Patches \subseteq [given : SUBSET Flags, on : SUBSET Flags]
    BY RowsAssumption DEF IInv, TablesFit
  <1>1. ASSUME NEW t \in Tasks, NEW p \in Patches, NEW want \in SUBSET Classes,
               BeginCreateTask(k, t, p, want)
        PROVE  IInv' /\ ByRight
    <2>1. PICK c : c = [Blank("createTask", "insert", Creator[t])
                         EXCEPT !.task = t, !.patch = p, !.want = want]
      OBVIOUS
    <2>2. Start(k, c)
      BY <1>1, <2>1 DEF BeginCreateTask
    <2>5. c.op \in Ops /\ c.op = "createTask"
      BY <2>1, <2>2 DEF Start
    <2>6. Creator[t] \in Users /\ p \in [given : SUBSET Flags, on : SUBSET Flags]
      BY <1>0
    <2>3. c \in Calls
      BY <2>1, <2>5, <2>6 DEF Calls
    <2>4. TaskFits(c) /\ ClassFits(c) /\ RowsFit(c)
      BY <2>1 DEF TaskFits, ClassFits, RowsFit
    <2> QED BY <2>2, <2>3, <2>4, StartStep
  <1>2. ASSUME NEW u \in Users, NEW t \in Tasks, NEW p \in Patches, NEW sync \in BOOLEAN,
               NEW want \in SUBSET Classes, BeginUpdateTask(k, u, t, p, sync, want)
        PROVE  IInv' /\ ByRight
    <2>1. PICK c : c = [Blank("updateTask", "task", u)
                         EXCEPT !.task = t, !.patch = p, !.sync = sync, !.want = want]
      OBVIOUS
    <2>2. Start(k, c)
      BY <1>2, <2>1 DEF BeginUpdateTask
    <2>5. c.op \in Ops /\ c.op = "updateTask"
      BY <2>1, <2>2 DEF Start
    <2>6. p \in [given : SUBSET Flags, on : SUBSET Flags]
      BY <1>0
    <2>3. c \in Calls
      BY <2>1, <2>5, <2>6 DEF Calls
    <2>4. TaskFits(c) /\ ClassFits(c) /\ RowsFit(c)
      BY <2>1 DEF TaskFits, ClassFits, RowsFit
    <2> QED BY <2>2, <2>3, <2>4, StartStep
  <1>3. ASSUME NEW u \in Users, NEW x \in Classes, NEW t \in Tasks, BeginLinkTask(k, u, x, t)
        PROVE  IInv' /\ ByRight
    <2>0. PICK b \in BOOLEAN : b = (t \in Offered(u, x))
      BY Told
    <2>1. PICK c : c = [Blank("linkTask", "class", u) EXCEPT !.class = x, !.task = t, !.ok = b]
      OBVIOUS
    <2>2. Start(k, c)
      BY <1>3, <2>0, <2>1 DEF BeginLinkTask
    <2>5. c.op \in Ops /\ c.op = "linkTask"
      BY <2>1, <2>2 DEF Start
    <2>3. c \in Calls
      <3> SUFFICES ASSUME NEW d \in BOOLEAN, d = b
                   PROVE  c \in Calls
        BY <2>0
      <3> QED BY <2>1, <2>5 DEF Calls
    <2>4. TaskFits(c) /\ ClassFits(c) /\ RowsFit(c)
      BY <2>1 DEF TaskFits, ClassFits, RowsFit
    <2> QED BY <2>2, <2>3, <2>4, StartStep
  <1>4. ASSUME NEW u \in Users, NEW x \in Classes, NEW t \in Tasks, BeginUnlinkTask(k, u, x, t)
        PROVE  IInv' /\ ByRight
    <2>1. PICK c : c = [Blank("unlinkTask", "class", u) EXCEPT !.class = x, !.task = t]
      OBVIOUS
    <2>2. Start(k, c)
      BY <1>4, <2>1 DEF BeginUnlinkTask
    <2>5. c.op \in Ops /\ c.op = "unlinkTask"
      BY <2>1, <2>2 DEF Start
    <2>3. c \in Calls
      BY <2>1, <2>5 DEF Calls
    <2>4. TaskFits(c) /\ ClassFits(c) /\ RowsFit(c)
      BY <2>1 DEF TaskFits, ClassFits, RowsFit
    <2> QED BY <2>2, <2>3, <2>4, StartStep
  <1>5. ASSUME NEW u \in Users, NEW x \in Classes, NEW want \in SUBSET Tasks,
               BeginCreateList(k, u, x, want)
        PROVE  IInv' /\ ByRight
    <2>1. PICK c : c = [Blank("createList", "class", u) EXCEPT !.class = x, !.want = want]
      OBVIOUS
    <2>2. Start(k, c)
      BY <1>5, <2>1 DEF BeginCreateList
    <2>5. c.op \in Ops /\ c.op = "createList"
      BY <2>1, <2>2 DEF Start
    <2>3. c \in Calls
      BY <2>1, <2>5 DEF Calls
    <2>4. TaskFits(c) /\ ClassFits(c) /\ RowsFit(c)
      BY <2>1 DEF TaskFits, ClassFits, RowsFit
    <2> QED BY <2>2, <2>3, <2>4, StartStep
  <1>6. ASSUME NEW u \in Users, NEW ls \in lists, BeginDeleteList(k, u, ls)
        PROVE  IInv' /\ ByRight
    <2>1. PICK c : c = [Blank("deleteList", "list", u) EXCEPT !.list = ls.id, !.class = ls.class]
      OBVIOUS
    <2>2. Start(k, c)
      BY <1>6, <2>1 DEF BeginDeleteList
    <2>5. c.op \in Ops /\ c.op = "deleteList"
      BY <2>1, <2>2 DEF Start
    <2>6. ls.id \in ListIds /\ ls.class \in Classes
      BY <1>0 DEF List
    <2>3. c \in Calls
      BY <2>1, <2>5, <2>6 DEF Calls
    <2>4. TaskFits(c) /\ ClassFits(c) /\ RowsFit(c)
      BY <2>1 DEF TaskFits, ClassFits, RowsFit
    <2> QED BY <2>2, <2>3, <2>4, StartStep
  <1>7. ASSUME NEW u \in Users, NEW l \in links, NEW ls \in lists, BeginAddEntry(k, u, l, ls)
        PROVE  IInv' /\ ByRight
    <2>1. PICK c : c = [Blank("addEntry", "rows", u) EXCEPT !.link = l.id, !.list = ls.id]
      OBVIOUS
    <2>2. Start(k, c)
      BY <1>7, <2>1 DEF BeginAddEntry
    <2>5. c.op \in Ops /\ c.op = "addEntry"
      BY <2>1, <2>2 DEF Start
    <2>6. l.id \in LinkIds /\ ls.id \in ListIds
      BY <1>0 DEF Link, List
    <2>3. c \in Calls
      BY <2>1, <2>5, <2>6 DEF Calls
    <2>4. TaskFits(c) /\ ClassFits(c) /\ RowsFit(c)
      BY <2>1, <2>6 DEF TaskFits, ClassFits, RowsFit
    <2> QED BY <2>2, <2>3, <2>4, StartStep
  <1>8. ASSUME NEW u \in Users, NEW e \in entries, BeginRemoveEntry(k, u, e)
        PROVE  IInv' /\ ByRight
    <2>1. PICK c : c = [Blank("removeEntry", "entry", u) EXCEPT !.entry = e.id]
      OBVIOUS
    <2>2. Start(k, c)
      BY <1>8, <2>1 DEF BeginRemoveEntry
    <2>5. c.op \in Ops /\ c.op = "removeEntry"
      BY <2>1, <2>2 DEF Start
    <2>6. e.id \in EntryIds
      BY <1>0 DEF Entry
    <2>3. c \in Calls
      BY <2>1, <2>5, <2>6 DEF Calls
    <2>4. TaskFits(c) /\ ClassFits(c) /\ RowsFit(c)
      BY <2>1 DEF TaskFits, ClassFits, RowsFit
    <2> QED BY <2>2, <2>3, <2>4, StartStep
  <1> QED BY <1>1, <1>2, <1>3, <1>4, <1>5, <1>6, <1>7, <1>8 DEF Begin

-------------------------------------------------------------------------------
(* Calls read and check *)

LEMMA OwnClassesKeeps ==
  ASSUME IInv, NEW k \in Slots, OwnClasses(k)
  PROVE  IInv' /\ ByRight
  <1>1. k \in Serving /\ CallFits(call[k]) /\ call[k].op = "createTask" /\ UNCHANGED tables
    BY InCall DEF OwnClasses, At
  <1> DEFINE cs == Writable(call[k].user, call[k].want)
  <1>2. /\ cs \in Named /\ cs \subseteq Classes /\ "add" \in Steps
        /\ \A x \in cs : call[k].user \in Managers(x)
    BY <1>1 DEF Writable, CallFits, TaskFits, Named, Steps
  <1>3. Finish(k) \/ GoWith(k, "add", cs)
    BY DEF OwnClasses
  <1> HIDE DEF cs
  <1>4. CASE GoWith(k, "add", cs)
    <2>1. ASSUME NEW c, Same(c, call[k]), c.at = "add", c.todo = cs
          PROVE  TaskFits(c) /\ ClassFits(c) /\ RowsFit(c)
      BY <1>1, <1>2, <2>1 DEF Same, CallFits, TaskFits, ClassFits, RowsFit
    <2> QED BY <1>1, <1>2, <1>4, <2>1, GoWithStep
  <1> QED BY <1>1, <1>3, <1>4, EndStep

LEMMA ReadTaskKeeps ==
  ASSUME IInv, NEW k \in Slots, ReadTask(k)
  PROVE  IInv' /\ ByRight
  <1>1. /\ k \in Serving /\ CallFits(call[k]) /\ UNCHANGED tables
        /\ call[k].op = "updateTask"
    BY InCall DEF ReadTask, At
  <1>2. PICK a, cond :
          /\ a \in Steps \cap {"links", "write"} /\ Proceed(k, cond, a)
          /\ cond => call[k].user \in Admins \cup {Creator[call[k].task]}
    BY DEF ReadTask, Steps
  <1>3. ASSUME cond, NEW c, Same(c, call[k]), c.at = a, c.todo = call[k].todo
        PROVE  TaskFits(c) /\ ClassFits(c) /\ RowsFit(c)
    BY <1>1, <1>2, <1>3 DEF Same, CallFits, TaskFits, ClassFits, RowsFit
  <1> QED BY <1>1, <1>2, <1>3, ProceedStep

LEMMA ReadLinksKeeps ==
  ASSUME IInv, NEW k \in Slots, ReadLinks(k)
  PROVE  IInv' /\ ByRight
  <1>1. /\ k \in Serving /\ CallFits(call[k]) /\ UNCHANGED tables
        /\ call[k].op = "updateTask" /\ call[k].at = "links"
    BY InCall DEF ReadLinks, At
  <1>2. PICK drop, add, a :
          /\ drop \subseteq Classes /\ add \subseteq Classes
          /\ a \in {"unlink", "classes", "write"}
          /\ call' = [call EXCEPT ![k].todo = drop, ![k].later = add, ![k].at = a]
    <2>1. /\ {l.class : l \in {m \in links : m.task = call[k].task}} \subseteq Classes
          /\ call[k].want \subseteq Classes
      BY <1>1 DEF IInv, TablesFit, Link, CallFits, TaskFits
    <2> QED BY <2>1 DEF ReadLinks
  <1>3. PICK c : c = [call[k] EXCEPT !.todo = drop, !.later = add, !.at = a]
    OBVIOUS
  <1>4. call' = [call EXCEPT ![k] = c]
    BY <1>2, <1>3
  <1>5. c \in Calls /\ c.op = "updateTask" /\ c.at = a /\ c.todo = drop
        /\ c.user = call[k].user /\ c.task = call[k].task /\ c.want = call[k].want
    <2>1. call[k] \in Calls /\ a \in Steps
      BY <1>1, <1>2 DEF CallFits, Steps
    <2> QED BY <1>1, <1>2, <1>3, <2>1 DEF Calls
  <1>6. CallFits(c)
    BY <1>1, <1>2, <1>5 DEF CallFits, TaskFits, ClassFits, RowsFit
  <1> QED BY <1>4, <1>6, <1>1, CallStep

LEMMA AllClassesKeeps ==
  ASSUME IInv, NEW k \in Slots, AllClasses(k)
  PROVE  IInv' /\ ByRight
  <1>1. /\ k \in Serving /\ CallFits(call[k]) /\ UNCHANGED tables
        /\ call[k].op = "updateTask" /\ call[k].at = "classes"
    BY InCall DEF AllClasses, At
  <1>2. PICK cs : cs = call[k].later
    OBVIOUS
  <1>3. cs \in Named /\ cs \subseteq Classes
    BY <1>1, <1>2 DEF CallFits, Calls, Named
  <1>4. CASE cs = Writable(call[k].user, cs) /\ GoWith(k, "add", cs)
    <2>1. ASSUME NEW c, Same(c, call[k]), c.at = "add", c.todo = cs
          PROVE  TaskFits(c) /\ ClassFits(c) /\ RowsFit(c)
      BY <1>1, <1>3, <1>4, <2>1
         DEF Same, CallFits, TaskFits, ClassFits, RowsFit, Writable
    <2>2. "add" \in Steps
      BY DEF Steps
    <2> QED BY <1>1, <1>3, <1>4, <2>1, <2>2, GoWithStep
  <1>5. CASE Finish(k)
    BY <1>1, <1>5, EndStep
  <1> QED BY <1>2, <1>4, <1>5 DEF AllClasses

LEMMA ReadClassKeeps ==
  ASSUME IInv, NEW k \in Slots, ReadClass(k)
  PROVE  IInv' /\ ByRight
  <1>1. /\ k \in Serving /\ CallFits(call[k]) /\ UNCHANGED tables /\ call[k].at = "class"
    BY InCall DEF ReadClass
  <1>2. PICK a, cond :
          /\ a \in Steps \cap {"task", "find", "list", "tasks"} /\ Proceed(k, cond, a)
          /\ cond => call[k].user \in Managers(call[k].class)
          /\ call[k].op = "createList" /\ a # "tasks" => call[k].want = {}
    <2>1. call[k].op \in {"linkTask", "unlinkTask", "createList"}
      BY <1>1 DEF CallFits, ClassFits
    <2>2. CASE call[k].op = "linkTask"
      BY <2>2 DEF ReadClass, Steps
    <2>3. CASE call[k].op = "unlinkTask"
      BY <2>3 DEF ReadClass, Steps
    <2>4. CASE call[k].op = "createList"
      BY <2>4 DEF ReadClass, Steps
    <2> QED BY <2>1, <2>2, <2>3, <2>4
  <1>3. ASSUME cond, NEW c, Same(c, call[k]), c.at = a, c.todo = call[k].todo
        PROVE  TaskFits(c) /\ ClassFits(c) /\ RowsFit(c)
    BY <1>1, <1>2, <1>3 DEF Same, CallFits, TaskFits, ClassFits, RowsFit
  <1> QED BY <1>1, <1>2, <1>3, ProceedStep

LEMMA UsableTaskKeeps ==
  ASSUME IInv, NEW k \in Slots, UsableTask(k)
  PROVE  IInv' /\ ByRight
  <1>1. /\ k \in Serving /\ CallFits(call[k]) /\ UNCHANGED tables
        /\ call[k].op = "linkTask" /\ call[k].at = "task" /\ "insert" \in Steps
    BY InCall DEF UsableTask, At, Steps
  <1>2. PICK cond : Proceed(k, cond, "insert") /\ (cond => MayUse(call[k].user, call[k].task))
    BY DEF UsableTask
  <1>3. call[k].task \in Tasks
    BY <1>1 DEF CallFits, ClassFits
  <1>4. ASSUME cond, NEW c, Same(c, call[k]), c.at = "insert", c.todo = call[k].todo
        PROVE  TaskFits(c) /\ ClassFits(c) /\ RowsFit(c)
    <2>1. MayLink(call[k].user, call[k].task)
      BY <1>2, <1>3, <1>4 DEF MayUse, MayLink, IInv, PublishedFits
    <2> QED BY <1>1, <1>4, <2>1 DEF Same, CallFits, TaskFits, ClassFits, RowsFit
  <1> QED BY <1>1, <1>2, <1>4, ProceedStep

LEMMA FindLinkKeeps ==
  ASSUME IInv, NEW k \in Slots, FindLink(k)
  PROVE  IInv' /\ ByRight
  <1>1. /\ k \in Serving /\ CallFits(call[k]) /\ UNCHANGED tables
        /\ call[k].op = "unlinkTask" /\ call[k].at = "find" /\ "delete" \in Steps
    BY InCall DEF FindLink, At, Steps
  <1>2. PICK cond : Proceed(k, cond, "delete")
    BY DEF FindLink
  <1>3. ASSUME NEW c, Same(c, call[k]), c.at = "delete", c.todo = call[k].todo
        PROVE  TaskFits(c) /\ ClassFits(c) /\ RowsFit(c)
    BY <1>1, <1>3 DEF Same, CallFits, TaskFits, ClassFits, RowsFit
  <1> QED BY <1>1, <1>2, <1>3, ProceedStep

LEMMA ValidateTasksKeeps ==
  ASSUME IInv, NEW k \in Slots, ValidateTasks(k)
  PROVE  IInv' /\ ByRight
  <1>1. /\ k \in Serving /\ CallFits(call[k]) /\ UNCHANGED tables
        /\ call[k].op = "createList" /\ call[k].at = "tasks" /\ "list" \in Steps
    BY InCall DEF ValidateTasks, At, Steps
  <1>2. PICK cond : /\ Proceed(k, cond, "list")
                    /\ cond => \A t \in call[k].want : MayUse(call[k].user, t)
    BY DEF ValidateTasks
  <1>3. call[k].want \subseteq Tasks
    BY <1>1 DEF CallFits, ClassFits
  <1>4. ASSUME cond, NEW c, Same(c, call[k]), c.at = "list", c.todo = call[k].todo
        PROVE  TaskFits(c) /\ ClassFits(c) /\ RowsFit(c)
    <2>1. \A t \in call[k].want : MayLink(call[k].user, t)
      BY <1>2, <1>3, <1>4 DEF MayUse, MayLink, IInv, PublishedFits
    <2> QED BY <1>1, <1>4, <2>1 DEF Same, CallFits, TaskFits, ClassFits, RowsFit
  <1> QED BY <1>1, <1>2, <1>4, ProceedStep

LEMMA TasksInClassKeeps ==
  ASSUME IInv, NEW k \in Slots, TasksInClass(k)
  PROVE  IInv' /\ ByRight
  <1>1. /\ k \in Serving /\ CallFits(call[k]) /\ UNCHANGED tables
        /\ call[k].op = "createList" /\ call[k].at = "inclass"
    BY InCall DEF TasksInClass, At
  <1>2. PICK new : /\ new \subseteq call[k].want
                   /\ GoWith(k, IF new = {} THEN "resolve" ELSE "linkmany", new)
    BY DEF TasksInClass
  <1>5. PICK a \in Steps : a \in {"resolve", "linkmany"} /\ GoWith(k, a, new)
    BY <1>2 DEF Steps
  <1>3. new \in Named
    BY <1>1, <1>2 DEF CallFits, ClassFits, Named
  <1>4. ASSUME NEW c, Same(c, call[k]), c.at = a, c.todo = new, c.list = call[k].list
        PROVE  TaskFits(c) /\ ClassFits(c) /\ RowsFit(c)
    BY <1>1, <1>2, <1>4, <1>5 DEF Same, CallFits, TaskFits, ClassFits, RowsFit
  <1> QED BY <1>1, <1>3, <1>4, <1>5, GoWithStep

LEMMA ResolveLinksKeeps ==
  ASSUME IInv, NEW k \in Slots, NEW picked \in SUBSET links, ResolveLinks(k, picked)
  PROVE  IInv' /\ ByRight
  <1>1. /\ k \in Serving /\ CallFits(call[k]) /\ UNCHANGED tables
        /\ call[k].op = "createList" /\ call[k].at = "resolve" /\ "entries" \in Steps
    BY InCall DEF ResolveLinks, At, Steps
  <1>2. PICK ids : ids = {l.id : l \in picked}
    OBVIOUS
  <1>3. PICK c : c = [call[k] EXCEPT !.picked = ids, !.at = "entries"]
    OBVIOUS
  <1>4. call' = [call EXCEPT ![k] = c]
    BY <1>2, <1>3 DEF ResolveLinks
  <1>5. /\ ids \subseteq LinkIds
        /\ \A l \in links : l.id \in ids => l.class = call[k].class
    BY <1>2 DEF IInv, TablesFit, Link, ResolveLinks, LinksOf
  <1>6. c \in Calls /\ c.op = "createList" /\ c.at = "entries" /\ c.todo = call[k].todo
        /\ c.user = call[k].user /\ c.class = call[k].class /\ c.want = call[k].want
        /\ c.list = call[k].list /\ c.picked = ids
    <2>1. call[k] \in Calls
      BY <1>1 DEF CallFits
    <2> QED BY <1>1, <1>3, <1>5, <2>1 DEF Calls
  <1>7. CallFits(c)
    BY <1>1, <1>5, <1>6 DEF CallFits, TaskFits, ClassFits, RowsFit
  <1> QED BY <1>1, <1>4, <1>7, CallStep

LEMMA ReadListKeeps ==
  ASSUME IInv, NEW k \in Slots, ReadList(k)
  PROVE  IInv' /\ ByRight
  <1>1. /\ k \in Serving /\ CallFits(call[k]) /\ UNCHANGED tables
        /\ call[k].op \in {"deleteList", "removeEntry"} /\ "delete" \in Steps
    BY InCall DEF ReadList, At, Steps
  <1>2. PICK cond : Proceed(k, cond, "delete")
    BY DEF ReadList
  <1>3. ASSUME NEW c, Same(c, call[k]), c.at = "delete", c.todo = call[k].todo
        PROVE  TaskFits(c) /\ ClassFits(c) /\ RowsFit(c)
    BY <1>1, <1>3 DEF Same, CallFits, TaskFits, ClassFits, RowsFit
  <1> QED BY <1>1, <1>2, <1>3, ProceedStep

LEMMA ReadRowsKeeps ==
  ASSUME IInv, NEW k \in Slots, ReadRows(k)
  PROVE  IInv' /\ ByRight
  <1>1. /\ k \in Serving /\ CallFits(call[k]) /\ UNCHANGED tables
        /\ call[k].op = "addEntry" /\ call[k].at = "rows" /\ "insert" \in Steps
    BY InCall DEF ReadRows, At, Steps
  <1>2. PICK cond :
          /\ Proceed(k, cond, "insert")
          /\ cond => \E l \in links, ls \in lists :
                       l.id = call[k].link /\ ls.id = call[k].list /\ l.class = ls.class
    BY DEF ReadRows
  <1>3. ASSUME cond, NEW c, Same(c, call[k]), c.at = "insert", c.todo = call[k].todo,
               c.list = call[k].list
        PROVE  TaskFits(c) /\ ClassFits(c) /\ RowsFit(c)
    <2>1. \A l \in links, ls \in lists :
            l.id = call[k].link /\ ls.id = call[k].list => l.class = ls.class
      BY <1>2, <1>3 DEF IInv, TablesFit
    <2> QED BY <1>1, <1>3, <2>1 DEF Same, CallFits, TaskFits, ClassFits, RowsFit
  <1> QED BY <1>1, <1>2, <1>3, ProceedStep

LEMMA ReadEntryKeeps ==
  ASSUME IInv, NEW k \in Slots, ReadEntry(k)
  PROVE  IInv' /\ ByRight
  <1>1. /\ k \in Serving /\ CallFits(call[k]) /\ UNCHANGED tables
        /\ call[k].op = "removeEntry" /\ "list" \in Steps
    BY InCall DEF ReadEntry, At, Steps
  <1>2. CASE Finish(k)
    BY <1>1, <1>2, EndStep
  <1>3. ASSUME NEW ls \in lists,
               call' = [call EXCEPT ![k].list = ls.id, ![k].class = ls.class, ![k].at = "list"]
        PROVE  IInv' /\ ByRight
    <2>1. ls.id \in ListIds /\ ls.class \in Classes
      BY DEF IInv, TablesFit, List
    <2>2. PICK c : c = [call[k] EXCEPT !.list = ls.id, !.class = ls.class, !.at = "list"]
      OBVIOUS
    <2>3. call' = [call EXCEPT ![k] = c]
      BY <1>3, <2>2
    <2>4. c \in Calls /\ c.op = "removeEntry" /\ c.at = "list"
      <3>1. call[k] \in Calls
        BY <1>1 DEF CallFits
      <3> QED BY <1>1, <2>1, <2>2, <3>1 DEF Calls
    <2>5. CallFits(c)
      BY <2>4 DEF CallFits, TaskFits, ClassFits, RowsFit
    <2> QED BY <1>1, <2>3, <2>5, CallStep
  <1> QED BY <1>2, <1>3 DEF ReadEntry

LEMMA FailKeeps ==
  ASSUME IInv, NEW k \in Slots, Fail(k)
  PROVE  IInv' /\ ByRight
  BY EndStep DEF Fail

-------------------------------------------------------------------------------
(* Links come and go *)

\* A call that stores links it may store, with ids that are free.
LEMMA LinkStep ==
  ASSUME IInv, NEW k \in Serving, NEW c, call' = [call EXCEPT ![k] = c], c # call[k],
         c = None \/ CallFits(c)',
         NEW new \in SUBSET Link, links' = links \cup new,
         \A l \in new : /\ l.id \in FreeLinks /\ l.class \in open /\ Present(l.task)
                        /\ call[k].user \in Managers(l.class)
                        /\ MayLink(call[k].user, l.task),
         \A l, m \in new : l.id = m.id => l = m,
         UNCHANGED <<open, task, flags, published, lists, entries>>
  PROVE  IInv' /\ ByRight
  <1>1. /\ k \in Slots /\ DOMAIN call' = Slots /\ call'[k] = c /\ call[k] # None
        /\ \A j \in Slots : j # k => call'[j] = call[j]
    BY DEF Serving, IInv, TablesFit
  <1>2. CallsFit'
    BY <1>1, CallsKept
  <1>3. TablesFit'
    <2>1. \A l \in new, m \in links : l.id # m.id
      BY DEF FreeLinks
    <2> QED BY <1>1, <2>1 DEF IInv, TablesFit, Present
  <1>4. PublishedFits' /\ EntriesWithinClass'
    BY DEF IInv, PublishedFits, EntriesWithinClass
  <1>5. ByRight
    BY <1>1 DEF ByRight, LinkedByManager, LinkedRightfully, Acting, MayLink
  <1> QED BY <1>2, <1>3, <1>4, <1>5 DEF IInv

\* The entries of a link go with it.
LEMMA RemoveKeeps ==
  ASSUME IInv, NEW gone \in SUBSET links, Remove(gone), lists' \subseteq lists,
         \A ls \in lists \ lists', l \in links : l.class = ls.class => l \in gone
  PROVE  links' \subseteq links /\ entries' \subseteq entries /\ EntriesWithinClass'
  <1>1. ASSUME NEW e \in entries'
        PROVE  \E l \in links', ls \in lists' : l.id = e.link /\ ls.id = e.list /\ l.class = ls.class
    <2>1. PICK l \in links, ls \in lists : l.id = e.link /\ ls.id = e.list /\ l.class = ls.class
      BY <1>1 DEF Remove, IInv, EntriesWithinClass
    <2>2. l \notin gone
      BY <1>1, <2>1 DEF Remove
    <2> QED BY <2>1, <2>2 DEF Remove
  <1> QED BY <1>1 DEF Remove, EntriesWithinClass

LEMMA UnlinkStep ==
  ASSUME IInv, NEW k \in Serving, NEW c, call' = [call EXCEPT ![k] = c], c # call[k],
         c = None \/ CallFits(c)',
         NEW gone \in SUBSET links, Remove(gone),
         \A l \in gone : call[k].user \in Managers(l.class) \cup {Creator[l.task]},
         UNCHANGED <<open, task, flags, published, lists>>
  PROVE  IInv' /\ ByRight
  <1>1. /\ k \in Slots /\ DOMAIN call' = Slots /\ call'[k] = c /\ call[k] # None
        /\ \A j \in Slots : j # k => call'[j] = call[j]
    BY DEF Serving, IInv, TablesFit
  <1>2. links' \subseteq links /\ entries' \subseteq entries /\ EntriesWithinClass'
    BY RemoveKeeps
  <1>3. CallsFit'
    BY <1>1, <1>2, CallsKept
  <1>4. TablesFit'
    BY <1>1, <1>2 DEF IInv, TablesFit, Present
  <1>5. PublishedFits'
    BY DEF IInv, PublishedFits
  <1>6. ByRight
    BY <1>1, <1>2 DEF ByRight, RemovedByRight, Acting, Remove
  <1> QED BY <1>2, <1>3, <1>4, <1>5, <1>6 DEF IInv

\* A call that leaves the links alone.
LEMMA EntryStep ==
  ASSUME IInv, NEW k \in Slots, NEW c, call' = [call EXCEPT ![k] = c],
         c = None \/ CallFits(c)',
         UNCHANGED <<open, task, flags, published, links>>,
         lists' \subseteq List, entries' \subseteq Entry,
         \A ls \in lists' : ls \in lists \/ (ls.id \in FreeLists /\ ls.class \in open),
         \A ls, m \in lists' : ls.id = m.id => ls = m,
         EntriesWithinClass'
  PROVE  IInv' /\ ByRight
  <1>1. /\ DOMAIN call' = Slots /\ call'[k] = c
        /\ \A j \in Slots : j # k => call'[j] = call[j]
    BY DEF IInv, TablesFit
  <1>2. CallsFit'
    BY <1>1, CallsKept
  <1>3. TablesFit'
    BY <1>1 DEF IInv, TablesFit, Present
  <1>4. PublishedFits' /\ ByRight
    BY DEF IInv, PublishedFits, ByRight
  <1> QED BY <1>2, <1>3, <1>4 DEF IInv

LEMMA InsertLinkKeeps ==
  ASSUME IInv, NEW k \in Slots, InsertLink(k)
  PROVE  IInv' /\ ByRight
  <1>1. /\ k \in Serving /\ CallFits(call[k]) /\ call[k] # None
        /\ call[k].op = "linkTask" /\ call[k].at = "insert"
        /\ call' = [call EXCEPT ![k] = None]
        /\ UNCHANGED <<open, task, flags, published, lists, entries>>
    BY InCall DEF InsertLink, At, Finish
  <1>2. CASE UNCHANGED links
    BY <1>1, <1>2, EndStep DEF Finish, tables
  <1>3. CASE /\ call[k].class \in open /\ Present(call[k].task) /\ FreeLinks # {}
             /\ links' = links \cup {[id |-> CHOOSE i \in FreeLinks : TRUE,
                                     class |-> call[k].class, task |-> call[k].task]}
    <2>1. PICK i \in FreeLinks : i = CHOOSE j \in FreeLinks : TRUE
      BY <1>3
    <2>2. PICK l : l = [id |-> i, class |-> call[k].class, task |-> call[k].task]
      OBVIOUS
    <2>3. links' = links \cup {l}
      BY <1>3, <2>1, <2>2
    <2>4. /\ l.id \in FreeLinks /\ l.class \in open /\ Present(l.task) /\ l \in Link
          /\ call[k].user \in Managers(l.class) /\ MayLink(call[k].user, l.task)
      BY <1>1, <1>3, <2>2 DEF CallFits, ClassFits, Link, FreeLinks
    <2>5. PICK new \in SUBSET Link : new = {l}
      BY <2>4
    <2> QED BY <1>1, <2>3, <2>4, <2>5, LinkStep
  <1> QED BY <1>2, <1>3 DEF InsertLink

LEMMA DeleteLinksKeeps ==
  ASSUME IInv, NEW k \in Slots, DeleteLinks(k)
  PROVE  IInv' /\ ByRight
  <1>1. /\ k \in Serving /\ CallFits(call[k]) /\ call[k] # None
        /\ call[k].op = "unlinkTask" /\ call[k].at = "delete"
        /\ call' = [call EXCEPT ![k] = None]
        /\ UNCHANGED <<open, task, flags, published, lists>>
    BY InCall DEF DeleteLinks, At, Finish
  <1>2. PICK gone \in SUBSET links :
          gone = {l \in LinksOf(call[k].class) : l.task = call[k].task}
    BY DEF LinksOf
  <1>3. Remove(gone)
    BY <1>2 DEF DeleteLinks
  <1>4. \A l \in gone : call[k].user \in Managers(l.class)
    BY <1>1, <1>2 DEF LinksOf, CallFits, ClassFits
  <1> QED BY <1>1, <1>3, <1>4, UnlinkStep

LEMMA UnlinkKeeps ==
  ASSUME IInv, NEW k \in Slots, NEW x \in Classes, Unlink(k, x)
  PROVE  IInv' /\ ByRight
  <1>1. /\ k \in Serving /\ CallFits(call[k]) /\ call[k] # None
        /\ call[k].op = "updateTask" /\ call[k].at = "unlink" /\ x \in call[k].todo
        /\ UNCHANGED <<open, task, flags, published, lists>>
    BY InCall DEF Unlink, At
  <1>2. PICK rest : rest \subseteq call[k].todo \ {x}
                    /\ \/ GoWith(k, "unlink", rest) \/ GoWith(k, "write", rest)
                       \/ GoWith(k, "classes", rest)
    <2>1. CASE call[k].todo # {x}
      BY <2>1 DEF Unlink
    <2>2. CASE call[k].todo = {x}
      <3>1. GoWith(k, "write", {}) \/ GoWith(k, "classes", {})
        BY <2>2 DEF Unlink
      <3> QED BY <3>1
    <2> QED BY <2>1, <2>2
  <1>3. PICK a \in Steps : a \in {"unlink", "write", "classes"} /\ GoWith(k, a, rest)
    BY <1>2 DEF Steps
  <1>4. rest \in Named /\ call[k] \in Calls
    BY <1>1, <1>2 DEF CallFits, TaskFits, Named
  <1>5. PICK c : c = Gone(call[k], a, rest)
    OBVIOUS
  <1>6. Same(c, call[k]) /\ c.at = a /\ c.todo = rest
    BY <1>4, <1>5, MovedWith
  <1>7. call' = [call EXCEPT ![k] = c]
    BY <1>3, <1>5 DEF GoWith, Gone
  <1>8. c # call[k]
    BY <1>1, <1>2, <1>6
  <1>9. CallFits(c)'
    BY <1>1, <1>2, <1>3, <1>6 DEF CallFits, Same, TaskFits, ClassFits, RowsFit
  <1>10. PICK gone \in SUBSET links :
           gone = {l \in links : l.class = x /\ l.task = call[k].task}
    OBVIOUS
  <1>11. Remove(gone)
    BY <1>10 DEF Unlink
  <1>12. \A l \in gone : call[k].user \in Managers(l.class) \cup {Creator[l.task]}
    BY <1>1, <1>10 DEF CallFits, TaskFits, Managers
  <1> QED BY <1>1, <1>7, <1>8, <1>9, <1>11, <1>12, UnlinkStep

LEMMA ToldBoth ==
  ASSUME NEW P, NEW Q
  PROVE  \E b \in BOOLEAN : b = (P /\ Q)
  <1>1. CASE P /\ Q
    <2>1. (P /\ Q) = TRUE
      BY <1>1, SMT
    <2> WITNESS TRUE \in BOOLEAN
    <2> QED BY <2>1
  <1>2. CASE ~(P /\ Q)
    <2>1. (P /\ Q) = FALSE
      BY <1>2, SMT
    <2> WITNESS FALSE \in BOOLEAN
    <2> QED BY <2>1
  <1> QED BY <1>1, <1>2

LEMMA AddLinkKeeps ==
  ASSUME IInv, NEW k \in Slots, NEW x \in Classes, AddLink(k, x)
  PROVE  IInv' /\ ByRight
  <1>1. /\ k \in Serving /\ CallFits(call[k]) /\ call[k] # None
        /\ call[k].at = "add" /\ x \in call[k].todo
        /\ UNCHANGED <<open, task, flags, published, lists, entries>>
    BY InCall DEF AddLink
  <1>2. /\ call[k].op \in {"createTask", "updateTask"} /\ call[k].task \in Tasks
        /\ call[k].user \in Managers(x) /\ MayLink(call[k].user, call[k].task)
        /\ call[k] \in Calls /\ call[k].todo \subseteq Classes
    BY <1>1 DEF CallFits, TaskFits, MayLink
  <1> DEFINE fits == x \in open /\ Present(call[k].task)
  <1>3. PICK b \in BOOLEAN : b = (call[k].ok /\ fits)
    BY ToldBoth
  <1>4. PICK rest : rest = call[k].todo \ {x}
    OBVIOUS
  <1>5. PICK c : /\ call' = [call EXCEPT ![k] = c] /\ c # call[k]
                 /\ c = None \/ CallFits(c)'
    <2>1. CASE Finish(k)
      BY <1>1, <2>1 DEF Finish
    <2>2. CASE rest # {} /\ call' = [call EXCEPT ![k].todo = rest, ![k].ok = b]
      <3>1. PICK c : c = [call[k] EXCEPT !.todo = rest, !.ok = b]
        OBVIOUS
      <3>2. call' = [call EXCEPT ![k] = c]
        BY <2>2, <3>1
      <3>3. /\ c.todo = rest /\ c.op = call[k].op /\ c.at = "add" /\ c.user = call[k].user
            /\ c.task = call[k].task /\ c.want = call[k].want
        BY <1>1, <1>2, <3>1 DEF Calls
      <3>4. c \in Calls
        <4> SUFFICES ASSUME NEW d \in BOOLEAN, d = b
                     PROVE  c \in Calls
          BY <1>3
        <4>1. rest \in Named
          BY <1>2, <1>4 DEF Named
        <4> QED BY <1>2, <3>1, <4>1 DEF Calls, Named
      <3>5. CallFits(c)'
        BY <1>1, <1>2, <1>4, <3>3, <3>4 DEF CallFits, TaskFits, ClassFits, RowsFit
      <3>6. c # call[k]
        BY <1>1, <1>4, <3>3
      <3> QED BY <3>2, <3>5, <3>6
    <2>3. CASE call[k].op = "updateTask" /\ GoWith(k, "write", {})
      <3>1. PICK c : c = Gone(call[k], "write", {})
        OBVIOUS
      <3>2. Same(c, call[k]) /\ c.at = "write" /\ c.todo = {}
        BY <1>2, <3>1, MovedWith DEF Named, Steps
      <3>3. call' = [call EXCEPT ![k] = c]
        BY <2>3, <3>1 DEF GoWith, Gone
      <3>4. CallFits(c)' /\ c # call[k]
        BY <1>1, <1>2, <2>3, <3>2 DEF CallFits, Same, TaskFits, ClassFits, RowsFit
      <3> QED BY <3>3, <3>4
    <2>4. \/ Finish(k)
          \/ rest # {} /\ call' = [call EXCEPT ![k].todo = rest, ![k].ok = b]
          \/ call[k].op = "updateTask" /\ GoWith(k, "write", {})
      BY <1>3, <1>4 DEF AddLink
    <2> QED BY <2>1, <2>2, <2>3, <2>4
  <1>6. CASE ~fits
    <2>1. links' = links \cup {}
      BY <1>6 DEF AddLink
    <2>2. PICK new \in SUBSET Link : new = {}
      OBVIOUS
    <2> QED BY <1>1, <1>5, <2>1, <2>2, LinkStep
  <1>7. CASE fits
    <2>1. PICK i \in FreeLinks : i = CHOOSE j \in FreeLinks : TRUE
      BY <1>7 DEF AddLink
    <2>2. PICK l : l = [id |-> i, class |-> x, task |-> call[k].task]
      OBVIOUS
    <2>3. links' = links \cup {l}
      BY <1>7, <2>1, <2>2 DEF AddLink
    <2>4. /\ l.id \in FreeLinks /\ l.class \in open /\ Present(l.task) /\ l \in Link
          /\ call[k].user \in Managers(l.class) /\ MayLink(call[k].user, l.task)
      BY <1>2, <1>7, <2>2 DEF Link, FreeLinks
    <2>5. PICK new \in SUBSET Link : new = {l}
      BY <2>4
    <2> QED BY <1>1, <1>5, <2>3, <2>4, <2>5, LinkStep
  <1> QED BY <1>6, <1>7

LEMMA LinkManyKeeps ==
  ASSUME IInv, NEW k \in Slots, LinkMany(k)
  PROVE  IInv' /\ ByRight
  <1>1. /\ k \in Serving /\ CallFits(call[k]) /\ call[k] # None
        /\ call[k].op = "createList" /\ call[k].at = "linkmany"
        /\ UNCHANGED <<open, task, flags, published, lists, entries>>
    BY InCall DEF LinkMany, At
  <1>2. CASE Finish(k) /\ UNCHANGED links
    BY <1>1, <1>2, EndStep DEF tables
  <1>3. CASE /\ call[k].class \in open /\ \A t \in call[k].todo : Present(t)
             /\ Cardinality(FreeLinks) >= Cardinality(call[k].todo)
             /\ links' = links \cup
                  {[id |-> Draw(call[k].todo, FreeLinks)[t], class |-> call[k].class, task |-> t] :
                     t \in call[k].todo}
             /\ GoWith(k, "resolve", {})
    <2>1. PICK ts, x : ts = call[k].todo /\ x = call[k].class
      OBVIOUS
    <2>2. /\ ts \subseteq Tasks /\ x \in Classes /\ call[k] \in Calls
          /\ call[k].user \in Managers(x) /\ \A t \in ts : MayLink(call[k].user, t)
      BY <1>1, <2>1 DEF CallFits, ClassFits
    <2>3. IsFiniteSet(ts) /\ IsFiniteSet(FreeLinks)
      BY <2>2, RowsAssumption, FS_Subset DEF FreeLinks
    <2>4. PICK id : id = Draw(ts, FreeLinks)
      OBVIOUS
    <2>5. id \in [ts -> FreeLinks] /\ \A s, t \in ts : id[s] = id[t] => s = t
      BY <1>3, <2>1, <2>3, <2>4, DrawsApart
    <2>6. PICK new : new = {[id |-> id[t], class |-> x, task |-> t] : t \in ts}
      OBVIOUS
    <2>7. new \in SUBSET Link /\ links' = links \cup new
      BY <1>3, <2>1, <2>2, <2>4, <2>5, <2>6 DEF Link, FreeLinks
    <2>8. \A l \in new : /\ l.id \in FreeLinks /\ l.class \in open /\ Present(l.task)
                         /\ call[k].user \in Managers(l.class)
                         /\ MayLink(call[k].user, l.task)
      BY <1>3, <2>1, <2>2, <2>5, <2>6
    <2>9. \A l, m \in new : l.id = m.id => l = m
      BY <2>5, <2>6
    <2>10. PICK c : c = Gone(call[k], "resolve", {})
      OBVIOUS
    <2>11. Same(c, call[k]) /\ c.at = "resolve" /\ c.todo = {} /\ c.list = call[k].list
      BY <2>2, <2>10, MovedWith DEF Named, Steps
    <2>12. call' = [call EXCEPT ![k] = c]
      BY <1>3, <2>10 DEF GoWith, Gone
    <2>13. CallFits(c)' /\ c # call[k]
      BY <1>1, <2>11 DEF CallFits, Same, TaskFits, ClassFits, RowsFit, MayLink
    <2> QED BY <1>1, <2>7, <2>8, <2>9, <2>12, <2>13, LinkStep
  <1> QED BY <1>2, <1>3 DEF LinkMany

-------------------------------------------------------------------------------
(* Tasks, lists and entries *)

\* A call that writes a task.
LEMMA TaskStep ==
  ASSUME IInv, NEW k \in Serving, NEW c, call' = [call EXCEPT ![k] = c],
         c = None \/ CallFits(c)',
         task' \in [Tasks -> {"unborn", "live", "soft", "gone"}],
         \A t \in Tasks : Present(t) => Present(t)',
         SetFlags(call[k].task, call[k].patch), call[k].task \in Tasks,
         UNCHANGED <<open, links, lists, entries>>
  PROVE  IInv' /\ ByRight
  <1> DEFINE t0 == call[k].task
             p  == call[k].patch
  <1>1. /\ k \in Slots /\ DOMAIN call' = Slots /\ call'[k] = c
        /\ \A j \in Slots : j # k => call'[j] = call[j]
    BY DEF Serving, IInv, TablesFit
  <1>2. /\ p.given \subseteq Flags /\ p.on \subseteq Flags
        /\ flags \in [Tasks -> SUBSET Flags] /\ published \subseteq Tasks
    BY DEF IInv, TablesFit, CallsFit, CallFits, Calls
  <1>3. /\ flags' \in [Tasks -> SUBSET Flags]
        /\ \A t \in Tasks \ {t0} : flags'[t] = flags[t]
    BY <1>2 DEF SetFlags
  <1>4. /\ published \subseteq published' /\ published' \subseteq Tasks
        /\ Shared(flags'[t0]) => t0 \in published'
    BY <1>2 DEF SetFlags
  <1>5. PublishedFits'
    BY <1>3, <1>4 DEF IInv, PublishedFits
  <1>6. CallsFit'
    BY <1>1, <1>4, CallsKept
  <1>7. TablesFit' /\ EntriesWithinClass'
    BY <1>1, <1>3, <1>4 DEF IInv, TablesFit, EntriesWithinClass, Link
  <1>8. ByRight
    BY DEF ByRight
  <1> QED BY <1>5, <1>6, <1>7, <1>8 DEF IInv

LEMMA InsertTaskKeeps ==
  ASSUME IInv, NEW k \in Slots, InsertTask(k)
  PROVE  IInv' /\ ByRight
  <1>1. /\ k \in Serving /\ CallFits(call[k]) /\ call[k].op = "createTask"
        /\ SetFlags(call[k].task, call[k].patch) /\ UNCHANGED <<open, links, lists, entries>>
    BY InCall DEF InsertTask, At
  <1>2. call[k].task \in Tasks /\ call[k] \in Calls /\ published \subseteq published'
    BY <1>1 DEF CallFits, TaskFits, SetFlags
  <1>3. /\ task' \in [Tasks -> {"unborn", "live", "soft", "gone"}]
        /\ \A t \in Tasks : Present(t) => Present(t)'
    BY <1>2 DEF InsertTask, IInv, TablesFit, Present
  <1>4. PICK c : call' = [call EXCEPT ![k] = c] /\ (c = None \/ CallFits(c)')
    <2>1. CASE Finish(k)
      BY <2>1 DEF Finish
    <2>2. CASE GoTo(k, "classes")
      <3>1. PICK c : c = [call[k] EXCEPT !.at = "classes"]
        OBVIOUS
      <3>2. "classes" \in Steps
        BY DEF Steps
      <3>3. Same(c, call[k]) /\ c.at = "classes" /\ c.todo = call[k].todo
        BY <1>2, <3>1, <3>2, Moved
      <3>4. call' = [call EXCEPT ![k] = c]
        BY <2>2, <3>1 DEF GoTo
      <3>5. CallFits(c)'
        BY <1>1, <3>3 DEF CallFits, Same, TaskFits, ClassFits, RowsFit
      <3> QED BY <3>4, <3>5
    <2> QED BY <2>1, <2>2 DEF InsertTask, Proceed
  <1> QED BY <1>1, <1>2, <1>3, <1>4, TaskStep

LEMMA UpdateTaskKeeps ==
  ASSUME IInv, NEW k \in Slots, UpdateTask(k)
  PROVE  IInv' /\ ByRight
  <1>1. /\ k \in Serving /\ CallFits(call[k]) /\ call[k].op = "updateTask"
        /\ call' = [call EXCEPT ![k] = None] /\ UNCHANGED <<open, task, links, lists, entries>>
    BY InCall DEF UpdateTask, At, Finish
  <1>2. /\ call[k].task \in Tasks
        /\ task' \in [Tasks -> {"unborn", "live", "soft", "gone"}]
        /\ \A t \in Tasks : Present(t) => Present(t)'
    BY <1>1 DEF CallFits, TaskFits, IInv, TablesFit, Present
  <1>3. CASE SetFlags(call[k].task, call[k].patch)
    BY <1>1, <1>2, <1>3, TaskStep
  <1>4. CASE UNCHANGED <<flags, published>>
    BY <1>1, <1>4, EndStep DEF Finish, tables, Serving
  <1> QED BY <1>3, <1>4 DEF UpdateTask

LEMMA InsertListKeeps ==
  ASSUME IInv, NEW k \in Slots, InsertList(k)
  PROVE  IInv' /\ ByRight
  <1>1. /\ k \in Serving /\ CallFits(call[k]) /\ call[k] \in Calls
        /\ call[k].op = "createList" /\ call[k].at = "list"
        /\ call[k].class \in Classes /\ lists \subseteq List /\ entries \subseteq Entry
        /\ UNCHANGED <<open, task, flags, published, links, entries>>
    BY InCall DEF InsertList, At, CallFits, ClassFits, IInv, TablesFit
  <1>2. CASE Finish(k) /\ UNCHANGED lists
    BY <1>1, <1>2, EndStep DEF tables
  <1>3. ASSUME call[k].class \in open, NEW i \in FreeLists,
               lists' = lists \cup {[id |-> i, class |-> call[k].class]},
               \/ Finish(k)
               \/ call' = [call EXCEPT ![k].list = i, ![k].at = "inclass"]
        PROVE  IInv' /\ ByRight
    <2>1. PICK ls : ls = [id |-> i, class |-> call[k].class]
      OBVIOUS
    <2>2. /\ ls \in List /\ ls.id = i /\ ls.class = call[k].class /\ i \in ListIds
          /\ \A m \in lists : m.id # i
      BY <1>1, <2>1 DEF List, FreeLists
    <2>3. lists' = lists \cup {ls}
      BY <1>3, <2>1
    <2>4. PICK c : call' = [call EXCEPT ![k] = c] /\ (c = None \/ CallFits(c)')
      <3>1. CASE Finish(k)
        BY <3>1 DEF Finish
      <3>2. CASE call' = [call EXCEPT ![k].list = i, ![k].at = "inclass"]
        <4>1. PICK c : c = [call[k] EXCEPT !.list = i, !.at = "inclass"]
          OBVIOUS
        <4>2. call' = [call EXCEPT ![k] = c]
          BY <3>2, <4>1
        <4>3. "inclass" \in Steps
          BY DEF Steps
        <4>4. /\ c \in Calls /\ c.op = "createList" /\ c.at = "inclass" /\ c.list = i
              /\ c.user = call[k].user /\ c.class = call[k].class /\ c.want = call[k].want
              /\ c.todo = call[k].todo
          BY <1>1, <2>2, <4>1, <4>3 DEF Calls
        <4>5. CallFits(c)'
          BY <1>1, <2>2, <2>3, <4>4 DEF CallFits, TaskFits, ClassFits, RowsFit, MayLink
        <4> QED BY <4>2, <4>5
      <3> QED BY <1>3, <3>1, <3>2
    <2>5. EntriesWithinClass'
      BY <1>1, <2>3 DEF IInv, EntriesWithinClass
    <2>6. \A l, m \in lists' : l.id = m.id => l = m
      BY <2>2, <2>3 DEF IInv, TablesFit
    <2>7. /\ lists' \subseteq List /\ entries' \subseteq Entry
          /\ \A m \in lists' : m \in lists \/ (m.id \in FreeLists /\ m.class \in open)
      BY <1>1, <1>3, <2>2, <2>3
    <2> QED BY <1>1, <2>4, <2>5, <2>6, <2>7, EntryStep
  <1>4. CASE call[k].class \in open
    <2>1. PICK i \in FreeLists : i = CHOOSE j \in FreeLists : TRUE
      BY <1>4 DEF InsertList
    <2>2. lists' = lists \cup {[id |-> i, class |-> call[k].class]}
      BY <1>4, <2>1 DEF InsertList
    <2>3. Finish(k) \/ call' = [call EXCEPT ![k].list = i, ![k].at = "inclass"]
      BY <1>4, <2>1 DEF InsertList
    <2> QED BY <1>3, <1>4, <2>2, <2>3
  <1> QED BY <1>2, <1>4 DEF InsertList

LEMMA InsertEntriesKeeps ==
  ASSUME IInv, NEW k \in Slots, InsertEntries(k)
  PROVE  IInv' /\ ByRight
  <1>1. /\ k \in Serving /\ CallFits(call[k]) /\ call[k].op = "createList"
        /\ call[k].at = "entries" /\ call' = [call EXCEPT ![k] = None]
        /\ UNCHANGED <<open, task, flags, published, links, lists>>
    BY InCall DEF InsertEntries, At, Finish
  <1>2. CASE UNCHANGED entries
    BY <1>1, <1>2, EndStep DEF Finish, tables
  <1>3. CASE ~UNCHANGED entries
    <2>1. PICK ids, i : ids = call[k].picked /\ i = call[k].list
      OBVIOUS
    <2>2. /\ i \in {ls.id : ls \in lists} /\ ids \subseteq {l.id : l \in links}
          /\ Cardinality(FreeEntries) >= Cardinality(ids)
          /\ entries' = entries \cup
               {[id |-> Draw(ids, FreeEntries)[l], link |-> l, list |-> i] : l \in ids}
      BY <1>3, <2>1 DEF InsertEntries
    <2>3. /\ ids \subseteq LinkIds /\ i \in ListIds
          /\ \A l \in links : l.id \in ids => l.class = call[k].class
          /\ \A ls \in lists : ls.id = i => ls.class = call[k].class
      BY <1>1, <2>1 DEF CallFits, RowsFit, Calls
    <2>4. IsFiniteSet(ids) /\ IsFiniteSet(FreeEntries)
      BY <2>3, RowsAssumption, FS_Subset DEF FreeEntries
    <2>5. PICK id : id = Draw(ids, FreeEntries)
      OBVIOUS
    <2>6. id \in [ids -> FreeEntries]
      BY <2>2, <2>4, <2>5, DrawsApart
    <2>7. PICK new : new = {[id |-> id[l], link |-> l, list |-> i] : l \in ids}
      OBVIOUS
    <2>8. entries' = entries \cup new
      BY <2>2, <2>5, <2>7
    <2>9. /\ new \subseteq Entry
          /\ \A e \in new : e.link \in ids /\ e.list = i
      BY <2>3, <2>6, <2>7 DEF Entry, FreeEntries
    <2>10. \A e \in new : \E l \in links, ls \in lists :
             l.id = e.link /\ ls.id = e.list /\ l.class = ls.class
      BY <2>2, <2>3, <2>9
    <2>11. EntriesWithinClass'
      BY <1>1, <2>8, <2>10 DEF IInv, EntriesWithinClass
    <2>12. /\ lists' \subseteq List /\ entries' \subseteq Entry /\ lists' = lists
           /\ \A ls, m \in lists' : ls.id = m.id => ls = m
      BY <1>1, <2>8, <2>9 DEF IInv, TablesFit
    <2>13. k \in Slots /\ \A ls \in lists' : ls \in lists
      BY <2>12
    <2> QED BY <1>1, <2>11, <2>12, <2>13, EntryStep
  <1> QED BY <1>2, <1>3

LEMMA DeleteListKeeps ==
  ASSUME IInv, NEW k \in Slots, DeleteList(k)
  PROVE  IInv' /\ ByRight
  <1>1. /\ call' = [call EXCEPT ![k] = None] /\ UNCHANGED <<open, task, flags, published, links>>
        /\ lists' \subseteq lists /\ entries' \subseteq entries
        /\ lists \subseteq List /\ entries \subseteq Entry
    BY DEF DeleteList, Finish, IInv, TablesFit
  <1>2. EntriesWithinClass'
    BY <1>1 DEF DeleteList, IInv, EntriesWithinClass
  <1>3. \A ls, m \in lists' : ls.id = m.id => ls = m
    BY <1>1 DEF IInv, TablesFit
  <1>4. lists' \subseteq List /\ entries' \subseteq Entry /\ \A ls \in lists' : ls \in lists
    BY <1>1
  <1> QED BY <1>1, <1>2, <1>3, <1>4, EntryStep

LEMMA InsertEntryKeeps ==
  ASSUME IInv, NEW k \in Slots, InsertEntry(k)
  PROVE  IInv' /\ ByRight
  <1>1. /\ k \in Serving /\ CallFits(call[k]) /\ call[k].op = "addEntry"
        /\ call[k].at = "insert" /\ call' = [call EXCEPT ![k] = None]
        /\ UNCHANGED <<open, task, flags, published, links, lists>>
    BY InCall DEF InsertEntry, At, Finish
  <1>2. CASE UNCHANGED entries
    BY <1>1, <1>2, EndStep DEF Finish, tables
  <1>3. CASE ~UNCHANGED entries
    <2>1. PICK x \in FreeEntries : x = CHOOSE e \in FreeEntries : TRUE
      BY <1>3 DEF InsertEntry
    <2>2. PICK e : e = [id |-> x, link |-> call[k].link, list |-> call[k].list]
      OBVIOUS
    <2>3. /\ call[k].link \in {m.id : m \in links} /\ call[k].list \in {ls.id : ls \in lists}
          /\ entries' = entries \cup {e}
      BY <1>3, <2>1, <2>2 DEF InsertEntry
    <2>4. e \in Entry /\ e.link = call[k].link /\ e.list = call[k].list
      BY <1>1, <2>2 DEF Entry, CallFits, RowsFit, FreeEntries
    <2>5. \E l \in links, ls \in lists : l.id = e.link /\ ls.id = e.list /\ l.class = ls.class
      BY <1>1, <2>3, <2>4 DEF CallFits, RowsFit
    <2>6. EntriesWithinClass'
      BY <1>1, <2>3, <2>5 DEF IInv, EntriesWithinClass
    <2>7. /\ lists' \subseteq List /\ entries' \subseteq Entry /\ \A ls \in lists' : ls \in lists
          /\ \A ls, m \in lists' : ls.id = m.id => ls = m
      BY <1>1, <2>3, <2>4 DEF IInv, TablesFit
    <2> QED BY <1>1, <2>6, <2>7, EntryStep
  <1> QED BY <1>2, <1>3

LEMMA DeleteEntryKeeps ==
  ASSUME IInv, NEW k \in Slots, DeleteEntry(k)
  PROVE  IInv' /\ ByRight
  <1>1. /\ call' = [call EXCEPT ![k] = None]
        /\ UNCHANGED <<open, task, flags, published, links, lists>>
        /\ entries' \subseteq entries
    BY DEF DeleteEntry, Finish
  <1>2. EntriesWithinClass'
    BY <1>1 DEF IInv, EntriesWithinClass
  <1>3. /\ lists' \subseteq List /\ entries' \subseteq Entry /\ \A ls \in lists' : ls \in lists
        /\ \A ls, m \in lists' : ls.id = m.id => ls = m
    BY <1>1 DEF IInv, TablesFit
  <1> QED BY <1>1, <1>2, <1>3, EntryStep

-------------------------------------------------------------------------------
(* What others delete *)

LEMMA DeleteClassKeeps ==
  ASSUME IInv, NEW x \in Classes, DeleteClass(x)
  PROVE  IInv' /\ ByRight
  <1>1. /\ open' = open \ {x} /\ lists' = {ls \in lists : ls.class # x}
        /\ UNCHANGED <<task, flags, published, call>>
    BY DEF DeleteClass
  <1>2. PICK gone \in SUBSET links : gone = LinksOf(x)
    BY DEF LinksOf
  <1>3. Remove(gone)
    BY <1>2 DEF DeleteClass
  <1>4. links' \subseteq links /\ entries' \subseteq entries /\ EntriesWithinClass'
    BY <1>1, <1>2, <1>3, RemoveKeeps DEF LinksOf
  <1>5. \A l \in links' : l.class # x
    BY <1>2, <1>3 DEF Remove, LinksOf
  <1>6. CallsFit'
    BY <1>1, <1>4, CallsKept DEF IInv, TablesFit
  <1>7. TablesFit' /\ PublishedFits'
    BY <1>1, <1>4, <1>5 DEF IInv, TablesFit, PublishedFits, Present
  <1>8. ByRight
    BY <1>1, <1>2, <1>3 DEF ByRight, RemovedByRight, Remove, LinksOf
  <1> QED BY <1>4, <1>6, <1>7, <1>8 DEF IInv

LEMMA DeleteTaskKeeps ==
  ASSUME IInv, NEW t \in Tasks, NEW soft \in BOOLEAN, DeleteTask(t, soft)
  PROVE  IInv' /\ ByRight
  <1>1. UNCHANGED <<open, flags, published, lists, call>>
    BY DEF DeleteTask
  <1>2. PICK gone \in SUBSET links :
          /\ Remove(gone) /\ \A l \in gone : l.task = t /\ ~soft
          /\ ~soft => \A l \in links \ gone : l.task # t
    BY DEF DeleteTask
  <1>3. links' \subseteq links /\ entries' \subseteq entries /\ EntriesWithinClass'
    BY <1>1, <1>2, RemoveKeeps
  <1>4. CallsFit'
    BY <1>1, <1>3, CallsKept DEF IInv, TablesFit
  <1>5. /\ task' \in [Tasks -> {"unborn", "live", "soft", "gone"}]
        /\ \A s \in Tasks \ {t} : task'[s] = task[s]
        /\ task'[t] = IF soft THEN "soft" ELSE "gone"
    BY DEF DeleteTask, IInv, TablesFit
  <1>6. \A l \in links' : Present(l.task)'
    BY <1>2, <1>3, <1>5 DEF IInv, TablesFit, Present, Remove, Link
  <1>7. TablesFit' /\ PublishedFits'
    BY <1>1, <1>3, <1>5, <1>6 DEF IInv, TablesFit, PublishedFits
  <1>8. ByRight
    BY <1>2, <1>3, <1>5 DEF ByRight, RemovedByRight, Remove
  <1> QED BY <1>3, <1>4, <1>7, <1>8 DEF IInv

-------------------------------------------------------------------------------
LEMMA InitFits == Init => IInv
  <1> SUFFICES ASSUME Init PROVE IInv
    OBVIOUS
  <1> USE DEF Init
  <1>1. CallsFit
    BY DEF CallsFit, Serving
  <1>2. TablesFit /\ PublishedFits /\ EntriesWithinClass
    BY DEF TablesFit, PublishedFits, EntriesWithinClass, Shared, Flags, Link, List, Entry
  <1> QED BY <1>1, <1>2 DEF IInv

LEMMA StepKeeps ==
  ASSUME IInv, NEW k \in Slots, Step(k)
  PROVE  IInv' /\ ByRight
  <1>1. CASE InsertTask(k) \/ OwnClasses(k) \/ \E c \in Classes : AddLink(k, c)
    BY <1>1, InsertTaskKeeps, OwnClassesKeeps, AddLinkKeeps
  <1>2. CASE ReadTask(k) \/ ReadLinks(k) \/ \E c \in Classes : Unlink(k, c)
    BY <1>2, ReadTaskKeeps, ReadLinksKeeps, UnlinkKeeps
  <1>3. CASE AllClasses(k) \/ UpdateTask(k)
    BY <1>3, AllClassesKeeps, UpdateTaskKeeps
  <1>4. CASE ReadClass(k) \/ UsableTask(k) \/ InsertLink(k) \/ FindLink(k) \/ DeleteLinks(k)
    BY <1>4, ReadClassKeeps, UsableTaskKeeps, InsertLinkKeeps, FindLinkKeeps, DeleteLinksKeeps
  <1>5. CASE ValidateTasks(k) \/ InsertList(k) \/ TasksInClass(k) \/ LinkMany(k)
    BY <1>5, ValidateTasksKeeps, InsertListKeeps, TasksInClassKeeps, LinkManyKeeps
  <1>6. CASE (\E picked \in SUBSET links : ResolveLinks(k, picked)) \/ InsertEntries(k)
    BY <1>6, ResolveLinksKeeps, InsertEntriesKeeps
  <1>7. CASE ReadList(k) \/ DeleteList(k) \/ ReadRows(k) \/ InsertEntry(k)
    BY <1>7, ReadListKeeps, DeleteListKeeps, ReadRowsKeeps, InsertEntryKeeps
  <1>8. CASE ReadEntry(k) \/ DeleteEntry(k) \/ Fail(k)
    BY <1>8, ReadEntryKeeps, DeleteEntryKeeps, FailKeeps
  <1> QED BY <1>1, <1>2, <1>3, <1>4, <1>5, <1>6, <1>7, <1>8 DEF Step

LEMMA NextKeeps == IInv /\ [Next]_vars => IInv' /\ ByRight
  <1> SUFFICES ASSUME IInv, [Next]_vars PROVE IInv' /\ ByRight
    OBVIOUS
  <1>1. CASE UNCHANGED vars
    <2>1. UNCHANGED <<open, task, flags, published, links, lists, entries, call>>
      BY <1>1 DEF vars, tables
    <2>2. DOMAIN call' = Slots /\ \A j \in Slots : call'[j] = call[j]
      BY <2>1 DEF IInv, TablesFit
    <2>3. CallsFit'
      BY <2>1, <2>2, CallsKept
    <2>4. TablesFit' /\ PublishedFits' /\ EntriesWithinClass'
      BY <2>1 DEF IInv, TablesFit, PublishedFits, EntriesWithinClass, Present
    <2>5. ByRight
      BY <2>1 DEF ByRight
    <2> QED BY <2>3, <2>4, <2>5 DEF IInv
  <1>2. CASE Next
    BY <1>2, BeginKeeps, StepKeeps, DeleteClassKeeps, DeleteTaskKeeps DEF Next
  <1> QED BY <1>1, <1>2

\* The invariant everything below follows from.
THEOREM Inductive == Spec => []IInv
  <1>1. Init => IInv
    BY InitFits
  <1>2. IInv /\ [Next]_vars => IInv'
    BY NextKeeps
  <1> QED BY <1>1, <1>2, PTL DEF Spec

\* Types, primary keys and the foreign keys of ClassTask and List.
THEOREM CourseworkTypeCorrect == Spec => []TypeOK
  <1>1. IInv => TypeOK
    BY DEF IInv, TablesFit, CallsFit, CallFits, Serving, TypeOK
  <1> QED BY <1>1, Inductive, PTL

\* The class comparison of class-task-list.service.ts, and the class list.service.ts
\* carries from its first read to its last insert, keep an entry within one class.
THEOREM EntriesStayWithinClass == Spec => []EntriesWithinClass
  <1>1. IInv => EntriesWithinClass
    BY DEF IInv
  <1> QED BY <1>1, Inductive, PTL

\* Rights read awaits before the insert are enough: a class never changes hands.
THEOREM OnlyManagersLink == Spec => LinksByManagers
  <1>1. IInv /\ [Next]_vars => [\A l \in links' \ links : LinkedByManager(l)]_vars
    BY NextKeeps DEF ByRight
  <1> QED BY <1>1, Inductive, PTL DEF Spec, LinksByManagers

\* canUseTask and validateTasks are enough: what a professor could use once
\* has been public.
THEOREM PrivateTasksStay == Spec => PrivateTasksStayPrivate
  <1>1. IInv /\ [Next]_vars => [\A l \in links' \ links : LinkedRightfully(l)]_vars
    BY NextKeeps DEF ByRight
  <1> QED BY <1>1, Inductive, PTL DEF Spec, PrivateTasksStayPrivate

\* syncTaskClasses unlinks before it has looked at a class, by right of the task.
THEOREM OnlyByRightUnlinked == Spec => LinksRemovedByRight
  <1>1. IInv /\ [Next]_vars => [\A l \in links \ links' : RemovedByRight(l)]_vars
    BY NextKeeps DEF ByRight
  <1> QED BY <1>1, Inductive, PTL DEF Spec, LinksRemovedByRight

-------------------------------------------------------------------------------
(* One call at a time *)

Linked(x, t) == \E l \in links : l.class = x /\ l.task = t

\* What a call is about to link is not linked yet.
NewToClass(c) ==
  /\ c.op = "createTask" /\ c.at = "insert" => task[c.task] = "unborn"
  /\ c.op = "createTask" /\ c.at = "classes" => \A x \in Classes : ~Linked(x, c.task)
  /\ c.op = "updateTask" /\ c.at \in {"unlink", "classes"} =>
       \A x \in c.later : ~Linked(x, c.task)
  /\ c.at = "add" => \A x \in c.todo : ~Linked(x, c.task)
  /\ c.op = "createList" /\ c.at = "linkmany" => \A t \in c.todo : ~Linked(c.class, t)
  /\ c.op = "linkTask" /\ c.ok => ~Linked(c.class, c.task)

\* What syncTaskClasses has removed and what it has still to add.
SyncFits(c) ==
  c.op = "updateTask" /\ c.sync /\ Present(c.task) =>
    /\ c.at = "unlink" => c.todo \cap c.want = {}
    /\ c.at \in {"unlink", "classes"} => c.later \subseteq c.want
    /\ c.at = "add" => c.todo \subseteq c.want
    /\ c.at \in {"unlink", "classes", "add", "write"} =>
         /\ \A x \in Classes : Linked(x, c.task) =>
               x \in c.want \/ (c.at = "unlink" /\ x \in c.todo)
         /\ \A x \in c.want \cap open :
               \/ Linked(x, c.task)
               \/ c.at \in {"unlink", "classes"} /\ x \in c.later
               \/ c.at = "add" /\ (x \in c.todo \/ ~c.ok)

\* The list of POST /list is empty until its entries come, and each of the tasks
\* has a link by then, of which one is picked.
ListFits(c) ==
  c.op = "createList" =>
    /\ c.at \in {"inclass", "linkmany", "resolve", "entries"} =>
         \A e \in entries : e.list # c.list
    /\ c.at \in {"linkmany", "resolve"} =>
         \A t \in c.want : Present(t) /\ c.class \in open =>
           Linked(c.class, t) \/ (c.at = "linkmany" /\ t \in c.todo)
    /\ c.at = "entries" =>
         /\ \A t \in c.want : Present(t) /\ c.class \in open =>
               \E l \in links : l.id \in c.picked /\ l.task = t
         /\ \A l, m \in links :
               l.id \in c.picked /\ m.id \in c.picked /\ l.task = m.task => l = m

AloneFits(c) == NewToClass(c) /\ SyncFits(c) /\ ListFits(c)

AloneInv == \A k \in Serving : AloneFits(call[k])

\* What a step does to the links and the entries when no other call is served.
ByTheBook ==
  /\ \A l \in links' \ links : LinkedTwice(l) => Unoffered(l)
  /\ \A k \in Slots : ListComplete(k)

\* c is call d at another await, with all it will still look at.
Carries(c, d) == Same(c, d) /\ c.sync = d.sync /\ c.later = d.later /\ c.ok = d.ok

LEMMA CarriedWith ==
  ASSUME NEW d \in Calls, NEW a \in Steps, NEW S \in Named
  PROVE  Carries(Gone(d, a, S), d) /\ Gone(d, a, S).at = a /\ Gone(d, a, S).todo = S
         /\ Gone(d, a, S).list = d.list
  <1>1. Same(Gone(d, a, S), d) /\ Gone(d, a, S).at = a /\ Gone(d, a, S).todo = S
        /\ Gone(d, a, S).list = d.list
    BY MovedWith
  <1>2. /\ Gone(d, a, S).sync = d.sync /\ Gone(d, a, S).later = d.later
        /\ Gone(d, a, S).ok = d.ok
    BY DEF Calls, Gone
  <1> QED BY <1>1, <1>2 DEF Carries

LEMMA CarriedTo ==
  ASSUME NEW d \in Calls, NEW a \in Steps, NEW c, c = [d EXCEPT !.at = a]
  PROVE  Carries(c, d) /\ c.at = a /\ c.todo = d.todo /\ c.list = d.list
  <1>1. Same(c, d) /\ c.at = a /\ c.todo = d.todo /\ c.list = d.list
    BY Moved
  <1>2. c.sync = d.sync /\ c.later = d.later /\ c.ok = d.ok
    BY DEF Calls
  <1> QED BY <1>1, <1>2 DEF Carries

\* The one call goes on as c, or ends.
LEMMA AloneStep ==
  ASSUME IInv, NEW k, Slots = {k}, NEW c, call' = [call EXCEPT ![k] = c],
         c = None \/ AloneFits(c)'
  PROVE  AloneInv'
  <1>1. call'[k] = c
    BY DEF IInv, TablesFit
  <1> QED BY <1>1 DEF AloneInv, Serving

LEMMA QuietStep ==
  ASSUME IInv, NEW k, Slots = {k}, NEW c, call' = [call EXCEPT ![k] = c],
         UNCHANGED tables, c = None \/ AloneFits(c)
  PROVE  AloneInv' /\ ByTheBook
  <1>1. UNCHANGED <<open, task, flags, published, links, lists, entries>>
    BY DEF tables
  <1>2. AloneFits(c) => AloneFits(c)'
    BY <1>1 DEF AloneFits, NewToClass, SyncFits, ListFits, Linked, Present
  <1>3. ByTheBook
    BY <1>1 DEF ByTheBook, ListComplete
  <1> QED BY <1>2, <1>3, AloneStep

LEMMA EndsQuietly ==
  ASSUME IInv, NEW k, Slots = {k}, Finish(k), UNCHANGED tables
  PROVE  AloneInv' /\ ByTheBook
  BY QuietStep DEF Finish

LEMMA GoToQuiet ==
  ASSUME IInv, NEW k, Slots = {k}, call[k] # None, NEW a \in Steps, GoTo(k, a),
         UNCHANGED tables,
         \A c : /\ Carries(c, call[k]) /\ c.at = a /\ c.todo = call[k].todo
                /\ c.list = call[k].list
                => NewToClass(c) /\ SyncFits(c) /\ ListFits(c)
  PROVE  AloneInv' /\ ByTheBook
  <1>1. call[k] \in Calls
    BY DEF Serving, IInv, CallsFit, CallFits
  <1>2. PICK c : c = [call[k] EXCEPT !.at = a]
    OBVIOUS
  <1>3. AloneFits(c)
    BY <1>1, <1>2, CarriedTo DEF AloneFits
  <1>4. call' = [call EXCEPT ![k] = c]
    BY <1>2 DEF GoTo
  <1> QED BY <1>3, <1>4, QuietStep

LEMMA GoWithQuiet ==
  ASSUME IInv, NEW k, Slots = {k}, call[k] # None, NEW a \in Steps, NEW S \in Named,
         GoWith(k, a, S), UNCHANGED tables,
         \A c : /\ Carries(c, call[k]) /\ c.at = a /\ c.todo = S /\ c.list = call[k].list
                => NewToClass(c) /\ SyncFits(c) /\ ListFits(c)
  PROVE  AloneInv' /\ ByTheBook
  <1>1. call[k] \in Calls
    BY DEF Serving, IInv, CallsFit, CallFits
  <1>2. PICK c : c = Gone(call[k], a, S)
    OBVIOUS
  <1>3. AloneFits(c)
    BY <1>1, <1>2, CarriedWith DEF AloneFits
  <1>4. call' = [call EXCEPT ![k] = c]
    BY <1>2 DEF GoWith, Gone
  <1> QED BY <1>3, <1>4, QuietStep

LEMMA ProceedQuiet ==
  ASSUME IInv, NEW k, Slots = {k}, call[k] # None, NEW cond, NEW a \in Steps,
         Proceed(k, cond, a), UNCHANGED tables,
         cond => \A c : /\ Carries(c, call[k]) /\ c.at = a /\ c.todo = call[k].todo
                        /\ c.list = call[k].list
                        => NewToClass(c) /\ SyncFits(c) /\ ListFits(c)
  PROVE  AloneInv' /\ ByTheBook
  <1>1. CASE cond
    BY <1>1, GoToQuiet DEF Proceed
  <1>2. CASE ~cond
    BY <1>2, EndsQuietly DEF Proceed
  <1> QED BY <1>1, <1>2

LEMMA InAlone ==
  ASSUME IInv, AloneInv, NEW k, Slots = {k}, call[k] # None
  PROVE  /\ k \in Serving /\ CallFits(call[k]) /\ call[k] \in Calls
         /\ AloneFits(call[k])
  BY DEF IInv, CallsFit, CallFits, AloneInv, Serving

\* Rows that go take the claims about them along.
LEMMA LessAlone ==
  ASSUME IInv, AloneInv, NEW k, Slots = {k}, UNCHANGED call,
         open' \subseteq open, links' \subseteq links, entries' \subseteq entries,
         \A t : Present(t)' => Present(t),
         \A t : task[t] = "unborn" => task'[t] = "unborn",
         \A l \in links : l.class \in open' /\ Present(l.task)' => l \in links'
  PROVE  AloneInv' /\ ByTheBook
  <1>1. ASSUME NEW c, AloneFits(c), CallFits(c)
        PROVE  AloneFits(c)'
    <2>1. NewToClass(c)'
      BY <1>1 DEF AloneFits, NewToClass, Linked
    <2>2. SyncFits(c)'
      BY <1>1 DEF AloneFits, SyncFits, Linked
    <2>3. ListFits(c)'
      BY <1>1 DEF AloneFits, ListFits, Linked, CallFits, RowsFit
    <2> QED BY <2>1, <2>2, <2>3 DEF AloneFits
  <1>2. AloneInv'
    <2> SUFFICES ASSUME call[k] # None
                 PROVE  \E c : c = call'[k] /\ AloneFits(c)'
      BY DEF AloneInv, Serving
    <2>1. PICK c : c = call[k] /\ AloneFits(c) /\ CallFits(c)
      BY InAlone
    <2> QED BY <1>1, <2>1
  <1>3. ByTheBook
    BY DEF ByTheBook, ListComplete, Acting
  <1> QED BY <1>2, <1>3

\* A call in its first await.
LEMMA StartsAlone ==
  ASSUME IInv, NEW k, Slots = {k}, NEW c, Start(k, c),
         \/ c.op = "createTask" /\ c.at = "insert" /\ task[c.task] = "unborn"
         \/ c.op = "updateTask" /\ c.at = "task"
         \/ c.op = "linkTask" /\ c.at = "class" /\ (c.ok => ~Linked(c.class, c.task))
         \/ c.op = "createList" /\ c.at = "class"
         \/ c.op \in {"unlinkTask", "deleteList", "addEntry", "removeEntry"} /\ c.at # "add"
  PROVE  AloneInv' /\ ByTheBook
  <1>1. NewToClass(c)
    BY DEF NewToClass
  <1>2. SyncFits(c)
    BY DEF SyncFits
  <1>3. ListFits(c)
    BY DEF ListFits
  <1> QED BY <1>1, <1>2, <1>3, QuietStep DEF Start, AloneFits

LEMMA BeginAlone ==
  ASSUME IInv, NEW k, Slots = {k}, Begin(k)
  PROVE  AloneInv' /\ ByTheBook
  <1> USE DEF Blank
  <1>1. ASSUME NEW t \in Tasks, NEW p \in Patches, NEW want \in SUBSET Classes,
               BeginCreateTask(k, t, p, want)
        PROVE  AloneInv' /\ ByTheBook
    BY <1>1, StartsAlone DEF BeginCreateTask
  <1>2. ASSUME NEW u \in Users, NEW t \in Tasks, NEW p \in Patches, NEW sync \in BOOLEAN,
               NEW want \in SUBSET Classes, BeginUpdateTask(k, u, t, p, sync, want)
        PROVE  AloneInv' /\ ByTheBook
    BY <1>2, StartsAlone DEF BeginUpdateTask
  <1>3. ASSUME NEW u \in Users, NEW x \in Classes, NEW t \in Tasks, BeginLinkTask(k, u, x, t)
        PROVE  AloneInv' /\ ByTheBook
    <2>0. PICK b \in BOOLEAN : b = (t \in Offered(u, x))
      BY Told
    <2>1. PICK c : c = [Blank("linkTask", "class", u) EXCEPT !.class = x, !.task = t, !.ok = b]
      OBVIOUS
    <2>2. Start(k, c)
      BY <1>3, <2>0, <2>1 DEF BeginLinkTask
    <2>3. c.op = "linkTask" /\ c.at = "class" /\ c.class = x /\ c.task = t /\ c.ok = b
      BY <2>1
    <2>4. b => ~Linked(x, t)
      BY <2>0 DEF Offered, LinksOf, Linked
    <2> QED BY <2>2, <2>3, <2>4, StartsAlone
  <1>4. ASSUME NEW u \in Users, NEW x \in Classes, NEW t \in Tasks, BeginUnlinkTask(k, u, x, t)
        PROVE  AloneInv' /\ ByTheBook
    BY <1>4, StartsAlone DEF BeginUnlinkTask
  <1>5. ASSUME NEW u \in Users, NEW x \in Classes, NEW want \in SUBSET Tasks,
               BeginCreateList(k, u, x, want)
        PROVE  AloneInv' /\ ByTheBook
    BY <1>5, StartsAlone DEF BeginCreateList
  <1>6. ASSUME NEW u \in Users, NEW ls \in lists, BeginDeleteList(k, u, ls)
        PROVE  AloneInv' /\ ByTheBook
    BY <1>6, StartsAlone DEF BeginDeleteList
  <1>7. ASSUME NEW u \in Users, NEW l \in links, NEW ls \in lists, BeginAddEntry(k, u, l, ls)
        PROVE  AloneInv' /\ ByTheBook
    BY <1>7, StartsAlone DEF BeginAddEntry
  <1>8. ASSUME NEW u \in Users, NEW e \in entries, BeginRemoveEntry(k, u, e)
        PROVE  AloneInv' /\ ByTheBook
    BY <1>8, StartsAlone DEF BeginRemoveEntry
  <1> QED BY <1>1, <1>2, <1>3, <1>4, <1>5, <1>6, <1>7, <1>8 DEF Begin

LEMMA OwnClassesAlone ==
  ASSUME IInv, AloneInv, NEW k, Slots = {k}, OwnClasses(k)
  PROVE  AloneInv' /\ ByTheBook
  <1>1. /\ CallFits(call[k]) /\ AloneFits(call[k]) /\ UNCHANGED tables /\ call[k] # None
        /\ call[k].op = "createTask" /\ call[k].at = "classes"
    BY InAlone DEF OwnClasses, At
  <1>2. PICK cs : /\ cs \subseteq Classes
                  /\ Finish(k) \/ GoWith(k, "add", cs)
    <2>1. Writable(call[k].user, call[k].want) \subseteq Classes
      BY <1>1 DEF Writable, CallFits, TaskFits
    <2> QED BY <2>1 DEF OwnClasses
  <1>3. cs \in Named /\ "add" \in Steps
    BY <1>2 DEF Named, Steps
  <1>4. ASSUME NEW c, Carries(c, call[k]), c.at = "add", c.todo = cs
        PROVE  NewToClass(c) /\ SyncFits(c) /\ ListFits(c)
    BY <1>1, <1>2, <1>4
       DEF Carries, Same, AloneFits, NewToClass, SyncFits, ListFits
  <1> QED BY <1>1, <1>2, <1>3, <1>4, GoWithQuiet, EndsQuietly

LEMMA ReadTaskAlone ==
  ASSUME IInv, AloneInv, NEW k, Slots = {k}, ReadTask(k)
  PROVE  AloneInv' /\ ByTheBook
  <1>1. /\ AloneFits(call[k]) /\ UNCHANGED tables /\ call[k] # None
        /\ call[k].op = "updateTask"
    BY InAlone DEF ReadTask, At
  <1>2. PICK a, cond :
          /\ a \in Steps \cap {"links", "write"} /\ Proceed(k, cond, a)
          /\ call[k].sync => a = "links"
    BY DEF ReadTask, Steps
  <1>3. ASSUME NEW c, Carries(c, call[k]), c.at = a
        PROVE  NewToClass(c) /\ SyncFits(c) /\ ListFits(c)
    BY <1>1, <1>2, <1>3 DEF Carries, Same, NewToClass, SyncFits, ListFits
  <1> QED BY <1>1, <1>2, <1>3, ProceedQuiet

LEMMA ReadLinksAlone ==
  ASSUME IInv, AloneInv, NEW k, Slots = {k}, ReadLinks(k)
  PROVE  AloneInv' /\ ByTheBook
  <1>1. /\ CallFits(call[k]) /\ call[k] \in Calls /\ UNCHANGED tables
        /\ call[k].op = "updateTask" /\ call[k].at = "links"
    BY InAlone DEF ReadLinks, At
  <1>2. PICK t, want, have : /\ t = call[k].task /\ want = call[k].want
                             /\ have = {l.class : l \in {m \in links : m.task = t}}
    OBVIOUS
  <1>3. PICK drop, add, a :
          /\ drop = have \ want /\ add = want \ have
          /\ a = CASE drop # {} -> "unlink"
                   [] drop = {} /\ add # {} -> "classes"
                   [] OTHER -> "write"
          /\ call' = [call EXCEPT ![k].todo = drop, ![k].later = add, ![k].at = a]
    BY <1>2 DEF ReadLinks
  <1>4. /\ a \in {"unlink", "classes", "write"} /\ a \in Steps
        /\ drop # {} => a = "unlink"
        /\ a = "write" => add = {}
    BY <1>3 DEF Steps
  <1>5. have \subseteq Classes /\ want \subseteq Classes /\ drop \in Named
        /\ add \subseteq Classes
    <2>1. \A l \in links : l.class \in Classes
      BY DEF IInv, TablesFit, Link
    <2>2. have \subseteq Classes
      BY <1>2, <2>1
    <2>3. want \subseteq Classes
      BY <1>1, <1>2 DEF CallFits, TaskFits
    <2> QED BY <1>3, <2>2, <2>3 DEF Named
  <1>6. PICK c : c = [call[k] EXCEPT !.todo = drop, !.later = add, !.at = a]
    OBVIOUS
  <1>7. call' = [call EXCEPT ![k] = c]
    BY <1>3, <1>6
  <1>8. /\ c.op = "updateTask" /\ c.at = a /\ c.todo = drop /\ c.later = add
        /\ c.task = t /\ c.want = want
    BY <1>1, <1>2, <1>6 DEF Calls
  <1>9. \A x : Linked(x, t) <=> x \in have
    BY <1>2 DEF Linked
  <1>10. NewToClass(c)
    BY <1>3, <1>4, <1>8, <1>9 DEF NewToClass
  <1>11. SyncFits(c)
    BY <1>3, <1>4, <1>8, <1>9 DEF SyncFits
  <1>12. ListFits(c)
    BY <1>8 DEF ListFits
  <1> QED BY <1>1, <1>7, <1>10, <1>11, <1>12, QuietStep DEF AloneFits

LEMMA AllClassesAlone ==
  ASSUME IInv, AloneInv, NEW k, Slots = {k}, AllClasses(k)
  PROVE  AloneInv' /\ ByTheBook
  <1>1. /\ call[k] \in Calls /\ AloneFits(call[k]) /\ UNCHANGED tables /\ call[k] # None
        /\ call[k].op = "updateTask" /\ call[k].at = "classes"
    BY InAlone DEF AllClasses, At
  <1>2. PICK cs : cs = call[k].later
    OBVIOUS
  <1>3. cs \in Named /\ "add" \in Steps
    BY <1>1, <1>2 DEF Calls, Named, Steps
  <1>4. ASSUME NEW c, Carries(c, call[k]), c.at = "add", c.todo = cs
        PROVE  NewToClass(c) /\ SyncFits(c) /\ ListFits(c)
    BY <1>1, <1>2, <1>4
       DEF Carries, Same, AloneFits, NewToClass, SyncFits, ListFits
  <1>5. GoWith(k, "add", cs) \/ Finish(k)
    BY <1>2 DEF AllClasses
  <1> QED BY <1>1, <1>3, <1>4, <1>5, GoWithQuiet, EndsQuietly

LEMMA ReadClassAlone ==
  ASSUME IInv, AloneInv, NEW k, Slots = {k}, ReadClass(k)
  PROVE  AloneInv' /\ ByTheBook
  <1>1. /\ CallFits(call[k]) /\ AloneFits(call[k]) /\ UNCHANGED tables /\ call[k] # None
        /\ call[k].at = "class" /\ call[k].op \in {"linkTask", "unlinkTask", "createList"}
    BY InAlone DEF ReadClass, CallFits, ClassFits
  <1>2. PICK a, cond : a \in Steps \cap {"task", "find", "list", "tasks"} /\ Proceed(k, cond, a)
    <2>1. CASE call[k].op = "linkTask"
      BY <2>1 DEF ReadClass, Steps
    <2>2. CASE call[k].op = "unlinkTask"
      BY <2>2 DEF ReadClass, Steps
    <2>3. CASE call[k].op = "createList"
      BY <2>3 DEF ReadClass, Steps
    <2> QED BY <1>1, <2>1, <2>2, <2>3
  <1>3. ASSUME NEW c, Carries(c, call[k]), c.at = a
        PROVE  NewToClass(c) /\ SyncFits(c) /\ ListFits(c)
    BY <1>1, <1>2, <1>3 DEF Carries, Same, AloneFits, NewToClass, SyncFits, ListFits
  <1> QED BY <1>1, <1>2, <1>3, ProceedQuiet

\* The checks after which a call knows of links no more than before.
LEMMA ChecksAlone ==
  ASSUME IInv, AloneInv, NEW k, Slots = {k},
         \/ UsableTask(k) \/ FindLink(k) \/ ValidateTasks(k) \/ ReadList(k) \/ ReadRows(k)
  PROVE  AloneInv' /\ ByTheBook
  <1>1. PICK a, cond :
          /\ call[k] # None /\ UNCHANGED tables /\ Proceed(k, cond, a)
          /\ \/ call[k].op = "linkTask" /\ a = "insert"
             \/ call[k].op \in {"unlinkTask", "deleteList", "removeEntry"} /\ a = "delete"
             \/ call[k].op = "createList" /\ a = "list"
             \/ call[k].op = "addEntry" /\ a = "insert"
    <2>1. CASE UsableTask(k)
      BY <2>1 DEF UsableTask, At
    <2>2. CASE FindLink(k)
      BY <2>2 DEF FindLink, At
    <2>3. CASE ValidateTasks(k)
      BY <2>3 DEF ValidateTasks, At
    <2>4. CASE ReadList(k)
      BY <2>4 DEF ReadList, At
    <2>5. CASE ReadRows(k)
      BY <2>5 DEF ReadRows, At
    <2> QED BY <2>1, <2>2, <2>3, <2>4, <2>5
  <1>2. AloneFits(call[k]) /\ a \in Steps
    BY <1>1, InAlone DEF Steps
  <1>3. ASSUME NEW c, Carries(c, call[k]), c.at = a
        PROVE  NewToClass(c) /\ SyncFits(c) /\ ListFits(c)
    BY <1>1, <1>2, <1>3 DEF Carries, Same, AloneFits, NewToClass, SyncFits, ListFits
  <1> QED BY <1>1, <1>2, <1>3, ProceedQuiet

LEMMA TasksInClassAlone ==
  ASSUME IInv, AloneInv, NEW k, Slots = {k}, TasksInClass(k)
  PROVE  AloneInv' /\ ByTheBook
  <1>1. /\ CallFits(call[k]) /\ AloneFits(call[k]) /\ UNCHANGED tables /\ call[k] # None
        /\ call[k].op = "createList" /\ call[k].at = "inclass"
    BY InAlone DEF TasksInClass, At
  <1>2. PICK new : /\ new = call[k].want \ {l.task : l \in LinksOf(call[k].class)}
                   /\ GoWith(k, IF new = {} THEN "resolve" ELSE "linkmany", new)
    BY DEF TasksInClass
  <1>3. PICK a \in Steps : /\ a \in {"resolve", "linkmany"} /\ GoWith(k, a, new)
                           /\ new # {} => a = "linkmany"
    BY <1>2 DEF Steps
  <1>4. new \in Named
    BY <1>1, <1>2 DEF CallFits, ClassFits, Named
  <1>5. \A t \in call[k].want : t \in new <=> ~Linked(call[k].class, t)
    BY <1>2 DEF LinksOf, Linked
  <1>6. ASSUME NEW c, Carries(c, call[k]), c.at = a, c.todo = new, c.list = call[k].list
        PROVE  NewToClass(c) /\ SyncFits(c) /\ ListFits(c)
    BY <1>1, <1>2, <1>3, <1>5, <1>6
       DEF Carries, Same, AloneFits, NewToClass, SyncFits, ListFits
  <1> QED BY <1>1, <1>3, <1>4, <1>6, GoWithQuiet

LEMMA ResolveLinksAlone ==
  ASSUME IInv, AloneInv, NEW k, Slots = {k}, NEW picked \in SUBSET links,
         ResolveLinks(k, picked)
  PROVE  AloneInv' /\ ByTheBook
  <1>1. /\ CallFits(call[k]) /\ call[k] \in Calls /\ AloneFits(call[k]) /\ UNCHANGED tables
        /\ call[k].op = "createList" /\ call[k].at = "resolve"
    BY InAlone DEF ResolveLinks, At
  <1>2. PICK ids : ids = {l.id : l \in picked}
    OBVIOUS
  <1>3. PICK c : c = [call[k] EXCEPT !.picked = ids, !.at = "entries"]
    OBVIOUS
  <1>4. call' = [call EXCEPT ![k] = c]
    BY <1>2, <1>3 DEF ResolveLinks
  <1>5. /\ c.op = "createList" /\ c.at = "entries" /\ c.picked = ids
        /\ c.class = call[k].class /\ c.want = call[k].want /\ c.list = call[k].list
    BY <1>1, <1>3 DEF Calls
  <1>6. \A l \in links : l.id \in ids => l \in picked
    BY <1>2 DEF IInv, TablesFit
  <1>7. \A l, m \in picked : l.task = m.task => l = m
    BY DEF ResolveLinks
  <1>8. \A t \in c.want : Linked(c.class, t) => \E l \in links : l.id \in ids /\ l.task = t
    <2>1. ASSUME NEW t \in c.want, NEW l \in links, l.class = c.class, l.task = t
          PROVE  \E m \in picked : m.task = t
      BY <1>5, <2>1 DEF ResolveLinks, LinksOf
    <2> QED BY <1>2, <2>1 DEF Linked
  <1>9. ListFits(c)
    BY <1>1, <1>5, <1>6, <1>7, <1>8 DEF AloneFits, ListFits
  <1>10. NewToClass(c) /\ SyncFits(c)
    BY <1>5 DEF NewToClass, SyncFits
  <1> QED BY <1>1, <1>4, <1>9, <1>10, QuietStep DEF AloneFits

LEMMA ReadEntryAlone ==
  ASSUME IInv, AloneInv, NEW k, Slots = {k}, ReadEntry(k)
  PROVE  AloneInv' /\ ByTheBook
  <1>1. call[k] \in Calls /\ UNCHANGED tables /\ call[k].op = "removeEntry"
    BY InAlone DEF ReadEntry, At
  <1>2. CASE Finish(k)
    BY <1>1, <1>2, EndsQuietly
  <1>3. ASSUME NEW ls \in lists,
               call' = [call EXCEPT ![k].list = ls.id, ![k].class = ls.class, ![k].at = "list"]
        PROVE  AloneInv' /\ ByTheBook
    <2>1. PICK c : c = [call[k] EXCEPT !.list = ls.id, !.class = ls.class, !.at = "list"]
      OBVIOUS
    <2>2. call' = [call EXCEPT ![k] = c]
      BY <1>3, <2>1
    <2>3. c.op = "removeEntry" /\ c.at = "list"
      BY <1>1, <2>1 DEF Calls
    <2>4. AloneFits(c)
      BY <2>3 DEF AloneFits, NewToClass, SyncFits, ListFits
    <2> QED BY <1>1, <2>2, <2>4, QuietStep
  <1> QED BY <1>2, <1>3 DEF ReadEntry

\* Calls that end with their last statement, none of which links a task.
LEMMA LastsAlone ==
  ASSUME IInv, AloneInv, NEW k, Slots = {k},
         \/ UpdateTask(k) \/ DeleteLinks(k) \/ DeleteList(k) \/ InsertEntry(k)
         \/ DeleteEntry(k) \/ Fail(k)
  PROVE  AloneInv' /\ ByTheBook
  <1>1. /\ call' = [call EXCEPT ![k] = None] /\ links' \subseteq links
        /\ entries' = entries \/ call[k].op # "createList"
    <2>1. CASE UpdateTask(k)
      BY <2>1 DEF UpdateTask, Finish
    <2>5. CASE Fail(k)
      BY <2>5 DEF Fail, Finish, tables
    <2>2. CASE DeleteLinks(k)
      BY <2>2 DEF DeleteLinks, Finish, Remove, At
    <2>3. CASE DeleteList(k)
      BY <2>3 DEF DeleteList, Finish, At
    <2>4. CASE InsertEntry(k) \/ DeleteEntry(k)
      BY <2>4 DEF InsertEntry, DeleteEntry, Finish, At
    <2> QED BY <2>1, <2>2, <2>3, <2>4, <2>5
  <1>2. AloneInv'
    BY <1>1, AloneStep
  <1>3. ByTheBook
    BY <1>1 DEF ByTheBook, ListComplete, At
  <1> QED BY <1>2, <1>3

LEMMA InsertTaskAlone ==
  ASSUME IInv, AloneInv, NEW k, Slots = {k}, InsertTask(k)
  PROVE  AloneInv' /\ ByTheBook
  <1>1. /\ CallFits(call[k]) /\ call[k] \in Calls /\ AloneFits(call[k])
        /\ call[k].op = "createTask" /\ call[k].at = "insert"
        /\ UNCHANGED <<open, links, lists, entries>>
    BY InAlone DEF InsertTask, At
  <1>2. ByTheBook
    BY <1>1 DEF ByTheBook, ListComplete
  <1>3. CASE Finish(k)
    BY <1>2, <1>3, AloneStep DEF Finish
  <1>4. CASE GoTo(k, "classes")
    <2>1. PICK c : c = [call[k] EXCEPT !.at = "classes"]
      OBVIOUS
    <2>2. "classes" \in Steps
      BY DEF Steps
    <2>3. Carries(c, call[k]) /\ c.at = "classes"
      BY <1>1, <2>1, <2>2, CarriedTo
    <2>4. call' = [call EXCEPT ![k] = c]
      BY <1>4, <2>1 DEF GoTo
    <2>5. \A x : ~Linked(x, c.task)
      BY <1>1, <2>3
         DEF Carries, Same, AloneFits, NewToClass, Linked, IInv, TablesFit, Present
    <2>6. AloneFits(c)'
      BY <1>1, <2>3, <2>5
         DEF Carries, Same, AloneFits, NewToClass, SyncFits, ListFits, Linked
    <2> QED BY <1>2, <2>4, <2>6, AloneStep
  <1> QED BY <1>3, <1>4 DEF InsertTask, Proceed

LEMMA InsertLinkAlone ==
  ASSUME IInv, AloneInv, NEW k, Slots = {k}, InsertLink(k)
  PROVE  AloneInv' /\ ByTheBook
  <1>1. /\ AloneFits(call[k]) /\ call[k] # None /\ call[k].op = "linkTask"
        /\ call' = [call EXCEPT ![k] = None] /\ UNCHANGED entries /\ DOMAIN call = Slots
    BY InAlone DEF InsertLink, At, Finish, IInv, TablesFit
  <1>2. AloneInv'
    BY <1>1, AloneStep
  <1>3. ASSUME NEW l \in links' \ links, LinkedTwice(l)
        PROVE  Unoffered(l)
    <2>1. /\ l.class = call[k].class /\ l.task = call[k].task
          /\ \A m \in links' : m # l => m \in links
      <3>1. PICK i : links' = links \cup
                       {[id |-> i, class |-> call[k].class, task |-> call[k].task]}
        BY <1>3 DEF InsertLink
      <3>2. PICK m : m = [id |-> i, class |-> call[k].class, task |-> call[k].task]
        OBVIOUS
      <3>3. links' = links \cup {m} /\ l = m
        BY <1>3, <3>1, <3>2
      <3> QED BY <3>2, <3>3
    <2>2. Linked(call[k].class, call[k].task)
      BY <1>3, <2>1 DEF LinkedTwice, Linked
    <2>3. ~call[k].ok
      BY <1>1, <2>2 DEF AloneFits, NewToClass
    <2> QED BY <1>1, <2>3 DEF Unoffered, Acting
  <1>4. ByTheBook
    BY <1>1, <1>3 DEF ByTheBook, ListComplete
  <1> QED BY <1>2, <1>4

LEMMA UnlinkAlone ==
  ASSUME IInv, AloneInv, NEW k, Slots = {k}, NEW x \in Classes, Unlink(k, x)
  PROVE  AloneInv' /\ ByTheBook
  <1>1. /\ CallFits(call[k]) /\ call[k] \in Calls /\ AloneFits(call[k])
        /\ call[k].op = "updateTask" /\ call[k].at = "unlink" /\ x \in call[k].todo
        /\ UNCHANGED <<open, task, flags, published, lists>>
    BY InAlone DEF Unlink, At
  <1>2. PICK rest, a :
          /\ rest = call[k].todo \ {x} /\ GoWith(k, a, rest) /\ a \in Steps
          /\ \/ a = "unlink"
             \/ rest = {} /\ a = "write" /\ call[k].later = {}
             \/ rest = {} /\ a = "classes"
    <2>1. CASE call[k].todo # {x}
      BY <2>1 DEF Unlink, Steps
    <2>2. CASE call[k].todo = {x}
      <3>1. CASE call[k].later = {}
        BY <2>2, <3>1 DEF Unlink, Steps
      <3>2. CASE call[k].later # {}
        BY <2>2, <3>2 DEF Unlink, Steps
      <3> QED BY <3>1, <3>2
    <2> QED BY <2>1, <2>2
  <1>3. rest \in Named
    BY <1>1, <1>2 DEF CallFits, TaskFits, Named
  <1>4. PICK c : c = Gone(call[k], a, rest)
    OBVIOUS
  <1>5. Carries(c, call[k]) /\ c.at = a /\ c.todo = rest
    <2>1. call[k] \in Calls /\ a \in Steps
      BY <1>1, <1>2
    <2> QED BY <1>3, <1>4, <2>1, CarriedWith
  <1>6. call' = [call EXCEPT ![k] = c]
    BY <1>2, <1>4 DEF GoWith, Gone
  <1>7. links' = {l \in links : ~(l.class = x /\ l.task = c.task)}
    BY <1>5 DEF Unlink, Remove, Carries, Same
  <1>8. \A y : Linked(y, c.task)' <=> Linked(y, c.task) /\ y # x
    BY <1>7 DEF Linked
  <1>9. NewToClass(c)'
    BY <1>1, <1>2, <1>5, <1>8 DEF Carries, Same, AloneFits, NewToClass
  <1>10. SyncFits(c)'
    BY <1>1, <1>2, <1>5, <1>8 DEF Carries, Same, AloneFits, SyncFits, Present
  <1>11. ListFits(c)'
    BY <1>1, <1>5 DEF Carries, Same, ListFits
  <1>12. AloneInv'
    BY <1>6, <1>9, <1>10, <1>11, AloneStep DEF AloneFits
  <1>13. ByTheBook
    BY <1>1, <1>7 DEF ByTheBook, ListComplete, At
  <1> QED BY <1>12, <1>13

LEMMA AddLinkAlone ==
  ASSUME IInv, AloneInv, NEW k, Slots = {k}, NEW x \in Classes, AddLink(k, x)
  PROVE  AloneInv' /\ ByTheBook
  <1>1. /\ CallFits(call[k]) /\ call[k] \in Calls /\ AloneFits(call[k])
        /\ call[k].at = "add" /\ x \in call[k].todo
        /\ call[k].op \in {"createTask", "updateTask"} /\ call[k].todo \subseteq Classes
        /\ UNCHANGED <<open, task, flags, published, lists, entries>>
    BY InAlone DEF AddLink, CallFits, TaskFits
  <1>2. PICK t, rest : t = call[k].task /\ rest = call[k].todo \ {x}
    OBVIOUS
  <1> DEFINE fits == x \in open /\ Present(t)
  <1>3. PICK b \in BOOLEAN : b = (call[k].ok /\ fits)
    BY ToldBoth
  <1>4. /\ \A y : Linked(y, t)' <=> Linked(y, t) \/ (y = x /\ fits)
        /\ \A l \in links' \ links : l.class = x /\ l.task = t
        /\ \A l, m \in links' \ links : l = m
        /\ links \subseteq links'
    <2>1. CASE fits
      <3>1. PICK i : links' = links \cup {[id |-> i, class |-> x, task |-> t]}
        BY <1>2, <2>1 DEF AddLink
      <3>2. PICK l : l = [id |-> i, class |-> x, task |-> t]
        OBVIOUS
      <3>3. l.class = x /\ l.task = t /\ links' = links \cup {l}
        BY <3>1, <3>2
      <3> QED BY <2>1, <3>3 DEF Linked
    <2>2. CASE ~fits
      <3>1. links' = links
        BY <1>2, <2>2 DEF AddLink
      <3> QED BY <2>2, <3>1 DEF Linked
    <2> QED BY <2>1, <2>2
  <1>5. ByTheBook
    <2>1. \A l \in links' \ links : ~LinkedTwice(l)
      BY <1>1, <1>2, <1>4 DEF LinkedTwice, AloneFits, NewToClass, Linked
    <2> QED BY <1>1, <2>1 DEF ByTheBook, ListComplete, At
  <1>6. \/ Finish(k)
        \/ rest # {} /\ call' = [call EXCEPT ![k].todo = rest, ![k].ok = b]
        \/ rest = {} /\ call[k].ok /\ fits /\ call[k].op = "updateTask" /\ GoWith(k, "write", {})
    BY <1>2, <1>3 DEF AddLink
  <1>7. CASE Finish(k)
    BY <1>5, <1>7, AloneStep DEF Finish
  <1>8. CASE rest # {} /\ call' = [call EXCEPT ![k].todo = rest, ![k].ok = b]
    <2>1. PICK c : c = [call[k] EXCEPT !.todo = rest, !.ok = b]
      OBVIOUS
    <2>2. call' = [call EXCEPT ![k] = c]
      BY <1>8, <2>1
    <2>3. /\ c.todo = rest /\ c.ok = b /\ c.op = call[k].op /\ c.at = "add" /\ c.task = t
          /\ c.want = call[k].want /\ c.sync = call[k].sync
      BY <1>1, <1>2, <2>1 DEF Calls
    <2>4. NewToClass(c)'
      BY <1>1, <1>2, <1>4, <2>3 DEF AloneFits, NewToClass
    <2>5. SyncFits(c)'
      <3>1. c.ok => call[k].ok /\ fits
        BY <1>3, <2>3
      <3>2. Present(t)' <=> Present(t)
        BY <1>1 DEF Present
      <3> QED BY <1>1, <1>2, <1>4, <2>3, <3>1, <3>2 DEF AloneFits, SyncFits
    <2>6. ListFits(c)'
      BY <1>1, <2>3 DEF ListFits
    <2> QED BY <1>5, <2>2, <2>4, <2>5, <2>6, AloneStep DEF AloneFits
  <1>9. CASE /\ rest = {} /\ call[k].ok /\ fits /\ call[k].op = "updateTask"
             /\ GoWith(k, "write", {})
    <2>1. PICK c : c = Gone(call[k], "write", {})
      OBVIOUS
    <2>2. Carries(c, call[k]) /\ c.at = "write"
      BY <1>1, <2>1, CarriedWith DEF Named, Steps
    <2>3. call' = [call EXCEPT ![k] = c]
      BY <1>9, <2>1 DEF GoWith, Gone
    <2>4. NewToClass(c)' /\ ListFits(c)'
      BY <1>9, <2>2 DEF Carries, Same, NewToClass, ListFits
    <2>5. SyncFits(c)'
      <3>1. Present(t)' <=> Present(t)
        BY <1>1 DEF Present
      <3> QED BY <1>1, <1>2, <1>4, <1>9, <2>2, <3>1 DEF Carries, Same, AloneFits, SyncFits
    <2> QED BY <1>5, <2>3, <2>4, <2>5, AloneStep DEF AloneFits
  <1> QED BY <1>6, <1>7, <1>8, <1>9

LEMMA LinkManyAlone ==
  ASSUME IInv, AloneInv, NEW k, Slots = {k}, LinkMany(k)
  PROVE  AloneInv' /\ ByTheBook
  <1>1. /\ CallFits(call[k]) /\ call[k] \in Calls /\ AloneFits(call[k])
        /\ call[k].op = "createList" /\ call[k].at = "linkmany"
        /\ UNCHANGED <<open, task, flags, published, lists, entries>>
    BY InAlone DEF LinkMany, At
  <1>2. CASE Finish(k) /\ UNCHANGED links
    BY <1>1, <1>2, EndsQuietly DEF tables
  <1>3. CASE /\ links' = links \cup
                  {[id |-> Draw(call[k].todo, FreeLinks)[t], class |-> call[k].class, task |-> t] :
                     t \in call[k].todo}
             /\ GoWith(k, "resolve", {})
    <2>1. PICK ts, x, id, new :
            /\ ts = call[k].todo /\ x = call[k].class /\ id = Draw(call[k].todo, FreeLinks)
            /\ new = {[id |-> id[t], class |-> x, task |-> t] : t \in ts}
      OBVIOUS
    <2>2. links' = links \cup new
      BY <1>3, <2>1
    <2>3. /\ \A l \in new : l.class = x /\ l.task \in ts
          /\ \A l, m \in new : l.task = m.task => l = m
          /\ \A t \in ts : \E l \in new : l.class = x /\ l.task = t
      <3>1. \A l \in new : l = [id |-> id[l.task], class |-> x, task |-> l.task] /\ l.task \in ts
        BY <2>1
      <3>2. ASSUME NEW t \in ts
            PROVE  \E l \in new : l.class = x /\ l.task = t
        <4>1. [id |-> id[t], class |-> x, task |-> t] \in new
          BY <2>1
        <4> QED BY <4>1
      <3>3. \A l, m \in new : l.task = m.task => l = m
        BY <3>1
      <3>4. \A l \in new : l.class = x /\ l.task \in ts
        BY <3>1
      <3> QED BY <3>2, <3>3, <3>4
    <2>4. \A t \in ts : ~Linked(x, t)
      BY <1>1, <2>1 DEF AloneFits, NewToClass
    <2>5. \A l \in links' \ links : ~LinkedTwice(l)
      BY <2>2, <2>3, <2>4 DEF LinkedTwice, Linked
    <2>6. ByTheBook
      BY <1>1, <2>5 DEF ByTheBook, ListComplete
    <2>7. PICK c : c = Gone(call[k], "resolve", {})
      OBVIOUS
    <2>8. Carries(c, call[k]) /\ c.at = "resolve" /\ c.list = call[k].list
      BY <1>1, <2>7, CarriedWith DEF Named, Steps
    <2>9. call' = [call EXCEPT ![k] = c]
      BY <1>3, <2>7 DEF GoWith, Gone
    <2>10. \A t : Linked(x, t) \/ t \in ts => Linked(x, t)'
      BY <2>2, <2>3 DEF Linked
    <2>11. ListFits(c)'
      BY <1>1, <2>1, <2>8, <2>10 DEF Carries, Same, AloneFits, ListFits, Present
    <2>12. NewToClass(c)' /\ SyncFits(c)'
      BY <1>1, <2>8 DEF Carries, Same, NewToClass, SyncFits
    <2> QED BY <2>6, <2>9, <2>11, <2>12, AloneStep DEF AloneFits
  <1> QED BY <1>2, <1>3 DEF LinkMany

LEMMA InsertListAlone ==
  ASSUME IInv, AloneInv, NEW k, Slots = {k}, InsertList(k)
  PROVE  AloneInv' /\ ByTheBook
  <1>1. /\ call[k] \in Calls /\ call[k].op = "createList"
        /\ UNCHANGED <<open, task, flags, published, links, entries>>
    BY InAlone DEF InsertList, At
  <1>2. ByTheBook
    BY <1>1 DEF ByTheBook, ListComplete
  <1>3. CASE Finish(k)
    BY <1>2, <1>3, AloneStep DEF Finish
  <1>4. ASSUME NEW i \in FreeLists, call' = [call EXCEPT ![k].list = i, ![k].at = "inclass"]
        PROVE  AloneInv' /\ ByTheBook
    <2>1. PICK c : c = [call[k] EXCEPT !.list = i, !.at = "inclass"]
      OBVIOUS
    <2>2. call' = [call EXCEPT ![k] = c]
      BY <1>4, <2>1
    <2>3. c.op = "createList" /\ c.at = "inclass" /\ c.list = i
      BY <1>1, <2>1 DEF Calls
    <2>4. \A e \in entries : e.list # i
      BY <1>4 DEF FreeLists, IInv, EntriesWithinClass
    <2>5. AloneFits(c)'
      BY <1>1, <2>3, <2>4 DEF AloneFits, NewToClass, SyncFits, ListFits
    <2> QED BY <1>2, <2>2, <2>5, AloneStep
  <1>5. Finish(k) \/ \E i \in FreeLists : call' = [call EXCEPT ![k].list = i, ![k].at = "inclass"]
    <2>1. CASE call[k].class \in open
      <3>1. PICK i \in FreeLists : i = CHOOSE j \in FreeLists : TRUE
        BY <2>1 DEF InsertList
      <3> QED BY <2>1, <3>1 DEF InsertList
    <2>2. CASE call[k].class \notin open
      BY <2>2 DEF InsertList
    <2> QED BY <2>1, <2>2
  <1> QED BY <1>3, <1>4, <1>5

\* One entry for each wanted task that still exists: its links that were picked
\* are one, and the list was empty.
LEMMA InsertEntriesAlone ==
  ASSUME IInv, AloneInv, NEW k, Slots = {k}, InsertEntries(k)
  PROVE  AloneInv' /\ ByTheBook
  <1>1. /\ CallFits(call[k]) /\ AloneFits(call[k]) /\ call[k].op = "createList"
        /\ call[k].at = "entries" /\ call' = [call EXCEPT ![k] = None]
        /\ UNCHANGED <<open, task, flags, published, links, lists>>
    BY InAlone DEF InsertEntries, At, Finish
  <1>2. AloneInv'
    BY <1>1, AloneStep
  <1>3. ASSUME entries' # entries, NEW i \in {call[k].list}, NEW t \in call[k].want, Present(t)
        PROVE  Cardinality(InList(t, i)') = 1
    <2>1. PICK ids : ids = call[k].picked
      OBVIOUS
    <2>2. /\ i \in {ls.id : ls \in lists} /\ ids \subseteq {l.id : l \in links}
          /\ entries' = entries \cup
               {[id |-> Draw(ids, FreeEntries)[l], link |-> l, list |-> i] : l \in ids}
      BY <1>3, <2>1 DEF InsertEntries
    <2>3. PICK id, new : /\ id = Draw(ids, FreeEntries)
                         /\ new = {[id |-> id[l], link |-> l, list |-> i] : l \in ids}
      OBVIOUS
    <2>4. entries' = entries \cup new /\ \A e \in entries : e.list # i
      BY <1>1, <2>2, <2>3 DEF AloneFits, ListFits
    <2>5. call[k].class \in open
      BY <1>1, <2>2 DEF CallFits, RowsFit, IInv, TablesFit
    <2>6. PICK l \in links : l.id \in ids /\ l.task = t
      BY <1>1, <1>3, <2>1, <2>5 DEF AloneFits, ListFits
    <2>7. \A m \in links : m.id \in ids /\ m.task = t => m = l
      BY <1>1, <2>1, <2>6 DEF AloneFits, ListFits
    <2>8. PICK e : e = [id |-> id[l.id], link |-> l.id, list |-> i]
      OBVIOUS
    <2>9. /\ e \in new /\ e.list = i /\ e.link = l.id
          /\ \A d \in new : d.list = i /\ d.link \in ids /\ (d.link = l.id => d = e)
      <3>1. e \in new
        BY <2>3, <2>6, <2>8
      <3>2. \A d \in new : d.link \in ids /\ d = [id |-> id[d.link], link |-> d.link, list |-> i]
        BY <2>3
      <3> QED BY <2>8, <3>1, <3>2
    <2>10. InList(t, i)' = {e}
      <3>1. \A d : d \in InList(t, i)' <=>
              d \in new /\ \E m \in links : m.id = d.link /\ m.task = t
        BY <1>1, <2>4, <2>9 DEF InList
      <3>2. \A d \in new, m \in links : m.id = d.link /\ m.task = t => d = e
        BY <2>7, <2>9
      <3> QED BY <2>6, <2>9, <3>1, <3>2
    <2> QED BY <2>10, FS_Singleton
  <1>4. ListComplete(k)
    BY <1>3 DEF ListComplete
  <1>5. ByTheBook
    BY <1>1, <1>4 DEF ByTheBook
  <1> QED BY <1>2, <1>5

LEMMA DeletionsAlone ==
  ASSUME IInv, AloneInv, NEW k, Slots = {k},
         \/ \E x \in Classes : DeleteClass(x)
         \/ \E t \in Tasks, soft \in BOOLEAN : DeleteTask(t, soft)
  PROVE  AloneInv' /\ ByTheBook
  <1>1. ASSUME NEW x \in Classes, DeleteClass(x)
        PROVE  AloneInv' /\ ByTheBook
    <2>1. /\ open' = open \ {x} /\ UNCHANGED <<task, call>>
          /\ links' = links \ LinksOf(x) /\ entries' \subseteq entries
      BY <1>1 DEF DeleteClass, Remove
    <2>2. \A l \in links : l.class \in open' => l \in links'
      BY <2>1 DEF LinksOf
    <2>3. \A t : Present(t)' <=> Present(t)
      BY <2>1 DEF Present
    <2> QED BY <2>1, <2>2, <2>3, LessAlone
  <1>2. ASSUME NEW t \in Tasks, NEW soft \in BOOLEAN, DeleteTask(t, soft)
        PROVE  AloneInv' /\ ByTheBook
    <2>1. /\ UNCHANGED <<open, call>> /\ links' \subseteq links /\ entries' \subseteq entries
          /\ Present(t) /\ task' = [task EXCEPT ![t] = IF soft THEN "soft" ELSE "gone"]
          /\ \A l \in links \ links' : l.task = t /\ ~soft
      BY <1>2 DEF DeleteTask, Remove
    <2>2. \A s : task'[s] = IF s = t THEN (IF soft THEN "soft" ELSE "gone") ELSE task[s]
      <3>1. task \in [Tasks -> {"unborn", "live", "soft", "gone"}]
        BY DEF IInv, TablesFit
      <3> QED BY <2>1, <3>1
    <2>3. /\ \A s : Present(s)' => Present(s)
          /\ \A s : task[s] = "unborn" => task'[s] = "unborn"
          /\ \A l \in links : Present(l.task)' => l \in links'
      BY <2>1, <2>2 DEF Present
    <2> QED BY <2>1, <2>3, LessAlone
  <1> QED BY <1>1, <1>2

LEMMA NextAlone ==
  ASSUME NEW k, Slots = {k}
  PROVE  IInv /\ AloneInv /\ [Next]_vars => AloneInv' /\ ByTheBook
  <1> SUFFICES ASSUME IInv, AloneInv, [Next]_vars
               PROVE  AloneInv' /\ ByTheBook
    OBVIOUS
  <1>1. CASE UNCHANGED vars
    <2>1. /\ UNCHANGED <<open, links, entries, call>> /\ UNCHANGED task
      BY <1>1 DEF vars, tables
    <2>2. \A t : Present(t)' <=> Present(t)
      BY <2>1 DEF Present
    <2> QED BY <2>1, <2>2, LessAlone
  <1>2. CASE Begin(k)
    BY <1>2, BeginAlone
  <1>3. CASE Step(k)
    <2>1. CASE InsertTask(k) \/ OwnClasses(k) \/ \E c \in Classes : AddLink(k, c)
      BY <2>1, InsertTaskAlone, OwnClassesAlone, AddLinkAlone
    <2>2. CASE ReadTask(k) \/ ReadLinks(k) \/ \E c \in Classes : Unlink(k, c)
      BY <2>2, ReadTaskAlone, ReadLinksAlone, UnlinkAlone
    <2>3. CASE AllClasses(k) \/ ReadClass(k) \/ InsertLink(k)
      BY <2>3, AllClassesAlone, ReadClassAlone, InsertLinkAlone
    <2>4. CASE UpdateTask(k) \/ DeleteLinks(k) \/ DeleteList(k) \/ InsertEntry(k)
               \/ DeleteEntry(k) \/ Fail(k)
      BY <2>4, LastsAlone
    <2>5. CASE UsableTask(k) \/ FindLink(k) \/ ValidateTasks(k) \/ ReadList(k) \/ ReadRows(k)
      BY <2>5, ChecksAlone
    <2>6. CASE InsertList(k) \/ TasksInClass(k) \/ LinkMany(k)
      BY <2>6, InsertListAlone, TasksInClassAlone, LinkManyAlone
    <2>7. CASE (\E picked \in SUBSET links : ResolveLinks(k, picked)) \/ InsertEntries(k)
               \/ ReadEntry(k)
      BY <2>7, ResolveLinksAlone, InsertEntriesAlone, ReadEntryAlone
    <2> QED BY <1>3, <2>1, <2>2, <2>3, <2>4, <2>5, <2>6, <2>7 DEF Step
  <1>4. CASE \/ \E x \in Classes : DeleteClass(x)
             \/ \E t \in Tasks, soft \in BOOLEAN : DeleteTask(t, soft)
    BY <1>4, DeletionsAlone
  <1> QED BY <1>1, <1>2, <1>3, <1>4 DEF Next

\* With one call at a time, classes and tasks may still be deleted under it.
THEOREM AloneInductive ==
  ASSUME NEW k, Slots = {k}
  PROVE  Spec => [](IInv /\ AloneInv)
  <1>1. Init => AloneInv
    BY DEF Init, AloneInv, Serving
  <1>2. IInv /\ AloneInv /\ [Next]_vars => AloneInv'
    BY NextAlone
  <1> QED BY <1>1, <1>2, Inductive, PTL DEF Spec

\* syncTaskClasses, whose removals and additions are awaited one by one, leaves
\* the task in the classes of the body and no other, even from duplicate links.
THEOREM SyncsReconcile ==
  ASSUME NEW k, Slots = {k}
  PROVE  Spec => []UpdateReconciles
  <1>1. IInv /\ AloneInv => UpdateReconciles
    <2> SUFFICES ASSUME IInv, AloneInv, At(k, "updateTask", "write"), call[k].sync,
                        Present(call[k].task)
                 PROVE  {l.class : l \in {m \in links : m.task = call[k].task}}
                          = call[k].want \cap open
      BY DEF UpdateReconciles, Reconciled
    <2>1. CallFits(call[k]) /\ AloneFits(call[k])
      BY InAlone DEF At
    <2>2. \A x \in Classes : Linked(x, call[k].task) => x \in call[k].want
      BY <2>1 DEF AloneFits, SyncFits, At
    <2>3. \A x \in call[k].want \cap open : Linked(x, call[k].task)
      BY <2>1 DEF AloneFits, SyncFits, At
    <2>4. \A l \in links : l.class \in open /\ l.class \in Classes
      BY DEF IInv, TablesFit, Link
    <2> QED BY <2>2, <2>3, <2>4 DEF Linked
  <1> QED BY <1>1, AloneInductive, PTL

\* tasksAdded of POST /list: each wanted task that still exists is in the list
\* once, with whatever links it had.
THEOREM ListsAreComplete ==
  ASSUME NEW k, Slots = {k}
  PROVE  Spec => TasksAddedAreInTheList
  <1>1. IInv /\ AloneInv /\ [Next]_vars => [ListsComplete]_vars
    BY NextAlone DEF ByTheBook, ListsComplete
  <1> QED BY <1>1, AloneInductive, PTL DEF Spec, TasksAddedAreInTheList

\* Three of the four ways to link a task subtract what is linked already; the
\* fourth doubles a link only for a task its catalogue did not offer.
THEOREM OfferedNeverDoubled ==
  ASSUME NEW k, Slots = {k}
  PROVE  Spec => DuplicatesAreUnoffered
  <1>1. IInv /\ AloneInv /\ [Next]_vars
          => [\A l \in links' \ links : LinkedTwice(l) => Unoffered(l)]_vars
    BY NextAlone DEF ByTheBook
  <1> QED BY <1>1, AloneInductive, PTL DEF Spec, DuplicatesAreUnoffered
===============================================================================
