---------------------------- MODULE ClassDirectory ----------------------------
(***************************************************************************)
(* The classes by their code and by pages: class.service.ts and            *)
(* prisma-class.repository.ts.  POST /class draws a code, looks whether a  *)
(* class has it, draws again if so, and inserts the class in an await of   *)
(* its own.  GET /class/code/:code finds the class somebody was told the   *)
(* code of.  A client who reads GET /class page by page does so while      *)
(* classes come and go; a page and its total are two statements, each with *)
(* a snapshot of its own (READ COMMITTED, pagination.types.ts).            *)
(***************************************************************************)
EXTENDS Naturals, FiniteSets

CONSTANTS
  Codes,        \* the codes that may be drawn: CODE_MIN .. CODE_MIN + CODE_RANGE - 1
  MaxAttempts,  \* DEFAULT_CODE_ATTEMPTS
  Limit,        \* the page size the reader asks for
  MaxClasses,   \* bound: the classes ever created
  Slots,        \* the creations being served at the same time
  None

ASSUME DirectoryAssumption ==
  /\ None \notin Codes /\ Limit \in Nat \ {0} /\ IsFiniteSet(Slots)
  /\ MaxAttempts \in Nat /\ MaxClasses \in Nat

VARIABLES
  rows,     \* the Class rows: [id, code, created], created being the instant of createdAt
  born,     \* how many classes have been created, which gives them their ids
  told,     \* history: told[i]: the code answered to the creator of class i
  call,     \* call[k]: the creation slot k is serving
  reader    \* the client who reads the pages

vars == <<rows, born, told, call, reader>>

Ids == 1..MaxClasses

Creations ==
  [at : {"draw", "find", "insert"}, attempt : 0..MaxAttempts, code : Codes \cup {None}]

\* page: the one being read; had: history, the classes of the
\* beginning; seen: those of the pages so far;
\* lost: history, whether a class has been deleted since the beginning.
Readers ==
  [at : {"idle", "rows", "total", "done"}, page : Nat, had : SUBSET Ids, seen : SUBSET Ids,
   lost : BOOLEAN]

Rows == [id : Ids, code : Codes, created : Ids]

IdsOf(rs)   == {r.id : r \in rs}
CodesOf(rs) == {r.code : r \in rs}

\* createdAt has milliseconds: a class has an instant of its own, or that of
\* the newest class.
Instants == {born + 1} \cup {r.created : r \in {q \in rows : \A p \in rows : p.created <= q.created}}

Init ==
  /\ rows = {} /\ born = 0
  /\ told = [i \in Ids |-> None]
  /\ call = [k \in Slots |-> None]
  /\ reader = [at |-> "idle", page |-> 1, had |-> {}, seen |-> {}, lost |-> FALSE]

-------------------------------------------------------------------------------
(* POST /class *)

Serving(k, at) == call[k] # None /\ call[k].at = at
Finish(k)      == call' = [call EXCEPT ![k] = None]
Busy           == {k \in Slots : call[k] # None}

BeginCreate(k) ==
  /\ call[k] = None
  /\ born + Cardinality(Busy) < MaxClasses
  /\ call' = [call EXCEPT ![k] = [at |-> "draw", attempt |-> 0, code |-> None]]
  /\ UNCHANGED <<rows, born, told, reader>>

\* Mutant: attempt <= maxAttempts.
DrawCodeOnceMore(k) ==
  /\ Serving(k, "draw")
  /\ IF call[k].attempt <= MaxAttempts
     THEN \E c \in Codes : call' = [call EXCEPT ![k].at = "find", ![k].code = c]
     ELSE Finish(k)
  /\ UNCHANGED <<rows, born, told, reader>>

\* Math.random: any code, as often as it likes; 500 after the last attempt.
DrawCode(k) ==
  /\ Serving(k, "draw")
  /\ IF call[k].attempt < MaxAttempts
     THEN \E c \in Codes : call' = [call EXCEPT ![k].at = "find", ![k].code = c]
     ELSE Finish(k)
  /\ UNCHANGED <<rows, born, told, reader>>

FindCode(k) ==
  /\ Serving(k, "find")
  /\ IF call[k].code \in CodesOf(rows)
     THEN call' = [call EXCEPT ![k].at = "draw", ![k].attempt = @ + 1]
     ELSE call' = [call EXCEPT ![k].at = "insert"]
  /\ UNCHANGED <<rows, born, told, reader>>

NewRow(k, t) == [id |-> born + 1, code |-> call[k].code, created |-> t]

\* Mutant: the code has no unique key, and what was looked up is trusted.
InsertTrusting(k) ==
  /\ Serving(k, "insert")
  /\ born' = born + 1
  /\ \E t \in Instants : rows' = rows \cup {NewRow(k, t)}
  /\ told' = [told EXCEPT ![born + 1] = call[k].code]
  /\ Finish(k)
  /\ UNCHANGED reader

\* Class.code is unique: P2002, 409, for a code another creation has taken since.
Insert(k) ==
  /\ Serving(k, "insert")
  /\ IF call[k].code \in CodesOf(rows)
     THEN UNCHANGED <<rows, born, told>>
     ELSE /\ born' = born + 1
          /\ \E t \in Instants : rows' = rows \cup {NewRow(k, t)}
          /\ told' = [told EXCEPT ![born + 1] = call[k].code]
  /\ Finish(k)
  /\ UNCHANGED reader

\* Any statement may fail, and the creation with it.
Fail(k) ==
  /\ call[k] # None
  /\ Finish(k)
  /\ UNCHANGED <<rows, born, told, reader>>

\* DELETE /class/:id, by its professor or an administrator.
DeleteClass(id) ==
  /\ id \in IdsOf(rows)
  /\ rows' = {r \in rows : r.id # id}
  /\ reader' = [reader EXCEPT !.lost = TRUE]
  /\ UNCHANGED <<born, told, call>>

-------------------------------------------------------------------------------
(* GET /class, page after page until totalPages.  *)

\* orderBy createdAt desc says nothing of two classes of one instant: PostgreSQL
\* may give them in either order, in another one each time.
Orders(rs) ==
  {o \in [1..Cardinality(rs) -> rs] :
     \A i, j \in DOMAIN o : i < j => o[i] # o[j] /\ o[i].created >= o[j].created}

Offset(page) == (page - 1) * Limit

\* skip, take.
PageOf(o, page) == {o[i].id : i \in {j \in DOMAIN o : Offset(page) < j /\ j <= Offset(page) + Limit}}

\* Mutant: Math.floor.
TotalPagesDown(total) == IF total < Limit THEN 1 ELSE total \div Limit

\* paginate: Math.max(1, Math.ceil(total / limit)).
TotalPages(total) == IF total = 0 THEN 1 ELSE (total + Limit - 1) \div Limit

BeginWalk ==
  /\ reader.at \in {"idle", "done"}
  /\ reader' = [at |-> "rows", page |-> 1, had |-> IdsOf(rows), seen |-> {}, lost |-> FALSE]
  /\ UNCHANGED <<rows, born, told, call>>

\* findMany
ReadRows ==
  /\ reader.at = "rows"
  /\ \E o \in Orders(rows) :
       reader' = [reader EXCEPT !.at = "total", !.seen = @ \cup PageOf(o, reader.page)]
  /\ UNCHANGED <<rows, born, told, call>>

\* count, and what the client does with the answer.
ReadTotal ==
  /\ reader.at = "total"
  /\ reader' = IF reader.page < TotalPages(Cardinality(rows))
               THEN [reader EXCEPT !.at = "rows", !.page = @ + 1]
               ELSE [reader EXCEPT !.at = "done"]
  /\ UNCHANGED <<rows, born, told, call>>

-------------------------------------------------------------------------------
Next ==
  \/ \E k \in Slots : BeginCreate(k) \/ DrawCode(k) \/ FindCode(k) \/ Insert(k) \/ Fail(k)
  \/ \E id \in Ids : DeleteClass(id)
  \/ BeginWalk \/ ReadRows \/ ReadTotal

Spec == Init /\ [][Next]_vars

-------------------------------------------------------------------------------
TypeOK ==
  /\ rows \subseteq Rows /\ born \in 0..MaxClasses
  /\ told \in [Ids -> Codes \cup {None}]
  /\ call \in [Slots -> Creations \cup {None}]
  /\ reader \in Readers

\* A class's code is its own, and it is the one its creator was answered and
\* passes on to his students: GET /class/code/:code leads them to that class
\* and to no other, whoever was drawing codes at the same time.
CodesLeadToTheirClass ==
  /\ \A r, s \in rows : r.code = s.code => r = s
  /\ \A r \in rows : told[r.id] = r.code

InstantOfItsOwn(id) ==
  \A r, s \in rows : r.id = id /\ s.id # id => r.created # s.created

\* Who reads all the pages has been shown every class that was there when he
\* began, though classes were created meanwhile and the total is counted after
\* the rows are read: only a deletion, or two classes of one instant, can hide
\* a class from him.
NothingSkipped ==
  reader.at = "done" /\ ~reader.lost =>
    \A id \in reader.had : id \in reader.seen \/ ~InstantOfItsOwn(id)
===============================================================================
