------------------------ MODULE ClassDirectoryProofs ------------------------
(***************************************************************************)
(* For any number of creations at once, any codes and any page size: a     *)
(* code leads to its class, and who reads all the pages is shown every     *)
(* class with an instant of its own.  The second rests on one number, how  *)
(* many classes are newer than a given one: creations only raise it, and   *)
(* it is the place of the class in the order of the pages.                 *)
(***************************************************************************)
EXTENDS ClassDirectory, FiniteSetTheorems, TLAPS

RowsAreBorn ==
  /\ IsFiniteSet(rows)
  /\ \A r \in rows : r.id <= born /\ r.created <= born
  /\ \A r, s \in rows : r.id = s.id => r = s

\* A class is left for every creation under way.
RoomLeft == born + Cardinality(Busy) <= MaxClasses

\* A creation that looks a code up, or inserts it, has drawn one.
Drawing    == {c \in Creations : c.at # "draw" => c.code \in Codes}
CodesDrawn == call \in [Slots -> Drawing \cup {None}]

IInv == TypeOK /\ CodesDrawn /\ RowsAreBorn /\ RoomLeft /\ CodesLeadToTheirClass

LEMMA BusyFinite ==
  /\ IsFiniteSet(Busy) /\ Cardinality(Busy) \in Nat
  /\ IsFiniteSet(Busy') /\ Cardinality(Busy') \in Nat
  <1>1. Busy \subseteq Slots /\ Busy' \subseteq Slots
    BY DEF Busy
  <1> QED BY <1>1, FS_Subset, FS_CardinalityType, DirectoryAssumption

LEMMA InitHolds == Init => IInv
  <1> SUFFICES ASSUME Init PROVE IInv
    OBVIOUS
  <1> USE DEF Init, DirectoryAssumption, Ids
  <1>1. TypeOK
    BY DirectoryAssumption DEF TypeOK, Readers
  <1>2. RowsAreBorn
    BY FS_EmptySet DEF RowsAreBorn
  <1>3. RoomLeft
    <2>1. Busy = {}
      BY DEF Busy
    <2> QED BY <2>1, FS_EmptySet, DirectoryAssumption DEF RoomLeft
  <1>4. CodesLeadToTheirClass
    BY DEF CodesLeadToTheirClass
  <1>5. CodesDrawn
    BY DEF CodesDrawn
  <1> QED BY <1>1, <1>2, <1>3, <1>4, <1>5 DEF IInv

-------------------------------------------------------------------------------
\* A call that ends leaves a room, and one that goes on keeps it.
LEMMA RoomKept ==
  ASSUME IInv, NEW k \in Busy, Finish(k)
  PROVE  Cardinality(Busy') = Cardinality(Busy) - 1 /\ call' \in [Slots -> Drawing \cup {None}]
  <1>1. Busy' = Busy \ {k}
    BY DEF Busy, Finish, IInv, TypeOK
  <1>2. Cardinality(Busy') = Cardinality(Busy) - 1
    BY <1>1, BusyFinite, FS_RemoveElement
  <1> QED BY <1>2 DEF Finish, IInv, CodesDrawn, Busy

\* What a creation draws and looks up keeps its type.
LEMMA DrawStep ==
  ASSUME IInv, NEW k \in Slots, DrawCode(k) \/ FindCode(k)
  PROVE  IInv'
  <1> USE DEF IInv
  <1>1. k \in Busy /\ call[k] \in Drawing
    BY DEF DrawCode, FindCode, Serving, Busy, CodesDrawn
  <1>2. UNCHANGED <<rows, born, told, reader>>
    BY DEF DrawCode, FindCode
  <1>3. call' \in [Slots -> Drawing \cup {None}] /\ Cardinality(Busy') <= Cardinality(Busy)
    <2>1. CASE Finish(k)
      BY <2>1, <1>1, RoomKept, BusyFinite
    <2>2. CASE \E c \in Drawing : call' = [call EXCEPT ![k] = c]
      <3>1. call' \in [Slots -> Drawing \cup {None}]
        BY <2>2 DEF CodesDrawn
      <3>2. Busy' \subseteq Busy
        BY <1>1, <2>2 DEF Busy, TypeOK
      <3> QED BY <3>1, <3>2, BusyFinite, FS_Subset
    <2>3. ASSUME DrawCode(k), ~Finish(k)
          PROVE  \E c \in Drawing : call' = [call EXCEPT ![k] = c]
      <3>1. PICK c \in Codes : call' = [call EXCEPT ![k].at = "find", ![k].code = c]
        BY <2>3 DEF DrawCode
      <3>2. call' = [call EXCEPT ![k] = [call[k] EXCEPT !.at = "find", !.code = c]]
        BY <3>1, <1>1 DEF TypeOK
      <3> QED BY <3>2, <1>1 DEF Drawing, Creations
    <2>4. ASSUME FindCode(k)
          PROVE  \E c \in Drawing : call' = [call EXCEPT ![k] = c]
      <3>1. CASE call[k].code \in CodesOf(rows)
        BY <2>4, <3>1, <1>1, DirectoryAssumption DEF FindCode, Serving, Drawing, Creations, TypeOK
      <3>2. CASE call[k].code \notin CodesOf(rows)
        BY <2>4, <3>2, <1>1 DEF FindCode, Serving, Drawing, Creations, TypeOK
      <3> QED BY <3>1, <3>2
    <2> QED BY <2>1, <2>2, <2>3, <2>4
  <1>4. TypeOK' /\ CodesDrawn'
    BY <1>2, <1>3 DEF TypeOK, CodesDrawn, Drawing
  <1>5. RowsAreBorn' /\ CodesLeadToTheirClass'
    BY <1>2 DEF RowsAreBorn, CodesLeadToTheirClass
  <1>6. RoomLeft'
    BY <1>2, <1>3, BusyFinite, DirectoryAssumption DEF RoomLeft, TypeOK, Ids
  <1> QED BY <1>4, <1>5, <1>6

\* A creation that begins takes one of the rooms that were left.
LEMMA BeginStep ==
  ASSUME IInv, NEW k \in Slots, BeginCreate(k)
  PROVE  IInv'
  <1> USE DEF IInv
  <1>1. UNCHANGED <<rows, born, told, reader>> /\ born + Cardinality(Busy) < MaxClasses
    BY DEF BeginCreate
  <1> DEFINE c == [at |-> "draw", attempt |-> 0, code |-> None]
  <1>2. c \in Drawing /\ call' = [call EXCEPT ![k] = c]
    BY DirectoryAssumption DEF BeginCreate, Drawing, Creations
  <1> HIDE DEF c
  <1>3. TypeOK' /\ CodesDrawn'
    BY <1>1, <1>2 DEF TypeOK, CodesDrawn, Drawing
  <1>4. Cardinality(Busy') <= Cardinality(Busy) + 1
    <2>1. Busy' \subseteq Busy \cup {k}
      BY <1>2 DEF Busy, TypeOK
    <2>2. Cardinality(Busy') <= Cardinality(Busy \cup {k})
      BY <2>1, BusyFinite, FS_AddElement, FS_Subset
    <2>3. Cardinality(Busy \cup {k}) \in {Cardinality(Busy), Cardinality(Busy) + 1}
      BY BusyFinite, FS_AddElement
    <2> QED BY <2>2, <2>3, BusyFinite
  <1>5. RoomLeft'
    BY <1>1, <1>4, BusyFinite, DirectoryAssumption DEF RoomLeft, TypeOK, Ids
  <1> QED BY <1>1, <1>3, <1>5 DEF RowsAreBorn, CodesLeadToTheirClass

LEMMA FailStep ==
  ASSUME IInv, NEW k \in Slots, Fail(k)
  PROVE  IInv'
  <1> USE DEF IInv
  <1>1. k \in Busy /\ Finish(k) /\ UNCHANGED <<rows, born, told, reader>>
    BY DEF Fail, Busy
  <1>2. TypeOK' /\ CodesDrawn' /\ RoomLeft'
    BY <1>1, RoomKept, BusyFinite, DirectoryAssumption DEF TypeOK, CodesDrawn, Drawing, RoomLeft, Ids
  <1> QED BY <1>1, <1>2 DEF RowsAreBorn, CodesLeadToTheirClass

\* What Insert does when the code is still free: a row younger than all others.
LEMMA InsertsNewest ==
  ASSUME IInv, NEW k \in Slots, Insert(k), call[k].code \notin CodesOf(rows)
  PROVE  \E r \in Rows :
           /\ rows' = rows \cup {r} /\ born' = born + 1 /\ born' \in Ids
           /\ r.id = born' /\ r.created <= born' /\ r.code = call[k].code
           /\ \A s \in rows : s.created <= r.created
           /\ told' = [told EXCEPT ![born'] = r.code]
  <1> USE DEF IInv
  <1>1. PICK t \in Instants : rows' = rows \cup {NewRow(k, t)}
    BY DEF Insert
  <1>2. k \in Busy /\ call[k] \in Drawing
    BY DEF Insert, Serving, Busy, CodesDrawn
  <1>3. call[k].code \in Codes
    BY <1>2 DEF Insert, Serving, Drawing
  <1>4. born' = born + 1 /\ told' = [told EXCEPT ![born + 1] = call[k].code]
    BY DEF Insert
  <1>5. born \in Nat /\ born + 1 \in Ids
    <2>1. Cardinality(Busy) > 0
      BY <1>2, BusyFinite, FS_EmptySet
    <2> QED BY <2>1, BusyFinite, DirectoryAssumption DEF RoomLeft, TypeOK, Ids
  <1>6. \A s \in rows : s.created \in Ids /\ s.created <= born
    BY DEF TypeOK, Rows, RowsAreBorn
  <1>7. t \in Ids /\ t <= born + 1 /\ \A s \in rows : s.created <= t
    <2>1. CASE t = born + 1
      BY <2>1, <1>5, <1>6 DEF Ids
    <2>2. CASE \E r \in rows : t = r.created /\ \A p \in rows : p.created <= r.created
      BY <2>2, <1>5, <1>6 DEF Ids
    <2> QED BY <2>1, <2>2 DEF Instants
  <1>8. NewRow(k, t) \in Rows
    BY <1>3, <1>5, <1>7 DEF NewRow, Rows
  <1> QED BY <1>1, <1>4, <1>5, <1>7, <1>8 DEF NewRow

\* A row is inserted only while its code is free, and takes the room of its call.
LEMMA InsertStep ==
  ASSUME IInv, NEW k \in Slots, Insert(k)
  PROVE  IInv'
  <1> USE DEF IInv
  <1>1. k \in Busy /\ Finish(k) /\ reader' = reader
    BY DEF Insert, Serving, Busy
  <1>2. call' \in [Slots -> Drawing \cup {None}] /\ Cardinality(Busy') = Cardinality(Busy) - 1
    BY <1>1, RoomKept
  <1>3. CASE call[k].code \in CodesOf(rows)
    <2>1. UNCHANGED <<rows, born, told>>
      BY <1>3 DEF Insert
    <2>2. TypeOK' /\ CodesDrawn' /\ RoomLeft'
      BY <1>1, <1>2, <2>1, BusyFinite, DirectoryAssumption
         DEF TypeOK, CodesDrawn, Drawing, RoomLeft, Ids
    <2> QED BY <2>1, <2>2 DEF RowsAreBorn, CodesLeadToTheirClass
  <1>4. CASE call[k].code \notin CodesOf(rows)
    <2>1. PICK r \in Rows :
            /\ rows' = rows \cup {r} /\ born' = born + 1 /\ born' \in Ids
            /\ r.id = born' /\ r.created <= born' /\ r.code = call[k].code
            /\ told' = [told EXCEPT ![born'] = r.code]
      BY <1>4, InsertsNewest
    <2>2. \A s \in rows : s.id \in Ids /\ s.created \in Ids /\ s.id <= born /\ s.created <= born
      BY DEF TypeOK, Rows, RowsAreBorn
    <2>3. \A s \in rows : s.id # born'
      BY <2>1, <2>2, DirectoryAssumption DEF Ids, TypeOK
    <2>4. TypeOK' /\ CodesDrawn'
      <3>1. r.code \in Codes
        BY DEF Rows
      <3>2. told' \in [Ids -> Codes \cup {None}]
        BY <2>1, <3>1 DEF TypeOK
      <3>3. born' \in 0..MaxClasses
        BY <2>1, DirectoryAssumption DEF Ids
      <3>4. rows' \subseteq Rows
        BY <2>1 DEF TypeOK
      <3> QED BY <1>1, <1>2, <3>2, <3>3, <3>4 DEF TypeOK, CodesDrawn, Drawing
    <2>5. RowsAreBorn'
      <3>1. IsFiniteSet(rows')
        BY <2>1, FS_AddElement DEF RowsAreBorn
      <3>2. \A s \in rows' : s.id <= born' /\ s.created <= born'
        BY <2>1, <2>2, DirectoryAssumption DEF Ids, TypeOK
      <3>3. \A p, s \in rows' : p.id = s.id => p = s
        BY <2>1, <2>3 DEF RowsAreBorn
      <3> QED BY <3>1, <3>2, <3>3 DEF RowsAreBorn
    <2>6. RoomLeft'
      BY <1>2, <2>1, BusyFinite, DirectoryAssumption DEF RoomLeft, TypeOK, Ids
    <2>7. CodesLeadToTheirClass'
      <3>1. \A s \in rows : s.code # r.code
        BY <1>4, <2>1 DEF CodesOf
      <3>2. \A s \in rows : told'[s.id] = told[s.id]
        BY <2>1, <2>2, <2>3 DEF TypeOK
      <3>3. told'[r.id] = r.code
        BY <2>1 DEF TypeOK
      <3> QED BY <2>1, <3>1, <3>2, <3>3 DEF CodesLeadToTheirClass
    <2> QED BY <2>4, <2>5, <2>6, <2>7
  <1> QED BY <1>3, <1>4

\* Deletions take rows only.
LEMMA DeleteStep ==
  ASSUME IInv, NEW id \in Ids, DeleteClass(id)
  PROVE  IInv'
  <1> USE DEF IInv
  <1>1. rows' \subseteq rows /\ UNCHANGED <<born, told, call>>
    BY DEF DeleteClass
  <1>2. reader' \in Readers
    BY DEF DeleteClass, TypeOK, Readers
  <1>3. TypeOK' /\ CodesDrawn'
    BY <1>1, <1>2 DEF TypeOK, CodesDrawn, Drawing
  <1>4. RowsAreBorn'
    <2>1. IsFiniteSet(rows')
      BY <1>1, FS_Subset DEF RowsAreBorn
    <2> QED BY <1>1, <2>1 DEF RowsAreBorn
  <1>5. RoomLeft' /\ CodesLeadToTheirClass'
    BY <1>1 DEF RoomLeft, Busy, CodesLeadToTheirClass
  <1> QED BY <1>3, <1>4, <1>5

\* The reader changes nothing but what he has seen.
LEMMA ReaderTyped ==
  ASSUME TypeOK, BeginWalk \/ ReadRows \/ ReadTotal
  PROVE  reader' \in Readers
  <1> USE DEF TypeOK, Readers
  <1>1. CASE BeginWalk
    <2>1. IdsOf(rows) \subseteq Ids
      BY DEF IdsOf, Rows
    <2> QED BY <1>1, <2>1 DEF BeginWalk
  <1>2. CASE ReadRows
    <2>1. PICK o \in Orders(rows) :
            reader' = [reader EXCEPT !.at = "total", !.seen = @ \cup PageOf(o, reader.page)]
      BY <1>2 DEF ReadRows
    <2>2. PageOf(o, reader.page) \subseteq Ids
      BY DEF PageOf, Orders, Rows
    <2> QED BY <2>1, <2>2
  <1>3. CASE ReadTotal
    <2>1. \/ reader' = [reader EXCEPT !.at = "rows", !.page = @ + 1]
          \/ reader' = [reader EXCEPT !.at = "done"]
      BY <1>3 DEF ReadTotal
    <2>2. reader.page + 1 \in Nat
      OBVIOUS
    <2> QED BY <2>1, <2>2
  <1> QED BY <1>1, <1>2, <1>3

LEMMA ReaderStep ==
  ASSUME IInv, BeginWalk \/ ReadRows \/ ReadTotal
  PROVE  IInv'
  <1>1. UNCHANGED <<rows, born, told, call>>
    BY DEF BeginWalk, ReadRows, ReadTotal
  <1> QED BY <1>1, ReaderTyped
          DEF IInv, TypeOK, CodesDrawn, Drawing, RowsAreBorn, RoomLeft, Busy, CodesLeadToTheirClass

LEMMA NextStep == IInv /\ [Next]_vars => IInv'
  <1> SUFFICES ASSUME IInv, [Next]_vars PROVE IInv'
    OBVIOUS
  <1>1. CASE UNCHANGED vars
    BY <1>1 DEF vars, IInv, TypeOK, CodesDrawn, Drawing, RowsAreBorn, RoomLeft, Busy,
                CodesLeadToTheirClass
  <1>2. CASE Next
    BY <1>2, BeginStep, DrawStep, InsertStep, FailStep, DeleteStep, ReaderStep DEF Next
  <1> QED BY <1>1, <1>2

-------------------------------------------------------------------------------
(* The pages *)

Newer(r) == {s \in rows : s.created > r.created}
Ahead(r) == Cardinality(Newer(r))

Unshown(r) == r.id \in reader.had \ reader.seen /\ InstantOfItsOwn(r.id)

\* The places of the pages read so far.
PlacesRead == IF reader.at = "rows" THEN Offset(reader.page) ELSE Offset(reader.page) + Limit

\* A class that was there and has not been shown is on none of the places read.
WalkInv ==
  reader.at # "idle" /\ ~reader.lost =>
    /\ reader.page > 0
    /\ reader.had \subseteq IdsOf(rows)
    /\ \A r \in rows : Unshown(r) => reader.at # "done" /\ Ahead(r) >= PlacesRead

LEMMA AheadTyped ==
  ASSUME IInv, NEW r
  PROVE  IsFiniteSet(Newer(r)) /\ Ahead(r) \in Nat /\ Cardinality(rows) \in Nat
  BY FS_Subset, FS_CardinalityType DEF IInv, RowsAreBorn, Newer, Ahead

LEMMA OffsetGrows ==
  ASSUME NEW p \in Nat, p > 0
  PROVE  Offset(p) \in Nat /\ Offset(p + 1) = Offset(p) + Limit /\ Offset(1) = 0
  BY DirectoryAssumption DEF Offset

\* The place of a class with an instant of its own is one more than the number of
\* the classes that are newer, in whatever order the others are given.
LEMMA PlaceIsAhead ==
  ASSUME IInv, NEW o \in Orders(rows), NEW r \in rows, InstantOfItsOwn(r.id)
  PROVE  \E i \in DOMAIN o : o[i] = r /\ i = Ahead(r) + 1
  <1> USE DEF IInv
  <1> DEFINE n == Cardinality(rows)
  <1>1. n \in Nat /\ IsFiniteSet(rows)
    BY FS_CardinalityType DEF RowsAreBorn
  <1>2. o \in [1..n -> rows]
        /\ \A i, j \in 1..n : i < j => o[i] # o[j] /\ o[i].created >= o[j].created
    BY DEF Orders
  <1> HIDE DEF n
  <1>3. PICK i \in 1..n : o[i] = r
    <2>1. SUFFICES ASSUME \A i \in 1..n : o[i] # r PROVE FALSE
      OBVIOUS
    <2>2. o \in [1..n -> rows \ {r}]
      BY <1>2, <2>1
    <2>3. \A i, j \in 1..n : o[i] = o[j] => i = j
      BY <1>1, <1>2
    <2>4. o \in Injection(1..n, rows \ {r})
      BY <2>2, <2>3 DEF Injection, IsInjective
    <2>5. IsFiniteSet(rows \ {r}) /\ Cardinality(rows \ {r}) = n - 1
      BY <1>1, FS_RemoveElement DEF n
    <2>6. Cardinality(1..n) <= n - 1
      BY <2>4, <2>5, FS_Injection
    <2>7. Cardinality(1..n) = n
      BY <1>1, FS_Interval
    <2> QED BY <1>1, <2>6, <2>7
  <1>4. \A s \in rows : s.created \in Nat
    BY DEF TypeOK, Rows, Ids
  <1>5. \A s \in rows : s # r => s.created # r.created
    BY DEF InstantOfItsOwn, RowsAreBorn
  <1>6. \A j \in 1..n : j < i => o[j] \in Newer(r)
    BY <1>1, <1>2, <1>3, <1>4, <1>5 DEF Newer
  <1>7. \A j \in 1..n : j >= i => o[j] \notin Newer(r)
    BY <1>1, <1>2, <1>3, <1>4 DEF Newer
  <1>8. \A s \in Newer(r) : \E j \in 1..(i - 1) : o[j] = s
    <2>1. SUFFICES ASSUME NEW s \in Newer(r) PROVE \E j \in 1..(i - 1) : o[j] = s
      OBVIOUS
    <2>2. \E j \in 1..n : o[j] = s
      <3>1. SUFFICES ASSUME \A j \in 1..n : o[j] # s PROVE FALSE
        OBVIOUS
      <3>2. s \in rows
        BY DEF Newer
      <3>3. o \in [1..n -> rows \ {s}]
        BY <1>2, <3>1
      <3>4. \A j, m \in 1..n : o[j] = o[m] => j = m
        BY <1>1, <1>2
      <3>5. o \in Injection(1..n, rows \ {s})
        BY <3>3, <3>4 DEF Injection, IsInjective
      <3>6. IsFiniteSet(rows \ {s}) /\ Cardinality(rows \ {s}) = n - 1
        BY <1>1, <3>2, FS_RemoveElement DEF n
      <3>7. Cardinality(1..n) <= n - 1
        BY <3>5, <3>6, FS_Injection
      <3>8. Cardinality(1..n) = n
        BY <1>1, FS_Interval
      <3> QED BY <1>1, <3>7, <3>8
    <2>3. PICK j \in 1..n : o[j] = s
      BY <2>2
    <2>4. j < i
      BY <1>1, <1>7, <2>3
    <2> QED BY <1>1, <2>3, <2>4
  <1> DEFINE g == [j \in 1..(i - 1) |-> o[j]]
  <1>9. g \in Bijection(1..(i - 1), Newer(r))
    <2>1. g \in [1..(i - 1) -> Newer(r)]
      BY <1>1, <1>6
    <2>2. \A j, m \in 1..(i - 1) : g[j] = g[m] => j = m
      BY <1>1, <1>2
    <2>3. \A s \in Newer(r) : \E j \in 1..(i - 1) : g[j] = s
      BY <1>8
    <2> HIDE DEF g
    <2> QED BY <2>1, <2>2, <2>3 DEF Bijection, Injection, Surjection, IsInjective
  <1>10. Ahead(r) = i - 1
    <2>1. ExistsBijection(1..(i - 1), Newer(r)) /\ i - 1 \in Nat
      BY <1>1, <1>9 DEF ExistsBijection
    <2> QED BY <2>1, FS_CountingElements DEF Ahead
  <1> QED BY <1>1, <1>2, <1>3, <1>10

\* A page shows the classes on its places.
LEMMA ReadStep ==
  ASSUME IInv, WalkInv, ReadRows
  PROVE  WalkInv'
  <1> USE DEF IInv
  <1>1. PICK o \in Orders(rows) :
          reader' = [reader EXCEPT !.at = "total", !.seen = @ \cup PageOf(o, reader.page)]
    BY DEF ReadRows
  <1>2. reader \in Readers /\ reader.at = "rows" /\ UNCHANGED <<rows, born>>
    BY DEF ReadRows, TypeOK
  <1>3. /\ reader'.at = "total" /\ reader'.page = reader.page /\ reader'.had = reader.had
        /\ reader'.seen = reader.seen \cup PageOf(o, reader.page)
        /\ reader'.lost = reader.lost
    BY <1>1, <1>2 DEF Readers
  <1>4. CASE reader.lost
    BY <1>3, <1>4 DEF WalkInv
  <1>5. ASSUME ~reader.lost, NEW r \in rows, Unshown(r)'
        PROVE  Ahead(r)' >= PlacesRead'
    <2>1. reader.page > 0 /\ reader.page \in Nat
      BY <1>2, <1>5 DEF WalkInv, Readers
    <2>2. Unshown(r) /\ r.id \notin PageOf(o, reader.page)
      BY <1>2, <1>3, <1>5 DEF Unshown, InstantOfItsOwn
    <2>3. Ahead(r) >= Offset(reader.page)
      BY <1>2, <1>5, <2>2 DEF WalkInv, PlacesRead
    <2>4. PICK i \in DOMAIN o : o[i] = r /\ i = Ahead(r) + 1
      BY <2>2, PlaceIsAhead DEF Unshown
    <2>5. Offset(reader.page) \in Nat /\ Ahead(r) \in Nat
      BY <2>1, OffsetGrows, AheadTyped
    <2>6. Offset(reader.page) < i
      BY <2>3, <2>4, <2>5
    <2>7. ~(i <= Offset(reader.page) + Limit)
      BY <2>2, <2>4, <2>6 DEF PageOf
    <2>8. Ahead(r) >= Offset(reader.page) + Limit
      BY <2>4, <2>5, <2>7, DirectoryAssumption
    <2> QED BY <1>2, <1>3, <2>8 DEF PlacesRead, Ahead, Newer
  <1>6. CASE ~reader.lost
    BY <1>2, <1>3, <1>5, <1>6 DEF WalkInv, IdsOf
  <1> QED BY <1>4, <1>6

\* The walk ends when the pages read have a place for every class.
LEMMA LastPage ==
  ASSUME NEW n \in Nat, NEW p \in Nat, p > 0, ~(p < TotalPages(n))
  PROVE  n <= Offset(p) + Limit
  <1>1. CASE n = 0
    BY <1>1, OffsetGrows, DirectoryAssumption
  <1>2. CASE n # 0
    <2> DEFINE q == (n + Limit - 1) \div Limit
    <2>1. q \in Nat /\ n + Limit - 1 < (q + 1) * Limit
      BY DirectoryAssumption
    <2>2. ~(p < q)
      BY <1>2 DEF TotalPages
    <2> HIDE DEF q
    <2>3. q <= p
      BY <2>1, <2>2
    <2>4. (q + 1) * Limit <= (p + 1) * Limit
      BY <2>1, <2>3, DirectoryAssumption
    <2>5. (p + 1) * Limit = Offset(p) + Limit + Limit
      BY DirectoryAssumption DEF Offset
    <2>6. Offset(p) \in Nat
      BY OffsetGrows
    <2> QED BY <2>1, <2>4, <2>5, <2>6, DirectoryAssumption
  <1> QED BY <1>1, <1>2

LEMMA TotalStep ==
  ASSUME IInv, WalkInv, ReadTotal
  PROVE  WalkInv'
  <1> USE DEF IInv
  <1>1. reader \in Readers /\ reader.at = "total" /\ UNCHANGED <<rows, born>>
    BY DEF ReadTotal, TypeOK
  <1>2. /\ reader'.had = reader.had /\ reader'.seen = reader.seen /\ reader'.lost = reader.lost
        /\ \/ reader'.at = "rows" /\ reader'.page = reader.page + 1
           \/ /\ reader'.at = "done" /\ reader'.page = reader.page
              /\ ~(reader.page < TotalPages(Cardinality(rows)))
    <2>1. \/ reader' = [reader EXCEPT !.at = "rows", !.page = @ + 1]
          \/ /\ reader' = [reader EXCEPT !.at = "done"]
             /\ ~(reader.page < TotalPages(Cardinality(rows)))
      BY DEF ReadTotal
    <2> QED BY <1>1, <2>1 DEF Readers
  <1>3. CASE reader.lost
    BY <1>2, <1>3 DEF WalkInv
  <1>4. CASE ~reader.lost
    <2>1. reader.page > 0 /\ reader.page \in Nat
      BY <1>1, <1>4 DEF WalkInv, Readers
    <2>2. Offset(reader.page) \in Nat /\ Offset(reader.page + 1) = Offset(reader.page) + Limit
      BY <2>1, OffsetGrows
    <2>3. ASSUME NEW r \in rows, Unshown(r)'
          PROVE  reader'.at # "done" /\ Ahead(r)' >= PlacesRead'
      <3>1. Unshown(r)
        BY <1>1, <1>2, <2>3 DEF Unshown, InstantOfItsOwn
      <3>2. Ahead(r) >= Offset(reader.page) + Limit
        BY <1>1, <1>4, <3>1 DEF WalkInv, PlacesRead
      <3>3. Ahead(r) \in Nat /\ Cardinality(rows) \in Nat /\ Ahead(r) < Cardinality(rows)
        <4>1. Newer(r) \subseteq rows \ {r}
          BY DEF Newer, TypeOK, Rows, Ids
        <4>2. IsFiniteSet(rows) /\ IsFiniteSet(rows \ {r})
              /\ Cardinality(rows \ {r}) = Cardinality(rows) - 1
          BY FS_RemoveElement DEF RowsAreBorn
        <4>3. Ahead(r) <= Cardinality(rows \ {r})
          BY <4>1, <4>2, FS_Subset DEF Ahead
        <4> QED BY <4>2, <4>3, AheadTyped
      <3>4. reader'.at # "done"
        BY <1>2, <2>1, <2>2, <3>2, <3>3, LastPage, DirectoryAssumption
      <3> QED BY <1>1, <1>2, <2>2, <3>2, <3>4 DEF PlacesRead, Ahead, Newer
    <2>4. reader'.page > 0
      BY <1>2, <2>1
    <2> QED BY <1>1, <1>2, <1>4, <2>3, <2>4 DEF WalkInv, IdsOf
  <1> QED BY <1>3, <1>4

\* A new class is newer than the others and is not one the reader waits for.
LEMMA InsertWalk ==
  ASSUME IInv, IInv', WalkInv, NEW k \in Slots, Insert(k)
  PROVE  WalkInv'
  <1> USE DEF IInv
  <1>1. reader' = reader
    BY DEF Insert
  <1>2. CASE call[k].code \in CodesOf(rows)
    <2>1. rows' = rows
      BY <1>2 DEF Insert
    <2> QED BY <1>1, <2>1 DEF WalkInv, IdsOf, Unshown, InstantOfItsOwn, PlacesRead, Ahead, Newer
  <1>3. CASE call[k].code \notin CodesOf(rows)
    <2>1. PICK q \in Rows : rows' = rows \cup {q} /\ born' = born + 1 /\ q.id = born'
      BY <1>3, InsertsNewest
    <2>2. ASSUME reader.at # "idle", ~reader.lost
          PROVE  /\ reader.page > 0 /\ reader.had \subseteq IdsOf(rows')
                 /\ \A r \in rows' : Unshown(r)' => reader.at # "done" /\ Ahead(r)' >= PlacesRead
      <3>1. reader.had \subseteq IdsOf(rows) /\ reader.page > 0
        BY <2>2 DEF WalkInv
      <3>2. q.id \notin reader.had
        BY <2>1, <3>1, DirectoryAssumption DEF IdsOf, RowsAreBorn, TypeOK, Rows, Ids
      <3>3. ASSUME NEW r \in rows', Unshown(r)'
            PROVE  reader.at # "done" /\ Ahead(r)' >= PlacesRead
        <4>1. r \in rows
          BY <1>1, <2>1, <3>2, <3>3 DEF Unshown
        <4>2. Unshown(r)
          BY <1>1, <2>1, <3>3 DEF Unshown, InstantOfItsOwn
        <4>3. reader.at # "done" /\ Ahead(r) >= PlacesRead
          BY <2>2, <4>1, <4>2 DEF WalkInv
        <4>4. Newer(r) \subseteq Newer(r)' /\ IsFiniteSet(Newer(r)')
          <5>1. IsFiniteSet(rows') /\ Newer(r)' \subseteq rows'
            BY DEF RowsAreBorn, Newer
          <5> QED BY <2>1, <5>1, FS_Subset DEF Newer
        <4>5. Ahead(r) <= Ahead(r)' /\ Ahead(r) \in Nat /\ Ahead(r)' \in Nat
          BY <4>4, AheadTyped, FS_Subset, FS_CardinalityType DEF Ahead
        <4>6. PlacesRead \in Int
          BY <2>2, <3>1, OffsetGrows, DirectoryAssumption DEF PlacesRead, TypeOK, Readers
        <4> QED BY <4>3, <4>5, <4>6
      <3>4. IdsOf(rows) \subseteq IdsOf(rows')
        BY <2>1 DEF IdsOf
      <3> QED BY <3>1, <3>3, <3>4
    <2> QED BY <1>1, <2>2 DEF WalkInv, PlacesRead, IdsOf
  <1> QED BY <1>2, <1>3

LEMMA WalkStep == IInv /\ IInv' /\ WalkInv /\ [Next]_vars => WalkInv'
  <1> SUFFICES ASSUME IInv, IInv', WalkInv, [Next]_vars PROVE WalkInv'
    OBVIOUS
  <1>1. CASE UNCHANGED <<rows, reader>>
    BY <1>1 DEF WalkInv, IdsOf, Unshown, InstantOfItsOwn, PlacesRead, Ahead, Newer
  <1>2. ASSUME NEW k \in Slots, BeginCreate(k) \/ DrawCode(k) \/ FindCode(k) \/ Fail(k)
        PROVE  WalkInv'
    BY <1>1, <1>2 DEF BeginCreate, DrawCode, FindCode, Fail
  <1>3. ASSUME NEW id \in Ids, DeleteClass(id) PROVE WalkInv'
    BY <1>3 DEF DeleteClass, WalkInv, IInv, TypeOK, Readers
  <1>4. CASE BeginWalk
    <2>1. /\ reader'.at = "rows" /\ reader'.page = 1 /\ reader'.had = IdsOf(rows)
          /\ rows' = rows
      BY <1>4 DEF BeginWalk
    <2>2. \A r \in rows' : Ahead(r)' >= PlacesRead'
      <3>1. PlacesRead' = 0
        BY <2>1, OffsetGrows DEF PlacesRead
      <3>2. ASSUME NEW r \in rows' PROVE Ahead(r)' = Ahead(r) /\ Ahead(r) \in Nat
        BY <2>1, AheadTyped DEF Ahead, Newer
      <3> QED BY <3>1, <3>2
    <2> QED BY <2>1, <2>2 DEF WalkInv, IdsOf
  <1>5. CASE UNCHANGED vars
    BY <1>1, <1>5 DEF vars
  <1>6. CASE Next
    BY <1>2, <1>3, <1>4, <1>6, InsertWalk, ReadStep, TotalStep DEF Next
  <1> QED BY <1>5, <1>6

LEMMA WalkShows == WalkInv => NothingSkipped
  <1> SUFFICES ASSUME WalkInv, reader.at = "done", ~reader.lost, NEW id \in reader.had,
                      id \notin reader.seen, InstantOfItsOwn(id)
               PROVE  FALSE
    BY DEF NothingSkipped
  <1>1. PICK r \in rows : r.id = id
    BY DEF WalkInv, IdsOf
  <1> QED BY <1>1 DEF WalkInv, Unshown

-------------------------------------------------------------------------------
\* The invariant the first two results rest on, for any number of slots.
THEOREM Inductive == Spec => []IInv
  BY InitHolds, NextStep, PTL DEF Spec

\* Rows, creations and the reader keep their types: no creation exceeds its
\* attempts (generateUniqueCode), and what it looks up is a code it has drawn.
THEOREM DirectoryTypeCorrect == Spec => []TypeOK
  BY Inductive, PTL DEF IInv

\* For any number of creations that draw from any codes, with any luck and any
\* number of attempts, a code leads to the class its creator was told it for.
THEOREM CodesLeadHome == Spec => []CodesLeadToTheirClass
  BY Inductive, PTL DEF IInv

\* For any page size and any number of classes created meanwhile, who reads page
\* after page until totalPages is shown every class that stays, unless another
\* class has its instant.
THEOREM PagesShowAll == Spec => []NothingSkipped
  <1>1. Init => WalkInv
    BY DEF Init, WalkInv
  <1>2. IInv /\ WalkInv => NothingSkipped
    BY WalkShows
  <1> QED BY <1>1, <1>2, Inductive, WalkStep, PTL DEF Spec
===============================================================================
