-------------------------- MODULE SubmissionsProofs --------------------------
(***************************************************************************)
(* How far a student can go over the limit of a list, for any number of    *)
(* students, lists and concurrent calls.  The bound is inductive once the  *)
(* calls that passed the check are counted along with the stored rows.     *)
(***************************************************************************)
EXTENDS Submissions, FiniteSetTheorems, SequenceTheorems, TLAPS

\* Only a submission to an entry is checked, against a limit that was not null.
SubmitShape ==
  \A k \in Slots : submit[k] # None =>
    /\ submit[k].at \in {"entry", "count"} => submit[k].to \in Entries
    /\ submit[k].at = "count" => submit[k].limit \in Limits

\* No list loses its limit.
LimitsStay == \A ls \in Lists : limit[ls] = NoLimit => ls \in LegacyLists

LimitInv == TypeOK /\ SubmitShape /\ LimitsStay /\ OvershootBounded

-------------------------------------------------------------------------------
\* The stored submissions of a student are finitely many.
LEMMA StoredFinite ==
  ASSUME NEW n \in Nat, NEW S \in SUBSET (1..n)
  PROVE  IsFiniteSet(S) /\ Cardinality(S) \in Nat
  <1>1. IsFiniteSet(1..n)
    BY FS_Interval
  <1>2. IsFiniteSet(S)
    BY <1>1, FS_Subset
  <1> QED BY <1>2, FS_CardinalityType

\* A part of the slots has at most as many elements as there are slots.
LEMMA SlotsBound ==
  ASSUME NEW S \in SUBSET Slots
  PROVE  /\ IsFiniteSet(S) /\ Cardinality(S) \in Nat
         /\ Cardinality(Slots) \in Nat /\ Cardinality(S) <= Cardinality(Slots)
  <1>1. IsFiniteSet(S) /\ Cardinality(S) <= Cardinality(Slots)
    BY SlotsAssumption, FS_Subset
  <1> QED BY <1>1, SlotsAssumption, FS_CardinalityType

\* Count and the number of admitted calls are natural numbers.
LEMMA CountsNat ==
  ASSUME subs \in Seq(Submission), NEW s, NEW e
  PROVE  /\ IsFiniteSet(Stored(s, e)) /\ Count(s, e) \in Nat
         /\ IsFiniteSet(Admitted(s, e)) /\ Cardinality(Admitted(s, e)) \in Nat
         /\ Cardinality(Admitted(s, e)) <= Cardinality(Slots)
         /\ Cardinality(Slots) \in Nat
  <1>1. Len(subs) \in Nat
    BY LenProperties
  <1>2. Stored(s, e) \in SUBSET (1..Len(subs))
    BY DEF Stored
  <1>3. Admitted(s, e) \in SUBSET Slots
    BY DEF Admitted
  <1>4. IsFiniteSet(Stored(s, e)) /\ Cardinality(Stored(s, e)) \in Nat
    BY <1>1, <1>2, StoredFinite
  <1>5. /\ IsFiniteSet(Admitted(s, e)) /\ Cardinality(Admitted(s, e)) \in Nat
        /\ Cardinality(Admitted(s, e)) <= Cardinality(Slots)
        /\ Cardinality(Slots) \in Nat
    BY <1>3, SlotsBound
  <1> QED BY <1>4, <1>5 DEF Count

\* A step after which no student has more submissions stored or admitted keeps
\* the bound.
LEMMA FewerKeepsBound ==
  ASSUME OvershootBounded, subs \in Seq(Submission), subs' \in Seq(Submission),
         \A s \in Students, e \in Entries :
           /\ Stored(s, e)' \in SUBSET Stored(s, e)
           /\ Admitted(s, e)' \in SUBSET Admitted(s, e)
  PROVE  OvershootBounded'
  <1> SUFFICES ASSUME NEW s \in Students, NEW e \in Entries, ListOf[e] \notin LegacyLists
               PROVE  Cardinality(Stored(s, e)') + Cardinality(Admitted(s, e)') + 1
                        <= MaxLimit + Cardinality(Slots)
    BY DEF OvershootBounded, Count
  <1>1. /\ IsFiniteSet(Stored(s, e)) /\ Cardinality(Stored(s, e)) \in Nat
        /\ IsFiniteSet(Admitted(s, e)) /\ Cardinality(Admitted(s, e)) \in Nat
        /\ Cardinality(Slots) \in Nat
    BY CountsNat DEF Count
  <1>2. /\ IsFiniteSet(Stored(s, e)') /\ Cardinality(Stored(s, e)') <= Cardinality(Stored(s, e))
        /\ IsFiniteSet(Admitted(s, e)')
        /\ Cardinality(Admitted(s, e)') <= Cardinality(Admitted(s, e))
    BY <1>1, FS_Subset
  <1>3. Cardinality(Stored(s, e)') \in Nat /\ Cardinality(Admitted(s, e)') \in Nat
    BY <1>2, FS_CardinalityType
  <1>4. Cardinality(Stored(s, e)) + Cardinality(Admitted(s, e)) + 1
          <= MaxLimit + Cardinality(Slots)
    BY DEF OvershootBounded, Count
  <1> QED BY <1>1, <1>2, <1>3, <1>4, BoundsAssumption

-------------------------------------------------------------------------------
(* Types. *)

\* What SetNull makes of the submissions: as many, each to its target or none.
LEMMA DropTyped ==
  ASSUME TypeOK, NEW x, Drop(x)
  PROVE  /\ rows' \subseteq Links \cup Lists \cup Entries
         /\ subs' \in Seq(Submission)
         /\ Len(subs') = Len(subs)
         /\ \A i \in 1..Len(subs) :
              /\ subs'[i].student = subs[i].student
              /\ subs'[i].to \in {subs[i].to, None}
  <1> DEFINE row(i) == IF subs[i].to \in Cascade(x) THEN [subs[i] EXCEPT !.to = None]
                                                   ELSE subs[i]
  <1>1. subs \in Seq(Submission) /\ Len(subs) \in Nat
    BY LenProperties DEF TypeOK
  <1>2. \A i \in 1..Len(subs) : subs[i] \in Submission
    BY <1>1, ElementOfSeq
  <1>3. \A i \in 1..Len(subs) : row(i) \in Submission
    BY <1>2 DEF Submission
  <1>4. subs' = [i \in 1..Len(subs) |-> row(i)]
    BY DEF Drop
  <1>5. subs' \in Seq(Submission) /\ Len(subs') = Len(subs)
    <2>1. subs' \in [1..Len(subs) -> Submission]
      BY <1>3, <1>4
    <2> HIDE DEF row
    <2> QED BY <1>1, <2>1
  <1>6. \A i \in 1..Len(subs) : subs'[i].student = subs[i].student
                                /\ subs'[i].to \in {subs[i].to, None}
    BY <1>2, <1>4 DEF Submission
  <1>7. rows' \subseteq Links \cup Lists \cup Entries
    BY DEF Drop, TypeOK
  <1> QED BY <1>5, <1>6, <1>7

\* Types and the shape of the calls are kept by every step.
LEMMA ShapeStep ==
  ASSUME TypeOK, SubmitShape, LimitsStay, [Next]_vars
  PROVE  TypeOK' /\ SubmitShape' /\ LimitsStay'
  <1>1. ASSUME NEW k \in Slots, NEW s \in Students, NEW x \in Targets, BeginSubmit(k, s, x)
        PROVE  TypeOK' /\ SubmitShape' /\ LimitsStay'
    <2> DEFINE new == [student |-> s, to |-> x, limit |-> NoLimit,
                       at |-> IF x \in Entries THEN "entry" ELSE "insert"]
    <2>1. /\ new \in SubmitCalls
          /\ new.at \in {"entry", "count"} => new.to \in Entries
          /\ new.at # "count"
      BY DEF SubmitCalls
    <2>2. /\ submit' = [submit EXCEPT ![k] = new]
          /\ UNCHANGED <<task, rows, limit, subs, trail, deletion>>
      BY <1>1 DEF BeginSubmit
    <2> HIDE DEF new
    <2>3. submit'[k] = new /\ \A j \in Slots \ {k} : submit'[j] = submit[j]
      BY <2>2 DEF TypeOK
    <2> QED BY <2>1, <2>2, <2>3 DEF TypeOK, SubmitShape, LimitsStay
  <1>2. ASSUME NEW k \in Slots, ReadEntry(k)
        PROVE  TypeOK' /\ SubmitShape' /\ LimitsStay'
    <2>1. /\ submit[k] \in SubmitCalls /\ submit[k].to \in Entries
          /\ limit[ListOf[submit[k].to]] \in Limits \cup {NoLimit}
      BY <1>2, RowsAssumption DEF ReadEntry, Submitting, TypeOK, SubmitShape
    <2> DEFINE lim == limit[ListOf[submit[k].to]]
               new == [submit[k] EXCEPT !.limit = lim,
                         !.at = IF lim = NoLimit THEN "insert" ELSE "count"]
    <2>2. /\ new \in SubmitCalls /\ new.to \in Entries
          /\ new.at = "count" => new.limit \in Limits
      BY <2>1, BoundsAssumption DEF SubmitCalls
    <2>3. /\ EndSubmit(k) \/ submit' = [submit EXCEPT ![k] = new]
          /\ UNCHANGED <<task, rows, limit, subs, trail, deletion>>
      BY <1>2, <2>1 DEF ReadEntry, TypeOK
    <2> HIDE DEF new
    <2> QED BY <2>2, <2>3 DEF EndSubmit, TypeOK, SubmitShape, LimitsStay
  <1>3. ASSUME NEW k \in Slots, CountSubmissions(k)
        PROVE  TypeOK' /\ SubmitShape' /\ LimitsStay'
    <2>1. submit[k] \in SubmitCalls
      BY <1>3 DEF CountSubmissions, Submitting, TypeOK
    <2> DEFINE new == [submit[k] EXCEPT !.at = "insert"]
    <2>2. new \in SubmitCalls /\ new.at = "insert"
      BY <2>1 DEF SubmitCalls
    <2>3. /\ EndSubmit(k) \/ submit' = [submit EXCEPT ![k] = new]
          /\ UNCHANGED <<task, rows, limit, subs, trail, deletion>>
      BY <1>3 DEF CountSubmissions
    <2> HIDE DEF new
    <2> QED BY <2>2, <2>3 DEF EndSubmit, TypeOK, SubmitShape, LimitsStay
  <1>4. ASSUME NEW k \in Slots, Insert(k)
        PROVE  TypeOK' /\ SubmitShape' /\ LimitsStay'
    <2>1. submit[k] \in SubmitCalls
      BY <1>4 DEF Insert, Submitting, TypeOK
    <2>2. [student |-> submit[k].student, to |-> submit[k].to] \in Submission
      BY <2>1 DEF SubmitCalls, Submission
    <2>3. subs' \in Seq(Submission)
      BY <1>4, <2>2 DEF Insert, TypeOK
    <2> QED BY <1>4, <2>3 DEF Insert, EndSubmit, TypeOK, SubmitShape, LimitsStay
  <1>5. ASSUME NEW k \in Slots, FailSubmit(k)
        PROVE  TypeOK' /\ SubmitShape' /\ LimitsStay'
    BY <1>5 DEF FailSubmit, EndSubmit, TypeOK, SubmitShape, LimitsStay
  <1>6. ASSUME NEW d \in Deleters, DeleteStep(d)
        PROVE  TypeOK' /\ SubmitShape' /\ LimitsStay'
    <2>1. UNCHANGED <<limit, submit>>
      BY <1>6 DEF DeleteStep, BeginDelete, ReadTask, CountTaskSubmissions, SoftDelete,
                  HardDelete, FailDelete
    <2>2. SubmitShape' /\ LimitsStay'
      BY <2>1 DEF SubmitShape, LimitsStay
    <2>3. CASE \E t \in Tasks : BeginDelete(d, t)
      <3>1. PICK t \in Tasks : BeginDelete(d, t)
        BY <2>3
      <3>2. [task |-> t, at |-> "task", soft |-> FALSE, seen |-> 0] \in DeleteCalls
        BY DEF DeleteCalls
      <3> QED BY <3>1, <3>2, <2>2 DEF BeginDelete, TypeOK
    <2>4. CASE ReadTask(d) \/ FailDelete(d)
      <3>1. deletion[d] \in DeleteCalls
        BY <2>4 DEF ReadTask, FailDelete, Deleting, TypeOK
      <3>2. [deletion[d] EXCEPT !.at = "count"] \in DeleteCalls
        BY <3>1 DEF DeleteCalls
      <3> QED BY <2>4, <2>2, <3>2 DEF ReadTask, FailDelete, EndDelete, TypeOK
    <2>5. CASE CountTaskSubmissions(d)
      <3>1. deletion[d] \in DeleteCalls /\ Len(subs) \in Nat
        BY <2>5, LenProperties DEF CountTaskSubmissions, Deleting, TypeOK
      <3> QED BY <2>5, <2>2, <3>1 DEF CountTaskSubmissions, TypeOK, DeleteCalls
    <2>6. ASSUME NEW event \in {"soft", "removed"}, Deleting(d, "write"),
                 Record(deletion[d].task, event)
          PROVE  trail' \in [Tasks -> Seq({"soft", "removed"})] /\ deletion[d].task \in Tasks
      BY <2>6 DEF Deleting, Record, TypeOK, DeleteCalls
    <2>7. CASE SoftDelete(d)
      BY <2>7, <2>6, <2>2 DEF SoftDelete, EndDelete, TypeOK
    <2>8. CASE HardDelete(d)
      <3>1. /\ rows' \subseteq Links \cup Lists \cup Entries
            /\ subs' \in Seq(Submission)
        BY <2>8, DropTyped DEF HardDelete
      <3> QED BY <2>8, <2>6, <2>2, <3>1 DEF HardDelete, EndDelete, TypeOK
    <2> QED BY <1>6, <2>3, <2>4, <2>5, <2>7, <2>8 DEF DeleteStep
  <1>7. ASSUME NEW x \in Links \cup Lists \cup Entries, RemoveRow(x)
        PROVE  TypeOK' /\ SubmitShape' /\ LimitsStay'
    <2>1. /\ rows' \subseteq Links \cup Lists \cup Entries
          /\ subs' \in Seq(Submission)
      BY <1>7, DropTyped DEF RemoveRow
    <2> QED BY <1>7, <2>1 DEF RemoveRow, TypeOK, SubmitShape, LimitsStay
  <1>8. ASSUME NEW ls \in Lists, NEW n \in Limits, SetLimit(ls, n)
        PROVE  TypeOK' /\ SubmitShape' /\ LimitsStay'
    BY <1>8, BoundsAssumption DEF SetLimit, TypeOK, SubmitShape, LimitsStay
  <1>9. CASE UNCHANGED vars
    BY <1>9 DEF vars, TypeOK, SubmitShape, LimitsStay
  <1> QED BY <1>1, <1>2, <1>3, <1>4, <1>5, <1>6, <1>7, <1>8, <1>9 DEF Next, SubmitStep

-------------------------------------------------------------------------------
(* The bound. *)

\* A submission that passes the check leaves room for every other slot.
LEMMA CountKeepsBound ==
  ASSUME LimitInv, TypeOK', NEW k \in Slots, CountSubmissions(k)
  PROVE  OvershootBounded'
  <1> SUFFICES ASSUME NEW s \in Students, NEW e \in Entries, ListOf[e] \notin LegacyLists
               PROVE  Count(s, e)' + Cardinality(Admitted(s, e)') + 1
                        <= MaxLimit + Cardinality(Slots)
    BY DEF OvershootBounded
  <1>1. subs' = subs /\ subs \in Seq(Submission)
    BY DEF CountSubmissions, LimitInv, TypeOK
  <1>2. Count(s, e)' = Count(s, e) /\ Count(s, e) \in Nat
    <2>1. Count(s, e)' = Count(s, e)
      BY <1>1 DEF Count, Stored
    <2>2. Count(s, e) \in Nat
      BY <1>1, CountsNat
    <2> QED BY <2>1, <2>2
  <1>3. Admitted(s, e)' \in SUBSET Slots
    BY DEF Admitted
  <1>4. /\ Cardinality(Admitted(s, e)') \in Nat
        /\ Cardinality(Admitted(s, e)') <= Cardinality(Slots)
        /\ Cardinality(Slots) \in Nat
    BY <1>3, SlotsBound
  <1>5. CASE submit[k].student = s /\ submit[k].to = e /\ Count(s, e) < submit[k].limit
    <2>1. submit[k].limit \in 1..MaxLimit
      BY DEF CountSubmissions, Submitting, LimitInv, SubmitShape, Limits
    <2> QED BY <1>2, <1>4, <1>5, <2>1, BoundsAssumption
  <1>6. CASE ~(submit[k].student = s /\ submit[k].to = e /\ Count(s, e) < submit[k].limit)
    <2>1. submit[k] \in SubmitCalls /\ submit[k].at = "count" /\ submit[k].limit \in 1..MaxLimit
      BY DEF CountSubmissions, Submitting, LimitInv, TypeOK, SubmitShape, Limits
    <2>2. \/ EndSubmit(k)
          \/ /\ submit' = [submit EXCEPT ![k].at = "insert"]
             /\ Count(submit[k].student, submit[k].to) < submit[k].limit
      <3>1. Count(submit[k].student, submit[k].to) \in Nat
        BY <1>1, CountsNat
      <3> QED BY <2>1, <3>1, BoundsAssumption DEF CountSubmissions
    <2>3. Admitted(s, e)' \subseteq Admitted(s, e)
      <3> DEFINE new == [submit[k] EXCEPT !.at = "insert"]
      <3>1. new.student = submit[k].student /\ new.to = submit[k].to
        BY <2>1 DEF SubmitCalls
      <3> HIDE DEF new
      <3>2. \A j \in Slots \ {k} : submit'[j] = submit[j]
        BY <2>2 DEF EndSubmit, LimitInv, TypeOK
      <3>3. \/ submit'[k] = None
            \/ submit'[k] = new /\ Count(submit[k].student, submit[k].to) < submit[k].limit
        BY <2>2 DEF EndSubmit, LimitInv, TypeOK, new
      <3>4. k \notin Admitted(s, e)'
        BY <3>1, <3>3, <1>6 DEF Admitted, Submitting
      <3> QED BY <3>2, <3>4 DEF Admitted, Submitting
    <2>4. IsFiniteSet(Admitted(s, e)) /\ Cardinality(Admitted(s, e)) \in Nat
      BY <1>1, CountsNat
    <2>5. Cardinality(Admitted(s, e)') <= Cardinality(Admitted(s, e))
      BY <2>3, <2>4, FS_Subset
    <2>6. Count(s, e) + Cardinality(Admitted(s, e)) + 1 <= MaxLimit + Cardinality(Slots)
      BY DEF LimitInv, OvershootBounded
    <2> QED BY <1>2, <1>4, <2>4, <2>5, <2>6, BoundsAssumption
  <1> QED BY <1>5, <1>6

\* A submission that is stored was admitted before.
LEMMA InsertKeepsBound ==
  ASSUME LimitInv, TypeOK', NEW k \in Slots, Insert(k)
  PROVE  OvershootBounded'
  <1>1. /\ subs \in Seq(Submission) /\ Len(subs) \in Nat /\ subs' \in Seq(Submission)
        /\ submit[k] # None /\ submit[k].at = "insert" /\ submit[k] \in SubmitCalls
    BY LenProperties DEF Insert, Submitting, LimitInv, TypeOK
  <1>2. \A s \in Students, e \in Entries :
          Admitted(s, e)' = Admitted(s, e) \ {k}
    BY DEF Insert, EndSubmit, Admitted, Submitting, LimitInv, TypeOK
  <1>3. CASE subs' = subs
    BY <1>1, <1>2, <1>3, FewerKeepsBound DEF LimitInv, Stored
  <1>4. CASE subs' = Append(subs, [student |-> submit[k].student, to |-> submit[k].to])
    <2> SUFFICES ASSUME NEW s \in Students, NEW e \in Entries, ListOf[e] \notin LegacyLists
                 PROVE  Count(s, e)' + Cardinality(Admitted(s, e)') + 1
                          <= MaxLimit + Cardinality(Slots)
      BY DEF OvershootBounded
    <2>1. /\ IsFiniteSet(Stored(s, e)) /\ Count(s, e) \in Nat
          /\ IsFiniteSet(Admitted(s, e)) /\ Cardinality(Admitted(s, e)) \in Nat
          /\ Cardinality(Slots) \in Nat
      BY <1>1, CountsNat
    <2>2. Count(s, e) + Cardinality(Admitted(s, e)) + 1 <= MaxLimit + Cardinality(Slots)
      BY DEF LimitInv, OvershootBounded
    <2>3. /\ Len(subs') = Len(subs) + 1
          /\ \A i \in 1..Len(subs) : subs'[i] = subs[i]
          /\ subs'[Len(subs) + 1] = [student |-> submit[k].student, to |-> submit[k].to]
      BY <1>1, <1>4, AppendProperties DEF SubmitCalls, Submission
    <2>4. CASE submit[k].student = s /\ submit[k].to = e
      <3>1. Stored(s, e)' = Stored(s, e) \cup {Len(subs) + 1}
        BY <1>1, <2>3, <2>4 DEF Stored
      <3>2. Len(subs) + 1 \notin Stored(s, e)
        BY <1>1 DEF Stored
      <3>3. Cardinality(Stored(s, e)') = Cardinality(Stored(s, e)) + 1
        BY <2>1, <3>1, <3>2, FS_AddElement
      <3>4. k \in Admitted(s, e)
        BY <1>1, <2>4 DEF Admitted, Submitting
      <3>5. Cardinality(Admitted(s, e)') = Cardinality(Admitted(s, e)) - 1
        BY <1>2, <2>1, <3>4, FS_RemoveElement
      <3> QED BY <2>1, <2>2, <3>3, <3>5, BoundsAssumption DEF Count
    <2>5. CASE ~(submit[k].student = s /\ submit[k].to = e)
      <3>1. Stored(s, e)' = Stored(s, e)
        BY <1>1, <2>3, <2>5 DEF Stored
      <3>2. Admitted(s, e)' = Admitted(s, e)
        BY <1>2, <2>5 DEF Admitted
      <3> QED BY <2>1, <2>2, <3>1, <3>2 DEF Count
    <2> QED BY <2>4, <2>5
  <1> QED BY <1>3, <1>4 DEF Insert

\* Deleting rows takes submissions away from an entry and gives it none.
LEMMA DropKeepsBound ==
  ASSUME LimitInv, TypeOK', NEW x, Drop(x), UNCHANGED submit
  PROVE  OvershootBounded'
  <1>1. /\ subs \in Seq(Submission) /\ subs' \in Seq(Submission)
        /\ Len(subs') = Len(subs)
        /\ \A i \in 1..Len(subs) :
             /\ subs'[i].student = subs[i].student
             /\ subs'[i].to \in {subs[i].to, None}
    BY DropTyped DEF LimitInv, TypeOK
  <1>2. None \notin Entries
    BY RowsAssumption DEF Targets
  <1>3. \A s \in Students, e \in Entries : Stored(s, e)' \in SUBSET Stored(s, e)
    BY <1>1, <1>2 DEF Stored
  <1>4. \A s \in Students, e \in Entries : Admitted(s, e)' \in SUBSET Admitted(s, e)
    BY DEF Admitted, Submitting
  <1> QED BY <1>1, <1>3, <1>4, FewerKeepsBound DEF LimitInv

\* Every step keeps the bound: it is reached by racing, never passed.
LEMMA LimitStep ==
  ASSUME LimitInv, [Next]_vars
  PROVE  LimitInv'
  <1>1. TypeOK' /\ SubmitShape' /\ LimitsStay'
    BY ShapeStep DEF LimitInv
  <1>2. ASSUME subs' = subs,
               \A s \in Students, e \in Entries :
                 ListOf[e] \notin LegacyLists => Admitted(s, e)' \subseteq Admitted(s, e)
        PROVE  OvershootBounded'
    <2> SUFFICES ASSUME NEW s \in Students, NEW e \in Entries, ListOf[e] \notin LegacyLists
                 PROVE  Count(s, e)' + Cardinality(Admitted(s, e)') + 1
                          <= MaxLimit + Cardinality(Slots)
      BY DEF OvershootBounded
    <2>1. /\ Count(s, e) \in Nat
          /\ IsFiniteSet(Admitted(s, e)) /\ Cardinality(Admitted(s, e)) \in Nat
          /\ Cardinality(Slots) \in Nat
      BY CountsNat DEF LimitInv, TypeOK
    <2>2. /\ IsFiniteSet(Admitted(s, e)')
          /\ Cardinality(Admitted(s, e)') <= Cardinality(Admitted(s, e))
      BY <1>2, <2>1, FS_Subset
    <2>3. Cardinality(Admitted(s, e)') \in Nat
      BY <2>2, FS_CardinalityType
    <2>4. Count(s, e)' = Count(s, e)
      BY <1>2 DEF Count, Stored
    <2>5. Count(s, e) + Cardinality(Admitted(s, e)) + 1 <= MaxLimit + Cardinality(Slots)
      BY DEF LimitInv, OvershootBounded
    <2> QED BY <2>1, <2>2, <2>3, <2>4, <2>5, BoundsAssumption
  <1>3. ASSUME NEW k \in Slots, NEW s \in Students, NEW x \in Targets, BeginSubmit(k, s, x)
        PROVE  OvershootBounded'
    <2>1. \A r \in Students, e \in Entries : Admitted(r, e)' \subseteq Admitted(r, e)
      BY <1>3 DEF BeginSubmit, Admitted, Submitting, LimitInv, TypeOK
    <2> QED BY <1>3, <1>2, <2>1 DEF BeginSubmit
  <1>4. ASSUME NEW k \in Slots, ReadEntry(k)
        PROVE  OvershootBounded'
    <2>1. submit[k] \in SubmitCalls /\ submit[k].to \in Entries
      BY <1>4 DEF ReadEntry, Submitting, LimitInv, TypeOK, SubmitShape
    <2>2. ListOf[submit[k].to] \in Lists
      BY <2>1, RowsAssumption
    <2> DEFINE lim == limit[ListOf[submit[k].to]]
               new == [submit[k] EXCEPT !.limit = lim,
                         !.at = IF lim = NoLimit THEN "insert" ELSE "count"]
    <2>8. new.to = submit[k].to /\ (lim # NoLimit => new.at = "count")
      BY <2>1 DEF SubmitCalls
    <2>3. EndSubmit(k) \/ submit' = [submit EXCEPT ![k] = new]
      BY <1>4, <2>1 DEF ReadEntry, LimitInv, TypeOK
    <2> HIDE DEF new
    <2>4. \A j \in Slots \ {k} : submit'[j] = submit[j]
      BY <2>3 DEF EndSubmit, LimitInv, TypeOK
    <2>5. submit'[k] = None \/ submit'[k].to = submit[k].to
      BY <2>3, <2>8 DEF EndSubmit, LimitInv, TypeOK
    <2>6. ListOf[submit[k].to] \notin LegacyLists => submit'[k] = None \/ submit'[k].at = "count"
      BY <2>2, <2>3, <2>8 DEF EndSubmit, LimitInv, TypeOK, LimitsStay
    <2>7. \A s \in Students, e \in Entries :
            ListOf[e] \notin LegacyLists => Admitted(s, e)' \subseteq Admitted(s, e)
      BY <2>4, <2>5, <2>6 DEF Admitted, Submitting
    <2> QED BY <1>4, <1>2, <2>7 DEF ReadEntry
  <1>5. ASSUME NEW k \in Slots, FailSubmit(k)
        PROVE  OvershootBounded'
    <2>1. \A s \in Students, e \in Entries : Admitted(s, e)' \subseteq Admitted(s, e)
      BY <1>5 DEF FailSubmit, EndSubmit, Admitted, Submitting, LimitInv, TypeOK
    <2> QED BY <1>5, <1>2, <2>1 DEF FailSubmit
  <1>6. ASSUME UNCHANGED <<subs, submit>>
        PROVE  OvershootBounded'
    BY <1>6, <1>2 DEF Admitted, Submitting
  <1>7. ASSUME NEW d \in Deleters, DeleteStep(d)
        PROVE  OvershootBounded'
    <2>1. CASE HardDelete(d)
      BY <2>1, <1>1, DropKeepsBound DEF HardDelete
    <2>2. CASE ~HardDelete(d)
      <3>1. UNCHANGED <<subs, submit>>
        BY <1>7, <2>2 DEF DeleteStep, BeginDelete, ReadTask, CountTaskSubmissions,
                          SoftDelete, FailDelete
      <3> QED BY <3>1, <1>6
    <2> QED BY <2>1, <2>2
  <1>8. ASSUME NEW x \in Links \cup Lists \cup Entries, RemoveRow(x)
        PROVE  OvershootBounded'
    BY <1>8, <1>1, DropKeepsBound DEF RemoveRow
  <1>9. ASSUME NEW ls \in Lists, NEW n \in Limits, SetLimit(ls, n)
        PROVE  OvershootBounded'
    <2>1. UNCHANGED <<subs, submit>>
      BY <1>9 DEF SetLimit
    <2> QED BY <2>1, <1>6
  <1>12. ASSUME UNCHANGED vars PROVE OvershootBounded'
    <2>1. UNCHANGED <<subs, submit>>
      BY <1>12 DEF vars
    <2> QED BY <2>1, <1>6
  <1>10. ASSUME NEW k \in Slots, CountSubmissions(k) \/ Insert(k)
         PROVE  OvershootBounded'
    <2>1. CASE CountSubmissions(k)
      BY <2>1, <1>1, CountKeepsBound
    <2>2. CASE Insert(k)
      BY <2>2, <1>1, InsertKeepsBound
    <2> QED BY <1>10, <2>1, <2>2
  <1>11. OvershootBounded'
    BY <1>3, <1>4, <1>5, <1>7, <1>8, <1>9, <1>10, <1>12 DEF Next, SubmitStep
  <1> QED BY <1>1, <1>11 DEF LimitInv

\* Nothing is stored and nobody is admitted at the start.
LEMMA LimitInit == Init => LimitInv
  <1> SUFFICES ASSUME Init PROVE LimitInv
    OBVIOUS
  <1>1. TypeOK /\ SubmitShape /\ LimitsStay
    BY DEF Init, TypeOK, SubmitShape, LimitsStay
  <1>2. ASSUME NEW s \in Students, NEW e \in Entries
        PROVE  Count(s, e) + Cardinality(Admitted(s, e)) + 1 <= MaxLimit + Cardinality(Slots)
    <2>1. Stored(s, e) = {} /\ Admitted(s, e) = {}
      BY DEF Init, Stored, Admitted, Submitting
    <2>2. Cardinality(Slots) \in Nat
      BY SlotsAssumption, FS_CardinalityType
    <2> QED BY <2>1, <2>2, FS_EmptySet, BoundsAssumption DEF Count
  <1> QED BY <1>1, <1>2 DEF LimitInv, OvershootBounded

\* Rows, limits, submissions and calls keep their types.
THEOREM SubmissionsTypeCorrect == Spec => []TypeOK
  <1>1. LimitInv => TypeOK
    BY DEF LimitInv
  <1> QED BY <1>1, LimitInit, LimitStep, PTL DEF Spec

\* However many calls race, a student stores for an entry at most as many
\* submissions as the largest limit, plus one for each further slot.
THEOREM OvershootIsBounded == Spec => []OvershootBounded
  <1>1. LimitInv => OvershootBounded
    BY DEF LimitInv
  <1> QED BY <1>1, LimitInit, LimitStep, PTL DEF Spec

-------------------------------------------------------------------------------
(* Deletions. *)

\* What a deletion that found no submission knows until it writes: those that
\* were there when it counted are not to the task.
LateInv ==
  \A d \in Deleters : Deleting(d, "write") =>
    /\ deletion[d].seen <= Len(subs)
    /\ ~deletion[d].soft => \A i \in 1..deletion[d].seen : subs[i].to # deletion[d].task

\* Every step keeps it: submissions are appended, and a target is only cleared.
LEMMA LateStep ==
  ASSUME TypeOK, LateInv, [Next]_vars
  PROVE  LateInv'
  <1>1. subs \in Seq(Submission) /\ Len(subs) \in Nat
    BY LenProperties DEF TypeOK
  <1>2. ASSUME Len(subs') \in Nat, Len(subs) <= Len(subs'),
               \A i \in 1..Len(subs) : subs'[i].to \in {subs[i].to, None},
               \A d \in Deleters : deletion'[d] \in {deletion[d], None}
        PROVE  LateInv'
    <2> SUFFICES ASSUME NEW d \in Deleters, deletion'[d] # None, deletion'[d].at = "write"
                 PROVE  /\ deletion'[d].seen <= Len(subs')
                        /\ ~deletion'[d].soft =>
                             \A i \in 1..deletion'[d].seen : subs'[i].to # deletion'[d].task
      BY DEF LateInv, Deleting
    <2>1. /\ deletion'[d] = deletion[d] /\ Deleting(d, "write") /\ deletion[d] \in DeleteCalls
      BY <1>2 DEF Deleting, TypeOK
    <2>2. deletion[d].seen \in Nat /\ deletion[d].task # None
      BY <2>1, RowsAssumption DEF DeleteCalls, Targets
    <2>3. deletion[d].seen <= Len(subs)
      BY <2>1 DEF LateInv
    <2> QED BY <1>1, <1>2, <2>1, <2>2, <2>3 DEF LateInv
  <1>3. ASSUME UNCHANGED subs, \A d \in Deleters : deletion'[d] \in {deletion[d], None}
        PROVE  LateInv'
    BY <1>1, <1>2, <1>3
  <1>4. ASSUME UNCHANGED subs, NEW d \in Deleters, NEW call,
               deletion' = [deletion EXCEPT ![d] = call],
               call.at = "write" =>
                 /\ call.seen <= Len(subs)
                 /\ ~call.soft => \A i \in 1..call.seen : subs[i].to # call.task
        PROVE  LateInv'
    BY <1>4 DEF LateInv, Deleting, TypeOK
  <1>5. ASSUME NEW k \in Slots, SubmitStep(k)
        PROVE  LateInv'
    <2>1. CASE Insert(k)
      <3>1. submit[k] \in SubmitCalls
        BY <2>1 DEF Insert, Submitting, TypeOK
      <3>2. [student |-> submit[k].student, to |-> submit[k].to] \in Submission
        BY <3>1 DEF SubmitCalls, Submission
      <3>3. /\ Len(subs') \in Nat /\ Len(subs) <= Len(subs')
            /\ \A i \in 1..Len(subs) : subs'[i] = subs[i]
        BY <1>1, <2>1, <3>2, AppendProperties DEF Insert
      <3> QED BY <2>1, <3>3, <1>2 DEF Insert
    <2>2. CASE ~Insert(k)
      <3>1. UNCHANGED <<subs, deletion>>
        BY <1>5, <2>2 DEF SubmitStep, BeginSubmit, ReadEntry, CountSubmissions, FailSubmit
      <3> QED BY <3>1, <1>3
    <2> QED BY <2>1, <2>2
  <1>6. ASSUME NEW x, Drop(x), \A d \in Deleters : deletion'[d] \in {deletion[d], None}
        PROVE  LateInv'
    BY <1>1, <1>2, <1>6, DropTyped
  <1>7. ASSUME NEW d \in Deleters, DeleteStep(d)
        PROVE  LateInv'
    <2>1. ASSUME EndDelete(d)
          PROVE  \A c \in Deleters : deletion'[c] \in {deletion[c], None}
      BY <2>1 DEF EndDelete, TypeOK
    <2>2. CASE SoftDelete(d) \/ FailDelete(d)
      BY <2>1, <2>2, <1>3 DEF SoftDelete, FailDelete
    <2>3. CASE HardDelete(d)
      BY <2>1, <2>3, <1>6 DEF HardDelete
    <2>4. ASSUME NEW t \in Tasks, BeginDelete(d, t)
          PROVE  LateInv'
      <3> DEFINE call == [task |-> t, at |-> "task", soft |-> FALSE, seen |-> 0]
      <3>1. call.at # "write" /\ UNCHANGED subs /\ deletion' = [deletion EXCEPT ![d] = call]
        BY <2>4 DEF BeginDelete
      <3> HIDE DEF call
      <3> QED BY <3>1, <1>4
    <2>5. CASE ReadTask(d)
      <3> DEFINE call == [deletion[d] EXCEPT !.at = "count"]
      <3>1. deletion[d] \in DeleteCalls
        BY <2>5 DEF ReadTask, Deleting, TypeOK
      <3>2. call.at # "write" /\ UNCHANGED subs
        BY <2>5, <3>1 DEF ReadTask, DeleteCalls
      <3>3. EndDelete(d) \/ deletion' = [deletion EXCEPT ![d] = call]
        BY <2>5 DEF ReadTask
      <3> HIDE DEF call
      <3> QED BY <2>1, <3>2, <3>3, <1>3, <1>4
    <2>6. CASE CountTaskSubmissions(d)
      <3> DEFINE found == \E i \in 1..Len(subs) : subs[i].to = deletion[d].task
                 call  == [deletion[d] EXCEPT !.at = "write", !.seen = Len(subs), !.soft = found]
      <3>1. deletion[d] \in DeleteCalls
        BY <2>6 DEF CountTaskSubmissions, Deleting, TypeOK
      <3>2. call.seen = Len(subs) /\ call.soft = found /\ call.task = deletion[d].task
        BY <3>1 DEF DeleteCalls
      <3>3. UNCHANGED subs /\ deletion' = [deletion EXCEPT ![d] = call]
        BY <2>6 DEF CountTaskSubmissions
      <3> HIDE DEF call
      <3>4. call.seen <= Len(subs)
        BY <1>1, <3>2
      <3>5. ~call.soft => \A i \in 1..call.seen : subs[i].to # call.task
        BY <3>2
      <3> QED BY <3>3, <3>4, <3>5, <1>4
    <2> QED BY <1>7, <2>2, <2>3, <2>4, <2>5, <2>6 DEF DeleteStep
  <1>8. ASSUME NEW x, RemoveRow(x)
        PROVE  LateInv'
    BY <1>8, <1>6 DEF RemoveRow
  <1>9. ASSUME UNCHANGED <<subs, deletion>>
        PROVE  LateInv'
    BY <1>9, <1>3
  <1>10. ASSUME NEW ls, NEW n, SetLimit(ls, n)
         PROVE  LateInv'
    BY <1>10, <1>9 DEF SetLimit
  <1>11. ASSUME UNCHANGED vars PROVE LateInv'
    BY <1>11, <1>9 DEF vars
  <1> QED BY <1>5, <1>7, <1>8, <1>10, <1>11 DEF Next

\* A hard delete clears submissions to the task only if they came after its count.
THEOREM DeletionsTakeLateSubmissions == Spec => LateSubmissionsOnly
  <1>1. Init => LimitInv /\ LateInv
    BY LimitInit DEF Init, LateInv, Deleting
  <1>2. LimitInv /\ LateInv /\ [Next]_vars => LimitInv' /\ LateInv'
    BY LimitStep, LateStep DEF LimitInv
  <1>3. LimitInv /\ LateInv => TakesLateOnly
    <2> SUFFICES ASSUME LimitInv, LateInv, NEW d \in Deleters, HardDelete(d),
                        NEW i \in 1..Len(subs), subs[i].to = deletion[d].task
                 PROVE  i > deletion[d].seen
      BY DEF TakesLateOnly
    <2>1. Deleting(d, "write") /\ ~deletion[d].soft
      BY DEF HardDelete
    <2>2. deletion[d].seen \in Nat /\ Len(subs) \in Nat
      BY <2>1, LenProperties DEF Deleting, LimitInv, TypeOK, DeleteCalls
    <2>3. i \notin 1..deletion[d].seen
      BY <2>1 DEF LateInv
    <2> QED BY <2>2, <2>3
  <1> QED BY <1>1, <1>2, <1>3, PTL DEF Spec, LateSubmissionsOnly

\* Cascades and SetNull leave no reference to a row that is gone.
LEMMA RefsStep ==
  ASSUME TypeOK, TypeOK', RefsExist, [Next]_vars
  PROVE  RefsExist'
  <1>1. subs \in Seq(Submission) /\ Len(subs) \in Nat
    BY LenProperties DEF TypeOK
  <1>2. ASSUME UNCHANGED <<rows, subs>>, \A t \in Tasks : task[t] # "gone" => task'[t] # "gone"
        PROVE  RefsExist'
    BY <1>2, RowsAssumption DEF RefsExist, Present
  <1>3. ASSUME NEW x, Drop(x), \A t \in Tasks \ {x} : task'[t] = task[t]
        PROVE  RefsExist'
    <2>1. /\ Len(subs') = Len(subs)
          /\ \A i \in 1..Len(subs) : subs'[i].to \in {subs[i].to, None}
      BY <1>3, DropTyped
    <2>2. \A i \in 1..Len(subs) : subs[i].to \in Cascade(x) => subs'[i].to = None
      <3>1. \A i \in 1..Len(subs) : subs[i] \in Submission
        BY <1>1, ElementOfSeq
      <3> QED BY <1>3, <3>1 DEF Drop, Submission
    <2>3. x \in Cascade(x) /\ rows' = rows \ Cascade(x)
      BY <1>3 DEF Cascade, Drop
    <2>4. \A y : Present(y) /\ y \notin Cascade(x) => Present(y)'
      BY <1>3, <2>3 DEF Present
    <2>5. \A y : y # None => \A i \in 1..Len(subs') : subs'[i].to = y => Present(y)'
      BY <2>1, <2>2, <2>4 DEF RefsExist
    <2>6. \A e \in Entries \cap rows' : LinkOf[e] \in rows' /\ ListOf[e] \in rows'
      <3> SUFFICES ASSUME NEW e \in Entries \cap rows'
                   PROVE  LinkOf[e] \in rows' /\ ListOf[e] \in rows'
        OBVIOUS
      <3>1. /\ e \in rows /\ e \notin Cascade(x)
            /\ LinkOf[e] \in rows \cap Links /\ ListOf[e] \in rows \cap Lists
        BY <2>3, RowsAssumption DEF RefsExist
      <3>2. LinkOf[e] \notin Cascade(x) /\ ListOf[e] \notin Cascade(x)
        BY <3>1, DisjointAssumption DEF Cascade
      <3> QED BY <2>3, <3>1, <3>2
    <2>7. \A l \in Links \cap rows' : task'[TaskOf[l]] # "gone"
      <3> SUFFICES ASSUME NEW l \in Links \cap rows'
                   PROVE  task'[TaskOf[l]] # "gone"
        OBVIOUS
      <3>1. l \in rows /\ l \notin Cascade(x) /\ TaskOf[l] \in Tasks
        BY <2>3, RowsAssumption
      <3>2. TaskOf[l] # x
        BY <3>1 DEF Cascade
      <3> QED BY <1>3, <3>1, <3>2 DEF RefsExist
    <2> QED BY <2>5, <2>6, <2>7 DEF RefsExist
  <1>4. ASSUME NEW k \in Slots, SubmitStep(k)
        PROVE  RefsExist'
    <2>1. CASE Insert(k) /\ subs' # subs
      <3>1. submit[k] \in SubmitCalls
        BY <2>1 DEF Insert, Submitting, TypeOK
      <3>2. [student |-> submit[k].student, to |-> submit[k].to] \in Submission
        BY <3>1 DEF SubmitCalls, Submission
      <3>3. /\ Present(submit[k].to) /\ UNCHANGED <<task, rows>>
            /\ subs' = Append(subs, [student |-> submit[k].student, to |-> submit[k].to])
        BY <2>1 DEF Insert
      <3>4. /\ Len(subs') = Len(subs) + 1
            /\ \A i \in 1..Len(subs) : subs'[i] = subs[i]
            /\ subs'[Len(subs) + 1].to = submit[k].to
        BY <1>1, <3>2, <3>3, AppendProperties
      <3>5. \A i \in 1..Len(subs') : subs'[i].to # None => Present(subs'[i].to)
        BY <1>1, <3>3, <3>4 DEF RefsExist
      <3>6. \A y : Present(y) => Present(y)'
        BY <3>3 DEF Present
      <3> QED BY <3>3, <3>5, <3>6 DEF RefsExist
    <2>2. CASE ~(Insert(k) /\ subs' # subs)
      <3>1. UNCHANGED <<task, rows, subs>>
        BY <1>4, <2>2 DEF SubmitStep, BeginSubmit, ReadEntry, CountSubmissions, Insert, FailSubmit
      <3> QED BY <3>1, <1>2
    <2> QED BY <2>1, <2>2
  <1>5. ASSUME NEW d \in Deleters, DeleteStep(d)
        PROVE  RefsExist'
    <2>1. CASE HardDelete(d)
      <3>1. \A t \in Tasks \ {deletion[d].task} : task'[t] = task[t]
        BY <2>1 DEF HardDelete, TypeOK
      <3> QED BY <2>1, <3>1, <1>3 DEF HardDelete
    <2>2. CASE SoftDelete(d)
      <3>1. UNCHANGED <<rows, subs>>
        BY <2>2 DEF SoftDelete
      <3>2. \A t \in Tasks : task[t] # "gone" => task'[t] # "gone"
        BY <2>2 DEF SoftDelete, TypeOK
      <3> QED BY <3>1, <3>2, <1>2
    <2>3. CASE ~HardDelete(d) /\ ~SoftDelete(d)
      <3>1. UNCHANGED <<task, rows, subs>>
        BY <1>5, <2>3 DEF DeleteStep, BeginDelete, ReadTask, CountTaskSubmissions, FailDelete
      <3> QED BY <3>1, <1>2
    <2> QED BY <2>1, <2>2, <2>3
  <1>6. ASSUME NEW x, RemoveRow(x)
        PROVE  RefsExist'
    <2>1. Drop(x) /\ \A t \in Tasks \ {x} : task'[t] = task[t]
      BY <1>6 DEF RemoveRow
    <2> QED BY <2>1, <1>3
  <1>7. ASSUME NEW ls, NEW n, SetLimit(ls, n)
        PROVE  RefsExist'
    BY <1>7, <1>2 DEF SetLimit
  <1>8. ASSUME UNCHANGED vars PROVE RefsExist'
    BY <1>8, <1>2 DEF vars
  <1> QED BY <1>4, <1>5, <1>6, <1>7, <1>8 DEF Next

\* No submission, entry or link refers to a row that is gone, whatever was being
\* inserted while it was deleted.
THEOREM ReferencesExist == Spec => []RefsExist
  <1>1. Init => LimitInv /\ RefsExist
    BY LimitInit, RowsAssumption DEF Init, RefsExist
  <1>2. LimitInv /\ RefsExist /\ [Next]_vars => LimitInv' /\ RefsExist'
    BY LimitStep, RefsStep DEF LimitInv
  <1> QED BY <1>1, <1>2, PTL DEF Spec

-------------------------------------------------------------------------------
(* The trail of a task *)

LEMMA TrailStep ==
  ASSUME TypeOK, DeletionTrail, [Next]_vars
  PROVE  DeletionTrail'
  <1>1. ASSUME UNCHANGED <<task, trail>>
        PROVE  DeletionTrail'
    BY <1>1 DEF DeletionTrail
  <1>2. ASSUME NEW t \in Tasks, task[t] # "gone", NEW event \in {"soft", "removed"}, Record(t, event),
               task' = [task EXCEPT ![t] = IF event = "soft" THEN "soft" ELSE "gone"]
        PROVE  DeletionTrail'
    <2> SUFFICES ASSUME NEW u \in Tasks, NEW n, n = Len(trail'[u])
                 PROVE  /\ task'[u] = "live" <=> n = 0
                        /\ task'[u] = "gone" <=> n > 0 /\ trail'[u][n] = "removed"
                        /\ \A i \in 1..n : trail'[u][i] = "removed" => i = n
      BY DEF DeletionTrail
    <2>1. CASE u # t
      <3>1. task'[u] = task[u] /\ trail'[u] = trail[u]
        BY <1>2, <2>1 DEF Record, TypeOK
      <3> QED BY <3>1 DEF DeletionTrail
    <2>2. CASE u = t
      <3>1. trail[t] \in Seq({"soft", "removed"})
        BY DEF TypeOK
      <3>2. PICK m : m = Len(trail[t])
        OBVIOUS
      <3>3. /\ trail'[t] = Append(trail[t], event)
            /\ task'[t] = IF event = "soft" THEN "soft" ELSE "gone"
        BY <1>2 DEF Record, TypeOK
      <3>4. /\ m \in Nat /\ n = m + 1 /\ trail'[t][n] = event
            /\ \A i \in 1..m : trail'[t][i] = trail[t][i]
        BY <2>2, <3>1, <3>2, <3>3, AppendProperties, LenProperties
      <3>5. \A i \in 1..m : trail[t][i] # "removed"
        BY <1>2, <3>2, <3>4 DEF DeletionTrail
      <3> QED BY <2>2, <3>3, <3>4, <3>5
    <2> QED BY <2>1, <2>2
  <1>3. ASSUME NEW d \in Deleters, DeleteStep(d)
        PROVE  DeletionTrail'
    <2>1. CASE SoftDelete(d)
      <3>1. deletion[d].task \in Tasks
        BY <2>1 DEF SoftDelete, Deleting, TypeOK, DeleteCalls
      <3> QED BY <2>1, <3>1, <1>2 DEF SoftDelete
    <2>2. CASE HardDelete(d)
      <3>1. deletion[d].task \in Tasks
        BY <2>2 DEF HardDelete, Deleting, TypeOK, DeleteCalls
      <3> QED BY <2>2, <3>1, <1>2 DEF HardDelete
    <2>3. CASE ~SoftDelete(d) /\ ~HardDelete(d)
      <3>1. UNCHANGED <<task, trail>>
        BY <1>3, <2>3 DEF DeleteStep, BeginDelete, ReadTask, CountTaskSubmissions, FailDelete
      <3> QED BY <3>1, <1>1
    <2> QED BY <2>1, <2>2, <2>3
  <1>4. ASSUME NEW k \in Slots, SubmitStep(k)
        PROVE  UNCHANGED <<task, trail>>
    BY <1>4 DEF SubmitStep, BeginSubmit, ReadEntry, CountSubmissions, Insert, FailSubmit
  <1>5. ASSUME NEW x, RemoveRow(x)
        PROVE  UNCHANGED <<task, trail>>
    BY <1>5 DEF RemoveRow
  <1>6. ASSUME NEW ls, NEW n, SetLimit(ls, n)
        PROVE  UNCHANGED <<task, trail>>
    BY <1>6 DEF SetLimit
  <1>7. ASSUME UNCHANGED vars
        PROVE  UNCHANGED <<task, trail>>
    BY <1>7 DEF vars
  <1> QED BY <1>1, <1>3, <1>4, <1>5, <1>6, <1>7 DEF Next

\* However many deletions of a task race, and however they end, the trail tells
\* what became of it and closes with one "removed".
THEOREM DeletionsAreRecorded == Spec => []DeletionTrail
  <1>1. Init => LimitInv /\ DeletionTrail
    BY LimitInit, EmptySeq DEF Init, DeletionTrail
  <1>2. LimitInv /\ DeletionTrail /\ [Next]_vars => LimitInv' /\ DeletionTrail'
    BY LimitStep, TrailStep DEF LimitInv
  <1> QED BY <1>1, <1>2, PTL DEF Spec
===============================================================================
