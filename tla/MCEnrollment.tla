----------------------------- MODULE MCEnrollment -----------------------------
(***************************************************************************)
(* Enrollment for TLC: one class, its professor, another professor, an     *)
(* administrator and one student, with two calls in flight.                *)
(***************************************************************************)
EXTENDS Enrollment, TLC

CONSTANTS Prof, OtherProf, Admin, Student

MCUsers == {Prof, OtherProf, Admin, Student}
MCRole  == (Prof :> "PROFESSOR" @@ OtherProf :> "PROFESSOR" @@
            Admin :> "ADMIN" @@ Student :> "STUDENT")
MCOwner == [c \in Classes |-> Prof]

SlotSymmetry == Permutations(Slots)
===============================================================================
