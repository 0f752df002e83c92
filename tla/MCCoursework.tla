----------------------------- MODULE MCCoursework -----------------------------
(* Two classes of two professors, an administrator, and tasks of the first. *)
EXTENDS Coursework, TLC

CONSTANTS p1, p2, adm, c1, c2, t1, t2

MCOwner   == [c \in Classes |-> IF c = c1 THEN p1 ELSE p2]
MCCreator == [t \in Tasks |-> p1]

All     == {"isVisible", "isPublic"}
Private == [given |-> All, on |-> {"isVisible"}]
Public  == [given |-> All, on |-> All]
Hide    == [given |-> {"isVisible"}, on |-> {}]
Keep    == [given |-> {}, on |-> {}]

SlotSymmetry == Permutations(Slots)

AnyPatch   == {Private, Public, Hide, Keep}
PrivatePublic == {Private, Public}
PublicOnly    == {Public}
===============================================================================
