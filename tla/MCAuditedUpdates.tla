-------------------------- MODULE MCAuditedUpdates --------------------------
(* Two users with an account, one without, a request for an address each    *)
(* may come to have, a submission and a task of the first.                  *)
EXTENDS AuditedUpdates, TLC

CONSTANTS adm, usr, new, x, y, z, r1

MCRole0  == [u \in Users |-> IF u = adm THEN "ADMIN" ELSE "STUDENT"]
MCEmail0 == [u \in Users |-> IF u = adm THEN x ELSE IF u = usr THEN y ELSE None]
MCTeacher == [s \in Subs |-> usr]
MCCreator == [t \in Tasks |-> usr]
MCPersonalEmail == [r \in Requests |-> IF r = r1 THEN y ELSE z]

SlotSymmetry == Permutations(Slots)
===============================================================================
