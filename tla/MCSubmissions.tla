---------------------------- MODULE MCSubmissions ----------------------------
(***************************************************************************)
(* Submissions for TLC: one task, linked to a class whose two lists have   *)
(* it; of the two lists one has a limit, the other is from before limits.  *)
(***************************************************************************)
EXTENDS Submissions, TLC

CONSTANTS t1, ct1, limited, legacy, e1, e2

MCTaskOf == (ct1 :> t1)
MCLinkOf == (e1 :> ct1 @@ e2 :> ct1)
MCListOf == (e1 :> limited @@ e2 :> legacy)

SlotSymmetry == Permutations(Slots) \cup Permutations(Deleters)
===============================================================================
