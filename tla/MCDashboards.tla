----------------------------- MODULE MCDashboards -----------------------------
(* Two links of one task and an entry on each, of one batch, whose weights     *)
(* differ.                                                                     *)
EXTENDS Dashboards, TLC

CONSTANTS l1, l2, e1, e2

MCLinkOf == [e \in Entries |-> IF e = e2 THEN l2 ELSE l1]
MCWeight == [e \in Entries |-> IF e = e1 THEN 10 ELSE 5]
MCBatch  == [e \in Entries |-> 1]

StudentSymmetry == Permutations(Students)
===============================================================================
