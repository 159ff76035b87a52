------------------------------ MODULE MCRecall ------------------------------
(***************************************************************************)
(* A small instance of Recall: an active memory and a candidate, and two   *)
(* editions of one key, of which the first is published at the start.      *)
(***************************************************************************)
EXTENDS Recall, TLC

CONSTANTS m1, m2, e1, e2, k1, c1, c2

MCKeyOf == e1 :> k1 @@ e2 :> k1
MCNumberOf == e1 :> 1 @@ e2 :> 2
MCFirstRows == m1 :> Row("active", 1, 0) @@ m2 :> Row("candidate", 1, 0)
                   @@ e1 :> Row("active", 1, 0) @@ e2 :> Row("none", 0, 0)
MCMaxChanges == [f \in Focuses |-> IF f = "recall" THEN 3 ELSE 2]
=============================================================================
