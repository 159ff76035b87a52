-------------------------- MODULE MCMemoryLifecycle --------------------------
(***************************************************************************)
(* Small instances of MemoryLifecycle.                                     *)
(***************************************************************************)
EXTENDS MemoryLifecycle, TLC

CONSTANTS m1, m2, a1, a2, a3, p1, v1

(* One memory has a history of three revisions, the other only one.       *)
MCLastRevision == m1 :> 3 @@ m2 :> 1

(* The proposal is to revise the first one.                                *)
MCTargetOf == p1 :> m1

(* Anchors are interchangeable.                                           *)
LikeSymmetry == Permutations({a1, a2, a3})
=============================================================================
