------------------------ MODULE MCSemanticProjection ------------------------
(* Two processes reindex a lane of up to two documents, with two endpoints. *)
EXTENDS SemanticProjection, TLC

CONSTANTS d1, d2, e1, e2, b1, b2

MCAlike == Permutations({d1, d2}) \cup Permutations({b1, b2})
=============================================================================
