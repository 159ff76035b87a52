------------------------- MODULE MCKnowledgePublish -------------------------
(***************************************************************************)
(* Small instances of KnowledgePublish.  Both proposals compete for one    *)
(* knowledge key and have one author.                                      *)
(***************************************************************************)
EXTENDS KnowledgePublish, TLC

CONSTANTS q1, q2, k1, a1, h1, h2, p1, p2

MCProposals == {q1, q2}
MCKeys == {k1}
MCAgents == {a1}
MCKeyOf == q1 :> k1 @@ q2 :> k1
MCAuthorOf == q1 :> a1 @@ q2 :> a1

(* One proposal, for the runs with unserialised processes *)
MCOneProposals == {q1}
MCOneKeyOf == q1 :> k1
MCOneAuthorOf == q1 :> a1

(* Humans and processes are interchangeable; proposals are not. *)
HumanProcSymmetry == Permutations({h1, h2}) \cup Permutations({p1, p2})
=============================================================================
