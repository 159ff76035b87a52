---------------------------- MODULE MCGovernance ----------------------------
(* A small server: an ordinary proposal and one of elevated risk.          *)
EXTENDS Governance, TLC

CONSTANTS q1, q2, c1, c2, s1, s2

MCProposals == {q1, q2}
MCElevated == {q2}
MCCallsAlike == Permutations({c1, c2})
=============================================================================
