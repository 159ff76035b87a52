---------------------------- MODULE MCMemoryIntake ----------------------------
(***************************************************************************)
(* Small instances of MemoryIntake.                                        *)
(***************************************************************************)
EXTENDS MemoryIntake, TLC

CONSTANTS s1, d1, d2, t1, h1, h2, k1, k2, k3

(* Two events: the host knows the turn of the first, and not even the      *)
(* session of the second                                                   *)
MCOrigin == h1 :> [bucket |-> s1, turn |-> t1] @@ h2 :> [bucket |-> d1, turn |-> NoTurn]

KeySymmetry == Permutations({k1, k2, k3})
=============================================================================
