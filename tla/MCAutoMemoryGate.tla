-------------------------- MODULE MCAutoMemoryGate --------------------------
(* Two processes of one Agent; either a crash or the loss of the switch's file. *)
EXTENDS AutoMemoryGate, TLC

CONSTANTS p1, p2, v1

MCVaultOf == p1 :> v1 @@ p2 :> v1
OneMishap == crashes' + losses' <= 1
=============================================================================
