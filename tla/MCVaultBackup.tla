---------------------------- MODULE MCVaultBackup ----------------------------
(***************************************************************************)
(* Two creates of one backup and two restores of it.  One edition is there *)
(* at the start; another is published meanwhile, with an opener and        *)
(* rebuilds in its way, and both may be revoked.                           *)
(***************************************************************************)
EXTENDS VaultBackup, TLC

CONSTANTS o1, c1, c2, r1, r2

(* A restore and the vault read and write nothing in common.  What is      *)
(* promised of a restore is of a reported backup, after which nobody reads *)
(* the vault: its steps come first, and states that differ in it alone     *)
(* from then on are one.                                                   *)
MCVaultFirst ==
    vaultVars' # vaultVars => ~reported /\ \A r \in Restorers : restorer[r] = Idle

MCView == <<IF reported THEN <<>> ELSE vaultVars, createVars, restoreVars, losses>>

MCAlike == Permutations({c1, c2}) \cup Permutations({r1, r2})
=============================================================================
