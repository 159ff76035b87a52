------------------------- MODULE MCEditionLifecycle -------------------------
(***************************************************************************)
(* Small instances of EditionLifecycle.                                    *)
(***************************************************************************)
EXTENDS EditionLifecycle

CONSTANTS p1, p2
=============================================================================
