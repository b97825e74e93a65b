-------------------------- MODULE MCStreamAccess --------------------------
(***************************************************************************)
(* StreamAccess for TLC: every choice of the constants is in the .cfg.     *)
(* Secrets are interchangeable.                                            *)
(***************************************************************************)
EXTENDS StreamAccess, TLC

Interchangeable == Permutations(Secret)
=============================================================================
