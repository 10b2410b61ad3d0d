----------------------------- MODULE MCBackups -----------------------------
(***************************************************************************)
(* Small instances of Backups for TLC.                                     *)
(***************************************************************************)
EXTENDS Backups

CONSTANTS u1, s1, s2, a1
=============================================================================
