-------------------------- MODULE MCSftpTransfers --------------------------
(***************************************************************************)
(* Two transfers of two items and two directories.                         *)
(***************************************************************************)
EXTENDS SftpTransfers, TLC

Interchangeable == Permutations(Runs) \cup Permutations(Dirs)
=============================================================================
