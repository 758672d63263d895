------------------------ MODULE MCWorkspaceSessions ------------------------
(***************************************************************************)
(* Two panes of one host, two sessions and two requests of launch panes.   *)
(***************************************************************************)
EXTENDS WorkspaceSessions, TLC

Interchangeable == Permutations(Sessions)
=============================================================================
