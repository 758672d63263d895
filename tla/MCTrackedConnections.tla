------------------------ MODULE MCTrackedConnections ------------------------
(***************************************************************************)
(* Session tickets and tracked connections on a small instance: a host     *)
(* that is an SSH host with a credential, or a Telnet host without, and a  *)
(* ticket that two upgrades present.                                       *)
(***************************************************************************)
EXTENDS TrackedConnections, TLC

Interchangeable == Permutations(Opens)
=============================================================================
