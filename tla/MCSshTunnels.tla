---------------------------- MODULE MCSshTunnels ----------------------------
(***************************************************************************)
(* SshTunnels on small instances.  In the first one user starts two        *)
(* tunnels; in the second another member of the workspace starts a third.  *)
(* Requests of a kind and user are interchangeable.                        *)
(***************************************************************************)
EXTENDS SshTunnels, TLC

CONSTANTS s1, s2, s3, u1, u2

Alone       == {s1, s2}
AloneOwner  == [s \in Alone |-> u1]
Shared      == {s1, s2, s3}
SharedOwner == [s \in Shared |-> IF s = s3 THEN u2 ELSE u1]
Members     == {u1, u2}

Interchangeable == Permutations({s1, s2}) \cup Permutations(Proxies)
=============================================================================
