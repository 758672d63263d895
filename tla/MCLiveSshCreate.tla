-------------------------- MODULE MCLiveSshCreate --------------------------
(***************************************************************************)
(* LiveSshCreate for four requests about two hosts; two of them would      *)
(* rather reuse a session than create one.                                 *)
(***************************************************************************)
EXTENDS LiveSshCreate, TLC

CONSTANTS r1, r2, r3, r4

FourReqs   == {r1, r2, r3, r4}
TwoHosts   == (r1 :> "a") @@ (r2 :> "a") @@ (r3 :> "b") @@ (r4 :> "b")
Thrifty  == {r2, r4}
=============================================================================
