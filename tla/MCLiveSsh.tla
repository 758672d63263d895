----------------------------- MODULE MCLiveSsh -----------------------------
(***************************************************************************)
(* LiveSsh on small instances.  Websockets and tickets are interchangeable *)
(* model values, so safety runs may use the symmetry below.                *)
(***************************************************************************)
EXTENDS LiveSsh, TLC

Interchangeable == Permutations(Conns) \cup Permutations(Tickets)
=============================================================================
