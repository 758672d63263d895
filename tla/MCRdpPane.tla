----------------------------- MODULE MCRdpPane -----------------------------
(***************************************************************************)
(* Two launches over two live RDP sessions when one may be open; one of    *)
(* them has a pane, which tries to connect twice.                          *)
(***************************************************************************)
EXTENDS RdpPane, TLC

Interchangeable == Permutations(Sessions)
=============================================================================
