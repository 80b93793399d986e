---------------------------- MODULE MCLensClient ----------------------------
(***************************************************************************)
(* LensClient for TLC: token lifetimes on both sides of the margin.        *)
(***************************************************************************)
EXTENDS LensClient

CONSTANTS c1, c2
=============================================================================
