--------------------------- MODULE MCSessionCache ---------------------------
(***************************************************************************)
(* Instances of SessionCache for TLC.                                      *)
(***************************************************************************)
EXTENDS SessionCache, TLC
=============================================================================
