--------------------------- MODULE MCDmarcReport ---------------------------
(***************************************************************************)
(* An instance of DmarcReport for TLC: a domain with two report addresses, *)
(* one that asks for no reports and one whose record is malformed.         *)
(***************************************************************************)
EXTENDS DmarcReport, TLC

CONSTANTS r1, r2, r3, r4, d1, d2, d3, u1, u2

Owner     == r1 :> d1 @@ r2 :> d1 @@ r3 :> d2 @@ r4 :> d3
Published == d1 :> {u1, u2} @@ d2 :> {} @@ d3 :> {}
=============================================================================
