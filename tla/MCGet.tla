------------------------------- MODULE MCGet --------------------------------
(***************************************************************************)
(* Reads for TLC, with a u64 that ends at 3: every range, every object of  *)
(* up to two bytes, and heads that state numbers on both sides of the    *)
(* end of u64.                                                             *)
(***************************************************************************)
EXTENDS Get

MCStated == 0..4
MCSizes == 0..2
=============================================================================
