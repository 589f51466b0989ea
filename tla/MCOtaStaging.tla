---------------------------- MODULE MCOtaStaging ----------------------------
(***************************************************************************)
(* Three files: two applications of one and two sectors' length, so that a  *)
(* short upload over a long one leaves the other's tail, and a UF2 file.    *)
(***************************************************************************)
EXTENDS OtaStaging

MCSize == [i \in Images |-> IF i = "long" THEN 3 ELSE 2]

=============================================================================
