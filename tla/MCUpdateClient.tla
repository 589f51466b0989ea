---------------------------- MODULE MCUpdateClient ----------------------------
(***************************************************************************)
(* Two images that end within a chunk and within a page, and one, a UF2     *)
(* file, that ends with a chunk.  The two are alike but for their names.    *)
(***************************************************************************)
EXTENDS UpdateClient, TLC

MCUnits == [i \in Images |-> IF i \in Containers THEN 4 ELSE 7]
MCSize == [i \in Images |-> IF i \in Containers THEN 1 ELSE 2]
MCSymmetry == Permutations(Images \ Containers)

=============================================================================
