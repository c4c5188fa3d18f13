----------------------------- MODULE MCCatalog ------------------------------
(***************************************************************************)
(* An instance of Catalog for TLC.                                         *)
(***************************************************************************)
EXTENDS Catalog, TLC

Symmetry == Permutations(Tests) \cup Permutations(Agents)
=============================================================================
