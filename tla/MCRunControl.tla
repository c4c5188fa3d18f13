---------------------------- MODULE MCRunControl ----------------------------
(***************************************************************************)
(* Instances of RunControl for TLC.                                        *)
(***************************************************************************)
EXTENDS RunControl, TLC

Symmetry == Permutations(Agents) \cup Permutations(Handlers)
=============================================================================
