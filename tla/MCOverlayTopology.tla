-------------------------- MODULE MCOverlayTopology --------------------------
(* The overlay of a few interchangeable nodes.                             *)
EXTENDS OverlayTopology, TLC

Symmetry == Permutations(Node)
=============================================================================
