----------------------------- MODULE MCPortSpace -----------------------------
(* Finite instances of PortSpace for TLC.                                  *)
EXTENDS PortSpaceRefinement

\* Steps that drop the last reference, overflow, and change nothing.
SmallDeltas == {-1, 0, 2}
=============================================================================
