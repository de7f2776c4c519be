------------------------- MODULE MCRuntimeHandoff -------------------------
(* The sessions are interchangeable, apart from the one a handoff names.  *)
EXTENDS RuntimeHandoff, TLC

Symmetry == Permutations(Sessions \ RuntimeOwners) \cup Permutations(Poses)
=============================================================================
