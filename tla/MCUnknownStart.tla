---------------------------- MODULE MCUnknownStart ----------------------------
(* A small instance of UnknownStart: every kind of recording and every          *)
(* unknown-start operation, in any order the interlock admits.                  *)
EXTENDS UnknownStart, TLC
Symmetry == Permutations(Recordings) \cup Permutations(Sessions)
=============================================================================
