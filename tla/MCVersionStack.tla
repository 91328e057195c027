---------------------------- MODULE MCVersionStack ----------------------------
(***************************************************************************)
(* The versions of a project under overlapping requests that may crash,    *)
(* and under one request after the other.                                  *)
(***************************************************************************)
EXTENDS VersionStackRefinement

StackSymmetry ==
    Permutations(Videos) \cup Permutations(Versions) \cup Permutations(Requests)
===============================================================================
