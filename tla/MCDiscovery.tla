---------------------------- MODULE MCDiscovery ----------------------------
(***************************************************************************)
(* A small instance of Discovery: two servers, two getters.                *)
(***************************************************************************)
EXTENDS Discovery, TLC

CONSTANTS g1, g2   \* model values

MCGetters == {g1, g2}
MCCrashing == {1}
MCHandLists == {<<2, 1>>}
MCSymmetry == Permutations(MCGetters)
=============================================================================
