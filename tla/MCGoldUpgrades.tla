---------------------------- MODULE MCGoldUpgrades ----------------------------
(***************************************************************************)
(* Values for the runs of GoldUpgrades.                                    *)
(***************************************************************************)
EXTENDS GoldUpgrades, TLC

CONSTANTS u1, u2, o1, o2, w1, w2, none

Symmetric == Permutations(Orders) \cup Permutations(Workers)
=============================================================================
