------------------------- MODULE MCFeatureLifecycle -------------------------
(***************************************************************************)
(* FeatureLifecycle with a first draft that is not ready and two bodies    *)
(* that are.                                                               *)
(***************************************************************************)
EXTENDS FeatureLifecycle, TLC

MCSymmetry == Permutations(Operator) \cup Permutations(Slice) \cup Permutations(Ready)
=============================================================================
