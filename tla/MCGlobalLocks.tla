--------------------------- MODULE MCGlobalLocks ---------------------------
(***************************************************************************)
(* A small instance of GlobalLocks for TLC.                                *)
(***************************************************************************)
EXTENDS GlobalLocks, TLC

\* A ttl of zero (one second) and one of two seconds.
MCTTL == {0, 2}

Symmetry == Permutations(Owner) \cup Permutations(Lock)
=============================================================================
