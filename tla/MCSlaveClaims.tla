---------------------------- MODULE MCSlaveClaims -----------------------------
\* Two workspaces; in the first one two commands may run at a time.  One of them
\* and the one of the second workspace run under the same user name.
EXTENDS SlaveClaims, TLC

CONSTANTS w1, w2, p1, p2, p3, ana, leo, s1, s2

MCHome == p1 :> w1 @@ p2 :> w1 @@ p3 :> w2
MCName == p1 :> ana @@ p2 :> leo @@ p3 :> ana
SpecsAlike == Permutations({s1, s2})
=============================================================================
