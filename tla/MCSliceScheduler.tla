-------------------------- MODULE MCSliceScheduler --------------------------
(***************************************************************************)
(* Two runs, a and b, and seven slices, in three launches.                 *)
(*                                                                         *)
(*   graph     a alone with slices 1 to 5: 2 depends on 1, 4 on 2 and 3;   *)
(*             1 and 3 share an owned target, 2 and 3 a hot area, 1 and 5  *)
(*             a repo; 4 has no hot area and locks its whole repo.         *)
(*   rivals    a with slice 6 and b with slice 7, which want the same two  *)
(*             hot areas and declare them in opposite orders; b may be     *)
(*             killed at any instant.                                      *)
(*   stalls    the same slices; a loop may stall past the ttl, and the     *)
(*             workers and the lock backend may raise.                     *)
(***************************************************************************)
EXTENDS SliceScheduler

CONSTANTS a, b, p, q, r

MCRunId == [x \in Run |-> IF x = a THEN "ra" ELSE "rb"]
MCDependsOn == [s \in Slice |-> CASE s = 2 -> {1} [] s = 4 -> {2, 3} [] OTHER -> {}]
MCRepoOf == [s \in Slice |-> CASE s \in {1, 5, 6, 7} -> p [] s = 2 -> q [] OTHER -> r]
MCSemanticOf == [s \in Slice |-> IF s = 2 THEN <<1>> ELSE <<>>]
MCAreasOf == << <<1>>, <<2>>, <<2>>, <<>>, <<3>>, <<2, 1>>, <<1, 2>> >>
MCTargetsOf == [s \in Slice |-> IF s \in {1, 3} THEN {0} ELSE {s}]

Graph == [plan |-> [x \in Run |-> IF x = a THEN 1..5 ELSE {}], ttl |-> 3, maxLag |-> 1,
          maxRetries |-> 1, canRaise |-> FALSE, killable |-> {}]
Rivals == [plan |-> [x \in Run |-> IF x = a THEN {6} ELSE {7}], ttl |-> 3, maxLag |-> 1,
           maxRetries |-> 1, canRaise |-> FALSE, killable |-> {b}]
Stalls == [Rivals EXCEPT !.ttl = 1, !.maxLag = 1, !.maxRetries = 0, !.canRaise = TRUE,
                         !.killable = {}]
MCLaunches == {Graph, Rivals, Stalls}
=============================================================================
