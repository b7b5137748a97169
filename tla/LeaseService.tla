---------------------------- MODULE LeaseService ----------------------------
(***************************************************************************)
(* What a lease service promises its clients, with no database, no clock   *)
(* and no messages: holders[r] is the set of owners that were told they    *)
(* hold resource r and whose lease has not run out.  The global lock table *)
(* of flowctl/locks.py and the spec registry of gateway/app/store.py are   *)
(* both shown to implement it.                                             *)
(***************************************************************************)
CONSTANTS Owner, Resource

VARIABLE holders

Init == holders = [r \in Resource |-> {}]

\* A lease is granted, or renewed, only when nobody else holds the resource.
Grant(o, r) ==
    /\ holders[r] \subseteq {o}
    /\ holders' = [holders EXCEPT ![r] = {o}]

\* Leases end: released, handed on, expired or lost with their holder, several at a time.
Lapse ==
    /\ holders' \in [Resource -> SUBSET Owner]
    /\ \A r \in Resource : holders'[r] \subseteq holders[r]

Next ==
    \/ \E o \in Owner, r \in Resource : Grant(o, r)
    \/ Lapse

Spec == Init /\ [][Next]_holders

(***************************************************************************)
(* At any time at most one owner holds a given resource.                   *)
(***************************************************************************)
MutualExclusion ==
    \A r \in Resource : \A o, p \in holders[r] : o = p
=============================================================================
