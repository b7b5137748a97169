---------------------------- MODULE SpecRegistry ----------------------------
(***************************************************************************)
(* The central registry of specs (TaskStore in gateway/app/store.py): who  *)
(* holds the lock of a spec, until when, and how far the spec has come.    *)
(*                                                                         *)
(* A call is one transaction under the store's mutex.  Its reply is        *)
(* another read, made after the commit, which may come late or not at all: *)
(* Read stands for it, and for GET.  A call that is refused raises; the    *)
(* rollback undoes the expiry and the auto-created record it began with,   *)
(* so it changes nothing and is a stutter here.                            *)
(***************************************************************************)
EXTENDS Naturals

CONSTANTS
    Actor,
    SpecId,
    TTL,        \* the ttl_seconds callers ask for
    MaxClock,   \* bounds for model checking
    MaxToken,
    NoActor     \* NULL in the column assignee

ASSUME ActorAssumption == NoActor \notin Actor
ASSUME TTLAssumption == TTL \subseteq Nat \ {0}
ASSUME BoundAssumption == MaxClock \in Nat /\ MaxToken \in Nat

VARIABLES
    clock,      \* the UTC time, in whole seconds
    record,     \* the table spec_registry
    trail,      \* per spec, what replaying its rows in spec_registry_audit gives
    issued,     \* lock tokens drawn so far; they are 1..issued
    known       \* per actor and spec, the claim it was last told it has

vars == <<clock, record, trail, issued, known>>

\* REGISTRY_STATES by their position; zero stands for no record.
State == 1..9
Absent == 0
New == 1
OwnerOnly == {3, 6}     \* in_edit, in_execution
Unclaimed == [token |-> 0, expires |-> 0]

TypeOK ==
    /\ clock \in Nat
    /\ record \in [SpecId -> [state : State \cup {Absent}, assignee : Actor \cup {NoActor},
                             token : Nat, expires : Nat]]
    /\ trail \in [SpecId -> [state : State \cup {Absent}, held : BOOLEAN]]
    /\ issued \in Nat
    /\ known \in [Actor -> [SpecId -> [token : Nat, expires : Nat]]]

Init ==
    /\ clock = 0
    /\ record = [s \in SpecId |-> [state |-> Absent, assignee |-> NoActor,
                                  token |-> 0, expires |-> 0]]
    /\ trail = [s \in SpecId |-> [state |-> Absent, held |-> FALSE]]
    /\ issued = 0
    /\ known = [a \in Actor |-> [s \in SpecId |-> Unclaimed]]

-----------------------------------------------------------------------------
Expired(s) == record[s].token # 0 /\ record[s].expires <= clock

Unlock(r) == [r EXCEPT !.assignee = NoActor, !.token = 0, !.expires = 0]

\* The record once _expire_lock_if_needed_locked has looked at it.
Current(s) == IF Expired(s) THEN Unlock(record[s]) ELSE record[s]

\* Mutant: the holder is named, the token not compared.
OwnsByName(a, s) == Current(s).token # 0 /\ Current(s).assignee = a

\* _require_lock_owner, with the token the actor was told.
Owns(a, s) ==
    /\ Current(s).token # 0
    /\ Current(s).assignee = a
    /\ Current(s).token = known[a][s].token

\* The audit rows of a call: lock_expired and created first, then its own event,
\* which ends in a state and leaves the spec held or not.
Audit(s, state, held) == trail' = [trail EXCEPT ![s] = [state |-> state, held |-> held]]

Update(s, r) == record' = [record EXCEPT ![s] = r]

Lock(s, a, token, ttl) ==
    LET state == IF Current(s).state = Absent THEN New ELSE Current(s).state IN
    /\ Update(s, [state |-> state, assignee |-> a, token |-> token, expires |-> clock + ttl])
    /\ Audit(s, state, TRUE)

\* What an actor counts on while a reply is on its way.
Forget(a, s) == known' = [known EXCEPT ![a][s] = Unclaimed]
Earlier(m, n) == IF m <= n THEN m ELSE n

-----------------------------------------------------------------------------
\* Mutant: only the actor's own claim stands in its way.
ClaimAnyway(a, s, ttl) ==
    /\ issued < MaxToken
    /\ Current(s).assignee # a
    /\ issued' = issued + 1
    /\ Lock(s, a, issued', ttl)
    /\ UNCHANGED <<clock, known>>

Claim(a, s, ttl) ==
    /\ issued < MaxToken
    /\ Current(s).token = 0
    /\ issued' = issued + 1
    /\ Lock(s, a, issued', ttl)
    /\ UNCHANGED <<clock, known>>

Heartbeat(a, s, ttl) ==
    /\ Owns(a, s)
    /\ Lock(s, a, Current(s).token, ttl)
    /\ known' = [known EXCEPT ![a][s] =
                   [token |-> @.token, expires |-> Earlier(@.expires, clock + ttl)]]
    /\ UNCHANGED <<clock, issued>>

Release(a, s) ==
    /\ Owns(a, s)
    /\ Update(s, Unlock(Current(s)))
    /\ Audit(s, Current(s).state, FALSE)
    /\ Forget(a, s)
    /\ UNCHANGED <<clock, issued>>

\* By a coordinator or an admin who has the holder's token; the token is rotated and
\* the former holder gives its claim up.
Reassign(a, s, b, ttl) ==
    /\ issued < MaxToken
    /\ Owns(a, s)
    /\ issued' = issued + 1
    /\ Lock(s, b, issued', ttl)
    /\ Forget(a, s)
    /\ UNCHANGED clock

\* Mutant: an expired lock still counts.
TransitionUnexpired(a, s) ==
    LET to == record[s].state + 1 IN
    /\ record[s].state \in State /\ to \in State
    /\ to \in OwnerOnly => record[s].assignee = a /\ record[s].token = known[a][s].token
    /\ Update(s, [record[s] EXCEPT !.state = to])
    /\ Audit(s, to, record[s].token # 0)
    /\ UNCHANGED <<clock, issued, known>>

\* One state further; the lock stays as it is, and only two states ask for it.
Transition(a, s) ==
    LET to == Current(s).state + 1 IN
    /\ Current(s).state \in State /\ to \in State
    /\ to \in OwnerOnly => Owns(a, s)
    /\ Update(s, [Current(s) EXCEPT !.state = to])
    /\ Audit(s, to, Current(s).token # 0)
    /\ UNCHANGED <<clock, issued, known>>

\* get_spec: as it stands, expired or not.
Read(a, s) ==
    /\ record[s].state # Absent
    /\ known' = [known EXCEPT ![a][s] =
                   IF record[s].assignee = a
                   THEN [token |-> record[s].token, expires |-> record[s].expires]
                   ELSE Unclaimed]
    /\ UNCHANGED <<clock, record, trail, issued>>

\* The actor's process dies, with what it knew.
Crash(a) ==
    /\ known' = [known EXCEPT ![a] = [s \in SpecId |-> Unclaimed]]
    /\ UNCHANGED <<clock, record, trail, issued>>

Tick ==
    /\ clock < MaxClock
    /\ clock' = clock + 1
    /\ UNCHANGED <<record, trail, issued, known>>

Call(a, s) ==
    \/ \E ttl \in TTL : Claim(a, s, ttl)
    \/ \E ttl \in TTL : Heartbeat(a, s, ttl)
    \/ Release(a, s)
    \/ \E b \in Actor, ttl \in TTL : Reassign(a, s, b, ttl)
    \/ Transition(a, s)
    \/ Read(a, s)

Next ==
    \/ \E a \in Actor, s \in SpecId : Call(a, s)
    \/ \E a \in Actor : Crash(a)
    \/ Tick

Spec == Init /\ [][Next]_vars

-----------------------------------------------------------------------------
Trusts(a, s) == known[a][s].expires > clock

(***************************************************************************)
(* Two actors never both count on an unexpired claim of one spec, through  *)
(* expiry, lost replies and reassignment.                                  *)
(***************************************************************************)
OneAssignee ==
    \A s \in SpecId : \A a, b \in Actor : Trusts(a, s) /\ Trusts(b, s) => a = b

(***************************************************************************)
(* Whoever counts on a claim has it: the record names it, with its token,  *)
(* for at least as long as it was told, so that none of its calls can be   *)
(* refused before.                                                         *)
(***************************************************************************)
ClaimsBacked ==
    \A a \in Actor, s \in SpecId : Trusts(a, s) =>
        /\ record[s].assignee = a
        /\ record[s].token = known[a][s].token
        /\ record[s].expires >= known[a][s].expires

(***************************************************************************)
(* The audit rows of a spec tell its state, and whether it is held.        *)
(***************************************************************************)
TrailTruthful ==
    \A s \in SpecId : trail[s].state = record[s].state /\ (trail[s].held <=> record[s].token # 0)

(***************************************************************************)
(* A spec enters in_edit or in_execution only under a lock that has not    *)
(* expired, one state after the state before, and stays with its holder.   *)
(***************************************************************************)
EntersUnderLock(s) ==
    record'[s].state # record[s].state =>
        /\ record'[s].state = record[s].state + 1
        /\ record'[s].state \in OwnerOnly =>
             /\ record[s].token # 0
             /\ record[s].expires > clock
             /\ record'[s].token = record[s].token

OwnedStates == [][\A s \in SpecId : EntersUnderLock(s)]_vars

(***************************************************************************)
(* An unexpired lock is taken from a spec, or passed on, only in a call of *)
(* its assignee with the token that is on record: no claim, and no late    *)
(* call of a former holder with an older token, takes it.                  *)
(***************************************************************************)
TakenByHolder(s) ==
    record[s].token # 0 /\ record'[s].token # record[s].token =>
        \/ record[s].expires <= clock
        \/ \E a \in Actor : record[s].assignee = a /\ known[a][s].token = record[s].token

KeptByHolder == [][\A s \in SpecId : TakenByHolder(s)]_vars

(***************************************************************************)
(* The registry implements the lease service: the actors that count on a   *)
(* claim behave as the holders of its leases.                              *)
(***************************************************************************)
Holders == [s \in SpecId |-> {a \in Actor : Trusts(a, s)}]

Lease == INSTANCE LeaseService WITH Owner <- Actor, Resource <- SpecId, holders <- Holders

ImplementsLeaseService == Lease!Spec
=============================================================================
