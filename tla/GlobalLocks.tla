---------------------------- MODULE GlobalLocks ----------------------------
(***************************************************************************)
(* SQLiteGlobalLockBackend (flowctl/locks.py): the table of global locks   *)
(* shared by the workflow runs of one workspace.                           *)
(*                                                                         *)
(* Every call reads the clock first and only then waits for the mutex and  *)
(* for BEGIN IMMEDIATE, so the instant a transaction works with can be     *)
(* older than the instant it commits.  A call is therefore two steps:      *)
(* Begin reads the clock, one of the transactions ends it.  The transaction *)
(* itself is atomic, and one that raises is rolled back, its sweep of      *)
(* expired rows included.                                                  *)
(***************************************************************************)
EXTENDS Naturals

CONSTANTS
    Owner,      \* (run_id, feature, slice) triples, one process each
    Lock,       \* lock names
    TTL,        \* the ttl_seconds callers ask for
    MaxClock,   \* bound on the clock, for model checking
    NoOwner,    \* the owner of no row
    NoLock      \* the lock_name of a call that has none

ASSUME OwnerAssumption == NoOwner \notin Owner
ASSUME LockAssumption == NoLock \notin Lock
ASSUME TTLAssumption == TTL \subseteq Nat
ASSUME ClockAssumption == MaxClock \in Nat

VARIABLES
    clock,      \* the UTC time, in whole seconds
    row,        \* the table global_locks
    log,        \* per lock, the holder that its rows in global_lock_events tell of
    call,       \* per owner, the call it has in flight
    lease       \* per owner and lock, the expires_at of the last reply that granted it

vars == <<clock, row, log, call, lease>>

Idle == [op |-> "idle", lock |-> NoLock, now |-> 0, ttl |-> 0]
LockCall == [op : {"acquire", "heartbeat", "release"}, lock : Lock, now : Nat, ttl : Nat]
SweepCall == [op : {"expire_stale"}, lock : {NoLock}, now : Nat, ttl : {0}]
NoRow == [owner |-> NoOwner, expires |-> 0]

TypeOK ==
    /\ clock \in Nat
    /\ row \in [Lock -> [owner : Owner \cup {NoOwner}, expires : Nat]]
    /\ log \in [Lock -> Owner \cup {NoOwner}]
    /\ call \in [Owner -> {Idle} \cup LockCall \cup SweepCall]
    /\ lease \in [Owner -> [Lock -> Nat]]

Init ==
    /\ clock = 0
    /\ row = [l \in Lock |-> NoRow]
    /\ log = [l \in Lock |-> NoOwner]
    /\ call = [o \in Owner |-> Idle]
    /\ lease = [o \in Owner |-> [l \in Lock |-> 0]]

-----------------------------------------------------------------------------
\* The expires_at a call writes: a ttl below one second counts as one.
ExpiresAt(c) == c.now + (IF c.ttl = 0 THEN 1 ELSE c.ttl)

\* Mutant: a row is swept one second early.
StaleEarly(l, now) == row[l].owner # NoOwner /\ row[l].expires <= now + 1

Stale(l, now) == row[l].owner # NoOwner /\ row[l].expires <= now

\* An event: "acquire", "heartbeat" and "heartbeat-renew" tell of a holder,
\* "release" and "expire" of none; "denied" changes nothing and is left out.
Holds(o) == o
Frees == NoOwner

\* The table and the log once the rows stale at that instant are deleted.
Swept(now) == [l \in Lock |-> IF Stale(l, now) THEN NoRow ELSE row[l]]
SweptLog(now) == [l \in Lock |-> IF Stale(l, now) THEN Frees ELSE log[l]]

\* A call returns (or raises): what its owner now knows about lock l.
Reply(o, l, expires) ==
    /\ call' = [call EXCEPT ![o] = Idle]
    /\ lease' = [lease EXCEPT ![o][l] = expires]
    /\ UNCHANGED clock

\* The call's transaction writes row r for its lock and event e.
Write(o, table, events, r, e) ==
    /\ row' = [table EXCEPT ![call[o].lock] = r]
    /\ log' = [events EXCEPT ![call[o].lock] = e]

-----------------------------------------------------------------------------
Begin(o, op, l, now, ttl) ==
    /\ call[o] = Idle
    /\ call' = [call EXCEPT ![o] = [op |-> op, lock |-> l, now |-> now, ttl |-> ttl]]
    /\ UNCHANGED <<clock, row, log, lease>>

BeginLease(o) ==
    \E op \in {"acquire", "heartbeat"}, l \in Lock, ttl \in TTL : Begin(o, op, l, clock, ttl)

\* The instant a release reads only dates its event: zero stands for it.
BeginRelease(o) == \E l \in Lock : Begin(o, "release", l, 0, 0)

BeginExpireStale(o) == Begin(o, "expire_stale", NoLock, clock, 0)

AcquireNew(o) ==
    LET c == call[o] IN
    /\ c.op = "acquire"
    /\ Swept(c.now)[c.lock].owner = NoOwner
    /\ Write(o, Swept(c.now), SweptLog(c.now),
             [owner |-> o, expires |-> ExpiresAt(c)], Holds(o))
    /\ Reply(o, c.lock, ExpiresAt(c))

\* Mutant: any owner renews an existing row.
AcquireRenewAny(o) ==
    LET c == call[o] IN
    /\ c.op = "acquire"
    /\ Swept(c.now)[c.lock].owner # NoOwner
    /\ Write(o, Swept(c.now), SweptLog(c.now),
             [owner |-> o, expires |-> ExpiresAt(c)], Holds(o))
    /\ Reply(o, c.lock, ExpiresAt(c))

AcquireRenew(o) ==
    LET c == call[o] IN
    /\ c.op = "acquire"
    /\ Swept(c.now)[c.lock].owner = o
    /\ Write(o, Swept(c.now), SweptLog(c.now),
             [owner |-> o, expires |-> ExpiresAt(c)], Holds(o))
    /\ Reply(o, c.lock, ExpiresAt(c))

\* A denied acquire commits too: the sweep of the other rows stays.
AcquireDenied(o) ==
    LET c == call[o] IN
    /\ c.op = "acquire"
    /\ Swept(c.now)[c.lock].owner \notin {o, NoOwner}
    /\ row' = Swept(c.now)
    /\ log' = SweptLog(c.now)
    /\ Reply(o, c.lock, 0)

Heartbeat(o) ==
    LET c == call[o] IN
    /\ c.op = "heartbeat"
    /\ Swept(c.now)[c.lock].owner = o
    /\ Write(o, Swept(c.now), SweptLog(c.now),
             [owner |-> o, expires |-> ExpiresAt(c)], Holds(o))
    /\ Reply(o, c.lock, ExpiresAt(c))

\* LOCK_NOT_FOUND or LOCK_NOT_OWNED: the exception rolls the sweep back.
HeartbeatRefused(o) ==
    LET c == call[o] IN
    /\ c.op = "heartbeat"
    /\ Swept(c.now)[c.lock].owner # o
    /\ Reply(o, c.lock, 0)
    /\ UNCHANGED <<row, log>>

\* Mutant: release deletes the row without asking whose it is.
ReleaseUnchecked(o) ==
    LET c == call[o] IN
    /\ c.op = "release"
    /\ Write(o, row, log, NoRow, Frees)
    /\ Reply(o, c.lock, 0)

\* Release does not look at the clock: an expired row is still its owner's.
Release(o) ==
    LET c == call[o] IN
    /\ c.op = "release"
    /\ row[c.lock].owner = o
    /\ Write(o, row, log, NoRow, Frees)
    /\ Reply(o, c.lock, 0)

\* "missing" is a no-op; LOCK_NOT_OWNED raises with nothing written.
ReleaseMissingOrNotOwned(o) ==
    LET c == call[o] IN
    /\ c.op = "release"
    /\ row[c.lock].owner # o
    /\ Reply(o, c.lock, 0)
    /\ UNCHANGED <<row, log>>

ExpireStale(o) ==
    LET c == call[o] IN
    /\ c.op = "expire_stale"
    /\ row' = Swept(c.now)
    /\ log' = SweptLog(c.now)
    /\ call' = [call EXCEPT ![o] = Idle]
    /\ UNCHANGED <<clock, lease>>

\* busy_timeout runs out while another connection holds the database.
DatabaseLocked(o) ==
    /\ call[o] # Idle
    /\ call' = [call EXCEPT ![o] = Idle]
    /\ UNCHANGED <<clock, row, log, lease>>

\* The owner's process dies, in a call or not; its rows stay behind.
Crash(o) ==
    /\ call' = [call EXCEPT ![o] = Idle]
    /\ lease' = [lease EXCEPT ![o] = [l \in Lock |-> 0]]
    /\ UNCHANGED <<clock, row, log>>

Tick ==
    /\ clock < MaxClock
    /\ clock' = clock + 1
    /\ UNCHANGED <<row, log, call, lease>>

OwnerStep(o) ==
    \/ BeginLease(o)
    \/ BeginRelease(o)
    \/ BeginExpireStale(o)
    \/ AcquireNew(o)
    \/ AcquireRenew(o)
    \/ AcquireDenied(o)
    \/ Heartbeat(o)
    \/ HeartbeatRefused(o)
    \/ Release(o)
    \/ ReleaseMissingOrNotOwned(o)
    \/ ExpireStale(o)
    \/ DatabaseLocked(o)
    \/ Crash(o)

Next == Tick \/ \E o \in Owner : OwnerStep(o)

Spec == Init /\ [][Next]_vars

-----------------------------------------------------------------------------
(***************************************************************************)
(* Two owners never both trust an unexpired lease on the same lock, however *)
(* long their calls waited for the database after reading the clock.       *)
(***************************************************************************)
LeaseExclusion ==
    \A l \in Lock : \A o, p \in Owner :
        lease[o][l] > clock /\ lease[p][l] > clock => o = p

(***************************************************************************)
(* An owner whose lease has not run out still owns the row, at least until *)
(* the instant it was told: nobody swept it early and a late renewal of    *)
(* its own did not shorten it.                                             *)
(***************************************************************************)
LeaseBacked ==
    \A o \in Owner, l \in Lock :
        lease[o][l] > clock => row[l].owner = o /\ row[l].expires >= lease[o][l]

(***************************************************************************)
(* The audit trail is enough to tell who holds a lock: replaying the events *)
(* of a lock ends with its row's owner holding it, or with nobody.         *)
(***************************************************************************)
AuditReplay == \A l \in Lock : row[l].owner = log[l]

(***************************************************************************)
(* A row leaves its owner before its expires_at only by the owner's own    *)
(* release: no sweep, acquire or heartbeat of another takes it.            *)
(***************************************************************************)
TakenFromOwner(l) == row[l].owner # NoOwner /\ row'[l].owner # row[l].owner

NoTheftStep ==
    \A l \in Lock :
        TakenFromOwner(l) =>
            \/ row[l].expires <= clock
            \/ call[row[l].owner].op = "release" /\ call[row[l].owner].lock = l

NoTheft == [][NoTheftStep]_vars

(***************************************************************************)
(* The table implements the lease service: the owners that were told they  *)
(* hold a lock and whose lease is not over behave as its holders.          *)
(***************************************************************************)
Holders == [l \in Lock |-> {o \in Owner : lease[o][l] > clock}]

Lease == INSTANCE LeaseService WITH Resource <- Lock, holders <- Holders

ImplementsLeaseService == Lease!Spec
=============================================================================
