------------------------- MODULE GlobalLocksProofs -------------------------
(***************************************************************************)
(* Proofs about GlobalLocks, for any sets of owners and locks, any ttls    *)
(* and a clock without bound.                                              *)
(***************************************************************************)
EXTENDS GlobalLocks, TLAPS

\* The instant a call read is never ahead of the clock.
CallsInPast == \A o \in Owner : call[o].now <= clock

\* The inductive invariant.
IInv == TypeOK /\ CallsInPast /\ LeaseBacked /\ AuditReplay

-----------------------------------------------------------------------------
(***************************************************************************)
(* Facts about calls and about the sweep.                                  *)
(***************************************************************************)
LEMMA CallType ==
    ASSUME TypeOK, NEW o \in Owner
    PROVE  /\ call[o].now \in Nat
           /\ ExpiresAt(call[o]) \in Nat
           /\ call[o].op \in {"acquire", "heartbeat", "release"} => call[o].lock \in Lock
<1>1. call[o] \in {Idle} \cup LockCall \cup SweepCall
  BY DEF TypeOK
<1>2. CASE call[o] = Idle
  BY <1>2 DEF Idle, ExpiresAt
<1>3. CASE call[o] \in LockCall
  BY <1>3 DEF LockCall, ExpiresAt
<1>4. CASE call[o] \in SweepCall
  BY <1>4 DEF SweepCall, ExpiresAt
<1>5. QED
  BY <1>1, <1>2, <1>3, <1>4

LEMMA SweptType ==
    ASSUME TypeOK, NEW n \in Nat
    PROVE  /\ Swept(n) \in [Lock -> [owner : Owner \cup {NoOwner}, expires : Nat]]
           /\ SweptLog(n) \in [Lock -> Owner \cup {NoOwner}]
BY DEF TypeOK, Swept, SweptLog, NoRow, Frees

\* A sweep with an instant of the past keeps every row that is not expired,
\* and never makes an owner appear.
LEMMA SweptKeeps ==
    ASSUME TypeOK, NEW n \in Nat, n <= clock, NEW l \in Lock
    PROVE  /\ row[l].expires > clock => Swept(n)[l] = row[l]
           /\ Swept(n)[l] = row[l] \/ Swept(n)[l].owner = NoOwner
BY DEF TypeOK, Swept, Stale, NoRow

LEMMA SweptAudit ==
    ASSUME TypeOK, AuditReplay, NEW n \in Nat, NEW l \in Lock
    PROVE  Swept(n)[l].owner = SweptLog(n)[l]
BY DEF TypeOK, AuditReplay, Swept, SweptLog, Stale, NoRow, Frees

-----------------------------------------------------------------------------
(***************************************************************************)
(* Type correctness.                                                       *)
(***************************************************************************)
LEMMA TypeInit == Init => TypeOK
BY DEF Init, TypeOK, NoRow, Idle

LEMMA TypeNext == TypeOK /\ [Next]_vars => TypeOK'
<1> SUFFICES ASSUME TypeOK, [Next]_vars PROVE TypeOK'
  OBVIOUS
<1>1. CASE Tick
  BY <1>1 DEF TypeOK, Tick
<1>2. ASSUME NEW o \in Owner, OwnerStep(o) PROVE TypeOK'
  <2> DEFINE c == call[o]
  <2>1. c.now \in Nat /\ ExpiresAt(c) \in Nat
    BY CallType
  <2>2. /\ Swept(c.now) \in [Lock -> [owner : Owner \cup {NoOwner}, expires : Nat]]
        /\ SweptLog(c.now) \in [Lock -> Owner \cup {NoOwner}]
    BY <2>1, SweptType
  <2>3. c.op \in {"acquire", "heartbeat", "release"} => c.lock \in Lock
    BY CallType
  <2>4. ASSUME NEW l \in Lock, NEW e \in Nat, Reply(o, l, e)
        PROVE  /\ clock' \in Nat
               /\ call' \in [Owner -> {Idle} \cup LockCall \cup SweepCall]
               /\ lease' \in [Owner -> [Lock -> Nat]]
    BY <2>4 DEF TypeOK, Reply
  <2>5. CASE BeginLease(o)
    BY <2>5, TTLAssumption DEF TypeOK, BeginLease, Begin, LockCall
  <2>6. CASE BeginRelease(o)
    BY <2>6 DEF TypeOK, BeginRelease, Begin, LockCall
  <2>7. CASE BeginExpireStale(o)
    BY <2>7 DEF TypeOK, BeginExpireStale, Begin, SweepCall
  <2>8. CASE AcquireNew(o) \/ AcquireRenew(o) \/ Heartbeat(o)
    <3>1. /\ Write(o, Swept(c.now), SweptLog(c.now),
                   [owner |-> o, expires |-> ExpiresAt(c)], Holds(o))
          /\ Reply(o, c.lock, ExpiresAt(c))
          /\ c.lock \in Lock
      BY <2>8, <2>3 DEF AcquireNew, AcquireRenew, Heartbeat
    <3>2. /\ row' \in [Lock -> [owner : Owner \cup {NoOwner}, expires : Nat]]
          /\ log' \in [Lock -> Owner \cup {NoOwner}]
      BY <3>1, <2>1, <2>2 DEF Write, Holds
    <3>3. QED
      BY <3>1, <3>2, <2>1, <2>4 DEF TypeOK
  <2>9. CASE AcquireDenied(o)
    BY <2>9, <2>2, <2>3, <2>4 DEF TypeOK, AcquireDenied
  <2>10. CASE HeartbeatRefused(o) \/ ReleaseMissingOrNotOwned(o)
    BY <2>10, <2>3, <2>4 DEF TypeOK, HeartbeatRefused, ReleaseMissingOrNotOwned
  <2>11. CASE Release(o)
    <3>1. /\ row' \in [Lock -> [owner : Owner \cup {NoOwner}, expires : Nat]]
          /\ log' \in [Lock -> Owner \cup {NoOwner}]
      BY <2>11 DEF TypeOK, Release, Write, NoRow, Frees
    <3>2. QED
      BY <3>1, <2>11, <2>3, <2>4 DEF TypeOK, Release
  <2>12. CASE ExpireStale(o)
    BY <2>12, <2>2 DEF TypeOK, ExpireStale
  <2>13. CASE DatabaseLocked(o)
    BY <2>13 DEF TypeOK, DatabaseLocked
  <2>14. CASE Crash(o)
    BY <2>14 DEF TypeOK, Crash
  <2>15. QED
    BY <1>2, <2>5, <2>6, <2>7, <2>8, <2>9, <2>10, <2>11, <2>12, <2>13, <2>14
       DEF OwnerStep
<1>3. CASE UNCHANGED vars
  BY <1>3 DEF TypeOK, vars
<1>4. QED
  BY <1>1, <1>2, <1>3 DEF Next

(***************************************************************************)
(* Every value the table, its log and its callers take is well typed.      *)
(***************************************************************************)
THEOREM TypeCorrect == Spec => []TypeOK
BY TypeInit, TypeNext, PTL DEF Spec

-----------------------------------------------------------------------------
(***************************************************************************)
(* The inductive invariant.                                                *)
(***************************************************************************)
LEMMA IInit == Init => IInv
<1> SUFFICES ASSUME Init PROVE IInv
  OBVIOUS
<1>1. TypeOK
  BY TypeInit
<1>2. CallsInPast /\ LeaseBacked /\ AuditReplay
  BY DEF Init, CallsInPast, LeaseBacked, AuditReplay, NoRow, Idle
<1>3. QED
  BY <1>1, <1>2 DEF IInv

LEMMA CallsNext == TypeOK /\ CallsInPast /\ [Next]_vars => CallsInPast'
<1> SUFFICES ASSUME TypeOK, CallsInPast, [Next]_vars PROVE CallsInPast'
  OBVIOUS
<1>1. CASE Tick
  <2>1. \A o \in Owner : call[o].now \in Nat
    BY CallType
  <2>2. QED
    BY <1>1, <2>1 DEF TypeOK, CallsInPast, Tick
<1>2. ASSUME NEW o \in Owner, OwnerStep(o) PROVE CallsInPast'
  <2>1. /\ clock' = clock
        /\ \/ call' = [call EXCEPT ![o] = Idle]
           \/ \E op, l, ttl : \E now \in {0, clock} : Begin(o, op, l, now, ttl)
    BY <1>2 DEF OwnerStep, BeginLease, BeginRelease, BeginExpireStale, Begin, AcquireNew,
         AcquireRenew, AcquireDenied, Heartbeat, HeartbeatRefused, Release,
         ReleaseMissingOrNotOwned, ExpireStale, DatabaseLocked, Crash, Reply
  <2>2. CASE call' = [call EXCEPT ![o] = Idle]
    BY <2>1, <2>2 DEF TypeOK, CallsInPast, Idle
  <2>3. CASE \E op, l, ttl : \E now \in {0, clock} : Begin(o, op, l, now, ttl)
    BY <2>3 DEF TypeOK, CallsInPast, Begin
  <2>4. QED
    BY <2>1, <2>2, <2>3
<1>3. CASE UNCHANGED vars
  BY <1>3 DEF CallsInPast, vars
<1>4. QED
  BY <1>1, <1>2, <1>3 DEF Next

LEMMA AuditNext == TypeOK /\ AuditReplay /\ [Next]_vars => AuditReplay'
<1> SUFFICES ASSUME TypeOK, AuditReplay, [Next]_vars PROVE AuditReplay'
  OBVIOUS
<1>1. CASE UNCHANGED <<row, log>>
  BY <1>1 DEF AuditReplay
<1>2. ASSUME NEW o \in Owner, OwnerStep(o), ~UNCHANGED <<row, log>> PROVE AuditReplay'
  <2> DEFINE c == call[o]
  <2>1. c.now \in Nat
    BY CallType
  <2>2. /\ Swept(c.now) \in [Lock -> [owner : Owner \cup {NoOwner}, expires : Nat]]
        /\ SweptLog(c.now) \in [Lock -> Owner \cup {NoOwner}]
    BY <2>1, SweptType
  <2>3. \A l \in Lock : Swept(c.now)[l].owner = SweptLog(c.now)[l]
    BY <2>1, SweptAudit
  <2>4. CASE AcquireNew(o) \/ AcquireRenew(o) \/ Heartbeat(o)
    <3>1. Write(o, Swept(c.now), SweptLog(c.now),
                [owner |-> o, expires |-> ExpiresAt(c)], Holds(o))
      BY <2>4 DEF AcquireNew, AcquireRenew, Heartbeat
    <3>2. QED
      BY <3>1, <2>2, <2>3 DEF AuditReplay, Write, Holds
  <2>5. CASE AcquireDenied(o) \/ ExpireStale(o)
    BY <2>5, <2>3 DEF AuditReplay, AcquireDenied, ExpireStale
  <2>6. CASE Release(o)
    BY <2>6 DEF TypeOK, AuditReplay, Release, Write, NoRow, Frees
  <2>7. QED
    BY <1>2, <2>4, <2>5, <2>6 DEF OwnerStep, BeginLease, BeginRelease, BeginExpireStale,
         Begin, HeartbeatRefused, ReleaseMissingOrNotOwned, DatabaseLocked, Crash
<1>3. QED
  BY <1>1, <1>2 DEF Next, Tick, vars

LEMMA LeaseNext ==
    TypeOK /\ CallsInPast /\ LeaseBacked /\ [Next]_vars => LeaseBacked'
<1> SUFFICES ASSUME TypeOK, CallsInPast, LeaseBacked, [Next]_vars PROVE LeaseBacked'
  OBVIOUS
<1>1. CASE Tick
  BY <1>1 DEF TypeOK, LeaseBacked, Tick
<1>2. ASSUME NEW o \in Owner, OwnerStep(o) PROVE LeaseBacked'
  <2> DEFINE c == call[o]
  <2>1. c.now \in Nat /\ ExpiresAt(c) \in Nat /\ c.now <= clock
    BY CallType DEF CallsInPast
  <2>2. Swept(c.now) \in [Lock -> [owner : Owner \cup {NoOwner}, expires : Nat]]
    BY <2>1, SweptType
  <2>3. c.op \in {"acquire", "heartbeat", "release"} => c.lock \in Lock
    BY CallType
  \* An owner with an unexpired lease finds its row in the swept table too.
  <2>4. \A p \in Owner, l \in Lock :
           lease[p][l] > clock => /\ Swept(c.now)[l] = row[l]
                                  /\ row[l].owner = p
                                  /\ row[l].expires >= lease[p][l]
    BY <2>1, SweptKeeps DEF TypeOK, LeaseBacked
  <2>5. clock' = clock
    BY <1>2 DEF OwnerStep, BeginLease, BeginRelease, BeginExpireStale, Begin, AcquireNew,
         AcquireRenew, AcquireDenied, Heartbeat, HeartbeatRefused, Release,
         ReleaseMissingOrNotOwned, ExpireStale, DatabaseLocked, Crash, Reply
  <2>6. CASE AcquireNew(o) \/ AcquireRenew(o) \/ Heartbeat(o)
    <3>1. /\ row' = [Swept(c.now) EXCEPT ![c.lock] =
                       [owner |-> o, expires |-> ExpiresAt(c)]]
          /\ lease' = [lease EXCEPT ![o][c.lock] = ExpiresAt(c)]
          /\ Swept(c.now)[c.lock].owner \in {o, NoOwner}
          /\ c.lock \in Lock
      BY <2>6, <2>3 DEF AcquireNew, AcquireRenew, Heartbeat, Write, Reply
    <3> SUFFICES ASSUME NEW p \in Owner, NEW l \in Lock, lease'[p][l] > clock
                 PROVE  row'[l].owner = p /\ row'[l].expires >= lease'[p][l]
      BY <2>5 DEF LeaseBacked
    <3>2. CASE l = c.lock /\ p = o
      BY <3>1, <3>2, <2>1, <2>2 DEF TypeOK
    <3>3. CASE l # c.lock
      BY <3>1, <3>3, <2>2, <2>4 DEF TypeOK
    <3>4. CASE l = c.lock /\ p # o
      BY <3>1, <3>4, <2>4, OwnerAssumption DEF TypeOK
    <3>5. QED
      BY <3>2, <3>3, <3>4
  <2>7. CASE AcquireDenied(o)
    BY <2>7, <2>3, <2>4, <2>5 DEF TypeOK, LeaseBacked, AcquireDenied, Reply
  <2>8. CASE HeartbeatRefused(o) \/ ReleaseMissingOrNotOwned(o)
    BY <2>8, <2>3, <2>5
       DEF TypeOK, LeaseBacked, HeartbeatRefused, ReleaseMissingOrNotOwned, Reply
  <2>9. CASE Release(o)
    BY <2>9, <2>3, <2>4, <2>5 DEF TypeOK, LeaseBacked, Release, Write, Reply
  <2>10. CASE ExpireStale(o)
    BY <2>10, <2>4, <2>5 DEF LeaseBacked, ExpireStale
  <2>11. CASE Crash(o)
    BY <2>11, <2>4 DEF TypeOK, LeaseBacked, Crash
  <2>12. CASE UNCHANGED <<clock, row, lease>>
    BY <2>12 DEF LeaseBacked
  <2>13. QED
    BY <1>2, <2>6, <2>7, <2>8, <2>9, <2>10, <2>11, <2>12
       DEF OwnerStep, BeginLease, BeginRelease, BeginExpireStale, Begin, DatabaseLocked
<1>3. CASE UNCHANGED vars
  BY <1>3 DEF LeaseBacked, vars
<1>4. QED
  BY <1>1, <1>2, <1>3 DEF Next

LEMMA INext == IInv /\ [Next]_vars => IInv'
BY TypeNext, CallsNext, AuditNext, LeaseNext DEF IInv

THEOREM Invariance == Spec => []IInv
BY IInit, INext, PTL DEF Spec

-----------------------------------------------------------------------------
(***************************************************************************)
(* Two owners never both trust an unexpired lease on one lock, and whoever *)
(* trusts one still has the row.                                           *)
(***************************************************************************)
LEMMA BackedExclusive == LeaseBacked => LeaseExclusion
BY DEF LeaseBacked, LeaseExclusion

THEOREM LeasesExclude == Spec => [](LeaseExclusion /\ LeaseBacked)
BY Invariance, BackedExclusive, PTL DEF IInv

(***************************************************************************)
(* The events of a lock always tell who holds it.                          *)
(***************************************************************************)
THEOREM AuditReplays == Spec => []AuditReplay
BY Invariance, PTL DEF IInv

-----------------------------------------------------------------------------
(***************************************************************************)
(* Only its own release takes an unexpired row from its owner.             *)
(***************************************************************************)
LEMMA NoTheftNext == IInv /\ [Next]_vars => NoTheftStep
<1> SUFFICES ASSUME IInv, Next, NEW l \in Lock, TakenFromOwner(l), row[l].expires > clock
             PROVE  call[row[l].owner].op = "release" /\ call[row[l].owner].lock = l
  BY DEF IInv, TypeOK, NoTheftStep, TakenFromOwner, vars
<1>1. PICK o \in Owner : OwnerStep(o)
  BY DEF Next, Tick, TakenFromOwner
<1> DEFINE c == call[o]
<1>2. Swept(c.now)[l] = row[l]
  BY CallType, SweptKeeps DEF IInv, CallsInPast
<1>3. Swept(c.now) \in [Lock -> [owner : Owner \cup {NoOwner}, expires : Nat]]
  BY CallType, SweptType DEF IInv
<1>4. CASE AcquireNew(o) \/ AcquireRenew(o) \/ Heartbeat(o)
  <2>1. /\ row' = [Swept(c.now) EXCEPT ![c.lock] =
                     [owner |-> o, expires |-> ExpiresAt(c)]]
        /\ Swept(c.now)[c.lock].owner \in {o, NoOwner}
    BY <1>4 DEF AcquireNew, AcquireRenew, Heartbeat, Write
  <2>2. QED
    BY <2>1, <1>2, <1>3 DEF TakenFromOwner
<1>5. CASE AcquireDenied(o) \/ ExpireStale(o)
  BY <1>5, <1>2 DEF TakenFromOwner, AcquireDenied, ExpireStale
<1>6. CASE Release(o)
  BY <1>6 DEF IInv, TypeOK, TakenFromOwner, Release, Write
<1>7. QED
  BY <1>1, <1>4, <1>5, <1>6 DEF OwnerStep, BeginLease, BeginRelease, BeginExpireStale,
     Begin, HeartbeatRefused, ReleaseMissingOrNotOwned, DatabaseLocked, Crash, TakenFromOwner

THEOREM NothingStolen == Spec => NoTheft
BY Invariance, NoTheftNext, PTL DEF Spec, NoTheft

-----------------------------------------------------------------------------
(***************************************************************************)
(* The lock table implements the lease service.                            *)
(***************************************************************************)
LEMMA RefineInit == Init => Lease!Init
BY DEF Init, Holders, Lease!Init

LEMMA RefineNext == IInv /\ IInv' /\ [Next]_vars => [Lease!Next]_Holders
<1> SUFFICES ASSUME IInv, IInv', [Next]_vars PROVE Lease!Next \/ UNCHANGED Holders
  OBVIOUS
<1>1. Holders' \in [Lock -> SUBSET Owner] /\ Holders \in [Lock -> SUBSET Owner]
  BY DEF Holders
\* A step after which no owner trusts more than before is a lapse.
<1>2. ASSUME \A o \in Owner, l \in Lock : lease'[o][l] > clock' => lease[o][l] > clock
      PROVE  Lease!Next
  BY <1>1, <1>2 DEF Holders, Lease!Next, Lease!Lapse
<1>3. CASE Tick
  BY <1>2, <1>3 DEF IInv, TypeOK, Tick
<1>4. ASSUME NEW o \in Owner, OwnerStep(o) PROVE Lease!Next \/ UNCHANGED Holders
  <2> DEFINE c == call[o]
  <2>1. CASE AcquireNew(o) \/ AcquireRenew(o) \/ Heartbeat(o)
    <3>1. /\ lease' = [lease EXCEPT ![o][c.lock] = ExpiresAt(c)]
          /\ clock' = clock
          /\ Swept(c.now)[c.lock].owner \in {o, NoOwner}
          /\ c.lock \in Lock
      BY <2>1, CallType DEF IInv, AcquireNew, AcquireRenew, Heartbeat, Reply
    <3>2. \A p \in Owner : lease[p][c.lock] > clock => p = o
      <4> SUFFICES ASSUME NEW p \in Owner, lease[p][c.lock] > clock PROVE p = o
        OBVIOUS
      <4>1. row[c.lock].owner = p /\ row[c.lock].expires > clock
        BY <3>1 DEF IInv, TypeOK, LeaseBacked
      <4>2. Swept(c.now)[c.lock] = row[c.lock]
        BY <3>1, <4>1, CallType, SweptKeeps DEF IInv, CallsInPast
      <4>3. QED
        BY <3>1, <4>1, <4>2, OwnerAssumption
    <3>3. CASE ExpiresAt(c) > clock
      <4>1. Holders[c.lock] \subseteq {o}
        BY <3>1, <3>2 DEF Holders
      <4>2. \A p \in Owner, l \in Lock :
               lease'[p][l] > clock' <=> IF l = c.lock THEN p = o ELSE lease[p][l] > clock
        BY <3>1, <3>2, <3>3 DEF IInv, TypeOK
      <4>3. \A l \in Lock : Holders'[l] = IF l = c.lock THEN {o} ELSE Holders[l]
        BY <4>2 DEF Holders
      <4>4. Holders' = [Holders EXCEPT ![c.lock] = {o}]
        BY <1>1, <4>3
      <4>5. QED
        BY <3>1, <4>1, <4>4 DEF Lease!Next, Lease!Grant
    <3>4. CASE ~(ExpiresAt(c) > clock)
      BY <1>2, <3>1, <3>4 DEF IInv, TypeOK
    <3>5. QED
      BY <3>3, <3>4
  <2>2. CASE \/ AcquireDenied(o) \/ HeartbeatRefused(o)
             \/ Release(o) \/ ReleaseMissingOrNotOwned(o)
    <3>1. lease' = [lease EXCEPT ![o][c.lock] = 0] /\ clock' = clock /\ c.lock \in Lock
      BY <2>2, CallType DEF IInv, AcquireDenied, HeartbeatRefused, Release,
         ReleaseMissingOrNotOwned, Reply
    <3>2. QED
      BY <1>2, <3>1 DEF IInv, TypeOK
  <2>3. CASE Crash(o)
    BY <1>2, <2>3 DEF IInv, TypeOK, Crash
  <2>4. CASE UNCHANGED <<clock, lease>>
    BY <2>4 DEF Holders
  <2>5. QED
    BY <1>4, <2>1, <2>2, <2>3, <2>4 DEF OwnerStep, BeginLease, BeginRelease,
       BeginExpireStale, Begin, ExpireStale, DatabaseLocked
<1>5. CASE UNCHANGED vars
  BY <1>5 DEF Holders, vars
<1>6. QED
  BY <1>3, <1>4, <1>5 DEF Next

THEOREM Refinement == Spec => ImplementsLeaseService
BY RefineInit, RefineNext, Invariance, PTL DEF Spec, ImplementsLeaseService, Lease!Spec

\* What every implementation of the service inherits: a resource never has two holders.
LEMMA LeaseExcludes == Lease!Spec => []Lease!MutualExclusion
<1> DEFINE One == Lease!MutualExclusion /\ Holders \in [Lock -> SUBSET Owner]
<1>1. Lease!Init => One
  BY DEF Lease!Init, Lease!MutualExclusion
<1>2. One /\ [Lease!Next]_Holders => One'
  <2> SUFFICES ASSUME One, [Lease!Next]_Holders PROVE One'
    OBVIOUS
  <2>1. Holders' \in [Lock -> SUBSET Owner]
    BY DEF Holders
  <2>2. ASSUME NEW o \in Owner, NEW l \in Lock, Lease!Grant(o, l) PROVE Lease!MutualExclusion'
    <3>1. /\ Holders'[l] = {o}
          /\ \A k \in Lock \ {l} : Holders'[k] = Holders[k]
      BY <2>2 DEF Lease!Grant
    <3> QED BY <3>1 DEF Lease!MutualExclusion
  <2>3. CASE Lease!Lapse
    BY <2>3 DEF Lease!Lapse, Lease!MutualExclusion
  <2>4. CASE UNCHANGED Holders
    BY <2>4 DEF Lease!MutualExclusion
  <2> QED BY <2>1, <2>2, <2>3, <2>4 DEF Lease!Next
<1> HIDE DEF One
<1>3. One => Lease!MutualExclusion
  BY DEF One
<1> QED BY <1>1, <1>2, <1>3, PTL DEF Lease!Spec

(***************************************************************************)
(* So a lock never has two holders that were told they hold it, by the     *)
(* promise of the service alone.                                           *)
(***************************************************************************)
THEOREM Exclusion == Spec => []Lease!MutualExclusion
BY Refinement, LeaseExcludes, PTL DEF ImplementsLeaseService
=============================================================================
