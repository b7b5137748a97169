---------------------------- MODULE GatewayProofs ----------------------------
(***************************************************************************)
(* Proofs about the two halves of the gateway's HTTP side.  SpecRegistry:  *)
(* for any sets of actors and specs, any ttls, and clocks and tokens       *)
(* without bound.  WebhookIntake: for any requests, callers, rules, repos, *)
(* providers and policies, windows and maxima, and any number of rows,     *)
(* seconds and restarts.                                                   *)
(***************************************************************************)
EXTENDS SpecRegistry, WebhookIntake, FiniteSetTheorems, SequenceTheorems, TLAPS

\* The three lock columns are set and cleared together.
RowsWhole ==
    \A s \in SpecId : record[s].token = 0 =>
        record[s].expires = 0 /\ record[s].assignee = NoActor

\* The inductive invariant.
IInv == TypeOK /\ RowsWhole /\ ClaimsBacked /\ TrailTruthful

Record == [state : State \cup {Absent}, assignee : Actor \cup {NoActor},
           token : Nat, expires : Nat]

-----------------------------------------------------------------------------
(***************************************************************************)
(* Facts about the record after the expiry check.                          *)
(***************************************************************************)
LEMMA CurrentType ==
    ASSUME TypeOK, NEW s \in SpecId
    PROVE  Current(s) \in Record
BY ZenonT(60) DEF TypeOK, Current, Unlock, Record

LEMMA CurrentFacts ==
    ASSUME TypeOK, NEW s \in SpecId
    PROVE  /\ Current(s).state = record[s].state
           /\ Current(s).token # 0 => Current(s) = record[s] /\ record[s].expires > clock
           /\ record[s].expires > clock => Current(s) = record[s]
BY DEF TypeOK, Current, Unlock, Expired

\* While somebody counts on its claim the check finds the record as it is, and locked.
LEMMA TrustedCurrent ==
    ASSUME IInv, NEW a \in Actor, NEW s \in SpecId, Trusts(a, s)
    PROVE  /\ Current(s) = record[s]
           /\ Current(s).token # 0
           /\ Current(s).assignee = a
<1>1. /\ record[s].expires >= known[a][s].expires
      /\ known[a][s].expires > clock
      /\ record[s].assignee = a
  BY DEF IInv, ClaimsBacked, Trusts
<1>2. record[s].expires > clock /\ record[s].expires # 0
  BY <1>1 DEF IInv, TypeOK
<1>3. QED
  BY <1>1, <1>2, CurrentFacts DEF IInv, RowsWhole

-----------------------------------------------------------------------------
(***************************************************************************)
(* Type correctness.                                                       *)
(***************************************************************************)
LEMMA TypeInit == Init => TypeOK
BY DEF Init, TypeOK, Unclaimed, Absent

LEMMA TypeNext == TypeOK /\ [Next]_vars => TypeOK'
<1> SUFFICES ASSUME TypeOK, [Next]_vars PROVE TypeOK'
  OBVIOUS
<1>1. ASSUME NEW a \in Actor, NEW s \in SpecId, Call(a, s) PROVE TypeOK'
  <2>1. Current(s) \in Record
    BY CurrentType
  <2>2. ASSUME NEW b \in Actor, NEW k \in Nat, NEW ttl \in TTL, Lock(s, b, k, ttl)
        PROVE  record' \in [SpecId -> Record] /\ trail' \in [SpecId ->
                 [state : State \cup {Absent}, held : BOOLEAN]]
    BY <2>1, <2>2, TTLAssumption
       DEF TypeOK, Lock, Update, Audit, Record, State, Absent, New
  <2>3. ASSUME NEW ttl \in TTL, Claim(a, s, ttl) PROVE TypeOK'
    <3>1. issued' \in Nat /\ Lock(s, a, issued', ttl) /\ UNCHANGED <<clock, known>>
      BY <2>3 DEF Claim, TypeOK
    <3>2. QED
      BY <3>1, <2>2 DEF TypeOK, Record
  <2>4. ASSUME NEW ttl \in TTL, Heartbeat(a, s, ttl) PROVE TypeOK'
    <3>1. Current(s).token \in Nat /\ Lock(s, a, Current(s).token, ttl)
      BY <2>4, <2>1 DEF Heartbeat, Record
    <3> DEFINE m == Earlier(known[a][s].expires, clock + ttl)
    <3>2. m \in Nat
      BY TTLAssumption DEF TypeOK, Earlier
    <3>3. known' \in [Actor -> [SpecId -> [token : Nat, expires : Nat]]]
      <4>1. known' = [known EXCEPT ![a][s] = [token |-> known[a][s].token, expires |-> m]]
        BY <2>4 DEF Heartbeat
      <4> HIDE DEF m
      <4>2. QED
        BY <3>2, <4>1 DEF TypeOK
    <3>4. QED
      BY <3>1, <3>3, <2>2, <2>4 DEF TypeOK, Record, Heartbeat
  <2>5. CASE Release(a, s)
    BY <2>1, <2>5 DEF TypeOK, Release, Update, Audit, Forget, Unlock, Unclaimed, Record
  <2>6. ASSUME NEW b \in Actor, NEW ttl \in TTL, Reassign(a, s, b, ttl) PROVE TypeOK'
    <3>1. issued' \in Nat /\ Lock(s, b, issued', ttl) /\ Forget(a, s) /\ clock' = clock
      BY <2>6 DEF Reassign, TypeOK
    <3>2. QED
      BY <3>1, <2>2 DEF TypeOK, Record, Forget, Unclaimed
  <2>7. CASE Transition(a, s)
    BY <2>1, <2>7 DEF TypeOK, Transition, Update, Audit, Record
  <2>8. CASE Read(a, s)
    BY <2>8 DEF TypeOK, Read, Unclaimed
  <2>9. QED
    BY <1>1, <2>3, <2>4, <2>5, <2>6, <2>7, <2>8 DEF Call
<1>2. ASSUME NEW a \in Actor, Crash(a) PROVE TypeOK'
  BY <1>2 DEF TypeOK, Crash, Unclaimed
<1>3. CASE Tick
  BY <1>3 DEF TypeOK, Tick
<1>4. CASE UNCHANGED vars
  BY <1>4 DEF TypeOK, vars
<1>5. QED
  BY <1>1, <1>2, <1>3, <1>4 DEF Next

(***************************************************************************)
(* The records, the audit and what actors know stay well typed.            *)
(***************************************************************************)
THEOREM TypeCorrect == Spec => []TypeOK
BY TypeInit, TypeNext, PTL DEF Spec

-----------------------------------------------------------------------------
(***************************************************************************)
(* The inductive invariant.                                                *)
(***************************************************************************)
LEMMA IInit == Init => IInv
<1> SUFFICES ASSUME Init PROVE IInv
  OBVIOUS
<1>1. TypeOK
  BY TypeInit
<1>2. RowsWhole /\ ClaimsBacked
  BY DEF Init, RowsWhole, ClaimsBacked, Trusts, Unclaimed
<1>3. ASSUME NEW s \in SpecId
      PROVE  trail[s].state = record[s].state /\ (trail[s].held <=> record[s].token # 0)
  <2>1. trail[s] = [state |-> Absent, held |-> FALSE] /\ record[s].state = Absent
    BY DEF Init
  <2>2. record[s].token = 0
    BY DEF Init
  <2>3. QED
    BY <2>1, <2>2
<1>4. QED
  BY <1>1, <1>2, <1>3 DEF IInv, TrailTruthful

LEMMA RowsNext == TypeOK /\ RowsWhole /\ [Next]_vars => RowsWhole'
<1> SUFFICES ASSUME TypeOK, RowsWhole, [Next]_vars PROVE RowsWhole'
  OBVIOUS
<1>1. ASSUME NEW a \in Actor, NEW s \in SpecId, Call(a, s) PROVE RowsWhole'
  <2>1. Current(s) \in Record
    BY CurrentType
  <2>2. Current(s).token = 0 => Current(s).expires = 0 /\ Current(s).assignee = NoActor
    BY <2>1 DEF RowsWhole, Current, Unlock, TypeOK
  <2>3. ASSUME NEW b, NEW k \in Nat \ {0}, NEW ttl, Lock(s, b, k, ttl) PROVE RowsWhole'
    BY <2>3 DEF TypeOK, RowsWhole, Lock, Update
  <2>4. CASE \E ttl \in TTL : Claim(a, s, ttl)
    BY <2>3, <2>4 DEF Claim, TypeOK
  <2>5. CASE \E ttl \in TTL : Heartbeat(a, s, ttl)
    BY <2>1, <2>3, <2>5 DEF Heartbeat, Owns, Record
  <2>6. CASE Release(a, s)
    BY <2>1, <2>6 DEF TypeOK, RowsWhole, Release, Update, Unlock, Record
  <2>7. CASE \E b \in Actor, ttl \in TTL : Reassign(a, s, b, ttl)
    BY <2>3, <2>7 DEF Reassign, TypeOK
  <2>8. CASE Transition(a, s)
    BY <2>1, <2>2, <2>8 DEF TypeOK, RowsWhole, Transition, Update, Record
  <2>9. CASE Read(a, s)
    BY <2>9 DEF RowsWhole, Read
  <2>10. QED
    BY <1>1, <2>4, <2>5, <2>6, <2>7, <2>8, <2>9 DEF Call
<1>2. CASE UNCHANGED record
  BY <1>2 DEF RowsWhole
<1>3. QED
  BY <1>1, <1>2 DEF Next, Crash, Tick, vars

LEMMA TrailNext == TypeOK /\ TrailTruthful /\ [Next]_vars => TrailTruthful'
<1> SUFFICES ASSUME TypeOK, TrailTruthful, [Next]_vars PROVE TrailTruthful'
  OBVIOUS
<1>1. ASSUME NEW a \in Actor, NEW s \in SpecId, Call(a, s) PROVE TrailTruthful'
  <2>1. Current(s) \in Record
    BY CurrentType
  <2>2. ASSUME NEW r \in Record, NEW q, NEW h \in BOOLEAN, Update(s, r), Audit(s, q, h),
               q = r.state, h <=> r.token # 0
        PROVE  TrailTruthful'
    BY <2>2 DEF TypeOK, TrailTruthful, Update, Audit
  <2>3. ASSUME NEW b \in Actor, NEW k \in Nat \ {0}, NEW ttl \in TTL, Lock(s, b, k, ttl)
        PROVE  TrailTruthful'
    <3> DEFINE q == IF Current(s).state = Absent THEN New ELSE Current(s).state
               r == [state |-> q, assignee |-> b, token |-> k, expires |-> clock + ttl]
    <3>1. r \in Record
      BY <2>1, TTLAssumption DEF Record, TypeOK, State, New, Absent
    <3>2. Update(s, r) /\ Audit(s, q, TRUE)
      BY <2>3 DEF Lock
    <3> HIDE DEF r
    <3>3. r.state = q /\ r.token # 0
      BY DEF r
    <3>4. QED
      BY <3>1, <3>2, <3>3, <2>2
  <2>4. CASE \E ttl \in TTL : Claim(a, s, ttl)
    BY <2>3, <2>4 DEF Claim, TypeOK
  <2>5. CASE \E ttl \in TTL : Heartbeat(a, s, ttl)
    BY <2>1, <2>3, <2>5 DEF Heartbeat, Owns, Record
  <2>6. CASE Release(a, s)
    <3>1. Unlock(Current(s)) \in Record
      BY <2>1 DEF Record, Unlock
    <3>2. Unlock(Current(s)).state = Current(s).state /\ Unlock(Current(s)).token = 0
      BY <2>1 DEF Record, Unlock
    <3>3. QED
      BY <2>2, <2>6, <3>1, <3>2 DEF Release
  <2>7. CASE \E b \in Actor, ttl \in TTL : Reassign(a, s, b, ttl)
    BY <2>3, <2>7 DEF Reassign, TypeOK
  <2>8. CASE Transition(a, s)
    <3> DEFINE to == Current(s).state + 1
               r == [Current(s) EXCEPT !.state = to]
    <3>1. Update(s, r) /\ Audit(s, to, Current(s).token # 0) /\ to \in State
      BY <2>8 DEF Transition
    <3>2. r \in Record /\ r.state = to /\ r.token = Current(s).token
      BY <2>1, <3>1 DEF Record
    <3> HIDE DEF r
    <3>3. QED
      BY <2>2, <3>1, <3>2
  <2>9. CASE Read(a, s)
    BY <2>9 DEF TrailTruthful, Read
  <2>10. QED
    BY <1>1, <2>4, <2>5, <2>6, <2>7, <2>8, <2>9 DEF Call
<1>2. CASE UNCHANGED <<record, trail>>
  BY <1>2 DEF TrailTruthful
<1>3. QED
  BY <1>1, <1>2 DEF Next, Crash, Tick, vars

LEMMA ClaimsNext == IInv /\ [Next]_vars => ClaimsBacked'
<1> SUFFICES ASSUME IInv, [Next]_vars PROVE ClaimsBacked'
  OBVIOUS
<1> USE DEF IInv
<1>1. ASSUME NEW a \in Actor, NEW s \in SpecId, Call(a, s) PROVE ClaimsBacked'
  <2>1. Current(s) \in Record /\ clock' = clock
    BY <1>1, CurrentType
       DEF Call, Claim, Heartbeat, Release, Reassign, Transition, Read
  <2> SUFFICES ASSUME NEW b \in Actor, NEW t \in SpecId, Trusts(b, t)'
               PROVE  /\ record'[t].assignee = b
                      /\ record'[t].token = known'[b][t].token
                      /\ record'[t].expires >= known'[b][t].expires
    BY DEF ClaimsBacked
  \* What b knows and the record of t are as before, in most cases.
  <2>2. CASE known'[b][t] = known[b][t] /\ record'[t] = record[t]
    BY <2>1, <2>2 DEF ClaimsBacked, Trusts
  <2>3. CASE known'[b][t] = known[b][t] /\ record'[t] # record[t]
    <3>1. Trusts(b, t)
      BY <2>1, <2>3 DEF Trusts
    <3>2. t = s
      BY <1>1, <2>3 DEF TypeOK, Call, Claim, Heartbeat, Release, Reassign, Transition, Read,
           Lock, Update
    <3>3. /\ Current(s) = record[s] /\ Current(s).token # 0 /\ Current(s).assignee = b
          /\ record[s].token = known[b][s].token
          /\ record[s].expires >= known[b][s].expires
      BY <3>1, <3>2, TrustedCurrent DEF ClaimsBacked
    <3>4. CASE \E ttl \in TTL : Heartbeat(a, s, ttl)
      <4>1. PICK ttl \in TTL : Heartbeat(a, s, ttl)
        BY <3>4
      <4>2. a = b
        BY <3>3, <4>1 DEF Heartbeat, Owns
      <4>3. record'[s].assignee = b /\ record'[s].token = known[b][s].token
        BY <3>3, <4>1, <4>2 DEF TypeOK, Heartbeat, Lock, Update
      <4>4. record'[s].expires = clock + ttl
        BY <4>1 DEF TypeOK, Heartbeat, Lock, Update
      <4>5. known'[b][s].expires = Earlier(known[b][s].expires, clock + ttl)
        BY <4>1, <4>2 DEF TypeOK, Heartbeat
      <4>6. Earlier(known[b][s].expires, clock + ttl) <= clock + ttl
        BY TTLAssumption DEF TypeOK, Earlier
      <4>7. QED
        BY <2>3, <3>2, <4>3, <4>4, <4>5, <4>6, TTLAssumption DEF TypeOK
    <3>5. CASE Release(a, s) \/ \E c \in Actor, ttl \in TTL : Reassign(a, s, c, ttl)
      <4>1. a = b
        BY <3>3, <3>5 DEF Release, Reassign, Owns
      <4>2. Forget(b, s)
        BY <3>5, <4>1 DEF Release, Reassign
      <4>3. known'[b][t] = Unclaimed
        BY <3>2, <4>2 DEF TypeOK, Forget
      <4>4. QED
        BY <2>1, <4>3 DEF Trusts, Unclaimed, TypeOK
    <3>6. CASE Transition(a, s)
      <4>1. record'[s] = [record[s] EXCEPT !.state = @ + 1]
        BY <3>3, <3>6 DEF TypeOK, Transition, Update
      <4>2. QED
        BY <2>3, <3>2, <3>3, <4>1 DEF TypeOK
    <3>7. QED
      BY <1>1, <2>3, <3>2, <3>3, <3>4, <3>5, <3>6 DEF Call, Claim, Read
  <2>4. CASE known'[b][t] # known[b][t]
    <3>1. b = a /\ t = s
      <4>1. known' = known \/ \E k : known' = [known EXCEPT ![a][s] = k]
        BY <1>1 DEF Call, Claim, Heartbeat, Release, Reassign, Transition, Read, Forget
      <4>2. QED
        BY <2>4, <4>1 DEF TypeOK
    <3>2. CASE Read(a, s)
      BY <2>1, <3>1, <3>2 DEF TypeOK, Read, Trusts, Unclaimed
    <3>3. CASE \E ttl \in TTL : Heartbeat(a, s, ttl)
      <4>1. PICK ttl \in TTL : Heartbeat(a, s, ttl)
        BY <3>3
      <4> DEFINE m == Earlier(known[a][s].expires, clock + ttl)
      <4>2. /\ record'[s].assignee = a
            /\ record'[s].token = known[a][s].token
            /\ record'[s].expires = clock + ttl
        BY <4>1 DEF TypeOK, Heartbeat, Lock, Update, Owns
      <4>3. m <= clock + ttl /\ m \in Nat
        BY TTLAssumption DEF TypeOK, Earlier
      <4>4. known' = [known EXCEPT ![a][s] = [token |-> known[a][s].token, expires |-> m]]
        BY <4>1 DEF Heartbeat
      <4> HIDE DEF m
      <4>5. known'[a][s].expires = m /\ known'[a][s].token = known[a][s].token
        BY <4>4 DEF TypeOK
      <4>6. QED
        BY <3>1, <4>2, <4>3, <4>5, TTLAssumption DEF TypeOK
    <3>4. CASE Release(a, s) \/ \E c \in Actor, ttl \in TTL : Reassign(a, s, c, ttl)
      <4>1. known'[b][t] = Unclaimed
        BY <3>1, <3>4, ZenonT(60) DEF TypeOK, Release, Reassign, Forget
      <4>2. QED
        BY <2>1, <4>1 DEF Trusts, Unclaimed, TypeOK
    <3>5. QED
      BY <1>1, <2>4, <3>2, <3>3, <3>4 DEF Call, Claim, Transition
  <2>5. QED
    BY <2>2, <2>3, <2>4
<1>2. ASSUME NEW a \in Actor, Crash(a) PROVE ClaimsBacked'
  BY <1>2 DEF TypeOK, ClaimsBacked, Crash, Trusts, Unclaimed
<1>3. CASE Tick
  BY <1>3 DEF TypeOK, ClaimsBacked, Tick, Trusts
<1>4. CASE UNCHANGED vars
  BY <1>4 DEF ClaimsBacked, Trusts, vars
<1>5. QED
  BY <1>1, <1>2, <1>3, <1>4 DEF Next

LEMMA INext == IInv /\ [Next]_vars => IInv'
BY TypeNext, RowsNext, TrailNext, ClaimsNext DEF IInv

\* Every state of the registry is as its invariant says.
THEOREM Invariance == Spec => []IInv
BY IInit, INext, PTL DEF Spec

-----------------------------------------------------------------------------
(***************************************************************************)
(* Whoever counts on a claim has it, so two actors never count on one.     *)
(***************************************************************************)
LEMMA BackedExclusive == ClaimsBacked => OneAssignee
BY DEF ClaimsBacked, OneAssignee

THEOREM SingleAssignee == Spec => [](OneAssignee /\ ClaimsBacked)
BY Invariance, BackedExclusive, PTL DEF IInv

(***************************************************************************)
(* The audit rows of a spec tell its state and whether it is held.         *)
(***************************************************************************)
THEOREM TrailTells == Spec => []TrailTruthful
BY Invariance, PTL DEF IInv

-----------------------------------------------------------------------------
(***************************************************************************)
(* The chain of states is walked one step at a time, and in_edit and       *)
(* in_execution are entered only under a lock that has not expired.        *)
(***************************************************************************)
LEMMA OwnedNext == IInv /\ [Next]_vars => \A s \in SpecId : EntersUnderLock(s)
<1> SUFFICES ASSUME IInv, Next, NEW t \in SpecId, record'[t].state # record[t].state
             PROVE  EntersUnderLock(t)
  BY DEF vars, EntersUnderLock
<1> USE DEF IInv
<1>1. PICK a \in Actor, s \in SpecId : Call(a, s)
  BY DEF Next, Crash, Tick
<1>2. /\ Current(s) \in Record
      /\ Current(s).state = record[s].state
      /\ Current(s).token # 0 => Current(s) = record[s] /\ record[s].expires > clock
  BY CurrentType, CurrentFacts
<1>3. t = s
  BY <1>1 DEF TypeOK, Call, Claim, Heartbeat, Release, Reassign, Transition, Read, Lock, Update
<1>4. ASSUME NEW b, NEW k, NEW ttl, Lock(s, b, k, ttl) PROVE EntersUnderLock(t)
  <2>1. record'[s].state = IF record[s].state = Absent THEN New ELSE record[s].state
    BY <1>2, <1>4 DEF TypeOK, Lock, Update
  <2>2. QED
    BY <1>3, <2>1 DEF EntersUnderLock, Absent, New, OwnerOnly
<1>5. CASE Release(a, s)
  BY <1>2, <1>3, <1>5 DEF TypeOK, Release, Update, Unlock, EntersUnderLock, Record
<1>6. CASE Transition(a, s)
  <2>1. /\ record'[s].state = record[s].state + 1
        /\ record'[s].token = Current(s).token
        /\ record[s].state + 1 \in OwnerOnly => Current(s).token # 0
    BY <1>2, <1>6 DEF TypeOK, Transition, Update, Owns, Record
  <2>2. QED
    BY <1>2, <1>3, <2>1 DEF EntersUnderLock
<1>7. QED
  BY <1>1, <1>4, <1>5, <1>6 DEF Call, Claim, Heartbeat, Reassign, Read

\* in_edit and in_execution are entered under a lock that has not expired (store.py
\* transition_spec).
THEOREM StatesOwned == Spec => OwnedStates
BY Invariance, OwnedNext, PTL DEF Spec, OwnedStates

(***************************************************************************)
(* An unexpired lock changes hands only in a call with its token.          *)
(***************************************************************************)
LEMMA KeptNext == IInv /\ [Next]_vars => \A s \in SpecId : TakenByHolder(s)
<1> SUFFICES ASSUME IInv, Next, NEW t \in SpecId, record[t].token # 0,
                    record'[t].token # record[t].token, record[t].expires > clock
             PROVE  \E a \in Actor : /\ record[t].assignee = a
                                     /\ known[a][t].token = record[t].token
  BY DEF vars, TakenByHolder, IInv, TypeOK
<1> USE DEF IInv
<1>1. PICK a \in Actor, s \in SpecId : Call(a, s)
  BY DEF Next, Crash, Tick
<1>2. t = s
  BY <1>1 DEF TypeOK, Call, Claim, Heartbeat, Release, Reassign, Transition, Read, Lock, Update
<1>3. Current(s) = record[s]
  BY <1>2, CurrentFacts
<1>4. CASE Owns(a, s)
  BY <1>2, <1>3, <1>4 DEF Owns
<1>5. CASE Transition(a, s)
  BY <1>2, <1>3, <1>5 DEF TypeOK, Transition, Update
<1>6. QED
  BY <1>1, <1>2, <1>3, <1>4, <1>5 DEF Call, Claim, Heartbeat, Release, Reassign, Read

\* Only its holder gives an unexpired lock away (store.py claim_spec, release_spec,
\* reassign_spec).
THEOREM LocksKept == Spec => KeptByHolder
BY Invariance, KeptNext, PTL DEF Spec, KeptByHolder

-----------------------------------------------------------------------------
(***************************************************************************)
(* The registry implements the lease service.                              *)
(***************************************************************************)
LEMMA RefineInit == Init => Lease!Init
BY DEF Init, Holders, Trusts, Unclaimed, Lease!Init

LEMMA RefineNext == IInv /\ [Next]_vars => [Lease!Next]_Holders
<1> SUFFICES ASSUME IInv, [Next]_vars PROVE Lease!Next \/ UNCHANGED Holders
  OBVIOUS
<1> USE DEF IInv
<1>1. Holders' \in [SpecId -> SUBSET Actor] /\ Holders \in [SpecId -> SUBSET Actor]
  BY DEF Holders
\* A step after which no actor counts on more than before is a lapse.
<1>2. ASSUME \A a \in Actor, s \in SpecId : Trusts(a, s)' => Trusts(a, s)
      PROVE  Lease!Next
  BY <1>1, <1>2 DEF Holders, Lease!Next, Lease!Lapse
<1>3. CASE Tick
  BY <1>2, <1>3 DEF TypeOK, Tick, Trusts
<1>4. ASSUME NEW a \in Actor, Crash(a) PROVE Lease!Next
  BY <1>2, <1>4 DEF TypeOK, Crash, Trusts, Unclaimed
<1>5. ASSUME NEW a \in Actor, NEW s \in SpecId, Call(a, s)
      PROVE  Lease!Next \/ UNCHANGED Holders
  <2>1. CASE UNCHANGED <<clock, known>>
    BY <2>1 DEF Holders, Trusts
  <2>2. CASE \E ttl \in TTL : Heartbeat(a, s, ttl)
    <3>1. PICK ttl \in TTL : Heartbeat(a, s, ttl)
      BY <2>2
    <3> DEFINE m == Earlier(known[a][s].expires, clock + ttl)
    <3>2. m <= known[a][s].expires /\ m \in Nat
      BY TTLAssumption DEF TypeOK, Earlier
    <3>3. /\ known' = [known EXCEPT ![a][s] = [token |-> known[a][s].token, expires |-> m]]
          /\ clock' = clock
      BY <3>1 DEF Heartbeat
    <3> HIDE DEF m
    <3>4. QED
      BY <1>2, <3>2, <3>3 DEF TypeOK, Trusts
  <2>3. CASE Forget(a, s) /\ clock' = clock
    BY <1>2, <2>3 DEF TypeOK, Forget, Trusts, Unclaimed
  <2>4. CASE Read(a, s)
    <3>1. CASE record[s].assignee = a /\ record[s].expires > clock
      <4>1. \A b \in Actor : Trusts(b, s) => b = a
        BY <3>1 DEF ClaimsBacked
      <4>2. \A b \in Actor, t \in SpecId :
               Trusts(b, t)' <=> IF t = s THEN b = a ELSE Trusts(b, t)
        BY <2>4, <3>1, <4>1 DEF TypeOK, Read, Trusts
      <4>3. \A t \in SpecId : Holders'[t] = IF t = s THEN {a} ELSE Holders[t]
        BY <4>2 DEF Holders
      <4>4. Holders' = [Holders EXCEPT ![s] = {a}]
        BY <1>1, <4>3
      <4>5. Holders[s] \subseteq {a}
        BY <4>1 DEF Holders
      <4>6. QED
        BY <4>4, <4>5 DEF Lease!Next, Lease!Grant
    <3>2. CASE ~(record[s].assignee = a /\ record[s].expires > clock)
      BY <1>2, <2>4, <3>2 DEF TypeOK, Read, Trusts, Unclaimed
    <3>3. QED
      BY <3>1, <3>2
  <2>5. QED
    BY <1>5, <2>1, <2>2, <2>3, <2>4 DEF Call, Claim, Release, Reassign, Transition
<1>6. CASE UNCHANGED vars
  BY <1>6 DEF Holders, Trusts, vars
<1>7. QED
  BY <1>3, <1>4, <1>5, <1>6 DEF Next

\* The registry implements the lease service: whoever counts on a claim holds the lease.
THEOREM Refinement == Spec => ImplementsLeaseService
BY RefineInit, RefineNext, Invariance, PTL DEF Spec, ImplementsLeaseService, Lease!Spec

-----------------------------------------------------------------------------
(***************************************************************************)
(* The intake.                                                             *)
(***************************************************************************)
\* No rule that rewrites a payload takes away the approver it names.
RulesKeepApprovers ==
    \A d \in Delivery :
        IntentOf(d).intent = "spec.approve" /\ IntentOf(d).payload.approver \notin Blank =>
            Transformed(d.source, IntentOf(d).payload).approver \notin Blank

\* What a delivery can put into a row.
Intents == {IntentOf(d).intent : d \in Delivery}
Payloads == {Transformed(d.source, IntentOf(d).payload) : d \in Delivery}
Commands == {Command(i, p) : i \in Intents, p \in Payloads}

Checks == [request : Delivery, ask : {IntentOf(d) : d \in Delivery}]
Rows == [via : {d.via : d \in Delivery}, source : {d.source : d \in Delivery},
         intent : Intents, payload : Payloads, command : Commands,
         reply : {d.reply : d \in Delivery}, created : Nat,
         status : {"queued", "running"} \cup Outcome, asked : SUBSET Commands]
Hands == [row : Nat, at : {"idle", "claimed", "made", "ran", "finished"},
          outcome : {None} \cup Outcome]
Answers == [to : DOMAIN Providers, status : {"queued", "running"} \cup Outcome,
            result : {"ok", "transient", "permanent"}]

IntakeTypes ==
    /\ now \in Nat /\ mode \in {"db", "memory"}
    /\ hits \in [Caller -> SUBSET Nat] /\ admitted \in [Caller -> Seq(Nat)]
    /\ checked \in {None} \cup Checks
    /\ rows \in Seq(Rows)
    /\ worker \in Hands
    /\ specs \in [Slug -> Nat]
    /\ told \in Seq(Answers)

\* The requests of a caller that came in a window of the clock, and in a span of time.
InWindow(c, w) == {n \in DOMAIN admitted[c] : admitted[c][n] \div RateWindow = w}
InSpan(c, a) == {n \in DOMAIN admitted[c] : admitted[c][n] \in a..(a + RateWindow - 1)}

\* The limiter still has every request that counts, so it lets no window overflow.
LimitKept(c) ==
    /\ hits[c] \subseteq DOMAIN admitted[c]
    /\ \A n \in DOMAIN admitted[c] :
         admitted[c][n] <= now /\ (StillCounts(admitted[c][n]) => n \in hits[c])
    /\ mode = "db" => \A w \in Nat : Cardinality(InWindow(c, w)) <= RateMax
    /\ mode = "memory" => \A a \in Nat : Cardinality(InSpan(c, a)) <= RateMax

\* A request that waits for its row has passed the checks.
CheckedRightly ==
    checked # None =>
        LET d == checked.request
            r == checked.ask
        IN  Valid(d) /\ r = IntentOf(d) /\ r \notin {Nothing, Error} /\ Allowed(d, r.intent)

\* A row is what may be asked for, and asks for what its requesters asked.
Proper(x) ==
    /\ x.command = Command(x.intent, x.payload)
    /\ x.asked = {x.command}
    /\ x.via \in Webhook => x.intent \in WEBHOOK_ALLOWED_INTENTS
    /\ RulesKeepApprovers /\ EnforceApprover /\ x.intent = "spec.approve" =>
         x.command.approver \notin Blank
    /\ LintRejects /\ x.intent = "workflow.intake" => x.command.title \notin IllTitles
    /\ x.intent \in Creating =>
         /\ x.command.repos # {}
         /\ Cardinality(x.command.repos) <= Cardinality(Refs(x.payload))
         /\ x.command.slug \in Slug
    /\ "slug" \in DOMAIN x.command => x.command.slug \in Slug

MadeIt(t) == rows[t].intent \in Creating => specs[rows[t].command.slug] = t

RowsRight == \A t \in Row : Proper(rows[t]) /\ (rows[t].status = "succeeded" => MadeIt(t))

\* What the worker has in its hand is on record as running until it writes the outcome.
HandInStep ==
    /\ worker.at # "idle" => worker.row \in Row
    /\ worker.at \in {"claimed", "made", "ran"} => InHand.status = "running"
    /\ worker.at = "made" => InHand.intent \in Creating /\ MadeIt(worker.row)
    /\ worker.at = "ran" => worker.outcome \in Outcome
    /\ worker.at = "ran" /\ worker.outcome = "succeeded" => MadeIt(worker.row)

\* What the provider has been given so far.
ToldSoFar ==
    /\ worker.at # "finished" => told = <<>>
    /\ \A i \in DOMAIN told :
         /\ told[i].status = InHand.status
         /\ told[i].to = Provider(InHand.reply)
         /\ i <= MaxAttempts(told[i].to)
         /\ i < Len(told) => told[i].result = "transient"

\* The inductive invariant of the intake.
IntakeInv ==
    /\ IntakeTypes
    /\ \A c \in Caller : LimitKept(c)
    /\ CheckedRightly /\ RowsRight
    /\ HandInStep /\ ToldSoFar

-----------------------------------------------------------------------------
(***************************************************************************)
(* Windows of the clock.                                                   *)
(***************************************************************************)
LEMMA Quotient ==
    ASSUME NEW x \in Nat, NEW w \in Nat \ {0}
    PROVE  x \div w \in Nat /\ w * (x \div w) <= x /\ x < w * (x \div w) + w
PROOF BY SMTT(20)

LEMMA Factor ==
    ASSUME NEW p \in Nat, NEW q \in Nat, NEW w \in Nat \ {0}, w * p < w * q + w
    PROVE  p <= q
PROOF
<1>1. SUFFICES ASSUME p > q PROVE FALSE
  OBVIOUS
<1>2. PICK k \in Nat : p = q + 1 + k
  BY <1>1, p - q - 1 \in Nat
<1>3. w * p = w * q + w + w * k /\ w * k >= 0
  BY <1>2
<1> QED BY <1>3

LEMMA QuotientsGrow ==
    ASSUME NEW x \in Nat, NEW y \in Nat, NEW w \in Nat \ {0}, x <= y
    PROVE  x \div w <= y \div w
PROOF
<1>1. w * (x \div w) <= x /\ y < w * (y \div w) + w /\ x \div w \in Nat /\ y \div w \in Nat
  BY Quotient
<1>2. w * (x \div w) \in Nat /\ w * (y \div w) \in Nat
  BY <1>1
<1>3. w * (x \div w) < w * (y \div w) + w
  BY <1>1, <1>2
<1> QED BY <1>1, <1>3, Factor

LEMMA NextQuotient ==
    ASSUME NEW x \in Nat, NEW w \in Nat \ {0}
    PROVE  (x + w) \div w = x \div w + 1
PROOF
<1>1. w * (x \div w) <= x /\ x < w * (x \div w) + w /\ x \div w \in Nat
  BY Quotient
<1>2. /\ w * ((x + w) \div w) <= x + w /\ x + w < w * ((x + w) \div w) + w
      /\ (x + w) \div w \in Nat
  BY Quotient, x + w \in Nat
<1> DEFINE p == x \div w
           q == (x + w) \div w
<1>3. w * (p + 1) = w * p + w /\ w * p \in Nat /\ w * q \in Nat /\ p + 1 \in Nat
  BY <1>1, <1>2
<1>4. w * q < w * (p + 1) + w /\ w * (p + 1) < w * q + w
  BY <1>1, <1>2, <1>3
<1>5. q <= p + 1 /\ p + 1 <= q
  <2> HIDE DEF p, q
  <2>1. p + 1 \in Nat /\ q \in Nat
    BY <1>1, <1>2 DEF p, q
  <2> QED BY <2>1, <1>4, Factor
<1> QED BY <1>1, <1>2, <1>5

-----------------------------------------------------------------------------
(***************************************************************************)
(* The rate limit.                                                         *)
(***************************************************************************)
LEMMA Names ==
    /\ Outcome = {"failed", "completed_with_findings", "succeeded"}
    /\ Creating = {"workflow.intake", "spec.create"}
    /\ Idle \in Hands /\ Idle.at = "idle"
PROOF BY DEF Outcome, Creating, Idle, Hands, NoRow

LEMMA StillLater ==
    ASSUME NEW t \in Nat, NEW a \in Nat, NEW b \in Nat, NEW w \in Nat, a <= b, t >= b - w
    PROVE  t >= a - w
PROOF OBVIOUS

\* What counts in the next second counts now.
LEMMA CountsBefore ==
    ASSUME IntakeInv, NEW time \in Nat, time <= now, now' \in Nat, now <= now', UNCHANGED mode,
           StillCounts(time)'
    PROVE  StillCounts(time)
PROOF
<1>1. now \in Nat /\ RateWindow \in Nat \ {0}
  BY LimitAssumption DEF IntakeInv, IntakeTypes
<1>2. CASE mode = "db"
  <2>1. time \div RateWindow = now' \div RateWindow
    BY <1>2 DEF StillCounts
  <2>2. /\ time \div RateWindow <= now \div RateWindow /\ now \div RateWindow <= now' \div RateWindow
        /\ time \div RateWindow \in Nat /\ now \div RateWindow \in Nat
        /\ now' \div RateWindow \in Nat
    BY <1>1, QuotientsGrow, Quotient
  <2>3. time \div RateWindow = now \div RateWindow
    BY <2>1, <2>2
  <2> QED BY <1>2, <2>3 DEF StillCounts
<1>3. CASE mode # "db"
  <2>1. ~(mode' = "db")
    BY <1>3
  <2>3. IF mode' = "db" THEN time \div RateWindow = now' \div RateWindow
        ELSE time >= now' - RateWindow
    BY Zenon DEF StillCounts
  <2>4. time >= now' - RateWindow
    BY <2>1, <2>3
  <2>2. time >= now - RateWindow
    BY <1>1, <2>4, StillLater
  <2> QED BY <1>3, <2>2 DEF StillCounts
<1> QED BY <1>2, <1>3

\* A step that leaves the limiter alone.
LEMMA LimitStays ==
    ASSUME IntakeInv, UNCHANGED <<now, mode, hits, admitted>>
    PROVE  \A c \in Caller : LimitKept(c)'
PROOF
<1>1. ASSUME NEW c \in Caller PROVE LimitKept(c)'
  <2>1. LimitKept(c)
    BY DEF IntakeInv
  <2> QED BY <2>1 DEF LimitKept, InWindow, InSpan, StillCounts
<1> QED BY <1>1

\* A request that is let in.
LEMMA OneMore ==
    ASSUME IntakeInv, NEW c \in Caller, Cardinality(Counted(c)) < RateMax,
           UNCHANGED <<now, mode>>,
           hits'[c] = Counted(c) \cup {Len(admitted[c]) + 1},
           admitted'[c] = Append(admitted[c], now)
    PROVE  LimitKept(c)'
PROOF
<1> DEFINE new == Len(admitted[c]) + 1
<1>1. /\ now \in Nat /\ RateWindow \in Nat \ {0} /\ RateMax \in Nat
      /\ admitted[c] \in Seq(Nat) /\ hits[c] \in SUBSET Nat /\ LimitKept(c)
  BY LimitAssumption DEF IntakeInv, IntakeTypes
<1>2. /\ Len(admitted[c]) \in Nat /\ DOMAIN admitted[c] = 1..Len(admitted[c])
      /\ admitted'[c] \in Seq(Nat) /\ DOMAIN admitted'[c] = DOMAIN admitted[c] \cup {new}
      /\ \A n \in DOMAIN admitted[c] : admitted'[c][n] = admitted[c][n] /\ admitted[c][n] \in Nat
      /\ admitted'[c][new] = now /\ new \notin DOMAIN admitted[c]
  <2>1. Len(admitted[c]) \in Nat /\ DOMAIN admitted[c] = 1..Len(admitted[c])
    BY <1>1, LenProperties
  <2>2. /\ admitted'[c] \in Seq(Nat) /\ Len(admitted'[c]) = new
        /\ \A n \in 1..Len(admitted[c]) : admitted'[c][n] = admitted[c][n]
        /\ admitted'[c][new] = now
    BY <1>1, AppendProperties
  <2>3. DOMAIN admitted'[c] = 1..new
    BY <2>2, LenProperties
  <2>4. \A n \in 1..Len(admitted[c]) : admitted[c][n] \in Nat
    BY <1>1, <2>1, ElementOfSeq
  <2> QED BY <2>1, <2>2, <2>3, <2>4
<1>3. IsFiniteSet(Counted(c)) /\ Cardinality(Counted(c)) \in Nat
  <2>1. Counted(c) \in SUBSET DOMAIN admitted[c]
    BY <1>1 DEF Counted, LimitKept
  <2>2. IsFiniteSet(DOMAIN admitted[c])
    BY <1>2, FS_Interval, SMTT(30)
  <2> QED BY <2>1, <2>2, FS_Subset, FS_CardinalityType
<1>4. hits'[c] \subseteq DOMAIN admitted'[c]
  BY <1>1, <1>2 DEF Counted, LimitKept
<1>5. ASSUME NEW n \in DOMAIN admitted'[c]
      PROVE  (admitted[c][n] <= now /\ (StillCounts(admitted[c][n]) => n \in hits[c]))'
  <2>1. CASE n = new
    <3>1. admitted'[c][n] <= now' /\ n \in hits'[c]
      BY <1>1, <1>2, <2>1
    <3> QED BY <3>1
  <2>2. CASE n # new
    <3>1. /\ n \in DOMAIN admitted[c] /\ admitted'[c][n] = admitted[c][n]
          /\ admitted[c][n] \in Nat
      BY <1>2, <1>5, <2>2
    <3>2. admitted[c][n] <= now /\ (StillCounts(admitted[c][n]) => n \in hits[c])
      BY <1>1, <3>1 DEF LimitKept
    <3>3. StillCounts(admitted[c][n])' => StillCounts(admitted[c][n])
      BY <3>1 DEF StillCounts
    <3>4. StillCounts(admitted[c][n]) => n \in Counted(c)
      BY <3>2 DEF Counted
    <3>5. admitted'[c][n] <= now' /\ (StillCounts(admitted[c][n])' => n \in hits'[c])
      BY <3>1, <3>2, <3>3, <3>4
    <3> QED BY <3>5
  <2> QED BY <2>1, <2>2
\* The requests of one window or span are among those that count, or the new one is not of it.
<1>6. ASSUME NEW S \in SUBSET Counted(c)
      PROVE  Cardinality(S \cup {new}) <= RateMax
  <2>1. IsFiniteSet(S) /\ Cardinality(S) \in Nat /\ Cardinality(S) <= Cardinality(Counted(c))
    BY <1>3, FS_Subset, FS_CardinalityType
  <2>2. Cardinality(S \cup {new}) <= Cardinality(S) + 1 /\ Cardinality(S \cup {new}) \in Nat
    <3> HIDE DEF new
    <3>1. /\ IsFiniteSet(S \cup {new})
          /\ Cardinality(S \cup {new}) = IF new \in S THEN Cardinality(S) ELSE Cardinality(S) + 1
      BY <2>1, FS_AddElement
    <3> QED BY <2>1, <3>1
  <2> QED BY <1>1, <1>3, <2>1, <2>2
<1>7. ASSUME mode = "db", NEW w \in Nat PROVE Cardinality(InWindow(c, w)') <= RateMax
  <2>1. CASE w = now \div RateWindow
    <3>1. InWindow(c, w)' = InWindow(c, w) \cup {new}
      BY <1>2, <2>1 DEF InWindow
    <3>2. InWindow(c, w) \in SUBSET Counted(c)
      BY <1>1, <1>2, <1>7, <2>1 DEF InWindow, Counted, StillCounts, LimitKept
    <3> QED BY <1>6, <3>1, <3>2
  <2>2. CASE w # now \div RateWindow
    <3>1. InWindow(c, w)' = InWindow(c, w)
      BY <1>2, <2>2 DEF InWindow
    <3> QED BY <1>1, <1>7, <3>1 DEF LimitKept
  <2> QED BY <2>1, <2>2
<1>8. ASSUME mode = "memory", NEW a \in Nat PROVE Cardinality(InSpan(c, a)') <= RateMax
  <2>1. CASE now \in a..(a + RateWindow - 1)
    <3>1. InSpan(c, a)' = InSpan(c, a) \cup {new}
      BY <1>2, <2>1 DEF InSpan
    <3>2. InSpan(c, a) \in SUBSET Counted(c)
      <4> SUFFICES ASSUME NEW n \in InSpan(c, a) PROVE n \in Counted(c)
        OBVIOUS
      <4>1. n \in DOMAIN admitted[c] /\ admitted[c][n] \in Nat /\ admitted[c][n] >= a
        BY <1>2 DEF InSpan
      <4>2. StillCounts(admitted[c][n])
        BY <1>1, <1>8, <2>1, <4>1 DEF StillCounts
      <4> QED BY <1>1, <4>1, <4>2 DEF Counted, LimitKept
    <3> QED BY <1>6, <3>1, <3>2
  <2>2. CASE now \notin a..(a + RateWindow - 1)
    <3>1. InSpan(c, a)' = InSpan(c, a)
      BY <1>2, <2>2 DEF InSpan
    <3> QED BY <1>1, <1>8, <3>1 DEF LimitKept
  <2> QED BY <2>1, <2>2
<1> HIDE DEF new
<1>9. (mode = "db" => \A w \in Nat : Cardinality(InWindow(c, w)) <= RateMax)'
  BY <1>7
<1>10. (mode = "memory" => \A a \in Nat : Cardinality(InSpan(c, a)) <= RateMax)'
  BY <1>8
<1> QED BY <1>4, <1>5, <1>9, <1>10 DEF LimitKept

LEMMA LimitStep ==
    ASSUME IntakeInv, NEW d \in Delivery, Limit(d), UNCHANGED <<now, mode>>
    PROVE  /\ hits' \in [Caller -> SUBSET Nat] /\ admitted' \in [Caller -> Seq(Nat)]
           /\ \A c \in Caller : LimitKept(c)'
PROOF
<1>1. CASE Limited(d) /\ WithinLimit(d)
  <2> DEFINE e == d.caller
  <2>1. /\ e \in Caller /\ Cardinality(Counted(e)) < RateMax
        /\ hits' = [hits EXCEPT ![e] = Counted(e) \cup {Len(admitted[e]) + 1}]
        /\ admitted' = [admitted EXCEPT ![e] = Append(admitted[e], now)]
    BY <1>1 DEF Limit, Limited, WithinLimit
  <2>2. /\ hits \in [Caller -> SUBSET Nat] /\ admitted \in [Caller -> Seq(Nat)] /\ now \in Nat
    BY DEF IntakeInv, IntakeTypes
  <2> HIDE DEF e
  <2>3. Counted(e) \in SUBSET Nat /\ Len(admitted[e]) + 1 \in Nat
        /\ Append(admitted[e], now) \in Seq(Nat)
    BY <2>1, <2>2, LenProperties, AppendProperties DEF Counted
  <2>4. hits' \in [Caller -> SUBSET Nat] /\ admitted' \in [Caller -> Seq(Nat)]
    BY <2>1, <2>2, <2>3
  <2>5. LimitKept(e)'
    BY <2>1, <2>2, OneMore
  <2>6. ASSUME NEW c \in Caller, c # e PROVE LimitKept(c)'
    <3>1. hits'[c] = hits[c] /\ admitted'[c] = admitted[c] /\ LimitKept(c)
      BY <2>1, <2>2, <2>6 DEF IntakeInv
    <3> QED BY <3>1 DEF LimitKept, InWindow, InSpan, StillCounts
  <2> QED BY <2>4, <2>5, <2>6
<1>2. CASE ~(Limited(d) /\ WithinLimit(d))
  <2>1. UNCHANGED <<hits, admitted>>
    BY <1>2 DEF Limit
  <2> QED BY <2>1, LimitStays DEF IntakeInv, IntakeTypes
<1> QED BY <1>1, <1>2

-----------------------------------------------------------------------------
(***************************************************************************)
(* Rows.                                                                   *)
(***************************************************************************)
LEMMA HandFacts ==
    ASSUME IntakeInv
    PROVE  /\ rows \in Seq(Rows) /\ Len(rows) \in Nat /\ DOMAIN rows = Row /\ Row = 1..Len(rows)
           /\ \A t \in Row : rows[t] \in Rows /\ t \in Nat /\ t # 0
           /\ \A t \in Row : Proper(rows[t]) /\ (rows[t].status = "succeeded" => MadeIt(t))
           /\ worker \in Hands /\ specs \in [Slug -> Nat] /\ told \in Seq(Answers)
           /\ worker.at # "idle" => worker.row \in Row
           /\ HandInStep /\ ToldSoFar
PROOF
<1>1. rows \in Seq(Rows)
  BY DEF IntakeInv, IntakeTypes
<1>2. Len(rows) \in Nat /\ DOMAIN rows = 1..Len(rows)
  BY <1>1, LenProperties
<1>3. \A t \in Row : rows[t] \in Rows
  BY <1>1, <1>2, ElementOfSeq DEF Row
<1> QED BY <1>1, <1>2, <1>3 DEF IntakeInv, RowsRight, IntakeTypes, HandInStep, Row

LEMMA Onto ==
    ASSUME NEW R, IsFiniteSet(R), NEW Q, NEW g \in Surjection(R, Q)
    PROVE  Cardinality(Q) <= Cardinality(R)
PROOF BY FS_Surjection

\* The repos of a command are at most as many as the references: each leads to one.
LEMMA OneRepoEach ==
    ASSUME NEW R \in SUBSET DOMAIN Catalog, IsFiniteSet(R), Resolves(R), R # {}
    PROVE  Resolved(R) # {} /\ Cardinality(Resolved(R)) <= Cardinality(R)
PROOF
<1>1. \A ref \in R : \E x : Catalog[ref] = {x}
  BY CatalogAssumption, FS_Singleton DEF Resolves
<1> DEFINE only(ref) == CHOOSE x : Catalog[ref] = {x}
           Q == Resolved(R)
<1>2. \A ref \in R : Catalog[ref] = {only(ref)}
  BY <1>1
<1> HIDE DEF only
<1>3. \A x : x \in Q <=> \E ref \in R : x = only(ref)
  BY <1>2 DEF Resolved
<1> HIDE DEF Q
<1>4. [ref \in R |-> only(ref)] \in Surjection(R, Q)
  <2>1. [ref \in R |-> only(ref)] \in [R -> Q]
    BY <1>3
  <2>2. \A x \in Q : \E ref \in R : [s \in R |-> only(s)][ref] = x
    BY <1>3
  <2> QED BY <2>1, <2>2 DEF Surjection
<1>5. Cardinality(Q) <= Cardinality(R)
  <2>1. PICK g : g \in Surjection(R, Q)
    BY <1>4
  <2> QED BY <2>1, Onto
<1>6. Q # {}
  BY <1>3
<1> QED BY <1>5, <1>6 DEF Q

\* A request that enqueue_intent takes makes a proper row.
LEMMA ProperRow ==
    ASSUME NEW d \in Delivery, NEW r, r = IntentOf(d), Valid(d), r \notin {Nothing, Error},
           Allowed(d, r.intent), Policy(d, r),
           NEW p, p = Transformed(d.source, r.payload),
           r.intent = "workflow.intake" => Lint(p), Builds(r.intent, p),
           NEW x, x.via = d.via, x.intent = r.intent, x.payload = p,
           x.command = Command(r.intent, p), x.asked = {x.command}
    PROVE  Proper(x)
PROOF
<1> DEFINE i == r.intent
<1>1. /\ IsFiniteSet(Refs(p)) /\ Refs(p) \subseteq DOMAIN Catalog
      /\ Slugify(p.slug) \in Slug \cup {None}
      /\ p.title \notin IllTitles => Stripped(p.title) \notin IllTitles
  BY PayloadAssumption
<1>2. x.via \in Webhook => i \in WEBHOOK_ALLOWED_INTENTS
  BY DEF Allowed, Webhook
<1>3. ASSUME i \in Creating
      PROVE  /\ x.command.slug = Slugify(p.slug) /\ x.command.title = Stripped(p.title)
             /\ x.command.repos = Resolved(Refs(p))
             /\ Slugify(p.slug) # None /\ Refs(p) # {} /\ Resolves(Refs(p))
  BY <1>3 DEF Creating, Command, Builds
<1>4. ASSUME i \notin Creating, i # "spec.approve", i \notin {"status.get", "ci.spec"}
      PROVE  x.command.slug = Slugify(p.slug) /\ Slugify(p.slug) # None
  BY <1>4 DEF Creating, Command, Builds
<1>5. ASSUME i = "spec.approve"
      PROVE  /\ x.command.slug = Slugify(p.slug) /\ x.command.approver = p.approver
             /\ Slugify(p.slug) # None
  BY <1>5 DEF Command, Builds
<1>6. ASSUME i \in {"status.get", "ci.spec"}
      PROVE  "slug" \notin DOMAIN x.command
  BY <1>6 DEF Command
<1>7. i \in Creating => /\ x.command.repos # {}
                        /\ Cardinality(x.command.repos) <= Cardinality(Refs(x.payload))
                        /\ x.command.slug \in Slug
  BY <1>1, <1>3, OneRepoEach
<1>8. "slug" \in DOMAIN x.command => x.command.slug \in Slug
  BY <1>1, <1>3, <1>4, <1>5, <1>6
<1>9. LintRejects /\ i = "workflow.intake" => x.command.title \notin IllTitles
  BY <1>1, <1>3 DEF Lint, Creating
<1>10. RulesKeepApprovers /\ EnforceApprover /\ i = "spec.approve" =>
         x.command.approver \notin Blank
  BY <1>5 DEF RulesKeepApprovers, Policy
<1> QED BY <1>2, <1>7, <1>8, <1>9, <1>10 DEF Proper

LEMMA ProperKept ==
    ASSUME NEW x \in Rows, Proper(x), NEW s
    PROVE  Proper([x EXCEPT !.status = s])
PROOF
<1> DEFINE y == [x EXCEPT !.status = s]
<1>1. /\ y.command = x.command /\ y.intent = x.intent /\ y.payload = x.payload
      /\ y.asked = x.asked /\ y.via = x.via
  BY DEF Rows
<1> HIDE DEF y
<1>2. Proper(y)
  BY <1>1 DEF Proper
<1> QED BY <1>2 DEF y

-----------------------------------------------------------------------------
(***************************************************************************)
(* What a step leaves as it is.                                            *)
(***************************************************************************)
LEMMA CheckedStays == ASSUME IntakeInv, UNCHANGED checked PROVE CheckedRightly'
PROOF BY DEF IntakeInv, CheckedRightly

LEMMA RowsStay == ASSUME IntakeInv, UNCHANGED <<rows, specs>> PROVE RowsRight'
PROOF
<1>1. RowsRight
  BY DEF IntakeInv
<1> QED BY <1>1 DEF RowsRight, Row, MadeIt

\* Rows may come, and get more requesters.
LEMMA HandKept ==
    ASSUME IntakeInv, UNCHANGED <<worker, specs, told>>,
           Len(rows') \in Nat, Len(rows) <= Len(rows'),
           \A t \in Row : /\ rows'[t].status = rows[t].status /\ rows'[t].reply = rows[t].reply
                          /\ rows'[t].intent = rows[t].intent
                          /\ rows'[t].command = rows[t].command
    PROVE  HandInStep' /\ ToldSoFar'
PROOF
<1>1. HandInStep /\ ToldSoFar /\ Len(rows) \in Nat
  BY HandFacts
<1>2. \A t \in Row : t \in Row' /\ (MadeIt(t) => MadeIt(t)')
  BY <1>1 DEF Row, MadeIt
<1>3. HandInStep'
  BY <1>1, <1>2 DEF HandInStep, InHand
<1>4. ToldSoFar'
  <2>1. CASE worker.at # "finished"
    BY <1>1, <2>1 DEF ToldSoFar
  <2>2. CASE worker.at = "finished"
    <3>1. worker.row \in Row
      BY <1>1, <2>2 DEF HandInStep
    <3>2. InHand'.status = InHand.status /\ InHand'.reply = InHand.reply
      BY <3>1 DEF InHand
    <3> QED BY <1>1, <2>2, <3>2 DEF ToldSoFar
  <2> QED BY <2>1, <2>2
<1> QED BY <1>3, <1>4

-----------------------------------------------------------------------------
(***************************************************************************)
(* The steps of the intake.                                                *)
(***************************************************************************)
\* The parts that a step has to restore, one by one.
LEMMA Restored ==
    ASSUME IntakeTypes', \A c \in Caller : LimitKept(c)', CheckedRightly', RowsRight',
           HandInStep', ToldSoFar'
    PROVE  IntakeInv'
PROOF BY DEF IntakeInv

LEMMA IntakeInitOK == IntakeInit => IntakeInv
PROOF
<1> SUFFICES ASSUME IntakeInit PROVE IntakeInv
  OBVIOUS
<1>1. rows = <<>> /\ Len(rows) = 0 /\ Row = {} /\ told = <<>>
  BY DEF IntakeInit, Row
<1>2. /\ worker \in Hands /\ worker.at = "idle"
      /\ [s \in Slug |-> NoRow] \in [Slug -> Nat]
  BY Names DEF IntakeInit, NoRow
<1>3. IntakeTypes
  <2>1. [c \in Caller |-> {}] \in [Caller -> SUBSET Nat] /\ [c \in Caller |-> <<>>] \in [Caller -> Seq(Nat)]
    OBVIOUS
  <2> QED BY <1>1, <1>2, <2>1 DEF IntakeInit, IntakeTypes
<1>4. ASSUME NEW c \in Caller PROVE LimitKept(c)
  <2>1. admitted[c] = <<>> /\ hits[c] = {}
    BY DEF IntakeInit
  <2>2. DOMAIN admitted[c] = {}
    BY <2>1
  <2>3. \A w \in Nat : InWindow(c, w) = {} /\ InSpan(c, w) = {}
    BY <2>2 DEF InWindow, InSpan
  <2>4. Cardinality({}) <= RateMax
    <3>1. Cardinality({}) = 0
      BY FS_EmptySet
    <3> QED BY <3>1, LimitAssumption
  <2>5. \A w \in Nat : Cardinality(InWindow(c, w)) <= RateMax /\ Cardinality(InSpan(c, w)) <= RateMax
    BY <2>3, <2>4
  <2>6. hits[c] \subseteq DOMAIN admitted[c]
    BY <2>1
  <2> QED BY <2>2, <2>5, <2>6 DEF LimitKept
<1>5. CheckedRightly
  BY DEF IntakeInit, CheckedRightly
<1>6. HandInStep /\ ToldSoFar
  BY <1>1, <1>2 DEF HandInStep, ToldSoFar
<1> QED BY <1>1, <1>3, <1>4, <1>5, <1>6 DEF IntakeInv, RowsRight

LEMMA SomeStay ==
    ASSUME IntakeInv, UNCHANGED <<rows, worker, specs, told>>
    PROVE  RowsRight' /\ HandInStep' /\ ToldSoFar'
PROOF BY HandFacts, RowsStay, HandKept

LEMMA CheckStep == ASSUME IntakeInv, NEW d \in Delivery, Check(d) PROVE IntakeInv'
PROOF
<1>1. /\ Limit(d) /\ UNCHANGED <<now, mode, rows, worker, specs, told, restarts>>
      /\ \/ /\ Valid(d) /\ IntentOf(d) \notin {Nothing, Error} /\ Allowed(d, IntentOf(d).intent)
            /\ checked' = [request |-> d, ask |-> IntentOf(d)]
         \/ checked' = checked
  BY DEF Check, Passes
<1>2. /\ hits' \in [Caller -> SUBSET Nat] /\ admitted' \in [Caller -> Seq(Nat)]
      /\ \A c \in Caller : LimitKept(c)'
  BY <1>1, LimitStep
<1>3. checked' \in {None} \cup Checks /\ CheckedRightly'
  <2>1. CASE checked' = checked
    BY <2>1, CheckedStays DEF IntakeInv, IntakeTypes
  <2>2. CASE /\ Valid(d) /\ IntentOf(d) \notin {Nothing, Error} /\ Allowed(d, IntentOf(d).intent)
             /\ checked' = [request |-> d, ask |-> IntentOf(d)]
    <3>1. checked' \in Checks /\ checked'.request = d /\ checked'.ask = IntentOf(d)
      BY <2>2 DEF Checks
    <3> QED BY <2>2, <3>1 DEF CheckedRightly
  <2> QED BY <1>1, <2>1, <2>2
<1>4. IntakeTypes'
  BY <1>1, <1>2, <1>3 DEF IntakeInv, IntakeTypes
<1> QED BY <1>1, <1>2, <1>3, <1>4, SomeStay, Restored

LEMMA EnqueueStep == ASSUME IntakeInv, EnqueueIntent PROVE IntakeInv'
PROOF
<1> DEFINE d == checked.request
           r == checked.ask
           p == Transformed(d.source, r.payload)
           new == [via |-> d.via, source |-> d.source, intent |-> r.intent, payload |-> p,
                   command |-> Command(r.intent, p), reply |-> d.reply, created |-> now,
                   status |-> "queued", asked |-> {Command(r.intent, p)}]
<1>1. /\ checked # None /\ checked' = None
      /\ UNCHANGED <<now, mode, hits, admitted, worker, specs, told, restarts>>
  BY DEF EnqueueIntent
<1>2. /\ d \in Delivery /\ r = IntentOf(d) /\ Valid(d) /\ r \notin {Nothing, Error}
      /\ Allowed(d, r.intent) /\ now \in Nat
  BY <1>1 DEF IntakeInv, IntakeTypes, Checks, CheckedRightly
<1>3. r.intent \in Intents /\ p \in Payloads /\ Command(r.intent, p) \in Commands
  BY <1>2 DEF Intents, Payloads, Commands
<1>4. new \in Rows
  BY <1>2, <1>3 DEF Rows
<1>5. /\ rows' \in Seq(Rows) /\ Len(rows') \in Nat /\ Len(rows) <= Len(rows')
      /\ \A t \in Row : /\ rows'[t].status = rows[t].status /\ rows'[t].reply = rows[t].reply
                        /\ rows'[t].intent = rows[t].intent
                        /\ rows'[t].command = rows[t].command
                        /\ Proper(rows'[t])
      /\ \A t \in Row' \ Row : Proper(rows'[t]) /\ rows'[t].status = "queued"
  <2>1. CASE rows' = rows
    BY <2>1, HandFacts DEF Row
  <2>2. CASE \E t \in DuplicatesOf(d.source, r.intent, p) :
                rows' = [rows EXCEPT ![t].asked = @ \cup {Command(r.intent, p)}]
    <3>1. PICK t \in Row : /\ rows[t].intent = r.intent /\ rows[t].payload = p
                           /\ rows' = [rows EXCEPT ![t].asked = @ \cup {Command(r.intent, p)}]
      BY <2>2 DEF DuplicatesOf
    <3>2. rows[t] \in Rows /\ Proper(rows[t]) /\ rows[t].asked = {Command(r.intent, p)}
      BY <3>1, HandFacts DEF Proper
    <3>3. [rows[t] EXCEPT !.asked = @ \cup {Command(r.intent, p)}] = rows[t]
      BY <3>2 DEF Rows
    <3>4. rows' = [rows EXCEPT ![t] = rows[t]]
      BY <3>1, <3>3
    <3>5. rows' = rows
      BY <3>1, <3>4, HandFacts
    <3> QED BY <3>5, HandFacts DEF Row
  <2>3. CASE /\ Policy(d, r) /\ (r.intent = "workflow.intake" => Lint(p)) /\ Builds(r.intent, p)
             /\ rows' = Append(rows, new)
    <3>1. new.via = d.via /\ new.intent = r.intent /\ new.payload = p
          /\ new.command = Command(r.intent, p) /\ new.asked = {new.command}
          /\ new.status = "queued"
      OBVIOUS
    <3>2. Proper(new)
      <4> HIDE DEF new, p, r, d
      <4> QED BY <1>2, <2>3, <3>1, ProperRow DEF p
    <3> HIDE DEF new
    <3>3. /\ rows' \in Seq(Rows) /\ Len(rows') = Len(rows) + 1
          /\ \A t \in 1..Len(rows) : rows'[t] = rows[t]
          /\ rows'[Len(rows) + 1] = new
      BY <1>4, <2>3, HandFacts, AppendProperties
    <3>4. Row' = Row \cup {Len(rows) + 1} /\ Len(rows) \in Nat
      BY <3>3, HandFacts DEF Row
    <3> QED BY <3>1, <3>2, <3>3, <3>4, HandFacts DEF Row
  <2> QED BY <2>1, <2>2, <2>3 DEF EnqueueIntent
<1>6. RowsRight'
  <2>1. ASSUME NEW t \in Row' PROVE (Proper(rows[t]) /\ (rows[t].status = "succeeded" => MadeIt(t)))'
    <3>1. CASE t \in Row
      <4>1. rows[t].status = "succeeded" => MadeIt(t)
        BY <3>1, HandFacts
      <4>2. (rows[t].status = "succeeded" => MadeIt(t))'
        BY <1>1, <1>5, <3>1, <4>1 DEF MadeIt
      <4> QED BY <1>5, <3>1, <4>2
    <3>2. CASE t \notin Row
      BY <1>5, <2>1, <3>2
    <3> QED BY <3>1, <3>2
  <2> QED BY <2>1 DEF RowsRight
<1>7. HandInStep' /\ ToldSoFar'
  BY <1>1, <1>5, HandKept
<1>8. IntakeTypes'
  BY <1>1, <1>5 DEF IntakeInv, IntakeTypes
<1>9. CheckedRightly'
  BY <1>1 DEF CheckedRightly
<1> QED BY <1>1, <1>6, <1>7, <1>8, <1>9, LimitStays, Restored

\* A step of the worker leaves the limiter and the handlers alone.
LEMMA WorkerOnly ==
    ASSUME IntakeInv, UNCHANGED <<now, mode, hits, admitted, checked>>
    PROVE  CheckedRightly' /\ \A c \in Caller : LimitKept(c)'
PROOF BY LimitStays, CheckedStays

\* Such a step may write a row's status.
LEMMA StatusStep ==
    ASSUME IntakeInv, NEW t \in Row, NEW status \in {"queued", "running"} \cup Outcome,
           rows' = [rows EXCEPT ![t].status = status], UNCHANGED specs,
           status = "succeeded" => MadeIt(t)
    PROVE  /\ rows' \in Seq(Rows) /\ Row' = Row /\ RowsRight'
           /\ rows'[t].status = status
           /\ \A u \in Row : /\ rows'[u].intent = rows[u].intent
                             /\ rows'[u].command = rows[u].command
                             /\ rows'[u].reply = rows[u].reply
PROOF
<1> DEFINE x == [rows[t] EXCEPT !.status = status]
<1>1. rows[t] \in Rows /\ t \in 1..Len(rows) /\ Proper(rows[t])
  BY HandFacts
<1>2. /\ x \in Rows /\ x.status = status /\ x.intent = rows[t].intent
      /\ x.command = rows[t].command /\ x.reply = rows[t].reply
  BY <1>1 DEF Rows
<1>3. Proper(x)
  BY <1>1, ProperKept
<1>4. rows' = [rows EXCEPT ![t] = x]
  OBVIOUS
<1> HIDE DEF x
<1>5. rows' \in Seq(Rows) /\ Len(rows') = Len(rows)
  BY <1>1, <1>2, <1>4, HandFacts, ExceptSeq
<1>6. Row' = Row
  BY <1>5 DEF Row
<1>7. rows'[t] = x /\ \A u \in Row \ {t} : rows'[u] = rows[u]
  BY <1>4, HandFacts
<1>8. ASSUME NEW u \in Row
      PROVE  (Proper(rows[u]) /\ (rows[u].status = "succeeded" => MadeIt(u)))'
  <2>1. CASE u = t
    <3>1. rows'[u] = x
      BY <1>7, <2>1
    <3>2. Proper(rows'[u])
      BY <1>3, <3>1
    <3>3. MadeIt(t) => MadeIt(u)'
      BY <1>2, <2>1, <3>1 DEF MadeIt
    <3> QED BY <1>2, <3>1, <3>2, <3>3
  <2>2. CASE u # t
    <3>1. rows'[u] = rows[u] /\ Proper(rows[u]) /\ (rows[u].status = "succeeded" => MadeIt(u))
      BY <1>7, <2>2, HandFacts
    <3> QED BY <3>1 DEF MadeIt
  <2> QED BY <2>1, <2>2
<1>9. RowsRight'
  BY <1>6, <1>8 DEF RowsRight
<1> QED BY <1>2, <1>5, <1>6, <1>7, <1>9

LEMMA ClaimRowStep == ASSUME IntakeInv, ClaimRow PROVE IntakeInv'
PROOF
<1>1. PICK t \in Row : /\ rows[t].status = "queued"
                       /\ rows' = [rows EXCEPT ![t].status = "running"]
                       /\ worker' = [Idle EXCEPT !.row = t, !.at = "claimed"]
  BY DEF ClaimRow, Queued
<1>2. /\ worker = Idle /\ UNCHANGED <<now, mode, hits, admitted, checked, specs, told, restarts>>
      /\ told = <<>> /\ t \in Nat
  BY <1>1, Names, HandFacts DEF ClaimRow, ToldSoFar
<1>3. /\ rows' \in Seq(Rows) /\ Row' = Row /\ RowsRight' /\ rows'[t].status = "running"
  BY <1>1, <1>2, StatusStep, Names
<1>4. worker' \in Hands /\ worker'.at = "claimed" /\ worker'.row = t
  BY <1>1, <1>2, Names DEF Hands
<1>5. HandInStep' /\ ToldSoFar'
  BY <1>2, <1>3, <1>4 DEF HandInStep, ToldSoFar, InHand
<1>6. IntakeTypes'
  BY <1>2, <1>3, <1>4 DEF IntakeInv, IntakeTypes
<1> QED BY <1>2, <1>3, <1>5, <1>6, WorkerOnly, Restored

LEMMA CreateStep == ASSUME IntakeInv, Create PROVE IntakeInv'
PROOF
<1> DEFINE slug == InHand.command.slug
<1>1. /\ worker.at = "claimed" /\ InHand.intent \in Creating /\ specs[slug] = NoRow
      /\ specs' = [specs EXCEPT ![slug] = worker.row] /\ worker' = [worker EXCEPT !.at = "made"]
      /\ UNCHANGED <<now, mode, hits, admitted, checked, rows, told, restarts>>
  BY DEF Create
<1>2. /\ worker.row \in Row /\ worker.row \in Nat /\ InHand.status = "running"
      /\ InHand = rows[worker.row] /\ told = <<>> /\ worker \in Hands
      /\ specs \in [Slug -> Nat] /\ Proper(InHand)
  BY <1>1, HandFacts DEF HandInStep, InHand, ToldSoFar
<1>3. slug \in Slug
  BY <1>1, <1>2 DEF Proper
<1>4. /\ worker' \in Hands /\ worker'.at = "made" /\ worker'.row = worker.row
      /\ specs' \in [Slug -> Nat] /\ Row' = Row
  BY <1>1, <1>2, <1>3 DEF Hands, Row
<1>5. ASSUME NEW t \in Row, rows[t].status = "succeeded" PROVE MadeIt(t)'
  <2>1. SUFFICES ASSUME rows[t].intent \in Creating PROVE specs'[rows[t].command.slug] = t
    BY <1>1 DEF MadeIt
  <2>2. specs[rows[t].command.slug] = t /\ rows[t].command.slug \in Slug /\ t # 0
    BY <1>5, <2>1, HandFacts DEF MadeIt, Proper
  <2>3. rows[t].command.slug # slug
    BY <1>1, <2>2 DEF NoRow
  <2> HIDE DEF slug
  <2> QED BY <1>1, <1>2, <1>3, <2>2, <2>3
<1>6. RowsRight'
  BY <1>1, <1>4, <1>5, HandFacts DEF RowsRight
<1>7. MadeIt(worker.row)'
  BY <1>1, <1>2, <1>3 DEF MadeIt
<1>8. HandInStep' /\ ToldSoFar'
  <2>1. InHand' = InHand
    BY <1>1, <1>4 DEF InHand
  <2>2. HandInStep'
    BY <1>1, <1>2, <1>4, <1>7, <2>1 DEF HandInStep
  <2>3. ToldSoFar'
    BY <1>1, <1>2, <1>4 DEF ToldSoFar
  <2> QED BY <2>2, <2>3
<1>9. IntakeTypes'
  BY <1>1, <1>4 DEF IntakeInv, IntakeTypes
<1> QED BY <1>1, <1>6, <1>8, <1>9, WorkerOnly, Restored

\* The command in hand ends.
LEMMA EndsStep ==
    ASSUME IntakeInv, worker.at \in {"claimed", "made"}, NEW outcome \in Outcome, Ends(outcome),
           outcome = "succeeded" => MadeIt(worker.row),
           UNCHANGED <<now, mode, hits, admitted, checked, rows, specs, told, restarts>>
    PROVE  IntakeInv'
PROOF
<1>1. /\ worker \in Hands /\ worker.row \in Row /\ InHand.status = "running" /\ told = <<>>
  BY HandFacts DEF HandInStep, ToldSoFar
<1>2. /\ worker' \in Hands /\ worker'.at = "ran" /\ worker'.row = worker.row
      /\ worker'.outcome = outcome
  BY <1>1 DEF Ends, Hands
<1>3. Row' = Row /\ InHand' = InHand /\ (MadeIt(worker.row) => MadeIt(worker.row)')
  BY <1>2 DEF Row, InHand, MadeIt
<1>4. HandInStep'
  BY <1>1, <1>2, <1>3 DEF HandInStep
<1>6. ToldSoFar'
  BY <1>1, <1>2 DEF ToldSoFar
<1>5. IntakeTypes'
  BY <1>2 DEF IntakeInv, IntakeTypes
<1> QED BY <1>4, <1>5, <1>6, RowsStay, WorkerOnly, Restored

LEMMA ReportStep == ASSUME IntakeInv, Report PROVE IntakeInv'
PROOF
<1>1. /\ worker.at = "made"
      /\ UNCHANGED <<now, mode, hits, admitted, checked, rows, specs, told, restarts>>
  BY DEF Report
<1>2. PICK outcome \in {"succeeded", "failed"} : Ends(outcome)
  BY DEF Report
<1>3. MadeIt(worker.row) /\ outcome \in Outcome
  BY <1>1, HandFacts, Names DEF HandInStep
<1> QED BY <1>1, <1>2, <1>3, EndsStep

LEMMA ExecuteStep == ASSUME IntakeInv, Execute PROVE IntakeInv'
PROOF
<1>1. /\ worker.at = "claimed"
      /\ UNCHANGED <<now, mode, hits, admitted, checked, rows, specs, told, restarts>>
  BY DEF Execute
<1>2. CASE Ends("failed")
  <2>1. "failed" \in Outcome
    BY Names
  <2> QED BY <1>1, <1>2, <2>1, EndsStep
<1>3. CASE InHand.intent \notin Creating /\ (Ends("succeeded") \/ Ends("completed_with_findings"))
  <2>1. MadeIt(worker.row)
    BY <1>3 DEF MadeIt, InHand
  <2>2. PICK outcome \in Outcome : Ends(outcome)
    BY <1>3, Names
  <2> QED BY <1>1, <2>1, <2>2, EndsStep
<1> QED BY <1>2, <1>3 DEF Execute

LEMMA FinishRowStep == ASSUME IntakeInv, FinishRow PROVE IntakeInv'
PROOF
<1>1. /\ worker.at = "ran" /\ rows' = [rows EXCEPT ![worker.row].status = worker.outcome]
      /\ worker' = [worker EXCEPT !.at = "finished"]
      /\ UNCHANGED <<now, mode, hits, admitted, checked, specs, told, restarts>>
  BY DEF FinishRow
<1>2. /\ worker \in Hands /\ worker.row \in Row /\ worker.outcome \in Outcome /\ told = <<>>
      /\ worker.outcome = "succeeded" => MadeIt(worker.row)
  BY <1>1, HandFacts DEF HandInStep, ToldSoFar
<1>3. /\ worker' \in Hands /\ worker'.at = "finished" /\ worker'.row = worker.row
  BY <1>1, <1>2 DEF Hands
<1>4. /\ rows' \in Seq(Rows) /\ Row' = Row /\ RowsRight'
  BY <1>1, <1>2, StatusStep
<1>5. HandInStep' /\ ToldSoFar'
  BY <1>1, <1>2, <1>3, <1>4 DEF HandInStep, ToldSoFar
<1>6. IntakeTypes'
  BY <1>1, <1>3, <1>4 DEF IntakeInv, IntakeTypes
<1> QED BY <1>1, <1>4, <1>5, <1>6, WorkerOnly, Restored

-----------------------------------------------------------------------------
(***************************************************************************)
(* Answers.                                                                *)
(***************************************************************************)
LEMMA AttemptsFacts ==
    ASSUME NEW p \in DOMAIN Providers
    PROVE  MaxAttempts(p) \in Nat \ {0}
PROOF
<1>1. ASSUME NEW attempts \in Int, NEW overlay \in {SectionRetry, Providers[p].retry}
      PROVE  Overlaid(attempts, overlay) \in Nat \ {0}
  <2>1. "max_attempts" \in DOMAIN overlay => overlay.max_attempts \in Int
    BY AttemptsAssumption
  <2> QED BY <2>1 DEF Overlaid
<1>2. Overlaid(EnvAttempts, SectionRetry) \in Int
  BY <1>1, AttemptsAssumption
<1> QED BY <1>1, <1>2 DEF MaxAttempts

LEMMA ProviderFacts ==
    ASSUME NEW requested, Provider(requested) # None
    PROVE  Provider(requested) \in DOMAIN Providers
PROOF BY DEF Provider, Usable

LEMMA AnswerStep == ASSUME IntakeInv, Answer PROVE IntakeInv'
PROOF
<1>1. /\ worker.at = "finished" /\ To # None /\ ~Answered
      /\ UNCHANGED <<now, mode, hits, admitted, checked, rows, worker, specs, restarts>>
  BY DEF Answer
<1>2. PICK result \in {"ok", "transient", "permanent"} :
         told' = Append(told, [to |-> To, status |-> InHand.status, result |-> result])
  BY DEF Answer
<1> DEFINE new == [to |-> To, status |-> InHand.status, result |-> result]
           most == MaxAttempts(To)
<1>3. To \in DOMAIN Providers /\ most \in Nat \ {0} /\ To = Provider(InHand.reply)
  BY <1>1, ProviderFacts, AttemptsFacts DEF To
<1>4. /\ told \in Seq(Answers) /\ Len(told) \in Nat /\ DOMAIN told = 1..Len(told)
      /\ InHand \in Rows /\ ToldSoFar /\ HandInStep
      /\ \A i \in 1..Len(told) : told[i] \in Answers
  <2>1. told \in Seq(Answers) /\ InHand \in Rows /\ ToldSoFar /\ HandInStep
    BY <1>1, HandFacts DEF InHand
  <2>2. Len(told) \in Nat /\ DOMAIN told = 1..Len(told)
    BY <2>1, LenProperties
  <2> QED BY <2>1, <2>2, ElementOfSeq
<1>5. new \in Answers
  BY <1>3, <1>4 DEF Answers, Rows
\* Whoever is not content and does not give up has attempts left.
<1>6. ASSUME Len(told) # 0
      PROVE  Len(told) < most /\ told[Len(told)].result = "transient"
  <2> DEFINE n == Len(told)
             results == [i \in DOMAIN told |-> told[i].result]
  <2>1. told # <<>> /\ n \in 1..Len(told) /\ n \in DOMAIN told
    BY <1>4, <1>6
  <2>2. results \in Seq({"ok", "transient", "permanent"}) /\ Len(results) = n
    <3>1. results \in [1..n -> {"ok", "transient", "permanent"}]
      BY <1>4 DEF Answers
    <3> HIDE DEF results
    <3> QED BY <1>4, <3>1, IsASeq, LenProperties
  <2>3. results[n] = told[n].result
    BY <2>1
  <2> HIDE DEF results
  <2>4. ~(n = most \/ results[n] \in {"ok", "permanent"})
    BY <1>1, <2>1, <2>2 DEF Answered, GivesUp, Last, results
  <2>5. told[n].result \in {"ok", "transient", "permanent"}
    BY <1>4, <2>1 DEF Answers
  <2>6. n <= most
    BY <1>3, <1>4, <2>1 DEF ToldSoFar
  <2> QED BY <1>3, <1>4, <2>3, <2>4, <2>5, <2>6
<1> HIDE DEF new
<1>7. /\ told' \in Seq(Answers) /\ Len(told') = Len(told) + 1
      /\ \A i \in 1..Len(told) : told'[i] = told[i]
      /\ told'[Len(told) + 1] = new
  BY <1>2, <1>4, <1>5, AppendProperties DEF new
<1>8. DOMAIN told' = DOMAIN told \cup {Len(told) + 1}
  <2>1. DOMAIN told' = 1..(Len(told) + 1)
    BY <1>7, LenProperties
  <2> QED BY <1>4, <2>1
<1>9. InHand' = InHand
  BY <1>1 DEF InHand
<1>10. ASSUME NEW i \in DOMAIN told'
       PROVE  (/\ told[i].status = InHand.status /\ told[i].to = Provider(InHand.reply)
               /\ i <= MaxAttempts(told[i].to)
               /\ i < Len(told) => told[i].result = "transient")'
  <2>1. CASE i \in 1..Len(told)
    <3>1. told'[i] = told[i] /\ i \in DOMAIN told /\ i <= Len(told)
      BY <1>4, <1>7, <2>1
    <3>2. /\ told[i].status = InHand.status /\ told[i].to = Provider(InHand.reply)
          /\ i <= MaxAttempts(told[i].to)
          /\ i < Len(told) => told[i].result = "transient"
      BY <1>4, <3>1 DEF ToldSoFar
    <3>3. told[i].result = "transient"
      BY <1>4, <1>6, <2>1, <3>2
    <3> QED BY <1>9, <3>1, <3>2, <3>3
  <2>2. CASE i = Len(told) + 1
    <3>1. told'[i].to = To /\ told'[i].status = InHand.status
      BY <1>7, <2>2 DEF new
    <3>2. i <= most
      BY <1>3, <1>4, <1>6, <2>2
    <3>3. ~(i < Len(told'))
      BY <1>4, <1>7, <2>2
    <3> QED BY <1>3, <1>9, <3>1, <3>2, <3>3
  <2> QED BY <1>4, <1>8, <1>10, <2>1, <2>2
<1>11. ToldSoFar'
  BY <1>1, <1>10 DEF ToldSoFar
<1>12. HandInStep'
  BY <1>1, <1>4, <1>9 DEF HandInStep, Row, MadeIt
<1>13. IntakeTypes'
  BY <1>1, <1>7 DEF IntakeInv, IntakeTypes
<1> QED BY <1>1, <1>11, <1>12, <1>13, RowsStay, WorkerOnly, Restored

LEMMA TurnStep == ASSUME IntakeInv, TurnToNext PROVE IntakeInv'
PROOF
<1>1. /\ worker' = Idle /\ told' = <<>>
      /\ UNCHANGED <<now, mode, hits, admitted, checked, rows, specs, restarts>>
  BY DEF TurnToNext
<1>2. HandInStep' /\ ToldSoFar'
  BY <1>1, Names DEF HandInStep, ToldSoFar
<1>3. <<>> \in Seq(Answers)
  BY EmptySeq
<1>4. IntakeTypes'
  BY <1>1, <1>3, Names DEF IntakeInv, IntakeTypes
<1> QED BY <1>1, <1>2, <1>4, RowsStay, WorkerOnly, Restored

-----------------------------------------------------------------------------
(***************************************************************************)
(* Around them.                                                            *)
(***************************************************************************)
\* A limiter that starts anew.
LEMMA NoHits ==
    ASSUME NEW c \in Caller, hits'[c] = {}, DOMAIN admitted'[c] = {}
    PROVE  LimitKept(c)'
PROOF
<1>1. \A w \in Nat : InWindow(c, w)' = {} /\ InSpan(c, w)' = {}
  BY DEF InWindow, InSpan
<1>2. Cardinality({}) <= RateMax
  <2>1. Cardinality({}) = 0
    BY FS_EmptySet
  <2> QED BY <2>1, LimitAssumption
<1>3. \A w \in Nat : Cardinality(InWindow(c, w)') <= RateMax /\ Cardinality(InSpan(c, w)') <= RateMax
  BY <1>1, <1>2
<1> QED BY <1>3 DEF LimitKept

LEMMA RestartStep == ASSUME IntakeInv, Restart PROVE IntakeInv'
PROOF
<1> DEFINE Again(x) == IF x.status = "running" THEN [x EXCEPT !.status = "queued"] ELSE x
<1>1. /\ rows' = [t \in Row |-> Again(rows[t])]
      /\ worker' = Idle /\ told' = <<>> /\ checked' = None
      /\ \/ /\ mode = "memory"
            /\ hits' = [c \in Caller |-> {}] /\ admitted' = [c \in Caller |-> <<>>]
         \/ UNCHANGED <<hits, admitted>>
      /\ UNCHANGED <<now, mode, specs>>
  BY DEF Restart
<1>2. ASSUME NEW x \in Rows, Proper(x)
      PROVE  /\ Again(x) \in Rows /\ Proper(Again(x))
             /\ Again(x).intent = x.intent /\ Again(x).command = x.command
             /\ Again(x).status = "succeeded" => x.status = "succeeded"
  <2>1. CASE x.status = "running"
    <3>1. "queued" \in {"queued", "running"} \cup Outcome
      OBVIOUS
    <3>2. [x EXCEPT !.status = "queued"] \in Rows /\ [x EXCEPT !.status = "queued"].status = "queued"
          /\ [x EXCEPT !.status = "queued"].intent = x.intent
          /\ [x EXCEPT !.status = "queued"].command = x.command
      BY <1>2, <3>1 DEF Rows
    <3>3. Proper([x EXCEPT !.status = "queued"])
      BY <1>2, <3>1, ProperKept
    <3> QED BY <2>1, <3>2, <3>3
  <2>2. CASE x.status # "running"
    BY <1>2, <2>2
  <2> QED BY <2>1, <2>2
<1> HIDE DEF Again
<1>3. \A t \in Row : /\ rows'[t] \in Rows /\ Proper(rows'[t])
                     /\ rows'[t].intent = rows[t].intent /\ rows'[t].command = rows[t].command
                     /\ rows'[t].status = "succeeded" => rows[t].status = "succeeded"
  BY <1>1, <1>2, HandFacts
<1>4. rows' \in Seq(Rows) /\ Row' = Row
  <2>1. rows' \in [1..Len(rows) -> Rows] /\ Len(rows) \in Nat
    BY <1>1, <1>3, HandFacts DEF Row
  <2> QED BY <2>1, IsASeq, LenProperties DEF Row
<1>5. RowsRight'
  <2>1. ASSUME NEW t \in Row
        PROVE  (Proper(rows[t]) /\ (rows[t].status = "succeeded" => MadeIt(t)))'
    <3>1. rows[t].status = "succeeded" => MadeIt(t)
      BY HandFacts
    <3>2. MadeIt(t) => MadeIt(t)'
      BY <1>1, <1>3 DEF MadeIt
    <3> QED BY <1>3, <3>1, <3>2
  <2> QED BY <1>4, <2>1 DEF RowsRight
<1>6. HandInStep' /\ ToldSoFar'
  BY <1>1, Names DEF HandInStep, ToldSoFar
<1>7. /\ hits' \in [Caller -> SUBSET Nat] /\ admitted' \in [Caller -> Seq(Nat)]
      /\ \A c \in Caller : LimitKept(c)'
  <2>1. CASE UNCHANGED <<hits, admitted>>
    BY <1>1, <2>1, LimitStays DEF IntakeInv, IntakeTypes
  <2>2. CASE hits' = [c \in Caller |-> {}] /\ admitted' = [c \in Caller |-> <<>>]
    <3>1. ASSUME NEW c \in Caller PROVE LimitKept(c)'
      <4>1. admitted'[c] = <<>> /\ hits'[c] = {} /\ DOMAIN admitted'[c] = {}
        BY <2>2
      <4> QED BY <4>1, NoHits
    <3>2. /\ [c \in Caller |-> {}] \in [Caller -> SUBSET Nat]
          /\ [c \in Caller |-> <<>>] \in [Caller -> Seq(Nat)]
      OBVIOUS
    <3> QED BY <2>2, <3>1, <3>2
  <2> QED BY <1>1, <2>1, <2>2
<1>8. IntakeTypes'
  <2>1. <<>> \in Seq(Answers)
    BY EmptySeq
  <2> QED BY <1>1, <1>4, <1>7, <2>1, Names DEF IntakeInv, IntakeTypes
<1>9. CheckedRightly'
  BY <1>1 DEF CheckedRightly
<1> QED BY <1>5, <1>6, <1>7, <1>8, <1>9, Restored

LEMMA SecondStep == ASSUME IntakeInv, Second PROVE IntakeInv'
PROOF
<1>1. /\ now' = now + 1 /\ now \in Nat
      /\ UNCHANGED <<mode, hits, admitted, checked, rows, worker, specs, told, restarts>>
  BY DEF Second, IntakeInv, IntakeTypes
<1>2. ASSUME NEW c \in Caller PROVE LimitKept(c)'
  <2>1. LimitKept(c) /\ hits'[c] = hits[c] /\ admitted'[c] = admitted[c] /\ admitted[c] \in Seq(Nat)
    BY <1>1 DEF IntakeInv, IntakeTypes
  <2>2. ASSUME NEW n \in DOMAIN admitted[c]
        PROVE  (admitted[c][n] <= now /\ (StillCounts(admitted[c][n]) => n \in hits[c]))'
    <3>1. admitted[c][n] \in Nat
      BY <2>1, ElementOfSeq, LenProperties
    <3>2. admitted[c][n] <= now /\ (StillCounts(admitted[c][n]) => n \in hits[c])
      BY <2>1 DEF LimitKept
    <3>3. (StillCounts(admitted[c][n]))' => StillCounts(admitted[c][n])
      <4>1. now' \in Nat /\ now <= now' /\ admitted'[c][n] = admitted[c][n]
        BY <1>1, <2>1
      <4> DEFINE time == admitted[c][n]
      <4>2. (StillCounts(time))' => StillCounts(admitted[c][n])
        BY <1>1, <3>1, <3>2, <4>1, CountsBefore DEF StillCounts
      <4> QED BY <4>2
    <3> QED BY <1>1, <2>1, <3>1, <3>2, <3>3
  <2>3. \A w \in Nat : InWindow(c, w)' = InWindow(c, w) /\ InSpan(c, w)' = InSpan(c, w)
    BY <2>1 DEF InWindow, InSpan
  <2>4. hits'[c] \subseteq DOMAIN admitted'[c]
    BY <2>1 DEF LimitKept
  <2>5. (mode = "db" => \A w \in Nat : Cardinality(InWindow(c, w)) <= RateMax)'
    BY <1>1, <2>1, <2>3 DEF LimitKept
  <2>6. (mode = "memory" => \A a \in Nat : Cardinality(InSpan(c, a)) <= RateMax)'
    BY <1>1, <2>1, <2>3 DEF LimitKept
  <2> QED BY <2>1, <2>2, <2>4, <2>5, <2>6 DEF LimitKept
<1>3. CheckedRightly'
  BY <1>1, CheckedStays DEF IntakeInv
<1>4. IntakeTypes'
  BY <1>1 DEF IntakeInv, IntakeTypes
<1> QED BY <1>1, <1>2, <1>3, <1>4, SomeStay, Restored

LEMMA IntakeNextOK == IntakeInv /\ [IntakeNext]_intake => IntakeInv'
PROOF
<1> SUFFICES ASSUME IntakeInv, [IntakeNext]_intake PROVE IntakeInv'
  OBVIOUS
<1>1. ASSUME NEW d \in Delivery, Check(d) PROVE IntakeInv'
  BY <1>1, CheckStep
<1>2. CASE UNCHANGED intake
  <2>1. UNCHANGED <<now, mode, hits, admitted, checked, rows, worker, specs, told>>
    BY <1>2 DEF intake
  <2>2. IntakeTypes'
    BY <2>1 DEF IntakeInv, IntakeTypes
  <2> QED BY <2>1, <2>2, WorkerOnly, SomeStay, Restored
<1> QED BY <1>1, <1>2, EnqueueStep, ClaimRowStep, CreateStep, ReportStep, ExecuteStep,
           FinishRowStep, AnswerStep, TurnStep, RestartStep, SecondStep DEF IntakeNext

-----------------------------------------------------------------------------
(***************************************************************************)
(* What the invariant says.                                                *)
(***************************************************************************)
\* A span of RateWindow seconds meets two windows of the clock at most.
LEMMA TwoWindows ==
    ASSUME NEW a \in Nat, NEW time \in Nat, a <= time, time <= a + RateWindow - 1
    PROVE  time \div RateWindow \in {a \div RateWindow, a \div RateWindow + 1}
PROOF
<1>1. RateWindow \in Nat \ {0} /\ a + RateWindow \in Nat /\ time <= a + RateWindow
  BY LimitAssumption
<1>2. a \div RateWindow <= time \div RateWindow
  BY <1>1, QuotientsGrow
<1>3. time \div RateWindow <= (a + RateWindow) \div RateWindow
  BY <1>1, QuotientsGrow
<1>4. (a + RateWindow) \div RateWindow = a \div RateWindow + 1
  BY <1>1, NextQuotient
<1>5. a \div RateWindow \in Nat /\ time \div RateWindow \in Nat
  BY <1>1, Quotient
<1> QED BY <1>2, <1>3, <1>4, <1>5

LEMMA TwoSets ==
    ASSUME NEW S, NEW A, NEW B, IsFiniteSet(A), IsFiniteSet(B), S \subseteq A \cup B,
           NEW m \in Nat, Cardinality(A) <= m, Cardinality(B) <= m
    PROVE  Cardinality(S) <= 2 * m
PROOF
<1>1. /\ IsFiniteSet(A \cup B)
      /\ Cardinality(A \cup B) = Cardinality(A) + Cardinality(B) - Cardinality(A \cap B)
  BY FS_Union
<1>2. IsFiniteSet(A \cap B) /\ IsFiniteSet(S) /\ Cardinality(S) <= Cardinality(A \cup B)
  BY <1>1, FS_Subset
<1>3. /\ Cardinality(A \cap B) \in Nat /\ Cardinality(A) \in Nat /\ Cardinality(B) \in Nat
      /\ Cardinality(A \cup B) \in Nat /\ Cardinality(S) \in Nat
  BY <1>1, <1>2, FS_CardinalityType
<1> QED BY <1>1, <1>2, <1>3

LEMMA LimitBounds == IntakeInv => RateBounded
PROOF
<1> SUFFICES ASSUME IntakeInv, NEW c \in Caller, NEW a \in 0..LastSecond
             PROVE  Cardinality(InSpan(c, a)) <= (IF mode = "db" THEN 2 ELSE 1) * RateMax
  BY DEF RateBounded, InSpan
<1>1. /\ admitted[c] \in Seq(Nat) /\ mode \in {"db", "memory"} /\ LimitKept(c) /\ a \in Nat
      /\ RateMax \in Nat /\ RateWindow \in Nat \ {0}
  BY LimitAssumption DEF IntakeInv, IntakeTypes
<1>2. /\ IsFiniteSet(DOMAIN admitted[c])
      /\ \A n \in DOMAIN admitted[c] : admitted[c][n] \in Nat
  <2>1. DOMAIN admitted[c] = 1..Len(admitted[c]) /\ Len(admitted[c]) \in Nat
    BY <1>1, LenProperties
  <2>2. IsFiniteSet(1..Len(admitted[c]))
    BY <2>1, FS_Interval
  <2>3. \A n \in 1..Len(admitted[c]) : admitted[c][n] \in Nat
    BY <1>1, ElementOfSeq
  <2> QED BY <2>1, <2>2, <2>3
<1>3. CASE mode = "memory"
  <2>1. Cardinality(InSpan(c, a)) <= RateMax
    BY <1>1, <1>3 DEF LimitKept
  <2> QED BY <1>1, <1>3, <2>1
<1>4. CASE mode = "db"
  <2> DEFINE w == a \div RateWindow
  <2>1. w \in Nat /\ w + 1 \in Nat
    BY <1>1, Quotient
  <2>2. InSpan(c, a) \subseteq InWindow(c, w) \cup InWindow(c, w + 1)
    <3> SUFFICES ASSUME NEW n \in InSpan(c, a) PROVE n \in InWindow(c, w) \cup InWindow(c, w + 1)
      OBVIOUS
    <3>1. /\ n \in DOMAIN admitted[c] /\ admitted[c][n] \in Nat /\ a <= admitted[c][n]
          /\ admitted[c][n] <= a + RateWindow - 1
      BY <1>1, <1>2 DEF InSpan
    <3>2. admitted[c][n] \div RateWindow \in {w, w + 1}
      BY <1>1, <3>1, TwoWindows
    <3> QED BY <3>1, <3>2 DEF InWindow
  <2> HIDE DEF w
  <2>3. IsFiniteSet(InWindow(c, w)) /\ IsFiniteSet(InWindow(c, w + 1))
    <3>1. InWindow(c, w) \subseteq DOMAIN admitted[c] /\ InWindow(c, w + 1) \subseteq DOMAIN admitted[c]
      BY DEF InWindow
    <3> QED BY <1>2, <3>1, FS_Subset
  <2>4. Cardinality(InWindow(c, w)) <= RateMax /\ Cardinality(InWindow(c, w + 1)) <= RateMax
    BY <1>1, <1>4, <2>1 DEF LimitKept
  <2>5. Cardinality(InSpan(c, a)) <= 2 * RateMax
    BY <1>1, <2>2, <2>3, <2>4, TwoSets
  <2> QED BY <1>4, <2>5
<1> QED BY <1>1, <1>3, <1>4

LEMMA AdmittedTold ==
    IntakeInv => OutcomesTell /\ (RulesKeepApprovers => AdmittedRightly)
PROOF
<1> SUFFICES ASSUME IntakeInv
             PROVE  OutcomesTell /\ (RulesKeepApprovers => AdmittedRightly)
  OBVIOUS
<1>1. RowsRight /\ ToldSoFar
  BY DEF IntakeInv
<1>2. OutcomesTell
  <2>1. \A t \in Row : rows[t].intent \in Creating /\ rows[t].status = "succeeded" =>
                         specs[rows[t].command.slug] = t
    BY <1>1 DEF RowsRight, MadeIt
  <2> QED BY <1>1, <2>1 DEF OutcomesTell, ToldSoFar
<1>3. RulesKeepApprovers => QueuedAsAllowed
  BY <1>1 DEF RowsRight, Proper, QueuedAsAllowed
<1>4. AnsweredAsAsked
  BY <1>1 DEF RowsRight, Proper, AnsweredAsAsked
<1> QED BY <1>2, <1>3, <1>4, LimitBounds DEF AdmittedRightly

-----------------------------------------------------------------------------
(***************************************************************************)
(* The theorems.                                                           *)
(***************************************************************************)
\* Every state of the intake is as its invariant says: rows are what may be asked for, those that
\* succeeded made the spec that is there, the limiter has lost no request that counts
\* (gateway/app/main.py, store.py, worker.py, feedback.py).
THEOREM IntakeInvariant == IntakeSpec => []IntakeInv
PROOF BY IntakeInitOK, IntakeNextOK, PTL DEF IntakeSpec

\* An intake that succeeded made the spec that is there, whatever other requests, failures and
\* restarts there are, and what is told of it is the outcome on record (gateway/app/worker.py
\* process_next, feedback.py send_feedback).
THEOREM IntakeTells == IntakeSpec => []OutcomesTell
PROOF
<1>1. IntakeInv => OutcomesTell
  BY AdmittedTold
<1> QED BY <1>1, IntakeInvariant, PTL

\* What is queued is what may be asked for and what its requesters asked, and the limiter keeps
\* its bound, at every length of the window and every maximum; as long as no rule for
\* payloads takes away the approver that the policy has seen (gateway/app/main.py).
THEOREM IntakeAdmits == RulesKeepApprovers => (IntakeSpec => []AdmittedRightly)
PROOF
<1>1. RulesKeepApprovers /\ IntakeInv => AdmittedRightly
  BY AdmittedTold
<1>2. RulesKeepApprovers => RulesKeepApprovers'
  BY DEF RulesKeepApprovers
<1> QED BY <1>1, <1>2, IntakeInvariant, PTL
=============================================================================
