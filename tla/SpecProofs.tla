----------------------------- MODULE SpecProofs -----------------------------
(***************************************************************************)
(* Proofs about the specs that features are made of: who may work on one   *)
(* (SlaveClaims, for any number of workspaces, commands and specs and for  *)
(* ttls longer than a heartbeat is late), and what its approval and its    *)
(* plan are worth (SpecLibrary, for any documents and workspaces).  The    *)
(* two have no state in common: each has theorems of its own.              *)
(***************************************************************************)
EXTENDS SlaveClaims, SpecLibrary, FiniteSetTheorems, FunctionTheorems, TLAPS

-----------------------------------------------------------------------------
(***************************************************************************)
(* Claims.                                                                 *)
(***************************************************************************)
Claims == [actor : Actor \cup {NoActor}, token : Nat]
Locks == [actor : Actor \cup {NoActor}, token : Nat, expires : Nat, state : State]
Commands == {"none", "poll", "pick", "claim", "other"} \cup Protected
Procs == [at : Place, cmd : Commands, spec : SpecId \cup {NoSpec}, claim : Claims,
          left : SUBSET SpecId, tries : Nat, plan : BOOLEAN, worker : Worker, beat : Nat,
          got : Nat, intruded : BOOLEAN]

TypeOK ==
    /\ clock \in Nat /\ issued \in Nat /\ begun \in Nat
    /\ lock \in [SpecId -> Locks]
    /\ ended \subseteq Nat
    /\ file \in [Workspace -> [SpecId -> Claims]]
    /\ proc \in [Process -> Procs]

\* A token is drawn once, for one spec, and one that was given back is in no lock.
TokensOnce ==
    /\ ended \subseteq 1..issued
    /\ \A s \in SpecId :
         /\ lock[s].token <= issued
         /\ lock[s].token \notin ended
         /\ \A t \in SpecId : lock[s].token = lock[t].token => s = t \/ lock[s].token = 0

\* How far a command can be with which of its notes.
InStep(r) ==
    /\ r.at \notin {"idle", "success", "list", "try"} => r.spec \in SpecId
    /\ r.at = "try" /\ r.cmd = "claim" => r.spec \in SpecId
    /\ r.at \in {"ensure", "beat", "work", "hook"} => r.cmd \in Protected
    /\ r.worker # "none" => r.at \in {"ensure", "work", "hook", "success"}
    /\ r.worker # "none" /\ r.at = "ensure" => r.cmd = "plan"
    /\ r.at \in {"hook", "success"} => r.worker # "failed"
    /\ r.intruded => r.at \in {"work", "hook", "success"}
    /\ r.got <= 1
    /\ r.at \in {"list", "try"} => r.got = 0
    /\ r.at = "list" => r.cmd # "claim"

\* The lock of a command whose thread lives has been prolonged beyond the next beat, or
\* its token was given back; nobody else was granted the spec but in the latter case.
InTimeBy(r, now, locks, given) ==
    /\ r.worker = "alive" /\ r.at \in {"work", "ensure"} =>
         /\ r.beat <= now /\ now <= r.beat + Late
         /\ \/ /\ locks[r.spec].actor = r.claim.actor
               /\ locks[r.spec].token = r.claim.token /\ r.claim.token # 0
               /\ locks[r.spec].expires > r.beat + Late
            \/ r.claim.token \in given
    /\ r.worker = "alive" /\ r.intruded => r.claim.token \in given
InTime(r) == InTimeBy(r, clock, lock, ended)

\* The inductive invariant.
IInv == TypeOK /\ TokensOnce /\ \A p \in Process : InStep(proc[p]) /\ InTime(proc[p])

-----------------------------------------------------------------------------
LEMMA Words ==
    /\ Protected \subseteq Commands /\ Publishes \in [Protected -> State]
    /\ {"none", "poll", "pick", "claim", "other", "plan"} \subseteq Commands
    /\ "plan" \in Protected /\ State \subseteq Nat /\ NoClaim \in Claims
    /\ {"idle", "list", "try", "write", "fetch", "ensure", "beat", "work", "hook",
        "clear", "hand over", "success"} \subseteq Place
    /\ {"none", "alive", "failed", "dead"} \subseteq Worker
    /\ New \in State
PROOF BY DEF Commands, Protected, Publishes, State, New, Triaged, InEdit, InReview, NoClaim,
             Claims, Place, Worker

LEMMA IdleFits == Idle \in Procs /\ InStep(Idle) /\ InTime(Idle) /\ Idle.got = 0
PROOF
<1>1. Idle \in Procs
  <2>1. NoClaim \in Claims /\ "idle" \in Place /\ "none" \in Commands /\ "none" \in Worker
    BY Words
  <2> QED BY <2>1 DEF Idle, Procs
<1>2. Idle.at = "idle" /\ Idle.worker = "none" /\ Idle.got = 0 /\ ~Idle.intruded
  BY DEF Idle
<1>3. InStep(Idle) /\ InTime(Idle)
  BY <1>2 DEF InStep, InTime, InTimeBy
<1> QED BY <1>1, <1>2, <1>3

LEMMA InitIInv == Init => IInv
PROOF
<1> SUFFICES ASSUME Init PROVE IInv
  OBVIOUS
<1>1. TypeOK
  BY IdleFits, Words DEF Init, TypeOK, Locks
<1>2. TokensOnce
  BY DEF Init, TokensOnce
<1>3. ASSUME NEW p \in Process PROVE InStep(proc[p]) /\ InTime(proc[p])
  <2>1. proc[p] = Idle
    BY DEF Init
  <2> QED BY <2>1, IdleFits
<1> QED BY <1>1, <1>2, <1>3 DEF IInv

-----------------------------------------------------------------------------
(***************************************************************************)
(* What the steps have in common.                                          *)
(***************************************************************************)
\* What a call may do to a lock that somebody relies on: leave it, prolong it, or give it
\* back for the one whose token it has.
Respects ==
    /\ clock' = clock /\ ended \subseteq ended'
    /\ \A s \in SpecId : Live(s) =>
         \/ /\ lock'[s].actor = lock[s].actor /\ lock'[s].token = lock[s].token
            /\ lock'[s].expires = lock[s].expires \/ lock'[s].expires > clock + Late
         \/ lock[s].token \in ended'

LEMMA StayInTime ==
    ASSUME IInv, Respects, lock' \in [SpecId -> Locks], NEW p \in Process, proc'[p] = proc[p]
    PROVE  InTime(proc[p])'
PROOF
<1> DEFINE r == proc[p]  s == proc[p].spec
<1>1. r \in Procs /\ InStep(r) /\ InTime(r) /\ clock \in Nat /\ lock \in [SpecId -> Locks]
  BY DEF IInv, TypeOK
<1>2. ASSUME r.worker = "alive", r.at \in {"work", "ensure"}
      PROVE  \/ /\ lock'[s].actor = r.claim.actor
                /\ lock'[s].token = r.claim.token /\ r.claim.token # 0
                /\ lock'[s].expires > r.beat + Late
             \/ r.claim.token \in ended'
  <2>1. CASE r.claim.token \in ended
    BY <2>1 DEF Respects
  <2>2. CASE r.claim.token \notin ended
    <3>1. s \in SpecId /\ r.beat \in Nat /\ r.beat <= clock /\ clock <= r.beat + Late
      BY <1>1, <1>2 DEF InStep, InTime, InTimeBy, Procs
    <3>2. /\ lock[s].actor = r.claim.actor
          /\ lock[s].token = r.claim.token /\ r.claim.token # 0
          /\ lock[s].expires > r.beat + Late
      BY <1>1, <1>2, <2>2 DEF InTime, InTimeBy
    <3>3. Live(s)
      BY <1>1, <3>1, <3>2, TtlAssumption DEF Live, Expired, Locks
    <3> QED BY <1>1, <3>1, <3>2, <3>3, TtlAssumption DEF Respects, Locks
  <2> QED BY <2>1, <2>2
<1>3. r.worker = "alive" /\ r.intruded => r.claim.token \in ended'
  BY <1>1 DEF InTime, InTimeBy, Respects
<1>4. r.worker = "alive" /\ r.at \in {"work", "ensure"} => r.beat <= clock' /\ clock' <= r.beat + Late
  BY <1>1 DEF InTime, InTimeBy, Respects
<1> QED BY <1>2, <1>3, <1>4 DEF InTime, InTimeBy

\* One command steps, the registry answers within its rules.
LEMMA CallStep ==
    ASSUME IInv, Respects, NEW p \in Process, NEW r \in Procs, Update(p, r), InStep(r),
           r.worker = "alive" => InTimeBy(r, clock', lock', ended'),
           lock' \in [SpecId -> Locks], ended' \subseteq Nat, issued' \in Nat, TokensOnce',
           file' \in [Workspace -> [SpecId -> Claims]], begun' \in Nat
    PROVE  IInv'
PROOF
<1>1. proc' \in [Process -> Procs] /\ proc'[p] = r
      /\ \A q \in Process \ {p} : proc'[q] = proc[q]
  BY DEF Update, IInv, TypeOK
<1>2. TypeOK'
  BY <1>1 DEF IInv, TypeOK, Respects
<1>3. ASSUME NEW q \in Process PROVE InStep(proc[q])' /\ InTime(proc[q])'
  <2>1. CASE q = p
    <3>1. proc'[q] = r
      BY <1>1, <2>1
    <3>2. InStep(proc[q])'
      BY <3>1 DEF InStep
    <3>3. CASE r.worker = "alive"
      BY <3>1, <3>3 DEF InTime, InTimeBy
    <3>4. CASE r.worker # "alive"
      BY <3>1, <3>4 DEF InTime, InTimeBy
    <3> QED BY <3>2, <3>3, <3>4
  <2>2. CASE q # p
    <3>1. proc'[q] = proc[q]
      BY <1>1, <2>2
    <3>2. InStep(proc[q])'
      BY <3>1 DEF IInv, InStep
    <3> QED BY <3>1, <3>2, StayInTime
  <2> QED BY <2>1, <2>2
<1> QED BY <1>2, <1>3 DEF IInv

\* One command steps and the registry is not asked, or answers without a change.
LEMMA LocalStep ==
    ASSUME IInv, UNCHANGED registry, NEW p \in Process, NEW r \in Procs, Update(p, r),
           InStep(r), r.worker = "alive" => InTime(r),
           file' \in [Workspace -> [SpecId -> Claims]], begun' \in Nat
    PROVE  IInv'
PROOF
<1>1. clock' = clock /\ lock' = lock /\ issued' = issued /\ ended' = ended
  BY DEF registry
<1>2. Respects /\ TokensOnce'
  BY <1>1 DEF Respects, IInv, TokensOnce
<1>3. r.worker = "alive" => InTimeBy(r, clock', lock', ended')
  BY <1>1 DEF InTime, InTimeBy
<1> QED BY <1>1, <1>2, <1>3, CallStep DEF IInv, TypeOK

\* A command ends, or begins with nothing to rely on.
LEMMA QuietStep ==
    ASSUME IInv, UNCHANGED registry, NEW p \in Process, NEW r \in Procs, Update(p, r),
           InStep(r), r.worker = "none",
           file' \in [Workspace -> [SpecId -> Claims]], begun' \in Nat
    PROVE  IInv'
PROOF BY LocalStep

LEMMA LeaveStep ==
    ASSUME IInv, UNCHANGED registry, NEW p \in Process, Leave(p),
           file' \in [Workspace -> [SpecId -> Claims]], begun' \in Nat
    PROVE  IInv'
PROOF BY IdleFits, LocalStep DEF Leave

LEMMA ClaimOnFile ==
    ASSUME IInv, NEW p \in Process
    PROVE  /\ proc[p] \in Procs /\ InStep(proc[p]) /\ InTime(proc[p])
           /\ file \in [Workspace -> [SpecId -> Claims]] /\ Home[p] \in Workspace
           /\ begun \in Nat /\ clock \in Nat /\ issued \in Nat /\ lock \in [SpecId -> Locks]
           /\ \A s \in SpecId : file[Home[p]][s] \in Claims
           /\ Name[p] \in Actor
PROOF BY PlaceAssumption DEF IInv, TypeOK

LEMMA WriteStep ==
    ASSUME IInv, NEW p \in Process, NEW c \in Claims, WriteClaim(p, c), proc[p].spec \in SpecId
    PROVE  file' \in [Workspace -> [SpecId -> Claims]]
PROOF BY ClaimOnFile DEF WriteClaim

\* A lock that its owner prolongs.
LEMMA ProlongRespects ==
    ASSUME IInv, NEW c \in Claims, NEW s \in SpecId, NEW ttl \in TTL \cup {WrapperTtl},
           Prolong(c, s, ttl), UNCHANGED <<clock, issued, ended>>
    PROVE  /\ Respects /\ lock' \in [SpecId -> Locks] /\ TokensOnce'
           /\ lock'[s].actor = c.actor /\ lock'[s].token = c.token /\ c.token # 0
           /\ lock'[s].expires > clock + Late
PROOF
<1>1. /\ lock[s].actor = c.actor /\ lock[s].token = c.token /\ c.token # 0
      /\ lock \in [SpecId -> Locks] /\ clock \in Nat
  BY DEF Prolong, Owns, Live, IInv, TypeOK
<1>2. ttl \in Nat /\ ttl > Late /\ Late \in Nat
  BY TtlAssumption
<1>3. lock' = [lock EXCEPT ![s] = [@ EXCEPT !.actor = c.actor, !.token = c.token,
                                            !.expires = clock + ttl]]
  BY DEF Prolong, Hold
<1>4. lock' \in [SpecId -> Locks]
  <2>1. lock[s] \in Locks /\ c.actor \in Actor \cup {NoActor} /\ c.token \in Nat /\ clock + ttl \in Nat
    BY <1>1, <1>2 DEF Claims
  <2> DEFINE h == [lock[s] EXCEPT !.actor = c.actor, !.token = c.token, !.expires = clock + ttl]
  <2>2. h \in Locks
    BY <2>1 DEF Locks
  <2>3. lock' = [lock EXCEPT ![s] = h]
    BY <1>3
  <2> HIDE DEF h
  <2> QED BY <1>1, <2>2, <2>3
<1>5. /\ lock'[s].actor = c.actor /\ lock'[s].token = c.token /\ lock'[s].expires = clock + ttl
      /\ \A t \in SpecId \ {s} : lock'[t] = lock[t]
  BY <1>1, <1>3 DEF Locks
<1>6. Respects
  BY <1>1, <1>2, <1>5 DEF Respects
<1>7. \A t \in SpecId : lock'[t].token = lock[t].token
  BY <1>1, <1>5
<1>8. TokensOnce'
  BY <1>7 DEF IInv, TokensOnce
<1> QED BY <1>1, <1>2, <1>4, <1>5, <1>6, <1>8

\* A lock that is let go, when it has expired or for its owner.
LEMMA VacantLock ==
    ASSUME IInv, NEW s \in SpecId
    PROVE  /\ Vacate(s) \in Locks /\ Vacate(s).token = 0
           /\ Vacate(s).state = lock[s].state
PROOF BY DEF IInv, TypeOK, Vacate, Locks

LEMMA AdvanceRespects ==
    ASSUME IInv, NEW c, NEW s \in SpecId, NEW to \in State, Advance(c, s, to),
           UNCHANGED <<clock, issued, ended>>
    PROVE  Respects /\ lock' \in [SpecId -> Locks] /\ TokensOnce'
PROOF
<1> DEFINE now == IF Expired(s) THEN Vacate(s) ELSE lock[s]
<1>1. lock' = [lock EXCEPT ![s] = [now EXCEPT !.state = to]]
  BY DEF Advance
<1>2. now \in Locks /\ lock \in [SpecId -> Locks] /\ (now = lock[s] \/ now.token = 0)
  BY VacantLock DEF IInv, TypeOK
<1>3. Live(s) => now = lock[s]
  BY DEF Live
<1> HIDE DEF now
<1>4. /\ lock' \in [SpecId -> Locks]
      /\ lock'[s].actor = now.actor /\ lock'[s].token = now.token
      /\ lock'[s].expires = now.expires
      /\ \A t \in SpecId \ {s} : lock'[t] = lock[t]
  BY <1>1, <1>2 DEF Locks
<1>5. Respects
  BY <1>3, <1>4 DEF Respects
<1>6. \A t \in SpecId : lock'[t].token = lock[t].token \/ lock'[t].token = 0
  BY <1>2, <1>4
<1>7. TokensOnce'
  <2>1. 0 \notin ended /\ issued \in Nat
    BY DEF IInv, TypeOK, TokensOnce
  <2> QED BY <1>2, <1>6, <2>1 DEF IInv, TokensOnce
<1> QED BY <1>4, <1>5, <1>7

-----------------------------------------------------------------------------
(***************************************************************************)
(* The commands.                                                           *)
(***************************************************************************)
LEMMA BeginStep ==
    ASSUME IInv, NEW p \in Process, NEW at \in {"try", "list"}, NEW cmd \in {"claim", "pick"},
           at = "list" => cmd = "pick",
           Begin(p, at, cmd), UNCHANGED <<registry, file>>
    PROVE  IInv'
PROOF
<1>1. PICK s \in SpecId : Update(p, [Idle EXCEPT !.at = at, !.cmd = cmd, !.spec = s])
  BY DEF Begin
<1> DEFINE r == [Idle EXCEPT !.at = at, !.cmd = cmd, !.spec = s]
<1>2. r \in Procs
  BY IdleFits, Words DEF Procs
<1>3. InStep(r) /\ r.worker = "none"
  BY DEF InStep, Idle
<1>4. begun' \in Nat
  BY ClaimOnFile DEF Begin, Start
<1> HIDE DEF r
<1> QED BY <1>1, <1>2, <1>3, <1>4, QuietStep, ClaimOnFile DEF r

LEMMA BeginPollStep == ASSUME IInv, NEW p \in Process, BeginPoll(p) PROVE IInv'
PROOF
<1>1. PICK n \in {1, MaxAttempts}, plans \in BOOLEAN :
        Update(p, [Idle EXCEPT !.at = "list", !.cmd = "poll", !.tries = n, !.plan = plans])
  BY DEF BeginPoll
<1> DEFINE r == [Idle EXCEPT !.at = "list", !.cmd = "poll", !.tries = n, !.plan = plans]
<1>2. r \in Procs
  <2>1. n \in Nat
    BY BoundAssumption
  <2>2. "list" \in Place /\ "poll" \in Commands
    BY Words
  <2> QED BY <2>1, <2>2, IdleFits DEF Procs
<1>3. InStep(r) /\ r.worker = "none"
  BY DEF InStep, Idle
<1>4. begun' \in Nat /\ UNCHANGED <<registry, file>>
  BY ClaimOnFile DEF BeginPoll, Start
<1> HIDE DEF r
<1> QED BY <1>1, <1>2, <1>3, <1>4, QuietStep, ClaimOnFile DEF r

LEMMA BeginWorkStep == ASSUME IInv, NEW p \in Process, BeginWork(p) PROVE IInv'
PROOF
<1>1. PICK cmd \in Protected, at \in {"beat", "ensure"}, s \in SpecId :
        Update(p, [Idle EXCEPT !.at = at, !.cmd = cmd, !.spec = s])
  BY DEF BeginWork, Begin
<1> DEFINE r == [Idle EXCEPT !.at = at, !.cmd = cmd, !.spec = s]
<1>2. r \in Procs
  BY IdleFits, Words DEF Procs
<1>3. InStep(r) /\ r.worker = "none"
  BY DEF InStep, Idle
<1>4. begun' \in Nat /\ UNCHANGED <<registry, file>>
  BY ClaimOnFile DEF BeginWork, Begin, Start
<1> HIDE DEF r
<1> QED BY <1>1, <1>2, <1>3, <1>4, QuietStep, ClaimOnFile DEF r

LEMMA ListStep ==
    ASSUME IInv, NEW p \in Process, List(p) \/ WatchTimeout(p), UNCHANGED begun PROVE IInv'
PROOF
<1>1. /\ proc[p].at = "list" /\ UNCHANGED registry /\ file' = file /\ begun' = begun
      /\ proc[p] \in Procs /\ proc[p].worker = "none" /\ proc[p].got = 0 /\ ~proc[p].intruded
  BY ClaimOnFile DEF List, WatchTimeout, InStep
<1>2. CASE Leave(p)
  BY <1>1, <1>2, LeaveStep, ClaimOnFile
<1>3. CASE Update(p, [proc[p] EXCEPT !.at = "try", !.left = Eligible]) /\ List(p) /\ proc[p].cmd # "claim"
  <2> DEFINE r == [proc[p] EXCEPT !.at = "try", !.left = Eligible]
  <2>1. "try" \in Place /\ Eligible \subseteq SpecId
    BY Words DEF Eligible
  <2>2. r \in Procs
    BY <1>1, <2>1 DEF Procs
  <2>3. /\ r.at = "try" /\ r.cmd = proc[p].cmd /\ r.worker = "none" /\ r.got = 0 /\ ~r.intruded
    BY <1>1 DEF Procs
  <2>4. InStep(r)
    BY <1>3, <2>3 DEF InStep
  <2> HIDE DEF r
  <2> QED BY <1>1, <1>3, <2>2, <2>3, <2>4, QuietStep, ClaimOnFile DEF r
<1>4. CASE Update(p, [proc[p] EXCEPT !.tries = @ - 1]) /\ proc[p].tries > 1
  <2> DEFINE r == [proc[p] EXCEPT !.tries = proc[p].tries - 1]
  <2>1. proc[p].tries - 1 \in Nat
    BY <1>1, <1>4 DEF Procs
  <2>2. r \in Procs
    BY <1>1, <2>1 DEF Procs
  <2>3. /\ r.at = "list" /\ r.cmd = proc[p].cmd /\ r.worker = "none" /\ r.got = 0 /\ ~r.intruded
    BY <1>1 DEF Procs
  <2>4. InStep(r)
    BY <1>1, <2>3, ClaimOnFile DEF InStep
  <2>5. Update(p, r)
    BY <1>4
  <2> HIDE DEF r
  <2> QED BY <1>1, <2>2, <2>3, <2>4, <2>5, QuietStep, ClaimOnFile
<1> QED BY <1>1, <1>2, <1>3, <1>4, ClaimOnFile DEF List, WatchTimeout, Leave, InStep

LEMMA TryRefusedStep ==
    ASSUME IInv, NEW p \in Process, TryRefused(p), UNCHANGED begun PROVE IInv'
PROOF
<1>1. PICK s \in Candidates(p) :
        LET rest == proc[p].left \ {s} IN
            IF proc[p].cmd # "poll" THEN Leave(p)
            ELSE IF rest # {} THEN Update(p, [proc[p] EXCEPT !.left = rest])
            ELSE IF proc[p].tries > 1
            THEN Update(p, [proc[p] EXCEPT !.at = "list", !.tries = @ - 1])
            ELSE Leave(p)
  BY DEF TryRefused
<1>2. /\ proc[p].at = "try" /\ UNCHANGED registry /\ file' = file /\ begun' = begun
      /\ proc[p] \in Procs /\ proc[p].worker = "none" /\ proc[p].got = 0 /\ ~proc[p].intruded
  BY ClaimOnFile DEF TryRefused, InStep
<1>3. CASE Leave(p)
  BY <1>2, <1>3, LeaveStep, ClaimOnFile
<1>4. CASE proc[p].cmd = "poll" /\ Update(p, [proc[p] EXCEPT !.left = @ \ {s}])
  <2> DEFINE r == [proc[p] EXCEPT !.left = @ \ {s}]
  <2>1. r \in Procs /\ InStep(r) /\ r.worker = "none"
    BY <1>2, <1>4 DEF Procs, InStep
  <2> HIDE DEF r
  <2> QED BY <1>2, <1>4, <2>1, QuietStep, ClaimOnFile DEF r
<1>5. CASE proc[p].tries > 1 /\ proc[p].cmd = "poll"
           /\ Update(p, [proc[p] EXCEPT !.at = "list", !.tries = @ - 1])
  <2> DEFINE r == [proc[p] EXCEPT !.at = "list", !.tries = proc[p].tries - 1]
  <2>1. proc[p].tries - 1 \in Nat
    BY <1>2, <1>5 DEF Procs
  <2>2. r \in Procs
    BY <1>2, <2>1, Words DEF Procs
  <2>3. /\ r.at = "list" /\ r.cmd = "poll" /\ r.worker = "none" /\ r.got = 0 /\ ~r.intruded
    BY <1>2, <1>5 DEF Procs
  <2>4. InStep(r)
    BY <2>3 DEF InStep
  <2>5. Update(p, r)
    BY <1>5
  <2> HIDE DEF r
  <2> QED BY <1>2, <2>2, <2>3, <2>4, <2>5, QuietStep, ClaimOnFile
<1>6. [proc[p] EXCEPT !.left = proc[p].left \ {s}] = [proc[p] EXCEPT !.left = @ \ {s}]
  BY <1>2 DEF Procs
<1> QED BY <1>1, <1>3, <1>4, <1>5, <1>6

LEMMA ReplyLostStep ==
    ASSUME IInv, NEW p \in Process, ReplyLost(p) \/ CallFails(p) \/ Crash(p) \/ FirstBeatRefused(p),
           UNCHANGED begun
    PROVE  IInv'
PROOF
<1>1. Leave(p) /\ UNCHANGED registry /\ file' = file /\ begun' = begun
  BY DEF ReplyLost, CallFails, Crash, FirstBeatRefused, Leave
<1> QED BY <1>1, LeaveStep, ClaimOnFile

LEMMA RecordStep == ASSUME IInv, NEW p \in Process, Record(p), UNCHANGED begun PROVE IInv'
PROOF
<1> DEFINE r == [proc[p] EXCEPT !.at = "fetch"]
<1>1. /\ proc[p].at = "write" /\ UNCHANGED registry /\ begun' = begun /\ Update(p, r)
      /\ proc[p] \in Procs /\ proc[p].worker = "none" /\ ~proc[p].intruded
      /\ proc[p].spec \in SpecId /\ proc[p].claim \in Claims /\ WriteClaim(p, proc[p].claim)
  BY ClaimOnFile DEF Record, Go, InStep, Procs
<1>2. r \in Procs /\ InStep(r) /\ r.worker = "none"
  BY <1>1, ClaimOnFile, Words DEF Procs, InStep
<1>3. file' \in [Workspace -> [SpecId -> Claims]]
  BY <1>1, WriteStep
<1> HIDE DEF r
<1> QED BY <1>1, <1>2, <1>3, QuietStep, ClaimOnFile

LEMMA FetchStep == ASSUME IInv, NEW p \in Process, Fetch(p), UNCHANGED begun PROVE IInv'
PROOF
<1>1. /\ proc[p].at = "fetch" /\ UNCHANGED registry /\ file' = file /\ begun' = begun
      /\ proc[p] \in Procs /\ proc[p].worker = "none" /\ ~proc[p].intruded
      /\ Leave(p) \/ PlanAtOnce(p)
  BY ClaimOnFile DEF Fetch, InStep
<1>2. CASE Leave(p)
  BY <1>1, <1>2, LeaveStep, ClaimOnFile
<1>3. CASE PlanAtOnce(p)
  <2> DEFINE r == [proc[p] EXCEPT !.at = "beat", !.cmd = "plan"]
  <2>1. r \in Procs /\ InStep(r) /\ r.worker = "none"
    BY <1>1, ClaimOnFile, Words DEF Procs, InStep
  <2>2. Update(p, r)
    BY <1>3 DEF PlanAtOnce
  <2> HIDE DEF r
  <2> QED BY <1>1, <2>1, <2>2, QuietStep, ClaimOnFile
<1> QED BY <1>1, <1>2, <1>3

-----------------------------------------------------------------------------
\* Work under a claim.
LEMMA EnsureStep == ASSUME IInv, NEW p \in Process, Ensure(p), UNCHANGED begun PROVE IInv'
PROOF
<1>1. /\ proc[p].at = "ensure" /\ UNCHANGED registry /\ file' = file /\ begun' = begun
      /\ proc[p] \in Procs /\ ~proc[p].intruded /\ InStep(proc[p]) /\ InTime(proc[p])
      /\ Claim(p) \in Claims
  BY ClaimOnFile DEF Ensure, InStep, Claim
<1>2. CASE Leave(p)
  BY <1>1, <1>2, LeaveStep, ClaimOnFile
<1>3. CASE Update(p, Enter(proc[p]))
  <2> DEFINE r == [proc[p] EXCEPT !.at = "work"]
  <2>1. r \in Procs /\ InStep(r)
    BY <1>1, Words DEF Procs, InStep
  <2>2. InTime(r)
    BY <1>1 DEF InTime, InTimeBy, Procs
  <2>3. Update(p, r)
    BY <1>3 DEF Enter
  <2> HIDE DEF r
  <2> QED BY <1>1, <2>1, <2>2, <2>3, LocalStep, ClaimOnFile
<1>4. CASE proc[p].cmd # "plan" /\ Update(p, [proc[p] EXCEPT !.at = "beat", !.claim = Claim(p)])
  <2> DEFINE r == [proc[p] EXCEPT !.at = "beat", !.claim = Claim(p)]
  <2>1. r \in Procs /\ InStep(r) /\ r.worker = "none"
    BY <1>1, <1>4, Words DEF Procs, InStep
  <2> HIDE DEF r
  <2> QED BY <1>1, <1>4, <2>1, QuietStep, ClaimOnFile DEF r
<1> QED BY <1>2, <1>3, <1>4 DEF Ensure

LEMMA FirstBeatStep == ASSUME IInv, NEW p \in Process, FirstBeat(p), UNCHANGED begun PROVE IInv'
PROOF
<1>1. PICK at \in {"ensure", "work"} :
        /\ at = IF proc[p].cmd = "plan" THEN "ensure" ELSE "work"
        /\ Update(p, [proc[p] EXCEPT !.at = at, !.claim = Claim(p), !.worker = "alive",
                                     !.beat = clock])
  BY DEF FirstBeat
<1> DEFINE r == [proc[p] EXCEPT !.at = at, !.claim = Claim(p), !.worker = "alive",
                                !.beat = clock]
<1>2. /\ proc[p].at = "beat" /\ UNCHANGED <<clock, issued, ended>> /\ file' = file
      /\ begun' = begun /\ proc[p] \in Procs /\ ~proc[p].intruded
      /\ proc[p].spec \in SpecId /\ Claim(p) \in Claims /\ proc[p].cmd \in Protected
      /\ Prolong(Claim(p), proc[p].spec, WrapperTtl)
  BY ClaimOnFile DEF FirstBeat, InStep, Claim
<1>3. /\ Respects /\ lock' \in [SpecId -> Locks] /\ TokensOnce'
      /\ lock'[proc[p].spec].actor = Claim(p).actor /\ lock'[proc[p].spec].token = Claim(p).token
      /\ Claim(p).token # 0 /\ lock'[proc[p].spec].expires > clock + Late
  BY <1>2, ProlongRespects
<1>4. r \in Procs
  BY <1>2, ClaimOnFile, Words DEF Procs
<1>5. /\ r.at = at /\ r.spec = proc[p].spec /\ r.cmd = proc[p].cmd /\ r.claim = Claim(p)
      /\ r.worker = "alive" /\ r.beat = clock /\ r.got = proc[p].got /\ ~r.intruded
  BY <1>2 DEF Procs
<1>6. InStep(r)
  BY <1>1, <1>2, <1>5, ClaimOnFile DEF InStep
<1>7. InTimeBy(r, clock', lock', ended')
  <2>1. clock' = clock /\ clock \in Nat /\ Late \in Nat
    BY <1>2, ClaimOnFile, TtlAssumption
  <2> HIDE DEF r
  <2>2. r.beat <= clock' /\ clock' <= r.beat + Late
    BY <1>5, <2>1
  <2> QED BY <1>3, <1>5, <2>1, <2>2 DEF InTime, InTimeBy
<1>8. Update(p, r)
  BY <1>1
<1> HIDE DEF r
<1> QED BY <1>2, <1>3, <1>4, <1>6, <1>7, <1>8, CallStep, ClaimOnFile DEF IInv, TypeOK

LEMMA UnguardedStep == ASSUME IInv, NEW p \in Process, Unguarded(p), UNCHANGED begun PROVE IInv'
PROOF
<1>1. PICK at \in {"ensure", "work"} : Go(p, at)
  BY DEF Unguarded
<1> DEFINE r == [proc[p] EXCEPT !.at = at]
<1>2. /\ proc[p].at = "beat" /\ UNCHANGED registry /\ file' = file /\ begun' = begun
      /\ proc[p] \in Procs /\ ~proc[p].intruded /\ proc[p].worker = "none" /\ InStep(proc[p])
  BY ClaimOnFile DEF Unguarded, InStep
<1>3. r \in Procs /\ InStep(r) /\ r.worker = "none"
  BY <1>2, Words DEF Procs, InStep
<1>4. Update(p, r)
  BY <1>1 DEF Go
<1> HIDE DEF r
<1> QED BY <1>2, <1>3, <1>4, QuietStep, ClaimOnFile

LEMMA BeatStep == ASSUME IInv, NEW p \in Process, Beat(p), UNCHANGED begun PROVE IInv'
PROOF
<1> DEFINE r == [proc[p] EXCEPT !.beat = clock]  s == proc[p].spec  c == proc[p].claim
<1>1. /\ proc[p].worker = "alive" /\ proc[p].at \in {"work", "ensure"}
      /\ UNCHANGED <<clock, issued, ended>> /\ file' = file
      /\ begun' = begun /\ proc[p] \in Procs /\ InStep(proc[p]) /\ InTime(proc[p])
      /\ s \in SpecId /\ c \in Claims
      /\ Prolong(c, s, WrapperTtl) /\ Update(p, r)
  BY ClaimOnFile DEF Beat, Beats, InStep, Procs
<1>2. /\ Respects /\ lock' \in [SpecId -> Locks] /\ TokensOnce'
      /\ lock'[s].actor = c.actor /\ lock'[s].token = c.token
      /\ c.token # 0 /\ lock'[s].expires > clock + Late
  BY <1>1, ProlongRespects
<1>3. r \in Procs
  BY <1>1, ClaimOnFile DEF Procs
<1>4. /\ r.at = proc[p].at /\ r.spec = s /\ r.cmd = proc[p].cmd /\ r.claim = c
      /\ r.worker = proc[p].worker /\ r.beat = clock /\ r.got = proc[p].got
      /\ r.intruded = proc[p].intruded
  BY <1>1 DEF Procs
<1>5. InStep(r)
  BY <1>1, <1>4 DEF InStep
<1>6. InTimeBy(r, clock', lock', ended')
  <2>1. clock' = clock /\ clock \in Nat /\ Late \in Nat /\ ended' = ended
    BY <1>1, ClaimOnFile, TtlAssumption
  <2>2. r.intruded => r.claim.token \in ended'
    BY <1>1, <1>4, <2>1 DEF InTime, InTimeBy
  <2> HIDE DEF r, s, c
  <2>3. r.beat <= clock' /\ clock' <= r.beat + Late
    BY <1>4, <2>1
  <2> QED BY <1>2, <1>4, <2>1, <2>2, <2>3 DEF InTime, InTimeBy
<1> HIDE DEF r
<1> QED BY <1>1, <1>2, <1>3, <1>5, <1>6, CallStep, ClaimOnFile DEF IInv, TypeOK

LEMMA BeatEndsStep ==
    ASSUME IInv, NEW p \in Process, BeatFails(p) \/ BeatDies(p), UNCHANGED begun PROVE IInv'
PROOF
<1>1. PICK w \in {"failed", "dead"} : Update(p, [proc[p] EXCEPT !.worker = w])
  BY DEF BeatFails, BeatDies
<1> DEFINE r == [proc[p] EXCEPT !.worker = w]
<1>2. /\ proc[p].worker = "alive" /\ proc[p].at \in {"work", "ensure"} /\ UNCHANGED registry
      /\ file' = file /\ begun' = begun /\ proc[p] \in Procs /\ InStep(proc[p])
  BY ClaimOnFile DEF BeatFails, BeatDies, Beats
<1>3. r \in Procs /\ InStep(r) /\ r.worker # "alive"
  BY <1>2, Words DEF Procs, InStep
<1> HIDE DEF r
<1> QED BY <1>1, <1>2, <1>3, LocalStep, ClaimOnFile DEF r

LEMMA WorkEndsStep == ASSUME IInv, NEW p \in Process, WorkEnds(p), UNCHANGED begun PROVE IInv'
PROOF
<1>1. /\ proc[p].at = "work" /\ UNCHANGED registry /\ file' = file /\ begun' = begun
      /\ proc[p] \in Procs /\ InStep(proc[p]) /\ InTime(proc[p])
  BY ClaimOnFile DEF WorkEnds
<1>2. CASE Leave(p)
  BY <1>1, <1>2, LeaveStep, ClaimOnFile
<1>3. CASE proc[p].worker # "failed" /\ Go(p, "hook")
  <2> DEFINE r == [proc[p] EXCEPT !.at = "hook"]
  <2>1. r \in Procs /\ InStep(r) /\ InTime(r)
    BY <1>1, <1>3, Words DEF Procs, InStep, InTime, InTimeBy
  <2>2. Update(p, r)
    BY <1>3 DEF Go
  <2> HIDE DEF r
  <2> QED BY <1>1, <2>1, <2>2, LocalStep, ClaimOnFile
<1> QED BY <1>2, <1>3 DEF WorkEnds

LEMMA PublishStep == ASSUME IInv, NEW p \in Process, Publish(p), UNCHANGED begun PROVE IInv'
PROOF
<1> DEFINE r == [Idle EXCEPT !.at = "success", !.claim = proc[p].claim,
                             !.worker = proc[p].worker, !.intruded = proc[p].intruded]
<1>1. /\ proc[p].at = "hook" /\ UNCHANGED <<clock, issued, ended>> /\ file' = file
      /\ begun' = begun /\ proc[p] \in Procs /\ InStep(proc[p]) /\ InTime(proc[p])
      /\ proc[p].spec \in SpecId /\ Publishes[proc[p].cmd] \in State /\ Update(p, r)
  BY ClaimOnFile, Words DEF Publish, InStep, Succeed
<1>2. r \in Procs /\ InStep(r)
  BY <1>1, IdleFits, Words, ZenonT(60) DEF Procs, InStep, Idle
<1>3. InTimeBy(r, clock', lock', ended')
  BY <1>1 DEF InTime, InTimeBy, Idle
<1>4. Respects /\ lock' \in [SpecId -> Locks] /\ TokensOnce'
  <2>1. CASE lock' = lock
    BY <1>1, <2>1 DEF Respects, IInv, TypeOK, TokensOnce
  <2>2. CASE Advance(Claim(p), proc[p].spec, Publishes[proc[p].cmd])
    BY <1>1, <2>2, AdvanceRespects
  <2> QED BY <2>1, <2>2 DEF Publish
<1> HIDE DEF r
<1> QED BY <1>1, <1>2, <1>3, <1>4, CallStep, ClaimOnFile DEF IInv, TypeOK

-----------------------------------------------------------------------------
\* The short commands of an operator.
LEMMA ManualHeartbeatStep == ASSUME IInv, NEW p \in Process, ManualHeartbeat(p) PROVE IInv'
PROOF
<1>1. PICK s \in SpecId : Update(p, [Idle EXCEPT !.at = "idle", !.cmd = "other", !.spec = s])
  BY DEF ManualHeartbeat, Begin
<1> DEFINE r == [Idle EXCEPT !.at = "idle", !.cmd = "other", !.spec = s]
<1>2. r \in Procs /\ InStep(r) /\ r.worker = "none" /\ r.spec = s
  BY IdleFits, Words DEF Procs, InStep, Idle
<1>3. proc'[p].spec = s
  BY <1>1, <1>2, ClaimOnFile DEF Update, IInv, TypeOK
<1>4. begun' \in Nat /\ UNCHANGED <<clock, issued, ended>> /\ file' = file
  BY ClaimOnFile DEF ManualHeartbeat, Begin, Start
<1>5. PICK ttl \in TTL : Prolong(file[Home[p]][s], s, ttl)
  BY <1>3 DEF ManualHeartbeat
<1>6. Respects /\ lock' \in [SpecId -> Locks] /\ TokensOnce'
  BY <1>4, <1>5, ProlongRespects, ClaimOnFile
<1> HIDE DEF r
<1> QED BY <1>1, <1>2, <1>4, <1>6, CallStep, ClaimOnFile DEF r, IInv, TypeOK

LEMMA ManualTransitionStep == ASSUME IInv, NEW p \in Process, ManualTransition(p) PROVE IInv'
PROOF
<1>1. PICK s \in SpecId : Update(p, [Idle EXCEPT !.at = "idle", !.cmd = "other", !.spec = s])
  BY DEF ManualTransition, Begin
<1> DEFINE r == [Idle EXCEPT !.at = "idle", !.cmd = "other", !.spec = s]
<1>2. r \in Procs /\ InStep(r) /\ r.worker = "none" /\ r.spec = s
  BY IdleFits, Words DEF Procs, InStep, Idle
<1>3. proc'[p].spec = s
  BY <1>1, <1>2, ClaimOnFile DEF Update, IInv, TypeOK
<1>4. begun' \in Nat /\ UNCHANGED <<clock, issued, ended>> /\ file' = file
  BY ClaimOnFile DEF ManualTransition, Begin, Start
<1>5. PICK to \in State : Advance(file[Home[p]][s], s, to)
  BY <1>3 DEF ManualTransition
<1>6. Respects /\ lock' \in [SpecId -> Locks] /\ TokensOnce'
  BY <1>4, <1>5, AdvanceRespects
<1> HIDE DEF r
<1> QED BY <1>1, <1>2, <1>4, <1>6, CallStep, ClaimOnFile DEF r, IInv, TypeOK

\* The token of the lock is given back, and is in no lock any more.
LEMMA ReleaseStep == ASSUME IInv, NEW p \in Process, Release(p) PROVE IInv'
PROOF
<1>1. PICK s \in SpecId : Update(p, [Idle EXCEPT !.at = "clear", !.cmd = "other", !.spec = s])
  BY DEF Release, Begin
<1> DEFINE r == [Idle EXCEPT !.at = "clear", !.cmd = "other", !.spec = s]
           c == file[Home[p]][s]
<1>2. r \in Procs /\ InStep(r) /\ r.worker = "none" /\ r.spec = s
  BY IdleFits, Words DEF Procs, InStep, Idle
<1>3. proc'[p].spec = s
  BY <1>1, <1>2, ClaimOnFile DEF Update, IInv, TypeOK
<1>4. begun' \in Nat /\ UNCHANGED <<clock, issued>> /\ file' = file
  BY ClaimOnFile DEF Release, Begin, Start
<1>5. /\ lock[s].token = c.token /\ c.token # 0 /\ c.token \in Nat
      /\ lock' = [lock EXCEPT ![s] = Vacate(s)] /\ ended' = ended \cup {c.token}
      /\ lock \in [SpecId -> Locks]
  BY <1>3, ClaimOnFile DEF Release, Owns, Live, Claims
<1>6. /\ lock' \in [SpecId -> Locks] /\ lock'[s].token = 0
      /\ \A t \in SpecId \ {s} : lock'[t] = lock[t]
  BY <1>5, VacantLock
<1>7. Respects
  BY <1>4, <1>5, <1>6 DEF Respects
<1>8. TokensOnce'
  <2>1. /\ c.token \in 1..issued /\ issued \in Nat /\ 0 \notin ended
        /\ \A t \in SpecId : lock[t].token \in Nat
    BY <1>5 DEF IInv, TypeOK, TokensOnce, Locks
  <2> QED BY <1>4, <1>5, <1>6, <2>1 DEF IInv, TokensOnce
<1>9. ended' \subseteq Nat
  BY <1>5 DEF IInv, TypeOK
<1> HIDE DEF r
<1> QED BY <1>1, <1>2, <1>4, <1>6, <1>7, <1>8, <1>9, CallStep, ClaimOnFile DEF r, IInv, TypeOK

LEMMA ClearStep ==
    ASSUME IInv, NEW p \in Process, Clear(p) \/ HandOver(p), UNCHANGED begun PROVE IInv'
PROOF
<1>1. PICK c \in Claims : WriteClaim(p, c)
  BY ClaimOnFile, Words DEF Clear, HandOver, Procs
<1>2. /\ Leave(p) /\ UNCHANGED registry /\ begun' = begun /\ proc[p].spec \in SpecId
  BY ClaimOnFile DEF Clear, HandOver, InStep
<1> QED BY <1>1, <1>2, WriteStep, LeaveStep, ClaimOnFile

-----------------------------------------------------------------------------
(***************************************************************************)
(* A new token: it is granted where the lock is not live, or by the owner  *)
(* of the old one, who gives that back.  Whoever worked under the old one  *)
(* is left to find out, and its token is among those given back.           *)
(***************************************************************************)
LEMMA GrantStep ==
    ASSUME IInv, NEW p \in Process, NEW s \in SpecId, NEW a \in Actor, NEW ttl \in TTL,
           NEW r \in Procs, Grant(p, s, a, ttl, r), InStep(r), r.worker = "none",
           clock' = clock, file' = file, begun' \in Nat,
           \/ ~Live(s) /\ ended' = ended
           \/ lock[s].token # 0 /\ ended' = ended \cup {lock[s].token}
    PROVE  IInv'
PROOF
<1>1. /\ issued' = issued + 1 /\ issued \in Nat /\ clock \in Nat /\ lock \in [SpecId -> Locks]
      /\ ttl \in Nat /\ proc \in [Process -> Procs] /\ ended \subseteq Nat
  BY TtlAssumption DEF Grant, IInv, TypeOK
<1>2. lock' = [lock EXCEPT ![s] = [@ EXCEPT !.actor = a, !.token = issued + 1,
                                            !.expires = clock + ttl]]
  BY <1>1 DEF Grant, Hold
<1>3. /\ lock' \in [SpecId -> Locks] /\ lock'[s].token = issued + 1
      /\ \A t \in SpecId \ {s} : lock'[t] = lock[t]
  <2> DEFINE n == issued + 1  e == clock + ttl
             h == [lock[s] EXCEPT !.actor = a, !.token = n, !.expires = e]
  <2>1. lock[s] \in Locks /\ a \in Actor \cup {NoActor} /\ n \in Nat /\ e \in Nat
    BY <1>1
  <2>2. lock' = [lock EXCEPT ![s] = h]
    BY <1>2
  <2>3. n = issued + 1
    OBVIOUS
  <2> HIDE DEF n, e
  <2>4. h \in Locks /\ h.token = n
    BY <2>1 DEF Locks
  <2> HIDE DEF h
  <2> QED BY <1>1, <2>2, <2>3, <2>4
<1>4. lock[s].token \in Nat /\ ended' \subseteq Nat
  BY <1>1 DEF Locks
<1>5. Respects
  BY <1>3 DEF Respects
<1>6. TokensOnce'
  <2>1. /\ ended \subseteq 1..issued /\ \A t \in SpecId : lock[t].token \in Nat
    BY <1>1 DEF IInv, TokensOnce, Locks
  <2>2. ended' \subseteq 1..issued
    BY <1>1, <1>4, <2>1 DEF IInv, TokensOnce
  <2> QED BY <1>1, <1>3, <1>4, <2>1, <2>2 DEF IInv, TokensOnce
<1>7. /\ proc' \in [Process -> Procs] /\ proc'[p] = r
      /\ \A q \in Process \ {p} :
           \/ proc'[q] = proc[q]
           \/ /\ proc[q].at = "work" /\ proc[q].spec = s
              /\ proc'[q] = [proc[q] EXCEPT !.intruded = TRUE]
  <2>1. proc' = [q \in Process |->
                   IF q = p THEN r
                   ELSE IF proc[q].at = "work" /\ proc[q].spec = s
                   THEN [proc[q] EXCEPT !.intruded = TRUE] ELSE proc[q]]
    BY DEF Grant
  <2>2. \A q \in Process : [proc[q] EXCEPT !.intruded = TRUE] \in Procs
    BY <1>1 DEF Procs
  <2> QED BY <1>1, <2>1, <2>2
<1>8. TypeOK'
  BY <1>1, <1>3, <1>4, <1>7 DEF IInv, TypeOK
<1>9. ASSUME NEW q \in Process PROVE InStep(proc[q])' /\ InTime(proc[q])'
  <2>1. CASE q = p
    BY <1>7, <2>1 DEF InStep, InTime, InTimeBy
  <2>2. CASE q # p /\ proc'[q] = proc[q]
    <3>1. InStep(proc[q])'
      BY <2>2 DEF IInv, InStep
    <3> QED BY <1>3, <1>5, <2>2, <3>1, StayInTime
  <2>3. CASE q # p /\ proc[q].at = "work" /\ proc[q].spec = s
             /\ proc'[q] = [proc[q] EXCEPT !.intruded = TRUE]
    <3>1. proc[q] \in Procs /\ InStep(proc[q]) /\ InTime(proc[q])
      BY ClaimOnFile
    <3>2. /\ proc'[q].at = "work" /\ proc'[q].spec = s /\ proc'[q].cmd = proc[q].cmd
          /\ proc'[q].claim = proc[q].claim /\ proc'[q].worker = proc[q].worker
          /\ proc'[q].beat = proc[q].beat /\ proc'[q].got = proc[q].got
      BY <2>3, <3>1 DEF Procs
    <3>3. InStep(proc[q])'
      BY <2>3, <3>1, <3>2 DEF InStep
    <3>4. ASSUME proc[q].worker = "alive" PROVE proc[q].claim.token \in ended'
      <4>1. CASE proc[q].claim.token \in ended
        BY <4>1, <1>5 DEF Respects
      <4>2. CASE proc[q].claim.token \notin ended
        <5>1. /\ lock[s].token = proc[q].claim.token /\ lock[s].token # 0
              /\ lock[s].expires > proc[q].beat + Late
              /\ clock <= proc[q].beat + Late /\ proc[q].beat \in Nat
          BY <2>3, <3>1, <3>4, <4>2 DEF InTime, InTimeBy, Procs
        <5>2. Live(s)
          BY <1>1, <5>1, TtlAssumption DEF Live, Expired, Locks
        <5> QED BY <5>1, <5>2
      <4> QED BY <4>1, <4>2
    <3>5. InTime(proc[q])'
      BY <2>3, <3>1, <3>2, <3>4 DEF InTime, InTimeBy
    <3> QED BY <3>3, <3>5
  <2> QED BY <1>7, <2>1, <2>2, <2>3
<1> QED BY <1>6, <1>8, <1>9 DEF IInv

LEMMA TryGrantedStep ==
    ASSUME IInv, NEW p \in Process, TryGranted(p), UNCHANGED begun PROVE IInv'
PROOF
<1>1. PICK s \in Candidates(p), ttl \in TTL :
        /\ ~Live(s)
        /\ Grant(p, s, Name[p], ttl,
                 [proc[p] EXCEPT !.at = "write", !.spec = s, !.got = @ + 1,
                                 !.claim = [actor |-> Name[p], token |-> issued']])
  BY DEF TryGranted
<1> DEFINE r == [proc[p] EXCEPT !.at = "write", !.spec = s, !.got = @ + 1,
                                !.claim = [actor |-> Name[p], token |-> issued']]
<1>2. /\ proc[p].at = "try" /\ clock' = clock /\ ended' = ended /\ file' = file /\ begun' = begun
      /\ proc[p] \in Procs /\ InStep(proc[p]) /\ proc[p].worker = "none" /\ proc[p].got = 0
      /\ ~proc[p].intruded /\ s \in SpecId /\ issued' \in Nat
  BY <1>1, ClaimOnFile DEF TryGranted, Grant, InStep, Candidates, Procs
<1>3. r \in Procs
  <2> DEFINE k == [actor |-> Name[p], token |-> issued']
  <2>1. k \in Claims /\ "write" \in Place
    BY <1>2, ClaimOnFile, Words DEF Claims
  <2>2. r = [proc[p] EXCEPT !.at = "write", !.spec = s, !.got = 1, !.claim = k]
    BY <1>2 DEF Procs
  <2>3. s \in SpecId \cup {NoSpec} /\ 1 \in Nat
    BY <1>2
  <2> HIDE DEF k, r
  <2> QED BY <1>2, <2>1, <2>2, <2>3 DEF Procs
<1>4. InStep(r) /\ r.worker = "none"
  BY <1>2 DEF InStep, Procs
<1> HIDE DEF r
<1> QED BY <1>1, <1>2, <1>3, <1>4, GrantStep, ClaimOnFile DEF r

LEMMA ReassignStep == ASSUME IInv, NEW p \in Process, Reassign(p) PROVE IInv'
PROOF
<1>1. PICK s \in SpecId, a \in Actor, ttl \in TTL :
        /\ Owns(file[Home[p]][s], s)
        /\ ended' = ended \cup {file[Home[p]][s].token}
        /\ Grant(p, s, a, ttl, [Idle EXCEPT !.at = "hand over", !.cmd = "other", !.spec = s,
                                            !.claim = [actor |-> a, token |-> issued']])
  BY DEF Reassign
<1> DEFINE r == [Idle EXCEPT !.at = "hand over", !.cmd = "other", !.spec = s,
                             !.claim = [actor |-> a, token |-> issued']]
<1>2. /\ clock' = clock /\ file' = file /\ begun' \in Nat /\ issued' \in Nat
      /\ lock[s].token # 0 /\ ended' = ended \cup {lock[s].token}
  BY <1>1, ClaimOnFile DEF Reassign, Start, Grant, Owns, Live
<1>3. r \in Procs
  BY <1>2, IdleFits, Words DEF Procs, Claims
<1>4. InStep(r) /\ r.worker = "none"
  BY DEF InStep, Idle
<1> HIDE DEF r
<1> QED BY <1>1, <1>2, <1>3, <1>4, GrantStep DEF r

\* Time passes no thread that lives.
LEMMA TickStep == ASSUME IInv, Tick, UNCHANGED begun PROVE IInv'
PROOF
<1>1. clock' = clock + 1 /\ UNCHANGED <<lock, issued, ended, file, proc, begun>>
  BY DEF Tick
<1>2. TypeOK' /\ TokensOnce'
  BY <1>1 DEF IInv, TypeOK, TokensOnce
<1>3. ASSUME NEW p \in Process PROVE InStep(proc[p])' /\ InTime(proc[p])'
  <2>1. Beats(p) => clock < proc[p].beat + Late
    BY DEF Tick
  <2>2. proc[p] \in Procs /\ clock \in Nat /\ Late \in Nat
    BY ClaimOnFile, TtlAssumption
  <2>3. Beats(p) => proc[p].beat <= clock' /\ clock' <= proc[p].beat + Late
    BY <1>1, <2>1, <2>2, ClaimOnFile DEF InTime, InTimeBy, Beats, Procs
  <2>4. InStep(proc[p])'
    BY <1>1 DEF IInv, InStep
  <2> QED BY <1>1, <2>3, <2>4, ClaimOnFile DEF InTime, InTimeBy, Beats
<1> QED BY <1>2, <1>3 DEF IInv

LEMMA CommandStep == ASSUME IInv, NEW p \in Process, Command(p) PROVE IInv'
PROOF
<1>1. CASE BeginClaim(p) \/ BeginPick(p)
  BY <1>1, BeginStep DEF BeginClaim, BeginPick
<1>2. CASE BeginPoll(p) \/ BeginWork(p)
  BY <1>2, BeginPollStep, BeginWorkStep
<1>3. CASE ManualHeartbeat(p) \/ ManualTransition(p) \/ Release(p) \/ Reassign(p)
  BY <1>3, ManualHeartbeatStep, ManualTransitionStep, ReleaseStep, ReassignStep
<1> QED BY <1>1, <1>2, <1>3 DEF Command

LEMMA ContinueStep == ASSUME IInv, NEW p \in Process, Continue(p), UNCHANGED begun PROVE IInv'
PROOF BY ListStep, TryGrantedStep, TryRefusedStep, ReplyLostStep, RecordStep, FetchStep, EnsureStep,
         FirstBeatStep, UnguardedStep, BeatStep, BeatEndsStep, WorkEndsStep, PublishStep, ClearStep
      DEF Continue

LEMMA NextStep == IInv /\ [Next]_vars => IInv'
PROOF
<1> SUFFICES ASSUME IInv, [Next]_vars PROVE IInv'
  OBVIOUS
<1>1. CASE UNCHANGED vars
  BY <1>1 DEF vars, IInv, TypeOK, TokensOnce, InStep, InTime, InTimeBy
<1>2. CASE Next
  BY <1>2, TickStep, CommandStep, ContinueStep DEF Next
<1> QED BY <1>1, <1>2

-----------------------------------------------------------------------------
(***************************************************************************)
(* What holds of every run of the commands, however they and their calls   *)
(* interleave, fail or end.                                                *)
(***************************************************************************)
\* The invariant holds.
THEOREM Invariance == Spec => []IInv
PROOF BY InitIInv, NextStep, PTL DEF Spec

\* Every variable keeps to its type.
THEOREM Typing == Spec => []TypeOK
PROOF
<1>1. IInv => TypeOK
  BY DEF IInv
<1> QED BY <1>1, Invariance, PTL

\* A lock token is in one lock at a time and in none once it was given back: a claim that
\* was released or reassigned never owns its spec again (gateway_ops.py keeps it on file).
THEOREM FreshTokens == Spec => []TokensOnce
PROOF
<1>1. IInv => TokensOnce
  BY DEF IInv
<1> QED BY <1>1, Invariance, PTL

\* Work under a claim with a living heartbeat thread is work on one spec that nobody else
\* has, and a guarded command that reports success had it all the while
\* (run_with_remote_claim_heartbeat).
THEOREM WorkIsClaimed == Spec => []ClaimedWork
PROOF
<1>1. ASSUME IInv, NEW p \in Process, Beats(p)
      PROVE  Owns(proc[p].claim, proc[p].spec) \/ proc[p].claim.token \in ended
  <2>1. /\ proc[p] \in Procs /\ InTime(proc[p]) /\ proc[p].spec \in SpecId
        /\ clock \in Nat /\ Late \in Nat /\ lock[proc[p].spec] \in Locks
    BY <1>1, ClaimOnFile, TtlAssumption DEF InStep, Beats
  <2> QED BY <1>1, <2>1 DEF InTime, InTimeBy, Beats, Owns, Live, Expired, Procs, Locks
<1>2. ASSUME IInv, NEW p \in Process, proc[p].at = "success", Guarded(p), proc[p].intruded
      PROVE  proc[p].claim.token \in ended
  <2>1. proc[p].worker = "alive"
    BY <1>2, ClaimOnFile DEF Guarded, InStep, Procs, Worker
  <2> QED BY <1>2, <2>1, ClaimOnFile DEF InTime, InTimeBy
<1>3. IInv => ClaimedWork
  BY <1>1, <1>2 DEF ClaimedWork, WorkHeld, SuccessWasHeld, OneSpecPerCommand, IInv, InStep
<1> QED BY <1>3, Invariance, PTL

-----------------------------------------------------------------------------
(***************************************************************************)
(* Approvals and plans.                                                    *)
(***************************************************************************)
\* There is no finding where nothing is wrong.
LEMMA FindNone ==
  ASSUME NEW wrong, NEW name
  PROVE  Find(wrong, name) = {} <=> ~wrong
BY DEF Find

\* What the governance of a schema from the third on makes sure of.
LEMMA Governed ==
  ASSUME NEW doc, doc.schema \in Int, doc.schema >= 3,
         NEW slices, GovernanceFindings(doc, slices) = {}
  PROVE  /\ BreakdownFindings(doc) = {}
         /\ Cardinality(slices) # 0
         /\ \A s, t \in slices : s # t /\ s.hot # None /\ s.repo = t.repo => s.hot # t.hot
<1>1. ~(doc.schema < 3)
  OBVIOUS
<1>2. BreakdownFindings(doc) = {}
  BY <1>1 DEF GovernanceFindings
<1>3. Cardinality(slices) # 0
  BY <1>1 DEF GovernanceFindings
<1>4. Find(\E s, t \in slices : s # t /\ s.hot # None /\ s.repo = t.repo /\ s.hot = t.hot,
           "shared-hot-area") = {}
  BY <1>1, <1>3 DEF GovernanceFindings
<1>5. QED
  BY <1>2, <1>3, <1>4, FindNone

\* What a breakdown without findings makes sure of.
LEMMA BrokenDown ==
  ASSUME NEW doc, BreakdownFindings(doc) = {}
  PROVE  /\ Kept(doc) = DOMAIN doc.slices
         /\ \A i \in Read(doc) : doc.slices[i].hot # None
         /\ \A i \in Kept(doc) : doc.slices[i].deps \subseteq KeptNames(doc)
<1>1. /\ Find(Kept(doc) # DOMAIN doc.slices, "slice-dropped") = {}
      /\ Find(\E i \in Read(doc) : doc.slices[i].hot = None, "no-hot-area") = {}
      /\ Find(\E i \in Kept(doc) : ~(doc.slices[i].deps \subseteq KeptNames(doc)), "slice-depends") = {}
  BY DEF BreakdownFindings
<1>2. QED
  BY <1>1, FindNone

\* A path that routes lies below a root of its repo.
LEMMA RoutedUnder ==
  ASSUME NEW t \in Path, Routed(t)
  PROVE  Under(TargetRoots[RepoOf(t)], Relative(t))
BY DEF Route, Routed, RepoOf, Relative

\* The repos of a list of paths are finitely many.
LEMMA ReposFinite ==
  ASSUME NEW paths \in Seq(Path)
  PROVE  IsFiniteSet(ReposOf(paths))
<1> DEFINE S == {j \in DOMAIN paths : Routed(paths[j])}
           f == [i \in S |-> RepoOf(paths[i])]
<1>1. IsFiniteSet(S)
  <2>1. DOMAIN paths = 1..Len(paths) /\ Len(paths) \in Nat
    OBVIOUS
  <2>2. IsFiniteSet(1..Len(paths))
    BY <2>1, FS_Interval
  <2>3. S \in SUBSET (1..Len(paths))
    BY <2>1
  <2>4. QED
    BY <2>2, <2>3, FS_Subset
<1>2. f \in [S -> ReposOf(paths)]
  BY DEF ReposOf
<1>3. \A t \in ReposOf(paths) : \E s \in S : f[s] = t
  BY DEF ReposOf
<1>4. f \in Surjection(S, ReposOf(paths))
  BY <1>2, <1>3, Fun_IsSurj
<1>5. QED
  BY <1>1, <1>4, FS_Surjection

\* Targets of one slice share their repo.
LEMMA OneRepo ==
  ASSUME NEW paths \in Seq(Path), AllRouted(paths), Cardinality(ReposOf(paths)) = 1,
         NEW i \in DOMAIN paths, NEW j \in DOMAIN paths
  PROVE  RepoOf(paths[i]) = RepoOf(paths[j])
<1>1. PICK p : ReposOf(paths) = {p}
  BY ReposFinite, FS_Singleton
<1>2. RepoOf(paths[i]) \in ReposOf(paths) /\ RepoOf(paths[j]) \in ReposOf(paths)
  BY DEF AllRouted, ReposOf
<1>3. QED
  BY <1>1, <1>2

\* The slices that are kept have names of their own.
LEMMA OwnName ==
  ASSUME NEW doc, Document(doc), NEW i \in Kept(doc), NEW j \in Kept(doc),
         doc.slices[i].name = doc.slices[j].name
  PROVE  i = j
<1>1. i \in Read(doc) /\ j \in Read(doc)
  BY DEF Kept
<1>2. i \in Nat /\ j \in Nat /\ i > 0 /\ j > 0
  BY <1>1 DEF Document, Read
<1>3. ~(i < j)
  <2>1. i < j => i \in 1..(j - 1)
    BY <1>2
  <2>2. QED
    BY <1>1, <2>1 DEF Read
<1>4. ~(j < i)
  <2>1. j < i => j \in 1..(i - 1)
    BY <1>2
  <2>2. QED
    BY <1>1, <2>1 DEF Read
<1>5. QED
  BY <1>2, <1>3, <1>4

\* Every kept slice is in one repo, with targets the document declares.
LEMMA KeptSound ==
  ASSUME NEW doc, Document(doc), NEW i \in Kept(doc), NEW x, x = SliceOf(doc.slices[i])
  PROVE  /\ x.targets # {}
         /\ \A t \in x.targets :
              t \in ToSet(doc.targets) /\ RepoOf(t) = x.repo /\ Under(TargetRoots[x.repo], Relative(t))
<1> DEFINE paths == doc.slices[i].targets
<1>1. paths \in Seq(Path) /\ paths # <<>>
  BY DEF Kept, Read, Document
<1>2. AllRouted(paths) /\ Cardinality(ReposOf(paths)) = 1 /\ ToSet(paths) \subseteq ToSet(doc.targets)
  BY DEF Kept, Declared
<1>3. x.targets = ToSet(paths) /\ x.repo = RepoOf(paths[1])
  BY DEF SliceOf
<1>4. 1 \in DOMAIN paths
  BY <1>1
<1>5. x.targets # {}
  BY <1>3, <1>4 DEF ToSet
<1> HIDE DEF paths
<1>6. ASSUME NEW t \in x.targets
      PROVE  t \in ToSet(doc.targets) /\ RepoOf(t) = x.repo /\ Under(TargetRoots[x.repo], Relative(t))
  <2>1. PICK j \in DOMAIN paths : t = paths[j]
    BY <1>3, <1>6 DEF ToSet
  <2>2. t \in Path /\ Routed(t)
    BY <1>1, <1>2, <2>1 DEF AllRouted
  <2>3. RepoOf(t) = x.repo
    BY <1>1, <1>2, <1>3, <1>4, <2>1, OneRepo
  <2>4. QED
    BY <1>2, <1>3, <2>2, <2>3, RoutedUnder
<1>7. QED
  BY <1>5, <1>6

\* What plan asks of a document.
Fit(doc) ==
    /\ doc.targets # <<>>
    /\ AllRouted(doc.targets)
    /\ GovernanceFindings(doc, Breakdown(doc)) = {}

\* The slices a plan would have are sound, as PlansSound has it.
Sound(doc, slices) ==
    /\ slices # {}
    /\ \A x, y \in slices : x.name = y.name => x = y
    /\ \A x \in slices : x.targets # {} /\ \A t \in x.targets :
         t \in ToSet(doc.targets) /\ RepoOf(t) = x.repo /\ Under(TargetRoots[x.repo], Relative(t))
    /\ doc.schema >= 3 =>
         /\ {doc.slices[i].name : i \in DOMAIN doc.slices} = {x.name : x \in slices}
         /\ \A x \in slices : x.deps \subseteq {y.name : y \in slices}
         /\ \A x, y \in slices : x # y => <<x.repo, x.hot>> # <<y.repo, y.hot>>

\* From the third schema on there is a breakdown.
LEMMA HasBreakdown ==
  ASSUME NEW doc, Document(doc), Fit(doc), doc.schema >= 3
  PROVE  Breakdown(doc) # {}
<1>1. Cardinality(Breakdown(doc)) # 0
  BY Governed DEF Document, Fit
<1>2. QED
  BY <1>1, FS_EmptySet

\* The names of a breakdown are those of the slices that are kept.
LEMMA BreakdownNames ==
  ASSUME NEW doc
  PROVE  {x.name : x \in Breakdown(doc)} = KeptNames(doc)
<1>1. \A i : SliceOf(doc.slices[i]).name = doc.slices[i].name
  BY DEF SliceOf
<1>2. QED
  BY <1>1 DEF Breakdown, KeptNames

\* A breakdown that passed the governance is sound.
LEMMA BreakdownSound ==
  ASSUME NEW doc, Document(doc), Fit(doc), Breakdown(doc) # {}
  PROVE  Sound(doc, Breakdown(doc))
<1>1. \A x \in Breakdown(doc) : \E i \in Kept(doc) : x = SliceOf(doc.slices[i])
  BY DEF Breakdown
<1>2. \A i : /\ SliceOf(doc.slices[i]).name = doc.slices[i].name
             /\ SliceOf(doc.slices[i]).deps = doc.slices[i].deps
             /\ SliceOf(doc.slices[i]).hot = doc.slices[i].hot
  BY DEF SliceOf
<1>3. ASSUME NEW x \in Breakdown(doc), NEW y \in Breakdown(doc), x.name = y.name
      PROVE  x = y
  <2>1. PICK i \in Kept(doc) : x = SliceOf(doc.slices[i])
    BY <1>1
  <2>2. PICK j \in Kept(doc) : y = SliceOf(doc.slices[j])
    BY <1>1
  <2>3. doc.slices[i].name = doc.slices[j].name
    BY <1>2, <1>3, <2>1, <2>2
  <2>4. i = j
    BY <2>3, OwnName
  <2>5. QED
    BY <2>1, <2>2, <2>4
<1>4. \A x \in Breakdown(doc) : x.targets # {} /\ \A t \in x.targets :
         t \in ToSet(doc.targets) /\ RepoOf(t) = x.repo /\ Under(TargetRoots[x.repo], Relative(t))
  BY <1>1, KeptSound
<1>5. ASSUME doc.schema >= 3
      PROVE  /\ {doc.slices[i].name : i \in DOMAIN doc.slices} = {x.name : x \in Breakdown(doc)}
             /\ \A x \in Breakdown(doc) : x.deps \subseteq {y.name : y \in Breakdown(doc)}
             /\ \A x, y \in Breakdown(doc) : x # y => <<x.repo, x.hot>> # <<y.repo, y.hot>>
  <2>1. /\ BreakdownFindings(doc) = {}
        /\ \A s, t \in Breakdown(doc) :
              s # t /\ s.hot # None /\ s.repo = t.repo => s.hot # t.hot
    BY <1>5, Governed DEF Document, Fit
  <2>2. /\ Kept(doc) = DOMAIN doc.slices
        /\ \A i \in Read(doc) : doc.slices[i].hot # None
        /\ \A i \in Kept(doc) : doc.slices[i].deps \subseteq KeptNames(doc)
    BY <2>1, BrokenDown
  <2>3. {doc.slices[i].name : i \in DOMAIN doc.slices} = {x.name : x \in Breakdown(doc)}
    BY <2>2, BreakdownNames DEF KeptNames
  <2>4. \A x \in Breakdown(doc) : x.deps \subseteq {y.name : y \in Breakdown(doc)}
    BY <1>1, <1>2, <2>2, BreakdownNames
  <2>5. \A x \in Breakdown(doc) : x.hot # None
    BY <1>1, <1>2, <2>2 DEF Kept
  <2>6. QED
    BY <2>1, <2>3, <2>4, <2>5
<1>6. QED
  BY <1>3, <1>4, <1>5 DEF Sound

\* Where no slice is declared, every repo of the targets is one.
Whole(doc) ==
    {[name |-> MainSlice[p], repo |-> p, hot |-> None, deps |-> {}, executor |-> "implementation",
      targets |-> {t \in Declared(doc) : RepoOf(t) = p}] : p \in ReposOf(doc.targets)}

\* The configuration gives slices of whole repos names that tell the repos apart.
PrefixesApart ==
    \A t, u \in Path : MainSlice[RepoOf(t)] = MainSlice[RepoOf(u)] => RepoOf(t) = RepoOf(u)

\* Slices of whole repos are sound.
LEMMA WholeSound ==
  ASSUME PrefixesApart, NEW doc, Document(doc), Fit(doc), ~(doc.schema >= 3)
  PROVE  Sound(doc, Whole(doc))
<1> DEFINE paths == doc.targets
<1>1. paths \in Seq(Path) /\ paths # <<>> /\ AllRouted(paths)
  BY DEF Document, Fit
<1>2. 1 \in DOMAIN paths
  BY <1>1
<1>3. Declared(doc) = ToSet(paths)
  BY DEF Declared
<1>4. \A t \in ToSet(paths) : t \in Path /\ Routed(t)
  BY <1>1 DEF ToSet, AllRouted
<1>5. \A p \in ReposOf(paths) : \E t \in ToSet(paths) : p = RepoOf(t)
  BY DEF ReposOf, ToSet
<1>6. RepoOf(paths[1]) \in ReposOf(paths)
  BY <1>1, <1>2 DEF ReposOf, AllRouted
<1>7. \A x \in Whole(doc) : \E p \in ReposOf(paths) :
         x.name = MainSlice[p] /\ x.repo = p /\ x.targets = {t \in ToSet(paths) : RepoOf(t) = p}
  BY <1>3 DEF Whole
<1>8. Whole(doc) # {}
  BY <1>6 DEF Whole
<1> HIDE DEF paths
<1>9. \A p, q \in ReposOf(paths) : MainSlice[p] = MainSlice[q] => p = q
  BY <1>4, <1>5 DEF PrefixesApart
<1>10. ASSUME NEW x \in Whole(doc), NEW y \in Whole(doc), x.name = y.name
       PROVE  x = y
  <2>1. x.repo \in ReposOf(paths) /\ y.repo \in ReposOf(paths) /\ x.repo = y.repo
    BY <1>7, <1>9, <1>10
  <2>2. QED
    BY <2>1 DEF Whole
<1>11. ASSUME NEW x \in Whole(doc)
       PROVE  x.targets # {} /\ \A t \in x.targets :
                t \in ToSet(paths) /\ RepoOf(t) = x.repo /\ Under(TargetRoots[x.repo], Relative(t))
  BY <1>4, <1>5, <1>7, RoutedUnder
<1>12. QED
  BY <1>8, <1>10, <1>11 DEF Sound, paths

\* A plan that is made is sound.
LEMMA SlicesSound ==
  ASSUME PrefixesApart, NEW doc, Document(doc), Fit(doc)
  PROVE  Sound(doc, PlanSlices(doc))
<1>1. CASE Breakdown(doc) # {}
  BY <1>1, BreakdownSound DEF PlanSlices
<1>2. CASE Breakdown(doc) = {}
  <2>1. ~(doc.schema >= 3)
    BY <1>2, HasBreakdown
  <2>2. PlanSlices(doc) = Whole(doc)
    BY <1>2 DEF PlanSlices, Whole
  <2>3. QED
    BY <2>1, <2>2, WholeSound
<1>3. QED
  BY <1>1, <1>2

-----------------------------------------------------------------------------
\* Findings about a document that other specs have no part in.
Clean(doc, w) ==
    /\ FormFindings(doc) = {}
    /\ LostTests(doc, w) = {}
    /\ MatrixFindings(doc) = {}
    /\ CatalogFindings(doc, w) = {}
    /\ StackFindings(doc, w) = {}
    /\ GovernanceFindings(doc, Breakdown(doc)) = {}
    /\ OpenFindings(doc) = {}

\* Two documents that differ in their status only.
SameBut(e, doc) ==
    /\ e.readable = doc.readable /\ e.ill = doc.ill /\ e.missing = doc.missing
    /\ e.schema = doc.schema /\ e.todo = doc.todo
    /\ e.targets = doc.targets /\ e.tests = doc.tests /\ e.dependsOn = doc.dependsOn
    /\ e.needs = doc.needs /\ e.services = doc.services /\ e.projects = doc.projects
    /\ e.stackIll = doc.stackIll /\ e.reason = doc.reason /\ e.phases = doc.phases
    /\ e.noDomain = doc.noDomain /\ e.breakdown = doc.breakdown /\ e.slices = doc.slices
    /\ e.matrix = doc.matrix /\ e.matrixIll = doc.matrixIll

\* Approval writes the status and nothing else.
LEMMA StatusOnly ==
  ASSUME NEW doc, Document(doc), NEW e, e = [doc EXCEPT !.status = "approved"]
  PROVE  SameBut(e, doc) /\ e.status = "approved" /\ Document(e)
BY DEF Document, SameBut

\* The slices of a document do not depend on its status.
LEMMA SameSlices ==
  ASSUME NEW doc, NEW e, SameBut(e, doc)
  PROVE  /\ Breakdown(e) = Breakdown(doc)
         /\ BreakdownFindings(e) = BreakdownFindings(doc)
         /\ \A slices : GovernanceFindings(e, slices) = GovernanceFindings(doc, slices)
<1>1. Declared(e) = Declared(doc)
  BY DEF SameBut, Declared
<1>2. Read(e) = Read(doc)
  BY DEF SameBut, Read
<1>3. Kept(e) = Kept(doc)
  BY <1>1, <1>2 DEF SameBut, Kept
<1>4. KeptNames(e) = KeptNames(doc) /\ Breakdown(e) = Breakdown(doc)
  BY <1>3 DEF SameBut, KeptNames, Breakdown
<1>5. BreakdownFindings(e) = BreakdownFindings(doc)
  BY <1>2, <1>3, <1>4 DEF SameBut, BreakdownFindings
<1>6. MinSlices(e) = MinSlices(doc)
  BY DEF SameBut, MinSlices, TargetRootsOf
<1>7. \A slices : GovernanceFindings(e, slices) = GovernanceFindings(doc, slices)
  BY <1>5, <1>6 DEF SameBut, GovernanceFindings
<1>8. QED
  BY <1>4, <1>5, <1>7

\* Neither do the other findings.
LEMMA SameClean ==
  ASSUME NEW doc, NEW e, SameBut(e, doc), NEW w, Clean(doc, w)
  PROVE  Clean(e, w)
<1>1. FormFindings(e) = FormFindings(doc)
  BY DEF SameBut, FormFindings, Malformed
<1>2. LostTests(e, w) = LostTests(doc, w)
  BY DEF SameBut, LostTests
<1>3. MatrixFindings(e) = MatrixFindings(doc)
  <2>1. Profiles(e) = Profiles(doc)
    BY DEF SameBut, Profiles
  <2>2. QED
    BY <2>1 DEF SameBut, MatrixFindings
<1>4. CatalogFindings(e, w) = CatalogFindings(doc, w)
  BY DEF SameBut, CatalogFindings
<1>5. StackFindings(e, w) = StackFindings(doc, w)
  BY DEF SameBut, StackFindings
<1>6. OpenFindings(e) = OpenFindings(doc)
  <2>1. Untested(e) = Untested(doc)
    BY DEF SameBut, Untested
  <2>2. QED
    BY <2>1 DEF SameBut, OpenFindings
<1>7. QED
  BY <1>1, <1>2, <1>3, <1>4, <1>5, <1>6, SameSlices DEF Clean

\* Which other specs are there, and which of these are readable and settled.
ThereOf(s, docs) == [t \in Slug \ {s} |-> docs[t] # None]
SettledOf(s, docs) ==
    [t \in Slug \ {s} |-> docs[t] # None /\ docs[t].readable /\ Settled(docs[t].status)]

\* There is another spec in the directory.
Other(s, there, bucket) == \E t \in Slug \ {s} : there[t] /\ Bucket[t] = bucket

\* What a document says about the other specs is in order.
Founded(s, doc, settled, there) ==
    /\ \A t \in doc.dependsOn : t \in Slug \ {s} /\ settled[t]
    /\ Bucket[s] = "features" =>
         /\ Other(s, there, "foundation") => \E t \in doc.dependsOn : Bucket[t] = "foundation"
         /\ Other(s, there, "domains") /\ ~doc.noDomain => \E t \in doc.dependsOn : Bucket[t] = "domains"

\* Findings about the other specs rest on no more than that.
LEMMA FoundedIff ==
  ASSUME NEW s \in Slug, NEW doc, NEW docs, DOMAIN docs = Slug, docs[s] # None
  PROVE  DependsFindings(s, doc, docs, Bucket) = {}
           <=> Founded(s, doc, SettledOf(s, docs), ThereOf(s, docs))
<1> DEFINE there == {t \in doc.dependsOn : t \in DOMAIN docs /\ docs[t] # None}
           resolved == {t \in there \ {s} : docs[t].readable}
           exists(b) == \E t \in DOMAIN docs : docs[t] # None /\ Bucket[t] = b
           named(b) == \E t \in resolved : Bucket[t] = b
           feature == Bucket[s] = "features"
           All == /\ there = doc.dependsOn
                  /\ s \notin there
                  /\ \A t \in there \ {s} : docs[t].readable
                  /\ \A t \in resolved : Settled(docs[t].status)
                  /\ ~(feature /\ exists("foundation") /\ ~named("foundation"))
                  /\ ~(feature /\ exists("domains") /\ ~named("domains") /\ ~doc.noDomain)
<1>1. DependsFindings(s, doc, docs, Bucket) = {} <=> All
  BY DEF DependsFindings, Find
<1>2. ASSUME NEW b, b # "features", feature
      PROVE  exists(b) <=> Other(s, ThereOf(s, docs), b)
  BY <1>2 DEF Other, ThereOf
<1>3. /\ there = doc.dependsOn
      /\ s \notin there
      /\ \A t \in there \ {s} : docs[t].readable
      /\ \A t \in resolved : Settled(docs[t].status)
      <=> \A t \in doc.dependsOn : t \in Slug \ {s} /\ SettledOf(s, docs)[t]
  <2>1. ASSUME there = doc.dependsOn, s \notin there, \A t \in there \ {s} : docs[t].readable,
               \A t \in resolved : Settled(docs[t].status)
        PROVE  \A t \in doc.dependsOn : t \in Slug \ {s} /\ SettledOf(s, docs)[t]
    BY <2>1 DEF SettledOf
  <2>2. ASSUME \A t \in doc.dependsOn : t \in Slug \ {s} /\ SettledOf(s, docs)[t]
        PROVE  /\ there = doc.dependsOn
               /\ s \notin there
               /\ \A t \in there \ {s} : docs[t].readable
               /\ \A t \in resolved : Settled(docs[t].status)
    BY <2>2 DEF SettledOf
  <2>3. QED
    BY <2>1, <2>2
<1>4. ASSUME there = doc.dependsOn, s \notin there, \A t \in there \ {s} : docs[t].readable
      PROVE  resolved = doc.dependsOn
  BY <1>4
<1> HIDE DEF there, resolved
<1>5. QED
  BY <1>1, <1>2, <1>3, <1>4 DEF Founded

\* Findings of approval, by what they rest on.
LEMMA Judged ==
  ASSUME NEW s \in Slug, NEW doc, NEW docs, DOMAIN docs = Slug, docs[s] # None, NEW w,
         ApprovalFindings(s, doc, docs, Bucket, w) = {}
  PROVE  Clean(doc, w) /\ Founded(s, doc, SettledOf(s, docs), ThereOf(s, docs))
<1>1. /\ Clean(doc, w)
      /\ DependsFindings(s, doc, docs, Bucket) = {}
  <2>1. /\ FormFindings(doc) = {}
        /\ LostTests(doc, w) = {}
        /\ MatrixFindings(doc) = {}
        /\ DependencyFindings(s, doc, docs, Bucket, w) = {}
        /\ GovernanceFindings(doc, Breakdown(doc)) = {}
        /\ OpenFindings(doc) = {}
    BY DEF ApprovalFindings, Find
  <2>2. /\ CatalogFindings(doc, w) = {}
        /\ StackFindings(doc, w) = {}
        /\ DependsFindings(s, doc, docs, Bucket) = {}
    BY <2>1 DEF DependencyFindings
  <2>3. QED
    BY <2>1, <2>2 DEF Clean
<1>2. QED
  BY <1>1, FoundedIff

\* Findings of CI, likewise.
LEMMA Passes ==
  ASSUME NEW s \in Slug, NEW doc, NEW docs, DOMAIN docs = Slug, docs[s] # None, NEW w,
         doc.status = "approved",
         Clean(doc, w), Founded(s, doc, SettledOf(s, docs), ThereOf(s, docs))
  PROVE  CiFindings(s, doc, docs, Bucket, w) = {}
<1>1. DependsFindings(s, doc, docs, Bucket) = {}
  BY FoundedIff
<1>2. Find(~Settled(doc.status), "status") = {}
  BY FindNone DEF Settled
<1>3. Find(LostTests(doc, w) # {}, "lost-test") = {}
  BY FindNone DEF Clean
<1>4. DependencyFindings(s, doc, docs, Bucket, w) = {}
  BY <1>1 DEF DependencyFindings, Clean
<1>5. QED
  BY <1>2, <1>3, <1>4 DEF CiFindings, Clean

-----------------------------------------------------------------------------
\* The inductive invariant.

\* Every document is one that authors or commands write.
Written == \A s \in Slug : specs[s] # None => Document(specs[s])

\* A plan has the slices of the document it was made of, whatever became of its marks.
Derived(p) ==
    /\ DOMAIN p = {"slices", "of", "marks"}
    /\ p.slices = PlanSlices(p.of)
    /\ Document(p.of) /\ Fit(p.of)

\* An approval on file is of a document that nothing was found in, in what it rests on.
Vouch(s, doc, v) ==
    /\ Document(doc) /\ doc.status = "approved"
    /\ Clean(doc, v[1])
    /\ Founded(s, doc, v[2], v[3])

LibraryInv ==
    /\ DOMAIN specs = Slug /\ DOMAIN approval = Slug /\ DOMAIN plan = Slug /\ DOMAIN vouched = Slug
    /\ Written
    /\ \A s \in Slug : plan[s] # None => Derived(plan[s])
    /\ \A s \in Slug : approval[s] # None => Vouch(s, approval[s], vouched[s])


\* The first state.
LEMMA LibraryStart == LibraryInit => LibraryInv
BY DEF LibraryInit, LibraryInv, Written

\* What the findings about a spec rest on, as the invariant writes it.
LEMMA AroundIs ==
  ASSUME NEW s
  PROVE  Around(s) = <<world, SettledOf(s, specs), ThereOf(s, specs)>>
BY DEF Around, SettledOf, ThereOf

\* A step keeps the documents whole.
LEMMA KeepsWritten ==
  LibraryInv /\ [LibraryNext]_library => DOMAIN specs' = Slug /\ Written'
<1> SUFFICES ASSUME LibraryInv, [LibraryNext]_library
             PROVE  DOMAIN specs' = Slug /\ Written'
  OBVIOUS
<1> USE DEF LibraryInv, Written
<1>1. ASSUME NEW s \in Slug, Create(s)
      PROVE  DOMAIN specs' = Slug /\ Written'
  BY <1>1, DocumentsAssumption DEF Create
<1>2. ASSUME NEW s \in Slug, NEW doc \in Drafts[s], Save(s, doc)
      PROVE  DOMAIN specs' = Slug /\ Written'
  BY <1>2, DocumentsAssumption DEF Save
<1>3. ASSUME NEW s \in Slug, Approve(s)
      PROVE  DOMAIN specs' = Slug /\ Written'
  <2>1. Document([specs[s] EXCEPT !.status = "approved"])
    BY <1>3, StatusOnly DEF Approve, Approvable
  <2>2. QED
    BY <1>3, <2>1 DEF Approve
<1>4. CASE specs' = specs
  BY <1>4
<1>5. QED
  BY <1>1, <1>2, <1>3, <1>4
     DEF LibraryNext, library, Review, MakePlan, PlanApprove, Execute, Verify, Close, Change

\* A step keeps plans derived from their documents.
LEMMA KeepsDerived ==
  LibraryInv /\ [LibraryNext]_library =>
    DOMAIN plan' = Slug /\ \A s \in Slug : plan'[s] # None => Derived(plan'[s])
<1> SUFFICES ASSUME LibraryInv, [LibraryNext]_library
             PROVE  DOMAIN plan' = Slug /\ \A s \in Slug : plan'[s] # None => Derived(plan'[s])
  OBVIOUS
<1>0. DOMAIN plan = Slug /\ \A s \in Slug : plan[s] # None => Derived(plan[s])
  BY DEF LibraryInv
<1>1. ASSUME NEW s \in Slug, MakePlan(s)
      PROVE  DOMAIN plan' = Slug /\ \A t \in Slug : plan'[t] # None => Derived(plan'[t])
  <2>1. Document(specs[s]) /\ Fit(specs[s])
    BY <1>1 DEF MakePlan, Plannable, LibraryInv, Written, Fit
  <2>2. Derived(NewPlan(s))
    BY <2>1 DEF NewPlan, Derived
  <2>3. QED
    BY <1>0, <1>1, <2>2 DEF MakePlan
<1>2. ASSUME NEW s \in Slug, NEW n, NEW passed, Verify(s, n, passed)
      PROVE  DOMAIN plan' = Slug /\ \A t \in Slug : plan'[t] # None => Derived(plan'[t])
  <2>1. Derived(plan[s])
    BY <1>0, <1>2 DEF Verify
  <2>2. PICK marks : plan' = [plan EXCEPT ![s] = [plan[s] EXCEPT !.marks = marks]]
    BY <1>2 DEF Verify
  <2>3. Derived([plan[s] EXCEPT !.marks = marks])
    BY <2>1 DEF Derived
  <2>4. QED
    BY <1>0, <2>2, <2>3
<1>3. ASSUME NEW s \in Slug, Close(s)
      PROVE  DOMAIN plan' = Slug /\ \A t \in Slug : plan'[t] # None => Derived(plan'[t])
  <2>1. Derived(plan[s])
    BY <1>0, <1>3 DEF Close, Closable
  <2>2. PICK marks : plan' = [plan EXCEPT ![s] = [plan[s] EXCEPT !.marks = marks]]
    BY <1>3 DEF Close
  <2>3. Derived([plan[s] EXCEPT !.marks = marks])
    BY <2>1 DEF Derived
  <2>4. QED
    BY <1>0, <2>2, <2>3
<1>4. CASE plan' = plan
  BY <1>0, <1>4
<1>5. QED
  BY <1>1, <1>2, <1>3, <1>4
     DEF LibraryNext, library, Create, Save, Review, Approve, PlanApprove, Execute, Change

\* A step keeps approvals vouched for.
LEMMA KeepsVouched ==
  LibraryInv /\ [LibraryNext]_library =>
    /\ DOMAIN approval' = Slug /\ DOMAIN vouched' = Slug
    /\ \A s \in Slug : approval'[s] # None => Vouch(s, approval'[s], vouched'[s])
<1> DEFINE Goal == /\ DOMAIN approval' = Slug /\ DOMAIN vouched' = Slug
                   /\ \A s \in Slug : approval'[s] # None => Vouch(s, approval'[s], vouched'[s])
<1> SUFFICES ASSUME LibraryInv, [LibraryNext]_library
             PROVE  Goal
  OBVIOUS
<1>0. /\ DOMAIN approval = Slug /\ DOMAIN vouched = Slug
      /\ \A s \in Slug : approval[s] # None => Vouch(s, approval[s], vouched[s])
  BY DEF LibraryInv
<1>1. ASSUME NEW s \in Slug, Create(s)
      PROVE  Goal
  BY <1>0, <1>1 DEF Create
<1>2. ASSUME NEW s \in Slug, Approve(s)
      PROVE  Goal
  <2> DEFINE doc == specs[s]
             approved == [doc EXCEPT !.status = "approved"]
             v == <<world, SettledOf(s, specs), ThereOf(s, specs)>>
  <2>1. /\ approval' = [approval EXCEPT ![s] = approved]
        /\ vouched' = [vouched EXCEPT ![s] = v]
    BY <1>2, AroundIs DEF Approve
  <2>2. Document(doc) /\ DOMAIN specs = Slug /\ doc # None
    BY <1>2 DEF Approve, Approvable, LibraryInv, Written
  <2>3. Clean(doc, world) /\ Founded(s, doc, SettledOf(s, specs), ThereOf(s, specs))
    BY <1>2, <2>2, Judged DEF Approve, Approvable, Findings
  <2>4. SameBut(approved, doc) /\ approved.status = "approved" /\ Document(approved)
    BY <2>2, StatusOnly
  <2> HIDE DEF approved, doc
  <2>5. Clean(approved, world)
    BY <2>3, <2>4, SameClean
  <2>6. Founded(s, approved, SettledOf(s, specs), ThereOf(s, specs))
    BY <2>3, <2>4 DEF Founded, SameBut
  <2>7. Vouch(s, approved, v)
    BY <2>4, <2>5, <2>6 DEF Vouch
  <2> HIDE DEF v
  <2>8. QED
    BY <1>0, <2>1, <2>7
<1>3. CASE approval' = approval /\ vouched' = vouched
  BY <1>0, <1>3
<1>4. QED
  BY <1>1, <1>2, <1>3
     DEF LibraryNext, library, Save, Review, MakePlan, PlanApprove, Execute, Verify, Close, Change

\* The invariant holds of every state there can be.
THEOREM LibraryInvariance == LibrarySpec => []LibraryInv
<1>1. LibraryInv /\ [LibraryNext]_library => LibraryInv'
  BY KeepsWritten, KeepsDerived, KeepsVouched DEF LibraryInv
<1>2. QED
  BY <1>1, LibraryStart, PTL DEF LibrarySpec

-----------------------------------------------------------------------------
\* The plan of a document that was made of it meets its governance again.
LEMMA StillMeets ==
  ASSUME NEW doc, Document(doc), Fit(doc),
         NEW slices, slices = PlanSlices(doc) \/ slices = Breakdown(doc)
  PROVE  PlanGovernance(doc, slices) = {}
<1>1. CASE doc.schema >= 3
  <2>1. Breakdown(doc) # {}
    BY <1>1, HasBreakdown
  <2>2. slices = Breakdown(doc)
    BY <2>1 DEF PlanSlices
  <2>3. GovernanceFindings(doc, slices) = {}
    BY <2>2 DEF Fit
  <2>4. {x.name : x \in slices} = KeptNames(doc)
    BY <2>2, BreakdownNames
  <2>5. QED
    BY <2>3, <2>4 DEF PlanGovernance, Find
<1>2. CASE ~(doc.schema >= 3)
  <2>1. doc.schema < 3
    BY <1>2 DEF Document
  <2>2. GovernanceFindings(doc, slices) = {}
    BY <2>1 DEF GovernanceFindings
  <2>3. QED
    BY <1>2, <2>2 DEF PlanGovernance, Find
<1>3. QED
  BY <1>1, <1>2

\* An approval that stands is worth what it says.
LEMMA Stands == LibraryInv => ApprovedStands
<1> SUFFICES ASSUME LibraryInv, NEW s \in There, SpecApproved(s), vouched[s] = Around(s)
             PROVE  /\ CiFindings(s, specs[s], specs, Bucket, world) = {}
                    /\ specs[s].targets # <<>> =>
                         /\ Plannable(s)
                         /\ plan[s] = None \/ plan[s].of = specs[s] => ~NextStepRefuses(s) /\ AdviceTakes(s)
  BY DEF ApprovedStands
<1> DEFINE doc == specs[s]
<1>1. s \in Slug /\ doc # None /\ DOMAIN specs = Slug
  BY DEF There, LibraryInv
<1>2. Vouch(s, doc, Around(s))
  BY <1>1 DEF SpecApproved, LibraryInv
<1>3. /\ Document(doc) /\ doc.status = "approved"
      /\ Clean(doc, world)
      /\ Founded(s, doc, SettledOf(s, specs), ThereOf(s, specs))
  <2>1. Vouch(s, doc, <<world, SettledOf(s, specs), ThereOf(s, specs)>>)
    BY <1>2, AroundIs
  <2>2. QED
    BY <2>1 DEF Vouch
<1>4. CiFindings(s, doc, specs, Bucket, world) = {}
  BY <1>1, <1>3, Passes
<1>5. ASSUME doc.targets # <<>>
      PROVE  Fit(doc) /\ Plannable(s)
  <2>1. AllRouted(doc.targets)
    BY <1>3, FindNone DEF Clean, FormFindings
  <2>2. GovernanceFindings(doc, Breakdown(doc)) = {}
    BY <1>3 DEF Clean
  <2>3. QED
    BY <1>1, <1>3, <1>5, <2>1, <2>2 DEF Fit, Plannable, Executable
<1>6. ASSUME doc.targets # <<>>, plan[s] = None \/ plan[s].of = doc
      PROVE  ~NextStepRefuses(s) /\ AdviceTakes(s)
  <2>1. Fit(doc) /\ Plannable(s)
    BY <1>5, <1>6
  <2>2. plan[s] # None => plan[s].slices = PlanSlices(doc)
    BY <1>1, <1>6 DEF LibraryInv, Derived
  <2>3. /\ PlanGovernance(doc, Breakdown(doc)) = {}
        /\ plan[s] # None => PlanGovernance(doc, plan[s].slices) = {}
    BY <1>3, <2>1, <2>2, StillMeets
  <2>4. ~NextStepRefuses(s)
    BY <2>3 DEF NextStepRefuses
  <2>5. \A released \in BOOLEAN : Stage(s, released) = "execution-ready" => StillGoverned(s)
    BY <1>1, <1>3, <2>3 DEF Stage, StillGoverned, Terminal, Executable
  <2>6. \A released \in BOOLEAN : Stage(s, released) = "ready-for-merge" => Closable(s)
    BY <1>1, <1>3 DEF Stage, Closable, Terminal, Executable
  <2>7. AdviceTakes(s)
    BY <2>1, <2>5, <2>6 DEF AdviceTakes
  <2>8. QED
    BY <2>4, <2>7
<1>7. QED
  BY <1>4, <1>5, <1>6

\* Where the configuration names repos apart, every plan is sound: its names tell its slices
\* apart, each slice is in one repo with declared targets below its roots, and from the
\* third schema on nothing that is declared is left out, no dependency is unknown and no
\* hot area is shared (features.py 812, specs.py 607).
THEOREM SoundPlans == PrefixesApart => (LibrarySpec => []PlansSound)
<1>1. PrefixesApart /\ LibraryInv => PlansSound
  <2> SUFFICES ASSUME PrefixesApart, LibraryInv, NEW s \in Slug, plan[s] # None
               PROVE  Sound(plan[s].of, plan[s].slices)
    BY DEF PlansSound, Sound
  <2>1. Derived(plan[s])
    BY DEF LibraryInv
  <2>2. QED
    BY <2>1, SlicesSound DEF Derived
<1>2. PrefixesApart => PrefixesApart'
  BY DEF PrefixesApart
<1>3. QED
  BY <1>1, <1>2, LibraryInvariance, PTL

\* An approval whose surroundings are as they were is accepted by CI, by plan and by
\* next-step, and what next-step names is accepted in turn (specs.py 975, ci.py 271,
\* workflows.py 390).
THEOREM StandingApproval == LibrarySpec => []ApprovedStands
BY Stands, LibraryInvariance, PTL
=============================================================================
