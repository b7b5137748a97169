--------------------------- MODULE SliceScheduler ---------------------------
(***************************************************************************)
(* run_slice_scheduler (flowctl/multiagent.py) as workflows.py calls it:   *)
(* every workflow run is a process with one loop and a pool of workers;    *)
(* the runs of a workspace share only the table of global locks.           *)
(*                                                                         *)
(* Every call to the lock backend is one atomic step (the instants inside  *)
(* a call are the subject of GlobalLocks); what the loop does between two  *)
(* calls is local to its run and is part of the step that follows or       *)
(* precedes it.  Expiry is relative: a row counts the seconds it has left, *)
(* so time never runs out and liveness can be checked.                     *)
(***************************************************************************)
EXTENDS Naturals, SequencesExt

CONSTANTS
    Run,            \* workflow processes
    RunId,          \* [Run -> id], the owner_run_id of each
    Slice,          \* slice names: numbers, whose order is that of sorted()
    DependsOn,      \* [Slice -> SUBSET Slice]
    Repo, RepoOf,   \* [Slice -> Repo]
    SemanticOf,     \* [Slice -> Seq(Nat)], semantic_locks as declared
    AreasOf,        \* [Slice -> Seq(Nat)], hot_areas as declared
    TargetsOf,      \* [Slice -> set of owned targets]
    MaxWorkers, PerRepoCapacity, PerHotAreaCapacity,
    Launches,       \* the ways the runs are launched and what may befall them, see `launch`
    None

ASSUME SliceAssumption ==
    /\ Slice \subseteq Nat /\ IsFiniteSet(Slice)
    /\ DependsOn \in [Slice -> SUBSET Slice] /\ RepoOf \in [Slice -> Repo]
    /\ SemanticOf \in [Slice -> Seq(Nat)] /\ AreasOf \in [Slice -> Seq(Nat)]
ASSUME OwnerAssumption == None \notin {RunId[r] : r \in Run} \X Slice
ASSUME CapacityAssumption ==
    MaxWorkers \in Nat /\ PerRepoCapacity \in Nat /\ PerHotAreaCapacity \in Nat
ASSUME LaunchAssumption ==
    Launches \subseteq [plan : [Run -> SUBSET Slice], maxRetries : Nat, ttl : Nat, maxLag : Nat,
                        canRaise : BOOLEAN, killable : SUBSET Run]

-----------------------------------------------------------------------------
\* The jobs.

\* Mutant: the declared order is kept.
SortedAsDeclared(names) == names

Sorted(names) == SetToSortSeq(ToSet(names), <)

\* Every name is in its sorted sequence, once; the proofs take from sorted() no more.
ASSUME SortedAssumption ==
    \A s \in Slice : \A names \in {SemanticOf[s], AreasOf[s]} :
        /\ Sorted(names) \in Seq(Nat) /\ IsInjective(Sorted(names))
        /\ ToSet(Sorted(names)) = ToSet(names)

HotAreas == [s \in Slice |-> ToSet(AreasOf[s])]
Area == UNION {HotAreas[s] : s \in Slice}

\* _global_lock_requests: the semantic locks, then the hot areas or else the repo.
RequestsOf(s) ==
    LET semantic == Sorted(SemanticOf[s])
        areas == Sorted(AreasOf[s])
    IN  [i \in DOMAIN semantic |-> <<"semantic", None, semantic[i]>>]
        \o IF areas = <<>>
           THEN << <<"repo", RepoOf[s], 0>> >>
           ELSE [i \in DOMAIN areas |-> <<"hot-area", RepoOf[s], areas[i]>>]

Requests == [s \in Slice |-> RequestsOf(s)]
Lock == UNION {ToSet(Requests[s]) : s \in Slice}

Overlap(s, t) == TargetsOf[s] \cap TargetsOf[t] # {}

-----------------------------------------------------------------------------
VARIABLES
    launch,         \* the launch that is played
    table,          \* global_locks: per lock its owner and the seconds it has left
    pc,             \* per run, where its loop is
    todo,           \* per run, the <<slice, lock>> calls left in the phase
    done,           \* per run, done_futures not yet looked at
    at,             \* per run, the name its pass over the pending jobs has come to
    status,         \* per run and slice, job["status"]
    attempt,        \* job["attempt"]
    acquired,       \* job["acquired_locks"]
    worker,         \* the future of the job
    completed,      \* per run, the counter that ends the loop
    byRepo, byArea, \* running_by_repo, running_by_hot_area
    lag             \* per run, seconds since its last round of heartbeats

local == <<status, attempt, acquired, completed, byRepo, byArea>>
vars == <<launch, table, pc, todo, done, at, local, worker, lag>>

Plan == launch.plan                 \* [Run -> SUBSET Slice], the run's plan.json
MaxRetries == launch.maxRetries
TTL == launch.ttl                   \* seconds a lock lives without a heartbeat
MaxLag == launch.maxLag             \* seconds a live loop takes, at most, between heartbeats
CanRaise == launch.canRaise         \* whether start_slice_callable and the backend may raise
Killable == launch.killable         \* the runs whose process may be killed

Owner(r, s) == <<RunId[r], s>>
Free == [owner |-> None, left |-> 0]
Finished == {"rc0", "rc1", "raised"}
Active == {"queued", "executing"}
Ended == {"returned", "aborted", "killed"}

\* A run without slices returns its report at once.
Init ==
    /\ launch \in Launches
    /\ table = [l \in Lock |-> Free]
    /\ pc = [r \in Run |-> IF Plan[r] = {} THEN "returned" ELSE "beat"]
    /\ todo = [r \in Run |-> {}]
    /\ done = [r \in Run |-> {}]
    /\ at = [r \in Run |-> 0]
    /\ status = [r \in Run |-> [s \in Slice |-> "pending"]]
    /\ attempt = [r \in Run |-> [s \in Slice |-> 0]]
    /\ acquired = [r \in Run |-> [s \in Slice |-> {}]]
    /\ worker = [r \in Run |-> [s \in Slice |-> "none"]]
    /\ completed = [r \in Run |-> 0]
    /\ byRepo = [r \in Run |-> [p \in Repo |-> 0]]
    /\ byArea = [r \in Run |-> [a \in Area |-> 0]]
    /\ lag = [r \in Run |-> 0]

-----------------------------------------------------------------------------
\* The lock backend.

\* Mutant: a row expires a second early.
SweptEarly == [l \in Lock |-> IF table[l].left <= 1 THEN Free ELSE table[l]]

Swept == [l \in Lock |-> IF table[l].left = 0 THEN Free ELSE table[l]]

\* The exception leaves the loop; the pool still drains, and no lock is released.
Abort(r) ==
    /\ pc' = [pc EXCEPT ![r] = "aborted"]
    /\ todo' = [todo EXCEPT ![r] = {}]
    /\ done' = [done EXCEPT ![r] = {}]
    /\ UNCHANGED <<launch, table, at, local, worker, lag>>

\* Mutant: whoever calls deletes the row.
CanReleaseAnyone(r, s, l) == TRUE

\* release: a missing row is a no-op, another owner's row raises.
CanRelease(r, s, l) == table[l].owner \in {Owner(r, s), None}

Released(l) == [table EXCEPT ![l] = Free]

-----------------------------------------------------------------------------
\* _heartbeat_running_locks

Running(r) == {s \in Plan[r] : status[r][s] = "running"}
HeldBy(r) == UNION {{s} \X acquired[r][s] : s \in Running(r)}

HeartbeatRenews(r) ==
    /\ pc[r] = "beat"
    /\ \E b \in todo[r] :
        /\ Swept[b[2]].owner = Owner(r, b[1])
        /\ table' = [Swept EXCEPT ![b[2]].left = TTL]
        /\ todo' = [todo EXCEPT ![r] = @ \ {b}]
    /\ UNCHANGED <<launch, pc, done, at, local, worker, lag>>

\* LOCK_NOT_FOUND or LOCK_NOT_OWNED is not caught.
HeartbeatRaises(r) ==
    /\ pc[r] = "beat"
    /\ \E b \in todo[r] : Swept[b[2]].owner # Owner(r, b[1])
    /\ Abort(r)

-----------------------------------------------------------------------------
\* Finalize the futures that were done when the heartbeats ended.

CollectDone(r) ==
    /\ pc[r] = "beat"
    /\ todo[r] = {}
    /\ pc' = [pc EXCEPT ![r] = "finalize"]
    /\ done' = [done EXCEPT ![r] = {s \in Plan[r] : worker[r][s] \in Finished}]
    /\ lag' = [lag EXCEPT ![r] = 0]
    /\ UNCHANGED <<launch, table, todo, at, local, worker>>

\* future.result() raises what the worker raised.
ResultRaises(r) ==
    /\ pc[r] = "finalize"
    /\ \E s \in done[r] : worker[r][s] = "raised"
    /\ Abort(r)

ResultReturns(r) ==
    /\ pc[r] = "finalize"
    /\ \E s \in done[r] :
        /\ worker[r][s] # "raised"
        /\ byRepo' = [byRepo EXCEPT ![r][RepoOf[s]] = IF @ = 0 THEN 0 ELSE @ - 1]
        /\ byArea' = [byArea EXCEPT ![r] = [a \in Area |->
                        IF a \in HotAreas[s] /\ @[a] > 0 THEN @[a] - 1 ELSE @[a]]]
        /\ done' = [done EXCEPT ![r] = @ \ {s}]
        /\ todo' = [todo EXCEPT ![r] = {s} \X acquired[r][s]]
        /\ pc' = [pc EXCEPT ![r] = "release"]
    /\ UNCHANGED <<launch, table, at, status, attempt, acquired, completed, worker, lag>>

Exhausted(r, s) == attempt[r][s] >= MaxRetries + 1

\* Mutant: a scheduled retry counts as completed.
ConcludeCountsRetry(r, s) ==
    LET outcome == IF worker[r][s] = "rc0" THEN "passed"
                   ELSE IF Exhausted(r, s) THEN "failed" ELSE "pending"
    IN  /\ status' = [status EXCEPT ![r][s] = outcome]
        /\ completed' = [completed EXCEPT ![r] = @ + 1]
        /\ acquired' = [acquired EXCEPT ![r][s] = {}]
        /\ worker' = [worker EXCEPT ![r][s] = "none"]
        /\ pc' = [pc EXCEPT ![r] = "finalize"]

\* The job's outcome, once its last lock is released.
Conclude(r, s) ==
    LET outcome == IF worker[r][s] = "rc0" THEN "passed"
                   ELSE IF Exhausted(r, s) THEN "failed" ELSE "pending"
    IN  /\ status' = [status EXCEPT ![r][s] = outcome]
        /\ completed' = [completed EXCEPT ![r] = IF outcome = "pending" THEN @ ELSE @ + 1]
        /\ acquired' = [acquired EXCEPT ![r][s] = {}]
        /\ worker' = [worker EXCEPT ![r][s] = "none"]
        /\ pc' = [pc EXCEPT ![r] = "finalize"]

ReleaseLock(r) ==
    /\ pc[r] = "release"
    /\ \E b \in todo[r] :
        /\ CanRelease(r, b[1], b[2])
        /\ table' = Released(b[2])
        /\ todo' = [todo EXCEPT ![r] = @ \ {b}]
        /\ IF todo[r] = {b} THEN Conclude(r, b[1])
           ELSE UNCHANGED <<pc, status, completed, acquired, worker>>
    /\ UNCHANGED <<launch, done, at, attempt, byRepo, byArea, lag>>

ReleaseRaises(r) ==
    /\ pc[r] = "release"
    /\ \E b \in todo[r] : ~CanRelease(r, b[1], b[2])
    /\ Abort(r)

-----------------------------------------------------------------------------
\* _mark_dependency_blocked: one pass over the names in order.

Parents(r, s) == DependsOn[s] \cap Plan[r]

\* A job is blocked by a parent that failed or was blocked before, in this pass too
\* when the parent's name comes first: the largest set of jobs of which each has such a
\* parent, which every chain of ever smaller names leads to.
BlockedNow(r) ==
    LET Founded(B) ==
          \A s \in B : \E p \in Parents(r, s) :
              status[r][p] \in {"failed", "blocked"} \/ (p < s /\ p \in B)
    IN  UNION {B \in SUBSET {s \in Plan[r] : status[r][s] = "pending"} : Founded(B)}

MarkBlocked(r) ==
    /\ pc[r] = "finalize"
    /\ done[r] = {}
    /\ status' = [status EXCEPT ![r] = [s \in Slice |->
                    IF s \in BlockedNow(r) THEN "blocked" ELSE @[s]]]
    /\ completed' = [completed EXCEPT ![r] = @ + Cardinality(BlockedNow(r))]
    /\ at' = [at EXCEPT ![r] = 0]
    /\ pc' = [pc EXCEPT ![r] = "schedule"]
    /\ UNCHANGED <<launch, table, todo, done, attempt, acquired, worker, byRepo, byArea, lag>>

-----------------------------------------------------------------------------
\* Schedule pending jobs, in order.

\* Mutant: a parent that is merely no longer pending opens the gate.
DagOpenStarted(r, s) == \A p \in Parents(r, s) : status[r][p] # "pending"

DagOpen(r, s) == \A p \in Parents(r, s) : status[r][p] = "passed"

\* Mutant: only the capacity of the repo is looked at.
CanRunAnyOverlap(r, s) == DagOpen(r, s) /\ byRepo[r][RepoOf[s]] < PerRepoCapacity

\* The gates of _can_run before the locks.
CanRun(r, s) ==
    /\ DagOpen(r, s)
    /\ byRepo[r][RepoOf[s]] < PerRepoCapacity
    /\ \A a \in HotAreas[s] : byArea[r][a] < PerHotAreaCapacity
    /\ \A t \in Running(r) : ~Overlap(s, t)

Candidates(r) ==
    {s \in Plan[r] : s >= at[r] /\ status[r][s] = "pending" /\ CanRun(r, s)}

\* The next name that passes the gates: its locks are tried, after expire_stale.
TryNext(r) ==
    /\ pc[r] = "schedule"
    /\ \E s \in Candidates(r) :
        /\ \A t \in Candidates(r) : s <= t
        /\ at' = [at EXCEPT ![r] = s]
    /\ table' = Swept
    /\ pc' = [pc EXCEPT ![r] = "acquire"]
    /\ UNCHANGED <<launch, todo, done, local, worker, lag>>

NextLock(r) == Requests[at[r]][Cardinality(acquired[r][at[r]]) + 1]

Advance(r) == at' = [at EXCEPT ![r] = @ + 1]

\* The job holds all its locks: it is submitted to the pool.
Submit(r, s) ==
    /\ status' = [status EXCEPT ![r][s] = "running"]
    /\ attempt' = [attempt EXCEPT ![r][s] = @ + 1]
    /\ byRepo' = [byRepo EXCEPT ![r][RepoOf[s]] = @ + 1]
    /\ byArea' = [byArea EXCEPT ![r] = [a \in Area |->
                    IF a \in HotAreas[s] THEN @[a] + 1 ELSE @[a]]]
    /\ worker' = [worker EXCEPT ![r][s] = "queued"]
    /\ pc' = [pc EXCEPT ![r] = "schedule"]
    /\ Advance(r)

Grantable(r, s, l) == Swept[l].owner \in {Owner(r, s), None}

AcquireLock(r) ==
    LET s == at[r]
        l == NextLock(r)
    IN  /\ pc[r] = "acquire"
        /\ Grantable(r, s, l)
        /\ table' = [Swept EXCEPT ![l] = [owner |-> Owner(r, s), left |-> TTL]]
        /\ acquired' = [acquired EXCEPT ![r][s] = @ \cup {l}]
        /\ IF Cardinality(acquired[r][s]) + 1 = Len(Requests[s])
           THEN Submit(r, s)
           ELSE UNCHANGED <<pc, at, status, attempt, byRepo, byArea, worker>>
        /\ UNCHANGED <<launch, todo, done, completed, lag>>

\* Denied: wait-global-lock; what was taken so far is given back.
AcquireDenied(r) ==
    LET s == at[r]
    IN  /\ pc[r] = "acquire"
        /\ ~Grantable(r, s, NextLock(r))
        /\ table' = Swept
        /\ todo' = [todo EXCEPT ![r] = {s} \X acquired[r][s]]
        /\ pc' = [pc EXCEPT ![r] = "rollback"]
        /\ UNCHANGED <<launch, done, at, local, worker, lag>>

RollbackLock(r) ==
    /\ pc[r] = "rollback"
    /\ \E b \in todo[r] :
        /\ CanRelease(r, b[1], b[2])
        /\ table' = Released(b[2])
        /\ todo' = [todo EXCEPT ![r] = @ \ {b}]
    /\ UNCHANGED <<launch, pc, done, at, local, worker, lag>>

RollbackRaises(r) ==
    /\ pc[r] = "rollback"
    /\ \E b \in todo[r] : ~CanRelease(r, b[1], b[2])
    /\ Abort(r)

RollbackDone(r) ==
    /\ pc[r] = "rollback"
    /\ todo[r] = {}
    /\ acquired' = [acquired EXCEPT ![r][at[r]] = {}]
    /\ pc' = [pc EXCEPT ![r] = "schedule"]
    /\ Advance(r)
    /\ UNCHANGED <<launch, table, todo, done, status, attempt, completed, byRepo, byArea, worker, lag>>

\* A call to the backend fails, e.g. with `database is locked`: nothing catches it.
BackendRaises(r) ==
    /\ CanRaise
    /\ \/ pc[r] = "acquire"
       \/ pc[r] \in {"beat", "release", "rollback"} /\ todo[r] # {}
    /\ Abort(r)

\* The pass is over: sleep and beat again, or return the report.
EndPass(r) ==
    /\ pc[r] = "schedule"
    /\ Candidates(r) = {}
    /\ IF completed[r] < Cardinality(Plan[r])
       THEN /\ pc' = [pc EXCEPT ![r] = "beat"]
            /\ todo' = [todo EXCEPT ![r] = HeldBy(r)]
       ELSE /\ pc' = [pc EXCEPT ![r] = "returned"]
            /\ UNCHANGED todo
    /\ UNCHANGED <<launch, table, done, at, local, worker, lag>>

-----------------------------------------------------------------------------
\* The pool.  It keeps draining after the loop was left by an exception.

Executing(r) == {s \in Plan[r] : worker[r][s] = "executing"}

WorkerStarts(r, s) ==
    /\ worker[r][s] = "queued"
    /\ Cardinality(Executing(r)) < MaxWorkers
    /\ worker' = [worker EXCEPT ![r][s] = "executing"]
    /\ UNCHANGED <<launch, table, pc, todo, done, at, local, lag>>

WorkerEnds(r, s) ==
    /\ worker[r][s] = "executing"
    /\ \E outcome \in (IF CanRaise THEN Finished ELSE {"rc0", "rc1"}) :
        worker' = [worker EXCEPT ![r][s] = outcome]
    /\ UNCHANGED <<launch, table, pc, todo, done, at, local, lag>>

\* The process is killed, its workers with it; its rows stay.
Kill(r) ==
    /\ r \in Killable
    /\ pc[r] # "killed"
    /\ pc' = [pc EXCEPT ![r] = "killed"]
    /\ todo' = [todo EXCEPT ![r] = {}]
    /\ done' = [done EXCEPT ![r] = {}]
    /\ worker' = [worker EXCEPT ![r] = [s \in Slice |-> "none"]]
    /\ UNCHANGED <<launch, table, at, local, lag>>

\* A second passes.  A live loop never lags more than MaxLag seconds.
Tick ==
    /\ \A r \in Run : pc[r] \in Ended \/ lag[r] < MaxLag
    /\ table' = [l \in Lock |-> [table[l] EXCEPT !.left = IF @ = 0 THEN 0 ELSE @ - 1]]
    /\ lag' = [r \in Run |-> IF pc[r] \in Ended THEN lag[r] ELSE lag[r] + 1]
    /\ UNCHANGED <<launch, pc, todo, done, at, local, worker>>

-----------------------------------------------------------------------------
Loop(r) ==
    \/ HeartbeatRenews(r)
    \/ HeartbeatRaises(r)
    \/ CollectDone(r)
    \/ ResultRaises(r)
    \/ ResultReturns(r)
    \/ ReleaseLock(r)
    \/ ReleaseRaises(r)
    \/ MarkBlocked(r)
    \/ TryNext(r)
    \/ AcquireLock(r)
    \/ AcquireDenied(r)
    \/ RollbackLock(r)
    \/ RollbackRaises(r)
    \/ RollbackDone(r)
    \/ BackendRaises(r)
    \/ EndPass(r)

Pool(r) == \E s \in Plan[r] : WorkerStarts(r, s) \/ WorkerEnds(r, s)

Next ==
    \/ \E r \in Run : Loop(r) \/ Pool(r) \/ Kill(r)
    \/ Tick

Spec == Init /\ [][Next]_vars

\* The loop and the pool of a living process run, and time passes.
Fairness ==
    /\ \A r \in Run : WF_vars(Loop(r)) /\ WF_vars(Pool(r))
    /\ WF_vars(Tick)

FairSpec == Spec /\ Fairness
-----------------------------------------------------------------------------
\* Properties.

\* Two slices claim the same thing: a semantic lock, a hot area of one repo, or, both
\* without hot areas, the repo itself.
Compete(s, t) ==
    \/ ToSet(SemanticOf[s]) \cap ToSet(SemanticOf[t]) # {}
    \/ /\ RepoOf[s] = RepoOf[t]
       /\ \/ HotAreas[s] \cap HotAreas[t] # {}
          \/ HotAreas[s] = {} /\ HotAreas[t] = {}

ExecutingJobs == UNION {{r} \X Executing(r) : r \in Run}

\* The loops renew in time and nothing raises.
Punctual == ~CanRaise /\ 2 * MaxLag < TTL

\* While the loops are punctual, slices that compete never execute at the same time, in one
\* run or in two: what the table of global locks, its heartbeats and its expiry are for.
ExclusiveExecution ==
    Punctual => \A i, j \in ExecutingJobs : i # j => ~Compete(i[2], j[2])

\* A job that ever ran has all its parents passed; a blocked one never ran and has a
\* parent that did not pass; a failed one used every attempt it was given.
OutcomesJustified ==
    \A r \in Run : \A s \in Plan[r] :
        /\ attempt[r][s] > 0 => \A p \in Parents(r, s) : status[r][p] = "passed"
        /\ status[r][s] = "blocked" =>
             /\ attempt[r][s] = 0
             /\ \E p \in Parents(r, s) : status[r][p] \in {"failed", "blocked"}
        /\ status[r][s] = "failed" => attempt[r][s] = MaxRetries + 1

\* In one run the slices that execute respect the capacity of each repo and of each hot
\* area, and never share an owned target: the counters that gate a start are kept by
\* code far from the gates.
GatesHold ==
    \A r \in Run :
        /\ \A p \in Repo :
             Cardinality({s \in Executing(r) : RepoOf[s] = p}) <= PerRepoCapacity
        /\ \A a \in Area :
             Cardinality({s \in Executing(r) : a \in HotAreas[s]}) <= PerHotAreaCapacity
        /\ \A s, t \in Executing(r) : s # t => ~Overlap(s, t)

\* A run that returns its report has ended every job of its plan, looked at every future,
\* and left no row behind: other runs wait for nothing but slices that execute.
ReturnsComplete ==
    \A r \in Run : pc[r] = "returned" =>
        /\ \A s \in Plan[r] :
             status[r][s] \in {"passed", "failed", "blocked"} /\ worker[r][s] = "none"
        /\ \A l \in Lock, s \in Plan[r] : table[l].owner # Owner(r, s)

\* Both: the outcomes of a run are its jobs' outcomes, in the middle and when it returns.
RunsTellOutcomes == OutcomesJustified /\ ReturnsComplete

\* A row leaves its owner before its expiry only in a release of the owner's run, also
\* when another run stalled past its ttl, lost its locks and still believes in them.
RowsLeaveByOwner ==
    [][\A l \in Lock :
         /\ table[l].left > 0
         /\ table'[l].owner # table[l].owner
         => \E r \in Run : \E s \in Plan[r] :
              /\ table[l].owner = Owner(r, s)
              /\ pc[r] \in {"release", "rollback"}
              /\ <<s, l>> \in todo[r] \ todo'[r]]_vars

\* While the loops are punctual, every run that is not killed comes to its end: no set of
\* runs waits for each other's locks forever, none starves behind a dead one, and the count
\* of ended jobs reaches the number of jobs.
EveryRunReturns == <>(Punctual => \A r \in Run : pc[r] \in {"returned", "killed"})

=============================================================================
