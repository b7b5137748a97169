----------------------------- MODULE WorkflowRun -----------------------------
(***************************************************************************)
(* The workflow engine (flowctl/workflows.py, from line 872): `workflow    *)
(* run`, with its variants resume, retry, pause and human-gated, of one    *)
(* feature.                                                                *)
(*                                                                         *)
(* A run reads the state file once, works on that copy and writes all of   *)
(* it back after every stage, while the commands its stages call, and      *)
(* operators at other terminals, rewrite the same file.  One run at a time *)
(* is modelled, and it may end at any place.  Commands of operators that   *)
(* read and write at once are single steps; FeatureLifecycle has those     *)
(* that are not, and what slices record in the file.                       *)
(***************************************************************************)
EXTENDS Integers

CONSTANTS
    Requests,       \* option sets that runs are started with: records of
                    \* resume, retry, pause (a stage or 0) and gated
    MaxAttempts,    \* per stage, of the class of its failures, first one included
    Risk,           \* of the slices of the plan
    LinkedTests,    \* number of tests linked to a slice
    ApiChange,      \* whether the plan touches an API or a DTO
    MaxRuns,        \* bounds for model checking: runs begun,
    MaxCommands,    \* commands of operators,
    MaxEnds         \* and runs that are killed or raise

\* WORKFLOW_ENGINE_STAGES by position.  0 stands for no stage.
Stage == 1..8
Plan == 1
SliceStart == 2
CiSpec == 3
CiRepo == 4
CiIntegration == 5
Promote == 6
ReleaseVerify == 7

Risks == {"low", "medium", "high", "critical"}

ASSUME RequestsAssumption ==
    Requests \subseteq [resume : 0..8, retry : 0..8, pause : 0..8, gated : BOOLEAN]
ASSUME AttemptsAssumption == MaxAttempts \in [Stage -> Nat \ {0}]
ASSUME PlanAssumption == Risk \in Risks /\ LinkedTests \in Nat /\ ApiChange \in BOOLEAN
ASSUME BoundsAssumption == MaxRuns \in Nat /\ MaxCommands \in Nat /\ MaxEnds \in Nat

VARIABLES
    text,       \* the spec file: a number for what is hashed of it
    plan,       \* the plan file: the second it was made in, 0 if there is none
    file,       \* the state file
    pc,         \* where the run is, or "idle"
    at,         \* the stage it is at; 9 after the last
    opt,        \* the options of the run, or of the last one
    mem,        \* the run's copy of the state
    risk,       \* risk_level, computed when the run begins
    api,        \* api_dto_change, likewise
    seen,       \* whether the run has read a plan
    report,     \* the stages reported as passed or skipped by this run
    checked,    \* whether ci_spec's checkpoints passed in this run
    past,       \* history, for the properties
    count       \* runs, commands and ends, for the bounds

run == <<at, opt, risk, api, seen, report, checked>>
vars == <<text, plan, file, pc, mem, run, past, count>>

\* The part of the state file that is written here.  An approval is of a text, or of a
\* text and a plan.
State ==
    [status : {"idle", "running", "paused", "completed", "failed"},
     pausedAt : 0..8,
     record : [Stage -> [status : {"none", "started", "passed", "failed", "skipped", "blocked"},
                         attempt : Nat]],
     compensated : SUBSET Stage,
     specApproval : Nat,
     planApproval : Nat \X Nat]

TypeOK ==
    /\ text \in Nat /\ plan \in Nat
    /\ file \in State /\ mem \in State
    /\ pc \in {"idle", "stage", "plan", "execute", "start", "finish", "rollback"}
    /\ at \in 0..9
    /\ opt \in [resume : 0..8, retry : 0..8, pause : 0..8, gated : BOOLEAN]
    /\ risk \in Risks /\ api \in BOOLEAN /\ seen \in BOOLEAN /\ checked \in BOOLEAN
    /\ report \in SUBSET Stage
    /\ past \in [executed : [Stage -> Nat], due : [Stage -> BOOLEAN], held : 0..8,
                 cut : Nat,
                 last : {"none", "completed", "paused", "failed", "refused", "ended"},
                 clock : Nat, again : SUBSET Nat]
    /\ count \in [runs : 0..MaxRuns, commands : 0..MaxCommands, ends : 0..MaxEnds]

\* A feature whose spec is approved and that no run has touched.
Fresh ==
    [status |-> "idle", pausedAt |-> 0,
     record |-> [s \in Stage |-> [status |-> "none", attempt |-> 0]],
     compensated |-> {}, specApproval |-> 1, planApproval |-> <<0, 0>>]

Init ==
    /\ text = 1
    /\ plan = 0
    /\ file = Fresh
    /\ pc = "idle"
    /\ at = 0
    /\ opt = [resume |-> 0, retry |-> 0, pause |-> 0, gated |-> FALSE]
    /\ mem = Fresh
    /\ risk = "low" /\ api = FALSE /\ seen = FALSE /\ report = {} /\ checked = FALSE
    /\ past = [executed |-> [s \in Stage |-> 0], due |-> [s \in Stage |-> TRUE],
               held |-> 0, cut |-> 0, last |-> "none", clock |-> 0, again |-> {}]
    /\ count = [runs |-> 0, commands |-> 0, ends |-> 0]

-----------------------------------------------------------------------------
\* The central policy (flowctl/policy.py): approvals count by their hashes.

SpecApproved == file.specApproval = text

\* Mutant: any approval of the text counts, whatever plan it was of.
PlanApprovedForText == plan # 0 /\ file.planApproval[1] = text

PlanApproved == plan # 0 /\ file.planApproval = <<text, plan>>

MayStartSlices == SpecApproved /\ PlanApproved

\* What the gate of a stage asks; stages without one ask nothing.
PolicyAllows(s) ==
    CASE s = Plan -> SpecApproved
      [] s \in {SliceStart, Promote, ReleaseVerify} -> MayStartSlices
      [] OTHER -> TRUE

-----------------------------------------------------------------------------
\* A run.

\* write_state(slug, state): the copy replaces the file, with all that is in it.
Save(m) == mem' = m /\ file' = m

\* A resume or a retry does not inherit the pause.
PauseOf(q) ==
    IF q.pause # 0 \/ q.resume # 0 \/ q.retry # 0 THEN q.pause ELSE file.pausedAt

\* Mutant: only an explicit pause is written back.
BegunForgetsPause(q) == [file EXCEPT !.status = "running", !.pausedAt = q.pause]

Begun(q) == [file EXCEPT !.status = "running", !.pausedAt = PauseOf(q)]

First(q) == IF q.resume # 0 THEN q.resume ELSE IF q.retry # 0 THEN q.retry ELSE 1

\* The state is read, here and never again, and written back as running.
Begin(q) ==
    /\ pc = "idle"
    /\ count.runs < MaxRuns
    /\ Save(Begun(q))
    /\ at' = First(q)
    /\ past' = [past EXCEPT
         !.held = IF q.resume # 0 \/ q.retry # 0 THEN 0 ELSE IF q.pause # 0 THEN q.pause ELSE @,
         !.due = [s \in Stage |-> @[s] \/ s = q.retry]]
    /\ opt' = [q EXCEPT !.pause = PauseOf(q)]
    /\ risk' = IF plan = 0 THEN "low" ELSE Risk
    /\ api' = (plan # 0 /\ ApiChange)
    /\ seen' = (plan # 0)
    /\ report' = {}
    /\ checked' = FALSE
    /\ pc' = "stage"
    /\ count' = [count EXCEPT !.runs = @ + 1]
    /\ UNCHANGED <<text, plan>>

Pausing == at = opt.pause /\ opt.retry = 0

\* The mark overwrites the record, also that of a stage that had passed.
PauseBefore ==
    /\ pc = "stage" /\ at \in Stage
    /\ Pausing
    /\ Save([mem EXCEPT !.record[at].status = "skipped", !.status = "paused"])
    /\ pc' = "finish"
    /\ past' = [past EXCEPT !.held = at, !.due[at] = TRUE]
    /\ UNCHANGED <<text, plan, run, count>>

\* Mutant: a stage recorded as skipped counts as done.
IsDoneIfSkipped ==
    mem.record[at].status \in {"passed", "skipped"} /\ opt.retry # at

IsDone == mem.record[at].status = "passed" /\ opt.retry # at

AlreadyPassed ==
    /\ pc = "stage" /\ at \in Stage
    /\ ~Pausing
    /\ IsDone
    /\ report' = report \cup {at}
    /\ at' = at + 1
    /\ UNCHANGED <<text, plan, file, pc, mem, opt, risk, api, seen, checked, past, count>>

\* The gate reads the file, not the copy.
Gated == opt.gated /\ opt.retry = 0

GateBlocks ==
    /\ pc = "stage" /\ at \in Stage
    /\ ~Pausing /\ ~IsDone
    /\ Gated /\ ~PolicyAllows(at)
    /\ Save([mem EXCEPT !.record[at].status = "blocked", !.status = "paused",
                        !.pausedAt = at])
    /\ pc' = "finish"
    /\ past' = [past EXCEPT !.held = at]
    /\ UNCHANGED <<text, plan, run, count>>

NextAttempt == mem.record[at].attempt + 1

Start ==
    /\ pc = "stage" /\ at \in Stage
    /\ ~Pausing /\ ~IsDone
    /\ Gated => PolicyAllows(at)
    /\ Save([mem EXCEPT !.record[at] = [status |-> "started", attempt |-> NextAttempt]])
    /\ pc' = IF at \in {Plan, SliceStart} THEN "plan" ELSE "execute"
    /\ past' = [past EXCEPT !.executed[at] = @ + 1]
    /\ UNCHANGED <<text, plan, run, count>>

\* command_plan writes a plan that tells in whole seconds when it was made, and takes
\* the approval of any other out of the file.  All texts declare the same slices, so
\* that plans of one second are equal; the clock is not set back.
NewPlan ==
    \E second \in {past.clock, past.clock + 1} \ {0} :
        /\ plan' = second
        /\ file' = [file EXCEPT !.planApproval = <<0, 0>>]
        /\ past' = [past EXCEPT !.clock = second,
                               !.again = @ \cup {n \in {second} : n = past.clock}]

\* The stage plan, and slice_start, which plans too.  The copy keeps the approval.
MakePlan ==
    /\ pc = "plan"
    /\ NewPlan
    /\ pc' = IF at = Plan THEN "execute" ELSE "start"
    /\ seen' = (seen \/ at = SliceStart)
    /\ UNCHANGED <<text, at, opt, mem, risk, api, report, checked, count>>

\* The scheduler starts the first slice; command_slice_start asks the policy.
StartSlices ==
    /\ pc = "start"
    /\ MayStartSlices
    /\ pc' = "execute"
    /\ UNCHANGED <<text, plan, file, mem, run, past, count>>

\* The call failed: again while the class of the failure allows, and a second attempt is
\* counted in the copy only.  slice_start does not plan again; before its slices start it
\* is the plan that failed.
StageFails ==
    /\ pc \in {"execute", "start"}
    /\ at < Promote
    /\ LET failed == [mem EXCEPT !.record[at].status = "failed"]
       IN  IF mem.record[at].attempt >= MaxAttempts[at]
           THEN /\ Save([failed EXCEPT !.status = "failed"])
                /\ pc' = "rollback"
                /\ UNCHANGED past
           ELSE /\ file' = failed
                /\ mem' = [failed EXCEPT !.record[at].attempt = NextAttempt]
                /\ pc' = CASE at = Plan -> "plan" [] at = SliceStart -> "start"
                           [] OTHER -> "execute"
                /\ past' = [past EXCEPT !.executed[at] = @ + 1]
    /\ UNCHANGED <<text, plan, run, count>>

\* slice_confidence_score, from the stages this run reported and the checks it made.
Score ==
    LET points(condition, n) == IF condition THEN n ELSE 0
    IN    points(CiSpec \in report, 40)
        + points(CiRepo \in report, 30)
        + points(CiIntegration \in report, 15)
        + (IF LinkedTests = 0 THEN 3 ELSE IF LinkedTests > 3 THEN 15 ELSE 5 * LinkedTests)
        + (CASE Risk = "low" -> 20 [] Risk = "medium" -> 12 [] Risk = "high" -> 6
             [] Risk = "critical" -> 0)
        + points(~api \/ checked, 15)
        + points(checked, 10)

Threshold ==
    CASE risk = "low" -> 50 [] risk = "medium" -> 65 [] risk = "high" -> 80
      [] risk = "critical" -> 90

Confident == seen => Score >= Threshold

Risky == risk \in {"high", "critical"}

\* Which checkpoints can fail depends on the stage: drift and contracts, the extended
\* integration, the confidence and the additional reviewer.
ChecksCanFail == at = CiSpec \/ (at \in {CiIntegration, Promote} /\ Risky)

\* The last three stages do nothing and are recorded as skipped.
Outcome == IF at >= Promote THEN "skipped" ELSE "passed"

\* Mutant: the record of a passed stage is written with the next one's start.
RecordPassLater ==
    /\ mem' = [mem EXCEPT !.record[at].status = Outcome]
    /\ UNCHANGED file

RecordPass == Save([mem EXCEPT !.record[at].status = Outcome])

\* The call succeeded and so did the checkpoints.
StagePasses ==
    /\ pc = "execute"
    /\ at = Promote => Confident
    /\ RecordPass
    /\ report' = report \cup {at}
    /\ checked' = (checked \/ at = CiSpec)
    /\ at' = at + 1
    /\ pc' = "stage"
    /\ past' = [past EXCEPT !.due[at] = Outcome # "passed"]
    /\ UNCHANGED <<text, plan, opt, risk, api, seen, count>>

\* The call succeeded and a required checkpoint did not.
ChecksFail ==
    /\ pc = "execute"
    /\ ChecksCanFail \/ (at = Promote /\ ~Confident)
    /\ Save([mem EXCEPT !.record[at].status = "failed", !.status = "failed"])
    /\ pc' = "rollback"
    /\ UNCHANGED <<text, plan, run, past, count>>

\* Nobody holds the copy any more.
Leave(how) ==
    /\ pc' = "idle"
    /\ mem' = Fresh
    /\ report' = {} /\ checked' = FALSE
    /\ past' = [past EXCEPT !.last = how,
                            !.cut = IF how \in {"refused", "ended"} THEN @ + 1 ELSE @]
    /\ UNCHANGED <<text, plan, at, opt, risk, api, seen>>

\* command_slice_start, of the first slice or of a later one, raises SystemExit, through
\* the scheduler and the engine: nothing more is written.
Refused ==
    /\ pc = "start" \/ (pc = "execute" /\ at = SliceStart)
    /\ ~MayStartSlices
    /\ Leave("refused")
    /\ UNCHANGED <<file, count>>

\* The last write of a run that completed or paused.
Finish ==
    /\ pc = "finish" \/ (pc = "stage" /\ at = 9)
    /\ LET outcome == IF pc = "finish" THEN "paused" ELSE "completed"
       IN  /\ file' = [mem EXCEPT !.status = outcome]
           /\ Leave(outcome)
    /\ UNCHANGED count

\* _run_rollback_for_failed_stages: passed stages, those compensated before left alone.
Compensated == mem.compensated \cup {s \in Stage : mem.record[s].status = "passed"}

Rollback ==
    /\ pc = "rollback"
    /\ file' = [mem EXCEPT !.compensated = Compensated]
    /\ Leave("failed")
    /\ UNCHANGED count

\* The process is killed, or something it calls raises.
End ==
    /\ pc # "idle"
    /\ count.ends < MaxEnds
    /\ Leave("ended")
    /\ count' = [count EXCEPT !.ends = @ + 1]
    /\ UNCHANGED file

Engine ==
    \/ \E q \in Requests : Begin(q)
    \/ PauseBefore
    \/ AlreadyPassed
    \/ GateBlocks
    \/ Start
    \/ MakePlan
    \/ StartSlices
    \/ StageFails
    \/ StagePasses
    \/ ChecksFail
    \/ Refused
    \/ Finish
    \/ Rollback
    \/ End

-----------------------------------------------------------------------------
\* Operators' commands, at any time.

Command ==
    /\ count.commands < MaxCommands
    /\ pc # "idle" \/ count.runs < MaxRuns    \* a bound: somebody will see it
    /\ count' = [count EXCEPT !.commands = @ + 1]
    /\ UNCHANGED <<pc, mem, run>>

\* `workflow pause`.  While a run is active its next write undoes it.
PauseCommand(s) ==
    /\ Command
    /\ file' = [file EXCEPT !.status = "paused", !.pausedAt = s]
    /\ past' = [past EXCEPT !.held = IF pc = "idle" THEN s ELSE 0]
    /\ UNCHANGED <<text, plan>>

EditSpec ==
    /\ Command
    /\ text' = text + 1
    /\ UNCHANGED <<plan, file, past>>

SpecApprove ==
    /\ Command
    /\ ~SpecApproved
    /\ file' = [file EXCEPT !.specApproval = text]
    /\ UNCHANGED <<text, plan, past>>

PlanApprove ==
    /\ Command
    /\ plan # 0 /\ SpecApproved /\ ~PlanApproved
    /\ file' = [file EXCEPT !.planApproval = <<text, plan>>]
    /\ UNCHANGED <<text, plan, past>>

PlanCommand ==
    /\ Command
    /\ NewPlan
    /\ UNCHANGED text

Operators ==
    \/ \E s \in {q.pause : q \in Requests} \ {0} : PauseCommand(s)
    \/ EditSpec
    \/ SpecApprove
    \/ PlanApprove
    \/ PlanCommand

Next == Engine \/ Operators

Spec == Init /\ [][Next]_vars

-----------------------------------------------------------------------------
\* Properties.

\* The answer of a run and the file agree, whatever earlier runs left: a completed run
\* has every stage from its first one on recorded as passed (the last three as skipped);
\* a failed one has a failed stage; and the file says "running" for no longer than a run
\* runs, unless the run was killed or refused.
ReportJustified ==
    pc = "idle" =>
        /\ past.last = "completed" =>
             \A s \in First(opt)..8 :
                file.record[s].status = IF s >= Promote THEN "skipped" ELSE "passed"
        /\ past.last = "failed" => \E s \in Stage : file.record[s].status = "failed"
        /\ file.status = "running" => past.last \in {"refused", "ended"}

\* A stage once passed is executed again only after somebody retried it or paused a run
\* right before it: also after crashes, failed later stages, resumes and retries of
\* other stages.
PassedStaysPassed ==
    [][\A s \in Stage : past'.executed[s] > past.executed[s] => past.due[s]]_vars

\* A pause that no run was there to overwrite holds for every run that is not told to
\* resume, to retry or to pause elsewhere, over crashes and further runs: the stage and
\* all after it are not executed.
PauseHolds ==
    [][\A s \in Stage : past'.executed[s] > past.executed[s] =>
         past.held = 0 \/ s < past.held]_vars

\* The attempts on record are the executions there were, but for those whose run was
\* killed or refused before it wrote again: at most one each.
AttemptsTell ==
    pc = "idle" => \A s \in Stage :
        past.executed[s] - file.record[s].attempt \in 0..past.cut

\* After a failed run every stage that passed, in this run or before, has its
\* compensation on record.
FailedIsCompensated ==
    pc = "idle" /\ past.last = "failed" =>
        \A s \in Stage : file.record[s].status = "passed" => s \in file.compensated

\* The engine writes old approvals over what is in the file, and never lets a slice
\* start, or a release be cut, that the file did not let before: a permission comes from
\* an operator only.  Except for a plan that was made twice in one second, whose second
\* making takes the approval out of the file only for the engine to write it back.
EngineNeverPermits ==
    [][count'.commands = count.commands /\ ~MayStartSlices
           => ~MayStartSlices' \/ plan' \in past.again]_vars

=============================================================================
