----------------------------- MODULE SpecLibrary -----------------------------
(***************************************************************************)
(* The specs of a workspace and the commands that judge them: spec create  *)
(* and workflow intake, spec review and approve, plan, plan-approve,       *)
(* workflow execute-feature, next-step and close-feature, slice verify and *)
(* ci spec (flowctl/features.py, flowctl/workflows.py and                  *)
(* ci.py).  What a document says and what is held against it is in        *)
(* SpecDocs.                                                               *)
(*                                                                         *)
(* Many specs, the catalog of runtimes and the tests change between two    *)
(* commands; each command is one step.  The interleavings inside commands  *)
(* are the subject of FeatureLifecycle.                                    *)
(***************************************************************************)
EXTENDS SpecDocs

CONSTANTS
    Slug,           \* the specs there may be
    Bucket,         \* [Slug -> directory below specs/]
    MainSlice,      \* [repo -> name of the slice a plan makes for a whole repo]
    Skeleton,       \* [Slug -> what spec create writes]
    Drafts,         \* [Slug -> what authors write]
    Worlds,         \* catalogs and tests there may be
    MaxSaves, MaxChanges, MaxPlans, MaxWorks      \* bounds for model checking, saves by slug

\* Authors and commands write documents.
ASSUME DocumentsAssumption ==
    \A s \in Slug : Document(Skeleton[s]) /\ \A doc \in Drafts[s] : Document(doc)

VARIABLES
    specs,          \* per slug its document, or None
    world,          \* what is installed, and the tests that exist
    review,         \* last_review: whether ready, and whether the file is untouched since
    approval,       \* last_approval: the document it hashed
    plan,           \* per slug its plan, or None
    blessing,       \* plan_approval: the document and the plan it hashed
    results,        \* slice_results, per slug and name
    vouched,        \* history: what else the last approval rested on
    count           \* saves, changes, plans, and starts and verifications so far

library == <<specs, world, review, approval, plan, blessing, results, vouched, count>>

There == {s \in Slug : specs[s] # None}
Findings(s) == ApprovalFindings(s, specs[s], specs, Bucket, world)

\* What the findings about a spec rest on, beside the spec.
Around(s) == <<world, [t \in Slug \ {s} |-> specs[t] # None /\ specs[t].readable /\ Settled(specs[t].status)],
               [t \in Slug \ {s} |-> specs[t] # None]>>

LibraryInit ==
    /\ specs = [s \in Slug |-> None]
    /\ world \in Worlds
    /\ review = [s \in Slug |-> None]
    /\ approval = [s \in Slug |-> None]
    /\ plan = [s \in Slug |-> None]
    /\ blessing = [s \in Slug |-> None]
    /\ results = [s \in Slug |-> <<>>]
    /\ vouched = [s \in Slug |-> None]
    /\ count = [saves |-> [s \in Slug |-> 0], changes |-> 0, plans |-> 0, works |-> 0]

-----------------------------------------------------------------------------
\* Specs.

\* Writing a file makes its review stale.
Touched(s) == IF review[s] = None THEN None ELSE [review[s] EXCEPT !.fresh = FALSE]

\* spec create, also inside workflow intake: an existing file stays, a state does not.
Create(s) ==
    /\ specs[s] = None
    /\ specs' = [specs EXCEPT ![s] = Skeleton[s]]
    /\ review' = [review EXCEPT ![s] = None]
    /\ approval' = [approval EXCEPT ![s] = None]
    /\ blessing' = [blessing EXCEPT ![s] = None]
    /\ results' = [results EXCEPT ![s] = <<>>]
    /\ UNCHANGED <<world, plan, vouched, count>>

\* An author saves another text.
Save(s, doc) ==
    /\ specs[s] # None /\ specs[s] # doc
    /\ count.saves[s] < MaxSaves[s]
    /\ specs' = [specs EXCEPT ![s] = doc]
    /\ review' = [review EXCEPT ![s] = Touched(s)]
    /\ count' = [count EXCEPT !.saves[s] = @ + 1]
    /\ UNCHANGED <<world, approval, plan, blessing, results, vouched>>

\* Runtimes, services, capabilities or tests come and go.
Change(w) ==
    /\ w # world
    /\ count.changes < MaxChanges
    /\ world' = w
    /\ count' = [count EXCEPT !.changes = @ + 1]
    /\ UNCHANGED <<specs, review, approval, plan, blessing, results, vouched>>

Review(s) ==
    /\ specs[s] # None
    /\ review' = [review EXCEPT ![s] =
           [ready |-> ReviewFindings(s, specs[s], specs, Bucket, world) = {}, fresh |-> TRUE]]
    /\ UNCHANGED <<specs, world, approval, plan, blessing, results, vouched, count>>

\* Mutant: a ready review of this very file is enough.
ApprovableOnReview(s) ==
    /\ specs[s] # None
    /\ review[s] # None /\ review[s].ready /\ review[s].fresh
    /\ specs[s].readable

\* spec approve wants a ready review of this very file, and analyses it again.
Approvable(s) ==
    /\ specs[s] # None
    /\ review[s] # None /\ review[s].ready /\ review[s].fresh
    /\ Findings(s) = {}

Approve(s) ==
    LET approved == [specs[s] EXCEPT !.status = "approved"]
    IN  /\ Approvable(s)
        /\ specs' = [specs EXCEPT ![s] = approved]
        /\ review' = [review EXCEPT ![s] = Touched(s)]
        /\ approval' = [approval EXCEPT ![s] = approved]
        /\ vouched' = [vouched EXCEPT ![s] = Around(s)]
        /\ UNCHANGED <<world, plan, blessing, results, count>>

\* spec_approval_status_payload: by the hash alone.
SpecApproved(s) == specs[s] # None /\ approval[s] = specs[s]

-----------------------------------------------------------------------------
\* Plans.

\* The slices of the breakdown or, without any, one for every repo.
PlanSlices(doc) ==
    IF Breakdown(doc) # {} THEN Breakdown(doc)
    ELSE {[name |-> MainSlice[p], repo |-> p, hot |-> None, deps |-> {}, executor |-> "implementation",
           targets |-> {t \in Declared(doc) : RepoOf(t) = p}] : p \in ReposOf(doc.targets)}

Plannable(s) ==
    /\ specs[s] # None
    /\ Executable(specs[s].status)
    /\ specs[s].targets # <<>> /\ AllRouted(specs[s].targets)
    /\ GovernanceFindings(specs[s], Breakdown(specs[s])) = {}

NewPlan(s) ==
    LET slices == PlanSlices(specs[s])
    IN  [slices |-> slices, of |-> specs[s],
         marks |-> [n \in {slice.name : slice \in slices} |-> "slice-ready"]]

\* command_plan, also inside execute-feature without a plan or told to refresh it: the
\* status, the targets and the governance count; a plan approval ends, so nothing may start.
MakePlan(s) ==
    /\ Plannable(s)
    /\ count.plans < MaxPlans
    /\ plan' = [plan EXCEPT ![s] = NewPlan(s)]
    /\ blessing' = [blessing EXCEPT ![s] = None]
    /\ count' = [count EXCEPT !.plans = @ + 1]
    /\ UNCHANGED <<specs, world, review, approval, results, vouched>>

PlanApprove(s) ==
    /\ plan[s] # None
    /\ SpecApproved(s)
    /\ blessing' = [blessing EXCEPT ![s] = [doc |-> specs[s], plan |-> plan[s]]]
    /\ UNCHANGED <<specs, world, review, approval, plan, results, vouched, count>>

PlanApproved(s) == plan[s] # None /\ specs[s] # None /\ blessing[s] = [doc |-> specs[s], plan |-> plan[s]]

\* The policy of slice start, of workflow run and of release.
Allowed(s) == SpecApproved(s) /\ PlanApproved(s)

-----------------------------------------------------------------------------
\* Slices.

Names(s) == DOMAIN plan[s].marks
Result(s, n) == IF n \in DOMAIN results[s] THEN results[s][n] ELSE "none"
Noted(s, names, result) ==
    [n \in DOMAIN results[s] \cup names |-> IF n \in names THEN result ELSE results[s][n]]

\* _slice_effective_status
Effective(s, n) ==
    IF plan[s].marks[n] = "closed" THEN "closed"
    ELSE IF plan[s].marks[n] = "verification-passed" \/ Result(s, n) = "passed" THEN "verification-passed"
    ELSE IF plan[s].marks[n] = "verification-failed" \/ Result(s, n) = "failed" THEN "verification-failed"
    ELSE IF Result(s, n) = "started" THEN "started"
    ELSE "slice-ready"

Passed(s, n) == Effective(s, n) \in {"verification-passed", "closed"}
Failed(s, n) == Effective(s, n) = "verification-failed"

\* workflow execute-feature with a plan: it must still meet the governance of the spec.
StillGoverned(s) ==
    /\ specs[s] # None /\ plan[s] # None
    /\ ~Terminal(specs[s].status)
    /\ PlanGovernance(specs[s], plan[s].slices) = {}

\* --start-slices starts them one by one, until one is refused.
Execute(s) ==
    /\ StillGoverned(s) /\ Allowed(s)
    /\ count.works < MaxWorks
    /\ \E started \in SUBSET Names(s) :
         results' = [results EXCEPT ![s] = Noted(s, started, "started")]
    /\ count' = [count EXCEPT !.works = @ + 1]
    /\ UNCHANGED <<specs, world, review, approval, plan, blessing, vouched>>

\* slice verify marks the plan too, which ends its approval.
Verify(s, n, passed) ==
    /\ specs[s] # None /\ plan[s] # None /\ n \in Names(s)
    /\ count.works < MaxWorks
    /\ results' = [results EXCEPT ![s] = Noted(s, {n}, IF passed THEN "passed" ELSE "failed")]
    /\ plan' = [plan EXCEPT ![s].marks[n] =
                   IF passed THEN "verification-passed" ELSE "verification-failed"]
    /\ count' = [count EXCEPT !.works = @ + 1]
    /\ UNCHANGED <<specs, world, review, approval, blessing, vouched>>

Closable(s) == specs[s] # None /\ plan[s] # None /\ \A n \in Names(s) : Passed(s, n)

Close(s) ==
    /\ Closable(s)
    /\ plan' = [plan EXCEPT ![s].marks = [n \in Names(s) |-> "closed"]]
    /\ UNCHANGED <<specs, world, review, approval, blessing, results, vouched, count>>

-----------------------------------------------------------------------------
\* Advice.

\* workflow next-step refuses what no longer meets the governance.
NextStepRefuses(s) ==
    /\ Executable(specs[s].status)
    /\ PlanGovernance(specs[s], IF plan[s] = None THEN Breakdown(specs[s]) ELSE plan[s].slices) # {}

\* workflow next-step: the stage it reports.  Releases are made in ReleaseChain: whether the
\* state file tells of one is left open here.
Stage(s, released) ==
    IF Terminal(specs[s].status) \/ released THEN "release-complete"
    ELSE IF ~Executable(specs[s].status) THEN "spec-refinement"
    ELSE IF plan[s] = None THEN "planning"
    ELSE IF \E n \in Names(s) : Failed(s, n) THEN "in-review"
    ELSE IF \A n \in Names(s) : Passed(s, n) THEN "ready-for-merge"
    ELSE IF \E n \in Names(s) : Effective(s, n) = "slice-ready" THEN "execution-ready"
    ELSE "verification"

\* Whether the command it names first is accepted, once the plan is approved.
AdviceTakes(s) ==
    \A released \in BOOLEAN :
        CASE Stage(s, released) = "planning" -> Plannable(s)
          [] Stage(s, released) = "execution-ready" -> StillGoverned(s)
          [] Stage(s, released) = "ready-for-merge" -> Closable(s)
          [] OTHER -> TRUE

-----------------------------------------------------------------------------
LibraryNext ==
    \/ \E s \in Slug : \/ Create(s)
                       \/ \E doc \in Drafts[s] : Save(s, doc)
                       \/ Review(s)
                       \/ Approve(s)
                       \/ MakePlan(s)
                       \/ PlanApprove(s)
                       \/ Execute(s)
                       \/ \E n \in (IF plan[s] = None THEN {} ELSE Names(s)), passed \in BOOLEAN :
                             Verify(s, n, passed)
                       \/ Close(s)
    \/ \E w \in Worlds : Change(w)

LibrarySpec == LibraryInit /\ [][LibraryNext]_library
-----------------------------------------------------------------------------
\* Properties.

\* A spec whose approval stands, with everything it rests on as it was, is accepted by
\* every command that comes after, though each has a list of checks of its own: ci spec
\* passes it, plan plans it, and next-step, which may not refuse it, names a command that
\* is accepted in turn (specs.py 975, ci.py 271, features.py 812, workflows.py 390).  But
\* plan wants a target, and approval only that there be something in the field: targets
\* that are blank strings make no finding before schema 3 (specs.py 898 and 368).
ApprovedStands ==
    \A s \in There : SpecApproved(s) /\ vouched[s] = Around(s) =>
        /\ CiFindings(s, specs[s], specs, Bucket, world) = {}
        /\ specs[s].targets # <<>> =>
             /\ Plannable(s)
             /\ plan[s] = None \/ plan[s].of = specs[s] => ~NextStepRefuses(s) /\ AdviceTakes(s)

\* Every plan is sound, by a definition of its own: no two slices of one name; each in one
\* repo, with targets below its allowed roots that the spec declares; and, where the schema
\* asks for it, no slice declared and left out, no dependency on a slice there is not, and
\* no hot area shared.  (No check keeps two repos from one slice prefix, flow 394: here
\* they have prefixes of their own.)
PlansSound ==
    \A s \in Slug : plan[s] # None =>
        LET doc == plan[s].of
            slices == plan[s].slices
        IN  /\ slices # {}
            /\ \A x, y \in slices : x.name = y.name => x = y
            /\ \A x \in slices : x.targets # {} /\ \A t \in x.targets :
                 t \in ToSet(doc.targets) /\ RepoOf(t) = x.repo /\ Under(TargetRoots[x.repo], Relative(t))
            /\ doc.schema >= 3 =>
                 /\ {doc.slices[i].name : i \in DOMAIN doc.slices} = {x.name : x \in slices}
                 /\ \A x \in slices : x.deps \subseteq {y.name : y \in slices}
                 /\ \A x, y \in slices : x # y => <<x.repo, x.hot>> # <<y.repo, y.hot>>
=============================================================================
