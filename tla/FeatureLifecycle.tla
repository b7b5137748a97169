-------------------------- MODULE FeatureLifecycle --------------------------
(***************************************************************************)
(* One feature from draft to release (flowctl/features.py, release.py and  *)
(* workflow close-feature in workflows.py): its spec file, its state file  *)
(* .flow/state/<slug>.json, its plan .flow/plans/<slug>.json, and the flow *)
(* commands that read and rewrite them.                                    *)
(*                                                                         *)
(* Each command is a process of its own, a terminal's, a scheduler         *)
(* thread's or the gateway worker's.  None takes a lock: a command that    *)
(* works between reading a file and writing it back may undo what others   *)
(* wrote.  Where nothing happens in between, reading and writing are one   *)
(* step.  A file is compared by its SHA-256, here by its content.          *)
(***************************************************************************)
EXTENDS Integers

CONSTANTS
    Slice,          \* names of the slices the spec declares
    Operator,       \* who may have a command running
    Body,           \* what the spec says below its status
    Ready,          \* bodies that analysis finds ready for approval
    FirstBody,      \* the body that spec create writes
    EditsAnytime,   \* whether a spec is also edited while an approve runs
    Crashes,        \* whether a command may be killed
    MaxWrites,      \* bounds for model checking: how often the spec is saved,
    MaxCommands,    \* and how many commands are begun
    None

ASSUME BodyAssumption == FirstBody \in Body /\ Ready \subseteq Body
ASSUME NumberAssumption == MaxWrites \in Nat /\ MaxCommands \in Nat
ASSUME SwitchAssumption == EditsAnytime \in BOOLEAN /\ Crashes \in BOOLEAN

VARIABLES
    spec,       \* the spec file: body, status in its frontmatter, mtime
    state,      \* what the state file says, or defaults for what it lacks
    plan,       \* the plan file
    manifest,   \* whether a release manifest lists the feature
    running,    \* the command each operator runs
    begun,      \* how many commands have been begun
    past        \* history: when plans were made, and what was reviewed, approved
                \* and verified

vars == <<spec, state, plan, manifest, running, begun, past>>

Status == {"draft", "approved", "released"}
Text == [body : Body, status : Status]
Mark == {"ready", "passed", "failed", "closed"}
\* A plan says in which second it was made, and what became of its slices.
Plan == [made : Nat, marks : [Slice -> Mark]]
Approval == [spec : Text, plan : Plan]
State == [status : {"open", "closed", "released"},
          review : [text : Text, ready : BOOLEAN, mtime : Nat] \cup {None},
          approval : Text \cup {None},
          planApproval : Approval \cup {None},
          results : [Slice -> {"none", "started", "passed", "failed"}]]
Place == {"idle", "created", "analysing", "reviewing", "approving", "approved",
          "planning", "planned", "blessing", "starting", "verifying",
          "passed", "failed", "closing", "closed", "promoted"}

\* A command in progress: where it is, for which slice, what it has read of
\* the files, with what it is going to overwrite anyway already overwritten, and
\* whether it found the spec ready.
Command == [at : Place, slice : Slice \cup {None}, state : State,
            text : Text \cup {None}, plan : Plan \cup {None}, ready : BOOLEAN]
\* The second of the last plan, and those in which several were made; bodies whose
\* hash went on record as ready; texts approved, and approved with a plan; slices
\* that passed.
Past == [clock : Nat, again : SUBSET Nat, reviewed : SUBSET Body,
         approved : SUBSET Text, blessed : SUBSET (Text \X Nat), passed : SUBSET Slice]

ASSUME NoneAssumption ==
    /\ None \notin Slice /\ None \notin Text /\ None \notin Plan /\ None \notin Approval
    /\ None \notin [body : Body, status : Status, mtime : Nat]
    /\ None \notin [text : Text, ready : BOOLEAN, mtime : Nat]

NewState == [status |-> "open", review |-> None, approval |-> None,
             planApproval |-> None, results |-> [s \in Slice |-> "none"]]
Content == [body |-> spec.body, status |-> spec.status]

Idle == [at |-> "idle", slice |-> None, state |-> NewState, text |-> None, plan |-> None,
         ready |-> FALSE]
At(o, place) == running[o].at = place
Go(o, place, s, read, text, p) ==
    /\ At(o, "idle") /\ begun < MaxCommands
    /\ begun' = begun + 1
    /\ running' = [running EXCEPT ![o] =
           [at |-> place, slice |-> s, state |-> read, text |-> text, plan |-> p,
            ready |-> FALSE]]
Step(o, place) == running' = [running EXCEPT ![o].at = place] /\ UNCHANGED begun
Done(o) == running' = [running EXCEPT ![o] = Idle] /\ UNCHANGED begun
\* The state, as a command that sets the status will write it.
Open == [state EXCEPT !.status = "open"]
\* A rewritten file has a new mtime.
Rewritten(body, status) == [body |-> body, status |-> status, mtime |-> spec.mtime + 1]

TypeOK ==
    /\ spec \in [body : Body, status : Status, mtime : Nat] \cup {None}
    /\ state \in State
    /\ plan \in Plan \cup {None}
    /\ manifest \in BOOLEAN
    /\ running \in [Operator -> Command]
    /\ begun \in 0 .. MaxCommands
    /\ past \in Past

Init ==
    /\ spec = None
    /\ state = NewState
    /\ plan = None
    /\ manifest = FALSE
    /\ running = [o \in Operator |-> Idle]
    /\ begun = 0
    /\ past = [clock |-> 0, again |-> {}, reviewed |-> {}, approved |-> {},
               blessed |-> {}, passed |-> {}]
-----------------------------------------------------------------------------
(* spec create writes the file, then a state of its own.                   *)
Create(o) ==
    /\ spec = None
    /\ spec' = [body |-> FirstBody, status |-> "draft", mtime |-> 0]
    /\ Go(o, "created", None, NewState, None, None)
    /\ UNCHANGED <<state, plan, manifest, past>>

CreateSave(o) ==
    /\ At(o, "created")
    /\ state' = NewState
    /\ Done(o)
    /\ UNCHANGED <<spec, plan, manifest, past>>

(* Somebody saves the file with another body, below the status it has.     *)
Edit(body) ==
    /\ spec # None /\ body # spec.body /\ spec.mtime < MaxWrites
    /\ EditsAnytime \/ \A o \in Operator : ~At(o, "approving") /\ ~At(o, "approved")
    /\ spec' = Rewritten(body, spec.status)
    /\ UNCHANGED <<state, plan, manifest, running, begun, past>>

(* spec review reads the file to analyse it, reads it again to hash it,    *)
(* writes its report, and stores verdict and hash with the mtime the file  *)
(* has by then: the three may be of three different contents.              *)
Review(o) ==
    /\ spec # None
    /\ Go(o, "analysing", None, NewState, Content, None)
    /\ UNCHANGED <<spec, state, plan, manifest, past>>

ReviewHash(o) ==
    LET ready == running[o].text.body \in Ready IN
    /\ At(o, "analysing")
    /\ running' = [running EXCEPT ![o] =
           [@ EXCEPT !.at = "reviewing", !.text = Content, !.ready = ready]]
    /\ UNCHANGED <<spec, state, plan, manifest, begun, past>>

ReviewSave(o) ==
    LET text == running[o].text
        ready == running[o].ready IN
    /\ At(o, "reviewing")
    /\ state' = [Open EXCEPT
           !.review = [text |-> text, ready |-> ready, mtime |-> spec.mtime]]
    /\ past' = [past EXCEPT !.reviewed = @ \cup {b \in {text.body} : ready}]
    /\ Done(o)
    /\ UNCHANGED <<spec, plan, manifest>>

\* Mutant: the review of whatever the file was.
ReviewedOnce == state.review # None /\ state.review.ready

(* spec approve reads the state, wants a ready review of this very file,   *)
(* analyses it again, rewrites its status, hashes it and writes the state. *)
Reviewed ==
    /\ state.review # None
    /\ state.review.ready
    /\ state.review.mtime = spec.mtime
    /\ state.review.text = Content

Approve(o) ==
    /\ spec # None /\ Reviewed
    /\ Go(o, "approving", None, [Open EXCEPT !.approval = None], None, None)
    /\ UNCHANGED <<spec, state, plan, manifest, past>>

ApproveWrite(o) ==
    /\ At(o, "approving")
    /\ spec.body \in Ready /\ spec.mtime < MaxWrites
    /\ spec' = Rewritten(spec.body, "approved")
    /\ Step(o, "approved")
    /\ UNCHANGED <<state, plan, manifest, past>>

ApproveSave(o) ==
    /\ At(o, "approved")
    /\ state' = [running[o].state EXCEPT !.approval = Content]
    /\ past' = [past EXCEPT !.approved = @ \cup {Content}]
    /\ Done(o)
    /\ UNCHANGED <<spec, plan, manifest>>

SpecApproved == state.approval = Content

\* Mutant: a plan that does not say when it was made.
NewPlanTimeless(second) == [made |-> 1, marks |-> [s \in Slice |-> "ready"]]

(* plan wants the status, not the hash, and takes the time in whole        *)
(* seconds.  It writes the plan, and takes the approval of any other out   *)
(* of the state.  All bodies declare the same slices here, so that plans   *)
(* of one second are equal.                                                *)
NewPlan(second) == [made |-> second, marks |-> [s \in Slice |-> "ready"]]

\* The second of the last plan or a later one; the clock is not set back.
Seconds == {past.clock, past.clock + 1} \ {0}

MakePlan(o) ==
    /\ spec # None /\ spec.status = "approved"
    /\ \E second \in Seconds :
        /\ Go(o, "planning", None, NewState, None, NewPlan(second))
        /\ past' = [past EXCEPT !.clock = second,
                               !.again = @ \cup {n \in {second} : n = past.clock}]
    /\ UNCHANGED <<spec, state, plan, manifest>>

PlanWrite(o) ==
    /\ At(o, "planning")
    /\ plan' = running[o].plan
    /\ Step(o, "planned")
    /\ UNCHANGED <<spec, state, manifest, past>>

PlanSave(o) ==
    /\ At(o, "planned")
    /\ state' = [Open EXCEPT !.planApproval = None]
    /\ Done(o)
    /\ UNCHANGED <<spec, plan, manifest, past>>

(* plan-approve reads the state and the spec, then hashes the plan.        *)
PlanApprove(o) ==
    /\ spec # None /\ plan # None /\ SpecApproved
    /\ Go(o, "blessing", None, [Open EXCEPT !.planApproval = None], Content, None)
    /\ UNCHANGED <<spec, state, plan, manifest, past>>

PlanApproveSave(o) ==
    LET approval == [spec |-> running[o].text, plan |-> plan] IN
    /\ At(o, "blessing")
    /\ state' = [running[o].state EXCEPT !.planApproval = approval]
    /\ past' = [past EXCEPT !.blessed = @ \cup {<<approval.spec, plan.made>>}]
    /\ Done(o)
    /\ UNCHANGED <<spec, plan, manifest>>

\* Mutant: the plan's own hash is not compared.
PlanApprovedOnce == state.planApproval # None /\ state.planApproval.spec = Content
PlanApproved == state.planApproval = [spec |-> Content, plan |-> plan]
\* policy check, stage slice-start
StartAllowed == spec # None /\ plan # None /\ SpecApproved /\ PlanApproved

(* slice start reads the state and asks the policy, which hashes spec and  *)
(* plan; it adds the worktree or repairs the one that is there, and writes *)
(* the state it had read.                                                  *)
Start(o, s) ==
    /\ StartAllowed
    /\ Go(o, "starting", s, [Open EXCEPT !.results[s] = "started"], Content, plan)
    /\ UNCHANGED <<spec, state, plan, manifest, past>>

StartSave(o) ==
    /\ At(o, "starting")
    /\ state' = running[o].state
    /\ Done(o)
    /\ UNCHANGED <<spec, plan, manifest, past>>

(* slice verify runs the tests of a slice of the plan, then writes the     *)
(* result to the state, then to the plan there is by then.                 *)
Verify(o, s) ==
    /\ spec # None /\ plan # None
    /\ Go(o, "verifying", s, NewState, None, None)
    /\ UNCHANGED <<spec, state, plan, manifest, past>>

VerifySave(o, result) ==
    LET s == running[o].slice IN
    /\ At(o, "verifying")
    /\ state' = [Open EXCEPT !.results[s] = result]
    /\ past' = [past EXCEPT !.passed = @ \cup {p \in {s} : result = "passed"}]
    /\ Step(o, result)
    /\ UNCHANGED <<spec, plan, manifest>>

VerifyMark(o) ==
    /\ At(o, "passed") \/ At(o, "failed")
    /\ plan' = [plan EXCEPT !.marks[running[o].slice] = running[o].at]
    /\ Done(o)
    /\ UNCHANGED <<spec, state, manifest, past>>

\* Mutant: any result at all counts as a verification.
VerifiedOrStarted(s) ==
    plan.marks[s] \in {"closed", "passed"} \/ state.results[s] # "none"

(* workflow close-feature loads plan and state, wants every slice verified *)
(* by the one or the other, rewrites the plan, then the state.             *)
Verified(s) ==
    \/ plan.marks[s] \in {"closed", "passed"}
    \/ state.results[s] = "passed"

Close(o) ==
    /\ spec # None /\ plan # None
    /\ \A s \in Slice : Verified(s)
    /\ Go(o, "closing", None, [state EXCEPT !.status = "closed"], None,
           [plan EXCEPT !.marks = [s \in Slice |-> "closed"]])
    /\ UNCHANGED <<spec, state, plan, manifest, past>>

CloseWrite(o) ==
    /\ At(o, "closing")
    /\ plan' = running[o].plan
    /\ Step(o, "closed")
    /\ UNCHANGED <<spec, state, manifest, past>>

CloseSave(o) ==
    /\ At(o, "closed")
    /\ state' = running[o].state
    /\ Done(o)
    /\ UNCHANGED <<spec, plan, manifest, past>>

(* release cut wants an approved, ready spec and passed results for every  *)
(* slice of the plan; release promote marks what the manifest lists.       *)
Cut ==
    /\ spec # None /\ plan # None
    /\ spec.status = "approved" /\ spec.body \in Ready
    /\ \A s \in Slice : state.results[s] = "passed"
    /\ manifest' = TRUE
    /\ UNCHANGED <<spec, state, plan, running, begun, past>>

Promote(o) ==
    /\ manifest
    /\ state' = [state EXCEPT !.status = "released"]
    /\ Go(o, "promoted", None, NewState, None, None)
    /\ UNCHANGED <<spec, plan, manifest, past>>

PromoteWrite(o) ==
    /\ At(o, "promoted") /\ spec.mtime < MaxWrites
    /\ spec' = Rewritten(spec.body, "released")
    /\ Done(o)
    /\ UNCHANGED <<state, plan, manifest, past>>

(* A command is killed, or gives up where it is: an analysis that no       *)
(* longer holds, a worktree that git refuses.                              *)
Quit(o) ==
    /\ ~At(o, "idle")
    /\ Crashes \/ At(o, "approving") \/ At(o, "starting")
    /\ Done(o)
    /\ UNCHANGED <<spec, state, plan, manifest, past>>
-----------------------------------------------------------------------------
Next ==
    \/ \E body \in Body : Edit(body)
    \/ Cut
    \/ \E o \in Operator :
        \/ Create(o) \/ CreateSave(o)
        \/ Review(o) \/ ReviewHash(o) \/ ReviewSave(o)
        \/ Approve(o) \/ ApproveWrite(o) \/ ApproveSave(o)
        \/ MakePlan(o) \/ PlanWrite(o) \/ PlanSave(o)
        \/ PlanApprove(o) \/ PlanApproveSave(o)
        \/ \E s \in Slice : Start(o, s) \/ Verify(o, s)
        \/ StartSave(o)
        \/ \E result \in {"passed", "failed"} : VerifySave(o, result)
        \/ VerifyMark(o)
        \/ Close(o) \/ CloseWrite(o) \/ CloseSave(o)
        \/ Promote(o) \/ PromoteWrite(o)
        \/ Quit(o)

Spec == Init /\ [][Next]_vars
-----------------------------------------------------------------------------
(* Slices are only started from a plan that was approved, and with an      *)
(* approved content of the spec that was approved together with it,        *)
(* whatever commands undo in each other's files (features.py 1001-1029).   *)
StartedAsApproved ==
    \A o \in Operator : At(o, "starting") =>
        /\ running[o].text \in past.approved
        /\ <<running[o].text, running[o].plan.made>> \in past.blessed

(* Only a ready body is ever approved, and only one whose hash a review    *)
(* put on record as ready, as long as nobody saves the spec while an       *)
(* approve runs (features.py 552-597).  The review's verdict may still be  *)
(* of the body before, if that was saved between the review's two reads    *)
(* (401, 403): then only approve's own analysis has seen what it approves. *)
ApprovedWasReviewed ==
    EditsAnytime \/
    \A text \in past.approved : text.body \in Ready \cap past.reviewed

(* Writing a plan again ends every permission to start slices, also one    *)
(* that a slower command has written back (features.py 914-970), unless    *)
(* two plans were made in its second, which are the same plan.             *)
RemakingDisarms ==
    [][\A o \in Operator :
           PlanWrite(o) /\ running[o].plan.made \notin past.again => ~StartAllowed']_vars

(* A slice is only closed if it has passed a verification at some time:    *)
(* neither a start nor a failure is taken for success (workflows.py 664).  *)
ClosedWasVerified ==
    plan # None => \A s \in Slice :
        plan.marks[s] = "closed" => s \in past.passed
=============================================================================
