------------------------------ MODULE TaskQueue -----------------------------
(***************************************************************************)
(* The gateway's queue of intents: requests enqueue tasks, one worker      *)
(* thread runs a flow command for each (gateway/app/store.py, worker.py),  *)
(* and the process may end at any moment and be started again (main.py).   *)
(*                                                                         *)
(* Handlers run one at a time in the event loop; the worker's thread       *)
(* interleaves with them between transactions.  Tasks survive a process,   *)
(* the rest does not.                                                      *)
(***************************************************************************)
EXTENDS Integers, Sequences, FiniteSets

CONSTANTS
    Task,           \* uuids tasks may be given
    Content,        \* source, intent and payload of a request
    Reviews,        \* contents whose intent is spec.review
    FollowUp,       \* per content, the event its success is followed by, or None
    Window,         \* SOFTOS_GATEWAY_DEDUPE_WINDOW_SECONDS
    Raises,         \* whether a call in the worker's loop may raise
    Outlives,       \* whether a flow command may outlive the gateway
    MaxClock,       \* bounds for model checking
    MaxEnds,
    MaxEvents,      \* a row with more events takes no comment
    NoTask,
    None

ASSUME ContentAssumption ==
    /\ Reviews \subseteq Content
    /\ FollowUp \in [Content -> {"review_requested", "approved", "closed", None}]
ASSUME TaskAssumption == NoTask \notin Task
ASSUME NumberAssumption ==
    /\ Window \in Nat /\ MaxClock \in Nat /\ MaxEnds \in Nat /\ MaxEvents \in Nat
ASSUME SwitchAssumption == Raises \in BOOLEAN /\ Outlives \in BOOLEAN

VARIABLES
    clock,      \* the UTC time, in whole seconds
    tasks,      \* the table tasks, each row with its rows of task_events
    handler,    \* the task of the request between its commit and its reply
    process,    \* the gateway: "up", "stopping" or "down"
    worker,     \* where the worker's thread is, with which task and result
    orphans,    \* tasks whose flow command outlived the gateway that ran it
    told,       \* outcomes sent to the feedback provider
    ends        \* how often the gateway has ended

vars == <<clock, tasks, handler, process, worker, orphans, told, ends>>

Outcome == {"failed", "completed_with_findings", "succeeded"}
Status == {"none", "queued", "running"} \cup Outcome
Event == {"created", "comment_added", "execution_started", "execution_failed",
          "execution_succeeded", "review_requested", "approved", "closed"}
Place == {"top", "claiming", "claimed", "started", "running", "ran",
          "finished", "followed", "told", "dead", "off"}
InHand == {"claimed", "started", "running", "ran"}

Tasks(status) == {t \in Task : tasks[t].status = status}
Absent == [status |-> "none", content |-> None, created |-> 0, events |-> <<>>]
At(place) == [at |-> place, task |-> NoTask, status |-> "none"]
To(place) == worker' = [worker EXCEPT !.at = place]

Log(t, event) == [tasks EXCEPT ![t].events = Append(@, event)]
Logged(t, event) == {i \in DOMAIN tasks[t].events : tasks[t].events[i] = event}

TypeOK ==
    /\ clock \in Nat
    /\ tasks \in [Task -> [status : Status, content : Content \cup {None},
                           created : Nat, events : Seq(Event)]]
    /\ handler \in Task \cup {NoTask}
    /\ process \in {"up", "stopping", "down"}
    /\ worker \in [at : Place, task : Task \cup {NoTask}, status : Status]
    /\ worker.at \in InHand \cup {"finished", "followed", "told"} => worker.task \in Task
    /\ worker.at \in {"ran", "finished", "followed", "told"} => worker.status \in Outcome
    /\ orphans \subseteq Task
    /\ told \subseteq [task : Task, status : Outcome]
    /\ ends \in Nat

Init ==
    /\ clock = 0
    /\ tasks = [t \in Task |-> Absent]
    /\ handler = NoTask
    /\ process = "up"
    /\ worker = At("top")
    /\ orphans = {}
    /\ told = {}
    /\ ends = 0

-----------------------------------------------------------------------------
(***************************************************************************)
(* Requests.                                                               *)
(***************************************************************************)
Listening == process = "up" /\ handler = NoTask

\* The task the window finds for a content, whatever became of it.
Duplicates(c) ==
    {t \in Task : tasks[t].status # "none" /\ tasks[t].content = c
                  /\ tasks[t].created >= clock - Window}

Enqueue(c) ==
    /\ Listening
    /\ Duplicates(c) = {}
    /\ \E t \in Tasks("none") :
         /\ tasks' = [tasks EXCEPT ![t] =
                        [status |-> "queued", content |-> c, created |-> clock,
                         events |-> <<"created">>]]
         /\ handler' = t
    /\ UNCHANGED <<clock, process, worker, orphans, told, ends>>

EnqueueAgain(c) ==
    /\ Listening
    /\ \E t \in Duplicates(c) :
         /\ \A u \in Duplicates(c) : tasks[t].created <= tasks[u].created
         /\ handler' = t
    /\ UNCHANGED <<clock, tasks, process, worker, orphans, told, ends>>

\* The reply is another read of the row.
Answer ==
    /\ handler # NoTask
    /\ handler' = NoTask
    /\ UNCHANGED <<clock, tasks, process, worker, orphans, told, ends>>

Comment(t) ==
    /\ Listening
    /\ tasks[t].status # "none"
    /\ Len(tasks[t].events) <= MaxEvents
    /\ tasks' = Log(t, "comment_added")
    /\ UNCHANGED <<clock, handler, process, worker, orphans, told, ends>>

-----------------------------------------------------------------------------
(***************************************************************************)
(* The worker's loop.                                                      *)
(***************************************************************************)
Loop ==
    /\ worker.at = "top"
    /\ IF process = "up" THEN To("claiming") ELSE worker' = At("off")
    /\ UNCHANGED <<clock, tasks, handler, process, orphans, told, ends>>

\* Mutant: the order of the queue is reversed.
Newest == {t \in Tasks("queued") :
              \A u \in Tasks("queued") : tasks[t].created >= tasks[u].created}

Oldest == {t \in Tasks("queued") :
              \A u \in Tasks("queued") : tasks[t].created <= tasks[u].created}

\* claim_next; rows of one second come in any order.  An empty queue: sleep.
Claim ==
    /\ worker.at = "claiming"
    /\ IF Oldest = {}
         THEN worker' = At("top") /\ UNCHANGED tasks
         ELSE \E t \in Oldest :
                /\ tasks' = [tasks EXCEPT ![t].status = "running"]
                /\ worker' = [at |-> "claimed", task |-> t, status |-> "none"]
    /\ UNCHANGED <<clock, handler, process, orphans, told, ends>>

\* The event execution_started; feedback on it is tried and may fail.
Start ==
    /\ worker.at = "claimed"
    /\ tasks' = Log(worker.task, "execution_started")
    /\ To("started")
    /\ UNCHANGED <<clock, handler, process, orphans, told, ends>>

\* run_flow_command, from its beginning to its end, and _task_status.
Run ==
    /\ worker.at = "started"
    /\ To("running")
    /\ UNCHANGED <<clock, tasks, handler, process, orphans, told, ends>>

Ran(status) ==
    /\ worker.at = "running"
    /\ status = "completed_with_findings" => tasks[worker.task].content \in Reviews
    /\ worker' = [worker EXCEPT !.at = "ran", !.status = status]
    /\ UNCHANGED <<clock, tasks, handler, process, orphans, told, ends>>

OutcomeEvent(status) ==
    IF status = "failed" THEN "execution_failed" ELSE "execution_succeeded"

\* Mutant: a failed task is queued again.
FinishRequeue ==
    /\ worker.at = "ran"
    /\ tasks' = [Log(worker.task, OutcomeEvent(worker.status))
                   EXCEPT ![worker.task].status =
                     IF worker.status = "failed" THEN "queued" ELSE worker.status]
    /\ To("finished")
    /\ UNCHANGED <<clock, handler, process, orphans, told, ends>>

Finish ==
    /\ worker.at = "ran"
    /\ tasks' = [Log(worker.task, OutcomeEvent(worker.status))
                   EXCEPT ![worker.task].status = worker.status]
    /\ To("finished")
    /\ UNCHANGED <<clock, handler, process, orphans, told, ends>>

Sequel == FollowUp[tasks[worker.task].content]

\* review_requested or approved, when the command succeeded.
Follow ==
    /\ worker.at = "finished"
    /\ tasks' = IF worker.status = "succeeded" /\ Sequel \notin {None, "closed"}
                  THEN Log(worker.task, Sequel) ELSE tasks
    /\ To("followed")
    /\ UNCHANGED <<clock, handler, process, orphans, told, ends>>

\* The provider may fail, which is swallowed.
Feedback ==
    told' \in {told, told \cup {[task |-> worker.task, status |-> worker.status]}}

Tell ==
    /\ worker.at = "followed"
    /\ Feedback
    /\ To("told")
    /\ UNCHANGED <<clock, tasks, handler, process, orphans, ends>>

\* closed, when the output of the command says so; then feedback on the whole task.
Close ==
    /\ worker.at = "told"
    /\ \/ /\ worker.status = "succeeded" /\ Sequel = "closed"
          /\ tasks' = Log(worker.task, Sequel)
       \/ UNCHANGED tasks
    /\ Feedback
    /\ worker' = At("top")
    /\ UNCHANGED <<clock, handler, process, orphans, ends>>

\* Nothing catches what the store or run_flow_command raise: the thread is over.
Raise ==
    /\ Raises
    /\ worker.at \in InHand \cup {"claiming", "finished", "told"}
    /\ To("dead")
    /\ UNCHANGED <<clock, tasks, handler, process, orphans, told, ends>>

-----------------------------------------------------------------------------
(***************************************************************************)
(* The process.                                                            *)
(***************************************************************************)
\* Shutdown sets the stop event once no request is left.
Stop ==
    /\ Listening
    /\ ends < MaxEnds
    /\ process' = "stopping"
    /\ UNCHANGED <<clock, tasks, handler, worker, orphans, told, ends>>

\* The process is gone, the daemon thread with it: after five seconds of
\* stopping, or at any time.  A flow command goes too, or is left running.
End ==
    /\ process # "down"
    /\ ends < MaxEnds
    /\ process' = "down"
    /\ ends' = ends + 1
    /\ handler' = NoTask
    /\ worker' = At("off")
    /\ \/ UNCHANGED orphans
       \/ /\ Outlives /\ worker.at = "running"
          /\ orphans' = orphans \cup {worker.task}
    /\ UNCHANGED <<clock, tasks, told>>

\* A command nobody waits for any more ends.
OrphanEnds(t) ==
    /\ t \in orphans
    /\ orphans' = orphans \ {t}
    /\ UNCHANGED <<clock, tasks, handler, process, worker, told, ends>>

\* Mutant: reset_running_tasks is left out.
BootAsIs ==
    /\ process = "down"
    /\ process' = "up"
    /\ worker' = At("top")
    /\ UNCHANGED <<clock, tasks, handler, orphans, told, ends>>
\* Mutant: whatever did not succeed is queued again.
BootAll ==
    /\ process = "down"
    /\ tasks' = [t \in Task |-> IF tasks[t].status \in {"running", "failed"}
                                  THEN [tasks[t] EXCEPT !.status = "queued"] ELSE tasks[t]]
    /\ process' = "up"
    /\ worker' = At("top")
    /\ UNCHANGED <<clock, handler, orphans, told, ends>>

\* lifespan: reset_running_tasks, then the worker starts.
Boot ==
    /\ process = "down"
    /\ tasks' = [t \in Task |-> IF tasks[t].status = "running"
                                  THEN [tasks[t] EXCEPT !.status = "queued"] ELSE tasks[t]]
    /\ process' = "up"
    /\ worker' = At("top")
    /\ UNCHANGED <<clock, handler, orphans, told, ends>>

Tick ==
    /\ clock < MaxClock
    /\ clock' = clock + 1
    /\ UNCHANGED <<tasks, handler, process, worker, orphans, told, ends>>

-----------------------------------------------------------------------------
WorkerStep ==
    \/ Loop \/ Claim \/ Start \/ Run \/ Finish \/ Follow \/ Tell \/ Close
    \/ \E status \in Outcome : Ran(status)

Next ==
    \/ \E c \in Content : Enqueue(c) \/ EnqueueAgain(c)
    \/ Answer
    \/ \E t \in Task : Comment(t) \/ OrphanEnds(t)
    \/ WorkerStep
    \/ Raise
    \/ Stop \/ End \/ Boot
    \/ Tick

Spec == Init /\ [][Next]_vars

\* The thread is scheduled and a flow command ends; an asked-for shutdown is
\* carried out, and whatever runs the gateway starts it again.
Fairness ==
    /\ WF_vars(WorkerStep)
    /\ WF_vars(process = "stopping" /\ End)
    /\ WF_vars(Boot)

FairSpec == Spec /\ Fairness

-----------------------------------------------------------------------------
(***************************************************************************)
(* Properties.                                                             *)
(***************************************************************************)
Done == {t \in Task : tasks[t].status \in Outcome}

\* While the worker lives, the rows that say running are the one task it has in
\* hand: no crash, requeue or shutdown leaves a row behind that nobody runs.
RunningIsHeld ==
    process # "down" /\ worker.at # "dead" =>
        Tasks("running") = IF worker.at \in InHand THEN {worker.task} ELSE {}

\* What was finished stays finished, with the outcome it has: no start of the
\* gateway and no late thread touches it again.
FinishedStays ==
    [][\A t \in Done : tasks'[t].status = tasks[t].status]_vars

\* A repeated execution is paid for by an end of the process: over all tasks, no
\* more starts are on record than tasks and ends together.
Starts == UNION {{<<t, i>> : i \in Logged(t, "execution_started")} : t \in Task}
Begun == {t \in Task : Logged(t, "execution_started") # {}}
Present == Task \ Tasks("none")

RepeatsPaidFor == Cardinality(Starts) <= Cardinality(Present) + ends

\* A task enqueued in an earlier second is started first, requeued or not.
FirstComeFirstServed ==
    \A t, u \in Present : tasks[t].created < tasks[u].created /\ u \in Begun => t \in Begun

\* Both: tasks are started in their order, and again only for a reason.
StartsInOrder == RepeatsPaidFor /\ FirstComeFirstServed

\* Whoever is told an outcome is told the one on record, whatever happens between.
ToldTruly ==
    \A n \in told : tasks[n.task].status = n.status

\* The queue as an IntentService: what a task is being attempted for is the flow
\* command of the living worker, until its result is on record.
Ledger == [t \in Task |-> CASE tasks[t].status = "none" -> "unknown"
                            [] tasks[t].status \in {"queued", "running"} -> "accepted"
                            [] OTHER -> tasks[t].status]
Attempt == IF worker.at \in {"running", "ran"} THEN {worker.task} ELSE {}
Service == INSTANCE IntentService WITH ledger <- Ledger, attempt <- Attempt

\* One attempt at a time, each for a task without outcome, and every outcome that of
\* an attempt that ran to its end.
ImplementsIntentService == Service!Safe

\* Every accepted task is executed and finished, whatever ends in between, as long as no
\* exception ends the worker's thread.
EveryTaskFinishes ==
    \A t \in Task : tasks[t].status \in {"queued", "running"} ~> t \in Done \/ worker.at = "dead"
=============================================================================
