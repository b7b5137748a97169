--------------------------- MODULE TaskQueueProofs ---------------------------
(***************************************************************************)
(* Proofs about TaskQueue, for all values of its constants.                *)
(***************************************************************************)
EXTENDS TaskQueue, FiniteSetTheorems, TLAPS

Rows == [Task -> [status : Status, content : Content \cup {None},
                  created : Nat, events : Seq(Event)]]
Told == {"finished", "followed", "told"}

\* A row that is there has the content of its request.
RowsWhole == \A t \in Task : tasks[t].status # "none" => tasks[t].content \in Content

\* What the worker's thread remembers of its task is what the row says.
WorkerInStep ==
    /\ worker.at \in InHand => tasks[worker.task].status = "running"
    /\ worker.at \in Told => tasks[worker.task].status = worker.status

\* The inductive invariant.
IInv == TypeOK /\ RowsWhole /\ WorkerInStep /\ RunningIsHeld /\ ToldTruly

-----------------------------------------------------------------------------
\* The sets of names are disjoint where they must be.
LEMMA Names ==
    /\ "none" \notin Outcome /\ "queued" \notin Outcome /\ "running" \notin Outcome
    /\ InHand \cap Told = {}
    /\ Outcome \subseteq Status
PROOF BY DEF Outcome, InHand, Told, Status

\* Appending an event keeps the table well typed, and only touches events.
LEMMA LogKeeps ==
    ASSUME TypeOK, NEW t \in Task, NEW e \in Event
    PROVE  /\ Log(t, e) \in Rows
           /\ \A u \in Task : /\ Log(t, e)[u].status = tasks[u].status
                              /\ Log(t, e)[u].content = tasks[u].content
PROOF
<1>1. Append(tasks[t].events, e) \in Seq(Event)
  BY DEF TypeOK
<1> QED BY <1>1 DEF TypeOK, Log, Rows

LEMMA InitIInv == Init => IInv
PROOF BY DEF Init, IInv, TypeOK, RowsWhole, WorkerInStep, RunningIsHeld, ToldTruly, Absent,
            At, Status, Outcome, Place, InHand, Told, Tasks

-----------------------------------------------------------------------------
(***************************************************************************)
(* Every step keeps the invariant.                                         *)
(***************************************************************************)
\* A step after which every row has the status and the content it had, and the
\* worker has in hand, or has finished, the task it had.
LEMMA SameRows ==
    ASSUME IInv, TypeOK', ToldTruly',
           \A u \in Task : /\ tasks'[u].status = tasks[u].status
                           /\ tasks'[u].content = tasks[u].content,
           process' = process,
           worker'.at \in InHand <=> worker.at \in InHand /\ worker'.at # "dead",
           worker.at = "dead" => worker'.at = "dead",
           worker'.at \in InHand => worker'.task = worker.task,
           worker'.at \in Told => /\ worker.at \in Told
                                  /\ worker'.task = worker.task
                                  /\ worker'.status = worker.status
    PROVE  IInv'
PROOF
<1> USE DEF IInv
<1>1. RowsWhole'
  BY DEF RowsWhole
<1>2. WorkerInStep'
  BY DEF WorkerInStep, TypeOK, Told
<1>3. RunningIsHeld'
  <2>1. Tasks("running")' = Tasks("running")
    BY DEF Tasks
  <2> QED BY <2>1 DEF RunningIsHeld
<1> QED BY <1>1, <1>2, <1>3

\* A row that is not there is written by a request.
LEMMA EnqueueStep == ASSUME IInv, NEW c \in Content, Enqueue(c) PROVE IInv'
PROOF
<1> USE DEF IInv
<1>1. PICK t \in Tasks("none") :
        /\ tasks' = [tasks EXCEPT ![t] = [status |-> "queued", content |-> c, created |-> clock,
                                          events |-> <<"created">>]]
        /\ handler' = t
  BY DEF Enqueue
<1>2. t \in Task /\ tasks[t].status = "none"
  BY <1>1 DEF Tasks
<1>3. <<"created">> \in Seq(Event)
  BY DEF Event
<1>4. tasks' \in Rows
  BY <1>1, <1>2, <1>3 DEF TypeOK, Rows, Status
<1>5. /\ \A u \in Task \ {t} : tasks'[u] = tasks[u]
      /\ tasks'[t].status = "queued" /\ tasks'[t].content = c
  BY <1>1, <1>2 DEF TypeOK
<1>6. TypeOK'
  BY <1>1, <1>2, <1>4 DEF TypeOK, Rows, Enqueue
<1>7. RowsWhole'
  BY <1>5 DEF RowsWhole
<1>8. WorkerInStep'
  BY <1>2, <1>5, Names DEF WorkerInStep, TypeOK, Enqueue, Told
<1>9. RunningIsHeld'
  BY <1>2, <1>5 DEF RunningIsHeld, Tasks, Enqueue
<1>10. ToldTruly'
  BY <1>2, <1>5, Names DEF ToldTruly, TypeOK, Enqueue
<1> QED BY <1>6, <1>7, <1>8, <1>9, <1>10

\* A request that writes no row, or only an event.
LEMMA RequestStep ==
    ASSUME IInv, \/ \E c \in Content : EnqueueAgain(c)
                 \/ Answer
                 \/ \E t \in Task : Comment(t)
    PROVE  IInv'
PROOF
<1> USE DEF IInv
<1>1. ASSUME NEW t \in Task, Comment(t) PROVE IInv'
  <2>1. tasks' \in Rows /\ \A u \in Task : /\ tasks'[u].status = tasks[u].status
                                           /\ tasks'[u].content = tasks[u].content
    BY <1>1, LogKeeps DEF Comment, Event
  <2>2. UNCHANGED <<clock, handler, process, worker, orphans, told, ends>>
    BY <1>1 DEF Comment
  <2>3. TypeOK' /\ ToldTruly'
    BY <2>1, <2>2 DEF TypeOK, Rows, ToldTruly
  <2> QED BY <2>1, <2>2, <2>3, SameRows DEF InHand
<1>2. ASSUME NEW c \in Content, EnqueueAgain(c) PROVE IInv'
  <2>1. TypeOK' /\ ToldTruly' /\ UNCHANGED <<tasks, process, worker>>
    BY <1>2 DEF EnqueueAgain, TypeOK, ToldTruly, Duplicates
  <2> QED BY <2>1, SameRows DEF InHand
<1>3. CASE Answer
  <2>1. TypeOK' /\ ToldTruly' /\ UNCHANGED <<tasks, process, worker>>
    BY <1>3 DEF Answer, TypeOK, ToldTruly
  <2> QED BY <2>1, SameRows DEF InHand
<1> QED BY <1>1, <1>2, <1>3

\* The worker takes the oldest queued task, if there is one.
LEMMA ClaimStep == ASSUME IInv, Claim PROVE IInv'
PROOF
<1> USE DEF IInv
<1>1. CASE UNCHANGED tasks /\ worker' = At("top")
  <2>1. TypeOK' /\ ToldTruly' /\ UNCHANGED process /\ worker.at = "claiming"
    BY <1>1 DEF Claim, TypeOK, ToldTruly, At, Place, Status, InHand
  <2> QED BY <1>1, <2>1, SameRows DEF InHand, Told, At
<1>2. ASSUME NEW t \in Task, tasks[t].status = "queued",
             tasks' = [tasks EXCEPT ![t].status = "running"],
             worker' = [at |-> "claimed", task |-> t, status |-> "none"]
      PROVE  IInv'
  <2>1. /\ worker.at = "claiming"
        /\ UNCHANGED <<clock, handler, process, orphans, told, ends>>
    BY DEF Claim
  <2>2. /\ tasks' \in Rows
        /\ \A u \in Task : /\ tasks'[u].status = IF u = t THEN "running" ELSE tasks[u].status
                           /\ tasks'[u].content = tasks[u].content
    BY <1>2 DEF TypeOK, Rows, Status
  <2>3. TypeOK'
    BY <1>2, <2>1, <2>2 DEF TypeOK, Rows, Place, Status, InHand
  <2>4. RowsWhole'
    BY <1>2, <2>2 DEF RowsWhole
  <2>5. WorkerInStep'
    BY <1>2, <2>2, Names DEF WorkerInStep, InHand, Told
  <2>6. RunningIsHeld'
    <3>1. process # "down" => Tasks("running") = {}
      BY <2>1 DEF RunningIsHeld, InHand
    <3>2. process # "down" => Tasks("running")' = {t}
      BY <3>1, <2>2 DEF Tasks
    <3> QED BY <1>2, <2>1, <3>2 DEF RunningIsHeld, InHand
  <2>7. ToldTruly'
    BY <1>2, <2>1, <2>2, Names DEF ToldTruly, TypeOK
  <2> QED BY <2>3, <2>4, <2>5, <2>6, <2>7
<1> QED BY <1>1, <1>2 DEF Claim, Oldest, Tasks

\* The worker moves on with the task it has, or gives up.
LEMMA MoveStep ==
    ASSUME IInv, Loop \/ Run \/ Raise \/ \E status \in Outcome : Ran(status)
    PROVE  IInv'
PROOF
<1> USE DEF IInv
<1>1. UNCHANGED <<clock, tasks, handler, process, orphans, told, ends>>
  BY DEF Loop, Run, Raise, Ran
<1>2. ToldTruly'
  BY <1>1 DEF ToldTruly
<1>3. CASE Loop
  <2>1. TypeOK' /\ worker.at = "top" /\ worker'.at \in {"claiming", "off"}
    BY <1>1, <1>3 DEF Loop, To, At, TypeOK, Place, Status, InHand
  <2> QED BY <1>1, <1>2, <2>1, SameRows DEF InHand, Told
<1>4. CASE Run
  <2>1. TypeOK' /\ worker.at = "started" /\ worker'.at = "running" /\ worker'.task = worker.task
    BY <1>1, <1>4 DEF Run, To, TypeOK, Place, InHand
  <2> QED BY <1>1, <1>2, <2>1, SameRows DEF InHand, Told
<1>5. CASE Raise
  <2>1. TypeOK' /\ worker'.at = "dead"
    BY <1>1, <1>5 DEF Raise, To, TypeOK, Place, InHand
  <2> QED BY <1>1, <1>2, <2>1, SameRows DEF InHand, Told
<1>6. ASSUME NEW status \in Outcome, Ran(status) PROVE IInv'
  <2>1. /\ worker.at = "running" /\ worker.task \in Task /\ status \in Status
        /\ worker' = [worker EXCEPT !.at = "ran", !.status = status]
    BY <1>6, Names DEF Ran, TypeOK, InHand
  <2>2. /\ worker' \in [at : Place, task : Task \cup {NoTask}, status : Status]
        /\ worker'.at = "ran" /\ worker'.task = worker.task /\ worker'.status = status
    BY <2>1 DEF TypeOK, Place
  <2>3. TypeOK'
    BY <1>1, <2>1, <2>2 DEF TypeOK
  <2> QED BY <1>1, <1>2, <2>1, <2>2, <2>3, SameRows DEF InHand, Told
<1> QED BY <1>3, <1>4, <1>5, <1>6

\* The worker adds an event to its task's row, or sends feedback on it.
LEMMA LogStep ==
    ASSUME IInv, Start \/ Follow \/ Tell \/ Close
    PROVE  IInv'
PROOF
<1> USE DEF IInv
<1>1. worker.task \in Task /\ UNCHANGED <<clock, handler, process, orphans, ends>>
  BY DEF Start, Follow, Tell, Close, TypeOK, InHand
<1>2. /\ tasks' \in Rows
      /\ \A u \in Task : /\ tasks'[u].status = tasks[u].status
                         /\ tasks'[u].content = tasks[u].content
  <2>1. CASE UNCHANGED tasks
    BY <2>1 DEF TypeOK, Rows
  <2>2. CASE tasks' = Log(worker.task, "execution_started")
    BY <1>1, <2>2, LogKeeps DEF Event
  <2>3. CASE tasks' = Log(worker.task, Sequel) /\ worker.at \in Told
             /\ (Sequel # None \/ Sequel = "closed")
    <3>1. tasks[worker.task].content \in Content
      BY <1>1, <2>3, Names DEF WorkerInStep, RowsWhole, TypeOK, Told
    <3>2. Sequel \in Event
      BY <2>3, <3>1, ContentAssumption DEF Sequel, Event
    <3> QED BY <1>1, <2>3, <3>2, LogKeeps
  <2> QED BY <2>1, <2>2, <2>3 DEF Start, Follow, Tell, Close, Told
<1>3. \/ worker.at = "claimed" /\ worker' = [worker EXCEPT !.at = "started"] /\ UNCHANGED told
      \/ worker.at = "finished" /\ worker' = [worker EXCEPT !.at = "followed"] /\ UNCHANGED told
      \/ worker.at = "followed" /\ worker' = [worker EXCEPT !.at = "told"] /\ Feedback
      \/ worker.at = "told" /\ worker' = At("top") /\ Feedback
  BY DEF Start, Follow, Tell, Close, To
<1>4. told' \subseteq [task : Task, status : Outcome] /\ ToldTruly'
  BY <1>1, <1>2, <1>3 DEF Feedback, TypeOK, ToldTruly, WorkerInStep, Told
<1>5. TypeOK'
  <2>1. worker' \in [at : Place, task : Task \cup {NoTask}, status : Status]
    <3>1. CASE worker' = At("top")
      BY <3>1 DEF At, Place, Status
    <3>2. ASSUME NEW place \in Place, worker' = [worker EXCEPT !.at = place]
          PROVE  worker' \in [at : Place, task : Task \cup {NoTask}, status : Status]
      BY <3>2 DEF TypeOK
    <3>3. {"started", "followed", "told"} \subseteq Place
      BY DEF Place
    <3> QED BY <1>3, <3>1, <3>2, <3>3
  <2>2. /\ worker'.at \in InHand \cup Told => worker'.task \in Task
        /\ worker'.at \in {"ran"} \cup Told => worker'.status \in Outcome
    <3>1. CASE worker' = At("top")
      BY <3>1 DEF At, InHand, Told
    <3>2. CASE worker' # At("top")
      <4>4. worker \in [at : Place, task : Task \cup {NoTask}, status : Status]
        BY DEF TypeOK
      <4>1. worker'.task = worker.task /\ worker'.status = worker.status
        BY <1>3, <3>2, <4>4
      <4>2. worker'.at = "started" \/ (worker'.at \in Told /\ worker.at \in Told)
        BY <1>3, <3>2, <4>4 DEF Told
      <4>3. worker.at \in Told => worker.status \in Outcome
        BY DEF TypeOK, Told
      <4> QED BY <1>1, <4>1, <4>2, <4>3 DEF Told
    <3> QED BY <3>1, <3>2
  <2> QED BY <1>1, <1>2, <1>4, <2>1, <2>2 DEF TypeOK, Rows, Told
<1>6. /\ worker'.at \in InHand <=> worker.at \in InHand
      /\ worker'.at \in InHand => worker'.task = worker.task
      /\ worker'.at # "dead" /\ worker.at # "dead"
      /\ worker'.at \in Told => /\ worker.at \in Told
                                /\ worker'.task = worker.task
                                /\ worker'.status = worker.status
  BY <1>3 DEF TypeOK, InHand, Told, At
<1> QED BY <1>1, <1>2, <1>4, <1>5, <1>6, SameRows

\* The outcome is put on record.
LEMMA FinishStep == ASSUME IInv, Finish PROVE IInv'
PROOF
<1> USE DEF IInv
<1> DEFINE t == worker.task
           logged == Log(t, OutcomeEvent(worker.status))
<1>1. /\ worker.at = "ran" /\ t \in Task /\ worker.status \in Outcome
      /\ tasks' = [logged EXCEPT ![t].status = worker.status]
      /\ worker' = [worker EXCEPT !.at = "finished"]
      /\ UNCHANGED <<clock, handler, process, orphans, told, ends>>
  BY DEF Finish, To, TypeOK, InHand
<1>2. /\ logged \in Rows
      /\ \A u \in Task : /\ logged[u].status = tasks[u].status
                         /\ logged[u].content = tasks[u].content
  BY <1>1, LogKeeps DEF OutcomeEvent, Event
<1> HIDE DEF logged
<1>3. /\ tasks' \in Rows
      /\ \A u \in Task : /\ tasks'[u].status = IF u = t THEN worker.status ELSE tasks[u].status
                         /\ tasks'[u].content = tasks[u].content
  BY <1>1, <1>2, Names DEF Rows
<1>4. tasks[t].status = "running"
  BY <1>1 DEF WorkerInStep, InHand
<1>5. TypeOK'
  BY <1>1, <1>3 DEF TypeOK, Rows, Place, InHand
<1>6. RowsWhole'
  BY <1>1, <1>3, <1>4 DEF RowsWhole
<1>7. WorkerInStep'
  BY <1>1, <1>3 DEF WorkerInStep, TypeOK, InHand, Told
<1>8. RunningIsHeld'
  <2>1. process # "down" => Tasks("running") = {t}
    BY <1>1 DEF RunningIsHeld, InHand
  <2>2. process # "down" => Tasks("running")' = {}
    BY <1>1, <1>3, <2>1, Names DEF Tasks
  <2> QED BY <1>1, <2>2 DEF RunningIsHeld, TypeOK, InHand
<1>9. ToldTruly'
  BY <1>1, <1>3, <1>4, Names DEF ToldTruly, TypeOK
<1> QED BY <1>5, <1>6, <1>7, <1>8, <1>9

\* The process ends, and starts again.
LEMMA ProcessStep ==
    ASSUME IInv, Stop \/ End \/ Boot \/ Tick \/ \E t \in Task : OrphanEnds(t)
    PROVE  IInv'
PROOF
<1> USE DEF IInv
<1>1. CASE Stop
  <2>1. TypeOK' /\ UNCHANGED <<tasks, worker, told>> /\ process # "down"
    BY <1>1 DEF Stop, Listening, TypeOK
  <2> QED BY <2>1 DEF RowsWhole, WorkerInStep, RunningIsHeld, ToldTruly, Tasks
<1>2. CASE End
  <2>1. TypeOK' /\ UNCHANGED <<tasks, told>> /\ process' = "down" /\ worker'.at = "off"
    BY <1>2 DEF End, TypeOK, At, Place, Status, InHand
  <2> QED BY <2>1 DEF RowsWhole, WorkerInStep, RunningIsHeld, ToldTruly, InHand, Told
<1>3. CASE Boot
  <2>1. /\ worker' = At("top")
        /\ UNCHANGED <<clock, handler, orphans, told, ends>>
        /\ process' = "up"
    BY <1>3 DEF Boot
  <2>2. /\ tasks' \in Rows
        /\ \A u \in Task : /\ tasks'[u].status = IF tasks[u].status = "running"
                                                   THEN "queued" ELSE tasks[u].status
                           /\ tasks'[u].content = tasks[u].content
    BY <1>3 DEF Boot, TypeOK, Rows, Status
  <2>3. TypeOK'
    BY <2>1, <2>2 DEF TypeOK, Rows, At, Place, Status, InHand
  <2>4. RowsWhole' /\ WorkerInStep' /\ RunningIsHeld'
    BY <2>1, <2>2 DEF RowsWhole, WorkerInStep, RunningIsHeld, Tasks, At, InHand, Told
  <2>5. ToldTruly'
    BY <2>1, <2>2, Names DEF ToldTruly, TypeOK
  <2> QED BY <2>3, <2>4, <2>5
<1>4. CASE Tick \/ \E t \in Task : OrphanEnds(t)
  <2>1. TypeOK' /\ ToldTruly' /\ UNCHANGED <<tasks, worker, process>>
    BY <1>4 DEF Tick, OrphanEnds, TypeOK, ToldTruly
  <2> QED BY <2>1, SameRows DEF InHand
<1> QED BY <1>1, <1>2, <1>3, <1>4

LEMMA NextIInv == IInv /\ [Next]_vars => IInv'
PROOF
<1> SUFFICES ASSUME IInv, [Next]_vars PROVE IInv'
  OBVIOUS
<1>1. CASE UNCHANGED vars
  BY <1>1 DEF vars, IInv, TypeOK, RowsWhole, WorkerInStep, RunningIsHeld, ToldTruly, Tasks
<1> QED BY <1>1, EnqueueStep, RequestStep, ClaimStep, MoveStep, LogStep, FinishStep, ProcessStep
        DEF Next, WorkerStep

THEOREM Invariance == Spec => []IInv
PROOF BY InitIInv, NextIInv, PTL DEF Spec

\* The table, the worker's thread and the process stay well typed.
THEOREM TypeCorrect == Spec => []TypeOK
PROOF BY Invariance, PTL DEF IInv

\* While the worker lives, the rows that say running are the one task it has in hand.
THEOREM RunningHeld == Spec => []RunningIsHeld
PROOF BY Invariance, PTL DEF IInv

\* Whoever is told an outcome is told the one on record.
THEOREM OutcomesTold == Spec => []ToldTruly
PROOF BY Invariance, PTL DEF IInv

-----------------------------------------------------------------------------
(***************************************************************************)
(* What was finished stays finished: Finish is for the task in hand, which *)
(* is running, and the start of the gateway requeues only what is running. *)
(***************************************************************************)
LEMMA DoneStep ==
    ASSUME IInv, [Next]_vars, NEW t \in Task, tasks[t].status \in Outcome
    PROVE  tasks'[t].status = tasks[t].status
PROOF
<1> USE DEF IInv
<1>1. CASE UNCHANGED tasks
  BY <1>1
<1>2. ASSUME NEW c \in Content, Enqueue(c) PROVE tasks'[t].status = tasks[t].status
  BY <1>2, Names DEF Enqueue, Tasks, TypeOK
<1>3. CASE Claim
  BY <1>3, Names DEF Claim, Oldest, Tasks, TypeOK
<1>4. ASSUME NEW u \in Task, NEW e, tasks' = Log(u, e) PROVE tasks'[t].status = tasks[t].status
  BY <1>4 DEF Log, TypeOK
<1>5. CASE Finish
  <2>1. worker.task \in Task /\ worker.task # t
    BY <1>5, Names DEF Finish, WorkerInStep, TypeOK, InHand
  <2> QED BY <1>5, <2>1 DEF Finish, Log, TypeOK
<1>6. CASE Boot
  BY <1>6, Names DEF Boot, TypeOK
<1>7. CASE Start \/ Follow \/ Close
  <2>1. worker.task \in Task
    BY <1>7 DEF Start, Follow, Close, TypeOK, InHand
  <2> QED BY <1>1, <1>4, <1>7, <2>1 DEF Start, Follow, Close
<1> QED BY <1>1, <1>2, <1>3, <1>4, <1>5, <1>6, <1>7
        DEF Next, WorkerStep, EnqueueAgain, Answer, Comment, OrphanEnds, Loop, Run, Tell, Ran,
            Raise, Stop, End, Tick, vars

\* No start of the gateway and no late thread touches a finished task.
THEOREM Finality == Spec => FinishedStays
PROOF
<1>1. IInv /\ [Next]_vars => [\A t \in Done : tasks'[t].status = tasks[t].status]_vars
  BY DoneStep DEF Done
<1> QED BY <1>1, Invariance, PTL DEF Spec, FinishedStays

-----------------------------------------------------------------------------
(***************************************************************************)
(* The queue implements the safety of IntentService.                       *)
(***************************************************************************)
\* A step that changes neither a row's standing nor the attempt is a stutter, and one
\* that only gives the attempt up cuts it off.
LEMMA Unmoved ==
    ASSUME \A u \in Task : \/ tasks'[u].status = tasks[u].status
                           \/ /\ tasks[u].status \in {"queued", "running"}
                              /\ tasks'[u].status \in {"queued", "running"},
           Attempt' = Attempt \/ Attempt' = {}
    PROVE  Service!Next \/ UNCHANGED Service!vars
PROOF
<1>1. Ledger' = Ledger
  BY DEF Ledger
<1>2. CASE Attempt' = Attempt
  BY <1>1, <1>2 DEF Service!vars
<1>3. CASE Attempt' = {} /\ Attempt # {}
  BY <1>1, <1>3 DEF Service!Next, Service!CutOff
<1> QED BY <1>2, <1>3

LEMMA RefineInit == Init => Service!Init
PROOF BY DEF Init, Service!Init, Ledger, Attempt, Absent, At

LEMMA RefineNext == IInv /\ [Next]_vars => [Service!Next]_(Service!vars)
PROOF
<1> SUFFICES ASSUME IInv, [Next]_vars PROVE Service!Next \/ UNCHANGED Service!vars
  OBVIOUS
<1> USE DEF IInv
<1>1. CASE UNCHANGED <<tasks, worker>>
  BY <1>1, Unmoved DEF Attempt
<1>2. ASSUME NEW c \in Content, Enqueue(c) PROVE Service!Next
  <2>1. PICK t \in Task :
          /\ tasks[t].status = "none"
          /\ tasks' = [tasks EXCEPT ![t] = [status |-> "queued", content |-> c,
                                            created |-> clock, events |-> <<"created">>]]
          /\ UNCHANGED worker
    BY <1>2 DEF Enqueue, Tasks
  <2>2. Ledger[t] = "unknown" /\ Ledger' = [Ledger EXCEPT ![t] = "accepted"]
    BY <2>1 DEF Ledger, TypeOK
  <2>3. Attempt' = Attempt
    BY <2>1 DEF Attempt
  <2> QED BY <2>2, <2>3 DEF Service!Next, Service!Accept
<1>3. CASE Run
  <2>1. /\ worker.at = "started" /\ worker.task \in Task /\ UNCHANGED tasks
        /\ worker'.at = "running" /\ worker'.task = worker.task
        /\ tasks[worker.task].status = "running"
    BY <1>3 DEF Run, To, TypeOK, WorkerInStep, InHand
  <2>2. Ledger[worker.task] = "accepted" /\ Ledger' = Ledger
    BY <2>1 DEF Ledger
  <2>3. Attempt = {} /\ Attempt' = {worker.task}
    BY <2>1 DEF Attempt
  <2> QED BY <2>1, <2>2, <2>3 DEF Service!Next, Service!Begin
<1>4. CASE Finish
  <2>1. /\ worker.at = "ran" /\ worker.task \in Task /\ worker.status \in Outcome
        /\ worker'.at = "finished"
    BY <1>4 DEF Finish, To, TypeOK, InHand
  <2>2. \A u \in Task : tasks'[u].status = IF u = worker.task THEN worker.status
                                                              ELSE tasks[u].status
    BY <1>4, <2>1 DEF Finish, Log, TypeOK
  <2>3. Ledger' = [Ledger EXCEPT ![worker.task] = worker.status]
    BY <2>1, <2>2, Names DEF Ledger
  <2>4. Attempt = {worker.task} /\ Attempt' = {}
    BY <2>1 DEF Attempt
  <2> QED BY <2>1, <2>3, <2>4 DEF Service!Next, Service!Conclude
<1>5. CASE Claim
  <2>1. Attempt' = Attempt
    BY <1>5 DEF Claim, Attempt, At
  <2>2. \A u \in Task : \/ tasks'[u].status = tasks[u].status
                        \/ tasks[u].status = "queued" /\ tasks'[u].status = "running"
    <3>1. CASE UNCHANGED tasks
      BY <3>1
    <3>2. ASSUME NEW t \in Task, tasks[t].status = "queued",
                 tasks' = [tasks EXCEPT ![t].status = "running"]
          PROVE  \A u \in Task : \/ tasks'[u].status = tasks[u].status
                                 \/ tasks[u].status = "queued" /\ tasks'[u].status = "running"
      BY <3>2 DEF TypeOK
    <3> QED BY <1>5, <3>1, <3>2 DEF Claim, Oldest, Tasks
  <2> QED BY <2>1, <2>2, Unmoved
<1>6. CASE Boot
  <2>1. Attempt' = {}
    BY <1>6 DEF Boot, Attempt, At
  <2>2. \A u \in Task : \/ tasks'[u].status = tasks[u].status
                        \/ tasks[u].status = "running" /\ tasks'[u].status = "queued"
    BY <1>6 DEF Boot, TypeOK
  <2> QED BY <2>1, <2>2, Unmoved
<1>7. ASSUME NEW u \in Task, NEW e, tasks' = Log(u, e), Attempt' = Attempt
      PROVE  Service!Next \/ UNCHANGED Service!vars
  <2>1. \A v \in Task : tasks'[v].status = tasks[v].status
    BY <1>7 DEF Log, TypeOK
  <2> QED BY <1>7, <2>1, Unmoved
<1>8. ASSUME NEW u \in Task, Comment(u) PROVE Service!Next \/ UNCHANGED Service!vars
  BY <1>7, <1>8 DEF Comment, Attempt
<1>9. CASE Start \/ Follow \/ Tell \/ Close
  <2>1. worker.task \in Task
    BY <1>9 DEF Start, Follow, Tell, Close, TypeOK, InHand
  <2>2. worker.at \notin {"running", "ran"} /\ worker'.at \notin {"running", "ran"}
    BY <1>9 DEF Start, Follow, Tell, Close, To, At, TypeOK
  <2>3. Attempt' = Attempt
    BY <2>2 DEF Attempt
  <2>4. UNCHANGED tasks \/ \E e : tasks' = Log(worker.task, e)
    BY <1>9 DEF Start, Follow, Tell, Close
  <2> QED BY <1>7, <2>1, <2>3, <2>4, Unmoved
<1>10. CASE UNCHANGED tasks /\ Attempt' \in {Attempt, {}}
  BY <1>10, Unmoved
<1>11. CASE Loop \/ Raise \/ End
  <2>1. UNCHANGED tasks /\ worker'.at \in {"claiming", "off", "dead"}
    BY <1>11 DEF Loop, Raise, End, To, At, TypeOK
  <2> QED BY <1>10, <2>1 DEF Attempt
<1>12. ASSUME NEW status \in Outcome, Ran(status)
       PROVE  Service!Next \/ UNCHANGED Service!vars
  <2>1. /\ UNCHANGED tasks /\ worker.at = "running"
        /\ worker'.at = "ran" /\ worker'.task = worker.task
    BY <1>12 DEF Ran, TypeOK
  <2> QED BY <1>10, <2>1 DEF Attempt
<1> QED BY <1>1, <1>2, <1>3, <1>4, <1>5, <1>6, <1>8, <1>9, <1>11, <1>12
        DEF Next, WorkerStep, EnqueueAgain, Answer, OrphanEnds, Stop, Tick, vars

\* One attempt at a time, each for a task without outcome, and every outcome that of
\* an attempt that ran to its end.
THEOREM Refinement == Spec => ImplementsIntentService
PROOF BY RefineInit, RefineNext, Invariance, PTL DEF Spec, ImplementsIntentService, Service!Safe

-----------------------------------------------------------------------------
(***************************************************************************)
(* The order of starts, and their number.                                  *)
(***************************************************************************)
\* Tasks that are to be started before anything else happens to them, or again.
Due == Tasks("queued")
       \cup (IF process = "down" THEN Tasks("running")
             ELSE IF worker.at = "claimed" THEN {worker.task} ELSE {})

\* Where each start that is owed is paid for by a task or by an end.
Balanced ==
    /\ IsFiniteSet(Starts) /\ IsFiniteSet(Present)
    /\ Cardinality(Starts) + Cardinality(Due) <= Cardinality(Present) + ends

\* One row runs at most, also when nobody lives to run it.
Alone ==
    /\ \A t, u \in Tasks("running") : t = u
    /\ process = "down" => worker.at = "off"

\* Rows that are not there have no events yet; none is younger than now.
InTime == /\ Begun \subseteq Present
          /\ \A t \in Task : tasks[t].created <= clock

\* Nothing is finished, or run, that was not started.
StartedFirst ==
    /\ Done \subseteq Begun
    /\ worker.at \in {"started", "running", "ran"} => worker.task \in Begun

\* An older task was started before a younger one is claimed.
OldestFirst ==
    \A t, u \in Present :
        tasks[t].created < tasks[u].created /\ u \in Begun \cup Tasks("running") => t \in Begun

OrderInv == IInv /\ Balanced /\ Alone /\ InTime /\ StartedFirst /\ OldestFirst

\* Where an event stands in a list of events.
Places(s, e) == {i \in DOMAIN s : s[i] = e}

\* Appending another event moves none; appending the event adds a place.
LEMMA Appended ==
    ASSUME NEW s \in Seq(Event), NEW e \in Event, NEW x
    PROVE  /\ e # x => Places(Append(s, e), x) = Places(s, x)
           /\ e = x => /\ Len(s) + 1 \notin Places(s, x)
                       /\ \A i : i \in Places(Append(s, e), x) <=> i \in Places(s, x) \/ i = Len(s) + 1
PROOF
<1>1. DOMAIN Append(s, e) = 1..(Len(s) + 1) /\ DOMAIN s = 1..Len(s) /\ Len(s) \in Nat
  OBVIOUS
<1>2. \A i \in 1..Len(s) : Append(s, e)[i] = s[i]
  OBVIOUS
<1>3. Append(s, e)[Len(s) + 1] = e
  OBVIOUS
<1>4. \A i : i \in 1..(Len(s) + 1) <=> i \in 1..Len(s) \/ i = Len(s) + 1
  BY <1>1
<1>5. Len(s) + 1 \notin 1..Len(s)
  BY <1>1
<1> QED BY <1>1, <1>2, <1>3, <1>4, <1>5 DEF Places

\* What Log does to a row.
LEMMA LogAdds ==
    ASSUME TypeOK, NEW t \in Task, NEW e \in Event
    PROVE  \A u \in Task : /\ Log(t, e)[u].events = IF u = t THEN Append(tasks[t].events, e)
                                                            ELSE tasks[u].events
                           /\ Log(t, e)[u].created = tasks[u].created
                           /\ Log(t, e)[u].status = tasks[u].status
PROOF BY DEF TypeOK, Log

\* One element more, and a smaller set.
LEMMA OneMore ==
    ASSUME NEW S, IsFiniteSet(S), NEW x, x \notin S, NEW T, \A y : y \in T <=> y \in S \/ y = x
    PROVE  /\ IsFiniteSet(T)
           /\ Cardinality(S) \in Nat
           /\ Cardinality(T) = Cardinality(S) + 1
PROOF
<1>1. T = S \cup {x}
  OBVIOUS
<1> QED BY <1>1, FS_AddElement, FS_CardinalityType

LEMMA NoMore ==
    ASSUME NEW S, IsFiniteSet(S), NEW T, T \subseteq S
    PROVE  /\ IsFiniteSet(T)
           /\ Cardinality(S) \in Nat /\ Cardinality(T) \in Nat
           /\ Cardinality(T) <= Cardinality(S)
PROOF BY FS_Subset, FS_CardinalityType

\* What rows have in common whose starts are the same.
LEMMA SameStarts ==
    ASSUME \A u \in Task : Places(tasks'[u].events, "execution_started")
                             = Places(tasks[u].events, "execution_started")
    PROVE  Starts' = Starts /\ Begun' = Begun
PROOF BY DEF Starts, Begun, Logged, Places

\* A start more in the row of a task.
LEMMA MoreStarts ==
    ASSUME NEW w \in Task, NEW n, n \notin Places(tasks[w].events, "execution_started"),
           \A u \in Task \ {w} : tasks'[u].events = tasks[u].events,
           \A i : i \in Places(tasks'[w].events, "execution_started")
                    <=> i \in Places(tasks[w].events, "execution_started") \/ i = n
    PROVE  /\ <<w, n>> \notin Starts
           /\ \A y : y \in Starts' <=> y \in Starts \/ y = <<w, n>>
           /\ \A u : u \in Begun' <=> u \in Begun \/ u = w
PROOF
<1> DEFINE old(u) == Places(tasks[u].events, "execution_started")
           new(u) == Places(tasks'[u].events, "execution_started")
<1>1. \A y : y \in Starts <=> \E u \in Task : \E i \in old(u) : y = <<u, i>>
  BY DEF Starts, Logged, Places
<1>2. \A y : y \in Starts' <=> \E u \in Task : \E i \in new(u) : y = <<u, i>>
  BY DEF Starts, Logged, Places
<1>3. /\ \A u : u \in Begun <=> u \in Task /\ old(u) # {}
      /\ \A u : u \in Begun' <=> u \in Task /\ new(u) # {}
  BY DEF Begun, Logged, Places
<1>4. \A u \in Task \ {w} : new(u) = old(u)
  OBVIOUS
<1>5. n \notin old(w) /\ \A i : i \in new(w) <=> i \in old(w) \/ i = n
  OBVIOUS
<1> HIDE DEF old, new
<1>6. <<w, n>> \notin Starts
  BY <1>1, <1>5
<1>7. \A y : y \in Starts' <=> y \in Starts \/ y = <<w, n>>
  <2>1. ASSUME NEW y, y \in Starts' PROVE y \in Starts \/ y = <<w, n>>
    <3>1. PICK u \in Task : \E i \in new(u) : y = <<u, i>>
      BY <1>2, <2>1
    <3>2. PICK i \in new(u) : y = <<u, i>>
      BY <3>1
    <3> QED BY <1>1, <1>4, <1>5, <3>2
  <2>2. ASSUME NEW y, y \in Starts PROVE y \in Starts'
    <3>1. PICK u \in Task : \E i \in old(u) : y = <<u, i>>
      BY <1>1, <2>2
    <3>2. PICK i \in old(u) : y = <<u, i>>
      BY <3>1
    <3>3. i \in new(u)
      BY <1>4, <1>5
    <3> QED BY <1>2, <3>2, <3>3
  <2>3. <<w, n>> \in Starts'
    BY <1>2, <1>5
  <2> QED BY <2>1, <2>2, <2>3
<1>8. \A u : u \in Begun' <=> u \in Begun \/ u = w
  BY <1>3, <1>4, <1>5
<1> QED BY <1>6, <1>7, <1>8

LEMMA OrderInit == Init => OrderInv
PROOF
<1> SUFFICES ASSUME Init PROVE OrderInv
  OBVIOUS
<1>1. \A t \in Task : tasks[t] = Absent
  BY DEF Init
<1>2. Starts = {} /\ Begun = {} /\ Present = {} /\ Due = {} /\ Done = {} /\ Tasks("running") = {}
  BY <1>1 DEF Init, Starts, Begun, Logged, Present, Due, Done, Tasks, Absent, Outcome, At
<1>3. IsFiniteSet({}) /\ Cardinality({}) = 0
  BY FS_EmptySet
<1>4. Balanced
  BY <1>2, <1>3 DEF Balanced, Init
<1>5. Alone /\ InTime /\ StartedFirst /\ OldestFirst
  BY <1>1, <1>2 DEF Alone, InTime, StartedFirst, OldestFirst, Init, At, Absent
<1> QED BY <1>4, <1>5, InitIInv DEF OrderInv

\* What is due is there, so it is finitely many.
LEMMA DueThere ==
    ASSUME OrderInv
    PROVE  /\ Due \subseteq Present
           /\ IsFiniteSet(Due) /\ Cardinality(Due) \in Nat
           /\ Cardinality(Present) \in Nat /\ Cardinality(Starts) \in Nat /\ ends \in Nat
PROOF
<1>1. Due \subseteq Present
  BY DEF Due, Present, Tasks, OrderInv, IInv, WorkerInStep, TypeOK, InHand
<1> QED BY <1>1, NoMore, FS_CardinalityType DEF OrderInv, Balanced, IInv, TypeOK

\* A step that starts nothing, enqueues nothing and claims nothing.
LEMMA NothingStarted ==
    ASSUME OrderInv, IInv',
           \A u \in Task : /\ Places(tasks'[u].events, "execution_started")
                                = Places(tasks[u].events, "execution_started")
                           /\ tasks'[u].created = tasks[u].created
                           /\ tasks'[u].status = "none" <=> tasks[u].status = "none",
           clock <= clock',
           Cardinality(Due') + ends <= Cardinality(Due) + ends', Cardinality(Due') \in Nat,
           \A u \in Task : tasks'[u].status = "running" => tasks[u].status = "running",
           process' = "down" => worker'.at = "off",
           \A u \in Task : tasks'[u].status \in Outcome => u \in Begun,
           worker'.at \in {"started", "running", "ran"} => worker'.task \in Begun
    PROVE  OrderInv'
PROOF
<1>1. Starts' = Starts /\ Begun' = Begun
  BY SameStarts
<1>2. Present' = Present
  BY DEF Present, Tasks
<1>3. Balanced'
  <2>1. ends' \in Nat
    BY DEF IInv, TypeOK
  <2> QED BY <1>1, <1>2, <2>1, DueThere DEF OrderInv, Balanced
<1>4. Alone'
  BY DEF OrderInv, Alone, Tasks
<1>5. InTime'
  <2>1. \A t \in Task : tasks[t].created \in Nat
    BY DEF OrderInv, IInv, TypeOK
  <2>2. clock \in Nat /\ clock' \in Nat
    BY DEF OrderInv, IInv, TypeOK
  <2> QED BY <1>1, <1>2, <2>1, <2>2 DEF OrderInv, InTime
<1>6. StartedFirst'
  BY <1>1 DEF StartedFirst, Done
<1>7. OldestFirst'
  BY <1>1, <1>2 DEF OrderInv, OldestFirst, Tasks, Present
<1> QED BY <1>3, <1>4, <1>5, <1>6, <1>7 DEF OrderInv

\* A step that leaves the rows as they are, but for events that are no starts.
LEMMA OnlyNoted ==
    ASSUME OrderInv, IInv',
           \A u \in Task : /\ Places(tasks'[u].events, "execution_started")
                                = Places(tasks[u].events, "execution_started")
                           /\ tasks'[u].created = tasks[u].created
                           /\ tasks'[u].status = tasks[u].status,
           clock <= clock', ends' = ends,
           process' = "down" <=> process = "down",
           worker'.at = "claimed" => worker.at = "claimed" /\ worker'.task = worker.task,
           process' = "down" => worker'.at = "off",
           worker'.at \in {"started", "running", "ran"} => worker'.task \in Begun
    PROVE  OrderInv'
PROOF
<1>1. Due' \subseteq Due
  BY DEF Due, Tasks
<1>2. Cardinality(Due') \in Nat /\ Cardinality(Due') <= Cardinality(Due)
  BY <1>1, DueThere, NoMore
<1>3. \A u \in Task : tasks'[u].status \in Outcome => u \in Begun
  BY DEF OrderInv, StartedFirst, Done
<1>4. ends \in Nat /\ Cardinality(Due) \in Nat
  BY DueThere
<1>5. Cardinality(Due') + ends <= Cardinality(Due) + ends'
  BY <1>2, <1>4
<1> QED BY <1>2, <1>3, <1>5, NothingStarted

\* Requests that write no row, the clock, and the worker between its transactions.
LEMMA QuietOrder ==
    ASSUME OrderInv, IInv',
           \/ \E c \in Content : EnqueueAgain(c)
           \/ Answer \/ Loop \/ Run \/ Raise \/ Stop \/ Tick \/ Tell
           \/ \E t \in Task : OrphanEnds(t)
           \/ \E status \in Outcome : Ran(status)
           \/ UNCHANGED vars
    PROVE  OrderInv'
PROOF
<1> USE DEF OrderInv, Alone, StartedFirst, IInv, TypeOK
<1>1. UNCHANGED <<tasks, ends>>
  BY DEF EnqueueAgain, Answer, Loop, Run, Raise, Stop, Tick, Tell, OrphanEnds, Ran, vars
<1>2. clock <= clock'
  <2>1. clock \in Nat /\ (clock' = clock \/ clock' = clock + 1)
    BY DEF EnqueueAgain, Answer, Loop, Run, Raise, Stop, Tick, Tell, OrphanEnds, Ran, vars
  <2> QED BY <2>1
<1>3. CASE UNCHANGED <<process, worker>>
  BY <1>1, <1>2, <1>3, OnlyNoted
<1>4. CASE Stop
  BY <1>1, <1>2, <1>4, OnlyNoted DEF Stop, Listening
<1>5. CASE Loop
  <2>1. process' = process /\ worker.at = "top" /\ worker'.at \in {"claiming", "off"}
    BY <1>5 DEF Loop, To, At
  <2> QED BY <1>1, <1>2, <2>1, OnlyNoted
<1>6. CASE Run
  <2>1. /\ process' = process /\ worker.at = "started" /\ worker'.at = "running"
        /\ worker'.task = worker.task
    BY <1>6 DEF Run, To
  <2> QED BY <1>1, <1>2, <2>1, OnlyNoted
<1>7. CASE Raise
  <2>1. process' = process /\ worker'.at = "dead" /\ worker.at # "off"
    BY <1>7 DEF Raise, To, InHand
  <2> QED BY <1>1, <1>2, <2>1, OnlyNoted
<1>8. CASE Tell
  <2>1. process' = process /\ worker.at = "followed" /\ worker'.at = "told"
    BY <1>8 DEF Tell, To
  <2> QED BY <1>1, <1>2, <2>1, OnlyNoted
<1>9. ASSUME NEW status \in Outcome, Ran(status) PROVE OrderInv'
  <2>1. /\ process' = process /\ worker.at = "running" /\ worker'.at = "ran"
        /\ worker'.task = worker.task
    BY <1>9 DEF Ran
  <2> QED BY <1>1, <1>2, <2>1, OnlyNoted
<1> QED BY <1>3, <1>4, <1>5, <1>6, <1>7, <1>8, <1>9
        DEF EnqueueAgain, Answer, Tick, OrphanEnds, vars

\* An event is added that is no start.
LEMMA NotedOrder ==
    ASSUME OrderInv, IInv', (\E t \in Task : Comment(t)) \/ Follow \/ Close
    PROVE  OrderInv'
PROOF
<1> USE DEF OrderInv, Alone, StartedFirst, IInv, TypeOK
<1>1. /\ UNCHANGED <<clock, process, ends>>
      /\ UNCHANGED worker \/ worker'.at \in {"followed", "top"}
      /\ worker.at = "off" => worker' = worker
  BY DEF Comment, Follow, Close, To, At
<1>2. \/ UNCHANGED tasks
      \/ \E t \in Task, e \in Event : e # "execution_started" /\ tasks' = Log(t, e)
  <2>1. ASSUME NEW t \in Task, Comment(t) PROVE tasks' = Log(t, "comment_added")
    BY <2>1 DEF Comment
  <2>2. CASE Follow \/ Close
    <3>1. worker.at \in Told /\ worker.task \in Task
      BY <2>2 DEF Follow, Close, Told
    <3>2. tasks[worker.task].content \in Content
      BY <3>1, Names DEF WorkerInStep, RowsWhole, Told
    <3>3. UNCHANGED tasks \/ (tasks' = Log(worker.task, Sequel) /\ Sequel # None)
          \/ (tasks' = Log(worker.task, Sequel) /\ Sequel = "closed")
      BY <2>2 DEF Follow, Close
    <3>4. Sequel = None \/ Sequel \in {"review_requested", "approved", "closed"}
      BY <3>2, ContentAssumption DEF Sequel
    <3> QED BY <3>1, <3>3, <3>4 DEF Event
  <2> QED BY <2>1, <2>2 DEF Event
<1>3. \A u \in Task : /\ Places(tasks'[u].events, "execution_started")
                           = Places(tasks[u].events, "execution_started")
                      /\ tasks'[u].created = tasks[u].created
                      /\ tasks'[u].status = tasks[u].status
  <2>1. CASE UNCHANGED tasks
    BY <2>1
  <2>2. ASSUME NEW t \in Task, NEW e \in Event, e # "execution_started", tasks' = Log(t, e)
        PROVE  \A u \in Task : /\ Places(tasks'[u].events, "execution_started")
                                    = Places(tasks[u].events, "execution_started")
                               /\ tasks'[u].created = tasks[u].created
                               /\ tasks'[u].status = tasks[u].status
    <3>1. tasks[t].events \in Seq(Event)
      OBVIOUS
    <3>2. Places(Append(tasks[t].events, e), "execution_started")
            = Places(tasks[t].events, "execution_started")
      BY <2>2, <3>1, Appended
    <3>3. \A u \in Task : /\ tasks'[u].events = IF u = t THEN Append(tasks[t].events, e)
                                                         ELSE tasks[u].events
                          /\ tasks'[u].created = tasks[u].created
                          /\ tasks'[u].status = tasks[u].status
      BY <2>2, LogAdds
    <3> QED BY <3>2, <3>3
  <2> QED BY <1>2, <2>1, <2>2
<1>4. clock <= clock'
  BY <1>1
<1> QED BY <1>1, <1>3, <1>4, OnlyNoted

\* A row that is not there is put at the end of the queue.
LEMMA EnqueueOrder == ASSUME OrderInv, IInv', NEW c \in Content, Enqueue(c) PROVE OrderInv'
PROOF
<1> USE DEF OrderInv, IInv
<1>1. PICK t \in Tasks("none") :
        tasks' = [tasks EXCEPT ![t] = [status |-> "queued", content |-> c, created |-> clock,
                                       events |-> <<"created">>]]
  BY DEF Enqueue
<1>2. t \in Task /\ tasks[t].status = "none" /\ t \notin Present /\ t \notin Begun
      /\ UNCHANGED <<clock, process, worker, ends>>
  BY <1>1 DEF Tasks, Present, InTime, Enqueue
<1>3. /\ \A u \in Task : u # t => tasks'[u] = tasks[u]
      /\ tasks'[t].status = "queued" /\ tasks'[t].created = clock
      /\ tasks'[t].events = <<"created">>
  BY <1>1, <1>2 DEF TypeOK
<1>4. \A u \in Task : Places(tasks'[u].events, "execution_started")
                        = Places(tasks[u].events, "execution_started")
  <2>1. Places(tasks[t].events, "execution_started") = {}
    BY <1>2 DEF Begun, Logged, Places
  <2>2. Places(<<"created">>, "execution_started") = {}
    BY DEF Places
  <2> QED BY <1>3, <2>1, <2>2
<1>5. Starts' = Starts /\ Begun' = Begun
  BY <1>4, SameStarts
<1>6. \A u : u \in Present' <=> u \in Present \/ u = t
  BY <1>2, <1>3 DEF Present, Tasks
<1>7. t \notin Due /\ \A u : u \in Due' <=> u \in Due \/ u = t
  <2>1. /\ \A u : u \in Tasks("queued")' <=> u \in Tasks("queued") \/ u = t
        /\ Tasks("running")' = Tasks("running")
    BY <1>2, <1>3 DEF Tasks
  <2>2. t \notin Due
    BY <1>2, DueThere
  <2> QED BY <1>2, <2>1, <2>2 DEF Due
<1>8. Balanced'
  <2>1. IsFiniteSet(Present') /\ Cardinality(Present') = Cardinality(Present) + 1
    BY <1>2, <1>6, OneMore DEF Balanced
  <2>2. IsFiniteSet(Due') /\ Cardinality(Due') = Cardinality(Due) + 1
    BY <1>7, DueThere, OneMore
  <2> QED BY <1>2, <1>5, <2>1, <2>2, DueThere DEF Balanced
<1>9. Alone'
  BY <1>2, <1>3 DEF Alone, Tasks
<1>10. InTime'
  <2>1. clock \in Nat
    BY DEF TypeOK
  <2> QED BY <1>2, <1>3, <1>5, <1>6, <2>1 DEF InTime
<1>11. StartedFirst'
  BY <1>2, <1>3, <1>5, Names DEF StartedFirst, Done
<1>12. OldestFirst'
  <2>1. SUFFICES ASSUME NEW u \in Present', NEW v \in Present',
                        tasks'[u].created < tasks'[v].created,
                        v \in Begun' \/ v \in Tasks("running")'
                 PROVE  u \in Begun'
    BY DEF OldestFirst
  <2>2. v # t /\ v \in Present /\ v \in Task /\ u \in Task
    BY <1>2, <1>3, <1>5, <1>6, <2>1 DEF Tasks, Present
  <2>3. u # t
    <3>1. tasks[v].created <= clock /\ tasks[v].created \in Nat /\ clock \in Nat
      BY <2>2 DEF InTime, TypeOK
    <3> QED BY <1>3, <2>1, <2>2, <3>1
  <2>4. u \in Present
    BY <1>6, <2>3
  <2> QED BY <1>3, <1>5, <2>1, <2>2, <2>3, <2>4 DEF OldestFirst, Tasks
<1> QED BY <1>8, <1>9, <1>10, <1>11, <1>12

\* The worker takes the oldest of the queue, and nothing else runs.
LEMMA ClaimOrder == ASSUME OrderInv, IInv', Claim PROVE OrderInv'
PROOF
<1> USE DEF OrderInv, IInv
<1>1. /\ worker.at = "claiming" /\ process # "down"
      /\ UNCHANGED <<clock, process, ends>> /\ clock <= clock'
  BY DEF Claim, Alone, TypeOK
<1>2. Tasks("running") = {}
  BY <1>1 DEF RunningIsHeld, InHand
<1>3. CASE UNCHANGED tasks /\ worker' = At("top")
  BY <1>1, <1>3, OnlyNoted DEF At
<1>4. ASSUME NEW t \in Oldest, tasks' = [tasks EXCEPT ![t].status = "running"],
             worker' = [at |-> "claimed", task |-> t, status |-> "none"]
      PROVE  OrderInv'
  <2>1. t \in Task /\ tasks[t].status = "queued"
        /\ \A u \in Tasks("queued") : tasks[t].created <= tasks[u].created
    BY <1>4 DEF Oldest, Tasks
  <2>2. \A u \in Task : /\ tasks'[u].status = IF u = t THEN "running" ELSE tasks[u].status
                        /\ tasks'[u].created = tasks[u].created
                        /\ tasks'[u].events = tasks[u].events
    BY <1>4, <2>1 DEF TypeOK
  <2>3. Starts' = Starts /\ Begun' = Begun
    BY <2>2, SameStarts
  <2>4. Present' = Present
    BY <2>1, <2>2 DEF Present, Tasks
  <2>5. Due' = Due
    <3>1. Due = Tasks("queued")
      BY <1>1 DEF Due
    <3>2. \A u : u \in Tasks("queued")' <=> u \in Tasks("queued") /\ u # t
      BY <2>1, <2>2 DEF Tasks
    <3>3. Due' = Tasks("queued")' \cup {t}
      BY <1>1, <1>4 DEF Due
    <3> QED BY <2>1, <3>1, <3>2, <3>3 DEF Tasks
  <2>6. Balanced'
    BY <1>1, <2>3, <2>4, <2>5 DEF Balanced
  <2>7. \A u : u \in Tasks("running")' <=> u = t
    BY <1>2, <2>1, <2>2 DEF Tasks
  <2>8. Alone'
    BY <1>1, <2>7 DEF Alone
  <2>9. InTime'
    BY <1>1, <2>2, <2>3, <2>4 DEF InTime
  <2>10. StartedFirst'
    BY <1>4, <2>2, <2>3, Names DEF StartedFirst, Done
  <2>11. OldestFirst'
    <3>1. SUFFICES ASSUME NEW u \in Present, NEW v \in Present,
                          tasks[u].created < tasks[v].created, v \in Begun \/ v = t
                   PROVE  u \in Begun
      BY <2>2, <2>3, <2>4, <2>7 DEF OldestFirst, Present
    <3>2. CASE v \in Begun
      BY <3>1, <3>2 DEF OldestFirst
    <3>3. CASE v = t
      <4>1. u \in Task /\ tasks[u].status # "none" /\ tasks[u].status \in Status
        BY <3>1 DEF Present, Tasks, TypeOK
      <4>2. tasks[u].status # "queued"
        <5>1. tasks[u].created \in Nat /\ tasks[t].created \in Nat
          BY <2>1, <4>1 DEF TypeOK
        <5> QED BY <2>1, <3>1, <3>3, <4>1, <5>1 DEF Tasks
      <4>3. tasks[u].status # "running"
        BY <1>2, <4>1 DEF Tasks
      <4> QED BY <4>1, <4>2, <4>3 DEF Status, StartedFirst, Done
    <3> QED BY <3>1, <3>2, <3>3
  <2> QED BY <2>6, <2>8, <2>9, <2>10, <2>11
<1> QED BY <1>3, <1>4 DEF Claim

\* The start is put on record: what was due is so no longer.
LEMMA StartOrder == ASSUME OrderInv, IInv', Start PROVE OrderInv'
PROOF
<1> USE DEF OrderInv, IInv
<1> DEFINE w == worker.task
<1>1. /\ worker.at = "claimed" /\ process # "down" /\ w \in Task
      /\ worker'.at = "started" /\ worker'.task = w
      /\ UNCHANGED <<clock, process, ends>>
      /\ tasks' = Log(w, "execution_started")
  BY DEF Start, To, Alone, TypeOK, InHand
<1>2. tasks[w].status = "running" /\ w \in Tasks("running")
  BY <1>1 DEF WorkerInStep, InHand, Tasks
<1> DEFINE n == Len(tasks[w].events) + 1
<1>3. tasks[w].events \in Seq(Event) /\ "execution_started" \in Event
  BY <1>1 DEF TypeOK, Event
<1>4. /\ n \notin Places(tasks[w].events, "execution_started")
      /\ \A i : i \in Places(Append(tasks[w].events, "execution_started"), "execution_started")
                  <=> i \in Places(tasks[w].events, "execution_started") \/ i = n
  BY <1>3, Appended
<1>5. \A u \in Task : /\ tasks'[u].events = IF u = w THEN Append(tasks[w].events, "execution_started")
                                                     ELSE tasks[u].events
                      /\ tasks'[u].created = tasks[u].created
                      /\ tasks'[u].status = tasks[u].status
  BY <1>1, <1>3, LogAdds
<1> HIDE DEF n
<1>6. \A i : i \in Places(tasks'[w].events, "execution_started")
               <=> i \in Places(tasks[w].events, "execution_started") \/ i = n
  BY <1>1, <1>4, <1>5
<1>7. \A u \in Task \ {w} : tasks'[u].events = tasks[u].events
  BY <1>5
<1> HIDE DEF w
<1>8. /\ <<w, n>> \notin Starts
      /\ \A y : y \in Starts' <=> y \in Starts \/ y = <<w, n>>
      /\ \A u : u \in Begun' <=> u \in Begun \/ u = w
  BY <1>1, <1>4, <1>6, <1>7, MoreStarts
<1>9. /\ Present' = Present
      /\ Tasks("queued")' = Tasks("queued") /\ Tasks("running")' = Tasks("running")
  BY <1>5 DEF Present, Tasks
<1>10. w \notin Due' /\ \A u : u \in Due <=> u \in Due' \/ u = w
  BY <1>1, <1>2, <1>9 DEF Due, Tasks, w
<1>11. Balanced'
  <2>1. IsFiniteSet(Starts') /\ Cardinality(Starts') = Cardinality(Starts) + 1
    BY <1>8, OneMore DEF Balanced
  <2>2. Due' \subseteq Due
    BY <1>10
  <2>3. IsFiniteSet(Due')
    BY <2>2, DueThere, NoMore
  <2>4. Cardinality(Due) = Cardinality(Due') + 1 /\ Cardinality(Due') \in Nat
    BY <1>10, <2>3, OneMore
  <2> QED BY <1>1, <1>9, <2>1, <2>4, DueThere DEF Balanced
<1>12. Alone'
  BY <1>1, <1>9 DEF Alone
<1>13. InTime'
  BY <1>1, <1>2, <1>5, <1>8, <1>9 DEF InTime, Present, Tasks
<1>14. StartedFirst'
  BY <1>1, <1>5, <1>8 DEF StartedFirst, Done
<1>15. OldestFirst'
  <2>1. \A u \in Present : tasks'[u].created = tasks[u].created
    BY <1>5 DEF Present
  <2> QED BY <1>2, <1>8, <1>9, <2>1 DEF OldestFirst
<1> QED BY <1>11, <1>12, <1>13, <1>14, <1>15

\* The outcome of what was started is put on record.
LEMMA FinishOrder == ASSUME OrderInv, IInv', Finish PROVE OrderInv'
PROOF
<1> USE DEF OrderInv, IInv
<1> DEFINE w == worker.task
           e == OutcomeEvent(worker.status)
           logged == Log(w, e)
<1>1. /\ worker.at = "ran" /\ process # "down" /\ w \in Task /\ worker.status \in Outcome
      /\ worker'.at = "finished"
      /\ tasks' = [logged EXCEPT ![w].status = worker.status]
      /\ UNCHANGED <<clock, process, ends>>
  BY DEF Finish, To, Alone, TypeOK, InHand
<1>2. tasks[w].status = "running" /\ w \in Begun
  BY <1>1 DEF WorkerInStep, InHand, StartedFirst
<1>3. e \in Event /\ e # "execution_started" /\ tasks[w].events \in Seq(Event)
  BY <1>1 DEF OutcomeEvent, Event, TypeOK
<1> HIDE DEF e
<1>4. /\ logged \in Rows
      /\ \A u \in Task : /\ logged[u].events = IF u = w THEN Append(tasks[w].events, e)
                                                       ELSE tasks[u].events
                         /\ logged[u].created = tasks[u].created
                         /\ logged[u].status = tasks[u].status
  BY <1>1, <1>3, LogAdds, LogKeeps
<1> HIDE DEF logged
<1>5. \A u \in Task : /\ tasks'[u].events = IF u = w THEN Append(tasks[w].events, e)
                                                     ELSE tasks[u].events
                      /\ tasks'[u].created = tasks[u].created
                      /\ tasks'[u].status = IF u = w THEN worker.status ELSE tasks[u].status
  BY <1>1, <1>4 DEF Rows
<1>6. Places(Append(tasks[w].events, e), "execution_started")
        = Places(tasks[w].events, "execution_started")
  BY <1>3, Appended
<1>7. \A u \in Task : /\ Places(tasks'[u].events, "execution_started")
                           = Places(tasks[u].events, "execution_started")
                      /\ tasks'[u].created = tasks[u].created
                      /\ tasks'[u].status = "none" <=> tasks[u].status = "none"
  BY <1>1, <1>2, <1>5, <1>6, Names
<1>8. Due' = Due
  BY <1>1, <1>2, <1>5, Names DEF Due, Tasks
<1>9. Cardinality(Due) \in Nat /\ ends \in Nat /\ clock \in Nat
  BY DueThere DEF TypeOK
<1>10. Cardinality(Due') + ends <= Cardinality(Due) + ends' /\ clock <= clock'
  BY <1>1, <1>8, <1>9
<1>11. \A u \in Task : tasks'[u].status = "running" => tasks[u].status = "running"
  BY <1>1, <1>5, Names
<1>12. \A u \in Task : tasks'[u].status \in Outcome => u \in Begun
  BY <1>1, <1>2, <1>5 DEF StartedFirst, Done
<1> QED BY <1>1, <1>7, <1>8, <1>9, <1>10, <1>11, <1>12, NothingStarted

\* The gateway ends: what ran is due again, and the end pays for it.
LEMMA EndOrder == ASSUME OrderInv, IInv', End PROVE OrderInv'
PROOF
<1> USE DEF OrderInv, IInv
<1>1. /\ process # "down" /\ process' = "down" /\ worker'.at = "off" /\ ends' = ends + 1
      /\ UNCHANGED <<clock, tasks>>
  BY DEF End, At
<1>2. Due' = Tasks("queued") \cup Tasks("running")
  BY <1>1 DEF Due, Tasks
<1>3. clock \in Nat /\ ends \in Nat /\ IsFiniteSet(Due) /\ Cardinality(Due) \in Nat
  BY DueThere DEF TypeOK
<1>4. Cardinality(Due') \in Nat /\ Cardinality(Due') <= Cardinality(Due) + 1
  <2>1. CASE Due' \subseteq Due
    <3>1. Cardinality(Due') \in Nat /\ Cardinality(Due') <= Cardinality(Due)
      BY <1>3, <2>1, NoMore
    <3> QED BY <1>3, <3>1
  <2>2. ASSUME NEW x \in Due', x \notin Due
        PROVE  Cardinality(Due') \in Nat /\ Cardinality(Due') <= Cardinality(Due) + 1
    <3> DEFINE T == Due \cup {x}
    <3>1. IsFiniteSet(T) /\ Cardinality(T) = Cardinality(Due) + 1
      BY <1>3, <2>2, FS_AddElement
    <3>2. Due' \subseteq T
      <4>1. x \in Tasks("running")
        BY <1>2, <2>2 DEF Due
      <4>2. \A y \in Tasks("running") : y = x
        BY <4>1 DEF Alone
      <4> QED BY <1>2, <4>2 DEF Due
    <3> HIDE DEF T
    <3>3. Cardinality(Due') \in Nat /\ Cardinality(Due') <= Cardinality(T)
      BY <3>1, <3>2, NoMore
    <3> QED BY <1>3, <3>1, <3>3
  <2> QED BY <2>1, <2>2
<1>5. Cardinality(Due') + ends <= Cardinality(Due) + ends' /\ clock <= clock'
  BY <1>1, <1>3, <1>4
<1>6. \A u \in Task : tasks'[u].status \in Outcome => u \in Begun
  BY <1>1 DEF StartedFirst, Done
<1> QED BY <1>1, <1>4, <1>5, <1>6, NothingStarted

\* The gateway starts: what ran when it ended is queued.
LEMMA BootOrder == ASSUME OrderInv, IInv', Boot PROVE OrderInv'
PROOF
<1> USE DEF OrderInv, IInv
<1>1. /\ process = "down" /\ process' = "up" /\ worker'.at = "top"
      /\ UNCHANGED <<clock, ends>>
  BY DEF Boot, At
<1>2. \A u \in Task : /\ tasks'[u].status = IF tasks[u].status = "running" THEN "queued"
                                                                           ELSE tasks[u].status
                      /\ tasks'[u].created = tasks[u].created
                      /\ tasks'[u].events = tasks[u].events
  BY DEF Boot, TypeOK
<1>3. Due' = Due
  BY <1>1, <1>2 DEF Due, Tasks
<1>4. Cardinality(Due) \in Nat /\ ends \in Nat /\ clock \in Nat
  BY DueThere DEF TypeOK
<1>5. Cardinality(Due') + ends <= Cardinality(Due) + ends' /\ clock <= clock'
  BY <1>1, <1>3, <1>4
<1>6. \A u \in Task : /\ tasks'[u].status \in Outcome => u \in Begun
                      /\ tasks'[u].status # "running"
                      /\ tasks'[u].status = "none" <=> tasks[u].status = "none"
  BY <1>2, Names DEF StartedFirst, Done
<1>7. \A u \in Task : Places(tasks'[u].events, "execution_started")
                        = Places(tasks[u].events, "execution_started")
  BY <1>2
<1> QED BY <1>1, <1>2, <1>3, <1>4, <1>5, <1>6, <1>7, NothingStarted

LEMMA NextOrder == OrderInv /\ [Next]_vars => OrderInv'
PROOF
<1> SUFFICES ASSUME OrderInv, [Next]_vars PROVE OrderInv'
  OBVIOUS
<1>1. IInv'
  BY NextIInv DEF OrderInv
<1> QED BY <1>1, QuietOrder, NotedOrder, EnqueueOrder, ClaimOrder, StartOrder, FinishOrder,
           EndOrder, BootOrder
        DEF Next, WorkerStep

THEOREM OrderInvariance == Spec => []OrderInv
PROOF BY OrderInit, NextOrder, PTL DEF Spec

LEMMA OrderKept == OrderInv => StartsInOrder
PROOF
<1> SUFFICES ASSUME OrderInv PROVE StartsInOrder
  OBVIOUS
<1>1. RepeatsPaidFor
  <2>1. Cardinality(Due) >= 0
    BY DueThere
  <2> QED BY <2>1, DueThere DEF OrderInv, Balanced, RepeatsPaidFor
<1>2. FirstComeFirstServed
  BY DEF OrderInv, OldestFirst, FirstComeFirstServed
<1> QED BY <1>1, <1>2 DEF StartsInOrder

\* Tasks are started in the order in which they were enqueued, and over all tasks no
\* more often than there are tasks and ends of the gateway.
THEOREM InOrder == Spec => []StartsInOrder
PROOF BY OrderInvariance, OrderKept, PTL
=============================================================================
