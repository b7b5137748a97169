-------------------------- MODULE WorkflowRunProofs --------------------------
(***************************************************************************)
(* Proofs about WorkflowRun, for all values of its constants.              *)
(***************************************************************************)
EXTENDS WorkflowRun, TLAPS

Working == {"stage", "plan", "start", "execute"}

\* Where the run can be.
Placed ==
    /\ pc = "stage" => at \in 1..9
    /\ pc \notin {"idle", "stage"} => at \in Stage

\* A state whose approvals would let slices start, were it the file.
Covers(m) == m.specApproval = text /\ plan # 0 /\ m.planApproval = <<text, plan>>

\* Approvals are of what there is or was, and the copy has no more than the file, but
\* for a plan that was made twice in one second.
Covered ==
    /\ 1 <= text /\ plan <= past.clock
    /\ file.specApproval <= text /\ file.planApproval[2] <= past.clock
    /\ mem.specApproval <= text /\ mem.planApproval[2] <= past.clock
    /\ Covers(mem) => Covers(file) \/ plan \in past.again

\* What is not due is on record as passed, and what is being executed is due.
DueSound ==
    /\ \A s \in Stage : ~past.due[s] => file.record[s].status = "passed"
    /\ pc # "idle" => \A s \in Stage : ~past.due[s] => mem.record[s].status = "passed"
    /\ pc \in {"plan", "start", "execute"} => past.due[at]
    /\ pc # "idle" /\ opt.retry # 0 /\ at <= opt.retry => past.due[opt.retry]

\* A pause that holds is in the file, and ahead of the run.
HeldSound ==
    /\ pc \in Working \cup {"rollback"} => mem.pausedAt = opt.pause
    /\ past.held # 0 =>
        /\ file.pausedAt = past.held
        /\ pc # "idle" => mem.pausedAt = past.held
        /\ pc \in Working => opt.retry = 0
        /\ pc = "stage" => at <= past.held
        /\ pc \in {"plan", "start", "execute"} => at < past.held

\* The copy misses no execution but those that earlier runs lost, the file at most one
\* more, and none when it has just been written.
Counting(record, most) == \A s \in Stage : past.executed[s] - record[s].attempt \in 0..most

AttemptsSound ==
    /\ pc = "idle" => Counting(file.record, past.cut)
    /\ pc # "idle" => Counting(mem.record, past.cut) /\ Counting(file.record, past.cut + 1)

\* What the run has behind it is on record, and the last three stages never pass.
Result(s) == IF s >= Promote THEN "skipped" ELSE "passed"

ReportSound ==
    /\ pc \in Working =>
        \A s \in Stage : First(opt) <= s /\ s < at => mem.record[s].status = Result(s)
    /\ \A s \in Stage : s >= Promote =>
        file.record[s].status # "passed" /\ mem.record[s].status # "passed"
    /\ pc = "rollback" => mem.record[at].status = "failed" /\ mem.status = "failed"
    /\ ReportJustified

\* The inductive invariant.
IInv ==
    /\ TypeOK
    /\ Placed
    /\ Covered
    /\ DueSound
    /\ HeldSound
    /\ AttemptsSound
    /\ ReportSound
    /\ FailedIsCompensated

-----------------------------------------------------------------------------
Statuses == {"none", "started", "passed", "failed", "skipped", "blocked"}

Record == [status : Statuses, attempt : Nat]

Engines == {"idle", "running", "paused", "completed", "failed"}

\* A state with a record changed is a state, and the change is one of that record.
LEMMA Recorded ==
    ASSUME NEW m \in State, NEW s \in Stage, NEW r \in Record
    PROVE  /\ [m EXCEPT !.record[s] = r] \in State
           /\ m.record \in [Stage -> Record]
           /\ m.record[s] \in Record
           /\ [m EXCEPT !.record[s] = r].record = [m.record EXCEPT ![s] = r]
PROOF BY DEF State, Record, Statuses

\* Type correctness in parts.
Places == {"idle", "stage", "plan", "execute", "start", "finish", "rollback"}

Request == [resume : 0..8, retry : 0..8, pause : 0..8, gated : BOOLEAN]

Ways == {"none", "completed", "paused", "failed", "refused", "ended"}

History ==
    [executed : [Stage -> Nat], due : [Stage -> BOOLEAN], held : 0..8,
     cut : Nat, last : Ways, clock : Nat, again : SUBSET Nat]

Counts == [runs : 0..MaxRuns, commands : 0..MaxCommands, ends : 0..MaxEnds]

FilesTyped == text \in Nat /\ plan \in Nat /\ file \in State /\ mem \in State

RunTyped == pc \in Places /\ at \in 0..9 /\ opt \in Request

NotesTyped ==
    /\ risk \in Risks
    /\ api \in BOOLEAN /\ seen \in BOOLEAN /\ checked \in BOOLEAN
    /\ report \in SUBSET Stage

LEMMA TypesInParts ==
    TypeOK <=> /\ FilesTyped /\ RunTyped /\ NotesTyped
               /\ past \in History /\ count \in Counts
PROOF
  BY DEF TypeOK, FilesTyped, RunTyped, NotesTyped, Places, Request, History, Ways, Counts

LEMMA FreshState == Fresh \in State
PROOF BY DEF Fresh, State, Stage

\* What a new plan writes and notes.
LEMMA Planned ==
    ASSUME TypeOK, NewPlan
    PROVE  /\ plan' \in Nat \ {0} /\ past' \in History
           /\ file' = [file EXCEPT !.planApproval = <<0, 0>>]
           /\ past'.clock = plan' /\ past.clock <= plan'
           /\ plan' = past.clock => plan' \in past'.again
           /\ past'.executed = past.executed /\ past'.due = past.due
           /\ past'.held = past.held /\ past'.cut = past.cut /\ past'.last = past.last
PROOF
<1>1. past \in History /\ past.clock \in Nat
  BY TypesInParts DEF History
<1>2. PICK second \in {past.clock, past.clock + 1} \ {0} :
        /\ plan' = second
        /\ file' = [file EXCEPT !.planApproval = <<0, 0>>]
        /\ past' = [past EXCEPT !.clock = second,
                               !.again = @ \cup {n \in {second} : n = past.clock}]
  BY DEF NewPlan
<1>3. second \in Nat
  BY <1>1
<1> DEFINE more == {n \in {second} : n = past.clock}
<1>4. more \subseteq Nat /\ (second = past.clock => second \in more)
  BY <1>3
<1>5. past' = [past EXCEPT !.clock = second, !.again = @ \cup more]
  BY <1>2
<1> HIDE DEF more
<1>6. /\ past' \in History
      /\ past'.clock = second /\ past'.again = past.again \cup more
      /\ past'.executed = past.executed /\ past'.due = past.due
      /\ past'.held = past.held /\ past'.cut = past.cut /\ past'.last = past.last
  BY <1>1, <1>3, <1>4, <1>5 DEF History
<1>7. past.clock <= second
  BY <1>1
<1> QED BY <1>2, <1>3, <1>4, <1>6, <1>7

LEMMA InitIInv == Init => IInv
PROOF
<1> SUFFICES ASSUME Init PROVE IInv
  OBVIOUS
<1>1. TypeOK
  <2>1. FilesTyped /\ RunTyped
    BY FreshState DEF Init, FilesTyped, RunTyped, Places, Request
  <2>2. NotesTyped
    BY DEF Init, NotesTyped, Risks
  <2>3. past \in History
    BY DEF Init, History, Ways, Stage
  <2>4. count \in Counts
    BY BoundsAssumption DEF Init, Counts
  <2> QED BY <2>1, <2>2, <2>3, <2>4, TypesInParts
<1>2. Placed /\ Covered /\ DueSound /\ HeldSound
  BY DEF Init, Placed, Covered, Covers, DueSound, HeldSound, Working, Fresh
<1>3. AttemptsSound
  BY DEF Init, AttemptsSound, Counting, Fresh
<1>4. ReportSound
  BY DEF Init, ReportSound, ReportJustified, Working, Fresh
<1>5. FailedIsCompensated
  BY DEF Init, FailedIsCompensated
<1> QED BY <1>1, <1>2, <1>3, <1>4, <1>5 DEF IInv

-----------------------------------------------------------------------------
\* Type correctness is kept, part by part.

LEMMA PauseTyped ==
    ASSUME NEW q \in Request, file \in State PROVE PauseOf(q) \in 0..8
PROOF BY DEF PauseOf, Request, State

LEMMA BegunTyped ==
    ASSUME NEW q \in Request, file \in State
    PROVE  /\ Begun(q) \in State
           /\ Begun(q).record = file.record /\ Begun(q).pausedAt = PauseOf(q)
           /\ Begun(q).specApproval = file.specApproval
           /\ Begun(q).planApproval = file.planApproval
PROOF BY PauseTyped DEF Begun, State

\* n is m with status st and attempt k in the record of stage s, status e, and pause p.
Differs(m, n, s, st, k, e, p) ==
    /\ n \in State
    /\ n.record[s].status = st /\ n.record[s].attempt = k
    /\ \A z \in Stage \ {s} : n.record[z] = m.record[z]
    /\ n.status = e
    /\ n.pausedAt = p
    /\ n.specApproval = m.specApproval /\ n.planApproval = m.planApproval
    /\ n.compensated = m.compensated

LEMMA Changed ==
    ASSUME NEW m \in State, NEW s \in Stage, NEW r \in Record,
           NEW e \in Engines, NEW p \in 0..8
    PROVE  Differs(m, [m EXCEPT !.record = [@ EXCEPT ![s] = r], !.status = e, !.pausedAt = p],
                   s, r.status, r.attempt, e, p)
PROOF
<1> DEFINE rec == [m.record EXCEPT ![s] = r]
           n == [m EXCEPT !.record = rec, !.status = e, !.pausedAt = p]
<1>1. rec \in [Stage -> Record]
  BY DEF State, Record, Statuses
<1>2. rec[s] = r /\ \A z \in Stage \ {s} : rec[z] = m.record[z]
  BY DEF State
<1> HIDE DEF rec
<1>3. n \in State
  BY <1>1 DEF State, Record, Statuses, Engines
<1>4. n.record = rec /\ n.status = e /\ n.pausedAt = p /\ n.specApproval = m.specApproval
      /\ n.planApproval = m.planApproval /\ n.compensated = m.compensated
  BY DEF State
<1>5. n = [m EXCEPT !.record = [@ EXCEPT ![s] = r], !.status = e, !.pausedAt = p]
  BY DEF State, rec
<1> HIDE DEF n
<1> QED BY <1>2, <1>3, <1>4, <1>5 DEF Differs

\* The ways in which the model writes it.
LEMMA Writings ==
    ASSUME NEW m \in State, NEW s \in Stage
    PROVE  /\ \A st \in Statuses :
                Differs(m, [m EXCEPT !.record[s].status = st],
                        s, st, m.record[s].attempt, m.status, m.pausedAt)
           /\ \A st \in Statuses, e \in Engines :
                Differs(m, [m EXCEPT !.record[s].status = st, !.status = e],
                        s, st, m.record[s].attempt, e, m.pausedAt)
           /\ \A st \in Statuses, e \in Engines, p \in 0..8 :
                Differs(m, [m EXCEPT !.record[s].status = st, !.status = e, !.pausedAt = p],
                        s, st, m.record[s].attempt, e, p)
           /\ \A st \in Statuses, k \in Nat :
                Differs(m, [m EXCEPT !.record[s] = [status |-> st, attempt |-> k]],
                        s, st, k, m.status, m.pausedAt)
           /\ \A k \in Nat :
                Differs(m, [m EXCEPT !.record[s].attempt = k],
                        s, m.record[s].status, k, m.status, m.pausedAt)
           /\ \A e \in Engines :
                Differs(m, [m EXCEPT !.status = e],
                        s, m.record[s].status, m.record[s].attempt, e, m.pausedAt)
           /\ m.record[s].attempt \in Nat
PROOF
<1> DEFINE other(r, e1, p1) ==
             [m EXCEPT !.record = [@ EXCEPT ![s] = r], !.status = e1, !.pausedAt = p1]
           marked(st) == [m.record[s] EXCEPT !.status = st]
           counted(k) == [m.record[s] EXCEPT !.attempt = k]
           new(st, k) == [status |-> st, attempt |-> k]
<1>1. m.status \in Engines /\ m.pausedAt \in 0..8 /\ m.record[s] \in Record
  BY DEF State, Engines, Record, Statuses
<1>2. \A r \in Record, e \in Engines, p \in 0..8 :
        Differs(m, other(r, e, p), s, r.status, r.attempt, e, p)
  BY Changed
<1>3. m.record[s].attempt \in Nat
  BY <1>1 DEF Record
<1>4. ASSUME NEW st \in Statuses
      PROVE  Differs(m, [m EXCEPT !.record[s].status = st],
                     s, st, m.record[s].attempt, m.status, m.pausedAt)
  <2>1. [m EXCEPT !.record[s].status = st] = other(marked(st), m.status, m.pausedAt)
    BY DEF State
  <2>2. marked(st) \in Record /\ marked(st).status = st /\ marked(st).attempt = m.record[s].attempt
    BY <1>1 DEF Record
  <2> HIDE DEF other, marked, counted, new
  <2> QED BY <1>1, <1>2, <2>1, <2>2
<1>5. ASSUME NEW st \in Statuses, NEW e \in Engines
      PROVE  Differs(m, [m EXCEPT !.record[s].status = st, !.status = e],
                     s, st, m.record[s].attempt, e, m.pausedAt)
  <2>1. [m EXCEPT !.record[s].status = st, !.status = e] = other(marked(st), e, m.pausedAt)
    BY DEF State
  <2>2. marked(st) \in Record /\ marked(st).status = st /\ marked(st).attempt = m.record[s].attempt
    BY <1>1 DEF Record
  <2> HIDE DEF other, marked, counted, new
  <2> QED BY <1>1, <1>2, <2>1, <2>2
<1>6. ASSUME NEW st \in Statuses, NEW e \in Engines, NEW p \in 0..8
      PROVE  Differs(m, [m EXCEPT !.record[s].status = st, !.status = e, !.pausedAt = p],
                     s, st, m.record[s].attempt, e, p)
  <2>1. [m EXCEPT !.record[s].status = st, !.status = e, !.pausedAt = p] = other(marked(st), e, p)
    BY DEF State
  <2>2. marked(st) \in Record /\ marked(st).status = st /\ marked(st).attempt = m.record[s].attempt
    BY <1>1 DEF Record
  <2> HIDE DEF other, marked, counted, new
  <2> QED BY <1>1, <1>2, <2>1, <2>2
<1>7. ASSUME NEW st \in Statuses, NEW k \in Nat
      PROVE  Differs(m, [m EXCEPT !.record[s] = [status |-> st, attempt |-> k]],
                     s, st, k, m.status, m.pausedAt)
  <2>1. [m EXCEPT !.record[s] = [status |-> st, attempt |-> k]] = other(new(st, k), m.status, m.pausedAt)
    BY DEF State
  <2>2. new(st, k) \in Record /\ new(st, k).status = st /\ new(st, k).attempt = k
    BY <1>1 DEF Record
  <2> HIDE DEF other, marked, counted, new
  <2> QED BY <1>1, <1>2, <2>1, <2>2
<1>8. ASSUME NEW k \in Nat
      PROVE  Differs(m, [m EXCEPT !.record[s].attempt = k],
                     s, m.record[s].status, k, m.status, m.pausedAt)
  <2>1. [m EXCEPT !.record[s].attempt = k] = other(counted(k), m.status, m.pausedAt)
    BY DEF State
  <2>2. counted(k) \in Record /\ counted(k).status = m.record[s].status /\ counted(k).attempt = k
    BY <1>1 DEF Record
  <2> HIDE DEF other, marked, counted, new
  <2> QED BY <1>1, <1>2, <2>1, <2>2
<1>9. ASSUME NEW e \in Engines
      PROVE  Differs(m, [m EXCEPT !.status = e],
                     s, m.record[s].status, m.record[s].attempt, e, m.pausedAt)
  <2>1. [m EXCEPT !.status = e] = other(m.record[s], e, m.pausedAt)
    BY DEF State
  <2>2. m.record[s] \in Record /\ m.record[s].status = m.record[s].status /\ m.record[s].attempt = m.record[s].attempt
    BY <1>1 DEF Record
  <2> HIDE DEF other, marked, counted, new
  <2> QED BY <1>1, <1>2, <2>1, <2>2
<1> QED BY <1>3, <1>4, <1>5, <1>6, <1>7, <1>8, <1>9

LEMMA Twice ==
    ASSUME NEW m, NEW n, NEW o, NEW s, NEW st1, NEW k1, NEW e1, NEW p1,
           NEW st, NEW k, NEW e, NEW p,
           Differs(m, n, s, st1, k1, e1, p1), Differs(n, o, s, st, k, e, p)
    PROVE  Differs(m, o, s, st, k, e, p)
PROOF BY DEF Differs

\* What the steps of a run write.
Attempts == mem.record[at].attempt

Wrote(st, k, e, p) == file' = mem' /\ Differs(mem, mem', at, st, k, e, p)

LEMMA Effects ==
    ASSUME TypeOK, Placed
    PROVE  /\ PauseBefore => Wrote("skipped", Attempts, "paused", mem.pausedAt)
           /\ GateBlocks => Wrote("blocked", Attempts, "paused", at)
           /\ Start => Wrote("started", Attempts + 1, mem.status, mem.pausedAt)
           /\ ChecksFail => Wrote("failed", Attempts, "failed", mem.pausedAt)
           /\ StagePasses => Wrote(Result(at), Attempts, mem.status, mem.pausedAt)
           /\ StageFails /\ Attempts >= MaxAttempts[at] =>
                Wrote("failed", Attempts, "failed", mem.pausedAt)
           /\ StageFails /\ ~(Attempts >= MaxAttempts[at]) =>
                /\ Differs(mem, file', at, "failed", Attempts, mem.status, mem.pausedAt)
                /\ Differs(mem, mem', at, "failed", Attempts + 1, mem.status, mem.pausedAt)
PROOF
<1>1. mem \in State /\ mem.status \in Engines /\ mem.pausedAt \in 0..8
  BY DEF TypeOK, State, Engines
<1>2. ASSUME at \in Stage PROVE Attempts \in Nat /\ Attempts + 1 \in Nat /\ at \in 0..8
  <2>1. Attempts \in Nat
    BY <1>1, <1>2, Writings DEF Attempts
  <2>2. at \in 0..8
    BY <1>2 DEF Stage
  <2> QED BY <2>1, <2>2
<1>3. PauseBefore => Wrote("skipped", Attempts, "paused", mem.pausedAt)
  BY <1>1, Writings DEF PauseBefore, Save, Wrote, Attempts, Statuses, Engines
<1>4. GateBlocks => Wrote("blocked", Attempts, "paused", at)
  <2>1. ASSUME GateBlocks
        PROVE  /\ at \in Stage
               /\ Save([mem EXCEPT !.record[at].status = "blocked", !.status = "paused",
                                   !.pausedAt = at])
    BY <2>1 DEF GateBlocks
  <2>2. "blocked" \in Statuses /\ "paused" \in Engines
    BY DEF Statuses, Engines
  <2>3. ASSUME GateBlocks
        PROVE  Differs(mem, [mem EXCEPT !.record[at].status = "blocked", !.status = "paused",
                                        !.pausedAt = at],
                       at, "blocked", mem.record[at].attempt, "paused", at)
    BY <1>1, <1>2, <2>1, <2>2, <2>3, Writings
  <2> QED BY <2>1, <2>3 DEF Save, Wrote, Attempts
<1>5. Start => Wrote("started", Attempts + 1, mem.status, mem.pausedAt)
  <2>1. ASSUME Start
        PROVE  /\ at \in Stage
               /\ Save([mem EXCEPT !.record[at] = [status |-> "started", attempt |-> Attempts + 1]])
    BY <2>1 DEF Start, NextAttempt, Attempts
  <2>2. "started" \in Statuses
    BY DEF Statuses
  <2> QED BY <1>1, <1>2, <2>1, <2>2, Writings DEF Save, Wrote
<1>6. ChecksFail => Wrote("failed", Attempts, "failed", mem.pausedAt)
  BY <1>1, Writings DEF ChecksFail, Placed, Save, Wrote, Attempts, Statuses, Engines
<1>7. StagePasses => Wrote(Result(at), Attempts, mem.status, mem.pausedAt)
  <2>1. StagePasses => at \in Stage /\ Save([mem EXCEPT !.record[at].status = Result(at)])
    BY DEF StagePasses, Placed, RecordPass, Outcome, Result
  <2>2. Result(at) \in Statuses
    BY DEF Result, Statuses
  <2> QED BY <1>1, <2>1, <2>2, Writings DEF Save, Wrote, Attempts
<1>8. ASSUME StageFails
      PROVE  /\ Attempts >= MaxAttempts[at] =>
                  Wrote("failed", Attempts, "failed", mem.pausedAt)
             /\ ~(Attempts >= MaxAttempts[at]) =>
                  /\ Differs(mem, file', at, "failed", Attempts, mem.status, mem.pausedAt)
                  /\ Differs(mem, mem', at, "failed", Attempts + 1, mem.status, mem.pausedAt)
  <2> DEFINE failed == [mem EXCEPT !.record[at].status = "failed"]
  <2>1. at \in Stage
    BY <1>8 DEF StageFails, Placed
  <2>2. Differs(mem, failed, at, "failed", Attempts, mem.status, mem.pausedAt)
    BY <1>1, <2>1, Writings DEF Attempts, Statuses
  <2>3. /\ failed \in State /\ failed.record[at].status = "failed"
        /\ failed.record[at].attempt = Attempts
        /\ failed.status = mem.status /\ failed.pausedAt = mem.pausedAt
    BY <2>2 DEF Differs
  <2> HIDE DEF failed
  <2>4. Differs(mem, [failed EXCEPT !.status = "failed"], at, "failed", Attempts, "failed",
                mem.pausedAt)
    <3>1. Differs(failed, [failed EXCEPT !.status = "failed"], at, "failed", Attempts,
                  "failed", mem.pausedAt)
      BY <2>1, <2>3, Writings DEF Engines
    <3> QED BY <2>2, <3>1, Twice
  <2>5. Differs(mem, [failed EXCEPT !.record[at].attempt = Attempts + 1], at, "failed",
                Attempts + 1, mem.status, mem.pausedAt)
    <3>1. Differs(failed, [failed EXCEPT !.record[at].attempt = Attempts + 1], at, "failed",
                  Attempts + 1, mem.status, mem.pausedAt)
      BY <1>2, <2>1, <2>3, Writings
    <3> QED BY <2>2, <3>1, Twice
  <2> QED
    BY <1>8, <2>2, <2>4, <2>5 DEF StageFails, Save, Wrote, NextAttempt, Attempts, failed
<1> QED BY <1>3, <1>4, <1>5, <1>6, <1>7, <1>8

-----------------------------------------------------------------------------
\* Type correctness is kept.

LEMMA FilesStay == ASSUME TypeOK, Placed, [Next]_vars PROVE FilesTyped'
PROOF
<1>1. FilesTyped
  BY TypesInParts
<1>2. ASSUME NEW q \in Requests, Begin(q) PROVE FilesTyped'
  BY <1>1, <1>2, RequestsAssumption, BegunTyped DEF FilesTyped, Begin, Save, Request
<1>3. CASE PauseBefore \/ GateBlocks \/ Start \/ ChecksFail \/ StagePasses
  <2>1. file' \in State /\ mem' \in State
    BY <1>3, Effects DEF Wrote, Differs
  <2>2. text' = text /\ plan' = plan
    BY <1>3 DEF PauseBefore, GateBlocks, Start, ChecksFail, StagePasses
  <2> QED BY <1>1, <2>1, <2>2 DEF FilesTyped
<1>4. CASE StageFails
  <2>1. file' \in State /\ mem' \in State
    BY <1>4, Effects DEF Wrote, Differs
  <2> QED BY <1>1, <1>4, <2>1 DEF FilesTyped, StageFails
<1>5. CASE AlreadyPassed \/ StartSlices
  BY <1>1, <1>5 DEF AlreadyPassed, StartSlices, FilesTyped
<1>6. CASE MakePlan \/ PlanCommand
  <2>1. [file EXCEPT !.planApproval = <<0, 0>>] \in State
    BY <1>1 DEF FilesTyped, State
  <2>2. NewPlan /\ text' = text /\ mem' = mem
    BY <1>6 DEF MakePlan, PlanCommand, Command
  <2> QED BY <1>1, <2>1, <2>2, Planned DEF FilesTyped
<1>7. CASE Refused \/ End
  BY <1>1, <1>7, FreshState DEF Refused, End, Leave, FilesTyped
<1>8. CASE Finish
  <2>1. \A e \in Engines : [mem EXCEPT !.status = e] \in State
    BY <1>1 DEF FilesTyped, State, Engines
  <2>2. file' \in State
    BY <1>8, <2>1 DEF Finish, Engines
  <2> QED BY <1>1, <1>8, <2>2, FreshState DEF Finish, Leave, FilesTyped
<1>9. CASE Rollback
  <2>1. Compensated \in SUBSET Stage
    BY <1>1 DEF Compensated, FilesTyped, State
  <2>2. [mem EXCEPT !.compensated = Compensated] \in State
    BY <1>1, <2>1 DEF FilesTyped, State
  <2> QED BY <1>1, <1>9, <2>2, FreshState DEF Rollback, Leave, FilesTyped
<1>10. ASSUME NEW s \in 0..8, PauseCommand(s) PROVE FilesTyped'
  <2>1. [file EXCEPT !.status = "paused", !.pausedAt = s] \in State
    BY <1>1 DEF FilesTyped, State
  <2> QED BY <1>1, <1>10, <2>1 DEF PauseCommand, Command, FilesTyped
<1>11. CASE EditSpec
  BY <1>1, <1>11 DEF EditSpec, Command, FilesTyped
<1>12. CASE SpecApprove
  <2>1. [file EXCEPT !.specApproval = text] \in State
    BY <1>1 DEF FilesTyped, State
  <2> QED BY <1>1, <1>12, <2>1 DEF SpecApprove, Command, FilesTyped
<1>13. CASE PlanApprove
  <2>1. [file EXCEPT !.planApproval = <<text, plan>>] \in State
    BY <1>1 DEF FilesTyped, State
  <2> QED BY <1>1, <1>13, <2>1 DEF PlanApprove, Command, FilesTyped
<1>14. CASE UNCHANGED vars
  BY <1>1, <1>14 DEF vars, FilesTyped
<1>15. \A s \in {q.pause : q \in Requests} \ {0} : s \in 0..8
  BY RequestsAssumption
<1> QED
  BY <1>2, <1>3, <1>4, <1>5, <1>6, <1>7, <1>8, <1>9, <1>10, <1>11, <1>12, <1>13, <1>14, <1>15
  DEF Next, Engine, Operators

LEMMA RunStays == ASSUME TypeOK, Placed, [Next]_vars PROVE RunTyped' /\ Placed'
PROOF
<1>1. pc \in Places /\ at \in 0..9 /\ opt \in Request
  BY TypesInParts DEF RunTyped
<1>2. ASSUME NEW q \in Requests, Begin(q) PROVE RunTyped' /\ Placed'
  <2>1. q \in Request
    BY RequestsAssumption DEF Request
  <2>2. PauseOf(q) \in 0..8
    BY <2>1, PauseTyped DEF TypeOK
  <2>3. opt' \in Request
    BY <1>2, <2>1, <2>2 DEF Begin, Request
  <2>4. First(q) \in 1..8
    BY <2>1 DEF First, Request
  <2> QED BY <1>2, <2>3, <2>4 DEF Begin, RunTyped, Placed, Places
<1>3. CASE PauseBefore \/ GateBlocks \/ Start \/ ChecksFail
  BY <1>1, <1>3
  DEF PauseBefore, GateBlocks, Start, ChecksFail, run, RunTyped, Placed, Places
<1>4. CASE StagePasses \/ AlreadyPassed
  BY <1>1, <1>4 DEF StagePasses, AlreadyPassed, RunTyped, Placed, Places, Stage
<1>5. CASE MakePlan \/ StartSlices \/ StageFails
  BY <1>1, <1>5 DEF MakePlan, StartSlices, StageFails, run, RunTyped, Placed, Places
<1>6. CASE Refused \/ End \/ Finish \/ Rollback
  BY <1>1, <1>6 DEF Refused, End, Finish, Rollback, Leave, RunTyped, Placed, Places
<1>7. CASE Operators
  BY <1>1, <1>7
  DEF Operators, PauseCommand, EditSpec, SpecApprove, PlanApprove, PlanCommand, Command,
      run, RunTyped, Placed
<1>8. CASE UNCHANGED vars
  BY <1>1, <1>8 DEF vars, run, RunTyped, Placed
<1> QED BY <1>2, <1>3, <1>4, <1>5, <1>6, <1>7, <1>8 DEF Next, Engine

LEMMA NotesStay == ASSUME TypeOK, Placed, [Next]_vars PROVE NotesTyped'
PROOF
<1>1. NotesTyped
  BY TypesInParts
<1>2. ASSUME NEW q \in Requests, Begin(q) PROVE NotesTyped'
  <2>1. risk' \in Risks
    BY <1>2, PlanAssumption DEF Begin, Risks
  <2>2. api' \in BOOLEAN /\ seen' \in BOOLEAN
    BY <1>2, PlanAssumption DEF Begin
  <2>3. checked' \in BOOLEAN /\ report' \in SUBSET Stage
    BY <1>2 DEF Begin
  <2> QED BY <2>1, <2>2, <2>3 DEF NotesTyped
<1>3. CASE PauseBefore \/ GateBlocks \/ Start \/ ChecksFail \/ StartSlices \/ StageFails
  BY <1>1, <1>3
  DEF PauseBefore, GateBlocks, Start, ChecksFail, StartSlices, StageFails, run, NotesTyped
<1>4. CASE AlreadyPassed
  BY <1>1, <1>4 DEF AlreadyPassed, NotesTyped
<1>5. CASE StagePasses
  <2>1. checked' \in BOOLEAN
    BY <1>5 DEF StagePasses
  <2>2. report' \in SUBSET Stage
    BY <1>1, <1>5 DEF StagePasses, Placed, NotesTyped
  <2> QED BY <1>1, <1>5, <2>1, <2>2 DEF StagePasses, NotesTyped
<1>6. CASE MakePlan
  <2>1. seen' \in BOOLEAN
    BY <1>6 DEF MakePlan
  <2> QED BY <1>1, <1>6, <2>1 DEF MakePlan, NotesTyped
<1>7. CASE Refused \/ End \/ Finish \/ Rollback
  BY <1>1, <1>7 DEF Refused, End, Finish, Rollback, Leave, NotesTyped
<1>8. CASE Operators
  BY <1>1, <1>8
  DEF Operators, PauseCommand, EditSpec, SpecApprove, PlanApprove, PlanCommand, Command,
      run, NotesTyped
<1>9. CASE UNCHANGED vars
  BY <1>1, <1>9 DEF vars, run, NotesTyped
<1> QED BY <1>2, <1>3, <1>4, <1>5, <1>6, <1>7, <1>8, <1>9 DEF Next, Engine

LEMMA PastStays == ASSUME TypeOK, Placed, [Next]_vars PROVE past' \in History
PROOF
<1>1. /\ past \in History
      /\ past.executed \in [Stage -> Nat] /\ past.due \in [Stage -> BOOLEAN]
  BY TypesInParts DEF History
<1>2. ASSUME NEW q \in Requests, Begin(q) PROVE past' \in History
  <2>1. q \in Request
    BY RequestsAssumption DEF Request
  <2>2. [s \in Stage |-> past.due[s] \/ s = q.retry] \in [Stage -> BOOLEAN]
    OBVIOUS
  <2>3. (IF q.resume # 0 \/ q.retry # 0 THEN 0
           ELSE IF q.pause # 0 THEN q.pause ELSE past.held) \in 0..8
    BY <1>1, <2>1 DEF History, Request
  <2> QED BY <1>1, <1>2, <2>2, <2>3 DEF Begin, History
<1>3. CASE PauseBefore \/ GateBlocks
  <2>1. at \in 0..8
    BY <1>3 DEF PauseBefore, GateBlocks, Stage
  <2>2. [past.due EXCEPT ![at] = TRUE] \in [Stage -> BOOLEAN]
    BY <1>1
  <2>3. /\ PauseBefore => past' = [past EXCEPT !.held = at, !.due = [past.due EXCEPT ![at] = TRUE]]
        /\ GateBlocks => past' = [past EXCEPT !.held = at]
    BY DEF PauseBefore, GateBlocks
  <2> QED BY <1>1, <1>3, <2>1, <2>2, <2>3 DEF History
<1>4. CASE Start \/ StageFails
  <2>1. [past.executed EXCEPT ![at] = @ + 1] \in [Stage -> Nat]
    <3>1. at \in Stage
      BY <1>4 DEF Start, StageFails, Placed
    <3> QED BY <1>1, <3>1
  <2>2. Gated \in BOOLEAN
    BY TypesInParts DEF Gated, RunTyped, Request
  <2>3. CASE Start
    BY <1>1, <2>1, <2>2, <2>3 DEF Start, History
  <2>4. CASE StageFails
    BY <1>1, <2>1, <2>4 DEF StageFails, History
  <2> QED BY <1>4, <2>3, <2>4
<1>5. CASE StagePasses
  BY <1>1, <1>5 DEF StagePasses, History
<1>6. CASE AlreadyPassed \/ StartSlices \/ ChecksFail
  BY <1>1, <1>6 DEF AlreadyPassed, StartSlices, ChecksFail
<1>7. CASE Refused \/ End \/ Finish \/ Rollback
  <2>1. PICK how \in {"refused", "ended", "paused", "completed", "failed"} : Leave(how)
    BY <1>7 DEF Refused, End, Finish, Rollback
  <2> DEFINE cut == IF how \in {"refused", "ended"} THEN past.cut + 1 ELSE past.cut
  <2>2. cut \in Nat
    BY <1>1 DEF History
  <2>3. past' = [past EXCEPT !.last = how, !.cut = cut]
    BY <2>1 DEF Leave
  <2> HIDE DEF cut
  <2> QED BY <1>1, <2>1, <2>2, <2>3 DEF History, Ways
<1>8. ASSUME NEW s \in 0..8, PauseCommand(s) PROVE past' \in History
  <2> DEFINE held == IF pc = "idle" THEN s ELSE 0
  <2>1. held \in 0..8
    BY <1>8
  <2>2. past' = [past EXCEPT !.held = held]
    BY <1>8 DEF PauseCommand
  <2> HIDE DEF held
  <2> QED BY <1>1, <2>1, <2>2 DEF History
<1>9. CASE EditSpec \/ SpecApprove \/ PlanApprove
  BY <1>1, <1>9 DEF EditSpec, SpecApprove, PlanApprove, History
<1>10. CASE UNCHANGED vars
  BY <1>1, <1>10 DEF vars
<1>11. \A s \in {q.pause : q \in Requests} \ {0} : s \in 0..8
  BY RequestsAssumption
<1>12. CASE MakePlan \/ PlanCommand
  BY <1>12, Planned DEF MakePlan, PlanCommand
<1> QED
  BY <1>2, <1>3, <1>4, <1>5, <1>6, <1>7, <1>8, <1>9, <1>10, <1>11, <1>12
  DEF Next, Engine, Operators

LEMMA CountStays == ASSUME TypeOK, [Next]_vars PROVE count' \in Counts
PROOF
<1>1. count \in Counts
  BY TypesInParts
<1>2. CASE \E q \in Requests : Begin(q)
  BY <1>1, <1>2, BoundsAssumption DEF Begin, Counts
<1>3. CASE End
  BY <1>1, <1>3, BoundsAssumption DEF End, Counts
<1>4. CASE Operators
  <2>1. Command
    BY <1>4 DEF Operators, PauseCommand, EditSpec, SpecApprove, PlanApprove, PlanCommand
  <2> QED BY <1>1, <2>1, BoundsAssumption DEF Command, Counts
<1>5. CASE UNCHANGED count
  BY <1>1, <1>5
<1> QED
  BY <1>2, <1>3, <1>4, <1>5
  DEF Next, Engine, PauseBefore, AlreadyPassed, GateBlocks, Start, MakePlan, StartSlices,
      StageFails, StagePasses, ChecksFail, Refused, Finish, Rollback, vars

LEMMA TypesStay == ASSUME TypeOK, Placed, [Next]_vars PROVE TypeOK' /\ Placed'
PROOF
<1>1. TypeOK' <=> /\ FilesTyped' /\ RunTyped' /\ NotesTyped'
                  /\ past' \in History /\ count' \in Counts
  BY DEF TypeOK, FilesTyped, RunTyped, NotesTyped, Places, Request, History, Ways, Counts
<1> QED BY <1>1, FilesStay, RunStays, NotesStay, PastStays, CountStays

-----------------------------------------------------------------------------
\* Permissions.

Same(m, n) == m.specApproval = n.specApproval /\ m.planApproval = n.planApproval

\* Steps of the engine but the plan's shift approvals between file and copy.
Shifted ==
    /\ text' = text /\ plan' = plan
    /\ \/ Same(file', file) /\ Same(mem', file)
       \/ (Same(file', file) \/ Same(file', mem)) /\ (Same(mem', mem) \/ mem' = Fresh)

LEMMA EngineShifts ==
    ASSUME TypeOK, Placed, Engine \/ UNCHANGED vars PROVE MakePlan \/ Shifted
PROOF
<1>1. ASSUME NEW q \in Requests, Begin(q) PROVE Shifted
  <2>1. q \in Request
    BY RequestsAssumption DEF Request
  <2> QED BY <1>1, <2>1, BegunTyped DEF TypeOK, Begin, Save, Shifted, Same
<1>2. CASE PauseBefore \/ GateBlocks \/ Start \/ ChecksFail \/ StagePasses
  <2>1. Same(file', mem) /\ Same(mem', mem)
    BY <1>2, Effects DEF Wrote, Differs, Same
  <2> QED
    BY <1>2, <2>1 DEF PauseBefore, GateBlocks, Start, ChecksFail, StagePasses, Shifted
<1>3. CASE StageFails
  <2>1. Same(file', mem) /\ Same(mem', mem)
    BY <1>3, Effects DEF Wrote, Differs, Same
  <2> QED BY <1>3, <2>1 DEF StageFails, Shifted
<1>4. CASE AlreadyPassed \/ StartSlices \/ UNCHANGED vars
  BY <1>4 DEF AlreadyPassed, StartSlices, vars, Shifted, Same
<1>5. CASE Refused \/ End
  BY <1>5 DEF Refused, End, Leave, Shifted, Same
<1>6. CASE Finish \/ Rollback
  <2>1. Same(file', mem)
    BY <1>6 DEF Finish, Rollback, Same, TypeOK, State
  <2> QED BY <1>6, <2>1 DEF Finish, Rollback, Leave, Shifted
<1> QED BY <1>1, <1>2, <1>3, <1>4, <1>5, <1>6 DEF Engine

\* Nothing else is noted of plans.
LEMMA NoPlan ==
    ASSUME TypeOK, [Next]_vars
    PROVE  \/ MakePlan \/ PlanCommand
           \/ past'.clock = past.clock /\ past'.again = past.again
PROOF
<1> DEFINE Kept == past'.clock = past.clock /\ past'.again = past.again
<1>1. past \in History
  BY TypesInParts
<1>2. ASSUME NEW q \in Requests, Begin(q) PROVE Kept
  BY <1>1, <1>2 DEF Begin, History
<1>3. CASE PauseBefore \/ GateBlocks \/ Start \/ StagePasses
  BY <1>1, <1>3 DEF PauseBefore, GateBlocks, Start, StagePasses, History
<1>4. CASE StageFails
  BY <1>1, <1>4 DEF StageFails, History
<1>5. CASE UNCHANGED past
  BY <1>5
<1>6. CASE Refused \/ End \/ Finish \/ Rollback
  BY <1>1, <1>6 DEF Refused, End, Finish, Rollback, Leave, History
<1>7. ASSUME NEW s, PauseCommand(s) PROVE Kept
  BY <1>1, <1>7 DEF PauseCommand, History
<1> QED
  BY <1>2, <1>3, <1>4, <1>5, <1>6, <1>7
  DEF Next, Engine, Operators, AlreadyPassed, StartSlices, ChecksFail, EditSpec, SpecApprove,
      PlanApprove, vars

LEMMA CoveredStays ==
    ASSUME TypeOK, Placed, Covered, [Next]_vars
    PROVE  /\ Covered'
           /\ count'.commands = count.commands /\ ~MayStartSlices
                => ~MayStartSlices' \/ plan' \in past.again
PROOF
<1>1. /\ text \in Nat /\ plan \in Nat
      /\ file.specApproval \in Nat /\ file.planApproval \in Nat \X Nat
      /\ mem.specApproval \in Nat /\ mem.planApproval \in Nat \X Nat
      /\ past.clock \in Nat
  BY DEF TypeOK, State
<1>2. MayStartSlices <=> Covers(file)
  BY DEF MayStartSlices, SpecApproved, PlanApproved, Covers
<1>3. MayStartSlices' <=> Covers(file)'
  BY DEF MayStartSlices, SpecApproved, PlanApproved, Covers
<1>4. Fresh.planApproval = <<0, 0>> /\ Fresh.specApproval = 1
  BY DEF Fresh
<1>5. ASSUME Shifted, past'.clock = past.clock, past'.again = past.again
      PROVE  /\ Covered'
             /\ ~MayStartSlices => ~MayStartSlices' \/ plan' \in past.again
  <2>1. ~Covers(Fresh)'
    BY <1>1, <1>4, <1>5 DEF Shifted, Covers
  <2>2. Covers(mem)' => Covers(file)' \/ plan' \in past'.again
    BY <1>5, <2>1 DEF Shifted, Same, Covered, Covers
  <2>3. ~Covers(file) => ~Covers(file)' \/ plan' \in past.again
    BY <1>5 DEF Shifted, Same, Covered, Covers
  <2>4. /\ 1 <= text' /\ plan' <= past'.clock
        /\ file'.specApproval <= text' /\ file'.planApproval[2] <= past'.clock
        /\ mem'.specApproval <= text' /\ mem'.planApproval[2] <= past'.clock
    BY <1>1, <1>4, <1>5 DEF Shifted, Same, Covered
  <2> QED BY <1>2, <1>3, <2>2, <2>3, <2>4 DEF Covered
<1>6. CASE MakePlan \/ PlanCommand
  <2>1. NewPlan /\ text' = text /\ mem' = mem
    BY <1>6 DEF MakePlan, PlanCommand, Command
  <2>2. /\ plan' \in Nat \ {0} /\ past'.clock = plan' /\ past.clock <= plan'
        /\ plan' = past.clock => plan' \in past'.again
        /\ file'.specApproval = file.specApproval /\ file'.planApproval = <<0, 0>>
    <3>1. file \in State
      BY DEF TypeOK
    <3>2. file' = [file EXCEPT !.planApproval = <<0, 0>>]
      BY <2>1, Planned
    <3>3. file'.specApproval = file.specApproval /\ file'.planApproval = <<0, 0>>
      BY <3>1, <3>2 DEF State
    <3> QED BY <2>1, <3>3, Planned
  <2>3. ~Covers(file)'
    BY <1>1, <2>1, <2>2 DEF Covers
  <2>4. Covers(mem)' => plan' \in past'.again
    <3>1. Covers(mem)' => mem.planApproval[2] = plan'
      BY <2>1 DEF Covers
    <3>2. mem.planApproval[2] <= past.clock /\ mem.planApproval[2] \in Nat
      BY <1>1 DEF Covered
    <3>3. Covers(mem)' => plan' = past.clock
      BY <1>1, <2>2, <3>1, <3>2
    <3> QED BY <2>2, <3>3
  <2>5. /\ 1 <= text' /\ plan' <= past'.clock
        /\ file'.specApproval <= text' /\ file'.planApproval[2] <= past'.clock
        /\ mem'.specApproval <= text' /\ mem'.planApproval[2] <= past'.clock
    <3>1. mem'.planApproval[2] <= past'.clock
      <4>1. mem.planApproval[2] \in Nat /\ mem.planApproval[2] <= past.clock
        BY <1>1 DEF Covered
      <4> QED BY <1>1, <2>1, <2>2, <4>1
    <3> QED BY <1>1, <2>1, <2>2, <3>1 DEF Covered
  <2> QED BY <1>3, <2>3, <2>4, <2>5 DEF Covered
<1>7. ASSUME Operators PROVE count'.commands # count.commands
  <2>1. Command
    BY <1>7 DEF Operators, PauseCommand, EditSpec, SpecApprove, PlanApprove, PlanCommand
  <2> QED BY <2>1, BoundsAssumption DEF Command, TypeOK
<1>8. ASSUME NEW s, PauseCommand(s), past'.clock = past.clock, past'.again = past.again
      PROVE  Covered'
  <2>1. text' = text /\ plan' = plan /\ mem' = mem /\ Same(file', file)
    BY <1>8 DEF PauseCommand, Command, Same, TypeOK, State
  <2> QED BY <1>8, <2>1 DEF Covered, Covers, Same
<1>9. ASSUME EditSpec, past'.clock = past.clock, past'.again = past.again PROVE Covered'
  <2>1. text' = text + 1 /\ plan' = plan /\ mem' = mem /\ file' = file
    BY <1>9 DEF EditSpec, Command
  <2> QED BY <1>1, <1>9, <2>1 DEF Covered, Covers
<1>10. ASSUME SpecApprove \/ PlanApprove, past'.clock = past.clock, past'.again = past.again
       PROVE  Covered'
  <2>1. /\ text' = text /\ plan' = plan /\ mem' = mem
        /\ file'.specApproval \in {file.specApproval, text}
        /\ file'.planApproval \in {file.planApproval, <<text, plan>>}
    BY <1>10 DEF SpecApprove, PlanApprove, Command, TypeOK, State
  <2>2. Covers(mem)' => Covers(file)' \/ plan' \in past'.again
    BY <1>10, <2>1 DEF Covered, Covers
  <2>3. plan <= past.clock
    BY DEF Covered
  <2> QED BY <1>1, <1>10, <2>1, <2>2, <2>3 DEF Covered
<1> QED
  BY <1>5, <1>6, <1>7, <1>8, <1>9, <1>10, EngineShifts, NoPlan DEF Next, Operators

-----------------------------------------------------------------------------
\* What each step notes in the history.

LEMMA Notes ==
    ASSUME TypeOK, Placed
    PROVE  /\ \A q \in Requests : Begin(q) =>
                /\ past'.executed = past.executed /\ past'.cut = past.cut
                /\ past'.due = [s \in Stage |-> past.due[s] \/ s = q.retry]
                /\ past'.held = IF q.resume # 0 \/ q.retry # 0 THEN 0
                                ELSE IF q.pause # 0 THEN q.pause ELSE past.held
                /\ past'.last = past.last
           /\ PauseBefore =>
                /\ past'.executed = past.executed /\ past'.cut = past.cut
                /\ past'.due = [past.due EXCEPT ![at] = TRUE]
                /\ past'.held = at
           /\ GateBlocks =>
                /\ past'.executed = past.executed /\ past'.cut = past.cut
                /\ past'.due = past.due
                /\ past'.held = at
           /\ Start =>
                /\ past'.executed = [past.executed EXCEPT ![at] = @ + 1]
                /\ past'.cut = past.cut /\ past'.due = past.due /\ past'.held = past.held
           /\ StageFails =>
                /\ past'.executed = IF Attempts >= MaxAttempts[at] THEN past.executed
                                    ELSE [past.executed EXCEPT ![at] = @ + 1]
                /\ past'.cut = past.cut /\ past'.due = past.due /\ past'.held = past.held
           /\ StagePasses =>
                /\ past'.executed = past.executed /\ past'.cut = past.cut
                /\ past'.due = [past.due EXCEPT ![at] = at >= Promote]
                /\ past'.held = past.held
           /\ AlreadyPassed \/ StartSlices \/ ChecksFail => past' = past
           /\ \A how \in Ways : Leave(how) =>
                /\ past'.executed = past.executed
                /\ past'.cut = IF how \in {"refused", "ended"} THEN past.cut + 1 ELSE past.cut
                /\ past'.due = past.due /\ past'.held = past.held /\ past'.last = how
           /\ \A s : PauseCommand(s) =>
                /\ past'.executed = past.executed /\ past'.cut = past.cut
                /\ past'.due = past.due /\ past'.held = (IF pc = "idle" THEN s ELSE 0)
                /\ past'.last = past.last
           /\ EditSpec \/ SpecApprove \/ PlanApprove \/ PlanCommand \/ MakePlan =>
                /\ past'.executed = past.executed /\ past'.cut = past.cut
                /\ past'.due = past.due /\ past'.held = past.held
                /\ past'.last = past.last
PROOF
<1>1. past \in History
  BY TypesInParts
<1>2. ASSUME NEW q \in Requests, Begin(q)
      PROVE  /\ past'.executed = past.executed /\ past'.cut = past.cut
             /\ past'.due = [s \in Stage |-> past.due[s] \/ s = q.retry]
             /\ past'.held = IF q.resume # 0 \/ q.retry # 0 THEN 0
                             ELSE IF q.pause # 0 THEN q.pause ELSE past.held
             /\ past'.last = past.last
  BY <1>1, <1>2 DEF Begin, History
<1>3. PauseBefore =>
        /\ past'.executed = past.executed /\ past'.cut = past.cut
        /\ past'.due = [past.due EXCEPT ![at] = TRUE]
        /\ past'.held = at
  BY <1>1 DEF PauseBefore, History
<1>4. GateBlocks =>
        /\ past'.executed = past.executed /\ past'.cut = past.cut
        /\ past'.due = past.due
        /\ past'.held = at
  BY <1>1 DEF GateBlocks, History
<1>5. Start =>
        /\ past'.executed = [past.executed EXCEPT ![at] = @ + 1]
        /\ past'.cut = past.cut /\ past'.due = past.due /\ past'.held = past.held
  BY <1>1 DEF Start, History
<1>6. StageFails =>
        /\ past'.executed = IF Attempts >= MaxAttempts[at] THEN past.executed
                            ELSE [past.executed EXCEPT ![at] = @ + 1]
        /\ past'.cut = past.cut /\ past'.due = past.due /\ past'.held = past.held
  BY <1>1 DEF StageFails, Attempts, History
<1>7. StagePasses =>
        /\ past'.executed = past.executed /\ past'.cut = past.cut
        /\ past'.due = [past.due EXCEPT ![at] = at >= Promote]
        /\ past'.held = past.held
  BY <1>1 DEF StagePasses, Outcome, History
<1>8. AlreadyPassed \/ StartSlices \/ ChecksFail => past' = past
  BY DEF AlreadyPassed, StartSlices, ChecksFail
<1>9. ASSUME NEW how \in Ways, Leave(how)
      PROVE  /\ past'.executed = past.executed
             /\ past'.cut = IF how \in {"refused", "ended"} THEN past.cut + 1 ELSE past.cut
             /\ past'.due = past.due /\ past'.held = past.held /\ past'.last = how
  BY <1>1, <1>9 DEF Leave, History
<1>10. ASSUME NEW s, PauseCommand(s)
       PROVE  /\ past'.executed = past.executed /\ past'.cut = past.cut
              /\ past'.due = past.due /\ past'.held = (IF pc = "idle" THEN s ELSE 0)
              /\ past'.last = past.last
  BY <1>1, <1>10 DEF PauseCommand, History
<1>11. EditSpec \/ SpecApprove \/ PlanApprove \/ PlanCommand \/ MakePlan =>
        /\ past'.executed = past.executed /\ past'.cut = past.cut
        /\ past'.due = past.due /\ past'.held = past.held
        /\ past'.last = past.last
  BY <1>1, Planned DEF EditSpec, SpecApprove, PlanApprove, PlanCommand, MakePlan, History
<1> QED BY <1>2, <1>3, <1>4, <1>5, <1>6, <1>7, <1>8, <1>9, <1>10, <1>11

-----------------------------------------------------------------------------
\* Pauses.

LEMMA HeldStays ==
    ASSUME TypeOK, Placed, HeldSound, [Next]_vars
    PROVE  /\ HeldSound'
           /\ \A s \in Stage : past'.executed[s] > past.executed[s] =>
                past.held = 0 \/ s < past.held
PROOF
<1> DEFINE Held(s) == past'.executed[s] > past.executed[s] => past.held = 0 \/ s < past.held
<1>1. /\ past.executed \in [Stage -> Nat] /\ past.held \in 0..8
      /\ at \in 0..9 /\ opt \in Request /\ mem \in State /\ file \in State
      /\ opt.retry \in 0..8 /\ opt.pause \in 0..8
  BY DEF TypeOK, Request
<1>2. past'.executed = past.executed => \A s \in Stage : Held(s)
  BY <1>1
<1>3. ASSUME NEW q \in Requests, Begin(q) PROVE HeldSound'
  <2>1. q \in Request
    BY RequestsAssumption DEF Request
  <2>2. /\ mem' = file' /\ mem'.pausedAt = PauseOf(q)
    BY <1>1, <1>3, <2>1, BegunTyped DEF Begin, Save
  <2>3. opt'.pause = PauseOf(q) /\ opt'.retry = q.retry /\ at' = First(q) /\ pc' = "stage"
    BY <1>3, <2>1 DEF Begin, Request
  <2>4. past'.held # 0 =>
          /\ q.resume = 0 /\ q.retry = 0
          /\ past'.held = PauseOf(q)
          /\ First(q) = 1
    <3>1. past'.held = IF q.resume # 0 \/ q.retry # 0 THEN 0
                       ELSE IF q.pause # 0 THEN q.pause ELSE past.held
      BY <1>3, Notes
    <3> QED BY <3>1 DEF HeldSound, PauseOf, First
  <2>5. PauseOf(q) \in 0..8
    BY <1>1, <2>1, PauseTyped
  <2> QED BY <2>2, <2>3, <2>4, <2>5 DEF HeldSound, Working
<1>4. CASE PauseBefore
  <2>1. /\ file'.pausedAt = mem.pausedAt /\ mem'.pausedAt = mem.pausedAt
        /\ pc' = "finish" /\ past'.held = at /\ opt' = opt
        /\ pc = "stage" /\ at = opt.pause
    BY <1>4, Effects, Notes DEF Wrote, Differs, PauseBefore, Pausing, run
  <2>2. HeldSound'
    BY <2>1 DEF HeldSound, Working
  <2> QED BY <1>2, <1>4, <2>2, Notes
<1>5. CASE GateBlocks
  <2>1. file'.pausedAt = at /\ mem'.pausedAt = at /\ pc' = "finish" /\ past'.held = at
    BY <1>5, Effects, Notes DEF Wrote, Differs, GateBlocks
  <2>2. HeldSound'
    BY <2>1 DEF HeldSound, Working
  <2> QED BY <1>2, <1>5, <2>2, Notes
<1>6. CASE Start
  <2>1. /\ file'.pausedAt = mem.pausedAt /\ mem'.pausedAt = mem.pausedAt
        /\ pc' \in {"plan", "execute"} /\ past'.held = past.held /\ opt' = opt /\ at' = at
        /\ pc = "stage" /\ ~Pausing
    BY <1>6, Effects, Notes DEF Wrote, Differs, Start, run
  <2>2. past.held # 0 => at < past.held
    BY <1>1, <2>1 DEF HeldSound, Pausing, Working
  <2>3. HeldSound'
    BY <2>1, <2>2 DEF HeldSound, Working
  <2>4. ASSUME NEW s \in Stage PROVE Held(s)
    BY <1>1, <1>6, <2>2, Notes
  <2> QED BY <2>3, <2>4
<1>7. CASE StageFails
  <2>1. /\ file'.pausedAt = mem.pausedAt /\ mem'.pausedAt = mem.pausedAt
        /\ pc' \in {"plan", "start", "execute", "rollback"}
        /\ past'.held = past.held /\ opt' = opt /\ at' = at
        /\ pc \in {"start", "execute"}
    <3>1. file'.pausedAt = mem.pausedAt /\ mem'.pausedAt = mem.pausedAt
      BY <1>7, Effects DEF Wrote, Differs
    <3> QED BY <1>7, <3>1, Notes DEF StageFails, run
  <2>2. past.held # 0 => at < past.held
    BY <1>1, <2>1 DEF HeldSound
  <2>3. HeldSound'
    BY <2>1, <2>2 DEF HeldSound, Working
  <2>4. ASSUME NEW s \in Stage PROVE Held(s)
    BY <1>1, <1>7, <2>2, Notes
  <2> QED BY <2>3, <2>4
<1>8. CASE StagePasses \/ ChecksFail
  <2>1. /\ file'.pausedAt = mem.pausedAt /\ mem'.pausedAt = mem.pausedAt
        /\ past'.held = past.held /\ opt' = opt /\ past'.executed = past.executed
    BY <1>8, Effects, Notes DEF Wrote, Differs, StagePasses, ChecksFail, run
  <2>2. /\ pc = "execute"
        /\ (pc' = "stage" /\ at' = at + 1) \/ (pc' = "rollback" /\ at' = at)
    BY <1>8 DEF StagePasses, ChecksFail, run
  <2> QED BY <1>1, <1>2, <2>1, <2>2 DEF HeldSound, Working
<1>9. CASE AlreadyPassed
  BY <1>1, <1>2, <1>9 DEF AlreadyPassed, Pausing, HeldSound, Working
<1>10. CASE MakePlan \/ StartSlices
  <2>1. file'.pausedAt = file.pausedAt /\ mem' = mem /\ at' = at /\ opt' = opt
    BY <1>1, <1>10 DEF MakePlan, NewPlan, StartSlices, run, State
  <2>2. pc \in {"plan", "start"} /\ pc' \in {"start", "execute"}
    BY <1>10 DEF MakePlan, StartSlices
  <2>3. past'.held = past.held /\ past'.executed = past.executed
    BY <1>10, Notes
  <2> QED BY <1>2, <2>1, <2>2, <2>3 DEF HeldSound, Working
<1>11. CASE Refused \/ End \/ Finish \/ Rollback
  <2>1. PICK how \in {"refused", "ended", "paused", "completed", "failed"} : Leave(how)
    BY <1>11 DEF Refused, End, Finish, Rollback
  <2>2. past'.held = past.held /\ past'.executed = past.executed
    BY <2>1, Notes DEF Ways
  <2>3. pc # "idle" /\ pc' = "idle" /\ file'.pausedAt \in {file.pausedAt, mem.pausedAt}
    BY <1>1, <1>11 DEF Refused, End, Finish, Rollback, Leave, State
  <2> QED BY <1>2, <2>2, <2>3 DEF HeldSound, Working
<1>12. ASSUME NEW s \in 0..8, PauseCommand(s) PROVE HeldSound'
  <2>1. /\ file'.pausedAt = s /\ mem' = mem /\ at' = at /\ opt' = opt /\ pc' = pc
        /\ past'.held = IF pc = "idle" THEN s ELSE 0
    BY <1>1, <1>12, Notes DEF PauseCommand, Command, run, State
  <2> QED BY <2>1 DEF HeldSound, Working
<1>13. CASE EditSpec \/ SpecApprove \/ PlanApprove \/ PlanCommand
  <2>1. /\ file'.pausedAt = file.pausedAt /\ mem' = mem /\ at' = at /\ opt' = opt /\ pc' = pc
    BY <1>1, <1>13
    DEF EditSpec, SpecApprove, PlanApprove, PlanCommand, NewPlan, Command, run, State
  <2>2. past'.held = past.held /\ past'.executed = past.executed
    BY <1>13, Notes
  <2> QED BY <1>2, <2>1, <2>2 DEF HeldSound, Working
<1>14. CASE UNCHANGED vars
  BY <1>2, <1>14 DEF vars, run, HeldSound, Working
<1>15. \A s \in {q.pause : q \in Requests} \ {0} : s \in 0..8
  BY RequestsAssumption
<1>16. \A q \in Requests, s \in 0..8 :
         Begin(q) \/ PauseCommand(s) => past'.executed = past.executed
  BY Notes
<1> HIDE DEF Held
<1>17. HeldSound' /\ \A s \in Stage : Held(s)
  BY <1>2, <1>3, <1>4, <1>5, <1>6, <1>7, <1>8, <1>9, <1>10, <1>11, <1>12, <1>13, <1>14,
     <1>15, <1>16 DEF Next, Engine, Operators, Held
<1> QED BY <1>17 DEF Held

-----------------------------------------------------------------------------
\* Passed stages.

LEMMA DueStays ==
    ASSUME TypeOK, Placed, DueSound, [Next]_vars
    PROVE  /\ DueSound'
           /\ \A s \in Stage : past'.executed[s] > past.executed[s] => past.due[s]
PROOF
<1> DEFINE Due(s) == past'.executed[s] > past.executed[s] => past.due[s]
<1>1. /\ past.executed \in [Stage -> Nat] /\ past.due \in [Stage -> BOOLEAN]
      /\ at \in 0..9 /\ mem \in State /\ file \in State
      /\ opt.retry \in 0..8
  BY DEF TypeOK, Request
<1>2. past'.executed = past.executed => \A s \in Stage : Due(s)
  BY <1>1
<1>3. ASSUME NEW q \in Requests, Begin(q) PROVE DueSound'
  <2>1. q \in Request
    BY RequestsAssumption DEF Request
  <2>2. mem'.record = file.record /\ file'.record = file.record
    BY <1>1, <1>3, <2>1, BegunTyped DEF Begin, Save
  <2>3. /\ opt'.retry = q.retry /\ pc' = "stage"
        /\ past'.due = [s \in Stage |-> past.due[s] \/ s = q.retry]
    BY <1>3, <2>1, Notes DEF Begin, Request
  <2>4. \A s \in Stage : ~past'.due[s] => file.record[s].status = "passed"
    BY <1>1, <2>3 DEF DueSound
  <2>5. q.retry # 0 => past'.due[q.retry]
    <3>1. q.retry # 0 => q.retry \in Stage
      BY <2>1 DEF Request, Stage
    <3> QED BY <2>3, <3>1
  <2> QED BY <2>2, <2>3, <2>4, <2>5 DEF DueSound
<1>4. ASSUME pc = "stage", at \in Stage, ~IsDone PROVE past.due[at]
  <2>1. mem.record[at].status = "passed" => past.due[at]
    <3>1. CASE opt.retry = at
      BY <1>1, <1>4, <3>1 DEF DueSound, Stage
    <3> QED BY <1>4, <3>1 DEF IsDone
  <2> QED BY <1>1, <1>4, <2>1 DEF DueSound
\* What is written of a stage that is due says nothing it should not.
<1>5. ASSUME NEW m, NEW st, NEW k, NEW e, NEW p, Differs(mem, m, at, st, k, e, p),
             pc # "idle", at \in Stage,
             NEW due \in [Stage -> BOOLEAN], due[at] \/ st = "passed",
             \A s \in Stage \ {at} : due[s] = past.due[s]
      PROVE  \A s \in Stage : ~due[s] => m.record[s].status = "passed"
  <2> TAKE s \in Stage
  <2>1. CASE s = at
    BY <1>5, <2>1 DEF Differs
  <2>2. CASE s # at
    BY <1>1, <1>5, <2>2 DEF Differs, DueSound
  <2> QED BY <2>1, <2>2
<1>6. CASE PauseBefore
  <2>1. pc = "stage" /\ at \in Stage /\ pc' = "finish" /\ at' = at /\ opt' = opt
    BY <1>6 DEF PauseBefore, run
  <2>2. past'.due = [past.due EXCEPT ![at] = TRUE]
    BY <1>6, Notes
  <2>3. \A s \in Stage : ~past'.due[s] =>
          mem'.record[s].status = "passed" /\ file'.record[s].status = "passed"
    <3>1. /\ past'.due \in [Stage -> BOOLEAN] /\ past'.due[at]
          /\ \A s \in Stage \ {at} : past'.due[s] = past.due[s]
      BY <1>1, <2>1, <2>2
    <3>2. Wrote("skipped", Attempts, "paused", mem.pausedAt)
      BY <1>6, Effects
    <3> QED BY <1>5, <2>1, <3>1, <3>2 DEF Wrote
  <2>4. opt.retry # 0 /\ at <= opt.retry => past'.due[opt.retry]
    BY <1>1, <2>1, <2>2 DEF DueSound, Stage
  <2> QED BY <1>2, <1>6, <2>1, <2>3, <2>4, Notes DEF DueSound
<1>7. CASE GateBlocks \/ Start
  <2>1. /\ pc = "stage" /\ at \in Stage /\ ~IsDone
        /\ pc' \in {"finish", "plan", "execute"} /\ at' = at /\ opt' = opt
    BY <1>7 DEF GateBlocks, Start, run
  <2>2. past'.due = past.due /\ past.due[at]
    BY <1>4, <1>7, <2>1, Notes
  <2>3. \A s \in Stage : ~past'.due[s] =>
          mem'.record[s].status = "passed" /\ file'.record[s].status = "passed"
    BY <1>1, <1>5, <1>7, <2>1, <2>2, Effects DEF Wrote
  <2>4. ASSUME NEW s \in Stage PROVE Due(s)
    BY <1>1, <1>7, <2>2, Notes
  <2>5. DueSound'
    BY <2>1, <2>2, <2>3 DEF DueSound
  <2> QED BY <2>4, <2>5
<1>8. CASE StageFails \/ ChecksFail
  <2>1. /\ pc \in {"start", "execute"} /\ at \in Stage
        /\ pc' \in {"plan", "start", "execute", "rollback"} /\ at' = at /\ opt' = opt
    BY <1>8 DEF StageFails, ChecksFail, Placed, run
  <2>2. past'.due = past.due /\ past.due[at]
    BY <1>8, <2>1, Notes DEF DueSound
  <2>3. \A s \in Stage : ~past'.due[s] => mem'.record[s].status = "passed"
    BY <1>1, <1>5, <1>8, <2>1, <2>2, Effects DEF Wrote
  <2>4. \A s \in Stage : ~past'.due[s] => file'.record[s].status = "passed"
    BY <1>1, <1>5, <1>8, <2>1, <2>2, Effects DEF Wrote
  <2>5. ASSUME NEW s \in Stage PROVE Due(s)
    BY <1>1, <1>8, <2>2, Notes
  <2>6. DueSound'
    BY <2>1, <2>2, <2>3, <2>4 DEF DueSound
  <2> QED BY <2>5, <2>6
<1>9. CASE StagePasses
  <2>1. /\ pc = "execute" /\ at \in Stage /\ pc' = "stage" /\ at' = at + 1 /\ opt' = opt
    BY <1>9 DEF StagePasses, Placed
  <2>2. past'.due = [past.due EXCEPT ![at] = at >= Promote]
    BY <1>9, Notes
  <2>3. \A s \in Stage : ~past'.due[s] =>
          mem'.record[s].status = "passed" /\ file'.record[s].status = "passed"
    <3>1. past'.due \in [Stage -> BOOLEAN]
      BY <1>1, <2>1, <2>2
    <3>2. past'.due[at] \/ Result(at) = "passed"
      BY <1>1, <2>1, <2>2 DEF Result
    <3>3. \A s \in Stage \ {at} : past'.due[s] = past.due[s]
      BY <1>1, <2>1, <2>2
    <3>4. Wrote(Result(at), Attempts, mem.status, mem.pausedAt)
      BY <1>9, Effects
    <3> QED BY <1>5, <2>1, <3>1, <3>2, <3>3, <3>4 DEF Wrote
  <2>4. opt.retry # 0 /\ at + 1 <= opt.retry => past'.due[opt.retry]
    BY <1>1, <2>1, <2>2 DEF DueSound, Stage
  <2> QED BY <1>2, <1>9, <2>1, <2>3, <2>4, Notes DEF DueSound
<1>10. CASE AlreadyPassed
  BY <1>1, <1>2, <1>10 DEF AlreadyPassed, DueSound
<1>11. CASE MakePlan \/ StartSlices
  <2>1. /\ file'.record = file.record /\ mem' = mem /\ at' = at /\ opt' = opt
    BY <1>1, <1>11 DEF MakePlan, NewPlan, StartSlices, run, State
  <2>2. pc \in {"plan", "start"} /\ pc' \in {"start", "execute"}
    BY <1>11 DEF MakePlan, StartSlices
  <2>3. past'.due = past.due /\ past'.executed = past.executed
    BY <1>11, Notes
  <2> QED BY <1>2, <2>1, <2>2, <2>3 DEF DueSound
<1>12. CASE Refused \/ End \/ Finish \/ Rollback
  <2>1. PICK how \in {"refused", "ended", "paused", "completed", "failed"} : Leave(how)
    BY <1>12 DEF Refused, End, Finish, Rollback
  <2>2. past'.due = past.due /\ past'.executed = past.executed
    BY <2>1, Notes DEF Ways
  <2>3. pc # "idle" /\ pc' = "idle" /\ file'.record \in {file.record, mem.record}
    BY <1>1, <1>12 DEF Refused, End, Finish, Rollback, Leave, State
  <2> QED BY <1>2, <2>2, <2>3 DEF DueSound
<1>13. CASE Operators
  <2>1. PICK s : PauseCommand(s) \/ EditSpec \/ SpecApprove \/ PlanApprove \/ PlanCommand
    BY <1>13 DEF Operators
  <2>2. /\ file'.record = file.record /\ mem' = mem /\ at' = at /\ opt' = opt /\ pc' = pc
    BY <1>1, <2>1
    DEF PauseCommand, EditSpec, SpecApprove, PlanApprove, PlanCommand, NewPlan, Command, run, State
  <2>3. past'.due = past.due /\ past'.executed = past.executed
    BY <2>1, Notes
  <2> QED BY <1>2, <2>2, <2>3 DEF DueSound
<1>14. CASE UNCHANGED vars
  BY <1>2, <1>14 DEF vars, run, DueSound
<1>15. \A q \in Requests : Begin(q) => past'.executed = past.executed
  BY Notes
<1> HIDE DEF Due
<1>16. DueSound' /\ \A s \in Stage : Due(s)
  BY <1>2, <1>3, <1>6, <1>7, <1>8, <1>9, <1>10, <1>11, <1>12, <1>13, <1>14, <1>15
  DEF Next, Engine, Due
<1> QED BY <1>16 DEF Due

-----------------------------------------------------------------------------
\* Attempts.

LEMMA AttemptsStay ==
    ASSUME TypeOK, Placed, AttemptsSound, [Next]_vars PROVE AttemptsSound'
PROOF
<1>1. /\ past.executed \in [Stage -> Nat] /\ past.cut \in Nat
      /\ mem \in State /\ file \in State
      /\ \A s \in Stage : mem.record[s].attempt \in Nat /\ file.record[s].attempt \in Nat
  BY DEF TypeOK, State
\* A state written counts right if the stage's record does.
<1>2. ASSUME NEW m, NEW st, NEW k \in Nat, NEW e, NEW p, Differs(mem, m, at, st, k, e, p),
             pc # "idle", at \in Stage, NEW done \in [Stage -> Nat],
             NEW most \in Nat, past.cut <= most, done[at] - k \in 0..most,
             \A s \in Stage \ {at} : done[s] = past.executed[s]
      PROVE  \A s \in Stage : done[s] - m.record[s].attempt \in 0..most
  <2> TAKE s \in Stage
  <2>1. CASE s = at
    BY <1>2, <2>1 DEF Differs
  <2>2. CASE s # at
    <3>1. done[s] = past.executed[s] /\ m.record[s] = mem.record[s]
      BY <1>2, <2>2 DEF Differs
    <3>2. past.executed[s] - mem.record[s].attempt \in 0..past.cut
      BY <1>2 DEF AttemptsSound, Counting
    <3> QED BY <1>1, <1>2, <3>1, <3>2
  <2> QED BY <2>1, <2>2
<1>3. ASSUME pc # "idle", at \in Stage
      PROVE  Attempts \in Nat /\ past.executed[at] - Attempts \in 0..past.cut
  BY <1>1, <1>3 DEF AttemptsSound, Counting, Attempts
<1>4. ASSUME NEW q \in Requests, Begin(q) PROVE AttemptsSound'
  <2>1. q \in Request
    BY RequestsAssumption DEF Request
  <2>2. pc = "idle" /\ pc' = "stage" /\ mem'.record = file.record /\ file'.record = file.record
    BY <1>1, <1>4, <2>1, BegunTyped DEF Begin, Save
  <2>3. past'.executed = past.executed /\ past'.cut = past.cut
    BY <1>4, Notes
  <2> QED BY <1>1, <2>2, <2>3 DEF AttemptsSound, Counting
<1>5. CASE PauseBefore \/ GateBlocks \/ ChecksFail \/ StagePasses
           \/ (StageFails /\ Attempts >= MaxAttempts[at])
  <2>1. pc # "idle" /\ pc' # "idle" /\ at \in Stage
    BY <1>5 DEF PauseBefore, GateBlocks, ChecksFail, StagePasses, StageFails, Attempts, Placed
  <2>2. past'.executed = past.executed /\ past'.cut = past.cut
    BY <1>5, Notes
  <2>3. \E st, e, p : Wrote(st, Attempts, e, p)
    BY <1>5, Effects
  <2>4. \A s \in Stage : past.executed[s] - mem'.record[s].attempt \in 0..past.cut
    BY <1>1, <1>2, <1>3, <2>1, <2>3 DEF Wrote
  <2>5. file' = mem'
    BY <2>3 DEF Wrote
  <2> QED BY <1>1, <2>1, <2>2, <2>4, <2>5 DEF AttemptsSound, Counting
<1>6. CASE Start
  <2>1. pc # "idle" /\ pc' # "idle" /\ at \in Stage
    BY <1>6 DEF Start
  <2>2. past'.executed = [past.executed EXCEPT ![at] = @ + 1] /\ past'.cut = past.cut
    BY <1>6, Notes
  <2>3. Wrote("started", Attempts + 1, mem.status, mem.pausedAt)
    BY <1>6, Effects
  <2>4. /\ past'.executed \in [Stage -> Nat]
        /\ past'.executed[at] - (Attempts + 1) \in 0..past.cut
        /\ \A s \in Stage \ {at} : past'.executed[s] = past.executed[s]
    BY <1>1, <1>3, <2>1, <2>2
  <2>5. \A s \in Stage : past'.executed[s] - mem'.record[s].attempt \in 0..past.cut
    BY <1>1, <1>2, <1>3, <2>1, <2>3, <2>4 DEF Wrote
  <2>6. file' = mem'
    BY <2>3 DEF Wrote
  <2>7. \A s \in Stage : past'.executed[s] - file'.record[s].attempt \in 0..(past.cut + 1)
    BY <1>1, <2>5, <2>6
  <2> QED BY <2>1, <2>2, <2>5, <2>7 DEF AttemptsSound, Counting
<1>7. CASE StageFails /\ ~(Attempts >= MaxAttempts[at])
  <2>1. pc # "idle" /\ pc' # "idle" /\ at \in Stage
    BY <1>7 DEF StageFails, Attempts, Placed
  <2>2. past'.executed = [past.executed EXCEPT ![at] = @ + 1] /\ past'.cut = past.cut
    BY <1>7, Notes
  <2>3. /\ Differs(mem, file', at, "failed", Attempts, mem.status, mem.pausedAt)
        /\ Differs(mem, mem', at, "failed", Attempts + 1, mem.status, mem.pausedAt)
    BY <1>7, Effects
  <2>4. /\ past'.executed \in [Stage -> Nat]
        /\ past'.executed[at] - (Attempts + 1) \in 0..past.cut
        /\ past'.executed[at] - Attempts \in 0..(past.cut + 1)
        /\ \A s \in Stage \ {at} : past'.executed[s] = past.executed[s]
    BY <1>1, <1>3, <2>1, <2>2
  <2>5. \A s \in Stage : past'.executed[s] - mem'.record[s].attempt \in 0..past.cut
    BY <1>1, <1>2, <1>3, <2>1, <2>3, <2>4
  <2>6. \A s \in Stage : past'.executed[s] - file'.record[s].attempt \in 0..(past.cut + 1)
    BY <1>1, <1>2, <1>3, <2>1, <2>3, <2>4
  <2> QED BY <2>1, <2>2, <2>5, <2>6 DEF AttemptsSound, Counting
<1>8. CASE AlreadyPassed
  BY <1>8 DEF AlreadyPassed, AttemptsSound, Counting
<1>9. CASE MakePlan \/ StartSlices
  <2>1. /\ file'.record = file.record /\ mem' = mem
        /\ pc # "idle" /\ pc' # "idle"
    BY <1>1, <1>9 DEF MakePlan, NewPlan, StartSlices, run, State
  <2>2. past'.executed = past.executed /\ past'.cut = past.cut
    BY <1>9, Notes
  <2> QED BY <2>1, <2>2 DEF AttemptsSound, Counting
<1>10. CASE Refused \/ End
  <2>1. PICK how \in {"refused", "ended"} : Leave(how)
    BY <1>10 DEF Refused, End
  <2>2. past'.executed = past.executed /\ past'.cut = past.cut + 1
    BY <2>1, Notes DEF Ways
  <2>3. pc # "idle" /\ pc' = "idle" /\ file' = file
    BY <1>10 DEF Refused, End, Leave
  <2> QED BY <2>2, <2>3 DEF AttemptsSound, Counting
<1>11. CASE Finish \/ Rollback
  <2>1. PICK how \in {"paused", "completed", "failed"} : Leave(how)
    BY <1>11 DEF Finish, Rollback
  <2>2. past'.executed = past.executed /\ past'.cut = past.cut
    BY <2>1, Notes DEF Ways
  <2>3. pc # "idle" /\ pc' = "idle" /\ file'.record = mem.record
    BY <1>1, <1>11 DEF Finish, Rollback, Leave, State
  <2> QED BY <2>2, <2>3 DEF AttemptsSound, Counting
<1>12. CASE Operators
  <2>1. PICK s : PauseCommand(s) \/ EditSpec \/ SpecApprove \/ PlanApprove \/ PlanCommand
    BY <1>12 DEF Operators
  <2>2. file'.record = file.record /\ mem' = mem /\ pc' = pc
    BY <1>1, <2>1
    DEF PauseCommand, EditSpec, SpecApprove, PlanApprove, PlanCommand, NewPlan, Command, State
  <2>3. past'.cut = past.cut /\ past'.executed = past.executed
    BY <2>1, Notes
  <2> QED BY <2>2, <2>3 DEF AttemptsSound, Counting
<1>13. CASE UNCHANGED vars
  BY <1>13 DEF vars, AttemptsSound, Counting
<1> QED
  BY <1>4, <1>5, <1>6, <1>7, <1>8, <1>9, <1>10, <1>11, <1>12, <1>13 DEF Next, Engine

-----------------------------------------------------------------------------
\* Outcomes.

LEMMA ReportStays ==
    ASSUME TypeOK, Placed, ReportSound, FailedIsCompensated, [Next]_vars
    PROVE  ReportSound' /\ FailedIsCompensated'
PROOF
<1>1. /\ mem \in State /\ file \in State /\ at \in 0..9
      /\ mem.record \in [Stage -> Record] /\ file.record \in [Stage -> Record]
  BY DEF TypeOK, State, Record, Statuses
<1> DEFINE Behind(m, upto) ==
             \A s \in Stage : First(opt) <= s /\ s < upto => m.record[s].status = Result(s)
           Unpassed(m) == \A s \in Stage : s >= Promote => m.record[s].status # "passed"
<1>2. ASSUME NEW q \in Requests, Begin(q) PROVE ReportSound' /\ FailedIsCompensated'
  <2>1. q \in Request
    BY RequestsAssumption DEF Request
  <2>2. mem'.record = file.record /\ file'.record = file.record
    BY <1>1, <1>2, <2>1, BegunTyped DEF Begin, Save
  <2>3. First(opt') = First(q) /\ at' = First(q) /\ pc' = "stage"
    BY <1>2, <2>1 DEF Begin, First, Request
  <2>4. First(q) \in Nat
    BY <2>1 DEF First, Request
  <2> QED
    BY <2>2, <2>3, <2>4 DEF ReportSound, ReportJustified, FailedIsCompensated, First, Stage
\* A record written leaves what lies behind it.
<1>3. ASSUME NEW m, NEW st, NEW k, NEW e, NEW p, Differs(mem, m, at, st, k, e, p),
             pc \in Working, at \in Stage, st # "passed" \/ at < Promote
      PROVE  /\ Behind(m, at) /\ Unpassed(m)
             /\ st = Result(at) => Behind(m, at + 1)
  <2>1. Behind(m, at)
    BY <1>3 DEF Differs, ReportSound, Stage
  <2>2. Unpassed(m)
    <3> SUFFICES ASSUME NEW s \in Stage, s >= Promote PROVE m.record[s].status # "passed"
      OBVIOUS
    <3>1. CASE s = at
      BY <1>3, <3>1 DEF Differs, Stage, Promote
    <3>2. CASE s # at
      BY <1>3, <3>2 DEF Differs, ReportSound
    <3> QED BY <3>1, <3>2
  <2>3. ASSUME st = Result(at), NEW s \in Stage, First(opt) <= s, s < at + 1
        PROVE  m.record[s].status = Result(s)
    <3>1. CASE s = at
      BY <1>3, <2>3, <3>1 DEF Differs
    <3>2. CASE s # at
      BY <1>1, <2>1, <2>3, <3>2 DEF Stage
    <3> QED BY <3>1, <3>2
  <2> QED BY <2>1, <2>2, <2>3
<1>4. CASE PauseBefore \/ GateBlocks \/ Start
  <2>1. /\ pc \in Working /\ at \in Stage /\ at' = at /\ opt' = opt
        /\ pc' \in {"finish", "plan", "execute"}
    BY <1>4 DEF PauseBefore, GateBlocks, Start, run, Working
  <2>2. \E st, k, e, p : st # "passed" /\ Wrote(st, k, e, p)
    BY <1>4, Effects
  <2>3. Behind(mem', at) /\ Unpassed(mem') /\ file' = mem'
    BY <1>3, <2>1, <2>2 DEF Wrote
  <2> QED
    BY <2>1, <2>3 DEF ReportSound, ReportJustified, FailedIsCompensated, First
<1>5. CASE ChecksFail \/ (StageFails /\ Attempts >= MaxAttempts[at])
  <2>1. /\ pc \in Working /\ at \in Stage /\ at' = at /\ opt' = opt /\ pc' = "rollback"
    BY <1>5 DEF ChecksFail, StageFails, run, Working, Placed, Attempts
  <2>2. Wrote("failed", Attempts, "failed", mem.pausedAt)
    BY <1>5, Effects
  <2>3. Unpassed(mem') /\ file' = mem'
    BY <1>3, <2>1, <2>2 DEF Wrote
  <2>4. mem'.record[at].status = "failed" /\ mem'.status = "failed"
    BY <2>2 DEF Wrote, Differs
  <2> QED
    BY <2>1, <2>3, <2>4 DEF ReportSound, ReportJustified, FailedIsCompensated, Working
<1>6. CASE StageFails /\ ~(Attempts >= MaxAttempts[at])
  <2>1. /\ pc \in Working /\ at \in Stage /\ at' = at /\ opt' = opt
        /\ pc' \in {"plan", "start", "execute"}
    BY <1>6 DEF StageFails, run, Working, Placed, Attempts
  <2>2. /\ Differs(mem, file', at, "failed", Attempts, mem.status, mem.pausedAt)
        /\ Differs(mem, mem', at, "failed", Attempts + 1, mem.status, mem.pausedAt)
    BY <1>6, Effects
  <2>3. Behind(mem', at) /\ Unpassed(mem')
    BY <1>3, <2>1, <2>2
  <2>4. Unpassed(file')
    BY <1>3, <2>1, <2>2
  <2> QED
    BY <2>1, <2>3, <2>4 DEF ReportSound, ReportJustified, FailedIsCompensated, First
<1>7. CASE StagePasses
  <2>1. /\ pc \in Working /\ at \in Stage /\ at' = at + 1 /\ opt' = opt /\ pc' = "stage"
    BY <1>7 DEF StagePasses, Placed, Working
  <2>2. Wrote(Result(at), Attempts, mem.status, mem.pausedAt)
    BY <1>7, Effects
  <2>3. Result(at) # "passed" \/ at < Promote
    BY <1>1 DEF Result, Promote
  <2>4. Behind(mem', at + 1) /\ Unpassed(mem') /\ file' = mem'
    BY <1>3, <2>1, <2>2, <2>3 DEF Wrote
  <2> QED
    BY <2>1, <2>4 DEF ReportSound, ReportJustified, FailedIsCompensated, First
<1>8. CASE AlreadyPassed
  <2>1. /\ pc = "stage" /\ at \in Stage /\ mem.record[at].status = "passed"
        /\ at' = at + 1 /\ opt' = opt /\ mem' = mem /\ file' = file /\ pc' = pc
    BY <1>8 DEF AlreadyPassed, IsDone
  <2>2. ASSUME NEW s \in Stage, First(opt) <= s, s < at + 1
        PROVE  mem.record[s].status = Result(s)
    <3>1. CASE s = at
      BY <1>1, <2>1, <3>1 DEF ReportSound, Result
    <3>2. CASE s # at
      BY <1>1, <2>1, <2>2, <3>2 DEF ReportSound, Working, Stage
    <3> QED BY <3>1, <3>2
  <2> QED
    BY <2>1, <2>2 DEF ReportSound, ReportJustified, FailedIsCompensated, First
<1>9. CASE MakePlan \/ StartSlices
  <2>1. /\ file'.record = file.record /\ mem' = mem /\ at' = at /\ opt' = opt
        /\ pc \in Working /\ pc' \in {"start", "execute"}
    BY <1>1, <1>9 DEF MakePlan, NewPlan, StartSlices, run, State, Working
  <2> QED BY <2>1 DEF ReportSound, ReportJustified, FailedIsCompensated, First
<1>10. Unpassed(Fresh)
  BY DEF Fresh
<1>11. CASE Refused \/ End
  <2>1. PICK how \in {"refused", "ended"} : Leave(how)
    BY <1>11 DEF Refused, End
  <2>2. past'.last \in {"refused", "ended"}
    BY <2>1, Notes DEF Ways
  <2>3. pc' = "idle" /\ file' = file /\ mem' = Fresh
    BY <1>11 DEF Refused, End, Leave
  <2> QED
    BY <1>10, <2>2, <2>3
    DEF ReportSound, ReportJustified, FailedIsCompensated, Working
<1>12. CASE Finish
  <2> DEFINE outcome == IF pc = "finish" THEN "paused" ELSE "completed"
  <2>1. /\ file'.record = mem.record /\ file'.status = outcome
        /\ mem' = Fresh /\ opt' = opt /\ pc' = "idle" /\ Leave(outcome)
    BY <1>1, <1>12 DEF Finish, Leave, State
  <2>2. past'.last = outcome
    BY <2>1, Notes DEF Ways
  <2>3. ASSUME outcome = "completed", NEW s \in First(opt)..8
        PROVE  mem.record[s].status = IF s >= Promote THEN "skipped" ELSE "passed"
    <3>1. pc = "stage" /\ at = 9
      BY <1>12, <2>3 DEF Finish
    <3>2. s \in Stage /\ First(opt) <= s /\ s < at
      <4>1. First(opt) \in 1..8
        BY DEF First, TypeOK
      <4> QED BY <3>1, <4>1 DEF Stage
    <3> QED BY <3>1, <3>2 DEF ReportSound, Working, Result
  <2>4. ReportJustified'
    BY <2>1, <2>2, <2>3 DEF ReportJustified, First
  <2> QED
    BY <1>10, <2>1, <2>2, <2>4
    DEF ReportSound, FailedIsCompensated, Working
<1>13. CASE Rollback
  <2>1. /\ file'.record = mem.record /\ file'.status = mem.status
        /\ file'.compensated = Compensated
        /\ mem' = Fresh /\ opt' = opt /\ pc = "rollback" /\ pc' = "idle" /\ Leave("failed")
    BY <1>1, <1>13 DEF Rollback, Leave, State
  <2>2. past'.last = "failed"
    BY <2>1, Notes DEF Ways
  <2>3. at \in Stage /\ mem.record[at].status = "failed" /\ mem.status = "failed"
    BY <2>1 DEF Placed, ReportSound
  <2>4. ReportJustified'
    BY <2>1, <2>2, <2>3 DEF ReportJustified
  <2>5. FailedIsCompensated'
    BY <2>1 DEF FailedIsCompensated, Compensated
  <2> QED
    BY <1>10, <2>1, <2>4, <2>5 DEF ReportSound, Working
<1>14. CASE Operators
  <2>1. PICK s : PauseCommand(s) \/ EditSpec \/ SpecApprove \/ PlanApprove \/ PlanCommand
    BY <1>14 DEF Operators
  <2>2. /\ file'.record = file.record /\ file'.compensated = file.compensated
        /\ file'.status \in {file.status, "paused"}
        /\ mem' = mem /\ pc' = pc /\ opt' = opt /\ at' = at
    BY <1>1, <2>1
    DEF PauseCommand, EditSpec, SpecApprove, PlanApprove, PlanCommand, NewPlan, Command, run, State
  <2>3. past'.last = past.last
    BY <2>1, Notes
  <2>4. ReportJustified'
    BY <2>2, <2>3 DEF ReportSound, ReportJustified, First
  <2> QED BY <2>2, <2>3, <2>4 DEF ReportSound, FailedIsCompensated, First
<1>15. CASE UNCHANGED vars
  BY <1>15 DEF vars, run, ReportSound, ReportJustified, FailedIsCompensated, First
<1> QED
  BY <1>2, <1>4, <1>5, <1>6, <1>7, <1>8, <1>9, <1>11, <1>12, <1>13, <1>14, <1>15
  DEF Next, Engine

-----------------------------------------------------------------------------
\* The theorems.

LEMMA NextIInv == IInv /\ [Next]_vars => IInv'
PROOF
  BY TypesStay, CoveredStays, DueStays, HeldStays, AttemptsStay, ReportStays DEF IInv

LEMMA Invariance == Spec => []IInv
PROOF BY InitIInv, NextIInv, PTL DEF Spec

\* Whatever the options, failures and commands, every variable keeps its type.
THEOREM TypeCorrect == Spec => []TypeOK
PROOF
<1>1. IInv => TypeOK
  BY DEF IInv
<1> QED BY <1>1, Invariance, PTL

\* What a run reports and what it leaves in the file agree.
THEOREM Reports == Spec => []ReportJustified
PROOF
<1>1. IInv => ReportJustified
  BY DEF IInv, ReportSound
<1> QED BY <1>1, Invariance, PTL

\* Attempts on record are executions, but for one of each run cut off.
THEOREM Attempted == Spec => []AttemptsTell
PROOF
<1>1. IInv => AttemptsTell
  BY DEF IInv, AttemptsSound, Counting, AttemptsTell
<1> QED BY <1>1, Invariance, PTL

\* A failed run leaves no passed stage without its compensation.
THEOREM Compensating == Spec => []FailedIsCompensated
PROOF
<1>1. IInv => FailedIsCompensated
  BY DEF IInv
<1> QED BY <1>1, Invariance, PTL

\* No passed stage is executed again unasked.
THEOREM Passed == Spec => PassedStaysPassed
PROOF
<1>1. IInv /\ [Next]_vars =>
        [\A s \in Stage : past'.executed[s] > past.executed[s] => past.due[s]]_vars
  BY DueStays DEF IInv
<1> QED BY <1>1, Invariance, PTL DEF Spec, PassedStaysPassed

\* No run goes past a pause unasked.
THEOREM Pauses == Spec => PauseHolds
PROOF
<1>1. IInv /\ [Next]_vars =>
        [\A s \in Stage : past'.executed[s] > past.executed[s] =>
            past.held = 0 \/ s < past.held]_vars
  BY HeldStays DEF IInv
<1> QED BY <1>1, Invariance, PTL DEF Spec, PauseHolds

\* No step of the engine gives slices the permission to start, unless the plan was made
\* more than once in its second (state.py 9-10, features.py 914).
THEOREM Permissions == Spec => EngineNeverPermits
PROOF
<1>1. IInv /\ [Next]_vars =>
        [count'.commands = count.commands /\ ~MayStartSlices
            => ~MayStartSlices' \/ plan' \in past.again]_vars
  BY CoveredStays DEF IInv
<1> QED BY <1>1, Invariance, PTL DEF Spec, EngineNeverPermits

=============================================================================
