--------------------------- MODULE AgentRunProofs ---------------------------
(***************************************************************************)
(* Proofs about AgentRun, for every way of asking for a run and any number *)
(* of texts, questions and half lines the child may write, and about       *)
(* AgentLaunch, for every configuration, tree of directories and nesting   *)
(* of launches.                                                            *)
(***************************************************************************)
EXTENDS AgentRun, AgentLaunch, FiniteSetTheorems, WellFoundedInduction, TLAPS

Result == {"success", "failure", "cancelled", "incomplete_review"}
Via == {"none", "acp", "cli"}

Runs == [at : Place, awaits : Awaited, session : BOOLEAN, submitted : BOOLEAN,
         error : [phase : Phase \cup {"none"}, submitted : BOOLEAN], broken : BOOLEAN,
         verdict : BOOLEAN, lost : BOOLEAN, fallback : BOOLEAN, via : Via,
         exit : {0, 1, 130}, cancelled : BOOLEAN, result : Result]
Agents == [state : {"none", "alive", "exited", "gone"}, heard : Awaited \cup {"none"},
           out : Seq(Line), chat : Nat]
Reports == [result : Result \cup {"none"}, via : Via, fallback : BOOLEAN, exit : {0, 1, 130}]

TypeOK ==
    /\ asked \in [transport : Transport, fallback : BOOLEAN, reviewer : BOOLEAN, auth : BOOLEAN]
    /\ run \in Runs
    /\ agent \in Agents
    /\ cancel \in BOOLEAN
    /\ handed \subseteq {"acp", "cli"}
    /\ ended \in Ending
    /\ report \in Reports

Talking == {"start", "spawn", "talk", "line"}
InSession == Talking \cup {"reap", "judge"}
Response == {"answer", "error"} \cup (Ending \ {"none"})

\* A child is there from its start to the end of the session, and only then.
ChildInPlace ==
    /\ run.at \in {"start", "spawn"} =>
         agent.state = "none" /\ agent.heard = "none" /\ agent.out = <<>>
    /\ agent.state \in {"alive", "exited"} => run.at \in {"talk", "line", "reap"}

\* One request at a time is open: there is no answer to it yet, or one, or it was read.
OneOpenRequest ==
    /\ \A i, j \in DOMAIN agent.out :
         agent.out[i] \in Response /\ agent.out[j] \in Response => i = j
    /\ agent.heard # "none" => \A i \in DOMAIN agent.out : agent.out[i] \notin Response

\* A turn ends only once it was asked for, and the line that says so says how.
EndingsTold ==
    /\ agent.heard = "prompt" => run.submitted
    /\ \A i \in DOMAIN agent.out :
         agent.out[i] \in Ending \ {"none"} => run.submitted /\ ended = agent.out[i]

\* What the runner notes of the session is so, and the note in the error with it.
SubmittedNoted ==
    /\ "acp" \in handed <=> run.submitted
    /\ run.submitted => run.awaits = "prompt"
    /\ run.at \in {"start", "spawn"} => ~run.submitted
    /\ run.at \in Talking => /\ run.session <=> run.submitted
                             /\ run.error = NoError /\ ~run.broken
    /\ run.at = "judge" => run.error # NoError
    /\ run.error # NoError => run.error.submitted = run.submitted

\* Before the command line is chosen nobody but the ACP child can have had the task, and
\* where it is chosen nobody had it.
CommandLast ==
    /\ "cli" \in handed => run.at \in {"command", "contract", "write", "returned", "raised"}
    /\ run.at = "launch" => handed = {}
    /\ run.at = "command" => handed = {"cli"}
    /\ run.at \in InSession => ~run.fallback
    /\ run.fallback => asked.transport = "auto"

\* A session that came to an end without a failure ended by the operator's cancel or by
\* the end of the turn, and says which.
TurnTaken ==
    run.at = "reap" /\ run.error = NoError /\ ~run.broken =>
        /\ run.submitted
        /\ \/ run.cancelled /\ run.exit = 130 /\ cancel
           \/ /\ agent.heard = "none"
              /\ run.cancelled <=> ended = "cancelled"
              /\ run.exit = 0 <=> ended \in {"well", "refused"}

\* The outcome that is about to be written down is the outcome there was.
OutcomeNoted ==
    /\ run.at \in InSession \cup {"launch", "command"} => run.result = "success"
    /\ run.at \in {"contract", "write"} =>
        /\ handed = {run.via}
        /\ run.exit = 0 \/ run.result = "incomplete_review" => ended \in {"well", "refused"}
        /\ run.result = "cancelled" => run.via = "acp" /\ (cancel \/ ended = "cancelled")
        /\ run.fallback => run.via = "cli"
    /\ run.at = "contract" => run.result # "incomplete_review"
    /\ run.at = "write" =>
        (asked.reviewer /\ run.result = "success" /\ run.exit = 0 => run.verdict)

\* No report before the end.
ReportLast == report # NoReport => Over

\* What is in the pipe fits what was asked.
LinesInOrder == agent \in Agents /\ OneOpenRequest /\ EndingsTold

\* The inductive invariant.
IInv ==
    /\ TypeOK /\ ChildInPlace /\ OneOpenRequest /\ EndingsTold /\ SubmittedNoted
    /\ CommandLast /\ TurnTaken /\ OutcomeNoted /\ ReportLast
    /\ TaskToOne /\ ReportTells


-----------------------------------------------------------------------------
LEMMA Words ==
    /\ Awaited \subseteq Phase /\ "none" \notin Phase
    /\ {"start", "spawn", "talk", "line", "reap", "judge", "launch", "command", "contract",
        "write", "returned", "raised"} \subseteq Place
    /\ Ending \ {"none"} \subseteq Response /\ Response \subseteq Line
PROOF BY DEF Awaited, Phase, Place, Ending, Response, Line

LEMMA InitIInv == Init => IInv
PROOF
<1> SUFFICES ASSUME Init PROVE IInv
  OBVIOUS
<1>1. TypeOK
  <2>1. asked \in [transport : Transport, fallback : BOOLEAN, reviewer : BOOLEAN, auth : BOOLEAN]
    BY RequestAssumption DEF Init
  <2>2. agent.out \in Seq(Line) /\ agent \in [state : {"none"}, heard : {"none"}, out : {<<>>}, chat : {0}]
    BY DEF Init
  <2> QED BY <2>1, <2>2 DEF Init, TypeOK, Runs, Agents, Reports, NoError, NoReport, Result, Via, Place, Awaited, Ending, Phase
<1>2. ChildInPlace /\ OneOpenRequest /\ EndingsTold
  BY DEF Init, ChildInPlace, OneOpenRequest, EndingsTold
<1>3. SubmittedNoted /\ CommandLast /\ TurnTaken /\ TaskToOne
  BY DEF Init, SubmittedNoted, CommandLast, TurnTaken, TaskToOne, InSession, Talking
<1>4. OutcomeNoted /\ ReportLast /\ ReportTells
  BY DEF Init, OutcomeNoted, ReportLast, ReportTells, ReportTruthful, TaskLeavesTrace, Over, NoReport
<1> QED BY <1>1, <1>2, <1>3, <1>4 DEF IInv

-----------------------------------------------------------------------------

\* What was read is gone, and nothing else.
LEMMA TailKeeps ==
    ASSUME TypeOK, agent.out # <<>>
    PROVE  /\ Tail(agent.out) \in Seq(Line)
           /\ 1 \in DOMAIN agent.out /\ Next1 = agent.out[1]
           /\ \A i \in DOMAIN Tail(agent.out) :
                /\ i + 1 \in DOMAIN agent.out /\ i + 1 # 1
                /\ Tail(agent.out)[i] = agent.out[i + 1]
PROOF BY DEF TypeOK, Agents, Next1

\* The child writes nothing and nothing is read.
LEMMA LinesStay ==
    ASSUME IInv, agent'.out = agent.out, agent'.heard = agent.heard, agent' \in Agents,
           run.submitted => run'.submitted, ended' = ended
    PROVE  LinesInOrder'
PROOF BY DEF IInv, LinesInOrder, OneOpenRequest, EndingsTold

\* Reading a line leaves the lines in order; a request may go out when the line was the
\* answer to the last one.
LEMMA LineRead ==
    ASSUME IInv, agent.out # <<>>, NEW h \in Awaited \cup {"none"},
           agent' = [Rest EXCEPT !.heard = h],
           h = agent.heard \/ Next1 \in Response,
           h = "prompt" => run'.submitted,
           run.submitted => run'.submitted, ended' = ended
    PROVE  LinesInOrder'
PROOF
<1> USE DEF IInv
<1>1. agent' \in Agents /\ agent'.out = Tail(agent.out) /\ agent'.heard = h
  BY TailKeeps DEF TypeOK, Agents, Rest
<1>2. \A i, j \in DOMAIN agent'.out :
        agent'.out[i] \in Response /\ agent'.out[j] \in Response => i = j
  <2> SUFFICES ASSUME NEW i \in DOMAIN agent'.out, NEW j \in DOMAIN agent'.out,
                      agent'.out[i] \in Response, agent'.out[j] \in Response
               PROVE  i = j
    OBVIOUS
  <2>1. i + 1 = j + 1
    BY <1>1, TailKeeps, ZenonT(60) DEF OneOpenRequest
  <2>2. i \in Nat /\ j \in Nat
    BY <1>1 DEF Agents
  <2> QED BY <2>1, <2>2
<1>3. ASSUME h # "none", NEW i \in DOMAIN agent'.out PROVE agent'.out[i] \notin Response
  BY <1>1, <1>3, TailKeeps DEF OneOpenRequest
<1>4. OneOpenRequest'
  BY <1>1, <1>2, <1>3 DEF OneOpenRequest
<1>5. EndingsTold'
  <2>1. agent'.heard = "prompt" => run'.submitted
    BY <1>1
  <2>2. ASSUME NEW i \in DOMAIN agent'.out, agent'.out[i] \in Ending \ {"none"}
        PROVE  run'.submitted /\ ended' = agent'.out[i]
    BY <1>1, <2>2, TailKeeps DEF EndingsTold
  <2> QED BY <2>1, <2>2 DEF EndingsTold
<1> QED BY <1>1, <1>4, <1>5 DEF LinesInOrder

\* Reading a line and sending nothing.
LEMMA LineReadOnly ==
    ASSUME IInv, agent.out # <<>>, agent' = Rest, run'.submitted = run.submitted, ended' = ended
    PROVE  LinesInOrder' /\ agent'.state = agent.state
PROOF
<1>1. agent.heard \in Awaited \cup {"none"} /\ agent' = [Rest EXCEPT !.heard = agent.heard]
  BY DEF IInv, TypeOK, Agents, Rest
<1>2. agent.heard = "prompt" => run'.submitted
  BY DEF IInv, EndingsTold
<1>3. agent'.state = agent.state
  BY DEF IInv, TypeOK, Agents, Rest
<1> QED BY <1>1, <1>2, <1>3, LineRead

\* The child writes a line.
LEMMA LineWritten ==
    ASSUME IInv, NEW line \in Line, NEW h \in {agent.heard, "none"}, NEW n \in Nat,
           agent' = [agent EXCEPT !.out = Append(@, line), !.heard = h, !.chat = n],
           run' = run,
           line \in Response => agent.heard # "none" /\ h = "none",
           line \in Ending \ {"none"} => run.submitted /\ ended' = line,
           ended' = ended \/ agent.heard = "prompt"
    PROVE  LinesInOrder' /\ agent'.state = agent.state
PROOF
<1> USE DEF IInv
<1>1. agent' \in Agents /\ agent'.out = Append(agent.out, line) /\ agent'.heard = h
      /\ agent'.state = agent.state
  <2>1. Append(agent.out, line) \in Seq(Line) /\ h \in Awaited \cup {"none"}
    BY DEF TypeOK, Agents
  <2> QED BY <2>1 DEF TypeOK, Agents
<1>2. /\ DOMAIN agent'.out = 1..(Len(agent.out) + 1) /\ DOMAIN agent.out = 1..Len(agent.out)
      /\ Len(agent.out) \in Nat
      /\ \A i \in DOMAIN agent.out : agent'.out[i] = agent.out[i]
      /\ agent'.out[Len(agent.out) + 1] = line
  BY <1>1 DEF TypeOK, Agents
<1>3. OneOpenRequest'
  BY <1>1, <1>2 DEF OneOpenRequest
<1>4. EndingsTold'
  <2>1. agent'.heard = "prompt" => run'.submitted
    BY <1>1 DEF EndingsTold
  <2>2. ASSUME NEW i \in DOMAIN agent'.out, agent'.out[i] \in Ending \ {"none"}
        PROVE  run'.submitted /\ ended' = agent'.out[i]
    <3>1. CASE i = Len(agent.out) + 1
      BY <1>2, <2>2, <3>1
    <3>2. CASE i \in DOMAIN agent.out
      <4>1. agent.out[i] \in Response /\ agent'.out[i] = agent.out[i]
        BY <1>2, <2>2, <3>2, Words
      <4>2. ended' = ended
        BY <4>1, <3>2 DEF OneOpenRequest
      <4> QED BY <2>2, <3>2, <4>1, <4>2 DEF EndingsTold
    <3> QED BY <1>2, <2>2, <3>1, <3>2
  <2> QED BY <2>1, <2>2 DEF EndingsTold
<1> QED BY <1>1, <1>3, <1>4 DEF LinesInOrder

-----------------------------------------------------------------------------
(***************************************************************************)
(* What the steps of a session have in common.                             *)
(***************************************************************************)
\* The parts of the invariant that a step of the session does not touch.
LEMMA SessionStep ==
    ASSUME IInv, Keep, LinesInOrder', run' \in Runs, handed' \subseteq {"acp"},
           run.at \in Talking, run'.at \in InSession,
           run'.fallback = run.fallback, run'.result = run.result,
           SubmittedNoted', ChildInPlace', TurnTaken'
    PROVE  IInv'
PROOF
<1> USE DEF IInv, Keep
<1>1. TypeOK'
  BY DEF TypeOK, LinesInOrder
<1>2. CommandLast'
  BY DEF CommandLast, InSession, Talking
<1>3. OutcomeNoted'
  BY DEF OutcomeNoted, InSession, Talking
<1>4. ReportLast' /\ ReportTells'
  BY DEF ReportLast, ReportTells, ReportTruthful, TaskLeavesTrace, Over, InSession, Talking
<1>5. TaskToOne'
  BY DEF TaskToOne
<1> QED BY <1>1, <1>2, <1>3, <1>4, <1>5 DEF LinesInOrder

LEMMA NobodyElse == ASSUME IInv, run.at \in Talking PROVE handed \subseteq {"acp"}
PROOF BY DEF IInv, TypeOK, CommandLast, Talking

\* The session goes on.
LEMMA TalkOn ==
    ASSUME IInv, Keep, UNCHANGED handed, LinesInOrder', run' \in Runs,
           run.at \in Talking, run'.at \in {"spawn", "talk", "line"},
           run'.at = "spawn" => run.at = "start" /\ UNCHANGED agent,
           run'.awaits = run.awaits, run'.session = run.session,
           run'.submitted = run.submitted, run'.error = run.error, run'.broken = run.broken,
           run'.fallback = run.fallback, run'.result = run.result
    PROVE  IInv'
PROOF
<1>1. SubmittedNoted'
  BY DEF IInv, SubmittedNoted, Talking
<1>2. ChildInPlace'
  BY DEF IInv, ChildInPlace
<1>3. TurnTaken'
  BY DEF TurnTaken
<1>4. run'.at \in InSession
  BY DEF InSession, Talking
<1> QED BY <1>1, <1>2, <1>3, <1>4, NobodyElse, SessionStep

\* The session fails.
LEMMA FailureStep ==
    ASSUME IInv, Keep, UNCHANGED handed, LinesInOrder', agent'.state = agent.state,
           NEW phase \in Phase, NEW to \in {"reap", "judge"}, Failure(phase, to),
           run.at \in IF to = "judge" THEN {"start", "spawn"} ELSE {"talk", "line"}
    PROVE  IInv'
PROOF
<1>0. run \in Runs /\ to \in Place
      /\ [phase |-> phase, submitted |-> run.submitted]
           \in [phase : Phase \cup {"none"}, submitted : BOOLEAN]
  BY Words DEF IInv, TypeOK, Runs
<1>1. /\ run' \in Runs /\ run'.at = to /\ run'.awaits = run.awaits
      /\ run'.submitted = run.submitted
      /\ run'.error = [phase |-> phase, submitted |-> run.submitted]
      /\ run'.fallback = run.fallback /\ run'.result = run.result
  BY <1>0 DEF Runs, Failure
<1>2. run'.error # NoError /\ run.at \in Talking /\ run'.at \in InSession
  BY <1>1, Words DEF NoError, InSession, Talking
<1>3. SubmittedNoted'
  BY <1>1, <1>2 DEF IInv, SubmittedNoted, Talking
<1>4. ChildInPlace'
  BY <1>1 DEF IInv, ChildInPlace
<1>5. TurnTaken'
  BY <1>2 DEF TurnTaken
<1> QED BY <1>1, <1>2, <1>3, <1>4, <1>5, NobodyElse, SessionStep

\* The session breaks off with what nobody handles.
LEMMA BreakStep ==
    ASSUME IInv, Keep, UNCHANGED handed, LinesInOrder', run' \in Runs,
           run.at \in {"spawn", "talk", "line"}, run'.at = "reap", run'.broken,
           run'.awaits = run.awaits, run'.submitted = run.submitted, run'.error = run.error,
           run'.fallback = run.fallback, run'.result = run.result
    PROVE  IInv'
PROOF
<1>1. SubmittedNoted'
  BY DEF IInv, SubmittedNoted, Talking
<1>2. ChildInPlace'
  BY DEF IInv, ChildInPlace
<1>3. TurnTaken'
  BY DEF TurnTaken
<1>4. run.at \in Talking /\ run'.at \in InSession
  BY DEF InSession, Talking
<1> QED BY <1>1, <1>2, <1>3, <1>4, NobodyElse, SessionStep

-----------------------------------------------------------------------------
(***************************************************************************)
(* The steps of the runner.                                                *)
(***************************************************************************)
LEMMA BeginStep == ASSUME IInv, Begin PROVE IInv'
PROOF
<1>1. LinesInOrder' /\ agent' \in Agents
  <2>1. run'.submitted = run.submitted /\ agent' = agent /\ ended' = ended
    BY ZenonT(60) DEF IInv, TypeOK, Runs, Begin, Go, Failure, Keep
  <2> QED BY <2>1, LinesStay DEF IInv, TypeOK
<1>2. CASE Failure("probe", "judge")
  BY <1>1, <1>2, FailureStep DEF Begin, Phase
<1>3. CASE Go("spawn")
  BY <1>1, <1>3, TalkOn, Words DEF Begin, Go, Talking, IInv, TypeOK, Runs
<1>4. CASE Go("launch")
  <2>1. /\ run' \in Runs /\ run'.at = "launch" /\ run'.submitted = run.submitted
        /\ run'.awaits = run.awaits /\ run'.error = run.error /\ run'.fallback = run.fallback
        /\ run'.result = run.result
    BY <1>4, Words DEF Go, IInv, TypeOK, Runs
  <2>2. run.at = "start" /\ UNCHANGED <<agent, handed, asked, cancel, ended, report>>
    BY DEF Begin, Keep
  <2>3. TypeOK'
    BY <2>1, <2>2 DEF IInv, TypeOK
  <2>4. ChildInPlace' /\ SubmittedNoted' /\ TurnTaken'
    BY <2>1, <2>2 DEF IInv, ChildInPlace, SubmittedNoted, TurnTaken, Talking
  <2>5. CommandLast'
    BY <2>1, <2>2 DEF IInv, TypeOK, SubmittedNoted, CommandLast, InSession, Talking
  <2>6. OutcomeNoted' /\ ReportLast' /\ ReportTells'
    BY <2>1, <2>2 DEF IInv, OutcomeNoted, ReportLast, ReportTells, ReportTruthful,
                      TaskLeavesTrace, Over, InSession, Talking
  <2>7. TaskToOne'
    BY <2>2 DEF IInv, TaskToOne
  <2> QED BY <1>1, <2>3, <2>4, <2>5, <2>6, <2>7 DEF IInv, LinesInOrder
<1> QED BY <1>2, <1>3, <1>4 DEF Begin

LEMMA SpawnStep == ASSUME IInv, Spawn PROVE IInv'
PROOF
<1>1. /\ run \in Runs /\ agent \in Agents /\ run.at = "spawn" /\ agent.out = <<>>
      /\ ~run.submitted
  BY DEF IInv, TypeOK, ChildInPlace, SubmittedNoted, Spawn
<1>2. CASE Failure("runtime", "judge") /\ UNCHANGED agent
  <2>1. LinesInOrder'
    BY <1>1, <1>2, LinesStay DEF Runs, Failure, Spawn, Keep
  <2> QED BY <1>1, <1>2, <2>1, FailureStep DEF Spawn, Phase
<1>3. CASE Go("talk") /\ agent' = [agent EXCEPT !.state = "alive", !.heard = "initialize"]
  <2>1. agent' \in Agents /\ agent'.out = <<>> /\ agent'.heard = "initialize"
    BY <1>1, <1>3 DEF Agents, Awaited
  <2>2. LinesInOrder'
    BY <2>1 DEF LinesInOrder, OneOpenRequest, EndingsTold
  <2>3. /\ run' \in Runs /\ run'.at = "talk" /\ run'.awaits = run.awaits
        /\ run'.session = run.session /\ run'.submitted = run.submitted
        /\ run'.error = run.error /\ run'.broken = run.broken
        /\ run'.fallback = run.fallback /\ run'.result = run.result
    BY <1>1, <1>3, Words DEF Go, Runs
  <2> QED BY <1>1, <2>2, <2>3, TalkOn DEF Spawn, Talking
<1>4. CASE Break /\ agent' = [agent EXCEPT !.state = "exited"]
  <2>1. agent' \in Agents /\ agent'.out = agent.out /\ agent'.heard = agent.heard
    BY <1>1, <1>4 DEF Agents
  <2>2. /\ run' \in Runs /\ run'.at = "reap" /\ run'.broken /\ run'.awaits = run.awaits
        /\ run'.submitted = run.submitted /\ run'.error = run.error
        /\ run'.fallback = run.fallback /\ run'.result = run.result
    BY <1>1, <1>4, Words DEF Break, Runs
  <2>3. LinesInOrder'
    BY <2>1, <2>2, LinesStay DEF Spawn, Keep
  <2> QED BY <1>1, <2>2, <2>3, BreakStep DEF Spawn
<1> QED BY <1>2, <1>3, <1>4 DEF Spawn

LEMMA SendCancelStep == ASSUME IInv, SendCancel PROVE IInv'
PROOF
<1>1. /\ run.at = "talk" /\ cancel /\ run.session /\ run \in Runs
      /\ UNCHANGED <<agent, handed, asked, cancel, ended, report>>
  BY DEF SendCancel, Cancels, Keep, IInv, TypeOK
<1>2. /\ run' \in Runs /\ run'.at = "reap" /\ run'.cancelled /\ run'.exit = 130
      /\ run'.submitted = run.submitted /\ run'.awaits = run.awaits /\ run'.error = run.error
      /\ run'.fallback = run.fallback /\ run'.result = run.result
  BY <1>1, Words, ZenonT(60) DEF SendCancel, Runs
<1>3. LinesInOrder'
  BY <1>1, <1>2, LinesStay DEF IInv, TypeOK
<1>4. SubmittedNoted' /\ ChildInPlace' /\ TurnTaken'
  BY <1>1, <1>2 DEF IInv, SubmittedNoted, ChildInPlace, TurnTaken, Talking
<1>5. run.at \in Talking /\ run'.at \in InSession
  BY <1>1, <1>2 DEF Talking, InSession
<1> QED BY <1>1, <1>2, <1>3, <1>4, <1>5, NobodyElse, SessionStep DEF Keep

\* The next request of the handshake, or the prompt.
LEMMA AskStep ==
    ASSUME IInv, Keep, Reads("answer"), NEW request \in {"authenticate", "session", "prompt"},
           run.submitted => request = "prompt", Ask(request)
    PROVE  IInv'
PROOF
<1>1. /\ run.at = "talk" /\ agent.out # <<>> /\ Next1 \in Response
      /\ run \in Runs /\ agent \in Agents /\ ended' = ended
  BY DEF Reads, Response, IInv, TypeOK, Keep
<1>2. CASE agent.state = "alive"
  <2>1. /\ run' \in Runs /\ run'.at = "talk" /\ run'.awaits = request
        /\ run'.session <=> run.session \/ request = "prompt"
        /\ run'.submitted <=> run.submitted \/ request = "prompt"
        /\ run'.error = run.error /\ run'.broken = run.broken
        /\ run'.fallback = run.fallback /\ run'.result = run.result
    <3>1. PICK session \in BOOLEAN, submitted \in BOOLEAN :
            /\ session <=> run.session \/ request = "prompt"
            /\ submitted <=> run.submitted \/ request = "prompt"
            /\ run' = [run EXCEPT !.awaits = request, !.session = session, !.submitted = submitted]
      <4>1. CASE request = "prompt"
        BY <1>1, <1>2, <4>1 DEF Ask, Runs
      <4>2. CASE request # "prompt"
        <5>1. run' = [run EXCEPT !.awaits = request, !.session = run.session, !.submitted = run.submitted]
          BY <1>1, <1>2, <4>2 DEF Ask, Runs
        <5> QED BY <1>1, <4>2, <5>1 DEF Runs
      <4> QED BY <4>1, <4>2
    <3> QED BY <1>1, <3>1, ZenonT(90) DEF Runs, Awaited
  <2>2. LinesInOrder'
    BY <1>1, <1>2, <2>1, LineRead DEF Ask, Awaited
  <2>3. handed' = IF request = "prompt" THEN handed \cup {"acp"} ELSE handed
    BY <1>2 DEF Ask
  <2>4. run.at \in Talking /\ run'.at \in InSession
    BY <1>1, <2>1 DEF Talking, InSession
  <2>5. SubmittedNoted'
    BY <2>1, <2>3, <2>4 DEF IInv, SubmittedNoted, Talking
  <2>6. ChildInPlace' /\ TurnTaken'
    BY <2>1 DEF ChildInPlace, TurnTaken
  <2>7. handed' \subseteq {"acp"}
    BY <2>3, <2>4, NobodyElse
  <2> QED BY <2>1, <2>2, <2>4, <2>5, <2>6, <2>7, SessionStep
<1>3. CASE agent.state # "alive"
  <2>1. /\ run' \in Runs /\ run'.at = "reap" /\ run'.broken /\ run'.awaits = run.awaits
        /\ run'.submitted = run.submitted /\ run'.error = run.error
        /\ run'.fallback = run.fallback /\ run'.result = run.result
    <3>1. CASE request = "prompt"
      <4>1. run' = [run EXCEPT !.at = "reap", !.broken = TRUE, !.session = TRUE]
        BY <1>1, <1>3, <3>1 DEF Ask, Runs
      <4> QED BY <1>1, <4>1, Words DEF Runs
    <3>2. CASE request # "prompt"
      <4>1. run' = [run EXCEPT !.at = "reap", !.broken = TRUE, !.session = run.session]
        BY <1>1, <1>3, <3>2 DEF Ask, Runs
      <4> QED BY <1>1, <4>1, Words DEF Runs
    <3> QED BY <3>1, <3>2
  <2>2. agent' = Rest /\ UNCHANGED handed
    BY <1>3 DEF Ask
  <2> QED BY <1>1, <2>1, <2>2, LineReadOnly, BreakStep
<1> QED BY <1>2, <1>3

LEMMA AnsweredStep == ASSUME IInv, Answered PROVE IInv'
PROOF
<1>1. Reads("answer") /\ Keep /\ run.at = "talk" /\ agent.out # <<>>
  BY DEF Answered, Reads
<1>2. /\ run.submitted => run.awaits = "prompt"
      /\ run.awaits \in {"initialize", "authenticate", "session", "prompt"}
      /\ run.submitted \in BOOLEAN
  BY DEF IInv, SubmittedNoted, TypeOK, Runs, Awaited
<1>3. CASE \E request \in {"authenticate", "session", "prompt"} :
             Ask(request) /\ (run.submitted => request = "prompt")
  BY <1>1, <1>3, AskStep
<1>4. CASE /\ run.awaits = "session"
           /\ run' = [run EXCEPT !.at = "reap",
                                 !.error = [phase |-> "session", submitted |-> FALSE]]
           /\ agent' = Rest /\ UNCHANGED handed
  <2>1. ~run.submitted /\ "session" \in Phase
    BY <1>2, <1>4 DEF Phase
  <2>2. Failure("session", "reap")
    BY <1>2, <1>4, <2>1 DEF Failure
  <2>3. run'.submitted = run.submitted /\ ended' = ended
    BY <1>1, <1>4 DEF Keep, IInv, TypeOK, Runs
  <2> QED BY <1>1, <1>4, <2>1, <2>2, <2>3, LineReadOnly, FailureStep
<1>5. \/ \E request \in {"authenticate", "session", "prompt"} :
            Ask(request) /\ (run.submitted => request = "prompt")
      \/ /\ run.awaits = "session"
         /\ run' = [run EXCEPT !.at = "reap",
                               !.error = [phase |-> "session", submitted |-> FALSE]]
         /\ agent' = Rest /\ UNCHANGED handed
  <2>1. CASE Ask(CASE run.awaits = "initialize" -> IF asked.auth THEN "authenticate" ELSE "session"
                   [] run.awaits = "authenticate" -> "session"
                   [] OTHER -> "prompt")
    <3>1. PICK request \in {"authenticate", "session", "prompt"} :
            /\ request = CASE run.awaits = "initialize" -> IF asked.auth THEN "authenticate" ELSE "session"
                           [] run.awaits = "authenticate" -> "session"
                           [] OTHER -> "prompt"
            /\ run.submitted => request = "prompt"
      BY <1>2
    <3>2. Ask(request)
      BY <2>1, <3>1
    <3> QED BY <3>1, <3>2
  <2> QED BY <2>1 DEF Answered
<1> QED BY <1>3, <1>4, <1>5

LEMMA RefusedStep == ASSUME IInv, Refused PROVE IInv'
PROOF
<1>1. /\ run.at = "talk" /\ agent.out # <<>> /\ Failure(run.awaits, "reap") /\ agent' = Rest
      /\ UNCHANGED handed /\ Keep /\ run.awaits \in Phase
  BY Words DEF Refused, Reads, IInv, TypeOK, Runs
<1>2. run'.submitted = run.submitted /\ ended' = ended
  BY <1>1 DEF Failure, Keep, IInv, TypeOK, Runs
<1> QED BY <1>1, <1>2, LineReadOnly, FailureStep

LEMMA GarbledStep == ASSUME IInv, Garbled PROVE IInv'
PROOF
<1>1. /\ run.at = "talk" /\ agent.out # <<>> /\ Failure("protocol", "reap") /\ agent' = Rest
      /\ UNCHANGED handed /\ Keep /\ "protocol" \in Phase
  BY DEF Garbled, Reads, Phase
<1>2. run'.submitted = run.submitted /\ ended' = ended
  BY <1>1 DEF Failure, Keep, IInv, TypeOK, Runs
<1> QED BY <1>1, <1>2, LineReadOnly, FailureStep

\* Where the run stands, and what it knows of its prompt, is not in a text.
LEMMA TextStep == ASSUME IInv, Text PROVE IInv'
PROOF
<1>1. /\ run.at = "talk" /\ agent.out # <<>> /\ agent' = Rest /\ UNCHANGED handed /\ Keep
      /\ ended' = ended
      /\ run' = run \/ run' = [run EXCEPT !.verdict = TRUE]
  BY DEF Text, Reads, Keep
<1>2. /\ run' \in Runs /\ run'.at = run.at /\ run'.awaits = run.awaits
      /\ run'.session = run.session /\ run'.submitted = run.submitted
      /\ run'.error = run.error /\ run'.broken = run.broken
      /\ run'.fallback = run.fallback /\ run'.result = run.result
  <2>1. CASE run' = run
    BY <2>1 DEF IInv, TypeOK
  <2>2. CASE run' = [run EXCEPT !.verdict = TRUE]
    BY <2>2 DEF IInv, TypeOK, Runs
  <2> QED BY <1>1, <2>1, <2>2
<1>3. run.at \in Talking
  BY <1>1 DEF Talking
<1> QED BY <1>1, <1>2, <1>3, LineReadOnly, TalkOn

LEMMA AnswerPermissionStep == ASSUME IInv, AnswerPermission PROVE IInv'
PROOF
<1>1. /\ run.at = "talk" /\ agent.out # <<>> /\ agent' = Rest /\ UNCHANGED handed /\ Keep
      /\ ended' = ended /\ run \in Runs
      /\ run' = run \/ Break
  BY DEF AnswerPermission, Reads, Keep, IInv, TypeOK
<1>2. run.at \in Talking
  BY <1>1 DEF Talking
<1>3. CASE run' = run
  BY <1>1, <1>2, <1>3, LineReadOnly, TalkOn
<1>4. CASE Break
  <2>1. /\ run' \in Runs /\ run'.at = "reap" /\ run'.broken /\ run'.awaits = run.awaits
        /\ run'.submitted = run.submitted /\ run'.error = run.error
        /\ run'.fallback = run.fallback /\ run'.result = run.result
    BY <1>1, <1>4, Words DEF Break, Runs
  <2> QED BY <1>1, <2>1, LineReadOnly, BreakStep
<1> QED BY <1>1, <1>3, <1>4

LEMMA TurnOverStep == ASSUME IInv, TurnOver PROVE IInv'
PROOF
<1>1. PICK end \in Ending \ {"none"} :
        /\ Reads(end)
        /\ run' = [run EXCEPT !.at = "reap", !.cancelled = (end = "cancelled"),
                     !.exit = CASE end = "cancelled" -> 130 [] end = "failed" -> 1 [] OTHER -> 0]
  BY DEF TurnOver
<1>2. /\ run.at = "talk" /\ agent.out # <<>> /\ Next1 = end /\ agent' = Rest
      /\ UNCHANGED handed /\ Keep /\ ended' = ended
      /\ run \in Runs /\ end \in {"well", "failed", "cancelled", "refused"}
  BY <1>1 DEF TurnOver, Reads, Keep, IInv, TypeOK, Ending
<1>3. /\ run' \in Runs /\ run'.at = "reap" /\ run'.submitted = run.submitted
      /\ run'.awaits = run.awaits /\ run'.error = run.error
      /\ run'.fallback = run.fallback /\ run'.result = run.result
      /\ run'.cancelled <=> end = "cancelled"
      /\ run'.exit = 0 <=> end \in {"well", "refused"}
  <2>1. PICK n \in {0, 1, 130} :
          /\ n = 0 <=> end \in {"well", "refused"}
          /\ n = CASE end = "cancelled" -> 130 [] end = "failed" -> 1 [] OTHER -> 0
    BY <1>2
  <2>2. PICK b \in BOOLEAN : b = (end = "cancelled")
    OBVIOUS
  <2>3. run' = [run EXCEPT !.at = "reap", !.cancelled = b, !.exit = n]
    BY <1>1, <2>1, <2>2
  <2>4. b <=> end = "cancelled"
    BY <2>2
  <2>5. "reap" \in Place
    BY Words
  <2>6. run' \in Runs
    BY <1>2, <2>3, <2>5, ZenonT(60) DEF Runs
  <2>7. run'.cancelled = b /\ run'.exit = n
    BY <1>2, <2>3 DEF Runs
  <2>8. /\ run'.at = "reap" /\ run'.submitted = run.submitted
        /\ run'.awaits = run.awaits /\ run'.error = run.error
        /\ run'.fallback = run.fallback /\ run'.result = run.result
    BY <1>2, <2>3 DEF Runs
  <2> QED BY <2>1, <2>4, <2>6, <2>7, <2>8
<1>4. LinesInOrder' /\ agent'.heard = agent.heard
  BY <1>2, <1>3, LineReadOnly DEF Rest, IInv, TypeOK, Agents
<1>5. run.submitted /\ ended = end /\ agent.heard = "none"
  BY <1>2, TailKeeps, Words DEF IInv, EndingsTold, OneOpenRequest
<1>6. TurnTaken'
  BY <1>2, <1>3, <1>4, <1>5 DEF TurnTaken
<1>7. SubmittedNoted' /\ ChildInPlace'
  BY <1>2, <1>3 DEF IInv, SubmittedNoted, ChildInPlace, Talking
<1>8. run.at \in Talking /\ run'.at \in InSession
  BY <1>2, <1>3 DEF Talking, InSession
<1> QED BY <1>2, <1>3, <1>4, <1>6, <1>7, <1>8, NobodyElse, SessionStep

LEMMA HalfLineStep == ASSUME IInv, HalfLine \/ LineComes PROVE IInv'
PROOF
<1>1. /\ run.at \in {"talk", "line"} /\ run.at \in Talking /\ UNCHANGED handed /\ Keep
      /\ ended' = ended /\ run \in Runs
      /\ Go("line") \/ Go("talk")
      /\ agent' = agent \/ (agent.out # <<>> /\ agent' = Rest)
  BY DEF HalfLine, LineComes, Reads, Keep, Talking, IInv, TypeOK
<1>2. /\ run' \in Runs /\ run'.at \in {"talk", "line"} /\ run'.awaits = run.awaits
      /\ run'.session = run.session /\ run'.submitted = run.submitted
      /\ run'.error = run.error /\ run'.broken = run.broken
      /\ run'.fallback = run.fallback /\ run'.result = run.result
  <2>1. CASE Go("line")
    BY <1>1, <2>1, Words DEF Go, Runs
  <2>2. CASE Go("talk")
    BY <1>1, <2>2, Words DEF Go, Runs
  <2> QED BY <1>1, <2>1, <2>2
<1>3. LinesInOrder'
  BY <1>1, <1>2, LinesStay, LineReadOnly DEF IInv, TypeOK
<1> QED BY <1>1, <1>2, <1>3, TalkOn

LEMMA CutStep == ASSUME IInv, LineCut \/ Silence PROVE IInv'
PROOF
<1>1. PICK phase \in {"runtime", "protocol"} : Failure(phase, "reap")
  BY DEF LineCut, Silence
<1>2. /\ run.at \in {"talk", "line"} /\ UNCHANGED <<agent, handed>> /\ Keep
      /\ phase \in Phase /\ ended' = ended
  BY DEF LineCut, Silence, Keep, Phase
<1>3. run'.submitted = run.submitted
  BY <1>1 DEF Failure, IInv, TypeOK, Runs
<1>4. LinesInOrder'
  BY <1>2, <1>3, LinesStay DEF IInv, TypeOK
<1> QED BY <1>1, <1>2, <1>4, FailureStep

\* After the session: the lines in the pipe are of no concern any more.
LEMMA RunStep ==
    ASSUME IInv, UNCHANGED <<asked, agent, cancel>>, run' \in Runs,
           run'.submitted = run.submitted, run'.awaits = run.awaits, run'.error = run.error,
           run.at \notin Talking, run'.at \notin InSession, agent.state \notin {"alive", "exited"},
           ~run.submitted \/ ended' = ended, ended' \in Ending,
           handed' = handed \/ (handed = {} /\ handed' = {"cli"}), report' \in Reports,
           CommandLast', OutcomeNoted', ReportLast', ReportTells'
    PROVE  IInv'
PROOF
<1> USE DEF IInv
<1>1. TypeOK'
  BY DEF TypeOK
<1>2. ChildInPlace'
  BY DEF ChildInPlace, InSession, Talking
<1>3. OneOpenRequest' /\ EndingsTold'
  BY DEF OneOpenRequest, EndingsTold
<1>4. SubmittedNoted'
  BY DEF SubmittedNoted, InSession, Talking
<1>5. TurnTaken'
  BY DEF TurnTaken, InSession
<1>6. TaskToOne'
  BY DEF TaskToOne
<1> QED BY <1>1, <1>2, <1>3, <1>4, <1>5, <1>6

LEMMA ReapStep == ASSUME IInv, Reap PROVE IInv'
PROOF
<1> USE DEF IInv
<1>1. /\ run.at = "reap" /\ run \in Runs /\ agent \in Agents
      /\ UNCHANGED <<handed, asked, cancel, ended, report>>
      /\ handed \subseteq {"acp"} /\ ~run.fallback /\ run.result = "success"
      /\ report = NoReport
  BY DEF Reap, Keep, TypeOK, CommandLast, OutcomeNoted, ReportLast, Over, InSession, Talking
<1>2. agent' \in Agents /\ agent'.state = "gone" /\ agent'.out = agent.out /\ agent'.heard = agent.heard
  BY <1>1 DEF Reap, Agents
<1>3. CASE run.broken /\ Go("raised")
  <2>1. /\ run' \in Runs /\ run'.at = "raised" /\ run'.submitted = run.submitted
        /\ run'.awaits = run.awaits /\ run'.error = run.error /\ run'.broken
        /\ run'.fallback = run.fallback
    BY <1>1, <1>3, Words DEF Go, Runs
  <2>2. LinesInOrder'
    BY <1>1, <1>2, <2>1, LinesStay
  <2>3. TypeOK' /\ ChildInPlace' /\ SubmittedNoted' /\ CommandLast' /\ TurnTaken'
    BY <1>1, <1>2, <2>1 DEF TypeOK, ChildInPlace, SubmittedNoted, CommandLast, TurnTaken,
                            InSession, Talking
  <2>4. OutcomeNoted' /\ ReportLast' /\ ReportTells'
    BY <1>1, <2>1 DEF OutcomeNoted, ReportLast, ReportTells, ReportTruthful, TaskLeavesTrace,
                      Over, InSession, Talking
  <2> QED BY <1>1, <2>2, <2>3, <2>4 DEF LinesInOrder, TaskToOne
<1>4. CASE run.error # NoError /\ Go("judge")
  <2>1. /\ run' \in Runs /\ run'.at = "judge" /\ run'.submitted = run.submitted
        /\ run'.awaits = run.awaits /\ run'.error = run.error
        /\ run'.fallback = run.fallback /\ run'.result = run.result
    BY <1>1, <1>4, Words DEF Go, Runs
  <2>2. LinesInOrder'
    BY <1>1, <1>2, <2>1, LinesStay
  <2>3. TypeOK' /\ ChildInPlace' /\ CommandLast' /\ TurnTaken'
    BY <1>1, <1>2, <2>1 DEF TypeOK, ChildInPlace, CommandLast, TurnTaken, InSession, Talking
  <2>5. SubmittedNoted'
    BY <1>1, <1>4, <2>1 DEF SubmittedNoted, Talking
  <2>4. OutcomeNoted' /\ ReportLast' /\ ReportTells'
    BY <1>1, <2>1 DEF OutcomeNoted, ReportLast, ReportTells, ReportTruthful, TaskLeavesTrace,
                      Over, InSession, Talking
  <2> QED BY <1>1, <2>2, <2>3, <2>4, <2>5 DEF LinesInOrder, TaskToOne
<1>5. CASE ~run.broken /\ run.error = NoError
  <2>1. PICK result \in {"cancelled", "failure", "success"} :
          /\ result = IF run.cancelled THEN "cancelled"
                      ELSE IF run.exit # 0 THEN "failure" ELSE "success"
          /\ result = "cancelled" <=> run.cancelled
    <3>1. CASE run.cancelled
      BY <3>1
    <3>2. CASE ~run.cancelled
      BY <3>2
    <3> QED BY <3>1, <3>2
  <2>2. run' = [run EXCEPT !.at = "contract", !.via = "acp", !.result = result]
    BY <1>5, <2>1 DEF Reap
  <2>3. result \in Result /\ "acp" \in Via /\ "contract" \in Place
    BY Words DEF Result, Via
  <2>4. /\ run' \in Runs /\ run'.at = "contract" /\ run'.submitted = run.submitted
        /\ run'.awaits = run.awaits /\ run'.error = run.error
        /\ run'.fallback = run.fallback /\ run'.result = result /\ run'.via = "acp"
        /\ run'.exit = run.exit
    BY <1>1, <2>2, <2>3 DEF Runs
  <2>5. handed = {"acp"}
    BY <1>1, <1>5 DEF TurnTaken, SubmittedNoted
  <2>6. LinesInOrder'
    BY <1>1, <1>2, <2>4, LinesStay
  <2>7. TypeOK' /\ ChildInPlace' /\ SubmittedNoted' /\ CommandLast' /\ TurnTaken'
    BY <1>1, <1>2, <2>4 DEF TypeOK, ChildInPlace, SubmittedNoted, CommandLast, TurnTaken,
                            InSession, Talking
  <2>8. OutcomeNoted'
    <3>1. run.exit = 0 => ended \in {"well", "refused"}
      BY <1>1, <1>5 DEF TurnTaken
    <3>2. run.cancelled => cancel \/ ended = "cancelled"
      BY <1>1, <1>5 DEF TurnTaken
    <3> QED BY <1>1, <2>1, <2>4, <2>5, <3>1, <3>2 DEF OutcomeNoted, InSession, Talking
  <2>9. ReportLast' /\ ReportTells'
    BY <1>1, <2>4 DEF ReportLast, ReportTells, ReportTruthful, TaskLeavesTrace, Over
  <2> QED BY <1>1, <2>6, <2>7, <2>8, <2>9 DEF LinesInOrder, TaskToOne
<1> QED BY <1>3, <1>4, <1>5 DEF Reap

\* Writing the report down, or failing to.
LEMMA PersistStep ==
    ASSUME IInv, UNCHANGED <<asked, agent, cancel, handed, ended>>,
           NEW at \in {"returned", "raised"}, NEW r \in Reports, Persist(at, r),
           run.at \notin Talking, agent.state \notin {"alive", "exited"}, report = NoReport,
           r.via \in handed \/ handed = {},
           r.result \in {"success", "incomplete_review"} =>
             handed = {r.via} /\ ended \in {"well", "refused"},
           r.result = "success" => r.exit = 0 /\ (asked.reviewer => run.verdict),
           r.result = "cancelled" =>
             r.via = "acp" /\ "acp" \in handed /\ (cancel \/ ended = "cancelled"),
           r.fallback => r.via = "cli" /\ asked.transport = "auto"
    PROVE  IInv'
PROOF
<1>1. /\ run' \in Runs /\ run'.at = at /\ run'.submitted = run.submitted
      /\ run'.awaits = run.awaits /\ run'.error = run.error
      /\ run'.fallback = run.fallback /\ run'.verdict = run.verdict
      /\ run'.lost \/ report' = r
      /\ report' \in {r, report}
  <2>1. at \in Place
    BY Words
  <2>2. CASE report' = r /\ run' = [run EXCEPT !.at = at]
    BY <2>1, <2>2 DEF IInv, TypeOK, Runs
  <2>3. CASE report' = report /\ run' = [run EXCEPT !.at = at, !.lost = TRUE]
    BY <2>1, <2>3, ZenonT(60) DEF IInv, TypeOK, Runs
  <2> QED BY <2>2, <2>3 DEF Persist, Go
<1>2. CommandLast'
  BY <1>1 DEF IInv, CommandLast, InSession, Talking
<1>3. OutcomeNoted' /\ ReportLast'
  BY <1>1 DEF OutcomeNoted, ReportLast, Over, InSession, Talking
<1>4. ReportTruthful'
  BY <1>1 DEF ReportTruthful
<1>5. TaskLeavesTrace'
  BY <1>1 DEF TaskLeavesTrace
<1>6. run'.at \notin InSession /\ report' \in Reports /\ ended' \in Ending
  BY <1>1 DEF InSession, Talking, IInv, TypeOK
<1> QED BY <1>1, <1>2, <1>3, <1>4, <1>5, <1>6, RunStep DEF ReportTells

LEMMA JudgeStep == ASSUME IInv, Judge PROVE IInv'
PROOF
<1> USE DEF IInv
<1>1. /\ run.at = "judge" /\ UNCHANGED <<asked, agent, cancel, handed, ended>>
      /\ run.at \notin Talking /\ agent.state \notin {"alive", "exited"} /\ report = NoReport
      /\ handed \subseteq {"acp"} /\ run \in Runs /\ run.result = "success"
  BY DEF Judge, Talking, ChildInPlace, ReportLast, Over, CommandLast, TypeOK, OutcomeNoted, InSession
<1>2. CASE FallsBack /\ run' = [run EXCEPT !.at = "launch", !.fallback = TRUE] /\ UNCHANGED report
  <2>1. /\ run' \in Runs /\ run'.at = "launch" /\ run'.submitted = run.submitted
        /\ run'.awaits = run.awaits /\ run'.error = run.error /\ run'.result = run.result
    BY <1>1, <1>2, Words DEF Runs
  <2>2. ~run.submitted
    BY <1>1, <1>2 DEF FallsBack, SubmittedNoted
  <2>3. handed = {}
    BY <1>1, <2>2 DEF SubmittedNoted
  <2>4. CommandLast'
    BY <1>1, <1>2, <2>1, <2>3 DEF CommandLast, FallsBack, InSession, Talking
  <2>5. OutcomeNoted' /\ ReportLast' /\ ReportTells'
    BY <1>1, <1>2, <2>1 DEF OutcomeNoted, ReportLast, ReportTells, ReportTruthful,
                            TaskLeavesTrace, Over
  <2>6. run'.at \notin InSession /\ report' \in Reports /\ ended' \in Ending
    BY <1>1, <1>2, <2>1 DEF InSession, Talking, TypeOK
  <2> QED BY <1>1, <2>1, <2>4, <2>5, <2>6, RunStep
<1>3. CASE ~FallsBack
  <2> DEFINE r == [result |-> "failure", via |-> "acp", fallback |-> FALSE, exit |-> 1]
  <2>1. Persist("raised", r) /\ r \in Reports
    BY <1>3 DEF Judge, Reports, Result, Via
  <2>2. r.via \in handed \/ handed = {}
    BY <1>1
  <2> QED BY <1>1, <2>1, <2>2, PersistStep
<1> QED BY <1>2, <1>3 DEF Judge

LEMMA LaunchStep == ASSUME IInv, Launch PROVE IInv'
PROOF
<1> USE DEF IInv
<1>1. /\ run.at = "launch" /\ UNCHANGED <<asked, agent, cancel, ended, report>>
      /\ run.at \notin Talking /\ agent.state \notin {"alive", "exited"} /\ report = NoReport
      /\ handed = {} /\ run \in Runs /\ ended \in Ending /\ report \in Reports
      /\ run.result = "success"
  BY DEF Launch, Keep, Talking, ChildInPlace, ReportLast, Over, CommandLast, OutcomeNoted, TypeOK
<1>2. PICK at \in {"raised", "command"} :
        Go(at) /\ handed' = IF at = "command" THEN {"cli"} ELSE {}
  BY <1>1 DEF Launch
<1>3. /\ run' \in Runs /\ run'.at = at /\ run'.submitted = run.submitted
      /\ run'.awaits = run.awaits /\ run'.error = run.error /\ run'.result = run.result
      /\ run'.fallback = run.fallback
  BY <1>1, <1>2, Words DEF Go, Runs
<1>4. CommandLast'
  BY <1>1, <1>2, <1>3 DEF CommandLast, InSession, Talking
<1>5. OutcomeNoted' /\ ReportLast' /\ ReportTells'
  BY <1>1, <1>2, <1>3 DEF OutcomeNoted, ReportLast, ReportTells, ReportTruthful,
                          TaskLeavesTrace, Over, InSession, Talking
<1>6. run'.at \notin InSession /\ (handed' = handed \/ handed' = {"cli"})
  BY <1>1, <1>2, <1>3 DEF InSession, Talking
<1> QED BY <1>1, <1>3, <1>4, <1>5, <1>6, RunStep

LEMMA CommandEndsStep == ASSUME IInv, CommandEnds PROVE IInv'
PROOF
<1> USE DEF IInv
<1>1. /\ run.at = "command" /\ UNCHANGED <<asked, agent, cancel, handed, report>>
      /\ run.at \notin Talking /\ agent.state \notin {"alive", "exited"} /\ report = NoReport
      /\ handed = {"cli"} /\ run \in Runs /\ report \in Reports /\ run.result = "success"
      /\ ~run.submitted
  BY DEF CommandEnds, Talking, ChildInPlace, ReportLast, Over, CommandLast, OutcomeNoted, TypeOK,
         SubmittedNoted
<1>2. PICK well \in BOOLEAN, verdict \in BOOLEAN :
        /\ ended' = IF well THEN "well" ELSE "failed"
        /\ run' = [run EXCEPT !.at = "contract", !.via = "cli", !.verdict = @ \/ verdict,
                              !.exit = IF well THEN 0 ELSE 1]
  BY DEF CommandEnds
<1>3. PICK v \in BOOLEAN, n \in {0, 1} :
        /\ n = 0 <=> well
        /\ run' = [run EXCEPT !.at = "contract", !.via = "cli", !.verdict = v, !.exit = n]
  <2>1. PICK v \in BOOLEAN : v = (run.verdict \/ verdict)
    OBVIOUS
  <2>2. PICK n \in {0, 1} : n = (IF well THEN 0 ELSE 1) /\ (n = 0 <=> well)
    OBVIOUS
  <2> QED BY <1>1, <1>2, <2>1, <2>2 DEF Runs
<1>4. /\ run' \in Runs /\ run'.at = "contract" /\ run'.submitted = run.submitted
      /\ run'.awaits = run.awaits /\ run'.error = run.error /\ run'.result = run.result
      /\ run'.fallback = run.fallback /\ run'.via = "cli" /\ run'.exit = n
  BY <1>1, <1>3, Words, ZenonT(60) DEF Runs, Via
<1>5. CommandLast'
  BY <1>1, <1>4 DEF CommandLast, InSession, Talking
<1>6. OutcomeNoted' /\ ReportLast' /\ ReportTells'
  BY <1>1, <1>2, <1>3, <1>4 DEF OutcomeNoted, ReportLast, ReportTells, ReportTruthful,
                                TaskLeavesTrace, Over, InSession, Talking
<1>7. run'.at \notin InSession /\ ended' \in Ending
  BY <1>2, <1>4 DEF InSession, Talking, Ending
<1> QED BY <1>1, <1>4, <1>5, <1>6, <1>7, RunStep

LEMMA ContractStep == ASSUME IInv, Contract PROVE IInv'
PROOF
<1> USE DEF IInv
<1>1. /\ run.at = "contract" /\ UNCHANGED <<asked, agent, cancel, handed, ended, report>>
      /\ run.at \notin Talking /\ agent.state \notin {"alive", "exited"} /\ report = NoReport
      /\ run \in Runs /\ report \in Reports /\ ended \in Ending
  BY DEF Contract, Keep, Talking, ChildInPlace, ReportLast, Over, TypeOK
<1> DEFINE Falls == asked.reviewer /\ run.exit = 0 /\ run.result # "cancelled" /\ ~run.verdict
<1>2. run'.at \notin InSession /\ run' \in Runs /\ run'.at = "write" /\ run'.submitted = run.submitted
      /\ run'.awaits = run.awaits /\ run'.error = run.error
      /\ run'.fallback = run.fallback /\ run'.via = run.via /\ run'.verdict = run.verdict
      /\ IF Falls THEN run'.exit = 1 /\ run'.result = "incomplete_review"
         ELSE run'.exit = run.exit /\ run'.result = run.result
  <2>1. CASE Falls
    <3>1. run' = [run EXCEPT !.at = "write", !.exit = 1, !.result = "incomplete_review"]
      BY <2>1 DEF Contract
    <3>2. "write" \in Place /\ "incomplete_review" \in Result /\ "write" \notin InSession
      BY Words DEF Result, InSession, Talking
    <3>3. run' \in Runs
      BY <1>1, <3>1, <3>2 DEF Runs
    <3> QED BY <1>1, <2>1, <3>1, <3>2, <3>3 DEF Runs
  <2>2. CASE ~Falls
    <3>1. run' = [run EXCEPT !.at = "write"]
      BY <2>2 DEF Contract
    <3> QED BY <1>1, <2>2, <3>1, Words DEF Runs, InSession, Talking
  <2> QED BY <2>1, <2>2
<1>3. CommandLast'
  BY <1>1, <1>2 DEF CommandLast, InSession, Talking
<1>4. OutcomeNoted'
  BY <1>1, <1>2 DEF OutcomeNoted, InSession, Talking
<1>5. ReportLast' /\ ReportTells'
  BY <1>1, <1>2 DEF ReportLast, ReportTells, ReportTruthful, TaskLeavesTrace, Over
<1> QED BY <1>1, <1>2, <1>3, <1>4, <1>5, RunStep

LEMMA WriteStep == ASSUME IInv, Write PROVE IInv'
PROOF
<1> USE DEF IInv
<1>1. /\ run.at = "write" /\ UNCHANGED <<asked, agent, cancel, handed, ended>>
      /\ run.at \notin Talking /\ agent.state \notin {"alive", "exited"} /\ report = NoReport
      /\ run \in Runs
  BY DEF Write, Talking, ChildInPlace, ReportLast, Over, TypeOK
<1> DEFINE r == [result |-> Outcome, via |-> run.via, fallback |-> run.fallback,
                 exit |-> run.exit]
<1>2. /\ Outcome \in Result
      /\ Outcome = "success" => run.result = "success" /\ run.exit = 0
      /\ Outcome \in {"cancelled", "incomplete_review"} => Outcome = run.result
  BY <1>1 DEF Outcome, Runs, Result
<1>3. Persist("returned", r)
  BY DEF Write
<1>4. r \in Reports
  BY <1>1, <1>2 DEF Runs, Reports
<1>5. handed = {run.via}
  BY <1>1 DEF OutcomeNoted
<1>6. r.result \in {"success", "incomplete_review"} =>
        handed = {r.via} /\ ended \in {"well", "refused"}
  BY <1>1, <1>2, <1>5 DEF OutcomeNoted
<1>7. r.result = "success" => r.exit = 0 /\ (asked.reviewer => run.verdict)
  BY <1>1, <1>2 DEF OutcomeNoted
<1>8. r.result = "cancelled" =>
        r.via = "acp" /\ "acp" \in handed /\ (cancel \/ ended = "cancelled")
  BY <1>1, <1>2, <1>5 DEF OutcomeNoted
<1>9. r.fallback => r.via = "cli" /\ asked.transport = "auto"
  BY <1>1 DEF OutcomeNoted, CommandLast
<1> HIDE DEF r
<1>10. r.via = run.via
  BY DEF r
<1> QED BY <1>1, <1>3, <1>4, <1>5, <1>6, <1>7, <1>8, <1>9, <1>10, PersistStep

-----------------------------------------------------------------------------
(***************************************************************************)
(* The steps of the child and of the operator.                             *)
(***************************************************************************)
\* A living child is in its session.
LEMMA ChildStep ==
    ASSUME IInv, Others, agent.state = "alive", LinesInOrder', agent'.state \in {"alive", "exited"},
           ended' \in Ending, ended' = ended \/ agent.heard = "prompt",
           agent.heard = "none" => agent'.heard = "none"
    PROVE  IInv'
PROOF
<1> USE DEF IInv, Others
<1>1. run.at \in {"talk", "line", "reap"}
  BY DEF ChildInPlace
<1>2. TypeOK'
  BY DEF TypeOK, LinesInOrder
<1>3. ChildInPlace' /\ SubmittedNoted' /\ CommandLast'
  BY <1>1 DEF ChildInPlace, SubmittedNoted, CommandLast
<1>4. TurnTaken'
  BY DEF TurnTaken
<1>5. OutcomeNoted' /\ ReportLast' /\ ReportTells'
  BY <1>1 DEF OutcomeNoted, ReportLast, ReportTells, ReportTruthful, TaskLeavesTrace, Over,
              InSession, Talking
<1> QED BY <1>2, <1>3, <1>4, <1>5 DEF LinesInOrder, TaskToOne

LEMMA ReplyStep == ASSUME IInv, Reply PROVE IInv'
PROOF
<1>1. PICK line \in {"answer", "error"} :
        agent' = [agent EXCEPT !.out = Append(@, line), !.heard = "none"]
  BY DEF Reply
<1>2. /\ agent.state = "alive" /\ agent.heard # "none" /\ Others /\ ended' = ended
      /\ agent \in Agents /\ ended \in Ending /\ agent.chat \in Nat
      /\ line \in Line /\ line \notin Ending /\ run' = run
  BY DEF Reply, IInv, TypeOK, Line, Ending, Others, Agents
<1>3. agent' = [agent EXCEPT !.out = Append(@, line), !.heard = "none", !.chat = agent.chat]
  BY <1>1, <1>2 DEF Agents
<1>4. LinesInOrder' /\ agent'.state = agent.state
  BY <1>2, <1>3, LineWritten
<1>5. agent'.heard = "none"
  BY <1>1, <1>2 DEF Agents
<1> QED BY <1>2, <1>4, <1>5, ChildStep

LEMMA ChatStep == ASSUME IInv, Chat PROVE IInv'
PROOF
<1>1. PICK line \in {"text", "verdict", "question", "nonsense", "half"} :
        agent' = [agent EXCEPT !.out = Append(@, line), !.chat = @ + 1]
  BY DEF Chat
<1>2. /\ agent.state = "alive" /\ Others /\ ended' = ended
      /\ agent \in Agents /\ ended \in Ending /\ agent.chat + 1 \in Nat
      /\ line \in Line /\ line \notin Response /\ line \notin Ending /\ run' = run
  BY DEF Chat, IInv, TypeOK, Line, Ending, Others, Agents, Response
<1>3. agent' = [agent EXCEPT !.out = Append(@, line), !.heard = agent.heard, !.chat = agent.chat + 1]
  BY <1>1, <1>2 DEF Agents
<1>4. LinesInOrder' /\ agent'.state = agent.state
  BY <1>2, <1>3, LineWritten
<1>5. agent'.heard = agent.heard
  BY <1>1, <1>2 DEF Agents
<1> QED BY <1>2, <1>4, <1>5, ChildStep

LEMMA FinishStep == ASSUME IInv, Finish PROVE IInv'
PROOF
<1>1. PICK line \in {"error"} \cup (Ending \ {"none"}) :
        /\ agent' = [agent EXCEPT !.out = Append(@, line), !.heard = "none"]
        /\ ended' = IF line = "error" THEN "failed" ELSE line
  BY DEF Finish, Ending
<1>2. /\ agent.state = "alive" /\ agent.heard = "prompt" /\ Others /\ run.submitted
      /\ agent \in Agents /\ ended' \in Ending /\ agent.chat \in Nat
      /\ line \in Line /\ run' = run
      /\ line \in Ending \ {"none"} => ended' = line
  BY <1>1 DEF Finish, IInv, TypeOK, Line, Ending, Others, Agents, EndingsTold
<1>3. agent' = [agent EXCEPT !.out = Append(@, line), !.heard = "none", !.chat = agent.chat]
  BY <1>1, <1>2 DEF Agents
<1>4. LinesInOrder' /\ agent'.state = agent.state
  BY <1>2, <1>3, LineWritten
<1>5. agent'.heard = "none"
  BY <1>1, <1>2 DEF Agents
<1> QED BY <1>2, <1>4, <1>5, ChildStep

LEMMA ExitStep == ASSUME IInv, Exit PROVE IInv'
PROOF
<1>1. /\ agent.state = "alive" /\ Others /\ ended' = ended /\ ended \in Ending
      /\ agent \in Agents /\ agent' = [agent EXCEPT !.state = "exited"] /\ run' = run
  BY DEF Exit, IInv, TypeOK, Others
<1>2. agent' \in Agents /\ agent'.out = agent.out /\ agent'.heard = agent.heard
      /\ agent'.state = "exited"
  BY <1>1 DEF Agents
<1> QED BY <1>1, <1>2, LinesStay, ChildStep

LEMMA InterruptStep == ASSUME IInv, Interrupt PROVE IInv'
PROOF
<1> USE DEF IInv
<1>1. /\ UNCHANGED <<asked, agent, cancel, handed, ended, report>>
      /\ run \in Runs /\ agent \in Agents /\ report \in Reports /\ ended \in Ending
  BY DEF Interrupt, TypeOK
<1>2. CASE run.at \in {"talk", "line"} /\ Break
  <2>1. /\ run' \in Runs /\ run'.at = "reap" /\ run'.broken /\ run'.awaits = run.awaits
        /\ run'.submitted = run.submitted /\ run'.error = run.error
        /\ run'.fallback = run.fallback /\ run'.result = run.result
    BY <1>1, <1>2, Words DEF Break, Runs
  <2>2. LinesInOrder'
    BY <1>1, <2>1, LinesStay
  <2> QED BY <1>1, <1>2, <2>1, <2>2, BreakStep DEF Keep
<1>3. CASE run.at = "command" /\ run' = [run EXCEPT !.at = "raised", !.broken = TRUE]
  <2>1. /\ run' \in Runs /\ run'.at = "raised" /\ run'.broken /\ run'.awaits = run.awaits
        /\ run'.submitted = run.submitted /\ run'.error = run.error
        /\ run'.fallback = run.fallback /\ run'.result = run.result
    BY <1>1, <1>3, Words DEF Runs
  <2>2. run.at \notin Talking /\ run'.at \notin InSession /\ agent.state \notin {"alive", "exited"}
        /\ report = NoReport
    BY <1>3, <2>1 DEF InSession, Talking, ChildInPlace, ReportLast, Over
  <2>3. CommandLast'
    BY <1>1, <1>3, <2>1 DEF CommandLast, InSession, Talking
  <2>4. OutcomeNoted' /\ ReportLast' /\ ReportTells'
    BY <1>1, <2>1, <2>2 DEF OutcomeNoted, ReportLast, ReportTells, ReportTruthful,
                            TaskLeavesTrace, Over, InSession, Talking
  <2> QED BY <1>1, <2>1, <2>2, <2>3, <2>4, RunStep
<1> QED BY <1>2, <1>3 DEF Interrupt

LEMMA CancelStep == ASSUME IInv, Cancel PROVE IInv'
PROOF
<1> USE DEF IInv, Cancel
<1>1. TypeOK' /\ ChildInPlace' /\ OneOpenRequest' /\ EndingsTold' /\ SubmittedNoted' /\ CommandLast'
  BY DEF TypeOK, ChildInPlace, OneOpenRequest, EndingsTold, SubmittedNoted, CommandLast
<1>2. TurnTaken' /\ OutcomeNoted' /\ ReportLast' /\ TaskToOne' /\ ReportTells'
  BY DEF TaskToOne, TurnTaken, OutcomeNoted, ReportLast, ReportTells, ReportTruthful, TaskLeavesTrace, Over
<1> QED BY <1>1, <1>2

LEMMA NextStep == IInv /\ [Next]_vars => IInv'
PROOF
<1> SUFFICES ASSUME IInv, [Next]_vars PROVE IInv'
  OBVIOUS
<1>1. CASE UNCHANGED vars
  BY <1>1 DEF vars, IInv, TypeOK, ChildInPlace, OneOpenRequest, EndingsTold, SubmittedNoted,
              CommandLast, TurnTaken, OutcomeNoted, ReportLast, ReportTells, ReportTruthful,
              TaskLeavesTrace, TaskToOne, Over
<1>2. CASE Runner
  BY <1>2, BeginStep, SpawnStep, SendCancelStep, AnsweredStep, RefusedStep, GarbledStep, TextStep,
     AnswerPermissionStep, TurnOverStep, HalfLineStep, CutStep, ReapStep, JudgeStep, LaunchStep,
     ContractStep, WriteStep DEF Runner
<1>3. CASE LineComes \/ CommandEnds
  BY <1>3, HalfLineStep, CommandEndsStep
<1>4. CASE Reply \/ Chat \/ Finish \/ Exit
  BY <1>4, ReplyStep, ChatStep, FinishStep, ExitStep
<1>5. CASE Cancel \/ Interrupt
  BY <1>5, CancelStep, InterruptStep
<1> QED BY <1>1, <1>2, <1>3, <1>4, <1>5 DEF Next

-----------------------------------------------------------------------------
(***************************************************************************)
(* What holds of every run, whatever its child and its operator do.        *)
(***************************************************************************)
\* The invariant holds, and with it the types of the variables.
THEOREM Invariance == Spec => []IInv
PROOF BY InitIInv, NextStep, PTL DEF Spec

\* Every variable keeps to its type.
THEOREM Typing == Spec => []TypeOK
PROOF
<1>1. IInv => TypeOK
  BY DEF IInv
<1> QED BY <1>1, Invariance, PTL

\* A task that an ACP child was given is never given to a command line too
\* (run_agent_process: no fallback once the prompt was submitted).
THEOREM OneHand == Spec => []TaskToOne
PROOF
<1>1. IInv => TaskToOne
  BY DEF IInv
<1> QED BY <1>1, Invariance, PTL

\* When a run is over, or goes on with a command line, its ACP child is gone
\* (ACPTransport.run: the finally that closes, terminates and kills).
THEOREM NoOrphan == Spec => []NoChildLeft
PROOF
<1>1. IInv => NoChildLeft
  BY DEF IInv, TypeOK, Agents, ChildInPlace, NoChildLeft, Over
<1> QED BY <1>1, Invariance, PTL

\* The report of a run says what happened to its task, and a task that was handed over
\* leaves one (persist_agent_run_report).
THEOREM HonestReport == Spec => []ReportTells
PROOF
<1>1. IInv => ReportTells
  BY DEF IInv
<1> QED BY <1>1, Invariance, PTL

-----------------------------------------------------------------------------
(***************************************************************************)
(* Launches.                                                               *)
(***************************************************************************)
\* The order of the natural numbers.
Less == {p \in Nat \X Nat : p[1] < p[2]}
\* It is well-founded.
LEMMA LessWF == IsWellFoundedOn(Less, Nat)
  BY NatLessThanWellFounded, Zenon DEF OpToRel, Less

\* A set of natural numbers has a least one.
LEMMA NatMin ==
    ASSUME NEW S \in SUBSET Nat, S # {}
    PROVE  \E x \in S : \A y \in S : x <= y
  <1>1. \E x \in S : \A y \in S : ~ (<<y, x>> \in Less)
    BY LessWF, WFMin
  <1>2. \A x, y \in Nat : y < x => <<y, x>> \in Less
    BY DEF Less
  <1>3. PICK x \in S : \A y \in S : ~ (<<y, x>> \in Less)
    BY <1>1
  <1>4. \A y \in S : ~ y < x
    BY <1>2, <1>3
  <1> QED
    BY <1>3, <1>4

\* g is what n steps of next make of base.
Steps(g, n, S, base, next) ==
    /\ g \in [0..n -> S] /\ g[0] = base
    /\ \A i \in 1..n : g[i] = next[<<g[i - 1], i>>]

\* Any number of steps can be taken: what a recursive definition by steps defines is there.
LEMMA Recursion ==
    ASSUME NEW n \in Nat, NEW S, NEW base \in S, NEW next \in [S \X (1..n) -> S]
    PROVE  \E g : Steps(g, n, S, base, next)
  <1> DEFINE Fits(g, k) == /\ g \in [0..k -> S] /\ g[0] = base
                           /\ \A i \in 1..k : g[i] = next[<<g[i - 1], i>>]
             bad == {k \in 0..n : ~ \E g : Fits(g, k)}
  <1>1. bad = {}
    <2> SUFFICES ASSUME bad # {} PROVE FALSE
      OBVIOUS
    <2>1. bad \in SUBSET Nat
      OBVIOUS
    <2> HIDE DEF bad
    <2>2. PICK k \in bad : \A y \in bad : k <= y
      BY <2>1, NatMin
    <2> USE DEF bad
    <2>3. k # 0
      <3> DEFINE g == [i \in 0..0 |-> base]
      <3>1. Fits(g, 0)
        OBVIOUS
      <3> HIDE DEF g
      <3> QED
        BY <3>1
    <2>4. k \in 1..n /\ k - 1 \in 0..n /\ k - 1 \notin bad
      <3>1. k \in 0..n
        BY <2>2
      <3>2. k - 1 \in 0..n /\ ~ k <= k - 1 /\ k \in 1..n
        BY <3>1, <2>3
      <3> HIDE DEF bad
      <3> QED
        BY <3>2, <2>2
    <2>5. PICK g : Fits(g, k - 1)
      BY <2>4
    <2> DEFINE h == [i \in 0..k |-> IF i = k THEN next[<<g[k - 1], k>>] ELSE g[i]]
    <2>6. next[<<g[k - 1], k>>] \in S
      BY <2>4, <2>5
    <2>7. h \in [0..k -> S] /\ h[0] = base /\ \A i \in 0..(k - 1) : h[i] = g[i]
      BY <2>4, <2>5, <2>6
    <2>8. h[k] = next[<<g[k - 1], k>>]
      BY <2>4
    <2> HIDE DEF h
    <2>9. \A i \in 1..k : h[i] = next[<<h[i - 1], i>>]
      <3> SUFFICES ASSUME NEW i \in 1..k PROVE h[i] = next[<<h[i - 1], i>>]
        OBVIOUS
      <3>1. i - 1 \in 0..(k - 1) /\ (i # k => i \in 1..(k - 1) /\ i \in 0..(k - 1))
        BY <2>4
      <3>2. h[i - 1] = g[i - 1]
        BY <3>1, <2>7
      <3>3. CASE i = k
        BY <3>2, <3>3, <2>8
      <3>4. CASE i # k
        BY <3>1, <3>2, <3>4, <2>5, <2>7
      <3> QED
        BY <3>3, <3>4
    <2> QED
      BY <2>2, <2>7, <2>9
  <1>2. \E g : Fits(g, n)
    BY <1>1
  <1> QED
    BY <1>2 DEF Steps

\* Sorting.
Orders(R, S) ==
    /\ \A r \in S : <<r, r>> \notin R
    /\ \A r, s, t \in S : <<r, s>> \in R /\ <<s, t>> \in R => <<r, t>> \in R
    /\ \A r, s \in S : r = s \/ <<r, s>> \in R \/ <<s, r>> \in R

\* Ranks that differ fill the places there are.
LEMMA RanksFill ==
    ASSUME NEW S, NEW rank \in [S -> 0..(Cardinality(S) - 1)], IsFiniteSet(S),
           \A r, s \in S : rank[r] = rank[s] => r = s
    PROVE  \A i \in 0..(Cardinality(S) - 1) : \E r \in S : rank[r] = i
  <1>1. Cardinality(S) \in Nat
    BY FS_CardinalityType
  <1>2. IsFiniteSet(0..(Cardinality(S) - 1)) /\ Cardinality(0..(Cardinality(S) - 1)) = Cardinality(S)
    BY <1>1, FS_Interval
  <1>3. rank \in Injection(S, 0..(Cardinality(S) - 1))
    BY DEF Injection, IsInjective
  <1>4. rank \in Surjection(S, 0..(Cardinality(S) - 1))
    BY <1>2, <1>3, FS_Injection
  <1> QED
    BY <1>4 DEF Surjection

\* A finite set in an order of it: all of it, nobody before who they come after.
LEMMA SortedIs ==
    ASSUME NEW S, NEW R, IsFiniteSet(S), Orders(R, S)
    PROVE  /\ Sorted(S, R) \in Seq(S)
           /\ Range(Sorted(S, R)) = S
           /\ \A i, j \in DOMAIN Sorted(S, R) :
                i < j => <<Sorted(S, R)[i], Sorted(S, R)[j]>> \in R
  <1> DEFINE n == Cardinality(S)
             before(r) == {s \in S : <<s, r>> \in R}
             rank == [r \in S |-> Cardinality(before(r))]
  <1>0. n \in Nat
    BY FS_CardinalityType
  <1>1. \A r \in S : /\ IsFiniteSet(before(r)) /\ Cardinality(before(r)) \in 0..(n - 1)
    <2> SUFFICES ASSUME NEW r \in S
                 PROVE  IsFiniteSet(before(r)) /\ Cardinality(before(r)) \in 0..(n - 1)
      OBVIOUS
    <2>1. before(r) \subseteq S /\ r \notin before(r)
      BY DEF Orders
    <2>2. IsFiniteSet(before(r)) /\ Cardinality(before(r)) <= n
          /\ (Cardinality(before(r)) = n => before(r) = S)
      BY <2>1, FS_Subset
    <2>3. Cardinality(before(r)) \in Nat
      BY <2>2, FS_CardinalityType
    <2> HIDE DEF before
    <2> QED
      BY <1>0, <2>1, <2>2, <2>3
  <1>2. \A r, s \in S : <<r, s>> \in R => Cardinality(before(r)) < Cardinality(before(s))
    <2> SUFFICES ASSUME NEW r \in S, NEW s \in S, <<r, s>> \in R
                 PROVE  Cardinality(before(r)) < Cardinality(before(s))
      OBVIOUS
    <2>1. before(r) \subseteq before(s) /\ r \in before(s) /\ r \notin before(r)
      BY DEF Orders
    <2> HIDE DEF before, n
    <2>2. IsFiniteSet(before(s)) /\ Cardinality(before(s)) \in Nat /\ Cardinality(before(r)) \in Nat
      BY <1>1, <1>0
    <2>3. Cardinality(before(r)) <= Cardinality(before(s))
          /\ (Cardinality(before(r)) = Cardinality(before(s)) => before(r) = before(s))
      BY <2>1, <2>2, FS_Subset
    <2> QED
      BY <2>1, <2>2, <2>3
  <1> HIDE DEF before
  <1>3. rank \in [S -> 0..(n - 1)] /\ \A r \in S : rank[r] = Cardinality(before(r))
    BY <1>1
  <1>4. \A r, s \in S : <<r, s>> \in R => rank[r] < rank[s]
    BY <1>2, <1>3
  <1> HIDE DEF rank
  <1>5. \A r, s \in S : rank[r] = rank[s] => r = s
    <2> SUFFICES ASSUME NEW r \in S, NEW s \in S, rank[r] = rank[s]
                 PROVE  r = s
      OBVIOUS
    <2>1. rank[r] \in Nat /\ rank[s] \in Nat
      BY <1>0, <1>3
    <2>2. r = s \/ <<r, s>> \in R \/ <<s, r>> \in R
      BY DEF Orders
    <2> QED
      BY <2>1, <2>2, <1>4
  <1>6. \A i \in 0..(n - 1) : \E r \in S : rank[r] = i
    BY <1>3, <1>5, RanksFill
  <1> DEFINE sorted == Sorted(S, R)
  <1>7. sorted = [i \in 1..n |-> CHOOSE r \in S : rank[r] = i - 1]
    BY <1>3 DEF Sorted, before, n
  <1>8. \A i \in 1..n : sorted[i] \in S /\ rank[sorted[i]] = i - 1
    <2> SUFFICES ASSUME NEW i \in 1..n
                 PROVE  sorted[i] \in S /\ rank[sorted[i]] = i - 1
      OBVIOUS
    <2>1. i - 1 \in 0..(n - 1)
      BY <1>0
    <2>2. \E r \in S : rank[r] = i - 1
      BY <2>1, <1>6
    <2>3. sorted[i] = CHOOSE r \in S : rank[r] = i - 1
      BY <1>7
    <2> QED
      BY <2>2, <2>3
  <1>9. DOMAIN sorted = 1..n
    BY <1>7
  <1> HIDE DEF n, sorted
  <1>10. sorted \in Seq(S)
    <2>1. sorted \in [1..n -> S]
      BY <1>7, <1>8
    <2> QED
      BY <2>1, <1>0
  <1>11. Range(sorted) = S
    <2>1. \A r \in S : \E i \in 1..n : sorted[i] = r
      <3> SUFFICES ASSUME NEW r \in S
                   PROVE  \E i \in 1..n : sorted[i] = r
        OBVIOUS
      <3>1. rank[r] \in 0..(n - 1) /\ rank[r] + 1 \in 1..n
        BY <1>0, <1>3
      <3>2. sorted[rank[r] + 1] \in S /\ rank[sorted[rank[r] + 1]] = rank[r]
        BY <3>1, <1>8, <1>0
      <3> QED
        BY <3>1, <3>2, <1>5
    <2> QED
      BY <2>1, <1>8, <1>9 DEF Range
  <1>12. \A i, j \in 1..n : i < j => <<sorted[i], sorted[j]>> \in R
    <2> SUFFICES ASSUME NEW i \in 1..n, NEW j \in 1..n, i < j
                 PROVE  <<sorted[i], sorted[j]>> \in R
      OBVIOUS
    <2>1. sorted[i] \in S /\ sorted[j] \in S /\ rank[sorted[i]] = i - 1 /\ rank[sorted[j]] = j - 1
      BY <1>8
    <2>2. sorted[i] # sorted[j] /\ ~ rank[sorted[j]] < rank[sorted[i]]
      BY <2>1, <1>0
    <2> QED
      BY <2>1, <2>2, <1>4 DEF Orders
  <1> QED
    BY <1>9, <1>10, <1>11, <1>12 DEF sorted

\* normpath of a path is a path.
LEMMA NormalIsPath ==
    ASSUME NEW N, NEW names \in Seq(N)
    PROVE  Normal(names) \in Seq(N)
  <1> DEFINE n == Len(names)
             step == [p \in Seq(N) \X (1..n) |-> Along(p[1], names[p[2]])]
             f == CHOOSE g : g = [i \in 0..n |-> IF i = 0 THEN <<>> ELSE Along(g[i - 1], names[i])]
  <1>0. <<>> \in Seq(N)
    OBVIOUS
  <1>1. n \in Nat
    OBVIOUS
  <1>2. \A seen \in Seq(N), name \in N : Along(seen, name) \in Seq(N)
    BY DEF Along, Front, Last
  <1>3. \A i \in 1..n : names[i] \in N
    OBVIOUS
  <1> HIDE DEF n
  <1>4. step \in [Seq(N) \X (1..n) -> Seq(N)]
        /\ \A seen \in Seq(N), i \in 1..n : step[<<seen, i>>] = Along(seen, names[i])
    BY <1>2, <1>3
  <1> HIDE DEF step
  <1>5. PICK h : Steps(h, n, Seq(N), <<>>, step)
    BY <1>0, <1>1, <1>4, Recursion
  <1>6. h = [i \in 0..n |-> IF i = 0 THEN <<>> ELSE Along(h[i - 1], names[i])]
    <2>1. \A i \in 1..n : i - 1 \in 0..n
      BY <1>1
    <2>2. \A i \in 1..n : h[i] = Along(h[i - 1], names[i])
      BY <2>1, <1>4, <1>5 DEF Steps
    <2>3. \A i \in 0..n : i = 0 \/ i \in 1..n
      BY <1>1
    <2>4. \A i \in 0..n : h[i] = IF i = 0 THEN <<>> ELSE Along(h[i - 1], names[i])
      BY <1>5, <2>2, <2>3 DEF Steps
    <2>5. DOMAIN h = 0..n /\ h = [i \in DOMAIN h |-> h[i]]
      BY <1>5 DEF Steps
    <2> QED
      BY <2>4, <2>5
  <1>7. f = [i \in 0..n |-> IF i = 0 THEN <<>> ELSE Along(f[i - 1], names[i])]
    BY <1>6
  <1>8. Normal(names) = f[n]
    BY DEF Normal, n
  <1> HIDE DEF f
  <1> DEFINE out == {k \in 0..n : f[k] \notin Seq(N)}
  <1>9. \A i \in 0..n : f[i] = IF i = 0 THEN <<>> ELSE Along(f[i - 1], names[i])
    BY <1>7
  <1>10. out = {}
    <2> SUFFICES ASSUME out # {} PROVE FALSE
      OBVIOUS
    <2>1. out \in SUBSET Nat
      BY <1>1
    <2> HIDE DEF out
    <2>2. PICK k \in out : \A y \in out : k <= y
      BY <2>1, NatMin
    <2>3. k \in 1..n /\ f[k] \notin Seq(N)
      <3>1. k \in 0..n /\ f[k] \notin Seq(N)
        BY <2>2 DEF out
      <3>2. k # 0
        BY <3>1, <1>0, <1>9
      <3> QED
        BY <1>1, <3>1, <3>2
    <2>4. k - 1 \in 0..n /\ k - 1 \notin out
      BY <1>1, <2>2, <2>3
    <2>5. f[k - 1] \in Seq(N)
      BY <2>4 DEF out
    <2>6. f[k] = Along(f[k - 1], names[k])
      BY <1>1, <1>9, <2>3
    <2> QED
      BY <2>3, <2>5, <2>6, <1>2, <1>3
  <1> QED
    BY <1>1, <1>8, <1>10

-----------------------------------------------------------------------------
\* Two places of a sequence made of two: both in the first, one in each, both in the second.
Splits(u, s, t) ==
    \A i, j \in DOMAIN u : i < j =>
      \/ i \in DOMAIN s /\ j \in DOMAIN s /\ u[i] = s[i] /\ u[j] = s[j]
      \/ u[i] \in Range(s) /\ u[j] \in Range(t)
      \/ \E k, l \in DOMAIN t : k < l /\ u[i] = t[k] /\ u[j] = t[l]

Lists(s, A) == s \in Seq(A)
Both(s, t) == s \o t

\* What two sequences are, one after the other.
LEMMA Joined ==
    ASSUME NEW A, NEW s, NEW t, Lists(s, A), Lists(t, A)
    PROVE  /\ Lists(Both(s, t), A)
           /\ Range(Both(s, t)) = Range(s) \cup Range(t)
           /\ Splits(Both(s, t), s, t)
  <1> DEFINE u == s \o t
  <1>1. s \in Seq(A) /\ t \in Seq(A)
    BY DEF Lists
  <1>2. u \in Seq(A) /\ Len(u) = Len(s) + Len(t)
        /\ Len(s) \in Nat /\ Len(t) \in Nat
    BY <1>1
  <1>3. DOMAIN u = 1..(Len(s) + Len(t)) /\ DOMAIN s = 1..Len(s) /\ DOMAIN t = 1..Len(t)
    BY <1>1, <1>2
  <1>4. /\ \A i \in 1..Len(s) : u[i] = s[i]
        /\ \A i \in 1..Len(t) : u[Len(s) + i] = t[i]
    BY <1>1, <1>2
  <1> HIDE DEF u
  <1>5. /\ \A i \in 1..Len(s) : i \in DOMAIN u /\ s[i] \in Range(s)
        /\ \A i \in 1..Len(t) : Len(s) + i \in DOMAIN u /\ t[i] \in Range(t)
    BY <1>2, <1>3 DEF Range
  <1>6. Range(u) = Range(s) \cup Range(t)
    <2>1. \A i \in DOMAIN u : u[i] \in Range(s) \cup Range(t)
      <3> SUFFICES ASSUME NEW i \in DOMAIN u
                   PROVE  u[i] \in Range(s) \cup Range(t)
        OBVIOUS
      <3>1. CASE i \in 1..Len(s)
        BY <3>1, <1>4, <1>5
      <3>2. CASE i \notin 1..Len(s)
        <4>1. i - Len(s) \in 1..Len(t) /\ Len(s) + (i - Len(s)) = i
          BY <3>2, <1>2, <1>3
        <4>2. u[Len(s) + (i - Len(s))] = t[i - Len(s)]
          BY <4>1, <1>4
        <4> QED
          BY <4>1, <4>2, <1>5
      <3> QED
        BY <3>1, <3>2
    <2>2. \A x \in Range(s) : x \in Range(u)
      <3>1. \A x \in Range(s) : \E i \in 1..Len(s) : x = s[i]
        BY <1>3 DEF Range
      <3> QED
        BY <3>1, <1>4, <1>5 DEF Range
    <2>3. \A x \in Range(t) : x \in Range(u)
      <3>1. \A x \in Range(t) : \E i \in 1..Len(t) : x = t[i]
        BY <1>3 DEF Range
      <3> QED
        BY <3>1, <1>4, <1>5 DEF Range
    <2>4. \A x \in Range(u) : \E i \in DOMAIN u : x = u[i]
      BY DEF Range
    <2> QED
      BY <2>1, <2>2, <2>3, <2>4
  <1>7. ASSUME NEW i \in DOMAIN u, NEW j \in DOMAIN u, i < j
        PROVE  \/ i \in DOMAIN s /\ j \in DOMAIN s /\ u[i] = s[i] /\ u[j] = s[j]
               \/ u[i] \in Range(s) /\ u[j] \in Range(t)
               \/ \E k, l \in DOMAIN t : k < l /\ u[i] = t[k] /\ u[j] = t[l]
    <2>1. CASE j \in 1..Len(s)
      <3>1. i \in 1..Len(s)
        BY <2>1, <1>2, <1>3, <1>7
      <3> QED
        BY <2>1, <3>1, <1>3, <1>4
    <2>2. CASE j \notin 1..Len(s)
      <3>1. j - Len(s) \in 1..Len(t) /\ Len(s) + (j - Len(s)) = j
        BY <2>2, <1>2, <1>3
      <3>2. u[j] = t[j - Len(s)]
        <4>1. u[Len(s) + (j - Len(s))] = t[j - Len(s)]
          BY <3>1, <1>4
        <4> QED
          BY <3>1, <4>1
      <3>3. CASE i \in 1..Len(s)
        BY <3>1, <3>2, <3>3, <1>4, <1>5
      <3>4. CASE i \notin 1..Len(s)
        <4>1. i - Len(s) \in 1..Len(t) /\ Len(s) + (i - Len(s)) = i
          BY <3>4, <1>2, <1>3
        <4>2. u[i] = t[i - Len(s)]
          <5>1. u[Len(s) + (i - Len(s))] = t[i - Len(s)]
            BY <4>1, <1>4
          <5> QED
            BY <4>1, <5>1
        <4>3. i - Len(s) < j - Len(s)
          BY <1>2, <1>3, <1>7
        <4> QED
          BY <3>1, <3>2, <4>1, <4>2, <4>3, <1>3
      <3> QED
        BY <3>3, <3>4
    <2> QED
      BY <2>1, <2>2
  <1> QED
    BY <1>2, <1>6, <1>7 DEF u, Splits, Lists, Both

\* What is accepted can be ordered.
LEMMA Orderable ==
    ASSUME setup \in Setups, ResourcesAccepted(setup)
    PROVE  /\ IsFiniteSet(DOMAIN Resource)
           /\ \A r \in DOMAIN Resource : Resource[r].selection_priority \in Int
           /\ \A r \in DOMAIN Resource : r \in DOMAIN Lexical
  BY SetupsAssumption DEF ResourcesAccepted, Described, Resource

Listing(r) == CHOOSE i \in DOMAIN Preferred : Preferred[i] = r

\* The place of a preferred resource in the list is its only one, and the order that of the places.
LEMMA Listings ==
    /\ DOMAIN Preferred \subseteq Nat
    /\ \A r \in Range(Preferred) : Listing(r) \in DOMAIN Preferred /\ Preferred[Listing(r)] = r
    /\ \A i \in DOMAIN Preferred : Preferred[i] \in Range(Preferred) /\ Listing(Preferred[i]) = i
    /\ \A r, s \in Range(Preferred) : <<r, s>> \in AsListed <=> Listing(r) < Listing(s)
  <1>1. DOMAIN Preferred \subseteq Nat
    BY NamesAssumption
  <1>2. \A i, j \in DOMAIN Preferred : Preferred[i] = Preferred[j] => i = j
    BY NamesAssumption DEF IsInjective
  <1>3. \A r \in Range(Preferred) : Listing(r) \in DOMAIN Preferred /\ Preferred[Listing(r)] = r
    <2> SUFFICES ASSUME NEW r \in Range(Preferred)
                 PROVE  Listing(r) \in DOMAIN Preferred /\ Preferred[Listing(r)] = r
      OBVIOUS
    <2>1. \E i \in DOMAIN Preferred : Preferred[i] = r
      BY DEF Range
    <2> QED
      BY <2>1 DEF Listing
  <1>4. \A i \in DOMAIN Preferred : Preferred[i] \in Range(Preferred)
    BY DEF Range
  <1>5. \A i \in DOMAIN Preferred : Listing(Preferred[i]) = i
    BY <1>2, <1>3, <1>4
  <1>6. ASSUME NEW r \in Range(Preferred), NEW s \in Range(Preferred)
        PROVE  <<r, s>> \in AsListed <=> Listing(r) < Listing(s)
    <2>1. <<r, s>> \in AsListed <=>
            \E i, j \in DOMAIN Preferred : i < j /\ r = Preferred[i] /\ s = Preferred[j]
      BY DEF AsListed
    <2> QED
      BY <2>1, <1>3, <1>5, <1>6
  <1> QED
    BY <1>1, <1>3, <1>4, <1>5, <1>6

\* The list orders its members.
LEMMA OrdersAsListed ==
    ASSUME NEW S, S \subseteq Range(Preferred)
    PROVE  Orders(AsListed, S)
  <1>1. \A r, s \in S : <<r, s>> \in AsListed <=> Listing(r) < Listing(s)
    BY Listings
  <1>2. \A r \in S : Listing(r) \in Nat
    BY Listings
  <1>3. \A r, s \in S : Listing(r) = Listing(s) => r = s
    BY Listings
  <1> HIDE DEF Listing
  <1> QED
    BY <1>1, <1>2, <1>3 DEF Orders

\* Priority and name order all that is accepted.
LEMMA OrdersByUrgency ==
    ASSUME setup \in Setups, ResourcesAccepted(setup), NEW S, S \subseteq DOMAIN Resource
    PROVE  Orders(ByUrgency, S)
  <1>1. \A r, s \in S : <<r, s>> \in ByUrgency <=> Before(r, s)
    BY DEF ByUrgency
  <1>2. \A r \in S : Resource[r].selection_priority \in Int /\ Lexical[r] \in Nat
    BY Orderable, NamesAssumption
  <1>3. \A r, s \in S : Lexical[r] = Lexical[s] => r = s
    BY Orderable, NamesAssumption
  <1> QED
    BY <1>1, <1>2, <1>3 DEF Orders, Before

\* One resource comes before another one of its family.
Earlier(r, s) ==
    \/ r \in Range(Preferred) /\ (s \in Range(Preferred) => Listing(r) < Listing(s))
    \/ r \notin Range(Preferred) /\ s \notin Range(Preferred) /\ Before(r, s)

\* A set in the order of candidates: all of it, nobody before who they come after.
LEMMA OrderedIs ==
    ASSUME setup \in Setups, ResourcesAccepted(setup), NEW S, S \subseteq DOMAIN Resource
    PROVE  /\ Ordered(S) \in Seq(S) /\ Range(Ordered(S)) = S
           /\ \A i, j \in DOMAIN Ordered(S) : i < j => Earlier(Ordered(S)[i], Ordered(S)[j])
  <1> DEFINE A == S \cap Range(Preferred)
             B == S \ Range(Preferred)
             a == Sorted(A, AsListed)
             b == Sorted(B, ByUrgency)
  <1>1. IsFiniteSet(A) /\ IsFiniteSet(B)
    BY Orderable, FS_Subset
  <1>2. Orders(AsListed, A)
    BY OrdersAsListed
  <1>3. Orders(ByUrgency, B)
    BY OrdersByUrgency
  <1>4. /\ a \in Seq(A) /\ Range(a) = A
        /\ \A i, j \in DOMAIN a : i < j => <<a[i], a[j]>> \in AsListed
    BY <1>1, <1>2, SortedIs
  <1>5. /\ b \in Seq(B) /\ Range(b) = B
        /\ \A i, j \in DOMAIN b : i < j => <<b[i], b[j]>> \in ByUrgency
    BY <1>1, <1>3, SortedIs
  <1>6. Ordered(S) = Both(a, b)
    BY DEF Ordered, Both
  <1>7. \A r \in A, s \in A : <<r, s>> \in AsListed => Earlier(r, s)
    BY Listings DEF Earlier
  <1>8. \A r \in A, s \in B : Earlier(r, s)
    BY DEF Earlier
  <1>9. \A r \in B, s \in B : <<r, s>> \in ByUrgency => Earlier(r, s)
    BY DEF Earlier, ByUrgency
  <1>10. A \cup B = S
    OBVIOUS
  <1> HIDE DEF A, B, a, b
  <1>11. /\ \A i \in DOMAIN a : a[i] \in A
         /\ \A i \in DOMAIN b : b[i] \in B
    BY <1>4, <1>5 DEF Range
  <1>12. Both(a, b) \in Seq(S) /\ Range(Both(a, b)) = S
    <2>1. Lists(Both(a, b), S) /\ Range(Both(a, b)) = Range(a) \cup Range(b)
      <3>1. Lists(a, S) /\ Lists(b, S)
        BY <1>4, <1>5, <1>10 DEF Lists
      <3> QED
        BY <3>1, Joined
    <2> QED
      BY <2>1, <1>4, <1>5, <1>10 DEF Lists
  <1>13. ASSUME NEW i \in DOMAIN Both(a, b), NEW j \in DOMAIN Both(a, b), i < j
         PROVE  Earlier(Both(a, b)[i], Both(a, b)[j])
    <2>1. \/ i \in DOMAIN a /\ j \in DOMAIN a /\ Both(a, b)[i] = a[i] /\ Both(a, b)[j] = a[j]
          \/ Both(a, b)[i] \in Range(a) /\ Both(a, b)[j] \in Range(b)
          \/ \E k, l \in DOMAIN b : k < l /\ Both(a, b)[i] = b[k] /\ Both(a, b)[j] = b[l]
      <3>1. Lists(a, S) /\ Lists(b, S)
        BY <1>4, <1>5, <1>10 DEF Lists
      <3>2. Splits(Both(a, b), a, b)
        BY <3>1, Joined
      <3> QED
        BY <3>2, <1>13 DEF Splits
    <2>2. CASE i \in DOMAIN a /\ j \in DOMAIN a /\ Both(a, b)[i] = a[i] /\ Both(a, b)[j] = a[j]
      BY <2>2, <1>4, <1>7, <1>11, <1>13
    <2>3. CASE Both(a, b)[i] \in Range(a) /\ Both(a, b)[j] \in Range(b)
      BY <2>3, <1>4, <1>5, <1>8
    <2>4. CASE \E k, l \in DOMAIN b : k < l /\ Both(a, b)[i] = b[k] /\ Both(a, b)[j] = b[l]
      BY <2>4, <1>5, <1>9, <1>11
    <2> QED
      BY <2>1, <2>2, <2>3, <2>4
  <1> QED
    BY <1>6, <1>12, <1>13

\* One reviewer comes before another one.
Sooner(who, r, s) ==
    \/ r \notin OwnFamily(who) /\ s \in OwnFamily(who)
    \/ (r \in OwnFamily(who) <=> s \in OwnFamily(who)) /\ Earlier(r, s)

\* The reviewers offered are all that may review, each before those it precedes.
LEMMA ReviewersAre ==
    ASSUME setup \in Setups, ResourcesAccepted(setup),
           NEW who, NEW avail, NEW required, NEW private
    PROVE  LET all == MayReview(who, avail, required, private)
               order == Reviewers(who, avail, required, private)
           IN  /\ order \in Seq(all) /\ Range(order) = all
               /\ \A i, j \in DOMAIN order : i < j => Sooner(who, order[i], order[j])
  <1> DEFINE all == MayReview(who, avail, required, private)
             A == all \ OwnFamily(who)
             B == all \cap OwnFamily(who)
             a == Ordered(A)
             b == Ordered(B)
  <1>1. A \subseteq DOMAIN Resource /\ B \subseteq DOMAIN Resource
    BY DEF MayReview, Foreign
  <1>2. Reviewers(who, avail, required, private) = Both(a, b)
    BY DEF Reviewers, Both
  <1>3. /\ \A r, s \in A : Earlier(r, s) => Sooner(who, r, s)
        /\ \A r, s \in B : Earlier(r, s) => Sooner(who, r, s)
        /\ \A r \in A, s \in B : Sooner(who, r, s)
    BY DEF Sooner
  <1>4. A \cup B = all
    OBVIOUS
  <1> HIDE DEF all, A, B
  <1>5. /\ a \in Seq(A) /\ Range(a) = A
        /\ \A i, j \in DOMAIN a : i < j => Earlier(a[i], a[j])
    BY <1>1, OrderedIs
  <1>6. /\ b \in Seq(B) /\ Range(b) = B
        /\ \A i, j \in DOMAIN b : i < j => Earlier(b[i], b[j])
    BY <1>1, OrderedIs
  <1> HIDE DEF a, b
  <1>7. /\ \A i \in DOMAIN a : a[i] \in A
        /\ \A i \in DOMAIN b : b[i] \in B
    BY <1>5, <1>6 DEF Range
  <1>8. Lists(a, all) /\ Lists(b, all)
    BY <1>4, <1>5, <1>6 DEF Lists
  <1>9. /\ Lists(Both(a, b), all) /\ Range(Both(a, b)) = Range(a) \cup Range(b)
        /\ Splits(Both(a, b), a, b)
    BY <1>8, Joined
  <1>10. Both(a, b) \in Seq(all) /\ Range(Both(a, b)) = all
    BY <1>4, <1>5, <1>6, <1>9 DEF Lists
  <1>11. ASSUME NEW i \in DOMAIN Both(a, b), NEW j \in DOMAIN Both(a, b), i < j
         PROVE  Sooner(who, Both(a, b)[i], Both(a, b)[j])
    <2>1. \/ i \in DOMAIN a /\ j \in DOMAIN a /\ Both(a, b)[i] = a[i] /\ Both(a, b)[j] = a[j]
          \/ Both(a, b)[i] \in Range(a) /\ Both(a, b)[j] \in Range(b)
          \/ \E k, l \in DOMAIN b : k < l /\ Both(a, b)[i] = b[k] /\ Both(a, b)[j] = b[l]
      BY <1>9, <1>11 DEF Splits
    <2>2. CASE i \in DOMAIN a /\ j \in DOMAIN a /\ Both(a, b)[i] = a[i] /\ Both(a, b)[j] = a[j]
      BY <2>2, <1>3, <1>5, <1>7, <1>11
    <2>3. CASE Both(a, b)[i] \in Range(a) /\ Both(a, b)[j] \in Range(b)
      BY <2>3, <1>3, <1>5, <1>6
    <2>4. CASE \E k, l \in DOMAIN b : k < l /\ Both(a, b)[i] = b[k] /\ Both(a, b)[j] = b[l]
      BY <2>4, <1>3, <1>6, <1>7
    <2> QED
      BY <2>1, <2>2, <2>3, <2>4
  <1> QED
    BY <1>2, <1>10, <1>11 DEF all

-----------------------------------------------------------------------------
Model == [place : Nat \ {0}, free : BOOLEAN, go : BOOLEAN]
Part == {ask.run : ask \in Asks} \cup {"standalone-orchestrator"} \cup {FreshRun[i] : i \in 1..MaxRuns}

Proc == [by : Nat, given : BOOLEAN, role : {ask.role : ask \in Asks} \cup {"worker", "orchestrator"},
         run : Seq(Part) \ {<<>>}, parent : {<<ask.parent>> : ask \in Asks} \cup Seq(Part),
         handoff : {ask.handoff : ask \in Asks},
         executor : UNION {DOMAIN s.executors : s \in Setups},
         resource : {None} \cup UNION {DOMAIN s.resources : s \in Setups},
         place : {ask.workdir : ask \in Asks} \X {ask.targets : ask \in Asks},
         config : Model \cup {Unset}, carriers : BOOLEAN, over : BOOLEAN]

\* What is launched is of its type, and no more of it than the bound says.
LaunchTypeOK ==
    /\ setup \in Setups
    /\ procs \in Seq(Proc) /\ Len(procs) <= MaxRuns
    /\ DOMAIN choice \subseteq {1}

\* A process was launched by one that was there.
LaunchersFirst == \A i \in DOMAIN procs : procs[i].by < i

\* Who was told no id is standalone, or the last part of its id is its own.
OwnId(id, i) == id = Standalone \/ (Len(id) > 1 /\ id[Len(id)] = FreshRun[i])
IdsOwn == \A i \in DOMAIN procs : ~procs[i].given => OwnId(procs[i].run, i)

\* A report is one of a process whose id leads there.
FilesOfRuns ==
    \A f \in DOMAIN files : files[f] \in DOMAIN procs /\ SafeRunId(procs[files[f]].run) = f

LaunchIInv ==
    /\ LaunchTypeOK /\ LaunchersFirst /\ IdsOwn /\ FilesOfRuns
    /\ NoEscalation /\ ReviewerIndependent /\ ConfigurationTraced /\ Confined /\ ChoiceJustified

\* A process is what it was but for whether it is over.
Alike(p, q) ==
    /\ p.by = q.by /\ p.given = q.given /\ p.role = q.role /\ p.run = q.run
    /\ p.parent = q.parent /\ p.handoff = q.handoff /\ p.executor = q.executor
    /\ p.resource = q.resource /\ p.place = q.place /\ p.config = q.config
    /\ p.carriers = q.carriers

\* What an invocation makes of what it says and of the environment it is in.
Made(p, by, ask) ==
    /\ p.by = by /\ p.given = (ask.run # None)
    /\ p.role = EffectiveRole(ask.role, Process(by))
    /\ p.run = NamedRun(EffectiveRun(ask.run, Process(by)))
    /\ p.handoff = ask.handoff
    /\ p.executor = Meant(setup, ask.selector).executor
    /\ p.resource = Meant(setup, ask.selector).resource
    /\ p.place = <<ask.workdir, ask.targets>>
    /\ \E listing \in Answers(Found), login \in Answers(BOOLEAN) :
         \E model \in Models(p.resource, listing, login) :
           /\ p.config = Merged(Process(by), Overlay(model)).config
           /\ p.carriers = Merged(Process(by), Overlay(model)).carriers

\* What a launch found in order.
Allowed(by, ask) ==
    LET env == Process(by)
        role == EffectiveRole(ask.role, env)
        use == Meant(setup, ask.selector)
    IN  /\ ~Elevates(ask.role, env)
        /\ Prepared(setup, ask)
        /\ role # "orchestrator" => HandoffThere(ask.handoff)
        /\ role = "reviewer" =>
             Gate(use.executor, use.resource, Implementer(Package(ask.handoff)))

\* The place of the least model is there.
LEMMA FirstIs ==
    ASSUME NEW S \in SUBSET Model, S # {}
    PROVE  First(S) \in S
  <1> DEFINE places == {m.place : m \in S}
  <1>1. places \in SUBSET Nat /\ places # {}
    BY DEF Model
  <1> HIDE DEF places
  <1>2. PICK x \in places : \A y \in places : x <= y
    BY <1>1, NatMin
  <1>3. \E m \in S : \A n \in S : m.place <= n.place
    BY <1>2 DEF places
  <1> QED
    BY <1>3 DEF First

\* A model that was resolved is one, and of the kind the resource asks for.
LEMMA ModelsAre ==
    ASSUME NEW resource, NEW listing \in Answers(Found), NEW login \in Answers(BOOLEAN),
           NEW model \in Models(resource, listing, login)
    PROVE  /\ model \in Model \cup {Unset}
           /\ resource = None \/ Resource[resource].model_resolution \in Inherited => model = Unset
           /\ resource # None /\ Resource[resource].model_resolution = "dynamic_free" =>
                model \in Model /\ model.free
           /\ resource # None /\ Resource[resource].model_resolution = "dynamic_go" => model \in Model
  <1>1. Listed(listing) \in SUBSET Model
    BY FoundAssumption DEF Answers, Listed, Model
  <1>2. \A found \in SUBSET Model : \A m \in FreeModel(found) : m \in Model /\ m.free
    <2> SUFFICES ASSUME NEW found \in SUBSET Model, NEW m \in FreeModel(found)
                 PROVE  m \in Model /\ m.free
      OBVIOUS
    <2> DEFINE S == {c \in found : c.free /\ ~c.go}
    <2>1. S \in SUBSET Model
      OBVIOUS
    <2>2. S # {} /\ m = First(S)
      BY DEF FreeModel
    <2>3. m \in S
      BY <2>1, <2>2, FirstIs
    <2> QED
      BY <2>3
  <1>3. \A credential : \A found \in SUBSET Model : \A m \in GoModel(found, credential) : m \in Model
    BY FirstIs DEF GoModel
  <1> QED
    BY <1>1, <1>2, <1>3 DEF Models, Inherited

\* No model is taken for none.
LEMMA UnsetNoModel == Unset \notin Model
  BY DEF Unset, Model

\* The environment a process hands down.
LEMMA Environment ==
    ASSUME LaunchTypeOK, NEW by \in 0..Len(procs)
    PROVE  /\ Process(by).config \in Model \cup {Unset} /\ Process(by).carriers \in BOOLEAN
           /\ Process(by).run \in Seq(Part) /\ (Process(by).run = <<>> => by = 0)
  <1>1. CASE by = 0
    BY <1>1 DEF Process, Shell
  <1>2. CASE by # 0
    <2>1. procs[by] \in Proc
      BY <1>2 DEF LaunchTypeOK
    <2>2. Process(by) = procs[by]
      BY <1>2 DEF Process
    <2> QED
      BY <1>2, <2>1, <2>2 DEF Proc
  <1> QED
    BY <1>1, <1>2

\* A launch makes one process more, of what it found in order.
LEMMA OneMore ==
    ASSUME LaunchTypeOK, NEW by \in 0..Len(procs), NEW ask \in Asks, RunAgent(by, ask)
    PROVE  /\ Allowed(by, ask) /\ Len(procs) < MaxRuns
           /\ UNCHANGED <<setup, files, choice>>
           /\ \E p \in Proc : procs' = Append(procs, p) /\ Made(p, by, ask)
  <1> DEFINE env == Process(by)
             role == EffectiveRole(ask.role, env)
             id == EffectiveRun(ask.run, env)
             parent == EffectiveParent(ask.parent, env)
             use == Meant(setup, ask.selector)
  <1>1. Allowed(by, ask) /\ Len(procs) < MaxRuns /\ UNCHANGED <<setup, files, choice>>
    BY DEF RunAgent, Allowed
  <1>2. PICK listing \in Answers(Found), login \in Answers(BOOLEAN) :
          \E model \in Models(use.resource, listing, login) :
               procs' = Append(procs,
                 [by |-> by, given |-> ask.run # None, role |-> role, run |-> NamedRun(id),
                  parent |-> parent, handoff |-> ask.handoff, executor |-> use.executor,
                  resource |-> use.resource, place |-> <<ask.workdir, ask.targets>>,
                  config |-> Merged(env, Overlay(model)).config,
                  carriers |-> Merged(env, Overlay(model)).carriers, over |-> FALSE])
    BY DEF RunAgent
  <1>3. PICK model \in Models(use.resource, listing, login) :
               procs' = Append(procs,
                 [by |-> by, given |-> ask.run # None, role |-> role, run |-> NamedRun(id),
                  parent |-> parent, handoff |-> ask.handoff, executor |-> use.executor,
                  resource |-> use.resource, place |-> <<ask.workdir, ask.targets>>,
                  config |-> Merged(env, Overlay(model)).config,
                  carriers |-> Merged(env, Overlay(model)).carriers, over |-> FALSE])
    BY <1>2
  <1> DEFINE p == [by |-> by, given |-> ask.run # None, role |-> role, run |-> NamedRun(id),
                  parent |-> parent, handoff |-> ask.handoff, executor |-> use.executor,
                  resource |-> use.resource, place |-> <<ask.workdir, ask.targets>>,
                  config |-> Merged(env, Overlay(model)).config,
                  carriers |-> Merged(env, Overlay(model)).carriers, over |-> FALSE]
  <1>4. Made(p, by, ask)
    BY DEF Made
  <1>5. p \in Proc
    <2>1. by \in Nat /\ (ask.run # None) \in BOOLEAN
      BY DEF LaunchTypeOK
    <2>2. role \in {a.role : a \in Asks} \cup {"worker", "orchestrator"}
      BY DEF EffectiveRole
    <2>3. id \in Seq(Part)
      <3>1. Len(procs) + 1 \in 1..MaxRuns
        BY <1>1, RunsAssumption DEF LaunchTypeOK
      <3>2. FreshRun[Len(procs) + 1] \in Part /\ ask.run \in Part
        BY <3>1 DEF Part
      <3>3. env.run \in Seq(Part)
        BY Environment
      <3> QED
        BY <3>2, <3>3 DEF EffectiveRun
    <2>4. NamedRun(id) \in Seq(Part) \ {<<>>}
      BY <2>3 DEF NamedRun, Standalone, Part
    <2>5. parent \in {<<a.parent>> : a \in Asks} \cup Seq(Part)
      BY Environment DEF EffectiveParent
    <2>6. use.executor \in UNION {DOMAIN s.executors : s \in Setups}
      BY <1>1 DEF Allowed, Prepared, Selectable, LaunchTypeOK
    <2>7. use.resource \in {None} \cup UNION {DOMAIN s.resources : s \in Setups}
      <3>1. use.resource \in DOMAIN setup.resources \cup {None}
        BY DEF Meant
      <3>2. setup \in Setups
        BY DEF LaunchTypeOK
      <3> QED
        BY <3>1, <3>2
    <2>8. Merged(env, Overlay(model)).config \in Model \cup {Unset}
          /\ Merged(env, Overlay(model)).carriers \in BOOLEAN
      BY <1>2, <1>3, ModelsAre, Environment DEF Merged, Overlay
    <2> HIDE DEF env, role, id, parent, use
    <2>9. <<ask.workdir, ask.targets>> \in {a.workdir : a \in Asks} \X {a.targets : a \in Asks}
          /\ ask.handoff \in {a.handoff : a \in Asks}
      OBVIOUS
    <2> QED
      BY <2>1, <2>2, <2>4, <2>5, <2>6, <2>7, <2>8, <2>9 DEF Proc
  <1>6. procs' = Append(procs, p)
    BY <1>3
  <1> HIDE DEF p
  <1> QED
    BY <1>1, <1>4, <1>5, <1>6

\* Along no names a walk stays.
LEMMA WalkNowhere ==
    ASSUME NEW place
    PROVE  Walk(place, <<>>).place = place
  <1> DEFINE root == [place |-> place, there |-> TRUE]
             next(i, at) == IF at.there /\ at.place \in DOMAIN Tree /\ <<>>[i] \in DOMAIN Tree[at.place]
                 THEN [at EXCEPT !.place = Tree[at.place][<<>>[i]]]
                 ELSE [at EXCEPT !.there = FALSE]
             top(s) == CHOOSE x \in s : \A y \in s : x >= y
             f == CHOOSE g : g = [s \in SUBSET {} |-> IF s = {} THEN root ELSE next(top(s), g[s \ {top(s)}])]
  <1>1. DOMAIN <<>> = {}
    OBVIOUS
  <1>2. Walk(place, <<>>) = f[{}]
    BY <1>1 DEF Walk, FoldLeft, MapThenFoldSet, Max
  <1>3. \E g : g = [s \in SUBSET {} |-> IF s = {} THEN root ELSE next(top(s), g[s \ {top(s)}])]
    <2> DEFINE g == [s \in SUBSET {} |-> root]
    <2>1. \A s \in SUBSET {} : s = {}
      OBVIOUS
    <2> HIDE DEF next, top, root
    <2>2. \A s \in SUBSET {} : root = IF s = {} THEN root ELSE next(top(s), g[s \ {top(s)}])
      BY <2>1
    <2>3. g = [s \in SUBSET {} |-> IF s = {} THEN root ELSE next(top(s), g[s \ {top(s)}])]
      BY <2>2
    <2> HIDE DEF g
    <2> QED
      BY <2>3
  <1>4. f = [s \in SUBSET {} |-> IF s = {} THEN root ELSE next(top(s), f[s \ {top(s)}])]
    <2> HIDE DEF next, top, root
    <2> QED
      BY <1>3
  <1> HIDE DEF f, next, top
  <1>5. f[{}] = root
    BY <1>4
  <1> QED
    BY <1>2, <1>5

-----------------------------------------------------------------------------
\* Orchestrators are launched from the shell.
LEMMA NoEscalationNew ==
    ASSUME LaunchTypeOK, NEW by \in 0..Len(procs), NEW ask \in Asks, NEW p,
           Allowed(by, ask), Made(p, by, ask), p.role = "orchestrator"
    PROVE  p.by = 0
  <1>1. Process(by).run = <<>>
    BY DEF Allowed, Made, Elevates, EffectiveRole, None
  <1> QED
    BY <1>1, Environment DEF Made

Independent(p) ==
    LET who == Implementer(Package(p.handoff))
    IN  /\ p.executor # who.executor
        /\ p.resource # None => Resource[p.resource].model_resolution # who.resolution

\* A reviewer that is let through is independent.
LEMMA IndependentNew ==
    ASSUME LaunchTypeOK, NEW by \in 0..Len(procs), NEW ask \in Asks, NEW p,
           Allowed(by, ask), Made(p, by, ask), p.role = "reviewer"
    PROVE  Independent(p)
  <1> DEFINE who == Implementer(Package(p.handoff))
             anyone == [r \in DOMAIN Resource |-> "AVAILABLE"]
  <1>1. Gate(p.executor, p.resource, who)
    BY DEF Allowed, Made
  <1>2. CASE p.resource = None
    BY <1>1, <1>2 DEF Gate, Independent
  <1>3. CASE p.resource # None
    <2>1. p.resource \in Range(Reviewers(who, anyone, {}, FALSE))
      BY <1>1, <1>3 DEF Gate
    <2>2. ResourcesAccepted(setup) /\ setup \in Setups
      BY <1>1 DEF Gate, LaunchTypeOK
    <2> HIDE DEF who, anyone
    <2>3. Range(Reviewers(who, anyone, {}, FALSE)) = MayReview(who, anyone, {}, FALSE)
      BY <2>2, ReviewersAre
    <2>4. p.resource \in Foreign(who)
      BY <2>1, <2>3 DEF MayReview
    <2>5. p.executor = Resource[p.resource].executor
      BY <1>3 DEF Made, Meant, Resource
    <2> QED
      BY <2>4, <2>5 DEF Foreign, Independent, who
  <1> QED
    BY <1>2, <1>3

\* The configuration is the operator's.
AsShell(p) == p.config = Shell.config /\ p.carriers = Shell.carriers

\* A process of a cloud resource has that one's model.
Clouded(p) ==
    /\ p.resource \in {"opencode-free", "opencode-go"} \/ ~MachineLocal(p) => OwnModel(p)
    /\ p.resource = "opencode-free" => p.config.free

\* A process is given its resource's model, or what its launcher had.
LEMMA TracedNew ==
    ASSUME LaunchTypeOK, NEW by \in 0..Len(procs), NEW ask \in Asks, NEW p,
           Allowed(by, ask), Made(p, by, ask)
    PROVE  /\ Clouded(p)
           /\ MachineLocal(p) =>
                p.config = Process(by).config /\ p.carriers = Process(by).carriers
  <1> DEFINE env == Process(by)
             r == Resource[p.resource]
  <1>1. PICK listing \in Answers(Found), login \in Answers(BOOLEAN) :
          \E model \in Models(p.resource, listing, login) :
            /\ p.config = Merged(env, Overlay(model)).config
            /\ p.carriers = Merged(env, Overlay(model)).carriers
    BY DEF Made
  <1>2. PICK model \in Models(p.resource, listing, login) :
            /\ p.config = Merged(env, Overlay(model)).config
            /\ p.carriers = Merged(env, Overlay(model)).carriers
    BY <1>1
  <1>3. env.carriers \in BOOLEAN
    BY Environment
  <1>4. model = Unset => p.config = env.config /\ p.carriers = env.carriers
    BY <1>2, <1>3 DEF Merged, Overlay
  <1>5. model # Unset => p.config = model /\ p.carriers = FALSE
    BY <1>2 DEF Merged, Overlay
  <1>6. CASE p.resource = None
    <2>1. model = Unset
      BY <1>6, ModelsAre
    <2>2. p.resource \notin {"opencode-free", "opencode-go"} /\ MachineLocal(p)
      BY <1>6 DEF MachineLocal, None
    <2> QED
      BY <2>1, <2>2, <1>4 DEF Clouded
  <1>7. CASE p.resource # None
    <2>1. setup.listed /\ p.resource \in DOMAIN setup.resources /\ ResourcesAccepted(setup)
      BY <1>7 DEF Made, Meant, Allowed, Prepared, Selectable
    <2>2. r.model_resolution \in Resolution(p.resource)
      BY <2>1 DEF ResourcesAccepted, Resolves, Resource
    <2>3. CASE r.model_resolution \in Inherited
      <3>1. model = Unset
        BY <2>3, ModelsAre
      <3>2. p.resource \notin {"opencode-free", "opencode-go"} /\ MachineLocal(p)
        BY <2>2, <2>3 DEF Resolution, Inherited, MachineLocal
      <3> QED
        BY <3>1, <3>2, <1>4 DEF Clouded
    <2>4. CASE r.model_resolution = "dynamic_free"
      <3>1. model \in Model /\ model.free
        BY <1>7, <2>4, ModelsAre
      <3>2. ~MachineLocal(p)
        BY <1>7, <2>2, <2>4 DEF Resolution, MachineLocal, Inherited
      <3>3. model # Unset
        BY <3>1, UnsetNoModel
      <3> QED
        BY <3>1, <3>2, <3>3, <1>5 DEF Clouded, OwnModel
    <2>5. CASE r.model_resolution = "dynamic_go"
      <3>1. model \in Model
        BY <1>7, <2>5, ModelsAre
      <3>2. p.resource # "opencode-free" /\ ~MachineLocal(p)
        BY <1>7, <2>2, <2>5 DEF Resolution, MachineLocal, Inherited
      <3>3. model # Unset
        BY <3>1, UnsetNoModel
      <3> QED
        BY <3>1, <3>2, <3>3, <1>5 DEF Clouded, OwnModel
    <2>6. r.model_resolution \in Inherited \cup {"dynamic_free", "dynamic_go"}
      BY <2>2 DEF Resolution, MODEL_RESOLUTION_POLICIES, Inherited
    <2> QED
      BY <2>3, <2>4, <2>5, <2>6
  <1> QED
    BY <1>6, <1>7

\* Where a process works and what it may touch.
Stays(p) ==
    LET workdir == p.place[1]
    IN  /\ Within(workdir, Workspace)
        /\ \A names \in p.place[2] : Within(Walk(workdir, Normal(names)).place, workdir)
        /\ p.role # "orchestrator" => Within(Walk(Workspace, p.handoff).place, Workspace)

\* A process that is launched stays where it may work.
LEMMA StaysNew ==
    ASSUME NEW by, NEW ask \in Asks, NEW p, Allowed(by, ask), Made(p, by, ask)
    PROVE  Stays(p)
  <1> DEFINE workdir == ask.workdir
  <1>1. p.place[1] = workdir /\ p.place[2] = ask.targets
    BY DEF Made
  <1>2. Within(workdir, Workspace)
    BY DEF Allowed, Prepared, WorkdirFits
  <1>3. ASSUME NEW names \in ask.targets
        PROVE  Within(Walk(workdir, Normal(names)).place, workdir)
    <2> DEFINE normal == Normal(names)
    <2>1. normal \in Seq(STRING)
      BY AsksAssumption, NormalIsPath
    <2>2. \A n \in 1..Len(normal) : Within(Walk(workdir, SubSeq(normal, 1, n)).place, workdir)
      BY DEF Allowed, Prepared, TargetStays
    <2> HIDE DEF normal
    <2>3. CASE Len(normal) = 0
      <3>1. normal = <<>>
        BY <2>1, <2>3
      <3>2. Walk(workdir, normal).place = workdir
        BY <3>1, WalkNowhere
      <3>3. Within(workdir, workdir)
        BY DEF Within, Up
      <3> QED
        BY <3>2, <3>3 DEF normal
    <2>4. CASE Len(normal) # 0
      <3>1. Len(normal) \in 1..Len(normal)
        BY <2>1, <2>4
      <3>2. SubSeq(normal, 1, Len(normal)) = normal
        BY <2>1
      <3>3. Within(Walk(workdir, SubSeq(normal, 1, Len(normal))).place, workdir)
        BY <2>2, <3>1
      <3> QED
        BY <3>2, <3>3 DEF normal
    <2> QED
      BY <2>3, <2>4
  <1>4. p.role # "orchestrator" => Within(Walk(Workspace, p.handoff).place, Workspace)
    BY DEF Allowed, Made, HandoffThere
  <1> QED
    BY <1>1, <1>2, <1>3, <1>4 DEF Stays

-----------------------------------------------------------------------------
\* A sequence and one more.
LEMMA Longer ==
    ASSUME NEW S, NEW s \in Seq(S), NEW x \in S
    PROVE  /\ Append(s, x) \in Seq(S) /\ Len(s) \in Nat /\ Len(Append(s, x)) = Len(s) + 1
           /\ DOMAIN s = 1..Len(s) /\ DOMAIN Append(s, x) = 1..(Len(s) + 1)
           /\ \A i \in DOMAIN s : Append(s, x)[i] = s[i]
           /\ Append(s, x)[Len(s) + 1] = x
  OBVIOUS

\* What a step leaves of the processes there were.
LEMMA Launched ==
    ASSUME LaunchTypeOK, LaunchersFirst,
           NEW by \in 0..Len(procs), NEW ask \in Asks, RunAgent(by, ask)
    PROVE  \E p \in Proc :
             /\ p.by = by /\ Made(p, by, ask) /\ Allowed(by, ask)
             /\ procs' \in Seq(Proc) /\ Len(procs') = Len(procs) + 1 /\ Len(procs) < MaxRuns
             /\ \A i \in DOMAIN procs' :
                  \/ i \in DOMAIN procs /\ procs'[i] = procs[i] /\ procs[i].by < i
                  \/ i = Len(procs) + 1 /\ procs'[i] = p
             /\ DOMAIN procs \subseteq DOMAIN procs'
             /\ \A i \in DOMAIN procs : procs'[i] = procs[i]
             /\ UNCHANGED <<setup, files, choice>>
  <1>1. PICK p \in Proc : procs' = Append(procs, p) /\ Made(p, by, ask)
    BY OneMore
  <1>2. Allowed(by, ask) /\ Len(procs) < MaxRuns /\ UNCHANGED <<setup, files, choice>>
    BY OneMore
  <1>3. procs \in Seq(Proc)
    BY DEF LaunchTypeOK
  <1>4. /\ procs' \in Seq(Proc) /\ Len(procs) \in Nat /\ Len(procs') = Len(procs) + 1
        /\ DOMAIN procs = 1..Len(procs) /\ DOMAIN procs' = 1..(Len(procs) + 1)
        /\ \A i \in DOMAIN procs : procs'[i] = procs[i]
        /\ procs'[Len(procs) + 1] = p
    BY <1>1, <1>3, Longer
  <1>5. \A i \in DOMAIN procs : procs[i].by < i
    BY DEF LaunchersFirst
  <1>6. p.by = by
    BY <1>1 DEF Made
  <1>7. ASSUME NEW i \in DOMAIN procs'
        PROVE  \/ i \in DOMAIN procs /\ procs'[i] = procs[i] /\ procs[i].by < i
               \/ i = Len(procs) + 1 /\ procs'[i] = p
    <2>1. CASE i \in DOMAIN procs
      BY <2>1, <1>4, <1>5
    <2>2. CASE i \notin DOMAIN procs
      BY <2>2, <1>4
    <2> QED
      BY <2>1, <2>2
  <1>8. DOMAIN procs \subseteq DOMAIN procs'
    BY <1>4
  <1> QED
    BY <1>1, <1>2, <1>4, <1>6, <1>7, <1>8

\* The end of a process leaves everything of it but that it is over.
LEMMA Ended ==
    ASSUME LaunchTypeOK, NEW i \in DOMAIN procs, End(i)
    PROVE  /\ procs' \in Seq(Proc) /\ Len(procs') = Len(procs) /\ DOMAIN procs' = DOMAIN procs
           /\ \A j \in DOMAIN procs : Alike(procs'[j], procs[j])
           /\ \A j \in DOMAIN procs : procs[j] \in Proc
           /\ files' = [f \in DOMAIN files \cup {SafeRunId(procs[i].run)} |->
                          IF f = SafeRunId(procs[i].run) THEN i ELSE files[f]]
           /\ UNCHANGED <<setup, choice>>
  <1>1. procs \in Seq(Proc) /\ procs' = [procs EXCEPT ![i].over = TRUE]
    BY DEF End, LaunchTypeOK
  <1>2. DOMAIN procs = 1..Len(procs) /\ Len(procs) \in Nat
        /\ \A j \in DOMAIN procs : procs[j] \in Proc
    BY <1>1
  <1>3. DOMAIN procs' = DOMAIN procs
    BY <1>1
  <1>4. \A j \in DOMAIN procs : procs'[j] = IF j = i THEN [procs[i] EXCEPT !.over = TRUE] ELSE procs[j]
    BY <1>1
  <1>5. \A p \in Proc : [p EXCEPT !.over = TRUE] \in Proc /\ Alike([p EXCEPT !.over = TRUE], p)
    BY DEF Proc, Alike
  <1>6. \A j \in DOMAIN procs : procs'[j] \in Proc
    BY <1>2, <1>4, <1>5
  <1>7. procs' = [j \in 1..Len(procs) |-> procs'[j]]
    BY <1>1, <1>2
  <1>8. procs' \in [1..Len(procs) -> Proc]
    BY <1>2, <1>6, <1>7
  <1>9. procs' \in Seq(Proc) /\ Len(procs') = Len(procs)
    BY <1>2, <1>8
  <1>10. \A j \in DOMAIN procs : Alike(procs'[j], procs[j])
    <2>1. \A p : Alike(p, p)
      BY DEF Alike
    <2>2. Alike(procs'[i], procs[i])
      BY <1>2, <1>4, <1>5
    <2> QED
      BY <2>1, <2>2, <1>4
  <1> QED
    BY <1>2, <1>3, <1>9, <1>10 DEF End

\* A question launches nothing.
LEMMA Asked ==
    ASSUME NEW who, NEW avail, NEW required, NEW private,
           NEW ready,
           \/ ChooseReviewer(who, avail, required, private)
           \/ ChooseOrchestrator(ready)
    PROVE  UNCHANGED <<setup, procs, files>> /\ DOMAIN choice' = {1} /\ procs = <<>>
  BY DEF ChooseReviewer, ChooseOrchestrator

-----------------------------------------------------------------------------
\* Nothing is launched at first, so the invariant holds.
LEMMA LaunchStarts == LaunchInit => LaunchIInv
  <1> SUFFICES ASSUME LaunchInit PROVE LaunchIInv
    OBVIOUS
  <1>1. DOMAIN procs = {} /\ DOMAIN files = {} /\ DOMAIN choice = {}
    BY DEF LaunchInit
  <1>2. LaunchTypeOK
    BY <1>1, RunsAssumption DEF LaunchInit, LaunchTypeOK
  <1> QED
    BY <1>1, <1>2 DEF LaunchIInv, LaunchersFirst, IdsOwn, FilesOfRuns, NoEscalation,
       ReviewerIndependent, ConfigurationTraced, Confined, ChoiceJustified

\* The answer of a reviewer selection among res follows the rules.
Follows(res, who, avail, required, private, order) ==
    LET own(r) == \E s \in DOMAIN res :
                    /\ res[s].cost_tier = res[r].cost_tier
                    /\ \/ res[s].executor = who.executor
                       \/ res[s].model_resolution = who.resolution
        listed(r) == \E i \in DOMAIN Preferred : Preferred[i] = r
        rank(r) == CHOOSE i \in DOMAIN Preferred : Preferred[i] = r
        before(r, s) ==
            \/ res[r].selection_priority < res[s].selection_priority
            \/ res[r].selection_priority = res[s].selection_priority /\ Lexical[r] < Lexical[s]
    IN  /\ \A r \in DOMAIN res :
             r \in Range(order) <=>
               /\ avail[r] = "AVAILABLE" /\ required \subseteq Range(res[r].capabilities)
               /\ private => res[r].data_sensitivity = "local-only"
               /\ res[r].executor # who.executor
               /\ res[r].model_resolution # who.resolution
        /\ \A i, j \in DOMAIN order : i < j =>
             LET r == order[i]  s == order[j]
             IN  \/ ~own(r) /\ own(s)
                 \/ /\ own(r) <=> own(s)
                    /\ \/ listed(r) /\ (listed(s) => rank(r) < rank(s))
                       \/ ~listed(r) /\ ~listed(s) /\ before(r, s)

\* What is said of an answer is that it follows the rules.
LEMMA ChoiceIs ==
    ChoiceJustified <=>
      \A k \in DOMAIN choice : "who" \in DOMAIN choice[k] =>
        Follows(Resource, choice[k].who, choice[k].avail, choice[k].required, choice[k].private,
                choice[k].order)
  BY Zenon DEF ChoiceJustified, Follows, Before

\* So after a step.
LEMMA ChoiceIsNext ==
    ChoiceJustified' <=>
      \A k \in DOMAIN choice' : "who" \in DOMAIN choice'[k] =>
        Follows(Resource', choice'[k].who, choice'[k].avail, choice'[k].required, choice'[k].private,
                choice'[k].order)
  BY Zenon DEF ChoiceJustified, Follows, Before

\* An answer stays as good as it was.
LEMMA ChoiceStays ==
    ASSUME ChoiceJustified, setup' = setup, choice' = choice
    PROVE  ChoiceJustified'
  <1>1. Resource' = Resource
    BY DEF Resource
  <1> QED
    BY <1>1, ChoiceIs, ChoiceIsNext

\* A launch keeps every part of the invariant.
LEMMA LaunchKeeps ==
    ASSUME LaunchIInv, NEW by \in 0..Len(procs), NEW ask \in Asks, RunAgent(by, ask)
    PROVE  LaunchIInv'
  <1>1. LaunchTypeOK /\ LaunchersFirst /\ Len(procs) \in Nat
    BY DEF LaunchIInv, LaunchTypeOK
  <1>2. PICK p \in Proc :
             /\ p.by = by /\ Made(p, by, ask) /\ Allowed(by, ask)
             /\ procs' \in Seq(Proc) /\ Len(procs') = Len(procs) + 1 /\ Len(procs) < MaxRuns
             /\ \A i \in DOMAIN procs' :
                  \/ i \in DOMAIN procs /\ procs'[i] = procs[i] /\ procs[i].by < i
                  \/ i = Len(procs) + 1 /\ procs'[i] = p
             /\ DOMAIN procs \subseteq DOMAIN procs'
             /\ \A i \in DOMAIN procs : procs'[i] = procs[i]
             /\ UNCHANGED <<setup, files, choice>>
    BY <1>1, Launched
  <1> DEFINE New(i) == i = Len(procs) + 1 /\ procs'[i] = p
             Old(i) == i \in DOMAIN procs /\ procs'[i] = procs[i]
  <1>3. \A i \in DOMAIN procs' : New(i) \/ Old(i)
    BY <1>2
  <1> HIDE DEF New, Old
  <1>4. LaunchTypeOK'
    BY <1>1, <1>2, RunsAssumption DEF LaunchTypeOK
  <1>5. LaunchersFirst'
    BY <1>1, <1>2 DEF LaunchersFirst
  <1>6. IdsOwn'
    <2>1. ~p.given => OwnId(p.run, Len(procs) + 1)
      <3>1. p.given = (ask.run # None) /\ p.run = NamedRun(EffectiveRun(ask.run, Process(by)))
        BY <1>2 DEF Made
      <3>2. Process(by).run \in Seq(Part)
        BY <1>1, Environment
      <3>3. CASE ask.run = None /\ Process(by).run # <<>>
        <4> DEFINE above == Process(by).run
                   own == FreshRun[Len(procs) + 1]
        <4>1. p.run = Append(above, own)
          BY <3>1, <3>2, <3>3 DEF NamedRun, EffectiveRun
        <4>2. above \in Seq(Part) /\ above # <<>>
          BY <3>2, <3>3
        <4> HIDE DEF above, own
        <4>3. Len(Append(above, own)) = Len(above) + 1 /\ Len(above) \in Nat \ {0}
              /\ Append(above, own)[Len(above) + 1] = own
          BY <4>2
        <4> QED
          BY <4>1, <4>3 DEF OwnId, own
      <3>4. CASE ask.run = None /\ Process(by).run = <<>>
        BY <3>1, <3>4 DEF NamedRun, EffectiveRun, OwnId
      <3> QED
        BY <3>1, <3>3, <3>4
    <2> QED
      BY <2>1, <1>3 DEF LaunchIInv, IdsOwn, New, Old
  <1>7. FilesOfRuns'
    BY <1>2 DEF LaunchIInv, FilesOfRuns
  <1>8. NoEscalation'
    <2>1. p.role = "orchestrator" => p.by = 0
      BY <1>1, <1>2, NoEscalationNew
    <2> QED
      BY <2>1, <1>3 DEF LaunchIInv, NoEscalation, New, Old
  <1>9. ReviewerIndependent'
    <2>1. p.role = "reviewer" => Independent(p)
      BY <1>1, <1>2, IndependentNew
    <2>2. Resource' = Resource
      BY <1>2 DEF Resource
    <2> QED
      BY <2>1, <2>2, <1>3 DEF LaunchIInv, ReviewerIndependent, Independent, New, Old
  <1>10. ConfigurationTraced'
    <2>1. Clouded(p)
          /\ (MachineLocal(p) => p.config = Process(by).config /\ p.carriers = Process(by).carriers)
      BY <1>1, <1>2, TracedNew
    <2>2. Resource' = Resource
      BY <1>2 DEF Resource
    <2>3. \A i \in DOMAIN procs' : Clouded(procs'[i])
      BY <2>1, <1>3 DEF LaunchIInv, ConfigurationTraced, Clouded, New, Old
    <2>4. ASSUME NEW S \in SUBSET DOMAIN procs',
                 \A i \in S : MachineLocal(procs'[i]) /\ procs'[i].by \in S \cup {0},
                 NEW i \in S
          PROVE  AsShell(procs'[i])
      <3> DEFINE n == Len(procs) + 1
                 T == S \ {n}
      <3>1. \A j \in T : j \in DOMAIN procs /\ procs'[j] = procs[j] /\ procs[j].by < j /\ j < n
        <4>1. DOMAIN procs = 1..Len(procs)
          BY <1>1 DEF LaunchIInv, LaunchTypeOK
        <4> QED
          BY <4>1, <1>1, <1>2
      <3>2. \A j \in T : MachineLocal(procs[j]) /\ procs[j].by \in T \cup {0}
        <4>1. \A j \in T : procs[j].by \in S \cup {0} /\ MachineLocal(procs[j])
          BY <2>4, <3>1
        <4>2. \A j \in T : procs[j].by # n
          <5>1. \A j \in T : j \in Nat /\ procs[j].by < j /\ j < n
            BY <3>1, <1>1 DEF LaunchTypeOK
          <5>2. \A j \in T : procs[j].by \in Nat
            <6>1. \A j \in DOMAIN procs : procs[j] \in Proc
              BY <1>1 DEF LaunchTypeOK
            <6> QED
              BY <6>1, <3>1 DEF Proc
          <5> QED
            BY <5>1, <5>2, <1>1
        <4> QED
          BY <4>1, <4>2
      <3>3. T \in SUBSET DOMAIN procs
        BY <3>1
      <3>4. \A j \in T : AsShell(procs[j])
        BY <3>2, <3>3 DEF LaunchIInv, ConfigurationTraced, AsShell
      <3>5. CASE i \in T
        BY <3>1, <3>4, <3>5
      <3>6. CASE i = n
        <4>1. procs'[i] = p
          BY <3>6, <1>1, <1>2 DEF LaunchTypeOK
        <4>2. MachineLocal(p) /\ p.by \in S \cup {0} /\ p.by = by
          BY <4>1, <2>4, <1>2
        <4>3. by # n
          BY <1>1
        <4>4. by \in T \cup {0}
          BY <4>2, <4>3
        <4>5. AsShell(Process(by))
          BY <4>4, <3>4 DEF Process, AsShell
        <4> QED
          BY <4>1, <4>2, <4>5, <2>1 DEF AsShell
      <3> QED
        BY <3>5, <3>6
    <2> QED
      BY <2>2, <2>3, <2>4 DEF ConfigurationTraced, Clouded, AsShell, MachineLocal
  <1>11. Confined'
    <2>1. Stays(p)
      BY <1>2, StaysNew
    <2> QED
      BY <2>1, <1>3 DEF LaunchIInv, Confined, Stays, New, Old
  <1>12. ChoiceJustified'
    <2>1. setup' = setup /\ choice' = choice
      BY <1>2
    <2> QED
      BY <2>1, ChoiceStays DEF LaunchIInv
  <1> QED
    BY <1>4, <1>5, <1>6, <1>7, <1>8, <1>9, <1>10, <1>11, <1>12 DEF LaunchIInv

\* So does the end of a process.
LEMMA EndKeeps ==
    ASSUME LaunchIInv, NEW i \in DOMAIN procs, End(i)
    PROVE  LaunchIInv'
  <1>1. LaunchTypeOK
    BY DEF LaunchIInv
  <1>2. /\ procs' \in Seq(Proc) /\ Len(procs') = Len(procs) /\ DOMAIN procs' = DOMAIN procs
        /\ \A j \in DOMAIN procs : Alike(procs'[j], procs[j])
        /\ \A j \in DOMAIN procs : procs[j] \in Proc
        /\ files' = [f \in DOMAIN files \cup {SafeRunId(procs[i].run)} |->
                       IF f = SafeRunId(procs[i].run) THEN i ELSE files[f]]
        /\ UNCHANGED <<setup, choice>>
    BY <1>1, Ended
  <1>3. \A j \in DOMAIN procs : procs[j].by \in {0} \cup DOMAIN procs
    <2>1. \A j \in DOMAIN procs : procs[j].by \in Nat
      <3>1. \A q \in Proc : q.by \in Nat
        BY DEF Proc
      <3> QED
        BY <3>1, <1>2
    <2>2. DOMAIN procs = 1..Len(procs) /\ Len(procs) \in Nat
      BY <1>1 DEF LaunchTypeOK
    <2> QED
      BY <2>1, <2>2 DEF LaunchIInv, LaunchersFirst
  <1>4. LaunchTypeOK'
    BY <1>1, <1>2 DEF LaunchTypeOK
  <1>5. LaunchersFirst'
    BY <1>2 DEF LaunchIInv, LaunchersFirst, Alike
  <1>6. IdsOwn'
    BY <1>2 DEF LaunchIInv, IdsOwn, Alike
  <1>7. FilesOfRuns'
    <2>1. \A f \in DOMAIN files :
            files[f] \in DOMAIN procs /\ SafeRunId(procs[files[f]].run) = f
      BY DEF LaunchIInv, FilesOfRuns
    <2>2. ASSUME NEW f \in DOMAIN files'
          PROVE  files'[f] \in DOMAIN procs /\ SafeRunId(procs[files'[f]].run) = f
      BY <1>2, <2>1
    <2>3. \A j \in DOMAIN procs : procs'[j].run = procs[j].run
      BY <1>2 DEF Alike
    <2>4. \A j \in DOMAIN procs : SafeRunId(procs'[j].run) = SafeRunId(procs[j].run)
      BY <2>3
    <2> QED
      BY <1>2, <2>2, <2>4 DEF FilesOfRuns
  <1>8. NoEscalation'
    BY <1>2 DEF LaunchIInv, NoEscalation, Alike
  <1>9. ReviewerIndependent'
    <2>1. Resource' = Resource
      BY <1>2 DEF Resource
    <2> QED
      BY <2>1, <1>2 DEF LaunchIInv, ReviewerIndependent, Alike
  <1>10. ConfigurationTraced'
    <2>1. Resource' = Resource
      BY <1>2 DEF Resource
    <2>2. \A j \in DOMAIN procs :
            /\ procs'[j].by = procs[j].by /\ procs'[j].resource = procs[j].resource
            /\ procs'[j].config = procs[j].config /\ procs'[j].carriers = procs[j].carriers
      BY <1>2 DEF Alike
    <2>3. \A j \in DOMAIN procs :
            /\ MachineLocal(procs[j])' <=> MachineLocal(procs[j])
            /\ OwnModel(procs[j])' <=> OwnModel(procs[j])
      BY <2>1, <2>2 DEF MachineLocal, OwnModel
    <2>4. \A j \in DOMAIN procs' : Clouded(procs[j])'
      BY <1>2, <2>2, <2>3 DEF LaunchIInv, ConfigurationTraced, Clouded
    <2>5. ASSUME NEW S \in SUBSET DOMAIN procs',
                 \A j \in S : MachineLocal(procs[j])' /\ procs'[j].by \in S \cup {0}
          PROVE  \A j \in S : AsShell(procs[j])'
      <3>1. \A j \in S : MachineLocal(procs[j]) /\ procs[j].by \in S \cup {0}
        BY <2>5, <2>2, <2>3, <1>2
      <3>2. \A j \in S : AsShell(procs[j])
        BY <3>1, <1>2 DEF LaunchIInv, ConfigurationTraced, AsShell
      <3> QED
        BY <3>2, <2>2, <1>2 DEF AsShell, Shell
    <2> QED
      BY <2>4, <2>5 DEF ConfigurationTraced, Clouded, AsShell
  <1>11. Confined'
    BY <1>2 DEF LaunchIInv, Confined, Alike
  <1>12. ChoiceJustified'
    <2>1. setup' = setup /\ choice' = choice
      BY <1>2
    <2> QED
      BY <2>1, ChoiceStays DEF LaunchIInv
  <1> QED
    BY <1>4, <1>5, <1>6, <1>7, <1>8, <1>9, <1>10, <1>11, <1>12 DEF LaunchIInv

\* The reviewers offered follow the rules.
LEMMA ReviewersFollow ==
    ASSUME setup \in Setups, ResourcesAccepted(setup),
           NEW who, NEW avail, NEW required, NEW private
    PROVE  Follows(Resource, who, avail, required, private, Reviewers(who, avail, required, private))
  <1> DEFINE all == MayReview(who, avail, required, private)
             order == Reviewers(who, avail, required, private)
             own(r) == \E s \in DOMAIN Resource :
                         /\ Resource[s].cost_tier = Resource[r].cost_tier
                         /\ \/ Resource[s].executor = who.executor
                            \/ Resource[s].model_resolution = who.resolution
             listed(r) == \E i \in DOMAIN Preferred : Preferred[i] = r
  <1>1. /\ order \in Seq(all) /\ Range(order) = all
        /\ \A i, j \in DOMAIN order : i < j => Sooner(who, order[i], order[j])
    BY ReviewersAre
  <1>2. \A r \in DOMAIN Resource : own(r) <=> r \in OwnFamily(who)
    BY DEF OwnFamily, OwnTiers, Foreign
  <1>3. \A r : listed(r) <=> r \in Range(Preferred)
    BY DEF Range
  <1>4. \A i \in DOMAIN order : order[i] \in DOMAIN Resource
    <2>1. all \subseteq DOMAIN Resource
      BY DEF MayReview, Foreign
    <2> HIDE DEF all, order
    <2> QED
      BY <1>1, <2>1
  <1>5. \A r \in DOMAIN Resource :
          r \in all <=>
               /\ avail[r] = "AVAILABLE" /\ required \subseteq Range(Resource[r].capabilities)
               /\ private => Resource[r].data_sensitivity = "local-only"
               /\ Resource[r].executor # who.executor
               /\ Resource[r].model_resolution # who.resolution
    BY DEF MayReview, Foreign, Fit, Available
  <1> HIDE DEF all, order
  <1>6. ASSUME NEW i \in DOMAIN order, NEW j \in DOMAIN order, i < j
        PROVE  LET r == order[i]  s == order[j]
               IN  \/ ~own(r) /\ own(s)
                   \/ /\ own(r) <=> own(s)
                      /\ \/ listed(r) /\ (listed(s) => Listing(r) < Listing(s))
                         \/ ~listed(r) /\ ~listed(s) /\ Before(r, s)
    <2> DEFINE r == order[i]
               s == order[j]
    <2>1. Sooner(who, r, s) /\ r \in DOMAIN Resource /\ s \in DOMAIN Resource
      BY <1>1, <1>4, <1>6
    <2>2. (own(r) <=> r \in OwnFamily(who)) /\ (own(s) <=> s \in OwnFamily(who))
      BY <2>1, <1>2
    <2>3. (listed(r) <=> r \in Range(Preferred)) /\ (listed(s) <=> s \in Range(Preferred))
      BY <1>3
    <2> HIDE DEF own, listed, r, s
    <2>4. \/ ~own(r) /\ own(s)
          \/ /\ own(r) <=> own(s)
             /\ \/ listed(r) /\ (listed(s) => Listing(r) < Listing(s))
                \/ ~listed(r) /\ ~listed(s) /\ Before(r, s)
      BY <2>1, <2>2, <2>3, Zenon DEF Sooner, Earlier
    <2> QED
      BY <2>4 DEF r, s
  <1> QED
    BY <1>1, <1>5, <1>6, Zenon DEF Follows, Listing, Before, order

\* A selection launches nothing, and what it answers is justified.
LEMMA QuestionKeeps ==
    ASSUME LaunchIInv, NEW who, NEW avail, NEW required, NEW private, NEW ready,
           \/ ChooseReviewer(who, avail, required, private)
           \/ ChooseOrchestrator(ready)
    PROVE  LaunchIInv'
  <1>1. UNCHANGED <<setup, procs, files>> /\ DOMAIN choice' = {1}
    BY Asked
  <1>2. Resource' = Resource
    BY <1>1 DEF Resource
  <1>3. LaunchTypeOK' /\ LaunchersFirst' /\ IdsOwn' /\ FilesOfRuns'
    BY <1>1 DEF LaunchIInv, LaunchTypeOK, LaunchersFirst, IdsOwn, FilesOfRuns
  <1>4. NoEscalation' /\ ReviewerIndependent' /\ ConfigurationTraced' /\ Confined'
    BY <1>1, <1>2 DEF LaunchIInv, NoEscalation, ReviewerIndependent, ConfigurationTraced, Confined, MachineLocal, OwnModel
  <1>5. ChoiceJustified'
    <2>1. CASE ChooseReviewer(who, avail, required, private)
      <3>1. setup \in Setups /\ ResourcesAccepted(setup)
        BY <2>1 DEF ChooseReviewer, LaunchIInv, LaunchTypeOK
      <3>2. choice'[1] = [who |-> who, avail |-> avail, required |-> required, private |-> private,
                          order |-> Reviewers(who, avail, required, private)]
        BY <2>1 DEF ChooseReviewer
      <3>3. Follows(Resource, who, avail, required, private, Reviewers(who, avail, required, private))
        BY <3>1, ReviewersFollow
      <3>4. /\ choice'[1].who = who /\ choice'[1].avail = avail /\ choice'[1].required = required
            /\ choice'[1].private = private
            /\ choice'[1].order = Reviewers(who, avail, required, private)
        BY <3>2
      <3> QED
        BY <3>3, <3>4, <1>1, <1>2, ChoiceIsNext
    <2>2. CASE ChooseOrchestrator(ready)
      <3>1. choice'[1] = [ready |-> ready, selected |-> Priority[Selected(ready)]]
        BY <2>2 DEF ChooseOrchestrator
      <3>2. "who" \notin DOMAIN choice'[1]
        BY <3>1
      <3> QED
        BY <3>2, <1>1, ChoiceIsNext
    <2> QED
      BY <2>1, <2>2
  <1> QED
    BY <1>3, <1>4, <1>5 DEF LaunchIInv

\* The invariant of what is launched: every step keeps it.
LEMMA LaunchesStep == LaunchIInv /\ [LaunchNext]_launching => LaunchIInv'
  <1> SUFFICES ASSUME LaunchIInv, [LaunchNext]_launching PROVE LaunchIInv'
    OBVIOUS
  <1>1. ASSUME NEW by \in 0..Len(procs), NEW ask \in Asks, RunAgent(by, ask)
        PROVE  LaunchIInv'
    BY <1>1, LaunchKeeps
  <1>2. ASSUME NEW i \in DOMAIN procs, End(i)
        PROVE  LaunchIInv'
    BY <1>2, EndKeeps
  <1>3. ASSUME NEW who \in Identity, NEW avail \in [DOMAIN Resource -> {"AVAILABLE", "UNKNOWN"}],
               NEW required \in {{}, {"architecture"}}, NEW private \in BOOLEAN,
               ChooseReviewer(who, avail, required, private)
        PROVE  LaunchIInv'
    BY <1>3, QuestionKeeps
  <1>4. ASSUME NEW ready \in SUBSET DOMAIN Executor, ChooseOrchestrator(ready)
        PROVE  LaunchIInv'
    BY <1>4, QuestionKeeps
  <1>5. CASE UNCHANGED launching
    <2>1. UNCHANGED <<setup, procs, files, choice>>
      BY <1>5 DEF launching
    <2>2. Resource' = Resource
      BY <2>1 DEF Resource
    <2>3. LaunchTypeOK' /\ LaunchersFirst' /\ IdsOwn' /\ FilesOfRuns'
      BY <2>1 DEF LaunchIInv, LaunchTypeOK, LaunchersFirst, IdsOwn, FilesOfRuns
    <2>4. NoEscalation' /\ ReviewerIndependent' /\ ConfigurationTraced' /\ Confined'
      BY <2>1, <2>2 DEF LaunchIInv, NoEscalation, ReviewerIndependent, ConfigurationTraced, Confined, MachineLocal, OwnModel
    <2>5. ChoiceJustified'
      BY <2>1, ChoiceStays DEF LaunchIInv
    <2> QED
      BY <2>3, <2>4, <2>5 DEF LaunchIInv
  <1> QED
    BY <1>1, <1>2, <1>3, <1>4, <1>5 DEF LaunchNext

\* What is launched is always as the invariant says.
THEOREM Launches == LaunchSpec => []LaunchIInv
  BY LaunchStarts, LaunchesStep, PTL DEF LaunchSpec

\* Below a run nobody is an orchestrator, however launches are nested.
THEOREM NeverAbove == LaunchSpec => []NoEscalation
  <1>1. LaunchIInv => NoEscalation
    BY DEF LaunchIInv
  <1> QED
    BY <1>1, Launches, PTL

\* Nobody reviews its own kind, and reviewers are offered in the order the rules give.
THEOREM Impartial == LaunchSpec => []ReviewIndependent
  <1>1. LaunchIInv => ReviewIndependent
    BY DEF LaunchIInv, ReviewIndependent
  <1> QED
    BY <1>1, Launches, PTL

\* A process of a cloud resource has that one's model, one with no cloud resource above it has
\* the operator's, and all work where they may.
THEOREM AsMeant == LaunchSpec => []RunsAsMeant
  <1>1. LaunchIInv => RunsAsMeant
    BY DEF LaunchIInv, RunsAsMeant
  <1> QED
    BY <1>1, Launches, PTL

\* A run goes by an id it was given, or by one that its file name cuts.
Blurred(i) == procs[i].given \/ Len(procs[i].run) > Shown

\* A name has as many parts as the id, unless it is cut, and the last one but the first stays.
LEMMA NameOf ==
    ASSUME NEW id \in Seq(Part) \ {<<>>}, Len(id) <= Shown
    PROVE  /\ DOMAIN SafeRunId(id) = 1..Len(id) /\ Len(id) \in Nat
           /\ Len(id) > 1 => SafeRunId(id)[Len(id)] = id[Len(id)]
  <1>1. Len(id) \in Nat /\ Shown \in Nat
    BY NameAssumption
  <1>2. (IF Len(id) < Shown THEN Len(id) ELSE Shown) = Len(id)
    BY <1>1
  <1> QED
    BY <1>1, <1>2 DEF SafeRunId

\* The name of a standalone run.
LEMMA NameStandalone == SafeRunId(Standalone) = Standalone
  <1>1. Standalone = [n \in 1..1 |-> "standalone-orchestrator"] /\ Len(Standalone) = 1
    BY DEF Standalone
  <1>2. (IF Len(Standalone) < Shown THEN Len(Standalone) ELSE Shown) = 1
    BY <1>1, NameAssumption
  <1>3. Safe[Standalone[1]] = "standalone-orchestrator"
    BY NameAssumption DEF Standalone
  <1> HIDE DEF Standalone
  <1> QED
    BY <1>1, <1>2, <1>3 DEF SafeRunId

\* A longer id is not standalone.
LEMMA NestedIs == \A id : Len(id) > 1 => id # Standalone
  <1>1. Len(Standalone) = 1
    BY DEF Standalone
  <1>2. ~(1 > 1)
    OBVIOUS
  <1> QED
    BY <1>1, <1>2, Zenon

\* Two ids of their own that lead to one name are standalone or one process's.
LEMMA NameTells ==
    ASSUME NEW a \in Seq(Part) \ {<<>>}, NEW b \in Seq(Part) \ {<<>>},
           NEW i \in 1..MaxRuns, NEW j \in 1..MaxRuns,
           OwnId(a, i), OwnId(b, j), Len(a) <= Shown, Len(b) <= Shown,
           SafeRunId(a) = SafeRunId(b)
    PROVE  a = Standalone \/ i = j
  <1>1. /\ Len(a) \in Nat /\ Len(b) \in Nat
        /\ DOMAIN SafeRunId(a) = 1..Len(a) /\ DOMAIN SafeRunId(b) = 1..Len(b)
    BY NameOf
  <1>2. Len(a) = Len(b)
    BY <1>1
  <1>3. CASE Len(a) > 1
    <2>1. a # Standalone /\ b # Standalone
      <3>1. Len(b) > 1
        BY <1>2, <1>3
      <3> QED
        BY <3>1, <1>3, NestedIs, Zenon
    <2>2. a[Len(a)] = FreshRun[i] /\ b[Len(b)] = FreshRun[j]
      BY <2>1 DEF OwnId
    <2>3. SafeRunId(a)[Len(a)] = a[Len(a)] /\ SafeRunId(b)[Len(b)] = b[Len(b)]
      BY <1>2, <1>3, NameOf
    <2>4. FreshRun[i] = FreshRun[j]
      BY <2>2, <2>3, <1>2
    <2> QED
      BY <2>4, FreshAssumption
  <1>4. CASE ~(Len(a) > 1)
    BY <1>4 DEF OwnId
  <1> QED
    BY <1>3, <1>4

\* A report gives way only to one of a blurred name, or of another standalone run.
LEMMA FilesStep ==
    ASSUME LaunchIInv, [LaunchNext]_launching
    PROVE  \A f \in DOMAIN files : files'[f] # files[f] =>
             \/ f = Standalone
             \/ \E i \in {files[f], files'[f]} : procs[i].given \/ Len(procs[i].run) > Shown
  <1>1. ASSUME NEW i \in DOMAIN procs, End(i), NEW f \in DOMAIN files, files'[f] # files[f]
        PROVE  \/ f = Standalone
               \/ \E k \in {files[f], files'[f]} : procs[k].given \/ Len(procs[k].run) > Shown
    <2>1. LaunchTypeOK
      BY DEF LaunchIInv
    <2>2. f = SafeRunId(procs[i].run) /\ files'[f] = i
      <3>1. files' = [g \in DOMAIN files \cup {SafeRunId(procs[i].run)} |->
                       IF g = SafeRunId(procs[i].run) THEN i ELSE files[g]]
        BY <1>1, <2>1, Ended
      <3>2. files'[f] = IF f = SafeRunId(procs[i].run) THEN i ELSE files[f]
        BY <3>1, <1>1
      <3> QED
        BY <3>2, <1>1
    <2>3. files[f] \in DOMAIN procs /\ SafeRunId(procs[files[f]].run) = f
      BY DEF LaunchIInv, FilesOfRuns
    <2>4. CASE ~Blurred(files[f]) /\ ~Blurred(i)
      <3> DEFINE a == procs[files[f]].run
                 b == procs[i].run
      <3>1. i \in 1..MaxRuns /\ files[f] \in 1..MaxRuns
        BY <2>1, <2>3, RunsAssumption DEF LaunchTypeOK
      <3>2. a \in Seq(Part) \ {<<>>} /\ b \in Seq(Part) \ {<<>>}
        <4>1. procs[files[f]] \in Proc /\ procs[i] \in Proc
          BY <2>1, <2>3 DEF LaunchTypeOK
        <4> QED
          BY <4>1 DEF Proc
      <3>3. OwnId(a, files[f]) /\ OwnId(b, i)
        BY <2>3, <2>4 DEF LaunchIInv, IdsOwn, Blurred
      <3>4. Len(a) <= Shown /\ Len(b) <= Shown
        BY <2>4, <3>2, NameAssumption DEF Blurred
      <3>5. SafeRunId(a) = SafeRunId(b) /\ SafeRunId(a) = f
        BY <2>2, <2>3
      <3>6. files[f] # i
        BY <1>1, <2>2
      <3> HIDE DEF a, b
      <3>7. a = Standalone
        BY <3>1, <3>2, <3>3, <3>4, <3>5, <3>6, NameTells
      <3> QED
        BY <3>5, <3>7, NameStandalone
    <2> QED
      BY <2>2, <2>4 DEF Blurred
  <1>2. ASSUME NEW by \in 0..Len(procs), NEW ask \in Asks, RunAgent(by, ask)
        PROVE  files' = files
    BY <1>2 DEF RunAgent
  <1>3. ASSUME NEW who \in Identity, NEW avail \in [DOMAIN Resource -> {"AVAILABLE", "UNKNOWN"}],
               NEW required \in {{}, {"architecture"}}, NEW private \in BOOLEAN,
               ChooseReviewer(who, avail, required, private)
        PROVE  files' = files
    BY <1>3 DEF ChooseReviewer
  <1>4. ASSUME NEW ready \in SUBSET DOMAIN Executor, ChooseOrchestrator(ready)
        PROVE  files' = files
    BY <1>4 DEF ChooseOrchestrator
  <1>5. CASE UNCHANGED launching
    BY <1>5 DEF launching
  <1> QED
    BY <1>1, <1>2, <1>3, <1>4, <1>5 DEF LaunchNext

\* A report gives way only when both runs are standalone, or one of them was told its id or lies
\* too deep for the name of its file.
THEOREM NothingLost == LaunchSpec => ReportsKept
  <1>1. LaunchIInv /\ [LaunchNext]_launching =>
          [\A f \in DOMAIN files : files'[f] # files[f] =>
             \/ f = Standalone
             \/ \E i \in {files[f], files'[f]} : procs[i].given \/ Len(procs[i].run) > Shown]_files
    BY FilesStep
  <1> QED
    BY <1>1, Launches, PTL DEF ReportsKept, LaunchSpec
=============================================================================
