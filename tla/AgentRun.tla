------------------------------- MODULE AgentRun -------------------------------
(***************************************************************************)
(* One `flow agent run`: run_agent_process hands a task to an executor,    *)
(* over an ACP session with a child process (acp_transport.py) or, where   *)
(* that is not wanted or not to be had, as a command line.                 *)
(*                                                                         *)
(* The child is a process of its own behind two pipes.  It may answer,     *)
(* stream text, ask for permission, write nonsense, fall silent or end at  *)
(* any time; the operator may cancel or interrupt at any time.  What the   *)
(* models call handed and ended are history: which child was given the     *)
(* task, and how it really ended there.                                    *)
(***************************************************************************)
EXTENDS Naturals, Sequences

CONSTANTS
    Request,    \* how the run is asked for: transport, allow_cli_fallback, role, ...
    MaxChat     \* bound: the texts and questions one task brings

Transport == {"cli", "acp", "auto"}

ASSUME RequestAssumption ==
    Request \subseteq [transport : Transport, fallback : BOOLEAN, reviewer : BOOLEAN, auth : BOOLEAN]
ASSUME ChatAssumption == MaxChat \in Nat

VARIABLES
    asked,      \* the request
    run,        \* where run_agent_process stands and what it has noted
    agent,      \* the ACP child and its pipes
    cancel,     \* the operator's cancel_event
    handed,     \* the children the task was handed to
    ended,      \* how the task ended in the child that had it
    report      \* the report file of this run

vars == <<asked, run, agent, cancel, handed, ended, report>>

Phase == {"probe", "runtime", "protocol", "initialize", "authenticate", "session", "prompt"}
Awaited == {"initialize", "authenticate", "session", "prompt"}
Place == {"start", "spawn", "talk", "line", "reap", "judge", "launch", "command", "contract",
          "write", "returned", "raised"}
Ending == {"none", "well", "failed", "cancelled", "refused"}
Line == {"answer", "error", "text", "verdict", "question", "nonsense", "half"}
            \cup (Ending \ {"none"})
NoError == [phase |-> "none", submitted |-> FALSE]
NoReport == [result |-> "none", via |-> "none", fallback |-> FALSE, exit |-> 0]

Init ==
    /\ asked \in Request
    /\ run = [at |-> "start", awaits |-> "initialize", session |-> FALSE, submitted |-> FALSE,
              error |-> NoError, broken |-> FALSE, verdict |-> FALSE, lost |-> FALSE,
              fallback |-> FALSE, via |-> "none", exit |-> 0, cancelled |-> FALSE, result |-> "success"]
    /\ agent = [state |-> "none", heard |-> "none", out |-> <<>>, chat |-> 0]
    /\ cancel = FALSE
    /\ handed = {} /\ ended = "none"
    /\ report = NoReport

-----------------------------------------------------------------------------
Go(at) == run' = [run EXCEPT !.at = at]
Keep == UNCHANGED <<asked, cancel, ended, report>>

\* An ACPTransportError of a phase, raised where the run stands.
Failure(phase, at) ==
    run' = [run EXCEPT !.at = at, !.error = [phase |-> phase, submitted |-> run.submitted]]

\* transport cli, or no ACP executable that is ready: no child yet.
Begin ==
    /\ run.at = "start"
    /\ IF asked.transport = "cli" THEN Go("launch")
       ELSE Go("spawn") \/ Failure("probe", "judge")
    /\ UNCHANGED <<agent, handed>> /\ Keep

\* The pipe is broken, or the operator interrupts: neither is an ACPTransportError.
Break == run' = [run EXCEPT !.at = "reap", !.broken = TRUE]

\* The child is started and told to initialize; it may be gone by then.
Spawn ==
    /\ run.at = "spawn"
    /\ \/ /\ Failure("runtime", "judge")
          /\ UNCHANGED agent
       \/ /\ Go("talk")
          /\ agent' = [agent EXCEPT !.state = "alive", !.heard = "initialize"]
       \/ /\ Break
          /\ agent' = [agent EXCEPT !.state = "exited"]
    /\ UNCHANGED handed /\ Keep

\* An iteration of the loop looks at the cancel_event first.
Cancels == cancel /\ run.session /\ agent.state = "alive"

SendCancel ==
    /\ run.at = "talk" /\ Cancels
    /\ run' = [run EXCEPT !.at = "reap", !.cancelled = TRUE, !.exit = 130]
    /\ UNCHANGED <<agent, handed>> /\ Keep

Next1 == Head(agent.out)
Reads(line) ==
    /\ run.at = "talk" /\ ~Cancels
    /\ agent.out # <<>> /\ Next1 = line
Rest == [agent EXCEPT !.out = Tail(@)]

\* The next request of the handshake goes out, unless the child is gone.
Ask(request) ==
    IF agent.state = "alive"
    THEN /\ run' = [run EXCEPT !.awaits = request, !.session = @ \/ request = "prompt",
                               !.submitted = @ \/ request = "prompt"]
         /\ agent' = [Rest EXCEPT !.heard = request]
         /\ handed' = IF request = "prompt" THEN handed \cup {"acp"} ELSE handed
    ELSE /\ run' = [run EXCEPT !.at = "reap", !.broken = TRUE,
                               !.session = @ \/ request = "prompt"]
         /\ agent' = Rest
         /\ UNCHANGED handed

\* session/new may be answered without a session id.
Answered ==
    /\ Reads("answer")
    /\ \/ Ask(CASE run.awaits = "initialize" -> IF asked.auth THEN "authenticate" ELSE "session"
                [] run.awaits = "authenticate" -> "session"
                [] OTHER -> "prompt")
       \/ /\ run.awaits = "session"
          /\ run' = [run EXCEPT !.at = "reap", !.error = [phase |-> "session", submitted |-> FALSE]]
          /\ agent' = Rest /\ UNCHANGED handed
    /\ Keep

Refused ==
    /\ Reads("error")
    /\ Failure(run.awaits, "reap")
    /\ agent' = Rest
    /\ UNCHANGED handed /\ Keep

Garbled ==
    /\ Reads("nonsense")
    /\ Failure("protocol", "reap")
    /\ agent' = Rest
    /\ UNCHANGED handed /\ Keep

\* session/update: text is passed on as it comes, a verdict line among it or not.
Text ==
    /\ \/ Reads("text") /\ UNCHANGED run
       \/ Reads("verdict") /\ run' = [run EXCEPT !.verdict = TRUE]
    /\ agent' = Rest
    /\ UNCHANGED handed /\ Keep

\* The answer is allow-once or reject-once, by the policy; the pipe may be broken.
AnswerPermission ==
    /\ Reads("question")
    /\ agent' = Rest
    /\ IF agent.state = "alive" THEN UNCHANGED run ELSE Break
    /\ UNCHANGED handed /\ Keep

\* The answer to session/prompt.  A stop reason other than cancelled, and other than
\* a word for failure, is success: a refusal too.
TurnOver ==
    /\ \E end \in Ending \ {"none"} :
         /\ Reads(end)
         /\ run' = [run EXCEPT !.at = "reap", !.cancelled = (end = "cancelled"),
                      !.exit = CASE end = "cancelled" -> 130 [] end = "failed" -> 1 [] OTHER -> 0]
    /\ agent' = Rest
    /\ UNCHANGED handed /\ Keep

\* readline waits for the end of a line that the child has begun: the loop, and with it
\* the cancel_event and the deadline, waits too.
HalfLine ==
    /\ Reads("half")
    /\ Go("line")
    /\ agent' = Rest
    /\ UNCHANGED handed /\ Keep

LineCut ==
    /\ run.at = "line" /\ agent.state = "exited"
    /\ Failure("protocol", "reap")
    /\ UNCHANGED <<agent, handed>> /\ Keep

LineComes ==
    /\ run.at = "line" /\ agent.state = "alive"
    /\ Go("talk")
    /\ UNCHANGED <<agent, handed>> /\ Keep

\* Mutant: only the end of the child is noticed, the deadline is not.
SilenceOfTheDead ==
    /\ run.at = "talk" /\ ~Cancels /\ agent.out = <<>>
    /\ agent.state = "exited"
    /\ \E phase \in {"runtime", "protocol"} : Failure(phase, "reap")
    /\ UNCHANGED <<agent, handed>> /\ Keep

\* Nothing to read: the child has ended, or the deadline has passed.
Silence ==
    /\ run.at = "talk" /\ ~Cancels /\ agent.out = <<>>
    /\ \/ agent.state = "exited" /\ \E phase \in {"runtime", "protocol"} : Failure(phase, "reap")
       \/ agent.state = "alive" /\ Failure("runtime", "reap")
    /\ UNCHANGED <<agent, handed>> /\ Keep

\* Mutant: the child is left to end by itself when its stream has failed.
ReapGently ==
    /\ run.at = "reap"
    /\ agent' = IF run.error = NoError THEN [agent EXCEPT !.state = "gone"] ELSE agent
    /\ IF run.broken THEN Go("raised")
       ELSE IF run.error # NoError THEN Go("judge")
       ELSE run' = [run EXCEPT !.at = "contract", !.via = "acp",
                      !.result = IF run.cancelled THEN "cancelled"
                                 ELSE IF run.exit # 0 THEN "failure" ELSE "success"]
    /\ UNCHANGED handed /\ Keep

\* The finally: close, wait, terminate, kill.  Then the result is taken over, and an
\* exception that is not an ACPTransportError leaves run_agent_process.
Reap ==
    /\ run.at = "reap"
    /\ agent' = [agent EXCEPT !.state = "gone"]
    /\ IF run.broken THEN Go("raised")
       ELSE IF run.error # NoError THEN Go("judge")
       ELSE run' = [run EXCEPT !.at = "contract", !.via = "acp",
                      !.result = IF run.cancelled THEN "cancelled"
                                 ELSE IF run.exit # 0 THEN "failure" ELSE "success"]
    /\ UNCHANGED handed /\ Keep

-----------------------------------------------------------------------------
\* A report is written beside its place and moved there.  One that cannot be written is
\* only printed about.
Persist(at, r) ==
    \/ report' = r /\ Go(at)
    \/ UNCHANGED report /\ run' = [run EXCEPT !.at = at, !.lost = TRUE]

\* Mutant: the command line is the way out of any ACP failure.
FallsBackAlways == asked.transport = "auto" /\ asked.fallback

\* Only auto, only when allowed, and never once the prompt has been sent.
FallsBack == asked.transport = "auto" /\ asked.fallback /\ ~run.error.submitted

\* Mutant: the failed session leaves no report.
JudgeSilently ==
    /\ run.at = "judge"
    /\ IF FallsBack THEN run' = [run EXCEPT !.at = "launch", !.fallback = TRUE] ELSE Go("raised")
    /\ UNCHANGED <<asked, agent, cancel, handed, ended, report>>

Judge ==
    /\ run.at = "judge"
    /\ IF FallsBack
       THEN run' = [run EXCEPT !.at = "launch", !.fallback = TRUE] /\ UNCHANGED report
       ELSE Persist("raised", [result |-> "failure", via |-> "acp", fallback |-> FALSE,
                               exit |-> 1])
    /\ UNCHANGED <<asked, agent, cancel, handed, ended>>

\* The executable is missing, or the process cannot be made: raised without a report.
Launch ==
    /\ run.at = "launch"
    /\ \/ Go("raised") /\ UNCHANGED handed
       \/ Go("command") /\ handed' = handed \cup {"cli"}
    /\ UNCHANGED agent /\ Keep

\* The command runs to its end, which nothing but the command decides.
CommandEnds ==
    /\ run.at = "command"
    /\ \E well \in BOOLEAN, verdict \in BOOLEAN :
         /\ ended' = IF well THEN "well" ELSE "failed"
         /\ run' = [run EXCEPT !.at = "contract", !.via = "cli", !.verdict = @ \/ verdict,
                               !.exit = IF well THEN 0 ELSE 1]
    /\ UNCHANGED <<asked, agent, cancel, handed, report>>

\* Mutant: the verdict is not asked for.
ContractWaived ==
    /\ run.at = "contract"
    /\ Go("write")
    /\ UNCHANGED <<agent, handed>> /\ Keep

\* A reviewer that succeeds without a VERDICT line has not succeeded.
Contract ==
    /\ run.at = "contract"
    /\ run' = IF asked.reviewer /\ run.exit = 0 /\ run.result # "cancelled" /\ ~run.verdict
              THEN [run EXCEPT !.at = "write", !.exit = 1, !.result = "incomplete_review"]
              ELSE [run EXCEPT !.at = "write"]
    /\ UNCHANGED <<agent, handed>> /\ Keep

Outcome == IF run.result = "success" /\ run.exit # 0 THEN "failure" ELSE run.result

Write ==
    /\ run.at = "write"
    /\ Persist("returned", [result |-> Outcome, via |-> run.via, fallback |-> run.fallback,
                            exit |-> run.exit])
    /\ UNCHANGED <<asked, agent, cancel, handed, ended>>

-----------------------------------------------------------------------------
\* The ACP child.

Others == UNCHANGED <<asked, run, cancel, handed, report>>

Reply ==
    /\ agent.state = "alive" /\ agent.heard \in {"initialize", "authenticate", "session"}
    /\ \E line \in {"answer", "error"} :
         agent' = [agent EXCEPT !.out = Append(@, line), !.heard = "none"]
    /\ Others /\ UNCHANGED ended

\* Text and questions.
Chat ==
    /\ agent.state = "alive" /\ agent.chat < MaxChat
    /\ \E line \in {"text", "verdict", "question", "nonsense", "half"} :
         /\ line = "verdict" => agent.heard = "prompt"
         /\ agent' = [agent EXCEPT !.out = Append(@, line), !.chat = @ + 1]
    /\ Others /\ UNCHANGED ended

Finish ==
    /\ agent.state = "alive" /\ agent.heard = "prompt"
    /\ \/ \E end \in Ending \ {"none"} :
            /\ agent' = [agent EXCEPT !.out = Append(@, end), !.heard = "none"]
            /\ ended' = end
       \/ /\ agent' = [agent EXCEPT !.out = Append(@, "error"), !.heard = "none"]
          /\ ended' = "failed"
    /\ Others

Exit ==
    /\ agent.state = "alive"
    /\ agent' = [agent EXCEPT !.state = "exited"]
    /\ Others /\ UNCHANGED ended

\* Ctrl-C: subprocess.run kills its child and the exception goes on, as it does here.
Interrupt ==
    /\ run.at \in {"talk", "line", "command"}
    /\ IF run.at = "command" THEN run' = [run EXCEPT !.at = "raised", !.broken = TRUE] ELSE Break
    /\ UNCHANGED <<asked, agent, cancel, handed, ended, report>>

Cancel ==
    /\ run.at \notin {"returned", "raised"}
    /\ ~cancel /\ cancel' = TRUE
    /\ UNCHANGED <<asked, run, agent, handed, ended, report>>

Runner ==
    \/ Begin \/ Spawn \/ SendCancel \/ Answered \/ Refused \/ Garbled \/ Text
    \/ AnswerPermission \/ TurnOver \/ HalfLine \/ LineCut \/ Silence \/ Reap
    \/ Judge \/ Launch \/ Contract \/ Write

Next ==
    \/ Runner
    \/ LineComes \/ CommandEnds \/ Reply \/ Chat \/ Finish \/ Exit
    \/ Cancel \/ Interrupt

\* The process of the run goes on.  Nothing makes a child answer, a command end or a
\* half line come to its end.
Spec == Init /\ [][Next]_vars /\ WF_vars(Runner)

-----------------------------------------------------------------------------
Over == run.at \in {"returned", "raised"}

(***************************************************************************)
(* The task is handed to one child at most, however the ACP session        *)
(* breaks off: what may have been begun is not begun again.                *)
(***************************************************************************)
TaskToOne == ~({"acp", "cli"} \subseteq handed)

(***************************************************************************)
(* When the run is over, or goes on with a command, its ACP child is gone. *)
(***************************************************************************)
NoChildLeft ==
    Over \/ run.at \in {"judge", "launch", "command"} => agent.state \in {"none", "gone"}

(***************************************************************************)
(* What the report says is so: the transport that had the task, success    *)
(* only where the child that had it did not fail or get cancelled and, of  *)
(* a reviewer, only with a verdict; cancelled only where somebody did.     *)
(***************************************************************************)
ReportTruthful ==
    report # NoReport =>
        /\ report.result \in {"success", "incomplete_review"} =>
             handed = {report.via} /\ ended \in {"well", "refused"}
        /\ report.result = "success" => report.exit = 0 /\ (asked.reviewer => run.verdict)
        /\ report.result = "cancelled" =>
             report.via = "acp" /\ "acp" \in handed /\ (cancel \/ ended = "cancelled")
        /\ report.fallback => report.via = "cli" /\ asked.transport = "auto"

(***************************************************************************)
(* A task that was handed over leaves a report, and one of the transport   *)
(* that had it: a session that breaks fails, it does not vanish.  Left out *)
(* are a disk that refuses the report and what no handler takes for a      *)
(* transport error, a broken pipe and an interrupt.                        *)
(***************************************************************************)
TaskLeavesTrace ==
    Over /\ handed # {} /\ ~run.broken /\ ~run.lost => report.via \in handed

\* Both: there is a report where there must be one, and it says what happened.
ReportTells == ReportTruthful /\ TaskLeavesTrace

(***************************************************************************)
(* Every run is over some day: no silence, question or end of the child    *)
(* and no cancellation leaves it waiting; a command that never ends and a  *)
(* line that never ends do.                                                *)
(***************************************************************************)
EveryRunEnds == <>Over \/ <>[](run.at \in {"command", "line"})
=============================================================================
