------------------------------ MODULE AgentLaunch ------------------------------
(***************************************************************************)
(* What `flow agent run` and `flow agent select` decide before a process   *)
(* exists: the role of the invocation (agent_roles.py), the executor or    *)
(* logical resource meant and where it may work (module AgentSetup),       *)
(* whether a reviewer is independent of the implementer its handoff names, *)
(* and the model and the environment the process gets                      *)
(* (agent_process_execution.py).                                           *)
(*                                                                         *)
(* A launched process may call flow itself: it hands its environment down, *)
(* and with it its run id and whatever configuration it was given.  How a  *)
(* launched process goes on is module AgentRun.                            *)
(***************************************************************************)
EXTENDS AgentSetup

CONSTANTS
    Setups,         \* what workspace.config.json may say of agents
    Lexical,        \* place of every resource's name in lexical order
    Preferred,      \* INDEPENDENT_REVIEW_PREFERRED_ORDER
    Found,          \* what `opencode models` may print
    Priority,       \* ORCHESTRATOR_EXECUTOR_PRIORITY
    Asks,           \* the invocations
    FreshRun,       \* uuid4: an id of its own for the first process, the second, ...
    Safe,           \* an id that was given -> what a file name keeps of it
    Shown,          \* how many parts of an id a file name has room for
    MaxRuns         \* bound: processes launched

ASSUME RunsAssumption == MaxRuns \in Nat

\* Names are ordered, and no name of the list is there twice.
ASSUME NamesAssumption ==
    /\ \A r, s \in DOMAIN Lexical : Lexical[r] \in Nat /\ (Lexical[r] = Lexical[s] => r = s)
    /\ Preferred \in Seq(STRING) /\ IsInjective(Preferred)

ASSUME SetupsAssumption ==
    \A s \in Setups : /\ IsFiniteSet(DOMAIN s.resources)
                      /\ DOMAIN s.resources \subseteq DOMAIN Lexical

\* The first model has place 1.
ASSUME FoundAssumption ==
    Found \subseteq SUBSET [place : Nat \ {0}, free : BOOLEAN, go : BOOLEAN]

\* A target is a path, name by name.
ASSUME AsksAssumption == \A ask \in Asks : ask.targets \subseteq Seq(STRING)

\* No two processes get the same id of their own.
ASSUME FreshAssumption == \A i, j \in 1..MaxRuns : FreshRun[i] = FreshRun[j] => i = j

\* The first part of an id is shown, and the one of a run that was given none as it is.
ASSUME NameAssumption ==
    Shown \in Nat \ {0} /\ Safe["standalone-orchestrator"] = "standalone-orchestrator"

VARIABLES
    setup,      \* the configuration; nobody edits it while runs go on
    procs,      \* the processes launched, in order
    files,      \* agent-runs/<name>.json: the process whose report it is
    choice      \* the answer of a reviewer selection

launching == <<setup, procs, files, choice>>

Executor == setup.executors
Resource == setup.resources

\* A model, by its place in lexical order; Unset where the configuration is the operator's.
Unset == [place |-> 0, free |-> FALSE, go |-> FALSE]
\* The shell of the operator: OPENCODE_CONFIG_CONTENT is the operator's own.
Shell == [by |-> 0, given |-> FALSE, role |-> None, run |-> <<>>, parent |-> <<>>,
          handoff |-> <<>>, executor |-> None, resource |-> None, place |-> None, config |-> Unset,
          carriers |-> TRUE, over |-> FALSE]

LaunchInit == setup \in Setups /\ procs = <<>> /\ files = <<>> /\ choice = <<>>

\* Mutant: the overlay of a resource takes the place of the one that names the run.
ProcessForgets(i) ==
    IF i = 0 THEN Shell
    ELSE IF procs[i].resource = None THEN procs[i] ELSE [procs[i] EXCEPT !.run = <<>>]

\* The environment a process hands down: role, run id, parent, handoff, configuration.
Process(i) == IF i = 0 THEN Shell ELSE procs[i]

-----------------------------------------------------------------------------
\* Roles.

\* An id is its parts: one that was given or everybody has, then one for each run below.

\* An explicit orchestrator inside another run.
Elevates(role, env) == role = "orchestrator" /\ env.run # <<>>

EffectiveRole(role, env) ==
    IF role # None THEN role ELSE IF env.run # <<>> THEN "worker" ELSE "orchestrator"

\* Mutant: the inherited id is taken as it is.
EffectiveRunInherited(given, env) == IF given # None THEN <<given>> ELSE env.run

\* A nested run that is given no id gets one of its own below the inherited one.
EffectiveRun(given, env) ==
    IF given # None THEN <<given>>
    ELSE IF env.run # <<>> THEN Append(env.run, FreshRun[Len(procs) + 1]) ELSE <<>>

EffectiveParent(given, env) == IF given # None THEN <<given>> ELSE env.run

\* normalize_role_context: what a role must and must not come with.
ContextOk(role, run, parent, handoff) ==
    /\ role # "orchestrator" => run # <<>> /\ parent # <<>> /\ handoff # <<>>
    /\ role = "orchestrator" => parent = <<>>

Standalone == <<"standalone-orchestrator">>
NamedRun(run) == IF run = <<>> THEN Standalone ELSE run

\* The file of a report: other characters than letters, digits, ".", "_" and "-" are
\* replaced, and what is beyond its room is cut.
SafeRunId(run) ==
    [n \in 1..(IF Len(run) < Shown THEN Len(run) ELSE Shown) |->
       IF n = 1 THEN Safe[run[1]] ELSE run[n]]

-----------------------------------------------------------------------------
\* Selection.

Available(avail) == {r \in DOMAIN Resource : avail[r] = "AVAILABLE"}

Fit(avail, required, private) ==
    {r \in Available(avail) : required \subseteq Range(Resource[r].capabilities)
                                /\ (private => Resource[r].data_sensitivity = "local-only")}

Before(r, s) ==
    \/ Resource[r].selection_priority < Resource[s].selection_priority
    \/ Resource[r].selection_priority = Resource[s].selection_priority /\ Lexical[r] < Lexical[s]

\* A set in the order of a relation: everyone at the place that those before leave it.
Sorted(S, R) ==
    [i \in 1..Cardinality(S) |-> CHOOSE r \in S : Cardinality({s \in S : <<s, r>> \in R}) = i - 1]

AsListed ==
    {p \in Range(Preferred) \X Range(Preferred) :
        \E i, j \in DOMAIN Preferred : i < j /\ p = <<Preferred[i], Preferred[j]>>}
ByUrgency == {p \in (DOMAIN Resource) \X (DOMAIN Resource) : Before(p[1], p[2])}

\* order_resource_candidates: the preferred ones as they are listed, then the rest by
\* priority and name.
Ordered(S) ==
    Sorted(S \cap Range(Preferred), AsListed) \o Sorted(S \ Range(Preferred), ByUrgency)

\* Mutant: only the executor of the implementer is left out.
ForeignExecutor(who) == {r \in DOMAIN Resource : Resource[r].executor # who.executor}

\* Neither the executor of the implementer nor its way to a model.
Foreign(who) ==
    {r \in DOMAIN Resource : /\ Resource[r].executor # who.executor
                             /\ Resource[r].model_resolution # who.resolution}

OwnTiers(who) == {Resource[r].cost_tier : r \in DOMAIN Resource \ Foreign(who)}

MayReview(who, avail, required, private) == Foreign(who) \cap Fit(avail, required, private)
OwnFamily(who) == {r \in DOMAIN Resource : Resource[r].cost_tier \in OwnTiers(who)}

\* Mutant: the families stay mixed.
ReviewersMixed(who, avail, required, private) ==
    Ordered(MayReview(who, avail, required, private))

\* select_reviewer_candidates: another family of models comes first, the order stays.
Reviewers(who, avail, required, private) ==
    LET all == MayReview(who, avail, required, private)
    IN  Ordered(all \ OwnFamily(who)) \o Ordered(all \cap OwnFamily(who))

\* The first statement of a handoff that names both; of the text form, the last lines.
Package(handoff) == Handoff[Walk(Workspace, handoff).place]
Complete(who) == who.executor # None /\ who.resolution # None
Implementer(handoff) ==
    LET i == SelectInSeq(handoff, Complete)
    IN  IF i = 0 THEN [executor |-> None, resolution |-> None] ELSE handoff[i]

\* Mutant: a resource is compared by its executor alone.
GateByExecutor(executor, resource, who) == executor # who.executor

\* enforce_independent_reviewer_selection.  flow agent run passes no availability: all
\* resources count as available.  A bare executor is compared by name only.
Gate(executor, resource, who) ==
    LET candidates == Reviewers(who, [r \in DOMAIN Resource |-> "AVAILABLE"], {}, FALSE)
    IN  /\ Complete(who)
        /\ ResourcesAccepted(setup)
        /\ candidates # <<>>
        /\ IF resource # None THEN resource \in Range(candidates)
           ELSE executor # who.executor

-----------------------------------------------------------------------------
\* The model and the environment of the process.

First(S) == CHOOSE m \in S : \A n \in S : m.place <= n.place

\* What a bounded call of the OpenCode command ends with: nothing when it is missing, late or
\* fails, else its output.
Answers(outputs) == {<<>>} \cup {<<output>> : output \in outputs}

\* probe_opencode_models, under the discovery that takes its failure for UNKNOWN: that lists
\* no model to launch with, either.
Listed(answer) == IF answer = <<>> THEN {} ELSE answer[1]

\* probe_opencode_auth: whether the output tells of a key for Go.
Credential(answer) ==
    IF answer = <<>> THEN "UNKNOWN" ELSE IF answer[1] THEN "AVAILABLE" ELSE "AUTH_UNCONFIGURED"

\* The models a resource may be launched with; none is a refusal.
FreeModel(found) ==
    LET candidates == {m \in found : m.free /\ ~m.go}
    IN  IF candidates = {} THEN {} ELSE {First(candidates)}

GoModel(found, credential) ==
    IF credential # "AVAILABLE" \/ found = {} THEN {} ELSE {First(found)}

\* resolve_resource_model.
Models(resource, listing, login) ==
    IF resource = None THEN {Unset}
    ELSE IF Resource[resource].model_resolution \in Inherited THEN {Unset}
    ELSE IF Resource[resource].model_resolution = "dynamic_free" THEN FreeModel(Listed(listing))
    ELSE GoModel(Listed(listing), Credential(login))

\* Mutant: what the parent's environment says stays.
OverlayKeepsCarriers(model) == [config |-> model, scrubs |-> FALSE]

\* build_resource_process_overlay: a resolved model, and the configuration it takes the
\* place of; without a model nothing.
Overlay(model) == [config |-> model, scrubs |-> model # Unset]

\* merge_process_environment: on a copy of the launcher's.
Merged(env, overlay) ==
    [config |-> IF overlay.config = Unset THEN env.config ELSE overlay.config,
     carriers |-> env.carriers /\ ~overlay.scrubs]

\* A refused invocation raises before there is a process and changes nothing.
RunAgent(by, ask) ==
    LET env == Process(by)
        role == EffectiveRole(ask.role, env)
        run == EffectiveRun(ask.run, env)
        parent == EffectiveParent(ask.parent, env)
        use == Meant(setup, ask.selector)
    IN  /\ Len(procs) < MaxRuns /\ choice = <<>>
        /\ ~env.over
        /\ ~Elevates(ask.role, env)
        /\ Prepared(setup, ask)
        /\ ContextOk(role, run, parent, ask.handoff)
        /\ role # "orchestrator" => HandoffThere(ask.handoff)
        /\ role = "reviewer" =>
             Gate(use.executor, use.resource, Implementer(Package(ask.handoff)))
        /\ ask.pinned => Executor[use.executor].adapter = "codex"
        /\ StaticArgvFits(Executor[use.executor])
        /\ \E listing \in Answers(Found), login \in Answers(BOOLEAN) :
             \E model \in Models(use.resource, listing, login) :
               procs' = Append(procs,
                 [by |-> by, given |-> ask.run # None, role |-> role, run |-> NamedRun(run),
                  parent |-> parent, handoff |-> ask.handoff, executor |-> use.executor,
                  resource |-> use.resource, place |-> <<ask.workdir, ask.targets>>,
                  config |-> Merged(env, Overlay(model)).config,
                  carriers |-> Merged(env, Overlay(model)).carriers, over |-> FALSE])
        /\ UNCHANGED <<setup, files, choice>>

\* Its report goes to the file its run id leads to, whatever is there.
End(i) ==
    /\ ~procs[i].over
    /\ procs' = [procs EXCEPT ![i].over = TRUE]
    /\ files' = [f \in DOMAIN files \cup {SafeRunId(procs[i].run)} |->
                   IF f = SafeRunId(procs[i].run) THEN i ELSE files[f]]
    /\ UNCHANGED <<setup, choice>>

-----------------------------------------------------------------------------
\* Questions that launch nothing.

ChooseReviewer(who, avail, required, private) ==
    /\ procs = <<>> /\ choice = <<>>
    /\ ExecutorsAccepted(setup) /\ ResourcesAccepted(setup)
    /\ choice' = <<[who |-> who, avail |-> avail, required |-> required, private |-> private,
                    order |-> Reviewers(who, avail, required, private)]>>
    /\ UNCHANGED <<setup, procs, files>>

\* select_orchestrator_executor: the first whose executable is there, 0 when there is none.
Backing(candidate) == IF candidate = "opencode-go" THEN "opencode" ELSE candidate
Selected(ready) ==
    SelectInSeq(Priority, LAMBDA candidate : Backing(candidate) \in ready \cap DOMAIN Executor)

\* flow agent select.
ChooseOrchestrator(ready) ==
    /\ procs = <<>> /\ choice = <<>>
    /\ ExecutorsAccepted(setup)
    /\ Selected(ready) # 0
    /\ choice' = <<[ready |-> ready, selected |-> Priority[Selected(ready)]]>>
    /\ UNCHANGED <<setup, procs, files>>

Identity == [executor : DOMAIN Executor,
             resolution : {Resource[r].model_resolution : r \in DOMAIN Resource}]

LaunchNext ==
    \/ \E by \in 0..Len(procs), ask \in Asks : RunAgent(by, ask)
    \/ \E i \in DOMAIN procs : End(i)
    \/ \E who \in Identity, avail \in [DOMAIN Resource -> {"AVAILABLE", "UNKNOWN"}],
          required \in {{}, {"architecture"}}, private \in BOOLEAN :
            ChooseReviewer(who, avail, required, private)
    \/ \E ready \in SUBSET DOMAIN Executor : ChooseOrchestrator(ready)

LaunchSpec == LaunchInit /\ [][LaunchNext]_launching

-----------------------------------------------------------------------------
(***************************************************************************)
(* Below a run there are only workers and reviewers, at any depth and by   *)
(* any resource: what a process was given as its run id is handed down.    *)
(***************************************************************************)
NoEscalation == \A i \in DOMAIN procs : procs[i].role = "orchestrator" => procs[i].by = 0

\* A reviewer that was launched shares neither the executor nor, as a resource, the way to a
\* model with the implementer its handoff names.
ReviewerIndependent ==
    \A i \in DOMAIN procs : procs[i].role = "reviewer" =>
        LET who == Implementer(Package(procs[i].handoff))
        IN  /\ procs[i].executor # who.executor
            /\ procs[i].resource # None => Resource[procs[i].resource].model_resolution # who.resolution

\* The configuration of a process is its resource's own model, with nothing of what it inherited.
OwnModel(p) == ~p.carriers /\ p.config # Unset

\* What runs as the machine is set up: a bare executor, OpenCode's local resource, and a
\* resource that says so.
MachineLocal(p) ==
    p.resource \in {None, "opencode-local"} \/ Resource[p.resource].model_resolution \in Inherited

\* With a cloud resource, one of OpenCode's or one that says so, a process has a model of its
\* own and nothing that was inherited.  What runs as the machine is set up has what the
\* operator set, unless a cloud resource is somewhere above it: then the code hands that
\* one's model down.
ConfigurationTraced ==
    /\ \A i \in DOMAIN procs :
         /\ procs[i].resource \in {"opencode-free", "opencode-go"} \/ ~MachineLocal(procs[i]) =>
              OwnModel(procs[i])
         /\ procs[i].resource = "opencode-free" => procs[i].config.free
    /\ \A S \in SUBSET DOMAIN procs :
         (\A i \in S : MachineLocal(procs[i]) /\ procs[i].by \in S \cup {0}) =>
           \A i \in S : procs[i].config = Shell.config /\ procs[i].carriers = Shell.carriers

\* A process works in a directory of the workspace, its targets, however they are written and
\* whatever links there are, lie in it, and its handoff lies in the workspace.
Confined ==
    \A i \in DOMAIN procs :
        LET workdir == procs[i].place[1]
        IN  /\ Within(workdir, Workspace)
            /\ \A names \in procs[i].place[2] : Within(Walk(workdir, Normal(names)).place, workdir)
            /\ procs[i].role # "orchestrator" => Within(Walk(Workspace, procs[i].handoff).place, Workspace)

(***************************************************************************)
(* However launches are nested and whatever the configuration file says, a *)
(* process of a cloud resource has that one's model, one with no cloud     *)
(* resource above it has the operator's, and all work where they may.      *)
(***************************************************************************)
RunsAsMeant == ConfigurationTraced /\ Confined

(***************************************************************************)
(* A report is overwritten only when both runs are standalone, or one of   *)
(* them was told its id, or lies so deep that the name of its file is cut. *)
(***************************************************************************)
ReportsKept ==
    [][\A f \in DOMAIN files : files'[f] # files[f] =>
         \/ f = Standalone
         \/ \E i \in {files[f], files'[f]} : procs[i].given \/ Len(procs[i].run) > Shown]_files

\* The order of reviewers: all those and only those that may review, and each before another
\* only if it is of a family the implementer has not, or of the same kind and preferred, or
\* more urgent, or named before it.
ChoiceJustified ==
    \A k \in DOMAIN choice : "who" \in DOMAIN choice[k] =>
        LET c == choice[k]
            own(r) == \E s \in DOMAIN Resource :
                        /\ Resource[s].cost_tier = Resource[r].cost_tier
                        /\ \/ Resource[s].executor = c.who.executor
                           \/ Resource[s].model_resolution = c.who.resolution
            listed(r) == \E i \in DOMAIN Preferred : Preferred[i] = r
            rank(r) == CHOOSE i \in DOMAIN Preferred : Preferred[i] = r
        IN  /\ \A r \in DOMAIN Resource :
                 r \in Range(c.order) <=>
                   /\ c.avail[r] = "AVAILABLE" /\ c.required \subseteq Range(Resource[r].capabilities)
                   /\ c.private => Resource[r].data_sensitivity = "local-only"
                   /\ Resource[r].executor # c.who.executor
                   /\ Resource[r].model_resolution # c.who.resolution
            /\ \A i, j \in DOMAIN c.order : i < j =>
                 LET r == c.order[i]  s == c.order[j]
                 IN  \/ ~own(r) /\ own(s)
                     \/ /\ own(r) <=> own(s)
                        /\ \/ listed(r) /\ (listed(s) => rank(r) < rank(s))
                           \/ ~listed(r) /\ ~listed(s) /\ Before(r, s)

(***************************************************************************)
(* Nobody reviews its own kind: neither a reviewer that was let through,   *)
(* whatever its handoff leaves out, nor one that was only proposed, and    *)
(* the proposals come in the order the rules give.                         *)
(***************************************************************************)
ReviewIndependent == ReviewerIndependent /\ ChoiceJustified
=============================================================================
