------------------------------ MODULE AgentSetup ------------------------------
(***************************************************************************)
(* What `flow agent run` reads before it decides anything: the executors   *)
(* and logical resources of workspace.config.json (agent_executors.py,     *)
(* agent_resources.py), which of them a selector means, and the directory  *)
(* and targets of the invocation (agent_process_execution.py).             *)
(*                                                                         *)
(* A setup is the file as it was written, right or wrong: an optional      *)
(* field that is missing stands with its default, a value of another type  *)
(* is a value outside the accepted set.                                    *)
(***************************************************************************)
EXTENDS Integers, FiniteSets, SequencesExt

CONSTANTS
    Tree,       \* the file system: directory -> name -> where it leads, links followed
    Above,      \* the real directory above, of every place but the outermost
    Workspace,  \* the workspace root
    Repos,      \* repos of the configuration: id -> its directory
    RootRepo,   \* the repo that is the workspace
    Worktrees,  \* repo -> places `git worktree list` names; no repo git fails for
    Handoff     \* the handoff packages of the file system, by place

ASSUME TreeAssumption ==
    \A d \in DOMAIN Tree : Range(Tree[d]) \subseteq DOMAIN Tree \cup DOMAIN Handoff \cup {"loop"}

None == "none"

SUPPORTED_ADAPTERS == {"codex", "cursor", "opencode"}
TRANSPORTS == {"cli", "acp", "auto"}
PERMISSION_POLICIES == {"reject", "allow_once"}
COST_TIERS == {"local", "cloud/free", "cloud/paid-low"}
Inherited == {"wrapper_profile", "worker_profile", "process_override"}
MODEL_RESOLUTION_POLICIES == Inherited \cup {"dynamic_free", "dynamic_go"}
DATA_SENSITIVITY_CLASSES == {"local-only", "cloud-eligible"}
REQUIRED_RESOURCE_IDS == {"opencode-local", "opencode-free", "opencode-go"}

-----------------------------------------------------------------------------
\* The registries.

\* A name to be looked up or an absolute path, never a path from here.
Executable(x) == x \in {"name", "absolute"}

ExecutorFits(e) ==
    /\ e.unknown = {}
    /\ e.adapter \in SUPPORTED_ADAPTERS
    /\ Executable(e.executable)
    /\ e.transport \in TRANSPORTS
    /\ e.permission_policy \in PERMISSION_POLICIES
    /\ e.acp # None => Executable(e.acp)

\* load_agent_registry: a key given twice anywhere in the file is an error, too.
ExecutorsAccepted(setup) ==
    /\ ~setup.twice
    /\ DOMAIN setup.executors # {}
    /\ \A e \in DOMAIN setup.executors : ExecutorFits(setup.executors[e])

\* Each OpenCode resource has its way to a model.
Resolution(id) ==
    CASE id = "opencode-local" -> {"worker_profile", "process_override"}
      [] id = "opencode-free" -> {"dynamic_free"}
      [] id = "opencode-go" -> {"dynamic_go"}
      [] OTHER -> MODEL_RESOLUTION_POLICIES

\* Mutant: a known policy is enough.
ResolvesAnyhow(id, r) == r.model_resolution \in MODEL_RESOLUTION_POLICIES

Resolves(id, r) == r.model_resolution \in Resolution(id)

\* Neither a credential or a model of its own nor a field nobody knows.
Described(r) ==
    /\ r.unknown = {}
    /\ r.capabilities # <<>> /\ IsInjective(r.capabilities)
    /\ r.cost_tier \in COST_TIERS
    /\ r.selection_priority \in Int
    /\ r.data_sensitivity \in DATA_SENSITIVITY_CLASSES
    /\ r.candidate_tie_break = "lexical"

Roomy(id, r) == r.capacity >= 1 /\ (id = "opencode-local" => r.capacity = 1)

ResourcesAccepted(setup) ==
    /\ setup.listed
    /\ \A id \in DOMAIN setup.resources :
         LET r == setup.resources[id]
         IN  /\ r.executor \in DOMAIN setup.executors
             /\ Described(r) /\ Roomy(id, r) /\ Resolves(id, r)
    /\ REQUIRED_RESOURCE_IDS \subseteq DOMAIN setup.resources

\* resolve_agent_selector: a logical resource first, then an executor.  Resources that are
\* listed and wrong refuse every selector, resources that are not listed refuse none.
Meant(setup, selector) ==
    IF setup.listed /\ selector \in DOMAIN setup.resources
    THEN [executor |-> setup.resources[selector].executor, resource |-> selector]
    ELSE [executor |-> selector, resource |-> None]

Selectable(setup, selector) ==
    /\ ExecutorsAccepted(setup)
    /\ setup.listed => ResourcesAccepted(setup)
    /\ Meant(setup, selector).executor \in DOMAIN setup.executors

\* Every adapter refuses whatever the configuration puts before its own arguments.
StaticArgvFits(e) == e.argv = <<>>

-----------------------------------------------------------------------------
\* Places.

\* From a place along names; from the first that is not there on, below the last that is.
Walk(place, names) ==
    FoldLeft(LAMBDA at, name :
                 IF at.there /\ at.place \in DOMAIN Tree /\ name \in DOMAIN Tree[at.place]
                 THEN [at EXCEPT !.place = Tree[at.place][name]]
                 ELSE [at EXCEPT !.there = FALSE],
             [place |-> place, there |-> TRUE], names)

Up(S) == S \cup {Above[p] : p \in S \cap DOMAIN Above}
\* Bound: trees no deeper than four.
Within(place, top) == top \in Up(Up(Up(Up({place}))))

\* One name more: a name and the ".." after it cancel out, whatever the name leads to.
Along(seen, name) ==
    IF name = "." THEN seen
    ELSE IF name = ".." /\ seen # <<>> /\ Last(seen) # ".." THEN Front(seen)
    ELSE Append(seen, name)

\* os.path.normpath.
Normal(names) ==
    LET normal[n \in 0..Len(names)] ==
          IF n = 0 THEN <<>> ELSE Along(normal[n - 1], names[n])
    IN  normal[Len(names)]

\* Mutant: names that climb are refused, places are not looked up.
TargetStaysByName(workdir, names) ==
    "/" \notin Range(names) /\ ".." \notin Range(Normal(names))

\* resolve_target_within_workdir: it is no absolute path ("/"), it does not climb, and at no
\* name does it lead out.
TargetStays(workdir, names) ==
    LET normal == Normal(names)
    IN  /\ "/" \notin Range(names)
        /\ ".." \notin Range(normal)
        /\ \A n \in 1..Len(normal) : Within(Walk(workdir, SubSeq(normal, 1, n)).place, workdir)

RepoId(raw) ==
    IF raw \in DOMAIN Repos THEN raw
    ELSE IF raw \in {"workspace-root", "root", "root-repo", "root_repo", "workspace", "."} THEN RootRepo
    ELSE None

\* list_registered_worktree_paths: git that fails refuses whatever it was asked for.
Registered(repo) == IF repo \in DOMAIN Worktrees THEN Worktrees[repo] ELSE {}

\* validate_workdir: where its path leads, and that may be the repo or a worktree of it.
WorkdirFits(place, repo) ==
    /\ place \in DOMAIN Tree
    /\ Within(place, Workspace)
    /\ place = Repos[repo] \/ place \in Registered(repo)

\* validate_handoff_ref: a file that is there, in the workspace once links are followed.
HandoffThere(names) ==
    LET at == Walk(Workspace, names)
    IN  at.there /\ Within(at.place, Workspace) /\ at.place \in DOMAIN Handoff

\* prepare_agent_run, but for its prompt, which must not be empty.
Prepared(setup, ask) ==
    /\ Selectable(setup, ask.selector)
    /\ RepoId(ask.repo) # None
    /\ WorkdirFits(ask.workdir, RepoId(ask.repo))
    /\ ask.targets # {}
    /\ \A names \in ask.targets : TargetStays(ask.workdir, names)
=============================================================================
