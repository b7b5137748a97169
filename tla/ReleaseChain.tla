---------------------------- MODULE ReleaseChain ----------------------------
(***************************************************************************)
(* The operational release of one version: `release cut` writes the        *)
(* manifest, `release promote` has a provider deploy it, verifies it and   *)
(* marks its features released, `release verify` verifies it again.        *)
(*                                                                         *)
(* The manifest is a file that a command loads at its start and writes     *)
(* whole at its end, with a provider and the verification in between.      *)
(* Nothing locks it.  Repositories, pipelines and the slices' results may  *)
(* be different whenever a command looks at them.  The promotion and       *)
(* verification reports beside the manifest are only written: left out.    *)
(***************************************************************************)
EXTENDS ReleaseChecks

CONSTANTS Sessions,      \* shells in which release commands run
          Cutters,       \* those that run `release cut`
          Forced,        \* whether they run it with --force
          Environments,
          Gated,         \* environments that need --approver
          Options,       \* options of promote: [asked, only, skip, approver]
          Worlds,        \* what a command may find outside when it looks
          MaxStarts      \* bound: commands ever started

ASSUME ChainAssumption ==
    /\ Cutters \subseteq Sessions /\ Forced \in BOOLEAN
    /\ Gated \subseteq Environments /\ "production" \in Environments

\* A commit is on some branches.
ASSUME WorldAssumption == \A w \in Worlds : \A r \in Repos : IsFiniteSet(w.refs[r])

VARIABLES manifestFile, \* the release's manifest file, or NoManifest
          stateFile,    \* feature -> status and release_candidate of its state file
          front,        \* feature -> status in the frontmatter of its spec
          session,      \* session -> the command running there
          deployed,     \* history: every deployment a provider has carried out
          vouched,      \* history: verifications that were in order, [env, features]
          commands      \* commands started so far

chain == <<manifestFile, stateFile, front, session, deployed, vouched, commands>>

NoManifest == [features |-> {}, refs |-> [r \in {} |-> {}], promotions |-> {}, verifications |-> {}]
AtRest == [step |-> "idle"]
NoChoice == [provider |-> Unset, repos |-> {}, env |-> NoEnv]

ReposOf(features) == {Root} \union UNION {Touches[f] : f \in features}

ChainInit ==
    /\ manifestFile = NoManifest
    /\ stateFile = [f \in Features |-> [status |-> "approved", candidate |-> FALSE]]
    /\ front = [f \in Features |-> "approved"]
    /\ session = [s \in Sessions |-> AtRest]
    /\ deployed = {} /\ vouched = {} /\ commands = 0

Starts(s) ==
    /\ session[s] = AtRest /\ commands < MaxStarts
    /\ commands' = commands + 1

AtStep(s, step) == session[s].step = step
Becomes(s, op) == session' = [session EXCEPT ![s] = op]
Exists(m) == m.features # {}

----------------------------------------------------------------------------
(* release cut                                                             *)
ReadyForRelease(f, world) ==
    /\ front[f] = "approved"
    /\ world.slices[f] # {}
    /\ \A x \in world.slices[f] : SliceVerified(x) /\ SliceInScope(f, x)

CutCheck(s) ==
    /\ Starts(s) /\ s \in Cutters
    /\ Exists(manifestFile) => Forced
    /\ \E features \in (SUBSET Features) \ {{}}, world \in Worlds :
         /\ \A f \in features : ReadyForRelease(f, world)
         /\ Becomes(s, [step |-> "cut", features |-> features])
    /\ UNCHANGED <<manifestFile, stateFile, front, deployed, vouched>>

\* The repositories are clean, with --local-only the root aside, and the commits
\* and branches they are at now are written.
CutWrite(s) ==
    LET features == session[s].features
        repos    == ReposOf(features)
    IN  /\ AtStep(s, "cut")
        /\ \E localOnly \in BOOLEAN, world \in Worlds :
             /\ world.dirty \intersect (IF localOnly THEN repos \ {Root} ELSE repos) = {}
             /\ manifestFile' = [NoManifest EXCEPT !.features = features,
                                                   !.refs = [r \in repos |-> world.refs[r]]]
        /\ Becomes(s, [step |-> "candidates", todo |-> features])
        /\ UNCHANGED <<stateFile, front, deployed, vouched, commands>>

CutCandidate(s) ==
    /\ AtStep(s, "candidates")
    /\ \E f \in session[s].todo :
         /\ stateFile' = [stateFile EXCEPT ![f].candidate = TRUE]
         /\ Becomes(s, IF session[s].todo = {f} THEN AtRest ELSE [session[s] EXCEPT !.todo = @ \ {f}])
    /\ UNCHANGED <<manifestFile, front, deployed, vouched, commands>>

----------------------------------------------------------------------------
(* release promote and release verify                                      *)
PromoteCheck(s) ==
    /\ Starts(s) /\ Exists(manifestFile)
    /\ \E env \in Environments, o \in Options :
         LET repos  == DOMAIN manifestFile.refs
             choice == Resolve(repos, o.asked, o.only, env)
         IN  /\ env \in Gated => o.approver
             /\ Resolvable(repos, o.asked, o.only, env)
             /\ Usable(choice.provider)
             /\ Refusals(manifestFile, env, o.skip, choice) = {}
             /\ Becomes(s, [step |-> "promote", env |-> env, m |-> manifestFile, skip |-> o.skip,
                            only |-> o.only, asked |-> o.asked, choice |-> choice,
                            verdict |-> Unset, ran |-> {}])
    /\ UNCHANGED <<manifestFile, stateFile, front, deployed, vouched>>

\* The provider is given the path of the manifest, and reads what is there now.
RunProvider(s) ==
    LET op == session[s]
        targets == Targets(op.m, op.choice.repos)
    IN  /\ AtStep(s, "promote")
        /\ deployed' = deployed \union
             {[env |-> op.env, provider |-> op.choice.provider, asked |-> op.asked, only |-> op.only,
               features |-> manifestFile.features, refs |-> [r \in targets |-> op.m.refs[r]],
               configured |-> Configured(op.choice.env, "source"),
               source |-> SourceOf(op.m, targets, op.choice.env)]}
        /\ Becomes(s, [op EXCEPT !.step = IF op.skip THEN "save" ELSE "verify",
                                 !.verdict = IF op.skip THEN "skipped" ELSE Unset])
        /\ UNCHANGED <<manifestFile, stateFile, front, vouched, commands>>

VerifyAgain(s) ==
    /\ Starts(s) /\ Exists(manifestFile)
    /\ \E env \in Environments :
         Becomes(s, [step |-> "verify", env |-> env, m |-> manifestFile, choice |-> NoChoice,
                     verdict |-> Unset, ran |-> {}])
    /\ UNCHANGED <<manifestFile, stateFile, front, deployed, vouched>>

\* What a verification has to be: the newest run of every check known to GitHub is
\* accepted, every commit is on origin, the tests a release asks for in this
\* environment pass.  The history records the verifications that were that.
InOrder(features, env, world) ==
    /\ \A r \in ReposOf(features) \ {Root} :
         LET w == world.repo[r] IN
         /\ w.pushed
         /\ \A run \in w.runs : \/ run.state = "accepted"
                                \/ ~w.github \/ ~w.gh
                                \/ \E newer \in w.runs : newer.name = run.name /\ Later(newer, run)
    /\ \A f \in features, p \in UNION {Profiles[g] : g \in features} :
         p \in Profiles[f] /\ p.release /\ (p.envs # {} => env \in p.envs) => world.tests

RunVerification(s) ==
    LET op == session[s] IN
    /\ AtStep(s, "verify")
    /\ \E required \in BOOLEAN, world \in Worlds :
         LET passes == ReleaseVerified(op.m, op.env, world, required) IN
         /\ Becomes(s, [op EXCEPT !.step = "save", !.verdict = IF passes THEN "passed" ELSE "failed",
                                  !.ran = UNION {Ran(f, op.env) : f \in op.m.features}])
         /\ vouched' = IF passes /\ InOrder(op.m.features, op.env, world)
                       THEN vouched \union {[env |-> op.env, features |-> op.m.features]} ELSE vouched
    /\ UNCHANGED <<manifestFile, stateFile, front, deployed, commands>>

\* The manifest as it was loaded, with what this command adds, is written back;
\* a production release that was verified goes on to mark its features.
Save(s) ==
    LET op       == session[s]
        promoted == op.choice # NoChoice
        marks    == promoted /\ op.env = "production" /\ op.verdict = "passed"
    IN  /\ AtStep(s, "save")
        /\ manifestFile' = [op.m EXCEPT
             !.promotions = IF promoted
                THEN @ \union {[env |-> op.env, targets |-> Targets(op.m, op.choice.repos),
                                verdict |-> op.verdict, ran |-> op.ran]} ELSE @,
             !.verifications = IF op.verdict = "skipped" THEN @
                ELSE @ \union {[env |-> op.env, verdict |-> op.verdict]}]
        /\ Becomes(s, IF marks THEN [step |-> "mark", todo |-> op.m.features] ELSE AtRest)
        /\ UNCHANGED <<stateFile, front, deployed, vouched, commands>>

\* The state file first, then the spec's frontmatter, feature by feature.
MarkState(s) ==
    /\ AtStep(s, "mark")
    /\ \E f \in session[s].todo :
         /\ stateFile' = [stateFile EXCEPT ![f].status = "released"]
         /\ Becomes(s, [step |-> "markFront", todo |-> session[s].todo, feature |-> f])
    /\ UNCHANGED <<manifestFile, front, deployed, vouched, commands>>

MarkFront(s) ==
    LET op == session[s] IN
    /\ AtStep(s, "markFront")
    /\ front' = [front EXCEPT ![op.feature] = "released"]
    /\ Becomes(s, IF op.todo = {op.feature} THEN AtRest
                  ELSE [step |-> "mark", todo |-> op.todo \ {op.feature}])
    /\ UNCHANGED <<manifestFile, stateFile, deployed, vouched, commands>>

\* The provider fails, a check of the cut refuses, or the process is killed.
Fail(s) ==
    /\ ~AtStep(s, "idle")
    /\ Becomes(s, AtRest)
    /\ UNCHANGED <<manifestFile, stateFile, front, deployed, vouched, commands>>

Release(s) ==
    \/ CutCheck(s) \/ CutWrite(s) \/ CutCandidate(s)
    \/ PromoteCheck(s) \/ RunProvider(s) \/ VerifyAgain(s) \/ RunVerification(s)
    \/ Save(s) \/ MarkState(s) \/ MarkFront(s) \/ Fail(s)

ChainNext == \E s \in Sessions : Release(s)

ChainSpec == ChainInit /\ [][ChainNext]_chain

----------------------------------------------------------------------------
\* A feature is called released only after a provider deployed a manifest with it
\* to production and a verification of that environment found everything in order:
\* also when commands of two shells overlap, one of them dies, or a pipeline is run
\* again in between.  (With cut --force in between, or two shells
\* that cut the same version at once, it would not hold.)
ReleasedJustified ==
    \A f \in Features : "released" \in {stateFile[f].status, front[f]} =>
        /\ stateFile[f].status = "released"
        /\ \E d \in deployed : d.env = "production" /\ f \in d.features
        /\ \E v \in vouched : v.env = "production" /\ f \in v.features

\* Where a repository demands smoke tests after a deployment, a promotion that
\* counts as verified has run at least one: the preflight that finds the tests and
\* the verification that runs them choose them separately.
SmokeRan ==
    \A p \in manifestFile.promotions :
        p.verdict = "passed" /\ (\E r \in p.targets : RepoContract(r, p.env).smoke) => p.ran # {}

\* No repository is deployed by a provider other than the one it names.
DeployedByItsOwn ==
    \A d \in deployed : d.asked = Unset =>
        \A r \in Candidates(ReposOf(d.features), d.only) : ProviderFor(r, d.env) \in {Unset, d.provider}

\* A branch that nobody configured is one that held every deployed repository's
\* commit at the cut, and the only one that did.
DeployedFromItsRef ==
    \A d \in deployed :
        Providers[d.provider].source /\ d.configured = Unset =>
            \A r \in DOMAIN d.refs : d.refs[r] = {d.source}

\* Both: what is deployed, and by whom, is what the cut and the repositories say.
DeployedAsNamed == DeployedByItsOwn /\ DeployedFromItsRef
=============================================================================
