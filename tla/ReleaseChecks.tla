---------------------------- MODULE ReleaseChecks ----------------------------
(***************************************************************************)
(* The decisions of the operational release: which slices may be cut into  *)
(* a release, which provider deploys it, what a promotion is refused for,  *)
(* and when a release counts as verified.  They are functions of the       *)
(* configuration (workspace.config.json, workspace.providers.json) and of  *)
(* what the command finds in the repositories and at GitHub.               *)
(***************************************************************************)
EXTENDS Integers, Sequences, FiniteSets, SequencesExt, TLC

CONSTANTS Root,             \* the governance repository
          RepoOrder,        \* the other repositories, in the order of their names
          Features,
          Touches,          \* feature -> repositories of its targets
          Scope,            \* feature -> repository -> paths its targets and tests allow
          Profiles,         \* feature -> profiles of its verification matrix
          Deploy,           \* repository -> its deploy section
          Providers,        \* provider -> its entry
          DefaultProvider

Unset == "none"
Repos == Range(RepoOrder) \union {Root}

\* A workspace has some repositories, and a feature's targets are in them.
ASSUME RepoAssumption == IsFiniteSet(Repos) /\ \A f \in Features : Touches[f] \subseteq Repos

\* _as_bool: a flag that is absent, or no boolean, has the default.
Flag(contract, key, default) == IF key \in DOMAIN contract THEN contract[key] ELSE default

(***************************************************************************)
(* Deploy contracts.  A section for the environment refines the common one *)
(* for the provider, the contract and its verification, but the common     *)
(* environment variables win over those of the environment.                *)
(***************************************************************************)
RepoContract(repo, env) ==
    LET d      == Deploy[repo]
        common == d.contractBy[env] @@ d.contract
        retry  == d.verifyBy[env] @@ d.verify
        asked  == IF d.mode # Unset THEN d.mode ELSE Flag(common, "mode", Unset)
        mode   == IF asked # Unset THEN asked
                  ELSE IF Flag(common, "pr", FALSE) THEN "pull_request"
                  ELSE "direct"
    IN  [pr       |-> Flag(common, "pr", mode = "pull_request"),
         health   |-> Flag(common, "health", Flag(retry, "mode", Unset) = "healthcheck"),
         smoke    |-> Flag(common, "smoke", FALSE),
         attempts |-> Flag(retry, "attempts", 0)]

ProviderFor(repo, env) ==
    IF Deploy[repo].providerBy[env] # Unset THEN Deploy[repo].providerBy[env] ELSE Deploy[repo].provider

DeployEnv(repo, env) == Deploy[repo].env @@ Deploy[repo].envBy[env]

NoEnv == [k \in {} |-> Unset]

\* The variables of several repositories in one environment: the last one wins.
MergedEnv(repos, env) ==
    FoldLeft(LAMBDA acc, r : DeployEnv(r, env) @@ acc, NoEnv,
             SelectSeq(RepoOrder \o <<Root>>, LAMBDA r : r \in repos))

(***************************************************************************)
(* Which provider promotes: the one asked for, or the one that every       *)
(* repository of the release names, or the default when none names one.    *)
(***************************************************************************)
Candidates(repos, only) ==
    LET asked == IF only = Unset THEN repos ELSE {only}
    IN  IF asked \ {Root} # {} THEN asked \ {Root} ELSE asked

Selected(repos, only, env) == {r \in Candidates(repos, only) : ProviderFor(r, env) # Unset}

Named(repos, only, env) == {ProviderFor(r, env) : r \in Selected(repos, only, env)}

\* A bug to catch: the first provider found is taken.
MutantResolvable(repos, asked, only, env) == asked = Unset => only = Unset \/ only \in repos

Resolvable(repos, asked, only, env) ==
    asked = Unset => /\ only = Unset \/ only \in repos
                    /\ Cardinality(Named(repos, only, env)) <= 1

Resolve(repos, asked, only, env) ==
    LET named == Named(repos, only, env) IN
    IF asked # Unset THEN [provider |-> asked, repos |-> {}, env |-> NoEnv]
    ELSE IF named # {} THEN [provider |-> CHOOSE p \in named : TRUE,
                             repos |-> Selected(repos, only, env),
                             env |-> MergedEnv(Selected(repos, only, env), env)]
    ELSE [provider |-> DefaultProvider, repos |-> {}, env |-> NoEnv]

Usable(provider) == provider \in DOMAIN Providers /\ Providers[provider].enabled

(***************************************************************************)
(* The branch a deployment starts from: configured, or the one branch of   *)
(* origin that held the commit of every deployed repository at the cut.    *)
(***************************************************************************)
SourceRef(refs) == IF Cardinality(refs) = 1 THEN CHOOSE b \in refs : TRUE ELSE Unset

Derived(manifest, targets) == {SourceRef(manifest.refs[r]) : r \in targets}

Configured(denv, key) == IF key \in DOMAIN denv THEN denv[key] ELSE Unset

\* A bug to catch: any of the candidate branches will do.
MutantSourceAny(manifest, targets, denv) ==
    LET all == UNION {manifest.refs[r] : r \in targets} IN
    IF Configured(denv, "source") # Unset THEN Configured(denv, "source")
    ELSE IF all = {} THEN Unset ELSE CHOOSE b \in all : TRUE

SourceOf(manifest, targets, denv) ==
    IF Configured(denv, "source") # Unset THEN Configured(denv, "source")
    ELSE SourceRef(Derived(manifest, targets))

Applies(profile, env) == profile.release /\ (profile.envs = {} \/ env \in profile.envs)

BlockingProfiles(manifest, env) ==
    {p \in UNION {Profiles[f] : f \in manifest.features} : Applies(p, env)}

Targets(manifest, repos) == IF repos # {} THEN repos ELSE DOMAIN manifest.refs

Refusals(manifest, env, skip, choice) ==
    LET p       == Providers[choice.provider]
        targets == Targets(manifest, choice.repos)
        some(key) == \E r \in targets : RepoContract(r, env)[key]
    IN  {x \in {"pr", "source", "target", "verify", "healthcheck", "smoke"} :
           CASE x = "pr"     -> some("pr") /\ ~p.pr
             [] x = "source" -> p.source /\ SourceOf(manifest, targets, choice.env) = Unset
             [] x = "target" -> p.target /\ Configured(choice.env, "target") = Unset
             [] x = "verify" -> p.verify /\ skip
             [] x = "healthcheck" ->
                  p.healthcheck /\ \E r \in targets :
                     RepoContract(r, env).health /\ RepoContract(r, env).attempts < 1
             [] x = "smoke"  -> some("smoke") /\ BlockingProfiles(manifest, env) = {}}

(***************************************************************************)
(* What the cut asks of a slice: its last verification passed, its report  *)
(* is still there, and it changed nothing outside the feature's scope.     *)
(***************************************************************************)
SliceVerified(slice) == slice.result = "passed" /\ slice.report

SliceInScope(f, slice) ==
    \/ slice.inventory = "unchecked"
    \/ slice.inventory = "listed"
       /\ slice.files # {} => /\ slice.repo \in DOMAIN Scope[f]
                              /\ slice.files \subseteq Scope[f][slice.repo]

(***************************************************************************)
(* Verification of a release: every deployable repository has the commit   *)
(* on origin and its pipelines are not known to fail, and every blocking   *)
(* profile passes.  The root is not deployed and always passes.            *)
(***************************************************************************)
\* Of two attempts at a check: the one that started, then the one that ended, then the one
\* that was numbered later.
Later(q, r) ==
    \/ q.started > r.started
    \/ q.started = r.started /\ \/ q.completed > r.completed
                                \/ q.completed = r.completed /\ q.id > r.id

\* A bug to catch: the first attempt of a check counts.
MutantFirstRuns(runs) ==
    {r \in runs : \A q \in runs : q.name = r.name => ~Later(r, q)}

LatestRuns(runs) ==
    {r \in runs : \A q \in runs : q.name = r.name => ~Later(q, r)}

OnOrigin(w) == w.here /\ w.remote /\ w.pushed

PipelinesPass(w, required) ==
    LET askable == w.github /\ w.gh IN
    /\ required => askable /\ (w.api => w.runs # {})
    /\ askable => w.api /\ \A r \in LatestRuns(w.runs) : r.state = "accepted"

\* A bug to catch: a profile for no environment in particular is left out.
MutantRanNamedOnly(f, env) == {p \in Profiles[f] : p.release /\ env \in p.envs}

\* The profiles of a feature that its verification runs.
Ran(f, env) == {p \in Profiles[f] : Applies(p, env)}

FeaturePasses(f, env, tests) == \A p \in Ran(f, env) : p.command /\ tests

ReleaseVerified(manifest, env, world, required) ==
    /\ \A r \in DOMAIN manifest.refs \ {Root} :
         OnOrigin(world.repo[r]) /\ PipelinesPass(world.repo[r], required)
    /\ \A f \in manifest.features : FeaturePasses(f, env, world.tests)
=============================================================================
