--------------------------- MODULE MCReleaseChain ---------------------------
(***************************************************************************)
(* Two repositories beside the root.  In preview both are deployed by      *)
(* GitHub Actions from the branch found at the cut; in production the API  *)
(* goes through a pull request from staging with smoke tests, as in the    *)
(* example of workspace.config.json, and the web site through ftp-bridge.  *)
(***************************************************************************)
EXTENDS ReleaseChain

Bare == [x \in {} |-> Unset]
NoDeploy == [provider |-> Unset, providerBy |-> [e \in Environments |-> Unset], mode |-> Unset,
             contract |-> Bare, contractBy |-> [e \in Environments |-> Bare],
             verify |-> Bare, verifyBy |-> [e \in Environments |-> Bare],
             env |-> Bare, envBy |-> [e \in Environments |-> Bare]]

MCRepoOrder == <<"api", "web">>
MCTouches == [api |-> {"api"}, site |-> {"api", "web"}]
MCScope == [api |-> [api |-> {"src", "test"}], site |-> [api |-> {"src"}, web |-> {"page"}]]

Profile(envs) == [release |-> TRUE, envs |-> envs, command |-> TRUE]
MCProfiles == [api |-> {Profile({})}, site |-> {Profile({"preview"}), [Profile({}) EXCEPT !.release = FALSE]}]

MCDeploy ==
    [root |-> NoDeploy,
     api  |-> [NoDeploy EXCEPT !.provider = "github-actions",
                 !.contractBy["production"] = [pr |-> TRUE, health |-> TRUE, smoke |-> TRUE],
                 !.verify = [mode |-> "healthcheck", attempts |-> 4],
                 !.env = [target |-> "main"],
                 !.envBy["production"] = [source |-> "staging"]],
     web  |-> [NoDeploy EXCEPT !.provider = "ftp-bridge", !.providerBy["preview"] = "github-actions",
                 !.env = [target |-> "main"]]]

Plain == [enabled |-> TRUE, pr |-> FALSE, source |-> FALSE, target |-> FALSE, verify |-> FALSE, healthcheck |-> FALSE]
MCProviders ==
    ("local-hooks" :> Plain) @@ ("ftp-bridge" :> Plain) @@
    ("github-actions" :> [enabled |-> TRUE, pr |-> TRUE, source |-> TRUE, target |-> TRUE,
                          verify |-> TRUE, healthcheck |-> TRUE])

Option(asked, only, skip) == [asked |-> asked, only |-> only, skip |-> skip, approver |-> TRUE]
MCOptions == {Option(Unset, Unset, FALSE), Option(Unset, "web", TRUE), Option("local-hooks", Unset, FALSE)}

(* What may be found outside: all is well, or one thing is not.            *)
\* An attempt at a check, and when it started, when it ended and its number; one that goes on
\* is listed as if it ended last.
Run(name, key, outcome) ==
    [name |-> name, started |-> key[1], completed |-> key[2], id |-> key[3], state |-> outcome]
Fine == [here |-> TRUE, remote |-> TRUE, pushed |-> TRUE, github |-> TRUE, gh |-> TRUE, api |-> TRUE,
         runs |-> {Run("build", <<1, 2, 1>>, "accepted")}]
Slice(repo, files) == [result |-> "passed", report |-> TRUE, inventory |-> "listed", repo |-> repo, files |-> files]
Well == [repo |-> [r \in {"api", "web"} |-> Fine], tests |-> TRUE, dirty |-> {},
         refs |-> [r \in {"root", "api", "web"} |-> {"main"}],
         slices |-> [api |-> {Slice("api", {"src"})}, site |-> {Slice("api", {}), Slice("web", {"page"})}]]

MCWorlds ==
    {Well,
     [Well EXCEPT !.tests = FALSE],
     [Well EXCEPT !.dirty = {"api"}],
     [Well EXCEPT !.refs["api"] = {"HEAD", "main"}],
     [Well EXCEPT !.refs["web"] = {"hotfix"}, !.refs["root"] = {}],
     [Well EXCEPT !.slices["api"] = {[Slice("api", {}) EXCEPT !.result = "failed"]}],
     [Well EXCEPT !.slices["site"] = {Slice("web", {"page", "src"})}],
     [Well EXCEPT !.repo["web"].pushed = FALSE],
     [Well EXCEPT !.repo["api"].gh = FALSE],
     [Well EXCEPT !.repo["api"].runs = {Run("build", <<1, 2, 1>>, "refused"), Run("build", <<1, 3, 2>>, "accepted")}],
     [Well EXCEPT !.repo["api"].runs = {Run("build", <<1, 2, 1>>, "accepted"),
                                        Run("build", <<2, 9, 2>>, "running"),
                                        Run("lint", <<1, 2, 3>>, "accepted")}]}
=============================================================================
