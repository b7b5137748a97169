----------------------------- MODULE MCAgentLaunch -----------------------------
(***************************************************************************)
(* AgentLaunch with the agents of workspace.config.json, the same file     *)
(* with one thing changed or wrong, a handoff whose first slice does not   *)
(* say who implemented it, a repo beside the workspace root, two ids that  *)
(* are spelled alike in a file name, and names with room for two parts.    *)
(***************************************************************************)
EXTENDS AgentLaunch

By(executor, resolution) == [executor |-> executor, resolution |-> resolution]
Agent(adapter) ==
    [adapter |-> adapter, executable |-> "name", argv |-> <<>>, transport |-> "auto",
     permission_policy |-> "reject", acp |-> "name", unknown |-> {}]

Of(executor, capabilities, tier, priority, resolution, sensitivity) ==
    [executor |-> executor, capabilities |-> <<"write">> \o capabilities, capacity |-> 1,
     cost_tier |-> tier, selection_priority |-> priority, model_resolution |-> resolution,
     data_sensitivity |-> sensitivity, candidate_tie_break |-> "lexical", unknown |-> {}]

Written ==
    [twice |-> FALSE, listed |-> TRUE,
     executors |-> [e \in {"codex", "cursor", "opencode", "opencode-local"} |->
                      Agent(IF e \in {"codex", "cursor"} THEN e ELSE "opencode")],
     resources |->
       [r \in REQUIRED_RESOURCE_IDS |->
          CASE r = "opencode-local" ->
                 Of("opencode-local", <<>>, "local", 10, "worker_profile", "local-only")
            [] r = "opencode-free" ->
                 Of("opencode", <<>>, "cloud/free", 20, "dynamic_free", "cloud-eligible")
            [] OTHER -> Of("opencode", <<"architecture">>, "cloud/paid-low", 30, "dynamic_go",
                           "cloud-eligible")]]

\* A resource that shares its way to a model with another executor's, and is as urgent.
Extended ==
    [Written EXCEPT !.resources = [r \in DOMAIN @ \cup {"cursor-free"} |->
        IF r \in DOMAIN @ THEN @[r]
        ELSE Of("cursor", <<"architecture">>, "cloud/free", 30, "dynamic_free", "cloud-eligible")]]

Changed ==
    {[Written EXCEPT !.listed = FALSE], [Written EXCEPT !.twice = TRUE],
     [Written EXCEPT !.executors = <<>>],
     [Written EXCEPT !.executors["codex"].unknown = {"model"}],
     [Written EXCEPT !.executors["codex"].adapter = "claude"],
     [Written EXCEPT !.executors["codex"].executable = "relative"],
     [Written EXCEPT !.executors["codex"].argv = <<"-m", "gpt">>,
                     !.resources["opencode-local"].model_resolution = "process_override"],
     [Written EXCEPT !.executors["codex"].transport = "tcp"],
     [Written EXCEPT !.executors["codex"].acp = "relative"],
     [Written EXCEPT !.executors = [e \in DOMAIN @ \ {"opencode-local"} |-> @[e]]],
     [Written EXCEPT !.resources = [r \in DOMAIN @ \ {"opencode-go"} |-> @[r]]],
     [Written EXCEPT !.resources["opencode-go"].capabilities = <<"write", "write">>],
     [Written EXCEPT !.resources["opencode-go"].unknown = {"api_key"}],
     [Written EXCEPT !.resources["opencode-go"].capacity = 0],
     [Written EXCEPT !.resources["opencode-local"].capacity = 2],
     [Written EXCEPT !.resources["opencode-local"].model_resolution = "dynamic_free"]}

MCSetups == {Extended} \cup Changed
MCLexical == [r \in DOMAIN Extended.resources |->
              CASE r = "cursor-free" -> 1 [] r = "opencode-free" -> 2
                [] r = "opencode-go" -> 3 [] OTHER -> 4]
MCPreferred == <<"codex", "cursor", "opencode-free">>
MCPriority == <<"codex", "cursor", "opencode-go", "opencode">>

MCHandoff ==
    [h \in {"first", "second", "nobody", "foreign"} |->
       CASE h \in {"first", "foreign"} -> <<By("opencode", "dynamic_free")>>
         [] h = "second" -> <<By("cursor", None), By("opencode-local", "worker_profile")>>
         [] OTHER -> <<By("codex", None)>>]

Model(place, free, go) == [place |-> place, free |-> free, go |-> go]
MCFound == {{}, {Model(1, FALSE, TRUE), Model(2, TRUE, FALSE), Model(3, TRUE, FALSE)}}

-----------------------------------------------------------------------------
\* home / ws / {api / src, trees / one} with their handoffs, and links of api/src: out of it, into it, in a circle.
MCTree ==
    [d \in {"home", "ws", "api", "src", "trees", "one"} |->
       CASE d = "home" -> [n \in {"ws", "foreign"} |-> n]
         [] d = "ws" -> [n \in {"api", "trees"} |-> n]
         [] d = "api" -> [n \in {"src", "up", "far"} |->
                            CASE n = "up" -> "ws" [] n = "far" -> "home" [] OTHER -> "src"]
         [] d = "src" -> [n \in {"self", "loop"} |-> IF n = "self" THEN "src" ELSE "loop"]
         [] d = "trees" -> [n \in {"one", "second", "nobody"} |-> n]
         [] OTHER -> [n \in {"first"} |-> "first"]]
MCAbove == [d \in {"ws", "api", "src", "trees", "one"} \cup DOMAIN MCHandoff |->
              CASE d \in {"ws", "foreign"} -> "home" [] d \in {"api", "trees"} -> "ws"
                [] d = "src" -> "api" [] d = "first" -> "one" [] OTHER -> "trees"]
MCRepos == [r \in {"softos", "api"} |-> IF r = "softos" THEN "ws" ELSE "api"]
MCWorktrees == [r \in {"api"} |-> {"api", "one", "home"}]

-----------------------------------------------------------------------------
MCFresh == [i \in 1..3 |-> "child" \o ToString(i)]
MCSafe == [id \in {"r", "r.", "standalone-orchestrator"} |-> IF id = "r." THEN "r" ELSE id]
MCFirst == <<"trees", "one", "first">>

\* What an invocation says of its role, and of what it runs with and where.
Says(role, run, parent, handoff, selector) ==
    [role |-> role, run |-> run, parent |-> parent, handoff |-> handoff, selector |-> selector,
     pinned |-> FALSE, repo |-> "api", workdir |-> "api", targets |-> {<<"src">>}]
Plain == Says("orchestrator", None, None, <<>>, "codex")

MCAsks ==
    {Says(role, None, None, <<>>, "opencode-free") : role \in {None, "orchestrator"}}
    \cup {Says(role, run, parent, MCFirst, selector) : role \in {None, "orchestrator"},
            run \in {None, "r"}, parent \in {None, "p"}, selector \in {"opencode-local", "codex"}}
    \cup {Says("reviewer", run, None, handoff, selector) : run \in {None, "r."},
            handoff \in {MCFirst, <<"trees", "second">>, <<"trees", "nobody">>},
            selector \in DOMAIN Extended.resources \cup {"codex"}}
    \cup {[Says("worker", None, None, MCFirst, selector) EXCEPT !.pinned = TRUE] :
            selector \in {"codex", "opencode-go"}}
    \cup {Says("worker", None, None, handoff, "codex") :
            handoff \in {<<>>, <<"trees">>, <<"first">>, <<"api", "far", "foreign">>,
                         <<"api", "up", "trees", "second">>}}
    \cup {[Plain EXCEPT !.repo = repo, !.workdir = workdir] :
            repo \in {"api", "root", "nothing"}, workdir \in {"home", "ws", "src", "one"}}
    \cup {[Plain EXCEPT !.targets = {<<"src">>} \cup more] :
            more \in {{<<".">>, <<"far", "..", "src">>, <<"src", "self", "new", "file">>},
                      {<<"up", "trees">>}, {<<"far">>}, {<<"src", "..", "..">>},
                      {<<"src", "loop">>}, {<<"up", "api", "src">>},
                      {<<"new", "..", "..", "src">>}, {<<"/", "src">>}}}
=============================================================================
