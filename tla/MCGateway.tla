------------------------------ MODULE MCGateway ------------------------------
(***************************************************************************)
(* The two halves of the gateway's HTTP side: the registry of specs and    *)
(* the intake of requests.  They share no table, so what one of them does  *)
(* changes nothing for the other, and each is explored by itself.          *)
(***************************************************************************)
EXTENDS SpecRegistry, WebhookIntake

VARIABLE half   \* the half that is explored

MCSlug == {"1-one", "1-one#2"}
MCSlugify(text) == CASE text \in MCSlug -> text
                     [] text = "1-One" -> "1-one"
                     [] OTHER -> None
MCStripped(text) == IF text = "one " THEN "one" ELSE text
MCTitled(slug) == IF slug = "1-one" THEN "1 One" ELSE slug
MCNamed(key, title) == key \o "-" \o title
MCSuffixed(title, n) == title \o n

MCCatalog == [ref \in {"root", "api", "ws", "zzz"} |->
                CASE ref = "root" -> {"root"}
                  [] ref = "api" -> {"api"}
                  [] ref = "ws" -> {"root", "api"}
                  [] OTHER -> {}]
MCRules == [source \in Webhook \cup {"api"} |->
              IF source = "jira" THEN <<[field |-> "repos", from |-> {}, to |-> {"root"}]>> ELSE <<>>]
MCProviders == [p \in {"github-comment", "jira-comment", "local-log"} |->
                  CASE p = "github-comment" -> [enabled |-> TRUE, retry |-> ("max_attempts" :> 2)]
                    [] p = "jira-comment" -> [enabled |-> FALSE, retry |-> <<>>]
                    [] OTHER -> [enabled |-> TRUE, retry |-> <<>>]]
MCSectionRetry == "max_attempts" :> 0

NoLine == [words |-> <<>>, flags |-> {}, repos |-> {}, title |-> None, approver |-> None, text |-> None]
Say(words) == [NoLine EXCEPT !.words = words]

Request ==
    [via |-> "api", source |-> "api", caller |-> "somebody", signed |-> TRUE, shaped |-> TRUE,
        reply |-> "github-comment", event |-> "issues", action |-> "opened", label |-> "bug",
        labelled |-> TRUE, key |-> "1", title |-> "one", body |-> "b", repos |-> {"root"},
        comment |-> "#2", line |-> NoLine, intent |-> None, payload |-> Bare]

FromHub == [Request EXCEPT !.via = "github", !.source = "github"]
FromTracker == [Request EXCEPT !.via = "jira", !.source = "jira", !.reply = "jira-comment"]
FromChat == [Request EXCEPT !.via = "slack", !.source = "slack", !.reply = "slack-webhook"]

MCDelivery == {
    FromHub,
    [FromHub EXCEPT !.event = "pull_request", !.action = "edited", !.body = "c", !.title = "One"],
    [FromHub EXCEPT !.event = "issue_comment", !.line = Say(<<"/spec">>)],
    [FromHub EXCEPT !.event = "issue_comment", !.line = Say(<<"lgtm", "1-one">>)],
    [FromTracker EXCEPT !.repos = {}],
    [FromTracker EXCEPT !.repos = {"ws"}],
    [FromTracker EXCEPT !.intent = "plan.create", !.payload = About("1-one")],
    [FromTracker EXCEPT !.intent = "spec.approve", !.payload = [About("1-One") EXCEPT !.approver = "ann"]],
    [FromChat EXCEPT !.line = Say(<<"workflow", "execute-feature", "1-one">>), !.caller = "chat"],
    [FromChat EXCEPT !.line = Say(<<"review", "1-one">>)],
    [FromChat EXCEPT !.line = Say(<<"review", "1-one">>), !.caller = "chat", !.signed = FALSE],
    [Request EXCEPT !.intent = "workflow.intake",
                !.payload = [About("1-one") EXCEPT !.title = "bad title", !.repos = {"api"}]],
    [Request EXCEPT !.source = "jira", !.intent = "spec.create",
                !.payload = [About("1-one") EXCEPT !.title = "one ", !.repos = {"api"}]]}

MCInit ==
    /\ Init /\ IntakeInit
    /\ half \in {"registry", "intake"}
    /\ half = "registry" => mode = "db"

\* A bound: the rate limiter, which looks at no row, with one row only.
MCLimitsApart ==
    (\E c \in Caller : admitted[c] # <<>>) => Len(rows) + (IF checked = None THEN 0 ELSE 1) <= 1

MCRegistryNext == half = "registry" /\ Next /\ UNCHANGED <<half, intake>>
MCIntakeNext == half = "intake" /\ IntakeNext /\ UNCHANGED <<half, vars>> /\ MCLimitsApart'
MCNext == MCRegistryNext \/ MCIntakeNext

MCSpec == MCInit /\ [][MCNext]_<<vars, intake, half>>

MCSymmetry == Permutations(Actor)
=============================================================================
