--------------------------- MODULE GatewayIntents ---------------------------
(***************************************************************************)
(* What the gateway makes of a request, as functions of it: the intent     *)
(* behind a webhook or a line of text (gateway/app/intents.py), the checks *)
(* in front of the queue (webhook_validation.py, approval_policy.py,       *)
(* transforms.py, spec_quality.py), the flow command (flow_command.py,     *)
(* repos.py), and how often an answer is sent (feedback.py).               *)
(*                                                                         *)
(* A line of text is its words, the flags after them and what they say; a  *)
(* payload is the fields that a check or a command looks at, None where it *)
(* has no such field.                                                      *)
(***************************************************************************)
EXTENDS Integers, FiniteSets, SequencesExt

CONSTANTS
    Slugify(_),     \* the slug of a text, None when nothing is left of it or there is none
    Stripped(_),    \* a text without the blanks around it, None if there is none
    Titled(_),      \* the title made of a slug
    Named(_, _),    \* the text of an issue's key and title
    Suffixed(_, _), \* a title with the number of a comment
    Catalog,        \* per reference, the repos that go by it
    Rules,          \* gateway.transforms, per source
    IllTitles,      \* the titles that lint_inbound_spec_payload objects to
    LintRejects,    \* spec_inbound_lint.reject_on_error
    EnforceApprover,    \* SOFTOS_GATEWAY_ENFORCE_APPROVER_ON_SPEC_APPROVE
    Providers,      \* the feedback providers, per name: enabled, retry
    DefaultProvider,
    EnvAttempts,    \* SOFTOS_FEEDBACK_RETRY_MAX_ATTEMPTS
    SectionRetry,   \* feedback.retry_policy
    None

\* A reference leads to some repos, and every policy says how often by a number, if at all.
ASSUME CatalogAssumption == \A ref \in DOMAIN Catalog : IsFiniteSet(Catalog[ref])
ASSUME AttemptsAssumption ==
    /\ EnvAttempts \in Int
    /\ \A overlay \in {SectionRetry} \cup {Providers[p].retry : p \in DOMAIN Providers} :
         "max_attempts" \in DOMAIN overlay => overlay.max_attempts \in Int

Webhook == {"github", "jira", "slack"}
Blank == {None, ""}

Nothing == [intent |-> "nothing"]
Error == [intent |-> "error"]
Bare == [slug |-> None, title |-> None, repos |-> None, approver |-> None,
         text |-> None, slice |-> None]
Ask(intent, payload) == [intent |-> intent, payload |-> payload]
About(slug) == [Bare EXCEPT !.slug = slug]

-----------------------------------------------------------------------------
(***************************************************************************)
(* A line of text.                                                         *)
(***************************************************************************)
Word(c, n) == IF n <= Len(c.words) THEN c.words[n] ELSE None

\* What follows the slug is not read: no approver.
Simple(c) ==
    LET slug == Slugify(Word(c, 2))
    IN  IF slug = None THEN Nothing
        ELSE IF Word(c, 1) \in {"approve", "/approve", "lgtm"} THEN Ask("spec.approve", About(slug))
        ELSE IF Word(c, 1) \in {"review", "/review"} THEN Ask("spec.review", About(slug))
        ELSE Nothing

DescribeFlags == {"--title", "--repo", "--runtime", "--service", "--capability",
                  "--depends-on", "--description", "--acceptance-criteria"}

Described(c) ==
    [Bare EXCEPT !.slug = Word(c, 3), !.repos = c.repos, !.text = c.text,
                 !.title = IF c.title \in Blank THEN Titled(Word(c, 3)) ELSE c.title]

ParseWorkflow(c) ==
    IF Word(c, 3) = None THEN Error
    ELSE IF Word(c, 2) = "next-step" THEN Ask("workflow.next_step", About(Word(c, 3)))
    ELSE IF Word(c, 2) = "execute-feature" /\ c.flags \subseteq {"--refresh-plan", "--start-slices"} THEN
            Ask("workflow.execute_feature", About(Word(c, 3)))
    ELSE IF Word(c, 2) = "intake" /\ c.flags \subseteq DescribeFlags THEN Ask("workflow.intake", Described(c))
    ELSE Error

ParseSpec(c) ==
    IF Word(c, 3) = None THEN Error
    ELSE IF Word(c, 2) = "review" THEN Ask("spec.review", About(Word(c, 3)))
    ELSE IF Word(c, 2) = "approve" /\ c.flags \subseteq {"--approver"} THEN
            Ask("spec.approve", [About(Word(c, 3)) EXCEPT !.approver = c.approver])
    ELSE IF Word(c, 2) = "create" /\ c.flags \subseteq DescribeFlags THEN Ask("spec.create", Described(c))
    ELSE Error

ParseText(c) ==
    IF Simple(c) # Nothing THEN Simple(c)
    ELSE IF Word(c, 1) = "status" THEN Ask("status.get", Bare)
    ELSE IF Word(c, 1) = "plan" /\ Word(c, 2) # None THEN Ask("plan.create", About(Word(c, 2)))
    ELSE IF Word(c, 1) = "workflow" THEN ParseWorkflow(c)
    ELSE IF Word(c, 1) = "spec" THEN ParseSpec(c)
    ELSE IF Word(c, 1) = "slice" /\ Word(c, 2) = "verify" /\ Word(c, 4) # None THEN
            Ask("slice.verify", [About(Word(c, 3)) EXCEPT !.slice = Word(c, 4)])
    ELSE IF Word(c, 1) = "ci" /\ Word(c, 2) = "spec" THEN Ask("ci.spec", Bare)
    ELSE Error

-----------------------------------------------------------------------------
(***************************************************************************)
(* Webhooks.                                                               *)
(***************************************************************************)
Valid(d) ==
    CASE d.via = "github" -> d.event \in {"issues", "issue_comment", "pull_request"} /\ d.shaped
      [] d.via = "jira" -> d.shaped /\ (d.intent # None \/ d.title \notin Blank)
      [] d.via = "slack" -> d.shaped /\ d.line.words # <<>>
      [] OTHER -> TRUE

\* intake_from_issue; an issue without flow-repo labels is about the root.
FromIssue(d, title, text) ==
    Ask("workflow.intake",
        [Bare EXCEPT !.slug = Slugify(Named(d.key, title)), !.title = title,
                     !.repos = IF d.repos = {} THEN {"root"} ELSE d.repos,
                     !.text = IF text = None THEN d.body ELSE text])

IssueTitle(d) == IF d.title \in Blank THEN d.key ELSE d.title

FromComment(d) ==
    IF Word(d.line, 1) = "/flow" THEN ParseText([d.line EXCEPT !.words = Tail(@)])
    ELSE IF Simple(d.line) # Nothing THEN Simple(d.line)
    ELSE IF Word(d.line, 1) \in {"/spec", "#spec", "flow-spec"} THEN
            FromIssue(d, Suffixed(IssueTitle(d), d.comment), d.line.text)
    ELSE Nothing

\* The deliveries of an issue or a pull request that ask for its intake.
Announces(d) ==
    /\ d.labelled
    /\ \/ d.action = "opened"
       \/ d.action = "labeled" /\ d.label = "flow-spec"
       \/ d.action = "edited" /\ d.event = "pull_request"

FromGithub(d) ==
    IF d.event = "issue_comment" THEN FromComment(d)
    ELSE IF Announces(d) THEN FromIssue(d, IssueTitle(d), None)
    ELSE Nothing

FromJira(d) ==
    IF d.intent # None THEN Ask(d.intent, d.payload)
    ELSE IF Simple(d.line) # Nothing THEN Simple(d.line)
    ELSE Ask("workflow.intake",
             [Bare EXCEPT !.slug = Slugify(Named(d.key, d.title)), !.title = d.title,
                          !.repos = d.repos, !.text = d.body])

IntentOf(d) ==
    CASE d.via = "github" -> FromGithub(d)
      [] d.via = "jira" -> FromJira(d)
      [] d.via = "slack" -> ParseText(d.line)
      [] OTHER -> Ask(d.intent, d.payload)

-----------------------------------------------------------------------------
(***************************************************************************)
(* In front of the queue.                                                  *)
(***************************************************************************)
WEBHOOK_ALLOWED_INTENTS == {"workflow.intake", "spec.approve", "spec.review"}

\* Mutant: an intent that is spelled out is taken as it is.
AllowedUnlessExplicit(d, intent) == d.via = "api" \/ d.intent # None \/ intent \in WEBHOOK_ALLOWED_INTENTS

Allowed(d, intent) == d.via = "api" \/ intent \in WEBHOOK_ALLOWED_INTENTS

\* Mutant: only the API is held to name an approver.
PolicyOfApi(d, r) ==
    d.via = "api" /\ EnforceApprover /\ r.intent = "spec.approve" => r.payload.approver \notin Blank

Policy(d, r) ==
    EnforceApprover /\ r.intent = "spec.approve" => r.payload.approver \notin Blank

\* A rule sets a field that the payload has and whose value it is about: the value
\* without a prefix or suffix, or a default for an empty one.
Transformed(source, payload) ==
    LET Apply(p, rule) == IF p[rule.field] = rule.from THEN [p EXCEPT ![rule.field] = rule.to] ELSE p
    IN  FoldLeft(Apply, payload, Rules[source])

\* Mutant: findings are noted only.
LintNotes(payload) == TRUE

Lint(payload) == LintRejects => payload.title \notin IllTitles

\* resolve_repo_references: a reference that several repos go by names none.
Refs(p) == IF p.repos = None THEN {} ELSE p.repos
Resolves(refs) == \A ref \in refs : Cardinality(Catalog[ref]) = 1
Resolved(refs) == UNION {Catalog[ref] : ref \in refs}

\* Mutant: the slug and title suffice.
BuildAnywhere(intent, p) ==
    Slugify(p.slug) # None /\ (intent \in {"spec.create", "workflow.intake"} => Stripped(p.title) \notin Blank)

\* build_flow_command finds what the command needs.
Builds(intent, p) ==
    LET slug == Slugify(p.slug) # None
    IN  CASE intent \in {"status.get", "ci.spec"} -> TRUE
          [] intent \in {"spec.create", "workflow.intake"} ->
                slug /\ Stripped(p.title) \notin Blank /\ Refs(p) # {} /\ Resolves(Refs(p))
          [] intent = "slice.verify" -> slug /\ p.slice \notin Blank
          [] intent \in {"workflow.next_step", "workflow.execute_feature", "spec.review",
                         "spec.approve", "plan.create"} -> slug
          [] OTHER -> FALSE

Command(intent, p) ==
    CASE intent \in {"status.get", "ci.spec"} -> [verb |-> intent]
      [] intent \in {"spec.create", "workflow.intake"} ->
            [verb |-> intent, slug |-> Slugify(p.slug), title |-> Stripped(p.title),
             repos |-> Resolved(Refs(p)), text |-> p.text]
      [] intent = "spec.approve" -> [verb |-> intent, slug |-> Slugify(p.slug), approver |-> p.approver]
      [] OTHER -> [verb |-> intent, slug |-> Slugify(p.slug)]

-----------------------------------------------------------------------------
(***************************************************************************)
(* Answers.                                                                *)
(***************************************************************************)
\* The provider the requester named, if it can be used; else the default, else the log.
Usable(provider) == provider \in DOMAIN Providers /\ Providers[provider].enabled

Provider(requested) ==
    IF Usable(requested) THEN requested
    ELSE IF Usable(DefaultProvider) THEN DefaultProvider
    ELSE IF Usable("local-log") THEN "local-log"
    ELSE None

\* A retry policy overlays the one before it; one attempt is made in any case.
Overlaid(attempts, overlay) ==
    LET asked == IF "max_attempts" \in DOMAIN overlay THEN overlay.max_attempts ELSE attempts
    IN  IF asked < 1 THEN 1 ELSE asked
MaxAttempts(provider) == Overlaid(Overlaid(EnvAttempts, SectionRetry), Providers[provider].retry)

\* Mutant: a failure that the script calls permanent is tried again.
GivesUpAtLast(results, attempts) == Len(results) = attempts \/ Last(results) = "ok"

\* _run_with_retry stops after these results of the provider's script.
GivesUp(results, attempts) == Len(results) = attempts \/ Last(results) \in {"ok", "permanent"}
=============================================================================
