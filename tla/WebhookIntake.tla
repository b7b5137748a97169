---------------------------- MODULE WebhookIntake ---------------------------
(***************************************************************************)
(* The way of a request through the gateway: the rate limit, the checks of *)
(* its handler, a row of the queue, a flow command that makes a spec, and  *)
(* the answer to whoever asked (gateway/app/main.py, store.py, worker.py,  *)
(* feedback.py).                                                           *)
(*                                                                         *)
(* Handlers run one at a time from the rate limit to the reply: what one   *)
(* does while another awaits its body it may as well do before.  The       *)
(* worker's thread does not wait for them.  Its loop is that of TaskQueue  *)
(* with the events left out, in a gateway that may end, command and all,   *)
(* and start again.  Rows of intake_failures and auth_audit are written    *)
(* and never read.                                                         *)
(***************************************************************************)
EXTENDS GatewayIntents

CONSTANTS
    Delivery,       \* requests that may come, any number of times
    Caller,         \* the callers that come near the limit, each on one endpoint
    Slug,
    RateWindow, RateMax,    \* SOFTOS_GATEWAY_RATE_LIMIT_*
    DedupeWindow,   \* SOFTOS_GATEWAY_DEDUPE_WINDOW_SECONDS
    LastSecond, MaxRows, MaxRestarts    \* bounds for model checking

ASSUME LimitAssumption ==
    RateWindow \in Nat \ {0} /\ RateMax \in Nat \ {0} /\ LastSecond \in Nat

\* What a request asks for when its transforms are through: repos that the catalog knows or
\* knows not, a slug if there is one.  A title without findings has none either when the
\* blanks around it are gone.
ASSUME PayloadAssumption ==
    \A d \in Delivery : Valid(d) /\ IntentOf(d) \notin {Nothing, Error} =>
        LET p == Transformed(d.source, IntentOf(d).payload)
        IN  /\ IsFiniteSet(Refs(p)) /\ Refs(p) \subseteq DOMAIN Catalog
            /\ Slugify(p.slug) \in Slug \cup {None}
            /\ p.title \notin IllTitles => Stripped(p.title) \notin IllTitles

VARIABLES
    now,        \* the UTC time, in whole seconds
    mode,       \* SOFTOS_GATEWAY_RATE_LIMIT_MODE: "db" or "memory"
    hits,       \* per caller, the requests that the rate limiter may still count, by their number
    admitted,   \* per caller, when the requests came that it let in: history
    checked,    \* the request between its checks and its enqueueing
    rows,       \* the table tasks; per row also the endpoint it came by and the commands that those
                \* it answers asked for: history
    worker,     \* the row in the worker's hand, and how far it is
    specs,      \* per slug, the row whose command made its spec
    told,       \* the answers the provider was given for the row in hand, and what it said
    restarts

intake == <<now, mode, hits, admitted, checked, rows, worker, specs, told, restarts>>

Row == 1..Len(rows)
NoRow == 0
Outcome == {"failed", "completed_with_findings", "succeeded"}
Creating == {"workflow.intake", "spec.create"}
Idle == [row |-> NoRow, at |-> "idle", outcome |-> None]

IntakeInit ==
    /\ now = 0
    /\ mode \in {"db", "memory"}
    /\ hits = [c \in Caller |-> {}]
    /\ admitted = [c \in Caller |-> <<>>]
    /\ checked = None
    /\ rows = <<>>
    /\ worker = Idle
    /\ specs = [s \in Slug |-> NoRow]
    /\ told = <<>>
    /\ restarts = 0

-----------------------------------------------------------------------------
(***************************************************************************)
(* Requests.                                                               *)
(***************************************************************************)
\* Whether a request of that time counts: it is of the same window of the clock in the
\* database, of the last seconds in memory.
StillCounts(time) ==
    IF mode = "db" THEN time \div RateWindow = now \div RateWindow ELSE time >= now - RateWindow

\* Mutant: the window is one second, whatever its length should be.
CountedNow(caller) == {n \in hits[caller] : admitted[caller][n] = now}

\* The requests that count.  A count above the maximum says no more.
Counted(caller) == {n \in hits[caller] : StillCounts(admitted[caller][n])}

Limited(d) == d.via \in Webhook /\ d.caller \in Caller
WithinLimit(d) == Limited(d) => Cardinality(Counted(d.caller)) < RateMax

\* _enforce_rate_limit; requests of the API are not limited.
Limit(d) ==
    IF Limited(d) /\ WithinLimit(d)
      THEN /\ hits' = [hits EXCEPT ![d.caller] = Counted(d.caller) \cup {Len(admitted[d.caller]) + 1}]
           /\ admitted' = [admitted EXCEPT ![d.caller] = Append(@, now)]
      ELSE UNCHANGED <<hits, admitted>>

\* GitHub's handler looks for the spec an intake is about.
Known(d, r) ==
    /\ d.via = "github" /\ r.intent = "workflow.intake"
    /\ Slugify(r.payload.slug) # None /\ specs[Slugify(r.payload.slug)] # NoRow

\* A request that asks for something it may ask for.
Passes(d, r) ==
    /\ WithinLimit(d)
    /\ d.signed /\ Valid(d)
    /\ r \notin {Nothing, Error}
    /\ Allowed(d, r.intent)
    /\ ~Known(d, r)

Check(d) ==
    /\ checked = None
    /\ Limit(d)
    /\ LET r == IF Valid(d) THEN IntentOf(d) ELSE Error
       IN  IF Passes(d, r) THEN Len(rows) < MaxRows /\ checked' = [request |-> d, ask |-> r]
           ELSE UNCHANGED checked
    /\ UNCHANGED <<now, mode, rows, worker, specs, told, restarts>>

\* Mutant: one slug, one intent, one task.
DuplicatesBySlug(source, intent, p) ==
    {t \in Row : /\ rows[t].source = source /\ rows[t].intent = intent
                 /\ rows[t].payload.slug = p.slug /\ rows[t].created >= now - DedupeWindow}

DuplicatesOf(source, intent, p) ==
    {t \in Row : /\ rows[t].source = source /\ rows[t].intent = intent
                 /\ rows[t].payload = p /\ rows[t].created >= now - DedupeWindow}

\* enqueue_intent: a row of its own, or the first of its duplicates.
EnqueueIntent ==
    /\ checked # None
    /\ checked' = None
    /\ LET d == checked.request
           r == checked.ask
           p == Transformed(d.source, r.payload)
           known == DuplicatesOf(d.source, r.intent, p)
       IN  IF ~(Policy(d, r) /\ (r.intent = "workflow.intake" => Lint(p)) /\ Builds(r.intent, p))
             THEN UNCHANGED rows
           ELSE IF known # {}
             THEN \E t \in known :
                    /\ \A u \in known : rows[t].created <= rows[u].created
                    /\ rows' = [rows EXCEPT ![t].asked = @ \cup {Command(r.intent, p)}]
             ELSE rows' = Append(rows, [via |-> d.via, source |-> d.source,
                                        intent |-> r.intent, payload |-> p,
                                        command |-> Command(r.intent, p), reply |-> d.reply,
                                        created |-> now, status |-> "queued",
                                        asked |-> {Command(r.intent, p)}])
    /\ UNCHANGED <<now, mode, hits, admitted, worker, specs, told, restarts>>

-----------------------------------------------------------------------------
(***************************************************************************)
(* The worker.                                                             *)
(***************************************************************************)
Queued == {t \in Row : rows[t].status = "queued"}

ClaimRow ==
    /\ worker = Idle
    /\ \E t \in Queued :
         /\ \A u \in Queued : rows[t].created <= rows[u].created
         /\ rows' = [rows EXCEPT ![t].status = "running"]
         /\ worker' = [Idle EXCEPT !.row = t, !.at = "claimed"]
    /\ UNCHANGED <<now, mode, hits, admitted, checked, specs, told, restarts>>

InHand == rows[worker.row]
Ends(outcome) == worker' = [worker EXCEPT !.at = "ran", !.outcome = outcome]

\* Mutant: a spec that is there is written anew.
CreateOver ==
    /\ worker.at = "claimed" /\ InHand.intent \in Creating
    /\ specs' = [specs EXCEPT ![InHand.command.slug] = worker.row]
    /\ worker' = [worker EXCEPT !.at = "made"]
    /\ UNCHANGED <<now, mode, hits, admitted, checked, rows, told, restarts>>

\* spec create, which intake begins with, writes a spec that is not there.
Create ==
    /\ worker.at = "claimed" /\ InHand.intent \in Creating
    /\ specs[InHand.command.slug] = NoRow
    /\ specs' = [specs EXCEPT ![InHand.command.slug] = worker.row]
    /\ worker' = [worker EXCEPT !.at = "made"]
    /\ UNCHANGED <<now, mode, hits, admitted, checked, rows, told, restarts>>

\* Reports and state follow the spec, and may fail although it is there.
Report ==
    /\ worker.at = "made"
    /\ \E outcome \in {"succeeded", "failed"} : Ends(outcome)
    /\ UNCHANGED <<now, mode, hits, admitted, checked, rows, specs, told, restarts>>

\* Any command may fail; the others succeed on a spec that is there, and a review may
\* have findings.
Execute ==
    /\ worker.at = "claimed"
    /\ \/ Ends("failed")
       \/ /\ InHand.intent \notin Creating
          /\ "slug" \in DOMAIN InHand.command => specs[InHand.command.slug] # NoRow
          /\ \/ Ends("succeeded")
             \/ InHand.intent = "spec.review" /\ Ends("completed_with_findings")
    /\ UNCHANGED <<now, mode, hits, admitted, checked, rows, specs, told, restarts>>

FinishRow ==
    /\ worker.at = "ran"
    /\ rows' = [rows EXCEPT ![worker.row].status = worker.outcome]
    /\ worker' = [worker EXCEPT !.at = "finished"]
    /\ UNCHANGED <<now, mode, hits, admitted, checked, specs, told, restarts>>

To == Provider(InHand.reply)

\* send_feedback: one call of the provider's script.  The answer may be posted although
\* the script does not say so, and is sent again unless the script is content or gives up.
Answered == told # <<>> /\ GivesUp([i \in DOMAIN told |-> told[i].result], MaxAttempts(To))

Answer ==
    /\ worker.at = "finished" /\ To # None /\ ~Answered
    /\ \E result \in {"ok", "transient", "permanent"} :
         told' = Append(told, [to |-> To, status |-> InHand.status, result |-> result])
    /\ UNCHANGED <<now, mode, hits, admitted, checked, rows, worker, specs, restarts>>

TurnToNext ==
    /\ worker.at = "finished" /\ (To = None \/ Answered)
    /\ worker' = Idle
    /\ told' = <<>>
    /\ UNCHANGED <<now, mode, hits, admitted, checked, rows, specs, restarts>>

-----------------------------------------------------------------------------
(***************************************************************************)
(* Around them.                                                            *)
(***************************************************************************)
\* The gateway ends and starts: what ran is queued again, limits in memory are gone.
Restart ==
    /\ restarts < MaxRestarts
    /\ restarts' = restarts + 1
    /\ rows' = [t \in Row |-> IF rows[t].status = "running"
                                THEN [rows[t] EXCEPT !.status = "queued"] ELSE rows[t]]
    /\ worker' = Idle
    /\ told' = <<>>
    /\ checked' = None
    /\ IF mode = "memory"
         THEN hits' = [c \in Caller |-> {}] /\ admitted' = [c \in Caller |-> <<>>]
         ELSE UNCHANGED <<hits, admitted>>
    /\ UNCHANGED <<now, mode, specs>>

Second ==
    /\ now < LastSecond
    /\ now' = now + 1
    /\ UNCHANGED <<mode, hits, admitted, checked, rows, worker, specs, told, restarts>>

IntakeNext ==
    \/ \E d \in Delivery : Check(d)
    \/ EnqueueIntent
    \/ ClaimRow \/ Create \/ Report \/ Execute \/ FinishRow \/ Answer \/ TurnToNext
    \/ Restart \/ Second

IntakeSpec == IntakeInit /\ [][IntakeNext]_intake

-----------------------------------------------------------------------------
(***************************************************************************)
(* Properties.                                                             *)
(***************************************************************************)
\* In any span of RateWindow seconds a caller gets at most RateMax requests in, past the
\* limiter of one gateway; twice that where the windows are those of the clock.
RateBounded ==
    \A c \in Caller, a \in 0..LastSecond :
        Cardinality({n \in DOMAIN admitted[c] : admitted[c][n] \in a..(a + RateWindow - 1)})
            <= (IF mode = "db" THEN 2 ELSE 1) * RateMax

\* However a request is written - as a label, a comment, a line of text or a payload -
\* what is queued for a webhook is intake, review or approval, names its approver and a
\* title without findings where that is asked, and is about the repos it refers to, one
\* for each reference.
QueuedAsAllowed ==
    \A t \in Row :
        /\ rows[t].via \in Webhook => rows[t].intent \in WEBHOOK_ALLOWED_INTENTS
        /\ EnforceApprover /\ rows[t].intent = "spec.approve" => rows[t].command.approver \notin Blank
        /\ LintRejects /\ rows[t].intent = "workflow.intake" => rows[t].command.title \notin IllTitles
        /\ rows[t].intent \in Creating =>
             /\ rows[t].command.repos # {}
             /\ Cardinality(rows[t].command.repos) <= Cardinality(Refs(rows[t].payload))
        /\ "slug" \in DOMAIN rows[t].command => rows[t].command.slug \in Slug

\* Nobody is answered with a task that does something else than he asked for.
AnsweredAsAsked == \A t \in Row : rows[t].asked = {rows[t].command}

\* All three: what gets in is what may get in.
AdmittedRightly == RateBounded /\ QueuedAsAllowed /\ AnsweredAsAsked

\* An intake that succeeded has made the spec that is there now, as it was asked to: of
\* several requests for one slug at most one is told so, and no later one or repeated
\* attempt has put another in its place.  What is told is the outcome
\* on record, by the provider that the request named if it can be used, and again only
\* after a failure that may pass.
OutcomesTell ==
    /\ \A t \in Row : rows[t].intent \in Creating /\ rows[t].status = "succeeded" =>
                         specs[rows[t].command.slug] = t
    /\ worker.at = "finished" =>
         \A i \in DOMAIN told :
            /\ told[i].status = InHand.status
            /\ told[i].to = Provider(InHand.reply)
            /\ i <= MaxAttempts(told[i].to)
            /\ i < Len(told) => told[i].result = "transient"
=============================================================================
