------------------------------ MODULE SlaveClaims -----------------------------
(***************************************************************************)
(* The slave side of the central registry (flowctl/gateway_ops.py): how    *)
(* the flow processes of a few workspaces poll for specs, claim them, keep *)
(* the claim alive while a command works under it, and give it back.       *)
(*                                                                         *)
(* A workspace keeps a claim - an actor and a lock token - in the state    *)
(* file of the spec.  The registry is the one of SpecRegistry, reduced to  *)
(* what its calls answer here.  Between a call, its reply and the writing  *)
(* of the state file other processes take steps, the process may end, and  *)
(* the reply may get lost.  A tick of the clock is one heartbeat interval. *)
(***************************************************************************)
EXTENDS Naturals

CONSTANTS
    Workspace,
    Process,    \* the flow commands that may run at a time
    Shell,      \* those of them that only run the short commands of an operator
    Home,       \* the workspace each of them runs in
    Actor,
    Name,       \* FLOW_ACTOR or USER of each process: not unique
    SpecId,
    TTL,        \* the ttl_seconds callers ask for
    WrapperTtl, \* ttl_seconds of run_with_remote_claim_heartbeat
    Late,       \* how long a live heartbeat thread takes from one beat to the next
    MaxAttempts,
    MaxClock, MaxToken, MaxCommands, \* bounds for model checking
    NoActor, NoSpec

ASSUME PlaceAssumption == Shell \subseteq Process /\ Home \in [Process -> Workspace] /\
    Name \in [Process -> Actor]
ASSUME NoneAssumption == NoActor \notin Actor /\ NoSpec \notin SpecId
ASSUME BoundAssumption == MaxClock \in Nat /\ MaxToken \in Nat /\ MaxCommands \in Nat /\ MaxAttempts \in Nat \ {0}
\* 30 seconds and one slow call against 120; no operator asks for less.
ASSUME TtlAssumption ==
    /\ Late \in Nat /\ WrapperTtl \in Nat /\ TTL \subseteq Nat
    /\ \A t \in TTL \cup {WrapperTtl} : t > Late

VARIABLES
    clock,
    lock,       \* the registry: assignee, token, expiry and state of each spec
    issued,     \* lock tokens drawn so far; they are 1..issued
    ended,      \* the tokens that were released or reassigned by a call that had them
    file,       \* per workspace and spec, gateway_claim of its state file
    proc,       \* the running commands
    begun       \* how many commands there were

vars == <<clock, lock, issued, ended, file, proc, begun>>
registry == <<clock, lock, issued, ended>>

NoClaim == [actor |-> NoActor, token |-> 0]
New == 1
Triaged == 2
InEdit == 3
InReview == 4
State == New..InReview    \* the later ones are published by nobody here
OwnerOnly == {InEdit}
Offered == {New, Triaged}

\* The commands that work under a claim, and the state their success publishes.
Protected == {"plan", "start", "verify"}
Publishes == [plan |-> Triaged, start |-> InEdit, verify |-> InReview]

Seeking == {"poll", "pick", "claim"}
Place == {"idle", "list", "try", "write", "fetch", "ensure", "beat", "work", "hook",
          "clear", "hand over", "success"}
Worker == {"none", "alive", "failed", "dead"}

\* spec and claim are what the command works under, left and tries the candidates and
\* attempts of a poll, plan its --auto-plan, worker and beat the heartbeat thread, got
\* counts the locks it was granted; intruded tells that its spec was granted to somebody
\* else while it worked.
Idle == [at |-> "idle", cmd |-> "none", spec |-> NoSpec, claim |-> NoClaim,
         left |-> {}, tries |-> 0, plan |-> FALSE, worker |-> "none", beat |-> 0, got |-> 0,
         intruded |-> FALSE]

Init ==
    /\ clock = 0 /\ issued = 0 /\ ended = {} /\ begun = 0
    /\ lock = [s \in SpecId |-> [actor |-> NoActor, token |-> 0, expires |-> 0, state |-> New]]
    /\ file = [w \in Workspace |-> [s \in SpecId |-> NoClaim]]
    /\ proc = [p \in Process |-> Idle]

-----------------------------------------------------------------------------
\* What the registry answers.

Expired(s) == lock[s].token # 0 /\ lock[s].expires <= clock
Live(s) == lock[s].token # 0 /\ ~Expired(s)
Owns(c, s) == Live(s) /\ lock[s].actor = c.actor /\ lock[s].token = c.token

\* ensure_remote_claim_for_plan and _inspect_remote_claim look at the record as it
\* stands, expired or not.
Matches(c, s) == c # NoClaim /\ lock[s].actor = c.actor /\ lock[s].token = c.token

Hold(s, a, token, ttl) ==
    lock' = [lock EXCEPT ![s] = [@ EXCEPT !.actor = a, !.token = token, !.expires = clock + ttl]]

\* A new token for a spec, to a command that goes on as r: it ends the hold of whoever
\* works on the spec.
Grant(p, s, a, ttl, r) ==
    /\ issued < MaxToken
    /\ issued' = issued + 1
    /\ Hold(s, a, issued', ttl)
    /\ proc' = [q \in Process |->
                   IF q = p THEN r
                   ELSE IF proc[q].at = "work" /\ proc[q].spec = s
                   THEN [proc[q] EXCEPT !.intruded = TRUE] ELSE proc[q]]

Prolong(c, s, ttl) == Owns(c, s) /\ Hold(s, c.actor, c.token, ttl)

Vacate(s) == [lock[s] EXCEPT !.actor = NoActor, !.token = 0, !.expires = 0]

\* One state on; an expired lock goes, and in_edit asks for a live one.
Advance(c, s, to) ==
    LET now == IF Expired(s) THEN Vacate(s) ELSE lock[s] IN
    /\ to = now.state + 1 /\ to \in State
    /\ to \in OwnerOnly => Owns(c, s)
    /\ lock' = [lock EXCEPT ![s] = [now EXCEPT !.state = to]]

-----------------------------------------------------------------------------
\* The commands.

Update(p, r) == proc' = [proc EXCEPT ![p] = r]
Go(p, at) == Update(p, [proc[p] EXCEPT !.at = at])
Succeed(p) == Update(p, [Idle EXCEPT !.at = "success", !.claim = proc[p].claim,
                           !.worker = proc[p].worker, !.intruded = proc[p].intruded])
Leave(p) == Update(p, Idle)   \* with a result no property tells apart
Claim(p) == file[Home[p]][proc[p].spec]
WriteClaim(p, c) == file' = [file EXCEPT ![Home[p]][proc[p].spec] = c]

Ready(p) == proc[p].at \in {"idle", "success"}
Start(p) == Ready(p) /\ begun < MaxCommands /\ begun' = begun + 1
Begin(p, at, cmd) ==
    /\ Start(p)
    /\ \E s \in SpecId : Update(p, [Idle EXCEPT !.at = at, !.cmd = cmd, !.spec = s])

\* gateway claim SPEC
BeginClaim(p) == Begin(p, "try", "claim") /\ UNCHANGED <<registry, file>>

\* gateway pick: the first eligible spec, whatever the workspace has already.
BeginPick(p) == Begin(p, "list", "pick") /\ UNCHANGED <<registry, file>>

\* gateway poll, one attempt, and gateway watch, several, with --auto-plan or without.
BeginPoll(p) ==
    /\ Start(p)
    /\ \E n \in {1, MaxAttempts}, plan \in BOOLEAN :
         Update(p, [Idle EXCEPT !.at = "list", !.cmd = "poll", !.tries = n, !.plan = plan])
    /\ UNCHANGED <<registry, file>>

\* _find_any_local_gateway_claim: a poll gives up where any claim is on file.
Occupied(p) == proc[p].cmd = "poll" /\ \E s \in SpecId : file[Home[p]][s] # NoClaim

\* _eligible_remote_specs: whoever is named as assignee, expired or not, is in the way.
Eligible == {s \in SpecId : lock[s].state \in Offered /\ lock[s].actor = NoActor}

\* One attempt: list the specs.  The last attempt of a watch is followed by its end.
List(p) ==
    /\ proc[p].at = "list"
    /\ IF Occupied(p) THEN Leave(p)
       ELSE \/ /\ Eligible # {}
               /\ Update(p, [proc[p] EXCEPT !.at = "try", !.left = Eligible])
            \/ /\ Eligible = {} /\ proc[p].tries > 1
               /\ Update(p, [proc[p] EXCEPT !.tries = @ - 1])
            \/ /\ Eligible = {} /\ proc[p].tries <= 1
               /\ Update(p, Idle)
    /\ UNCHANGED <<registry, file>>

\* The time of a watch is over: looked at between two attempts.
WatchTimeout(p) ==
    /\ proc[p].at = "list" /\ proc[p].cmd = "poll" /\ proc[p].tries < MaxAttempts
    /\ Leave(p)
    /\ UNCHANGED <<registry, file>>

Candidates(p) == IF proc[p].cmd = "claim" THEN {proc[p].spec} ELSE proc[p].left

\* The claim call: granted, and the reply on its way.
TryGranted(p) ==
    /\ proc[p].at = "try"
    /\ \E s \in Candidates(p), ttl \in TTL :
         /\ ~Live(s)
         /\ Grant(p, s, Name[p], ttl,
                  [proc[p] EXCEPT !.at = "write", !.spec = s, !.got = @ + 1,
                                  !.claim = [actor |-> Name[p], token |-> issued']])
    /\ UNCHANGED <<clock, ended, file>>

\* Refused: a poll turns to the next of the list, every other command raises.
TryRefused(p) ==
    /\ proc[p].at = "try"
    /\ \E s \in Candidates(p) :
         /\ Live(s)
         /\ LET rest == proc[p].left \ {s} IN
            IF proc[p].cmd # "poll" THEN Leave(p)
            ELSE IF rest # {} THEN Update(p, [proc[p] EXCEPT !.left = rest])
            ELSE IF proc[p].tries > 1
            THEN Update(p, [proc[p] EXCEPT !.at = "list", !.tries = @ - 1])
            ELSE Leave(p)
    /\ UNCHANGED <<registry, file>>

\* Mutant: a poll turns to the next spec whatever went wrong with this one.
ReplyLostGoesOn(p) ==
    /\ proc[p].at = "write"
    /\ IF proc[p].cmd = "poll" /\ proc[p].left # {proc[p].spec}
       THEN Update(p, [proc[p] EXCEPT !.at = "try", !.left = @ \ {proc[p].spec}])
       ELSE Leave(p)
    /\ UNCHANGED <<registry, file>>

\* The reply to a claim gets lost: the command raises, the registry keeps the lock.
ReplyLost(p) ==
    /\ proc[p].at = "write"
    /\ Leave(p)
    /\ UNCHANGED <<registry, file>>

Record(p) ==
    /\ proc[p].at = "write"
    /\ WriteClaim(p, proc[p].claim)
    /\ Go(p, "fetch")
    /\ UNCHANGED <<registry>>

\* A poll with --auto-plan runs flow plan once, in its own process, whatever comes of it.
PlanAtOnce(p) == Update(p, [proc[p] EXCEPT !.at = "beat", !.cmd = "plan"])

\* The text is fetched and written, which no property tells apart.
Fetch(p) ==
    /\ proc[p].at = "fetch"
    /\ IF proc[p].plan THEN PlanAtOnce(p) ELSE Leave(p)
    /\ UNCHANGED <<registry, file>>

-----------------------------------------------------------------------------
\* Work under a claim.

\* flow plan begins with the heartbeat, slice start and verify with a look.  A command
\* without a claim on file raises at once.
BeginWork(p) ==
    /\ \E cmd \in Protected : Begin(p, IF cmd = "plan" THEN "beat" ELSE "ensure", cmd)
    /\ file[Home[p]][proc'[p].spec] # NoClaim
    /\ UNCHANGED <<registry, file>>

Enter(r) == [r EXCEPT !.at = "work"]

Ensure(p) ==
    /\ proc[p].at = "ensure"
    /\ IF ~Matches(Claim(p), proc[p].spec) THEN Leave(p)
       ELSE IF proc[p].cmd = "plan" THEN Update(p, Enter(proc[p]))
       ELSE Update(p, [proc[p] EXCEPT !.at = "beat", !.claim = Claim(p)])
    /\ UNCHANGED <<registry, file>>

\* Mutant: the thread is started without the first heartbeat.
FirstBeatSkipped(p) ==
    /\ proc[p].at = "beat" /\ Claim(p) # NoClaim
    /\ Update(p, [proc[p] EXCEPT !.at = IF proc[p].cmd = "plan" THEN "ensure" ELSE "work",
                                 !.claim = Claim(p), !.worker = "alive", !.beat = clock])
    /\ UNCHANGED <<registry, file>>

\* One heartbeat before the work; the thread beats from then on.
FirstBeat(p) ==
    /\ proc[p].at = "beat" /\ Claim(p) # NoClaim
    /\ Prolong(Claim(p), proc[p].spec, WrapperTtl)
    /\ Update(p, [proc[p] EXCEPT !.at = IF proc[p].cmd = "plan" THEN "ensure" ELSE "work",
                                 !.claim = Claim(p), !.worker = "alive", !.beat = clock])
    /\ UNCHANGED <<clock, issued, ended, file>>

FirstBeatRefused(p) ==
    /\ proc[p].at = "beat" /\ Claim(p) # NoClaim
    /\ ~Owns(Claim(p), proc[p].spec)
    /\ Leave(p)
    /\ UNCHANGED <<registry, file>>

\* No claim on file any more: the callback runs unguarded, and plan's looks itself.
Unguarded(p) ==
    /\ proc[p].at = "beat" /\ Claim(p) = NoClaim
    /\ Go(p, IF proc[p].cmd = "plan" THEN "ensure" ELSE "work")
    /\ UNCHANGED <<registry, file>>

Beats(p) == proc[p].worker = "alive" /\ proc[p].at \in {"work", "ensure"}

Beat(p) ==
    /\ Beats(p) /\ proc[p].beat < clock
    /\ Prolong(proc[p].claim, proc[p].spec, WrapperTtl)
    /\ Update(p, [proc[p] EXCEPT !.beat = clock])
    /\ UNCHANGED <<clock, issued, ended, file>>

\* Refused or not connected, a SystemExit: noted, and the thread ends.
BeatFails(p) ==
    /\ Beats(p) /\ proc[p].beat < clock
    /\ Update(p, [proc[p] EXCEPT !.worker = "failed"])
    /\ UNCHANGED <<registry, file>>

\* Any other exception, a TimeoutError of the read: the thread ends without a word.
BeatDies(p) ==
    /\ Beats(p) /\ proc[p].beat < clock
    /\ Update(p, [proc[p] EXCEPT !.worker = "dead"])
    /\ UNCHANGED <<registry, file>>

\* Mutant: the list of failures is not looked at.
WorkEndsUnchecked(p) ==
    /\ proc[p].at = "work"
    /\ \/ Go(p, "hook")
       \/ Leave(p)
    /\ UNCHANGED <<registry, file>>

\* The callback has ended, well or not; a failed heartbeat is reported now.
WorkEnds(p) ==
    /\ proc[p].at = "work"
    /\ \/ proc[p].worker = "failed" /\ Leave(p)
       \/ proc[p].worker # "failed" /\ (Go(p, "hook") \/ Leave(p))
    /\ UNCHANGED <<registry, file>>

\* maybe_publish_transition_hook: the next state only, and a refusal is only printed.
Publish(p) ==
    LET s == proc[p].spec  to == Publishes[proc[p].cmd] IN
    /\ proc[p].at = "hook"
    /\ Succeed(p)
    /\ \/ Claim(p) # NoClaim /\ Advance(Claim(p), s, to)
       \/ UNCHANGED lock
    /\ UNCHANGED <<clock, issued, ended, file>>

-----------------------------------------------------------------------------
\* Commands of one call; all of them need a claim on file.

ManualHeartbeat(p) ==
    /\ Begin(p, "idle", "other")
    /\ LET s == proc'[p].spec  c == file[Home[p]][s] IN
       \E ttl \in TTL : c # NoClaim /\ Prolong(c, s, ttl)
    /\ UNCHANGED <<clock, issued, ended, file>>

ManualTransition(p) ==
    /\ Begin(p, "idle", "other")
    /\ LET s == proc'[p].spec  c == file[Home[p]][s] IN
       c # NoClaim /\ \E to \in State : Advance(c, s, to)
    /\ UNCHANGED <<clock, issued, ended, file>>

\* The registry lets go; the state file follows.
Release(p) ==
    /\ Begin(p, "clear", "other")
    /\ LET s == proc'[p].spec  c == file[Home[p]][s] IN
       /\ Owns(c, s)
       /\ lock' = [lock EXCEPT ![s] = Vacate(s)]
       /\ ended' = ended \cup {c.token}
    /\ UNCHANGED <<clock, issued, file>>

Clear(p) ==
    /\ proc[p].at = "clear"
    /\ WriteClaim(p, NoClaim)
    /\ Leave(p)
    /\ UNCHANGED <<registry>>

\* The token is rotated, and the new actor and token go into this workspace's file.
Reassign(p) ==
    /\ Start(p)
    /\ \E s \in SpecId, a \in Actor, ttl \in TTL :
         LET c == file[Home[p]][s] IN
         /\ Owns(c, s)
         /\ ended' = ended \cup {c.token}
         /\ Grant(p, s, a, ttl, [Idle EXCEPT !.at = "hand over", !.cmd = "other", !.spec = s,
                                             !.claim = [actor |-> a, token |-> issued']])
    /\ UNCHANGED <<clock, file>>

HandOver(p) ==
    /\ proc[p].at = "hand over"
    /\ WriteClaim(p, proc[p].claim)
    /\ Leave(p)
    /\ UNCHANGED <<registry>>

-----------------------------------------------------------------------------
\* A call cannot reach the gateway, or its answer is none: SystemExit, or a refusal
\* the operator sees.
CallFails(p) ==
    /\ proc[p].at \in {"list", "try", "fetch", "ensure", "beat", "hook", "clear",
                      "hand over"}
    /\ Leave(p)
    /\ UNCHANGED <<registry, file>>

\* The process ends where it is, and its thread with it.
Crash(p) ==
    /\ ~Ready(p)
    /\ Update(p, Idle)
    /\ UNCHANGED <<registry, file>>

\* A thread that lives has beaten in time.
Tick ==
    /\ clock < MaxClock
    /\ \A p \in Process : Beats(p) => clock < proc[p].beat + Late
    /\ clock' = clock + 1
    /\ UNCHANGED <<lock, issued, ended, file, proc>>

Command(p) ==
    \/ p \notin Shell /\ (BeginClaim(p) \/ BeginPick(p) \/ BeginPoll(p) \/ BeginWork(p))
    \/ p \in Shell /\ (ManualHeartbeat(p) \/ ManualTransition(p) \/ Release(p) \/ Reassign(p))

Continue(p) ==
    \/ List(p) \/ WatchTimeout(p) \/ TryGranted(p) \/ TryRefused(p) \/ ReplyLost(p)
    \/ Record(p) \/ Fetch(p)
    \/ Ensure(p) \/ FirstBeat(p) \/ FirstBeatRefused(p) \/ Unguarded(p)
    \/ Beat(p) \/ BeatFails(p) \/ BeatDies(p) \/ WorkEnds(p) \/ Publish(p)
    \/ Clear(p) \/ HandOver(p) \/ CallFails(p) \/ Crash(p)

Next ==
    \/ Tick /\ UNCHANGED begun
    \/ \E p \in Process : Command(p)
    \/ \E p \in Process : Continue(p) /\ UNCHANGED begun

Spec == Init /\ [][Next]_vars

-----------------------------------------------------------------------------
(***************************************************************************)
(* As long as the heartbeat thread of a command lives, the registry has    *)
(* the lock the command works under, unless another command gave that very *)
(* token back (run_with_remote_claim_heartbeat: the claim is validated     *)
(* once and prolonged in time).                                            *)
(***************************************************************************)
WorkHeld ==
    \A p \in Process : Beats(p) =>
        Owns(proc[p].claim, proc[p].spec) \/ proc[p].claim.token \in ended

(***************************************************************************)
(* A guarded command that reports success had its spec to itself all the   *)
(* while, unless its own token was given back: when a heartbeat fails and  *)
(* somebody else gets the spec, the command says so.  Left out is only the *)
(* thread that dies without a word, and the callback no thread guards.     *)
(***************************************************************************)
Guarded(p) == proc[p].worker \notin {"none", "dead"}
SuccessWasHeld ==
    \A p \in Process :
        proc[p].at = "success" /\ Guarded(p) /\ proc[p].intruded
            => proc[p].claim.token \in ended

(***************************************************************************)
(* One poll, watch, pick or claim takes at most one lock from the          *)
(* registry, whatever goes wrong after the call: a lost reply, a fetch or  *)
(* a plan that fails never sends it on to another spec.                    *)
(***************************************************************************)
OneSpecPerCommand == \A p \in Process : proc[p].got <= 1

\* All three: work under a claim is work on one spec, that nobody else has.
ClaimedWork == WorkHeld /\ SuccessWasHeld /\ OneSpecPerCommand

=============================================================================
