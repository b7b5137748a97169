--------------------------- MODULE ReleasePublish ---------------------------
(***************************************************************************)
(* `flow release publish`: the version is inferred from the commits since  *)
(* the newest tag, or the one named, its entry is put into the changelog, committed, tagged, *)
(* and branch and tag are pushed, each by a git command of its own that    *)
(* may fail.  Several clones publish to one origin, and nothing locks it.  *)
(*                                                                         *)
(* A history is the sequence of the commits of a branch; every branch is   *)
(* linear, so that an ancestor is a prefix.  A tag names a whole history.  *)
(***************************************************************************)
EXTENDS Integers, Sequences, FiniteSets, SequencesExt, TLC

CONSTANTS Clones,     \* working copies of the repository
          Kinds,      \* clone -> conventional types its developer commits
          Branching,  \* clones with a work branch beside main
          Bumps,      \* values of --bump in use
          Explicit,   \* versions somebody asks for with --version
          SinceTags,  \* tags somebody counts from with --since-tag
          MaxCommits  \* bound: commits ever made

ASSUME PublishAssumption ==
    /\ Kinds \in [Clones -> SUBSET {"breaking", "feat", "fix"}]
    /\ Branching \subseteq Clones
    /\ Bumps \subseteq {"auto", "major", "minor", "patch"}
    /\ Explicit \subseteq Nat \X Nat \X Nat
    /\ MaxCommits \in Nat

VARIABLES origin,  \* [main, tags] of the remote
          clones,  \* clone -> its branches, tags, changelog and running publish
          made     \* commits made so far: the next commit's identity

publishing == <<origin, clones, made>>

NoVersion == <<>>
FirstVersion == <<0, 1, 0>>
Released == [id |-> 0, kind |-> "docs", entry |-> FirstVersion]

(* Git, as far as the command sees it.                                     *)
HeadOf(c) == clones[c][clones[c].on]
SinceTag(h, t) == Range(h) \ Range(t)
Entries(h) == {h[i].entry : i \in DOMAIN h} \ {NoVersion}
FastForward(old, new) == IsPrefix(old, new)
WithTag(tags, v, t) == [w \in DOMAIN tags \union {v} |-> IF w = v THEN t ELSE tags[w]]

(* Semantic versions.                                                      *)
Less(v, w) == \E i \in 1..3 : v[i] < w[i] /\ \A j \in 1..(i - 1) : v[j] = w[j]

NextVersion(v, bump) ==
    IF bump = "major" THEN <<v[1] + 1, 0, 0>>
    ELSE IF bump = "minor" THEN <<v[1], v[2] + 1, 0>>
    ELSE <<v[1], v[2], v[3] + 1>>

LatestTag(tags) == CHOOSE v \in DOMAIN tags : \A w \in DOMAIN tags : ~Less(v, w)

\* A bug to catch: only the newest commit decides.
MutantInferNewest(commits) ==
    LET newest == CHOOSE x \in commits : \A y \in commits : y.id <= x.id
    IN  IF newest.kind = "breaking" THEN "major"
        ELSE IF newest.kind = "feat" THEN "minor"
        ELSE "patch"

InferBump(commits) ==
    IF \E x \in commits : x.kind = "breaking" THEN "major"
    ELSE IF \E x \in commits : x.kind = "feat" THEN "minor"
    ELSE "patch"

\* What a version may be counted from: git refuses a tag that is not there.
Origins(c) == {LatestTag(clones[c].tags)} \union (SinceTags \intersect DOMAIN clones[c].tags)

CommitsSince(c, t) == SinceTag(HeadOf(c), clones[c].tags[t])

InferredVersion(c, t, bump) ==
    NextVersion(t, IF bump = "auto" THEN InferBump(CommitsSince(c, t)) ELSE bump)

Versions(c, t) == Explicit \union {InferredVersion(c, t, b) : b \in Bumps}

TagAbsent(c, v) == v \notin DOMAIN clones[c].tags \union DOMAIN origin.tags

----------------------------------------------------------------------------
PublishInit ==
    /\ origin = [main |-> <<Released>>, tags |-> [v \in {FirstVersion} |-> [at |-> <<Released>>, from |-> "main"]]]
    /\ clones = [c \in Clones |->
                   [main |-> <<Released>>, work |-> <<Released>>, on |-> "main",
                    tags |-> [v \in {FirstVersion} |-> <<Released>>],
                    written |-> NoVersion, step |-> "idle", version |-> NoVersion]]
    /\ made = 0

Publishing(c, step) == clones[c].step = step
Reach(c, step) == clones' = [clones EXCEPT ![c].step = step]

\* A clone with one more commit on the branch that is checked out.
Committed(c, kind, entry) ==
    [clones[c] EXCEPT ![clones[c].on] =
        Append(@, [id |-> made + 1, kind |-> kind, entry |-> entry])]

(* The checks before anything is changed, and the changelog's new entry.   *)
\* A bug to catch: the changelog is not looked at.
MutantWriteEntryTwice(c, v) ==
    /\ TagAbsent(c, v)
    /\ clones' = [clones EXCEPT ![c].written = v, ![c].step = "written", ![c].version = v]
    /\ UNCHANGED <<origin, made>>

WriteEntry(c, v) ==
    /\ TagAbsent(c, v)
    /\ v \notin Entries(HeadOf(c))
    /\ clones' = [clones EXCEPT ![c].written = v, ![c].step = "written", ![c].version = v]
    /\ UNCHANGED <<origin, made>>

StartPublish(c) ==
    /\ Publishing(c, "idle") /\ clones[c].written = NoVersion
    /\ \E t \in Origins(c) :
         /\ CommitsSince(c, t) # {}
         /\ \E v \in Versions(c, t) : WriteEntry(c, v)

CommitEntry(c) ==
    /\ Publishing(c, "written")
    /\ made < MaxCommits
    /\ clones' = [clones EXCEPT ![c] = [Committed(c, "docs", clones[c].version)
                                          EXCEPT !.written = NoVersion, !.step = "committed"]]
    /\ made' = made + 1
    /\ UNCHANGED origin

Tag(c) ==
    /\ Publishing(c, "committed")
    /\ clones' = [clones EXCEPT ![c].tags = WithTag(@, clones[c].version, HeadOf(c)),
                                ![c].step = "tagged"]
    /\ UNCHANGED <<origin, made>>

\* A bug to catch: a refused push of the branch does not stop the command.
MutantPushMainOrNot(c) ==
    /\ Publishing(c, "tagged")
    /\ origin' = [origin EXCEPT !.main = IF FastForward(@, clones[c].main)
                                         THEN clones[c].main ELSE @]
    /\ Reach(c, "pushed")
    /\ UNCHANGED made

\* `git push origin main`: the branch of that name, whatever is checked out.
PushMain(c) ==
    /\ Publishing(c, "tagged")
    /\ FastForward(origin.main, clones[c].main)
    /\ origin' = [origin EXCEPT !.main = clones[c].main]
    /\ Reach(c, "pushed")
    /\ UNCHANGED made

\* The GitHub release created after this, where it is asked for, is read by no
\* later publish: with or without it, the command ends here.
PushTag(c) ==
    LET v == clones[c].version IN
    /\ Publishing(c, "pushed")
    /\ v \notin DOMAIN origin.tags
    /\ origin' = [origin EXCEPT !.tags = WithTag(@, v, [at |-> clones[c].tags[v], from |-> clones[c].on])]
    /\ clones' = [clones EXCEPT ![c].step = "idle", ![c].version = NoVersion]
    /\ UNCHANGED made

\* Any of the commands fails, is refused, or the process is killed: what the
\* steps before it did stays as it is.
Break(c) ==
    /\ clones[c].step # "idle"
    /\ clones' = [clones EXCEPT ![c].step = "idle", ![c].version = NoVersion]
    /\ UNCHANGED <<origin, made>>

----------------------------------------------------------------------------
(* What developers do in a clone while no publish runs there.              *)
Quiet(c) == Publishing(c, "idle")

Commit(c) ==
    /\ Quiet(c) /\ made < MaxCommits
    /\ \E k \in Kinds[c] :
         clones' = [clones EXCEPT ![c] = Committed(c, k, NoVersion)]
    /\ made' = made + 1
    /\ UNCHANGED origin

DevPush(c) ==
    /\ Quiet(c) /\ origin.main # clones[c].main
    /\ FastForward(origin.main, clones[c].main)
    /\ origin' = [origin EXCEPT !.main = clones[c].main]
    /\ UNCHANGED <<clones, made>>

\* A fetch brings the tags of the history it brings, and moves no local tag.
WithFetched(c, h) ==
    LET seen == {v \in DOMAIN origin.tags : IsPrefix(origin.tags[v].at, h)}
        mine == clones[c].tags
    IN  [v \in DOMAIN mine \union seen |-> IF v \in DOMAIN mine THEN mine[v] ELSE origin.tags[v].at]

\* `git pull` of a branch behind origin, or `git reset` of one that diverged.
Sync(c) ==
    /\ Quiet(c) /\ clones[c].on = "main" /\ clones[c].written = NoVersion
    /\ clones[c].main # origin.main \/ clones[c].tags # WithFetched(c, origin.main)
    /\ clones' = [clones EXCEPT ![c].main = origin.main, ![c].tags = WithFetched(c, origin.main)]
    /\ UNCHANGED <<origin, made>>

RestoreChangelog(c) ==
    /\ Quiet(c) /\ clones[c].written # NoVersion
    /\ clones' = [clones EXCEPT ![c].written = NoVersion]
    /\ UNCHANGED <<origin, made>>

\* A work branch is started from main, and left for it again.
Checkout(c) ==
    /\ c \in Branching /\ Quiet(c) /\ clones[c].written = NoVersion
    /\ clones' = [clones EXCEPT ![c].on = IF @ = "main" THEN "work" ELSE "main",
                                ![c].work = clones[c].main]
    /\ UNCHANGED <<origin, made>>

----------------------------------------------------------------------------
Publish(c) ==
    \/ StartPublish(c) \/ CommitEntry(c) \/ Tag(c) \/ PushMain(c) \/ PushTag(c) \/ Break(c)

Develop(c) ==
    \/ Commit(c) \/ DevPush(c) \/ Sync(c) \/ RestoreChangelog(c) \/ Checkout(c)

PublishNext == \E c \in Clones : Publish(c) \/ Develop(c)

PublishSpec == PublishInit /\ [][PublishNext]_publishing

----------------------------------------------------------------------------
\* Somebody has a tag, of a lower version, on another line of history: of a publish that
\* failed after its tag, on commits that were reset, or of one on a work branch.
Astray(v) ==
    LET h == origin.tags[v].at IN
    \E c \in Clones : \E t \in DOMAIN clones[c].tags :
        Less(t, v) /\ ~IsPrefix(clones[c].tags[t], h) /\ ~IsPrefix(h, clones[c].tags[t])

\* Versions grow along the history: a tag of origin that stands further down the
\* history than another one is the greater version, also when a publisher did not
\* see the other's tag because its push was still to come or had failed.  The
\* exception is a version that may have been counted from a tag astray.
TagsGrow ==
    \A v, w \in DOMAIN origin.tags :
        v # w /\ IsStrictPrefix(origin.tags[v].at, origin.tags[w].at) => Less(v, w) \/ Astray(v)

\* What was published from main is on main: no tag of origin names commits that
\* its branch has not received, whichever push fails or loses a race.
TagsOnMain ==
    \A v \in DOMAIN origin.tags :
        origin.tags[v].from = "main" => IsPrefix(origin.tags[v].at, origin.main)

\* The changelog origin serves has one entry per version, although a version whose
\* tag never arrived is inferred again by the next publisher.
OneEntryPerVersion ==
    \A i, j \in DOMAIN origin.main :
        origin.main[i].entry = origin.main[j].entry /\ i # j => origin.main[i].entry = NoVersion

\* All three: origin tells what was published, in which order and where.
OriginTells == TagsGrow /\ TagsOnMain /\ OneEntryPerVersion
=============================================================================
