------------------------------ MODULE SpecDocs ------------------------------
(***************************************************************************)
(* What flowctl reads in a spec and holds against it (flowctl/specs.py),   *)
(* as functions of one document and of the workspace around it.            *)
(*                                                                         *)
(* A document is a record of what its frontmatter and its YAML blocks say. *)
(* Findings are the names of what is wrong: their wording and their number *)
(* matter to nobody but the reader.  A field of a wrong type counts as     *)
(* empty and leaves a finding: `ill` says that there is one.               *)
(*                                                                         *)
(* A path is the sequence of its segments, Up standing for `../..`.        *)
(***************************************************************************)
EXTENDS Integers, FiniteSets, Sequences, SequencesExt

CONSTANTS
    Path,           \* the paths that specs name
    Up,             \* the first segment of every path out of a spec's directory
    RootRepo,       \* the workspace itself
    RepoPrefixes,   \* sequence of [repo, at]: repo_prefixes, in the order of the registry
    TargetRoots,    \* [repo -> set of paths], where its targets may lie
    TestRoots,      \* [repo -> set of paths], where a target asks for a test
    None

\* A document; what its fields stand for is told where they are read.
Document(doc) ==
    /\ DOMAIN doc = {"readable", "ill", "missing", "schema", "status", "described", "todo", "quoted",
                     "targets", "tests", "dependsOn", "needs", "services", "projects", "stackIll",
                     "reason", "phases", "noDomain", "breakdown", "slices", "matrix", "matrixIll"}
    /\ doc.schema \in Int
    /\ doc.targets \in Seq(Path)
    /\ DOMAIN doc.slices \subseteq Nat
    /\ \A i \in DOMAIN doc.slices : i > 0 /\ doc.slices[i].targets \in Seq(Path)

Find(wrong, name) == IF wrong THEN {name} ELSE {}

-----------------------------------------------------------------------------
\* Statuses.

Executable(status) == status = "approved"
Settled(status) == status \in {"approved", "released"}    \* for dependents and for strict CI
Terminal(status) == status = "released"

-----------------------------------------------------------------------------
\* classify_routed_path: the first prefix in the order of the registry, or the workspace.

PrefixOf(path) == {i \in DOMAIN RepoPrefixes : IsStrictPrefix(RepoPrefixes[i].at, path)}
FirstPrefix(path) == RepoPrefixes[CHOOSE i \in PrefixOf(path) : \A j \in PrefixOf(path) : i <= j]

Under(roots, relative) == \E root \in roots : IsPrefix(root, relative)

Route == [path \in Path |->
    LET repo == IF PrefixOf(path) # {} THEN FirstPrefix(path).repo ELSE RootRepo
        relative == IF PrefixOf(path) # {}
                    THEN SubSeq(path, Len(FirstPrefix(path).at) + 1, Len(path))
                    ELSE Tail(path)
    IN  [repo |-> repo,
         relative |-> relative,
         routed |-> /\ PrefixOf(path) # {} \/ (Len(path) > 1 /\ Head(path) = Up)
                    /\ Under(TargetRoots[repo], relative),
         tested |-> Under(TestRoots[repo], relative)]]

RepoOf(path) == Route[path].repo
Relative(path) == Route[path].relative
Routed(path) == Route[path].routed

AllRouted(paths) == \A i \in DOMAIN paths : Routed(paths[i])

\* collect_routed_paths: the repos of those that route.
ReposOf(paths) == {RepoOf(paths[i]) : i \in {j \in DOMAIN paths : Routed(paths[j])}}

-----------------------------------------------------------------------------
\* Tests.

NeedsTest(path) == Routed(path) /\ Route[path].tested

\* repos_missing_test_refs; the workspace needs none.
Untested(doc) ==
    {RepoOf(doc.targets[i]) : i \in {j \in DOMAIN doc.targets : NeedsTest(doc.targets[j])}}
        \ (ReposOf(doc.tests) \cup {RootRepo})

\* test_reference_findings: references that match no file.
LostTests(doc, world) ==
    {i \in DOMAIN doc.tests :
        Routed(doc.tests[i]) /\ RepoOf(doc.tests[i]) # RootRepo /\ doc.tests[i] \notin world.tests}

-----------------------------------------------------------------------------
\* parse_verification_matrix and verification_matrix_findings.

Levels == {"integration", "api-contract", "e2e", "smoke", "migration", "security",
           "performance", "custom"}
Blocking == {"review", "approval", "ci", "release"}

\* A profile without a name, or with one that was seen, is left out.
Profiles(doc) ==
    {i \in DOMAIN doc.matrix :
        doc.matrix[i].name # None /\ \A j \in 1..(i - 1) : doc.matrix[j].name # doc.matrix[i].name}

MatrixFindings(doc) ==
    Find(doc.matrixIll, "matrix-ill")
    \cup Find(Profiles(doc) # DOMAIN doc.matrix, "profile-name")
    \cup Find(\E i \in Profiles(doc) : doc.matrix[i].level \notin Levels, "profile-level")
    \cup Find(\E i \in Profiles(doc) : ~doc.matrix[i].command, "profile-command")
    \cup Find(\E i \in Profiles(doc) :
                 doc.matrix[i].on = {} \/ ~(doc.matrix[i].on \subseteq Blocking), "profile-stage")
    \cup Find(Cardinality(ReposOf(doc.targets)) > 1 /\ Profiles(doc) = {}, "no-profile")

-----------------------------------------------------------------------------
\* _slice_execution_contract.

NonExpansion == {"governance", "enforcement", "minimal-change", "verification-only"}
Modes == NonExpansion \cup {"implementation-heavy", "refactor"}
Surfaces == {"required", "optional", "forbidden"}

NeedsCloseout(item) == item.mode \in NonExpansion \/ item.surface # "required"

ContractFindings(item) ==
    Find(item.mode \notin Modes, "slice-mode")
    \cup Find(item.surface \notin Surfaces, "slice-surface")
    \cup Find(NeedsCloseout(item) /\ ~item.minimum, "no-minimum-completion")
    \cup Find(NeedsCloseout(item) /\ item.noop = None, "no-noop-declared")
    \cup Find(NeedsCloseout(item) /\ ~item.evidence, "no-evidence")
    \cup Find(item.mode = "verification-only" /\ item.surface = "required", "surface-to-verify")

ExecutorMode(item) ==
    IF NeedsCloseout(item) \/ item.noop = "allowed" THEN "compliance-closeout" ELSE "implementation"

-----------------------------------------------------------------------------
\* parse_slice_breakdown.

Declared(doc) == ToSet(doc.targets)

\* Items that are looked at past their name: named, for the first time, with a target.
Read(doc) ==
    {i \in DOMAIN doc.slices :
        /\ doc.slices[i].name # None
        /\ \A j \in 1..(i - 1) : doc.slices[j].name # doc.slices[i].name
        /\ doc.slices[i].targets # <<>>}

\* Mutant: targets are not compared with those of the frontmatter.
KeptUndeclared(doc) ==
    {i \in Read(doc) :
        /\ AllRouted(doc.slices[i].targets)
        /\ Cardinality(ReposOf(doc.slices[i].targets)) = 1}

\* Of these, the slices there are: in one repo, with declared targets only.
Kept(doc) ==
    {i \in Read(doc) :
        /\ AllRouted(doc.slices[i].targets)
        /\ Cardinality(ReposOf(doc.slices[i].targets)) = 1
        /\ ToSet(doc.slices[i].targets) \subseteq Declared(doc)}

KeptNames(doc) == {doc.slices[i].name : i \in Kept(doc)}

BreakdownFindings(doc) ==
    Find(doc.breakdown # "list", "breakdown")
    \cup Find(\E i \in Read(doc) : doc.slices[i].ill, "slice-ill")
    \cup Find(Kept(doc) # DOMAIN doc.slices, "slice-dropped")
    \cup Find(\E i \in Read(doc) : doc.slices[i].hot = None, "no-hot-area")
    \cup (UNION {ContractFindings(doc.slices[i]) : i \in Read(doc)})
    \cup Find(\E i \in Kept(doc) : ~(doc.slices[i].deps \subseteq KeptNames(doc)), "slice-depends")

\* A slice as plans and governance see it.
SliceOf(item) ==
    [name |-> item.name, repo |-> RepoOf(item.targets[1]), targets |-> ToSet(item.targets),
     hot |-> item.hot, deps |-> item.deps, executor |-> ExecutorMode(item)]

Breakdown(doc) == {SliceOf(doc.slices[i]) : i \in Kept(doc)}

-----------------------------------------------------------------------------
\* slice_governance_policy and slice_governance_findings.

Larger(m, n) == IF m < n THEN n ELSE m

\* The root a target lies in: the first segment past its repo.
TargetRootsOf(doc) ==
    {Relative(doc.targets[i])[1] : i \in {j \in DOMAIN doc.targets : Routed(doc.targets[j])}}

MinSlices(doc) ==
    Larger(Larger(2, Cardinality(ReposOf(doc.targets))),
           IF \/ doc.phases > 1
              \/ Cardinality(TargetRootsOf(doc)) >= 3
              \/ Len(doc.targets) >= 5
           THEN 3 ELSE 2)

\* Held against the slices of the breakdown or, where there is a plan, of the plan.
GovernanceFindings(doc, slices) ==
    LET count == Cardinality(slices)
    IN  IF doc.schema < 3 THEN {}
        ELSE BreakdownFindings(doc)
             \cup IF count = 0 THEN {"no-slices"}
                  ELSE Find(count < MinSlices(doc) /\ ~(count = 1 /\ doc.reason # None), "too-few-slices")
                       \cup Find(count = 1 /\ doc.reason = None, "single-slice")
                       \cup Find(doc.reason = "todo", "reason-placeholder")
                       \cup Find(count > 1 /\ \E s \in slices : s.hot = None, "no-hot-area")
                       \cup Find(\E s, t \in slices :
                                    s # t /\ s.hot # None /\ s.repo = t.repo /\ s.hot = t.hot,
                                 "shared-hot-area")

PlanGovernance(doc, slices) ==
    GovernanceFindings(doc, slices)
    \cup Find(/\ doc.schema >= 3 /\ slices # {} /\ Breakdown(doc) # {}
              /\ {s.name : s \in slices} # KeptNames(doc), "not-as-declared")

-----------------------------------------------------------------------------
\* spec_dependency_findings: the catalog, the stack and the other specs.

StackFindings(doc, world) ==
    LET services == doc.services
        projects == doc.projects
        named == {services[i].name : i \in DOMAIN services} \ {None}
        runtimeOf(n) == {services[i].runtime : i \in {j \in DOMAIN services : services[j].name = n}}
        Twice(items) == \E i, j \in DOMAIN items : i < j /\ items[i].name = items[j].name
        Partial(items) == \E i \in DOMAIN items : None \in {items[i].name, items[i].runtime}
        Foreign(items, installed) == \E i \in DOMAIN items : items[i].runtime \notin installed \cup {None}
    IN  Find(Partial(services) \/ Partial(projects), "stack-incomplete")
        \cup Find(Twice(services) \/ Twice(projects), "stack-duplicate")
        \cup Find(Foreign(services, world.services) \/ Foreign(projects, world.runtimes), "stack-runtime")
        \cup Find(doc.stackIll, "stack-ill")
        \cup Find(\E i \in DOMAIN projects : ~(projects[i].capabilities \subseteq world.capabilities),
                  "stack-capability")
        \cup Find(\E i \in DOMAIN projects : ~(projects[i].uses \subseteq named), "stack-binding")
        \cup Find(\E i \in DOMAIN projects : \E n \in projects[i].uses \cap named :
                     /\ projects[i].runtime \in world.runtimes
                     /\ runtimeOf(n) # {None}
                     /\ (runtimeOf(n) \cup {n}) \cap world.bindings[projects[i].runtime] = {},
                  "no-binding")

CatalogFindings(doc, world) ==
    Find(~(doc.needs.runtimes \subseteq world.runtimes), "runtime")
    \cup Find(~(doc.needs.services \subseteq world.services), "service")
    \cup Find(~(doc.needs.capabilities \subseteq world.capabilities), "capability")

\* The other specs: `specs` maps each to its document, or None; `bucket` to its directory.
DependsFindings(self, doc, specs, bucket) ==
    LET there == {s \in doc.dependsOn : s \in DOMAIN specs /\ specs[s] # None}
        resolved == {s \in there \ {self} : specs[s].readable}
        exists(b) == \E s \in DOMAIN specs : specs[s] # None /\ bucket[s] = b
        named(b) == \E s \in resolved : bucket[s] = b
        feature == bucket[self] = "features"
    IN  Find(there # doc.dependsOn, "depends-on-missing")
        \cup Find(self \in there, "depends-on-itself")
        \cup Find(\E s \in there \ {self} : ~specs[s].readable, "depends-on-unreadable")
        \cup Find(\E s \in resolved : ~Settled(specs[s].status), "depends-on-unsettled")
        \cup Find(feature /\ exists("foundation") /\ ~named("foundation"), "no-foundation")
        \cup Find(feature /\ exists("domains") /\ ~named("domains") /\ ~doc.noDomain, "no-domain")

DependencyFindings(self, doc, specs, bucket, world) ==
    CatalogFindings(doc, world) \cup StackFindings(doc, world)
        \cup DependsFindings(self, doc, specs, bucket)

-----------------------------------------------------------------------------
\* What review, approval and CI make of it.

\* A frontmatter that is no YAML object, or a field of a type that no reader takes.
Malformed(doc) == ~doc.readable \/ doc.ill

\* analyze_spec: the findings that every reader of an analysis shares.
FormFindings(doc) ==
    Find(Malformed(doc), "frontmatter")
    \cup Find(doc.missing, "missing-field")
    \cup Find(~AllRouted(doc.targets), "target")
    \cup Find(~AllRouted(doc.tests), "test")

OpenFindings(doc) ==
    Find(doc.todo, "todo") \cup Find(Untested(doc) # {}, "untested")

\* ensure_spec_ready_for_approval.
ApprovalFindings(self, doc, specs, bucket, world) ==
    FormFindings(doc)
    \cup Find(doc.quoted, "quoted-test")
    \cup Find(LostTests(doc, world) # {}, "lost-test")
    \cup MatrixFindings(doc)
    \cup DependencyFindings(self, doc, specs, bucket, world)
    \cup GovernanceFindings(doc, Breakdown(doc))
    \cup Find(~doc.described, "description")
    \cup OpenFindings(doc)

\* command_spec_review: neither quoted references nor lost tests.
ReviewFindings(self, doc, specs, bucket, world) ==
    FormFindings(doc)
    \cup DependencyFindings(self, doc, specs, bucket, world)
    \cup GovernanceFindings(doc, Breakdown(doc))
    \cup MatrixFindings(doc)
    \cup Find(~doc.described, "description")
    \cup OpenFindings(doc)

\* command_ci_spec: neither quoted references nor the description, but the status.
CiFindings(self, doc, specs, bucket, world) ==
    FormFindings(doc)
    \cup DependencyFindings(self, doc, specs, bucket, world)
    \cup Find(LostTests(doc, world) # {}, "lost-test")
    \cup GovernanceFindings(doc, Breakdown(doc))
    \cup MatrixFindings(doc)
    \cup OpenFindings(doc)
    \cup Find(~Settled(doc.status), "status")
=============================================================================
