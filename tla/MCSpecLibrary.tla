--------------------------- MODULE MCSpecLibrary ---------------------------
(***************************************************************************)
(* A foundation and a feature that must name it, in a workspace of two     *)
(* repos, the second below the first.                                      *)
(***************************************************************************)
EXTENDS SpecLibrary, TLC

MCSlug == {"payments", "pay"}
MCBucket == [payments |-> "foundation", pay |-> "features"]
MCMainSlice == [api |-> "api-main", web |-> "web-main", inner |-> "inner-main"] @@ (RootRepo :> "root-main")
MCRepoPrefixes == <<[repo |-> "api", at |-> <<Up, "api">>], [repo |-> "web", at |-> <<Up, "web">>],
                    [repo |-> "inner", at |-> <<Up, "api", "inner">>]>>
MCTargetRoots == [api |-> {<<"app">>, <<"routes">>}, web |-> {<<"src">>}, inner |-> {<<"src">>}]
                 @@ (RootRepo :> {<<"docs">>})
MCTestRoots == [api |-> {<<"app">>}, web |-> {}, inner |-> {}] @@ (RootRepo :> {})

App == <<Up, "api", "app", "pay">>
Routes == <<Up, "api", "routes", "pay">>
Inner == <<Up, "api", "inner", "src">>
Src == <<Up, "web", "src", "pay">>
Docs == <<Up, "docs", "pay">>
AppTest == <<Up, "api", "app", "test">>
OldTest == <<Up, "api", "app", "gone">>
MCPath == {App, Routes, Inner, Src, Docs, AppTest, OldTest}

NoNeeds == [runtimes |-> {}, services |-> {}, capabilities |-> {}]

Slice(name, targets, hot) ==
    [name |-> name, targets |-> targets, hot |-> hot, deps |-> {}, ill |-> FALSE,
     mode |-> "implementation-heavy", surface |-> "required", minimum |-> FALSE, noop |-> None,
     evidence |-> FALSE]

One == Slice("one", <<App>>, "domain")
Two == [Slice("two", <<Routes>>, "http") EXCEPT !.deps = {"one"}]

\* What an author would like to have approved.
Good ==
    [readable |-> TRUE, ill |-> FALSE, missing |-> FALSE, schema |-> 3, status |-> "draft",
     described |-> TRUE, todo |-> FALSE, quoted |-> FALSE,
     targets |-> <<App, Routes>>, tests |-> <<AppTest>>, dependsOn |-> {"payments"},
     needs |-> NoNeeds, services |-> <<>>, projects |-> <<>>, stackIll |-> FALSE,
     reason |-> None, phases |-> 1, noDomain |-> FALSE,
     breakdown |-> "list", slices |-> <<One, Two>>, matrix |-> <<>>, matrixIll |-> FALSE]

Profile == [name |-> "flow", level |-> "e2e", command |-> TRUE, on |-> {"ci"}]

Foundation == [Good EXCEPT !.targets = <<Docs>>, !.tests = <<>>, !.dependsOn = {}, !.schema = 2,
                           !.breakdown = "missing", !.slices = <<>>]

MCSkeleton == [payments |-> [Foundation EXCEPT !.todo = TRUE],
               pay |-> [Good EXCEPT !.todo = TRUE, !.dependsOn = {}, !.tests = <<>>, !.targets = <<>>,
                                    !.missing = TRUE, !.breakdown = "missing", !.slices = <<>>]]

\* Two repos, closed out by evidence in one of them; needs what the stack offers.
Wide == [Good EXCEPT !.targets = <<App, Src>>, !.tests = <<AppTest, Src>>,
                     !.slices = <<One, [Slice("two", <<Src>>, "page") EXCEPT
                                          !.mode = "governance", !.minimum = TRUE,
                                          !.noop = "allowed", !.evidence = TRUE]>>,
                     !.matrix = <<Profile>>,
                     !.needs = [NoNeeds EXCEPT !.runtimes = {"php"}, !.services = {"mysql"}],
                     !.services = <<[name |-> "db", runtime |-> "mysql"]>>,
                     !.projects = <<[name |-> "api", runtime |-> "php", capabilities |-> {"queue"},
                                     uses |-> {"db"}]>>]

Quick(doc) == [doc EXCEPT !.status = "approved"]

MCDrafts ==
    [payments |-> {Foundation, [Foundation EXCEPT !.readable = FALSE]},
     pay |-> {Good, Wide,
              [Good EXCEPT !.tests = <<OldTest>>, !.slices[2].deps = {"three"},
                           !.slices[2].hot = "domain"],
              [Wide EXCEPT !.matrix[1].on = {}, !.projects[1].uses = {"cache"}],
              [Good EXCEPT !.status = "released", !.quoted = TRUE, !.dependsOn = {"pay"}],
              Quick([Good EXCEPT !.slices[2].targets = <<Routes, OldTest>>]),
              Quick([Good EXCEPT !.schema = 2, !.slices[1].name = "two", !.slices[2].name = "two"]),
              Quick([Good EXCEPT !.schema = 2, !.slices = <<[One EXCEPT !.targets = <<App, Inner>>]>>]),
              [Good EXCEPT !.schema = 2, !.targets = <<>>, !.tests = <<>>],
              Quick([Good EXCEPT !.slices = <<One>>, !.reason = "small"])}]

MCMaxSaves == [payments |-> 1, pay |-> 2]

\* All that Wide needs and a test; and neither the capability, a binding nor the test.
MCWorlds ==
    {[runtimes |-> {"php"}, services |-> {"mysql"}, capabilities |-> {"queue"},
      bindings |-> [php |-> {"mysql"}], tests |-> {AppTest, Src}],
     [runtimes |-> {"php"}, services |-> {"mysql"}, capabilities |-> {},
      bindings |-> [php |-> {}], tests |-> {Src}]}
=============================================================================
