------------------------ MODULE SliceSchedulerProofs ------------------------
(***************************************************************************)
(* Proofs about SliceScheduler, for any runs, plans, requests, capacities  *)
(* and ttls.                                                               *)
(***************************************************************************)
EXTENDS SliceScheduler, FiniteSetTheorems, SequenceTheorems, TLAPS

\* No two processes act under one run id.
DistinctIds == \A q, r \in Run : RunId[q] = RunId[r] => q = r

Settled == {"passed", "failed", "blocked"}

TypeOK ==
    /\ launch \in Launches
    /\ table \in [Lock -> [owner : ({RunId[r] : r \in Run} \X Slice) \cup {None}, left : Nat]]
    /\ pc \in [Run -> {"beat", "finalize", "release", "schedule", "acquire", "rollback"} \cup Ended]
    /\ todo \in [Run -> SUBSET (Slice \X Lock)]
    /\ done \in [Run -> SUBSET Slice]
    /\ at \in [Run -> Nat]
    /\ status \in [Run -> [Slice -> {"pending", "running"} \cup Settled]]
    /\ attempt \in [Run -> [Slice -> Nat]]
    /\ acquired \in [Run -> [Slice -> SUBSET Lock]]
    /\ worker \in [Run -> [Slice -> {"none"} \cup Active \cup Finished]]
    /\ completed \in [Run -> Nat]
    /\ byRepo \in [Run -> [Repo -> Nat]]
    /\ byArea \in [Run -> [Area -> Nat]]
    /\ lag \in [Run -> Nat]

\* The slice whose locks the loop is about to give back.
Leaving(r) == IF pc[r] = "release" THEN {b[1] : b \in todo[r]}
              ELSE IF pc[r] = "rollback" THEN {at[r]} ELSE {}

\* The locks the loop believes to hold.
Believed(r) == {b \in Slice \X Lock : /\ b[2] \in acquired[r][b[1]]
                                      /\ b[1] \in Leaving(r) => b \in todo[r]}

\* What is still to do in each phase of the loop.
Phase(r) ==
    /\ pc[r] = "beat" => todo[r] \subseteq HeldBy(r)
    /\ pc[r] = "release" =>
         \E s \in Running(r) \ done[r] :
             worker[r][s] \in Finished /\ todo[r] # {} /\ todo[r] \subseteq {s} \X acquired[r][s]
    /\ pc[r] \in {"acquire", "rollback"} => at[r] \in Plan[r] /\ status[r][at[r]] = "pending"
    /\ pc[r] = "acquire" =>
         /\ CanRun(r, at[r])
         /\ IsFiniteSet(acquired[r][at[r]])
         /\ Cardinality(acquired[r][at[r]]) < Len(Requests[at[r]])
         /\ acquired[r][at[r]] =
              {Requests[at[r]][i] : i \in 1..Cardinality(acquired[r][at[r]])}
    /\ pc[r] = "rollback" => todo[r] \subseteq {at[r]} \X acquired[r][at[r]]
    /\ pc[r] \in {"finalize", "schedule", "acquire"} \cup Ended => todo[r] = {}
    /\ pc[r] \notin {"finalize", "release"} => done[r] = {}
    /\ done[r] \subseteq {s \in Running(r) : worker[r][s] \in Finished}
    /\ pc[r] = "returned" => completed[r] >= Cardinality(Plan[r])
    /\ pc[r] = "killed" => \A s \in Slice : worker[r][s] = "none"

\* What is on record of each job, in any phase.
Job(r, s) ==
    /\ worker[r][s] # "none" => s \in Running(r)
    /\ status[r][s] = "running" => s \in Plan[r] /\ acquired[r][s] = ToSet(Requests[s])
    /\ status[r][s] # "running" /\ acquired[r][s] # {} =>
         /\ s \in Plan[r] /\ status[r][s] = "pending"
         /\ pc[r] \in {"aborted", "killed"} \/ (pc[r] \in {"acquire", "rollback"} /\ s = at[r])
    /\ status[r][s] = "pending" => attempt[r][s] <= MaxRetries
    /\ status[r][s] = "running" => attempt[r][s] \in 1..(MaxRetries + 1)
    /\ s \notin Plan[r] => status[r][s] = "pending"

\* OutcomesJustified, of one job.
Justified(r, s) ==
    /\ attempt[r][s] > 0 => \A p \in Parents(r, s) : status[r][p] = "passed"
    /\ status[r][s] = "blocked" =>
         /\ attempt[r][s] = 0
         /\ \E p \in Parents(r, s) : status[r][p] \in {"failed", "blocked"}
    /\ status[r][s] = "failed" => attempt[r][s] = MaxRetries + 1

Apart(r) == \A s, t \in Running(r) : s # t => ~Overlap(s, t)

\* The counters are the jobs they count, until a loop is left by an exception; the jobs
\* on the pool are within the capacities even then.
SettledJobs(r) == {s \in Plan[r] : status[r][s] \in Settled}
Counted(r) == Running(r) \ (IF pc[r] = "release" THEN {b[1] : b \in todo[r]} ELSE {})
OnPool(r) == {s \in Plan[r] : worker[r][s] \in Active}
InRepo(S, p) == {s \in S : RepoOf[s] = p}
InArea(S, a) == {s \in S : a \in HotAreas[s]}
Counts(r) ==
    /\ completed[r] = Cardinality(SettledJobs(r))
    /\ pc[r] \notin Ended =>
         /\ \A p \in Repo : byRepo[r][p] = Cardinality(InRepo(Counted(r), p))
         /\ \A a \in Area : byArea[r][a] = Cardinality(InArea(Counted(r), a))
    /\ \A p \in Repo : Cardinality(InRepo(OnPool(r), p)) <= PerRepoCapacity
    /\ \A a \in Area : Cardinality(InArea(OnPool(r), a)) <= PerHotAreaCapacity

\* A row without an owner is no row.
FreeRows == \A l \in Lock : table[l].owner = None => table[l].left = 0

\* No row is left of a job that has forgotten it.
Noted(r) ==
    \A s \in Slice, l \in Lock : table[l].owner = Owner(r, s) => <<s, l>> \in Believed(r)

\* What a punctual loop believes to hold it holds: each row has been renewed since the
\* last round of heartbeats or in it, and in this one when its turn has come.
Holds(r) ==
    pc[r] \notin Ended =>
        \A b \in Believed(r) :
           /\ table[b[2]].owner = Owner(r, b[1])
           /\ table[b[2]].left + lag[r] + MaxLag >= TTL
           /\ pc[r] = "beat" /\ b \notin todo[r] => table[b[2]].left + lag[r] >= TTL
Calm(r) == pc[r] # "aborted" /\ \A s \in Slice : worker[r][s] # "raised"

\* The inductive invariant.
Books(r) ==
    /\ Phase(r) /\ Apart(r) /\ Counts(r)
    /\ \A s \in Slice : Job(r, s) /\ (s \in Plan[r] => Justified(r, s))
    /\ pc[r] \notin Ended => lag[r] <= MaxLag
IInv ==
    /\ TypeOK /\ FreeRows
    /\ \A r \in Run :
         /\ Books(r)
         /\ DistinctIds => Noted(r)
         /\ DistinctIds /\ Punctual => Holds(r) /\ Calm(r)

-----------------------------------------------------------------------------
(***************************************************************************)
(* The requests of a slice.                                                *)
(***************************************************************************)
LEMMA SortedFacts ==
    ASSUME NEW s \in Slice, NEW names \in {SemanticOf[s], AreasOf[s]}
    PROVE  /\ names \in Seq(Nat)
           /\ Sorted(names) \in Seq(Nat) /\ Len(Sorted(names)) \in Nat
           /\ DOMAIN Sorted(names) = 1..Len(Sorted(names))
           /\ \A i \in 1..Len(Sorted(names)) : Sorted(names)[i] \in Nat
           /\ \A i, j \in 1..Len(Sorted(names)) : Sorted(names)[i] = Sorted(names)[j] => i = j
           /\ \A x \in ToSet(names) : \E i \in 1..Len(Sorted(names)) : Sorted(names)[i] = x
           /\ Sorted(names) = <<>> <=> ToSet(names) = {}
PROOF
<1> DEFINE z == Sorted(names)
<1>1. names \in Seq(Nat) /\ z \in Seq(Nat) /\ IsInjective(z) /\ ToSet(z) = ToSet(names)
  BY SliceAssumption, SortedAssumption
<1> HIDE DEF z
<1>2. Len(z) \in Nat /\ DOMAIN z = 1..Len(z) /\ \A i \in 1..Len(z) : z[i] \in Nat
  BY <1>1, LenProperties
<1>3. \A i, j \in 1..Len(z) : z[i] = z[j] => i = j
  BY <1>1, <1>2 DEF IsInjective
<1>4. \A x \in ToSet(names) : \E i \in 1..Len(z) : z[i] = x
  BY <1>1, <1>2 DEF ToSet
<1>5. z = <<>> <=> ToSet(names) = {}
  <2>1. ASSUME z = <<>> PROVE ToSet(names) = {}
    <3>1. Len(z) = 0
      BY <2>1, EmptySeq
    <3> QED BY <1>2, <1>4, <3>1
  <2>2. ASSUME ToSet(names) = {} PROVE z = <<>>
    <3>1. \A i \in 1..Len(z) : z[i] \in ToSet(z)
      BY <1>2 DEF ToSet
    <3>2. Len(z) = 0
      BY <1>1, <1>2, <2>2, <3>1
    <3> QED BY <1>1, <3>2, EmptySeq
  <2> QED BY <2>1, <2>2
<1> QED BY <1>1, <1>2, <1>3, <1>4, <1>5 DEF z

Semantic(s) == LET z == Sorted(SemanticOf[s]) IN [i \in DOMAIN z |-> <<"semantic", None, z[i]>>]
Placed(s) ==
    LET z == Sorted(AreasOf[s]) IN
    IF z = <<>> THEN << <<"repo", RepoOf[s], 0>> >>
    ELSE [i \in DOMAIN z |-> <<"hot-area", RepoOf[s], z[i]>>]
Request == {"semantic", "repo", "hot-area"} \X (Repo \cup {None}) \X Nat

LEMMA SemanticFacts ==
    ASSUME NEW s \in Slice
    PROVE  /\ Semantic(s) \in Seq(Request)
           /\ Len(Semantic(s)) = Len(Sorted(SemanticOf[s]))
           /\ \A i \in 1..Len(Semantic(s)) :
                Semantic(s)[i] = <<"semantic", None, Sorted(SemanticOf[s])[i]>>
           /\ \A i, j \in 1..Len(Semantic(s)) : Semantic(s)[i] = Semantic(s)[j] => i = j
           /\ \A x \in ToSet(SemanticOf[s]) :
                \E i \in 1..Len(Semantic(s)) : Semantic(s)[i] = <<"semantic", None, x>>
PROOF
<1> DEFINE z == Sorted(SemanticOf[s])
<1>1. /\ Len(z) \in Nat /\ DOMAIN z = 1..Len(z) /\ \A i \in 1..Len(z) : z[i] \in Nat
      /\ \A i, j \in 1..Len(z) : z[i] = z[j] => i = j
      /\ \A x \in ToSet(SemanticOf[s]) : \E i \in 1..Len(z) : z[i] = x
  BY SortedFacts
<1>2. Semantic(s) = [i \in DOMAIN z |-> <<"semantic", None, z[i]>>]
  BY DEF Semantic
<1> HIDE DEF z
<1>3. Semantic(s) = [i \in 1..Len(z) |-> <<"semantic", None, z[i]>>]
  BY <1>1, <1>2
<1>4. \A i \in 1..Len(z) : <<"semantic", None, z[i]>> \in Request
  BY <1>1 DEF Request
<1>5. Semantic(s) \in [1..Len(z) -> Request]
  BY <1>3, <1>4
<1>6. Semantic(s) \in Seq(Request)
  BY <1>1, <1>5
<1>7. Len(Semantic(s)) = Len(z)
  BY <1>1, <1>5, <1>6, LenProperties
<1>8. \A i \in 1..Len(z) : Semantic(s)[i] = <<"semantic", None, z[i]>>
  BY <1>3
<1>9. \A i, j \in 1..Len(z) : Semantic(s)[i] = Semantic(s)[j] => i = j
  BY <1>1, <1>8
<1> QED BY <1>1, <1>6, <1>7, <1>8, <1>9 DEF z

LEMMA PlacedFacts ==
    ASSUME NEW s \in Slice
    PROVE  /\ Placed(s) \in Seq(Request) /\ Len(Placed(s)) > 0
           /\ \A i \in 1..Len(Placed(s)) : Placed(s)[i][1] # "semantic"
           /\ \A i, j \in 1..Len(Placed(s)) : Placed(s)[i] = Placed(s)[j] => i = j
           /\ HotAreas[s] = {} =>
                \E i \in 1..Len(Placed(s)) : Placed(s)[i] = <<"repo", RepoOf[s], 0>>
           /\ \A x \in HotAreas[s] :
                \E i \in 1..Len(Placed(s)) : Placed(s)[i] = <<"hot-area", RepoOf[s], x>>
PROOF
<1> DEFINE z == Sorted(AreasOf[s])
<1>1. /\ Len(z) \in Nat /\ DOMAIN z = 1..Len(z) /\ \A i \in 1..Len(z) : z[i] \in Nat
      /\ \A i, j \in 1..Len(z) : z[i] = z[j] => i = j
      /\ \A x \in ToSet(AreasOf[s]) : \E i \in 1..Len(z) : z[i] = x
      /\ z = <<>> <=> ToSet(AreasOf[s]) = {}
      /\ z \in Seq(Nat)
  BY SortedFacts
<1>2. Placed(s) = IF z = <<>> THEN << <<"repo", RepoOf[s], 0>> >>
                  ELSE [i \in DOMAIN z |-> <<"hot-area", RepoOf[s], z[i]>>]
  BY DEF Placed
<1>3. HotAreas[s] = ToSet(AreasOf[s]) /\ RepoOf[s] \in Repo
  BY SliceAssumption DEF HotAreas
<1> HIDE DEF z
<1>4. CASE z = <<>>
  <2>1. Placed(s) = << <<"repo", RepoOf[s], 0>> >> /\ HotAreas[s] = {}
    BY <1>1, <1>2, <1>3, <1>4
  <2>2. <<"repo", RepoOf[s], 0>> \in Request
    BY <1>3 DEF Request
  <2>3. Placed(s) \in Seq(Request) /\ Len(Placed(s)) = 1 /\ Placed(s)[1] = <<"repo", RepoOf[s], 0>>
    BY <2>1, <2>2
  <2> QED BY <2>1, <2>3
<1>5. CASE z # <<>>
  <2>1. Placed(s) = [i \in 1..Len(z) |-> <<"hot-area", RepoOf[s], z[i]>>] /\ HotAreas[s] # {}
    BY <1>1, <1>2, <1>3, <1>5
  <2>2. \A i \in 1..Len(z) : <<"hot-area", RepoOf[s], z[i]>> \in Request
    BY <1>1, <1>3 DEF Request
  <2>3. Placed(s) \in [1..Len(z) -> Request]
    BY <2>1, <2>2
  <2>4. Placed(s) \in Seq(Request)
    BY <1>1, <2>3
  <2>5. Len(Placed(s)) = Len(z) /\ Len(z) > 0
    BY <1>1, <1>5, <2>3, <2>4, LenProperties, EmptySeq
  <2>6. \A i \in 1..Len(z) : Placed(s)[i] = <<"hot-area", RepoOf[s], z[i]>>
    BY <2>1
  <2>7. \A i, j \in 1..Len(z) : Placed(s)[i] = Placed(s)[j] => i = j
    BY <1>1, <2>6
  <2>8. \A i \in 1..Len(z) : Placed(s)[i][1] # "semantic"
    BY <2>6
  <2>9. \A x \in HotAreas[s] : \E i \in 1..Len(z) : Placed(s)[i] = <<"hot-area", RepoOf[s], x>>
    BY <1>1, <1>3, <2>6, SMTT(30)
  <2> QED BY <2>1, <2>4, <2>5, <2>7, <2>8, <2>9
<1> QED BY <1>4, <1>5

\* The requests are a sequence of different locks, and there is one at least.
LEMMA RequestFacts ==
    ASSUME NEW s \in Slice
    PROVE  /\ Len(Requests[s]) \in Nat \ {0} /\ DOMAIN Requests[s] = 1..Len(Requests[s])
           /\ \A i \in 1..Len(Requests[s]) : Requests[s][i] \in Lock
           /\ \A i, j \in 1..Len(Requests[s]) : Requests[s][i] = Requests[s][j] => i = j
           /\ ToSet(Requests[s]) = {Requests[s][i] : i \in 1..Len(Requests[s])}
           /\ ToSet(Requests[s]) # {} /\ ToSet(Requests[s]) \subseteq Lock
           /\ \A i \in 1..Len(Semantic(s)) : Semantic(s)[i] \in ToSet(Requests[s])
           /\ \A i \in 1..Len(Placed(s)) : Placed(s)[i] \in ToSet(Requests[s])
PROOF
<1> DEFINE a == Semantic(s)  b == Placed(s)  q == Requests[s]
<1>1. q = a \o b
  BY DEF Requests, RequestsOf, Semantic, Placed
<1>2. /\ a \in Seq(Request) /\ b \in Seq(Request) /\ Len(b) > 0
      /\ Len(a) \in Nat /\ Len(b) \in Nat
      /\ \A i, j \in 1..Len(a) : a[i] = a[j] => i = j
      /\ \A i, j \in 1..Len(b) : b[i] = b[j] => i = j
      /\ \A i \in 1..Len(a) : a[i][1] = "semantic"
      /\ \A i \in 1..Len(b) : b[i][1] # "semantic"
  BY SemanticFacts, PlacedFacts, LenProperties
<1> HIDE DEF a, b, q
<1>3. /\ q \in Seq(Request) /\ Len(q) = Len(a) + Len(b)
      /\ \A i \in 1..Len(q) : q[i] = IF i <= Len(a) THEN a[i] ELSE b[i - Len(a)]
  BY <1>1, <1>2, ConcatProperties
<1>4. Len(q) \in Nat \ {0} /\ DOMAIN q = 1..Len(q)
  BY <1>2, <1>3, LenProperties
<1>5. ToSet(q) = {q[i] : i \in 1..Len(q)}
  BY <1>4 DEF ToSet
<1>6. ToSet(q) \subseteq Lock
  BY DEF Lock, q
<1>7. \A i \in 1..Len(q) : q[i] \in ToSet(q)
  BY <1>5
<1>8. ASSUME NEW i \in 1..Len(q), NEW j \in 1..Len(q), q[i] = q[j] PROVE i = j
  <2>1. i \in Nat /\ j \in Nat
    OBVIOUS
  <2>2. CASE i <= Len(a) /\ j <= Len(a)
    BY <1>2, <1>3, <1>8, <2>2
  <2>3. CASE i > Len(a) /\ j > Len(a)
    <3>1. /\ i - Len(a) \in 1..Len(b) /\ j - Len(a) \in 1..Len(b)
      BY <1>2, <1>3, <2>3
    <3>2. b[i - Len(a)] = b[j - Len(a)]
      BY <1>2, <1>3, <1>8, <2>3
    <3>3. i - Len(a) = j - Len(a)
      BY <1>2, <3>1, <3>2
    <3> QED BY <1>2, <3>3
  <2>4. CASE i <= Len(a) /\ j > Len(a)
    <3>1. q[i][1] = "semantic" /\ j - Len(a) \in 1..Len(b) /\ q[j] = b[j - Len(a)]
      BY <1>2, <1>3, <2>4
    <3> QED BY <1>2, <1>8, <3>1
  <2>5. CASE i > Len(a) /\ j <= Len(a)
    <3>1. q[j][1] = "semantic" /\ i - Len(a) \in 1..Len(b) /\ q[i] = b[i - Len(a)]
      BY <1>2, <1>3, <2>5
    <3> QED BY <1>2, <1>8, <3>1
  <2> QED BY <1>2, <2>1, <2>2, <2>3, <2>4, <2>5
<1>9. \A i \in 1..Len(a) : a[i] \in ToSet(q)
  <2>1. \A i \in 1..Len(a) : i \in 1..Len(q) /\ q[i] = a[i]
    BY <1>2, <1>3
  <2> QED BY <1>7, <2>1
<1>10. \A i \in 1..Len(b) : b[i] \in ToSet(q)
  <2>1. ASSUME NEW i \in 1..Len(b) PROVE i + Len(a) \in 1..Len(q) /\ q[i + Len(a)] = b[i]
    <3>1. i + Len(a) \in 1..Len(q) /\ ~(i + Len(a) <= Len(a)) /\ (i + Len(a)) - Len(a) = i
      BY <1>2, <1>3
    <3> QED BY <1>3, <3>1
  <2> QED BY <1>7, <2>1
<1>11. ToSet(q) # {}
  BY <1>2, <1>10
<1> QED BY <1>4, <1>5, <1>6, <1>7, <1>8, <1>9, <1>10, <1>11 DEF a, b, q

LEMMA Wanted ==
    ASSUME NEW s \in Slice
    PROVE  /\ \A x \in ToSet(SemanticOf[s]) : <<"semantic", None, x>> \in ToSet(Requests[s])
           /\ \A x \in HotAreas[s] : <<"hot-area", RepoOf[s], x>> \in ToSet(Requests[s])
           /\ HotAreas[s] = {} => <<"repo", RepoOf[s], 0>> \in ToSet(Requests[s])
PROOF
<1>1. ASSUME NEW x \in ToSet(SemanticOf[s]) PROVE <<"semantic", None, x>> \in ToSet(Requests[s])
  <2>1. PICK i \in 1..Len(Semantic(s)) : Semantic(s)[i] = <<"semantic", None, x>>
    BY SemanticFacts
  <2>2. Semantic(s)[i] \in ToSet(Requests[s])
    BY RequestFacts
  <2> QED BY <2>1, <2>2
<1>2. ASSUME NEW x \in HotAreas[s] PROVE <<"hot-area", RepoOf[s], x>> \in ToSet(Requests[s])
  <2>1. PICK i \in 1..Len(Placed(s)) : Placed(s)[i] = <<"hot-area", RepoOf[s], x>>
    BY PlacedFacts
  <2>2. Placed(s)[i] \in ToSet(Requests[s])
    BY RequestFacts
  <2> QED BY <2>1, <2>2
<1>3. ASSUME HotAreas[s] = {} PROVE <<"repo", RepoOf[s], 0>> \in ToSet(Requests[s])
  <2>1. PICK i \in 1..Len(Placed(s)) : Placed(s)[i] = <<"repo", RepoOf[s], 0>>
    BY <1>3, PlacedFacts
  <2>2. Placed(s)[i] \in ToSet(Requests[s])
    BY RequestFacts
  <2> QED BY <2>1, <2>2
<1> QED BY <1>1, <1>2, <1>3

\* Slices that compete ask for one lock in common.
LEMMA CompetitorsMeet ==
    ASSUME NEW s \in Slice, NEW t \in Slice, Compete(s, t)
    PROVE  \E l \in Lock : l \in ToSet(Requests[s]) /\ l \in ToSet(Requests[t])
PROOF
<1>1. CASE ToSet(SemanticOf[s]) \cap ToSet(SemanticOf[t]) # {}
  <2>1. PICK x : x \in ToSet(SemanticOf[s]) /\ x \in ToSet(SemanticOf[t])
    BY <1>1
  <2>2. <<"semantic", None, x>> \in ToSet(Requests[s])
    BY <2>1, Wanted
  <2>3. <<"semantic", None, x>> \in ToSet(Requests[t])
    BY <2>1, Wanted
  <2> QED BY <2>2, <2>3, RequestFacts
<1>2. CASE RepoOf[s] = RepoOf[t] /\ HotAreas[s] \cap HotAreas[t] # {}
  <2>1. PICK x : x \in HotAreas[s] /\ x \in HotAreas[t]
    BY <1>2
  <2>2. <<"hot-area", RepoOf[s], x>> \in ToSet(Requests[s])
    BY <2>1, Wanted
  <2>3. <<"hot-area", RepoOf[t], x>> \in ToSet(Requests[t])
    BY <2>1, Wanted
  <2> QED BY <1>2, <2>2, <2>3, RequestFacts
<1>3. CASE RepoOf[s] = RepoOf[t] /\ HotAreas[s] = {} /\ HotAreas[t] = {}
  <2>1. <<"repo", RepoOf[s], 0>> \in ToSet(Requests[s])
    BY <1>3, Wanted
  <2>2. <<"repo", RepoOf[t], 0>> \in ToSet(Requests[t])
    BY <1>3, Wanted
  <2> QED BY <1>3, <2>1, <2>2, RequestFacts
<1> QED BY <1>1, <1>2, <1>3 DEF Compete

-----------------------------------------------------------------------------
(***************************************************************************)
(* What a step leaves as it is.                                            *)
(***************************************************************************)
LEMMA LaunchFacts ==
    ASSUME TypeOK
    PROVE  /\ Plan \in [Run -> SUBSET Slice] /\ \A r \in Run : Plan[r] \subseteq Slice
           /\ MaxRetries \in Nat /\ TTL \in Nat /\ MaxLag \in Nat /\ CanRaise \in BOOLEAN
PROOF BY LaunchAssumption DEF TypeOK, Plan, MaxRetries, TTL, MaxLag, CanRaise

LEMMA LaunchKept ==
    ASSUME launch' = launch
    PROVE  /\ Plan' = Plan /\ MaxRetries' = MaxRetries /\ TTL' = TTL /\ MaxLag' = MaxLag
           /\ CanRaise' = CanRaise /\ (Punctual' <=> Punctual)
PROOF BY DEF Plan, MaxRetries, TTL, MaxLag, CanRaise, Punctual

LEMMA Finite ==
    ASSUME NEW S \in SUBSET Slice
    PROVE  IsFiniteSet(S) /\ Cardinality(S) \in Nat
PROOF BY SliceAssumption, FS_Subset, FS_CardinalityType

LEMMA JobSets ==
    ASSUME TypeOK, NEW r \in Run
    PROVE  /\ Running(r) \in SUBSET Slice /\ SettledJobs(r) \in SUBSET Slice
           /\ OnPool(r) \in SUBSET Slice /\ Counted(r) \in SUBSET Slice
           /\ Plan[r] \in SUBSET Slice
PROOF BY LaunchFacts DEF Running, SettledJobs, OnPool, Counted

LEMMA StatusKept ==
    ASSUME launch' = launch, NEW r \in Run, status'[r] = status[r]
    PROVE  /\ Running(r)' = Running(r) /\ SettledJobs(r)' = SettledJobs(r)
           /\ \A s : Parents(r, s)' = Parents(r, s) /\ DagOpen(r, s)' = DagOpen(r, s)
           /\ Apart(r)' = Apart(r)
PROOF
<1>1. Plan' = Plan
  BY LaunchKept
<1>2. Running(r)' = Running(r) /\ SettledJobs(r)' = SettledJobs(r)
  BY <1>1 DEF Running, SettledJobs
<1>3. \A s : Parents(r, s)' = Parents(r, s)
  BY <1>1 DEF Parents
<1> QED BY <1>2, <1>3 DEF DagOpen, Apart

LEMMA HeldKept ==
    ASSUME launch' = launch, NEW r \in Run, status'[r] = status[r], acquired'[r] = acquired[r]
    PROVE  HeldBy(r)' = HeldBy(r)
PROOF BY StatusKept DEF HeldBy

LEMMA GatesKept ==
    ASSUME launch' = launch, NEW r \in Run, status'[r] = status[r],
           byRepo'[r] = byRepo[r], byArea'[r] = byArea[r], NEW s
    PROVE  CanRun(r, s)' = CanRun(r, s)
PROOF BY StatusKept DEF CanRun

LEMMA PoolKept ==
    ASSUME launch' = launch, NEW r \in Run, worker'[r] = worker[r]
    PROVE  OnPool(r)' = OnPool(r)
PROOF BY LaunchKept DEF OnPool

LEMMA CountedKept ==
    ASSUME launch' = launch, NEW r \in Run, status'[r] = status[r],
           pc'[r] = pc[r], todo'[r] = todo[r]
    PROVE  Counted(r)' = Counted(r)
PROOF BY StatusKept DEF Counted

LEMMA BelievedKept ==
    ASSUME NEW r \in Run, pc'[r] = pc[r], todo'[r] = todo[r], at'[r] = at[r],
           acquired'[r] = acquired[r]
    PROVE  Believed(r)' = Believed(r) /\ Leaving(r)' = Leaving(r)
PROOF
<1>1. Leaving(r)' = Leaving(r)
  BY DEF Leaving
<1> QED BY <1>1 DEF Believed

LEMMA JustifiedKept ==
    ASSUME launch' = launch, NEW r \in Run, status'[r] = status[r], attempt'[r] = attempt[r], NEW s
    PROVE  Justified(r, s)' = Justified(r, s)
PROOF BY StatusKept, LaunchKept DEF Justified

LEMMA CountsKept ==
    ASSUME launch' = launch, NEW r \in Run, status'[r] = status[r], worker'[r] = worker[r],
           completed'[r] = completed[r], Counts(r),
           pc'[r] \notin Ended =>
             /\ pc[r] \notin Ended /\ Counted(r)' = Counted(r)
             /\ byRepo'[r] = byRepo[r] /\ byArea'[r] = byArea[r]
    PROVE  Counts(r)'
PROOF BY StatusKept, PoolKept DEF Counts, InRepo, InArea

\* A job whose own record stays, in a loop that goes on with other jobs.
LEMMA JobKept ==
    ASSUME launch' = launch, NEW r \in Run, NEW s \in Slice, Job(r, s),
           status'[r][s] = status[r][s], worker'[r][s] = worker[r][s],
           acquired'[r][s] = acquired[r][s], attempt'[r][s] = attempt[r][s],
           \/ pc'[r] = pc[r] /\ at'[r] = at[r]
           \/ pc'[r] \in {"aborted", "killed"}
           \/ status[r][s] = "running"
           \/ acquired[r][s] = {}
           \/ pc'[r] \in {"acquire", "rollback"} /\ pc[r] \in {"acquire", "rollback"} /\ at'[r] = at[r]
    PROVE  Job(r, s)'
PROOF BY LaunchKept DEF Job, Running

Same(r) ==
    /\ pc'[r] = pc[r] /\ todo'[r] = todo[r] /\ done'[r] = done[r] /\ at'[r] = at[r]
    /\ status'[r] = status[r] /\ attempt'[r] = attempt[r] /\ acquired'[r] = acquired[r]
    /\ worker'[r] = worker[r] /\ completed'[r] = completed[r]
    /\ byRepo'[r] = byRepo[r] /\ byArea'[r] = byArea[r]

LEMMA PhaseKept ==
    ASSUME launch' = launch, NEW r \in Run, Same(r), Phase(r)
    PROVE  Phase(r)'
PROOF
<1>1. /\ Running(r)' = Running(r) /\ HeldBy(r)' = HeldBy(r) /\ Plan' = Plan
      /\ CanRun(r, at[r])' = CanRun(r, at[r])
  BY StatusKept, HeldKept, LaunchKept, GatesKept DEF Same
<1> QED BY <1>1 DEF Same, Phase

LEMMA BooksKept ==
    ASSUME launch' = launch, NEW r \in Run, Same(r), lag'[r] = lag[r], Books(r)
    PROVE  Books(r)'
PROOF
<1>1. Phase(r)' /\ Apart(r)'
  BY PhaseKept, StatusKept DEF Books, Same
<1>2. Counts(r)'
  BY CountsKept, CountedKept DEF Books, Same
<1>3. \A s \in Slice : Job(r, s)'
  BY JobKept DEF Books, Same
<1>4. \A s \in Slice : s \in Plan[r]' => Justified(r, s)'
  BY JustifiedKept, LaunchKept DEF Books, Same
<1>5. pc'[r] \notin Ended => lag'[r] <= MaxLag'
  BY LaunchKept DEF Books, Same
<1> QED BY <1>1, <1>2, <1>3, <1>4, <1>5 DEF Books

-----------------------------------------------------------------------------
(***************************************************************************)
(* One run steps: it changes its own rows and those that have expired, and *)
(* its own books.                                                          *)
(***************************************************************************)
Mine(r) == {RunId[r]} \X Slice

OthersKeep(r) ==
    \A l \in Lock :
        /\ table[l].left > 0 /\ table[l].owner \notin Mine(r) => table'[l] = table[l]
        /\ table'[l].owner \in {table[l].owner, None} \cup Mine(r)

\* The other runs are where they were.
Alone(r) == launch' = launch /\ \A q \in Run \ {r} : Same(q) /\ lag'[q] = lag[q]

LEMMA OwnersDiffer ==
    ASSUME DistinctIds, NEW q \in Run, NEW r \in Run, q # r, NEW s \in Slice
    PROVE  Owner(q, s) \notin Mine(r) /\ Owner(q, s) # None
PROOF BY OwnerAssumption DEF DistinctIds, Owner, Mine

\* A row that a punctual loop believes in has not expired.
LEMMA BelievedLive ==
    ASSUME TypeOK, NEW r \in Run, Books(r), Holds(r), Punctual, pc[r] \notin Ended,
           NEW b \in Believed(r)
    PROVE  /\ b[1] \in Slice /\ b[2] \in Lock
           /\ table[b[2]].owner = Owner(r, b[1]) /\ table[b[2]].left > 0
PROOF
<1>1. b[1] \in Slice /\ b[2] \in Lock
  BY DEF Believed
<1>2. /\ table[b[2]].owner = Owner(r, b[1]) /\ table[b[2]].left + lag[r] + MaxLag >= TTL
      /\ lag[r] <= MaxLag
  BY DEF Holds, Books
<1>3. lag[r] \in Nat /\ MaxLag \in Nat /\ TTL \in Nat /\ table[b[2]].left \in Nat
  BY <1>1, LaunchFacts DEF TypeOK
<1>4. 2 * MaxLag < TTL
  BY DEF Punctual
<1> QED BY <1>1, <1>2, <1>3, <1>4

LEMMA OtherNoted ==
    ASSUME NEW r \in Run, OthersKeep(r), DistinctIds, NEW q \in Run, q # r, Same(q), Noted(q)
    PROVE  Noted(q)'
PROOF
<1>1. Believed(q)' = Believed(q)
  BY BelievedKept DEF Same
<1>2. ASSUME NEW s \in Slice, NEW l \in Lock, table'[l].owner = Owner(q, s)
      PROVE  <<s, l>> \in Believed(q)
  <2>1. table[l].owner = Owner(q, s)
    BY <1>2, OwnersDiffer DEF OthersKeep
  <2> QED BY <2>1 DEF Noted
<1> QED BY <1>1, <1>2 DEF Noted, Owner

LEMMA OtherHolds ==
    ASSUME TypeOK, launch' = launch, NEW r \in Run, OthersKeep(r), DistinctIds, Punctual,
           NEW q \in Run, q # r, Same(q), lag'[q] = lag[q], Books(q), Holds(q)
    PROVE  Holds(q)'
PROOF
<1>1. Believed(q)' = Believed(q)
  BY BelievedKept DEF Same
<1>2. TTL' = TTL /\ MaxLag' = MaxLag
  BY LaunchKept
<1>3. ASSUME NEW b \in Believed(q), pc[q] \notin Ended PROVE table'[b[2]] = table[b[2]]
  <2>1. /\ b[1] \in Slice /\ b[2] \in Lock
        /\ table[b[2]].owner = Owner(q, b[1]) /\ table[b[2]].left > 0
    BY <1>3, BelievedLive
  <2> QED BY <2>1, OwnersDiffer DEF OthersKeep
<1> QED BY <1>1, <1>2, <1>3 DEF Holds, Same, Owner

LEMMA RunStep ==
    ASSUME IInv, TypeOK', FreeRows', NEW r \in Run, Alone(r), OthersKeep(r), Books(r)',
           DistinctIds => Noted(r)',
           DistinctIds /\ Punctual => Holds(r)' /\ Calm(r)'
    PROVE  IInv'
PROOF
<1>1. launch' = launch /\ (Punctual' <=> Punctual) /\ TypeOK
  BY LaunchKept DEF Alone, IInv
<1>2. ASSUME NEW q \in Run, q # r
      PROVE  /\ Books(q)'
             /\ DistinctIds => Noted(q)'
             /\ DistinctIds /\ Punctual => Holds(q)' /\ Calm(q)'
  <2>1. Same(q) /\ lag'[q] = lag[q] /\ Books(q)
    BY <1>2 DEF Alone, IInv
  <2>2. Books(q)'
    BY <1>1, <2>1, BooksKept
  <2>3. ASSUME DistinctIds PROVE Noted(q)'
    BY <1>2, <2>1, <2>3, OtherNoted DEF IInv
  <2>4. ASSUME DistinctIds, Punctual PROVE Holds(q)' /\ Calm(q)'
    <3>1. Holds(q) /\ Calm(q)
      BY <2>4 DEF IInv
    <3>2. Holds(q)'
      BY <1>1, <1>2, <2>1, <2>4, <3>1, OtherHolds
    <3>3. Calm(q)'
      BY <2>1, <3>1 DEF Calm, Same
    <3> QED BY <3>2, <3>3
  <2> QED BY <2>2, <2>3, <2>4
<1>3. DistinctIds' <=> DistinctIds
  BY DEF DistinctIds
<1> QED BY <1>1, <1>2, <1>3 DEF IInv

-----------------------------------------------------------------------------
(***************************************************************************)
(* The table: what each call to the backend makes of it.                   *)
(***************************************************************************)
OwnerId == {RunId[r] : r \in Run} \X Slice
Rows == [owner : OwnerId \cup {None}, left : Nat]

LEMMA RowType ==
    ASSUME TypeOK
    PROVE  /\ table \in [Lock -> Rows]
           /\ \A l \in Lock : table[l].owner \in OwnerId \cup {None} /\ table[l].left \in Nat
PROOF BY DEF TypeOK, Rows, OwnerId

LEMMA OwnerType ==
    ASSUME NEW r \in Run, NEW s \in Slice
    PROVE  Owner(r, s) \in OwnerId /\ Owner(r, s) \in Mine(r) /\ Owner(r, s) # None
PROOF BY OwnerAssumption DEF Owner, OwnerId, Mine

LEMMA SweptFacts ==
    ASSUME TypeOK, FreeRows
    PROVE  /\ Swept \in [Lock -> Rows]
           /\ \A l \in Lock :
                /\ table[l].left > 0 => Swept[l] = table[l]
                /\ Swept[l].owner \in {table[l].owner, None}
                /\ Swept[l].owner = None => Swept[l].left = 0
PROOF
<1>1. Free \in Rows /\ Free.owner = None /\ Free.left = 0
  BY DEF Free, Rows
<1>2. Swept \in [Lock -> Rows]
  BY <1>1, RowType DEF Swept
<1>3. ASSUME NEW l \in Lock
      PROVE  Swept[l] = IF table[l].left = 0 THEN Free ELSE table[l]
  BY DEF Swept
<1> QED BY <1>1, <1>2, <1>3 DEF FreeRows

LEMMA SweepRows ==
    ASSUME TypeOK, FreeRows, table' = table \/ table' = Swept
    PROVE  /\ table' \in [Lock -> Rows] /\ FreeRows'
           /\ \A r \in Run : OthersKeep(r)
PROOF
<1>1. CASE table' = table
  BY <1>1, RowType DEF FreeRows, OthersKeep
<1>2. CASE table' = Swept
  BY <1>2, SweptFacts DEF FreeRows, OthersKeep
<1> QED BY <1>1, <1>2

LEMMA GrantRows ==
    ASSUME TypeOK, FreeRows, NEW r \in Run, NEW s \in Slice, NEW l \in Lock, Grantable(r, s, l),
           table' = [Swept EXCEPT ![l] = [owner |-> Owner(r, s), left |-> TTL]]
    PROVE  /\ table' \in [Lock -> Rows] /\ FreeRows' /\ OthersKeep(r)
           /\ table'[l].owner = Owner(r, s) /\ table'[l].left = TTL
           /\ \A k \in Lock \ {l} : table'[k] = Swept[k]
PROOF
<1> DEFINE row == [owner |-> Owner(r, s), left |-> TTL]
<1>1. row \in Rows /\ row.owner = Owner(r, s) /\ row.left = TTL
  BY OwnerType, LaunchFacts DEF Rows
<1> HIDE DEF row
<1>2. table' = [Swept EXCEPT ![l] = row]
  BY DEF row
<1>3. Swept \in [Lock -> Rows]
  BY SweptFacts
<1>4. table'[l] = row /\ \A k \in Lock \ {l} : table'[k] = Swept[k]
  BY <1>2, <1>3
<1>5. FreeRows'
  BY <1>1, <1>4, SweptFacts, OwnerType DEF FreeRows
<1>6. OthersKeep(r)
  <2>1. table[l].left > 0 => table[l].owner \in Mine(r) \cup {None}
    BY SweptFacts, OwnerType DEF Grantable
  <2>2. table[l].owner = None => table[l].left = 0
    BY DEF FreeRows
  <2>3. table[l].left \in Nat
    BY RowType
  <2>4. table[l].left > 0 => table[l].owner \in Mine(r)
    BY <2>1, <2>2, <2>3
  <2>5. table'[l].owner \in Mine(r)
    BY <1>1, <1>4, OwnerType
  <2> QED BY <1>4, <2>4, <2>5, SweptFacts DEF OthersKeep
<1>7. table' \in [Lock -> Rows]
  BY <1>1, <1>2, <1>3
<1> QED BY <1>1, <1>4, <1>5, <1>6, <1>7

LEMMA RenewRows ==
    ASSUME TypeOK, FreeRows, NEW r \in Run, NEW s \in Slice, NEW l \in Lock,
           Swept[l].owner = Owner(r, s), table' = [Swept EXCEPT ![l].left = TTL]
    PROVE  /\ table' \in [Lock -> Rows] /\ FreeRows' /\ OthersKeep(r)
           /\ table'[l].owner = Owner(r, s) /\ table'[l].left = TTL
           /\ \A k \in Lock \ {l} : table'[k] = Swept[k]
PROOF
<1>1. Swept \in [Lock -> Rows] /\ TTL \in Nat
  BY SweptFacts, LaunchFacts
<1>2. Swept[l] = [owner |-> Owner(r, s), left |-> Swept[l].left]
  BY <1>1 DEF Rows
<1>3. [Swept[l] EXCEPT !.left = TTL] = [owner |-> Owner(r, s), left |-> TTL]
  BY <1>2
<1>4. table' = [Swept EXCEPT ![l] = [owner |-> Owner(r, s), left |-> TTL]]
  BY <1>1, <1>3
<1>5. Grantable(r, s, l)
  BY DEF Grantable
<1> QED BY <1>4, <1>5, GrantRows

LEMMA ReleaseRows ==
    ASSUME TypeOK, FreeRows, NEW r \in Run, NEW s \in Slice, NEW l \in Lock,
           CanRelease(r, s, l), table' = Released(l)
    PROVE  /\ table' \in [Lock -> Rows] /\ FreeRows' /\ OthersKeep(r)
           /\ table'[l].owner = None
           /\ \A k \in Lock \ {l} : table'[k] = table[k]
PROOF
<1>1. Free \in Rows /\ Free.owner = None /\ Free.left = 0
  BY DEF Free, Rows
<1>2. table' = [table EXCEPT ![l] = Free] /\ table \in [Lock -> Rows]
  BY RowType DEF Released
<1>3. table'[l] = Free /\ \A k \in Lock \ {l} : table'[k] = table[k]
  BY <1>2
<1>4. table[l].left > 0 => table[l].owner \in Mine(r)
  <2>1. table[l].owner \in Mine(r) \cup {None} /\ table[l].left \in Nat
    BY OwnerType, RowType DEF CanRelease
  <2>2. table[l].owner = None => table[l].left = 0
    BY DEF FreeRows
  <2> QED BY <2>1, <2>2
<1>5. FreeRows' /\ OthersKeep(r)
  BY <1>1, <1>3, <1>4 DEF FreeRows, OthersKeep
<1>6. table' \in [Lock -> Rows]
  BY <1>1, <1>2
<1> QED BY <1>1, <1>3, <1>5, <1>6

-----------------------------------------------------------------------------
(***************************************************************************)
(* What the run that steps believes, when no row of it is renewed.         *)
(***************************************************************************)
LEMMA NotedStep ==
    ASSUME TypeOK, FreeRows, NEW r \in Run, Noted(r), table' = table \/ table' = Swept,
           Believed(r) \subseteq Believed(r)'
    PROVE  Noted(r)'
PROOF
<1>1. ASSUME NEW s \in Slice, NEW l \in Lock, table'[l].owner = Owner(r, s)
      PROVE  table[l].owner = Owner(r, s)
  BY <1>1, SweptFacts, OwnerType
<1> QED BY <1>1 DEF Noted, Owner

LEMMA HoldsStep ==
    ASSUME TypeOK, FreeRows, launch' = launch, NEW r \in Run, Books(r), Holds(r), Punctual,
           pc[r] \notin Ended, lag'[r] = lag[r], table' = table \/ table' = Swept,
           Believed(r)' \subseteq Believed(r),
           pc'[r] = "beat" =>
             \A b \in Believed(r)' : b \in todo'[r] \/ (pc[r] = "beat" /\ b \notin todo[r])
    PROVE  Holds(r)'
PROOF
<1>1. TTL' = TTL /\ MaxLag' = MaxLag
  BY LaunchKept
<1>2. ASSUME NEW b \in Believed(r)' PROVE table'[b[2]] = table[b[2]] /\ b \in Believed(r)
  <2>1. b[2] \in Lock /\ table[b[2]].left > 0
    BY BelievedLive
  <2> QED BY <2>1, SweptFacts
<1> QED BY <1>1, <1>2 DEF Holds, Owner

\* The jobs stay as they are on record, and so do the counters.
LEMMA LocalBooks ==
    ASSUME launch' = launch, NEW r \in Run, Books(r), Phase(r)',
           status'[r] = status[r], attempt'[r] = attempt[r], acquired'[r] = acquired[r],
           worker'[r] = worker[r], completed'[r] = completed[r],
           byRepo'[r] = byRepo[r], byArea'[r] = byArea[r],
           pc'[r] \notin Ended =>
             pc[r] \notin Ended /\ Counted(r)' = Counted(r) /\ lag'[r] <= MaxLag,
           \/ pc'[r] \in {"aborted", "killed"}
           \/ pc[r] \notin {"acquire", "rollback", "aborted", "killed"}
           \/ /\ pc'[r] \in {"acquire", "rollback"} /\ pc[r] \in {"acquire", "rollback"}
              /\ at'[r] = at[r]
    PROVE  Books(r)'
PROOF
<1>1. Apart(r)'
  BY StatusKept DEF Books
<1>2. Counts(r)'
  BY CountsKept DEF Books
<1>3. ASSUME NEW s \in Slice PROVE Job(r, s)'
  <2>1. Job(r, s)
    BY DEF Books
  <2>2. \/ pc'[r] \in {"aborted", "killed"} \/ status[r][s] = "running" \/ acquired[r][s] = {}
        \/ /\ pc'[r] \in {"acquire", "rollback"} /\ pc[r] \in {"acquire", "rollback"}
           /\ at'[r] = at[r]
    BY <2>1 DEF Job
  <2> QED BY <2>1, <2>2, JobKept
<1>4. \A s \in Slice : s \in Plan[r]' => Justified(r, s)'
  BY JustifiedKept, LaunchKept DEF Books
<1>5. pc'[r] \notin Ended => lag'[r] <= MaxLag'
  BY LaunchKept
<1> QED BY <1>1, <1>2, <1>3, <1>4, <1>5 DEF Books

-----------------------------------------------------------------------------
(***************************************************************************)
(* The loop is left, by an exception or by a kill.                         *)
(***************************************************************************)
LEMMA Facts ==
    ASSUME IInv, NEW r \in Run
    PROVE  /\ TypeOK /\ FreeRows /\ Books(r) /\ Phase(r)
           /\ DistinctIds => Noted(r)
           /\ DistinctIds /\ Punctual => Holds(r) /\ Calm(r)
           /\ \A s \in Slice : Job(r, s)
PROOF BY DEF IInv, Books

LEMMA AbortStep ==
    ASSUME IInv, NEW r \in Run, Abort(r), ~(DistinctIds /\ Punctual)
    PROVE  IInv'
PROOF
<1>1. /\ pc'[r] = "aborted" /\ todo'[r] = {} /\ done'[r] = {} /\ launch' = launch
      /\ table' = table /\ at' = at /\ status' = status /\ attempt' = attempt
      /\ acquired' = acquired /\ worker' = worker /\ completed' = completed
      /\ byRepo' = byRepo /\ byArea' = byArea /\ lag' = lag
      /\ \A q \in Run \ {r} : pc'[q] = pc[q] /\ todo'[q] = todo[q] /\ done'[q] = done[q]
  BY Facts DEF Abort, TypeOK, local
<1>2. TypeOK'
  BY Facts DEF Abort, TypeOK, local, Ended
<1>3. Alone(r)
  BY <1>1 DEF Alone, Same
<1>4. Phase(r)'
  BY <1>1 DEF Phase, Ended
<1>5. Books(r)'
  BY <1>1, <1>4, Facts, LocalBooks DEF Ended
<1>6. FreeRows' /\ OthersKeep(r)
  BY <1>1, Facts, SweepRows
<1>7. Believed(r) \subseteq Believed(r)'
  BY <1>1 DEF Believed, Leaving
<1>8. DistinctIds => Noted(r)'
  BY <1>1, <1>7, Facts, NotedStep
<1> QED BY <1>2, <1>3, <1>5, <1>6, <1>8, RunStep

\* A punctual loop can call the backend for every lock that is left to renew or give back.
LEMMA CallsSucceed ==
    ASSUME IInv, NEW r \in Run, DistinctIds, Punctual, pc[r] \notin Ended, NEW b \in todo[r]
    PROVE  /\ Swept[b[2]].owner = Owner(r, b[1]) /\ CanRelease(r, b[1], b[2])
           /\ b \in Believed(r)
PROOF
<1>1. b \in Slice \X Lock /\ b[1] \in Slice /\ b[2] \in Lock /\ b = <<b[1], b[2]>>
  BY Facts DEF TypeOK
<1>2. b[2] \in acquired[r][b[1]]
  <2>1. CASE pc[r] = "beat"
    BY <1>1, <2>1, Facts DEF Phase, HeldBy
  <2>2. CASE pc[r] = "release"
    <3>1. PICK s \in Running(r) : todo[r] \subseteq {s} \X acquired[r][s]
      BY <2>2, Facts DEF Phase
    <3> QED BY <1>1, <3>1
  <2>3. CASE pc[r] = "rollback"
    BY <1>1, <2>3, Facts DEF Phase
  <2> QED BY <2>1, <2>2, <2>3, Facts, ZenonT(60) DEF Phase, TypeOK
<1>3. b \in Believed(r)
  BY <1>1, <1>2 DEF Believed
<1>4. table[b[2]].owner = Owner(r, b[1]) /\ table[b[2]].left > 0
  BY <1>3, Facts, BelievedLive
<1> QED BY <1>1, <1>3, <1>4, Facts, SweptFacts DEF CanRelease

LEMMA RaiseStep ==
    ASSUME IInv, NEW r \in Run,
           \/ HeartbeatRaises(r) \/ ResultRaises(r) \/ ReleaseRaises(r) \/ RollbackRaises(r)
           \/ BackendRaises(r)
    PROVE  IInv'
PROOF
<1>1. Abort(r)
  BY DEF HeartbeatRaises, ResultRaises, ReleaseRaises, RollbackRaises, BackendRaises
<1>2. ASSUME DistinctIds, Punctual PROVE FALSE
  <2>1. CASE HeartbeatRaises(r)
    BY <1>2, <2>1, CallsSucceed DEF HeartbeatRaises, Ended
  <2>2. CASE ReleaseRaises(r) \/ RollbackRaises(r)
    BY <1>2, <2>2, CallsSucceed DEF ReleaseRaises, RollbackRaises, Ended
  <2>3. CASE ResultRaises(r)
    BY <1>2, <2>3, Facts DEF ResultRaises, Calm, TypeOK
  <2>4. CASE BackendRaises(r)
    BY <1>2, <2>4 DEF BackendRaises, Punctual
  <2> QED BY <2>1, <2>2, <2>3, <2>4
<1> QED BY <1>1, <1>2, AbortStep

LEMMA KillStep == ASSUME IInv, NEW r \in Run, Kill(r) PROVE IInv'
PROOF
<1>1. /\ pc'[r] = "killed" /\ todo'[r] = {} /\ done'[r] = {} /\ launch' = launch
      /\ table' = table /\ at' = at /\ status' = status /\ attempt' = attempt
      /\ acquired' = acquired /\ completed' = completed
      /\ byRepo' = byRepo /\ byArea' = byArea /\ lag' = lag
      /\ \A s \in Slice : worker'[r][s] = "none"
      /\ \A q \in Run \ {r} : /\ pc'[q] = pc[q] /\ todo'[q] = todo[q] /\ done'[q] = done[q]
                              /\ worker'[q] = worker[q]
  BY Facts DEF Kill, TypeOK, local
<1>2. TypeOK'
  BY Facts DEF Kill, TypeOK, local, Ended
<1>3. Alone(r)
  BY <1>1 DEF Alone, Same
<1>4. Phase(r)'
  BY <1>1 DEF Phase, Ended
<1>5. Books(r)'
  <2>1. Apart(r)'
    BY <1>1, Facts, StatusKept DEF Books
  <2>2. ASSUME NEW s \in Slice PROVE Job(r, s)'
    BY <1>1, Facts, LaunchKept DEF Job, Running
  <2>3. \A s \in Slice : s \in Plan[r]' => Justified(r, s)'
    BY <1>1, Facts, JustifiedKept, LaunchKept DEF Books
  <2>4. OnPool(r)' = {}
    BY <1>1, <1>2, LaunchFacts, LaunchKept, Facts DEF OnPool, Active
  <2>5. /\ \A p \in Repo : InRepo(OnPool(r)', p) = {}
        /\ \A a \in Area : InArea(OnPool(r)', a) = {}
    BY <2>4 DEF InRepo, InArea
  <2>6. /\ \A p \in Repo : Cardinality(InRepo(OnPool(r), p)') <= PerRepoCapacity
        /\ \A a \in Area : Cardinality(InArea(OnPool(r), a)') <= PerHotAreaCapacity
    BY <2>5, FS_EmptySet, CapacityAssumption DEF InRepo, InArea
  <2>7. Counts(r)'
    BY <1>1, <2>6, Facts, StatusKept DEF Counts, Books, Ended
  <2> QED BY <1>1, <1>4, <2>1, <2>2, <2>3, <2>7 DEF Books, Ended
<1>6. FreeRows' /\ OthersKeep(r)
  BY <1>1, Facts, SweepRows
<1>7. Believed(r) \subseteq Believed(r)'
  BY <1>1 DEF Believed, Leaving
<1>8. DistinctIds => Noted(r)'
  BY <1>1, <1>7, Facts, NotedStep
<1>9. Holds(r)' /\ Calm(r)'
  BY <1>1 DEF Holds, Calm, Ended
<1> QED BY <1>2, <1>3, <1>5, <1>6, <1>8, <1>9, RunStep

-----------------------------------------------------------------------------
(***************************************************************************)
(* The phases of the loop that leave the jobs on record as they are.       *)
(***************************************************************************)
LEMMA RenewStep == ASSUME IInv, NEW r \in Run, HeartbeatRenews(r) PROVE IInv'
PROOF
<1>1. PICK b \in todo[r] :
        /\ Swept[b[2]].owner = Owner(r, b[1])
        /\ table' = [Swept EXCEPT ![b[2]].left = TTL]
        /\ todo' = [todo EXCEPT ![r] = @ \ {b}]
  BY DEF HeartbeatRenews
<1>2. /\ pc[r] = "beat" /\ launch' = launch /\ pc' = pc /\ done' = done
      /\ at' = at /\ status' = status /\ attempt' = attempt /\ acquired' = acquired
      /\ worker' = worker /\ completed' = completed /\ byRepo' = byRepo /\ byArea' = byArea
      /\ lag' = lag
      /\ todo'[r] = todo[r] \ {b} /\ \A q \in Run \ {r} : todo'[q] = todo[q]
  BY <1>1, Facts DEF HeartbeatRenews, TypeOK, local
<1>3. b[1] \in Slice /\ b[2] \in Lock /\ b = <<b[1], b[2]>> /\ b \in HeldBy(r)
  BY <1>2, Facts DEF TypeOK, Phase
<1>4. /\ table' \in [Lock -> Rows] /\ FreeRows' /\ OthersKeep(r)
      /\ table'[b[2]].owner = Owner(r, b[1]) /\ table'[b[2]].left = TTL
      /\ \A k \in Lock \ {b[2]} : table'[k] = Swept[k]
  BY <1>1, <1>3, Facts, RenewRows
<1>5. TypeOK'
  BY <1>1, <1>2, <1>4, Facts DEF TypeOK, Rows, OwnerId
<1>6. Alone(r)
  BY <1>2 DEF Alone, Same
<1>7. Phase(r)'
  <2>1. HeldBy(r)' = HeldBy(r) /\ Running(r)' = Running(r)
    BY <1>2, HeldKept, StatusKept
  <2> QED BY <1>2, <2>1, Facts DEF Phase, Ended
<1>8. Counted(r)' = Counted(r)
  BY <1>2, StatusKept DEF Counted
<1>9. Books(r)'
  BY <1>2, <1>7, <1>8, Facts, LocalBooks DEF Books, Ended
<1>10. Believed(r)' = Believed(r) /\ b \in Believed(r)
  BY <1>2, <1>3 DEF Believed, Leaving, HeldBy
<1>11. ASSUME DistinctIds PROVE Noted(r)'
  <2>1. ASSUME NEW s \in Slice, NEW l \in Lock, table'[l].owner = Owner(r, s)
        PROVE  <<s, l>> \in Believed(r)
    <3>1. CASE l = b[2]
      BY <1>3, <1>4, <1>10, <2>1, <3>1 DEF Owner
    <3>2. CASE l # b[2]
      <4>1. table[l].owner = Owner(r, s)
        BY <1>4, <2>1, <3>2, Facts, SweptFacts, OwnerType
      <4> QED BY <1>11, <4>1, Facts DEF Noted
    <3> QED BY <3>1, <3>2
  <2> QED BY <1>10, <2>1 DEF Noted, Owner
<1>12. ASSUME DistinctIds, Punctual PROVE Holds(r)' /\ Calm(r)'
  <2>1. TTL' = TTL /\ MaxLag' = MaxLag /\ TTL \in Nat /\ MaxLag \in Nat /\ lag[r] \in Nat
    BY <1>2, Facts, LaunchKept, LaunchFacts DEF TypeOK
  <2>2. ASSUME NEW c \in Believed(r)
        PROVE  /\ table'[c[2]].owner = Owner(r, c[1])
               /\ table'[c[2]].left + lag[r] + MaxLag >= TTL
               /\ c \notin todo'[r] => table'[c[2]].left + lag[r] >= TTL
    <3>1. /\ c[2] \in Lock /\ table[c[2]].owner = Owner(r, c[1])
          /\ Swept[c[2]] = table[c[2]]
      BY <1>2, <1>12, Facts, BelievedLive, SweptFacts DEF Ended
    <3>2. CASE c[2] = b[2]
      BY <1>1, <1>4, <2>1, <3>1, <3>2
    <3>3. CASE c[2] # b[2]
      <4>1. table'[c[2]] = table[c[2]] /\ c # b
        BY <1>4, <3>1, <3>3
      <4>2. c \notin todo'[r] => c \notin todo[r]
        BY <1>2, <4>1
      <4> QED BY <1>2, <1>12, <4>1, <4>2, Facts DEF Holds, Ended
    <3> QED BY <3>2, <3>3
  <2>3. Holds(r)'
    BY <1>2, <1>10, <2>1, <2>2 DEF Holds, Owner
  <2> QED BY <1>2, <1>12, <2>3, Facts DEF Calm
<1> QED BY <1>4, <1>5, <1>6, <1>9, <1>11, <1>12, RunStep

LEMMA CollectStep == ASSUME IInv, NEW r \in Run, CollectDone(r) PROVE IInv'
PROOF
<1>1. /\ pc[r] = "beat" /\ pc'[r] = "finalize" /\ launch' = launch /\ table' = table
      /\ todo' = todo /\ todo[r] = {}
      /\ at' = at /\ status' = status /\ attempt' = attempt /\ acquired' = acquired
      /\ worker' = worker /\ completed' = completed /\ byRepo' = byRepo /\ byArea' = byArea
      /\ lag'[r] = 0 /\ done'[r] = {s \in Plan[r] : worker[r][s] \in Finished}
      /\ \A q \in Run \ {r} : pc'[q] = pc[q] /\ done'[q] = done[q] /\ lag'[q] = lag[q]
  BY Facts DEF CollectDone, TypeOK, local
<1>2. TypeOK'
  BY Facts, LaunchFacts DEF CollectDone, TypeOK, local
<1>3. Alone(r)
  BY <1>1 DEF Alone, Same
<1>4. Phase(r)'
  <2>1. done'[r] \subseteq {s \in Running(r) : worker[r][s] \in Finished}
    BY <1>1, Facts, LaunchFacts DEF Job, Finished
  <2>2. Running(r)' = Running(r)
    BY <1>1, StatusKept
  <2> QED BY <1>1, <2>1, <2>2 DEF Phase, Ended
<1>5. Counted(r)' = Counted(r)
  BY <1>1, StatusKept DEF Counted
<1>6. MaxLag \in Nat
  BY Facts, LaunchFacts
<1>7. Books(r)'
  BY <1>1, <1>4, <1>5, <1>6, Facts, LocalBooks DEF Ended
<1>8. FreeRows' /\ OthersKeep(r)
  BY <1>1, Facts, SweepRows
<1>9. Believed(r)' = Believed(r)
  BY <1>1 DEF Believed, Leaving
<1>10. DistinctIds => Noted(r)'
  BY <1>1, <1>9, Facts, NotedStep
<1>11. ASSUME DistinctIds, Punctual PROVE Holds(r)' /\ Calm(r)'
  <2>1. TTL' = TTL /\ MaxLag' = MaxLag /\ TTL \in Nat /\ MaxLag \in Nat /\ lag[r] \in Nat
    BY <1>1, Facts, LaunchKept, LaunchFacts DEF TypeOK
  <2>2. lag[r] <= MaxLag
    BY <1>1, Facts DEF Books, Ended
  <2>3. ASSUME NEW b \in Believed(r)
        PROVE  table[b[2]].owner = Owner(r, b[1]) /\ table[b[2]].left + 0 + MaxLag >= TTL
    <3>1. /\ table[b[2]].owner = Owner(r, b[1]) /\ table[b[2]].left + lag[r] >= TTL
          /\ table[b[2]].left \in Nat
      BY <1>1, <1>11, Facts, BelievedLive, RowType DEF Holds, Ended
    <3> QED BY <2>1, <2>2, <3>1
  <2>4. Holds(r)'
    BY <1>1, <1>9, <2>1, <2>3 DEF Holds, Owner
  <2> QED BY <1>1, <1>11, <2>4, Facts DEF Calm
<1> QED BY <1>2, <1>3, <1>7, <1>8, <1>10, <1>11, RunStep

LEMMA TryStep == ASSUME IInv, NEW r \in Run, TryNext(r) PROVE IInv'
PROOF
<1>1. PICK s \in Candidates(r) : at' = [at EXCEPT ![r] = s]
  BY DEF TryNext
<1>2. s \in Slice /\ s \in Nat /\ s \in Plan[r] /\ status[r][s] = "pending" /\ CanRun(r, s)
  BY SliceAssumption, Facts, LaunchFacts DEF Candidates
<1>3. /\ pc[r] = "schedule" /\ pc'[r] = "acquire" /\ launch' = launch /\ table' = Swept
      /\ todo' = todo /\ done' = done /\ at'[r] = s
      /\ status' = status /\ attempt' = attempt /\ acquired' = acquired
      /\ worker' = worker /\ completed' = completed /\ byRepo' = byRepo /\ byArea' = byArea
      /\ lag' = lag
      /\ \A q \in Run \ {r} : pc'[q] = pc[q] /\ at'[q] = at[q]
  BY <1>1, Facts DEF TryNext, TypeOK, local
<1>4. table' \in [Lock -> Rows] /\ FreeRows' /\ OthersKeep(r)
  BY <1>3, Facts, SweepRows
<1>5. TypeOK'
  BY <1>1, <1>2, <1>3, <1>4, Facts DEF TryNext, TypeOK, Rows, OwnerId
<1>6. Alone(r)
  BY <1>3 DEF Alone, Same
<1>7. Phase(r)'
  <2>1. acquired[r][s] = {}
    BY <1>2, <1>3, Facts DEF Job
  <2>2. /\ Cardinality(acquired[r][s]) = 0 /\ IsFiniteSet(acquired[r][s])
        /\ Cardinality(acquired[r][s]) < Len(Requests[s])
        /\ acquired[r][s] = {Requests[s][i] : i \in 1..Cardinality(acquired[r][s])}
    <3>1. Cardinality(acquired[r][s]) = 0 /\ IsFiniteSet(acquired[r][s])
      BY <2>1, FS_EmptySet
    <3>2. Len(Requests[s]) \in Nat \ {0}
      BY <1>2, RequestFacts
    <3>3. 1..0 = {}
      OBVIOUS
    <3> QED BY <2>1, <3>1, <3>2, <3>3
  <2>3. CanRun(r, at[r])'
    BY <1>2, <1>3, GatesKept
  <2>4. Running(r)' = Running(r) /\ Plan' = Plan
    BY <1>3, StatusKept, LaunchKept
  <2> QED BY <1>2, <1>3, <2>2, <2>3, <2>4, Facts DEF Phase, Ended
<1>8. Counted(r)' = Counted(r)
  BY <1>3, StatusKept DEF Counted
<1>9. Books(r)'
  BY <1>3, <1>7, <1>8, Facts, LocalBooks DEF Books, Ended
<1>10. Believed(r)' = Believed(r)
  BY <1>3 DEF Believed, Leaving
<1>11. DistinctIds => Noted(r)'
  BY <1>3, <1>10, Facts, NotedStep
<1>12. ASSUME DistinctIds, Punctual PROVE Holds(r)' /\ Calm(r)'
  BY <1>3, <1>10, <1>12, Facts, HoldsStep DEF Calm, Ended
<1> QED BY <1>4, <1>5, <1>6, <1>9, <1>11, <1>12, RunStep

LEMMA DeniedStep == ASSUME IInv, NEW r \in Run, AcquireDenied(r) PROVE IInv'
PROOF
<1>1. /\ pc[r] = "acquire" /\ pc'[r] = "rollback" /\ launch' = launch /\ table' = Swept
      /\ todo'[r] = {at[r]} \X acquired[r][at[r]] /\ done' = done /\ at' = at
      /\ status' = status /\ attempt' = attempt /\ acquired' = acquired
      /\ worker' = worker /\ completed' = completed /\ byRepo' = byRepo /\ byArea' = byArea
      /\ lag' = lag
      /\ \A q \in Run \ {r} : pc'[q] = pc[q] /\ todo'[q] = todo[q]
  BY Facts DEF AcquireDenied, TypeOK, local
<1>2. at[r] \in Plan[r] /\ at[r] \in Slice
  BY <1>1, Facts, LaunchFacts DEF Phase
<1>3. table' \in [Lock -> Rows] /\ FreeRows' /\ OthersKeep(r)
  BY <1>1, Facts, SweepRows
<1>4. {at[r]} \X acquired[r][at[r]] \subseteq Slice \X Lock
  BY <1>2, Facts DEF TypeOK
<1>5. TypeOK'
  BY <1>1, <1>3, <1>4, Facts DEF AcquireDenied, TypeOK, Rows, OwnerId
<1>6. Alone(r)
  BY <1>1 DEF Alone, Same
<1>7. Phase(r)'
  <2>1. Running(r)' = Running(r) /\ Plan' = Plan
    BY <1>1, StatusKept, LaunchKept
  <2> QED BY <1>1, <2>1, Facts DEF Phase, Ended
<1>8. Counted(r)' = Counted(r)
  BY <1>1, StatusKept DEF Counted
<1>9. Books(r)'
  BY <1>1, <1>7, <1>8, Facts, LocalBooks DEF Books, Ended
<1>10. Believed(r)' = Believed(r)
  BY <1>1 DEF Believed, Leaving
<1>11. DistinctIds => Noted(r)'
  BY <1>1, <1>10, Facts, NotedStep
<1>12. ASSUME DistinctIds, Punctual PROVE Holds(r)' /\ Calm(r)'
  BY <1>1, <1>10, <1>12, Facts, HoldsStep DEF Calm, Ended
<1> QED BY <1>3, <1>5, <1>6, <1>9, <1>11, <1>12, RunStep

LEMMA EndPassStep == ASSUME IInv, NEW r \in Run, EndPass(r) PROVE IInv'
PROOF
<1>1. /\ pc[r] = "schedule" /\ launch' = launch /\ table' = table
      /\ \/ pc'[r] = "beat" /\ todo'[r] = HeldBy(r)
         \/ /\ pc'[r] = "returned" /\ todo'[r] = todo[r]
            /\ ~(completed[r] < Cardinality(Plan[r]))
      /\ done' = done /\ at' = at /\ status' = status /\ attempt' = attempt
      /\ acquired' = acquired /\ worker' = worker /\ completed' = completed
      /\ byRepo' = byRepo /\ byArea' = byArea /\ lag' = lag
      /\ \A q \in Run \ {r} : pc'[q] = pc[q] /\ todo'[q] = todo[q]
  BY Facts DEF EndPass, TypeOK, local
<1>2. HeldBy(r) \subseteq Slice \X Lock
  BY Facts, LaunchFacts DEF HeldBy, Running, TypeOK
<1>3. TypeOK'
  BY <1>1, <1>2, Facts, ZenonT(60) DEF EndPass, TypeOK, Ended
<1>4. Alone(r)
  BY <1>1 DEF Alone, Same
<1>5. Phase(r)'
  <2>1. Running(r)' = Running(r) /\ HeldBy(r)' = HeldBy(r) /\ Plan' = Plan
    BY <1>1, StatusKept, HeldKept, LaunchKept
  <2>2. completed[r] \in Nat /\ Cardinality(Plan[r]) \in Nat
    BY Facts, JobSets, Finite DEF TypeOK
  <2>3. pc'[r] = "returned" => completed'[r] >= Cardinality(Plan[r])
    BY <1>1, <2>2
  <2> QED BY <1>1, <2>1, <2>3, Facts DEF Phase, Ended
<1>6. Counted(r)' = Counted(r)
  BY <1>1, StatusKept DEF Counted
<1>7. Books(r)'
  BY <1>1, <1>5, <1>6, Facts, LocalBooks DEF Books, Ended
<1>8. FreeRows' /\ OthersKeep(r)
  BY <1>1, Facts, SweepRows
<1>9. Believed(r)' = Believed(r)
  BY <1>1 DEF Believed, Leaving
<1>10. DistinctIds => Noted(r)'
  BY <1>1, <1>9, Facts, NotedStep
<1>11. ASSUME DistinctIds, Punctual PROVE Holds(r)' /\ Calm(r)'
  <2>1. CASE pc'[r] = "beat"
    <3>1. Believed(r) \subseteq HeldBy(r)
      BY <1>1, Facts, LaunchFacts DEF Believed, HeldBy, Job, Running
    <3>2. Holds(r)'
      BY <1>1, <1>9, <1>11, <2>1, <3>1, Facts, HoldsStep DEF Ended
    <3> QED BY <1>1, <1>11, <2>1, <3>2, Facts DEF Calm
  <2>2. CASE pc'[r] = "returned"
    BY <1>1, <1>11, <2>2, Facts DEF Holds, Calm, Ended
  <2> QED BY <1>1, <2>1, <2>2
<1> QED BY <1>3, <1>4, <1>7, <1>8, <1>10, <1>11, RunStep

-----------------------------------------------------------------------------
(***************************************************************************)
(* Counting jobs.                                                          *)
(***************************************************************************)
LEMMA Fewer ==
    ASSUME NEW T \in SUBSET Slice, NEW S \in SUBSET T, NEW x
    PROVE  /\ Cardinality(InRepo(S, x)) \in Nat /\ Cardinality(InRepo(T, x)) \in Nat
           /\ Cardinality(InArea(S, x)) \in Nat /\ Cardinality(InArea(T, x)) \in Nat
           /\ Cardinality(InRepo(S, x)) <= Cardinality(InRepo(T, x))
           /\ Cardinality(InArea(S, x)) <= Cardinality(InArea(T, x))
PROOF
<1>1. /\ InRepo(T, x) \in SUBSET Slice /\ InArea(T, x) \in SUBSET Slice
      /\ InRepo(S, x) \in SUBSET InRepo(T, x) /\ InArea(S, x) \in SUBSET InArea(T, x)
  BY DEF InRepo, InArea
<1>2. InRepo(S, x) \in SUBSET Slice /\ InArea(S, x) \in SUBSET Slice
  BY <1>1
<1> QED BY <1>1, <1>2, Finite, FS_Subset

LEMMA Without ==
    ASSUME NEW S \in SUBSET Slice, NEW s \in S, NEW x
    PROVE  /\ Cardinality(InRepo(S \ {s}, x)) =
                IF RepoOf[s] = x THEN Cardinality(InRepo(S, x)) - 1 ELSE Cardinality(InRepo(S, x))
           /\ RepoOf[s] = x => Cardinality(InRepo(S, x)) > 0
           /\ Cardinality(InArea(S \ {s}, x)) =
                IF x \in HotAreas[s] THEN Cardinality(InArea(S, x)) - 1
                ELSE Cardinality(InArea(S, x))
           /\ x \in HotAreas[s] => Cardinality(InArea(S, x)) > 0
PROOF
<1>1. InRepo(S, x) \in SUBSET Slice /\ InArea(S, x) \in SUBSET Slice
  BY DEF InRepo, InArea
<1>2. /\ IsFiniteSet(InRepo(S, x)) /\ Cardinality(InRepo(S, x)) \in Nat
      /\ IsFiniteSet(InArea(S, x)) /\ Cardinality(InArea(S, x)) \in Nat
  BY <1>1, Finite
<1>3. /\ InRepo(S \ {s}, x) = InRepo(S, x) \ {s} /\ InArea(S \ {s}, x) = InArea(S, x) \ {s}
      /\ s \in InRepo(S, x) <=> RepoOf[s] = x
      /\ s \in InArea(S, x) <=> x \in HotAreas[s]
  BY DEF InRepo, InArea
<1>4. /\ RepoOf[s] = x => InRepo(S, x) # {}
      /\ x \in HotAreas[s] => InArea(S, x) # {}
  BY <1>3
<1>5. /\ RepoOf[s] = x => Cardinality(InRepo(S, x)) > 0
      /\ x \in HotAreas[s] => Cardinality(InArea(S, x)) > 0
  BY <1>2, <1>4, FS_EmptySet
<1>6. Cardinality(InRepo(S, x) \ {s}) =
        IF s \in InRepo(S, x) THEN Cardinality(InRepo(S, x)) - 1 ELSE Cardinality(InRepo(S, x))
  BY <1>2, FS_RemoveElement
<1>7. Cardinality(InArea(S, x) \ {s}) =
        IF s \in InArea(S, x) THEN Cardinality(InArea(S, x)) - 1 ELSE Cardinality(InArea(S, x))
  BY <1>2, FS_RemoveElement
<1> QED BY <1>3, <1>5, <1>6, <1>7

LEMMA With ==
    ASSUME NEW S \in SUBSET Slice, NEW s \in Slice, s \notin S, NEW x
    PROVE  /\ Cardinality(InRepo(S \cup {s}, x)) =
                IF RepoOf[s] = x THEN Cardinality(InRepo(S, x)) + 1 ELSE Cardinality(InRepo(S, x))
           /\ Cardinality(InArea(S \cup {s}, x)) =
                IF x \in HotAreas[s] THEN Cardinality(InArea(S, x)) + 1
                ELSE Cardinality(InArea(S, x))
PROOF
<1>1. InRepo(S, x) \in SUBSET Slice /\ InArea(S, x) \in SUBSET Slice
  BY DEF InRepo, InArea
<1>2. IsFiniteSet(InRepo(S, x)) /\ IsFiniteSet(InArea(S, x))
  BY <1>1, Finite
<1>3. /\ InRepo(S \cup {s}, x) = IF RepoOf[s] = x THEN InRepo(S, x) \cup {s} ELSE InRepo(S, x)
      /\ InArea(S \cup {s}, x) = IF x \in HotAreas[s] THEN InArea(S, x) \cup {s} ELSE InArea(S, x)
      /\ s \notin InRepo(S, x) /\ s \notin InArea(S, x)
  BY DEF InRepo, InArea
<1>4. /\ Cardinality(InRepo(S, x) \cup {s}) = Cardinality(InRepo(S, x)) + 1
      /\ Cardinality(InArea(S, x) \cup {s}) = Cardinality(InArea(S, x)) + 1
  BY <1>2, <1>3, FS_AddElement
<1> QED BY <1>3, <1>4

LEMMA WithInRepo ==
    ASSUME NEW S \in SUBSET Slice, NEW s \in Slice, s \notin S, NEW p \in Repo
    PROVE  /\ RepoOf[s] = p => Cardinality(InRepo(S \cup {s}, p)) = Cardinality(InRepo(S, p)) + 1
           /\ RepoOf[s] # p => Cardinality(InRepo(S \cup {s}, p)) = Cardinality(InRepo(S, p))
PROOF
<1>1. IsFiniteSet(InRepo(S, p)) /\ s \notin InRepo(S, p)
  <2>1. InRepo(S, p) \in SUBSET Slice
    BY DEF InRepo
  <2>2. s \notin InRepo(S, p)
    BY DEF InRepo
  <2> QED BY <2>1, <2>2, Finite
<1>2. Cardinality(InRepo(S, p) \cup {s}) = Cardinality(InRepo(S, p)) + 1
  BY <1>1, FS_AddElement
<1>3. RepoOf[s] = p => InRepo(S \cup {s}, p) = InRepo(S, p) \cup {s}
  BY DEF InRepo
<1>4. RepoOf[s] # p => InRepo(S \cup {s}, p) = InRepo(S, p)
  BY DEF InRepo
<1> QED BY <1>2, <1>3, <1>4

LEMMA Pairs ==
    ASSUME NEW s, NEW A, A # {}
    PROVE  /\ {s} \X A # {} /\ {b[1] : b \in {s} \X A} = {s}
           /\ \A T \in SUBSET ({s} \X A) : T # {} => {b[1] : b \in T} = {s}
PROOF
<1>1. {s} \X A # {}
  <2>1. PICK l \in A : TRUE
    OBVIOUS
  <2>2. <<s, l>> \in {s} \X A
    OBVIOUS
  <2> QED BY <2>2
<1>2. ASSUME NEW T \in SUBSET ({s} \X A), T # {} PROVE {b[1] : b \in T} = {s}
  <2>1. \A b \in T : b[1] = s
    OBVIOUS
  <2>2. PICK c \in T : TRUE
    BY <1>2
  <2> QED BY <2>1, <2>2
<1>3. {b[1] : b \in {s} \X A} = {s}
  BY <1>1, <1>2
<1> QED BY <1>1, <1>2, <1>3

-----------------------------------------------------------------------------
(***************************************************************************)
(* A future is looked at, its locks are given back, the job is concluded.  *)
(***************************************************************************)
LEMMA ResultStep == ASSUME IInv, NEW r \in Run, ResultReturns(r) PROVE IInv'
PROOF
<1>1. PICK s \in done[r] :
        /\ byRepo' = [byRepo EXCEPT ![r][RepoOf[s]] = IF @ = 0 THEN 0 ELSE @ - 1]
        /\ byArea' = [byArea EXCEPT ![r] = [a \in Area |->
                        IF a \in HotAreas[s] /\ @[a] > 0 THEN @[a] - 1 ELSE @[a]]]
        /\ done' = [done EXCEPT ![r] = @ \ {s}]
        /\ todo' = [todo EXCEPT ![r] = {s} \X acquired[r][s]]
        /\ pc' = [pc EXCEPT ![r] = "release"]
  BY DEF ResultReturns
<1>2. /\ pc[r] = "finalize" /\ pc'[r] = "release" /\ launch' = launch /\ table' = table
      /\ todo'[r] = {s} \X acquired[r][s] /\ done'[r] = done[r] \ {s}
      /\ at' = at /\ status' = status /\ attempt' = attempt /\ acquired' = acquired
      /\ worker' = worker /\ completed' = completed /\ lag' = lag
      /\ \A q \in Run \ {r} : /\ pc'[q] = pc[q] /\ todo'[q] = todo[q] /\ done'[q] = done[q]
                              /\ byRepo'[q] = byRepo[q] /\ byArea'[q] = byArea[q]
  BY <1>1, Facts DEF ResultReturns, TypeOK
<1>3. /\ s \in Running(r) /\ worker[r][s] \in Finished /\ s \in Slice
      /\ status[r][s] = "running" /\ acquired[r][s] = ToSet(Requests[s])
      /\ acquired[r][s] # {} /\ acquired[r][s] \subseteq Lock
  BY Facts, JobSets, RequestFacts DEF Phase, Running, Job
<1>4. /\ \A p \in Repo : byRepo'[r][p] = IF p = RepoOf[s] /\ byRepo[r][p] > 0
                                         THEN byRepo[r][p] - 1 ELSE byRepo[r][p]
      /\ \A a \in Area : byArea'[r][a] = IF a \in HotAreas[s] /\ byArea[r][a] > 0
                                         THEN byArea[r][a] - 1 ELSE byArea[r][a]
  <2>1. RepoOf[s] \in Repo /\ byRepo[r] \in [Repo -> Nat] /\ byArea[r] \in [Area -> Nat]
    BY <1>3, SliceAssumption, Facts DEF TypeOK
  <2>2. byRepo'[r] = [byRepo[r] EXCEPT ![RepoOf[s]] = IF @ = 0 THEN 0 ELSE @ - 1]
    BY <1>1, Facts DEF TypeOK
  <2>3. byArea'[r] = [a \in Area |-> IF a \in HotAreas[s] /\ byArea[r][a] > 0
                                     THEN byArea[r][a] - 1 ELSE byArea[r][a]]
    BY <1>1, Facts DEF TypeOK
  <2>4. ASSUME NEW p \in Repo
        PROVE  byRepo'[r][p] = IF p = RepoOf[s] /\ byRepo[r][p] > 0
                               THEN byRepo[r][p] - 1 ELSE byRepo[r][p]
    BY <2>1, <2>2
  <2> QED BY <2>3, <2>4
<1>5. TypeOK'
  <2>1. byRepo[r] \in [Repo -> Nat] /\ byArea[r] \in [Area -> Nat]
    BY Facts DEF TypeOK
  <2>2. byRepo'[r] = [p \in Repo |-> byRepo'[r][p]] /\ byArea'[r] = [a \in Area |-> byArea'[r][a]]
    BY <1>1, Facts DEF TypeOK
  <2>3. \A p \in Repo : byRepo'[r][p] \in Nat
    BY <1>4, <2>1
  <2>4. \A a \in Area : byArea'[r][a] \in Nat
    BY <1>4, <2>1
  <2>5. byRepo'[r] \in [Repo -> Nat] /\ byArea'[r] \in [Area -> Nat]
    BY <2>2, <2>3, <2>4
  <2>6. byRepo' \in [Run -> [Repo -> Nat]] /\ byArea' \in [Run -> [Area -> Nat]]
    BY <1>1, <1>2, <2>5, Facts DEF TypeOK
  <2>7. {s} \X acquired[r][s] \subseteq Slice \X Lock
    BY <1>3
  <2> QED BY <1>1, <1>2, <2>6, <2>7, Facts DEF TypeOK
<1>6. Alone(r)
  BY <1>2 DEF Alone, Same
<1>7. Phase(r)'
  <2>1. Running(r)' = Running(r)
    BY <1>2, StatusKept
  <2>2. {s} \X acquired[r][s] # {}
    BY <1>3, Pairs
  <2> QED BY <1>2, <1>3, <2>1, <2>2, Facts DEF Phase, Ended
<1>8. Counted(r) = Running(r) /\ Counted(r)' = Running(r) \ {s}
  <2>1. {b[1] : b \in {s} \X acquired[r][s]} = {s}
    BY <1>3, Pairs
  <2> QED BY <1>2, <2>1, StatusKept DEF Counted
<1>9. Counts(r)'
  <2>1. /\ \A p \in Repo : byRepo'[r][p] = Cardinality(InRepo(Running(r) \ {s}, p))
        /\ \A a \in Area : byArea'[r][a] = Cardinality(InArea(Running(r) \ {s}, a))
    <3>1. /\ \A p \in Repo : byRepo[r][p] = Cardinality(InRepo(Running(r), p))
          /\ \A a \in Area : byArea[r][a] = Cardinality(InArea(Running(r), a))
      BY <1>2, <1>8, Facts DEF Books, Counts, Ended
    <3>2. \A p \in Repo : byRepo'[r][p] = Cardinality(InRepo(Running(r) \ {s}, p))
      BY <1>3, <1>4, <3>1, Without, Facts, JobSets
    <3>3. \A a \in Area : byArea'[r][a] = Cardinality(InArea(Running(r) \ {s}, a))
      BY <1>3, <1>4, <3>1, Without, Facts, JobSets
    <3> QED BY <3>2, <3>3
  <2>2. OnPool(r)' = OnPool(r) /\ SettledJobs(r)' = SettledJobs(r)
    BY <1>2, PoolKept, StatusKept
  <2> QED BY <1>2, <1>8, <2>1, <2>2, Facts DEF Books, Counts, InRepo, InArea
<1>10. Books(r)'
  <2>1. Apart(r)'
    BY <1>2, Facts, StatusKept DEF Books
  <2>2. ASSUME NEW t \in Slice PROVE Job(r, t)'
    <3>1. status[r][t] = "running" \/ acquired[r][t] = {}
      BY <1>2, Facts DEF Job
    <3> QED BY <1>2, <3>1, Facts, JobKept
  <2>3. \A t \in Slice : t \in Plan[r]' => Justified(r, t)'
    BY <1>2, Facts, JustifiedKept, LaunchKept DEF Books
  <2>4. lag'[r] <= MaxLag'
    BY <1>2, Facts, LaunchKept DEF Books, Ended
  <2> QED BY <1>7, <1>9, <2>1, <2>2, <2>3, <2>4 DEF Books
<1>11. FreeRows' /\ OthersKeep(r)
  BY <1>2, Facts, SweepRows
<1>12. Believed(r)' = Believed(r)
  <2>1. Leaving(r) = {} /\ Leaving(r)' = {s}
    <3>1. {b[1] : b \in {s} \X acquired[r][s]} = {s}
      BY <1>3, Pairs
    <3> QED BY <1>2, <3>1 DEF Leaving
  <2> QED BY <1>2, <2>1 DEF Believed
<1>13. DistinctIds => Noted(r)'
  BY <1>2, <1>12, Facts, NotedStep
<1>14. ASSUME DistinctIds, Punctual PROVE Holds(r)' /\ Calm(r)'
  BY <1>2, <1>12, <1>14, Facts, HoldsStep DEF Calm, Ended
<1> QED BY <1>5, <1>6, <1>10, <1>11, <1>13, <1>14, RunStep

\* A row is given back, and forgotten.
LEMMA GiveBack ==
    ASSUME IInv, NEW r \in Run, launch' = launch, NEW b \in Believed(r), b \in todo[r],
           CanRelease(r, b[1], b[2]), table' = Released(b[2]),
           pc[r] \notin Ended, pc'[r] # "beat", lag' = lag,
           Believed(r)' = Believed(r) \ {b}
    PROVE  /\ table' \in [Lock -> Rows] /\ FreeRows' /\ OthersKeep(r)
           /\ DistinctIds => Noted(r)'
           /\ DistinctIds /\ Punctual => Holds(r)'
PROOF
<1>1. b[1] \in Slice /\ b[2] \in Lock /\ b = <<b[1], b[2]>>
  BY DEF Believed
<1>2. /\ table' \in [Lock -> Rows] /\ FreeRows' /\ OthersKeep(r)
      /\ table'[b[2]].owner = None
      /\ \A k \in Lock \ {b[2]} : table'[k] = table[k]
  BY <1>1, Facts, ReleaseRows
<1>3. ASSUME DistinctIds PROVE Noted(r)'
  <2>1. ASSUME NEW s \in Slice, NEW l \in Lock, table'[l].owner = Owner(r, s)
        PROVE  <<s, l>> \in Believed(r) \ {b}
    <3>1. l # b[2]
      BY <1>2, <2>1, OwnerType
    <3>2. table[l].owner = Owner(r, s)
      BY <1>2, <2>1, <3>1
    <3> QED BY <1>1, <1>3, <3>1, <3>2, Facts DEF Noted
  <2> QED BY <2>1 DEF Noted, Owner
<1>4. ASSUME DistinctIds, Punctual PROVE Holds(r)'
  <2>1. TTL' = TTL /\ MaxLag' = MaxLag
    BY LaunchKept
  <2>2. ASSUME NEW c \in Believed(r) \ {b} PROVE table'[c[2]] = table[c[2]]
    <3>1. /\ c[1] \in Slice /\ c[2] \in Lock /\ c = <<c[1], c[2]>>
          /\ table[c[2]].owner = Owner(r, c[1]) /\ table[b[2]].owner = Owner(r, b[1])
      BY <1>4, Facts, BelievedLive DEF Believed
    <3>2. c[2] # b[2]
      BY <1>1, <3>1 DEF Owner
    <3> QED BY <1>2, <3>1, <3>2
  <2> QED BY <1>4, <2>1, <2>2, Facts DEF Holds, Owner
<1> QED BY <1>2, <1>3, <1>4

\* One lock of several.
LEMMA ReleaseOneStep ==
    ASSUME IInv, NEW r \in Run, NEW b \in todo[r], pc[r] = "release", ReleaseLock(r),
           CanRelease(r, b[1], b[2]), table' = Released(b[2]),
           todo' = [todo EXCEPT ![r] = @ \ {b}], todo[r] # {b},
           UNCHANGED <<pc, status, completed, acquired, worker>>
    PROVE  IInv'
PROOF
<1>1. /\ launch' = launch /\ pc' = pc /\ done' = done /\ at' = at /\ status' = status
      /\ attempt' = attempt /\ acquired' = acquired /\ worker' = worker
      /\ completed' = completed /\ byRepo' = byRepo /\ byArea' = byArea /\ lag' = lag
      /\ todo'[r] = todo[r] \ {b} /\ \A q \in Run \ {r} : todo'[q] = todo[q]
  BY Facts DEF ReleaseLock, TypeOK
<1>2. PICK s \in Running(r) \ done[r] :
        worker[r][s] \in Finished /\ todo[r] # {} /\ todo[r] \subseteq {s} \X acquired[r][s]
  BY Facts DEF Phase
<1>3. todo'[r] # {} /\ todo'[r] \subseteq {s} \X acquired[r][s]
  BY <1>1, <1>2
<1>4. {x[1] : x \in todo[r]} = {s} /\ {x[1] : x \in todo'[r]} = {s}
  <2>1. acquired[r][s] # {}
    BY <1>2
  <2> QED BY <1>2, <1>3, <2>1, Pairs
<1>5. Leaving(r) = {s} /\ Leaving(r)' = {s}
  BY <1>1, <1>4 DEF Leaving
<1>6. /\ b = <<b[1], b[2]>> /\ b[1] = s /\ b[2] \in acquired[r][s]
      /\ b \in Slice \X Lock
  BY <1>2, Facts DEF TypeOK
<1>7. b \in Believed(r) /\ Believed(r)' = Believed(r) \ {b}
  BY <1>1, <1>5, <1>6 DEF Believed
<1>8. /\ table' \in [Lock -> Rows] /\ FreeRows' /\ OthersKeep(r)
      /\ DistinctIds => Noted(r)'
      /\ DistinctIds /\ Punctual => Holds(r)'
  BY <1>1, <1>7, GiveBack DEF Ended
<1>9. TypeOK'
  BY <1>1, <1>8, Facts DEF TypeOK, Rows, OwnerId
<1>10. Alone(r)
  BY <1>1 DEF Alone, Same
<1>11. Phase(r)'
  <2>1. Running(r)' = Running(r)
    BY <1>1, StatusKept
  <2> QED BY <1>1, <1>2, <1>3, <2>1, Facts DEF Phase, Ended
<1>12. Counted(r)' = Counted(r)
  BY <1>1, <1>4, StatusKept DEF Counted
<1>13. Books(r)'
  BY <1>1, <1>11, <1>12, Facts, LocalBooks DEF Books, Ended
<1>14. DistinctIds /\ Punctual => Calm(r)'
  BY <1>1, Facts DEF Calm
<1> QED BY <1>8, <1>9, <1>10, <1>13, <1>14, RunStep

\* The last lock of the job: its outcome is put on record.
LEMMA ConcludeStep ==
    ASSUME IInv, NEW r \in Run, NEW b \in todo[r], pc[r] = "release", ReleaseLock(r),
           CanRelease(r, b[1], b[2]), table' = Released(b[2]),
           todo' = [todo EXCEPT ![r] = @ \ {b}], todo[r] = {b}, Conclude(r, b[1])
    PROVE  IInv'
PROOF
<1>1. PICK s \in Running(r) \ done[r] :
        worker[r][s] \in Finished /\ todo[r] \subseteq {s} \X acquired[r][s]
  BY Facts DEF Phase
<1>2. /\ b = <<b[1], b[2]>> /\ b[1] = s /\ b[2] \in acquired[r][s] /\ b \in Slice \X Lock
      /\ s \in Slice /\ s \in Plan[r] /\ status[r][s] = "running"
      /\ attempt[r][s] \in 1..(MaxRetries + 1)
  BY <1>1, Facts, JobSets DEF TypeOK, Running, Job
<1>3. PICK outcome \in {"passed", "failed", "pending"} :
        /\ outcome = IF worker[r][s] = "rc0" THEN "passed"
                     ELSE IF Exhausted(r, s) THEN "failed" ELSE "pending"
        /\ status' = [status EXCEPT ![r][s] = outcome]
        /\ completed' = [completed EXCEPT ![r] = IF outcome = "pending" THEN @ ELSE @ + 1]
        /\ acquired' = [acquired EXCEPT ![r][s] = {}]
        /\ worker' = [worker EXCEPT ![r][s] = "none"]
        /\ pc' = [pc EXCEPT ![r] = "finalize"]
  BY <1>2 DEF Conclude
<1>4. /\ pc'[r] = "finalize" /\ launch' = launch /\ todo'[r] = {} /\ done' = done /\ at' = at
      /\ attempt' = attempt /\ byRepo' = byRepo /\ byArea' = byArea /\ lag' = lag
      /\ status'[r][s] = outcome /\ acquired'[r][s] = {} /\ worker'[r][s] = "none"
      /\ completed'[r] = IF outcome = "pending" THEN completed[r] ELSE completed[r] + 1
      /\ \A t \in Slice \ {s} : /\ status'[r][t] = status[r][t] /\ worker'[r][t] = worker[r][t]
                                /\ acquired'[r][t] = acquired[r][t]
      /\ \A q \in Run \ {r} :
           /\ pc'[q] = pc[q] /\ todo'[q] = todo[q] /\ status'[q] = status[q]
           /\ completed'[q] = completed[q] /\ acquired'[q] = acquired[q] /\ worker'[q] = worker[q]
  BY <1>2, <1>3, Facts DEF ReleaseLock, TypeOK
<1>5. /\ outcome = "pending" => attempt[r][s] <= MaxRetries
      /\ outcome = "failed" => attempt[r][s] = MaxRetries + 1
  <2>1. attempt[r][s] \in Nat /\ MaxRetries \in Nat
    BY <1>2, Facts, LaunchFacts DEF TypeOK
  <2>2. outcome = "pending" => ~(attempt[r][s] >= MaxRetries + 1)
    BY <1>3 DEF Exhausted
  <2>3. outcome = "failed" => attempt[r][s] >= MaxRetries + 1
    BY <1>3 DEF Exhausted
  <2>4. attempt[r][s] <= MaxRetries + 1
    BY <1>2, <2>1
  <2>5. ~(attempt[r][s] >= MaxRetries + 1) => attempt[r][s] <= MaxRetries
    BY <2>1
  <2>6. attempt[r][s] >= MaxRetries + 1 => attempt[r][s] = MaxRetries + 1
    BY <2>1, <2>4
  <2> QED BY <2>2, <2>3, <2>5, <2>6
<1>6. {x[1] : x \in todo[r]} = {s}
  BY <1>2
<1>7. b \in Believed(r) /\ Believed(r)' = Believed(r) \ {b}
  <2>1. Leaving(r) = {s} /\ Leaving(r)' = {}
    BY <1>4, <1>6 DEF Leaving
  <2>2. b \in Believed(r)
    BY <1>2, <2>1 DEF Believed
  <2>3. ASSUME NEW x \in Slice \X Lock PROVE x \in Believed(r)' <=> x \in Believed(r) \ {b}
    <3>1. x = <<x[1], x[2]>> /\ x[1] \in Slice
      OBVIOUS
    <3>2. CASE x[1] = s
      BY <1>2, <1>4, <2>1, <3>1, <3>2 DEF Believed
    <3>3. CASE x[1] # s
      BY <1>2, <1>4, <2>1, <3>1, <3>3 DEF Believed
    <3> QED BY <3>2, <3>3
  <2>4. Believed(r)' \subseteq Slice \X Lock /\ Believed(r) \subseteq Slice \X Lock
    BY DEF Believed
  <2> QED BY <2>2, <2>3, <2>4
<1>8. /\ table' \in [Lock -> Rows] /\ FreeRows' /\ OthersKeep(r)
      /\ DistinctIds => Noted(r)'
      /\ DistinctIds /\ Punctual => Holds(r)'
  BY <1>4, <1>7, GiveBack DEF Ended
<1>9. TypeOK'
  <2>1. outcome \in {"pending", "running"} \cup Settled
    BY DEF Settled
  <2>2. completed' \in [Run -> Nat]
    BY <1>3, Facts DEF TypeOK
  <2>3. status' \in [Run -> [Slice -> {"pending", "running"} \cup Settled]]
    BY <1>3, <2>1, Facts DEF TypeOK
  <2> QED BY <1>3, <1>4, <1>8, <2>2, <2>3, Facts DEF TypeOK, Rows, OwnerId
<1>10. Alone(r)
  BY <1>4 DEF Alone, Same
<1>11. Plan' = Plan /\ MaxRetries' = MaxRetries
  BY <1>4, LaunchKept
<1>12. Running(r)' = Running(r) \ {s}
  BY <1>2, <1>4, <1>11, Facts, LaunchFacts DEF Running
<1>13. Phase(r)'
  <2>1. done'[r] \subseteq {t \in Running(r)' : worker'[r][t] \in Finished}
    BY <1>1, <1>4, <1>12, Facts, JobSets DEF Phase
  <2> QED BY <1>4, <2>1 DEF Phase, Ended
<1>14. Apart(r)'
  BY <1>12, Facts DEF Books, Apart
<1>15. ASSUME NEW t \in Slice PROVE Job(r, t)'
  <2>1. CASE t = s
    BY <1>2, <1>4, <1>5, <1>11, <2>1 DEF Job
  <2>2. CASE t # s
    <3>1. status[r][t] = "running" \/ acquired[r][t] = {}
      BY Facts DEF Job
    <3>2. /\ status'[r][t] = status[r][t] /\ worker'[r][t] = worker[r][t]
          /\ acquired'[r][t] = acquired[r][t] /\ attempt'[r][t] = attempt[r][t]
      BY <1>4, <2>2
    <3> QED BY <1>4, <3>1, <3>2, Facts, JobKept
  <2> QED BY <2>1, <2>2
<1>16. ASSUME NEW t \in Slice, t \in Plan[r] PROVE Justified(r, t)'
  <2>1. Parents(r, t)' = Parents(r, t) /\ Parents(r, t) \subseteq Slice
    BY <1>11, Facts, LaunchFacts DEF Parents
  <2>2. Justified(r, t)
    BY <1>16, Facts DEF Books
  <2>3. attempt[r][t] > 0 => s \notin Parents(r, t)
    BY <1>2, <2>2 DEF Justified
  <2>4. attempt'[r][t] > 0 => \A p \in Parents(r, t) : status'[r][p] = "passed"
    BY <1>4, <2>1, <2>2, <2>3 DEF Justified
  <2>5. CASE t = s
    BY <1>4, <1>5, <1>11, <2>1, <2>4, <2>5 DEF Justified
  <2>6. CASE t # s
    <3>1. status'[r][t] = status[r][t]
      BY <1>4, <2>6
    <3>2. ASSUME NEW p \in Parents(r, t), status[r][p] \in {"failed", "blocked"}
          PROVE  status'[r][p] \in {"failed", "blocked"}
      BY <1>2, <1>4, <2>1, <3>2
    <3> QED BY <1>4, <1>11, <2>1, <2>2, <2>4, <3>1, <3>2 DEF Justified
  <2> QED BY <2>5, <2>6
<1>17. Counts(r)'
  <2>1. completed'[r] = Cardinality(SettledJobs(r)')
    <3>1. s \notin SettledJobs(r) /\ completed[r] = Cardinality(SettledJobs(r))
          /\ IsFiniteSet(SettledJobs(r))
      BY <1>2, Facts, JobSets, Finite DEF Books, Counts, SettledJobs, Settled
    <3>2. CASE outcome = "pending"
      <4>1. SettledJobs(r)' = SettledJobs(r)
        BY <1>2, <1>4, <1>11, <3>2, Facts, LaunchFacts DEF SettledJobs, Settled
      <4> QED BY <1>4, <3>1, <3>2, <4>1
    <3>3. CASE outcome # "pending"
      <4>1. SettledJobs(r)' = SettledJobs(r) \cup {s}
        BY <1>2, <1>4, <1>11, <3>3, Facts, LaunchFacts DEF SettledJobs, Settled
      <4>2. Cardinality(SettledJobs(r) \cup {s}) = Cardinality(SettledJobs(r)) + 1
        BY <3>1, FS_AddElement
      <4>3. completed'[r] = completed[r] + 1
        BY <1>4, <3>3
      <4> QED BY <3>1, <4>1, <4>2, <4>3
    <3> QED BY <3>2, <3>3
  <2>2. Counted(r)' = Counted(r)
    BY <1>4, <1>6, <1>12 DEF Counted
  <2>3. OnPool(r)' = OnPool(r)
    BY <1>1, <1>2, <1>4, <1>11, Facts, LaunchFacts DEF OnPool, Active, Finished
  <2> QED BY <1>4, <2>1, <2>2, <2>3, Facts DEF Books, Counts, InRepo, InArea, Ended
<1>18. Books(r)'
  BY <1>4, <1>11, <1>13, <1>14, <1>15, <1>16, <1>17, Facts, LaunchKept DEF Books, Ended
<1>19. DistinctIds /\ Punctual => Calm(r)'
  BY <1>2, <1>4, Facts DEF Calm
<1> QED BY <1>8, <1>9, <1>10, <1>18, <1>19, RunStep

LEMMA ReleaseStep == ASSUME IInv, NEW r \in Run, ReleaseLock(r) PROVE IInv'
PROOF
<1>1. PICK b \in todo[r] :
        /\ CanRelease(r, b[1], b[2])
        /\ table' = Released(b[2])
        /\ todo' = [todo EXCEPT ![r] = @ \ {b}]
        /\ IF todo[r] = {b} THEN Conclude(r, b[1])
           ELSE UNCHANGED <<pc, status, completed, acquired, worker>>
  BY DEF ReleaseLock
<1>2. pc[r] = "release"
  BY DEF ReleaseLock
<1>3. CASE todo[r] = {b}
  BY <1>1, <1>2, <1>3, ConcludeStep
<1>4. CASE todo[r] # {b}
  BY <1>1, <1>2, <1>4, ReleaseOneStep
<1> QED BY <1>3, <1>4


-----------------------------------------------------------------------------
(***************************************************************************)
(* The jobs that are blocked.                                              *)
(***************************************************************************)
LEMMA BlockedFacts ==
    ASSUME NEW r \in Run
    PROVE  /\ \A s \in BlockedNow(r) :
                /\ s \in Plan[r] /\ status[r][s] = "pending"
                /\ \E p \in Parents(r, s) :
                     status[r][p] \in {"failed", "blocked"} \/ p \in BlockedNow(r)
PROOF
<1> DEFINE Founded(B) ==
             \A s \in B : \E p \in Parents(r, s) :
                 status[r][p] \in {"failed", "blocked"} \/ (p < s /\ p \in B)
           All == {B \in SUBSET {s \in Plan[r] : status[r][s] = "pending"} : Founded(B)}
<1>1. BlockedNow(r) = UNION All
  BY DEF BlockedNow
<1>2. ASSUME NEW s \in BlockedNow(r)
      PROVE  /\ s \in Plan[r] /\ status[r][s] = "pending"
             /\ \E p \in Parents(r, s) :
                  status[r][p] \in {"failed", "blocked"} \/ p \in BlockedNow(r)
  <2>1. PICK B \in All : s \in B
    BY <1>1
  <2>2. PICK p \in Parents(r, s) : status[r][p] \in {"failed", "blocked"} \/ (p < s /\ p \in B)
    BY <2>1
  <2>3. p \in B => p \in BlockedNow(r)
    BY <1>1, <2>1
  <2> QED BY <2>1, <2>2, <2>3
<1> QED BY <1>2

LEMMA MarkBlockedStep == ASSUME IInv, NEW r \in Run, MarkBlocked(r) PROVE IInv'
PROOF
<1> DEFINE B == BlockedNow(r)
<1>1. \A s \in B : /\ s \in Plan[r] /\ status[r][s] = "pending"
                   /\ \E p \in Parents(r, s) : status[r][p] \in {"failed", "blocked"} \/ p \in B
  BY BlockedFacts
<1>2. /\ status' = [status EXCEPT ![r] = [s \in Slice |-> IF s \in B THEN "blocked" ELSE @[s]]]
      /\ completed' = [completed EXCEPT ![r] = @ + Cardinality(B)]
  BY DEF MarkBlocked
<1> HIDE DEF B
<1>3. Plan[r] \subseteq Slice /\ B \in SUBSET Slice /\ IsFiniteSet(B) /\ Cardinality(B) \in Nat
  BY <1>1, Facts, JobSets, Finite
<1>4. /\ pc[r] = "finalize" /\ done[r] = {} /\ todo[r] = {} /\ pc'[r] = "schedule"
      /\ launch' = launch /\ table' = table /\ todo' = todo /\ done' = done
      /\ attempt' = attempt /\ acquired' = acquired /\ worker' = worker
      /\ byRepo' = byRepo /\ byArea' = byArea /\ lag' = lag
      /\ \A s \in Slice : status'[r][s] = IF s \in B THEN "blocked" ELSE status[r][s]
      /\ completed'[r] = completed[r] + Cardinality(B)
      /\ \A q \in Run \ {r} : /\ pc'[q] = pc[q] /\ at'[q] = at[q] /\ status'[q] = status[q]
                              /\ completed'[q] = completed[q]
  BY <1>2, Facts DEF MarkBlocked, TypeOK, Phase
<1>5. TypeOK'
  <2>1. completed' \in [Run -> Nat]
    BY <1>2, <1>3, Facts DEF TypeOK
  <2>2. "blocked" \in {"pending", "running"} \cup Settled
    BY DEF Settled
  <2>3. [s \in Slice |-> IF s \in B THEN "blocked" ELSE status[r][s]]
          \in [Slice -> {"pending", "running"} \cup Settled]
    BY <2>2, Facts DEF TypeOK
  <2>4. status' \in [Run -> [Slice -> {"pending", "running"} \cup Settled]]
    BY <1>2, <2>3, Facts DEF TypeOK
  <2>5. at' \in [Run -> Nat]
    BY Facts DEF TypeOK, MarkBlocked
  <2>6. pc' \in [Run -> {"beat", "finalize", "release", "schedule", "acquire", "rollback"} \cup Ended]
    BY Facts DEF TypeOK, MarkBlocked
  <2> QED BY <1>4, <2>1, <2>4, <2>5, <2>6, Facts DEF TypeOK
<1>6. Alone(r)
  BY <1>4 DEF Alone, Same
<1>7. Plan' = Plan /\ MaxRetries' = MaxRetries /\ MaxLag' = MaxLag
  BY <1>4, LaunchKept
<1>8. Running(r)' = Running(r)
  BY <1>1, <1>3, <1>4, <1>7 DEF Running
<1>9. Phase(r)'
  BY <1>4, <1>8 DEF Phase, Ended
<1>10. Apart(r)'
  BY <1>8, Facts DEF Books, Apart
<1>11. ASSUME NEW t \in Slice PROVE Job(r, t)'
  <2>1. Job(r, t) /\ (status[r][t] = "running" \/ acquired[r][t] = {})
    BY <1>4, Facts DEF Job
  <2>2. CASE t \in B
    <3>1. status[r][t] = "pending" /\ status'[r][t] = "blocked" /\ t \in Plan[r]
      BY <1>1, <1>4, <2>2
    <3>2. worker[r][t] = "none" /\ acquired[r][t] = {}
      BY <2>1, <3>1 DEF Job, Running
    <3> QED BY <1>4, <1>7, <3>1, <3>2 DEF Job
  <2>3. CASE t \notin B
    <3>1. status'[r][t] = status[r][t]
      BY <1>4, <2>3
    <3> QED BY <1>4, <2>1, <3>1, JobKept
  <2> QED BY <2>2, <2>3
<1>12. ASSUME NEW t \in Slice, t \in Plan[r] PROVE Justified(r, t)'
  <2>1. Parents(r, t)' = Parents(r, t) /\ Parents(r, t) \subseteq Slice
    BY <1>3, <1>7 DEF Parents
  <2>2. Justified(r, t) /\ attempt[r][t] \in Nat
    BY <1>12, Facts DEF Books, TypeOK
  <2>3. \A p \in Parents(r, t) :
          /\ status[r][p] = "passed" => p \notin B /\ status'[r][p] = "passed"
          /\ status[r][p] \in {"failed", "blocked"} => status'[r][p] = status[r][p]
          /\ p \in B => status[r][p] = "pending" /\ status'[r][p] = "blocked"
    BY <1>1, <1>4, <2>1
  <2>4. attempt'[r][t] > 0 => \A p \in Parents(r, t) : status'[r][p] = "passed"
    BY <1>4, <2>2, <2>3 DEF Justified
  <2>5. CASE t \in B
    <3>1. PICK p \in Parents(r, t) : status[r][p] \in {"failed", "blocked"} \/ p \in B
      BY <1>1, <2>5
    <3>2. status[r][p] # "passed" /\ status'[r][p] \in {"failed", "blocked"}
      BY <2>3, <3>1
    <3>3. ~(attempt[r][t] > 0)
      BY <2>2, <3>2 DEF Justified
    <3>4. attempt'[r][t] = 0
      BY <1>4, <2>2, <3>3
    <3>5. status'[r][t] = "blocked"
      BY <1>4, <2>5
    <3> QED BY <2>1, <2>4, <3>2, <3>4, <3>5 DEF Justified
  <2>6. CASE t \notin B
    <3>1. status'[r][t] = status[r][t]
      BY <1>4, <2>6
    <3>2. ASSUME status[r][t] = "blocked"
          PROVE  /\ attempt'[r][t] = 0
                 /\ \E p \in Parents(r, t) : status'[r][p] \in {"failed", "blocked"}
      <4>1. PICK p \in Parents(r, t) : status[r][p] \in {"failed", "blocked"}
        BY <2>2, <3>2 DEF Justified
      <4>2. status'[r][p] \in {"failed", "blocked"}
        BY <2>3, <4>1
      <4> QED BY <1>4, <2>2, <3>2, <4>2 DEF Justified
    <3>3. status[r][t] = "failed" => attempt'[r][t] = MaxRetries' + 1
      BY <1>4, <1>7, <2>2 DEF Justified
    <3> QED BY <2>1, <2>4, <3>1, <3>2, <3>3 DEF Justified
  <2> QED BY <2>5, <2>6
<1>13. Counts(r)'
  <2>1. /\ IsFiniteSet(SettledJobs(r)) /\ Cardinality(SettledJobs(r)) \in Nat
        /\ completed[r] = Cardinality(SettledJobs(r))
    BY Facts, JobSets, Finite DEF Books, Counts
  <2>2. SettledJobs(r)' = SettledJobs(r) \cup B /\ SettledJobs(r) \cap B = {}
    <3>1. SettledJobs(r) \cap B = {}
      BY <1>1 DEF SettledJobs, Settled
    <3>2. \A s \in Plan[r] : s \in SettledJobs(r)' <=> s \in SettledJobs(r) \cup B
      BY <1>3, <1>4, <1>7 DEF SettledJobs, Settled
    <3>3. SettledJobs(r)' \subseteq Plan[r] /\ SettledJobs(r) \cup B \subseteq Plan[r]
      BY <1>1, <1>7 DEF SettledJobs
    <3> QED BY <3>1, <3>2, <3>3
  <2>3. Cardinality(SettledJobs(r) \cup B) = Cardinality(SettledJobs(r)) + Cardinality(B)
    <3>1. Cardinality(SettledJobs(r) \cup B) = Cardinality(SettledJobs(r)) + Cardinality(B)
                                               - Cardinality(SettledJobs(r) \cap B)
      BY <1>3, <2>1, FS_Union
    <3>2. Cardinality(SettledJobs(r) \cap B) = 0
      BY <2>2, FS_EmptySet
    <3> QED BY <1>3, <2>1, <3>1, <3>2
  <2>4. completed'[r] = Cardinality(SettledJobs(r)')
    BY <1>4, <2>1, <2>2, <2>3
  <2>5. Counted(r)' = Counted(r)
    BY <1>4, <1>8 DEF Counted
  <2>6. OnPool(r)' = OnPool(r)
    BY <1>4, PoolKept
  <2> QED BY <1>4, <2>4, <2>5, <2>6, Facts DEF Books, Counts, InRepo, InArea, Ended
<1>14. Books(r)'
  BY <1>4, <1>7, <1>9, <1>10, <1>11, <1>12, <1>13, Facts DEF Books, Ended
<1>15. FreeRows' /\ OthersKeep(r)
  BY <1>4, Facts, SweepRows
<1>16. Believed(r)' = Believed(r)
  BY <1>4 DEF Believed, Leaving
<1>17. DistinctIds => Noted(r)'
  BY <1>4, <1>16, Facts, NotedStep
<1>18. ASSUME DistinctIds, Punctual PROVE Holds(r)' /\ Calm(r)'
  BY <1>4, <1>16, <1>18, Facts, HoldsStep DEF Calm, Ended
<1> QED BY <1>5, <1>6, <1>14, <1>15, <1>17, <1>18, RunStep

-----------------------------------------------------------------------------
(***************************************************************************)
(* A lock is granted.                                                      *)
(***************************************************************************)
LEMMA Granted ==
    ASSUME IInv, NEW r \in Run, launch' = launch, NEW s \in Slice, NEW l \in Lock,
           Grantable(r, s, l),
           table' = [Swept EXCEPT ![l] = [owner |-> Owner(r, s), left |-> TTL]],
           pc[r] \notin Ended, pc'[r] # "beat", lag' = lag,
           Believed(r)' = Believed(r) \cup {<<s, l>>}
    PROVE  /\ table' \in [Lock -> Rows] /\ FreeRows' /\ OthersKeep(r)
           /\ DistinctIds => Noted(r)'
           /\ DistinctIds /\ Punctual => Holds(r)'
PROOF
<1>1. /\ table' \in [Lock -> Rows] /\ FreeRows' /\ OthersKeep(r)
      /\ table'[l].owner = Owner(r, s) /\ table'[l].left = TTL
      /\ \A k \in Lock \ {l} : table'[k] = Swept[k]
  BY Facts, GrantRows
<1>2. ASSUME DistinctIds PROVE Noted(r)'
  <2>1. ASSUME NEW t \in Slice, NEW m \in Lock, table'[m].owner = Owner(r, t)
        PROVE  <<t, m>> \in Believed(r) \cup {<<s, l>>}
    <3>1. CASE m = l
      BY <1>1, <2>1, <3>1 DEF Owner
    <3>2. CASE m # l
      <4>1. table[m].owner = Owner(r, t)
        BY <1>1, <2>1, <3>2, Facts, SweptFacts, OwnerType
      <4> QED BY <1>2, <4>1, Facts DEF Noted
    <3> QED BY <3>1, <3>2
  <2> QED BY <2>1 DEF Noted, Owner
<1>3. ASSUME DistinctIds, Punctual PROVE Holds(r)'
  <2>1. /\ TTL' = TTL /\ MaxLag' = MaxLag /\ TTL \in Nat /\ MaxLag \in Nat
        /\ lag[r] \in Nat
    BY Facts, LaunchKept, LaunchFacts DEF TypeOK
  <2>2. TTL + lag[r] + MaxLag >= TTL
    BY <2>1
  <2>3. ASSUME NEW c \in Believed(r)', c # <<s, l>>
        PROVE  c \in Believed(r) /\ table'[c[2]] = table[c[2]]
    <3>1. c \in Believed(r) /\ c = <<c[1], c[2]>>
      BY <2>3 DEF Believed
    <3>2. /\ c[1] \in Slice /\ c[2] \in Lock /\ table[c[2]].owner = Owner(r, c[1])
          /\ Swept[c[2]] = table[c[2]]
      BY <1>3, <3>1, Facts, BelievedLive, SweptFacts
    <3>3. c[2] # l
      BY <2>3, <3>1, <3>2, OwnerType DEF Grantable, Owner
    <3> QED BY <1>1, <3>1, <3>2, <3>3
  <2>4. ASSUME NEW c \in Believed(r)'
        PROVE  /\ table'[c[2]].owner = Owner(r, c[1])
               /\ table'[c[2]].left + lag[r] + MaxLag >= TTL
    <3>1. CASE c = <<s, l>>
      BY <1>1, <2>2, <3>1
    <3>2. CASE c # <<s, l>>
      BY <1>3, <2>3, <3>2, Facts DEF Holds
    <3> QED BY <3>1, <3>2
  <2> QED BY <2>1, <2>4 DEF Holds, Owner
<1> QED BY <1>1, <1>2, <1>3

\* The lock that is asked for next is the first that the job does not have.
LEMMA NextLockFacts ==
    ASSUME IInv, NEW r \in Run, pc[r] = "acquire"
    PROVE  \E s \in Slice, k \in Nat, l \in Lock :
              /\ s = at[r] /\ k = Cardinality(acquired[r][s]) /\ l = NextLock(r)
              /\ s \in Plan[r] /\ status[r][s] = "pending" /\ CanRun(r, s)
              /\ k < Len(Requests[s])
              /\ IsFiniteSet(acquired[r][s] \cup {l}) /\ Cardinality(acquired[r][s] \cup {l}) = k + 1
              /\ acquired[r][s] \cup {l} = {Requests[s][i] : i \in 1..(k + 1)}
PROOF
<1>0. PICK s, k : s = at[r] /\ k = Cardinality(acquired[r][at[r]])
  OBVIOUS
<1>1. /\ s \in Plan[r] /\ status[r][s] = "pending" /\ CanRun(r, s)
      /\ IsFiniteSet(acquired[r][s]) /\ k = Cardinality(acquired[r][s]) /\ k < Len(Requests[s])
      /\ acquired[r][s] = {Requests[s][i] : i \in 1..k}
  <2>1. /\ at[r] \in Plan[r] /\ status[r][at[r]] = "pending" /\ CanRun(r, at[r])
        /\ IsFiniteSet(acquired[r][at[r]])
        /\ Cardinality(acquired[r][at[r]]) < Len(Requests[at[r]])
        /\ acquired[r][at[r]] =
             {Requests[at[r]][i] : i \in 1..Cardinality(acquired[r][at[r]])}
    BY Facts DEF Phase
  <2> QED BY <1>0, <2>1
<1>2. s \in Slice /\ k \in Nat
  BY <1>1, Facts, JobSets, FS_CardinalityType
<1>3. /\ Len(Requests[s]) \in Nat
      /\ \A i \in 1..Len(Requests[s]) : Requests[s][i] \in Lock
      /\ \A i, j \in 1..Len(Requests[s]) : Requests[s][i] = Requests[s][j] => i = j
  BY <1>2, RequestFacts
<1>4. NextLock(r) = Requests[s][k + 1] /\ k + 1 \in 1..Len(Requests[s])
  BY <1>0, <1>1, <1>2, <1>3 DEF NextLock
<1>5. NextLock(r) \notin acquired[r][s]
  <2>1. ASSUME NEW i \in 1..k PROVE Requests[s][i] # Requests[s][k + 1]
    <3>1. i \in 1..Len(Requests[s]) /\ i # k + 1
      BY <1>1, <1>2, <1>3
    <3> QED BY <1>3, <1>4, <3>1
  <2> QED BY <1>1, <1>4, <2>1
<1>6. /\ IsFiniteSet(acquired[r][s] \cup {NextLock(r)})
      /\ Cardinality(acquired[r][s] \cup {NextLock(r)}) = k + 1
  BY <1>1, <1>5, FS_AddElement
<1>7. 1..(k + 1) = 1..k \cup {k + 1}
  BY <1>2
<1>8. acquired[r][s] \cup {NextLock(r)} = {Requests[s][i] : i \in 1..(k + 1)}
  BY <1>1, <1>4, <1>7
<1>9. PICK l \in Lock : l = NextLock(r)
  BY <1>3, <1>4
<1> QED BY <1>0, <1>1, <1>2, <1>6, <1>8, <1>9

\* One lock of several.
LEMMA AcquireMoreStep ==
    ASSUME IInv, NEW r \in Run, AcquireLock(r),
           Cardinality(acquired[r][at[r]]) + 1 # Len(Requests[at[r]])
    PROVE  IInv'
PROOF
<1>0. PICK s \in Slice, k \in Nat, l \in Lock :
        /\ s = at[r] /\ k = Cardinality(acquired[r][s]) /\ l = NextLock(r)
        /\ s \in Plan[r] /\ status[r][s] = "pending" /\ CanRun(r, s)
        /\ k < Len(Requests[s])
        /\ IsFiniteSet(acquired[r][s] \cup {l}) /\ Cardinality(acquired[r][s] \cup {l}) = k + 1
        /\ acquired[r][s] \cup {l} = {Requests[s][i] : i \in 1..(k + 1)}
  BY NextLockFacts DEF AcquireLock
<1>1. /\ pc[r] = "acquire" /\ Grantable(r, s, l)
      /\ table' = [Swept EXCEPT ![l] = [owner |-> Owner(r, s), left |-> TTL]]
      /\ acquired' = [acquired EXCEPT ![r][s] = @ \cup {l}]
      /\ pc' = pc /\ at' = at /\ status' = status /\ attempt' = attempt
      /\ byRepo' = byRepo /\ byArea' = byArea /\ worker' = worker
      /\ launch' = launch /\ todo' = todo /\ done' = done /\ completed' = completed /\ lag' = lag
      /\ k + 1 # Len(Requests[s])
  BY <1>0 DEF AcquireLock
<1>2. /\ s \in Plan[r] /\ s \in Slice /\ status[r][s] = "pending" /\ CanRun(r, s)
      /\ k \in Nat /\ k < Len(Requests[s]) /\ l \in Lock
      /\ IsFiniteSet(acquired[r][s] \cup {l}) /\ Cardinality(acquired[r][s] \cup {l}) = k + 1
      /\ acquired[r][s] \cup {l} = {Requests[s][i] : i \in 1..(k + 1)}
  BY <1>0
<1>3. at[r] = s
  BY <1>0
<1>4. /\ acquired'[r][s] = acquired[r][s] \cup {l}
      /\ \A t \in Slice \ {s} : acquired'[r][t] = acquired[r][t]
      /\ \A q \in Run \ {r} : acquired'[q] = acquired[q]
      /\ acquired' \in [Run -> [Slice -> SUBSET Lock]]
  BY <1>1, <1>2, Facts DEF TypeOK
<1>5. Believed(r)' = Believed(r) \cup {<<s, l>>}
  <2>1. Leaving(r) = {} /\ Leaving(r)' = {}
    BY <1>1 DEF Leaving
  <2>2. Believed(r) = {b \in Slice \X Lock : b[2] \in acquired[r][b[1]]}
    BY <2>1 DEF Believed
  <2>3. Believed(r)' = {b \in Slice \X Lock : b[2] \in acquired'[r][b[1]]}
    BY <2>1 DEF Believed
  <2> QED BY <1>2, <1>4, <2>2, <2>3
<1>6. /\ table' \in [Lock -> Rows] /\ FreeRows' /\ OthersKeep(r)
      /\ DistinctIds => Noted(r)'
      /\ DistinctIds /\ Punctual => Holds(r)'
  BY <1>1, <1>2, <1>5, Granted DEF Ended
<1>7. TypeOK'
  BY <1>1, <1>4, <1>6, Facts DEF TypeOK, Rows, OwnerId
<1>8. Alone(r)
  BY <1>1, <1>4 DEF Alone, Same
<1>9. Plan' = Plan /\ Running(r)' = Running(r)
  BY <1>1, LaunchKept, StatusKept
<1>10. Phase(r)'
  <2>1. Len(Requests[s]) \in Nat
    BY <1>2, RequestFacts
  <2>2. k + 1 < Len(Requests[s])
    BY <1>1, <1>2, <2>1
  <2>3. CanRun(r, at[r])'
    BY <1>1, <1>2, <1>3, GatesKept
  <2>4. /\ IsFiniteSet(acquired'[r][s]) /\ Cardinality(acquired'[r][s]) < Len(Requests[s])
        /\ acquired'[r][s] = {Requests[s][i] : i \in 1..Cardinality(acquired'[r][s])}
    BY <1>2, <1>4, <2>2
  <2>5. at'[r] = s /\ pc'[r] = "acquire" /\ todo'[r] = {} /\ done'[r] = {}
    BY <1>1, <1>3, Facts DEF Phase
  <2>6. at'[r] \in Plan'[r] /\ status'[r][at'[r]] = "pending"
    BY <1>1, <1>2, <1>9, <2>5
  <2>7. /\ IsFiniteSet(acquired'[r][at'[r]]) /\ Cardinality(acquired'[r][at'[r]]) < Len(Requests[at'[r]])
        /\ acquired'[r][at'[r]] =
             {Requests[at'[r]][i] : i \in 1..Cardinality(acquired'[r][at'[r]])}
    BY <2>4, <2>5
  <2> QED BY <2>3, <2>5, <2>6, <2>7 DEF Phase, Ended
<1>11. ASSUME NEW t \in Slice PROVE Job(r, t)'
  <2>1. Job(r, t)
    BY Facts
  <2>2. CASE t = s
    BY <1>1, <1>2, <1>3, <1>9, <2>1, <2>2, LaunchKept DEF Job
  <2>3. CASE t # s
    <3>1. acquired'[r][t] = acquired[r][t]
      BY <1>4, <2>3
    <3> QED BY <1>1, <2>1, <3>1, JobKept
  <2> QED BY <2>2, <2>3
<1>12. Counts(r)'
  BY <1>1, Facts, CountsKept, CountedKept DEF Books
<1>13. Apart(r)' /\ \A t \in Slice : t \in Plan[r]' => Justified(r, t)'
  BY <1>1, <1>9, Facts, StatusKept, JustifiedKept DEF Books
<1>14. Books(r)'
  BY <1>1, <1>10, <1>11, <1>12, <1>13, Facts, LaunchKept DEF Books
<1>15. DistinctIds /\ Punctual => Calm(r)'
  BY <1>1, Facts DEF Calm
<1> QED BY <1>6, <1>7, <1>8, <1>14, <1>15, RunStep

\* The last lock: the job starts.
LEMMA SubmitStep ==
    ASSUME IInv, NEW r \in Run, AcquireLock(r),
           Cardinality(acquired[r][at[r]]) + 1 = Len(Requests[at[r]])
    PROVE  IInv'
PROOF
<1>1. PICK s \in Slice, k \in Nat, l \in Lock :
        /\ s = at[r] /\ k = Cardinality(acquired[r][s]) /\ l = NextLock(r)
        /\ s \in Plan[r] /\ status[r][s] = "pending" /\ CanRun(r, s)
        /\ k < Len(Requests[s])
        /\ IsFiniteSet(acquired[r][s] \cup {l}) /\ Cardinality(acquired[r][s] \cup {l}) = k + 1
        /\ acquired[r][s] \cup {l} = {Requests[s][i] : i \in 1..(k + 1)}
  BY NextLockFacts DEF AcquireLock
<1>2. /\ pc[r] = "acquire" /\ Grantable(r, s, l)
      /\ table' = [Swept EXCEPT ![l] = [owner |-> Owner(r, s), left |-> TTL]]
      /\ acquired' = [acquired EXCEPT ![r][s] = @ \cup {l}]
      /\ status' = [status EXCEPT ![r][s] = "running"]
      /\ attempt' = [attempt EXCEPT ![r][s] = @ + 1]
      /\ byRepo' = [byRepo EXCEPT ![r][RepoOf[s]] = @ + 1]
      /\ byArea' = [byArea EXCEPT ![r] = [a \in Area |->
                      IF a \in HotAreas[s] THEN @[a] + 1 ELSE @[a]]]
      /\ worker' = [worker EXCEPT ![r][s] = "queued"]
      /\ pc' = [pc EXCEPT ![r] = "schedule"]
      /\ at' = [at EXCEPT ![r] = @ + 1]
      /\ launch' = launch /\ todo' = todo /\ done' = done /\ completed' = completed /\ lag' = lag
      /\ k + 1 = Len(Requests[s])
  BY <1>1 DEF AcquireLock, Submit, Advance
<1>3. acquired[r][s] \cup {l} = ToSet(Requests[s])
  BY <1>1, <1>2, RequestFacts
<1>4. /\ pc'[r] = "schedule" /\ todo[r] = {} /\ done[r] = {} /\ status'[r][s] = "running"
      /\ worker'[r][s] = "queued" /\ acquired'[r][s] = ToSet(Requests[s])
      /\ attempt'[r][s] = attempt[r][s] + 1
      /\ \A t \in Slice \ {s} : /\ status'[r][t] = status[r][t] /\ worker'[r][t] = worker[r][t]
                                /\ acquired'[r][t] = acquired[r][t]
                                /\ attempt'[r][t] = attempt[r][t]
      /\ \A q \in Run \ {r} :
           /\ pc'[q] = pc[q] /\ at'[q] = at[q] /\ status'[q] = status[q]
           /\ acquired'[q] = acquired[q] /\ attempt'[q] = attempt[q]
           /\ worker'[q] = worker[q] /\ byRepo'[q] = byRepo[q] /\ byArea'[q] = byArea[q]
  <2>1. todo[r] = {} /\ done[r] = {}
    BY <1>2, Facts DEF Phase
  <2>2. /\ status'[r][s] = "running" /\ worker'[r][s] = "queued"
        /\ acquired'[r][s] = acquired[r][s] \cup {l} /\ pc'[r] = "schedule"
    BY <1>2, Facts DEF TypeOK
  <2>3. attempt'[r][s] = attempt[r][s] + 1
    BY <1>2, Facts DEF TypeOK
  <2>4. \A t \in Slice \ {s} : /\ status'[r][t] = status[r][t] /\ worker'[r][t] = worker[r][t]
                               /\ acquired'[r][t] = acquired[r][t]
                               /\ attempt'[r][t] = attempt[r][t]
    BY <1>2, Facts DEF TypeOK
  <2>5. \A q \in Run \ {r} :
           /\ pc'[q] = pc[q] /\ at'[q] = at[q] /\ status'[q] = status[q]
           /\ acquired'[q] = acquired[q] /\ attempt'[q] = attempt[q]
           /\ worker'[q] = worker[q] /\ byRepo'[q] = byRepo[q] /\ byArea'[q] = byArea[q]
    BY <1>2, Facts DEF TypeOK
  <2> QED BY <1>3, <2>1, <2>2, <2>3, <2>4, <2>5
<1>5. /\ byRepo[r] \in [Repo -> Nat] /\ byArea[r] \in [Area -> Nat] /\ RepoOf[s] \in Repo
      /\ byRepo'[r] = [byRepo[r] EXCEPT ![RepoOf[s]] = @ + 1]
      /\ byArea'[r] = [a \in Area |-> IF a \in HotAreas[s] THEN byArea[r][a] + 1 ELSE byArea[r][a]]
  <2>1. byRepo[r] \in [Repo -> Nat] /\ byArea[r] \in [Area -> Nat] /\ RepoOf[s] \in Repo
    BY SliceAssumption, Facts DEF TypeOK
  <2>2. byRepo'[r] = [byRepo[r] EXCEPT ![RepoOf[s]] = @ + 1]
    BY <1>2, Facts DEF TypeOK
  <2>3. byArea'[r] = [a \in Area |-> IF a \in HotAreas[s] THEN byArea[r][a] + 1 ELSE byArea[r][a]]
    BY <1>2, Facts DEF TypeOK
  <2> QED BY <2>1, <2>2, <2>3
<1>6. /\ \A p \in Repo : byRepo'[r][p] = IF p = RepoOf[s] THEN byRepo[r][p] + 1 ELSE byRepo[r][p]
      /\ \A a \in Area : byArea'[r][a] = IF a \in HotAreas[s] THEN byArea[r][a] + 1 ELSE byArea[r][a]
  BY <1>5
<1>7. Believed(r)' = Believed(r) \cup {<<s, l>>}
  <2>1. Leaving(r) = {} /\ Leaving(r)' = {}
    BY <1>2, <1>4 DEF Leaving
  <2>2. Believed(r) = {b \in Slice \X Lock : b[2] \in acquired[r][b[1]]}
    BY <2>1 DEF Believed
  <2>3. Believed(r)' = {b \in Slice \X Lock : b[2] \in acquired'[r][b[1]]}
    BY <2>1 DEF Believed
  <2>4. acquired'[r][s] = acquired[r][s] \cup {l}
    BY <1>3, <1>4
  <2>5. \A t \in Slice \ {s} : acquired'[r][t] = acquired[r][t]
    BY <1>4
  <2> QED BY <2>2, <2>3, <2>4, <2>5
<1>8. /\ table' \in [Lock -> Rows] /\ FreeRows' /\ OthersKeep(r)
      /\ DistinctIds => Noted(r)'
      /\ DistinctIds /\ Punctual => Holds(r)'
  BY <1>2, <1>4, <1>7, Granted DEF Ended
<1>9. TypeOK'
  <2>1. byRepo'[r] = [p \in Repo |-> byRepo'[r][p]] /\ byArea'[r] = [a \in Area |-> byArea'[r][a]]
    BY <1>5
  <2>2. \A p \in Repo : byRepo'[r][p] \in Nat
    BY <1>5, <1>6
  <2>3. \A a \in Area : byArea'[r][a] \in Nat
    BY <1>5, <1>6
  <2>4. byRepo'[r] \in [Repo -> Nat] /\ byArea'[r] \in [Area -> Nat]
    BY <2>1, <2>2, <2>3
  <2>5. byRepo' \in [Run -> [Repo -> Nat]] /\ byArea' \in [Run -> [Area -> Nat]]
    BY <1>2, <1>4, <2>4, Facts DEF TypeOK
  <2>6. at' \in [Run -> Nat] /\ attempt' \in [Run -> [Slice -> Nat]]
    BY <1>2, Facts DEF TypeOK
  <2>7. worker' \in [Run -> [Slice -> {"none"} \cup Active \cup Finished]]
    BY <1>2, Facts DEF TypeOK, Active
  <2>8. /\ status' \in [Run -> [Slice -> {"pending", "running"} \cup Settled]]
        /\ pc' \in [Run -> {"beat", "finalize", "release", "schedule", "acquire", "rollback"} \cup Ended]
        /\ acquired' \in [Run -> [Slice -> SUBSET Lock]]
    BY <1>2, Facts DEF TypeOK
  <2> QED BY <1>2, <1>8, <2>5, <2>6, <2>7, <2>8, Facts DEF TypeOK, Rows, OwnerId
<1>10. Alone(r)
  BY <1>2, <1>4 DEF Alone, Same
<1>11. Plan' = Plan /\ MaxRetries' = MaxRetries /\ MaxLag' = MaxLag /\ Plan[r] \subseteq Slice
  BY <1>2, Facts, LaunchKept, JobSets
<1>12. s \notin Running(r) /\ Running(r)' = Running(r) \cup {s}
  BY <1>1, <1>4, <1>11 DEF Running
<1>13. Phase(r)'
  BY <1>2, <1>4 DEF Phase, Ended
<1>14. Apart(r)'
  <2>1. \A t \in Running(r) : ~Overlap(s, t) /\ ~Overlap(t, s)
    BY <1>1 DEF CanRun, Overlap
  <2> QED BY <1>12, <2>1, Facts DEF Books, Apart
<1>15. ASSUME NEW t \in Slice PROVE Job(r, t)'
  <2>1. CASE t = s
    <3>1. attempt[r][s] \in Nat /\ MaxRetries \in Nat /\ attempt[r][s] <= MaxRetries
      BY <1>1, Facts, LaunchFacts DEF TypeOK, Job
    <3>2. attempt'[r][s] \in 1..(MaxRetries + 1)
      BY <1>4, <3>1
    <3> QED BY <1>1, <1>4, <1>11, <1>12, <2>1, <3>2 DEF Job
  <2>2. CASE t # s
    <3>1. status[r][t] = "running" \/ acquired[r][t] = {}
      BY <1>1, <1>2, <2>2, Facts DEF Job, Ended
    <3>2. /\ status'[r][t] = status[r][t] /\ worker'[r][t] = worker[r][t]
          /\ acquired'[r][t] = acquired[r][t] /\ attempt'[r][t] = attempt[r][t]
      BY <1>4, <2>2
    <3> QED BY <1>2, <3>1, <3>2, Facts, JobKept
  <2> QED BY <2>1, <2>2
<1>16. ASSUME NEW t \in Slice, t \in Plan[r] PROVE Justified(r, t)'
  <2>1. Parents(r, t)' = Parents(r, t) /\ Parents(r, t) \subseteq Slice
    BY <1>11 DEF Parents
  <2>2. Justified(r, t)
    BY <1>16, Facts DEF Books
  <2>3. CASE t = s
    <3>1. \A p \in Parents(r, s) : status[r][p] = "passed"
      BY <1>1 DEF CanRun, DagOpen
    <3>2. \A p \in Parents(r, s) : status'[r][p] = "passed"
      BY <1>1, <1>4, <2>1, <2>3, <3>1
    <3> QED BY <1>4, <2>1, <2>3, <3>2 DEF Justified
  <2>4. CASE t # s
    <3>1. status'[r][t] = status[r][t] /\ attempt'[r][t] = attempt[r][t]
      BY <1>4, <2>4
    <3>2. \A p \in Parents(r, t) : status[r][p] # "pending" => status'[r][p] = status[r][p]
      BY <1>1, <1>4, <2>1
    <3> QED BY <1>11, <2>1, <2>2, <3>1, <3>2 DEF Justified
  <2> QED BY <2>3, <2>4
<1>17. Counts(r)'
  <2>1. SettledJobs(r)' = SettledJobs(r)
    BY <1>1, <1>4, <1>11 DEF SettledJobs, Settled
  <2>2. Counted(r) = Running(r) /\ Counted(r)' = Running(r) \cup {s}
    BY <1>2, <1>4, <1>12 DEF Counted
  <2>3. OnPool(r)' = OnPool(r) \cup {s} /\ OnPool(r) \subseteq Running(r)
    <3>1. OnPool(r) \subseteq Running(r)
      BY <1>11, Facts DEF OnPool, Active, Job
    <3>2. \A t \in Plan[r] : t \in OnPool(r)' <=> t \in OnPool(r) \cup {s}
      BY <1>1, <1>4, <1>11 DEF OnPool, Active
    <3>3. OnPool(r)' \subseteq Plan[r] /\ OnPool(r) \cup {s} \subseteq Plan[r]
      BY <1>1, <1>11 DEF OnPool
    <3> QED BY <3>1, <3>2, <3>3
  <2>4. /\ \A p \in Repo : byRepo[r][p] = Cardinality(InRepo(Running(r), p))
        /\ \A a \in Area : byArea[r][a] = Cardinality(InArea(Running(r), a))
        /\ \A p \in Repo : Cardinality(InRepo(OnPool(r), p)) <= PerRepoCapacity
        /\ \A a \in Area : Cardinality(InArea(OnPool(r), a)) <= PerHotAreaCapacity
        /\ completed[r] = Cardinality(SettledJobs(r))
    BY <1>2, <2>2, Facts DEF Books, Counts, Ended
  <2>5. Running(r) \in SUBSET Slice /\ OnPool(r) \in SUBSET Running(r) /\ s \notin OnPool(r)
    BY <1>12, <2>3, Facts, JobSets
  <2>6. ASSUME NEW p \in Repo
        PROVE  /\ byRepo'[r][p] = Cardinality(InRepo(Running(r) \cup {s}, p))
               /\ Cardinality(InRepo(OnPool(r) \cup {s}, p)) <= PerRepoCapacity
    <3>0. /\ RepoOf[s] = p => Cardinality(InRepo(Running(r) \cup {s}, p))
                               = Cardinality(InRepo(Running(r), p)) + 1
          /\ RepoOf[s] # p => Cardinality(InRepo(Running(r) \cup {s}, p))
                               = Cardinality(InRepo(Running(r), p))
    <4>1. Running(r) \in SUBSET Slice /\ s \notin Running(r) /\ s \in Slice
      BY <1>12, <2>5
    <4> QED BY <4>1, WithInRepo
    <3>1. byRepo'[r][p] = Cardinality(InRepo(Running(r) \cup {s}, p))
      BY <1>6, <2>4, <3>0
    <3>2. /\ RepoOf[s] = p => Cardinality(InRepo(OnPool(r) \cup {s}, p))
                               = Cardinality(InRepo(OnPool(r), p)) + 1
          /\ RepoOf[s] # p => Cardinality(InRepo(OnPool(r) \cup {s}, p))
                               = Cardinality(InRepo(OnPool(r), p))
    <4>1. OnPool(r) \in SUBSET Slice /\ s \notin OnPool(r) /\ s \in Slice
      BY <2>5
    <4> QED BY <4>1, WithInRepo
    <3>3. /\ Cardinality(InRepo(OnPool(r), p)) \in Nat
          /\ Cardinality(InRepo(OnPool(r), p)) <= byRepo[r][p] /\ byRepo[r][p] \in Nat
      BY <2>4, <2>5, Fewer
    <3>4. RepoOf[s] = p => byRepo[r][p] < PerRepoCapacity
      BY <1>1 DEF CanRun
    <3> QED BY <2>4, <3>1, <3>2, <3>3, <3>4, CapacityAssumption
  <2>7. ASSUME NEW a \in Area
        PROVE  /\ byArea'[r][a] = Cardinality(InArea(Running(r) \cup {s}, a))
               /\ Cardinality(InArea(OnPool(r) \cup {s}, a)) <= PerHotAreaCapacity
    <3>1. byArea'[r][a] = Cardinality(InArea(Running(r) \cup {s}, a))
      BY <1>6, <1>12, <2>4, <2>5, With
    <3>2. Cardinality(InArea(OnPool(r) \cup {s}, a)) =
            IF a \in HotAreas[s] THEN Cardinality(InArea(OnPool(r), a)) + 1
            ELSE Cardinality(InArea(OnPool(r), a))
      BY <2>5, With
    <3>3. /\ Cardinality(InArea(OnPool(r), a)) \in Nat
          /\ Cardinality(InArea(OnPool(r), a)) <= byArea[r][a] /\ byArea[r][a] \in Nat
      BY <2>4, <2>5, Fewer
    <3>4. a \in HotAreas[s] => byArea[r][a] < PerHotAreaCapacity
      BY <1>1 DEF CanRun
    <3> QED BY <2>4, <3>1, <3>2, <3>3, <3>4, CapacityAssumption
  <2> QED BY <1>2, <2>1, <2>2, <2>3, <2>4, <2>6, <2>7 DEF Counts, InRepo, InArea
<1>18. Books(r)'
  BY <1>2, <1>4, <1>11, <1>13, <1>14, <1>15, <1>16, <1>17, Facts DEF Books, Ended
<1>19. DistinctIds /\ Punctual => Calm(r)'
  BY <1>4, Facts DEF Calm
<1> QED BY <1>8, <1>9, <1>10, <1>18, <1>19, RunStep

LEMMA AcquireStep == ASSUME IInv, NEW r \in Run, AcquireLock(r) PROVE IInv'
PROOF BY AcquireMoreStep, SubmitStep

-----------------------------------------------------------------------------
(***************************************************************************)
(* What was taken is given back.                                           *)
(***************************************************************************)
LEMMA RollbackStep == ASSUME IInv, NEW r \in Run, RollbackLock(r) PROVE IInv'
PROOF
<1>1. PICK b \in todo[r] :
        /\ CanRelease(r, b[1], b[2]) /\ table' = Released(b[2])
        /\ todo' = [todo EXCEPT ![r] = @ \ {b}]
  BY DEF RollbackLock
<1>2. /\ pc[r] = "rollback" /\ launch' = launch /\ pc' = pc /\ done' = done /\ at' = at
      /\ status' = status /\ attempt' = attempt /\ acquired' = acquired /\ worker' = worker
      /\ completed' = completed /\ byRepo' = byRepo /\ byArea' = byArea /\ lag' = lag
      /\ todo'[r] = todo[r] \ {b} /\ \A q \in Run \ {r} : todo'[q] = todo[q]
  BY <1>1, Facts DEF RollbackLock, TypeOK, local
<1>3. /\ at[r] \in Plan[r] /\ todo[r] \subseteq {at[r]} \X acquired[r][at[r]]
      /\ b = <<b[1], b[2]>> /\ b \in Slice \X Lock /\ b[1] = at[r] /\ b[2] \in acquired[r][at[r]]
  BY <1>2, Facts DEF TypeOK, Phase
<1>4. Leaving(r) = {at[r]} /\ Leaving(r)' = {at[r]}
  BY <1>2 DEF Leaving
<1>5. b \in Believed(r) /\ Believed(r)' = Believed(r) \ {b}
  BY <1>2, <1>3, <1>4 DEF Believed
<1>6. /\ table' \in [Lock -> Rows] /\ FreeRows' /\ OthersKeep(r)
      /\ DistinctIds => Noted(r)'
      /\ DistinctIds /\ Punctual => Holds(r)'
  BY <1>1, <1>2, <1>5, GiveBack DEF Ended
<1>7. TypeOK'
  BY <1>1, <1>2, <1>6, Facts DEF TypeOK, Rows, OwnerId
<1>8. Alone(r)
  BY <1>2 DEF Alone, Same
<1>9. Phase(r)'
  <2>1. Running(r)' = Running(r) /\ Plan' = Plan
    BY <1>2, StatusKept, LaunchKept
  <2> QED BY <1>2, <2>1, Facts DEF Phase, Ended
<1>10. Counted(r)' = Counted(r)
  BY <1>2, StatusKept DEF Counted
<1>11. Books(r)'
  BY <1>2, <1>9, <1>10, Facts, LocalBooks DEF Books, Ended
<1>12. DistinctIds /\ Punctual => Calm(r)'
  BY <1>2, Facts DEF Calm
<1> QED BY <1>6, <1>7, <1>8, <1>11, <1>12, RunStep

LEMMA RollbackDoneStep == ASSUME IInv, NEW r \in Run, RollbackDone(r) PROVE IInv'
PROOF
<1>1. PICK s \in Slice : s = at[r] /\ s \in Plan[r] /\ status[r][s] = "pending"
  <2>1. at[r] \in Plan[r] /\ status[r][at[r]] = "pending"
    BY Facts DEF RollbackDone, Phase
  <2> QED BY <2>1, Facts, JobSets
<1>2. /\ pc[r] = "rollback" /\ todo[r] = {}
      /\ acquired' = [acquired EXCEPT ![r][s] = {}]
      /\ pc' = [pc EXCEPT ![r] = "schedule"] /\ at' = [at EXCEPT ![r] = @ + 1]
      /\ launch' = launch /\ table' = table /\ todo' = todo /\ done' = done /\ status' = status
      /\ attempt' = attempt /\ completed' = completed /\ byRepo' = byRepo /\ byArea' = byArea
      /\ worker' = worker /\ lag' = lag
  BY <1>1 DEF RollbackDone, Advance
<1>3. /\ pc'[r] = "schedule" /\ done[r] = {} /\ acquired'[r][s] = {}
      /\ \A t \in Slice \ {s} : acquired'[r][t] = acquired[r][t]
      /\ \A q \in Run \ {r} : pc'[q] = pc[q] /\ at'[q] = at[q] /\ acquired'[q] = acquired[q]
  <2>1. done[r] = {}
    BY <1>2, Facts DEF Phase
  <2> QED BY <1>2, <2>1, Facts DEF TypeOK
<1>4. TypeOK'
  <2>1. at' \in [Run -> Nat]
    BY <1>2, Facts DEF TypeOK
  <2> QED BY <1>2, <2>1, Facts DEF TypeOK
<1>5. Alone(r)
  BY <1>2, <1>3 DEF Alone, Same
<1>6. Phase(r)'
  BY <1>2, <1>3 DEF Phase, Ended
<1>7. ASSUME NEW t \in Slice PROVE Job(r, t)'
  <2>1. CASE t = s
    BY <1>1, <1>2, <1>3, <2>1, Facts, LaunchKept DEF Job, Running
  <2>2. CASE t # s
    <3>1. status[r][t] = "running" \/ acquired[r][t] = {}
      BY <1>1, <1>2, <2>2, Facts DEF Job, Ended
    <3>2. acquired'[r][t] = acquired[r][t]
      BY <1>3, <2>2
    <3> QED BY <1>2, <3>1, <3>2, Facts, JobKept
  <2> QED BY <2>1, <2>2
<1>8. Counts(r)'
  <2>1. Counted(r)' = Counted(r)
    BY <1>2, <1>3, StatusKept DEF Counted
  <2> QED BY <1>2, <1>3, <2>1, Facts, CountsKept DEF Books, Ended
<1>9. Apart(r)' /\ \A t \in Slice : t \in Plan[r]' => Justified(r, t)'
  BY <1>2, Facts, StatusKept, JustifiedKept, LaunchKept DEF Books
<1>10. Books(r)'
  BY <1>2, <1>3, <1>6, <1>7, <1>8, <1>9, Facts, LaunchKept DEF Books, Ended
<1>11. FreeRows' /\ OthersKeep(r)
  BY <1>2, Facts, SweepRows
<1>12. Believed(r)' = Believed(r)
  <2>1. Leaving(r) = {s} /\ Leaving(r)' = {}
    BY <1>1, <1>2, <1>3 DEF Leaving
  <2>2. ASSUME NEW x \in Slice \X Lock PROVE x \in Believed(r)' <=> x \in Believed(r)
    <3>1. x = <<x[1], x[2]>> /\ x[1] \in Slice
      OBVIOUS
    <3>2. CASE x[1] = s
      BY <1>2, <1>3, <2>1, <3>1, <3>2 DEF Believed
    <3>3. CASE x[1] # s
      BY <1>3, <2>1, <3>1, <3>3 DEF Believed
    <3> QED BY <3>2, <3>3
  <2>3. Believed(r)' \subseteq Slice \X Lock /\ Believed(r) \subseteq Slice \X Lock
    BY DEF Believed
  <2> QED BY <2>2, <2>3
<1>13. DistinctIds => Noted(r)'
  BY <1>2, <1>12, Facts, NotedStep
<1>14. ASSUME DistinctIds, Punctual PROVE Holds(r)' /\ Calm(r)'
  BY <1>2, <1>3, <1>12, <1>14, Facts, HoldsStep DEF Calm, Ended
<1> QED BY <1>4, <1>5, <1>10, <1>11, <1>13, <1>14, RunStep

-----------------------------------------------------------------------------
(***************************************************************************)
(* The pool, and time.                                                     *)
(***************************************************************************)
\* Only the future of one job that is on the pool changes.
LEMMA PoolStep ==
    ASSUME IInv, NEW r \in Run, NEW s \in Plan[r], WorkerStarts(r, s) \/ WorkerEnds(r, s)
    PROVE  IInv'
PROOF
<1>1. s \in Slice /\ worker[r][s] \in Active
  BY Facts, JobSets DEF WorkerStarts, WorkerEnds, Active
<1>2. PICK w \in {"executing"} \cup Finished :
        worker' = [worker EXCEPT ![r][s] = w] /\ (w = "raised" => CanRaise)
  BY DEF WorkerStarts, WorkerEnds, Finished
<1>3. /\ launch' = launch /\ table' = table /\ pc' = pc /\ todo' = todo /\ done' = done /\ at' = at
      /\ status' = status /\ attempt' = attempt /\ acquired' = acquired
      /\ completed' = completed /\ byRepo' = byRepo /\ byArea' = byArea /\ lag' = lag
  BY DEF WorkerStarts, WorkerEnds, local
<1>4. /\ worker'[r][s] = w /\ w # "none"
      /\ \A t \in Slice \ {s} : worker'[r][t] = worker[r][t]
      /\ \A q \in Run \ {r} : worker'[q] = worker[q]
  BY <1>1, <1>2, Facts DEF TypeOK, Finished
<1>5. TypeOK'
  BY <1>2, <1>3, Facts DEF TypeOK, Active
<1>6. Alone(r)
  BY <1>3, <1>4 DEF Alone, Same
<1>7. Plan' = Plan /\ Running(r)' = Running(r) /\ Plan[r] \subseteq Slice
  BY <1>3, Facts, LaunchKept, StatusKept, JobSets
<1>8. worker[r][s] \notin Finished /\ worker[r][s] # "none" /\ s \in Running(r)
  BY <1>1, Facts DEF Active, Finished, Job
<1>9. Phase(r)'
  <2>1. CanRun(r, at[r])' = CanRun(r, at[r])
    <3>1. PICK t : t = at[r]
      OBVIOUS
    <3>2. CanRun(r, t)' = CanRun(r, t) /\ at'[r] = t
      BY <1>3, <3>1, GatesKept
    <3> QED BY <3>1, <3>2
  <2>2. HeldBy(r)' = HeldBy(r)
    BY <1>3, HeldKept
  <2>3. \A t \in Slice : worker[r][t] \in Finished => worker'[r][t] = worker[r][t]
    BY <1>4, <1>8
  <2>4. done'[r] \subseteq {t \in Running(r)' : worker'[r][t] \in Finished}
    BY <1>3, <1>7, <2>3, Facts, JobSets DEF Phase
  <2>5. pc'[r] = "release" =>
           \E t \in Running(r)' \ done'[r] :
             worker'[r][t] \in Finished /\ todo'[r] # {} /\ todo'[r] \subseteq {t} \X acquired'[r][t]
    BY <1>3, <1>7, <2>3, Facts, JobSets DEF Phase
  <2>6. pc[r] # "killed"
    BY <1>1, <1>8, Facts DEF Phase
  <2> QED BY <1>3, <1>7, <2>1, <2>2, <2>4, <2>5, <2>6, Facts DEF Phase
<1>10. ASSUME NEW t \in Slice PROVE Job(r, t)'
  <2>1. CASE t = s
    BY <1>3, <1>7, <1>8, <2>1, Facts, LaunchKept DEF Job
  <2>2. CASE t # s
    <3>1. worker'[r][t] = worker[r][t]
      BY <1>4, <2>2
    <3> QED BY <1>3, <3>1, Facts, JobKept
  <2> QED BY <2>1, <2>2
<1>11. Counts(r)'
  <2>1. SettledJobs(r)' = SettledJobs(r) /\ Counted(r)' = Counted(r)
    BY <1>3, StatusKept, CountedKept
  <2>2. OnPool(r)' \in SUBSET OnPool(r) /\ OnPool(r) \in SUBSET Slice
    <3>1. \A t \in Plan[r] : worker'[r][t] \in Active => worker[r][t] \in Active
      BY <1>1, <1>4, <1>7
    <3> QED BY <1>7, <3>1 DEF OnPool
  <2>3. ASSUME NEW p \in Repo PROVE Cardinality(InRepo(OnPool(r)', p)) <= PerRepoCapacity
    <3>1. Cardinality(InRepo(OnPool(r), p)) <= PerRepoCapacity
      BY Facts DEF Books, Counts
    <3>2. /\ Cardinality(InRepo(OnPool(r)', p)) \in Nat /\ Cardinality(InRepo(OnPool(r), p)) \in Nat
          /\ Cardinality(InRepo(OnPool(r)', p)) <= Cardinality(InRepo(OnPool(r), p))
      BY <2>2, Fewer
    <3> QED BY <3>1, <3>2, CapacityAssumption
  <2>4. ASSUME NEW a \in Area PROVE Cardinality(InArea(OnPool(r)', a)) <= PerHotAreaCapacity
    <3>1. Cardinality(InArea(OnPool(r), a)) <= PerHotAreaCapacity
      BY Facts DEF Books, Counts
    <3>2. /\ Cardinality(InArea(OnPool(r)', a)) \in Nat /\ Cardinality(InArea(OnPool(r), a)) \in Nat
          /\ Cardinality(InArea(OnPool(r)', a)) <= Cardinality(InArea(OnPool(r), a))
      BY <2>2, Fewer
    <3> QED BY <3>1, <3>2, CapacityAssumption
  <2> QED BY <1>3, <2>1, <2>3, <2>4, Facts DEF Books, Counts, InRepo, InArea
<1>12. Apart(r)' /\ \A t \in Slice : t \in Plan[r]' => Justified(r, t)'
  BY <1>3, Facts, StatusKept, JustifiedKept, LaunchKept DEF Books
<1>13. Books(r)'
  BY <1>3, <1>9, <1>10, <1>11, <1>12, Facts, LaunchKept DEF Books
<1>14. FreeRows' /\ OthersKeep(r)
  BY <1>3, Facts, SweepRows
<1>15. Believed(r)' = Believed(r)
  BY <1>3, BelievedKept
<1>16. DistinctIds => Noted(r)'
  BY <1>3, <1>15, Facts, NotedStep
<1>17. ASSUME DistinctIds, Punctual PROVE Holds(r)' /\ Calm(r)'
  <2>1. Holds(r)'
    BY <1>3, <1>15, <1>17, Facts, LaunchKept DEF Holds, Owner
  <2>2. w # "raised"
    BY <1>2, <1>17 DEF Punctual
  <2> QED BY <1>3, <1>4, <1>17, <2>1, <2>2, Facts DEF Calm
<1> QED BY <1>5, <1>6, <1>13, <1>14, <1>16, <1>17, RunStep

LEMMA TickStep == ASSUME IInv, Tick PROVE IInv'
PROOF
<1>1. /\ \A r \in Run : pc[r] \in Ended \/ lag[r] < MaxLag
      /\ table' = [l \in Lock |-> [table[l] EXCEPT !.left = IF @ = 0 THEN 0 ELSE @ - 1]]
      /\ lag' = [r \in Run |-> IF pc[r] \in Ended THEN lag[r] ELSE lag[r] + 1]
      /\ launch' = launch /\ pc' = pc /\ todo' = todo /\ done' = done /\ at' = at
      /\ status' = status /\ attempt' = attempt /\ acquired' = acquired /\ worker' = worker
      /\ completed' = completed /\ byRepo' = byRepo /\ byArea' = byArea
  BY DEF Tick, local
<1>2. TypeOK /\ FreeRows
  BY DEF IInv
<1>3. ASSUME NEW l \in Lock
      PROVE  /\ table'[l] \in Rows /\ table'[l].owner = table[l].owner
             /\ table[l].left \in Nat
             /\ table'[l].left = IF table[l].left = 0 THEN 0 ELSE table[l].left - 1
  <2>1. table[l] \in Rows /\ table[l].left \in Nat
    BY <1>2, RowType
  <2>2. table'[l] = [table[l] EXCEPT !.left = IF @ = 0 THEN 0 ELSE @ - 1]
    BY <1>1
  <2> DEFINE n == IF table[l].left = 0 THEN 0 ELSE table[l].left - 1
  <2>3. n \in Nat
    BY <2>1
  <2>4. table'[l] = [table[l] EXCEPT !.left = n]
    BY <2>2
  <2> HIDE DEF n
  <2>5. table'[l] = [owner |-> table[l].owner, left |-> n]
    BY <2>1, <2>4 DEF Rows
  <2>6. table[l].owner \in OwnerId \cup {None}
    BY <1>2, RowType
  <2> QED BY <2>1, <2>3, <2>5, <2>6 DEF Rows, n
<1>4. ASSUME NEW r \in Run
      PROVE  /\ lag[r] \in Nat /\ lag'[r] \in Nat
             /\ lag'[r] = IF pc[r] \in Ended THEN lag[r] ELSE lag[r] + 1
             /\ pc[r] \notin Ended => lag'[r] <= MaxLag
  <2>1. lag[r] \in Nat /\ MaxLag \in Nat
    BY <1>2, LaunchFacts DEF TypeOK
  <2>2. lag'[r] = IF pc[r] \in Ended THEN lag[r] ELSE lag[r] + 1
    BY <1>1
  <2>3. pc[r] \notin Ended => lag[r] < MaxLag
    BY <1>1
  <2> QED BY <2>1, <2>2, <2>3
<1>5. TypeOK'
  <2>1. table' \in [Lock -> Rows]
    BY <1>1, <1>3
  <2>2. lag' \in [Run -> Nat]
    BY <1>1, <1>4
  <2> QED BY <1>1, <1>2, <2>1, <2>2 DEF TypeOK, Rows, OwnerId
<1>6. FreeRows'
  BY <1>2, <1>3 DEF FreeRows
<1>7. ASSUME NEW r \in Run PROVE Same(r)
  BY <1>1 DEF Same
<1>8. ASSUME NEW r \in Run PROVE Books(r)'
  <2>1. Phase(r)' /\ Apart(r)'
    BY <1>1, <1>7, Facts, PhaseKept, StatusKept DEF Books
  <2>2. Counts(r)'
    BY <1>1, Facts, CountsKept, CountedKept DEF Books
  <2>3. \A s \in Slice : Job(r, s)'
    BY <1>1, Facts, JobKept
  <2>4. \A s \in Slice : s \in Plan[r]' => Justified(r, s)'
    BY <1>1, Facts, JustifiedKept, LaunchKept DEF Books
  <2>5. pc'[r] \notin Ended => lag'[r] <= MaxLag'
    BY <1>1, <1>4, LaunchKept
  <2> QED BY <2>1, <2>2, <2>3, <2>4, <2>5 DEF Books
<1>9. ASSUME NEW r \in Run PROVE Believed(r)' = Believed(r)
  BY <1>1, BelievedKept
<1>10. ASSUME NEW r \in Run, DistinctIds PROVE Noted(r)'
  BY <1>3, <1>9, <1>10, Facts DEF Noted, Owner
<1>11. ASSUME NEW r \in Run, DistinctIds, Punctual PROVE Holds(r)' /\ Calm(r)'
  <2>1. TTL' = TTL /\ MaxLag' = MaxLag /\ TTL \in Nat /\ MaxLag \in Nat
    BY <1>1, <1>2, LaunchKept, LaunchFacts
  <2>2. ASSUME NEW b \in Believed(r), pc[r] \notin Ended
        PROVE  /\ table'[b[2]].owner = Owner(r, b[1])
               /\ table'[b[2]].left + lag'[r] = table[b[2]].left + lag[r]
               /\ table'[b[2]].left + lag'[r] + MaxLag = table[b[2]].left + lag[r] + MaxLag
    <3>1. /\ b[2] \in Lock /\ table[b[2]].owner = Owner(r, b[1]) /\ table[b[2]].left > 0
      BY <1>2, <1>11, <2>2, Facts, BelievedLive
    <3>2. /\ table'[b[2]].owner = table[b[2]].owner
          /\ table[b[2]].left \in Nat
          /\ table'[b[2]].left = table[b[2]].left - 1
      BY <1>3, <3>1
    <3>3. lag'[r] = lag[r] + 1 /\ lag[r] \in Nat
      BY <1>4, <2>2
    <3> QED BY <2>1, <3>1, <3>2, <3>3
  <2>3. Holds(r)
    BY <1>11, Facts
  <2>4. Holds(r)'
    BY <1>1, <1>9, <2>1, <2>2, <2>3 DEF Holds, Owner
  <2> QED BY <1>1, <1>11, <2>4, Facts DEF Calm
<1>12. (Punctual' <=> Punctual) /\ (DistinctIds' <=> DistinctIds)
  BY <1>1, LaunchKept DEF DistinctIds
<1> QED BY <1>5, <1>6, <1>8, <1>10, <1>11, <1>12 DEF IInv

-----------------------------------------------------------------------------
(***************************************************************************)
(* The invariant holds in every state.                                     *)
(***************************************************************************)
LEMMA InitOK == ASSUME Init PROVE IInv
PROOF
<1>1. /\ launch \in Launches
      /\ \A l \in Lock : table[l] = Free
      /\ \A r \in Run :
           /\ pc[r] = IF Plan[r] = {} THEN "returned" ELSE "beat"
           /\ todo[r] = {} /\ done[r] = {} /\ at[r] = 0 /\ completed[r] = 0 /\ lag[r] = 0
           /\ \A s \in Slice : /\ status[r][s] = "pending" /\ attempt[r][s] = 0
                               /\ acquired[r][s] = {} /\ worker[r][s] = "none"
           /\ \A p \in Repo : byRepo[r][p] = 0
           /\ \A a \in Area : byArea[r][a] = 0
  BY DEF Init
<1>2. TypeOK
  <2>1. Free \in [owner : ({RunId[r] : r \in Run} \X Slice) \cup {None}, left : Nat]
    BY DEF Free
  <2>2. table \in [Lock -> [owner : ({RunId[r] : r \in Run} \X Slice) \cup {None}, left : Nat]]
    BY <2>1 DEF Init
  <2>3. pc \in [Run -> {"beat", "finalize", "release", "schedule", "acquire", "rollback"} \cup Ended]
    BY DEF Init, Ended
  <2> QED BY <2>2, <2>3 DEF Init, TypeOK
<1>3. FreeRows
  BY <1>1 DEF FreeRows, Free
<1>4. MaxRetries \in Nat /\ MaxLag \in Nat /\ Plan \in [Run -> SUBSET Slice]
  BY <1>2, LaunchFacts
<1>5. ASSUME NEW r \in Run
      PROVE  /\ Running(r) = {} /\ SettledJobs(r) = {} /\ OnPool(r) = {} /\ Counted(r) = {}
             /\ Believed(r) = {}
  <2>1. Running(r) = {} /\ SettledJobs(r) = {} /\ OnPool(r) = {}
    BY <1>1, <1>4 DEF Running, SettledJobs, OnPool, Settled, Active
  <2>2. Believed(r) = {}
    BY <1>1 DEF Believed
  <2> QED BY <2>1, <2>2 DEF Counted
<1>6. ASSUME NEW r \in Run PROVE Books(r)
  <2>1. Phase(r)
    <3>1. pc[r] = "returned" => Cardinality(Plan[r]) = 0
      BY <1>1, FS_EmptySet
    <3>2. pc[r] \in {"beat", "returned"}
      BY <1>1
    <3> QED BY <1>1, <3>1, <3>2 DEF Phase, Ended
  <2>2. Apart(r)
    BY <1>5 DEF Apart
  <2>3. Cardinality({}) = 0
    BY FS_EmptySet
  <2>4. Counts(r)
    <3>1. /\ \A p \in Repo : InRepo({}, p) = {}
          /\ \A a \in Area : InArea({}, a) = {}
      BY DEF InRepo, InArea
    <3>2. /\ \A p \in Repo : /\ Cardinality(InRepo(Counted(r), p)) = 0
                            /\ Cardinality(InRepo(OnPool(r), p)) <= PerRepoCapacity
      BY <1>5, <2>3, <3>1, CapacityAssumption
    <3>3. /\ \A a \in Area : /\ Cardinality(InArea(Counted(r), a)) = 0
                            /\ Cardinality(InArea(OnPool(r), a)) <= PerHotAreaCapacity
      BY <1>5, <2>3, <3>1, CapacityAssumption
    <3>4. completed[r] = Cardinality(SettledJobs(r))
      BY <1>1, <1>5, <2>3
    <3> QED BY <1>1, <3>2, <3>3, <3>4 DEF Counts
  <2>5. ASSUME NEW s \in Slice PROVE Job(r, s) /\ Justified(r, s)
    BY <1>1, <1>4 DEF Job, Justified
  <2>6. lag[r] <= MaxLag
    BY <1>1, <1>4
  <2> QED BY <2>1, <2>2, <2>4, <2>5, <2>6 DEF Books
<1>7. ASSUME NEW r \in Run PROVE Noted(r) /\ Holds(r) /\ Calm(r)
  <2>1. Noted(r)
    BY <1>1, OwnerType DEF Noted, Free
  <2>2. Holds(r)
    BY <1>5 DEF Holds
  <2>3. Calm(r)
    BY <1>1 DEF Calm
  <2> QED BY <2>1, <2>2, <2>3
<1> QED BY <1>2, <1>3, <1>6, <1>7 DEF IInv

LEMMA StutterStep == ASSUME IInv, UNCHANGED vars PROVE IInv'
PROOF
<1>1. /\ launch' = launch /\ table' = table /\ lag' = lag
      /\ pc' = pc /\ todo' = todo /\ done' = done /\ at' = at
      /\ status' = status /\ attempt' = attempt /\ acquired' = acquired /\ worker' = worker
      /\ completed' = completed /\ byRepo' = byRepo /\ byArea' = byArea
  BY DEF vars, local
<1>2. TypeOK /\ FreeRows
  BY DEF IInv
<1>3. TypeOK' /\ FreeRows'
  BY <1>1, <1>2 DEF TypeOK, FreeRows
<1>4. ASSUME NEW r \in Run PROVE Books(r)'
  BY <1>1, Facts, BooksKept DEF Same
<1>5. ASSUME NEW r \in Run PROVE Believed(r)' = Believed(r)
  BY <1>1, BelievedKept
<1>6. ASSUME NEW r \in Run, DistinctIds PROVE Noted(r)'
  BY <1>1, <1>5, <1>6, Facts DEF Noted, Owner
<1>7. ASSUME NEW r \in Run, DistinctIds, Punctual PROVE Holds(r)' /\ Calm(r)'
  BY <1>1, <1>5, <1>7, Facts, LaunchKept DEF Holds, Calm, Owner
<1>8. (Punctual' <=> Punctual) /\ (DistinctIds' <=> DistinctIds)
  BY <1>1, LaunchKept DEF DistinctIds
<1> QED BY <1>3, <1>4, <1>6, <1>7, <1>8 DEF IInv

LEMMA NextStep == ASSUME IInv, [Next]_vars PROVE IInv'
PROOF
<1>1. ASSUME NEW r \in Run, Loop(r) PROVE IInv'
  BY <1>1, RaiseStep, RenewStep, CollectStep, ResultStep, ReleaseStep, MarkBlockedStep, TryStep,
     AcquireStep, DeniedStep, RollbackStep, RollbackDoneStep, EndPassStep DEF Loop
<1>2. ASSUME NEW r \in Run, Pool(r) PROVE IInv'
  BY <1>2, PoolStep DEF Pool
<1>3. ASSUME NEW r \in Run, Kill(r) PROVE IInv'
  BY <1>3, KillStep
<1>4. ASSUME Tick PROVE IInv'
  BY <1>4, TickStep
<1>5. ASSUME UNCHANGED vars PROVE IInv'
  BY <1>5, StutterStep
<1> QED BY <1>1, <1>2, <1>3, <1>4, <1>5 DEF Next

\* What the books of the loops, the counters, the futures and the table say of one another
\* is so in every state: the inductive invariant of run_slice_scheduler.
THEOREM Invariance == Spec => []IInv
PROOF
<1>1. Init => IInv
  BY InitOK
<1>2. IInv /\ [Next]_vars => IInv'
  BY NextStep
<1> QED BY <1>1, <1>2, PTL DEF Spec

\* Every field of every job, counter and row has a value of its kind.
THEOREM Typing == Spec => []TypeOK
PROOF
<1>1. IInv => TypeOK
  BY DEF IInv
<1> QED BY <1>1, Invariance, PTL

-----------------------------------------------------------------------------
(***************************************************************************)
(* What the invariant is for.                                              *)
(***************************************************************************)
\* A run that returned has come to the end of every job of its plan.
LEMMA AllSettled ==
    ASSUME IInv, NEW r \in Run, pc[r] = "returned"
    PROVE  SettledJobs(r) = Plan[r] /\ Running(r) = {}
PROOF
<1>1. /\ completed[r] >= Cardinality(Plan[r]) /\ completed[r] = Cardinality(SettledJobs(r))
      /\ SettledJobs(r) \in SUBSET Plan[r] /\ Plan[r] \in SUBSET Slice
  BY Facts, JobSets DEF Phase, Books, Counts, SettledJobs
<1>2. /\ IsFiniteSet(Plan[r]) /\ Cardinality(Plan[r]) \in Nat
      /\ Cardinality(SettledJobs(r)) \in Nat
  BY <1>1, Finite, Facts, JobSets
<1>3. /\ Cardinality(SettledJobs(r)) <= Cardinality(Plan[r])
      /\ Cardinality(SettledJobs(r)) = Cardinality(Plan[r]) => SettledJobs(r) = Plan[r]
  BY <1>1, <1>2, FS_Subset
<1>4. Cardinality(SettledJobs(r)) = Cardinality(Plan[r])
  BY <1>1, <1>2, <1>3
<1>5. SettledJobs(r) = Plan[r]
  BY <1>3, <1>4
<1> QED BY <1>5 DEF Running, SettledJobs, Settled

\* While a punctual run executes a slice, every lock the slice asked for is the run's.
LEMMA ExecutingOwns ==
    ASSUME IInv, DistinctIds, Punctual, NEW r \in Run, NEW s \in Executing(r),
           NEW l \in ToSet(Requests[s])
    PROVE  s \in Slice /\ l \in Lock /\ table[l].owner = Owner(r, s)
PROOF
<1>1. s \in Slice /\ s \in Plan[r] /\ worker[r][s] = "executing"
  BY Facts, JobSets DEF Executing
<1>2. s \in Running(r) /\ status[r][s] = "running" /\ l \in acquired[r][s] /\ l \in Lock
  BY <1>1, Facts, RequestFacts DEF Job, Running
<1>3. pc[r] \notin Ended
  <2>1. pc[r] # "aborted"
    BY Facts DEF Calm
  <2>2. pc[r] # "killed"
    BY <1>1, Facts DEF Phase
  <2>3. pc[r] # "returned"
    BY <1>2, AllSettled
  <2> QED BY <2>1, <2>2, <2>3 DEF Ended
<1>4. s \notin Leaving(r)
  <2>1. CASE pc[r] = "release"
    <3>1. PICK t \in Running(r) \ done[r] :
            worker[r][t] \in Finished /\ todo[r] # {} /\ todo[r] \subseteq {t} \X acquired[r][t]
      BY <2>1, Facts DEF Phase
    <3>2. t # s
      BY <1>1, <3>1 DEF Finished
    <3> QED BY <2>1, <3>1, <3>2 DEF Leaving
  <2>2. CASE pc[r] = "rollback"
    BY <1>2, <2>2, Facts DEF Phase, Leaving
  <2> QED BY <2>1, <2>2 DEF Leaving
<1>5. <<s, l>> \in Believed(r)
  BY <1>1, <1>2, <1>4 DEF Believed
<1> QED BY <1>1, <1>2, <1>3, <1>5, Facts, BelievedLive

\* ExclusiveExecution, for any runs, slices and requests: when the loops renew in time and
\* nothing raises, and no two processes act under one run id, competing slices never execute
\* at the same time.
THEOREM Exclusive == DistinctIds => (Spec => []ExclusiveExecution)
PROOF
<1>1. ASSUME DistinctIds, IInv PROVE ExclusiveExecution
  <2>1. ASSUME Punctual, NEW i \in ExecutingJobs, NEW j \in ExecutingJobs, i # j,
               Compete(i[2], j[2])
        PROVE  FALSE
    <3>1. PICK q \in Run, s \in Slice : i = <<q, s>> /\ s \in Executing(q)
      BY <1>1, Facts, JobSets DEF ExecutingJobs, Executing
    <3>2. PICK r \in Run, t \in Slice : j = <<r, t>> /\ t \in Executing(r)
      BY <1>1, Facts, JobSets DEF ExecutingJobs, Executing
    <3>3. Compete(s, t)
      BY <2>1, <3>1, <3>2
    <3>4. PICK l \in Lock : l \in ToSet(Requests[s]) /\ l \in ToSet(Requests[t])
      BY <3>3, CompetitorsMeet
    <3>5. table[l].owner = Owner(q, s)
      BY <1>1, <2>1, <3>1, <3>4, ExecutingOwns
    <3>6. table[l].owner = Owner(r, t)
      BY <1>1, <2>1, <3>2, <3>4, ExecutingOwns
    <3>7. RunId[q] = RunId[r] /\ s = t
      BY <3>5, <3>6 DEF Owner
    <3>8. q = r
      BY <1>1, <3>7 DEF DistinctIds
    <3> QED BY <2>1, <3>1, <3>2, <3>7, <3>8
  <2> QED BY <2>1 DEF ExclusiveExecution
<1>2. DistinctIds /\ IInv => ExclusiveExecution
  BY <1>1
<1>3. DistinctIds => DistinctIds'
  BY DEF DistinctIds
<1> QED BY <1>2, <1>3, Invariance, PTL

\* RunsTellOutcomes: in the middle of a run and when it returns, each job's outcome is what
\* its futures and its parents' outcomes make it, and the run leaves no row behind.
THEOREM Outcomes == DistinctIds => (Spec => []RunsTellOutcomes)
PROOF
<1>1. ASSUME DistinctIds, IInv PROVE RunsTellOutcomes
  <2>1. OutcomesJustified
    <3>1. ASSUME NEW r \in Run, NEW s \in Plan[r] PROVE Justified(r, s)
      BY <1>1, Facts, JobSets DEF Books
    <3> QED BY <3>1 DEF OutcomesJustified, Justified
  <2>2. ASSUME NEW r \in Run, pc[r] = "returned"
        PROVE  /\ \A s \in Plan[r] :
                    status[r][s] \in {"passed", "failed", "blocked"} /\ worker[r][s] = "none"
               /\ \A l \in Lock, s \in Plan[r] : table[l].owner # Owner(r, s)
    <3>1. SettledJobs(r) = Plan[r] /\ Running(r) = {} /\ Plan[r] \in SUBSET Slice
      BY <1>1, <2>2, AllSettled, Facts, JobSets
    <3>2. ASSUME NEW s \in Plan[r]
          PROVE  status[r][s] \in Settled /\ worker[r][s] = "none" /\ acquired[r][s] = {}
      <4>1. Job(r, s) /\ status[r][s] \in Settled
        BY <1>1, <3>1, Facts DEF SettledJobs
      <4> QED BY <3>1, <4>1 DEF Job, Settled
    <3>3. ASSUME NEW l \in Lock, NEW s \in Plan[r] PROVE table[l].owner # Owner(r, s)
      <4>1. s \in Slice /\ <<s, l>> \notin Believed(r)
        BY <3>1, <3>2 DEF Believed
      <4> QED BY <1>1, <4>1, Facts DEF Noted
    <3> QED BY <3>2, <3>3 DEF Settled
  <2> QED BY <2>1, <2>2 DEF RunsTellOutcomes, ReturnsComplete
<1>2. DistinctIds /\ IInv => RunsTellOutcomes
  BY <1>1
<1>3. DistinctIds => DistinctIds'
  BY DEF DistinctIds
<1> QED BY <1>2, <1>3, Invariance, PTL

\* GatesHold: the slices of a run that execute respect every capacity and share no target,
\* whatever the other runs do and also when the run's loop was left.
THEOREM Gates == Spec => []GatesHold
PROOF
<1>1. ASSUME IInv PROVE GatesHold
  <2>1. ASSUME NEW r \in Run
        PROVE  Executing(r) \in SUBSET OnPool(r) /\ OnPool(r) \in SUBSET Slice
    BY <1>1, Facts, JobSets DEF Executing, OnPool, Active
  <2>2. ASSUME NEW r \in Run, NEW p \in Repo
        PROVE  Cardinality({s \in Executing(r) : RepoOf[s] = p}) <= PerRepoCapacity
    <3>1. Cardinality(InRepo(OnPool(r), p)) <= PerRepoCapacity
      BY <1>1, Facts DEF Books, Counts
    <3>2. /\ Cardinality(InRepo(Executing(r), p)) \in Nat
          /\ Cardinality(InRepo(OnPool(r), p)) \in Nat
          /\ Cardinality(InRepo(Executing(r), p)) <= Cardinality(InRepo(OnPool(r), p))
      BY <2>1, Fewer
    <3>3. Cardinality(InRepo(Executing(r), p)) <= PerRepoCapacity
      BY <3>1, <3>2, CapacityAssumption
    <3> QED BY <3>3 DEF InRepo
  <2>3. ASSUME NEW r \in Run, NEW a \in Area
        PROVE  Cardinality({s \in Executing(r) : a \in HotAreas[s]}) <= PerHotAreaCapacity
    <3>1. Cardinality(InArea(OnPool(r), a)) <= PerHotAreaCapacity
      BY <1>1, Facts DEF Books, Counts
    <3>2. /\ Cardinality(InArea(Executing(r), a)) \in Nat
          /\ Cardinality(InArea(OnPool(r), a)) \in Nat
          /\ Cardinality(InArea(Executing(r), a)) <= Cardinality(InArea(OnPool(r), a))
      BY <2>1, Fewer
    <3>3. Cardinality(InArea(Executing(r), a)) <= PerHotAreaCapacity
      BY <3>1, <3>2, CapacityAssumption
    <3> QED BY <3>3 DEF InArea
  <2>4. ASSUME NEW r \in Run, NEW s \in Executing(r), NEW t \in Executing(r), s # t
        PROVE  ~Overlap(s, t)
    <3>1. s \in Running(r) /\ t \in Running(r)
      BY <1>1, Facts, JobSets DEF Executing, Job
    <3> QED BY <1>1, <2>4, <3>1, Facts DEF Books, Apart
  <2> QED BY <2>2, <2>3, <2>4 DEF GatesHold
<1>2. IInv => GatesHold
  BY <1>1
<1> QED BY <1>2, Invariance, PTL

\* RowsLeaveByOwner: a row that has time left leaves its owner only in a release of the run
\* it belongs to, whatever the run ids are and however late the loops are.
THEOREM RowsByOwner == Spec => RowsLeaveByOwner
PROOF
<1> DEFINE Leaves(l) ==
             \E r \in Run : \E s \in Plan[r] :
                /\ table[l].owner = Owner(r, s)
                /\ pc[r] \in {"release", "rollback"}
                /\ <<s, l>> \in todo[r] \ todo'[r]
           Stays(l) == table[l].left > 0 /\ table'[l].owner # table[l].owner => Leaves(l)
<1>1. ASSUME IInv, NEW l \in Lock, [Next]_vars PROVE Stays(l)
  <2>1. TypeOK /\ FreeRows /\ table[l].left \in Nat
    BY <1>1, RowType DEF IInv
  <2>2. table[l].left > 0 => table[l].owner # None /\ Swept[l] = table[l]
    BY <2>1, SweptFacts DEF FreeRows
  <2>3. CASE table' = table \/ table' = Swept
    BY <2>2, <2>3
  <2>4. CASE \E r \in Run : ReleaseLock(r) \/ RollbackLock(r)
    <3>1. PICK r \in Run : ReleaseLock(r) \/ RollbackLock(r)
      BY <2>4
    <3>2. PICK b \in todo[r] : /\ CanRelease(r, b[1], b[2]) /\ table' = Released(b[2])
                               /\ todo' = [todo EXCEPT ![r] = @ \ {b}]
                               /\ pc[r] \in {"release", "rollback"}
      BY <3>1 DEF ReleaseLock, RollbackLock
    <3>3. b = <<b[1], b[2]>> /\ b[1] \in Slice /\ b[2] \in Lock /\ b \in todo[r] \ todo'[r]
      BY <1>1, <3>2, Facts DEF TypeOK
    <3>4. b[1] \in Plan[r]
      <4>1. CASE pc[r] = "release"
        <5>1. PICK s \in Running(r) : todo[r] \subseteq {s} \X acquired[r][s]
          BY <1>1, <4>1, Facts DEF Phase
        <5> QED BY <3>3, <5>1 DEF Running
      <4>2. CASE pc[r] = "rollback"
        BY <1>1, <3>3, <4>2, Facts DEF Phase
      <4> QED BY <3>2, <4>1, <4>2
    <3>5. \A k \in Lock \ {b[2]} : table'[k] = table[k]
      BY <2>1, <3>2, <3>3, ReleaseRows
    <3>6. CASE l = b[2]
      BY <2>2, <3>2, <3>3, <3>4, <3>6 DEF CanRelease
    <3>7. CASE l # b[2]
      BY <3>5, <3>7
    <3> QED BY <3>6, <3>7
  <2>5. CASE \E r \in Run : AcquireLock(r)
    <3>1. PICK r \in Run : AcquireLock(r)
      BY <2>5
    <3>2. PICK s \in Slice, k \in Nat, m \in Lock : s = at[r] /\ m = NextLock(r)
      BY <1>1, <3>1, NextLockFacts DEF AcquireLock
    <3>3. Grantable(r, s, m) /\ table' = [Swept EXCEPT ![m] = [owner |-> Owner(r, s), left |-> TTL]]
      BY <3>1, <3>2 DEF AcquireLock
    <3>4. /\ table'[m].owner = Owner(r, s)
          /\ \A j \in Lock \ {m} : table'[j] = Swept[j]
      BY <2>1, <3>3, GrantRows
    <3>5. CASE l = m
      BY <2>2, <3>3, <3>4, <3>5 DEF Grantable
    <3>6. CASE l # m
      BY <2>2, <3>4, <3>6
    <3> QED BY <3>5, <3>6
  <2>6. CASE \E r \in Run : HeartbeatRenews(r)
    <3>1. PICK r \in Run : HeartbeatRenews(r)
      BY <2>6
    <3>2. PICK b \in todo[r] : /\ Swept[b[2]].owner = Owner(r, b[1])
                               /\ table' = [Swept EXCEPT ![b[2]].left = TTL]
      BY <3>1 DEF HeartbeatRenews
    <3>3. b[1] \in Slice /\ b[2] \in Lock
      BY <1>1, Facts DEF TypeOK
    <3>4. /\ table'[b[2]].owner = Owner(r, b[1])
          /\ \A j \in Lock \ {b[2]} : table'[j] = Swept[j]
      BY <2>1, <3>2, <3>3, RenewRows
    <3> QED BY <2>2, <3>2, <3>4
  <2>7. CASE Tick
    <3>1. table'[l] = [table[l] EXCEPT !.left = IF @ = 0 THEN 0 ELSE @ - 1]
      BY <2>7 DEF Tick
    <3>2. table[l] \in Rows
      BY <2>1, RowType
    <3>3. table'[l].owner = table[l].owner
      BY <3>1, <3>2 DEF Rows
    <3> QED BY <3>3
  <2>8. \/ \E r \in Run : ReleaseLock(r) \/ RollbackLock(r) \/ AcquireLock(r) \/ HeartbeatRenews(r)
        \/ Tick \/ table' = table \/ table' = Swept
    <3>1. ASSUME NEW r \in Run, Loop(r)
          PROVE  \/ ReleaseLock(r) \/ RollbackLock(r) \/ AcquireLock(r) \/ HeartbeatRenews(r)
                 \/ table' = table \/ table' = Swept
      BY <3>1 DEF Loop, HeartbeatRaises, CollectDone, ResultRaises, ResultReturns, ReleaseRaises,
         MarkBlocked, TryNext, AcquireDenied, RollbackRaises, RollbackDone, BackendRaises, EndPass,
         Abort
    <3>2. ASSUME NEW r \in Run, Pool(r) \/ Kill(r) PROVE table' = table
      BY <3>2 DEF Pool, WorkerStarts, WorkerEnds, Kill
    <3>3. ASSUME UNCHANGED vars PROVE table' = table
      BY <3>3 DEF vars
    <3> QED BY <1>1, <3>1, <3>2, <3>3 DEF Next
  <2> QED BY <2>3, <2>4, <2>5, <2>6, <2>7, <2>8
<1>2. IInv /\ [Next]_vars => \A l \in Lock : Stays(l)
  BY <1>1
<1>3. IInv /\ [Next]_vars =>
        [\A l \in Lock :
           /\ table[l].left > 0
           /\ table'[l].owner # table[l].owner
           => \E r \in Run : \E s \in Plan[r] :
                /\ table[l].owner = Owner(r, s)
                /\ pc[r] \in {"release", "rollback"}
                /\ <<s, l>> \in todo[r] \ todo'[r]]_vars
  BY <1>2
<1> QED BY <1>3, Invariance, PTL DEF Spec, RowsLeaveByOwner
=============================================================================
