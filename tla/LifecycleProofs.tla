-------------------------- MODULE LifecycleProofs --------------------------
(***************************************************************************)
(* Proofs about a feature's way from draft to release (FeatureLifecycle),  *)
(* about the operational release that ends it (ReleaseChain) and about the *)
(* publishing of the next version (ReleasePublish), for all values of      *)
(* their constants.  The three have no state in common here: each has      *)
(* theorems of its own.                                                    *)
(***************************************************************************)
EXTENDS FeatureLifecycle, ReleaseChain, ReleasePublish, FiniteSetTheorems,
        WellFoundedInduction, TLAPS

-----------------------------------------------------------------------------
(***************************************************************************)
(* From draft to release.                                                  *)
(***************************************************************************)
\* Reviews, approvals and results in a state, on file or read by a command, are in
\* the history.
Backed(st, history) ==
    /\ st.review # None /\ st.review.ready => st.review.text.body \in history.reviewed
    /\ st.approval # None => st.approval \in history.approved
    /\ st.planApproval # None =>
        <<st.planApproval.spec, st.planApproval.plan.made>> \in history.blessed
    /\ \A s \in Slice : st.results[s] = "passed" => s \in history.passed

\* No plan marks what never passed.
Counted(p, history) ==
    p # None => \A s \in Slice : p.marks[s] \in {"passed", "closed"} => s \in history.passed

\* Nobody saves another body while a command approves the one there is.
Held == \A o \in Operator : ~At(o, "approving") /\ ~At(o, "approved")

\* Where commands are that found a plan, and no command removes it.
WithPlan == {"blessing", "starting", "verifying", "passed", "failed", "closing", "closed"}

\* What a command has read suits the place where it is.
Sound(o) ==
    LET c == running[o] IN
    /\ c.at # "idle" => spec # None
    /\ c.at \in WithPlan => plan # None
    /\ c.at \in {"analysing", "reviewing", "blessing", "starting"} => c.text # None
    /\ c.at \in {"planning", "starting", "closing"} => c.plan # None
    /\ c.at \in {"verifying", "passed", "failed"} => c.slice \in Slice
    /\ c.at \in {"approving", "approved"} => EditsAnytime \/ spec.body \in past.reviewed
    /\ c.at = "approved" => EditsAnytime \/ spec.body \in Ready
    /\ c.at = "passed" => c.slice \in past.passed
    /\ c.at = "blessing" => c.text \in past.approved
    /\ c.at = "starting" =>
        /\ c.text \in past.approved
        /\ <<c.text, c.plan.made>> \in past.blessed
    /\ Backed(c.state, past)
    /\ Counted(c.plan, past)

\* The inductive invariant.
IInv ==
    /\ TypeOK
    /\ Backed(state, past)
    /\ Counted(plan, past)
    /\ manifest => spec # None
    /\ ApprovedWasReviewed
    /\ \A o \in Operator : Sound(o)

\* What every step does to the history, and what it leaves in the files.
Onward ==
    /\ past.approved \subseteq past'.approved
    /\ past.blessed \subseteq past'.blessed
    /\ past.reviewed \subseteq past'.reviewed
    /\ past.passed \subseteq past'.passed
    /\ spec # None => spec' # None
    /\ plan # None => plan' # None
    /\ EditsAnytime \/ Held \/ spec = None \/ spec'.body = spec.body

-----------------------------------------------------------------------------
\* Sets that are told apart by the names of their members.
LEMMA Whole ==
    /\ NewState \in State
    /\ Idle \in Command
    /\ NewState.approval = None /\ NewState.planApproval = None /\ NewState.review = None
    /\ \A s \in Slice : NewState.results[s] # "passed"
PROOF BY DEF NewState, State, Idle, Command, Place

\* What is in the files when they are there.
LEMMA Files ==
    ASSUME TypeOK
    PROVE  /\ spec # None => Content \in Text /\ spec.body \in Body /\ spec.mtime \in Nat
           /\ Open \in State /\ Open.approval = state.approval
           /\ Open.planApproval = state.planApproval
           /\ Open.review = state.review /\ Open.results = state.results
           /\ plan # None => plan \in Plan
PROOF BY DEF TypeOK, Content, Text, Open, State

\* Beginning, continuing and ending a command.
LEMMA GoKeeps ==
    ASSUME TypeOK, NEW o \in Operator, NEW place \in Place, NEW s \in Slice \cup {None},
           NEW read \in State, NEW text \in Text \cup {None}, NEW p \in Plan \cup {None},
           Go(o, place, s, read, text, p)
    PROVE  /\ running' \in [Operator -> Command] /\ begun' \in 0 .. MaxCommands
           /\ running'[o] = [at |-> place, slice |-> s, state |-> read, text |-> text, plan |-> p,
                        ready |-> FALSE]
           /\ \A q \in Operator \ {o} : running'[q] = running[q]
PROOF
<1>1. [at |-> place, slice |-> s, state |-> read, text |-> text, plan |-> p,
                        ready |-> FALSE] \in Command
  BY DEF Command
<1>2. begun' \in 0 .. MaxCommands
  BY NumberAssumption DEF Go, TypeOK
<1> QED BY <1>1, <1>2 DEF Go, TypeOK

LEMMA StepKeeps ==
    ASSUME TypeOK, NEW o \in Operator, NEW place \in Place, Step(o, place)
    PROVE  /\ running' \in [Operator -> Command] /\ begun' \in 0 .. MaxCommands
           /\ running'[o] = [running[o] EXCEPT !.at = place]
           /\ \A q \in Operator \ {o} : running'[q] = running[q]
PROOF
<1>1. [running[o] EXCEPT !.at = place] \in Command
  BY DEF Command, TypeOK
<1> QED BY <1>1 DEF Step, TypeOK

LEMMA DoneKeeps ==
    ASSUME TypeOK, NEW o \in Operator, Done(o)
    PROVE  /\ running' \in [Operator -> Command] /\ begun' \in 0 .. MaxCommands
           /\ running'[o] = Idle
           /\ \A q \in Operator \ {o} : running'[q] = running[q]
PROOF BY Whole DEF Done, TypeOK

\* An idle operator is sound.
LEMMA IdleSound == ASSUME NEW o \in Operator, running'[o] = Idle PROVE Sound(o)'
PROOF BY Whole DEF Sound, Idle, WithPlan, Backed, Counted

\* What the history backs, a longer one backs.
LEMMA BackedOn ==
    ASSUME NEW h \in Past, NEW k \in Past,
           h.approved \subseteq k.approved, h.blessed \subseteq k.blessed,
           h.reviewed \subseteq k.reviewed, h.passed \subseteq k.passed
    PROVE  /\ \A st \in State : Backed(st, h) => Backed(st, k)
           /\ \A p \in Plan \cup {None} : Counted(p, h) => Counted(p, k)
PROOF
<1>1. ASSUME NEW st \in State, Backed(st, h) PROVE Backed(st, k)
  BY <1>1 DEF Backed
<1>2. ASSUME NEW p \in Plan \cup {None}, Counted(p, h) PROVE Counted(p, k)
  BY <1>2 DEF Counted, Plan
<1> QED BY <1>1, <1>2

\* What one operator does leaves the others sound.
LEMMA OthersSound ==
    ASSUME IInv, TypeOK', Onward, NEW q \in Operator, running'[q] = running[q]
    PROVE  Sound(q)'
PROOF
<1>1. Sound(q)
  BY DEF IInv
<1>2. running[q] \in Command /\ past \in Past /\ past' \in Past
  BY DEF IInv, TypeOK
<1>3. running[q].state \in State /\ running[q].plan \in Plan \cup {None}
  BY <1>2 DEF Command
<1>4. Backed(running[q].state, past') /\ Counted(running[q].plan, past')
  BY <1>1, <1>2, <1>3, BackedOn DEF Sound, Onward
<1>5. ASSUME running[q].at \in {"approving", "approved"}
      PROVE  /\ EditsAnytime \/ spec'.body \in past'.reviewed
             /\ running[q].at = "approved" => EditsAnytime \/ spec'.body \in Ready
  <2>1. ~Held /\ spec # None
    BY <1>1, <1>5 DEF Held, At, Sound
  <2> QED BY <1>1, <1>5, <2>1 DEF Sound, Onward
<1> QED BY <1>1, <1>4, <1>5 DEF Sound, Onward

\* A step of one operator keeps the invariant if the files and what the operator
\* has read are sound after it.
LEMMA OneStep ==
    ASSUME IInv, TypeOK', Onward, NEW o \in Operator, Sound(o)',
           \A q \in Operator \ {o} : running'[q] = running[q],
           Backed(state, past)', Counted(plan, past)', manifest' => spec' # None,
           ApprovedWasReviewed'
    PROVE  IInv'
PROOF
<1>1. \A q \in Operator : Sound(q)'
  BY OthersSound
<1> QED BY <1>1 DEF IInv

LEMMA InitIInv == Init => IInv
PROOF
<1> SUFFICES ASSUME Init PROVE IInv
  OBVIOUS
<1>1. TypeOK
  <2>1. past \in Past
    <3>1. {} \subseteq Text \X Nat /\ {} \subseteq Nat /\ 0 \in Nat
      OBVIOUS
    <3> QED BY <3>1 DEF Init, Past
  <2>2. begun \in 0 .. MaxCommands /\ manifest \in BOOLEAN
    BY NumberAssumption, 0 \in 0 .. MaxCommands DEF Init
  <2>3. running \in [Operator -> Command] /\ state \in State
    BY Whole DEF Init
  <2> QED BY <2>1, <2>2, <2>3 DEF Init, TypeOK
<1>2. Backed(state, past) /\ Counted(plan, past) /\ ~manifest
  BY Whole DEF Init, Backed, Counted
<1>3. \A o \in Operator : Sound(o)
  <2> SUFFICES ASSUME NEW o \in Operator PROVE Sound(o)
    OBVIOUS
  <2>1. running[o] = Idle
    BY DEF Init
  <2>2. Backed(NewState, past) /\ Counted(None, past)
    BY Whole DEF Backed, Counted
  <2> QED BY <2>1, <2>2 DEF Sound, Idle, WithPlan
<1>4. ApprovedWasReviewed
  BY DEF Init, ApprovedWasReviewed
<1> QED BY <1>1, <1>2, <1>3, <1>4 DEF IInv

-----------------------------------------------------------------------------
(***************************************************************************)
(* Steps that begin, that end and that continue a command.                 *)
(***************************************************************************)
\* The files and the history after a step, as the lemmas below want them.
Written ==
    /\ spec' \in [body : Body, status : Status, mtime : Nat] \cup {None}
    /\ state' \in State
    /\ plan' \in Plan \cup {None}
    /\ past' \in Past
    /\ manifest' = manifest
    /\ Onward
    /\ Backed(state', past')
    /\ Counted(plan', past')
    /\ ApprovedWasReviewed'

LEMMA Begins ==
    ASSUME IInv, Written, spec' # None,
           NEW o \in Operator, NEW place \in Place, NEW s \in Slice \cup {None},
           NEW read \in State, NEW text \in Text \cup {None}, NEW p \in Plan \cup {None},
           Go(o, place, s, read, text, p),
           place \notin {"approved", "passed"},
           place = "approving" => EditsAnytime \/ spec'.body \in past'.reviewed,
           place \in WithPlan => plan' # None,
           place \in {"analysing", "reviewing", "blessing", "starting"} => text # None,
           place \in {"planning", "starting", "closing"} => p # None,
           place \in {"verifying", "passed", "failed"} => s \in Slice,
           place = "blessing" => text \in past'.approved,
           place = "starting" => /\ text \in past'.approved
                                 /\ <<text, p.made>> \in past'.blessed,
           Backed(read, past'), Counted(p, past')
    PROVE  IInv'
PROOF
<1>1. /\ running' \in [Operator -> Command] /\ begun' \in 0 .. MaxCommands
      /\ running'[o] = [at |-> place, slice |-> s, state |-> read, text |-> text, plan |-> p,
                        ready |-> FALSE]
      /\ \A q \in Operator \ {o} : running'[q] = running[q]
  BY GoKeeps DEF IInv
<1>2. TypeOK'
  BY <1>1 DEF IInv, TypeOK, Written
<1>3. Sound(o)'
  BY <1>1 DEF Sound
<1> QED BY <1>1, <1>2, <1>3, OneStep DEF Written

LEMMA Ends ==
    ASSUME IInv, Written, NEW o \in Operator, Done(o)
    PROVE  IInv'
PROOF
<1>1. /\ running' \in [Operator -> Command] /\ begun' \in 0 .. MaxCommands
      /\ running'[o] = Idle
      /\ \A q \in Operator \ {o} : running'[q] = running[q]
  BY DoneKeeps DEF IInv
<1>2. TypeOK'
  BY <1>1 DEF IInv, TypeOK, Written
<1>3. Sound(o)'
  BY <1>1, IdleSound
<1>4. manifest' => spec' # None
  BY DEF IInv, Written, Onward
<1> QED BY <1>1, <1>2, <1>3, <1>4, OneStep DEF Written

\* A step to a place where what the command has read matters as it did before.
LEMMA Continues ==
    ASSUME IInv, Written, NEW o \in Operator, running[o].at # "idle",
           NEW place \in {"approved", "passed", "failed", "closed", "planned"}, Step(o, place),
           place = "approved" => /\ running[o].at = "approving" /\ spec'.body = spec.body
                                 /\ spec.body \in Ready,
           place \in {"passed", "failed"} => running[o].at = "verifying",
           place = "passed" => running[o].slice \in past'.passed,
           place = "closed" => running[o].at = "closing"
    PROVE  IInv'
PROOF
<1> place \in Place
  BY DEF Place
<1>1. /\ running' \in [Operator -> Command] /\ begun' \in 0 .. MaxCommands
      /\ running'[o] = [running[o] EXCEPT !.at = place]
      /\ \A q \in Operator \ {o} : running'[q] = running[q]
  BY StepKeeps DEF IInv
<1>2. TypeOK'
  BY <1>1 DEF IInv, TypeOK, Written
<1>3. running[o] \in Command /\ Sound(o) /\ past \in Past
  BY DEF IInv, TypeOK
<1>4. /\ running'[o].at = place
      /\ running'[o].slice = running[o].slice
      /\ running'[o].state = running[o].state
      /\ running'[o].plan = running[o].plan
  BY <1>1, <1>3 DEF Command
<1>5. Backed(running[o].state, past') /\ Counted(running[o].plan, past')
  BY <1>3, BackedOn DEF Sound, Command, Written, Onward
<1>6. Sound(o)'
  BY <1>3, <1>4, <1>5 DEF Sound, Written, Onward, WithPlan
<1>7. manifest' => spec' # None
  BY DEF IInv, Written, Onward
<1> QED BY <1>1, <1>2, <1>6, <1>7, OneStep DEF Written

-----------------------------------------------------------------------------
(***************************************************************************)
(* Every action keeps the invariant.                                       *)
(***************************************************************************)
\* The files when a step writes none of them.
LEMMA Untouched ==
    ASSUME IInv, UNCHANGED <<spec, state, plan, manifest, past>>
    PROVE  Written
PROOF
<1>1. ApprovedWasReviewed'
  BY DEF IInv, ApprovedWasReviewed
<1> QED BY <1>1 DEF IInv, TypeOK, Written, Onward

\* The files when a step writes the state only, and the history grows.
LEMMA StateWritten ==
    ASSUME IInv, UNCHANGED <<spec, plan, manifest>>, state' \in State, past' \in Past,
           past.approved \subseteq past'.approved,
           past.blessed \subseteq past'.blessed, past.reviewed \subseteq past'.reviewed,
           past.passed \subseteq past'.passed, Backed(state', past'), ApprovedWasReviewed'
    PROVE  Written
PROOF
<1>1. past \in Past /\ plan \in Plan \cup {None} /\ Counted(plan, past)
  BY DEF IInv, TypeOK
<1>2. Counted(plan', past')
  BY <1>1, BackedOn
<1> QED BY <1>2 DEF IInv, TypeOK, Written, Onward

\* A history that has no new approval.
LEMMA NothingApproved ==
    ASSUME IInv, past'.approved = past.approved, past.reviewed \subseteq past'.reviewed
    PROVE  ApprovedWasReviewed'
PROOF BY DEF IInv, ApprovedWasReviewed

\* The files when a step writes the spec, or a plan that is counted.
LEMMA FileWritten ==
    ASSUME IInv, UNCHANGED <<state, manifest, past>>, plan' \in Plan \cup {None},
           spec' \in [body : Body, status : Status, mtime : Nat] \cup {None},
           spec # None => spec' # None, plan # None => plan' # None, Counted(plan', past),
           spec = None \/ spec'.body = spec.body
    PROVE  Written
PROOF
<1>1. ApprovedWasReviewed'
  BY DEF IInv, ApprovedWasReviewed
<1> QED BY <1>1 DEF IInv, TypeOK, Written, Onward

\* What the state backs, it backs with another status, review or result.
LEMMA OpenBacked ==
    ASSUME IInv
    PROVE  /\ Backed(Open, past) /\ Backed(NewState, past) /\ Counted(None, past)
           /\ Backed([Open EXCEPT !.approval = None], past)
           /\ Backed([Open EXCEPT !.planApproval = None], past)
           /\ [Open EXCEPT !.approval = None] \in State
           /\ [Open EXCEPT !.planApproval = None] \in State
           /\ \A s \in Slice : \A r \in {"none", "started", "passed", "failed"} :
                 /\ [Open EXCEPT !.results[s] = r] \in State
                 /\ \A h \in Past : Backed(Open, h) /\ (r = "passed" => s \in h.passed)
                       => Backed([Open EXCEPT !.results[s] = r], h)
           /\ \A t \in {"closed", "released"} :
                 /\ [state EXCEPT !.status = t] \in State
                 /\ Backed([state EXCEPT !.status = t], past)
PROOF
<1>1. /\ state \in State /\ Open \in State /\ Backed(state, past)
      /\ Open.approval = state.approval /\ Open.planApproval = state.planApproval
      /\ Open.review = state.review /\ Open.results = state.results
  BY Files DEF IInv, TypeOK
<1>2. Backed(Open, past)
  BY <1>1 DEF Backed
<1>3. Backed(NewState, past) /\ Counted(None, past)
  BY Whole DEF Backed, Counted
<1>4. LET st == [Open EXCEPT !.approval = None] IN st \in State /\ Backed(st, past)
  BY <1>1, <1>2 DEF Backed, State
<1>5. LET st == [Open EXCEPT !.planApproval = None] IN st \in State /\ Backed(st, past)
  BY <1>1, <1>2 DEF Backed, State
<1>6. ASSUME NEW s \in Slice, NEW r \in {"none", "started", "passed", "failed"}
      PROVE  LET st == [Open EXCEPT !.results[s] = r] IN
             /\ st \in State
             /\ \A h \in Past : Backed(Open, h) /\ (r = "passed" => s \in h.passed) => Backed(st, h)
  <2>1. [Open.results EXCEPT ![s] = r] \in [Slice -> {"none", "started", "passed", "failed"}]
    BY <1>1 DEF State
  <2>2. [Open EXCEPT !.results[s] = r] = [Open EXCEPT !.results = [Open.results EXCEPT ![s] = r]]
    BY <1>1 DEF State
  <2> DEFINE st == [Open EXCEPT !.results[s] = r]
  <2>3. /\ st \in State /\ st.review = Open.review /\ st.approval = Open.approval
        /\ st.planApproval = Open.planApproval /\ st.results = [Open.results EXCEPT ![s] = r]
    BY <1>1, <2>1, <2>2 DEF State
  <2> HIDE DEF st
  <2>4. ASSUME NEW h \in Past, Backed(Open, h), r = "passed" => s \in h.passed PROVE Backed(st, h)
    <3>1. \A q \in Slice : st.results[q] = "passed" => q \in h.passed
      BY <1>1, <2>3, <2>4 DEF Backed, State
    <3> QED BY <2>3, <2>4, <3>1 DEF Backed
  <2> QED BY <2>3, <2>4 DEF st
<1>7. ASSUME NEW t \in {"closed", "released"}
      PROVE  LET st == [state EXCEPT !.status = t] IN st \in State /\ Backed(st, past)
  BY <1>1 DEF Backed, State
<1> QED BY <1>1, <1>2, <1>3, <1>4, <1>5, <1>6, <1>7

\* Commands that only read before they have something to do.
LEMMA ReadingStep ==
    ASSUME IInv, NEW o \in Operator, Review(o) \/ ReviewHash(o) \/ Approve(o)
    PROVE  IInv'
PROOF
<1> Written
  BY Untouched DEF Review, ReviewHash, Approve
<1>1. CASE Review(o)
  <2>1. Content \in Text /\ spec # None
    BY <1>1, Files DEF IInv, Review
  <2> QED BY <1>1, <2>1, Begins, OpenBacked, Whole, NoneAssumption
          DEF Review, Place, WithPlan
<1>2. CASE Approve(o)
  <2>1. spec # None /\ spec.body \in past.reviewed
    BY <1>2 DEF Approve, Reviewed, Content, IInv, Backed
  <2> QED BY <1>2, <2>1, Begins, OpenBacked, NoneAssumption DEF Approve, Place, WithPlan
<1>3. CASE ReviewHash(o)
  <2>1. /\ running[o] \in Command /\ Sound(o) /\ running[o].at = "analysing"
        /\ running \in [Operator -> Command]
    BY <1>3 DEF ReviewHash, At, IInv, TypeOK
  <2>2. Content \in Text /\ Content # None
    BY <2>1, Files, NoneAssumption DEF IInv, Sound
  <2> DEFINE ready == running[o].text.body \in Ready
             next == [running[o] EXCEPT !.at = "reviewing", !.text = Content, !.ready = ready]
  <2>3. running' = [running EXCEPT ![o] = next] /\ begun' = begun /\ ready \in BOOLEAN
    BY <1>3 DEF ReviewHash
  <2> HIDE DEF ready
  <2>4. /\ next \in Command /\ next.at = "reviewing" /\ next.text = Content
        /\ next.state = running[o].state /\ next.plan = running[o].plan
    BY <2>1, <2>2, <2>3 DEF Command, Place
  <2> HIDE DEF next
  <2>5. /\ running' \in [Operator -> Command] /\ running'[o] = next
        /\ \A q \in Operator \ {o} : running'[q] = running[q]
    BY <2>1, <2>3, <2>4
  <2>6. TypeOK'
    BY <2>3, <2>5 DEF IInv, TypeOK, Written
  <2>7. UNCHANGED <<spec, plan, past>> /\ spec # None
    BY <1>3, <2>1 DEF ReviewHash, Sound
  <2>8. Sound(o)'
    BY <2>1, <2>2, <2>4, <2>5, <2>7 DEF Sound, WithPlan
  <2>9. manifest' => spec' # None
    BY <1>3, <2>7
  <2> QED BY <2>5, <2>6, <2>8, <2>9, OneStep DEF Written
<1> QED BY <1>1, <1>2, <1>3

\* Commands that write a file and have its state to write.
LEMMA WritingStep ==
    ASSUME IInv, NEW o \in Operator, Create(o) \/ MakePlan(o) \/ Promote(o)
    PROVE  IInv'
PROOF
<1>1. CASE Create(o)
  <2>1. /\ spec' \in [body : Body, status : Status, mtime : Nat] /\ plan \in Plan \cup {None}
        /\ Counted(plan, past) /\ spec' # None
    BY <1>1, BodyAssumption, NoneAssumption DEF Create, Status, IInv, TypeOK
  <2>2. Written
    BY <1>1, <2>1, FileWritten DEF Create
  <2> QED BY <1>1, <2>1, <2>2, Begins, OpenBacked, Whole, SMTT(30) DEF Create, Place, WithPlan
<1>2. CASE MakePlan(o)
  <2>1. PICK second \in Seconds :
          /\ Go(o, "planning", None, NewState, None, NewPlan(second))
          /\ past' = [past EXCEPT !.clock = second,
                                 !.again = @ \cup {n \in {second} : n = past.clock}]
    BY <1>2 DEF MakePlan
  <2>2. past \in Past /\ second \in Nat
    BY DEF IInv, TypeOK, Past, Seconds
  <2> DEFINE more == {n \in {second} : n = past.clock}
  <2>3. more \subseteq Nat /\ past' = [past EXCEPT !.clock = second, !.again = @ \cup more]
    BY <2>1, <2>2
  <2> HIDE DEF more
  <2>4. /\ past' \in Past /\ past'.approved = past.approved
        /\ past'.blessed = past.blessed /\ past'.reviewed = past.reviewed
        /\ past'.passed = past.passed
    BY <2>2, <2>3 DEF Past
  <2>5. NewPlan(second) \in Plan /\ \A s \in Slice : NewPlan(second).marks[s] = "ready"
    BY <2>2 DEF NewPlan, Plan, Mark
  <2> DEFINE new == NewPlan(second)
  <2>6. new \in Plan /\ new # None /\ Counted(new, past')
    BY <2>5, NoneAssumption DEF Counted
  <2>7. Go(o, "planning", None, NewState, None, new)
    BY <2>1
  <2> HIDE DEF new
  <2>8. Backed(NewState, past')
    BY Whole DEF Backed
  <2>9. Written /\ spec' # None
    <3>1. UNCHANGED <<spec, state, plan, manifest>> /\ spec # None
      BY <1>2 DEF MakePlan
    <3>2. state \in State /\ Backed(state, past)
      BY DEF IInv, TypeOK
    <3>3. Backed(state', past')
      BY <2>2, <2>4, <3>1, <3>2, BackedOn
    <3> QED BY <2>4, <3>1, <3>2, <3>3, NothingApproved, StateWritten
  <2> QED BY <2>6, <2>7, <2>8, <2>9, Begins, Whole DEF Place, WithPlan
<1>3. CASE Promote(o)
  <2>1. past \in Past /\ spec # None
    BY <1>3 DEF IInv, TypeOK, Promote
  <2>2. Written
    <3>1. ApprovedWasReviewed'
      BY <1>3 DEF Promote, IInv, ApprovedWasReviewed
    <3> QED BY <1>3, <2>1, <3>1, StateWritten, OpenBacked DEF Promote
  <2> QED BY <1>3, <2>1, <2>2, Begins, OpenBacked, Whole, SMTT(40) DEF Promote, Place, WithPlan
<1> QED BY <1>1, <1>2, <1>3

\* Commands that need a plan.
LEMMA PlanStep ==
    ASSUME IInv, NEW o \in Operator,
           PlanApprove(o) \/ Close(o) \/ \E s \in Slice : Start(o, s) \/ Verify(o, s)
    PROVE  IInv'
PROOF
<1> Written
  BY Untouched DEF PlanApprove, Close, Start, Verify
<1>1. spec # None /\ plan # None /\ plan \in Plan /\ Content \in Text /\ spec' # None /\ plan' # None
  BY Files DEF IInv, PlanApprove, Close, Start, Verify, StartAllowed
<1>2. Content # None /\ Counted(plan, past) /\ Backed(state, past)
  BY <1>1, NoneAssumption DEF IInv
<1>3. SpecApproved => Content \in past.approved
  BY <1>2 DEF SpecApproved, Backed
<1>4. CASE PlanApprove(o)
  BY <1>1, <1>2, <1>3, <1>4, Begins, OpenBacked, NoneAssumption
     DEF PlanApprove, Place, WithPlan
<1>5. CASE Close(o)
  <2> DEFINE closing == [plan EXCEPT !.marks = [s \in Slice |-> "closed"]]
  <2>1. closing \in Plan /\ closing.made = plan.made /\ \A s \in Slice : s \in past.passed
    <3>1. \A s \in Slice : Verified(s)
      BY <1>5 DEF Close
    <3> QED BY <1>1, <1>2, <3>1 DEF Plan, Mark, Verified, Counted, Backed
  <2>2. Counted(closing, past) /\ closing # None
    BY <1>1, <1>2, <2>1, NoneAssumption DEF Counted
  <2>3. UNCHANGED past /\ Go(o, "closing", None, [state EXCEPT !.status = "closed"], None, closing)
    BY <1>5 DEF Close
  <2> HIDE DEF closing
  <2> QED BY <1>1, <2>1, <2>2, <2>3, Begins, OpenBacked DEF Place, WithPlan
<1>6. ASSUME NEW s \in Slice, Start(o, s) PROVE IInv'
  <2>1. state.planApproval = [spec |-> Content, plan |-> plan] /\ SpecApproved
    BY <1>6 DEF Start, StartAllowed, PlanApproved
  <2>2. [spec |-> Content, plan |-> plan] \in Approval
    BY <1>1 DEF Approval
  <2>3. <<Content, plan.made>> \in past.blessed
    BY <1>2, <2>1, <2>2, NoneAssumption DEF Backed
  <2> DEFINE read == [Open EXCEPT !.results[s] = "started"]
  <2>4. read \in State /\ Backed(read, past)
    BY OpenBacked DEF IInv, TypeOK
  <2>5. UNCHANGED past /\ Go(o, "starting", s, read, Content, plan)
    BY <1>6 DEF Start
  <2> HIDE DEF read
  <2> QED BY <1>1, <1>2, <1>3, <2>1, <2>3, <2>4, <2>5, Begins DEF Place, WithPlan
<1>7. ASSUME NEW s \in Slice, Verify(o, s) PROVE IInv'
  BY <1>1, <1>7, Begins, OpenBacked, Whole, ZenonT(40) DEF Verify, Place, WithPlan
<1> QED BY <1>4, <1>5, <1>6, <1>7

\* Commands that end with the state.
LEMMA SavingStep ==
    ASSUME IInv, NEW o \in Operator,
           \/ CreateSave(o) \/ ReviewSave(o) \/ ApproveSave(o) \/ PlanSave(o)
           \/ PlanApproveSave(o) \/ StartSave(o) \/ CloseSave(o)
    PROVE  IInv'
PROOF
<1>1. /\ past \in Past /\ running[o] \in Command /\ Sound(o)
      /\ state \in State /\ Backed(state, past)
  BY DEF IInv, TypeOK
<1>2. /\ running[o].state \in State /\ Backed(running[o].state, past)
      /\ running[o].text \in Text \cup {None}
  BY <1>1 DEF Command, Sound
<1>3. Open \in State /\ Open.approval = state.approval /\ Open.planApproval = state.planApproval
      /\ Open.review = state.review /\ Open.results = state.results
  BY Files DEF IInv
<1>4. CASE CreateSave(o) \/ PlanSave(o) \/ StartSave(o) \/ CloseSave(o)
  <2>1. UNCHANGED <<spec, plan, manifest, past>> /\ Done(o)
    BY <1>4 DEF CreateSave, PlanSave, StartSave, CloseSave
  <2>2. state' \in State /\ Backed(state', past')
    BY <1>2, <1>4, <2>1, OpenBacked, Whole DEF CreateSave, PlanSave, StartSave, CloseSave
  <2> QED BY <1>1, <2>1, <2>2, NothingApproved, StateWritten, Ends
<1>5. CASE ReviewSave(o)
  <2> DEFINE ready == running[o].ready
             review == [text |-> running[o].text, ready |-> ready, mtime |-> spec.mtime]
  <2>1. /\ running[o].text \in Text /\ spec.mtime \in Nat /\ running[o].text.body \in Body
        /\ ready \in BOOLEAN
    BY <1>1, <1>2, <1>5, Files DEF ReviewSave, At, Sound, IInv, Text, Command
  <2>2. review \in [text : Text, ready : BOOLEAN, mtime : Nat]
    BY <2>1
  <2>3. state' = [Open EXCEPT !.review = review]
    BY <1>5 DEF ReviewSave
  <2> HIDE DEF review
  <2>4. state' \in State /\ state'.approval = state.approval
        /\ state'.planApproval = state.planApproval
    BY <1>3, <2>2, <2>3 DEF State
  <2>5. state'.results = state.results /\ state'.review = review
    BY <1>3, <2>2, <2>3 DEF State
  <2> DEFINE more == {b \in {running[o].text.body} : ready}
  <2>6. /\ past' = [past EXCEPT !.reviewed = @ \cup more] /\ more \subseteq Body
        /\ ready => running[o].text.body \in more
    BY <1>5, <2>1 DEF ReviewSave
  <2>7. review.ready = ready /\ review.text = running[o].text
    BY DEF review
  <2> HIDE DEF more
  <2>8. /\ past' \in Past
        /\ past'.approved = past.approved /\ past'.blessed = past.blessed
        /\ past'.reviewed = past.reviewed \cup more /\ past'.passed = past.passed
    BY <1>1, <2>6 DEF Past
  <2>9. Backed(state', past')
    BY <1>1, <2>4, <2>5, <2>6, <2>7, <2>8 DEF Backed
  <2>10. UNCHANGED <<spec, plan, manifest>> /\ Done(o)
    BY <1>5 DEF ReviewSave
  <2> QED BY <1>1, <2>4, <2>8, <2>9, <2>10, NothingApproved, StateWritten, Ends
<1>6. CASE ApproveSave(o)
  <2>1. Content \in Text
    BY <1>1, <1>6, Files DEF ApproveSave, At, Sound, IInv
  <2>2. /\ state' = [running[o].state EXCEPT !.approval = Content]
        /\ past' = [past EXCEPT !.approved = @ \cup {Content}]
        /\ UNCHANGED <<spec, plan, manifest>> /\ Done(o)
    BY <1>6 DEF ApproveSave
  <2>3. /\ state' \in State /\ state'.approval = Content
        /\ state'.planApproval = running[o].state.planApproval
        /\ state'.review = running[o].state.review /\ state'.results = running[o].state.results
    BY <1>2, <2>1, <2>2 DEF State
  <2>4. /\ past' \in Past
        /\ past'.approved = past.approved \cup {Content} /\ past'.blessed = past.blessed
        /\ past'.reviewed = past.reviewed /\ past'.passed = past.passed
    BY <1>1, <2>1, <2>2 DEF Past
  <2>5. Backed(state', past')
    BY <1>2, <2>3, <2>4 DEF Backed
  <2>6. EditsAnytime \/ Content.body \in Ready \cap past.reviewed
    BY <1>1, <1>6 DEF ApproveSave, At, Sound, Content
  <2>7. ApprovedWasReviewed'
    BY <2>4, <2>6 DEF IInv, ApprovedWasReviewed
  <2> QED BY <1>1, <2>2, <2>3, <2>4, <2>5, <2>7, StateWritten, Ends
<1>7. CASE PlanApproveSave(o)
  <2> DEFINE approval == [spec |-> running[o].text, plan |-> plan]
  <2>1. running[o].text \in Text /\ plan \in Plan /\ Counted(plan, past)
    BY <1>1, <1>2, <1>7, Files DEF PlanApproveSave, At, Sound, WithPlan, IInv
  <2>2. approval \in Approval /\ plan # None /\ plan.made \in Nat
    BY <2>1, NoneAssumption DEF Approval, Plan
  <2>3. /\ state' = [running[o].state EXCEPT !.planApproval = approval]
        /\ past' = [past EXCEPT !.blessed = @ \cup {<<running[o].text, plan.made>>}]
        /\ UNCHANGED <<spec, plan, manifest>> /\ Done(o)
    BY <1>7 DEF PlanApproveSave
  <2>4. approval.spec = running[o].text /\ approval.plan = plan
    OBVIOUS
  <2> HIDE DEF approval
  <2>5. /\ state' \in State /\ state'.approval = running[o].state.approval
        /\ state'.planApproval = approval
        /\ state'.review = running[o].state.review /\ state'.results = running[o].state.results
    BY <1>2, <2>2, <2>3 DEF State
  <2>6. <<running[o].text, plan.made>> \in Text \X Nat
    BY <2>1, <2>2
  <2>7. /\ past' \in Past /\ past'.approved = past.approved
        /\ past'.blessed = past.blessed \cup {<<running[o].text, plan.made>>}
        /\ past'.reviewed = past.reviewed /\ past'.passed = past.passed
    BY <1>1, <2>3, <2>6 DEF Past
  <2>9. Backed(state', past')
    BY <1>2, <2>4, <2>5, <2>7 DEF Backed
  <2> QED BY <1>1, <2>3, <2>5, <2>7, <2>9, NothingApproved, StateWritten, Ends
<1> QED BY <1>4, <1>5, <1>6, <1>7

\* Commands that end with another file, or with nothing.
LEMMA EndingStep ==
    ASSUME IInv, NEW o \in Operator, VerifyMark(o) \/ PromoteWrite(o) \/ Quit(o)
    PROVE  IInv'
PROOF
<1>1. running[o] \in Command /\ Sound(o) /\ Counted(plan, past)
      /\ spec \in [body : Body, status : Status, mtime : Nat] \cup {None}
      /\ plan \in Plan \cup {None}
  BY DEF IInv, TypeOK
<1>2. CASE VerifyMark(o)
  <2>1. running[o].at \in {"passed", "failed"} /\ plan \in Plan /\ plan # None
    BY <1>1, <1>2 DEF VerifyMark, At, Sound, WithPlan
  <2>2. running[o].at \in Mark
    BY <2>1 DEF Mark
  <2> DEFINE s == running[o].slice
             marks == [plan.marks EXCEPT ![s] = running[o].at]
  <2>3. plan' = [plan EXCEPT !.marks = marks] /\ marks \in [Slice -> Mark]
    BY <1>2, <2>1, <2>2 DEF VerifyMark, Plan
  <2> HIDE DEF marks
  <2>4. plan' \in Plan /\ plan'.made = plan.made /\ plan'.marks = marks
    BY <2>1, <2>3 DEF Plan
  <2>5. running[o].at = "passed" => s \in past.passed
    BY <1>1 DEF Sound
  <2>6. \A q \in Slice : marks[q] \in {"passed", "closed"} => q \in past.passed
    BY <1>1, <2>1, <2>5 DEF Counted, Plan, marks
  <2>7. plan' # None /\ Counted(plan', past)
    BY <1>1, <2>1, <2>4, <2>6, NoneAssumption DEF Counted
  <2> QED BY <1>1, <1>2, <2>4, <2>7, FileWritten, Ends DEF VerifyMark
<1>3. CASE PromoteWrite(o)
  <2>1. spec # None
    BY <1>1, <1>3 DEF PromoteWrite, At, Sound
  <2>2. /\ spec' \in [body : Body, status : Status, mtime : Nat] /\ spec' # None
        /\ spec'.body = spec.body
    BY <1>1, <1>3, <2>1, NoneAssumption DEF PromoteWrite, Rewritten, Status
  <2> QED BY <1>1, <1>3, <2>2, FileWritten, Ends DEF PromoteWrite
<1>4. CASE Quit(o)
  BY <1>4, Untouched, Ends DEF Quit
<1> QED BY <1>2, <1>3, <1>4

\* Commands that have written one file of two.
LEMMA HalfwayStep ==
    ASSUME IInv, NEW o \in Operator,
           \/ ApproveWrite(o) \/ CloseWrite(o) \/ PlanWrite(o)
           \/ \E result \in {"passed", "failed"} : VerifySave(o, result)
    PROVE  IInv'
PROOF
<1>1. /\ running[o] \in Command /\ Sound(o) /\ Counted(plan, past)
      /\ past \in Past /\ state \in State /\ Backed(state, past)
      /\ spec \in [body : Body, status : Status, mtime : Nat] \cup {None}
      /\ plan \in Plan \cup {None}
  BY DEF IInv, TypeOK, Past
<1>2. CASE ApproveWrite(o)
  <2>1. spec # None /\ running[o].at = "approving"
    BY <1>1, <1>2 DEF ApproveWrite, At, Sound
  <2>2. /\ spec' \in [body : Body, status : Status, mtime : Nat] /\ spec' # None
        /\ spec'.body = spec.body
    BY <1>1, <1>2, <2>1, NoneAssumption DEF ApproveWrite, Rewritten, Status
  <2>3. Written
    BY <1>1, <1>2, <2>2, FileWritten DEF ApproveWrite
  <2> QED BY <1>2, <2>1, <2>2, <2>3, Continues DEF ApproveWrite
<1>3. CASE CloseWrite(o) \/ PlanWrite(o)
  <2>1. /\ running[o].at = IF CloseWrite(o) THEN "closing" ELSE "planning"
        /\ plan' = running[o].plan
    BY <1>3 DEF CloseWrite, PlanWrite, At
  <2>2. plan' \in Plan \cup {None} /\ plan' # None /\ Counted(plan', past)
    BY <1>1, <2>1 DEF Command, Sound
  <2>3. Written
    BY <1>1, <1>3, <2>2, FileWritten DEF CloseWrite, PlanWrite
  <2> QED BY <1>3, <2>1, <2>3, Continues DEF CloseWrite, PlanWrite
<1>4. ASSUME NEW result \in {"passed", "failed"}, VerifySave(o, result) PROVE IInv'
  <2> DEFINE s == running[o].slice
             more == {p \in {s} : result = "passed"}
  <2>1. running[o].at = "verifying" /\ s \in Slice
    BY <1>1, <1>4 DEF VerifySave, At, Sound
  <2>2. /\ state' = [Open EXCEPT !.results[s] = result]
        /\ past' = [past EXCEPT !.passed = @ \cup more] /\ more \subseteq Slice
        /\ result = "passed" => s \in more
    BY <1>4, <2>1 DEF VerifySave
  <2> HIDE DEF more
  <2>3. /\ past' \in Past
        /\ past'.approved = past.approved /\ past'.blessed = past.blessed
        /\ past'.reviewed = past.reviewed /\ past'.passed = past.passed \cup more
    BY <1>1, <2>2 DEF Past
  <2>4. Backed(Open, past')
    <3>1. Open \in State /\ Backed(Open, past)
      BY OpenBacked, Files DEF IInv
    <3> QED BY <1>1, <2>3, <3>1, BackedOn
  <2>5. state' \in State /\ Backed(state', past')
    BY <2>1, <2>2, <2>3, <2>4, OpenBacked
  <2>6. Written
    BY <1>1, <1>4, <2>3, <2>5, NothingApproved, StateWritten DEF VerifySave
  <2>7. result = "passed" => s \in past'.passed
    BY <2>2, <2>3
  <2> QED BY <1>4, <2>1, <2>6, <2>7, Continues DEF VerifySave
<1> QED BY <1>2, <1>3, <1>4

\* What happens outside the commands of an operator.
LEMMA OutsideStep ==
    ASSUME IInv, Cut \/ \E body \in Body : Edit(body)
    PROVE  IInv'
PROOF
<1>1. /\ spec \in [body : Body, status : Status, mtime : Nat] \cup {None}
      /\ UNCHANGED <<state, plan, running, begun, past>>
  BY DEF IInv, TypeOK, Cut, Edit
<1>2. /\ spec' \in [body : Body, status : Status, mtime : Nat] /\ spec' # None
      /\ manifest' \in BOOLEAN
  <2>1. CASE Cut
    BY <1>1, <2>1 DEF Cut
  <2>2. ASSUME NEW body \in Body, Edit(body)
        PROVE  spec' \in [body : Body, status : Status, mtime : Nat] /\ manifest' = manifest
    BY <1>1, <2>2 DEF Edit, Rewritten
  <2>3. manifest \in BOOLEAN
    BY DEF IInv, TypeOK
  <2> QED BY <2>1, <2>2, <2>3, NoneAssumption DEF Cut
<1>3. TypeOK' /\ Onward
  <2>1. EditsAnytime \/ Held \/ spec = None \/ spec'.body = spec.body
    BY DEF Cut, Edit, Held
  <2> QED BY <1>1, <1>2, <2>1 DEF IInv, TypeOK, Onward
<1>4. \A q \in Operator : Sound(q)'
  BY <1>1, <1>3, OthersSound
<1>5. Backed(state, past)' /\ Counted(plan, past)'
  BY <1>1 DEF IInv
<1> QED BY <1>1, <1>2, <1>3, <1>4, <1>5, NothingApproved DEF IInv

LEMMA NextIInv == IInv /\ [Next]_vars => IInv'
PROOF
<1> SUFFICES ASSUME IInv, [Next]_vars PROVE IInv'
  OBVIOUS
<1>1. CASE UNCHANGED vars
  BY <1>1 DEF vars, IInv, TypeOK, Sound, ApprovedWasReviewed
<1>2. CASE Cut \/ \E body \in Body : Edit(body)
  BY <1>2, OutsideStep
<1>3. ASSUME NEW o \in Operator,
             \/ Create(o) \/ CreateSave(o)
             \/ Review(o) \/ ReviewHash(o) \/ ReviewSave(o)
             \/ Approve(o) \/ ApproveWrite(o) \/ ApproveSave(o)
             \/ MakePlan(o) \/ PlanWrite(o) \/ PlanSave(o)
             \/ PlanApprove(o) \/ PlanApproveSave(o)
             \/ \E s \in Slice : Start(o, s) \/ Verify(o, s)
             \/ StartSave(o)
             \/ \E result \in {"passed", "failed"} : VerifySave(o, result)
             \/ VerifyMark(o)
             \/ Close(o) \/ CloseWrite(o) \/ CloseSave(o)
             \/ Promote(o) \/ PromoteWrite(o)
             \/ Quit(o)
      PROVE IInv'
  BY <1>3, ReadingStep, WritingStep, PlanStep, SavingStep, EndingStep, HalfwayStep
<1> QED BY <1>1, <1>2, <1>3 DEF Next

LEMMA Invariance == Spec => []IInv
PROOF BY InitIInv, NextIInv, PTL DEF Spec

-----------------------------------------------------------------------------
(***************************************************************************)
(* The theorems.                                                           *)
(***************************************************************************)
\* Files, commands and history stay well typed: no command ever writes a plan it
\* has not read, or marks one that is not there (features.py 92-119).
THEOREM TypeCorrect == Spec => []TypeOK
PROOF
<1>1. IInv => TypeOK
  BY DEF IInv
<1> QED BY <1>1, Invariance, PTL

\* The gate of slice start (features.py 1006-1029) holds however commands
\* interleave, are killed and undo each other's writes.
THEOREM Gate == Spec => []StartedAsApproved
PROOF
<1>1. IInv => StartedAsApproved
  BY DEF IInv, Sound, StartedAsApproved, At
<1> QED BY <1>1, Invariance, PTL

\* The approval gate (features.py 552-581): what spec approve approves is a body that
\* its own analysis finds ready and whose hash a review has on record as ready, for
\* every spec that is not saved while it runs; also if it was saved while a review ran.
THEOREM Reviewing == Spec => []ApprovedWasReviewed
PROOF
<1>1. IInv => ApprovedWasReviewed
  BY DEF IInv
<1> QED BY <1>1, Invariance, PTL

\* No slice is closed that never passed (workflows.py 664-690), though the two
\* files that tell so are written one after the other and over each other.
THEOREM Closing == Spec => []ClosedWasVerified
PROOF
<1>1. IInv => ClosedWasVerified
  BY DEF IInv, Counted, ClosedWasVerified
<1> QED BY <1>1, Invariance, PTL

\* Seconds that something bears: the plan file, an approval, or the plan that an
\* operator other than o is going to write or compare.
Borne(o, m) ==
    \/ plan # None /\ plan.made = m
    \/ \E b \in past.blessed : b[2] = m
    \/ \E q \in Operator \ {o} : running[q].plan # None /\ running[q].plan.made = m

\* No second is later than the clock, and the one of a plan about to be written is
\* borne by nothing else, unless more plans were made in it.
Dated ==
    /\ \A o \in Operator : \A m \in Nat : Borne(o, m) => m <= past.clock
    /\ \A o \in Operator : running[o].plan # None => running[o].plan.made <= past.clock
    /\ \A o \in Operator : \A m \in Nat \ past.again :
        At(o, "planning") /\ running[o].plan.made = m => ~Borne(o, m)

\* What a step of an operator that makes no plan does with the plans there are.
HandsOn(o) ==
    /\ past'.clock = past.clock /\ past'.again = past.again
    /\ \A q \in Operator \ {o} : running'[q] = running[q]
    /\ plan' # None => \/ plan # None /\ plan'.made = plan.made
                       \/ /\ running[o].plan # None /\ plan'.made = running[o].plan.made
                          /\ ~At(o, "planning")'
    /\ running'[o].plan # None =>
        \/ running[o].plan # None /\ running'[o].plan.made = running[o].plan.made
        \/ plan # None /\ running'[o].plan.made = plan.made
    /\ At(o, "planning")' => running'[o] = running[o] /\ plan' = plan /\ past' = past
    /\ \A b \in past'.blessed : b \in past.blessed \/ (plan # None /\ b[2] = plan.made)

\* A new plan (features.py 911-928) is under no approval there is or may yet be
\* written back.
\* What beginning, continuing and ending do to the place and plan of a command.
LEMMA Moves ==
    ASSUME TypeOK, NEW o \in Operator
    PROVE  /\ \A place, s, read, text, p : Go(o, place, s, read, text, p) =>
                running'[o].at = place /\ running'[o].plan = p
           /\ \A place : Step(o, place) =>
                running'[o].at = place /\ running'[o].plan = running[o].plan
           /\ Done(o) => running'[o].at = "idle" /\ running'[o].plan = None
           /\ \A place, s, read, text, p :
                Go(o, place, s, read, text, p) \/ Step(o, place) \/ Done(o)
                    => \A q \in Operator \ {o} : running'[q] = running[q]
PROOF
<1>1. running \in [Operator -> Command]
  BY DEF TypeOK
<1>2. running[o] \in Command
  BY <1>1
<1> QED BY <1>1, <1>2 DEF Go, Step, Done, Idle, Command

\* Steps that leave plan and history alone, and forget what plan was read.
LEMMA Forgets ==
    ASSUME TypeOK, NEW o \in Operator,
           \/ Create(o) \/ CreateSave(o) \/ Review(o) \/ Approve(o) \/ PlanSave(o)
           \/ PlanApprove(o) \/ StartSave(o) \/ CloseSave(o)
           \/ Promote(o) \/ PromoteWrite(o) \/ Quit(o)
           \/ \E s \in Slice : Verify(o, s)
    PROVE  HandsOn(o)
PROOF
<1>1. UNCHANGED <<plan, past>>
  BY DEF Create, CreateSave, Review, Approve, PlanSave, PlanApprove, StartSave, CloseSave,
         Promote, PromoteWrite, Quit, Verify
<1>2. CASE Create(o) \/ Review(o) \/ Approve(o) \/ PlanApprove(o) \/ Promote(o)
           \/ \E s \in Slice : Verify(o, s)
  <2>1. PICK place \in {"created", "analysing", "approving", "blessing", "promoted", "verifying"} :
               \E s, read, text : Go(o, place, s, read, text, None)
    BY <1>2 DEF Create, Review, Approve, PlanApprove, Promote, Verify
  <2>2. /\ running'[o].at = place /\ running'[o].plan = None
        /\ \A q \in Operator \ {o} : running'[q] = running[q]
    BY <2>1, Moves
  <2> QED BY <1>1, <2>2 DEF HandsOn, At
<1>3. CASE CreateSave(o) \/ PlanSave(o) \/ StartSave(o) \/ CloseSave(o) \/ PromoteWrite(o)
           \/ Quit(o)
  <2>1. Done(o)
    BY <1>3 DEF CreateSave, PlanSave, StartSave, CloseSave, PromoteWrite, Quit
  <2>2. /\ running'[o].at = "idle" /\ running'[o].plan = None
        /\ \A q \in Operator \ {o} : running'[q] = running[q]
    BY <2>1, Moves
  <2> QED BY <1>1, <2>2 DEF HandsOn, At
<1> QED BY <1>2, <1>3

\* Steps that keep the plan they read, or read one.
LEMMA Reads ==
    ASSUME IInv, NEW o \in Operator,
           ReviewHash(o) \/ ApproveWrite(o) \/ Close(o) \/ \E s \in Slice : Start(o, s)
    PROVE  HandsOn(o)
PROOF
<1>1. UNCHANGED <<plan, past>> /\ TypeOK /\ running[o] \in Command
  BY DEF ReviewHash, ApproveWrite, Close, Start, IInv, TypeOK
<1>2. CASE ReviewHash(o)
  <2>1. /\ running'[o].at = "reviewing" /\ running'[o].plan = running[o].plan
        /\ \A q \in Operator \ {o} : running'[q] = running[q]
    BY <1>1, <1>2 DEF ReviewHash, TypeOK, Command
  <2> QED BY <1>1, <2>1 DEF HandsOn, At
<1>3. CASE ApproveWrite(o)
  <2>1. /\ running'[o].at = "approved" /\ running'[o].plan = running[o].plan
        /\ \A q \in Operator \ {o} : running'[q] = running[q]
    BY <1>1, <1>3, Moves DEF ApproveWrite
  <2> QED BY <1>1, <2>1 DEF HandsOn, At
<1>4. CASE Close(o)
  <2> DEFINE closing == [plan EXCEPT !.marks = [s \in Slice |-> "closed"]]
  <2>1. plan # None /\ Go(o, "closing", None, [state EXCEPT !.status = "closed"], None, closing)
    BY <1>4 DEF Close
  <2>2. closing.made = plan.made
    BY <1>1, <2>1 DEF TypeOK, Plan
  <2> HIDE DEF closing
  <2>3. /\ running'[o].at = "closing" /\ running'[o].plan = closing
        /\ \A q \in Operator \ {o} : running'[q] = running[q]
    BY <1>1, <2>1, Moves
  <2> QED BY <1>1, <2>1, <2>2, <2>3 DEF HandsOn, At
<1>5. ASSUME NEW s \in Slice, Start(o, s) PROVE HandsOn(o)
  <2>1. plan # None /\ Go(o, "starting", s, [Open EXCEPT !.results[s] = "started"], Content, plan)
    BY <1>5 DEF Start, StartAllowed
  <2>2. /\ running'[o].at = "starting" /\ running'[o].plan = plan
        /\ \A q \in Operator \ {o} : running'[q] = running[q]
    BY <1>1, <2>1, Moves
  <2> QED BY <1>1, <2>1, <2>2 DEF HandsOn, At
<1> QED BY <1>2, <1>3, <1>4, <1>5

\* Steps that add to the history.
LEMMA Remembers ==
    ASSUME IInv, NEW o \in Operator,
           \/ ReviewSave(o) \/ ApproveSave(o) \/ PlanApproveSave(o)
           \/ \E result \in {"passed", "failed"} : VerifySave(o, result)
    PROVE  HandsOn(o)
PROOF
<1>1. TypeOK /\ past \in Past /\ Sound(o) /\ plan' = plan
  BY DEF IInv, TypeOK, ReviewSave, ApproveSave, PlanApproveSave, VerifySave
<1>2. CASE ReviewSave(o) \/ ApproveSave(o)
  <2>1. Done(o) /\ past'.clock = past.clock /\ past'.again = past.again
        /\ past'.blessed = past.blessed
    BY <1>1, <1>2 DEF ReviewSave, ApproveSave, Past
  <2>2. /\ running'[o].at = "idle" /\ running'[o].plan = None
        /\ \A q \in Operator \ {o} : running'[q] = running[q]
    BY <1>1, <2>1, Moves
  <2> QED BY <1>1, <2>1, <2>2 DEF HandsOn, At
<1>3. CASE PlanApproveSave(o)
  <2>1. Done(o) /\ plan # None
    BY <1>1, <1>3 DEF PlanApproveSave, At, Sound, WithPlan
  <2> DEFINE pair == <<running[o].text, plan.made>>
  <2>2. past' = [past EXCEPT !.blessed = @ \cup {pair}] /\ pair[2] = plan.made
    BY <1>3 DEF PlanApproveSave
  <2> HIDE DEF pair
  <2>3. past'.clock = past.clock /\ past'.again = past.again
        /\ past'.blessed = past.blessed \cup {pair}
    BY <1>1, <2>2 DEF Past
  <2>4. /\ running'[o].at = "idle" /\ running'[o].plan = None
        /\ \A q \in Operator \ {o} : running'[q] = running[q]
    BY <1>1, <2>1, Moves
  <2> QED BY <1>1, <2>1, <2>2, <2>3, <2>4 DEF HandsOn, At
<1>4. ASSUME NEW result \in {"passed", "failed"}, VerifySave(o, result) PROVE HandsOn(o)
  <2>1. Step(o, result) /\ past'.clock = past.clock /\ past'.again = past.again
        /\ past'.blessed = past.blessed
    BY <1>1, <1>4 DEF VerifySave, Past
  <2>2. /\ running'[o].at = result /\ running'[o].plan = running[o].plan
        /\ \A q \in Operator \ {o} : running'[q] = running[q]
    BY <1>1, <2>1, Moves
  <2> QED BY <1>1, <2>1, <2>2 DEF HandsOn, At
<1> QED BY <1>2, <1>3, <1>4

\* Steps that write the plan file.
LEMMA Writes ==
    ASSUME IInv, NEW o \in Operator, VerifyMark(o) \/ PlanWrite(o) \/ CloseWrite(o)
    PROVE  HandsOn(o)
PROOF
<1>1. TypeOK /\ past' = past /\ Sound(o) /\ plan \in Plan \cup {None}
  BY DEF IInv, TypeOK, VerifyMark, PlanWrite, CloseWrite
<1>2. CASE VerifyMark(o)
  <2>1. Done(o) /\ plan # None
    BY <1>1, <1>2 DEF VerifyMark, At, Sound, WithPlan
  <2>2. plan'.made = plan.made
    BY <1>1, <1>2, <2>1 DEF VerifyMark, Plan
  <2>3. /\ running'[o].at = "idle" /\ running'[o].plan = None
        /\ \A q \in Operator \ {o} : running'[q] = running[q]
    BY <1>1, <2>1, Moves
  <2> QED BY <1>1, <2>1, <2>2, <2>3 DEF HandsOn, At
<1>3. CASE PlanWrite(o) \/ CloseWrite(o)
  <2>1. PICK place \in {"planned", "closed"} : Step(o, place) /\ plan' = running[o].plan
    BY <1>3 DEF PlanWrite, CloseWrite
  <2>2. running[o].plan # None
    BY <1>1, <1>3 DEF PlanWrite, CloseWrite, At, Sound
  <2>3. /\ running'[o].at = place /\ running'[o].plan = running[o].plan
        /\ \A q \in Operator \ {o} : running'[q] = running[q]
    BY <1>1, <2>1, Moves
  <2> QED BY <1>1, <2>1, <2>2, <2>3 DEF HandsOn, At
<1> QED BY <1>2, <1>3

LEMMA DatedInit == Init => Dated
PROOF
<1> SUFFICES ASSUME Init PROVE Dated
  OBVIOUS
<1>1. \A o \in Operator : running[o].at = "idle" /\ running[o].plan = None
  BY DEF Init, Idle
<1>2. plan = None /\ past.blessed = {}
  BY DEF Init
<1> QED BY <1>1, <1>2 DEF Dated, Borne, At

\* A new plan bears a second of its own, or one that is noted.
LEMMA PlanDated ==
    ASSUME IInv, Dated, NEW o \in Operator, MakePlan(o)
    PROVE  Dated'
PROOF
<1>1. PICK second \in Seconds :
        /\ Go(o, "planning", None, NewState, None, NewPlan(second))
        /\ past' = [past EXCEPT !.clock = second,
                               !.again = @ \cup {n \in {second} : n = past.clock}]
  BY DEF MakePlan
<1>2. past \in Past /\ past.clock \in Nat /\ past.again \subseteq Nat /\ plan' = plan
  BY DEF IInv, TypeOK, Past, MakePlan
<1>3. second \in Nat /\ past.clock <= second
  BY <1>2 DEF Seconds
<1> DEFINE more == {n \in {second} : n = past.clock}
<1>4. /\ past' = [past EXCEPT !.clock = second, !.again = @ \cup more]
      /\ second = past.clock => second \in more
  BY <1>1
<1> HIDE DEF more
<1>5. /\ past'.clock = second /\ past'.again = past.again \cup more
      /\ past'.blessed = past.blessed
  BY <1>2, <1>4 DEF Past
<1>6. /\ running'[o].at = "planning" /\ running'[o].plan.made = second
      /\ \A q \in Operator \ {o} : running'[q] = running[q]
  <2>1. running'[o].at = "planning" /\ running'[o].plan = NewPlan(second)
        /\ \A q \in Operator \ {o} : running'[q] = running[q]
    BY <1>1, Moves DEF IInv
  <2>2. NewPlan(second).made = second
    BY DEF NewPlan
  <2> QED BY <2>1, <2>2
<1>7. \A q \in Operator : \A m \in Nat : Borne(q, m)' => m = second \/ Borne(q, m)
  BY <1>2, <1>5, <1>6 DEF Borne
<1>8. \A m \in Nat : Borne(o, m)' => Borne(o, m)
  BY <1>2, <1>5, <1>6 DEF Borne
<1>9. \A q \in Operator : \A m \in Nat : Borne(q, m)' => m <= past'.clock
  <2> SUFFICES ASSUME NEW q \in Operator, NEW m \in Nat, Borne(q, m)' PROVE m <= second
    BY <1>5
  <2>1. CASE m = second
    BY <1>3, <2>1
  <2>2. CASE Borne(q, m)
    <3>1. m <= past.clock
      BY <2>2 DEF Dated
    <3> QED BY <1>2, <1>3, <3>1
  <2> QED BY <1>7, <2>1, <2>2
<1>10. ASSUME NEW q \in Operator, running'[q].plan # None PROVE running'[q].plan.made <= past'.clock
  <2>1. CASE q = o
    BY <1>3, <1>5, <1>6, <2>1
  <2>2. CASE q # o
    <3>1. running[q].plan # None /\ running'[q].plan = running[q].plan
      BY <1>6, <1>10, <2>2
    <3>2. running[q].plan.made <= past.clock /\ running[q].plan.made \in Nat
      BY <3>1 DEF Dated, IInv, TypeOK, Command, Plan
    <3> QED BY <1>2, <1>3, <1>5, <3>1, <3>2
  <2> QED BY <2>1, <2>2
<1>11. ASSUME NEW q \in Operator, NEW m \in Nat, m \notin past'.again, At(q, "planning")',
              running'[q].plan.made = m
       PROVE  ~Borne(q, m)'
  <2>1. CASE q = o
    <3>1. m = second /\ m # past.clock
      BY <1>4, <1>5, <1>6, <1>11, <2>1
    <3>2. ~Borne(o, m)
      BY <1>2, <1>3, <3>1 DEF Dated
    <3> QED BY <1>8, <2>1, <3>2
  <2>2. CASE q # o
    <3>1. running'[q] = running[q] /\ running[q].at = "planning"
      BY <1>6, <1>11, <2>2 DEF At
    <3>2. m <= past.clock
      <4>1. running[q].plan # None
        BY <3>1 DEF IInv, Sound
      <4> QED BY <1>11, <3>1, <4>1 DEF Dated
    <3>3. m \notin past.again /\ m # second
      <4>1. m \notin past.again /\ m \notin more
        BY <1>5, <1>11
      <4> QED BY <1>2, <1>3, <1>4, <3>2, <4>1
    <3>4. ~Borne(q, m)
      BY <1>11, <3>1, <3>3 DEF Dated, At
    <3> QED BY <1>7, <3>3, <3>4
  <2> QED BY <2>1, <2>2
<1> QED BY <1>9, <1>10, <1>11 DEF Dated

\* What is carried from file to command and back bears no new second.
LEMMA CarriedDated ==
    ASSUME IInv, Dated, NEW o \in Operator, HandsOn(o)
    PROVE  Dated'
PROOF
<1>1. past \in Past /\ past.clock \in Nat /\ past'.clock = past.clock /\ past'.again = past.again
  BY DEF IInv, TypeOK, Past, HandsOn
<1>2. ASSUME NEW m \in Nat, NEW q \in Operator, Borne(q, m)'
      PROVE  m <= past.clock
  <2>1. plan # None => (plan.made = m => m <= past.clock)
    BY DEF Dated, Borne
  <2>2. \A b \in past.blessed : b[2] = m => m <= past.clock
    BY DEF Dated, Borne
  <2>3. \A p \in Operator : running[p].plan # None => (running[p].plan.made = m => m <= past.clock)
    BY DEF Dated
  <2> QED BY <1>2, <2>1, <2>2, <2>3 DEF Borne, HandsOn
<1>3. ASSUME NEW q \in Operator, running'[q].plan # None PROVE running'[q].plan.made <= past.clock
  <2>1. plan # None => plan.made <= past.clock
    <3>1. plan # None => plan.made \in Nat
      BY DEF IInv, TypeOK, Plan
    <3> QED BY <3>1 DEF Dated, Borne
  <2>2. \A p \in Operator : running[p].plan # None => running[p].plan.made <= past.clock
    BY DEF Dated
  <2> QED BY <1>3, <2>1, <2>2 DEF HandsOn
<1>4. ASSUME NEW q \in Operator, NEW m \in Nat, m \notin past.again, At(q, "planning")',
             running'[q].plan.made = m
      PROVE  ~Borne(q, m)'
  <2>1. CASE q = o
    <3>1. running'[o] = running[o] /\ plan' = plan /\ past' = past /\ running[o].at = "planning"
      BY <1>4, <2>1 DEF HandsOn, At
    <3>2. ~Borne(o, m)
      BY <1>4, <2>1, <3>1 DEF Dated, At
    <3> QED BY <2>1, <3>1, <3>2 DEF Borne, HandsOn
  <2>2. CASE q # o
    <3>1. running'[q] = running[q] /\ running[q].at = "planning"
      BY <1>4, <2>2 DEF HandsOn, At
    <3>2. ~Borne(q, m)
      BY <1>4, <3>1 DEF Dated, At
    <3>3. ~(running[o].plan # None /\ running[o].plan.made = m)
      BY <2>2, <3>2 DEF Borne
    <3> QED BY <2>2, <3>2, <3>3 DEF Borne, HandsOn
  <2> QED BY <2>1, <2>2
<1> QED BY <1>1, <1>2, <1>3, <1>4 DEF Dated

LEMMA NextDated == IInv /\ Dated /\ [Next]_vars => Dated'
PROOF
<1> SUFFICES ASSUME IInv, Dated, [Next]_vars PROVE Dated'
  OBVIOUS
<1>1. CASE UNCHANGED <<plan, running, past>>
  BY <1>1 DEF Dated, Borne, At
<1>2. ASSUME NEW o \in Operator,
             \/ Create(o) \/ CreateSave(o)
             \/ Review(o) \/ ReviewHash(o) \/ ReviewSave(o)
             \/ Approve(o) \/ ApproveWrite(o) \/ ApproveSave(o)
             \/ MakePlan(o) \/ PlanWrite(o) \/ PlanSave(o)
             \/ PlanApprove(o) \/ PlanApproveSave(o)
             \/ \E s \in Slice : Start(o, s) \/ Verify(o, s)
             \/ StartSave(o)
             \/ \E result \in {"passed", "failed"} : VerifySave(o, result)
             \/ VerifyMark(o)
             \/ Close(o) \/ CloseWrite(o) \/ CloseSave(o)
             \/ Promote(o) \/ PromoteWrite(o)
             \/ Quit(o)
      PROVE Dated'
  <2>1. MakePlan(o) \/ HandsOn(o)
    BY <1>2, Forgets, Reads, Remembers, Writes DEF IInv
  <2> QED BY <2>1, PlanDated, CarriedDated
<1>3. Cut \/ (\E body \in Body : Edit(body)) \/ UNCHANGED vars
        => UNCHANGED <<plan, running, past>>
  BY DEF Cut, Edit, vars
<1> QED BY <1>1, <1>2, <1>3 DEF Next

\* A plan written again (features.py 914-970) is under no approval there is or may yet
\* be written back, unless another was made in the same second (state.py 9-10).
THEOREM Disarmed == Spec => RemakingDisarms
PROOF
<1>1. ASSUME IInv, Dated, NEW o \in Operator, PlanWrite(o),
             running[o].plan.made \notin past.again, StartAllowed'
      PROVE  FALSE
  <2>1. /\ plan' = running[o].plan /\ running[o].at = "planning"
        /\ UNCHANGED <<spec, state, past>> /\ Sound(o)
    BY <1>1 DEF PlanWrite, At, IInv
  <2>2. plan' \in Plan /\ plan' # None /\ spec # None
    BY <1>1, <2>1 DEF Sound, IInv, TypeOK, Command
  <2>3. Content' = Content /\ Content \in Text
    BY <1>1, <2>1, <2>2, Files DEF IInv, Content
  <2>4. state.planApproval = [spec |-> Content, plan |-> plan']
    BY <1>1, <2>1, <2>3 DEF StartAllowed, PlanApproved
  <2>5. [spec |-> Content, plan |-> plan'] \in Approval
    BY <2>2, <2>3 DEF Approval
  <2>6. <<Content, plan'.made>> \in past.blessed
    BY <1>1, <2>4, <2>5, NoneAssumption DEF IInv, Backed
  <2> DEFINE m == plan'.made
  <2>7. m \in Nat /\ m \notin past.again /\ running[o].plan.made = m
    BY <1>1, <2>1, <2>2 DEF Plan
  <2>8. \E b \in past.blessed : b[2] = m
    BY <2>6
  <2> HIDE DEF m
  <2>9. ~Borne(o, m)
    BY <1>1, <2>1, <2>7 DEF Dated, At
  <2> QED BY <2>8, <2>9 DEF Borne
<1>2. Spec => []Dated
  BY DatedInit, NextDated, Invariance, PTL DEF Spec
<1>3. IInv /\ Dated /\ [Next]_vars =>
        [\A o \in Operator :
            PlanWrite(o) /\ running[o].plan.made \notin past.again => ~StartAllowed']_vars
  BY <1>1
<1> QED BY <1>2, <1>3, Invariance, PTL DEF Spec, RemakingDisarms

-----------------------------------------------------------------------------
(***************************************************************************)
(* The release chain.                                                      *)
(***************************************************************************)
\* A release is cut once, in one shell.
OneCut == ~Forced /\ \A s, t \in Cutters : s = t

Working == {"promote", "verify", "save"}
RanFor(m, env) == UNION {Ran(f, env) : f \in m.features}

\* A promotion on record, and a command that may put one there.
SmokeNeeded(targets, env) == \E r \in targets : RepoContract(r, env).smoke
Smoked(p) == p.verdict = "passed" /\ SmokeNeeded(p.targets, p.env) => p.ran # {}
WillSmoke(op) == SmokeNeeded(Targets(op.m, op.choice.repos), op.env) => RanFor(op.m, op.env) # {}

\* The manifest: nothing yet, or that of a cut with what was added to it.
Kept(m) ==
    /\ DOMAIN m = {"features", "refs", "promotions", "verifications"}
    /\ m.features \in SUBSET Features
    /\ Exists(m) => /\ DOMAIN m.refs = ReposOf(m.features)
                    /\ \A r \in DOMAIN m.refs : IsFiniteSet(m.refs[r])
    /\ \A p \in m.promotions : Smoked(p)

\* What a promotion was let through with.
Chosen(op) ==
    /\ Resolvable(DOMAIN op.m.refs, op.asked, op.only, op.env)
    /\ op.choice = Resolve(DOMAIN op.m.refs, op.asked, op.only, op.env)
    /\ Refusals(op.m, op.env, op.skip, op.choice) = {}

\* What a command in progress carries.
Carries(op) ==
    /\ op.step = "cut" => Exists(op) /\ op.features \subseteq Features
    /\ op.step \in {"candidates", "mark", "markFront"} =>
         "todo" \in DOMAIN op /\ op.todo \subseteq Features
    /\ op.step = "markFront" => op.feature \in op.todo
    /\ op.step \in Working =>
         /\ {"step", "env", "m", "choice", "verdict", "ran"} \subseteq DOMAIN op
         /\ Kept(op.m) /\ Exists(op.m)
         /\ op.step = "promote" => Chosen(op)
         /\ op.choice # NoChoice => WillSmoke(op)
         /\ op.step = "save" /\ op.verdict = "passed" => op.ran = RanFor(op.m, op.env)

ChainTypes ==
    /\ stateFile \in [Features -> [status : {"approved", "released"}, candidate : BOOLEAN]]
    /\ front \in [Features -> {"approved", "released"}]
    /\ DOMAIN session = Sessions /\ session = [s \in Sessions |-> session[s]]

FromItsRef(d) ==
    Providers[d.provider].source /\ d.configured = Unset =>
        \A r \in DOMAIN d.refs : d.refs[r] = {d.source}

ByItsOwn(d) ==
    d.asked = Unset =>
        \A r \in Candidates(ReposOf(d.features), d.only) : ProviderFor(r, d.env) \in {Unset, d.provider}

Deployed(env, features) == \E d \in deployed : d.env = env /\ d.features = features
Vouched(env, features) == \E v \in vouched : v.env = env /\ v.features = features

Justified(f) ==
    /\ \E d \in deployed : d.env = "production" /\ f \in d.features
    /\ \E v \in vouched : v.env = "production" /\ f \in v.features

\* Where there is one cut, a command's copy is of the release that there is, and what it
\* claims of it has happened.
Sure(s) ==
    LET op == session[s] IN
    /\ op.step = "cut" => s \in Cutters /\ ~Exists(manifestFile)
    /\ op.step \in Working => op.m.features = manifestFile.features
    /\ op.step \in {"verify", "save"} /\ op.choice # NoChoice => Deployed(op.env, op.m.features)
    /\ op.step = "save" /\ op.verdict = "passed" => Vouched(op.env, op.m.features)
    /\ op.step \in {"mark", "markFront"} => \A f \in op.todo : Justified(f)
    /\ op.step = "markFront" => stateFile[op.feature].status = "released"

OneRelease ==
    /\ \A s \in Sessions : Sure(s)
    /\ ReleasedJustified
    /\ \A d \in deployed : ByItsOwn(d)

\* The inductive invariant of the release chain.
ChainInv ==
    /\ ChainTypes
    /\ Kept(manifestFile)
    /\ \A s \in Sessions : Carries(session[s])
    /\ \A d \in deployed : FromItsRef(d)
    /\ OneCut => OneRelease

-----------------------------------------------------------------------------
(***************************************************************************)
(* What the checks give.                                                   *)
(***************************************************************************)
LEMMA OneElement ==
    ASSUME NEW S, IsFiniteSet(S), Cardinality(S) <= 1, NEW x \in S, NEW y \in S
    PROVE  x = y
PROOF
<1>1. Cardinality(S) \in Nat /\ Cardinality(S) # 0
  BY FS_CardinalityType, FS_EmptySet
<1>2. Cardinality(S) = 1
  BY <1>1
<1> QED BY <1>2, FS_Singleton

LEMMA FiniteOnto ==
    ASSUME NEW S, NEW T, IsFiniteSet(S), \E g : g \in Surjection(S, T)
    PROVE  IsFiniteSet(T)
PROOF
<1>1. PICK g : g \in Surjection(S, T)
  OBVIOUS
<1> QED BY <1>1, FS_Surjection

LEMMA ReposFinite ==
    ASSUME NEW features \in SUBSET Features
    PROVE  ReposOf(features) \subseteq Repos /\ IsFiniteSet(ReposOf(features))
PROOF
<1>1. ReposOf(features) \subseteq Repos
  BY RepoAssumption DEF ReposOf, Repos
<1> QED BY <1>1, RepoAssumption, FS_Subset

\* A release that verifies is in order.
LEMMA VerifiedInOrder ==
    ASSUME NEW m, Kept(m), Exists(m), NEW env, NEW world \in Worlds, NEW required,
           ReleaseVerified(m, env, world, required)
    PROVE  InOrder(m.features, env, world)
PROOF
<1>1. DOMAIN m.refs = ReposOf(m.features) /\ ReposOf(m.features) \subseteq Repos
  BY ReposFinite DEF Kept
<1>2. ASSUME NEW r \in ReposOf(m.features) \ {Root}
      PROVE  LET w == world.repo[r] IN
             /\ w.pushed
             /\ \A run \in w.runs : \/ run.state = "accepted"
                                    \/ ~w.github \/ ~w.gh
                                    \/ \E newer \in w.runs : newer.name = run.name /\ Later(newer, run)
  <2> DEFINE w == world.repo[r]
  <2>1. OnOrigin(w) /\ PipelinesPass(w, required)
    BY <1>1, <1>2 DEF ReleaseVerified
  <2>2. ASSUME NEW run \in w.runs, run.state # "accepted", w.github, w.gh
        PROVE  \E newer \in w.runs : newer.name = run.name /\ Later(newer, run)
    <3>1. run \notin LatestRuns(w.runs)
      BY <2>1, <2>2 DEF PipelinesPass
    <3> QED BY <2>2, <3>1 DEF LatestRuns
  <2> QED BY <2>1, <2>2 DEF OnOrigin
<1>3. ASSUME NEW f \in m.features, NEW p \in Profiles[f], p.release,
             p.envs # {} => env \in p.envs
      PROVE  world.tests
  <2>1. p \in Ran(f, env)
    BY <1>3 DEF Ran, Applies
  <2> QED BY <1>3, <2>1 DEF ReleaseVerified, FeaturePasses
<1> QED BY <1>2, <1>3 DEF InOrder

\* A promotion whose repositories demand smoke tests has some to run.
LEMMA PreflightSmoke ==
    ASSUME NEW op, Chosen(op)
    PROVE  WillSmoke(op)
PROOF
<1> DEFINE targets == Targets(op.m, op.choice.repos)
<1>1. SUFFICES ASSUME NEW r \in targets, RepoContract(r, op.env).smoke
               PROVE  RanFor(op.m, op.env) # {}
  BY DEF WillSmoke, SmokeNeeded
<1>2. "smoke" \notin Refusals(op.m, op.env, op.skip, op.choice)
  BY DEF Chosen
<1>3. BlockingProfiles(op.m, op.env) # {}
  <2>1. RepoContract(r, op.env)["smoke"]
    BY <1>1
  <2> HIDE DEF targets
  <2>2. \E x \in targets : RepoContract(x, op.env)["smoke"]
    BY <1>1, <2>1
  <2>3. ~((\E x \in targets : RepoContract(x, op.env)["smoke"]) /\ BlockingProfiles(op.m, op.env) = {})
    BY <1>2 DEF Refusals, targets
  <2> QED BY <2>2, <2>3
<1>4. BlockingProfiles(op.m, op.env) \subseteq RanFor(op.m, op.env)
  BY DEF BlockingProfiles, RanFor, Ran
<1> QED BY <1>3, <1>4

\* Repositories of one promotion name its provider, if any.
LEMMA ProviderOfAll ==
    ASSUME NEW repos, IsFiniteSet(repos), NEW only, NEW env,
           Resolvable(repos, Unset, only, env),
           NEW r \in Candidates(repos, only)
    PROVE  ProviderFor(r, env) \in {Unset, Resolve(repos, Unset, only, env).provider}
PROOF
<1> DEFINE named == Named(repos, only, env)
<1>1. CASE ProviderFor(r, env) = Unset
  BY <1>1
<1>2. CASE ProviderFor(r, env) # Unset
  <2>1. ProviderFor(r, env) \in named
    BY <1>2 DEF Named, Selected
  <2>2. IsFiniteSet(named) /\ Cardinality(named) <= 1
    <3>1. IsFiniteSet(Selected(repos, only, env))
      <4>1. CASE only = Unset
        <5>1. Selected(repos, only, env) \subseteq repos
          BY <4>1 DEF Selected, Candidates
        <5> QED BY <5>1, FS_Subset
      <4>2. CASE only # Unset
        <5>1. Selected(repos, only, env) \subseteq {only}
          BY <4>2 DEF Selected, Candidates
        <5> QED BY <5>1, FS_Subset, FS_Singleton
      <4> QED BY <4>1, <4>2
    <3> DEFINE selected == Selected(repos, only, env)
               g == [x \in selected |-> ProviderFor(x, env)]
    <3>3. g \in Surjection(selected, named)
      BY DEF Named, Surjection
    <3> HIDE DEF g, selected, named
    <3>4. IsFiniteSet(selected)
      BY <3>1 DEF selected
    <3>5. \E h : h \in Surjection(selected, named)
      BY <3>3
    <3>2. IsFiniteSet(named)
      BY <3>4, <3>5, FiniteOnto
    <3> QED BY <3>2 DEF Resolvable, named
  <2>3. (CHOOSE p \in named : TRUE) \in named
    BY <2>1
  <2> HIDE DEF named
  <2>4. ProviderFor(r, env) = CHOOSE p \in named : TRUE
    BY <2>1, <2>2, <2>3, OneElement
  <2>5. Resolve(repos, Unset, only, env).provider = CHOOSE p \in named : TRUE
    BY <2>1 DEF Resolve, named
  <2> QED BY <2>4, <2>5
<1> QED BY <1>1, <1>2

LEMMA TargetsKnown ==
    ASSUME NEW op, Chosen(op)
    PROVE  Targets(op.m, op.choice.repos) \subseteq DOMAIN op.m.refs
PROOF
<1> DEFINE repos == DOMAIN op.m.refs
<1>1. op.choice.repos = {} \/ (op.asked = Unset /\ op.choice.repos = Selected(repos, op.only, op.env))
  BY DEF Chosen, Resolve
<1>2. CASE op.choice.repos = {}
  BY <1>2 DEF Targets
<1>3. CASE op.asked = Unset /\ op.choice.repos = Selected(repos, op.only, op.env)
  <2>1. op.only = Unset \/ op.only \in repos
    BY <1>3 DEF Chosen, Resolvable
  <2>2. Candidates(repos, op.only) \subseteq repos
    BY <2>1 DEF Candidates
  <2>3. op.choice.repos \subseteq repos
    BY <1>3, <2>2 DEF Selected
  <2> QED BY <2>3 DEF Targets
<1> QED BY <1>1, <1>2, <1>3

\* A branch that is the source of several is that of each of them.
LEMMA OneSource ==
    ASSUME NEW refs, IsFiniteSet(refs), SourceRef(refs) # Unset
    PROVE  refs = {SourceRef(refs)}
PROOF
<1>1. Cardinality(refs) = 1
  BY DEF SourceRef
<1>2. PICK x : refs = {x}
  BY <1>1, FS_Singleton
<1>3. SourceRef(refs) = x
  BY <1>1, <1>2 DEF SourceRef
<1> QED BY <1>2, <1>3

LEMMA SourceOfAll ==
    ASSUME NEW op, Kept(op.m), Exists(op.m), Chosen(op),
           Providers[op.choice.provider].source, Configured(op.choice.env, "source") = Unset,
           NEW r \in Targets(op.m, op.choice.repos)
    PROVE  op.m.refs[r] = {SourceOf(op.m, Targets(op.m, op.choice.repos), op.choice.env)}
PROOF
<1> DEFINE targets == Targets(op.m, op.choice.repos)
           source == SourceRef(Derived(op.m, targets))
<1>1. targets \subseteq DOMAIN op.m.refs /\ IsFiniteSet(targets)
  <2>1. targets \subseteq DOMAIN op.m.refs
    BY TargetsKnown
  <2>2. IsFiniteSet(DOMAIN op.m.refs)
    BY ReposFinite DEF Kept
  <2> QED BY <2>1, <2>2, FS_Subset
<1>2. SourceOf(op.m, targets, op.choice.env) = source
  BY DEF SourceOf
<1>3. source # Unset
  <2>1. "source" \notin Refusals(op.m, op.env, op.skip, op.choice)
    BY DEF Chosen
  <2> HIDE DEF source
  <2>2. ~(Providers[op.choice.provider].source /\ SourceOf(op.m, targets, op.choice.env) = Unset)
    BY <2>1 DEF Refusals
  <2> QED BY <1>2, <2>2
<1>4. IsFiniteSet(Derived(op.m, targets))
  <2> DEFINE D == Derived(op.m, targets)
             g == [x \in targets |-> SourceRef(op.m.refs[x])]
  <2>1. g \in Surjection(targets, D)
    BY DEF Derived, Surjection
  <2> HIDE DEF g, D, targets
  <2>2. \E h : h \in Surjection(targets, D)
    BY <2>1
  <2> QED BY <1>1, <2>2, FiniteOnto DEF D
<1>5. Derived(op.m, targets) = {source}
  BY <1>3, <1>4, OneSource
<1>6. SourceRef(op.m.refs[r]) \in Derived(op.m, targets)
  BY DEF Derived
<1>7. SourceRef(op.m.refs[r]) = source
  BY <1>5, <1>6
<1>8. IsFiniteSet(op.m.refs[r])
  BY <1>1 DEF Kept
<1> HIDE DEF source
<1>9. op.m.refs[r] = {source}
  BY <1>3, <1>7, <1>8, OneSource
<1> QED BY <1>2, <1>9

-----------------------------------------------------------------------------
(***************************************************************************)
(* What a step leaves as it is.                                            *)
(***************************************************************************)
LEMMA Steps ==
    /\ Working = {"promote", "verify", "save"}
    /\ AtRest.step = "idle" /\ Carries(AtRest)
    /\ Kept(NoManifest) /\ ~Exists(NoManifest) /\ DOMAIN NoManifest = {"features", "refs", "promotions", "verifications"}
PROOF BY DEF Working, AtRest, Carries, Kept, NoManifest, Exists

LEMMA ChainFacts ==
    ASSUME ChainInv, NEW s \in Sessions
    PROVE  /\ Carries(session[s]) /\ Kept(manifestFile)
           /\ OneCut => Sure(s) /\ ReleasedJustified /\ \A d \in deployed : ByItsOwn(d)
           /\ stateFile \in [Features -> [status : {"approved", "released"}, candidate : BOOLEAN]]
           /\ front \in [Features -> {"approved", "released"}]
           /\ \A d \in deployed : FromItsRef(d)
PROOF BY DEF ChainInv, ChainTypes, OneRelease

LEMMA SessionStep ==
    ASSUME ChainInv, NEW s \in Sessions, NEW op, Becomes(s, op)
    PROVE  /\ session'[s] = op /\ \A t \in Sessions \ {s} : session'[t] = session[t]
           /\ DOMAIN session' = Sessions /\ session' = [t \in Sessions |-> session'[t]]
PROOF BY DEF ChainInv, ChainTypes, Becomes

\* What holds of a command in another shell goes on to hold.
LEMMA SureStays ==
    ASSUME ChainInv, OneCut, NEW t \in Sessions, session'[t] = session[t],
           \/ manifestFile'.features = manifestFile.features
           \/ session[t].step \notin Working \cup {"cut"},
           deployed \subseteq deployed', vouched \subseteq vouched',
           \A f \in Features : stateFile[f].status = "released" => stateFile'[f].status = "released"
    PROVE  Sure(t)'
PROOF
<1> DEFINE op == session[t]
<1>1. Sure(t) /\ Carries(op)
  BY ChainFacts
<1>2. /\ (op.step = "cut" => t \in Cutters /\ ~Exists(manifestFile))'
      /\ (op.step \in Working => op.m.features = manifestFile.features)'
  BY <1>1, Steps DEF Sure, Exists
<1>3. (op.step \in {"verify", "save"} /\ op.choice # NoChoice => Deployed(op.env, op.m.features))'
  <2>1. Deployed(op.env, op.m.features) => Deployed(op.env, op.m.features)'
    BY DEF Deployed
  <2> QED BY <1>1, <2>1 DEF Sure
<1>4. (op.step = "save" /\ op.verdict = "passed" => Vouched(op.env, op.m.features))'
  <2>1. Vouched(op.env, op.m.features) => Vouched(op.env, op.m.features)'
    BY DEF Vouched
  <2> QED BY <1>1, <2>1 DEF Sure
<1>5. (op.step \in {"mark", "markFront"} => \A f \in op.todo : Justified(f))'
  <2>1. \A f : Justified(f) => Justified(f)'
    BY DEF Justified
  <2> QED BY <1>1, <2>1 DEF Sure
<1>6. (op.step = "markFront" => stateFile[op.feature].status = "released")'
  <2>1. op.step = "markFront" => op.feature \in Features
    BY <1>1 DEF Carries
  <2> QED BY <1>1, <2>1 DEF Sure
<1> QED BY <1>2, <1>3, <1>4, <1>5, <1>6 DEF Sure

LEMMA JustifiedStays ==
    ASSUME ChainInv, OneCut, UNCHANGED front,
           \A f \in Features : stateFile'[f].status = stateFile[f].status,
           deployed \subseteq deployed', vouched \subseteq vouched'
    PROVE  ReleasedJustified'
PROOF
<1>1. ReleasedJustified
  BY DEF ChainInv, OneRelease
<1> QED BY <1>1 DEF ReleasedJustified

\* The parts that a step of one command has to restore.
LEMMA ChainRestored ==
    ASSUME ChainInv, NEW s \in Sessions, NEW op, Becomes(s, op), Carries(op),
           stateFile' \in [Features -> [status : {"approved", "released"}, candidate : BOOLEAN]],
           front' \in [Features -> {"approved", "released"}],
           \A f \in Features : stateFile[f].status = "released" => stateFile'[f].status = "released",
           Kept(manifestFile'),
           deployed \subseteq deployed', vouched \subseteq vouched',
           \A d \in deployed' : FromItsRef(d),
           OneCut => /\ Sure(s)' /\ ReleasedJustified'
                     /\ \A d \in deployed' : ByItsOwn(d)
                     /\ \/ manifestFile'.features = manifestFile.features
                        \/ \A t \in Sessions \ {s} : session[t].step \notin Working \cup {"cut"}
    PROVE  ChainInv'
PROOF
<1>1. /\ session'[s] = op /\ \A t \in Sessions \ {s} : session'[t] = session[t]
      /\ DOMAIN session' = Sessions /\ session' = [t \in Sessions |-> session'[t]]
  BY SessionStep
<1>2. \A t \in Sessions : Carries(session'[t])
  BY <1>1, ChainFacts
<1>3. ASSUME OneCut PROVE OneRelease'
  <2>1. ASSUME NEW t \in Sessions \ {s} PROVE Sure(t)'
    BY <1>1, <1>3, SureStays
  <2>2. \A t \in Sessions : Sure(t)'
    BY <1>3, <2>1
  <2> QED BY <1>3, <2>2 DEF OneRelease
<1>4. ChainTypes'
  BY <1>1 DEF ChainTypes
<1> QED BY <1>2, <1>3, <1>4 DEF ChainInv, OneCut

\* A step that leaves the files and the history.
LEMMA OnlySession ==
    ASSUME ChainInv, NEW s \in Sessions, NEW op, Becomes(s, op), Carries(op),
           UNCHANGED <<manifestFile, stateFile, front, deployed, vouched>>,
           OneCut => Sure(s)'
    PROVE  ChainInv'
PROOF BY ChainFacts, JustifiedStays, ChainRestored

LEMMA ChainInitOK == ChainInit => ChainInv
PROOF
<1> SUFFICES ASSUME ChainInit PROVE ChainInv
  OBVIOUS
<1>1. \A s \in Sessions : session[s] = AtRest
  BY DEF ChainInit
<1>2. ChainTypes /\ Kept(manifestFile)
  BY Steps DEF ChainInit, ChainTypes
<1>3. \A s \in Sessions : Carries(session[s]) /\ Sure(s)
  BY <1>1, Steps DEF Sure
<1>4. OneRelease
  BY <1>3 DEF ChainInit, OneRelease, ReleasedJustified
<1> QED BY <1>2, <1>3, <1>4 DEF ChainInit, ChainInv

-----------------------------------------------------------------------------
(***************************************************************************)
(* The cut.                                                                *)
(***************************************************************************)
LEMMA CutCheckStep == ASSUME ChainInv, NEW s \in Sessions, CutCheck(s) PROVE ChainInv'
PROOF
<1>1. /\ s \in Cutters
      /\ Exists(manifestFile) => Forced
      /\ UNCHANGED <<manifestFile, stateFile, front, deployed, vouched>>
  BY DEF CutCheck
<1>2. PICK features \in (SUBSET Features) \ {{}} : Becomes(s, [step |-> "cut", features |-> features])
  BY DEF CutCheck
<1> DEFINE op == [step |-> "cut", features |-> features]
<1>3. Carries(op)
  BY DEF Carries, Exists, Working
<1>4. session'[s] = op
  BY <1>2, SessionStep
<1>5. OneCut => Sure(s)'
  BY <1>1, <1>4, Steps DEF OneCut, Sure, Exists
<1> QED BY <1>1, <1>2, <1>3, <1>5, OnlySession

LEMMA CutWriteStep == ASSUME ChainInv, NEW s \in Sessions, CutWrite(s) PROVE ChainInv'
PROOF
<1> DEFINE features == session[s].features
           repos == ReposOf(features)
           op == [step |-> "candidates", todo |-> features]
<1>1. /\ session[s].step = "cut" /\ Becomes(s, op)
      /\ UNCHANGED <<stateFile, front, deployed, vouched, commands>>
  BY Zenon DEF CutWrite, AtStep
<1>2. PICK world \in Worlds :
        manifestFile' = [NoManifest EXCEPT !.features = features, !.refs = [r \in repos |-> world.refs[r]]]
  BY Zenon DEF CutWrite
<1>3. features \subseteq Features /\ repos \subseteq Repos
  BY <1>1, ChainFacts, ReposFinite DEF Carries
<1>4. /\ manifestFile'.features = features /\ manifestFile'.refs = [r \in repos |-> world.refs[r]]
      /\ manifestFile'.promotions = {}
      /\ DOMAIN manifestFile' = {"features", "refs", "promotions", "verifications"}
  BY <1>2 DEF NoManifest
<1>5. Kept(manifestFile')
  BY <1>3, <1>4, WorldAssumption DEF Kept
<1>6. Carries(op)
  BY <1>3 DEF Carries, Working
<1>7. session'[s] = op
  BY <1>1, SessionStep
<1>8. ASSUME OneCut PROVE \A t \in Sessions \ {s} : session[t].step \notin Working \cup {"cut"}
  <2>1. s \in Cutters /\ ~Exists(manifestFile)
    BY <1>1, <1>8, ChainFacts DEF Sure
  <2>2. ASSUME NEW t \in Sessions \ {s} PROVE session[t].step \notin Working \cup {"cut"}
    <3>1. Sure(t) /\ Carries(session[t])
      BY <1>8, ChainFacts
    <3>2. session[t].step # "cut"
      BY <1>8, <2>1, <3>1 DEF Sure, OneCut
    <3>3. session[t].step \notin Working
      BY <2>1, <3>1 DEF Sure, Carries, Exists
    <3> QED BY <3>2, <3>3
  <2> QED BY <2>2
<1>9. Sure(s)'
  BY <1>7 DEF Sure, Working
<1> QED BY <1>1, <1>5, <1>6, <1>8, <1>9, ChainFacts, JustifiedStays, ChainRestored

LEMMA CutCandidateStep == ASSUME ChainInv, NEW s \in Sessions, CutCandidate(s) PROVE ChainInv'
PROOF
<1>1. session[s].step = "candidates" /\ UNCHANGED <<manifestFile, front, deployed, vouched, commands>>
  BY DEF CutCandidate, AtStep
<1>2. PICK f \in session[s].todo :
        /\ stateFile' = [stateFile EXCEPT ![f].candidate = TRUE]
        /\ Becomes(s, IF session[s].todo = {f} THEN AtRest ELSE [session[s] EXCEPT !.todo = @ \ {f}])
  BY DEF CutCandidate
<1> DEFINE left == [session[s] EXCEPT !.todo = @ \ {f}]
           op == IF session[s].todo = {f} THEN AtRest ELSE left
<1>3. "todo" \in DOMAIN session[s] /\ session[s].todo \subseteq Features /\ Carries(session[s])
  BY <1>1, ChainFacts DEF Carries
<1>4. left.step = "candidates" /\ left.todo = session[s].todo \ {f} /\ "todo" \in DOMAIN left
  BY <1>1, <1>3
<1>5. Carries(left)
  <2> HIDE DEF left
  <2> QED BY <1>3, <1>4 DEF Carries, Working
<1>6. op.step \in {"idle", "candidates"} /\ Carries(op)
  BY <1>4, <1>5, Steps
<1>7. session'[s] = op
  BY <1>2, SessionStep
<1>8. /\ stateFile' \in [Features -> [status : {"approved", "released"}, candidate : BOOLEAN]]
      /\ \A g \in Features : stateFile'[g].status = stateFile[g].status
  BY <1>2, <1>3, ChainFacts
<1> HIDE DEF op
<1>9. Sure(s)'
  BY <1>6, <1>7 DEF Sure, Working
<1> QED BY <1>1, <1>2, <1>6, <1>8, <1>9, ChainFacts, JustifiedStays, ChainRestored DEF op

-----------------------------------------------------------------------------
(***************************************************************************)
(* Promotion and verification.                                             *)
(***************************************************************************)
LEMMA PromoteCheckStep == ASSUME ChainInv, NEW s \in Sessions, PromoteCheck(s) PROVE ChainInv'
PROOF
<1>1. Exists(manifestFile) /\ UNCHANGED <<manifestFile, stateFile, front, deployed, vouched>>
  BY DEF PromoteCheck
<1> DEFINE repos == DOMAIN manifestFile.refs
           choice(o, env) == Resolve(repos, o.asked, o.only, env)
           new(o, env) == [step |-> "promote", env |-> env, m |-> manifestFile, skip |-> o.skip,
                           only |-> o.only, asked |-> o.asked, choice |-> choice(o, env),
                           verdict |-> Unset, ran |-> {}]
<1>2. PICK env \in Environments, o \in Options :
        /\ Resolvable(repos, o.asked, o.only, env)
        /\ Refusals(manifestFile, env, o.skip, choice(o, env)) = {}
        /\ Becomes(s, new(o, env))
  BY DEF PromoteCheck
<1> DEFINE op == new(o, env)
<1>3. /\ op.step = "promote" /\ op.m = manifestFile /\ op.env = env /\ op.skip = o.skip
      /\ op.only = o.only /\ op.asked = o.asked /\ op.choice = choice(o, env)
      /\ {"step", "env", "m", "choice", "verdict", "ran"} \subseteq DOMAIN op
  OBVIOUS
<1>4. Becomes(s, op)
  BY <1>2
<1> HIDE DEF new, op
<1>5. Chosen(op)
  BY <1>2, <1>3 DEF Chosen
<1>6. Carries(op)
  BY <1>1, <1>3, <1>5, PreflightSmoke, ChainFacts DEF Carries
<1>7. session'[s] = op
  BY <1>4, SessionStep
<1>8. Sure(s)'
  BY <1>1, <1>3, <1>7 DEF Sure
<1> QED BY <1>1, <1>4, <1>6, <1>8, OnlySession

LEMMA RunProviderStep == ASSUME ChainInv, NEW s \in Sessions, RunProvider(s) PROVE ChainInv'
PROOF
<1> DEFINE op == session[s]
           targets == Targets(op.m, op.choice.repos)
           d == [env |-> op.env, provider |-> op.choice.provider, asked |-> op.asked, only |-> op.only,
                 features |-> manifestFile.features, refs |-> [r \in targets |-> op.m.refs[r]],
                 configured |-> Configured(op.choice.env, "source"),
                 source |-> SourceOf(op.m, targets, op.choice.env)]
           next == [op EXCEPT !.step = IF op.skip THEN "save" ELSE "verify",
                              !.verdict = IF op.skip THEN "skipped" ELSE Unset]
<1>1. /\ op.step = "promote" /\ deployed' = deployed \cup {d} /\ Becomes(s, next)
      /\ UNCHANGED <<manifestFile, stateFile, front, vouched, commands>>
  BY DEF RunProvider, AtStep
<1>2. /\ {"step", "env", "m", "choice", "verdict", "ran"} \subseteq DOMAIN op
      /\ Kept(op.m) /\ Exists(op.m) /\ Chosen(op) /\ (op.choice # NoChoice => WillSmoke(op))
  BY <1>1, ChainFacts DEF Carries, Working
<1>3. /\ next.step = (IF op.skip THEN "save" ELSE "verify")
      /\ next.verdict = (IF op.skip THEN "skipped" ELSE Unset)
      /\ next.env = op.env /\ next.m = op.m /\ next.choice = op.choice
      /\ DOMAIN next = DOMAIN op
  BY <1>2
<1>4. /\ d.env = op.env /\ d.provider = op.choice.provider /\ d.asked = op.asked /\ d.only = op.only
      /\ d.features = manifestFile.features /\ d.refs = [r \in targets |-> op.m.refs[r]]
      /\ d.configured = Configured(op.choice.env, "source")
      /\ d.source = SourceOf(op.m, targets, op.choice.env)
  OBVIOUS
<1> HIDE DEF d, next
<1>5. Carries(next)
  <2>1. WillSmoke(op) => WillSmoke(next)
    BY <1>3 DEF WillSmoke
  <2>2. next.step \in {"save", "verify"} /\ next.verdict # "passed"
    BY <1>3 DEF Unset
  <2> QED BY <1>2, <1>3, <2>1, <2>2 DEF Carries, Working
<1>6. FromItsRef(d)
  <2> SUFFICES ASSUME Providers[d.provider].source, d.configured = Unset, NEW r \in DOMAIN d.refs
               PROVE  d.refs[r] = {d.source}
    BY DEF FromItsRef
  <2>1. r \in targets /\ d.refs[r] = op.m.refs[r]
    BY <1>4
  <2>2. op.m.refs[r] = {SourceOf(op.m, targets, op.choice.env)}
    BY <1>2, <1>4, <2>1, SourceOfAll
  <2> QED BY <1>4, <2>1, <2>2
<1>7. ASSUME OneCut PROVE Sure(s)' /\ ByItsOwn(d)
  <2>1. op.m.features = manifestFile.features
    BY <1>1, <1>7, ChainFacts DEF Sure, Working
  <2>2. ByItsOwn(d)
    <3> SUFFICES ASSUME d.asked = Unset, NEW r \in Candidates(ReposOf(d.features), d.only)
                 PROVE  ProviderFor(r, d.env) \in {Unset, d.provider}
      BY DEF ByItsOwn
    <3> DEFINE repos == ReposOf(op.m.features)
    <3>1. DOMAIN op.m.refs = repos /\ IsFiniteSet(repos)
      BY <1>2, ReposFinite DEF Kept
    <3>2. /\ Resolvable(repos, Unset, op.only, op.env)
          /\ op.choice = Resolve(repos, Unset, op.only, op.env)
          /\ r \in Candidates(repos, op.only)
      BY <1>2, <1>4, <2>1, <3>1 DEF Chosen
    <3> HIDE DEF repos
    <3>3. ProviderFor(r, op.env) \in {Unset, Resolve(repos, Unset, op.only, op.env).provider}
      BY <3>1, <3>2, ProviderOfAll
    <3> QED BY <1>4, <3>2, <3>3
  <2>3. \E x \in deployed' : x.env = next.env /\ x.features = next.m.features
    BY <1>1, <1>3, <1>4, <2>1
  <2>4. session'[s] = next
    BY <1>1, SessionStep
  <2>5. next.step \in {"save", "verify"} /\ next.verdict # "passed"
    BY <1>3 DEF Unset
  <2>6. Sure(s)'
    BY <1>1, <1>3, <2>1, <2>3, <2>4, <2>5 DEF Sure, Deployed
  <2> QED BY <2>2, <2>6
<1>8. (\A x \in deployed' : FromItsRef(x)) /\ (OneCut => \A x \in deployed' : ByItsOwn(x))
  BY <1>1, <1>6, <1>7, ChainFacts
<1> QED BY <1>1, <1>5, <1>7, <1>8, ChainFacts, JustifiedStays, ChainRestored

LEMMA VerifyAgainStep == ASSUME ChainInv, NEW s \in Sessions, VerifyAgain(s) PROVE ChainInv'
PROOF
<1>1. Exists(manifestFile) /\ UNCHANGED <<manifestFile, stateFile, front, deployed, vouched>>
  BY DEF VerifyAgain
<1> DEFINE new(env) == [step |-> "verify", env |-> env, m |-> manifestFile, choice |-> NoChoice,
                        verdict |-> Unset, ran |-> {}]
<1>2. PICK env \in Environments : Becomes(s, new(env))
  BY DEF VerifyAgain
<1> DEFINE op == new(env)
<1>3. /\ op.step = "verify" /\ op.m = manifestFile /\ op.choice = NoChoice
      /\ {"step", "env", "m", "choice", "verdict", "ran"} \subseteq DOMAIN op
  OBVIOUS
<1>4. Becomes(s, op)
  BY <1>2
<1> HIDE DEF new, op
<1>5. Carries(op)
  BY <1>1, <1>3, ChainFacts DEF Carries
<1>6. session'[s] = op
  BY <1>4, SessionStep
<1>7. Sure(s)'
  BY <1>1, <1>3, <1>6 DEF Sure
<1> QED BY <1>1, <1>4, <1>5, <1>7, OnlySession

LEMMA RunVerificationStep == ASSUME ChainInv, NEW s \in Sessions, RunVerification(s) PROVE ChainInv'
PROOF
<1> DEFINE op == session[s]
           passes(required, world) == ReleaseVerified(op.m, op.env, world, required)
           done(passed) == [op EXCEPT !.step = "save", !.verdict = IF passed THEN "passed" ELSE "failed",
                                      !.ran = RanFor(op.m, op.env)]
<1>1. op.step = "verify" /\ UNCHANGED <<manifestFile, stateFile, front, deployed>>
  BY DEF RunVerification, AtStep
<1>2. PICK required \in BOOLEAN, world \in Worlds :
        /\ Becomes(s, done(passes(required, world)))
        /\ vouched' = IF passes(required, world) /\ InOrder(op.m.features, op.env, world)
                      THEN vouched \cup {[env |-> op.env, features |-> op.m.features]} ELSE vouched
  BY Zenon DEF RunVerification, RanFor
<1> DEFINE passed == passes(required, world)
           next == done(passed)
<1>3. /\ {"step", "env", "m", "choice", "verdict", "ran"} \subseteq DOMAIN op
      /\ Kept(op.m) /\ Exists(op.m) /\ (op.choice # NoChoice => WillSmoke(op))
  BY <1>1, ChainFacts DEF Carries, Working
<1>4. /\ next.step = "save" /\ next.verdict = (IF passed THEN "passed" ELSE "failed")
      /\ next.ran = RanFor(op.m, op.env)
      /\ next.env = op.env /\ next.m = op.m /\ next.choice = op.choice
      /\ DOMAIN next = DOMAIN op
  BY <1>3
<1>5. Becomes(s, next) /\ vouched \subseteq vouched'
  BY <1>2
<1>6. passed => \E v \in vouched' : v.env = op.env /\ v.features = op.m.features
  <2>1. passed => InOrder(op.m.features, op.env, world)
    BY <1>3, VerifiedInOrder
  <2> DEFINE record == [env |-> op.env, features |-> op.m.features]
  <2>2. record.env = op.env /\ record.features = op.m.features
    OBVIOUS
  <2>3. passed /\ InOrder(op.m.features, op.env, world) => record \in vouched'
    BY <1>2
  <2> HIDE DEF record, passed
  <2> QED BY <2>1, <2>2, <2>3
<1>7. passed <=> next.verdict = "passed"
  BY <1>4
<1> HIDE DEF next, passed
<1>8. Carries(next)
  <2>1. WillSmoke(op) => WillSmoke(next)
    BY <1>4 DEF WillSmoke
  <2> QED BY <1>3, <1>4, <2>1 DEF Carries, Working
<1>9. session'[s] = next
  BY <1>5, SessionStep
<1>10. ASSUME OneCut PROVE Sure(s)'
  <2>1. op.m.features = manifestFile.features /\ (op.choice # NoChoice => Deployed(op.env, op.m.features))
    BY <1>1, <1>10, ChainFacts DEF Sure, Working
  <2> QED BY <1>1, <1>4, <1>6, <1>7, <1>9, <2>1 DEF Sure, Deployed, Vouched
<1> QED BY <1>1, <1>5, <1>8, <1>10, ChainFacts, JustifiedStays, ChainRestored

-----------------------------------------------------------------------------
(***************************************************************************)
(* What is written down.                                                   *)
(***************************************************************************)
LEMMA SaveStep == ASSUME ChainInv, NEW s \in Sessions, Save(s) PROVE ChainInv'
PROOF
<1> DEFINE op == session[s]
           promoted == op.choice # NoChoice
           marks == promoted /\ op.env = "production" /\ op.verdict = "passed"
           promotion == [env |-> op.env, targets |-> Targets(op.m, op.choice.repos),
                         verdict |-> op.verdict, ran |-> op.ran]
           promotions == IF promoted THEN op.m.promotions \cup {promotion} ELSE op.m.promotions
           verifications == IF op.verdict = "skipped" THEN op.m.verifications
                            ELSE op.m.verifications \cup {[env |-> op.env, verdict |-> op.verdict]}
           mark == [step |-> "mark", todo |-> op.m.features]
           next == IF marks THEN mark ELSE AtRest
<1>1. /\ op.step = "save" /\ Becomes(s, next)
      /\ UNCHANGED <<stateFile, front, deployed, vouched>>
  BY DEF Save, AtStep
<1>2. manifestFile' = [op.m EXCEPT !.promotions = promotions, !.verifications = verifications]
  BY DEF Save
<1>3. /\ Kept(op.m) /\ Exists(op.m) /\ (promoted => WillSmoke(op))
      /\ op.verdict = "passed" => op.ran = RanFor(op.m, op.env)
  BY <1>1, ChainFacts DEF Carries, Working
<1>4. /\ manifestFile'.features = op.m.features /\ manifestFile'.refs = op.m.refs
      /\ manifestFile'.promotions = promotions /\ DOMAIN manifestFile' = DOMAIN op.m
  BY <1>2, <1>3 DEF Kept
<1>5. promoted => Smoked(promotion)
  BY <1>3 DEF Smoked, WillSmoke
<1>6. Kept(manifestFile')
  <2>1. \A p \in promotions : Smoked(p)
    BY <1>3, <1>5 DEF Kept
  <2> HIDE DEF promotions
  <2> QED BY <1>3, <1>4, <2>1 DEF Kept, Exists
<1>7. mark.step = "mark" /\ mark.todo = op.m.features /\ "todo" \in DOMAIN mark
  OBVIOUS
<1>8. Carries(next)
  <2>1. Carries(mark)
    <3> HIDE DEF mark
    <3> QED BY <1>3, <1>7 DEF Carries, Working, Kept
  <2> QED BY <2>1, Steps
<1>9. session'[s] = next
  BY <1>1, SessionStep
<1>10. ASSUME OneCut PROVE Sure(s)' /\ manifestFile'.features = manifestFile.features
  <2>1. /\ op.m.features = manifestFile.features
        /\ promoted => Deployed(op.env, op.m.features)
        /\ op.verdict = "passed" => Vouched(op.env, op.m.features)
    BY <1>1, <1>10, ChainFacts DEF Sure, Working
  <2>2. marks => \A f \in op.m.features : Justified(f)
    BY <2>1 DEF Justified, Deployed, Vouched
  <2>3. marks => \A f \in op.m.features : Justified(f)'
    BY <1>1, <2>2 DEF Justified
  <2>4. Sure(s)'
    <3>1. CASE marks
      <4>1. session'[s].step = "mark" /\ session'[s].todo = op.m.features
        BY <1>9, <3>1
      <4> QED BY <2>3, <3>1, <4>1 DEF Sure, Working
    <3>2. CASE ~marks
      <4>1. session'[s].step = "idle"
        BY <1>9, <3>2, Steps
      <4> QED BY <4>1 DEF Sure, Working
    <3> QED BY <3>1, <3>2
  <2> QED BY <1>4, <2>1, <2>4
<1> QED BY <1>1, <1>6, <1>8, <1>10, ChainFacts, JustifiedStays, ChainRestored

LEMMA MarkStateStep == ASSUME ChainInv, NEW s \in Sessions, MarkState(s) PROVE ChainInv'
PROOF
<1> DEFINE todo == session[s].todo
<1>1. session[s].step = "mark" /\ UNCHANGED <<manifestFile, front, deployed, vouched>>
  BY DEF MarkState, AtStep
<1>2. PICK f \in todo : /\ stateFile' = [stateFile EXCEPT ![f].status = "released"]
                        /\ Becomes(s, [step |-> "markFront", todo |-> todo, feature |-> f])
  BY DEF MarkState
<1> DEFINE op == [step |-> "markFront", todo |-> todo, feature |-> f]
<1>3. f \in Features /\ todo \subseteq Features
  BY <1>1, <1>2, ChainFacts DEF Carries
<1>4. op.step = "markFront" /\ op.todo = todo /\ op.feature = f /\ "todo" \in DOMAIN op
  OBVIOUS
<1>5. Becomes(s, op)
  BY <1>2
<1> HIDE DEF op
<1>6. Carries(op)
  BY <1>2, <1>3, <1>4 DEF Carries, Working
<1>7. session'[s] = op
  BY <1>5, SessionStep
<1>8. /\ stateFile' \in [Features -> [status : {"approved", "released"}, candidate : BOOLEAN]]
      /\ stateFile'[f].status = "released"
      /\ \A g \in Features \ {f} : stateFile'[g].status = stateFile[g].status
  BY <1>2, <1>3, ChainFacts
<1>9. ASSUME OneCut PROVE Sure(s)' /\ ReleasedJustified'
  <2>1. ReleasedJustified /\ \A g \in todo : Justified(g)
    BY <1>1, <1>9, ChainFacts DEF Sure
  <2>2. \A g : Justified(g) => Justified(g)'
    BY <1>1 DEF Justified
  <2>3. Sure(s)'
    BY <1>4, <1>7, <1>8, <2>1, <2>2 DEF Sure, Working
  <2>4. ReleasedJustified'
    <3> SUFFICES ASSUME NEW g \in Features, "released" \in {stateFile'[g].status, front'[g]}
                 PROVE  stateFile'[g].status = "released" /\ Justified(g)'
      BY DEF ReleasedJustified, Justified
    <3>1. CASE g = f
      BY <1>2, <1>8, <2>1, <2>2, <3>1
    <3>2. CASE g # f
      <4>1. "released" \in {stateFile[g].status, front[g]}
        BY <1>1, <1>8, <3>2
      <4>2. stateFile[g].status = "released" /\ Justified(g)
        BY <2>1, <4>1 DEF ReleasedJustified, Justified
      <4> QED BY <1>8, <2>2, <3>2, <4>2
    <3> QED BY <3>1, <3>2
  <2> QED BY <2>3, <2>4
<1>10. \A g \in Features : stateFile[g].status = "released" => stateFile'[g].status = "released"
  BY <1>8
<1> QED BY <1>1, <1>5, <1>6, <1>8, <1>9, <1>10, ChainFacts, ChainRestored

LEMMA MarkFrontStep == ASSUME ChainInv, NEW s \in Sessions, MarkFront(s) PROVE ChainInv'
PROOF
<1> DEFINE op == session[s]
           left == [step |-> "mark", todo |-> op.todo \ {op.feature}]
           next == IF op.todo = {op.feature} THEN AtRest ELSE left
<1>1. /\ op.step = "markFront" /\ UNCHANGED <<manifestFile, stateFile, deployed, vouched>>
      /\ front' = [front EXCEPT ![op.feature] = "released"] /\ Becomes(s, next)
  BY DEF MarkFront, AtStep
<1>2. op.feature \in op.todo /\ op.todo \subseteq Features
  BY <1>1, ChainFacts DEF Carries
<1>3. left.step = "mark" /\ left.todo = op.todo \ {op.feature} /\ "todo" \in DOMAIN left
  OBVIOUS
<1>4. Carries(next)
  <2>1. Carries(left)
    <3> HIDE DEF left
    <3> QED BY <1>2, <1>3 DEF Carries, Working
  <2> QED BY <2>1, Steps
<1>5. next = AtRest \/ (next.step = "mark" /\ next.todo \subseteq op.todo)
  BY <1>3
<1>6. session'[s] = next
  BY <1>1, SessionStep
<1> HIDE DEF next
<1>7. /\ front' \in [Features -> {"approved", "released"}]
      /\ \A g \in Features \ {op.feature} : front'[g] = front[g]
  BY <1>1, <1>2, ChainFacts
<1>8. ASSUME OneCut PROVE Sure(s)' /\ ReleasedJustified'
  <2>1. /\ ReleasedJustified /\ \A g \in op.todo : Justified(g)
        /\ stateFile[op.feature].status = "released"
    BY <1>1, <1>8, ChainFacts DEF Sure
  <2>2. \A g : Justified(g) => Justified(g)'
    BY <1>1 DEF Justified
  <2>3. Sure(s)'
    <3>1. CASE next = AtRest
      BY <1>6, <3>1, Steps DEF Sure, Working
    <3>2. CASE next.step = "mark" /\ next.todo \subseteq op.todo
      BY <1>6, <2>1, <2>2, <3>2 DEF Sure, Working
    <3> QED BY <1>5, <3>1, <3>2
  <2>4. ReleasedJustified'
    <3> SUFFICES ASSUME NEW g \in Features, "released" \in {stateFile'[g].status, front'[g]}
                 PROVE  stateFile'[g].status = "released" /\ Justified(g)'
      BY DEF ReleasedJustified, Justified
    <3>1. CASE g = op.feature
      BY <1>1, <1>2, <2>1, <2>2, <3>1
    <3>2. CASE g # op.feature
      <4>1. "released" \in {stateFile[g].status, front[g]}
        BY <1>1, <1>7, <3>2
      <4>2. stateFile[g].status = "released" /\ Justified(g)
        BY <2>1, <4>1 DEF ReleasedJustified, Justified
      <4> QED BY <1>1, <2>2, <4>2
    <3> QED BY <3>1, <3>2
  <2> QED BY <2>3, <2>4
<1> QED BY <1>1, <1>4, <1>7, <1>8, ChainFacts, ChainRestored

LEMMA FailStep == ASSUME ChainInv, NEW s \in Sessions, Fail(s) PROVE ChainInv'
PROOF
<1>1. Becomes(s, AtRest) /\ UNCHANGED <<manifestFile, stateFile, front, deployed, vouched>>
  BY DEF Fail
<1>2. session'[s] = AtRest
  BY <1>1, SessionStep
<1>3. Sure(s)'
  BY <1>2, Steps DEF Sure, Working
<1> QED BY <1>1, <1>3, Steps, OnlySession

LEMMA ChainStutter == ASSUME ChainInv, UNCHANGED chain PROVE ChainInv'
PROOF
<1>1. UNCHANGED <<manifestFile, stateFile, front, session, deployed, vouched>>
  BY DEF chain
<1>2. ChainTypes' /\ (\A s \in Sessions : Carries(session'[s])) /\ Kept(manifestFile')
  BY <1>1 DEF ChainInv, ChainTypes
<1>3. OneRelease => OneRelease'
  <2>1. ASSUME NEW s \in Sessions, Sure(s) PROVE Sure(s)'
    BY <1>1, <2>1 DEF Sure, Deployed, Vouched, Justified
  <2>2. ReleasedJustified => ReleasedJustified'
    BY <1>1 DEF ReleasedJustified
  <2> QED BY <1>1, <2>1, <2>2 DEF OneRelease
<1> QED BY <1>1, <1>2, <1>3 DEF ChainInv, OneCut

LEMMA ChainNextOK == ChainInv /\ [ChainNext]_chain => ChainInv'
PROOF
<1> SUFFICES ASSUME ChainInv, [ChainNext]_chain PROVE ChainInv'
  OBVIOUS
<1>1. ASSUME NEW s \in Sessions, Release(s) PROVE ChainInv'
  BY <1>1, CutCheckStep, CutWriteStep, CutCandidateStep, PromoteCheckStep, RunProviderStep,
     VerifyAgainStep, RunVerificationStep, SaveStep, MarkStateStep, MarkFrontStep, FailStep
     DEF Release
<1> QED BY <1>1, ChainStutter DEF ChainNext

\* The invariant above holds in every state of every release.
THEOREM ChainInvariant == ChainSpec => []ChainInv
PROOF BY ChainInitOK, ChainNextOK, PTL DEF ChainSpec

\* Whatever cuts, promotions and verifications overlap, a promotion on record that counts as
\* verified has run a profile where one of its repositories demands smoke tests
\* (release.py's preflight and its verification choose the profiles separately).
THEOREM SmokeTested == ChainSpec => []SmokeRan
PROOF
<1>1. ChainInv => SmokeRan
  BY DEF ChainInv, Kept, Smoked, SmokeNeeded, SmokeRan
<1> QED BY <1>1, ChainInvariant, PTL

\* A release that is cut once and never forced: a feature that its state file or its spec
\* calls released was deployed to production and vouched for there, and the state file,
\* which is written first, says so too.
THEOREM ReleaseJustified == OneCut => (ChainSpec => []ReleasedJustified)
PROOF
<1>1. OneCut /\ ChainInv => ReleasedJustified
  BY DEF ChainInv, OneRelease
<1>2. OneCut => OneCut'
  BY DEF OneCut
<1> QED BY <1>1, <1>2, ChainInvariant, PTL

\* A release that is cut once: it is deployed by the provider that its repositories name,
\* and from the branch that held every commit at the cut.
THEOREM AsNamed == OneCut => (ChainSpec => []DeployedAsNamed)
PROOF
<1>1. OneCut /\ ChainInv => DeployedAsNamed
  BY DEF ChainInv, OneRelease, DeployedAsNamed, DeployedByItsOwn, DeployedFromItsRef, ByItsOwn, FromItsRef
<1>2. OneCut => OneCut'
  BY DEF OneCut
<1> QED BY <1>1, <1>2, ChainInvariant, PTL

\* The branch is right for every cut, forced or not: a deployment is made from its own copy.
THEOREM FromTheCut == ChainSpec => []DeployedFromItsRef
PROOF
<1>1. ChainInv => DeployedFromItsRef
  BY DEF ChainInv, DeployedFromItsRef, FromItsRef
<1> QED BY <1>1, ChainInvariant, PTL

-----------------------------------------------------------------------------
(***************************************************************************)
(* Publishing: what a clone and origin hold.                               *)
(***************************************************************************)
\* The types.
Semver == Nat \X Nat \X Nat
Entry == Semver \union {NoVersion}
GitCommit == [id : Nat, kind : {"docs", "breaking", "feat", "fix"}, entry : Entry]
History == Seq(GitCommit) \ {<<>>}
LastEntry(h) == h[Len(h)].entry

Tagging(T) == UNION {[D -> T] : D \in SUBSET Semver}
LocalTags == Tagging(History)
OriginTags == Tagging([at : History, from : {"main", "work"}])
Clone == [main : History, work : History, on : {"main", "work"}, tags : LocalTags,
          written : Entry, step : {"idle", "written", "committed", "tagged", "pushed"},
          version : Entry]

PublishTyped ==
    /\ origin \in [main : History, tags : OriginTags]
    /\ clones \in [Clones -> Clone]
    /\ made \in Nat

\* The commits of a history were made one after the other, and no two of them entered
\* the same version.
Recorded(h, n) ==
    /\ h \in History
    /\ \A i \in DOMAIN h : h[i].id <= n
    /\ \A i, j \in DOMAIN h : i < j => h[i].id < h[j].id
    /\ \A i, j \in DOMAIN h : i < j /\ h[i].entry = h[j].entry => h[i].entry = NoVersion

LocalHistories(c) ==
    {clones[c].main, clones[c].work} \union {clones[c].tags[v] : v \in DOMAIN clones[c].tags}

Histories ==
    {origin.main} \union {origin.tags[v].at : v \in DOMAIN origin.tags}
                  \union UNION {LocalHistories(c) : c \in Clones}

AllRecorded == \A h \in Histories : Recorded(h, made)

TagsName ==
    /\ \A v \in DOMAIN origin.tags : LastEntry(origin.tags[v].at) = v
    /\ IsFiniteSet(DOMAIN origin.tags)
    /\ \A c \in Clones :
         /\ \A v \in DOMAIN clones[c].tags : LastEntry(clones[c].tags[v]) = v
         /\ IsFiniteSet(DOMAIN clones[c].tags) /\ FirstVersion \in DOMAIN clones[c].tags

\* Where a publish is, and what it has done for its version.
InPlace(c) ==
    LET v == clones[c].version IN
    /\ clones[c].step # "idle" => v \in Semver
    /\ clones[c].step = "written" => v \notin Entries(HeadOf(c)) /\ v \notin DOMAIN clones[c].tags
    /\ clones[c].step = "committed" => LastEntry(HeadOf(c)) = v /\ v \notin DOMAIN clones[c].tags
    /\ clones[c].step \in {"tagged", "pushed"} =>
         v \in DOMAIN clones[c].tags /\ clones[c].tags[v] = HeadOf(c)
    /\ clones[c].step = "pushed" /\ clones[c].on = "main" => IsPrefix(clones[c].main, origin.main)

PublishInvariant ==
    PublishTyped /\ AllRecorded /\ TagsName /\ (\A c \in Clones : InPlace(c)) /\ TagsOnMain

Inferring == Bumps \subseteq {"auto"} /\ Explicit = {}

Marks == UNION {{<<t, clones[c].tags[t]>> : t \in DOMAIN clones[c].tags} : c \in Clones}

Apart(h, g) == ~IsPrefix(h, g) /\ ~IsPrefix(g, h)

\* A version at the i-th commit of h that may have been counted from a tag elsewhere.
AstrayAt(marks, h, i) ==
    \E m \in marks : Less(m[1], h[i].entry) /\ Apart(m[2], SubSeq(h, 1, i))

Entered(h, i) == h[i].entry # NoVersion

Between(h, i, j) == {h[k] : k \in (i + 1)..j}

Holds(commits, kind) == \E x \in commits : x.kind = kind

Enough(bump, commits) ==
    /\ bump \in {"major", "minor", "patch"}
    /\ Holds(commits, "breaking") => bump = "major"
    /\ Holds(commits, "feat") => bump # "patch"

\* Of two entries the later one is the greater version.
Growing(marks, h, i, j) == Less(h[i].entry, h[j].entry) \/ AstrayAt(marks, h, i)

\* Two versions that differ in the last number only have no feature between them, two
\* that agree in the first no breaking change.
Graded(marks, h, i, j) ==
    LET v == h[i].entry
        w == h[j].entry
    IN  Less(v, w) /\ ~AstrayAt(marks, h, j) /\ v[1] = w[1] =>
          /\ ~Holds(Between(h, i, j), "breaking")
          /\ v[2] = w[2] => ~Holds(Between(h, i, j), "feat")

\* Whoever counts on from the earlier version, by what was committed since, comes to no
\* lower version than the later one, or to one that was entered until then.
Reaching(marks, h, i, j) ==
    \A bump \in {"major", "minor", "patch"} :
        LET next == NextVersion(h[i].entry, bump)
        IN  Less(h[i].entry, h[j].entry) /\ ~AstrayAt(marks, h, j)
                  /\ Enough(bump, Between(h, i, j - 1)) =>
              ~Less(next, h[j].entry) \/ \E k \in 1..j : h[k].entry = next

Ordered(marks, h) ==
    \A i, j \in DOMAIN h :
        i < j /\ Entered(h, i) /\ Entered(h, j) =>
            Growing(marks, h, i, j) /\ Graded(marks, h, i, j) /\ Reaching(marks, h, i, j)

\* A version that is written down was counted from a tag, by the commits since.
Counting(c) ==
    clones[c].step = "written" =>
        \E t \in DOMAIN clones[c].tags :
            clones[c].version = NextVersion(t, InferBump(SinceTag(HeadOf(c), clones[c].tags[t])))

OrderInvariant ==
    /\ \A h \in Histories : Ordered(Marks, h)
    /\ \A c \in Clones : Counting(c)

-----------------------------------------------------------------------------
(***************************************************************************)
(* What git and the version numbers do.                                    *)
(***************************************************************************)
\* A prefix, commit by commit.
LEMMA PrefixAt ==
    ASSUME NEW s \in Seq(GitCommit), NEW t \in Seq(GitCommit)
    PROVE  IsPrefix(s, t) <=> Len(s) <= Len(t) /\ \A i \in 1..Len(s) : s[i] = t[i]
<1>1. CASE Len(s) <= Len(t)
    <2>1. /\ SubSeq(s, 1, Len(s)) \in Seq(GitCommit) /\ SubSeq(t, 1, Len(s)) \in Seq(GitCommit)
          /\ Len(SubSeq(s, 1, Len(s))) = Len(s) /\ Len(SubSeq(t, 1, Len(s))) = Len(s)
          /\ \A i \in 1..Len(s) : SubSeq(s, 1, Len(s))[i] = s[i] /\ SubSeq(t, 1, Len(s))[i] = t[i]
      BY <1>1
    <2>2. SubSeq(s, 1, Len(s)) = SubSeq(t, 1, Len(s)) <=> \A i \in 1..Len(s) : s[i] = t[i]
      BY <2>1
    <2> QED BY <1>1, <2>2 DEF IsPrefix
<1> QED BY <1>1 DEF IsPrefix

\* The order of versions, number by number.
LEMMA LessMeans ==
    ASSUME NEW v \in Semver, NEW w \in Semver
    PROVE  Less(v, w) <=> \/ v[1] < w[1]
                          \/ v[1] = w[1] /\ v[2] < w[2]
                          \/ v[1] = w[1] /\ v[2] = w[2] /\ v[3] < w[3]
BY DEF Less, Semver

\* A version is its three numbers.
LEMMA VersionParts ==
    ASSUME NEW v \in Semver
    PROVE  v[1] \in Nat /\ v[2] \in Nat /\ v[3] \in Nat /\ v = <<v[1], v[2], v[3]>>
BY DEF Semver

\* Versions are totally ordered.
LEMMA LessOrders ==
    ASSUME NEW u \in Semver, NEW v \in Semver, NEW w \in Semver
    PROVE  /\ ~Less(v, v)
           /\ Less(u, v) /\ Less(v, w) => Less(u, w)
           /\ Less(v, w) => ~Less(w, v)
           /\ v = w \/ Less(v, w) \/ Less(w, v)
<1>1. /\ Less(v, v) <=> \/ v[1] < v[1]
                        \/ v[1] = v[1] /\ v[2] < v[2]
                        \/ v[1] = v[1] /\ v[2] = v[2] /\ v[3] < v[3]
      /\ Less(u, v) <=> \/ u[1] < v[1]
                        \/ u[1] = v[1] /\ u[2] < v[2]
                        \/ u[1] = v[1] /\ u[2] = v[2] /\ u[3] < v[3]
      /\ Less(u, w) <=> \/ u[1] < w[1]
                        \/ u[1] = w[1] /\ u[2] < w[2]
                        \/ u[1] = w[1] /\ u[2] = w[2] /\ u[3] < w[3]
      /\ Less(v, w) <=> \/ v[1] < w[1]
                        \/ v[1] = w[1] /\ v[2] < w[2]
                        \/ v[1] = w[1] /\ v[2] = w[2] /\ v[3] < w[3]
      /\ Less(w, v) <=> \/ w[1] < v[1]
                        \/ w[1] = v[1] /\ w[2] < v[2]
                        \/ w[1] = v[1] /\ w[2] = v[2] /\ w[3] < v[3]
  BY LessMeans
<1>2. /\ u[1] \in Nat /\ u[2] \in Nat /\ u[3] \in Nat
      /\ v[1] \in Nat /\ v[2] \in Nat /\ v[3] \in Nat
      /\ w[1] \in Nat /\ w[2] \in Nat /\ w[3] \in Nat
      /\ v = <<v[1], v[2], v[3]>> /\ w = <<w[1], w[2], w[3]>>
  BY VersionParts
<1> QED BY <1>1, <1>2

\* The version after one is a greater one.
LEMMA NextVersionParts ==
    ASSUME NEW v \in Semver, NEW bump \in {"major", "minor", "patch"}
    PROVE  /\ NextVersion(v, bump) \in Semver
           /\ Less(v, NextVersion(v, bump))
<1>2. NextVersion(v, bump) \in Semver
  BY VersionParts DEF Semver, NextVersion
<1>3. Less(v, NextVersion(v, bump))
  BY <1>2, LessMeans, VersionParts DEF NextVersion
<1> QED BY <1>2, <1>3

\* A set of tags is a function.
LEMMA TaggingIs ==
    ASSUME NEW T, NEW tags
    PROVE  tags \in Tagging(T) <=> DOMAIN tags \subseteq Semver /\ tags \in [DOMAIN tags -> T]
<1>1. ASSUME tags \in Tagging(T)
      PROVE  DOMAIN tags \subseteq Semver /\ tags \in [DOMAIN tags -> T]
  <2>1. PICK D \in SUBSET Semver : tags \in [D -> T]
    BY <1>1 DEF Tagging
  <2> QED BY <2>1
<1>2. ASSUME DOMAIN tags \subseteq Semver, tags \in [DOMAIN tags -> T]
      PROVE  tags \in Tagging(T)
  BY <1>2 DEF Tagging
<1> QED BY <1>1, <1>2

\* A family of finite sets has a least one.
LEMMA LeastSubset ==
    ASSUME NEW D, NEW T, T \subseteq FiniteSubsetsOf(D), T # {}
    PROVE  \E x \in T : \A y \in T : <<y, x>> \notin StrictSubsetOrdering(D)
<1>1. IsWellFoundedOn(StrictSubsetOrdering(D), FiniteSubsetsOf(D))
  BY FS_StrictSubsetOrderingWellFounded
<1> QED BY <1>1, WFMin

\* There is a greatest tag where there is any.
LEMMA LatestIsTag ==
    ASSUME NEW tags \in LocalTags, IsFiniteSet(DOMAIN tags), DOMAIN tags # {}
    PROVE  LatestTag(tags) \in DOMAIN tags
<1> DEFINE D == DOMAIN tags
           Above(v) == {w \in D : Less(v, w)}
           T == {Above(v) : v \in D}
<1>1. D \subseteq Semver
  BY TaggingIs DEF LocalTags
<1>2. T \subseteq FiniteSubsetsOf(D)
  <2>1. \A v \in D : Above(v) \in SUBSET D /\ IsFiniteSet(Above(v))
    BY FS_Subset
  <2> QED BY <2>1 DEF FiniteSubsetsOf
<1>3. PICK x \in T : \A y \in T : <<y, x>> \notin StrictSubsetOrdering(D)
  <2>1. T # {}
    OBVIOUS
  <2> HIDE DEF T
  <2> QED BY <1>2, <2>1, LeastSubset
<1>4. PICK v \in D : x = Above(v)
  OBVIOUS
<1>5. \A w \in D : ~Less(v, w)
  <2> SUFFICES ASSUME NEW w \in D, Less(v, w) PROVE FALSE
    OBVIOUS
  <2>1. Above(w) \subseteq Above(v)
    BY <1>1, LessOrders
  <2>2. w \in Above(v) /\ w \notin Above(w)
    BY <1>1, LessOrders
  <2>3. <<Above(w), x>> \in StrictSubsetOrdering(D)
    BY <1>4, <2>1, <2>2 DEF StrictSubsetOrdering
  <2> QED BY <1>3, <2>3
<1> QED BY <1>5 DEF LatestTag

\* One tag more makes tags again.
LEMMA WithTagIs ==
    ASSUME NEW T, NEW tags \in Tagging(T), NEW v \in Semver, NEW t \in T
    PROVE  /\ WithTag(tags, v, t) \in Tagging(T)
           /\ DOMAIN WithTag(tags, v, t) = DOMAIN tags \union {v}
           /\ WithTag(tags, v, t)[v] = t
           /\ \A w \in DOMAIN tags : w # v => WithTag(tags, v, t)[w] = tags[w]
<1> DEFINE f == WithTag(tags, v, t)
<1>1. DOMAIN f = DOMAIN tags \union {v}
  BY DEF WithTag
<1>2. \A w \in DOMAIN tags \union {v} : f[w] = IF w = v THEN t ELSE tags[w]
  BY DEF WithTag
<1>3. DOMAIN tags \subseteq Semver /\ \A w \in DOMAIN tags : tags[w] \in T
  BY TaggingIs
<1>4. f \in [DOMAIN tags \union {v} -> T]
  BY <1>3 DEF WithTag
<1>5. f \in Tagging(T)
  <2> HIDE DEF f
  <2> QED BY <1>1, <1>3, <1>4, TaggingIs
<1> QED BY <1>1, <1>2, <1>5

\* A fetch adds tags of origin and moves none.
LEMMA FetchedIs ==
    ASSUME PublishTyped, NEW c \in Clones, NEW h
    PROVE  /\ WithFetched(c, h) \in LocalTags
           /\ DOMAIN clones[c].tags \subseteq DOMAIN WithFetched(c, h)
           /\ DOMAIN WithFetched(c, h) \subseteq DOMAIN clones[c].tags \union DOMAIN origin.tags
           /\ \A v \in DOMAIN WithFetched(c, h) :
                WithFetched(c, h)[v] = IF v \in DOMAIN clones[c].tags THEN clones[c].tags[v]
                                       ELSE origin.tags[v].at
<1> DEFINE mine == clones[c].tags
           seen == {v \in DOMAIN origin.tags : IsPrefix(origin.tags[v].at, h)}
           f == [v \in DOMAIN mine \union seen |->
                   IF v \in DOMAIN mine THEN mine[v] ELSE origin.tags[v].at]
<1>1. WithFetched(c, h) = f
  BY DEF WithFetched
<1>2. mine \in LocalTags /\ origin.tags \in OriginTags
  BY DEF PublishTyped, Clone
<1>3. /\ DOMAIN mine \subseteq Semver /\ \A v \in DOMAIN mine : mine[v] \in History
      /\ DOMAIN origin.tags \subseteq Semver
      /\ \A v \in DOMAIN origin.tags : origin.tags[v].at \in History
  <2>1. DOMAIN mine \subseteq Semver /\ mine \in [DOMAIN mine -> History]
    <3> HIDE DEF mine
    <3> QED BY <1>2, TaggingIs DEF LocalTags
  <2>2. /\ DOMAIN origin.tags \subseteq Semver
        /\ origin.tags \in [DOMAIN origin.tags -> [at : History, from : {"main", "work"}]]
    BY <1>2, TaggingIs DEF OriginTags
  <2> QED BY <2>1, <2>2
<1>4. f \in [DOMAIN mine \union seen -> History] /\ DOMAIN f = DOMAIN mine \union seen
  BY <1>3
<1>5. f \in LocalTags
  <2> HIDE DEF f
  <2> QED BY <1>3, <1>4, TaggingIs DEF LocalTags
<1> QED BY <1>1, <1>4, <1>5

\* The branch that is checked out is one of the two.
LEMMA HeadIs ==
    ASSUME PublishTyped, NEW c \in Clones
    PROVE  /\ clones[c] \in Clone
           /\ HeadOf(c) = IF clones[c].on = "main" THEN clones[c].main ELSE clones[c].work
           /\ HeadOf(c) \in History /\ HeadOf(c) \in Histories
<1>1. clones[c] \in Clone
  BY DEF PublishTyped
<1>2. HeadOf(c) = IF clones[c].on = "main" THEN clones[c].main ELSE clones[c].work
  <2>1. CASE clones[c].on = "main"
    BY <2>1 DEF HeadOf
  <2>2. CASE clones[c].on = "work"
    BY <2>2 DEF HeadOf
  <2> QED BY <1>1, <2>1, <2>2 DEF Clone
<1>3. HeadOf(c) \in History
  BY <1>1, <1>2 DEF Clone
<1>4. HeadOf(c) \in {clones[c].main, clones[c].work}
  BY <1>2
<1>5. HeadOf(c) \in Histories
  BY <1>4 DEF Histories, LocalHistories
<1> QED BY <1>1, <1>2, <1>3, <1>5

\* What a publish may be of is a version.
LEMMA VersionsTyped ==
    ASSUME PublishTyped, TagsName, NEW c \in Clones
    PROVE  /\ LatestTag(clones[c].tags) \in DOMAIN clones[c].tags
           /\ clones[c].tags \in LocalTags /\ DOMAIN clones[c].tags \subseteq Semver
           /\ Origins(c) \subseteq DOMAIN clones[c].tags
           /\ \A t \in Origins(c) : Versions(c, t) \subseteq Semver
<1>1. clones[c].tags \in LocalTags
  BY HeadIs DEF Clone
<1>2. LatestTag(clones[c].tags) \in DOMAIN clones[c].tags
  BY <1>1, LatestIsTag DEF TagsName
<1>3. DOMAIN clones[c].tags \subseteq Semver
  BY <1>1, TaggingIs DEF LocalTags
<1>4. \A S : InferBump(S) \in {"major", "minor", "patch"}
  BY DEF InferBump
<1>5. Origins(c) \subseteq DOMAIN clones[c].tags
  BY <1>2 DEF Origins
<1>6. \A t \in Origins(c) : \A b \in Bumps : InferredVersion(c, t, b) \in Semver
  <2> SUFFICES ASSUME NEW t \in Origins(c), NEW b \in Bumps PROVE InferredVersion(c, t, b) \in Semver
    OBVIOUS
  <2>1. (IF b = "auto" THEN InferBump(CommitsSince(c, t)) ELSE b) \in {"major", "minor", "patch"}
    BY <1>4, PublishAssumption
  <2>2. t \in Semver
    BY <1>3, <1>5
  <2> QED BY <2>1, <2>2, NextVersionParts DEF InferredVersion
<1>7. Explicit \subseteq Semver
  BY PublishAssumption DEF Semver
<1> QED BY <1>1, <1>2, <1>3, <1>5, <1>6, <1>7 DEF Versions

NewCommit(kind, entry) == [id |-> made + 1, kind |-> kind, entry |-> entry]

\* A commit goes to the branch that is checked out.
LEMMA CommittedIs ==
    ASSUME PublishTyped, NEW c \in Clones,
           NEW kind \in {"docs", "breaking", "feat", "fix"}, NEW entry \in Entry
    PROVE  LET h == Append(HeadOf(c), NewCommit(kind, entry))
           IN  /\ NewCommit(kind, entry) \in GitCommit /\ h \in History
               /\ Committed(c, kind, entry) \in Clone
               /\ Committed(c, kind, entry) =
                    IF clones[c].on = "main" THEN [clones[c] EXCEPT !.main = h]
                    ELSE [clones[c] EXCEPT !.work = h]
<1> DEFINE x == NewCommit(kind, entry)
           h == Append(HeadOf(c), x)
<1>1. x \in GitCommit
  BY DEF PublishTyped, GitCommit, NewCommit
<1>2. h \in History
  BY <1>1, HeadIs DEF History
<1>3. CASE clones[c].on = "main"
  <2>1. HeadOf(c) = clones[c].main
    BY <1>3, HeadIs
  <2>2. Committed(c, kind, entry) = [clones[c] EXCEPT !["main"] = Append(clones[c]["main"], x)]
    BY <1>3 DEF Committed, NewCommit
  <2>3. Committed(c, kind, entry) = [clones[c] EXCEPT !.main = h]
    BY <2>1, <2>2
  <2>4. [clones[c] EXCEPT !.main = h] \in Clone
    <3> HIDE DEF h
    <3> QED BY <1>2, HeadIs DEF Clone
  <2> QED BY <1>1, <1>2, <1>3, <2>3, <2>4
<1>4. CASE clones[c].on # "main"
  <2>1. HeadOf(c) = clones[c].work /\ clones[c].on = "work"
    BY <1>4, HeadIs DEF Clone
  <2>2. Committed(c, kind, entry) = [clones[c] EXCEPT !["work"] = Append(clones[c]["work"], x)]
    BY <2>1 DEF Committed, NewCommit
  <2>3. Committed(c, kind, entry) = [clones[c] EXCEPT !.work = h]
    BY <2>1, <2>2
  <2>4. [clones[c] EXCEPT !.work = h] \in Clone
    <3> HIDE DEF h
    <3> QED BY <1>2, HeadIs DEF Clone
  <2> QED BY <1>1, <1>2, <1>4, <2>3, <2>4
<1> QED BY <1>3, <1>4

\* The types, at first.
LEMMA TypedInitially == PublishInit => PublishTyped
<1> SUFFICES ASSUME PublishInit PROVE PublishTyped
  OBVIOUS
<1>1. FirstVersion \in Semver /\ Released \in GitCommit
  BY DEF FirstVersion, Semver, Released, GitCommit, Entry
<1>2. <<Released>> \in History
  BY <1>1 DEF History
<1>3. [v \in {FirstVersion} |-> <<Released>>] \in LocalTags
  BY <1>1, <1>2, TaggingIs DEF LocalTags
<1>4. [v \in {FirstVersion} |-> [at |-> <<Released>>, from |-> "main"]] \in OriginTags
  BY <1>1, <1>2, TaggingIs DEF OriginTags
<1> QED BY <1>2, <1>3, <1>4 DEF PublishInit, PublishTyped, Clone, Entry

\* Every step keeps the types.
LEMMA TypedAlways ==
    ASSUME PublishTyped, TagsName, \A c \in Clones : InPlace(c), [PublishNext]_publishing
    PROVE  PublishTyped'
<1>1. CASE UNCHANGED publishing
  BY <1>1 DEF publishing, PublishTyped
<1> SUFFICES ASSUME NEW c \in Clones, Publish(c) \/ Develop(c)
             PROVE  PublishTyped'
  BY <1>1 DEF PublishNext
<1>2. clones[c] \in Clone
  BY HeadIs
<1>3. CASE StartPublish(c)
  <2>0. PICK t \in Origins(c) : \E x \in Versions(c, t) : WriteEntry(c, x)
    BY <1>3 DEF StartPublish
  <2>1. PICK v \in Versions(c, t) : WriteEntry(c, v)
    BY <2>0
  <2>2. v \in Entry
    BY VersionsTyped DEF Entry
  <2> QED BY <1>2, <2>1, <2>2 DEF WriteEntry, PublishTyped, Clone
<1>4. CASE CommitEntry(c)
  <2> DEFINE r == Committed(c, "docs", clones[c].version)
  <2>1. r \in Clone
    BY <1>2, CommittedIs DEF Clone
  <2>2. clones' = [clones EXCEPT ![c] = [r EXCEPT !.written = NoVersion, !.step = "committed"]]
    BY <1>4 DEF CommitEntry
  <2>3. [r EXCEPT !.written = NoVersion, !.step = "committed"] \in Clone
    <3> HIDE DEF r
    <3> QED BY <2>1 DEF Clone, Entry
  <2> HIDE DEF r
  <2> QED BY <1>4, <2>2, <2>3 DEF CommitEntry, PublishTyped
<1>5. CASE Tag(c)
  <2>1. clones[c].version \in Semver
    BY <1>5 DEF InPlace, Tag, Publishing
  <2>2. WithTag(clones[c].tags, clones[c].version, HeadOf(c)) \in LocalTags
    BY <1>2, <2>1, HeadIs, WithTagIs DEF Clone, LocalTags
  <2> QED BY <1>2, <1>5, <2>2 DEF Tag, PublishTyped, Clone
<1>6. CASE PushMain(c)
  BY <1>2, <1>6 DEF PushMain, Reach, PublishTyped, Clone
<1>7. CASE PushTag(c)
  <2> DEFINE v == clones[c].version
             tag == [at |-> clones[c].tags[v], from |-> clones[c].on]
  <2>1. v \in Semver /\ v \in DOMAIN clones[c].tags
    BY <1>7 DEF InPlace, PushTag, Publishing
  <2>2. tag \in [at : History, from : {"main", "work"}]
    BY <1>2, <2>1, TaggingIs DEF Clone, LocalTags
  <2>3. WithTag(origin.tags, v, tag) \in OriginTags
    <3> HIDE DEF v, tag
    <3> QED BY <2>1, <2>2, WithTagIs DEF PublishTyped, OriginTags
  <2>4. origin'.tags = WithTag(origin.tags, v, tag) /\ origin'.main = origin.main
    BY <1>7 DEF PushTag, PublishTyped
  <2>5. origin' \in [main : History, tags : OriginTags]
    BY <1>7, <2>3 DEF PushTag, PublishTyped
  <2>6. clones' \in [Clones -> Clone]
    BY <1>2, <1>7 DEF PushTag, PublishTyped, Clone, Entry
  <2> QED BY <1>7, <2>5, <2>6 DEF PushTag, PublishTyped
<1>8. CASE Break(c)
  BY <1>2, <1>8 DEF Break, PublishTyped, Clone, Entry
<1>9. CASE Commit(c)
  <2>1. PICK k \in Kinds[c] : clones' = [clones EXCEPT ![c] = Committed(c, k, NoVersion)]
    BY <1>9 DEF Commit
  <2>2. Committed(c, k, NoVersion) \in Clone
    BY CommittedIs, PublishAssumption DEF Entry
  <2> QED BY <1>9, <2>1, <2>2 DEF Commit, PublishTyped
<1>10. CASE DevPush(c)
  BY <1>2, <1>10 DEF DevPush, PublishTyped, Clone
<1>11. CASE Sync(c)
  <2>1. WithFetched(c, origin.main) \in LocalTags
    BY FetchedIs
  <2> QED BY <1>2, <1>11, <2>1 DEF Sync, PublishTyped, Clone
<1>12. CASE RestoreChangelog(c)
  BY <1>2, <1>12 DEF RestoreChangelog, PublishTyped, Clone, Entry
<1>13. CASE Checkout(c)
  BY <1>2, <1>13 DEF Checkout, PublishTyped, Clone
<1> QED BY <1>3, <1>4, <1>5, <1>6, <1>7, <1>8, <1>9, <1>10, <1>11, <1>12, <1>13 DEF Publish, Develop

\* Where the histories are.
LEMMA HistoriesHave ==
    /\ origin.main \in Histories
    /\ \A v \in DOMAIN origin.tags : origin.tags[v].at \in Histories
    /\ \A d \in Clones : /\ clones[d].main \in Histories /\ clones[d].work \in Histories
                        /\ \A v \in DOMAIN clones[d].tags : clones[d].tags[v] \in Histories
<1>1. \A d \in Clones : /\ clones[d].main \in LocalHistories(d) /\ clones[d].work \in LocalHistories(d)
                       /\ \A v \in DOMAIN clones[d].tags : clones[d].tags[v] \in LocalHistories(d)
  BY DEF LocalHistories
<1>2. \A d \in Clones : LocalHistories(d) \subseteq Histories
  BY DEF Histories
<1>3. origin.main \in Histories /\ \A v \in DOMAIN origin.tags : origin.tags[v].at \in Histories
  BY DEF Histories
<1> QED BY <1>1, <1>2, <1>3

\* One commit more, on the branch that c has checked out.
OneMore(c, kind, entry) == Append(HeadOf(c), NewCommit(kind, entry))

TagsKept(c) ==
    \A d \in Clones :
        /\ d # c => clones'[d] = clones[d]
        /\ DOMAIN clones[d].tags \subseteq DOMAIN clones'[d].tags
        /\ \A v \in DOMAIN clones[d].tags : clones'[d].tags[v] = clones[d].tags[v]

NoCommit == made' = made /\ Histories' \subseteq Histories

CommitMade(c, kind, entry) ==
    /\ made' = made + 1
    /\ Histories' \subseteq Histories \union {OneMore(c, kind, entry)}
    /\ \A d \in Clones : clones'[d].tags = clones[d].tags
    /\ origin' = origin

\* What a step does to the histories: none is new, or one of one more commit.
LEMMA PublishSteps ==
    ASSUME PublishTyped, TagsName, \A d \in Clones : InPlace(d),
           NEW c \in Clones, Publish(c) \/ Develop(c)
    PROVE  /\ TagsKept(c)
           /\ \/ NoCommit
              \/ CommitEntry(c) /\ CommitMade(c, "docs", clones[c].version)
              \/ Commit(c) /\ \E kind \in Kinds[c] : CommitMade(c, kind, NoVersion)
<1>1. clones \in [Clones -> Clone] /\ clones[c] \in Clone
  BY HeadIs DEF PublishTyped
<1>2. CASE StartPublish(c) \/ Break(c) \/ RestoreChangelog(c)
  <2>1. /\ clones' = [clones EXCEPT ![c] = clones'[c]]
        /\ clones'[c].tags = clones[c].tags /\ clones'[c].main = clones[c].main
        /\ clones'[c].work = clones[c].work
        /\ origin' = origin /\ made' = made
    <3>1. CASE StartPublish(c)
      <4>0. PICK t \in Origins(c) : \E x \in Versions(c, t) : WriteEntry(c, x)
        BY <3>1 DEF StartPublish
      <4>1. PICK v \in Versions(c, t) : WriteEntry(c, v)
        BY <4>0
      <4> QED BY <1>1, <4>1 DEF WriteEntry, Clone
    <3>2. CASE Break(c)
      BY <1>1, <3>2 DEF Break, Clone
    <3>3. CASE RestoreChangelog(c)
      BY <1>1, <3>3 DEF RestoreChangelog, Clone
    <3> QED BY <1>2, <3>1, <3>2, <3>3
  <2>2. \A d \in Clones : /\ clones'[d].tags = clones[d].tags /\ clones'[d].main = clones[d].main
                          /\ clones'[d].work = clones[d].work
    BY <1>1, <2>1
  <2>3. Histories' = Histories
    BY <2>1, <2>2 DEF Histories, LocalHistories
  <2> QED BY <1>1, <2>1, <2>2, <2>3 DEF TagsKept, NoCommit
<1>3. CASE PushMain(c) \/ DevPush(c)
  <2>1. /\ clones' = [clones EXCEPT ![c] = clones'[c]]
        /\ clones'[c].tags = clones[c].tags /\ clones'[c].main = clones[c].main
        /\ clones'[c].work = clones[c].work
        /\ origin' = [origin EXCEPT !.main = clones[c].main] /\ made' = made
    BY <1>1, <1>3 DEF PushMain, Reach, DevPush, Clone
  <2>2. \A d \in Clones : /\ clones'[d].tags = clones[d].tags /\ clones'[d].main = clones[d].main
                          /\ clones'[d].work = clones[d].work
    BY <1>1, <2>1
  <2>3. origin'.main = clones[c].main /\ origin'.tags = origin.tags
    BY <2>1 DEF PublishTyped
  <2>4. Histories' \subseteq Histories
    BY <2>2, <2>3 DEF Histories, LocalHistories
  <2> QED BY <1>1, <2>1, <2>2, <2>4 DEF TagsKept, NoCommit
<1>4. CASE Tag(c)
  <2> DEFINE v == clones[c].version
  <2>1. v \in Semver /\ v \notin DOMAIN clones[c].tags
    BY <1>4 DEF Tag, Publishing, InPlace
  <2>2. clones'[c] = [clones[c] EXCEPT !.tags = WithTag(clones[c].tags, v, HeadOf(c)), !.step = "tagged"]
    BY <1>1, <1>4 DEF Tag
  <2>3. /\ clones' = [clones EXCEPT ![c] = clones'[c]]
        /\ clones'[c].tags = WithTag(clones[c].tags, v, HeadOf(c))
        /\ clones'[c].main = clones[c].main /\ clones'[c].work = clones[c].work
        /\ origin' = origin /\ made' = made
    BY <1>1, <1>4, <2>2 DEF Tag, Clone
  <2>4. /\ DOMAIN clones'[c].tags = DOMAIN clones[c].tags \union {v}
        /\ clones'[c].tags[v] = HeadOf(c)
        /\ \A w \in DOMAIN clones[c].tags : clones'[c].tags[w] = clones[c].tags[w]
    <3>1. clones[c].tags \in Tagging(History) /\ HeadOf(c) \in History
      BY <1>1, HeadIs DEF Clone, LocalTags
    <3> HIDE DEF v
    <3>2. /\ DOMAIN WithTag(clones[c].tags, v, HeadOf(c)) = DOMAIN clones[c].tags \union {v}
          /\ WithTag(clones[c].tags, v, HeadOf(c))[v] = HeadOf(c)
          /\ \A w \in DOMAIN clones[c].tags :
               w # v => WithTag(clones[c].tags, v, HeadOf(c))[w] = clones[c].tags[w]
      BY DEF WithTag
    <3> QED BY <2>1, <2>3, <3>2
  <2>5. TagsKept(c)
    BY <1>1, <2>3, <2>4 DEF TagsKept
  <2>6. \A d \in Clones : LocalHistories(d)' \subseteq LocalHistories(d) \union {HeadOf(c)}
    BY <1>1, <2>3, <2>4 DEF LocalHistories
  <2>7. Histories' \subseteq Histories
    BY <2>3, <2>6, HeadIs DEF Histories
  <2> QED BY <2>3, <2>5, <2>7 DEF NoCommit
<1>5. CASE PushTag(c)
  <2> DEFINE v == clones[c].version
             tag == [at |-> clones[c].tags[v], from |-> clones[c].on]
  <2>1. v \in Semver /\ v \in DOMAIN clones[c].tags
    BY <1>5 DEF PushTag, Publishing, InPlace
  <2>2. /\ clones' = [clones EXCEPT ![c] = clones'[c]]
        /\ clones'[c].tags = clones[c].tags /\ clones'[c].main = clones[c].main
        /\ clones'[c].work = clones[c].work
        /\ origin' = [origin EXCEPT !.tags = WithTag(@, v, tag)] /\ made' = made
    BY <1>1, <1>5 DEF PushTag, Clone
  <2>3. \A d \in Clones : /\ clones'[d].tags = clones[d].tags /\ clones'[d].main = clones[d].main
                          /\ clones'[d].work = clones[d].work
    BY <1>1, <2>2
  <2>4. tag \in [at : History, from : {"main", "work"}] /\ tag.at = clones[c].tags[v]
    BY <1>1, <2>1, TaggingIs DEF Clone, LocalTags
  <2>5. origin'.main = origin.main /\ origin'.tags = WithTag(origin.tags, v, tag)
    BY <2>2 DEF PublishTyped
  <2>6. /\ DOMAIN origin'.tags = DOMAIN origin.tags \union {v}
        /\ origin'.tags[v] = tag
        /\ \A w \in DOMAIN origin.tags : w # v => origin'.tags[w] = origin.tags[w]
    <3>1. origin.tags \in Tagging([at : History, from : {"main", "work"}])
      BY DEF PublishTyped, OriginTags
    <3> HIDE DEF v, tag
    <3>2. /\ DOMAIN WithTag(origin.tags, v, tag) = DOMAIN origin.tags \union {v}
          /\ WithTag(origin.tags, v, tag)[v] = tag
          /\ \A w \in DOMAIN origin.tags : w # v => WithTag(origin.tags, v, tag)[w] = origin.tags[w]
      BY DEF WithTag
    <3> QED BY <2>5, <3>2
  <2>7. clones[c].tags[v] \in Histories
    <3> HIDE DEF v
    <3> QED BY <2>1, HistoriesHave
  <2>8. \A d \in Clones : LocalHistories(d)' = LocalHistories(d)
    BY <2>3 DEF LocalHistories
  <2>9. \A w \in DOMAIN origin'.tags : origin'.tags[w].at \in Histories
    BY <2>4, <2>6, <2>7 DEF Histories
  <2>10. Histories' \subseteq Histories
    BY <2>5, <2>8, <2>9 DEF Histories
  <2> QED BY <1>1, <2>2, <2>3, <2>10 DEF TagsKept, NoCommit
<1>6. CASE Sync(c)
  <2>1. clones'[c] = [clones[c] EXCEPT !.main = origin.main, !.tags = WithFetched(c, origin.main)]
    BY <1>1, <1>6 DEF Sync
  <2>2. /\ clones' = [clones EXCEPT ![c] = clones'[c]]
        /\ clones'[c].tags = WithFetched(c, origin.main)
        /\ clones'[c].main = origin.main /\ clones'[c].work = clones[c].work
        /\ origin' = origin /\ made' = made
    BY <1>1, <1>6, <2>1 DEF Sync, Clone
  <2>3. /\ DOMAIN clones[c].tags \subseteq DOMAIN clones'[c].tags
        /\ \A v \in DOMAIN clones[c].tags : clones'[c].tags[v] = clones[c].tags[v]
        /\ \A v \in DOMAIN clones'[c].tags : clones'[c].tags[v] \in Histories
    <3>1. /\ DOMAIN clones[c].tags \subseteq DOMAIN WithFetched(c, origin.main)
          /\ DOMAIN WithFetched(c, origin.main) \subseteq DOMAIN clones[c].tags \union DOMAIN origin.tags
          /\ \A v \in DOMAIN WithFetched(c, origin.main) :
               WithFetched(c, origin.main)[v] = IF v \in DOMAIN clones[c].tags THEN clones[c].tags[v]
                                                ELSE origin.tags[v].at
      BY FetchedIs
    <3>2. /\ \A v \in DOMAIN clones[c].tags : clones[c].tags[v] \in Histories
          /\ \A v \in DOMAIN origin.tags : origin.tags[v].at \in Histories
      BY HistoriesHave
    <3> QED BY <2>2, <3>1, <3>2
  <2>4. TagsKept(c)
    BY <1>1, <2>2, <2>3 DEF TagsKept
  <2>5. \A d \in Clones : LocalHistories(d)' \subseteq Histories
    <3>1. LocalHistories(c)' \subseteq Histories
      <4>1. origin.main \in Histories /\ clones[c].work \in Histories
        BY HistoriesHave
      <4> QED BY <2>2, <2>3, <4>1 DEF LocalHistories
    <3>2. \A d \in Clones : d # c => LocalHistories(d)' = LocalHistories(d)
      BY <1>1, <2>2 DEF LocalHistories
    <3> QED BY <3>1, <3>2 DEF Histories
  <2>6. Histories' \subseteq Histories
    BY <2>2, <2>5 DEF Histories
  <2> QED BY <2>2, <2>4, <2>6 DEF NoCommit
<1>7. CASE Checkout(c)
  <2>1. /\ clones' = [clones EXCEPT ![c] = clones'[c]]
        /\ clones'[c].tags = clones[c].tags /\ clones'[c].main = clones[c].main
        /\ clones'[c].work = clones[c].main
        /\ origin' = origin /\ made' = made
    BY <1>1, <1>7 DEF Checkout, Clone
  <2>2. \A d \in Clones : LocalHistories(d)' \subseteq LocalHistories(d)
    BY <1>1, <2>1 DEF LocalHistories
  <2>3. Histories' \subseteq Histories
    BY <2>1, <2>2 DEF Histories
  <2> QED BY <1>1, <2>1, <2>3 DEF TagsKept, NoCommit
<1>8. ASSUME NEW kind \in {"docs", "breaking", "feat", "fix"}, NEW entry \in Entry,
             clones' = [clones EXCEPT ![c] = clones'[c]],
             LET r == Committed(c, kind, entry)
             IN  /\ clones'[c].tags = r.tags /\ clones'[c].main = r.main /\ clones'[c].work = r.work,
             origin' = origin, made' = made + 1
      PROVE  TagsKept(c) /\ CommitMade(c, kind, entry)
  <2>1. /\ clones'[c].tags = clones[c].tags
        /\ clones'[c].main \in {clones[c].main, OneMore(c, kind, entry)}
        /\ clones'[c].work \in {clones[c].work, OneMore(c, kind, entry)}
    BY <1>1, <1>8, CommittedIs DEF OneMore, Clone
  <2>2. \A d \in Clones : d # c => clones'[d] = clones[d]
    BY <1>1, <1>8
  <2>3. \A d \in Clones : LocalHistories(d)' \subseteq LocalHistories(d) \union {OneMore(c, kind, entry)}
    BY <2>1, <2>2 DEF LocalHistories
  <2>4. Histories' \subseteq Histories \union {OneMore(c, kind, entry)}
    BY <1>8, <2>3 DEF Histories
  <2> QED BY <1>8, <2>1, <2>2, <2>4 DEF TagsKept, CommitMade
<1>9. CASE CommitEntry(c)
  <2> DEFINE r == Committed(c, "docs", clones[c].version)
  <2>1. r \in Clone
    BY <1>1, CommittedIs DEF Clone
  <2>2. clones' = [clones EXCEPT ![c] = [r EXCEPT !.written = NoVersion, !.step = "committed"]]
    BY <1>9 DEF CommitEntry
  <2>3. /\ clones' = [clones EXCEPT ![c] = clones'[c]]
        /\ clones'[c].tags = r.tags /\ clones'[c].main = r.main /\ clones'[c].work = r.work
    <3> HIDE DEF r
    <3> QED BY <1>1, <2>1, <2>2 DEF Clone
  <2>4. clones[c].version \in Entry /\ origin' = origin /\ made' = made + 1
    BY <1>1, <1>9 DEF CommitEntry, Clone
  <2> QED BY <1>8, <1>9, <2>3, <2>4
<1>10. CASE Commit(c)
  <2>1. PICK k \in Kinds[c] : clones' = [clones EXCEPT ![c] = Committed(c, k, NoVersion)]
    BY <1>10 DEF Commit
  <2>2. k \in {"docs", "breaking", "feat", "fix"} /\ NoVersion \in Entry
    BY PublishAssumption DEF Entry
  <2>3. clones' = [clones EXCEPT ![c] = clones'[c]] /\ clones'[c] = Committed(c, k, NoVersion)
    BY <1>1, <2>1
  <2>4. origin' = origin /\ made' = made + 1
    BY <1>10 DEF Commit
  <2> QED BY <1>8, <1>10, <2>2, <2>3, <2>4
<1> QED BY <1>2, <1>3, <1>4, <1>5, <1>6, <1>7, <1>9, <1>10 DEF Publish, Develop

\* Prefixes of prefixes are prefixes.
LEMMA PrefixChain ==
    ASSUME NEW g \in History, NEW h \in History, NEW k \in History, IsPrefix(g, h), IsPrefix(h, k)
    PROVE  IsPrefix(g, k)
<1>1. g \in Seq(GitCommit) /\ h \in Seq(GitCommit) /\ k \in Seq(GitCommit)
  BY DEF History
<1>2. Len(g) <= Len(h) /\ \A i \in 1..Len(g) : g[i] = h[i]
  BY <1>1, PrefixAt
<1>3. Len(h) <= Len(k) /\ \A i \in 1..Len(h) : h[i] = k[i]
  BY <1>1, PrefixAt
<1>4. Len(g) <= Len(k) /\ \A i \in 1..Len(g) : g[i] = k[i]
  BY <1>1, <1>2, <1>3
<1> QED BY <1>1, <1>4, PrefixAt

\* The branch checked out after a step.
LEMMA HeadNext ==
    ASSUME PublishTyped', NEW c \in Clones
    PROVE  HeadOf(c)' = IF clones'[c].on = "main" THEN clones'[c].main ELSE clones'[c].work
<1>1. clones'[c] \in Clone
  BY DEF PublishTyped
<1>2. CASE clones'[c].on = "main"
  BY <1>2 DEF HeadOf
<1>3. CASE clones'[c].on = "work"
  BY <1>3 DEF HeadOf
<1> QED BY <1>1, <1>2, <1>3 DEF Clone

\* Origin's branch only moves forward.
LEMMA MainGrows ==
    ASSUME PublishTyped, PublishTyped', NEW c \in Clones, Publish(c) \/ Develop(c)
    PROVE  /\ IsPrefix(origin.main, origin'.main)
           /\ PushMain(c) => IsPrefix(clones[c].main, origin'.main)
<1>1. origin.main \in History /\ origin'.main \in History /\ clones[c].main \in History
  BY HeadIs DEF PublishTyped, Clone
<1>2. \A h \in History : IsPrefix(h, h)
  BY PrefixAt DEF History
<1>3. CASE PushMain(c) \/ DevPush(c)
  <2>1. origin'.main = clones[c].main /\ IsPrefix(origin.main, clones[c].main)
    BY <1>3 DEF PushMain, DevPush, FastForward, PublishTyped
  <2> QED BY <1>1, <1>2, <2>1
<1>4. CASE ~PushMain(c) /\ ~DevPush(c)
  <2>1. origin'.main = origin.main
    BY <1>4 DEF Publish, Develop, StartPublish, WriteEntry, CommitEntry, Tag, PushTag, Break,
                Commit, Sync, RestoreChangelog, Checkout, PublishTyped
  <2> QED BY <1>1, <1>2, <1>4, <2>1
<1> QED BY <1>3, <1>4

\* The commits of a history.
LEMMA CommitsTyped ==
    ASSUME NEW h \in History
    PROVE  /\ h \in Seq(GitCommit) /\ Len(h) \in Nat /\ Len(h) > 0 /\ DOMAIN h = 1..Len(h)
           /\ \A i \in 1..Len(h) : h[i] \in GitCommit /\ h[i].id \in Nat /\ h[i].entry \in Entry
<1>1. h \in Seq(GitCommit) /\ Len(h) \in Nat /\ Len(h) > 0 /\ DOMAIN h = 1..Len(h)
  BY DEF History
<1>2. \A i \in 1..Len(h) : h[i] \in GitCommit
  BY <1>1
<1>3. \A x \in GitCommit : x.id \in Nat /\ x.entry \in Entry
  BY DEF GitCommit
<1> QED BY <1>1, <1>2, <1>3

\* A history stays recorded when a commit with a new entry, or none, is appended.
LEMMA RecordedMore ==
    ASSUME NEW n \in Nat, NEW h, Recorded(h, n), NEW x \in GitCommit, x.id = n + 1,
           x.entry \notin Entries(h)
    PROVE  Recorded(Append(h, x), n + 1)
<1> DEFINE g == Append(h, x)
<1>1. h \in History /\ h \in Seq(GitCommit) /\ Len(h) \in Nat /\ Len(h) > 0 /\ DOMAIN h = 1..Len(h)
  BY CommitsTyped DEF Recorded
<1>2. /\ g \in History /\ Len(g) = Len(h) + 1 /\ DOMAIN g = 1..(Len(h) + 1)
      /\ g[Len(h) + 1] = x /\ \A i \in 1..Len(h) : g[i] = h[i]
  BY <1>1 DEF History
<1>3. \A i \in 1..Len(h) : h[i].id \in Nat /\ h[i].id <= n
  BY <1>1, CommitsTyped DEF Recorded
<1>4. \A i \in 1..Len(h) : h[i].entry = x.entry => h[i].entry = NoVersion
  BY <1>1 DEF Entries
<1> HIDE DEF g
<1>5. \A i \in DOMAIN g : g[i].id <= n + 1
  BY <1>1, <1>2, <1>3
<1>6. \A i, j \in DOMAIN g : i < j => g[i].id < g[j].id
  BY <1>1, <1>2, <1>3 DEF Recorded
<1>7. \A i, j \in DOMAIN g : i < j /\ g[i].entry = g[j].entry => g[i].entry = NoVersion
  BY <1>1, <1>2, <1>4 DEF Recorded
<1>8. Recorded(g, n + 1)
  BY <1>2, <1>5, <1>6, <1>7 DEF Recorded
<1> QED BY <1>8 DEF g

\* And when commits are made elsewhere.
LEMMA RecordedLater ==
    ASSUME NEW n \in Nat, NEW h, Recorded(h, n)
    PROVE  Recorded(h, n + 1)
<1>1. \A i \in DOMAIN h : h[i].id \in Nat /\ h[i].id <= n
  BY CommitsTyped DEF Recorded
<1>2. \A i \in DOMAIN h : h[i].id <= n + 1
  BY <1>1
<1> QED BY <1>2 DEF Recorded

\* Every step keeps the histories recorded.
LEMMA AllRecordedAlways ==
    ASSUME PublishInvariant, NEW c \in Clones, Publish(c) \/ Develop(c)
    PROVE  AllRecorded'
<1>1. \/ NoCommit
      \/ CommitEntry(c) /\ CommitMade(c, "docs", clones[c].version)
      \/ Commit(c) /\ \E kind \in Kinds[c] : CommitMade(c, kind, NoVersion)
  BY PublishSteps DEF PublishInvariant
<1>2. made \in Nat /\ \A h \in Histories : Recorded(h, made)
  BY DEF PublishInvariant, PublishTyped, AllRecorded
<1>3. CASE NoCommit
  BY <1>2, <1>3 DEF NoCommit, AllRecorded
<1>4. ASSUME NEW kind \in {"docs", "breaking", "feat", "fix"}, NEW entry \in Entry,
             CommitMade(c, kind, entry), entry \notin Entries(HeadOf(c))
      PROVE  AllRecorded'
  <2>1. Recorded(HeadOf(c), made)
    BY <1>2, HeadIs DEF PublishInvariant
  <2>2. /\ NewCommit(kind, entry) \in GitCommit /\ NewCommit(kind, entry).id = made + 1
        /\ NewCommit(kind, entry).entry = entry
    BY CommittedIs DEF PublishInvariant, NewCommit
  <2>3. Recorded(OneMore(c, kind, entry), made + 1)
    BY <1>2, <1>4, <2>1, <2>2, RecordedMore DEF OneMore
  <2>4. \A h \in Histories' : Recorded(h, made + 1)
    BY <1>2, <1>4, <2>3, RecordedLater DEF CommitMade
  <2> QED BY <1>4, <2>4 DEF AllRecorded, CommitMade
<1>5. CASE CommitEntry(c) /\ CommitMade(c, "docs", clones[c].version)
  <2>1. clones[c].version \in Entry /\ clones[c].version \notin Entries(HeadOf(c))
    BY <1>5, HeadIs DEF PublishInvariant, InPlace, CommitEntry, Publishing, Clone
  <2> QED BY <1>4, <1>5, <2>1
<1>6. CASE \E kind \in Kinds[c] : CommitMade(c, kind, NoVersion)
  <2>1. NoVersion \in Entry /\ NoVersion \notin Entries(HeadOf(c))
    BY DEF Entry, Entries
  <2>2. Kinds[c] \subseteq {"docs", "breaking", "feat", "fix"}
    BY PublishAssumption
  <2> QED BY <1>4, <1>6, <2>1, <2>2
<1> QED BY <1>1, <1>3, <1>5, <1>6

\* Every step keeps a tag at the commit that entered its version.
LEMMA TagsNameAlways ==
    ASSUME PublishInvariant, NEW c \in Clones, Publish(c) \/ Develop(c)
    PROVE  TagsName'
<1> USE DEF PublishInvariant
<1>1. clones \in [Clones -> Clone] /\ clones[c] \in Clone
  BY HeadIs DEF PublishTyped
<1>2. CASE Tag(c)
  <2> DEFINE v == clones[c].version
             tags == WithTag(clones[c].tags, v, HeadOf(c))
  <2>1. LastEntry(HeadOf(c)) = v
    BY <1>2 DEF Tag, Publishing, InPlace
  <2>2. clones'[c].tags = tags /\ origin' = origin /\ \A d \in Clones : d # c => clones'[d] = clones[d]
    BY <1>1, <1>2 DEF Tag, Clone
  <2>3. /\ DOMAIN tags = DOMAIN clones[c].tags \union {v}
        /\ \A w \in DOMAIN tags : tags[w] = IF w = v THEN HeadOf(c) ELSE clones[c].tags[w]
    BY DEF WithTag
  <2>4. IsFiniteSet(DOMAIN clones[c].tags \union {v})
    BY FS_AddElement DEF TagsName
  <2> HIDE DEF v, tags
  <2>5. \A w \in DOMAIN tags : LastEntry(tags[w]) = w
    BY <2>1, <2>3 DEF TagsName
  <2> QED BY <2>2, <2>3, <2>4, <2>5 DEF TagsName
<1>3. CASE PushTag(c)
  <2> DEFINE v == clones[c].version
             tag == [at |-> clones[c].tags[v], from |-> clones[c].on]
             tags == WithTag(origin.tags, v, tag)
  <2>1. LastEntry(tag.at) = v
    BY <1>3 DEF PushTag, Publishing, InPlace, TagsName
  <2>2. /\ origin'.tags = tags /\ \A d \in Clones : clones'[d].tags = clones[d].tags
    BY <1>1, <1>3 DEF PushTag, Clone, PublishTyped
  <2>3. /\ DOMAIN tags = DOMAIN origin.tags \union {v}
        /\ \A w \in DOMAIN tags : tags[w] = IF w = v THEN tag ELSE origin.tags[w]
    <3> HIDE DEF v, tag
    <3> QED BY DEF WithTag
  <2>4. IsFiniteSet(DOMAIN origin.tags \union {v})
    BY FS_AddElement DEF TagsName
  <2> HIDE DEF v, tags, tag
  <2>5. \A w \in DOMAIN tags : LastEntry(tags[w].at) = w
    BY <2>1, <2>3 DEF TagsName
  <2> QED BY <2>2, <2>3, <2>4, <2>5 DEF TagsName
<1>4. CASE Sync(c)
  <2> DEFINE tags == WithFetched(c, origin.main)
  <2>1. /\ clones'[c].tags = tags /\ origin' = origin
        /\ \A d \in Clones : d # c => clones'[d] = clones[d]
    BY <1>1, <1>4 DEF Sync, Clone
  <2>2. /\ DOMAIN clones[c].tags \subseteq DOMAIN tags
        /\ DOMAIN tags \subseteq DOMAIN clones[c].tags \union DOMAIN origin.tags
        /\ \A v \in DOMAIN tags :
             tags[v] = IF v \in DOMAIN clones[c].tags THEN clones[c].tags[v] ELSE origin.tags[v].at
    BY FetchedIs
  <2> HIDE DEF tags
  <2>3. IsFiniteSet(DOMAIN clones[c].tags \union DOMAIN origin.tags)
    BY FS_Union DEF TagsName
  <2>4. IsFiniteSet(DOMAIN tags)
    BY <2>2, <2>3, FS_Subset
  <2>5. \A v \in DOMAIN tags : LastEntry(tags[v]) = v
    BY <2>2 DEF TagsName
  <2> QED BY <2>1, <2>2, <2>4, <2>5 DEF TagsName
<1>5. CASE \/ StartPublish(c) \/ CommitEntry(c) \/ PushMain(c) \/ Break(c)
           \/ Commit(c) \/ DevPush(c) \/ RestoreChangelog(c) \/ Checkout(c)
  <2>1. origin'.tags = origin.tags
    BY <1>5 DEF StartPublish, WriteEntry, CommitEntry, PushMain, Break, Commit, DevPush,
                RestoreChangelog, Checkout, PublishTyped
  <2>2. \A d \in Clones : clones'[d].tags = clones[d].tags
    <3>1. CASE StartPublish(c)
      <4>0. PICK t \in Origins(c) : \E x \in Versions(c, t) : WriteEntry(c, x)
        BY <3>1 DEF StartPublish
      <4>1. PICK v \in Versions(c, t) : WriteEntry(c, v)
        BY <4>0
      <4> QED BY <1>1, <4>1 DEF WriteEntry, Clone
    <3>2. CASE CommitEntry(c) \/ Commit(c)
      <4>1. \/ CommitMade(c, "docs", clones[c].version)
            \/ \E kind \in Kinds[c] : CommitMade(c, kind, NoVersion)
            \/ NoCommit
        BY PublishSteps
      <4>2. ~NoCommit
        BY <3>2 DEF NoCommit, CommitEntry, Commit, PublishTyped
      <4> QED BY <4>1, <4>2 DEF CommitMade
    <3>3. CASE PushMain(c) \/ Break(c)
      BY <1>1, <3>3 DEF PushMain, Reach, Break, Clone
    <3>4. CASE DevPush(c) \/ RestoreChangelog(c) \/ Checkout(c)
      BY <1>1, <3>4 DEF DevPush, RestoreChangelog, Checkout, Clone
    <3> QED BY <1>5, <3>1, <3>2, <3>3, <3>4
  <2> QED BY <2>1, <2>2 DEF TagsName
<1> QED BY <1>2, <1>3, <1>4, <1>5 DEF Publish, Develop

\* A step elsewhere leaves a publish in its place.
LEMMA InPlaceOthers ==
    ASSUME PublishInvariant, PublishTyped', NEW c \in Clones, Publish(c) \/ Develop(c),
           NEW d \in Clones, clones'[d] = clones[d]
    PROVE  InPlace(d)'
<1>1. HeadOf(d)' = HeadOf(d)
  BY HeadIs, HeadNext DEF PublishInvariant
<1>2. clones[d].step = "pushed" /\ clones[d].on = "main" => IsPrefix(clones[d].main, origin'.main)
  <2>1. /\ clones[d].main \in History /\ origin.main \in History /\ origin'.main \in History
        /\ IsPrefix(origin.main, origin'.main)
    BY HeadIs, MainGrows DEF PublishInvariant, PublishTyped, Clone
  <2> QED BY <2>1, PrefixChain DEF PublishInvariant, InPlace
<1> QED BY <1>1, <1>2 DEF InPlace, PublishInvariant

\* After these steps no publish runs in the clone.
LEMMA IdleAfter ==
    ASSUME PublishTyped, NEW c \in Clones, PushTag(c) \/ Break(c) \/ Develop(c)
    PROVE  clones'[c].step = "idle"
<1>0. clones \in [Clones -> Clone] /\ clones[c] \in Clone
  BY HeadIs DEF PublishTyped
<1>1. CASE PushTag(c) \/ Break(c)
  BY <1>0, <1>1 DEF PushTag, Break, Clone
<1>2. CASE Commit(c)
  <2>1. PICK k \in Kinds[c] : clones' = [clones EXCEPT ![c] = Committed(c, k, NoVersion)]
    BY <1>2 DEF Commit
  <2>2. k \in {"docs", "breaking", "feat", "fix"} /\ NoVersion \in Entry
    BY PublishAssumption DEF Entry
  <2>3. Committed(c, k, NoVersion).step = clones[c].step
    BY <1>0, <2>2, CommittedIs DEF Clone
  <2> QED BY <1>0, <1>2, <2>1, <2>3 DEF Commit, Quiet, Publishing
<1>3. CASE DevPush(c) \/ Sync(c)
  BY <1>0, <1>3 DEF DevPush, Sync, Quiet, Publishing, Clone
<1>4. CASE RestoreChangelog(c) \/ Checkout(c)
  BY <1>0, <1>4 DEF RestoreChangelog, Checkout, Quiet, Publishing, Clone
<1> QED BY <1>1, <1>2, <1>3, <1>4 DEF Develop

\* Every step takes a publish to its next place.
LEMMA InPlaceAlways ==
    ASSUME PublishInvariant, PublishTyped', NEW c \in Clones, Publish(c) \/ Develop(c)
    PROVE  \A d \in Clones : InPlace(d)'
<1> USE DEF PublishInvariant
<1>1. clones \in [Clones -> Clone] /\ clones[c] \in Clone
  BY HeadIs DEF PublishTyped
<1>2. \A d \in Clones : d # c => InPlace(d)'
  BY PublishSteps, InPlaceOthers DEF TagsKept
<1>3. CASE clones'[c].step = "idle"
  <2>1. InPlace(c)'
    BY <1>3 DEF InPlace
  <2> QED BY <1>2, <2>1
<1>4. CASE StartPublish(c)
  <2>0. PICK t \in Origins(c) : \E x \in Versions(c, t) : WriteEntry(c, x)
    BY <1>4 DEF StartPublish
  <2>1. PICK v \in Versions(c, t) : WriteEntry(c, v)
    BY <2>0
  <2>2. clones'[c] = [clones[c] EXCEPT !.written = v, !.step = "written", !.version = v]
    BY <1>1, <2>1 DEF WriteEntry
  <2>3. /\ clones'[c].step = "written" /\ clones'[c].version = v /\ clones'[c].on = clones[c].on
        /\ clones'[c].main = clones[c].main /\ clones'[c].work = clones[c].work
        /\ clones'[c].tags = clones[c].tags
    BY <1>1, <2>2 DEF Clone
  <2>4. HeadOf(c)' = HeadOf(c)
    BY <2>3, HeadIs, HeadNext
  <2>5. v \in Semver /\ v \notin DOMAIN clones[c].tags /\ v \notin Entries(HeadOf(c))
    BY <2>1, VersionsTyped DEF WriteEntry, TagAbsent
  <2>6. InPlace(c)'
    BY <2>3, <2>4, <2>5 DEF InPlace
  <2> QED BY <1>2, <2>6
<1>5. CASE CommitEntry(c)
  <2> DEFINE v == clones[c].version
             r == Committed(c, "docs", v)
             h == Append(HeadOf(c), NewCommit("docs", v))
  <2>1. v \in Semver /\ v \in Entry /\ v \notin DOMAIN clones[c].tags
    BY <1>1, <1>5 DEF CommitEntry, Publishing, InPlace, Clone
  <2>2. clones'[c] = [r EXCEPT !.written = NoVersion, !.step = "committed"] /\ r \in Clone
    BY <1>1, <1>5, <2>1, CommittedIs DEF CommitEntry
  <2>3. r = IF clones[c].on = "main" THEN [clones[c] EXCEPT !.main = h]
            ELSE [clones[c] EXCEPT !.work = h]
    BY <2>1, CommittedIs
  <2>4. /\ r.on = clones[c].on /\ r.version = clones[c].version /\ r.tags = clones[c].tags
        /\ h = IF r.on = "main" THEN r.main ELSE r.work
    <3> HIDE DEF h, r
    <3> QED BY <1>1, <2>3 DEF Clone
  <2>5. /\ clones'[c].step = "committed" /\ clones'[c].version = v
        /\ clones'[c].tags = clones[c].tags /\ HeadOf(c)' = h
    <3>1. /\ clones'[c].step = "committed" /\ clones'[c].version = r.version
          /\ clones'[c].tags = r.tags /\ clones'[c].on = r.on
          /\ clones'[c].main = r.main /\ clones'[c].work = r.work
      <4> HIDE DEF r
      <4> QED BY <2>2 DEF Clone
    <3> HIDE DEF r, h
    <3> QED BY <2>4, <3>1, HeadNext
  <2>6. LastEntry(h) = v
    <3>1. HeadOf(c) \in Seq(GitCommit) /\ NewCommit("docs", v).entry = v
      BY HeadIs DEF History, NewCommit
    <3>2. NewCommit("docs", v) \in GitCommit
      BY <2>1, CommittedIs
    <3> QED BY <3>1, <3>2 DEF LastEntry
  <2> HIDE DEF h
  <2>7. InPlace(c)'
    BY <2>1, <2>5, <2>6 DEF InPlace
  <2> QED BY <1>2, <2>7
<1>6. CASE Tag(c)
  <2> DEFINE v == clones[c].version
  <2>1. v \in Semver
    BY <1>6 DEF Tag, Publishing, InPlace
  <2>2. clones'[c] = [clones[c] EXCEPT !.tags = WithTag(clones[c].tags, v, HeadOf(c)), !.step = "tagged"]
    BY <1>1, <1>6 DEF Tag
  <2>3. /\ clones'[c].step = "tagged" /\ clones'[c].version = v /\ clones'[c].on = clones[c].on
        /\ clones'[c].main = clones[c].main /\ clones'[c].work = clones[c].work
        /\ clones'[c].tags = WithTag(clones[c].tags, v, HeadOf(c))
    BY <1>1, <2>2 DEF Clone
  <2>4. HeadOf(c)' = HeadOf(c)
    BY <2>3, HeadIs, HeadNext
  <2>5. v \in DOMAIN clones'[c].tags /\ clones'[c].tags[v] = HeadOf(c)
    BY <2>3 DEF WithTag
  <2>6. InPlace(c)'
    BY <2>1, <2>3, <2>4, <2>5 DEF InPlace
  <2> QED BY <1>2, <2>6
<1>7. CASE PushMain(c)
  <2>1. clones'[c] = [clones[c] EXCEPT !.step = "pushed"] /\ clones[c].step = "tagged"
    BY <1>1, <1>7 DEF PushMain, Reach, Publishing
  <2>2. /\ clones'[c].step = "pushed" /\ clones'[c].version = clones[c].version
        /\ clones'[c].on = clones[c].on /\ clones'[c].main = clones[c].main
        /\ clones'[c].work = clones[c].work /\ clones'[c].tags = clones[c].tags
    BY <1>1, <2>1 DEF Clone
  <2>3. HeadOf(c)' = HeadOf(c)
    BY <2>2, HeadIs, HeadNext
  <2>4. IsPrefix(clones[c].main, origin'.main)
    BY <1>7, MainGrows
  <2>5. InPlace(c)'
    BY <2>1, <2>2, <2>3, <2>4 DEF InPlace
  <2> QED BY <1>2, <2>5
<1>8. CASE PushTag(c) \/ Break(c) \/ Develop(c)
  <2>1. clones'[c].step = "idle"
    BY <1>8, IdleAfter
  <2> QED BY <1>3, <2>1
<1> QED BY <1>4, <1>5, <1>6, <1>7, <1>8 DEF Publish

\* Every step keeps what is tagged from main on main.
LEMMA OnMainAlways ==
    ASSUME PublishInvariant, PublishTyped', NEW c \in Clones, Publish(c) \/ Develop(c)
    PROVE  TagsOnMain'
<1> USE DEF PublishInvariant
<1>1. /\ IsPrefix(origin.main, origin'.main) /\ origin.main \in History /\ origin'.main \in History
      /\ \A v \in DOMAIN origin.tags : origin.tags[v].at \in History
  <2>1. origin.tags \in [DOMAIN origin.tags -> [at : History, from : {"main", "work"}]]
    BY TaggingIs DEF PublishTyped, OriginTags
  <2> QED BY <2>1, MainGrows DEF PublishTyped
<1>2. \A v \in DOMAIN origin.tags :
        origin.tags[v].from = "main" => IsPrefix(origin.tags[v].at, origin'.main)
  BY <1>1, PrefixChain DEF TagsOnMain
<1>3. CASE PushTag(c)
  <2> DEFINE v == clones[c].version
             tag == [at |-> clones[c].tags[v], from |-> clones[c].on]
             tags == WithTag(origin.tags, v, tag)
  <2>1. origin'.tags = tags /\ origin'.main = origin.main
    BY <1>3 DEF PushTag, PublishTyped
  <2>2. tag.from = "main" => IsPrefix(tag.at, origin.main)
    BY <1>3, HeadIs DEF PushTag, Publishing, InPlace
  <2>3. /\ DOMAIN tags = DOMAIN origin.tags \union {v}
        /\ \A w \in DOMAIN tags : tags[w] = IF w = v THEN tag ELSE origin.tags[w]
    <3> HIDE DEF v, tag
    <3> QED BY DEF WithTag
  <2> HIDE DEF v, tag, tags
  <2> QED BY <1>2, <2>1, <2>2, <2>3 DEF TagsOnMain
<1>4. CASE ~PushTag(c)
  <2>1. origin'.tags = origin.tags
    BY <1>4 DEF Publish, Develop, StartPublish, WriteEntry, CommitEntry, Tag, PushMain, Break,
                Commit, DevPush, Sync, RestoreChangelog, Checkout, PublishTyped
  <2> QED BY <1>2, <2>1 DEF TagsOnMain
<1> QED BY <1>3, <1>4

\* At first there is one history.
LEMMA OneHistory ==
    ASSUME PublishInit
    PROVE  \A h \in Histories : h = <<Released>>
<1>1. \A c \in Clones : LocalHistories(c) = {<<Released>>}
  <2> SUFFICES ASSUME NEW c \in Clones PROVE LocalHistories(c) = {<<Released>>}
    OBVIOUS
  <2>1. /\ clones[c].main = <<Released>> /\ clones[c].work = <<Released>>
        /\ clones[c].tags = [v \in {FirstVersion} |-> <<Released>>]
    BY DEF PublishInit
  <2>2. \A v \in DOMAIN clones[c].tags : clones[c].tags[v] = <<Released>>
    BY <2>1
  <2> QED BY <2>1, <2>2 DEF LocalHistories
<1>2. origin.main = <<Released>> /\ \A v \in DOMAIN origin.tags : origin.tags[v].at = <<Released>>
  BY DEF PublishInit
<1>3. UNION {LocalHistories(c) : c \in Clones} \subseteq {<<Released>>}
  BY <1>1
<1>4. {origin.tags[v].at : v \in DOMAIN origin.tags} \subseteq {<<Released>>}
  BY <1>2
<1> QED BY <1>2, <1>3, <1>4 DEF Histories

\* The invariant, at first.
LEMMA PublishInitially == PublishInit => PublishInvariant
<1> SUFFICES ASSUME PublishInit PROVE PublishInvariant
  OBVIOUS
<1>1. PublishTyped
  BY TypedInitially
<1>2. /\ \A h \in Histories : h = <<Released>>
      /\ made = 0 /\ \A c \in Clones : clones[c].step = "idle"
  BY OneHistory DEF PublishInit
<1>3. Recorded(<<Released>>, 0)
  <2>1. <<Released>> \in History
    BY <1>1, HistoriesHave, <1>2 DEF PublishTyped
  <2>2. Len(<<Released>>) = 1 /\ DOMAIN <<Released>> = {1} /\ <<Released>>[1].id = 0
    BY DEF Released
  <2> QED BY <2>1, <2>2 DEF Recorded
<1>4. LastEntry(<<Released>>) = FirstVersion
  BY DEF LastEntry, Released
<1>5. TagsName
  BY <1>4, FS_Singleton DEF PublishInit, TagsName
<1>6. IsPrefix(<<Released>>, <<Released>>)
  <2>1. \A h \in History : IsPrefix(h, h)
    BY PrefixAt DEF History
  <2> QED BY <1>3, <2>1 DEF Recorded
<1>7. TagsOnMain
  BY <1>6 DEF PublishInit, TagsOnMain
<1> QED BY <1>1, <1>2, <1>3, <1>5, <1>7 DEF PublishInvariant, AllRecorded, InPlace

\* Every step keeps the invariant.
LEMMA PublishAlways == PublishInvariant /\ [PublishNext]_publishing => PublishInvariant'
<1> SUFFICES ASSUME PublishInvariant, [PublishNext]_publishing PROVE PublishInvariant'
  OBVIOUS
<1>1. CASE UNCHANGED publishing
  BY <1>1 DEF publishing, PublishInvariant, PublishTyped, AllRecorded, Histories, LocalHistories,
              TagsName, InPlace, HeadOf, TagsOnMain
<1>2. ASSUME NEW c \in Clones, Publish(c) \/ Develop(c) PROVE PublishInvariant'
  <2>1. PublishTyped'
    BY TypedAlways DEF PublishInvariant
  <2> QED BY <1>2, <2>1, AllRecordedAlways, TagsNameAlways, InPlaceAlways, OnMainAlways DEF PublishInvariant
<1> QED BY <1>1, <1>2 DEF PublishNext

\* The invariant of a publish holds, whatever fails.
THEOREM PublishHolds == PublishSpec => []PublishInvariant
BY PublishInitially, PublishAlways, PTL DEF PublishSpec

\* Tags from main are of commits that main has, and its changelog has one entry per version.
THEOREM PublishedOnce == PublishSpec => [](TagsOnMain /\ OneEntryPerVersion)
<1>1. PublishInvariant => TagsOnMain /\ OneEntryPerVersion
  <2> SUFFICES ASSUME PublishInvariant PROVE OneEntryPerVersion
    BY DEF PublishInvariant
  <2>1. Recorded(origin.main, made)
    BY HistoriesHave DEF PublishInvariant, AllRecorded
  <2>2. DOMAIN origin.main = 1..Len(origin.main) /\ Len(origin.main) \in Nat
    BY <2>1, CommitsTyped DEF Recorded
  <2> QED BY <2>1, <2>2 DEF OneEntryPerVersion, Recorded
<1> QED BY <1>1, PublishHolds, PTL

-----------------------------------------------------------------------------
(***************************************************************************)
(* Counting versions, in the order of the commits.                         *)
(***************************************************************************)
\* A count that is enough for some commits is enough for fewer.
LEMMA EnoughLess ==
    ASSUME NEW bump, NEW S, NEW T, S \subseteq T, Enough(bump, T)
    PROVE  Enough(bump, S)
BY DEF Enough, Holds

\* What is inferred from commits is enough for them.
LEMMA InferredIsEnough ==
    ASSUME NEW S
    PROVE  /\ Enough(InferBump(S), S) /\ InferBump(S) \in {"major", "minor", "patch"}
           /\ InferBump(S) = "major" => Holds(S, "breaking")
           /\ InferBump(S) = "minor" => Holds(S, "feat")
BY DEF Enough, Holds, InferBump

\* How versions compare that are counted on.
LEMMA NextLess ==
    ASSUME NEW v \in Semver, NEW w \in Semver, NEW bump \in {"major", "minor", "patch"},
           NEW n, n = NextVersion(v, bump)
    PROVE  /\ Less(n, w) <=>
                \/ bump = "major" /\ (w[1] > v[1] + 1 \/ (w[1] = v[1] + 1 /\ (w[2] > 0 \/ (w[2] = 0 /\ w[3] > 0))))
                \/ bump = "minor" /\ (w[1] > v[1] \/ (w[1] = v[1] /\ (w[2] > v[2] + 1 \/ (w[2] = v[2] + 1 /\ w[3] > 0))))
                \/ bump = "patch" /\ (w[1] > v[1] \/ (w[1] = v[1] /\ (w[2] > v[2] \/ (w[2] = v[2] /\ w[3] > v[3] + 1))))
           /\ Less(w, n) <=>
                \/ bump = "major" /\ w[1] < v[1] + 1
                \/ bump = "minor" /\ (w[1] < v[1] \/ (w[1] = v[1] /\ w[2] < v[2] + 1))
                \/ bump = "patch" /\ (w[1] < v[1] \/ (w[1] = v[1] /\ (w[2] < v[2] \/ (w[2] = v[2] /\ w[3] < v[3] + 1))))
<1>1. n \in Semver
  BY NextVersionParts
<1>2. n = IF bump = "major" THEN <<v[1] + 1, 0, 0>>
          ELSE IF bump = "minor" THEN <<v[1], v[2] + 1, 0>> ELSE <<v[1], v[2], v[3] + 1>>
  BY DEF NextVersion
<1>3. /\ v[1] \in Nat /\ v[2] \in Nat /\ v[3] \in Nat
      /\ w[1] \in Nat /\ w[2] \in Nat /\ w[3] \in Nat
  BY VersionParts
<1>4. /\ Less(n, w) <=> \/ n[1] < w[1]
                        \/ n[1] = w[1] /\ n[2] < w[2]
                        \/ n[1] = w[1] /\ n[2] = w[2] /\ n[3] < w[3]
      /\ Less(w, n) <=> \/ w[1] < n[1]
                        \/ w[1] = n[1] /\ w[2] < n[2]
                        \/ w[1] = n[1] /\ w[2] = n[2] /\ w[3] < n[3]
  BY <1>1, LessMeans
<1>5. CASE bump = "major"
  <2>1. n[1] = v[1] + 1 /\ n[2] = 0 /\ n[3] = 0
    BY <1>2, <1>5
  <2> QED BY <1>3, <1>4, <1>5, <2>1
<1>6. CASE bump = "minor"
  <2>1. n[1] = v[1] /\ n[2] = v[2] + 1 /\ n[3] = 0
    BY <1>2, <1>6
  <2> QED BY <1>3, <1>4, <1>6, <2>1
<1>7. CASE bump = "patch"
  <2>1. n[1] = v[1] /\ n[2] = v[2] /\ n[3] = v[3] + 1
    BY <1>2, <1>7
  <2> QED BY <1>3, <1>4, <1>7, <2>1
<1> QED BY <1>5, <1>6, <1>7

\* A count that is enough for more commits reaches as far.
LEMMA EnoughReaches ==
    ASSUME NEW u \in Semver, NEW S, NEW bump, Enough(bump, S)
    PROVE  ~Less(NextVersion(u, bump), NextVersion(u, InferBump(S)))
<1> DEFINE b == InferBump(S)
<1>1. bump \in {"major", "minor", "patch"} /\ b \in {"major", "minor", "patch"}
      /\ (b = "major" => bump = "major") /\ (b = "minor" => bump # "patch")
  BY InferredIsEnough DEF Enough, Holds
<1> HIDE DEF b
<1>2. u[1] \in Nat /\ u[2] \in Nat /\ u[3] \in Nat
  BY VersionParts
<1>3. NextVersion(u, b) = IF b = "major" THEN <<u[1] + 1, 0, 0>>
                          ELSE IF b = "minor" THEN <<u[1], u[2] + 1, 0>> ELSE <<u[1], u[2], u[3] + 1>>
  BY DEF NextVersion
<1>4. NextVersion(u, b) \in Semver
  BY <1>1, NextVersionParts
<1> QED BY <1>1, <1>2, <1>3, <1>4, NextLess DEF b

\* From a version that a count goes past, a count by the same commits goes no further.
LEMMA EnoughReachesFrom ==
    ASSUME NEW v \in Semver, NEW u \in Semver, NEW S, NEW bump, Enough(bump, S),
           Less(v, u), Less(u, NextVersion(v, bump))
    PROVE  ~Less(NextVersion(v, bump), NextVersion(u, InferBump(S)))
<1> DEFINE b == InferBump(S)
<1>1. bump \in {"major", "minor", "patch"} /\ b \in {"major", "minor", "patch"}
      /\ (b = "major" => bump = "major") /\ (b = "minor" => bump # "patch")
  BY InferredIsEnough DEF Enough, Holds
<1> HIDE DEF b
<1>2. /\ v[1] \in Nat /\ v[2] \in Nat /\ v[3] \in Nat
      /\ u[1] \in Nat /\ u[2] \in Nat /\ u[3] \in Nat
  BY VersionParts
<1>3. NextVersion(u, b) = IF b = "major" THEN <<u[1] + 1, 0, 0>>
                          ELSE IF b = "minor" THEN <<u[1], u[2] + 1, 0>> ELSE <<u[1], u[2], u[3] + 1>>
  BY DEF NextVersion
<1>4. NextVersion(u, b) \in Semver
  BY <1>1, NextVersionParts
<1>5. \/ v[1] < u[1]
      \/ v[1] = u[1] /\ v[2] < u[2]
      \/ v[1] = u[1] /\ v[2] = u[2] /\ v[3] < u[3]
  BY LessMeans
<1>6. \/ bump = "major" /\ u[1] < v[1] + 1
      \/ bump = "minor" /\ (u[1] < v[1] \/ (u[1] = v[1] /\ u[2] < v[2] + 1))
      \/ bump = "patch" /\ (u[1] < v[1] \/ (u[1] = v[1] /\ (u[2] < v[2] \/ (u[2] = v[2] /\ u[3] < v[3] + 1))))
  BY <1>1, NextLess
<1> QED BY <1>1, <1>2, <1>3, <1>4, <1>5, <1>6, NextLess DEF b

\* A count from a later version that falls short of one from an earlier version: the
\* commits between the two decide.
LEMMA FallsShort ==
    ASSUME NEW u \in Semver, NEW v \in Semver, NEW S, NEW bump \in {"major", "minor", "patch"},
           Less(u, v), Less(v, NextVersion(u, InferBump(S))),
           Less(NextVersion(v, bump), NextVersion(u, InferBump(S)))
    PROVE  \/ bump # "major" /\ v[1] = u[1] /\ Holds(S, "breaking")
           \/ bump = "patch" /\ v[1] = u[1] /\ v[2] = u[2] /\ Holds(S, "feat")
<1> DEFINE b == InferBump(S)
<1>1. b \in {"major", "minor", "patch"}
      /\ (b = "major" => Holds(S, "breaking")) /\ (b = "minor" => Holds(S, "feat"))
  BY InferredIsEnough
<1> HIDE DEF b
<1>2. /\ v[1] \in Nat /\ v[2] \in Nat /\ v[3] \in Nat
      /\ u[1] \in Nat /\ u[2] \in Nat /\ u[3] \in Nat
  BY VersionParts
<1>3. NextVersion(u, b) = IF b = "major" THEN <<u[1] + 1, 0, 0>>
                          ELSE IF b = "minor" THEN <<u[1], u[2] + 1, 0>> ELSE <<u[1], u[2], u[3] + 1>>
  BY DEF NextVersion
<1>4. NextVersion(u, b) \in Semver
  BY <1>1, NextVersionParts
<1>5. \/ u[1] < v[1]
      \/ u[1] = v[1] /\ u[2] < v[2]
      \/ u[1] = v[1] /\ u[2] = v[2] /\ u[3] < v[3]
  BY LessMeans
<1>6. \/ b = "major" /\ v[1] < u[1] + 1
      \/ b = "minor" /\ (v[1] < u[1] \/ (v[1] = u[1] /\ v[2] < u[2] + 1))
      \/ b = "patch" /\ (v[1] < u[1] \/ (v[1] = u[1] /\ (v[2] < u[2] \/ (v[2] = u[2] /\ v[3] < u[3] + 1))))
  BY <1>1, NextLess DEF b
<1>7. LET w == NextVersion(u, b)
      IN  \/ bump = "major" /\ (w[1] > v[1] + 1 \/ (w[1] = v[1] + 1 /\ (w[2] > 0 \/ (w[2] = 0 /\ w[3] > 0))))
          \/ bump = "minor" /\ (w[1] > v[1] \/ (w[1] = v[1] /\ (w[2] > v[2] + 1 \/ (w[2] = v[2] + 1 /\ w[3] > 0))))
          \/ bump = "patch" /\ (w[1] > v[1] \/ (w[1] = v[1] /\ (w[2] > v[2] \/ (w[2] = v[2] /\ w[3] > v[3] + 1))))
  BY <1>4, NextLess DEF b
<1> QED BY <1>1, <1>2, <1>3, <1>5, <1>6, <1>7

\* What a count says of the commits since, by how its version differs.
LEMMA CountTells ==
    ASSUME NEW u \in Semver, NEW v \in Semver, NEW S,
           Less(v, NextVersion(u, InferBump(S))), v[1] = NextVersion(u, InferBump(S))[1]
    PROVE  LET w == NextVersion(u, InferBump(S))
           IN  /\ ~Holds(S, "breaking") /\ u[1] = v[1]
               /\ v[2] = w[2] => ~Holds(S, "feat") /\ u[2] = v[2]
<1> DEFINE b == InferBump(S)
<1>1. b \in {"major", "minor", "patch"}
      /\ (Holds(S, "breaking") => b = "major") /\ (Holds(S, "feat") => b # "patch")
  BY InferredIsEnough DEF Enough
<1> HIDE DEF b
<1>2. /\ v[1] \in Nat /\ v[2] \in Nat /\ v[3] \in Nat
      /\ u[1] \in Nat /\ u[2] \in Nat /\ u[3] \in Nat
  BY VersionParts
<1>3. NextVersion(u, b) = IF b = "major" THEN <<u[1] + 1, 0, 0>>
                          ELSE IF b = "minor" THEN <<u[1], u[2] + 1, 0>> ELSE <<u[1], u[2], u[3] + 1>>
  BY DEF NextVersion
<1>4. \/ b = "major" /\ v[1] < u[1] + 1
      \/ b = "minor" /\ (v[1] < u[1] \/ (v[1] = u[1] /\ v[2] < u[2] + 1))
      \/ b = "patch" /\ (v[1] < u[1] \/ (v[1] = u[1] /\ (v[2] < u[2] \/ (v[2] = u[2] /\ v[3] < u[3] + 1))))
  BY <1>1, NextLess DEF b
<1> QED BY <1>1, <1>2, <1>3, <1>4 DEF b

\* The prefixes of a history, and what has a prefix of it as its own.
LEMMA CutPrefix ==
    ASSUME NEW m \in History, NEW h \in History, NEW i \in 1..Len(h)
    PROVE  /\ IsPrefix(m, SubSeq(h, 1, i)) <=> Len(m) <= i /\ \A k \in 1..Len(m) : m[k] = h[k]
           /\ IsPrefix(SubSeq(h, 1, i), m) <=> i <= Len(m) /\ \A k \in 1..i : h[k] = m[k]
<1> DEFINE g == SubSeq(h, 1, i)
<1>1. m \in Seq(GitCommit) /\ h \in Seq(GitCommit) /\ Len(h) \in Nat /\ Len(m) \in Nat
  BY CommitsTyped
<1>2. g \in Seq(GitCommit) /\ Len(g) = i /\ \A k \in 1..i : g[k] = h[k]
  BY <1>1
<1> HIDE DEF g
<1>3. IsPrefix(m, g) <=> Len(m) <= i /\ \A k \in 1..Len(m) : m[k] = h[k]
  <2>1. IsPrefix(m, g) <=> Len(m) <= Len(g) /\ \A k \in 1..Len(m) : m[k] = g[k]
    BY <1>1, <1>2, PrefixAt
  <2>2. Len(m) <= i => \A k \in 1..Len(m) : g[k] = h[k]
    BY <1>1, <1>2
  <2> QED BY <1>2, <2>1, <2>2
<1>4. IsPrefix(g, m) <=> i <= Len(m) /\ \A k \in 1..i : h[k] = m[k]
  <2>1. IsPrefix(g, m) <=> Len(g) <= Len(m) /\ \A k \in 1..Len(g) : g[k] = m[k]
    BY <1>1, <1>2, PrefixAt
  <2> QED BY <1>2, <2>1
<1> QED BY <1>3, <1>4 DEF g

MarkSet == SUBSET (Semver \X History)

\* What is astray for a commit is astray for a later one of a greater version.
LEMMA AstrayBelow ==
    ASSUME NEW marks \in MarkSet, NEW h \in History, NEW i \in 1..Len(h), NEW j \in 1..Len(h), i < j,
           h[i].entry \in Semver, h[j].entry \in Semver, Less(h[i].entry, h[j].entry),
           AstrayAt(marks, h, i)
    PROVE  AstrayAt(marks, h, j)
<1>1. PICK m \in marks : Less(m[1], h[i].entry) /\ Apart(m[2], SubSeq(h, 1, i))
  BY DEF AstrayAt
<1>2. m[1] \in Semver /\ m[2] \in History
  BY DEF MarkSet
<1>3. Less(m[1], h[j].entry)
  BY <1>1, <1>2, LessOrders
<1> DEFINE t == m[2]
<1>4. Len(t) \in Nat /\ i \in Nat /\ j \in Nat
  BY <1>2, CommitsTyped
<1>5. /\ ~(Len(t) <= i /\ \A k \in 1..Len(t) : t[k] = h[k])
      /\ ~(i <= Len(t) /\ \A k \in 1..i : h[k] = t[k])
  BY <1>1, <1>2, CutPrefix DEF Apart
<1> HIDE DEF t
<1>6. /\ ~(Len(t) <= j /\ \A k \in 1..Len(t) : t[k] = h[k])
      /\ ~(j <= Len(t) /\ \A k \in 1..j : h[k] = t[k])
  BY <1>4, <1>5
<1>7. Apart(m[2], SubSeq(h, 1, j))
  BY <1>2, <1>6, CutPrefix DEF Apart, t
<1> QED BY <1>3, <1>7 DEF AstrayAt

\* The commits between two places, by a place between them.
LEMMA BetweenParts ==
    ASSUME NEW h, NEW i \in Nat, NEW j \in Nat, NEW k \in Nat
    PROVE  /\ i <= j /\ j <= k => Between(h, i, k) = Between(h, i, j) \union Between(h, j, k)
           /\ j >= i => Between(h, j, k) \subseteq Between(h, i, k)
           /\ j <= k => Between(h, i, j) \subseteq Between(h, i, k)
<1>1. /\ i <= j /\ j <= k => (i + 1)..k = ((i + 1)..j) \union ((j + 1)..k)
      /\ j >= i => (j + 1)..k \subseteq (i + 1)..k
      /\ j <= k => (i + 1)..j \subseteq (i + 1)..k
  OBVIOUS
<1> QED BY <1>1 DEF Between

\* Appending leaves what was there as it was.
LEMMA Appended ==
    ASSUME NEW h \in History, NEW x \in GitCommit
    PROVE  LET g == Append(h, x)
           IN  /\ g \in History /\ Len(g) = Len(h) + 1 /\ g[Len(h) + 1] = x
               /\ \A i \in 1..Len(h) : g[i] = h[i] /\ SubSeq(g, 1, i) = SubSeq(h, 1, i)
               /\ \A i \in Nat : \A j \in 0..Len(h) : Between(g, i, j) = Between(h, i, j)
               /\ \A i \in 0..Len(h) : Between(g, i, Len(h) + 1) = Between(h, i, Len(h)) \union {x}
<1> DEFINE g == Append(h, x)
           n == Len(h)
<1>1. h \in Seq(GitCommit) /\ n \in Nat
  BY CommitsTyped
<1>2. g \in History /\ Len(g) = n + 1 /\ g[n + 1] = x /\ \A i \in 1..n : g[i] = h[i]
  BY <1>1 DEF History
<1> HIDE DEF g
<1>3. g \in Seq(GitCommit)
  BY <1>2, CommitsTyped
<1>4. \A i \in 1..n : SubSeq(g, 1, i) = SubSeq(h, 1, i)
  <2> SUFFICES ASSUME NEW i \in 1..n PROVE SubSeq(g, 1, i) = SubSeq(h, 1, i)
    OBVIOUS
  <2>1. /\ SubSeq(g, 1, i) \in Seq(GitCommit) /\ SubSeq(h, 1, i) \in Seq(GitCommit)
        /\ Len(SubSeq(g, 1, i)) = i /\ Len(SubSeq(h, 1, i)) = i
        /\ \A k \in 1..i : SubSeq(g, 1, i)[k] = g[k] /\ SubSeq(h, 1, i)[k] = h[k]
    BY <1>1, <1>2, <1>3
  <2> QED BY <1>1, <1>2, <2>1
<1>5. \A i \in Nat : \A j \in 0..n : Between(g, i, j) = Between(h, i, j)
  <2> SUFFICES ASSUME NEW i \in Nat, NEW j \in 0..n PROVE Between(g, i, j) = Between(h, i, j)
    OBVIOUS
  <2>1. \A k \in (i + 1)..j : k \in 1..n
    BY <1>1
  <2> QED BY <1>2, <2>1 DEF Between
<1>6. \A i \in 0..n : Between(g, i, n + 1) = Between(h, i, n) \union {x}
  <2> SUFFICES ASSUME NEW i \in 0..n PROVE Between(g, i, n + 1) = Between(h, i, n) \union {x}
    OBVIOUS
  <2>1. Between(g, i, n + 1) = Between(g, i, n) \union Between(g, n, n + 1)
    BY <1>1, BetweenParts
  <2>2. (n + 1)..(n + 1) = {n + 1}
    BY <1>1
  <2>3. Between(g, n, n + 1) = {x}
    BY <1>2, <2>2 DEF Between
  <2> QED BY <1>1, <1>5, <2>1, <2>3
<1> QED BY <1>2, <1>4, <1>5, <1>6 DEF g

\* What a publish counts: the commits of its history that a tagged part of it lacks.
LEMMA SinceIsBetween ==
    ASSUME NEW n \in Nat, NEW h, Recorded(h, n), NEW t \in History, Len(t) <= Len(h),
           \A k \in 1..Len(t) : t[k] = h[k]
    PROVE  SinceTag(h, t) = Between(h, Len(t), Len(h))
<1>1. /\ Len(h) \in Nat /\ Len(t) \in Nat /\ DOMAIN h = 1..Len(h) /\ DOMAIN t = 1..Len(t)
      /\ \A i \in 1..Len(h) : h[i].id \in Nat
  BY CommitsTyped DEF Recorded
<1>2. Range(h) = {h[i] : i \in 1..Len(h)} /\ Range(t) = {h[i] : i \in 1..Len(t)}
  BY <1>1 DEF Range
<1>3. \A i, j \in 1..Len(h) : h[i] = h[j] => i = j
  <2> SUFFICES ASSUME NEW i \in 1..Len(h), NEW j \in 1..Len(h), h[i] = h[j], i # j PROVE FALSE
    OBVIOUS
  <2>1. i < j \/ j < i
    OBVIOUS
  <2>2. h[i].id < h[j].id \/ h[j].id < h[i].id
    BY <1>1, <2>1 DEF Recorded
  <2> QED BY <1>1, <2>2
<1>4. \A i \in 1..Len(h) : h[i] \notin {h[k] : k \in 1..Len(t)} <=> i \in (Len(t) + 1)..Len(h)
  BY <1>1, <1>3
<1>5. (Len(t) + 1)..Len(h) \subseteq 1..Len(h)
  BY <1>1
<1> QED BY <1>2, <1>4, <1>5 DEF SinceTag, Between

\* Pairs of commits that are there before another one is appended.
LEMMA PairsStay ==
    ASSUME NEW marks, NEW h \in History, NEW x \in GitCommit, Ordered(marks, h),
           NEW i \in 1..Len(h), NEW j \in 1..Len(h), i < j
    PROVE  LET g == Append(h, x)
           IN  Entered(g, i) /\ Entered(g, j) =>
                 Growing(marks, g, i, j) /\ Graded(marks, g, i, j) /\ Reaching(marks, g, i, j)
<1> DEFINE g == Append(h, x)
<1>1. /\ Len(h) \in Nat /\ DOMAIN h = 1..Len(h)
      /\ \A k \in 1..Len(h) : g[k] = h[k] /\ SubSeq(g, 1, k) = SubSeq(h, 1, k)
      /\ \A k \in Nat : \A l \in 0..Len(h) : Between(g, k, l) = Between(h, k, l)
  BY CommitsTyped, Appended
<1> HIDE DEF g
<1>2. g[i] = h[i] /\ g[j] = h[j] /\ \A k \in 1..j : g[k] = h[k]
  BY <1>1
<1>3. AstrayAt(marks, g, i) = AstrayAt(marks, h, i) /\ AstrayAt(marks, g, j) = AstrayAt(marks, h, j)
  BY <1>1, <1>2 DEF AstrayAt
<1>4. Between(g, i, j) = Between(h, i, j) /\ Between(g, i, j - 1) = Between(h, i, j - 1)
  BY <1>1
<1>5. Entered(h, i) /\ Entered(h, j) =>
        Growing(marks, h, i, j) /\ Graded(marks, h, i, j) /\ Reaching(marks, h, i, j)
  BY <1>1 DEF Ordered
<1>6. Growing(marks, g, i, j) <=> Growing(marks, h, i, j)
  BY <1>2, <1>3 DEF Growing
<1>7. Graded(marks, g, i, j) <=> Graded(marks, h, i, j)
  BY <1>2, <1>3, <1>4 DEF Graded
<1>8. Reaching(marks, h, i, j) => Reaching(marks, g, i, j)
  BY <1>2, <1>3, <1>4 DEF Reaching
<1>9. Entered(g, i) = Entered(h, i) /\ Entered(g, j) = Entered(h, j)
  BY <1>2 DEF Entered
<1> QED BY <1>5, <1>6, <1>7, <1>8, <1>9 DEF g

\* More tags make a history no less ordered.
LEMMA OrderedLater ==
    ASSUME NEW marks, NEW more, marks \subseteq more, NEW h, Ordered(marks, h)
    PROVE  Ordered(more, h)
<1>1. \A i : AstrayAt(marks, h, i) => AstrayAt(more, h, i)
  BY DEF AstrayAt
<1>2. \A i, j : /\ Growing(marks, h, i, j) => Growing(more, h, i, j)
                /\ Graded(marks, h, i, j) => Graded(more, h, i, j)
                /\ Reaching(marks, h, i, j) => Reaching(more, h, i, j)
  BY <1>1 DEF Growing, Graded, Reaching
<1> QED BY <1>2 DEF Ordered

\* A commit that enters no version.
LEMMA OrderedWithout ==
    ASSUME NEW marks, NEW h \in History, NEW x \in GitCommit, Ordered(marks, h), x.entry = NoVersion
    PROVE  Ordered(marks, Append(h, x))
<1> DEFINE g == Append(h, x)
<1>1. Len(h) \in Nat /\ g \in History /\ Len(g) = Len(h) + 1 /\ g[Len(h) + 1] = x
  BY CommitsTyped, Appended
<1>2. \A i \in 1..Len(h) : \A j \in 1..Len(h) : i < j /\ Entered(g, i) /\ Entered(g, j) =>
        Growing(marks, g, i, j) /\ Graded(marks, g, i, j) /\ Reaching(marks, g, i, j)
  BY PairsStay
<1> HIDE DEF g
<1>3. ~Entered(g, Len(h) + 1)
  BY <1>1 DEF Entered
<1>4. DOMAIN g = 1..(Len(h) + 1)
  BY <1>1, CommitsTyped
<1>5. \A i, j \in DOMAIN g : i < j /\ Entered(g, j) => i \in 1..Len(h) /\ j \in 1..Len(h)
  BY <1>1, <1>3, <1>4
<1>6. Ordered(marks, g)
  BY <1>2, <1>5 DEF Ordered
<1> QED BY <1>6 DEF g

-----------------------------------------------------------------------------
(***************************************************************************)
(* A version is entered.                                                   *)
(***************************************************************************)
\* A history h gets the commit x with the version that was counted from the tag u of the
\* history t.
CountedOn(marks, n, h, u, t, x) ==
    /\ n \in Nat /\ marks \in MarkSet
    /\ Recorded(h, n) /\ Ordered(marks, h)
    /\ <<u, t>> \in marks /\ Recorded(t, n) /\ Ordered(marks, t) /\ LastEntry(t) = u
    /\ x \in GitCommit /\ x.id = n + 1 /\ x.kind = "docs"
    /\ x.entry = NextVersion(u, InferBump(SinceTag(h, t))) /\ x.entry \notin Entries(h)

\* The types of it, and that the version is new and greater than the one it was counted from.
LEMMA CountedFacts ==
    ASSUME NEW marks, NEW n, NEW h, NEW u, NEW t, NEW x, CountedOn(marks, n, h, u, t, x)
    PROVE  /\ h \in History /\ t \in History /\ u \in Semver /\ x.entry \in Semver
           /\ Less(u, x.entry)
           /\ Len(h) \in Nat /\ DOMAIN h = 1..Len(h) /\ Len(h) > 0
           /\ Len(t) \in Nat /\ DOMAIN t = 1..Len(t) /\ Len(t) > 0 /\ t[Len(t)].entry = u
           /\ \A i \in 1..Len(h) : Entered(h, i) => h[i].entry \in Semver /\ h[i].entry # x.entry
           /\ \A i \in 1..Len(t) : Entered(t, i) => t[i].entry \in Semver
<1>1. h \in History /\ t \in History /\ u \in Semver
  BY DEF CountedOn, Recorded, MarkSet
<1>2. InferBump(SinceTag(h, t)) \in {"major", "minor", "patch"}
  BY InferredIsEnough
<1>3. x.entry \in Semver /\ Less(u, x.entry)
  BY <1>1, <1>2, NextVersionParts DEF CountedOn
<1>4. \A i \in 1..Len(h) : Entered(h, i) => h[i].entry \in Semver /\ h[i].entry # x.entry
  BY <1>1, CommitsTyped DEF Entered, Entry, Entries, CountedOn
<1>5. \A i \in 1..Len(t) : Entered(t, i) => t[i].entry \in Semver
  BY <1>1, CommitsTyped DEF Entered, Entry
<1> QED BY <1>1, <1>3, <1>4, <1>5, CommitsTyped DEF CountedOn, LastEntry

\* No version is the absence of one.
LEMMA SemverEntered == NoVersion \notin Semver
BY DEF NoVersion, Semver

\* The new version is greater than each entry before it, unless that is astray.
LEMMA CountedGrows ==
    ASSUME NEW marks, NEW n, NEW h, NEW u, NEW t, NEW x, CountedOn(marks, n, h, u, t, x),
           NEW i \in 1..Len(h), Entered(h, i), ~AstrayAt(marks, h, i)
    PROVE  Less(h[i].entry, x.entry)
<1> DEFINE e == h[i].entry
           w == x.entry
<1>1. /\ h \in History /\ t \in History /\ u \in Semver /\ w \in Semver /\ e \in Semver
      /\ Less(u, w) /\ e # w /\ Len(h) \in Nat /\ Len(t) \in Nat /\ Len(t) > 0 /\ t[Len(t)].entry = u
  BY CountedFacts
<1> SUFFICES ASSUME Less(w, e) PROVE FALSE
  BY <1>1, LessOrders
<1>2. Less(u, e) /\ u # e /\ ~Less(e, u)
  BY <1>1, LessOrders
<1>3. ~Apart(t, SubSeq(h, 1, i))
  BY <1>2 DEF AstrayAt, CountedOn
<1>4. CASE IsPrefix(SubSeq(h, 1, i), t)
  <2>1. i <= Len(t) /\ \A k \in 1..i : h[k] = t[k]
    BY <1>1, <1>4, CutPrefix
  <2>2. i \in 1..Len(t) /\ t[i] = h[i] /\ i < Len(t)
    BY <1>1, <1>2, <2>1
  <2>3. Entered(t, i) /\ Entered(t, Len(t))
    BY <1>1, <2>2 DEF Entered, NoVersion, Semver
  <2>4. DOMAIN t = 1..Len(t) /\ Ordered(marks, t)
    BY CountedFacts DEF CountedOn
  <2>5. Growing(marks, t, i, Len(t))
    BY <1>1, <2>2, <2>3, <2>4 DEF Ordered
  <2>6. SubSeq(t, 1, i) = SubSeq(h, 1, i)
    <3>1. /\ SubSeq(t, 1, i) \in Seq(GitCommit) /\ SubSeq(h, 1, i) \in Seq(GitCommit)
          /\ Len(SubSeq(t, 1, i)) = i /\ Len(SubSeq(h, 1, i)) = i
          /\ \A k \in 1..i : SubSeq(t, 1, i)[k] = t[k] /\ SubSeq(h, 1, i)[k] = h[k]
      BY <1>1, <2>2, CommitsTyped
    <3> QED BY <2>1, <3>1
  <2>7. AstrayAt(marks, h, i)
    BY <1>1, <1>2, <2>2, <2>5, <2>6 DEF Growing, AstrayAt
  <2> QED BY <2>7
<1>5. CASE IsPrefix(t, SubSeq(h, 1, i)) /\ ~IsPrefix(SubSeq(h, 1, i), t)
  <2> DEFINE k == Len(t)
             b == InferBump(SinceTag(h, t))
  <2>1. k <= i /\ \A l \in 1..k : t[l] = h[l]
    BY <1>1, <1>5, CutPrefix
  <2>2. k < i /\ k \in 1..Len(h) /\ h[k].entry = u
    BY <1>1, <1>2, <2>1
  <2>3. SinceTag(h, t) = Between(h, k, Len(h))
    BY <1>1, <2>1, <2>2, SinceIsBetween DEF CountedOn
  <2>4. Between(h, k, i - 1) \subseteq Between(h, k, Len(h))
    BY <1>1, <2>2, BetweenParts
  <2>5. Enough(b, Between(h, k, i - 1)) /\ b \in {"major", "minor", "patch"}
    BY <2>3, <2>4, InferredIsEnough, EnoughLess
  <2>6. Entered(h, k)
    BY <1>1, <2>2 DEF Entered, NoVersion, Semver
  <2>7. Reaching(marks, h, k, i)
    BY <2>2, <2>6, CountedFacts DEF Ordered, CountedOn
  <2>8. NextVersion(h[k].entry, b) = w
    BY <2>2 DEF CountedOn
  <2>9. \E l \in 1..i : h[l].entry = w
    <3> HIDE DEF b
    <3>1. Less(h[k].entry, h[i].entry) /\ ~AstrayAt(marks, h, i) /\ Enough(b, Between(h, k, i - 1))
      BY <1>2, <2>2, <2>5
    <3>2. ~Less(NextVersion(h[k].entry, b), h[i].entry) \/ \E l \in 1..i : h[l].entry = NextVersion(h[k].entry, b)
      BY <2>5, <2>7, <3>1, Zenon DEF Reaching
    <3> QED BY <2>8, <3>2
  <2>10. PICK l \in 1..Len(h) : h[l].entry = w
    BY <1>1, <2>9
  <2>11. w \in Semver /\ w # NoVersion
    BY CountedFacts, SemverEntered
  <2>12. Entered(h, l)
    <3> HIDE DEF w
    <3> QED BY <2>10, <2>11 DEF Entered
  <2> QED BY <2>10, <2>12, CountedFacts
<1> QED BY <1>3, <1>4, <1>5 DEF Apart

\* Where nothing is astray for the new version, it was counted along its own history.
LEMMA CountedAlong ==
    ASSUME NEW marks, NEW n, NEW h, NEW u, NEW t, NEW x, CountedOn(marks, n, h, u, t, x),
           ~AstrayAt(marks, Append(h, x), Len(h) + 1)
    PROVE  /\ Len(t) \in 1..Len(h) /\ h[Len(t)].entry = u /\ Entered(h, Len(t))
           /\ SinceTag(h, t) = Between(h, Len(t), Len(h))
           /\ \A i \in 1..Len(h) :
                Entered(h, i) /\ Less(h[i].entry, x.entry) => ~AstrayAt(marks, h, i)
<1> DEFINE g == Append(h, x)
           w == x.entry
           k == Len(t)
<1>1. /\ h \in History /\ t \in History /\ u \in Semver /\ w \in Semver /\ Less(u, w)
      /\ Len(h) \in Nat /\ k \in Nat /\ k > 0 /\ t[k].entry = u
      /\ \A i \in 1..Len(h) : Entered(h, i) => h[i].entry \in Semver
  BY CountedFacts
<1>2. /\ g \in History /\ Len(g) = Len(h) + 1 /\ g[Len(h) + 1] = x
      /\ \A i \in 1..Len(h) : g[i] = h[i] /\ SubSeq(g, 1, i) = SubSeq(h, 1, i)
  BY <1>1, Appended DEF CountedOn
<1> HIDE DEF g
<1>3. Len(h) + 1 \in 1..Len(g) /\ g[Len(h) + 1].entry = w
  BY <1>1, <1>2
<1>4. ~Apart(t, SubSeq(g, 1, Len(h) + 1))
  BY <1>1, <1>3 DEF AstrayAt, CountedOn, g
<1>5. \/ k <= Len(h) + 1 /\ \A l \in 1..k : t[l] = g[l]
      \/ Len(h) + 1 <= k /\ \A l \in 1..(Len(h) + 1) : g[l] = t[l]
  BY <1>1, <1>2, <1>3, <1>4, CutPrefix DEF Apart
<1>6. k <= Len(h)
  <2> SUFFICES ASSUME Len(h) + 1 <= k PROVE FALSE
    BY <1>1
  <2>1. t[Len(h) + 1] = x /\ Len(h) + 1 \in DOMAIN t
    BY <1>1, <1>2, <1>5, CountedFacts
  <2>2. x.id <= n
    BY <2>1 DEF CountedOn, Recorded
  <2> QED BY <2>2 DEF CountedOn
<1>7. \A l \in 1..k : t[l] = h[l]
  BY <1>1, <1>2, <1>5, <1>6
<1>8. k \in 1..Len(h) /\ h[k].entry = u /\ Entered(h, k)
  <2>1. k \in 1..Len(h) /\ h[k].entry = u
    BY <1>1, <1>6, <1>7
  <2> HIDE DEF k
  <2>2. u # NoVersion
    BY <1>1, SemverEntered
  <2> QED BY <2>1, <2>2 DEF Entered
<1>9. SinceTag(h, t) = Between(h, k, Len(h))
  BY <1>1, <1>6, <1>7, SinceIsBetween DEF CountedOn
<1>10. ASSUME NEW i \in 1..Len(h), Entered(h, i), Less(h[i].entry, w), AstrayAt(marks, h, i) PROVE FALSE
  <2>1. AstrayAt(marks, g, i)
    BY <1>2, <1>10 DEF AstrayAt
  <2>2. i \in 1..Len(g) /\ i < Len(h) + 1 /\ g[i].entry \in Semver /\ Less(g[i].entry, g[Len(h) + 1].entry)
    BY <1>1, <1>2, <1>10
  <2>3. AstrayAt(marks, g, Len(h) + 1)
    BY <1>1, <1>2, <1>3, <2>1, <2>2, AstrayBelow DEF CountedOn
  <2> QED BY <2>3 DEF g
<1> QED BY <1>8, <1>9, <1>10

\* The new version stands by what was committed since an earlier one.
LEMMA CountedGraded ==
    ASSUME NEW marks, NEW n, NEW h, NEW u, NEW t, NEW x, CountedOn(marks, n, h, u, t, x),
           NEW g, g = Append(h, x), NEW i \in 1..Len(h), Entered(h, i)
    PROVE  Graded(marks, g, i, Len(h) + 1)
<1> DEFINE v == h[i].entry
           w == x.entry
           k == Len(t)
           S == SinceTag(h, t)
<1>1. /\ h \in History /\ t \in History /\ u \in Semver /\ w \in Semver /\ v \in Semver /\ Less(u, w)
      /\ Len(h) \in Nat /\ DOMAIN h = 1..Len(h)
  BY CountedFacts
<1>2. g[Len(h) + 1] = x /\ g[i] = h[i] /\ Between(g, i, Len(h) + 1) = Between(h, i, Len(h)) \union {x}
  BY <1>1, Appended DEF CountedOn
<1>3. x.kind = "docs"
  BY DEF CountedOn
<1> SUFFICES ASSUME Less(v, w), ~AstrayAt(marks, g, Len(h) + 1), v[1] = w[1]
             PROVE  /\ ~Holds(Between(h, i, Len(h)), "breaking")
                    /\ v[2] = w[2] => ~Holds(Between(h, i, Len(h)), "feat")
  BY <1>2, <1>3 DEF Graded, Holds
<1>4. /\ k \in 1..Len(h) /\ h[k].entry = u /\ Entered(h, k) /\ S = Between(h, k, Len(h))
      /\ \A j \in 1..Len(h) : Entered(h, j) /\ Less(h[j].entry, w) => ~AstrayAt(marks, h, j)
  BY CountedAlong
<1>5. /\ ~Holds(S, "breaking") /\ u[1] = v[1]
      /\ v[2] = w[2] => ~Holds(S, "feat") /\ u[2] = v[2]
  <2>1. w = NextVersion(u, InferBump(S))
    BY DEF CountedOn
  <2> HIDE DEF S, v, w
  <2> QED BY <1>1, <2>1, CountTells
<1>6. CASE k <= i
  <2>1. Between(h, i, Len(h)) \subseteq S
    <3>1. i \in Nat /\ k \in Nat /\ k <= i
      BY <1>4, <1>6
    <3> HIDE DEF k, S
    <3> QED BY <1>1, <1>4, <3>1, BetweenParts
  <2> QED BY <1>5, <2>1 DEF Holds
<1>7. CASE i < k
  <2>1. Growing(marks, h, i, k) /\ Graded(marks, h, i, k)
    BY <1>1, <1>4, <1>7 DEF Ordered, CountedOn
  <2>2. Less(v, u) /\ ~AstrayAt(marks, h, k)
    BY <1>1, <1>4, <2>1 DEF Growing
  <2>3. ~Holds(Between(h, i, k), "breaking") /\ (u[2] = v[2] => ~Holds(Between(h, i, k), "feat"))
    BY <1>4, <1>5, <2>1, <2>2 DEF Graded
  <2>4. Between(h, i, Len(h)) = Between(h, i, k) \union S
    <3>1. i \in Nat /\ k \in Nat /\ i <= k /\ k <= Len(h)
      BY <1>1, <1>4, <1>7
    <3> HIDE DEF k, S
    <3> QED BY <1>1, <1>4, <3>1, BetweenParts
  <2> HIDE DEF S, k, v, w
  <2> QED BY <1>5, <2>3, <2>4 DEF Holds
<1>8. k <= i \/ i < k
  BY <1>1, <1>4
<1> QED BY <1>6, <1>7, <1>8

\* Nobody who counts on from an earlier version falls between it and the new one.
LEMMA CountedReaches ==
    ASSUME NEW marks, NEW n, NEW h, NEW u, NEW t, NEW x, CountedOn(marks, n, h, u, t, x),
           NEW g, g = Append(h, x), NEW i \in 1..Len(h), Entered(h, i)
    PROVE  Reaching(marks, g, i, Len(h) + 1)
<1> DEFINE v == h[i].entry
           w == x.entry
           k == Len(t)
           S == SinceTag(h, t)
<1>1. /\ h \in History /\ t \in History /\ u \in Semver /\ w \in Semver /\ v \in Semver /\ Less(u, w)
      /\ Len(h) \in Nat /\ DOMAIN h = 1..Len(h)
  BY CountedFacts
<1>2. /\ g[Len(h) + 1] = x /\ \A j \in 1..Len(h) : g[j] = h[j]
      /\ Between(g, i, Len(h) + 1 - 1) = Between(h, i, Len(h))
  BY <1>1, Appended DEF CountedOn
<1> SUFFICES ASSUME NEW bump \in {"major", "minor", "patch"}, Less(v, w),
                    ~AstrayAt(marks, g, Len(h) + 1), Enough(bump, Between(h, i, Len(h))),
                    Less(NextVersion(v, bump), w)
             PROVE  \E j \in 1..Len(h) : h[j].entry = NextVersion(v, bump)
  BY <1>1, <1>2 DEF Reaching
<1> DEFINE next == NextVersion(v, bump)
<1>3. /\ k \in 1..Len(h) /\ h[k].entry = u /\ Entered(h, k) /\ S = Between(h, k, Len(h))
      /\ \A j \in 1..Len(h) : Entered(h, j) /\ Less(h[j].entry, w) => ~AstrayAt(marks, h, j)
  BY CountedAlong
<1>4. w = NextVersion(u, InferBump(S)) /\ next \in Semver /\ ~AstrayAt(marks, h, i) /\ ~AstrayAt(marks, h, k)
  BY <1>1, <1>3, NextVersionParts DEF CountedOn
<1>5. CASE i = k
  BY <1>1, <1>3, <1>4, <1>5, EnoughReaches
<1>6. CASE i < k
  <2>1. Growing(marks, h, i, k) /\ Reaching(marks, h, i, k)
    BY <1>1, <1>3, <1>6 DEF Ordered, CountedOn
  <2>2. Less(v, u)
    BY <1>3, <1>4, <2>1 DEF Growing
  <2>3. Between(h, i, k - 1) \subseteq Between(h, i, Len(h)) /\ S \subseteq Between(h, i, Len(h))
    <3>1. i \in Nat /\ k \in Nat /\ k - 1 \in Nat /\ k - 1 <= Len(h) /\ i <= k
      BY <1>1, <1>3, <1>6
    <3> HIDE DEF k, S
    <3> QED BY <1>1, <1>3, <3>1, BetweenParts
  <2>4. Enough(bump, Between(h, i, k - 1)) /\ Enough(bump, S)
    BY <2>3, EnoughLess
  <2>5. ~Less(next, u) \/ \E j \in 1..k : h[j].entry = next
    BY <1>3, <1>4, <2>1, <2>2, <2>4 DEF Reaching
  <2>6. ~Less(u, next)
    BY <1>1, <1>4, <2>2, <2>4, EnoughReachesFrom
  <2>7. next = u \/ \E j \in 1..k : h[j].entry = next
    BY <1>1, <1>4, <2>5, <2>6, LessOrders
  <2> QED BY <1>1, <1>3, <2>7
<1>7. CASE k < i
  <2>1. Growing(marks, h, k, i) /\ Graded(marks, h, k, i)
    BY <1>1, <1>3, <1>7 DEF Ordered, CountedOn
  <2>2. Less(u, v)
    BY <1>3, <1>4, <2>1 DEF Growing
  <2>3. \/ bump # "major" /\ v[1] = u[1] /\ Holds(S, "breaking")
        \/ bump = "patch" /\ v[1] = u[1] /\ v[2] = u[2] /\ Holds(S, "feat")
    BY <1>1, <1>4, <2>2, FallsShort
  <2>4. S = Between(h, k, i) \union Between(h, i, Len(h))
    BY <1>1, <1>3, <1>7, BetweenParts
  <2>5. \/ v[1] = u[1] /\ Holds(Between(h, k, i), "breaking")
        \/ v[1] = u[1] /\ v[2] = u[2] /\ Holds(Between(h, k, i), "feat")
    BY <2>3, <2>4 DEF Holds, Enough
  <2> QED BY <1>3, <1>4, <2>1, <2>2, <2>5 DEF Graded
<1> QED BY <1>1, <1>3, <1>5, <1>6, <1>7

\* So the histories stay in order when a version is entered.
LEMMA OrderedCounted ==
    ASSUME NEW marks, NEW n, NEW h, NEW u, NEW t, NEW x, CountedOn(marks, n, h, u, t, x)
    PROVE  Ordered(marks, Append(h, x))
<1> DEFINE g == Append(h, x)
<1>1. Len(h) \in Nat /\ h \in History /\ x \in GitCommit /\ Ordered(marks, h)
  BY CountedFacts DEF CountedOn
<1>2. /\ g \in History /\ Len(g) = Len(h) + 1 /\ g[Len(h) + 1] = x
      /\ \A i \in 1..Len(h) : g[i] = h[i] /\ SubSeq(g, 1, i) = SubSeq(h, 1, i)
  BY <1>1, Appended
<1>3. DOMAIN g = 1..(Len(h) + 1)
  BY <1>2, CommitsTyped
<1>4. \A i \in 1..Len(h) : \A j \in 1..Len(h) : i < j /\ Entered(g, i) /\ Entered(g, j) =>
        Growing(marks, g, i, j) /\ Graded(marks, g, i, j) /\ Reaching(marks, g, i, j)
  BY <1>1, PairsStay
<1>5. ASSUME NEW i \in 1..Len(h), Entered(g, i)
      PROVE  /\ Growing(marks, g, i, Len(h) + 1) /\ Graded(marks, g, i, Len(h) + 1)
             /\ Reaching(marks, g, i, Len(h) + 1)
  <2>1. Entered(h, i) /\ (AstrayAt(marks, g, i) <=> AstrayAt(marks, h, i))
    <3> HIDE DEF g
    <3> QED BY <1>2, <1>5 DEF Entered, AstrayAt
  <2>2. Growing(marks, g, i, Len(h) + 1)
    <3>1. ~AstrayAt(marks, h, i) => Less(h[i].entry, x.entry)
      BY <2>1, CountedGrows
    <3> HIDE DEF g
    <3> QED BY <1>2, <2>1, <3>1 DEF Growing
  <2> QED BY <2>1, <2>2, CountedGraded, CountedReaches
<1> HIDE DEF g
<1>6. \A i, j \in DOMAIN g : i < j => i \in 1..Len(h) /\ (j \in 1..Len(h) \/ j = Len(h) + 1)
  BY <1>1, <1>3
<1>7. Ordered(marks, g)
  BY <1>4, <1>5, <1>6 DEF Ordered
<1> QED BY <1>7 DEF g

-----------------------------------------------------------------------------
(***************************************************************************)
(* Versions that are inferred.                                             *)
(***************************************************************************)
\* The invariant of publishes that infer their version.
LEMMA MarksTyped ==
    ASSUME PublishTyped
    PROVE  /\ Marks \in MarkSet
           /\ \A c \in Clones : \A t \in DOMAIN clones[c].tags : <<t, clones[c].tags[t]>> \in Marks
<1>1. ASSUME NEW c \in Clones, NEW t \in DOMAIN clones[c].tags
      PROVE  t \in Semver /\ clones[c].tags[t] \in History
  <2>1. clones[c].tags \in Tagging(History)
    BY HeadIs DEF Clone, LocalTags
  <2> QED BY <2>1, TaggingIs
<1>2. \A c \in Clones : {<<t, clones[c].tags[t]>> : t \in DOMAIN clones[c].tags} \subseteq Semver \X History
  BY <1>1
<1> QED BY <1>2 DEF Marks, MarkSet

\* No step moves or removes a tag.
LEMMA MarksKept ==
    ASSUME NEW c \in Clones, TagsKept(c)
    PROVE  Marks \subseteq Marks'
<1>1. ASSUME NEW d \in Clones
      PROVE  {<<t, clones[d].tags[t]>> : t \in DOMAIN clones[d].tags}
               \subseteq {<<t, clones'[d].tags[t]>> : t \in DOMAIN clones'[d].tags}
  BY DEF TagsKept
<1> QED BY <1>1 DEF Marks

\* The order, at first.
LEMMA OrderedInitially == PublishInit => OrderInvariant
<1> SUFFICES ASSUME PublishInit PROVE OrderInvariant
  OBVIOUS
<1>1. DOMAIN <<Released>> = {1}
  OBVIOUS
<1>2. Ordered(Marks, <<Released>>)
  BY <1>1 DEF Ordered
<1> QED BY <1>2, OneHistory DEF OrderInvariant, Counting, PublishInit

\* A version that is written down was counted from a tag, also after a step.
LEMMA CountingAlways ==
    ASSUME Inferring, PublishInvariant, PublishTyped', OrderInvariant,
           NEW c \in Clones, Publish(c) \/ Develop(c)
    PROVE  \A d \in Clones : Counting(d)'
<1> USE DEF PublishInvariant
<1>1. clones \in [Clones -> Clone] /\ clones[c] \in Clone
  BY HeadIs DEF PublishTyped
<1>2. ASSUME NEW d \in Clones, d # c PROVE Counting(d)'
  <2>1. clones'[d] = clones[d]
    BY <1>2, PublishSteps DEF TagsKept
  <2>2. HeadOf(d)' = HeadOf(d)
    BY <2>1, HeadIs, HeadNext
  <2> QED BY <2>1, <2>2 DEF Counting, OrderInvariant
<1>3. CASE clones'[c].step # "written"
  <2>1. Counting(c)'
    BY <1>3 DEF Counting
  <2> QED BY <1>2, <2>1
<1>4. CASE StartPublish(c)
  <2>0. PICK t \in Origins(c) : \E x \in Versions(c, t) : WriteEntry(c, x)
    BY <1>4 DEF StartPublish
  <2>1. PICK v \in Versions(c, t) : WriteEntry(c, v)
    BY <2>0
  <2>2. clones'[c] = [clones[c] EXCEPT !.written = v, !.step = "written", !.version = v]
    BY <1>1, <2>1 DEF WriteEntry
  <2>3. /\ clones'[c].version = v /\ clones'[c].on = clones[c].on
        /\ clones'[c].main = clones[c].main /\ clones'[c].work = clones[c].work
        /\ clones'[c].tags = clones[c].tags
    BY <1>1, <2>2 DEF Clone
  <2>4. HeadOf(c)' = HeadOf(c)
    BY <2>3, HeadIs, HeadNext
  <2>5. v = InferredVersion(c, t, "auto")
    BY <2>1 DEF Versions, Inferring
  <2>6. t \in DOMAIN clones[c].tags /\ v = NextVersion(t, InferBump(SinceTag(HeadOf(c), clones[c].tags[t])))
    BY <2>5, VersionsTyped DEF InferredVersion, CommitsSince
  <2>7. Counting(c)'
    BY <2>3, <2>4, <2>6 DEF Counting
  <2> QED BY <1>2, <2>7
<1>5. CASE CommitEntry(c)
  <2> DEFINE r == Committed(c, "docs", clones[c].version)
  <2>1. clones'[c] = [r EXCEPT !.written = NoVersion, !.step = "committed"] /\ r \in Clone
    BY <1>1, <1>5, CommittedIs DEF CommitEntry, Clone
  <2> HIDE DEF r
  <2>2. clones'[c].step = "committed"
    BY <2>1 DEF Clone
  <2> QED BY <1>3, <2>2
<1>6. CASE Tag(c) \/ PushMain(c)
  <2>1. clones'[c].step \in {"tagged", "pushed"}
    BY <1>1, <1>6 DEF Tag, PushMain, Reach, Clone
  <2> QED BY <1>3, <2>1
<1>7. CASE PushTag(c) \/ Break(c) \/ Develop(c)
  BY <1>3, <1>7, IdleAfter
<1> QED BY <1>4, <1>5, <1>6, <1>7 DEF Publish

\* Every step keeps the order.
LEMMA OrderAlways ==
    Inferring /\ PublishInvariant /\ OrderInvariant /\ [PublishNext]_publishing => OrderInvariant'
<1> SUFFICES ASSUME Inferring, PublishInvariant, OrderInvariant, [PublishNext]_publishing
             PROVE  OrderInvariant'
  OBVIOUS
<1>1. CASE UNCHANGED publishing
  BY <1>1 DEF publishing, OrderInvariant, Histories, LocalHistories, Marks, Counting, HeadOf
<1>2. ASSUME NEW c \in Clones, Publish(c) \/ Develop(c) PROVE OrderInvariant'
  <2>1. PublishTyped'
    BY PublishAlways DEF PublishInvariant
  <2>2. /\ Marks \subseteq Marks'
        /\ \/ NoCommit
           \/ CommitEntry(c) /\ CommitMade(c, "docs", clones[c].version)
           \/ Commit(c) /\ \E kind \in Kinds[c] : CommitMade(c, kind, NoVersion)
    BY <1>2, PublishSteps, MarksKept DEF PublishInvariant
  <2>3. /\ \A h \in Histories : Recorded(h, made) /\ Ordered(Marks, h) /\ Ordered(Marks', h)
        /\ HeadOf(c) \in Histories
    BY <2>2, OrderedLater, HeadIs DEF PublishInvariant, AllRecorded, OrderInvariant
  <2>4. \A h \in Histories' : Ordered(Marks', h)
    <3>1. CASE NoCommit
      BY <2>3, <3>1 DEF NoCommit
    <3>2. ASSUME NEW kind, NEW entry, CommitMade(c, kind, entry), Ordered(Marks, OneMore(c, kind, entry))
          PROVE  \A h \in Histories' : Ordered(Marks', h)
      <4>1. Ordered(Marks', OneMore(c, kind, entry))
        BY <2>2, <3>2, OrderedLater
      <4> QED BY <2>3, <3>2, <4>1 DEF CommitMade
    <3>3. CASE CommitEntry(c) /\ CommitMade(c, "docs", clones[c].version)
      <4> DEFINE x == NewCommit("docs", clones[c].version)
      <4>1. /\ clones[c].step = "written" /\ clones[c].version \in Entry
            /\ clones[c].version \notin Entries(HeadOf(c))
        BY <3>3, HeadIs DEF CommitEntry, Publishing, PublishInvariant, InPlace, Clone
      <4>2. PICK t \in DOMAIN clones[c].tags :
              clones[c].version = NextVersion(t, InferBump(SinceTag(HeadOf(c), clones[c].tags[t])))
        BY <4>1 DEF OrderInvariant, Counting
      <4>3. /\ clones[c].tags[t] \in Histories /\ LastEntry(clones[c].tags[t]) = t
            /\ <<t, clones[c].tags[t]>> \in Marks /\ Marks \in MarkSet /\ made \in Nat
        BY HistoriesHave, MarksTyped DEF PublishInvariant, TagsName, PublishTyped
      <4>4. /\ x \in GitCommit /\ x.id = made + 1 /\ x.kind = "docs" /\ x.entry = clones[c].version
        BY <4>1, CommittedIs DEF PublishInvariant, NewCommit
      <4> HIDE DEF x
      <4>5. CountedOn(Marks, made, HeadOf(c), t, clones[c].tags[t], x)
        BY <2>3, <4>1, <4>2, <4>3, <4>4 DEF CountedOn
      <4>6. Ordered(Marks, Append(HeadOf(c), x))
        BY <4>5, OrderedCounted
      <4> QED BY <3>2, <3>3, <4>6 DEF OneMore, x
    <3>4. CASE \E kind \in Kinds[c] : CommitMade(c, kind, NoVersion)
      <4>1. PICK kind \in Kinds[c] : CommitMade(c, kind, NoVersion)
        BY <3>4
      <4>2. kind \in {"docs", "breaking", "feat", "fix"} /\ NoVersion \in Entry
        BY PublishAssumption DEF Entry
      <4>3. NewCommit(kind, NoVersion) \in GitCommit /\ NewCommit(kind, NoVersion).entry = NoVersion
        BY <4>2, CommittedIs DEF PublishInvariant, NewCommit
      <4>4. Ordered(Marks, OneMore(c, kind, NoVersion))
        BY <2>3, <4>3, OrderedWithout DEF OneMore, Recorded
      <4> QED BY <3>2, <4>1, <4>4
    <3> QED BY <2>2, <3>1, <3>3, <3>4
  <2> QED BY <1>2, <2>1, <2>4, CountingAlways DEF OrderInvariant
<1> QED BY <1>1, <1>2 DEF PublishNext

\* The order of the histories is that of origin's tags.
LEMMA OrderTells ==
    ASSUME PublishInvariant, OrderInvariant
    PROVE  TagsGrow
<1> SUFFICES ASSUME NEW v \in DOMAIN origin.tags, NEW w \in DOMAIN origin.tags,
                    IsStrictPrefix(origin.tags[v].at, origin.tags[w].at)
             PROVE  Less(v, w) \/ Astray(v)
  BY DEF TagsGrow
<1> DEFINE g == origin.tags[v].at
           h == origin.tags[w].at
           i == Len(g)
           j == Len(h)
<1>1. /\ g \in Histories /\ h \in Histories /\ LastEntry(g) = v /\ LastEntry(h) = w
      /\ v \in Semver /\ w \in Semver
  <2>1. DOMAIN origin.tags \subseteq Semver
    BY TaggingIs DEF PublishInvariant, PublishTyped, OriginTags
  <2> QED BY <2>1, HistoriesHave DEF PublishInvariant, TagsName
<1>2. IsPrefix(g, h) /\ g # h
  BY DEF IsStrictPrefix
<1> HIDE DEF g, h
<1>3. g \in History /\ h \in History /\ Ordered(Marks, h)
  BY <1>1 DEF PublishInvariant, AllRecorded, Recorded, OrderInvariant
<1>4. /\ i \in Nat /\ j \in Nat /\ i > 0 /\ i <= j /\ DOMAIN h = 1..j /\ DOMAIN g = 1..i
      /\ \A k \in 1..i : g[k] = h[k]
  BY <1>2, <1>3, CommitsTyped, PrefixAt
<1>5. i < j
  <2>1. ASSUME i = j PROVE g = h
    <3>1. g \in Seq(GitCommit) /\ h \in Seq(GitCommit) /\ Len(g) = Len(h)
      BY <1>3, <2>1, CommitsTyped
    <3> QED BY <1>4, <3>1
  <2> HIDE DEF i, j
  <2> QED BY <1>2, <1>4, <2>1
<1>6. h[i].entry = v /\ h[j].entry = w /\ SubSeq(h, 1, i) = g
  <2>1. h[i].entry = v /\ h[j].entry = w
    BY <1>1, <1>4 DEF LastEntry
  <2>2. /\ SubSeq(h, 1, i) \in Seq(GitCommit) /\ Len(SubSeq(h, 1, i)) = i
        /\ \A k \in 1..i : SubSeq(h, 1, i)[k] = h[k]
    <3>1. h \in Seq(GitCommit) /\ i \in 1..Len(h)
      BY <1>3, <1>4, CommitsTyped
    <3> HIDE DEF i
    <3> QED BY <3>1
  <2>3. SubSeq(h, 1, i) = g
    BY <1>3, <1>4, <2>2, CommitsTyped
  <2> QED BY <2>1, <2>3
<1> HIDE DEF i, j
<1>7. Less(v, w) \/ AstrayAt(Marks, h, i)
  BY <1>1, <1>3, <1>4, <1>5, <1>6, SemverEntered DEF Ordered, Entered, Growing
<1>8. ASSUME AstrayAt(Marks, h, i) PROVE Astray(v)
  <2>1. PICK m \in Marks : Less(m[1], v) /\ Apart(m[2], g)
    BY <1>6, <1>8 DEF AstrayAt
  <2>2. PICK c \in Clones : \E t \in DOMAIN clones[c].tags : m = <<t, clones[c].tags[t]>>
    BY DEF Marks
  <2>3. PICK t \in DOMAIN clones[c].tags : m = <<t, clones[c].tags[t]>>
    BY <2>2
  <2>4. Less(t, v) /\ ~IsPrefix(clones[c].tags[t], g) /\ ~IsPrefix(g, clones[c].tags[t])
    BY <2>1, <2>3 DEF Apart
  <2> QED BY <2>4 DEF Astray, g
<1> QED BY <1>7, <1>8

\* With versions that are inferred, what origin has tagged is in order.
THEOREM OriginInOrder == Inferring => (PublishSpec => []OriginTells)
<1>1. Inferring => Inferring'
  BY DEF Inferring
<1>2. PublishInit => OrderInvariant
  BY OrderedInitially
<1>3. Inferring /\ PublishInvariant /\ OrderInvariant /\ [PublishNext]_publishing => OrderInvariant'
  BY OrderAlways
<1>4. PublishInvariant /\ OrderInvariant => TagsGrow
  BY OrderTells
<1>5. TagsGrow /\ TagsOnMain /\ OneEntryPerVersion => OriginTells
  BY DEF OriginTells
<1> QED BY <1>1, <1>2, <1>3, <1>4, <1>5, PublishHolds, PublishedOnce, PTL DEF PublishSpec
=============================================================================
