--------------------------- MODULE SessionProofs ---------------------------
(***************************************************************************)
(* Proofs about Session, for any suites, timeouts and number of            *)
(* interrupts.  The invariant says at which stage the suites may have      *)
(* begun, what a chosen exit code implies, and what an ended process       *)
(* implies.                                                                *)
(***************************************************************************)
EXTENDS Session, SequenceTheorems, TLAPS

Untouched == \A s \in Suites : suite[s] = "open" /\ job[s] = "none"

AtSuites == todo # <<>> /\ Head(todo) = "suites"

\* Before the suites' stage nothing is begun.
OrderOfStages == AtSuites \/ Untouched

\* In q every b comes after an a.
Before(a, b, q) == \A i \in 1..Len(q) : q[i] = b => \E j \in 1..(i - 1) : q[j] = a

\* A list of stages in which the dry run comes before the suites.
Ordered(stages) == stages \in Seq(Stages) /\ Before("dry run", "suites", stages)

\* A dry run meets its stage before it meets the suites.
DryRunFirst == run.dryRun => Ordered(todo)

\* A running job has a worker at it, unless the run does not wait for jobs.
JobsWatched ==
  \A s \in Suites :
    job[s] = "running" =>
      \/ suite[s] \in {"polling", "interrupted", "failing"}
      \/ suite[s] = "started" /\ run.async

\* Only an interrupt makes a worker stop or skip a suite.
SkipsAreAsked == \A s \in Suites : suite[s] \in {"interrupted", "skipped"} => Cancelled

\* What the exit code of the main goroutine says.
CodeIsRight ==
  code # Unset =>
    /\ code \in {0, 1}
    /\ AtSuites => /\ \A s \in Suites : suite[s] \in Settled
                   /\ code = 0 => \A s \in Suites : suite[s] # "failed"
    /\ ~AtSuites /\ code = 0 => run.dryRun
    /\ AtSuites /\ ~rendered => Cancelled

RenderedIsRight ==
  rendered => code # Unset /\ \A s \in Suites : suite[s] \in Settled \ {"skipped"}

UploadedIsRight == uploaded => ~run.dryRun

\* The main goroutine and the others end the process in different ways.
EndIsRight ==
  /\ Alive => ~hard /\ signals \in 0..1
  /\ ~Alive => exit \in {0, 1} /\ (hard => exit = 1) /\ (~hard => code # Unset /\ exit = code)
  /\ hard => \/ signals = 2
             \/ timer["grace"] = 0
             \/ run.windows /\ timer["grace"] # Unset

IInv ==
  /\ TypeOK
  /\ OrderOfStages
  /\ DryRunFirst
  /\ JobsWatched
  /\ SkipsAreAsked
  /\ CodeIsRight
  /\ RenderedIsRight
  /\ UploadedIsRight
  /\ EndIsRight

-----------------------------------------------------------------------------
(* The initial states                                                      *)

LEMMA StagesAreOrdered ==
  Ordered(WebStages) /\ Ordered(ReplayStages) /\ Ordered(MobileStages) /\ Ordered(EspressoStages)
<1>1. Ordered(WebStages)
  <2>1. WebStages \in Seq(Stages) /\ Len(WebStages) = 9
    BY DEF WebStages, Stages
  <2>2. WebStages[1] # "suites" /\ WebStages[2] # "suites" /\ WebStages[3] # "suites" /\ WebStages[4] # "suites"
    BY DEF WebStages
  <2>3. WebStages[5] # "suites" /\ WebStages[6] # "suites" /\ WebStages[7] # "suites" /\ WebStages[8] # "suites"
    BY DEF WebStages
  <2>4. WebStages[8] = "dry run"
    BY DEF WebStages
  <2>5. ASSUME NEW i \in 1..9, WebStages[i] = "suites"
        PROVE  \E j \in 1..(i - 1) : WebStages[j] = "dry run"
    <3>1. i = 9
      BY <2>5, <2>2, <2>3
    <3>2. 8 \in 1..(i - 1)
      BY <3>1
    <3> QED
      BY <3>2, <2>4
  <2> QED
    BY <2>1, <2>5 DEF Ordered, Before
<1>2. Ordered(ReplayStages)
  <2>1. ReplayStages \in Seq(Stages) /\ Len(ReplayStages) = 8
    BY DEF ReplayStages, Stages
  <2>2. ReplayStages[1] # "suites" /\ ReplayStages[2] # "suites" /\ ReplayStages[3] # "suites" /\ ReplayStages[4] # "suites"
    BY DEF ReplayStages
  <2>3. ReplayStages[5] # "suites" /\ ReplayStages[6] # "suites" /\ ReplayStages[7] # "suites"
    BY DEF ReplayStages
  <2>4. ReplayStages[7] = "dry run"
    BY DEF ReplayStages
  <2>5. ASSUME NEW i \in 1..8, ReplayStages[i] = "suites"
        PROVE  \E j \in 1..(i - 1) : ReplayStages[j] = "dry run"
    <3>1. i = 8
      BY <2>5, <2>2, <2>3
    <3>2. 7 \in 1..(i - 1)
      BY <3>1
    <3> QED
      BY <3>2, <2>4
  <2> QED
    BY <2>1, <2>5 DEF Ordered, Before
<1>3. Ordered(MobileStages)
  <2>1. MobileStages \in Seq(Stages) /\ Len(MobileStages) = 6
    BY DEF MobileStages, Stages
  <2>2. MobileStages[1] # "suites" /\ MobileStages[2] # "suites" /\ MobileStages[3] # "suites" /\ MobileStages[4] # "suites"
    BY DEF MobileStages
  <2>3. MobileStages[5] # "suites"
    BY DEF MobileStages
  <2>4. MobileStages[5] = "dry run"
    BY DEF MobileStages
  <2>5. ASSUME NEW i \in 1..6, MobileStages[i] = "suites"
        PROVE  \E j \in 1..(i - 1) : MobileStages[j] = "dry run"
    <3>1. i = 6
      BY <2>5, <2>2, <2>3
    <3>2. 5 \in 1..(i - 1)
      BY <3>1
    <3> QED
      BY <3>2, <2>4
  <2> QED
    BY <2>1, <2>5 DEF Ordered, Before
<1>4. Ordered(EspressoStages)
  <2>1. EspressoStages \in Seq(Stages) /\ Len(EspressoStages) = 5
    BY DEF EspressoStages, Stages
  <2>2. EspressoStages[1] # "suites" /\ EspressoStages[2] # "suites" /\ EspressoStages[3] # "suites" /\ EspressoStages[4] # "suites"
    BY DEF EspressoStages
  <2>3. EspressoStages[4] = "dry run"
    BY DEF EspressoStages
  <2>4. ASSUME NEW i \in 1..5, EspressoStages[i] = "suites"
        PROVE  \E j \in 1..(i - 1) : EspressoStages[j] = "dry run"
    <3>1. i = 5
      BY <2>4, <2>2
    <3>2. 4 \in 1..(i - 1)
      BY <3>1
    <3> QED
      BY <3>2, <2>3
  <2> QED
    BY <2>1, <2>4 DEF Ordered, Before
<1> QED
  BY <1>1, <1>2, <1>3, <1>4

LEMMA InitialInvariant == Init => IInv
<1> SUFFICES ASSUME Init PROVE IInv
  OBVIOUS
<1>1. TypeOK
  <2>1. todo \in Seq(Stages)
    BY StagesAreOrdered DEF Init, Ordered
  <2>2. run \in Runs /\ run.timeout \in Nat
    BY SessionAssumption DEF Init, Runs
  <2>3. ASSUME NEW t \in Timers
        PROVE  (IF t = "global" /\ run.timeout # 0 THEN run.timeout ELSE Unset)
                 \in Nat \cup {Unset}
    BY <2>2
  <2>4. timer \in [Timers -> Nat \cup {Unset}]
    BY <2>3 DEF Init
  <2>5. presses \in 0..MaxPresses
    BY SessionAssumption DEF Init
  <2>6. suite \in [Suites -> {"open", "starting", "polling", "interrupted", "failing"}
                           \cup Settled]
    BY DEF Init
  <2>7. job \in [Suites -> {"none", "running", "over", "stopped", "lost"}]
    BY DEF Init
  <2>8. code \in {Unset, 0, 1} /\ exit \in {Unset, 0, 1}
    BY DEF Init
  <2>9. hard \in BOOLEAN /\ pending \in BOOLEAN /\ uploaded \in BOOLEAN /\ rendered \in BOOLEAN
    BY DEF Init
  <2>10. signals \in 0..2
    BY DEF Init
  <2> QED
    BY <2>1, <2>2, <2>4, <2>5, <2>6, <2>7, <2>8, <2>9, <2>10 DEF TypeOK
<1>2. DryRunFirst
  <2>1. Ordered(todo)
    BY StagesAreOrdered DEF Init
  <2> QED
    BY <2>1 DEF DryRunFirst
<1>3. OrderOfStages /\ JobsWatched /\ SkipsAreAsked
  BY DEF Init, OrderOfStages, Untouched, JobsWatched, SkipsAreAsked
<1>4. CodeIsRight /\ RenderedIsRight /\ UploadedIsRight /\ EndIsRight
  BY DEF Init, CodeIsRight, RenderedIsRight, UploadedIsRight, EndIsRight, Alive, Unset
<1> QED
  BY <1>1, <1>2, <1>3, <1>4 DEF IInv

-----------------------------------------------------------------------------
(* The stages before the suites                                            *)

\* What the main goroutine does at a stage before the suites.
Staged ==
  /\ Alive /\ code = Unset
  /\ todo # <<>> /\ Head(todo) # "suites"
  /\ \/ Proceed /\ (run.dryRun => Head(todo) # "dry run")
     \/ Fail
     \/ code' = 0 /\ run.dryRun /\ UNCHANGED todo
     \/ UNCHANGED <<todo, code>>
  /\ uploaded' \in BOOLEAN /\ (uploaded' => uploaded \/ ~run.dryRun)
  /\ timer' \in [Timers -> Nat \cup {Unset}] /\ timer'["grace"] = timer["grace"]
  /\ UNCHANGED <<run, process, pool, interrupts, rendered>>

LEMMA StagedSteps ==
  ASSUME IInv, LocalStage \/ RequestStage \/ Upload \/ AwaitTunnel \/ TunnelAnswers \/ DryRun
  PROVE  Staged
<1> USE DEF IInv, TypeOK
<1>1. CASE LocalStage
  BY <1>1 DEF LocalStage, At, Staged
<1>2. CASE RequestStage
  BY <1>2 DEF RequestStage, At, Staged
<1>3. CASE Upload
  <2>1. uploaded' \in BOOLEAN /\ (uploaded' => uploaded \/ ~run.dryRun)
    <3>1. CASE uploaded' = uploaded
      BY <3>1
    <3>2. CASE uploaded' = TRUE /\ ~run.dryRun
      BY <3>2
    <3>3. uploaded' = uploaded \/ (uploaded' = TRUE /\ ~run.dryRun)
      BY <1>3 DEF Upload
    <3> QED
      BY <3>1, <3>2, <3>3
  <2>2. timer' \in [Timers -> Nat \cup {Unset}] /\ timer'["grace"] = timer["grace"]
    BY <1>3 DEF Upload
  <2>3. Proceed \/ Fail
    BY <1>3 DEF Upload
  <2> QED
    BY <1>3, <2>1, <2>2, <2>3 DEF Upload, At, Staged
<1>4. CASE AwaitTunnel
  <2>1. timer' \in [Timers -> Nat \cup {Unset}] /\ timer'["grace"] = timer["grace"]
    BY <1>4, SessionAssumption DEF AwaitTunnel, Timers
  <2> QED
    BY <1>4, <2>1 DEF AwaitTunnel, At, Staged, Proceed, Fail
<1>5. CASE TunnelAnswers
  <2>1. timer' \in [Timers -> Nat \cup {Unset}] /\ timer'["grace"] = timer["grace"]
    BY <1>5 DEF TunnelAnswers, Timers
  <2> QED
    BY <1>5, <2>1 DEF TunnelAnswers, At, Staged, Proceed, Fail
<1>6. CASE DryRun
  BY <1>6 DEF DryRun, At, Staged
<1> QED
  BY <1>1, <1>2, <1>3, <1>4, <1>5, <1>6

LEMMA TailKeepsOrder ==
  ASSUME NEW S, NEW q \in Seq(S), q # <<>>, NEW a, NEW b, Head(q) # a, Before(a, b, q)
  PROVE  Before(a, b, Tail(q))
<1> DEFINE t == Tail(q)
<1>1. Len(q) \in Nat /\ Head(q) = q[1]
  OBVIOUS
<1>2. Len(t) = Len(q) - 1 /\ \A k \in 1..Len(t) : t[k] = q[k + 1]
  BY HeadTailProperties
<1> HIDE DEF t
<1> SUFFICES ASSUME NEW i \in 1..Len(t), t[i] = b
             PROVE  \E j \in 1..(i - 1) : t[j] = a
  BY DEF t, Before
<1>3. q[i + 1] = b /\ i + 1 \in 1..Len(q)
  BY <1>1, <1>2
<1>4. PICK j \in 1..((i + 1) - 1) : q[j] = a
  BY <1>3 DEF Before
<1>5. j # 1
  BY <1>1, <1>4
<1>6. j - 1 \in 1..(i - 1) /\ j - 1 \in 1..Len(t)
  BY <1>1, <1>2, <1>4, <1>5
<1>7. t[j - 1] = q[(j - 1) + 1] /\ (j - 1) + 1 = j
  BY <1>2, <1>6
<1> QED
  BY <1>4, <1>6, <1>7

LEMMA TailOrdered ==
  ASSUME NEW q, Ordered(q), q # <<>>, Head(q) # "dry run"
  PROVE  Ordered(Tail(q))
<1>1. q \in Seq(Stages)
  BY DEF Ordered
<1>2. Tail(q) \in Seq(Stages)
  BY <1>1, HeadTailProperties
<1>3. Before("dry run", "suites", Tail(q))
  BY <1>1, TailKeepsOrder DEF Ordered
<1> QED
  BY <1>2, <1>3 DEF Ordered

LEMMA StagedKeeps == ASSUME IInv, Staged PROVE IInv'
<1>1. code = Unset /\ todo # <<>> /\ ~AtSuites /\ ~rendered /\ Alive /\ ~hard /\ signals \in 0..1
  BY DEF IInv, Staged, AtSuites, RenderedIsRight, EndIsRight
<1>2. Untouched
  BY <1>1 DEF IInv, OrderOfStages
<1>3. /\ run' = run /\ suite' = suite /\ job' = job /\ exit' = exit /\ hard' = hard
      /\ signals' = signals /\ pending' = pending /\ presses' = presses /\ rendered' = rendered
  BY DEF Staged, process, pool, interrupts
<1>4. \/ todo' = Tail(todo) /\ code' = Unset /\ (run.dryRun => Head(todo) # "dry run")
      \/ todo' = todo /\ code' = 1
      \/ todo' = todo /\ code' = 0 /\ run.dryRun
      \/ todo' = todo /\ code' = Unset
  BY <1>1 DEF Staged, Proceed, Fail
<1>5. /\ uploaded' \in BOOLEAN /\ (uploaded' => uploaded \/ ~run.dryRun)
      /\ timer' \in [Timers -> Nat \cup {Unset}]
  BY DEF Staged
<1>13. TypeOK'
  <2>1. todo' \in Seq(Stages)
    <3>1. todo \in Seq(Stages) /\ todo # <<>>
      BY <1>1 DEF IInv, TypeOK
    <3>2. Tail(todo) \in Seq(Stages)
      BY <3>1, HeadTailProperties
    <3> QED
      BY <1>4, <3>1, <3>2
  <2>2. code' \in {Unset, 0, 1}
    BY <1>4
  <2> QED
    BY <1>3, <1>5, <2>1, <2>2 DEF IInv, TypeOK
<1>6. OrderOfStages'
  BY <1>2, <1>3 DEF OrderOfStages, Untouched
<1>7. DryRunFirst'
  <2>1. CASE todo' = todo
    BY <1>3, <2>1 DEF IInv, DryRunFirst
  <2>2. CASE todo' = Tail(todo) /\ (run.dryRun => Head(todo) # "dry run")
    BY <1>1, <1>3, <2>2, TailOrdered DEF IInv, DryRunFirst
  <2> QED
    BY <1>4, <2>1, <2>2
<1>8. JobsWatched' /\ SkipsAreAsked'
  BY <1>3 DEF IInv, JobsWatched, SkipsAreAsked, Cancelled
<1>9. CodeIsRight'
  <2>1. code' # Unset => /\ code' \in {0, 1}
                         /\ ~AtSuites'
                         /\ code' = 0 => run'.dryRun
    <3>1. ASSUME todo' = todo PROVE ~AtSuites'
      BY <1>1, <3>1 DEF AtSuites
    <3>2. CASE todo' = todo /\ code' = 1
      BY <3>1, <3>2
    <3>3. CASE todo' = todo /\ code' = 0 /\ run.dryRun
      BY <1>3, <3>1, <3>3
    <3>4. CASE code' = Unset
      BY <3>4
    <3> QED
      BY <1>4, <3>2, <3>3, <3>4
  <2> QED
    BY <2>1 DEF CodeIsRight
<1>10. RenderedIsRight'
  <2>1. ~rendered'
    BY <1>1, <1>3
  <2> QED
    BY <2>1 DEF RenderedIsRight
<1>11. UploadedIsRight'
  BY <1>3, <1>5 DEF IInv, UploadedIsRight
<1>12. EndIsRight'
  <2>1. exit' = Unset /\ ~hard' /\ signals' \in 0..1
    BY <1>1, <1>3 DEF Alive
  <2> QED
    BY <2>1 DEF EndIsRight, Alive
<1> QED
  BY <1>13, <1>6, <1>7, <1>8, <1>9, <1>10, <1>11, <1>12 DEF IInv

-----------------------------------------------------------------------------
(* The suites                                                              *)

\* What a worker does with its suite.
Worked(s) ==
  /\ Alive /\ code = Unset /\ AtSuites
  /\ suite' \in [Suites -> {"open", "starting", "polling", "interrupted", "failing"}
                           \cup Settled]
  /\ job' \in [Suites -> {"none", "running", "over", "stopped", "lost"}]
  /\ \A r \in Suites \ {s} : suite'[r] = suite[r] /\ job'[r] = job[r]
  /\ job'[s] = "running" =>
       \/ suite'[s] \in {"polling", "interrupted", "failing"}
       \/ suite'[s] = "started" /\ run.async
  /\ suite'[s] \in {"interrupted", "skipped"} => Cancelled
  /\ UNCHANGED <<run, todo, code, process, interrupts, timer, uploaded, rendered>>

LEMMA MoveFacts ==
  ASSUME NEW s \in Suites, NEW from, NEW to, TypeOK, Move(s, from, to),
         to \in {"open", "starting", "polling", "interrupted", "failing"} \cup Settled
  PROVE  /\ Alive /\ code = Unset /\ AtSuites
         /\ suite' \in [Suites -> {"open", "starting", "polling", "interrupted", "failing"}
                                  \cup Settled]
         /\ suite[s] = from /\ suite'[s] = to
         /\ \A r \in Suites \ {s} : suite'[r] = suite[r]
         /\ UNCHANGED <<run, todo, code, process, interrupts, timer, uploaded, rendered>>
<1>1. suite \in [Suites -> {"open", "starting", "polling", "interrupted", "failing"}
                          \cup Settled]
  BY DEF TypeOK
<1>2. suite' = [suite EXCEPT ![s] = to] /\ suite[s] = from
  BY DEF Move
<1>3. Alive /\ code = Unset /\ AtSuites
  BY DEF Move, At, AtSuites
<1>4. UNCHANGED <<run, todo, code, process, interrupts, timer, uploaded, rendered>>
  BY DEF Move
<1>5. /\ suite' \in [Suites -> {"open", "starting", "polling", "interrupted", "failing"}
                                \cup Settled]
      /\ suite'[s] = to
      /\ \A r \in Suites \ {s} : suite'[r] = suite[r]
  BY <1>1, <1>2
<1> QED
  BY <1>2, <1>3, <1>4, <1>5

\* A job is left as it is, or gets a state of its own.
LEMMA JobFacts ==
  ASSUME NEW s \in Suites, TypeOK,
         NEW state \in {"none", "running", "over", "stopped", "lost"},
         SetJob(s, state) \/ (job' = job /\ job[s] = state)
  PROVE  /\ job' \in [Suites -> {"none", "running", "over", "stopped", "lost"}]
         /\ job'[s] = state
         /\ \A r \in Suites \ {s} : job'[r] = job[r]
<1>1. job \in [Suites -> {"none", "running", "over", "stopped", "lost"}]
  BY DEF TypeOK
<1> QED
  BY <1>1 DEF SetJob

\* A running job has a worker at it.
Watched(to) ==
  to \in {"polling", "interrupted", "failing"} \/ (to = "started" /\ run.async)

LEMMA WorkedFrom ==
  ASSUME IInv, NEW s \in Suites, NEW from,
         NEW to \in {"open", "starting", "polling", "interrupted", "failing"} \cup Settled,
         NEW state \in {"none", "running", "over", "stopped", "lost"},
         Move(s, from, to), SetJob(s, state) \/ (job' = job /\ job[s] = state),
         state = "running" => Watched(to),
         to \in {"interrupted", "skipped"} => Cancelled
  PROVE  Worked(s)
<1>1. TypeOK
  BY DEF IInv
<1>2. /\ Alive /\ code = Unset /\ AtSuites
      /\ suite' \in [Suites -> {"open", "starting", "polling", "interrupted", "failing"}
                               \cup Settled]
      /\ suite'[s] = to
      /\ \A r \in Suites \ {s} : suite'[r] = suite[r]
      /\ UNCHANGED <<run, todo, code, process, interrupts, timer, uploaded, rendered>>
  BY <1>1, MoveFacts
<1>3. /\ job' \in [Suites -> {"none", "running", "over", "stopped", "lost"}]
      /\ job'[s] = state
      /\ \A r \in Suites \ {s} : job'[r] = job[r]
  BY <1>1, JobFacts
<1> QED
  BY <1>2, <1>3 DEF Worked, Watched

LEMMA SuiteSteps ==
  ASSUME IInv, NEW s \in Suites, Worker(s) \/ PollReturns(s) \/ StopReturns(s)
  PROVE  Worked(s)
<1>1. job[s] \in {"none", "running", "over", "stopped", "lost"}
  BY DEF IInv, TypeOK
<1>2. job[s] = "running" => Watched(suite[s])
  BY DEF IInv, JobsWatched, Watched
<1>3. suite[s] \in {"interrupted", "skipped"} => Cancelled
  BY DEF IInv, SkipsAreAsked
<1>4. CASE SkipSuite(s)
  <2>1. Move(s, "open", "skipped") /\ job' = job /\ Cancelled /\ suite[s] = "open"
    BY <1>4 DEF SkipSuite, Move
  <2>2. job[s] # "running"
    BY <1>2, <2>1 DEF Watched
  <2> QED
    BY <1>1, <2>1, <2>2, WorkedFrom DEF Settled
<1>5. CASE BeginSuite(s)
  <2>1. Move(s, "open", "starting") /\ job' = job /\ suite[s] = "open"
    BY <1>5 DEF BeginSuite, Move
  <2>2. job[s] # "running"
    BY <1>2, <2>1 DEF Watched
  <2> QED
    BY <1>1, <2>1, <2>2, WorkedFrom
<1>6. CASE StartReturns(s)
  <2>1. CASE run.async /\ Move(s, "starting", "started") /\ SetJob(s, "running")
    <3>1. Watched("started")
      BY <2>1 DEF Watched
    <3> QED
      BY <2>1, <3>1, WorkedFrom DEF Settled
  <2>2. CASE Move(s, "starting", "polling") /\ SetJob(s, "running")
    <3>1. Watched("polling")
      BY DEF Watched
    <3> QED
      BY <2>2, <3>1, WorkedFrom
  <2>3. CASE Move(s, "starting", "failed") /\ SetJob(s, "lost")
    BY <2>3, WorkedFrom DEF Settled
  <2>4. CASE Move(s, "starting", "failed") /\ job' = job
    <3>1. suite[s] = "starting"
      BY <2>4 DEF Move
    <3>2. job[s] # "running"
      BY <1>2, <3>1 DEF Watched
    <3> QED
      BY <1>1, <2>4, <3>2, WorkedFrom DEF Settled
  <2> QED
    BY <1>6, <2>1, <2>2, <2>3, <2>4 DEF StartReturns
<1>7. CASE PollInterrupted(s)
  <2>1. Watched("interrupted") /\ Watched("failing")
    BY DEF Watched
  <2>2. job' = job /\ Cancelled
    BY <1>7 DEF PollInterrupted
  <2>3. CASE Move(s, "polling", "interrupted")
    BY <1>1, <2>1, <2>2, <2>3, WorkedFrom
  <2>4. CASE Move(s, "polling", "failing")
    BY <1>1, <2>1, <2>2, <2>4, WorkedFrom
  <2> QED
    BY <1>7, <2>3, <2>4 DEF PollInterrupted
<1>8. CASE PollDone(s)
  <2>1. job' = job /\ job[s] = "over"
    BY <1>8 DEF PollDone
  <2>2. CASE Move(s, "polling", "passed")
    BY <2>1, <2>2, WorkedFrom DEF Settled
  <2>3. CASE Move(s, "polling", "failed")
    BY <2>1, <2>3, WorkedFrom DEF Settled
  <2> QED
    BY <1>8, <2>2, <2>3 DEF PollDone
<1>9. CASE PollFails(s)
  <2>1. Move(s, "polling", "failed")
    BY <1>9 DEF PollFails
  <2>2. CASE SetJob(s, "lost")
    BY <2>1, <2>2, WorkedFrom DEF Settled
  <2>3. CASE job' = job /\ job[s] # "running"
    BY <1>1, <2>1, <2>3, WorkedFrom DEF Settled
  <2> QED
    BY <1>9, <2>2, <2>3 DEF PollFails
<1>10. CASE PollTimesOut(s)
  <2>1. Watched("failing")
    BY DEF Watched
  <2>2. Move(s, "polling", "failing") /\ job' = job
    BY <1>10 DEF PollTimesOut
  <2> QED
    BY <1>1, <2>1, <2>2, WorkedFrom
<1>11. CASE StopReturns(s)
  <2>1. \/ Move(s, "interrupted", "skipped") /\ Cancelled
        \/ Move(s, "failing", "failed")
    BY <1>3, <1>11 DEF StopReturns, Move
  <2>2. CASE SetJob(s, "stopped")
    BY <2>1, <2>2, WorkedFrom DEF Settled
  <2>3. CASE job' = job /\ job[s] # "running"
    BY <1>1, <2>1, <2>3, WorkedFrom DEF Settled
  <2> QED
    BY <1>11, <2>2, <2>3 DEF StopReturns
<1> QED
  BY <1>4, <1>5, <1>6, <1>7, <1>8, <1>9, <1>10, <1>11 DEF Worker, PollReturns

LEMMA WorkedKeeps == ASSUME IInv, NEW s \in Suites, Worked(s) PROVE IInv'
<1>1. /\ run' = run /\ todo' = todo /\ code' = code /\ exit' = exit /\ hard' = hard
      /\ signals' = signals /\ pending' = pending /\ presses' = presses /\ timer' = timer
      /\ uploaded' = uploaded /\ rendered' = rendered
  BY DEF Worked, process, interrupts
<1>2. code = Unset /\ AtSuites /\ ~rendered
  BY DEF IInv, Worked, RenderedIsRight
<1>3. TypeOK'
  BY <1>1 DEF IInv, TypeOK, Worked
<1>4. OrderOfStages' /\ DryRunFirst'
  BY <1>1, <1>2 DEF IInv, OrderOfStages, AtSuites, DryRunFirst
<1>5. JobsWatched'
  <2> SUFFICES ASSUME NEW r \in Suites, job'[r] = "running"
               PROVE  \/ suite'[r] \in {"polling", "interrupted", "failing"}
                      \/ suite'[r] = "started" /\ run.async
    BY <1>1 DEF JobsWatched
  <2>1. CASE r = s
    BY <2>1 DEF Worked
  <2>2. CASE r # s
    BY <2>2 DEF IInv, JobsWatched, Worked
  <2> QED
    BY <2>1, <2>2
<1>6. SkipsAreAsked'
  <2> SUFFICES ASSUME NEW r \in Suites, suite'[r] \in {"interrupted", "skipped"}
               PROVE  Cancelled
    BY <1>1 DEF SkipsAreAsked, Cancelled
  <2>1. CASE r = s
    BY <2>1 DEF Worked
  <2>2. CASE r # s
    BY <2>2 DEF IInv, SkipsAreAsked, Worked
  <2> QED
    BY <2>1, <2>2
<1>7. CodeIsRight'
  BY <1>1, <1>2 DEF CodeIsRight
<1>8. RenderedIsRight'
  <2>1. ~rendered'
    BY <1>1, <1>2
  <2> QED
    BY <2>1 DEF RenderedIsRight
<1>9. UploadedIsRight' /\ EndIsRight'
  BY <1>1 DEF IInv, UploadedIsRight, EndIsRight, Alive
<1> QED
  BY <1>3, <1>4, <1>5, <1>6, <1>7, <1>8, <1>9 DEF IInv

\* A job ends by itself.
LEMMA JobEndsKeeps == ASSUME IInv, NEW s \in Suites, JobEnds(s) PROVE IInv'
<1>1. /\ run' = run /\ todo' = todo /\ code' = code /\ exit' = exit /\ hard' = hard
      /\ suite' = suite
      /\ signals' = signals /\ pending' = pending /\ presses' = presses /\ timer' = timer
      /\ uploaded' = uploaded /\ rendered' = rendered
  BY DEF JobEnds, process, interrupts
<1>2. /\ job' \in [Suites -> {"none", "running", "over", "stopped", "lost"}]
      /\ job'[s] = "over"
      /\ \A r \in Suites \ {s} : job'[r] = job[r]
  BY JobFacts DEF IInv, JobEnds
<1>3. AtSuites
  BY DEF IInv, OrderOfStages, Untouched, JobEnds
<1>4. TypeOK'
  BY <1>1, <1>2 DEF IInv, TypeOK
<1>5. OrderOfStages' /\ DryRunFirst'
  BY <1>1, <1>3 DEF IInv, OrderOfStages, AtSuites, DryRunFirst
<1>6. JobsWatched'
  BY <1>1, <1>2 DEF IInv, JobsWatched
<1>7. SkipsAreAsked' /\ CodeIsRight' /\ RenderedIsRight'
  BY <1>1 DEF IInv, SkipsAreAsked, Cancelled, CodeIsRight, AtSuites, RenderedIsRight
<1>8. UploadedIsRight' /\ EndIsRight'
  BY <1>1 DEF IInv, UploadedIsRight, EndIsRight, Alive
<1> QED
  BY <1>4, <1>5, <1>6, <1>7, <1>8 DEF IInv

LEMMA ReturnKeeps == ASSUME IInv, Return PROVE IInv'
<1>1. /\ run' = run /\ todo' = todo /\ suite' = suite /\ job' = job
      /\ exit' = exit /\ hard' = hard
      /\ signals' = signals /\ pending' = pending /\ presses' = presses /\ timer' = timer
      /\ uploaded' = uploaded
  BY DEF Return, process, pool, interrupts
<1>2. AtSuites /\ \A s \in Suites : suite[s] \in Settled
  BY DEF Return, At, AtSuites
<1>3. code' \in {0, 1} /\ (code' = 0 => \A s \in Suites : suite[s] # "failed")
  BY DEF Return, ExitCode
<1>4. rendered' \in BOOLEAN /\ (rendered' <=> ~Cancelled)
  BY DEF Return, Cancelled
<1>5. TypeOK'
  BY <1>1, <1>3, <1>4 DEF IInv, TypeOK
<1>6. OrderOfStages' /\ DryRunFirst' /\ JobsWatched' /\ SkipsAreAsked'
  BY <1>1 DEF IInv, OrderOfStages, Untouched, AtSuites, DryRunFirst, JobsWatched,
              SkipsAreAsked, Cancelled
<1>7. CodeIsRight'
  <2>1. AtSuites' /\ (Cancelled' <=> Cancelled) /\ \A s \in Suites : suite'[s] \in Settled
    BY <1>1, <1>2 DEF AtSuites, Cancelled
  <2>2. code' = 0 => \A s \in Suites : suite'[s] # "failed"
    BY <1>1, <1>3
  <2> QED
    BY <1>3, <1>4, <2>1, <2>2 DEF CodeIsRight
<1>8. RenderedIsRight'
  <2>1. code' # Unset
    BY <1>3 DEF Unset
  <2>2. ASSUME rendered', NEW s \in Suites PROVE suite'[s] \in Settled \ {"skipped"}
    BY <1>1, <1>2, <1>4, <2>2 DEF IInv, SkipsAreAsked
  <2> QED
    BY <2>1, <2>2 DEF RenderedIsRight
<1>9. UploadedIsRight' /\ EndIsRight'
  <2>1. Alive /\ ~hard
    BY DEF IInv, Return, At, EndIsRight
  <2> QED
    BY <1>1, <2>1 DEF IInv, UploadedIsRight, EndIsRight, Alive
<1> QED
  BY <1>5, <1>6, <1>7, <1>8, <1>9 DEF IInv

LEMMA ExitKeeps == ASSUME IInv, Exit PROVE IInv'
<1>1. /\ run' = run /\ todo' = todo /\ code' = code /\ suite' = suite /\ job' = job
      /\ exit' = code /\ hard' = hard
      /\ signals' = signals /\ pending' = pending /\ presses' = presses /\ timer' = timer
      /\ uploaded' = uploaded /\ rendered' = rendered
  BY DEF Exit, pool, interrupts
<1>2. code \in {0, 1} /\ ~hard
  BY DEF IInv, Exit, CodeIsRight, EndIsRight
<1>3. TypeOK'
  BY <1>1, <1>2 DEF IInv, TypeOK
<1>4. OrderOfStages' /\ DryRunFirst' /\ JobsWatched' /\ SkipsAreAsked'
  BY <1>1 DEF IInv, OrderOfStages, Untouched, AtSuites, DryRunFirst, JobsWatched,
              SkipsAreAsked, Cancelled
<1>5. CodeIsRight' /\ RenderedIsRight' /\ UploadedIsRight'
  BY <1>1 DEF IInv, CodeIsRight, AtSuites, Cancelled, RenderedIsRight, UploadedIsRight
<1>6. EndIsRight'
  <2>1. exit' \in {0, 1} /\ exit' # Unset /\ exit' = code' /\ code' # Unset /\ ~hard'
    BY <1>1, <1>2 DEF Unset
  <2> QED
    BY <2>1 DEF EndIsRight, Alive
<1> QED
  BY <1>3, <1>4, <1>5, <1>6 DEF IInv

-----------------------------------------------------------------------------
(* Interrupts, timers, and a step of nobody                                *)

LEMMA QuietKeeps ==
  ASSUME IInv, UNCHANGED <<run, todo, code, pool, uploaded, rendered>>, Cancelled => Cancelled',
         TypeOK', EndIsRight'
  PROVE  IInv'
<1>1. /\ run' = run /\ todo' = todo /\ code' = code /\ suite' = suite /\ job' = job
      /\ uploaded' = uploaded /\ rendered' = rendered
  BY DEF pool
<1>2. OrderOfStages' /\ DryRunFirst' /\ JobsWatched'
  BY <1>1 DEF IInv, OrderOfStages, Untouched, AtSuites, DryRunFirst, JobsWatched
<1>3. SkipsAreAsked'
  BY <1>1 DEF IInv, SkipsAreAsked
<1>4. CodeIsRight'
  BY <1>1 DEF IInv, CodeIsRight, AtSuites
<1>5. RenderedIsRight' /\ UploadedIsRight'
  BY <1>1 DEF IInv, RenderedIsRight, UploadedIsRight
<1> QED
  BY <1>2, <1>3, <1>4, <1>5 DEF IInv

LEMMA HandleSignalKeeps == ASSUME IInv, HandleSignal PROVE IInv'
<1>1. signals \in 0..1 /\ ~hard /\ exit = Unset
  BY DEF IInv, EndIsRight, HandleSignal, Alive
<1>2. /\ signals' = signals + 1 /\ pending' = FALSE /\ timer' = timer /\ run' = run
      /\ presses' = presses
      /\ UNCHANGED <<run, todo, code, pool, uploaded, rendered>>
  BY DEF HandleSignal
<1>3. Cancelled'
  BY <1>1, <1>2 DEF Cancelled
<1>4. CASE exit' = 1 /\ hard' = TRUE /\ signals = 1
  <2>1. EndIsRight'
    BY <1>2, <1>4 DEF EndIsRight, Alive, Unset
  <2>2. TypeOK'
    <3>1. signals' \in 0..2
      BY <1>2, <1>4
    <3> QED
      BY <1>2, <1>4, <3>1 DEF IInv, TypeOK, pool
  <2> QED
    BY <1>2, <1>3, <2>1, <2>2, QuietKeeps
<1>5. CASE exit' = exit /\ hard' = hard /\ signals = 0
  <2>1. exit' = Unset /\ ~hard' /\ signals' \in 0..1
    BY <1>1, <1>2, <1>5
  <2>2. EndIsRight'
    BY <2>1 DEF EndIsRight, Alive
  <2>3. TypeOK'
    <3>1. signals' \in 0..2
      BY <1>2, <1>5
    <3> QED
      BY <1>2, <1>5, <3>1 DEF IInv, TypeOK, pool
  <2> QED
    BY <1>2, <1>3, <2>2, <2>3, QuietKeeps
<1>6. (signals = 0 /\ ~Cancelled) \/ (signals = 1 /\ Cancelled)
  BY <1>1 DEF Cancelled
<1> QED
  BY <1>4, <1>5, <1>6 DEF HandleSignal, HardExit, process

LEMMA TimeoutRingsKeeps == ASSUME IInv, TimeoutRings PROVE IInv'
<1>1. signals \in 0..1 /\ ~hard /\ exit = Unset
  BY DEF IInv, EndIsRight, TimeoutRings, Alive
<1>2. /\ signals' = signals /\ presses' = presses /\ run' = run
      /\ UNCHANGED <<run, todo, code, pool, uploaded, rendered>>
  BY DEF TimeoutRings
<1>3. timer' \in [Timers -> Nat \cup {Unset}] /\ timer'["grace"] = Grace
  BY SessionAssumption DEF IInv, TypeOK, TimeoutRings, Timers
<1>4. Cancelled => Cancelled'
  BY <1>2 DEF Cancelled
<1>5. CASE run.windows /\ exit' = 1 /\ hard' = TRUE /\ pending' = pending
  <2>1. Grace # Unset
    BY SessionAssumption DEF Unset
  <2>2. EndIsRight'
    BY <1>2, <1>3, <1>5, <2>1 DEF EndIsRight, Alive, Unset
  <2>3. TypeOK'
    BY <1>2, <1>3, <1>5 DEF IInv, TypeOK, pool
  <2> QED
    BY <1>2, <1>4, <2>2, <2>3, QuietKeeps
<1>6. CASE exit' = exit /\ hard' = hard /\ pending' = TRUE
  <2>1. exit' = Unset /\ ~hard' /\ signals' \in 0..1
    BY <1>1, <1>2, <1>6
  <2>2. EndIsRight'
    BY <2>1 DEF EndIsRight, Alive
  <2>3. TypeOK'
    BY <1>2, <1>3, <1>6 DEF IInv, TypeOK, pool
  <2> QED
    BY <1>2, <1>4, <2>2, <2>3, QuietKeeps
<1> QED
  BY <1>5, <1>6 DEF TimeoutRings, HardExit, process

LEMMA GraceOverKeeps == ASSUME IInv, GraceOver PROVE IInv'
<1>1. /\ exit' = 1 /\ hard' = TRUE /\ timer' = timer /\ timer["grace"] = 0
      /\ signals' = signals /\ pending' = pending /\ presses' = presses
      /\ UNCHANGED <<run, todo, code, pool, uploaded, rendered>>
  BY DEF GraceOver, HardExit, interrupts
<1>2. EndIsRight'
  BY <1>1 DEF EndIsRight, Alive, Unset
<1>3. TypeOK'
  BY <1>1 DEF IInv, TypeOK, pool
<1> QED
  BY <1>1, <1>2, <1>3, QuietKeeps DEF Cancelled

LEMMA PressKeeps == ASSUME IInv, Press PROVE IInv'
<1>1. /\ exit' = exit /\ hard' = hard /\ timer' = timer /\ signals' = signals
      /\ pending' = TRUE /\ presses' = presses + 1
      /\ UNCHANGED <<run, todo, code, pool, uploaded, rendered>>
  BY DEF Press, process
<1>2. presses' \in 0..MaxPresses
  <2>1. presses \in 0..MaxPresses /\ presses < MaxPresses
    BY DEF IInv, TypeOK, Press
  <2> QED
    BY <1>1, <2>1, SessionAssumption
<1>3. EndIsRight'
  BY <1>1 DEF IInv, EndIsRight, Alive
<1>4. TypeOK'
  BY <1>1, <1>2 DEF IInv, TypeOK, pool
<1> QED
  BY <1>1, <1>3, <1>4, QuietKeeps DEF Cancelled

LEMMA TickKeeps == ASSUME IInv, Tick PROVE IInv'
<1>1. /\ exit' = exit /\ hard' = hard /\ signals' = signals
      /\ pending' = pending /\ presses' = presses
      /\ UNCHANGED <<run, todo, code, pool, uploaded, rendered>>
  BY DEF Tick, process, interrupts
<1>2. timer' \in [Timers -> Nat \cup {Unset}]
  <2>1. ASSUME NEW t \in Timers
        PROVE  (IF timer[t] > 0 THEN timer[t] - 1 ELSE timer[t]) \in Nat \cup {Unset}
    <3>1. timer[t] \in Nat \/ timer[t] = Unset
      BY DEF IInv, TypeOK
    <3> QED
      BY <3>1 DEF Unset
  <2> QED
    BY <2>1 DEF Tick
<1>3. exit' = Unset /\ ~hard' /\ signals' \in 0..1
  BY <1>1 DEF IInv, EndIsRight, Tick, Alive
<1>4. EndIsRight'
  BY <1>3 DEF EndIsRight, Alive
<1>5. TypeOK'
  BY <1>1, <1>2 DEF IInv, TypeOK, pool
<1> QED
  BY <1>1, <1>4, <1>5, QuietKeeps DEF Cancelled

LEMMA StutterKeeps == ASSUME IInv, UNCHANGED vars PROVE IInv'
<1>1. UNCHANGED <<run, todo, code, exit, hard, pool, signals, pending, presses, timer, uploaded, rendered>>
  BY DEF vars, pool
<1>2. EndIsRight'
  BY <1>1 DEF IInv, EndIsRight, Alive
<1>3. TypeOK'
  BY <1>1 DEF IInv, TypeOK, pool
<1> QED
  BY <1>1, <1>2, <1>3, QuietKeeps DEF Cancelled

-----------------------------------------------------------------------------
(* The theorems                                                            *)

LEMMA StepKeeps == ASSUME IInv, [Next]_vars PROVE IInv'
<1>1. CASE LocalStage \/ RequestStage \/ Upload \/ AwaitTunnel \/ TunnelAnswers \/ DryRun
  BY <1>1, StagedSteps, StagedKeeps
<1>2. CASE \E s \in Suites : Worker(s) \/ PollReturns(s) \/ StopReturns(s)
  BY <1>2, SuiteSteps, WorkedKeeps
<1>3. CASE \E s \in Suites : JobEnds(s)
  BY <1>3, JobEndsKeeps
<1>4. CASE Return \/ Exit
  BY <1>4, ReturnKeeps, ExitKeeps
<1>5. CASE Watchdogs
  BY <1>5, HandleSignalKeeps, TimeoutRingsKeeps, GraceOverKeeps DEF Watchdogs
<1>6. CASE Press \/ Tick
  BY <1>6, PressKeeps, TickKeeps
<1>7. CASE UNCHANGED vars
  BY <1>7, StutterKeeps
<1> QED
  BY <1>1, <1>2, <1>3, <1>4, <1>5, <1>6, <1>7 DEF Next, Main, Ended

\* The inductive invariant: how far the main goroutine has come, what it has decided
\* and how the process has ended agree with the suites, their jobs and the interrupts.
THEOREM SessionInvariant == Spec => []IInv
<1>1. Init => IInv
  BY InitialInvariant
<1>2. IInv /\ [Next]_vars => IInv'
  BY StepKeeps
<1> QED
  BY <1>1, <1>2, PTL DEF Spec

\* Types of a run's state, for any suites, timeouts and number of interrupts.
THEOREM SessionTypeCorrect == Spec => []TypeOK
<1>1. IInv => TypeOK
  BY DEF IInv
<1> QED
  BY <1>1, SessionInvariant, PTL

\* A process that ends by itself leaves no job running that it was to wait for.
THEOREM NoJobIsLeft == Spec => []NoJobLeftBehind
<1>1. IInv => NoJobLeftBehind
  <2> SUFFICES ASSUME IInv, exit # Unset, ~hard, ~run.async, NEW s \in Suites
               PROVE  job[s] # "running"
    BY DEF NoJobLeftBehind
  <2>1. code # Unset
    BY DEF IInv, EndIsRight, Alive
  <2>2. CASE AtSuites
    <3>1. suite[s] \in Settled
      BY <2>1, <2>2 DEF IInv, CodeIsRight
    <3> QED
      BY <3>1 DEF IInv, JobsWatched, Settled
  <2>3. CASE ~AtSuites
    BY <2>3 DEF IInv, OrderOfStages, Untouched
  <2> QED
    BY <2>2, <2>3
<1> QED
  BY <1>1, SessionInvariant, PTL

\* The process is ended from outside its main goroutine only for a second interrupt
\* or a global timeout.
THEOREM HardExitsAreAsked == Spec => []HardExitIsAsked
<1>1. IInv => HardExitIsAsked
  BY DEF IInv, EndIsRight, HardExitIsAsked
<1> QED
  BY <1>1, SessionInvariant, PTL

\* Exit code 0 says that no suite failed, and without an interrupt none was skipped.
THEOREM ExitCodeIsTrue == Spec => []ExitCodeTellsOutcome
<1>1. IInv => ExitCodeTellsOutcome
  <2> SUFFICES ASSUME IInv, exit = 0
               PROVE  /\ ~hard
                      /\ run.dryRun \/ \A s \in Suites : suite[s] \in Settled \ {"failed"}
                      /\ signals = 0 => \A s \in Suites : suite[s] # "skipped"
    BY DEF ExitCodeTellsOutcome
  <2>1. ~hard /\ code = 0 /\ code # Unset
    BY DEF IInv, EndIsRight, Alive, Unset
  <2>2. run.dryRun \/ \A s \in Suites : suite[s] \in Settled \ {"failed"}
    BY <2>1 DEF IInv, CodeIsRight
  <2>3. signals = 0 => \A s \in Suites : suite[s] # "skipped"
    <3>1. signals = 0 => ~Cancelled
      BY DEF Cancelled
    <3> QED
      BY <3>1 DEF IInv, SkipsAreAsked
  <2> QED
    BY <2>1, <2>2, <2>3
<1> QED
  BY <1>1, SessionInvariant, PTL

\* Reports are rendered for whole runs only, and for every whole run.
THEOREM ReportsOfWholeRuns == Spec => []ReportsAreWhole
<1>1. IInv => ReportsAreWhole
  <2>1. ASSUME IInv, rendered PROVE \A s \in Suites : suite[s] \in Settled \ {"skipped"}
    BY <2>1 DEF IInv, RenderedIsRight
  <2>2. ASSUME IInv, exit # Unset, ~hard, signals = 0, ~rendered, ~run.dryRun
        PROVE  exit = 1 /\ \A s \in Suites : suite[s] = "open"
    <3>1. code # Unset /\ exit = code
      BY <2>2 DEF IInv, EndIsRight, Alive
    <3>2. ~AtSuites
      BY <2>2, <3>1 DEF IInv, CodeIsRight, Cancelled
    <3>3. exit = 1
      BY <2>2, <3>1, <3>2 DEF IInv, CodeIsRight
    <3> QED
      BY <2>2, <3>2, <3>3 DEF IInv, OrderOfStages, Untouched
  <2> QED
    BY <2>1, <2>2 DEF ReportsAreWhole
<1> QED
  BY <1>1, SessionInvariant, PTL

\* A dry run uploads nothing and begins no suite.
THEOREM DryRunsAreHarmless == Spec => []DryRunIsHarmless
<1>1. IInv => DryRunIsHarmless
  <2> SUFFICES ASSUME IInv, run.dryRun
               PROVE  ~uploaded /\ Untouched
    BY DEF DryRunIsHarmless, Untouched
  <2>1. ~uploaded
    BY DEF IInv, UploadedIsRight
  <2>2. ASSUME AtSuites PROVE FALSE
    <3>1. todo \in Seq(Stages) /\ todo # <<>>
      BY <2>2 DEF IInv, TypeOK, AtSuites
    <3>2. todo[1] = "suites" /\ 1 \in 1..Len(todo)
      BY <2>2, <3>1 DEF AtSuites
    <3>3. \E j \in 1..(1 - 1) : todo[j] = "dry run"
      BY <3>2 DEF IInv, DryRunFirst, Ordered, Before
    <3>4. 1..(1 - 1) = {}
      OBVIOUS
    <3> QED
      BY <3>3, <3>4
  <2> QED
    BY <2>1, <2>2 DEF IInv, OrderOfStages
<1> QED
  BY <1>1, SessionInvariant, PTL
=============================================================================
