------------------------------ MODULE Session ------------------------------
(***************************************************************************)
(* One process "saucectl run": preRun, the runX function of the framework, *)
(* its RunProject, and around them the goroutines that end the process     *)
(* early: the signal handler of newContext and awaitGlobalTimeout.         *)
(*                                                                         *)
(* The worker pool is reduced to what matters here: any number of suites   *)
(* are worked on at once, and each has one attempt (CloudRunner has the    *)
(* channels and the retries).  API tests have no pool and are left out.    *)
(* Time passes in units.  It does not pass while the global timeout or the *)
(* soft shutdown's ten seconds are over and the timer's goroutine has not  *)
(* run.                                                                    *)
(*                                                                         *)
(* Requests under the run's context fail once it is cancelled, unless the  *)
(* answer was there first; the model allows both.                          *)
(*                                                                         *)
(* The Resto client is created without a timeout, so its requests - tunnel *)
(* check, polling and stopping of virtual-device jobs - may never return;  *)
(* "answered" says that in this run they do.                               *)
(***************************************************************************)
EXTENDS Integers, Sequences

CONSTANTS
  Suites,
  Timeouts,      \* values of --timeout; 0: none
  Grace,         \* time for the soft shutdown, ten seconds
  TunnelTimeout, \* sauce.tunnel.timeout
  MaxPresses     \* bound: how often Ctrl-C is pressed

ASSUME SessionAssumption ==
  /\ Timeouts \subseteq Nat
  /\ Grace \in Nat \ {0}
  /\ TunnelTimeout \in Nat \ {0}
  /\ MaxPresses \in Nat

Unset == -1  \* no exit code yet; a timer that does not run

Timers == {"global", "grace", "tunnel"}

Runs == [dryRun : BOOLEAN, async : BOOLEAN, timeout : Timeouts, windows : BOOLEAN,
         answered : BOOLEAN]

VARIABLES
  run,       \* the flags, the platform and the network of this run
  todo,      \* the stages the main goroutine has before it
  code,      \* what it will pass to os.Exit
  exit,      \* the exit code of the process
  hard,      \* a goroutine other than the main one has ended the process
  suite,     \* suite -> where it stands
  job,       \* suite -> its job in the cloud
  signals,   \* interrupts handled; from the first on the context is cancelled
  pending,   \* the channel of signals holds one
  presses,   \* how often Ctrl-C was pressed
  timer,     \* timer -> time left
  uploaded,  \* something was put into the storage
  rendered   \* the reporters have rendered

vars == <<run, todo, code, exit, hard, suite, job, signals, pending, presses, timer,
          uploaded, rendered>>

process == <<exit, hard>>
pool == <<suite, job>>
interrupts == <<signals, pending, presses>>

-----------------------------------------------------------------------------
(* What a run consists of                                                  *)

\* cypress, playwright, testcafe and cucumber.
WebStages ==
  <<"configuration", "metadata", "platform", "runtime", "tunnel", "archive", "upload",
    "dry run", "suites">>

ReplayStages ==
  <<"configuration", "metadata", "platform", "tunnel", "archive", "upload", "dry run",
    "suites">>

\* Mutation: the dry run is noticed too late.
MobileStages_Late ==
  <<"configuration", "tunnel", "archive", "upload", "suites", "dry run">>

\* xcuitest and xctest.
MobileStages ==
  <<"configuration", "tunnel", "archive", "upload", "dry run", "suites">>

\* Apps for espresso are uploaded as they are.
EspressoStages == <<"configuration", "tunnel", "upload", "dry run", "suites">>

Stages == {"configuration", "metadata", "platform", "runtime", "tunnel", "archive",
           "upload", "dry run", "suites"}

Init ==
  /\ run \in Runs
  /\ todo \in {WebStages, ReplayStages, MobileStages, EspressoStages}
  /\ code = Unset
  /\ exit = Unset
  /\ hard = FALSE
  /\ suite = [s \in Suites |-> "open"]
  /\ job = [s \in Suites |-> "none"]
  /\ signals = 0
  /\ pending = FALSE
  /\ presses = 0
  /\ timer = [t \in Timers |-> IF t = "global" /\ run.timeout # 0 THEN run.timeout ELSE Unset]
  /\ uploaded = FALSE
  /\ rendered = FALSE

Alive == exit = Unset

Cancelled == signals > 0

\* The main goroutine is at this stage.
At(stage) == Alive /\ code = Unset /\ todo # <<>> /\ Head(todo) = stage

Proceed == todo' = Tail(todo) /\ UNCHANGED code

\* RunProject or what comes before it returns with a failure.
Fail == code' = 1 /\ UNCHANGED todo

-----------------------------------------------------------------------------
(* The stages before the suites                                            *)

\* Work on the local disk.
LocalStage ==
  /\ At("configuration") \/ At("platform") \/ At("archive")
  /\ Proceed \/ Fail
  /\ UNCHANGED <<run, process, pool, interrupts, timer, uploaded, rendered>>

\* Requests under the run's context: an interrupt aborts them.
RequestStage ==
  /\ At("metadata") \/ At("runtime")
  /\ Proceed \/ Fail
  /\ UNCHANGED <<run, process, pool, interrupts, timer, uploaded, rendered>>

\* Mutation: a dry run uploads.
Upload_Always ==
  /\ At("upload")
  /\ Proceed \/ Fail
  /\ uploaded' \in {uploaded, TRUE}
  /\ UNCHANGED <<run, process, pool, interrupts, timer, rendered>>

\* A file that the storage has already is not uploaded again.
Upload ==
  /\ At("upload")
  /\ \/ run.dryRun /\ Proceed /\ UNCHANGED uploaded
     \/ ~run.dryRun /\ (Proceed \/ Fail) /\ uploaded' \in {uploaded, TRUE}
  /\ UNCHANGED <<run, process, pool, interrupts, timer, rendered>>

\* The readiness check of a tunnel begins, unless none is named or the run is
\* dry; a timeout that is not positive is an error.
AwaitTunnel ==
  /\ At("tunnel")
  /\ timer["tunnel"] = Unset
  /\ \/ Proceed /\ UNCHANGED timer
     \/ ~run.dryRun /\ Fail /\ UNCHANGED timer
     \/ /\ ~run.dryRun
        /\ timer' = [timer EXCEPT !["tunnel"] = TunnelTimeout]
        /\ UNCHANGED <<todo, code>>
  /\ UNCHANGED <<run, process, pool, interrupts, uploaded, rendered>>

\* Mutation: every round of the wait has the whole timeout before it.
TunnelAnswers_Forever ==
  /\ At("tunnel")
  /\ \/ /\ timer["tunnel"] > 0
        /\ Proceed
        /\ timer' = [timer EXCEPT !["tunnel"] = Unset]
     \/ /\ timer["tunnel"] = 0
        /\ timer' = [timer EXCEPT !["tunnel"] = TunnelTimeout]
        /\ UNCHANGED <<todo, code>>
  /\ UNCHANGED <<run, process, pool, interrupts, uploaded, rendered>>

\* The tunnel is found, or it is not found until the deadline.  A cancelled context
\* makes every request fail but does not end the wait.
TunnelAnswers ==
  /\ At("tunnel")
  /\ \/ timer["tunnel"] >= 0 /\ Proceed
     \/ timer["tunnel"] = 0 /\ Fail
  /\ timer' = [timer EXCEPT !["tunnel"] = Unset]
  /\ UNCHANGED <<run, process, pool, interrupts, uploaded, rendered>>

DryRun ==
  /\ At("dry run")
  /\ \/ run.dryRun /\ code' = 0 /\ UNCHANGED todo
     \/ ~run.dryRun /\ Proceed
  /\ UNCHANGED <<run, process, pool, interrupts, timer, uploaded, rendered>>

-----------------------------------------------------------------------------
(* The suites                                                              *)

Settled == {"passed", "failed", "skipped", "started"}

Move(s, from, to) ==
  /\ At("suites")
  /\ suite[s] = from
  /\ suite' = [suite EXCEPT ![s] = to]
  /\ UNCHANGED <<run, todo, code, process, interrupts, timer, uploaded, rendered>>

SetJob(s, state) == job' = [job EXCEPT ![s] = state]

SkipSuite(s) == Cancelled /\ Move(s, "open", "skipped") /\ UNCHANGED job

BeginSuite(s) == ~Cancelled /\ Move(s, "open", "starting") /\ UNCHANGED job

\* StartJob runs to its end even when the run is interrupted.  When it fails the
\* job may have been created all the same.
StartReturns(s) ==
  \/ Move(s, "starting", IF run.async THEN "started" ELSE "polling") /\ SetJob(s, "running")
  \/ Move(s, "starting", "failed") /\ (UNCHANGED job \/ SetJob(s, "lost"))

PollDone(s) ==
  /\ ~Cancelled
  /\ job[s] = "over"
  /\ Move(s, "polling", "passed") \/ Move(s, "polling", "failed")
  /\ UNCHANGED job

PollFails(s) ==
  /\ ~Cancelled
  /\ Move(s, "polling", "failed")
  /\ IF job[s] = "running" THEN SetJob(s, "lost") ELSE UNCHANGED job

PollTimesOut(s) == ~Cancelled /\ Move(s, "polling", "failing") /\ UNCHANGED job

\* Mutation: the suite is given up at once.
PollInterrupted_NoStop(s) == Cancelled /\ Move(s, "polling", "skipped") /\ UNCHANGED job

\* Mutation: the wait goes on until the job is over.
PollInterrupted_Late(s) ==
  Cancelled /\ job[s] = "over" /\ Move(s, "polling", "interrupted") /\ UNCHANGED job

\* The wait ends with the context; the job is still to be stopped.  A failure it
\* has come to in the meantime counts.
PollInterrupted(s) ==
  /\ Cancelled
  /\ \/ Move(s, "polling", "interrupted")
     \/ job[s] = "over" /\ Move(s, "polling", "failing")
  /\ UNCHANGED job

\* A worker waits for StopJob.
Stopping(s) == suite[s] \in {"interrupted", "failing"}

\* StopJob returns; whether it was of any use is not looked at.
StopReturns(s) ==
  /\ \/ Move(s, "interrupted", "skipped")
     \/ Move(s, "failing", "failed")
  /\ IF job[s] = "running" THEN SetJob(s, "stopped") ELSE UNCHANGED job

JobEnds(s) ==
  /\ Alive
  /\ job[s] = "running"
  /\ SetJob(s, "over")
  /\ UNCHANGED <<run, todo, code, process, suite, interrupts, timer, uploaded, rendered>>

\* Mutation: the exit code does not depend on the suites.
ExitCode_Zero == 0

ExitCode == IF \E s \in Suites : suite[s] = "failed" THEN 1 ELSE 0

\* Mutation: reports are rendered whether or not the context was cancelled.
Return_Always ==
  /\ At("suites")
  /\ \A s \in Suites : suite[s] \in Settled
  /\ code' = ExitCode
  /\ rendered' = TRUE
  /\ UNCHANGED <<run, todo, process, pool, interrupts, timer, uploaded>>

\* collectResults has all results; it renders the reports of a run that was not
\* interrupted, and the verdict becomes the exit code.
Return ==
  /\ At("suites")
  /\ \A s \in Suites : suite[s] \in Settled
  /\ code' = ExitCode
  /\ rendered' = ~Cancelled
  /\ UNCHANGED <<run, todo, process, pool, interrupts, timer, uploaded>>

\* os.Exit of the main goroutine.
Exit ==
  /\ Alive
  /\ code # Unset
  /\ exit' = code
  /\ UNCHANGED <<run, todo, code, hard, pool, interrupts, timer, uploaded, rendered>>

-----------------------------------------------------------------------------
(* Ending the process early                                                *)

HardExit == exit' = 1 /\ hard' = TRUE

\* The channel holds one signal; another that arrives meanwhile is lost.
Press ==
  /\ Alive
  /\ presses < MaxPresses
  /\ presses' = presses + 1
  /\ pending' = TRUE
  /\ UNCHANGED <<run, todo, code, process, pool, signals, timer, uploaded, rendered>>

\* Mutation: every interrupt exits.
HandleSignal_Hard ==
  /\ Alive
  /\ pending
  /\ pending' = FALSE
  /\ signals' = signals + 1
  /\ HardExit
  /\ UNCHANGED <<run, todo, code, pool, presses, timer, uploaded, rendered>>

\* Mutation: further interrupts change nothing.
HandleSignal_Soft ==
  /\ Alive
  /\ pending
  /\ pending' = FALSE
  /\ signals' = signals + 1
  /\ UNCHANGED <<run, todo, code, process, pool, presses, timer, uploaded, rendered>>

\* The first interrupt cancels the context, the second ends the process.
HandleSignal ==
  /\ Alive
  /\ pending
  /\ pending' = FALSE
  /\ signals' = signals + 1
  /\ IF Cancelled THEN HardExit ELSE UNCHANGED process
  /\ UNCHANGED <<run, todo, code, pool, presses, timer, uploaded, rendered>>

\* The global timeout interrupts the process and gives it some time; on Windows a
\* process cannot interrupt itself.
TimeoutRings ==
  /\ Alive
  /\ timer["global"] = 0
  /\ timer' = [timer EXCEPT !["global"] = Unset, !["grace"] = Grace]
  /\ IF run.windows THEN HardExit /\ UNCHANGED pending
     ELSE pending' = TRUE /\ UNCHANGED process
  /\ UNCHANGED <<run, todo, code, pool, signals, presses, uploaded, rendered>>

\* The soft shutdown took too long.
GraceOver ==
  /\ Alive
  /\ timer["grace"] = 0
  /\ HardExit
  /\ UNCHANGED <<run, todo, code, pool, interrupts, timer, uploaded, rendered>>

Tick ==
  /\ Alive
  /\ timer["global"] # 0 /\ timer["grace"] # 0
  /\ \E t \in Timers : timer[t] > 0
  /\ timer' = [t \in Timers |-> IF timer[t] > 0 THEN timer[t] - 1 ELSE timer[t]]
  /\ UNCHANGED <<run, todo, code, process, pool, interrupts, uploaded, rendered>>

Ended == ~Alive /\ UNCHANGED vars

-----------------------------------------------------------------------------
PollReturns(s) == PollDone(s) \/ PollFails(s) \/ PollTimesOut(s)

Main == LocalStage \/ RequestStage \/ Upload \/ AwaitTunnel \/ DryRun \/ Exit

Worker(s) == SkipSuite(s) \/ BeginSuite(s) \/ StartReturns(s) \/ PollInterrupted(s)

Watchdogs == HandleSignal \/ TimeoutRings \/ GraceOver

Next ==
  \/ Main \/ TunnelAnswers \/ Return
  \/ \E s \in Suites : Worker(s) \/ PollReturns(s) \/ StopReturns(s) \/ JobEnds(s)
  \/ Watchdogs \/ Press \/ Tick
  \/ Ended

\* Goroutines get to run, time passes, and clients with a timeout return.  What the
\* Resto client is asked for returns if the run is an answered one or, for requests
\* under the run's context, once that is cancelled.
Fairness ==
  /\ WF_vars(Main)
  /\ WF_vars(Watchdogs)
  /\ WF_vars(Tick)
  /\ \A s \in Suites : WF_vars(Worker(s))
  /\ WF_vars((run.answered \/ Cancelled) /\ TunnelAnswers)
  /\ WF_vars((run.answered \/ Cancelled) /\ Return)
  /\ \A s \in Suites : WF_vars(run.answered /\ (PollReturns(s) \/ StopReturns(s)))

Spec == Init /\ [][Next]_vars /\ Fairness

-----------------------------------------------------------------------------
(* Properties                                                              *)

TypeOK ==
  /\ run \in Runs
  /\ todo \in Seq(Stages)
  /\ code \in {Unset, 0, 1}
  /\ exit \in {Unset, 0, 1}
  /\ hard \in BOOLEAN
  /\ suite \in [Suites -> {"open", "starting", "polling", "interrupted", "failing"} \cup Settled]
  /\ job \in [Suites -> {"none", "running", "over", "stopped", "lost"}]
  /\ signals \in 0..2
  /\ pending \in BOOLEAN
  /\ presses \in 0..MaxPresses
  /\ timer \in [Timers -> Nat \cup {Unset}]
  /\ uploaded \in BOOLEAN
  /\ rendered \in BOOLEAN

\* cloud.go:227: "ensuring jobs are not left abandoned".  A process that ends by
\* itself, interrupted or not, leaves no job running that it knows of and was not
\* asked to leave: each has ended or was told to stop.
NoJobLeftBehind ==
  exit # Unset /\ ~hard /\ ~run.async => \A s \in Suites : job[s] # "running"

\* Nothing but a second interrupt, the global timeout with its soft shutdown time
\* used up, or the global timeout on Windows, keeps the main goroutine from ending
\* its work; one Ctrl-C never does.
HardExitIsAsked ==
  hard => \/ signals = 2
          \/ timer["grace"] = 0
          \/ run.windows /\ timer["grace"] # Unset

\* Exit code 0 says that no suite has failed, and of a run nobody interrupted that
\* all have passed, were started with --async, or were not to be run.
ExitCodeTellsOutcome ==
  exit = 0 =>
    /\ ~hard
    /\ run.dryRun \/ \A s \in Suites : suite[s] \in Settled \ {"failed"}
    /\ signals = 0 => \A s \in Suites : suite[s] # "skipped"

\* Reports are rendered for whole runs only: no suite is open, or was skipped by an
\* interrupt that came before the reports.  And a run that ends by itself without an
\* interrupt has rendered them, unless it failed before its suites.
ReportsAreWhole ==
  /\ rendered => \A s \in Suites : suite[s] \in Settled \ {"skipped"}
  /\ exit # Unset /\ ~hard /\ signals = 0 /\ ~rendered =>
       run.dryRun \/ (exit = 1 /\ \A s \in Suites : suite[s] = "open")

\* --dry-run: "Simulate a test run without actually running any tests."
DryRunIsHarmless ==
  run.dryRun => ~uploaded /\ \A s \in Suites : suite[s] = "open" /\ job[s] = "none"

\* The global timeout "limits how long saucectl can run in total", even if requests
\* are never answered; without it the run ends if they are.
RunEnds == run.timeout # 0 \/ run.answered ~> ~Alive

\* An interrupt ends the run, whatever stage it meets, unless StopJob never returns;
\* and saucectl.go:113: "press Ctrl-c again to exit without waiting" ends even that.
InterruptEnds ==
  /\ Cancelled ~> ~Alive \/ \E s \in Suites : []Stopping(s)
  /\ Cancelled /\ pending ~> ~Alive
=============================================================================
