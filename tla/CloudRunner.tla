---------------------------- MODULE CloudRunner ----------------------------
(***************************************************************************)
(* internal/saucecloud/cloud.go: the worker pool every framework runner    *)
(* hands its suites to.  A feeder goroutine fills the buffered channel     *)
(* jobOpts, Concurrency worker goroutines (runJobs) take one StartOptions  *)
(* at a time, start a job in the cloud, wait for its end and either send   *)
(* one result to the collector or spawn a goroutine that puts the options  *)
(* back into jobOpts for one more attempt.  The collector (collectResults) *)
(* receives as many results as it was told to expect and returns the       *)
(* verdict of the whole run.                                               *)
(*                                                                         *)
(* Data left out: everything in StartOptions the pool never looks at, the  *)
(* artifacts, logging and the console heartbeat goroutine.                 *)
(***************************************************************************)
EXTENDS Integers, Sequences, FiniteSets, Job

CONSTANTS
  Suites,         \* one element per StartOptions the runner submits
  Workers,        \* the goroutines of createWorkerPool; Concurrency of them
  Retries,        \* sauce.retries
  PassThreshold,  \* suite -> passThreshold
  RealDevice,     \* suite -> does it run on the real device cloud?
  Async,          \* --async
  FailFast,       \* --fail-fast
  Expected,       \* what runSuites tells collectResults to wait for
  None            \* "no options", "no result"

ASSUME PoolAssumption ==
  /\ IsFiniteSet(Suites)
  /\ IsFiniteSet(Workers) /\ Workers # {}
  /\ Retries \in Nat
  /\ PassThreshold \in [Suites -> Nat]
  /\ RealDevice \in [Suites -> BOOLEAN]
  /\ Async \in BOOLEAN /\ FailFast \in BOOLEAN
  /\ Expected \in Nat

Attempts == 0..Retries

JobIDs == Suites \X Attempts

\* The part of job.StartOptions that changes from attempt to attempt.
StartOptions == [suite : Suites, attempt : Attempts, passCount : Nat]

\* The part of a result, and of the report.TestResult made of it, that matters.
Results == [suite : Suites, job : Jobs, skipped : BOOLEAN, attempts : 0..(Retries + 1)]

Entries == [status : States \cup {"open", "skipped"}, attempts : 0..(Retries + 1)]

ASSUME NoneAssumption == None \notin StartOptions /\ None \notin Results

Concurrency == Cardinality(Workers)
JobOptsCap == Retries + 1
VARIABLES
  unfed,      \* suites the feeder goroutine has not sent yet
  jobOpts,    \* the buffered channel of StartOptions
  retrying,   \* StartOptions held by the goroutines "go Retrier.Retry"
  pc,         \* worker -> where it stands in runJobs
  opts,       \* worker -> the StartOptions it works on
  res,        \* worker -> the result it is about to send
  skipStart,  \* worker -> the local flag of runJobs
  results,    \* the buffered channel of results
  completed,  \* results received by collectResults
  passed,     \* the verdict of collectResults so far
  ledger,     \* suite -> what the reporters were told of it
  returned,   \* collectResults returned and runSuites closed the channel
  cancelled,  \* ctx: an interrupt arrived
  cloud,      \* suite -> attempt -> the job in the cloud
  stopped,    \* jobs <<suite, attempt>> StopJob was called for
  abandoned,  \* jobs the client stopped watching without calling StopJob
  orphaned    \* jobs the client never learned it had started

clientVars == <<unfed, jobOpts, retrying, pc, opts, res, skipStart>>
collectorVars == <<results, completed, passed, ledger, returned>>
cloudVars == <<cloud, stopped, abandoned, orphaned>>
vars == <<clientVars, collectorVars, cancelled, cloudVars>>

-----------------------------------------------------------------------------
(* The decisions of runJobs                                                *)

\* Mutation: the last retry is never taken.
BelowRetryLimit_Short(o) == o.attempt + 1 < Retries

BelowRetryLimit(o) == o.attempt < Retries

\* Mutation: one success too few is enough.
BelowThreshold_Lenient(o) == o.passCount + 1 < PassThreshold[o.suite]

BelowThreshold(o) == o.passCount < PassThreshold[o.suite]

ShouldRetryJob(j, skipped) == ~IsSuccessful(j) /\ ~skipped

\* Mutation: a suite is retried until the limit although it met its threshold.
ShouldRetry_Always(o, j, skipped) == ~Async /\ BelowRetryLimit(o) /\ ~skipped

ShouldRetry(o, j, skipped) ==
  /\ ~Async
  /\ BelowRetryLimit(o)
  /\ ShouldRetryJob(j, skipped) \/ BelowThreshold(o)

\* Mutation: a failed attempt takes a success back.
Counted_Penalty(o, j) ==
  [o EXCEPT !.passCount = IF IsSuccessful(j) THEN @ + 1 ELSE @ - 1]

\* opts.CurrentPassCount after the attempt that ended as j.
Counted(o, j) ==
  IF IsSuccessful(j) THEN [o EXCEPT !.passCount = @ + 1] ELSE o

\* Mutation: the attempt is not counted.
NextAttempt_Same(o) == o

\* The options of the next attempt.
NextAttempt(o) == [o EXCEPT !.attempt = @ + 1]

\* The threshold has the last word on the status of a finished suite.
Judged(o, j, skipped) ==
  IF Async \/ skipped THEN j
  ELSE [j EXCEPT !.status = IF BelowThreshold(o) THEN StateFailed ELSE StatePassed,
                 !.passed = ~BelowThreshold(o)]

-----------------------------------------------------------------------------
(* Feeder goroutine of runSuites                                           *)

Feed(s) ==
  /\ s \in unfed
  /\ Len(jobOpts) < JobOptsCap
  /\ unfed' = unfed \ {s}
  /\ jobOpts' = Append(jobOpts, [suite |-> s, attempt |-> 0, passCount |-> 0])
  /\ UNCHANGED <<retrying, pc, opts, res, skipStart, collectorVars, cancelled, cloudVars>>

-----------------------------------------------------------------------------
(* Worker goroutine: runJobs and the runJob it calls                       *)

\* ctx.Err() != nil || skipStart: the suite is answered without a job.
\* Mutation: the skipped suite is dropped, no result is sent.
SkipSuite_Silent(w) ==
  /\ pc[w] = "idle"
  /\ jobOpts # <<>>
  /\ cancelled \/ skipStart[w]
  /\ jobOpts' = Tail(jobOpts)
  /\ UNCHANGED <<unfed, retrying, pc, opts, res, skipStart, collectorVars, cancelled, cloudVars>>

SkipSuite(w) ==
  /\ pc[w] = "idle"
  /\ jobOpts # <<>>
  /\ cancelled \/ skipStart[w]
  /\ jobOpts' = Tail(jobOpts)
  /\ res' = [res EXCEPT ![w] =
               [suite |-> Head(jobOpts).suite, job |-> NoJob, skipped |-> TRUE,
                attempts |-> Head(jobOpts).attempt]]
  /\ pc' = [pc EXCEPT ![w] = "sending"]
  /\ UNCHANGED <<unfed, retrying, opts, skipStart, collectorVars, cancelled, cloudVars>>

BeginSuite(w) ==
  /\ pc[w] = "idle"
  /\ jobOpts # <<>>
  /\ ~cancelled /\ ~skipStart[w]
  /\ jobOpts' = Tail(jobOpts)
  /\ opts' = [opts EXCEPT ![w] = Head(jobOpts)]
  /\ pc' = [pc EXCEPT ![w] = "starting"]
  /\ UNCHANGED <<unfed, retrying, res, skipStart, collectorVars, cancelled, cloudVars>>

\* Mutation: the "continue" after Retrier.Retry is missing.
Requeue_FallThrough(w, j, skipped) ==
  LET o == Counted(opts[w], j)
  IN  /\ ShouldRetry(o, j, skipped)
      /\ retrying' = retrying \cup {NextAttempt(o)}
      /\ res' = [res EXCEPT ![w] =
                   [suite |-> o.suite, job |-> Judged(o, j, skipped), skipped |-> skipped,
                    attempts |-> o.attempt + 1]]
      /\ pc' = [pc EXCEPT ![w] = "sending"]
      /\ opts' = [opts EXCEPT ![w] = None]
      /\ UNCHANGED skipStart

\* runJob returned (j, skipped) and the attempt is not the last: the options
\* go to a retry goroutine and the worker turns to the next suite.
Requeue(w, j, skipped) ==
  LET o == Counted(opts[w], j)
  IN  /\ ShouldRetry(o, j, skipped)
      /\ retrying' = retrying \cup {NextAttempt(o)}
      /\ pc' = [pc EXCEPT ![w] = "idle"]
      /\ opts' = [opts EXCEPT ![w] = None]
      /\ UNCHANGED <<res, skipStart>>

\* Mutation: --fail-fast skips after any suite, not only after a failed one.
Settle_FailFastAlways(w, j, skipped) ==
  LET o == Counted(opts[w], j)
  IN  /\ ~ShouldRetry(o, j, skipped)
      /\ skipStart' = [skipStart EXCEPT ![w] = FailFast]
      /\ res' = [res EXCEPT ![w] =
                   [suite |-> o.suite, job |-> Judged(o, j, skipped), skipped |-> skipped,
                    attempts |-> o.attempt + 1]]
      /\ pc' = [pc EXCEPT ![w] = "sending"]
      /\ opts' = [opts EXCEPT ![w] = None]
      /\ UNCHANGED retrying

\* runJob returned (j, skipped) and the suite is settled.
Settle(w, j, skipped) ==
  LET o == Counted(opts[w], j)
  IN  /\ ~ShouldRetry(o, j, skipped)
      /\ skipStart' = [skipStart EXCEPT ![w] = @ \/ (FailFast /\ ~j.passed)]
      /\ res' = [res EXCEPT ![w] =
                   [suite |-> o.suite, job |-> Judged(o, j, skipped), skipped |-> skipped,
                    attempts |-> o.attempt + 1]]
      /\ pc' = [pc EXCEPT ![w] = "sending"]
      /\ opts' = [opts EXCEPT ![w] = None]
      /\ UNCHANGED retrying

AfterRunJob(w, j, skipped) ==
  /\ Requeue(w, j, skipped) \/ Settle(w, j, skipped)
  /\ UNCHANGED <<unfed, jobOpts>>

\* The job worker w deals with.
CurrentJob(w) == <<opts[w].suite, opts[w].attempt>>

CloudState(jobID) == cloud[jobID[1]][jobID[2]]

SetCloud(jobID, state) == cloud' = [cloud EXCEPT ![jobID[1]][jobID[2]] = state]

\* What StartJob answers with: no outcome yet.
StartedJob(s) ==
  [NoJob EXCEPT !.status = IF RealDevice[s] THEN StateQueued ELSE StateInProgress,
                !.isRDC = RealDevice[s], !.hasID = TRUE]

\* StartJob failed.  The request may have reached the cloud all the same: the
\* answer was lost, came too late or could not be parsed.
StartFails(w) ==
  /\ pc[w] = "starting"
  /\ \/ UNCHANGED cloudVars
     \/ /\ SetCloud(CurrentJob(w), "running")
        /\ orphaned' = orphaned \cup {CurrentJob(w)}
        /\ UNCHANGED <<stopped, abandoned>>
  /\ AfterRunJob(w, ErrorJob, FALSE)
  /\ UNCHANGED <<collectorVars, cancelled>>

\* StartJob runs under a context of its own, so an interrupt does not abort it.
StartAsync(w) ==
  /\ pc[w] = "starting"
  /\ Async
  /\ SetCloud(CurrentJob(w), "running")
  /\ AfterRunJob(w, StartedJob(opts[w].suite), FALSE)
  /\ UNCHANGED <<collectorVars, cancelled, stopped, abandoned, orphaned>>

StartPolled(w) ==
  /\ pc[w] = "starting"
  /\ ~Async
  /\ SetCloud(CurrentJob(w), "running")
  /\ pc' = [pc EXCEPT ![w] = "polling"]
  /\ UNCHANGED <<unfed, jobOpts, retrying, opts, res, skipStart, collectorVars,
                 cancelled, stopped, abandoned, orphaned>>

\* What a status request for the worker's job answers with.
PolledJob(w) ==
  LET s == opts[w].suite
      state == CloudState(CurrentJob(w))
  IN  IF state = "running"
      THEN [NoJob EXCEPT !.status = StateInProgress, !.isRDC = RealDevice[s], !.hasID = TRUE]
      ELSE ParseJob(RealDevice[s], state)

\* The job PollJob answers with when the context ended the wait.
BareJob == [NoJob EXCEPT !.hasID = TRUE]

\* PollJob saw a done job.
PollDone(w) ==
  /\ pc[w] = "polling"
  /\ ~cancelled
  /\ CloudState(CurrentJob(w)) # "running"
  /\ AfterRunJob(w, PolledJob(w), FALSE)
  /\ UNCHANGED <<collectorVars, cancelled, cloudVars>>

\* The worker asks the cloud to stop its job, and takes no for an answer.
StopJob(w) ==
  /\ stopped' = stopped \cup {CurrentJob(w)}
  /\ UNCHANGED <<cloud, abandoned, orphaned>>

\* Mutation: the timed out job is not stopped.
PollTimeout_NoStop(w) ==
  /\ pc[w] = "polling"
  /\ ~cancelled
  /\ AfterRunJob(w, [PolledJob(w) EXCEPT !.passed = FALSE, !.timedOut = TRUE], FALSE)
  /\ UNCHANGED <<collectorVars, cancelled, cloudVars>>

\* PollJob's deathclock rang.  The job may have ended meanwhile.
PollTimeout(w) ==
  /\ pc[w] = "polling"
  /\ ~cancelled
  /\ StopJob(w)
  /\ AfterRunJob(w, [PolledJob(w) EXCEPT !.passed = FALSE, !.timedOut = TRUE], FALSE)
  /\ UNCHANGED <<collectorVars, cancelled>>

\* PollJob's status request failed for good: runJob answers with job.Job{}.
PollFails(w) ==
  /\ pc[w] = "polling"
  /\ ~cancelled
  /\ abandoned' = abandoned \cup {CurrentJob(w)}
  /\ AfterRunJob(w, NoJob, FALSE)
  /\ UNCHANGED <<collectorVars, cancelled, cloud, stopped, orphaned>>

\* Mutation: the interrupted job is not stopped.
PollInterrupted_NoStop(w) ==
  /\ pc[w] = "polling"
  /\ cancelled
  /\ AfterRunJob(w, BareJob, TRUE)
  /\ UNCHANGED <<collectorVars, cancelled, cloudVars>>

\* PollJob returned while the context was cancelled: whatever it answered
\* with, the job is stopped and the suite counts as skipped.
PollInterrupted(w) ==
  /\ pc[w] = "polling"
  /\ cancelled
  /\ StopJob(w)
  /\ \/ AfterRunJob(w, BareJob, TRUE)
     \/ AfterRunJob(w, [PolledJob(w) EXCEPT !.timedOut = TRUE], TRUE)
     \/ /\ CloudState(CurrentJob(w)) # "running"
        /\ AfterRunJob(w, PolledJob(w), TRUE)
  /\ UNCHANGED <<collectorVars, cancelled>>

SendResult(w) ==
  /\ pc[w] = "sending"
  /\ ~returned
  /\ Len(results) < Concurrency
  /\ results' = Append(results, res[w])
  /\ res' = [res EXCEPT ![w] = None]
  /\ pc' = [pc EXCEPT ![w] = "idle"]
  /\ UNCHANGED <<unfed, jobOpts, retrying, opts, skipStart, completed, passed,
                 ledger, returned, cancelled, cloudVars>>

\* Mutation: the retry goroutine sends its options twice.
RetrySend_Twice(o) ==
  /\ o \in retrying
  /\ Len(jobOpts) + 1 < JobOptsCap
  /\ retrying' = retrying \ {o}
  /\ jobOpts' = jobOpts \o <<o, o>>
  /\ UNCHANGED <<unfed, pc, opts, res, skipStart, collectorVars, cancelled, cloudVars>>

\* The last statement of every Retrier: jobOpts <- opt.
RetrySend(o) ==
  /\ o \in retrying
  /\ Len(jobOpts) < JobOptsCap
  /\ retrying' = retrying \ {o}
  /\ jobOpts' = Append(jobOpts, o)
  /\ UNCHANGED <<unfed, pc, opts, res, skipStart, collectorVars, cancelled, cloudVars>>

-----------------------------------------------------------------------------
(* Collector                                                               *)

\* What the reporters learn of a result; of a skipped one, nothing.
Entry(r) ==
  [status |-> IF r.skipped THEN "skipped" ELSE TotalStatus(r.job), attempts |-> r.attempts]

Collect ==
  /\ ~returned
  /\ completed < Expected
  /\ results # <<>>
  /\ LET r == Head(results)
     IN  /\ passed' = (passed /\ ~(Done(r.job.status) /\ ~r.job.passed))
         /\ ledger' = [ledger EXCEPT ![r.suite] = Entry(r)]
  /\ results' = Tail(results)
  /\ completed' = completed + 1
  /\ UNCHANGED <<clientVars, returned, cancelled, cloudVars>>

\* collectResults returns and the deferred close(results) of runSuites runs.
Return ==
  /\ ~returned
  /\ completed = Expected
  /\ returned' = TRUE
  /\ UNCHANGED <<clientVars, results, completed, passed, ledger, cancelled, cloudVars>>

-----------------------------------------------------------------------------
(* Environment                                                             *)

\* The first SIGINT, of the user or of the global timeout.
Interrupt ==
  /\ ~cancelled
  /\ ~returned
  /\ cancelled' = TRUE
  /\ UNCHANGED <<clientVars, collectorVars, cloudVars>>

\* A job ends in the cloud while worker w polls it.  The end of a job nobody
\* polls any more changes nothing for the client and is left out: such a job may
\* run on for ever.
JobEnds(w) ==
  /\ pc[w] = "polling"
  /\ CloudState(CurrentJob(w)) = "running"
  /\ \E outcome \in Outcomes(RealDevice[opts[w].suite]) : SetCloud(CurrentJob(w), outcome)
  /\ UNCHANGED <<clientVars, collectorVars, cancelled, stopped, abandoned, orphaned>>

-----------------------------------------------------------------------------
CloudStates == {"none", "running", StatePassed, StateFailed, StateComplete, StateError}

Init ==
  /\ unfed = Suites
  /\ jobOpts = <<>>
  /\ retrying = {}
  /\ pc = [w \in Workers |-> "idle"]
  /\ opts = [w \in Workers |-> None]
  /\ res = [w \in Workers |-> None]
  /\ skipStart = [w \in Workers |-> FALSE]
  /\ results = <<>>
  /\ completed = 0
  /\ passed = TRUE
  /\ ledger = [s \in Suites |-> [status |-> "open", attempts |-> 0]]
  /\ returned = FALSE
  /\ cancelled = FALSE
  /\ cloud = [s \in Suites |-> [a \in Attempts |-> "none"]]
  /\ stopped = {}
  /\ abandoned = {}
  /\ orphaned = {}

\* The run is over; what is left to the client is to exit.
Finished ==
  /\ returned
  /\ UNCHANGED vars

PollReturns(w) == PollDone(w) \/ PollTimeout(w) \/ PollFails(w) \/ PollInterrupted(w)

StartReturns(w) == StartFails(w) \/ StartAsync(w) \/ StartPolled(w)

Worker(w) ==
  SkipSuite(w) \/ BeginSuite(w) \/ StartReturns(w) \/ PollReturns(w) \/ SendResult(w)

Next ==
  \/ \E s \in Suites : Feed(s)
  \/ \E w \in Workers : Worker(w)
  \/ \E o \in retrying : RetrySend(o)
  \/ Collect
  \/ Return
  \/ Interrupt
  \/ \E w \in Workers : JobEnds(w)
  \/ Finished

\* Every goroutine gets to run, and every request is answered or fails (Session has
\* the runs in which one is not).  The deathclock ends a poll.  The user need not
\* interrupt, and a job need not end by itself.
Fairness ==
  /\ WF_vars(\E s \in Suites : Feed(s))
  /\ \A w \in Workers : WF_vars(Worker(w))
  /\ WF_vars(\E o \in retrying : RetrySend(o))
  /\ WF_vars(Collect)
  /\ WF_vars(Return)

Spec == Init /\ [][Next]_vars

FairSpec == Spec /\ Fairness

-----------------------------------------------------------------------------
(* Properties                                                              *)

PCs == {"idle", "starting", "polling", "sending"}

\* Every variable holds a value of its kind; no options ask for an attempt beyond
\* the last retry.
TypeOK ==
  /\ unfed \subseteq Suites
  /\ jobOpts \in Seq(StartOptions)
  /\ retrying \subseteq StartOptions
  /\ pc \in [Workers -> PCs]
  /\ opts \in [Workers -> StartOptions \cup {None}]
  /\ res \in [Workers -> Results \cup {None}]
  /\ skipStart \in [Workers -> BOOLEAN]
  /\ results \in Seq(Results)
  /\ completed \in Nat
  /\ passed \in BOOLEAN
  /\ ledger \in [Suites -> Entries]
  /\ returned \in BOOLEAN
  /\ cancelled \in BOOLEAN
  /\ cloud \in [Suites -> [Attempts -> CloudStates]]
  /\ stopped \subseteq JobIDs
  /\ abandoned \subseteq JobIDs
  /\ orphaned \subseteq JobIDs

(***************************************************************************)
(* Where the token of a suite can be.                                      *)
(***************************************************************************)
Queued == {jobOpts[i].suite : i \in DOMAIN jobOpts}
Retried == {o.suite : o \in retrying}
Running == {opts[w].suite : w \in {v \in Workers : opts[v] # None}}
Held == {res[w].suite : w \in {v \in Workers : res[v] # None}}
Answered == {results[i].suite : i \in DOMAIN results}
Reported == {s \in Suites : ledger[s].status # "open"}

\* No suite is in two places of the pool.
PlacesDisjoint ==
  /\ unfed \cap (Queued \cup Retried \cup Running \cup Held \cup Answered \cup Reported) = {}
  /\ Queued \cap (Retried \cup Running \cup Held \cup Answered \cup Reported) = {}
  /\ Retried \cap (Running \cup Held \cup Answered \cup Reported) = {}
  /\ Running \cap (Held \cup Answered \cup Reported) = {}
  /\ Held \cap (Answered \cup Reported) = {}
  /\ Answered \cap Reported = {}

\* No place holds a suite twice.
PlacesInjective ==
  /\ \A i, j \in DOMAIN jobOpts : jobOpts[i].suite = jobOpts[j].suite => i = j
  /\ \A o, p \in retrying : o.suite = p.suite => o = p
  /\ \A v, w \in Workers :
       /\ opts[v] # None /\ opts[w] # None /\ opts[v].suite = opts[w].suite => v = w
       /\ res[v] # None /\ res[w] # None /\ res[v].suite = res[w].suite => v = w
  /\ \A i, j \in DOMAIN results : results[i].suite = results[j].suite => i = j

\* Every suite the runner submits has exactly one token in the pool: it is
\* neither dropped nor doubled on its way through the channels, the workers and
\* the retry goroutines, so the collector gets exactly one result for it.
OneTokenPerSuite ==
  /\ PlacesDisjoint
  /\ PlacesInjective
  /\ Suites = unfed \cup Queued \cup Retried \cup Running \cup Held \cup Answered \cup Reported

(***************************************************************************)
(* The rest of the inductive invariant OneTokenPerSuite rests on.          *)
(***************************************************************************)

\* A worker holds options while it starts or polls a job, and a result while it
\* waits to send; the job it polls exists.
WorkerState ==
  \A w \in Workers :
    /\ pc[w] \in {"starting", "polling"} <=> opts[w] # None
    /\ pc[w] = "sending" <=> res[w] # None
    /\ pc[w] = "polling" => CloudState(CurrentJob(w)) # "none"

\* The collector's counter and verdict agree with what it told the reporters.
Tally ==
  /\ completed = Cardinality(Reported)
  /\ completed <= Expected
  /\ returned => completed = Expected
  /\ passed => \A s \in Suites : ledger[s].status # StateFailed

PoolInv == TypeOK /\ OneTokenPerSuite /\ WorkerState /\ Tally

\* When runSuites closes the results channel nobody is left who could send on
\* it: no worker, retry goroutine or feeder still holds a suite.
QuietAfterReturn ==
  returned /\ Expected = Cardinality(Suites) =>
    /\ unfed = {} /\ retrying = {}
    /\ jobOpts = <<>> /\ results = <<>>
    /\ \A w \in Workers : pc[w] = "idle"

Live(s, a) ==
  cloud[s][a] = "running" /\ <<s, a>> \notin stopped \cup abandoned \cup orphaned

\* A job that runs in the cloud, and that the client has neither stopped nor
\* lost sight of, is being polled by a worker; without --async there is no other.
LiveJobsWatched ==
  ~Async => \A s \in Suites, a \in Attempts :
              Live(s, a) => \E w \in Workers : pc[w] = "polling" /\ CurrentJob(w) = <<s, a>>

\* Two attempts of one suite do not run at the same time, unless the first was
\* stopped or lost.
AttemptsDoNotOverlap ==
  ~Async => \A s \in Suites : \A a, b \in Attempts : Live(s, a) /\ Live(s, b) => a = b

\* The attempts from a on of suite s have no job yet.
Unstarted(s, a) == \A b \in Attempts : b >= a => cloud[s][b] = "none"

\* No attempt is started twice: the attempts a suite in flight still has ahead of
\* it have no job in the cloud, wherever its token is.
AttemptsAreFresh ==
  /\ \A s \in unfed : Unstarted(s, 0)
  /\ \A i \in DOMAIN jobOpts : Unstarted(jobOpts[i].suite, jobOpts[i].attempt)
  /\ \A o \in retrying : Unstarted(o.suite, o.attempt)
  /\ \A w \in Workers :
       /\ pc[w] = "starting" => Unstarted(opts[w].suite, opts[w].attempt)
       /\ pc[w] = "polling" => Unstarted(opts[w].suite, opts[w].attempt + 1)

Successes(s, As) == {a \in As : Successful(RealDevice[s], cloud[s][a])}

\* A passing verdict of an undisturbed run is earned: every suite has
\* PassThreshold jobs the cloud ended successfully.
PassIsEarned ==
  returned /\ passed /\ ~cancelled /\ ~Async /\ ~FailFast /\ Expected = Cardinality(Suites) =>
    \A s \in Suites : Cardinality(Successes(s, Attempts)) >= PassThreshold[s]

\* A suite is reported as failed only after all its retries are used up.
FailureAfterAllAttempts ==
  ~Async => \A s \in Suites :
              ledger[s].status = StateFailed => ledger[s].attempts = Retries + 1

\* No attempt is started for a suite that has already met its threshold with
\* jobs the client saw to their end.
NoNeedlessAttempt ==
  \A s \in Suites, a \in Attempts :
    cloud[s][a] # "none" /\ PassThreshold[s] > 0 =>
      Cardinality({b \in Successes(s, 0..(a - 1)) :
                     <<s, b>> \notin stopped \cup abandoned \cup orphaned}) < PassThreshold[s]

\* Suites are skipped only by an interrupt or, under --fail-fast, because the
\* run has failed.
SkipIsJustified ==
  returned /\ ~cancelled /\ (\E s \in Suites : ledger[s].status = "skipped") =>
    FailFast /\ ~passed

Started(s) == {a \in Attempts : cloud[s][a] # "none"}

\* The pool carries out what SuiteRun promises: no job is started for a suite
\* that was reported, every suite is reported exactly once and before the
\* verdict, and a passing verdict rules out a suite reported as failed.
Run == INSTANCE SuiteRun WITH
  started <- [s \in Suites |-> Started(s)],
  entry <- [s \in Suites |-> ledger[s].status],
  verdict <- IF ~returned THEN "pending" ELSE IF passed THEN "pass" ELSE "fail",
  Statuses <- States \cup {"skipped"}

ImplementsSuiteRun == Run!Spec

(***************************************************************************)
(* What the schema says of a run.  The code does not keep to it.           *)
(***************************************************************************)

\* passThreshold is "the minimum number of successful attempts for a suite to be
\* considered as passed": a suite reported as passed has a successful job.
PassNeedsSuccess ==
  \A s \in Suites : ledger[s].status = StatePassed => Successes(s, Attempts) # {}

\* The run ends: collectResults gets all the results it waits for.
RunReturns == <>returned
=============================================================================
