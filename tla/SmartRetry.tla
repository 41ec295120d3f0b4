----------------------------- MODULE SmartRetry -----------------------------
(***************************************************************************)
(* internal/saucecloud/retry: what the retriers do to the test filter of a *)
(* suite whose smartRetry says failedOnly.  Before a suite goes back to    *)
(* the pool its retrier fetches the report of the previous attempt and     *)
(* narrows the filter to the tests that failed in it.  Where the filter is *)
(* kept depends on the framework, and some of those places are shared      *)
(* between suites, while every suite has a retry goroutine of its own.     *)
(*                                                                         *)
(* Taken as given: a job runs the tests its filter matches, and the report *)
(* of a job that came to its end names every test that failed; a job       *)
(* stopped at its timeout leaves no report.  The pool (CloudRunner) is     *)
(* reduced to "queued suites start in any order"; interrupts are left out. *)
(* The Go runtime may end the process when it notices a map being written  *)
(* while it is read; such a run is cut short and breaks nothing below.     *)
(***************************************************************************)
EXTENDS Integers, FiniteSets

CONSTANTS
  Suites,         \* one element per StartOptions
  Tests,
  Bundle,         \* suite -> the tests it runs without a filter
  Cells,          \* the places a filter is kept in
  CellOf,         \* suite -> the cell it reads and its retrier writes
  UserFilter,     \* cell -> the tests the configuration asks for
  Retries,        \* sauce.retries
  PassThreshold,  \* suite -> passThreshold
  Mechanisms      \* the ways to keep a filter that are considered

(***************************************************************************)
(* "class option": TestOptions["class"], espresso and virtual-device       *)
(*     xcuitest; all devices of an espresso suite share one map.           *)
(* "tests to run": TestsToRun, xcuitest on real devices.                   *)
(* "runner config": the suite's entry in the project that is archived as   *)
(*     sauce-runner.json; playwright, testcafe, cucumber and cypress.  The *)
(*     shards of a cypress suite share one Config.Env map.                 *)
(***************************************************************************)
AllMechanisms == {"class option", "tests to run", "runner config"}

ASSUME SmartRetryAssumption ==
  /\ Bundle \in [Suites -> SUBSET Tests]
  /\ CellOf \in [Suites -> Cells]
  /\ UserFilter \in [Cells -> SUBSET Tests]
  /\ Retries \in Nat
  /\ PassThreshold \in [Suites -> Nat \ {0}]
  /\ Mechanisms \subseteq AllMechanisms

VARIABLES
  mechanism,    \* of the framework this run is about
  pc,           \* suite -> where its options are
  attempt,      \* suite -> Attempt of its options
  passCount,    \* suite -> CurrentPassCount of its options
  ran,          \* suite -> the tests its latest job ran
  failed,       \* suite -> those of them that failed
  outcome,      \* suite -> how its latest job ended
  passedTests,  \* suite -> tests that passed in some attempt
  filter,       \* cell -> the tests its filter matches; Tests: no filter
  snapshot,     \* suite -> the runner config its retrier has archived
  runnerConfig  \* the runner config OtherApps[0] refers to

vars == <<mechanism, pc, attempt, passCount, ran, failed, outcome, passedTests,
          filter, snapshot, runnerConfig>>

Filters == [Cells -> SUBSET Tests]

\* The tests the configuration selects for a suite.
Selected(s) == UserFilter[CellOf[s]] \cap Bundle[s]

\* No two suites keep their filter in the same place.
Unshared == \A s, t \in Suites : CellOf[s] = CellOf[t] => s = t

Init ==
  /\ mechanism \in Mechanisms
  /\ pc = [s \in Suites |-> "queued"]
  /\ attempt = [s \in Suites |-> 0]
  /\ passCount = [s \in Suites |-> 0]
  /\ ran = [s \in Suites |-> {}]
  /\ failed = [s \in Suites |-> {}]
  /\ outcome = [s \in Suites |-> "none"]
  /\ passedTests = [s \in Suites |-> {}]
  /\ filter = UserFilter
  /\ snapshot = [s \in Suites |-> UserFilter]
  /\ runnerConfig = UserFilter

-----------------------------------------------------------------------------
(* A job                                                                   *)

\* The filter that reaches the cloud: the start request is built from the
\* options at the moment the job starts.
FilterAtStart(s) ==
  IF mechanism = "runner config" THEN runnerConfig[CellOf[s]] ELSE filter[CellOf[s]]

Start(s) ==
  /\ pc[s] = "queued"
  /\ ran' = [ran EXCEPT ![s] = FilterAtStart(s) \cap Bundle[s]]
  /\ pc' = [pc EXCEPT ![s] = "running"]
  /\ UNCHANGED <<mechanism, attempt, passCount, failed, outcome, passedTests,
                 filter, snapshot, runnerConfig>>

\* Mutation: one attempt too many.
Continue_OffByOne(s, result, passes) ==
  LET more == /\ attempt[s] <= Retries
              /\ result # "passed" \/ passes < PassThreshold[s]
  IN  /\ pc' = [pc EXCEPT ![s] = IF more THEN "retrying"
                                 ELSE IF passes >= PassThreshold[s] THEN "passed" ELSE "failed"]
      /\ attempt' = [attempt EXCEPT ![s] = IF more THEN @ + 1 ELSE @]

\* runJobs after runJob: one more attempt, or the verdict.
Continue(s, result, passes) ==
  LET more == /\ attempt[s] < Retries
              /\ result # "passed" \/ passes < PassThreshold[s]
  IN  /\ pc' = [pc EXCEPT ![s] = IF more THEN "retrying"
                                 ELSE IF passes >= PassThreshold[s] THEN "passed" ELSE "failed"]
      /\ attempt' = [attempt EXCEPT ![s] = IF more THEN @ + 1 ELSE @]

\* The tests in F fail, the others pass.  A job can fail without a failed test.
End(s, F, result) ==
  LET passes == passCount[s] + (IF result = "passed" THEN 1 ELSE 0)
  IN  /\ pc[s] = "running"
      /\ result = "passed" => F = {}
      /\ failed' = [failed EXCEPT ![s] = F]
      /\ outcome' = [outcome EXCEPT ![s] = result]
      /\ passedTests' = [passedTests EXCEPT ![s] = @ \cup (ran[s] \ F)]
      /\ passCount' = [passCount EXCEPT ![s] = passes]
      /\ Continue(s, result, passes)
      /\ UNCHANGED <<mechanism, ran, filter, snapshot, runnerConfig>>

\* The job ends in StateError, or could not be started: nothing is known of its
\* tests, and a report would name just some F of those that failed.
EndInError(s, F) ==
  /\ pc[s] = "running"
  /\ failed' = [failed EXCEPT ![s] = F]
  /\ outcome' = [outcome EXCEPT ![s] = "error"]
  /\ Continue(s, "error", passCount[s])
  /\ UNCHANGED <<mechanism, passCount, ran, passedTests, filter, snapshot, runnerConfig>>

-----------------------------------------------------------------------------
(* Retriers                                                                *)

\* The options go back to the pool as they are: the previous job has no reliable
\* report, or the report could not be had.
RetryWhole(s) ==
  /\ pc[s] = "retrying"
  /\ pc' = [pc EXCEPT ![s] = "queued"]
  /\ UNCHANGED <<mechanism, attempt, passCount, ran, failed, outcome, passedTests,
                 filter, snapshot, runnerConfig>>

\* Mutation: the guard on an empty list of failed tests is missing.
NarrowedTo_Unguarded(s, F) == IF F = {} THEN Tests ELSE F

\* What the cell of s holds once its retrier has written the failed tests F.  An
\* empty TestsToRun is no filter; the other places are only written when there
\* is something to write.
NarrowedTo(s, F) ==
  IF F # {} THEN F
  ELSE IF mechanism = "tests to run" THEN Tests ELSE filter[CellOf[s]]

\* Mutation: the report of a job in StateError is trusted.
Reliable_Always(s) == TRUE

Reliable(s) == outcome[s] # "error"

\* JunitRetrier.
RetryClasses(s) ==
  /\ pc[s] = "retrying"
  /\ mechanism # "runner config"
  /\ Reliable(s)
  /\ filter' = [filter EXCEPT ![CellOf[s]] = NarrowedTo(s, failed[s])]
  /\ pc' = [pc EXCEPT ![s] = "queued"]
  /\ UNCHANGED <<mechanism, attempt, passCount, ran, failed, outcome, passedTests,
                 snapshot, runnerConfig>>

\* Mutation: the failed tests become the filter of every suite.
FilterFailedTests_AnySuite(s) ==
  /\ pc[s] = "retrying"
  /\ mechanism = "runner config"
  /\ Reliable(s)
  /\ filter' = [c \in Cells |-> NarrowedTo(s, failed[s])]
  /\ pc' = [pc EXCEPT ![s] = "filtered"]
  /\ UNCHANGED <<mechanism, attempt, passCount, ran, failed, outcome, passedTests,
                 snapshot, runnerConfig>>

\* SauceReportRetrier: the project's suite is narrowed in place, ...
FilterFailedTests(s) ==
  /\ pc[s] = "retrying"
  /\ mechanism = "runner config"
  /\ Reliable(s)
  /\ filter' = [filter EXCEPT ![CellOf[s]] = NarrowedTo(s, failed[s])]
  /\ pc' = [pc EXCEPT ![s] = "filtered"]
  /\ UNCHANGED <<mechanism, attempt, passCount, ran, failed, outcome, passedTests,
                 snapshot, runnerConfig>>

\* ... the whole project is archived as it is at that moment, ...
ArchiveRunnerConfig(s) ==
  /\ pc[s] = "filtered"
  /\ snapshot' = [snapshot EXCEPT ![s] = filter]
  /\ pc' = [pc EXCEPT ![s] = "archived"]
  /\ UNCHANGED <<mechanism, attempt, passCount, ran, failed, outcome, passedTests,
                 filter, runnerConfig>>

\* ... uploaded, and put into the slice of apps that all suites share.
UploadConfig(s) ==
  /\ pc[s] = "archived"
  /\ runnerConfig' = snapshot[s]
  /\ pc' = [pc EXCEPT ![s] = "queued"]
  /\ UNCHANGED <<mechanism, attempt, passCount, ran, failed, outcome, passedTests,
                 filter, snapshot>>

\* Archiving or uploading fails: the suite is retried with the config at hand.
ConfigFails(s) ==
  /\ pc[s] \in {"filtered", "archived"}
  /\ pc' = [pc EXCEPT ![s] = "queued"]
  /\ UNCHANGED <<mechanism, attempt, passCount, ran, failed, outcome, passedTests,
                 filter, snapshot, runnerConfig>>

Retry(s) ==
  \/ RetryWhole(s)
  \/ RetryClasses(s)
  \/ FilterFailedTests(s)
  \/ ArchiveRunnerConfig(s)
  \/ UploadConfig(s)
  \/ ConfigFails(s)

Ends(s) ==
  \E F \in SUBSET ran[s] :
    \/ \E result \in {"passed", "failed"} : End(s, F, result)
    \/ EndInError(s, F)

\* Every suite has its verdict.
AllReported ==
  /\ \A s \in Suites : pc[s] \in {"passed", "failed"}
  /\ UNCHANGED vars

Next ==
  \/ \E s \in Suites : Start(s) \/ Ends(s) \/ Retry(s)
  \/ AllReported

Spec == Init /\ [][Next]_vars

-----------------------------------------------------------------------------
(* Properties                                                              *)

TypeOK ==
  /\ mechanism \in AllMechanisms
  /\ pc \in [Suites -> {"queued", "running", "retrying", "filtered", "archived",
                        "passed", "failed"}]
  /\ attempt \in [Suites -> 0..Retries]
  /\ passCount \in [Suites -> Nat]
  /\ ran \in [Suites -> SUBSET Tests]
  /\ failed \in [Suites -> SUBSET Tests]
  /\ outcome \in [Suites -> {"none", "passed", "failed", "error"}]
  /\ passedTests \in [Suites -> SUBSET Tests]
  /\ filter \in Filters
  /\ snapshot \in [Suites -> Filters]
  /\ runnerConfig \in Filters

\* The selected tests of s no attempt has passed yet.
Unpassed(s) == Selected(s) \ passedTests[s]

(***************************************************************************)
(* The inductive invariant behind the properties, for suites that share no *)
(* cell: whatever filter the next job of s may be started with, now or     *)
(* after another suite's retrier has put its config in place, matches the  *)
(* tests of s that still have to pass.                                     *)
(***************************************************************************)
GoodFilter(s, f) ==
  /\ Unpassed(s) \subseteq f
  /\ attempt[s] = 0 => f = UserFilter[CellOf[s]]
  /\ mechanism # "tests to run" => f \cap Bundle[s] \subseteq Selected(s)

GoodRun(s) ==
  pc[s] = "running" =>
    /\ Unpassed(s) \subseteq ran[s]
    /\ attempt[s] = 0 => ran[s] = Selected(s)
    /\ mechanism # "tests to run" => ran[s] \subseteq Selected(s)

GoodReport(s) ==
  pc[s] = "retrying" =>
    /\ attempt[s] > 0
    /\ outcome[s] # "error" => Unpassed(s) \subseteq failed[s]
    /\ mechanism # "tests to run" => failed[s] \subseteq Selected(s)

GoodCount(s) ==
  /\ passCount[s] > 0 => Unpassed(s) = {}
  /\ pc[s] = "passed" => passCount[s] > 0

FilterInv ==
  /\ TypeOK
  /\ \A s \in Suites :
       /\ GoodFilter(s, filter[CellOf[s]])
       /\ GoodFilter(s, runnerConfig[CellOf[s]])
       /\ \A t \in Suites : GoodFilter(s, snapshot[t][CellOf[s]])
       /\ GoodRun(s)
       /\ GoodReport(s)
       /\ GoodCount(s)

\* A retry never leaves out a test that still has to pass, even when another
\* suite's retrier puts an older runner config in place.
AttemptsCoverUnpassed == \A s \in Suites : pc[s] = "running" => Unpassed(s) \subseteq ran[s]

\* A suite that is reported as passed has seen every test it selects pass: the
\* narrowed retries add up to the whole suite.
PassIsComplete == \A s \in Suites : pc[s] = "passed" => Unpassed(s) = {}

\* The first attempt of a suite runs what the configuration selects, whatever
\* the retriers of other suites have done before it starts.
FirstAttemptIsWhole ==
  \A s \in Suites : pc[s] = "running" /\ attempt[s] = 0 => ran[s] = Selected(s)

\* A retry runs no test the configuration does not select.  Xcuitest on real
\* devices is excepted: there, against the comment of junitretrier.go:82-84, a
\* failure without a failed test empties TestsToRun and with it the class filter.
StaysSelected ==
  mechanism # "tests to run" =>
    \A s \in Suites : pc[s] = "running" => ran[s] \subseteq Selected(s)
=============================================================================
