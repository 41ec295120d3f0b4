# Verification of saucectl

saucectl reads a project configuration, turns it into suites, ships the project
to Sauce Labs, runs one or more jobs per suite in the device clouds and reports
how they went. This directory holds TLA+ models of the parts where goroutines,
retries, timeouts and a remote service meet, the TLC runs that check them on
small instances, and TLAPS proofs of what matters most for every instance.

Paths below are relative to `src/`; `cloud.go` is `internal/saucecloud/cloud.go`.

## 1. Inventory

### How a run goes

`saucectl run` (internal/cmd/run/run.go) loads the configuration, applies flags
and defaults, validates, filters and shards the suites, and hands the project to
the *runner* of its framework (internal/saucecloud/*.go, internal/apitest). The
runner checks the tunnel, archives and uploads the project, and calls
`runSuites`. For all frameworks but API tests this is the *worker pool* of
cloud.go. Its results go to the reporters and decide the exit code.

    feeder --+                            +--> Retrier goroutine --+
             v                            |                        |
          jobOpts (cap retries+1) --> worker x concurrency         |
             ^                            |   StartJob/PollJob/    |
             +----------------------------|---StopJob              |
                                          v                        |
                      results (cap concurrency) --> collectResults |
             ^                                                     |
             +-----------------------------------------------------+

### Components

| Component | State it keeps | Operations | What is hard | What makes it correct |
|---|---|---|---|---|
| Worker pool and collector (cloud.go) | two channels, the options of every worker, counters, the verdict | feed, take, start, poll, stop, judge, requeue, send, collect, close | feeder, workers, retry goroutines and collector block on each other's channels; the interrupt comes at any point; start and poll can fail or lose an answer | every suite answered exactly once; no send on a closed channel; no live job unwatched; retries and verdict as the threshold demands; the run ends |
| Job model (internal/job) | a job record | `Done`, `IsSuccessful`, `TotalStatus` | two clouds with different vocabularies | one meaning of success everywhere |
| Job service (jobservice.go, internal/http/resto.go, rdcservice.go, webdriver.go) | none; jobs live in the cloud | start, poll, stop, parse, artifacts | timeouts, lost answers, 404s | a job the client gives up is stopped |
| Retriers (internal/saucecloud/retry) | filters kept in maps, in suites, in an uploaded config | narrow the next attempt to failed tests | one goroutine per suite writes places that suites share; incomplete reports | retries lose no test and run none that was not asked for |
| API test runner (internal/apitest) | one goroutine per event, a package variable, counters | start, poll, collect | counting before the results exist; deadline against last tick | nothing unread, no false pass, table and exit code agree, the run ends |
| Framework configurations (internal/*/config.go) | suites | flags, defaults, validation, filtering, sharding, `FilterFailedTests` | eight frameworks merge, check and shard by hand; shards are copies that share maps | sharding loses no test; what is sent can pass; the command line wins |
| Framework runners (internal/saucecloud/espresso.go ...) | the project | RunProject, versions and platforms, runSuites | clean-up on every path; the number of jobs depends on browsers, devices and shards; exit code | expected results = submitted jobs; the versions sent belong together |
| Archiving and uploads (archive.go, cloud.go:422-809, zip/archive.go, internal/node) | archive and upload caches, a temporary directory, the storage of all runs | archive, hash, look up by checksum or tag, upload | caches keyed by path; a tag that does not see every change; a nested tree of packages; a request sent twice | every job gets the apps it names and node_modules with all it needs |
| Session (cmd/saucectl, internal/cmd/run, internal/tunnel) | context, timers | first and second signal, global timeout, tunnel wait, exit code | signal against timeout against clean-up | jobs are stopped, exit code tells the outcome |
| Sharding and launch order (internal/concurrency, internal/insights) | none | BinPack, SortByHistory | suites that share a name | a permutation or partition of the input |
| Framework and Node.js versions (internal/framework, internal/runtime) | none | search by name, by package.json, by alias or part of a version | lists in any order, removed releases | the newest that was asked for and is offered |
| Reporters (internal/report), JUnit and Insights (cloud.go:640-700, 1017-1084) | the results so far | Add, Render, fetch, merge, post | each computes "failed" by its own rule; reports of several attempts from two sources | they agree with each other and the exit code; a test has its last result |
| Artifact download (jobservice.go:27-63,134-139) | folders on disk | when, which, where to | workers and unawaited goroutines look for a free folder at one time | the JUnit report read back is the last attempt's |
| HTTP plumbing, other services, initializer, resource commands, credentials, source search, telemetry | none of interest | one request, one file, one prompt | - | - |

`PROJECT.json` lists all of them with their status, and under "hazards" the
places where the code can go wrong in a way a test hardly reaches.

## 2. Plan

The order is by how much of the program's promise hangs on the part.

1. **Job, CloudRunner** (done): the pool, whole handlers, with the cloud.
   Abstract specification **SuiteRun**: jobs only for open suites, one report per
   suite, a verdict last. Proofs: types, exactly one token per suite, quiet
   channels at close, watched jobs, fresh attempts, refinement.
2. **SmartRetry** (done): the filters of failed-only retries. Proofs: nothing
   that must still pass is left out, passes are complete.
3. **ApiTest** (done): the runner that has no pool. Proofs: its counting and its
   verdict.
4. **Session** (done): the stages of a run around the pool, first and second
   signal, global timeout (run.go:232-256), tunnel wait (resto.go:259-324), dry
   run, reports and exit code. Proofs: no job left behind, hard exits only when
   asked for, the exit code, the reports, the dry run.
5. **Plan, Versions** (done): from a configuration to the jobs in the pool, for the
   eight frameworks: flags, defaults, validation, sharding, launch order, devices,
   and the versions the web runners look up. Checked against reference definitions
   (what the suites would run unsharded) over small families of projects.
6. **Upload** (done): archives, caches, the storage and node_modules, over several
   runs of saucectl.
7. **Reports** (done): artifacts, JUnit reports, Insights and the reporters.
8. **Verdicts of the pool** (done, in CloudRunnerProofs): what a failure, a pass, an
   attempt and a skip rest on.
9. **SequenceLemmas, UploadProofs, ReportsProofs** (done): induction over sequences
   in a form the prover can use, and with it the invariants of uploads and reports
   for every project.
10. **PlanProofs** (done): the four properties of Plan for every project, with lemmas
    about BinPack, the shards of each framework, launch orders and the search for
    versions.

Every safety property a run checks is now a theorem. What could come next: SmartRetry's
and Upload's assumptions about reports and trees of packages derived from models of
their own, and the loading of API tests.

## 3. Modules and the code

| Module | Models | Extends |
|---|---|---|
| `Job` | internal/job/job.go and the parsers of resto.go and rdcservice.go | |
| `CloudRunner` | cloud.go: createWorkerPool, runJobs, runJob, collectResults; the feeder of runSuites; BasicRetrier | `Job` |
| `SuiteRun` | the promise of a run, instantiated by `CloudRunner` as `Run` | |
| `CloudRunnerProofs` | type, token, close and job theorems, the refinement, failures, passes, attempts and skips | `CloudRunner` |
| `SmartRetry`, `SmartRetryProofs` | internal/saucecloud/retry, FilterFailedTests, ArchiveRunnerConfig | |
| `ApiTest`, `ApiTestProofs` | internal/apitest/runner.go, the client in internal/http/apitester.go | |
| `Session`, `SessionProofs` | cmd/saucectl/saucectl.go, internal/cmd/run, RunProject of the frameworks, internal/tunnel | |
| `Versions` | internal/framework/search.go, internal/runtime, setVersions, validateFramework and setNodeRuntime of the web runners | |
| `Plan`, `PlanProofs` | internal/cmd/run/*.go, the frameworks' config.go, internal/concurrency, suite histories, what runSuites submits | `Versions` |
| `Upload`, `UploadProofs` | RunProject's uploads, cloud.go:422-809, internal/saucecloud/zip, internal/node, internal/http/appstore.go | |
| `Reports`, `ReportsProofs` | jobservice.go, FetchJUnitReports, reportInsights, internal/report, internal/junit | `Job` |
| `SequenceLemmas` | no code: numbers, sequences, concatenation and `FlattenSeq` | |
| `MC...` (seven) | instances for TLC | |

Definitions whose comment begins with "Mutation:" are the changes of the code
that the properties are tried against; no specification uses them.

### CloudRunner

| Variable | Code |
|---|---|
| `unfed` | the loop of the feeder goroutine in `runSuites` |
| `jobOpts`, `results` | the two buffered channels with their capacities |
| `retrying` | the goroutines `go r.Retrier.Retry(...)` |
| `pc`, `opts`, `res`, `skipStart` | a worker in `runJobs`: its place, `opts`, the result it sends, the local flag |
| `completed`, `passed`, `ledger` | `collectResults`: counter, verdict, what `Reporter.Add` was told |
| `cancelled` | `ctx` |
| `cloud`, `stopped`, `abandoned`, `orphaned` | the device clouds, and three ways a client leaves a job |

An action is what a goroutine does between two points where it can block.
`AfterRunJob` is all of `runJobs` behind the call of `runJob`: the pass count, the
retry decision, the verdict of the threshold and the fail-fast flag in one step,
since nothing of it is shared. Judging overwrites the job's status, as the code
does. A start request may reach the cloud although its answer is lost
(`StartFails`); an interrupt can arrive between any two steps; a poll can end by
a done job, the suite's timeout, a failed request or the interrupt, and after
an interrupt the answer may be any of these (`PollInterrupted`).

`Expected` is what `runSuites` tells the collector to wait for. It is a constant
of its own because the code counts configured suites and not submitted ones.

### SmartRetry

A filter is the set of tests it matches. `filter` is where the framework keeps
it: a cell per suite, or one for several. `CellOf` says which; `Unshared` says
that no two suites have one in common. The three mechanisms are the class option
(espresso, xcuitest on virtual devices), `TestsToRun` (xcuitest on real
devices), and the runner config, which is narrowed, archived and uploaded in
three steps that the goroutines of other suites can come between. The pool is
reduced to "queued suites start in any order". Taken as given: the report of a
job that ended names every failed test; a job in StateError may name only some; a
stopped job leaves no report.

### ApiTest

One main goroutine (`phase`, `waiting`, `suite`, `todo`, `expected`), one
goroutine per event (`poller`, with its ticker and its deadline), the service
(`service`, `endedAt`), the collector (`collected`, `passed`). Polling of local
events starts when the suite's tests are all sent, of remote ones at once, as in
the code; and a goroutine reads the package variable `pollWaitTime` when it
starts, which may be after the main goroutine gave it the next suite's timeout.
Time moves in units and stands still while a timer of a poller is due: answers
are quick compared to the poll interval. Taken as given: one event per local
test, as many tests as events in the answer to a remote request.

### Session

One process. `todo` holds the stages the main goroutine has before it; the four lists of
stages are the four orders in which the frameworks' RunProject works (archive and upload
alternate per suite in the code and are one stage each here). `code` is what it will
pass to os.Exit, `exit` what the process ended with, `hard` tells that another goroutine
ended it. `signals`, `pending` and `presses` are the handler of newContext with its
channel of capacity one; `timer` holds the global timeout, the ten seconds of the soft
shutdown and the deadline of the tunnel check. `suite` and `job` are what is left of the
pool: any suites are worked on at once, with one attempt each, since CloudRunner has the
rest. A job whose end the client still sees after an interrupt counts with its outcome,
one that it does not is skipped (`PollInterrupted`). `run` fixes what differs between
runs: flags, Windows (where a process cannot interrupt itself), and `answered`: Resto's
client is created without a timeout, so its requests - tunnel check, polling, StopJob of
virtual devices - may never return.

### Plan and Versions

One project goes through the stages of runX and RunProject: `stage` is "read",
"flags", "defaults", "validated", "sharded", then for web frameworks
"versioned" and "runnable", "ordered", "submitted", or "rejected" at any check.
`given` is the project as it was read and never changes; `project` is what each
stage makes of it; `jobs` is what runSuites hands to the pool and `expected`
what it tells the collector to wait for. Each stage is one action, and what it
does differs by framework: `CypressDefaults`, `XcuitestIsValid`,
`TestcafeShards`, ... follow the config.go of that name line by line, also where
the frameworks differ by accident.

A pattern is the set of files it matches, in the order of `Walk`; a test belongs to a
file; a suite of any framework is one record, of which each framework reads its own
fields. What a job runs (`Runs`) is external: a tool runs the tests of the job's files
that pass its filters. What saucectl turns from a path or a name into a pattern need not
match itself, so three constants say what it matches: `AsRegex` for paths that
playwright reads as regular expressions (`[id].spec.ts`), `AsGlob` for those the other
frameworks read as globs, `NameRegex` for a scenario's name between `^` and `$`
(`Add (two)`). `EveryTestRuns` asks for the tests that match themselves where a shard makes
such a pattern of them (`MatchesItself`). A path that is no valid pattern at all matches
nothing here, while FindFiles (internal/fpath/file.go) ends the run. A cucumber suite's
own `options.name` is not read (`only` is `NoFilter` before sharding). `Versions` has
the two search strategies with what is offered, and Node.js runtimes by alias or by part
of a version. A loop that keeps the elements that pass a test is `Where`, and the sort
of the releases is `Sorted`, which says what a sorted list is; the recursive operators
of the standard modules that do the same are closed to the prover.

### Upload

`todo` is the list of uploads RunProject makes for a project, in order; `pc` and
`file` tell where the current one stands. `archives` and `uploads` are the two
caches of archive.go and of the runners, `temp` the temporary directory (path ->
content), `got` the URIs the jobs are started with, `storage` the application
storage: it outlives the run, and `Start` begins another run on any project, so
each of the 484 ordered pairs of projects is tried, an edited one after its
older version. A request to the storage can fail, or store the file and lose the
answer and be sent again (`SendAgain`), or find the file by its checksum
(`FoundStored`) or node_modules by tag (`FoundTagged`). A relative path that
cannot be made absolute is answered with no URI and no error (`AbsFails`). The name of an
archive is that of its app without `.app`, and with any other extension (`Stem`). The
packages that go into a node_modules archive are computed as node/package.go does
(`Requirements`), and compared with Node's own lookup (`Needed`). Of a project
`unreadable` are the packages whose package.json cannot be read or decoded, and
`hidden` the places inside a package that os.Stat fails on: the code logs both, leaves
the package out and goes on, and so do both computations, which therefore say nothing
of what is needed through such a package alone.

### Reports

An attempt simply ends (`EndedAttempts`), with any outcome and test results the cloud
may give; in a job that passed no test failed. A retry runs any of the suite's tests
(`NextTests`). What a report says of a test is one of five verdicts: passed, skipped,
and a failure told by a `<failure>` element, by an `<error>` element or by the status
attribute alone; `says` are those a framework's runner uses. `saves` are the downloads
under way: one of the worker, which waits for it, and those of earlier attempts, which
nobody waits for. A download looks for a free folder (`Look`) and makes and fills it
later (`Fetch`), so two can find the same one; `disk` is what the folders hold. It may
get no folder at all (`LookFails`), and never does where a folder `<name>.<no number>`
stands beside the suite's own (`Misnamed`). Reports are merged by name: `Element` is the
`<testsuite>` a test is reported in, `CaseName` its ClassName.Name, and of tests that
share both the code keeps one (`AddTestCases`). Elements of one name within one report
are taken as one. `Collect` is the collector's whole turn for one result: verdict, JUnit
reports of all attempts, entry for the reporters, posting to Insights. `Render` is all
reporters at once.

## 4. Runs

| Run | Instance | What it shows |
|---|---|---|
| pool_safety | 2 suites (one real device, one with threshold 2), 2 workers, 1 retry | types; one token per suite; quiet channels at close; live jobs are watched; attempts neither overlap nor repeat; a pass is earned, a failure has used all its attempts, no attempt is needless |
| pool_returns | 2 suites, 1 worker, 1 retry, fair | the run ends whatever fails or times out, interrupted or not; refinement of SuiteRun |
| pool_failfast | 3 virtual-device suites, 2 workers, no retry | suites are skipped only in a run that fails |
| pool_async | 3 suites on both clouds, 2 workers, jobOpts of capacity 1, fair | the run ends although the feeder blocks |
| pool_threshold_unset | 1 suite with threshold 0, 1 retry | violated: see findings |
| retry_filters | 2 suites with filters of their own, 3 tests, 2 retries, all mechanisms | retries cover what has not passed; a pass is complete; first attempts are whole; nothing unselected runs |
| retry_shared_map | 2 suites, 2 tests, 1 retry | violated: see findings |
| api_test | a local suite with a timeout of its own, a remote suite with two events, with and without --async, fair | nothing unread; no false pass; table and exit code agree; an event that ends in time is seen; the run ends |
| plan | 9,788 projects of the eight frameworks: files and tests whose paths and names match themselves, others or neither, up to three suites, every kind of shard, filter, browser, device, flag, threshold, environment, history and version | no test is lost by sharding; as many results are expected as jobs are submitted; what is submitted can pass and has versions that fit; the command line's variables win |
| upload | 22 projects (6 native or replay, 16 web; one with an unreadable package, one with a hidden one), 3 trees of packages, 2 runs, up to 7 stored files | jobs get the apps they name; node_modules are complete |
| reports | 7 projects: retries with tests of one name, a threshold of two, a replay with threshold 0, every verdict, two suites that share a folder, --async, downloads on failure only | summaries tell the verdict; tests have their last result |
| session | 2 suites; every framework's stages, with and without --dry-run, --async, --timeout, Windows, answers; 2 presses of Ctrl-C | a soft shutdown leaves no job; hard exits are asked for; exit code and reports agree with the outcome; a dry run does nothing; the run ends, after an interrupt too |

Why the bounds are enough. Two workers and two suites give every race between two
workers, a worker and a retry goroutine, and the feeder; the third suite makes the
feeder wait behind a full channel of capacity one. One retry makes a suite go once round
the pool, and with a threshold of two makes "enough attempts" and "enough successes"
differ. Two retries in SmartRetry allow a narrowed attempt to be narrowed again, with an
unreliable report between; three tests tell a lost test from a failed and a passed one.
In ApiTest a deadline of three units holds more than one tick of either interval, and
the two intervals differ. Workers are interchangeable and are a symmetry set in
pool_safety, which has no temporal property. In Session every timer is one unit long, so
that any two can be due together and either can come first; two presses and the global
timeout's own interrupt make up to three signals, one more than the handler tells apart.
In Plan a file listed twice, a path that matches another file as a regexp, a path and a
name that do not match themselves, an ignored file and a test name that two files share
are where sharding by file, spec, test and number differ; one bucket fewer and one more
than there are files are the edges of BinPack; the projects are families around one base
project per framework, each varying the fields that one stage looks at (65,000 states).
In Upload two runs suffice since a run leaves nothing but the storage; three trees have
a package nested, missing, provided by Sauce Labs and beside a nested one (2.1 million
states). In Reports one retry gives an earlier and a last attempt, and two suites with
one folder name give the race for it (2.8 million states). There tests 1 and 2 have one
name in one element and test 3 the same name in another, and the one project with every
verdict has a single test. Only the presses need a bound (`MaxPresses`), and Upload's
runs and storage (`Runs`, `MaxItems`): the attempts end with `Retries`, the clocks with
the deadlines.

### Fairness

Weak fairness of every goroutine (feeder, each worker, the retry goroutines, the
collector; main goroutine, pollers, collector in ApiTest), which Go's scheduler gives.
Every request is assumed to be answered or to fail, and a worker that polls is never
stuck: `PollJob` has a timer, of 24 hours if the suite sets no timeout
(resto.go:125-128). Most HTTP clients have a timeout, but Resto's is created with none
(internal/cmd/run/espresso.go:152 and its siblings): Session has the runs in which one
of its requests never returns, and there only the global timeout, or a second interrupt,
is sure to end the process. A job in the cloud need not end and a user need not
interrupt: neither is fair. Retry goroutines are fair as a group, which is enough as
each sends once; so is Go's order of blocked senders. In ApiTest and Session time is
fair: it passes.

### Findings

Each is a run with expect "violation"; `PROJECT.json` quotes the lines.

* pool_threshold_unset: replay has no default for `passThreshold`; with 0, a suite
  all of whose attempts failed is reported as passed.
* retry_shared_map: devices of an espresso suite share a map, so one's retry narrows
  another's first attempt, which passes without having run all its tests. Shards
  of a cypress suite share their Config.Env in the same way
  (internal/cypress/v1/config.go:590).

Also met while modelling; the models behave this way.

The pool and the retriers:

* Fail-fast takes a real-device job that ends as "complete" for a failure: later
  suites are skipped in a run that passes.
* A comment of collectResults (cloud.go:130) says a client timeout is ignored; the
  judgement of runJobs has turned it into a failure before.
* On real devices an empty list of failed tests erases xcuitest's class filter, against
  the comment at junitretrier.go:82-84.
* The fail-fast flag is local to a worker: the others start what they take.
* With --async --fail-fast every suite behind a worker's first is skipped, as a
  started job has not passed yet.
* A status request that fails for good leaves its job running (`abandoned`).
* A real-device job that is "complete" in the last attempt but below the
  threshold is reported as "complete" while the run fails.

API tests and the session:

* In API tests the suite's `timeout` sets the poll interval and not the wait, and stays
  set for the suites that follow; one above 180 s never polls at all.
* API tests that could not be started are logged and not counted: the run passes.
* An interrupted run whose suites were all passed or skipped exits with 0 and
  renders no reports.
* The interrupt of the global timeout counts like one of the user: after a
  Ctrl-C it is the second and ends the process at once, jobs running or not.
* After an interrupt the tunnel check goes on asking, with requests that fail at
  once, until its own deadline.

From configuration to jobs (Plan, Versions):

* Cucumber and the other web frameworks count suites of one name separately, while
  SortByHistory keeps one of them: the collector then waits for results that never
  come. Two web suites of one name run the first of them twice.
* Playwright's comment on the precedence of variables (playwright/config.go:172) says
  the flag wins; the loops below it let the root of the file win.
* A kind of shard a framework does not know drops the suite; a project without
  suites passes; replay never defaults passThreshold.
* A scenario's name is put into a regular expression unescaped (cucumber/config.go:314):
  `Add (two)` runs in no shard, and the run passes. So with the paths of files that
  become patterns of a shard (playwright/config.go:257). `MatchesItself` excepts both.
* Cypress-grep tags that consist of exclusions with "--" match nothing
  (cypress/grep/parser.go:161-215).
* The default Node.js is not checked for removal, one that is asked for is; part of a
  version gets the first that matches and not the newest; replay asks for "latest"
  after the release has been looked up.

Uploads:

* Two apps whose names are alike without ".app" share the archive's path, and then the
  cached upload (archive.go:57): the second suite gets the first suite's app.
  `ShareAnArchive` excepts them.
* When filepath.Abs fails, which it does if the working directory is gone, uploadArchive
  returns no URI and no error (cloud.go:756): jobs start without their app.
  `WithoutItsFile` excepts it.
* A package.json that cannot be read, or a nested package os.Stat fails on, is logged and
  left out of node_modules, and the run goes on (node/package.go:84 and 110).
* The tag of node_modules is made of package-lock.json and the dependencies' names
  (cloud.go:518-530): a change of .sauceignore or of a package.json named as dependency
  is not seen. node/package.go:104 misses a package beside a nested one that needs it.
* A URL that does not end in an app's format passes validation and fails in archiving.
* A file found by its checksum keeps the tags and the description of its first upload.

Reports:

* GetSuiteArtifactFolder (config.go:436) looks for a free folder and makes it later;
  two goroutines can write one junit.xml over the other's.
* Downloads of earlier attempts are never awaited (cloud.go:345).
* The reports of all attempts are asked from the last attempt's cloud
  (cloud.go:672), which is the wrong one if that attempt could not be started.
* The GitHub summary takes a queued job of --async for a passed one (summary.go:76);
  Spotlight highlights "complete"; the table can count a suite twice (table.go:105).
* Of a JUnit report Insights reads the `<failure>` element alone (testrun.go:113): an
  error, a failure told by the status attribute, which junit.go:30-32 allows in its
  place, and a skipped test are posted as passed.
* Reports of several attempts are merged by the names of elements, classes and tests
  (junit.go:123 and 242): of two tests of one name the merged report keeps one.
* A folder beside the suite's whose ending is no number ends the suite's downloads
  (config.go:460).
* With replay's threshold of 0 a job that timed out is judged passed, and the table
  counts it as failed (table.go:108). `TimedOutReplay` excepts it.
* The webhook of the JSON report compares `StatusCode%100` with 2, which a 200 fails.

## 5. Proofs

All theorems hold for every value of the constants that satisfies the named
assumptions (`PoolAssumption`, `NoneAssumption`, `SmartRetryAssumption`,
`ApiTestAssumption`, `SessionAssumption`; `UploadAssumption`, `TreeAssumption`,
`VersionAssumption` and `ProjectsAssumption` of Upload; `ReportsAssumption` and
`EarlierAssumption`; `VersionsAssumption`, `PlanAssumption` and `ProjectsAssumption` of
Plan): finite sets of suites and workers, any number of
retries, channels of any capacity, any projects, files, packages and tests. Thresholds
are any in the pool and in Plan; in Reports at most one above the retries, which
validation demands, and from 0 on, which a replay suite has if it sets none.

Those of Plan say that lists are lists (Go's slices), that a suite and a project have
the fields of their Go types, that numbers are numbers - negative and zero ones included
where the code does not refuse them - that a walk of the disk meets a file once, a file
has finitely many tests, and a history names a suite once (an endpoint's answer, one
entry per suite). The test composer lists a version once, and none is called "latest" or
"package.json", the two words saucectl reads as something else (search.go:57,151). TLC
checks all of them on the instance of the plan run.

**CloudRunnerProofs.** `PoolInv` is the inductive invariant: `TypeOK`,
`OneTokenPerSuite`, `WorkerState`, `Tally`. That a suite has one token is not
inductive alone: a worker that sends what it does not hold would forge a token, so
the invariant says what each worker holds at each place; and a collector whose
counter ran ahead of its ledger would return early, so it ties the two. The
argument is one lemma per kind of token move (sent to a channel, taken from its
head, grabbed and dropped by a worker), used by all actions. From it:
`TypeCorrect`, `ExactlyOnce`, and `CloseIsSafe`: if as many results are expected as
there are suites, at the close every suite is in `Reported`, so nobody holds one.

In the same module `NoJobForgotten`, `OneAttemptAtATime` and
`NoAttemptTwice` follow from the invariant and an induction of their own;
`PoolImplementsSuiteRun` maps StartFails/StartAsync/StartPolled to SuiteRun's StartJob,
Collect to Report, Return to Conclude and the rest to stuttering. The
step of a start needs that a running suite is still open and its attempt fresh;
the step of Return needs that all suites are reported and that `passed` excludes
a failed entry.

The verdicts take three further inductions beside `PoolInv`. `FailureIsFinal`:
every result on its way that would be reported as failed is the last attempt's
(`FailuresAreFinal`), since a suite that may be tried again is settled only if it
passes or was skipped. `PassesAreEarned`: the count in the options of a suite never
exceeds the successes among its earlier attempts (`PassCountsAreEarned`), which no
step takes back because attempts are fresh (`NoAttemptTwice`); so a result that
passes belongs to a suite that deserves it (`ResultsAreSound`). `NoAttemptNeedless`:
conversely no success that the client saw is missing from the count, and options on their
way lack one (`OptionsAreWanting`); what other ways an attempt can end leaves its job
stopped, abandoned or unfinished. `SkipsAreJustified`: a worker skips only after a
failure that the collector has heard of or is about to (`SkipsFollowFailure`). Its
hypotheses are needed: with --async, with a threshold of 0 and on real devices the
code skips in runs that pass (see Findings).

**SequenceLemmas.** The library's induction theorems cannot be instantiated, but
induction for one formula can be had from the least element of the set of
counterexamples, which exists since Nat is well founded (`LeastNumber`,
`Induction`). The folds behind `FlattenSeq` and `FoldLeft` are recursive functions,
about which nothing is known before one of them is shown to exist: that is an
induction over their initial pieces (`FlattensExists`). After that
`Flattened` says what `FlattenSeq` yields for any sequence of sequences, `Kept` what a
loop with a filter does, `FlattenedLength` how long the result is, and `Sortable` that
a finite set can be listed by rank.

**UploadProofs.** `UploadInv` holds the chain from a suite's field to the URI its job
gets: requests still to be served are those of the project (`TodoInv`, `FileInv`), a
cached archive is where its path says (`ArchivesInv`), a file in the temporary directory
is what the project's files make of that path (`TempInv`), a cached upload and a URI
handed out name such a file (`UploadsInv`, `GotInv`). Storage never loses an item, so
each survives what comes later, lost answers and second sending included. `TempInv` has
to admit that a path two apps share holds either of them; `JobsGetTheirFiles` excepts
apps whose archives share a path and files taken as they are that were answered with no
URI. Tags are the part that outlives a run: every tagged item is the node_modules of a
project with that tag (`TagsInv`), so what a job is given is that of the project or of
one with its tag (`ModulesInv`). For `JobsGetTheirModules` it remains that
node/package.go's walk collects what Node's lookup can reach: `Requirements` is closed
under the requirements of its members, and `Needed` is the least such set; an induction
over the walk (`ReachesExists`, `ClosureIs`, `NeededIsPacked`) shows that everything
Node's lookup needs is among what is packed, as far as the walk can read it: packages
that are unreadable or hidden, now or when a tagged archive was made, are excepted.

**ReportsProofs.** `ReportsInv` follows a suite's attempts to each of their readers. A
suite that meets its threshold ends with a successful attempt, since the retries end
there (`TriedInv`); a worker waits for one download, that of the last attempt
(`WaitInv`); a folder that a download found is nobody else's unless two were raced, and
the one a worker knows holds the last attempt's report (`FolderInv`); verdict, entries,
posted and printed reports are functions of the attempts (`VerdictInv`, `EntriesInv`,
`PostedInv`, `PrintedInv`). `SummariesAgree` compares the rules of the reporters on such
entries, without completed real-device jobs below their threshold and timed out jobs of
a threshold of 0. `TestResultsAreTheLast` needs that merging any number of reports keeps
of the tests of each name one, with its last result, which is an induction over the fold
(`MergedTells`).

**SmartRetryProofs.** `FilterInv` says of every filter a job might be started
with - the live one, the uploaded one and every archived but not yet
uploaded copy - that it covers what the suite has yet to pass. The quantifier over
all snapshots is what lets the theorem survive the races for the one slot of the
runner config. `RetriesCoverUnpassed`, `PassesAreComplete`,
`FirstAttemptsAreWhole` and `RetriesStaySelected` assume `Unshared`; the run
retry_shared_map shows that they need it. `RetryTypeCorrect` does without.

**PlanProofs.** Five inductions over the stages, each resting on those before it; TLC
checked the five invariants on the plan run's instance first. `PlanInv`: a project keeps
its fields, its suites come from one configuration, a launch order is a permutation of
the suites, and what is submitted are the jobs of that order. `HeritageInv`: from the
defaults on every suite is a part of a configured suite with its defaults, so flags
reach every shard. `CoverInv`: before sharding each wanted test belongs to a suite as
configured, afterwards to a shard. `TargetInv`: what validation demands of a suite its
parts still have. `VersionInv`: which version a stage may rely on. One lemma,
`Stepping`, says what every step after the defaults does to the suites - it cuts them in
parts, keeps them, or divides them so that no test is lost - so that the later
inductions need not look into the eight frameworks' shards again.

The weight is in the lemmas about the stages. For sharding, one lemma per kind: by file,
by number, by scenario, by tag and by a list of tests, with `Packing` for BinPack (every
file is in one bucket, whatever the number of buckets). Each shows `Share`: what the
suite would run, some shard runs (`Sharding`). For the launch, `HistoricalOrder` shows
that SortByHistory permutes suites of distinct names, and `JobsFor` counts the jobs of a
suite in any order, from which `AsManyResultsAsJobs` follows. For the versions,
`PackageChooses`, `ExactChooses` and `FoundAgain`: what the first search finds is on offer
and fits what was asked for, and the later search for its exact number finds the same
release; `RuntimeFits` does the same for Node.js. `NoTestIsLost` assumes, as the property
does, that no two suites share a name and leaves out kinds of shard that the framework
does not know, and tests whose path or name does not match itself where a shard reads it
as a pattern (see Findings). Nothing is assumed of what a path or a name matches.

**ApiTestProofs.** `ApiInv`: what was created has or will have a goroutine
(`Placed`), no request is sent twice (`Fresh`), the counters are the
cardinalities of the begun and the read events (`Tallied`), and verdicts agree
with the service (`Judged`). When the run returns the read events are a subset
of the begun ones of the same cardinality, hence equal: `ResultsAllRead`,
`PassesArePasses`, `TableIsRight`. `SeenBeforeDeadline` needs the clocks (`TimeInv`): a
ticker is never more than a period ahead of its goroutine, nor of the moment its event
ended, and time does not pass a due tick; so whoever gives up on an event that has ended
has had no tick since, and that event ended at most a period before the deadline.

**SessionProofs.** `IInv` says what each moment of a run implies: before the
suites' stage nothing is begun (`OrderOfStages`), a dry run meets its own stage
first (`DryRunFirst`, a statement about the order of the stages left that each
step keeps because it only drops the head), a running job has a worker at it
(`JobsWatched`), only an interrupt makes a worker stop or skip (`SkipsAreAsked`);
and what a chosen exit code, rendered reports and an ended process say about
the past (`CodeIsRight`, `RenderedIsRight`, `EndIsRight`). The six safety
properties of the session run follow from it for any suites, timeouts and number
of interrupts.

**Only model-checked.** Liveness under fairness (`RunReturns` of the pool and of API
tests, `RunEnds`, `InterruptEnds`), which the prover cannot do: it has no rule for
ENABLED. And the two properties that do not hold (see Findings).

## 6. Not modelled

* Bodies of requests, assets, device lists, zip headers, logging, progress, prompts and
  layout: no decision of the modelled parts depends on them. Of the artifacts only
  junit.xml is read back.
* `findBuild` and the heartbeat log: they change no state of the pool.
* Parsers: YAML and JSON of configurations, regular expressions over test sources, tag
  expressions, XML of reports. The models have what they yield: patterns as sets of
  files, files as sets of tests, reports as tests with results.
* The vendored HTTP retry client, headers and proxies: any request may fail for good in
  the models, and an upload may be sent twice.
* The configuration initializer (a questionnaire that writes a file), the resource
  commands (one request and its rendering each), credentials, telemetry, flag binding:
  sequential code without state that outlives a call.
* The session of API tests, which has the tunnel check but no pool; their search for
  local test files and for hooks.
* A data race between the archiving of a cypress project and a retrier that
  writes its Env map ends the process; such a run is a prefix of a modelled one.
