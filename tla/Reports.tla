------------------------------ MODULE Reports ------------------------------
(***************************************************************************)
(* From the end of an attempt to what a run leaves behind:                 *)
(*                                                                         *)
(*   internal/saucecloud/jobservice.go, internal/config: the artifacts of  *)
(*     an attempt are downloaded into a folder named after the suite, by   *)
(*     the worker for the last attempt and by a goroutine nobody waits for *)
(*     for the earlier ones;                                               *)
(*   internal/saucecloud/cloud.go: collectResults takes the results one by *)
(*     one, FetchJUnitReports gets the JUnit reports of all attempts (the  *)
(*     last one from the downloaded file, if there is one), reportInsights *)
(*     posts the test results to Insights;                                 *)
(*   internal/report/*: the reporters print, write and count.              *)
(*                                                                         *)
(* The pool itself is CloudRunner; here an attempt simply ends.  Data left *)
(* out: every artifact but junit.xml, durations, names, URLs, layout.      *)
(***************************************************************************)
EXTENDS Integers, Sequences, FiniteSets, SequencesExt, Job

CONSTANTS
  Projects,    \* the projects that are run
  Folder,      \* suite -> its name, made fit for a directory
  RealDevice,  \* suite -> does it run on the real device cloud?
  Earlier,     \* the folders that are there when the run starts
  Misnamed,    \* names with a folder <name>.<no number> beside their own
  Element,     \* test -> the <testsuite> it is reported in
  CaseName,    \* test -> its ClassName.Name
  None         \* no folder, no report

\* What a report says of a test.  "failure" and "error" are told by an element of
\* the JUnit report, "status" is a failure told by the status attribute alone.
Verdicts == {"passed", "failure", "error", "status", "skipped"}
Failures == {"failure", "error", "status"}

\* suites: the StartOptions submitted to the pool, with their passThreshold;
\* async: --async; when, allAttempts: artifacts.download; tests: what a job runs,
\* by its place in a report; says: what the runner of its framework says of a
\* test.  No default is set for a replay suite: its threshold is 0.
ASSUME ReportsAssumption ==
  \A p \in Projects :
    /\ IsFiniteSet(DOMAIN p.threshold) /\ IsFiniteSet(p.tests) /\ p.tests \subseteq Nat
    /\ p.retries \in Nat /\ p.says \subseteq Verdicts
    /\ \A s \in DOMAIN p.threshold : p.threshold[s] \in 0..(p.retries + 1)
    /\ p.async \in BOOLEAN /\ p.allAttempts \in BOOLEAN
    /\ p.when \in {"fail", "pass", "never", "always"}
    /\ \A s \in DOMAIN p.threshold : RealDevice[s] \in BOOLEAN

\* A folder is a name with its running number, 0 for none.
ASSUME EarlierAssumption ==
  IsFiniteSet(Earlier) /\ Earlier \subseteq {d[1] : d \in Earlier} \X Nat

VARIABLES
  project,    \* the project of this run
  tried,      \* suite -> the attempts that ended, as the client saw them
  pc,         \* suite -> "running", "saving", "sent", "skipped" or "collected"
  saves,      \* downloads of artifacts that are under way
  disk,       \* folder -> the attempt whose junit.xml it holds, or None
  local,      \* suite -> folder of the last attempt's artifacts
  raced,      \* two downloads looked for a free folder at one time
  passed,     \* the verdict of collectResults so far
  entries,    \* suite -> the report.TestResult the reporters were given
  posted,     \* suite -> test results posted to Insights
  printed     \* what Render made of the entries

saveVars == <<saves, disk, local, raced>>
collectorVars == <<passed, entries, posted, printed>>
vars == <<project, tried, pc, saveVars, collectorVars>>

Suites == DOMAIN project.threshold

-----------------------------------------------------------------------------
(* Attempts                                                                *)

\* An attempt: the job, and the tests it ran with their results.
Attempt(j, ran) == [job |-> j, ran |-> ran]
Nothing == [t \in {} |-> "passed"]

Ran(s) == UNION {DOMAIN tried[s][i].ran : i \in DOMAIN tried[s]}

LastAttempt(s) == tried[s][Len(tried[s])]
PassCount(as) == Cardinality({i \in DOMAIN as : IsSuccessful(as[i].job)})

\* Tests of the next attempt.  To which of them a retry is narrowed SmartRetry
\* tells; what is reported of them does not depend on it.
NextTests(s) == IF tried[s] = <<>> THEN {project.tests} ELSE SUBSET project.tests \ {{}}

Unfinished(s) ==
  [NoJob EXCEPT !.status = StateInProgress, !.isRDC = RealDevice[s], !.hasID = TRUE]

Started(s) ==
  [Unfinished(s) EXCEPT !.status = IF RealDevice[s] THEN StateQueued ELSE StateInProgress]

\* What runJob may answer with; of a job that passed no test failed.
EndedAttempts(s) ==
  {Attempt(ErrorJob, Nothing)} \cup
  IF project.async THEN {Attempt(Started(s), Nothing)}
  ELSE
    {Attempt(NoJob, Nothing), Attempt([Unfinished(s) EXCEPT !.timedOut = TRUE], Nothing)} \cup
    UNION { {Attempt(ParseJob(RealDevice[s], o), ran) :
               ran \in {r \in [R -> project.says] :
                          o = StatePassed => \A t \in R : r[t] \notin Failures}}
            : o \in Outcomes(RealDevice[s]), R \in NextTests(s) }

\* The status a settled suite is given (cloud.go:374).
Judged(s, as) ==
  LET j == as[Len(as)].job
      enough == PassCount(as) >= project.threshold[s]
  IN  IF project.async THEN j
      ELSE [j EXCEPT !.status = IF enough THEN StatePassed ELSE StateFailed, !.passed = enough]

ShouldRetry(s, as) ==
  /\ ~project.async
  /\ Len(as) <= project.retries
  /\ ~IsSuccessful(as[Len(as)].job) \/ PassCount(as) < project.threshold[s]

-----------------------------------------------------------------------------
(* Artifacts                                                               *)

IsNow(passes) ==
  \/ project.when = "always"
  \/ project.when = "fail" /\ ~passes
  \/ project.when = "pass" /\ passes

SkipDownload(j, isLast) ==
  \/ ~j.hasID \/ j.timedOut \/ ~Done(j.status)
  \/ ~IsNow(j.passed)
  \/ ~isLast /\ ~project.allAttempts

Save(s, attempt, isLast) ==
  [suite |-> s, attempt |-> attempt, last |-> isLast, at |-> "look", dir |-> None]

Versions(name) == {d[2] : d \in {e \in DOMAIN disk : e[1] = name}}

\* Mutation: the running number is that of the newest folder.
NextVersion_Same(name) == Max(Versions(name))

NextVersion(name) == Max(Versions(name)) + 1

\* GetSuiteArtifactFolder, up to MkdirAll: name, or name.<running number> when
\* there is such a folder.
TargetDir(name) == IF <<name, 0>> \in DOMAIN disk THEN <<name, NextVersion(name)>> ELSE <<name, 0>>

Look(d) ==
  /\ d \in saves /\ d.at = "look"
  /\ Folder[d.suite] \notin Misnamed \/ <<Folder[d.suite], 0>> \notin DOMAIN disk
  /\ saves' = (saves \ {d}) \cup {[d EXCEPT !.at = "make", !.dir = TargetDir(Folder[d.suite])]}
  /\ raced' = (raced \/ \E e \in saves : e.at = "make" /\ e.dir = TargetDir(Folder[d.suite]))
  /\ UNCHANGED <<project, tried, pc, disk, local, collectorVars>>

\* A download is over; that of the last attempt is what the worker waited for.
EndSave(d, dir) ==
  /\ saves' = saves \ {d}
  /\ local' = IF d.last THEN [local EXCEPT ![d.suite] = dir] ELSE local
  /\ pc' = IF d.last THEN [pc EXCEPT ![d.suite] = "sent"] ELSE pc
  /\ UNCHANGED <<project, tried, raced, collectorVars>>

\* No folder could be had: the number of one is none (config.go:460), or the
\* directory cannot be read or written.
LookFails(d) ==
  /\ d \in saves /\ d.at = "look"
  /\ EndSave(d, None)
  /\ UNCHANGED disk

\* MkdirAll, which is content with a folder that exists; junit.xml is written.
Fetch(d) ==
  /\ d \in saves /\ d.at = "make"
  /\ disk' = [e \in DOMAIN disk \cup {d.dir} |->
                IF e = d.dir THEN <<d.suite, d.attempt>> ELSE disk[e]]
  /\ EndSave(d, d.dir)

\* The list of artifacts or an artifact could not be had, or junit.xml is not
\* among what is to be downloaded: there is a folder without it.
FetchNothing(d) ==
  /\ d \in saves /\ d.at = "make"
  /\ disk' = [e \in DOMAIN disk \cup {d.dir} |-> IF e \in DOMAIN disk THEN disk[e] ELSE None]
  /\ EndSave(d, None)

-----------------------------------------------------------------------------
(* Workers                                                                 *)

\* An attempt that is not the last: its artifacts are downloaded by a
\* goroutine while the next one runs.
Retry(s) ==
  /\ pc[s] = "running"
  /\ \E a \in EndedAttempts(s) :
       LET as == Append(tried[s], a)
       IN  /\ ShouldRetry(s, as)
           /\ tried' = [tried EXCEPT ![s] = as]
           /\ saves' = IF SkipDownload(a.job, FALSE) THEN saves
                       ELSE saves \cup {Save(s, Len(as), FALSE)}
  /\ UNCHANGED <<project, pc, disk, local, raced, collectorVars>>

\* The last attempt: its artifacts are downloaded before the result is sent.
Settle(s) ==
  /\ pc[s] = "running"
  /\ \E a \in EndedAttempts(s) :
       LET as == Append(tried[s], a)
       IN  /\ ~ShouldRetry(s, as)
           /\ tried' = [tried EXCEPT ![s] = as]
           /\ IF SkipDownload(Judged(s, as), TRUE)
              THEN pc' = [pc EXCEPT ![s] = "sent"] /\ UNCHANGED saves
              ELSE /\ pc' = [pc EXCEPT ![s] = "saving"]
                   /\ saves' = saves \cup {Save(s, Len(as), TRUE)}
  /\ UNCHANGED <<project, disk, local, raced, collectorVars>>

\* With --fail-fast a worker answers as skipped, and reports to nobody, every
\* suite it gets after one whose last attempt did not pass.
Skip(s) ==
  /\ pc[s] = "running"
  /\ \E x \in Suites : pc[x] \notin {"running", "skipped"} /\ ~LastAttempt(x).job.passed
  /\ pc' = [pc EXCEPT ![s] = "skipped"]
  /\ UNCHANGED <<project, tried, saveVars, collectorVars>>

-----------------------------------------------------------------------------
(* Collector                                                               *)

\* createReporters: the reporters that need JUnit reports are off with --async.
JUnitRequired == ~project.async

\* The reports FetchJUnitReports asks the cloud of the last attempt for: all but
\* the one that was downloaded.
Asked(s) == {i \in DOMAIN tried[s] : i # Len(tried[s]) \/ local[s] = None}

\* That cloud does not know the job, and answers that there is no such report.
InAnotherCloud(s, i) == tried[s][i].job.isRDC # LastAttempt(s).job.isRDC

\* The answer of the cloud; the reports in lost could not be had.
Artifact(s, i, lost) == IF i \in lost \/ InAnotherCloud(s, i) THEN Nothing ELSE tried[s][i].ran

\* What it finds for attempt i.
FetchedReport(s, i, lost) ==
  IF ~JUnitRequired THEN Nothing
  ELSE IF i \in Asked(s) THEN Artifact(s, i, lost)
       ELSE LET owner == disk[local[s]] IN tried[owner[1]][owner[2]].ran

Entry(s, lost) ==
  LET j == Judged(s, tried[s])
  IN  [status |-> TotalStatus(j), timedOut |-> j.timedOut, rdc |-> j.isRDC,
       reports |-> [i \in DOMAIN tried[s] |-> FetchedReport(s, i, lost)],
       whole |-> lost = {}]

\* reportInsights: only of jobs whose end is known.
Reportable(s) ==
  LET j == Judged(s, tried[s])
  IN  ~project.async /\ Done(j.status) /\ ~j.timedOut /\ j.hasID

\* FromJUnit looks for a <failure> element and for nothing else; FromSauceReport
\* goes by the status.
Uniform(verdict, source) ==
  IF source = "junit.xml"
  THEN IF verdict = "failure" THEN "failed" ELSE "passed"
  ELSE IF verdict \in Failures THEN "failed" ELSE verdict

\* The reports a job may be listed with: a real device job has a JUnit report if
\* its framework is native, a virtual one whatever its runner left.
RealDeviceReports == SUBSET {"junit.xml"}
VirtualDeviceReports == SUBSET {"junit.xml", "sauce-test-report.json"}

ArtifactNames(j) == IF j.isRDC THEN RealDeviceReports ELSE VirtualDeviceReports

\* Of two reports sauce-test-report.json is read.
Source(files) ==
  IF "sauce-test-report.json" \in files THEN "sauce-test-report.json" ELSE "junit.xml"

\* The results of the last attempt.
TestRuns(s, source) == [t \in DOMAIN LastAttempt(s).ran |-> Uniform(LastAttempt(s).ran[t], source)]

\* Every request for it may fail: nothing is posted then, and nothing else happens.
ReportInsights(s) ==
  \/ UNCHANGED posted
  \/ /\ Reportable(s)
     /\ LastAttempt(s).ran # Nothing
     /\ \E files \in ArtifactNames(Judged(s, tried[s])) \ {{}} :
          posted' = [posted EXCEPT ![s] = [source |-> Source(files), runs |-> TestRuns(s, Source(files))]]

Collect(s) ==
  /\ pc[s] = "sent"
  /\ pc' = [pc EXCEPT ![s] = "collected"]
  /\ LET j == Judged(s, tried[s]) IN passed' = (passed /\ ~(Done(j.status) /\ ~j.passed))
  /\ \E lost \in SUBSET Asked(s) : entries' = [entries EXCEPT ![s] = Entry(s, lost)]
  /\ ReportInsights(s)
  /\ UNCHANGED <<project, tried, saveVars, printed>>

-----------------------------------------------------------------------------
(* Reporters                                                               *)

\* The footer all summaries end with.
Footer(errors, inProgress) ==
  IF errors # {} THEN "failed" ELSE IF inProgress # {} THEN "launched" ELSE "passed"

\* Mutation: the table counts errors, which is no status of a settled suite.
TableErrors_Error(E) ==
  {s \in DOMAIN E : E[s].status = StateError \/ E[s].timedOut}

TableErrors(E) == {s \in DOMAIN E : E[s].status = StateFailed \/ E[s].timedOut}

Table(E) ==
  Footer(TableErrors(E), {s \in DOMAIN E : ~Done(E[s].status) /\ ~E[s].timedOut})

GitHub(E) ==
  Footer({s \in DOMAIN E : E[s].status \in {StateFailed, StateError}},
         {s \in DOMAIN E : E[s].status \in {StateInProgress, StateNew}})

Of(E, rdc) == [s \in {x \in DOMAIN E : E[x].rdc = rdc} |-> E[s]]

\* buildtable: a table for each cloud that has results.
Tables(E) == {Table(Of(E, rdc)) : rdc \in {r \in BOOLEAN : DOMAIN Of(E, r) # {}}}

Spotlight(E) ==
  {s \in DOMAIN E : (Done(E[s].status) \/ E[s].timedOut) /\ E[s].status # StatePassed}

\* Tests the reports do not tell apart.
SameCase(t, u) == Element[t] = Element[u] /\ CaseName[t] = CaseName[u]

Elements(ran) == {Element[t] : t \in DOMAIN ran}

\* t is the last of its name in a report.
IsLastOf(ran, t) == t \in DOMAIN ran /\ \A u \in DOMAIN ran : SameCase(t, u) => u <= t

\* One report more.  An element that is new is taken as it is; to one that is
\* there the tests are added, each in place of those of its name.
AddTestCases(old, new) ==
  LET kept(t) ==
        \/ Element[t] \notin Elements(old) \cap Elements(new)
        \/ IsLastOf(new, t)
        \/ IsLastOf(old, t) /\ \A u \in DOMAIN new : ~SameCase(t, u)
  IN  [t \in {u \in DOMAIN old \cup DOMAIN new : kept(u)} |->
         IF t \in DOMAIN new THEN new[t] ELSE old[t]]

MergeReports(reports) == FoldLeft(AddTestCases, Nothing, reports)

Answered == {s \in Suites : pc[s] \in {"collected", "skipped"}}
Reported == {s \in Suites : pc[s] = "collected"}

\* collectResults has all results: every reporter renders what it was given.
Render ==
  /\ Answered = Suites
  /\ printed = None
  /\ LET E == [s \in Reported |-> entries[s]]
     IN  printed' = [tables |-> Tables(E), github |-> GitHub(E), spotlight |-> Spotlight(E),
                     junit |-> [s \in Reported |-> MergeReports(E[s].reports)]]
  /\ UNCHANGED <<project, tried, pc, saveVars, passed, entries, posted>>

\* The process exits, with the goroutines that still download.
Exit ==
  /\ Answered = Suites
  /\ printed # None
  /\ UNCHANGED vars

Init ==
  /\ project \in Projects
  /\ tried = [s \in Suites |-> <<>>]
  /\ pc = [s \in Suites |-> "running"]
  /\ saves = {}
  /\ disk = [d \in Earlier |-> None]
  /\ local = [s \in Suites |-> None]
  /\ raced = FALSE /\ passed = TRUE
  /\ entries = [s \in Suites |-> None]
  /\ posted = [s \in Suites |-> None]
  /\ printed = None

Next ==
  \/ \E s \in Suites : Retry(s) \/ Settle(s) \/ Skip(s) \/ Collect(s)
  \/ \E d \in saves : Look(d) \/ LookFails(d) \/ Fetch(d) \/ FetchNothing(d)
  \/ Render \/ Exit

Spec == Init /\ [][Next]_vars

-----------------------------------------------------------------------------
(* Properties                                                              *)

Outcome(s) == Judged(s, tried[s])

\* A real device job that completed keeps that status although its suite did not
\* meet the threshold (job.go:73).
CompletedButFailed(s) == Outcome(s).isRDC /\ Outcome(s).completed /\ ~Outcome(s).passed

\* A replay suite has passed whatever became of its job, but the table counts
\* a job that timed out as failed (table.go:108).
TimedOutReplay(s) == project.threshold[s] = 0 /\ Outcome(s).timedOut

\* Every summary of a run tells its exit status: without --async one of the
\* tables and the GitHub summary say that suites failed exactly when the run
\* fails, and Spotlight shows every suite that did; with --async no table says
\* that all suites passed before they ended.  Left out, because the code does not
\* give it: a completed job of a suite below its threshold; a job of a suite with
\* threshold 0 that timed out; and the GitHub summary with --async, which takes a
\* queued job for a passed one (summary.go:76).
SummariesTellTheVerdict ==
  printed # None /\ ~(\E x \in Reported : CompletedButFailed(x) \/ TimedOutReplay(x)) =>
    /\ ~passed <=> "failed" \in printed.tables
    /\ ~passed <=> printed.github = "failed"
    /\ \A s \in Reported : ~project.async /\ ~Outcome(s).passed => s \in printed.spotlight
    /\ (\E s \in Reported : ~Done(Outcome(s).status)) => printed.tables # {"passed"}

\* The result of the last attempt of s that ran test t.
LastResult(s, t) == tried[s][Max({i \in DOMAIN tried[s] : t \in DOMAIN tried[s][i].ran})].ran[t]

\* Every report could be had and nothing was written over.
FoundAll(s) ==
  /\ JUnitRequired /\ entries[s].whole /\ ~raced
  /\ \A i \in DOMAIN tried[s] : ~InAnotherCloud(s, i)

\* The JUnit report tells every test that ran, unless another test of its name is
\* told in its place, and every result in it is that of the last attempt.
JUnitIsTrue(s) ==
  LET report == printed.junit[s]
  IN  /\ \A t \in DOMAIN report : t \in Ran(s) /\ report[t] = LastResult(s, t)
      /\ \A t \in Ran(s) : \E u \in DOMAIN report : SameCase(t, u)

\* Insights learns what became of a test, from a JUnit report with a <failure>
\* element at least that it failed.
InsightsAreTrue(s) ==
  LET runs == posted[s].runs
      told == IF posted[s].source = "junit.xml" THEN {"error", "status", "skipped"} ELSE {}
  IN  \A t \in DOMAIN runs :
        /\ runs[t] = "passed" => LastResult(s, t) \in {"passed"} \cup told
        /\ runs[t] = "failed" => LastResult(s, t) \in Failures
        /\ runs[t] = "skipped" => LastResult(s, t) = "skipped"

\* What JUnit report and Insights say of a test is what the cloud saw, whatever
\* was downloaded by whom into which folder: the JUnit report has the tests that
\* ran with the result of the last attempt that ran them, and Insights learns of
\* no test as passed that failed.  Left out, because the code does not give it: a
\* report that could not be had, also because the last attempt has no job and its
\* cloud is taken to be the virtual one (cloud.go:672); two downloads that find
\* one folder free at one time (config.go:436); of tests of one name in one
\* element all but the last (junit.go:123); and what a JUnit report tells of a
\* test in any way but by a <failure> element, which Insights takes for passed
\* (testrun.go:113).
TestsHaveTheirLastResult ==
  printed # None =>
    \A s \in Reported :
      /\ FoundAll(s) => JUnitIsTrue(s)
      /\ posted[s] # None => InsightsAreTrue(s)
=============================================================================
