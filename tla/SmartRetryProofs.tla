-------------------------- MODULE SmartRetryProofs --------------------------
(***************************************************************************)
(* Theorems about SmartRetry.  For suites that share no filter cell every  *)
(* filter a job may be started with matches the tests of its suite that    *)
(* still have to pass; the safety properties follow from that.             *)
(***************************************************************************)
EXTENDS SmartRetry, TLAPS

\* Nothing has run yet and every cell holds the user's filter.
LEMMA InitFilterInv == Init => FilterInv
<1> SUFFICES ASSUME Init PROVE FilterInv
  OBVIOUS
<1> USE SmartRetryAssumption
<1>1. TypeOK
  BY DEF Init, TypeOK, Filters
<1>2. ASSUME NEW s \in Suites PROVE GoodFilter(s, UserFilter[CellOf[s]])
  BY <1>2 DEF Init, GoodFilter, Unpassed, Selected
<1>3. ASSUME NEW s \in Suites PROVE GoodRun(s) /\ GoodReport(s) /\ GoodCount(s)
  BY <1>3 DEF Init, GoodRun, GoodReport, GoodCount
<1> QED
  BY <1>1, <1>2, <1>3 DEF Init, FilterInv

(***************************************************************************)
(* One lemma per action                                                    *)
(***************************************************************************)

\* The filters stay good when a step touches neither them nor what they are
\* measured against.
LEMMA FiltersKept ==
  ASSUME FilterInv, NEW t \in Suites,
         UNCHANGED <<mechanism, filter, snapshot, runnerConfig>>,
         passedTests[t] \subseteq passedTests'[t],
         attempt'[t] = 0 => attempt[t] = 0
  PROVE  /\ GoodFilter(t, filter[CellOf[t]])'
         /\ GoodFilter(t, runnerConfig[CellOf[t]])'
         /\ \A u \in Suites : GoodFilter(t, snapshot[u][CellOf[t]])'
BY DEF FilterInv, GoodFilter, Unpassed, Selected

\* A job gets a good filter, so it runs what has to pass.
LEMMA StartKeeps ==
  ASSUME FilterInv, NEW s \in Suites, Start(s)
  PROVE  FilterInv'
<1> USE SmartRetryAssumption
<1>1. TypeOK'
  BY DEF Start, FilterInv, TypeOK, FilterAtStart, Filters
<1>2. ASSUME NEW t \in Suites
      PROVE  /\ GoodFilter(t, filter[CellOf[t]])'
             /\ GoodFilter(t, runnerConfig[CellOf[t]])'
             /\ \A u \in Suites : GoodFilter(t, snapshot[u][CellOf[t]])'
  BY <1>2, FiltersKept DEF Start
<1>3. GoodFilter(s, FilterAtStart(s))
  BY DEF FilterInv, FilterAtStart
<1>4. Unpassed(s) \subseteq Bundle[s]
  BY DEF Unpassed, Selected
<1>5. ran'[s] = FilterAtStart(s) \cap Bundle[s]
  BY DEF Start, FilterInv, TypeOK
<1>6. ASSUME NEW t \in Suites PROVE GoodRun(t)'
  <2>1. CASE t = s
    BY <1>3, <1>4, <1>5, <2>1 DEF Start, GoodRun, GoodFilter, Unpassed, Selected
  <2>2. CASE t # s
    BY <1>6, <2>2 DEF Start, FilterInv, TypeOK, GoodRun, Unpassed, Selected
  <2> QED BY <2>1, <2>2
<1>7. ASSUME NEW t \in Suites PROVE GoodReport(t)' /\ GoodCount(t)'
  BY <1>7 DEF Start, FilterInv, TypeOK, GoodReport, GoodCount, Unpassed, Selected
<1> QED
  BY <1>1, <1>2, <1>6, <1>7 DEF FilterInv

\* Where Continue sends the options of s.
LEMMA Continued ==
  ASSUME TypeOK, NEW s \in Suites, NEW result, NEW passes \in Nat,
         Continue(s, result, passes)
  PROVE  /\ attempt' \in [Suites -> 0..Retries]
         /\ pc' \in [Suites -> {"queued", "running", "retrying", "filtered", "archived",
                                "passed", "failed"}]
         /\ pc'[s] \in {"retrying", "passed", "failed"}
         /\ pc'[s] = "retrying" => attempt'[s] > 0
         /\ pc'[s] = "passed" => passes > 0
         /\ attempt'[s] >= attempt[s]
         /\ \A t \in Suites \ {s} : pc'[t] = pc[t] /\ attempt'[t] = attempt[t]
<1>1. PassThreshold[s] \in Nat \ {0} /\ Retries \in Nat
  BY SmartRetryAssumption
<1>2. PICK more \in BOOLEAN :
        /\ more => attempt[s] < Retries
        /\ pc' = [pc EXCEPT ![s] = IF more THEN "retrying"
                                  ELSE IF passes >= PassThreshold[s] THEN "passed" ELSE "failed"]
        /\ attempt' = [attempt EXCEPT ![s] = IF more THEN @ + 1 ELSE @]
  BY DEF Continue
<1>3. /\ attempt[s] \in 0..Retries
      /\ attempt \in [Suites -> 0..Retries]
      /\ pc \in [Suites -> {"queued", "running", "retrying", "filtered", "archived",
                            "passed", "failed"}]
  BY DEF TypeOK
<1>4. \A t \in Suites \ {s} : pc'[t] = pc[t] /\ attempt'[t] = attempt[t]
  BY <1>2, <1>3
<1>5. CASE more
  BY <1>1, <1>2, <1>3, <1>4, <1>5
<1>6. CASE ~more
  BY <1>1, <1>2, <1>3, <1>4, <1>6
<1> QED
  BY <1>2, <1>5, <1>6

\* The tests that passed are no longer missed, those that failed are reported.
LEMMA EndKeeps ==
  ASSUME FilterInv, NEW s \in Suites, NEW F \in SUBSET ran[s],
         NEW result \in {"passed", "failed"}, End(s, F, result)
  PROVE  FilterInv'
<1> USE SmartRetryAssumption
<1>1. PICK passes \in Nat :
        /\ passes = passCount[s] + (IF result = "passed" THEN 1 ELSE 0)
        /\ passCount' = [passCount EXCEPT ![s] = passes]
        /\ Continue(s, result, passes)
  <2>1. passCount[s] + (IF result = "passed" THEN 1 ELSE 0) \in Nat
    BY DEF FilterInv, TypeOK
  <2> QED
    BY <2>1 DEF End
<1>2. TypeOK
  BY DEF FilterInv
<1>3. /\ attempt' \in [Suites -> 0..Retries]
      /\ pc' \in [Suites -> {"queued", "running", "retrying", "filtered", "archived",
                             "passed", "failed"}]
      /\ pc'[s] \in {"retrying", "passed", "failed"}
      /\ pc'[s] = "retrying" => attempt'[s] > 0
      /\ pc'[s] = "passed" => passes > 0
      /\ attempt'[s] >= attempt[s]
      /\ \A t \in Suites \ {s} : pc'[t] = pc[t] /\ attempt'[t] = attempt[t]
  BY <1>1, <1>2, Continued
<1>4. /\ failed' = [failed EXCEPT ![s] = F]
      /\ outcome' = [outcome EXCEPT ![s] = result]
      /\ passedTests' = [passedTests EXCEPT ![s] = @ \cup (ran[s] \ F)]
      /\ pc[s] = "running"
      /\ result = "passed" => F = {}
      /\ UNCHANGED <<mechanism, ran, filter, snapshot, runnerConfig>>
  BY DEF End
<1>5. TypeOK'
  BY <1>1, <1>2, <1>3, <1>4 DEF TypeOK, Filters
<1>6. ASSUME NEW t \in Suites
      PROVE  /\ GoodFilter(t, filter[CellOf[t]])'
             /\ GoodFilter(t, runnerConfig[CellOf[t]])'
             /\ \A u \in Suites : GoodFilter(t, snapshot[u][CellOf[t]])'
  <2>1. passedTests[t] \subseteq passedTests'[t]
    BY <1>2, <1>4, <1>6 DEF TypeOK
  <2>2. attempt'[t] = 0 => attempt[t] = 0
    BY <1>2, <1>3, <1>6 DEF TypeOK
  <2> QED
    BY <1>4, <1>6, <2>1, <2>2, FiltersKept
<1>7. Unpassed(s) \subseteq ran[s]
  BY <1>4 DEF FilterInv, GoodRun
<1>8. Unpassed(s)' \subseteq F /\ Unpassed(s)' \subseteq Unpassed(s)
  BY <1>2, <1>4, <1>7 DEF TypeOK, Unpassed, Selected
<1>9. ASSUME NEW t \in Suites PROVE GoodRun(t)' /\ GoodReport(t)' /\ GoodCount(t)'
  <2>1. CASE t = s
    <3>1. GoodRun(s)'
      BY <1>3 DEF GoodRun
    <3>2. failed'[s] = F /\ F \subseteq ran[s]
      BY <1>2, <1>4 DEF TypeOK
    <3>3. mechanism # "tests to run" => ran[s] \subseteq Selected(s)
      BY <1>4 DEF FilterInv, GoodRun
    <3>4. GoodReport(s)'
      BY <1>3, <1>4, <1>8, <3>2, <3>3 DEF GoodReport, Selected
    <3>5. passCount'[s] = passes
      BY <1>1, <1>2 DEF TypeOK
    <3>6. ASSUME result = "passed" PROVE GoodCount(s)'
      BY <1>3, <1>4, <1>8, <3>5, <3>6 DEF GoodCount
    <3>7. ASSUME result # "passed" PROVE GoodCount(s)'
      <4>1. passes = passCount[s]
        BY <1>1, <1>2, <3>7 DEF TypeOK
      <4> QED
        BY <1>3, <1>8, <3>5, <4>1 DEF FilterInv, GoodCount
    <3> QED
      BY <2>1, <3>1, <3>4, <3>6, <3>7
  <2>2. CASE t # s
    BY <1>1, <1>2, <1>3, <1>4, <1>9, <2>2
       DEF FilterInv, TypeOK, GoodRun, GoodReport, GoodCount, Unpassed, Selected
  <2> QED BY <2>1, <2>2
<1> QED
  BY <1>5, <1>6, <1>9 DEF FilterInv

\* An errored job changes nothing but the attempt, and its report is not used.
LEMMA EndInErrorKeeps ==
  ASSUME FilterInv, NEW s \in Suites, NEW F \in SUBSET ran[s], EndInError(s, F)
  PROVE  FilterInv'
<1> USE SmartRetryAssumption
<1>1. TypeOK /\ passCount[s] \in Nat
  BY DEF FilterInv, TypeOK
<1>2. /\ failed' = [failed EXCEPT ![s] = F]
      /\ outcome' = [outcome EXCEPT ![s] = "error"]
      /\ pc[s] = "running"
      /\ Continue(s, "error", passCount[s])
      /\ UNCHANGED <<mechanism, passCount, ran, passedTests, filter, snapshot, runnerConfig>>
  BY DEF EndInError
<1>3. /\ attempt' \in [Suites -> 0..Retries]
      /\ pc' \in [Suites -> {"queued", "running", "retrying", "filtered", "archived",
                             "passed", "failed"}]
      /\ pc'[s] \in {"retrying", "passed", "failed"}
      /\ pc'[s] = "retrying" => attempt'[s] > 0
      /\ pc'[s] = "passed" => passCount[s] > 0
      /\ attempt'[s] >= attempt[s]
      /\ \A t \in Suites \ {s} : pc'[t] = pc[t] /\ attempt'[t] = attempt[t]
  BY <1>1, <1>2, Continued
<1>4. TypeOK'
  BY <1>1, <1>2, <1>3 DEF TypeOK, Filters
<1>5. ASSUME NEW t \in Suites
      PROVE  /\ GoodFilter(t, filter[CellOf[t]])'
             /\ GoodFilter(t, runnerConfig[CellOf[t]])'
             /\ \A u \in Suites : GoodFilter(t, snapshot[u][CellOf[t]])'
  <2>1. attempt'[t] = 0 => attempt[t] = 0
    BY <1>1, <1>3, <1>5 DEF TypeOK
  <2> QED
    BY <1>2, <1>5, <2>1, FiltersKept
<1>6. ASSUME NEW t \in Suites PROVE GoodRun(t)' /\ GoodReport(t)' /\ GoodCount(t)'
  <2>1. CASE t = s
    <3>1. GoodRun(s)'
      BY <1>3 DEF GoodRun
    <3>2. failed'[s] = F /\ outcome'[s] = "error"
      BY <1>1, <1>2 DEF TypeOK
    <3>3. mechanism # "tests to run" => ran[s] \subseteq Selected(s)
      BY <1>2 DEF FilterInv, GoodRun
    <3>4. GoodReport(s)'
      BY <1>2, <1>3, <3>2, <3>3 DEF GoodReport, Selected
    <3>5. GoodCount(s)'
      BY <1>2, <1>3 DEF FilterInv, GoodCount, Unpassed, Selected
    <3> QED
      BY <2>1, <3>1, <3>4, <3>5
  <2>2. CASE t # s
    BY <1>1, <1>2, <1>3, <1>6, <2>2
       DEF FilterInv, TypeOK, GoodRun, GoodReport, GoodCount, Unpassed, Selected
  <2> QED BY <2>1, <2>2
<1> QED
  BY <1>4, <1>5, <1>6 DEF FilterInv

\* The options go back as they are.
LEMMA RetryWholeKeeps ==
  ASSUME FilterInv, NEW s \in Suites, RetryWhole(s)
  PROVE  FilterInv'
<1>1. TypeOK'
  BY DEF RetryWhole, FilterInv, TypeOK, Filters
<1>2. ASSUME NEW t \in Suites
      PROVE  /\ GoodFilter(t, filter[CellOf[t]])'
             /\ GoodFilter(t, runnerConfig[CellOf[t]])'
             /\ \A u \in Suites : GoodFilter(t, snapshot[u][CellOf[t]])'
  BY <1>2, FiltersKept DEF RetryWhole
<1>3. ASSUME NEW t \in Suites PROVE GoodRun(t)' /\ GoodReport(t)' /\ GoodCount(t)'
  BY <1>3 DEF RetryWhole, FilterInv, TypeOK, GoodRun, GoodReport, GoodCount, Unpassed, Selected
<1> QED
  BY <1>1, <1>2, <1>3 DEF FilterInv

\* What the retrier of s writes into its cell is a good filter.
LEMMA NarrowedIsGood ==
  ASSUME FilterInv, NEW s \in Suites, pc[s] = "retrying", Reliable(s)
  PROVE  /\ NarrowedTo(s, failed[s]) \in SUBSET Tests
         /\ GoodFilter(s, NarrowedTo(s, failed[s]))
<1>1. failed[s] \subseteq Tests /\ filter[CellOf[s]] \subseteq Tests
  BY SmartRetryAssumption DEF FilterInv, TypeOK, Filters
<1>2. attempt[s] # 0
  <2>1. attempt[s] > 0 /\ attempt[s] \in 0..Retries
    BY DEF FilterInv, TypeOK, GoodReport
  <2> QED
    BY <2>1, SmartRetryAssumption
<1>3. /\ Unpassed(s) \subseteq failed[s]
      /\ mechanism # "tests to run" => failed[s] \subseteq Selected(s)
  BY DEF FilterInv, GoodReport, Reliable
<1>4. GoodFilter(s, filter[CellOf[s]])
  BY DEF FilterInv
<1>5. CASE failed[s] # {}
  <2>1. NarrowedTo(s, failed[s]) = failed[s]
    BY <1>5 DEF NarrowedTo
  <2>2. GoodFilter(s, failed[s])
    BY <1>2, <1>3 DEF GoodFilter
  <2> QED
    BY <1>1, <2>1, <2>2
<1>6. CASE failed[s] = {} /\ mechanism = "tests to run"
  <2>1. NarrowedTo(s, failed[s]) = Tests
    BY <1>6 DEF NarrowedTo
  <2>2. GoodFilter(s, Tests)
    BY <1>1, <1>2, <1>3, <1>6 DEF GoodFilter
  <2> QED
    BY <2>1, <2>2
<1>7. CASE failed[s] = {} /\ mechanism # "tests to run"
  <2>1. NarrowedTo(s, failed[s]) = filter[CellOf[s]]
    BY <1>7 DEF NarrowedTo
  <2> QED
    BY <1>1, <1>4, <2>1
<1> QED
  BY <1>5, <1>6, <1>7

\* A good filter in the cell of s disturbs no other suite, for the cell is its own.
LEMMA CellWritten ==
  ASSUME FilterInv, Unshared, NEW s \in Suites,
         NEW F \in SUBSET Tests, GoodFilter(s, F),
         filter' = [filter EXCEPT ![CellOf[s]] = F],
         UNCHANGED <<mechanism, attempt, passedTests, snapshot, runnerConfig>>,
         NEW t \in Suites
  PROVE  /\ filter' \in Filters
         /\ GoodFilter(t, filter[CellOf[t]])'
         /\ GoodFilter(t, runnerConfig[CellOf[t]])'
         /\ \A u \in Suites : GoodFilter(t, snapshot[u][CellOf[t]])'
<1> USE SmartRetryAssumption
<1>1. filter \in Filters /\ CellOf[s] \in Cells /\ CellOf[t] \in Cells
  BY DEF FilterInv, TypeOK
<1>2. filter' \in Filters
  BY <1>1 DEF Filters
<1>3. filter'[CellOf[t]] = IF t = s THEN F ELSE filter[CellOf[t]]
  BY <1>1 DEF Filters, Unshared
<1>4. GoodFilter(t, filter'[CellOf[t]])
  BY <1>3 DEF FilterInv
<1>5. GoodFilter(t, filter[CellOf[t]])'
  BY <1>4 DEF GoodFilter, Unpassed, Selected
<1>6. /\ GoodFilter(t, runnerConfig[CellOf[t]])'
      /\ \A u \in Suites : GoodFilter(t, snapshot[u][CellOf[t]])'
  BY DEF FilterInv, GoodFilter, Unpassed, Selected
<1> QED
  BY <1>2, <1>5, <1>6

\* The two retriers narrow the filter of their suite.
LEMMA NarrowKeeps ==
  ASSUME FilterInv, Unshared, NEW s \in Suites, RetryClasses(s) \/ FilterFailedTests(s)
  PROVE  FilterInv'
<1>1. /\ pc[s] = "retrying" /\ Reliable(s)
      /\ filter' = [filter EXCEPT ![CellOf[s]] = NarrowedTo(s, failed[s])]
      /\ UNCHANGED <<mechanism, attempt, passCount, ran, failed, outcome, passedTests,
                     snapshot, runnerConfig>>
  BY DEF RetryClasses, FilterFailedTests
<1>2. PICK next \in {"queued", "filtered"} : pc' = [pc EXCEPT ![s] = next]
  BY DEF RetryClasses, FilterFailedTests
<1>3. /\ NarrowedTo(s, failed[s]) \in SUBSET Tests
      /\ GoodFilter(s, NarrowedTo(s, failed[s]))
  BY <1>1, NarrowedIsGood
<1>4. ASSUME NEW t \in Suites
      PROVE  /\ filter' \in Filters
             /\ GoodFilter(t, filter[CellOf[t]])'
             /\ GoodFilter(t, runnerConfig[CellOf[t]])'
             /\ \A u \in Suites : GoodFilter(t, snapshot[u][CellOf[t]])'
  BY <1>1, <1>3, <1>4, CellWritten
<1>5. TypeOK'
  BY <1>1, <1>2, <1>4 DEF FilterInv, TypeOK
<1>6. ASSUME NEW t \in Suites PROVE GoodRun(t)' /\ GoodReport(t)' /\ GoodCount(t)'
  BY <1>1, <1>2, <1>6
     DEF FilterInv, TypeOK, GoodRun, GoodReport, GoodCount, Unpassed, Selected
<1> QED
  BY <1>4, <1>5, <1>6 DEF FilterInv

\* Archiving and uploading move filters that are good for every suite.
LEMMA ConfigKeeps ==
  ASSUME FilterInv, NEW s \in Suites,
         ArchiveRunnerConfig(s) \/ UploadConfig(s) \/ ConfigFails(s)
  PROVE  FilterInv'
<1>1. /\ UNCHANGED <<mechanism, attempt, passCount, ran, failed, outcome, passedTests, filter>>
      /\ pc[s] \in {"filtered", "archived"}
      /\ \/ snapshot' = [snapshot EXCEPT ![s] = filter] /\ runnerConfig' = runnerConfig
         \/ runnerConfig' = snapshot[s] /\ snapshot' = snapshot
         \/ UNCHANGED <<snapshot, runnerConfig>>
  BY DEF ArchiveRunnerConfig, UploadConfig, ConfigFails
<1>2. PICK next \in {"queued", "archived"} : pc' = [pc EXCEPT ![s] = next]
  BY DEF ArchiveRunnerConfig, UploadConfig, ConfigFails
<1>3. /\ runnerConfig' \in {runnerConfig, snapshot[s]}
      /\ snapshot' \in [Suites -> Filters]
      /\ \A u \in Suites : snapshot'[u] \in {filter, snapshot[u]}
  BY <1>1 DEF FilterInv, TypeOK
<1>4. TypeOK'
  BY <1>1, <1>2, <1>3 DEF FilterInv, TypeOK
<1>5. ASSUME NEW t \in Suites
      PROVE  /\ GoodFilter(t, filter[CellOf[t]])
             /\ GoodFilter(t, runnerConfig'[CellOf[t]])
             /\ \A u \in Suites : GoodFilter(t, snapshot'[u][CellOf[t]])
  BY <1>3, <1>5 DEF FilterInv
<1>6. ASSUME NEW t \in Suites
      PROVE  /\ GoodFilter(t, filter[CellOf[t]])'
             /\ GoodFilter(t, runnerConfig[CellOf[t]])'
             /\ \A u \in Suites : GoodFilter(t, snapshot[u][CellOf[t]])'
  BY <1>1, <1>5, <1>6 DEF GoodFilter, Unpassed, Selected
<1>7. ASSUME NEW t \in Suites PROVE GoodRun(t)' /\ GoodReport(t)' /\ GoodCount(t)'
  BY <1>1, <1>2, <1>7
     DEF FilterInv, TypeOK, GoodRun, GoodReport, GoodCount, Unpassed, Selected
<1> QED
  BY <1>4, <1>6, <1>7 DEF FilterInv

\* Nothing happens.
LEMMA StutterKeeps ==
  ASSUME FilterInv, UNCHANGED vars
  PROVE  FilterInv'
BY DEF vars, FilterInv, TypeOK, GoodFilter, GoodRun, GoodReport, GoodCount, Unpassed,
       Selected, Filters

-----------------------------------------------------------------------------
(* The theorems                                                            *)

\* The state keeps its shape whether or not suites share a cell: no attempt goes
\* beyond sauce.retries, and every place of a filter holds tests.
THEOREM RetryTypeCorrect == Spec => []TypeOK
<1> USE SmartRetryAssumption
<1>1. Init => TypeOK
  BY DEF Init, TypeOK, Filters
<1>2. ASSUME TypeOK, [Next]_vars
      PROVE  TypeOK'
  <2>1. ASSUME NEW s \in Suites, Start(s)
        PROVE  TypeOK'
    BY <1>2, <2>1 DEF Start, TypeOK, FilterAtStart, Filters
  <2>2. ASSUME NEW s \in Suites, NEW F \in SUBSET ran[s], NEW result \in {"passed", "failed"},
               End(s, F, result)
        PROVE  TypeOK'
    <3>1. PICK passes \in Nat :
            /\ passCount' = [passCount EXCEPT ![s] = passes]
            /\ Continue(s, result, passes)
      <4>1. passCount[s] + (IF result = "passed" THEN 1 ELSE 0) \in Nat
        BY <1>2 DEF TypeOK
      <4>2. QED
        BY <2>2, <4>1 DEF End
    <3>2. /\ attempt' \in [Suites -> 0..Retries]
          /\ pc' \in [Suites -> {"queued", "running", "retrying", "filtered", "archived",
                                 "passed", "failed"}]
      BY <1>2, <3>1, Continued
    <3>3. /\ failed' = [failed EXCEPT ![s] = F]
          /\ outcome' = [outcome EXCEPT ![s] = result]
          /\ passedTests' = [passedTests EXCEPT ![s] = @ \cup (ran[s] \ F)]
          /\ UNCHANGED <<mechanism, ran, filter, snapshot, runnerConfig>>
      BY <2>2 DEF End
    <3>4. QED
      BY <1>2, <3>1, <3>2, <3>3 DEF TypeOK, Filters
  <2>3. ASSUME NEW s \in Suites, NEW F \in SUBSET ran[s], EndInError(s, F)
        PROVE  TypeOK'
    <3>1. passCount[s] \in Nat /\ Continue(s, "error", passCount[s])
      BY <1>2, <2>3 DEF EndInError, TypeOK
    <3>2. /\ attempt' \in [Suites -> 0..Retries]
          /\ pc' \in [Suites -> {"queued", "running", "retrying", "filtered", "archived",
                                 "passed", "failed"}]
      BY <1>2, <3>1, Continued
    <3>3. F \subseteq Tests
      BY <1>2 DEF TypeOK
    <3>4. QED
      BY <1>2, <2>3, <3>2, <3>3 DEF EndInError, TypeOK
  <2>4. ASSUME NEW s \in Suites, RetryClasses(s) \/ FilterFailedTests(s)
        PROVE  TypeOK'
    <3>1. NarrowedTo(s, failed[s]) \subseteq Tests
      BY <1>2, <2>4 DEF TypeOK, NarrowedTo, Filters
    <3>2. filter' \in Filters
      BY <1>2, <2>4, <3>1 DEF RetryClasses, FilterFailedTests, TypeOK, Filters
    <3>3. QED
      BY <1>2, <2>4, <3>2 DEF RetryClasses, FilterFailedTests, TypeOK
  <2>5. ASSUME NEW s \in Suites,
               RetryWhole(s) \/ ArchiveRunnerConfig(s) \/ UploadConfig(s) \/ ConfigFails(s)
        PROVE  TypeOK'
    BY <1>2, <2>5 DEF RetryWhole, ArchiveRunnerConfig, UploadConfig, ConfigFails, TypeOK
  <2>6. ASSUME UNCHANGED vars
        PROVE  TypeOK'
    BY <1>2, <2>6 DEF vars, TypeOK
  <2>7. QED
    BY <1>2, <2>1, <2>2, <2>3, <2>4, <2>5, <2>6 DEF Next, Ends, Retry, AllReported
<1>3. QED
  BY <1>1, <1>2, PTL DEF Spec

\* The inductive invariant: whatever filter a job of a suite may be started with
\* matches the tests of the suite that still have to pass.
THEOREM FilterInvariant ==
  ASSUME Unshared
  PROVE  Spec => []FilterInv
<1>1. ASSUME FilterInv, [Next]_vars PROVE FilterInv'
  <2>1. ASSUME NEW s \in Suites, Start(s) PROVE FilterInv'
    BY <1>1, <2>1, StartKeeps
  <2>2. ASSUME NEW s \in Suites, Ends(s) PROVE FilterInv'
    BY <1>1, <2>2, EndKeeps, EndInErrorKeeps DEF Ends
  <2>3. ASSUME NEW s \in Suites, Retry(s) PROVE FilterInv'
    BY <1>1, <2>3, RetryWholeKeeps, NarrowKeeps, ConfigKeeps DEF Retry
  <2>4. ASSUME UNCHANGED vars PROVE FilterInv'
    BY <1>1, <2>4, StutterKeeps
  <2> QED
    BY <1>1, <2>1, <2>2, <2>3, <2>4 DEF Next, AllReported
<1> QED
  BY <1>1, InitFilterInv, PTL DEF Spec

\* A retry never leaves out a test that still has to pass, for any number of suites,
\* tests and retries and under any interleaving of the retriers.
THEOREM RetriesCoverUnpassed ==
  ASSUME Unshared
  PROVE  Spec => []AttemptsCoverUnpassed
<1>1. FilterInv => AttemptsCoverUnpassed
  BY DEF FilterInv, GoodRun, AttemptsCoverUnpassed
<1> QED
  BY <1>1, FilterInvariant, PTL

\* A suite reported as passed has seen every test it selects pass.
THEOREM PassesAreComplete ==
  ASSUME Unshared
  PROVE  Spec => []PassIsComplete
<1>1. FilterInv => PassIsComplete
  BY DEF FilterInv, GoodCount, PassIsComplete
<1> QED
  BY <1>1, FilterInvariant, PTL

\* The first attempt of a suite runs what the configuration selects.
THEOREM FirstAttemptsAreWhole ==
  ASSUME Unshared
  PROVE  Spec => []FirstAttemptIsWhole
<1>1. FilterInv => FirstAttemptIsWhole
  BY DEF FilterInv, GoodRun, FirstAttemptIsWhole
<1> QED
  BY <1>1, FilterInvariant, PTL

\* Retries run selected tests only, except where TestsToRun holds the filter.
THEOREM RetriesStaySelected ==
  ASSUME Unshared
  PROVE  Spec => []StaysSelected
<1>1. FilterInv => StaysSelected
  BY DEF FilterInv, GoodRun, StaysSelected
<1> QED
  BY <1>1, FilterInvariant, PTL
=============================================================================
