--------------------------- MODULE ReportsProofs ---------------------------
(***************************************************************************)
(* What Reports promises, for all suites, projects and folders: whatever   *)
(* the downloads and the collector do, in which order and to which end,    *)
(* the summaries agree with the exit status, and the JUnit report and      *)
(* Insights tell of a test what the cloud saw.                             *)
(*                                                                         *)
(* The JUnit report is a fold over the attempts, which is taken apart      *)
(* first.  The invariant then has a part for each thing that is handed     *)
(* on: what the attempts were, who waits for which download, who writes    *)
(* into which folder, what was counted, given to the reporters, posted and *)
(* printed.                                                                *)
(***************************************************************************)
EXTENDS Reports, SequenceLemmas

-----------------------------------------------------------------------------
(* MergeReports                                                            *)

\* The fold that MergeReports is: g is its value for every set of the first k
\* reports.
Merges(g, rs, k) ==
  g = [N \in SUBSET (1..k) |->
         IF N = {} THEN Nothing ELSE AddTestCases(g[N \ {Max(N)}], rs[Max(N)])]

LEMMA GreatestOfAll ==
  ASSUME NEW k \in Nat, NEW N \in SUBSET (1..(k + 1)), k + 1 \in N
  PROVE  Max(N) = k + 1
<1>1. N \in SUBSET (0..(k + 1)) /\ N # {}
  OBVIOUS
<1>2. PICK m : m = Max(N)
  OBVIOUS
<1>3. PICK n \in Nat : n = k + 1
  OBVIOUS
<1>4. N \in SUBSET (0..n) /\ N # {} /\ n \in N
  BY <1>1, <1>3
<1>5. m \in N /\ k + 1 <= m
  BY <1>2, <1>3, <1>4, GreatestNumber
<1>6. m \in 1..(k + 1)
  BY <1>5
<1>7. m = k + 1
  BY <1>5, <1>6
<1>8. QED
  BY <1>2, <1>7

\* The fold over the first reports is part of the one over one more.
LEMMA MergesOneMore ==
  ASSUME NEW rs, NEW k \in Nat, NEW g, Merges(g, rs, k)
  PROVE  \E h : Merges(h, rs, k + 1)
<1>1. PICK h : h = [N \in SUBSET (1..(k + 1)) |->
                      IF k + 1 \in N THEN AddTestCases(g[N \ {k + 1}], rs[k + 1]) ELSE g[N]]
  OBVIOUS
<1>2. \A N \in SUBSET (1..k) :
        g[N] = IF N = {} THEN Nothing ELSE AddTestCases(g[N \ {Max(N)}], rs[Max(N)])
  BY Zenon DEF Merges
<1>3. \A N \in SUBSET (1..k) : N \in SUBSET (1..(k + 1)) /\ k + 1 \notin N
  OBVIOUS
<1>4. \A N \in SUBSET (1..k) : h[N] = g[N]
  BY <1>1, <1>3
<1>5. ASSUME NEW N \in SUBSET (1..(k + 1))
      PROVE  h[N] = IF N = {} THEN Nothing ELSE AddTestCases(h[N \ {Max(N)}], rs[Max(N)])
  <2>1. CASE k + 1 \in N
    <3>1. Max(N) = k + 1
      BY <2>1, GreatestOfAll
    <3>2. PICK M : M = N \ {k + 1}
      OBVIOUS
    <3>3. M \in SUBSET (1..k)
      BY <3>2
    <3>4. h[N] = AddTestCases(g[M], rs[k + 1]) /\ h[M] = g[M]
      BY <1>1, <1>4, <2>1, <3>2, <3>3
    <3>5. N # {} /\ N \ {Max(N)} = M
      BY <2>1, <3>1, <3>2
    <3>6. QED
      BY <3>1, <3>4, <3>5
  <2>2. CASE k + 1 \notin N
    <3>1. \A i \in 1..(k + 1) : i # k + 1 => i \in 1..k
      OBVIOUS
    <3>2. N \in SUBSET (1..k) /\ N \ {Max(N)} \in SUBSET (1..k)
      BY <2>2, <3>1
    <3>3. h[N] = g[N] /\ h[N \ {Max(N)}] = g[N \ {Max(N)}]
      BY <1>4, <3>2
    <3>4. QED
      BY <1>2, <3>2, <3>3
  <2>3. QED
    BY <2>1, <2>2
<1>6. h = [N \in SUBSET (1..(k + 1)) |->
             IF N = {} THEN Nothing ELSE AddTestCases(h[N \ {Max(N)}], rs[Max(N)])]
  BY <1>1, <1>5
<1>7. Merges(h, rs, k + 1)
  BY <1>6, Zenon DEF Merges
<1>8. QED
  BY <1>7

\* There is such a fold.
LEMMA MergesExists ==
  ASSUME NEW rs, NEW n \in Nat
  PROVE  \E g : Merges(g, rs, n)
<1>1. PICK T : T = {k \in 0..n : \E g : Merges(g, rs, k)}
  OBVIOUS
<1>2. 0 \in T
  <2>1. PICK g : g = [N \in SUBSET (1..0) |-> Nothing]
    OBVIOUS
  <2>2. \A N \in SUBSET (1..0) : N = {}
    OBVIOUS
  <2>3. Merges(g, rs, 0)
    BY <2>1, <2>2 DEF Merges
  <2>4. QED
    BY <1>1, <2>3
<1>3. ASSUME NEW k \in 0..(n - 1), k \in T
      PROVE  k + 1 \in T
  <2>1. PICK g : Merges(g, rs, k)
    BY <1>1, <1>3
  <2>2. \E h : Merges(h, rs, k + 1)
    BY <2>1, MergesOneMore
  <2>3. k + 1 \in 0..n
    OBVIOUS
  <2>4. QED
    BY <1>1, <2>2, <2>3
<1>4. \A k \in 0..n : k \in T
  BY <1>2, <1>3, Induction
<1>5. QED
  BY <1>1, <1>4

\* MergeReports takes one report after the other.
MergedBy(f, rs, n) ==
  /\ f[0] = Nothing
  /\ \A k \in 0..(n - 1) : f[k + 1] = AddTestCases(f[k], rs[k + 1])
  /\ MergeReports(rs) = f[n]

LEMMA MergeReportsSteps ==
  ASSUME NEW rs, NEW n \in Nat, DOMAIN rs = 1..n
  PROVE  \E f : MergedBy(f, rs, n)
<1>1. \E g : Merges(g, rs, n)
  BY MergesExists
<1>2. PICK g : g = CHOOSE h : h = [N \in SUBSET DOMAIN rs |->
         IF N = {} THEN Nothing ELSE AddTestCases(h[N \ {Max(N)}], rs[Max(N)])]
  OBVIOUS
<1>3. Merges(g, rs, n)
  BY <1>1, <1>2, Zenon DEF Merges
<1>4. MergeReports(rs) = g[1..n]
  BY <1>2, Zenon DEF MergeReports, FoldLeft, MapThenFoldSet
<1>5. PICK f : f = [k \in 0..n |-> g[1..k]]
  OBVIOUS
<1>6. \A N \in SUBSET (1..n) :
        g[N] = IF N = {} THEN Nothing ELSE AddTestCases(g[N \ {Max(N)}], rs[Max(N)])
  BY <1>3, Zenon DEF Merges
<1>7. f[0] = Nothing
  <2>1. 1..0 = {} /\ 1..0 \in SUBSET (1..n) /\ 0 \in 0..n
    OBVIOUS
  <2>2. g[1..0] = Nothing
    BY <1>6, <2>1
  <2>3. QED
    BY <1>5, <2>1, <2>2
<1>8. ASSUME NEW k \in 0..(n - 1)
      PROVE  f[k + 1] = AddTestCases(f[k], rs[k + 1])
  <2>1. PICK N : N = 1..(k + 1)
    OBVIOUS
  <2>2. N \in SUBSET (1..n) /\ N \in SUBSET (1..(k + 1)) /\ k + 1 \in N /\ k \in Nat
    BY <2>1
  <2>3. Max(N) = k + 1
    BY <2>2, GreatestOfAll
  <2>4. N \ {Max(N)} = 1..k
    BY <2>1, <2>3
  <2>5. g[N] = AddTestCases(g[1..k], rs[k + 1])
    BY <1>6, <2>2, <2>3, <2>4
  <2>6. k \in 0..n /\ k + 1 \in 0..n
    OBVIOUS
  <2>7. QED
    BY <1>5, <2>1, <2>5, <2>6
<1>9. f[n] = g[1..n]
  BY <1>5
<1>10. QED
  BY <1>4, <1>7, <1>8, <1>9 DEF MergedBy

\* A report is finite, and so its tests of one name have a last one.
Report(ran) == DOMAIN ran \in SUBSET Nat /\ IsFiniteSet(DOMAIN ran)

LEMMA LastOfItsName ==
  ASSUME NEW ran, Report(ran), NEW t, NEW u \in DOMAIN ran, SameCase(t, u)
  PROVE  \E w \in DOMAIN ran : IsLastOf(ran, w) /\ SameCase(t, w)
<1>1. PICK D : D = DOMAIN ran
  OBVIOUS
<1>2. PICK U : U = {w \in D : SameCase(t, w)}
  OBVIOUS
<1>3. U \in SUBSET Nat /\ IsFiniteSet(U) /\ U # {}
  <2>1. U \subseteq D /\ u \in U
    BY <1>1, <1>2
  <2>2. QED
    BY <1>1, <2>1, FS_Subset DEF Report
<1>4. PICK w : w = Max(U)
  OBVIOUS
<1>5. w \in U /\ \A v \in U : v <= w
  BY <1>3, <1>4, GreatestOfFinite
<1>6. w \in D /\ SameCase(t, w)
  BY <1>2, <1>5
<1>7. \A v \in D : SameCase(w, v) => v \in U
  BY <1>2, <1>6 DEF SameCase
<1>8. IsLastOf(ran, w)
  BY <1>1, <1>5, <1>6, <1>7 DEF IsLastOf
<1>9. QED
  BY <1>1, <1>6, <1>8

\* What a report tells of the first k attempts: of a test in it the result of the
\* last that ran it, and of every test that ran one of its name.
Tells(report, rs, k) ==
  /\ Report(report)
  /\ \A t \in DOMAIN report :
       \E i \in 1..k : /\ t \in DOMAIN rs[i] /\ report[t] = rs[i][t]
                       /\ \A m \in (i + 1)..k : t \notin DOMAIN rs[m]
  /\ \A i \in 1..k : \A t \in DOMAIN rs[i] : \E u \in DOMAIN report : SameCase(t, u)

\* The tests of two reports that are in the merged one.
IsKept(old, new, t) ==
  /\ t \in DOMAIN old \cup DOMAIN new
  /\ \/ Element[t] \notin Elements(old) \cap Elements(new)
     \/ IsLastOf(new, t)
     \/ IsLastOf(old, t) /\ \A u \in DOMAIN new : ~SameCase(t, u)

LEMMA AddedForm ==
  ASSUME NEW old, NEW new, NEW both, both = AddTestCases(old, new)
  PROVE  /\ \A t : t \in DOMAIN both <=> IsKept(old, new, t)
         /\ \A t \in DOMAIN both : both[t] = IF t \in DOMAIN new THEN new[t] ELSE old[t]
BY DEF AddTestCases, IsKept

\* Every test of either report has one of its name in the merged one.
LEMMA NoNameIsLost ==
  ASSUME NEW old, NEW new, Report(old), Report(new), NEW t, NEW u,
         u \in DOMAIN old \/ u \in DOMAIN new, SameCase(t, u)
  PROVE  \E w : IsKept(old, new, w) /\ SameCase(t, w)
<1>1. CASE Element[t] \notin Elements(old) \cap Elements(new)
  <2>1. Element[u] = Element[t]
    BY DEF SameCase
  <2>2. IsKept(old, new, u)
    BY <1>1, <2>1 DEF IsKept
  <2>3. QED
    BY <2>2
<1>2. CASE \E v \in DOMAIN new : SameCase(t, v)
  <2>1. PICK w \in DOMAIN new : IsLastOf(new, w) /\ SameCase(t, w)
    BY <1>2, LastOfItsName
  <2>2. IsKept(old, new, w)
    BY <2>1 DEF IsKept
  <2>3. QED
    BY <2>1, <2>2
<1>3. CASE \A v \in DOMAIN new : ~SameCase(t, v)
  <2>1. u \in DOMAIN old
    BY <1>3
  <2>2. PICK w \in DOMAIN old : IsLastOf(old, w) /\ SameCase(t, w)
    BY <2>1, LastOfItsName
  <2>3. \A v \in DOMAIN new : ~SameCase(w, v)
    BY <1>3, <2>2 DEF SameCase
  <2>4. IsKept(old, new, w)
    BY <2>2, <2>3 DEF IsKept
  <2>5. QED
    BY <2>2, <2>4
<1>4. QED
  BY <1>2, <1>3

LEMMA TellsOneMore ==
  ASSUME NEW rs, NEW k \in Nat, NEW old, Tells(old, rs, k), Report(rs[k + 1])
  PROVE  Tells(AddTestCases(old, rs[k + 1]), rs, k + 1)
<1>1. PICK new : new = rs[k + 1]
  OBVIOUS
<1>2. PICK both : both = AddTestCases(old, new)
  OBVIOUS
<1>3. /\ \A t : t \in DOMAIN both <=> IsKept(old, new, t)
      /\ \A t \in DOMAIN both : both[t] = IF t \in DOMAIN new THEN new[t] ELSE old[t]
  BY <1>2, AddedForm
<1>4. Report(old) /\ Report(new)
  BY <1>1 DEF Tells
<1>5. Report(both)
  <2>1. PICK A, B, C : A = DOMAIN old /\ B = DOMAIN new /\ C = DOMAIN both
    OBVIOUS
  <2>2. A \in SUBSET Nat /\ B \in SUBSET Nat /\ IsFiniteSet(A) /\ IsFiniteSet(B)
    BY <1>4, <2>1 DEF Report
  <2>3. C \subseteq A \cup B
    BY <1>3, <2>1 DEF IsKept
  <2>4. IsFiniteSet(C)
    BY <2>2, <2>3, FS_Union, FS_Subset
  <2>5. QED
    BY <2>1, <2>2, <2>3, <2>4 DEF Report
<1>6. ASSUME NEW t \in DOMAIN both
      PROVE  \E i \in 1..(k + 1) : /\ t \in DOMAIN rs[i] /\ both[t] = rs[i][t]
                                   /\ \A m \in (i + 1)..(k + 1) : t \notin DOMAIN rs[m]
  <2>1. CASE t \in DOMAIN new
    <3>1. both[t] = rs[k + 1][t] /\ t \in DOMAIN rs[k + 1]
      BY <1>1, <1>3, <2>1
    <3>2. k + 1 \in 1..(k + 1) /\ \A m \in ((k + 1) + 1)..(k + 1) : FALSE
      OBVIOUS
    <3>3. QED
      BY <3>1, <3>2
  <2>2. CASE t \notin DOMAIN new
    <3>1. t \in DOMAIN old /\ both[t] = old[t]
      BY <1>3, <2>2 DEF IsKept
    <3>2. PICK i \in 1..k : /\ t \in DOMAIN rs[i] /\ old[t] = rs[i][t]
                            /\ \A m \in (i + 1)..k : t \notin DOMAIN rs[m]
      BY <3>1 DEF Tells
    <3>3. \A m \in (i + 1)..(k + 1) : m \in (i + 1)..k \/ m = k + 1
      OBVIOUS
    <3>4. \A m \in (i + 1)..(k + 1) : t \notin DOMAIN rs[m]
      BY <1>1, <2>2, <3>2, <3>3
    <3>5. i \in 1..(k + 1)
      OBVIOUS
    <3>6. QED
      BY <3>1, <3>2, <3>4, <3>5
  <2>3. QED
    BY <2>1, <2>2
<1>7. ASSUME NEW i \in 1..(k + 1), NEW t \in DOMAIN rs[i]
      PROVE  \E u \in DOMAIN both : SameCase(t, u)
  <2>1. \E u : (u \in DOMAIN old \/ u \in DOMAIN new) /\ SameCase(t, u)
    <3>1. CASE i = k + 1
      BY <1>1, <1>7, <3>1 DEF SameCase
    <3>2. CASE i # k + 1
      <4>1. i \in 1..k
        BY <3>2
      <4>2. QED
        BY <1>7, <4>1 DEF Tells
    <3>3. QED
      BY <3>1, <3>2
  <2>2. PICK w : IsKept(old, new, w) /\ SameCase(t, w)
    BY <1>4, <2>1, NoNameIsLost
  <2>3. QED
    BY <1>3, <2>2
<1>8. Tells(both, rs, k + 1)
  BY <1>5, <1>6, <1>7 DEF Tells
<1>9. QED
  BY <1>1, <1>2, <1>8

\* A merged report tells of all attempts.
LEMMA MergedTells ==
  ASSUME NEW rs, NEW n \in Nat, DOMAIN rs = 1..n, \A i \in 1..n : Report(rs[i])
  PROVE  Tells(MergeReports(rs), rs, n)
<1>1. PICK f : MergedBy(f, rs, n)
  BY MergeReportsSteps
<1>2. PICK T : T = {k \in 0..n : Tells(f[k], rs, k)}
  OBVIOUS
<1>3. 0 \in T
  <2>1. PICK none : none = Nothing
    OBVIOUS
  <2>2. DOMAIN none = {}
    BY <2>1 DEF Nothing
  <2>3. Report(none)
    BY <2>2, FS_EmptySet DEF Report
  <2>4. \A i \in 1..0 : FALSE
    OBVIOUS
  <2>5. Tells(none, rs, 0)
    BY <2>2, <2>3, <2>4 DEF Tells
  <2>6. QED
    BY <1>1, <1>2, <2>1, <2>5 DEF MergedBy
<1>4. ASSUME NEW k \in 0..(n - 1), k \in T
      PROVE  k + 1 \in T
  <2>1. k \in Nat /\ k + 1 \in 1..n /\ k + 1 \in 0..n
    OBVIOUS
  <2>2. Tells(f[k], rs, k) /\ Report(rs[k + 1])
    BY <1>2, <1>4, <2>1
  <2>3. f[k + 1] = AddTestCases(f[k], rs[k + 1])
    BY <1>1 DEF MergedBy
  <2>4. QED
    BY <1>2, <2>1, <2>2, <2>3, TellsOneMore
<1>5. \A k \in 0..n : k \in T
  BY <1>3, <1>4, Induction
<1>6. QED
  BY <1>1, <1>2, <1>5 DEF MergedBy

-----------------------------------------------------------------------------
(* The invariant                                                           *)

\* Results of the tests that are run: all of them, or some in a retry.
Results == UNION {[R -> Verdicts] : R \in SUBSET project.tests}
Attempts == [job : Jobs, ran : Results]

\* What can be the matter with a suite.
Stages == {"running", "saving", "sent", "skipped", "collected"}

\* What every answer of runJob is like: the job of an attempt that ran out of
\* time has not succeeded, and with --async a job either could not be started or
\* has only just been.
JobForm(j) ==
  /\ j.timedOut => ~IsSuccessful(j)
  /\ project.async => ~j.timedOut /\ (j = ErrorJob \/ ~Done(j.status))

\* The attempts meet a threshold that asks for something.
Met(s, as) == project.threshold[s] # 0 /\ PassCount(as) >= project.threshold[s]

\* A suite that is through has an attempt, and met a threshold that asks for
\* something only by a last attempt that succeeded; one that still runs has not
\* met it.
TriedInv ==
  /\ project \in Projects
  /\ tried \in [Suites -> Seq(Attempts)]
  /\ pc \in [Suites -> Stages]
  /\ \A s \in Suites :
       /\ \A i \in DOMAIN tried[s] : JobForm(tried[s][i].job)
       /\ pc[s] = "running" => ~Met(s, tried[s])
       /\ pc[s] \in {"saving", "sent", "collected"} =>
            /\ tried[s] # <<>>
            /\ Met(s, tried[s]) => IsSuccessful(LastAttempt(s).job)

\* The folders downloads go to, and the downloads.
Folders == {Folder[s] : s \in Suites} \X Nat
Saves ==
  [suite : Suites, attempt : Nat, last : BOOLEAN, at : {"look", "make"},
   dir : {None} \cup Folders]

\* The worker waits for one download, that of its last attempt.
WaitInv ==
  /\ saves \subseteq Saves
  /\ \A d \in saves : d.at = "make" => d.dir \in Folders
  /\ \A d \in saves :
       d.last => pc[d.suite] = "saving" /\ d.attempt = Len(tried[d.suite])
  /\ \A d, e \in saves : d.last /\ e.last /\ d.suite = e.suite => d = e

\* Unless two downloads looked for a folder at one time, nobody else writes into
\* the folder a download found, and the last attempt of a suite is in the folder
\* its worker knows.
FolderInv ==
  /\ IsFiniteSet(DOMAIN disk) /\ DOMAIN local = Suites
  /\ \A d \in DOMAIN disk : d[2] \in Nat /\ d = <<d[1], d[2]>>
  /\ ~raced =>
       /\ \A d \in saves : d.at = "make" => d.dir \notin DOMAIN disk
       /\ \A d, e \in saves : d.at = "make" /\ e.at = "make" /\ d.dir = e.dir => d = e
       /\ \A s \in Suites : local[s] # None =>
            /\ pc[s] \in {"sent", "collected"}
            /\ local[s] \in DOMAIN disk /\ disk[local[s]] = <<s, Len(tried[s])>>

\* The verdict is that of the suites collected so far.
VerdictInv == passed <=> \A s \in Reported : ~(Done(Outcome(s).status) /\ ~Outcome(s).passed)

\* What the reporters were given.
EntriesInv ==
  /\ DOMAIN entries = Suites
  /\ \A s \in Reported :
       /\ entries[s].status = TotalStatus(Outcome(s))
       /\ entries[s].timedOut = Outcome(s).timedOut
       /\ entries[s].rdc = Outcome(s).isRDC
       /\ FoundAll(s) => entries[s].reports = [i \in DOMAIN tried[s] |-> tried[s][i].ran]

\* What Insights was told.
PostedInv ==
  /\ DOMAIN posted = Suites
  /\ \A s \in Suites : posted[s] # None =>
       /\ pc[s] = "collected"
       /\ \E source \in {"junit.xml", "sauce-test-report.json"} :
            posted[s] = [source |-> source, runs |-> TestRuns(s, source)]

\* What the reporters made of it.
Printed ==
  LET E == [s \in Reported |-> entries[s]]
  IN  [tables |-> Tables(E), github |-> GitHub(E), spotlight |-> Spotlight(E),
       junit |-> [s \in Reported |-> MergeReports(E[s].reports)]]

PrintedInv == printed # None => Answered = Suites /\ printed = Printed

ReportsInv ==
  TriedInv /\ WaitInv /\ FolderInv /\ VerdictInv /\ EntriesInv /\ PostedInv /\ PrintedInv

-----------------------------------------------------------------------------
(* Attempts                                                                *)

\* What runJob answers with is an attempt, of a job that is as said.
LEMMA EndedAttemptForm ==
  ASSUME TriedInv, NEW s \in Suites, NEW a \in EndedAttempts(s)
  PROVE  a \in Attempts /\ JobForm(a.job)
<1>1. RealDevice[s] \in BOOLEAN
  BY ReportsAssumption DEF TriedInv, Suites
<1>2. PICK rdc \in BOOLEAN : rdc = RealDevice[s]
  BY <1>1
<1>3. Nothing \in Results
  <2>1. Nothing \in [{} -> Verdicts]
    BY DEF Nothing
  <2>2. QED
    BY <2>1 DEF Results
<1>4. CASE a = Attempt(ErrorJob, Nothing)
  <2>1. ErrorJob \in Jobs /\ ErrorJob.timedOut = FALSE
    BY DEF ErrorJob, NoJob, Jobs, States, StateError
  <2>2. a.job = ErrorJob /\ a \in Attempts
    BY <1>3, <1>4, <2>1 DEF Attempt, Attempts
  <2>3. QED
    BY <2>1, <2>2 DEF JobForm
<1>5. CASE project.async /\ a = Attempt(Started(s), Nothing)
  <2>1. PICK j : j = Started(s)
    OBVIOUS
  <2>2. j = [status |-> IF rdc THEN StateQueued ELSE StateInProgress, passed |-> FALSE,
             completed |-> FALSE, isRDC |-> rdc, timedOut |-> FALSE, hasID |-> TRUE]
    BY <1>2, <2>1 DEF Started, Unfinished, NoJob
  <2>3. j \in Jobs /\ j.timedOut = FALSE /\ ~Done(j.status)
    BY <2>2 DEF Jobs, States, StateQueued, StateInProgress, Done, DoneStates, StateComplete,
                StateError, StatePassed, StateFailed
  <2>4. a.job = j /\ a \in Attempts
    BY <1>3, <1>5, <2>1, <2>3 DEF Attempt, Attempts
  <2>5. QED
    BY <2>3, <2>4 DEF JobForm
<1>6. CASE ~project.async /\ a = Attempt(NoJob, Nothing)
  <2>1. NoJob \in Jobs /\ NoJob.timedOut = FALSE
    BY DEF NoJob, Jobs, States, NoState
  <2>2. a.job = NoJob /\ a \in Attempts
    BY <1>3, <1>6, <2>1 DEF Attempt, Attempts
  <2>3. QED
    BY <1>6, <2>1, <2>2 DEF JobForm
<1>7. CASE ~project.async /\ a = Attempt([Unfinished(s) EXCEPT !.timedOut = TRUE], Nothing)
  <2>1. PICK j : j = [Unfinished(s) EXCEPT !.timedOut = TRUE]
    OBVIOUS
  <2>2. j = [status |-> StateInProgress, passed |-> FALSE,
             completed |-> FALSE, isRDC |-> rdc, timedOut |-> TRUE, hasID |-> TRUE]
    BY <1>2, <2>1 DEF Unfinished, NoJob
  <2>3. j \in Jobs /\ ~IsSuccessful(j)
    BY <2>2 DEF Jobs, States, IsSuccessful
  <2>4. a.job = j /\ a \in Attempts
    BY <1>3, <1>7, <2>1, <2>3 DEF Attempt, Attempts
  <2>5. QED
    BY <1>7, <2>3, <2>4 DEF JobForm
<1>8. CASE /\ ~project.async
           /\ \E o \in Outcomes(RealDevice[s]), R \in NextTests(s) :
                \E ran \in [R -> project.says] : a = Attempt(ParseJob(RealDevice[s], o), ran)
  <2>1. PICK o \in Outcomes(rdc), R \in NextTests(s) :
               \E ran \in [R -> project.says] : a = Attempt(ParseJob(rdc, o), ran)
    BY <1>2, <1>8
  <2>2. PICK ran \in [R -> project.says] : a = Attempt(ParseJob(rdc, o), ran)
    BY <2>1
  <2>3. PICK j : j = ParseJob(rdc, o)
    OBVIOUS
  <2>4. j \in Jobs /\ j.timedOut = FALSE
    <3>1. CASE rdc
      <4>1. j = RDCJob(o) /\ o \in {StatePassed, StateFailed, StateComplete, StateError}
        BY <2>3, <3>1 DEF ParseJob, Outcomes
      <4>2. QED
        BY <4>1 DEF RDCJob, Jobs, States
    <3>2. CASE ~rdc
      <4>1. j = RestoJob(o) /\ o \in {StatePassed, StateFailed, StateError}
        BY <2>3, <3>2 DEF ParseJob, Outcomes
      <4>2. QED
        BY <4>1 DEF RestoJob, Jobs, States
    <3>3. QED
      BY <3>1, <3>2
  <2>5. R \in SUBSET project.tests
    <3>1. CASE tried[s] = <<>>
      BY <3>1 DEF NextTests
    <3>2. CASE tried[s] # <<>>
      BY <3>2 DEF NextTests
    <3>3. QED
      BY <3>1, <3>2
  <2>6. ran \in Results
    <3>1. project.says \subseteq Verdicts
      BY ReportsAssumption DEF TriedInv
    <3>2. ran \in [R -> Verdicts]
      BY <2>2, <3>1
    <3>3. QED
      BY <2>5, <3>2 DEF Results
  <2>7. a.job = j /\ a \in Attempts
    BY <2>2, <2>3, <2>4, <2>6 DEF Attempt, Attempts
  <2>8. QED
    BY <1>8, <2>4, <2>7 DEF JobForm
<1>9. QED
  BY <1>4, <1>5, <1>6, <1>7, <1>8 DEF EndedAttempts

\* An attempt that did not succeed counts for nothing.
LEMMA PassCountKept ==
  ASSUME NEW old \in Seq(Attempts), NEW a, ~IsSuccessful(a.job)
  PROVE  PassCount(Append(old, a)) = PassCount(old)
<1>1. PICK new : new = Append(old, a)
  OBVIOUS
<1>2. /\ DOMAIN new = DOMAIN old \cup {Len(old) + 1} /\ new[Len(old) + 1] = a
      /\ Len(old) + 1 \notin DOMAIN old
      /\ \A i \in DOMAIN old : new[i] = old[i]
  <2>1. DOMAIN new = DOMAIN old \cup {Len(old) + 1}
    BY <1>1, Appended
  <2>2. new[Len(old) + 1] = a /\ Len(old) + 1 \notin DOMAIN old
    BY <1>1, Appended
  <2>3. \A i \in DOMAIN old : new[i] = old[i]
    BY <1>1, Appended
  <2>4. QED
    BY <2>1, <2>2, <2>3
<1>3. \A i : i \in DOMAIN new /\ IsSuccessful(new[i].job) <=> i \in DOMAIN old /\ IsSuccessful(old[i].job)
  BY <1>2, Zenon
<1>4. {i \in DOMAIN new : IsSuccessful(new[i].job)} = {i \in DOMAIN old : IsSuccessful(old[i].job)}
  BY <1>3, Zenon
<1>5. QED
  BY <1>1, <1>4 DEF PassCount

LEMMA LenIsNat ==
  ASSUME NEW S, NEW q \in Seq(S)
  PROVE  Len(q) \in Nat
OBVIOUS

\* What the steps other than the end of an attempt do to the suites.
Moved ==
  /\ tried' = tried
  /\ pc' \in [Suites -> Stages]
  /\ \A s \in Suites :
       \/ pc'[s] = pc[s]
       \/ pc[s] = "running" /\ pc'[s] = "skipped"
       \/ pc[s] = "saving" /\ pc'[s] = "sent"
       \/ pc[s] = "sent" /\ pc'[s] = "collected"

\* The attempts of s after one more.
Ended(s, a, more) ==
  /\ pc[s] = "running"
  /\ a \in EndedAttempts(s)
  /\ more = Append(tried[s], a)
  /\ tried' = [tried EXCEPT ![s] = more]

LEMMA ProjectStays ==
  ASSUME [Next]_vars
  PROVE  project' = project /\ Suites' = Suites /\ Results' = Results /\ Attempts' = Attempts
<1>1. project' = project
  BY DEF Next, Retry, Settle, Skip, Collect, Look, LookFails, Fetch, FetchNothing, EndSave, Render, Exit,
         vars
<1>2. QED
  BY <1>1 DEF Suites, Results, Attempts

LEMMA SkipMoves ==
  ASSUME TriedInv, NEW s \in Suites, Skip(s)
  PROVE  Moved
BY DEF TriedInv, Skip, Moved, Stages

LEMMA CollectMoves ==
  ASSUME TriedInv, NEW s \in Suites, Collect(s)
  PROVE  Moved
BY DEF TriedInv, Collect, Moved, Stages

LEMMA EndSaveMoves ==
  ASSUME TriedInv, WaitInv, NEW d \in saves, NEW dir, EndSave(d, dir)
  PROVE  Moved
<1>1. CASE d.last
  <2>1. pc[d.suite] = "saving"
    BY <1>1 DEF WaitInv
  <2>2. pc' = [pc EXCEPT ![d.suite] = "sent"] /\ tried' = tried
    BY <1>1 DEF EndSave
  <2>3. QED
    BY <2>1, <2>2 DEF TriedInv, Moved, Stages
<1>2. CASE ~d.last
  BY <1>2 DEF TriedInv, EndSave, Moved
<1>3. QED
  BY <1>1, <1>2

\* Every step moves suites on or ends an attempt.
LEMMA MovesOrEnds ==
  ASSUME TriedInv, WaitInv, [Next]_vars
  PROVE  Moved \/ \E s \in Suites : Retry(s) \/ Settle(s)
<1>1. ASSUME NEW s \in Suites, Skip(s)
      PROVE  Moved
  BY <1>1, SkipMoves
<1>2. ASSUME NEW s \in Suites, Collect(s)
      PROVE  Moved
  BY <1>2, CollectMoves
<1>3. ASSUME NEW d \in saves, Look(d)
      PROVE  Moved
  BY <1>3 DEF Look, TriedInv, Moved
<1>4. ASSUME NEW d \in saves, Fetch(d)
      PROVE  Moved
  BY <1>4, EndSaveMoves DEF Fetch
<1>5. ASSUME NEW d \in saves, FetchNothing(d) \/ LookFails(d)
      PROVE  Moved
  BY <1>5, EndSaveMoves DEF FetchNothing, LookFails
<1>6. ASSUME Render \/ Exit \/ UNCHANGED vars
      PROVE  Moved
  BY <1>6 DEF Render, Exit, vars, TriedInv, Moved
<1>7. QED
  BY <1>1, <1>2, <1>3, <1>4, <1>5, <1>6 DEF Next

\* A suite that is through keeps its attempts, and does not go back.
LEMMA SettledStay ==
  ASSUME TriedInv, WaitInv, [Next]_vars, NEW s \in Suites, pc[s] # "running"
  PROVE  /\ tried'[s] = tried[s]
         /\ pc[s] \in {"skipped", "collected"} => pc'[s] = pc[s]
         /\ pc[s] = "sent" => pc'[s] \in {"sent", "collected"}
         /\ pc[s] = "saving" => pc'[s] \in {"saving", "sent"}
         /\ pc'[s] # "running"
<1>1. CASE Moved
  BY <1>1 DEF Moved
<1>2. ASSUME NEW x \in Suites, Retry(x)
      PROVE  tried'[s] = tried[s] /\ pc' = pc
  BY <1>2 DEF Retry, TriedInv
<1>3. ASSUME NEW x \in Suites, Settle(x)
      PROVE  tried'[s] = tried[s] /\ pc'[s] = pc[s]
  BY <1>3 DEF Settle, TriedInv
<1>4. QED
  BY <1>1, <1>2, <1>3, MovesOrEnds

-----------------------------------------------------------------------------
(* TriedInv                                                                *)

LEMMA TriedInit ==
  ASSUME Init
  PROVE  TriedInv
<1>1. /\ project \in Projects
      /\ tried = [s \in Suites |-> <<>>] /\ pc = [s \in Suites |-> "running"]
  BY DEF Init
<1>2. \A T : <<>> \in Seq(T) /\ DOMAIN <<>> = {}
  OBVIOUS
<1>3. ASSUME NEW s \in Suites
      PROVE  ~Met(s, tried[s])
  <2>1. tried[s] = <<>>
    BY <1>1
  <2>2. {i \in DOMAIN tried[s] : IsSuccessful(tried[s][i].job)} = {}
    BY <1>2, <2>1
  <2>3. PassCount(tried[s]) = 0
    BY <2>2, FS_EmptySet DEF PassCount
  <2>4. /\ project.retries \in Nat
        /\ project.threshold[s] \in 0..(project.retries + 1)
    BY <1>1, ReportsAssumption DEF Suites
  <2>5. QED
    BY <2>3, <2>4 DEF Met
<1>4. tried \in [Suites -> Seq(Attempts)]
  BY <1>1, <1>2
<1>5. QED
  BY <1>1, <1>2, <1>3, <1>4 DEF TriedInv, Stages

LEMMA TriedMoved ==
  ASSUME TriedInv, [Next]_vars, Moved
  PROVE  TriedInv'
<1>1. project' = project /\ Suites' = Suites /\ Attempts' = Attempts
  BY ProjectStays
<1>2. tried' = tried /\ pc' \in [Suites -> Stages]
  BY DEF Moved
<1>3. ASSUME NEW s \in Suites
      PROVE  /\ \A i \in DOMAIN tried'[s] : JobForm(tried[s][i].job)'
             /\ pc'[s] = "running" => ~Met(s, tried[s])'
             /\ pc'[s] \in {"saving", "sent", "collected"} =>
                  /\ tried'[s] # <<>>
                  /\ Met(s, tried[s])' => IsSuccessful(LastAttempt(s).job)'
  <2>1. \A i \in DOMAIN tried'[s] : JobForm(tried[s][i].job)'
    BY <1>1, <1>2 DEF TriedInv, JobForm
  <2>2. LastAttempt(s)' = LastAttempt(s) /\ (Met(s, tried[s])' <=> Met(s, tried[s]))
    BY <1>1, <1>2 DEF LastAttempt, Met
  <2>3. pc'[s] = "running" => pc[s] = "running"
    BY DEF Moved, TriedInv, Stages
  <2>4. pc'[s] \in {"saving", "sent", "collected"} => pc[s] \in {"saving", "sent", "collected"}
    BY DEF Moved
  <2>5. QED
    BY <1>2, <2>1, <2>2, <2>3, <2>4 DEF TriedInv
<1>4. QED
  BY <1>1, <1>2, <1>3 DEF TriedInv

\* The attempts after one more are attempts, and the threshold is met by the last.
LEMMA EndedForm ==
  ASSUME TriedInv, NEW s \in Suites, NEW a, NEW more, Ended(s, a, more)
  PROVE  /\ more \in Seq(Attempts) /\ more # <<>>
         /\ Len(more) = Len(tried[s]) + 1 /\ more[Len(more)] = a
         /\ \A i \in DOMAIN more : JobForm(more[i].job)
         /\ Met(s, more) => IsSuccessful(a.job)
<1>1. PICK old : old = tried[s]
  OBVIOUS
<1>2. old \in Seq(Attempts) /\ a \in Attempts /\ JobForm(a.job) /\ more = Append(old, a)
  BY <1>1, EndedAttemptForm DEF TriedInv, Ended
<1>3. PICK S : S = Attempts
  OBVIOUS
<1>4. more \in Seq(S) /\ more # <<>> /\ Len(more) = Len(old) + 1
  BY <1>2, <1>3
<1>5. more[Len(old) + 1] = a /\ \A i \in DOMAIN old : more[i] = old[i]
  BY <1>2, Appended
<1>6. DOMAIN more = DOMAIN old \cup {Len(old) + 1}
  BY <1>2, Appended
<1>7. \A i \in DOMAIN old : JobForm(old[i].job)
  BY <1>1 DEF TriedInv
<1>8. \A i \in DOMAIN more : JobForm(more[i].job)
  BY <1>2, <1>5, <1>6, <1>7, Zenon
<1>9. ~IsSuccessful(a.job) => PassCount(more) = PassCount(old)
  BY <1>2, PassCountKept
<1>10. ~Met(s, old)
  BY <1>1 DEF TriedInv, Ended
<1>11. Met(s, more) => IsSuccessful(a.job)
  BY <1>9, <1>10 DEF Met
<1>12. QED
  BY <1>1, <1>3, <1>4, <1>5, <1>8, <1>11

LEMMA TriedEnded ==
  ASSUME TriedInv, [Next]_vars, NEW s \in Suites, NEW a, NEW more, Ended(s, a, more),
         pc' \in [Suites -> Stages], pc'[s] \in {"running", "saving", "sent"},
         pc'[s] = "running" => ~Met(s, more),
         \A x \in Suites \ {s} : pc'[x] = pc[x]
  PROVE  TriedInv'
<1>1. project' = project /\ Suites' = Suites /\ Attempts' = Attempts
  BY ProjectStays
<1>2. /\ more \in Seq(Attempts) /\ more # <<>> /\ more[Len(more)] = a
      /\ \A i \in DOMAIN more : JobForm(more[i].job)
      /\ Met(s, more) => IsSuccessful(a.job)
  BY EndedForm
<1>3. tried' = [tried EXCEPT ![s] = more] /\ tried \in [Suites -> Seq(Attempts)]
  BY DEF Ended, TriedInv
<1>4. tried' \in [Suites -> Seq(Attempts)]
  BY <1>2, <1>3
<1>5. ASSUME NEW x \in Suites
      PROVE  /\ \A i \in DOMAIN tried'[x] : JobForm(tried[x][i].job)'
             /\ pc'[x] = "running" => ~Met(x, tried[x])'
             /\ pc'[x] \in {"saving", "sent", "collected"} =>
                  /\ tried'[x] # <<>>
                  /\ Met(x, tried[x])' => IsSuccessful(LastAttempt(x).job)'
  <2>1. CASE x = s
    <3>1. tried'[x] = more
      BY <1>3, <2>1
    <3>2. \A i \in DOMAIN tried'[x] : JobForm(tried[x][i].job)'
      BY <1>1, <1>2, <3>1 DEF JobForm
    <3>3. LastAttempt(x)' = a /\ (Met(x, tried[x])' <=> Met(s, more))
      BY <1>1, <1>2, <2>1, <3>1 DEF LastAttempt, Met
    <3>4. QED
      BY <1>2, <2>1, <3>1, <3>2, <3>3
  <2>2. CASE x # s
    <3>1. tried'[x] = tried[x] /\ pc'[x] = pc[x]
      BY <1>3, <2>2
    <3>2. \A i \in DOMAIN tried'[x] : JobForm(tried[x][i].job)'
      BY <1>1, <3>1 DEF TriedInv, JobForm
    <3>3. LastAttempt(x)' = LastAttempt(x) /\ (Met(x, tried[x])' <=> Met(x, tried[x]))
      BY <1>1, <3>1 DEF LastAttempt, Met
    <3>4. QED
      BY <3>1, <3>2, <3>3 DEF TriedInv
  <2>3. QED
    BY <2>1, <2>2
<1>6. QED
  BY <1>1, <1>4, <1>5 DEF TriedInv

\* What is left of Retry and Settle when the attempt is named.
LEMMA RetryEnds ==
  ASSUME NEW s \in Suites, Retry(s)
  PROVE  \E a, more :
           /\ Ended(s, a, more) /\ pc' = pc /\ ShouldRetry(s, more)
           /\ saves' = saves \/ saves' = saves \cup {Save(s, Len(more), FALSE)}
<1>1. PICK a \in EndedAttempts(s) :
        /\ pc[s] = "running" /\ pc' = pc
        /\ ShouldRetry(s, Append(tried[s], a))
        /\ tried' = [tried EXCEPT ![s] = Append(tried[s], a)]
        /\ \/ saves' = saves
           \/ saves' = saves \cup {Save(s, Len(Append(tried[s], a)), FALSE)}
  BY Zenon DEF Retry
<1>2. QED
  BY <1>1, Zenon DEF Ended

LEMMA SettleEnds ==
  ASSUME NEW s \in Suites, Settle(s)
  PROVE  \E a, more :
           /\ Ended(s, a, more)
           /\ \/ pc' = [pc EXCEPT ![s] = "sent"] /\ saves' = saves
              \/ /\ pc' = [pc EXCEPT ![s] = "saving"]
                 /\ saves' = saves \cup {Save(s, Len(more), TRUE)}
<1>1. PICK a \in EndedAttempts(s) :
        /\ pc[s] = "running"
        /\ tried' = [tried EXCEPT ![s] = Append(tried[s], a)]
        /\ \/ pc' = [pc EXCEPT ![s] = "sent"] /\ saves' = saves
           \/ /\ pc' = [pc EXCEPT ![s] = "saving"]
              /\ saves' = saves \cup {Save(s, Len(Append(tried[s], a)), TRUE)}
  BY Zenon DEF Settle
<1>2. QED
  BY <1>1, Zenon DEF Ended

LEMMA TriedStep ==
  ASSUME TriedInv, WaitInv, [Next]_vars
  PROVE  TriedInv'
<1>1. CASE Moved
  BY <1>1, TriedMoved
<1>2. ASSUME NEW s \in Suites, Retry(s)
      PROVE  TriedInv'
  <2>1. PICK a, more : Ended(s, a, more) /\ pc' = pc /\ ShouldRetry(s, more)
    BY <1>2, RetryEnds
  <2>2. pc \in [Suites -> Stages] /\ pc[s] = "running"
    BY <2>1 DEF TriedInv, Ended
  <2>3. ~Met(s, more)
    <3>1. more[Len(more)] = a /\ (Met(s, more) => IsSuccessful(a.job))
      BY <2>1, EndedForm
    <3>2. ~IsSuccessful(a.job) \/ PassCount(more) < project.threshold[s]
      BY <2>1, <3>1 DEF ShouldRetry
    <3>3. PassCount(more) < project.threshold[s] => ~Met(s, more)
      <4>1. PassCount(more) \in Nat
        <5>1. PICK S : S = Attempts
          OBVIOUS
        <5>2. more \in Seq(S)
          BY <2>1, <5>1, EndedForm
        <5>3. DOMAIN more = 1..Len(more) /\ Len(more) \in Nat
          BY <5>2
        <5>4. IsFiniteSet(DOMAIN more)
          BY <5>3, FS_Interval
        <5>5. QED
          BY <5>4, FS_Subset, FS_CardinalityType DEF PassCount
      <4>2. project.threshold[s] \in Nat
        BY ReportsAssumption DEF TriedInv, Suites
      <4>3. QED
        BY <4>1, <4>2 DEF Met
    <3>4. QED
      BY <3>1, <3>2, <3>3
  <2>4. QED
    BY <2>1, <2>2, <2>3, TriedEnded
<1>3. ASSUME NEW s \in Suites, Settle(s)
      PROVE  TriedInv'
  <2>1. PICK a, more :
          Ended(s, a, more) /\ (pc' = [pc EXCEPT ![s] = "sent"] \/ pc' = [pc EXCEPT ![s] = "saving"])
    BY <1>3, SettleEnds
  <2>2. /\ pc' \in [Suites -> Stages] /\ pc'[s] \in {"saving", "sent"}
        /\ \A x \in Suites \ {s} : pc'[x] = pc[x]
    BY <2>1 DEF TriedInv, Stages
  <2>3. QED
    BY <2>1, <2>2, TriedEnded
<1>4. QED
  BY <1>1, <1>2, <1>3, MovesOrEnds

-----------------------------------------------------------------------------
(* WaitInv and FolderInv                                                   *)

LEMMA SavesStay ==
  ASSUME [Next]_vars
  PROVE  Folders' = Folders /\ Saves' = Saves
BY ProjectStays DEF Folders, Saves

\* The folder a download finds is not there.
LEMMA TargetDirIsFree ==
  ASSUME FolderInv, NEW s \in Suites
  PROVE  /\ TargetDir(Folder[s]) \notin DOMAIN disk
         /\ TargetDir(Folder[s]) \in Folders
<1>1. PICK name : name = Folder[s]
  OBVIOUS
<1>2. /\ IsFiniteSet(DOMAIN disk)
      /\ \A d \in DOMAIN disk : d[2] \in Nat /\ d = <<d[1], d[2]>>
  BY DEF FolderInv
<1>3. \A n \in Nat : <<name, n>> \in Folders
  BY <1>1 DEF Folders
<1>4. CASE <<name, 0>> \notin DOMAIN disk
  <2>1. TargetDir(name) = <<name, 0>>
    BY <1>4 DEF TargetDir
  <2>2. QED
    BY <1>1, <1>3, <1>4, <2>1
<1>5. CASE <<name, 0>> \in DOMAIN disk
  <2>1. PICK Mine : Mine = {e \in DOMAIN disk : e[1] = name}
    OBVIOUS
  <2>2. PICK V : V = {d[2] : d \in Mine}
    OBVIOUS
  <2>3. V = Versions(name)
    BY <2>1, <2>2 DEF Versions
  <2>4. IsFiniteSet(Mine)
    BY <1>2, <2>1, FS_Subset
  <2>5. IsFiniteSet(V)
    <3>1. PICK f : f = [d \in Mine |-> d[2]]
      OBVIOUS
    <3>2. f \in Surjection(Mine, V)
      BY <2>2, <3>1 DEF Surjection
    <3>3. QED
      BY <2>4, <3>2, FS_Surjection
  <2>6. V \in SUBSET Nat
    BY <1>2, <2>1, <2>2
  <2>7. <<name, 0>> \in Mine
    BY <1>5, <2>1
  <2>8. V # {}
    BY <2>2, <2>7
  <2>9. PICK n : n = Max(V)
    OBVIOUS
  <2>10. n \in Nat /\ \A m \in V : m <= n
    BY <2>5, <2>6, <2>8, <2>9, GreatestOfFinite
  <2>11. <<name, n + 1>> \notin DOMAIN disk
    <3>1. SUFFICES ASSUME <<name, n + 1>> \in DOMAIN disk
                   PROVE  FALSE
      OBVIOUS
    <3>2. <<name, n + 1>>[1] = name /\ <<name, n + 1>>[2] = n + 1
      OBVIOUS
    <3>3. <<name, n + 1>> \in Mine
      BY <2>1, <3>1, <3>2
    <3>4. n + 1 \in V
      BY <2>2, <3>2, <3>3
    <3>5. QED
      BY <2>10, <3>4
  <2>12. TargetDir(name) = <<name, n + 1>>
    BY <1>5, <2>3, <2>9 DEF TargetDir, NextVersion
  <2>13. n + 1 \in Nat
    BY <2>10
  <2>14. QED
    BY <1>1, <1>3, <2>11, <2>12, <2>13
<1>6. QED
  BY <1>4, <1>5

LEMMA WaitInit ==
  ASSUME Init
  PROVE  WaitInv
BY DEF Init, WaitInv

\* Downloads are waited for as before, but for those a step begins or ends.
LEMMA WaitKept ==
  ASSUME TriedInv, WaitInv, [Next]_vars, NEW T, saves' = saves \cup T,
         \A s \in Suites : pc[s] = "saving" => pc'[s] = "saving",
         \A d \in T :
           /\ d \in Saves /\ d.at = "look"
           /\ d.last => /\ pc[d.suite] = "running" /\ pc'[d.suite] = "saving"
                        /\ d.attempt = Len(tried'[d.suite]),
         \A d, e \in T : d.last /\ e.last => d = e
  PROVE  WaitInv'
<1>1. Folders' = Folders /\ Saves' = Saves
  BY SavesStay
<1>2. /\ saves \subseteq Saves
      /\ \A d \in saves : d.at = "make" => d.dir \in Folders
      /\ \A d \in saves : d.last => pc[d.suite] = "saving" /\ d.attempt = Len(tried[d.suite])
      /\ \A d, e \in saves : d.last /\ e.last /\ d.suite = e.suite => d = e
  BY DEF WaitInv
<1>3. \A d \in saves : d.suite \in Suites
  BY <1>2 DEF Saves
<1>4. ASSUME NEW d \in saves, d.last
      PROVE  pc'[d.suite] = "saving" /\ d.attempt = Len(tried'[d.suite])
  <2>1. d.suite \in Suites /\ pc[d.suite] = "saving"
    BY <1>2, <1>3, <1>4
  <2>2. tried'[d.suite] = tried[d.suite]
    BY <2>1, SettledStay
  <2>3. QED
    BY <1>2, <1>4, <2>1, <2>2
<1>5. \A d \in saves' : d.at = "make" => d.dir \in Folders
  BY <1>2
<1>6. ASSUME NEW d \in saves', NEW e \in saves', d.last, e.last, d.suite = e.suite
      PROVE  d = e
  BY <1>2, <1>6
<1>7. QED
  BY <1>1, <1>2, <1>4, <1>5, <1>6 DEF WaitInv

LEMMA WaitSame ==
  ASSUME TriedInv, WaitInv, [Next]_vars, saves' = saves,
         \A s \in Suites : pc[s] = "saving" => pc'[s] = "saving"
  PROVE  WaitInv'
<1>1. PICK T : T = {}
  OBVIOUS
<1>2. saves' = saves \cup T /\ \A d \in T : FALSE
  BY <1>1
<1>3. QED
  BY <1>2, WaitKept

LEMMA WaitOneMore ==
  ASSUME TriedInv, WaitInv, [Next]_vars, NEW d \in Saves, saves' = saves \cup {d},
         \A s \in Suites : pc[s] = "saving" => pc'[s] = "saving",
         d.at = "look",
         d.last => /\ pc[d.suite] = "running" /\ pc'[d.suite] = "saving"
                   /\ d.attempt = Len(tried'[d.suite])
  PROVE  WaitInv'
<1>1. PICK T : T = {d}
  OBVIOUS
<1>2. saves' = saves \cup T /\ \A e \in T : e = d
  BY <1>1
<1>3. QED
  BY <1>2, WaitKept

LEMMA WaitLook ==
  ASSUME WaitInv, FolderInv, [Next]_vars, NEW d \in saves, Look(d)
  PROVE  WaitInv'
<1>1. Folders' = Folders /\ Saves' = Saves
  BY SavesStay
<1>2. PICK dir : dir = TargetDir(Folder[d.suite])
  OBVIOUS
<1>3. d \in Saves /\ d.suite \in Suites
  BY DEF WaitInv, Saves
<1>4. dir \in Folders
  BY <1>2, <1>3, TargetDirIsFree
<1>5. PICK d2 : d2 = [d EXCEPT !.at = "make", !.dir = dir]
  OBVIOUS
<1>6. /\ d2 \in Saves /\ d2.suite = d.suite /\ d2.attempt = d.attempt /\ d2.last = d.last
      /\ d2.dir = dir
  BY <1>3, <1>4, <1>5 DEF Saves
<1>7. saves' = (saves \ {d}) \cup {d2} /\ pc' = pc /\ tried' = tried
  BY <1>2, <1>5 DEF Look
<1>8. saves' \subseteq Saves
  BY <1>6, <1>7 DEF WaitInv
<1>9. \A e \in saves' : e.at = "make" => e.dir \in Folders
  BY <1>4, <1>6, <1>7 DEF WaitInv
<1>10. \A e \in saves' : e.last => pc[e.suite] = "saving" /\ e.attempt = Len(tried[e.suite])
  BY <1>6, <1>7 DEF WaitInv
<1>11. \A e, f \in saves' : e.last /\ f.last /\ e.suite = f.suite => e = f
  BY <1>6, <1>7 DEF WaitInv
<1>12. QED
  BY <1>1, <1>7, <1>8, <1>9, <1>10, <1>11 DEF WaitInv

LEMMA WaitEndSave ==
  ASSUME TriedInv, WaitInv, [Next]_vars, NEW d \in saves, NEW dir, EndSave(d, dir)
  PROVE  WaitInv'
<1>1. Folders' = Folders /\ Saves' = Saves
  BY SavesStay
<1>2. saves' = saves \ {d} /\ tried' = tried
  BY DEF EndSave
<1>3. ASSUME NEW e \in saves', e.last
      PROVE  pc'[e.suite] = "saving" /\ e.attempt = Len(tried'[e.suite])
  <2>1. e \in saves /\ e # d /\ e.suite \in Suites
    BY <1>2, <1>3 DEF WaitInv, Saves
  <2>2. pc[e.suite] = "saving" /\ e.attempt = Len(tried[e.suite])
    BY <1>3, <2>1 DEF WaitInv
  <2>3. d.last => d.suite # e.suite
    BY <1>3, <2>1 DEF WaitInv
  <2>4. pc'[e.suite] = pc[e.suite]
    BY <2>1, <2>3 DEF EndSave, TriedInv
  <2>5. QED
    BY <1>2, <2>2, <2>4
<1>4. QED
  BY <1>1, <1>2, <1>3 DEF WaitInv

LEMMA WaitStep ==
  ASSUME TriedInv, WaitInv, FolderInv, [Next]_vars
  PROVE  WaitInv'
<1>1. ASSUME NEW s \in Suites, Retry(s)
      PROVE  WaitInv'
  <2>1. PICK a, more :
          /\ Ended(s, a, more) /\ pc' = pc
          /\ saves' = saves \/ saves' = saves \cup {Save(s, Len(more), FALSE)}
    BY <1>1, RetryEnds
  <2>2. PICK d : d = Save(s, Len(more), FALSE)
    OBVIOUS
  <2>3. d \in Saves /\ d.at = "look" /\ d.last = FALSE
    <3>1. Len(more) \in Nat
      BY <2>1, EndedForm, LenIsNat
    <3>2. QED
      BY <2>2, <3>1 DEF Save, Saves
  <2>4. saves' = saves \/ saves' = saves \cup {d}
    BY <2>1, <2>2
  <2>5. QED
    BY <2>1, <2>3, <2>4, WaitSame, WaitOneMore
<1>2. ASSUME NEW s \in Suites, Settle(s)
      PROVE  WaitInv'
  <2>1. PICK a, more :
          /\ Ended(s, a, more)
          /\ \/ pc' = [pc EXCEPT ![s] = "sent"] /\ saves' = saves
             \/ /\ pc' = [pc EXCEPT ![s] = "saving"]
                /\ saves' = saves \cup {Save(s, Len(more), TRUE)}
    BY <1>2, SettleEnds
  <2>2. PICK d : d = Save(s, Len(more), TRUE)
    OBVIOUS
  <2>3. pc[s] = "running" /\ tried'[s] = more /\ pc \in [Suites -> Stages]
    BY <2>1 DEF Ended, TriedInv
  <2>4. d \in Saves /\ d.at = "look" /\ d.suite = s /\ d.attempt = Len(tried'[s])
    <3>1. Len(more) \in Nat
      BY <2>1, EndedForm, LenIsNat
    <3>2. QED
      BY <2>2, <2>3, <3>1 DEF Save, Saves
  <2>5. \A x \in Suites : pc[x] = "saving" => pc'[x] = "saving"
    BY <2>1, <2>3
  <2>6. CASE saves' = saves
    BY <2>5, <2>6, WaitSame
  <2>7. CASE pc' = [pc EXCEPT ![s] = "saving"] /\ saves' = saves \cup {d}
    BY <2>3, <2>4, <2>5, <2>7, WaitOneMore
  <2>8. QED
    BY <2>1, <2>2, <2>6, <2>7
<1>3. ASSUME NEW s \in Suites, Skip(s) \/ Collect(s)
      PROVE  WaitInv'
  <2>1. saves' = saves /\ \A x \in Suites : pc[x] = "saving" => pc'[x] = "saving"
    BY <1>3 DEF Skip, Collect, saveVars, TriedInv
  <2>2. QED
    BY <2>1, WaitSame
<1>4. ASSUME NEW d \in saves, Look(d)
      PROVE  WaitInv'
  BY <1>4, WaitLook
<1>5. ASSUME NEW d \in saves, Fetch(d)
      PROVE  WaitInv'
  BY <1>5, WaitEndSave DEF Fetch
<1>6. ASSUME NEW d \in saves, FetchNothing(d) \/ LookFails(d)
      PROVE  WaitInv'
  BY <1>6, WaitEndSave DEF FetchNothing, LookFails
<1>7. ASSUME Render \/ Exit \/ UNCHANGED vars
      PROVE  WaitInv'
  <2>1. saves' = saves /\ pc' = pc
    BY <1>7 DEF Render, Exit, vars, saveVars
  <2>2. QED
    BY <2>1, WaitSame
<1>8. QED
  BY <1>1, <1>2, <1>3, <1>4, <1>5, <1>6, <1>7 DEF Next

LEMMA FolderInit ==
  ASSUME Init
  PROVE  FolderInv
<1>1. disk = [d \in Earlier |-> None] /\ saves = {} /\ local = [s \in Suites |-> None]
  BY DEF Init
<1>2. DOMAIN disk = Earlier
  BY <1>1
<1>3. IsFiniteSet(Earlier) /\ \A d \in Earlier : d[2] \in Nat /\ d = <<d[1], d[2]>>
  BY EarlierAssumption
<1>4. QED
  BY <1>1, <1>2, <1>3 DEF FolderInv

\* The last attempt of a suite whose artifacts are there stays its last.
LEMMA OwnersStay ==
  ASSUME TriedInv, WaitInv, [Next]_vars, NEW s \in Suites, pc[s] \in {"sent", "collected"}
  PROVE  tried'[s] = tried[s] /\ pc'[s] \in {"sent", "collected"}
BY SettledStay

LEMMA FolderKept ==
  ASSUME TriedInv, WaitInv, FolderInv, [Next]_vars, UNCHANGED <<disk, local, raced>>,
         \A d \in saves' : d \in saves \/ d.at = "look"
  PROVE  FolderInv'
<1>1. Suites' = Suites
  BY ProjectStays
<1>2. ASSUME NEW s \in Suites, local[s] # None, ~raced
      PROVE  /\ pc'[s] \in {"sent", "collected"}
             /\ local[s] \in DOMAIN disk /\ disk[local[s]] = <<s, Len(tried'[s])>>
  <2>1. /\ pc[s] \in {"sent", "collected"}
        /\ local[s] \in DOMAIN disk /\ disk[local[s]] = <<s, Len(tried[s])>>
    BY <1>2 DEF FolderInv
  <2>2. QED
    BY <2>1, OwnersStay
<1>3. ~raced => \A d \in saves' : d.at = "make" => d.dir \notin DOMAIN disk
  BY DEF FolderInv
<1>4. ~raced => \A d, e \in saves' : d.at = "make" /\ e.at = "make" /\ d.dir = e.dir => d = e
  BY DEF FolderInv
<1>5. QED
  BY <1>1, <1>2, <1>3, <1>4 DEF FolderInv

LEMMA FolderLook ==
  ASSUME TriedInv, WaitInv, FolderInv, [Next]_vars, NEW d \in saves, Look(d)
  PROVE  FolderInv'
<1>1. Suites' = Suites
  BY ProjectStays
<1>2. PICK dir : dir = TargetDir(Folder[d.suite])
  OBVIOUS
<1>3. d \in Saves /\ d.suite \in Suites
  BY DEF WaitInv, Saves
<1>4. dir \notin DOMAIN disk
  BY <1>2, <1>3, TargetDirIsFree
<1>5. PICK d2 : d2 = [d EXCEPT !.at = "make", !.dir = dir]
  OBVIOUS
<1>6. d2.at = "make" /\ d2.dir = dir
  BY <1>3, <1>5 DEF Saves
<1>7. /\ saves' = (saves \ {d}) \cup {d2} /\ UNCHANGED <<disk, local>>
      /\ raced' = (raced \/ \E e \in saves : e.at = "make" /\ e.dir = dir)
  BY <1>2, <1>5 DEF Look
<1>8. ASSUME NEW s \in Suites, local[s] # None, ~raced
      PROVE  /\ pc'[s] \in {"sent", "collected"}
             /\ local[s] \in DOMAIN disk /\ disk[local[s]] = <<s, Len(tried'[s])>>
  <2>1. /\ pc[s] \in {"sent", "collected"}
        /\ local[s] \in DOMAIN disk /\ disk[local[s]] = <<s, Len(tried[s])>>
    BY <1>8 DEF FolderInv
  <2>2. QED
    BY <2>1, OwnersStay
<1>9. ~raced' => ~raced /\ \A e \in saves : e.at = "make" => e.dir # dir
  BY <1>7
<1>10. ~raced' => \A e \in saves' : e.at = "make" => e.dir \notin DOMAIN disk
  BY <1>4, <1>6, <1>7, <1>9 DEF FolderInv
<1>11. ~raced' => \A e, f \in saves' : e.at = "make" /\ f.at = "make" /\ e.dir = f.dir => e = f
  BY <1>6, <1>7, <1>9 DEF FolderInv
<1>12. QED
  BY <1>1, <1>7, <1>8, <1>9, <1>10, <1>11 DEF FolderInv

\* A folder more; the files of the others stay.
LEMMA FolderMore ==
  ASSUME TriedInv, WaitInv, FolderInv, [Next]_vars, NEW d \in saves, d.at = "make",
         saves' = saves \ {d}, raced' = raced, DOMAIN local' = DOMAIN local,
         DOMAIN disk' = DOMAIN disk \cup {d.dir},
         \A e \in DOMAIN disk : e # d.dir => disk'[e] = disk[e],
         ~raced => \A s \in Suites : local'[s] # None =>
                     \/ local'[s] = local[s]
                     \/ /\ pc'[s] = "sent" /\ local'[s] = d.dir
                        /\ disk'[d.dir] = <<s, Len(tried'[s])>>
  PROVE  FolderInv'
<1>1. Suites' = Suites
  BY ProjectStays
<1>2. d.dir[2] \in Nat /\ d.dir = <<d.dir[1], d.dir[2]>>
  BY DEF WaitInv, Folders
<1>3. \A e \in DOMAIN disk' : e[2] \in Nat /\ e = <<e[1], e[2]>>
  BY <1>2 DEF FolderInv
<1>4. IsFiniteSet(DOMAIN disk')
  BY FS_AddElement DEF FolderInv
<1>5. ~raced => d.dir \notin DOMAIN disk
  BY DEF FolderInv
<1>6. ~raced => \A e \in saves' : e.at = "make" => e.dir \notin DOMAIN disk'
  BY DEF FolderInv
<1>7. ~raced => \A e, f \in saves' : e.at = "make" /\ f.at = "make" /\ e.dir = f.dir => e = f
  BY DEF FolderInv
<1>8. ASSUME NEW s \in Suites, local'[s] # None, ~raced
      PROVE  /\ pc'[s] \in {"sent", "collected"}
             /\ local'[s] \in DOMAIN disk' /\ disk'[local'[s]] = <<s, Len(tried'[s])>>
  <2>1. CASE local'[s] = local[s]
    <3>1. /\ pc[s] \in {"sent", "collected"}
          /\ local[s] \in DOMAIN disk /\ disk[local[s]] = <<s, Len(tried[s])>>
      BY <1>8, <2>1 DEF FolderInv
    <3>2. tried'[s] = tried[s] /\ pc'[s] \in {"sent", "collected"}
      BY <3>1, OwnersStay
    <3>3. QED
      BY <1>5, <1>8, <2>1, <3>1, <3>2
  <2>2. CASE pc'[s] = "sent" /\ local'[s] = d.dir /\ disk'[d.dir] = <<s, Len(tried'[s])>>
    BY <2>2
  <2>3. QED
    BY <1>8, <2>1, <2>2
<1>9. QED
  BY <1>1, <1>3, <1>4, <1>6, <1>7, <1>8 DEF FolderInv

\* What the end of a download tells its worker.
LEMMA LocalAfter ==
  ASSUME TriedInv, WaitInv, FolderInv, NEW d \in saves, NEW dir, EndSave(d, dir),
         NEW s \in Suites, local'[s] # local[s]
  PROVE  /\ d.last /\ d.suite = s /\ pc'[s] = "sent" /\ local'[s] = dir
         /\ d.attempt = Len(tried'[s])
<1>1. d.last /\ local' = [local EXCEPT ![d.suite] = dir] /\ pc' = [pc EXCEPT ![d.suite] = "sent"]
  BY DEF EndSave
<1>7. DOMAIN local = Suites
  BY DEF FolderInv
<1>2. s = d.suite
  BY <1>1, <1>7
<1>3. pc \in [Suites -> Stages] /\ tried' = tried /\ d.attempt = Len(tried[d.suite])
  BY <1>1 DEF TriedInv, WaitInv, EndSave
<1>4. pc'[s] = "sent"
  BY <1>1, <1>2, <1>3
<1>5. local'[s] = dir
  BY <1>1, <1>2, <1>7
<1>6. QED
  BY <1>1, <1>2, <1>3, <1>4, <1>5

\* A download that ends before it has a folder.
LEMMA FolderSame ==
  ASSUME TriedInv, WaitInv, FolderInv, [Next]_vars, NEW d \in saves, EndSave(d, None), disk' = disk
  PROVE  FolderInv'
<1>1. Suites' = Suites
  BY ProjectStays
<1>2. saves' = saves \ {d} /\ raced' = raced /\ DOMAIN local' = DOMAIN local
  BY DEF EndSave
<1>3. ASSUME NEW s \in Suites, local'[s] # None, ~raced
      PROVE  /\ pc'[s] \in {"sent", "collected"}
             /\ local'[s] \in DOMAIN disk /\ disk[local'[s]] = <<s, Len(tried'[s])>>
  <2>1. local'[s] = local[s]
    BY <1>3, LocalAfter
  <2>2. /\ pc[s] \in {"sent", "collected"}
        /\ local[s] \in DOMAIN disk /\ disk[local[s]] = <<s, Len(tried[s])>>
    BY <1>3, <2>1 DEF FolderInv
  <2>3. QED
    BY <2>1, <2>2, OwnersStay
<1>4. ~raced => \A e \in saves' : e.at = "make" => e.dir \notin DOMAIN disk
  BY <1>2 DEF FolderInv
<1>5. ~raced => \A e, f \in saves' : e.at = "make" /\ f.at = "make" /\ e.dir = f.dir => e = f
  BY <1>2 DEF FolderInv
<1>6. QED
  BY <1>1, <1>2, <1>3, <1>4, <1>5 DEF FolderInv

LEMMA FolderStep ==
  ASSUME TriedInv, WaitInv, FolderInv, [Next]_vars
  PROVE  FolderInv'
<1>1. ASSUME NEW s \in Suites, Retry(s)
      PROVE  FolderInv'
  <2>1. \A e \in saves' : e \in saves \/ e.at = "look"
    BY <1>1, RetryEnds DEF Save
  <2>2. QED
    BY <1>1, <2>1, FolderKept DEF Retry
<1>2. ASSUME NEW s \in Suites, Settle(s)
      PROVE  FolderInv'
  <2>1. \A e \in saves' : e \in saves \/ e.at = "look"
    BY <1>2, SettleEnds DEF Save
  <2>2. QED
    BY <1>2, <2>1, FolderKept DEF Settle
<1>3. ASSUME (\E s \in Suites : Skip(s) \/ Collect(s)) \/ Render \/ Exit \/ UNCHANGED vars
      PROVE  FolderInv'
  <2>1. UNCHANGED saveVars
    BY <1>3 DEF Skip, Collect, Render, Exit, vars
  <2>2. QED
    BY <2>1, FolderKept DEF saveVars
<1>4. ASSUME NEW d \in saves, Look(d)
      PROVE  FolderInv'
  BY <1>4, FolderLook
<1>5. ASSUME NEW d \in saves, Fetch(d)
      PROVE  FolderInv'
  <2>1. d.at = "make" /\ EndSave(d, d.dir)
        /\ disk' = [e \in DOMAIN disk \cup {d.dir} |->
                      IF e = d.dir THEN <<d.suite, d.attempt>> ELSE disk[e]]
    BY <1>5 DEF Fetch
  <2>2. saves' = saves \ {d} /\ raced' = raced /\ DOMAIN local' = DOMAIN local
    BY <2>1 DEF EndSave
  <2>3. \A s \in Suites : local'[s] # local[s] =>
          /\ pc'[s] = "sent" /\ local'[s] = d.dir
          /\ d.suite = s /\ d.attempt = Len(tried'[s])
    BY <2>1, LocalAfter
  <2>4. disk'[d.dir] = <<d.suite, d.attempt>> /\ DOMAIN disk' = DOMAIN disk \cup {d.dir}
    BY <2>1
  <2>5. \A e \in DOMAIN disk : e # d.dir => disk'[e] = disk[e]
    BY <2>1
  <2>6. QED
    BY <2>1, <2>2, <2>3, <2>4, <2>5, FolderMore
<1>6. ASSUME NEW d \in saves, FetchNothing(d)
      PROVE  FolderInv'
  <2>1. d.at = "make" /\ EndSave(d, None)
        /\ disk' = [e \in DOMAIN disk \cup {d.dir} |-> IF e \in DOMAIN disk THEN disk[e] ELSE None]
    BY <1>6 DEF FetchNothing
  <2>2. saves' = saves \ {d} /\ raced' = raced /\ DOMAIN local' = DOMAIN local
    BY <2>1 DEF EndSave
  <2>3. \A s \in Suites : local'[s] # local[s] => local'[s] = None
    BY <2>1, LocalAfter
  <2>4. DOMAIN disk' = DOMAIN disk \cup {d.dir} /\ \A e \in DOMAIN disk : disk'[e] = disk[e]
    BY <2>1
  <2>5. QED
    BY <2>1, <2>2, <2>3, <2>4, FolderMore
<1>7. ASSUME NEW d \in saves, LookFails(d)
      PROVE  FolderInv'
  BY <1>7, FolderSame DEF LookFails
<1>8. QED
  BY <1>1, <1>2, <1>3, <1>4, <1>5, <1>6, <1>7 DEF Next

-----------------------------------------------------------------------------
(* VerdictInv, EntriesInv, PostedInv, PrintedInv                           *)

LEMMA CollectorInit ==
  ASSUME Init
  PROVE  VerdictInv /\ EntriesInv /\ PostedInv /\ PrintedInv
<1>1. /\ pc = [s \in Suites |-> "running"] /\ passed = TRUE
      /\ entries = [s \in Suites |-> None] /\ posted = [s \in Suites |-> None]
      /\ printed = None
  BY DEF Init
<1>2. Reported = {}
  BY <1>1 DEF Reported
<1>3. QED
  BY <1>1, <1>2 DEF VerdictInv, EntriesInv, PostedInv, PrintedInv

\* What was collected stays as it was.
LEMMA OutcomeStays ==
  ASSUME TriedInv, WaitInv, [Next]_vars, NEW s \in Suites, pc[s] \in {"sent", "collected"}
  PROVE  /\ tried'[s] = tried[s]
         /\ Outcome(s)' = Outcome(s) /\ LastAttempt(s)' = LastAttempt(s)
<1>1. tried'[s] = tried[s] /\ project' = project
  BY SettledStay, ProjectStays
<1>2. QED
  BY <1>1 DEF Outcome, Judged, LastAttempt

\* Only a collected result is new to the collector.
LEMMA ReportedStep ==
  ASSUME TriedInv, WaitInv, [Next]_vars
  PROVE  \/ Reported' = Reported /\ UNCHANGED <<passed, entries, posted>>
         \/ \E s \in Suites : Collect(s) /\ Reported' = Reported \cup {s} /\ s \notin Reported
<1>1. Suites' = Suites
  BY ProjectStays
<1>2. ASSUME NEW s \in Suites, Retry(s)
      PROVE  pc' = pc /\ UNCHANGED <<passed, entries, posted>>
  BY <1>2 DEF Retry, collectorVars
<1>3. ASSUME NEW s \in Suites, Settle(s)
      PROVE  /\ \A x \in Suites : pc'[x] = "collected" <=> pc[x] = "collected"
             /\ UNCHANGED <<passed, entries, posted>>
  BY <1>3 DEF Settle, collectorVars, TriedInv
<1>4. ASSUME NEW s \in Suites, Skip(s)
      PROVE  /\ \A x \in Suites : pc'[x] = "collected" <=> pc[x] = "collected"
             /\ UNCHANGED <<passed, entries, posted>>
  BY <1>4 DEF Skip, collectorVars, TriedInv
<1>5. ASSUME NEW s \in Suites, Collect(s)
      PROVE  Reported' = Reported \cup {s} /\ s \notin Reported
  BY <1>1, <1>5 DEF Collect, TriedInv, Reported
<1>6. ASSUME NEW d \in saves, NEW dir, EndSave(d, dir)
      PROVE  /\ \A x \in Suites : pc'[x] = "collected" <=> pc[x] = "collected"
             /\ UNCHANGED <<passed, entries, posted>>
  <2>1. d.last => pc[d.suite] = "saving" /\ pc' = [pc EXCEPT ![d.suite] = "sent"]
    BY <1>6 DEF WaitInv, EndSave
  <2>2. ~d.last => pc' = pc
    BY <1>6 DEF EndSave
  <2>3. UNCHANGED <<passed, entries, posted>>
    BY <1>6 DEF EndSave, collectorVars
  <2>4. QED
    BY <2>1, <2>2, <2>3 DEF TriedInv
<1>7. ASSUME (\E d \in saves : Look(d)) \/ Render \/ Exit \/ UNCHANGED vars
      PROVE  pc' = pc /\ UNCHANGED <<passed, entries, posted>>
  BY <1>7 DEF Look, Render, Exit, vars, collectorVars
<1>8. (\E s \in Suites : Collect(s))
      \/ /\ \A x \in Suites : pc'[x] = "collected" <=> pc[x] = "collected"
         /\ UNCHANGED <<passed, entries, posted>>
  BY <1>2, <1>3, <1>4, <1>6, <1>7 DEF Next, Fetch, FetchNothing, LookFails
<1>9. (\A x \in Suites : pc'[x] = "collected" <=> pc[x] = "collected") => Reported' = Reported
  BY <1>1 DEF Reported
<1>10. QED
  BY <1>5, <1>8, <1>9

LEMMA VerdictStep ==
  ASSUME TriedInv, WaitInv, VerdictInv, [Next]_vars
  PROVE  VerdictInv'
<1>1. \A s \in Reported : Outcome(s)' = Outcome(s)
  BY OutcomeStays DEF Reported
<1>2. CASE Reported' = Reported /\ UNCHANGED <<passed, entries, posted>>
  BY <1>1, <1>2 DEF VerdictInv
<1>3. ASSUME NEW s \in Suites, Collect(s), Reported' = Reported \cup {s}
      PROVE  VerdictInv'
  <2>1. passed' = (passed /\ ~(Done(Outcome(s).status) /\ ~Outcome(s).passed)) /\ pc[s] = "sent"
    BY <1>3 DEF Collect, Outcome
  <2>2. Outcome(s)' = Outcome(s)
    BY <2>1, OutcomeStays
  <2>3. passed' <=> passed /\ ~(Done(Outcome(s).status) /\ ~Outcome(s).passed)
    BY <2>1
  <2>4. QED
    BY <1>1, <1>3, <2>2, <2>3 DEF VerdictInv
<1>4. QED
  BY <1>2, <1>3, ReportedStep

\* Of every report that could be had, that of the last attempt is its own.
LEMMA FetchedIsRan ==
  ASSUME TriedInv, FolderInv, NEW s \in Suites, pc[s] = "sent", JUnitRequired, ~raced,
         NEW i \in DOMAIN tried[s], ~InAnotherCloud(s, i)
  PROVE  FetchedReport(s, i, {}) = tried[s][i].ran
<1>1. CASE i \in Asked(s)
  BY <1>1 DEF FetchedReport, Artifact
<1>2. CASE i \notin Asked(s)
  <2>1. i = Len(tried[s]) /\ local[s] # None
    BY <1>2 DEF Asked
  <2>2. disk[local[s]] = <<s, Len(tried[s])>>
    BY <2>1 DEF FolderInv
  <2>3. QED
    BY <1>2, <2>1, <2>2 DEF FetchedReport
<1>3. QED
  BY <1>1, <1>2

LEMMA FoundBefore ==
  ASSUME TriedInv, WaitInv, [Next]_vars, NEW s \in Suites, pc[s] \in {"sent", "collected"},
         FoundAll(s)'
  PROVE  /\ JUnitRequired /\ ~raced /\ entries'[s].whole
         /\ \A i \in DOMAIN tried[s] : ~InAnotherCloud(s, i)
<1>1. project' = project /\ tried'[s] = tried[s] /\ LastAttempt(s)' = LastAttempt(s)
  BY ProjectStays, OutcomeStays
<1>2. raced => raced'
  BY DEF Next, Retry, Settle, Skip, Collect, Look, LookFails, Fetch, FetchNothing, EndSave, Render,
         Exit, vars, saveVars
<1>3. /\ JUnitRequired' /\ ~raced' /\ entries'[s].whole
      /\ \A i \in DOMAIN tried'[s] : ~InAnotherCloud(s, i)'
  BY DEF FoundAll
<1>4. QED
  BY <1>1, <1>2, <1>3 DEF JUnitRequired, InAnotherCloud

LEMMA EntriesStep ==
  ASSUME TriedInv, WaitInv, FolderInv, EntriesInv, [Next]_vars
  PROVE  EntriesInv'
<1>1. Suites' = Suites
  BY ProjectStays
<1>2. ASSUME NEW x \in Reported, entries'[x] = entries[x]
      PROVE  /\ entries'[x].status = TotalStatus(Outcome(x))'
             /\ entries'[x].timedOut = Outcome(x).timedOut'
             /\ entries'[x].rdc = Outcome(x).isRDC'
             /\ FoundAll(x)' => entries'[x].reports = [i \in DOMAIN tried'[x] |-> tried'[x][i].ran]
  <2>1. x \in Suites /\ pc[x] = "collected"
    BY DEF Reported
  <2>2. Outcome(x)' = Outcome(x) /\ tried'[x] = tried[x]
    BY <2>1, OutcomeStays
  <2>3. FoundAll(x)' => FoundAll(x)
    BY <1>2, <2>1, FoundBefore DEF FoundAll
  <2>4. QED
    BY <1>2, <2>2, <2>3 DEF EntriesInv
<1>3. CASE Reported' = Reported /\ UNCHANGED <<passed, entries, posted>>
  BY <1>1, <1>2, <1>3 DEF EntriesInv
<1>4. ASSUME NEW s \in Suites, Collect(s), Reported' = Reported \cup {s}, s \notin Reported
      PROVE  EntriesInv'
  <2>1. PICK lost \in SUBSET Asked(s) : entries' = [entries EXCEPT ![s] = Entry(s, lost)]
    BY <1>4 DEF Collect
  <2>2. pc[s] = "sent" /\ tried' = tried
    BY <1>4 DEF Collect
  <2>3. Outcome(s)' = Outcome(s)
    BY <2>2, OutcomeStays
  <2>4. DOMAIN entries' = Suites /\ entries'[s] = Entry(s, lost)
    BY <2>1 DEF EntriesInv
  <2>5. \A x \in Reported : entries'[x] = entries[x]
    BY <1>4, <2>1 DEF EntriesInv, Reported
  <2>6. /\ Entry(s, lost).status = TotalStatus(Outcome(s))
        /\ Entry(s, lost).timedOut = Outcome(s).timedOut
        /\ Entry(s, lost).rdc = Outcome(s).isRDC
        /\ Entry(s, lost).reports = [i \in DOMAIN tried[s] |-> FetchedReport(s, i, lost)]
        /\ Entry(s, lost).whole = (lost = {})
    BY DEF Entry, Outcome
  <2>7. ASSUME FoundAll(s)'
        PROVE  entries'[s].reports = [i \in DOMAIN tried'[s] |-> tried'[s][i].ran]
    <3>1. /\ JUnitRequired /\ ~raced /\ entries'[s].whole
          /\ \A i \in DOMAIN tried[s] : ~InAnotherCloud(s, i)
      BY <2>2, <2>7, FoundBefore
    <3>2. lost = {}
      BY <2>4, <2>6, <3>1
    <3>3. \A i \in DOMAIN tried[s] : FetchedReport(s, i, lost) = tried[s][i].ran
      BY <2>2, <3>1, <3>2, FetchedIsRan
    <3>4. QED
      BY <2>2, <2>4, <2>6, <3>3
  <2>8. /\ entries'[s].status = TotalStatus(Outcome(s))'
        /\ entries'[s].timedOut = Outcome(s).timedOut'
        /\ entries'[s].rdc = Outcome(s).isRDC'
    BY <2>3, <2>4, <2>6
  <2>9. QED
    BY <1>1, <1>2, <1>4, <2>4, <2>5, <2>7, <2>8 DEF EntriesInv
<1>5. QED
  BY <1>3, <1>4, ReportedStep

LEMMA PostedStep ==
  ASSUME TriedInv, WaitInv, PostedInv, [Next]_vars
  PROVE  PostedInv'
<1>1. Suites' = Suites
  BY ProjectStays
<1>2. ASSUME NEW x \in Suites, posted'[x] = posted[x], posted[x] # None
      PROVE  /\ pc'[x] = "collected"
             /\ \E source \in {"junit.xml", "sauce-test-report.json"} :
                  posted'[x] = [source |-> source, runs |-> TestRuns(x, source)']
  <2>1. pc[x] = "collected"
    BY <1>2 DEF PostedInv
  <2>2. pc'[x] = "collected" /\ LastAttempt(x)' = LastAttempt(x)
    BY <2>1, SettledStay, OutcomeStays
  <2>3. \A source \in {"junit.xml", "sauce-test-report.json"} :
          TestRuns(x, source)' = TestRuns(x, source)
    BY <2>2 DEF TestRuns
  <2>4. QED
    BY <1>2, <2>2, <2>3 DEF PostedInv
<1>3. CASE Reported' = Reported /\ UNCHANGED <<passed, entries, posted>>
  BY <1>1, <1>2, <1>3 DEF PostedInv
<1>4. ASSUME NEW s \in Suites, Collect(s)
      PROVE  PostedInv'
  <2>1. CASE posted' = posted
    BY <1>1, <1>2, <2>1 DEF PostedInv
  <2>2. CASE \E files \in ArtifactNames(Judged(s, tried[s])) \ {{}} :
               posted' = [posted EXCEPT ![s] = [source |-> Source(files),
                                                runs |-> TestRuns(s, Source(files))]]
    <3>1. PICK source \in {"junit.xml", "sauce-test-report.json"} :
            posted' = [posted EXCEPT ![s] = [source |-> source, runs |-> TestRuns(s, source)]]
      BY <2>2 DEF Source
    <3>2. pc'[s] = "collected" /\ tried' = tried
      BY <1>4 DEF Collect, TriedInv
    <3>3. TestRuns(s, source)' = TestRuns(s, source)
      BY <3>2 DEF TestRuns, LastAttempt
    <3>4. DOMAIN posted' = Suites /\ posted'[s] = [source |-> source, runs |-> TestRuns(s, source)']
      BY <3>1, <3>3 DEF PostedInv
    <3>5. \A x \in Suites : x # s => posted'[x] = posted[x]
      BY <3>1 DEF PostedInv
    <3>6. QED
      BY <1>1, <1>2, <3>2, <3>4, <3>5 DEF PostedInv
  <2>3. QED
    BY <1>4, <2>1, <2>2, Zenon DEF Collect, ReportInsights
<1>5. QED
  BY <1>3, <1>4, ReportedStep

LEMMA PrintedStep ==
  ASSUME TriedInv, WaitInv, PrintedInv, [Next]_vars
  PROVE  PrintedInv'
<1>1. Suites' = Suites
  BY ProjectStays
<1>2. ASSUME Reported' = Reported, entries' = entries
      PROVE  Printed' = Printed
  BY <1>2 DEF Printed
<1>3. CASE Render
  <2>1. pc' = pc /\ entries' = entries /\ printed' = Printed /\ Answered = Suites
    BY <1>3 DEF Render, Printed
  <2>2. Reported' = Reported /\ Answered' = Answered
    BY <1>1, <2>1 DEF Reported, Answered
  <2>3. QED
    BY <1>1, <1>2, <2>1, <2>2 DEF PrintedInv
<1>4. CASE ~Render
  <2>1. printed' = printed
    BY <1>4 DEF Next, Retry, Settle, Skip, Collect, Look, LookFails, Fetch, FetchNothing, EndSave,
                Exit, vars, collectorVars
  <2>2. SUFFICES ASSUME printed # None
                 PROVE  Answered' = Suites' /\ printed = Printed'
    BY <2>1 DEF PrintedInv
  <2>3. Answered = Suites /\ printed = Printed
    BY <2>2 DEF PrintedInv
  <2>4. \A s \in Suites : pc[s] \in {"collected", "skipped"}
    BY <2>3 DEF Answered
  <2>5. \A s \in Suites : pc'[s] = pc[s]
    BY <2>4, SettledStay
  <2>6. Reported' = Reported /\ Answered' = Answered
    BY <1>1, <2>5 DEF Reported, Answered
  <2>7. \A s \in Suites : ~Collect(s)
    BY <2>4 DEF Collect
  <2>8. entries' = entries
    BY <2>7, ReportedStep
  <2>9. QED
    BY <1>1, <1>2, <2>3, <2>6, <2>8
<1>5. QED
  BY <1>3, <1>4

\* The invariant of a run.
THEOREM ReportsInvariant == Spec => []ReportsInv
<1>1. Init => ReportsInv
  BY TriedInit, WaitInit, FolderInit, CollectorInit DEF ReportsInv
<1>2. ReportsInv /\ [Next]_vars => ReportsInv'
  BY TriedStep, WaitStep, FolderStep, VerdictStep, EntriesStep, PostedStep, PrintedStep
     DEF ReportsInv
<1>3. QED
  BY <1>1, <1>2, PTL DEF Spec

-----------------------------------------------------------------------------
(* Summaries                                                               *)

\* How a collected suite came out, and what the reporters were told of it.
Failed(s) ==
  Done(Outcome(s).status) /\ ~Outcome(s).passed /\ entries[s].status = StateFailed
Succeeded(s) ==
  /\ ~project.async /\ Done(Outcome(s).status) /\ Outcome(s).passed
  /\ entries[s].status \in {StatePassed, StateComplete} /\ entries[s].timedOut = FALSE
Launched(s) ==
  /\ project.async /\ ~Done(Outcome(s).status)
  /\ entries[s].status = Outcome(s).status /\ entries[s].timedOut = FALSE

LEMMA EntryForm ==
  ASSUME TriedInv, EntriesInv, NEW s \in Reported, ~CompletedButFailed(s), ~TimedOutReplay(s)
  PROVE  /\ entries[s].rdc \in BOOLEAN
         /\ Failed(s) \/ Succeeded(s) \/ Launched(s)
<1>1. s \in Suites /\ pc[s] = "collected"
  BY DEF Reported
<1>2. /\ tried[s] \in Seq(Attempts) /\ tried[s] # <<>>
      /\ Met(s, tried[s]) => IsSuccessful(LastAttempt(s).job)
      /\ \A i \in DOMAIN tried[s] : JobForm(tried[s][i].job)
  BY <1>1 DEF TriedInv
<1>3. PICK last : last = LastAttempt(s).job
  OBVIOUS
<1>4. PICK more : more = tried[s]
  OBVIOUS
<1>5. Len(more) \in DOMAIN more /\ more[Len(more)] \in Attempts
  BY <1>2, <1>4
<1>6. last = more[Len(more)].job /\ last \in Jobs /\ JobForm(last)
  BY <1>2, <1>3, <1>4, <1>5 DEF LastAttempt, Attempts
<1>7. PICK j : j = Outcome(s)
  OBVIOUS
<1>8. /\ entries[s].status = TotalStatus(j) /\ entries[s].timedOut = j.timedOut
      /\ entries[s].rdc = j.isRDC
  BY <1>7 DEF EntriesInv
<1>9. ~(j.isRDC /\ j.completed /\ ~j.passed)
  BY <1>7 DEF CompletedButFailed
<1>10. CASE project.async
  <2>1. j = last
    BY <1>4, <1>6, <1>7, <1>10 DEF Outcome, Judged
  <2>2. j \in Jobs /\ ~j.timedOut
    BY <1>6, <1>10, <2>1 DEF JobForm
  <2>3. CASE j = ErrorJob
    <3>1. /\ Done(j.status) /\ j.passed = FALSE /\ j.isRDC = FALSE
      BY <2>3 DEF ErrorJob, NoJob, Done, DoneStates, StateError
    <3>2. TotalStatus(j) = StateFailed
      BY <3>1 DEF TotalStatus
    <3>3. QED
      BY <1>7, <1>8, <3>1, <3>2 DEF Failed
  <2>4. CASE ~Done(j.status)
    <3>1. TotalStatus(j) = j.status
      BY <2>4 DEF TotalStatus
    <3>2. j.isRDC \in BOOLEAN /\ j.timedOut = FALSE
      BY <2>2 DEF Jobs
    <3>3. QED
      BY <1>7, <1>8, <1>10, <2>4, <3>1, <3>2 DEF Launched
  <2>5. QED
    BY <1>6, <1>10, <2>1, <2>3, <2>4 DEF JobForm
<1>11. CASE ~project.async
  <2>1. CASE PassCount(more) >= project.threshold[s]
    <3>1. j = [last EXCEPT !.status = StatePassed, !.passed = TRUE]
      BY <1>4, <1>6, <1>7, <1>11, <2>1 DEF Outcome, Judged
    <3>2. /\ j.status = StatePassed /\ j.passed = TRUE
          /\ j.isRDC \in BOOLEAN /\ j.timedOut = last.timedOut /\ last.timedOut \in BOOLEAN
      BY <1>6, <3>1 DEF Jobs
    <3>3. ~last.timedOut
      <4>1. CASE project.threshold[s] = 0
        BY <1>7, <3>2, <4>1 DEF TimedOutReplay
      <4>2. CASE project.threshold[s] # 0
        <5>1. IsSuccessful(last)
          BY <1>2, <1>3, <1>4, <2>1, <4>2 DEF Met
        <5>2. QED
          BY <1>6, <5>1 DEF JobForm
      <4>3. QED
        BY <4>1, <4>2
    <3>4. Done(j.status)
      BY <3>2 DEF Done, DoneStates
    <3>5. TotalStatus(j) \in {StatePassed, StateComplete}
      BY <3>2, <3>4 DEF TotalStatus
    <3>6. QED
      BY <1>7, <1>8, <1>11, <3>2, <3>3, <3>4, <3>5 DEF Succeeded
  <2>2. CASE ~(PassCount(more) >= project.threshold[s])
    <3>1. j = [last EXCEPT !.status = StateFailed, !.passed = (PassCount(more) >= project.threshold[s])]
      BY <1>4, <1>6, <1>7, <1>11, <2>2 DEF Outcome, Judged
    <3>2. j.status = StateFailed /\ ~j.passed /\ j.isRDC \in BOOLEAN
      BY <1>6, <2>2, <3>1 DEF Jobs
    <3>3. Done(j.status)
      BY <3>2 DEF Done, DoneStates
    <3>4. TotalStatus(j) = StateFailed
      BY <1>9, <3>2, <3>3 DEF TotalStatus
    <3>5. QED
      BY <1>7, <1>8, <3>2, <3>3, <3>4 DEF Failed
  <2>3. QED
    BY <2>1, <2>2
<1>12. QED
  BY <1>10, <1>11

\* The tables: one for each cloud that has results.
LEMMA TablesTell ==
  ASSUME NEW E, DOMAIN E = Reported, \A s \in Reported : E[s] = entries[s],
         \A s \in Reported : entries[s].rdc \in BOOLEAN /\ (Failed(s) \/ Succeeded(s) \/ Launched(s))
  PROVE  /\ "failed" \in Tables(E) <=> \E s \in Reported : Failed(s)
         /\ (\E s \in Reported : Launched(s)) => Tables(E) # {"passed"}
<1>1. /\ StateFailed \notin {StatePassed, StateComplete}
      /\ \A status : status \in {StatePassed, StateComplete, StateFailed} => Done(status)
  BY DEF StateFailed, StatePassed, StateComplete, Done, DoneStates
<1>2. ASSUME NEW s \in Reported
      PROVE  /\ Failed(s) <=> entries[s].status = StateFailed \/ entries[s].timedOut
             /\ Launched(s) <=> ~Done(entries[s].status)
             /\ Launched(s) => entries[s].timedOut = FALSE
  <2>1. Failed(s) \/ Succeeded(s) \/ Launched(s)
    OBVIOUS
  <2>2. Failed(s) => entries[s].status = StateFailed
    BY DEF Failed
  <2>3. Succeeded(s) => entries[s].status \in {StatePassed, StateComplete} /\ entries[s].timedOut = FALSE
    BY DEF Succeeded
  <2>4. Launched(s) => ~Done(entries[s].status) /\ entries[s].timedOut = FALSE
    BY DEF Launched
  <2>5. QED
    BY <1>1, <2>1, <2>2, <2>3, <2>4
<1>3. ASSUME NEW rdc \in BOOLEAN
      PROVE  /\ DOMAIN Of(E, rdc) = {s \in Reported : entries[s].rdc = rdc}
             /\ Table(Of(E, rdc)) = "failed" <=> \E s \in DOMAIN Of(E, rdc) : Failed(s)
             /\ (\E s \in DOMAIN Of(E, rdc) : Launched(s)) => Table(Of(E, rdc)) # "passed"
  <2>1. PICK F : F = Of(E, rdc)
    OBVIOUS
  <2>2. DOMAIN F = {s \in Reported : entries[s].rdc = rdc} /\ \A s \in DOMAIN F : F[s] = entries[s]
    BY <2>1 DEF Of
  <2>3. \A s \in DOMAIN F : s \in TableErrors(F) <=> Failed(s)
    BY <1>2, <2>2 DEF TableErrors
  <2>4. PICK errors : errors = TableErrors(F)
    OBVIOUS
  <2>5. PICK open : open = {s \in DOMAIN F : ~Done(F[s].status) /\ ~F[s].timedOut}
    OBVIOUS
  <2>6. Table(F) = Footer(errors, open)
    BY <2>4, <2>5 DEF Table
  <2>7. errors # {} <=> \E s \in DOMAIN F : Failed(s)
    BY <2>3, <2>4 DEF TableErrors
  <2>8. \A s \in DOMAIN F : Launched(s) => s \in open
    BY <1>2, <2>2, <2>5
  <2>9. Footer(errors, open) = "failed" <=> errors # {}
    BY DEF Footer
  <2>10. open # {} => Footer(errors, open) # "passed"
    BY DEF Footer
  <2>11. QED
    BY <2>1, <2>2, <2>6, <2>7, <2>8, <2>9, <2>10
<1>4. \A x : x \in Tables(E) <=> \E rdc \in BOOLEAN : DOMAIN Of(E, rdc) # {} /\ x = Table(Of(E, rdc))
  BY DEF Tables
<1>5. "failed" \in Tables(E) <=> \E s \in Reported : Failed(s)
  BY <1>3, <1>4
<1>6. ASSUME NEW s \in Reported, Launched(s)
      PROVE  Tables(E) # {"passed"}
  <2>1. PICK rdc \in BOOLEAN : rdc = entries[s].rdc
    OBVIOUS
  <2>2. s \in DOMAIN Of(E, rdc)
    BY <1>3, <2>1
  <2>3. Table(Of(E, rdc)) \in Tables(E) /\ Table(Of(E, rdc)) # "passed"
    BY <1>3, <1>4, <1>6, <2>2
  <2>4. QED
    BY <2>3
<1>7. QED
  BY <1>5, <1>6

LEMMA GitHubTells ==
  ASSUME NEW E, DOMAIN E = Reported, \A s \in Reported : E[s] = entries[s],
         \A s \in Reported : Failed(s) \/ Succeeded(s) \/ Launched(s)
  PROVE  GitHub(E) = "failed" <=> \E s \in Reported : Failed(s)
<1>1. PICK errors : errors = {s \in DOMAIN E : E[s].status \in {StateFailed, StateError}}
  OBVIOUS
<1>2. PICK open : open = {s \in DOMAIN E : E[s].status \in {StateInProgress, StateNew}}
  OBVIOUS
<1>3. GitHub(E) = Footer(errors, open)
  BY <1>1, <1>2 DEF GitHub
<1>4. ASSUME NEW s \in Reported
      PROVE  s \in errors <=> Failed(s)
  <2>1. Failed(s) => entries[s].status = StateFailed
    BY DEF Failed
  <2>2. Succeeded(s) => entries[s].status \notin {StateFailed, StateError}
    BY DEF Succeeded, StateFailed, StateError, StatePassed, StateComplete
  <2>3. Launched(s) => entries[s].status \notin {StateFailed, StateError}
    BY DEF Launched, Done, DoneStates
  <2>4. QED
    BY <1>1, <2>1, <2>2, <2>3
<1>5. errors # {} <=> \E s \in Reported : Failed(s)
  BY <1>1, <1>4
<1>6. Footer(errors, open) = "failed" <=> errors # {}
  BY DEF Footer
<1>7. QED
  BY <1>3, <1>5, <1>6

\* For all suites, thresholds, numbers of retries and clouds, and however the
\* attempts end: what the tables, the GitHub summary and Spotlight say is what
\* the exit status says (buildtable.go:28, table.go:63, summary.go:27,
\* spotlight.go:23, and cloud.go:138-186).
THEOREM SummariesAgree == Spec => []SummariesTellTheVerdict
<1>1. ASSUME ReportsInv
      PROVE  SummariesTellTheVerdict
  <2>1. SUFFICES ASSUME printed # None,
                        \A s \in Reported : ~CompletedButFailed(s) /\ ~TimedOutReplay(s)
                 PROVE  /\ ~passed <=> "failed" \in printed.tables
                        /\ ~passed <=> printed.github = "failed"
                        /\ \A s \in Reported : ~project.async /\ ~Outcome(s).passed => s \in printed.spotlight
                        /\ (\E s \in Reported : ~Done(Outcome(s).status)) => printed.tables # {"passed"}
    BY DEF SummariesTellTheVerdict
  <2>2. PICK E : E = [s \in Reported |-> entries[s]]
    OBVIOUS
  <2>3. DOMAIN E = Reported /\ \A s \in Reported : E[s] = entries[s]
    BY <2>2
  <2>4. /\ printed.tables = Tables(E) /\ printed.github = GitHub(E)
        /\ printed.spotlight = Spotlight(E)
    BY <1>1, <2>1, <2>2 DEF ReportsInv, PrintedInv, Printed
  <2>5. \A s \in Reported : entries[s].rdc \in BOOLEAN /\ (Failed(s) \/ Succeeded(s) \/ Launched(s))
    BY <1>1, <2>1, EntryForm DEF ReportsInv
  <2>6. /\ "failed" \in Tables(E) <=> \E s \in Reported : Failed(s)
        /\ (\E s \in Reported : Launched(s)) => Tables(E) # {"passed"}
    BY <2>3, <2>5, TablesTell
  <2>7. GitHub(E) = "failed" <=> \E s \in Reported : Failed(s)
    BY <2>3, <2>5, GitHubTells
  <2>8. \A s \in Reported : Failed(s) <=> Done(Outcome(s).status) /\ ~Outcome(s).passed
    BY <2>5 DEF Failed, Succeeded, Launched
  <2>9. passed <=> ~\E s \in Reported : Failed(s)
    BY <1>1, <2>8 DEF ReportsInv, VerdictInv
  <2>10. ASSUME NEW s \in Reported, ~project.async, ~Outcome(s).passed
         PROVE  s \in Spotlight(E)
    <3>1. Failed(s)
      BY <2>5, <2>10 DEF Succeeded, Launched
    <3>2. E[s].status = StateFailed
      BY <2>3, <3>1 DEF Failed
    <3>3. QED
      BY <2>3, <3>2 DEF Spotlight, Done, DoneStates, StateFailed, StatePassed
  <2>11. \A s \in Reported : ~Done(Outcome(s).status) => Launched(s)
    BY <2>5 DEF Failed, Succeeded
  <2>12. QED
    BY <2>4, <2>6, <2>7, <2>9, <2>10, <2>11
<1>2. QED
  BY <1>1, ReportsInvariant, PTL

-----------------------------------------------------------------------------
(* Results of tests                                                        *)

\* The last result of a test that the last attempt ran is the last attempt's.
LEMMA LastOfLast ==
  ASSUME TriedInv, NEW s \in Suites, tried[s] # <<>>, NEW t \in DOMAIN LastAttempt(s).ran
  PROVE  LastResult(s, t) = LastAttempt(s).ran[t]
<1>1. PICK more : more = tried[s]
  OBVIOUS
<1>2. more \in Seq(Attempts)
  BY <1>1 DEF TriedInv
<1>3. PICK n \in Nat : n = Len(more)
  BY <1>2
<1>4. DOMAIN more = 1..n /\ n \in 1..n
  BY <1>1, <1>2, <1>3
<1>5. LastAttempt(s) = more[n]
  BY <1>1, <1>3 DEF LastAttempt
<1>6. PICK T : T = {i \in DOMAIN more : t \in DOMAIN more[i].ran}
  OBVIOUS
<1>7. T \in SUBSET (0..n) /\ n \in T
  <2>1. n \in T
    BY <1>4, <1>5, <1>6
  <2>2. T \subseteq 1..n
    BY <1>4, <1>6
  <2>3. 1..n \subseteq 0..n
    OBVIOUS
  <2>4. QED
    BY <2>1, <2>2, <2>3
<1>8. Max(T) \in T /\ \A m \in T : m <= Max(T)
  BY <1>7, GreatestNumber
<1>9. Max(T) = n
  <2>1. PICK x : x = Max(T)
    OBVIOUS
  <2>2. x \in 0..n /\ n <= x
    BY <1>7, <1>8, <2>1
  <2>3. x = n
    BY <2>2
  <2>4. QED
    BY <2>1, <2>3
<1>10. QED
  BY <1>1, <1>5, <1>6, <1>9 DEF LastResult

\* For all suites, tests, names, folders and retries, and whatever downloads run
\* at a time: the JUnit report has the tests that ran with the last result the
\* cloud saw, all that it tells apart, and Insights learns of no failed test as
\* passed that its report shows as failed in the way Insights looks for
\* (config.go:428, cloud.go:641-697, junit.go:115-144 and 242-261,
\* cloud.go:1017-1084, testrun.go:89-183).
THEOREM TestResultsAreTheLast == Spec => []TestsHaveTheirLastResult
<1>1. ASSUME ReportsInv
      PROVE  TestsHaveTheirLastResult
  <2>1. TriedInv /\ EntriesInv /\ PostedInv /\ PrintedInv
    BY <1>1 DEF ReportsInv
  <2>2. ASSUME NEW s \in Reported
        PROVE  /\ s \in Suites /\ tried[s] \in Seq(Attempts) /\ tried[s] # <<>>
    BY <2>1, <2>2 DEF Reported, TriedInv
  <2>3. ASSUME printed # None, NEW s \in Reported, FoundAll(s)
        PROVE  JUnitIsTrue(s)
    <3>1. PICK rs : rs = [i \in DOMAIN tried[s] |-> tried[s][i].ran]
      OBVIOUS
    <3>2. entries[s].reports = rs
      BY <2>1, <2>3, <3>1 DEF EntriesInv
    <3>3. printed.junit[s] = MergeReports(rs)
      <4>1. printed = Printed
        BY <2>1, <2>3 DEF PrintedInv
      <4>2. Printed.junit[s] = MergeReports(entries[s].reports)
        BY <2>3 DEF Printed
      <4>3. QED
        BY <3>2, <4>1, <4>2
    <3>4. PICK more : more = tried[s]
      OBVIOUS
    <3>5. more \in Seq(Attempts)
      BY <2>2, <3>4
    <3>6. PICK n \in Nat : DOMAIN more = 1..n
      BY <3>5
    <3>7. DOMAIN rs = 1..n /\ \A i \in 1..n : rs[i] = more[i].ran
      BY <3>1, <3>4, <3>6
    <3>8. \A i \in 1..n : Report(rs[i])
      <4>1. \A i \in 1..n : more[i] \in Attempts
        BY <3>5, <3>6
      <4>2. \A i \in 1..n : DOMAIN rs[i] \subseteq project.tests
        BY <3>7, <4>1 DEF Attempts, Results
      <4>3. IsFiniteSet(project.tests) /\ project.tests \subseteq Nat
        BY <2>1, ReportsAssumption DEF TriedInv
      <4>4. QED
        BY <4>2, <4>3, FS_Subset DEF Report
    <3>9. PICK report : report = MergeReports(rs)
      OBVIOUS
    <3>10. Tells(report, rs, n)
      BY <3>7, <3>8, <3>9, MergedTells
    <3>11. ASSUME NEW t \in DOMAIN report
           PROVE  t \in Ran(s) /\ report[t] = LastResult(s, t)
      <4>1. PICK i \in 1..n : /\ t \in DOMAIN rs[i] /\ report[t] = rs[i][t]
                              /\ \A m \in (i + 1)..n : t \notin DOMAIN rs[m]
        BY <3>10 DEF Tells
      <4>2. t \in Ran(s)
        BY <3>4, <3>6, <3>7, <4>1 DEF Ran
      <4>3. PICK T : T = {m \in DOMAIN more : t \in DOMAIN more[m].ran}
        OBVIOUS
      <4>4. i \in T /\ T \in SUBSET (0..n)
        <5>1. i \in T
          BY <3>6, <3>7, <4>1, <4>3
        <5>2. T \subseteq 1..n
          BY <3>6, <4>3
        <5>3. QED
          BY <5>1, <5>2
      <4>5. \A m \in T : m \in 1..n /\ m \notin (i + 1)..n
        BY <3>6, <3>7, <4>1, <4>3
      <4>6. Max(T) = i
        <5>1. PICK x : x = Max(T)
          OBVIOUS
        <5>2. x \in T /\ i <= x
          BY <4>4, <5>1, GreatestNumber
        <5>3. x \in 1..n /\ x \notin (i + 1)..n
          BY <4>5, <5>2
        <5>4. x = i
          BY <5>2, <5>3
        <5>5. QED
          BY <5>1, <5>4
      <4>7. LastResult(s, t) = more[i].ran[t]
        BY <3>4, <4>3, <4>6 DEF LastResult
      <4>8. QED
        BY <3>7, <4>1, <4>2, <4>7
    <3>12. ASSUME NEW t \in Ran(s)
           PROVE  \E u \in DOMAIN report : SameCase(t, u)
      <4>1. PICK i \in 1..n : t \in DOMAIN rs[i]
        BY <3>4, <3>6, <3>7 DEF Ran
      <4>2. QED
        BY <3>10, <4>1 DEF Tells
    <3>13. QED
      BY <3>3, <3>9, <3>11, <3>12 DEF JUnitIsTrue
  <2>4. ASSUME NEW s \in Reported, posted[s] # None
        PROVE  InsightsAreTrue(s)
    <3>1. PICK source \in {"junit.xml", "sauce-test-report.json"} :
            posted[s] = [source |-> source, runs |-> TestRuns(s, source)]
      BY <2>1, <2>2, <2>4 DEF PostedInv
    <3>2. posted[s].source = source /\ posted[s].runs = TestRuns(s, source)
      BY <3>1
    <3>3. LastAttempt(s).ran \in Results
      <4>1. PICK more : more = tried[s]
        OBVIOUS
      <4>2. more \in Seq(Attempts) /\ more # <<>>
        BY <2>2, <4>1
      <4>3. more[Len(more)] \in Attempts
        BY <4>2
      <4>4. QED
        BY <4>1, <4>3 DEF LastAttempt, Attempts
    <3>4. PICK runs : runs = TestRuns(s, source)
      OBVIOUS
    <3>5. PICK ran : ran = LastAttempt(s).ran
      OBVIOUS
    <3>6. DOMAIN runs = DOMAIN ran /\ \A t \in DOMAIN ran : runs[t] = Uniform(ran[t], source)
      BY <3>4, <3>5 DEF TestRuns
    <3>7. \A t \in DOMAIN ran : ran[t] \in Verdicts
      BY <3>3, <3>5 DEF Results
    <3>8. \A t \in DOMAIN ran : LastResult(s, t) = ran[t]
      BY <2>1, <2>2, <3>5, LastOfLast
    <3>9. PICK told : told = IF source = "junit.xml" THEN {"error", "status", "skipped"} ELSE {}
      OBVIOUS
    <3>10. ASSUME NEW t \in DOMAIN runs
           PROVE  /\ runs[t] = "passed" => LastResult(s, t) \in {"passed"} \cup told
                  /\ runs[t] = "failed" => LastResult(s, t) \in Failures
                  /\ runs[t] = "skipped" => LastResult(s, t) = "skipped"
      <4>1. PICK v : v = ran[t]
        OBVIOUS
      <4>2. v \in Verdicts /\ runs[t] = Uniform(v, source) /\ LastResult(s, t) = v
        BY <3>6, <3>7, <3>8, <4>1
      <4>3. CASE source = "junit.xml"
        <5>1. /\ Uniform(v, source) = "passed" => v \in Verdicts \ {"failure"}
              /\ Uniform(v, source) = "failed" => v = "failure"
              /\ Uniform(v, source) # "skipped"
          BY <4>2, <4>3 DEF Uniform
        <5>2. QED
          BY <3>9, <4>2, <4>3, <5>1 DEF Verdicts, Failures
      <4>4. CASE source # "junit.xml"
        <5>1. /\ Uniform(v, source) = "passed" => v = "passed"
              /\ Uniform(v, source) = "failed" => v \in Failures
              /\ Uniform(v, source) = "skipped" => v = "skipped"
          BY <4>2, <4>4 DEF Uniform, Verdicts, Failures
        <5>2. QED
          BY <4>2, <5>1
      <4>5. QED
        BY <4>3, <4>4
    <3>11. QED
      BY <3>2, <3>4, <3>9, <3>10 DEF InsightsAreTrue
  <2>5. QED
    BY <2>3, <2>4 DEF TestsHaveTheirLastResult
<1>2. QED
  BY <1>1, ReportsInvariant, PTL

=============================================================================
