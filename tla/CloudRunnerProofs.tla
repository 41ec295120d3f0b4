------------------------- MODULE CloudRunnerProofs -------------------------
(***************************************************************************)
(* Proofs about CloudRunner, for any set of suites, any number of workers, *)
(* any retry limit and any thresholds: types and tokens, the jobs in the   *)
(* cloud (none is forgotten while it runs, the attempts of a suite follow  *)
(* one another), that the pool implements SuiteRun, and what the verdicts  *)
(* rest on: a suite is reported as failed only when its attempts are used  *)
(* up, a run that nothing disturbed passes only if every suite has the     *)
(* successful jobs its threshold asks for, no attempt is spent on a suite  *)
(* that has them already, and no suite is skipped without a reason.        *)
(***************************************************************************)
EXTENDS CloudRunner, FiniteSetTheorems, TLAPS

-----------------------------------------------------------------------------
(* Jobs and tokens have their types                                        *)

\* The jobs of the client code are job.Job values.
LEMMA FixedJobs ==
  NoJob \in Jobs /\ ErrorJob \in Jobs /\ BareJob \in Jobs
BY DEF NoJob, ErrorJob, BareJob, Jobs, States, StateError, NoState

\* What a status request answers with is a job.Job, whatever the outcome.
LEMMA ParseJobType ==
  ASSUME NEW rdc \in BOOLEAN,
         NEW outcome \in {StatePassed, StateFailed, StateComplete, StateError}
  PROVE  ParseJob(rdc, outcome) \in Jobs
BY DEF ParseJob, RDCJob, RestoJob, Jobs, States, StatePassed, StateFailed,
       StateComplete, StateError

\* TotalStatus answers with a state.
LEMMA TotalStatusType ==
  ASSUME NEW j \in Jobs
  PROVE  TotalStatus(j) \in States
BY DEF TotalStatus, Jobs, States, StateComplete, StatePassed, StateFailed

\* The options a worker puts back are options: the attempt stays in bounds
\* because ShouldRetry asked BelowRetryLimit.
LEMMA CountedType ==
  ASSUME NEW o \in StartOptions, NEW j \in Jobs
  PROVE  /\ Counted(o, j) \in StartOptions
         /\ Counted(o, j).suite = o.suite
         /\ Counted(o, j).attempt = o.attempt
BY DEF Counted, StartOptions

LEMMA NextAttemptType ==
  ASSUME NEW o \in StartOptions, BelowRetryLimit(o)
  PROVE  NextAttempt(o) \in StartOptions /\ NextAttempt(o).suite = o.suite
BY PoolAssumption DEF NextAttempt, StartOptions, BelowRetryLimit, Attempts

LEMMA JudgedType ==
  ASSUME NEW o \in StartOptions, NEW j \in Jobs, NEW skipped \in BOOLEAN
  PROVE  Judged(o, j, skipped) \in Jobs
BY DEF Judged, Jobs, States, StateFailed, StatePassed, BelowThreshold

\* The job of a polling worker.
LEMMA PolledJobType ==
  ASSUME TypeOK, NEW w \in Workers, opts[w] # None, CloudState(CurrentJob(w)) # "none"
  PROVE  PolledJob(w) \in Jobs
<1>1. opts[w] \in StartOptions
  BY DEF TypeOK
<1>2. RealDevice[opts[w].suite] \in BOOLEAN
  BY <1>1, PoolAssumption DEF StartOptions
<1>3. CloudState(CurrentJob(w)) \in CloudStates
  BY <1>1 DEF TypeOK, CloudState, CurrentJob, StartOptions
<1>4. CASE CloudState(CurrentJob(w)) = "running"
  BY <1>2, <1>4 DEF PolledJob, Jobs, NoJob, States, StateInProgress
<1>5. CASE CloudState(CurrentJob(w)) # "running"
  <2>1. CloudState(CurrentJob(w)) \in {StatePassed, StateFailed, StateComplete, StateError}
    BY <1>3, <1>5 DEF CloudStates
  <2>2. QED
    BY <1>2, <1>5, <2>1, ParseJobType DEF PolledJob
<1>6. QED
  BY <1>4, <1>5

-----------------------------------------------------------------------------
(* The tokens in a channel                                                 *)

Tokens(q) == {q[i].suite : i \in DOMAIN q}

NoTokenTwice(q) == \A i, j \in DOMAIN q : q[i].suite = q[j].suite => i = j

\* Sending adds one token to a channel.
LEMMA SendTokens ==
  ASSUME NEW S, NEW q \in Seq(S), NEW e \in S
  PROVE  /\ Append(q, e) \in Seq(S)
         /\ Tokens(Append(q, e)) = Tokens(q) \cup {e.suite}
         /\ NoTokenTwice(q) /\ e.suite \notin Tokens(q) => NoTokenTwice(Append(q, e))
<1> DEFINE p == Append(q, e)
<1>1. /\ p \in Seq(S)
      /\ Len(p) = Len(q) + 1
      /\ \A i \in 1..Len(q) : p[i] = q[i]
      /\ p[Len(q) + 1] = e
  OBVIOUS
<1>2. Len(q) \in Nat /\ DOMAIN q = 1..Len(q) /\ DOMAIN p = 1..(Len(q) + 1)
  BY <1>1
<1>3. Tokens(p) = Tokens(q) \cup {e.suite}
  <2>1. ASSUME NEW s \in Tokens(p)
        PROVE  s \in Tokens(q) \cup {e.suite}
    <3>1. PICK i \in DOMAIN p : s = p[i].suite
      BY DEF Tokens
    <3>2. i \in DOMAIN q \/ i = Len(q) + 1
      BY <1>2, <3>1
    <3>3. QED
      BY <1>1, <1>2, <3>1, <3>2 DEF Tokens
  <2>2. ASSUME NEW s \in Tokens(q) \cup {e.suite}
        PROVE  s \in Tokens(p)
    <3>1. CASE s \in Tokens(q)
      <4>1. PICK i \in DOMAIN q : s = q[i].suite
        BY <3>1 DEF Tokens
      <4>2. i \in DOMAIN p /\ p[i] = q[i]
        BY <1>1, <1>2, <4>1
      <4>3. QED
        BY <4>1, <4>2 DEF Tokens
    <3>2. CASE s = e.suite
      BY <1>1, <1>2, <3>2 DEF Tokens
    <3>3. QED
      BY <3>1, <3>2, <2>2
  <2>3. QED
    BY <2>1, <2>2
<1>4. ASSUME NoTokenTwice(q), e.suite \notin Tokens(q)
      PROVE  NoTokenTwice(p)
  <2>1. SUFFICES ASSUME NEW i \in DOMAIN p, NEW j \in DOMAIN p, p[i].suite = p[j].suite
                 PROVE  i = j
    BY DEF NoTokenTwice
  <2>2. \A k \in DOMAIN p : k \in DOMAIN q \/ k = Len(q) + 1
    BY <1>2
  <2>3. \A k \in DOMAIN q : p[k].suite = q[k].suite /\ q[k].suite \in Tokens(q)
    BY <1>1, <1>2 DEF Tokens
  <2>4. p[Len(q) + 1].suite \notin Tokens(q)
    BY <1>1, <1>4
  <2>5. QED
    BY <1>4, <2>1, <2>2, <2>3, <2>4 DEF NoTokenTwice
<1>5. QED
  BY <1>1, <1>3, <1>4

\* Receiving takes the first token out of a channel.
LEMMA ReceiveTokens ==
  ASSUME NEW S, NEW q \in Seq(S), q # <<>>
  PROVE  /\ Tail(q) \in Seq(S)
         /\ Head(q) \in S
         /\ Head(q).suite \in Tokens(q)
         /\ Tokens(q) = Tokens(Tail(q)) \cup {Head(q).suite}
         /\ NoTokenTwice(q) =>
              NoTokenTwice(Tail(q)) /\ Head(q).suite \notin Tokens(Tail(q))
<1> DEFINE t == Tail(q)
<1>1. /\ t \in Seq(S)
      /\ Head(q) \in S /\ Head(q) = q[1]
      /\ Len(q) \in Nat /\ Len(q) > 0 /\ DOMAIN q = 1..Len(q)
      /\ Len(t) = Len(q) - 1 /\ DOMAIN t = 1..(Len(q) - 1)
      /\ \A i \in 1..(Len(q) - 1) : t[i] = q[i + 1]
  OBVIOUS
<1>2. \A i \in DOMAIN t : i + 1 \in DOMAIN q /\ t[i] = q[i + 1]
  BY <1>1
<1>3. \A k \in DOMAIN q : k # 1 => k - 1 \in DOMAIN t /\ q[k] = t[k - 1]
  BY <1>1
<1>4. 1 \in DOMAIN q
  BY <1>1
<1>5. Head(q).suite \in Tokens(q)
  BY <1>1, <1>4 DEF Tokens
<1>6. Tokens(q) = Tokens(t) \cup {Head(q).suite}
  <2>1. Tokens(t) \subseteq Tokens(q)
    BY <1>2 DEF Tokens
  <2>2. ASSUME NEW k \in DOMAIN q
        PROVE  q[k].suite \in Tokens(t) \cup {Head(q).suite}
    BY <1>1, <1>3 DEF Tokens
  <2>3. QED
    BY <1>5, <2>1, <2>2 DEF Tokens
<1>7. ASSUME NoTokenTwice(q)
      PROVE  NoTokenTwice(t) /\ Head(q).suite \notin Tokens(t)
  <2>1. NoTokenTwice(t)
    <3>1. SUFFICES ASSUME NEW i \in DOMAIN t, NEW j \in DOMAIN t, t[i].suite = t[j].suite
                   PROVE  i = j
      BY DEF NoTokenTwice
    <3>2. i + 1 = j + 1
      BY <1>2, <1>7, <3>1 DEF NoTokenTwice
    <3>3. i \in Int /\ j \in Int
      BY <1>1
    <3>4. QED
      BY <3>2, <3>3
  <2>2. Head(q).suite \notin Tokens(t)
    <3>1. SUFFICES ASSUME NEW i \in DOMAIN t, t[i].suite = q[1].suite
                   PROVE  FALSE
      BY <1>1 DEF Tokens
    <3>2. i + 1 = 1
      BY <1>2, <1>4, <1>7, <3>1 DEF NoTokenTwice
    <3>3. QED
      BY <1>1, <3>2
  <2>3. QED
    BY <2>1, <2>2
<1>8. QED
  BY <1>1, <1>5, <1>6, <1>7

-----------------------------------------------------------------------------
(* The tokens the workers hold                                             *)

Holders(f) == {v \in Workers : f[v] # None}

HeldTokens(f) == {f[v].suite : v \in Holders(f)}

NoHolderTwice(f) ==
  \A v, w \in Workers : f[v] # None /\ f[w] # None /\ f[v].suite = f[w].suite => v = w

\* A worker that held nothing takes a token.
LEMMA GrabToken ==
  ASSUME NEW f, f = [v \in Workers |-> f[v]], NEW w \in Workers,
         f[w] = None, NoHolderTwice(f),
         NEW e, e # None, e.suite \notin HeldTokens(f),
         NEW g, g = [f EXCEPT ![w] = e]
  PROVE  /\ HeldTokens(g) = HeldTokens(f) \cup {e.suite}
         /\ NoHolderTwice(g)
<1>1. g[w] = e /\ \A v \in Workers : v # w => g[v] = f[v]
  OBVIOUS
<1>2. Holders(g) = Holders(f) \cup {w} /\ w \notin Holders(f)
  BY <1>1 DEF Holders
<1>3. \A v \in Holders(f) : v \in Holders(g) /\ g[v] = f[v]
  BY <1>1, <1>2 DEF Holders
<1>4. HeldTokens(g) = HeldTokens(f) \cup {e.suite}
  <2>1. ASSUME NEW v \in Holders(g)
        PROVE  g[v].suite \in HeldTokens(f) \cup {e.suite}
    BY <1>1, <1>2, <1>3, <2>1 DEF HeldTokens
  <2>2. ASSUME NEW v \in Holders(f)
        PROVE  f[v].suite \in HeldTokens(g)
    BY <1>3, <2>2 DEF HeldTokens
  <2>3. e.suite \in HeldTokens(g)
    BY <1>1, <1>2 DEF HeldTokens
  <2>4. ASSUME NEW s \in HeldTokens(g)
        PROVE  s \in HeldTokens(f) \cup {e.suite}
    <3>1. PICK v \in Holders(g) : s = g[v].suite
      BY <2>4 DEF HeldTokens
    <3>2. QED
      BY <2>1, <3>1
  <2>5. ASSUME NEW s \in HeldTokens(f)
        PROVE  s \in HeldTokens(g)
    <3>1. PICK v \in Holders(f) : s = f[v].suite
      BY <2>5 DEF HeldTokens
    <3>2. QED
      BY <2>2, <3>1
  <2>6. QED
    BY <2>3, <2>4, <2>5
<1>5. NoHolderTwice(g)
  <2>1. \A v \in Workers : v # w /\ g[v] # None => g[v].suite # e.suite
    BY <1>1 DEF HeldTokens, Holders
  <2>2. QED
    BY <1>1, <2>1 DEF NoHolderTwice
<1>6. QED
  BY <1>1, <1>4, <1>5

\* A worker hands its token on.
LEMMA DropToken ==
  ASSUME NEW X, NEW f \in [Workers -> X \cup {None}], NEW w \in Workers,
         f[w] # None, NoHolderTwice(f), NEW g, g = [f EXCEPT ![w] = None]
  PROVE  /\ g \in [Workers -> X \cup {None}]
         /\ f[w] \in X
         /\ f[w].suite \in HeldTokens(f)
         /\ HeldTokens(g) = HeldTokens(f) \ {f[w].suite}
         /\ NoHolderTwice(g)
<1>1. /\ g \in [Workers -> X \cup {None}] /\ g[w] = None
      /\ \A v \in Workers : v # w => g[v] = f[v]
      /\ f[w] \in X
  OBVIOUS
<1>2. Holders(g) = Holders(f) \ {w} /\ w \in Holders(f)
  BY <1>1 DEF Holders
<1>3. NoHolderTwice(g)
  BY <1>1 DEF NoHolderTwice
<1>4. f[w].suite \in HeldTokens(f)
  BY <1>2 DEF HeldTokens
<1>5. \A v \in Holders(f) : v # w => v \in Holders(g) /\ g[v] = f[v] /\ f[v].suite # f[w].suite
  BY <1>1, <1>2 DEF NoHolderTwice, Holders
<1>6. HeldTokens(g) = HeldTokens(f) \ {f[w].suite}
  <2>1. ASSUME NEW v \in Holders(g)
        PROVE  g[v].suite \in HeldTokens(f) \ {f[w].suite}
    BY <1>1, <1>2, <1>5, <2>1 DEF HeldTokens, Holders
  <2>2. ASSUME NEW v \in Holders(f), f[v].suite # f[w].suite
        PROVE  f[v].suite \in HeldTokens(g)
    BY <1>5, <2>2 DEF HeldTokens
  <2>3. ASSUME NEW s \in HeldTokens(g)
        PROVE  s \in HeldTokens(f) \ {f[w].suite}
    <3>1. PICK v \in Holders(g) : s = g[v].suite
      BY <2>3 DEF HeldTokens
    <3>2. QED
      BY <2>1, <3>1
  <2>4. ASSUME NEW s \in HeldTokens(f), s # f[w].suite
        PROVE  s \in HeldTokens(g)
    <3>1. PICK v \in Holders(f) : s = f[v].suite
      BY <2>4 DEF HeldTokens
    <3>2. QED
      BY <2>2, <2>4, <3>1
  <2>5. QED
    BY <2>3, <2>4
<1>7. QED
  BY <1>1, <1>3, <1>4, <1>6

\* The places of CloudRunner in terms of these.
LEMMA Places ==
  /\ Queued = Tokens(jobOpts)
  /\ Answered = Tokens(results)
  /\ Running = HeldTokens(opts)
  /\ Held = HeldTokens(res)
  /\ PlacesInjective <=>
       /\ NoTokenTwice(jobOpts) /\ NoTokenTwice(results)
       /\ NoHolderTwice(opts) /\ NoHolderTwice(res)
       /\ \A o, p \in retrying : o.suite = p.suite => o = p
BY DEF Queued, Answered, Running, Held, PlacesInjective, Tokens, HeldTokens, Holders,
       NoTokenTwice, NoHolderTwice

\* The same in the next state.
LEMMA PlacesNext ==
  /\ Queued' = Tokens(jobOpts')
  /\ Answered' = Tokens(results')
  /\ Running' = HeldTokens(opts')
  /\ Held' = HeldTokens(res')
  /\ PlacesInjective' <=>
       /\ NoTokenTwice(jobOpts') /\ NoTokenTwice(results')
       /\ NoHolderTwice(opts') /\ NoHolderTwice(res')
       /\ \A o, p \in retrying' : o.suite = p.suite => o = p
BY DEF Queued, Answered, Running, Held, PlacesInjective, Tokens, HeldTokens, Holders,
       NoTokenTwice, NoHolderTwice

-----------------------------------------------------------------------------
(* The steps of the pool                                                   *)

\* The part of TypeOK about the variables of the goroutines that run suites.
ClientType ==
  /\ unfed \subseteq Suites
  /\ jobOpts \in Seq(StartOptions)
  /\ retrying \subseteq StartOptions
  /\ pc \in [Workers -> PCs]
  /\ opts \in [Workers -> StartOptions \cup {None}]
  /\ res \in [Workers -> Results \cup {None}]
  /\ skipStart \in [Workers -> BOOLEAN]

\* The part about the collector, and the part about the cloud.
CollectorType ==
  /\ results \in Seq(Results)
  /\ completed \in Nat
  /\ passed \in BOOLEAN
  /\ ledger \in [Suites -> Entries]
  /\ returned \in BOOLEAN
CloudType ==
  /\ cloud \in [Suites -> [Attempts -> CloudStates]]
  /\ stopped \subseteq JobIDs
  /\ abandoned \subseteq JobIDs
  /\ orphaned \subseteq JobIDs

\* The part of WorkerState that does not speak of the cloud.
WorkerHolds ==
  \A w \in Workers :
    /\ pc[w] \in {"starting", "polling"} <=> opts[w] # None
    /\ pc[w] = "sending" <=> res[w] # None

LEMMA TypeParts ==
  /\ TypeOK <=> ClientType /\ CollectorType /\ cancelled \in BOOLEAN /\ CloudType
  /\ TypeOK' <=> ClientType' /\ CollectorType' /\ cancelled' \in BOOLEAN /\ CloudType'
BY DEF TypeOK, ClientType, CollectorType, CloudType

\* A worker back from runJob hands its token either to a retry goroutine or to
\* the result it will send.
LEMMA AfterRunJobStep ==
  ASSUME PoolInv, NEW w \in Workers, opts[w] # None,
         NEW j \in Jobs, NEW skipped \in BOOLEAN,
         AfterRunJob(w, j, skipped), UNCHANGED collectorVars
  PROVE  /\ ClientType'
         /\ OneTokenPerSuite'
         /\ WorkerHolds'
         /\ \A v \in Workers : pc'[v] = "polling" =>
              v # w /\ pc[v] = "polling" /\ opts'[v] = opts[v]
         /\ pc'[w] \in {"idle", "sending"}
<1> DEFINE o == Counted(opts[w], j)
<1>1. /\ ClientType /\ OneTokenPerSuite /\ WorkerState
      /\ opts[w] \in StartOptions
      /\ pc[w] \in {"starting", "polling"}
      /\ res[w] = None
  BY TypeParts DEF PoolInv, ClientType, WorkerState
<1>2. o \in StartOptions /\ o.suite = opts[w].suite /\ o.attempt = opts[w].attempt
  BY <1>1, CountedType
<1>3. UNCHANGED <<unfed, jobOpts, results, ledger>>
  BY DEF AfterRunJob, collectorVars
<1>4. UNCHANGED <<Queued, Answered, Reported>>
  BY <1>3 DEF Queued, Answered, Reported
<1>5. /\ NoTokenTwice(jobOpts) /\ NoTokenTwice(results)
      /\ NoHolderTwice(opts) /\ NoHolderTwice(res)
      /\ \A p, q \in retrying : p.suite = q.suite => p = q
  BY <1>1, Places DEF OneTokenPerSuite
<1>6. /\ opts' \in [Workers -> StartOptions \cup {None}]
      /\ opts[w].suite \in Running
      /\ Running' = Running \ {opts[w].suite}
      /\ NoHolderTwice(opts')
  <2>1. opts' = [opts EXCEPT ![w] = None]
    BY DEF AfterRunJob, Requeue, Settle
  <2>2. opts \in [Workers -> StartOptions \cup {None}]
    BY <1>1 DEF ClientType
  <2>3. /\ opts' \in [Workers -> StartOptions \cup {None}]
        /\ opts[w].suite \in HeldTokens(opts)
        /\ HeldTokens(opts') = HeldTokens(opts) \ {opts[w].suite}
        /\ NoHolderTwice(opts')
    BY <1>5, <2>1, <2>2, DropToken
  <2>4. QED
    BY <2>3, Places, PlacesNext
<1>7. CASE Requeue(w, j, skipped)
  <2>1. /\ BelowRetryLimit(o)
        /\ retrying' = retrying \cup {NextAttempt(o)}
        /\ pc' = [pc EXCEPT ![w] = "idle"]
        /\ opts' = [opts EXCEPT ![w] = None]
        /\ UNCHANGED <<res, skipStart>>
    BY <1>7 DEF Requeue, ShouldRetry
  <2>2. NextAttempt(o) \in StartOptions /\ NextAttempt(o).suite = opts[w].suite
    BY <1>2, <2>1, NextAttemptType
  <2>3. ClientType'
    BY <1>1, <1>3, <1>6, <2>1, <2>2 DEF ClientType, PCs
  <2>4. /\ Retried' = Retried \cup {opts[w].suite}
        /\ Running' = Running \ {opts[w].suite}
        /\ Held' = Held
    BY <1>6, <2>1, <2>2, PlacesNext, Places DEF Retried
  <2>5. PlacesInjective'
    <3>1. opts[w].suite \notin Retried
      BY <1>1, <1>6 DEF OneTokenPerSuite, PlacesDisjoint
    <3>2. \A p, q \in retrying' : p.suite = q.suite => p = q
      BY <1>5, <2>1, <2>2, <3>1 DEF Retried
    <3>3. QED
      BY <1>3, <1>5, <1>6, <2>1, <3>2, PlacesNext
  <2>6. OneTokenPerSuite'
    <3>1. PlacesDisjoint'
      BY <1>1, <1>3, <1>4, <1>6, <2>4 DEF OneTokenPerSuite, PlacesDisjoint
    <3>2. QED
      BY <1>1, <1>3, <1>4, <1>6, <2>4, <2>5, <3>1 DEF OneTokenPerSuite
  <2>7. WorkerHolds'
    BY <1>1, <2>1 DEF WorkerHolds, WorkerState, ClientType
  <2>8. QED
    BY <1>1, <2>1, <2>3, <2>6, <2>7 DEF ClientType
<1>8. CASE Settle(w, j, skipped)
  <2>0. PICK r : r = [suite |-> o.suite, job |-> Judged(o, j, skipped), skipped |-> skipped,
                      attempts |-> o.attempt + 1]
    OBVIOUS
  <2>1. /\ skipStart' = [skipStart EXCEPT ![w] = @ \/ (FailFast /\ ~j.passed)]
        /\ res' = [res EXCEPT ![w] = r]
        /\ pc' = [pc EXCEPT ![w] = "sending"]
        /\ opts' = [opts EXCEPT ![w] = None]
        /\ UNCHANGED retrying
    BY <1>8, <2>0 DEF Settle
  <2>2. r \in Results /\ r.suite = opts[w].suite /\ r # None
    <3>1. Judged(o, j, skipped) \in Jobs
      BY <1>2, JudgedType
    <3>2. o.suite \in Suites /\ o.attempt + 1 \in 0..(Retries + 1)
      BY <1>2, PoolAssumption DEF StartOptions, Attempts
    <3>3. QED
      BY <1>2, <2>0, <3>1, <3>2, NoneAssumption DEF Results
  <2>3. /\ res' \in [Workers -> Results \cup {None}]
        /\ Held' = Held \cup {opts[w].suite}
        /\ NoHolderTwice(res')
    <3>1. opts[w].suite \notin HeldTokens(res)
      BY <1>1, <1>6, Places DEF OneTokenPerSuite, PlacesDisjoint
    <3>2. res \in [Workers -> Results \cup {None}] /\ res = [v \in Workers |-> res[v]]
      BY <1>1 DEF ClientType
    <3>3. r.suite \notin HeldTokens(res) /\ res[w] = None /\ NoHolderTwice(res)
      BY <1>1, <1>5, <2>2, <3>1
    <3>4. res' \in [Workers -> Results \cup {None}]
      BY <2>1, <2>2, <3>2
    <3>5. HeldTokens(res') = HeldTokens(res) \cup {r.suite} /\ NoHolderTwice(res')
      BY <2>1, <2>2, <3>2, <3>3, GrabToken
    <3>6. QED
      BY <2>2, <3>4, <3>5, Places, PlacesNext
  <2>4. skipStart' \in [Workers -> BOOLEAN]
    BY <1>1, <2>1 DEF ClientType
  <2>5. ClientType'
    BY <1>1, <1>3, <1>6, <2>1, <2>3, <2>4 DEF ClientType, PCs
  <2>6. /\ Held' = Held \cup {opts[w].suite}
        /\ Running' = Running \ {opts[w].suite}
        /\ Retried' = Retried
    BY <1>6, <2>1, <2>3, PlacesNext DEF Retried
  <2>7. PlacesInjective'
    BY <1>3, <1>5, <1>6, <2>1, <2>3, PlacesNext
  <2>8. OneTokenPerSuite'
    <3>1. PlacesDisjoint'
      BY <1>1, <1>3, <1>4, <1>6, <2>6 DEF OneTokenPerSuite, PlacesDisjoint
    <3>2. QED
      BY <1>1, <1>3, <1>4, <1>6, <2>6, <2>7, <3>1 DEF OneTokenPerSuite
  <2>9. WorkerHolds'
    BY <1>1, <2>1, <2>2 DEF WorkerHolds, WorkerState, ClientType
  <2>10. QED
    BY <1>1, <2>1, <2>5, <2>8, <2>9 DEF ClientType
<1>9. QED
  BY <1>7, <1>8 DEF AfterRunJob

\* What the conjuncts of PoolInv say, spelled out for the steps below.
LEMMA PoolFacts ==
  ASSUME PoolInv
  PROVE  /\ ClientType /\ CollectorType /\ cancelled \in BOOLEAN /\ CloudType
         /\ OneTokenPerSuite /\ PlacesDisjoint /\ WorkerState /\ Tally
         /\ NoTokenTwice(jobOpts) /\ NoTokenTwice(results)
         /\ NoHolderTwice(opts) /\ NoHolderTwice(res)
         /\ \A o, p \in retrying : o.suite = p.suite => o = p
BY TypeParts, Places DEF PoolInv, OneTokenPerSuite

\* Whatever touches neither the places nor the ledger moves no token.
LEMMA TokensKept ==
  ASSUME OneTokenPerSuite, UNCHANGED <<unfed, jobOpts, retrying, opts, res, results, ledger>>
  PROVE  OneTokenPerSuite'
<1>1. UNCHANGED <<Queued, Retried, Running, Held, Answered, Reported>>
  BY DEF Queued, Retried, Running, Held, Answered, Reported
<1>2. PlacesInjective'
  BY DEF OneTokenPerSuite, PlacesInjective
<1>3. PlacesDisjoint'
  BY <1>1 DEF OneTokenPerSuite, PlacesDisjoint
<1>4. QED
  BY <1>1, <1>2, <1>3 DEF OneTokenPerSuite

\* The collector's tally does not depend on the goroutines.
LEMMA CollectorKept ==
  ASSUME CollectorType, Tally, UNCHANGED collectorVars
  PROVE  CollectorType' /\ Tally' /\ UNCHANGED <<Answered, Reported>>
BY DEF CollectorType, Tally, collectorVars, Answered, Reported

LEMMA CloudKept ==
  ASSUME CloudType, UNCHANGED cloudVars
  PROVE  CloudType'
BY DEF CloudType, cloudVars

\* A worker that is neither polling nor about to is of no concern to WorkerState
\* as long as the cloud is left alone.
LEMMA WorkerStateKept ==
  ASSUME WorkerState, WorkerHolds', UNCHANGED cloud,
         \A v \in Workers : pc'[v] = "polling" => pc[v] = "polling" /\ opts'[v] = opts[v]
  PROVE  WorkerState'
BY DEF WorkerState, WorkerHolds, CloudState, CurrentJob

\* The feeder moves a suite from its slice into the channel.
LEMMA FeedStep ==
  ASSUME PoolInv, NEW s \in Suites, Feed(s)
  PROVE  PoolInv'
<1> PICK e : e = [suite |-> s, attempt |-> 0, passCount |-> 0]
  OBVIOUS
<1>1. /\ s \in unfed
      /\ unfed' = unfed \ {s}
      /\ jobOpts' = Append(jobOpts, e)
      /\ UNCHANGED <<retrying, pc, opts, res, skipStart>>
      /\ UNCHANGED collectorVars /\ UNCHANGED cancelled /\ UNCHANGED cloudVars
  BY DEF Feed
<1>2. e \in StartOptions /\ e.suite = s
  BY PoolAssumption DEF StartOptions, Attempts
<1>3. e.suite \notin Tokens(jobOpts)
  BY <1>1, <1>2, PoolFacts, Places DEF PlacesDisjoint
<1>4. /\ jobOpts' \in Seq(StartOptions)
      /\ Queued' = Queued \cup {s}
      /\ NoTokenTwice(jobOpts')
  <2>1. jobOpts \in Seq(StartOptions) /\ NoTokenTwice(jobOpts)
    BY PoolFacts DEF ClientType
  <2>2. QED
    BY <1>1, <1>2, <1>3, <2>1, SendTokens, Places, PlacesNext
<1>5. /\ UNCHANGED <<Retried, Running, Held>>
      /\ UNCHANGED <<Answered, Reported>>
      /\ CollectorType' /\ Tally' /\ CloudType' /\ cancelled' \in BOOLEAN
  BY <1>1, PoolFacts, CollectorKept, CloudKept DEF Retried, Running, Held
<1>6. ClientType'
  BY <1>1, <1>4, PoolFacts DEF ClientType
<1>7. OneTokenPerSuite'
  <2>1. PlacesInjective'
    BY <1>1, <1>4, PoolFacts, PlacesNext DEF collectorVars
  <2>2. PlacesDisjoint'
    BY <1>1, <1>4, <1>5, PoolFacts DEF PlacesDisjoint
  <2>3. Suites = (unfed \cup Queued \cup Retried \cup Running \cup Held \cup Answered \cup Reported)'
    BY <1>1, <1>4, <1>5, PoolFacts DEF OneTokenPerSuite
  <2>4. QED
    BY <2>1, <2>2, <2>3 DEF OneTokenPerSuite
<1>8. WorkerState'
  <2>1. UNCHANGED cloud
    BY <1>1 DEF cloudVars
  <2>2. QED
    BY <1>1, <2>1, PoolFacts, WorkerStateKept DEF WorkerHolds, WorkerState
<1>9. QED
  BY <1>5, <1>6, <1>7, <1>8, TypeParts DEF PoolInv

\* A retry goroutine sends its options and ends.
LEMMA RetrySendStep ==
  ASSUME PoolInv, NEW o \in retrying, RetrySend(o)
  PROVE  PoolInv'
<1>1. /\ retrying' = retrying \ {o}
      /\ jobOpts' = Append(jobOpts, o)
      /\ UNCHANGED <<unfed, pc, opts, res, skipStart>>
      /\ UNCHANGED collectorVars /\ UNCHANGED cancelled /\ UNCHANGED cloudVars
  BY DEF RetrySend
<1>2. o \in StartOptions /\ o.suite \in Retried
  BY PoolFacts DEF ClientType, Retried
<1>3. o.suite \notin Tokens(jobOpts)
  BY <1>2, PoolFacts, Places DEF PlacesDisjoint
<1>4. /\ jobOpts' \in Seq(StartOptions)
      /\ Queued' = Queued \cup {o.suite}
      /\ NoTokenTwice(jobOpts')
  <2>1. jobOpts \in Seq(StartOptions) /\ NoTokenTwice(jobOpts)
    BY PoolFacts DEF ClientType
  <2>2. QED
    BY <1>1, <1>2, <1>3, <2>1, SendTokens, Places, PlacesNext
<1>5. Retried' = Retried \ {o.suite}
  BY <1>1, PoolFacts DEF Retried
<1>6. /\ UNCHANGED <<Running, Held>>
      /\ UNCHANGED <<Answered, Reported>>
      /\ CollectorType' /\ Tally' /\ CloudType' /\ cancelled' \in BOOLEAN
  BY <1>1, PoolFacts, CollectorKept, CloudKept DEF Running, Held
<1>7. ClientType'
  BY <1>1, <1>4, PoolFacts DEF ClientType
<1>8. OneTokenPerSuite'
  <2>1. PlacesInjective'
    BY <1>1, <1>4, PoolFacts, PlacesNext DEF collectorVars
  <2>2. PlacesDisjoint'
    BY <1>1, <1>2, <1>4, <1>5, <1>6, PoolFacts DEF PlacesDisjoint
  <2>3. Suites = (unfed \cup Queued \cup Retried \cup Running \cup Held \cup Answered \cup Reported)'
    BY <1>1, <1>2, <1>4, <1>5, <1>6, PoolFacts DEF OneTokenPerSuite
  <2>4. QED
    BY <2>1, <2>2, <2>3 DEF OneTokenPerSuite
<1>9. WorkerState'
  <2>1. UNCHANGED cloud
    BY <1>1 DEF cloudVars
  <2>2. QED
    BY <1>1, <2>1, PoolFacts, WorkerStateKept DEF WorkerHolds, WorkerState
<1>10. QED
  BY <1>6, <1>7, <1>8, <1>9, TypeParts DEF PoolInv

\* A worker takes the first options of the channel.
LEMMA TakeFirst ==
  ASSUME PoolInv, jobOpts # <<>>, jobOpts' = Tail(jobOpts)
  PROVE  /\ jobOpts' \in Seq(StartOptions)
         /\ Head(jobOpts) \in StartOptions
         /\ Head(jobOpts).suite \in Queued
         /\ Queued' = Queued \ {Head(jobOpts).suite}
         /\ NoTokenTwice(jobOpts')
<1>1. jobOpts \in Seq(StartOptions) /\ NoTokenTwice(jobOpts)
  BY PoolFacts DEF ClientType
<1>2. /\ Tail(jobOpts) \in Seq(StartOptions)
      /\ Head(jobOpts) \in StartOptions
      /\ Head(jobOpts).suite \in Tokens(jobOpts)
      /\ Tokens(jobOpts) = Tokens(Tail(jobOpts)) \cup {Head(jobOpts).suite}
      /\ NoTokenTwice(Tail(jobOpts)) /\ Head(jobOpts).suite \notin Tokens(Tail(jobOpts))
  BY <1>1, ReceiveTokens
<1>3. QED
  BY <1>2, Places, PlacesNext

LEMMA SkipSuiteStep ==
  ASSUME PoolInv, NEW w \in Workers, SkipSuite(w)
  PROVE  PoolInv'
<1> PICK r : r = [suite |-> Head(jobOpts).suite, job |-> NoJob, skipped |-> TRUE,
                  attempts |-> Head(jobOpts).attempt]
  OBVIOUS
<1> DEFINE s == Head(jobOpts).suite
<1>1. /\ pc[w] = "idle" /\ jobOpts # <<>>
      /\ jobOpts' = Tail(jobOpts)
      /\ res' = [res EXCEPT ![w] = r]
      /\ pc' = [pc EXCEPT ![w] = "sending"]
      /\ UNCHANGED <<unfed, retrying, opts, skipStart>>
      /\ UNCHANGED collectorVars /\ UNCHANGED cancelled /\ UNCHANGED cloudVars
  BY DEF SkipSuite
<1>2. /\ jobOpts' \in Seq(StartOptions)
      /\ Head(jobOpts) \in StartOptions
      /\ s \in Queued
      /\ Queued' = Queued \ {s}
      /\ NoTokenTwice(jobOpts')
  BY <1>1, TakeFirst
<1>3. r \in Results /\ r.suite = s /\ r # None
  <2>1. s \in Suites /\ Head(jobOpts).attempt \in 0..(Retries + 1)
    BY <1>2, PoolAssumption DEF StartOptions, Attempts
  <2>2. r \in Results
    BY <2>1, FixedJobs DEF Results
  <2>3. QED
    BY <2>2, NoneAssumption
<1>4. res[w] = None /\ res \in [Workers -> Results \cup {None}]
  BY <1>1, PoolFacts DEF WorkerState, ClientType
<1>5. /\ res' \in [Workers -> Results \cup {None}]
      /\ Held' = Held \cup {s}
      /\ NoHolderTwice(res')
  <2>1. r.suite \notin HeldTokens(res)
    BY <1>2, <1>3, PoolFacts, Places DEF PlacesDisjoint
  <2>2. res = [v \in Workers |-> res[v]] /\ NoHolderTwice(res)
    BY <1>4, PoolFacts
  <2>3. HeldTokens(res') = HeldTokens(res) \cup {r.suite} /\ NoHolderTwice(res')
    BY <1>1, <1>3, <1>4, <2>1, <2>2, GrabToken
  <2>4. QED
    BY <1>1, <1>3, <1>4, <2>3, Places, PlacesNext
<1>6. /\ UNCHANGED <<Retried, Running>>
      /\ UNCHANGED <<Answered, Reported>>
      /\ CollectorType' /\ Tally' /\ CloudType' /\ cancelled' \in BOOLEAN
  BY <1>1, PoolFacts, CollectorKept, CloudKept DEF Retried, Running
<1>7. ClientType'
  BY <1>1, <1>2, <1>5, PoolFacts DEF ClientType, PCs
<1>8. OneTokenPerSuite'
  <2>1. PlacesInjective'
    BY <1>1, <1>2, <1>5, PoolFacts, PlacesNext DEF collectorVars
  <2>2. PlacesDisjoint'
    BY <1>1, <1>2, <1>5, <1>6, PoolFacts DEF PlacesDisjoint
  <2>3. Suites = (unfed \cup Queued \cup Retried \cup Running \cup Held \cup Answered \cup Reported)'
    BY <1>1, <1>2, <1>5, <1>6, PoolFacts DEF OneTokenPerSuite
  <2>4. QED
    BY <2>1, <2>2, <2>3 DEF OneTokenPerSuite
<1>9. WorkerState'
  <2>1. UNCHANGED cloud
    BY <1>1 DEF cloudVars
  <2>2. WorkerHolds'
    BY <1>1, <1>3, <1>4, PoolFacts DEF WorkerHolds, WorkerState, ClientType
  <2>3. \A v \in Workers : pc'[v] = "polling" => pc[v] = "polling" /\ opts'[v] = opts[v]
    BY <1>1, PoolFacts DEF ClientType
  <2>4. QED
    BY <2>1, <2>2, <2>3, PoolFacts, WorkerStateKept
<1>10. QED
  BY <1>6, <1>7, <1>8, <1>9, TypeParts DEF PoolInv

LEMMA BeginSuiteStep ==
  ASSUME PoolInv, NEW w \in Workers, BeginSuite(w)
  PROVE  PoolInv'
<1> DEFINE o == Head(jobOpts)
<1>1. /\ pc[w] = "idle" /\ jobOpts # <<>>
      /\ jobOpts' = Tail(jobOpts)
      /\ opts' = [opts EXCEPT ![w] = o]
      /\ pc' = [pc EXCEPT ![w] = "starting"]
      /\ UNCHANGED <<unfed, retrying, res, skipStart>>
      /\ UNCHANGED collectorVars /\ UNCHANGED cancelled /\ UNCHANGED cloudVars
  BY DEF BeginSuite
<1>2. /\ jobOpts' \in Seq(StartOptions)
      /\ o \in StartOptions
      /\ o.suite \in Queued
      /\ Queued' = Queued \ {o.suite}
      /\ NoTokenTwice(jobOpts')
  BY <1>1, TakeFirst
<1>3. o # None
  BY <1>2, NoneAssumption
<1> HIDE DEF o
<1>4. opts[w] = None /\ opts \in [Workers -> StartOptions \cup {None}]
  BY <1>1, PoolFacts DEF WorkerState, ClientType
<1>5. /\ opts' \in [Workers -> StartOptions \cup {None}]
      /\ Running' = Running \cup {o.suite}
      /\ NoHolderTwice(opts')
  <2>1. o.suite \notin HeldTokens(opts)
    BY <1>2, PoolFacts, Places DEF PlacesDisjoint
  <2>2. opts = [v \in Workers |-> opts[v]] /\ NoHolderTwice(opts)
    BY <1>4, PoolFacts
  <2>3. HeldTokens(opts') = HeldTokens(opts) \cup {o.suite} /\ NoHolderTwice(opts')
    BY <1>1, <1>3, <1>4, <2>1, <2>2, GrabToken
  <2>4. QED
    BY <1>1, <1>2, <1>4, <2>3, Places, PlacesNext
<1>6. /\ UNCHANGED <<Retried, Held>>
      /\ UNCHANGED <<Answered, Reported>>
      /\ CollectorType' /\ Tally' /\ CloudType' /\ cancelled' \in BOOLEAN
  BY <1>1, PoolFacts, CollectorKept, CloudKept DEF Retried, Held
<1>7. ClientType'
  BY <1>1, <1>2, <1>5, PoolFacts DEF ClientType, PCs
<1>8. OneTokenPerSuite'
  <2>1. PlacesInjective'
    BY <1>1, <1>2, <1>5, PoolFacts, PlacesNext DEF collectorVars
  <2>2. PlacesDisjoint'
    BY <1>1, <1>2, <1>5, <1>6, PoolFacts DEF PlacesDisjoint
  <2>3. Suites = (unfed \cup Queued \cup Retried \cup Running \cup Held \cup Answered \cup Reported)'
    BY <1>1, <1>2, <1>5, <1>6, PoolFacts DEF OneTokenPerSuite
  <2>4. QED
    BY <2>1, <2>2, <2>3 DEF OneTokenPerSuite
<1>9. WorkerState'
  <2>1. UNCHANGED cloud
    BY <1>1 DEF cloudVars
  <2>2. WorkerHolds'
    BY <1>1, <1>3, <1>4, PoolFacts DEF WorkerHolds, WorkerState, ClientType
  <2>3. \A v \in Workers : pc'[v] = "polling" => pc[v] = "polling" /\ opts'[v] = opts[v]
    BY <1>1, PoolFacts DEF ClientType
  <2>4. QED
    BY <2>1, <2>2, <2>3, PoolFacts, WorkerStateKept
<1>10. QED
  BY <1>6, <1>7, <1>8, <1>9, TypeParts DEF PoolInv

\* What a worker that has options knows of its job.
LEMMA CurrentJobFacts ==
  ASSUME PoolInv, NEW w \in Workers, opts[w] # None
  PROVE  /\ opts[w] \in StartOptions
         /\ opts[w].suite \in Suites /\ opts[w].attempt \in Attempts
         /\ CurrentJob(w) \in JobIDs
         /\ CloudState(CurrentJob(w)) = cloud[opts[w].suite][opts[w].attempt]
<1>1. opts[w] \in StartOptions
  BY PoolFacts DEF ClientType
<1>2. QED
  BY <1>1 DEF StartOptions, CurrentJob, CloudState, JobIDs

\* Setting the state of one job leaves the others alone, and no job that was
\* started is unstarted.
LEMMA SetCloudFacts ==
  ASSUME CloudType, NEW s \in Suites, NEW a \in Attempts,
         NEW state \in CloudStates \ {"none"}, SetCloud(<<s, a>>, state)
  PROVE  /\ cloud' \in [Suites -> [Attempts -> CloudStates]]
         /\ cloud'[s][a] = state
         /\ \A t \in Suites, b \in Attempts :
              /\ t # s \/ b # a => cloud'[t][b] = cloud[t][b]
              /\ cloud[t][b] # "none" => cloud'[t][b] # "none"
<1>1. cloud' = [cloud EXCEPT ![s][a] = state]
  BY DEF SetCloud
<1>2. cloud \in [Suites -> [Attempts -> CloudStates]]
  BY DEF CloudType
<1>3. QED
  BY <1>1, <1>2

\* However runJob returns, the pool's invariant survives as long as no job of
\* the cloud is unstarted.
LEMMA RunJobReturns ==
  ASSUME PoolInv, NEW w \in Workers, opts[w] # None,
         NEW j \in Jobs, NEW skipped \in BOOLEAN,
         AfterRunJob(w, j, skipped), UNCHANGED collectorVars, UNCHANGED cancelled,
         CloudType',
         \A s \in Suites, a \in Attempts : cloud[s][a] # "none" => cloud'[s][a] # "none"
  PROVE  PoolInv'
<1>1. /\ ClientType' /\ OneTokenPerSuite' /\ WorkerHolds'
      /\ \A v \in Workers : pc'[v] = "polling" =>
           v # w /\ pc[v] = "polling" /\ opts'[v] = opts[v]
  BY AfterRunJobStep
<1>2. CollectorType' /\ Tally' /\ cancelled' \in BOOLEAN
  BY PoolFacts, CollectorKept
<1>3. ASSUME NEW v \in Workers, pc'[v] = "polling"
      PROVE  CloudState(CurrentJob(v))' # "none"
  <2>1. pc[v] = "polling" /\ opts[v] # None /\ CloudState(CurrentJob(v)) # "none"
    BY <1>1, <1>3, PoolFacts DEF WorkerState
  <2>2. /\ opts[v].suite \in Suites /\ opts[v].attempt \in Attempts
        /\ cloud[opts[v].suite][opts[v].attempt] # "none"
    BY <2>1, CurrentJobFacts
  <2>3. CloudState(CurrentJob(v))' = cloud'[opts[v].suite][opts[v].attempt]
    BY <1>1, <1>3 DEF CloudState, CurrentJob
  <2>4. QED
    BY <2>2, <2>3
<1>4. WorkerState'
  BY <1>1, <1>3 DEF WorkerState, WorkerHolds
<1>5. QED
  BY <1>1, <1>2, <1>4, TypeParts DEF PoolInv

\* StartJob returns.
LEMMA StartReturnsStep ==
  ASSUME PoolInv, NEW w \in Workers, StartReturns(w)
  PROVE  PoolInv'
<1>1. pc[w] = "starting" /\ opts[w] # None
  BY PoolFacts DEF StartReturns, StartFails, StartAsync, StartPolled, WorkerState
<1>2. /\ opts[w].suite \in Suites /\ opts[w].attempt \in Attempts
      /\ CurrentJob(w) = <<opts[w].suite, opts[w].attempt>> /\ CurrentJob(w) \in JobIDs
  BY <1>1, CurrentJobFacts DEF CurrentJob
<1>3. "running" \in CloudStates \ {"none"}
  BY DEF CloudStates
<1>4. ASSUME SetCloud(CurrentJob(w), "running")
      PROVE  /\ cloud' \in [Suites -> [Attempts -> CloudStates]]
             /\ cloud'[opts[w].suite][opts[w].attempt] = "running"
             /\ \A s \in Suites, a \in Attempts :
                  cloud[s][a] # "none" => cloud'[s][a] # "none"
  BY <1>2, <1>3, <1>4, SetCloudFacts, PoolFacts
<1>5. CASE StartFails(w)
  <2>1. AfterRunJob(w, ErrorJob, FALSE) /\ UNCHANGED collectorVars /\ UNCHANGED cancelled
    BY <1>5 DEF StartFails
  <2>2. /\ CloudType'
        /\ \A s \in Suites, a \in Attempts : cloud[s][a] # "none" => cloud'[s][a] # "none"
    <3>1. CASE UNCHANGED cloudVars
      BY <3>1, PoolFacts, CloudKept DEF cloudVars
    <3>2. CASE /\ SetCloud(CurrentJob(w), "running")
               /\ orphaned' = orphaned \cup {CurrentJob(w)}
               /\ UNCHANGED <<stopped, abandoned>>
      BY <1>2, <1>4, <3>2, PoolFacts DEF CloudType
    <3>3. QED
      BY <1>5, <3>1, <3>2 DEF StartFails
  <2>3. FALSE \in BOOLEAN
    OBVIOUS
  <2>4. QED
    BY <1>1, <2>1, <2>2, <2>3, FixedJobs, RunJobReturns
<1>6. CASE StartAsync(w)
  <2>1. /\ SetCloud(CurrentJob(w), "running")
        /\ AfterRunJob(w, StartedJob(opts[w].suite), FALSE)
        /\ UNCHANGED collectorVars /\ UNCHANGED cancelled
        /\ UNCHANGED <<stopped, abandoned, orphaned>>
    BY <1>6 DEF StartAsync
  <2>2. CloudType'
    BY <1>4, <2>1, PoolFacts DEF CloudType
  <2>3. StartedJob(opts[w].suite) \in Jobs
    BY <1>2, PoolAssumption DEF StartedJob, Jobs, NoJob, States, StateQueued, StateInProgress
  <2>4. FALSE \in BOOLEAN
    OBVIOUS
  <2>5. QED
    BY <1>1, <1>4, <2>1, <2>2, <2>3, <2>4, RunJobReturns
<1>7. CASE StartPolled(w)
  <2>1. /\ SetCloud(CurrentJob(w), "running")
        /\ pc' = [pc EXCEPT ![w] = "polling"]
        /\ UNCHANGED <<unfed, jobOpts, retrying, opts, res, skipStart>>
        /\ UNCHANGED collectorVars /\ UNCHANGED cancelled
        /\ UNCHANGED <<stopped, abandoned, orphaned>>
    BY <1>7 DEF StartPolled
  <2>2. CloudType' /\ CollectorType' /\ Tally' /\ cancelled' \in BOOLEAN
    BY <1>4, <2>1, PoolFacts, CollectorKept DEF CloudType
  <2>3. ClientType'
    BY <2>1, PoolFacts DEF ClientType, PCs
  <2>4. OneTokenPerSuite'
    BY <2>1, PoolFacts, TokensKept DEF collectorVars
  <2>5. \A v \in Workers :
          /\ pc'[v] \in {"starting", "polling"} <=> opts'[v] # None
          /\ pc'[v] = "sending" <=> res'[v] # None
    BY <1>1, <2>1, PoolFacts DEF WorkerState, ClientType
  <2>6. ASSUME NEW v \in Workers, pc'[v] = "polling"
        PROVE  CloudState(CurrentJob(v))' # "none"
    <3>1. CloudState(CurrentJob(v))' = cloud'[opts[v].suite][opts[v].attempt]
      BY <2>1 DEF CloudState, CurrentJob
    <3>2. CASE v = w
      BY <1>4, <2>1, <3>1, <3>2
    <3>3. CASE v # w
      <4>1. pc[v] = "polling"
        BY <2>1, <2>6, <3>3, PoolFacts DEF ClientType
      <4>2. opts[v] # None /\ CloudState(CurrentJob(v)) # "none"
        BY <4>1, PoolFacts DEF WorkerState
      <4>3. QED
        BY <1>4, <2>1, <3>1, <4>2, CurrentJobFacts
    <3>4. QED
      BY <3>2, <3>3
  <2>7. WorkerState'
    BY <2>5, <2>6 DEF WorkerState
  <2>8. QED
    BY <2>2, <2>3, <2>4, <2>7, TypeParts DEF PoolInv
<1>8. QED
  BY <1>5, <1>6, <1>7 DEF StartReturns

\* PollJob returns, or fails, or is interrupted.
LEMMA PollReturnsStep ==
  ASSUME PoolInv, NEW w \in Workers, PollReturns(w)
  PROVE  PoolInv'
<1>1. pc[w] = "polling" /\ opts[w] # None /\ CloudState(CurrentJob(w)) # "none"
  BY PoolFacts DEF PollReturns, PollDone, PollTimeout, PollFails, StopJob, PollInterrupted, WorkerState
<1>2. CurrentJob(w) \in JobIDs
  BY <1>1, CurrentJobFacts
<1>3. PolledJob(w) \in Jobs
  <2>1. TypeOK
    BY DEF PoolInv
  <2>2. QED
    BY <1>1, <2>1, PolledJobType
<1>4. /\ [PolledJob(w) EXCEPT !.passed = FALSE, !.timedOut = TRUE] \in Jobs
      /\ [PolledJob(w) EXCEPT !.timedOut = TRUE] \in Jobs
  BY <1>3 DEF Jobs
<1>5. \E j \in Jobs, skipped \in BOOLEAN : AfterRunJob(w, j, skipped)
  <2>1. CASE PollDone(w)
    BY <1>3, <2>1 DEF PollDone
  <2>2. CASE PollTimeout(w)
    BY <1>4, <2>2 DEF PollTimeout, StopJob
  <2>3. CASE PollFails(w)
    BY <2>3, FixedJobs DEF PollFails
  <2>4. CASE PollInterrupted(w)
    BY <1>3, <1>4, <2>4, FixedJobs DEF PollInterrupted, StopJob
  <2>5. QED
    BY <2>1, <2>2, <2>3, <2>4 DEF PollReturns
<1>6. /\ UNCHANGED collectorVars /\ UNCHANGED cancelled /\ UNCHANGED cloud
      /\ CloudType'
  BY <1>2, PoolFacts DEF PollReturns, PollDone, PollTimeout, PollFails, StopJob, PollInterrupted,
                         CloudType, cloudVars
<1>7. QED
  BY <1>1, <1>5, <1>6, RunJobReturns

\* A worker sends its result to the collector.
LEMMA SendResultStep ==
  ASSUME PoolInv, NEW w \in Workers, SendResult(w)
  PROVE  PoolInv'
<1>1. /\ pc[w] = "sending"
      /\ results' = Append(results, res[w])
      /\ res' = [res EXCEPT ![w] = None]
      /\ pc' = [pc EXCEPT ![w] = "idle"]
      /\ UNCHANGED <<unfed, jobOpts, retrying, opts, skipStart, completed, passed, ledger, returned>>
      /\ UNCHANGED cancelled /\ UNCHANGED cloudVars
  BY DEF SendResult
<1>2. /\ res[w] # None
      /\ res \in [Workers -> Results \cup {None}] /\ NoHolderTwice(res)
      /\ results \in Seq(Results) /\ NoTokenTwice(results)
  BY <1>1, PoolFacts DEF WorkerState, ClientType, CollectorType
<1>3. /\ res' \in [Workers -> Results \cup {None}]
      /\ res[w] \in Results
      /\ res[w].suite \in Held
      /\ Held' = Held \ {res[w].suite}
      /\ NoHolderTwice(res')
  <2>1. /\ res' \in [Workers -> Results \cup {None}]
        /\ res[w] \in Results
        /\ res[w].suite \in HeldTokens(res)
        /\ HeldTokens(res') = HeldTokens(res) \ {res[w].suite}
        /\ NoHolderTwice(res')
    BY <1>1, <1>2, DropToken
  <2>2. QED
    BY <2>1, Places, PlacesNext
<1>4. /\ results' \in Seq(Results)
      /\ Answered' = Answered \cup {res[w].suite}
      /\ NoTokenTwice(results')
  <2>1. res[w].suite \notin Tokens(results)
    BY <1>3, PoolFacts, Places DEF PlacesDisjoint
  <2>2. QED
    BY <1>1, <1>2, <1>3, <2>1, SendTokens, Places, PlacesNext
<1>5. UNCHANGED <<Queued, Retried, Running, Reported>>
  BY <1>1 DEF Queued, Retried, Running, Reported
<1>6. ClientType' /\ CollectorType' /\ CloudType' /\ cancelled' \in BOOLEAN
  BY <1>1, <1>3, <1>4, PoolFacts, CloudKept DEF ClientType, CollectorType, PCs
<1>7. Tally'
  BY <1>1, PoolFacts DEF Tally, Reported
<1>8. OneTokenPerSuite'
  <2>1. PlacesInjective'
    BY <1>1, <1>3, <1>4, PoolFacts, PlacesNext
  <2>2. PlacesDisjoint'
    BY <1>1, <1>3, <1>4, <1>5, PoolFacts DEF PlacesDisjoint
  <2>3. Suites = (unfed \cup Queued \cup Retried \cup Running \cup Held \cup Answered \cup Reported)'
    BY <1>1, <1>3, <1>4, <1>5, PoolFacts DEF OneTokenPerSuite
  <2>4. QED
    BY <2>1, <2>2, <2>3 DEF OneTokenPerSuite
<1>9. WorkerState'
  <2>1. UNCHANGED cloud
    BY <1>1 DEF cloudVars
  <2>2. WorkerHolds'
    BY <1>1, <1>2, PoolFacts DEF WorkerHolds, WorkerState, ClientType
  <2>3. \A v \in Workers : pc'[v] = "polling" => pc[v] = "polling" /\ opts'[v] = opts[v]
    BY <1>1, PoolFacts DEF ClientType
  <2>4. QED
    BY <2>1, <2>2, <2>3, PoolFacts, WorkerStateKept
<1>10. QED
  BY <1>6, <1>7, <1>8, <1>9, TypeParts DEF PoolInv

\* What the reporters learn of a result is never that the suite is still open,
\* and "failed" only if the result also fails the verdict.
LEMMA EntryFacts ==
  ASSUME NEW r \in Results
  PROVE  /\ Entry(r) \in Entries
         /\ Entry(r).status # "open"
         /\ Entry(r).status = StateFailed => Done(r.job.status) /\ ~r.job.passed
<1>1. r.job \in Jobs /\ r.skipped \in BOOLEAN /\ r.attempts \in 0..(Retries + 1)
  BY DEF Results
<1>2. TotalStatus(r.job) \in States
  BY <1>1, TotalStatusType
<1>3. TotalStatus(r.job) = StateFailed => Done(r.job.status) /\ ~r.job.passed
  BY <1>1 DEF TotalStatus, Jobs, States, Done, DoneStates, StateFailed, StatePassed,
              StateComplete, StateError
<1>4. Entry(r) \in Entries
  BY <1>1, <1>2 DEF Entry, Entries
<1>5. Entry(r).status # "open"
  BY <1>1, <1>2 DEF Entry, States, StateNew, StateQueued, StateInProgress, StateComplete,
                    StateError, StateUnknown, StatePassed, StateFailed, NoState
<1>6. QED
  BY <1>1, <1>3, <1>4, <1>5 DEF Entry, StateFailed

\* The collector receives a result.
LEMMA CollectStep ==
  ASSUME PoolInv, Collect
  PROVE  PoolInv'
<1> DEFINE r == Head(results)
<1>1. /\ completed < Expected /\ results # <<>>
      /\ ~returned
      /\ passed' = (passed /\ ~(Done(r.job.status) /\ ~r.job.passed))
      /\ ledger' = [ledger EXCEPT ![r.suite] = Entry(r)]
      /\ results' = Tail(results)
      /\ completed' = completed + 1
      /\ UNCHANGED clientVars /\ UNCHANGED returned /\ UNCHANGED cancelled /\ UNCHANGED cloudVars
  BY DEF Collect
<1>2. UNCHANGED <<unfed, jobOpts, retrying, pc, opts, res, skipStart>>
  BY <1>1 DEF clientVars
<1>3. /\ results' \in Seq(Results)
      /\ r \in Results
      /\ r.suite \in Answered
      /\ Answered' = Answered \ {r.suite}
      /\ NoTokenTwice(results')
  <2>1. results \in Seq(Results) /\ NoTokenTwice(results)
    BY PoolFacts DEF CollectorType
  <2>2. /\ Tail(results) \in Seq(Results)
        /\ r \in Results
        /\ r.suite \in Tokens(results)
        /\ Tokens(results) = Tokens(Tail(results)) \cup {r.suite}
        /\ NoTokenTwice(Tail(results)) /\ r.suite \notin Tokens(Tail(results))
    BY <1>1, <2>1, ReceiveTokens
  <2>3. QED
    BY <1>1, <2>2, Places, PlacesNext
<1> HIDE DEF r
<1>4. r.suite \in Suites
  BY <1>3 DEF Results
<1>5. /\ Entry(r) \in Entries
      /\ Entry(r).status # "open"
      /\ Entry(r).status = StateFailed => Done(r.job.status) /\ ~r.job.passed
  BY <1>3, EntryFacts
<1>6. ledger \in [Suites -> Entries] /\ ledger' \in [Suites -> Entries]
  BY <1>1, <1>4, <1>5, PoolFacts DEF CollectorType
<1>7. Reported' = Reported \cup {r.suite} /\ r.suite \notin Reported
  <2>1. Reported' = Reported \cup {r.suite}
    BY <1>1, <1>4, <1>5, <1>6 DEF Reported
  <2>2. r.suite \notin Reported
    BY <1>3, PoolFacts DEF PlacesDisjoint
  <2>3. QED
    BY <2>1, <2>2
<1>8. UNCHANGED <<Queued, Retried, Running, Held>>
  BY <1>2 DEF Queued, Retried, Running, Held
<1>9. ClientType' /\ CollectorType' /\ CloudType' /\ cancelled' \in BOOLEAN
  BY <1>1, <1>2, <1>3, <1>6, PoolFacts, CloudKept DEF ClientType, CollectorType
<1>10. Tally'
  <2>1. completed' = Cardinality(Reported')
    <3>1. IsFiniteSet(Reported)
      BY PoolAssumption, FS_Subset DEF Reported
    <3>2. Cardinality(Reported \cup {r.suite}) = Cardinality(Reported) + 1
      BY <1>7, <3>1, FS_AddElement
    <3>3. QED
      BY <1>1, <1>7, <3>2, PoolFacts DEF Tally
  <2>2. completed' <= Expected /\ (returned' => completed' = Expected)
    BY <1>1, PoolFacts, PoolAssumption DEF CollectorType
  <2>3. ASSUME passed', NEW s \in Suites
        PROVE  ledger'[s].status # StateFailed
    <3>1. passed /\ ledger[s].status # StateFailed
      BY <1>1, <2>3, PoolFacts DEF Tally
    <3>2. QED
      BY <1>1, <1>4, <1>5, <1>6, <2>3, <3>1
  <2>4. QED
    BY <2>1, <2>2, <2>3 DEF Tally
<1>11. OneTokenPerSuite'
  <2>1. PlacesInjective'
    BY <1>2, <1>3, PoolFacts, PlacesNext
  <2>2. PlacesDisjoint'
    BY <1>2, <1>3, <1>7, <1>8, PoolFacts DEF PlacesDisjoint
  <2>3. Suites = (unfed \cup Queued \cup Retried \cup Running \cup Held \cup Answered \cup Reported)'
    BY <1>2, <1>3, <1>7, <1>8, PoolFacts DEF OneTokenPerSuite
  <2>4. QED
    BY <2>1, <2>2, <2>3 DEF OneTokenPerSuite
<1>12. WorkerState'
  BY <1>1, <1>2, PoolFacts DEF WorkerState, CloudState, CurrentJob, cloudVars
<1>13. QED
  BY <1>9, <1>10, <1>11, <1>12, TypeParts DEF PoolInv

\* The collector returns; an interrupt arrives.
LEMMA ReturnInterruptStep ==
  ASSUME PoolInv, Return \/ Interrupt
  PROVE  PoolInv'
<1>1. /\ UNCHANGED clientVars /\ UNCHANGED <<results, completed, passed, ledger>>
      /\ UNCHANGED cloudVars
      /\ returned' \in BOOLEAN /\ cancelled' \in BOOLEAN
      /\ returned' => completed = Expected
  <2>1. /\ returned \in BOOLEAN /\ cancelled \in BOOLEAN
        /\ returned => completed = Expected
    BY PoolFacts DEF CollectorType, Tally
  <2>2. CASE Return
    BY <2>1, <2>2 DEF Return
  <2>3. CASE Interrupt
    BY <2>1, <2>3 DEF Interrupt, collectorVars
  <2>4. QED
    BY <2>2, <2>3
<1>2. UNCHANGED <<unfed, jobOpts, retrying, pc, opts, res, skipStart>>
  BY <1>1 DEF clientVars
<1>3. ClientType' /\ CollectorType' /\ CloudType'
  BY <1>1, <1>2, PoolFacts, CloudKept DEF ClientType, CollectorType
<1>4. OneTokenPerSuite'
  BY <1>1, <1>2, PoolFacts, TokensKept
<1>5. WorkerState'
  BY <1>1, <1>2, PoolFacts DEF WorkerState, CloudState, CurrentJob, cloudVars
<1>6. Tally'
  BY <1>1, PoolFacts DEF Tally, Reported
<1>7. QED
  BY <1>1, <1>3, <1>4, <1>5, <1>6, TypeParts DEF PoolInv

\* The cloud ends a polled job.
LEMMA JobEndsStep ==
  ASSUME PoolInv, NEW w \in Workers, JobEnds(w)
  PROVE  PoolInv'
<1>1. /\ UNCHANGED clientVars /\ UNCHANGED collectorVars /\ UNCHANGED cancelled
      /\ UNCHANGED <<stopped, abandoned, orphaned>>
  BY DEF JobEnds
<1>2. pc[w] = "polling" /\ opts[w] # None
  BY PoolFacts DEF JobEnds, WorkerState
<1>3. /\ opts[w].suite \in Suites /\ opts[w].attempt \in Attempts
      /\ CurrentJob(w) = <<opts[w].suite, opts[w].attempt>>
  BY <1>2, CurrentJobFacts DEF CurrentJob
<1>4. PICK outcome \in Outcomes(RealDevice[opts[w].suite]) : SetCloud(CurrentJob(w), outcome)
  BY DEF JobEnds
<1>5. outcome \in CloudStates \ {"none"}
  BY <1>4 DEF Outcomes, CloudStates, StatePassed, StateFailed, StateComplete, StateError
<1>6. /\ cloud' \in [Suites -> [Attempts -> CloudStates]]
      /\ \A t \in Suites, b \in Attempts : cloud[t][b] # "none" => cloud'[t][b] # "none"
  BY <1>3, <1>4, <1>5, PoolFacts, SetCloudFacts
<1>7. UNCHANGED <<unfed, jobOpts, retrying, pc, opts, res, skipStart>>
  BY <1>1 DEF clientVars
<1>8. /\ ClientType' /\ CollectorType' /\ Tally' /\ CloudType' /\ cancelled' \in BOOLEAN
  BY <1>1, <1>6, <1>7, PoolFacts, CollectorKept DEF ClientType, CloudType
<1>9. OneTokenPerSuite'
  BY <1>1, <1>7, PoolFacts, TokensKept DEF collectorVars
<1>10. WorkerState'
  <2>1. ASSUME NEW v \in Workers, pc'[v] = "polling"
        PROVE  CloudState(CurrentJob(v))' # "none"
    <3>1. pc[v] = "polling" /\ opts[v] # None /\ CloudState(CurrentJob(v)) # "none"
      BY <1>7, <2>1, PoolFacts DEF WorkerState
    <3>2. CloudState(CurrentJob(v))' = cloud'[opts[v].suite][opts[v].attempt]
      BY <1>7 DEF CloudState, CurrentJob
    <3>3. QED
      BY <1>6, <3>1, <3>2, CurrentJobFacts
  <2>2. QED
    BY <1>7, <2>1, PoolFacts DEF WorkerState
<1>11. QED
  BY <1>8, <1>9, <1>10, TypeParts DEF PoolInv

-----------------------------------------------------------------------------
(* The pool's invariant and what follows from it                           *)

LEMMA InitInv ==
  ASSUME Init
  PROVE  PoolInv
<1>1. ClientType /\ CollectorType /\ cancelled \in BOOLEAN /\ CloudType
  <2>1. ClientType
    BY DEF Init, ClientType, PCs
  <2>2. [status |-> "open", attempts |-> 0] \in Entries
    BY PoolAssumption DEF Entries
  <2>3. CollectorType /\ cancelled \in BOOLEAN
    <3>1. results \in Seq(Results) /\ completed \in Nat
      BY DEF Init
    <3>2. ledger \in [Suites -> Entries]
      BY <2>2 DEF Init
    <3>3. passed \in BOOLEAN /\ returned \in BOOLEAN /\ cancelled \in BOOLEAN
      BY DEF Init
    <3>4. QED
      BY <3>1, <3>2, <3>3 DEF CollectorType
  <2>4. CloudType
    BY DEF Init, CloudType, CloudStates
  <2>5. QED
    BY <2>1, <2>3, <2>4
<1>2. /\ Queued = {} /\ Retried = {} /\ Running = {} /\ Held = {} /\ Answered = {}
      /\ Reported = {}
  BY DEF Init, Queued, Retried, Running, Held, Answered, Reported
<1>3. OneTokenPerSuite
  BY <1>2 DEF Init, OneTokenPerSuite, PlacesDisjoint, PlacesInjective
<1>4. WorkerState
  BY DEF Init, WorkerState
<1>5. Tally
  <2>1. Cardinality({}) = 0
    BY FS_EmptySet
  <2>2. \A s \in Suites : ledger[s].status # StateFailed
    BY DEF Init, StateFailed
  <2>3. QED
    BY <1>2, <2>1, <2>2, PoolAssumption DEF Init, Tally
<1>6. QED
  BY <1>1, <1>3, <1>4, <1>5, TypeParts DEF PoolInv

LEMMA NextInv ==
  ASSUME PoolInv, [Next]_vars
  PROVE  PoolInv'
<1>1. CASE \E s \in Suites : Feed(s)
  BY <1>1, FeedStep
<1>2. ASSUME NEW w \in Workers, Worker(w)
      PROVE  PoolInv'
  BY <1>2, SkipSuiteStep, BeginSuiteStep, StartReturnsStep, PollReturnsStep, SendResultStep
     DEF Worker
<1>3. CASE \E o \in retrying : RetrySend(o)
  BY <1>3, RetrySendStep
<1>4. CASE Collect
  BY <1>4, CollectStep
<1>5. CASE Return \/ Interrupt
  BY <1>5, ReturnInterruptStep
<1>6. CASE \E w \in Workers : JobEnds(w)
  BY <1>6, JobEndsStep
<1>7. CASE UNCHANGED vars
  <2>1. /\ UNCHANGED <<unfed, jobOpts, retrying, pc, opts, res, skipStart>>
        /\ UNCHANGED collectorVars /\ UNCHANGED <<results, ledger>>
        /\ UNCHANGED cancelled /\ UNCHANGED cloudVars /\ UNCHANGED cloud
    BY <1>7 DEF vars, clientVars, collectorVars, cloudVars
  <2>2. ClientType' /\ CollectorType' /\ Tally' /\ CloudType' /\ cancelled' \in BOOLEAN
    BY <2>1, PoolFacts, CollectorKept, CloudKept DEF ClientType
  <2>3. OneTokenPerSuite'
    BY <2>1, PoolFacts, TokensKept
  <2>4. WorkerState'
    BY <2>1, PoolFacts DEF WorkerState, CloudState, CurrentJob
  <2>5. QED
    BY <2>2, <2>3, <2>4, TypeParts DEF PoolInv
<1>8. CASE Finished
  BY <1>7, <1>8 DEF Finished
<1>9. QED
  BY <1>1, <1>2, <1>3, <1>4, <1>5, <1>6, <1>7, <1>8 DEF Next

\* The pool's invariant holds throughout every run.
THEOREM PoolInvariant == Spec => []PoolInv
<1>1. Init => PoolInv
  BY InitInv
<1>2. PoolInv /\ [Next]_vars => PoolInv'
  BY NextInv
<1>3. QED
  BY <1>1, <1>2, PTL DEF Spec

\* The goroutines pass each other values of the right kind; in particular no
\* attempt beyond sauce.retries is ever asked for.
THEOREM TypeCorrect == Spec => []TypeOK
<1>1. PoolInv => TypeOK
  BY DEF PoolInv
<1>2. QED
  BY <1>1, PoolInvariant, PTL

\* Whatever the workers, the retry goroutines and an interrupt do, each
\* StartOptions the runner submits is in exactly one place and is answered once.
THEOREM ExactlyOnce == Spec => []OneTokenPerSuite
<1>1. PoolInv => OneTokenPerSuite
  BY DEF PoolInv
<1>2. QED
  BY <1>1, PoolInvariant, PTL

\* Once the collector has all the results, every suite was reported.
LEMMA AllReported ==
  ASSUME PoolInv, completed = Expected, Expected = Cardinality(Suites)
  PROVE  Reported = Suites
<1>1. Reported \subseteq Suites /\ IsFiniteSet(Suites) /\ Cardinality(Reported) = Cardinality(Suites)
  BY PoolFacts, PoolAssumption DEF Tally, Reported
<1>2. QED
  BY <1>1, FS_Subset

LEMMA QuietInv ==
  ASSUME PoolInv
  PROVE  QuietAfterReturn
<1>1. SUFFICES ASSUME returned, Expected = Cardinality(Suites)
               PROVE  /\ unfed = {} /\ retrying = {}
                      /\ jobOpts = <<>> /\ results = <<>>
                      /\ \A w \in Workers : pc[w] = "idle"
  BY DEF QuietAfterReturn
<1>2. Reported = Suites
  BY <1>1, AllReported, PoolFacts DEF Tally
<1>3. /\ unfed \subseteq Suites
      /\ Queued \subseteq Suites /\ Retried \subseteq Suites /\ Running \subseteq Suites
      /\ Held \subseteq Suites /\ Answered \subseteq Suites
  BY PoolFacts DEF OneTokenPerSuite
<1>4. /\ unfed = {} /\ Queued = {} /\ Retried = {} /\ Running = {} /\ Held = {}
      /\ Answered = {}
  BY <1>2, <1>3, PoolFacts DEF PlacesDisjoint
<1>5. retrying = {}
  BY <1>4 DEF Retried
<1>6. jobOpts = <<>> /\ results = <<>>
  <2>1. jobOpts \in Seq(StartOptions) /\ results \in Seq(Results)
    BY PoolFacts DEF ClientType, CollectorType
  <2>2. DOMAIN jobOpts = {} /\ DOMAIN results = {}
    BY <1>4 DEF Queued, Answered
  <2>3. Len(jobOpts) = 0 /\ Len(results) = 0
    BY <2>1, <2>2
  <2>4. QED
    BY <2>1, <2>3
<1>7. ASSUME NEW w \in Workers
      PROVE  pc[w] = "idle"
  <2>1. opts[w] = None /\ res[w] = None
    BY <1>4 DEF Running, Held
  <2>2. pc[w] \in PCs
    BY PoolFacts DEF ClientType
  <2>3. QED
    BY <2>1, <2>2, PoolFacts DEF WorkerState, PCs
<1>8. QED
  BY <1>4, <1>5, <1>6, <1>7

\* When collectResults returns nobody is left to send: closing the results
\* channel is safe, and no retry is lost.
THEOREM CloseIsSafe == Spec => []QuietAfterReturn
  BY QuietInv, PoolInvariant, PTL

-----------------------------------------------------------------------------
(* Jobs that run are watched                                               *)

\* How runJobs leaves a worker after runJob: its token gone, its poll over.
LEMMA AfterRunJobFrame ==
  ASSUME TypeOK, NEW w \in Workers, NEW j, NEW skipped, AfterRunJob(w, j, skipped)
  PROVE  \A v \in Workers :
           v # w => pc'[v] = pc[v] /\ opts'[v] = opts[v]
<1>1. opts' = [opts EXCEPT ![w] = None]
  BY DEF AfterRunJob, Requeue, Settle
<1>2. pc' = [pc EXCEPT ![w] = "idle"] \/ pc' = [pc EXCEPT ![w] = "sending"]
  BY DEF AfterRunJob, Requeue, Settle
<1>3. QED
  BY <1>1, <1>2 DEF TypeOK

\* If the other workers keep polling what they polled, and each job that is live
\* afterwards was live before and not w's, or is w's now, then the live jobs are
\* watched.
LEMMA WatchKept ==
  ASSUME LiveJobsWatched, ~Async, NEW w \in Workers,
         \A v \in Workers : v # w /\ pc[v] = "polling" =>
           pc'[v] = "polling" /\ opts'[v] = opts[v],
         \A s \in Suites, a \in Attempts :
           Live(s, a)' =>
             \/ Live(s, a) /\ ~(pc[w] = "polling" /\ CurrentJob(w) = <<s, a>>)
             \/ pc'[w] = "polling" /\ CurrentJob(w)' = <<s, a>>
  PROVE  LiveJobsWatched'
<1>1. SUFFICES ASSUME NEW s \in Suites, NEW a \in Attempts, Live(s, a)'
               PROVE  \E v \in Workers : pc'[v] = "polling" /\ CurrentJob(v)' = <<s, a>>
  BY DEF LiveJobsWatched
<1>2. CASE pc'[w] = "polling" /\ CurrentJob(w)' = <<s, a>>
  BY <1>2
<1>3. CASE Live(s, a) /\ ~(pc[w] = "polling" /\ CurrentJob(w) = <<s, a>>)
  <2>1. PICK v \in Workers : pc[v] = "polling" /\ CurrentJob(v) = <<s, a>>
    BY <1>3 DEF LiveJobsWatched
  <2>2. v # w
    BY <1>3, <2>1
  <2>3. pc'[v] = "polling" /\ opts'[v] = opts[v]
    BY <2>1, <2>2
  <2>4. CurrentJob(v)' = <<s, a>>
    BY <2>1, <2>3 DEF CurrentJob
  <2>5. QED
    BY <2>3, <2>4
<1>4. QED
  BY <1>1, <1>2, <1>3

\* Steps that touch neither the cloud nor a polling worker.
LEMMA WatchUntouched ==
  ASSUME LiveJobsWatched, UNCHANGED cloudVars,
         \A v \in Workers : pc[v] = "polling" => pc'[v] = "polling" /\ opts'[v] = opts[v]
  PROVE  LiveJobsWatched'
<1>1. SUFFICES ASSUME ~Async, NEW s \in Suites, NEW a \in Attempts, Live(s, a)'
               PROVE  \E v \in Workers : pc'[v] = "polling" /\ CurrentJob(v)' = <<s, a>>
  BY DEF LiveJobsWatched
<1>2. Live(s, a)
  BY <1>1 DEF Live, cloudVars
<1>3. PICK v \in Workers : pc[v] = "polling" /\ CurrentJob(v) = <<s, a>>
  BY <1>1, <1>2 DEF LiveJobsWatched
<1>4. pc'[v] = "polling" /\ CurrentJob(v)' = <<s, a>>
  BY <1>3 DEF CurrentJob
<1>5. QED
  BY <1>4

LEMMA WatchWorkerStep ==
  ASSUME PoolInv, LiveJobsWatched, ~Async, NEW w \in Workers,
         StartReturns(w) \/ PollReturns(w)
  PROVE  LiveJobsWatched'
<1>1. /\ TypeOK /\ opts[w] # None
      /\ CloudType
  BY PoolFacts DEF PoolInv, StartReturns, StartFails, StartAsync, StartPolled, PollReturns,
                   PollDone, PollTimeout, PollFails, StopJob, PollInterrupted, WorkerState
<1>2. /\ opts[w].suite \in Suites /\ opts[w].attempt \in Attempts
      /\ CurrentJob(w) = <<opts[w].suite, opts[w].attempt>>
      /\ CloudState(CurrentJob(w)) = cloud[opts[w].suite][opts[w].attempt]
  BY <1>1, CurrentJobFacts DEF CurrentJob
<1>3. "running" \in CloudStates \ {"none"}
  BY DEF CloudStates
<1>4. ASSUME SetCloud(CurrentJob(w), "running"), NEW s \in Suites, NEW a \in Attempts,
             <<s, a>> # CurrentJob(w)
      PROVE  cloud'[s][a] = cloud[s][a]
  BY <1>1, <1>2, <1>3, <1>4, SetCloudFacts
<1>5. CASE StartFails(w)
  <2>1. pc[w] # "polling"
    BY <1>5 DEF StartFails
  <2>2. \A v \in Workers : v # w => pc'[v] = pc[v] /\ opts'[v] = opts[v]
    BY <1>1, <1>5, AfterRunJobFrame DEF StartFails
  <2>3. ASSUME NEW s \in Suites, NEW a \in Attempts, Live(s, a)'
        PROVE  Live(s, a)
    <3>1. CASE UNCHANGED cloudVars
      BY <2>3, <3>1 DEF Live, cloudVars
    <3>2. CASE /\ SetCloud(CurrentJob(w), "running")
               /\ orphaned' = orphaned \cup {CurrentJob(w)}
               /\ UNCHANGED <<stopped, abandoned>>
      BY <1>4, <2>3, <3>2 DEF Live
    <3>3. QED
      BY <1>5, <3>1, <3>2 DEF StartFails
  <2>4. QED
    BY <2>1, <2>2, <2>3, WatchKept
<1>6. CASE StartPolled(w)
  <2>1. /\ pc[w] # "polling"
        /\ pc' = [pc EXCEPT ![w] = "polling"]
        /\ UNCHANGED opts /\ UNCHANGED <<stopped, abandoned, orphaned>>
        /\ SetCloud(CurrentJob(w), "running")
    BY <1>6 DEF StartPolled
  <2>2. /\ \A v \in Workers : v # w => pc'[v] = pc[v] /\ opts'[v] = opts[v]
        /\ pc'[w] = "polling" /\ CurrentJob(w)' = CurrentJob(w)
    BY <1>1, <2>1 DEF TypeOK, CurrentJob
  <2>3. ASSUME NEW s \in Suites, NEW a \in Attempts, Live(s, a)'
        PROVE  Live(s, a) \/ CurrentJob(w)' = <<s, a>>
    BY <1>4, <2>1, <2>2, <2>3 DEF Live
  <2>4. QED
    BY <2>1, <2>2, <2>3, WatchKept
<1>7. CASE PollReturns(w)
  <2>1. \A v \in Workers : v # w => pc'[v] = pc[v] /\ opts'[v] = opts[v]
    BY <1>1, <1>7, AfterRunJobFrame
       DEF PollReturns, PollDone, PollTimeout, PollFails, StopJob, PollInterrupted
  <2>2. /\ cloud' = cloud /\ stopped \subseteq stopped' /\ abandoned \subseteq abandoned'
        /\ orphaned' = orphaned
        /\ \/ CloudState(CurrentJob(w)) # "running"
           \/ CurrentJob(w) \in stopped' \cup abandoned'
    BY <1>7 DEF PollReturns, PollDone, PollTimeout, PollFails, StopJob, PollInterrupted, cloudVars
  <2>3. ASSUME NEW s \in Suites, NEW a \in Attempts, Live(s, a)'
        PROVE  Live(s, a) /\ CurrentJob(w) # <<s, a>>
    <3>1. Live(s, a)
      BY <2>2, <2>3 DEF Live
    <3>2. ASSUME CurrentJob(w) = <<s, a>>
          PROVE  FALSE
      BY <2>2, <2>3, <3>2 DEF Live, CloudState
    <3>3. QED
      BY <3>1, <3>2
  <2>4. QED
    BY <2>1, <2>3, WatchKept
<1>8. QED
  BY <1>5, <1>6, <1>7 DEF StartReturns, StartAsync

LEMMA WatchNext ==
  ASSUME PoolInv, LiveJobsWatched, [Next]_vars
  PROVE  LiveJobsWatched'
<1>0. CASE Async
  BY <1>0 DEF LiveJobsWatched
<1>1. CASE ~Async /\ \E w \in Workers : StartReturns(w) \/ PollReturns(w)
  BY <1>1, WatchWorkerStep
<1>2. CASE \E w \in Workers : JobEnds(w)
  <2>1. PICK w \in Workers : JobEnds(w)
    BY <1>2
  <2>2. /\ UNCHANGED <<pc, opts, stopped, abandoned, orphaned>>
        /\ pc[w] = "polling" /\ opts[w] # None
    BY <2>1, PoolFacts DEF JobEnds, clientVars, WorkerState
  <2>3. /\ opts[w].suite \in Suites /\ opts[w].attempt \in Attempts
        /\ CurrentJob(w) = <<opts[w].suite, opts[w].attempt>>
    BY <2>2, CurrentJobFacts DEF CurrentJob
  <2>4. PICK outcome \in Outcomes(RealDevice[opts[w].suite]) : SetCloud(CurrentJob(w), outcome)
    BY <2>1 DEF JobEnds
  <2>5. outcome \in CloudStates \ {"none"} /\ outcome # "running"
    BY <2>4 DEF Outcomes, CloudStates, StatePassed, StateFailed, StateComplete, StateError
  <2>6. ASSUME NEW s \in Suites, NEW a \in Attempts, Live(s, a)'
        PROVE  Live(s, a)
    <3>1. cloud'[opts[w].suite][opts[w].attempt] = outcome
      BY <2>3, <2>4, <2>5, PoolFacts, SetCloudFacts
    <3>2. s # opts[w].suite \/ a # opts[w].attempt
      BY <2>5, <2>6, <3>1 DEF Live
    <3>3. cloud'[s][a] = cloud[s][a]
      BY <2>3, <2>4, <2>5, <3>2, PoolFacts, SetCloudFacts
    <3>4. QED
      BY <2>2, <2>6, <3>3 DEF Live
  <2>7. QED
    BY <2>2, <2>6 DEF LiveJobsWatched, CurrentJob
<1>3. CASE \/ \E s \in Suites : Feed(s)
           \/ \E w \in Workers : SkipSuite(w) \/ BeginSuite(w) \/ SendResult(w)
           \/ \E o \in retrying : RetrySend(o)
           \/ Collect \/ Return \/ Interrupt \/ Finished \/ UNCHANGED vars
  <2>1. UNCHANGED cloudVars
    BY <1>3 DEF Feed, SkipSuite, BeginSuite, SendResult, RetrySend, Collect, Return, Interrupt,
                Finished, vars
  <2>2. pc \in [Workers -> PCs] /\ opts \in [Workers -> StartOptions \cup {None}]
    BY PoolFacts DEF ClientType
  <2>3. ASSUME NEW w \in Workers, SkipSuite(w) \/ BeginSuite(w) \/ SendResult(w),
               NEW v \in Workers, pc[v] = "polling"
        PROVE  pc'[v] = "polling" /\ opts'[v] = opts[v]
    BY <2>2, <2>3 DEF SkipSuite, BeginSuite, SendResult
  <2>4. CASE UNCHANGED <<pc, opts>>
    BY <2>1, <2>4, WatchUntouched
  <2>5. QED
    BY <1>3, <2>1, <2>3, <2>4, WatchUntouched
       DEF Feed, RetrySend, Collect, Return, Interrupt, Finished, vars, clientVars
<1>4. QED
  BY <1>0, <1>1, <1>2, <1>3 DEF Next, Worker

\* A job the client started, and has neither stopped nor lost, is polled by a
\* worker as long as it runs.
THEOREM NoJobForgotten == Spec => []LiveJobsWatched
<1>1. Init => LiveJobsWatched
  BY DEF Init, LiveJobsWatched, Live
<1>2. PoolInv /\ LiveJobsWatched /\ [Next]_vars => LiveJobsWatched'
  BY WatchNext
<1>3. QED
  BY <1>1, <1>2, PoolInvariant, PTL DEF Spec

\* The attempts of a suite do not compete: at most one of them is live.
THEOREM OneAttemptAtATime == Spec => []AttemptsDoNotOverlap
<1>1. ASSUME PoolInv, LiveJobsWatched, ~Async,
             NEW s \in Suites, NEW a \in Attempts, NEW b \in Attempts, Live(s, a), Live(s, b)
      PROVE  a = b
  <2>1. PICK v \in Workers : pc[v] = "polling" /\ CurrentJob(v) = <<s, a>>
    BY <1>1 DEF LiveJobsWatched
  <2>2. PICK w \in Workers : pc[w] = "polling" /\ CurrentJob(w) = <<s, b>>
    BY <1>1 DEF LiveJobsWatched
  <2>3. opts[v] # None /\ opts[w] # None
    BY <1>1, <2>1, <2>2, PoolFacts DEF WorkerState
  <2>4. opts[v].suite = s /\ opts[v].attempt = a /\ opts[w].suite = s /\ opts[w].attempt = b
    BY <2>1, <2>2 DEF CurrentJob
  <2>5. v = w
    BY <1>1, <2>3, <2>4, PoolFacts DEF NoHolderTwice
  <2>6. QED
    BY <2>4, <2>5
<1>2. PoolInv /\ LiveJobsWatched => AttemptsDoNotOverlap
  BY <1>1 DEF AttemptsDoNotOverlap
<1>3. QED
  BY <1>2, PoolInvariant, NoJobForgotten, PTL

-----------------------------------------------------------------------------
(* No attempt is started twice                                             *)

\* What a channel holds after a send, and after a receive.
LEMMA ChannelElements ==
  ASSUME NEW S, NEW q \in Seq(S)
  PROVE  /\ \A e \in S : \A i \in DOMAIN Append(q, e) :
              Append(q, e)[i] = e \/ \E k \in DOMAIN q : Append(q, e)[i] = q[k]
         /\ q # <<>> => /\ Head(q) = q[1] /\ 1 \in DOMAIN q
                        /\ \A i \in DOMAIN Tail(q) : \E k \in DOMAIN q : Tail(q)[i] = q[k]
<1>1. ASSUME NEW e \in S, NEW i \in DOMAIN Append(q, e)
      PROVE  Append(q, e)[i] = e \/ \E k \in DOMAIN q : Append(q, e)[i] = q[k]
  <2>1. i \in 1..(Len(q) + 1) /\ Len(q) \in Nat /\ DOMAIN q = 1..Len(q)
    BY <1>1
  <2>2. i = Len(q) + 1 \/ i \in DOMAIN q
    BY <2>1
  <2>3. QED
    BY <2>1, <2>2
<1>2. ASSUME q # <<>>
      PROVE  Head(q) = q[1] /\ 1 \in DOMAIN q
  BY <1>2
<1>3. ASSUME q # <<>>, NEW i \in DOMAIN Tail(q)
      PROVE  \E k \in DOMAIN q : Tail(q)[i] = q[k]
  <2>1. /\ Len(q) \in Nat /\ Len(q) > 0 /\ DOMAIN q = 1..Len(q)
        /\ DOMAIN Tail(q) = 1..(Len(q) - 1)
        /\ \A n \in 1..(Len(q) - 1) : Tail(q)[n] = q[n + 1]
    BY <1>3
  <2>2. i + 1 \in DOMAIN q /\ Tail(q)[i] = q[i + 1]
    BY <1>3, <2>1
  <2>3. QED
    BY <2>2
<1>4. QED
  BY <1>1, <1>2, <1>3

\* A step of the cloud or of a worker that has options: it changes at most the
\* state of the worker's own job, and passes at most the next attempt on.
LEMMA FreshWorkerStep ==
  ASSUME PoolInv, AttemptsAreFresh, NEW w \in Workers, opts[w] # None,
         NEW s \in Suites, s = opts[w].suite, NEW a \in Attempts, a = opts[w].attempt,
         \A t \in Suites, b \in Attempts : t # s \/ b # a => cloud'[t][b] = cloud[t][b],
         UNCHANGED <<unfed, jobOpts>>,
         \A o \in retrying' : o \in retrying \/ (o.suite = s /\ o.attempt = a + 1),
         \A v \in Workers : v # w => pc'[v] = pc[v] /\ opts'[v] = opts[v],
         pc'[w] # "starting", pc'[w] = "polling" => opts'[w] = opts[w]
  PROVE  AttemptsAreFresh'
<1>1. Attempts \subseteq Int /\ 0 \in Attempts
  BY PoolAssumption DEF Attempts
<1>2. Unstarted(s, a + 1)'
  <2>1. pc[w] \in {"starting", "polling"}
    BY PoolFacts DEF WorkerState
  <2>2. Unstarted(s, a) \/ Unstarted(s, a + 1)
    BY <2>1 DEF AttemptsAreFresh
  <2>3. ASSUME NEW b \in Attempts, b >= a + 1
        PROVE  cloud'[s][b] = "none"
    <3>1. b # a /\ b >= a
      BY <1>1, <2>3
    <3>2. QED
      BY <2>2, <2>3, <3>1 DEF Unstarted
  <2>4. QED
    BY <2>3 DEF Unstarted
<1>3. ASSUME NEW t \in Suites, t # s, NEW c, Unstarted(t, c)
      PROVE  Unstarted(t, c)'
  BY <1>3 DEF Unstarted
<1>4. s \in Running
  BY DEF Running
<1>5. ASSUME NEW t \in unfed'
      PROVE  Unstarted(t, 0)'
  <2>1. t \in Suites /\ t # s
    BY <1>4, <1>5, PoolFacts DEF ClientType, PlacesDisjoint
  <2>2. QED
    BY <1>3, <1>5, <2>1 DEF AttemptsAreFresh
<1>6. ASSUME NEW i \in DOMAIN jobOpts'
      PROVE  Unstarted(jobOpts[i].suite, jobOpts[i].attempt)'
  <2>1. i \in DOMAIN jobOpts /\ jobOpts[i] \in StartOptions
    BY <1>6, PoolFacts DEF ClientType
  <2>2. jobOpts[i].suite \in Suites /\ jobOpts[i].suite # s
    BY <1>4, <2>1, PoolFacts DEF StartOptions, PlacesDisjoint, Queued
  <2>3. jobOpts'[i] = jobOpts[i] /\ Unstarted(jobOpts[i].suite, jobOpts[i].attempt)
    BY <2>1 DEF AttemptsAreFresh
  <2>4. QED
    BY <1>3, <2>2, <2>3 DEF Unstarted
<1>7. ASSUME NEW o \in retrying'
      PROVE  Unstarted(o.suite, o.attempt)'
  <2>1. CASE o \in retrying
    <3>1. o.suite \in Suites /\ o.suite # s
      BY <1>4, <2>1, PoolFacts DEF ClientType, StartOptions, PlacesDisjoint, Retried
    <3>2. QED
      BY <1>3, <2>1, <3>1 DEF AttemptsAreFresh
  <2>2. CASE o.suite = s /\ o.attempt = a + 1
    BY <1>2, <2>2
  <2>3. QED
    BY <1>7, <2>1, <2>2
<1>8. ASSUME NEW v \in Workers
      PROVE  /\ pc'[v] = "starting" => Unstarted(opts[v].suite, opts[v].attempt)'
             /\ pc'[v] = "polling" => Unstarted(opts[v].suite, opts[v].attempt + 1)'
  <2>1. CASE v = w
    BY <1>2, <2>1 DEF Unstarted
  <2>2. CASE v # w /\ pc[v] \in {"starting", "polling"}
    <3>1. opts[v] # None /\ opts[v] \in StartOptions
      BY <2>2, PoolFacts DEF WorkerState, ClientType
    <3>2. opts[v].suite \in Suites /\ opts[v].suite # s
      BY <2>2, <3>1, PoolFacts DEF StartOptions, NoHolderTwice
    <3>3. /\ pc[v] = "starting" => Unstarted(opts[v].suite, opts[v].attempt)'
          /\ pc[v] = "polling" => Unstarted(opts[v].suite, opts[v].attempt + 1)'
      BY <2>2, <3>2 DEF AttemptsAreFresh, Unstarted
    <3>4. QED
      BY <2>2, <3>3
  <2>3. CASE v # w /\ pc[v] \notin {"starting", "polling"}
    BY <2>3
  <2>4. QED
    BY <2>1, <2>2, <2>3
<1>9. QED
  BY <1>5, <1>6, <1>7, <1>8 DEF AttemptsAreFresh

\* What a step of a worker that deals with a job does to the cloud and to the
\* other goroutines.
LEMMA JobStepFrame ==
  ASSUME PoolInv, NEW w \in Workers, StartReturns(w) \/ PollReturns(w) \/ JobEnds(w)
  PROVE  /\ opts[w] # None /\ opts[w].suite \in Suites /\ opts[w].attempt \in Attempts
         /\ \A t \in Suites, b \in Attempts :
              t # opts[w].suite \/ b # opts[w].attempt => cloud'[t][b] = cloud[t][b]
         /\ UNCHANGED <<unfed, jobOpts>> /\ UNCHANGED collectorVars
         /\ \A o \in retrying' :
              o \in retrying \/ (o.suite = opts[w].suite /\ o.attempt = opts[w].attempt + 1)
         /\ \A v \in Workers : v # w => pc'[v] = pc[v] /\ opts'[v] = opts[v]
         /\ pc'[w] # "starting"
         /\ pc'[w] = "polling" => opts'[w] = opts[w]
<1>1. TypeOK /\ CloudType /\ opts \in [Workers -> StartOptions \cup {None}]
  BY PoolFacts DEF PoolInv, ClientType
<1>2. pc[w] \in {"starting", "polling"} /\ opts[w] # None
  BY PoolFacts DEF StartReturns, StartFails, StartAsync, StartPolled, PollReturns,
                   PollDone, PollTimeout, PollFails, StopJob, PollInterrupted, JobEnds, WorkerState
<1>3. /\ opts[w] \in StartOptions
      /\ opts[w].suite \in Suites /\ opts[w].attempt \in Attempts
      /\ CurrentJob(w) = <<opts[w].suite, opts[w].attempt>>
  BY <1>2, CurrentJobFacts DEF CurrentJob
<1>4. ASSUME NEW state \in CloudStates \ {"none"}, SetCloud(CurrentJob(w), state),
             NEW t \in Suites, NEW b \in Attempts, t # opts[w].suite \/ b # opts[w].attempt
      PROVE  cloud'[t][b] = cloud[t][b]
  BY <1>1, <1>3, <1>4, SetCloudFacts
<1>5. "running" \in CloudStates \ {"none"}
  BY DEF CloudStates
<1>6. ASSUME NEW j, NEW skipped, AfterRunJob(w, j, skipped)
      PROVE  /\ UNCHANGED <<unfed, jobOpts>>
             /\ \A o \in retrying' :
                  o \in retrying \/ (o.suite = opts[w].suite /\ o.attempt = opts[w].attempt + 1)
             /\ pc'[w] \in {"idle", "sending"}
             /\ \A v \in Workers : v # w => pc'[v] = pc[v] /\ opts'[v] = opts[v]
  <2>1. UNCHANGED <<unfed, jobOpts>>
    BY <1>6 DEF AfterRunJob
  <2>2. /\ NextAttempt(Counted(opts[w], j)).suite = opts[w].suite
        /\ NextAttempt(Counted(opts[w], j)).attempt = opts[w].attempt + 1
    BY <1>3 DEF NextAttempt, Counted, StartOptions
  <2>3. retrying' = retrying \cup {NextAttempt(Counted(opts[w], j))} \/ retrying' = retrying
    BY <1>6 DEF AfterRunJob, Requeue, Settle
  <2>4. pc'[w] \in {"idle", "sending"}
    BY <1>1, <1>6 DEF AfterRunJob, Requeue, Settle, TypeOK
  <2>5. \A v \in Workers : v # w => pc'[v] = pc[v] /\ opts'[v] = opts[v]
    BY <1>1, <1>6, AfterRunJobFrame
  <2>6. QED
    BY <2>1, <2>2, <2>3, <2>4, <2>5
<1>7. CASE StartPolled(w)
  <2>1. /\ pc' = [pc EXCEPT ![w] = "polling"] /\ UNCHANGED <<unfed, jobOpts, retrying, opts>>
        /\ UNCHANGED collectorVars /\ SetCloud(CurrentJob(w), "running")
    BY <1>7 DEF StartPolled
  <2>2. pc'[w] = "polling" /\ \A v \in Workers : v # w => pc'[v] = pc[v]
    BY <1>1, <2>1 DEF TypeOK
  <2>3. QED
    BY <1>2, <1>3, <1>4, <1>5, <2>1, <2>2
<1>8. CASE JobEnds(w)
  <2>1. PICK outcome \in Outcomes(RealDevice[opts[w].suite]) : SetCloud(CurrentJob(w), outcome)
    BY <1>8 DEF JobEnds
  <2>2. outcome \in CloudStates \ {"none"}
    BY <2>1 DEF Outcomes, CloudStates, StatePassed, StateFailed, StateComplete, StateError
  <2>3. /\ UNCHANGED <<unfed, jobOpts, retrying, pc, opts>> /\ UNCHANGED collectorVars
        /\ pc[w] = "polling"
    BY <1>8 DEF JobEnds, clientVars
  <2>4. QED
    BY <1>2, <1>3, <1>4, <2>1, <2>2, <2>3
<1>9. CASE StartFails(w) \/ StartAsync(w)
  <2>1. /\ \E j : AfterRunJob(w, j, FALSE)
        /\ UNCHANGED collectorVars
        /\ UNCHANGED cloud \/ SetCloud(CurrentJob(w), "running")
    BY <1>9 DEF StartFails, StartAsync, cloudVars
  <2>2. QED
    BY <1>2, <1>3, <1>4, <1>5, <1>6, <2>1
<1>10. CASE PollReturns(w)
  <2>1. /\ \E j, skipped : AfterRunJob(w, j, skipped)
        /\ UNCHANGED collectorVars /\ UNCHANGED cloud
    BY <1>10 DEF PollReturns, PollDone, PollTimeout, PollFails, StopJob, PollInterrupted, cloudVars
  <2>2. QED
    BY <1>2, <1>3, <1>6, <2>1
<1>11. QED
  BY <1>7, <1>8, <1>9, <1>10 DEF StartReturns

LEMMA FreshNext ==
  ASSUME PoolInv, AttemptsAreFresh, [Next]_vars
  PROVE  AttemptsAreFresh'
<1>1. CASE \E w \in Workers : StartReturns(w) \/ PollReturns(w) \/ JobEnds(w)
  BY <1>1, JobStepFrame, FreshWorkerStep
<1>2. jobOpts \in Seq(StartOptions)
  BY PoolFacts DEF ClientType
<1>3. ASSUME UNCHANGED cloud, NEW t, NEW c, Unstarted(t, c)
      PROVE  Unstarted(t, c)'
  BY <1>3 DEF Unstarted
<1>4. ASSUME NEW s \in Suites, Feed(s)
      PROVE  AttemptsAreFresh'
  <2>1. PICK e : e = [suite |-> s, attempt |-> 0, passCount |-> 0]
    OBVIOUS
  <2>2. /\ s \in unfed /\ unfed' = unfed \ {s} /\ jobOpts' = Append(jobOpts, e)
        /\ UNCHANGED <<retrying, pc, opts, cloud>>
    BY <1>4, <2>1 DEF Feed, cloudVars
  <2>3. e \in StartOptions /\ e.suite = s /\ e.attempt = 0
    BY <2>1, PoolAssumption DEF StartOptions, Attempts
  <2>4. Unstarted(e.suite, e.attempt)
    BY <2>2, <2>3 DEF AttemptsAreFresh
  <2>5. \A i \in DOMAIN jobOpts' : jobOpts'[i] = e \/ \E k \in DOMAIN jobOpts : jobOpts'[i] = jobOpts[k]
    BY <1>2, <2>2, <2>3, ChannelElements
  <2>6. \A i \in DOMAIN jobOpts' : Unstarted(jobOpts'[i].suite, jobOpts'[i].attempt)
    BY <2>4, <2>5 DEF AttemptsAreFresh
  <2>7. QED
    BY <2>2, <2>6 DEF AttemptsAreFresh, Unstarted
<1>5. ASSUME NEW o \in retrying, RetrySend(o)
      PROVE  AttemptsAreFresh'
  <2>1. /\ retrying' = retrying \ {o} /\ jobOpts' = Append(jobOpts, o)
        /\ UNCHANGED <<unfed, pc, opts, cloud>>
    BY <1>5 DEF RetrySend, cloudVars
  <2>2. o \in StartOptions
    BY PoolFacts DEF ClientType
  <2>3. \A i \in DOMAIN jobOpts' : jobOpts'[i] = o \/ \E k \in DOMAIN jobOpts : jobOpts'[i] = jobOpts[k]
    BY <1>2, <2>1, <2>2, ChannelElements
  <2>4. \A i \in DOMAIN jobOpts' : Unstarted(jobOpts'[i].suite, jobOpts'[i].attempt)
    BY <2>3 DEF AttemptsAreFresh
  <2>5. QED
    BY <2>1, <2>4 DEF AttemptsAreFresh, Unstarted
<1>6. ASSUME NEW w \in Workers, SkipSuite(w) \/ BeginSuite(w)
      PROVE  AttemptsAreFresh'
  <2>1. /\ jobOpts # <<>> /\ jobOpts' = Tail(jobOpts)
        /\ UNCHANGED <<unfed, retrying, cloud>>
        /\ \/ pc' = [pc EXCEPT ![w] = "sending"] /\ UNCHANGED opts
           \/ pc' = [pc EXCEPT ![w] = "starting"] /\ opts' = [opts EXCEPT ![w] = Head(jobOpts)]
    BY <1>6 DEF SkipSuite, BeginSuite, cloudVars
  <2>2. /\ Head(jobOpts) = jobOpts[1] /\ 1 \in DOMAIN jobOpts
        /\ \A i \in DOMAIN jobOpts' : \E k \in DOMAIN jobOpts : jobOpts'[i] = jobOpts[k]
    BY <1>2, <2>1, ChannelElements
  <2>3. \A i \in DOMAIN jobOpts' : Unstarted(jobOpts'[i].suite, jobOpts'[i].attempt)
    BY <2>2 DEF AttemptsAreFresh
  <2>4. Unstarted(Head(jobOpts).suite, Head(jobOpts).attempt)
    BY <2>2 DEF AttemptsAreFresh
  <2>5. pc \in [Workers -> PCs] /\ opts \in [Workers -> StartOptions \cup {None}]
    BY PoolFacts DEF ClientType
  <2>6. \A v \in Workers :
          /\ pc'[v] = "starting" => Unstarted(opts'[v].suite, opts'[v].attempt)
          /\ pc'[v] = "polling" => Unstarted(opts'[v].suite, opts'[v].attempt + 1)
    BY <2>1, <2>4, <2>5 DEF AttemptsAreFresh
  <2>7. QED
    BY <2>1, <2>3, <2>6 DEF AttemptsAreFresh, Unstarted
<1>7. ASSUME NEW w \in Workers, SendResult(w)
      PROVE  AttemptsAreFresh'
  <2>1. /\ pc' = [pc EXCEPT ![w] = "idle"]
        /\ UNCHANGED <<unfed, jobOpts, retrying, opts, cloud>>
    BY <1>7 DEF SendResult, cloudVars
  <2>2. \A v \in Workers : pc'[v] \in {"starting", "polling"} => pc'[v] = pc[v]
    BY <2>1, PoolFacts DEF ClientType
  <2>3. QED
    BY <2>1, <2>2 DEF AttemptsAreFresh, Unstarted
<1>8. CASE Collect \/ Return \/ Interrupt \/ Finished \/ UNCHANGED vars
  <2>1. UNCHANGED <<unfed, jobOpts, retrying, pc, opts, cloud>>
    BY <1>8 DEF Collect, Return, Interrupt, Finished, vars, clientVars, cloudVars
  <2>2. QED
    BY <2>1 DEF AttemptsAreFresh, Unstarted
<1>9. QED
  BY <1>1, <1>4, <1>5, <1>6, <1>7, <1>8 DEF Next, Worker

\* The attempt numbers count jobs: no attempt of a suite is ever started twice.
THEOREM NoAttemptTwice == Spec => []AttemptsAreFresh
<1>1. Init => AttemptsAreFresh
  BY DEF Init, AttemptsAreFresh, Unstarted
<1>2. PoolInv /\ AttemptsAreFresh /\ [Next]_vars => AttemptsAreFresh'
  BY FreshNext
<1>3. QED
  BY <1>1, <1>2, PoolInvariant, PTL DEF Spec

-----------------------------------------------------------------------------
(* The pool implements SuiteRun                                            *)

\* SuiteRun's variables, under the names of the refinement mapping.
StartedMap == [s \in Suites |-> Started(s)]
EntryMap == [s \in Suites |-> ledger[s].status]
Verdict == IF ~returned THEN "pending" ELSE IF passed THEN "pass" ELSE "fail"

\* Steps SuiteRun does not see.
LEMMA RunStutters ==
  ASSUME UNCHANGED <<ledger, passed, returned>>, UNCHANGED StartedMap
  PROVE  UNCHANGED Run!vars
BY DEF StartedMap, Run!vars

\* A job that ends, or is not started, leaves the started attempts alone.
LEMMA StartedKept ==
  ASSUME \A s \in Suites, a \in Attempts : cloud'[s][a] = "none" <=> cloud[s][a] = "none"
  PROVE  UNCHANGED StartedMap
BY DEF StartedMap, Started

\* While a suite is running it is not reported, and the verdict is open.
LEMMA RunningIsOpen ==
  ASSUME PoolInv, Expected = Cardinality(Suites), NEW w \in Workers, opts[w] # None
  PROVE  /\ opts[w].suite \in Suites
         /\ ledger[opts[w].suite].status = "open"
         /\ ~returned
<1>1. opts[w].suite \in Suites
  BY CurrentJobFacts
<1>2. opts[w].suite \notin Reported
  BY PoolFacts DEF PlacesDisjoint, Running
<1>3. pc[w] # "idle"
  BY PoolFacts DEF WorkerState
<1>4. ~returned
  BY <1>3, QuietInv DEF QuietAfterReturn
<1>5. QED
  BY <1>1, <1>2, <1>4 DEF Reported

\* The start of a job is SuiteRun's StartJob.
LEMMA StartImplements ==
  ASSUME PoolInv, AttemptsAreFresh, Expected = Cardinality(Suites),
         NEW w \in Workers, pc[w] = "starting", SetCloud(CurrentJob(w), "running"),
         UNCHANGED collectorVars
  PROVE  Run!StartJob(opts[w].suite)
<1> PICK s, a : s = opts[w].suite /\ a = opts[w].attempt
  OBVIOUS
<1>1. /\ opts[w] # None /\ s \in Suites /\ a \in Attempts
      /\ CurrentJob(w) = <<s, a>>
  BY PoolFacts, CurrentJobFacts DEF WorkerState, CurrentJob
<1>2. ledger[s].status = "open" /\ ~returned
  BY <1>1, RunningIsOpen
<1>3. a \notin Started(s)
  <2>1. Unstarted(s, a)
    BY DEF AttemptsAreFresh
  <2>2. a >= a
    BY <1>1, PoolAssumption DEF Attempts
  <2>3. QED
    BY <1>1, <2>1, <2>2 DEF Unstarted, Started
<1>4. /\ cloud'[s][a] = "running"
      /\ \A t \in Suites, b \in Attempts : t # s \/ b # a => cloud'[t][b] = cloud[t][b]
  <2>1. "running" \in CloudStates \ {"none"}
    BY DEF CloudStates
  <2>2. QED
    BY <1>1, <2>1, PoolFacts, SetCloudFacts
<1>5. StartedMap' = [StartedMap EXCEPT ![s] = @ \cup {a}]
  <2>1. Started(s)' = Started(s) \cup {a}
    BY <1>1, <1>4 DEF Started
  <2>2. ASSUME NEW t \in Suites, t # s
        PROVE  Started(t)' = Started(t)
    BY <1>4, <2>2 DEF Started
  <2>3. QED
    BY <1>1, <2>1, <2>2 DEF StartedMap
<1>6. UNCHANGED <<EntryMap, Verdict>>
  BY DEF collectorVars, EntryMap, Verdict
<1>7. Verdict = "pending" /\ EntryMap[s] = "open" /\ a \in Attempts \ StartedMap[s]
  BY <1>1, <1>2, <1>3 DEF Verdict, EntryMap, StartedMap
<1>8. QED
  BY <1>5, <1>6, <1>7 DEF Run!StartJob, StartedMap, EntryMap, Verdict

LEMMA CollectImplements ==
  ASSUME PoolInv, Collect
  PROVE  \E s \in Suites : Run!Report(s)
<1> PICK r : r = Head(results)
  OBVIOUS
<1>1. /\ results # <<>> /\ ~returned
      /\ ledger' = [ledger EXCEPT ![r.suite] = Entry(r)]
      /\ UNCHANGED returned /\ UNCHANGED cloud
  BY DEF Collect, cloudVars
<1>2. results \in Seq(Results) /\ ledger \in [Suites -> Entries]
  BY PoolFacts DEF CollectorType
<1>3. r \in Results /\ r.suite \in Answered
  BY <1>1, <1>2, ReceiveTokens, Places
<1> PICK s : s = r.suite
  OBVIOUS
<1>4. s \in Suites /\ ledger[s].status = "open"
  BY <1>3, PoolFacts DEF Results, PlacesDisjoint, Reported
<1>5. Entry(r).status \in States \cup {"skipped"}
  <2>1. r.job \in Jobs
    BY <1>3 DEF Results
  <2>2. QED
    BY <2>1, TotalStatusType DEF Entry
<1>6. EntryMap' = [EntryMap EXCEPT ![s] = Entry(r).status]
  BY <1>1, <1>2, <1>4 DEF EntryMap
<1>7. UNCHANGED StartedMap /\ Verdict = "pending" /\ Verdict' = "pending"
  BY <1>1 DEF StartedMap, Started, Verdict
<1>8. EntryMap[s] = "open"
  BY <1>4 DEF EntryMap
<1>9. Run!Report(s)
  BY <1>5, <1>6, <1>7, <1>8 DEF Run!Report, StartedMap, EntryMap, Verdict
<1>10. QED
  BY <1>4, <1>9

LEMMA ReturnImplements ==
  ASSUME PoolInv, Return, Expected = Cardinality(Suites)
  PROVE  Run!Conclude
<1>1. /\ ~returned /\ returned' /\ completed = Expected
      /\ UNCHANGED <<ledger, passed, cloud>>
  BY DEF Return, cloudVars
<1>2. Reported = Suites
  BY <1>1, AllReported
<1>3. \A s \in Suites : EntryMap[s] # "open"
  BY <1>2 DEF EntryMap, Reported
<1>4. passed => \A s \in Suites : EntryMap[s] # "failed"
  BY PoolFacts DEF Tally, EntryMap, StateFailed
<1>5. /\ UNCHANGED StartedMap /\ UNCHANGED EntryMap
      /\ Verdict = "pending" /\ Verdict' = IF passed THEN "pass" ELSE "fail"
  BY <1>1 DEF StartedMap, EntryMap, Started, Verdict
<1>6. QED
  BY <1>3, <1>4, <1>5 DEF Run!Conclude, StartedMap, EntryMap, Verdict

LEMMA NextImplements ==
  ASSUME PoolInv, AttemptsAreFresh, Expected = Cardinality(Suites), [Next]_vars
  PROVE  [Run!Next]_Run!vars
<1>1. ASSUME NEW w \in Workers, StartReturns(w) \/ PollReturns(w)
      PROVE  [Run!Next]_Run!vars
  <2>1. opts[w] # None /\ opts[w].suite \in Suites /\ UNCHANGED collectorVars
    BY <1>1, JobStepFrame
  <2>2. CASE UNCHANGED cloud
    <3>1. UNCHANGED StartedMap /\ UNCHANGED <<ledger, passed, returned>>
      BY <2>1, <2>2 DEF StartedMap, Started, collectorVars
    <3>2. QED
      BY <3>1, RunStutters
  <2>3. CASE pc[w] = "starting" /\ SetCloud(CurrentJob(w), "running")
    BY <2>1, <2>3, StartImplements DEF Run!Next
  <2>4. QED
    BY <1>1, <2>2, <2>3 DEF StartReturns, StartFails, StartAsync, StartPolled, PollReturns,
                            PollDone, PollTimeout, PollFails, StopJob, PollInterrupted, cloudVars
<1>2. ASSUME NEW w \in Workers, JobEnds(w)
      PROVE  UNCHANGED Run!vars
  <2>1. /\ UNCHANGED <<ledger, passed, returned>>
        /\ opts[w] # None /\ opts[w].suite \in Suites /\ opts[w].attempt \in Attempts
        /\ CurrentJob(w) = <<opts[w].suite, opts[w].attempt>>
        /\ CloudState(CurrentJob(w)) = "running"
    BY <1>2, JobStepFrame DEF JobEnds, CurrentJob, collectorVars
  <2>2. PICK outcome \in Outcomes(RealDevice[opts[w].suite]) : SetCloud(CurrentJob(w), outcome)
    BY <1>2 DEF JobEnds
  <2>3. outcome \in CloudStates \ {"none"}
    BY <2>2 DEF Outcomes, CloudStates, StatePassed, StateFailed, StateComplete, StateError
  <2>4. /\ cloud'[opts[w].suite][opts[w].attempt] # "none"
        /\ cloud[opts[w].suite][opts[w].attempt] # "none"
        /\ \A t \in Suites, b \in Attempts :
             t # opts[w].suite \/ b # opts[w].attempt => cloud'[t][b] = cloud[t][b]
    <3>1. CloudType
      BY PoolFacts
    <3>2. cloud[opts[w].suite][opts[w].attempt] = "running"
      BY <2>1 DEF CloudState
    <3>3. QED
      BY <2>1, <2>2, <2>3, <3>1, <3>2, SetCloudFacts
  <2>5. UNCHANGED StartedMap
    BY <2>4, StartedKept
  <2>6. QED
    BY <2>1, <2>5, RunStutters
<1>3. CASE \/ \E s \in Suites : Feed(s)
           \/ \E w \in Workers : SkipSuite(w) \/ BeginSuite(w) \/ SendResult(w)
           \/ \E o \in retrying : RetrySend(o)
           \/ Interrupt \/ Finished \/ UNCHANGED vars
  <2>1. UNCHANGED <<ledger, passed, returned, cloud>>
    BY <1>3 DEF Feed, SkipSuite, BeginSuite, SendResult, RetrySend, Interrupt, Finished, vars,
                collectorVars, cloudVars
  <2>2. UNCHANGED StartedMap
    BY <2>1 DEF StartedMap, Started
  <2>3. QED
    BY <2>1, <2>2, RunStutters
<1>4. CASE Collect
  BY <1>4, CollectImplements DEF Run!Next
<1>5. CASE Return
  BY <1>5, ReturnImplements DEF Run!Next
<1>6. QED
  BY <1>1, <1>2, <1>3, <1>4, <1>5 DEF Next, Worker

\* A runner that tells collectResults to wait for as many results as it submits
\* suites carries out SuiteRun: no job is started for a suite that was reported,
\* every suite is reported exactly once and before the verdict, and the run does
\* not pass with a suite reported as failed.
THEOREM PoolImplementsSuiteRun ==
  ASSUME Expected = Cardinality(Suites)
  PROVE  Spec => ImplementsSuiteRun
<1>1. Init => Run!Init
  BY DEF Init, Run!Init, Started
<1>2. PoolInv /\ AttemptsAreFresh /\ [Next]_vars => [Run!Next]_Run!vars
  BY NextImplements
<1>3. QED
  BY <1>1, <1>2, PoolInvariant, NoAttemptTwice, PTL DEF Spec, ImplementsSuiteRun, Run!Spec

-----------------------------------------------------------------------------
(* What the verdicts rest on                                               *)

\* CurrentPassCount counts jobs the cloud ended successfully.
Earned(o) == o.passCount <= Cardinality(Successes(o.suite, 0..(o.attempt - 1)))

Deserved(s) == Cardinality(Successes(s, Attempts)) >= PassThreshold[s]

PassCountsAreEarned ==
  /\ \A i \in DOMAIN jobOpts : Earned(jobOpts[i])
  /\ \A o \in retrying : Earned(o)
  /\ \A w \in Workers : opts[w] # None => Earned(opts[w])

Undisturbed == ~cancelled /\ ~Async /\ ~FailFast

\* A result of an undisturbed run is a verdict, and no unearned pass.
Sound(r) == ~r.skipped /\ Done(r.job.status) /\ (r.job.passed => Deserved(r.suite))

ResultsAreSound ==
  Undisturbed =>
    /\ \A w \in Workers : ~skipStart[w] /\ (res[w] # None => Sound(res[w]))
    /\ \A i \in DOMAIN results : Sound(results[i])
    /\ passed => \A s \in Reported : Deserved(s)

\* A result that fails its suite is the last attempt's.
Final(r) == ~r.skipped /\ TotalStatus(r.job) = StateFailed => r.attempts = Retries + 1

FailuresAreFinal ==
  ~Async =>
    /\ \A w \in Workers : res[w] # None => Final(res[w])
    /\ \A i \in DOMAIN results : Final(results[i])
    /\ \A s \in Suites : ledger[s].status = StateFailed => ledger[s].attempts = Retries + 1

-----------------------------------------------------------------------------
(* Failures are final                                                      *)

\* A suite that may be tried again and is settled nevertheless was skipped or
\* passes.
LEMMA SettledIsFinal ==
  ASSUME ~Async, NEW o \in StartOptions, NEW j \in Jobs, NEW skipped \in BOOLEAN,
         ~ShouldRetry(o, j, skipped)
  PROVE  Final([suite |-> o.suite, job |-> Judged(o, j, skipped), skipped |-> skipped,
                attempts |-> o.attempt + 1])
<1>1. SUFFICES ASSUME ~skipped, TotalStatus(Judged(o, j, skipped)) = StateFailed
               PROVE  o.attempt + 1 = Retries + 1
  BY DEF Final
<1>2. CASE BelowThreshold(o)
  <2>1. ~BelowRetryLimit(o)
    BY <1>2 DEF ShouldRetry
  <2>2. QED
    BY <2>1, PoolAssumption DEF BelowRetryLimit, StartOptions, Attempts
<1>3. CASE ~BelowThreshold(o)
  <2>1. /\ Judged(o, j, skipped).status = StatePassed
        /\ Judged(o, j, skipped).passed
    BY <1>1, <1>3 DEF Judged, Jobs
  <2>2. TotalStatus(Judged(o, j, skipped)) \in {StateComplete, StatePassed}
    BY <2>1 DEF TotalStatus, Done, DoneStates
  <2>3. QED
    BY <1>1, <2>2 DEF StateComplete, StatePassed, StateFailed
<1>4. QED
  BY <1>2, <1>3

\* What runJobs makes of a worker's result.
LEMMA AfterRunJobResult ==
  ASSUME PoolInv, NEW w \in Workers, opts[w] # None, NEW j, NEW skipped,
         AfterRunJob(w, j, skipped)
  PROVE  LET o == Counted(opts[w], j)
         IN  /\ opts' = [opts EXCEPT ![w] = None]
             /\ UNCHANGED jobOpts
             /\ \/ /\ ShouldRetry(o, j, skipped)
                   /\ retrying' = retrying \cup {NextAttempt(o)}
                   /\ UNCHANGED <<res, skipStart>>
                \/ /\ ~ShouldRetry(o, j, skipped)
                   /\ res' = [res EXCEPT ![w] =
                                [suite |-> o.suite, job |-> Judged(o, j, skipped),
                                 skipped |-> skipped, attempts |-> o.attempt + 1]]
                   /\ skipStart' = [skipStart EXCEPT ![w] = @ \/ (FailFast /\ ~j.passed)]
                   /\ UNCHANGED retrying
BY DEF AfterRunJob, Requeue, Settle

\* How the steps that deal with a job return: with the job of a failed start,
\* of a start nobody polls, of a failed or ended poll, or with what was polled.
LEMMA ReturnedJob ==
  ASSUME PoolInv, NEW w \in Workers,
         StartFails(w) \/ StartAsync(w) \/ PollReturns(w)
  PROVE  \E j \in Jobs, skipped \in BOOLEAN :
           /\ AfterRunJob(w, j, skipped)
           /\ skipped => cancelled
           /\ IsSuccessful(j) => /\ IsSuccessful(PolledJob(w))
                                 /\ UNCHANGED cloud /\ PollReturns(w)
           /\ j.isRDC => RealDevice[opts[w].suite]
<1>1. opts[w] # None /\ opts[w].suite \in Suites /\ RealDevice[opts[w].suite] \in BOOLEAN
  BY JobStepFrame, PoolAssumption DEF StartReturns
<1>2. FALSE \in BOOLEAN /\ TRUE \in BOOLEAN
  OBVIOUS
<1>3. CASE StartFails(w)
  <2>1. ~IsSuccessful(ErrorJob) /\ ~ErrorJob.isRDC
    BY DEF IsSuccessful, ErrorJob, NoJob
  <2>2. QED
    BY <1>2, <1>3, <2>1, FixedJobs DEF StartFails
<1>4. CASE StartAsync(w)
  <2>1. StartedJob(opts[w].suite) \in Jobs
    BY <1>1, PoolAssumption DEF StartedJob, Jobs, NoJob, States, StateQueued, StateInProgress
  <2>2. /\ ~IsSuccessful(StartedJob(opts[w].suite))
        /\ StartedJob(opts[w].suite).isRDC = RealDevice[opts[w].suite]
    BY DEF IsSuccessful, StartedJob, NoJob
  <2>3. QED
    BY <1>1, <1>2, <1>4, <2>1, <2>2 DEF StartAsync
<1>5. CASE PollReturns(w)
  <2>1. PolledJob(w) \in Jobs
    <3>1. TypeOK /\ pc[w] = "polling" /\ CloudState(CurrentJob(w)) # "none"
      BY <1>5, PoolFacts DEF PoolInv, PollReturns, PollDone, PollTimeout, PollFails,
                             PollInterrupted, WorkerState
    <3>2. QED
      BY <1>1, <3>1, PolledJobType
  <2>2. /\ [PolledJob(w) EXCEPT !.passed = FALSE, !.timedOut = TRUE] \in Jobs
        /\ [PolledJob(w) EXCEPT !.timedOut = TRUE] \in Jobs
        /\ IsSuccessful([PolledJob(w) EXCEPT !.passed = FALSE, !.timedOut = TRUE])
             => IsSuccessful(PolledJob(w))
        /\ IsSuccessful([PolledJob(w) EXCEPT !.timedOut = TRUE]) => IsSuccessful(PolledJob(w))
        /\ [PolledJob(w) EXCEPT !.passed = FALSE, !.timedOut = TRUE].isRDC = PolledJob(w).isRDC
        /\ [PolledJob(w) EXCEPT !.timedOut = TRUE].isRDC = PolledJob(w).isRDC
    BY <2>1 DEF Jobs, IsSuccessful
  <2>3. ~IsSuccessful(NoJob) /\ ~IsSuccessful(BareJob) /\ ~NoJob.isRDC /\ ~BareJob.isRDC
    BY DEF IsSuccessful, NoJob, BareJob
  <2>4. UNCHANGED cloud
    BY <1>5 DEF PollReturns, PollDone, PollTimeout, PollFails, PollInterrupted, StopJob, cloudVars
  <2>5. PolledJob(w).isRDC = RealDevice[opts[w].suite]
    BY <1>1 DEF PolledJob, ParseJob, RDCJob, RestoJob, NoJob
  <2>6. CASE PollDone(w)
    BY <1>2, <1>5, <2>1, <2>4, <2>6, <2>5 DEF PollDone
  <2>7. CASE PollTimeout(w)
    BY <1>2, <1>5, <2>2, <2>4, <2>7, <2>5 DEF PollTimeout
  <2>8. CASE PollFails(w)
    BY <1>2, <2>3, <2>8, FixedJobs DEF PollFails
  <2>9. CASE PollInterrupted(w)
    BY <1>2, <1>5, <2>1, <2>2, <2>3, <2>4, <2>9, <2>5, FixedJobs DEF PollInterrupted
  <2>10. QED
    BY <1>5, <2>6, <2>7, <2>8, <2>9 DEF PollReturns
<1>6. QED
  BY <1>3, <1>4, <1>5

\* A step of the pool that brings no result but passes on those there are.
LEMMA ResultMoves ==
  ASSUME PoolInv, NEW w \in Workers, SendResult(w)
  PROVE  /\ res[w] # None /\ res[w] \in Results
         /\ \A v \in Workers : res'[v] # None => res'[v] = res[v]
         /\ \A i \in DOMAIN results' :
              results'[i] = res[w] \/ \E k \in DOMAIN results : results'[i] = results[k]
<1>1. res \in [Workers -> Results \cup {None}] /\ results \in Seq(Results)
  BY PoolFacts DEF ClientType, CollectorType
<1>2. res[w] # None /\ res[w] \in Results
  BY <1>1, PoolFacts DEF SendResult, WorkerState
<1>3. results' = Append(results, res[w]) /\ res' = [res EXCEPT ![w] = None]
  BY DEF SendResult
<1>4. QED
  BY <1>1, <1>2, <1>3, ChannelElements

LEMMA CollectMoves ==
  ASSUME PoolInv, Collect
  PROVE  LET r == Head(results)
         IN  /\ r \in Results /\ r = results[1] /\ 1 \in DOMAIN results
             /\ \A i \in DOMAIN results' : \E k \in DOMAIN results : results'[i] = results[k]
             /\ r.suite \in Suites /\ ledger'[r.suite] = Entry(r)
             /\ \A s \in Suites : s # r.suite => ledger'[s] = ledger[s]
<1>1. results \in Seq(Results) /\ results # <<>> /\ results' = Tail(results)
  BY PoolFacts DEF CollectorType, Collect
<1>2. /\ Head(results) = results[1] /\ 1 \in DOMAIN results
      /\ \A i \in DOMAIN results' : \E k \in DOMAIN results : results'[i] = results[k]
  BY <1>1, ChannelElements
<1>3. Head(results) \in Results
  BY <1>1, <1>2
<1>4. Head(results).suite \in Suites
  BY <1>3 DEF Results
<1>5. /\ ledger \in [Suites -> Entries]
      /\ ledger' = [ledger EXCEPT ![Head(results).suite] = Entry(Head(results))]
  BY PoolFacts DEF CollectorType, Collect
<1>6. QED
  BY <1>2, <1>3, <1>4, <1>5

LEMMA FinalNext ==
  ASSUME PoolInv, FailuresAreFinal, [Next]_vars
  PROVE  FailuresAreFinal'
<1> SUFFICES ASSUME ~Async
             PROVE  FailuresAreFinal'
  BY DEF FailuresAreFinal
<1>0. /\ \A w \in Workers : res[w] # None => Final(res[w])
      /\ \A i \in DOMAIN results : Final(results[i])
      /\ \A s \in Suites : ledger[s].status = StateFailed => ledger[s].attempts = Retries + 1
      /\ res \in [Workers -> Results \cup {None}] /\ Retries \in Nat
  BY PoolFacts, PoolAssumption DEF FailuresAreFinal, ClientType
<1>1. ASSUME NEW w \in Workers, StartFails(w) \/ StartAsync(w) \/ PollReturns(w)
      PROVE  FailuresAreFinal'
  <2>1. opts[w] # None /\ opts[w] \in StartOptions /\ UNCHANGED <<results, ledger>>
    BY <1>1, JobStepFrame, CurrentJobFacts DEF StartReturns, collectorVars
  <2>2. PICK j \in Jobs, skipped \in BOOLEAN : AfterRunJob(w, j, skipped)
    BY <1>1, ReturnedJob
  <2>3. Counted(opts[w], j) \in StartOptions
    BY <2>1, CountedType
  <2>4. PICK o : o = Counted(opts[w], j)
    OBVIOUS
  <2>5. \/ UNCHANGED res
        \/ /\ ~ShouldRetry(o, j, skipped)
           /\ res' = [res EXCEPT ![w] = [suite |-> o.suite, job |-> Judged(o, j, skipped),
                                         skipped |-> skipped, attempts |-> o.attempt + 1]]
    BY <2>1, <2>2, <2>4, AfterRunJobResult
  <2>6. \A v \in Workers : res'[v] # None => Final(res'[v])
    <3>1. CASE UNCHANGED res
      BY <1>0, <3>1
    <3>2. CASE ~UNCHANGED res
      BY <1>0, <2>3, <2>4, <2>5, <3>2, SettledIsFinal
    <3>3. QED
      BY <3>1, <3>2
  <2>7. QED
    BY <1>0, <2>1, <2>6 DEF FailuresAreFinal, Final
<1>2. ASSUME NEW w \in Workers, SkipSuite(w)
      PROVE  FailuresAreFinal'
  <2>1. PICK r : /\ r.skipped = TRUE /\ res' = [res EXCEPT ![w] = r]
                 /\ UNCHANGED <<results, ledger>>
    <3>1. [suite |-> Head(jobOpts).suite, job |-> NoJob, skipped |-> TRUE,
           attempts |-> Head(jobOpts).attempt].skipped = TRUE
      OBVIOUS
    <3>2. QED
      BY <1>2, <3>1 DEF SkipSuite, collectorVars
  <2>2. \A v \in Workers : res'[v] # None => Final(res'[v])
    BY <1>0, <2>1 DEF Final
  <2>3. QED
    BY <1>0, <2>1, <2>2 DEF FailuresAreFinal, Final
<1>3. ASSUME NEW w \in Workers, SendResult(w)
      PROVE  FailuresAreFinal'
  <2>1. UNCHANGED ledger
    BY <1>3 DEF SendResult
  <2>2. \A i \in DOMAIN results' : Final(results'[i])
    BY <1>0, <1>3, ResultMoves
  <2>3. \A v \in Workers : res'[v] # None => Final(res'[v])
    BY <1>0, <1>3, ResultMoves
  <2>4. QED
    BY <1>0, <2>1, <2>2, <2>3 DEF FailuresAreFinal, Final
<1>4. CASE Collect
  <2>1. PICK r : r = Head(results)
    OBVIOUS
  <2>2. /\ Final(r) /\ r.suite \in Suites
        /\ ledger'[r.suite] = Entry(r)
        /\ \A s \in Suites : s # r.suite => ledger'[s] = ledger[s]
        /\ \A i \in DOMAIN results' : Final(results'[i])
    BY <1>0, <1>4, <2>1, CollectMoves
  <2>3. Entry(r).status = StateFailed => Entry(r).attempts = Retries + 1
    BY <2>2 DEF Entry, Final, StateFailed
  <2>4. \A s \in Suites : ledger'[s].status = StateFailed => ledger'[s].attempts = Retries + 1
    BY <1>0, <2>2, <2>3
  <2>5. UNCHANGED res
    BY <1>4 DEF Collect, clientVars
  <2>6. QED
    BY <1>0, <2>2, <2>4, <2>5 DEF FailuresAreFinal, Final
<1>5. CASE \/ \E s \in Suites : Feed(s)
           \/ \E w \in Workers : BeginSuite(w) \/ StartPolled(w) \/ JobEnds(w)
           \/ \E o \in retrying : RetrySend(o)
           \/ Return \/ Interrupt \/ Finished \/ UNCHANGED vars
  <2>1. UNCHANGED <<res, results, ledger>>
    BY <1>5 DEF Feed, BeginSuite, StartPolled, JobEnds, RetrySend, Return, Interrupt, Finished,
                vars, clientVars, collectorVars
  <2>2. QED
    BY <1>0, <2>1 DEF FailuresAreFinal, Final
<1>6. QED
  BY <1>1, <1>2, <1>3, <1>4, <1>5 DEF Next, Worker, StartReturns

\* A suite is reported as failed only after all its retries are used up: no
\* earlier failure, timeout or lost poll is the last word.
THEOREM FailureIsFinal == Spec => []FailureAfterAllAttempts
<1>1. Init => FailuresAreFinal
  <2>1. ASSUME Init
        PROVE  FailuresAreFinal
    <3>1. \A w \in Workers : res[w] = None
      BY <2>1 DEF Init
    <3>2. DOMAIN results = {}
      BY <2>1 DEF Init
    <3>3. \A s \in Suites : ledger[s].status # StateFailed
      BY <2>1 DEF Init, StateFailed
    <3>4. QED
      BY <3>1, <3>2, <3>3 DEF FailuresAreFinal
  <2>2. QED
    BY <2>1
<1>2. PoolInv /\ FailuresAreFinal /\ [Next]_vars => FailuresAreFinal'
  BY FinalNext
<1>3. FailuresAreFinal => FailureAfterAllAttempts
  BY DEF FailuresAreFinal, FailureAfterAllAttempts
<1>4. QED
  BY <1>1, <1>2, <1>3, PoolInvariant, PTL DEF Spec

-----------------------------------------------------------------------------
(* Successes                                                               *)

\* A job that has not ended is no success.
LEMMA UnendedFails ==
  ASSUME NEW rdc \in BOOLEAN
  PROVE  ~Successful(rdc, "none") /\ ~Successful(rdc, "running")
BY DEF Successful, IsSuccessful, ParseJob, RDCJob, RestoJob, StatePassed, StateFailed, StateComplete

\* No success is lost from the step to the next.
SuccessesStay ==
  \A s \in Suites, a \in Attempts :
    Successful(RealDevice[s], cloud[s][a]) => Successful(RealDevice[s], cloud'[s][a])

LEMMA SuccessesFinite ==
  ASSUME NEW s, NEW As \in SUBSET Attempts
  PROVE  /\ IsFiniteSet(As) /\ IsFiniteSet(Successes(s, As))
         /\ Cardinality(Successes(s, As)) \in Nat
<1>1. IsFiniteSet(Attempts)
  BY PoolAssumption, FS_Interval DEF Attempts
<1>2. IsFiniteSet(As)
  BY <1>1, FS_Subset
<1>3. Successes(s, As) \in SUBSET As
  BY DEF Successes
<1>4. IsFiniteSet(Successes(s, As))
  BY <1>2, <1>3, FS_Subset
<1>5. QED
  BY <1>2, <1>4, FS_CardinalityType

LEMMA EarlierAttempts ==
  ASSUME NEW a \in Attempts
  PROVE  /\ 0..(a - 1) \in SUBSET Attempts /\ 0..a \in SUBSET Attempts
         /\ 0..a = (0..(a - 1)) \cup {a} /\ a \notin 0..(a - 1)
BY PoolAssumption DEF Attempts

LEMMA MoreSuccesses ==
  ASSUME SuccessesStay, NEW s \in Suites, NEW As \in SUBSET Attempts
  PROVE  Cardinality(Successes(s, As)) <= Cardinality(Successes(s, As)')
<1>1. Successes(s, As) \in SUBSET Successes(s, As)'
  BY DEF Successes, SuccessesStay
<1>2. IsFiniteSet(Successes(s, As)')
  <2>1. Successes(s, As)' \in SUBSET As
    BY DEF Successes
  <2>2. QED
    BY <2>1, SuccessesFinite, FS_Subset
<1>3. QED
  BY <1>1, <1>2, FS_Subset

\* What was earned stays earned.
LEMMA EarnedKept ==
  ASSUME SuccessesStay, NEW o \in StartOptions, Earned(o)
  PROVE  Earned(o)'
<1>1. o.suite \in Suites /\ o.attempt \in Attempts /\ o.passCount \in Nat
  BY DEF StartOptions
<1>2. 0..(o.attempt - 1) \in SUBSET Attempts
  BY <1>1, EarlierAttempts
<1>3. /\ Cardinality(Successes(o.suite, 0..(o.attempt - 1)))
           <= Cardinality(Successes(o.suite, 0..(o.attempt - 1))')
      /\ Cardinality(Successes(o.suite, 0..(o.attempt - 1))) \in Nat
  BY <1>1, <1>2, MoreSuccesses, SuccessesFinite
<1>4. Cardinality(Successes(o.suite, 0..(o.attempt - 1))') \in Nat
  <2>1. Successes(o.suite, 0..(o.attempt - 1))' \in SUBSET (0..(o.attempt - 1))
    BY DEF Successes
  <2>2. QED
    BY <1>2, <2>1, SuccessesFinite, FS_Subset, FS_CardinalityType
<1>5. QED
  BY <1>1, <1>3, <1>4 DEF Earned

LEMMA DeservedKept ==
  ASSUME SuccessesStay, NEW s \in Suites, Deserved(s)
  PROVE  Deserved(s)'
<1>1. /\ Cardinality(Successes(s, Attempts)) <= Cardinality(Successes(s, Attempts)')
      /\ Cardinality(Successes(s, Attempts)) \in Nat
  BY MoreSuccesses, SuccessesFinite
<1>2. Cardinality(Successes(s, Attempts)') \in Nat
  <2>1. Successes(s, Attempts)' \in SUBSET Attempts
    BY DEF Successes
  <2>2. QED
    BY <2>1, SuccessesFinite, FS_Subset, FS_CardinalityType
<1>3. PassThreshold[s] \in Nat
  BY PoolAssumption
<1>4. QED
  BY <1>1, <1>2, <1>3 DEF Deserved

\* A success that is counted is one of the cloud's.
LEMMA CountedIsEarned ==
  ASSUME NEW o \in StartOptions, Earned(o), NEW j \in Jobs,
         IsSuccessful(j) => Successful(RealDevice[o.suite], cloud[o.suite][o.attempt])
  PROVE  Counted(o, j).passCount <= Cardinality(Successes(o.suite, 0..o.attempt))
<1>1. o.suite \in Suites /\ o.attempt \in Attempts /\ o.passCount \in Nat
  BY DEF StartOptions
<1> PICK S, T : /\ S = Successes(o.suite, 0..(o.attempt - 1))
                /\ T = Successes(o.suite, 0..o.attempt)
  OBVIOUS
<1>2. /\ IsFiniteSet(S) /\ Cardinality(S) \in Nat /\ IsFiniteSet(T) /\ Cardinality(T) \in Nat
      /\ S \in SUBSET T /\ o.attempt \notin S /\ o.passCount <= Cardinality(S)
  <2>1. /\ 0..(o.attempt - 1) \in SUBSET Attempts /\ 0..o.attempt \in SUBSET Attempts
        /\ 0..(o.attempt - 1) \subseteq 0..o.attempt /\ o.attempt \notin 0..(o.attempt - 1)
    BY <1>1, EarlierAttempts
  <2>2. IsFiniteSet(S) /\ Cardinality(S) \in Nat /\ IsFiniteSet(T) /\ Cardinality(T) \in Nat
    BY <2>1, SuccessesFinite
  <2>3. S \in SUBSET T /\ o.attempt \notin S
    BY <2>1 DEF Successes
  <2>4. o.passCount <= Cardinality(S)
    BY DEF Earned
  <2>5. QED
    BY <2>2, <2>3, <2>4
<1>3. CASE IsSuccessful(j)
  <2>1. T = S \cup {o.attempt}
    BY <1>1, <1>3, EarlierAttempts DEF Successes
  <2>2. Cardinality(T) = Cardinality(S) + 1
    BY <1>2, <2>1, FS_AddElement
  <2>3. Counted(o, j).passCount = o.passCount + 1
    BY <1>3 DEF Counted, StartOptions
  <2>4. QED
    BY <1>1, <1>2, <2>2, <2>3
<1>4. CASE ~IsSuccessful(j)
  <2>1. Cardinality(S) <= Cardinality(T)
    BY <1>2, FS_Subset
  <2>2. Counted(o, j).passCount = o.passCount
    BY <1>4 DEF Counted
  <2>3. QED
    BY <1>1, <1>2, <2>1, <2>2
<1>5. QED
  BY <1>3, <1>4

\* The cloud never takes a success back: a job is started where there was none,
\* and ends once.
LEMMA SuccessesStayStep ==
  ASSUME PoolInv, AttemptsAreFresh, NEW w \in Workers,
         StartReturns(w) \/ PollReturns(w) \/ JobEnds(w)
  PROVE  SuccessesStay
<1>1. /\ opts[w] # None /\ opts[w].suite \in Suites /\ opts[w].attempt \in Attempts
      /\ \A t \in Suites, b \in Attempts :
           t # opts[w].suite \/ b # opts[w].attempt => cloud'[t][b] = cloud[t][b]
  BY JobStepFrame
<1>2. RealDevice[opts[w].suite] \in BOOLEAN
  BY <1>1, PoolAssumption
<1>3. \/ UNCHANGED cloud
      \/ cloud[opts[w].suite][opts[w].attempt] \in {"none", "running"}
  <2>1. CASE StartReturns(w)
    <3>1. Unstarted(opts[w].suite, opts[w].attempt)
      BY <2>1 DEF StartReturns, StartFails, StartAsync, StartPolled, AttemptsAreFresh
    <3>2. opts[w].attempt >= opts[w].attempt
      BY <1>1, PoolAssumption DEF Attempts
    <3>3. QED
      BY <1>1, <3>1, <3>2 DEF Unstarted
  <2>2. CASE PollReturns(w)
    BY <2>2 DEF PollReturns, PollDone, PollTimeout, PollFails, PollInterrupted, StopJob, cloudVars
  <2>3. CASE JobEnds(w)
    BY <2>3 DEF JobEnds, CloudState, CurrentJob
  <2>4. QED
    BY <2>1, <2>2, <2>3
<1>4. QED
  BY <1>1, <1>2, <1>3, UnendedFails DEF SuccessesStay

\* A job that was polled as a success is one.
LEMMA PolledSuccess ==
  ASSUME PoolInv, NEW w \in Workers, opts[w] # None, IsSuccessful(PolledJob(w))
  PROVE  Successful(RealDevice[opts[w].suite], cloud[opts[w].suite][opts[w].attempt])
<1>1. CloudState(CurrentJob(w)) = cloud[opts[w].suite][opts[w].attempt]
  BY CurrentJobFacts
<1>2. CASE CloudState(CurrentJob(w)) = "running"
  BY <1>2 DEF PolledJob, IsSuccessful, NoJob
<1>3. CASE CloudState(CurrentJob(w)) # "running"
  BY <1>1, <1>3 DEF PolledJob, Successful
<1>4. QED
  BY <1>2, <1>3

-----------------------------------------------------------------------------
(* Pass counts are earned                                                  *)

LEMMA EarnedNext ==
  ASSUME PoolInv, AttemptsAreFresh, PassCountsAreEarned, [Next]_vars
  PROVE  PassCountsAreEarned'
<1>1. /\ jobOpts \in Seq(StartOptions) /\ retrying \subseteq StartOptions
      /\ opts \in [Workers -> StartOptions \cup {None}]
      /\ \A i \in DOMAIN jobOpts : jobOpts[i] \in StartOptions /\ Earned(jobOpts[i])
      /\ \A o \in retrying : Earned(o)
      /\ \A w \in Workers : opts[w] # None => opts[w] \in StartOptions /\ Earned(opts[w])
  BY PoolFacts DEF PassCountsAreEarned, ClientType
<1>2. ASSUME SuccessesStay, NEW o \in StartOptions, Earned(o)
      PROVE  Earned(o)'
  BY <1>2, EarnedKept
<1>3. ASSUME SuccessesStay,
             \A i \in DOMAIN jobOpts' : \/ jobOpts'[i] \in StartOptions /\ jobOpts'[i].passCount = 0
                                        \/ \E k \in DOMAIN jobOpts : jobOpts'[i] = jobOpts[k]
                                        \/ jobOpts'[i] \in retrying,
             \A v \in Workers : opts'[v] # None =>
               opts'[v] = opts[v] \/ \E k \in DOMAIN jobOpts : opts'[v] = jobOpts[k],
             \A o \in retrying' : o \in retrying \/ Earned(o)'
      PROVE  PassCountsAreEarned'
  <2>1. (\A i \in DOMAIN jobOpts : Earned(jobOpts[i]))'
    <3>1. SUFFICES ASSUME NEW i \in DOMAIN jobOpts'
                   PROVE  Earned(jobOpts[i])'
      OBVIOUS
    <3>2. PICK o \in StartOptions : o = jobOpts'[i] /\ (o.passCount = 0 \/ Earned(o))
      BY <1>1, <1>3
    <3>3. Earned(o)'
      <4>1. CASE Earned(o)
        BY <1>2, <1>3, <4>1
      <4>2. CASE o.passCount = 0
        <5>1. 0..(o.attempt - 1) \in SUBSET Attempts /\ o.suite \in Suites
          BY EarlierAttempts DEF StartOptions
        <5>2. /\ Cardinality(Successes(o.suite, 0..(o.attempt - 1)))
                   <= Cardinality(Successes(o.suite, 0..(o.attempt - 1))')
              /\ Cardinality(Successes(o.suite, 0..(o.attempt - 1))) \in Nat
          BY <1>3, <5>1, MoreSuccesses, SuccessesFinite
        <5>3. Earned(o)
          BY <4>2, <5>2 DEF Earned
        <5>4. QED
          BY <1>2, <1>3, <5>3
      <4>3. QED
        BY <3>2, <4>1, <4>2
    <3>4. QED
      BY <3>2, <3>3 DEF Earned, Successes
  <2>2. (\A v \in Workers : opts[v] # None => Earned(opts[v]))'
    <3>1. SUFFICES ASSUME NEW v \in Workers, opts'[v] # None
                   PROVE  Earned(opts[v])'
      OBVIOUS
    <3>2. PICK o \in StartOptions : o = opts'[v] /\ Earned(o)
      BY <1>1, <1>3, <3>1
    <3>3. Earned(o)'
      BY <1>2, <1>3, <3>2
    <3>4. QED
      BY <3>2, <3>3 DEF Earned, Successes
  <2>3. (\A o \in retrying : Earned(o))'
    <3>1. SUFFICES ASSUME NEW o \in retrying'
                   PROVE  Earned(o)'
      OBVIOUS
    <3>2. CASE o \in retrying
      BY <1>1, <1>2, <1>3, <3>2
    <3>3. QED
      BY <1>3, <3>1, <3>2
  <2>4. QED
    BY <2>1, <2>2, <2>3 DEF PassCountsAreEarned
<1>4. ASSUME UNCHANGED cloud
      PROVE  SuccessesStay
  BY <1>4 DEF SuccessesStay
<1>5. ASSUME NEW w \in Workers, StartFails(w) \/ StartAsync(w) \/ PollReturns(w)
      PROVE  PassCountsAreEarned'
  <2>1. SuccessesStay
    BY <1>5, SuccessesStayStep DEF StartReturns
  <2>2. opts[w] # None /\ opts[w] \in StartOptions /\ Earned(opts[w])
    BY <1>1, <1>5, JobStepFrame DEF StartReturns
  <2>3. PICK j \in Jobs, skipped \in BOOLEAN :
          /\ AfterRunJob(w, j, skipped)
          /\ IsSuccessful(j) => IsSuccessful(PolledJob(w))
    BY <1>5, ReturnedJob
  <2>4. PICK o : o = Counted(opts[w], j)
    OBVIOUS
  <2>5. /\ opts' = [opts EXCEPT ![w] = None] /\ UNCHANGED jobOpts
        /\ retrying' = retrying \cup {NextAttempt(o)} \/ UNCHANGED retrying
    BY <2>2, <2>3, <2>4, AfterRunJobResult
  <2>6. /\ o \in StartOptions /\ o.suite = opts[w].suite /\ o.attempt = opts[w].attempt
        /\ o.suite \in Suites /\ o.attempt \in Attempts /\ o.passCount \in Nat
    BY <2>2, <2>4, CountedType DEF StartOptions
  <2>7. o.passCount <= Cardinality(Successes(o.suite, 0..o.attempt))
    BY <2>2, <2>3, <2>4, <2>6, PolledSuccess, CountedIsEarned
  <2>8. Earned(NextAttempt(o))'
    <3>1. PICK n : n = NextAttempt(o)
      OBVIOUS
    <3>2. /\ n.suite = o.suite /\ n.passCount = o.passCount /\ n.attempt - 1 = o.attempt
      BY <2>6, <3>1, PoolAssumption DEF NextAttempt, StartOptions, Attempts
    <3>3. 0..o.attempt \in SUBSET Attempts
      BY <2>6, EarlierAttempts
    <3>4. /\ Cardinality(Successes(o.suite, 0..o.attempt))
               <= Cardinality(Successes(o.suite, 0..o.attempt)')
          /\ Cardinality(Successes(o.suite, 0..o.attempt)) \in Nat
      BY <2>1, <2>6, <3>3, MoreSuccesses, SuccessesFinite
    <3>5. Cardinality(Successes(o.suite, 0..o.attempt)') \in Nat
      <4>1. Successes(o.suite, 0..o.attempt)' \in SUBSET (0..o.attempt)
        BY DEF Successes
      <4>2. QED
        BY <3>3, <4>1, SuccessesFinite, FS_Subset, FS_CardinalityType
    <3>6. o.passCount <= Cardinality(Successes(o.suite, 0..o.attempt)')
      BY <2>6, <2>7, <3>4, <3>5
    <3>7. Earned(n)'
      BY <3>2, <3>6 DEF Earned
    <3>8. QED
      BY <3>1, <3>7
  <2>9. QED
    BY <1>1, <1>3, <2>1, <2>5, <2>8
<1>6. ASSUME NEW w \in Workers, StartPolled(w) \/ JobEnds(w)
      PROVE  PassCountsAreEarned'
  <2>1. SuccessesStay
    BY <1>6, SuccessesStayStep DEF StartReturns
  <2>2. UNCHANGED <<jobOpts, retrying, opts>>
    BY <1>6 DEF StartPolled, JobEnds, clientVars
  <2>3. QED
    BY <1>1, <1>3, <2>1, <2>2
<1>7. ASSUME NEW s \in Suites, Feed(s)
      PROVE  PassCountsAreEarned'
  <2>1. PICK e : e = [suite |-> s, attempt |-> 0, passCount |-> 0]
    OBVIOUS
  <2>2. e \in StartOptions /\ e.passCount = 0
    BY <2>1, PoolAssumption DEF StartOptions, Attempts
  <2>3. jobOpts' = Append(jobOpts, e) /\ UNCHANGED <<retrying, opts, cloud>>
    BY <1>7, <2>1 DEF Feed, cloudVars
  <2>4. \A i \in DOMAIN jobOpts' : jobOpts'[i] = e \/ \E k \in DOMAIN jobOpts : jobOpts'[i] = jobOpts[k]
    BY <1>1, <2>2, <2>3, ChannelElements
  <2>5. QED
    BY <1>3, <1>4, <2>2, <2>3, <2>4
<1>8. ASSUME NEW o \in retrying, RetrySend(o)
      PROVE  PassCountsAreEarned'
  <2>1. /\ jobOpts' = Append(jobOpts, o) /\ retrying' = retrying \ {o}
        /\ UNCHANGED <<opts, cloud>>
    BY <1>8 DEF RetrySend, cloudVars
  <2>2. o \in StartOptions
    BY <1>1
  <2>3. \A i \in DOMAIN jobOpts' : jobOpts'[i] = o \/ \E k \in DOMAIN jobOpts : jobOpts'[i] = jobOpts[k]
    BY <1>1, <2>1, <2>2, ChannelElements
  <2>4. QED
    BY <1>3, <1>4, <2>1, <2>3
<1>9. ASSUME NEW w \in Workers, SkipSuite(w) \/ BeginSuite(w)
      PROVE  PassCountsAreEarned'
  <2>1. /\ jobOpts # <<>> /\ jobOpts' = Tail(jobOpts) /\ UNCHANGED <<retrying, cloud>>
        /\ UNCHANGED opts \/ opts' = [opts EXCEPT ![w] = Head(jobOpts)]
    BY <1>9 DEF SkipSuite, BeginSuite, cloudVars
  <2>2. /\ Head(jobOpts) = jobOpts[1] /\ 1 \in DOMAIN jobOpts
        /\ \A i \in DOMAIN jobOpts' : \E k \in DOMAIN jobOpts : jobOpts'[i] = jobOpts[k]
    BY <1>1, <2>1, ChannelElements
  <2>3. QED
    BY <1>1, <1>3, <1>4, <2>1, <2>2
<1>10. CASE \/ \E w \in Workers : SendResult(w)
            \/ Collect \/ Return \/ Interrupt \/ Finished \/ UNCHANGED vars
  <2>1. UNCHANGED <<jobOpts, retrying, opts, cloud>>
    BY <1>10 DEF SendResult, Collect, Return, Interrupt, Finished, vars, clientVars, cloudVars
  <2>2. QED
    BY <1>1, <1>3, <1>4, <2>1
<1>11. QED
  BY <1>5, <1>6, <1>7, <1>8, <1>9, <1>10 DEF Next, Worker, StartReturns

-----------------------------------------------------------------------------
(* Results are sound                                                       *)

\* An interrupt is never taken back.
LEMMA CancelledStays ==
  ASSUME [Next]_vars, cancelled
  PROVE  cancelled'
<1>1. ASSUME NEW w \in Workers, Worker(w)
      PROVE  UNCHANGED cancelled
  BY <1>1 DEF Worker, SkipSuite, BeginSuite, StartReturns, StartFails, StartAsync, StartPolled,
              PollReturns, PollDone, PollTimeout, PollFails, PollInterrupted, SendResult
<1>2. QED
  BY <1>1 DEF Next, Feed, RetrySend, Collect, Return, Interrupt, JobEnds, Finished, vars

LEMMA SoundKept ==
  ASSUME SuccessesStay, NEW r \in Results, Sound(r)
  PROVE  Sound(r)'
<1>1. r.suite \in Suites
  BY DEF Results
<1>2. QED
  BY <1>1, DeservedKept DEF Sound

LEMMA SoundNext ==
  ASSUME PoolInv, AttemptsAreFresh, PassCountsAreEarned, ResultsAreSound, [Next]_vars
  PROVE  ResultsAreSound'
<1> SUFFICES ASSUME Undisturbed'
             PROVE  ResultsAreSound'
  BY DEF ResultsAreSound
<1>1. Undisturbed
  BY CancelledStays DEF Undisturbed
<1>2. /\ res \in [Workers -> Results \cup {None}] /\ results \in Seq(Results)
      /\ skipStart \in [Workers -> BOOLEAN]
      /\ \A w \in Workers : ~skipStart[w]
      /\ \A w \in Workers : res[w] # None => res[w] \in Results /\ Sound(res[w])
      /\ \A i \in DOMAIN results : results[i] \in Results /\ Sound(results[i])
      /\ passed => \A s \in Reported : Deserved(s)
      /\ Reported \subseteq Suites
  BY <1>1, PoolFacts DEF ResultsAreSound, ClientType, CollectorType, Reported
<1>3. ASSUME SuccessesStay,
             \A w \in Workers : ~skipStart'[w],
             \A w \in Workers : res'[w] # None =>
               \E r \in Results : res'[w] = r /\ (Sound(r) \/ Sound(r)'),
             \A i \in DOMAIN results' :
               \E r \in Results : results'[i] = r /\ Sound(r),
             passed' => \A s \in Reported' : s \in Suites /\ Deserved(s)
      PROVE  ResultsAreSound'
  <2>1. (\A w \in Workers : res[w] # None => Sound(res[w]))'
    <3>1. SUFFICES ASSUME NEW w \in Workers, res'[w] # None
                   PROVE  Sound(res[w])'
      OBVIOUS
    <3>2. PICK r \in Results : res'[w] = r /\ (Sound(r) \/ Sound(r)')
      BY <1>3, <3>1
    <3>3. Sound(r)'
      BY <1>3, <3>2, SoundKept
    <3>4. QED
      BY <3>2, <3>3 DEF Sound, Deserved, Successes
  <2>2. (\A i \in DOMAIN results : Sound(results[i]))'
    <3>1. SUFFICES ASSUME NEW i \in DOMAIN results'
                   PROVE  Sound(results[i])'
      OBVIOUS
    <3>2. PICK r \in Results : results'[i] = r /\ Sound(r)
      BY <1>3, <3>1
    <3>3. Sound(r)'
      BY <1>3, <3>2, SoundKept
    <3>4. QED
      BY <3>2, <3>3 DEF Sound, Deserved, Successes
  <2>3. (passed => \A s \in Reported : Deserved(s))'
    <3>1. SUFFICES ASSUME passed', NEW s \in Reported'
                   PROVE  Deserved(s)'
      OBVIOUS
    <3>2. QED
      BY <1>3, <3>1, DeservedKept
  <2>4. QED
    BY <1>3, <2>1, <2>2, <2>3 DEF ResultsAreSound
<1>4. ASSUME UNCHANGED cloud
      PROVE  SuccessesStay
  BY <1>4 DEF SuccessesStay
<1>5. ASSUME NEW w \in Workers, StartFails(w) \/ StartAsync(w) \/ PollReturns(w)
      PROVE  ResultsAreSound'
  <2>1. SuccessesStay
    BY <1>5, SuccessesStayStep DEF StartReturns
  <2>2. opts[w] # None /\ opts[w] \in StartOptions /\ Earned(opts[w])
    BY <1>5, JobStepFrame, CurrentJobFacts DEF StartReturns, PassCountsAreEarned
  <2>3. PICK j \in Jobs, skipped \in BOOLEAN :
          /\ AfterRunJob(w, j, skipped)
          /\ skipped => cancelled
          /\ IsSuccessful(j) => IsSuccessful(PolledJob(w))
    BY <1>5, ReturnedJob
  <2>4. PICK o : o = Counted(opts[w], j)
    OBVIOUS
  <2>5. ~skipped /\ ~Async /\ ~FailFast
    BY <1>1, <2>3 DEF Undisturbed
  <2>6. PICK r : r = [suite |-> o.suite, job |-> Judged(o, j, skipped), skipped |-> skipped,
                      attempts |-> o.attempt + 1]
    OBVIOUS
  <2>7. \/ UNCHANGED <<res, skipStart>>
        \/ /\ res' = [res EXCEPT ![w] = r]
           /\ skipStart' = [skipStart EXCEPT ![w] = @ \/ (FailFast /\ ~j.passed)]
    BY <2>2, <2>3, <2>4, <2>6, AfterRunJobResult
  <2>8. \A v \in Workers : ~skipStart'[v]
    BY <1>2, <2>5, <2>7
  <2>9. /\ o \in StartOptions /\ o.suite = opts[w].suite /\ o.attempt = opts[w].attempt
        /\ o.suite \in Suites /\ o.attempt \in Attempts /\ o.passCount \in Nat
    BY <2>2, <2>4, CountedType DEF StartOptions
  <2>10. r \in Results
    <3>1. Judged(o, j, skipped) \in Jobs
      BY <2>9, JudgedType
    <3>2. o.attempt + 1 \in 0..(Retries + 1)
      BY <2>9, PoolAssumption DEF Attempts
    <3>3. QED
      BY <2>6, <2>9, <3>1, <3>2 DEF Results
  <2>11. Sound(r)
    <3>1. /\ ~r.skipped /\ Done(r.job.status)
          /\ r.job.passed => ~BelowThreshold(o)
      BY <2>5, <2>6 DEF Judged, Jobs, Done, DoneStates
    <3>2. ASSUME ~BelowThreshold(o)
          PROVE  Deserved(o.suite)
      <4>1. o.passCount <= Cardinality(Successes(o.suite, 0..o.attempt))
        BY <2>2, <2>3, <2>4, <2>9, PolledSuccess, CountedIsEarned
      <4>2. /\ Cardinality(Successes(o.suite, 0..o.attempt))
                 <= Cardinality(Successes(o.suite, Attempts))
            /\ Cardinality(Successes(o.suite, 0..o.attempt)) \in Nat
            /\ Cardinality(Successes(o.suite, Attempts)) \in Nat
        <5>1. 0..o.attempt \in SUBSET Attempts
          BY <2>9, EarlierAttempts
        <5>2. Successes(o.suite, 0..o.attempt) \in SUBSET Successes(o.suite, Attempts)
          BY <5>1 DEF Successes
        <5>3. IsFiniteSet(Successes(o.suite, Attempts))
          BY SuccessesFinite
        <5>4. QED
          BY <5>1, <5>2, <5>3, SuccessesFinite, FS_Subset
      <4>3. PassThreshold[o.suite] \in Nat /\ o.passCount >= PassThreshold[o.suite]
        BY <2>9, <3>2, PoolAssumption DEF BelowThreshold
      <4>4. QED
        BY <2>9, <4>1, <4>2, <4>3 DEF Deserved
    <3>3. QED
      BY <2>6, <3>1, <3>2 DEF Sound
  <2>12. \A v \in Workers : res'[v] # None => \E q \in Results : res'[v] = q /\ Sound(q)
    BY <1>2, <2>7, <2>10, <2>11
  <2>13. UNCHANGED <<results, ledger, passed>> /\ UNCHANGED Reported
    BY <1>5, JobStepFrame DEF StartReturns, collectorVars, Reported
  <2>14. QED
    BY <1>2, <1>3, <2>1, <2>8, <2>12, <2>13
<1>6. CASE \/ \E w \in Workers : BeginSuite(w) \/ StartPolled(w) \/ JobEnds(w)
           \/ \E s \in Suites : Feed(s)
           \/ \E o \in retrying : RetrySend(o)
           \/ Return \/ Interrupt \/ Finished \/ UNCHANGED vars
  <2>1. UNCHANGED <<res, skipStart, results, ledger, passed>>
    BY <1>6 DEF BeginSuite, StartPolled, JobEnds, Feed, RetrySend, Return, Interrupt, Finished,
                vars, clientVars, collectorVars
  <2>2. UNCHANGED Reported
    BY <2>1 DEF Reported
  <2>3. SuccessesStay
    <3>1. CASE \E w \in Workers : StartPolled(w) \/ JobEnds(w)
      BY <3>1, SuccessesStayStep DEF StartReturns
    <3>2. CASE UNCHANGED cloud
      BY <1>4, <3>2
    <3>3. QED
      BY <1>6, <3>1, <3>2 DEF BeginSuite, Feed, RetrySend, Return, Interrupt, Finished, vars,
                              cloudVars
  <2>4. QED
    BY <1>2, <1>3, <2>1, <2>2, <2>3
<1>7. ASSUME NEW w \in Workers, SkipSuite(w)
      PROVE  FALSE
  BY <1>1, <1>2, <1>7 DEF SkipSuite, Undisturbed
<1>8. ASSUME NEW w \in Workers, SendResult(w)
      PROVE  ResultsAreSound'
  <2>1. UNCHANGED <<skipStart, ledger, passed, cloud>> /\ UNCHANGED Reported
    BY <1>8 DEF SendResult, cloudVars, Reported
  <2>2. /\ res[w] \in Results /\ Sound(res[w])
        /\ \A v \in Workers : res'[v] # None => res'[v] = res[v]
        /\ \A i \in DOMAIN results' :
             results'[i] = res[w] \/ \E k \in DOMAIN results : results'[i] = results[k]
    BY <1>2, <1>8, ResultMoves
  <2>3. QED
    BY <1>2, <1>3, <1>4, <2>1, <2>2
<1>9. CASE Collect
  <2>1. PICK r : r = Head(results)
    OBVIOUS
  <2>2. /\ r \in Results /\ Sound(r) /\ r.suite \in Suites
        /\ \A i \in DOMAIN results' : \E k \in DOMAIN results : results'[i] = results[k]
        /\ \A s \in Suites : s # r.suite => ledger'[s] = ledger[s]
    BY <1>2, <1>9, <2>1, CollectMoves
  <2>3. /\ UNCHANGED <<res, skipStart, cloud>>
        /\ passed' = (passed /\ ~(Done(r.job.status) /\ ~r.job.passed))
    BY <1>9, <2>1 DEF Collect, clientVars, cloudVars
  <2>4. Reported' \subseteq Reported \cup {r.suite}
    BY <2>2 DEF Reported
  <2>5. passed' => \A s \in Reported' : s \in Suites /\ Deserved(s)
    BY <1>2, <2>2, <2>3, <2>4 DEF Sound
  <2>6. QED
    BY <1>2, <1>3, <1>4, <2>2, <2>3, <2>5
<1>10. QED
  BY <1>5, <1>6, <1>7, <1>8, <1>9 DEF Next, Worker, StartReturns

\* A run that was neither interrupted nor cut short passes only if every suite
\* has as many jobs the cloud ended successfully as its threshold asks for.
THEOREM PassesAreEarned == Spec => []PassIsEarned
<1>1. ASSUME Init
      PROVE  PassCountsAreEarned /\ ResultsAreSound
  <2>1. /\ DOMAIN jobOpts = {} /\ retrying = {} /\ \A w \in Workers : opts[w] = None
        /\ DOMAIN results = {} /\ \A w \in Workers : ~skipStart[w] /\ res[w] = None
        /\ Reported = {}
    BY <1>1 DEF Init, Reported
  <2>2. QED
    BY <2>1 DEF PassCountsAreEarned, ResultsAreSound
<1>2. ASSUME PoolInv, AttemptsAreFresh, PassCountsAreEarned, ResultsAreSound, [Next]_vars
      PROVE  PassCountsAreEarned' /\ ResultsAreSound'
  BY <1>2, EarnedNext, SoundNext
<1>3. ASSUME PoolInv, ResultsAreSound
      PROVE  PassIsEarned
  <2>1. ASSUME returned, Expected = Cardinality(Suites)
        PROVE  Reported = Suites
    BY <1>3, <2>1, AllReported, PoolFacts DEF Tally
  <2>2. QED
    BY <1>3, <2>1 DEF PassIsEarned, ResultsAreSound, Undisturbed, Deserved
<1>4. Init => PassCountsAreEarned /\ ResultsAreSound
  BY <1>1
<1>5. PoolInv /\ AttemptsAreFresh /\ PassCountsAreEarned /\ ResultsAreSound /\ [Next]_vars
        => PassCountsAreEarned' /\ ResultsAreSound'
  BY <1>2
<1>6. PoolInv /\ ResultsAreSound => PassIsEarned
  BY <1>3
<1>7. QED
  BY <1>4, <1>5, <1>6, PoolInvariant, NoAttemptTwice, PTL DEF Spec

-----------------------------------------------------------------------------
(* No attempt is needless                                                  *)

\* The successes the client saw to their end.
Seen(s, As) == {b \in Successes(s, As) : <<s, b>> \notin stopped \cup abandoned \cup orphaned}

\* Options in flight still lack a success, and no success that was seen is
\* missing from their count.
Wanting(o) ==
  PassThreshold[o.suite] > 0 =>
    /\ o.passCount < PassThreshold[o.suite]
    /\ Cardinality(Seen(o.suite, 0..(o.attempt - 1))) <= o.passCount

OptionsAreWanting ==
  /\ \A i \in DOMAIN jobOpts : Wanting(jobOpts[i])
  /\ \A o \in retrying : Wanting(o)
  /\ \A w \in Workers : opts[w] # None => Wanting(opts[w])

LEMMA SeenFinite ==
  ASSUME NEW s, NEW As \in SUBSET Attempts
  PROVE  IsFiniteSet(Seen(s, As)) /\ Cardinality(Seen(s, As)) \in Nat
<1>1. Seen(s, As) \in SUBSET Successes(s, As)
  BY DEF Seen
<1>2. QED
  BY <1>1, SuccessesFinite, FS_Subset, FS_CardinalityType

\* Nothing is unstopped, found again or learned of later.
FatesStay ==
  stopped \subseteq stopped' /\ abandoned \subseteq abandoned' /\ orphaned \subseteq orphaned'

\* No job but attempt a's of suite s changes.
OnlyChanges(s, a) ==
  \A t \in Suites, b \in Attempts : t # s \/ b # a => cloud'[t][b] = cloud[t][b]

\* A change of one job in the cloud adds to no seen successes but its own.
LEMMA SeenKept ==
  ASSUME FatesStay, NEW s, NEW a,
         OnlyChanges(s, a),
         NEW t \in Suites, NEW As \in SUBSET Attempts, t # s \/ a \notin As
  PROVE  Cardinality(Seen(t, As)') <= Cardinality(Seen(t, As)) /\ Cardinality(Seen(t, As)') \in Nat
<1>1. Seen(t, As)' \in SUBSET Seen(t, As)
  BY DEF Seen, Successes, FatesStay, OnlyChanges
<1>2. QED
  BY <1>1, SeenFinite, FS_Subset, FS_CardinalityType

LEMMA WantingKept ==
  ASSUME FatesStay, NEW s, NEW a,
         OnlyChanges(s, a),
         NEW o \in StartOptions, Wanting(o), o.suite # s \/ o.attempt = a
  PROVE  Wanting(o)'
<1>1. o.suite \in Suites /\ o.attempt \in Attempts /\ o.passCount \in Nat
  BY DEF StartOptions
<1> PICK r, As : r = o.suite /\ As = 0..(o.attempt - 1)
  OBVIOUS
<1>2. r \in Suites /\ As \in SUBSET Attempts /\ (r # s \/ a \notin As)
  BY <1>1, EarlierAttempts
<1>3. /\ Cardinality(Seen(r, As)') <= Cardinality(Seen(r, As))
      /\ Cardinality(Seen(r, As)') \in Nat
  <2>1. \A t \in Suites, Bs \in SUBSET Attempts :
          t # s \/ a \notin Bs => /\ Cardinality(Seen(t, Bs)') <= Cardinality(Seen(t, Bs))
                                  /\ Cardinality(Seen(t, Bs)') \in Nat
    BY SeenKept
  <2>2. QED
    BY <1>2, <2>1
<1>4. Cardinality(Seen(r, As)) \in Nat
  BY <1>2, SeenFinite
<1>5. QED
  BY <1>1, <1>3, <1>4 DEF Wanting

\* A seen success is counted: whatever else ends an attempt leaves its job
\* stopped, abandoned or unfinished.
LEMMA SeenIsCounted ==
  ASSUME PoolInv, AttemptsAreFresh, NEW w \in Workers,
         StartFails(w) \/ StartAsync(w) \/ PollReturns(w),
         NEW s, s = opts[w].suite, NEW a, a = opts[w].attempt
  PROVE  \E j \in Jobs, skipped \in BOOLEAN :
           /\ AfterRunJob(w, j, skipped)
           /\ a \in Seen(s, Attempts)' => IsSuccessful(j)
<1>1. /\ opts[w] # None /\ s \in Suites /\ a \in Attempts
      /\ CurrentJob(w) = <<s, a>> /\ CloudState(CurrentJob(w)) = cloud[s][a]
      /\ CloudType /\ RealDevice[s] \in BOOLEAN
  BY JobStepFrame, CurrentJobFacts, PoolFacts, PoolAssumption DEF StartReturns, CurrentJob
<1>2. PICK j \in Jobs, skipped \in BOOLEAN : AfterRunJob(w, j, skipped)
  BY ReturnedJob
<1>3. "running" \in CloudStates \ {"none"}
  BY DEF CloudStates
<1>4. ASSUME SetCloud(CurrentJob(w), "running")
      PROVE  a \notin Seen(s, Attempts)'
  <2>1. cloud'[s][a] = "running"
    BY <1>1, <1>3, <1>4, SetCloudFacts
  <2>2. QED
    BY <1>1, <2>1, UnendedFails DEF Seen, Successes
<1>5. CASE StartAsync(w)
  <2>1. a \notin Seen(s, Attempts)'
    BY <1>4, <1>5 DEF StartAsync
  <2>2. QED
    BY <1>2, <2>1
<1>6. CASE PollDone(w)
  <2>1. FALSE \in BOOLEAN /\ PolledJob(w) \in Jobs
    <3>1. TypeOK /\ pc[w] = "polling" /\ CloudState(CurrentJob(w)) # "none"
      BY <1>6, PoolFacts DEF PoolInv, PollDone, WorkerState
    <3>2. QED
      BY <1>1, <3>1, PolledJobType
  <2>2. /\ AfterRunJob(w, PolledJob(w), FALSE) /\ UNCHANGED cloud
        /\ CloudState(CurrentJob(w)) # "running"
    BY <1>6 DEF PollDone, cloudVars
  <2>3. PolledJob(w) = ParseJob(RealDevice[s], cloud[s][a])
    BY <1>1, <2>2 DEF PolledJob
  <2>4. a \in Seen(s, Attempts)' => IsSuccessful(PolledJob(w))
    BY <1>1, <2>2, <2>3 DEF Seen, Successes, Successful
  <2>5. QED
    BY <2>1, <2>2, <2>4
<1>7. CASE PollTimeout(w) \/ PollFails(w) \/ PollInterrupted(w)
  <2>1. <<s, a>> \in stopped' \cup abandoned'
    BY <1>1, <1>7 DEF PollTimeout, PollFails, PollInterrupted, StopJob
  <2>2. a \notin Seen(s, Attempts)'
    BY <2>1 DEF Seen
  <2>3. QED
    BY <1>2, <2>2
<1>8. CASE StartFails(w)
  <2>1. a \notin Seen(s, Attempts)'
    <3>1. CASE SetCloud(CurrentJob(w), "running")
      BY <1>4, <3>1
    <3>2. CASE UNCHANGED cloudVars
      <4>1. pc[w] = "starting" /\ a >= a
        BY <1>1, <1>8, PoolAssumption DEF StartFails, Attempts
      <4>2. cloud'[s][a] = "none"
        BY <1>1, <3>2, <4>1 DEF cloudVars, AttemptsAreFresh, Unstarted
      <4>3. QED
        BY <1>1, <4>2, UnendedFails DEF Seen, Successes
    <3>3. QED
      BY <1>8, <3>1, <3>2 DEF StartFails
  <2>2. QED
    BY <1>2, <2>1
<1>9. QED
  BY <1>5, <1>6, <1>7, <1>8 DEF PollReturns

\* The options of the next attempt lack a success: a failed attempt adds none, and
\* one that succeeded is retried only below the threshold.
LEMMA NextIsWanting ==
  ASSUME PoolInv, AttemptsAreFresh, OptionsAreWanting, FatesStay, NEW w \in Workers,
         StartFails(w) \/ StartAsync(w) \/ PollReturns(w),
         NEW o \in retrying', o \notin retrying
  PROVE  Wanting(o)'
<1> PICK s, a, p : s = opts[w].suite /\ a = opts[w].attempt /\ p = opts[w].passCount
  OBVIOUS
<1>1. /\ opts[w] # None /\ opts[w] \in StartOptions /\ Wanting(opts[w])
      /\ s \in Suites /\ a \in Attempts /\ p \in Nat
      /\ OnlyChanges(s, a)
  BY JobStepFrame, CurrentJobFacts DEF StartReturns, StartOptions, OptionsAreWanting, OnlyChanges
<1>2. PICK j \in Jobs, skipped \in BOOLEAN :
        AfterRunJob(w, j, skipped) /\ (a \in Seen(s, Attempts)' => IsSuccessful(j))
  BY SeenIsCounted
<1>3. PICK c : c = Counted(opts[w], j)
  OBVIOUS
<1>4. /\ c \in StartOptions /\ c.suite = s /\ c.attempt = a
      /\ c.passCount = IF IsSuccessful(j) THEN p + 1 ELSE p
  BY <1>1, <1>3, CountedType DEF Counted, StartOptions
<1>5. ShouldRetry(c, j, skipped) /\ o = NextAttempt(c)
  BY <1>1, <1>2, <1>3, AfterRunJobResult
<1>6. o.suite = s /\ o.attempt - 1 = a /\ o.passCount = c.passCount
  BY <1>1, <1>4, <1>5, PoolAssumption DEF NextAttempt, StartOptions, Attempts
<1>7. ASSUME PassThreshold[s] > 0
      PROVE  c.passCount < PassThreshold[s] /\ Cardinality(Seen(s, 0..a)') <= c.passCount
  <2> PICK As, Bs : As = 0..(a - 1) /\ Bs = 0..a
    OBVIOUS
  <2>1. As \in SUBSET Attempts /\ Bs \in SUBSET Attempts /\ Bs = As \cup {a} /\ a \notin As
    BY <1>1, EarlierAttempts
  <2>2. p < PassThreshold[s] /\ Cardinality(Seen(s, As)) <= p
    BY <1>1, <1>7 DEF Wanting
  <2>3. /\ Cardinality(Seen(s, As)') <= Cardinality(Seen(s, As))
        /\ Cardinality(Seen(s, As)') \in Nat /\ Cardinality(Seen(s, As)) \in Nat
    <3>1. Cardinality(Seen(s, As)) \in Nat
      BY <2>1, SeenFinite
    <3>2. QED
      BY <1>1, <2>1, <3>1, SeenKept
  <2>4. c.passCount < PassThreshold[s]
    BY <1>4, <1>5, <2>2 DEF ShouldRetry, ShouldRetryJob, BelowThreshold
  <2>5. CASE a \in Seen(s, Attempts)'
    <3>1. Seen(s, Bs)' = Seen(s, As)' \cup {a} /\ a \notin Seen(s, As)'
      BY <1>1, <2>1, <2>5 DEF Seen, Successes
    <3>2. IsFiniteSet(Seen(s, As)')
      <4>1. IsFiniteSet(As) /\ Seen(s, As)' \in SUBSET As
        BY <2>1, SuccessesFinite DEF Seen, Successes
      <4>2. QED
        BY <4>1, FS_Subset
    <3>3. Cardinality(Seen(s, Bs)') = Cardinality(Seen(s, As)') + 1
      BY <3>1, <3>2, FS_AddElement
    <3>4. Cardinality(Seen(s, Bs)') <= p + 1
      BY <1>1, <2>2, <2>3, <3>3
    <3>5. QED
      BY <1>2, <1>4, <2>4, <2>5, <3>4
  <2>6. CASE a \notin Seen(s, Attempts)'
    <3>1. Seen(s, Bs)' = Seen(s, As)'
      BY <2>1, <2>6 DEF Seen, Successes
    <3>2. Cardinality(Seen(s, Bs)') <= p
      BY <1>1, <2>2, <2>3, <3>1
    <3>3. Cardinality(Seen(s, Bs)') \in Nat
      BY <2>3, <3>1
    <3>4. QED
      BY <1>1, <1>4, <2>4, <3>2, <3>3
  <2>7. QED
    BY <2>5, <2>6
<1>8. QED
  BY <1>6, <1>7 DEF Wanting

\* NoNeedlessAttempt, of one attempt.
Needed(t, b) ==
  cloud[t][b] # "none" /\ PassThreshold[t] > 0 =>
    Cardinality(Seen(t, 0..(b - 1))) < PassThreshold[t]

LEMMA NeedlessParts ==
  /\ NoNeedlessAttempt <=> \A t \in Suites, b \in Attempts : Needed(t, b)
  /\ NoNeedlessAttempt' <=> \A t \in Suites, b \in Attempts : Needed(t, b)'
BY DEF NoNeedlessAttempt, Needed, Seen

\* A step of a worker that deals with attempt a of suite s.
LEMMA NeedfulWorkerStep ==
  ASSUME PoolInv, AttemptsAreFresh, OptionsAreWanting, NoNeedlessAttempt, FatesStay,
         NEW w \in Workers, opts[w] # None,
         NEW s \in Suites, s = opts[w].suite, NEW a \in Attempts, a = opts[w].attempt,
         OnlyChanges(s, a),
         UNCHANGED jobOpts,
         \A o \in retrying' : o \in retrying \/ Wanting(o)',
         \A v \in Workers : v # w => opts'[v] = opts[v],
         opts'[w] = None \/ opts'[w] = opts[w]
  PROVE  OptionsAreWanting' /\ NoNeedlessAttempt'
<1>1. s \in Running /\ opts[w] \in StartOptions /\ Wanting(opts[w])
  BY CurrentJobFacts DEF Running, OptionsAreWanting
<1>2. ASSUME NEW o \in StartOptions, Wanting(o), o.suite # s \/ o.attempt = a
      PROVE  Wanting(o)'
  BY <1>2, WantingKept
<1>3. ASSUME NEW i \in DOMAIN jobOpts'
      PROVE  Wanting(jobOpts[i])'
  <2>1. PICK o : o = jobOpts[i] /\ o = jobOpts'[i]
    OBVIOUS
  <2>2. i \in DOMAIN jobOpts /\ o \in StartOptions
    BY <1>3, <2>1, PoolFacts DEF ClientType
  <2>3. o.suite # s /\ Wanting(o)
    BY <1>1, <2>1, <2>2, PoolFacts DEF PlacesDisjoint, Queued, OptionsAreWanting
  <2>4. Wanting(o)'
    BY <1>2, <2>2, <2>3
  <2>5. QED
    BY <2>1, <2>4 DEF Wanting, Seen, Successes
<1>4. ASSUME NEW o \in retrying'
      PROVE  Wanting(o)'
  <2>1. CASE o \in retrying
    <3>1. o \in StartOptions /\ o.suite # s /\ Wanting(o)
      BY <1>1, <2>1, PoolFacts DEF ClientType, StartOptions, PlacesDisjoint, Retried, OptionsAreWanting
    <3>2. QED
      BY <1>2, <3>1
  <2>2. QED
    BY <1>4, <2>1
<1>5. ASSUME NEW v \in Workers, opts'[v] # None
      PROVE  Wanting(opts[v])'
  <2>1. PICK o : o = opts[v] /\ o = opts'[v]
    BY <1>5
  <2>2. /\ o \in StartOptions /\ Wanting(o) /\ (o.suite # s \/ o.attempt = a)
    BY <1>1, <1>5, <2>1, PoolFacts DEF ClientType, OptionsAreWanting, NoHolderTwice
  <2>3. Wanting(o)'
    BY <1>2, <2>2
  <2>4. QED
    BY <2>1, <2>3 DEF Wanting, Seen, Successes
<1>6. ASSUME NEW t \in Suites, NEW b \in Attempts
      PROVE  Needed(t, b)'
  <2>1. Needed(t, b)
    BY NeedlessParts
  <2> PICK As : As = 0..(b - 1)
    OBVIOUS
  <2>2. As \in SUBSET Attempts /\ b \notin As
    BY EarlierAttempts
  <2>3. CASE t # s \/ b < a
    <3>1. a \in Int /\ b \in Int
      BY PoolAssumption DEF Attempts
    <3>2. (t # s \/ a \notin As) /\ (t # s \/ b # a)
      BY <2>3, <3>1
    <3>3. cloud'[t][b] = cloud[t][b]
      BY <3>2 DEF OnlyChanges
    <3>4. /\ Cardinality(Seen(t, As)') <= Cardinality(Seen(t, As))
          /\ Cardinality(Seen(t, As)') \in Nat
      BY <2>2, <3>2, SeenKept
    <3>5. Cardinality(Seen(t, As)) \in Nat /\ PassThreshold[t] \in Nat
      BY <2>2, SeenFinite, PoolAssumption
    <3>6. QED
      BY <2>1, <3>3, <3>4, <3>5 DEF Needed
  <2>4. CASE t = s /\ b = a
    <3>1. PICK o : o = opts[w]
      OBVIOUS
    <3>2. o \in StartOptions /\ Wanting(o) /\ o.suite = s /\ o.attempt = a /\ o.passCount \in Nat
      BY <1>1, <3>1 DEF StartOptions
    <3>3. Wanting(o)'
      BY <1>2, <3>2
    <3>4. Cardinality(Seen(s, As)') \in Nat
      BY <2>2, <2>4, SeenKept
    <3>5. PassThreshold[s] \in Nat
      BY PoolAssumption
    <3>6. QED
      BY <2>4, <3>2, <3>3, <3>4, <3>5 DEF Needed, Wanting
  <2>5. CASE t = s /\ b > a
    <3>1. a \in Int /\ b \in Int
      BY PoolAssumption DEF Attempts
    <3>2. b # a /\ b >= a /\ b >= a + 1
      BY <2>5, <3>1
    <3>3. Unstarted(s, a) \/ Unstarted(s, a + 1)
      BY PoolFacts DEF WorkerState, AttemptsAreFresh
    <3>4. cloud'[t][b] = "none"
      BY <2>5, <3>2, <3>3 DEF Unstarted, OnlyChanges
    <3>5. QED
      BY <3>4 DEF Needed
  <2>6. b < a \/ b = a \/ b > a
    BY PoolAssumption DEF Attempts
  <2>7. QED
    BY <2>3, <2>4, <2>5, <2>6
<1>7. QED
  BY <1>3, <1>4, <1>5, <1>6, NeedlessParts DEF OptionsAreWanting

\* A step that leaves the cloud alone, moves options about and adds only untried
\* ones.
LEMMA NeedfulMove ==
  ASSUME OptionsAreWanting, NoNeedlessAttempt, UNCHANGED cloudVars,
         \A i \in DOMAIN jobOpts' : \/ jobOpts'[i] \in retrying
                                    \/ \E k \in DOMAIN jobOpts : jobOpts'[i] = jobOpts[k]
                                    \/ Wanting(jobOpts'[i]),
         \A o \in retrying' : o \in retrying,
         \A v \in Workers : opts'[v] # None =>
           opts'[v] = opts[v] \/ \E k \in DOMAIN jobOpts : opts'[v] = jobOpts[k]
  PROVE  OptionsAreWanting' /\ NoNeedlessAttempt'
<1>1. ASSUME NEW o, Wanting(o)
      PROVE  Wanting(o)'
  BY <1>1 DEF Wanting, Seen, Successes, cloudVars
<1>2. ASSUME NEW i \in DOMAIN jobOpts'
      PROVE  Wanting(jobOpts[i])'
  <2>1. PICK o : o = jobOpts'[i] /\ Wanting(o)
    BY <1>2 DEF OptionsAreWanting
  <2>2. Wanting(o)'
    BY <1>1, <2>1
  <2>3. QED
    BY <2>1, <2>2 DEF Wanting, Seen, Successes
<1>3. ASSUME NEW o \in retrying'
      PROVE  Wanting(o)'
  BY <1>1, <1>3 DEF OptionsAreWanting
<1>4. ASSUME NEW v \in Workers, opts'[v] # None
      PROVE  Wanting(opts[v])'
  <2>1. PICK o : o = opts'[v] /\ Wanting(o)
    BY <1>4 DEF OptionsAreWanting
  <2>2. Wanting(o)'
    BY <1>1, <2>1
  <2>3. QED
    BY <2>1, <2>2 DEF Wanting, Seen, Successes
<1>5. NoNeedlessAttempt'
  BY DEF NoNeedlessAttempt, Successes, cloudVars
<1>6. QED
  BY <1>2, <1>3, <1>4, <1>5 DEF OptionsAreWanting

LEMMA NeedfulNext ==
  ASSUME PoolInv, AttemptsAreFresh, OptionsAreWanting, NoNeedlessAttempt, [Next]_vars
  PROVE  OptionsAreWanting' /\ NoNeedlessAttempt'
<1>1. jobOpts \in Seq(StartOptions) /\ retrying \subseteq StartOptions
  BY PoolFacts DEF ClientType
<1>2. ASSUME NEW w \in Workers, StartReturns(w) \/ PollReturns(w) \/ JobEnds(w)
      PROVE  OptionsAreWanting' /\ NoNeedlessAttempt'
  <2>1. PICK s, a : s = opts[w].suite /\ a = opts[w].attempt
    OBVIOUS
  <2>2. /\ opts[w] # None /\ s \in Suites /\ a \in Attempts /\ OnlyChanges(s, a)
        /\ UNCHANGED jobOpts /\ \A v \in Workers : v # w => opts'[v] = opts[v]
    BY <1>2, <2>1, JobStepFrame DEF OnlyChanges
  <2>3. FatesStay
    BY <1>2 DEF FatesStay, StartReturns, StartFails, StartAsync, StartPolled, PollReturns, PollDone,
                PollTimeout, PollFails, PollInterrupted, StopJob, JobEnds, cloudVars
  <2>4. /\ \A o \in retrying' : o \in retrying \/ Wanting(o)'
        /\ opts'[w] = None \/ opts'[w] = opts[w]
    <3>1. CASE StartFails(w) \/ StartAsync(w) \/ PollReturns(w)
      <4>1. \A o \in retrying' : o \in retrying \/ Wanting(o)'
        BY <2>3, <3>1, NextIsWanting
      <4>2. PICK j \in Jobs, skipped \in BOOLEAN : AfterRunJob(w, j, skipped)
        BY <3>1, ReturnedJob
      <4>3. opts' = [opts EXCEPT ![w] = None]
        BY <2>2, <4>2, AfterRunJobResult
      <4>4. opts'[w] = None
        BY <4>3, PoolFacts DEF ClientType
      <4>5. QED
        BY <4>1, <4>4
    <3>2. CASE StartPolled(w) \/ JobEnds(w)
      BY <3>2 DEF StartPolled, JobEnds, clientVars
    <3>3. QED
      BY <1>2, <3>1, <3>2 DEF StartReturns
  <2>5. QED
    BY <2>1, <2>2, <2>3, <2>4, NeedfulWorkerStep
<1>3. ASSUME NEW s \in Suites, Feed(s)
      PROVE  OptionsAreWanting' /\ NoNeedlessAttempt'
  <2>1. PICK e : e = [suite |-> s, attempt |-> 0, passCount |-> 0]
    OBVIOUS
  <2>2. e \in StartOptions
    BY <2>1, PoolAssumption DEF StartOptions, Attempts
  <2>3. Wanting(e)
    <3>1. Seen(s, 0..(0 - 1)) = {}
      BY DEF Seen, Successes
    <3>2. Cardinality(Seen(s, 0..(0 - 1))) = 0
      BY <3>1, FS_EmptySet
    <3>3. QED
      BY <2>1, <3>2, PoolAssumption DEF Wanting
  <2>4. jobOpts' = Append(jobOpts, e) /\ UNCHANGED <<retrying, opts, cloudVars>>
    BY <1>3, <2>1 DEF Feed
  <2>5. \A i \in DOMAIN jobOpts' : jobOpts'[i] = e \/ \E k \in DOMAIN jobOpts : jobOpts'[i] = jobOpts[k]
    BY <1>1, <2>2, <2>4, ChannelElements
  <2>6. \A i \in DOMAIN jobOpts' : \/ jobOpts'[i] \in retrying
                                   \/ \E k \in DOMAIN jobOpts : jobOpts'[i] = jobOpts[k]
                                   \/ Wanting(jobOpts'[i])
    <3>1. ASSUME NEW i \in DOMAIN jobOpts', jobOpts'[i] = e
          PROVE  Wanting(jobOpts'[i])
      BY <2>3, <3>1 DEF Wanting
    <3>2. QED
      BY <2>5, <3>1
  <2>7. QED
    BY <2>4, <2>6, NeedfulMove
<1>4. ASSUME NEW o \in retrying, RetrySend(o)
      PROVE  OptionsAreWanting' /\ NoNeedlessAttempt'
  <2>1. /\ jobOpts' = Append(jobOpts, o) /\ retrying' = retrying \ {o}
        /\ UNCHANGED <<opts, cloudVars>>
    BY <1>4 DEF RetrySend
  <2>2. \A i \in DOMAIN jobOpts' : jobOpts'[i] = o \/ \E k \in DOMAIN jobOpts : jobOpts'[i] = jobOpts[k]
    BY <1>1, <2>1, ChannelElements
  <2>3. QED
    BY <2>1, <2>2, NeedfulMove
<1>5. ASSUME NEW w \in Workers, SkipSuite(w) \/ BeginSuite(w)
      PROVE  OptionsAreWanting' /\ NoNeedlessAttempt'
  <2>1. /\ jobOpts # <<>> /\ jobOpts' = Tail(jobOpts) /\ UNCHANGED <<retrying, cloudVars>>
        /\ UNCHANGED opts \/ opts' = [opts EXCEPT ![w] = Head(jobOpts)]
    BY <1>5 DEF SkipSuite, BeginSuite
  <2>2. /\ Head(jobOpts) = jobOpts[1] /\ 1 \in DOMAIN jobOpts
        /\ \A i \in DOMAIN jobOpts' : \E k \in DOMAIN jobOpts : jobOpts'[i] = jobOpts[k]
    BY <1>1, <2>1, ChannelElements
  <2>3. opts \in [Workers -> StartOptions \cup {None}]
    BY PoolFacts DEF ClientType
  <2>4. \A v \in Workers : opts'[v] # None =>
          opts'[v] = opts[v] \/ \E k \in DOMAIN jobOpts : opts'[v] = jobOpts[k]
    BY <2>1, <2>2, <2>3
  <2>5. QED
    BY <2>1, <2>2, <2>4, NeedfulMove
<1>6. CASE \/ \E w \in Workers : SendResult(w)
           \/ Collect \/ Return \/ Interrupt \/ Finished \/ UNCHANGED vars
  <2>1. UNCHANGED <<jobOpts, retrying, opts, cloudVars>>
    BY <1>6 DEF SendResult, Collect, Return, Interrupt, Finished, vars, clientVars
  <2>2. QED
    BY <2>1, NeedfulMove
<1>7. QED
  BY <1>2, <1>3, <1>4, <1>5, <1>6 DEF Next, Worker

\* Both halves of the argument, together inductive.
LEMMA NeedfulAlways == Spec => [](OptionsAreWanting /\ NoNeedlessAttempt)
<1>1. ASSUME Init
      PROVE  OptionsAreWanting /\ NoNeedlessAttempt
  <2>1. DOMAIN jobOpts = {} /\ retrying = {} /\ \A w \in Workers : opts[w] = None
    BY <1>1 DEF Init
  <2>2. \A t \in Suites, b \in Attempts : cloud[t][b] = "none"
    BY <1>1 DEF Init
  <2>3. QED
    BY <2>1, <2>2 DEF OptionsAreWanting, NoNeedlessAttempt
<1>2. Init => OptionsAreWanting /\ NoNeedlessAttempt
  BY <1>1
<1>3. PoolInv /\ AttemptsAreFresh /\ OptionsAreWanting /\ NoNeedlessAttempt /\ [Next]_vars
        => OptionsAreWanting' /\ NoNeedlessAttempt'
  BY NeedfulNext
<1>4. QED
  BY <1>2, <1>3, PoolInvariant, NoAttemptTwice, PTL DEF Spec

\* No attempt is spent on a suite that has already met its threshold with jobs the
\* client saw to their end, in any interleaving of workers and retries.
THEOREM NoAttemptNeedless == Spec => []NoNeedlessAttempt
  BY NeedfulAlways, PTL

-----------------------------------------------------------------------------
(* Skipping is justified                                                   *)

\* A result that fails the run once the collector has it.
Failing(r) == Done(r.job.status) /\ ~r.job.passed

FailureOnItsWay ==
  \/ ~passed
  \/ \E i \in DOMAIN results : Failing(results[i])
  \/ \E w \in Workers : res[w] # None /\ Failing(res[w])

Skipping ==
  \/ \E w \in Workers : skipStart[w] \/ (res[w] # None /\ res[w].skipped)
  \/ \E i \in DOMAIN results : results[i].skipped
  \/ \E s \in Suites : ledger[s].status = "skipped"

\* A worker that skips, and a suite that was skipped, without an interrupt has
\* a failure before it that the collector knows of or will.
SkipsFollowFailure == ~cancelled /\ Skipping => FailFast /\ FailureOnItsWay

\* A failure on its way arrives.
LEMMA FailureArrives ==
  ASSUME PoolInv, FailureOnItsWay,
         passed' => passed,
         \A w \in Workers : res[w] # None =>
           res'[w] = res[w] \/ \E i \in DOMAIN results' : results'[i] = res[w],
         \A i \in DOMAIN results :
           (\E k \in DOMAIN results' : results'[k] = results[i]) \/ (Failing(results[i]) => ~passed')
  PROVE  FailureOnItsWay'
BY DEF FailureOnItsWay, Failing

\* A virtual device's suite that is settled after an unsuccessful attempt has
\* failed: had it met its threshold before, it would not have been tried again.
LEMMA SettledHasFailed ==
  ASSUME NEW o \in StartOptions, NEW j \in Jobs, ~j.passed, ~j.isRDC, ~Async,
         PassThreshold[o.suite] > 0, Wanting(o)
  PROVE  Failing([suite |-> o.suite, job |-> Judged(Counted(o, j), j, FALSE), skipped |-> FALSE,
                  attempts |-> o.attempt + 1])
<1>1. Counted(o, j) = o
  BY DEF Counted, IsSuccessful
<1>2. BelowThreshold(o)
  BY DEF Wanting, BelowThreshold
<1>3. Judged(o, j, FALSE).status = StateFailed /\ ~Judged(o, j, FALSE).passed
  BY <1>2 DEF Judged, Jobs
<1>4. QED
  BY <1>1, <1>3 DEF Failing, Done, DoneStates

\* What follows if nothing that tells of a skip or a failure changes.
LEMMA SkipsMove ==
  ASSUME PoolInv, SkipsFollowFailure, cancelled => cancelled',
         UNCHANGED <<skipStart, res, results, ledger, passed>>
  PROVE  SkipsFollowFailure'
BY DEF SkipsFollowFailure, Skipping, FailureOnItsWay, Failing

LEMMA SkipsNext ==
  ASSUME ~Async, \A s \in Suites : PassThreshold[s] > 0 /\ ~RealDevice[s],
         PoolInv, OptionsAreWanting, SkipsFollowFailure, [Next]_vars
  PROVE  SkipsFollowFailure'
<1>0. /\ res \in [Workers -> Results \cup {None}] /\ results \in Seq(Results)
      /\ skipStart \in [Workers -> BOOLEAN] /\ ledger \in [Suites -> Entries]
      /\ cancelled => cancelled'
  BY PoolFacts, CancelledStays DEF ClientType, CollectorType
<1>1. ASSUME NEW w \in Workers, StartFails(w) \/ StartAsync(w) \/ PollReturns(w)
      PROVE  SkipsFollowFailure'
  <2>1. /\ opts[w] # None /\ opts[w] \in StartOptions /\ Wanting(opts[w])
        /\ opts[w].suite \in Suites /\ res[w] = None
        /\ UNCHANGED <<results, ledger, passed, cancelled>>
    <3>1. opts[w] # None /\ UNCHANGED collectorVars
      BY <1>1, JobStepFrame DEF StartReturns
    <3>2. UNCHANGED cancelled
      BY <1>1 DEF StartFails, StartAsync, PollReturns, PollDone, PollTimeout, PollFails,
                  PollInterrupted
    <3>3. res[w] = None
      BY <3>1, PoolFacts DEF WorkerState
    <3>4. QED
      BY <3>1, <3>2, <3>3, CurrentJobFacts DEF OptionsAreWanting, collectorVars
  <2>2. PICK j \in Jobs, skipped \in BOOLEAN :
          /\ AfterRunJob(w, j, skipped)
          /\ skipped => cancelled
          /\ j.isRDC => RealDevice[opts[w].suite]
    BY <1>1, ReturnedJob
  <2>3. PICK o : o = Counted(opts[w], j)
    OBVIOUS
  <2>4. PICK r : r = [suite |-> o.suite, job |-> Judged(o, j, skipped), skipped |-> skipped,
                      attempts |-> o.attempt + 1]
    OBVIOUS
  <2>5. \/ UNCHANGED <<res, skipStart>>
        \/ /\ res' = [res EXCEPT ![w] = r]
           /\ skipStart' = [skipStart EXCEPT ![w] = @ \/ (FailFast /\ ~j.passed)]
    BY <2>1, <2>2, <2>3, <2>4, AfterRunJobResult
  <2>6. CASE UNCHANGED <<res, skipStart>>
    BY <2>1, <2>6, SkipsMove
  <2>7. CASE /\ res' = [res EXCEPT ![w] = r]
             /\ skipStart' = [skipStart EXCEPT ![w] = @ \/ (FailFast /\ ~j.passed)]
    <3>1. SUFFICES ASSUME ~cancelled, Skipping'
                   PROVE  FailFast /\ FailureOnItsWay'
      BY <2>1 DEF SkipsFollowFailure
    <3>2. ~skipped /\ ~r.skipped
      BY <2>2, <2>4, <3>1
    <3>3. CASE Skipping
      <4>1. FailFast /\ FailureOnItsWay
        BY <3>1, <3>3 DEF SkipsFollowFailure
      <4>2. FailureOnItsWay'
        BY <1>0, <2>1, <2>7, <4>1, FailureArrives
      <4>3. QED
        BY <4>1, <4>2
    <3>4. CASE ~Skipping
      <4>1. FailFast /\ ~j.passed
        BY <1>0, <2>1, <2>7, <3>1, <3>2, <3>4 DEF Skipping
      <4>2. Failing(r)
        <5>1. o.suite = opts[w].suite /\ o.attempt = opts[w].attempt
          BY <2>1, <2>3, CountedType
        <5>2. ~j.isRDC
          BY <2>1, <2>2
        <5>3. QED
          BY <2>1, <2>3, <2>4, <3>2, <4>1, <5>1, <5>2, SettledHasFailed
      <4>3. res'[w] = r /\ r # None
        <5>1. /\ o \in StartOptions /\ Judged(o, j, skipped) \in Jobs
              /\ o.attempt + 1 \in 0..(Retries + 1)
          <6>1. o \in StartOptions
            BY <2>1, <2>3, CountedType
          <6>2. Judged(o, j, skipped) \in Jobs
            BY <6>1, JudgedType
          <6>3. o.attempt \in Attempts
            BY <6>1 DEF StartOptions
          <6>4. QED
            BY <6>1, <6>2, <6>3, PoolAssumption DEF Attempts
        <5>2. r \in Results
          BY <2>4, <5>1 DEF Results, StartOptions
        <5>3. QED
          BY <1>0, <2>7, <5>2, NoneAssumption
      <4>4. FailureOnItsWay'
        BY <4>2, <4>3 DEF FailureOnItsWay, Failing
      <4>5. QED
        BY <4>1, <4>4
    <3>5. QED
      BY <3>3, <3>4
  <2>8. QED
    BY <2>5, <2>6, <2>7
<1>2. ASSUME NEW w \in Workers, SkipSuite(w)
      PROVE  SkipsFollowFailure'
  <2>1. /\ res[w] = None
        /\ UNCHANGED <<skipStart, results, ledger, passed, cancelled>>
        /\ cancelled \/ skipStart[w]
        /\ \A v \in Workers : v # w => res'[v] = res[v]
    BY <1>0, <1>2, PoolFacts DEF SkipSuite, collectorVars, WorkerState
  <2>2. SUFFICES ASSUME ~cancelled
                 PROVE  FailFast /\ FailureOnItsWay'
    BY <2>1 DEF SkipsFollowFailure
  <2>3. FailFast /\ FailureOnItsWay
    BY <2>1, <2>2 DEF SkipsFollowFailure, Skipping
  <2>4. QED
    BY <2>1, <2>3, FailureArrives
<1>3. ASSUME NEW w \in Workers, SendResult(w)
      PROVE  SkipsFollowFailure'
  <2>1. /\ UNCHANGED <<skipStart, ledger, passed, cancelled>>
        /\ res[w] # None /\ res[w] \in Results
        /\ \A v \in Workers : v # w => res'[v] = res[v]
        /\ \A v \in Workers : res'[v] # None => res'[v] = res[v]
        /\ \A i \in DOMAIN results' :
             results'[i] = res[w] \/ \E k \in DOMAIN results : results'[i] = results[k]
    BY <1>0, <1>3, ResultMoves DEF SendResult
  <2>2. /\ \A i \in DOMAIN results : i \in DOMAIN results' /\ results'[i] = results[i]
        /\ \E i \in DOMAIN results' : results'[i] = res[w]
    BY <1>0, <1>3, <2>1 DEF SendResult
  <2>3. Skipping' => Skipping
    BY <2>1 DEF Skipping
  <2>4. FailureOnItsWay => FailureOnItsWay'
    BY <2>1, <2>2, FailureArrives
  <2>5. QED
    BY <2>1, <2>3, <2>4 DEF SkipsFollowFailure
<1>4. CASE Collect
  <2>1. PICK r : r = Head(results)
    OBVIOUS
  <2>2. /\ r \in Results /\ r = results[1] /\ 1 \in DOMAIN results /\ r.suite \in Suites
        /\ ledger'[r.suite] = Entry(r)
        /\ \A s \in Suites : s # r.suite => ledger'[s] = ledger[s]
        /\ \A i \in DOMAIN results' : \E k \in DOMAIN results : results'[i] = results[k]
    BY <1>4, <2>1, CollectMoves
  <2>3. /\ UNCHANGED <<res, skipStart, cancelled>>
        /\ passed' = (passed /\ ~Failing(r))
    BY <1>4, <2>1 DEF Collect, clientVars, Failing
  <2>4. Entry(r).status = "skipped" => r.skipped
    <3>1. TotalStatus(r.job) \in States
      BY <2>2, TotalStatusType DEF Results
    <3>2. QED
      BY <2>2, <3>1 DEF Entry, Results, States, StateNew, StateQueued, StateInProgress,
                        StateComplete, StateError, StateUnknown, StatePassed, StateFailed, NoState
  <2>5. Skipping' => Skipping
    BY <2>2, <2>3, <2>4 DEF Skipping
  <2>6. \A i \in DOMAIN results : i # 1 => \E k \in DOMAIN results' : results'[k] = results[i]
    <3>1. results' = Tail(results)
      BY <1>4 DEF Collect
    <3>2. \A i \in DOMAIN results : i # 1 =>
            i - 1 \in DOMAIN Tail(results) /\ Tail(results)[i - 1] = results[i]
      BY <1>0, <2>2
    <3>3. QED
      BY <3>1, <3>2
  <2>7. FailureOnItsWay => FailureOnItsWay'
    BY <2>2, <2>3, <2>6, FailureArrives
  <2>8. QED
    BY <2>3, <2>5, <2>7 DEF SkipsFollowFailure
<1>5. CASE \/ \E s \in Suites : Feed(s)
           \/ \E w \in Workers : BeginSuite(w) \/ StartPolled(w) \/ JobEnds(w)
           \/ \E o \in retrying : RetrySend(o)
           \/ Return \/ Interrupt \/ Finished \/ UNCHANGED vars
  <2>1. UNCHANGED <<skipStart, res, results, ledger, passed>>
    BY <1>5 DEF Feed, BeginSuite, StartPolled, JobEnds, RetrySend, Return, Interrupt, Finished,
                vars, clientVars, collectorVars
  <2>2. QED
    BY <1>0, <2>1, SkipsMove
<1>6. QED
  BY <1>1, <1>2, <1>3, <1>4, <1>5 DEF Next, Worker, StartReturns

\* Suites are skipped only by an interrupt or, under --fail-fast, because the run
\* has failed: of virtual devices, without --async, and if the collector waits for
\* all suites.  A real-device job that ends as "complete", or one that is started
\* and not awaited, makes a worker skip in a run that passes.
THEOREM SkipsAreJustified ==
  ASSUME ~Async, \A s \in Suites : PassThreshold[s] > 0 /\ ~RealDevice[s],
         Expected = Cardinality(Suites)
  PROVE  Spec => []SkipIsJustified
<1>1. Init => SkipsFollowFailure
  <2>1. ASSUME Init, Skipping
        PROVE  FALSE
    <3>1. DOMAIN results = {} /\ \A w \in Workers : ~skipStart[w] /\ res[w] = None
      BY <2>1 DEF Init
    <3>2. \A s \in Suites : ledger[s].status = "open"
      BY <2>1 DEF Init
    <3>3. QED
      BY <2>1, <3>1, <3>2 DEF Skipping
  <2>2. QED
    BY <2>1 DEF SkipsFollowFailure
<1>2. PoolInv /\ OptionsAreWanting /\ SkipsFollowFailure /\ [Next]_vars => SkipsFollowFailure'
  BY SkipsNext
<1>3. PoolInv /\ SkipsFollowFailure => SkipIsJustified
  <2>1. SUFFICES ASSUME PoolInv, SkipsFollowFailure, returned, ~cancelled,
                        \E s \in Suites : ledger[s].status = "skipped"
                 PROVE  FailFast /\ ~passed
    BY DEF SkipIsJustified
  <2>2. FailFast /\ FailureOnItsWay
    BY <2>1 DEF SkipsFollowFailure, Skipping
  <2>3. results = <<>> /\ \A w \in Workers : pc[w] = "idle"
    BY <2>1, QuietInv DEF QuietAfterReturn
  <2>4. DOMAIN results = {} /\ \A w \in Workers : res[w] = None
    BY <2>1, <2>3, PoolFacts DEF WorkerState
  <2>5. QED
    BY <2>2, <2>4 DEF FailureOnItsWay
<1>4. QED
  BY <1>1, <1>2, <1>3, PoolInvariant, NeedfulAlways, PTL DEF Spec
=============================================================================
