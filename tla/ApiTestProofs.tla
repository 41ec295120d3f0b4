--------------------------- MODULE ApiTestProofs ---------------------------
(***************************************************************************)
(* Proofs about ApiTest, for any suites, requests, events and durations.   *)
(***************************************************************************)
EXTENDS ApiTest, FiniteSetTheorems, TLAPS

\* What a request creates are events, finitely many, and one if it is local.
LEMMA RequestFacts ==
  ASSUME NEW s \in Suites, NEW r \in Requests[s]
  PROVE  /\ r \in RequestsOf(Suites)
         /\ Created[r] \subseteq Events
         /\ IsFiniteSet(Created[r])
         /\ s \in Local => Cardinality(Created[r]) = 1
<1>1. r \in RequestsOf(Suites)
  BY DEF RequestsOf
<1>2. Created[r] \subseteq Events
  BY <1>1 DEF Events
<1>3. IsFiniteSet(Created[r])
  BY <1>2, FS_Subset, ApiTestAssumption
<1>4. s \in Local => r \in RequestsOf(Local)
  BY DEF RequestsOf
<1> QED
  BY <1>1, <1>2, <1>3, <1>4, ApiTestAssumption

\* A poller that has just begun has not expired.
LEMMA NoWait == 0 \in 0..DefaultWait
BY ApiTestAssumption

\* The sets that are counted are finite.
LEMMA FiniteCounts ==
  /\ IsFiniteSet(Begun) /\ Cardinality(Begun) \in Nat
  /\ IsFiniteSet(Read) /\ Cardinality(Read) \in Nat
<1>1. Begun \in SUBSET Events /\ Read \in SUBSET Events
  BY DEF Begun, Read
<1> QED
  BY <1>1, FS_Subset, FS_CardinalityType, ApiTestAssumption

\* The runner starts with nothing begun and nothing read.
LEMMA InitApiInv == Init => ApiInv
<1> SUFFICES ASSUME Init PROVE ApiInv
  OBVIOUS
<1>1. TypeOK
  BY ApiTestAssumption DEF Init, TypeOK
<1>2. Placed
  BY DEF Init, Placed
<1>3. Fresh
  <2>1. \A r \in RequestsOf(Suites) : Created[r] \subseteq Events
    BY DEF Events
  <2> QED
    BY <2>1 DEF Init, Fresh
<1>4. Begun = {} /\ Read = {}
  BY DEF Init, Begun, Read
<1>5. Tallied
  BY <1>4, FS_EmptySet DEF Init, Tallied
<1>6. Judged
  BY <1>4 DEF Init, Judged
<1> QED
  BY <1>1, <1>2, <1>3, <1>5, <1>6 DEF ApiInv

-----------------------------------------------------------------------------
(* The main goroutine                                                      *)

LEMMA BeginSuiteInv ==
  ASSUME ApiInv, NEW s \in Suites, BeginSuite(s)
  PROVE  ApiInv'
<1> USE DEF BeginSuite, timers, collector
<1>1. TypeOK'
  <2>1. todo' \subseteq RequestsOf(Suites)
    BY DEF RequestsOf
  <2>2. pollWaitTime' \in Nat \ {0}
    BY ApiTestAssumption DEF ApiInv, TypeOK
  <2> QED
    BY <2>1, <2>2 DEF ApiInv, TypeOK
<1>2. Placed'
  BY DEF ApiInv, Placed
<1>3. Fresh'
  <2>1. todo' \cup RequestsOf(waiting') \subseteq todo \cup RequestsOf(waiting)
    BY DEF RequestsOf
  <2>2. \A r \in todo' \cup RequestsOf(waiting') : \A e \in Created[r] : service'[e] = "none"
    BY <2>1 DEF ApiInv, Fresh
  <2>3. suite' \cap waiting' = {}
    OBVIOUS
  <2>4. todo' \subseteq RequestsOf(suite')
    BY DEF RequestsOf
  <2> QED
    BY <2>2, <2>3, <2>4 DEF Fresh, RequestsOf
<1>4. Tallied'
  BY DEF ApiInv, Tallied, Begun, Read
<1>5. Judged'
  BY DEF ApiInv, Judged, Read
<1> QED
  BY <1>1, <1>2, <1>3, <1>4, <1>5 DEF ApiInv

LEMMA SendInv ==
  ASSUME ApiInv, NEW s \in Suites, NEW r \in Requests[s], Send(s, r)
  PROVE  ApiInv'
<1>1. /\ r \in RequestsOf(Suites)
      /\ Created[r] \subseteq Events
      /\ IsFiniteSet(Created[r])
      /\ s \in Local => Cardinality(Created[r]) = 1
  BY RequestFacts
<1>2. \A e \in Created[r] : service[e] = "none"
  BY DEF ApiInv, Fresh, Send
<1>3. \A e \in Created[r] : poller[e] = "none" /\ e \notin eventIDs
  BY <1>1, <1>2 DEF ApiInv, Placed
<1>4. Cardinality(Created[r]) \in Nat
  BY <1>1, FS_CardinalityType
<1>5. expected' = expected + Cardinality(Created[r])
  BY <1>1 DEF Send, Expect
<1>6. TypeOK'
  <2>1. poller' \in [Events -> {"none", "spawned", "polling", "sending", "done"}]
    BY DEF ApiInv, TypeOK, Send, Spawned
  <2>2. service' \in [Events -> {"none", "running", "passed", "failed"}]
    BY DEF ApiInv, TypeOK, Send
  <2>3. expected' \in Nat
    <3>1. expected \in Nat
      BY DEF ApiInv, TypeOK
    <3> QED
      BY <1>4, <1>5, <3>1
  <2>4. eventIDs' \subseteq Events /\ todo' \subseteq RequestsOf(Suites)
    BY <1>1 DEF ApiInv, TypeOK, Send
  <2> QED
    BY <2>1, <2>2, <2>3, <2>4 DEF ApiInv, TypeOK, Send, timers, collector
<1>7. Placed'
  BY <1>1, <1>2, <1>3 DEF ApiInv, TypeOK, Placed, Send, Spawned
<1>8. Fresh'
  <2>1. ASSUME NEW q \in todo' \cup RequestsOf(waiting'), NEW e \in Created[q]
        PROVE  service'[e] = "none"
    <3>1. q # r /\ q \in todo \cup RequestsOf(waiting)
      <4>1. CASE q \in todo'
        BY <4>1 DEF Send
      <4>2. CASE q \in RequestsOf(waiting')
        <5>1. PICK t \in waiting : q \in Requests[t]
          BY <4>2 DEF Send, RequestsOf
        <5>2. t # s /\ t \in Suites
          BY <5>1 DEF Send, ApiInv, Fresh, TypeOK
        <5> QED
          BY <4>2, <5>1, <5>2, ApiTestAssumption DEF Send
      <4> QED
        BY <4>1, <4>2
    <3>2. q \in RequestsOf(Suites)
      BY <3>1 DEF ApiInv, TypeOK, RequestsOf
    <3>3. e \notin Created[r] /\ e \in Events
      BY <1>1, <3>1, <3>2, ApiTestAssumption DEF Events
    <3> QED
      BY <3>1, <3>3 DEF Send, ApiInv, Fresh
  <2>2. suite' \cap waiting' = {} /\ todo' \subseteq RequestsOf(suite')
    BY DEF Send, ApiInv, Fresh
  <2> QED
    BY <2>1, <2>2 DEF Fresh, RequestsOf
<1>9. Tallied'
  <2>1. Begun' = Begun \cup Created[r] /\ Begun \cap Created[r] = {}
    BY <1>1, <1>2 DEF Begun, Send
  <2>2. Cardinality(Begun') = Cardinality(Begun) + Cardinality(Created[r])
    <3>1. Cardinality(Begun \cup Created[r])
            = Cardinality(Begun) + Cardinality(Created[r]) - Cardinality(Begun \cap Created[r])
      BY <1>1, FiniteCounts, FS_Union
    <3>2. Cardinality(Begun \cap Created[r]) = 0
      BY <2>1, FS_EmptySet
    <3>3. Cardinality(Begun') = Cardinality(Begun \cup Created[r])
      BY <2>1
    <3>4. Cardinality(Begun) \in Nat
      BY FiniteCounts
    <3> QED
      BY <1>4, <3>1, <3>2, <3>3, <3>4
  <2>3. Read' = Read
    BY <1>1, <1>3 DEF Read, Send, Spawned
  <2> QED
    BY <1>5, <2>2, <2>3 DEF ApiInv, Tallied, Send, collector
<1>10. Judged'
  <2>1. \A e \in Events :
          /\ poller'[e] \in {"sending", "done"} <=> poller[e] \in {"sending", "done"}
          /\ poller'[e] = "polling" => poller[e] = "polling"
    BY <1>1, <1>3 DEF Send, Spawned
  <2>2. Read' = Read
    BY <1>1, <1>3 DEF Read, Send, Spawned
  <2>3. \A e \in Events : service[e] = "passed" => service'[e] = "passed"
    BY <1>2 DEF Send
  <2> QED
    BY <2>1, <2>2, <2>3 DEF ApiInv, Judged, Send, collector
<1> QED
  BY <1>6, <1>7, <1>8, <1>9, <1>10 DEF ApiInv

LEMMA SendFailsInv ==
  ASSUME ApiInv, NEW s \in Suites, NEW r \in Requests[s], SendFails(s, r)
  PROVE  ApiInv'
<1> USE DEF SendFails, timers, collector
<1>1. TypeOK'
  BY DEF ApiInv, TypeOK
<1>2. Placed'
  BY DEF ApiInv, Placed
<1>3. Fresh'
  BY DEF ApiInv, Fresh, RequestsOf
<1>4. Tallied'
  BY DEF ApiInv, Tallied, Begun, Read
<1>5. Judged'
  BY DEF ApiInv, Judged, Read
<1> QED
  BY <1>1, <1>2, <1>3, <1>4, <1>5 DEF ApiInv

LEMMA EndSuiteInv ==
  ASSUME ApiInv, NEW s \in Suites, EndSuite(s)
  PROVE  ApiInv'
<1>1. \A e \in eventIDs : e \in Events /\ poller[e] = "none" /\ service[e] # "none"
  BY DEF ApiInv, TypeOK, Placed
<1>2. TypeOK'
  <2>1. poller' \in [Events -> {"none", "spawned", "polling", "sending", "done"}]
    BY DEF ApiInv, TypeOK, EndSuite, Spawned
  <2> QED
    BY <2>1 DEF ApiInv, TypeOK, EndSuite, timers, collector
<1>3. Placed'
  BY <1>1 DEF ApiInv, Placed, EndSuite, Spawned
<1>4. Fresh'
  BY DEF ApiInv, Fresh, EndSuite, RequestsOf
<1>5. Read' = Read
  BY <1>1 DEF Read, EndSuite, Spawned
<1>6. Tallied'
  BY <1>5 DEF ApiInv, Tallied, Begun, EndSuite, collector
<1>7. Judged'
  <2>1. \A e \in Events :
          /\ poller'[e] \in {"sending", "done"} <=> poller[e] \in {"sending", "done"}
          /\ poller'[e] = "polling" => poller[e] = "polling"
    BY <1>1 DEF EndSuite, Spawned
  <2> QED
    BY <1>5, <2>1 DEF ApiInv, Judged, EndSuite, collector
<1> QED
  BY <1>2, <1>3, <1>4, <1>6, <1>7 DEF ApiInv

LEMMA AllStartedInv ==
  ASSUME ApiInv, AllStarted
  PROVE  ApiInv'
<1> USE DEF AllStarted, timers, collector
<1>1. TypeOK'
  BY DEF ApiInv, TypeOK
<1>2. Placed'
  BY DEF ApiInv, Placed
<1>3. Fresh'
  BY DEF ApiInv, Fresh, RequestsOf
<1>4. Tallied'
  BY DEF ApiInv, Tallied, Begun, Read
<1>5. Judged'
  BY DEF ApiInv, Judged, Read
<1> QED
  BY <1>1, <1>2, <1>3, <1>4, <1>5 DEF ApiInv
-----------------------------------------------------------------------------
(* Pollers                                                                 *)

LEMMA StartPollingInv ==
  ASSUME ApiInv, NEW e \in Events, StartPolling(e)
  PROVE  ApiInv'
<1> USE DEF StartPolling, main, collector
<1>1. TypeOK'
  BY DEF ApiInv, TypeOK
<1>2. Placed'
  BY DEF ApiInv, TypeOK, Placed
<1>3. Fresh'
  BY DEF ApiInv, Fresh, RequestsOf
<1>4. Read' = Read /\ Begun' = Begun
  BY DEF ApiInv, TypeOK, Read, Begun
<1>5. Tallied'
  BY <1>4 DEF ApiInv, Tallied
<1>6. Judged'
  BY <1>4 DEF ApiInv, TypeOK, Judged
<1> QED
  BY <1>1, <1>2, <1>3, <1>5, <1>6 DEF ApiInv

\* A goroutine that polled or was to announce leaves with a result that fits.
LEMMA LeavesInv ==
  ASSUME ApiInv, NEW e \in Events, NEW v, Leaves(e, v),
         poller[e] \in {"spawned", "polling"},
         v \in {"passed", "failed", "error", "timed out", "started"},
         async <=> v = "started",
         v = "passed" => service[e] = "passed"
  PROVE  ApiInv'
<1> USE DEF Leaves, main, collector
<1>1. TypeOK'
  <2>1. elapsed' \in [Events -> 0..DefaultWait]
    <3>1. elapsed \in [Events -> 0..DefaultWait]
      BY DEF ApiInv, TypeOK
    <3>2. 0 \in 0..DefaultWait
      BY NoWait
    <3> QED
      BY <3>1, <3>2
  <2> QED
    BY <2>1 DEF ApiInv, TypeOK
<1>2. Placed'
  BY DEF ApiInv, TypeOK, Placed
<1>3. Fresh'
  BY DEF ApiInv, Fresh, RequestsOf
<1>4. Read' = Read /\ Begun' = Begun
  BY DEF ApiInv, TypeOK, Read, Begun
<1>5. Tallied'
  BY <1>4 DEF ApiInv, Tallied
<1>6. Judged'
  <2>1. \A f \in Events :
          /\ poller'[f] \in {"sending", "done"} <=> verdict'[f] # "none"
          /\ poller'[f] = "polling" => ~async'
          /\ verdict'[f] # "none" => (async' <=> verdict'[f] = "started")
          /\ verdict'[f] = "passed" => service'[f] = "passed"
    BY DEF ApiInv, TypeOK, Judged
  <2>2. \A f \in Read : verdict'[f] = verdict[f]
    BY DEF ApiInv, TypeOK, Read
  <2>3. passed' <=> \A f \in Read' : ~Spoils(verdict'[f])
    BY <1>4, <2>2 DEF ApiInv, Judged
  <2> QED
    BY <2>1, <2>3 DEF Judged
<1> QED
  BY <1>1, <1>2, <1>3, <1>5, <1>6 DEF ApiInv

LEMMA NotFoundInv ==
  ASSUME ApiInv, NEW e \in Events, NotFound(e)
  PROVE  ApiInv'
<1> USE DEF NotFound, main, collector
<1>1. TypeOK'
  <2>1. nextTick \in [Events -> Nat] /\ interval \in [Events -> Nat]
    BY DEF ApiInv, TypeOK
  <2>2. nextTick' \in [Events -> Nat]
    BY <2>1
  <2> QED
    BY <2>2 DEF ApiInv, TypeOK
<1>2. Placed'
  BY DEF ApiInv, Placed
<1>3. Fresh'
  BY DEF ApiInv, Fresh, RequestsOf
<1>4. Tallied'
  BY DEF ApiInv, Tallied, Begun, Read
<1>5. Judged'
  BY DEF ApiInv, Judged, Read
<1> QED
  BY <1>1, <1>2, <1>3, <1>4, <1>5 DEF ApiInv

LEMMA PollerInv ==
  ASSUME ApiInv, NEW e \in Events, Poller(e)
  PROVE  ApiInv'
<1>1. CASE StartPolling(e)
  BY <1>1, StartPollingInv
<1>2. CASE Announce(e)
  BY <1>2, LeavesInv DEF Announce
<1>3. CASE NotFound(e)
  BY <1>3, NotFoundInv
<1>4. poller[e] = "polling" => ~async
  BY DEF ApiInv, Judged
<1>5. ASSUME NEW v \in {"passed", "failed", "error"}, GetsResult(e, v)
      PROVE  ApiInv'
  BY <1>4, <1>5, LeavesInv DEF GetsResult, Ticking
<1>6. CASE GivesUp(e)
  BY <1>4, <1>6, LeavesInv DEF GivesUp, Expired
<1> QED
  BY <1>1, <1>2, <1>3, <1>5, <1>6 DEF Poller

LEMMA AdvanceInv ==
  ASSUME ApiInv, Advance
  PROVE  ApiInv'
<1> USE DEF Advance, main, collector
<1>1. TypeOK'
  <2>1. ASSUME NEW e \in Events
        PROVE  elapsed'[e] \in 0..DefaultWait
    <3>1. elapsed[e] \in 0..DefaultWait /\ DefaultWait \in Nat
      BY ApiTestAssumption DEF ApiInv, TypeOK
    <3>2. CASE poller[e] = "polling"
      BY <3>1, <3>2 DEF Expired
    <3>3. CASE poller[e] # "polling"
      BY <3>1, <3>3
    <3> QED
      BY <3>2, <3>3
  <2>2. elapsed' \in [Events -> 0..DefaultWait]
    BY <2>1
  <2> QED
    BY <2>2 DEF ApiInv, TypeOK
<1>2. Placed'
  BY DEF ApiInv, Placed
<1>3. Fresh'
  BY DEF ApiInv, Fresh, RequestsOf
<1>4. Tallied'
  BY DEF ApiInv, Tallied, Begun, Read
<1>5. Judged'
  BY DEF ApiInv, Judged, Read
<1> QED
  BY <1>1, <1>2, <1>3, <1>4, <1>5 DEF ApiInv

LEMMA EventEndsInv ==
  ASSUME ApiInv, NEW e \in Events, NEW v \in {"passed", "failed"}, EventEnds(e, v)
  PROVE  ApiInv'
<1>1. TypeOK'
  <2>1. endedAt' \in [Events -> Nat]
    <3>1. endedAt \in [Events -> Nat] /\ elapsed[e] \in 0..DefaultWait
      BY DEF ApiInv, TypeOK
    <3>2. elapsed[e] \in Nat
      BY <3>1
    <3> QED
      BY <3>1, <3>2 DEF EventEnds
  <2>2. service' \in [Events -> {"none", "running", "passed", "failed"}]
    BY DEF ApiInv, TypeOK, EventEnds
  <2>3. UNCHANGED <<async, main, poller, timers, verdict, collector>>
    BY DEF EventEnds
  <2> QED
    BY <2>1, <2>2, <2>3 DEF ApiInv, TypeOK, main, timers, collector
<1>2. Placed'
  BY DEF ApiInv, TypeOK, Placed, EventEnds, main
<1>3. Fresh'
  <2>1. service \in [Events -> {"none", "running", "passed", "failed"}]
    BY DEF ApiInv, TypeOK
  <2>2. service[e] = "running" /\ service' = [service EXCEPT ![e] = v]
    BY DEF EventEnds
  <2>3. \A f : f # e /\ f \in Events => service'[f] = service[f]
    BY <2>1, <2>2
  <2>4. waiting' = waiting /\ todo' = todo /\ suite' = suite
    BY DEF EventEnds, main
  <2>5. Fresh
    BY DEF ApiInv
  <2>6. todo \cup RequestsOf(waiting) \subseteq RequestsOf(Suites)
    <3>1. waiting \subseteq Suites /\ todo \subseteq RequestsOf(Suites)
      BY DEF ApiInv, TypeOK
    <3> QED
      BY <3>1 DEF RequestsOf
  <2>7. ASSUME NEW r \in todo \cup RequestsOf(waiting), NEW f \in Created[r]
        PROVE  service'[f] = "none"
    <3>1. f \in Events
      BY <2>6 DEF Events
    <3>2. service[f] = "none"
      BY <2>5 DEF Fresh
    <3> QED
      BY <3>1, <3>2, <2>2, <2>3
  <2>8. RequestsOf(waiting)' = RequestsOf(waiting) /\ RequestsOf(suite)' = RequestsOf(suite)
    BY <2>4 DEF RequestsOf
  <2> QED
    BY <2>4, <2>5, <2>7, <2>8 DEF Fresh
<1>4. Read' = Read /\ Begun' = Begun
  BY DEF ApiInv, TypeOK, Read, Begun, EventEnds
<1>5. Tallied'
  BY <1>4 DEF ApiInv, Tallied, EventEnds, main, collector
<1>6. Judged'
  BY <1>4 DEF ApiInv, TypeOK, Judged, EventEnds, collector
<1> QED
  BY <1>1, <1>2, <1>3, <1>5, <1>6 DEF ApiInv

-----------------------------------------------------------------------------
(* The collector                                                           *)

LEMMA CollectInv ==
  ASSUME ApiInv, NEW e \in Events, Collect(e)
  PROVE  ApiInv'
<1> USE DEF Collect, main, timers
<1>1. TypeOK'
  <2>1. collected' \in Nat
    <3>1. collected \in Nat
      BY DEF ApiInv, TypeOK
    <3> QED
      BY <3>1
  <2>2. passed' \in BOOLEAN
    BY DEF ApiInv, TypeOK
  <2> QED
    BY <2>1, <2>2 DEF ApiInv, TypeOK
<1>2. Placed'
  BY DEF ApiInv, TypeOK, Placed
<1>3. Fresh'
  BY DEF ApiInv, Fresh, RequestsOf
<1>4. Read' = Read \cup {e} /\ e \notin Read /\ Begun' = Begun
  BY DEF ApiInv, TypeOK, Read, Begun
<1>5. Tallied'
  <2>1. Cardinality(Read') = Cardinality(Read) + 1
    BY <1>4, FiniteCounts, FS_AddElement
  <2> QED
    BY <1>4, <2>1 DEF ApiInv, Tallied
<1>6. Judged'
  <2>1. \A f \in Events : poller'[f] \in {"sending", "done"} <=> poller[f] \in {"sending", "done"}
    BY DEF ApiInv, TypeOK
  <2>2. passed' <=> \A f \in Read' : ~Spoils(verdict[f])
    BY <1>4 DEF ApiInv, Judged
  <2>3. \A f \in Events :
          /\ poller'[f] \in {"sending", "done"} <=> verdict'[f] # "none"
          /\ poller'[f] = "polling" => ~async'
          /\ verdict'[f] # "none" => (async' <=> verdict'[f] = "started")
          /\ verdict'[f] = "passed" => service'[f] = "passed"
    BY <2>1 DEF ApiInv, TypeOK, Judged
  <2> QED
    BY <2>2, <2>3 DEF Judged
<1> QED
  BY <1>1, <1>2, <1>3, <1>5, <1>6 DEF ApiInv

LEMMA ReturnInv ==
  ASSUME ApiInv, Return
  PROVE  ApiInv'
<1> USE DEF Return, timers, collector
<1>1. TypeOK'
  BY DEF ApiInv, TypeOK
<1>2. Placed'
  BY DEF ApiInv, Placed
<1>3. Fresh'
  BY DEF ApiInv, Fresh, RequestsOf
<1>4. Tallied'
  BY DEF ApiInv, Tallied, Begun, Read
<1>5. Judged'
  BY DEF ApiInv, Judged, Read
<1> QED
  BY <1>1, <1>2, <1>3, <1>4, <1>5 DEF ApiInv
-----------------------------------------------------------------------------
(* The theorems                                                            *)

LEMMA NextApiInv ==
  ASSUME ApiInv, [Next]_vars
  PROVE  ApiInv'
<1>1. ASSUME NEW s \in Suites,
             \/ BeginSuite(s)
             \/ \E r \in Requests[s] : Send(s, r) \/ SendFails(s, r)
             \/ EndSuite(s)
      PROVE  ApiInv'
  BY <1>1, BeginSuiteInv, SendInv, SendFailsInv, EndSuiteInv
<1>2. CASE Main
  BY <1>1, <1>2, AllStartedInv, CollectInv, ReturnInv DEF Main
<1>3. CASE \E e \in Events : Poller(e)
  BY <1>3, PollerInv
<1>4. CASE \E e \in Events, v \in {"passed", "failed"} : EventEnds(e, v)
  BY <1>4, EventEndsInv
<1>5. CASE Advance
  BY <1>5, AdvanceInv
<1>6. CASE UNCHANGED vars
  <2>1. TypeOK' /\ Placed'
    BY <1>6 DEF vars, ApiInv, TypeOK, Placed
  <2>2. Fresh' /\ Tallied' /\ Judged'
    BY <1>6 DEF vars, ApiInv, Fresh, Tallied, Judged, RequestsOf, Begun, Read
  <2> QED
    BY <2>1, <2>2 DEF ApiInv
<1> QED
  BY <1>2, <1>3, <1>4, <1>5, <1>6 DEF Next, Finished

\* Inductive invariant: goroutines, counters and the verdict so far agree with
\* what the API testing service was asked to do.
THEOREM ApiTestInvariant == Spec => []ApiInv
<1>1. Init => ApiInv
  BY InitApiInv
<1>2. ApiInv /\ [Next]_vars => ApiInv'
  BY NextApiInv
<1> QED
  BY <1>1, <1>2, PTL DEF Spec

\* Type correctness of the API test runner.
THEOREM ApiTypeCorrect == Spec => []TypeOK
<1>1. ApiInv => TypeOK
  BY DEF ApiInv
<1> QED
  BY <1>1, ApiTestInvariant, PTL

\* When the collector has as many results as were begun, it has read them all.
LEMMA AllRead ==
  ASSUME ApiInv, phase = "returned"
  PROVE  Read = Begun
<1>1. Read \subseteq Begun
  BY DEF ApiInv, Placed, Read, Begun
<1>2. Cardinality(Read) = Cardinality(Begun)
  BY DEF ApiInv, Tallied
<1> QED
  BY <1>1, <1>2, FiniteCounts, FS_Subset

\* No goroutine is left behind with a result when the API test run returns.
THEOREM ResultsAllRead == Spec => []NothingUnread
<1>1. ApiInv => NothingUnread
  <2> SUFFICES ASSUME ApiInv, phase = "returned", NEW e \in Events,
                      poller[e] # "none"
               PROVE  poller[e] = "done"
    BY DEF NothingUnread
  <2>1. e \in Begun
    BY DEF ApiInv, Placed, Begun
  <2> QED
    BY <2>1, AllRead DEF Read
<1> QED
  BY <1>1, ApiTestInvariant, PTL

\* An API test run passes only if every event begun for it did.
THEOREM PassesArePasses == Spec => []PassMeansPassed
<1>1. ApiInv => PassMeansPassed
  <2> SUFFICES ASSUME ApiInv, phase = "returned", passed, NEW e \in Events,
                      service[e] # "none"
               PROVE  IF async THEN verdict[e] = "started"
                      ELSE verdict[e] = "passed" /\ service[e] = "passed"
    BY DEF PassMeansPassed
  <2>1. e \in Read
    BY AllRead DEF Begun
  <2>2. ~Spoils(verdict[e])
    BY <2>1 DEF ApiInv, Judged
  <2>3. /\ verdict[e] # "none"
        /\ async <=> verdict[e] = "started"
        /\ verdict[e] = "passed" => service[e] = "passed"
    BY <2>1 DEF ApiInv, Judged, Read
  <2>4. verdict[e] \in {"none", "passed", "failed", "error", "timed out", "started"}
    BY DEF ApiInv, TypeOK
  <2> QED
    BY <2>2, <2>3, <2>4 DEF Spoils, Failures
<1> QED
  BY <1>1, ApiTestInvariant, PTL

\* The table's footer and the exit code of an API test run agree.
THEOREM TableIsRight == Spec => []TableAgreesWithExit
<1>1. ApiInv => TableAgreesWithExit
  <2> SUFFICES ASSUME ApiInv
               PROVE  passed <=> TableErrors = {}
    BY DEF TableAgreesWithExit
  <2>1. \A e \in Events :
          verdict[e] \in {"none", "passed", "failed", "error", "timed out", "started"}
    BY DEF ApiInv, TypeOK
  <2>2. \A e \in Read : Spoils(verdict[e])
          <=> Status(verdict[e]) = "failed" \/ verdict[e] = "timed out"
    BY <2>1 DEF Read, Spoils, Status, Failures
  <2>3. TableErrors = {e \in Read : Spoils(verdict[e])}
    BY <2>2 DEF TableErrors, Read
  <2> QED
    BY <2>3 DEF ApiInv, Judged
<1> QED
  BY <1>1, ApiTestInvariant, PTL
-----------------------------------------------------------------------------
(* Seen in time                                                            *)

\* The ticker of a poller is never a full period ahead of it, nor of the moment
\* its event ended at: the next tick after that moment is the one that sees it.
InTime(e) ==
  /\ poller[e] \in {"none", "spawned"} => elapsed[e] = 0 /\ endedAt[e] = 0
  /\ poller[e] = "polling" =>
       /\ interval[e] > 0 /\ elapsed[e] <= nextTick[e]
       /\ nextTick[e] <= elapsed[e] + interval[e]
       /\ service[e] \in {"passed", "failed"} => nextTick[e] <= endedAt[e] + interval[e]

TimeInv == \A e \in Events : InTime(e)

\* The clocks are numbers.
LEMMA Clocks ==
  ASSUME ApiInv, NEW e \in Events
  PROVE  /\ elapsed[e] \in Nat /\ interval[e] \in Nat /\ nextTick[e] \in Nat
         /\ endedAt[e] \in Nat /\ DefaultWait \in Nat
         /\ pollWaitTime \in Nat \ {0}
<1>1. elapsed[e] \in 0..DefaultWait /\ DefaultWait \in Nat
  BY ApiTestAssumption DEF ApiInv, TypeOK
<1>2. elapsed[e] \in Nat
  BY <1>1
<1>3. QED
  BY <1>1, <1>2 DEF ApiInv, TypeOK

\* An event whose clocks and state stay is in time as before.
LEMMA StaysInTime ==
  ASSUME NEW e \in Events, InTime(e),
         poller'[e] = poller[e] \/ (poller[e] = "none" /\ poller'[e] = "spawned"),
         service'[e] = service[e] \/ service'[e] = "running",
         elapsed'[e] = elapsed[e], interval'[e] = interval[e],
         nextTick'[e] = nextTick[e], endedAt'[e] = endedAt[e]
  PROVE  InTime(e)'
BY DEF InTime

\* The main goroutine and the collector leave the clocks alone.
LEMMA MainInTime ==
  ASSUME ApiInv, TimeInv, Main
  PROVE  TimeInv'
<1>1. UNCHANGED <<timers, endedAt>>
  BY DEF Main, BeginSuite, Send, SendFails, EndSuite, AllStarted, Collect, Return
<1>2. \A e \in Events : /\ elapsed'[e] = elapsed[e] /\ interval'[e] = interval[e]
                        /\ nextTick'[e] = nextTick[e] /\ endedAt'[e] = endedAt[e]
  BY <1>1 DEF timers
<1>3. ASSUME NEW s \in Suites, NEW r \in Requests[s], Send(s, r)
      PROVE  TimeInv'
  <2>1. \A e \in Created[r] : e \in Events => service[e] = "none" /\ poller[e] = "none"
    BY <1>3 DEF Send, ApiInv, Fresh, Placed
  <2>2. \A e \in Events :
          /\ poller'[e] = poller[e] \/ (poller[e] = "none" /\ poller'[e] = "spawned")
          /\ service'[e] = service[e] \/ service'[e] = "running"
    BY <1>3, <2>1 DEF Send, Spawned
  <2>3. QED
    BY <1>2, <2>2, StaysInTime DEF TimeInv
<1>4. ASSUME NEW s \in Suites, EndSuite(s)
      PROVE  TimeInv'
  <2>1. \A e \in Events :
          /\ poller'[e] = poller[e] \/ (poller[e] = "none" /\ poller'[e] = "spawned")
          /\ service'[e] = service[e]
    BY <1>4 DEF EndSuite, Spawned, ApiInv, Placed
  <2>2. QED
    BY <1>2, <2>1, StaysInTime DEF TimeInv
<1>5. ASSUME NEW f \in Events, Collect(f)
      PROVE  TimeInv'
  <2>1. poller \in [Events -> {"none", "spawned", "polling", "sending", "done"}]
    BY DEF ApiInv, TypeOK
  <2>2. InTime(f)'
    BY <1>5, <2>1 DEF InTime, Collect
  <2>3. \A e \in Events : e # f => poller'[e] = poller[e] /\ service'[e] = service[e]
    BY <1>5, <2>1 DEF Collect
  <2>4. QED
    BY <1>2, <2>2, <2>3, StaysInTime DEF TimeInv
<1>6. CASE \/ \E s \in Suites : \/ BeginSuite(s)
                                \/ \E r \in Requests[s] : SendFails(s, r)
           \/ AllStarted \/ Return
  <2>1. poller' = poller /\ service' = service
    BY <1>6 DEF BeginSuite, SendFails, AllStarted, Return
  <2>2. QED
    BY <1>2, <2>1, StaysInTime DEF TimeInv
<1>7. QED
  BY <1>3, <1>4, <1>5, <1>6 DEF Main

\* A goroutine that begins, asks or leaves.
LEMMA PollerInTime ==
  ASSUME ApiInv, TimeInv, NEW e \in Events, Poller(e)
  PROVE  TimeInv'
<1>0. /\ poller \in [Events -> {"none", "spawned", "polling", "sending", "done"}]
      /\ elapsed \in [Events -> 0..DefaultWait] /\ endedAt \in [Events -> Nat]
      /\ interval \in [Events -> Nat] /\ nextTick \in [Events -> Nat]
      /\ service' = service /\ InTime(e)
  BY DEF ApiInv, TypeOK, TimeInv, Poller, StartPolling, Announce, NotFound, GetsResult, GivesUp,
         Leaves
<1>1. ASSUME NEW f \in Events, f # e
      PROVE  InTime(f)'
  <2>1. /\ poller'[f] = poller[f] /\ elapsed'[f] = elapsed[f] /\ endedAt'[f] = endedAt[f]
        /\ interval'[f] = interval[f] /\ nextTick'[f] = nextTick[f]
    BY <1>0, <1>1 DEF Poller, StartPolling, Announce, NotFound, GetsResult, GivesUp, Leaves
  <2>2. QED
    BY <1>0, <2>1, StaysInTime DEF TimeInv
<1>2. CASE StartPolling(e)
  <2>1. /\ elapsed'[e] = 0 /\ endedAt'[e] = 0 /\ poller'[e] = "polling"
        /\ interval'[e] = pollWaitTime /\ nextTick'[e] = pollWaitTime
    BY <1>0, <1>2 DEF StartPolling, InTime
  <2>2. InTime(e)'
    BY <2>1, Clocks DEF InTime
  <2>3. QED
    BY <1>1, <2>2 DEF TimeInv
<1>3. CASE NotFound(e)
  <2>1. /\ elapsed'[e] = elapsed[e] /\ endedAt'[e] = endedAt[e] /\ poller'[e] = "polling"
        /\ interval'[e] = interval[e] /\ nextTick'[e] = nextTick[e] + interval[e]
        /\ service'[e] = "running" /\ poller[e] = "polling" /\ elapsed[e] >= nextTick[e]
    BY <1>0, <1>3 DEF NotFound, Ticking
  <2>2. InTime(e)'
    BY <1>0, <2>1, Clocks DEF InTime
  <2>3. QED
    BY <1>1, <2>2 DEF TimeInv
<1>4. CASE \E v : Leaves(e, v)
  <2>1. poller'[e] = "sending"
    BY <1>0, <1>4 DEF Leaves
  <2>2. InTime(e)'
    BY <2>1 DEF InTime
  <2>3. QED
    BY <1>1, <2>2 DEF TimeInv
<1>5. QED
  BY <1>2, <1>3, <1>4 DEF Poller, Announce, GetsResult, GivesUp

\* Time passes only while no tick is due.
LEMMA TimePasses ==
  ASSUME ApiInv, TimeInv, Advance
  PROVE  TimeInv'
<1>1. ASSUME NEW e \in Events
      PROVE  InTime(e)'
  <2>1. /\ poller'[e] = poller[e] /\ service'[e] = service[e] /\ endedAt'[e] = endedAt[e]
        /\ interval'[e] = interval[e] /\ nextTick'[e] = nextTick[e]
        /\ elapsed'[e] = IF poller[e] = "polling" THEN elapsed[e] + 1 ELSE elapsed[e]
    BY DEF Advance
  <2>2. CASE poller[e] = "polling"
    <3>1. ~(elapsed[e] >= nextTick[e])
      BY <2>2 DEF Advance, Ticking
    <3>2. InTime(e)
      BY DEF TimeInv
    <3>3. QED
      BY <2>1, <2>2, <3>1, <3>2, Clocks DEF InTime
  <2>3. CASE poller[e] # "polling"
    BY <2>1, <2>3, StaysInTime DEF TimeInv
  <2>4. QED
    BY <2>2, <2>3
<1>2. QED
  BY <1>1 DEF TimeInv

\* The event ends before the next tick, which is at most a period away.
LEMMA EventEndsInTime ==
  ASSUME ApiInv, TimeInv, NEW e \in Events, NEW v \in {"passed", "failed"}, EventEnds(e, v)
  PROVE  TimeInv'
<1>0. /\ service \in [Events -> {"none", "running", "passed", "failed"}]
      /\ endedAt \in [Events -> Nat]
      /\ poller' = poller /\ elapsed' = elapsed /\ interval' = interval /\ nextTick' = nextTick
  BY DEF ApiInv, TypeOK, EventEnds, timers
<1>1. endedAt'[e] = elapsed[e]
  BY <1>0 DEF EventEnds
<1>2. InTime(e)'
  BY <1>0, <1>1 DEF TimeInv, InTime
<1>3. \A f \in Events : f # e => service'[f] = service[f] /\ endedAt'[f] = endedAt[f]
  BY <1>0 DEF EventEnds
<1>4. QED
  BY <1>0, <1>2, <1>3, StaysInTime DEF TimeInv

\* Every step keeps the tickers in time.
LEMMA NextInTime ==
  ASSUME ApiInv, TimeInv, [Next]_vars
  PROVE  TimeInv'
<1>1. CASE UNCHANGED vars
  BY <1>1 DEF vars, TimeInv, InTime
<1>2. QED
  BY <1>1, MainInTime, PollerInTime, TimePasses, EventEndsInTime DEF Next, Finished

\* The goroutine of the event gives up in this step.
TimesOut(e) == verdict[e] = "none" /\ verdict'[e] = "timed out"

\* A goroutine that gives up on an event that has ended was not asked to look
\* again before the deadline.
LEMMA GivesUpLate ==
  ASSUME ApiInv, TimeInv, [Next]_vars, NEW e \in Events, TimesOut(e)
  PROVE  service[e] = "running" \/ endedAt[e] + interval[e] >= DefaultWait
<1>0. verdict \in [Events -> {"none", "passed", "failed", "error", "timed out", "started"}]
  BY DEF ApiInv, TypeOK
<1>1. Expired(e)
  <2>1. CASE \E f \in Events : Poller(f)
    <3>1. PICK f \in Events : Poller(f)
      BY <2>1
    <3>2. CASE StartPolling(f) \/ NotFound(f)
      BY <3>2 DEF TimesOut, StartPolling, NotFound
    <3>3. CASE \E v \in {"passed", "failed", "error", "started"} : Leaves(f, v)
      BY <1>0, <3>3 DEF TimesOut, Leaves
    <3>4. CASE GivesUp(f)
      BY <1>0, <3>4 DEF TimesOut, GivesUp, Leaves
    <3>5. QED
      BY <3>1, <3>2, <3>3, <3>4 DEF Poller, Announce, GetsResult
  <2>2. CASE ~\E f \in Events : Poller(f)
    <3>1. verdict' = verdict
      BY <2>2 DEF Next, Main, BeginSuite, Send, SendFails, EndSuite, AllStarted, Collect, Return,
                  EventEnds, Advance, Finished, vars
    <3>2. QED
      BY <3>1 DEF TimesOut
  <2>3. QED
    BY <2>1, <2>2
<1>2. poller[e] = "polling" /\ elapsed[e] >= DefaultWait
  BY <1>1 DEF Expired
<1>3. service[e] \in {"running", "passed", "failed"}
  BY <1>2 DEF ApiInv, TypeOK, Placed
<1>4. /\ elapsed[e] <= nextTick[e]
      /\ service[e] # "running" => nextTick[e] <= endedAt[e] + interval[e]
  BY <1>2, <1>3 DEF TimeInv, InTime
<1>5. QED
  BY <1>2, <1>4, Clocks

\* No event that ended a full poll interval before the deadline is given up on.
THEOREM SeenBeforeDeadline == Spec => SeenInTime
<1>1. Init => TimeInv
  BY DEF Init, TimeInv, InTime
<1>2. ApiInv /\ TimeInv /\ [Next]_vars => TimeInv'
  BY NextInTime
<1>3. ApiInv /\ TimeInv /\ [Next]_vars =>
        [\A e \in Events :
           verdict[e] = "none" /\ verdict'[e] = "timed out" =>
             service[e] = "running" \/ endedAt[e] + interval[e] >= DefaultWait]_vars
  BY GivesUpLate DEF TimesOut
<1>4. QED
  BY <1>1, <1>2, <1>3, ApiTestInvariant, PTL DEF Spec, SeenInTime
=============================================================================
