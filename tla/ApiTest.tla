------------------------------ MODULE ApiTest ------------------------------
(***************************************************************************)
(* internal/apitest: the runner of API tests.  Unlike the other frameworks *)
(* it has no worker pool: suites are started one after the other, every    *)
(* event the service creates for them gets a goroutine that polls for its  *)
(* result, and the main goroutine then collects as many results as it has  *)
(* counted while starting.                                                 *)
(*                                                                         *)
(* Suites and requests are sets that are worked through in any order: the  *)
(* order is that of the configuration, and any is possible.  Time passes   *)
(* in units; it does not pass while a timer of a poller is due, that is,   *)
(* the answers of the service are quick compared to the poll interval.     *)
(* Taken as given: the service creates one event for a local test, and as  *)
(* many tests as events for a remote request.  A local suite that matches  *)
(* no test has no requests.                                                *)
(***************************************************************************)
EXTENDS Integers, FiniteSets

CONSTANTS
  Suites,
  Local,        \* the suites that run tests of the local disk
  Requests,     \* suite -> the requests that start its tests
  Created,      \* request -> the events the service creates for it
  Timeout,      \* suite -> its timeout; 0: none
  PollWaitTime, \* initial value of the package variable pollWaitTime
  DefaultWait   \* pollDefaultWait

RequestsOf(S) == UNION {Requests[s] : s \in S}
Events == UNION {Created[r] : r \in RequestsOf(Suites)}

ASSUME ApiTestAssumption ==
  /\ Local \subseteq Suites
  /\ \A s, t \in Suites : s # t => Requests[s] \cap Requests[t] = {}
  /\ \A q, r \in RequestsOf(Suites) : q # r => Created[q] \cap Created[r] = {}
  /\ \A r \in RequestsOf(Local) : Cardinality(Created[r]) = 1
  /\ IsFiniteSet(Events)
  /\ Timeout \in [Suites -> Nat]
  /\ PollWaitTime \in Nat \ {0}
  /\ DefaultWait \in Nat \ {0}

VARIABLES
  async,         \* --async
  phase,         \* of the main goroutine
  waiting,       \* suites still to be started
  suite,         \* the suite being started; {}: none
  todo,          \* its requests still to be sent
  eventIDs,      \* events of a local suite whose polling has not been started
  pollWaitTime,  \* the package variable
  expected,      \* results the collector will wait for
  poller,        \* event -> its goroutine
  elapsed,       \* event -> time since its goroutine began to poll, while it polls
  interval,      \* event -> period of its ticker; 0: none
  nextTick,      \* event -> when the ticker fires next
  service,       \* event -> its state in the API testing service
  endedAt,       \* event -> elapsed when it ended, while its goroutine polls
  verdict,       \* event -> the result its goroutine has for it
  collected,     \* results the collector has read
  passed

vars == <<async, phase, waiting, suite, todo, eventIDs, pollWaitTime, expected, poller,
          elapsed, interval, nextTick, service, endedAt, verdict, collected, passed>>

main == <<phase, waiting, suite, todo, eventIDs, pollWaitTime, expected>>
timers == <<elapsed, interval, nextTick>>
collector == <<collected, passed>>

Init ==
  /\ async \in BOOLEAN
  /\ phase = "starting"
  /\ waiting = Suites
  /\ suite = {}
  /\ todo = {}
  /\ eventIDs = {}
  /\ pollWaitTime = PollWaitTime
  /\ expected = 0
  /\ poller = [e \in Events |-> "none"]
  /\ elapsed = [e \in Events |-> 0]
  /\ interval = [e \in Events |-> 0]
  /\ nextTick = [e \in Events |-> 0]
  /\ service = [e \in Events |-> "none"]
  /\ endedAt = [e \in Events |-> 0]
  /\ verdict = [e \in Events |-> "none"]
  /\ collected = 0
  /\ passed = TRUE

-----------------------------------------------------------------------------
(* The main goroutine starts the suites                                    *)

\* The timeout of a suite becomes the poll interval, of this suite and of all that
\* follow; the time a poller waits at most is always the default.
BeginSuite(s) ==
  /\ phase = "starting"
  /\ suite = {}
  /\ s \in waiting
  /\ waiting' = waiting \ {s}
  /\ suite' = {s}
  /\ todo' = Requests[s]
  /\ pollWaitTime' = IF Timeout[s] # 0 THEN Timeout[s] ELSE pollWaitTime
  /\ UNCHANGED <<async, phase, eventIDs, expected, poller, timers, service, endedAt,
                 verdict, collector>>

\* The goroutines for the events E are started.
Spawned(E) == [e \in Events |-> IF e \in E THEN "spawned" ELSE poller[e]]

\* Mutation: a remote request counts as one result.
Expect_Requests(s, r) == expected + 1

\* A local test counts as one result, a remote request as many as it has events.
Expect(s, r) == IF s \in Local THEN expected + 1 ELSE expected + Cardinality(Created[r])

\* The request for r is accepted.  Remote events are polled at once, local ones when
\* all tests of the suite have been sent.
Send(s, r) ==
  /\ phase = "starting"
  /\ suite = {s}
  /\ r \in todo
  /\ todo' = todo \ {r}
  /\ service' = [e \in Events |-> IF e \in Created[r] THEN "running" ELSE service[e]]
  /\ expected' = Expect(s, r)
  /\ IF s \in Local THEN /\ eventIDs' = eventIDs \cup Created[r]
                         /\ UNCHANGED poller
     ELSE /\ poller' = Spawned(Created[r])
          /\ UNCHANGED eventIDs
  /\ UNCHANGED <<async, phase, waiting, suite, pollWaitTime, timers, endedAt, verdict,
                 collector>>

\* The request fails: that is logged, and nothing else.
SendFails(s, r) ==
  /\ phase = "starting"
  /\ suite = {s}
  /\ r \in todo
  /\ todo' = todo \ {r}
  /\ UNCHANGED <<async, phase, waiting, suite, eventIDs, pollWaitTime, expected, poller,
                 timers, service, endedAt, verdict, collector>>

EndSuite(s) ==
  /\ phase = "starting"
  /\ suite = {s}
  /\ todo = {}
  /\ suite' = {}
  /\ eventIDs' = {}
  /\ poller' = Spawned(eventIDs)
  /\ UNCHANGED <<async, phase, waiting, todo, pollWaitTime, expected, timers, service,
                 endedAt, verdict, collector>>

AllStarted ==
  /\ phase = "starting"
  /\ suite = {}
  /\ waiting = {}
  /\ phase' = "collecting"
  /\ UNCHANGED <<async, waiting, suite, todo, eventIDs, pollWaitTime, expected, poller,
                 timers, service, endedAt, verdict, collector>>

-----------------------------------------------------------------------------
(* Pollers                                                                 *)

\* The goroutine begins: it reads pollWaitTime now, after the main goroutine may
\* have set it for another suite.
StartPolling(e) ==
  /\ ~async
  /\ poller[e] = "spawned"
  /\ poller' = [poller EXCEPT ![e] = "polling"]
  /\ interval' = [interval EXCEPT ![e] = pollWaitTime]
  /\ nextTick' = [nextTick EXCEPT ![e] = pollWaitTime]
  /\ UNCHANGED <<async, main, elapsed, service, endedAt, verdict, collector>>

\* The goroutine leaves its loop with the result v; its timers are gone.
Leaves(e, v) ==
  /\ poller' = [poller EXCEPT ![e] = "sending"]
  /\ verdict' = [verdict EXCEPT ![e] = v]
  /\ elapsed' = [elapsed EXCEPT ![e] = 0]
  /\ nextTick' = [nextTick EXCEPT ![e] = 0]
  /\ interval' = [interval EXCEPT ![e] = 0]
  /\ endedAt' = [endedAt EXCEPT ![e] = 0]
  /\ UNCHANGED <<async, main, service, collector>>

\* With --async the goroutine only announces the test.
Announce(e) ==
  /\ async
  /\ poller[e] = "spawned"
  /\ Leaves(e, "started")

Ticking(e) == poller[e] = "polling" /\ elapsed[e] >= nextTick[e]
Expired(e) == poller[e] = "polling" /\ elapsed[e] >= DefaultWait

\* Mutation: an event that is not there yet is asked for half as often.
NotFound_Backoff(e) ==
  /\ Ticking(e)
  /\ service[e] = "running"
  /\ nextTick' = [nextTick EXCEPT ![e] = @ + 2 * interval[e]]
  /\ UNCHANGED <<async, main, poller, elapsed, interval, service, endedAt, verdict, collector>>

\* The event is not there yet: wait for the next tick.
NotFound(e) ==
  /\ Ticking(e)
  /\ service[e] = "running"
  /\ nextTick' = [nextTick EXCEPT ![e] = @ + interval[e]]
  /\ UNCHANGED <<async, main, poller, elapsed, interval, service, endedAt, verdict, collector>>

\* The result v is there, or the request for it fails.
GetsResult(e, v) ==
  /\ Ticking(e)
  /\ v \in {service[e], "error"} \ {"running"}
  /\ Leaves(e, v)

\* Mutation: the goroutine gives up without a result.
GivesUp_Silent(e) ==
  /\ Expired(e)
  /\ poller' = [poller EXCEPT ![e] = "done"]
  /\ verdict' = [verdict EXCEPT ![e] = "timed out"]
  /\ UNCHANGED <<async, main, timers, service, endedAt, collector>>

\* When a tick is due as well, select picks one of the two.
GivesUp(e) ==
  /\ Expired(e)
  /\ Leaves(e, "timed out")

\* Mutation: time passes while the deadline of a poller is due.
Advance_Late ==
  /\ \E e \in Events : poller[e] = "polling"
  /\ \A e \in Events : ~Ticking(e)
  /\ elapsed' = [e \in Events |-> IF poller[e] = "polling" THEN elapsed[e] + 1 ELSE elapsed[e]]
  /\ UNCHANGED <<async, main, poller, interval, nextTick, service, endedAt, verdict, collector>>

Advance ==
  /\ \E e \in Events : poller[e] = "polling"
  /\ \A e \in Events : ~Ticking(e) /\ ~Expired(e)
  /\ elapsed' = [e \in Events |-> IF poller[e] = "polling" THEN elapsed[e] + 1 ELSE elapsed[e]]
  /\ UNCHANGED <<async, main, poller, interval, nextTick, service, endedAt, verdict, collector>>

\* The service is done with an event.  Once its goroutine has left, nobody asks.
EventEnds(e, v) ==
  /\ service[e] = "running"
  /\ verdict[e] = "none"
  /\ v \in {"passed", "failed"}
  /\ service' = [service EXCEPT ![e] = v]
  /\ endedAt' = [endedAt EXCEPT ![e] = elapsed[e]]
  /\ UNCHANGED <<async, main, poller, timers, verdict, collector>>

-----------------------------------------------------------------------------
(* The collector                                                           *)

\* FailuresCount > 0: the test failed, or its result could not be had.
Failures(v) == v \in {"failed", "error"}

\* Mutation: only failures count.
Spoils_FailuresOnly(v) == Failures(v)

Spoils(v) == Failures(v) \/ v = "timed out"

\* The status handed to the reporters.
Status(v) == IF Failures(v) THEN "failed" ELSE IF v = "started" THEN "in progress" ELSE "passed"

Collect(e) ==
  /\ phase = "collecting"
  /\ collected < expected
  /\ poller[e] = "sending"
  /\ poller' = [poller EXCEPT ![e] = "done"]
  /\ collected' = collected + 1
  /\ passed' = (passed /\ ~Spoils(verdict[e]))
  /\ UNCHANGED <<async, main, timers, service, endedAt, verdict>>

Return ==
  /\ phase = "collecting"
  /\ collected = expected
  /\ phase' = "returned"
  /\ UNCHANGED <<async, waiting, suite, todo, eventIDs, pollWaitTime, expected, poller,
                 timers, service, endedAt, verdict, collector>>

Finished == phase = "returned" /\ UNCHANGED vars

Main ==
  \/ \E s \in Suites :
       \/ BeginSuite(s)
       \/ \E r \in Requests[s] : Send(s, r) \/ SendFails(s, r)
       \/ EndSuite(s)
  \/ AllStarted
  \/ \E e \in Events : Collect(e)
  \/ Return

Poller(e) ==
  \/ StartPolling(e)
  \/ Announce(e)
  \/ NotFound(e)
  \/ \E v \in {"passed", "failed", "error"} : GetsResult(e, v)
  \/ GivesUp(e)

Next ==
  \/ Main
  \/ \E e \in Events : Poller(e)
  \/ \E e \in Events, v \in {"passed", "failed"} : EventEnds(e, v)
  \/ Advance
  \/ Finished

\* Goroutines are scheduled and time passes; nothing makes the service end an event.
Fairness ==
  /\ WF_vars(Main)
  /\ \A e \in Events : WF_vars(Poller(e))
  /\ WF_vars(Advance)

Spec == Init /\ [][Next]_vars /\ Fairness

-----------------------------------------------------------------------------
(* Properties                                                              *)

TypeOK ==
  /\ async \in BOOLEAN
  /\ phase \in {"starting", "collecting", "returned"}
  /\ waiting \subseteq Suites
  /\ suite \in {{}} \cup {{s} : s \in Suites}
  /\ todo \subseteq RequestsOf(Suites)
  /\ eventIDs \subseteq Events
  /\ pollWaitTime \in Nat \ {0}
  /\ expected \in Nat
  /\ poller \in [Events -> {"none", "spawned", "polling", "sending", "done"}]
  /\ elapsed \in [Events -> 0..DefaultWait]
  /\ interval \in [Events -> Nat]
  /\ nextTick \in [Events -> Nat]
  /\ service \in [Events -> {"none", "running", "passed", "failed"}]
  /\ endedAt \in [Events -> Nat]
  /\ verdict \in [Events -> {"none", "passed", "failed", "error", "timed out", "started"}]
  /\ collected \in Nat
  /\ passed \in BOOLEAN

(***************************************************************************)
(* The inductive invariant behind the safety properties.                   *)
(***************************************************************************)
Begun == {e \in Events : service[e] # "none"}
Read == {e \in Events : poller[e] = "done"}

\* An event that was created has a goroutine, or will have when its suite ends.
Placed ==
  /\ \A e \in Events :
       /\ e \in eventIDs \/ poller[e] # "none" <=> service[e] # "none"
       /\ e \in eventIDs => poller[e] = "none"
  /\ suite = {} => eventIDs = {}
  /\ phase # "starting" => suite = {}

\* No request is sent twice.
Fresh ==
  /\ \A r \in todo \cup RequestsOf(waiting) : \A e \in Created[r] : service[e] = "none"
  /\ suite \cap waiting = {}
  /\ todo \subseteq RequestsOf(suite)

Tallied ==
  /\ expected = Cardinality(Begun)
  /\ collected = Cardinality(Read)
  /\ phase = "returned" => collected = expected

Judged ==
  /\ \A e \in Events :
       /\ poller[e] \in {"sending", "done"} <=> verdict[e] # "none"
       /\ poller[e] = "polling" => ~async
       /\ verdict[e] # "none" => (async <=> verdict[e] = "started")
       /\ verdict[e] = "passed" => service[e] = "passed"
  /\ passed <=> \A e \in Read : ~Spoils(verdict[e])

ApiInv == TypeOK /\ Placed /\ Fresh /\ Tallied /\ Judged

\* The results that were counted are those that arrive: when the run returns no
\* goroutine is left that holds or still waits for a result.
NothingUnread ==
  phase = "returned" => \A e \in Events : poller[e] \in {"none", "done"}

\* A run that passes has seen every event that was started for it pass; with
\* --async, start.
PassMeansPassed ==
  phase = "returned" /\ passed =>
    \A e \in Events : service[e] # "none" =>
      IF async THEN verdict[e] = "started" ELSE verdict[e] = "passed" /\ service[e] = "passed"

\* An event that ends a full poll interval before the deadline is not reported as
\* timed out, whichever suite the interval was set for.
SeenInTime ==
  [][\A e \in Events :
       verdict[e] = "none" /\ verdict'[e] = "timed out" =>
         service[e] = "running" \/ endedAt[e] + interval[e] >= DefaultWait]_vars

\* The table reporter's footer counts the failed and the timed out results.
TableErrors ==
  {e \in Events : poller[e] = "done" /\ (Status(verdict[e]) = "failed" \/ verdict[e] = "timed out")}

\* The summary table names a failed suite exactly when the exit code says so.
TableAgreesWithExit == phase = "returned" => (passed <=> TableErrors = {})

\* Whatever the service answers or leaves unanswered, the run returns.
RunReturns == <>(phase = "returned")
=============================================================================
