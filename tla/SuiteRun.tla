------------------------------ MODULE SuiteRun ------------------------------
(***************************************************************************)
(* What a run of saucectl promises, whatever pool of goroutines carries it *)
(* out: it starts jobs for a suite, each for an attempt of its own, only   *)
(* while the suite is not reported; every suite is reported once; the      *)
(* verdict comes last, and is never "pass" when a suite was reported as    *)
(* failed.                                                                 *)
(***************************************************************************)
EXTENDS Integers

CONSTANTS
  Suites,
  Attempts,    \* the numbers of the attempts a suite may take
  Statuses     \* what a suite may be reported as

VARIABLES
  started,   \* suite -> the attempts a job was started for
  entry,     \* suite -> "open", or what it was reported as
  verdict    \* "pending", "pass" or "fail"

vars == <<started, entry, verdict>>

Init ==
  /\ started = [s \in Suites |-> {}]
  /\ entry = [s \in Suites |-> "open"]
  /\ verdict = "pending"

StartJob(s) ==
  /\ verdict = "pending"
  /\ entry[s] = "open"
  /\ \E a \in Attempts \ started[s] : started' = [started EXCEPT ![s] = @ \cup {a}]
  /\ UNCHANGED <<entry, verdict>>

Report(s) ==
  /\ verdict = "pending"
  /\ entry[s] = "open"
  /\ \E status \in Statuses : entry' = [entry EXCEPT ![s] = status]
  /\ UNCHANGED <<started, verdict>>

Conclude ==
  /\ verdict = "pending"
  /\ \A s \in Suites : entry[s] # "open"
  /\ \/ verdict' = "fail"
     \/ /\ \A s \in Suites : entry[s] # "failed"
        /\ verdict' = "pass"
  /\ UNCHANGED <<started, entry>>

Next ==
  \/ \E s \in Suites : StartJob(s) \/ Report(s)
  \/ Conclude

Spec == Init /\ [][Next]_vars
=============================================================================
