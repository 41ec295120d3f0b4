----------------------------- MODULE MCReports -----------------------------
(* Suites whose names make one folder, one of them on a real device; tests *)
(* of one name in one element, and of one name in two.                     *)
EXTENDS Reports

CONSTANTS s1, s2

MCFolder == [s \in {s1, s2} |-> "suite"]
MCRealDevice == [s \in {s1, s2} |-> s = s2]
MCEarlier == {<<"suite", 0>>}

\* Tests 1 and 2 are not told apart.
MCElement == <<"A", "A", "B">>
MCCaseName == <<"test", "test", "test">>

Both ==
  [threshold |-> [s \in {s1, s2} |-> 1], tests |-> {1}, says |-> {"passed", "failure"},
   retries |-> 0, async |-> FALSE, when |-> "always", allAttempts |-> TRUE]

\* A test of either element is run again, with its namesake or without.
Retried ==
  [Both EXCEPT !.threshold = [s \in {s1} |-> 1], !.tests = {1, 2, 3}, !.retries = 1]

\* The device has to pass twice.
Twice == [Both EXCEPT !.threshold = [s \in {s2} |-> 2], !.retries = 1]

\* Every kind of result.
Varied == [Twice EXCEPT !.threshold = [s \in {s1} |-> 1], !.says = Verdicts]

\* One that nothing is asked of, and one that is to pass.
Replay == [Both EXCEPT !.threshold = [s \in {s1, s2} |-> IF s = s1 THEN 0 ELSE 1]]

MCProjects ==
  {Retried, Twice, Varied, Both, Replay, [Both EXCEPT !.async = TRUE],
   [Both EXCEPT !.retries = 1, !.when = "fail", !.allAttempts = FALSE]}
=============================================================================
