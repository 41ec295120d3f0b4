---------------------------- MODULE MCSmartRetry ----------------------------
(* Two suites with two or three tests; the filter cells are theirs alone,  *)
(* or one cell is shared as by the devices of an espresso suite.           *)
EXTENDS SmartRetry, TLC

CONSTANTS s1, s2, t1, t2, t3

\* The second suite is there to interfere with the first.
MixedBundle == [s \in Suites |-> IF s = s1 THEN Tests ELSE {t1}]
SameBundle == [s \in Suites |-> Tests]

OwnCell == [s \in Suites |-> s]
OneCell == [s \in Suites |-> s1]

NoFilter == [c \in Cells |-> Tests]
ClassFilter == [c \in Cells |-> IF c = s1 THEN Tests \ {t1} ELSE Tests]

ThresholdOne == [s \in Suites |-> 1]
ThresholdMixed == [s \in Suites |-> IF s = s1 THEN 1 ELSE 2]
=============================================================================
