--------------------------- MODULE MCCloudRunner ---------------------------
(* Small instances of CloudRunner: two or three suites, two workers.       *)
EXTENDS CloudRunner, TLC

CONSTANTS s1, s2, s3, w1, w2

AllVirtual == [s \in Suites |-> FALSE]
OneReal == [s \in Suites |-> s = s2]

ThresholdOne == [s \in Suites |-> 1]
ThresholdMixed == [s \in Suites |-> IF s = s1 THEN 1 ELSE 2]
ThresholdUnset == [s \in Suites |-> 0]

WorkerSymmetry == Permutations(Workers)
=============================================================================
