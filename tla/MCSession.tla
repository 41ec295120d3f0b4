----------------------------- MODULE MCSession -----------------------------
(* A small instance of Session: two suites, and every kind of run.         *)
EXTENDS Session

CONSTANTS s1, s2
=============================================================================
