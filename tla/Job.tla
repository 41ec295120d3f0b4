------------------------------- MODULE Job -------------------------------
(***************************************************************************)
(* internal/job/job.go: the states of a cloud job and what the client      *)
(* makes of them, together with the two parsers that build a job.Job from  *)
(* an API response (internal/http/resto.go, internal/http/rdcservice.go).  *)
(* Only the fields a decision is taken on are kept.                        *)
(***************************************************************************)

\* The states a job of either cloud can be in.
StateNew == "new"
StateQueued == "queued"
StateInProgress == "in progress"
StateComplete == "complete"
StateError == "error"
StateUnknown == "?"

\* The two states only the real device cloud reports.
StatePassed == "passed"
StateFailed == "failed"

\* The zero value of a Go string: a job.Job nobody filled in.
NoState == ""

DoneStates == {StateComplete, StateError, StatePassed, StateFailed}

States == {StateNew, StateQueued, StateInProgress, StateComplete, StateError,
           StateUnknown, StatePassed, StateFailed, NoState}

Jobs == [status : States, passed : BOOLEAN, completed : BOOLEAN,
         isRDC : BOOLEAN, timedOut : BOOLEAN, hasID : BOOLEAN]

\* job.Job{}.
NoJob == [status |-> NoState, passed |-> FALSE, completed |-> FALSE,
          isRDC |-> FALSE, timedOut |-> FALSE, hasID |-> FALSE]

\* job.Job{Status: job.StateError}, the job of a failed StartJob.
ErrorJob == [NoJob EXCEPT !.status = StateError]

Done(status) == status \in DoneStates

IsSuccessful(j) == j.passed \/ (j.isRDC /\ j.completed)

TotalStatus(j) ==
  CASE ~Done(j.status) -> j.status
    [] Done(j.status) /\ j.isRDC /\ j.completed -> StateComplete
    [] Done(j.status) /\ ~(j.isRDC /\ j.completed) /\ j.passed -> StatePassed
    [] OTHER -> StateFailed

(***************************************************************************)
(* What a device cloud knows of a job it was asked to run.  The virtual    *)
(* device cloud ends a job as "complete" with a verdict of its own, or as  *)
(* "error"; the real device cloud has no verdict besides the status.       *)
(***************************************************************************)
Outcomes(rdc) ==
  IF rdc THEN {StatePassed, StateFailed, StateComplete, StateError}
         ELSE {StatePassed, StateFailed, StateError}

\* Resto.parseJob.
RestoJob(outcome) ==
  LET status == CASE outcome \in {StatePassed, StateFailed} -> StateComplete
                  [] OTHER -> outcome
  IN  [status |-> status, passed |-> outcome = StatePassed,
       completed |-> status = StateComplete, isRDC |-> FALSE,
       timedOut |-> FALSE, hasID |-> TRUE]

\* RDCService.parseJob.
RDCJob(outcome) ==
  [status |-> outcome, passed |-> outcome = StatePassed,
   completed |-> outcome = StateComplete, isRDC |-> TRUE,
   timedOut |-> FALSE, hasID |-> TRUE]

\* The job a status request answers with.
ParseJob(rdc, outcome) == IF rdc THEN RDCJob(outcome) ELSE RestoJob(outcome)

\* An outcome a suite owner would call a success: what IsSuccessful accepts.
Successful(rdc, outcome) == IsSuccessful(ParseJob(rdc, outcome))
=============================================================================
