----------------------------- MODULE MCApiTest -----------------------------
(* A local suite with one test and a timeout of its own, and a remote one  *)
(* whose single request creates two events.                                *)
EXTENDS ApiTest, TLC

CONSTANTS local, remote, test, project, e1, e2, e3

RequestsMC == local :> {test} @@ remote :> {project}
CreatedMC == test :> {e1} @@ project :> {e2, e3}
TimeoutMC == local :> 2 @@ remote :> 0
=============================================================================
