----------------------------- MODULE UiClientMC -----------------------------
(***************************************************************************)
(* A page, a run that escalates and completes, a run that fails, and a run *)
(* of an earlier lifetime of the server.                                   *)
(***************************************************************************)
EXTENDS UiClient, TLC

CONSTANTS r1, r2

MCScript == (r1 :> <<"run_started", "escalation", "run_completed">>)
         @@ (r2 :> <<"run_started", "node_update", "run_failed">>)
=============================================================================
