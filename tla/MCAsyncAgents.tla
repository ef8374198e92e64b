---------------------------- MODULE MCAsyncAgents -----------------------------
(***************************************************************************)
(* Two agents; two factories or none; a limit of one retry, or none.       *)
(***************************************************************************)
EXTENDS AsyncAgents

MCFactoryCounts == {0, 2}
MCRetries == {0, 1}
=============================================================================
