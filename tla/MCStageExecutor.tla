-------------------------- MODULE MCStageExecutor --------------------------
(***************************************************************************)
(* analysis_plan without coinjoin-analysis on PBS, and a mappings command  *)
(* for the same run directory.                                             *)
(***************************************************************************)
EXTENDS StageExecutor

MCOrder == <<"analysis", "blocksci", "mappings", "report">>
MCDeps == [analysis |-> {}, blocksci |-> {}, mappings |-> {"analysis"},
           report |-> {"analysis", "blocksci", "mappings"}]
MCPlan == [full |-> {"analysis", "blocksci", "mappings", "report"}, again |-> {"mappings"}]
=============================================================================
