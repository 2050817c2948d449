------------------------------ MODULE MCS3Run ------------------------------
(***************************************************************************)
(* Stage graphs of s3_full_run_plan for one run ID: a full-run alone, and  *)
(* a full-run whose run ID pbs-from-s3 submits too.                        *)
(***************************************************************************)
EXTENDS S3Run, TLC

CONSTANTS full, resume

\* Two analyzers and their report, one full-run.
Fork == <<"coinjoin-analysis", "blocksci", "unified-report">>
ForkDeps == "coinjoin-analysis" :> {} @@ "blocksci" :> {}
            @@ "unified-report" :> {"coinjoin-analysis", "blocksci"}
ForkSelected == full :> {"coinjoin-analysis", "blocksci", "unified-report"}

\* A baseline from an earlier run: the report waits for BlockSci alone.
Chain == <<"blocksci", "unified-report">>
ChainDeps == "blocksci" :> {} @@ "unified-report" :> {"blocksci"}
ChainSelected == full :> {"blocksci", "unified-report"} @@ resume :> {"blocksci", "unified-report"}
=============================================================================
