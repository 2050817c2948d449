---------------------------- MODULE MCIndexStore ----------------------------
(***************************************************************************)
(* What the jobs share beyond a run: mixes of three jobs over one index    *)
(* and its backup, and mixes of three over the copies in S3.               *)
(***************************************************************************)
EXTENDS IndexStore, TLC

CONSTANTS job1, job2, job3

Mix(x, y, z) == job1 :> x @@ job2 :> y @@ job3 :> z
JobMixes == {Mix("parse", "update", "read"), Mix("update", "backup", "read"), Mix("update", "backup", "kept"),
             Mix("backup", "backup", "scratch"), Mix("update", "backup", "scratch"), Mix("update", "kept", "kept"),
             Mix("update", "update", "backup"), Mix("parse", "parse", "backup")}
\* <<height of the index, height of the backup>>
Lives == {<<0, 0>>, <<1, 0>>, <<1, 1>>, <<2, 1>>, <<0, 1>>}
ActorMixes == {Mix("publisher", "publisher", "cacheReader"), Mix("mirror", "baseline", "attach"),
               Mix("attach", "attach", "mirror"), Mix("packer", "packer", "parser"), Mix("packer", "parser", "parser")}
=============================================================================
