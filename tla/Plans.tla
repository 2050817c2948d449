------------------------------- MODULE Plans --------------------------------
(***************************************************************************)
(* What a plan promises before anything runs: the stage graphs and the     *)
(* jobs of a submission (StagePlan), and the block files of a parse or an  *)
(* update (BlockArchive).                                                  *)
(*                                                                         *)
(* The input is one of                                                     *)
(*   [kind |-> "archive", sidecars, request, changed]                      *)
(*   [kind |-> "graph", stages]                                            *)
(*   [kind |-> "configuration", c]   an S3 submission.                     *)
(***************************************************************************)
EXTENDS Reports, BlockArchive

\* Files in the order of their numbers, with the heights they hold, and a request on them.
Archive(sidecars) ==
    /\ sidecars \in Seq([number : Nat, size : Nat \cup {None}, sha256 : Nat \cup {None},
                         ranges : {R \in SUBSET (Nat \X Nat) : IsFiniteSet(R)}])
    /\ \A i, j \in DOMAIN sidecars : i < j => sidecars[i].number < sidecars[j].number

Request(request) ==
    /\ request.max_block \in Nat
    /\ request.source # None => request.source.max_block \in Nat /\ request.source.last_file \in Nat

\* A name of its own for every stage.
StageGraph(stages) ==
    /\ stages \in Seq([name : STRING, kind : STRING, runner : STRING, after : SUBSET STRING])
    /\ \A i, j \in DOMAIN stages : stages[i].name = stages[j].name => i = j

\* The configurations that reach a submission.
Submission(c) == validate(c) /\ c.task \in Tasks /\ c.workflow \in Workflows

\* The inputs the facts below are about.
PlanTyped ==
    /\ input.kind = "archive" => Archive(input.sidecars) /\ Request(input.request) /\ input.changed \in Nat \ {0}
    /\ input.kind = "graph" => StageGraph(input.stages)
    /\ input.kind = "configuration" => Submission(input.c)

\* The selection of block files keeps the coverage of the archive (block_archive.py:160-172).
ArchiveCovers == input.kind = "archive" => SelectionKeepsCoverage(input.sidecars, input.request)

\* Block files an index has seen cannot change under it (block_archive.py:120-125).
ArchivePinned == input.kind = "archive" => IndexedFilesPinned(input.sidecars, input.request, input.changed)

\* Stage graphs are ordered and blocked along their dependencies (stages.py:87-142).
GraphOrdered == input.kind = "graph" => OrderIsTopological(input.stages)

\* The jobs of an accepted configuration find their inputs (s3_submission.py:293-322).
InputsFound == input.kind = "configuration" => JobsFindTheirInputs(input.c)

\* Concurrent jobs of an accepted configuration share no output (stages.py:244-285).
NoRace == input.kind = "configuration" => JobsDoNotRace(input.c)

\* A renderer refuses an accepted configuration before its first job (templates_s3.py:333-481).
RefusedInTime == input.kind = "configuration" => RefusedBeforeTheFirstJob(input.c)

\* Every job finds its inputs, written by the jobs before it and by no other, block files and
\* stages' artifacts; what a renderer refuses, it refuses before any job runs.
InputsArePresent ==
    /\ PlanTyped /\ ArchiveCovers /\ ArchivePinned /\ GraphOrdered /\ InputsFound /\ NoRace /\ RefusedInTime
=============================================================================
