------------------------------ MODULE Reports ------------------------------
(***************************************************************************)
(* What a report is made from and what it may claim: the run, the worker   *)
(* arguments the artifact was written with, and the arguments of the       *)
(* report (exporters/cli.py, analysis.py, worker.py), or the labels and    *)
(* the clusters one of its sections counts.                                *)
(*                                                                         *)
(* The variable input is the one input, with the section it is for. The    *)
(* same facts hold for every input of these types.                         *)
(***************************************************************************)
EXTENDS UnifiedReport, Options

Artifact(x) == write_analysis(x.run, x.wrote)
Report(x) == assemble_report(x.run, x.args, Artifact(x))

\* The fields a phase replaces, and the bounds; an emulation has none and exported a block.
WorkerTyped(run, args) ==
    /\ {"index", "artifact"} \subseteq DOMAIN run /\ {"phase", "report"} \subseteq DOMAIN args
    /\ {args.pin_height, args.scan_start_height, args.scan_end_height} \subseteq HeightOption
    /\ args.mode = "emulator" =>
         /\ {args.pin_height, args.scan_start_height, args.scan_end_height, args.max_block} = {None}
         /\ run.blocks # << >>

\* The inputs the facts below are about.
SectionTyped ==
    /\ input.kind = "labels" => SourcesTyped(input.run)
    /\ input.kind = "report" =>
         /\ ExportTyped(input.run) /\ WorkerTyped(input.run, input.wrote)
         /\ input.run.baseline # None => IsFiniteSet(DOMAIN input.run.baseline)
    /\ input.kind = "clusters" => DOMAIN input.labels \subseteq Int /\ IsFiniteSet(DOMAIN input.labels)

\* Producer labels fail closed (emulator_data.py:98-179, 268-302, 406-472).
LabelsClosed == input.kind = "labels" => LabelsFailClosed(input.run)

\* The confusion matrix accounts for every label and detection (comparison.py:130-185).
MatrixCounts == input.kind = "labels" => MatrixCountsEveryLabel(input.run)

\* External misses are transactions BlockSci scanned, whatever bounds the report itself is asked
\* for (normalization.py:171-203).
ScannedMisses == input.kind = "report" => MissesWereScanned(input.run, input.wrote, Report(input))

\* The report counts both sides of its own artifact (cli.py:114-211).
ReportCounts == input.kind = "report" =>
    ReportCountsBothSides(input.run, input.args, Artifact(input), Report(input))

\* Clean diagnostics mean the index is the export (integration_diagnostics.py:192-373).
SoundDiagnostics == input.kind = "report" => DiagnosticsAreSound(input.run, input.wrote, Artifact(input))

\* A worker parses up to the exported tip, in one phase or in parts (worker.py:54-105).
WorkerParses == input.kind = "report" => WorkerParsesTheExport(input.run, input.wrote)

\* Cluster pair counts and cluster lists agree (comparison.py:188-260).
ClustersAgree == input.kind = "clusters" => ClusterCountsAgree(input.labels, input.predicted)

\* A report's numbers are its artifact's: what counts as ground truth is verified and is counted
\* once, and BlockSci is blamed for nothing it was not shown.
ReportIsSound ==
    /\ SectionTyped /\ LabelsClosed /\ MatrixCounts /\ ClustersAgree
    /\ ReportCounts /\ ScannedMisses /\ SoundDiagnostics /\ WorkerParses
=============================================================================
